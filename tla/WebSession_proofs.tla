-------------------------- MODULE WebSession_proofs --------------------------
(***************************************************************************)
(* Theorems about WebSession and the accounts below it, for any number of  *)
(* requests, tabs, addresses, identities and installations.                *)
(***************************************************************************)
EXTENDS WebSession, TLAPS

USE AccountsAssumption, WebAssumption

-----------------------------------------------------------------------------
(* The inductive invariants                                                *)

PCs == {"idle", "look", "write", "done"}

Reqs == [pc : PCs, call : Calls \cup {None}, found : Rows \cup {None},
         before : SUBSET Rows, outcome : Outcomes,
         token : Tokens \cup {None}, owner : Requests \cup {None}]

\* A request that is being handled asks for something.
AccountsTyped ==
  /\ users \subseteq Rows /\ tokens \subseteq Tokens /\ deploy \in Deployments
  /\ req \in [Requests -> Reqs]
  /\ \A r \in Requests : req[r].pc \in {"look", "write"} => req[r].call \in Calls

WebTyped ==
  /\ store \in [token : Tokens \cup {None}, user : Users \cup {None}]
  /\ tabs \in [Tabs -> [page : Pages, shown : Users \cup {None}, submitting : BOOLEAN]]
  /\ waits \in [Requests -> [tab : Tabs \cup {None}, form : BOOLEAN]]
  /\ writer \in Tabs \cup {None}

\* Only a row that an Auth0 identity was given has an address as it was
\* typed, and it has no password.
Good(u) ==
  /\ u \in Rows
  /\ u.auth0Sub = None => Lower[u.email] = u.email
  /\ u.auth0Sub # None => u.password = None /\ u.auth0Sub \notin Requests

\* The table as the unique indexes keep it.
Table ==
  /\ \A u \in users : Good(u)
  /\ \A u, v \in users : u.id = v.id => u = v
  /\ \A u, v \in users : ~Clashes(u, v)

\* What no statement changes in a row.
Keeps(u, v) ==
  /\ v.id = u.id /\ v.auth0Sub = u.auth0Sub /\ v.password = u.password
  /\ u.auth0Sub = None => v.email = u.email /\ v.admin = u.admin

Lives(u) == \E v \in users : Keeps(u, v)

\* The account of a token.
Backed(t) == \E u \in users : u.id = t.id /\ (u.auth0Sub = None => u.email = t.email)

\* What a request read is still there, and what it knows of its caller holds.
Sound(r) ==
  /\ req[r].pc \in {"look", "write"} => \A b \in req[r].before : Lives(b)
  /\ req[r].pc = "write" /\ req[r].found # None => Lives(req[r].found)
  /\ req[r].pc \in {"look", "write"} /\ req[r].call.op = "job" /\ req[r].call.via = "local"
       => req[r].pc = "look" /\ \E t \in tokens : req[r].call.actor = ActorOf(t)
  /\ req[r].pc = "write" /\ req[r].call.op = "job"
       => \A b \in req[r].before : b.auth0Sub # req[r].call.actor.sub
  /\ req[r].token # None => req[r].token \in tokens

AccountInv ==
  /\ AccountsTyped
  /\ Table
  /\ \A u \in users : req[u.id].pc = "done"
  /\ \A t \in tokens : Backed(t)
  /\ \A r \in Requests : Sound(r)

-----------------------------------------------------------------------------
(* Calls and rows                                                          *)

LEMMA CallTypes ==
  ASSUME NEW call \in Calls
  PROVE  /\ call.op \in {"signup", "login"} => call.email \in Spellings /\ call.password \in Passwords
         /\ call.op = "google" => call.profile \in Profiles
         /\ call.op = "job" => /\ call.via \in {"auth0", "dev", "local"}
                               /\ call.via = "auth0" => call.actor \in Actors
                               /\ call.via = "dev" => call.actor = DevActor
                               /\ call.via = "local" => \E t \in Tokens : call.actor = ActorOf(t)
BY DEF Calls

LEMMA RowTypes ==
  ASSUME NEW u \in Rows
  PROVE  /\ u.id \in Requests /\ u.email \in Spellings /\ u.admin \in BOOLEAN
         /\ u.auth0Sub \in Auth0Subs \cup Requests \cup {None}
         /\ u.googleSub \in Subs \cup {None} /\ u.password \in Passwords \cup {None}
BY DEF Rows

LEMMA TokenTypes ==
  ASSUME NEW u \in Rows, NEW p \in {"local", "google", "auth0"}
  PROVE  TokenFor(u, p) \in Tokens
BY DEF TokenFor, Tokens, Rows

\* A statement that the indexes admit leaves the table in order.
LEMMA SavedTable ==
  ASSUME Table, NEW row, Good(row), Admits(row), users' = Saved(row)
  PROVE  Table'
<1>1. \A u \in users' : u = row \/ (u \in users /\ u.id # row.id)
  BY DEF Saved
<1>2. \A u \in users : ~Clashes(u, row) /\ ~Clashes(row, u)
  BY DEF Admits, Clashes
<1>3. ~Clashes(row, row)
  BY DEF Clashes
<1>4. \A u \in users' : Good(u)
  BY <1>1 DEF Table
<1>5. \A u, v \in users' : u.id = v.id => u = v
  BY <1>1 DEF Table
<1>6. \A u, v \in users' : ~Clashes(u, v)
  BY <1>1, <1>2, <1>3 DEF Table
<1>7. QED
  BY <1>4, <1>5, <1>6 DEF Table, Good, Clashes

LEMMA KeepsTransitive ==
  ASSUME NEW u, NEW v, NEW w, Keeps(u, v), Keeps(v, w)
  PROVE  Keeps(u, w)
BY DEF Keeps

\* Rows that live go on living if the written row keeps what it replaces.
LEMMA SavedLives ==
  ASSUME NEW row, users' = Saved(row),
         \A u \in users : u.id = row.id => Keeps(u, row)
  PROVE  /\ \A u \in users : \E v \in users' : Keeps(u, v)
         /\ row \in users'
<1>1. row \in users' /\ \A u \in users : u.id # row.id => u \in users'
  BY DEF Saved
<1>2. \A u : Keeps(u, u)
  BY DEF Keeps
<1>3. QED
  BY <1>1, <1>2

-----------------------------------------------------------------------------
(* Steps of a request                                                      *)

Evolves == \A u \in users : \E v \in users' : Keeps(u, v)

LEMMA SameEvolves == users' = users => Evolves
BY DEF Evolves, Keeps

LEMMA LivesOn ==
  ASSUME Evolves, NEW u, Lives(u)
  PROVE  Lives(u)'
<1>1. PICK v \in users : Keeps(u, v)
  BY DEF Lives
<1>2. PICK w \in users' : Keeps(v, w)
  BY DEF Evolves
<1>3. Keeps(u, w)
  BY <1>1, <1>2, KeepsTransitive
<1>4. QED
  BY <1>3 DEF Lives, Keeps

LEMMA BackedOn ==
  ASSUME Evolves, NEW t, Backed(t)
  PROVE  Backed(t)'
<1>1. PICK u \in users : u.id = t.id /\ (u.auth0Sub = None => u.email = t.email)
  BY DEF Backed
<1>2. PICK v \in users' : Keeps(u, v)
  BY DEF Evolves
<1>3. QED
  BY <1>1, <1>2 DEF Backed, Keeps

\* A step of another request takes nothing away.
LEMMA SoundOn ==
  ASSUME Evolves, tokens \subseteq tokens', NEW q \in Requests, Sound(q), req'[q] = req[q]
  PROVE  Sound(q)'
<1>1. \A b : Lives(b) => \E v \in users' : Keeps(b, v)
  BY LivesOn DEF Lives
<1>2. QED
  BY <1>1 DEF Sound, Lives

LEMMA AnswersMeans ==
  ASSUME AccountsTyped, NEW r \in Requests, NEW outcome \in Outcomes,
         NEW token \in Tokens \cup {None}, NEW owner \in Requests \cup {None},
         Answers(r, outcome, token, owner)
  PROVE  /\ req' \in [Requests -> Reqs]
         /\ \A q \in Requests \ {r} : req'[q] = req[q]
         /\ tokens' = tokens \cup ({token} \ {None})
         /\ req'[r].pc = "done" /\ req'[r].outcome = outcome
         /\ req'[r].token = token /\ req'[r].owner = owner
<1> DEFINE new == [pc |-> "done", call |-> None, found |-> None, before |-> {},
                   outcome |-> outcome, token |-> token, owner |-> owner]
<1>1. req' = [req EXCEPT ![r] = new]
  BY DEF Answers
<1>2. new \in Reqs
  BY DEF Reqs, PCs
<1> HIDE DEF new
<1>3. /\ req' \in [Requests -> Reqs] /\ req'[r] = new
      /\ \A q \in Requests \ {r} : req'[q] = req[q]
  BY <1>1, <1>2 DEF AccountsTyped
<1>4. QED
  BY <1>3 DEF new, Answers

LEMMA GotoMeans ==
  ASSUME AccountsTyped, NEW r \in Requests, NEW found \in Rows \cup {None}, Goto(r, found)
  PROVE  /\ req' \in [Requests -> Reqs]
         /\ req'[r].pc = "write" /\ req'[r].found = found
         /\ req'[r].call = req[r].call /\ req'[r].before = req[r].before
         /\ req'[r].token = req[r].token
         /\ \A q \in Requests \ {r} : req'[q] = req[q]
<1>1. req[r] \in Reqs
  BY DEF AccountsTyped
<1> DEFINE new == [[req[r] EXCEPT !.pc = "write"] EXCEPT !.found = found]
<1>2. req' = [req EXCEPT ![r] = new]
  BY DEF Goto, AccountsTyped
<1>3. /\ new \in Reqs /\ new.pc = "write" /\ new.found = found /\ new.call = req[r].call
      /\ new.before = req[r].before /\ new.token = req[r].token
  BY <1>1 DEF Reqs, PCs
<1> HIDE DEF new
<1>4. QED
  BY <1>2, <1>3 DEF AccountsTyped

\* The answer to a request that wrote nothing, or wrote a good row.
LEMMA AnswersInv ==
  ASSUME AccountInv, NEW r \in Requests, NEW outcome \in Outcomes,
         NEW token \in Tokens \cup {None}, NEW owner \in Requests \cup {None},
         Answers(r, outcome, token, owner),
         Table', Evolves, UNCHANGED deploy,
         \A u \in users' : u.id = r \/ \E v \in users : v.id = u.id,
         token # None => Backed(token)'
  PROVE  AccountInv'
<1>1. /\ req' \in [Requests -> Reqs]
      /\ req'[r].pc = "done" /\ req'[r].token = token
      /\ \A q \in Requests \ {r} : req'[q] = req[q]
      /\ tokens' = tokens \cup ({token} \ {None})
  BY AnswersMeans DEF AccountInv
<1>2. AccountsTyped'
  BY <1>1 DEF AccountInv, AccountsTyped, Table, Good
<1>3. \A u \in users' : req'[u.id].pc = "done"
  BY <1>1, <1>2, RowTypes DEF AccountInv, AccountsTyped
<1>4. \A t \in tokens' : Backed(t)'
  BY <1>1, BackedOn DEF AccountInv
<1>5. \A q \in Requests : Sound(q)'
  <2>1. Sound(r)'
    BY <1>1 DEF Sound
  <2>2. QED
    BY <1>1, <2>1, SoundOn DEF AccountInv
<1>6. QED
  BY <1>2, <1>3, <1>4, <1>5 DEF AccountInv

LEMMA GotoInv ==
  ASSUME AccountInv, NEW r \in Requests, NEW found \in Rows \cup {None},
         Goto(r, found), UNCHANGED <<users, tokens, deploy>>,
         req[r].pc = "look", found # None => found \in users,
         req[r].call.op = "job" => /\ req[r].call.via # "local"
                                   /\ Owners(req[r].call.actor) = {}
  PROVE  AccountInv'
<1>1. /\ req' \in [Requests -> Reqs]
      /\ req'[r].pc = "write" /\ req'[r].found = found
      /\ req'[r].call = req[r].call /\ req'[r].before = req[r].before
      /\ req'[r].token = req[r].token
      /\ \A q \in Requests \ {r} : req'[q] = req[q]
  BY GotoMeans DEF AccountInv
<1>2. Table' /\ Evolves /\ (\A t \in tokens' : Backed(t)')
  BY SameEvolves DEF AccountInv, Table, Good, Clashes, Backed
<1>3. AccountsTyped'
  BY <1>1 DEF AccountInv, AccountsTyped
<1>4. Sound(r)'
  <2>1. \A b \in req[r].before : Lives(b) /\ Lives(b)'
    BY LivesOn, <1>2 DEF AccountInv, Sound
  <2>2. found # None => Lives(found)'
    BY DEF Lives, Keeps
  <2>3. req[r].call.op = "job" => \A b \in req[r].before : b.auth0Sub # req[r].call.actor.sub
    BY <2>1 DEF Lives, Keeps, Owners
  <2>4. QED
    BY <1>1, <2>1, <2>2, <2>3 DEF AccountInv, Sound, Lives
<1>5. \A q \in Requests : Sound(q)'
  BY <1>1, <1>2, <1>4, SoundOn DEF AccountInv
<1>6. \A u \in users' : req'[u.id].pc = "done"
  <2>1. \A u \in users : u.id # r /\ u.id \in Requests
    BY RowTypes DEF AccountInv, AccountsTyped
  <2>2. QED
    BY <1>1, <2>1 DEF AccountInv
<1>7. QED
  BY <1>2, <1>3, <1>5, <1>6 DEF AccountInv

\* What a handler can do: look a row up and go on, refuse, grant what it
\* found, or write a row that is new or keeps what it replaces.
LooksUp(r) ==
  /\ req[r].pc = "look" /\ UNCHANGED <<users, tokens, deploy>>
  /\ req[r].call.op = "job" => /\ req[r].call.via # "local"
                               /\ Owners(req[r].call.actor) = {}
  /\ \E found \in users \cup {None} : Goto(r, found)

Declines(r) ==
  UNCHANGED <<users, deploy>> /\ \E outcome \in Outcomes : Refuses(r, outcome)

\* A token of Google comes of a Google login.
Provider(r, p) == p \in {"local", "google", "auth0"} /\ (p = "google" => req[r].call.op = "google")

Grants(r) ==
  /\ UNCHANGED <<users, deploy>>
  /\ \E u \in users : \/ \E p : Provider(r, p) /\ Answers(r, "ok", TokenFor(u, p), None)
                      \/ Answers(r, "ok", None, u.id)

\* Which rows a statement may replace, and in what.
Replaces(r, u, row) ==
  /\ Keeps(u, row)
  /\ row.email # u.email \/ row.admin # u.admin =>
       req[r].call.op = "job" /\ u.auth0Sub = req[r].call.actor.sub
  /\ u.googleSub # None /\ row.googleSub # u.googleSub =>
       /\ req[r].found # None
       /\ req[r].found.id = u.id /\ req[r].found.googleSub # u.googleSub

Fits(r, row) ==
  /\ Good(row)
  /\ row.id = r \/ \E u \in users : u.id = row.id
  /\ \A u \in users : u.id = row.id => Replaces(r, u, row)

Inserts(r) ==
  /\ req[r].pc = "write" /\ UNCHANGED deploy
  /\ \E row : /\ Fits(r, row) /\ Admits(row) /\ users' = Saved(row)
              /\ \/ \E p : Provider(r, p) /\ Answers(r, "ok", TokenFor(row, p), None)
                 \/ Answers(r, "ok", None, row.id)

Form(r) == LooksUp(r) \/ Declines(r) \/ Grants(r) \/ Inserts(r)

LEMMA WritesForm ==
  ASSUME NEW r \in Requests, NEW row, NEW p, Provider(r, p),
         req[r].pc = "write", Fits(r, row), Writes(r, row, p), UNCHANGED deploy
  PROVE  Form(r)
<1>1. CASE Admits(row)
  BY <1>1 DEF Writes, Form, Inserts
<1>2. CASE ~Admits(row)
  BY <1>2 DEF Writes, Form, Declines, Outcomes
<1>3. QED
  BY <1>1, <1>2

LEMMA FormInv ==
  ASSUME AccountInv, NEW r \in Requests, Form(r)
  PROVE  AccountInv'
<1>1. CASE LooksUp(r)
  BY <1>1, GotoInv DEF LooksUp, AccountInv, AccountsTyped
<1>2. ASSUME UNCHANGED <<users, deploy>>
      PROVE  Table' /\ Evolves /\ (\A t : Backed(t) => Backed(t)')
  BY <1>2, SameEvolves DEF AccountInv, Table, Good, Clashes, Backed
<1>3. CASE Declines(r)
  BY <1>2, <1>3, AnswersInv DEF Declines, Refuses
<1>4. ASSUME NEW row \in Rows, NEW p \in {"local", "google", "auth0"}
      PROVE  /\ TokenFor(row, p) \in Tokens /\ row.id \in Requests
             /\ TokenFor(row, p).id = row.id /\ TokenFor(row, p).email = row.email
  BY TokenTypes, RowTypes DEF TokenFor
<1>5. CASE Grants(r)
  <2>1. PICK u \in users : \/ \E p : Provider(r, p) /\ Answers(r, "ok", TokenFor(u, p), None)
                           \/ Answers(r, "ok", None, u.id)
    BY <1>5 DEF Grants
  <2>2. u \in Rows /\ UNCHANGED <<users, deploy>>
    BY <1>5 DEF Grants, AccountInv, AccountsTyped
  <2>3. \A p \in {"local", "google", "auth0"} : Backed(TokenFor(u, p))
    BY <1>4, <2>2 DEF Backed
  <2>4. QED
    BY <1>2, <1>4, <2>1, <2>2, <2>3, AnswersInv DEF Provider, Outcomes
<1>6. CASE Inserts(r)
  <2>1. PICK row : /\ Fits(r, row) /\ Admits(row) /\ users' = Saved(row)
                   /\ \/ \E p : Provider(r, p) /\ Answers(r, "ok", TokenFor(row, p), None)
                      \/ Answers(r, "ok", None, row.id)
    BY <1>6 DEF Inserts
  <2>2. row \in Rows /\ UNCHANGED deploy
    BY <1>6, <2>1 DEF Inserts, Fits, Good
  <2>3. Table'
    BY <2>1, SavedTable DEF AccountInv, Fits
  <2>4. Evolves /\ row \in users'
    BY <2>1, SavedLives DEF Evolves, Fits, Replaces
  <2>5. \A u \in users' : u.id = r \/ \E v \in users : v.id = u.id
    BY <2>1 DEF Saved, Fits
  <2>6. \A p \in {"local", "google", "auth0"} : Backed(TokenFor(row, p))'
    BY <1>4, <2>2, <2>4 DEF Backed
  <2>7. QED
    BY <1>4, <2>1, <2>2, <2>3, <2>4, <2>5, <2>6, AnswersInv DEF Provider, Outcomes
<1>7. QED
  BY <1>1, <1>3, <1>5, <1>6 DEF Form

\* A row in the making.
LEMMA NewRowGood ==
  ASSUME NEW r \in Requests, NEW e \in Spellings
  PROVE  /\ NewRow(r, e) \in Rows /\ NewRow(r, e).id = r /\ NewRow(r, e).email = e
         /\ NewRow(r, e).auth0Sub = None /\ NewRow(r, e).password = None
BY DEF NewRow, Rows

LEMMA LowerIs ==
  ASSUME NEW e \in Spellings
  PROVE  Lower[e] \in Spellings /\ Lower[Lower[e]] = Lower[e]
OBVIOUS

\* No row bears the name of a request that has not written.
LEMMA Fresh ==
  ASSUME AccountInv, NEW r \in Requests, req[r].pc # "done"
  PROVE  \A u \in users : u.id # r
BY DEF AccountInv

-----------------------------------------------------------------------------
(* The handlers                                                            *)

LEMMA SignupForm ==
  ASSUME AccountInv, NEW r \in Requests, SignupLook(r) \/ SignupWrite(r)
  PROVE  Form(r)
<1>1. CASE SignupLook(r)
  <2>1. CASE Refuses(r, "conflict") /\ UNCHANGED <<users, deploy>>
    BY <2>1 DEF Form, Declines, Outcomes
  <2>2. CASE Goto(r, None) /\ UNCHANGED <<users, tokens, deploy>>
    BY <1>1, <2>2 DEF SignupLook, Handles, Form, LooksUp
  <2>3. QED
    BY <1>1, <2>1, <2>2 DEF SignupLook
<1>2. CASE SignupWrite(r)
  <2>1. /\ req[r].pc = "write" /\ req[r].call \in Calls /\ req[r].call.op = "signup"
        /\ Writes(r, SignupRow(r), "local") /\ UNCHANGED deploy
    BY <1>2 DEF SignupWrite, Handles, AccountInv, AccountsTyped
  <2>2. req[r].call.email \in Spellings /\ req[r].call.password \in Passwords
    BY <2>1, CallTypes
  <2> DEFINE new == NewRow(r, Lower[req[r].call.email])
  <2>3. /\ new \in Rows /\ new.id = r /\ new.auth0Sub = None
        /\ Lower[new.email] = new.email
    BY <2>2, LowerIs, NewRowGood
  <2>4. Good(SignupRow(r)) /\ SignupRow(r).id = r
    <3>1. SignupRow(r) = [new EXCEPT !.password = req[r].call.password]
      BY DEF SignupRow
    <3> HIDE DEF new
    <3>2. QED
      BY <2>2, <2>3, <3>1 DEF Good, Rows
  <2>5. QED
    BY <2>1, <2>4, Fresh, WritesForm DEF Fits, Provider
<1>3. QED
  BY <1>1, <1>2

LEMMA LoginForm ==
  ASSUME AccountInv, NEW r \in Requests, Login(r)
  PROVE  Form(r)
<1>1. CASE Refuses(r, "unauthenticated") /\ UNCHANGED <<users, deploy>>
  BY <1>1 DEF Form, Declines, Outcomes
<1>2. ASSUME NEW u \in users, Answers(r, "ok", TokenFor(u, "local"), None), UNCHANGED <<users, deploy>>
      PROVE  Form(r)
  BY <1>2 DEF Form, Grants, Provider
<1>3. QED
  BY <1>1, <1>2 DEF Login, WithEmail

\* Rows are told apart by their ids.
LEMMA RowOfIs ==
  ASSUME Table, NEW u \in users, NEW id, u.id = id
  PROVE  RowOf(id) = u
BY DEF RowOf, Table

LEMMA GoogleForm ==
  ASSUME AccountInv, NEW r \in Requests, GoogleLook(r) \/ GoogleWrite(r)
  PROVE  Form(r)
<1>1. CASE GoogleLook(r)
  <2>1. req[r].pc = "look" /\ req[r].call.op # "job" /\ UNCHANGED <<users, tokens, deploy>>
    BY <1>1 DEF GoogleLook, Handles
  <2>2. Goto(r, None) \/ \E u \in users : Goto(r, u)
    BY <1>1 DEF GoogleLook
  <2>3. QED
    BY <2>1, <2>2 DEF Form, LooksUp
<1>2. CASE GoogleWrite(r)
  <2>1. /\ req[r].pc = "write" /\ req[r].call \in Calls /\ req[r].call.op = "google"
        /\ Writes(r, GoogleRow(r), "google") /\ UNCHANGED deploy
    BY <1>2 DEF GoogleWrite, Handles, AccountInv, AccountsTyped
  <2>2. /\ req[r].call.profile \in Profiles
        /\ req[r].call.profile.email \in Spellings /\ req[r].call.profile.sub \in Subs
    BY <2>1, CallTypes DEF Subs
  <2>3. CASE req[r].found = None
    <3>1. GoogleRow(r) = [id |-> r, email |-> Lower[req[r].call.profile.email], auth0Sub |-> None,
                          googleSub |-> req[r].call.profile.sub, password |-> None, admin |-> FALSE]
      BY <2>3 DEF GoogleRow, NewRow
    <3>2. Good(GoogleRow(r)) /\ GoogleRow(r).id = r
      BY <2>2, <3>1, LowerIs DEF Good, Rows
    <3>3. QED
      BY <2>1, <3>2, Fresh, WritesForm DEF Fits, Provider
  <2>4. CASE req[r].found # None
    <3>1. PICK u \in users : Keeps(req[r].found, u)
      BY <2>1, <2>4 DEF AccountInv, Sound, Lives
    <3> DEFINE linked == IF req[r].found.googleSub # None THEN req[r].found.googleSub
                                                         ELSE req[r].call.profile.sub
    <3>2. linked \in Subs \cup {None}
      <4>1. req[r].found \in Rows
        BY <2>4 DEF AccountInv, AccountsTyped, Reqs
      <4>2. QED
        BY <2>2, <4>1, RowTypes
    <3>3. RowOf(req[r].found.id) = u
      BY <3>1, RowOfIs DEF AccountInv, Keeps
    <3>4. GoogleRow(r) = [u EXCEPT !.googleSub = linked]
      BY <2>4, <3>3 DEF GoogleRow
    <3>5. Good(u) /\ \A v \in users : v.id = u.id => v = u
      BY DEF AccountInv, Table
    <3> HIDE DEF linked
    <3>6. Good(GoogleRow(r)) /\ Keeps(u, GoogleRow(r)) /\ GoogleRow(r).googleSub = linked
          /\ GoogleRow(r).email = u.email /\ GoogleRow(r).admin = u.admin
      BY <3>2, <3>4, <3>5 DEF Good, Rows, Keeps
    <3>7. u.googleSub # None /\ linked # u.googleSub => req[r].found.googleSub # u.googleSub
      BY DEF linked
    <3>8. Replaces(r, u, GoogleRow(r))
      BY <2>4, <3>1, <3>6, <3>7 DEF Replaces, Keeps
    <3>9. QED
      BY <2>1, <3>5, <3>6, <3>8, WritesForm DEF Keeps, Fits, Provider
  <2>5. QED
    BY <2>3, <2>4
<1>3. QED
  BY <1>1, <1>2

LEMMA DevForm ==
  ASSUME AccountInv, NEW r \in Requests, DevLook(r) \/ DevWrite(r)
  PROVE  Form(r)
<1>1. CASE DevLook(r)
  <2>1. req[r].pc = "look" /\ req[r].call.op # "job" /\ UNCHANGED <<users, deploy>>
    BY <1>1 DEF DevLook, Handles
  <2>2. CASE Refuses(r, "notFound")
    BY <2>1, <2>2 DEF Form, Declines, Outcomes
  <2>3. CASE Goto(r, None) /\ UNCHANGED tokens
    BY <2>1, <2>3 DEF Form, LooksUp
  <2>4. ASSUME NEW u \in users, Answers(r, "ok", TokenFor(u, "auth0"), None)
        PROVE  Form(r)
    BY <2>1, <2>4 DEF Form, Grants, Provider
  <2>5. QED
    BY <1>1, <2>2, <2>3, <2>4 DEF DevLook, WithEmail
<1>2. CASE DevWrite(r)
  <2> DEFINE row == [NewRow(r, DevEmail) EXCEPT !.auth0Sub = DevSub, !.admin = TRUE]
  <2>1. req[r].pc = "write" /\ Writes(r, row, "auth0") /\ UNCHANGED deploy
    BY <1>2 DEF DevWrite, Handles
  <2>2. /\ NewRow(r, DevEmail) \in Rows /\ NewRow(r, DevEmail).id = r
        /\ NewRow(r, DevEmail).password = None
    BY NewRowGood
  <2>3. Good(row) /\ row.id = r
    BY <2>2 DEF Good, Rows, Auth0Subs
  <2> HIDE DEF row
  <2>4. QED
    BY <2>1, <2>3, Fresh, WritesForm DEF Fits, Provider
<1>3. QED
  BY <1>1, <1>2

\* An actor a job may come from, unless it is an account of this API.
LEMMA ActorTypes ==
  ASSUME NEW call \in Calls, call.op = "job", call.via # "local"
  PROVE  /\ call.actor.sub \in Auth0Subs \ (Requests \cup {None})
         /\ call.actor.email \in Spellings /\ call.actor.admin \in BOOLEAN
<1>1. CASE call.actor \in Actors
  BY <1>1 DEF Auth0Subs
<1>2. CASE call.actor = DevActor
  BY <1>2 DEF Auth0Subs, DevActor
<1>3. QED
  BY <1>1, <1>2, CallTypes

\* The owner of a job that a token of this API asks for is the account it names.
LEMMA LocalOwner ==
  ASSUME AccountInv, NEW r \in Requests,
         req[r].pc = "look", req[r].call.op = "job", req[r].call.via = "local"
  PROVE  /\ Owners(req[r].call.actor) # {}
         /\ \A u \in Owners(req[r].call.actor) : u.id = req[r].call.actor.sub
<1>1. PICK t \in tokens : req[r].call.actor = ActorOf(t)
  BY DEF AccountInv, Sound
<1>2. req[r].call.actor.sub = t.id /\ t.id \in Requests
  BY <1>1 DEF ActorOf, AccountInv, AccountsTyped, Tokens
<1>3. \E u \in users : u.id = t.id
  BY DEF AccountInv, Backed
<1>4. \A u \in users : u.auth0Sub # t.id
  BY <1>2 DEF AccountInv, Table, Good
<1>5. QED
  BY <1>2, <1>3, <1>4 DEF Owners

LEMMA OwnerForm ==
  ASSUME AccountInv, NEW r \in Requests, OwnerLook(r) \/ OwnerUpsert(r)
  PROVE  Form(r)
<1>1. CASE OwnerLook(r)
  <2>1. req[r].pc = "look" /\ req[r].call.op = "job" /\ UNCHANGED <<users, deploy>>
    BY <1>1 DEF OwnerLook, Handles
  <2>2. CASE Refuses(r, "unauthenticated")
    BY <2>1, <2>2 DEF Form, Declines, Outcomes
  <2>3. CASE Owners(req[r].call.actor) = {} /\ Goto(r, None) /\ UNCHANGED tokens
    BY <2>1, <2>3, LocalOwner DEF Form, LooksUp
  <2>4. ASSUME NEW u \in users, Answers(r, "ok", None, u.id)
        PROVE  Form(r)
    BY <2>1, <2>4 DEF Form, Grants
  <2>5. QED
    BY <1>1, <2>2, <2>3, <2>4 DEF OwnerLook, Owners
<1>2. CASE OwnerUpsert(r)
  <2> DEFINE actor == req[r].call.actor
             rows  == {u \in users : u.auth0Sub = actor.sub}
  <2>1. req[r].pc = "write" /\ req[r].call.op = "job" /\ req[r].call \in Calls /\ UNCHANGED deploy
    BY <1>2 DEF OwnerUpsert, Handles, AccountInv, AccountsTyped
  <2>2. req[r].call.via # "local"
    BY <2>1 DEF AccountInv, Sound
  <2>3. actor.sub \in Auth0Subs \ (Requests \cup {None}) /\ actor.email \in Spellings
        /\ actor.admin \in BOOLEAN
    BY <2>1, <2>2, ActorTypes
  <2>4. ASSUME NEW base \in Rows, base.password = None, UpsertRow(r) = [base EXCEPT
                  !.auth0Sub = actor.sub, !.email = actor.email, !.admin = actor.admin]
        PROVE  /\ Good(UpsertRow(r)) /\ UpsertRow(r).id = base.id
               /\ UpsertRow(r).auth0Sub = actor.sub /\ UpsertRow(r).password = base.password
               /\ UpsertRow(r).googleSub = base.googleSub
    <3> DEFINE row == UpsertRow(r)
    <3> HIDE DEF row
    <3>1. /\ row \in Rows /\ row.id = base.id /\ row.auth0Sub = actor.sub
          /\ row.password = base.password /\ row.googleSub = base.googleSub
      BY <2>3, <2>4 DEF Rows, row
    <3>2. Good(row)
      BY <2>3, <2>4, <3>1 DEF Good
    <3>3. QED
      BY <3>1, <3>2 DEF row
  <2>5. Fits(r, UpsertRow(r))
    <3>1. CASE rows = {}
      <4>1. UpsertRow(r) = [NewRow(r, actor.email) EXCEPT
                  !.auth0Sub = actor.sub, !.email = actor.email, !.admin = actor.admin]
        BY <3>1 DEF UpsertRow
      <4>2. Good(UpsertRow(r)) /\ UpsertRow(r).id = r
        <5> DEFINE base == NewRow(r, actor.email)
        <5>1. base \in Rows /\ base.id = r /\ base.password = None
          BY <2>3, NewRowGood
        <5> HIDE DEF base
        <5>2. UpsertRow(r) = [base EXCEPT
                  !.auth0Sub = actor.sub, !.email = actor.email, !.admin = actor.admin]
          BY <4>1 DEF base
        <5>3. QED
          BY <2>4, <5>1, <5>2
      <4>3. QED
        BY <2>1, <4>2, Fresh DEF Fits
    <3>2. CASE rows # {}
      <4>1. PICK base \in rows : UpsertRow(r) = [base EXCEPT
                  !.auth0Sub = actor.sub, !.email = actor.email, !.admin = actor.admin]
        BY <3>2 DEF UpsertRow
      <4>2. base \in users /\ base.auth0Sub = actor.sub /\ Good(base)
            /\ \A u \in users : u.id = base.id => u = base
        BY DEF AccountInv, Table
      <4>3. base \in Rows /\ base.password = None
        BY <2>3, <4>2 DEF Good
      <4>4. QED
        BY <2>1, <2>3, <2>4, <4>1, <4>2, <4>3 DEF Keeps, Fits, Replaces
    <3>3. QED
      BY <3>1, <3>2
  <2>6. CASE Admits(UpsertRow(r))
    <3>1. users' = Saved(UpsertRow(r)) /\ Answers(r, "ok", None, UpsertRow(r).id)
      BY <1>2, <2>6 DEF OwnerUpsert
    <3>2. QED
      BY <2>1, <2>5, <2>6, <3>1 DEF Form, Inserts
  <2>7. CASE ~Admits(UpsertRow(r))
    BY <1>2, <2>1, <2>7 DEF OwnerUpsert, Outcomes, Form, Declines
  <2>8. QED
    BY <2>6, <2>7
<1>3. QED
  BY <1>1, <1>2

LEMMA HandleForm ==
  ASSUME AccountInv, NEW r \in Requests, Handle(r)
  PROVE  Form(r)
BY SignupForm, LoginForm, GoogleForm, DevForm, OwnerForm DEF Handle

-----------------------------------------------------------------------------
(* Every step, as the accounts see it                                      *)

Collects(r) ==
  /\ req[r].pc = "done" /\ req' = [req EXCEPT ![r] = [Idle EXCEPT !.pc = "done"]]
  /\ UNCHANGED <<users, tokens, deploy>>

\* A call is made with the token of the storage or by somebody else.
MayAsk(call) ==
  /\ call \in Calls
  /\ call.op = "job" /\ call.via = "local" =>
       store.token # None /\ call.actor = ActorOf(store.token)

Asks(r) == \E call : MayAsk(call) /\ Arrives(r, call)

LEMMA StepForms ==
  ASSUME AccountInv, WebTyped, [Next]_vars
  PROVE  \/ \E r \in Requests : Handle(r) /\ UNCHANGED webVars
         \/ \E r \in Requests : Asks(r)
         \/ \E r \in Requests : Collects(r)
         \/ UNCHANGED accountVars
<1>1. ASSUME NEW t \in Tabs, Open(t) \/ Back(t) \/ Logout(t) \/ StartGoogle(t)
      PROVE  UNCHANGED accountVars
  BY <1>1 DEF Open, Back, Logout, StartGoogle
<1>2. ASSUME NEW t \in Tabs, NEW r \in Requests, TabNext(t, r)
      PROVE  Asks(r) \/ Collects(r) \/ UNCHANGED accountVars
  <2>1. CASE Submit(t, r)
    <3>1. PICK op \in {"signup", "login"}, e \in Spellings, p \in Passwords :
            Arrives(r, [op |-> op, email |-> e, password |-> p])
      BY <2>1 DEF Submit, Sends
    <3>2. [op |-> op, email |-> e, password |-> p] \in Calls
      BY DEF Calls
    <3>3. QED
      BY <3>1, <3>2 DEF Asks, MayAsk
  <2>2. CASE DevClick(t, r)
    <3>1. [op |-> "dev"] \in Calls
      BY DEF Calls
    <3>2. QED
      BY <2>2, <3>1 DEF DevClick, Sends, Asks, MayAsk
  <2>3. CASE CreateJob(t, r)
    <3> DEFINE call == [op |-> "job", via |-> "local", actor |-> ActorOf(store.token)]
    <3>1. store.token # None /\ Arrives(r, call)
      BY <2>3 DEF CreateJob, Sends
    <3>2. call \in Calls
      BY <3>1 DEF Calls, WebTyped
    <3>3. call.op = "job" /\ call.actor = ActorOf(store.token)
      OBVIOUS
    <3> HIDE DEF call
    <3>4. QED
      BY <3>1, <3>2, <3>3 DEF Asks, MayAsk
  <2>4. CASE Answered(t, r)
    BY <2>4 DEF Answered, Collected, Collects
  <2>5. CASE Lost(t, r)
    BY <2>5 DEF Lost
  <2>6. CASE GoogleReturns(t, r)
    <3>1. PICK p \in Profiles : Arrives(r, [op |-> "google", profile |-> p])
      BY <2>6 DEF GoogleReturns, Sends
    <3>2. [op |-> "google", profile |-> p] \in Calls
      BY DEF Calls
    <3>3. QED
      BY <3>1, <3>2 DEF Asks, MayAsk
  <2>7. CASE GoogleAnswered(t, r)
    BY <2>7 DEF GoogleAnswered, Collected, Collects
  <2>8. QED
    BY <1>2, <2>1, <2>2, <2>3, <2>4, <2>5, <2>6, <2>7 DEF TabNext
<1>3. ASSUME NEW r \in Requests, CallsDirectly(r)
      PROVE  Asks(r)
  BY <1>3 DEF CallsDirectly, Asks, MayAsk
<1>4. ASSUME NEW r \in Requests, Dropped(r)
      PROVE  Collects(r)
  BY <1>4 DEF Dropped, Collected, Collects
<1>5. CASE UNCHANGED vars
  BY <1>5 DEF vars, accountVars
<1>6. QED
  BY <1>1, <1>2, <1>3, <1>4, <1>5 DEF Next, Serve

LEMMA ArrivesMeans ==
  ASSUME AccountInv, NEW r \in Requests, NEW call \in Calls, Arrives(r, call)
  PROVE  /\ req' \in [Requests -> Reqs] /\ UNCHANGED <<users, tokens, deploy>>
         /\ req[r].pc = "idle" /\ req'[r].pc = "look" /\ req'[r].call = call
         /\ req'[r].before = users /\ req'[r].token = None
         /\ \A q \in Requests \ {r} : req'[q] = req[q]
<1> DEFINE new == [Idle EXCEPT !.pc = "look", !.call = call, !.before = users]
<1>1. Idle \in Reqs /\ Idle.token = None
  BY DEF Idle, Reqs, PCs, Outcomes
<1>2. /\ new \in Reqs /\ new.pc = "look" /\ new.call = call
      /\ new.before = users /\ new.token = None
  BY <1>1 DEF Reqs, PCs, AccountInv, AccountsTyped
<1>3. req' = [req EXCEPT ![r] = new] /\ req[r].pc = "idle" /\ UNCHANGED <<users, tokens, deploy>>
  BY DEF Arrives
<1> HIDE DEF new
<1>4. QED
  BY <1>2, <1>3 DEF AccountInv, AccountsTyped

LEMMA CollectsMeans ==
  ASSUME AccountInv, NEW r \in Requests, Collects(r)
  PROVE  /\ req' \in [Requests -> Reqs] /\ UNCHANGED <<users, tokens, deploy>>
         /\ req[r].pc = "done" /\ req'[r].pc = "done" /\ req'[r].token = None
         /\ \A q \in Requests \ {r} : req'[q] = req[q]
<1> DEFINE new == [Idle EXCEPT !.pc = "done"]
<1>1. new \in Reqs /\ new.pc = "done" /\ new.token = None
  BY DEF Idle, Reqs, PCs, Outcomes
<1>2. req' = [req EXCEPT ![r] = new]
  BY DEF Collects
<1> HIDE DEF new
<1>3. QED
  BY <1>1, <1>2 DEF AccountInv, AccountsTyped, Collects

TokenKept == store.token # None => store.token \in tokens

LEMMA AccountStep ==
  ASSUME AccountInv, WebTyped, TokenKept, [Next]_vars
  PROVE  AccountInv'
<1>1. ASSUME NEW r \in Requests, Handle(r) PROVE AccountInv'
  BY <1>1, HandleForm, FormInv
<1>2. ASSUME UNCHANGED <<users, tokens, deploy>>
      PROVE  Table' /\ Evolves /\ tokens \subseteq tokens' /\ (\A t \in tokens' : Backed(t)')
  BY <1>2, SameEvolves DEF AccountInv, Table, Good, Clashes, Backed
<1>3. ASSUME NEW r \in Requests, Asks(r) PROVE AccountInv'
  <2>1. PICK call : MayAsk(call) /\ Arrives(r, call)
    BY <1>3 DEF Asks
  <2>2. /\ req' \in [Requests -> Reqs] /\ UNCHANGED <<users, tokens, deploy>>
        /\ req[r].pc = "idle" /\ req'[r].pc = "look" /\ req'[r].call = call
        /\ req'[r].before = users /\ req'[r].token = None
        /\ \A q \in Requests \ {r} : req'[q] = req[q]
    BY <2>1, ArrivesMeans DEF MayAsk
  <2>3. AccountsTyped'
    BY <2>1, <2>2 DEF AccountInv, AccountsTyped, MayAsk
  <2>4. Sound(r)'
    <3>1. \A b \in users : Lives(b)'
      BY <2>2 DEF Lives, Keeps
    <3>2. QED
      BY <2>1, <2>2, <3>1 DEF Sound, MayAsk, TokenKept, Lives
  <2>5. \A q \in Requests : Sound(q)'
    BY <1>2, <2>2, <2>4, SoundOn DEF AccountInv
  <2>6. \A u \in users' : req'[u.id].pc = "done"
    BY <2>2, RowTypes DEF AccountInv, AccountsTyped
  <2>7. QED
    BY <1>2, <2>2, <2>3, <2>5, <2>6 DEF AccountInv
<1>4. ASSUME NEW r \in Requests, Collects(r) PROVE AccountInv'
  <2>1. /\ req' \in [Requests -> Reqs] /\ UNCHANGED <<users, tokens, deploy>>
        /\ req'[r].pc = "done" /\ req'[r].token = None
        /\ \A q \in Requests \ {r} : req'[q] = req[q]
    BY <1>4, CollectsMeans
  <2>2. Sound(r)'
    BY <2>1 DEF Sound
  <2>3. \A q \in Requests : Sound(q)'
    BY <1>2, <2>1, <2>2, SoundOn DEF AccountInv
  <2>4. \A u \in users' : req'[u.id].pc = "done"
    BY <2>1, RowTypes DEF AccountInv, AccountsTyped
  <2>5. QED
    BY <1>2, <2>1, <2>3, <2>4 DEF AccountInv, AccountsTyped
<1>5. CASE UNCHANGED accountVars
  BY <1>5 DEF accountVars, AccountInv, AccountsTyped, Table, Good, Clashes, Backed, Sound, Lives
<1>6. QED
  BY <1>1, <1>3, <1>4, <1>5, StepForms

-----------------------------------------------------------------------------
(* Every step, as the tabs see it                                          *)

\* A request that is no Google login and brings no token of one.
NoGoogle(r) ==
  /\ req[r].pc \in {"look", "write"} => req[r].call.op # "google"
  /\ req[r].token # None => req[r].token.provider # "google"

\* Nothing but the way through Google, which ends at an error, waits for a
\* Google login.
GoogleApart ==
  /\ \A t \in Tabs : tabs[t].page = "google" => deploy.proxied
  /\ \A t \in Tabs, r \in Requests :
       waits[r].tab = t /\ tabs[t].page \in {"login", "app"} => NoGoogle(r)

WebInv == WebTyped /\ TokenKept /\ ShownIsStored /\ GoogleNeverSignsIn /\ GoogleApart

Inv == AccountInv /\ WebInv

LEMMA FormMeans ==
  ASSUME AccountInv, NEW r \in Requests, Form(r)
  PROVE  /\ \A q \in Requests \ {r} : req'[q] = req[q]
         /\ tokens \subseteq tokens' /\ UNCHANGED deploy
         /\ NoGoogle(r) /\ req[r].pc \in {"look", "write"} => NoGoogle(r)'
<1>0. AccountsTyped
  BY DEF AccountInv
<1>1. CASE LooksUp(r)
  <2>1. PICK found \in Rows \cup {None} : Goto(r, found)
    BY <1>1 DEF LooksUp, AccountInv, AccountsTyped
  <2>2. /\ req'[r].pc = "write" /\ req'[r].call = req[r].call /\ req'[r].token = req[r].token
        /\ \A q \in Requests \ {r} : req'[q] = req[q]
    BY <2>1, GotoMeans DEF AccountInv
  <2>3. QED
    BY <1>1, <2>2 DEF LooksUp, NoGoogle
<1>2. CASE Declines(r)
  <2>1. PICK outcome \in Outcomes : Answers(r, outcome, None, None)
    BY <1>2 DEF Declines, Refuses
  <2>2. /\ req'[r].pc = "done" /\ req'[r].token = None /\ tokens \subseteq tokens'
        /\ \A q \in Requests \ {r} : req'[q] = req[q]
    BY <1>0, <2>1, AnswersMeans
  <2>3. QED
    BY <1>2, <2>2 DEF Declines, NoGoogle
<1>3. CASE Grants(r) \/ Inserts(r)
  <2>1. PICK row \in Rows : \/ \E p : Provider(r, p) /\ Answers(r, "ok", TokenFor(row, p), None)
                            \/ Answers(r, "ok", None, row.id)
    BY <1>3 DEF Grants, Inserts, Fits, Good, AccountInv, AccountsTyped
  <2>2. row.id \in Requests /\ "ok" \in Outcomes /\ UNCHANGED deploy
    BY <1>3, RowTypes DEF Outcomes, Grants, Inserts
  <2>3. CASE Answers(r, "ok", None, row.id)
    <3>1. /\ req'[r].pc = "done" /\ req'[r].token = None /\ tokens \subseteq tokens'
          /\ \A q \in Requests \ {r} : req'[q] = req[q]
      BY <1>0, <2>2, <2>3, AnswersMeans
    <3>2. QED
      BY <2>2, <3>1 DEF NoGoogle
  <2>4. ASSUME NEW p, Provider(r, p), Answers(r, "ok", TokenFor(row, p), None)
        PROVE  /\ \A q \in Requests \ {r} : req'[q] = req[q]
               /\ tokens \subseteq tokens'
               /\ NoGoogle(r) /\ req[r].pc \in {"look", "write"} => NoGoogle(r)'
    <3>1. TokenFor(row, p) \in Tokens /\ TokenFor(row, p).provider = p
      BY <2>4, TokenTypes DEF Provider, TokenFor
    <3>2. /\ req'[r].pc = "done" /\ req'[r].token = TokenFor(row, p) /\ tokens \subseteq tokens'
          /\ \A q \in Requests \ {r} : req'[q] = req[q]
      BY <1>0, <2>2, <2>4, <3>1, AnswersMeans
    <3>3. QED
      BY <2>4, <3>1, <3>2 DEF NoGoogle, Provider
  <2>5. QED
    BY <2>1, <2>2, <2>3, <2>4
<1>4. QED
  BY <1>1, <1>2, <1>3 DEF Form

\* What happens to the requests of others changes nothing for a tab.
LEMMA ServeInv ==
  ASSUME Inv, NEW r \in Requests, Handle(r), UNCHANGED webVars
  PROVE  WebInv'
<1>1. /\ \A q \in Requests \ {r} : req'[q] = req[q]
      /\ tokens \subseteq tokens' /\ UNCHANGED deploy
      /\ NoGoogle(r) /\ req[r].pc \in {"look", "write"} => NoGoogle(r)'
  BY HandleForm, FormMeans DEF Inv
<1>2. req[r].pc \in {"look", "write"}
  BY DEF Handle, SignupLook, SignupWrite, Login, GoogleLook, GoogleWrite, DevLook, DevWrite,
         OwnerLook, OwnerUpsert, Handles
<1>3. UNCHANGED <<store, tabs, waits, writer>>
  BY DEF webVars
<1>4. GoogleApart'
  <2>1. \A q \in Requests : NoGoogle(q) => NoGoogle(q)'
    BY <1>1, <1>2 DEF NoGoogle
  <2>2. QED
    BY <1>1, <1>3, <2>1 DEF GoogleApart, Inv, WebInv
<1>5. QED
  BY <1>1, <1>3, <1>4 DEF Inv, WebInv, WebTyped, TokenKept, ShownIsStored, GoogleNeverSignsIn

\* The storage and what is shown of it, after a sign-in or a logout.
LEMMA SignInMeans ==
  ASSUME Inv, NEW r \in Requests, req[r].token # None
  PROVE  /\ req[r].token \in Tokens /\ req[r].token \in tokens
         /\ UserOf(req[r].token) \in Users /\ UserOf(req[r].token) # None
         /\ UserOf(req[r].token).email = req[r].token.email
<1>1. req[r].token \in tokens /\ req[r].token \in Tokens
  BY DEF Inv, AccountInv, AccountsTyped, Sound
<1>2. \A x \in Tokens : UserOf(x) \in Users /\ UserOf(x).email = x.email
  BY DEF UserOf, Users, Tokens
<1>3. QED
  BY <1>1, <1>2

\* A step of a tab that leaves the accounts' rows and tokens alone: what it
\* must see to, to keep WebInv.
LEMMA TabInv ==
  ASSUME Inv, WebTyped', UNCHANGED <<tokens, deploy>>,
         UNCHANGED store \/ (store'.token # None => store'.token \in tokens),
         ShownIsStored', GoogleNeverSignsIn', GoogleApart'
  PROVE  WebInv'
BY DEF Inv, WebInv, TokenKept

\* A step that shows what is stored, or nothing new, and stores nothing.
LEMMA ShownStays ==
  ASSUME Inv, UNCHANGED <<store, writer>>,
         \A t \in Tabs : tabs'[t].page \in {"login", "app"} =>
           \/ tabs'[t].shown = store.user
           \/ tabs[t].page \in {"login", "app"} /\ tabs'[t].shown = tabs[t].shown
  PROVE  ShownIsStored' /\ GoogleNeverSignsIn'
BY DEF Inv, WebInv, ShownIsStored, GoogleNeverSignsIn

\* Waiting for nothing new, on pages where one waited before.
LEMMA WaitsStay ==
  ASSUME Inv, UNCHANGED deploy,
         \A t \in Tabs : tabs'[t].page = "google" => deploy.proxied,
         \A r \in Requests : NoGoogle(r) => NoGoogle(r)',
         \A t \in Tabs, r \in Requests :
           waits'[r].tab = t /\ tabs'[t].page \in {"login", "app"} =>
             \/ waits[r].tab = t /\ tabs[t].page \in {"login", "app"}
             \/ NoGoogle(r)'
  PROVE  GoogleApart'
BY DEF Inv, WebInv, GoogleApart

LEMMA ForgottenMeans ==
  ASSUME WebTyped, NEW t \in Tabs
  PROVE  /\ Forgotten(t) \in [Requests -> [tab : Tabs \cup {None}, form : BOOLEAN]]
         /\ \A u \in Tabs, r \in Requests :
              Forgotten(t)[r].tab = u => u # t /\ waits[r].tab = u
BY DEF WebTyped, Forgotten, NobodyWaits

LEMMA SubmittingTyped ==
  ASSUME NEW P, NEW U, NEW w \in [page : P, shown : U, submitting : BOOLEAN], NEW b \in BOOLEAN
  PROVE  [w EXCEPT !.submitting = b] \in [page : P, shown : U, submitting : BOOLEAN]
OBVIOUS

\* A tab that only enables or disables its form.
LEMMA SubmittingMeans ==
  ASSUME WebTyped, NEW t \in Tabs, NEW b \in BOOLEAN,
         tabs' = [tabs EXCEPT ![t].submitting = b]
  PROVE  /\ tabs' \in [Tabs -> [page : Pages, shown : Users \cup {None}, submitting : BOOLEAN]]
         /\ \A u \in Tabs : tabs'[u].page = tabs[u].page /\ tabs'[u].shown = tabs[u].shown
<1> DEFINE W == [page : Pages, shown : Users \cup {None}, submitting : BOOLEAN]
           new == [tabs[t] EXCEPT !.submitting = b]
<1>1. tabs \in [Tabs -> W]
  BY DEF WebTyped
<1>2. new \in W
  BY <1>1, SubmittingTyped, Zenon
<1>3. new.page = tabs[t].page /\ new.shown = tabs[t].shown
  BY <1>1
<1>4. tabs' = [tabs EXCEPT ![t] = new]
  OBVIOUS
<1> HIDE DEF W, new
<1>5. tabs' \in [Tabs -> W] /\ \A u \in Tabs : tabs'[u] = IF u = t THEN new ELSE tabs[u]
  BY <1>1, <1>2, <1>4
<1>6. \A u \in Tabs : tabs'[u].page = tabs[u].page /\ tabs'[u].shown = tabs[u].shown
  BY <1>3, <1>5
<1>7. QED
  BY <1>5, <1>6 DEF W

LEMMA PagesInv ==
  ASSUME Inv, NEW t \in Tabs, Open(t) \/ Back(t) \/ Logout(t) \/ StartGoogle(t)
  PROVE  WebInv'
<1> USE DEF Inv, WebInv
<1>0. UNCHANGED accountVars /\ UNCHANGED <<tokens, deploy, req>>
  BY DEF Open, Back, Logout, StartGoogle, accountVars
<1>a. \A r \in Requests : NoGoogle(r) => NoGoogle(r)'
  BY <1>0 DEF NoGoogle
<1>1. CASE Open(t)
  <2>1. /\ Loaded \in [page : {"login", "app"}, shown : Users \cup {None}, submitting : BOOLEAN]
        /\ Loaded.shown = store.user
    BY DEF Loaded, WebTyped
  <2>2. tabs' = [tabs EXCEPT ![t] = Loaded] /\ waits' = Forgotten(t) /\ UNCHANGED <<store, writer>>
    BY <1>1 DEF Open
  <2>3. WebTyped'
    BY <2>1, <2>2, ForgottenMeans DEF WebTyped, Pages
  <2>4. ShownIsStored' /\ GoogleNeverSignsIn'
    BY <2>1, <2>2, ShownStays DEF WebTyped
  <2>5. GoogleApart'
    <3>1. \A u \in Tabs : tabs'[u].page = "google" => deploy.proxied
      BY <2>1, <2>2 DEF WebTyped, GoogleApart
    <3>2. \A u \in Tabs, r \in Requests :
            waits'[r].tab = u => u # t /\ waits[r].tab = u /\ tabs'[u] = tabs[u]
      BY <2>2, ForgottenMeans DEF WebTyped
    <3>3. QED
      BY <1>0, <1>a, <3>1, <3>2, WaitsStay
  <2>6. QED
    BY <1>0, <2>2, <2>3, <2>4, <2>5, TabInv
<1>2. CASE Back(t)
  <2>1. /\ tabs' = [tabs EXCEPT ![t].submitting = FALSE] /\ UNCHANGED <<store, writer>>
        /\ waits' = [r \in Requests |-> [waits[r] EXCEPT !.form = @ /\ waits[r].tab # t]]
    BY <1>2 DEF Back
  <2>2. \A u \in Tabs : tabs'[u].page = tabs[u].page /\ tabs'[u].shown = tabs[u].shown
    BY <2>1, SubmittingMeans
  <2>3. \A r \in Requests : waits'[r].tab = waits[r].tab /\ waits'[r].form \in BOOLEAN
                            /\ waits'[r] \in [tab : Tabs \cup {None}, form : BOOLEAN]
    BY <2>1 DEF WebTyped
  <2>4. WebTyped'
    <3>1. tabs' \in [Tabs -> [page : Pages, shown : Users \cup {None}, submitting : BOOLEAN]]
      BY <2>1, SubmittingMeans
    <3>2. waits' \in [Requests -> [tab : Tabs \cup {None}, form : BOOLEAN]]
      BY <2>1, <2>3
    <3>3. QED
      BY <2>1, <3>1, <3>2 DEF WebTyped
  <2>5. ShownIsStored' /\ GoogleNeverSignsIn'
    BY <2>1, <2>2, ShownStays
  <2>6. GoogleApart'
    BY <1>0, <1>a, <2>2, <2>3, WaitsStay DEF GoogleApart
  <2>7. QED
    BY <1>0, <2>1, <2>4, <2>5, <2>6, TabInv
<1>3. CASE Logout(t)
  <2> DEFINE new == [page |-> "login", shown |-> None, submitting |-> FALSE]
  <2>1. /\ tabs[t].page = "app" /\ store' = [token |-> None, user |-> None] /\ writer' = t
        /\ tabs' = [tabs EXCEPT ![t] = new] /\ UNCHANGED waits
    BY <1>3 DEF Logout, EmptyStore
  <2>2. /\ tabs'[t].page = "login" /\ tabs'[t].shown = None
        /\ \A u \in Tabs \ {t} : tabs'[u] = tabs[u]
    BY <2>1 DEF WebTyped
  <2>3. WebTyped'
    BY <2>1 DEF WebTyped, Pages
  <2>4. ShownIsStored' /\ GoogleNeverSignsIn'
    BY <2>1, <2>2 DEF ShownIsStored, GoogleNeverSignsIn
  <2>5. GoogleApart'
    BY <1>0, <1>a, <2>1, <2>2, WaitsStay DEF GoogleApart
  <2>6. QED
    BY <1>0, <2>1, <2>3, <2>4, <2>5, TabInv
<1>4. CASE StartGoogle(t)
  <2> DEFINE new == [Closed EXCEPT !.page = "google"]
  <2>1. /\ deploy.proxied /\ tabs' = [tabs EXCEPT ![t] = new] /\ waits' = Forgotten(t)
        /\ UNCHANGED <<store, writer>>
    BY <1>4 DEF StartGoogle
  <2>2. new.page = "google" /\ new \in [page : Pages, shown : Users \cup {None}, submitting : BOOLEAN]
    BY DEF Closed, Pages
  <2> HIDE DEF new
  <2>3. tabs'[t] = new /\ \A u \in Tabs \ {t} : tabs'[u] = tabs[u]
    BY <2>1 DEF WebTyped
  <2>4. WebTyped'
    BY <2>1, <2>2, ForgottenMeans DEF WebTyped
  <2>5. ShownIsStored' /\ GoogleNeverSignsIn'
    BY <2>1, <2>2, <2>3, ShownStays
  <2>6. GoogleApart'
    <3>1. \A u \in Tabs, r \in Requests :
            waits'[r].tab = u => u # t /\ waits[r].tab = u /\ tabs'[u] = tabs[u]
      BY <2>1, <2>3, ForgottenMeans DEF WebTyped
    <3>2. QED
      BY <1>0, <1>a, <2>1, <2>3, <3>1, WaitsStay DEF GoogleApart
  <2>7. QED
    BY <1>0, <2>1, <2>4, <2>5, <2>6, TabInv
<1>5. QED
  BY <1>1, <1>2, <1>3, <1>4

\* A call of a tab, which goes on showing what it shows.
LEMMA SendsInv ==
  ASSUME Inv, NEW t \in Tabs, NEW r \in Requests, NEW call \in Calls, NEW form \in BOOLEAN,
         Sends(t, r, call, form), call.op = "google" => tabs[t].page = "google",
         tabs' = tabs \/ tabs' = [tabs EXCEPT ![t].submitting = TRUE]
  PROVE  WebInv'
<1> USE DEF Inv, WebInv
<1>1. /\ UNCHANGED <<users, tokens, deploy>> /\ req'[r].pc = "look" /\ req'[r].call = call
      /\ req'[r].token = None /\ \A q \in Requests \ {r} : req'[q] = req[q]
  BY ArrivesMeans DEF Sends
<1>2. waits' = [waits EXCEPT ![r] = [tab |-> t, form |-> form]] /\ UNCHANGED <<store, writer>>
  BY DEF Sends
<1>3. \A u \in Tabs : tabs'[u].page = tabs[u].page /\ tabs'[u].shown = tabs[u].shown
  BY SubmittingMeans
<1>4. WebTyped'
  <2>1. tabs' \in [Tabs -> [page : Pages, shown : Users \cup {None}, submitting : BOOLEAN]]
    <3>1. CASE tabs' = tabs
      BY <3>1 DEF WebTyped
    <3>2. CASE tabs' = [tabs EXCEPT ![t].submitting = TRUE]
      BY <3>2, SubmittingMeans
    <3>3. QED
      BY <3>1, <3>2
  <2>2. waits' \in [Requests -> [tab : Tabs \cup {None}, form : BOOLEAN]]
    BY <1>2 DEF WebTyped
  <2>3. QED
    BY <1>2, <2>1, <2>2 DEF WebTyped
<1>5. ShownIsStored' /\ GoogleNeverSignsIn'
  BY <1>2, <1>3, ShownStays
<1>6. GoogleApart'
  <2>1. waits'[r].tab = t /\ \A q \in Requests \ {r} : waits'[q].tab = waits[q].tab
    BY <1>2 DEF WebTyped
  <2>2. \A q \in Requests \ {r} : NoGoogle(q) => NoGoogle(q)'
    BY <1>1 DEF NoGoogle
  <2>3. tabs[t].page # "google" => NoGoogle(r)'
    BY <1>1 DEF NoGoogle
  <2>4. QED
    BY <1>1, <1>3, <2>1, <2>2, <2>3 DEF GoogleApart
<1>7. QED
  BY <1>1, <1>2, <1>4, <1>5, <1>6, TabInv

\* The end of a request for the tabs.
LEMMA CollectedMeans ==
  ASSUME Inv, NEW r \in Requests, req[r].pc = "done", Collected(r),
         UNCHANGED <<users, tokens, deploy>>
  PROVE  /\ \A q \in Requests : NoGoogle(q) => NoGoogle(q)'
         /\ waits' \in [Requests -> [tab : Tabs \cup {None}, form : BOOLEAN]]
         /\ \A q \in Requests, u \in Tabs : waits'[q].tab = u => waits[q].tab = u
<1>1. /\ req'[r].pc = "done" /\ req'[r].token = None
      /\ \A q \in Requests \ {r} : req'[q] = req[q]
  BY CollectsMeans DEF Inv, Collects, Collected
<1>2. waits' = [waits EXCEPT ![r] = [tab |-> None, form |-> FALSE]]
  BY DEF Collected, NobodyWaits
<1>3. QED
  BY <1>1, <1>2 DEF NoGoogle, Inv, WebInv, WebTyped

LEMMA FailsMeans ==
  ASSUME Inv, NEW t \in Tabs, NEW r \in Requests, Fails(t, r)
  PROVE  /\ tabs' \in [Tabs -> [page : Pages, shown : Users \cup {None}, submitting : BOOLEAN]]
         /\ \A u \in Tabs : tabs'[u].page = tabs[u].page /\ tabs'[u].shown = tabs[u].shown
         /\ UNCHANGED <<store, writer>>
<1> DEFINE s == tabs[t].submitting /\ ~waits[r].form
<1>1. tabs' = [tabs EXCEPT ![t].submitting = s] /\ UNCHANGED <<store, writer>>
  BY DEF Fails
<1>2. s \in BOOLEAN
  OBVIOUS
<1> HIDE DEF s
<1>3. QED
  BY <1>1, <1>2, SubmittingMeans DEF Inv, WebInv

LEMMA TabStep ==
  ASSUME Inv, NEW t \in Tabs, NEW r \in Requests, TabNext(t, r)
  PROVE  WebInv'
<1> USE DEF Inv, WebInv
<1>1. CASE Submit(t, r)
  <2>1. PICK op \in {"signup", "login"}, e \in Spellings, p \in Passwords :
          Sends(t, r, [op |-> op, email |-> e, password |-> p], TRUE)
    BY <1>1 DEF Submit
  <2>2. /\ [op |-> op, email |-> e, password |-> p] \in Calls
        /\ [op |-> op, email |-> e, password |-> p].op # "google"
        /\ tabs' = [tabs EXCEPT ![t].submitting = TRUE]
    BY <1>1 DEF Calls, Submit
  <2>3. QED
    BY <2>1, <2>2, SendsInv
<1>2. CASE DevClick(t, r)
  <2>1. [op |-> "dev"] \in Calls /\ [op |-> "dev"].op # "google"
    BY DEF Calls
  <2>2. QED
    BY <1>2, <2>1, SendsInv DEF DevClick
<1>3. CASE CreateJob(t, r)
  <2> DEFINE call == [op |-> "job", via |-> "local", actor |-> ActorOf(store.token)]
  <2>1. call \in Calls /\ call.op # "google"
    BY <1>3 DEF Calls, CreateJob, WebTyped
  <2>2. Sends(t, r, call, FALSE) /\ tabs' = tabs
    BY <1>3 DEF CreateJob
  <2> HIDE DEF call
  <2>3. QED
    BY <2>1, <2>2, SendsInv
<1>4. CASE Answered(t, r)
  <2>1. /\ waits[r].tab = t /\ req[r].pc = "done" /\ tabs[t].page \in {"login", "app"}
        /\ Collected(r) /\ UNCHANGED <<users, tokens, deploy>>
    BY <1>4 DEF Answered
  <2>2. /\ \A q \in Requests : NoGoogle(q) => NoGoogle(q)'
        /\ waits' \in [Requests -> [tab : Tabs \cup {None}, form : BOOLEAN]]
        /\ \A q \in Requests, u \in Tabs : waits'[q].tab = u => waits[q].tab = u
    BY <2>1, CollectedMeans
  <2>3. CASE req[r].token # None /\ SignsIn(t, r)
    <3> DEFINE user == UserOf(req[r].token)
               new == [page |-> "app", shown |-> user, submitting |-> FALSE]
    <3>1. /\ req[r].token \in Tokens /\ req[r].token \in tokens
          /\ user \in Users /\ user # None /\ user.email = req[r].token.email
      BY <2>3, SignInMeans
    <3>2. req[r].token.provider # "google"
      BY <2>1, <2>3 DEF GoogleApart, NoGoogle
    <3>3. /\ store' = [token |-> req[r].token, user |-> user] /\ writer' = t
          /\ tabs' = [tabs EXCEPT ![t] = new]
      BY <2>3 DEF SignsIn, Persists
    <3>4. /\ new \in [page : Pages, shown : Users \cup {None}, submitting : BOOLEAN]
          /\ new.page = "app" /\ new.shown = user
      BY <3>1 DEF Pages
    <3> HIDE DEF user, new
    <3>5. tabs'[t] = new /\ \A u \in Tabs \ {t} : tabs'[u] = tabs[u]
      BY <3>3 DEF WebTyped
    <3>6. WebTyped'
      BY <2>2, <3>1, <3>3, <3>4 DEF WebTyped
    <3>7. ShownIsStored'
      BY <2>3, <3>1, <3>3, <3>4, <3>5 DEF ShownIsStored
    <3>8. GoogleNeverSignsIn'
      BY <3>2, <3>3 DEF GoogleNeverSignsIn
    <3>9. GoogleApart'
      <4>1. \A u \in Tabs : tabs'[u].page = "google" => deploy.proxied
        BY <3>4, <3>5 DEF GoogleApart
      <4>2. \A u \in Tabs : tabs'[u].page \in {"login", "app"} => u = t \/ tabs'[u] = tabs[u]
        BY <3>5
      <4>3. QED
        BY <2>1, <2>2, <4>1, <4>2, WaitsStay
    <3>10. QED
      BY <2>1, <3>1, <3>3, <3>6, <3>7, <3>8, <3>9, TabInv
  <2>4. CASE Fails(t, r)
    <3>1. /\ tabs' \in [Tabs -> [page : Pages, shown : Users \cup {None}, submitting : BOOLEAN]]
          /\ \A u \in Tabs : tabs'[u].page = tabs[u].page /\ tabs'[u].shown = tabs[u].shown
          /\ UNCHANGED <<store, writer>>
      BY <2>4, FailsMeans
    <3>2. WebTyped'
      BY <2>2, <3>1 DEF WebTyped
    <3>3. ShownIsStored' /\ GoogleNeverSignsIn'
      BY <3>1, ShownStays
    <3>4. GoogleApart'
      <4>1. \A u \in Tabs : tabs'[u].page = "google" => deploy.proxied
        BY <3>1 DEF GoogleApart
      <4>2. QED
        BY <2>1, <2>2, <3>1, <4>1, WaitsStay
    <3>5. QED
      BY <2>1, <3>1, <3>2, <3>3, <3>4, TabInv
  <2>5. QED
    BY <1>4, <2>3, <2>4 DEF Answered
<1>5. CASE Lost(t, r)
  <2>1. /\ waits' = [waits EXCEPT ![r] = NobodyWaits] /\ Fails(t, r) /\ UNCHANGED accountVars
    BY <1>5 DEF Lost
  <2>2. UNCHANGED <<tokens, deploy, req>>
    BY <2>1 DEF accountVars
  <2>3. /\ waits' \in [Requests -> [tab : Tabs \cup {None}, form : BOOLEAN]]
        /\ \A q \in Requests, u \in Tabs : waits'[q].tab = u => waits[q].tab = u
    BY <2>1 DEF WebTyped, NobodyWaits
  <2>4. /\ tabs' \in [Tabs -> [page : Pages, shown : Users \cup {None}, submitting : BOOLEAN]]
        /\ \A u \in Tabs : tabs'[u].page = tabs[u].page /\ tabs'[u].shown = tabs[u].shown
        /\ UNCHANGED <<store, writer>>
    BY <2>1, FailsMeans
  <2>5. WebTyped'
    BY <2>3, <2>4 DEF WebTyped
  <2>6. ShownIsStored' /\ GoogleNeverSignsIn'
    BY <2>4, ShownStays
  <2>7. GoogleApart'
    <3>1. \A q \in Requests : NoGoogle(q) => NoGoogle(q)'
      BY <2>2 DEF NoGoogle
    <3>2. QED
      BY <2>2, <2>3, <2>4, <3>1, WaitsStay DEF GoogleApart
  <2>8. QED
    BY <2>2, <2>4, <2>5, <2>6, <2>7, TabInv
<1>6. CASE GoogleReturns(t, r)
  <2>1. PICK p \in Profiles : Sends(t, r, [op |-> "google", profile |-> p], FALSE)
    BY <1>6 DEF GoogleReturns
  <2>2. [op |-> "google", profile |-> p] \in Calls
    BY DEF Calls
  <2>3. QED
    BY <1>6, <2>1, <2>2, SendsInv DEF GoogleReturns
\* The web server passes the redirect on to the API, which answers 404.
<1>7. CASE GoogleAnswered(t, r)
  <2>1. /\ tabs[t].page = "google" /\ req[r].pc = "done"
        /\ Collected(r) /\ UNCHANGED <<users, tokens, deploy>>
    BY <1>7 DEF GoogleAnswered
  <2>2. PassedOn(RedirectPath)
    BY <2>1 DEF GoogleApart, PassedOn, RedirectPath
  <2>3. tabs' = [tabs EXCEPT ![t].page = "error"] /\ UNCHANGED <<store, writer>>
    BY <1>7, <2>2 DEF GoogleAnswered
  <2>4. /\ \A q \in Requests : NoGoogle(q) => NoGoogle(q)'
        /\ waits' \in [Requests -> [tab : Tabs \cup {None}, form : BOOLEAN]]
        /\ \A q \in Requests, u \in Tabs : waits'[q].tab = u => waits[q].tab = u
    BY <2>1, CollectedMeans
  <2>5. tabs'[t].page = "error" /\ \A u \in Tabs \ {t} : tabs'[u] = tabs[u]
    BY <2>3 DEF WebTyped
  <2>6. WebTyped'
    <3>1. tabs' \in [Tabs -> [page : Pages, shown : Users \cup {None}, submitting : BOOLEAN]]
      BY <2>3, "error" \in Pages DEF WebTyped, Pages
    <3>2. QED
      BY <2>3, <2>4, <3>1 DEF WebTyped
  <2>7. ShownIsStored' /\ GoogleNeverSignsIn'
    BY <2>3, <2>5, ShownStays
  <2>8. GoogleApart'
    BY <2>1, <2>4, <2>5, WaitsStay DEF GoogleApart
  <2>9. QED
    BY <2>1, <2>3, <2>6, <2>7, <2>8, TabInv
<1>8. QED
  BY <1>1, <1>2, <1>3, <1>4, <1>5, <1>6, <1>7 DEF TabNext

LEMMA DropInv ==
  ASSUME Inv, NEW r \in Requests, Dropped(r)
  PROVE  WebInv'
<1> USE DEF Inv, WebInv
<1>1. /\ req[r].pc = "done" /\ Collected(r)
      /\ UNCHANGED <<users, tokens, deploy>> /\ UNCHANGED <<store, tabs, writer>>
  BY DEF Dropped
<1>2. /\ \A q \in Requests : NoGoogle(q) => NoGoogle(q)'
      /\ waits' \in [Requests -> [tab : Tabs \cup {None}, form : BOOLEAN]]
      /\ \A q \in Requests, u \in Tabs : waits'[q].tab = u => waits[q].tab = u
  BY <1>1, CollectedMeans
<1>3. WebTyped'
  BY <1>1, <1>2 DEF WebTyped
<1>4. ShownIsStored' /\ GoogleNeverSignsIn'
  BY <1>1, ShownStays
<1>5. GoogleApart'
  BY <1>1, <1>2, WaitsStay DEF GoogleApart
<1>6. QED
  BY <1>1, <1>3, <1>4, <1>5, TabInv

LEMMA DirectInv ==
  ASSUME Inv, NEW r \in Requests, CallsDirectly(r)
  PROVE  WebInv'
<1> USE DEF Inv, WebInv
<1>1. PICK call \in DirectCalls : Arrives(r, call)
  BY DEF CallsDirectly
<1>2. call \in Calls /\ call.op # "google" /\ UNCHANGED <<store, tabs, waits, writer>>
  BY DEF CallsDirectly, webVars
<1>3. /\ UNCHANGED <<users, tokens, deploy>> /\ req'[r].call = call
      /\ req'[r].token = None /\ \A q \in Requests \ {r} : req'[q] = req[q]
  BY <1>1, <1>2, ArrivesMeans
<1>4. \A q \in Requests : NoGoogle(q) => NoGoogle(q)'
  BY <1>2, <1>3 DEF NoGoogle
<1>5. GoogleApart'
  BY <1>2, <1>3, <1>4, WaitsStay DEF GoogleApart
<1>6. QED
  BY <1>2, <1>3, <1>5 DEF WebTyped, TokenKept, ShownIsStored, GoogleNeverSignsIn

-----------------------------------------------------------------------------
(* The invariant                                                           *)

LEMMA InvInit == Init => Inv
<1> SUFFICES ASSUME Init PROVE Inv
  OBVIOUS
<1> USE DEF Init, AccountsInit
<1>1. AccountInv
  <2>1. Idle \in Reqs /\ Idle.pc = "idle" /\ Idle.token = None
    BY DEF Idle, Reqs, PCs, Outcomes
  <2>2. AccountsTyped
    BY <2>1 DEF AccountsTyped
  <2>3. \A r \in Requests : Sound(r)
    BY <2>1 DEF Sound
  <2>4. QED
    BY <2>2, <2>3 DEF AccountInv, Table
<1>2. WebTyped
  BY DEF WebTyped, Closed, Pages, NobodyWaits
<1>3. ShownIsStored /\ GoogleNeverSignsIn /\ TokenKept
  BY DEF ShownIsStored, GoogleNeverSignsIn, TokenKept
<1>4. GoogleApart
  BY DEF GoogleApart, Closed, NobodyWaits
<1>5. QED
  BY <1>1, <1>2, <1>3, <1>4 DEF Inv, WebInv

LEMMA InvStep == Inv /\ [Next]_vars => Inv'
<1> SUFFICES ASSUME Inv, [Next]_vars PROVE Inv'
  OBVIOUS
<1>1. AccountInv'
  BY AccountStep DEF Inv, WebInv
<1>2. CASE UNCHANGED vars
  <2>1. UNCHANGED <<users, req, tokens, deploy, store, tabs, waits, writer>>
    BY <1>2 DEF vars, accountVars, webVars
  <2>2. QED
    BY <1>1, <2>1 DEF Inv, WebInv, WebTyped, TokenKept, ShownIsStored, GoogleNeverSignsIn,
                      GoogleApart, NoGoogle
<1>3. CASE Next
  BY <1>1, <1>3, PagesInv, TabStep, DirectInv, ServeInv, DropInv DEF Next, Serve, Inv
<1>4. QED
  BY <1>2, <1>3

LEMMA InvHolds == Spec => []Inv
BY InvInit, InvStep, PTL DEF Spec

-----------------------------------------------------------------------------
(* The theorems                                                            *)

\* Every variable keeps its type, and every token names a row by its id.
THEOREM TypeCorrect == Spec => []TypeOK
<1>1. Inv => TypeOK
  <2> SUFFICES ASSUME Inv PROVE TypeOK
    OBVIOUS
  <2>1. \A q \in Reqs : TypeOfRequest(q)
    BY DEF Reqs, PCs, TypeOfRequest
  <2>2. DOMAIN req = Requests /\ \A r \in Requests : TypeOfRequest(req[r])
    BY <2>1 DEF Inv, AccountInv, AccountsTyped
  <2>3. QED
    BY <2>2 DEF Inv, WebInv, WebTyped, AccountInv, AccountsTyped, TypeOK
<1>2. QED
  BY <1>1, InvHolds, PTL

\* An address leads to one account, however signups and logins interleave:
\* the unique index admits one row per address, every row but those of Auth0
\* has its address in lower case, and a token names a row that has its address.
THEOREM OneAccount == Spec => []OneAccountPerEmail
<1>1. Inv => OneAccountPerEmail
  <2> SUFFICES ASSUME Inv, NEW t1 \in tokens, NEW t2 \in tokens,
                      Lower[t1.email] = Lower[t2.email], t1.id # t2.id
               PROVE  \E u \in users : u.id \in {t1.id, t2.id} /\ u.auth0Sub # None
    BY DEF OneAccountPerEmail
  <2>1. PICK u1 \in users : u1.id = t1.id /\ (u1.auth0Sub = None => u1.email = t1.email)
    BY DEF Inv, AccountInv, Backed
  <2>2. PICK u2 \in users : u2.id = t2.id /\ (u2.auth0Sub = None => u2.email = t2.email)
    BY DEF Inv, AccountInv, Backed
  <2>3. u1.auth0Sub = None /\ u2.auth0Sub = None => u1.email = u2.email
    BY <2>1, <2>2 DEF Inv, AccountInv, Table, Good
  <2>4. ~Clashes(u1, u2)
    BY DEF Inv, AccountInv, Table
  <2>5. QED
    BY <2>1, <2>2, <2>3, <2>4 DEF Clashes
<1>2. QED
  BY <1>1, InvHolds, PTL

\* The tab that wrote the storage last shows whom it stored.
THEOREM ShownStored == Spec => []ShownIsStored
BY InvHolds, PTL DEF Inv, WebInv

\* LoginPage.tsx:84 and CallbackPage.tsx promise that a Google login signs the
\* user in. It never does, in any installation: what waits for a Google login is
\* a tab that left the application, and no way back reaches the callback page.
THEOREM GoogleStaysOut == Spec => []GoogleNeverSignsIn
BY InvHolds, PTL DEF Inv, WebInv

\* A step that changes the table writes one row for one request.
LEMMA TableStep ==
  ASSUME Inv, [Next]_vars, users' # users
  PROVE  \E r \in Requests, row \in users' :
           /\ req[r].pc = "write" /\ req'[r].pc = "done"
           /\ Fits(r, row)
           /\ \A u \in users : u.id # row.id => u \in users'
<1>1. PICK r \in Requests : Handle(r)
  <2>1. \A r \in Requests : Asks(r) \/ Collects(r) => users' = users
    BY DEF Asks, Arrives, Collects
  <2>2. UNCHANGED accountVars => users' = users
    BY DEF accountVars
  <2>3. QED
    BY <2>1, <2>2, StepForms DEF Inv, WebInv
<1>2. Inserts(r)
  <2>1. Form(r)
    BY <1>1, HandleForm DEF Inv
  <2>2. QED
    BY <2>1 DEF Form, LooksUp, Declines, Grants
<1>3. PICK row : /\ Fits(r, row) /\ users' = Saved(row)
                 /\ \/ \E p : Provider(r, p) /\ Answers(r, "ok", TokenFor(row, p), None)
                    \/ Answers(r, "ok", None, row.id)
  BY <1>2 DEF Inserts
<1>4. req'[r].pc = "done"
  <2>1. row \in Rows /\ "ok" \in Outcomes /\ AccountsTyped
    BY <1>3 DEF Fits, Good, Outcomes, Inv, AccountInv
  <2>2. CASE Answers(r, "ok", None, row.id)
    BY <2>1, <2>2, RowTypes, AnswersMeans
  <2>3. ASSUME NEW p, Provider(r, p), Answers(r, "ok", TokenFor(row, p), None)
        PROVE  req'[r].pc = "done"
    <3>1. TokenFor(row, p) \in Tokens
      BY <2>1, <2>3, TokenTypes DEF Provider
    <3>2. QED
      BY <2>1, <2>3, <3>1, AnswersMeans
  <2>4. QED
    BY <1>3, <2>2, <2>3
<1>5. QED
  BY <1>2, <1>3, <1>4 DEF Inserts, Saved

\* Claims are written only to a row that was not there when the request came:
\* the identity of a row never changes, and the request that upserts looked
\* for it and found none.
THEOREM ClaimsStay == Spec => ClaimsDoNotRewrite
<1>1. ASSUME Inv, [Next]_vars, NEW u \in users, NEW v \in users',
             v.id = u.id, v.email # u.email \/ v.admin # u.admin
      PROVE  \E r \in Requests : /\ req[r].pc = "write" /\ req'[r].pc = "done"
                                 /\ \A w \in req[r].before : w.id # u.id
  <2>1. \A w \in users' : w.id = v.id => w = v
    BY <1>1, InvStep DEF Inv, AccountInv, Table
  <2>2. u \notin users'
    BY <1>1, <2>1
  <2>3. PICK r \in Requests, row \in users' :
          /\ req[r].pc = "write" /\ req'[r].pc = "done" /\ Fits(r, row)
          /\ \A w \in users : w.id # row.id => w \in users'
    BY <1>1, <2>2, TableStep
  <2>4. row = v
    BY <1>1, <2>1, <2>2, <2>3
  <2>5. req[r].call.op = "job" /\ u.auth0Sub = req[r].call.actor.sub
    BY <1>1, <2>3, <2>4 DEF Fits, Replaces
  <2>6. ASSUME NEW w \in req[r].before PROVE w.id # u.id
    <3>1. PICK x \in users : Keeps(w, x)
      BY <1>1, <2>3 DEF Inv, AccountInv, Sound, Lives
    <3>2. w.auth0Sub # u.auth0Sub
      BY <1>1, <2>3, <2>5 DEF Inv, AccountInv, Sound
    <3>3. x # u
      BY <3>1, <3>2 DEF Keeps
    <3>4. QED
      BY <1>1, <3>1, <3>3 DEF Keeps, Inv, AccountInv, Table
  <2>7. QED
    BY <2>3, <2>6
<1>2. Inv /\ [Next]_vars =>
        [\A u \in users :
           (\E v \in users' : v.id = u.id /\ (v.email # u.email \/ v.admin # u.admin)) =>
             \E r \in Requests : /\ req[r].pc = "write" /\ req'[r].pc = "done"
                                 /\ \A v \in req[r].before : v.id # u.id]_vars
  BY <1>1
<1>3. QED
  BY <1>2, InvHolds, PTL DEF Spec, ClaimsDoNotRewrite

\* A linked identity is overwritten only by what was concluded from an older
\* reading of the row.
THEOREM LinksHold == Spec => LinksKept
<1>1. ASSUME Inv, [Next]_vars, NEW u \in users, u.googleSub # None, u \notin users'
      PROVE  \/ \E v \in users' : v.id = u.id /\ v.googleSub = u.googleSub
             \/ \E r \in Requests :
                  /\ req[r].pc = "write" /\ req'[r].pc = "done" /\ req[r].found # None
                  /\ req[r].found.id = u.id /\ req[r].found.googleSub # u.googleSub
  <2>1. PICK r \in Requests, row \in users' :
          /\ req[r].pc = "write" /\ req'[r].pc = "done" /\ Fits(r, row)
          /\ \A w \in users : w.id # row.id => w \in users'
    BY <1>1, TableStep
  <2>2. row.id = u.id /\ Replaces(r, u, row)
    BY <1>1, <2>1 DEF Fits
  <2>3. QED
    BY <1>1, <2>1, <2>2 DEF Replaces
<1>2. Inv /\ [Next]_vars =>
        [\A u \in users :
           u.googleSub # None /\ u \notin users' =>
             \/ \E v \in users' : v.id = u.id /\ v.googleSub = u.googleSub
             \/ \E r \in Requests :
                  /\ req[r].pc = "write" /\ req'[r].pc = "done" /\ req[r].found # None
                  /\ req[r].found.id = u.id /\ req[r].found.googleSub # u.googleSub]_vars
  BY <1>1
<1>3. QED
  BY <1>2, InvHolds, PTL DEF Spec, LinksKept

\* Only its handler moves a request that is being handled.
LEMMA HandledBy ==
  ASSUME Inv, [Next]_vars, NEW r \in Requests,
         req[r].pc \in {"look", "write"}, req'[r] # req[r]
  PROVE  Handle(r)
<1>1. ASSUME NEW q \in Requests, q # r, Handle(q) PROVE req'[r] = req[r]
  BY <1>1, HandleForm, FormMeans DEF Inv
<1>2. ASSUME NEW q \in Requests, Asks(q) PROVE req'[r] = req[r]
  <2>1. PICK call \in Calls : Arrives(q, call)
    BY <1>2 DEF Asks, MayAsk
  <2>2. req[q].pc = "idle" /\ \A s \in Requests \ {q} : req'[s] = req[s]
    BY <2>1, ArrivesMeans DEF Inv
  <2>3. QED
    BY <2>2
<1>3. ASSUME NEW q \in Requests, Collects(q) PROVE req'[r] = req[r]
  BY <1>3, CollectsMeans DEF Inv
<1>4. QED
  BY <1>1, <1>2, <1>3, StepForms DEF Inv, WebInv, accountVars

\* The account a token names is found by its id, and no row was given that id
\* as an Auth0 identity: it is the owner of the job, or the token is refused.
THEOREM JobsOwned == Spec => JobsFollowTheToken
<1>1. ASSUME Inv, [Next]_vars, NEW r \in Requests,
             req[r].pc \in {"look", "write"}, req'[r].pc = "done",
             req[r].call.op = "job", req[r].call.via = "local"
      PROVE  req'[r].outcome = "unauthenticated" \/ req'[r].owner = req[r].call.actor.sub
  <2>1. req[r].pc = "look" /\ AccountsTyped
    BY <1>1 DEF Inv, AccountInv, Sound
  <2>2. OwnerLook(r)
    <3>1. Handle(r)
      BY <1>1, HandledBy
    <3>2. QED
      BY <1>1, <2>1, <3>1 DEF Handle, SignupLook, SignupWrite, Login, GoogleLook, GoogleWrite,
                              DevLook, DevWrite, OwnerUpsert, Handles
  <2>3. CASE Answers(r, "unauthenticated", None, None)
    BY <2>1, <2>3, AnswersMeans DEF Outcomes
  <2>4. ASSUME NEW u \in Owners(req[r].call.actor), Answers(r, "ok", None, u.id)
        PROVE  req'[r].owner = req[r].call.actor.sub
    <3>1. u.id = req[r].call.actor.sub
      BY <1>1, <2>1, <2>4, LocalOwner DEF Inv
    <3>2. u.id \in Requests
      BY <2>1, <2>4, RowTypes DEF Owners, AccountsTyped
    <3>3. QED
      BY <2>1, <2>4, <3>1, <3>2, AnswersMeans DEF Outcomes
  <2>5. Owners(req[r].call.actor) # {}
    BY <1>1, <2>1, LocalOwner DEF Inv
  <2>6. QED
    BY <2>2, <2>3, <2>4, <2>5 DEF OwnerLook, Refuses
<1>2. Inv /\ [Next]_vars =>
        [\A r \in Requests :
           /\ req[r].pc \in {"look", "write"} /\ req'[r].pc = "done"
           /\ req[r].call.op = "job" /\ req[r].call.via = "local"
           => \/ req'[r].outcome = "unauthenticated"
              \/ req'[r].owner = req[r].call.actor.sub]_vars
  BY <1>1
<1>3. QED
  BY <1>2, InvHolds, PTL DEF Spec, JobsFollowTheToken

\* A row with a password keeps password and address for ever, and its address
\* is in lower case: a login that is refused met no such row.
THEOREM PasswordsHold == Spec => PasswordsOpen
<1>1. ASSUME Inv, [Next]_vars, NEW r \in Requests,
             Handles(r, "look", "login"),
             req'[r].pc = "done", req'[r].outcome = "unauthenticated",
             NEW u \in req[r].before,
             Lower[u.email] = Lower[req[r].call.email], u.password = req[r].call.password
      PROVE  FALSE
  <2> DEFINE call == req[r].call
             good == {w \in WithEmail(Lower[call.email]) : w.password = call.password}
  <2>1. req[r].pc = "look" /\ call.op = "login" /\ call \in Calls /\ AccountsTyped
    BY <1>1 DEF Handles, Inv, AccountInv, AccountsTyped
  <2>2. PICK v \in users : Keeps(u, v)
    BY <1>1, <2>1 DEF Inv, AccountInv, Sound, Lives
  <2>3. Good(u) /\ call.password \in Passwords /\ call.email \in Spellings
    <3>1. call.password \in Passwords /\ call.email \in Spellings
      BY <2>1, CallTypes
    <3>2. Good(v) /\ u \in Rows
      BY <1>1, <2>1 DEF Inv, AccountInv, Table, AccountsTyped, Reqs
    <3>3. u.auth0Sub = None /\ v.email = u.email
      BY <1>1, <2>2, <3>1, <3>2 DEF Good, Keeps
    <3>4. QED
      BY <2>2, <3>1, <3>2, <3>3 DEF Good, Keeps
  <2>4. v \in good
    <3>1. Good(v) /\ u.auth0Sub = None
      BY <1>1, <2>2, <2>3 DEF Good, Inv, AccountInv, Table
    <3>2. v.email = u.email /\ v.password = call.password /\ Lower[u.email] = u.email
      BY <1>1, <2>2, <2>3, <3>1 DEF Keeps, Good
    <3>3. QED
      BY <1>1, <3>2 DEF WithEmail
  <2>5. Handle(r)
    BY <1>1, <2>1, HandledBy
  <2>6. Login(r)
    BY <2>1, <2>5 DEF Handle, SignupLook, SignupWrite, GoogleLook, GoogleWrite,
                      DevLook, DevWrite, OwnerLook, OwnerUpsert, Handles
  <2>7. PICK w \in good : Answers(r, "ok", TokenFor(w, "local"), None)
    BY <2>4, <2>6 DEF Login
  <2>8. TokenFor(w, "local") \in Tokens
    BY <2>1, <2>7, TokenTypes DEF AccountsTyped, WithEmail
  <2>9. req'[r].outcome = "ok"
    BY <2>1, <2>7, <2>8, AnswersMeans DEF Outcomes
  <2>10. QED
    BY <1>1, <2>9
<1>2. Inv /\ [Next]_vars =>
        [\A r \in Requests :
           Handles(r, "look", "login") /\ req'[r].pc = "done" /\ req'[r].outcome = "unauthenticated" =>
             \A u \in req[r].before :
               ~(Lower[u.email] = Lower[req[r].call.email] /\ u.password = req[r].call.password)]_vars
  BY <1>1
<1>3. QED
  BY <1>2, InvHolds, PTL DEF Spec, PasswordsOpen

-----------------------------------------------------------------------------
(* The directory that the accounts implement                               *)

\* The identity of Google that a row holds is one of its address.
Linked(u) ==
  u.auth0Sub = None /\ u.googleSub # None =>
    \E p \in Profiles : p.sub = u.googleSub /\ Lower[p.email] = u.email

\* What a Google login that found a row concludes from it.
Vouched(r) ==
  req[r].pc = "write" /\ req[r].call.op = "google" /\ req[r].found # None =>
    /\ Linked(req[r].found)
    /\ req[r].found.googleSub = None => req[r].found.email = Lower[req[r].call.profile.email]

LinkInv == /\ \A u \in users : Linked(u)
           /\ \A r \in Requests : Vouched(r)

\* What a step does to the directory.
Moves == \/ UNCHANGED users \/ Directory!SignUp \/ Directory!EnterByGoogle
         \/ Directory!Provision \/ Directory!Link \/ Directory!Claim

\* No identity is None.
LEMMA AllClaimsAre ==
  ASSUME NEW c \in AllClaims
  PROVE  c.sub # None /\ c.email \in Spellings /\ c.admin \in BOOLEAN
<1>1. CASE c \in Actors
  BY <1>1
<1>2. CASE c = DevActor
  BY <1>2 DEF DevActor
<1>3. CASE c = [sub |-> DevSub, email |-> DevEmail, admin |-> TRUE]
  BY <1>3
<1> QED BY <1>1, <1>2, <1>3 DEF AllClaims

\* The unique indexes let a row in, or a changed row, as the directory does.
LEMMA EnterMeans ==
  ASSUME NEW row, \A u \in users : u.id # row.id, Admits(row), users' = Saved(row)
  PROVE  Directory!Enter(row)
<1>1. users' = users \cup {row}
  BY DEF Saved
<1>2. \A u \in users : ~Directory!Share(row, u)
  BY DEF Admits, Clashes, Directory!Share
<1> QED BY <1>1, <1>2 DEF Directory!Enter

LEMMA ChangeMeans ==
  ASSUME Table, NEW u \in users, NEW row, row.id = u.id, Admits(row), users' = Saved(row)
  PROVE  Directory!Change(u, row)
<1>1. users' = (users \ {u}) \cup {row}
  BY DEF Saved, Table
<1>2. \A v \in users \ {u} : ~Directory!Share(row, v)
  BY DEF Admits, Clashes, Directory!Share, Table
<1> QED BY <1>1, <1>2 DEF Directory!Change

\* A token is that of a row, or there is none.
LEMMA IssueMeans ==
  ASSUME Moves, NEW u \in users', NEW way \in Directory!WaysIn(u), NEW r,
         Answers(r, "ok", TokenFor(u, way), None)
  PROVE  Directory!Next
<1>1. TokenFor(u, way) = Directory!Token(u, way)
  BY DEF TokenFor, Directory!Token
<1>2. tokens' = tokens \/ tokens' = tokens \cup {Directory!Token(u, way)}
  BY <1>1 DEF Answers
<1>3. UNCHANGED tokens \/ Directory!Issue
  BY <1>2 DEF Directory!Issue
<1> QED BY <1>3 DEF Moves, Directory!Next

LEMMA SilentMeans ==
  ASSUME Moves, UNCHANGED tokens
  PROVE  Directory!Next
BY DEF Moves, Directory!Next

LEMMA RefusesMeans ==
  ASSUME NEW r, NEW outcome, Refuses(r, outcome), UNCHANGED users
  PROVE  Directory!Next
<1>1. UNCHANGED tokens
  BY DEF Refuses, Answers
<1> QED BY <1>1, SilentMeans DEF Moves

LEMMA WritesMeans ==
  ASSUME NEW r, NEW row, NEW way \in Directory!WaysIn(row), Writes(r, row, way),
         Admits(row) /\ users' = Saved(row) => Moves
  PROVE  Directory!Next
<1>1. CASE Admits(row)
  <2>1. users' = Saved(row) /\ Answers(r, "ok", TokenFor(row, way), None)
    BY <1>1 DEF Writes
  <2>2. row \in users'
    BY <2>1 DEF Saved
  <2> QED BY <1>1, <2>1, <2>2, IssueMeans
<1>2. CASE ~Admits(row)
  BY <1>2, RefusesMeans DEF Writes
<1> QED BY <1>1, <1>2

LEMMA SignupDirectory ==
  ASSUME AccountInv, NEW r \in Requests, SignupLook(r) \/ SignupWrite(r)
  PROVE  Directory!Next
<1>1. CASE SignupLook(r)
  BY <1>1, RefusesMeans, SilentMeans DEF SignupLook, Moves
<1>2. CASE SignupWrite(r)
  <2> DEFINE call == req[r].call
             row == SignupRow(r)
  <2>1. req[r].pc = "write" /\ call \in Calls /\ call.op = "signup" /\ Writes(r, row, "local")
    BY <1>2 DEF SignupWrite, Handles, AccountInv, AccountsTyped
  <2>2. call.email \in Spellings /\ call.password \in Passwords
    BY <2>1, CallTypes
  <2>3. row = [Directory!Account(r, Lower[call.email]) EXCEPT !.password = call.password]
    BY DEF SignupRow, NewRow, Directory!Account
  <2>4. row.id = r /\ row.password = call.password /\ row.password # None
    BY <2>2, <2>3 DEF Directory!Account
  <2> HIDE DEF row, call
  <2>5. Admits(row) /\ users' = Saved(row) => Moves
    <3>1. \A u \in users : u.id # row.id
      BY <2>1, <2>4, Fresh
    <3>2. Admits(row) /\ users' = Saved(row) => Directory!Enter(row)
      BY <3>1, EnterMeans
    <3> QED BY <2>2, <2>3, <3>2 DEF Moves, Directory!SignUp
  <2>6. "local" \in Directory!WaysIn(row)
    BY <2>4 DEF Directory!WaysIn
  <2> QED BY <2>1, <2>5, <2>6, WritesMeans
<1> QED BY <1>1, <1>2

LEMMA LoginDirectory ==
  ASSUME AccountInv, NEW r \in Requests, Login(r)
  PROVE  Directory!Next
<1> DEFINE call == req[r].call
<1>1. req[r].call.password \in Passwords /\ UNCHANGED users
  BY CallTypes DEF Login, Handles, AccountInv, AccountsTyped
<1>2. CASE Refuses(r, "unauthenticated")
  BY <1>1, <1>2, RefusesMeans
<1>3. ASSUME NEW u \in users, u.password = req[r].call.password,
             Answers(r, "ok", TokenFor(u, "local"), None)
      PROVE  Directory!Next
  <2>1. "local" \in Directory!WaysIn(u)
    BY <1>1, <1>3 DEF Directory!WaysIn
  <2> QED BY <1>1, <1>3, <2>1, IssueMeans DEF Moves
<1> QED BY <1>2, <1>3 DEF Login, WithEmail

LEMMA GoogleDirectory ==
  ASSUME AccountInv, LinkInv, NEW r \in Requests, GoogleLook(r) \/ GoogleWrite(r)
  PROVE  Directory!Next
<1>1. CASE GoogleLook(r)
  BY <1>1, SilentMeans DEF GoogleLook, Moves
<1>2. CASE GoogleWrite(r)
  <2> DEFINE profile == req[r].call.profile
             found == req[r].found
             row == GoogleRow(r)
  <2>1. /\ req[r].pc = "write" /\ req[r].call \in Calls /\ req[r].call.op = "google"
        /\ Writes(r, row, "google")
    BY <1>2 DEF GoogleWrite, Handles, AccountInv, AccountsTyped
  <2>2. profile \in Profiles /\ profile.sub # None
    BY <2>1, CallTypes
  <2>3. CASE found = None
    <3>1. row = [Directory!Account(r, Lower[profile.email]) EXCEPT !.googleSub = profile.sub]
      BY <2>3 DEF GoogleRow, NewRow, Directory!Account
    <3>2. row.id = r /\ row.googleSub # None
      BY <2>2, <3>1 DEF Directory!Account
    <3> HIDE DEF row, profile
    <3>3. \A u \in users : u.id # row.id
      BY <2>1, <3>2, Fresh
    <3>4. Admits(row) /\ users' = Saved(row) => Moves
      <4>1. Admits(row) /\ users' = Saved(row) => Directory!Enter(row)
        BY <3>3, EnterMeans
      <4> QED BY <2>2, <3>1, <4>1 DEF Moves, Directory!EnterByGoogle
    <3>5. "google" \in Directory!WaysIn(row)
      BY <3>2 DEF Directory!WaysIn
    <3> QED BY <2>1, <3>4, <3>5, WritesMeans
  <2>4. CASE found # None
    <3>1. PICK u \in users : Keeps(found, u)
      BY <2>1, <2>4 DEF AccountInv, Sound, Lives
    <3>2. RowOf(found.id) = u
      BY <3>1, RowOfIs DEF AccountInv, Keeps
    <3>3. PICK p \in Profiles : /\ row = [u EXCEPT !.googleSub = p.sub] /\ p.sub # None
                                /\ u.auth0Sub = None => u.email = Lower[p.email]
      <4>1. /\ Linked(found)
            /\ found.googleSub = None => found.email = Lower[profile.email]
        BY <2>1, <2>4 DEF LinkInv, Vouched
      <4>2. u.auth0Sub = None => found.auth0Sub = None /\ u.email = found.email
        BY <3>1 DEF Keeps
      <4>3. CASE found.googleSub = None
        <5>1. row = [u EXCEPT !.googleSub = profile.sub]
          BY <2>4, <3>2, <4>3 DEF GoogleRow
        <5> QED BY <2>2, <4>1, <4>2, <4>3, <5>1
      <4>4. CASE found.googleSub # None
        <5>1. row = [u EXCEPT !.googleSub = found.googleSub]
          BY <2>4, <3>2, <4>4 DEF GoogleRow
        <5>2. found \in Rows
          BY <2>4 DEF AccountInv, AccountsTyped, Reqs
        <5>3. \E p \in Profiles : p.sub = found.googleSub
          BY <4>4, <5>2, RowTypes DEF Subs
        <5> HIDE DEF found, row
        <5>4. CASE u.auth0Sub = None
          BY <4>1, <4>2, <4>4, <5>1, <5>4 DEF Linked
        <5>5. CASE u.auth0Sub # None
          BY <4>4, <5>1, <5>3, <5>5
        <5> QED BY <5>4, <5>5
      <4> QED BY <4>3, <4>4
    <3>4. u \in Rows /\ row.id = u.id /\ row.googleSub = p.sub
      BY <3>3 DEF AccountInv, AccountsTyped, Rows
    <3> HIDE DEF row, found, profile
    <3>5. Admits(row) /\ users' = Saved(row) => Moves
      <4>1. Admits(row) /\ users' = Saved(row) => Directory!Change(u, row)
        BY <3>4, ChangeMeans DEF AccountInv
      <4> QED BY <3>3, <4>1 DEF Moves, Directory!Link
    <3>6. "google" \in Directory!WaysIn(row)
      BY <3>3, <3>4 DEF Directory!WaysIn
    <3> QED BY <2>1, <3>5, <3>6, WritesMeans
  <2> QED BY <2>3, <2>4
<1> QED BY <1>1, <1>2

LEMMA DevDirectory ==
  ASSUME AccountInv, NEW r \in Requests, DevLook(r) \/ DevWrite(r)
  PROVE  Directory!Next
<1>1. CASE DevLook(r)
  <2>1. ASSUME NEW u \in users, u.email = DevEmail, UNCHANGED users,
               Answers(r, "ok", TokenFor(u, "auth0"), None)
        PROVE  Directory!Next
    <3>1. "auth0" \in Directory!WaysIn(u)
      BY <2>1 DEF Directory!WaysIn
    <3> QED BY <2>1, <3>1, IssueMeans DEF Moves
  <2> QED BY <1>1, <2>1, RefusesMeans, SilentMeans DEF DevLook, Moves, WithEmail
<1>2. CASE DevWrite(r)
  <2> DEFINE row == [NewRow(r, DevEmail) EXCEPT !.auth0Sub = DevSub, !.admin = TRUE]
             claim == [sub |-> DevSub, email |-> DevEmail, admin |-> TRUE]
  <2>1. req[r].pc = "write" /\ Writes(r, row, "auth0")
    BY <1>2 DEF DevWrite, Handles
  <2>2. claim \in AllClaims /\ claim.sub = DevSub /\ claim.email = DevEmail /\ claim.admin = TRUE
    BY DEF AllClaims
  <2>3. row = [Directory!Account(r, DevEmail) EXCEPT !.auth0Sub = DevSub, !.admin = TRUE]
    BY DEF NewRow, Directory!Account
  <2>4. row.id = r /\ row.email = DevEmail
    BY <2>3 DEF Directory!Account
  <2> HIDE DEF row, claim
  <2>5. Admits(row) /\ users' = Saved(row) => Moves
    <3>1. \A u \in users : u.id # row.id
      BY <2>1, <2>4, Fresh
    <3>2. Admits(row) /\ users' = Saved(row) => Directory!Enter(row)
      BY <3>1, EnterMeans
    <3> QED BY <2>2, <2>3, <3>2 DEF Moves, Directory!Provision
  <2>6. "auth0" \in Directory!WaysIn(row)
    BY <2>4 DEF Directory!WaysIn
  <2> QED BY <2>1, <2>5, <2>6, WritesMeans
<1> QED BY <1>1, <1>2

LEMMA OwnerDirectory ==
  ASSUME AccountInv, NEW r \in Requests, OwnerLook(r) \/ OwnerUpsert(r)
  PROVE  Directory!Next
<1>a. \A owner : Answers(r, "ok", None, owner) => UNCHANGED tokens
  BY DEF Answers
<1>1. CASE OwnerLook(r)
  BY <1>a, <1>1, RefusesMeans, SilentMeans DEF OwnerLook, Moves
<1>2. CASE OwnerUpsert(r)
  <2> DEFINE actor == req[r].call.actor
             rows  == {u \in users : u.auth0Sub = actor.sub}
             row   == UpsertRow(r)
  <2>1. req[r].pc = "write" /\ req[r].call.op = "job" /\ req[r].call \in Calls
    BY <1>2 DEF OwnerUpsert, Handles, AccountInv, AccountsTyped
  <2>2. req[r].call.via # "local"
    BY <2>1 DEF AccountInv, Sound
  <2>3. actor \in AllClaims
    BY <2>1, <2>2, CallTypes DEF AllClaims
  <2>4. Admits(row) /\ users' = Saved(row) => Moves
    <3>1. CASE rows = {}
      <4>1. row = [Directory!Account(r, actor.email) EXCEPT !.auth0Sub = actor.sub,
                                                            !.admin = actor.admin]
        <5>1. row = [NewRow(r, actor.email) EXCEPT
                  !.auth0Sub = actor.sub, !.email = actor.email, !.admin = actor.admin]
          BY <3>1 DEF UpsertRow
        <5> DEFINE base == NewRow(r, actor.email)
        <5>2. base \in Rows /\ base.email = actor.email
          BY <2>1, <2>2, ActorTypes, NewRowGood
        <5>3. Directory!Account(r, actor.email) = base
          BY DEF NewRow, Directory!Account
        <5> HIDE DEF row, base
        <5>4. row = [base EXCEPT
                  !.auth0Sub = actor.sub, !.email = actor.email, !.admin = actor.admin]
          BY <5>1 DEF base
        <5> HIDE DEF actor
        <5>5. row = [base EXCEPT !.auth0Sub = actor.sub, !.admin = actor.admin]
          BY <5>2, <5>4 DEF Rows
        <5> QED BY <5>3, <5>5, Zenon
      <4>2. row.id = r
        BY <4>1 DEF Directory!Account
      <4> HIDE DEF row, actor
      <4>3. \A u \in users : u.id # row.id
        BY <2>1, <4>2, Fresh
      <4>4. Admits(row) /\ users' = Saved(row) => Directory!Enter(row)
        BY <4>3, EnterMeans
      <4> QED BY <2>3, <4>1, <4>4 DEF Moves, Directory!Provision
    <3>2. CASE rows # {}
      <4>1. PICK base \in rows : row = [base EXCEPT
                  !.auth0Sub = actor.sub, !.email = actor.email, !.admin = actor.admin]
        BY <3>2 DEF UpsertRow
      <4>2. base \in users /\ base.auth0Sub = actor.sub /\ base \in Rows
        BY DEF AccountInv, AccountsTyped
      <4> HIDE DEF row, actor, rows
      <4>3. row.id = base.id
        BY <4>1, <4>2 DEF Rows
      <4>4. row = [base EXCEPT !.email = actor.email, !.admin = actor.admin]
        BY <4>1, <4>2 DEF Rows
      <4>5. Admits(row) /\ users' = Saved(row) => Directory!Change(base, row)
        BY <4>2, <4>3, ChangeMeans DEF AccountInv
      <4> QED BY <2>3, <4>2, <4>4, <4>5 DEF Moves, Directory!Claim
    <3> QED BY <3>1, <3>2
  <2>5. CASE Admits(row)
    <3>1. users' = Saved(row) /\ Answers(r, "ok", None, row.id)
      BY <1>2, <2>5 DEF OwnerUpsert
    <3> HIDE DEF row
    <3> QED BY <1>a, <2>4, <2>5, <3>1, SilentMeans
  <2>6. CASE ~Admits(row)
    BY <1>2, <2>6, RefusesMeans DEF OwnerUpsert
  <2> QED BY <2>5, <2>6
<1> QED BY <1>1, <1>2

LEMMA HandleDirectory ==
  ASSUME AccountInv, LinkInv, NEW r \in Requests, Handle(r)
  PROVE  Directory!Next
BY SignupDirectory, LoginDirectory, GoogleDirectory, DevDirectory, OwnerDirectory DEF Handle

\* Whatever becomes of the directory, its identities stay ones of the addresses.
LEMMA MovesLinked ==
  ASSUME users \subseteq Rows, Moves, \A u \in users : Linked(u), NEW v \in users'
  PROVE  Linked(v)
<1>0. \A id \in Requests, e \in Spellings :
        Directory!Account(id, e) \in Rows /\ Directory!Account(id, e).googleSub = None
        /\ Directory!Account(id, e).email = e
  BY DEF Directory!Account, Rows
<1>1. CASE v \in users
  BY <1>1
<1>2. ASSUME NEW id \in Requests, NEW e \in Spellings, NEW p \in Passwords,
             v = [Directory!Account(id, Lower[e]) EXCEPT !.password = p]
      PROVE  Linked(v)
  <2> DEFINE base == Directory!Account(id, Lower[e])
  <2>1. base \in Rows /\ base.googleSub = None
    BY <1>0, LowerIs
  <2>2. v = [base EXCEPT !.password = p]
    BY <1>2
  <2> HIDE DEF base
  <2>3. v.googleSub = None
    BY <2>1, <2>2 DEF Rows
  <2> QED BY <2>3 DEF Linked
<1>3. ASSUME NEW id \in Requests, NEW p \in Profiles,
             v = [Directory!Account(id, Lower[p.email]) EXCEPT !.googleSub = p.sub]
      PROVE  Linked(v)
  <2> DEFINE base == Directory!Account(id, Lower[p.email])
  <2>1. base \in Rows /\ base.email = Lower[p.email]
    BY <1>0, LowerIs
  <2>2. v = [base EXCEPT !.googleSub = p.sub]
    BY <1>3
  <2> HIDE DEF base
  <2>3. v.googleSub = p.sub /\ v.email = Lower[p.email]
    BY <2>1, <2>2 DEF Rows
  <2> QED BY <2>3 DEF Linked
<1>4. ASSUME NEW id \in Requests, NEW c \in AllClaims,
             v = [Directory!Account(id, c.email) EXCEPT !.auth0Sub = c.sub, !.admin = c.admin]
      PROVE  Linked(v)
  <2> DEFINE base == Directory!Account(id, c.email)
  <2>1. base \in Rows /\ c.sub # None
    BY <1>0, AllClaimsAre
  <2>2. v = [base EXCEPT !.auth0Sub = c.sub, !.admin = c.admin]
    BY <1>4
  <2> HIDE DEF base
  <2>3. v.auth0Sub = c.sub
    BY <2>1, <2>2 DEF Rows
  <2> QED BY <2>1, <2>3 DEF Linked
<1>5. ASSUME NEW a \in users, NEW p \in Profiles, a.auth0Sub = None => a.email = Lower[p.email],
             v = [a EXCEPT !.googleSub = p.sub]
      PROVE  Linked(v)
  <2>1. v.auth0Sub = a.auth0Sub /\ v.email = a.email /\ v.googleSub = p.sub
    BY <1>5 DEF Rows
  <2> QED BY <1>5, <2>1 DEF Linked
<1>6. ASSUME NEW a \in users, NEW c \in AllClaims, a.auth0Sub = c.sub,
             v = [a EXCEPT !.email = c.email, !.admin = c.admin]
      PROVE  Linked(v)
  <2>1. v.auth0Sub = c.sub /\ c.sub # None
    BY <1>6, AllClaimsAre DEF Rows
  <2> QED BY <2>1 DEF Linked
<1>7. UNCHANGED users => v \in users
  OBVIOUS
<1>8. \A a : Directory!Enter(a) => v \in users \/ v = a
  BY DEF Directory!Enter
<1>9. \A a, b : Directory!Change(a, b) => v \in users \/ v = b
  BY DEF Directory!Change
<1>10. CASE Directory!SignUp
  BY <1>1, <1>2, <1>8, <1>10 DEF Directory!SignUp
<1>11. CASE Directory!EnterByGoogle
  BY <1>1, <1>3, <1>8, <1>11 DEF Directory!EnterByGoogle
<1>12. CASE Directory!Provision
  BY <1>1, <1>4, <1>8, <1>12 DEF Directory!Provision
<1>13. CASE Directory!Link
  BY <1>1, <1>5, <1>9, <1>13 DEF Directory!Link
<1>14. CASE Directory!Claim
  BY <1>1, <1>6, <1>9, <1>14 DEF Directory!Claim
<1> QED BY <1>1, <1>7, <1>10, <1>11, <1>12, <1>13, <1>14 DEF Moves

\* Each step of the system is one of the directory, or none of its business.
LEMMA DirectoryStep ==
  ASSUME Inv, LinkInv, [Next]_vars
  PROVE  Directory!Next \/ UNCHANGED <<users, tokens>>
<1>1. ASSUME NEW r \in Requests, Asks(r) \/ Collects(r) PROVE UNCHANGED <<users, tokens>>
  BY <1>1 DEF Asks, Arrives, Collects
<1>2. UNCHANGED accountVars => UNCHANGED <<users, tokens>>
  BY DEF accountVars
<1> QED BY <1>1, <1>2, StepForms, HandleDirectory DEF Inv, WebInv

\* What a Google login reads, it may rely on.
LEMMA VouchedStep ==
  ASSUME Inv, LinkInv, [Next]_vars, NEW r \in Requests
  PROVE  Vouched(r)'
<1>0. AccountInv /\ AccountsTyped
  BY DEF Inv, AccountInv
<1>1. CASE req'[r] = req[r]
  BY <1>1 DEF LinkInv, Vouched, Linked
<1>2. CASE req'[r] # req[r] /\ req[r].pc \in {"look", "write"}
  <2>1. Handle(r)
    BY <1>2, HandledBy
  <2>2. CASE GoogleLook(r)
    <3> DEFINE p == req[r].call.profile
    <3>1. req[r].call \in Calls /\ req[r].call.op = "google"
      BY <1>2, <2>2 DEF GoogleLook, Handles, Inv, AccountInv, AccountsTyped
    <3>2. p \in Profiles /\ p.sub # None
      BY <3>1, CallTypes
    <3>3. CASE Goto(r, None)
      <4>1. req'[r].found = None
        BY <1>0, <3>3, GotoMeans
      <4> QED BY <4>1 DEF Vouched
    <3>4. ASSUME NEW u \in users, u.googleSub = p.sub \/ u.email = Lower[p.email], Goto(r, u)
          PROVE  Vouched(r)'
      <4>1. u \in Rows /\ Linked(u)
        BY <1>0 DEF AccountsTyped, LinkInv
      <4>2. req'[r].found = u /\ req'[r].call = req[r].call
        BY <1>0, <3>4, <4>1, GotoMeans
      <4> QED BY <3>2, <3>4, <4>1, <4>2 DEF Vouched, Linked
    <3> QED BY <2>2, <3>3, <3>4 DEF GoogleLook
  <2>3. CASE ~GoogleLook(r)
    <3>1. CASE LooksUp(r)
      <4>1. PICK found \in Rows \cup {None} : Goto(r, found)
        BY <1>0, <3>1 DEF LooksUp, AccountsTyped
      <4>2. req[r].pc = "look" /\ req'[r].call = req[r].call
        BY <1>0, <3>1, <4>1, GotoMeans DEF LooksUp
      <4>3. req[r].call.op # "google"
        BY <2>1, <2>3, <4>2 DEF Handle, SignupLook, SignupWrite, Login, GoogleWrite,
                                DevLook, DevWrite, OwnerLook, OwnerUpsert, Handles
      <4> QED BY <4>2, <4>3 DEF Vouched
    <3>2. CASE Declines(r)
      <4>1. PICK outcome \in Outcomes : Answers(r, outcome, None, None)
        BY <3>2 DEF Declines, Refuses
      <4>2. req'[r].pc = "done"
        BY <1>0, <4>1, AnswersMeans
      <4> QED BY <4>2 DEF Vouched
    <3>3. CASE Grants(r) \/ Inserts(r)
      <4>1. PICK row \in Rows : \/ \E p : Provider(r, p) /\ Answers(r, "ok", TokenFor(row, p), None)
                                \/ Answers(r, "ok", None, row.id)
        BY <1>0, <3>3 DEF Grants, Inserts, Fits, Good, AccountsTyped
      <4>2. row.id \in Requests /\ "ok" \in Outcomes
        BY RowTypes DEF Outcomes
      <4>3. CASE Answers(r, "ok", None, row.id)
        <5>1. req'[r].pc = "done"
          BY <1>0, <4>2, <4>3, AnswersMeans
        <5> QED BY <5>1 DEF Vouched
      <4>4. ASSUME NEW p, Provider(r, p), Answers(r, "ok", TokenFor(row, p), None)
            PROVE  Vouched(r)'
        <5>1. TokenFor(row, p) \in Tokens
          BY <4>4, TokenTypes DEF Provider
        <5>2. req'[r].pc = "done"
          BY <1>0, <4>2, <4>4, <5>1, AnswersMeans
        <5> QED BY <5>2 DEF Vouched
      <4> QED BY <4>1, <4>3, <4>4
    <3> QED BY <1>0, <2>1, <3>1, <3>2, <3>3, HandleForm DEF Form
  <2> QED BY <2>2, <2>3
<1>3. CASE req'[r] # req[r] /\ req[r].pc \notin {"look", "write"}
  <2>1. ASSUME NEW q \in Requests, Handle(q) PROVE FALSE
    <3>1. q = r
      BY <1>0, <1>3, <2>1, HandleForm, FormMeans
    <3> QED BY <1>3, <2>1, <3>1 DEF Handle, SignupLook, SignupWrite, Login, GoogleLook, GoogleWrite,
                                  DevLook, DevWrite, OwnerLook, OwnerUpsert, Handles
  <2>2. ASSUME NEW q \in Requests, Asks(q) PROVE req'[r].pc # "write"
    <3>1. PICK call \in Calls : Arrives(q, call)
      BY <2>2 DEF Asks, MayAsk
    <3> QED BY <1>0, <1>3, <3>1, ArrivesMeans
  <2>3. ASSUME NEW q \in Requests, Collects(q) PROVE req'[r].pc # "write"
    BY <1>0, <1>3, <2>3, CollectsMeans
  <2>4. ~UNCHANGED accountVars
    BY <1>3 DEF accountVars
  <2>5. req'[r].pc # "write"
    BY <2>1, <2>2, <2>3, <2>4, StepForms DEF Inv, WebInv
  <2> QED BY <2>5 DEF Vouched
<1> QED BY <1>1, <1>2, <1>3

LEMMA LinkStep == Inv /\ LinkInv /\ [Next]_vars => LinkInv'
<1> SUFFICES ASSUME Inv, LinkInv, [Next]_vars PROVE LinkInv'
  OBVIOUS
<1>1. \A u \in users' : Linked(u)
  <2>1. Moves
    BY DirectoryStep DEF Directory!Next, Moves
  <2> QED BY <2>1, MovesLinked DEF LinkInv, Inv, AccountInv, AccountsTyped
<1>2. \A u \in users' : Linked(u)'
  BY <1>1 DEF Linked
<1> QED BY <1>2, VouchedStep DEF LinkInv

LEMMA LinkHolds == Spec => [](Inv /\ LinkInv)
<1>1. Init => LinkInv
  BY DEF Init, AccountsInit, Idle, LinkInv, Vouched
<1> QED BY <1>1, InvInit, InvStep, LinkStep, PTL DEF Spec

\* Nothing that requests do between each other's look-ups and writes is more
\* than the directory allows in one moment: the unique indexes refuse what
\* another request has made impossible, and what a Google login concluded
\* from a row it read stays true of that row.
THEOREM DirectoryHolds == Spec => ImplementsDirectory
<1>1. Init => Directory!Init
  BY DEF Init, AccountsInit, Directory!Init
<1>2. Inv /\ LinkInv /\ [Next]_vars => [Directory!Next]_(Directory!vars)
  BY DirectoryStep DEF Directory!vars
<1> QED BY <1>1, <1>2, LinkHolds, PTL DEF Spec, ImplementsDirectory, Directory!Spec
=============================================================================
