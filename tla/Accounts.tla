------------------------------ MODULE Accounts ------------------------------
(***************************************************************************)
(* The table User and the five requests of the API that read and write it: *)
(* signup, login, the Google login, the development login, and the first   *)
(* step of creating a job, which resolves the owner the token names.       *)
(*                                                                         *)
(* Each handler looks a row up, awaits, and then writes what it concluded  *)
(* from the row it read: no transaction spans the two, so the steps of     *)
(* several requests interleave.  Only the unique indexes of the table      *)
(* hold them together.  A row is named by the request that inserted it.    *)
(***************************************************************************)
EXTENDS FiniteSets

CONSTANTS Requests,   \* HTTP requests, each handled at most once
          Spellings,  \* e-mail addresses as somebody types them
          Lower,      \* the address without spaces and in lower case
          Passwords,
          Profiles,   \* what Google says of its users: [sub, email]
          Actors,     \* Auth0 tokens: [sub, email, admin]
          DevEmail, DevSub,
          None

ASSUME AccountsAssumption ==
  /\ Lower \in [Spellings -> Spellings]
  /\ \A e \in Spellings : Lower[Lower[e]] = Lower[e]
  /\ DevEmail \in Spellings /\ Lower[DevEmail] = DevEmail
  /\ None \notin Requests \cup Spellings \cup Passwords \cup {DevSub}
  /\ \A p \in Profiles : p.email \in Spellings /\ p.sub # None
  /\ \A a \in Actors : a.email \in Spellings /\ a.admin \in BOOLEAN /\ a.sub \notin Requests \cup {None}
  /\ DevSub \notin Requests

VARIABLES users,  \* the rows of the table
          req,    \* what the API is doing with each request
          tokens, \* the tokens issued so far
          deploy  \* the settings of this installation: never changes

accountVars == <<users, req, tokens, deploy>>

Subs == {p.sub : p \in Profiles}
Auth0Subs == {a.sub : a \in Actors} \cup {DevSub}

Rows == [id : Requests, email : Spellings, auth0Sub : Auth0Subs \cup Requests \cup {None},
         googleSub : Subs \cup {None}, password : Passwords \cup {None}, admin : BOOLEAN]

Tokens == [id : Requests, email : Spellings, admin : BOOLEAN,
           provider : {"local", "google", "auth0"}]

\* Who a request to create a job says it comes from: an Auth0 token, a token of
\* this API, or the developer who sends none.
DevActor == [sub |-> DevSub, email |-> DevEmail, admin |-> FALSE]
ActorOf(token) == [sub |-> token.id, email |-> token.email, admin |-> token.admin]

Calls ==
  [op : {"signup", "login"}, email : Spellings, password : Passwords]
    \cup [op : {"google"}, profile : Profiles]
    \cup [op : {"dev"}]
    \cup [op : {"job"}, via : {"auth0"}, actor : Actors]
    \cup [op : {"job"}, via : {"dev"}, actor : {DevActor}]
    \cup [op : {"job"}, via : {"local"}, actor : {ActorOf(t) : t \in Tokens}]

Outcomes == {"none", "ok", "conflict", "unauthenticated", "notFound", "internal"}

\* pc: what is next; found: the row the handler read; before: the table when
\* the request arrived (no code keeps it, the properties do); token and owner:
\* what the answer grants.
Idle == [pc |-> "idle", call |-> None, found |-> None, before |-> {},
         outcome |-> "none", token |-> None, owner |-> None]

TypeOfRequest(q) ==
  /\ q.pc \in {"idle", "look", "write", "done"}
  /\ q.call \in Calls \cup {None}
  /\ q.found \in Rows \cup {None}
  /\ q.before \subseteq Rows
  /\ q.outcome \in Outcomes
  /\ q.token \in Tokens \cup {None}
  /\ q.owner \in Requests \cup {None}

AccountsInit ==
  /\ users = {}
  /\ req = [r \in Requests |-> Idle]
  /\ tokens = {}

-----------------------------------------------------------------------------
NewRow(r, email) == [id |-> r, email |-> email, auth0Sub |-> None, googleSub |-> None,
                     password |-> None, admin |-> FALSE]

\* Slip: the schema forgets that an address is unique.
ClashesButEmail(u, v) ==
  /\ u.id # v.id
  /\ \/ u.auth0Sub # None /\ u.auth0Sub = v.auth0Sub
     \/ u.googleSub # None /\ u.googleSub = v.googleSub

\* Two rows that the unique indexes do not admit together.
Clashes(u, v) ==
  /\ u.id # v.id
  /\ \/ u.email = v.email
     \/ u.auth0Sub # None /\ u.auth0Sub = v.auth0Sub
     \/ u.googleSub # None /\ u.googleSub = v.googleSub

Admits(row) == \A u \in users : ~Clashes(u, row)

\* INSERT, or UPDATE of the row with the same id.
Saved(row) == {u \in users : u.id # row.id} \cup {row}

\* Slip: the subject of the token is the address.
TokenForEmail(row, provider) ==
  [id |-> row.email, email |-> row.email, admin |-> row.admin, provider |-> provider]

TokenFor(row, provider) ==
  [id |-> row.id, email |-> row.email, admin |-> row.admin, provider |-> provider]

-----------------------------------------------------------------------------
Handles(r, pc, op) == req[r].pc = pc /\ req[r].call.op = op

Goto(r, found) == req' = [req EXCEPT ![r].pc = "write", ![r].found = found]

\* The answer; what was only needed to get there is forgotten.
Answers(r, outcome, token, owner) ==
  /\ req' = [req EXCEPT ![r] =
       [pc |-> "done", call |-> None, found |-> None, before |-> {},
        outcome |-> outcome, token |-> token, owner |-> owner]]
  /\ tokens' = IF token = None THEN tokens ELSE tokens \cup {token}

Refuses(r, outcome) == Answers(r, outcome, None, None)

\* The statement of a write step and the token that follows it, or the
\* unhandled error of a unique index.
Writes(r, row, provider) ==
  IF Admits(row)
  THEN users' = Saved(row) /\ Answers(r, "ok", TokenFor(row, provider), None)
  ELSE users' = users /\ Refuses(r, "internal")

\* A request arrives.
Arrives(r, call) ==
  /\ req[r].pc = "idle"
  /\ req' = [req EXCEPT ![r] = [Idle EXCEPT !.pc = "look", !.call = call, !.before = users]]
  /\ UNCHANGED <<users, tokens, deploy>>

-----------------------------------------------------------------------------
WithEmail(email) == {u \in users : u.email = email}

SignupLook(r) ==
  /\ Handles(r, "look", "signup")
  /\ IF WithEmail(Lower[req[r].call.email]) # {}
     THEN Refuses(r, "conflict")
     ELSE Goto(r, None) /\ UNCHANGED tokens
  /\ UNCHANGED <<users, deploy>>

\* Slip: the address is stored as it was typed.
SignupRowAsTyped(r) ==
  [NewRow(r, req[r].call.email) EXCEPT !.password = req[r].call.password]

\* After the password was hashed.
SignupRow(r) ==
  [NewRow(r, Lower[req[r].call.email]) EXCEPT !.password = req[r].call.password]

SignupWrite(r) ==
  /\ Handles(r, "write", "signup")
  /\ Writes(r, SignupRow(r), "local")
  /\ UNCHANGED deploy

\* The hash is compared with the row that was read: one read, no write.
Login(r) ==
  /\ Handles(r, "look", "login")
  /\ LET call == req[r].call
         good == {u \in WithEmail(Lower[call.email]) : u.password = call.password}
     IN IF good = {} THEN Refuses(r, "unauthenticated")
        ELSE \E u \in good : Answers(r, "ok", TokenFor(u, "local"), None)
  /\ UNCHANGED <<users, deploy>>

\* findFirst without an order: when the identity and the address name two
\* rows, either may come.
GoogleLook(r) ==
  /\ Handles(r, "look", "google")
  /\ LET p == req[r].call.profile
         rows == {u \in users : u.googleSub = p.sub \/ u.email = Lower[p.email]}
     IN IF rows = {} THEN Goto(r, None) ELSE \E u \in rows : Goto(r, u)
  /\ UNCHANGED <<users, tokens, deploy>>

RowOf(id) == CHOOSE u \in users : u.id = id

\* Slip: the identity is written over the one the row already holds.
GoogleRowRelinked(r) ==
  LET q == req[r] IN
  IF q.found = None
  THEN [NewRow(r, Lower[q.call.profile.email]) EXCEPT !.googleSub = q.call.profile.sub]
  ELSE [RowOf(q.found.id) EXCEPT !.googleSub = q.call.profile.sub]

\* Slip: the address that Google reports is written over the one of the row.
GoogleRowReaddressed(r) ==
  LET q == req[r] IN
  IF q.found = None
  THEN [NewRow(r, Lower[q.call.profile.email]) EXCEPT !.googleSub = q.call.profile.sub]
  ELSE [RowOf(q.found.id) EXCEPT !.googleSub = q.call.profile.sub,
                                 !.email = q.call.profile.email]

\* The row of a first login, or the row with the identity filled in: the
\* value is computed from the row as it was read.
GoogleRow(r) ==
  LET q == req[r]
      linked == IF q.found.googleSub # None THEN q.found.googleSub ELSE q.call.profile.sub
  IN IF q.found = None
     THEN [NewRow(r, Lower[q.call.profile.email]) EXCEPT !.googleSub = q.call.profile.sub]
     ELSE [RowOf(q.found.id) EXCEPT !.googleSub = linked]

GoogleWrite(r) ==
  /\ Handles(r, "write", "google")
  /\ Writes(r, GoogleRow(r), "google")
  /\ UNCHANGED deploy

DevLook(r) ==
  /\ Handles(r, "look", "dev")
  /\ IF ~deploy.dev THEN Refuses(r, "notFound")
     ELSE IF WithEmail(DevEmail) = {} THEN Goto(r, None) /\ UNCHANGED tokens
     ELSE \E u \in WithEmail(DevEmail) : Answers(r, "ok", TokenFor(u, "auth0"), None)
  /\ UNCHANGED <<users, deploy>>

DevWrite(r) ==
  /\ Handles(r, "write", "dev")
  /\ Writes(r, [NewRow(r, DevEmail) EXCEPT !.auth0Sub = DevSub, !.admin = TRUE], "auth0")
  /\ UNCHANGED deploy

-----------------------------------------------------------------------------
(* Creating a job.  The token was checked; who it names is looked up.      *)

\* Once Auth0 is configured its issuer, audience and keys are asked of every
\* token, so that one signed by this API is refused; in development a request
\* without a token comes from DevActor.
Verified(call) == \/ call.via = "auth0" /\ deploy.auth0
                  \/ call.via = "local" /\ ~deploy.auth0
                  \/ call.via = "dev" /\ deploy.dev

\* Slip: the row is upserted without looking for it first.
OwnersUnknown(actor) == {}

\* Slip: only the legacy identity is looked for.
OwnersLegacy(actor) == {u \in users : u.auth0Sub = actor.sub}

Owners(actor) == {u \in users : u.id = actor.sub \/ u.auth0Sub = actor.sub}

OwnerLook(r) ==
  /\ Handles(r, "look", "job")
  /\ IF ~Verified(req[r].call) THEN Refuses(r, "unauthenticated")
     ELSE LET rows == Owners(req[r].call.actor) IN
          IF rows = {} THEN Goto(r, None) /\ UNCHANGED tokens
          ELSE \E u \in rows : Answers(r, "ok", None, u.id)
  /\ UNCHANGED <<users, deploy>>

\* INSERT ... ON CONFLICT (auth0Sub) DO UPDATE: the claims of the token are
\* written whether the row is new or was inserted since it was looked for.
UpsertRow(r) ==
  LET actor == req[r].call.actor
      rows  == {u \in users : u.auth0Sub = actor.sub}
      base  == IF rows = {} THEN NewRow(r, actor.email) ELSE CHOOSE u \in rows : TRUE
  IN [base EXCEPT !.auth0Sub = actor.sub, !.email = actor.email, !.admin = actor.admin]

OwnerUpsert(r) ==
  /\ Handles(r, "write", "job")
  /\ LET row == UpsertRow(r) IN
     IF Admits(row) THEN users' = Saved(row) /\ Answers(r, "ok", None, row.id)
                    ELSE users' = users /\ Refuses(r, "internal")
  /\ UNCHANGED deploy

\* The API runs one request one step further.
Handle(r) == \/ SignupLook(r) \/ SignupWrite(r)
             \/ Login(r)
             \/ GoogleLook(r) \/ GoogleWrite(r)
             \/ DevLook(r) \/ DevWrite(r)
             \/ OwnerLook(r) \/ OwnerUpsert(r)
=============================================================================
