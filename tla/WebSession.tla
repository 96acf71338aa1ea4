----------------------------- MODULE WebSession -----------------------------
(***************************************************************************)
(* The browser's side of a session (auth-client.ts, WebAuthProvider.tsx,   *)
(* LoginPage.tsx, CallbackPage.tsx, RequireAuth.tsx), on top of the API's  *)
(* accounts.  The token and the user are kept in localStorage, which every *)
(* tab shares; each tab keeps the user it shows in React state, read from  *)
(* the storage when the tab loads and written by its own logins.           *)
(*                                                                         *)
(* A tab may wait for several answers: only the form is disabled while its *)
(* own call is pending, and the page that sent a call may be gone when the *)
(* answer comes.  Other clients call the API directly.                     *)
(***************************************************************************)
EXTENDS Accounts

CONSTANTS Tabs,
          Deployments, \* installations: [dev, auth0, google, proxied]
          DirectCalls  \* jobs that clients other than the browser create

\* The user an answer describes; the callback knows no id and takes the e-mail.
Users == [id : Requests \cup Spellings, email : Spellings, admin : BOOLEAN]
UserOf(token) == [id |-> token.id, email |-> token.email, admin |-> token.admin]

ASSUME WebAssumption ==
  /\ Deployments \subseteq [dev : BOOLEAN, auth0 : BOOLEAN, google : BOOLEAN, proxied : BOOLEAN]
  /\ None \notin Tabs /\ None \notin Users
  /\ DirectCalls \subseteq {call \in Calls : call.op = "job" /\ call.via # "local"}

VARIABLES store,  \* localStorage: the token and the user
          tabs,   \* what each tab shows
          waits,  \* which tab waits for the answer to a request, and how
          writer  \* the tab that wrote the storage last

webVars == <<store, tabs, waits, writer>>
vars == <<accountVars, webVars>>

Pages == {"closed", "login", "app", "google", "error"}
Closed == [page |-> "closed", shown |-> None, submitting |-> FALSE]

TypeOK ==
  /\ users \subseteq Rows /\ tokens \subseteq Tokens /\ deploy \in Deployments
  /\ DOMAIN req = Requests /\ \A r \in Requests : TypeOfRequest(req[r])
  /\ store \in [token : Tokens \cup {None}, user : Users \cup {None}]
  /\ tabs \in [Tabs -> [page : Pages, shown : Users \cup {None}, submitting : BOOLEAN]]
  /\ waits \in [Requests -> [tab : Tabs \cup {None}, form : BOOLEAN]]
  /\ writer \in Tabs \cup {None}

NobodyWaits == [tab |-> None, form |-> FALSE]

Init ==
  /\ deploy \in Deployments
  /\ AccountsInit
  /\ store = [token |-> None, user |-> None]
  /\ tabs = [t \in Tabs |-> Closed]
  /\ waits = [r \in Requests |-> NobodyWaits]
  /\ writer = None

-----------------------------------------------------------------------------
\* A page that loads reads the storage; RequireAuth and LoginPage then show
\* the application or the form.
Loaded == [page |-> IF store.user = None THEN "login" ELSE "app",
           shown |-> store.user, submitting |-> FALSE]

Forgotten(t) == [r \in Requests |-> IF waits[r].tab = t THEN NobodyWaits ELSE waits[r]]

\* Opening the application, or reloading it: what the old page waited for is lost.
Open(t) ==
  /\ tabs' = [tabs EXCEPT ![t] = Loaded]
  /\ waits' = Forgotten(t)
  /\ UNCHANGED <<accountVars, store, writer>>

Sends(t, r, call, form) ==
  /\ Arrives(r, call)
  /\ waits' = [waits EXCEPT ![r] = [tab |-> t, form |-> form]]
  /\ UNCHANGED <<store, writer>>

\* The form and its two modes; a web server that does not pass /auth on
\* answers the request itself, with an error and no change but the message.
Submit(t, r) ==
  /\ tabs[t].page = "login" /\ ~tabs[t].submitting /\ deploy.proxied
  /\ \E op \in {"signup", "login"}, e \in Spellings, p \in Passwords :
       Sends(t, r, [op |-> op, email |-> e, password |-> p], TRUE)
  /\ tabs' = [tabs EXCEPT ![t].submitting = TRUE]

\* The button of the development login waits for the form, never for itself.
DevClick(t, r) ==
  /\ tabs[t].page = "login" /\ ~tabs[t].submitting /\ deploy.dev /\ deploy.proxied
  /\ Sends(t, r, [op |-> "dev"], FALSE)
  /\ UNCHANGED tabs

\* Another entry of the history is visited: the form is mounted anew, and no
\* longer waits for what the old one sent.
Back(t) ==
  /\ tabs[t].page = "login"
  /\ tabs' = [tabs EXCEPT ![t].submitting = FALSE]
  /\ waits' = [r \in Requests |-> [waits[r] EXCEPT !.form = @ /\ waits[r].tab # t]]
  /\ UNCHANGED <<accountVars, store, writer>>

Persists(t, token, user) ==
  /\ store' = [token |-> token, user |-> user]
  /\ writer' = t

\* The request is over for everybody; only the tokens it issued live on.
Collected(r) ==
  /\ req' = [req EXCEPT ![r] = [Idle EXCEPT !.pc = "done"]]
  /\ waits' = [waits EXCEPT ![r] = NobodyWaits]

SignsIn(t, r) ==
  /\ Persists(t, req[r].token, UserOf(req[r].token))
  /\ tabs' = [tabs EXCEPT ![t] = [page |-> "app", shown |-> UserOf(req[r].token),
                                  submitting |-> FALSE]]

\* An error, shown as a message; the form can be sent again if it is the one
\* that sent this call.
Fails(t, r) ==
  /\ tabs' = [tabs EXCEPT ![t].submitting = @ /\ ~waits[r].form]
  /\ UNCHANGED <<store, writer>>

\* The answer to a login arrives, whatever the tab shows meanwhile.
Answered(t, r) ==
  /\ waits[r].tab = t /\ req[r].pc = "done" /\ tabs[t].page \in {"login", "app"}
  /\ Collected(r)
  /\ IF req[r].token # None THEN SignsIn(t, r) ELSE Fails(t, r)
  /\ UNCHANGED <<users, tokens, deploy>>

\* The network loses the call or its answer; the API may still run it.
Lost(t, r) ==
  /\ waits[r].tab = t /\ tabs[t].page \in {"login", "app"}
  /\ waits' = [waits EXCEPT ![r] = NobodyWaits]
  /\ Fails(t, r)
  /\ UNCHANGED accountVars

EmptyStore == store' = [token |-> None, user |-> None]

\* Slip: the tab forgets the user and leaves the storage as it is.
LogoutShownOnly(t) ==
  /\ tabs[t].page = "app"
  /\ tabs' = [tabs EXCEPT ![t] = [page |-> "login", shown |-> None, submitting |-> FALSE]]
  /\ writer' = t
  /\ UNCHANGED <<accountVars, store, waits>>

Logout(t) ==
  /\ tabs[t].page = "app"
  /\ EmptyStore /\ writer' = t
  /\ tabs' = [tabs EXCEPT ![t] = [page |-> "login", shown |-> None, submitting |-> FALSE]]
  /\ UNCHANGED <<accountVars, waits>>

-----------------------------------------------------------------------------
(* Google.  The tab leaves the application for /auth/google and comes back *)
(* by the redirect of the API.                                             *)

StartGoogle(t) ==
  /\ tabs[t].page = "login" /\ ~tabs[t].submitting /\ deploy.google /\ deploy.proxied
  /\ tabs' = [tabs EXCEPT ![t] = [Closed EXCEPT !.page = "google"]]
  /\ waits' = Forgotten(t)
  /\ UNCHANGED <<accountVars, store, writer>>

\* Google sends the browser to /auth/google/callback.
GoogleReturns(t, r) ==
  /\ tabs[t].page = "google" /\ \A q \in Requests : waits[q].tab # t
  /\ \E p \in Profiles : Sends(t, r, [op |-> "google", profile |-> p], FALSE)
  /\ UNCHANGED tabs

\* Where the API sends the browser with the token.
RedirectPath == "/auth/callback"

\* The path whose page takes the token.
CallbackRoute == "/callback"

\* The web server passes every path under /auth on to the API, which knows
\* no /auth/callback.
PassedOn(path) == deploy.proxied /\ path = "/auth/callback"

\* The page of CallbackRoute: it takes the token if nobody is signed in.
TakesToken(t, token) ==
  IF store.user # None
  THEN tabs' = [tabs EXCEPT ![t] = Loaded] /\ UNCHANGED <<store, writer>>
  ELSE LET user == [UserOf(token) EXCEPT !.id = token.email] IN
       /\ Persists(t, token, user)
       /\ tabs' = [tabs EXCEPT ![t] = [page |-> "app", shown |-> user, submitting |-> FALSE]]

GoogleAnswered(t, r) ==
  /\ tabs[t].page = "google" /\ waits[r].tab = t /\ req[r].pc = "done"
  /\ Collected(r)
  /\ IF req[r].token = None \/ PassedOn(RedirectPath)
     THEN tabs' = [tabs EXCEPT ![t].page = "error"] /\ UNCHANGED <<store, writer>>
     ELSE IF RedirectPath = CallbackRoute THEN TakesToken(t, req[r].token)
     ELSE tabs' = [tabs EXCEPT ![t] = Loaded] /\ UNCHANGED <<store, writer>>
  /\ UNCHANGED <<users, tokens, deploy>>

-----------------------------------------------------------------------------
\* A page of the application creates a job with the token of the storage,
\* which may be another account's than the one shown, or none.
CreateJob(t, r) ==
  /\ tabs[t].page = "app" /\ store.token # None
  /\ Sends(t, r, [op |-> "job", via |-> "local", actor |-> ActorOf(store.token)], FALSE)
  /\ UNCHANGED tabs

\* A client that is let in; the refusal of the others changes nothing.
CallsDirectly(r) ==
  /\ \E call \in DirectCalls : Verified(call) /\ Arrives(r, call)
  /\ UNCHANGED webVars

\* Nobody waits for the answer any more.
Dropped(r) ==
  /\ req[r].pc = "done" /\ waits[r].tab = None /\ req[r].outcome # "none"
  /\ Collected(r)
  /\ UNCHANGED <<users, tokens, deploy, store, tabs, writer>>

Serve(r) == Handle(r) /\ UNCHANGED webVars

TabNext(t, r) ==
  \/ Submit(t, r) \/ DevClick(t, r) \/ CreateJob(t, r)
  \/ Answered(t, r) \/ Lost(t, r)
  \/ GoogleReturns(t, r) \/ GoogleAnswered(t, r)

Next ==
  \/ \E t \in Tabs : Open(t) \/ Back(t) \/ Logout(t) \/ StartGoogle(t)
  \/ \E t \in Tabs, r \in Requests : TabNext(t, r)
  \/ \E r \in Requests : CallsDirectly(r) \/ Serve(r) \/ Dropped(r)

Spec == Init /\ [][Next]_vars

-----------------------------------------------------------------------------
(* Properties.                                                             *)

\* An address leads to one account: two tokens with the same e-mail name the
\* same row, however the requests that obtained them interleaved and however
\* the address was typed; only rows provisioned from an Auth0 token, which
\* copy its claim, are exempt (auth-local.service.ts:30, extractions.repository.ts:147).
OneAccountPerEmail ==
  \A t1, t2 \in tokens :
    Lower[t1.email] = Lower[t2.email] /\ t1.id # t2.id =>
      \E u \in users : u.id \in {t1.id, t2.id} /\ u.auth0Sub # None

\* A row that a request saw existing when it began keeps its role and its
\* address through that request: claims of a token are written only to a row
\* that the race of two first requests inserted (extractions.repository.ts:136).
ClaimsDoNotRewrite ==
  [][\A u \in users :
       (\E v \in users' : v.id = u.id /\ (v.email # u.email \/ v.admin # u.admin)) =>
         \E r \in Requests : /\ req[r].pc = "write" /\ req'[r].pc = "done"
                             /\ \A v \in req[r].before : v.id # u.id]_vars

\* An identity of Google, once linked to a row, is replaced at most by a
\* login that read the row before it was linked (auth-local.service.ts:100).
LinksKept ==
  [][\A u \in users :
       u.googleSub # None /\ u \notin users' =>
         \/ \E v \in users' : v.id = u.id /\ v.googleSub = u.googleSub
         \/ \E r \in Requests :
              /\ req[r].pc = "write" /\ req'[r].pc = "done" /\ req[r].found # None
              /\ req[r].found.id = u.id /\ req[r].found.googleSub # u.googleSub]_vars

\* A job made with a token that is accepted at all belongs to the account the
\* token names, and is never refused for want of an owner: no second account
\* is provisioned beside the one the token names (extractions.repository.ts:135).
JobsFollowTheToken ==
  [][\A r \in Requests :
       /\ req[r].pc \in {"look", "write"} /\ req'[r].pc = "done"
       /\ req[r].call.op = "job" /\ req[r].call.via = "local"
       => \/ req'[r].outcome = "unauthenticated"
          \/ req'[r].owner = req[r].call.actor.sub]_vars

\* A login is refused only if, when it was sent, no account had its address
\* and its password: an account whose signup was answered opens with the
\* address typed in any form (auth-local.service.ts:29, 51).
PasswordsOpen ==
  [][\A r \in Requests :
       Handles(r, "look", "login") /\ req'[r].pc = "done" /\ req'[r].outcome = "unauthenticated" =>
         \A u \in req[r].before :
           ~(Lower[u.email] = Lower[req[r].call.email] /\ u.password = req[r].call.password)]_vars

\* The tab that wrote the storage last shows the user stored there, who is
\* the user of the stored token, although answers come late, twice or after a
\* logout (WebAuthProvider.tsx:34-59).
ShownIsStored ==
  /\ \A t \in Tabs : writer = t /\ tabs[t].page \in {"login", "app"} => tabs[t].shown = store.user
  /\ (store.token = None) = (store.user = None)
  /\ store.token # None => store.user.email = store.token.email

\* No token of a Google login is ever stored: the API redirects to
\* /auth/callback, the application routes /callback, and the development server
\* sends everything under /auth to the API (auth-local.controller.ts:109,
\* App.tsx:13, vite.config.ts:28). This part of the invariant is what the code
\* does, not what it promises: LoginPage.tsx:84, CallbackPage.tsx and
\* auth-local.service.ts:69 are written for a login that succeeds.
GoogleNeverSignsIn == store.token # None => store.token.provider # "google"

\* What tokens of Auth0, and the developer, say of themselves.
AllClaims == Actors \cup {DevActor, [sub |-> DevSub, email |-> DevEmail, admin |-> TRUE]}

Directory == INSTANCE AccountDirectory
               WITH accounts <- users, Ids <- Requests, Claims <- AllClaims

\* The look-ups and writes of all requests together behave as if each signup,
\* login and provisioning happened in one moment: no address, password, role
\* or Google identity of an account comes from anybody else's request
\* (auth-local.service.ts:29-150, extractions.repository.ts:129-165).
ImplementsDirectory == Directory!Spec
=============================================================================
