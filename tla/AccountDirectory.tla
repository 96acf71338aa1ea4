-------------------------- MODULE AccountDirectory --------------------------
(***************************************************************************)
(* What the API promises about accounts and tokens, however its requests   *)
(* interleave.                                                             *)
(*                                                                         *)
(*   - an account is never removed, and nothing of it that another account *)
(*     has: its id, its address, its identities;                           *)
(*   - a password is set when somebody signs up, and never again;          *)
(*   - the identity of Google that an account has is one of its address;   *)
(*   - address and role of an account change only by what a token of its   *)
(*     own Auth0 identity says;                                            *)
(*   - a token is issued for an account as it is at that moment, by a way  *)
(*     in that the account has.                                            *)
(*                                                                         *)
(* Every step is atomic here.  It is the abstract specification: Accounts, *)
(* with its look-ups and writes, implements it.                            *)
(***************************************************************************)
CONSTANTS Ids,
          Spellings, Lower, \* addresses as typed, and their normal form
          Passwords,
          Profiles,         \* what Google says of its users: [sub, email]
          Claims,           \* what tokens of Auth0 say: [sub, email, admin]
          DevEmail, None

VARIABLES accounts, tokens

vars == <<accounts, tokens>>

Init == accounts = {} /\ tokens = {}

-----------------------------------------------------------------------------
Share(a, b) ==
  \/ a.email = b.email
  \/ a.auth0Sub # None /\ a.auth0Sub = b.auth0Sub
  \/ a.googleSub # None /\ a.googleSub = b.googleSub

Account(id, email) == [id |-> id, email |-> email, auth0Sub |-> None, googleSub |-> None,
                       password |-> None, admin |-> FALSE]

Enter(a) ==
  /\ \A b \in accounts : b.id # a.id /\ ~Share(a, b)
  /\ accounts' = accounts \cup {a}

Change(a, b) ==
  /\ \A c \in accounts \ {a} : ~Share(b, c)
  /\ accounts' = (accounts \ {a}) \cup {b}

SignUp == \E id \in Ids, e \in Spellings, p \in Passwords :
  Enter([Account(id, Lower[e]) EXCEPT !.password = p])

EnterByGoogle == \E id \in Ids, p \in Profiles :
  Enter([Account(id, Lower[p.email]) EXCEPT !.googleSub = p.sub])

Provision == \E id \in Ids, c \in Claims :
  Enter([Account(id, c.email) EXCEPT !.auth0Sub = c.sub, !.admin = c.admin])

\* The account whose address Google vouches for gets the identity; an account
\* of Auth0 may have been given another address since.
Link == \E a \in accounts, p \in Profiles :
  /\ a.auth0Sub = None => a.email = Lower[p.email]
  /\ Change(a, [a EXCEPT !.googleSub = p.sub])

Claim == \E a \in accounts, c \in Claims :
  /\ a.auth0Sub = c.sub
  /\ Change(a, [a EXCEPT !.email = c.email, !.admin = c.admin])

-----------------------------------------------------------------------------
\* With its password, with Google, or as the developer.
WaysIn(a) == (IF a.password # None THEN {"local"} ELSE {})
               \cup (IF a.googleSub # None THEN {"google"} ELSE {})
               \cup (IF a.email = DevEmail THEN {"auth0"} ELSE {})

Token(a, way) == [id |-> a.id, email |-> a.email, admin |-> a.admin, provider |-> way]

Issue == \E a \in accounts' : \E way \in WaysIn(a) : tokens' = tokens \cup {Token(a, way)}

Next == /\ UNCHANGED accounts \/ SignUp \/ EnterByGoogle \/ Provision \/ Link \/ Claim
        /\ UNCHANGED tokens \/ Issue

Spec == Init /\ [][Next]_vars
=============================================================================
