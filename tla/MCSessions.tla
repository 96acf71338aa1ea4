----------------------------- MODULE MCSessions -----------------------------
(* One person under two spellings, two Google identities, an Auth0 identity  *)
(* whose tokens differ in role, and three installations: the development     *)
(* server, the same with Auth0, and the containers, whose web server does    *)
(* not pass /auth on.                                                        *)
EXTENDS WebSession, TLC

CONSTANTS r1, r2, r3, t1, t2, p1, g1, g2

MCLower == [s \in {"ana@x", "Ana@x", "dev@local"} |-> IF s = "Ana@x" THEN "ana@x" ELSE s]
MCProfiles == {[sub |-> g1, email |-> "Ana@x"], [sub |-> g2, email |-> "ana@x"]}
MCActors == {[sub |-> "auth0|a", email |-> "ana@x", admin |-> b] : b \in BOOLEAN}

Local == [dev |-> TRUE, auth0 |-> FALSE, google |-> TRUE, proxied |-> TRUE]
Containers == [dev |-> TRUE, auth0 |-> TRUE, google |-> FALSE, proxied |-> FALSE]
\* An installation with Auth0 behind the development server.
Legacy == [Local EXCEPT !.auth0 = TRUE, !.google = FALSE]
MCDeployments == {Local, Containers, Legacy}

MCDirect ==
  {[op |-> "job", via |-> "auth0", actor |-> a] : a \in MCActors}
    \cup {[op |-> "job", via |-> "dev", actor |-> DevActor]}

Symmetric == Permutations({r1, r2, r3}) \cup Permutations({t1, t2})
=============================================================================
