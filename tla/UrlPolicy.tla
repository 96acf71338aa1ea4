------------------------------ MODULE UrlPolicy ------------------------------
(***************************************************************************)
(* assertSafeTargetUrl (apps/api/src/common/url-safety.ts): which URL the   *)
(* crawler may ask for, given what a DNS lookup answers at that moment.     *)
(* An address is known by the range ipaddr.js puts it in.                   *)
(***************************************************************************)

Addresses == {"v4-unicast", "v4-other", "v6-unicast", "v6-other",
              "mapped-unicast", "mapped-other", "invalid"}

IsPrivateIp(address) == address \notin {"v4-unicast", "v6-unicast", "mapped-unicast"}

(* A URL by what the policy asks of it; its host is an address, a name,     *)
(* a name that is blocked as such, or missing.                               *)
UrlRecords == [long : BOOLEAN, parses : BOOLEAN, http : BOOLEAN, credentials : BOOLEAN,
               allowedPort : BOOLEAN, host : Addresses \cup {"name", "blocked", "missing"}]

(* A lookup that fails answers nothing. *)
AssertSafeTargetUrl(url, answer) ==
    /\ ~url.long /\ url.parses /\ url.http /\ ~url.credentials /\ url.allowedPort
    /\ url.host \notin {"missing", "blocked"}
    /\ IF url.host \in Addresses THEN ~IsPrivateIp(url.host)
       ELSE answer # {} /\ \A a \in answer : ~IsPrivateIp(a)
=============================================================================
