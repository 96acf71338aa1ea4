---------------------------- MODULE Crawler_proofs ----------------------------
(* Theorems about Crawler, for any number of crawls and requests. *)
EXTENDS Crawler, FiniteSetTheorems, TLAPS

-----------------------------------------------------------------------------
(* The invariant *)

(* Which context a crawl has follows from where it is; it navigates only     *)
(* once its context is set up, and nothing is redirected that was not sent.   *)
ContextInv ==
    \A c \in Crawls :
        /\ pc[c] \in {"check", "context"} => ctx[c] = "none"
        /\ pc[c] \in {"check", "context", "setup"} => request[c]["navigation"] = "unsent"
        /\ pc[c] = "page" => ctx[c] # "open"
        /\ pc[c] = "error" /\ ctx[c] = "open" =>
             request[c]["navigation"] = "unsent" /\ result[c] = "INTERNAL"
        /\ \A r \in Requests : request[c][r] \in {"unsent", "checking"} => hops[c][r] = 0

(* An answer is made of the error that was thrown. *)
ResultInv ==
    \A c \in Crawls :
        /\ pc[c] = "page" => result[c] = "page"
        /\ pc[c] = "error" => result[c] = MapExtractError(err[c])

(* Past goto with nothing refused, whatever came of it. *)
Idle(c) ==
    \/ pc[c] \in {"final", "content", "collect", "hung", "close", "page"}
    \/ pc[c] \in {"failing", "error"} /\ err[c] \in {"target", "limit"}

RefusalInv ==
    \A c \in Crawls :
        /\ \A r \in Requests : request[c][r] = "refused" => blocked[c]
        /\ Idle(c) => \A r \in Requests \ late[c] : request[c][r] \notin Open \cup {"refused"}

(* A report is made past the check of the final URL. *)
Passed(c) ==
    \/ pc[c] \in {"content", "collect", "hung", "close", "page"}
    \/ pc[c] \in {"failing", "error"} /\ err[c] = "limit"

FinalInv ==
    \A c \in Crawls :
        /\ Idle(c) => request[c]["navigation"] = "loaded"
        /\ Passed(c) => \E answer \in Answers : AssertSafeTargetUrl(url[c], answer)

EarlyResponses(c) == ResponsesOf(c, Requests \ late[c])
LateResponses(c) == ResponsesOf(c, late[c])

LogInv ==
    \A c \in Crawls :
        /\ pc[c] = "collect" => Cardinality(EarlyResponses(c)) <= MaxResponses
        /\ logged[c] <= MaxResponses + Cardinality(LateResponses(c))

-----------------------------------------------------------------------------
LEMMA FiniteRequests == ASSUME NEW S \in SUBSET Requests
                        PROVE  IsFiniteSet(S) /\ Cardinality(S) \in Nat
<1>1. IsFiniteSet(Requests)
  BY FiniteAssumption, FS_AddElement DEF Requests
<1> QED
  BY <1>1, FS_Subset, FS_CardinalityType

(* The responses to a set of requests are finitely many.                      *)
LEMMA FinitePairs ==
    ASSUME NEW S \in SUBSET Requests, NEW T \in SUBSET (S \X (1..MaxHops + 1))
    PROVE  IsFiniteSet(T) /\ Cardinality(T) \in Nat
<1>1. IsFiniteSet(S) /\ IsFiniteSet(1..MaxHops + 1)
  BY FiniteRequests, FiniteAssumption, FS_Interval
<1>2. IsFiniteSet(S \X (1..MaxHops + 1))
  BY <1>1, FS_Product
<1> QED
  BY <1>2, FS_Subset, FS_CardinalityType

LEMMA FiniteResponses ==
    ASSUME NEW c \in Crawls, NEW S \in SUBSET Requests
    PROVE  IsFiniteSet(ResponsesOf(c, S)) /\ Cardinality(ResponsesOf(c, S)) \in Nat
<1>1. ResponsesOf(c, S) \in SUBSET (S \X (1..MaxHops + 1))
  BY DEF ResponsesOf
<1> QED
  BY <1>1, FinitePairs

(* Responses are never taken back: those to late requests become more when    *)
(* requests become late, follow a redirect or are answered.                    *)
LEMMA LateResponsesGrow ==
    ASSUME TypeOK, TypeOK', NEW c \in Crawls, late[c] \subseteq late'[c],
           \A r \in Requests : /\ hops[c][r] <= hops'[c][r]
                               /\ request[c][r] = "loaded" => request'[c][r] = "loaded"
    PROVE  /\ Cardinality(LateResponses(c)) \in Nat /\ Cardinality(LateResponses(c)') \in Nat
           /\ Cardinality(LateResponses(c)) <= Cardinality(LateResponses(c)')
<1>1. /\ late[c] \in SUBSET Requests /\ late'[c] \in SUBSET Requests
      /\ \A r \in Requests : hops[c][r] \in Int /\ hops'[c][r] \in Int
  BY DEF TypeOK
<1>2. /\ LateResponses(c) \in SUBSET (late[c] \X (1..MaxHops + 1))
      /\ LateResponses(c)' \in SUBSET (late'[c] \X (1..MaxHops + 1))
  BY DEF LateResponses, ResponsesOf
<1>3. LateResponses(c) \subseteq LateResponses(c)'
  <2> SUFFICES ASSUME NEW p \in LateResponses(c) PROVE p \in LateResponses(c)'
    OBVIOUS
  <2>1. /\ p \in late[c] \X (1..MaxHops + 1)
        /\ p[2] <= hops[c][p[1]] + (IF request[c][p[1]] = "loaded" THEN 1 ELSE 0)
    BY DEF LateResponses, ResponsesOf
  <2>2. p \in late'[c] \X (1..MaxHops + 1) /\ p[1] \in Requests /\ p[2] \in Int
    BY <1>1, <2>1, FiniteAssumption
  <2>3. p[2] <= hops'[c][p[1]] + (IF request'[c][p[1]] = "loaded" THEN 1 ELSE 0)
    BY <1>1, <2>1, <2>2
  <2> QED
    BY <2>2, <2>3 DEF LateResponses, ResponsesOf
<1> QED
  BY <1>1, <1>2, <1>3, FinitePairs, FS_Subset

(* An error of extract has a code, and it is never taken for a page. *)
LEMMA MapCode == \A e : MapExtractError(e) \in Codes
BY DEF MapExtractError, Codes

(* Nothing is answered before a crawl is over, and then exactly once. *)
THEOREM TypeCorrect == Spec => []TypeOK
<1>1. Init => TypeOK
  BY FiniteAssumption DEF Init, TypeOK, Settled, Awaited, Requests, Open
<1>2. TypeOK /\ [Next]_vars => TypeOK'
  <2> SUFFICES ASSUME TypeOK, [Next]_vars PROVE TypeOK'
    OBVIOUS
  <2> USE DEF TypeOK, Settled, Awaited, network, Open
  <2>1. CASE Launch
    BY <2>1 DEF Launch
  <2>2. CASE BrowserDies
    BY <2>2 DEF BrowserDies, Gone
  <2>3. CASE Destroy
    BY <2>3 DEF Destroy, Gone
  <2>4. ASSUME NEW c \in Crawls, Step(c) PROVE TypeOK'
    <3>1. CASE CheckTarget(c)
      <4>0. UNCHANGED <<browser, ctx, network, late, blocked, logged>> /\ pc[c] = "check"
        BY <3>1 DEF CheckTarget
      <4>1. CASE Goes(c, "context") /\ UNCHANGED <<err, result>>
        BY <4>0, <4>1 DEF Goes
      <4>2. CASE ThrowsAtOnce(c, "refused")
        BY <4>0, <4>2, MapCode DEF ThrowsAtOnce, Goes, Codes
      <4> QED
        BY <3>1, <4>1, <4>2 DEF CheckTarget
    <3>2. CASE NewContext(c)
      <4>1. CASE browser = "up"
        <5>1. /\ ctx' = [ctx EXCEPT ![c] = "open"] /\ Goes(c, "setup")
              /\ UNCHANGED <<browser, network, late, blocked, logged, err, result>>
              /\ pc[c] = "context"
          BY <3>2, <4>1 DEF NewContext
        <5> QED
          BY <5>1 DEF Goes
      <4>2. CASE browser # "up"
        <5>1. /\ ThrowsAtOnce(c, "browser")
              /\ UNCHANGED <<browser, ctx, network, late, blocked, logged>>
          BY <3>2, <4>2 DEF NewContext
        <5> QED
          BY <5>1, MapCode DEF ThrowsAtOnce, Goes, Codes
      <4> QED
        BY <4>1, <4>2
    <3>3. CASE SetUp(c)
      BY <3>3 DEF SetUp, Goes, Requests
    <3>4. CASE SetUpFails(c)
      BY <3>4, MapCode DEF SetUpFails, ThrowsAtOnce, Goes, Codes
    <3>5. CASE GotoReturns(c)
      BY <3>5 DEF GotoReturns, AfterGoto, Throws, Goes
    <3>6. CASE GotoTimesOut(c)
      BY <3>6 DEF GotoTimesOut, Throws, Goes
    <3>7. CASE GotoRejects(c)
      BY <3>7 DEF GotoRejects, Throws, Goes
    <3>8. CASE CheckFinal(c)
      BY <3>8 DEF CheckFinal, Throws, Goes
    <3>9. CASE Content(c)
      BY <3>9 DEF Content, Throws, Goes
    <3>10. CASE Collect(c)
      <4>1. Responses(c) \in Nat
        <5>1. IsFiniteSet(Requests)
          BY FiniteAssumption, FS_AddElement DEF Requests
        <5> QED
          BY <5>1, FiniteResponses DEF Responses
      <4> QED
        BY <3>10, <4>1 DEF Collect, Goes
    <3>11. CASE Close(c)
      BY <3>11 DEF Close, Goes
    <3>12. CASE CallRejects(c)
      BY <3>12 DEF CallRejects, Throws, Goes, PageCalls
    <3>13. CASE Fail(c)
      BY <3>13, MapCode DEF Fail, Goes, ClosedAfterError, Codes
    <3> QED
      BY <2>4, <3>1, <3>2, <3>3, <3>4, <3>5, <3>6, <3>7, <3>8, <3>9, <3>10, <3>11, <3>12, <3>13
      DEF Step
  <2>5. ASSUME NEW c \in Crawls, Hangs(c) PROVE TypeOK'
    BY <2>5 DEF Hangs, Goes
  <2>6. ASSUME NEW c \in Crawls, NEW r \in Requests, Send(c, r) PROVE TypeOK'
    BY <2>6 DEF Send
  <2>7. ASSUME NEW c \in Crawls, NEW r \in Requests, CheckRequest(c, r) PROVE TypeOK'
    <3>0. UNCHANGED <<browser, pc, ctx, url, hops, late, logged, err, result>>
      BY <2>7 DEF CheckRequest
    <3>1. CASE UNCHANGED blocked /\ request' = [request EXCEPT ![c][r] = "sent"]
      BY <3>0, <3>1
    <3>2. CASE /\ request' = [request EXCEPT ![c][r] = "refused"]
               /\ blocked' = [blocked EXCEPT ![c] = TRUE]
      BY <3>0, <3>2
    <3> QED
      BY <2>7, <3>1, <3>2 DEF CheckRequest
  <2>8. ASSUME NEW c \in Crawls, NEW r \in Requests, Redirect(c, r) PROVE TypeOK'
    <3>1. /\ UNCHANGED <<browser, pc, ctx, request, late, blocked, logged, err, result>>
          /\ hops[c][r] < MaxHops /\ hops' = [hops EXCEPT ![c][r] = @ + 1]
      BY <2>8 DEF Redirect
    <3>2. url' \in [Crawls -> Urls]
      BY <2>8 DEF Redirect
    <3>3. hops[c][r] + 1 \in 0..MaxHops
      BY <3>1, FiniteAssumption
    <3>4. hops' \in [Crawls -> [Requests -> 0..MaxHops]]
      BY <3>1, <3>3
    <3> QED
      BY <3>1, <3>2, <3>4
  <2>9. ASSUME NEW c \in Crawls, NEW r \in Requests, Respond(c, r) PROVE TypeOK'
    BY <2>9 DEF Respond
  <2>10. CASE UNCHANGED vars
    BY <2>10 DEF vars
  <2> QED
    BY <2>1, <2>2, <2>3, <2>4, <2>5, <2>6, <2>7, <2>8, <2>9, <2>10 DEF Next, Quiescent
<1> QED
  BY <1>1, <1>2, PTL DEF Spec

-----------------------------------------------------------------------------
(* A context is opened once, and closed on every way out of the try block.   *)
LEMMA ContextHolds == Spec => []ContextInv
<1>1. Init => ContextInv
  BY DEF Init, ContextInv, Requests
<1>2. TypeOK /\ TypeOK' /\ ContextInv /\ [Next]_vars => ContextInv'
  <2> SUFFICES ASSUME TypeOK, TypeOK', ContextInv, [Next]_vars PROVE ContextInv'
    OBVIOUS
  <2> USE DEF TypeOK, ContextInv, Settled, Requests, network
  <2>1. CASE Launch
    BY <2>1 DEF Launch
  <2>2. CASE BrowserDies
    BY <2>2 DEF BrowserDies, Gone
  <2>3. CASE Destroy
    BY <2>3 DEF Destroy, Gone
  <2>4. ASSUME NEW c \in Crawls, Step(c) PROVE ContextInv'
    <3>1. CASE CheckTarget(c)
      <4>0. UNCHANGED <<ctx, network>> /\ pc[c] = "check"
        BY <3>1 DEF CheckTarget
      <4>1. CASE Goes(c, "context") /\ UNCHANGED <<err, result>>
        BY <4>0, <4>1 DEF Goes
      <4>2. CASE ThrowsAtOnce(c, "refused")
        BY <4>0, <4>2 DEF ThrowsAtOnce, Goes
      <4> QED
        BY <3>1, <4>1, <4>2 DEF CheckTarget
    <3>2. CASE NewContext(c)
      <4>1. CASE browser = "up"
        <5>1. /\ ctx' = [ctx EXCEPT ![c] = "open"] /\ Goes(c, "setup")
              /\ UNCHANGED <<network, result>> /\ pc[c] = "context"
          BY <3>2, <4>1 DEF NewContext
        <5> QED
          BY <5>1 DEF Goes
      <4>2. CASE browser # "up"
        <5>1. ThrowsAtOnce(c, "browser") /\ UNCHANGED <<ctx, network>> /\ pc[c] = "context"
          BY <3>2, <4>2 DEF NewContext
        <5> QED
          BY <5>1 DEF ThrowsAtOnce, Goes
      <4> QED
        BY <4>1, <4>2
    <3>3. CASE SetUp(c)
      BY <3>3 DEF SetUp, Goes
    <3>4. CASE SetUpFails(c)
      BY <3>4 DEF SetUpFails, ThrowsAtOnce, Goes, MapExtractError
    <3>5. CASE GotoReturns(c)
      BY <3>5 DEF GotoReturns, AfterGoto, Throws, Goes
    <3>6. CASE GotoTimesOut(c)
      BY <3>6 DEF GotoTimesOut, Throws, Goes
    <3>7. CASE GotoRejects(c)
      BY <3>7 DEF GotoRejects, Throws, Goes
    <3>8. CASE CheckFinal(c)
      BY <3>8 DEF CheckFinal, Throws, Goes
    <3>9. CASE Content(c)
      BY <3>9 DEF Content, Throws, Goes
    <3>10. CASE Collect(c)
      BY <3>10 DEF Collect, Goes
    <3>11. CASE Close(c)
      BY <3>11 DEF Close, Goes
    <3>12. CASE CallRejects(c)
      BY <3>12 DEF CallRejects, Throws, Goes, PageCalls
    <3>13. CASE Fail(c)
      BY <3>13 DEF Fail, Goes, ClosedAfterError
    <3> QED
      BY <2>4, <3>1, <3>2, <3>3, <3>4, <3>5, <3>6, <3>7, <3>8, <3>9, <3>10, <3>11, <3>12, <3>13
      DEF Step
  <2>5. ASSUME NEW c \in Crawls, Hangs(c) PROVE ContextInv'
    BY <2>5 DEF Hangs, Goes
  <2>6. ASSUME NEW c \in Crawls, NEW r \in Requests, Send(c, r) PROVE ContextInv'
    BY <2>6 DEF Send
  <2>7. ASSUME NEW c \in Crawls, NEW r \in Requests, CheckRequest(c, r) PROVE ContextInv'
    <3>0. UNCHANGED <<pc, ctx, hops, result>> /\ request[c][r] = "checking"
      BY <2>7 DEF CheckRequest
    <3>1. PICK state \in {"sent", "refused"} : request' = [request EXCEPT ![c][r] = state]
      BY <2>7 DEF CheckRequest
    <3>2. \A x \in Crawls, s \in Requests : request'[x][s] \in {"unsent", "checking"} =>
            request'[x][s] = request[x][s]
      BY <3>0, <3>1
    <3> QED
      BY <3>0, <3>1, <3>2
  <2>8. ASSUME NEW c \in Crawls, NEW r \in Requests, Redirect(c, r) PROVE ContextInv'
    BY <2>8 DEF Redirect
  <2>9. ASSUME NEW c \in Crawls, NEW r \in Requests, Respond(c, r) PROVE ContextInv'
    BY <2>9 DEF Respond
  <2>10. CASE UNCHANGED vars
    BY <2>10 DEF vars
  <2> QED
    BY <2>1, <2>2, <2>3, <2>4, <2>5, <2>6, <2>7, <2>8, <2>9, <2>10 DEF Next, Quiescent
<1> QED
  BY <1>1, <1>2, TypeCorrect, PTL DEF Spec

(* A crawl that is over has closed its context, unless it failed in the two  *)
(* calls before the try block.                                                *)
THEOREM ContextsHold == Spec => []ContextsAccounted
<1>1. TypeOK /\ ContextInv => ContextsAccounted
  BY DEF ContextInv, ContextsAccounted, Settled
<1> QED
  BY <1>1, TypeCorrect, ContextHolds, PTL

-----------------------------------------------------------------------------
(* The error that is thrown decides the answer, and only a crawl that closed *)
(* its context after the last call answers with a page.                       *)
LEMMA ResultHolds == Spec => []ResultInv
<1>1. Init => ResultInv
  BY DEF Init, ResultInv
<1>2. TypeOK /\ ResultInv /\ [Next]_vars => ResultInv'
  <2> SUFFICES ASSUME TypeOK, ResultInv, [Next]_vars PROVE ResultInv'
    OBVIOUS
  <2> USE DEF TypeOK, ResultInv, network
  <2>1. CASE Launch
    BY <2>1 DEF Launch
  <2>2. CASE BrowserDies
    BY <2>2 DEF BrowserDies
  <2>3. CASE Destroy
    BY <2>3 DEF Destroy
  <2>4. ASSUME NEW c \in Crawls, Step(c) PROVE ResultInv'
    <3>1. CASE CheckTarget(c)
      <4>0. pc[c] = "check"
        BY <3>1 DEF CheckTarget
      <4>1. CASE Goes(c, "context") /\ UNCHANGED <<err, result>>
        BY <4>0, <4>1 DEF Goes
      <4>2. CASE ThrowsAtOnce(c, "refused")
        BY <4>0, <4>2 DEF ThrowsAtOnce, Goes
      <4> QED
        BY <3>1, <4>1, <4>2 DEF CheckTarget
    <3>2. CASE NewContext(c)
      <4>1. CASE browser = "up"
        <5>1. Goes(c, "setup") /\ UNCHANGED <<err, result>>
          BY <3>2, <4>1 DEF NewContext
        <5> QED
          BY <5>1 DEF Goes
      <4>2. CASE browser # "up"
        <5>1. ThrowsAtOnce(c, "browser")
          BY <3>2, <4>2 DEF NewContext
        <5> QED
          BY <5>1 DEF ThrowsAtOnce, Goes
      <4> QED
        BY <4>1, <4>2
    <3>3. CASE SetUp(c)
      BY <3>3 DEF SetUp, Goes
    <3>4. CASE SetUpFails(c)
      BY <3>4 DEF SetUpFails, ThrowsAtOnce, Goes
    <3>5. CASE GotoReturns(c)
      BY <3>5 DEF GotoReturns, AfterGoto, Throws, Goes
    <3>6. CASE GotoTimesOut(c)
      BY <3>6 DEF GotoTimesOut, Throws, Goes
    <3>7. CASE GotoRejects(c)
      BY <3>7 DEF GotoRejects, Throws, Goes
    <3>8. CASE CheckFinal(c)
      BY <3>8 DEF CheckFinal, Throws, Goes
    <3>9. CASE Content(c)
      BY <3>9 DEF Content, Throws, Goes
    <3>10. CASE Collect(c)
      BY <3>10 DEF Collect, Goes
    <3>11. CASE Close(c)
      BY <3>11 DEF Close, Goes
    <3>12. CASE CallRejects(c)
      BY <3>12 DEF CallRejects, Throws, Goes, PageCalls
    <3>13. CASE Fail(c)
      BY <3>13 DEF Fail, Goes
    <3> QED
      BY <2>4, <3>1, <3>2, <3>3, <3>4, <3>5, <3>6, <3>7, <3>8, <3>9, <3>10, <3>11, <3>12, <3>13
      DEF Step
  <2>5. ASSUME NEW c \in Crawls, Hangs(c) PROVE ResultInv'
    BY <2>5 DEF Hangs, Goes
  <2>6. ASSUME NEW c \in Crawls, NEW r \in Requests, Send(c, r) PROVE ResultInv'
    BY <2>6 DEF Send
  <2>7. ASSUME NEW c \in Crawls, NEW r \in Requests, CheckRequest(c, r) PROVE ResultInv'
    BY <2>7 DEF CheckRequest
  <2>8. ASSUME NEW c \in Crawls, NEW r \in Requests, Redirect(c, r) PROVE ResultInv'
    BY <2>8 DEF Redirect
  <2>9. ASSUME NEW c \in Crawls, NEW r \in Requests, Respond(c, r) PROVE ResultInv'
    BY <2>9 DEF Respond
  <2>10. CASE UNCHANGED vars
    BY <2>10 DEF vars
  <2> QED
    BY <2>1, <2>2, <2>3, <2>4, <2>5, <2>6, <2>7, <2>8, <2>9, <2>10 DEF Next, Quiescent
<1> QED
  BY <1>1, <1>2, TypeCorrect, PTL DEF Spec

(* When goto returned and nothing was refused, no request of that time is    *)
(* refused any more; what is refused later was asked for later.               *)
LEMMA RefusalHolds == Spec => []RefusalInv
<1>1. Init => RefusalInv
  BY DEF Init, RefusalInv, Idle
<1>2. TypeOK /\ ContextInv /\ RefusalInv /\ [Next]_vars => RefusalInv'
  <2> SUFFICES ASSUME TypeOK, ContextInv, RefusalInv, [Next]_vars PROVE RefusalInv'
    OBVIOUS
  <2> USE DEF TypeOK, RefusalInv, Idle, network, Open
  <2>1. CASE Launch
    BY <2>1 DEF Launch
  <2>2. CASE BrowserDies
    BY <2>2 DEF BrowserDies
  <2>3. CASE Destroy
    BY <2>3 DEF Destroy
  <2>4. ASSUME NEW c \in Crawls, Step(c) PROVE RefusalInv'
    <3>1. CASE CheckTarget(c)
      <4>0. UNCHANGED <<network, late, blocked>> /\ pc[c] = "check"
        BY <3>1 DEF CheckTarget
      <4>1. CASE Goes(c, "context") /\ UNCHANGED <<err, result>>
        BY <4>0, <4>1 DEF Goes
      <4>2. CASE ThrowsAtOnce(c, "refused")
        BY <4>0, <4>2 DEF ThrowsAtOnce, Goes
      <4> QED
        BY <3>1, <4>1, <4>2 DEF CheckTarget
    <3>2. CASE NewContext(c)
      <4>0. UNCHANGED <<network, late, blocked>>
        BY <3>2 DEF NewContext
      <4>1. CASE browser = "up"
        <5>1. Goes(c, "setup") /\ UNCHANGED <<err, result>>
          BY <3>2, <4>1 DEF NewContext
        <5> QED
          BY <4>0, <5>1 DEF Goes
      <4>2. CASE browser # "up"
        <5>1. ThrowsAtOnce(c, "browser")
          BY <3>2, <4>2 DEF NewContext
        <5> QED
          BY <4>0, <5>1 DEF ThrowsAtOnce, Goes
      <4> QED
        BY <4>1, <4>2
    <3>3. CASE SetUp(c)
      BY <3>3 DEF SetUp, Goes, Requests
    <3>4. CASE SetUpFails(c)
      BY <3>4 DEF SetUpFails, ThrowsAtOnce, Goes
    <3>5. CASE GotoReturns(c)
      <4>0. NetworkIdle(c) /\ UNCHANGED <<network, late, blocked>> /\ AfterGoto(c)
        BY <3>5 DEF GotoReturns
      <4>1. CASE blocked[c]
        <5>1. /\ pc' = [pc EXCEPT ![c] = "failing"] /\ err' = [err EXCEPT ![c] = "refused"]
              /\ UNCHANGED <<request, late, blocked>>
          BY <4>0, <4>1 DEF AfterGoto, Throws, Goes
        <5> QED
          BY <5>1
      <4>2. CASE ~blocked[c]
        <5>1. \A r \in Requests : request[c][r] \notin Open \cup {"refused"}
          BY <4>0, <4>2 DEF NetworkIdle
        <5>2. UNCHANGED <<request, late, blocked>>
          BY <4>0
        <5>3. CASE Throws(c, "target")
          BY <5>1, <5>2, <5>3 DEF Throws, Goes
        <5>4. CASE Goes(c, "final") /\ UNCHANGED err
          BY <5>1, <5>2, <5>4 DEF Goes
        <5> QED
          BY <4>0, <4>2, <5>3, <5>4 DEF AfterGoto
      <4> QED
        BY <4>1, <4>2
    <3>6. CASE GotoTimesOut(c)
      BY <3>6 DEF GotoTimesOut, Throws, Goes
    <3>7. CASE GotoRejects(c)
      BY <3>7 DEF GotoRejects, Throws, Goes
    <3>8. CASE CheckFinal(c)
      <4>0. UNCHANGED <<network, late, blocked>> /\ pc[c] = "final"
        BY <3>8 DEF CheckFinal
      <4>1. CASE Goes(c, "content") /\ UNCHANGED err
        BY <4>0, <4>1 DEF Goes
      <4>2. CASE Throws(c, "refused")
        BY <4>0, <4>2 DEF Throws, Goes
      <4> QED
        BY <3>8, <4>1, <4>2 DEF CheckFinal
    <3>9. CASE Content(c)
      <4>0. UNCHANGED <<network, late, blocked>> /\ pc[c] = "content"
        BY <3>9 DEF Content, Throws, Goes
      <4>1. CASE Goes(c, "collect") /\ UNCHANGED err
        BY <4>0, <4>1 DEF Goes
      <4>2. CASE Throws(c, "limit")
        BY <4>0, <4>2 DEF Throws, Goes
      <4> QED
        BY <3>9, <4>1, <4>2 DEF Content
    <3>10. CASE Collect(c)
      BY <3>10 DEF Collect, Goes
    <3>11. CASE Close(c)
      BY <3>11 DEF Close, Goes
    <3>12. CASE CallRejects(c)
      BY <3>12 DEF CallRejects, Throws, Goes, PageCalls
    <3>13. CASE Fail(c)
      BY <3>13 DEF Fail, Goes
    <3> QED
      BY <2>4, <3>1, <3>2, <3>3, <3>4, <3>5, <3>6, <3>7, <3>8, <3>9, <3>10, <3>11, <3>12, <3>13
      DEF Step
  <2>5. ASSUME NEW c \in Crawls, Hangs(c) PROVE RefusalInv'
    BY <2>5 DEF Hangs, Goes
  <2>6. ASSUME NEW c \in Crawls, NEW r \in Requests, Send(c, r) PROVE RefusalInv'
    <3>1. UNCHANGED <<pc, blocked, err>> /\ ctx[c] = "open" /\ request[c][r] = "unsent"
      BY <2>6 DEF Send
    <3>2. PICK state \in {"checking", "loaded"} : request' = [request EXCEPT ![c][r] = state]
      BY <2>6 DEF Send
    <3>3. CASE pc[c] = "goto"
      BY <2>6, <3>1, <3>2, <3>3 DEF Send
    <3>4. CASE pc[c] # "goto"
      <4>1. late' = [late EXCEPT ![c] = @ \cup {r}]
        BY <2>6, <3>4 DEF Send
      <4> QED
        BY <3>1, <3>2, <4>1
    <3> QED
      BY <3>3, <3>4
  <2>7. ASSUME NEW c \in Crawls, NEW r \in Requests, CheckRequest(c, r) PROVE RefusalInv'
    <3>0. UNCHANGED <<pc, late, err>> /\ request[c][r] = "checking"
      BY <2>7 DEF CheckRequest
    <3>1. CASE UNCHANGED blocked /\ request' = [request EXCEPT ![c][r] = "sent"]
      BY <3>0, <3>1
    <3>2. CASE /\ request' = [request EXCEPT ![c][r] = "refused"]
               /\ blocked' = [blocked EXCEPT ![c] = TRUE]
      BY <3>0, <3>2
    <3> QED
      BY <2>7, <3>1, <3>2 DEF CheckRequest
  <2>8. ASSUME NEW c \in Crawls, NEW r \in Requests, Redirect(c, r) PROVE RefusalInv'
    BY <2>8 DEF Redirect
  <2>9. ASSUME NEW c \in Crawls, NEW r \in Requests, Respond(c, r) PROVE RefusalInv'
    BY <2>9 DEF Respond
  <2>10. CASE UNCHANGED vars
    BY <2>10 DEF vars
  <2> QED
    BY <2>1, <2>2, <2>3, <2>4, <2>5, <2>6, <2>7, <2>8, <2>9, <2>10 DEF Next, Quiescent
<1> QED
  BY <1>1, <1>2, TypeCorrect, ContextHolds, PTL DEF Spec

(* What was refused while the page loaded is what extract answers.           *)
THEOREM RefusalIsReported == Spec => []RefusalWins
<1>1. TypeOK /\ ResultInv /\ RefusalInv => RefusalWins
  <2> SUFFICES ASSUME TypeOK, ResultInv, RefusalInv, NEW c \in Crawls,
                      result[c] \in {"page", "CRAWLER_TARGET", "CRAWLER_LIMIT"}
               PROVE  \A r \in Requests : request[c][r] = "refused" => r \in late[c]
    BY DEF RefusalWins
  <2>1. Idle(c)
    BY DEF TypeOK, ResultInv, Settled, Idle, MapExtractError
  <2> QED
    BY <2>1 DEF RefusalInv
<1> QED
  BY <1>1, TypeCorrect, ResultHolds, RefusalHolds, PTL

-----------------------------------------------------------------------------
(* The URL of the document is checked after its last redirect: once goto     *)
(* returned the navigation is over, and nothing redirects it any more.        *)
LEMMA FinalHolds == Spec => []FinalInv
<1>1. Init => FinalInv
  BY DEF Init, FinalInv, Idle, Passed
<1>2. TypeOK /\ ContextInv /\ FinalInv /\ [Next]_vars => FinalInv'
  <2> SUFFICES ASSUME TypeOK, ContextInv, FinalInv, [Next]_vars PROVE FinalInv'
    OBVIOUS
  <2> USE DEF Idle, Passed, network
  <2>a. ASSUME NEW c \in Crawls, UNCHANGED <<url, request>>,
               \A x \in Crawls \ {c} : UNCHANGED <<pc[x], err[x]>>,
               Idle(c)' => Idle(c), Passed(c)' => Passed(c)
        PROVE  FinalInv'
    BY <2>a DEF FinalInv
  <2>b. ASSUME UNCHANGED <<url, request, pc, err>> PROVE FinalInv'
    BY <2>b DEF FinalInv
  <2>1. CASE Launch
    BY <2>1, <2>b DEF Launch
  <2>2. CASE BrowserDies
    BY <2>2, <2>b DEF BrowserDies
  <2>3. CASE Destroy
    BY <2>3, <2>b DEF Destroy
  <2>4. ASSUME NEW c \in Crawls, Step(c) PROVE FinalInv'
    <3>c. ASSUME NEW where \in {"context", "setup", "goto"}, UNCHANGED <<url, request, err>>,
                 Goes(c, where)
          PROVE  FinalInv'
      BY <3>c, <2>a DEF TypeOK, Goes
    <3>d. ASSUME NEW where \in {"error", "failing"}, UNCHANGED <<url, request>>,
                 NEW e \in {"refused", "timeout", "navigation", "browser"},
                 Goes(c, where), err' = [err EXCEPT ![c] = e]
          PROVE  FinalInv'
      BY <3>d, <2>a DEF TypeOK, Goes
    <3>1. CASE CheckTarget(c)
      BY <3>1, <3>c, <3>d DEF CheckTarget, ThrowsAtOnce
    <3>2. CASE NewContext(c)
      BY <3>2, <3>c, <3>d DEF NewContext, ThrowsAtOnce
    <3>3. CASE SetUp(c)
      <4>1. /\ request' = [request EXCEPT ![c]["navigation"] = "checking"]
            /\ UNCHANGED <<url, err>> /\ pc' = [pc EXCEPT ![c] = "goto"]
        BY <3>3 DEF SetUp, Goes
      <4> QED
        BY <4>1 DEF FinalInv, TypeOK
    <3>4. CASE SetUpFails(c)
      BY <3>4, <3>d DEF SetUpFails, ThrowsAtOnce
    <3>5. CASE GotoReturns(c)
      <4>1. /\ UNCHANGED <<url, request>> /\ request[c]["navigation"] = "loaded"
            /\ AfterGoto(c)
        BY <3>5 DEF GotoReturns, NetworkIdle
      <4>2. CASE Throws(c, "refused")
        BY <4>1, <4>2, <3>d DEF Throws
      <4>3. CASE Throws(c, "target")
        BY <4>1, <4>3 DEF Throws, Goes, FinalInv, TypeOK
      <4>4. CASE Goes(c, "final") /\ UNCHANGED err
        BY <4>1, <4>4 DEF Goes, FinalInv, TypeOK
      <4> QED
        BY <4>1, <4>2, <4>3, <4>4 DEF AfterGoto
    <3>6. CASE GotoTimesOut(c)
      BY <3>6, <3>d DEF GotoTimesOut, Throws
    <3>7. CASE GotoRejects(c)
      BY <3>7, <3>d DEF GotoRejects, Throws
    <3>8. CASE CheckFinal(c)
      <4>1. UNCHANGED <<url, request>> /\ pc[c] = "final"
        BY <3>8 DEF CheckFinal
      <4>2. CASE Throws(c, "refused")
        BY <4>1, <4>2, <3>d DEF Throws
      <4>3. CASE /\ Goes(c, "content") /\ UNCHANGED err
                 /\ \E answer \in Answers : AssertSafeTargetUrl(url[c], answer)
        BY <4>1, <4>3 DEF Goes, FinalInv, TypeOK
      <4> QED
        BY <3>8, <4>2, <4>3 DEF CheckFinal
    <3>9. CASE Content(c)
      <4>1. UNCHANGED <<url, request>> /\ pc[c] = "content"
        BY <3>9 DEF Content
      <4>2. CASE Throws(c, "limit")
        <5>1. pc' = [pc EXCEPT ![c] = "failing"] /\ err' = [err EXCEPT ![c] = "limit"]
          BY <4>2 DEF Throws, Goes
        <5> QED
          BY <4>1, <5>1 DEF FinalInv, TypeOK
      <4>3. CASE Goes(c, "collect") /\ UNCHANGED err
        BY <4>1, <4>3, <2>a DEF Goes, TypeOK
      <4> QED
        BY <3>9, <4>2, <4>3 DEF Content
    <3>10. CASE Collect(c)
      BY <3>10, <2>a DEF Collect, Goes, TypeOK
    <3>11. CASE Close(c)
      BY <3>11, <2>a DEF Close, Goes, TypeOK
    <3>12. CASE CallRejects(c)
      BY <3>12, <3>d DEF CallRejects, Throws
    <3>13. CASE Fail(c)
      BY <3>13, <2>a DEF Fail, Goes, TypeOK
    <3> QED
      BY <2>4, <3>1, <3>2, <3>3, <3>4, <3>5, <3>6, <3>7, <3>8, <3>9, <3>10, <3>11, <3>12, <3>13
      DEF Step
  <2>5. ASSUME NEW c \in Crawls, Hangs(c) PROVE FinalInv'
    BY <2>5, <2>a DEF Hangs, Goes, TypeOK
  <2>c. ASSUME NEW c \in Crawls, NEW r \in Requests, NEW state,
               UNCHANGED <<url, pc, err>>, request[c][r] # "loaded",
               request' = [request EXCEPT ![c][r] = state]
        PROVE  FinalInv'
    BY <2>c DEF FinalInv, TypeOK
  <2>6. ASSUME NEW c \in Crawls, NEW r \in Requests, Send(c, r) PROVE FinalInv'
    BY <2>6, <2>c DEF Send
  <2>7. ASSUME NEW c \in Crawls, NEW r \in Requests, CheckRequest(c, r) PROVE FinalInv'
    <3>1. UNCHANGED <<url, pc, err>> /\ request[c][r] = "checking"
      BY <2>7 DEF CheckRequest
    <3>2. PICK state \in {"sent", "refused"} : request' = [request EXCEPT ![c][r] = state]
      BY <2>7 DEF CheckRequest
    <3> QED
      BY <3>1, <3>2, <2>c
  <2>8. ASSUME NEW c \in Crawls, NEW r \in Requests, Redirect(c, r) PROVE FinalInv'
    <3>1. UNCHANGED <<pc, request, err>> /\ request[c][r] = "sent"
      BY <2>8 DEF Redirect
    <3>2. CASE r # "navigation"
      BY <2>8, <3>1, <3>2, <2>b DEF Redirect
    <3>3. CASE r = "navigation"
      <4>1. ~Idle(c)
        BY <3>1, <3>3 DEF FinalInv
      <4>2. PICK u \in Urls : url' = [url EXCEPT ![c] = u]
        BY <2>8, <3>3 DEF Redirect
      <4> QED
        BY <3>1, <4>1, <4>2 DEF FinalInv, TypeOK
    <3> QED
      BY <3>2, <3>3
  <2>9. ASSUME NEW c \in Crawls, NEW r \in Requests, Respond(c, r) PROVE FinalInv'
    BY <2>9, <2>c DEF Respond
  <2>10. CASE UNCHANGED vars
    BY <2>10, <2>b DEF vars
  <2> QED
    BY <2>1, <2>2, <2>3, <2>4, <2>5, <2>6, <2>7, <2>8, <2>9, <2>10 DEF Next, Quiescent
<1> QED
  BY <1>1, <1>2, TypeCorrect, ContextHolds, PTL DEF Spec

(* A document that was redirected is reported only if the policy allows the  *)
(* URL it came from.                                                          *)
THEOREM RedirectsAreChecked == Spec => []RedirectsEndAllowed
<1>1. TypeOK /\ ResultInv /\ FinalInv => RedirectsEndAllowed
  <2> SUFFICES ASSUME TypeOK, ResultInv, FinalInv, NEW c \in Crawls,
                      result[c] \in {"page", "CRAWLER_LIMIT"}
               PROVE  \E answer \in Answers : AssertSafeTargetUrl(url[c], answer)
    BY DEF RedirectsEndAllowed
  <2>1. Passed(c)
    BY DEF TypeOK, ResultInv, Settled, Passed, MapExtractError
  <2> QED
    BY <2>1 DEF FinalInv
<1> QED
  BY <1>1, TypeCorrect, ResultHolds, FinalHolds, PTL

-----------------------------------------------------------------------------
(* The log is what had come when the limit was checked, and what came later. *)
THEOREM LogIsBounded == Spec => []LogWithinLimit
<1> DEFINE Same == UNCHANGED <<network, late, logged>>
<1>1. Init => LogInv
  <2> SUFFICES ASSUME Init PROVE LogInv
    OBVIOUS
  <2>1. \A c \in Crawls : LateResponses(c) = {}
    BY DEF Init, LateResponses, ResponsesOf
  <2>2. Cardinality({}) = 0
    BY FS_EmptySet
  <2>3. \A c \in Crawls : pc[c] # "collect" /\ logged[c] = 0
    BY DEF Init
  <2> QED
    BY <2>1, <2>2, <2>3, FiniteAssumption DEF LogInv
<1>2. TypeOK /\ TypeOK' /\ ContextInv /\ RefusalInv /\ LogInv /\ [Next]_vars => LogInv'
  <2> SUFFICES ASSUME TypeOK, TypeOK', ContextInv, RefusalInv, LogInv, [Next]_vars PROVE LogInv'
    OBVIOUS
  <2>a. ASSUME Same, \A c \in Crawls : pc'[c] = "collect" => pc[c] = "collect"
        PROVE  LogInv'
    <3>1. UNCHANGED <<url, request, hops, late, logged>>
      BY <2>a DEF network
    <3>2. \A c \in Crawls : /\ EarlyResponses(c)' = EarlyResponses(c)
                            /\ LateResponses(c)' = LateResponses(c)
      BY <3>1 DEF EarlyResponses, LateResponses, ResponsesOf
    <3> QED
      BY <2>a, <3>1, <3>2 DEF LogInv
  <2>b. ASSUME \A c \in Crawls :
                 /\ late[c] \subseteq late'[c]
                 /\ \A r \in Requests : /\ hops[c][r] <= hops'[c][r]
                                        /\ request[c][r] = "loaded" => request'[c][r] = "loaded",
               UNCHANGED logged,
               \A c \in Crawls : pc'[c] = "collect" => /\ pc[c] = "collect"
                                                       /\ EarlyResponses(c)' = EarlyResponses(c)
        PROVE  LogInv'
    <3> SUFFICES ASSUME NEW c \in Crawls
                 PROVE  /\ pc'[c] = "collect" => Cardinality(EarlyResponses(c)') <= MaxResponses
                        /\ logged'[c] <= MaxResponses + Cardinality(LateResponses(c)')
      BY DEF LogInv
    <3>1. /\ Cardinality(LateResponses(c)) \in Nat /\ Cardinality(LateResponses(c)') \in Nat
          /\ Cardinality(LateResponses(c)) <= Cardinality(LateResponses(c)')
      BY <2>b, LateResponsesGrow
    <3>2. logged'[c] = logged[c] /\ logged[c] \in Nat
      BY <2>b DEF TypeOK
    <3>3. logged[c] <= MaxResponses + Cardinality(LateResponses(c))
      BY DEF LogInv
    <3>4. logged'[c] <= MaxResponses + Cardinality(LateResponses(c)')
      BY <3>1, <3>2, <3>3, FiniteAssumption
    <3> QED
      BY <2>b, <3>4 DEF LogInv
  <2>1. CASE Launch
    BY <2>1, <2>a DEF Launch
  <2>2. CASE BrowserDies
    BY <2>2, <2>a DEF BrowserDies
  <2>3. CASE Destroy
    BY <2>3, <2>a DEF Destroy
  <2>4. ASSUME NEW c \in Crawls, Step(c) PROVE LogInv'
    <3>a. ASSUME Same, NEW where \in Awaited \ {"collect"}, Goes(c, where) PROVE LogInv'
      BY <3>a, <2>a DEF TypeOK, Goes
    <3>1. CASE CheckTarget(c)
      BY <3>1, <3>a DEF CheckTarget, ThrowsAtOnce, Awaited
    <3>2. CASE NewContext(c)
      BY <3>2, <3>a DEF NewContext, ThrowsAtOnce, Awaited
    <3>3. CASE SetUp(c)
      <4>1. /\ request' = [request EXCEPT ![c]["navigation"] = "checking"]
            /\ UNCHANGED <<hops, late, logged>> /\ pc' = [pc EXCEPT ![c] = "goto"]
            /\ request[c]["navigation"] = "unsent"
        BY <3>3 DEF SetUp, Goes, ContextInv
      <4>2. \A x \in Crawls : pc'[x] = "collect" =>
              pc[x] = "collect" /\ EarlyResponses(x)' = EarlyResponses(x)
        BY <4>1 DEF TypeOK, EarlyResponses, ResponsesOf
      <4>3. \A x \in Crawls, r \in Requests :
              /\ late[x] \subseteq late'[x] /\ hops[x][r] <= hops'[x][r]
              /\ request[x][r] = "loaded" => request'[x][r] = "loaded"
        BY <4>1 DEF TypeOK
      <4>4. \A x \in Crawls : late[x] \subseteq late'[x]
        BY <4>1
      <4> QED
        BY <4>1, <4>2, <4>3, <4>4, <2>b
    <3>4. CASE SetUpFails(c)
      BY <3>4, <3>a DEF SetUpFails, ThrowsAtOnce, Awaited
    <3>5. CASE GotoReturns(c)
      BY <3>5, <3>a DEF GotoReturns, AfterGoto, Throws, Awaited
    <3>6. CASE GotoTimesOut(c)
      BY <3>6, <3>a DEF GotoTimesOut, Throws, Awaited
    <3>7. CASE GotoRejects(c)
      BY <3>7, <3>a DEF GotoRejects, Throws, Awaited
    <3>8. CASE CheckFinal(c)
      BY <3>8, <3>a DEF CheckFinal, Throws, Awaited
    <3>9. CASE Close(c)
      BY <3>9, <3>a DEF Close, Awaited
    <3>10. CASE CallRejects(c)
      BY <3>10, <3>a DEF CallRejects, Throws, PageCalls, Awaited
    <3>11. CASE Fail(c)
      BY <3>11, <3>a DEF Fail, Awaited
    <3>12. CASE Content(c)
      <4>1. Same
        BY <3>12 DEF Content
      <4>2. CASE Goes(c, "collect") /\ ~ExceedsLimit(Responses(c))
        <5>1. /\ Requests \ late[c] \in SUBSET Requests /\ Requests \in SUBSET Requests
              /\ EarlyResponses(c) \subseteq ResponsesOf(c, Requests)
          BY DEF EarlyResponses, ResponsesOf
        <5>2. /\ Cardinality(EarlyResponses(c)) <= Responses(c)
              /\ Cardinality(EarlyResponses(c)) \in Nat /\ Responses(c) \in Nat
          BY <5>1, FiniteResponses, FS_Subset DEF EarlyResponses, Responses
        <5>3. Cardinality(EarlyResponses(c)) <= MaxResponses
          BY <4>2, <5>2, FiniteAssumption DEF ExceedsLimit
        <5>4. UNCHANGED <<request, hops, late, logged>>
          BY <4>1 DEF network
        <5>5. \A x \in Crawls : /\ EarlyResponses(x)' = EarlyResponses(x)
                                /\ LateResponses(x)' = LateResponses(x)
          BY <5>4 DEF EarlyResponses, LateResponses, ResponsesOf
        <5>6. \A x \in Crawls : pc'[x] = "collect" => x = c \/ pc[x] = "collect"
          BY <4>2 DEF Goes, TypeOK
        <5> QED
          BY <5>3, <5>4, <5>5, <5>6 DEF LogInv
      <4>3. CASE Throws(c, "limit")
        BY <4>1, <4>3, <3>a DEF Throws, Awaited
      <4> QED
        BY <3>12, <4>2, <4>3 DEF Content
    <3>13. CASE Collect(c)
      <4>1. /\ UNCHANGED <<request, hops, late>> /\ pc[c] = "collect"
            /\ logged' = [logged EXCEPT ![c] = Responses(c)] /\ pc' = [pc EXCEPT ![c] = "close"]
        BY <3>13 DEF Collect, Goes, network
      <4>2. /\ late[c] \in SUBSET Requests /\ Requests \ late[c] \in SUBSET Requests
            /\ Requests \in SUBSET Requests
        BY DEF TypeOK
      <4>3. /\ IsFiniteSet(EarlyResponses(c)) /\ Cardinality(EarlyResponses(c)) \in Nat
            /\ IsFiniteSet(LateResponses(c)) /\ Cardinality(LateResponses(c)) \in Nat
            /\ Responses(c) \in Nat
        BY <4>2, FiniteResponses DEF EarlyResponses, LateResponses, Responses
      <4>4. /\ ResponsesOf(c, Requests) = EarlyResponses(c) \cup LateResponses(c)
            /\ EarlyResponses(c) \cap LateResponses(c) = {}
        BY <4>2 DEF EarlyResponses, LateResponses, ResponsesOf
      <4>5. Responses(c) = Cardinality(EarlyResponses(c)) + Cardinality(LateResponses(c))
        <5>1. Cardinality(EarlyResponses(c) \cup LateResponses(c))
                = Cardinality(EarlyResponses(c)) + Cardinality(LateResponses(c))
                    - Cardinality(EarlyResponses(c) \cap LateResponses(c))
          BY <4>3, FS_Union
        <5>2. Cardinality(EarlyResponses(c) \cap LateResponses(c)) = 0
          BY <4>4, FS_EmptySet
        <5> QED
          BY <4>3, <4>4, <5>1, <5>2 DEF Responses
      <4>6. Cardinality(EarlyResponses(c)) <= MaxResponses
        BY <4>1 DEF LogInv
      <4>7. Responses(c) <= MaxResponses + Cardinality(LateResponses(c))
        BY <4>3, <4>5, <4>6, FiniteAssumption
      <4>8. \A x \in Crawls : /\ EarlyResponses(x)' = EarlyResponses(x)
                              /\ LateResponses(x)' = LateResponses(x)
        BY <4>1 DEF EarlyResponses, LateResponses, ResponsesOf
      <4>9. \A x \in Crawls : pc'[x] = "collect" => pc[x] = "collect"
        BY <4>1 DEF TypeOK
      <4>10. \A x \in Crawls : logged'[x] <= MaxResponses + Cardinality(LateResponses(x))
        BY <4>1, <4>7 DEF LogInv, TypeOK
      <4> QED
        BY <4>8, <4>9, <4>10 DEF LogInv
    <3> QED
      BY <2>4, <3>1, <3>2, <3>3, <3>4, <3>5, <3>6, <3>7, <3>8, <3>9, <3>10, <3>11, <3>12, <3>13
      DEF Step
  <2>5. ASSUME NEW c \in Crawls, Hangs(c) PROVE LogInv'
    BY <2>5, <2>a DEF Hangs, Goes, TypeOK
  <2>6. ASSUME NEW c \in Crawls, NEW r \in Requests, Send(c, r) PROVE LogInv'
    <3>1. UNCHANGED <<pc, hops, logged>> /\ request[c][r] = "unsent"
      BY <2>6 DEF Send
    <3>2. PICK state \in {"checking", "loaded"} : request' = [request EXCEPT ![c][r] = state]
      BY <2>6 DEF Send
    <3>3. (late' = late /\ pc[c] = "goto") \/ late' = [late EXCEPT ![c] = @ \cup {r}]
      BY <2>6 DEF Send
    <3>4. \A x \in Crawls : late[x] \subseteq late'[x]
      <4>1. late \in [Crawls -> SUBSET Requests]
        BY DEF TypeOK
      <4> QED
        BY <3>3, <4>1
    <3>5. \A x \in Crawls, s \in Requests :
            /\ hops[x][s] <= hops'[x][s]
            /\ request[x][s] = "loaded" => request'[x][s] = "loaded"
      BY <3>1, <3>2 DEF TypeOK
    <3>6. \A x \in Crawls : pc'[x] = "collect" => EarlyResponses(x)' = EarlyResponses(x)
      <4> SUFFICES ASSUME NEW x \in Crawls, pc'[x] = "collect"
                   PROVE  EarlyResponses(x)' = EarlyResponses(x)
        OBVIOUS
      <4>1. CASE x # c
        BY <3>1, <3>2, <3>3, <4>1 DEF TypeOK, EarlyResponses, ResponsesOf
      <4>2. CASE x = c
        <5>1. late'[c] = late[c] \cup {r} /\ pc[c] = "collect"
          BY <3>1, <3>3, <4>2 DEF TypeOK
        <5>2. \A s \in Requests \ late'[c] : request'[c][s] = request[c][s] /\ s # r
          BY <3>2, <5>1 DEF TypeOK
        <5>3. \A n \in 1..MaxHops + 1 :
                 ~(n <= hops[c][r] + (IF request[c][r] = "loaded" THEN 1 ELSE 0))
          BY <3>1 DEF ContextInv, TypeOK
        <5> QED
          BY <3>1, <4>2, <5>1, <5>2, <5>3 DEF EarlyResponses, ResponsesOf
      <4> QED
        BY <4>1, <4>2
    <3> QED
      BY <3>1, <3>4, <3>5, <3>6, <2>b
  <2>7. ASSUME NEW c \in Crawls, NEW r \in Requests, CheckRequest(c, r) PROVE LogInv'
    <3>0. UNCHANGED <<pc, hops, late, logged>> /\ request[c][r] = "checking"
      BY <2>7 DEF CheckRequest
    <3>1. PICK state \in {"sent", "refused"} : request' = [request EXCEPT ![c][r] = state]
      BY <2>7 DEF CheckRequest
    <3>2. \A x \in Crawls, s \in Requests : (request'[x][s] = "loaded") = (request[x][s] = "loaded")
      BY <3>0, <3>1 DEF TypeOK
    <3>3. \A x \in Crawls : EarlyResponses(x)' = EarlyResponses(x)
      BY <3>0, <3>2 DEF EarlyResponses, ResponsesOf
    <3>4. \A x \in Crawls : late[x] \subseteq late'[x]
      BY <3>0
    <3>5. \A x \in Crawls, s \in Requests : hops[x][s] <= hops'[x][s]
      BY <3>0 DEF TypeOK
    <3> QED
      BY <3>0, <3>2, <3>3, <3>4, <3>5, <2>b
  <2>c. ASSUME NEW c \in Crawls, NEW r \in Requests, request[c][r] = "sent",
               NEW x \in Crawls, pc[x] = "collect",
               \A y \in Crawls, s \in Requests : y # c \/ s # r =>
                  request'[y][s] = request[y][s] /\ hops'[y][s] = hops[y][s],
               UNCHANGED late
        PROVE  EarlyResponses(x)' = EarlyResponses(x)
    <3>1. \A s \in Requests \ late[x] : x # c \/ s # r
      BY <2>c DEF RefusalInv, Idle, Open
    <3> QED
      BY <2>c, <3>1 DEF EarlyResponses, ResponsesOf
  <2>8. ASSUME NEW c \in Crawls, NEW r \in Requests, Redirect(c, r) PROVE LogInv'
    <3>1. /\ UNCHANGED <<pc, request, late, logged>> /\ request[c][r] = "sent"
          /\ hops' = [hops EXCEPT ![c][r] = @ + 1]
      BY <2>8 DEF Redirect
    <3>2. \A y \in Crawls, s \in Requests : y # c \/ s # r =>
             request'[y][s] = request[y][s] /\ hops'[y][s] = hops[y][s]
      BY <3>1 DEF TypeOK
    <3>3. \A x \in Crawls, s \in Requests : hops[x][s] <= hops'[x][s]
      BY <3>1 DEF TypeOK
    <3>4. \A x \in Crawls : pc'[x] = "collect" => EarlyResponses(x)' = EarlyResponses(x)
      BY <3>1, <3>2, <2>c
    <3>5. \A x \in Crawls : late[x] \subseteq late'[x]
      BY <3>1
    <3> QED
      BY <3>1, <3>3, <3>4, <3>5, <2>b
  <2>9. ASSUME NEW c \in Crawls, NEW r \in Requests, Respond(c, r) PROVE LogInv'
    <3>1. UNCHANGED <<pc, hops, late, logged>> /\ request[c][r] = "sent"
      BY <2>9 DEF Respond
    <3>2. PICK state \in {"loaded", "failed"} : request' = [request EXCEPT ![c][r] = state]
      BY <2>9 DEF Respond
    <3>3. \A y \in Crawls, s \in Requests : y # c \/ s # r =>
             request'[y][s] = request[y][s] /\ hops'[y][s] = hops[y][s]
      BY <3>1, <3>2 DEF TypeOK
    <3>4. \A x \in Crawls, s \in Requests :
             /\ hops[x][s] <= hops'[x][s]
             /\ request[x][s] = "loaded" => request'[x][s] = "loaded"
      BY <3>1, <3>2 DEF TypeOK
    <3>5. \A x \in Crawls : pc'[x] = "collect" => EarlyResponses(x)' = EarlyResponses(x)
      BY <3>1, <3>3, <2>c
    <3>6. \A x \in Crawls : late[x] \subseteq late'[x]
      BY <3>1
    <3> QED
      BY <3>1, <3>4, <3>5, <3>6, <2>b
  <2>10. CASE UNCHANGED vars
    BY <2>10, <2>a DEF vars, network
  <2> QED
    BY <2>1, <2>2, <2>3, <2>4, <2>5, <2>6, <2>7, <2>8, <2>9, <2>10 DEF Next, Quiescent
<1>3. LogInv => LogWithinLimit
  BY DEF LogInv, LogWithinLimit, LateResponses
<1> QED
  BY <1>1, <1>2, <1>3, TypeCorrect, ContextHolds, RefusalHolds, PTL DEF Spec
=============================================================================
