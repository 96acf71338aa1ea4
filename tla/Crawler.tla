------------------------------- MODULE Crawler -------------------------------
(***************************************************************************)
(* ExtractService.extract up to the page, and PlaywrightCrawler.crawl       *)
(* (apps/api/src/extract/crawler/playwright-crawler.ts): several crawls     *)
(* share one browser, each in a context of its own. An action is what runs  *)
(* between two awaits; route handlers run in between.                       *)
(***************************************************************************)
EXTENDS Naturals, FiniteSets, UrlPolicy

CONSTANTS Crawls,        \* concurrent calls of extract
          Subresources,  \* requests a page may make besides its navigation
          Asks,          \* which of them the page of each crawl makes
          Urls,          \* URLs that are asked for
          Answers,       \* answers of the resolver
          MaxHops,       \* redirects the browser follows for one request
          MaxResponses   \* CRAWLER_MAX_RESPONSES

ASSUME UrlsAssumption == Urls \subseteq UrlRecords
ASSUME AnswersAssumption == Answers \subseteq SUBSET Addresses
ASSUME NavigationAssumption == "navigation" \notin Subresources
ASSUME AsksAssumption == Asks \in [Crawls -> SUBSET Subresources]
ASSUME FiniteAssumption == /\ IsFiniteSet(Subresources)
                           /\ MaxHops \in Nat /\ MaxResponses \in Nat

Requests == Subresources \cup {"navigation"}

VARIABLES browser,  \* the shared browser: "new", "up", "dead", "none"
          pc,       \* what a crawl awaits
          ctx,      \* its context: "none", "open", "closed"
          url,      \* the URL it is for, then the one its document comes from
          request,  \* its requests: "unsent", "checking", "sent", then their end
          hops,     \* the redirects each of them followed
          late,     \* the requests sent after goto returned
          blocked,  \* blockedRequestError is set
          logged,   \* entries of the network log it returns
          err,      \* what it threw, or "none"
          result    \* what extract answers: "page", the code of an error, or "none"

network == <<url, request, hops>>
vars == <<browser, pc, ctx, url, request, hops, late, blocked, logged, err, result>>

(* Calls of the browser in the try block. *)
PageCalls == {"goto", "content", "collect", "close"}

Settled(c) == pc[c] \in {"page", "error"}

-----------------------------------------------------------------------------
Init ==
    /\ browser = "new"
    /\ pc = [c \in Crawls |-> "check"]
    /\ ctx = [c \in Crawls |-> "none"]
    /\ url \in [Crawls -> Urls]
    /\ request = [c \in Crawls |-> [r \in Requests |-> "unsent"]]
    /\ hops = [c \in Crawls |-> [r \in Requests |-> 0]]
    /\ late = [c \in Crawls |-> {}]
    /\ blocked = [c \in Crawls |-> FALSE]
    /\ logged = [c \in Crawls |-> 0]
    /\ err = [c \in Crawls |-> "none"]
    /\ result = [c \in Crawls |-> "none"]

(* Slip: an unknown error is not thrown again. *)
MapExtractErrorSwallowed(e) == IF e = "refused" THEN "URL_NOT_ALLOWED" ELSE "none"

(* mapExtractError: an error of no class of its own goes on as it is. *)
MapExtractError(e) ==
    CASE e = "refused" -> "URL_NOT_ALLOWED"
      [] e = "timeout" -> "CRAWLER_TIMEOUT"
      [] e = "target"  -> "CRAWLER_TARGET"
      [] e = "limit"   -> "CRAWLER_LIMIT"
      [] OTHER         -> "INTERNAL"

Goes(c, where) == pc' = [pc EXCEPT ![c] = where]

(* Thrown outside the try block: nothing is closed. *)
ThrowsAtOnce(c, e) ==
    /\ Goes(c, "error")
    /\ err' = [err EXCEPT ![c] = e]
    /\ result' = [result EXCEPT ![c] = MapExtractError(e)]

(* Thrown inside it. *)
Throws(c, e) ==
    /\ Goes(c, "failing")
    /\ err' = [err EXCEPT ![c] = e]

-----------------------------------------------------------------------------
(* The browser *)

(* onModuleInit *)
Launch ==
    /\ browser = "new"
    /\ browser' = "up"
    /\ UNCHANGED <<pc, ctx, network, late, blocked, logged, err, result>>

Gone == [c \in Crawls |-> IF ctx[c] = "open" THEN "closed" ELSE ctx[c]]

(* The process of the browser ends; nothing starts it again. *)
BrowserDies ==
    /\ browser = "up"
    /\ browser' = "dead" /\ ctx' = Gone
    /\ UNCHANGED <<pc, network, late, blocked, logged, err, result>>

(* onModuleDestroy *)
Destroy ==
    /\ browser \in {"up", "dead"}
    /\ browser' = "none" /\ ctx' = Gone
    /\ UNCHANGED <<pc, network, late, blocked, logged, err, result>>

-----------------------------------------------------------------------------
(* One crawl *)

CheckTarget(c) ==
    /\ pc[c] = "check" /\ browser # "new"
    /\ \E answer \in Answers :
         IF AssertSafeTargetUrl(url[c], answer) THEN Goes(c, "context") /\ UNCHANGED <<err, result>>
         ELSE ThrowsAtOnce(c, "refused")
    /\ UNCHANGED <<browser, ctx, network, late, blocked, logged>>

(* A crawler without a browser throws, a dead browser rejects. *)
NewContext(c) ==
    /\ pc[c] = "context"
    /\ IF browser = "up"
       THEN /\ ctx' = [ctx EXCEPT ![c] = "open"]
            /\ Goes(c, "setup") /\ UNCHANGED <<err, result>>
       ELSE ThrowsAtOnce(c, "browser") /\ UNCHANGED ctx
    /\ UNCHANGED <<browser, network, late, blocked, logged>>

(* context.route and newPage, before the try block; then goto is called. *)
SetUp(c) ==
    /\ pc[c] = "setup" /\ ctx[c] = "open"
    /\ Goes(c, "goto")
    /\ request' = [request EXCEPT ![c]["navigation"] = "checking"]
    /\ UNCHANGED <<browser, ctx, url, hops, late, blocked, logged, err, result>>

SetUpFails(c) ==
    /\ pc[c] = "setup"
    /\ ThrowsAtOnce(c, "browser")
    /\ UNCHANGED <<browser, ctx, network, late, blocked, logged>>

(* A request the browser waits for: in the handler or on the network. *)
Open == {"checking", "sent"}

(* Slip: waitUntil 'load' does not wait for the requests of scripts. *)
NetworkLoaded(c) == request[c]["navigation"] = "loaded"

(* networkidle: the document is there and no request is open. *)
NetworkIdle(c) ==
    /\ request[c]["navigation"] = "loaded"
    /\ \A r \in Requests : request[c][r] \notin Open

(* What follows an awaited goto up to the next await: a status of 400 or    *)
(* more is told before the URL it came from is looked at.                     *)
AfterGoto(c) ==
    CASE blocked[c] -> Throws(c, "refused")
      [] OTHER -> \/ Throws(c, "target")
                  \/ Goes(c, "final") /\ UNCHANGED err

GotoReturns(c) ==
    /\ pc[c] = "goto" /\ ctx[c] = "open" /\ NetworkIdle(c)
    /\ AfterGoto(c)
    /\ UNCHANGED <<browser, ctx, network, late, blocked, logged, result>>

(* Slip: a timeout of 0 is no timeout. *)
GotoWaits(c) == FALSE /\ UNCHANGED vars

GotoTimesOut(c) ==
    /\ pc[c] = "goto" /\ ctx[c] = "open"
    /\ Throws(c, "timeout")
    /\ UNCHANGED <<browser, ctx, network, late, blocked, logged, result>>

(* An aborted navigation rejects goto itself, before the flag is looked at; *)
(* so does a connection that fails, and a download.                           *)
GotoRejects(c) ==
    /\ pc[c] = "goto" /\ ctx[c] = "open"
    /\ request[c]["navigation"] \in {"loaded", "failed", "refused"}
    /\ Throws(c, "navigation")
    /\ UNCHANGED <<browser, ctx, network, late, blocked, logged, result>>

(* Slip: what a page is redirected to is taken for what was asked for. *)
CheckFinalSkipped(c) ==
    /\ pc[c] = "final"
    /\ Goes(c, "content")
    /\ UNCHANGED <<browser, ctx, network, late, blocked, logged, err, result>>

(* assertSafeTargetUrl(page.url()), with an answer of its own *)
CheckFinal(c) ==
    /\ pc[c] = "final"
    /\ \E answer \in Answers :
         IF AssertSafeTargetUrl(url[c], answer) THEN Goes(c, "content") /\ UNCHANGED err
         ELSE Throws(c, "refused")
    /\ UNCHANGED <<browser, ctx, network, late, blocked, logged, result>>

(* Every redirect is a response, and so is what a request ends with. *)
ResponsesOf(c, requests) ==
    {p \in requests \X (1..MaxHops + 1) :
        p[2] <= hops[c][p[1]] + (IF request[c][p[1]] = "loaded" THEN 1 ELSE 0)}

Responses(c) == Cardinality(ResponsesOf(c, Requests))

(* Slip: the limit is exceeded by one before it counts. *)
ExceedsLimitByTwo(responses) == responses > MaxResponses + 1

ExceedsLimit(responses) == responses > MaxResponses

(* assertCrawlLimits; the HTML and the redirects may be too many as well. *)
Content(c) ==
    /\ pc[c] = "content" /\ ctx[c] = "open"
    /\ \/ Throws(c, "limit")
       \/ ~ExceedsLimit(Responses(c)) /\ Goes(c, "collect") /\ UNCHANGED err
    /\ UNCHANGED <<browser, ctx, network, late, blocked, logged, result>>

Collect(c) ==
    /\ pc[c] = "collect" /\ ctx[c] = "open"
    /\ Goes(c, "close")
    /\ logged' = [logged EXCEPT ![c] = Responses(c)]
    /\ UNCHANGED <<browser, ctx, network, late, blocked, err, result>>

(* No evaluation has a timeout: a page that loops is waited for. *)
Hangs(c) ==
    /\ pc[c] \in {"content", "collect"} /\ ctx[c] = "open"
    /\ Goes(c, "hung")
    /\ UNCHANGED <<browser, ctx, network, late, blocked, logged, err, result>>

Close(c) ==
    /\ pc[c] = "close" /\ ctx[c] = "open"
    /\ ctx' = [ctx EXCEPT ![c] = "closed"]
    /\ Goes(c, "page")
    /\ result' = [result EXCEPT ![c] = "page"]
    /\ UNCHANGED <<browser, network, late, blocked, logged, err>>

(* A call of a page whose browser is gone, or whose page crashed, rejects. *)
CallRejects(c) ==
    /\ pc[c] \in PageCalls \cup {"hung"}
    /\ ctx[c] = "closed" \/ pc[c] \in {"content", "collect"}
    /\ Throws(c, "browser")
    /\ UNCHANGED <<browser, ctx, network, late, blocked, logged, result>>

(* Slip: the error is passed on and the context forgotten. *)
ClosedAfterErrorNever(context) == context

(* context.close().catch() *)
ClosedAfterError(context) == IF context = "open" THEN "closed" ELSE context

Fail(c) ==
    /\ pc[c] = "failing"
    /\ ctx' = [ctx EXCEPT ![c] = ClosedAfterError(@)]
    /\ Goes(c, "error")
    /\ result' = [result EXCEPT ![c] = MapExtractError(err[c])]
    /\ UNCHANGED <<browser, network, late, blocked, logged, err>>

-----------------------------------------------------------------------------
(* Requests of a page: the handler of context.route *)

(* The page asks for something once its document is there, and goes on      *)
(* asking after goto returned; a data: URL passes without a check.           *)
Send(c, r) ==
    /\ ctx[c] = "open" /\ request[c]["navigation"] = "loaded"
    /\ r \in Asks[c] /\ request[c][r] = "unsent"
    /\ \E state \in {"checking", "loaded"} : request' = [request EXCEPT ![c][r] = state]
    /\ late' = IF pc[c] = "goto" THEN late ELSE [late EXCEPT ![c] = @ \cup {r}]
    /\ UNCHANGED <<browser, pc, ctx, url, hops, blocked, logged, err, result>>

(* The handler: a request is checked once, when it is made, for the URL it   *)
(* is made for; the check may be answered when the context is closed.         *)
CheckRequest(c, r) ==
    /\ request[c][r] = "checking"
    /\ \E asked \in IF r = "navigation" THEN {url[c]} ELSE Urls, answer \in Answers :
         IF AssertSafeTargetUrl(asked, answer)
         THEN request' = [request EXCEPT ![c][r] = "sent"] /\ UNCHANGED blocked
         ELSE /\ request' = [request EXCEPT ![c][r] = "refused"]
              /\ blocked' = [blocked EXCEPT ![c] = TRUE]
    /\ UNCHANGED <<browser, pc, ctx, url, hops, late, logged, err, result>>

(* The server answers with a redirect, to anywhere. The browser follows it   *)
(* without calling the handler again.                                         *)
Redirect(c, r) ==
    /\ request[c][r] = "sent" /\ ctx[c] = "open" /\ hops[c][r] < MaxHops
    /\ hops' = [hops EXCEPT ![c][r] = @ + 1]
    /\ IF r = "navigation" THEN \E u \in Urls : url' = [url EXCEPT ![c] = u]
       ELSE UNCHANGED url
    /\ UNCHANGED <<browser, pc, ctx, request, late, blocked, logged, err, result>>

(* The last answer of a request, or none. *)
Respond(c, r) ==
    /\ request[c][r] = "sent" /\ ctx[c] = "open"
    /\ \E state \in {"loaded", "failed"} : request' = [request EXCEPT ![c][r] = state]
    /\ UNCHANGED <<browser, pc, ctx, url, hops, late, blocked, logged, err, result>>

-----------------------------------------------------------------------------
(* Everything is answered, and whoever waits waits for ever. *)
Quiescent ==
    /\ \A c \in Crawls : Settled(c) \/ pc[c] = "hung"
    /\ UNCHANGED vars

Step(c) ==
    \/ CheckTarget(c) \/ NewContext(c) \/ SetUp(c) \/ SetUpFails(c)
    \/ GotoReturns(c) \/ GotoTimesOut(c) \/ GotoRejects(c)
    \/ CheckFinal(c) \/ Content(c) \/ Collect(c) \/ Close(c)
    \/ CallRejects(c) \/ Fail(c)

Next ==
    \/ Launch \/ BrowserDies \/ Destroy
    \/ \E c \in Crawls :
         \/ Step(c) \/ Hangs(c)
         \/ \E r \in Requests :
              Send(c, r) \/ CheckRequest(c, r) \/ Redirect(c, r) \/ Respond(c, r)
    \/ Quiescent

(* The module is started, and each call goes on: goto has a timeout, the     *)
(* other calls of a live page answer.                                        *)
Fairness == WF_vars(Launch) /\ \A c \in Crawls : WF_vars(Step(c))

Spec == Init /\ [][Next]_vars /\ Fairness

-----------------------------------------------------------------------------
(* Properties *)

Awaited == {"check", "context", "setup", "goto", "final", "content", "collect", "hung",
            "close", "failing", "page", "error"}
Codes == {"URL_NOT_ALLOWED", "CRAWLER_TIMEOUT", "CRAWLER_TARGET", "CRAWLER_LIMIT", "INTERNAL"}

(* A crawl that settled has exactly one answer, and one that did not has none. *)
TypeOK ==
    /\ browser \in {"new", "up", "dead", "none"}
    /\ pc \in [Crawls -> Awaited]
    /\ ctx \in [Crawls -> {"none", "open", "closed"}]
    /\ url \in [Crawls -> Urls]
    /\ request \in [Crawls -> [Requests -> Open \cup {"unsent", "loaded", "failed", "refused"}]]
    /\ hops \in [Crawls -> [Requests -> 0..MaxHops]]
    /\ late \in [Crawls -> SUBSET Requests]
    /\ blocked \in [Crawls -> BOOLEAN]
    /\ logged \in [Crawls -> Nat]
    /\ err \in [Crawls -> {"none", "refused", "timeout", "target", "limit", "navigation", "browser"}]
    /\ result \in [Crawls -> Codes \cup {"none", "page"}]
    /\ \A c \in Crawls : result[c] = "none" <=> ~Settled(c)

(* A crawl that is over left no context behind, unless it failed while the   *)
(* context was being set up: there, before the try block, it leaks.          *)
ContextsAccounted ==
    \A c \in Crawls : Settled(c) /\ ctx[c] = "open" =>
        request[c]["navigation"] = "unsent" /\ result[c] = "INTERNAL"

(* A request the handler refused while goto was pending decides the answer:  *)
(* no report, no status, no limit is told of that page. It says nothing of    *)
(* what the handler does not see: where a redirect leads, and what is asked   *)
(* for after the page was idle.                                               *)
RefusalWins ==
    \A c \in Crawls : result[c] \in {"page", "CRAWLER_TARGET", "CRAWLER_LIMIT"} =>
        {r \in Requests : request[c][r] = "refused"} \subseteq late[c]

(* However it was redirected, a document is only reported, or measured, if    *)
(* the URL it came from passes the policy for an answer the resolver gives.   *)
(* Its status is told before that URL is looked at (CRAWLER_TARGET).          *)
RedirectsEndAllowed ==
    \A c \in Crawls : result[c] \in {"page", "CRAWLER_LIMIT"} =>
        \E answer \in Answers : AssertSafeTargetUrl(url[c], answer)

(* The network log of a report is within CRAWLER_MAX_RESPONSES, redirects     *)
(* included, but for the responses to requests made after the page was idle,  *)
(* which come in between the check and the copy of the log.                   *)
LogWithinLimit ==
    \A c \in Crawls : logged[c] <= MaxResponses + Cardinality(ResponsesOf(c, late[c]))

(* Every call of extract is answered in the end; the exception is a page     *)
(* that stops answering, whose crawl keeps its worker slot.                   *)
EveryCrawlEnds == \A c \in Crawls : <>(Settled(c) \/ pc[c] = "hung")
=============================================================================
