# ExtractionStack: formal model

TLA+ models of ExtractionStack, the TLC runs that check them and the theorems
TLAPS proves about them. ExtractionStack takes the URL of a public site, crawls
it in a worker with Playwright, runs detectors over the page and stores a report.

Paths below are relative to the repository root (`src/` in `PROJECT.json`).

## The system

| Component | State | Operations | Talks to |
|---|---|---|---|
| Job API (`apps/api/src/extractions`) | none of its own | create, get, list, cancel | PostgreSQL, queue |
| Database (`apps/api/prisma`) | rows of User, ExtractionJob, ExtractionReport, AuditEvent; unique keys | conditional updates, transactions | |
| Queue (BullMQ on Redis) | one entry per job id: state, attempts made, stalls, lock | add, take, settle, retry with back-off, move stalled, remove | |
| Worker (`apps/worker`) | one execution per slot (WORKER_CONCURRENCY) | claim, extract, complete, retry, fail | queue, PostgreSQL, extract pipeline |
| Crawler (`apps/api/src/extract/crawler`) | one browser, one context per crawl, blocked-request flag | crawl | URL policy, network |
| Extract pipeline (`apps/api/src/extract`) | none | crawl, thirty detectors, merge, sort, investigation report | crawler |
| Accounts (`auth-local`), tokens and roles (`auth`) | users | signup, login, Google login, dev login, validate, resolve the owner of a job | PostgreSQL |
| Operations | a lazily connected Redis client, counters | readiness, metrics | Redis, PostgreSQL |
| Web client (`apps/web`) | React state of the hook, an AbortController, token and user in localStorage | submit, poll, cancel, leave, log in, show a report | Job API, accounts |

The path of a job: `POST /extractions` resolves the owner the token names, inserts
a row (or finds the one of the same owner and Idempotency-Key), then adds an entry
to the queue in a second step, and compensates (`failQueueSubmission`) if that
fails. A worker slot takes the entry, claims the row with a conditional update,
crawls and analyses the page, and writes the report with another conditional
update; only afterwards BullMQ settles the entry. `POST /extractions/:id/cancel`
updates the row and then removes the entry if it is still waiting. The browser
polls the row and in the end shows the report. The row and the entry live in two
stores that are never updated together; most of the hard behaviour of the system
comes from there.

What makes each component correct:

- API: one job per key however requests race; a refused job does not wait for
  ever; a recorded cancellation is never undone.
- Worker: at most one execution per job; results are written only over RUNNING;
  report and status agree; attempts are bounded and used up before giving up.
- Queue and database together: a live row always has somebody who will act on it;
  every job ends; the queue drains.
- Crawler: the context is closed on every path, a failure of its setup excepted;
  nothing is reported from a page that was refused, or from a URL a redirect led to
  that the policy refuses; every crawl is answered.
- Pipeline: one section per dimension, in registry order; a detector that throws
  affects its own section only; the parts of the document agree; nothing is called
  identified without evidence; every field the page asks for is shown; a job fails
  only for a page beyond a limit.
- Accounts: one account per e-mail under concurrent signups and logins; an account
  keeps its role, address and identities; a job belongs to the account of its token.
- Web client: one polling loop; an outcome shown is the outcome; the page follows
  its job to the end; what a tab shows is what the storage holds.

## Modules

| Module | What it models |
|---|---|
| `JobStore` | One row of ExtractionJob; each `updateMany` of the API and of the worker as a function from rows to rows |
| `BullQueue` | One queue entry, as the program uses BullMQ (external) |
| `JobLifecycle` | Abstract specification: what is promised about a job |
| `ExtractionSystem` | The API requests, the rows, the queue and the slots, one action per awaited call; instantiates the three above |
| `JobHook` | `useExtractionJob`, `pollExtraction` and the API client, with `JobLifecycle` as the server |
| `UrlPolicy` | `assertSafeTargetUrl`: which URL may be asked for |
| `Crawler` | `ExtractService.extract` up to the page and `PlaywrightCrawler.crawl`: browser, contexts, requests of the page, errors |
| `DetectorKit` | What all detectors share: pages, results, evidence, reading of untyped data |
| `Detectors` | The detectors that look signatures up in a table |
| `PageDetectors` | The detectors that measure a page, and the registry of all thirty |
| `InvestigationReport` | `buildInvestigationReport` and the schema its document must pass |
| `ReportView` | `humanizeDetectorData`: what the browser shows of a section |
| `Extract` | The pipeline in the attempts of the worker, the report column, the page that shows it; composes the five above |
| `AccountDirectory` | What the API promises about accounts and tokens, every step atomic: an abstract specification |
| `Accounts` | The User table and the five requests that read and write it |
| `WebSession` | Tabs, localStorage, login pages and lost or late answers, on top of `Accounts` |
| `MCExtraction`, `MCHook`, `MCCrawl`, `MCExtract`, `MCSessions` | Instances for TLC: fault sets, URLs, pages, installations, symmetry |
| `ExtractionSystem_proofs`, `Requests_proofs`, `Attempts_proofs`, `Healthy_proofs` | Theorems about `ExtractionSystem`; each extends an earlier one |
| `JobHook_proofs`, `Crawler_proofs`, `WebSession_proofs` | Theorems about the module of that name |
| `Extract_proofs` | Theorems about `Extract` and lemmas about the five modules below it |

### ExtractionSystem

A create request is at `idle`, `insert`, `reread`, `enqueue`, `compensate` or
answered; the value is the call it is about to make. `CreateLookup` is the first
`findUnique` of `createOrGet`, `CreateInsert` its transaction (row and audit event
commit together, so one step), `CreateReread` the read after P2002,
`CreateEnqueue` `queue.add`, `CreateCompensate` `failQueueSubmission`. A
cancellation runs `CancelFind`, `CancelUpdate`, `CancelRead` (repository), then
`CancelGetJob`, `CancelGetState`, `CancelRemove` (queue). A slot runs `Take`,
`ClaimCancel`, `ClaimQueued`, `ClaimRead` (the three statements of `claim`),
`Extract`, `Complete` or `Handle` (the catch block), and `Settle`, which is
BullMQ's acknowledgement. `MoveStalled` and `Promote` are BullMQ's timers.

Faults are a constant set:

- `apiDies`: a request ends anywhere: a crash, or a rejected statement (500);
- `queueDown`: `queue.add` rejects, with or without effect;
- `dbError`: a worker statement rejects, with or without effect (a lost
  connection after the commit);
- `workerDies`: a slot disappears in the middle of a job;
- `lockLost`: a live slot fails to renew its lock and keeps working.

Times are abstract: `startedAt` and `finishedAt` are "is it set". Report contents
(see `Extract`), URLs, messages and audit events are left out. The owner (see
`Accounts`) and the key of a request are one value. A job that a slot takes always
exists as a row, because entries are added after the commit and rows are never
deleted.

### JobHook

JavaScript runs one callback at a time, so the code between two awaits is one
step. Each call of `submit` is a process with its own AbortController; `polling`
is the ref, `aborted` the aborted controllers. `CreateServed` and `PollServed` are
the moments the server reads or writes, `CreateAnswered` and `PollDelivered` the
callbacks. `AbortSeen` keeps the difference between an abort during the fetch
(silent) and during the body (`INVALID_RESPONSE`, shown). The server is
`JobLifecycle` without crashes: an execution that ends without a result has been
cancelled. The 409 of a cancellation and every network error are included.

### Crawler

Several crawls share the browser that `onModuleInit` launches (`Launch`), that may
end (`BrowserDies`) and that `onModuleDestroy` closes (`Destroy`); nothing launches
it again. `pc` is what a crawl awaits: the check of its target, `newContext`, the
two calls before the try block (`setup`), `goto`, the check of the final URL, the
content and the limits (`content`), the data of the page (`collect`), `close`, or
the closing of the context after an error (`failing`). An action is the code
between two awaits. Meanwhile the handler of `context.route` runs: `Send` is a
request of the page, `CheckRequest` its asynchronous check, which lets it go or
refuses it and then sets the flag `blocked`. `Redirect` and `Respond` are answers to a
request that was let go. `GotoReturns` needs the network to be idle; `GotoTimesOut` is
always possible; `Hangs` is a page that never answers `page.evaluate`, which has no
timeout; `CallRejects` is a call of a context whose browser is gone or whose page
crashed. `MapExtractError` gives the code the job fails with. The history variable
`late` names the requests sent after `goto` returned.

A URL is a record of what the policy asks of it, an address the range `ipaddr.js`
puts it in, and each check sees an answer of the resolver of its own: two checks
of one name may be answered differently. The browser follows a redirect without
calling the handler again: `Redirect` leads the navigation to any URL (`url` is then
where the document comes from) and counts as a response. `CheckFinal` checks that URL
after `goto` returned, when a status of 400 or more has already been told
(`AfterGoto`); where the redirects of a subresource lead is never looked at, so the
model does not record it.

### Extract and the modules below it

A page is the set of marks a crawl left: `<<place, dimension, what>>` says that
a pattern of that detector matches at that place (a script, a header, a cookie,
the HTML). Detectors are functions from pages to results; the tables keep their
names and order. The data of a result, `unknown` in the shared schema, is a record
of lists, counts, texts and flags by field name, so that a reader that looks for a
name nobody wrote, or finds a number where it expects a list, reads nothing, as in
the program. Evidence is its confidence and the technologies its text mentions.

`BuildInvestigationReport` computes findings, confidences, the matrix, the edges of
the diagram, risks, recommendations and the technical evidence. `FitsSchema` is what
the shared schema refuses of that document. Of each field of the technical evidence
(`EvidenceFields`) it knows how many entries there are and whether one is longer than
its bound; the builder cuts some lists (`Cut`) and the texts of one (`CutTexts`), the
schema bounds them all. It also bounds the system overview, which holds the title, the
evidence of a finding (`Overfull`) and its locations, which hold the final URL, behind
the source of the evidence if there is some (`LocatedTooFar`). The other texts are
composed by the builder or cut by it or by a detector.
In `Extract` an attempt is `Analyse` (detectors, merge, sort, report, parse) and
`Complete` (the column is JSONB, which keeps the keys of an object by length and
then by bytes: `Stored`); a failure starts the next attempt until `MaxAttempts`.
`Show` is the page with every section opened.

### Accounts and WebSession

Each handler of `Accounts` looks a row up (`...Look`), awaits, and writes what it
concluded (`...Write`): no transaction spans the two. A write that a unique index
refuses is an unhandled error (`internal`). `OwnerLook` and `OwnerUpsert` are
`resolveOwner` and `upsertActor`. A row is named by the request that inserted it;
`before`, the table when the request arrived, is a history variable. `Lower` is
the normal form of an address; roles in tokens are the roles of the row at that
moment; passwords are compared, not hashed.

`AccountDirectory` is the abstract specification: rows and tokens alone, and each
signup, login, linking and provisioning in one moment. `Directory` in `WebSession` is
its instance, with the rows of the table as accounts and what tokens of Auth0 and the
developer say as claims. A look-up is a stutter there, unless it already answers with
a token; a write is a step, or changes nothing because a unique index refused it.

`WebSession` adds what the browser does: `localStorage` (`store`), shared by the
tabs, and the React state of each tab. A tab may wait for several answers; an
answer may be lost before or after the API did its work (`Lost`), may come when
the tab shows something else (`Answered`), and the form that sent it may have been
mounted anew (`Back`). A Google login leaves the application (`StartGoogle`), comes
back to the API (`GoogleReturns`) and is redirected to `RedirectPath`
(`GoogleAnswered`). An installation says whether the development login, Auth0 and
Google are configured and whether the web server passes `/auth` on to the API.

## Runs

| Run | Bounds | Shows |
|---|---|---|
| `safety_faults` | 2 creates with 1 key, 1 cancel, 2 jobs, 2 slots, 2 attempts, 1 stall, all faults | `TypeOK`, `SingleExecutor`, `OutcomeConsistent`, `TerminalFinal`, `CancelEffective`, `IdempotentCreate`, `AttemptsBounded`, `RefusedNotStranded`, `ImplementsLifecycle` |
| `healthy` | 2 creates with 2 keys, 1 cancel, 2 jobs, 2 slots, 2 attempts, no fault | `Driven` (no live row is without somebody who will act on it), `GivesUpAtLimit`, `EveryJobEnds` |
| `live_faults` | 1 job, 1 cancel, 2 slots, 3 attempts, faults of the worker and its connections | `CancelStopsWork`, `QueueDrains` |
| `hook_safety` | 2 submits, 2 cancels, 2 jobs, network failures | `TypeOK`, `OnePoller`, `ShownIsTrue`, `StopsOnlyWhenTold` (the live job on screen is polled unless its submission was aborted or an error is shown), `PollingNeverRegresses` |
| `crawl` | 2 crawls, the navigation of each and 1 more request of one, 1 redirect per request, 2 responses allowed, 2 URLs, 3 answers of the resolver | `TypeOK`, `ContextsAccounted`, `RefusalWins`, `RedirectsEndAllowed`, `LogWithinLimit`, `EveryCrawlEnds` |
| `extract` | 2 attempts; 2118 inputs (below) | `SectionsInOrder`, `Isolation`, `NothingWithoutEvidence`, `DocumentAgrees`, `TechnologiesShown`, `FoundIsShown`, `FailsOnlyBeyondLimits` |
| `sessions` | 3 requests, 2 tabs, 3 installations, 2 spellings of one address and the developer's, 2 Google identities of it, 1 Auth0 identity with 2 roles | `TypeOK`, `OneAccountPerEmail`, `ShownIsStored`, `ClaimsDoNotRewrite`, `LinksKept`, `JobsFollowTheToken`, `PasswordsOpen`, `ImplementsDirectory` |

Why the bounds are enough:

- Jobs. A row is only touched by its own entry, the slots that hold it and the
  requests that name it, and a second job is there so that a key can win or lose
  the race for the insert. Two slots are needed for a redelivery to overlap its
  first execution; a third would be a third copy of the same program on the same
  row. `MaxAttempts = 2` has a first and a last attempt, 3 one in between. One
  stall allowed has a redelivery and a refusal of the next. `GivesUpAtLimit` is
  checked without faults: a rejected `claim` uses up an attempt of the queue
  without an execution, and then it is not promised.
- The hook. Two submissions overlap in every way a call and its successor can; two
  cancellations may be answered in the wrong order. A third submission is possible
  only when the second's `isSubmitting` was cleared by the first: `bug_hook_overlap`
  has it.
- Crawls share nothing but the browser, so two show everything one can do to
  another; the page of one of them is its document alone. One subresource can be
  sent before and after `goto` returned, loaded, refused and left open. One redirect
  leads from an allowed URL to a refused one or back, and with the redirects of the
  two requests the responses exceed a limit of two, before `goto` returns or later.
  One URL is refused whatever the resolver says, the other depends on it.
- Pages. A detector looks at the marks of its own dimension (and a few that several
  share), so what one of them can return is shown by the marks of one dimension: the
  run has every set of at most three of them, from representative names of every kind
  of place, the names that contain each other (such as `react` and `react-hook-form`)
  included; three marks give two pieces of evidence for one technology and one for
  another. What involves several dimensions, such as the document, the isolation of a
  broken detector and the limits, is shown on a page with marks in every dimension,
  also with each detector throwing, both merged ones throwing, and each list and text
  beyond its bound, alone, in pairs and on the full page (`Beyond`; custom properties
  and fonts are left out of the lists, for their detectors never return more than the
  bound). Patterns that match only where another one does too are closed under that
  (`Implied`).
- Sessions. Each race is between the look and the write of two requests; the third
  makes the account or the token they race about. Two tabs are the one that acts
  and the other.

`safety_faults`, `hook_safety` and `sessions` use symmetry; they check no liveness.
Deadlock is checked everywhere except in `extract`, whose job is over once it is
shown or failed: `Quiescent` and `Idle` are explicit steps of a system that has
nothing left to do.

Operators commented "Slip" in the modules are plausible mistakes (a forgotten
status in a WHERE clause, an off-by-one in the last attempt, a list read under
another name). No specification uses them; each property was seen to fail when one
of them replaces the operator that follows it.

### What the violation runs show

| Run | Disagreement |
|---|---|
| `bug_cancel` | A requested cancellation may stay `CANCEL_REQUESTED` for ever: only `claim` writes `CANCELLED`, and a cancelled job is usually not claimed again (docs/ARCHITECTURE.md:48 and 63) |
| `bug_worker_crash` | A worker that dies after the claim leaves the row `RUNNING` for ever: the redelivered entry finds nothing to claim and is acknowledged (docs/ARCHITECTURE.md:12, ADR 0007) |
| `bug_api_crash` | An API that dies between commit and `queue.add` leaves a `QUEUED` row without an entry; a retry with the same key returns that row (production-hardening-design.md:20) |
| `bug_hook_cancel` | After a click on cancel the page never shows the terminal status (docs/ARCHITECTURE.md:48) |
| `bug_hook_overlap` | With three overlapping submissions the answer of the second `createJob`, which no abort reaches, replaces the job on screen after the third was followed to its end; nobody polls what is then shown (docs/ARCHITECTURE.md:48) |

In the last one the first submission is aborted while it reads a body, reports
`INVALID_RESPONSE` and so clears `isSubmitting` for the second, which lets the form
send a third.

### Other disagreements the models contain

No run is spent on these; where a property is named, it states what does hold, or,
`GoogleNeverSignsIn`, the disagreement itself.

Jobs:

- A worker that dies after `retry()` and before the entry is settled makes a job
  run `maxAttempts + 1` times (extraction-queue.spec.ts:9 speaks of bounded
  retries; `AttemptsBounded` gives the bound).
- `QUEUED -> CANCEL_REQUESTED` is not an arrow of the diagram in
  docs/ARCHITECTURE.md:61-65.
- Late answers set the state of a page that was left
  (plans/2026-07-15-production-hardening.md:469).

Redirects:

- docs/security/security-model.md:7 says that a redirect to an internal network is
  refused and that each request of Chromium is checked again, and
  production-hardening-design.md:22, 55 and 144 that every redirect target is
  rejected or validated. The handler of `context.route` is not called for a redirect,
  so its request is sent; only the URL a navigation ends at is checked, afterwards.
  A document of a refused URL is not reported (`RedirectsEndAllowed`), but its status
  is, when it is 400 or more: `CrawlerTargetError` is thrown before the check
  (playwright-crawler.ts:81-86). Where a redirected subresource was loaded from is
  never looked at. `RefusalWins` is about what the handler refused.

Reports:

- A section is shown as empty although its detector found something, against
  formatDetectorData.ts:29 ("True if no useful information was found"), when all it
  found is in fields its renderer does not ask (`Unread` names them): a page with
  keyframes but no animation library, with media queries but no viewport, with
  JSON-LD or a canonical URL and no other SEO data, with a `Server` header that names
  no framework, and others. Five renderers read names no detector writes, so
  `scrollAnimation`, `transition`, `designTokens`, `architecture` and
  `cssCustomization` are always shown as empty. `FoundIsShown` is what holds: nothing
  else is hidden.
- The sections are sorted in registry order (`SectionsInOrder`), and the JSONB
  column gives them back sorted by the length of their names, so the page does not
  show them in the order of the design (2026-07-14 design, line 123).
- The finding on security headers is `confirmed` without evidence
  (docs/product/investigation-report.md:15); `NothingWithoutEvidence` excepts it.
- Two detectors may report something without evidence (`designSystem`,
  `transition`), although evidence-contract.spec.ts:68 asks for it.
- The diagram has an edge from the API to the back end although no API was seen;
  InvestigationReportView.tsx:83 speaks of evidence for what is drawn.
- README.md speaks of 29 detectors; the registry has 30.

Accounts and sessions:

- A Google login never signs in: the API redirects to `/auth/callback`
  (auth-local.controller.ts:109), the application routes `/callback` (App.tsx:13),
  and behind the development server the API gets the request and knows no such
  path. LoginPage.tsx:84-85 invites to it, CallbackPage.tsx waits for its token and
  auth-local.service.ts:69-72 issues one. `GoogleNeverSignsIn` is part of the
  invariant of `WebSession` and a theorem (`GoogleStaysOut`); no run checks it, for it
  is not what the code is meant to do.
- In the containers nginx passes only `/api/` on, so the login form gets no answer
  of the API.
- With Auth0 configured a token signed by this API is refused, although
  jwt.strategy.ts:50 says that both kinds may be presented; `JobsFollowTheToken` is
  about the tokens that are accepted.
- A login answered late signs the tab in after a logout.
- A signup whose answer was lost is refused when it is repeated; the account opens
  with a login (`PasswordsOpen`).
- Of two Google logins that read one row before either wrote, the later one
  replaces the identity the other linked (auth-local.service.ts:100; `LinksKept`).

### Fairness

`ExtractionSystem!Fairness` is weak fairness of each process: a request the API
accepted runs on (Node runs the continuation of every settled promise), a slot
keeps working, and BullMQ's timers fire (BullMQ polls while a slot is free). For a
slot this takes for granted that a crawl ends. Navigation and waiting have
timeouts; `page.evaluate` has none, and a page that never answers it keeps its
slot for ever. `Crawler` contains that case (`Hangs`); `ExtractionSystem` does not.
No client has to send a request and no fault has to happen. `healthy` does not need
strong fairness of `Take`: a slot has nothing else to do than the entries that wait.

`JobHook!Fairness` is weak fairness of responses and timers and, for the server,
strong fairness of the steps that end a job, which stands for `EveryJobEnds`.

`Crawler!Fairness` is weak fairness of `Launch` (the module is started) and of the
steps of each crawl: `goto` has a timeout, a check is answered, the other calls of
a live page answer unless the page hangs. Requests of a page, the end of the
browser and `Hangs` are free to happen or not. `EveryCrawlEnds` excepts the page
that hangs.

`Extract` has weak fairness of its next step and checks no liveness. `WebSession`
assumes no fairness.

## Theorems

Every invariant and action property that a run checks is also a theorem: for any
number of requests, keys, jobs, slots, crawls and tabs, any limits, any set of faults,
any page and any set of detectors that throw. The assumptions are
`SystemAssumption`, those of `Crawler` (finitely many subresources, none called
`navigation`), `AccountsAssumption` and `WebAssumption` (`Lower` is idempotent,
values of different kinds differ) and those of `Extract` (at least one attempt,
broken detectors are detectors); TLC evaluates them in the runs.

### The job system

| Module | Theorem | Statement |
|---|---|---|
| `ExtractionSystem_proofs` | `TypeCorrect` | `Spec => []TypeOK` |
| | `TerminalIsFinal` | `Spec => TerminalFinal` |
| | `CancelIsRespected` | `Spec => CancelSticks` |
| | `OutcomesAreConsistent` | `Spec => []OutcomeConsistent` |
| | `ExecutionIsExclusive` | `Spec => []SingleExecutor` |
| | `SystemImplementsLifecycle` | `Spec => ImplementsLifecycle` |
| `Requests_proofs` | `CancellationHolds` | `Spec => []CancelEffective` |
| | `CreationIsIdempotent` | `Spec => []IdempotentCreate` |
| | `RefusalsAreFinal` | `Spec => []RefusedNotStranded` |
| `Attempts_proofs` | `ExecutionsAreBounded` | `Spec => []AttemptsBounded` |
| `Healthy_proofs` | `JobsAreDriven` | `Spec /\ NoFaults => []Driven` |
| | `GivesUpInTime` | `Spec /\ NoFaults => []GivesUpAtLimit` |

`TypeInv` strengthens `TypeOK` with "a request or slot at work knows its job",
without which the statements it runs have no type. `RowSteps` then says that every
step leaves a row alone, inserts it, or runs one of seven statements on it; what
the statements do (`StatementGuards`, `StatementsConsistent`) is proved once, about
rows alone, and `TerminalFinal`, `CancelSticks` and `OutcomeConsistent` follow
without looking at the processes again. (`CancelSticks` is implied by `JobLifecycle`,
so no run checks it by itself.) `OutcomeConsistent` is inductive only
together with "a QUEUED row has no finish time" and the like (`RowsConsistent`).

`SingleExecutor` is not inductive: two slots could both be about to claim.
`ExecutionInv` adds that a job somebody executes is not QUEUED, so the claim, whose
guard is QUEUED, cannot succeed a second time; it needs that no statement of the
API makes a row QUEUED and that only the executing slot can requeue it (`Retried`
expects RUNNING). The refinement proof maps each action to a step of
`JobLifecycle` or to a stutter, using both invariants.

The requests need `ReqInv`, three invariants about what a request knows. `CancelInv`:
the row a cancellation found exists, and after its update it is not live. `KeyInv`: a
request that knows a job knows the row of its own key, a key has one row, and a row
has one creator. `EntryInv`: a RUNNING row, and a live row a slot holds, has an entry,
and an entry has a row; this is why a refusal, whose compensation expects QUEUED,
leaves nothing behind that waits without an entry.

The bound on executions is a counting argument. `Counted` says that the attempts of
a live row, together with the slots that may still claim it, are at most the
deliveries of its entry: attempts made, stalls, and the delivery that is out.
`EntryLimit` bounds those by the two limits. The set of claimants is shown finite along the way, so that the
number of slots need not be.

Without faults `HealthyInv` is the conjunction of: a slot at work holds the lock of
its entry and knows its attempt (`Held`), no request was refused or lost and one that
is about to enqueue finds no entry (`Fresh`), an active entry has a holder (`Owned`),
and a live row has the request, entry or slot that will act on it, with as many
attempts as the entry has made (`JobDriven`). `Driven` and `GivesUpAtLimit`
are consequences.

### Hook, crawler, sessions

| Module | Theorem | Statement |
|---|---|---|
| `JobHook_proofs` | `TypeCorrect` | `Spec => []TypeOK` |
| | `OneLoop` | `Spec => []OnePoller` |
| | `ScreenIsTrue` | `Spec => []ShownIsTrue` |
| | `NeverRegresses` | `Spec => PollingNeverRegresses` |
| | `PollsUnlessTold` | `Spec => []StopsOnlyWhenTold` |
| `Crawler_proofs` | `TypeCorrect` | `Spec => []TypeOK` |
| | `ContextsHold` | `Spec => []ContextsAccounted` |
| | `RefusalIsReported` | `Spec => []RefusalWins` |
| | `RedirectsAreChecked` | `Spec => []RedirectsEndAllowed` |
| | `LogIsBounded` | `Spec => []LogWithinLimit` |
| `WebSession_proofs` | `TypeCorrect` | `Spec => []TypeOK` |
| | `OneAccount` | `Spec => []OneAccountPerEmail` |
| | `ShownStored` | `Spec => []ShownIsStored` |
| | `GoogleStaysOut` | `Spec => []GoogleNeverSignsIn` |
| | `ClaimsStay` | `Spec => ClaimsDoNotRewrite` |
| | `LinksHold` | `Spec => LinksKept` |
| | `JobsOwned` | `Spec => JobsFollowTheToken` |
| | `PasswordsHold` | `Spec => PasswordsOpen` |
| | `DirectoryHolds` | `Spec => ImplementsDirectory` |

`JobHook`: `TypeInv` adds that a loop at work names its job; `PollerInv` that a
submission which is not over has been aborted or holds the ref, from which one
loop follows; `TruthInv` that a terminal status which the screen, a loop or an
answer under way remembers is the status of the job, which by `JobLifecycle` never
changes again; `OwnInv` that a job belongs to one submission, which polls no more
once the end of the job is on screen or its cancellation was clicked; `AbortInv`
that a submission which began holds the ref or was aborted, and that the one whose job
is being cancelled was.

`Crawler`: `ContextInv` ties `pc` to the context (there is none before `newContext`,
and one that is open after an error belongs to a crawl that threw in `setup`, before
its navigation was sent). `RefusalInv` says that a refused request has set `blocked`,
and that a crawl past `goto` has no request, late ones apart, that is refused or
still open. `ResultInv` ties the answer to the error it was mapped from. `FinalInv`
says that past `goto` the navigation is over, so that no redirect changes `url` any
more, and that a crawl past `CheckFinal` has a URL some answer allows. `LogInv` bounds
the early responses, redirects included, at the check; the responses after it are
those of late requests (`LateResponsesGrow`).

`WebSession`: `AccountInv` says of the table that rows are well formed, ids are
unique and no two rows clash (`Table`); that only a request that is over has
inserted a row; that every token is backed by a row with its id and, Auth0 rows
apart, its address (`Backed`); and that what a request read lives on, in a row that
keeps its identity, password and, Auth0 rows apart, address and role (`Sound`).
Every handler has one of four forms (look-up, refusal, grant, insert or update;
`Form`), so each fact about the
table is proved per form, not per handler. The browser adds that the stored token
was issued, that store and writing tab agree, and that what comes from Google is
never stored (`WebInv`).

`DirectoryHolds` needs one fact more about the table and about what a request read,
`LinkInv`: a Google identity that a row holds was one of the row's address when it was
written, Auth0 rows apart, and still is (`Linked`); and a Google login that found a
row without an identity found it by the address that Google gave (`Vouched`). From
`AccountInv`, the row it read still has that address when it writes. Then each handler
is a step of the directory or a stutter (`SignupDirectory` to `OwnerDirectory`): the
unique indexes are the directory's condition that no two accounts share anything, and
a token is that of a row which is in the table when the token is issued.

### The pipeline

| Module | Theorem | Statement |
|---|---|---|
| `Extract_proofs` | `SectionsKeepOrder` | `Spec => []SectionsInOrder` |
| | `DetectorsStayIsolated` | `Spec => []Isolation` |
| | `IdentifiedOnEvidence` | `Spec => []NothingWithoutEvidence` |
| | `DocumentStaysConsistent` | `Spec => []DocumentAgrees` |
| | `TechnologiesReachReader` | `Spec => []TechnologiesShown` |
| | `FindingsReachReader` | `Spec => []FoundIsShown` |
| | `JobsFailBeyondLimits` | `Spec => []FailsOnlyBeyondLimits` |

`Inputs` is assumed to name only detectors of the registry as broken, nothing else: where
the run enumerates pages with few marks, the theorems are about every set of marks and
every set of detectors that throw.
The state machine is short, and its invariant `ExtractInv` says that report, column and view are
functions of the input (and that a failed job had its attempts and was lost in the
last). The work is in those functions:

- Sequences. Every filter of the models is `Only` and every sort is `InOrder`, both by
  `FlattenSeq`, a recursive function. Its values are the prefixes of a chain (`Chain`),
  and what holds of the empty prefix and is handed on by each step holds of the last
  one (`CountUp`, from the well-foundedness of `<` on the numbers). From that:
  `Only` keeps what is in the set, first things first (`OnlySet`, `OnlyFirst`), and
  `InOrder` finds under each dimension what was there before.
- Detectors. Each section is `Faithful`: every technology it lists is among the values
  shown, it is shown as empty only if every field outside `Unread` is, and it shows
  nothing that no field signals (`DetectFaithful`, by detector; those of one renderer
  share a lemma).
- Sections. `SectionResult(page, broken, d)` is what dimension d must hold; the runner,
  the merge, the sort, `ByDimension` and the column each keep it.
- Document. `ConfidenceFrom` says "identified" of evidence only, and the confidence of a
  dimension is the first level of `Ranking` that one of its technologies has; from
  this the table, the sections, the matrix and the diagram agree.
- Limits. A list that is cut fits the schema (`CutFits`), a detector that threw leaves
  nothing to the document (`BrokenFails`), and what does not fit is beyond a limit that
  `FailsOnlyBeyondLimits` names (`UnfitIsBeyond`).

### Checked by TLC only

The liveness properties (`EveryJobEnds`, `CancelStopsWork`, `QueueDrains`,
`EveryCrawlEnds`): the prover handles neither fairness nor `ENABLED`.
The library's induction theorems, which take an operator as a parameter, cannot be
used either; where a proof needs induction (`CountUp`), it takes the least element of
a set of counterexamples. No module declares a RECURSIVE operator.

## Not modelled, and why

- The list of extractions and its cursor, reading one extraction by its owner, and
  the history page: they change nothing; the order of rows with equal times is not
  fixed by anything in the repository.
- Readiness, metrics and throttling: no other state depends on them.
- Runtime configuration: checked once, at start.
- The order of the shutdown: it is that of Nest's hooks, which depends on its
  module graph. A worker that is cut off is the fault `workerDies`.
- The page of one extraction (`ExtractionPage`): the polling of `JobHook` with one
  controller.
- The expiry of tokens and the guard of roles, which refuse without a change; audit
  events; the redirect helper of the URL policy, which no code calls.
- Regular expressions, wording, layout and counts above one: a page is what the
  patterns find in it. A length is "beyond its bound" or not; a text that is too long
  is assumed to be within the part of a list that is kept, and a final URL so long
  that the source of some evidence decides (`location`) to be too long behind any.
- The shared schemas and the deployment, but for the bounds of a report and what a
  login depends on.
- BullMQ, PostgreSQL, Prisma, Playwright are taken at their interface: a script or a
  statement is atomic, an acknowledged write stays. Retention of finished entries
  (`removeOnComplete`, `removeOnFail`) is left out: the program never adds the same
  job id twice.

## Plan

Done, in this order: `JobStore`, `BullQueue`, `JobLifecycle`, `ExtractionSystem`;
`JobHook`; `DetectorKit`, `Detectors`, `PageDetectors`, `InvestigationReport`,
`ReportView`, `Extract`; `UrlPolicy`, `Crawler`; `Accounts`, `WebSession`,
`AccountDirectory`; their runs; the theorems above.

Left, most important first:

1. What a worker that lost its lock may do to a row whose entry is settled (the
   model has the fault; no liveness is promised under it yet).
2. A slot whose crawl hangs, in `ExtractionSystem`: which jobs still end when some
   slots never come back.
3. `WorkerShutdown`: pause, close, Prisma and the browser on SIGTERM.
4. `JobListing`: `listOwned` pages by cursor while rows are inserted.
5. `Readiness`, and `ExtractionPage` as a second user of `pollExtraction`.
6. A third abstract specification: a "find or create" register that `createOrGet`
   implements.

## Running

    tlc -workers 2 -config safety_faults.cfg MCExtraction.tla
    tlc -workers 2 -config healthy.cfg MCExtraction.tla
    tlc -workers 2 -config live_faults.cfg MCExtraction.tla
    tlc -workers 2 -config hook_safety.cfg MCHook.tla
    tlc -workers 2 -config crawl.cfg MCCrawl.tla
    tlc -workers 2 -config extract.cfg MCExtract.tla
    tlc -workers 2 -config sessions.cfg MCSessions.tla
    tlapm ExtractionSystem_proofs.tla

and `bug_*.cfg` with `MCExtraction` or `MCHook`. The other proof modules
(`Requests_proofs`, `Attempts_proofs`, `Healthy_proofs`, `JobHook_proofs`,
`Crawler_proofs`, `WebSession_proofs`, `Extract_proofs`) are checked in the same way;
the last one takes about three minutes.
