------------------------------- MODULE JobHook -------------------------------
(***************************************************************************)
(* The browser's side of a job: the React hook useExtractionJob, the       *)
(* polling loop pollExtraction and the requests of ExtractionApiClient.    *)
(*                                                                         *)
(* JavaScript runs one callback at a time, so the code between two awaits  *)
(* is one step; user actions (submit, cancel, leaving the page) and        *)
(* responses interleave between them.  Each call of submit() owns an       *)
(* AbortController; the controllers are identified with the calls.  The    *)
(* server is the abstract specification JobLifecycle, without crashes.     *)
(***************************************************************************)
CONSTANTS Submits, \* calls of submit()
          Clicks,  \* calls of cancel()
          Jobs, Slots, None,
          NetworkFails \* may a request fail, or be answered with an error?

ASSUME HookAssumption == /\ None \notin Submits \cup Jobs
                         /\ NetworkFails \in BOOLEAN

VARIABLES status, running, \* the server: JobLifecycle
          ui,       \* the state of the hook: job and status shown, flags
          polling,  \* the ref to the current controller
          aborted,  \* the controllers that were aborted
          submits,  \* the progress of each call of submit()
          clicks,   \* the progress of each call of cancel()
          mounted   \* is the page open?

server == <<status, running>>
vars == <<status, running, ui, polling, aborted, submits, clicks, mounted>>

Server == INSTANCE JobLifecycle

Terminal == {"SUCCEEDED", "FAILED", "CANCELLED"}
Statuses == Terminal \cup {"ABSENT", "QUEUED", "RUNNING", "CANCEL_REQUESTED"}
SubmitPCs == {"idle", "creating", "created", "fetching", "reading", "waiting", "done"}
ClickPCs  == {"idle", "sent", "recorded", "answered", "refused", "done"}

\* Every variable keeps its shape; a controller is aborted only if it exists.
TypeOK ==
  /\ status \in [Jobs -> Statuses]
  /\ running \in [Jobs -> SUBSET Slots]
  /\ ui \in [job : Jobs \cup {None}, seen : Statuses,
             submitting : BOOLEAN, error : BOOLEAN]
  /\ polling \in Submits \cup {None}
  /\ aborted \subseteq Submits
  /\ submits \in [Submits -> [pc : SubmitPCs, job : Jobs \cup {None}, seen : Statuses]]
  /\ clicks \in [Clicks -> [pc : ClickPCs, job : Jobs \cup {None}, seen : Statuses]]
  /\ mounted \in BOOLEAN

Blank == [job |-> None, seen |-> "ABSENT", submitting |-> FALSE, error |-> FALSE]

Init ==
  /\ Server!Init
  /\ ui = Blank
  /\ polling = None
  /\ aborted = {}
  /\ submits = [c \in Submits |-> [pc |-> "idle", job |-> None, seen |-> "ABSENT"]]
  /\ clicks = [x \in Clicks |-> [pc |-> "idle", job |-> None, seen |-> "ABSENT"]]
  /\ mounted = TRUE

-----------------------------------------------------------------------------
(* Helpers: setState and abort                                             *)

Show(j, seen) == ui' = [job |-> j, seen |-> seen, submitting |-> FALSE, error |-> FALSE]
ShowError     == ui' = [ui EXCEPT !.submitting = FALSE, !.error = TRUE]

\* Slips: abort() is called on a ref that holds no controller yet; nothing is
\* ever aborted.
CurrentUnchecked == {polling}
NeverAborted == {}

\* polling.current?.abort(), as a set of controllers.
Current == {polling} \ {None}

Goto(c, pc) == submits' = [submits EXCEPT ![c].pc = pc]

-----------------------------------------------------------------------------
(* submit()                                                                *)

\* The button is disabled while isSubmitting.
Submit(c) ==
  /\ mounted /\ ~ui.submitting
  /\ submits[c].pc = "idle"
  /\ aborted' = aborted \cup Current
  /\ polling' = c
  /\ ui' = [Blank EXCEPT !.submitting = TRUE]
  /\ Goto(c, "creating")
  /\ UNCHANGED <<server, clicks, mounted>>

\* The server creates the job (a fresh idempotency key each time).
CreateServed(c) ==
  /\ submits[c].pc = "creating"
  /\ \E j \in Jobs :
       /\ Server!Submit(j)
       /\ submits' = [submits EXCEPT ![c] = [pc |-> "created", job |-> j,
                                            seen |-> "QUEUED"]]
  /\ UNCHANGED <<ui, polling, aborted, clicks, mounted>>

\* Slip: all calls share one controller.
PollsIfNoneAborted(c) == aborted = {}

\* pollExtraction starts only if the controller of this call is not aborted.
PollsIfAlive(c) == c \notin aborted

\* createJob takes no signal: its answer is shown in any case.
CreateAnswered(c) ==
  /\ submits[c].pc = "created"
  /\ Show(submits[c].job, submits[c].seen)
  /\ Goto(c, IF PollsIfAlive(c) THEN "fetching" ELSE "done")
  /\ UNCHANGED <<server, polling, aborted, clicks, mounted>>

\* The request or its answer is lost, or the answer is an error: 503 when the
\* queue refused the job.
CreateFails(c) ==
  /\ NetworkFails
  /\ \/ submits[c].pc \in {"creating", "created"} /\ UNCHANGED server
     \/ submits[c].pc = "created" /\ Server!Refuse(submits[c].job)
  /\ ShowError
  /\ Goto(c, "done")
  /\ UNCHANGED <<polling, aborted, clicks, mounted>>

-----------------------------------------------------------------------------
(* pollExtraction                                                          *)

\* The server reads the row and the headers of its answer arrive.
PollServed(c) ==
  /\ submits[c].pc = "fetching"
  /\ c \notin aborted
  /\ submits' = [submits EXCEPT ![c] = [@ EXCEPT !.pc = "reading",
                                                  !.seen = status[submits[c].job]]]
  /\ UNCHANGED <<server, ui, polling, aborted, clicks, mounted>>

\* The body arrives: onUpdate, and the loop ends on a terminal status.
PollDelivered(c) ==
  /\ submits[c].pc = "reading"
  /\ c \notin aborted
  /\ Show(submits[c].job, submits[c].seen)
  /\ Goto(c, IF submits[c].seen \in Terminal THEN "done" ELSE "waiting")
  /\ UNCHANGED <<server, polling, aborted, clicks, mounted>>

PollFails(c) ==
  /\ NetworkFails
  /\ submits[c].pc \in {"fetching", "reading"}
  /\ c \notin aborted
  /\ ShowError
  /\ Goto(c, "done")
  /\ UNCHANGED <<server, polling, aborted, clicks, mounted>>

WaitElapsed(c) ==
  /\ submits[c].pc = "waiting"
  /\ c \notin aborted
  /\ Goto(c, "fetching")
  /\ UNCHANGED <<server, ui, polling, aborted, clicks, mounted>>

\* An abort ends the fetch and the wait with an AbortError, which submit
\* ignores; while the body is read the client turns it into INVALID_RESPONSE,
\* which is shown.
AbortSeen(c) ==
  /\ c \in aborted
  /\ \/ submits[c].pc \in {"fetching", "waiting"} /\ UNCHANGED ui
     \/ submits[c].pc = "reading" /\ ShowError
  /\ Goto(c, "done")
  /\ UNCHANGED <<server, polling, aborted, clicks, mounted>>

-----------------------------------------------------------------------------
(* cancel() and leaving the page                                           *)

\* The button is shown while the job on screen is QUEUED or RUNNING.
CancelClick(x) ==
  /\ mounted
  /\ ui.seen \in {"QUEUED", "RUNNING"}
  /\ clicks[x].pc = "idle"
  /\ aborted' = aborted \cup Current
  /\ clicks' = [clicks EXCEPT ![x].pc = "sent", ![x].job = ui.job]
  /\ UNCHANGED <<server, ui, polling, submits, mounted>>

\* The server records the cancellation or answers 409; a job that ended while
\* the request was under way may get either answer.
CancelServed(x) ==
  /\ clicks[x].pc = "sent"
  /\ \/ Server!AskCancel(clicks[x].job) /\ clicks' = [clicks EXCEPT ![x].pc = "recorded"]
     \/ /\ status[clicks[x].job] \notin {"QUEUED", "RUNNING"}
        /\ \E pc \in {"recorded", "refused"} : clicks' = [clicks EXCEPT ![x].pc = pc]
        /\ UNCHANGED server
  /\ UNCHANGED <<ui, polling, aborted, submits, mounted>>

\* Slip: the answer says CANCELLED whatever the row says.
CancelReadHopeful(x) ==
  /\ clicks[x].pc = "recorded"
  /\ clicks' = [clicks EXCEPT ![x].pc = "answered", ![x].seen = "CANCELLED"]
  /\ UNCHANGED <<server, ui, polling, aborted, submits, mounted>>

\* The row as the server reads it for the answer.
CancelRead(x) ==
  /\ clicks[x].pc = "recorded"
  /\ clicks' = [clicks EXCEPT ![x] = [@ EXCEPT !.pc = "answered",
                                               !.seen = status[clicks[x].job]]]
  /\ UNCHANGED <<server, ui, polling, aborted, submits, mounted>>

CancelAnswered(x) ==
  /\ clicks[x].pc = "answered"
  /\ Show(clicks[x].job, clicks[x].seen)
  /\ clicks' = [clicks EXCEPT ![x].pc = "done"]
  /\ UNCHANGED <<server, polling, aborted, submits, mounted>>

\* 409, or any other error: the message is shown beside the job.
CancelFails(x) ==
  /\ \/ clicks[x].pc = "refused"
     \/ NetworkFails /\ clicks[x].pc \in {"sent", "recorded", "answered"}
  /\ ui' = [ui EXCEPT !.error = TRUE]
  /\ clicks' = [clicks EXCEPT ![x].pc = "done"]
  /\ UNCHANGED <<server, polling, aborted, submits, mounted>>

Unmount ==
  /\ mounted
  /\ mounted' = FALSE
  /\ aborted' = aborted \cup Current
  /\ UNCHANGED <<server, ui, polling, submits, clicks>>

-----------------------------------------------------------------------------
(* The server works on its own.  It does not crash: an execution that ends *)
(* without a result has been cancelled.                                    *)
ServerRuns(j) ==
  /\ \/ Server!Cancel(j)
     \/ \E s \in Slots : \/ Server!Start(j, s) /\ running'[j] = {s}
                         \/ Server!Retry(j, s) \/ Server!Record(j, s)
                         \/ status[j] # "RUNNING" /\ Server!Leave(j, s)
  /\ UNCHANGED <<ui, polling, aborted, submits, clicks, mounted>>

SubmitRuns(c) ==
  \/ CreateServed(c) \/ CreateAnswered(c)
  \/ PollServed(c) \/ PollDelivered(c) \/ WaitElapsed(c) \/ AbortSeen(c)

ClickRuns(x) == CancelServed(x) \/ CancelRead(x) \/ CancelAnswered(x) \/ CancelFails(x)

\* Nothing is left to do but for the user, who need not do it.
Idle == /\ \A c \in Submits : submits[c].pc \in {"idle", "done"}
        /\ \A x \in Clicks : clicks[x].pc \in {"idle", "done"}
        /\ \A j \in Jobs : status[j] \in Terminal \cup {"ABSENT"} /\ running[j] = {}
        /\ UNCHANGED vars

Next ==
  \/ \E c \in Submits : Submit(c) \/ SubmitRuns(c) \/ CreateFails(c) \/ PollFails(c)
  \/ \E x \in Clicks : CancelClick(x) \/ ClickRuns(x)
  \/ \E j \in Jobs : ServerRuns(j)
  \/ Unmount
  \/ Idle

Spec == Init /\ [][Next]_vars

\* The browser delivers responses and timers; the server finishes jobs
\* (ExtractionSystem!EveryJobEnds): a job that keeps running records a result.
Fairness ==
  /\ \A c \in Submits : WF_vars(SubmitRuns(c))
  /\ \A x \in Clicks : WF_vars(ClickRuns(x))
  /\ \A j \in Jobs : /\ WF_vars(ServerRuns(j))
                     /\ SF_vars(ServerRuns(j) /\ status'[j] \in Terminal)

FairSpec == Spec /\ Fairness

-----------------------------------------------------------------------------
(* Properties                                                              *)

\* At most one polling loop is alive, the one of the current controller: a new
\* submit, a cancel and leaving the page each stop the loop they replace, and
\* an answer that arrives late does not start another one.
OnePoller ==
  \A c \in Submits :
    submits[c].pc \in {"fetching", "reading", "waiting"} /\ c \notin aborted
      => c = polling

\* A status on screen never gets better than the truth: a terminal status shown
\* is the status of the job, and a job shown exists.
ShownIsTrue ==
  /\ ui.job # None => status[ui.job] # "ABSENT" /\ ui.seen # "ABSENT"
  /\ ui.job # None /\ ui.seen \in Terminal => status[ui.job] = ui.seen

\* What polling delivers is never older than what is on screen: a terminal status
\* shown is replaced only by another job or by the answer to a cancellation (two
\* cancellations of one job may be answered in the wrong order).
PollingNeverRegresses ==
  [][ui.seen \in Terminal /\ ui'.job = ui.job /\ ui'.seen # ui.seen
       => \E x \in Clicks : clicks[x].pc = "answered" /\ clicks'[x].pc = "done"]_vars

\* A job shown live is being polled by the submission that made it, unless that
\* one was aborted (by a newer submission, a cancel, leaving the page) or an error
\* is shown beside the job: nothing else ends a loop early, or keeps it from starting.
StopsOnlyWhenTold ==
  \A c \in Submits :
    ui.job # None /\ submits[c].job = ui.job /\ ui.seen \notin Terminal =>
      \/ submits[c].pc \in {"fetching", "reading", "waiting"}
      \/ c \in aborted \/ ui.error

\* ARCHITECTURE.md:48: the page asks for a job until SUCCEEDED, FAILED or CANCELLED.
\* As long as the job on screen is live, and no error is shown, some call of
\* submit() is still at work that will show more of it or another job.
AsksUntilTerminal ==
  mounted /\ ui.job # None /\ ui.seen \notin Terminal /\ ~ui.error =>
    \E c \in Submits : submits[c].pc \notin {"idle", "done"}

\* ARCHITECTURE.md:48: the page follows a job until SUCCEEDED, FAILED or CANCELLED.
PollsUntilTerminal ==
  \A j \in Jobs :
    (ui.job = j /\ ui.seen \notin Terminal) ~>
      (ui.seen \in Terminal \/ ui.job # j \/ ~mounted)
=============================================================================
