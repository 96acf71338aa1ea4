-------------------------- MODULE ExtractionSystem --------------------------
(***************************************************************************)
(* The path of an extraction job: requests to the API that create or       *)
(* cancel jobs, the PostgreSQL rows, the BullMQ queue, and the worker's    *)
(* slots that execute jobs.  Each call the code awaits (one statement on   *)
(* the database or one script on Redis) is a step of its own, so that the  *)
(* requests and the slots interleave as they do in production.             *)
(*                                                                         *)
(* A slot is one unit of the worker's concurrency; the slots may belong to *)
(* one worker process or to several.                                       *)
(***************************************************************************)
EXTENDS Integers

CONSTANTS Creates,     \* the POST /extractions requests
          Cancels,     \* the POST /extractions/:id/cancel requests
          Keys,        \* the pairs (owner, Idempotency-Key)
          Jobs,        \* row ids
          Slots,       \* worker slots
          None,
          MaxAttempts, \* attempts: 3, also the default of maxAttempts
          MaxStalled,
          Faults       \* what may go wrong

FaultKinds == {"apiDies",     \* a request dies: crash, or a statement rejected
               "queueDown",   \* queue.add rejected, with or without effect
               "dbError",     \* a worker statement rejected, with or without effect
               "workerDies",  \* a slot dies in the middle of a job
               "lockLost"}    \* a live slot fails to renew its lock

ASSUME SystemAssumption ==
  /\ None \notin Jobs \cup Keys \cup Slots
  /\ MaxAttempts \in Nat \ {0}
  /\ MaxStalled \in Nat
  /\ Faults \subseteq FaultKinds

VARIABLES rows,       \* the table ExtractionJob
          entries,    \* the queue
          creating,   \* the progress of each create request
          cancelling, \* the progress of each cancel request
          slots       \* the progress of each worker slot

vars == <<rows, entries, creating, cancelling, slots>>

Store == INSTANCE JobStore
Queue == INSTANCE BullQueue

-----------------------------------------------------------------------------
CreatePCs == {"idle", "insert", "reread", "enqueue", "compensate",
              "accepted", "unavailable", "gone"}
CancelPCs == {"idle", "update", "read", "getJob", "getState", "remove",
              "accepted", "conflict", "failed", "gone"}
SlotPCs   == {"idle", "claimCancel", "claimQueued", "claimRead", "extract",
              "complete", "handle", "ackCompleted", "ackFailed"}

\* Every variable keeps its shape; in particular every statement writes a status
\* of the enum.
TypeOK ==
  /\ rows \in [Jobs -> Store!Rows(Keys)]
  /\ entries \in [Jobs -> Queue!Entries(Slots)]
  /\ creating \in [Creates -> [pc : CreatePCs, key : Keys \cup {None},
                               job : Jobs \cup {None}, created : BOOLEAN]]
  /\ cancelling \in [Cancels -> [pc : CancelPCs, job : Jobs \cup {None},
                                 seen : Store!RowStatuses]]
  /\ slots \in [Slots -> [pc : SlotPCs, job : Jobs \cup {None}, attempt : Nat]]

Init ==
  /\ rows = [j \in Jobs |-> Store!AbsentRow]
  /\ entries = [j \in Jobs |-> Queue!NoEntry]
  /\ creating = [c \in Creates |-> [pc |-> "idle", key |-> None, job |-> None,
                                    created |-> FALSE]]
  /\ cancelling = [c \in Cancels |-> [pc |-> "idle", job |-> None, seen |-> "ABSENT"]]
  /\ slots = [s \in Slots |-> [pc |-> "idle", job |-> None, attempt |-> 0]]

-----------------------------------------------------------------------------
(* POST /extractions: ExtractionsService.create, createOrGet, enqueue      *)

\* The row of the key, if there is one (at most one: the unique constraint).
RowOf(k) == {j \in Jobs : rows[j].key = k}

Answer(c, pc) == creating' = [creating EXCEPT ![c].pc = pc]

\* findUnique by (ownerId, idempotencyKey).
CreateLookup(c, k) ==
  /\ creating[c].pc = "idle"
  /\ \/ \E j \in RowOf(k) :
          creating' = [creating EXCEPT ![c] = [pc |-> "accepted", key |-> k,
                                               job |-> j, created |-> FALSE]]
     \/ /\ RowOf(k) = {}
        /\ creating' = [creating EXCEPT ![c] = [pc |-> "insert", key |-> k,
                                                job |-> None, created |-> FALSE]]
  /\ UNCHANGED <<rows, entries, cancelling, slots>>

\* Slip: the constraint was never migrated.
NoConstraint(k) == TRUE

\* The unique constraint of the table on (ownerId, idempotencyKey).
KeyIsFree(k) == RowOf(k) = {}

\* The transaction that inserts the job and its audit event.
CreateInsert(c, j) ==
  /\ creating[c].pc = "insert"
  /\ \/ /\ KeyIsFree(creating[c].key)
        /\ rows[j].status = "ABSENT"
        /\ rows' = [rows EXCEPT ![j] = Store!NewRow(creating[c].key)]
        /\ creating' = [creating EXCEPT ![c].pc = "enqueue", ![c].job = j,
                                        ![c].created = TRUE]
     \/ /\ ~KeyIsFree(creating[c].key)
        /\ Answer(c, "reread")
        /\ UNCHANGED rows
  /\ UNCHANGED <<entries, cancelling, slots>>

\* P2002: the request lost the race and reads the row of the winner.
CreateReread(c) ==
  /\ creating[c].pc = "reread"
  /\ \E j \in RowOf(creating[c].key) :
       creating' = [creating EXCEPT ![c].pc = "accepted", ![c].job = j]
  /\ UNCHANGED <<rows, entries, cancelling, slots>>

AddEntry(c) ==
  entries' = [entries EXCEPT ![creating[c].job] = Queue!Added(@)]

CreateEnqueue(c) ==
  /\ creating[c].pc = "enqueue"
  /\ \/ AddEntry(c) /\ Answer(c, "accepted")
     \/ /\ "queueDown" \in Faults
        /\ AddEntry(c) \/ UNCHANGED entries
        /\ Answer(c, "compensate")
  /\ UNCHANGED <<rows, cancelling, slots>>

\* failQueueSubmission, then 503.
CreateCompensate(c) ==
  /\ creating[c].pc = "compensate"
  /\ rows' = [rows EXCEPT ![creating[c].job] = Store!SubmissionFailed(@)]
  /\ Answer(c, "unavailable")
  /\ UNCHANGED <<entries, cancelling, slots>>

\* The process crashed, or a statement failed and the request ended in 500.
CreateDies(c) ==
  /\ "apiDies" \in Faults
  /\ creating[c].pc \in {"insert", "reread", "enqueue", "compensate"}
  /\ Answer(c, "gone")
  /\ UNCHANGED <<rows, entries, cancelling, slots>>

-----------------------------------------------------------------------------
(* POST /extractions/:id/cancel: ExtractionsService.cancel,                *)
(* requestCancellation, BullMqExtractionQueue.cancel                       *)

CancelStep(c, pc) == cancelling' = [cancelling EXCEPT ![c].pc = pc]

\* findFirst with status in (QUEUED, RUNNING); 409 when there is none.
CancelFind(c, j) ==
  /\ cancelling[c].pc = "idle"
  /\ rows[j].status # "ABSENT"
  /\ cancelling' = [cancelling EXCEPT
       ![c].pc = IF rows[j].status \in Store!Live THEN "update" ELSE "conflict",
       ![c].job = j]
  /\ UNCHANGED <<rows, entries, creating, slots>>

CancelUpdate(c) ==
  /\ cancelling[c].pc = "update"
  /\ rows' = [rows EXCEPT ![cancelling[c].job] = Store!CancelRequested(@)]
  /\ CancelStep(c, "read")
  /\ UNCHANGED <<entries, creating, slots>>

\* findOwned: the row the response will show.
CancelRead(c) ==
  /\ cancelling[c].pc = "read"
  /\ cancelling' = [cancelling EXCEPT ![c].pc = "getJob",
                                      ![c].seen = rows[cancelling[c].job].status]
  /\ UNCHANGED <<rows, entries, creating, slots>>

CancelGetJob(c) ==
  /\ cancelling[c].pc = "getJob"
  /\ CancelStep(c, IF entries[cancelling[c].job].state = "absent"
                   THEN "accepted" ELSE "getState")
  /\ UNCHANGED <<rows, entries, creating, slots>>

CancelGetState(c) ==
  /\ cancelling[c].pc = "getState"
  /\ CancelStep(c, IF entries[cancelling[c].job].state \in {"wait", "delayed"}
                   THEN "remove" ELSE "accepted")
  /\ UNCHANGED <<rows, entries, creating, slots>>

\* The entry may have been taken since: then remove throws and the API says 500.
CancelRemove(c) ==
  /\ cancelling[c].pc = "remove"
  /\ LET j == cancelling[c].job
     IN  \/ /\ Queue!Removable(entries[j])
            /\ entries' = [entries EXCEPT ![j] = Queue!Removed(@)]
            /\ CancelStep(c, "accepted")
         \/ /\ ~Queue!Removable(entries[j])
            /\ UNCHANGED entries
            /\ CancelStep(c, "failed")
  /\ UNCHANGED <<rows, creating, slots>>

CancelDies(c) ==
  /\ "apiDies" \in Faults
  /\ cancelling[c].pc \in {"update", "read", "getJob", "getState", "remove"}
  /\ CancelStep(c, "gone")
  /\ UNCHANGED <<rows, entries, creating, slots>>

-----------------------------------------------------------------------------
(* The worker: QueueWorkerService hands entries to WorkerProcessor.process *)

SlotStep(s, pc) == slots' = [slots EXCEPT ![s].pc = pc]
JobOf(s) == slots[s].job

\* BullMQ gives a waiting entry to a free slot, which calls process with
\* attemptsMade + 1.
Take(s, j) ==
  /\ slots[s].pc = "idle"
  /\ entries[j].state = "wait"
  /\ entries' = [entries EXCEPT ![j] = Queue!Taken(@, s)]
  /\ slots' = [slots EXCEPT ![s] = [pc |-> "claimCancel", job |-> j,
                                    attempt |-> entries[j].made + 1]]
  /\ UNCHANGED <<rows, creating, cancelling>>

\* The row of the slot's job, and a statement that replaces it.
Row(s) == rows[JobOf(s)]
Write(s, new) == rows' = [rows EXCEPT ![JobOf(s)] = new]

ClaimCancel(s) ==
  /\ slots[s].pc = "claimCancel"
  /\ Write(s, Store!ClaimedCancellation(Row(s)))
  /\ SlotStep(s, "claimQueued")
  /\ UNCHANGED <<entries, creating, cancelling>>

\* process returns when the update matched no row: the entry is completed.
ClaimQueued(s) ==
  /\ slots[s].pc = "claimQueued"
  /\ Write(s, Store!Claimed(Row(s)))
  /\ SlotStep(s, IF Row(s).status \in Store!ClaimFrom THEN "claimRead"
                                                      ELSE "ackCompleted")
  /\ UNCHANGED <<entries, creating, cancelling>>

\* Cancelled between the update and the read: process returns.
ClaimRead(s) ==
  /\ slots[s].pc = "claimRead"
  /\ SlotStep(s, IF Row(s).status = "RUNNING" THEN "extract" ELSE "ackCompleted")
  /\ UNCHANGED <<rows, entries, creating, cancelling>>

\* claim is outside the try block: an error leaves process at once.
ClaimFails(s) ==
  /\ "dbError" \in Faults
  /\ \/ /\ slots[s].pc = "claimCancel"
        /\ Write(s, Store!ClaimedCancellation(Row(s))) \/ UNCHANGED rows
     \/ /\ slots[s].pc = "claimQueued"
        /\ Write(s, Store!Claimed(Row(s))) \/ UNCHANGED rows
     \/ /\ slots[s].pc = "claimRead"
        /\ UNCHANGED rows
  /\ SlotStep(s, "ackFailed")
  /\ UNCHANGED <<entries, creating, cancelling>>

\* extractor.extract and the parse of its report, which may both throw.
Extract(s) ==
  /\ slots[s].pc = "extract"
  /\ SlotStep(s, "complete") \/ SlotStep(s, "handle")
  /\ UNCHANGED <<rows, entries, creating, cancelling>>

Complete(s) ==
  /\ slots[s].pc = "complete"
  /\ Write(s, Store!Completed(Row(s)))
  /\ SlotStep(s, "ackCompleted")
  /\ UNCHANGED <<entries, creating, cancelling>>

\* The transaction was rejected, or committed without the worker knowing.
CompleteFails(s) ==
  /\ "dbError" \in Faults
  /\ slots[s].pc = "complete"
  /\ Write(s, Store!Completed(Row(s))) \/ UNCHANGED rows
  /\ SlotStep(s, "handle")
  /\ UNCHANGED <<entries, creating, cancelling>>

\* Slip: one attempt is lost.
IsLastAttemptEarly(s) == slots[s].attempt + 1 >= MaxAttempts

\* Slip: the last attempt is retried too.
IsLastAttemptNever(s) == slots[s].attempt > MaxAttempts

\* attempt < maxAttempts, negated.
IsLastAttempt(s) == slots[s].attempt >= MaxAttempts

\* The catch block: retry or fail, then throw.
Handle(s) ==
  /\ slots[s].pc = "handle"
  /\ \/ IsLastAttempt(s)  /\ Write(s, Store!FailedFinally(Row(s)))
     \/ ~IsLastAttempt(s) /\ Write(s, Store!Retried(Row(s)))
     \/ "dbError" \in Faults /\ UNCHANGED rows
  /\ SlotStep(s, "ackFailed")
  /\ UNCHANGED <<entries, creating, cancelling>>

\* process ended: BullMQ settles the entry, if the slot still holds its lock.
Settle(s) ==
  /\ \/ /\ slots[s].pc = "ackCompleted"
        /\ entries' = [entries EXCEPT ![JobOf(s)] = Queue!Acknowledged(@, s)]
     \/ /\ slots[s].pc = "ackFailed"
        /\ entries' = [entries EXCEPT ![JobOf(s)] = Queue!Rejected(@, s)]
  /\ slots' = [slots EXCEPT ![s] = [pc |-> "idle", job |-> None, attempt |-> 0]]
  /\ UNCHANGED <<rows, creating, cancelling>>

\* The slot's process is killed; its lock is no longer renewed.
SlotDies(s) ==
  /\ "workerDies" \in Faults
  /\ slots[s].pc # "idle"
  /\ entries' = [entries EXCEPT ![JobOf(s)] =
                   IF Queue!HoldsLock(@, s) THEN Queue!LockExpired(@) ELSE @]
  /\ slots' = [slots EXCEPT ![s] = [pc |-> "idle", job |-> None, attempt |-> 0]]
  /\ UNCHANGED <<rows, creating, cancelling>>

LoseLock(s) ==
  /\ "lockLost" \in Faults
  /\ slots[s].pc # "idle"
  /\ Queue!HoldsLock(entries[JobOf(s)], s)
  /\ entries' = [entries EXCEPT ![JobOf(s)] = Queue!LockExpired(@)]
  /\ UNCHANGED <<rows, creating, cancelling, slots>>

-----------------------------------------------------------------------------
(* BullMQ's own timers                                                     *)

MoveStalled(j) ==
  /\ entries[j].state = "active"
  /\ entries[j].holder = None
  /\ entries' = [entries EXCEPT ![j] = Queue!StalledMoved(@)]
  /\ UNCHANGED <<rows, creating, cancelling, slots>>

Promote(j) ==
  /\ entries[j].state = "delayed"
  /\ entries' = [entries EXCEPT ![j] = Queue!Promoted(@)]
  /\ UNCHANGED <<rows, creating, cancelling, slots>>

-----------------------------------------------------------------------------
CreateNext(c) ==
  \/ \E k \in Keys : CreateLookup(c, k)
  \/ \E j \in Jobs : CreateInsert(c, j)
  \/ CreateReread(c) \/ CreateEnqueue(c) \/ CreateCompensate(c) \/ CreateDies(c)

CancelNext(c) ==
  \/ \E j \in Jobs : CancelFind(c, j)
  \/ CancelUpdate(c) \/ CancelRead(c) \/ CancelGetJob(c) \/ CancelGetState(c)
  \/ CancelRemove(c) \/ CancelDies(c)

\* What a slot does by itself, and what may happen to it.
SlotRuns(s) ==
  \/ \E j \in Jobs : Take(s, j)
  \/ ClaimCancel(s) \/ ClaimQueued(s) \/ ClaimRead(s) \/ Extract(s)
  \/ Complete(s) \/ Handle(s) \/ Settle(s)

SlotFails(s) ==
  ClaimFails(s) \/ CompleteFails(s) \/ SlotDies(s) \/ LoseLock(s)

Timers(j) == MoveStalled(j) \/ Promote(j)

\* Every request was answered or died and no entry is left to process: the
\* system is idle, not stuck.
Quiescent ==
  /\ \A c \in Creates : creating[c].pc \in {"accepted", "unavailable", "gone"}
  /\ \A c \in Cancels : cancelling[c].pc \in {"idle", "accepted", "conflict",
                                              "failed", "gone"}
  /\ \A s \in Slots : slots[s].pc = "idle"
  /\ \A j \in Jobs : entries[j].state \notin Queue!Pending
  /\ UNCHANGED vars

Next ==
  \/ \E c \in Creates : CreateNext(c)
  \/ \E c \in Cancels : CancelNext(c)
  \/ \E s \in Slots : SlotRuns(s) \/ SlotFails(s)
  \/ \E j \in Jobs : Timers(j)
  \/ Quiescent

Spec == Init /\ [][Next]_vars

-----------------------------------------------------------------------------
(* Fairness: a request that was accepted by the API runs on, a worker slot *)
(* keeps working, BullMQ's timers fire.  Nothing makes a client send a     *)
(* request, and no fault has to happen.  That a slot keeps working takes   *)
(* for granted that a crawl ends; Crawler shows when it does: navigation   *)
(* and waiting have timeouts, and only a page that never answers an        *)
(* evaluate holds its crawl for ever.                                      *)

CreateRuns(c) == \/ \E j \in Jobs : CreateInsert(c, j)
                 \/ CreateReread(c) \/ CreateEnqueue(c) \/ CreateCompensate(c)

CancelRuns(c) == \/ CancelUpdate(c) \/ CancelRead(c) \/ CancelGetJob(c)
                 \/ CancelGetState(c) \/ CancelRemove(c)

Fairness == /\ \A c \in Creates : WF_vars(CreateRuns(c))
            /\ \A c \in Cancels : WF_vars(CancelRuns(c))
            /\ \A s \in Slots : WF_vars(SlotRuns(s))
            /\ \A j \in Jobs : WF_vars(Timers(j))

FairSpec == Spec /\ Fairness

-----------------------------------------------------------------------------
(* Properties                                                              *)

\* The slot is between the claim of the job and the statement that ends it.
ExecutingPCs == {"claimRead", "extract", "complete", "handle"}
Executing(s, j) == slots[s].job = j /\ slots[s].pc \in ExecutingPCs

\* A job is executed by at most one slot at a time, although the queue may
\* deliver it again after a lost lock, a crash or a failed attempt: the claim
\* QUEUED -> RUNNING is atomic (worker-job.repository.ts:15-19).
SingleExecutor ==
  \A s, t \in Slots, j \in Jobs : Executing(s, j) /\ Executing(t, j) => s = t

\* The columns of a row agree with its status in every reachable state: the
\* report exists exactly with SUCCEEDED (written in one transaction by
\* complete), finishedAt exactly with a terminal status, a failure keeps its
\* error code and a success clears the one an earlier attempt left.
OutcomeConsistent ==
  \A j \in Jobs : LET row == rows[j] IN
    /\ row.report <=> row.status = "SUCCEEDED"
    /\ row.finished <=> row.status \in Store!Terminal
    /\ row.status = "FAILED" => row.error # "none"
    /\ row.status = "SUCCEEDED" => row.error = "none" /\ row.started
    /\ row.started <=> row.attempts > 0

\* A terminal row never changes again, whatever statement a late slot, a late
\* cancel or a late compensation still runs on it.
TerminalFinal ==
  [][\A j \in Jobs : rows[j].status \in Store!Terminal => rows'[j] = rows[j]]_vars

\* After a cancellation was requested the job cannot succeed, fail or be
\* requeued; the only status that may follow is CANCELLED.  (JobLifecycle says
\* it too, and the runs check that.)
CancelSticks ==
  [][\A j \in Jobs : rows[j].status = "CANCEL_REQUESTED"
        => rows'[j].status \in {"CANCEL_REQUESTED", "CANCELLED"}]_vars

\* Once the update of a cancel request ran, the job is never again live, and
\* the row the response shows is not live either: a retry that runs between
\* the two reads cannot bring the job back.
CancelEffective ==
  \A c \in Cancels :
    /\ cancelling[c].pc \in {"read", "getJob", "getState", "remove", "accepted", "failed"}
         => rows[cancelling[c].job].status \notin Store!Live
    /\ cancelling[c].seen \notin Store!Live

\* Requests with the same (owner, Idempotency-Key) get the same job, one of
\* them at most created it (and so enqueued it), and a key has one row.
IdempotentCreate ==
  /\ \A c, d \in Creates :
       /\ creating[c].key = creating[d].key
       /\ None \notin {creating[c].job, creating[d].job}
       => /\ creating[c].job = creating[d].job
          /\ creating[c].created /\ creating[d].created => c = d
  /\ \A i, j \in Jobs : rows[i].key = rows[j].key /\ rows[i].key # None => i = j

\* The number of executions is bounded although a crash repeats one without
\* counting it as an attempt: every repetition is a stall, and BullMQ fails
\* the entry after MaxStalled of them.
AttemptsBounded == \A j \in Jobs : rows[j].attempts <= MaxAttempts + MaxStalled

\* The worker gives up only after the configured number of executions: every
\* failed attempt before the last requeues the job.
GivesUpAtLimit ==
  \A j \in Jobs : rows[j].status = "FAILED" /\ rows[j].error = "INTERNAL"
                    => rows[j].attempts >= MaxAttempts

\* The compensation of a failed submission leaves no job waiting for a queue
\* that never got it.
RefusedNotStranded ==
  \A c \in Creates :
    /\ creating[c].pc = "unavailable"
    /\ entries[creating[c].job].state = "absent"
    => rows[creating[c].job].status \notin Store!Live

\* Database and queue agree when nothing fails.  A QUEUED row is about to be
\* enqueued, or its entry will be processed: it waits, is delayed, is held by a
\* slot that has still to claim it, or is held by the slot that just requeued
\* the row and has another attempt to go.  A RUNNING row is executed by the
\* slot that holds the lock of its entry.
Driven ==
  \A j \in Jobs :
    /\ rows[j].status = "QUEUED" =>
         \/ \E c \in Creates : creating[c].job = j /\ creating[c].pc = "enqueue"
         \/ entries[j].state \in {"wait", "delayed"}
         \/ \E s \in Slots :
              /\ slots[s].job = j /\ Queue!HoldsLock(entries[j], s)
              /\ \/ slots[s].pc \in {"claimCancel", "claimQueued"}
                 \/ slots[s].pc = "ackFailed" /\ entries[j].made + 1 < MaxAttempts
    /\ rows[j].status = "RUNNING" =>
         \E s \in Slots : Executing(s, j) /\ Queue!HoldsLock(entries[j], s)

\* Every job reaches a terminal status, unless its cancellation is requested.
EveryJobEnds ==
  \A j \in Jobs : rows[j].status = "QUEUED"
                    ~> rows[j].status \in Store!Terminal \cup {"CANCEL_REQUESTED"}

\* A cancel request that was accepted for processing ends the job's activity:
\* it settles in a terminal status or stays CANCEL_REQUESTED with no entry
\* left to process and no slot at work on it.
CancelStopsWork ==
  \A c \in Cancels, j \in Jobs :
    (cancelling[c].pc = "update" /\ cancelling[c].job = j) ~>
      [](/\ rows[j].status \notin Store!Live
         /\ entries[j].state \notin Queue!Pending
         /\ \A s \in Slots : slots[s].job # j)

\* The queue drains under crashes, lost locks and database errors: no entry is
\* redelivered for ever.
QueueDrains ==
  \A j \in Jobs : entries[j].state \in Queue!Pending
                    ~> entries[j].state \notin Queue!Pending

\* ARCHITECTURE.md:58-66: a requested cancellation becomes CANCELLED.
CancelCompletes ==
  \A j \in Jobs : rows[j].status = "CANCEL_REQUESTED" ~> rows[j].status = "CANCELLED"

-----------------------------------------------------------------------------
(* The abstract specification, seen through the rows and the slots         *)

Executors(j) == {s \in Slots : Executing(s, j)}

Lifecycle == INSTANCE JobLifecycle
               WITH status  <- [j \in Jobs |-> rows[j].status],
                    running <- [j \in Jobs |-> Executors(j)]

\* The system keeps the promises of JobLifecycle in every behaviour, faults
\* included.
ImplementsLifecycle == Lifecycle!Spec
=============================================================================
