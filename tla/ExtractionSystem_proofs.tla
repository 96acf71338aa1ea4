----------------------- MODULE ExtractionSystem_proofs -----------------------
(***************************************************************************)
(* Theorems about ExtractionSystem, for every value of its constants: any  *)
(* number of requests, jobs and slots, and any set of faults.              *)
(***************************************************************************)
EXTENDS ExtractionSystem, TLAPS

-----------------------------------------------------------------------------
(* The statements on a row                                                 *)

\* What one statement may make of an existing row.
Successors(row) ==
  {row, Store!CancelRequested(row), Store!SubmissionFailed(row),
   Store!ClaimedCancellation(row), Store!Claimed(row), Store!Completed(row),
   Store!Retried(row), Store!FailedFinally(row)}

\* Every statement of the program turns a row into a row.
LEMMA StatementTypes ==
  ASSUME NEW row \in Store!Rows(Keys), NEW new \in Successors(row)
  PROVE  new \in Store!Rows(Keys)
<1> USE DEF Store!Rows, Store!RowStatuses, Store!Statuses, Store!Live,
            Store!Terminal, Store!ErrorCodes, Store!UpdateMany
<1>1. Store!CancelRequested(row) \in Store!Rows(Keys)
  BY DEF Store!CancelRequested
<1>2. Store!SubmissionFailed(row) \in Store!Rows(Keys)
  BY DEF Store!SubmissionFailed
<1>3. Store!ClaimedCancellation(row) \in Store!Rows(Keys)
  BY DEF Store!ClaimedCancellation
<1>4. Store!Claimed(row) \in Store!Rows(Keys)
  <2>1. row.attempts + 1 \in Nat
    OBVIOUS
  <2>2. [row EXCEPT !.status = "RUNNING", !.started = TRUE,
                    !.attempts = row.attempts + 1] \in Store!Rows(Keys)
    BY <2>1
  <2> QED
    BY <2>2 DEF Store!ClaimFrom, Store!Claimed
<1>5. Store!Completed(row) \in Store!Rows(Keys)
  BY DEF Store!Completed
<1>6. Store!Retried(row) \in Store!Rows(Keys)
  BY DEF Store!Retried
<1>7. Store!FailedFinally(row) \in Store!Rows(Keys)
  BY DEF Store!FailedFinally
<1> QED
  BY <1>1, <1>2, <1>3, <1>4, <1>5, <1>6, <1>7, Zenon DEF Successors

\* The row an insert creates, and the row of an id that is not in use.
LEMMA FreshRowTypes ==
  /\ Store!AbsentRow \in Store!Rows(Keys)
  /\ \A k \in Keys : Store!NewRow(k) \in Store!Rows(Keys)
BY DEF Store!AbsentRow, Store!NewRow, Store!Rows, Store!RowStatuses,
   Store!Statuses, Store!Live, Store!Terminal, Store!ErrorCodes

\* What the queue makes of an entry by itself or for the API, and what a slot
\* makes of it.
QueueOps(e) == {Queue!NoEntry, Queue!Added(e), Queue!Removed(e),
                Queue!LockExpired(e), Queue!StalledMoved(e), Queue!Promoted(e)}
SlotOps(e, s) == {e, Queue!Taken(e, s), Queue!Acknowledged(e, s),
                  Queue!Rejected(e, s), Queue!LockExpired(e)}

\* Every operation on a queue entry turns an entry into an entry.
LEMMA EntryTypes ==
  ASSUME NEW e \in Queue!Entries(Slots)
  PROVE  /\ QueueOps(e) \subseteq Queue!Entries(Slots)
         /\ \A s \in Slots : SlotOps(e, s) \subseteq Queue!Entries(Slots)
<1> USE DEF Queue!Entries, Queue!EntryStates, Queue!NoEntry, Queue!HoldsLock
<1>1. {Queue!NoEntry, Queue!Added(e), Queue!Removed(e)} \subseteq Queue!Entries(Slots)
  BY DEF Queue!Added, Queue!Removed
<1>2. e.made + 1 \in Nat /\ e.stalled + 1 \in Nat
  OBVIOUS
<1>3. {Queue!LockExpired(e), Queue!Promoted(e)} \subseteq Queue!Entries(Slots)
  BY DEF Queue!LockExpired, Queue!Promoted
<1>4. Queue!StalledMoved(e) \in Queue!Entries(Slots)
  BY <1>2 DEF Queue!StalledMoved
<1>5. ASSUME NEW s \in Slots
      PROVE  SlotOps(e, s) \subseteq Queue!Entries(Slots)
  <2>1. {Queue!Taken(e, s), Queue!Acknowledged(e, s)} \subseteq Queue!Entries(Slots)
    BY DEF Queue!Taken, Queue!Acknowledged
  <2>2. Queue!Rejected(e, s) \in Queue!Entries(Slots)
    BY <1>2 DEF Queue!Rejected
  <2> QED
    BY <1>3, <2>1, <2>2 DEF SlotOps
<1> QED
  BY <1>1, <1>3, <1>4, <1>5 DEF QueueOps

-----------------------------------------------------------------------------
(* Type correctness                                                        *)

\* A request or slot that is at work knows its key and its job.
CreateRecord == {r \in [pc : CreatePCs, key : Keys \cup {None},
                        job : Jobs \cup {None}, created : BOOLEAN] :
                   /\ r.pc # "idle" => r.key \in Keys
                   /\ r.pc \in {"enqueue", "compensate", "accepted", "unavailable"}
                        => r.job \in Jobs}
CancelRecord == {r \in [pc : CancelPCs, job : Jobs \cup {None},
                        seen : Store!RowStatuses] : r.pc # "idle" => r.job \in Jobs}
SlotRecord   == {r \in [pc : SlotPCs, job : Jobs \cup {None}, attempt : Nat] :
                   r.pc # "idle" => r.job \in Jobs}

TypeInv == /\ rows \in [Jobs -> Store!Rows(Keys)]
           /\ entries \in [Jobs -> Queue!Entries(Slots)]
           /\ creating \in [Creates -> CreateRecord]
           /\ cancelling \in [Cancels -> CancelRecord]
           /\ slots \in [Slots -> SlotRecord]

\* The strengthened type invariant gives the type invariant of the model.
LEMMA TypeInvImpliesTypeOK == TypeInv => TypeOK
<1> SUFFICES ASSUME TypeInv PROVE TypeOK
  OBVIOUS
<1>1. creating \in [Creates -> [pc : CreatePCs, key : Keys \cup {None},
                                job : Jobs \cup {None}, created : BOOLEAN]]
  BY Zenon DEF TypeInv, CreateRecord
<1>2. cancelling \in [Cancels -> [pc : CancelPCs, job : Jobs \cup {None},
                                  seen : Store!RowStatuses]]
  BY Zenon DEF TypeInv, CancelRecord
<1>3. slots \in [Slots -> [pc : SlotPCs, job : Jobs \cup {None}, attempt : Nat]]
  BY Zenon DEF TypeInv, SlotRecord
<1> QED
  BY <1>1, <1>2, <1>3 DEF TypeInv, TypeOK

\* The empty system is well typed.
LEMMA TypeInit == Init => TypeInv
<1> SUFFICES ASSUME Init PROVE TypeInv
  OBVIOUS
<1>1. rows \in [Jobs -> Store!Rows(Keys)]
  BY FreshRowTypes DEF Init
<1>2. Queue!NoEntry \in Queue!Entries(Slots)
  BY DEF Queue!Entries, Queue!EntryStates, Queue!NoEntry
<1>3. entries \in [Jobs -> Queue!Entries(Slots)]
  BY <1>2 DEF Init
<1> QED
  BY <1>1, <1>3 DEF Init, TypeInv, CreateRecord, CancelRecord, SlotRecord,
     CreatePCs, CancelPCs, SlotPCs, Store!RowStatuses

\* A statement on the row of one job keeps the table well typed.
LEMMA RowUpdateTypes ==
  ASSUME rows \in [Jobs -> Store!Rows(Keys)], NEW j \in Jobs,
         NEW new \in Successors(rows[j])
  PROVE  [rows EXCEPT ![j] = new] \in [Jobs -> Store!Rows(Keys)]
<1>1. rows[j] \in Store!Rows(Keys)
  OBVIOUS
<1>2. new \in Store!Rows(Keys)
  BY <1>1, StatementTypes
<1> QED
  BY <1>2

\* The same for an operation on the entry of one job.
LEMMA EntryUpdateTypes ==
  ASSUME entries \in [Jobs -> Queue!Entries(Slots)], NEW j \in Jobs, NEW new,
         \/ new \in QueueOps(entries[j])
         \/ \E s \in Slots : new \in SlotOps(entries[j], s)
  PROVE  [entries EXCEPT ![j] = new] \in [Jobs -> Queue!Entries(Slots)]
<1>1. entries[j] \in Queue!Entries(Slots)
  OBVIOUS
<1>2. new \in Queue!Entries(Slots)
  BY <1>1, EntryTypes
<1> QED
  BY <1>2

\* A step of a create request keeps everything well typed.
LEMMA CreateTypes ==
  ASSUME TypeInv, NEW c \in Creates, CreateNext(c)
  PROVE  TypeInv'
<1> USE DEF TypeInv
<1>0. /\ creating[c] \in CreateRecord
      /\ creating[c].pc \in {"enqueue", "compensate"} => creating[c].job \in Jobs
      /\ \A r \in CreateRecord :
           creating' = [creating EXCEPT ![c] = r] => creating' \in [Creates -> CreateRecord]
  BY DEF CreateRecord
<1> USE <1>0
<1>1. ASSUME NEW k \in Keys, CreateLookup(c, k) PROVE TypeInv'
  <2>1. creating' \in [Creates -> CreateRecord]
    <3>1. CASE RowOf(k) = {}
      BY <1>1, <3>1 DEF CreateLookup, CreateRecord, CreatePCs
    <3>2. ASSUME NEW j \in RowOf(k),
                 creating' = [creating EXCEPT ![c] = [pc |-> "accepted", key |-> k,
                                               job |-> j, created |-> FALSE]]
          PROVE  creating' \in [Creates -> CreateRecord]
      BY <3>2 DEF RowOf, CreateRecord, CreatePCs
    <3> QED
      BY <1>1, <3>1, <3>2 DEF CreateLookup
  <2> QED
    BY <1>1, <2>1 DEF CreateLookup
<1>2. ASSUME NEW j \in Jobs, CreateInsert(c, j) PROVE TypeInv'
  <2>1. CASE KeyIsFree(creating[c].key)
    <3>1. Store!NewRow(creating[c].key) \in Store!Rows(Keys)
      BY <1>2, FreshRowTypes DEF CreateInsert, CreateRecord
    <3>2. rows' \in [Jobs -> Store!Rows(Keys)]
      BY <1>2, <2>1, <3>1 DEF CreateInsert
    <3>3. creating' \in [Creates -> CreateRecord]
      BY <1>2, <2>1 DEF CreateInsert, CreateRecord, CreatePCs
    <3> QED
      BY <1>2, <3>2, <3>3 DEF CreateInsert
  <2>2. CASE ~KeyIsFree(creating[c].key)
    <3>1. creating' \in [Creates -> CreateRecord]
      BY <1>2, <2>2 DEF CreateInsert, Answer, CreateRecord, CreatePCs
    <3> QED
      BY <1>2, <2>2, <3>1 DEF CreateInsert
  <2> QED
    BY <2>1, <2>2
<1>3. CASE CreateReread(c)
  <2>1. creating' \in [Creates -> CreateRecord]
    BY <1>3 DEF CreateReread, RowOf, CreateRecord, CreatePCs
  <2> QED
    BY <1>3, <2>1 DEF CreateReread
<1>4. CASE CreateEnqueue(c)
  <2>1. creating[c].job \in Jobs
    BY <1>4 DEF CreateEnqueue
  <2>2. Queue!Added(entries[creating[c].job]) \in QueueOps(entries[creating[c].job])
    BY DEF QueueOps
  <2>3. AddEntry(c) => entries' \in [Jobs -> Queue!Entries(Slots)]
    BY <2>1, <2>2, EntryUpdateTypes DEF AddEntry
  <2>4. creating' \in [Creates -> CreateRecord]
    BY <1>4 DEF CreateEnqueue, Answer, CreateRecord, CreatePCs
  <2> QED
    BY <1>4, <2>3, <2>4 DEF CreateEnqueue
<1>5. CASE CreateCompensate(c)
  <2>1. creating[c].job \in Jobs
    BY <1>5 DEF CreateCompensate
  <2>2. Store!SubmissionFailed(rows[creating[c].job]) \in Successors(rows[creating[c].job])
    BY DEF Successors
  <2>3. rows' \in [Jobs -> Store!Rows(Keys)]
    BY <1>5, <2>1, <2>2, RowUpdateTypes DEF CreateCompensate
  <2>4. creating' \in [Creates -> CreateRecord]
    BY <1>5 DEF CreateCompensate, Answer, CreateRecord, CreatePCs
  <2> QED
    BY <1>5, <2>3, <2>4 DEF CreateCompensate
<1>6. CASE CreateDies(c)
  <2>1. creating' \in [Creates -> CreateRecord]
    BY <1>6 DEF CreateDies, Answer, CreateRecord, CreatePCs
  <2> QED
    BY <1>6, <2>1 DEF CreateDies
<1> QED
  BY <1>1, <1>2, <1>3, <1>4, <1>5, <1>6 DEF CreateNext

\* A step of a cancel request keeps everything well typed.
LEMMA CancelTypes ==
  ASSUME TypeInv, NEW c \in Cancels, CancelNext(c)
  PROVE  TypeInv'
<1> USE DEF TypeInv
<1>0. /\ cancelling[c] \in CancelRecord
      /\ cancelling[c].pc # "idle" => cancelling[c].job \in Jobs
      /\ \A r \in CancelRecord :
           cancelling' = [cancelling EXCEPT ![c] = r]
             => cancelling' \in [Cancels -> CancelRecord]
  BY DEF CancelRecord
<1> USE <1>0
<1> DEFINE Typed == cancelling' \in [Cancels -> CancelRecord]
<1>1. ASSUME NEW j \in Jobs, CancelFind(c, j) PROVE TypeInv'
  <2>1. Typed
    BY <1>1 DEF CancelFind, CancelRecord, CancelPCs
  <2> QED
    BY <1>1, <2>1 DEF CancelFind
<1>2. CASE CancelUpdate(c)
  <2>1. cancelling[c].job \in Jobs
    BY <1>2 DEF CancelUpdate
  <2>2. Store!CancelRequested(rows[cancelling[c].job])
          \in Successors(rows[cancelling[c].job])
    BY DEF Successors
  <2>3. rows' \in [Jobs -> Store!Rows(Keys)]
    BY <1>2, <2>1, <2>2, RowUpdateTypes DEF CancelUpdate
  <2>4. Typed
    BY <1>2 DEF CancelUpdate, CancelStep, CancelRecord, CancelPCs
  <2> QED
    BY <1>2, <2>3, <2>4 DEF CancelUpdate
<1>3. CASE CancelRead(c)
  <2>1. rows[cancelling[c].job] \in Store!Rows(Keys)
    BY <1>3 DEF CancelRead
  <2>2. rows[cancelling[c].job].status \in Store!RowStatuses
    BY <2>1 DEF Store!Rows
  <2>3. Typed
    BY <1>3, <2>2 DEF CancelRead, CancelRecord, CancelPCs
  <2> QED
    BY <1>3, <2>3 DEF CancelRead
<1>4. CASE CancelGetJob(c)
  <2>1. Typed
    BY <1>4 DEF CancelGetJob, CancelStep, CancelRecord, CancelPCs
  <2> QED
    BY <1>4, <2>1 DEF CancelGetJob
<1>5. CASE CancelGetState(c)
  <2>1. Typed
    BY <1>5 DEF CancelGetState, CancelStep, CancelRecord, CancelPCs
  <2> QED
    BY <1>5, <2>1 DEF CancelGetState
<1>6. CASE CancelRemove(c)
  <2>1. cancelling[c].job \in Jobs
    BY <1>6 DEF CancelRemove
  <2>2. Queue!Removed(entries[cancelling[c].job])
          \in QueueOps(entries[cancelling[c].job])
    BY DEF QueueOps
  <2>3. entries' \in [Jobs -> Queue!Entries(Slots)]
    BY <1>6, <2>1, <2>2, EntryUpdateTypes DEF CancelRemove
  <2>4. Typed
    BY <1>6 DEF CancelRemove, CancelStep, CancelRecord, CancelPCs
  <2> QED
    BY <1>6, <2>3, <2>4 DEF CancelRemove
<1>7. CASE CancelDies(c)
  <2>1. Typed
    BY <1>7 DEF CancelDies, CancelStep, CancelRecord, CancelPCs
  <2> QED
    BY <1>7, <2>1 DEF CancelDies
<1> QED
  BY <1>1, <1>2, <1>3, <1>4, <1>5, <1>6, <1>7 DEF CancelNext

\* The statements a slot runs are among the successors of its row.
LEMMA SlotStatements ==
  ASSUME NEW row
  PROVE  {Store!ClaimedCancellation(row), Store!Claimed(row), Store!Completed(row),
          Store!Retried(row), Store!FailedFinally(row)} \subseteq Successors(row)
BY DEF Successors

\* A step of a worker slot, or a fault that hits it, keeps everything well
\* typed.
LEMMA SlotTypes ==
  ASSUME TypeInv, NEW s \in Slots, SlotRuns(s) \/ SlotFails(s)
  PROVE  TypeInv'
<1> USE DEF TypeInv
<1> DEFINE Typed == slots' \in [Slots -> SlotRecord]
<1>a. slots[s] \in SlotRecord /\ (slots[s].pc # "idle" => JobOf(s) \in Jobs)
  BY DEF SlotRecord, JobOf
<1>b. \A pc \in SlotPCs : slots[s].pc # "idle" /\ SlotStep(s, pc) => Typed
  BY <1>a DEF SlotStep, SlotRecord, JobOf
<1>c. slots' = [slots EXCEPT ![s] = [pc |-> "idle", job |-> None, attempt |-> 0]]
        => Typed
  BY DEF SlotRecord, SlotPCs
<1>d. \A new \in Successors(Row(s)) :
        JobOf(s) \in Jobs /\ Write(s, new) => rows' \in [Jobs -> Store!Rows(Keys)]
  BY RowUpdateTypes DEF Write, Row
<1>e. \A new \in SlotOps(entries[JobOf(s)], s) :
        JobOf(s) \in Jobs /\ entries' = [entries EXCEPT ![JobOf(s)] = new]
          => entries' \in [Jobs -> Queue!Entries(Slots)]
  BY EntryUpdateTypes
<1> USE DEF SlotPCs
<1>1. ASSUME NEW j \in Jobs, Take(s, j) PROVE TypeInv'
  <2>1. Queue!Taken(entries[j], s) \in SlotOps(entries[j], s)
    BY DEF SlotOps
  <2>2. entries' \in [Jobs -> Queue!Entries(Slots)]
    BY <1>1, <2>1, EntryUpdateTypes DEF Take
  <2>3. entries[j].made + 1 \in Nat
    BY DEF Queue!Entries
  <2>4. Typed
    BY <1>1, <2>3 DEF Take, SlotRecord
  <2> QED
    BY <1>1, <2>2, <2>4 DEF Take
<1>2. CASE ClaimCancel(s)
  BY <1>a, <1>b, <1>c, <1>d, <1>e, <1>2, SlotStatements DEF ClaimCancel
<1>3. CASE ClaimQueued(s)
  BY <1>a, <1>b, <1>c, <1>d, <1>e, <1>3, SlotStatements DEF ClaimQueued
<1>4. CASE ClaimRead(s)
  BY <1>a, <1>b, <1>c, <1>d, <1>e, <1>4 DEF ClaimRead
<1>5. CASE ClaimFails(s)
  BY <1>a, <1>b, <1>c, <1>d, <1>e, <1>5, SlotStatements DEF ClaimFails
<1>6. CASE Extract(s)
  BY <1>a, <1>b, <1>c, <1>d, <1>e, <1>6 DEF Extract
<1>7. CASE Complete(s)
  BY <1>a, <1>b, <1>c, <1>d, <1>e, <1>7, SlotStatements DEF Complete
<1>8. CASE CompleteFails(s)
  BY <1>a, <1>b, <1>c, <1>d, <1>e, <1>8, SlotStatements DEF CompleteFails
<1>9. CASE Handle(s)
  BY <1>a, <1>b, <1>c, <1>d, <1>e, <1>9, SlotStatements DEF Handle
<1>10. CASE Settle(s)
  <2>1. {Queue!Acknowledged(entries[JobOf(s)], s), Queue!Rejected(entries[JobOf(s)], s)}
          \subseteq SlotOps(entries[JobOf(s)], s)
    BY DEF SlotOps
  <2> QED
    BY <1>a, <1>b, <1>c, <1>d, <1>e, <1>10, <2>1 DEF Settle
<1>11. CASE SlotDies(s)
  <2>1. {entries[JobOf(s)], Queue!LockExpired(entries[JobOf(s)])}
          \subseteq SlotOps(entries[JobOf(s)], s)
    BY DEF SlotOps
  <2> QED
    BY <1>a, <1>b, <1>c, <1>d, <1>e, <1>11, <2>1 DEF SlotDies
<1>12. CASE LoseLock(s)
  <2>1. Queue!LockExpired(entries[JobOf(s)]) \in SlotOps(entries[JobOf(s)], s)
    BY DEF SlotOps
  <2> QED
    BY <1>a, <1>b, <1>c, <1>d, <1>e, <1>12, <2>1 DEF LoseLock
<1> QED
  BY <1>1, <1>2, <1>3, <1>4, <1>5, <1>6, <1>7, <1>8, <1>9, <1>10, <1>11, <1>12
     DEF SlotRuns, SlotFails

\* BullMQ's timers keep everything well typed.
LEMMA TimerTypes ==
  ASSUME TypeInv, NEW j \in Jobs, Timers(j)
  PROVE  TypeInv'
<1>1. {Queue!StalledMoved(entries[j]), Queue!Promoted(entries[j])} \subseteq QueueOps(entries[j])
  BY DEF QueueOps
<1>2. entries' \in [Jobs -> Queue!Entries(Slots)]
  BY <1>1, EntryUpdateTypes DEF TypeInv, Timers, MoveStalled, Promote
<1> QED
  BY <1>2 DEF TypeInv, Timers, MoveStalled, Promote

\* The type invariant is inductive.
LEMMA TypeStep == TypeInv /\ [Next]_vars => TypeInv'
<1> SUFFICES ASSUME TypeInv, [Next]_vars PROVE TypeInv'
  OBVIOUS
<1>1. CASE UNCHANGED vars
  BY <1>1 DEF vars, TypeInv
<1>2. CASE Next
  BY <1>1, <1>2, CreateTypes, CancelTypes, SlotTypes, TimerTypes DEF Next, Quiescent
<1> QED
  BY <1>1, <1>2

\* Every reachable state is well typed, and a request or slot at work knows
\* its job.
THEOREM TypeCorrect == Spec => []TypeOK
<1>1. Spec => []TypeInv
  BY TypeInit, TypeStep, PTL DEF Spec
<1> QED
  BY <1>1, TypeInvImpliesTypeOK, PTL

-----------------------------------------------------------------------------
(* What one step of the system does to a row                               *)

ApiSuccessors(row) == {row, Store!CancelRequested(row), Store!SubmissionFailed(row)}

\* Only an insert brings a row into being.
Inserted(j) == /\ rows[j].status = "ABSENT"
               /\ \E k \in Keys : rows'[j] = Store!NewRow(k)

\* The API runs two statements on an existing row.
LEMMA ApiRowSteps ==
  ASSUME TypeInv, NEW j \in Jobs,
         \/ \E c \in Creates : CreateNext(c)
         \/ \E c \in Cancels : CancelNext(c)
  PROVE  rows'[j] \in ApiSuccessors(rows[j]) \/ Inserted(j)
<1> USE DEF TypeInv, ApiSuccessors
<1>1. ASSUME NEW c \in Creates, CreateNext(c)
      PROVE  rows'[j] \in ApiSuccessors(rows[j]) \/ Inserted(j)
  <2>1. ASSUME NEW i \in Jobs, CreateInsert(c, i)
        PROVE  rows'[j] \in ApiSuccessors(rows[j]) \/ Inserted(j)
    <3>1. creating[c].pc # "idle"
      BY <2>1 DEF CreateInsert
    <3>2. creating[c].key \in Keys
      BY <3>1 DEF CreateRecord
    <3> QED
      BY <2>1, <3>2 DEF CreateInsert, Inserted
  <2>2. CASE CreateCompensate(c)
    BY <2>2 DEF CreateCompensate
  <2>3. CASE UNCHANGED rows
    BY <2>3
  <2> QED
    BY <1>1, <2>1, <2>2, <2>3 DEF CreateNext, CreateLookup, CreateReread,
       CreateEnqueue, CreateDies
<1>2. ASSUME NEW c \in Cancels, CancelNext(c)
      PROVE  rows'[j] \in ApiSuccessors(rows[j])
  <2>1. CASE CancelUpdate(c)
    BY <2>1 DEF CancelUpdate
  <2>2. CASE UNCHANGED rows
    BY <2>2
  <2> QED
    BY <1>2, <2>1, <2>2 DEF CancelNext, CancelFind, CancelRead, CancelGetJob,
       CancelGetState, CancelRemove, CancelDies
<1> QED
  BY <1>1, <1>2

\* A slot touches only the row of its job.
LEMMA SlotRowSteps ==
  ASSUME TypeInv, NEW j \in Jobs, NEW s \in Slots, SlotRuns(s) \/ SlotFails(s)
  PROVE  /\ rows'[j] \in Successors(rows[j])
         /\ j # JobOf(s) => rows'[j] = rows[j]
<1> DEFINE Goal == /\ rows'[j] \in Successors(rows[j])
                   /\ j # JobOf(s) => rows'[j] = rows[j]
<1>1. CASE UNCHANGED rows
  BY <1>1 DEF Successors
<1>2. ASSUME NEW new \in Successors(Row(s)), Write(s, new)
      PROVE  Goal
  BY <1>2 DEF TypeInv, Write, Row, Successors
<1>3. \/ UNCHANGED rows
      \/ \E new \in Successors(Row(s)) : Write(s, new)
  BY SlotStatements DEF SlotRuns, SlotFails, Take, ClaimCancel, ClaimQueued,
     ClaimRead, ClaimFails, Extract, Complete, CompleteFails, Handle, Settle,
     SlotDies, LoseLock
<1> QED
  BY <1>1, <1>2, <1>3

\* A step leaves the row of a job alone, inserts it, or runs one statement on
\* it.
LEMMA RowSteps ==
  ASSUME TypeInv, [Next]_vars, NEW j \in Jobs
  PROVE  rows'[j] \in Successors(rows[j]) \/ Inserted(j)
<1>1. rows[j] \in Successors(rows[j])
  BY DEF Successors
<1>2. CASE UNCHANGED rows
  BY <1>1, <1>2
<1>3. ApiSuccessors(rows[j]) \subseteq Successors(rows[j])
  BY DEF ApiSuccessors, Successors
<1> QED
  BY <1>2, <1>3, ApiRowSteps, SlotRowSteps
     DEF Next, vars, Timers, MoveStalled, Promote, Quiescent

\* What no statement does to a row: it does not touch a terminal row, does not
\* revive a job whose cancellation was requested, and does not bring an existing
\* row back to ABSENT.
LEMMA StatementGuards ==
  ASSUME NEW row \in Store!Rows(Keys), NEW new \in Successors(row)
  PROVE  /\ row.status \in Store!Terminal => new = row
         /\ row.status = "CANCEL_REQUESTED"
              => new.status \in {"CANCEL_REQUESTED", "CANCELLED"}
         /\ row.status = "ABSENT" => new = row
         /\ new.status = "ABSENT" => row.status = "ABSENT"
BY DEF Successors, Store!Rows, Store!RowStatuses, Store!Statuses, Store!Live,
   Store!Terminal, Store!UpdateMany, Store!CancelRequested,
   Store!SubmissionFailed, Store!ClaimedCancellation, Store!ClaimFrom, Store!Claimed,
   Store!Completed, Store!Retried, Store!FailedFinally

\* The strengthened type invariant holds in every reachable state.
LEMMA TypeInvariant == Spec => []TypeInv
BY TypeInit, TypeStep, PTL DEF Spec

\* A terminal row never changes again.
THEOREM TerminalIsFinal == Spec => TerminalFinal
<1>1. ASSUME TypeInv, [Next]_vars, NEW j \in Jobs, rows[j].status \in Store!Terminal
      PROVE  rows'[j] = rows[j]
  BY <1>1, RowSteps, StatementGuards DEF TypeInv, Inserted, Store!Terminal
<1>2. TypeInv /\ [Next]_vars
        => [\A j \in Jobs : rows[j].status \in Store!Terminal => rows'[j] = rows[j]]_vars
  BY <1>1
<1> QED
  BY <1>2, TypeInvariant, PTL DEF Spec, TerminalFinal

\* Nothing but CANCELLED follows a requested cancellation.
THEOREM CancelIsRespected == Spec => CancelSticks
<1>1. ASSUME TypeInv, [Next]_vars, NEW j \in Jobs, rows[j].status = "CANCEL_REQUESTED"
      PROVE  rows'[j].status \in {"CANCEL_REQUESTED", "CANCELLED"}
  BY <1>1, RowSteps, StatementGuards DEF TypeInv, Inserted
<1>2. TypeInv /\ [Next]_vars
        => [\A j \in Jobs : rows[j].status = "CANCEL_REQUESTED"
              => rows'[j].status \in {"CANCEL_REQUESTED", "CANCELLED"}]_vars
  BY <1>1
<1> QED
  BY <1>2, TypeInvariant, PTL DEF Spec, CancelSticks

-----------------------------------------------------------------------------
(* The columns of a row agree with its status                              *)

\* OutcomeConsistent for one row; a RUNNING row was started, which is what the
\* step to SUCCEEDED needs.
Consistent(row) ==
  /\ row.report <=> row.status = "SUCCEEDED"
  /\ row.finished <=> row.status \in Store!Terminal
  /\ row.status = "FAILED" => row.error # "none"
  /\ row.status = "SUCCEEDED" => row.error = "none" /\ row.started
  /\ row.started <=> row.attempts > 0
  /\ row.status = "RUNNING" => row.started

RowsConsistent == \A j \in Jobs : Consistent(rows[j])

\* Every statement on an existing row keeps its columns consistent.
LEMMA StatementsConsistent ==
  ASSUME NEW row \in Store!Rows(Keys), Consistent(row), NEW new \in Successors(row)
  PROVE  Consistent(new)
<1> USE DEF Store!Rows, Store!RowStatuses, Store!Statuses, Store!Live,
            Store!Terminal, Store!ErrorCodes, Store!UpdateMany
<1>1. Consistent(Store!CancelRequested(row))
  BY DEF Consistent, Store!CancelRequested
<1>2. Consistent(Store!SubmissionFailed(row))
  BY DEF Consistent, Store!SubmissionFailed
<1>3. Consistent(Store!ClaimedCancellation(row))
  BY DEF Consistent, Store!ClaimedCancellation
<1>4. Consistent(Store!Claimed(row))
  <2>1. row.attempts \in Nat
    OBVIOUS
  <2>2. CASE row.status = "QUEUED"
    <3>1. Store!Claimed(row) = [row EXCEPT !.status = "RUNNING", !.started = TRUE,
                                          !.attempts = row.attempts + 1]
      BY <2>2 DEF Store!ClaimFrom, Store!Claimed
    <3>2. row.attempts + 1 > 0
      BY <2>1
    <3> QED
      BY <2>2, <3>1, <3>2 DEF Consistent
  <2>3. CASE row.status # "QUEUED"
    BY <2>3 DEF Store!ClaimFrom, Store!Claimed
  <2> QED
    BY <2>2, <2>3
<1>5. Consistent(Store!Completed(row))
  BY DEF Consistent, Store!Completed
<1>6. Consistent(Store!Retried(row))
  BY DEF Consistent, Store!Retried
<1>7. Consistent(Store!FailedFinally(row))
  BY DEF Consistent, Store!FailedFinally
<1> QED
  BY <1>1, <1>2, <1>3, <1>4, <1>5, <1>6, <1>7, Zenon DEF Successors

\* The report exists exactly with SUCCEEDED, finishedAt exactly with a terminal
\* status, and the error code agrees with the outcome.
THEOREM OutcomesAreConsistent == Spec => []OutcomeConsistent
<1>1. Init => RowsConsistent
  BY DEF Init, RowsConsistent, Consistent, Store!AbsentRow, Store!Terminal
<1>2. ASSUME TypeInv, RowsConsistent, [Next]_vars
      PROVE  RowsConsistent'
  <2>1. ASSUME NEW j \in Jobs PROVE Consistent(rows'[j])
    <3>1. CASE rows'[j] \in Successors(rows[j])
      BY <1>2, <3>1, StatementsConsistent DEF TypeInv, RowsConsistent
    <3>2. CASE Inserted(j)
      BY <3>2 DEF Inserted, Consistent, Store!NewRow, Store!AbsentRow, Store!Terminal
    <3> QED
      BY <1>2, <3>1, <3>2, RowSteps
  <2> QED
    BY <2>1 DEF RowsConsistent, Consistent
<1>3. RowsConsistent => OutcomeConsistent
  BY DEF RowsConsistent, Consistent, OutcomeConsistent
<1> QED
  BY <1>1, <1>2, <1>3, TypeInvariant, PTL DEF Spec

-----------------------------------------------------------------------------
(* Single execution                                                        *)

\* The inductive invariant: the slots that execute a job are one, and a job that
\* is executed is neither QUEUED (so no claim can match) nor ABSENT.
Claimable == {"ABSENT", "QUEUED"}

ExecutionInv ==
  /\ SingleExecutor
  /\ \A s \in Slots, j \in Jobs : Executing(s, j) => rows[j].status \notin Claimable

\* The API does not make a claimed job claimable again.
LEMMA ApiKeepsClaimed ==
  ASSUME NEW row \in Store!Rows(Keys), NEW new \in ApiSuccessors(row),
         row.status \notin Claimable
  PROVE  new.status \notin Claimable
BY DEF ApiSuccessors, Claimable, Store!Rows, Store!UpdateMany, Store!Live,
   Store!CancelRequested, Store!SubmissionFailed

\* Nor does a slot, but for the retry of its own execution.
LEMMA SlotKeepsClaimed ==
  ASSUME TypeInv, NEW s \in Slots, NEW j \in Jobs, SlotRuns(s) \/ SlotFails(s),
         rows[j].status \notin Claimable, ~(Handle(s) /\ JobOf(s) = j)
  PROVE  rows'[j].status \notin Claimable
<1>1. CASE j # JobOf(s)
  BY <1>1, SlotRowSteps
<1>2. CASE j = JobOf(s) /\ ~Handle(s)
  <2> USE DEF Claimable, Store!Rows, Store!UpdateMany
  <2>1. rows[j] \in Store!Rows(Keys)
    BY DEF TypeInv
  <2>2. {rows[j].status, Store!ClaimedCancellation(rows[j]).status,
         Store!Claimed(rows[j]).status, Store!Completed(rows[j]).status}
          \cap Claimable = {}
    BY <2>1 DEF Store!ClaimedCancellation, Store!ClaimFrom, Store!Claimed, Store!Completed
  <2>3. rows'[j] \in {rows[j], Store!ClaimedCancellation(rows[j]),
                      Store!Claimed(rows[j]), Store!Completed(rows[j])}
    BY <1>2 DEF TypeInv, SlotRuns, SlotFails, Take, ClaimCancel, ClaimQueued,
       ClaimRead, ClaimFails, Extract, Complete, CompleteFails, Settle,
       SlotDies, LoseLock, Write, Row
  <2> QED
    BY <2>2, <2>3
<1> QED
  BY <1>1, <1>2

\* A slot that executes a job was executing it before, or has just claimed it.
LEMMA ExecutionStarts ==
  ASSUME TypeInv, NEW s \in Slots, NEW j \in Jobs, SlotRuns(s) \/ SlotFails(s),
         Executing(s, j)'
  PROVE  \/ Executing(s, j) /\ ~Handle(s)
         \/ ClaimQueued(s) /\ JobOf(s) = j /\ rows[j].status = "QUEUED"
BY DEF TypeInv, SlotRecord, SlotPCs, Executing, ExecutingPCs, SlotRuns, SlotFails,
   Take, ClaimCancel, ClaimQueued, Store!ClaimFrom, ClaimRead, ClaimFails, Extract, Complete,
   CompleteFails, Handle, Settle, SlotDies, LoseLock, SlotStep, JobOf, Row

\* A step of one slot leaves the others alone.
LEMMA OtherSlotsStay ==
  ASSUME TypeInv, NEW s \in Slots, NEW t \in Slots, t # s, SlotRuns(s) \/ SlotFails(s)
  PROVE  slots'[t] = slots[t]
BY DEF TypeInv, SlotRuns, SlotFails, Take, ClaimCancel, ClaimQueued, ClaimRead,
   ClaimFails, Extract, Complete, CompleteFails, Handle, Settle, SlotDies,
   LoseLock, SlotStep

\* Every step keeps the executions exclusive: who executes a job did so before,
\* or has claimed a row that nobody was executing.
LEMMA ExecutionStep ==
  ASSUME TypeInv, ExecutionInv, [Next]_vars
  PROVE  ExecutionInv'
<1>1. CASE UNCHANGED <<rows, slots>>
  BY <1>1 DEF ExecutionInv, SingleExecutor, Executing
<1>2. ASSUME \/ \E c \in Creates : CreateNext(c)
             \/ \E c \in Cancels : CancelNext(c)
      PROVE  ExecutionInv'
  <2>1. UNCHANGED slots
    BY <1>2 DEF CreateNext, CreateLookup, CreateInsert, CreateReread, CreateEnqueue,
       CreateCompensate, CreateDies, CancelNext, CancelFind, CancelUpdate, CancelRead,
       CancelGetJob, CancelGetState, CancelRemove, CancelDies
  <2>2. ASSUME NEW j \in Jobs, rows[j].status \notin Claimable
        PROVE  rows'[j].status \notin Claimable
    BY <1>2, <2>2, ApiRowSteps, ApiKeepsClaimed DEF TypeInv, Inserted, Claimable
  <2> QED
    BY <2>1, <2>2 DEF ExecutionInv, SingleExecutor, Executing
<1>3. ASSUME NEW s \in Slots, SlotRuns(s) \/ SlotFails(s)
      PROVE  ExecutionInv'
  <2>1. ASSUME NEW t \in Slots, NEW j \in Jobs, Executing(t, j)'
        PROVE  rows'[j].status \notin Claimable
    <3>1. CASE t = s /\ ClaimQueued(s) /\ JobOf(s) = j /\ rows[j].status = "QUEUED"
      BY <3>1 DEF TypeInv, ClaimQueued, Write, Row, Store!ClaimFrom,
         Store!Claimed, Store!UpdateMany,
         Store!Rows, Claimable
    <3>2. CASE t = s /\ Executing(s, j) /\ ~Handle(s)
      BY <1>3, <3>2, SlotKeepsClaimed DEF ExecutionInv
    <3>3. CASE t # s
      <4>1. Executing(t, j)
        BY <1>3, <2>1, <3>3, OtherSlotsStay DEF Executing
      <4>2. ~(Handle(s) /\ JobOf(s) = j)
        BY <3>3, <4>1 DEF ExecutionInv, SingleExecutor, Handle, Executing, ExecutingPCs, JobOf
      <4> QED
        BY <1>3, <4>1, <4>2, SlotKeepsClaimed DEF ExecutionInv
    <3> QED
      BY <1>3, <2>1, <3>1, <3>2, <3>3, ExecutionStarts
  <2>2. ASSUME NEW t \in Slots, NEW u \in Slots, NEW j \in Jobs,
               Executing(t, j)', Executing(u, j)'
        PROVE  t = u
    <3>1. ASSUME NEW v \in Slots, v # s, Executing(v, j)', Executing(s, j)'
          PROVE  FALSE
      <4>1. Executing(v, j)
        BY <1>3, <3>1, OtherSlotsStay DEF Executing
      <4> QED
        BY <1>3, <3>1, <4>1, ExecutionStarts DEF ExecutionInv, SingleExecutor, Claimable
    <3>2. CASE t # s /\ u # s
      BY <1>3, <2>2, <3>2, OtherSlotsStay DEF ExecutionInv, SingleExecutor, Executing
    <3> QED
      BY <2>2, <3>1, <3>2
  <2> QED
    BY <2>1, <2>2 DEF ExecutionInv, SingleExecutor
<1> QED
  BY <1>1, <1>2, <1>3 DEF Next, vars, Timers, MoveStalled, Promote, Quiescent

\* The inductive invariant about executions holds in every reachable state.
LEMMA ExecutionInvariant == Spec => []ExecutionInv
<1>1. Init => ExecutionInv
  BY DEF Init, ExecutionInv, SingleExecutor, Executing, ExecutingPCs
<1> QED
  BY <1>1, ExecutionStep, TypeInvariant, PTL DEF Spec

\* No two slots execute the same job, whatever the queue delivers.
THEOREM ExecutionIsExclusive == Spec => []SingleExecutor
<1>1. ExecutionInv => SingleExecutor
  BY DEF ExecutionInv
<1> QED
  BY <1>1, ExecutionInvariant, PTL

-----------------------------------------------------------------------------
(* The system implements JobLifecycle                                      *)

\* The refinement mapping.
StatusView  == [j \in Jobs |-> rows[j].status]
RunningView == [j \in Jobs |-> Executors(j)]

\* A statement on one row moves one status.
LEMMA StatusMoves ==
  ASSUME TypeInv, NEW j \in Jobs, NEW new, rows' = [rows EXCEPT ![j] = new]
  PROVE  StatusView' = [StatusView EXCEPT ![j] = new.status]
BY DEF TypeInv, StatusView

\* What a step of the slot s, at work on the job j, does to the executions.
LEMMA ExecutionsMove ==
  ASSUME TypeInv, ExecutionInv, NEW s \in Slots, NEW j \in Jobs,
         \A t \in Slots \ {s} : slots'[t] = slots[t],
         \A i \in Jobs \ {j} : ~Executing(s, i) /\ ~Executing(s, i)'
  PROVE  /\ (Executing(s, j) <=> Executing(s, j)') => UNCHANGED RunningView
         /\ Executing(s, j) /\ ~Executing(s, j)'
              => RunningView' = [RunningView EXCEPT ![j] = {}]
         /\ ~Executing(s, j) /\ Executing(s, j)' /\ RunningView[j] = {}
              => RunningView' = [RunningView EXCEPT ![j] = {s}]
<1>1. ASSUME NEW i \in Jobs, NEW t \in Slots, t # s \/ i # j
      PROVE  Executing(t, i)' <=> Executing(t, i)
  BY <1>1 DEF Executing
<1>2. \A i \in Jobs \ {j} : Executors(i)' = Executors(i)
  BY <1>1 DEF Executors
<1>3. CASE Executing(s, j) <=> Executing(s, j)'
  <2>1. Executors(j)' = Executors(j)
    BY <1>1, <1>3 DEF Executors
  <2> QED
    BY <1>2, <1>3, <2>1 DEF RunningView
<1>4. CASE Executing(s, j) /\ ~Executing(s, j)'
  <2>1. Executors(j)' = {}
    BY <1>1, <1>4 DEF Executors, ExecutionInv, SingleExecutor
  <2> QED
    BY <1>2, <1>4, <2>1 DEF RunningView
<1>5. CASE ~Executing(s, j) /\ Executing(s, j)' /\ RunningView[j] = {}
  <2>1. Executors(j)' = {s}
    BY <1>1, <1>5 DEF Executors, RunningView
  <2> QED
    BY <1>2, <1>5, <2>1 DEF RunningView
<1> QED
  BY <1>3, <1>4, <1>5

\* The view of the executions of one job.
LEMMA ExecutionsSeen ==
  ASSUME TypeInv, ExecutionInv, NEW j \in Jobs
  PROVE  /\ \A s \in Slots : Executing(s, j) => RunningView[j] = {s}
         /\ rows[j].status \in Claimable => RunningView[j] = {}
BY DEF RunningView, Executors, ExecutionInv, SingleExecutor

AbstractStep == [Lifecycle!Next]_(Lifecycle!vars)

\* A step of the API is a step of the abstract specification or a stutter.
LEMMA ApiRefines ==
  ASSUME TypeInv,
         \/ \E c \in Creates : CreateNext(c)
         \/ \E c \in Cancels : CancelNext(c)
  PROVE  AbstractStep
<1>1. UNCHANGED slots
  BY DEF CreateNext, CreateLookup, CreateInsert, CreateReread, CreateEnqueue,
     CreateCompensate, CreateDies, CancelNext, CancelFind, CancelUpdate, CancelRead,
     CancelGetJob, CancelGetState, CancelRemove, CancelDies
<1>2. UNCHANGED RunningView
  BY <1>1 DEF RunningView, Executors, Executing
<1>3. CASE UNCHANGED rows
  BY <1>2, <1>3 DEF AbstractStep, Lifecycle!vars, RunningView
<1>4. ASSUME NEW j \in Jobs, NEW new \in ApiSuccessors(rows[j]),
             rows' = [rows EXCEPT ![j] = new]
      PROVE  AbstractStep
  <2>1. StatusView' = [StatusView EXCEPT ![j] = new.status]
    BY <1>4, StatusMoves
  <2>2. rows[j] \in Store!Rows(Keys) /\ StatusView[j] = rows[j].status
    BY DEF TypeInv, StatusView
  <2>3. CASE new = rows[j]
    BY <1>3, <1>4, <2>3 DEF TypeInv
  <2>4. CASE rows[j].status \in Store!Live /\ new.status = "CANCEL_REQUESTED"
    <3>1. Lifecycle!AskCancel(j)
      BY <1>2, <2>1, <2>2, <2>4 DEF Lifecycle!AskCancel, Lifecycle!Move, StatusView,
         RunningView, Store!Live
    <3> QED
      BY <3>1 DEF AbstractStep, Lifecycle!Next
  <2>5. CASE rows[j].status = "QUEUED" /\ new.status = "FAILED"
    <3>1. Lifecycle!Refuse(j)
      BY <1>2, <2>1, <2>2, <2>5 DEF Lifecycle!Refuse, Lifecycle!Move, StatusView,
         RunningView
    <3> QED
      BY <3>1 DEF AbstractStep, Lifecycle!Next
  <2> QED
    BY <1>4, <2>2, <2>3, <2>4, <2>5 DEF ApiSuccessors, Store!CancelRequested,
       Store!SubmissionFailed, Store!UpdateMany, Store!Rows
<1>5. ASSUME NEW c \in Creates, NEW j \in Jobs, CreateInsert(c, j)
      PROVE  AbstractStep
  <2>1. CASE /\ rows[j].status = "ABSENT"
             /\ rows' = [rows EXCEPT ![j] = Store!NewRow(creating[c].key)]
    <3>1. StatusView' = [StatusView EXCEPT ![j] = "QUEUED"]
      <4>1. Store!NewRow(creating[c].key).status = "QUEUED"
        BY DEF Store!NewRow, Store!AbsentRow
      <4> QED
        BY <2>1, <4>1, StatusMoves
    <3>2. StatusView[j] = "ABSENT"
      BY <2>1 DEF StatusView
    <3>3. Lifecycle!Submit(j)
      BY <1>2, <3>1, <3>2 DEF Lifecycle!Submit, Lifecycle!Move, StatusView, RunningView
    <3> QED
      BY <3>3 DEF AbstractStep, Lifecycle!Next
  <2> QED
    BY <1>3, <1>5, <2>1 DEF CreateInsert
<1>6. ASSUME NEW c \in Creates, CreateCompensate(c)
      PROVE  AbstractStep
  <2>1. creating[c].job \in Jobs
    BY <1>6 DEF TypeInv, CreateRecord, CreateCompensate
  <2> QED
    BY <1>4, <1>6, <2>1 DEF CreateCompensate, ApiSuccessors
<1>7. ASSUME NEW c \in Cancels, CancelUpdate(c)
      PROVE  AbstractStep
  <2>1. cancelling[c].job \in Jobs
    BY <1>7 DEF TypeInv, CancelRecord, CancelUpdate
  <2> QED
    BY <1>4, <1>7, <2>1 DEF CancelUpdate, ApiSuccessors
<1> QED
  BY <1>3, <1>5, <1>6, <1>7 DEF CreateNext, CreateLookup, CreateReread, CreateEnqueue,
     CreateDies, CancelNext, CancelFind, CancelRead, CancelGetJob, CancelGetState,
     CancelRemove, CancelDies

\* A step of a slot is a step of the abstract specification or a stutter.
LEMMA SlotRefines ==
  ASSUME TypeInv, ExecutionInv, NEW s \in Slots, SlotRuns(s) \/ SlotFails(s)
  PROVE  AbstractStep
<1>1. \A t \in Slots \ {s} : slots'[t] = slots[t]
  BY OtherSlotsStay
<1>2. CASE UNCHANGED <<StatusView, RunningView>>
  BY <1>2 DEF AbstractStep, Lifecycle!vars, StatusView, RunningView
<1>3. CASE /\ UNCHANGED rows
           /\ \A i \in Jobs : ~Executing(s, i) /\ ~Executing(s, i)'
  <2>1. UNCHANGED RunningView
    BY <1>1, <1>3 DEF RunningView, Executors, Executing
  <2> QED
    BY <1>2, <1>3, <2>1 DEF StatusView
<1>4. ASSUME NEW i \in Jobs, Take(s, i)
      PROVE  AbstractStep
  BY <1>3, <1>4 DEF Take, Executing, ExecutingPCs, TypeInv
<1>5. CASE Settle(s)
  BY <1>3, <1>5 DEF Settle, Executing, ExecutingPCs, TypeInv
<1> DEFINE Works == \/ ClaimCancel(s) \/ ClaimQueued(s) \/ ClaimRead(s)
                    \/ ClaimFails(s) \/ Extract(s) \/ Complete(s)
                    \/ CompleteFails(s) \/ Handle(s) \/ SlotDies(s) \/ LoseLock(s)
<1>a. Works => slots[s].pc # "idle" /\ slots[s].job \in Jobs
  BY DEF TypeInv, SlotRecord, ClaimCancel, ClaimQueued, ClaimRead, ClaimFails, Extract,
     Complete, CompleteFails, Handle, SlotDies, LoseLock
<1> SUFFICES ASSUME Works, NEW j \in Jobs, slots[s].job = j
             PROVE  AbstractStep
  BY <1>4, <1>5, <1>a DEF SlotRuns, SlotFails
<1>6. /\ JobOf(s) = j
      /\ rows[j] \in Store!Rows(Keys)
      /\ StatusView[j] = rows[j].status
      /\ slots \in [Slots -> SlotRecord]
      /\ Row(s) = rows[j]
      /\ slots[s].pc # "idle"
  BY <1>a DEF TypeInv, JobOf, StatusView, Row
<1>d. \A pc : SlotStep(s, pc) => /\ slots'[s].job = j
                                 /\ Executing(s, j)' <=> pc \in ExecutingPCs
  BY <1>6 DEF SlotStep, Executing, SlotRecord
<1>e. Executing(s, j) <=> slots[s].pc \in ExecutingPCs
  BY DEF Executing
<1>f. slots'[s].job = j \/ slots'[s].pc = "idle"
  BY <1>6, <1>d DEF ClaimCancel, ClaimQueued, ClaimRead, ClaimFails, Extract, Complete,
     CompleteFails, Handle, SlotDies, LoseLock
<1>7. \A i \in Jobs \ {j} : ~Executing(s, i) /\ ~Executing(s, i)'
  BY <1>f DEF Executing, ExecutingPCs
<1>8. /\ (Executing(s, j) <=> Executing(s, j)') => UNCHANGED RunningView
      /\ Executing(s, j) /\ ~Executing(s, j)'
           => RunningView' = [RunningView EXCEPT ![j] = {}]
      /\ ~Executing(s, j) /\ Executing(s, j)' /\ RunningView[j] = {}
           => RunningView' = [RunningView EXCEPT ![j] = {s}]
      /\ Executing(s, j) => RunningView[j] = {s}
      /\ rows[j].status = "QUEUED" => RunningView[j] = {}
  BY <1>1, <1>6, <1>7, ExecutionsMove, ExecutionsSeen DEF Claimable
<1>9. \A new : rows' = [rows EXCEPT ![j] = new]
                => StatusView' = [StatusView EXCEPT ![j] = new.status]
  BY <1>6, StatusMoves
<1>b. CASE UNCHANGED rows /\ (Executing(s, j)' => Executing(s, j))
  \* The slot goes on, or leaves its execution without a word.
  <2>1. UNCHANGED StatusView
    BY <1>b DEF StatusView
  <2>2. CASE Executing(s, j) /\ ~Executing(s, j)'
    <3>1. Lifecycle!Leave(j, s)
      BY <1>8, <2>1, <2>2 DEF Lifecycle!Leave, StatusView, RunningView
    <3> QED
      BY <3>1 DEF AbstractStep, Lifecycle!Next
  <2> QED
    BY <1>2, <1>8, <1>b, <2>1, <2>2
<1>c. ASSUME NEW new, rows[j] = new, Write(s, new)
      PROVE  UNCHANGED rows
  BY <1>6, <1>c DEF TypeInv, Write
<1>10. CASE ClaimCancel(s) \/ (ClaimFails(s) /\ slots[s].pc = "claimCancel")
  <2>1. ~Executing(s, j) /\ ~Executing(s, j)'
    BY <1>10, <1>d, <1>e DEF ClaimCancel, ClaimFails, ExecutingPCs
  <2>2. CASE rows[j].status = "CANCEL_REQUESTED" /\ Write(s, Store!ClaimedCancellation(rows[j]))
    <3>1. Store!ClaimedCancellation(rows[j]).status = "CANCELLED"
      BY <1>6, <2>2 DEF Store!ClaimedCancellation, Store!UpdateMany, Store!Rows
    <3>2. Lifecycle!Move(j, "CANCEL_REQUESTED", "CANCELLED")
      BY <1>6, <1>9, <2>2, <3>1 DEF Lifecycle!Move, Write, StatusView
    <3>3. Lifecycle!Cancel(j)
      BY <1>8, <2>1, <3>2 DEF Lifecycle!Cancel, RunningView
    <3> QED
      BY <3>3 DEF AbstractStep, Lifecycle!Next
  <2>3. CASE UNCHANGED rows
    BY <1>b, <2>1, <2>3
  <2> QED
    BY <1>6, <1>10, <1>c, <2>2, <2>3 DEF ClaimCancel, ClaimFails, Store!ClaimedCancellation,
       Store!UpdateMany
<1>11. CASE ClaimQueued(s) \/ (ClaimFails(s) /\ slots[s].pc = "claimQueued")
  <2>1. ~Executing(s, j)
    BY <1>6, <1>11 DEF ClaimQueued, ClaimFails, Executing, ExecutingPCs
  <2>2. CASE rows[j].status = "QUEUED" /\ Write(s, Store!Claimed(rows[j]))
    <3>1. Store!Claimed(rows[j]).status = "RUNNING"
      BY <1>6, <2>2 DEF Store!ClaimFrom, Store!Claimed, Store!UpdateMany, Store!Rows
    <3>2. Lifecycle!Move(j, "QUEUED", "RUNNING")
      BY <1>6, <1>9, <2>2, <3>1 DEF Lifecycle!Move, Write, StatusView
    <3>3. Lifecycle!Start(j, s)
      BY <1>8, <2>1, <2>2, <3>2 DEF Lifecycle!Start, RunningView
    <3> QED
      BY <3>3 DEF AbstractStep, Lifecycle!Next
  <2>3. CASE UNCHANGED rows /\ ~Executing(s, j)'
    BY <1>b, <2>3
  <2>4. CASE ClaimFails(s) /\ UNCHANGED rows
    BY <1>6, <1>11, <2>3, <2>4 DEF ClaimFails, SlotStep, Executing, ExecutingPCs
  <2>5. CASE rows[j].status # "QUEUED" /\ Write(s, Store!Claimed(rows[j]))
    <3>1. UNCHANGED rows
      BY <1>c, <2>5 DEF Store!ClaimFrom, Store!Claimed, Store!UpdateMany
    <3>2. ~Executing(s, j)'
      BY <1>6, <1>11, <1>d, <2>5 DEF ClaimQueued, Store!ClaimFrom, ClaimFails, ExecutingPCs
    <3> QED
      BY <2>3, <3>1, <3>2
  <2> QED
    BY <1>6, <1>11, <2>2, <2>4, <2>5 DEF ClaimQueued, Store!ClaimFrom, ClaimFails
<1>12. CASE ClaimRead(s) \/ (ClaimFails(s) /\ slots[s].pc = "claimRead")
  BY <1>6, <1>12, <1>b DEF ClaimRead, ClaimFails, Executing, ExecutingPCs
<1>13. CASE Extract(s)
  BY <1>6, <1>13, <1>b DEF Extract, Executing, ExecutingPCs
<1>14. CASE SlotDies(s)
  BY <1>6, <1>14, <1>b DEF SlotDies, Executing, ExecutingPCs
<1>15. CASE LoseLock(s)
  BY <1>6, <1>15, <1>b DEF LoseLock, Executing
<1>16. CASE Complete(s) \/ CompleteFails(s)
  <2>1. Executing(s, j)
    BY <1>6, <1>16 DEF Complete, CompleteFails, Executing, ExecutingPCs
  <2>2. CASE rows[j].status = "RUNNING" /\ Write(s, Store!Completed(rows[j]))
    <3>1. Store!Completed(rows[j]).status = "SUCCEEDED"
      BY <1>6, <2>2 DEF Store!Completed, Store!UpdateMany, Store!Rows
    <3>2. Lifecycle!Move(j, "RUNNING", "SUCCEEDED")
      BY <1>6, <1>9, <2>2, <3>1 DEF Lifecycle!Move, Write, StatusView
    <3>3. Lifecycle!Record(j, s)
      BY <1>8, <2>1, <3>2 DEF Lifecycle!Record, RunningView
    <3> QED
      BY <3>3 DEF AbstractStep, Lifecycle!Next
  <2>3. CASE UNCHANGED rows
    BY <1>b, <2>1, <2>3
  <2> QED
    BY <1>6, <1>16, <1>c, <2>2, <2>3 DEF Complete, CompleteFails, Store!Completed,
       Store!UpdateMany
<1>17. CASE Handle(s)
  <2>1. Executing(s, j) /\ ~Executing(s, j)'
    BY <1>6, <1>17 DEF Handle, SlotStep, Executing, ExecutingPCs
  <2>2. CASE rows[j].status = "RUNNING" /\ Write(s, Store!FailedFinally(rows[j]))
    <3>1. Store!FailedFinally(rows[j]).status = "FAILED"
      BY <1>6, <2>2 DEF Store!FailedFinally, Store!UpdateMany, Store!Rows
    <3>2. Lifecycle!Move(j, "RUNNING", "FAILED")
      BY <1>6, <1>9, <2>2, <3>1 DEF Lifecycle!Move, Write, StatusView
    <3>3. Lifecycle!Record(j, s)
      BY <1>8, <2>1, <3>2 DEF Lifecycle!Record, RunningView
    <3> QED
      BY <3>3 DEF AbstractStep, Lifecycle!Next
  <2>3. CASE rows[j].status = "RUNNING" /\ Write(s, Store!Retried(rows[j]))
    <3>1. Store!Retried(rows[j]).status = "QUEUED"
      BY <1>6, <2>3 DEF Store!Retried, Store!UpdateMany, Store!Rows
    <3>2. Lifecycle!Move(j, "RUNNING", "QUEUED")
      BY <1>6, <1>9, <2>3, <3>1 DEF Lifecycle!Move, Write, StatusView
    <3>3. Lifecycle!Retry(j, s)
      BY <1>8, <2>1, <3>2 DEF Lifecycle!Retry, RunningView
    <3> QED
      BY <3>3 DEF AbstractStep, Lifecycle!Next
  <2>4. CASE UNCHANGED rows
    BY <1>b, <2>1, <2>4
  <2> QED
    BY <1>6, <1>17, <1>c, <2>2, <2>3, <2>4 DEF Handle, Store!FailedFinally, Store!Retried,
       Store!UpdateMany
<1> QED
  BY <1>10, <1>11, <1>12, <1>13, <1>14, <1>15, <1>16, <1>17 DEF ClaimFails

\* In every behaviour the jobs go through the life the abstract specification
\* allows: the one diagram of statuses, one execution at a time, and only the
\* execution under way requeues a job or gives it a result.
THEOREM SystemImplementsLifecycle == Spec => ImplementsLifecycle
<1>1. Init => Lifecycle!Init
  BY DEF Init, Lifecycle!Init, Store!AbsentRow, Executors, Executing, ExecutingPCs
<1>2. ASSUME TypeInv, ExecutionInv, [Next]_vars
      PROVE  AbstractStep
  <2>1. CASE UNCHANGED <<rows, slots>>
    BY <2>1 DEF AbstractStep, Lifecycle!vars, Executors, Executing
  <2> QED
    BY <1>2, <2>1, ApiRefines, SlotRefines DEF Next, vars, Timers, MoveStalled, Promote,
       Quiescent
<1> QED
  BY <1>1, <1>2, TypeInvariant, ExecutionInvariant, PTL
     DEF Spec, ImplementsLifecycle, Lifecycle!Spec, AbstractStep
=============================================================================
