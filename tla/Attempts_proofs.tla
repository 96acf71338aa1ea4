--------------------------- MODULE Attempts_proofs ---------------------------
(***************************************************************************)
(* The number of executions of a job, proved about ExtractionSystem for    *)
(* every value of the constants: bounded under every fault, and exactly    *)
(* the configured number before the worker gives up when nothing fails.    *)
(***************************************************************************)
EXTENDS Requests_proofs, FiniteSetTheorems

-----------------------------------------------------------------------------
(* Executions are bounded                                                  *)

\* The slots that hold a delivery of the job and have still to claim it.  Each
\* may add one execution.
Claimants(j) == {s \in Slots : /\ slots[s].job = j
                               /\ slots[s].pc \in {"claimCancel", "claimQueued"}}

\* The deliveries an entry has had: one for every attempt made and every stall,
\* and the one that is out or was acknowledged.
Deliveries(e) == IF e.state = "absent" THEN 0
                 ELSE e.made + e.stalled
                        + (IF e.state \in {"active", "completed"} THEN 1 ELSE 0)

\* BullMQ gives up an entry in time.
EntryLimit(e) ==
  /\ e.state \in {"wait", "active", "delayed", "completed"}
       => e.made < MaxAttempts /\ e.stalled <= MaxStalled
  /\ e.state = "failed" => e.made + e.stalled <= MaxAttempts + MaxStalled

\* AttemptsBounded is inductive once the executions are counted against the
\* deliveries.  A row that is not live is no longer claimed, whatever is
\* delivered.
Counted(j) ==
  /\ EntryLimit(entries[j])
  /\ IsFiniteSet(Claimants(j))
  /\ rows[j].status \in Store!Live
       => rows[j].attempts + Cardinality(Claimants(j)) <= Deliveries(entries[j])
  /\ rows[j].attempts <= MaxAttempts + MaxStalled
AttemptInv == \A j \in Jobs : Counted(j)

\* A delivered job has been executed at most as often as the limits allow.
LEMMA DeliveriesBounded ==
  ASSUME SystemAssumption, NEW e \in Queue!Entries(Slots), EntryLimit(e)
  PROVE  Deliveries(e) \in Nat /\ Deliveries(e) <= MaxAttempts + MaxStalled
<1>1. e.made \in Nat /\ e.stalled \in Nat /\ MaxAttempts \in Nat /\ MaxStalled \in Nat
  BY DEF SystemAssumption, Queue!Entries
<1>2. e.state \in {"absent", "wait", "active", "delayed", "completed", "failed"}
  BY DEF Queue!Entries, Queue!EntryStates
<1>3. CASE e.state = "absent"
  BY <1>1, <1>3 DEF Deliveries
<1>4. CASE e.state = "failed"
  BY <1>1, <1>4 DEF Deliveries, EntryLimit
<1>5. CASE e.state \in {"wait", "active", "delayed", "completed"}
  BY <1>1, <1>5 DEF Deliveries, EntryLimit
<1> QED
  BY <1>2, <1>3, <1>4, <1>5

\* Apart from taking and removing it, what happens to an entry counts one
\* attempt or one stall for the delivery that ended.
LEMMA OpsKeepCount ==
  ASSUME SystemAssumption, NEW e \in Queue!Entries(Slots), EntryLimit(e)
  PROVE  /\ Deliveries(Queue!Added(e)) = Deliveries(e) /\ EntryLimit(Queue!Added(e))
         /\ EntryLimit(Queue!NoEntry)
         /\ Deliveries(Queue!LockExpired(e)) = Deliveries(e)
         /\ EntryLimit(Queue!LockExpired(e))
         /\ \A s \in Slots :
              /\ Deliveries(Queue!Acknowledged(e, s)) = Deliveries(e)
              /\ EntryLimit(Queue!Acknowledged(e, s))
              /\ Deliveries(Queue!Rejected(e, s)) = Deliveries(e)
              /\ EntryLimit(Queue!Rejected(e, s))
              /\ e.state = "wait" => /\ Deliveries(Queue!Taken(e, s)) = Deliveries(e) + 1
                                     /\ EntryLimit(Queue!Taken(e, s))
         /\ e.state = "active" => /\ Deliveries(Queue!StalledMoved(e)) = Deliveries(e)
                                  /\ EntryLimit(Queue!StalledMoved(e))
         /\ e.state = "delayed" => /\ Deliveries(Queue!Promoted(e)) = Deliveries(e)
                                   /\ EntryLimit(Queue!Promoted(e))
<1> USE DEF Deliveries, EntryLimit, Queue!Entries, Queue!EntryStates
<1>0. e.made \in Nat /\ e.stalled \in Nat /\ MaxAttempts \in Nat \ {0} /\ MaxStalled \in Nat
  BY DEF SystemAssumption
<1>1. /\ Deliveries(Queue!Added(e)) = Deliveries(e) /\ EntryLimit(Queue!Added(e))
      /\ EntryLimit(Queue!NoEntry)
  BY <1>0 DEF Queue!Added, Queue!NoEntry
<1>2. /\ Deliveries(Queue!LockExpired(e)) = Deliveries(e)
      /\ EntryLimit(Queue!LockExpired(e))
  BY <1>0 DEF Queue!LockExpired
<1>3. ASSUME NEW s \in Slots
      PROVE  /\ Deliveries(Queue!Acknowledged(e, s)) = Deliveries(e)
             /\ EntryLimit(Queue!Acknowledged(e, s))
             /\ Deliveries(Queue!Rejected(e, s)) = Deliveries(e)
             /\ EntryLimit(Queue!Rejected(e, s))
             /\ e.state = "wait" => /\ Deliveries(Queue!Taken(e, s)) = Deliveries(e) + 1
                                    /\ EntryLimit(Queue!Taken(e, s))
  <2>1. CASE ~Queue!HoldsLock(e, s)
    BY <1>0, <2>1 DEF Queue!Acknowledged, Queue!Rejected, Queue!Taken
  <2>2. CASE Queue!HoldsLock(e, s)
    <3>1. /\ Deliveries(Queue!Acknowledged(e, s)) = Deliveries(e)
          /\ EntryLimit(Queue!Acknowledged(e, s))
      BY <1>0, <2>2 DEF Queue!Acknowledged, Queue!HoldsLock
    <3>2. CASE e.made + 1 < MaxAttempts
      BY <1>0, <2>2, <3>1, <3>2 DEF Queue!Rejected, Queue!HoldsLock
    <3>3. CASE ~(e.made + 1 < MaxAttempts)
      BY <1>0, <2>2, <3>1, <3>3 DEF Queue!Rejected, Queue!HoldsLock
    <3> QED
      BY <3>2, <3>3
  <2> QED
    BY <2>1, <2>2
<1>4. CASE e.state = "active"
  <2>3. /\ Deliveries(Queue!StalledMoved(e)) = Deliveries(e)
        /\ EntryLimit(Queue!StalledMoved(e))
    <3>1. CASE e.stalled + 1 > MaxStalled
      BY <1>0, <1>4, <3>1 DEF Queue!StalledMoved
    <3>2. CASE ~(e.stalled + 1 > MaxStalled)
      BY <1>0, <1>4, <3>2 DEF Queue!StalledMoved
    <3> QED
      BY <3>1, <3>2
  <2> QED
    BY <1>1, <1>2, <1>3, <1>4, <2>3
<1>5. CASE e.state = "delayed"
  <2>1. Deliveries(Queue!Promoted(e)) = Deliveries(e) /\ EntryLimit(Queue!Promoted(e))
    BY <1>0, <1>5 DEF Queue!Promoted
  <2> QED
    BY <1>1, <1>2, <1>3, <1>5, <2>1
<1>6. CASE e.state \notin {"active", "delayed"}
  BY <1>1, <1>2, <1>3, <1>6
<1> QED
  BY <1>4, <1>5, <1>6

\* Statements other than the claim do not count an execution.
LEMMA StatementsCount ==
  ASSUME NEW row \in Store!Rows(Keys)
  PROVE  /\ \A new \in Successors(row) \ {Store!Claimed(row)} :
              new.attempts = row.attempts
         /\ Store!Claimed(row).attempts
              = IF row.status = "QUEUED" THEN row.attempts + 1 ELSE row.attempts
<1>1. \A new \in {row, Store!CancelRequested(row), Store!SubmissionFailed(row),
                  Store!ClaimedCancellation(row), Store!Completed(row),
                  Store!Retried(row), Store!FailedFinally(row)} :
        new.attempts = row.attempts
  BY DEF Store!Rows, Store!UpdateMany, Store!CancelRequested, Store!SubmissionFailed,
     Store!ClaimedCancellation, Store!Completed, Store!Retried, Store!FailedFinally
<1>2. Store!Claimed(row).attempts
        = IF row.status = "QUEUED" THEN row.attempts + 1 ELSE row.attempts
  BY DEF Store!Rows, Store!UpdateMany, Store!ClaimFrom, Store!Claimed
<1> QED
  BY <1>1, <1>2 DEF Successors

\* Fewer slots that may claim, and no execution more: the count stays good.
LEMMA CountKept ==
  ASSUME SystemAssumption, ReqInv, [Next]_vars, NEW j \in Jobs, Counted(j),
         rows[j].status # "ABSENT",
         rows'[j].attempts = rows[j].attempts, Claimants(j)' \subseteq Claimants(j),
         EntryLimit(entries'[j]),
         Deliveries(entries'[j]) = Deliveries(entries[j])
           \/ rows'[j].status \notin Store!Live
  PROVE  Counted(j)'
<1>1. /\ IsFiniteSet(Claimants(j)')
      /\ Cardinality(Claimants(j)') <= Cardinality(Claimants(j))
      /\ Cardinality(Claimants(j)') \in Nat /\ Cardinality(Claimants(j)) \in Nat
  BY FS_Subset, FS_CardinalityType DEF Counted
<1>2. rows[j].attempts \in Nat /\ Deliveries(entries[j]) \in Nat
  BY DeliveriesBounded DEF ReqInv, TypeInv, Store!Rows, Counted
<1>3. rows'[j].status \in Store!Live => rows[j].status \in Store!Live
  BY RowsStayDead DEF ReqInv
<1>4. ASSUME rows'[j].status \in Store!Live
      PROVE  rows'[j].attempts + Cardinality(Claimants(j)') <= Deliveries(entries'[j])
  BY <1>1, <1>2, <1>3, <1>4 DEF Counted
<1> QED
  BY <1>1, <1>4 DEF Counted

\* Nobody works on a row that does not exist.
LEMMA NoClaimantOfAbsent ==
  ASSUME ReqInv, NEW j \in Jobs, rows[j].status = "ABSENT"
  PROVE  Claimants(j) = {} /\ entries[j].state = "absent"
BY DEF ReqInv, EntryInv, Claimants

\* A step of the API keeps the count.
LEMMA ApiCount ==
  ASSUME SystemAssumption, ReqInv, NEW j \in Jobs, Counted(j), [Next]_vars,
         \/ \E c \in Creates : CreateNext(c)
         \/ \E c \in Cancels : CancelNext(c)
  PROVE  Counted(j)'
<1>0. /\ rows[j] \in Store!Rows(Keys) /\ entries[j] \in Queue!Entries(Slots)
      /\ entries \in [Jobs -> Queue!Entries(Slots)]
  BY DEF ReqInv, TypeInv
<1>1. slots' = slots
  BY DEF CreateNext, CreateLookup, CreateInsert, CreateReread, CreateEnqueue,
     CreateCompensate, CreateDies, CancelNext, CancelFind, CancelUpdate, CancelRead,
     CancelGetJob, CancelGetState, CancelRemove, CancelDies
<1>2. Claimants(j)' = Claimants(j)
  BY <1>1 DEF Claimants
<1>3. \/ /\ EntryLimit(entries'[j])
         /\ Deliveries(entries'[j]) = Deliveries(entries[j])
      \/ /\ rows' = rows /\ entries'[j] = Queue!NoEntry /\ entries[j].state # "absent"
  <2>1. ASSUME NEW c \in Creates, CreateNext(c)
        PROVE  entries'[j] \in {entries[j], Queue!Added(entries[j])}
    <3>1. UNCHANGED entries \/ AddEntry(c)
      BY <2>1 DEF CreateNext, CreateLookup, CreateInsert, CreateReread, CreateEnqueue,
         CreateCompensate, CreateDies
    <3> QED
      BY <1>0, <3>1 DEF AddEntry
  <2>2. ASSUME NEW c \in Cancels, CancelNext(c)
        PROVE  entries'[j] = entries[j]
                 \/ (rows' = rows /\ entries'[j] = Queue!NoEntry)
    BY <1>0, <2>2 DEF CancelNext, CancelFind, CancelUpdate, CancelRead, CancelGetJob,
       CancelGetState, CancelRemove, CancelDies, Queue!Removed
  <2>3. CASE entries'[j] \in {entries[j], Queue!Added(entries[j])}
    BY <1>0, <2>3, OpsKeepCount DEF Counted
  <2>4. CASE entries'[j] = Queue!NoEntry /\ entries[j].state = "absent"
    BY <2>4 DEF Deliveries, EntryLimit, Queue!NoEntry
  <2> QED
    BY <2>1, <2>2, <2>3, <2>4
<1>4. CASE Inserted(j)
  <2>1. /\ rows'[j].attempts = 0
        /\ Claimants(j) = {} /\ entries[j].state = "absent" /\ rows' # rows
    BY <1>4, NoClaimantOfAbsent DEF Inserted, Store!NewRow, Store!AbsentRow
  <2>2. Cardinality(Claimants(j)') = 0 /\ IsFiniteSet(Claimants(j)')
    BY <1>2, <2>1, FS_EmptySet
  <2>3. Deliveries(entries[j]) = 0
    BY <2>1 DEF Deliveries
  <2> QED
    BY <1>3, <2>1, <2>2, <2>3 DEF Counted, SystemAssumption
<1>5. CASE rows'[j] \in ApiSuccessors(rows[j])
  <2>1. rows'[j].attempts = rows[j].attempts
    BY <1>0, <1>5 DEF ApiSuccessors, Store!Rows, Store!UpdateMany,
       Store!CancelRequested, Store!SubmissionFailed
  <2>2. CASE rows[j].status = "ABSENT"
    <3>1. Claimants(j) = {} /\ entries[j].state = "absent"
      BY <2>2, NoClaimantOfAbsent
    <3>2. Cardinality(Claimants(j)') = 0 /\ IsFiniteSet(Claimants(j)')
      BY <1>2, <3>1, FS_EmptySet
    <3>3. rows'[j].status \notin Store!Live
      BY <1>0, <1>5, <2>2 DEF ApiSuccessors, Store!Rows, Store!UpdateMany,
         Store!CancelRequested, Store!SubmissionFailed, Store!Live
    <3> QED
      BY <1>3, <2>1, <3>1, <3>2, <3>3 DEF Counted
  <2>3. CASE rows[j].status # "ABSENT"
    <3>1. CASE /\ EntryLimit(entries'[j])
               /\ Deliveries(entries'[j]) = Deliveries(entries[j])
      BY <1>2, <2>1, <2>3, <3>1, CountKept
    <3>2. CASE rows' = rows /\ entries'[j] = Queue!NoEntry /\ entries[j].state # "absent"
      <4>1. EntryLimit(entries'[j])
        BY <3>2 DEF EntryLimit, Queue!NoEntry
      <4>2. rows'[j].status \notin Store!Live
        BY <3>2, EntriesStay DEF Queue!NoEntry
      <4> QED
        BY <1>2, <2>1, <2>3, <4>1, <4>2, CountKept
    <3> QED
      BY <1>3, <3>1, <3>2
  <2> QED
    BY <2>2, <2>3
<1> QED
  BY <1>4, <1>5, ApiRowSteps DEF ReqInv

\* A delivery adds a slot that may claim.
LEMMA TakeCount ==
  ASSUME SystemAssumption, ReqInv, NEW j \in Jobs, Counted(j),
         NEW s \in Slots, Take(s, j)
  PROVE  Counted(j)'
<1>0. /\ entries[j] \in Queue!Entries(Slots) /\ entries \in [Jobs -> Queue!Entries(Slots)]
      /\ slots \in [Slots -> SlotRecord] /\ rows[j].attempts \in Nat
  BY DEF ReqInv, TypeInv, Store!Rows
<1>1. Claimants(j)' = Claimants(j) \cup {s} /\ s \notin Claimants(j)
  BY <1>0 DEF Claimants, Take
<1>2. IsFiniteSet(Claimants(j)') /\ Cardinality(Claimants(j)') = Cardinality(Claimants(j)) + 1
  BY <1>1, FS_AddElement DEF Counted
<1>3. Cardinality(Claimants(j)) \in Nat
  BY FS_CardinalityType DEF Counted
<1>4. /\ EntryLimit(entries'[j]) /\ Deliveries(entries'[j]) = Deliveries(entries[j]) + 1
      /\ Deliveries(entries[j]) \in Nat
  BY <1>0, OpsKeepCount, DeliveriesBounded DEF Take, Counted
<1>5. rows' = rows
  BY DEF Take
<1> QED
  BY <1>0, <1>2, <1>3, <1>4, <1>5 DEF Counted

\* The claim turns a delivery into an execution.
LEMMA ClaimCount ==
  ASSUME SystemAssumption, ReqInv, NEW j \in Jobs, Counted(j), [Next]_vars,
         NEW s \in Slots, slots[s].pc = "claimQueued", JobOf(s) = j,
         ClaimQueued(s) \/ ClaimFails(s)
  PROVE  Counted(j)'
<1>0. /\ entries[j] \in Queue!Entries(Slots) /\ rows[j] \in Store!Rows(Keys)
      /\ slots \in [Slots -> SlotRecord] /\ rows[j].attempts \in Nat
      /\ rows \in [Jobs -> Store!Rows(Keys)]
  BY DEF ReqInv, TypeInv, Store!Rows
<1>1. s \in Claimants(j) /\ Claimants(j)' = Claimants(j) \ {s}
  BY <1>0 DEF Claimants, ClaimQueued, ClaimFails, SlotStep, JobOf, SlotRecord
<1>2. IsFiniteSet(Claimants(j)') /\ Cardinality(Claimants(j)') = Cardinality(Claimants(j)) - 1
  BY <1>1, FS_RemoveElement DEF Counted
<1>3. Cardinality(Claimants(j)) \in Nat
  BY FS_CardinalityType DEF Counted
<1>4. rows'[j] \in {rows[j], Store!Claimed(rows[j])} /\ entries' = entries
  BY <1>0 DEF ClaimQueued, ClaimFails, Write, Row
<1>5. \/ rows'[j].attempts = rows[j].attempts
      \/ rows[j].status = "QUEUED" /\ rows'[j].attempts = rows[j].attempts + 1
  BY <1>0, <1>4, StatementsCount
<1>6. rows[j].status # "ABSENT"
  BY DEF ReqInv, EntryInv, JobOf
<1>7. rows'[j].status \in Store!Live => rows[j].status \in Store!Live
  BY <1>6, RowsStayDead DEF ReqInv
<1>8. Deliveries(entries[j]) \in Nat /\ Deliveries(entries[j]) <= MaxAttempts + MaxStalled
  BY <1>0, DeliveriesBounded DEF Counted
<1>9. rows[j].status \in Store!Live =>
        /\ rows'[j].attempts + Cardinality(Claimants(j)') <= Deliveries(entries[j])
        /\ rows'[j].attempts <= Deliveries(entries[j])
  <2>1. Cardinality(Claimants(j)') \in Nat
    BY <1>2, FS_CardinalityType
  <2> QED
    BY <1>0, <1>2, <1>3, <1>5, <1>8, <2>1 DEF Counted
<1>10. rows'[j].attempts <= MaxAttempts + MaxStalled
  <2>1. CASE rows[j].status = "QUEUED"
    <3>1. rows'[j].attempts <= Deliveries(entries[j]) /\ rows'[j].attempts \in Nat
      BY <1>0, <1>5, <1>9, <2>1 DEF Store!Live
    <3> QED
      BY <1>8, <3>1 DEF SystemAssumption
  <2>2. CASE rows[j].status # "QUEUED"
    BY <1>5, <2>2 DEF Counted
  <2> QED
    BY <2>1, <2>2
<1> QED
  BY <1>2, <1>4, <1>7, <1>9, <1>10 DEF Counted

\* Every other step of a slot keeps the count.
LEMMA SlotCount ==
  ASSUME SystemAssumption, ReqInv, NEW j \in Jobs, Counted(j), [Next]_vars,
         NEW s \in Slots, SlotRuns(s) \/ SlotFails(s)
  PROVE  Counted(j)'
<1>0. /\ entries[j] \in Queue!Entries(Slots) /\ rows[j] \in Store!Rows(Keys)
      /\ slots \in [Slots -> SlotRecord] /\ slots[s] \in SlotRecord
      /\ rows \in [Jobs -> Store!Rows(Keys)] /\ entries \in [Jobs -> Queue!Entries(Slots)]
  BY DEF ReqInv, TypeInv
<1>1. CASE Take(s, j)
  BY <1>1, TakeCount
<1>a. \A t \in Slots : t # s => slots'[t] = slots[t]
  BY OtherSlotsStay DEF ReqInv
<1>2. ASSUME NEW i \in Jobs, Take(s, i), i # j PROVE Counted(j)'
  <2>1. rows'[j] = rows[j] /\ entries'[j] = entries[j]
    BY <1>0, <1>2 DEF Take
  <2>2. slots[s].pc = "idle" /\ slots'[s].job # j
    BY <1>0, <1>2 DEF Take
  <2>3. Claimants(j)' = Claimants(j)
    BY <1>a, <2>2 DEF Claimants
  <2> QED
    BY <2>1, <2>3 DEF Counted
<1>b. ASSUME \A i \in Jobs : ~Take(s, i)
      PROVE  /\ slots[s].pc # "idle"
             /\ slots'[s].job = slots[s].job \/ slots'[s].pc = "idle"
             /\ slots'[s].pc \in {"claimCancel", "claimQueued"}
                  => slots[s].pc \in {"claimCancel", "claimQueued"}
  <2>1. ASSUME NEW pc, SlotStep(s, pc)
        PROVE  slots'[s].job = slots[s].job /\ slots'[s].pc = pc
    BY <1>0, <2>1 DEF SlotStep, SlotRecord
  <2>2. slots' = [slots EXCEPT ![s] = [pc |-> "idle", job |-> None, attempt |-> 0]]
          => slots'[s].pc = "idle"
    BY <1>0
  <2>3. CASE ClaimCancel(s) \/ ClaimQueued(s) \/ ClaimRead(s) \/ ClaimFails(s)
    BY <2>1, <2>3 DEF ClaimCancel, ClaimQueued, ClaimRead, ClaimFails
  <2>4. CASE \/ Extract(s) \/ Complete(s) \/ CompleteFails(s) \/ Handle(s)
    BY <2>1, <2>4 DEF Extract, Complete, CompleteFails, Handle
  <2>5. CASE Settle(s) \/ SlotDies(s)
    BY <2>2, <2>5 DEF Settle, SlotDies
  <2>6. CASE LoseLock(s)
    BY <2>6 DEF LoseLock
  <2> QED
    BY <1>b, <2>3, <2>4, <2>5, <2>6 DEF SlotRuns, SlotFails
<1>3. ASSUME \A i \in Jobs : ~Take(s, i), JobOf(s) # j PROVE Counted(j)'
  <2>1. rows'[j] = rows[j]
    BY <1>3, SlotRowSteps DEF ReqInv
  <2>2. Claimants(j)' = Claimants(j)
    BY <1>a, <1>b, <1>3 DEF Claimants, JobOf
  <2>3. entries'[j] = entries[j]
    BY <1>0, <1>3 DEF SlotRuns, SlotFails, ClaimCancel, ClaimQueued, ClaimRead,
       ClaimFails, Extract, Complete, CompleteFails, Handle, Settle, SlotDies, LoseLock
  <2> QED
    BY <2>1, <2>2, <2>3 DEF Counted
<1>4. CASE JobOf(s) = j /\ slots[s].pc = "claimQueued" /\ (ClaimQueued(s) \/ ClaimFails(s))
  BY <1>4, ClaimCount
<1>5. ASSUME \A i \in Jobs : ~Take(s, i), JobOf(s) = j,
             ~(slots[s].pc = "claimQueued" /\ (ClaimQueued(s) \/ ClaimFails(s)))
      PROVE  Counted(j)'
  <2>1. rows[j].status # "ABSENT"
    BY <1>b, <1>5 DEF ReqInv, EntryInv, JobOf
  <2>2. Claimants(j)' \subseteq Claimants(j)
    BY <1>a, <1>b, <1>5 DEF Claimants, JobOf
  <2>3. rows'[j].attempts = rows[j].attempts
    <3>1. \A new \in {rows[j], Store!ClaimedCancellation(rows[j]), Store!Completed(rows[j]),
                      Store!Retried(rows[j]), Store!FailedFinally(rows[j])} :
            new.attempts = rows[j].attempts
      BY <1>0 DEF Store!Rows, Store!UpdateMany, Store!ClaimedCancellation,
         Store!Completed, Store!Retried, Store!FailedFinally
    <3>2. rows'[j] \in {rows[j], Store!ClaimedCancellation(rows[j]), Store!Completed(rows[j]),
                        Store!Retried(rows[j]), Store!FailedFinally(rows[j])}
      BY <1>0, <1>5 DEF SlotRuns, SlotFails, ClaimCancel, ClaimQueued, ClaimRead,
         ClaimFails, Extract, Complete, CompleteFails, Handle, Settle, SlotDies, LoseLock,
         Write, Row
    <3> QED
      BY <3>1, <3>2
  <2>4. /\ EntryLimit(entries'[j])
        /\ Deliveries(entries'[j]) = Deliveries(entries[j])
    <3>1. entries'[j] \in {entries[j], Queue!Acknowledged(entries[j], s),
                           Queue!Rejected(entries[j], s), Queue!LockExpired(entries[j])}
      BY <1>0, <1>5 DEF SlotRuns, SlotFails, ClaimCancel, ClaimQueued, ClaimRead,
         ClaimFails, Extract, Complete, CompleteFails, Handle, Settle, SlotDies, LoseLock
    <3> QED
      BY <1>0, <3>1, OpsKeepCount DEF Counted
  <2> QED
    BY <2>1, <2>2, <2>3, <2>4, CountKept
<1> QED
  BY <1>1, <1>2, <1>3, <1>4, <1>5

\* BullMQ's timers keep the count.
LEMMA TimerCount ==
  ASSUME SystemAssumption, ReqInv, NEW j \in Jobs, Counted(j), [Next]_vars,
         NEW i \in Jobs, Timers(i)
  PROVE  Counted(j)'
<1>0. entries[j] \in Queue!Entries(Slots) /\ entries \in [Jobs -> Queue!Entries(Slots)]
  BY DEF ReqInv, TypeInv
<1>1. rows' = rows /\ slots' = slots
  BY DEF Timers, MoveStalled, Promote
<1>2. /\ EntryLimit(entries'[j])
      /\ Deliveries(entries'[j]) = Deliveries(entries[j])
  <2>1. \/ entries'[j] = entries[j]
        \/ entries[j].state = "active" /\ entries'[j] = Queue!StalledMoved(entries[j])
        \/ entries[j].state = "delayed" /\ entries'[j] = Queue!Promoted(entries[j])
    BY <1>0 DEF Timers, MoveStalled, Promote
  <2> QED
    BY <1>0, <2>1, OpsKeepCount DEF Counted
<1>3. Claimants(j)' = Claimants(j)
  BY <1>1 DEF Claimants
<1> QED
  BY <1>1, <1>2, <1>3 DEF Counted

\* The count is kept by every step.
LEMMA AttemptStep == ReqInv /\ AttemptInv /\ [Next]_vars => AttemptInv'
<1> SUFFICES ASSUME ReqInv, AttemptInv, [Next]_vars, NEW j \in Jobs PROVE Counted(j)'
  BY DEF AttemptInv
<1>0. Counted(j)
  BY DEF AttemptInv
<1>1. CASE Quiescent \/ UNCHANGED vars
  <2>1. rows' = rows /\ entries' = entries /\ slots' = slots
    BY <1>1 DEF Quiescent, vars
  <2>2. Claimants(j)' = Claimants(j)
    BY <2>1 DEF Claimants
  <2> QED
    BY <1>0, <2>1, <2>2 DEF Counted
<1> QED
  BY <1>0, <1>1, SystemAssumption, ApiCount, SlotCount, TimerCount DEF Next

\* Nothing is delivered at the start.
LEMMA AttemptInit == Init => AttemptInv
<1> SUFFICES ASSUME Init, NEW j \in Jobs PROVE Counted(j)
  BY DEF AttemptInv
<1>1. entries[j].state = "absent" /\ rows[j].attempts = 0 /\ rows[j].status = "ABSENT"
  BY DEF Init, Queue!NoEntry, Store!AbsentRow
<1>2. Claimants(j) = {}
  BY DEF Init, Claimants
<1> QED
  BY <1>1, <1>2, FS_EmptySet, SystemAssumption DEF Counted, EntryLimit, Store!Live

\* The requests' invariants and the count hold in every reachable state.
LEMMA AttemptInvariant == Spec => [](ReqInv /\ AttemptInv)
<1>1. Init => AttemptInv
  BY AttemptInit
<1>2. ReqInv /\ AttemptInv /\ [Next]_vars => AttemptInv'
  BY AttemptStep
<1> QED
  BY <1>1, <1>2, ReqInvariant, PTL DEF Spec

\* A job is executed at most MaxAttempts + MaxStalled times, whatever fails.
THEOREM ExecutionsAreBounded == Spec => []AttemptsBounded
<1>1. AttemptInv => AttemptsBounded
  BY DEF AttemptInv, Counted, AttemptsBounded
<1> QED
  BY <1>1, AttemptInvariant, PTL
=============================================================================
