---------------------------- MODULE Healthy_proofs ----------------------------
(***************************************************************************)
(* ExtractionSystem without faults, for any number of requests, jobs and   *)
(* slots and any limit of attempts: database and queue agree, so that a    *)
(* live row always has somebody who will act on it, and the worker gives   *)
(* up after the configured number of executions.                           *)
(***************************************************************************)
EXTENDS Requests_proofs

NoFaults == Faults = {}

-----------------------------------------------------------------------------
(* The invariant                                                           *)

\* A slot at work holds the lock of its entry and runs its next attempt.
Held(s) == slots[s].pc # "idle" =>
             /\ Queue!HoldsLock(entries[slots[s].job], s)
             /\ slots[s].attempt = entries[slots[s].job].made + 1

\* No request was refused or lost, and one that is about to enqueue its job
\* finds no entry.
Fresh(c) == /\ creating[c].pc \notin {"compensate", "unavailable", "gone"}
            /\ creating[c].pc = "enqueue" =>
                 creating[c].created /\ entries[creating[c].job].state = "absent"

\* The lock of an active entry has an owner.
Owned(j) == entries[j].state = "active" => entries[j].holder # None

\* Who will act on a QUEUED row, and who executes a RUNNING one.  The attempts
\* of the row follow those of the entry.
Submitted(j) == /\ rows[j].attempts = 0
                /\ \E c \in Creates : creating[c].job = j /\ creating[c].pc = "enqueue"
Waits(j) == /\ entries[j].state \in {"wait", "delayed"}
            /\ rows[j].attempts = entries[j].made
Claims(s, j) ==
  /\ slots[s].job = j /\ Queue!HoldsLock(entries[j], s)
  /\ \/ /\ slots[s].pc \in {"claimCancel", "claimQueued"}
        /\ rows[j].attempts = entries[j].made
     \/ /\ slots[s].pc = "ackFailed"
        /\ rows[j].attempts = entries[j].made + 1
        /\ entries[j].made + 1 < MaxAttempts
Runs(s, j) == /\ Executing(s, j) /\ Queue!HoldsLock(entries[j], s)
              /\ rows[j].attempts = entries[j].made + 1

JobDriven(j) ==
  /\ rows[j].status = "QUEUED" => Submitted(j) \/ Waits(j) \/ \E s \in Slots : Claims(s, j)
  /\ rows[j].status = "RUNNING" => \E s \in Slots : Runs(s, j)
  /\ rows[j].status = "FAILED" /\ rows[j].error = "INTERNAL"
       => rows[j].attempts >= MaxAttempts

HealthyInv == /\ NoFaults
              /\ \A s \in Slots : Held(s)
              /\ \A c \in Creates : Fresh(c)
              /\ \A j \in Jobs : Owned(j) /\ JobDriven(j)

Base == SystemAssumption /\ ReqInv /\ HealthyInv

\* The steps that are left when nothing fails.
LEMMA StepsWithoutFaults ==
  ASSUME Base
  PROVE  /\ \A c \in Creates : CreateNext(c) =>
              \/ \E k \in Keys : CreateLookup(c, k)
              \/ \E j \in Jobs : CreateInsert(c, j)
              \/ CreateReread(c)
              \/ CreateEnqueue(c) /\ AddEntry(c) /\ Answer(c, "accepted")
         /\ \A c \in Cancels : ~CancelDies(c)
         /\ \A s \in Slots : ~SlotFails(s)
         /\ \A j \in Jobs : ~MoveStalled(j)
<1> USE DEF Base, HealthyInv, NoFaults
<1>1. \A c \in Creates : ~CreateDies(c) /\ ~CreateCompensate(c)
  BY DEF CreateDies, CreateCompensate, Fresh
<1>2. \A c \in Creates : CreateEnqueue(c) => AddEntry(c) /\ Answer(c, "accepted")
  BY DEF CreateEnqueue
<1>3. \A c \in Cancels : ~CancelDies(c)
  BY DEF CancelDies
<1>4. \A s \in Slots : ~SlotFails(s)
  BY DEF SlotFails, ClaimFails, CompleteFails, SlotDies, LoseLock
<1>5. \A j \in Jobs : ~MoveStalled(j)
  BY DEF MoveStalled, Owned
<1> QED
  BY <1>1, <1>2, <1>3, <1>4, <1>5 DEF CreateNext

\* A job that the step does not concern stays as it is.
LEMMA OthersStayDriven ==
  ASSUME NEW j \in Jobs, JobDriven(j), rows'[j] = rows[j], entries'[j] = entries[j],
         \A s \in Slots : slots[s].pc # "idle" /\ slots[s].job = j => slots'[s] = slots[s],
         \A c \in Creates : creating[c].pc = "enqueue" /\ creating[c].job = j
                              => creating'[c] = creating[c]
  PROVE  JobDriven(j)'
<1>1. Submitted(j) => Submitted(j)'
  BY DEF Submitted
<1>2. Waits(j) => Waits(j)'
  BY DEF Waits
<1>3. ASSUME NEW s \in Slots, Claims(s, j) PROVE Claims(s, j)'
  BY <1>3 DEF Claims, Queue!HoldsLock
<1>4. ASSUME NEW s \in Slots, Runs(s, j) PROVE Runs(s, j)'
  BY <1>4 DEF Runs, Executing, ExecutingPCs, Queue!HoldsLock
<1> QED
  BY <1>1, <1>2, <1>3, <1>4 DEF JobDriven

\* While a slot works on a job, nobody else does.
LEMMA HolderActs ==
  ASSUME Base, NEW s \in Slots, slots[s].pc # "idle", NEW j \in Jobs, slots[s].job = j
  PROVE  /\ entries[j].state = "active" /\ entries[j].holder = s
         /\ slots[s].attempt = entries[j].made + 1 /\ entries[j].made \in Nat
         /\ \A t \in Slots : slots[t].pc # "idle" /\ slots[t].job = j => t = s
         /\ \A c \in Creates : creating[c].pc = "enqueue" => creating[c].job # j
         /\ rows[j].status = "QUEUED" => Claims(s, j)
         /\ rows[j].status = "RUNNING" => Runs(s, j)
<1>1. /\ entries[j].state = "active" /\ entries[j].holder = s
      /\ slots[s].attempt = entries[j].made + 1
  BY DEF Base, HealthyInv, Held, Queue!HoldsLock
<1>2. entries[j].made \in Nat
  BY DEF Base, ReqInv, TypeInv, Queue!Entries
<1>3. \A t \in Slots : slots[t].pc # "idle" /\ slots[t].job = j => t = s
  BY <1>1 DEF Base, HealthyInv, Held, Queue!HoldsLock
<1>4. \A c \in Creates : creating[c].pc = "enqueue" => creating[c].job # j
  BY <1>1 DEF Base, HealthyInv, Fresh
<1>5. \A t \in Slots : Queue!HoldsLock(entries[j], t) => t = s
  BY <1>1 DEF Queue!HoldsLock
<1>6. rows[j].status = "QUEUED" => Claims(s, j)
  BY <1>1, <1>4, <1>5 DEF Base, HealthyInv, JobDriven, Submitted, Waits, Claims
<1>7. rows[j].status = "RUNNING" => Runs(s, j)
  BY <1>5 DEF Base, HealthyInv, JobDriven, Runs
<1> QED
  BY <1>1, <1>2, <1>3, <1>4, <1>6, <1>7

-----------------------------------------------------------------------------
(* The steps of the API                                                    *)

\* An insert submits its row.
LEMMA InsertDrives ==
  ASSUME Base, NEW c \in Creates, NEW i \in Jobs, Inserts(c, i)
  PROVE  HealthyInv'
<1>0. /\ creating \in [Creates -> CreateRecord] /\ rows \in [Jobs -> Store!Rows(Keys)]
      /\ rows[i].status = "ABSENT" /\ entries' = entries /\ slots' = slots
      /\ creating[c].pc = "insert"
  BY DEF Base, ReqInv, TypeInv, Inserts, CreateInsert
<1>1. /\ creating'[c].pc = "enqueue" /\ creating'[c].job = i /\ creating'[c].created
      /\ \A d \in Creates : d # c => creating'[d] = creating[d]
  BY <1>0 DEF Inserts, CreateInsert, CreateRecord
<1>2. /\ rows'[i].status = "QUEUED" /\ rows'[i].attempts = 0
      /\ \A j \in Jobs : j # i => rows'[j] = rows[j]
  <2>1. rows' = [rows EXCEPT ![i] = Store!NewRow(creating[c].key)]
    BY DEF Inserts, CreateInsert
  <2>2. \A k : Store!NewRow(k).attempts = 0 /\ Store!NewRow(k).status = "QUEUED"
    BY DEF Store!NewRow, Store!AbsentRow
  <2> QED
    BY <1>0, <2>1, <2>2
<1>3. entries[i].state = "absent"
  BY <1>0 DEF Base, ReqInv, EntryInv
<1>4. \A d \in Creates : Fresh(d)'
  BY <1>0, <1>1, <1>3 DEF Base, HealthyInv, Fresh
<1>5. \A s \in Slots : Held(s)'
  BY <1>0 DEF Base, HealthyInv, Held
<1>6. \A j \in Jobs : Owned(j)'
  BY <1>0 DEF Base, HealthyInv, Owned
<1>7. JobDriven(i)'
  <2>1. Submitted(i)'
    BY <1>1, <1>2 DEF Submitted
  <2> QED
    BY <1>2, <2>1 DEF JobDriven
<1>8. ASSUME NEW j \in Jobs, j # i PROVE JobDriven(j)'
  BY <1>0, <1>1, <1>2, <1>8, OthersStayDriven DEF Base, HealthyInv
<1> QED
  BY <1>4, <1>5, <1>6, <1>7, <1>8 DEF Base, HealthyInv, NoFaults

\* The entry that a request adds waits for a slot.
LEMMA EnqueueDrives ==
  ASSUME Base, NEW c \in Creates, NEW i \in Jobs, creating[c].job = i,
         CreateEnqueue(c), AddEntry(c), Answer(c, "accepted")
  PROVE  HealthyInv'
<1>0. /\ creating \in [Creates -> CreateRecord] /\ entries \in [Jobs -> Queue!Entries(Slots)]
      /\ creating[c].pc = "enqueue"
      /\ rows' = rows /\ slots' = slots
  BY DEF Base, ReqInv, TypeInv, CreateRecord, CreateEnqueue
<1>1. /\ creating'[c].pc = "accepted"
      /\ \A d \in Creates : d # c => creating'[d] = creating[d]
  BY <1>0 DEF Answer, CreateRecord
<1>2. entries[i].state = "absent" /\ creating[c].created
  BY <1>0 DEF Base, HealthyInv, Fresh
<1>3. /\ entries'[i].state = "wait" /\ entries'[i].made = 0
      /\ \A j \in Jobs : j # i => entries'[j] = entries[j]
  <2>1. Queue!Added(entries[i]).state = "wait" /\ Queue!Added(entries[i]).made = 0
    BY <1>2 DEF Queue!Added, Queue!NoEntry
  <2>2. entries' = [entries EXCEPT ![i] = Queue!Added(entries[i])]
    BY DEF AddEntry
  <2> QED
    BY <1>0, <2>1, <2>2
<1>4. \A d \in Creates : Fresh(d)'
  <2>1. ASSUME NEW d \in Creates, d # c, creating[d].pc = "enqueue"
        PROVE  creating[d].job # i /\ creating[d].job \in Jobs
    BY <1>0, <1>2, <2>1 DEF Base, HealthyInv, Fresh, ReqInv, KeyInv, CreateRecord
  <2> QED
    BY <1>1, <1>3, <2>1 DEF Base, HealthyInv, Fresh
<1>5. \A s \in Slots : Held(s)'
  <2>1. ASSUME NEW s \in Slots, slots[s].pc # "idle"
        PROVE  slots[s].job # i /\ slots[s].job \in Jobs
    BY <1>2, <2>1 DEF Base, HealthyInv, Held, Queue!HoldsLock, ReqInv, TypeInv, SlotRecord
  <2> QED
    BY <1>0, <1>3, <2>1 DEF Base, HealthyInv, Held
<1>6. \A j \in Jobs : Owned(j)'
  BY <1>3 DEF Base, HealthyInv, Owned
<1>7. JobDriven(i)'
  <2>1. JobDriven(i)
    BY <1>0 DEF Base, HealthyInv
  <2>2. ~Waits(i) /\ (\A s \in Slots : ~Claims(s, i) /\ ~Runs(s, i))
    BY <1>2 DEF Waits, Claims, Runs, Queue!HoldsLock
  <2>3. rows[i].status = "QUEUED" => Waits(i)'
    BY <1>0, <1>3, <2>1, <2>2 DEF JobDriven, Submitted, Waits
  <2> QED
    BY <1>0, <2>1, <2>2, <2>3 DEF JobDriven
<1>8. ASSUME NEW j \in Jobs, j # i PROVE JobDriven(j)'
  BY <1>0, <1>1, <1>3, <1>8, OthersStayDriven DEF Base, HealthyInv
<1> QED
  BY <1>4, <1>5, <1>6, <1>7, <1>8 DEF Base, HealthyInv, NoFaults

\* The other steps of a create request concern no job.
LEMMA CreateDrives ==
  ASSUME Base, NEW c \in Creates, CreateNext(c)
  PROVE  HealthyInv'
<1>0. creating \in [Creates -> CreateRecord] /\ creating[c] \in CreateRecord
  BY DEF Base, ReqInv, TypeInv
<1>1. ASSUME rows' = rows, entries' = entries, slots' = slots,
             creating[c].pc # "enqueue",
             creating'[c].pc \in {"insert", "reread", "accepted"},
             \A d \in Creates : d # c => creating'[d] = creating[d]
      PROVE  HealthyInv'
  <2>1. \A d \in Creates : Fresh(d)'
    BY <1>1 DEF Base, HealthyInv, Fresh
  <2>2. \A s \in Slots : Held(s)'
    BY <1>1 DEF Base, HealthyInv, Held
  <2>3. \A j \in Jobs : Owned(j)'
    BY <1>1 DEF Base, HealthyInv, Owned
  <2>4. \A j \in Jobs : JobDriven(j)'
    BY <1>1, OthersStayDriven DEF Base, HealthyInv
  <2> QED
    BY <2>1, <2>2, <2>3, <2>4 DEF Base, HealthyInv, NoFaults
<1>2. ASSUME NEW k \in Keys, CreateLookup(c, k) PROVE HealthyInv'
  BY <1>0, <1>1, <1>2 DEF CreateLookup
<1>3. ASSUME NEW j \in Jobs, CreateInsert(c, j), ~Inserts(c, j) PROVE HealthyInv'
  BY <1>0, <1>1, <1>3 DEF CreateInsert, Inserts, Answer, CreateRecord
<1>4. CASE CreateReread(c)
  BY <1>0, <1>1, <1>4 DEF CreateReread, CreateRecord
<1>5. CreateEnqueue(c) => creating[c].job \in Jobs
  BY <1>0 DEF CreateEnqueue, CreateRecord
<1> QED
  BY <1>2, <1>3, <1>4, <1>5, StepsWithoutFaults, InsertDrives, EnqueueDrives

\* A cancellation takes its job out of the cycle.
LEMMA CancelDrives ==
  ASSUME Base, NEW c \in Cancels, CancelNext(c)
  PROVE  HealthyInv'
<1>0. /\ rows \in [Jobs -> Store!Rows(Keys)] /\ entries \in [Jobs -> Queue!Entries(Slots)]
      /\ cancelling[c] \in CancelRecord
  BY DEF Base, ReqInv, TypeInv
<1>1. creating' = creating /\ slots' = slots
  BY DEF CancelNext, CancelFind, CancelUpdate, CancelRead, CancelGetJob,
     CancelGetState, CancelRemove, CancelDies
<1>2. CASE rows' = rows /\ entries' = entries
  BY <1>1, <1>2, OthersStayDriven DEF Base, HealthyInv, NoFaults, Held, Fresh, Owned
<1>3. CASE CancelUpdate(c)
  <2>1. PICK i \in Jobs : i = cancelling[c].job
    BY <1>0, <1>3 DEF CancelUpdate, CancelRecord
  <2>2. /\ rows'[i] = Store!CancelRequested(rows[i]) /\ entries' = entries
        /\ \A j \in Jobs : j # i => rows'[j] = rows[j]
    BY <1>0, <1>3, <2>1 DEF CancelUpdate
  <2>3. /\ rows'[i].status \notin Store!Live
        /\ rows'[i].status = "FAILED" => rows'[i] = rows[i]
    <3>1. rows[i] \in Store!Rows(Keys)
      BY <1>0
    <3> QED
      BY <2>2, <3>1 DEF Store!CancelRequested, Store!UpdateMany, Store!Live, Store!Rows
  <2>4. JobDriven(i)'
    BY <2>3 DEF JobDriven, Store!Live, Base, HealthyInv
  <2>5. \A j \in Jobs : j # i => JobDriven(j)'
    BY <1>1, <2>2, OthersStayDriven DEF Base, HealthyInv
  <2> QED
    BY <1>1, <2>2, <2>4, <2>5 DEF Base, HealthyInv, NoFaults, Held, Fresh, Owned
<1>4. ASSUME CancelRemove(c), entries' # entries PROVE HealthyInv'
  <2>1. PICK i \in Jobs : i = cancelling[c].job
    BY <1>0, <1>4 DEF CancelRemove, CancelRecord
  <2>2. /\ rows' = rows /\ entries[i].holder = None
        /\ entries'[i].state = "absent"
        /\ \A j \in Jobs : j # i => entries'[j] = entries[j]
    BY <1>0, <1>4, <2>1 DEF CancelRemove, Queue!Removable, Queue!Removed, Queue!NoEntry
  <2>3. rows[i].status \notin Store!Live
    BY <1>4, <2>1 DEF CancelRemove, Base, ReqInv, CancelInv, CancelSound, Updated
  <2>4. ASSUME NEW s \in Slots, slots[s].pc # "idle"
        PROVE  slots[s].job # i /\ slots[s].job \in Jobs
    BY <2>2, <2>4 DEF Base, HealthyInv, Held, Queue!HoldsLock, SystemAssumption,
       ReqInv, TypeInv, SlotRecord
  <2>5. \A s \in Slots : Held(s)'
    BY <1>1, <2>2, <2>4 DEF Base, HealthyInv, Held
  <2>6. ASSUME NEW d \in Creates, creating[d].pc = "enqueue" PROVE creating[d].job \in Jobs
    BY <2>6 DEF Base, ReqInv, TypeInv, CreateRecord
  <2>7. \A d \in Creates : Fresh(d)'
    BY <1>1, <2>2, <2>6 DEF Base, HealthyInv, Fresh
  <2>8. \A j \in Jobs : Owned(j)'
    BY <2>2 DEF Base, HealthyInv, Owned
  <2>9. JobDriven(i)'
    BY <2>2, <2>3 DEF JobDriven, Store!Live, Base, HealthyInv
  <2>10. \A j \in Jobs : j # i => JobDriven(j)'
    BY <1>1, <2>2, OthersStayDriven DEF Base, HealthyInv
  <2> QED
    BY <2>5, <2>7, <2>8, <2>9, <2>10 DEF Base, HealthyInv, NoFaults
<1> QED
  BY <1>2, <1>3, <1>4, StepsWithoutFaults DEF CancelNext, CancelFind, CancelRead,
     CancelGetJob, CancelGetState, CancelRemove

-----------------------------------------------------------------------------
(* The steps of the worker                                                 *)

\* A delivery of a waiting entry.
LEMMA TakeDrives ==
  ASSUME Base, NEW s \in Slots, NEW i \in Jobs, Take(s, i)
  PROVE  HealthyInv'
<1>0. /\ slots \in [Slots -> SlotRecord] /\ entries \in [Jobs -> Queue!Entries(Slots)]
      /\ rows' = rows /\ creating' = creating
      /\ slots[s].pc = "idle" /\ entries[i].state = "wait"
  BY DEF Base, ReqInv, TypeInv, Take
<1>1. /\ slots'[s] = [pc |-> "claimCancel", job |-> i, attempt |-> entries[i].made + 1]
      /\ \A t \in Slots : t # s => slots'[t] = slots[t]
  BY <1>0 DEF Take
<1>2. /\ entries'[i].state = "active" /\ entries'[i].holder = s
      /\ entries'[i].made = entries[i].made
      /\ \A j \in Jobs : j # i => entries'[j] = entries[j]
  BY <1>0 DEF Take, Queue!Taken, Queue!Entries
<1>3. ASSUME NEW t \in Slots, slots[t].pc # "idle"
      PROVE  slots[t].job # i /\ slots[t].job \in Jobs
  BY <1>0, <1>3 DEF Base, HealthyInv, Held, Queue!HoldsLock, SlotRecord
<1>4. \A t \in Slots : Held(t)'
  BY <1>1, <1>2, <1>3 DEF Base, HealthyInv, Held, Queue!HoldsLock
<1>5. ASSUME NEW d \in Creates, creating[d].pc = "enqueue"
      PROVE  creating[d].job # i /\ creating[d].job \in Jobs
  BY <1>0, <1>5 DEF Base, HealthyInv, Fresh, ReqInv, TypeInv, CreateRecord
<1>6. \A d \in Creates : Fresh(d)'
  BY <1>0, <1>2, <1>5 DEF Base, HealthyInv, Fresh
<1>7. \A j \in Jobs : Owned(j)'
  BY <1>2 DEF Base, HealthyInv, Owned, SystemAssumption
<1>8. JobDriven(i)'
  <2>1. JobDriven(i)
    BY DEF Base, HealthyInv
  <2>2. \A t \in Slots : ~Claims(t, i) /\ ~Runs(t, i)
    BY <1>0 DEF Claims, Runs, Queue!HoldsLock
  <2>3. ~Submitted(i)
    BY <1>5 DEF Submitted
  <2>4. rows[i].status = "QUEUED" => Claims(s, i)'
    BY <1>0, <1>1, <1>2, <2>1, <2>2, <2>3 DEF JobDriven, Waits, Claims, Queue!HoldsLock
  <2> QED
    BY <1>0, <2>1, <2>2, <2>4 DEF JobDriven
<1>9. ASSUME NEW j \in Jobs, j # i PROVE JobDriven(j)'
  BY <1>0, <1>1, <1>2, <1>9, OthersStayDriven DEF Base, HealthyInv
<1> QED
  BY <1>4, <1>6, <1>7, <1>8, <1>9 DEF Base, HealthyInv, NoFaults

\* A step of a slot at work that leaves its entry alone needs to keep its own job
\* driven.
LEMMA WorkDrives ==
  ASSUME Base, NEW s \in Slots, NEW i \in Jobs, slots[s].pc # "idle", slots[s].job = i,
         SlotRuns(s), entries' = entries, NEW pc, SlotStep(s, pc), JobDriven(i)'
  PROVE  HealthyInv'
<1>0. slots \in [Slots -> SlotRecord]
  BY DEF Base, ReqInv, TypeInv
<1>1. /\ slots'[s].job = i /\ slots'[s].attempt = slots[s].attempt
      /\ \A t \in Slots : t # s => slots'[t] = slots[t]
  BY <1>0 DEF SlotStep, SlotRecord
<1>2. creating' = creating
  BY DEF SlotRuns, Take, ClaimCancel, ClaimQueued, ClaimRead, Extract, Complete, Handle,
     Settle
<1>3. \A t \in Slots : Held(t)'
  BY <1>1 DEF Base, HealthyInv, Held
<1>4. ASSUME NEW j \in Jobs, j # i PROVE JobDriven(j)'
  <2>1. rows'[j] = rows[j]
    BY <1>4, SlotRowSteps DEF Base, ReqInv, JobOf
  <2> QED
    BY <1>1, <1>2, <1>4, <2>1, OthersStayDriven DEF Base, HealthyInv
<1> QED
  BY <1>2, <1>3, <1>4 DEF Base, HealthyInv, NoFaults, Fresh, Owned

\* The claim, the extraction and the statement that ends it keep the job driven.
LEMMA ExecutionDrives ==
  ASSUME Base, NEW s \in Slots, NEW i \in Jobs, slots[s].pc # "idle", slots[s].job = i,
         SlotRuns(s), ~Settle(s)
  PROVE  HealthyInv'
<1> DEFINE row == rows[i]
<1>0. /\ slots \in [Slots -> SlotRecord] /\ rows \in [Jobs -> Store!Rows(Keys)]
      /\ rows[i] \in Store!Rows(Keys) /\ rows[i].attempts \in Nat
      /\ MaxAttempts \in Nat /\ JobDriven(i)
  BY DEF Base, ReqInv, TypeInv, Store!Rows, SystemAssumption, HealthyInv
<1>1. /\ Queue!HoldsLock(entries[i], s)
      /\ slots[s].attempt = entries[i].made + 1 /\ entries[i].made \in Nat
      /\ rows[i].status = "QUEUED" => Claims(s, i)
      /\ rows[i].status = "RUNNING" => Runs(s, i)
  BY HolderActs DEF Queue!HoldsLock
<1>2. ASSUME NEW pc, SlotStep(s, pc)
      PROVE  slots'[s].pc = pc /\ slots'[s].job = i
  BY <1>0, <1>2 DEF SlotStep, SlotRecord
<1>3. \A new : Write(s, new) => rows'[i] = new
  BY <1>0 DEF Write, JobOf
<1> USE DEF Store!UpdateMany
<1>4. CASE ClaimCancel(s)
  <2>1. rows'[i] = Store!ClaimedCancellation(rows[i]) /\ SlotStep(s, "claimQueued")
        /\ entries' = entries /\ slots[s].pc = "claimCancel"
    BY <1>3, <1>4 DEF ClaimCancel, Row, JobOf
  <2>2. \/ rows'[i] = rows[i]
        \/ rows'[i].status = "CANCELLED"
    BY <1>0, <2>1 DEF Store!ClaimedCancellation, Store!Rows
  <2>3. rows'[i] = rows[i] /\ rows[i].status = "QUEUED" => Claims(s, i)'
    BY <1>1, <1>2, <2>1 DEF Claims, Queue!HoldsLock
  <2>4. rows[i].status # "RUNNING"
    BY <1>1, <2>1 DEF Runs, Executing, ExecutingPCs
  <2>5. JobDriven(i)'
    BY <1>0, <2>2, <2>3, <2>4 DEF JobDriven
  <2> QED
    BY <2>1, <2>5, WorkDrives
<1>5. CASE ClaimQueued(s)
  <2>1. /\ rows'[i] = Store!Claimed(rows[i]) /\ entries' = entries
        /\ slots[s].pc = "claimQueued"
        /\ SlotStep(s, IF rows[i].status \in Store!ClaimFrom THEN "claimRead"
                                                           ELSE "ackCompleted")
    BY <1>3, <1>5 DEF ClaimQueued, Row, JobOf
  <2>2. CASE rows[i].status = "QUEUED"
    <3>1. rows'[i].status = "RUNNING" /\ rows'[i].attempts = rows[i].attempts + 1
      BY <1>0, <2>1, <2>2 DEF Store!Claimed, Store!ClaimFrom, Store!Rows
    <3>2. rows[i].attempts = entries[i].made
      BY <1>1, <2>1, <2>2 DEF Claims
    <3>3. slots'[s].pc = "claimRead" /\ slots'[s].job = i
      BY <1>2, <2>1, <2>2 DEF Store!ClaimFrom
    <3>4. Runs(s, i)'
      BY <1>1, <2>1, <3>1, <3>2, <3>3 DEF Runs, Executing, ExecutingPCs, Queue!HoldsLock
    <3>5. JobDriven(i)'
      BY <3>1, <3>4 DEF JobDriven
    <3> QED
      BY <2>1, <3>5, WorkDrives
  <2>3. CASE rows[i].status # "QUEUED"
    <3>1. rows'[i] = rows[i]
      BY <2>1, <2>3 DEF Store!Claimed, Store!ClaimFrom
    <3>2. rows[i].status # "RUNNING"
      BY <1>1, <2>1 DEF Runs, Executing, ExecutingPCs
    <3>3. JobDriven(i)'
      BY <1>0, <2>3, <3>1, <3>2 DEF JobDriven
    <3> QED
      BY <2>1, <3>3, WorkDrives
  <2> QED
    BY <2>2, <2>3
<1>6. ASSUME slots[s].pc \in ExecutingPCs PROVE rows[i].status # "QUEUED"
  BY <1>1, <1>6 DEF Claims, ExecutingPCs
<1>7. CASE ClaimRead(s)
  <2>1. /\ rows' = rows /\ entries' = entries /\ slots[s].pc = "claimRead"
        /\ SlotStep(s, IF rows[i].status = "RUNNING" THEN "extract" ELSE "ackCompleted")
    BY <1>7 DEF ClaimRead, Row, JobOf
  <2>2. rows[i].status # "QUEUED"
    BY <1>6, <2>1 DEF ExecutingPCs
  <2>3. rows[i].status = "RUNNING" => Runs(s, i)'
    BY <1>1, <1>2, <2>1 DEF Runs, Executing, ExecutingPCs, Queue!HoldsLock
  <2>4. JobDriven(i)'
    BY <1>0, <2>1, <2>2, <2>3 DEF JobDriven
  <2> QED
    BY <2>1, <2>4, WorkDrives
<1>8. CASE Extract(s)
  <2>1. /\ rows' = rows /\ entries' = entries /\ slots[s].pc = "extract"
    BY <1>8 DEF Extract
  <2>2. PICK pc \in {"complete", "handle"} : SlotStep(s, pc)
    BY <1>8 DEF Extract
  <2>3. rows[i].status # "QUEUED"
    BY <1>6, <2>1 DEF ExecutingPCs
  <2>4. rows[i].status = "RUNNING" => Runs(s, i)'
    BY <1>1, <1>2, <2>1, <2>2 DEF Runs, Executing, ExecutingPCs, Queue!HoldsLock
  <2>5. JobDriven(i)'
    BY <1>0, <2>1, <2>3, <2>4 DEF JobDriven
  <2> QED
    BY <2>1, <2>2, <2>5, WorkDrives
<1>9. CASE Complete(s)
  <2>1. /\ rows'[i] = Store!Completed(rows[i]) /\ entries' = entries
        /\ slots[s].pc = "complete" /\ SlotStep(s, "ackCompleted")
    BY <1>3, <1>9 DEF Complete, Row, JobOf
  <2>2. rows[i].status # "QUEUED"
    BY <1>6, <2>1 DEF ExecutingPCs
  <2>3. \/ rows'[i].status = "SUCCEEDED"
        \/ rows'[i] = rows[i] /\ rows[i].status # "RUNNING"
    BY <1>0, <2>1 DEF Store!Completed, Store!Rows
  <2>4. JobDriven(i)'
    BY <1>0, <2>2, <2>3 DEF JobDriven
  <2> QED
    BY <2>1, <2>4, WorkDrives
<1>10. CASE Handle(s)
  <2>1. /\ entries' = entries /\ slots[s].pc = "handle" /\ SlotStep(s, "ackFailed")
        /\ \/ IsLastAttempt(s) /\ rows'[i] = Store!FailedFinally(rows[i])
           \/ ~IsLastAttempt(s) /\ rows'[i] = Store!Retried(rows[i])
    BY <1>3, <1>10 DEF Handle, Row, JobOf, Base, HealthyInv, NoFaults
  <2>2. rows[i].status # "QUEUED"
    BY <1>6, <2>1 DEF ExecutingPCs
  <2>3. CASE rows[i].status # "RUNNING"
    <3>1. rows'[i] = rows[i]
      BY <2>1, <2>3 DEF Store!FailedFinally, Store!Retried
    <3>2. JobDriven(i)'
      BY <1>0, <2>2, <2>3, <3>1 DEF JobDriven
    <3> QED
      BY <2>1, <3>2, WorkDrives
  <2>4. CASE rows[i].status = "RUNNING" /\ IsLastAttempt(s)
    <3>1. rows'[i].status = "FAILED" /\ rows'[i].attempts = rows[i].attempts
      BY <1>0, <2>1, <2>4 DEF Store!FailedFinally, Store!Rows
    <3>2. rows[i].attempts = slots[s].attempt
      BY <1>1, <2>4 DEF Runs
    <3>3. JobDriven(i)'
      BY <2>4, <3>1, <3>2 DEF JobDriven, IsLastAttempt
    <3> QED
      BY <2>1, <3>3, WorkDrives
  <2>5. CASE rows[i].status = "RUNNING" /\ ~IsLastAttempt(s)
    <3>1. rows'[i].status = "QUEUED" /\ rows'[i].attempts = rows[i].attempts
      BY <1>0, <2>1, <2>5 DEF Store!Retried, Store!Rows
    <3>2. rows[i].attempts = entries[i].made + 1 /\ entries[i].made + 1 < MaxAttempts
      BY <1>0, <1>1, <2>5 DEF Runs, IsLastAttempt
    <3>3. Claims(s, i)'
      BY <1>1, <1>2, <2>1, <3>1, <3>2 DEF Claims, Queue!HoldsLock
    <3>4. JobDriven(i)'
      BY <3>1, <3>3 DEF JobDriven
    <3> QED
      BY <2>1, <3>4, WorkDrives
  <2> QED
    BY <2>3, <2>4, <2>5
<1> QED
  BY <1>4, <1>5, <1>7, <1>8, <1>9, <1>10 DEF SlotRuns, Take

\* A settled entry waits again for a job that was requeued.
LEMMA SettleDrives ==
  ASSUME Base, NEW s \in Slots, NEW i \in Jobs, slots[s].job = i, Settle(s)
  PROVE  HealthyInv'
<1>0. /\ slots \in [Slots -> SlotRecord] /\ entries \in [Jobs -> Queue!Entries(Slots)]
      /\ entries[i] \in Queue!Entries(Slots)
      /\ rows' = rows /\ creating' = creating /\ slots[s].pc # "idle"
      /\ slots[s].pc \in {"ackCompleted", "ackFailed"}
      /\ JobDriven(i)
  BY DEF Base, ReqInv, TypeInv, Settle, HealthyInv
<1>1. /\ slots'[s].pc = "idle"
      /\ \A t \in Slots : t # s => slots'[t] = slots[t]
  BY <1>0 DEF Settle
<1>2. /\ entries'[i] = IF slots[s].pc = "ackCompleted"
                       THEN Queue!Acknowledged(entries[i], s)
                       ELSE Queue!Rejected(entries[i], s)
      /\ \A j \in Jobs : j # i => entries'[j] = entries[j]
  BY <1>0 DEF Settle, JobOf
<1>3. /\ Queue!HoldsLock(entries[i], s)
      /\ entries[i].made \in Nat
      /\ rows[i].status = "QUEUED" => Claims(s, i)
      /\ rows[i].status # "RUNNING"
  BY <1>0, HolderActs DEF Queue!HoldsLock, Runs, Executing, ExecutingPCs
<1>4. /\ entries'[i].state # "active"
      /\ /\ slots[s].pc = "ackFailed"
         /\ entries[i].made + 1 < MaxAttempts
         => entries'[i].state = "delayed" /\ entries'[i].made = entries[i].made + 1
  BY <1>0, <1>2, <1>3 DEF Queue!Acknowledged, Queue!Rejected, Queue!Entries
<1>5. ASSUME NEW t \in Slots, slots[t].pc # "idle", t # s
      PROVE  slots[t].job # i /\ slots[t].job \in Jobs
  BY <1>0, <1>5, HolderActs DEF SlotRecord
<1>6. \A t \in Slots : Held(t)'
  BY <1>1, <1>2, <1>5 DEF Base, HealthyInv, Held
<1>7. ASSUME NEW d \in Creates, creating[d].pc = "enqueue"
      PROVE  creating[d].job # i /\ creating[d].job \in Jobs
  BY <1>0, <1>7, HolderActs DEF Base, ReqInv, TypeInv, CreateRecord
<1>8. \A d \in Creates : Fresh(d)'
  BY <1>0, <1>2, <1>7 DEF Base, HealthyInv, Fresh
<1>9. \A j \in Jobs : Owned(j)'
  BY <1>2, <1>4 DEF Base, HealthyInv, Owned
<1>10. JobDriven(i)'
  <2>1. rows[i].status = "QUEUED" => Waits(i)'
    BY <1>0, <1>3, <1>4 DEF Claims, Waits
  <2> QED
    BY <1>0, <1>3, <2>1 DEF JobDriven
<1>11. ASSUME NEW j \in Jobs, j # i PROVE JobDriven(j)'
  BY <1>0, <1>1, <1>2, <1>11, OthersStayDriven DEF Base, HealthyInv
<1> QED
  BY <1>6, <1>8, <1>9, <1>10, <1>11 DEF Base, HealthyInv, NoFaults

\* The end of a back-off.
LEMMA PromoteDrives ==
  ASSUME Base, NEW i \in Jobs, Promote(i)
  PROVE  HealthyInv'
<1>0. /\ entries \in [Jobs -> Queue!Entries(Slots)] /\ entries[i].state = "delayed"
      /\ rows' = rows /\ creating' = creating /\ slots' = slots
      /\ JobDriven(i)
  BY DEF Base, ReqInv, TypeInv, Promote, HealthyInv
<1>1. /\ entries'[i].state = "wait" /\ entries'[i].made = entries[i].made
      /\ \A j \in Jobs : j # i => entries'[j] = entries[j]
  BY <1>0 DEF Promote, Queue!Promoted, Queue!Entries
<1>2. ASSUME NEW t \in Slots, slots[t].pc # "idle"
      PROVE  slots[t].job # i /\ slots[t].job \in Jobs
  BY <1>0, <1>2 DEF Base, HealthyInv, Held, Queue!HoldsLock, ReqInv, TypeInv, SlotRecord
<1>3. \A t \in Slots : Held(t)'
  BY <1>0, <1>1, <1>2 DEF Base, HealthyInv, Held
<1>4. ASSUME NEW d \in Creates, creating[d].pc = "enqueue"
      PROVE  creating[d].job # i /\ creating[d].job \in Jobs
  BY <1>0, <1>4 DEF Base, HealthyInv, Fresh, ReqInv, TypeInv, CreateRecord
<1>5. \A d \in Creates : Fresh(d)'
  BY <1>0, <1>1, <1>4 DEF Base, HealthyInv, Fresh
<1>6. \A j \in Jobs : Owned(j)'
  BY <1>1 DEF Base, HealthyInv, Owned
<1>7. JobDriven(i)'
  <2>1. ~Submitted(i) /\ \A t \in Slots : ~Claims(t, i) /\ ~Runs(t, i)
    BY <1>0, <1>4 DEF Submitted, Claims, Runs, Queue!HoldsLock
  <2>2. Waits(i) => Waits(i)'
    BY <1>0, <1>1 DEF Waits
  <2> QED
    BY <1>0, <2>1, <2>2 DEF JobDriven
<1>8. ASSUME NEW j \in Jobs, j # i PROVE JobDriven(j)'
  BY <1>0, <1>1, <1>8, OthersStayDriven DEF Base, HealthyInv
<1> QED
  BY <1>3, <1>5, <1>6, <1>7, <1>8 DEF Base, HealthyInv, NoFaults

-----------------------------------------------------------------------------
(* The theorems                                                            *)

\* Every step of a system without faults keeps its jobs driven.
LEMMA HealthyStep == ReqInv /\ HealthyInv /\ [Next]_vars => HealthyInv'
<1> SUFFICES ASSUME Base, [Next]_vars PROVE HealthyInv'
  BY SystemAssumption DEF Base
<1>1. CASE Quiescent \/ UNCHANGED vars
  <2>1. UNCHANGED vars
    BY <1>1 DEF Quiescent
  <2> QED
    BY <2>1 DEF vars, Base, HealthyInv, NoFaults, Held, Fresh, Owned, JobDriven, Submitted,
       Waits, Claims, Runs, Executing
<1>2. ASSUME NEW s \in Slots, SlotRuns(s) PROVE HealthyInv'
  <2>1. CASE slots[s].pc # "idle"
    <3>1. slots[s].job \in Jobs
      BY <2>1 DEF Base, ReqInv, TypeInv, SlotRecord
    <3> QED
      BY <1>2, <2>1, <3>1, SettleDrives, ExecutionDrives
  <2>2. CASE slots[s].pc = "idle"
    BY <1>2, <2>2, TakeDrives DEF SlotRuns, ClaimCancel, ClaimQueued, ClaimRead, Extract,
       Complete, Handle, Settle
  <2> QED
    BY <2>1, <2>2
<1> QED
  BY <1>1, <1>2, CreateDrives, CancelDrives, PromoteDrives, StepsWithoutFaults
     DEF Next, Timers

\* Nothing is submitted at the start.
LEMMA HealthyInit == Init /\ NoFaults => HealthyInv
<1> SUFFICES ASSUME Init, NoFaults PROVE HealthyInv
  OBVIOUS
<1>1. \A j \in Jobs : entries[j].state = "absent" /\ rows[j].status = "ABSENT"
  BY DEF Init, Queue!NoEntry, Store!AbsentRow
<1>2. /\ \A s \in Slots : slots[s].pc = "idle"
      /\ \A c \in Creates : creating[c].pc = "idle"
  BY DEF Init
<1> QED
  BY <1>1, <1>2 DEF HealthyInv, Held, Fresh, Owned, JobDriven

\* The invariant holds in every reachable state of a system without faults.
LEMMA HealthyInvariant == Spec /\ NoFaults => [](ReqInv /\ HealthyInv)
BY HealthyInit, HealthyStep, ReqInvariant, PTL DEF Spec

\* Without faults a live row always has somebody who will act on it: the request
\* about to enqueue it, its waiting entry, or the slot that holds the lock.
THEOREM JobsAreDriven == Spec /\ NoFaults => []Driven
<1>1. ASSUME HealthyInv PROVE Driven
  <2>1. ASSUME NEW j \in Jobs, rows[j].status = "QUEUED"
        PROVE  \/ \E c \in Creates : creating[c].job = j /\ creating[c].pc = "enqueue"
               \/ entries[j].state \in {"wait", "delayed"}
               \/ \E s \in Slots :
                    /\ slots[s].job = j /\ Queue!HoldsLock(entries[j], s)
                    /\ \/ slots[s].pc \in {"claimCancel", "claimQueued"}
                       \/ slots[s].pc = "ackFailed" /\ entries[j].made + 1 < MaxAttempts
    BY <1>1, <2>1 DEF HealthyInv, JobDriven, Submitted, Waits, Claims
  <2>2. ASSUME NEW j \in Jobs, rows[j].status = "RUNNING"
        PROVE  \E s \in Slots : Executing(s, j) /\ Queue!HoldsLock(entries[j], s)
    BY <1>1, <2>2 DEF HealthyInv, JobDriven, Runs
  <2> QED
    BY <2>1, <2>2 DEF Driven
<1> QED
  BY <1>1, HealthyInvariant, PTL

\* Without faults the worker gives up only after MaxAttempts executions.
THEOREM GivesUpInTime == Spec /\ NoFaults => []GivesUpAtLimit
<1>1. HealthyInv => GivesUpAtLimit
  BY DEF HealthyInv, JobDriven, GivesUpAtLimit
<1> QED
  BY <1>1, HealthyInvariant, PTL
=============================================================================
