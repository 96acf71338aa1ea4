--------------------------- MODULE Requests_proofs ---------------------------
(***************************************************************************)
(* What the API promises its clients, proved about ExtractionSystem for    *)
(* every value of the constants: a cancellation is never undone, requests  *)
(* with one key share one job, and a refused job does not wait for ever.   *)
(***************************************************************************)
EXTENDS ExtractionSystem_proofs

-----------------------------------------------------------------------------
(* A cancellation is never undone                                          *)

\* A row that exists goes on existing, and one that is not live never lives
\* again.
LEMMA RowsStayDead ==
  ASSUME TypeInv, [Next]_vars, NEW j \in Jobs, rows[j].status # "ABSENT"
  PROVE  /\ rows'[j].status # "ABSENT"
         /\ rows'[j].status \in Store!Live => rows[j].status \in Store!Live
<1>1. rows[j] \in Store!Rows(Keys) /\ rows'[j] \in Successors(rows[j])
  BY RowSteps DEF TypeInv, Inserted
<1>2. rows[j].status \in Store!RowStatuses
  BY <1>1 DEF Store!Rows
<1>3. CASE rows[j].status \in Store!Terminal
  BY <1>1, <1>3, StatementGuards
<1>4. CASE rows[j].status = "CANCEL_REQUESTED"
  BY <1>1, <1>4, StatementGuards DEF Store!Live
<1>5. CASE rows[j].status \in Store!Live
  BY <1>1, <1>5, StatementGuards
<1> QED
  BY <1>2, <1>3, <1>4, <1>5 DEF Store!RowStatuses, Store!Statuses

\* The update of the cancel request has run.
Updated == {"read", "getJob", "getState", "remove", "accepted", "failed"}

\* CancelEffective is inductive once it also says that a cancel request has
\* found a row.
CancelSound(r) ==
  /\ r.pc # "idle" => rows[r.job].status # "ABSENT"
  /\ r.pc \in Updated => rows[r.job].status \notin Store!Live
  /\ r.seen \notin Store!Live
CancelInv == \A c \in Cancels : CancelSound(cancelling[c])

\* A cancel request that does nothing itself stays sound whatever the others do.
LEMMA CancelWaits ==
  ASSUME TypeInv, CancelInv, [Next]_vars, NEW c \in Cancels,
         cancelling'[c] = cancelling[c]
  PROVE  CancelSound(cancelling[c])'
<1>1. CancelSound(cancelling[c])
  BY DEF CancelInv
<1>2. CASE cancelling[c].pc = "idle"
  BY <1>1, <1>2 DEF CancelSound, Updated
<1>3. CASE cancelling[c].pc # "idle"
  <2>1. cancelling[c].job \in Jobs
    BY <1>3 DEF TypeInv, CancelRecord
  <2> QED
    BY <1>1, <1>3, <2>1, RowsStayDead DEF CancelSound
<1> QED
  BY <1>2, <1>3

\* The update makes a row that exists not live.
LEMMA UpdateCancels ==
  ASSUME NEW row \in Store!Rows(Keys), row.status # "ABSENT"
  PROVE  /\ Store!CancelRequested(row).status # "ABSENT"
         /\ Store!CancelRequested(row).status \notin Store!Live
BY DEF Store!Rows, Store!Live, Store!CancelRequested, Store!UpdateMany

\* Each step of a cancel request keeps it sound.
LEMMA CancelActs ==
  ASSUME TypeInv, CancelInv, NEW c \in Cancels, CancelNext(c)
  PROVE  CancelSound(cancelling[c])'
<1> USE DEF CancelSound, Updated
<1>0. /\ CancelSound(cancelling[c])
      /\ cancelling \in [Cancels -> CancelRecord]
      /\ cancelling[c] \in CancelRecord
      /\ cancelling[c].pc # "idle" => cancelling[c].job \in Jobs
  BY DEF CancelInv, TypeInv, CancelRecord
<1>s. ASSUME NEW pc, CancelStep(c, pc)
      PROVE  /\ cancelling'[c].pc = pc
             /\ cancelling'[c].job = cancelling[c].job
             /\ cancelling'[c].seen = cancelling[c].seen
  BY <1>0, <1>s DEF CancelStep, CancelRecord
<1>1. ASSUME NEW j \in Jobs, CancelFind(c, j) PROVE CancelSound(cancelling[c])'
  <2>1. /\ cancelling'[c].job = j
        /\ cancelling'[c].pc \in {"update", "conflict"}
        /\ cancelling'[c].seen = cancelling[c].seen
    BY <1>0, <1>1 DEF CancelFind, CancelRecord
  <2> QED
    BY <1>0, <1>1, <2>1 DEF CancelFind
<1>2. CASE CancelUpdate(c)
  <2>1. cancelling[c].job \in Jobs /\ rows[cancelling[c].job].status # "ABSENT"
    BY <1>0, <1>2 DEF CancelUpdate
  <2>2. rows[cancelling[c].job] \in Store!Rows(Keys)
    BY <2>1 DEF TypeInv
  <2>3. rows'[cancelling[c].job] = Store!CancelRequested(rows[cancelling[c].job])
    BY <1>2, <2>1 DEF CancelUpdate, TypeInv
  <2>4. CancelStep(c, "read")
    BY <1>2 DEF CancelUpdate
  <2> QED
    BY <1>0, <1>s, <2>1, <2>2, <2>3, <2>4, UpdateCancels
<1>3. CASE CancelRead(c)
  <2>1. /\ cancelling'[c].pc = "getJob"
        /\ cancelling'[c].job = cancelling[c].job
        /\ cancelling'[c].seen = rows[cancelling[c].job].status
    BY <1>0, <1>3 DEF CancelRead, CancelRecord
  <2> QED
    BY <1>0, <1>3, <2>1 DEF CancelRead
<1>4. CASE CancelGetJob(c) \/ CancelGetState(c) \/ CancelRemove(c)
  <2>1. cancelling[c].pc \in {"getJob", "getState", "remove"} /\ rows' = rows
    BY <1>4 DEF CancelGetJob, CancelGetState, CancelRemove
  <2>2. \E pc : CancelStep(c, pc)
    BY <1>4 DEF CancelGetJob, CancelGetState, CancelRemove
  <2> QED
    BY <1>0, <1>s, <2>1, <2>2
<1>5. CASE CancelDies(c)
  <2>1. CancelStep(c, "gone") /\ rows' = rows /\ cancelling[c].pc # "idle"
    BY <1>5 DEF CancelDies
  <2> QED
    BY <1>0, <1>s, <2>1
<1> QED
  BY <1>1, <1>2, <1>3, <1>4, <1>5 DEF CancelNext

\* A cancel request moves by its own steps only.
LEMMA OtherCancelsStay ==
  ASSUME TypeInv, [Next]_vars, NEW c \in Cancels, ~CancelNext(c)
  PROVE  cancelling'[c] = cancelling[c]
<1>1. ASSUME NEW d \in Cancels, CancelNext(d), d # c
      PROVE  cancelling'[c] = cancelling[c]
  BY <1>1 DEF TypeInv, CancelNext, CancelFind, CancelUpdate, CancelRead, CancelGetJob,
     CancelGetState, CancelRemove, CancelDies, CancelStep
<1>2. ASSUME NEW d \in Creates, CreateNext(d) PROVE cancelling' = cancelling
  BY <1>2 DEF CreateNext, CreateLookup, CreateInsert, CreateReread, CreateEnqueue,
     CreateCompensate, CreateDies
<1>3. ASSUME NEW s \in Slots, SlotRuns(s) \/ SlotFails(s) PROVE cancelling' = cancelling
  BY <1>3 DEF SlotRuns, SlotFails, Take, ClaimCancel, ClaimQueued, ClaimRead,
     ClaimFails, Extract, Complete, CompleteFails, Handle, Settle, SlotDies, LoseLock
<1>4. ASSUME NEW j \in Jobs, Timers(j) PROVE cancelling' = cancelling
  BY <1>4 DEF Timers, MoveStalled, Promote
<1>5. (Quiescent \/ UNCHANGED vars) => cancelling' = cancelling
  BY DEF Quiescent, vars
<1> QED
  BY <1>1, <1>2, <1>3, <1>4, <1>5 DEF Next

\* No request starts with an answer.
LEMMA CancelInit == Init => CancelInv
<1> SUFFICES ASSUME Init, NEW c \in Cancels PROVE CancelSound(cancelling[c])
  BY DEF CancelInv
<1>1. cancelling[c].pc = "idle" /\ cancelling[c].seen = "ABSENT"
  BY DEF Init
<1> QED
  BY <1>1 DEF CancelSound, Updated, Store!Live

\* The cancellation invariant is inductive.
LEMMA CancelStepInv == TypeInv /\ CancelInv /\ [Next]_vars => CancelInv'
<1> SUFFICES ASSUME TypeInv, CancelInv, [Next]_vars, NEW c \in Cancels
             PROVE  CancelSound(cancelling[c])'
  BY DEF CancelInv
<1>1. CASE CancelNext(c)
  BY <1>1, CancelActs
<1>2. CASE ~CancelNext(c)
  BY <1>2, OtherCancelsStay, CancelWaits
<1> QED
  BY <1>1, <1>2

\* The cancellation invariant holds in every reachable state.
LEMMA CancelInvariant == Spec => [](TypeInv /\ CancelInv)
<1>1. TypeInv /\ CancelInv /\ [Next]_vars => (TypeInv /\ CancelInv)'
  BY TypeStep, CancelStepInv
<1> QED
  BY <1>1, TypeInit, CancelInit, PTL DEF Spec

\* After the update of a cancel request the job is never live again, and the
\* answer does not show it live.
THEOREM CancellationHolds == Spec => []CancelEffective
<1>1. CancelInv => CancelEffective
  BY DEF CancelInv, CancelSound, CancelEffective, Updated
<1> QED
  BY <1>1, CancelInvariant, PTL

-----------------------------------------------------------------------------
(* Requests with one key share one job                                     *)

\* No statement changes the key of a row.
LEMMA KeysStay ==
  ASSUME NEW row \in Store!Rows(Keys), NEW new \in Successors(row)
  PROVE  new.key = row.key
BY DEF Successors, Store!Rows, Store!UpdateMany, Store!CancelRequested,
   Store!SubmissionFailed, Store!ClaimedCancellation, Store!ClaimFrom, Store!Claimed,
   Store!Completed, Store!Retried, Store!FailedFinally

\* A request knows a job from its insert or its read on; the row of that job has
\* its key.
KeyOf(r) == /\ r.pc \in {"idle", "insert", "reread"} => r.job = None
            /\ r.created => r.job # None
            /\ r.job # None => rows[r.job].key = r.key /\ r.key # None

\* IdempotentCreate is inductive together with what a request knows about its
\* row: ids not in use have no key, keys are unique, and a row has one creator.
KeyInv ==
  /\ \A j \in Jobs : rows[j].status = "ABSENT" => rows[j].key = None
  /\ \A i, j \in Jobs : rows[i].key = rows[j].key /\ rows[i].key # None => i = j
  /\ \A c \in Creates : KeyOf(creating[c])
  /\ \A c, d \in Creates :
       creating[c].created /\ creating[d].created /\ creating[c].job = creating[d].job
         => c = d

\* The request got the constraint's leave and inserted the row of job j.
Inserts(c, j) == CreateInsert(c, j) /\ KeyIsFree(creating[c].key)

\* A step without an insert changes no key and leaves the ids not in use alone.
LEMMA NoInsertKeepsKeys ==
  ASSUME TypeInv, [Next]_vars, \A c \in Creates, i \in Jobs : ~Inserts(c, i),
         NEW j \in Jobs
  PROVE  /\ rows'[j].key = rows[j].key
         /\ rows'[j].status = "ABSENT" <=> rows[j].status = "ABSENT"
<1>0. rows[j] \in Store!Rows(Keys) /\ rows[j] \in Successors(rows[j])
  BY DEF TypeInv, Successors
<1>1. rows'[j] \in Successors(rows[j])
  <2>1. ASSUME NEW c \in Creates, CreateNext(c)
        PROVE  rows' = rows \/ CreateCompensate(c)
    BY <2>1 DEF CreateNext, CreateLookup, CreateInsert, CreateReread, CreateEnqueue,
       CreateDies, Inserts
  <2>2. ASSUME NEW c \in Creates, CreateCompensate(c)
        PROVE  rows'[j] \in Successors(rows[j])
    BY <2>2 DEF CreateCompensate, TypeInv, Successors
  <2>3. ASSUME NEW c \in Cancels, CancelNext(c)
        PROVE  rows'[j] \in Successors(rows[j])
    <3>1. rows' = rows \/ CancelUpdate(c)
      BY <2>3 DEF CancelNext, CancelFind, CancelRead, CancelGetJob, CancelGetState,
         CancelRemove, CancelDies
    <3>2. CancelUpdate(c) => rows'[j] \in Successors(rows[j])
      BY DEF CancelUpdate, TypeInv, Successors
    <3> QED
      BY <1>0, <3>1, <3>2
  <2>4. ASSUME NEW i \in Jobs, Timers(i) PROVE rows' = rows
    BY <2>4 DEF Timers, MoveStalled, Promote
  <2>5. (Quiescent \/ UNCHANGED vars) => rows' = rows
    BY DEF Quiescent, vars
  <2> QED
    BY <1>0, <2>1, <2>2, <2>3, <2>4, <2>5, SlotRowSteps DEF Next
<1> QED
  BY <1>0, <1>1, KeysStay, StatementGuards

\* What a step without an insert does to a create request.
LEMMA RequestMoves ==
  ASSUME TypeInv, KeyInv, [Next]_vars,
         \A d \in Creates, i \in Jobs : ~Inserts(d, i), NEW c \in Creates
  PROVE  \/ /\ creating'[c].job = creating[c].job
            /\ creating'[c].created = creating[c].created
            /\ creating'[c].key = creating[c].key \/ creating'[c].job = None
            /\ creating'[c].pc \in {"idle", "insert", "reread"}
                 => creating'[c].job = None
         \/ /\ creating'[c].job \in RowOf(creating'[c].key)
            /\ ~creating'[c].created /\ creating'[c].key \in Keys
            /\ creating'[c].pc = "accepted"
<1> DEFINE Moves ==
      \/ /\ creating'[c].job = creating[c].job
         /\ creating'[c].created = creating[c].created
         /\ creating'[c].key = creating[c].key \/ creating'[c].job = None
         /\ creating'[c].pc \in {"idle", "insert", "reread"}
              => creating'[c].job = None
      \/ /\ creating'[c].job \in RowOf(creating'[c].key)
         /\ ~creating'[c].created /\ creating'[c].key \in Keys
         /\ creating'[c].pc = "accepted"
<1>0. /\ creating \in [Creates -> CreateRecord]
      /\ creating[c] \in CreateRecord
      /\ KeyOf(creating[c])
  BY DEF TypeInv, KeyInv
<1>1. CASE creating'[c] = creating[c]
  BY <1>0, <1>1 DEF KeyOf
<1>a. ASSUME NEW pc, Answer(c, pc)
      PROVE  /\ creating'[c].pc = pc
             /\ creating'[c].job = creating[c].job
             /\ creating'[c].key = creating[c].key
             /\ creating'[c].created = creating[c].created
  BY <1>0, <1>a DEF Answer, CreateRecord
<1>2. ASSUME NEW k \in Keys, CreateLookup(c, k) PROVE Moves
  <2>1. ASSUME NEW j \in RowOf(k),
               creating' = [creating EXCEPT ![c] = [pc |-> "accepted", key |-> k,
                                                    job |-> j, created |-> FALSE]]
        PROVE  Moves
    BY <1>0, <2>1
  <2>2. CASE creating' = [creating EXCEPT ![c] = [pc |-> "insert", key |-> k,
                                                  job |-> None, created |-> FALSE]]
    <3>1. creating[c].pc = "idle"
      BY <1>2 DEF CreateLookup
    <3>2. creating[c].job = None /\ creating[c].created = FALSE
      BY <1>0, <3>1 DEF KeyOf, CreateRecord
    <3> QED
      BY <1>0, <2>2, <3>2
  <2> QED
    BY <1>2, <2>1, <2>2 DEF CreateLookup
<1>3. ASSUME NEW j \in Jobs, CreateInsert(c, j) PROVE Moves
  <2>1. Answer(c, "reread") /\ creating[c].pc = "insert"
    BY <1>3 DEF CreateInsert, Inserts
  <2> QED
    BY <1>0, <1>a, <2>1 DEF KeyOf
<1>4. CASE CreateReread(c)
  <2>1. PICK j \in RowOf(creating[c].key) :
          creating' = [creating EXCEPT ![c].pc = "accepted", ![c].job = j]
    BY <1>4 DEF CreateReread
  <2>2. /\ creating'[c].pc = "accepted" /\ creating'[c].job = j
        /\ creating'[c].key = creating[c].key
        /\ creating'[c].created = creating[c].created
    BY <1>0, <2>1 DEF CreateRecord
  <2>3. creating[c].pc = "reread"
    BY <1>4 DEF CreateReread
  <2>4. creating[c].created = FALSE /\ creating[c].key \in Keys
    BY <1>0, <2>3 DEF KeyOf, CreateRecord
  <2> QED
    BY <2>1, <2>2, <2>4
<1>5. CASE CreateEnqueue(c) \/ CreateCompensate(c) \/ CreateDies(c)
  <2>1. \E pc \in {"accepted", "compensate", "unavailable", "gone"} : Answer(c, pc)
    BY <1>5 DEF CreateEnqueue, CreateCompensate, CreateDies
  <2> QED
    BY <1>a, <2>1
<1>6. ASSUME NEW d \in Creates, CreateNext(d), d # c PROVE creating'[c] = creating[c]
  BY <1>0, <1>6 DEF CreateNext, CreateLookup, CreateInsert, CreateReread, CreateEnqueue,
     CreateCompensate, CreateDies, Answer
<1>7. ASSUME NEW d \in Cancels, CancelNext(d) PROVE creating' = creating
  BY <1>7 DEF CancelNext, CancelFind, CancelUpdate, CancelRead, CancelGetJob,
     CancelGetState, CancelRemove, CancelDies
<1>8. ASSUME NEW s \in Slots, SlotRuns(s) \/ SlotFails(s) PROVE creating' = creating
  BY <1>8 DEF SlotRuns, SlotFails, Take, ClaimCancel, ClaimQueued, ClaimRead,
     ClaimFails, Extract, Complete, CompleteFails, Handle, Settle, SlotDies, LoseLock
<1>9. ASSUME NEW j \in Jobs, Timers(j) PROVE creating' = creating
  BY <1>9 DEF Timers, MoveStalled, Promote
<1>10. (Quiescent \/ UNCHANGED vars) => creating' = creating
  BY DEF Quiescent, vars
<1>11. CreateNext(c) => Moves
  BY <1>2, <1>3, <1>4, <1>5 DEF CreateNext
<1> QED
  BY <1>1, <1>6, <1>7, <1>8, <1>9, <1>10, <1>11 DEF Next

\* A step without an insert keeps the keys in order.
LEMMA NoInsertKeepsInv ==
  ASSUME SystemAssumption, TypeInv, KeyInv, [Next]_vars,
         \A d \in Creates, i \in Jobs : ~Inserts(d, i)
  PROVE  KeyInv'
<1>0. \A c \in Creates : KeyOf(creating[c]) /\ creating[c] \in CreateRecord
  BY DEF KeyInv, TypeInv
<1>1. \A j \in Jobs : rows'[j].status = "ABSENT" => rows'[j].key = None
  BY NoInsertKeepsKeys DEF KeyInv
<1>2. \A i, j \in Jobs : rows'[i].key = rows'[j].key /\ rows'[i].key # None => i = j
  BY NoInsertKeepsKeys DEF KeyInv
<1>3. ASSUME NEW c \in Creates PROVE KeyOf(creating[c])'
  <2>1. CASE /\ creating'[c].job \in RowOf(creating'[c].key)
             /\ ~creating'[c].created /\ creating'[c].key \in Keys
             /\ creating'[c].pc = "accepted"
    BY <2>1, NoInsertKeepsKeys DEF KeyOf, RowOf, SystemAssumption
  <2>2. CASE /\ creating'[c].job = creating[c].job
             /\ creating'[c].created = creating[c].created
             /\ creating'[c].key = creating[c].key \/ creating'[c].job = None
             /\ creating'[c].pc \in {"idle", "insert", "reread"}
                  => creating'[c].job = None
    <3>1. creating[c].job # None => creating[c].job \in Jobs
      BY <1>0 DEF CreateRecord
    <3> QED
      BY <1>0, <2>2, <3>1, NoInsertKeepsKeys DEF KeyOf
  <2> QED
    BY <2>1, <2>2, RequestMoves
<1>4. ASSUME NEW c \in Creates, creating'[c].created
      PROVE  creating[c].created /\ creating'[c].job = creating[c].job
  BY <1>4, RequestMoves
<1>5. \A c, d \in Creates :
        creating'[c].created /\ creating'[d].created /\ creating'[c].job = creating'[d].job
          => c = d
  BY <1>4 DEF KeyInv
<1> QED
  BY <1>1, <1>2, <1>3, <1>5 DEF KeyInv

\* An insert keeps the keys in order: the constraint refuses a key in use.
LEMMA InsertKeepsInv ==
  ASSUME SystemAssumption, TypeInv, KeyInv, NEW c \in Creates, NEW j \in Jobs,
         Inserts(c, j)
  PROVE  KeyInv'
<1>0. /\ creating \in [Creates -> CreateRecord] /\ rows \in [Jobs -> Store!Rows(Keys)]
      /\ creating[c].pc = "insert" /\ rows[j].status = "ABSENT"
      /\ \A i \in Jobs : rows[i].key # creating[c].key
  BY DEF TypeInv, Inserts, CreateInsert, KeyIsFree, RowOf
<1>1. creating[c].key \in Keys /\ creating[c].key # None
  BY <1>0 DEF CreateRecord, SystemAssumption
<1>2. /\ rows'[j].key = creating[c].key /\ rows'[j].status = "QUEUED"
      /\ \A i \in Jobs : i # j => rows'[i] = rows[i]
  <2>1. rows' = [rows EXCEPT ![j] = Store!NewRow(creating[c].key)]
    BY DEF Inserts, CreateInsert
  <2>2. \A k : Store!NewRow(k).key = k /\ Store!NewRow(k).status = "QUEUED"
    BY DEF Store!NewRow, Store!AbsentRow
  <2> QED
    BY <1>0, <2>1, <2>2
<1>3. /\ creating'[c].pc = "enqueue" /\ creating'[c].job = j /\ creating'[c].created
      /\ creating'[c].key = creating[c].key
      /\ \A d \in Creates : d # c => creating'[d] = creating[d]
  BY <1>0 DEF Inserts, CreateInsert, CreateRecord
<1>4. \A i \in Jobs : rows'[i].status = "ABSENT" => rows'[i].key = None
  BY <1>2 DEF KeyInv
<1>5. \A i, k \in Jobs : rows'[i].key = rows'[k].key /\ rows'[i].key # None => i = k
  BY <1>0, <1>2 DEF KeyInv
<1>6. \A d \in Creates : creating[d].job # j
  <2>1. \A d \in Creates : KeyOf(creating[d])
    BY DEF KeyInv
  <2>2. rows[j].key = None /\ j # None
    BY <1>0 DEF KeyInv, SystemAssumption
  <2> QED
    BY <2>1, <2>2 DEF KeyOf
<1>7. \A d \in Creates : KeyOf(creating[d])'
  <2>1. ASSUME NEW d \in Creates, d # c PROVE KeyOf(creating[d])'
    <3>1. KeyOf(creating[d]) /\ creating[d] \in CreateRecord
      BY <1>0 DEF KeyInv
    <3>2. creating[d].job # None => creating[d].job \in Jobs
      BY <3>1 DEF CreateRecord
    <3> QED
      BY <1>2, <1>3, <1>6, <2>1, <3>1, <3>2 DEF KeyOf
  <2>2. KeyOf(creating[c])'
    BY <1>1, <1>2, <1>3 DEF KeyOf, SystemAssumption
  <2> QED
    BY <2>1, <2>2
<1>8. \A d, e \in Creates :
        creating'[d].created /\ creating'[e].created /\ creating'[d].job = creating'[e].job
          => d = e
  BY <1>3, <1>6 DEF KeyInv
<1> QED
  BY <1>4, <1>5, <1>7, <1>8 DEF KeyInv

\* Nothing has a key or a creator at the start.
LEMMA KeyInit == Init => KeyInv
<1> SUFFICES ASSUME Init PROVE KeyInv
  OBVIOUS
<1>1. \A j \in Jobs : rows[j].key = None
  BY DEF Init, Store!AbsentRow
<1>2. \A c \in Creates : creating[c].job = None /\ creating[c].created = FALSE
  BY DEF Init
<1> QED
  BY <1>1, <1>2 DEF KeyInv, KeyOf

\* The key invariant is inductive.
LEMMA KeyStep == TypeInv /\ KeyInv /\ [Next]_vars => KeyInv'
BY SystemAssumption, InsertKeepsInv, NoInsertKeepsInv

\* The key invariant holds in every reachable state.
LEMMA KeyInvariant == Spec => [](TypeInv /\ KeyInv)
<1>1. TypeInv /\ KeyInv /\ [Next]_vars => (TypeInv /\ KeyInv)'
  BY TypeStep, KeyStep
<1> QED
  BY <1>1, TypeInit, KeyInit, PTL DEF Spec

\* Requests with one key get one job, which one of them at most created.
THEOREM CreationIsIdempotent == Spec => []IdempotentCreate
<1>1. ASSUME TypeInv, KeyInv PROVE IdempotentCreate
  <2>1. ASSUME NEW c \in Creates, NEW d \in Creates,
               creating[c].key = creating[d].key,
               None \notin {creating[c].job, creating[d].job}
        PROVE  /\ creating[c].job = creating[d].job
               /\ creating[c].created /\ creating[d].created => c = d
    <3>1. KeyOf(creating[c]) /\ KeyOf(creating[d])
      BY <1>1 DEF KeyInv
    <3>2. creating[c].job \in Jobs /\ creating[d].job \in Jobs
      BY <1>1, <2>1 DEF TypeInv, CreateRecord
    <3>3. creating[c].job = creating[d].job
      BY <1>1, <2>1, <3>1, <3>2 DEF KeyInv, KeyOf
    <3> QED
      BY <1>1, <3>3 DEF KeyInv
  <2> QED
    BY <1>1, <2>1 DEF IdempotentCreate, KeyInv
<1> QED
  BY <1>1, KeyInvariant, PTL

-----------------------------------------------------------------------------
(* A refused job does not wait for ever                                    *)

\* A job with an entry, or with a slot at work on it, has a row; while the row
\* is live, the entry of a job that runs or that a slot works on is not gone.
EntryInv ==
  /\ \A j \in Jobs : entries[j].state # "absent" => rows[j].status # "ABSENT"
  /\ \A j \in Jobs : rows[j].status = "RUNNING" => entries[j].state # "absent"
  /\ \A s \in Slots : slots[s].pc # "idle" =>
       /\ rows[slots[s].job].status # "ABSENT"
       /\ rows[slots[s].job].status \in Store!Live
            => entries[slots[s].job].state # "absent"

ReqInv == TypeInv /\ CancelInv /\ KeyInv /\ EntryInv /\ RefusedNotStranded

\* A create request that knows a job knows a row.
LEMMA KnownJobsExist ==
  ASSUME SystemAssumption, TypeInv, KeyInv, NEW c \in Creates,
         creating[c].job \in Jobs
  PROVE  rows[creating[c].job].status # "ABSENT"
BY DEF SystemAssumption, KeyInv, KeyOf

\* An entry is removed by a cancellation only, whose job is not live.
LEMMA EntriesStay ==
  ASSUME ReqInv, [Next]_vars, NEW j \in Jobs, entries[j].state # "absent"
  PROVE  \/ entries'[j].state # "absent"
         \/ rows' = rows /\ slots' = slots /\ creating' = creating
            /\ rows[j].status \notin Store!Live
<1> DEFINE Stays == entries'[j].state # "absent"
<1>0. entries \in [Jobs -> Queue!Entries(Slots)] /\ entries[j] \in Queue!Entries(Slots)
  BY DEF ReqInv, TypeInv
<1> USE DEF Queue!Entries
<1>1. \A s \in Slots : \A e \in SlotOps(entries[j], s) : e.state # "absent"
  BY <1>0 DEF SlotOps, Queue!Taken, Queue!Acknowledged, Queue!Rejected,
     Queue!LockExpired, Queue!HoldsLock
<1>2. /\ Queue!Added(entries[j]).state # "absent"
      /\ Queue!StalledMoved(entries[j]).state # "absent"
      /\ Queue!Promoted(entries[j]).state # "absent"
  BY <1>0 DEF Queue!Added, Queue!StalledMoved, Queue!Promoted
<1>3. CASE UNCHANGED entries
  BY <1>3
<1>4. ASSUME NEW c \in Creates, CreateNext(c) PROVE Stays
  <2>1. UNCHANGED entries \/ AddEntry(c)
    BY <1>4 DEF CreateNext, CreateLookup, CreateInsert, CreateReread, CreateEnqueue,
       CreateCompensate, CreateDies
  <2> QED
    BY <1>0, <1>2, <2>1 DEF AddEntry
<1>5. ASSUME NEW c \in Cancels, CancelRemove(c), ~Stays
      PROVE  /\ rows' = rows /\ slots' = slots /\ creating' = creating
             /\ rows[j].status \notin Store!Live
  <2>1. cancelling[c].job = j
    BY <1>0, <1>5 DEF CancelRemove
  <2>2. cancelling[c].pc = "remove"
    BY <1>5 DEF CancelRemove
  <2> QED
    BY <1>5, <2>1, <2>2 DEF CancelRemove, ReqInv, CancelInv, CancelSound, Updated
<1>6. ASSUME NEW c \in Cancels, CancelNext(c), ~CancelRemove(c) PROVE UNCHANGED entries
  BY <1>6 DEF CancelNext, CancelFind, CancelUpdate, CancelRead, CancelGetJob,
     CancelGetState, CancelDies
<1>7. ASSUME NEW s \in Slots, SlotRuns(s) \/ SlotFails(s) PROVE Stays
  <2>1. ASSUME NEW i, NEW e, i = j => e \in SlotOps(entries[j], s),
               entries' = [entries EXCEPT ![i] = e]
        PROVE  Stays
    BY <1>0, <1>1, <2>1
  <2>2. ASSUME NEW i \in Jobs, Take(s, i) PROVE Stays
    BY <2>1, <2>2 DEF Take, SlotOps
  <2>3. CASE Settle(s)
    BY <2>1, <2>3 DEF Settle, SlotOps
  <2>4. CASE SlotDies(s)
    BY <2>1, <2>4 DEF SlotDies, SlotOps
  <2>5. CASE LoseLock(s)
    BY <2>1, <2>5 DEF LoseLock, SlotOps
  <2>6. CASE UNCHANGED entries
    BY <2>6
  <2> QED
    BY <1>7, <2>2, <2>3, <2>4, <2>5, <2>6 DEF SlotRuns, SlotFails, ClaimCancel,
       ClaimQueued, ClaimRead, ClaimFails, Extract, Complete, CompleteFails, Handle
<1>8. ASSUME NEW i \in Jobs, Timers(i) PROVE Stays
  BY <1>0, <1>2, <1>8 DEF Timers, MoveStalled, Promote
<1>9. (Quiescent \/ UNCHANGED vars) => UNCHANGED entries
  BY DEF Quiescent, vars
<1> QED
  BY <1>3, <1>4, <1>5, <1>6, <1>7, <1>8, <1>9 DEF Next

\* A row becomes RUNNING only by the claim of a slot at work on it.
LEMMA OnlyClaimsRun ==
  ASSUME TypeInv, [Next]_vars, NEW j \in Jobs, rows'[j].status = "RUNNING",
         rows[j].status # "RUNNING"
  PROVE  /\ rows[j].status = "QUEUED"
         /\ \E s \in Slots : slots[s].pc # "idle" /\ slots[s].job = j
<1>0. rows[j] \in Store!Rows(Keys)
  BY DEF TypeInv
<1>1. \A k \in Keys : Store!NewRow(k).status # "RUNNING"
  BY DEF Store!NewRow, Store!AbsentRow
<1>2. \A new \in ApiSuccessors(rows[j]) : new.status # "RUNNING"
  BY <1>0 DEF ApiSuccessors, Store!Rows, Store!CancelRequested, Store!SubmissionFailed,
     Store!UpdateMany
<1>3. \A new \in Successors(rows[j]) : new.status = "RUNNING" => rows[j].status = "QUEUED"
  BY <1>0 DEF Successors, Store!Rows, Store!UpdateMany, Store!CancelRequested,
     Store!SubmissionFailed, Store!ClaimedCancellation, Store!ClaimFrom, Store!Claimed,
     Store!Completed, Store!Retried, Store!FailedFinally
<1>4. ASSUME \/ \E c \in Creates : CreateNext(c)
             \/ \E c \in Cancels : CancelNext(c)
      PROVE  FALSE
  BY <1>1, <1>2, <1>4, ApiRowSteps DEF Inserted
<1>5. ASSUME NEW s \in Slots, SlotRuns(s) \/ SlotFails(s)
      PROVE  rows[j].status = "QUEUED" /\ slots[s].pc # "idle" /\ slots[s].job = j
  <2>1. rows[j].status = "QUEUED" /\ slots[s].job = j
    BY <1>3, <1>5, SlotRowSteps DEF JobOf
  <2>2. rows' # rows
    OBVIOUS
  <2>3. slots[s].pc = "idle" => rows' = rows
    BY <1>5 DEF SlotRuns, SlotFails, Take, ClaimCancel, ClaimQueued, ClaimRead,
       ClaimFails, Extract, Complete, CompleteFails, Handle, Settle, SlotDies, LoseLock
  <2> QED
    BY <2>1, <2>2, <2>3
<1>6. ASSUME NEW i \in Jobs, Timers(i) PROVE rows' = rows
  BY <1>6 DEF Timers, MoveStalled, Promote
<1>7. (Quiescent \/ UNCHANGED vars) => rows' = rows
  BY DEF Quiescent, vars
<1> QED
  BY <1>4, <1>5, <1>6, <1>7 DEF Next

\* A slot at work keeps its job, or has just taken it from the queue.
LEMMA SlotsKeepJobs ==
  ASSUME TypeInv, [Next]_vars, NEW s \in Slots, slots'[s].pc # "idle"
  PROVE  \/ slots[s].pc # "idle" /\ slots'[s].job = slots[s].job
         \/ /\ slots'[s].job \in Jobs /\ rows' = rows
            /\ entries[slots'[s].job].state = "wait"
            /\ entries'[slots'[s].job].state = "active"
<1> DEFINE Goal == \/ slots[s].pc # "idle" /\ slots'[s].job = slots[s].job
                   \/ /\ slots'[s].job \in Jobs /\ rows' = rows
                      /\ entries[slots'[s].job].state = "wait"
                      /\ entries'[slots'[s].job].state = "active"
<1>0. slots \in [Slots -> SlotRecord] /\ slots[s] \in SlotRecord
  BY DEF TypeInv
<1>1. CASE slots'[s] = slots[s]
  BY <1>1
<1>2. ASSUME NEW j \in Jobs, Take(s, j) PROVE Goal
  <2>1. slots'[s].job = j /\ rows' = rows /\ entries[j].state = "wait"
    BY <1>0, <1>2 DEF Take
  <2>2. entries'[j].state = "active"
    BY <1>2 DEF Take, TypeInv, Queue!Taken, Queue!Entries
  <2> QED
    BY <2>1, <2>2
<1>3. ASSUME NEW pc, SlotStep(s, pc), slots[s].pc # "idle" PROVE Goal
  BY <1>0, <1>3 DEF SlotStep, SlotRecord
<1>4. slots' # [slots EXCEPT ![s] = [pc |-> "idle", job |-> None, attempt |-> 0]]
  BY <1>0
<1>5. CASE SlotRuns(s) \/ SlotFails(s)
  BY <1>1, <1>2, <1>3, <1>4, <1>5 DEF SlotRuns, SlotFails, ClaimCancel, ClaimQueued,
     ClaimRead, ClaimFails, Extract, Complete, CompleteFails, Handle, Settle, SlotDies,
     LoseLock
<1>6. ASSUME NEW t \in Slots, SlotRuns(t) \/ SlotFails(t), t # s
      PROVE  slots'[s] = slots[s]
  BY <1>0, <1>6 DEF SlotRuns, SlotFails, Take, ClaimCancel, ClaimQueued, ClaimRead,
     ClaimFails, Extract, Complete, CompleteFails, Handle, Settle, SlotDies, LoseLock,
     SlotStep
<1>7. ASSUME NEW d \in Cancels, CancelNext(d) PROVE slots' = slots
  BY <1>7 DEF CancelNext, CancelFind, CancelUpdate, CancelRead, CancelGetJob,
     CancelGetState, CancelRemove, CancelDies
<1>8. ASSUME NEW d \in Creates, CreateNext(d) PROVE slots' = slots
  BY <1>8 DEF CreateNext, CreateLookup, CreateInsert, CreateReread, CreateEnqueue,
     CreateCompensate, CreateDies
<1>9. ASSUME NEW j \in Jobs, Timers(j) PROVE slots' = slots
  BY <1>9 DEF Timers, MoveStalled, Promote
<1>10. (Quiescent \/ UNCHANGED vars) => slots' = slots
  BY DEF Quiescent, vars
<1> QED
  BY <1>1, <1>5, <1>6, <1>7, <1>8, <1>9, <1>10 DEF Next

\* An entry appears only for a row: the request that adds it has inserted one.
LEMMA EntriesHaveRows ==
  ASSUME SystemAssumption, ReqInv, [Next]_vars, NEW j \in Jobs,
         entries'[j].state # "absent"
  PROVE  rows[j].status # "ABSENT"
<1>0. entries \in [Jobs -> Queue!Entries(Slots)]
  BY DEF ReqInv, TypeInv
<1>1. CASE entries[j].state # "absent"
  BY <1>1 DEF ReqInv, EntryInv
<1>2. CASE entries'[j] = entries[j]
  BY <1>1, <1>2
<1>3. ASSUME NEW c \in Creates, CreateNext(c), entries'[j] # entries[j]
      PROVE  rows[j].status # "ABSENT"
  <2>1. CreateEnqueue(c) /\ AddEntry(c)
    BY <1>3 DEF CreateNext, CreateLookup, CreateInsert, CreateReread, CreateEnqueue,
       CreateCompensate, CreateDies
  <2>2. creating[c].job = j
    BY <1>0, <1>3, <2>1 DEF AddEntry
  <2> QED
    BY <2>2, KnownJobsExist DEF ReqInv
<1>4. ASSUME NEW c \in Cancels, CancelNext(c), entries'[j] # entries[j] PROVE FALSE
  <2>1. CancelRemove(c)
    BY <1>4 DEF CancelNext, CancelFind, CancelUpdate, CancelRead, CancelGetJob,
       CancelGetState, CancelDies
  <2> QED
    BY <1>0, <1>4, <2>1 DEF CancelRemove, Queue!Removed, Queue!NoEntry
<1>5. ASSUME NEW s \in Slots, SlotRuns(s) \/ SlotFails(s)
      PROVE  \/ entries[j].state # "absent"
             \/ entries'[j] = entries[j]
             \/ slots[s].pc # "idle" /\ slots[s].job = j
  <2>1. ASSUME NEW i \in Jobs, Take(s, i)
        PROVE  entries[j].state # "absent" \/ entries'[j] = entries[j]
    BY <1>0, <2>1 DEF Take
  <2>2. ASSUME NEW e, entries' = [entries EXCEPT ![slots[s].job] = e]
        PROVE  entries'[j] = entries[j] \/ slots[s].job = j
    BY <1>0, <2>2
  <2>3. CASE UNCHANGED entries
    BY <2>3
  <2>4. CASE Settle(s) \/ SlotDies(s) \/ LoseLock(s)
    <3>1. slots[s].pc # "idle"
      BY <2>4 DEF Settle, SlotDies, LoseLock
    <3>2. \E e : entries' = [entries EXCEPT ![slots[s].job] = e]
      BY <2>4 DEF Settle, SlotDies, LoseLock, JobOf
    <3> QED
      BY <2>2, <3>1, <3>2
  <2> QED
    BY <1>5, <2>1, <2>3, <2>4 DEF SlotRuns, SlotFails, ClaimCancel, ClaimQueued,
       ClaimRead, ClaimFails, Extract, Complete, CompleteFails, Handle
<1>6. ASSUME NEW i \in Jobs, Timers(i)
      PROVE  entries[j].state # "absent" \/ entries'[j] = entries[j]
  BY <1>0, <1>6 DEF Timers, MoveStalled, Promote
<1>7. (Quiescent \/ UNCHANGED vars) => entries' = entries
  BY DEF Quiescent, vars
<1>8. ASSUME NEW s \in Slots, slots[s].pc # "idle", slots[s].job = j
      PROVE  rows[j].status # "ABSENT"
  BY <1>8 DEF ReqInv, EntryInv
<1> QED
  BY <1>1, <1>2, <1>3, <1>4, <1>5, <1>6, <1>7, <1>8 DEF Next

\* Rows, entries and slots stay in step.
LEMMA EntryStep ==
  ASSUME SystemAssumption, ReqInv, [Next]_vars
  PROVE  EntryInv'
<1> USE DEF ReqInv
<1>0. TypeInv'
  BY TypeStep
<1>1. ASSUME NEW j \in Jobs, entries'[j].state # "absent"
      PROVE  rows'[j].status # "ABSENT"
  BY <1>1, EntriesHaveRows, RowsStayDead
<1>2. ASSUME NEW j \in Jobs, rows'[j].status = "RUNNING"
      PROVE  entries'[j].state # "absent"
  <2>1. entries[j].state # "absent" /\ rows[j].status \in Store!Live
    BY <1>2, OnlyClaimsRun DEF EntryInv, Store!Live
  <2> QED
    BY <2>1, EntriesStay
<1>3. ASSUME NEW s \in Slots, slots'[s].pc # "idle"
      PROVE  /\ rows'[slots'[s].job].status # "ABSENT"
             /\ rows'[slots'[s].job].status \in Store!Live
                  => entries'[slots'[s].job].state # "absent"
  <2>1. CASE slots[s].pc # "idle" /\ slots'[s].job = slots[s].job
    <3>1. slots[s].job \in Jobs
      BY <2>1 DEF TypeInv, SlotRecord
    <3> QED
      BY <2>1, <3>1, RowsStayDead, EntriesStay DEF EntryInv
  <2>2. CASE /\ slots'[s].job \in Jobs /\ rows' = rows
             /\ entries[slots'[s].job].state = "wait"
             /\ entries'[slots'[s].job].state = "active"
    BY <2>2 DEF EntryInv
  <2> QED
    BY <1>3, <2>1, <2>2, SlotsKeepJobs
<1> QED
  BY <1>1, <1>2, <1>3 DEF EntryInv

\* A request becomes unavailable by its compensation, after which the row is
\* not QUEUED.
LEMMA Refused ==
  ASSUME TypeInv, [Next]_vars, NEW c \in Creates, creating'[c].pc = "unavailable"
  PROVE  /\ creating'[c].job = creating[c].job /\ creating[c].job \in Jobs
         /\ \/ creating[c].pc = "unavailable"
            \/ rows'[creating[c].job].status # "QUEUED" /\ slots' = slots
<1>0. /\ creating \in [Creates -> CreateRecord] /\ creating[c] \in CreateRecord
      /\ rows \in [Jobs -> Store!Rows(Keys)]
  BY DEF TypeInv
<1>1. CASE creating'[c] = creating[c]
  BY <1>0, <1>1 DEF CreateRecord
<1>2. CASE CreateNext(c)
  <2>1. CreateCompensate(c)
    <3>1. ASSUME NEW pc, Answer(c, pc) PROVE creating'[c].pc = pc
      BY <1>0, <3>1 DEF Answer, CreateRecord
    <3>2. ASSUME NEW k \in Keys, CreateLookup(c, k) PROVE FALSE
      BY <1>0, <3>2 DEF CreateLookup
    <3>3. ASSUME NEW i \in Jobs, CreateInsert(c, i) PROVE FALSE
      <4>1. creating' # [creating EXCEPT ![c].pc = "enqueue", ![c].job = i,
                                         ![c].created = TRUE]
        BY <1>0 DEF CreateRecord
      <4> QED
        BY <3>1, <3>3, <4>1 DEF CreateInsert
    <3>4. CASE CreateReread(c)
      BY <1>0, <3>4 DEF CreateReread, CreateRecord
    <3>5. CASE CreateEnqueue(c) \/ CreateDies(c)
      BY <3>1, <3>5 DEF CreateEnqueue, CreateDies
    <3> QED
      BY <1>2, <3>2, <3>3, <3>4, <3>5 DEF CreateNext
  <2>2. creating[c].job \in Jobs /\ creating'[c].job = creating[c].job
    BY <1>0, <2>1 DEF CreateCompensate, Answer, CreateRecord
  <2>3. rows'[creating[c].job] = Store!SubmissionFailed(rows[creating[c].job])
    BY <1>0, <2>1, <2>2 DEF CreateCompensate
  <2>4. rows[creating[c].job] \in Store!Rows(Keys)
    BY <1>0, <2>2
  <2>5. rows'[creating[c].job].status # "QUEUED"
    BY <2>3, <2>4 DEF Store!SubmissionFailed, Store!UpdateMany, Store!Rows
  <2> QED
    BY <2>1, <2>2, <2>5 DEF CreateCompensate
<1>6. ASSUME NEW d \in Creates, CreateNext(d), d # c PROVE creating'[c] = creating[c]
  BY <1>0, <1>6 DEF CreateNext, CreateLookup, CreateInsert, CreateReread, CreateEnqueue,
     CreateCompensate, CreateDies, Answer
<1>7. ASSUME NEW d \in Cancels, CancelNext(d) PROVE creating' = creating
  BY <1>7 DEF CancelNext, CancelFind, CancelUpdate, CancelRead, CancelGetJob,
     CancelGetState, CancelRemove, CancelDies
<1>8. ASSUME NEW s \in Slots, SlotRuns(s) \/ SlotFails(s) PROVE creating' = creating
  BY <1>8 DEF SlotRuns, SlotFails, Take, ClaimCancel, ClaimQueued, ClaimRead,
     ClaimFails, Extract, Complete, CompleteFails, Handle, Settle, SlotDies, LoseLock
<1>9. ASSUME NEW j \in Jobs, Timers(j) PROVE creating' = creating
  BY <1>9 DEF Timers, MoveStalled, Promote
<1>10. (Quiescent \/ UNCHANGED vars) => creating' = creating
  BY DEF Quiescent, vars
<1> QED
  BY <1>1, <1>2, <1>6, <1>7, <1>8, <1>9, <1>10 DEF Next

\* A refused job whose entry is gone stays dead.
LEMMA RefusedStep ==
  ASSUME SystemAssumption, ReqInv, [Next]_vars
  PROVE  RefusedNotStranded'
<1> USE DEF ReqInv
<1> SUFFICES ASSUME NEW c \in Creates, creating'[c].pc = "unavailable",
                    entries'[creating'[c].job].state = "absent",
                    rows'[creating'[c].job].status \in Store!Live
             PROVE  FALSE
  BY DEF RefusedNotStranded
<1> DEFINE j == creating[c].job
<1>1. j \in Jobs /\ creating'[c].job = j
  BY Refused
<1>2. rows[j].status # "ABSENT" /\ rows[j].status \in Store!Live
  BY <1>1, KnownJobsExist, RowsStayDead
<1>3. entries[j].state = "absent"
  <2>1. CASE entries[j].state # "absent"
    BY <1>1, <1>2, <2>1, EntriesStay
  <2> QED
    BY <2>1
<1>4. rows'[j].status # "RUNNING"
  BY <1>1, EntryStep DEF EntryInv
<1>5. CASE creating[c].pc = "unavailable"
  BY <1>1, <1>2, <1>3, <1>5 DEF RefusedNotStranded
<1>6. CASE rows'[j].status # "QUEUED"
  BY <1>1, <1>4, <1>6 DEF Store!Live
<1> QED
  BY <1>5, <1>6, Refused

\* Nothing is enqueued or refused at the start.
LEMMA EntryInit == Init => EntryInv /\ RefusedNotStranded
<1> SUFFICES ASSUME Init PROVE EntryInv /\ RefusedNotStranded
  OBVIOUS
<1>1. \A j \in Jobs : entries[j].state = "absent" /\ rows[j].status = "ABSENT"
  BY DEF Init, Queue!NoEntry, Store!AbsentRow
<1>2. \A s \in Slots : slots[s].pc = "idle"
  BY DEF Init
<1>3. \A c \in Creates : creating[c].pc = "idle"
  BY DEF Init
<1> QED
  BY <1>1, <1>2, <1>3 DEF EntryInv, RefusedNotStranded

\* The invariants of the requests hold together in every reachable state.
LEMMA ReqInvariant == Spec => []ReqInv
<1>1. Init => ReqInv
  BY TypeInit, CancelInit, KeyInit, EntryInit DEF ReqInv
<1>2. ReqInv /\ [Next]_vars => ReqInv'
  BY SystemAssumption, TypeStep, CancelStepInv, KeyStep, EntryStep, RefusedStep DEF ReqInv
<1> QED
  BY <1>1, <1>2, PTL DEF Spec

\* A job whose submission was refused with 503 and has no entry in the queue is
\* not live: it does not wait for a worker that will never see it.
THEOREM RefusalsAreFinal == Spec => []RefusedNotStranded
<1>1. ReqInv => RefusedNotStranded
  BY DEF ReqInv
<1> QED
  BY <1>1, ReqInvariant, PTL
=============================================================================
