---------------------------- MODULE JobLifecycle ----------------------------
(***************************************************************************)
(* What the extraction service promises about a job, whatever happens to   *)
(* queues, processes and requests.                                         *)
(*                                                                         *)
(*   - the status follows one diagram, and a terminal status is final;     *)
(*   - an execution starts only from QUEUED and only when no other         *)
(*     execution of the job is under way;                                  *)
(*   - only the execution under way requeues the job or gives it a result; *)
(*   - once a cancellation is requested nothing but CANCELLED can follow.  *)
(*                                                                         *)
(* It is the abstract specification: ExtractionSystem implements it.       *)
(***************************************************************************)
CONSTANTS Jobs, Slots

VARIABLES status, \* the status of each job
          running \* the executions under way of each job

vars == <<status, running>>

Init == /\ status = [j \in Jobs |-> "ABSENT"]
        /\ running = [j \in Jobs |-> {}]

Move(j, from, to) == /\ status[j] = from
                     /\ status' = [status EXCEPT ![j] = to]

Submit(j) == /\ Move(j, "ABSENT", "QUEUED")
             /\ UNCHANGED running

\* The queue did not take the job.
Refuse(j) == /\ Move(j, "QUEUED", "FAILED")
             /\ UNCHANGED running

\* An execution starts; it may die in the same moment.
Start(j, s) == /\ running[j] = {}
               /\ Move(j, "QUEUED", "RUNNING")
               /\ \/ running' = [running EXCEPT ![j] = {s}]
                  \/ UNCHANGED running

\* The execution s requeues the job and ends.
Retry(j, s) == /\ running[j] = {s}
               /\ Move(j, "RUNNING", "QUEUED")
               /\ running' = [running EXCEPT ![j] = {}]

\* The execution s gives the job its result; it ends now or a little later.
Record(j, s) == /\ running[j] = {s}
                /\ \/ Move(j, "RUNNING", "SUCCEEDED")
                   \/ Move(j, "RUNNING", "FAILED")
                /\ \/ running' = [running EXCEPT ![j] = {}]
                   \/ UNCHANGED running

\* The execution s ends without a word: it died, or its result came too late.
Leave(j, s) == /\ running[j] = {s}
               /\ running' = [running EXCEPT ![j] = {}]
               /\ UNCHANGED status

AskCancel(j) == /\ \/ Move(j, "QUEUED", "CANCEL_REQUESTED")
                   \/ Move(j, "RUNNING", "CANCEL_REQUESTED")
                /\ UNCHANGED running

Cancel(j) == /\ Move(j, "CANCEL_REQUESTED", "CANCELLED")
             /\ UNCHANGED running

Next == \E j \in Jobs :
          \/ Submit(j) \/ Refuse(j) \/ AskCancel(j) \/ Cancel(j)
          \/ \E s \in Slots : Start(j, s) \/ Retry(j, s) \/ Record(j, s) \/ Leave(j, s)

Spec == Init /\ [][Next]_vars
=============================================================================
