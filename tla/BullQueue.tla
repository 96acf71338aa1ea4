------------------------------ MODULE BullQueue ------------------------------
(***************************************************************************)
(* One entry of the BullMQ queue extractions-v1, as the program uses it.   *)
(* BullMQ is a library: its scripts run atomically in Redis, and only what *)
(* the API and the worker rely on is kept.                                 *)
(*                                                                         *)
(*   absent     never added, or removed                                    *)
(*   wait       ready to be taken by a worker                              *)
(*   active     taken; `holder` owns the lock, None once it is lost        *)
(*   delayed    failed, waiting for its back-off                           *)
(*   completed, failed   finished (kept for a while, never taken again)    *)
(*                                                                         *)
(* `made` is attemptsMade, `stalled` is the number of times the entry was  *)
(* found active without a lock.                                            *)
(***************************************************************************)
EXTENDS Integers

CONSTANTS None,        \* no lock holder
          MaxAttempts, \* the option `attempts` of queue.add
          MaxStalled   \* BullMQ's maxStalledCount, 1 by default

EntryStates == {"absent", "wait", "active", "delayed", "completed", "failed"}

\* States in which BullMQ will still hand the entry to a worker.
Pending == {"wait", "active", "delayed"}

Entries(Slots) == [state   : EntryStates,
                   made    : Nat,
                   stalled : Nat,
                   holder  : Slots \cup {None}]

NoEntry == [state |-> "absent", made |-> 0, stalled |-> 0, holder |-> None]

\* queue.add with the job's id as jobId: an entry that exists is not replaced.
Added(entry) ==
  IF entry.state = "absent" THEN [NoEntry EXCEPT !.state = "wait"] ELSE entry

\* job.remove(): refused while a worker holds the lock.
Removable(entry) == entry.holder = None
Removed(entry)   == NoEntry

\* A worker takes the next entry and its lock.
Taken(entry, s) == [entry EXCEPT !.state = "active", !.holder = s]

HoldsLock(entry, s) == entry.state = "active" /\ entry.holder = s

\* The processor returned.  Without the lock the script changes nothing.
Acknowledged(entry, s) ==
  IF HoldsLock(entry, s)
  THEN [entry EXCEPT !.state = "completed", !.holder = None]
  ELSE entry

\* The processor threw: retried after a back-off while attempts remain.
Rejected(entry, s) ==
  IF HoldsLock(entry, s)
  THEN [entry EXCEPT !.state = IF entry.made + 1 < MaxAttempts
                               THEN "delayed" ELSE "failed",
                     !.made = @ + 1,
                     !.holder = None]
  ELSE entry

\* The lock is not renewed: the worker died, hangs, or lost Redis.
LockExpired(entry) == [entry EXCEPT !.holder = None]

\* Slip: stalls are not counted (maxStalledCount left out).
StalledMovedAlways(entry) == [entry EXCEPT !.state = "wait"]

\* The stalled check found the entry active without a lock.
StalledMoved(entry) ==
  IF entry.stalled + 1 > MaxStalled
  THEN [entry EXCEPT !.state = "failed", !.stalled = @ + 1]
  ELSE [entry EXCEPT !.state = "wait", !.stalled = @ + 1]

Promoted(entry) == [entry EXCEPT !.state = "wait"]
=============================================================================
