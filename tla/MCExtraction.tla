---------------------------- MODULE MCExtraction ----------------------------
(***************************************************************************)
(* Instances of ExtractionSystem for TLC.                                  *)
(***************************************************************************)
EXTENDS ExtractionSystem, TLC

AllFaults == FaultKinds
NoFaults  == {}

OnlyWorkerDies == {"workerDies"}
OnlyApiDies    == {"apiDies"}
QueueFaults    == {"workerDies", "lockLost", "dbError"}

\* The members of each set play the same part; used in safety runs only.
Interchangeable == Permutations(Creates) \cup Permutations(Cancels)
                     \cup Permutations(Jobs) \cup Permutations(Slots)
                     \cup Permutations(Keys)
=============================================================================
