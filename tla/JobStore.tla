------------------------------ MODULE JobStore ------------------------------
(***************************************************************************)
(* One row of the table ExtractionJob and the statements the program runs  *)
(* on it.  Every statement is a single conditional UPDATE (Prisma          *)
(* updateMany with the expected status in its WHERE clause): the row       *)
(* changes when the guard holds, and is left alone otherwise.  PostgreSQL  *)
(* runs each of them atomically, so a statement is a function from rows to *)
(* rows.                                                                   *)
(***************************************************************************)
EXTENDS Integers

CONSTANT None \* "no value": the key of a row that does not exist yet

Live     == {"QUEUED", "RUNNING"}
Terminal == {"SUCCEEDED", "FAILED", "CANCELLED"}
Statuses == Live \cup Terminal \cup {"CANCEL_REQUESTED"}

\* A row that has not been inserted has the status "ABSENT".
RowStatuses == Statuses \cup {"ABSENT"}
ErrorCodes  == {"none", "INTERNAL", "QUEUE_UNAVAILABLE"}

\* startedAt and finishedAt are kept as "is it set"; report says whether the
\* job owns an ExtractionReport.
Rows(Keys) == [status   : RowStatuses,
               key      : Keys \cup {None},
               attempts : Nat,
               error    : ErrorCodes,
               started  : BOOLEAN,
               finished : BOOLEAN,
               report   : BOOLEAN]

AbsentRow == [status |-> "ABSENT", key |-> None, attempts |-> 0,
              error |-> "none", started |-> FALSE, finished |-> FALSE,
              report |-> FALSE]

\* The column defaults of the schema, plus the key given by the client.
NewRow(k) == [AbsentRow EXCEPT !.status = "QUEUED", !.key = k]

-----------------------------------------------------------------------------
\* updateMany({ where: { status: { in: from } }, data }): `new` is the row
\* with the data applied.
UpdateMany(row, from, new) == IF row.status \in from THEN new ELSE row

\* Each "Slip" below is a plausible mistake in the statement that follows it;
\* nothing uses it but the check that a property would notice the mistake.

\* Slip: the status is written without looking at the one it replaces.
CancelRequestedAlways(row) == [row EXCEPT !.status = "CANCEL_REQUESTED"]

\* Slip: the second status of the IN list is forgotten.
CancelRequestedQueuedOnly(row) ==
  UpdateMany(row, {"QUEUED"}, [row EXCEPT !.status = "CANCEL_REQUESTED"])

\* API: requestCancellation.
CancelRequested(row) ==
  UpdateMany(row, Live, [row EXCEPT !.status = "CANCEL_REQUESTED"])

\* Slip: the guard expects the status of a job that was already taken.
SubmissionFailedRunning(row) ==
  UpdateMany(row, {"RUNNING"},
             [row EXCEPT !.status = "FAILED", !.error = "QUEUE_UNAVAILABLE",
                         !.finished = TRUE])

\* API: failQueueSubmission.
SubmissionFailed(row) ==
  UpdateMany(row, {"QUEUED"},
             [row EXCEPT !.status = "FAILED", !.error = "QUEUE_UNAVAILABLE",
                         !.finished = TRUE])

\* Slip: the status is not a member of the enum.
ClaimedCancellationMisspelt(row) ==
  UpdateMany(row, {"CANCEL_REQUESTED"},
             [row EXCEPT !.status = "CANCELED", !.finished = TRUE])

\* Worker: the first statement of claim.
ClaimedCancellation(row) ==
  UpdateMany(row, {"CANCEL_REQUESTED"},
             [row EXCEPT !.status = "CANCELLED", !.finished = TRUE])

\* Slip: a job somebody else is running may be claimed too.
ClaimFromLive == {"QUEUED", "RUNNING"}

\* Worker: the status in the WHERE clause of the claim.
ClaimFrom == {"QUEUED"}

\* Worker: the second statement of claim.
Claimed(row) ==
  UpdateMany(row, ClaimFrom,
             [row EXCEPT !.status = "RUNNING", !.started = TRUE,
                         !.attempts = @ + 1])

\* Slip: the report is stored although the update matched no row.
CompletedReportAlways(row) ==
  [UpdateMany(row, {"RUNNING"},
              [row EXCEPT !.status = "SUCCEEDED", !.error = "none",
                          !.finished = TRUE]) EXCEPT !.report = TRUE]

\* Worker: the transaction of complete, status and report together.
Completed(row) ==
  UpdateMany(row, {"RUNNING"},
             [row EXCEPT !.status = "SUCCEEDED", !.error = "none",
                         !.finished = TRUE, !.report = TRUE])

\* Slip: a retry requeues whatever has not ended.
RetriedOverCancel(row) ==
  UpdateMany(row, {"RUNNING", "CANCEL_REQUESTED"},
             [row EXCEPT !.status = "QUEUED", !.error = "INTERNAL"])

\* Slip: the retry records the error and leaves the job RUNNING.
RetriedInPlace(row) == UpdateMany(row, {"RUNNING"}, [row EXCEPT !.error = "INTERNAL"])

\* Worker: retry, with the code INTERNAL the processor passes.
Retried(row) ==
  UpdateMany(row, {"RUNNING"},
             [row EXCEPT !.status = "QUEUED", !.error = "INTERNAL"])

\* Worker: fail, the last attempt.
FailedFinally(row) ==
  UpdateMany(row, {"RUNNING"},
             [row EXCEPT !.status = "FAILED", !.error = "INTERNAL",
                         !.finished = TRUE])
=============================================================================
