--------------------------- MODULE JobHook_proofs ---------------------------
(***************************************************************************)
(* Theorems about JobHook, for any number of submissions, clicks, jobs and *)
(* executions, with or without network failures.                           *)
(***************************************************************************)
EXTENDS JobHook, TLAPS

-----------------------------------------------------------------------------
(* The inductive invariants                                                *)

Alive == {"creating", "created", "fetching", "reading", "waiting"}

\* Who shows, polls or cancels a job knows which.
Named ==
  /\ \A c \in Submits : submits[c].pc \in Alive \ {"creating"} => submits[c].job # None
  /\ \A c \in Submits : submits[c].pc \in {"idle", "creating"} => submits[c].job = None
  /\ \A c \in Submits : submits[c].pc = "created" => submits[c].seen = "QUEUED"
  /\ \A x \in Clicks : (clicks[x].pc = "idle") = (clicks[x].job = None)
  /\ ui.job = None => ui.seen = "ABSENT"

TypeInv == TypeOK /\ Named

\* A call of submit that is not over has been aborted or holds the ref.
PollerInv == \A c \in Submits : submits[c].pc \in Alive /\ c \notin aborted => c = polling

\* What somebody remembers of a job may be old, but is never an outcome that
\* the job does not have.
Agrees(j, seen) == /\ status[j] # "ABSENT" /\ seen # "ABSENT"
                   /\ seen \in Terminal => status[j] = seen

UiTrue == ui.job # None => Agrees(ui.job, ui.seen)
SubmitTrue(c) == submits[c].job # None => Agrees(submits[c].job, submits[c].seen)
ClickTrue(x) ==
  /\ clicks[x].job # None => status[clicks[x].job] # "ABSENT"
  /\ clicks[x].pc = "answered" => Agrees(clicks[x].job, clicks[x].seen)

TruthInv == UiTrue /\ (\A c \in Submits : SubmitTrue(c)) /\ (\A x \in Clicks : ClickTrue(x))

Over(c) == c \in aborted \/ submits[c].pc = "done"

\* A job belongs to one call of submit. Until that call is answered nobody
\* else knows the job, and once its end is on screen, or its cancellation was
\* clicked, the call polls no more.
Own(c) ==
  submits[c].job # None =>
    /\ \A d \in Submits : submits[d].job = submits[c].job => d = c
    /\ submits[c].pc = "created" =>
         /\ ui.job # submits[c].job
         /\ \A x \in Clicks : clicks[x].job # submits[c].job
    /\ ui.job = submits[c].job /\ ui.seen \in Terminal => Over(c)
    /\ \A x \in Clicks : clicks[x].job = submits[c].job => Over(c)

OwnInv == \A c \in Submits : Own(c)

\* A call that started holds the ref or has been aborted, and the call whose job
\* somebody cancels has been aborted.
AbortInv ==
  /\ \A c \in Submits : submits[c].pc # "idle" /\ c \notin aborted => c = polling
  /\ \A c \in Submits, x \in Clicks :
       submits[c].job # None /\ clicks[x].job = submits[c].job => c \in aborted

-----------------------------------------------------------------------------
(* The server                                                              *)

\* What may happen to the jobs in one step.
ServerOk ==
  /\ status' \in [Jobs -> Statuses]
  /\ running' \in [Jobs -> SUBSET Slots]
  /\ \A j \in Jobs : /\ status[j] \in Terminal => status'[j] = status[j]
                     /\ status[j] # "ABSENT" => status'[j] # "ABSENT"

\* A job that is submitted, refused or cancelled.
LEMMA RequestSteps ==
  ASSUME TypeOK, NEW j \in Jobs,
         Server!Submit(j) \/ Server!Refuse(j) \/ Server!AskCancel(j)
  PROVE  ServerOk
BY DEF TypeOK, ServerOk, Statuses, Terminal, Server!Submit, Server!Refuse,
       Server!AskCancel, Server!Move

\* A step of the server on its own.
LEMMA ServerSteps ==
  ASSUME TypeOK, NEW j \in Jobs, ServerRuns(j)
  PROVE  ServerOk
<1>1. CASE Server!Cancel(j)
  BY <1>1 DEF TypeOK, ServerOk, Statuses, Terminal, Server!Cancel, Server!Move
<1>2. ASSUME NEW s \in Slots, Server!Start(j, s) PROVE ServerOk
  BY <1>2 DEF TypeOK, ServerOk, Statuses, Terminal, Server!Start, Server!Move
<1>3. ASSUME NEW s \in Slots, Server!Retry(j, s) PROVE ServerOk
  BY <1>3 DEF TypeOK, ServerOk, Statuses, Terminal, Server!Retry, Server!Move
<1>4. ASSUME NEW s \in Slots, Server!Record(j, s) PROVE ServerOk
  BY <1>4 DEF TypeOK, ServerOk, Statuses, Terminal, Server!Record, Server!Move
<1>5. ASSUME NEW s \in Slots, Server!Leave(j, s) PROVE ServerOk
  BY <1>5 DEF TypeOK, ServerOk, Server!Leave
<1>6. QED
  BY <1>1, <1>2, <1>3, <1>4, <1>5 DEF ServerRuns

LEMMA NoServerStep ==
  ASSUME TypeOK, UNCHANGED server
  PROVE  ServerOk
BY DEF TypeOK, ServerOk, server

\* Every step leaves the jobs as the lifecycle allows.
LEMMA ServerStable ==
  ASSUME TypeInv, [Next]_vars
  PROVE  ServerOk
<1> USE DEF TypeInv
<1>1. ASSUME NEW c \in Submits, CreateServed(c) PROVE ServerOk
  BY <1>1, RequestSteps DEF CreateServed
<1>2. ASSUME NEW c \in Submits, CreateFails(c) PROVE ServerOk
  <2>1. CASE UNCHANGED server
    BY <2>1, NoServerStep
  <2>2. CASE submits[c].pc = "created" /\ Server!Refuse(submits[c].job)
    <3>1. submits[c].job \in Jobs
      BY <2>2 DEF TypeOK, Named, Alive
    <3>2. QED
      BY <2>2, <3>1, RequestSteps
  <2>3. QED
    BY <1>2, <2>1, <2>2 DEF CreateFails
<1>3. ASSUME NEW x \in Clicks, CancelServed(x) PROVE ServerOk
  <2>1. clicks[x].job \in Jobs
    BY <1>3 DEF CancelServed, TypeOK, Named
  <2>2. QED
    BY <1>3, <2>1, RequestSteps, NoServerStep DEF CancelServed
<1>4. ASSUME NEW c \in Submits,
             Submit(c) \/ CreateAnswered(c) \/ PollServed(c) \/ PollDelivered(c)
               \/ WaitElapsed(c) \/ AbortSeen(c) \/ PollFails(c)
      PROVE ServerOk
  BY <1>4, NoServerStep DEF Submit, CreateAnswered, PollServed, PollDelivered,
       WaitElapsed, AbortSeen, PollFails
<1>5. ASSUME NEW x \in Clicks,
             CancelClick(x) \/ CancelRead(x) \/ CancelAnswered(x) \/ CancelFails(x)
      PROVE ServerOk
  BY <1>5, NoServerStep DEF CancelClick, CancelRead, CancelAnswered, CancelFails
<1>6. CASE Unmount \/ Idle \/ UNCHANGED vars
  BY <1>6, NoServerStep DEF Unmount, Idle, vars, server
<1>7. QED
  BY <1>1, <1>2, <1>3, <1>4, <1>5, <1>6, ServerSteps DEF Next, SubmitRuns, ClickRuns

-----------------------------------------------------------------------------
(* Type correctness                                                        *)

LEMMA TypeStep ==
  ASSUME TypeInv, [Next]_vars
  PROVE  TypeInv'
<1> USE HookAssumption DEF TypeInv, TypeOK, Named, Alive, SubmitPCs, ClickPCs, Statuses, Terminal
<1>1. ServerOk
  BY ServerStable
<1>2. /\ status' \in [Jobs -> Statuses]
      /\ running' \in [Jobs -> SUBSET Slots]
  BY <1>1 DEF ServerOk
<1>3. ASSUME NEW c \in Submits, Submit(c) PROVE TypeInv'
  <2>1. /\ ui' = [job |-> None, seen |-> "ABSENT", submitting |-> TRUE, error |-> FALSE]
        /\ submits' = [submits EXCEPT ![c].pc = "creating"]
        /\ polling' = c /\ aborted' \subseteq Submits
        /\ UNCHANGED <<clicks, mounted>>
        /\ submits[c].pc = "idle"
    BY <1>3 DEF Submit, Current, Blank, Goto
  <2>2. TypeOK'
    <3>1. ui' \in [job : Jobs \cup {None}, seen : Statuses, submitting : BOOLEAN, error : BOOLEAN]
      BY <2>1
    <3>2. submits' \in [Submits -> [pc : SubmitPCs, job : Jobs \cup {None}, seen : Statuses]]
      BY <2>1
    <3>3. QED
      BY <2>1, <3>1, <3>2, <1>2
  <2>3. QED
    BY <2>1, <2>2
<1>4. ASSUME NEW c \in Submits, CreateServed(c) PROVE TypeInv'
  BY <1>4, <1>2 DEF CreateServed
<1>5. ASSUME NEW c \in Submits, CreateAnswered(c) PROVE TypeInv'
  BY <1>5, <1>2 DEF CreateAnswered, Show, Goto
<1>6. ASSUME NEW c \in Submits, CreateFails(c) PROVE TypeInv'
  <2>1. /\ ui' = [ui EXCEPT !.submitting = FALSE, !.error = TRUE]
        /\ submits' = [submits EXCEPT ![c].pc = "done"]
        /\ UNCHANGED <<polling, aborted, clicks, mounted>>
    BY <1>6 DEF CreateFails, ShowError, Goto
  <2>2. TypeOK'
    <3>1. ui' \in [job : Jobs \cup {None}, seen : Statuses, submitting : BOOLEAN, error : BOOLEAN]
      BY <2>1
    <3>2. submits' \in [Submits -> [pc : SubmitPCs, job : Jobs \cup {None}, seen : Statuses]]
      BY <2>1
    <3>3. QED
      BY <2>1, <3>1, <3>2, <1>2
  <2>3. QED
    BY <2>1, <2>2
<1>7. ASSUME NEW c \in Submits, PollServed(c) PROVE TypeInv'
  <2> DEFINE new == [submits[c] EXCEPT !.pc = "reading", !.seen = status[submits[c].job]]
  <2>1. submits[c].pc = "fetching" /\ status[submits[c].job] \in Statuses
    BY <1>7 DEF PollServed
  <2>2. /\ new \in [pc : SubmitPCs, job : Jobs \cup {None}, seen : Statuses]
        /\ new.pc = "reading" /\ new.job = submits[c].job
    <3>1. submits[c] \in [pc : SubmitPCs, job : Jobs \cup {None}, seen : Statuses]
      OBVIOUS
    <3>2. "reading" \in SubmitPCs
      BY DEF SubmitPCs
    <3>3. new.pc = "reading" /\ new.job = submits[c].job
      BY <3>1
    <3>4. QED
      BY <2>1, <3>1, <3>2, <3>3
  <2>3. submits' = [submits EXCEPT ![c] = new] /\ UNCHANGED <<ui, polling, aborted, clicks, mounted>>
    BY <1>7 DEF PollServed
  <2> HIDE DEF new
  <2>4. submits' \in [Submits -> [pc : SubmitPCs, job : Jobs \cup {None}, seen : Statuses]]
    BY <2>2, <2>3
  <2>5. TypeOK'
    BY <2>3, <2>4, <1>2
  <2>6. QED
    BY <2>1, <2>2, <2>3, <2>5
<1>8. ASSUME NEW c \in Submits, PollDelivered(c) PROVE TypeInv'
  BY <1>8, <1>2 DEF PollDelivered, Show, Goto
<1>9. ASSUME NEW c \in Submits, PollFails(c) \/ AbortSeen(c) PROVE TypeInv'
  <2>1. /\ ui' = ui \/ ui' = [ui EXCEPT !.submitting = FALSE, !.error = TRUE]
        /\ submits' = [submits EXCEPT ![c].pc = "done"]
        /\ UNCHANGED <<polling, aborted, clicks, mounted>>
        /\ submits[c].pc \in {"fetching", "reading", "waiting"}
    BY <1>9 DEF PollFails, AbortSeen, ShowError, Goto
  <2>2. TypeOK'
    <3>1. ui' \in [job : Jobs \cup {None}, seen : Statuses, submitting : BOOLEAN, error : BOOLEAN]
      BY <2>1
    <3>2. submits' \in [Submits -> [pc : SubmitPCs, job : Jobs \cup {None}, seen : Statuses]]
      BY <2>1
    <3>3. QED
      BY <2>1, <3>1, <3>2, <1>2
  <2>3. ui'.job = ui.job /\ ui'.seen = ui.seen
    BY <2>1
  <2>4. \A d \in Submits : submits'[d].job = submits[d].job
                            /\ (d # c => submits'[d].pc = submits[d].pc)
    BY <2>1
  <2>5. submits'[c].pc = "done"
    BY <2>1
  <2>6. QED
    BY <2>1, <2>2, <2>3, <2>4, <2>5
<1>10. ASSUME NEW c \in Submits, WaitElapsed(c) PROVE TypeInv'
  BY <1>10, <1>2 DEF WaitElapsed, Goto
<1>11. ASSUME NEW x \in Clicks, CancelClick(x) PROVE TypeInv'
  BY <1>11, <1>2 DEF CancelClick, Current
<1>12. ASSUME NEW x \in Clicks, CancelServed(x) PROVE TypeInv'
  <2>1. PICK pc \in {"recorded", "refused"} : clicks' = [clicks EXCEPT ![x].pc = pc]
    BY <1>12 DEF CancelServed
  <2>2. clicks[x].pc = "sent" /\ UNCHANGED <<ui, polling, aborted, submits, mounted>>
    BY <1>12 DEF CancelServed
  <2>3. TypeOK'
    <3>1. submits' \in [Submits -> [pc : SubmitPCs, job : Jobs \cup {None}, seen : Statuses]]
      BY <2>1, <2>2
    <3>2. clicks' \in [Clicks -> [pc : ClickPCs, job : Jobs \cup {None}, seen : Statuses]]
      BY <2>1, <2>2
    <3>3. QED
      BY <2>2, <3>1, <3>2, <1>2
  <2>4. QED
    BY <2>1, <2>2, <2>3
<1>13. ASSUME NEW x \in Clicks, CancelRead(x) PROVE TypeInv'
  <2> DEFINE new == [clicks[x] EXCEPT !.pc = "answered", !.seen = status[clicks[x].job]]
  <2>1. clicks[x].pc = "recorded" /\ status[clicks[x].job] \in Statuses
    BY <1>13 DEF CancelRead
  <2>2. /\ new \in [pc : ClickPCs, job : Jobs \cup {None}, seen : Statuses]
        /\ new.pc = "answered" /\ new.job = clicks[x].job
    BY <2>1
  <2>3. clicks' = [clicks EXCEPT ![x] = new] /\ UNCHANGED <<ui, polling, aborted, submits, mounted>>
    BY <1>13 DEF CancelRead
  <2> HIDE DEF new
  <2>4. clicks' \in [Clicks -> [pc : ClickPCs, job : Jobs \cup {None}, seen : Statuses]]
    BY <2>2, <2>3
  <2>5. TypeOK'
    BY <2>3, <2>4, <1>2
  <2>6. QED
    BY <2>1, <2>2, <2>3, <2>5
<1>14. ASSUME NEW x \in Clicks, CancelAnswered(x) PROVE TypeInv'
  BY <1>14, <1>2 DEF CancelAnswered, Show
<1>15. ASSUME NEW x \in Clicks, CancelFails(x) PROVE TypeInv'
  <2>1. /\ ui' = [ui EXCEPT !.error = TRUE]
        /\ clicks' = [clicks EXCEPT ![x].pc = "done"]
        /\ UNCHANGED <<polling, aborted, submits, mounted>>
        /\ clicks[x].pc # "idle"
    BY <1>15 DEF CancelFails
  <2>2. TypeOK'
    <3>1. ui' \in [job : Jobs \cup {None}, seen : Statuses, submitting : BOOLEAN, error : BOOLEAN]
      BY <2>1
    <3>2. submits' \in [Submits -> [pc : SubmitPCs, job : Jobs \cup {None}, seen : Statuses]]
      BY <2>1
    <3>3. QED
      BY <2>1, <3>1, <3>2, <1>2
  <2>3. QED
    BY <2>1, <2>2
<1>16. ASSUME NEW j \in Jobs, ServerRuns(j) PROVE TypeInv'
  BY <1>16, <1>2 DEF ServerRuns
<1>17. CASE Unmount
  BY <1>17, <1>2 DEF Unmount, Current
<1>18. CASE Idle \/ UNCHANGED vars
  BY <1>18, <1>2 DEF Idle, vars
<1>19. QED
  BY <1>3, <1>4, <1>5, <1>6, <1>7, <1>8, <1>9, <1>10, <1>11, <1>12, <1>13, <1>14, <1>15,
     <1>16, <1>17, <1>18 DEF Next, SubmitRuns, ClickRuns

LEMMA TypeInit == Init => TypeInv
BY HookAssumption DEF Init, Server!Init, Blank, TypeInv, TypeOK, Named, Alive, SubmitPCs, ClickPCs,
   Statuses

\* The hook, the calls and the jobs keep their types whatever the network does,
\* and no call polls or cancels a job it does not know.
THEOREM TypeCorrect == Spec => []TypeOK
<1>1. Spec => []TypeInv
  BY TypeInit, TypeStep, PTL DEF Spec
<1>2. TypeInv => TypeOK
  BY DEF TypeInv
<1>3. QED
  BY <1>1, <1>2, PTL

-----------------------------------------------------------------------------
(* One polling loop                                                        *)

LEMMA PollerStep ==
  ASSUME TypeInv, PollerInv, [Next]_vars
  PROVE  PollerInv'
<1> USE HookAssumption DEF TypeInv, TypeOK, PollerInv, Alive
<1>1. ASSUME NEW c \in Submits, Submit(c) PROVE PollerInv'
  BY <1>1 DEF Submit, Goto, Current
<1>2. ASSUME NEW c \in Submits, CreateServed(c) PROVE PollerInv'
  BY <1>2 DEF CreateServed
<1>3. ASSUME NEW c \in Submits, CreateAnswered(c) PROVE PollerInv'
  BY <1>3 DEF CreateAnswered, Goto
<1>4. ASSUME NEW c \in Submits, CreateFails(c) \/ PollFails(c) \/ AbortSeen(c) PROVE PollerInv'
  BY <1>4 DEF CreateFails, PollFails, AbortSeen, Goto
<1>5. ASSUME NEW c \in Submits, PollServed(c) PROVE PollerInv'
  BY <1>5 DEF PollServed
<1>6. ASSUME NEW c \in Submits, PollDelivered(c) \/ WaitElapsed(c) PROVE PollerInv'
  BY <1>6 DEF PollDelivered, WaitElapsed, Goto
<1>7. ASSUME NEW x \in Clicks, CancelClick(x) PROVE PollerInv'
  BY <1>7 DEF CancelClick
<1>8. ASSUME NEW x \in Clicks, ClickRuns(x) PROVE PollerInv'
  BY <1>8 DEF ClickRuns, CancelServed, CancelRead, CancelAnswered, CancelFails
<1>9. ASSUME NEW j \in Jobs, ServerRuns(j) PROVE PollerInv'
  BY <1>9 DEF ServerRuns
<1>10. CASE Unmount \/ Idle \/ UNCHANGED vars
  BY <1>10 DEF Unmount, Idle, vars
<1>11. QED
  BY <1>1, <1>2, <1>3, <1>4, <1>5, <1>6, <1>7, <1>8, <1>9, <1>10 DEF Next, SubmitRuns

\* At most one polling loop is alive, the one of the current controller.
THEOREM OneLoop == Spec => []OnePoller
<1>1. Init => TypeInv /\ PollerInv
  BY TypeInit DEF Init, PollerInv, Alive
<1>2. TypeInv /\ PollerInv /\ [Next]_vars => (TypeInv /\ PollerInv)'
  BY TypeStep, PollerStep
<1>3. TypeInv /\ PollerInv => OnePoller
  BY DEF PollerInv, OnePoller, Alive
<1>4. QED
  BY <1>1, <1>2, <1>3, PTL DEF Spec

-----------------------------------------------------------------------------
(* What is shown is true                                                   *)

LEMMA TruthStep ==
  ASSUME TypeInv, TruthInv, [Next]_vars
  PROVE  TruthInv'
<1> USE HookAssumption DEF TypeInv
<1>1. ServerOk
  BY ServerStable
\* What agrees with a job before the step agrees with it afterwards.
<1>2. /\ \A j \in Jobs : status[j] # "ABSENT" => status'[j] # "ABSENT"
      /\ \A j \in Jobs : \A seen \in Statuses :
           Agrees(j, seen) => /\ status'[j] # "ABSENT" /\ seen # "ABSENT"
                              /\ seen \in Terminal => status'[j] = seen
  BY <1>1 DEF TypeOK, ServerOk, Agrees
<1>3. ui'.job = ui.job /\ ui'.seen = ui.seen => UiTrue'
  BY <1>2 DEF TypeOK, TruthInv, UiTrue, Agrees
<1>4. ASSUME NEW c \in Submits, submits'[c].job = submits[c].job, submits'[c].seen = submits[c].seen
      PROVE  SubmitTrue(c)'
  BY <1>2, <1>4 DEF TypeOK, TruthInv, SubmitTrue, Agrees
<1>5. ASSUME NEW x \in Clicks, clicks'[x].job = clicks[x].job,
             clicks'[x].pc = "answered" => /\ clicks[x].pc = "answered"
                                           /\ clicks'[x].seen = clicks[x].seen
      PROVE  ClickTrue(x)'
  BY <1>2, <1>5 DEF TypeOK, TruthInv, ClickTrue, Agrees, Named
<1>6. submits' = submits => \A c \in Submits : SubmitTrue(c)'
  BY <1>4
<1>7. clicks' = clicks => \A x \in Clicks : ClickTrue(x)'
  BY <1>5
<1> USE DEF TypeOK
<1>8. ASSUME NEW c \in Submits, Submit(c) PROVE TruthInv'
  <2>1. UiTrue'
    BY <1>8 DEF Submit, Blank, UiTrue
  <2>2. \A d \in Submits : submits'[d].job = submits[d].job /\ submits'[d].seen = submits[d].seen
    BY <1>8 DEF Submit, Goto
  <2>3. QED
    BY <1>8, <1>4, <1>7, <2>1, <2>2 DEF Submit, TruthInv
<1>9. ASSUME NEW c \in Submits, CreateServed(c) PROVE TruthInv'
  <2>1. PICK j \in Jobs : /\ Server!Submit(j)
                          /\ submits' = [submits EXCEPT ![c] = [pc |-> "created", job |-> j,
                                                                seen |-> "QUEUED"]]
    BY <1>9 DEF CreateServed
  <2>2. status'[j] = "QUEUED"
    BY <2>1 DEF Server!Submit, Server!Move
  <2>3. SubmitTrue(c)'
    BY <2>1, <2>2 DEF SubmitTrue, Agrees, Terminal
  <2>4. \A d \in Submits \ {c} : submits'[d] = submits[d]
    BY <2>1
  <2>5. QED
    BY <1>9, <1>3, <1>4, <1>7, <2>3, <2>4 DEF CreateServed, TruthInv
<1>10. ASSUME NEW c \in Submits, CreateAnswered(c) \/ PollDelivered(c) PROVE TruthInv'
  <2>1. \A d \in Submits : submits'[d].job = submits[d].job /\ submits'[d].seen = submits[d].seen
    BY <1>10 DEF CreateAnswered, PollDelivered, Goto
  <2>2. /\ submits[c].job \in Jobs /\ submits[c].seen \in Statuses
        /\ Agrees(submits[c].job, submits[c].seen)
    BY <1>10 DEF CreateAnswered, PollDelivered, Named, Alive, TruthInv, SubmitTrue
  <2>3. ui'.job = submits[c].job /\ ui'.seen = submits[c].seen
    BY <1>10 DEF CreateAnswered, PollDelivered, Show
  <2>4. UiTrue'
    BY <2>2, <2>3, <1>2 DEF UiTrue, Agrees
  <2>5. QED
    BY <1>10, <1>4, <1>7, <2>1, <2>4 DEF CreateAnswered, PollDelivered, TruthInv
<1>11. ASSUME NEW c \in Submits,
              CreateFails(c) \/ PollFails(c) \/ AbortSeen(c) \/ WaitElapsed(c)
       PROVE  TruthInv'
  <2>1. \A d \in Submits : submits'[d].job = submits[d].job /\ submits'[d].seen = submits[d].seen
    <3>1. PICK pc \in {"done", "fetching"} : submits' = [submits EXCEPT ![c].pc = pc]
      BY <1>11 DEF CreateFails, PollFails, AbortSeen, WaitElapsed, Goto
    <3>2. QED
      BY <3>1
  <2>2. ui'.job = ui.job /\ ui'.seen = ui.seen
    BY <1>11 DEF CreateFails, PollFails, AbortSeen, WaitElapsed, ShowError
  <2>3. clicks' = clicks
    BY <1>11 DEF CreateFails, PollFails, AbortSeen, WaitElapsed
  <2>4. QED
    BY <1>3, <1>4, <1>7, <2>1, <2>2, <2>3 DEF TruthInv
<1>12. ASSUME NEW c \in Submits, PollServed(c) PROVE TruthInv'
  <2>1. submits'[c].job = submits[c].job /\ submits'[c].seen = status[submits[c].job]
    BY <1>12 DEF PollServed
  <2>2. status' = status /\ \A d \in Submits \ {c} : submits'[d] = submits[d]
    BY <1>12 DEF PollServed, server
  <2>3. SubmitTrue(c)'
    BY <2>1, <2>2 DEF TruthInv, SubmitTrue, Agrees
  <2>4. QED
    BY <1>12, <1>3, <1>4, <1>7, <2>2, <2>3 DEF PollServed, TruthInv
<1>13. ASSUME NEW x \in Clicks, CancelClick(x) PROVE TruthInv'
  <2>1. clicks'[x].job = ui.job /\ clicks'[x].pc = "sent"
    BY <1>13 DEF CancelClick
  <2>2. ui.job \in Jobs /\ status[ui.job] # "ABSENT"
    BY <1>13 DEF CancelClick, Named, TruthInv, UiTrue, Agrees
  <2>3. ClickTrue(x)'
    BY <2>1, <2>2, <1>2 DEF ClickTrue
  <2>4. \A y \in Clicks \ {x} : clicks'[y] = clicks[y]
    BY <1>13 DEF CancelClick
  <2>5. QED
    BY <1>13, <1>3, <1>5, <1>6, <2>3, <2>4 DEF CancelClick, TruthInv
<1>14. ASSUME NEW x \in Clicks, CancelServed(x) \/ CancelFails(x) PROVE TruthInv'
  <2>1. \A y \in Clicks : /\ clicks'[y].job = clicks[y].job
                          /\ clicks'[y].pc = "answered" => clicks'[y] = clicks[y]
    BY <1>14 DEF CancelServed, CancelFails
  <2>2. ui'.job = ui.job /\ ui'.seen = ui.seen /\ submits' = submits
    BY <1>14 DEF CancelServed, CancelFails
  <2>3. QED
    BY <1>3, <1>5, <1>6, <2>1, <2>2 DEF TruthInv
<1>15. ASSUME NEW x \in Clicks, CancelRead(x) PROVE TruthInv'
  <2>1. /\ clicks[x].pc = "recorded" /\ clicks'[x].job = clicks[x].job
        /\ clicks'[x].seen = status[clicks[x].job]
    BY <1>15 DEF CancelRead
  <2>2. status' = status /\ \A y \in Clicks \ {x} : clicks'[y] = clicks[y]
    BY <1>15 DEF CancelRead, server
  <2>3. ClickTrue(x)'
    BY <2>1, <2>2 DEF TruthInv, ClickTrue, Agrees, Named
  <2>4. QED
    BY <1>15, <1>3, <1>5, <1>6, <2>2, <2>3 DEF CancelRead, TruthInv
<1>16. ASSUME NEW x \in Clicks, CancelAnswered(x) PROVE TruthInv'
  <2>1. /\ clicks[x].job \in Jobs /\ clicks[x].seen \in Statuses
        /\ Agrees(clicks[x].job, clicks[x].seen)
    BY <1>16 DEF CancelAnswered, Named, TruthInv, ClickTrue
  <2>2. UiTrue'
    BY <1>16, <2>1, <1>2 DEF CancelAnswered, Show, UiTrue, Agrees
  <2>3. \A y \in Clicks : clicks'[y].job = clicks[y].job /\ clicks'[y].seen = clicks[y].seen
                          /\ (clicks'[y].pc = "answered" => clicks[y].pc = "answered")
    BY <1>16 DEF CancelAnswered
  <2>4. QED
    BY <1>16, <1>5, <1>6, <2>2, <2>3 DEF CancelAnswered, TruthInv
<1>17. ASSUME NEW j \in Jobs, ServerRuns(j) PROVE TruthInv'
  BY <1>17, <1>3, <1>6, <1>7 DEF ServerRuns, TruthInv
<1>18. CASE Unmount \/ Idle \/ UNCHANGED vars
  BY <1>18, <1>3, <1>6, <1>7 DEF Unmount, Idle, vars, TruthInv
<1>19. QED
  BY <1>8, <1>9, <1>10, <1>11, <1>12, <1>13, <1>14, <1>15, <1>16, <1>17, <1>18
     DEF Next, SubmitRuns, ClickRuns

\* A job on screen exists, and an end on screen is the end of the job.
THEOREM ScreenIsTrue == Spec => []ShownIsTrue
<1>1. Init => TypeInv /\ TruthInv
  BY TypeInit DEF Init, Blank, TruthInv, UiTrue, SubmitTrue, ClickTrue
<1>2. TypeInv /\ TruthInv /\ [Next]_vars => (TypeInv /\ TruthInv)'
  BY TypeStep, TruthStep
<1>3. TypeInv /\ TruthInv => ShownIsTrue
  BY DEF TruthInv, UiTrue, ShownIsTrue, Agrees
<1>4. QED
  BY <1>1, <1>2, <1>3, PTL DEF Spec

-----------------------------------------------------------------------------
(* Polling never goes back                                                 *)

LEMMA OwnStep ==
  ASSUME TypeInv, PollerInv, TruthInv, OwnInv, [Next]_vars
  PROVE  OwnInv'
<1> USE HookAssumption DEF TypeInv, TypeOK
\* A step that changes no job of a call, and after which no call polls that
\* was over, preserves the invariant if what is shown and clicked stays.
<1>1. ASSUME \A c \in Submits : /\ submits'[c].job = submits[c].job
                                /\ Over(c) => Over(c)'
                                /\ submits'[c].pc = "created" => submits[c].pc = "created",
             ui'.job = ui.job \/ ui'.job = None,
             ui'.job = None \/ ui'.seen = ui.seen,
             \A x \in Clicks : clicks'[x].job = clicks[x].job
      PROVE  OwnInv'
  BY <1>1 DEF OwnInv, Own
<1>2. ASSUME NEW c \in Submits, Submit(c) PROVE OwnInv'
  <2>1. /\ submits' = [submits EXCEPT ![c].pc = "creating"] /\ submits[c].pc = "idle"
        /\ aborted \subseteq aborted' /\ clicks' = clicks
    BY <1>2 DEF Submit, Goto
  <2>2. ui'.job = None
    BY <1>2 DEF Submit, Blank
  <2>3. \A d \in Submits : /\ submits'[d].job = submits[d].job
                           /\ Over(d) => Over(d)'
                           /\ submits'[d].pc = "created" => submits[d].pc = "created"
    BY <2>1 DEF Over
  <2>4. QED
    BY <1>1, <2>1, <2>2, <2>3
<1>3. ASSUME NEW c \in Submits, CreateServed(c) PROVE OwnInv'
  <2>1. PICK j \in Jobs : /\ Server!Submit(j)
                          /\ submits' = [submits EXCEPT ![c] = [pc |-> "created", job |-> j,
                                                                seen |-> "QUEUED"]]
    BY <1>3 DEF CreateServed
  <2>2. status[j] = "ABSENT"
    BY <2>1 DEF Server!Submit, Server!Move
  <2>3. /\ ui.job # j
        /\ \A d \in Submits : submits[d].job # j
        /\ \A x \in Clicks : clicks[x].job # j
    BY <2>2 DEF TruthInv, UiTrue, SubmitTrue, ClickTrue, Agrees
  <2>4. UNCHANGED <<ui, aborted, clicks>>
    BY <1>3 DEF CreateServed
  <2>5. submits'[c] = [pc |-> "created", job |-> j, seen |-> "QUEUED"]
    BY <2>1
  <2>6. \A d \in Submits \ {c} : submits'[d] = submits[d]
    BY <2>1
  <2>7. Own(c)'
    BY <2>3, <2>4, <2>5, <2>6 DEF Own
  <2>8. ASSUME NEW d \in Submits \ {c} PROVE Own(d)'
    BY <2>3, <2>4, <2>5, <2>6 DEF OwnInv, Own, Over
  <2>9. QED
    BY <2>7, <2>8 DEF OwnInv
<1>4. ASSUME NEW c \in Submits, CreateAnswered(c) PROVE OwnInv'
  <2>1. /\ submits[c].pc = "created" /\ UNCHANGED <<aborted, clicks>>
        /\ ui'.job = submits[c].job /\ ui'.seen = submits[c].seen
    BY <1>4 DEF CreateAnswered, Show
  <2>2. PICK pc \in {"fetching", "done"} : submits' = [submits EXCEPT ![c].pc = pc]
    BY <1>4 DEF CreateAnswered, Goto
  <2>3. submits[c].job # None
    BY <2>1 DEF Named, Alive
  <2>4. \A d \in Submits : /\ submits'[d].job = submits[d].job
                           /\ d # c => submits'[d].pc = submits[d].pc
    BY <2>2
  <2>5. submits'[c].pc # "created"
    BY <2>2
  <2>6. ui'.seen \notin Terminal
    BY <2>1 DEF Named, Terminal
  <2>7. QED
    BY <2>1, <2>3, <2>4, <2>5, <2>6 DEF OwnInv, Own, Over
<1>5. ASSUME NEW c \in Submits, PollDelivered(c) PROVE OwnInv'
  <2>1. /\ submits[c].pc = "reading" /\ UNCHANGED <<aborted, clicks>>
        /\ ui'.job = submits[c].job /\ ui'.seen = submits[c].seen
    BY <1>5 DEF PollDelivered, Show
  <2>2. submits' = [submits EXCEPT ![c].pc =
                      IF submits[c].seen \in Terminal THEN "done" ELSE "waiting"]
    BY <1>5 DEF PollDelivered, Goto
  <2>3. \A d \in Submits : /\ submits'[d].job = submits[d].job
                           /\ d # c => submits'[d].pc = submits[d].pc
    BY <2>2
  <2>4. /\ submits'[c].pc # "created"
        /\ submits[c].seen \in Terminal => submits'[c].pc = "done"
    BY <2>2
  <2>5. submits[c].job # None
    BY <2>1 DEF Named, Alive
  <2>6. QED
    BY <2>1, <2>3, <2>4, <2>5 DEF OwnInv, Own, Over
<1>6. ASSUME NEW c \in Submits,
             CreateFails(c) \/ PollFails(c) \/ AbortSeen(c) \/ WaitElapsed(c)
      PROVE  OwnInv'
  <2>1. PICK pc \in {"done", "fetching"} : submits' = [submits EXCEPT ![c].pc = pc]
    BY <1>6 DEF CreateFails, PollFails, AbortSeen, WaitElapsed, Goto
  <2>2. /\ UNCHANGED <<aborted, clicks>>
        /\ ui'.job = ui.job /\ ui'.seen = ui.seen
    BY <1>6 DEF CreateFails, PollFails, AbortSeen, WaitElapsed, ShowError
  <2>3. submits[c].pc # "done"
    BY <1>6 DEF CreateFails, PollFails, AbortSeen, WaitElapsed
  <2>4. \A d \in Submits : /\ submits'[d].job = submits[d].job
                           /\ Over(d) => Over(d)'
                           /\ submits'[d].pc = "created" => submits[d].pc = "created"
    BY <2>1, <2>2, <2>3 DEF Over
  <2>5. QED
    BY <1>1, <2>2, <2>4
<1>7. ASSUME NEW c \in Submits, PollServed(c) PROVE OwnInv'
  <2>1. UNCHANGED <<ui, aborted, clicks>> /\ submits[c].pc = "fetching"
    BY <1>7 DEF PollServed
  <2>2. submits'[c].pc = "reading" /\ submits'[c].job = submits[c].job
    BY <1>7 DEF PollServed
  <2>3. \A d \in Submits \ {c} : submits'[d] = submits[d]
    BY <1>7 DEF PollServed
  <2>4. \A d \in Submits : /\ submits'[d].job = submits[d].job
                           /\ Over(d) => Over(d)'
                           /\ submits'[d].pc = "created" => submits[d].pc = "created"
    BY <2>1, <2>2, <2>3 DEF Over
  <2>5. QED
    BY <1>1, <2>1, <2>4
<1>8. ASSUME NEW x \in Clicks, CancelClick(x) PROVE OwnInv'
  <2>1. /\ UNCHANGED <<ui, submits>> /\ aborted' = aborted \cup ({polling} \ {None})
        /\ ui.seen \in {"QUEUED", "RUNNING"}
    BY <1>8 DEF CancelClick, Current
  <2>2. clicks'[x].job = ui.job /\ \A y \in Clicks \ {x} : clicks'[y] = clicks[y]
    BY <1>8 DEF CancelClick
  \* The call of the job on screen polls, or is over.
  <2>3. ASSUME NEW c \in Submits, submits[c].job # None, ui.job = submits[c].job
        PROVE  submits[c].pc # "created" /\ Over(c)'
    <3>1. submits[c].pc # "created"
      BY <2>3 DEF OwnInv, Own
    <3>2. submits[c].pc \in Alive \/ submits[c].pc = "done"
      BY <2>3 DEF Named, SubmitPCs, Alive
    <3>3. QED
      BY <2>1, <3>1, <3>2 DEF PollerInv, Over
  <2>4. \A c \in Submits : Over(c) => Over(c)'
    BY <2>1 DEF Over
  <2>5. QED
    BY <2>1, <2>2, <2>3, <2>4 DEF OwnInv, Own
<1>9. ASSUME NEW x \in Clicks, CancelServed(x) \/ CancelRead(x) \/ CancelFails(x) PROVE OwnInv'
  <2>1. UNCHANGED <<aborted, submits>> /\ ui'.job = ui.job /\ ui'.seen = ui.seen
    BY <1>9 DEF CancelServed, CancelRead, CancelFails
  <2>2. \A y \in Clicks : clicks'[y].job = clicks[y].job
    <3>1. CASE CancelServed(x)
      <4>1. PICK pc \in ClickPCs : clicks' = [clicks EXCEPT ![x].pc = pc]
        BY <3>1 DEF CancelServed, ClickPCs
      <4>2. QED
        BY <4>1
    <3>2. CASE CancelRead(x)
      BY <3>2 DEF CancelRead
    <3>3. CASE CancelFails(x)
      BY <3>3 DEF CancelFails
    <3>4. QED
      BY <1>9, <3>1, <3>2, <3>3
  <2>3. QED
    BY <1>1, <2>1, <2>2 DEF Over
<1>10. ASSUME NEW x \in Clicks, CancelAnswered(x) PROVE OwnInv'
  <2>1. /\ UNCHANGED <<aborted, submits>>
        /\ ui'.job = clicks[x].job /\ ui'.seen = clicks[x].seen
    BY <1>10 DEF CancelAnswered, Show
  <2>2. \A y \in Clicks : clicks'[y].job = clicks[y].job
    BY <1>10 DEF CancelAnswered
  <2>3. QED
    BY <2>1, <2>2 DEF OwnInv, Own, Over
<1>11. ASSUME NEW j \in Jobs, ServerRuns(j) PROVE OwnInv'
  BY <1>11, <1>1 DEF ServerRuns, Over
<1>12. CASE Unmount \/ Idle \/ UNCHANGED vars
  BY <1>12, <1>1 DEF Unmount, Idle, vars, Over
<1>13. QED
  BY <1>2, <1>3, <1>4, <1>5, <1>6, <1>7, <1>8, <1>9, <1>10, <1>11, <1>12
     DEF Next, SubmitRuns, ClickRuns

\* An end that is on screen is replaced only by another job or by the answer
\* to a cancellation.
LEMMA RegressStep ==
  ASSUME TypeInv, OwnInv, [Next]_vars,
         ui.seen \in Terminal, ui'.job = ui.job, ui'.seen # ui.seen
  PROVE  \E x \in Clicks : clicks[x].pc = "answered" /\ clicks'[x].pc = "done"
<1> USE HookAssumption DEF TypeInv, TypeOK
<1>1. ui.job # None
  BY DEF Named, Terminal
<1>2. ASSUME NEW c \in Submits, CreateAnswered(c) PROVE FALSE
  BY <1>1, <1>2 DEF CreateAnswered, Show, OwnInv, Own
<1>3. ASSUME NEW c \in Submits, PollDelivered(c) PROVE FALSE
  BY <1>1, <1>3 DEF PollDelivered, Show, OwnInv, Own, Over
<1>4. ASSUME NEW c \in Submits, Submit(c) PROVE FALSE
  BY <1>1, <1>4 DEF Submit, Blank
<1>5. ASSUME NEW c \in Submits,
             CreateServed(c) \/ CreateFails(c) \/ PollServed(c) \/ PollFails(c)
               \/ WaitElapsed(c) \/ AbortSeen(c)
      PROVE  FALSE
  BY <1>5 DEF CreateServed, CreateFails, PollServed, PollFails, WaitElapsed, AbortSeen, ShowError
<1>6. ASSUME NEW x \in Clicks, CancelAnswered(x)
      PROVE  clicks[x].pc = "answered" /\ clicks'[x].pc = "done"
  BY <1>6 DEF CancelAnswered
<1>7. ASSUME NEW x \in Clicks,
             CancelClick(x) \/ CancelServed(x) \/ CancelRead(x) \/ CancelFails(x)
      PROVE  FALSE
  BY <1>7 DEF CancelClick, CancelServed, CancelRead, CancelFails
<1>8. ASSUME NEW j \in Jobs, ServerRuns(j) PROVE FALSE
  BY <1>8 DEF ServerRuns
<1>9. CASE Unmount \/ Idle \/ UNCHANGED vars
  BY <1>9 DEF Unmount, Idle, vars
<1>10. QED
  BY <1>2, <1>3, <1>4, <1>5, <1>6, <1>7, <1>8, <1>9 DEF Next, SubmitRuns, ClickRuns

\* Polling never shows something older than what is on screen.
THEOREM NeverRegresses == Spec => PollingNeverRegresses
<1>1. Init => TypeInv /\ PollerInv /\ TruthInv /\ OwnInv
  BY TypeInit DEF Init, PollerInv, Alive, Blank, TruthInv, UiTrue, SubmitTrue, ClickTrue, OwnInv, Own
<1>2. TypeInv /\ PollerInv /\ TruthInv /\ OwnInv /\ [Next]_vars
        => (TypeInv /\ PollerInv /\ TruthInv /\ OwnInv)'
  BY TypeStep, PollerStep, TruthStep, OwnStep
<1>3. TypeInv /\ OwnInv /\ [Next]_vars
        => [ui.seen \in Terminal /\ ui'.job = ui.job /\ ui'.seen # ui.seen
              => \E x \in Clicks : clicks[x].pc = "answered" /\ clicks'[x].pc = "done"]_vars
  BY RegressStep
<1>4. QED
  BY <1>1, <1>2, <1>3, PTL DEF Spec, PollingNeverRegresses

-----------------------------------------------------------------------------
(* Polling stops only when it is told to                                   *)

LEMMA AbortStep ==
  ASSUME TypeInv, TruthInv, AbortInv, [Next]_vars
  PROVE  AbortInv'
<1> USE HookAssumption DEF TypeInv, TypeOK, AbortInv
\* A step after which no call has started that had not, and no job is new to anyone.
<1>1. ASSUME \A c \in Submits : /\ submits'[c].job = submits[c].job
                                /\ submits'[c].pc # "idle" => submits[c].pc # "idle",
             \A x \in Clicks : clicks'[x].job = clicks[x].job,
             aborted \subseteq aborted', polling' = polling
      PROVE  AbortInv'
  BY <1>1
<1>2. ASSUME NEW c \in Submits, Submit(c) PROVE AbortInv'
  <2>1. /\ aborted' = aborted \cup ({polling} \ {None}) /\ polling' = c /\ clicks' = clicks
        /\ submits' = [submits EXCEPT ![c].pc = "creating"]
    BY <1>2 DEF Submit, Goto, Current
  <2>2. \A d \in Submits : /\ submits'[d].job = submits[d].job
                           /\ d # c => submits'[d].pc = submits[d].pc
    BY <2>1
  <2>3. QED
    BY <2>1, <2>2
<1>3. ASSUME NEW c \in Submits, CreateServed(c) PROVE AbortInv'
  <2>1. PICK j \in Jobs : /\ Server!Submit(j)
                          /\ submits' = [submits EXCEPT ![c] = [pc |-> "created", job |-> j,
                                                                seen |-> "QUEUED"]]
    BY <1>3 DEF CreateServed
  <2>2. /\ status[j] = "ABSENT" /\ submits[c].pc = "creating"
        /\ UNCHANGED <<aborted, polling, clicks>>
    BY <1>3, <2>1 DEF CreateServed, Server!Submit, Server!Move
  <2>3. \A x \in Clicks : clicks[x].job # j
    BY <2>2 DEF TruthInv, ClickTrue
  <2>4. submits'[c].job = j /\ \A d \in Submits \ {c} : submits'[d] = submits[d]
    BY <2>1
  <2>5. QED
    BY <2>2, <2>3, <2>4
<1>4. ASSUME NEW c \in Submits,
             CreateAnswered(c) \/ CreateFails(c) \/ PollDelivered(c) \/ PollFails(c)
               \/ WaitElapsed(c) \/ AbortSeen(c)
      PROVE  AbortInv'
  <2>1. PICK pc \in SubmitPCs : submits' = [submits EXCEPT ![c].pc = pc]
    BY <1>4 DEF CreateAnswered, CreateFails, PollDelivered, PollFails, WaitElapsed, AbortSeen,
         Goto, SubmitPCs
  <2>2. submits[c].pc # "idle" /\ UNCHANGED <<aborted, polling, clicks>>
    BY <1>4 DEF CreateAnswered, CreateFails, PollDelivered, PollFails, WaitElapsed, AbortSeen
  <2>3. \A d \in Submits : /\ submits'[d].job = submits[d].job
                           /\ d # c => submits'[d].pc = submits[d].pc
    BY <2>1
  <2>4. QED
    BY <1>1, <2>2, <2>3
<1>5. ASSUME NEW c \in Submits, PollServed(c) PROVE AbortInv'
  <2>1. submits[c].pc = "fetching" /\ UNCHANGED <<aborted, polling, clicks>>
    BY <1>5 DEF PollServed
  <2>2. \A d \in Submits : /\ submits'[d].job = submits[d].job
                           /\ d # c => submits'[d].pc = submits[d].pc
    BY <1>5 DEF PollServed
  <2>3. QED
    BY <1>1, <2>1, <2>2
<1>6. ASSUME NEW x \in Clicks, CancelClick(x) PROVE AbortInv'
  <2>1. /\ aborted' = aborted \cup ({polling} \ {None}) /\ UNCHANGED <<submits, polling>>
    BY <1>6 DEF CancelClick, Current
  <2>2. \A c \in Submits : submits[c].pc # "idle" => c \in aborted'
    BY <2>1
  <2>3. \A c \in Submits : submits[c].job # None => c \in aborted'
    BY <2>2 DEF Named
  <2>4. QED
    BY <2>1, <2>2, <2>3
<1>7. ASSUME NEW x \in Clicks, ClickRuns(x) PROVE AbortInv'
  <2>1. UNCHANGED <<submits, aborted, polling>>
    BY <1>7 DEF ClickRuns, CancelServed, CancelRead, CancelAnswered, CancelFails
  <2>2. \A y \in Clicks : clicks'[y].job = clicks[y].job
    <3>1. CASE CancelServed(x)
      BY <3>1 DEF CancelServed
    <3>2. CASE CancelRead(x)
      BY <3>2 DEF CancelRead
    <3>3. CASE CancelAnswered(x) \/ CancelFails(x)
      BY <3>3 DEF CancelAnswered, CancelFails
    <3>4. QED
      BY <1>7, <3>1, <3>2, <3>3 DEF ClickRuns
  <2>3. QED
    BY <1>1, <2>1, <2>2
<1>8. ASSUME NEW j \in Jobs, ServerRuns(j) PROVE AbortInv'
  BY <1>1, <1>8 DEF ServerRuns
<1>9. CASE Unmount \/ Idle \/ UNCHANGED vars
  BY <1>1, <1>9 DEF Unmount, Idle, vars
<1>10. QED
  BY <1>2, <1>3, <1>4, <1>5, <1>6, <1>7, <1>8, <1>9 DEF Next, SubmitRuns

LEMMA StopStep ==
  ASSUME TypeInv, TruthInv, OwnInv, AbortInv, StopsOnlyWhenTold, [Next]_vars
  PROVE  StopsOnlyWhenTold'
<1> USE HookAssumption DEF TypeInv, TypeOK, StopsOnlyWhenTold
<1> DEFINE Polls == {"fetching", "reading", "waiting"}
\* What is on screen stays, and no call stops polling that was not told to.
<1>1. ASSUME \A c \in Submits : /\ submits'[c].job = submits[c].job
                                /\ submits[c].pc \in Polls => submits'[c].pc \in Polls \/ c \in aborted',
             ui'.job = ui.job, ui'.seen = ui.seen, ui.error => ui'.error, aborted \subseteq aborted'
      PROVE  StopsOnlyWhenTold'
  BY <1>1
<1>2. ASSUME ui'.error \/ ui'.job = None PROVE StopsOnlyWhenTold'
  BY <1>2
<1>3. ASSUME NEW c \in Submits, Submit(c) PROVE StopsOnlyWhenTold'
  BY <1>2, <1>3 DEF Submit, Blank
<1>4. ASSUME NEW c \in Submits, CreateServed(c) PROVE StopsOnlyWhenTold'
  <2>1. PICK j \in Jobs : /\ Server!Submit(j)
                          /\ submits' = [submits EXCEPT ![c] = [pc |-> "created", job |-> j,
                                                                seen |-> "QUEUED"]]
    BY <1>4 DEF CreateServed
  <2>2. status[j] = "ABSENT" /\ UNCHANGED <<ui, aborted>>
    BY <1>4, <2>1 DEF CreateServed, Server!Submit, Server!Move
  <2>3. ui.job # j
    BY <2>2 DEF TruthInv, UiTrue, Agrees
  <2>4. submits'[c].job = j /\ \A d \in Submits \ {c} : submits'[d] = submits[d]
    BY <2>1
  <2>5. QED
    BY <2>2, <2>3, <2>4
<1>5. ASSUME NEW c \in Submits, CreateAnswered(c) \/ PollDelivered(c) PROVE StopsOnlyWhenTold'
  <2>1. /\ ui'.job = submits[c].job /\ ui'.seen = submits[c].seen /\ UNCHANGED aborted
        /\ submits[c].job # None
    BY <1>5 DEF CreateAnswered, PollDelivered, Show, Named, Alive
  <2>2. \A d \in Submits : submits'[d].job = submits[d].job
    BY <1>5 DEF CreateAnswered, PollDelivered, Goto
  <2>3. \A d \in Submits : submits'[d].job = ui'.job => d = c
    BY <2>1, <2>2 DEF OwnInv, Own
  <2>4. ui'.seen \notin Terminal => submits'[c].pc \in Polls \/ c \in aborted'
    BY <1>5, <2>1 DEF CreateAnswered, PollDelivered, Goto, PollsIfAlive
  <2>5. QED
    BY <2>3, <2>4
<1>6. ASSUME NEW c \in Submits, CreateFails(c) \/ PollFails(c) PROVE StopsOnlyWhenTold'
  BY <1>2, <1>6 DEF CreateFails, PollFails, ShowError
<1>7. ASSUME NEW c \in Submits, AbortSeen(c) PROVE StopsOnlyWhenTold'
  <2>1. \A d \in Submits : submits'[d].job = submits[d].job /\ (d # c => submits'[d] = submits[d])
    BY <1>7 DEF AbortSeen, Goto
  <2>2. c \in aborted /\ UNCHANGED aborted
    BY <1>7 DEF AbortSeen
  <2>3. ui' = ui \/ ui'.error
    BY <1>7 DEF AbortSeen, ShowError
  <2>4. QED
    BY <1>1, <1>2, <2>1, <2>2, <2>3
<1>8. ASSUME NEW c \in Submits, PollServed(c) \/ WaitElapsed(c) PROVE StopsOnlyWhenTold'
  <2>1. \A d \in Submits : /\ submits'[d].job = submits[d].job
                           /\ submits[d].pc \in Polls => submits'[d].pc \in Polls
    <3>1. CASE PollServed(c)
      BY <3>1 DEF PollServed
    <3>2. CASE WaitElapsed(c)
      BY <3>2 DEF WaitElapsed, Goto
    <3>3. QED
      BY <1>8, <3>1, <3>2
  <2>2. UNCHANGED <<ui, aborted>>
    BY <1>8 DEF PollServed, WaitElapsed
  <2>3. QED
    BY <1>1, <2>1, <2>2
<1>9. ASSUME NEW x \in Clicks, CancelAnswered(x) PROVE StopsOnlyWhenTold'
  <2>1. ui'.job = clicks[x].job /\ UNCHANGED <<submits, aborted>>
    BY <1>9 DEF CancelAnswered, Show
  <2>2. \A c \in Submits : submits'[c].job = ui'.job /\ ui'.job # None => c \in aborted'
    BY <2>1 DEF AbortInv
  <2>3. QED
    BY <2>2
<1>10. ASSUME NEW x \in Clicks, CancelFails(x) PROVE StopsOnlyWhenTold'
  BY <1>2, <1>10 DEF CancelFails
<1>11. ASSUME NEW x \in Clicks, CancelClick(x) \/ CancelServed(x) \/ CancelRead(x)
       PROVE  StopsOnlyWhenTold'
  <2>1. UNCHANGED <<ui, submits>> /\ aborted \subseteq aborted'
    BY <1>11 DEF CancelClick, CancelServed, CancelRead
  <2>2. QED
    BY <1>1, <2>1
<1>12. ASSUME NEW j \in Jobs, ServerRuns(j) PROVE StopsOnlyWhenTold'
  BY <1>1, <1>12 DEF ServerRuns
<1>13. CASE Unmount \/ Idle \/ UNCHANGED vars
  BY <1>1, <1>13 DEF Unmount, Idle, vars
<1>14. QED
  BY <1>3, <1>4, <1>5, <1>6, <1>7, <1>8, <1>9, <1>10, <1>11, <1>12, <1>13
     DEF Next, SubmitRuns, ClickRuns

\* A job shown live is polled, or somebody told its call to stop.
THEOREM PollsUnlessTold == Spec => []StopsOnlyWhenTold
<1> DEFINE Inv == TypeInv /\ PollerInv /\ TruthInv /\ OwnInv /\ AbortInv /\ StopsOnlyWhenTold
<1>1. Init => Inv
  BY TypeInit DEF Init, PollerInv, Alive, Blank, TruthInv, UiTrue, SubmitTrue, ClickTrue, OwnInv, Own,
       AbortInv, StopsOnlyWhenTold
<1>2. Inv /\ [Next]_vars => Inv'
  BY TypeStep, PollerStep, TruthStep, OwnStep, AbortStep, StopStep
<1>3. Inv => StopsOnlyWhenTold
  OBVIOUS
<1>4. QED
  BY <1>1, <1>2, <1>3, PTL DEF Spec
=============================================================================
