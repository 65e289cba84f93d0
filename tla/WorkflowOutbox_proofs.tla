------------------------ MODULE WorkflowOutbox_proofs ------------------------
(***************************************************************************)
(* Proofs about WorkflowOutbox, for any number of runs, owners, workers,   *)
(* dispatchers, activity attempts and faults.                              *)
(*                                                                         *)
(* The invariants of the outbox rest on what each process knows about the  *)
(* rows it is about to write: OwnersKnow and JobsKnow say it, step by step *)
(* of the code, and IInv adds what they need of the rows.  From IInv       *)
(* follow that outbox rows are written once, that claims exclude each      *)
(* other, which phase is shown when all is delivered, and that the whole   *)
(* mechanism implements the safety part of WorkflowLifecycle.              *)
(***************************************************************************)
EXTENDS WorkflowOutbox, TLAPS

\* A resolution in progress is about a run that exists.  In its transaction,
\* the run it found cannot be canceled by anyone else, and if it found none the
\* run has ended.
OwnersKnow ==
  \A o \in Owners : owner[o].pc # "idle" =>
    /\ owner[o].run \in Runs
    /\ owner[o].decision \in SubjectStatus
    /\ run[owner[o].run].status # "ABSENT"
    /\ owner[o].pc = "open" =>
         /\ owner[o].found => run[owner[o].run].status # "CANCELED"
         /\ owner[o].decision \in ManualResolution /\ ~owner[o].found
              => run[owner[o].run].status \in TerminalStatus

\* The lock of the subject row: one open transaction per subject.
OwnersExclude ==
  \A o, p \in Owners :
    o # p /\ owner[o].pc = "open" /\ owner[p].pc = "open" => owner[o].run # owner[p].run

\* An activity works on a run that exists.
WorkersKnow ==
  \A w \in Workers : worker[w].pc # "idle" =>
    worker[w].run \in Runs /\ run[worker[w].run].status # "ABSENT"

\* Temporal counts attempts from zero and schedules none beyond the last.
AttemptsBounded ==
  \A r \in Runs :
    /\ exec[r].st \in {"none", "timer"} => exec[r].attempt = 0
    /\ exec[r].st = "activity" => exec[r].attempt < MaximumAttempts

\* Nothing was written about a run that was not created.
AbsentRunsAreBlank ==
  \A r \in Runs : run[r].status = "ABSENT" =>
    /\ subject[r] = "ABSENT"
    /\ exec[r].st = "none"
    /\ cmd[<<r, "START">>].state = "ABSENT"
    /\ cmd[<<r, "CANCEL">>].state = "ABSENT"

\* A dispatcher that holds a command holds one that was written; only a CANCEL
\* is cleaned up after; before it activates the run Temporal has it; and it
\* acknowledges a START only when the run is queued no more.
JobsKnow ==
  \A d \in Dispatchers : disp[d].pc # "idle" =>
    /\ disp[d].run \in Runs
    /\ disp[d].type \in WorkflowCommandType
    /\ cmd[Job(d)].state # "ABSENT"
    /\ disp[d].pc \in {"cancel", "cleanup"} => disp[d].type = "CANCEL"
    /\ disp[d].pc = "activate" => exec[disp[d].run].st # "none"
    /\ disp[d].pc \in {"terminal", "ack", "late"} => run[disp[d].run].status # "QUEUED"

IInv ==
  /\ TypeOK
  /\ OwnersKnow /\ OwnersExclude /\ WorkersKnow /\ JobsKnow
  /\ AttemptsBounded /\ AbsentRunsAreBlank
  /\ CancelIntentKept /\ StartIntentKept /\ ResolvedSubjectHasNoActiveRun

-----------------------------------------------------------------------------
(* The initial states.                                                     *)

LEMMA InitIInv == Init => IInv
<1> SUFFICES ASSUME Init PROVE IInv
  OBVIOUS
<1> USE RunsAssumption, OutboxAssumption
<1>1. TypeOK
  BY DEF Init, RunsInit, TypeOK, RunsTypeOK, AbsentRun, IdleOwner, IdleWorker,
         NoCommand, NoJob, Commands, WorkflowRunRow, OwnerCall, WorkerCall, WorkerStep,
         CommandRow, JobRow, JobStep, Execution
<1>2. OwnersKnow /\ OwnersExclude /\ WorkersKnow /\ JobsKnow
  BY DEF Init, RunsInit, OwnersKnow, OwnersExclude, WorkersKnow, JobsKnow,
         IdleOwner, IdleWorker, NoJob
<1>3. AttemptsBounded
  BY DEF Init, AttemptsBounded
<1>4. /\ AbsentRunsAreBlank /\ CancelIntentKept
      /\ StartIntentKept /\ ResolvedSubjectHasNoActiveRun
  BY DEF Init, RunsInit, AbsentRunsAreBlank, CancelIntentKept, StartIntentKept,
         ResolvedSubjectHasNoActiveRun, ManualResolution, AbsentRun, NoCommand, Commands,
         WorkflowCommandType
<1> QED
  BY <1>1, <1>2, <1>3, <1>4 DEF IInv

-----------------------------------------------------------------------------
(* What the updates of the model keep the type of.                         *)

\* A run's row is replaced by a row, wherever the process thinks it is.
LEMMA RunUpdate ==
  ASSUME NEW f \in [Runs -> WorkflowRunRow], NEW r,
         NEW row, r \in Runs => row \in WorkflowRunRow
  PROVE  [f EXCEPT ![r] = row] \in [Runs -> WorkflowRunRow]
OBVIOUS

\* Each way a row of WorkflowRun is rewritten gives a row.
LEMMA RowUpdates ==
  ASSUME NEW row \in WorkflowRunRow,
         NEW phase \in WorkflowEnginePhase \cup {"NULL"},
         NEW wake \in BOOLEAN, NEW engine
  PROVE  /\ [row EXCEPT !.phase = phase, !.wake = wake] \in WorkflowRunRow
         /\ ActivatedRow(row) \in WorkflowRunRow
         /\ LateRow(row) \in WorkflowRunRow
         /\ CanceledRow(row, engine) \in WorkflowRunRow
         /\ CompletedRow(row) \in WorkflowRunRow
<1> USE DEF WorkflowRunRow, WorkflowStatus, ActiveStatus, TerminalStatus, WorkflowEnginePhase
<1>1. [row EXCEPT !.phase = phase, !.wake = wake] \in WorkflowRunRow
  OBVIOUS
<1>2. ActivatedRow(row) \in WorkflowRunRow
  BY DEF ActivatedRow
<1>3. LateRow(row) \in WorkflowRunRow
  BY DEF LateRow, enginePhaseForTerminalStatus
<1>4. CanceledRow(row, engine) \in WorkflowRunRow
  BY DEF CanceledRow
<1>5. CompletedRow(row) \in WorkflowRunRow
  BY DEF CompletedRow
<1> QED
  BY <1>1, <1>2, <1>3, <1>4, <1>5

LEMMA NewRow == \A engine : NewWorkflowRun(engine) \in WorkflowRunRow
BY DEF NewWorkflowRun, WorkflowRunRow, WorkflowStatus, ActiveStatus, WorkflowEnginePhase

LEMMA JobUpdates ==
  ASSUME TypeOK, NEW d \in Dispatchers, NEW pc \in JobStep
  PROVE  /\ [disp EXCEPT ![d].pc = pc] \in [Dispatchers -> JobRow]
         /\ [disp EXCEPT ![d] = NoJob] \in [Dispatchers -> JobRow]
         /\ \A status \in WorkflowStatus \cup {"ABSENT"} :
              [disp EXCEPT ![d].pc = pc, ![d].snap = status] \in [Dispatchers -> JobRow]
<1> USE DEF TypeOK
<1>1. NoJob \in JobRow
  BY DEF NoJob, JobRow, JobStep
<1>2. /\ [disp[d] EXCEPT !.pc = pc] \in JobRow
      /\ \A status \in WorkflowStatus \cup {"ABSENT"} :
           [disp[d] EXCEPT !.pc = pc, !.snap = status] \in JobRow
  BY DEF JobRow
<1> QED
  BY <1>1, <1>2

LEMMA CommandUpdates ==
  ASSUME TypeOK, NEW c
  PROVE  /\ [cmd EXCEPT ![c].state = "processed"] \in [Commands -> CommandRow]
         /\ \A ready \in BOOLEAN : [cmd EXCEPT ![c].ready = ready] \in [Commands -> CommandRow]
         /\ [cmd EXCEPT ![c] = ClaimedCommand(@)] \in [Commands -> CommandRow]
         /\ [cmd EXCEPT ![c] = NewCommand] \in [Commands -> CommandRow]
<1> USE DEF TypeOK
<1>1. NewCommand \in CommandRow
  BY DEF NewCommand, CommandRow
<1>2. ASSUME c \in Commands
      PROVE  [cmd[c] EXCEPT !.state = "processed"] \in CommandRow
  BY <1>2 DEF CommandRow
<1>3. ASSUME c \in Commands, NEW ready \in BOOLEAN
      PROVE  [cmd[c] EXCEPT !.ready = ready] \in CommandRow
  BY <1>3 DEF CommandRow
<1>4. ASSUME c \in Commands
      PROVE  ClaimedCommand(cmd[c]) \in CommandRow
  BY <1>4 DEF CommandRow, ClaimedCommand
<1> QED
  BY <1>1, <1>2, <1>3, <1>4

LEMMA ExecutionUpdates ==
  ASSUME NEW e \in Execution
  PROVE  /\ Started(e) \in Execution
         /\ Canceled(e) \in Execution
         /\ AttemptFailed(e) \in Execution
         /\ \A st \in {"activity", "running", "completed"} : [e EXCEPT !.st = st] \in Execution
         /\ e.attempt < MaximumAttempts =>
              [st |-> "running", attempt |-> e.attempt + 1] \in Execution
<1> USE OutboxAssumption DEF Execution
<1>1. Started(e) \in Execution /\ Canceled(e) \in Execution /\ AttemptFailed(e) \in Execution
  BY DEF Started, Canceled, AttemptFailed
<1>2. \A st \in {"activity", "running", "completed"} : [e EXCEPT !.st = st] \in Execution
  OBVIOUS
<1>3. e.attempt < MaximumAttempts =>
        [st |-> "running", attempt |-> e.attempt + 1] \in Execution
  OBVIOUS
<1> QED
  BY <1>1, <1>2, <1>3

LEMMA ExecUpdate ==
  ASSUME TypeOK, NEW r, NEW e, r \in Runs => e \in Execution
  PROVE  [exec EXCEPT ![r] = e] \in [Runs -> Execution]
BY DEF TypeOK

LEMMA OwnerUpdates ==
  ASSUME TypeOK, NEW o \in Owners, NEW found \in BOOLEAN
  PROVE  /\ [owner EXCEPT ![o] = IdleOwner] \in [Owners -> OwnerCall]
         /\ [owner EXCEPT ![o].pc = "open", ![o].found = found] \in [Owners -> OwnerCall]
         /\ \A r \in Runs, decision \in SubjectStatus :
              [owner EXCEPT ![o] = [pc |-> "checked", run |-> r, decision |-> decision,
                                    found |-> FALSE]] \in [Owners -> OwnerCall]
BY ZenonT(60) DEF TypeOK, RunsTypeOK, OwnerCall, IdleOwner

LEMMA EffectCounted ==
  ASSUME TypeOK, NEW r
  PROVE  [effects EXCEPT ![r] = @ + 1] \in [Runs -> Nat]
<1>1. CASE r \in Runs
  BY <1>1 DEF TypeOK, RunsTypeOK
<1>2. CASE r \notin Runs
  BY <1>2 DEF TypeOK, RunsTypeOK
<1> QED
  BY <1>1, <1>2

LEMMA WorkerUpdates ==
  ASSUME TypeOK, NEW w \in Workers, NEW pc \in WorkerStep
  PROVE  /\ [worker EXCEPT ![w].pc = pc] \in [Workers -> WorkerCall]
         /\ [worker EXCEPT ![w] = IdleWorker] \in [Workers -> WorkerCall]
         /\ \A r \in Runs, attempt \in Nat :
              [worker EXCEPT ![w] = [pc |-> "load", run |-> r, attempt |-> attempt]]
                \in [Workers -> WorkerCall]
BY DEF TypeOK, RunsTypeOK, WorkerCall, WorkerStep, IdleWorker

-----------------------------------------------------------------------------
(* Type correctness is preserved, action by action.                        *)

LEMMA TypeStep == ASSUME IInv, [Next]_vars PROVE TypeOK'
<1>1. TypeOK /\ RunsTypeOK
  BY DEF IInv, TypeOK
<1>2. /\ run \in [Runs -> WorkflowRunRow]
      /\ subject \in [Runs -> SubjectStatus \cup {"ABSENT"}]
      /\ effects \in [Runs -> Nat]
      /\ owner \in [Owners -> OwnerCall]
      /\ worker \in [Workers -> WorkerCall]
      /\ cmd \in [Commands -> CommandRow]
      /\ disp \in [Dispatchers -> JobRow]
      /\ exec \in [Runs -> Execution]
      /\ faults \in Nat
  BY <1>1 DEF TypeOK, RunsTypeOK
<1>3. faults + 1 \in Nat
  BY <1>2
<1> USE <1>1, <1>2, <1>3 DEF TypeOK, RunsTypeOK
<1>4. ASSUME NEW r \in Runs, Enqueue(r) PROVE TypeOK'
  <2>1. InitialSubject(Kind[r]) \in SubjectStatus
    BY DEF InitialSubject, SubjectStatus, ApprovalStatus, HandoffStatus
  <2> QED
    BY <1>4, <2>1, NewRow, RunUpdate, CommandUpdates DEF Enqueue, EnqueueRun
<1>5. ASSUME NEW r \in Runs, TimerFires(r) PROVE TypeOK'
  BY <1>5, ExecutionUpdates, ExecUpdate DEF TimerFires, businessVars
<1>6. ASSUME NEW r \in Runs, ActivityTimesOut(r) PROVE TypeOK'
  BY <1>6, ExecutionUpdates, ExecUpdate DEF ActivityTimesOut, Fault, businessVars
<1>7. ASSUME NEW o \in Owners, OwnerChecks(o) PROVE TypeOK'
  <2>1. PICK r \in Runs : \E decision \in OwnerDecision(Kind[r]) : OwnerCheck(o, r, decision)
    BY <1>7 DEF OwnerChecks
  <2>2. PICK decision \in OwnerDecision(Kind[r]) : OwnerCheck(o, r, decision)
    BY <2>1
  <2>3. decision \in SubjectStatus
    BY DEF OwnerDecision, SubjectStatus, ApprovalStatus
  <2> QED
    BY <1>7, <2>2, <2>3, OwnerUpdates DEF OwnerChecks, OwnerCheck, outboxVars
<1>8. ASSUME NEW o \in Owners, OwnerOpens(o) PROVE TypeOK'
  BY <1>8, OwnerUpdates DEF OwnerOpens, OwnerOpenTx, outboxVars
<1>9. ASSUME NEW o \in Owners, OwnerResolves(o) PROVE TypeOK'
  <2> DEFINE r == owner[o].run
  <2>1. r \in Runs /\ owner[o].decision \in SubjectStatus
    BY <1>9 DEF OwnerResolves, OwnerCommit, IInv, OwnersKnow
  <2>2. CanceledRow(run[r], Engine[r]) \in WorkflowRunRow
    BY <2>1, RowUpdates
  <2>3. run' \in [Runs -> WorkflowRunRow]
    BY <1>9, <2>1, <2>2 DEF OwnerResolves, OwnerCommit
  <2>4. subject' \in [Runs -> SubjectStatus \cup {"ABSENT"}]
    BY <1>9, <2>1 DEF OwnerResolves, OwnerCommit
  <2>5. cmd' \in [Commands -> CommandRow]
    BY <1>9, CommandUpdates DEF OwnerResolves
  <2> QED
    BY <1>9, <2>3, <2>4, <2>5, OwnerUpdates DEF OwnerResolves, OwnerCommit
<1>10. ASSUME NEW o \in Owners, OwnerFails(o) PROVE TypeOK'
  BY <1>10, OwnerUpdates DEF OwnerFails, OwnerRollback, Fault
<1>11. ASSUME NEW d \in Dispatchers, NEW c \in Commands, ListCommand(d, c) PROVE TypeOK'
  <2>1. [pc |-> "claim", run |-> c[1], type |-> c[2], seen |-> cmd[c].attempts, snap |-> "NULL"]
          \in JobRow
    BY DEF JobRow, JobStep, Commands, CommandRow
  <2> QED
    BY <1>11, <2>1 DEF ListCommand, businessVars
<1>12. ASSUME NEW d \in Dispatchers, ClaimCommand(d) PROVE TypeOK'
  <2>1. disp' \in [Dispatchers -> JobRow]
    <3>1. [disp EXCEPT ![d].pc = "load"] \in [Dispatchers -> JobRow]
      BY JobUpdates DEF JobStep
    <3>2. [disp EXCEPT ![d] = NoJob] \in [Dispatchers -> JobRow]
      BY JobUpdates DEF JobStep
    <3> QED
      BY <1>12, <3>1, <3>2 DEF ClaimCommand, To, Finish
  <2>2. cmd' \in [Commands -> CommandRow]
    <3>1. [cmd EXCEPT ![Job(d)] = ClaimedCommand(@)] \in [Commands -> CommandRow]
      BY CommandUpdates
    <3> QED
      BY <1>12, <3>1 DEF ClaimCommand
  <2> QED
    BY <1>12, <2>1, <2>2 DEF ClaimCommand, businessVars
<1>13. ASSUME NEW d \in Dispatchers, LoadCommand(d) PROVE TypeOK'
  <2>1. disp[d].run \in Runs
    BY <1>13 DEF LoadCommand, IInv, JobsKnow
  <2>2. run[disp[d].run].status \in WorkflowStatus \cup {"ABSENT"}
    BY <2>1 DEF WorkflowRunRow
  <2>3. DispatchStep(disp[d].type, run[disp[d].run].status) \in JobStep
    BY DEF DispatchStep, JobStep
  <2> QED
    BY <1>13, <2>2, <2>3, JobUpdates DEF LoadCommand, businessVars
<1>14. ASSUME NEW d \in Dispatchers, SkipTerminal(d) PROVE TypeOK'
  <2>1. enginePhaseForTerminalStatus(disp[d].snap) \in WorkflowEnginePhase \cup {"NULL"}
    BY DEF enginePhaseForTerminalStatus, TerminalStatus, WorkflowEnginePhase
  <2>2. run' \in [Runs -> WorkflowRunRow]
    BY <1>14, <2>1, RowUpdates DEF SkipTerminal, UpdateRun
  <2> QED
    BY <1>14, <2>2, JobUpdates, CommandUpdates
    DEF SkipTerminal, Processed, Finish, JobStep, businessVars
<1>15. ASSUME NEW d \in Dispatchers, StartExecution(d) PROVE TypeOK'
  BY <1>15, JobUpdates, ExecutionUpdates DEF StartExecution, To, JobStep, businessVars
<1>16. ASSUME NEW d \in Dispatchers, ActivateRun(d) PROVE TypeOK'
  <2>1. disp' \in [Dispatchers -> JobRow]
    <3>1. /\ [disp EXCEPT ![d].pc = "ack"] \in [Dispatchers -> JobRow]
          /\ [disp EXCEPT ![d].pc = "late"] \in [Dispatchers -> JobRow]
      BY JobUpdates DEF JobStep
    <3> QED
      BY <1>16, <3>1 DEF ActivateRun, To
  <2>2. run' \in [Runs -> WorkflowRunRow]
    <3>1. [run EXCEPT ![disp[d].run] = ActivatedRow(@)] \in [Runs -> WorkflowRunRow]
      BY RowUpdates
    <3> QED
      BY <1>16, <3>1 DEF ActivateRun, UpdateRun
  <2> QED
    BY <1>16, <2>1, <2>2 DEF ActivateRun, businessVars
<1>17. ASSUME NEW d \in Dispatchers, AckStart(d) PROVE TypeOK'
  BY <1>17, JobUpdates, CommandUpdates DEF AckStart, Processed, Finish, JobStep, businessVars
<1>18. ASSUME NEW d \in Dispatchers, LateStart(d) PROVE TypeOK'
  BY <1>18, JobUpdates, CommandUpdates, RowUpdates
  DEF LateStart, UpdateRun, Processed, Finish, JobStep, businessVars
<1>19. ASSUME NEW d \in Dispatchers, CancelExecution(d) PROVE TypeOK'
  BY <1>19, JobUpdates, ExecutionUpdates DEF CancelExecution, To, JobStep, businessVars
<1>20. ASSUME NEW d \in Dispatchers, CleanupAsCanceled(d) PROVE TypeOK'
  <2>1. run' \in [Runs -> WorkflowRunRow]
    BY <1>20, RowUpdates DEF CleanupAsCanceled, UpdateRun, WorkflowEnginePhase
  <2> QED
    BY <1>20, <2>1, JobUpdates, CommandUpdates
    DEF CleanupAsCanceled, Processed, Finish, JobStep, businessVars
<1>21. ASSUME NEW d \in Dispatchers, MarkCommandFailed(d) PROVE TypeOK'
  <2>1. run' \in [Runs -> WorkflowRunRow]
    BY <1>21, RowUpdates DEF MarkCommandFailed, UpdateRun, WorkflowEnginePhase
  <2> QED
    BY <1>21, <2>1, JobUpdates, CommandUpdates
    DEF MarkCommandFailed, Finish, JobStep, businessVars
<1>22. ASSUME NEW d \in Dispatchers, DispatchThrows(d) PROVE TypeOK'
  <2>1. exec' \in [Runs -> Execution]
    <3> DEFINE r == disp[d].run
    <3>1. [exec EXCEPT ![r] = Started(@)] \in [Runs -> Execution]
      BY ExecutionUpdates
    <3>2. [exec EXCEPT ![r] = Canceled(@)] \in [Runs -> Execution]
      BY ExecutionUpdates
    <3> QED
      BY <1>22, <3>1, <3>2 DEF DispatchThrows
  <2> QED
    BY <1>22, <2>1, JobUpdates DEF DispatchThrows, Fault, To, JobStep, businessVars
<1>23. ASSUME NEW d \in Dispatchers, DispatcherCrash(d) PROVE TypeOK'
  BY <1>23, JobUpdates DEF DispatcherCrash, Fault, Finish, JobStep, businessVars
<1>24. ASSUME NEW c \in Commands, BecomesAvailable(c) PROVE TypeOK'
  BY <1>24, CommandUpdates DEF BecomesAvailable, businessVars
<1>25. ASSUME NEW w \in Workers, NEW r \in Runs, ActivityStarts(w, r) PROVE TypeOK'
  <2>1. exec[r].attempt \in Nat /\ exec[r].attempt < MaximumAttempts
    BY <1>25, OutboxAssumption DEF ActivityStarts, IInv, AttemptsBounded, Execution
  <2>2. exec' \in [Runs -> Execution]
    BY <1>25, <2>1, ExecutionUpdates DEF ActivityStarts
  <2>3. worker' \in [Workers -> WorkerCall]
    <3>1. "load" \in WorkerStep /\ exec[r].attempt + 1 \in Nat
      BY <2>1 DEF WorkerStep
    <3> QED
      BY <1>25, <3>1, WorkerUpdates DEF ActivityStarts, StartProcessing
  <2> QED
    BY <1>25, <2>2, <2>3 DEF ActivityStarts
<1>26. ASSUME NEW w \in Workers, ActivityProgress(w) PROVE TypeOK'
  <2> DEFINE r == worker[w].run
  <2> USE <1>26 DEF ActivityProgress, outboxVars, WorkerTo
  <2>1. CASE LoadWorkflowRun(w)
    <3>1. NextStepFor(run[r], subject[r]) \in WorkerStep
      BY DEF NextStepFor, WorkerStep
    <3> QED
      BY <2>1, <3>1, WorkerUpdates DEF LoadWorkflowRun
  <2>2. CASE MarkCanceledObserved(w)
    <3>1. run' \in [Runs -> WorkflowRunRow]
      BY <2>2, RowUpdates DEF MarkCanceledObserved, WorkflowEnginePhase
    <3> QED
      BY <2>2, <3>1, WorkerUpdates DEF MarkCanceledObserved, WorkerStep
  <2>3. CASE ExpireApproval(w)
    <3>1. "EXPIRED" \in SubjectStatus
      BY DEF SubjectStatus, ApprovalStatus
    <3>2. subject' \in [Runs -> SubjectStatus \cup {"ABSENT"}]
      BY <2>3, <3>1 DEF ExpireApproval
    <3>3. effects' \in [Runs -> Nat]
      BY <2>3, EffectCounted DEF ExpireApproval
    <3>4. worker' \in [Workers -> WorkerCall]
      BY <2>3, WorkerUpdates DEF ExpireApproval, WorkerStep
    <3> QED
      BY <2>3, <3>2, <3>3, <3>4 DEF ExpireApproval
  <2>4. CASE EmitFollowUp(w)
    <3>1. effects' \in [Runs -> Nat]
      BY <2>4, EffectCounted DEF EmitFollowUp
    <3>2. worker' \in [Workers -> WorkerCall]
      BY <2>4, WorkerUpdates DEF EmitFollowUp, WorkerStep
    <3> QED
      BY <2>4, <3>1, <3>2 DEF EmitFollowUp
  <2>5. CASE CompleteWorkflowRun(w)
    BY <2>5, WorkerUpdates, RowUpdates DEF CompleteWorkflowRun, WorkerStep
  <2> QED
    BY <2>1, <2>2, <2>3, <2>4, <2>5 DEF Processing
<1>27. ASSUME NEW w \in Workers, ActivityEnds(w) PROVE TypeOK'
  <2>1. exec' \in [Runs -> Execution]
    BY <1>27, ExecutionUpdates DEF ActivityEnds
  <2> QED
    BY <1>27, <2>1, WorkerUpdates DEF ActivityEnds, WorkerStep
<1>28. ASSUME NEW w \in Workers, ActivityThrows(w) PROVE TypeOK'
  BY <1>28, WorkerUpdates DEF ActivityThrows, ProcessingThrows, WorkerTo, WorkerStep, Fault
<1>29. ASSUME NEW w \in Workers, ActivityCrash(w) PROVE TypeOK'
  BY <1>29, WorkerUpdates DEF ActivityCrash, WorkerCrash, WorkerStep, Fault
<1>30. CASE UNCHANGED vars
  BY <1>30 DEF vars
<1> QED
  BY <1>4, <1>5, <1>6, <1>7, <1>8, <1>9, <1>10, <1>11, <1>12, <1>13, <1>14, <1>15, <1>16,
     <1>17, <1>18, <1>19, <1>20, <1>21, <1>22, <1>23, <1>24, <1>25, <1>26, <1>27, <1>28,
     <1>29, <1>30
  DEF Next, Dispatch

-----------------------------------------------------------------------------
(* How a step may change what several processes share.                     *)

LEMMA StatusOfUpdates ==
  ASSUME NEW row \in WorkflowRunRow, NEW phase, NEW wake, NEW engine
  PROVE  /\ [row EXCEPT !.phase = phase, !.wake = wake].status = row.status
         /\ ActivatedRow(row).status = "RUNNING"
         /\ LateRow(row).status = row.status
         /\ CanceledRow(row, engine).status = "CANCELED"
         /\ CompletedRow(row).status = IF row.status = "CANCELED" THEN "CANCELED" ELSE "COMPLETED"
BY DEF WorkflowRunRow, ActivatedRow, LateRow, CanceledRow, CompletedRow

\* Who writes WorkflowRun rows.
LEMMA RunWriters ==
  ASSUME [Next]_vars
  PROVE  \/ UNCHANGED run
         \/ \E r \in Runs : Enqueue(r)
         \/ \E o \in Owners : OwnerResolves(o)
         \/ \E d \in Dispatchers : \/ SkipTerminal(d) \/ ActivateRun(d) \/ LateStart(d)
                                   \/ CleanupAsCanceled(d) \/ MarkCommandFailed(d)
         \/ \E w \in Workers : MarkCanceledObserved(w) \/ CompleteWorkflowRun(w)
BY DEF Next, vars, Dispatch, TimerFires, ActivityTimesOut, OwnerChecks, OwnerCheck, OwnerOpens,
       OwnerOpenTx, OwnerFails, OwnerRollback, ListCommand, ClaimCommand, LoadCommand,
       StartExecution, AckStart, CancelExecution, DispatchThrows, DispatcherCrash,
       BecomesAvailable, ActivityStarts, ActivityProgress, Processing, LoadWorkflowRun,
       ExpireApproval, EmitFollowUp, ActivityEnds, ActivityThrows, ProcessingThrows,
       ActivityCrash, WorkerCrash

\* The status of a run changes in four ways: its creation, the activation by a
\* dispatcher after Temporal took it, its completion, and a resolution.
StatusChange(r) ==
  \/ run'[r].status = run[r].status
  \/ Enqueue(r)
  \/ /\ run[r].status \in ActiveStatus /\ run'[r].status = "RUNNING"
     /\ \E d \in Dispatchers : ActivateRun(d) /\ disp[d].run = r
  \/ run[r].status \notin {"ABSENT", "CANCELED"} /\ run'[r].status = "COMPLETED"
  \/ /\ run'[r].status = "CANCELED"
     /\ \E o \in Owners : OwnerResolves(o) /\ owner[o].run = r /\ owner[o].found

LEMMA RunStep ==
  ASSUME IInv, [Next]_vars, NEW r \in Runs
  PROVE  StatusChange(r)
<1>1. run \in [Runs -> WorkflowRunRow]
  BY DEF IInv, TypeOK, RunsTypeOK
<1> USE <1>1 DEF StatusChange
<1>2. CASE UNCHANGED run
  BY <1>2
<1>3. ASSUME NEW q \in Runs, Enqueue(q) PROVE StatusChange(r)
  BY <1>3 DEF Enqueue, EnqueueRun
<1>4. ASSUME NEW o \in Owners, OwnerResolves(o) PROVE StatusChange(r)
  <2>1. owner[o].run \in Runs
    BY <1>4 DEF OwnerResolves, OwnerCommit, IInv, OwnersKnow
  <2>2. CanceledRow(run[owner[o].run], Engine[owner[o].run]).status = "CANCELED"
    BY <2>1, StatusOfUpdates
  <2>3. CASE owner[o].found /\ owner[o].run = r
    BY <1>4, <2>1, <2>2, <2>3 DEF OwnerResolves, OwnerCommit
  <2>4. CASE ~owner[o].found \/ owner[o].run # r
    BY <1>4, <2>1, <2>4 DEF OwnerResolves, OwnerCommit
  <2> QED
    BY <2>3, <2>4
<1>5. ASSUME NEW d \in Dispatchers, SkipTerminal(d) PROVE StatusChange(r)
  BY <1>5, StatusOfUpdates DEF SkipTerminal, UpdateRun
<1>6. ASSUME NEW d \in Dispatchers, ActivateRun(d) PROVE StatusChange(r)
  BY <1>6, StatusOfUpdates DEF ActivateRun, UpdateRun
<1>7. ASSUME NEW d \in Dispatchers, LateStart(d) PROVE StatusChange(r)
  BY <1>7, StatusOfUpdates DEF LateStart, UpdateRun
<1>8. ASSUME NEW d \in Dispatchers, CleanupAsCanceled(d) PROVE StatusChange(r)
  BY <1>8, StatusOfUpdates DEF CleanupAsCanceled, UpdateRun
<1>9. ASSUME NEW d \in Dispatchers, MarkCommandFailed(d) PROVE StatusChange(r)
  BY <1>9, StatusOfUpdates DEF MarkCommandFailed, UpdateRun
<1>10. ASSUME NEW w \in Workers, MarkCanceledObserved(w) PROVE StatusChange(r)
  BY <1>10, StatusOfUpdates DEF MarkCanceledObserved
<1>11. ASSUME NEW w \in Workers, CompleteWorkflowRun(w) PROVE StatusChange(r)
  <2>1. run[worker[w].run].status # "ABSENT"
    BY <1>11 DEF CompleteWorkflowRun, IInv, WorkersKnow
  <2> QED
    BY <1>11, <2>1, StatusOfUpdates DEF CompleteWorkflowRun
<1> QED
  BY <1>2, <1>3, <1>4, <1>5, <1>6, <1>7, <1>8, <1>9, <1>10, <1>11, RunWriters

\* Who writes outbox rows, and how.
CommandChange(c) ==
  \/ cmd'[c].state = cmd[c].state
  \/ /\ cmd'[c].state = "open"
     /\ \E r \in Runs : c = <<r, "START">> /\ Enqueue(r)
  \/ /\ cmd'[c].state = "open"
     /\ \E o \in Owners :
          c = <<owner[o].run, "CANCEL">> /\ OwnerResolves(o) /\ owner[o].found
  \/ /\ cmd'[c].state = "processed"
     /\ \E d \in Dispatchers : c = Job(d) /\ disp[d].pc \in {"terminal", "ack", "late", "cleanup"}

LEMMA CommandWriters ==
  ASSUME [Next]_vars
  PROVE  \/ UNCHANGED cmd
         \/ \E r \in Runs : Enqueue(r)
         \/ \E o \in Owners : OwnerResolves(o)
         \/ \E d \in Dispatchers : \/ ClaimCommand(d) \/ SkipTerminal(d) \/ AckStart(d)
                                   \/ LateStart(d) \/ CleanupAsCanceled(d)
                                   \/ MarkCommandFailed(d)
         \/ \E c \in Commands : BecomesAvailable(c)
BY DEF Next, vars, outboxVars, Dispatch, TimerFires, ActivityTimesOut, OwnerChecks, OwnerOpens,
       OwnerFails, ListCommand, LoadCommand, StartExecution, ActivateRun, CancelExecution,
       DispatchThrows, DispatcherCrash, ActivityStarts, ActivityProgress, ActivityEnds,
       ActivityThrows, ActivityCrash

LEMMA CommandStep ==
  ASSUME IInv, [Next]_vars, NEW c \in Commands
  PROVE  CommandChange(c)
<1>1. cmd \in [Commands -> CommandRow]
  BY DEF IInv, TypeOK
<1> USE <1>1 DEF CommandChange
<1>2. CASE UNCHANGED cmd
  BY <1>2
<1>3. ASSUME NEW r \in Runs, Enqueue(r) PROVE CommandChange(c)
  BY <1>3 DEF Enqueue, NewCommand
<1>4. ASSUME NEW o \in Owners, OwnerResolves(o) PROVE CommandChange(c)
  BY <1>4 DEF OwnerResolves, NeedsTemporalCancel, NewCommand
<1>5. ASSUME NEW d \in Dispatchers, ClaimCommand(d) PROVE CommandChange(c)
  BY <1>5 DEF ClaimCommand, ClaimedCommand
<1>6. ASSUME NEW d \in Dispatchers, SkipTerminal(d) \/ AckStart(d) \/ LateStart(d) \/ CleanupAsCanceled(d)
      PROVE CommandChange(c)
  <2>1. /\ cmd' = [cmd EXCEPT ![Job(d)].state = "processed"]
        /\ disp[d].pc \in {"terminal", "ack", "late", "cleanup"}
    BY <1>6 DEF SkipTerminal, AckStart, LateStart, CleanupAsCanceled, Processed
  <2> QED
    BY <2>1 DEF CommandRow
<1>7. ASSUME NEW d \in Dispatchers, MarkCommandFailed(d) PROVE CommandChange(c)
  BY <1>7 DEF MarkCommandFailed, CommandRow
<1>8. ASSUME NEW e \in Commands, BecomesAvailable(e) PROVE CommandChange(c)
  BY <1>8 DEF BecomesAvailable, CommandRow
<1> QED
  BY <1>2, <1>3, <1>4, <1>5, <1>6, <1>7, <1>8, CommandWriters

\* Who tells Temporal something, or hears from it.
LEMMA ExecutionWriters ==
  ASSUME [Next]_vars
  PROVE  \/ UNCHANGED exec
         \/ \E r \in Runs : TimerFires(r) \/ ActivityTimesOut(r)
         \/ \E d \in Dispatchers : StartExecution(d) \/ CancelExecution(d) \/ DispatchThrows(d)
         \/ \E w \in Workers, r \in Runs : ActivityStarts(w, r)
         \/ \E w \in Workers : ActivityEnds(w)
BY DEF Next, vars, outboxVars, Dispatch, Enqueue, OwnerChecks, OwnerOpens, OwnerResolves,
       OwnerFails, ListCommand, ClaimCommand, LoadCommand, SkipTerminal, ActivateRun, AckStart,
       LateStart, CleanupAsCanceled, MarkCommandFailed, DispatcherCrash, BecomesAvailable,
       ActivityProgress, ActivityThrows, ActivityCrash

\* An execution begins on a dispatcher's command and is never forgotten.
ExecutionChange(r) ==
  \/ exec'[r] = exec[r]
  \/ exec[r].st # "none" /\ exec'[r].st # "none"
  \/ \E d \in Dispatchers : disp[d].pc # "idle" /\ disp[d].run = r /\ exec'[r].st # "none"

LEMMA ExecutionStep ==
  ASSUME IInv, [Next]_vars, NEW r \in Runs
  PROVE  /\ ExecutionChange(r)
         /\ exec'[r].st \in {"none", "timer"} => exec'[r].attempt = 0
         /\ exec'[r].st = "activity" => exec'[r].attempt < MaximumAttempts
<1> DEFINE Goal == /\ ExecutionChange(r)
                   /\ exec'[r].st \in {"none", "timer"} => exec'[r].attempt = 0
                   /\ exec'[r].st = "activity" => exec'[r].attempt < MaximumAttempts
<1>1. /\ exec \in [Runs -> Execution]
      /\ exec[r].st \in {"none", "timer"} => exec[r].attempt = 0
      /\ exec[r].st = "activity" => exec[r].attempt < MaximumAttempts
  BY DEF IInv, TypeOK, AttemptsBounded
<1> USE <1>1, OutboxAssumption DEF ExecutionChange, Execution
<1>2. CASE UNCHANGED exec
  BY <1>2
<1>3. ASSUME NEW q \in Runs, TimerFires(q) PROVE Goal
  BY <1>3 DEF TimerFires
<1>4. ASSUME NEW q \in Runs, ActivityTimesOut(q) PROVE Goal
  BY <1>4 DEF ActivityTimesOut, AttemptFailed
<1>5. ASSUME NEW d \in Dispatchers, StartExecution(d) PROVE Goal
  BY <1>5 DEF StartExecution, Started
<1>6. ASSUME NEW d \in Dispatchers, CancelExecution(d) PROVE Goal
  BY <1>6 DEF CancelExecution, Canceled
<1>7. ASSUME NEW d \in Dispatchers, DispatchThrows(d) PROVE Goal
  BY <1>7 DEF DispatchThrows, Started, Canceled
<1>8. ASSUME NEW w \in Workers, NEW q \in Runs, ActivityStarts(w, q) PROVE Goal
  BY <1>8 DEF ActivityStarts
<1>9. ASSUME NEW w \in Workers, ActivityEnds(w) PROVE Goal
  BY <1>9 DEF ActivityEnds, AttemptFailed, IsCurrentAttempt
<1> QED
  BY <1>2, <1>3, <1>4, <1>5, <1>6, <1>7, <1>8, <1>9, ExecutionWriters

\* What was written stays written, and a status only moves forward.
LEMMA NothingIsForgotten ==
  ASSUME IInv, [Next]_vars, NEW r \in Runs
  PROVE  /\ run[r].status # "ABSENT" => run'[r].status # "ABSENT"
         /\ run[r].status \notin {"ABSENT", "QUEUED"} => run'[r].status \notin {"ABSENT", "QUEUED"}
         /\ run[r].status \in TerminalStatus => run'[r].status \in TerminalStatus
         /\ run[r].status = "CANCELED" => run'[r].status = "CANCELED"
         /\ \A type \in WorkflowCommandType :
              cmd[<<r, type>>].state # "ABSENT" => cmd'[<<r, type>>].state # "ABSENT"
         /\ exec[r].st # "none" => exec'[r].st # "none"
<1>1. StatusChange(r)
  BY RunStep
<1>2. ASSUME NEW o \in Owners, OwnerResolves(o), owner[o].run = r, owner[o].found
      PROVE  run[r].status # "CANCELED"
  BY <1>2 DEF OwnerResolves, OwnerCommit, IInv, OwnersKnow
<1>3. Enqueue(r) => run[r].status = "ABSENT"
  BY DEF Enqueue, EnqueueRun
<1>4. /\ run[r].status # "ABSENT" => run'[r].status # "ABSENT"
      /\ run[r].status \notin {"ABSENT", "QUEUED"} => run'[r].status \notin {"ABSENT", "QUEUED"}
      /\ run[r].status \in TerminalStatus => run'[r].status \in TerminalStatus
      /\ run[r].status = "CANCELED" => run'[r].status = "CANCELED"
  BY <1>1, <1>2, <1>3 DEF StatusChange, ActiveStatus, TerminalStatus
<1>5. ASSUME NEW type \in WorkflowCommandType, cmd[<<r, type>>].state # "ABSENT"
      PROVE  cmd'[<<r, type>>].state # "ABSENT"
  <2>1. CommandChange(<<r, type>>)
    BY CommandStep DEF Commands
  <2> QED
    BY <1>5, <2>1 DEF CommandChange
<1>6. exec[r].st # "none" => exec'[r].st # "none"
  BY ExecutionStep DEF ExecutionChange
<1> QED
  BY <1>4, <1>5, <1>6

\* Who writes approvals and handoffs.
SubjectChange(r) ==
  \/ subject'[r] = subject[r]
  \/ Enqueue(r) /\ subject'[r] = InitialSubject(Kind[r])
  \/ \E o \in Owners : /\ OwnerResolves(o) /\ owner[o].run = r
                       /\ subject'[r] = owner[o].decision
  \/ /\ subject'[r] = "EXPIRED"
     /\ \E w \in Workers : worker[w].pc = "act" /\ worker[w].run = r

LEMMA SubjectStep ==
  ASSUME IInv, [Next]_vars, NEW r \in Runs
  PROVE  SubjectChange(r)
<1>1. subject \in [Runs -> SubjectStatus \cup {"ABSENT"}]
  BY DEF IInv, TypeOK, RunsTypeOK
<1> USE <1>1 DEF SubjectChange
<1>2. CASE UNCHANGED subject
  BY <1>2
<1>3. ASSUME NEW q \in Runs, Enqueue(q) PROVE SubjectChange(r)
  BY <1>3 DEF Enqueue, EnqueueRun
<1>4. ASSUME NEW o \in Owners, OwnerResolves(o) PROVE SubjectChange(r)
  BY <1>4 DEF OwnerResolves, OwnerCommit
<1>5. ASSUME NEW w \in Workers, ExpireApproval(w) PROVE SubjectChange(r)
  BY <1>5 DEF ExpireApproval
<1>6. \/ UNCHANGED subject
      \/ \E q \in Runs : Enqueue(q)
      \/ \E o \in Owners : OwnerResolves(o)
      \/ \E w \in Workers : ExpireApproval(w)
  BY DEF Next, vars, businessVars, Dispatch, TimerFires, ActivityTimesOut, OwnerChecks,
         OwnerCheck, OwnerOpens, OwnerOpenTx, OwnerFails, OwnerRollback, ListCommand,
         ClaimCommand, LoadCommand, SkipTerminal, StartExecution, ActivateRun, AckStart,
         LateStart, CancelExecution, CleanupAsCanceled, MarkCommandFailed, DispatchThrows,
         DispatcherCrash, BecomesAvailable, ActivityStarts, ActivityProgress, Processing,
         LoadWorkflowRun, MarkCanceledObserved, EmitFollowUp, CompleteWorkflowRun, ActivityEnds,
         ActivityThrows, ProcessingThrows, ActivityCrash, WorkerCrash
<1> QED
  BY <1>2, <1>3, <1>4, <1>5, <1>6

-----------------------------------------------------------------------------
(* The rows keep their invariants.                                         *)

LEMMA AttemptsStep == ASSUME IInv, [Next]_vars PROVE AttemptsBounded'
BY ExecutionStep DEF AttemptsBounded

\* A dispatcher that holds a command holds one of a run that exists.
LEMMA JobsExist ==
  ASSUME IInv, NEW d \in Dispatchers, disp[d].pc # "idle"
  PROVE  disp[d].run \in Runs /\ run[disp[d].run].status # "ABSENT"
<1>1. /\ disp[d].run \in Runs /\ disp[d].type \in WorkflowCommandType
      /\ cmd[<<disp[d].run, disp[d].type>>].state # "ABSENT"
  BY DEF IInv, JobsKnow, Job
<1> QED
  BY <1>1 DEF IInv, AbsentRunsAreBlank, WorkflowCommandType

LEMMA CancelIntentStep == ASSUME IInv, [Next]_vars PROVE CancelIntentKept'
<1> SUFFICES ASSUME NEW r \in Runs
             PROVE  run'[r].status = "CANCELED" <=> cmd'[<<r, "CANCEL">>].state # "ABSENT"
  BY DEF CancelIntentKept
<1>1. run[r].status = "CANCELED" <=> cmd[<<r, "CANCEL">>].state # "ABSENT"
  BY DEF IInv, CancelIntentKept
<1>2. /\ run[r].status = "CANCELED" => run'[r].status = "CANCELED"
      /\ cmd[<<r, "CANCEL">>].state # "ABSENT" => cmd'[<<r, "CANCEL">>].state # "ABSENT"
  BY NothingIsForgotten DEF WorkflowCommandType
<1>3. ASSUME NEW o \in Owners, OwnerResolves(o), owner[o].run = r, owner[o].found
      PROVE  run'[r].status = "CANCELED" /\ cmd'[<<r, "CANCEL">>].state # "ABSENT"
  <2>1. run \in [Runs -> WorkflowRunRow] /\ cmd \in [Commands -> CommandRow]
    BY DEF IInv, TypeOK, RunsTypeOK
  <2>2. run'[r].status = "CANCELED"
    BY <1>3, <2>1, StatusOfUpdates DEF OwnerResolves, OwnerCommit
  <2>3. cmd'[<<r, "CANCEL">>] = NewCommand
    BY <1>3, <2>1, OutboxAssumption
    DEF OwnerResolves, NeedsTemporalCancel, Commands, WorkflowCommandType
  <2> QED
    BY <2>2, <2>3 DEF NewCommand
<1>4. run'[r].status = "CANCELED" => cmd'[<<r, "CANCEL">>].state # "ABSENT"
  <2>1. StatusChange(r)
    BY RunStep
  <2>2. Enqueue(r) => run'[r].status # "CANCELED"
    BY DEF Enqueue, EnqueueRun, NewWorkflowRun, IInv, TypeOK, RunsTypeOK
  <2> QED
    BY <1>1, <1>2, <1>3, <2>1, <2>2 DEF StatusChange
<1>5. cmd'[<<r, "CANCEL">>].state # "ABSENT" => run'[r].status = "CANCELED"
  <2>1. CommandChange(<<r, "CANCEL">>)
    BY CommandStep DEF Commands, WorkflowCommandType
  <2>2. ASSUME NEW d \in Dispatchers, <<r, "CANCEL">> = Job(d), disp[d].pc # "idle"
        PROVE  cmd[<<r, "CANCEL">>].state # "ABSENT"
    BY <2>2 DEF IInv, JobsKnow
  <2> QED
    BY <1>1, <1>2, <1>3, <2>1, <2>2 DEF CommandChange
<1> QED
  BY <1>4, <1>5

LEMMA StartIntentStep == ASSUME IInv, [Next]_vars PROVE StartIntentKept'
<1> SUFFICES ASSUME NEW r \in Runs
             PROVE  /\ run'[r].status = "QUEUED" => cmd'[<<r, "START">>].state = "open"
                    /\ run'[r].status = "RUNNING" => exec'[r].st # "none"
  BY DEF StartIntentKept
<1>1. /\ run[r].status = "QUEUED" => cmd[<<r, "START">>].state = "open"
      /\ run[r].status = "RUNNING" => exec[r].st # "none"
  BY DEF IInv, StartIntentKept
<1>2. StatusChange(r)
  BY RunStep
<1>3. ASSUME Enqueue(r) PROVE /\ run'[r].status = "QUEUED"
                              /\ cmd'[<<r, "START">>].state = "open"
  BY <1>3 DEF Enqueue, EnqueueRun, NewWorkflowRun, NewCommand, Commands, WorkflowCommandType,
              IInv, TypeOK, RunsTypeOK
<1>4. ASSUME run'[r].status = "QUEUED" PROVE cmd'[<<r, "START">>].state = "open"
  <2>1. CASE run[r].status = "QUEUED"
    <3>1. CommandChange(<<r, "START">>)
      BY CommandStep DEF Commands, WorkflowCommandType
    <3>2. ASSUME NEW d \in Dispatchers, <<r, "START">> = Job(d),
                 disp[d].pc \in {"terminal", "ack", "late", "cleanup"}
          PROVE  FALSE
      BY <2>1, <3>2 DEF IInv, JobsKnow, Job
    <3> QED
      BY <1>1, <2>1, <3>1, <3>2 DEF CommandChange
  <2>2. CASE run[r].status # "QUEUED"
    BY <1>2, <1>3, <1>4, <2>2 DEF StatusChange
  <2> QED
    BY <2>1, <2>2
<1>5. ASSUME run'[r].status = "RUNNING" PROVE exec'[r].st # "none"
  <2>1. exec[r].st # "none" => exec'[r].st # "none"
    BY NothingIsForgotten
  <2>2. ASSUME NEW d \in Dispatchers, ActivateRun(d), disp[d].run = r
        PROVE  exec[r].st # "none"
    BY <2>2 DEF ActivateRun, IInv, JobsKnow
  <2> QED
    BY <1>1, <1>2, <1>3, <1>5, <2>1, <2>2 DEF StatusChange
<1> QED
  BY <1>4, <1>5

LEMMA ResolvedSubjectStep == ASSUME IInv, [Next]_vars PROVE ResolvedSubjectHasNoActiveRun'
<1> SUFFICES ASSUME NEW r \in Runs, subject'[r] \in ManualResolution
             PROVE  run'[r].status \in TerminalStatus
  BY DEF ResolvedSubjectHasNoActiveRun
<1>1. run[r].status \in TerminalStatus => run'[r].status \in TerminalStatus
  BY NothingIsForgotten
<1>2. SubjectChange(r)
  BY SubjectStep
<1>3. CASE subject'[r] = subject[r]
  BY <1>1, <1>3 DEF IInv, ResolvedSubjectHasNoActiveRun
<1>4. subject'[r] # InitialSubject(Kind[r]) /\ subject'[r] # "EXPIRED"
  BY DEF InitialSubject, ManualResolution
<1>5. ASSUME NEW o \in Owners, OwnerResolves(o), owner[o].run = r,
             subject'[r] = owner[o].decision
      PROVE  run'[r].status \in TerminalStatus
  <2>1. run \in [Runs -> WorkflowRunRow]
    BY DEF IInv, TypeOK, RunsTypeOK
  <2>2. CASE owner[o].found
    BY <1>5, <2>1, <2>2, StatusOfUpdates DEF OwnerResolves, OwnerCommit, TerminalStatus
  <2>3. CASE ~owner[o].found
    BY <1>1, <1>5, <2>3 DEF OwnerResolves, OwnerCommit, IInv, OwnersKnow
  <2> QED
    BY <2>2, <2>3
<1> QED
  BY <1>2, <1>3, <1>4, <1>5 DEF SubjectChange

LEMMA AbsentRunsStep == ASSUME IInv, [Next]_vars PROVE AbsentRunsAreBlank'
<1> SUFFICES ASSUME NEW r \in Runs, run'[r].status = "ABSENT"
             PROVE  /\ subject'[r] = "ABSENT"
                    /\ exec'[r].st = "none"
                    /\ cmd'[<<r, "START">>].state = "ABSENT"
                    /\ cmd'[<<r, "CANCEL">>].state = "ABSENT"
  BY DEF AbsentRunsAreBlank
<1>1. run[r].status = "ABSENT"
  BY NothingIsForgotten
<1>2. /\ subject[r] = "ABSENT" /\ exec[r].st = "none"
      /\ \A type \in WorkflowCommandType : cmd[<<r, type>>].state = "ABSENT"
  BY <1>1 DEF IInv, AbsentRunsAreBlank, WorkflowCommandType
<1>3. ~Enqueue(r)
  BY DEF Enqueue, EnqueueRun, NewWorkflowRun, IInv, TypeOK, RunsTypeOK
<1>4. \A o \in Owners : OwnerResolves(o) => owner[o].run # r
  BY <1>1 DEF OwnerResolves, OwnerCommit, IInv, OwnersKnow
<1>5. \A d \in Dispatchers : disp[d].pc # "idle" => disp[d].run # r
  BY <1>1, JobsExist
<1>6. subject'[r] = "ABSENT"
  <2>1. \A w \in Workers : worker[w].pc = "act" => worker[w].run # r
    BY <1>1 DEF IInv, WorkersKnow
  <2> QED
    BY <1>2, <1>3, <1>4, <2>1, SubjectStep DEF SubjectChange
<1>7. exec'[r].st = "none"
  BY <1>2, <1>5, ExecutionStep DEF ExecutionChange
<1>8. ASSUME NEW type \in WorkflowCommandType PROVE cmd'[<<r, type>>].state = "ABSENT"
  <2>1. CommandChange(<<r, type>>)
    BY CommandStep DEF Commands
  <2> QED
    BY <1>2, <1>3, <1>4, <1>5, <2>1 DEF CommandChange, Job
<1> QED
  BY <1>6, <1>7, <1>8 DEF WorkflowCommandType

-----------------------------------------------------------------------------
(* What each process knows stays true, whatever the others do.             *)

\* An owner's request moves only by its own steps.
LEMMA OwnerStep ==
  ASSUME [Next]_vars, owner \in [Owners -> OwnerCall], NEW o \in Owners
  PROVE  \/ owner'[o] = owner[o] /\ ~OwnerOpens(o) /\ ~OwnerResolves(o)
         \/ owner'[o] = IdleOwner
         \/ OwnerChecks(o) \/ OwnerOpens(o)
<1> USE DEF OwnerCall
<1>1. CASE UNCHANGED owner
  BY <1>1 DEF OwnerOpens, OwnerOpenTx, OwnerResolves, OwnerCommit
<1>2. ASSUME NEW p \in Owners, p # o, OwnerChecks(p) \/ OwnerOpens(p) \/ OwnerResolves(p) \/ OwnerFails(p)
      PROVE  owner'[o] = owner[o]
  BY <1>2 DEF OwnerChecks, OwnerCheck, OwnerOpens, OwnerOpenTx, OwnerResolves, OwnerCommit,
              OwnerFails, OwnerRollback
<1>3. OwnerResolves(o) \/ OwnerFails(o) => owner'[o] = IdleOwner
  BY DEF OwnerResolves, OwnerCommit, OwnerFails, OwnerRollback
<1>4. OwnerOpens(o) \/ OwnerResolves(o) => owner'[o] # owner[o]
  BY DEF OwnerOpens, OwnerOpenTx, OwnerResolves, OwnerCommit, IdleOwner
<1>5. \/ UNCHANGED owner
      \/ \E p \in Owners : OwnerChecks(p) \/ OwnerOpens(p) \/ OwnerResolves(p) \/ OwnerFails(p)
  BY DEF Next, vars, businessVars, Dispatch, Enqueue, EnqueueRun, TimerFires, ActivityTimesOut,
         ListCommand, ClaimCommand, LoadCommand, SkipTerminal, StartExecution, ActivateRun,
         AckStart, LateStart, CancelExecution, CleanupAsCanceled, MarkCommandFailed,
         DispatchThrows, DispatcherCrash, BecomesAvailable, ActivityStarts, ActivityProgress,
         Processing, LoadWorkflowRun, ExpireApproval, EmitFollowUp, MarkCanceledObserved,
         CompleteWorkflowRun, ActivityEnds, ActivityThrows, ProcessingThrows, ActivityCrash,
         WorkerCrash
<1> QED
  BY <1>1, <1>2, <1>3, <1>4, <1>5

\* Opening the transaction finds the run if it is active.
LEMMA OwnerOpened ==
  ASSUME IInv, NEW o \in Owners, OwnerOpens(o)
  PROVE  LET r == owner[o].run IN
         /\ run' = run
         /\ owner[o].pc = "checked" /\ ~SubjectLocked(r)
         /\ owner'[o].pc = "open" /\ owner'[o].run = r
         /\ owner'[o].decision = owner[o].decision
         /\ owner'[o].found <=> owner[o].decision \in ManualResolution
                                /\ run[r].status \in ActiveStatus
<1>1. owner \in [Owners -> OwnerCall]
  BY DEF IInv, TypeOK, RunsTypeOK
<1> QED
  BY <1>1 DEF OwnerOpens, OwnerOpenTx, IsCancelable, OwnerCall

\* What a request that has just looked its subject up knows.
LEMMA OwnerChecked ==
  ASSUME IInv, NEW o \in Owners, OwnerChecks(o)
  PROVE  /\ owner'[o].pc = "checked"
         /\ owner'[o].run \in Runs /\ owner'[o].decision \in SubjectStatus
         /\ run[owner'[o].run].status # "ABSENT"
<1>1. owner \in [Owners -> OwnerCall]
  BY DEF IInv, TypeOK, RunsTypeOK
<1>2. PICK r \in Runs : \E decision \in OwnerDecision(Kind[r]) : OwnerCheck(o, r, decision)
  BY DEF OwnerChecks
<1>3. PICK decision \in OwnerDecision(Kind[r]) : OwnerCheck(o, r, decision)
  BY <1>2
<1>4. decision \in SubjectStatus
  BY DEF OwnerDecision, SubjectStatus, ApprovalStatus
<1>5. run[r].status # "ABSENT"
  BY <1>3 DEF OwnerCheck, IInv, AbsentRunsAreBlank
<1> QED
  BY <1>1, <1>3, <1>4, <1>5 DEF OwnerCheck

LEMMA OwnersKnowStep == ASSUME IInv, [Next]_vars PROVE OwnersKnow'
<1> SUFFICES ASSUME NEW o \in Owners, owner'[o].pc # "idle"
             PROVE  /\ owner'[o].run \in Runs
                    /\ owner'[o].decision \in SubjectStatus
                    /\ run'[owner'[o].run].status # "ABSENT"
                    /\ owner'[o].pc = "open" =>
                         /\ owner'[o].found => run'[owner'[o].run].status # "CANCELED"
                         /\ owner'[o].decision \in ManualResolution /\ ~owner'[o].found
                              => run'[owner'[o].run].status \in TerminalStatus
  BY DEF OwnersKnow
<1> DEFINE r == owner[o].run
<1>1. owner \in [Owners -> OwnerCall] /\ run \in [Runs -> WorkflowRunRow]
  BY DEF IInv, TypeOK, RunsTypeOK
<1>2. owner'[o] # IdleOwner
  BY DEF IdleOwner
<1>3. owner[o].pc # "idle" =>
        /\ r \in Runs /\ owner[o].decision \in SubjectStatus
        /\ run[r].status # "ABSENT"
        /\ owner[o].pc = "open" =>
             /\ owner[o].found => run[r].status # "CANCELED"
             /\ owner[o].decision \in ManualResolution /\ ~owner[o].found
                  => run[r].status \in TerminalStatus
  BY DEF IInv, OwnersKnow
<1>4. CASE owner'[o] = owner[o] /\ ~OwnerResolves(o)
  <2>1. r \in Runs /\ run'[r].status # "ABSENT"
    BY <1>3, <1>4, NothingIsForgotten
  <2>2. ASSUME owner[o].pc = "open", owner[o].found PROVE run'[r].status # "CANCELED"
    <3>1. StatusChange(r)
      BY <2>1, RunStep
    <3>2. ASSUME NEW p \in Owners, OwnerResolves(p), owner[p].run = r PROVE FALSE
      BY <1>4, <2>2, <3>2 DEF OwnerResolves, OwnerCommit, IInv, OwnersExclude
    <3>3. ~Enqueue(r)
      BY <1>3, <2>2 DEF Enqueue, EnqueueRun
    <3> QED
      BY <1>3, <2>2, <3>1, <3>2, <3>3 DEF StatusChange
  <2>3. ASSUME owner[o].pc = "open", owner[o].decision \in ManualResolution, ~owner[o].found
        PROVE  run'[r].status \in TerminalStatus
    BY <1>3, <2>1, <2>3, NothingIsForgotten
  <2> QED
    BY <1>3, <1>4, <2>1, <2>2, <2>3
<1>5. CASE OwnerChecks(o)
  <2>1. run'[owner'[o].run].status # "ABSENT"
    BY <1>5, OwnerChecked, NothingIsForgotten
  <2> QED
    BY <1>5, <2>1, OwnerChecked
<1>6. CASE OwnerOpens(o)
  <2>1. /\ run' = run /\ owner[o].pc = "checked"
        /\ owner'[o].run = r /\ owner'[o].decision = owner[o].decision
        /\ owner'[o].found <=> owner[o].decision \in ManualResolution
                               /\ run[r].status \in ActiveStatus
    BY <1>6, OwnerOpened
  <2>2. r \in Runs /\ owner[o].decision \in SubjectStatus /\ run[r].status # "ABSENT"
    BY <1>3, <2>1
  <2>3. run[r].status \in ActiveStatus \cup TerminalStatus
    BY <1>1, <2>2 DEF WorkflowRunRow, WorkflowStatus
  <2> QED
    BY <2>1, <2>2, <2>3 DEF ActiveStatus
<1> QED
  BY <1>1, <1>2, <1>4, <1>5, <1>6, OwnerStep

LEMMA OwnersExcludeStep == ASSUME IInv, [Next]_vars PROVE OwnersExclude'
<1> SUFFICES ASSUME NEW o \in Owners, NEW p \in Owners, o # p,
                    owner'[o].pc = "open", owner'[p].pc = "open"
             PROVE  owner'[o].run # owner'[p].run
  BY DEF OwnersExclude
<1>1. owner \in [Owners -> OwnerCall]
  BY DEF IInv, TypeOK, RunsTypeOK
<1>2. \A q \in Owners : owner'[q].pc = "open" => owner'[q] = owner[q] \/ OwnerOpens(q)
  BY <1>1, OwnerStep, OwnerChecked DEF IdleOwner
<1>3. ASSUME NEW q \in Owners, OwnerOpens(q), NEW s \in Owners, s # q, owner'[s].pc = "open"
      PROVE  owner'[q].run # owner'[s].run
  <2>1. owner'[s] = owner[s]
    BY <1>1, <1>3 DEF OwnerOpens, OwnerOpenTx
  <2> QED
    BY <1>3, <2>1, OwnerOpened DEF SubjectLocked
<1> QED
  BY <1>2, <1>3 DEF IInv, OwnersExclude

\* An activity is given a run when it starts, and keeps it.
LEMMA WorkersKnowStep == ASSUME IInv, [Next]_vars PROVE WorkersKnow'
<1> SUFFICES ASSUME NEW w \in Workers, worker'[w].pc # "idle"
             PROVE  worker'[w].run \in Runs /\ run'[worker'[w].run].status # "ABSENT"
  BY DEF WorkersKnow
<1>1. worker \in [Workers -> WorkerCall]
  BY DEF IInv, TypeOK, RunsTypeOK
<1> DEFINE Kept == worker[w].pc # "idle" /\ worker'[w].run = worker[w].run
           Given == \E r \in Runs : ActivityStarts(w, r) /\ worker'[w].run = r
<1>2. CASE UNCHANGED worker
  BY <1>2, NothingIsForgotten DEF IInv, WorkersKnow
<1>3. ASSUME NEW v \in Workers,
             \/ ActivityProgress(v) \/ ActivityEnds(v)
             \/ ActivityThrows(v) \/ ActivityCrash(v)
      PROVE  Kept
  <2>1. worker'[w] # IdleWorker
    BY DEF IdleWorker
  <2>2. CASE v # w
    BY <1>1, <1>3, <2>2
    DEF ActivityProgress, Processing, LoadWorkflowRun, MarkCanceledObserved, ExpireApproval,
        EmitFollowUp, CompleteWorkflowRun, WorkerTo, ActivityEnds, ActivityThrows,
        ProcessingThrows, ActivityCrash, WorkerCrash
  <2>3. CASE v = w
    BY <1>1, <1>3, <2>1, <2>3
    DEF ActivityProgress, Processing, LoadWorkflowRun, MarkCanceledObserved, ExpireApproval,
        EmitFollowUp, CompleteWorkflowRun, WorkerTo, ActivityEnds, ActivityThrows,
        ProcessingThrows, ActivityCrash, WorkerCrash, WorkerCall
  <2> QED
    BY <2>2, <2>3
<1>4. ASSUME NEW v \in Workers, NEW r \in Runs, ActivityStarts(v, r)
      PROVE  Kept \/ Given
  BY <1>1, <1>4 DEF ActivityStarts, StartProcessing, WorkerCall
<1>5. \/ UNCHANGED worker
      \/ \E v \in Workers : \/ \E r \in Runs : ActivityStarts(v, r)
                            \/ ActivityProgress(v) \/ ActivityEnds(v)
                            \/ ActivityThrows(v) \/ ActivityCrash(v)
  BY DEF Next, vars, businessVars, Dispatch, Enqueue, EnqueueRun, TimerFires, ActivityTimesOut,
         OwnerChecks, OwnerCheck, OwnerOpens, OwnerOpenTx, OwnerResolves, OwnerCommit,
         OwnerFails, OwnerRollback, ListCommand, ClaimCommand, LoadCommand, SkipTerminal,
         StartExecution, ActivateRun, AckStart, LateStart, CancelExecution, CleanupAsCanceled,
         MarkCommandFailed, DispatchThrows, DispatcherCrash, BecomesAvailable
<1>6. Kept => worker'[w].run \in Runs /\ run'[worker'[w].run].status # "ABSENT"
  BY NothingIsForgotten DEF IInv, WorkersKnow
<1>7. Given => worker'[w].run \in Runs /\ run'[worker'[w].run].status # "ABSENT"
  <2>1. ASSUME NEW r \in Runs, ActivityStarts(w, r) PROVE run[r].status # "ABSENT"
    BY <2>1 DEF ActivityStarts, IInv, AbsentRunsAreBlank
  <2> QED
    BY <2>1, NothingIsForgotten
<1> QED
  BY <1>2, <1>3, <1>4, <1>5, <1>6, <1>7

\* A dispatcher's job moves only by its own steps.
LEMMA JobStepOf ==
  ASSUME [Next]_vars, disp \in [Dispatchers -> JobRow], NEW d \in Dispatchers
  PROVE  \/ disp'[d] = disp[d] \/ disp'[d] = NoJob
         \/ \E c \in Commands : ListCommand(d, c)
         \/ ClaimCommand(d) \/ LoadCommand(d) \/ StartExecution(d) \/ ActivateRun(d)
         \/ CancelExecution(d) \/ DispatchThrows(d)
<1> USE DEF JobRow
<1>1. CASE UNCHANGED disp
  BY <1>1
<1>2. ASSUME NEW e \in Dispatchers, e # d,
             Dispatch(e) \/ DispatchThrows(e) \/ DispatcherCrash(e)
      PROVE  disp'[d] = disp[d]
  BY <1>2 DEF Dispatch, ListCommand, ClaimCommand, LoadCommand, SkipTerminal, StartExecution,
              ActivateRun, AckStart, LateStart, CancelExecution, CleanupAsCanceled,
              MarkCommandFailed, DispatchThrows, DispatcherCrash, To, Finish
<1>3. SkipTerminal(d) \/ AckStart(d) \/ LateStart(d) \/ CleanupAsCanceled(d)
        \/ MarkCommandFailed(d) \/ DispatcherCrash(d) => disp'[d] = NoJob
  BY DEF SkipTerminal, AckStart, LateStart, CleanupAsCanceled, MarkCommandFailed,
         DispatcherCrash, Finish
<1>4. \/ UNCHANGED disp
      \/ \E e \in Dispatchers : Dispatch(e) \/ DispatchThrows(e) \/ DispatcherCrash(e)
  BY DEF Next, vars, outboxVars, Enqueue, TimerFires, ActivityTimesOut, OwnerChecks, OwnerOpens,
         OwnerResolves, OwnerFails, BecomesAvailable, ActivityStarts, ActivityProgress,
         ActivityEnds, ActivityThrows, ActivityCrash
<1> QED
  BY <1>1, <1>2, <1>3, <1>4 DEF Dispatch

LEMMA JobsKnowStep == ASSUME IInv, [Next]_vars PROVE JobsKnow'
<1> SUFFICES ASSUME NEW d \in Dispatchers, disp'[d].pc # "idle"
             PROVE  /\ disp'[d].run \in Runs
                    /\ disp'[d].type \in WorkflowCommandType
                    /\ cmd'[<<disp'[d].run, disp'[d].type>>].state # "ABSENT"
                    /\ disp'[d].pc \in {"cancel", "cleanup"} => disp'[d].type = "CANCEL"
                    /\ disp'[d].pc = "activate" => exec'[disp'[d].run].st # "none"
                    /\ disp'[d].pc \in {"terminal", "ack", "late"}
                         => run'[disp'[d].run].status # "QUEUED"
  BY DEF JobsKnow, Job
<1> DEFINE r == disp[d].run
<1>1. /\ disp \in [Dispatchers -> JobRow] /\ run \in [Runs -> WorkflowRunRow]
      /\ exec \in [Runs -> Execution]
  BY DEF IInv, TypeOK, RunsTypeOK
<1>2. disp'[d] # NoJob
  BY DEF NoJob
\* What the job knew before the step, as far as it is still true after it.
<1>3. ASSUME disp[d].pc # "idle"
      PROVE  /\ r \in Runs /\ disp[d].type \in WorkflowCommandType
             /\ cmd'[<<r, disp[d].type>>].state # "ABSENT"
             /\ disp[d].pc \in {"cancel", "cleanup"} => disp[d].type = "CANCEL"
             /\ disp[d].pc = "activate" => exec'[r].st # "none"
             /\ disp[d].pc \in {"terminal", "ack", "late"} => run'[r].status # "QUEUED"
  <2>1. /\ r \in Runs /\ disp[d].type \in WorkflowCommandType
        /\ cmd[<<r, disp[d].type>>].state # "ABSENT"
        /\ disp[d].pc \in {"cancel", "cleanup"} => disp[d].type = "CANCEL"
        /\ disp[d].pc = "activate" => exec[r].st # "none"
        /\ disp[d].pc \in {"terminal", "ack", "late"} => run[r].status # "QUEUED"
    BY <1>3 DEF IInv, JobsKnow, Job
  <2>2. run[r].status # "ABSENT"
    BY <1>3, JobsExist
  <2> QED
    BY <2>1, <2>2, NothingIsForgotten
<1>4. CASE disp'[d] = disp[d]
  BY <1>3, <1>4
<1>5. ASSUME NEW c \in Commands, ListCommand(d, c)
      PROVE  /\ disp'[d].run \in Runs /\ disp'[d].type \in WorkflowCommandType
             /\ cmd'[<<disp'[d].run, disp'[d].type>>].state # "ABSENT"
             /\ disp'[d].pc = "claim"
  BY <1>1, <1>5 DEF ListCommand, IsAvailable, Commands
<1>6. CASE ClaimCommand(d)
  BY <1>1, <1>2, <1>3, <1>6 DEF ClaimCommand, To, Finish, JobRow
<1>7. CASE LoadCommand(d)
  <2>1. /\ disp[d].pc = "load" /\ run' = run
        /\ disp'[d].run = r /\ disp'[d].type = disp[d].type
        /\ disp'[d].pc = DispatchStep(disp[d].type, run[r].status)
    BY <1>1, <1>7 DEF LoadCommand, JobRow
  <2>2. /\ disp'[d].pc \in {"cancel", "terminal", "start"}
        /\ disp'[d].pc = "cancel" => disp[d].type = "CANCEL"
        /\ disp'[d].pc = "terminal" => run[r].status \in TerminalStatus
    BY <2>1 DEF DispatchStep
  <2> QED
    BY <1>3, <2>1, <2>2 DEF TerminalStatus
<1>8. CASE StartExecution(d)
  <2>1. /\ disp[d].pc = "start" /\ disp'[d].pc = "activate"
        /\ disp'[d].run = r /\ disp'[d].type = disp[d].type
    BY <1>1, <1>8 DEF StartExecution, To, JobRow
  <2>2. exec'[r].st # "none"
    BY <1>1, <1>3, <1>8, <2>1 DEF StartExecution, Started, Execution
  <2> QED
    BY <1>3, <2>1, <2>2
<1>9. CASE ActivateRun(d)
  <2>1. /\ disp[d].pc = "activate" /\ disp'[d].pc \in {"ack", "late"}
        /\ disp'[d].run = r /\ disp'[d].type = disp[d].type
    BY <1>1, <1>9 DEF ActivateRun, To, JobRow
  <2>2. run'[r].status # "QUEUED"
    BY <1>1, <1>3, <1>9, <2>1, StatusOfUpdates DEF ActivateRun, UpdateRun, ActiveStatus
  <2> QED
    BY <1>3, <2>1, <2>2
<1>10. CASE CancelExecution(d)
  BY <1>1, <1>3, <1>10 DEF CancelExecution, To, JobRow
<1>11. CASE DispatchThrows(d)
  BY <1>1, <1>3, <1>11 DEF DispatchThrows, To, JobRow
<1> QED
  BY <1>1, <1>2, <1>4, <1>5, <1>6, <1>7, <1>8, <1>9, <1>10, <1>11, JobStepOf

LEMMA NextIInv == ASSUME IInv, [Next]_vars PROVE IInv'
BY TypeStep, OwnersKnowStep, OwnersExcludeStep, WorkersKnowStep, JobsKnowStep, AttemptsStep,
   AbsentRunsStep, CancelIntentStep, StartIntentStep, ResolvedSubjectStep
DEF IInv

-----------------------------------------------------------------------------
(* The theorems.                                                           *)

\* The inductive invariant holds in every state: what each process of the
\* outbox believes while it awaits is still true when it goes on.
THEOREM InvariantHolds == Spec => []IInv
<1>1. IInv /\ [Next]_vars => IInv'
  BY NextIInv
<1> QED
  BY InitIInv, <1>1, PTL DEF Spec

\* Every column, command and process keeps its type, with any number of runs,
\* owners, workers, dispatchers, attempts and faults.
THEOREM TypeCorrect == Spec => []TypeOK
<1>1. IInv => TypeOK
  BY DEF IInv
<1> QED
  BY InvariantHolds, <1>1, PTL

\* A CANCEL command is in the outbox exactly when its run is canceled
\* (cancel*WorkflowsTx writes both in one transaction).
THEOREM CancelIntentIsKept == Spec => []CancelIntentKept
<1>1. IInv => CancelIntentKept
  BY DEF IInv
<1> QED
  BY InvariantHolds, <1>1, PTL

\* No start is lost between Postgres and Temporal, whatever dispatcher crashes
\* or throws: a queued run has an open START, a running one an execution.
THEOREM StartIntentIsKept == Spec => []StartIntentKept
<1>1. IInv => StartIntentKept
  BY DEF IInv
<1> QED
  BY InvariantHolds, <1>1, PTL

\* No timer is left waiting for a decision an owner has taken.
THEOREM ResolutionEndsTheRun == Spec => []ResolvedSubjectHasNoActiveRun
<1>1. IInv => ResolvedSubjectHasNoActiveRun
  BY DEF IInv
<1> QED
  BY InvariantHolds, <1>1, PTL

\* CANCELED is final: no completion, activation or failure handler that was
\* under way replaces it.
THEOREM CancellationIsFinal == Spec => CanceledIsFinal
<1>1. IInv /\ [Next]_vars =>
        [\A r \in Runs : run[r].status = "CANCELED" => run'[r].status = "CANCELED"]_run
  BY NothingIsForgotten
<1> QED
  BY InvariantHolds, <1>1, PTL DEF Spec, CanceledIsFinal

\* A run that ended never goes back to work, however late the Temporal start
\* that raced with its end comes back.
THEOREM EndingIsFinal == Spec => EndedStaysEnded
<1>1. IInv /\ [Next]_vars =>
        [\A r \in Runs : run[r].status \in TerminalStatus
                           => run'[r].status \in TerminalStatus]_run
  BY NothingIsForgotten
<1> QED
  BY InvariantHolds, <1>1, PTL DEF Spec, EndedStaysEnded

-----------------------------------------------------------------------------
(* Outbox rows.                                                            *)

\* What a step may do to a row that was written.
RowKept(c) ==
  cmd[c].state # "ABSENT" =>
    /\ cmd'[c].attempts >= cmd[c].attempts
    /\ cmd[c].state = "processed" => cmd'[c].state = "processed"

LEMMA RowsKept ==
  ASSUME IInv, [Next]_vars, NEW c \in Commands
  PROVE  RowKept(c)
<1>1. cmd \in [Commands -> CommandRow]
  BY DEF IInv, TypeOK
<1>2. cmd[c].attempts \in Nat
  BY <1>1 DEF CommandRow
<1> USE <1>1, <1>2 DEF RowKept
<1>3. CASE UNCHANGED cmd
  BY <1>3
<1>4. ASSUME NEW r \in Runs, Enqueue(r) PROVE RowKept(c)
  <2>1. cmd[<<r, "START">>].state = "ABSENT"
    BY <1>4 DEF Enqueue, EnqueueRun, IInv, AbsentRunsAreBlank
  <2> QED
    BY <1>4, <2>1 DEF Enqueue
<1>5. ASSUME NEW o \in Owners, OwnerResolves(o) PROVE RowKept(c)
  <2>1. CASE NeedsTemporalCancel(o)
    <3>1. cmd[<<owner[o].run, "CANCEL">>].state = "ABSENT"
      BY <1>5, <2>1 DEF NeedsTemporalCancel, OwnerResolves, OwnerCommit, IInv, OwnersKnow,
                        CancelIntentKept
    <3> QED
      BY <1>5, <2>1, <3>1 DEF OwnerResolves
  <2>2. CASE ~NeedsTemporalCancel(o)
    BY <1>5, <2>2 DEF OwnerResolves
  <2> QED
    BY <2>1, <2>2
<1>6. ASSUME NEW d \in Dispatchers, ClaimCommand(d) PROVE RowKept(c)
  BY <1>6 DEF ClaimCommand, ClaimedCommand
<1>7. ASSUME NEW d \in Dispatchers, SkipTerminal(d) \/ AckStart(d) \/ LateStart(d) \/ CleanupAsCanceled(d)
      PROVE RowKept(c)
  <2>1. cmd' = [cmd EXCEPT ![Job(d)].state = "processed"]
    BY <1>7 DEF SkipTerminal, AckStart, LateStart, CleanupAsCanceled, Processed
  <2> QED
    BY <2>1 DEF CommandRow
<1>8. ASSUME NEW d \in Dispatchers, MarkCommandFailed(d) PROVE RowKept(c)
  BY <1>8 DEF MarkCommandFailed, CommandRow
<1>9. ASSUME NEW e \in Commands, BecomesAvailable(e) PROVE RowKept(c)
  BY <1>9 DEF BecomesAvailable, CommandRow
<1> QED
  BY <1>3, <1>4, <1>5, <1>6, <1>7, <1>8, <1>9, CommandWriters

\* An acknowledged command is never open again and its attempt count never goes
\* back: START and CANCEL are inserted once per run, by the transaction that
\* creates or cancels it.
THEOREM RowsAreWrittenOnce == Spec => OutboxRowsAreWrittenOnce
<1>1. IInv /\ [Next]_vars =>
        [\A c \in Commands :
           cmd[c].state # "ABSENT" =>
             /\ cmd'[c].attempts >= cmd[c].attempts
             /\ cmd[c].state = "processed" => cmd'[c].state = "processed"]_cmd
  BY RowsKept DEF RowKept
<1> QED
  BY InvariantHolds, <1>1, PTL DEF Spec, OutboxRowsAreWrittenOnce

\* A dispatcher past its claim has counted an attempt the row still shows; what
\* it saw before is smaller, and different from what any other one saw.
ClaimsKnow ==
  /\ \A d \in Dispatchers : disp[d].pc \notin {"idle", "claim"} =>
       disp[d].seen < cmd[Job(d)].attempts
  /\ ClaimsAreExclusive

Serving(d) == disp[d].pc \notin {"idle", "claim"}

\* A dispatcher is serving after a step because it was, or because it claimed.
LEMMA ServingStep ==
  ASSUME IInv, [Next]_vars, NEW d \in Dispatchers, Serving(d)'
  PROVE  /\ disp'[d].run = disp[d].run /\ disp'[d].type = disp[d].type
         /\ disp'[d].seen = disp[d].seen
         /\ Serving(d) \/ (ClaimCommand(d) /\ Claimable(d))
<1>1. disp \in [Dispatchers -> JobRow]
  BY DEF IInv, TypeOK
<1>2. disp'[d] # NoJob /\ disp'[d].pc # "claim"
  BY DEF Serving, NoJob
<1> USE <1>1, <1>2 DEF Serving, JobRow
<1>3. CASE disp'[d] = disp[d]
  BY <1>3
<1>4. ASSUME NEW c \in Commands, ListCommand(d, c) PROVE FALSE
  BY <1>4 DEF ListCommand
<1>5. CASE ClaimCommand(d)
  BY <1>5 DEF ClaimCommand, To, Finish
<1>6. CASE LoadCommand(d)
  BY <1>6 DEF LoadCommand
<1>7. CASE StartExecution(d) \/ ActivateRun(d) \/ CancelExecution(d) \/ DispatchThrows(d)
  BY <1>7 DEF StartExecution, ActivateRun, CancelExecution, DispatchThrows, To
<1> QED
  BY <1>3, <1>4, <1>5, <1>6, <1>7, JobStepOf

LEMMA ClaimsStep == ASSUME IInv, ClaimsKnow, [Next]_vars PROVE ClaimsKnow'
<1>1. cmd \in [Commands -> CommandRow] /\ disp \in [Dispatchers -> JobRow]
  BY DEF IInv, TypeOK
<1>2. ASSUME NEW d \in Dispatchers, disp[d].pc # "idle"
      PROVE  /\ Job(d) \in Commands
             /\ cmd[Job(d)].attempts \in Nat /\ disp[d].seen \in Nat
             /\ cmd'[Job(d)].attempts >= cmd[Job(d)].attempts
  <2>1. Job(d) \in Commands /\ cmd[Job(d)].state # "ABSENT"
    BY <1>2 DEF IInv, JobsKnow, Job, Commands
  <2> QED
    BY <1>1, <2>1, RowsKept DEF RowKept, CommandRow, JobRow
<1>3. ASSUME NEW d \in Dispatchers, Serving(d)
      PROVE  disp[d].pc # "idle" /\ disp[d].seen < cmd[Job(d)].attempts
  BY <1>3 DEF ClaimsKnow, Serving
\* A successful claim counts one more attempt than the dispatcher had seen.
<1>4. ASSUME NEW d \in Dispatchers, ClaimCommand(d), Claimable(d)
      PROVE  /\ disp[d].pc # "idle"
             /\ disp[d].seen = cmd[Job(d)].attempts
             /\ cmd'[Job(d)].attempts = cmd[Job(d)].attempts + 1
             /\ \A e \in Dispatchers : e # d => disp'[e] = disp[e]
  <2>1. disp[d].pc # "idle" /\ disp[d].seen = cmd[Job(d)].attempts
    BY <1>4 DEF ClaimCommand, Claimable
  <2> QED
    BY <1>1, <1>2, <1>4, <2>1 DEF ClaimCommand, ClaimedCommand, To
<1>5. ASSUME NEW d \in Dispatchers, Serving(d)'
      PROVE  /\ Job(d)' = Job(d) /\ disp'[d].seen = disp[d].seen
             /\ disp'[d].seen < cmd'[Job(d)].attempts
  <2>1. Job(d)' = Job(d) /\ disp'[d].seen = disp[d].seen
    BY <1>5, ServingStep DEF Job
  <2>2. CASE Serving(d)
    <3> HIDE DEF Job
    <3>1. cmd'[Job(d)].attempts \in Nat
      BY <1>2, <1>3, <2>2, TypeStep DEF TypeOK, CommandRow
    <3> QED
      BY <1>2, <1>3, <2>1, <2>2, <3>1
  <2>3. CASE ClaimCommand(d) /\ Claimable(d)
    BY <1>2, <1>4, <2>1, <2>3
  <2> QED
    BY <1>5, <2>1, <2>2, <2>3, ServingStep
<1>6. ASSUME NEW d \in Dispatchers, NEW e \in Dispatchers, d # e,
             Serving(d)', Serving(e)', Job(d)' = Job(e)'
      PROVE  disp'[d].seen # disp'[e].seen
  <2>1. /\ Job(d) = Job(e)
        /\ disp'[d].seen = disp[d].seen /\ disp'[e].seen = disp[e].seen
    BY <1>5, <1>6
  <2>2. ASSUME NEW f \in Dispatchers, NEW g \in Dispatchers, f # g, Job(f) = Job(g),
               Serving(g)', ClaimCommand(f), Claimable(f)
        PROVE  disp[f].seen # disp[g].seen
    <3>1. Serving(g)
      BY <1>4, <2>2 DEF Serving
    <3>2. disp[g].seen < cmd[Job(f)].attempts
      BY <1>3, <2>2, <3>1
    <3> QED
      BY <1>2, <1>4, <2>2, <3>2
  <2>3. CASE Serving(d) /\ Serving(e)
    BY <1>6, <2>1, <2>3 DEF ClaimsKnow, ClaimsAreExclusive, Serving
  <2> QED
    BY <1>6, <2>1, <2>2, <2>3, ServingStep
<1> QED
  BY <1>5, <1>6 DEF ClaimsKnow, ClaimsAreExclusive, Serving

\* However leases expire and dispatchers stall, two of them never act on the
\* same claim of a command (the claim's condition on attemptCount).
THEOREM ClaimsExclude == Spec => []ClaimsAreExclusive
<1>1. Init => ClaimsKnow
  BY DEF Init, ClaimsKnow, ClaimsAreExclusive, NoJob
<1>2. IInv /\ ClaimsKnow /\ [Next]_vars => ClaimsKnow'
  BY ClaimsStep
<1>3. ClaimsKnow => ClaimsAreExclusive
  BY DEF ClaimsKnow
<1> QED
  BY InvariantHolds, <1>1, <1>2, <1>3, PTL DEF Spec

-----------------------------------------------------------------------------
(* The phase at rest.  One process polls the outbox here: a second one that *)
(* lost its lease writes the phase of what it read over what the first one  *)
(* delivered.                                                              *)

\* On Temporal nothing writes FAILED: only the local runner does.
NeverFailed == \A r \in Runs : run[r].status # "FAILED"

LEMMA NeverFailedStep == ASSUME IInv, NeverFailed, [Next]_vars PROVE NeverFailed'
<1> SUFFICES ASSUME NEW r \in Runs PROVE run'[r].status # "FAILED"
  BY DEF NeverFailed
<1>1. StatusChange(r) /\ run[r].status # "FAILED"
  BY RunStep DEF NeverFailed
<1>2. Enqueue(r) => run'[r].status # "FAILED"
  BY DEF Enqueue, EnqueueRun, NewWorkflowRun, IInv, TypeOK, RunsTypeOK
<1> QED
  BY <1>1, <1>2 DEF StatusChange

\* Only a START is activated, acknowledged or skipped; one that is skipped was
\* read with the status the run still has, or the run was canceled since.
DispatcherKnows(d) ==
  /\ disp[d].pc \in {"terminal", "start", "activate", "ack", "late"} => disp[d].type = "START"
  /\ disp[d].pc = "terminal" =>
       /\ disp[d].snap \in TerminalStatus
       /\ run[disp[d].run].status \in {disp[d].snap, "CANCELED"}

\* An activity that notes a cancellation notes one that was committed.
ObserverKnows(w) == worker[w].pc = "observe" => run[worker[w].run].status = "CANCELED"

PhaseInv ==
  /\ NeverFailed
  /\ \A d \in Dispatchers : DispatcherKnows(d)
  /\ \A w \in Workers : ObserverKnows(w)

Acknowledges(d) == SkipTerminal(d) \/ AckStart(d) \/ LateStart(d) \/ CleanupAsCanceled(d)

\* An open command stays open until a dispatcher acknowledges it.
LEMMA OpenStays ==
  ASSUME IInv, [Next]_vars, NEW r \in Runs, NEW type \in WorkflowCommandType, IsOpen(r, type),
         \A d \in Dispatchers : Job(d) = <<r, type>> => ~Acknowledges(d)
  PROVE  IsOpen(r, type)'
<1> PICK c \in Commands : c = <<r, type>>
  BY DEF Commands
<1> SUFFICES cmd'[c].state = "open"
  BY DEF IsOpen
<1>1. cmd \in [Commands -> CommandRow] /\ cmd[c].state = "open"
  BY DEF IInv, TypeOK, IsOpen
<1>2. CASE UNCHANGED cmd
  BY <1>1, <1>2
<1>3. ASSUME NEW q \in Runs, Enqueue(q) PROVE cmd'[c].state = "open"
  BY <1>1, <1>3 DEF Enqueue, NewCommand
<1>4. ASSUME NEW o \in Owners, OwnerResolves(o) PROVE cmd'[c].state = "open"
  BY <1>1, <1>4 DEF OwnerResolves, NewCommand
<1>5. ASSUME NEW d \in Dispatchers, ClaimCommand(d) PROVE cmd'[c].state = "open"
  BY <1>1, <1>5 DEF ClaimCommand, ClaimedCommand
<1>6. ASSUME NEW d \in Dispatchers, Acknowledges(d) PROVE cmd'[c].state = "open"
  <2>1. cmd' = [cmd EXCEPT ![Job(d)].state = "processed"] /\ Job(d) # c
    BY <1>6 DEF Acknowledges, SkipTerminal, AckStart, LateStart, CleanupAsCanceled, Processed
  <2> QED
    BY <1>1, <2>1
<1>7. ASSUME NEW d \in Dispatchers, MarkCommandFailed(d) PROVE cmd'[c].state = "open"
  BY <1>1, <1>7 DEF MarkCommandFailed, CommandRow
<1>8. ASSUME NEW e \in Commands, BecomesAvailable(e) PROVE cmd'[c].state = "open"
  BY <1>1, <1>8 DEF BecomesAvailable, CommandRow
<1> QED
  BY <1>2, <1>3, <1>4, <1>5, <1>6, <1>7, <1>8, CommandWriters DEF Acknowledges

LEMMA AcknowledgedIsIdle ==
  ASSUME IInv, NEW d \in Dispatchers, Acknowledges(d) \/ MarkCommandFailed(d)
  PROVE  disp'[d] = NoJob /\ disp'[d].pc = "idle"
BY DEF IInv, TypeOK, Acknowledges, SkipTerminal, AckStart, LateStart, CleanupAsCanceled,
       MarkCommandFailed, Finish, NoJob

\* A step is an acknowledgement by one dispatcher only.
LEMMA OneAcknowledges ==
  ASSUME IInv, NEW d \in Dispatchers, Acknowledges(d), NEW e \in Dispatchers, e # d
  PROVE  ~Acknowledges(e)
<1>1. disp' = [disp EXCEPT ![d] = NoJob] /\ disp \in [Dispatchers -> JobRow]
  BY DEF IInv, TypeOK, Acknowledges, SkipTerminal, AckStart, LateStart, CleanupAsCanceled, Finish
<1>2. disp'[e] = disp[e]
  BY <1>1
<1>3. Acknowledges(e) => disp[e].pc # "idle"
  BY DEF Acknowledges, SkipTerminal, AckStart, LateStart, CleanupAsCanceled
<1> QED
  BY <1>2, <1>3, AcknowledgedIsIdle

\* A run that is canceled has its CANCEL in the outbox.
LEMMA CanceledIsOpen ==
  ASSUME IInv, NEW o \in Owners, OwnerResolves(o), owner[o].found,
         NEW r \in Runs, owner[o].run = r
  PROVE  IsOpen(r, "CANCEL")'
<1>1. cmd \in [Commands -> CommandRow] /\ <<r, "CANCEL">> \in Commands
  BY DEF IInv, TypeOK, Commands, WorkflowCommandType
<1>2. cmd' = [cmd EXCEPT ![<<r, "CANCEL">>] = NewCommand]
  BY OutboxAssumption DEF OwnerResolves, NeedsTemporalCancel
<1> QED
  BY <1>1, <1>2 DEF NewCommand, IsOpen

\* What the dispatcher knows.
LEMMA DispatcherStep ==
  ASSUME IInv, PhaseInv, [Next]_vars, NEW d \in Dispatchers
  PROVE  DispatcherKnows(d)'
<1> SUFFICES ASSUME Serving(d)' PROVE DispatcherKnows(d)'
  BY DEF DispatcherKnows, Serving
<1>1. disp \in [Dispatchers -> JobRow] /\ cmd \in [Commands -> CommandRow]
  BY DEF IInv, TypeOK
<1>2. /\ disp'[d].run = disp[d].run /\ disp'[d].type = disp[d].type
      /\ Serving(d) \/ (ClaimCommand(d) /\ Claimable(d))
  BY ServingStep
<1>3. disp[d].pc # "idle"
  BY <1>2 DEF Serving, ClaimCommand
<1>4. /\ disp[d].run \in Runs /\ disp[d].type \in WorkflowCommandType
      /\ run[disp[d].run].status # "ABSENT" /\ DispatcherKnows(d)
  BY <1>3, JobsExist DEF IInv, JobsKnow, PhaseInv
<1> PICK r \in Runs, type \in WorkflowCommandType : r = disp[d].run /\ type = disp[d].type
  BY <1>4
<1>7. ASSUME disp[d].pc = "terminal", disp'[d].snap = disp[d].snap
      PROVE  /\ disp'[d].snap \in TerminalStatus
             /\ run'[r].status \in {disp'[d].snap, "CANCELED"}
  <2>1. /\ disp[d].snap \in TerminalStatus
        /\ run[r].status \in {disp[d].snap, "CANCELED"}
    BY <1>4, <1>7 DEF DispatcherKnows
  <2>2. StatusChange(r) /\ run[r].status \in TerminalStatus /\ run[r].status # "FAILED"
    BY <2>1, RunStep DEF PhaseInv, NeverFailed, TerminalStatus
  <2>3. ~Enqueue(r)
    BY <1>4 DEF Enqueue, EnqueueRun
  <2>4. run[r].status \in {"COMPLETED", "CANCELED"}
    BY <2>2 DEF TerminalStatus
  <2> QED
    BY <1>7, <2>1, <2>2, <2>3, <2>4 DEF StatusChange, ActiveStatus
<1>8. /\ disp'[d].pc \in {"terminal", "start", "activate", "ack", "late"} => type = "START"
      /\ disp'[d].pc = "terminal" =>
           /\ disp'[d].snap \in TerminalStatus
           /\ run'[r].status \in {disp'[d].snap, "CANCELED"}
  <2>1. CASE disp'[d] = disp[d]
    BY <1>4, <1>7, <2>1 DEF DispatcherKnows
  <2>2. CASE disp'[d] = NoJob
    BY <2>2 DEF NoJob, Serving
  <2>3. ASSUME NEW c \in Commands, ListCommand(d, c) PROVE FALSE
    BY <1>3, <2>3 DEF ListCommand
  <2>4. CASE ClaimCommand(d)
    BY <1>1, <2>4 DEF ClaimCommand, To, Finish, NoJob, JobRow
  <2>5. CASE LoadCommand(d)
    <3>1. /\ disp'[d].pc = DispatchStep(type, run[r].status)
          /\ disp'[d].snap = run[r].status /\ run' = run
      BY <1>1, <2>5 DEF LoadCommand, JobRow
    <3> QED
      BY <3>1 DEF DispatchStep, WorkflowCommandType
  <2>6. CASE StartExecution(d) \/ ActivateRun(d)
    <3>1. disp[d].pc \in {"start", "activate"} /\ disp'[d].pc \in {"activate", "ack", "late"}
      BY <1>1, <2>6 DEF StartExecution, ActivateRun, To, JobRow
    <3> QED
      BY <1>4, <3>1 DEF DispatcherKnows
  <2>7. CASE CancelExecution(d) \/ DispatchThrows(d)
    BY <1>1, <2>7 DEF CancelExecution, DispatchThrows, To, JobRow
  <2> QED
    BY <1>1, <2>1, <2>2, <2>3, <2>4, <2>5, <2>6, <2>7, JobStepOf
<1> QED
  BY <1>2, <1>8 DEF DispatcherKnows

\* An activity comes to note a cancellation from the row it loaded, and CANCELED
\* is final.
LEMMA ObserverStep ==
  ASSUME IInv, PhaseInv, [Next]_vars, NEW w \in Workers
  PROVE  ObserverKnows(w)'
<1> SUFFICES ASSUME worker'[w].pc = "observe" PROVE run'[worker'[w].run].status = "CANCELED"
  BY DEF ObserverKnows
<1>1. worker \in [Workers -> WorkerCall]
  BY DEF IInv, TypeOK, RunsTypeOK
<1> DEFINE Kept == worker'[w] = worker[w]
<1>2. ASSUME UNCHANGED worker PROVE Kept
  BY <1>2
<1>3. ASSUME NEW v \in Workers, v # w,
             \/ ActivityProgress(v) \/ ActivityEnds(v)
             \/ ActivityThrows(v) \/ ActivityCrash(v) \/ \E r \in Runs : ActivityStarts(v, r)
      PROVE  Kept
  BY <1>1, <1>3
  DEF ActivityProgress, Processing, LoadWorkflowRun, MarkCanceledObserved, ExpireApproval,
      EmitFollowUp, CompleteWorkflowRun, WorkerTo, ActivityEnds, ActivityThrows,
      ProcessingThrows, ActivityCrash, WorkerCrash, ActivityStarts, StartProcessing
<1>4. ASSUME \/ ActivityEnds(w) \/ ActivityThrows(w) \/ ActivityCrash(w)
             \/ \E r \in Runs : ActivityStarts(w, r)
      PROVE  FALSE
  BY <1>1, <1>4
  DEF WorkerTo, ActivityEnds, ActivityThrows, ProcessingThrows, ActivityCrash, WorkerCrash,
      ActivityStarts, StartProcessing, IdleWorker, WorkerCall
<1>5. ASSUME ActivityProgress(w)
      PROVE  worker'[w].run = worker[w].run /\ run[worker[w].run].status = "CANCELED"
  <2>1. LoadWorkflowRun(w)
    BY <1>1, <1>5
    DEF ActivityProgress, Processing, MarkCanceledObserved, ExpireApproval, EmitFollowUp,
        CompleteWorkflowRun, WorkerTo, WorkerCall
  <2> QED
    BY <1>1, <2>1 DEF LoadWorkflowRun, WorkerTo, NextStepFor, WorkerCall
<1>6. \/ UNCHANGED worker
      \/ \E v \in Workers : \/ \E r \in Runs : ActivityStarts(v, r)
                            \/ ActivityProgress(v) \/ ActivityEnds(v)
                            \/ ActivityThrows(v) \/ ActivityCrash(v)
  BY DEF Next, vars, businessVars, Dispatch, Enqueue, EnqueueRun, TimerFires, ActivityTimesOut,
         OwnerChecks, OwnerCheck, OwnerOpens, OwnerOpenTx, OwnerResolves, OwnerCommit,
         OwnerFails, OwnerRollback, ListCommand, ClaimCommand, LoadCommand, SkipTerminal,
         StartExecution, ActivateRun, AckStart, LateStart, CancelExecution, CleanupAsCanceled,
         MarkCommandFailed, DispatchThrows, DispatcherCrash, BecomesAvailable
<1>7. Kept => worker[w].pc = "observe" /\ run[worker[w].run].status = "CANCELED"
  BY DEF PhaseInv, ObserverKnows
<1>8. Kept \/ ActivityProgress(w)
  BY <1>2, <1>3, <1>4, <1>6
<1>9. /\ worker[w].pc # "idle" /\ worker'[w].run = worker[w].run
      /\ run[worker[w].run].status = "CANCELED"
  <2>1. CASE Kept
    BY <1>7, <2>1
  <2>2. CASE ActivityProgress(w)
    <3>1. worker[w].pc # "idle"
      BY <2>2 DEF ActivityProgress, Processing, LoadWorkflowRun, MarkCanceledObserved,
                  ExpireApproval, EmitFollowUp, CompleteWorkflowRun
    <3> QED
      BY <1>5, <2>2, <3>1
  <2> QED
    BY <1>8, <2>1, <2>2
<1>10. worker[w].run \in Runs
  BY <1>9 DEF IInv, WorkersKnow
<1> QED
  BY <1>9, <1>10, NothingIsForgotten

\* Ended runs whose row and commands a step leaves alone.
LEMMA PhaseElsewhere ==
  ASSUME IInv, PhaseInv, [Next]_vars, NEW r \in Runs, PhaseOwed(r),
         run'[r] = run[r],
         \A d \in Dispatchers : disp[d].run = r => ~Acknowledges(d)
  PROVE  PhaseOwed(r)'
<1> SUFFICES ASSUME run[r].status \in TerminalStatus PROVE PhaseOwed(r)'
  BY DEF PhaseOwed
<1>1. PhaseOwed(r)
  OBVIOUS
<1>2. \A type \in WorkflowCommandType : IsOpen(r, type) => IsOpen(r, type)'
  BY OpenStays DEF Job
<1>3. ASSUME NEW d \in Dispatchers, Starting(d, r)' PROVE Starting(d, r)
  <2>1. disp \in [Dispatchers -> JobRow] /\ Serving(d)'
    BY <1>3 DEF IInv, TypeOK, Starting, Serving
  <2>2. disp[d].run = r /\ disp'[d].type = disp[d].type
    BY <1>3, <2>1, ServingStep DEF Starting
  <2>3. CASE disp'[d] = disp[d]
    BY <1>3, <2>2, <2>3 DEF Starting
  <2>4. CASE disp'[d] = NoJob
    BY <1>3, <2>4 DEF Starting, NoJob
  <2>5. ASSUME NEW c \in Commands, ListCommand(d, c) PROVE Starting(d, r)
    BY <1>3, <2>1, <2>5 DEF ListCommand, Starting
  <2>6. CASE ClaimCommand(d)
    BY <1>3, <2>1, <2>6 DEF ClaimCommand, To, Finish, NoJob, JobRow, Starting
  <2>7. CASE LoadCommand(d)
    <3>1. /\ disp'[d].pc = DispatchStep(disp[d].type, run[r].status)
          /\ disp[d].pc = "load"
      BY <2>1, <2>2, <2>7 DEF LoadCommand, JobRow
    <3>2. disp[d].type \in WorkflowCommandType
      BY <3>1 DEF IInv, JobsKnow
    <3> QED
      BY <1>3, <3>1, <3>2 DEF DispatchStep, WorkflowCommandType, Starting
  <2>8. CASE StartExecution(d) \/ ActivateRun(d)
    BY <2>2, <2>8 DEF StartExecution, ActivateRun, Starting
  <2>9. CASE CancelExecution(d) \/ DispatchThrows(d)
    BY <1>3, <2>1, <2>9 DEF CancelExecution, DispatchThrows, To, JobRow, Starting
  <2> QED
    BY <2>1, <2>3, <2>4, <2>5, <2>6, <2>7, <2>8, <2>9, JobStepOf
<1> QED
  BY <1>1, <1>2, <1>3 DEF PhaseOwed, PhaseAgrees, WorkflowCommandType

\* The run a dispatcher acknowledges a command of.
LEMMA PhaseAcknowledged ==
  ASSUME IInv, PhaseInv, [Next]_vars, NEW d \in Dispatchers, Acknowledges(d), ~SkipsLate(d),
         NEW r \in Runs, PhaseOwed(r), disp[d].run = r
  PROVE  PhaseOwed(r)'
<1>1. run \in [Runs -> WorkflowRunRow] /\ disp[d].pc # "idle"
  BY DEF IInv, TypeOK, RunsTypeOK, Acknowledges, SkipTerminal, AckStart, LateStart,
         CleanupAsCanceled
<1>2. DispatcherKnows(d) /\ PhaseOwed(r) /\ NeverFailed
  BY DEF PhaseInv
<1>3. \A e \in Dispatchers : e # d => ~Acknowledges(e)
  BY OneAcknowledges
<1>4. ASSUME disp[d].type = "START", IsOpen(r, "CANCEL") PROVE IsOpen(r, "CANCEL")'
  BY <1>3, <1>4, OpenStays DEF Job, WorkflowCommandType
<1>5. CASE SkipTerminal(d)
  <2>1. /\ disp[d].pc = "terminal"
        /\ run' = [run EXCEPT ![r] = [run[r] EXCEPT
                     !.phase = enginePhaseForTerminalStatus(disp[d].snap), !.wake = FALSE]]
    BY <1>5 DEF SkipTerminal, UpdateRun
  <2>2. /\ disp[d].type = "START" /\ disp[d].snap \in TerminalStatus
        /\ run[r].status = disp[d].snap \/ IsOpen(r, "CANCEL")
    <3>1. /\ disp[d].type = "START" /\ disp[d].snap \in TerminalStatus
          /\ run[r].status \in {disp[d].snap, "CANCELED"}
      BY <1>2, <2>1 DEF DispatcherKnows
    <3>2. CASE run[r].status # disp[d].snap
      <4>1. cmd[<<r, "CANCEL">>].state \notin {"ABSENT", "processed"}
        BY <1>5, <3>1, <3>2 DEF SkipsLate, IInv, CancelIntentKept
      <4>2. <<r, "CANCEL">> \in Commands /\ cmd \in [Commands -> CommandRow]
        BY DEF IInv, TypeOK, Commands, WorkflowCommandType
      <4> QED
        BY <3>1, <4>1, <4>2 DEF IsOpen, CommandRow
    <3> QED
      BY <3>1, <3>2
  <2>3. /\ run'[r].phase = disp[d].snap /\ run'[r].wake = FALSE
        /\ run'[r].status = run[r].status
    BY <1>1, <2>1, <2>2 DEF enginePhaseForTerminalStatus, WorkflowRunRow
  <2> QED
    BY <1>4, <2>2, <2>3 DEF PhaseOwed, PhaseAgrees
<1>6. CASE AckStart(d) \/ LateStart(d)
  <2>1. disp[d].pc \in {"ack", "late"} /\ Starting(d, r)
    BY <1>6 DEF AckStart, LateStart, Starting
  <2>2. disp[d].type = "START"
    BY <1>2, <2>1 DEF DispatcherKnows
  <2>3. run'[r] = run[r] \/ run'[r] = LateRow(run[r])
    BY <1>1, <1>6 DEF AckStart, LateStart, UpdateRun
  <2>4. run'[r].status = run[r].status /\ (PhaseAgrees(r) => PhaseAgrees(r)')
    BY <1>1, <2>3 DEF LateRow, WorkflowRunRow, PhaseAgrees, WorkflowStatus, ActiveStatus,
                      TerminalStatus
  <2> QED
    BY <1>2, <1>4, <2>1, <2>2, <2>4 DEF PhaseOwed
<1>7. CASE CleanupAsCanceled(d)
  <2>1. /\ disp[d].pc = "cleanup"
        /\ run' = [run EXCEPT ![r] = [run[r] EXCEPT !.phase = "CANCELED", !.wake = FALSE]]
    BY <1>7 DEF CleanupAsCanceled, UpdateRun
  <2>2. cmd[<<r, "CANCEL">>].state # "ABSENT"
    BY <1>1, <2>1 DEF IInv, JobsKnow, Job
  <2>3. run[r].status = "CANCELED"
    BY <2>2 DEF IInv, CancelIntentKept
  <2>4. /\ run'[r].phase = "CANCELED" /\ run'[r].wake = FALSE
        /\ run'[r].status = "CANCELED"
    BY <1>1, <2>1, <2>3 DEF WorkflowRunRow
  <2> QED
    BY <2>4 DEF PhaseOwed, PhaseAgrees
<1> QED
  BY <1>5, <1>6, <1>7 DEF Acknowledges

LEMMA PhaseStep ==
  ASSUME IInv, PhaseInv, [Next]_vars, NEW r \in Runs, PhaseOwed(r),
         \A d \in Dispatchers : disp[d].run = r => ~FailsLate(d) /\ ~SkipsLate(d)
  PROVE  PhaseOwed(r)'
<1>1. run \in [Runs -> WorkflowRunRow] /\ PhaseOwed(r) /\ NeverFailed
  BY DEF IInv, TypeOK, RunsTypeOK, PhaseInv
<1>2. ASSUME NEW d \in Dispatchers, Acknowledges(d) PROVE PhaseOwed(r)'
  <2>1. CASE disp[d].run = r
    BY <1>2, <2>1, PhaseAcknowledged
  <2>2. CASE disp[d].run # r
    <3>1. run'[r] = run[r]
      BY <1>1, <1>2, <2>2 DEF Acknowledges, SkipTerminal, AckStart, LateStart, CleanupAsCanceled,
                              UpdateRun
    <3> QED
      BY <1>2, <2>2, <3>1, OneAcknowledges, PhaseElsewhere
  <2> QED
    BY <2>1, <2>2
<1> SUFFICES ASSUME \A d \in Dispatchers : ~Acknowledges(d) PROVE PhaseOwed(r)'
  BY <1>2
<1>3. CASE run'[r] = run[r]
  BY <1>3, PhaseElsewhere
<1>4. ASSUME NEW q \in Runs, Enqueue(q), run'[r] # run[r] PROVE PhaseOwed(r)'
  BY <1>1, <1>4 DEF Enqueue, EnqueueRun, NewWorkflowRun, PhaseOwed, TerminalStatus
<1>5. ASSUME NEW o \in Owners, OwnerResolves(o), run'[r] # run[r] PROVE PhaseOwed(r)'
  <2>1. owner[o].found /\ owner[o].run = r
    BY <1>1, <1>5 DEF OwnerResolves, OwnerCommit
  <2> QED
    BY <1>5, <2>1, CanceledIsOpen DEF PhaseOwed
<1>6. ASSUME NEW d \in Dispatchers, ActivateRun(d), run'[r] # run[r] PROVE PhaseOwed(r)'
  <2>1. run'[r].status = "RUNNING"
    BY <1>1, <1>6 DEF ActivateRun, UpdateRun, ActivatedRow, WorkflowRunRow
  <2> QED
    BY <2>1 DEF PhaseOwed, TerminalStatus
<1>7. ASSUME NEW d \in Dispatchers, MarkCommandFailed(d), run'[r] # run[r] PROVE PhaseOwed(r)'
  <2>1. disp[d].run = r /\ disp[d].pc = "failed"
    BY <1>1, <1>7 DEF MarkCommandFailed, UpdateRun
  <2>2. DispatcherKnows(d) /\ disp[d].type \in WorkflowCommandType
    BY <2>1 DEF PhaseInv, IInv, JobsKnow
  <2> PICK type \in WorkflowCommandType : type = disp[d].type
    BY <2>2
  <2>3. ~FailsLate(d) /\ Job(d) = <<r, type>>
    BY <2>1 DEF Job
  <2>4. IsOpen(r, type) /\ \A e \in Dispatchers \ {d} : ~Starting(e, r)
    <3>1. cmd[<<r, type>>].state # "ABSENT"
      BY <2>1, <2>3 DEF IInv, JobsKnow
    <3>2. <<r, type>> \in Commands /\ cmd \in [Commands -> CommandRow]
      BY DEF IInv, TypeOK, Commands
    <3> QED
      BY <1>7, <2>1, <2>3, <3>1, <3>2 DEF FailsLate, IsOpen, CommandRow
  <2>5. IsOpen(r, type)'
    BY <2>4, OpenStays
  <2>6. \A e \in Dispatchers : ~Starting(e, r)'
    <3>1. disp' = [disp EXCEPT ![d] = NoJob] /\ disp \in [Dispatchers -> JobRow]
      BY <1>7 DEF MarkCommandFailed, Finish, IInv, TypeOK
    <3> QED
      BY <2>4, <3>1 DEF Starting, NoJob
  <2> QED
    BY <2>5, <2>6 DEF PhaseOwed, WorkflowCommandType
<1>8. ASSUME NEW w \in Workers, MarkCanceledObserved(w), run'[r] # run[r] PROVE PhaseOwed(r)'
  <2>1. worker[w].run = r /\ worker[w].pc = "observe"
    BY <1>1, <1>8 DEF MarkCanceledObserved
  <2>2. run[r].status = "CANCELED"
    BY <2>1 DEF PhaseInv, ObserverKnows
  <2>3. run'[r].phase = "CANCELED" /\ run'[r].wake = FALSE /\ run'[r].status = "CANCELED"
    BY <1>1, <1>8, <2>1, <2>2 DEF MarkCanceledObserved, WorkflowRunRow
  <2> QED
    BY <2>3 DEF PhaseOwed, PhaseAgrees
<1>9. ASSUME NEW w \in Workers, CompleteWorkflowRun(w), run'[r] # run[r] PROVE PhaseOwed(r)'
  <2>1. run'[r] = CompletedRow(run[r]) /\ run[r].status # "CANCELED"
    BY <1>1, <1>9 DEF CompleteWorkflowRun, CompletedRow
  <2> QED
    BY <1>1, <2>1 DEF CompletedRow, WorkflowRunRow, PhaseOwed, PhaseAgrees
<1> QED
  BY <1>3, <1>4, <1>5, <1>6, <1>7, <1>8, <1>9, RunWriters DEF Acknowledges

\* What PhaseOwed comes to: with nothing left to deliver an ended run shows the
\* phase of its end and expects no wake.
LEMMA PhaseAtRest ==
  ASSUME NEW r \in Runs, PhaseOwed(r), run[r].status \in TerminalStatus,
         \A type \in WorkflowCommandType : ~IsOpen(r, type)
  PROVE  run[r].phase = run[r].status /\ ~run[r].wake
BY DEF PhaseOwed, PhaseAgrees, WorkflowCommandType

\* For any number of dispatchers, lost leases, throws and crashes, the phase of an
\* ended run goes wrong for good only by a failure that was marked, or a START
\* that was skipped, after another dispatcher had gone on.
THEOREM PhaseGoesWrongLate == Spec => PhaseGoesWrongOnlyLate
<1>1. Init => PhaseInv
  <2> SUFFICES ASSUME Init PROVE PhaseInv
    OBVIOUS
  <2>1. \A r \in Runs : run[r].status = "ABSENT"
    BY DEF Init, RunsInit, AbsentRun
  <2>2. /\ \A d \in Dispatchers : disp[d].pc = "idle"
        /\ \A w \in Workers : worker[w].pc = "idle"
    BY DEF Init, RunsInit, NoJob, IdleWorker
  <2> QED
    BY <2>1, <2>2 DEF PhaseInv, NeverFailed, DispatcherKnows, ObserverKnows
<1>2. IInv /\ PhaseInv /\ [Next]_vars => PhaseInv'
  BY NeverFailedStep, DispatcherStep, ObserverStep DEF PhaseInv
<1>3. IInv /\ PhaseInv /\ [Next]_vars =>
        [\A r \in Runs :
           PhaseOwed(r) /\ ~PhaseOwed(r)' =>
             \E d \in Dispatchers : disp[d].run = r /\ (FailsLate(d) \/ SkipsLate(d))]_vars
  BY PhaseStep
<1> QED
  BY InvariantHolds, <1>1, <1>2, <1>3, PTL DEF Spec, PhaseGoesWrongOnlyLate

-----------------------------------------------------------------------------
(* The refinement.                                                         *)

\* A step changes the abstract state as far as it changes statuses and opens
\* or closes commands.
SameStatus(r) == run'[r].status = run[r].status
SameOwed(c) == cmd'[c].state = "open" <=> cmd[c].state = "open"

LEMMA AbstractChange ==
  /\ (\A r \in Runs : SameStatus(r)) => UNCHANGED statusOf
  /\ (\A c \in Commands : SameOwed(c)) => UNCHANGED owedCommands
  /\ \A r \in Runs :
       (\A q \in Runs : q # r => SameStatus(q))
         => statusOf' = [statusOf EXCEPT ![r] = run'[r].status]
  /\ \A c \in Commands :
       (\A e \in Commands : e # c => SameOwed(e))
         => /\ cmd'[c].state = "open" => owedCommands' = owedCommands \cup {c}
            /\ cmd'[c].state # "open" => owedCommands' = owedCommands \ {c}
<1>1. (\A r \in Runs : SameStatus(r)) => UNCHANGED statusOf
  BY DEF SameStatus, statusOf
<1>2. (\A c \in Commands : SameOwed(c)) => UNCHANGED owedCommands
  BY DEF SameOwed, owedCommands
<1>3. ASSUME NEW r \in Runs, \A q \in Runs : q # r => SameStatus(q)
      PROVE  statusOf' = [statusOf EXCEPT ![r] = run'[r].status]
  BY <1>3 DEF SameStatus, statusOf
<1>4. ASSUME NEW c \in Commands, \A e \in Commands : e # c => SameOwed(e)
      PROVE  /\ cmd'[c].state = "open" => owedCommands' = owedCommands \cup {c}
             /\ cmd'[c].state # "open" => owedCommands' = owedCommands \ {c}
  BY <1>4 DEF SameOwed, owedCommands
<1> QED
  BY <1>1, <1>2, <1>3, <1>4

\* An acknowledgement: the run's status stays, the command is owed no more.
LEMMA AcknowledgeStep ==
  ASSUME IInv, NEW d \in Dispatchers, \A r \in Runs : SameStatus(r),
         cmd' = [cmd EXCEPT ![Job(d)].state = "processed"],
         disp[d].pc \in {"terminal", "ack", "late", "cleanup"}
  PROVE  Lifecycle!Acknowledge(Job(d)) \/ UNCHANGED <<statusOf, owedCommands>>
<1>1. cmd \in [Commands -> CommandRow]
  BY DEF IInv, TypeOK
<1>2. /\ Job(d) \in Commands
      /\ disp[d].pc = "cleanup" => disp[d].type = "CANCEL"
      /\ disp[d].pc # "cleanup" => run[disp[d].run].status # "QUEUED"
  BY DEF IInv, JobsKnow, Job, Commands
<1>3. /\ cmd'[Job(d)].state = "processed"
      /\ \A e \in Commands : e # Job(d) => cmd'[e] = cmd[e]
  BY <1>1, <1>2 DEF CommandRow
<1>4. UNCHANGED statusOf /\ owedCommands' = owedCommands \ {Job(d)}
  BY <1>2, <1>3, AbstractChange DEF SameOwed
<1>5. Job(d)[2] = "START" => statusOf[Job(d)[1]] # "QUEUED"
  BY <1>2 DEF Job, statusOf, Commands
<1> QED
  BY <1>4, <1>5 DEF Lifecycle!Acknowledge

LEMMA LifecycleStep ==
  ASSUME IInv, NeverFailed, [Next]_vars
  PROVE  Lifecycle!Next \/ UNCHANGED <<statusOf, owedCommands>>
<1> DEFINE Goal == Lifecycle!Next \/ UNCHANGED <<statusOf, owedCommands>>
<1>1. run \in [Runs -> WorkflowRunRow] /\ cmd \in [Commands -> CommandRow]
  BY DEF IInv, TypeOK, RunsTypeOK
<1>2. \A r \in Runs : /\ statusOf[r] = run[r].status
                      /\ <<r, "START">> \in owedCommands <=> cmd[<<r, "START">>].state = "open"
  BY DEF statusOf, owedCommands, Commands, WorkflowCommandType
<1>3. ASSUME NEW r \in Runs, Enqueue(r) PROVE Goal
  <2>1. run'[r].status = "QUEUED" /\ run[r].status = "ABSENT"
    BY <1>1, <1>3 DEF Enqueue, EnqueueRun, NewWorkflowRun
  <2>2. statusOf' = [statusOf EXCEPT ![r] = "QUEUED"]
    BY <1>1, <1>3, <2>1, AbstractChange DEF Enqueue, EnqueueRun, SameStatus
  <2>3. <<r, "START">> \in Commands /\ cmd'[<<r, "START">>].state = "open"
    BY <1>1, <1>3 DEF Enqueue, NewCommand, Commands, WorkflowCommandType
  <2>4. owedCommands' = owedCommands \cup {<<r, "START">>}
    BY <1>1, <1>3, <2>3, AbstractChange DEF Enqueue, SameOwed
  <2> QED
    BY <1>2, <2>1, <2>2, <2>4 DEF Lifecycle!Next, Lifecycle!Enqueue
<1>4. ASSUME NEW o \in Owners, OwnerResolves(o) PROVE Goal
  <2> DEFINE r == owner[o].run
  <2>1. r \in Runs /\ run[r].status # "ABSENT" /\ (owner[o].found => run[r].status # "CANCELED")
    BY <1>4 DEF OwnerResolves, OwnerCommit, IInv, OwnersKnow
  <2>2. CASE owner[o].found
    <3>1. run'[r].status = "CANCELED" /\ \A q \in Runs : q # r => run'[q] = run[q]
      BY <1>1, <1>4, <2>1, <2>2, StatusOfUpdates DEF OwnerResolves, OwnerCommit
    <3>2. statusOf' = [statusOf EXCEPT ![r] = "CANCELED"]
      BY <2>1, <3>1, AbstractChange DEF SameStatus
    <3>3. /\ <<r, "CANCEL">> \in Commands
          /\ cmd' = [cmd EXCEPT ![<<r, "CANCEL">>] = NewCommand]
      BY <1>4, <2>1, <2>2, OutboxAssumption
      DEF OwnerResolves, NeedsTemporalCancel, Commands, WorkflowCommandType
    <3>4. owedCommands' = owedCommands \cup {<<r, "CANCEL">>}
      BY <1>1, <3>3, AbstractChange DEF SameOwed, NewCommand
    <3>5. statusOf[r] \in {"QUEUED", "RUNNING", "COMPLETED"}
      BY <1>1, <1>2, <2>1, <2>2
      DEF NeverFailed, WorkflowRunRow, WorkflowStatus, ActiveStatus, TerminalStatus
    <3> QED
      BY <2>1, <3>2, <3>4, <3>5 DEF Lifecycle!Next, Lifecycle!Cancel
  <2>3. CASE ~owner[o].found
    BY <1>4, <2>3, AbstractChange
    DEF OwnerResolves, OwnerCommit, NeedsTemporalCancel, SameStatus, SameOwed
  <2> QED
    BY <2>2, <2>3
<1>5. ASSUME NEW d \in Dispatchers, ActivateRun(d) PROVE Goal
  <2> DEFINE r == disp[d].run
  <2>1. UNCHANGED owedCommands
    BY <1>5, AbstractChange DEF ActivateRun, SameOwed
  <2>2. CASE r \in Runs /\ run[r].status = "QUEUED"
    <3>1. run'[r].status = "RUNNING" /\ \A q \in Runs : q # r => run'[q] = run[q]
      BY <1>1, <1>5, <2>2, StatusOfUpdates DEF ActivateRun, UpdateRun, ActiveStatus
    <3>2. statusOf' = [statusOf EXCEPT ![r] = "RUNNING"]
      BY <2>2, <3>1, AbstractChange DEF SameStatus
    <3>3. <<r, "START">> \in owedCommands
      BY <1>2, <2>2 DEF IInv, StartIntentKept
    <3> QED
      BY <1>2, <2>1, <2>2, <3>2, <3>3 DEF Lifecycle!Next, Lifecycle!Activate
  <2>3. CASE ~(r \in Runs /\ run[r].status = "QUEUED")
    <3>1. \A q \in Runs : SameStatus(q)
      BY <1>1, <1>5, <2>3, StatusOfUpdates DEF ActivateRun, UpdateRun, ActiveStatus, SameStatus
    <3> QED
      BY <2>1, <3>1, AbstractChange
  <2> QED
    BY <2>2, <2>3
<1>6. ASSUME NEW d \in Dispatchers,
             SkipTerminal(d) \/ AckStart(d) \/ LateStart(d) \/ CleanupAsCanceled(d)
      PROVE  Goal
  <2>1. /\ cmd' = [cmd EXCEPT ![Job(d)].state = "processed"]
        /\ disp[d].pc \in {"terminal", "ack", "late", "cleanup"}
    BY <1>6 DEF SkipTerminal, AckStart, LateStart, CleanupAsCanceled, Processed
  <2>2. ASSUME NEW r \in Runs PROVE SameStatus(r)
    <3>1. CASE SkipTerminal(d)
      BY <1>1, <3>1, StatusOfUpdates DEF SkipTerminal, UpdateRun, SameStatus
    <3>2. CASE AckStart(d)
      BY <3>2 DEF AckStart, SameStatus
    <3>3. CASE LateStart(d)
      BY <1>1, <3>3, StatusOfUpdates DEF LateStart, UpdateRun, SameStatus
    <3>4. CASE CleanupAsCanceled(d)
      BY <1>1, <3>4, StatusOfUpdates DEF CleanupAsCanceled, UpdateRun, SameStatus
    <3> QED
      BY <1>6, <3>1, <3>2, <3>3, <3>4
  <2>3. Job(d) \in Lifecycle!Intents
    BY <2>1
    DEF IInv, JobsKnow, Job, WorkflowCommandType, Lifecycle!Intents, Lifecycle!WorkflowCommandType
  <2> QED
    BY <2>1, <2>2, <2>3, AcknowledgeStep DEF Lifecycle!Next
<1>7. ASSUME NEW w \in Workers, CompleteWorkflowRun(w), UNCHANGED cmd PROVE Goal
  <2> DEFINE r == worker[w].run
  <2>1. r \in Runs /\ run[r].status # "ABSENT"
    BY <1>7 DEF CompleteWorkflowRun, IInv, WorkersKnow
  <2>2. UNCHANGED owedCommands
    BY <1>7, AbstractChange DEF SameOwed
  <2>3. \A q \in Runs : q # r => run'[q] = run[q]
    BY <1>1, <1>7 DEF CompleteWorkflowRun
  <2>4. CASE run[r].status \in ActiveStatus
    <3>1. run'[r].status = "COMPLETED"
      BY <1>1, <1>7, <2>1, <2>4, StatusOfUpdates DEF CompleteWorkflowRun, ActiveStatus
    <3>2. statusOf' = [statusOf EXCEPT ![r] = "COMPLETED"]
      BY <2>1, <2>3, <3>1, AbstractChange DEF SameStatus
    <3> QED
      BY <1>2, <2>1, <2>2, <2>4, <3>2
      DEF Lifecycle!Next, Lifecycle!Complete, Lifecycle!ActiveStatus, ActiveStatus
  <2>5. CASE run[r].status \notin ActiveStatus
    <3>1. run[r].status \in {"COMPLETED", "CANCELED"}
      BY <1>1, <2>1, <2>5 DEF NeverFailed, WorkflowRunRow, WorkflowStatus, TerminalStatus
    <3>2. SameStatus(r)
      <4>1. run'[r] = CompletedRow(run[r])
        BY <1>1, <1>7, <2>1 DEF CompleteWorkflowRun
      <4> QED
        BY <1>1, <2>1, <3>1, <4>1, StatusOfUpdates DEF SameStatus
    <3>3. \A q \in Runs : SameStatus(q)
      BY <2>3, <3>2 DEF SameStatus
    <3> QED
      BY <2>2, <3>3, AbstractChange
  <2> QED
    BY <2>4, <2>5
\* The other writers of runs change no status, those of commands open or close none.
<1>8. ASSUME NEW d \in Dispatchers, MarkCommandFailed(d) PROVE Goal
  <2>1. ASSUME NEW r \in Runs PROVE SameStatus(r)
    BY <1>1, <1>8, StatusOfUpdates DEF MarkCommandFailed, UpdateRun, SameStatus
  <2>2. \A c \in Commands : SameOwed(c)
    BY <1>1, <1>8 DEF MarkCommandFailed, SameOwed, CommandRow
  <2> QED
    BY <2>1, <2>2, AbstractChange
<1>9. ASSUME NEW w \in Workers, MarkCanceledObserved(w), UNCHANGED cmd PROVE Goal
  <2>1. ASSUME NEW r \in Runs PROVE SameStatus(r)
    BY <1>1, <1>9, StatusOfUpdates DEF MarkCanceledObserved, SameStatus
  <2> QED
    BY <1>9, <2>1, AbstractChange DEF SameOwed
<1>10. ASSUME NEW d \in Dispatchers, ClaimCommand(d) PROVE Goal
  <2>1. \A c \in Commands : SameOwed(c)
    BY <1>1, <1>10 DEF ClaimCommand, ClaimedCommand, SameOwed
  <2> QED
    BY <1>10, <2>1, AbstractChange DEF ClaimCommand, SameStatus
<1>11. ASSUME NEW c \in Commands, BecomesAvailable(c) PROVE Goal
  <2>1. \A e \in Commands : SameOwed(e)
    BY <1>1, <1>11 DEF BecomesAvailable, SameOwed, CommandRow
  <2> QED
    BY <1>11, <2>1, AbstractChange DEF BecomesAvailable, SameStatus
<1>12. CASE UNCHANGED <<run, cmd>>
  BY <1>12, AbstractChange DEF SameStatus, SameOwed
<1>13. \/ UNCHANGED <<run, cmd>>
       \/ \E r \in Runs : Enqueue(r)
       \/ \E o \in Owners : OwnerResolves(o)
       \/ \E d \in Dispatchers : \/ ClaimCommand(d) \/ SkipTerminal(d) \/ ActivateRun(d)
                                 \/ AckStart(d) \/ LateStart(d) \/ CleanupAsCanceled(d)
                                 \/ MarkCommandFailed(d)
       \/ \E w \in Workers : /\ MarkCanceledObserved(w) \/ CompleteWorkflowRun(w)
                             /\ UNCHANGED cmd
       \/ \E c \in Commands : BecomesAvailable(c)
  BY DEF Next, vars, outboxVars, Dispatch, TimerFires, ActivityTimesOut, OwnerChecks,
         OwnerCheck, OwnerOpens, OwnerOpenTx, OwnerFails, OwnerRollback, ListCommand,
         LoadCommand, StartExecution, CancelExecution, DispatchThrows, DispatcherCrash,
         ActivityStarts, ActivityProgress, Processing, LoadWorkflowRun, ExpireApproval,
         EmitFollowUp, ActivityEnds, ActivityThrows, ProcessingThrows, ActivityCrash, WorkerCrash
<1> QED
  BY <1>3, <1>4, <1>5, <1>6, <1>7, <1>8, <1>9, <1>10, <1>11, <1>12, <1>13

\* The outbox, its dispatchers, Temporal and the activity implement the abstract
\* lifecycle: statuses move only as it allows and an intent is owed, and its
\* command open, until it took effect.
THEOREM ImplementsSafeLifecycle == Spec => KeepsLifecycle
<1>1. Init => NeverFailed /\ Lifecycle!Init
  <2>1. ASSUME Init PROVE NeverFailed /\ statusOf = [r \in Runs |-> "ABSENT"]
    BY <2>1 DEF Init, RunsInit, NeverFailed, AbsentRun, statusOf
  <2>2. ASSUME Init PROVE owedCommands = {}
    BY <2>2 DEF Init, NoCommand, owedCommands
  <2> QED
    BY <2>1, <2>2 DEF Lifecycle!Init
<1>2. IInv /\ NeverFailed /\ [Next]_vars => NeverFailed'
  BY NeverFailedStep
<1>3. IInv /\ NeverFailed /\ [Next]_vars => [Lifecycle!Next]_(Lifecycle!lifecycleVars)
  BY LifecycleStep DEF Lifecycle!lifecycleVars
<1> QED
  BY InvariantHolds, <1>1, <1>2, <1>3, PTL DEF Spec, KeepsLifecycle, Lifecycle!SafeSpec
=============================================================================
