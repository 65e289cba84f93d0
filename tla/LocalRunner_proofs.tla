------------------------- MODULE LocalRunner_proofs -------------------------
(***************************************************************************)
(* Proofs about LocalRunner, for any number of runs, owners, runner        *)
(* processes and faults.                                                   *)
(*                                                                         *)
(* That a run is worked on by one process and acted on once rests on the   *)
(* conditional claim alone: only a QUEUED row is claimed, nothing turns a  *)
(* row QUEUED again, and so a process at work is the one claim there was.  *)
(***************************************************************************)
EXTENDS LocalRunner, TLAPS

\* A resolution in progress is about a run, with a decision of its subject.
OwnersKnow ==
  \A o \in Owners : owner[o].pc # "idle" =>
    owner[o].run \in Runs /\ owner[o].decision \in SubjectStatus

\* A row that waits for its claim was never claimed, none is claimed twice, and
\* nothing is done about a subject but by its claim.
ClaimedOnce ==
  \A r \in Runs :
    /\ run[r].status \in {"ABSENT", "QUEUED"} => claims[r] = 0
    /\ claims[r] <= 1
    /\ effects[r] <= claims[r]

\* A process at work has a claim, and before it acts nobody has.
WorkersKnow ==
  \A w \in Workers : worker[w].pc # "idle" =>
    /\ worker[w].run \in Runs
    /\ claims[worker[w].run] = 1
    /\ worker[w].pc \in {"load", "act"} => effects[worker[w].run] = 0

IInv == TypeOK /\ OwnersKnow /\ ClaimedOnce /\ WorkersKnow /\ OneRunnerPerRun

-----------------------------------------------------------------------------
LEMMA InitIInv == Init => IInv
BY RunsAssumption, LocalRunnerAssumption
   DEF Init, RunsInit, IInv, TypeOK, RunsTypeOK, OwnersKnow, ClaimedOnce, WorkersKnow,
       OneRunnerPerRun, AbsentRun, IdleOwner, IdleWorker, WorkflowRunRow, OwnerCall,
       WorkerCall, WorkerStep

-----------------------------------------------------------------------------
(* What the updates keep the type of.                                      *)

\* Each way a row of WorkflowRun is rewritten gives a row.
LEMMA RowUpdates ==
  ASSUME NEW row \in WorkflowRunRow
  PROVE  /\ [row EXCEPT !.phase = "CANCELED", !.wake = FALSE] \in WorkflowRunRow
         /\ \A engine : CanceledRow(row, engine) \in WorkflowRunRow
         /\ CompletedRow(row) \in WorkflowRunRow
         /\ ClaimedRow(row) \in WorkflowRunRow
         /\ FailedRow(row) \in WorkflowRunRow
<1> USE DEF WorkflowRunRow, WorkflowStatus, ActiveStatus, TerminalStatus, WorkflowEnginePhase
<1>1. [row EXCEPT !.phase = "CANCELED", !.wake = FALSE] \in WorkflowRunRow
  OBVIOUS
<1>2. \A engine : CanceledRow(row, engine) \in WorkflowRunRow
  BY DEF CanceledRow
<1>3. CompletedRow(row) \in WorkflowRunRow
  BY DEF CompletedRow
<1>4. ClaimedRow(row) \in WorkflowRunRow
  BY DEF ClaimedRow
<1>5. FailedRow(row) \in WorkflowRunRow
  BY DEF FailedRow
<1> QED
  BY <1>1, <1>2, <1>3, <1>4, <1>5

\* None of these rewritings makes a row wait for its claim, and only an owner's
\* cancellation makes it CANCELED.
LEMMA RowStatuses ==
  ASSUME NEW row \in WorkflowRunRow
  PROVE  /\ [row EXCEPT !.phase = "CANCELED", !.wake = FALSE].status = row.status
         /\ \A engine : CanceledRow(row, engine).status = "CANCELED"
         /\ CompletedRow(row).status \in {"CANCELED", "COMPLETED"}
         /\ FailedRow(row).status \in {"CANCELED", "FAILED"}
         /\ row.status = "CANCELED" => CompletedRow(row).status = "CANCELED"
         /\ row.status = "CANCELED" => FailedRow(row).status = "CANCELED"
         /\ ClaimedRow(row).status = "RUNNING"
BY DEF WorkflowRunRow, CanceledRow, CompletedRow, FailedRow, ClaimedRow

LEMMA NewRow == \A engine : NewWorkflowRun(engine) \in WorkflowRunRow
BY DEF NewWorkflowRun, WorkflowRunRow, WorkflowStatus, ActiveStatus, WorkflowEnginePhase

LEMMA WorkerUpdates ==
  ASSUME TypeOK, NEW w \in Workers
  PROVE  /\ \A pc \in WorkerStep : [worker EXCEPT ![w].pc = pc] \in [Workers -> WorkerCall]
         /\ [worker EXCEPT ![w] = IdleWorker] \in [Workers -> WorkerCall]
         /\ \A r \in Runs, n \in Nat :
              [worker EXCEPT ![w] = [pc |-> "load", run |-> r, attempt |-> n]]
                \in [Workers -> WorkerCall]
BY DEF TypeOK, RunsTypeOK, WorkerCall, WorkerStep, IdleWorker

LEMMA OwnerUpdates ==
  ASSUME TypeOK, NEW o \in Owners, NEW found \in BOOLEAN
  PROVE  /\ [owner EXCEPT ![o] = IdleOwner] \in [Owners -> OwnerCall]
         /\ [owner EXCEPT ![o].pc = "open", ![o].found = found] \in [Owners -> OwnerCall]
         /\ \A r \in Runs, decision \in SubjectStatus :
              [owner EXCEPT ![o] = [pc |-> "checked", run |-> r, decision |-> decision,
                                    found |-> FALSE]] \in [Owners -> OwnerCall]
BY ZenonT(60) DEF TypeOK, RunsTypeOK, OwnerCall, IdleOwner

-----------------------------------------------------------------------------
(* Every step keeps the invariant, one lemma for each of the code's parts.  *)

USE RunsAssumption, LocalRunnerAssumption

LEMMA EnqueueStep == ASSUME IInv, NEW r \in Runs, Enqueue(r) PROVE IInv'
<1> USE DEF IInv, Enqueue, EnqueueRun, localVars
<1>1. TypeOK'
  BY NewRow DEF TypeOK, RunsTypeOK, InitialSubject, SubjectStatus, ApprovalStatus, HandoffStatus
<1>2. OwnersKnow' /\ OneRunnerPerRun'
  BY DEF OwnersKnow, OneRunnerPerRun
<1>3. ClaimedOnce' /\ WorkersKnow'
  BY DEF ClaimedOnce, WorkersKnow, TypeOK, RunsTypeOK
<1> QED
  BY <1>1, <1>2, <1>3

LEMMA OwnerStep == ASSUME IInv, NEW o \in Owners, OwnerActs(o) \/ OwnerFails(o) PROVE IInv'
<1> USE DEF IInv
<1>1. ASSUME NEW r \in Runs, NEW decision \in OwnerDecision(Kind[r]),
             OwnerCheck(o, r, decision), UNCHANGED localVars
      PROVE  IInv'
  <2> USE <1>1 DEF OwnerCheck, localVars
  <2>1. decision \in SubjectStatus
    BY DEF OwnerDecision, SubjectStatus, ApprovalStatus, HandoffStatus
  <2>2. TypeOK'
    BY <2>1, OwnerUpdates DEF TypeOK, RunsTypeOK
  <2>3. OwnersKnow'
    BY <2>1 DEF OwnersKnow, TypeOK, RunsTypeOK
  <2>4. ClaimedOnce' /\ WorkersKnow' /\ OneRunnerPerRun'
    BY DEF ClaimedOnce, WorkersKnow, OneRunnerPerRun
  <2> QED
    BY <2>2, <2>3, <2>4
<1>2. ASSUME OwnerOpenTx(o), UNCHANGED localVars PROVE IInv'
  <2> USE <1>2 DEF OwnerOpenTx, localVars
  <2>1. TypeOK'
    BY OwnerUpdates DEF TypeOK, RunsTypeOK
  <2>2. OwnersKnow'
    BY DEF OwnersKnow, TypeOK, RunsTypeOK, OwnerCall
  <2>3. ClaimedOnce' /\ WorkersKnow' /\ OneRunnerPerRun'
    BY DEF ClaimedOnce, WorkersKnow, OneRunnerPerRun
  <2> QED
    BY <2>1, <2>2, <2>3
<1>3. ASSUME OwnerCommit(o), UNCHANGED localVars PROVE IInv'
  <2> USE <1>3 DEF OwnerCommit, localVars
  <2> DEFINE r == owner[o].run
  <2>1. r \in Runs /\ owner[o].decision \in SubjectStatus
    BY DEF OwnersKnow
  <2>2. run[r] \in WorkflowRunRow
    BY <2>1 DEF TypeOK, RunsTypeOK
  <2>3. CanceledRow(run[r], Engine[r]) \in WorkflowRunRow
    BY <2>2, RowUpdates
  <2>4. TypeOK'
    BY <2>1, <2>3, OwnerUpdates DEF TypeOK, RunsTypeOK
  <2>5. OwnersKnow'
    BY DEF OwnersKnow, IdleOwner, TypeOK, RunsTypeOK
  <2>6. \A q \in Runs : run'[q].status \in {run[q].status, "CANCELED"}
    <3>1. CanceledRow(run[r], Engine[r]).status = "CANCELED"
      BY <2>2, RowStatuses
    <3> QED
      BY <2>1, <3>1 DEF TypeOK, RunsTypeOK
  <2>7. ClaimedOnce' /\ WorkersKnow' /\ OneRunnerPerRun'
    BY <2>6 DEF ClaimedOnce, WorkersKnow, OneRunnerPerRun
  <2> QED
    BY <2>4, <2>5, <2>7
<1>4. ASSUME OwnerFails(o) PROVE IInv'
  <2> USE <1>4 DEF OwnerFails, OwnerRollback, Fault
  <2>1. TypeOK'
    <3>1. FALSE \in BOOLEAN /\ owner' = [owner EXCEPT ![o] = IdleOwner]
      OBVIOUS
    <3>2. owner' \in [Owners -> OwnerCall]
      BY <3>1, OwnerUpdates, ZenonT(60)
    <3> QED
      BY <3>2 DEF TypeOK, RunsTypeOK
  <2>2. OwnersKnow'
    BY DEF OwnersKnow, IdleOwner, TypeOK, RunsTypeOK
  <2>3. ClaimedOnce' /\ WorkersKnow' /\ OneRunnerPerRun'
    BY DEF ClaimedOnce, WorkersKnow, OneRunnerPerRun
  <2> QED
    BY <2>1, <2>2, <2>3
<1> QED
  BY <1>1, <1>2, <1>3, <1>4 DEF OwnerActs

LEMMA ListStep ==
  ASSUME IInv, (\E r \in Runs : FallsDue(r)) \/ (\E w \in Workers : ListDueRuns(w))
  PROVE  IInv'
<1> USE DEF IInv, FallsDue, ListDueRuns
<1>1. TypeOK'
  BY DEF TypeOK, RunsTypeOK
<1>2. OwnersKnow' /\ ClaimedOnce' /\ WorkersKnow' /\ OneRunnerPerRun'
  BY DEF OwnersKnow, ClaimedOnce, WorkersKnow, OneRunnerPerRun
<1> QED
  BY <1>1, <1>2

\* The claim: the row was QUEUED, so no other process is at work on it.
LEMMA ClaimStep == ASSUME IInv, NEW w \in Workers, NEW r \in Runs, ClaimRun(w, r) PROVE IInv'
<1> USE DEF IInv
<1>1. CASE ~Claimable(r)
  BY <1>1 DEF ClaimRun, TypeOK, RunsTypeOK, OwnersKnow, ClaimedOnce, WorkersKnow, OneRunnerPerRun
<1>2. CASE Claimable(r)
  <2> USE <1>2 DEF ClaimRun, StartProcessing, Claimable
  <2>1. claims[r] = 0 /\ claims[r] \in Nat /\ effects[r] = 0
    BY DEF ClaimedOnce, TypeOK, RunsTypeOK
  <2>2. \A v \in Workers : worker[v].pc # "idle" => worker[v].run # r
    BY <2>1 DEF WorkersKnow
  <2>3. run[r] \in WorkflowRunRow /\ run' = [run EXCEPT ![r] = ClaimedRow(run[r])]
    BY DEF TypeOK, RunsTypeOK
  <2>4. /\ worker' = [worker EXCEPT ![w] = [pc |-> "load", run |-> r, attempt |-> claims[r] + 1]]
        /\ claims' = [claims EXCEPT ![r] = claims[r] + 1]
    OBVIOUS
  <2>5. TypeOK'
    <3>1. ClaimedRow(run[r]) \in WorkflowRunRow
      BY <2>3, RowUpdates
    <3>2. run' \in [Runs -> WorkflowRunRow]
      BY <2>3, <3>1 DEF TypeOK, RunsTypeOK
    <3>3. worker' \in [Workers -> WorkerCall]
      BY <2>1, <2>4, WorkerUpdates
    <3>4. claims' \in [Runs -> Nat] /\ batch' \in [Workers -> SUBSET Runs]
      BY <2>1, <2>4 DEF TypeOK
    <3> QED
      BY <3>2, <3>3, <3>4 DEF TypeOK, RunsTypeOK
  <2>6. OwnersKnow'
    BY DEF OwnersKnow
  <2>7. ClaimedOnce'
    BY <2>1, <2>3, <2>4, RowStatuses DEF ClaimedOnce, TypeOK, RunsTypeOK
  <2>8. WorkersKnow'
    BY <2>1, <2>2, <2>4 DEF WorkersKnow, TypeOK, RunsTypeOK
  <2>9. OneRunnerPerRun'
    BY <2>2, <2>4 DEF OneRunnerPerRun, TypeOK, RunsTypeOK
  <2> QED
    BY <2>5, <2>6, <2>7, <2>8, <2>9
<1> QED
  BY <1>1, <1>2

\* What only moves a process on: its claim and the rows stay.
LEMMA MoveStep ==
  ASSUME IInv, NEW w \in Workers, worker[w].pc # "idle",
         NEW pc \in WorkerStep, pc \in {"load", "act"} => worker[w].pc = "load",
         worker' = [worker EXCEPT ![w].pc = pc],
         subject' \in [Runs -> SubjectStatus \cup {"ABSENT"}],
         run' \in [Runs -> WorkflowRunRow],
         \A r \in Runs : \/ run'[r].status = run[r].status
                         \/ run'[r].status \in TerminalStatus,
         faults' \in Nat,
         UNCHANGED <<effects, owner, due, batch, claims>>
  PROVE  IInv'
<1> USE DEF IInv
<1>1. TypeOK'
  BY WorkerUpdates DEF TypeOK, RunsTypeOK
<1>2. OwnersKnow'
  BY DEF OwnersKnow
<1>3. ClaimedOnce'
  BY DEF ClaimedOnce, TerminalStatus
<1>4. \A v \in Workers : /\ worker'[v].run = worker[v].run
                         /\ worker'[v].pc # "idle" => worker[v].pc # "idle"
                         /\ worker'[v].pc \in {"load", "act"} => worker[v].pc \in {"load", "act"}
  BY DEF TypeOK, RunsTypeOK, WorkerCall
<1>5. WorkersKnow' /\ OneRunnerPerRun'
  BY <1>4 DEF WorkersKnow, OneRunnerPerRun
<1> QED
  BY <1>1, <1>2, <1>3, <1>5

LEMMA ProgressStep == ASSUME IInv, NEW w \in Workers, RunnerProgress(w) PROVE IInv'
<1> USE DEF IInv, RunnerProgress, localVars, WorkerTo
<1> DEFINE r == worker[w].run
<1>1. CASE LoadWorkflowRun(w)
  <2> USE <1>1 DEF LoadWorkflowRun
  <2>1. NextStepFor(run[r], subject[r]) \in WorkerStep
    BY DEF NextStepFor, WorkerStep
  <2>2. worker[w].pc = "load"
    OBVIOUS
  <2>3. /\ subject' \in [Runs -> SubjectStatus \cup {"ABSENT"}]
        /\ run' \in [Runs -> WorkflowRunRow] /\ run' = run
        /\ faults' \in Nat
    BY DEF TypeOK, RunsTypeOK
  <2> QED
    BY <2>1, <2>2, <2>3, MoveStep
<1>2. CASE MarkCanceledObserved(w)
  <2> USE <1>2 DEF MarkCanceledObserved
  <2>1. worker[w].pc = "observe" /\ r \in Runs /\ run[r] \in WorkflowRunRow
    BY DEF WorkersKnow, TypeOK, RunsTypeOK
  <2>2. /\ [run[r] EXCEPT !.phase = "CANCELED", !.wake = FALSE] \in WorkflowRunRow
        /\ [run[r] EXCEPT !.phase = "CANCELED", !.wake = FALSE].status = run[r].status
    BY <2>1, RowUpdates, RowStatuses
  <2>3. /\ subject' \in [Runs -> SubjectStatus \cup {"ABSENT"}]
        /\ run' \in [Runs -> WorkflowRunRow]
        /\ \A q \in Runs : run'[q].status = run[q].status
        /\ faults' \in Nat
    BY <2>1, <2>2 DEF TypeOK, RunsTypeOK
  <2> QED
    BY <2>1, <2>3, MoveStep DEF WorkerStep
<1>3. CASE CompleteWorkflowRun(w)
  <2> USE <1>3 DEF CompleteWorkflowRun
  <2>1. worker[w].pc = "complete" /\ r \in Runs /\ run[r] \in WorkflowRunRow
    BY DEF WorkersKnow, TypeOK, RunsTypeOK
  <2>2. CompletedRow(run[r]) \in WorkflowRunRow /\ CompletedRow(run[r]).status \in TerminalStatus
    BY <2>1, RowUpdates, RowStatuses DEF TerminalStatus
  <2>3. /\ subject' \in [Runs -> SubjectStatus \cup {"ABSENT"}]
        /\ run' \in [Runs -> WorkflowRunRow]
        /\ \A q \in Runs : run'[q].status = run[q].status \/ run'[q].status \in TerminalStatus
        /\ faults' \in Nat
    BY <2>1, <2>2 DEF TypeOK, RunsTypeOK
  <2> QED
    BY <2>1, <2>3, MoveStep DEF WorkerStep
\* The effect: its claim is the only one, and it had none yet.
<1>4. CASE ExpireApproval(w) \/ EmitFollowUp(w)
  <2>1. /\ worker[w].pc = "act" /\ worker' = [worker EXCEPT ![w].pc = "complete"]
        /\ effects' = [effects EXCEPT ![r] = @ + 1]
        /\ subject' \in {subject, [subject EXCEPT ![r] = "EXPIRED"]}
        /\ UNCHANGED <<run, owner, due, batch, claims, faults>>
    BY <1>4 DEF ExpireApproval, EmitFollowUp
  <2>2. r \in Runs /\ claims[r] = 1 /\ effects[r] = 0
    BY <2>1 DEF WorkersKnow
  <2>3. TypeOK'
    <3>1. worker' \in [Workers -> WorkerCall]
      BY <2>1, WorkerUpdates DEF WorkerStep
    <3>2. subject' \in [Runs -> SubjectStatus \cup {"ABSENT"}]
      BY <2>1 DEF TypeOK, RunsTypeOK, SubjectStatus, ApprovalStatus
    <3>3. effects' \in [Runs -> Nat]
      BY <2>1, <2>2 DEF TypeOK, RunsTypeOK
    <3> QED
      BY <2>1, <3>1, <3>2, <3>3 DEF TypeOK, RunsTypeOK
  <2>4. OwnersKnow' /\ ClaimedOnce'
    BY <2>1, <2>2 DEF OwnersKnow, ClaimedOnce, TypeOK, RunsTypeOK
  <2>5. \A v \in Workers : /\ worker'[v].run = worker[v].run
                           /\ worker'[v].pc # "idle" => worker[v].pc # "idle"
                           /\ v # w => worker'[v].pc = worker[v].pc
                           /\ v = w => worker'[v].pc = "complete"
    BY <2>1 DEF TypeOK, RunsTypeOK, WorkerCall
  <2>6. OneRunnerPerRun'
    BY <2>5 DEF OneRunnerPerRun
  <2>7. \A v \in Workers : v # w /\ worker[v].pc # "idle" => worker[v].run # r
    BY <2>1 DEF OneRunnerPerRun
  <2>8. WorkersKnow'
    BY <2>1, <2>5, <2>7 DEF WorkersKnow, TypeOK, RunsTypeOK
  <2> QED
    BY <2>3, <2>4, <2>6, <2>8
<1> QED
  BY <1>1, <1>2, <1>3, <1>4 DEF Processing

\* A process that stops working on its run: its claim stays behind.
LEMMA StopStep ==
  ASSUME IInv, NEW w \in Workers,
         worker' = [worker EXCEPT ![w] = IdleWorker],
         run' \in [Runs -> WorkflowRunRow],
         \A r \in Runs : run'[r].status = run[r].status \/ run'[r].status \in TerminalStatus,
         batch' \in [Workers -> SUBSET Runs], faults' \in Nat,
         UNCHANGED <<subject, effects, owner, due, claims>>
  PROVE  IInv'
<1> USE DEF IInv
<1>1. TypeOK'
  BY WorkerUpdates DEF TypeOK, RunsTypeOK
<1>2. OwnersKnow' /\ ClaimedOnce'
  BY DEF OwnersKnow, ClaimedOnce, TerminalStatus
<1>3. \A v \in Workers : worker'[v].pc # "idle" => worker'[v] = worker[v]
  BY DEF TypeOK, RunsTypeOK, IdleWorker
<1>4. WorkersKnow' /\ OneRunnerPerRun'
  BY <1>3 DEF WorkersKnow, OneRunnerPerRun
<1> QED
  BY <1>1, <1>2, <1>4

LEMMA RunnerEnds ==
  ASSUME IInv, NEW w \in Workers,
         RunnerFinishes(w) \/ RunnerThrows(w) \/ MarkRunFailed(w) \/ RunnerCrash(w)
  PROVE  IInv'
<1> DEFINE r == worker[w].run
<1> USE DEF IInv
<1>1. CASE RunnerFinishes(w)
  <2>1. /\ worker' = [worker EXCEPT ![w] = IdleWorker]
        /\ UNCHANGED <<run, subject, effects, owner, due, batch, claims, faults>>
    BY <1>1 DEF RunnerFinishes, localVars
  <2> QED
    BY <2>1, StopStep DEF TypeOK, RunsTypeOK
<1>2. CASE RunnerThrows(w)
  <2>1. /\ worker[w].pc # "idle" /\ worker' = [worker EXCEPT ![w].pc = "failed"]
        /\ faults' = faults + 1
        /\ UNCHANGED <<run, subject, effects, owner, due, batch, claims>>
    BY <1>2 DEF RunnerThrows, ProcessingThrows, WorkerTo, Fault
  <2>2. /\ subject' \in [Runs -> SubjectStatus \cup {"ABSENT"}]
        /\ run' \in [Runs -> WorkflowRunRow] /\ run' = run
        /\ faults' \in Nat
    BY <2>1 DEF TypeOK, RunsTypeOK
  <2> QED
    BY <2>1, <2>2, MoveStep DEF WorkerStep
<1>3. CASE MarkRunFailed(w)
  <2>1. /\ worker[w].pc # "idle" /\ worker' = [worker EXCEPT ![w] = IdleWorker]
        /\ run' = [run EXCEPT ![r] = FailedRow(run[r])]
        /\ UNCHANGED <<subject, effects, owner, due, batch, claims, faults>>
    BY <1>3 DEF MarkRunFailed, localVars
  <2>2. r \in Runs /\ run[r] \in WorkflowRunRow
    BY <2>1 DEF WorkersKnow, TypeOK, RunsTypeOK
  <2>3. FailedRow(run[r]) \in WorkflowRunRow /\ FailedRow(run[r]).status \in TerminalStatus
    BY <2>2, RowUpdates, RowStatuses DEF TerminalStatus
  <2>4. /\ run' \in [Runs -> WorkflowRunRow]
        /\ \A q \in Runs : run'[q].status = run[q].status \/ run'[q].status \in TerminalStatus
    BY <2>1, <2>2, <2>3 DEF TypeOK, RunsTypeOK
  <2> QED
    BY <2>1, <2>4, StopStep DEF TypeOK, RunsTypeOK
<1>4. CASE RunnerCrash(w)
  <2>1. /\ worker' = [worker EXCEPT ![w] = IdleWorker]
        /\ batch' = [batch EXCEPT ![w] = {}]
        /\ faults' = faults + 1
        /\ UNCHANGED <<run, subject, effects, owner, due, claims>>
    BY <1>4 DEF RunnerCrash, Fault
  <2>2. /\ run' \in [Runs -> WorkflowRunRow] /\ run' = run
        /\ batch' \in [Workers -> SUBSET Runs] /\ faults' \in Nat
    BY <2>1 DEF TypeOK, RunsTypeOK
  <2> QED
    BY <2>1, <2>2, StopStep
<1> QED
  BY <1>1, <1>2, <1>3, <1>4

LEMMA NextIInv == IInv /\ [Next]_vars => IInv'
<1> SUFFICES ASSUME IInv, [Next]_vars PROVE IInv'
  OBVIOUS
<1>1. CASE UNCHANGED vars
  BY <1>1 DEF vars, IInv, TypeOK, RunsTypeOK, OwnersKnow, ClaimedOnce, WorkersKnow, OneRunnerPerRun
<1>2. ASSUME NEW r \in Runs, Enqueue(r) \/ FallsDue(r) PROVE IInv'
  BY <1>2, EnqueueStep, ListStep
<1>3. ASSUME NEW o \in Owners, OwnerActs(o) \/ OwnerFails(o) PROVE IInv'
  BY <1>3, OwnerStep
<1>4. ASSUME NEW w \in Workers,
             \/ ListDueRuns(w) \/ \E r \in Runs : ClaimRun(w, r)
             \/ RunnerProgress(w) \/ RunnerFinishes(w)
             \/ RunnerThrows(w) \/ MarkRunFailed(w) \/ RunnerCrash(w)
      PROVE  IInv'
  BY <1>4, ListStep, ClaimStep, ProgressStep, RunnerEnds
<1> QED
  BY <1>1, <1>2, <1>3, <1>4 DEF Next

\* The inductive invariant: each process at work has the only claim of its run.
THEOREM InvariantHolds == Spec => []IInv
BY InitIInv, NextIInv, PTL DEF Spec

-----------------------------------------------------------------------------
\* Every row, batch and process of the local engine keeps its type.
THEOREM TypeCorrect == Spec => []TypeOK
BY InvariantHolds, PTL DEF IInv

\* However many processes list a run, and whichever die, one works on it
\* (claimDueWorkflowRun's updateMany where the status is QUEUED).
THEOREM RunnersExclude == Spec => []OneRunnerPerRun
BY InvariantHolds, PTL DEF IInv

\* The approval is expired, or the follow-up emitted, at most once, and a run is
\* claimed at most once: the local engine never tries again.
THEOREM ActsOnce == Spec => []ActsAtMostOnce
<1>1. IInv => ActsAtMostOnce
  BY DEF IInv, TypeOK, RunsTypeOK, ClaimedOnce, ActsAtMostOnce
<1> QED
  BY <1>1, InvariantHolds, PTL

\* What an owner canceled stays CANCELED, whatever the runner that was already
\* at work writes when it completes or fails (updateMany where not CANCELED).
THEOREM CancellationIsFinal == Spec => CanceledIsFinal
<1> DEFINE Kept == \A r \in Runs : run[r].status = "CANCELED" => run'[r].status = "CANCELED"
<1>1. ASSUME IInv, Next PROVE Kept
  <2> SUFFICES ASSUME NEW q \in Runs, run[q].status = "CANCELED"
               PROVE  run'[q].status = "CANCELED"
    OBVIOUS
  <2>1. run \in [Runs -> WorkflowRunRow] /\ run[q] \in WorkflowRunRow
    BY <1>1 DEF IInv, TypeOK, RunsTypeOK
  <2>2. CASE run' = run
    BY <2>2
  <2>3. ASSUME NEW r \in Runs, Enqueue(r) PROVE run'[q].status = "CANCELED"
    BY <2>1, <2>3 DEF Enqueue, EnqueueRun
  <2>4. ASSUME NEW o \in Owners, OwnerCommit(o) PROVE run'[q].status = "CANCELED"
    BY <2>1, <2>4, RowStatuses DEF OwnerCommit
  <2>5. ASSUME NEW w \in Workers, NEW r \in Runs, ClaimRun(w, r)
        PROVE  run'[q].status = "CANCELED"
    BY <2>1, <2>5 DEF ClaimRun, Claimable
  <2>6. ASSUME NEW w \in Workers, MarkCanceledObserved(w) \/ CompleteWorkflowRun(w) \/ MarkRunFailed(w)
        PROVE  run'[q].status = "CANCELED"
    <3>1. /\ [run[q] EXCEPT !.phase = "CANCELED", !.wake = FALSE].status = "CANCELED"
          /\ CompletedRow(run[q]).status = "CANCELED"
          /\ FailedRow(run[q]).status = "CANCELED"
      BY <2>1, RowStatuses
    <3>2. CASE MarkCanceledObserved(w)
      BY <2>1, <3>1, <3>2 DEF MarkCanceledObserved
    <3>3. CASE CompleteWorkflowRun(w)
      BY <2>1, <3>1, <3>3 DEF CompleteWorkflowRun
    <3>4. CASE MarkRunFailed(w)
      BY <2>1, <3>1, <3>4 DEF MarkRunFailed
    <3> QED
      BY <2>6, <3>2, <3>3, <3>4
  <2> QED
    BY <1>1, <2>2, <2>3, <2>4, <2>5, <2>6
       DEF Next, FallsDue, OwnerActs, OwnerFails, OwnerCheck, OwnerOpenTx, OwnerRollback,
           ListDueRuns, RunnerProgress, Processing, LoadWorkflowRun, ExpireApproval,
           EmitFollowUp, RunnerFinishes, RunnerThrows, ProcessingThrows, RunnerCrash
<1>2. IInv /\ [Next]_vars => [Kept]_run
  BY <1>1 DEF vars
<1> QED
  BY <1>2, InvariantHolds, PTL DEF Spec, CanceledIsFinal
=============================================================================
