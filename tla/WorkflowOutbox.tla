--------------------------- MODULE WorkflowOutbox ---------------------------
(***************************************************************************)
(* Durable workflows on the Temporal engine: the transactional outbox, its *)
(* dispatchers (runTemporalWorkflowCommandTick), the Temporal service and  *)
(* the activity that runs processWorkflowRunById.                          *)
(*                                                                         *)
(* A dispatcher is one workflow-runner process; it serves one command at a *)
(* time and keeps what it read in memory.  Commands are ordered by         *)
(* availableAt in the code; here any available one may come first, which   *)
(* includes every order retries and leases produce.                        *)
(*                                                                         *)
(* Temporal is external.  What src/ relies on is modelled: a workflow id   *)
(* is started at most once (REJECT_DUPLICATE), the timer survives, the     *)
(* activity is attempted at most MaximumAttempts times, a cancelled        *)
(* execution schedules nothing more but does not stop a running attempt.   *)
(***************************************************************************)
EXTENDS WorkflowRuns

CONSTANTS
  Dispatchers,       \* workflow-runner processes polling the outbox
  MaximumAttempts,   \* activity attempts Temporal makes (retry.maximumAttempts)
  MaxFaults          \* bound: throws, crashes and premature timeouts per behaviour

ASSUME OutboxAssumption ==
  /\ MaximumAttempts \in Nat \ {0}
  /\ MaxFaults \in Nat
  /\ \A r \in Runs : Engine[r] = "TEMPORAL"

VARIABLES
  cmd,         \* [Runs \X WorkflowCommandType -> outbox row]
  disp,        \* [Dispatchers -> a command being served]
  exec,        \* [Runs -> Temporal execution of the run's externalWorkflowId]
  faults       \* faults so far

outboxVars == <<cmd, disp, exec, faults>>
vars == <<run, subject, effects, owner, worker, cmd, disp, exec, faults>>

Commands == Runs \X WorkflowCommandType

NoCommand == [state |-> "ABSENT", ready |-> FALSE, attempts |-> 0]
NewCommand == [state |-> "open", ready |-> TRUE, attempts |-> 0]

\* What an idle dispatcher holds: no command, nothing read.
NoJob == [pc |-> "idle", run |-> NoRun, type |-> "NULL", seen |-> 0, snap |-> "NULL"]

Init ==
  /\ RunsInit
  /\ cmd = [c \in Commands |-> NoCommand]
  /\ disp = [d \in Dispatchers |-> NoJob]
  /\ exec = [r \in Runs |-> [st |-> "none", attempt |-> 0]]
  /\ faults = 0

CommandRow ==
  [state : {"ABSENT", "open", "processed"}, ready : BOOLEAN, attempts : Nat]

JobStep == {"idle", "claim", "load", "terminal", "start", "activate", "ack", "late",
            "cancel", "cleanup", "failed"}
JobRow ==
  [pc : JobStep, run : Runs \cup {NoRun}, type : WorkflowCommandType \cup {"NULL"},
   seen : Nat, snap : WorkflowStatus \cup {"ABSENT", "NULL"}]

Execution ==
  [st : {"none", "timer", "activity", "running", "completed", "failed", "canceled"},
   attempt : 0..MaximumAttempts]

TypeOK ==
  /\ RunsTypeOK
  /\ cmd \in [Commands -> CommandRow]
  /\ disp \in [Dispatchers -> JobRow]
  /\ exec \in [Runs -> Execution]
  /\ faults \in Nat

Fault == faults < MaxFaults /\ faults' = faults + 1

-----------------------------------------------------------------------------
(* Business transactions, with the outbox rows they write.                 *)

\* createApprovalRequestForExecution / enqueueHandoffFollowUpWorkflowTx: the
\* START command is inserted with the run.
Enqueue(r) ==
  /\ EnqueueRun(r)
  /\ cmd' = [cmd EXCEPT ![<<r, "START">>] = NewCommand]
  /\ UNCHANGED <<disp, exec, faults>>

OwnerChecks(o) ==
  /\ \E r \in Runs : \E decision \in OwnerDecision(Kind[r]) : OwnerCheck(o, r, decision)
  /\ UNCHANGED outboxVars

OwnerOpens(o) == OwnerOpenTx(o) /\ UNCHANGED outboxVars

\* The commit inserts the CANCEL command when a Temporal cancel is needed.
OwnerResolves(o) ==
  /\ OwnerCommit(o)
  /\ cmd' = IF NeedsTemporalCancel(o)
            THEN [cmd EXCEPT ![<<owner[o].run, "CANCEL">>] = NewCommand]
            ELSE cmd
  /\ UNCHANGED <<disp, exec, faults>>

OwnerFails(o) == Fault /\ OwnerRollback(o) /\ UNCHANGED <<cmd, disp, exec>>

-----------------------------------------------------------------------------
(* The dispatcher.                                                         *)

Job(d) == <<disp[d].run, disp[d].type>>
To(d, pc) == disp' = [disp EXCEPT ![d].pc = pc]
Finish(d) == disp' = [disp EXCEPT ![d] = NoJob]
Processed(c) == cmd' = [cmd EXCEPT ![c].state = "processed"]
UpdateRun(d, row) == run' = [run EXCEPT ![disp[d].run] = row]
businessVars == <<subject, effects, owner, worker>>

IsAvailable(c) == cmd[c].state = "open" /\ cmd[c].ready

\* findMany of available commands; the dispatcher remembers attemptCount.
ListCommand(d, c) ==
  /\ disp[d].pc = "idle"
  /\ IsAvailable(c)
  /\ disp' = [disp EXCEPT ![d] = [pc |-> "claim", run |-> c[1], type |-> c[2],
                                  seen |-> cmd[c].attempts, snap |-> "NULL"]]
  /\ UNCHANGED <<run, cmd, exec, faults, businessVars>>

\* Mutants: the claim ignores attemptCount; it only takes fresh commands.
Claimable_NoCompare(d) == IsAvailable(Job(d))
Claimable_FreshOnly(d) == IsAvailable(Job(d)) /\ cmd[Job(d)].attempts = 0

\* The compare-and-set claim: still available and not claimed since the list.
Claimable(d) == IsAvailable(Job(d)) /\ cmd[Job(d)].attempts = disp[d].seen

\* A claim leases the command (availableAt in the future).
ClaimedCommand(row) ==
  [state |-> row.state, ready |-> FALSE, attempts |-> row.attempts + 1]

ClaimCommand(d) ==
  /\ disp[d].pc = "claim"
  /\ \/ /\ Claimable(d)
        /\ cmd' = [cmd EXCEPT ![Job(d)] = ClaimedCommand(@)]
        /\ To(d, "load")
     \/ /\ ~Claimable(d)
        /\ Finish(d)
        /\ UNCHANGED cmd
  /\ UNCHANGED <<run, exec, faults, businessVars>>

\* loadWorkflowCommand and the first branch of dispatchWorkflow*Command.
DispatchStep(type, status) ==
  CASE type = "CANCEL" -> "cancel"
    [] type = "START" /\ status \in TerminalStatus -> "terminal"
    [] OTHER -> "start"

LoadCommand(d) ==
  LET status == run[disp[d].run].status IN
  /\ disp[d].pc = "load"
  /\ disp' = [disp EXCEPT ![d].pc = DispatchStep(disp[d].type, status),
                          ![d].snap = status]
  /\ UNCHANGED <<run, cmd, exec, faults, businessVars>>

\* Mutant: the command is acknowledged and the run's phase left alone.
SkipTerminal_PhaseKept(d) ==
  /\ disp[d].pc = "terminal"
  /\ Processed(Job(d))
  /\ Finish(d)
  /\ UNCHANGED <<run, exec, faults, businessVars>>

\* START of a run that was already terminal when it was read.
SkipTerminal(d) ==
  /\ disp[d].pc = "terminal"
  /\ UpdateRun(d, [run[disp[d].run] EXCEPT
                     !.phase = enginePhaseForTerminalStatus(disp[d].snap),
                     !.wake = FALSE])
  /\ Processed(Job(d))
  /\ Finish(d)
  /\ UNCHANGED <<exec, faults, businessVars>>

\* client.workflow.start reached Temporal: a new execution, or the one that
\* already has this workflow id, open or closed.
Started(e) == IF e.st = "none" THEN [e EXCEPT !.st = "timer"] ELSE e

\* Mutant: the command is acknowledged before the run is activated.
StartExecution_AckFirst(d) ==
  /\ disp[d].pc = "start"
  /\ exec' = [exec EXCEPT ![disp[d].run] = Started(@)]
  /\ To(d, "ack")
  /\ UNCHANGED <<run, cmd, faults, businessVars>>

StartExecution(d) ==
  LET r == disp[d].run IN
  /\ disp[d].pc = "start"
  /\ exec' = [exec EXCEPT ![r] = Started(@)]
  /\ To(d, "activate")
  /\ UNCHANGED <<run, cmd, faults, businessVars>>

\* updateMany on the active run; otherwise the late path re-reads the row.
ActivatedRow(row) ==
  [row EXCEPT !.status = "RUNNING", !.phase = "WAITING_TIMER", !.wake = TRUE, !.ext = TRUE]

ActivateRun(d) ==
  LET row == run[disp[d].run] IN
  /\ disp[d].pc = "activate"
  /\ \/ /\ row.status \in ActiveStatus
        /\ UpdateRun(d, ActivatedRow(row))
        /\ To(d, "ack")
     \/ /\ row.status \notin ActiveStatus
        /\ UNCHANGED run
        /\ To(d, "late")
  /\ UNCHANGED <<cmd, exec, faults, businessVars>>

\* markWorkflowCommandProcessed.
AckStart(d) ==
  /\ disp[d].pc = "ack"
  /\ Processed(Job(d))
  /\ Finish(d)
  /\ UNCHANGED <<run, exec, faults, businessVars>>

\* The run ended while Temporal was starting it: only metadata is written.
LateRow(row) ==
  [row EXCEPT !.ext = TRUE,
              !.phase = IF @ = "NULL" THEN enginePhaseForTerminalStatus(row.status) ELSE @]

LateStart(d) ==
  /\ disp[d].pc = "late"
  /\ UpdateRun(d, LateRow(run[disp[d].run]))
  /\ Processed(Job(d))
  /\ Finish(d)
  /\ UNCHANGED <<exec, faults, businessVars>>

\* cancelWorkflowExecution: an open execution is cancelled; a closed or an
\* unknown one counts as delivered.
Canceled(e) == IF e.st \in {"timer", "activity", "running"} THEN [e EXCEPT !.st = "canceled"] ELSE e

CancelExecution(d) ==
  LET r == disp[d].run IN
  /\ disp[d].pc = "cancel"
  /\ exec' = [exec EXCEPT ![r] = Canceled(@)]
  /\ To(d, "cleanup")
  /\ UNCHANGED <<run, cmd, faults, businessVars>>

\* cleanupAsCanceled.
CleanupAsCanceled(d) ==
  /\ disp[d].pc = "cleanup"
  /\ UpdateRun(d, [run[disp[d].run] EXCEPT !.phase = "CANCELED", !.wake = FALSE])
  /\ Processed(Job(d))
  /\ Finish(d)
  /\ UNCHANGED <<exec, faults, businessVars>>

\* A call or a statement of the dispatch throws.  A Temporal call may have
\* taken effect before it did.
DispatchThrows(d) ==
  LET r == disp[d].run IN
  /\ Fault
  /\ disp[d].pc \in {"terminal", "start", "activate", "ack", "late", "cancel", "cleanup"}
  /\ \/ UNCHANGED exec
     \/ disp[d].pc = "start" /\ exec' = [exec EXCEPT ![r] = Started(@)]
     \/ disp[d].pc = "cancel" /\ exec' = [exec EXCEPT ![r] = Canceled(@)]
  /\ To(d, "failed")
  /\ UNCHANGED <<run, cmd, businessVars>>

\* Mutant: a failed dispatch is acknowledged all the same.
MarkCommandFailed_Acknowledged(d) ==
  /\ disp[d].pc = "failed"
  /\ Processed(Job(d))
  /\ Finish(d)
  /\ UNCHANGED <<run, exec, faults, businessVars>>

\* markWorkflowCommandFailed: the command backs off, the run's phase says so.
MarkCommandFailed(d) ==
  /\ disp[d].pc = "failed"
  /\ UpdateRun(d, [run[disp[d].run] EXCEPT
                     !.phase = IF disp[d].type = "CANCEL" THEN "CANCEL_REQUESTED"
                               ELSE "RETRY_BACKOFF",
                     !.wake = TRUE])
  /\ cmd' = [cmd EXCEPT ![Job(d)].ready = FALSE]
  /\ Finish(d)
  /\ UNCHANGED <<exec, faults, businessVars>>

\* The workflow-runner process dies, or the failure handler itself throws.
DispatcherCrash(d) ==
  /\ Fault
  /\ disp[d].pc # "idle"
  /\ Finish(d)
  /\ UNCHANGED <<run, cmd, exec, businessVars>>

\* Time passes: a lease ends or a backoff elapses, whoever holds the claim.
BecomesAvailable(c) ==
  /\ cmd[c].state = "open"
  /\ ~cmd[c].ready
  /\ cmd' = [cmd EXCEPT ![c].ready = TRUE]
  /\ UNCHANGED <<run, disp, exec, faults, businessVars>>

Dispatch(d) ==
  \/ \E c \in Commands : ListCommand(d, c)
  \/ ClaimCommand(d)
  \/ LoadCommand(d)
  \/ SkipTerminal(d)
  \/ StartExecution(d)
  \/ ActivateRun(d)
  \/ AckStart(d)
  \/ LateStart(d)
  \/ CancelExecution(d)
  \/ CleanupAsCanceled(d)
  \/ MarkCommandFailed(d)

-----------------------------------------------------------------------------
(* Temporal: the durable timer and the retried activity.                   *)

TimerFires(r) ==
  /\ exec[r].st = "timer"
  /\ exec' = [exec EXCEPT ![r].st = "activity"]
  /\ UNCHANGED <<run, cmd, disp, faults, businessVars>>

ActivityStarts(w, r) ==
  /\ exec[r].st = "activity"
  /\ StartProcessing(w, r, exec[r].attempt + 1)
  /\ exec' = [exec EXCEPT ![r] = [st |-> "running", attempt |-> @.attempt + 1]]
  /\ UNCHANGED <<run, subject, effects, owner, cmd, disp, faults>>

ActivityProgress(w) == Processing(w) /\ UNCHANGED outboxVars

\* A result counts only for the attempt Temporal is waiting for.
IsCurrentAttempt(w) ==
  LET e == exec[worker[w].run] IN e.st = "running" /\ e.attempt = worker[w].attempt

AttemptFailed(e) ==
  [e EXCEPT !.st = IF e.attempt < MaximumAttempts THEN "activity" ELSE "failed"]

ActivityEnds(w) ==
  LET r == worker[w].run IN
  /\ worker[w].pc \in {"done", "failed"}
  /\ exec' = IF ~IsCurrentAttempt(w) THEN exec
             ELSE [exec EXCEPT ![r] = IF worker[w].pc = "done"
                                      THEN [@ EXCEPT !.st = "completed"]
                                      ELSE AttemptFailed(@)]
  /\ worker' = [worker EXCEPT ![w] = IdleWorker]
  /\ UNCHANGED <<run, subject, effects, owner, cmd, disp, faults>>

ActivityThrows(w) == Fault /\ ProcessingThrows(w) /\ UNCHANGED <<cmd, disp, exec>>
ActivityCrash(w) == Fault /\ WorkerCrash(w) /\ UNCHANGED <<cmd, disp, exec>>

\* startToCloseTimeout: the attempt is given up, free of charge when its
\* worker is gone, a fault when the worker is merely slow.
IsAttended(r) == \E w \in Workers : worker[w].run = r /\ IsCurrentAttempt(w)

ActivityTimesOut(r) ==
  /\ exec[r].st = "running"
  /\ exec' = [exec EXCEPT ![r] = AttemptFailed(@)]
  /\ IF IsAttended(r) THEN Fault ELSE UNCHANGED faults
  /\ UNCHANGED <<run, cmd, disp, businessVars>>

-----------------------------------------------------------------------------
Next ==
  \/ \E r \in Runs : Enqueue(r) \/ TimerFires(r) \/ ActivityTimesOut(r)
  \/ \E o \in Owners : \/ OwnerChecks(o) \/ OwnerOpens(o)
                       \/ OwnerResolves(o) \/ OwnerFails(o)
  \/ \E d \in Dispatchers : Dispatch(d) \/ DispatchThrows(d) \/ DispatcherCrash(d)
  \/ \E c \in Commands : BecomesAvailable(c)
  \/ \E w \in Workers : \/ \E r \in Runs : ActivityStarts(w, r)
                        \/ ActivityProgress(w) \/ ActivityEnds(w)
                        \/ ActivityThrows(w) \/ ActivityCrash(w)

Spec == Init /\ [][Next]_vars

\* The poll loop always comes round again (tickLoop), time passes, Temporal
\* delivers, and an opened transaction ends.  Nobody owes a decision, and
\* faults are never owed.
Fairness ==
  /\ \A d \in Dispatchers : WF_vars(Dispatch(d))
  /\ \A c \in Commands : WF_vars(BecomesAvailable(c))
  /\ \A r \in Runs : WF_vars(TimerFires(r))
  /\ \A r \in Runs : WF_vars(~IsAttended(r) /\ ActivityTimesOut(r))
  /\ \A w \in Workers : /\ WF_vars(\E r \in Runs : ActivityStarts(w, r))
                        /\ WF_vars(ActivityProgress(w))
                        /\ WF_vars(ActivityEnds(w))
  /\ \A o \in Owners : WF_vars(OwnerResolves(o))

FairSpec == Spec /\ Fairness

-----------------------------------------------------------------------------
(* What the outbox promises.                                               *)

\* CANCELED is the owner's last word: neither the activity's completion, nor a
\* START that was in flight, nor a failure handler ever replaces it
\* (completeWorkflowRun's and the activation's updateMany conditions).
CanceledIsFinal ==
  [][\A r \in Runs : run[r].status = "CANCELED" => run'[r].status = "CANCELED"]_run

\* A run that ended never goes back to work, however late the Temporal start
\* that was racing with its end comes back.
EndedStaysEnded ==
  [][\A r \in Runs : run[r].status \in TerminalStatus
                       => run'[r].status \in TerminalStatus]_run

\* No start is lost between Postgres and Temporal: a run nobody confirmed still
\* has its START command to deliver, and a run shown as RUNNING does have an
\* execution in Temporal.
StartIntentKept ==
  \A r \in Runs :
    /\ run[r].status = "QUEUED" => cmd[<<r, "START">>].state = "open"
    /\ run[r].status = "RUNNING" => exec[r].st # "none"

\* A CANCEL command is written exactly when a run is canceled, in the same
\* transaction, whatever happened to the run between findMany and update.
CancelIntentKept ==
  \A r \in Runs :
    run[r].status = "CANCELED" <=> cmd[<<r, "CANCEL">>].state # "ABSENT"

\* Once an owner resolved a subject no run of it is left active, so that no
\* timer keeps waiting for a decision that was taken.
ResolvedSubjectHasNoActiveRun ==
  \A r \in Runs : subject[r] \in ManualResolution => run[r].status \in TerminalStatus

\* Outbox rows are written once: a delivered command is never open again, and
\* no second CANCEL replaces the first (its attempt count never goes back).
OutboxRowsAreWrittenOnce ==
  [][\A c \in Commands :
       cmd[c].state # "ABSENT" =>
         /\ cmd'[c].attempts >= cmd[c].attempts
         /\ cmd[c].state = "processed" => cmd'[c].state = "processed"]_cmd

\* Two dispatchers never hold the same claim of a command: of those serving
\* it, each claimed it at another attempt count.
ClaimsAreExclusive ==
  \A d, e \in Dispatchers :
    /\ d # e
    /\ disp[d].pc \notin {"idle", "claim"}
    /\ disp[e].pc \notin {"idle", "claim"}
    /\ Job(d) = Job(e)
    => disp[d].seen # disp[e].seen

\* What puts the phase of an ended run right: that it is right already, or a
\* command that will be delivered and write it.  A dispatcher on its way from a
\* START it read before the run ended will acknowledge it and leave the phase.
IsOpen(r, type) == cmd[<<r, type>>].state = "open"
PhaseAgrees(r) == run[r].phase = run[r].status /\ ~run[r].wake

Starting(d, r) ==
  disp[d].pc \in {"start", "activate", "ack", "late"} /\ disp[d].run = r

PhaseOwed(r) ==
  run[r].status \in TerminalStatus =>
    \/ PhaseAgrees(r)
    \/ IsOpen(r, "CANCEL")
    \/ IsOpen(r, "START") /\ \A d \in Dispatchers : ~Starting(d, r)

\* Two writes come too late for anybody to correct: a failure is marked though
\* another dispatcher has acknowledged the command, or is about to without
\* looking at the phase; and a START is skipped as ended although the run was
\* canceled since it was read, and the cancellation delivered.
FailsLate(d) ==
  /\ MarkCommandFailed(d)
  /\ \/ cmd[Job(d)].state = "processed"
     \/ \E e \in Dispatchers \ {d} : Starting(e, disp[d].run)

SkipsLate(d) ==
  /\ SkipTerminal(d)
  /\ disp[d].snap # run[disp[d].run].status
  /\ cmd[<<disp[d].run, "CANCEL">>].state = "processed"

\* However many dispatchers serve a run's commands, lose leases, fail, die and
\* are answered late, these are the only steps after which the dashboard may show
\* a wrong phase of an ended run for good.  In particular, without them, whenever
\* all is delivered an ended run shows its end and expects no wake.
PhaseGoesWrongOnlyLate ==
  [][\A r \in Runs :
       PhaseOwed(r) /\ ~PhaseOwed(r)' =>
         \E d \in Dispatchers : disp[d].run = r /\ (FailsLate(d) \/ SkipsLate(d))]_vars

\* The outbox, its dispatchers and Temporal implement the abstract lifecycle:
\* an intent is owed while its command is open.
statusOf == [r \in Runs |-> run[r].status]
owedCommands == {c \in Commands : cmd[c].state = "open"}

Lifecycle == INSTANCE WorkflowLifecycle WITH status <- statusOf, owed <- owedCommands

ImplementsLifecycle == Lifecycle!Spec

\* Its safety part alone, for the runs without fairness.
KeepsLifecycle == Lifecycle!SafeSpec

=============================================================================
