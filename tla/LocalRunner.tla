---------------------------- MODULE LocalRunner ----------------------------
(***************************************************************************)
(* Durable workflows on the built-in engine: workflow-runner processes     *)
(* poll WorkflowRun for due rows, claim each with a conditional update and *)
(* run processWorkflowRunById themselves (runLocalWorkflowTick).  There is *)
(* no outbox and no second system; what a process was doing when it dies   *)
(* is known to nobody.  A worker of WorkflowRuns is a runner process here. *)
(***************************************************************************)
EXTENDS WorkflowRuns

CONSTANT MaxFaults     \* bound: throws, rollbacks and crashes per behaviour

ASSUME LocalRunnerAssumption ==
  /\ MaxFaults \in Nat
  /\ \A r \in Runs : Engine[r] = "LOCAL_RUNNER"

VARIABLES
  due,         \* runs whose scheduledAt has passed
  batch,       \* [Workers -> runs its tick listed and has not come to yet]
  claims,      \* [Runs -> Nat], attemptCount
  faults

vars == <<run, subject, effects, owner, worker, due, batch, claims, faults>>
localVars == <<due, batch, claims, faults>>

Init ==
  /\ RunsInit
  /\ due = {}
  /\ batch = [w \in Workers |-> {}]
  /\ claims = [r \in Runs |-> 0]
  /\ faults = 0

TypeOK ==
  /\ RunsTypeOK
  /\ due \subseteq Runs
  /\ batch \in [Workers -> SUBSET Runs]
  /\ claims \in [Runs -> Nat]
  /\ faults \in Nat

Fault == faults < MaxFaults /\ faults' = faults + 1

-----------------------------------------------------------------------------
Enqueue(r) == EnqueueRun(r) /\ UNCHANGED localVars

OwnerActs(o) ==
  /\ \/ \E r \in Runs : \E decision \in OwnerDecision(Kind[r]) : OwnerCheck(o, r, decision)
     \/ OwnerOpenTx(o)
     \/ OwnerCommit(o)
  /\ UNCHANGED localVars

OwnerFails(o) == Fault /\ OwnerRollback(o) /\ UNCHANGED <<due, batch, claims>>

\* Time passes.
FallsDue(r) ==
  /\ run[r].status # "ABSENT"
  /\ due' = due \cup {r}
  /\ UNCHANGED <<run, subject, effects, owner, worker, batch, claims, faults>>

\* The rows a tick lists: due and QUEUED.
Listable(r) == r \in due /\ run[r].status = "QUEUED"

ListDueRuns(w) ==
  LET found == {r \in Runs : Listable(r)} IN
  /\ worker[w].pc = "idle"
  /\ batch[w] = {}
  /\ found # {}
  /\ batch' = [batch EXCEPT ![w] = found]
  /\ UNCHANGED <<run, subject, effects, owner, worker, due, claims, faults>>

\* Mutants: the claim trusts the list; it revives a RUNNING row; it asks for the
\* phase in which a Temporal run waits.
Claimable_Listed(r) == TRUE
Claimable_Active(r) == run[r].status \in ActiveStatus
Claimable_Dispatched(r) == run[r].status = "QUEUED" /\ run[r].phase = "DISPATCH_PENDING"

\* The conditional claim: another process, or an owner, may have been first.
Claimable(r) == run[r].status = "QUEUED"

ClaimedRow(row) ==
  [row EXCEPT !.status = "RUNNING", !.phase = "ACTIVITY_RUNNING", !.wake = FALSE]

ClaimRun(w, r) ==
  /\ r \in batch[w]
  /\ batch' = [batch EXCEPT ![w] = @ \ {r}]
  /\ \/ /\ Claimable(r)
        /\ StartProcessing(w, r, claims[r] + 1)
        /\ run' = [run EXCEPT ![r] = ClaimedRow(@)]
        /\ claims' = [claims EXCEPT ![r] = @ + 1]
     \/ /\ ~Claimable(r)
        /\ worker[w].pc = "idle"
        /\ UNCHANGED <<run, worker, claims>>
  /\ UNCHANGED <<subject, effects, owner, due, faults>>

RunnerProgress(w) == Processing(w) /\ UNCHANGED localVars

RunnerFinishes(w) ==
  /\ worker[w].pc = "done"
  /\ worker' = [worker EXCEPT ![w] = IdleWorker]
  /\ UNCHANGED <<run, subject, effects, owner, localVars>>

RunnerThrows(w) == Fault /\ ProcessingThrows(w) /\ UNCHANGED <<due, batch, claims>>

\* markWorkflowRunFailed: updateMany where the status is not CANCELED.
FailedRow(row) ==
  IF row.status = "CANCELED" THEN row
  ELSE [row EXCEPT !.status = "FAILED", !.phase = "FAILED", !.wake = FALSE]

MarkRunFailed(w) ==
  LET r == worker[w].run IN
  /\ worker[w].pc = "failed"
  /\ run' = [run EXCEPT ![r] = FailedRow(@)]
  /\ worker' = [worker EXCEPT ![w] = IdleWorker]
  /\ UNCHANGED <<subject, effects, owner, localVars>>

\* The process dies in a tick, at work on a run or between two of them, or its
\* failure handler throws: the tick ends, its batch is forgotten.
RunnerCrash(w) ==
  /\ Fault
  /\ worker[w].pc # "idle" \/ batch[w] # {}
  /\ worker' = [worker EXCEPT ![w] = IdleWorker]
  /\ batch' = [batch EXCEPT ![w] = {}]
  /\ UNCHANGED <<run, subject, effects, owner, due, claims>>

Next ==
  \/ \E r \in Runs : Enqueue(r) \/ FallsDue(r)
  \/ \E o \in Owners : OwnerActs(o) \/ OwnerFails(o)
  \/ \E w \in Workers : \/ ListDueRuns(w)
                        \/ \E r \in Runs : ClaimRun(w, r)
                        \/ RunnerProgress(w) \/ RunnerFinishes(w)
                        \/ RunnerThrows(w) \/ MarkRunFailed(w) \/ RunnerCrash(w)

Spec == Init /\ [][Next]_vars

\* What a runner does next unless something throws.
RunnerStep(w) ==
  \/ ListDueRuns(w) \/ \E r \in Runs : ClaimRun(w, r)
  \/ RunnerProgress(w) \/ RunnerFinishes(w) \/ MarkRunFailed(w)

\* Time passes; some runner process polls again after every tick (tickLoop),
\* whatever becomes of the others; a transaction ends.
Fairness ==
  /\ WF_vars(\E r \in Runs : FallsDue(r))
  /\ WF_vars(\E w \in Workers : RunnerStep(w))
  /\ WF_vars(\E o \in Owners : OwnerCommit(o) /\ UNCHANGED localVars)

FairSpec == Spec /\ Fairness

-----------------------------------------------------------------------------
\* One process at a time works on a run, however many list it.
OneRunnerPerRun ==
  \A v, w \in Workers :
    v # w /\ worker[v].pc # "idle" /\ worker[w].pc # "idle" => worker[v].run # worker[w].run

\* The local engine acts at most once on a subject: there is no second attempt.
ActsAtMostOnce == \A r \in Runs : effects[r] <= 1 /\ claims[r] <= 1

\* A run that waits is served or canceled in the end: what a runner had listed and
\* not claimed when it threw or died is listed again (tickLoop, the due query).
WaitingRunsAreServed == \A r \in Runs : run[r].status = "QUEUED" ~> run[r].status # "QUEUED"

\* An owner's cancellation survives the runner's completion and failure writes.
CanceledIsFinal ==
  [][\A r \in Runs : run[r].status = "CANCELED" => run'[r].status = "CANCELED"]_run

=============================================================================
