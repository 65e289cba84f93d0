---------------------------- MODULE WorkflowRuns ----------------------------
(***************************************************************************)
(* The business side of durable workflows, shared by both engines: the     *)
(* WorkflowRun rows, the approval or handoff each of them watches, the     *)
(* owners who resolve those subjects from the dashboard, and the code that *)
(* acts when a run is due (processWorkflowRunById).                        *)
(*                                                                         *)
(* Postgres runs at READ COMMITTED.  One statement, and one transaction    *)
(* whose statements do not depend on rows another transaction may change,  *)
(* is one step; a read and the write that relies on it are two steps       *)
(* whenever the code awaits in between.  A transaction that updated a      *)
(* subject holds that row's lock until it commits.                         *)
(*                                                                         *)
(* An engine's module adds what calls StartProcessing and what it learns   *)
(* from a processor that finished, failed or crashed.                      *)
(***************************************************************************)
EXTENDS WorkflowTypes

CONSTANTS
  Runs,        \* workflow runs, one per watched approval or handoff (dedupeKey)
  Kind,        \* [Runs -> WorkflowKind]
  Engine,      \* [Runs -> WorkflowEngine], the engine column
  Owners,      \* concurrent dashboard requests
  Workers,     \* concurrent calls of processWorkflowRunById
  NoRun        \* no run is being served

ASSUME RunsAssumption ==
  /\ Kind \in [Runs -> WorkflowKind]
  /\ Engine \in [Runs -> WorkflowEngine]
  /\ NoRun \notin Runs

VARIABLES
  run,         \* [Runs -> WorkflowRunRow]
  subject,     \* [Runs -> status of the approval or handoff]
  effects,     \* [Runs -> Nat], expirations or follow-up events committed
  owner,       \* [Owners -> a resolution request in progress]
  worker       \* [Workers -> a call of processWorkflowRunById]

IdleOwner == [pc |-> "idle", run |-> NoRun, decision |-> "NULL", found |-> FALSE]
IdleWorker == [pc |-> "idle", run |-> NoRun, attempt |-> 0]

RunsInit ==
  /\ run = [r \in Runs |-> AbsentRun]
  /\ subject = [r \in Runs |-> "ABSENT"]
  /\ effects = [r \in Runs |-> 0]
  /\ owner = [o \in Owners |-> IdleOwner]
  /\ worker = [w \in Workers |-> IdleWorker]

OwnerCall ==
  [pc : {"idle", "checked", "open"}, run : Runs \cup {NoRun},
   decision : SubjectStatus \cup {"NULL"}, found : BOOLEAN]

WorkerStep == {"idle", "load", "observe", "act", "complete", "done", "failed"}
WorkerCall == [pc : WorkerStep, run : Runs \cup {NoRun}, attempt : Nat]

RunsTypeOK ==
  /\ run \in [Runs -> WorkflowRunRow]
  /\ subject \in [Runs -> SubjectStatus \cup {"ABSENT"}]
  /\ effects \in [Runs -> Nat]
  /\ owner \in [Owners -> OwnerCall]
  /\ worker \in [Workers -> WorkerCall]

-----------------------------------------------------------------------------
(* Creation and manual resolution.                                         *)

\* The transaction that creates the approval or handoff also inserts its run.
\* dedupeKey is unique per subject: a second call finds the row and returns.
EnqueueRun(r) ==
  /\ run[r].status = "ABSENT"
  /\ run' = [run EXCEPT ![r] = NewWorkflowRun(Engine[r])]
  /\ subject' = [subject EXCEPT ![r] = InitialSubject(Kind[r])]
  /\ UNCHANGED <<effects, owner, worker>>

\* The request looks the subject up before its transaction opens.  An
\* approval that is not PENDING is refused (409); a handoff's status is not
\* looked at.
OwnerCheck(o, r, decision) ==
  /\ owner[o].pc = "idle"
  /\ subject[r] # "ABSENT"
  /\ Kind[r] = "APPROVAL_EXPIRATION" => subject[r] = "PENDING"
  /\ decision \in OwnerDecision(Kind[r])
  /\ owner' = [owner EXCEPT ![o] =
                 [pc |-> "checked", run |-> r, decision |-> decision, found |-> FALSE]]
  /\ UNCHANGED <<run, subject, effects, worker>>

\* An owner's open transaction holds the lock of the subject row it updated.
SubjectLocked(r) == \E o \in Owners : owner[o].pc = "open" /\ owner[o].run = r

\* Mutant: only runs not yet started are cancelled.
IsCancelable_QueuedOnly(row) == row.status = "QUEUED"

\* Rows cancel*WorkflowsTx selects: the active ones.
IsCancelable(row) == row.status \in ActiveStatus

\* First statements of the transaction: the subject row is updated (visible
\* to others at commit, locked until then) and, for a resolution, findMany
\* collects the active runs.
OwnerOpenTx(o) ==
  LET r == owner[o].run IN
  /\ owner[o].pc = "checked"
  /\ ~SubjectLocked(r)
  /\ owner' = [owner EXCEPT ![o].pc = "open",
                            ![o].found = /\ owner[o].decision \in ManualResolution
                                         /\ IsCancelable(run[r])]
  /\ UNCHANGED <<run, subject, effects, worker>>

\* Mutant: Temporal is told only once externalRunId was recorded.
NeedsTemporalCancel_Confirmed(o) == owner[o].found /\ run[owner[o].run].ext

\* needsTemporalCancel: externalWorkflowId is set on every row at creation.
NeedsTemporalCancel(o) == owner[o].found /\ Engine[owner[o].run] = "TEMPORAL"

CanceledRow(row, engine) ==
  [row EXCEPT !.status = "CANCELED",
              !.phase = IF engine = "TEMPORAL" THEN "CANCEL_REQUESTED" ELSE "CANCELED",
              !.wake = FALSE]

\* The run found by findMany is updated by id, whatever it has become since,
\* and the transaction commits.
OwnerCommit(o) ==
  LET r == owner[o].run IN
  /\ owner[o].pc = "open"
  /\ subject' = [subject EXCEPT ![r] = owner[o].decision]
  /\ run' = IF owner[o].found
            THEN [run EXCEPT ![r] = CanceledRow(run[r], Engine[r])]
            ELSE run
  /\ owner' = [owner EXCEPT ![o] = IdleOwner]
  /\ UNCHANGED <<effects, worker>>

\* The request dies or its transaction fails: nothing it wrote is visible.
OwnerRollback(o) ==
  /\ owner[o].pc # "idle"
  /\ owner' = [owner EXCEPT ![o] = IdleOwner]
  /\ UNCHANGED <<run, subject, effects, worker>>

-----------------------------------------------------------------------------
(* processWorkflowRunById, one step per awaited statement.                 *)

WorkerTo(w, pc) == worker' = [worker EXCEPT ![w].pc = pc]

StartProcessing(w, r, attempt) ==
  /\ worker[w].pc = "idle"
  /\ worker' = [worker EXCEPT ![w] = [pc |-> "load", run |-> r, attempt |-> attempt]]

\* Where the snapshot of the run and its subject leads.
NextStepFor(row, subj) ==
  CASE row.status = "CANCELED" -> "observe"
    [] row.status \in {"COMPLETED", "FAILED"} -> "done"
    [] row.status \in ActiveStatus /\ subj \in OpenSubject -> "act"
    [] OTHER -> "complete"

\* loadWorkflowRun: the run with its approval and handoff, in one query.
LoadWorkflowRun(w) ==
  LET r == worker[w].run IN
  /\ worker[w].pc = "load"
  /\ WorkerTo(w, NextStepFor(run[r], subject[r]))
  /\ UNCHANGED <<run, subject, effects, owner>>

\* markWorkflowRunCanceledObserved.
MarkCanceledObserved(w) ==
  LET r == worker[w].run IN
  /\ worker[w].pc = "observe"
  /\ run' = [run EXCEPT ![r] = [@ EXCEPT !.phase = "CANCELED", !.wake = FALSE]]
  /\ WorkerTo(w, "done")
  /\ UNCHANGED <<subject, effects, owner>>

\* processApprovalExpiration's transaction.  The approval is updated by id,
\* with no condition on the status it has by now; the update waits for the
\* row's lock.
ExpireApproval(w) ==
  LET r == worker[w].run IN
  /\ worker[w].pc = "act"
  /\ Kind[r] = "APPROVAL_EXPIRATION"
  /\ ~SubjectLocked(r)
  /\ subject' = [subject EXCEPT ![r] = "EXPIRED"]
  /\ effects' = [effects EXCEPT ![r] = @ + 1]
  /\ WorkerTo(w, "complete")
  /\ UNCHANGED <<run, owner>>

\* processHandoffFollowUp's "owner_follow_up_due" event, a statement of its own.
EmitFollowUp(w) ==
  LET r == worker[w].run IN
  /\ worker[w].pc = "act"
  /\ Kind[r] = "HANDOFF_FOLLOW_UP"
  /\ effects' = [effects EXCEPT ![r] = @ + 1]
  /\ WorkerTo(w, "complete")
  /\ UNCHANGED <<run, subject, owner>>

\* completeWorkflowRun: updateMany where the status is not CANCELED.
CompletedRow(row) ==
  IF row.status = "CANCELED" THEN row
  ELSE [row EXCEPT !.status = "COMPLETED", !.phase = "COMPLETED", !.wake = FALSE]

CompleteWorkflowRun(w) ==
  LET r == worker[w].run IN
  /\ worker[w].pc = "complete"
  /\ run' = [run EXCEPT ![r] = CompletedRow(run[r])]
  /\ WorkerTo(w, "done")
  /\ UNCHANGED <<subject, effects, owner>>

\* Any of the statements above may throw before it takes effect, and the call
\* may throw after its last one (the connection breaks, the reply is lost).
ProcessingThrows(w) ==
  /\ worker[w].pc \in {"load", "observe", "act", "complete", "done"}
  /\ WorkerTo(w, "failed")
  /\ UNCHANGED <<run, subject, effects, owner>>

\* The process dies; the database keeps what was committed.
WorkerCrash(w) ==
  /\ worker[w].pc # "idle"
  /\ worker' = [worker EXCEPT ![w] = IdleWorker]
  /\ UNCHANGED <<run, subject, effects, owner>>

Processing(w) ==
  \/ LoadWorkflowRun(w)
  \/ MarkCanceledObserved(w)
  \/ ExpireApproval(w)
  \/ EmitFollowUp(w)
  \/ CompleteWorkflowRun(w)

=============================================================================
