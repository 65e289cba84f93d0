---------------------------- MODULE WorkflowTypes ----------------------------
(***************************************************************************)
(* The vocabulary of durable workflows: the columns of WorkflowRun and     *)
(* WorkflowCommandOutbox that carry control, and the status values of the  *)
(* two business rows a workflow watches.  "ABSENT" stands for a row that   *)
(* has not been inserted, "NULL" for a NULL column.                        *)
(***************************************************************************)
EXTENDS Naturals

ActiveStatus == {"QUEUED", "RUNNING"}
TerminalStatus == {"COMPLETED", "FAILED", "CANCELED"}
WorkflowStatus == ActiveStatus \cup TerminalStatus

WorkflowEnginePhase ==
  {"DISPATCH_PENDING", "WAITING_TIMER", "ACTIVITY_RUNNING", "RETRY_BACKOFF",
   "CANCEL_REQUESTED", "COMPLETED", "FAILED", "CANCELED"}

WorkflowKind == {"APPROVAL_EXPIRATION", "HANDOFF_FOLLOW_UP"}
WorkflowEngine == {"LOCAL_RUNNER", "TEMPORAL"}
WorkflowCommandType == {"START", "CANCEL"}

ApprovalStatus == {"PENDING", "APPROVED", "REJECTED", "EXPIRED"}
HandoffStatus == {"OPEN", "REVIEWING", "ACCEPTED", "DECLINED", "CLOSED"}
SubjectStatus == ApprovalStatus \cup HandoffStatus

\* The statuses in which a subject still wants its timer: a PENDING approval
\* is expired, an OPEN or REVIEWING handoff is followed up.
OpenSubject == {"PENDING", "OPEN", "REVIEWING"}

\* The statuses an owner's decision gives a subject and that cancel its runs.
ManualResolution == {"APPROVED", "REJECTED", "ACCEPTED", "DECLINED", "CLOSED"}

\* What an owner may ask of a subject of each kind, and how a subject starts.
OwnerDecision(kind) ==
  IF kind = "APPROVAL_EXPIRATION" THEN {"APPROVED", "REJECTED"} ELSE HandoffStatus

InitialSubject(kind) ==
  IF kind = "APPROVAL_EXPIRATION" THEN "PENDING" ELSE "OPEN"

\* enginePhaseForTerminalStatus: the terminal phases carry the status's name.
enginePhaseForTerminalStatus(status) ==
  IF status \in TerminalStatus THEN status ELSE "NULL"

\* A row as the enqueuing transaction inserts it.
NewWorkflowRun(engine) ==
  [status |-> "QUEUED",
   phase  |-> IF engine = "TEMPORAL" THEN "DISPATCH_PENDING" ELSE "NULL",
   wake   |-> engine = "TEMPORAL",
   ext    |-> FALSE]

AbsentRun == [status |-> "ABSENT", phase |-> "NULL", wake |-> FALSE, ext |-> FALSE]

WorkflowRunRow ==
  [status : WorkflowStatus \cup {"ABSENT"},
   phase  : WorkflowEnginePhase \cup {"NULL"},
   wake   : BOOLEAN,     \* nextWakeAt is set
   ext    : BOOLEAN]     \* externalRunId is set
=============================================================================
