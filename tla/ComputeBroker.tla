---------------------------- MODULE ComputeBroker ----------------------------
(***************************************************************************)
(* The compute broker: one compute session, the tool executions asked of   *)
(* it, the approvals some of them wait for, and the container its lease    *)
(* stands for.  Every request is a call of its own (createComputeSession,  *)
(* executeTool, resolveApproval, terminateComputeSession) and keeps the    *)
(* session row it read when it began; no call locks another out.  The      *)
(* expiration of an approval arrives from the workflow runner.             *)
(*                                                                         *)
(* A step is one awaited statement or transaction, or one docker command.  *)
(* An approval is known by the execution it is for.                        *)
(***************************************************************************)
EXTENDS Naturals

CONSTANTS
  Executions,    \* tool executions callers may ask for
  Callers,       \* requests that create the session and execute tools
  Resolvers,     \* concurrent resolveApproval requests
  Terminators,   \* concurrent terminateComputeSession requests
  Containers,    \* docker container ids
  NoExecution,   \* the call is not about an execution
  NoContainer,   \* containerId is NULL, or docker runs no container of that name
  MaxFaults      \* bound: throws and crashes per behaviour

ASSUME BrokerAssumption ==
  /\ NoExecution \notin Executions
  /\ NoContainer \notin Containers
  /\ Callers \cap Resolvers = {}
  /\ (Callers \cup Resolvers) \cap Terminators = {}
  /\ MaxFaults \in Nat

VARIABLES
  session,     \* the ComputeSession row
  docker,      \* the container docker runs under the session's name
  execution,   \* [Executions -> ToolExecution status]
  approval,    \* [Executions -> status of its ApprovalRequest]
  expiry,      \* executions whose expiration holds a PENDING snapshot
  call,        \* [Calls -> a request in progress]
  crowd,       \* [Executions -> the resolvers that held it PENDING when it was decided]
  grants,      \* [Executions -> [Resolvers -> Nat]], APPROVED transactions each committed
  commands,    \* [Executions -> [Calls -> Nat]], times each request ran the command
  faults

vars ==
  <<session, docker, execution, approval, expiry, call, crowd, grants, commands, faults>>
rows == <<session, execution, approval>>
history == <<crowd, grants, commands>>

Calls == Callers \cup Resolvers \cup Terminators

SessionStatus == {"STARTING", "RUNNING", "IDLE", "STOPPING", "COMPLETED", "FAILED"}
LeaseStatus == {"REQUESTED", "READY", "RELEASING", "RELEASED", "FAILED"}
SessionRow ==
  [status : SessionStatus \cup {"ABSENT"}, lease : LeaseStatus,
   container : Containers \cup {NoContainer}, ended : BOOLEAN]

NoSession ==
  [status |-> "ABSENT", lease |-> "REQUESTED", container |-> NoContainer, ended |-> FALSE]

\* What an idle call holds: no execution, no outcome of a command, nothing read.
\* snap is the session row the call still relies on.
NoCall == [pc |-> "idle", e |-> NoExecution, outcome |-> "none", snap |-> NoSession]

Init ==
  /\ session = NoSession
  /\ docker = NoContainer
  /\ execution = [e \in Executions |-> "ABSENT"]
  /\ approval = [e \in Executions |-> "ABSENT"]
  /\ expiry = {}
  /\ call = [p \in Calls |-> NoCall]
  /\ crowd = [e \in Executions |-> {}]
  /\ grants = [e \in Executions |-> [p \in Resolvers |-> 0]]
  /\ commands = [e \in Executions |-> [p \in Calls |-> 0]]
  /\ faults = 0

CreateSteps == {"acquireNew", "leaseNew", "auditNew"}
AskSteps == {"deny", "ask", "request", "touch"}
RunSteps == {"lease", "leased", "start", "mark", "run", "finish", "rest"}
ResolveSteps == {"reject", "context", "approve"}
TerminateSteps == {"stop", "remove", "release", "end"}

TypeOK ==
  /\ session \in SessionRow
  /\ docker \in Containers \cup {NoContainer}
  /\ execution \in [Executions -> {"ABSENT", "BLOCKED", "RUNNING", "SUCCEEDED", "FAILED",
                                   "CANCELED"}]
  /\ approval \in [Executions -> {"ABSENT", "PENDING", "APPROVED", "REJECTED", "EXPIRED"}]
  /\ expiry \subseteq Executions
  /\ call \in [Calls -> [pc : {"idle", "createFailed"} \cup CreateSteps \cup AskSteps
                              \cup RunSteps \cup ResolveSteps \cup TerminateSteps,
                         e : Executions \cup {NoExecution},
                         outcome : {"none", "SUCCEEDED", "FAILED"},
                         snap : SessionRow]]
  /\ crowd \in [Executions -> SUBSET Resolvers]
  /\ grants \in [Executions -> [Resolvers -> Nat]]
  /\ commands \in [Executions -> [Calls -> Nat]]
  /\ faults \in Nat

Fault == faults < MaxFaults /\ faults' = faults + 1
To(p, pc) == call' = [call EXCEPT ![p].pc = pc]
Return(p) == call' = [call EXCEPT ![p] = NoCall]
Begin(p, pc, e, snap) ==
  call' = [call EXCEPT ![p] = [pc |-> pc, e |-> e, outcome |-> "none", snap |-> snap]]
\* The lease is settled: of the session nothing more is needed.
Leased(p) == call' = [call EXCEPT ![p].pc = "start", ![p].snap = NoSession]
\* Of the row it read, only the status is, and a container id.
Keeping(p, pc, c) ==
  call' = [call EXCEPT ![p].pc = pc,
                       ![p].snap = [NoSession EXCEPT !.status = call[p].snap.status,
                                                     !.container = c]]
SetSession(row) == session' = row

-----------------------------------------------------------------------------
(* The docker lease.                                                       *)

\* Ids docker may give a new container: none the broker still remembers.
FreshContainers ==
  Containers \ ({docker, session.container} \cup {call[p].snap.container : p \in Calls})

\* acquireDockerLease: the running container of that name, or a new one.
Acquire(c) == IF docker # NoContainer THEN c = docker ELSE c \in FreshContainers

\* removeDockerContainer: by containerId when the row has one, else by name.
\* Removing what does not run is not an error.
Removed(row) == IF row.container \in {NoContainer, docker} THEN NoContainer ELSE docker

\* ensureComputeSessionLease writes what it read of the status, not what the
\* row says by now.
LeasedStatus(snap) ==
  IF snap.status \in {"RUNNING", "COMPLETED"} THEN snap.status ELSE "IDLE"

LeasedRow(snap, c) ==
  [session EXCEPT !.status = LeasedStatus(snap), !.lease = "READY", !.container = c]

-----------------------------------------------------------------------------
(* createComputeSession.                                                   *)

CreateSession(p) ==
  LET row == [NoSession EXCEPT !.status = "STARTING"] IN
  /\ p \in Callers
  /\ call[p].pc = "idle"
  /\ session.status = "ABSENT"
  /\ SetSession(row)
  /\ Begin(p, "acquireNew", NoExecution, row)
  /\ UNCHANGED <<docker, execution, approval, expiry, history, faults>>

\* docker run, for a new session as for an execution.
AcquireContainer(p) ==
  /\ call[p].pc \in {"acquireNew", "lease"}
  /\ ~(call[p].snap.lease = "READY" /\ call[p].snap.container # NoContainer)
  /\ \E c \in Containers :
       /\ Acquire(c)
       /\ docker' = c
       /\ Keeping(p, IF call[p].pc = "lease" THEN "leased" ELSE "leaseNew", c)
  /\ UNCHANGED <<rows, expiry, history, faults>>

\* The lease is written to the row, with the container just acquired.
RecordLease(p) ==
  /\ call[p].pc \in {"leaseNew", "leased"}
  /\ SetSession(LeasedRow(call[p].snap, call[p].snap.container))
  /\ IF call[p].pc = "leased" THEN Leased(p) ELSE To(p, "auditNew")
  /\ UNCHANGED <<docker, execution, approval, expiry, history, faults>>

\* The COMPUTE_SESSION_STARTED event; then the session id is returned.
SessionCreated(p) ==
  /\ call[p].pc = "auditNew"
  /\ Return(p)
  /\ UNCHANGED <<docker, rows, expiry, history, faults>>

CreationThrows(p) ==
  /\ Fault
  /\ call[p].pc \in CreateSteps
  /\ To(p, "createFailed")
  /\ UNCHANGED <<docker, rows, expiry, history>>

MarkCreationFailed(p) ==
  /\ call[p].pc = "createFailed"
  /\ SetSession([session EXCEPT !.status = "FAILED", !.lease = "FAILED"])
  /\ Return(p)
  /\ UNCHANGED <<docker, execution, approval, expiry, history, faults>>

-----------------------------------------------------------------------------
(* executeTool: load the session and its policy, decide, then block, ask   *)
(* the owner, or run.                                                      *)

\* loadSessionPolicyContext refuses an ended session (409).  What the policy
\* decides is a choice here.
Decide(p, e) ==
  /\ p \in Callers
  /\ call[p].pc = "idle"
  /\ execution[e] = "ABSENT"
  /\ \A q \in Callers : call[q].e # e       \* each request makes its own row
  /\ session.status \notin {"ABSENT", "STARTING"}
  /\ ~session.ended
  /\ \/ \E pc \in {"deny", "ask"} : Begin(p, pc, e, NoSession)
     \/ Begin(p, "lease", e, session)
  /\ UNCHANGED <<docker, rows, expiry, history, faults>>

\* The BLOCKED row of a refused or an approval-gated execution.
BlockExecution(p) ==
  /\ call[p].pc \in {"deny", "ask"}
  /\ execution' = [execution EXCEPT ![call[p].e] = "BLOCKED"]
  /\ To(p, IF call[p].pc = "ask" THEN "request" ELSE "touch")
  /\ UNCHANGED <<session, docker, approval, expiry, history, faults>>

\* createApprovalRequestForExecution's transaction.
RequestApproval(p) ==
  /\ call[p].pc = "request"
  /\ approval' = [approval EXCEPT ![call[p].e] = "PENDING"]
  /\ To(p, "touch")
  /\ UNCHANGED <<session, docker, execution, expiry, history, faults>>

\* touchSessionIdle, whatever the session is doing.
TouchSessionIdle(p) ==
  /\ call[p].pc = "touch"
  /\ SetSession([session EXCEPT !.status = "IDLE"])
  /\ Return(p)
  /\ UNCHANGED <<docker, execution, approval, expiry, history, faults>>

-----------------------------------------------------------------------------
(* runAllowedExecution, for callers and for approving resolvers.           *)

\* A lease that looked READY when the session was read is used as it is.
ReuseLease(p) ==
  /\ call[p].pc = "lease"
  /\ call[p].snap.lease = "READY" /\ call[p].snap.container # NoContainer
  /\ Leased(p)
  /\ UNCHANGED <<docker, rows, expiry, history, faults>>

\* The execution row is inserted, or overwritten, as RUNNING.
StartExecution(p) ==
  /\ call[p].pc = "start"
  /\ execution' = [execution EXCEPT ![call[p].e] = "RUNNING"]
  /\ To(p, "mark")
  /\ UNCHANGED <<session, docker, approval, expiry, history, faults>>

MarkSessionRunning(p) ==
  /\ call[p].pc = "mark"
  /\ SetSession([session EXCEPT !.status = "RUNNING"])
  /\ To(p, "run")
  /\ UNCHANGED <<docker, execution, approval, expiry, history, faults>>

\* The command, a browser step or a remote tool call.  It may fail; in docker
\* it does when the leased container is gone.  Whatever it throws is caught.
RunCommand(p) ==
  /\ call[p].pc = "run"
  /\ \E result \in {"SUCCEEDED", "FAILED"} :
       call' = [call EXCEPT ![p].pc = "finish", ![p].outcome = result]
  /\ commands' = [commands EXCEPT ![call[p].e][p] = @ + 1]
  /\ UNCHANGED <<docker, rows, expiry, crowd, grants, faults>>

FinishExecution(p) ==
  /\ call[p].pc = "finish"
  /\ execution' = [execution EXCEPT ![call[p].e] = call[p].outcome]
  /\ To(p, "rest")
  /\ UNCHANGED <<session, docker, approval, expiry, history, faults>>

RestSession(p) ==
  /\ call[p].pc = "rest"
  /\ SetSession([session EXCEPT !.status = "IDLE"])
  /\ Return(p)
  /\ UNCHANGED <<docker, execution, approval, expiry, history, faults>>

-----------------------------------------------------------------------------
(* resolveApproval.                                                        *)

Decided(e) == approval[e] \notin {"ABSENT", "PENDING"}

\* The requests that found the approval PENDING and have not committed yet.
Holders(e) == {p \in Resolvers : call[p].e = e /\ call[p].pc \in ResolveSteps}

\* Who they were is written down when the approval is decided first.
RecordCrowd(e) ==
  crowd' = IF Decided(e) THEN crowd ELSE [crowd EXCEPT ![e] = Holders(e)]

\* Mutant: an approval already resolved is not refused.
ResolveApproval_Unchecked(p, e) ==
  /\ p \in Resolvers
  /\ call[p].pc = "idle"
  /\ approval[e] # "ABSENT"
  /\ \E pc \in {"context", "reject"} : Begin(p, pc, e, NoSession)
  /\ UNCHANGED <<docker, rows, expiry, history, faults>>

\* Only a PENDING approval is resolved; it is read here and not again.
ResolveApproval(p, e) ==
  /\ p \in Resolvers
  /\ call[p].pc = "idle"
  /\ approval[e] = "PENDING"
  /\ \E pc \in {"context", "reject"} : Begin(p, pc, e, NoSession)
  /\ UNCHANGED <<docker, rows, expiry, history, faults>>

\* One transaction: approval, execution and session.
Reject(p) ==
  LET e == call[p].e IN
  /\ call[p].pc = "reject"
  /\ approval' = [approval EXCEPT ![e] = "REJECTED"]
  /\ execution' = [execution EXCEPT ![e] = "CANCELED"]
  /\ SetSession([session EXCEPT !.status = "IDLE"])
  /\ RecordCrowd(e)
  /\ Return(p)
  /\ UNCHANGED <<docker, expiry, grants, commands, faults>>

\* Mutant: the session is looked at after the approval is committed.
LoadContext_TooLate(p) ==
  /\ call[p].pc = "context"
  /\ IF session.ended
     THEN /\ approval' = [approval EXCEPT ![call[p].e] = "APPROVED"]
          /\ Return(p)
     ELSE /\ call' = [call EXCEPT ![p].pc = "approve", ![p].snap = session]
          /\ UNCHANGED approval
  /\ UNCHANGED <<session, docker, execution, expiry, history, faults>>

\* loadSessionPolicyContext, before the transaction: a session that ended, or
\* that expired (at any time), refuses the approval and leaves it PENDING.
LoadContext(p) ==
  /\ call[p].pc = "context"
  /\ \/ Return(p)
     \/ /\ ~session.ended
        /\ call' = [call EXCEPT ![p].pc = "approve", ![p].snap = session]
  /\ UNCHANGED <<docker, rows, expiry, history, faults>>

\* Mutant: the command is released before the approval is committed.
Approve_RunFirst(p) ==
  /\ call[p].pc = "approve"
  /\ To(p, "lease")
  /\ UNCHANGED <<docker, rows, expiry, history, faults>>

\* The transaction that commits APPROVED; the command runs after it.
Approve(p) ==
  LET e == call[p].e IN
  /\ call[p].pc = "approve"
  /\ approval' = [approval EXCEPT ![e] = "APPROVED"]
  /\ RecordCrowd(e)
  /\ grants' = [grants EXCEPT ![e][p] = @ + 1]
  /\ To(p, "lease")
  /\ UNCHANGED <<session, docker, execution, expiry, commands, faults>>

-----------------------------------------------------------------------------
(* The expiration, seen from here: processApprovalExpiration.              *)

ReadForExpiry(e) ==
  /\ e \notin expiry
  /\ approval[e] = "PENDING"
  /\ expiry' = expiry \cup {e}
  /\ UNCHANGED <<docker, rows, call, history, faults>>

\* Mutant: the expiration cancels the execution whatever its status.
ExpiredExecution_Always(status) == "CANCELED"

\* updateMany where the execution is BLOCKED.
ExpiredExecution(status) == IF status = "BLOCKED" THEN "CANCELED" ELSE status

Expire(e) ==
  /\ e \in expiry
  /\ expiry' = expiry \ {e}
  /\ approval' = [approval EXCEPT ![e] = "EXPIRED"]
  /\ execution' = [execution EXCEPT ![e] = ExpiredExecution(@)]
  /\ RecordCrowd(e)
  /\ UNCHANGED <<session, docker, call, grants, commands, faults>>

-----------------------------------------------------------------------------
(* terminateComputeSession.                                                *)

Terminate(p) ==
  /\ p \in Terminators
  /\ call[p].pc = "idle"
  /\ session.status # "ABSENT"
  /\ Begin(p, "stop", NoExecution, session)
  /\ UNCHANGED <<docker, rows, expiry, history, faults>>

NothingToRelease(snap) == snap.lease \in {"RELEASED", "FAILED"}

MarkStopping(p) ==
  LET snap == call[p].snap IN
  /\ call[p].pc = "stop"
  /\ SetSession([session EXCEPT
                   !.status = IF snap.status = "FAILED" THEN "FAILED" ELSE "STOPPING",
                   !.lease = IF NothingToRelease(snap) THEN snap.lease ELSE "RELEASING"])
  /\ IF NothingToRelease(snap) THEN Keeping(p, "end", NoContainer)
     ELSE Keeping(p, "remove", session.container)
  /\ UNCHANGED <<docker, execution, approval, expiry, history, faults>>

RemoveContainer(p) ==
  /\ call[p].pc = "remove"
  /\ docker' = Removed(call[p].snap)
  /\ Keeping(p, "release", NoContainer)
  /\ UNCHANGED <<rows, expiry, history, faults>>

RecordRelease(p) ==
  /\ call[p].pc = "release"
  /\ SetSession([session EXCEPT !.lease = "RELEASED", !.container = NoContainer])
  /\ To(p, "end")
  /\ UNCHANGED <<docker, execution, approval, expiry, history, faults>>

EndSession(p) ==
  /\ call[p].pc = "end"
  /\ SetSession([session EXCEPT
                   !.status = IF call[p].snap.status = "FAILED" THEN "FAILED" ELSE "COMPLETED",
                   !.ended = TRUE])
  /\ Return(p)
  /\ UNCHANGED <<docker, execution, approval, expiry, history, faults>>

-----------------------------------------------------------------------------
\* A statement or docker itself throws out of the request, or the broker dies
\* under it: what was committed stays, and nobody takes the request up again.
CallDies(p) ==
  /\ Fault
  /\ call[p].pc # "idle"
  /\ Return(p)
  /\ UNCHANGED <<docker, rows, expiry, history>>

Create(p) ==
  \/ CreateSession(p) \/ SessionCreated(p)
  \/ CreationThrows(p) \/ MarkCreationFailed(p)

ExecuteTool(p) ==
  \/ \E e \in Executions : Decide(p, e)
  \/ BlockExecution(p) \/ RequestApproval(p) \/ TouchSessionIdle(p)

RunAllowedExecution(p) ==
  \/ AcquireContainer(p) \/ RecordLease(p) \/ ReuseLease(p)
  \/ StartExecution(p) \/ MarkSessionRunning(p) \/ RunCommand(p)
  \/ FinishExecution(p) \/ RestSession(p)

Resolve(p) ==
  \/ \E e \in Executions : ResolveApproval(p, e)
  \/ Reject(p) \/ LoadContext(p) \/ Approve(p)

TerminateComputeSession(p) ==
  \/ Terminate(p) \/ MarkStopping(p) \/ RemoveContainer(p)
  \/ RecordRelease(p) \/ EndSession(p)

Next ==
  \/ \E p \in Calls : \/ Create(p) \/ ExecuteTool(p) \/ RunAllowedExecution(p)
                      \/ Resolve(p) \/ TerminateComputeSession(p) \/ CallDies(p)
  \/ \E e \in Executions : ReadForExpiry(e) \/ Expire(e)

Spec == Init /\ [][Next]_vars

-----------------------------------------------------------------------------
\* "approval-required tasks are blocked until owner action": of what was put
\* before the owner a request runs the command only after it committed an
\* approval, whatever other requests, the expiration and the session do
\* meanwhile.
NothingRunsUnapproved ==
  \A e \in Executions : approval[e] # "ABSENT" =>
    /\ \A p \in Calls : commands[e][p] > 0 => p \in Resolvers /\ commands[e][p] <= grants[e][p]
    /\ execution[e] \in {"RUNNING", "SUCCEEDED", "FAILED"} =>
         \E p \in Resolvers : grants[e][p] > 0

\* A resolved approval is refused (409), but only by a request that looks after
\* the first decision: those that had read PENDING by then all act on it.  So a
\* command runs at most once for each of these and for nobody else (once, where
\* the owner clicks once), and one that needs no approval runs once.
RunsOnceForEachHolder ==
  \A e \in Executions :
    /\ \A p \in Calls : commands[e][p] <= 1
    /\ IF approval[e] = "ABSENT"
       THEN \A p, q \in Calls : commands[e][p] > 0 /\ commands[e][q] > 0 => p = q
       ELSE \A p \in Calls : commands[e][p] > 0 => p \in crowd[e]

\* Without faults, whenever no request is in progress an execution waits for
\* its owner exactly while its approval is PENDING: approving in a session
\* that ended must not strand it.
AtRest == \A p \in Calls : call[p].pc = "idle"

ApprovalAgreesAtRest ==
  AtRest /\ faults = 0 =>
    \A e \in Executions :
      approval[e] # "ABSENT" => (execution[e] = "BLOCKED" <=> approval[e] = "PENDING")

\* All of it at once: the broker, its leases, terminations and faults included,
\* is the gate that ExecutionGate describes.
StageOf(pc) ==
  CASE pc \in ResolveSteps -> "holds"
    [] pc \in {"lease", "leased", "start"} -> "cleared"
    [] pc \in {"mark", "run"} -> "started"
    [] pc = "finish" -> "carried"
    [] OTHER -> "none"

Stage(e, p) == IF call[p].e = e THEN StageOf(call[p].pc) ELSE "none"
Stages == [e \in Executions |-> [p \in Calls |-> Stage(e, p)]]
Asked == {e \in Executions : approval[e] # "ABSENT"}
AllDecided == {e \in Executions : Decided(e)}

Gate ==
  INSTANCE ExecutionGate WITH
    Requests <- Calls, status <- execution, asked <- Asked, decided <- AllDecided,
    carried <- commands, stage <- Stages

ImplementsGate == Gate!Spec

=============================================================================
