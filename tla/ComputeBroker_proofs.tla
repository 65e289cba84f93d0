------------------------ MODULE ComputeBroker_proofs ------------------------
(***************************************************************************)
(* Proofs about ComputeBroker, for any number of executions, callers,      *)
(* dashboard requests, terminations, containers and faults.                *)
(*                                                                         *)
(* No property here depends on the session or on docker.  They rest on     *)
(* what a request knows of its execution at each await: a caller's is its  *)
(* own; any number of resolvers may hold what the owner was asked about,   *)
(* but each runs it only after its own commit, and all of them found it    *)
(* PENDING when it was decided first.  That an approval and its execution  *)
(* agree in the end rests on what a request still owes them.               *)
(***************************************************************************)
EXTENDS ComputeBroker, TLAPS

Steps == {"idle", "createFailed"} \cup CreateSteps \cup AskSteps
           \cup RunSteps \cup ResolveSteps \cup TerminateSteps

CallRow ==
  [pc : Steps, e : Executions \cup {NoExecution},
   outcome : {"none", "SUCCEEDED", "FAILED"}, snap : SessionRow]

\* Which steps a request of each kind comes to.
Role(p, pc) ==
  \/ pc = "idle"
  \/ p \in Callers /\ pc \in {"createFailed"} \cup CreateSteps \cup AskSteps \cup RunSteps
  \/ p \in Resolvers /\ pc \in {"context", "approve", "reject"} \cup RunSteps
  \/ p \in Terminators /\ pc \in TerminateSteps

Roles == \A p \in Calls : Role(p, call[p].pc)

\* The steps of a request that will still write about its execution.
Working ==
  {"deny", "ask", "request", "context", "approve", "reject",
   "lease", "leased", "start", "mark", "run", "finish"}

NoRun(e) == \A p \in Calls : commands[e][p] = 0

\* A caller's execution is its own: until the caller wrote it there is none, and
\* nobody was asked about what it runs.
CallerKnows(pc, e) ==
  /\ pc \in {"deny", "ask", "lease", "leased", "start"} => execution[e] = "ABSENT"
  /\ pc \in {"request", "mark", "run"} => execution[e] # "ABSENT"
  /\ pc \in {"request", "mark", "run", "finish"} => approval[e] = "ABSENT"
  /\ pc \in {"request", "mark", "run"} => NoRun(e)
  /\ pc = "request" => execution[e] = "BLOCKED"

\* A resolver's was put before the owner.  If it is decided, the resolver is one
\* of those that held it then; it runs it once, after its own commit.
ResolverKnows(p, pc, e) ==
  /\ approval[e] # "ABSENT"
  /\ pc \in {"context", "approve", "reject"} =>
       grants[e][p] = 0 /\ (Decided(e) => p \in crowd[e])
  /\ pc \in {"lease", "leased", "start", "mark", "run", "finish"} =>
       grants[e][p] = 1 /\ Decided(e) /\ p \in crowd[e]
  /\ pc \in {"lease", "leased", "start", "mark", "run"} => commands[e][p] = 0

Knows(p) ==
  call[p].pc \in Working =>
    /\ call[p].e \in Executions
    /\ p \in Callers => CallerKnows(call[p].pc, call[p].e)
    /\ p \in Resolvers => ResolverKnows(p, call[p].pc, call[p].e)
    /\ call[p].pc = "finish" => call[p].outcome # "none"

CallsKnow == \A p \in Calls : Knows(p)

CallersExclude ==
  \A p, q \in Callers : p # q /\ call[p].e # NoExecution => call[q].e # call[p].e

\* The rows and what was counted: each request is granted an approval once at
\* most, which allows it one run, and only if it found the approval PENDING.
Agrees(e) ==
  /\ execution[e] = "ABSENT" => approval[e] = "ABSENT" /\ NoRun(e)
  /\ ~Decided(e) => \A p \in Resolvers : grants[e][p] = 0
  /\ \A p \in Calls : commands[e][p] <= 1
  /\ approval[e] = "ABSENT" =>
       \A p, q \in Calls : commands[e][p] > 0 /\ commands[e][q] > 0 => p = q
  /\ approval[e] # "ABSENT" =>
       \A p \in Calls : commands[e][p] > 0 => p \in Resolvers /\ grants[e][p] > 0
  /\ \A p \in Resolvers : grants[e][p] > 0 => p \in crowd[e]
  /\ approval[e] # "ABSENT" /\ execution[e] \notin {"BLOCKED", "CANCELED"} =>
       \E p \in Resolvers : grants[e][p] > 0
  /\ e \in expiry => approval[e] # "ABSENT"

RowsAgree == \A e \in Executions : Agrees(e)

IInv == TypeOK /\ Roles /\ CallsKnow /\ CallersExclude /\ RowsAgree

-----------------------------------------------------------------------------
USE BrokerAssumption

LEMMA NoSessionIsRow == NoSession \in SessionRow
BY DEF NoSession, SessionRow, LeaseStatus

LEMMA CallsTyped == TypeOK => call \in [Calls -> CallRow]
BY DEF TypeOK, CallRow, Steps

LEMMA InitIInv == Init => IInv
<1> SUFFICES ASSUME Init PROVE IInv
  OBVIOUS
<1>1. TypeOK
  <2>1. call \in [Calls -> CallRow]
    BY NoSessionIsRow DEF Init, NoCall, CallRow, Steps
  <2> QED
    BY <2>1, NoSessionIsRow DEF Init, TypeOK, CallRow, Steps
<1>2. Roles /\ CallsKnow /\ CallersExclude
  <2>1. \A p \in Calls : call[p].pc = "idle" /\ call[p].e = NoExecution
    BY DEF Init, NoCall
  <2>2. Roles
    BY <2>1 DEF Roles, Role
  <2>3. CallsKnow
    BY <2>1 DEF CallsKnow, Knows, Working
  <2>4. \A p \in Callers : call[p].e = NoExecution
    BY <2>1 DEF Calls
  <2>5. CallersExclude
    BY <2>4 DEF CallersExclude
  <2> QED
    BY <2>2, <2>3, <2>5
<1>3. RowsAgree
  <2> SUFFICES ASSUME NEW e \in Executions PROVE Agrees(e)
    BY DEF RowsAgree
  <2>1. /\ execution[e] = "ABSENT" /\ approval[e] = "ABSENT" /\ expiry = {}
        /\ \A p \in Resolvers : grants[e][p] = 0
        /\ \A p \in Calls : commands[e][p] = 0
    BY DEF Init
  <2> QED
    BY <2>1 DEF Agrees, NoRun, Decided
<1> QED
  BY <1>1, <1>2, <1>3 DEF IInv

-----------------------------------------------------------------------------
(* What the updates keep the type of.                                      *)

LEMMA SessionUpdates ==
  ASSUME NEW row \in SessionRow, NEW status \in SessionStatus, NEW lease \in LeaseStatus,
         NEW c \in Containers \cup {NoContainer}
  PROVE  /\ [row EXCEPT !.status = status] \in SessionRow
         /\ [row EXCEPT !.status = status, !.lease = lease] \in SessionRow
         /\ [row EXCEPT !.lease = lease, !.container = c] \in SessionRow
         /\ [row EXCEPT !.status = status, !.lease = lease, !.container = c] \in SessionRow
         /\ [row EXCEPT !.status = status, !.ended = TRUE] \in SessionRow
BY DEF SessionRow

\* What a call keeps of a session it read.
LEMMA Snapshots ==
  ASSUME NEW status \in SessionStatus \cup {"ABSENT"}, NEW c \in Containers \cup {NoContainer}
  PROVE  /\ [NoSession EXCEPT !.status = status] \in SessionRow
         /\ [NoSession EXCEPT !.status = status, !.container = c] \in SessionRow
BY DEF NoSession, SessionRow, LeaseStatus

LEMMA CallUpdates ==
  ASSUME TypeOK, NEW p \in Calls, NEW pc \in Steps, NEW snap \in SessionRow,
         NEW e \in Executions \cup {NoExecution},
         NEW outcome \in {"none", "SUCCEEDED", "FAILED"}
  PROVE  /\ [call EXCEPT ![p].pc = pc] \in [Calls -> CallRow]
         /\ [call EXCEPT ![p].pc = pc, ![p].snap = snap] \in [Calls -> CallRow]
         /\ [call EXCEPT ![p].pc = pc, ![p].outcome = outcome] \in [Calls -> CallRow]
         /\ [call EXCEPT ![p] = [pc |-> pc, e |-> e, outcome |-> "none", snap |-> snap]]
              \in [Calls -> CallRow]
         /\ [call EXCEPT ![p] = NoCall] \in [Calls -> CallRow]
BY CallsTyped, NoSessionIsRow, ZenonT(60) DEF CallRow, NoCall, Steps

-----------------------------------------------------------------------------
(* A step that writes no row of an execution: the request p goes on with    *)
(* the same execution, or lets go of it.                                    *)

LEMMA QuietStep ==
  ASSUME IInv, TypeOK', NEW p \in Calls,
         UNCHANGED <<execution, approval, expiry, crowd, grants, commands>>,
         \A q \in Calls : q # p => call'[q] = call[q],
         Role(p, call'[p].pc),
         call'[p].e \in {call[p].e, NoExecution},
         Knows(p)'
  PROVE  IInv'
<1> USE DEF IInv
<1>1. Roles'
  BY DEF Roles
<1>2. CallsKnow'
  <2> SUFFICES ASSUME NEW q \in Calls, q # p PROVE Knows(q)'
    BY DEF CallsKnow
  <2>1. Knows(q) /\ call'[q] = call[q]
    BY DEF CallsKnow
  <2> QED
    BY <2>1 DEF Knows, CallerKnows, ResolverKnows, NoRun, Decided
<1>3. CallersExclude'
  <2> SUFFICES ASSUME NEW q \in Callers, NEW r \in Callers, q # r, call'[q].e # NoExecution
               PROVE  call'[r].e # call'[q].e
    BY DEF CallersExclude
  <2>1. q \in Calls /\ r \in Calls
    BY DEF Calls
  <2>2. call'[q].e = call[q].e /\ call'[r].e \in {call[r].e, NoExecution}
    BY <2>1
  <2> QED
    BY <2>2 DEF CallersExclude
<1>4. RowsAgree'
  BY DEF RowsAgree, Agrees, NoRun, Decided
<1> QED
  BY <1>1, <1>2, <1>3, <1>4

\* In particular one that lets go of its execution, or never had one to write.
LEMMA LetGo ==
  ASSUME IInv, TypeOK', NEW p \in Calls,
         UNCHANGED <<execution, approval, expiry, crowd, grants, commands>>,
         \A q \in Calls : q # p => call'[q] = call[q],
         Role(p, call'[p].pc),
         call'[p].e \in {call[p].e, NoExecution},
         call'[p].pc \notin Working
  PROVE  IInv'
<1>1. Knows(p)'
  BY DEF Knows
<1> QED
  BY <1>1, QuietStep

\* The forms in which a call goes on.
LEMMA CallMoves ==
  ASSUME TypeOK, NEW p \in Calls, NEW pc, NEW snap, NEW outcome, NEW e
  PROVE  /\ call' = [call EXCEPT ![p].pc = pc] =>
              /\ call'[p].pc = pc /\ call'[p].e = call[p].e /\ call'[p].outcome = call[p].outcome
              /\ \A q \in Calls : q # p => call'[q] = call[q]
         /\ call' = [call EXCEPT ![p].pc = pc, ![p].snap = snap] =>
              /\ call'[p].pc = pc /\ call'[p].e = call[p].e /\ call'[p].outcome = call[p].outcome
              /\ \A q \in Calls : q # p => call'[q] = call[q]
         /\ call' = [call EXCEPT ![p].pc = pc, ![p].outcome = outcome] =>
              /\ call'[p].pc = pc /\ call'[p].e = call[p].e /\ call'[p].outcome = outcome
              /\ \A q \in Calls : q # p => call'[q] = call[q]
         /\ call' = [call EXCEPT ![p] = [pc |-> pc, e |-> e, outcome |-> "none", snap |-> snap]] =>
              /\ call'[p].pc = pc /\ call'[p].e = e
              /\ \A q \in Calls : q # p => call'[q] = call[q]
         /\ call' = [call EXCEPT ![p] = NoCall] =>
              /\ call'[p].pc = "idle" /\ call'[p].e = NoExecution
              /\ \A q \in Calls : q # p => call'[q] = call[q]
BY CallsTyped DEF CallRow, NoCall

LEMMA CallFields ==
  ASSUME TypeOK, NEW p \in Calls
  PROVE  /\ call[p] \in CallRow /\ call[p].pc \in Steps /\ call[p].snap \in SessionRow
         /\ call[p].e \in Executions \cup {NoExecution}
         /\ call[p].outcome \in {"none", "SUCCEEDED", "FAILED"}
         /\ call[p].snap.container \in Containers \cup {NoContainer}
         /\ call[p].snap.status \in SessionStatus \cup {"ABSENT"}
         /\ call[p].snap.lease \in LeaseStatus
BY CallsTyped DEF CallRow, SessionRow

-----------------------------------------------------------------------------
(* createComputeSession, terminateComputeSession, and requests that die.    *)

LEMMA CreateStep == ASSUME IInv, NEW p \in Calls, Create(p) PROVE IInv'
<1> USE DEF IInv, rows, history
<1>1. CASE CreateSession(p)
  <2> DEFINE row == [NoSession EXCEPT !.status = "STARTING"]
  <2>1. row \in SessionRow
    BY Snapshots DEF SessionStatus
  <2>3. /\ call' = [call EXCEPT ![p] = [pc |-> "acquireNew", e |-> NoExecution,
                                        outcome |-> "none", snap |-> row]]
        /\ session' = row /\ p \in Callers
        /\ UNCHANGED <<docker, execution, approval, expiry, crowd, grants, commands, faults>>
    BY <1>1 DEF CreateSession, SetSession, Begin
  <2>4. TypeOK'
    <3>1. call' \in [Calls -> CallRow]
      BY <2>1, <2>3, CallUpdates DEF Steps, CreateSteps
    <3> QED
      BY <2>1, <2>3, <3>1 DEF TypeOK, CallRow, Steps
  <2>5. /\ call'[p].pc = "acquireNew" /\ call'[p].e = NoExecution
        /\ \A q \in Calls : q # p => call'[q] = call[q]
    BY <2>3, CallMoves
  <2>6. Role(p, call'[p].pc) /\ call'[p].pc \notin Working
    BY <2>3, <2>4, <2>5 DEF Role, CreateSteps, Working
  <2> QED
    BY <2>3, <2>4, <2>5, <2>6, LetGo
<1>2. CASE SessionCreated(p)
  <2>1. /\ call' = [call EXCEPT ![p] = NoCall]
        /\ UNCHANGED <<session, docker, execution, approval, expiry, crowd, grants, commands, faults>>
    BY <1>2 DEF SessionCreated, Return
  <2>2. TypeOK'
    <3>1. call' \in [Calls -> CallRow]
      BY <2>1, CallUpdates, NoSessionIsRow DEF Steps
    <3> QED
      BY <2>1, <3>1 DEF TypeOK, CallRow, Steps
  <2>3. /\ call'[p].pc = "idle" /\ call'[p].e = NoExecution
        /\ \A q \in Calls : q # p => call'[q] = call[q]
    BY <2>1, CallMoves
  <2>4. Role(p, call'[p].pc) /\ call'[p].pc \notin Working
    BY <2>1, <2>2, <2>3 DEF Role, Working
  <2> QED
    BY <2>1, <2>2, <2>3, <2>4, LetGo
<1>3. CASE CreationThrows(p)
  <2>1. /\ call' = [call EXCEPT ![p].pc = "createFailed"] /\ faults' = faults + 1
        /\ call[p].pc \in CreateSteps
        /\ UNCHANGED <<session, docker, execution, approval, expiry, crowd, grants, commands>>
    BY <1>3 DEF CreationThrows, To, Fault
  <2>2. p \in Callers
    BY <2>1 DEF Roles, Role, CreateSteps, RunSteps, TerminateSteps
  <2>3. TypeOK'
    <3>1. call' \in [Calls -> CallRow]
      BY <2>1, CallUpdates, NoSessionIsRow DEF Steps
    <3> QED
      BY <2>1, <3>1 DEF TypeOK, CallRow, Steps
  <2>4. /\ call'[p].pc = "createFailed" /\ call'[p].e = call[p].e
        /\ \A q \in Calls : q # p => call'[q] = call[q]
    BY <2>1, CallMoves
  <2>5. Role(p, call'[p].pc) /\ call'[p].pc \notin Working
    BY <2>1, <2>2, <2>3, <2>4 DEF Role, Working
  <2> QED
    BY <2>1, <2>2, <2>3, <2>4, <2>5, LetGo
<1>4. CASE MarkCreationFailed(p)
  <2>1. /\ call' = [call EXCEPT ![p] = NoCall]
        /\ session' = [session EXCEPT !.status = "FAILED", !.lease = "FAILED"]
        /\ UNCHANGED <<docker, execution, approval, expiry, crowd, grants, commands, faults>>
    BY <1>4 DEF MarkCreationFailed, Return, SetSession
  <2>2. TypeOK'
    <3>1. call' \in [Calls -> CallRow]
      BY <2>1, CallUpdates, NoSessionIsRow DEF Steps
    <3>2. session' \in SessionRow
      BY <2>1, SessionUpdates DEF TypeOK, SessionStatus, LeaseStatus
    <3> QED
      BY <2>1, <3>1, <3>2 DEF TypeOK, CallRow, Steps
  <2>3. /\ call'[p].pc = "idle" /\ call'[p].e = NoExecution
        /\ \A q \in Calls : q # p => call'[q] = call[q]
    BY <2>1, CallMoves
  <2>4. Role(p, call'[p].pc) /\ call'[p].pc \notin Working
    BY <2>1, <2>2, <2>3 DEF Role, Working
  <2> QED
    BY <2>1, <2>2, <2>3, <2>4, LetGo
<1> QED
  BY <1>1, <1>2, <1>3, <1>4 DEF Create

LEMMA DiesStep == ASSUME IInv, NEW p \in Calls, CallDies(p) PROVE IInv'
<1> USE DEF IInv, rows, history
<1>1. /\ call' = [call EXCEPT ![p] = NoCall] /\ faults' = faults + 1
      /\ UNCHANGED <<session, docker, execution, approval, expiry, crowd, grants, commands>>
  BY DEF CallDies, Return, Fault
<1>2. TypeOK'
  <2>1. call' \in [Calls -> CallRow]
    BY <1>1, CallUpdates, NoSessionIsRow DEF Steps
  <2> QED
    BY <1>1, <2>1 DEF TypeOK, CallRow, Steps
<1>3. /\ call'[p].pc = "idle" /\ call'[p].e = NoExecution
      /\ \A q \in Calls : q # p => call'[q] = call[q]
  BY <1>1, CallMoves
<1>4. Role(p, call'[p].pc) /\ call'[p].pc \notin Working
  BY <1>1, <1>2, <1>3 DEF Role, Working
<1> QED
  BY <1>1, <1>2, <1>3, <1>4, LetGo

LEMMA TerminateStep == ASSUME IInv, NEW p \in Calls, TerminateComputeSession(p) PROVE IInv'
<1> USE DEF IInv, rows, history
<1> DEFINE snap == call[p].snap
<1>1. CASE Terminate(p)
  <2>1. /\ call' = [call EXCEPT ![p] = [pc |-> "stop", e |-> NoExecution,
                                        outcome |-> "none", snap |-> session]]
        /\ p \in Terminators
        /\ UNCHANGED <<session, docker, execution, approval, expiry, crowd, grants, commands, faults>>
    BY <1>1 DEF Terminate, Begin
  <2>2. TypeOK'
    <3>1. call' \in [Calls -> CallRow]
      BY <2>1, CallUpdates DEF Steps, TerminateSteps, TypeOK
    <3> QED
      BY <2>1, <3>1 DEF TypeOK, CallRow, Steps
  <2>3. /\ call'[p].pc = "stop" /\ call'[p].e = NoExecution
        /\ \A q \in Calls : q # p => call'[q] = call[q]
    BY <2>1, CallMoves
  <2>4. Role(p, call'[p].pc) /\ call'[p].pc \notin Working
    BY <2>1, <2>3 DEF Role, TerminateSteps, Working
  <2> QED
    BY <2>1, <2>2, <2>3, <2>4, LetGo
<1>2. ASSUME NEW pc \in {"remove", "release", "end"}, NEW kept \in SessionRow,
             \/ call' = [call EXCEPT ![p].pc = pc, ![p].snap = kept]
             \/ call' = [call EXCEPT ![p].pc = pc],
             call[p].pc \in TerminateSteps,
             session' \in SessionRow, docker' \in Containers \cup {NoContainer},
             UNCHANGED <<execution, approval, expiry, crowd, grants, commands, faults>>
      PROVE  IInv'
  <2>1. p \in Terminators
    BY <1>2 DEF Roles, Role, CreateSteps, AskSteps, RunSteps, TerminateSteps
  <2>2. /\ call' \in [Calls -> CallRow]
        /\ call'[p].pc = pc /\ call'[p].e = call[p].e
        /\ \A q \in Calls : q # p => call'[q] = call[q]
    <3>1. pc \in Steps
      BY <1>2 DEF Steps, TerminateSteps
    <3>2. CASE call' = [call EXCEPT ![p].pc = pc, ![p].snap = kept]
      BY <3>1, <3>2, CallUpdates, CallMoves, NoSessionIsRow
    <3>3. CASE call' = [call EXCEPT ![p].pc = pc]
      BY <3>1, <3>3, CallUpdates, CallMoves, NoSessionIsRow
    <3> QED
      BY <1>2, <3>2, <3>3
  <2>3. TypeOK'
    BY <1>2, <2>2 DEF TypeOK, CallRow, Steps
  <2>4. Role(p, call'[p].pc) /\ call'[p].pc \notin Working
    BY <1>2, <2>1, <2>2 DEF Role, TerminateSteps, Working
  <2> QED
    BY <1>2, <2>2, <2>3, <2>4, LetGo
<1>3. CASE MarkStopping(p)
  <2>1. /\ call[p].pc \in TerminateSteps /\ session \in SessionRow
        /\ docker' = docker /\ docker' \in Containers \cup {NoContainer}
        /\ session.container \in Containers \cup {NoContainer}
    BY <1>3 DEF MarkStopping, TerminateSteps, TypeOK, SessionRow
  <2>2. session' \in SessionRow
    <3> DEFINE status == IF snap.status = "FAILED" THEN "FAILED" ELSE "STOPPING"
               lease == IF NothingToRelease(snap) THEN snap.lease ELSE "RELEASING"
    <3>1. status \in SessionStatus /\ lease \in LeaseStatus
      BY CallFields DEF SessionStatus, LeaseStatus
    <3>2. session' = [session EXCEPT !.status = status, !.lease = lease]
      BY <1>3 DEF MarkStopping, SetSession
    <3> QED
      BY <2>1, <3>1, <3>2, SessionUpdates
  <2>3. UNCHANGED <<execution, approval, expiry, crowd, grants, commands, faults>>
    BY <1>3 DEF MarkStopping
  <2> DEFINE kept(c) == [NoSession EXCEPT !.status = snap.status, !.container = c]
  <2>4. \/ call' = [call EXCEPT ![p].pc = "end", ![p].snap = kept(NoContainer)]
        \/ call' = [call EXCEPT ![p].pc = "remove", ![p].snap = kept(session.container)]
    BY <1>3 DEF MarkStopping, Keeping
  <2>5. kept(NoContainer) \in SessionRow /\ kept(session.container) \in SessionRow
    BY <2>1, CallFields, Snapshots
  <2> HIDE DEF kept
  <2> QED
    BY <1>2, <2>1, <2>2, <2>3, <2>4, <2>5
<1>4. CASE RemoveContainer(p)
  <2> DEFINE kept == [NoSession EXCEPT !.status = snap.status, !.container = NoContainer]
  <2>1. /\ call[p].pc \in TerminateSteps
        /\ call' = [call EXCEPT ![p].pc = "release", ![p].snap = kept]
        /\ session' \in SessionRow /\ docker' \in Containers \cup {NoContainer}
        /\ UNCHANGED <<execution, approval, expiry, crowd, grants, commands, faults>>
    BY <1>4 DEF RemoveContainer, TerminateSteps, TypeOK, Removed, Keeping
  <2>2. kept \in SessionRow
    BY CallFields, Snapshots
  <2> HIDE DEF kept
  <2> QED
    BY <1>2, <2>1, <2>2
<1>5. CASE RecordRelease(p)
  <2>1. /\ call[p].pc \in TerminateSteps /\ call' = [call EXCEPT ![p].pc = "end"]
        /\ docker' \in Containers \cup {NoContainer}
        /\ UNCHANGED <<execution, approval, expiry, crowd, grants, commands, faults>>
    BY <1>5 DEF RecordRelease, TerminateSteps, TypeOK, To
  <2>2. session' \in SessionRow
    <3>1. session' = [session EXCEPT !.lease = "RELEASED", !.container = NoContainer]
      BY <1>5 DEF RecordRelease, SetSession
    <3>2. session \in SessionRow
      BY DEF TypeOK
    <3> QED
      BY <3>1, <3>2 DEF SessionRow, LeaseStatus
  <2> QED
    BY <1>2, <2>1, <2>2, NoSessionIsRow
<1>6. CASE EndSession(p)
  <2> DEFINE status == IF snap.status = "FAILED" THEN "FAILED" ELSE "COMPLETED"
  <2>1. /\ call' = [call EXCEPT ![p] = NoCall]
        /\ session' = [session EXCEPT !.status = status, !.ended = TRUE]
        /\ UNCHANGED <<docker, execution, approval, expiry, crowd, grants, commands, faults>>
    BY <1>6 DEF EndSession, Return, SetSession
  <2>2. session' \in SessionRow
    <3>1. status \in SessionStatus /\ session \in SessionRow
      BY DEF SessionStatus, TypeOK
    <3> HIDE DEF status
    <3> QED
      BY <2>1, <3>1 DEF SessionRow
  <2>3. TypeOK'
    <3>1. call' \in [Calls -> CallRow]
      BY <2>1, CallUpdates, NoSessionIsRow DEF Steps
    <3> QED
      BY <2>1, <2>2, <3>1 DEF TypeOK, CallRow, Steps
  <2>4. /\ call'[p].pc = "idle" /\ call'[p].e = NoExecution
        /\ \A q \in Calls : q # p => call'[q] = call[q]
    BY <2>1, CallMoves
  <2>5. Role(p, call'[p].pc) /\ call'[p].pc \notin Working
    BY <2>4 DEF Role, Working
  <2> QED
    BY <2>1, <2>3, <2>4, <2>5, LetGo
<1> QED
  BY <1>1, <1>3, <1>4, <1>5, <1>6 DEF TerminateComputeSession

-----------------------------------------------------------------------------
(* A step that writes a row of the execution its request works on: only     *)
(* resolvers share one.                                                    *)

LEMMA OnlyResolversShare ==
  ASSUME IInv, NEW p \in Calls, NEW q \in Calls, p # q,
         call[p].pc \in Working, call[q].pc \in Working, call[q].e = call[p].e
  PROVE  p \in Resolvers /\ p \notin Callers /\ q \in Resolvers /\ q \notin Callers
<1> USE DEF IInv
<1> DEFINE e == call[p].e
<1>1. /\ Knows(p) /\ Knows(q) /\ e \in Executions /\ Agrees(e)
  BY DEF CallsKnow, Knows, RowsAgree
<1>2. ASSUME NEW r \in Calls, call[r].pc \in Working
      PROVE  r \in Callers \/ r \in Resolvers
  <2>1. Role(r, call[r].pc)
    BY DEF Roles
  <2> QED
    BY <1>2, <2>1 DEF Role, Working, TerminateSteps
<1>3. ASSUME NEW r \in Callers, call[r].pc \in Working, Knows(r), call[r].e = e
      PROVE  approval[e] = "ABSENT"
  <2>1. CallerKnows(call[r].pc, e)
    BY <1>3 DEF Knows
  <2>2. r \in Calls /\ r \notin Resolvers
    BY DEF Calls
  <2>3. call[r].pc \in {"deny", "ask", "request", "lease", "leased", "start", "mark", "run",
                        "finish"}
    <3>1. Role(r, call[r].pc)
      BY <2>2 DEF Roles
    <3> QED
      BY <1>3, <2>2, <3>1 DEF Role, Working, CreateSteps, AskSteps, RunSteps, TerminateSteps
  <2> QED
    BY <1>1, <2>1, <2>3 DEF CallerKnows, Agrees
<1>4. ASSUME NEW r \in Resolvers, call[r].pc \in Working, Knows(r), call[r].e = e
      PROVE  approval[e] # "ABSENT"
  BY <1>4 DEF Knows, ResolverKnows
<1>5. ~(p \in Callers /\ q \in Callers)
  <2>1. e # NoExecution
    BY <1>1
  <2> QED
    BY <2>1 DEF CallersExclude
<1> QED
  BY <1>1, <1>2, <1>3, <1>4, <1>5

\* Of an execution nothing but its own rows changes.
RowUnchanged(e) ==
  /\ execution'[e] = execution[e] /\ approval'[e] = approval[e] /\ crowd'[e] = crowd[e]
  /\ grants'[e] = grants[e] /\ commands'[e] = commands[e]

LEMMA KnowsElsewhere ==
  ASSUME NEW q, call[q].pc \in Working => RowUnchanged(call[q].e),
         call'[q] = call[q], Knows(q)
  PROVE  Knows(q)'
BY DEF Knows, CallerKnows, ResolverKnows, RowUnchanged, NoRun, Decided

\* What a write must leave to a resolver that shares the execution.
Leaves(q, e) ==
  /\ approval'[e] # "ABSENT" \/ approval[e] = "ABSENT"
  /\ grants'[e][q] = grants[e][q] /\ commands'[e][q] = commands[e][q]
  /\ \/ Decided(e) /\ Decided(e)' /\ crowd'[e] = crowd[e]
     \/ ~Decided(e) /\ ~Decided(e)' /\ crowd'[e] = crowd[e]
     \/ ~Decided(e) /\ Decided(e)' /\ crowd'[e] = Holders(e)

LEMMA KnowsOfShared ==
  ASSUME NEW q \in Resolvers, q \notin Callers, NEW e \in Executions, Leaves(q, e),
         call[q].e = e, call'[q] = call[q], Knows(q)
  PROVE  Knows(q)'
<1>1. CASE call[q].pc \in Working
  <2>1. ResolverKnows(q, call[q].pc, e)
    BY <1>1 DEF Knows
  <2>2. call[q].pc \in {"context", "approve", "reject"} => q \in Holders(e)
    BY DEF Holders, ResolveSteps
  <2>3. ResolverKnows(q, call[q].pc, e)'
    BY <2>1, <2>2 DEF ResolverKnows, Leaves
  <2> QED
    BY <1>1, <2>3 DEF Knows
<1>2. CASE call[q].pc \notin Working
  BY <1>2 DEF Knows
<1> QED
  BY <1>1, <1>2

LEMMA RowStep ==
  ASSUME IInv, TypeOK', NEW p \in Calls, NEW e \in Executions,
         call[p].pc \in Working, call[p].e = e,
         \A d \in Executions : d # e => RowUnchanged(d),
         \A q \in Resolvers : q # p => Leaves(q, e),
         expiry' = expiry,
         \A q \in Calls : q # p => call'[q] = call[q],
         Role(p, call'[p].pc),
         call'[p].e \in {call[p].e, NoExecution},
         Knows(p)', Agrees(e)'
  PROVE  IInv'
<1> USE DEF IInv
<1>1. Roles'
  BY DEF Roles
<1>2. CallsKnow'
  <2> SUFFICES ASSUME NEW q \in Calls, q # p PROVE Knows(q)'
    BY DEF CallsKnow
  <2>1. Knows(q) /\ call'[q] = call[q]
    BY DEF CallsKnow
  <2>2. CASE call[q].pc \in Working /\ call[q].e = e
    <3>1. q \in Resolvers /\ q \notin Callers
      BY <2>2, OnlyResolversShare
    <3> QED
      BY <2>1, <2>2, <3>1, KnowsOfShared
  <2>3. CASE call[q].pc \in Working => call[q].e # e
    <3>1. call[q].pc \in Working => RowUnchanged(call[q].e)
      BY <2>1, <2>3 DEF Knows
    <3> QED
      BY <2>1, <3>1, KnowsElsewhere
  <2> QED
    BY <2>2, <2>3
<1>3. CallersExclude'
  <2> SUFFICES ASSUME NEW q \in Callers, NEW r \in Callers, q # r, call'[q].e # NoExecution
               PROVE  call'[r].e # call'[q].e
    BY DEF CallersExclude
  <2>1. q \in Calls /\ r \in Calls
    BY DEF Calls
  <2>2. call'[q].e = call[q].e /\ call'[r].e \in {call[r].e, NoExecution}
    BY <2>1
  <2> QED
    BY <2>2 DEF CallersExclude
<1>4. RowsAgree'
  <2> SUFFICES ASSUME NEW d \in Executions, d # e PROVE Agrees(d)'
    BY DEF RowsAgree
  <2>1. Agrees(d) /\ RowUnchanged(d)
    BY DEF RowsAgree
  <2> QED
    BY <2>1 DEF Agrees, RowUnchanged, NoRun, Decided
<1> QED
  BY <1>1, <1>2, <1>3, <1>4

\* What the first decision writes down of who held the approval.
LEMMA Recorded ==
  ASSUME TypeOK, NEW e \in Executions, RecordCrowd(e)
  PROVE  /\ crowd' \in [Executions -> SUBSET Resolvers]
         /\ \A d \in Executions : d # e => crowd'[d] = crowd[d]
         /\ crowd'[e] = IF Decided(e) THEN crowd[e] ELSE Holders(e)
<1>1. Holders(e) \in SUBSET Resolvers
  BY DEF Holders
<1> QED
  BY <1>1 DEF RecordCrowd, TypeOK

-----------------------------------------------------------------------------
(* runAllowedExecution.                                                    *)

LEMMA MayRun ==
  ASSUME Roles, NEW p \in Calls, call[p].pc \in RunSteps, NEW pc \in RunSteps \cup {"idle"}
  PROVE  Role(p, pc)
BY DEF Roles, Role, CreateSteps, AskSteps, RunSteps, TerminateSteps

LEMMA MayCreate ==
  ASSUME Roles, NEW p \in Calls, call[p].pc \in CreateSteps, NEW pc \in CreateSteps
  PROVE  Role(p, pc)
BY DEF Roles, Role, CreateSteps, RunSteps, TerminateSteps

LEMMA AcquireStep == ASSUME IInv, NEW p \in Calls, AcquireContainer(p) PROVE IInv'
<1> USE DEF IInv, rows, history
<1>1. PICK c \in Containers :
        /\ docker' = c
        /\ Keeping(p, IF call[p].pc = "lease" THEN "leased" ELSE "leaseNew", c)
  BY DEF AcquireContainer
<1> DEFINE pc == IF call[p].pc = "lease" THEN "leased" ELSE "leaseNew"
           kept == [NoSession EXCEPT !.status = call[p].snap.status, !.container = c]
<1>2. /\ call' = [call EXCEPT ![p].pc = pc, ![p].snap = kept]
      /\ call[p].pc \in {"acquireNew", "lease"}
      /\ UNCHANGED <<session, execution, approval, expiry, crowd, grants, commands, faults>>
  BY <1>1 DEF AcquireContainer, Keeping
<1>3. kept \in SessionRow /\ pc \in Steps
  BY CallFields, Snapshots DEF Steps, CreateSteps, RunSteps
<1>4. Role(p, pc)
  BY <1>2, MayRun, MayCreate DEF RunSteps, CreateSteps
<1> HIDE DEF kept, pc
<1>5. /\ call' \in [Calls -> CallRow] /\ call'[p].pc = pc /\ call'[p].e = call[p].e
      /\ \A q \in Calls : q # p => call'[q] = call[q]
  BY <1>2, <1>3, CallUpdates, CallMoves
<1>6. TypeOK'
  BY <1>1, <1>2, <1>5 DEF TypeOK, CallRow, Steps
<1>7. Knows(p)'
  <2>1. Knows(p)
    BY DEF CallsKnow
  <2> QED
    BY <1>2, <1>5, <2>1 DEF Knows, CallerKnows, ResolverKnows, Working, NoRun, Decided, pc
<1> QED
  BY <1>2, <1>4, <1>5, <1>6, <1>7, QuietStep

LEMMA RecordLeaseStep == ASSUME IInv, NEW p \in Calls, RecordLease(p) PROVE IInv'
<1> USE DEF IInv, rows, history
<1> DEFINE pc == IF call[p].pc = "leased" THEN "start" ELSE "auditNew"
           status == LeasedStatus(call[p].snap)
<1>1. /\ call[p].pc \in {"leaseNew", "leased"}
      /\ session' = [session EXCEPT !.status = status, !.lease = "READY",
                                    !.container = call[p].snap.container]
      /\ UNCHANGED <<docker, execution, approval, expiry, crowd, grants, commands, faults>>
  BY DEF RecordLease, SetSession, LeasedRow
<1>2. \/ call' = [call EXCEPT ![p].pc = pc, ![p].snap = NoSession]
      \/ call' = [call EXCEPT ![p].pc = pc]
  BY DEF RecordLease, Leased, To
<1>3. pc \in Steps /\ status \in SessionStatus
  BY DEF Steps, CreateSteps, RunSteps, LeasedStatus, SessionStatus
<1>4. Role(p, pc)
  BY <1>1, MayRun, MayCreate DEF RunSteps, CreateSteps
<1>5. session' \in SessionRow
  <2>1. session \in SessionRow /\ call[p].snap.container \in Containers \cup {NoContainer}
    BY CallFields DEF TypeOK
  <2> HIDE DEF status
  <2> QED
    BY <1>1, <1>3, <2>1 DEF SessionRow, LeaseStatus
<1> HIDE DEF pc
<1>6. /\ call' \in [Calls -> CallRow] /\ call'[p].pc = pc /\ call'[p].e = call[p].e
      /\ \A q \in Calls : q # p => call'[q] = call[q]
  <2>1. CASE call' = [call EXCEPT ![p].pc = pc, ![p].snap = NoSession]
    BY <1>3, <2>1, NoSessionIsRow, CallUpdates, CallMoves
  <2>2. CASE call' = [call EXCEPT ![p].pc = pc]
    BY <1>3, <2>2, NoSessionIsRow, CallUpdates, CallMoves
  <2> QED
    BY <1>2, <2>1, <2>2
<1>7. TypeOK'
  BY <1>1, <1>5, <1>6 DEF TypeOK, CallRow, Steps
<1>8. Knows(p)'
  <2>1. Knows(p)
    BY DEF CallsKnow
  <2> QED
    BY <1>1, <1>6, <2>1 DEF Knows, CallerKnows, ResolverKnows, Working, NoRun, Decided, pc
<1> QED
  BY <1>1, <1>4, <1>6, <1>7, <1>8, QuietStep

LEMMA QuietRunStep ==
  ASSUME IInv, NEW p \in Calls, ReuseLease(p) \/ MarkSessionRunning(p) \/ RestSession(p)
  PROVE  IInv'
<1> USE DEF IInv, rows, history
<1>1. CASE ReuseLease(p)
  <2>1. /\ call' = [call EXCEPT ![p].pc = "start", ![p].snap = NoSession]
        /\ call[p].pc = "lease"
        /\ UNCHANGED <<session, docker, execution, approval, expiry, crowd, grants, commands, faults>>
    BY <1>1 DEF ReuseLease, Leased
  <2>2. /\ call' \in [Calls -> CallRow] /\ call'[p].pc = "start" /\ call'[p].e = call[p].e
        /\ \A q \in Calls : q # p => call'[q] = call[q]
    <3>1. "start" \in Steps
      BY DEF Steps, RunSteps
    <3> QED
      BY <2>1, <3>1, NoSessionIsRow, CallUpdates, CallMoves
  <2>3. TypeOK'
    BY <2>1, <2>2 DEF TypeOK, CallRow, Steps
  <2>4. Role(p, "start")
    BY <2>1, MayRun DEF RunSteps
  <2>5. Knows(p)'
    <3>1. Knows(p)
      BY DEF CallsKnow
    <3> QED
      BY <2>1, <2>2, <3>1 DEF Knows, CallerKnows, ResolverKnows, Working, NoRun, Decided
  <2> QED
    BY <2>1, <2>2, <2>3, <2>4, <2>5, QuietStep
<1>2. CASE MarkSessionRunning(p)
  <2>1. /\ call' = [call EXCEPT ![p].pc = "run"]
        /\ call[p].pc = "mark"
        /\ session' = [session EXCEPT !.status = "RUNNING"]
        /\ UNCHANGED <<docker, execution, approval, expiry, crowd, grants, commands, faults>>
    BY <1>2 DEF MarkSessionRunning, To, SetSession
  <2>2. /\ call' \in [Calls -> CallRow] /\ call'[p].pc = "run" /\ call'[p].e = call[p].e
        /\ \A q \in Calls : q # p => call'[q] = call[q]
    <3>1. "run" \in Steps
      BY DEF Steps, RunSteps
    <3> QED
      BY <2>1, <3>1, NoSessionIsRow, CallUpdates, CallMoves
  <2>3. TypeOK'
    BY <2>1, <2>2 DEF TypeOK, CallRow, Steps, SessionRow, SessionStatus
  <2>4. Role(p, "run")
    BY <2>1, MayRun DEF RunSteps
  <2>5. Knows(p)'
    <3>1. Knows(p)
      BY DEF CallsKnow
    <3> QED
      BY <2>1, <2>2, <3>1 DEF Knows, CallerKnows, ResolverKnows, Working, NoRun, Decided
  <2> QED
    BY <2>1, <2>2, <2>3, <2>4, <2>5, QuietStep
<1>3. CASE RestSession(p)
  <2>1. /\ call' = [call EXCEPT ![p] = NoCall]
        /\ call[p].pc = "rest"
        /\ session' = [session EXCEPT !.status = "IDLE"]
        /\ UNCHANGED <<docker, execution, approval, expiry, crowd, grants, commands, faults>>
    BY <1>3 DEF RestSession, Return, SetSession
  <2>2. /\ call' \in [Calls -> CallRow] /\ call'[p].pc = "idle" /\ call'[p].e = NoExecution
        /\ \A q \in Calls : q # p => call'[q] = call[q]
    <3>1. "idle" \in Steps
      BY DEF Steps
    <3> QED
      BY <2>1, <3>1, NoSessionIsRow, CallUpdates, CallMoves
  <2>3. TypeOK'
    BY <2>1, <2>2 DEF TypeOK, CallRow, Steps, SessionRow, SessionStatus
  <2>4. Role(p, "idle") /\ "idle" \notin Working
    BY DEF Role, Working
  <2> QED
    BY <2>1, <2>2, <2>3, <2>4, LetGo
<1> QED
  BY <1>1, <1>2, <1>3

\* A call that goes on about the same execution, in another step.
LEMMA Goes ==
  ASSUME IInv, NEW p \in Calls, NEW pc \in Steps, call' = [call EXCEPT ![p].pc = pc]
  PROVE  /\ call' \in [Calls -> CallRow] /\ call'[p].pc = pc /\ call'[p].e = call[p].e
         /\ call'[p].outcome = call[p].outcome
         /\ \A q \in Calls : q # p => call'[q] = call[q]
BY NoSessionIsRow, CallUpdates, CallMoves DEF IInv

\* Of a request that works on an execution: whose it is and what it knows.
LEMMA AtWork ==
  ASSUME IInv, NEW p \in Calls, call[p].pc \in Working
  PROVE  /\ call[p].e \in Executions /\ Agrees(call[p].e)
         /\ \/ p \in Callers /\ p \notin Resolvers /\ CallerKnows(call[p].pc, call[p].e)
            \/ p \in Resolvers /\ p \notin Callers /\ ResolverKnows(p, call[p].pc, call[p].e)
         /\ call[p].pc = "finish" => call[p].outcome # "none"
<1>1. Knows(p) /\ Role(p, call[p].pc)
  BY DEF IInv, CallsKnow, Roles
<1>2. p \in Callers \/ p \in Resolvers
  BY <1>1 DEF Role, Working, TerminateSteps
<1> QED
  BY <1>1, <1>2 DEF IInv, Knows, RowsAgree

LEMMA StartStep == ASSUME IInv, NEW p \in Calls, StartExecution(p) PROVE IInv'
<1> USE DEF rows, history
<1>0. call[p].pc \in Working
  BY DEF StartExecution, Working
<1> PICK e \in Executions : e = call[p].e
  BY <1>0, AtWork
<1>1. /\ call' = [call EXCEPT ![p].pc = "mark"]
      /\ call[p].pc = "start"
      /\ execution' = [execution EXCEPT ![e] = "RUNNING"]
      /\ UNCHANGED <<session, docker, approval, expiry, crowd, grants, commands, faults>>
  BY DEF StartExecution, To
<1>2. call[p].pc \in Working /\ "mark" \in Steps
  BY <1>1 DEF Working, Steps, RunSteps
<1>3. /\ e \in Executions /\ Agrees(e)
      /\ \/ p \in Callers /\ p \notin Resolvers /\ CallerKnows("start", e)
         \/ p \in Resolvers /\ p \notin Callers /\ ResolverKnows(p, "start", e)
  BY <1>1, <1>2, AtWork
<1>4. /\ call' \in [Calls -> CallRow] /\ call'[p].pc = "mark" /\ call'[p].e = e
      /\ \A q \in Calls : q # p => call'[q] = call[q]
  BY <1>1, <1>2, Goes
<1>5. TypeOK'
  BY <1>1, <1>4 DEF TypeOK, CallRow, Steps, IInv
<1>6. Role(p, "mark")
  BY <1>1, MayRun DEF RunSteps, IInv
<1>7. /\ execution'[e] = "RUNNING" /\ approval'[e] = approval[e] /\ expiry' = expiry
      /\ crowd'[e] = crowd[e] /\ grants'[e] = grants[e] /\ commands'[e] = commands[e]
      /\ \A d \in Executions : d # e => RowUnchanged(d)
  BY <1>1, <1>3 DEF IInv, TypeOK, RowUnchanged
<1>8. Knows(p)'
  BY <1>3, <1>4, <1>7 DEF Knows, CallerKnows, ResolverKnows, Agrees, NoRun, Decided
<1>9. Agrees(e)'
  <2>1. CASE p \in Callers /\ CallerKnows("start", e)
    BY <1>7, <1>3, <2>1 DEF CallerKnows, Agrees, NoRun, Decided
  <2>2. CASE p \in Resolvers /\ ResolverKnows(p, "start", e)
    <3>1. grants[e][p] > 0 /\ approval[e] # "ABSENT"
      BY <2>2 DEF ResolverKnows
    <3> QED
      BY <1>7, <1>3, <2>2, <3>1 DEF Agrees, NoRun, Decided
  <2> QED
    BY <1>3, <2>1, <2>2
<1>10. \A q \in Resolvers : q # p => Leaves(q, e)
  BY <1>7 DEF Leaves, Decided
<1> QED
  BY <1>2, <1>3, <1>4, <1>5, <1>6, <1>7, <1>8, <1>9, <1>10, RowStep

LEMMA CommandStep == ASSUME IInv, NEW p \in Calls, RunCommand(p) PROVE IInv'
<1> USE DEF rows, history
<1>0. call[p].pc \in Working
  BY DEF RunCommand, Working
<1> PICK e \in Executions : e = call[p].e
  BY <1>0, AtWork
<1>1. PICK result \in {"SUCCEEDED", "FAILED"} :
        call' = [call EXCEPT ![p].pc = "finish", ![p].outcome = result]
  BY DEF RunCommand
<1>2. /\ call[p].pc = "run"
      /\ commands' = [commands EXCEPT ![e][p] = @ + 1]
      /\ UNCHANGED <<session, docker, execution, approval, expiry, crowd, grants, faults>>
  BY DEF RunCommand
<1>3. call[p].pc \in Working /\ "finish" \in Steps
  BY <1>2 DEF Working, Steps, RunSteps
<1>4. /\ e \in Executions /\ Agrees(e)
      /\ \/ p \in Callers /\ p \notin Resolvers /\ CallerKnows("run", e)
         \/ p \in Resolvers /\ p \notin Callers /\ ResolverKnows(p, "run", e)
  BY <1>2, <1>3, AtWork
<1>5. /\ call' \in [Calls -> CallRow] /\ call'[p].pc = "finish" /\ call'[p].e = e
      /\ call'[p].outcome = result
      /\ \A q \in Calls : q # p => call'[q] = call[q]
  <2>1. TypeOK /\ result \in {"none", "SUCCEEDED", "FAILED"}
    BY DEF IInv
  <2>2. call' \in [Calls -> CallRow]
    BY <1>1, <1>3, <2>1, NoSessionIsRow, CallUpdates
  <2>3. /\ call'[p].pc = "finish" /\ call'[p].e = call[p].e /\ call'[p].outcome = result
        /\ \A q \in Calls : q # p => call'[q] = call[q]
    BY <1>1, <2>1, CallMoves
  <2> QED
    BY <2>2, <2>3
<1>6. TypeOK'
  BY <1>2, <1>5 DEF TypeOK, CallRow, Steps, IInv
<1>7. Role(p, "finish")
  BY <1>2, MayRun DEF RunSteps, IInv
<1>8. /\ execution'[e] = execution[e] /\ approval'[e] = approval[e] /\ expiry' = expiry
      /\ crowd'[e] = crowd[e] /\ grants'[e] = grants[e]
      /\ commands'[e][p] = commands[e][p] + 1 /\ commands[e][p] = 0
      /\ \A q \in Calls : q # p => commands'[e][q] = commands[e][q]
      /\ \A d \in Executions : d # e => RowUnchanged(d)
  BY <1>2, <1>4 DEF IInv, TypeOK, RowUnchanged, CallerKnows, ResolverKnows, NoRun
<1>9. Knows(p)'
  BY <1>4, <1>5, <1>8 DEF Knows, CallerKnows, ResolverKnows, Decided
<1>10. Agrees(e)'
  <2>1. CASE p \in Callers /\ CallerKnows("run", e)
    <3>1. execution[e] # "ABSENT" /\ approval[e] = "ABSENT" /\ NoRun(e)
      BY <2>1 DEF CallerKnows
    <3> QED
      BY <1>8, <1>4, <3>1 DEF Agrees, NoRun, Decided
  <2>2. CASE p \in Resolvers /\ ResolverKnows(p, "run", e)
    <3>1. grants[e][p] > 0 /\ approval[e] # "ABSENT" /\ execution[e] # "ABSENT"
      BY <1>4, <2>2 DEF ResolverKnows, Agrees
    <3> QED
      BY <1>8, <1>4, <2>2, <3>1 DEF Agrees, NoRun, Decided
  <2> QED
    BY <1>4, <2>1, <2>2
<1>11. \A q \in Resolvers : q # p => Leaves(q, e)
  BY <1>8 DEF Leaves, Decided, Calls
<1> QED
  BY <1>3, <1>4, <1>5, <1>6, <1>7, <1>8, <1>9, <1>10, <1>11, RowStep

LEMMA FinishStep == ASSUME IInv, NEW p \in Calls, FinishExecution(p) PROVE IInv'
<1> USE DEF rows, history
<1>0. call[p].pc \in Working
  BY DEF FinishExecution, Working
<1> PICK e \in Executions : e = call[p].e
  BY <1>0, AtWork
<1> DEFINE outcome == call[p].outcome
<1>1. /\ call' = [call EXCEPT ![p].pc = "rest"]
      /\ call[p].pc = "finish"
      /\ execution' = [execution EXCEPT ![e] = outcome]
      /\ UNCHANGED <<session, docker, approval, expiry, crowd, grants, commands, faults>>
  BY DEF FinishExecution, To
<1>2. call[p].pc \in Working /\ "rest" \in Steps
  BY <1>1 DEF Working, Steps, RunSteps
<1>3. /\ e \in Executions /\ Agrees(e) /\ outcome \in {"SUCCEEDED", "FAILED"}
      /\ \/ p \in Callers /\ p \notin Resolvers /\ CallerKnows("finish", e)
         \/ p \in Resolvers /\ p \notin Callers /\ ResolverKnows(p, "finish", e)
  BY <1>1, <1>2, AtWork, CallFields DEF IInv
<1>4. /\ call' \in [Calls -> CallRow] /\ call'[p].pc = "rest" /\ call'[p].e = e
      /\ \A q \in Calls : q # p => call'[q] = call[q]
  BY <1>1, <1>2, Goes
<1>5. TypeOK'
  BY <1>1, <1>3, <1>4 DEF TypeOK, CallRow, Steps, IInv
<1>6. Role(p, "rest") /\ "rest" \notin Working
  BY <1>1, MayRun DEF RunSteps, IInv, Working
<1>7. /\ execution'[e] = outcome /\ approval'[e] = approval[e] /\ expiry' = expiry
      /\ crowd'[e] = crowd[e] /\ grants'[e] = grants[e] /\ commands'[e] = commands[e]
      /\ \A d \in Executions : d # e => RowUnchanged(d)
  BY <1>1, <1>3 DEF IInv, TypeOK, RowUnchanged
<1>8. Knows(p)'
  BY <1>4, <1>6 DEF Knows
<1> HIDE DEF outcome
<1>9. Agrees(e)'
  <2>1. CASE p \in Callers /\ CallerKnows("finish", e)
    <3>1. approval[e] = "ABSENT"
      BY <2>1 DEF CallerKnows
    <3> QED
      BY <1>7, <1>3, <3>1 DEF Agrees, NoRun, Decided
  <2>2. CASE p \in Resolvers /\ ResolverKnows(p, "finish", e)
    <3>1. grants[e][p] > 0 /\ approval[e] # "ABSENT"
      BY <2>2 DEF ResolverKnows
    <3> QED
      BY <1>7, <1>3, <2>2, <3>1 DEF Agrees, NoRun, Decided
  <2> QED
    BY <1>3, <2>1, <2>2
<1>10. \A q \in Resolvers : q # p => Leaves(q, e)
  BY <1>7 DEF Leaves, Decided
<1> QED
  BY <1>2, <1>3, <1>4, <1>5, <1>6, <1>7, <1>8, <1>9, <1>10, RowStep

LEMMA RunStep ==
  ASSUME IInv, NEW p \in Calls, RunAllowedExecution(p)
  PROVE  IInv'
BY AcquireStep, RecordLeaseStep, QuietRunStep, StartStep, CommandStep, FinishStep
   DEF RunAllowedExecution

-----------------------------------------------------------------------------
(* executeTool and resolveApproval.                                        *)

\* A request that begins: a caller about an execution no other is about.
LEMMA BeginStep ==
  ASSUME IInv, TypeOK', NEW p \in Calls, NEW e \in Executions,
         UNCHANGED <<execution, approval, expiry, crowd, grants, commands>>,
         \A q \in Calls : q # p => call'[q] = call[q],
         call'[p].e = e, Role(p, call'[p].pc), Knows(p)',
         p \in Callers => \A q \in Callers : call[q].e # e
  PROVE  IInv'
<1> USE DEF IInv
<1>1. Roles'
  BY DEF Roles
<1>2. CallsKnow'
  <2> SUFFICES ASSUME NEW q \in Calls, q # p PROVE Knows(q)'
    BY DEF CallsKnow
  <2>1. Knows(q) /\ call'[q] = call[q]
    BY DEF CallsKnow
  <2> QED
    BY <2>1 DEF Knows, CallerKnows, ResolverKnows, NoRun, Decided
<1>3. CallersExclude'
  <2> SUFFICES ASSUME NEW q \in Callers, NEW r \in Callers, q # r, call'[q].e # NoExecution
               PROVE  call'[r].e # call'[q].e
    BY DEF CallersExclude
  <2>1. q \in Calls /\ r \in Calls
    BY DEF Calls
  <2>2. CASE q = p
    BY <2>1, <2>2
  <2>3. CASE r = p
    BY <2>1, <2>3
  <2>4. CASE q # p /\ r # p
    BY <2>1, <2>4 DEF CallersExclude
  <2> QED
    BY <2>2, <2>3, <2>4
<1>4. RowsAgree'
  BY DEF RowsAgree, Agrees, NoRun, Decided
<1> QED
  BY <1>1, <1>2, <1>3, <1>4

LEMMA DecideStep ==
  ASSUME IInv, NEW p \in Calls, NEW e \in Executions, Decide(p, e)
  PROVE  IInv'
<1> USE DEF rows, history
<1>1. PICK pc \in {"deny", "ask", "lease"}, snap \in SessionRow :
        call' = [call EXCEPT ![p] = [pc |-> pc, e |-> e, outcome |-> "none", snap |-> snap]]
  <2>1. session \in SessionRow
    BY DEF IInv, TypeOK
  <2> QED
    BY <2>1, NoSessionIsRow DEF Decide, Begin
<1>2. /\ p \in Callers /\ execution[e] = "ABSENT" /\ \A q \in Callers : call[q].e # e
      /\ UNCHANGED <<session, docker, execution, approval, expiry, crowd, grants, commands, faults>>
  BY DEF Decide
<1>3. pc \in Steps /\ TypeOK
  BY DEF Steps, AskSteps, RunSteps, IInv
<1>4. /\ call' \in [Calls -> CallRow] /\ call'[p].pc = pc /\ call'[p].e = e
      /\ \A q \in Calls : q # p => call'[q] = call[q]
  <2>1. call' \in [Calls -> CallRow]
    BY <1>1, <1>3, CallUpdates
  <2>2. /\ call'[p].pc = pc /\ call'[p].e = e
        /\ \A q \in Calls : q # p => call'[q] = call[q]
    BY <1>1, <1>3, CallMoves
  <2> QED
    BY <2>1, <2>2
<1>5. TypeOK'
  BY <1>2, <1>3, <1>4 DEF TypeOK, CallRow, Steps
<1>6. Role(p, pc) /\ p \notin Resolvers
  BY <1>2 DEF Role, AskSteps, RunSteps
<1>7. Knows(p)'
  BY <1>2, <1>4, <1>6 DEF Knows, CallerKnows
<1> QED
  BY <1>2, <1>4, <1>5, <1>6, <1>7, BeginStep

LEMMA MayAsk ==
  ASSUME Roles, NEW p \in Calls, call[p].pc \in AskSteps
  PROVE  p \in Callers /\ p \notin Resolvers
BY DEF Roles, Role, CreateSteps, AskSteps, RunSteps, TerminateSteps

LEMMA BlockStep == ASSUME IInv, NEW p \in Calls, BlockExecution(p) PROVE IInv'
<1> USE DEF rows, history
<1>0. call[p].pc \in Working
  BY DEF BlockExecution, Working
<1> PICK e \in Executions : e = call[p].e
  BY <1>0, AtWork
<1> DEFINE pc == IF call[p].pc = "ask" THEN "request" ELSE "touch"
<1>1. /\ call' = [call EXCEPT ![p].pc = pc]
      /\ call[p].pc \in {"deny", "ask"}
      /\ execution' = [execution EXCEPT ![e] = "BLOCKED"]
      /\ UNCHANGED <<session, docker, approval, expiry, crowd, grants, commands, faults>>
  BY DEF BlockExecution, To
<1>2. p \in Callers /\ p \notin Resolvers /\ Agrees(e) /\ CallerKnows(call[p].pc, e)
  BY <1>0, <1>1, AtWork, MayAsk DEF IInv, AskSteps
<1>3. pc \in {"request", "touch"} /\ pc \in Steps
  BY DEF Steps, AskSteps
<1>4. Role(p, pc)
  BY <1>2, <1>3 DEF Role, AskSteps
<1> HIDE DEF pc
<1>5. /\ call' \in [Calls -> CallRow] /\ call'[p].pc = pc /\ call'[p].e = e
      /\ \A q \in Calls : q # p => call'[q] = call[q]
  BY <1>1, <1>3, Goes
<1>6. TypeOK'
  BY <1>1, <1>5 DEF TypeOK, CallRow, Steps, IInv
<1>7. /\ execution'[e] = "BLOCKED" /\ approval'[e] = approval[e] /\ expiry' = expiry
      /\ crowd'[e] = crowd[e] /\ grants'[e] = grants[e] /\ commands'[e] = commands[e]
      /\ \A d \in Executions : d # e => RowUnchanged(d)
  BY <1>1 DEF IInv, TypeOK, RowUnchanged
<1>8. approval[e] = "ABSENT" /\ NoRun(e)
  BY <1>1, <1>2 DEF CallerKnows, Agrees
<1>9. Knows(p)'
  BY <1>2, <1>3, <1>5, <1>7, <1>8 DEF Knows, CallerKnows, Working, NoRun
<1>10. Agrees(e)'
  BY <1>2, <1>7, <1>8 DEF Agrees, NoRun, Decided
<1>11. \A q \in Resolvers : q # p => Leaves(q, e)
  BY <1>7 DEF Leaves, Decided
<1> QED
  BY <1>0, <1>1, <1>4, <1>5, <1>6, <1>7, <1>9, <1>10, <1>11, RowStep

LEMMA RequestStep == ASSUME IInv, NEW p \in Calls, RequestApproval(p) PROVE IInv'
<1> USE DEF rows, history
<1>0. call[p].pc \in Working
  BY DEF RequestApproval, Working
<1> PICK e \in Executions : e = call[p].e
  BY <1>0, AtWork
<1>1. /\ call' = [call EXCEPT ![p].pc = "touch"]
      /\ call[p].pc = "request"
      /\ approval' = [approval EXCEPT ![e] = "PENDING"]
      /\ UNCHANGED <<session, docker, execution, expiry, crowd, grants, commands, faults>>
  BY DEF RequestApproval, To
<1>2. p \in Callers /\ p \notin Resolvers /\ Agrees(e) /\ CallerKnows("request", e)
  BY <1>0, <1>1, AtWork, MayAsk DEF IInv, AskSteps
<1>3. "touch" \in Steps /\ "touch" \notin Working /\ Role(p, "touch")
  BY <1>2 DEF Steps, AskSteps, Working, Role
<1>4. /\ call' \in [Calls -> CallRow] /\ call'[p].pc = "touch" /\ call'[p].e = e
      /\ \A q \in Calls : q # p => call'[q] = call[q]
  BY <1>1, <1>3, Goes
<1>5. TypeOK'
  BY <1>1, <1>4 DEF TypeOK, CallRow, Steps, IInv
<1>6. /\ execution'[e] = execution[e] /\ approval'[e] = "PENDING" /\ expiry' = expiry
      /\ crowd'[e] = crowd[e] /\ grants'[e] = grants[e] /\ commands'[e] = commands[e]
      /\ \A d \in Executions : d # e => RowUnchanged(d)
  BY <1>1 DEF IInv, TypeOK, RowUnchanged
<1>7. Knows(p)'
  BY <1>3, <1>4 DEF Knows
<1>8. approval[e] = "ABSENT" /\ NoRun(e) /\ execution[e] = "BLOCKED"
  BY <1>2 DEF CallerKnows
<1>9. Agrees(e)'
  BY <1>2, <1>6, <1>8 DEF Agrees, NoRun, Decided
<1>10. \A q \in Resolvers : q # p => Leaves(q, e)
  BY <1>6, <1>8 DEF Leaves, Decided
<1> QED
  BY <1>0, <1>1, <1>3, <1>4, <1>5, <1>6, <1>7, <1>9, <1>10, RowStep

LEMMA TouchStep == ASSUME IInv, NEW p \in Calls, TouchSessionIdle(p) PROVE IInv'
<1> USE DEF IInv, rows, history
<1>1. /\ call' = [call EXCEPT ![p] = NoCall]
      /\ session' = [session EXCEPT !.status = "IDLE"]
      /\ UNCHANGED <<docker, execution, approval, expiry, crowd, grants, commands, faults>>
  BY DEF TouchSessionIdle, Return, SetSession
<1>2. /\ call' \in [Calls -> CallRow] /\ call'[p].pc = "idle" /\ call'[p].e = NoExecution
      /\ \A q \in Calls : q # p => call'[q] = call[q]
  <2>1. "idle" \in Steps
    BY DEF Steps
  <2> QED
    BY <1>1, <2>1, NoSessionIsRow, CallUpdates, CallMoves
<1>3. TypeOK'
  BY <1>1, <1>2 DEF TypeOK, CallRow, Steps, SessionRow, SessionStatus
<1>4. Role(p, "idle") /\ "idle" \notin Working
  BY DEF Role, Working
<1> QED
  BY <1>1, <1>2, <1>3, <1>4, LetGo

LEMMA ResolveApprovalStep ==
  ASSUME IInv, NEW p \in Calls, NEW e \in Executions, ResolveApproval(p, e)
  PROVE  IInv'
<1> USE DEF rows, history
<1>1. PICK pc \in {"context", "reject"} :
        call' = [call EXCEPT ![p] = [pc |-> pc, e |-> e, outcome |-> "none", snap |-> NoSession]]
  BY DEF ResolveApproval, Begin
<1>2. /\ p \in Resolvers /\ p \notin Callers /\ approval[e] = "PENDING"
      /\ UNCHANGED <<session, docker, execution, approval, expiry, crowd, grants, commands, faults>>
  BY DEF ResolveApproval
<1>3. pc \in Steps /\ TypeOK /\ Agrees(e)
  BY DEF Steps, ResolveSteps, IInv, RowsAgree
<1>4. /\ call' \in [Calls -> CallRow] /\ call'[p].pc = pc /\ call'[p].e = e
      /\ \A q \in Calls : q # p => call'[q] = call[q]
  <2>1. call' \in [Calls -> CallRow]
    BY <1>1, <1>3, NoSessionIsRow, CallUpdates
  <2>2. /\ call'[p].pc = pc /\ call'[p].e = e
        /\ \A q \in Calls : q # p => call'[q] = call[q]
    BY <1>1, <1>3, CallMoves
  <2> QED
    BY <2>1, <2>2
<1>5. TypeOK'
  BY <1>2, <1>3, <1>4 DEF TypeOK, CallRow, Steps
<1>6. Role(p, pc)
  BY <1>2 DEF Role
<1>7. Knows(p)'
  BY <1>2, <1>3, <1>4 DEF Knows, ResolverKnows, Agrees, Decided
<1> QED
  BY <1>2, <1>4, <1>5, <1>6, <1>7, BeginStep

LEMMA MayResolve ==
  ASSUME Roles, NEW p \in Calls, call[p].pc \in {"context", "approve", "reject"}
  PROVE  p \in Resolvers /\ p \notin Callers
BY DEF Roles, Role, CreateSteps, AskSteps, RunSteps, TerminateSteps

LEMMA LoadContextStep == ASSUME IInv, NEW p \in Calls, LoadContext(p) PROVE IInv'
<1> USE DEF IInv, rows, history
<1>1. /\ call[p].pc = "context"
      /\ UNCHANGED <<session, docker, execution, approval, expiry, crowd, grants, commands, faults>>
  BY DEF LoadContext
<1>2. CASE call' = [call EXCEPT ![p] = NoCall]
  <2>1. /\ call' \in [Calls -> CallRow] /\ call'[p].pc = "idle" /\ call'[p].e = NoExecution
        /\ \A q \in Calls : q # p => call'[q] = call[q]
    <3>1. "idle" \in Steps
      BY DEF Steps
    <3> QED
      BY <1>2, <3>1, NoSessionIsRow, CallUpdates, CallMoves
  <2>2. TypeOK'
    BY <1>1, <2>1 DEF TypeOK, CallRow, Steps
  <2>3. Role(p, "idle") /\ "idle" \notin Working
    BY DEF Role, Working
  <2> QED
    BY <1>1, <2>1, <2>2, <2>3, LetGo
<1>3. CASE call' = [call EXCEPT ![p].pc = "approve", ![p].snap = session]
  <2>1. "approve" \in Steps /\ session \in SessionRow
    BY DEF Steps, ResolveSteps, TypeOK
  <2>2. /\ call' \in [Calls -> CallRow] /\ call'[p].pc = "approve" /\ call'[p].e = call[p].e
        /\ \A q \in Calls : q # p => call'[q] = call[q]
    BY <1>3, <2>1, CallUpdates, CallMoves, ZenonT(60)
  <2>3. TypeOK'
    BY <1>1, <2>2 DEF TypeOK, CallRow, Steps
  <2>4. p \in Resolvers /\ p \notin Callers /\ Knows(p)
    BY <1>1, MayResolve DEF CallsKnow
  <2>5. Role(p, "approve")
    BY <2>4 DEF Role
  <2>6. Knows(p)'
    <3>1. call[p].e \in Executions /\ ResolverKnows(p, "context", call[p].e)
      BY <1>1, <2>4 DEF Knows, Working
    <3>2. ResolverKnows(p, "approve", call[p].e)'
      BY <1>1, <2>2, <3>1 DEF ResolverKnows, Decided
    <3> QED
      BY <2>2, <2>4, <3>1, <3>2 DEF Knows
  <2> QED
    BY <1>1, <2>2, <2>3, <2>5, <2>6, QuietStep
<1> QED
  BY <1>2, <1>3 DEF LoadContext, Return

LEMMA RejectStep == ASSUME IInv, NEW p \in Calls, Reject(p) PROVE IInv'
<1> USE DEF rows, history
<1>0. call[p].pc \in Working
  BY DEF Reject, Working
<1> PICK e \in Executions : e = call[p].e
  BY <1>0, AtWork
<1>1. /\ call' = [call EXCEPT ![p] = NoCall]
      /\ call[p].pc = "reject"
      /\ approval' = [approval EXCEPT ![e] = "REJECTED"]
      /\ execution' = [execution EXCEPT ![e] = "CANCELED"]
      /\ session' = [session EXCEPT !.status = "IDLE"]
      /\ RecordCrowd(e)
      /\ UNCHANGED <<docker, expiry, grants, commands, faults>>
  BY DEF Reject, Return, SetSession
<1>2. p \in Resolvers /\ p \notin Callers /\ Agrees(e) /\ ResolverKnows(p, "reject", e)
  BY <1>0, <1>1, AtWork, MayResolve DEF IInv
<1>3. /\ call' \in [Calls -> CallRow] /\ call'[p].pc = "idle" /\ call'[p].e = NoExecution
      /\ \A q \in Calls : q # p => call'[q] = call[q]
  <2>1. "idle" \in Steps /\ TypeOK
    BY DEF Steps, IInv
  <2> QED
    BY <1>1, <2>1, NoSessionIsRow, CallUpdates, CallMoves
<1>4. TypeOK'
  BY <1>1, <1>3, Recorded DEF TypeOK, CallRow, Steps, IInv, SessionRow, SessionStatus
<1>5. Role(p, "idle") /\ "idle" \notin Working
  BY DEF Role, Working
<1>6. /\ execution'[e] = "CANCELED" /\ approval'[e] = "REJECTED" /\ expiry' = expiry
      /\ grants'[e] = grants[e] /\ commands'[e] = commands[e]
      /\ crowd'[e] = IF Decided(e) THEN crowd[e] ELSE Holders(e)
      /\ \A d \in Executions : d # e => RowUnchanged(d)
  <2>1. TypeOK
    BY DEF IInv
  <2> QED
    BY <1>1, <2>1, Recorded DEF TypeOK, RowUnchanged
<1>7. Knows(p)'
  BY <1>3, <1>5 DEF Knows
<1>8. approval[e] # "ABSENT" /\ ~(~Decided(e) /\ \E q \in Resolvers : grants[e][q] > 0)
  BY <1>2 DEF Agrees, ResolverKnows
<1>9. Agrees(e)'
  BY <1>2, <1>6, <1>8 DEF Agrees, NoRun, Decided
<1>10. \A q \in Resolvers : q # p => Leaves(q, e)
  BY <1>6 DEF Leaves, Decided
<1> QED
  BY <1>0, <1>3, <1>4, <1>5, <1>6, <1>7, <1>9, <1>10, RowStep

LEMMA ApproveStep == ASSUME IInv, NEW p \in Calls, Approve(p) PROVE IInv'
<1> USE DEF rows, history
<1>0. call[p].pc \in Working
  BY DEF Approve, Working
<1> PICK e \in Executions : e = call[p].e
  BY <1>0, AtWork
<1>1. /\ call' = [call EXCEPT ![p].pc = "lease"]
      /\ call[p].pc = "approve"
      /\ approval' = [approval EXCEPT ![e] = "APPROVED"]
      /\ RecordCrowd(e) /\ grants' = [grants EXCEPT ![e][p] = @ + 1]
      /\ UNCHANGED <<session, docker, execution, expiry, commands, faults>>
  BY DEF Approve, To
<1>2. p \in Resolvers /\ p \notin Callers /\ Agrees(e) /\ ResolverKnows(p, "approve", e)
  BY <1>0, <1>1, AtWork, MayResolve DEF IInv
<1>3. "lease" \in Steps /\ Role(p, "lease")
  BY <1>2 DEF Steps, RunSteps, Role
<1>4. /\ call' \in [Calls -> CallRow] /\ call'[p].pc = "lease" /\ call'[p].e = e
      /\ \A q \in Calls : q # p => call'[q] = call[q]
  BY <1>1, <1>3, Goes
<1>5. TypeOK'
  <2>1. TypeOK
    BY DEF IInv
  <2>2. grants' \in [Executions -> [Resolvers -> Nat]]
    <3>1. grants \in [Executions -> [Resolvers -> Nat]] /\ grants[e] \in [Resolvers -> Nat]
      BY <2>1 DEF TypeOK
    <3>2. grants' = [grants EXCEPT ![e] = [grants[e] EXCEPT ![p] = grants[e][p] + 1]]
      BY <1>1
    <3>3. [grants[e] EXCEPT ![p] = grants[e][p] + 1] \in [Resolvers -> Nat]
      BY <1>2, <3>1
    <3> QED
      BY <3>1, <3>2, <3>3
  <2>3. crowd' \in [Executions -> SUBSET Resolvers]
    BY <1>1, <2>1, Recorded
  <2> QED
    BY <1>1, <1>4, <2>1, <2>2, <2>3 DEF TypeOK, CallRow, Steps
<1>6. /\ execution'[e] = execution[e] /\ approval'[e] = "APPROVED" /\ expiry' = expiry
      /\ grants'[e][p] = grants[e][p] + 1 /\ grants[e][p] = 0 /\ commands'[e] = commands[e]
      /\ \A q \in Resolvers : q # p => grants'[e][q] = grants[e][q]
      /\ crowd'[e] = IF Decided(e) THEN crowd[e] ELSE Holders(e)
      /\ \A d \in Executions : d # e => RowUnchanged(d)
  <2>1. TypeOK /\ grants[e][p] = 0
    BY <1>2 DEF IInv, ResolverKnows
  <2> QED
    BY <1>1, <1>2, <2>1, Recorded DEF TypeOK, RowUnchanged
<1>7. p \in crowd'[e] /\ approval[e] # "ABSENT"
  BY <1>1, <1>2, <1>6 DEF ResolverKnows, Holders, ResolveSteps
<1>8. commands[e][p] = 0
  <2>1. commands[e][p] \in Nat
    BY DEF IInv, TypeOK
  <2> QED
    BY <1>2, <1>6, <1>7, <2>1 DEF Agrees
<1>9. Knows(p)'
  BY <1>2, <1>4, <1>6, <1>7, <1>8 DEF Knows, ResolverKnows, Decided
<1>10. Agrees(e)'
  <2>1. \A q \in Resolvers : grants'[e][q] > 0 => q \in crowd'[e]
    <3> SUFFICES ASSUME NEW q \in Resolvers, q # p, grants[e][q] > 0 PROVE q \in crowd'[e]
      BY <1>6, <1>7
    <3>1. Decided(e) /\ q \in crowd[e]
      BY <1>2 DEF Agrees
    <3> QED
      BY <1>6, <3>1
  <2>2. \A q \in Calls : commands'[e][q] > 0 => q \in Resolvers /\ grants'[e][q] > 0
    BY <1>2, <1>6, <1>7 DEF Agrees
  <2>3. execution[e] # "ABSENT"
    BY <1>2, <1>7 DEF Agrees
  <2> QED
    BY <1>2, <1>6, <2>1, <2>2, <2>3 DEF Agrees, Decided
<1>11. \A q \in Resolvers : q # p => Leaves(q, e)
  BY <1>6 DEF Leaves, Decided
<1> QED
  BY <1>0, <1>3, <1>4, <1>5, <1>6, <1>9, <1>10, <1>11, RowStep

-----------------------------------------------------------------------------
(* The expiration.                                                         *)

LEMMA ReadStep == ASSUME IInv, NEW e \in Executions, ReadForExpiry(e) PROVE IInv'
<1> USE DEF IInv, rows, history
<1>1. /\ expiry' = expiry \cup {e} /\ approval[e] = "PENDING"
      /\ UNCHANGED <<session, docker, execution, approval, call, crowd, grants, commands, faults>>
  BY DEF ReadForExpiry
<1>2. TypeOK'
  BY <1>1 DEF TypeOK
<1>3. Roles' /\ CallersExclude'
  BY <1>1 DEF Roles, CallersExclude
<1>4. CallsKnow'
  BY <1>1 DEF CallsKnow, Knows, CallerKnows, ResolverKnows, NoRun, Decided
<1>5. RowsAgree'
  BY <1>1 DEF RowsAgree, Agrees, NoRun, Decided
<1> QED
  BY <1>2, <1>3, <1>4, <1>5

\* Of an execution whose expiration is on its way the owner was asked: the
\* caller is done with it, and a resolver knows nothing of its status.
LEMMA ExpireStep == ASSUME IInv, NEW e \in Executions, Expire(e) PROVE IInv'
<1> USE DEF IInv, rows, history
<1>1. /\ e \in expiry /\ expiry' = expiry \ {e}
      /\ approval' = [approval EXCEPT ![e] = "EXPIRED"]
      /\ execution' = [execution EXCEPT ![e] = IF execution[e] = "BLOCKED" THEN "CANCELED"
                                               ELSE execution[e]]
      /\ RecordCrowd(e)
      /\ UNCHANGED <<session, docker, call, grants, commands, faults>>
  BY DEF Expire, ExpiredExecution
<1>2. TypeOK'
  BY <1>1, Recorded DEF TypeOK
<1>3. Roles' /\ CallersExclude'
  BY <1>1 DEF Roles, CallersExclude
<1>4. /\ approval'[e] = "EXPIRED" /\ approval[e] # "ABSENT" /\ execution[e] # "ABSENT"
      /\ \/ execution'[e] = execution[e]
         \/ execution[e] = "BLOCKED" /\ execution'[e] = "CANCELED"
      /\ crowd'[e] = IF Decided(e) THEN crowd[e] ELSE Holders(e)
      /\ \A d \in Executions : d # e => RowUnchanged(d)
  BY <1>1, Recorded DEF TypeOK, RowUnchanged, RowsAgree, Agrees
<1>5. CallsKnow'
  <2> SUFFICES ASSUME NEW q \in Calls PROVE Knows(q)'
    BY DEF CallsKnow
  <2>1. Knows(q) /\ call'[q] = call[q]
    BY <1>1 DEF CallsKnow
  <2>2. CASE call[q].pc \in Working /\ call[q].e = e
    <3>1. CASE q \in Callers /\ q \notin Resolvers
      BY <1>4, <2>1, <2>2, <3>1 DEF Knows, CallerKnows, NoRun
    <3>2. CASE q \in Resolvers /\ q \notin Callers
      <4>1. Leaves(q, e)
        BY <1>1, <1>4 DEF Leaves, Decided
      <4> QED
        BY <2>1, <2>2, <3>2, <4>1, KnowsOfShared
    <3> QED
      BY <2>1, <2>2, <3>1, <3>2, AtWork
  <2>3. CASE call[q].pc \in Working => call[q].e # e
    <3>1. call[q].pc \in Working => RowUnchanged(call[q].e)
      BY <1>4, <2>1, <2>3 DEF Knows
    <3> QED
      BY <2>1, <3>1, KnowsElsewhere
  <2> QED
    BY <2>2, <2>3
<1>6. RowsAgree'
  <2> SUFFICES ASSUME NEW d \in Executions PROVE Agrees(d)'
    BY DEF RowsAgree
  <2>1. Agrees(d)
    BY DEF RowsAgree
  <2>2. CASE d = e
    <3>1. \A r \in Resolvers : grants'[e][r] > 0 => r \in crowd'[e]
      BY <1>1, <1>4, <2>1, <2>2 DEF Agrees
    <3> QED
      BY <1>1, <1>4, <2>1, <2>2, <3>1 DEF Agrees, NoRun, Decided
  <2>3. CASE d # e
    BY <1>1, <1>4, <2>1, <2>3 DEF Agrees, RowUnchanged, NoRun, Decided
  <2> QED
    BY <2>2, <2>3
<1> QED
  BY <1>2, <1>3, <1>5, <1>6

-----------------------------------------------------------------------------
(* The invariant, and what follows from it.                                *)

LEMMA NextIInv == IInv /\ [Next]_vars => IInv'
<1> SUFFICES ASSUME IInv, [Next]_vars PROVE IInv'
  OBVIOUS
<1>1. CASE UNCHANGED vars
  <2>1. TypeOK' /\ Roles' /\ CallersExclude'
    BY <1>1 DEF vars, IInv, TypeOK, Roles, CallersExclude
  <2>2. CallsKnow' /\ RowsAgree'
    BY <1>1 DEF vars, IInv, CallsKnow, Knows, CallerKnows, ResolverKnows, RowsAgree, Agrees, NoRun,
                Decided
  <2> QED
    BY <2>1, <2>2 DEF IInv
<1>2. ASSUME NEW p \in Calls, ExecuteTool(p) PROVE IInv'
  BY <1>2, DecideStep, BlockStep, RequestStep, TouchStep DEF ExecuteTool
<1>3. ASSUME NEW p \in Calls, Resolve(p) PROVE IInv'
  BY <1>3, ResolveApprovalStep, RejectStep, LoadContextStep, ApproveStep DEF Resolve
<1>4. ASSUME NEW p \in Calls, Create(p) \/ RunAllowedExecution(p) \/ TerminateComputeSession(p)
                                \/ CallDies(p)
      PROVE  IInv'
  BY <1>4, CreateStep, RunStep, TerminateStep, DiesStep
<1>5. ASSUME NEW e \in Executions, ReadForExpiry(e) \/ Expire(e) PROVE IInv'
  BY <1>5, ReadStep, ExpireStep
<1> QED
  BY <1>1, <1>2, <1>3, <1>4, <1>5 DEF Next

LEMMA InvariantHolds == Spec => []IInv
<1>1. IInv /\ [Next]_vars => IInv'
  BY NextIInv
<1> QED
  BY <1>1, InitIInv, PTL DEF Spec

\* The rows of the session and of the executions, and every request's copy of
\* them, keep their types.
THEOREM TypeCorrect == Spec => []TypeOK
<1>1. IInv => TypeOK
  BY DEF IInv
<1> QED
  BY <1>1, InvariantHolds, PTL

\* What was put before the owner is run only by a request that committed an
\* approval of it, however many resolve it at once and however expirations,
\* terminations and faults fall between their statements.
THEOREM ApprovalComesFirst == Spec => []NothingRunsUnapproved
<1>1. IInv => NothingRunsUnapproved
  <2> SUFFICES ASSUME IInv, NEW e \in Executions, approval[e] # "ABSENT"
               PROVE  /\ \A p \in Calls : commands[e][p] > 0 =>
                            p \in Resolvers /\ commands[e][p] <= grants[e][p]
                      /\ execution[e] \in {"RUNNING", "SUCCEEDED", "FAILED"} =>
                           \E p \in Resolvers : grants[e][p] > 0
    BY DEF NothingRunsUnapproved
  <2>1. /\ Agrees(e)
        /\ \A p \in Resolvers : grants[e][p] \in Nat
        /\ \A p \in Calls : commands[e][p] \in Nat
    BY DEF IInv, RowsAgree, TypeOK
  <2> QED
    BY <2>1 DEF Agrees
<1> QED
  BY <1>1, InvariantHolds, PTL

\* However many requests resolve an approval at once, each of those that found
\* it PENDING before it was decided runs the command at most once, and nobody
\* else does.
THEOREM RunsOnce == Spec => []RunsOnceForEachHolder
<1>1. IInv => RunsOnceForEachHolder
  <2> SUFFICES ASSUME IInv, NEW e \in Executions
               PROVE  /\ \A p \in Calls : commands[e][p] <= 1
                      /\ IF approval[e] = "ABSENT"
                         THEN \A p, q \in Calls :
                                commands[e][p] > 0 /\ commands[e][q] > 0 => p = q
                         ELSE \A p \in Calls : commands[e][p] > 0 => p \in crowd[e]
    BY DEF RunsOnceForEachHolder
  <2>1. Agrees(e)
    BY DEF IInv, RowsAgree
  <2> QED
    BY <2>1 DEF Agrees
<1> QED
  BY <1>1, InvariantHolds, PTL

-----------------------------------------------------------------------------
(* Whoever approves starts what was approved, unless the request dies.      *)

ToStart(p, e) == call[p].pc \in {"lease", "leased", "start"} /\ call[p].e = e

\* The owner is asked exactly about what is blocked, but for an approved
\* execution that its resolver has not started yet.
Owed(e) ==
  /\ approval[e] = "PENDING" => execution[e] = "BLOCKED"
  /\ faults = 0 /\ approval[e] \notin {"ABSENT", "PENDING"} /\ execution[e] = "BLOCKED"
       => \E p \in Resolvers : ToStart(p, e)

RowsOwe == \A e \in Executions : Owed(e)

\* A step that writes no row, after which who has something to start still has.
LEMMA OwedAsBefore ==
  ASSUME RowsOwe, UNCHANGED <<execution, approval>>, faults' = 0 => faults = 0,
         faults' = 0 => \A e \in Executions, q \in Resolvers : ToStart(q, e) => ToStart(q, e)'
  PROVE  RowsOwe'
<1> SUFFICES ASSUME NEW e \in Executions PROVE Owed(e)'
  BY DEF RowsOwe
<1>1. Owed(e)
  BY DEF RowsOwe
<1> QED
  BY <1>1 DEF Owed

\* One that writes the rows of one execution.
LEMMA OwedOfOne ==
  ASSUME RowsOwe, NEW e \in Executions, Owed(e)', faults' = faults,
         \A d \in Executions : d # e => RowUnchanged(d),
         \A d \in Executions, q \in Resolvers : d # e /\ ToStart(q, d) => ToStart(q, d)'
  PROVE  RowsOwe'
<1> SUFFICES ASSUME NEW d \in Executions, d # e PROVE Owed(d)'
  BY DEF RowsOwe
<1>1. Owed(d)
  BY DEF RowsOwe
<1> QED
  BY <1>1 DEF Owed, RowUnchanged

\* A request that had nothing to start, or goes on to start it.
LEMMA StillToStart ==
  ASSUME NEW p \in Calls, \A q \in Calls : q # p => call'[q] = call[q],
         \/ call[p].pc \notin {"lease", "leased", "start"}
         \/ call'[p].pc \in {"lease", "leased", "start"} /\ call'[p].e = call[p].e
  PROVE  \A e \in Executions, q \in Calls : ToStart(q, e) => ToStart(q, e)'
BY DEF ToStart

LEMMA DiesOwed ==
  ASSUME IInv, RowsOwe, NEW p \in Calls, CallDies(p) \/ CreationThrows(p)
  PROVE  RowsOwe'
<1>1. UNCHANGED <<execution, approval>> /\ faults' = faults + 1 /\ faults \in Nat
  BY DEF CallDies, CreationThrows, Fault, rows, IInv, TypeOK
<1>2. faults' # 0
  BY <1>1
<1> QED
  BY <1>1, <1>2, OwedAsBefore

\* The steps of requests that have nothing to start before them.
LEMMA OtherOwed ==
  ASSUME IInv, RowsOwe, NEW p \in Calls,
         \/ CreateSession(p) \/ SessionCreated(p) \/ MarkCreationFailed(p)
         \/ (\E e \in Executions : Decide(p, e) \/ ResolveApproval(p, e))
         \/ TouchSessionIdle(p) \/ MarkSessionRunning(p) \/ RunCommand(p) \/ RestSession(p)
         \/ LoadContext(p) \/ TerminateComputeSession(p)
  PROVE  RowsOwe'
<1> USE DEF rows, history
<1>1. call \in [Calls -> CallRow]
  BY CallsTyped DEF IInv
<1>2. /\ UNCHANGED <<execution, approval, faults>>
      /\ call[p].pc \notin {"lease", "leased", "start"}
  BY DEF CreateSession, SessionCreated, MarkCreationFailed, Decide, ResolveApproval,
         TouchSessionIdle, MarkSessionRunning, RunCommand, RestSession, LoadContext,
         TerminateComputeSession, Terminate, MarkStopping, RemoveContainer, RecordRelease,
         EndSession
<1>3. \A q \in Calls : q # p => call'[q] = call[q]
  <2>1. CASE \/ CreateSession(p) \/ SessionCreated(p) \/ MarkCreationFailed(p)
             \/ (\E e \in Executions : Decide(p, e) \/ ResolveApproval(p, e))
    BY <1>1, <2>1 DEF CreateSession, SessionCreated, MarkCreationFailed, Decide, ResolveApproval,
         Begin, Return
  <2>2. CASE \/ TouchSessionIdle(p) \/ MarkSessionRunning(p) \/ RunCommand(p) \/ RestSession(p)
             \/ LoadContext(p)
    BY <1>1, <2>2 DEF TouchSessionIdle, MarkSessionRunning, RunCommand, RestSession, LoadContext,
         To, Return
  <2>3. CASE TerminateComputeSession(p)
    BY <1>1, <2>3 DEF TerminateComputeSession, Terminate, MarkStopping, RemoveContainer,
         RecordRelease, EndSession, To, Return, Begin, Keeping
  <2> QED
    BY <2>1, <2>2, <2>3
<1>4. \A e \in Executions, q \in Calls : ToStart(q, e) => ToStart(q, e)'
  BY <1>2, <1>3, StillToStart
<1>5. \A e \in Executions, q \in Resolvers : ToStart(q, e) => ToStart(q, e)'
  BY <1>4 DEF Calls
<1> QED
  BY <1>2, <1>5, OwedAsBefore

\* The lease on the way to the start.
LEMMA LeaseOwed ==
  ASSUME IInv, RowsOwe, NEW p \in Calls, AcquireContainer(p) \/ RecordLease(p) \/ ReuseLease(p)
  PROVE  RowsOwe'
<1> USE DEF rows, history
<1>1. call \in [Calls -> CallRow]
  BY CallsTyped DEF IInv
<1>2. UNCHANGED <<execution, approval, faults>>
  BY DEF AcquireContainer, RecordLease, ReuseLease
<1>3. /\ \A q \in Calls : q # p => call'[q] = call[q]
      /\ \/ call[p].pc \notin {"lease", "leased", "start"}
         \/ call'[p].pc \in {"lease", "leased", "start"} /\ call'[p].e = call[p].e
  <2>1. CASE AcquireContainer(p)
    BY <1>1, <2>1, ZenonT(60) DEF AcquireContainer, Keeping, CallRow
  <2>2. CASE RecordLease(p)
    BY <1>1, <2>2 DEF RecordLease, Leased, To, CallRow
  <2>3. CASE ReuseLease(p)
    BY <1>1, <2>3 DEF ReuseLease, Leased, CallRow
  <2> QED
    BY <2>1, <2>2, <2>3
<1>4. \A e \in Executions, q \in Calls : ToStart(q, e) => ToStart(q, e)'
  BY <1>3, StillToStart
<1>5. \A e \in Executions, q \in Resolvers : ToStart(q, e) => ToStart(q, e)'
  BY <1>4 DEF Calls
<1> QED
  BY <1>2, <1>5, OwedAsBefore

\* The statements that write a request's execution or its approval.
LEMMA WriteOwed ==
  ASSUME IInv, RowsOwe, NEW p \in Calls,
         \/ BlockExecution(p) \/ RequestApproval(p) \/ StartExecution(p) \/ FinishExecution(p)
         \/ Reject(p) \/ Approve(p)
  PROVE  RowsOwe'
<1> USE DEF rows, history
<1>1. call[p].pc \in Working
  BY DEF BlockExecution, RequestApproval, StartExecution, FinishExecution, Reject, Approve, Working
<1> PICK e \in Executions : e = call[p].e
  BY <1>1, AtWork
<1>2. /\ Owed(e) /\ Agrees(e) /\ TypeOK /\ call \in [Calls -> CallRow]
      /\ \/ p \in Callers /\ p \notin Resolvers /\ CallerKnows(call[p].pc, e)
         \/ p \in Resolvers /\ p \notin Callers /\ ResolverKnows(p, call[p].pc, e)
      /\ call[p].pc = "finish" => call[p].outcome \in {"SUCCEEDED", "FAILED"}
  BY <1>1, AtWork, CallFields, CallsTyped DEF RowsOwe, IInv
<1>3. /\ faults' = faults /\ \A q \in Calls : q # p => call'[q] = call[q]
      /\ \A d \in Executions : d # e => RowUnchanged(d)
  <2>1. CASE \/ BlockExecution(p) \/ RequestApproval(p)
             \/ StartExecution(p) \/ FinishExecution(p)
    BY <1>2, <2>1 DEF BlockExecution, RequestApproval, StartExecution, FinishExecution, To,
                      RowUnchanged, TypeOK
  <2>2. CASE Reject(p) \/ Approve(p)
    <3>1. RecordCrowd(e)
      BY <2>2 DEF Reject, Approve
    <3>2. \A d \in Executions : d # e => crowd'[d] = crowd[d]
      BY <1>2, <3>1, Recorded
    <3> QED
      BY <1>2, <2>2, <3>2 DEF Reject, Approve, To, Return, RowUnchanged, TypeOK
  <2> QED
    BY <2>1, <2>2
<1>4. \A d \in Executions, q \in Resolvers : d # e /\ ToStart(q, d) => ToStart(q, d)'
  BY <1>3 DEF ToStart, Calls
<1>5. Owed(e)'
  <2>1. CASE BlockExecution(p)
    <3>1. call[p].pc \in {"deny", "ask"} /\ approval' = approval
      BY <2>1 DEF BlockExecution
    <3>2. approval[e] = "ABSENT"
      BY <1>1, <1>2, <3>1, MayAsk DEF CallerKnows, Agrees, IInv, AskSteps
    <3> QED
      BY <3>1, <3>2 DEF Owed
  <2>2. CASE RequestApproval(p)
    <3>1. /\ call[p].pc = "request" /\ approval' = [approval EXCEPT ![e] = "PENDING"]
          /\ execution' = execution
      BY <2>2 DEF RequestApproval
    <3>2. execution[e] = "BLOCKED"
      BY <1>2, <3>1, MayAsk DEF CallerKnows, IInv, AskSteps
    <3>3. approval'[e] = "PENDING"
      BY <1>2, <3>1 DEF TypeOK
    <3> QED
      BY <3>1, <3>2, <3>3 DEF Owed
  <2>3. CASE StartExecution(p) \/ FinishExecution(p)
    <3>1. call[p].pc \in {"start", "finish"} /\ approval' = approval
      BY <2>3 DEF StartExecution, FinishExecution
    <3>2. execution'[e] \in {"RUNNING", "SUCCEEDED", "FAILED"}
      BY <1>2, <2>3 DEF StartExecution, FinishExecution, TypeOK
    <3>3. approval[e] # "PENDING"
      BY <1>2, <3>1 DEF CallerKnows, ResolverKnows, Agrees, Decided
    <3> QED
      BY <3>1, <3>2, <3>3 DEF Owed
  <2>4. CASE Reject(p)
    <3>1. execution'[e] = "CANCELED" /\ approval'[e] = "REJECTED"
      BY <1>2, <2>4 DEF Reject, TypeOK
    <3> QED
      BY <3>1 DEF Owed
  <2>5. CASE Approve(p)
    <3>1. approval'[e] = "APPROVED" /\ call[p].pc = "approve"
          /\ call'[p].pc = "lease" /\ call'[p].e = e
      BY <1>2, <2>5 DEF Approve, TypeOK, To, CallRow
    <3>2. p \in Resolvers
      BY <3>1, MayResolve DEF IInv
    <3>3. ToStart(p, e)'
      BY <3>1 DEF ToStart
    <3> QED
      BY <3>1, <3>2, <3>3 DEF Owed
  <2> QED
    BY <2>1, <2>2, <2>3, <2>4, <2>5
<1> QED
  BY <1>3, <1>4, <1>5, OwedOfOne

LEMMA ExpiryOwed ==
  ASSUME IInv, RowsOwe, NEW e \in Executions, ReadForExpiry(e) \/ Expire(e)
  PROVE  RowsOwe'
<1> USE DEF rows, history
<1>1. faults' = faults /\ call' = call
  BY DEF ReadForExpiry, Expire
<1>2. CASE ReadForExpiry(e)
  <2>1. UNCHANGED <<execution, approval>>
    BY <1>2 DEF ReadForExpiry
  <2> QED
    BY <1>1, <2>1, OwedAsBefore DEF ToStart
<1>3. CASE Expire(e)
  <2>1. /\ execution'[e] # "BLOCKED" /\ approval'[e] = "EXPIRED"
        /\ \A d \in Executions : d # e => RowUnchanged(d)
    <3>1. TypeOK /\ RecordCrowd(e)
      BY <1>3 DEF Expire, IInv
    <3> QED
      BY <1>3, <3>1, Recorded DEF Expire, ExpiredExecution, RowUnchanged, TypeOK
  <2>2. Owed(e)'
    BY <2>1 DEF Owed
  <2> QED
    BY <1>1, <2>1, <2>2, OwedOfOne DEF ToStart
<1> QED
  BY <1>2, <1>3

LEMMA NextOwed == IInv /\ RowsOwe /\ [Next]_vars => RowsOwe'
<1> SUFFICES ASSUME IInv, RowsOwe, [Next]_vars PROVE RowsOwe'
  OBVIOUS
<1>1. CASE UNCHANGED vars
  BY <1>1, OwedAsBefore DEF vars, ToStart
<1>2. ASSUME NEW p \in Calls, Create(p) \/ ExecuteTool(p) PROVE RowsOwe'
  BY <1>2, OtherOwed, DiesOwed, WriteOwed DEF Create, ExecuteTool
<1>3. ASSUME NEW p \in Calls, RunAllowedExecution(p) PROVE RowsOwe'
  BY <1>3, OtherOwed, LeaseOwed, WriteOwed DEF RunAllowedExecution
<1>4. ASSUME NEW p \in Calls, Resolve(p) PROVE RowsOwe'
  BY <1>4, OtherOwed, WriteOwed DEF Resolve
<1>5. ASSUME NEW p \in Calls, TerminateComputeSession(p) \/ CallDies(p) PROVE RowsOwe'
  BY <1>5, OtherOwed, DiesOwed
<1>6. ASSUME NEW e \in Executions, ReadForExpiry(e) \/ Expire(e) PROVE RowsOwe'
  BY <1>6, ExpiryOwed
<1> QED
  BY <1>1, <1>2, <1>3, <1>4, <1>5, <1>6 DEF Next

\* Without faults, however many resolutions were in progress, whenever no request
\* is, an execution waits for its owner exactly while its approval is PENDING:
\* neither an expiration with an old snapshot nor a session that ended while the
\* owner was asked strands it.
THEOREM ApprovalsAgree == Spec => []ApprovalAgreesAtRest
<1>1. Init => RowsOwe
  BY DEF Init, RowsOwe, Owed
<1>2. RowsOwe => ApprovalAgreesAtRest
  <2> SUFFICES ASSUME RowsOwe, AtRest, faults = 0, NEW e \in Executions, approval[e] # "ABSENT"
               PROVE  execution[e] = "BLOCKED" <=> approval[e] = "PENDING"
    BY DEF ApprovalAgreesAtRest
  <2>1. Owed(e)
    BY DEF RowsOwe
  <2>2. \A p \in Resolvers : ~ToStart(p, e)
    BY DEF AtRest, ToStart, Calls
  <2> QED
    BY <2>1, <2>2 DEF Owed
<1> QED
  BY <1>1, <1>2, NextOwed, InvariantHolds, PTL DEF Spec

-----------------------------------------------------------------------------
(* The broker implements ExecutionGate: what one request does moves it from *)
(* one stage to another with one execution, and no other request with any. *)

OthersKeep(p) == \A q \in Calls : q # p => call'[q] = call[q]

LEMMA StagesMove ==
  ASSUME NEW p \in Calls, NEW e \in Executions, NEW s, OthersKeep(p),
         Stage(e, p)' = s, \A d \in Executions : d # e => Stage(d, p)' = Stage(d, p)
  PROVE  Stages' = [Stages EXCEPT ![e][p] = s]
<1>1. \A d \in Executions, q \in Calls :
        Stage(d, q)' = IF d = e /\ q = p THEN s ELSE Stage(d, q)
  BY DEF OthersKeep, Stage
<1> HIDE DEF Stage
<1>2. Stages' = [d \in Executions |-> [q \in Calls |-> Stage(d, q)']]
  BY DEF Stages
<1>3. Stages[e] = [q \in Calls |-> Stage(e, q)]
  BY DEF Stages
<1>4. [Stages EXCEPT ![e][p] = s]
        = [d \in Executions |->
             IF d = e THEN [Stages[e] EXCEPT ![p] = s] ELSE [q \in Calls |-> Stage(d, q)]]
  BY DEF Stages
<1>5. [Stages[e] EXCEPT ![p] = s] = [q \in Calls |-> Stage(e, q)']
  BY <1>1, <1>3
<1>6. \A d \in Executions : d # e =>
        [q \in Calls |-> Stage(d, q)] = [q \in Calls |-> Stage(d, q)']
  BY <1>1
<1> QED
  BY <1>2, <1>4, <1>5, <1>6

LEMMA StagesStay ==
  ASSUME NEW p \in Calls, OthersKeep(p),
         \A d \in Executions : Stage(d, p)' = Stage(d, p)
  PROVE  Stages' = Stages
<1>1. \A d \in Executions, q \in Calls : Stage(d, q)' = Stage(d, q)
  BY DEF OthersKeep, Stage
<1> QED
  BY <1>1 DEF Stages

\* A request that works on one execution, or on none, before and after.
LEMMA StageOfOne ==
  ASSUME NEW p \in Calls, NEW e \in Executions, OthersKeep(p),
         call[p].e = e \/ StageOf(call[p].pc) = "none",
         call'[p].e = e \/ StageOf(call'[p].pc) = "none"
  PROVE  /\ Stages[e][p] = IF call[p].e = e THEN StageOf(call[p].pc) ELSE "none"
         /\ Stages' = [Stages EXCEPT ![e][p] =
                         IF call'[p].e = e THEN StageOf(call'[p].pc) ELSE "none"]
<1>1. Stages[e][p] = Stage(e, p)
  BY DEF Stages
<1>2. \A d \in Executions : d # e => Stage(d, p)' = Stage(d, p)
  BY DEF Stage
<1> QED
  BY <1>1, <1>2, StagesMove DEF Stage

LEMMA StageNames ==
  /\ \A pc \in {"idle", "createFailed"} \cup CreateSteps \cup AskSteps \cup TerminateSteps :
       StageOf(pc) = "none"
  /\ StageOf("rest") = "none"
  /\ \A pc \in ResolveSteps : StageOf(pc) = "holds"
  /\ \A pc \in {"lease", "leased", "start"} : StageOf(pc) = "cleared"
  /\ \A pc \in {"mark", "run"} : StageOf(pc) = "started"
  /\ StageOf("finish") = "carried"
  /\ \A pc \in Steps : pc \notin Working => StageOf(pc) = "none"
BY DEF StageOf, ResolveSteps, CreateSteps, AskSteps, TerminateSteps, Steps, Working, RunSteps

GateStep == Gate!Next \/ UNCHANGED Gate!gateVars

\* A request that goes on within a stage, or lets go of its execution.
LEMMA GateQuiet ==
  ASSUME NEW p \in Calls, call[p].e \in Executions \cup {NoExecution}, OthersKeep(p),
         UNCHANGED <<execution, approval, commands>>,
         \/ StageOf(call'[p].pc) = "none"
         \/ call'[p].e = call[p].e /\ StageOf(call'[p].pc) = StageOf(call[p].pc)
  PROVE  GateStep
<1>1. Asked' = Asked /\ AllDecided' = AllDecided
  BY DEF Asked, AllDecided, Decided
<1>2. CASE StageOf(call'[p].pc) = "none" /\ call[p].e \in Executions
  <2> DEFINE e == call[p].e
  <2>1. /\ Stages[e][p] = StageOf(call[p].pc)
        /\ Stages' = [Stages EXCEPT ![e][p] = "none"]
    BY <1>2, StageOfOne
  <2>2. CASE StageOf(call[p].pc) = "none"
    <3>1. \A d \in Executions : Stage(d, p)' = Stage(d, p)
      BY <1>2, <2>2 DEF Stage
    <3>2. Stages' = Stages
      BY <3>1, StagesStay
    <3> QED
      BY <1>1, <3>2 DEF GateStep, Gate!gateVars
  <2>3. CASE StageOf(call[p].pc) # "none"
    <3>1. Gate!LetGo(e, p)
      BY <1>1, <2>1, <2>3 DEF Gate!LetGo, Gate!GoesTo
    <3> QED
      BY <1>2, <3>1 DEF GateStep, Gate!Next
  <2> QED
    BY <2>2, <2>3
<1>3. CASE StageOf(call'[p].pc) = "none" /\ call[p].e = NoExecution
  <2>1. \A d \in Executions : Stage(d, p)' = Stage(d, p)
    BY <1>3 DEF Stage
  <2>2. Stages' = Stages
    BY <2>1, StagesStay
  <2> QED
    BY <1>1, <2>2 DEF GateStep, Gate!gateVars
<1>4. CASE call'[p].e = call[p].e /\ StageOf(call'[p].pc) = StageOf(call[p].pc)
  <2>1. \A d \in Executions : Stage(d, p)' = Stage(d, p)
    BY <1>4 DEF Stage
  <2>2. Stages' = Stages
    BY <2>1, StagesStay
  <2> QED
    BY <1>1, <2>2 DEF GateStep, Gate!gateVars
<1> QED
  BY <1>2, <1>3, <1>4

\* Nobody else is at an execution that was not written yet.
LEMMA FirstAtIt ==
  ASSUME IInv, NEW e \in Executions, execution[e] = "ABSENT", NEW p \in Callers,
         StageOf(call[p].pc) = "none",
         \A q \in Callers : q # p => call[q].e # e
  PROVE  Gate!Untouched(e)
<1>1. approval[e] = "ABSENT"
  BY DEF IInv, RowsAgree, Agrees
<1>2. ASSUME NEW q \in Calls PROVE Stages[e][q] = "none"
  <2>1. Stages[e][q] = Stage(e, q)
    BY DEF Stages
  <2>2. CASE call[q].pc \in Working /\ call[q].e = e /\ q # p
    <3>1. q \in Resolvers
      BY <2>2, AtWork DEF IInv
    <3>2. ResolverKnows(q, call[q].pc, e)
      BY <2>2, <3>1 DEF IInv, CallsKnow, Knows
    <3> QED
      BY <1>1, <3>2 DEF ResolverKnows
  <2>3. CASE call[q].pc \notin Working
    <3>1. call[q].pc \in Steps
      BY CallsTyped DEF IInv, CallRow
    <3> QED
      BY <2>1, <2>3, <3>1, StageNames DEF Stage
  <2> QED
    BY <2>1, <2>2, <2>3 DEF Stage
<1> QED
  BY <1>2 DEF Gate!Untouched

\* Requests that write no row of an execution.
LEMMA QuietGate ==
  ASSUME IInv, NEW p \in Calls,
         \/ Create(p) \/ TouchSessionIdle(p) \/ MarkSessionRunning(p) \/ RestSession(p)
         \/ AcquireContainer(p) \/ RecordLease(p) \/ ReuseLease(p)
         \/ LoadContext(p) \/ TerminateComputeSession(p) \/ CallDies(p)
  PROVE  GateStep
<1> USE DEF rows, history
<1>1. call \in [Calls -> CallRow] /\ call[p].e \in Executions \cup {NoExecution}
  BY CallsTyped DEF IInv, CallRow
<1>2. UNCHANGED <<execution, approval, commands>>
  BY DEF Create, CreateSession, SessionCreated, CreationThrows, MarkCreationFailed,
         TouchSessionIdle, MarkSessionRunning, RestSession, AcquireContainer,
         RecordLease, ReuseLease, LoadContext, TerminateComputeSession, Terminate, MarkStopping,
         RemoveContainer, RecordRelease, EndSession, CallDies
<1>3. CASE \/ Create(p) \/ TouchSessionIdle(p) \/ RestSession(p) \/ CallDies(p)
           \/ TerminateComputeSession(p)
  <2>1. /\ call'[p].pc \in {"idle", "createFailed"} \cup CreateSteps \cup TerminateSteps
        /\ OthersKeep(p)
    <3>1. CASE Create(p)
      BY <1>1, <3>1 DEF Create, CreateSession, SessionCreated, CreationThrows, MarkCreationFailed,
           Begin, To, Return, NoCall, CallRow, CreateSteps, OthersKeep
    <3>2. CASE TouchSessionIdle(p) \/ RestSession(p) \/ CallDies(p)
      BY <1>1, <3>2 DEF TouchSessionIdle, RestSession, CallDies, Return, NoCall, CallRow, OthersKeep
    <3>3. CASE TerminateComputeSession(p)
      BY <1>1, <3>3 DEF TerminateComputeSession, Terminate, MarkStopping, RemoveContainer,
           RecordRelease, EndSession, To, Return, Begin, Keeping, NoCall, CallRow, TerminateSteps,
           OthersKeep
    <3> QED
      BY <1>3, <3>1, <3>2, <3>3
  <2>2. StageOf(call'[p].pc) = "none"
    BY <2>1, StageNames
  <2> QED
    BY <1>1, <1>2, <2>1, <2>2, GateQuiet
<1>4. CASE LoadContext(p)
  <2>1. /\ OthersKeep(p)
        /\ \/ call'[p].pc = "idle"
           \/ call[p].pc = "context" /\ call'[p].pc = "approve" /\ call'[p].e = call[p].e
    BY <1>1, <1>4 DEF LoadContext, Return, NoCall, CallRow, OthersKeep
  <2>2. StageOf("idle") = "none" /\ StageOf("approve") = StageOf("context")
    BY StageNames DEF ResolveSteps
  <2> QED
    BY <1>1, <1>2, <2>1, <2>2, GateQuiet
<1>5. CASE MarkSessionRunning(p)
  <2>1. /\ call[p].pc = "mark" /\ call'[p].pc = "run" /\ call'[p].e = call[p].e
        /\ OthersKeep(p)
    BY <1>1, <1>5 DEF MarkSessionRunning, To, CallRow, OthersKeep
  <2>2. StageOf("mark") = StageOf("run")
    BY StageNames
  <2> QED
    BY <1>1, <1>2, <2>1, <2>2, GateQuiet
<1>6. CASE AcquireContainer(p) \/ RecordLease(p) \/ ReuseLease(p)
  <2>1. /\ OthersKeep(p)
        /\ \/ call'[p].pc \in {"leaseNew", "auditNew"}
           \/ /\ call[p].pc \in {"lease", "leased", "start"}
              /\ call'[p].pc \in {"lease", "leased", "start"} /\ call'[p].e = call[p].e
    <3>1. CASE AcquireContainer(p)
      BY <1>1, <3>1, ZenonT(60) DEF AcquireContainer, Keeping, CallRow, OthersKeep
    <3>2. CASE RecordLease(p)
      BY <1>1, <3>2 DEF RecordLease, Leased, To, CallRow, OthersKeep
    <3>3. CASE ReuseLease(p)
      BY <1>1, <3>3 DEF ReuseLease, Leased, CallRow, OthersKeep
    <3> QED
      BY <1>6, <3>1, <3>2, <3>3
  <2>2. CASE call'[p].pc \in {"leaseNew", "auditNew"}
    <3>1. StageOf(call'[p].pc) = "none"
      BY <2>2, StageNames DEF CreateSteps
    <3> QED
      BY <1>1, <1>2, <2>1, <3>1, GateQuiet
  <2>3. CASE /\ call[p].pc \in {"lease", "leased", "start"}
             /\ call'[p].pc \in {"lease", "leased", "start"} /\ call'[p].e = call[p].e
    <3>1. StageOf(call'[p].pc) = StageOf(call[p].pc)
      BY <2>3, StageNames
    <3> QED
      BY <1>1, <1>2, <2>1, <2>3, <3>1, GateQuiet
  <2> QED
    BY <2>1, <2>2, <2>3
<1> QED
  BY <1>3, <1>4, <1>5, <1>6

\* Those that take an execution up.
LEMMA TakesUpGate ==
  ASSUME IInv, NEW p \in Calls, NEW e \in Executions, Decide(p, e) \/ ResolveApproval(p, e)
  PROVE  GateStep
<1> USE DEF rows, history
<1>1. /\ call \in [Calls -> CallRow] /\ call[p].pc = "idle"
      /\ UNCHANGED <<execution, approval, commands>>
  BY CallsTyped DEF IInv, Decide, ResolveApproval
<1>2. /\ OthersKeep(p) /\ call'[p].e = e
      /\ \/ Decide(p, e) /\ call'[p].pc \in {"deny", "ask", "lease"}
         \/ ResolveApproval(p, e) /\ call'[p].pc \in {"context", "reject"}
  BY <1>1 DEF Decide, ResolveApproval, Begin, CallRow, OthersKeep
<1>3. StageOf(call[p].pc) = "none"
  BY <1>1, StageNames
<1>4. Asked' = Asked /\ AllDecided' = AllDecided
  BY <1>1 DEF Asked, AllDecided, Decided
<1>5. /\ Stages[e][p] = "none"
      /\ Stages' = [Stages EXCEPT ![e][p] = StageOf(call'[p].pc)]
  BY <1>2, <1>3, StageOfOne
<1>6. CASE Decide(p, e) /\ call'[p].pc \in {"deny", "ask"}
  <2>1. StageOf(call'[p].pc) = "none"
    BY <1>6, StageNames DEF AskSteps
  <2>2. \A d \in Executions : Stage(d, p)' = Stage(d, p)
    BY <1>3, <2>1 DEF Stage
  <2>3. Stages' = Stages
    BY <1>2, <2>2, StagesStay
  <2> QED
    BY <1>1, <1>4, <2>3 DEF GateStep, Gate!gateVars
<1>7. CASE Decide(p, e) /\ call'[p].pc = "lease"
  <2>1. /\ p \in Callers /\ execution[e] = "ABSENT"
        /\ \A q \in Callers : call[q].e # e
    BY <1>7 DEF Decide
  <2>2. Gate!Untouched(e)
    BY <1>3, <2>1, FirstAtIt
  <2>3. StageOf(call'[p].pc) = "cleared"
    BY <1>7, StageNames
  <2>4. Gate!Clear(e, p)
    BY <1>1, <1>4, <1>5, <2>2, <2>3 DEF Gate!Clear, Gate!GoesTo
  <2> QED
    BY <2>4 DEF GateStep, Gate!Next
<1>8. CASE ResolveApproval(p, e) /\ call'[p].pc \in {"context", "reject"}
  <2>1. approval[e] = "PENDING"
    BY <1>8 DEF ResolveApproval
  <2>2. e \in Asked \ AllDecided
    BY <2>1 DEF Asked, AllDecided, Decided
  <2>3. StageOf(call'[p].pc) = "holds"
    BY <1>8, StageNames DEF ResolveSteps
  <2>4. Gate!TakeUp(e, p)
    BY <1>1, <1>4, <1>5, <2>2, <2>3 DEF Gate!TakeUp, Gate!GoesTo
  <2> QED
    BY <2>4 DEF GateStep, Gate!Next
<1> QED
  BY <1>2, <1>6, <1>7, <1>8

\* A caller that holds its own execution and puts it before the owner.
LEMMA HoldsGate ==
  ASSUME IInv, NEW p \in Calls, BlockExecution(p) \/ RequestApproval(p)
  PROVE  GateStep
<1>1. call[p].pc \in Working /\ call[p].pc \in {"deny", "ask", "request"}
  BY DEF BlockExecution, RequestApproval, Working
<1> PICK e \in Executions : e = call[p].e
  BY <1>1, AtWork
<1>2. /\ TypeOK /\ call \in [Calls -> CallRow] /\ p \in Callers
      /\ CallerKnows(call[p].pc, e)
  BY <1>1, AtWork, MayAsk, CallsTyped DEF IInv, AskSteps
<1>3. OthersKeep(p) /\ call'[p].pc \in {"request", "touch"}
  BY <1>2 DEF BlockExecution, RequestApproval, To, CallRow, OthersKeep
<1>4. StageOf(call[p].pc) = "none" /\ StageOf(call'[p].pc) = "none"
  BY <1>1, <1>3, StageNames DEF AskSteps
<1>5. Stages' = Stages
  <2>1. \A d \in Executions : Stage(d, p)' = Stage(d, p)
    BY <1>4 DEF Stage
  <2> QED
    BY <1>3, <2>1, StagesStay
<1>6. CASE BlockExecution(p)
  <2>1. /\ call[p].pc \in {"deny", "ask"} /\ execution' = [execution EXCEPT ![e] = "BLOCKED"]
        /\ UNCHANGED <<approval, commands>>
    BY <1>6 DEF BlockExecution, history
  <2>2. execution[e] = "ABSENT"
    BY <1>2, <2>1 DEF CallerKnows
  <2>3. \A q \in Callers : q # p => call[q].e # e
    BY <1>2 DEF IInv, CallersExclude
  <2>4. Gate!Untouched(e)
    BY <1>2, <1>4, <2>2, <2>3, FirstAtIt
  <2>5. Asked' = Asked /\ AllDecided' = AllDecided
    BY <2>1 DEF Asked, AllDecided, Decided
  <2>6. Gate!Hold(e)
    BY <1>5, <2>1, <2>4, <2>5 DEF Gate!Hold, Gate!Becomes
  <2> QED
    BY <2>6 DEF GateStep, Gate!Next
<1>7. CASE RequestApproval(p)
  <2>1. /\ call[p].pc = "request" /\ approval' = [approval EXCEPT ![e] = "PENDING"]
        /\ UNCHANGED <<execution, commands>>
    BY <1>7 DEF RequestApproval, history
  <2>2. execution[e] = "BLOCKED" /\ approval[e] = "ABSENT"
    BY <1>2, <2>1 DEF CallerKnows
  <2>3. Asked' = Asked \cup {e} /\ e \notin Asked
    BY <1>2, <2>1, <2>2 DEF Asked, TypeOK
  <2>4. AllDecided' = AllDecided
    BY <1>2, <2>1, <2>2 DEF AllDecided, Decided, TypeOK
  <2>5. Gate!Ask(e)
    BY <1>5, <2>1, <2>2, <2>3, <2>4 DEF Gate!Ask
  <2> QED
    BY <2>5 DEF GateStep, Gate!Next
<1> QED
  BY <1>6, <1>7

\* The run of a cleared request.
LEMMA RunGate ==
  ASSUME IInv, NEW p \in Calls, StartExecution(p) \/ RunCommand(p) \/ FinishExecution(p)
  PROVE  GateStep
<1>1. call[p].pc \in Working
  BY DEF StartExecution, RunCommand, FinishExecution, Working
<1> PICK e \in Executions : e = call[p].e
  BY <1>1, AtWork
<1>2. /\ TypeOK /\ call \in [Calls -> CallRow]
      /\ call[p].pc = "finish" => call[p].outcome \in {"SUCCEEDED", "FAILED"}
  BY <1>1, AtWork, CallFields, CallsTyped DEF IInv
<1>3. OthersKeep(p) /\ call'[p].e = e /\ UNCHANGED approval
  BY <1>2 DEF StartExecution, RunCommand, FinishExecution, To, CallRow, OthersKeep, history, rows
<1>4. Asked' = Asked /\ AllDecided' = AllDecided
  BY <1>3 DEF Asked, AllDecided, Decided
<1>5. /\ Stages[e][p] = StageOf(call[p].pc)
      /\ Stages' = [Stages EXCEPT ![e][p] = StageOf(call'[p].pc)]
  BY <1>3, StageOfOne
<1>6. CASE StartExecution(p)
  <2>1. /\ call[p].pc = "start" /\ call'[p].pc = "mark" /\ commands' = commands
        /\ execution' = [execution EXCEPT ![e] = "RUNNING"]
    BY <1>2, <1>6 DEF StartExecution, To, CallRow, history
  <2>2. Gate!Start(e, p)
    BY <1>4, <1>5, <2>1, StageNames DEF Gate!Start, Gate!Becomes, Gate!GoesTo
  <2> QED
    BY <2>2 DEF GateStep, Gate!Next
<1>7. CASE RunCommand(p)
  <2>1. /\ call[p].pc = "run" /\ call'[p].pc = "finish" /\ execution' = execution
        /\ commands' = [commands EXCEPT ![e][p] = @ + 1]
    BY <1>2, <1>7 DEF RunCommand, CallRow, rows
  <2>2. Gate!CarryOut(e, p)
    BY <1>4, <1>5, <2>1, StageNames DEF Gate!CarryOut, Gate!GoesTo
  <2> QED
    BY <2>2 DEF GateStep, Gate!Next
<1>8. CASE FinishExecution(p)
  <2>1. /\ call[p].pc = "finish" /\ call'[p].pc = "rest" /\ commands' = commands
        /\ execution' = [execution EXCEPT ![e] = call[p].outcome]
    BY <1>2, <1>8 DEF FinishExecution, To, CallRow, history
  <2>2. Gate!End(e, p)
    BY <1>2, <1>4, <1>5, <2>1, StageNames DEF Gate!End, Gate!Becomes, Gate!GoesTo
  <2> QED
    BY <2>2 DEF GateStep, Gate!Next
<1> QED
  BY <1>6, <1>7, <1>8

\* A resolver's decision, whatever others decided before it.
LEMMA ResolveGate ==
  ASSUME IInv, NEW p \in Calls, Reject(p) \/ Approve(p)
  PROVE  GateStep
<1>1. call[p].pc \in Working /\ call[p].pc \in ResolveSteps /\ p \in Resolvers
  BY MayResolve DEF Reject, Approve, Working, ResolveSteps, IInv
<1> PICK e \in Executions : e = call[p].e
  BY <1>1, AtWork
<1>2. TypeOK /\ call \in [Calls -> CallRow] /\ approval[e] # "ABSENT"
  BY <1>1, AtWork, CallsTyped DEF IInv, ResolverKnows
<1>3. /\ OthersKeep(p)
      /\ call'[p].e = e \/ StageOf(call'[p].pc) = "none"
      /\ UNCHANGED commands
  <2>1. CASE Reject(p)
    BY <1>2, <2>1, StageNames DEF Reject, Return, NoCall, CallRow, OthersKeep
  <2>2. CASE Approve(p)
    BY <1>2, <2>2 DEF Approve, To, CallRow, OthersKeep
  <2> QED
    BY <2>1, <2>2
<1>4. Stages[e][p] = "holds"
  BY <1>1, StageNames DEF Stages, Stage
<1>5. Asked' = Asked /\ AllDecided' = AllDecided \cup {e}
  <2>1. \E s \in {"APPROVED", "REJECTED"} : approval' = [approval EXCEPT ![e] = s]
    BY DEF Reject, Approve
  <2> QED
    BY <1>2, <2>1 DEF Asked, AllDecided, Decided, TypeOK
<1>6. CASE Reject(p)
  <2>1. /\ call'[p] = NoCall /\ OthersKeep(p)
        /\ execution' = [execution EXCEPT ![e] = "CANCELED"]
    BY <1>2, <1>6 DEF Reject, Return, OthersKeep
  <2>2. StageOf(call'[p].pc) = "none" /\ call'[p].e # e
    BY <2>1, StageNames DEF NoCall
  <2>3. Stages' = [Stages EXCEPT ![e][p] = "none"]
    BY <2>1, <2>2, StageOfOne
  <2>4. Gate!Refuse(e, p)
    BY <1>3, <1>4, <1>5, <2>1, <2>3 DEF Gate!Refuse, Gate!Becomes, Gate!GoesTo
  <2> QED
    BY <2>4 DEF GateStep, Gate!Next
<1>7. CASE Approve(p)
  <2>1. /\ call'[p].pc = "lease" /\ call'[p].e = e /\ OthersKeep(p) /\ execution' = execution
    BY <1>2, <1>7 DEF Approve, To, CallRow, OthersKeep
  <2>2. Stages' = [Stages EXCEPT ![e][p] = "cleared"]
    BY <2>1, StageOfOne, StageNames
  <2>3. Gate!Grant(e, p)
    BY <1>3, <1>4, <1>5, <2>1, <2>2 DEF Gate!Grant, Gate!GoesTo
  <2> QED
    BY <2>3 DEF GateStep, Gate!Next
<1> QED
  BY <1>6, <1>7

\* An expiration calls off what is still held, and is too late for the rest.
LEMMA ExpiryGate ==
  ASSUME IInv, NEW e \in Executions, ReadForExpiry(e) \/ Expire(e)
  PROVE  GateStep
<1>1. Stages' = Stages /\ UNCHANGED commands
  BY DEF ReadForExpiry, Expire, Stages, Stage, history
<1>2. CASE ReadForExpiry(e)
  <2>1. UNCHANGED <<execution, approval>>
    BY <1>2 DEF ReadForExpiry, rows
  <2> QED
    BY <1>1, <2>1 DEF GateStep, Gate!gateVars, Asked, AllDecided, Decided
<1>3. CASE Expire(e)
  <2>1. /\ approval' = [approval EXCEPT ![e] = "EXPIRED"]
        /\ execution' = [execution EXCEPT ![e] = ExpiredExecution(execution[e])]
        /\ e \in expiry
    BY <1>3 DEF Expire
  <2>2. approval[e] # "ABSENT" /\ TypeOK
    BY <2>1 DEF IInv, RowsAgree, Agrees
  <2>3. Asked' = Asked /\ AllDecided' = AllDecided \cup {e} /\ e \in Asked
    BY <2>1, <2>2 DEF Asked, AllDecided, Decided, TypeOK
  <2>4. Gate!CallOff(e)
    BY <1>1, <2>1, <2>3 DEF Gate!CallOff, Gate!Becomes, ExpiredExecution
  <2> QED
    BY <2>4 DEF GateStep, Gate!Next
<1> QED
  BY <1>2, <1>3

LEMMA NextGate == IInv /\ [Next]_vars => [Gate!Next]_(Gate!gateVars)
<1> SUFFICES ASSUME IInv, [Next]_vars PROVE GateStep
  BY DEF GateStep
<1>1. CASE UNCHANGED vars
  BY <1>1 DEF vars, GateStep, Gate!gateVars, Stages, Stage, Asked, AllDecided, Decided
<1>2. ASSUME NEW p \in Calls, Create(p) \/ ExecuteTool(p) PROVE GateStep
  BY <1>2, QuietGate, TakesUpGate, HoldsGate DEF ExecuteTool
<1>3. ASSUME NEW p \in Calls, RunAllowedExecution(p) PROVE GateStep
  BY <1>3, QuietGate, RunGate DEF RunAllowedExecution
<1>4. ASSUME NEW p \in Calls, Resolve(p) PROVE GateStep
  BY <1>4, QuietGate, TakesUpGate, ResolveGate DEF Resolve
<1>5. ASSUME NEW p \in Calls, TerminateComputeSession(p) \/ CallDies(p) PROVE GateStep
  BY <1>5, QuietGate
<1>6. ASSUME NEW e \in Executions, ReadForExpiry(e) \/ Expire(e) PROVE GateStep
  BY <1>6, ExpiryGate
<1> QED
  BY <1>1, <1>2, <1>3, <1>4, <1>5, <1>6 DEF Next

\* Whatever its requests, its sessions, expirations and faults do, and however
\* many requests resolve one approval, the broker implements the gate: what was
\* put before the owner is taken up only until it is decided, each request that
\* took it up clears itself once at most, and only a cleared request starts the
\* execution, runs the command once and ends it.
THEOREM BrokerImplementsGate == Spec => ImplementsGate
<1>1. Init => Gate!Init
  <2> SUFFICES ASSUME Init PROVE Gate!Init
    OBVIOUS
  <2>1. \A p \in Calls : StageOf(call[p].pc) = "none"
    BY StageNames DEF Init, NoCall
  <2>2. Stages = [e \in Executions |-> [p \in Calls |-> "none"]]
    BY <2>1 DEF Stages, Stage
  <2>3. Asked = {} /\ AllDecided = {}
    BY DEF Init, Asked, AllDecided, Decided
  <2> QED
    BY <2>2, <2>3 DEF Init, Gate!Init
<1>2. IInv /\ [Next]_vars => [Gate!Next]_(Gate!gateVars)
  BY NextGate
<1> QED
  BY <1>1, <1>2, InvariantHolds, PTL DEF Spec, ImplementsGate, Gate!Spec

=============================================================================
