----------------------------- MODULE Tools_proofs -----------------------------
(* Proofs about ToolRequests, for any requests, settings and audience, and      *)
(* about ToolRuns, for any number of runs, retries, steps and faults.  The two  *)
(* specifications share no state; each theorem is about one of them.            *)
EXTENDS ToolRequests, ToolRuns, FunctionTheorems, FiniteSetTheorems, TLAPS

-------------------------------------------------------------------------------
(* ToolRequests: the guardrail keeps its word, what runs without an approval is *)
(* inside the setup, and what runs is what was asked.  The first is a fact of   *)
(* the policy stack and of the decision.  The last rests on the row, which must *)
(* tell the whole request.                                                      *)

\* What the two callers send: no body where a command, a read or a page has
\* none, a task for a native run, which is the only one that may be allowed to
\* mutate a page.
IsExpressible(r) ==
  /\ r.capability \in {"exec", "process", "read"} => r.body = Nothing
  /\ r.capability = "browser" /\ ~r.native => r.body = Nothing
  /\ r.mutates => r.native
  /\ r.native => r.capability = "browser" /\ r.body # Nothing

USE ToolRequestsAssumption

LEMMA Expressible == \A r \in Requests : r \in ToolRequest /\ IsExpressible(r)
BY DEF ParsedRequest, NativeRequest, IsExpressible, Bodies

-----------------------------------------------------------------------------
(* The policy stack.                                                       *)

\* Precedences of the managed profiles: the guardrail's is the highest but for
\* the customer account's.
LEMMA Precedences ==
  ASSUME NEW profile \in ManagedProfiles
  PROVE  \/ profile = Guardrail
         \/ profile.precedence \in {80, 90, 95}
         \/ profile.precedence = 110 /\ profile.account = "customer"
BY DEF ManagedProfiles, Guardrail, OwnerBaseline, TrustedCustomer, OrganizationBaseline,
       CustomerAccount, Managed

LEMMA GuardrailFields ==
  /\ Guardrail.precedence = 100 /\ Guardrail.enabled = TRUE
  /\ Guardrail.account = AnyCondition /\ Guardrail.tier = AnyCondition
BY DEF Guardrail, Managed

\* For a contact without a customer account nothing outranks the guardrail.
LEMMA GuardrailIsHighest ==
  ASSUME contact.account = "none", NEW r, Matching(Guardrail, r, contact) # {}
  PROVE  Highest(Deciding(ManagedProfiles, r, contact)) = Guardrail
<1> DEFINE deciding == Deciding(ManagedProfiles, r, contact)
<1>1. Guardrail \in deciding
  BY GuardrailFields DEF Deciding, AppliesTo, ManagedProfiles
<1>2. ASSUME NEW profile \in deciding, profile # Guardrail
      PROVE  profile.precedence \in {80, 90, 95}
  <2>1. profile \in ManagedProfiles /\ profile.account \in {AnyCondition, "none"}
    BY <1>2 DEF Deciding, AppliesTo
  <2> QED
    BY <1>2, <2>1, Precedences DEF AnyCondition
<1>3. \A other \in deciding : other.precedence <= Guardrail.precedence
  <2> SUFFICES ASSUME NEW other \in deciding PROVE other.precedence <= Guardrail.precedence
    OBVIOUS
  <2>1. CASE other = Guardrail
    BY <2>1, GuardrailFields
  <2>2. CASE other # Guardrail
    BY <1>2, <2>2, GuardrailFields
  <2> QED
    BY <2>1, <2>2
<1> DEFINE best == Highest(deciding)
<1>4. best \in deciding /\ Guardrail.precedence <= best.precedence
  BY <1>1, <1>3 DEF Highest
<1> QED
  BY <1>2, <1>4, GuardrailFields

\* What the guardrail says of a contact without a customer account stands,
\* whatever the owner and the organization save: they are layered below it.
THEOREM GuardrailHolds == RequestsSpec => []GuardrailStands
<1>1. GuardrailStands
  <2> SUFFICES ASSUME contact.account = "none", NEW r \in Requests,
                      Matching(Guardrail, r, contact) # {}
               PROVE  PolicyDecision(ManagedProfiles, setup, r) = ProfileDecision(Guardrail, r, contact)
    BY DEF GuardrailStands
  <2>1. Highest(Deciding(ManagedProfiles, r, contact)) = Guardrail
    BY GuardrailIsHighest
  <2>2. Guardrail \in Deciding(ManagedProfiles, r, contact)
    BY GuardrailFields DEF Deciding, AppliesTo, ManagedProfiles
  <2> QED
    BY <2>1, <2>2 DEF PolicyDecision, StackDecision
<1> QED
  BY <1>1, PTL

-----------------------------------------------------------------------------
(* The decision.                                                           *)

LEMMA AllowIsInside ==
  ASSUME NEW s, NEW r, NEW b, NEW policy, NEW available,
         EffectiveDecision(s, r, b, policy, available) = "allow"
  PROVE  /\ ~IsComplex(r) /\ ~DeniesBrowser(s, r) /\ ~DeniesWrite(s, r)
         /\ ~AsksFirst(r) /\ ~AsksLater(s, r, b.approval) /\ ~DeniesRemote(s, r, b.host)
BY DEF EffectiveDecision
-----------------------------------------------------------------------------
(* The row of an execution.                                                *)

\* A request as normalizeExecutionInput hands it on.
Faithful(r) == r \in ToolRequest /\ IsExpressible(r)

SameRun(ran, asked) ==
  /\ ran.capability = asked.capability /\ ran.target = asked.target /\ ran.body = asked.body
  /\ ran.native = asked.native /\ ran.mutates = asked.mutates

\* The row keeps the whole request, and what ran is the request.
RowTells(row) ==
  row # NoExecution =>
    /\ Faithful(row.request) /\ row.stored = Stored(row.request)
    /\ row.ran # Nothing => SameRun(row.ran, row.request)

\* The fields of a row, whatever their values.
IsRow(row) ==
  row = [status |-> row.status, approval |-> row.approval, request |-> row.request,
         policy |-> row.policy, stored |-> row.stored, ran |-> row.ran]

Recorded ==
  /\ execution = [e \in Executions |-> execution[e]]
  /\ \A e \in Executions : IsRow(execution[e]) /\ RowTells(execution[e])

LEMMA InitRecorded == RequestsInit => Recorded
BY DEF RequestsInit, Recorded, IsRow, RowTells, NoExecution

LEMMA Normal ==
  ASSUME NEW r \in Requests
  PROVE  Faithful(Normalized(r))
<1>1. r \in ToolRequest
  OBVIOUS
<1> DEFINE target == IF r.capability = "mcp" THEN BoundTool(r.target) ELSE r.target
<1>2. target \in Targets \cup {Nothing}
  BY <1>1 DEF ToolRequest, BoundTool, Targets, Tools, DefaultTool
<1>3. Normalized(r) = [r EXCEPT !.target = target]
  BY DEF Normalized
<1> HIDE DEF target
<1>4. Normalized(r) \in ToolRequest
  BY <1>1, <1>2, <1>3 DEF ToolRequest
<1>5. /\ Normalized(r).capability = r.capability /\ Normalized(r).body = r.body
      /\ Normalized(r).native = r.native /\ Normalized(r).mutates = r.mutates
  BY <1>1, <1>3 DEF ToolRequest
<1> QED
  BY <1>4, <1>5, Expressible DEF Faithful, IsExpressible

\* What is read back from the row is what was asked, if the row can be read.
LEMMA ReadBack ==
  ASSUME NEW r, Faithful(r), IsReadable(Stored(r))
  PROVE  SameRun(Reconstructed(Stored(r), r), r)
<1> DEFINE row == Stored(r)
           target == IF row.capability \in {"read", "write"} THEN row.path ELSE row.command
           body == IF row.capability = "write" THEN row.command ELSE row.task
<1>1. /\ row.capability = r.capability /\ row.command = PersistedCommand(r)
      /\ row.path = (IF r.capability \in {"read", "write"} THEN r.target ELSE Nothing)
      /\ row.payload = r.native /\ row.mutates = (r.native /\ r.mutates)
      /\ row.task = (IF r.native \/ r.capability = "mcp" THEN r.body ELSE Nothing)
  BY DEF Stored
<1>2. r \in ToolRequest /\ r.native \in BOOLEAN /\ r.mutates \in BOOLEAN
      /\ r.body \in Bodies \cup {Nothing} /\ r.capability \in Capabilities
  BY DEF Faithful, IsExpressible, ToolRequest
<1>3. /\ Reconstructed(row, r).capability = r.capability
      /\ Reconstructed(row, r).target = target
      /\ Reconstructed(row, r).body = body
      /\ Reconstructed(row, r).native = row.payload
      /\ Reconstructed(row, r).mutates = row.mutates
  BY <1>2 DEF Reconstructed, ToolRequest
<1> HIDE DEF row
<1>4. ~(r.capability = "browser" /\ r.native /\ r.target = Nothing)
  BY <1>1, <1>2 DEF IsReadable, PersistedCommand, Faithful, IsExpressible, row
<1>5. target = r.target
  BY <1>1, <1>4 DEF PersistedCommand
<1>6. body = r.body
  BY <1>1, <1>2, <1>4 DEF PersistedCommand, Faithful, IsExpressible, Capabilities
<1>7. row.mutates = r.mutates
  BY <1>1, <1>2 DEF Faithful, IsExpressible
<1> QED
  BY <1>1, <1>3, <1>5, <1>6, <1>7 DEF SameRun, row

LEMMA OneRow ==
  ASSUME Recorded, NEW e \in Executions, NEW row, IsRow(row), RowTells(row),
         execution' = [execution EXCEPT ![e] = row]
  PROVE  Recorded'
<1>1. execution' = [d \in Executions |-> IF d = e THEN row ELSE execution[d]]
  BY DEF Recorded
<1>2. ASSUME NEW d \in Executions
      PROVE  execution'[d] = (IF d = e THEN row ELSE execution[d])
  BY <1>1
<1>3. ASSUME NEW d \in Executions
      PROVE  IsRow(execution[d])' /\ RowTells(execution[d])'
  <2>1. CASE d = e
    <3>1. execution'[d] = row
      BY <1>2, <2>1
    <3> QED
      BY <3>1 DEF IsRow, RowTells
  <2>2. CASE d # e
    <3>1. execution'[d] = execution[d]
      BY <1>2, <2>2
    <3> QED
      BY <3>1 DEF Recorded
  <2> QED
    BY <2>1, <2>2
<1>4. execution' = [d \in Executions |-> execution'[d]]
  BY <1>1
<1> QED
  BY <1>3, <1>4 DEF Recorded

LEMMA ExecuteStep ==
  ASSUME Recorded, NEW e \in Executions, NEW r \in Requests,
         NEW available \in CreditLevels, ExecuteTool(e, r, available)
  PROVE  Recorded'
<1> DEFINE request == Normalized(r)
           policy == PolicyDecision(ManagedProfiles, setup, request)
           decision == EffectiveDecision(setup, request, BindingFor(r), policy, available)
           Row(st, approval, ran) ==
             [status |-> st, approval |-> approval, request |-> request, policy |-> policy,
              stored |-> Stored(request), ran |-> ran]
<1>1. Outcome(e, request, policy, decision)
  BY DEF ExecuteTool
<1> HIDE DEF policy, decision
<1>2. Faithful(request)
  BY Normal
<1> HIDE DEF request
<1>3. PICK st \in {"BLOCKED", "STARTED"}, approval \in {"NONE", "PENDING"}, ran \in {Nothing, request} :
        execution' = [execution EXCEPT ![e] = Row(st, approval, ran)]
  BY <1>1 DEF Outcome
<1>4. IsRow(Row(st, approval, ran))
  BY DEF IsRow
<1>5. RowTells(Row(st, approval, ran))
  BY <1>2 DEF RowTells, SameRun
<1> HIDE DEF Row
<1> QED
  BY <1>3, <1>4, <1>5, OneRow

\* An approval leaves the request and its columns as they are.
LEMMA ResolvedStep ==
  ASSUME Recorded, NEW e \in Executions,
         RejectApproval(e) \/ ApproveAndRun(e) \/ ApproveAndFail(e) \/ ApproveInVain(e)
  PROVE  Recorded'
<1> DEFINE row == execution[e]
           Becomes(st, approval, ran) ==
             [status |-> st, approval |-> approval, request |-> row.request,
              policy |-> row.policy, stored |-> row.stored, ran |-> ran]
<1>1. /\ row # NoExecution /\ IsRow(row)
      /\ Faithful(row.request) /\ row.stored = Stored(row.request)
      /\ row.ran # Nothing => SameRun(row.ran, row.request)
  BY DEF Recorded, RowTells, RejectApproval, ApproveAndRun, ApproveAndFail, ApproveInVain, IsPending
<1>2. ASSUME NEW st, NEW approval, NEW ran, st # "NONE",
             ran # Nothing => SameRun(ran, row.request),
             execution' = [execution EXCEPT ![e] = Becomes(st, approval, ran)]
      PROVE  Recorded'
  <2>1. IsRow(Becomes(st, approval, ran)) /\ RowTells(Becomes(st, approval, ran))
    BY <1>1, <1>2 DEF IsRow, RowTells
  <2> HIDE DEF Becomes
  <2> QED
    BY <1>2, <2>1, OneRow
<1>3. ASSUME NEW approval, NEW st \in {"STARTED", "FAILED", "BLOCKED", "CANCELED"}, NEW ran,
             Resolved(e, approval, st, ran), ran # Nothing => SameRun(ran, row.request)
      PROVE  Recorded'
  BY <1>2, <1>3 DEF Resolved
<1>4. CASE ApproveAndRun(e)
  <2>1. /\ Resolved(e, "APPROVED", "STARTED", Reconstructed(row.stored, row.request))
        /\ IsReadable(row.stored)
    BY <1>4 DEF ApproveAndRun
  <2>2. SameRun(Reconstructed(row.stored, row.request), row.request)
    BY <1>1, <2>1, ReadBack
  <2> QED
    BY <1>3, <2>1, <2>2
<1>5. CASE RejectApproval(e)
  BY <1>3, <1>5 DEF RejectApproval
<1>6. CASE ApproveAndFail(e)
  BY <1>3, <1>6 DEF ApproveAndFail
<1>7. CASE ApproveInVain(e)
  BY <1>3, <1>7 DEF ApproveInVain
<1> QED
  BY <1>4, <1>5, <1>6, <1>7

LEMMA RecordedHolds == RequestsSpec => []Recorded
<1>1. Recorded /\ [RequestsNext]_requestVars => Recorded'
  <2> SUFFICES ASSUME Recorded, [RequestsNext]_requestVars PROVE Recorded'
    OBVIOUS
  <2>1. CASE execution' = execution
    BY <2>1 DEF Recorded
  <2>2. CASE Save \/ UnlockPlan \/ UNCHANGED requestVars
    BY <2>1, <2>2 DEF Save, UpdateSetup, UpdateOverlays, UpdateGovernance, UpsertBinding,
                      UnlockPlan, requestVars
  <2>3. CASE Execute
    BY <2>3, ExecuteStep, ResolvedStep DEF Execute, AskedByContact, AskedByOwner
  <2> QED
    BY <2>2, <2>3 DEF RequestsNext
<1> QED
  BY <1>1, InitRecorded, PTL DEF RequestsSpec

\* Whatever was saved between the request and its approval, what is carried out
\* is the request: the row's columns tell all of it, for every request the bot
\* and the dashboard send.
THEOREM RunIsTheRequest == RequestsSpec => []RunIsWhatWasAsked
<1>1. Recorded => RunIsWhatWasAsked
  BY DEF Recorded, RowTells, SameRun, RunIsWhatWasAsked
<1> QED
  BY <1>1, RecordedHolds, PTL

\* The executions stay a table of rows, whatever the requests.
IsTable == execution = [e \in Executions |-> execution[e]]

LEMMA TableHolds == RequestsSpec => []IsTable
<1>1. RequestsInit => IsTable
  BY DEF RequestsInit, IsTable
<1>2. IsTable /\ [RequestsNext]_requestVars => IsTable'
  <2> SUFFICES ASSUME IsTable, [RequestsNext]_requestVars PROVE IsTable'
    OBVIOUS
  <2>1. CASE execution' = execution
    BY <2>1 DEF IsTable
  <2>2. ASSUME NEW e \in Executions, NEW row, execution' = [execution EXCEPT ![e] = row]
        PROVE  IsTable'
    BY <2>2 DEF IsTable
  <2>3. CASE Execute
    BY <2>2, <2>3 DEF Execute, AskedByContact, AskedByOwner, ExecuteTool, Outcome, RejectApproval, ApproveAndRun, ApproveAndFail,
                      ApproveInVain, Resolved
  <2>4. CASE Save \/ UnlockPlan \/ UNCHANGED requestVars
    BY <2>1, <2>4 DEF Save, UpdateSetup, UpdateOverlays, UpdateGovernance, UpsertBinding,
                      UnlockPlan, requestVars
  <2> QED
    BY <2>3, <2>4 DEF RequestsNext
<1> QED
  BY <1>1, <1>2, PTL DEF RequestsSpec

\* What starts without an approval is what the effective decision allows, and
\* an allow is inside every limit of the setup.
THEOREM UnapprovedIsInside == RequestsSpec => UnapprovedRunsStayInside
<1> DEFINE Inside(r) ==
             /\ ~IsComplex(r) /\ ~DeniesBrowser(setup, r) /\ ~DeniesWrite(setup, r)
             /\ ~AsksFirst(r) /\ ~AsksLater(setup, r, BindingFor(r).approval)
             /\ ~DeniesRemote(setup, r, BindingFor(r).host)
           Kept == \A e \in Executions :
                     (Starts(e) /\ execution'[e].approval = "NONE") => Inside(execution'[e].request)
<1>1. ASSUME IsTable, RequestsNext PROVE Kept
  <2> SUFFICES ASSUME NEW e \in Executions, Starts(e), execution'[e].approval = "NONE"
               PROVE  Inside(execution'[e].request)
    OBVIOUS
  <2>1. execution'[e] # execution[e]
    BY DEF Starts
  <2>2. ASSUME NEW d \in Executions, NEW row, execution' = [execution EXCEPT ![d] = row]
        PROVE  d = e /\ execution'[e] = row
    BY <1>1, <2>1, <2>2 DEF IsTable
  <2>3. ASSUME NEW d \in Executions, NEW r \in Requests, NEW available \in CreditLevels,
               ExecuteTool(d, r, available)
        PROVE  Inside(execution'[e].request)
    <3> DEFINE request == Normalized(r)
               policy == PolicyDecision(ManagedProfiles, setup, request)
               decision == EffectiveDecision(setup, request, BindingFor(r), policy, available)
    <3>1. Outcome(d, request, policy, decision)
      BY <2>3 DEF ExecuteTool
    <3>2. request.capability = r.capability
      <4>1. r \in ToolRequest
        OBVIOUS
      <4> QED
        BY <4>1 DEF Normalized, ToolRequest
    <3>3. BindingFor(request) = BindingFor(r)
      BY <3>2 DEF BindingFor
    <3> HIDE DEF request, policy, decision
    <3>4. decision = "allow" /\ execution'[e].request = request
      BY <2>2, <3>1 DEF Outcome, Starts
    <3> QED
      BY <3>3, <3>4, AllowIsInside DEF decision
  <2>4. ASSUME NEW d \in Executions,
               RejectApproval(d) \/ ApproveAndRun(d) \/ ApproveAndFail(d) \/ ApproveInVain(d)
        PROVE  FALSE
    BY <2>2, <2>4 DEF RejectApproval, ApproveAndRun, ApproveAndFail, ApproveInVain, Resolved
  <2> QED
    BY <1>1, <2>1, <2>3, <2>4 DEF RequestsNext, Execute, AskedByContact, AskedByOwner, Save, UpdateSetup, UpdateOverlays,
                                  UpdateGovernance, UpsertBinding, UnlockPlan
<1>2. IsTable /\ [RequestsNext]_requestVars => [Kept]_requestVars
  BY <1>1
<1> QED
  BY <1>2, TableHolds, PTL DEF RequestsSpec, UnapprovedRunsStayInside

HIDE ToolRequestsAssumption

-------------------------------------------------------------------------------
(* ToolRuns: a run is charged for what it stored, the browser session is where  *)
(* the last navigation left it, and only a run that was under way when the      *)
(* session ended opens it again.                                                *)
(*                                                                              *)
(* The invariant says what a request knows at each await: what its result lists *)
(* is what is stored, and what it read of the browser session before the upsert *)
(* is still so unless another recording came between.                           *)

ArtifactsOf(r) == {a \in artifacts : a.run = r}

(* Until its runtime throws, a request's result lists what is stored for it.    *)
StoredAsListed(r) ==
    ~run[r].threw /\ run[r].at \notin {"done", "lost"} =>
        \A k \in ArtifactKinds : [run |-> r, kind |-> k] \in artifacts <=> k \in run[r].listed

(* A remote call that did not fail ran its tool.                                *)
McpKnows(p, calls) ==
    p.kind = "mcp" /\ ~p.threw =>
        /\ p.at \notin {"command", "seed", "ask", "act", "look", "session", "navigation"}
        /\ p.at \in {"succeed", "put", "row", "finish", "bill", "done"} => calls > 0
        /\ p.at \in {"put", "row", "finish", "bill"} => p.exit = 0

PlanKnows(p) == p.at \in {"put", "row"} => p.plan # <<>>

ChargedAtEnd(r) ==
    ledger[r] # None =>
        /\ run[r].at = "done"
        /\ ~run[r].threw =>
             /\ ledger[r].storage = Cardinality(ArtifactsOf(r))
             /\ (ledger[r].mcp = 1) <=> (run[r].kind = "mcp")

IdleKnows(p) == p.at = "idle" => p = Idle

RunKnows(r) == /\ IdleKnows(run[r]) /\ StoredAsListed(r) /\ ChargedAtEnd(r)
               /\ McpKnows(run[r], toolCalls[r]) /\ PlanKnows(run[r])

(* Where the navigations left the browser: at the last one that landed.         *)
WentLast(url, navs) ==
    \/ url = None /\ \A i \in 1..Len(navs) : ~Landed(navs[i])
    \/ \E i \in 1..Len(navs) :
          /\ Landed(navs[i]) /\ url = Landing(navs[i])
          /\ \A j \in 1..Len(navs) : Landed(navs[j]) => j <= i
Agrees(row, navs) ==
    /\ (row = None) <=> (navs = <<>>)
    /\ row # None => row.last = navs[Len(navs)].run /\ WentLast(row.url, navs)

NavigationOf(r) ==
    [run |-> r, requested |-> Requested(r), final |-> Final(r),
     succeeded |-> run[r].exit = 0, screenshot |-> run[r].captured]

(* What a recording knows, if no other one comes between its statements.        *)
RecorderKnows(r) ==
    /\ run[r].at = "session" =>
         /\ (run[r].seen = None) <=> (browser = None)
         /\ browser # None => run[r].seen.url = browser.url
    /\ run[r].at = "navigation" =>
         browser # None /\ Agrees(browser, Append(navigations, NavigationOf(r)))

Recorders == {r \in Runs : run[r].at \in Recording}

BrowserKnown ==
    ~mixed =>
        /\ \A r, s \in Recorders : r = s
        /\ (\A r \in Runs : run[r].at # "navigation") => Agrees(browser, navigations)
        /\ \A r \in Runs : RecorderKnows(r)

(* The session ends for those who ask, not for those who are under way.         *)
UnderWay(p) == p.at \notin {"idle", "done", "lost"}
SessionKnown ==
    /\ session.termination # "open" => session.ended
    /\ session.ended => \A r \in Runs : UnderWay(run[r]) => r \in late
    /\ session.termination = "closing" => browser # None
    /\ OnlyLateRunsReopen

IInv == TypeOK /\ (\A r \in Runs : RunKnows(r)) /\ BrowserKnown /\ SessionKnown
-------------------------------------------------------------------------------
(* What the operators on a request's locals return.                             *)
USE BoundsAssumption, NullAssumption

LEMMA IdleIsProcess == Idle \in Process
BY DEF Idle, Process, Places, Kinds

(* The locals of a request that is over, field by field.                        *)
LEMMA OverIs ==
    ASSUME NEW p \in Process, NEW place
    PROVE  Over(p, place) =
             [at |-> place, kind |-> p.kind, exit |-> 1, captured |-> FALSE,
              answered |-> FALSE, plan |-> <<>>, listed |-> {}, attempt |-> 0,
              provider |-> None, mutates |-> FALSE,
              stepsTaken |-> 0, seen |-> None, threw |-> p.threw]
<1>1. Over(p, place) = [[[Idle EXCEPT !.at = place] EXCEPT !.kind = p.kind]
                          EXCEPT !.threw = p.threw]
    BY Zenon DEF Over
<1> QED
    BY <1>1, ZenonT(60) DEF Idle

LEMMA OverFields ==
    ASSUME NEW p \in Process, NEW place \in Places
    PROVE  /\ Over(p, place) \in Process
           /\ Over(p, place).at = place /\ Over(p, place).kind = p.kind
           /\ Over(p, place).threw = p.threw
<1>1. p.kind \in Kinds /\ p.threw \in BOOLEAN
    BY DEF Process
<1>2. <<>> \in Seq(ArtifactKinds)
    OBVIOUS
<1>3. Over(p, place) \in Process
    <2> DEFINE q == [at |-> place, kind |-> p.kind, exit |-> 1, captured |-> FALSE,
                     answered |-> FALSE, plan |-> <<>>, listed |-> {}, attempt |-> 0,
                     provider |-> None, mutates |-> FALSE,
                     stepsTaken |-> 0, seen |-> None, threw |-> p.threw]
    <2>1. q \in Process
        BY <1>1, <1>2 DEF Process
    <2>2. Over(p, place) = q
        BY OverIs
    <2> QED
        BY <2>1, <2>2
<1>4. /\ Over(p, place).at = place /\ Over(p, place).kind = p.kind
      /\ Over(p, place).threw = p.threw
    BY OverIs
<1> QED
    BY <1>3, <1>4

LEMMA CaughtFields ==
    ASSUME NEW p \in Process
    PROVE  /\ Caught(p) \in Process
           /\ Caught(p).at = "finish" /\ Caught(p).kind = p.kind
           /\ Caught(p).threw = TRUE
<1>1. "finish" \in Places
    BY DEF Places
<1> DEFINE q == Over(p, "finish")
<1>2. q \in Process /\ q.at = "finish" /\ q.kind = p.kind
    BY <1>1, OverFields
<1>3. Caught(p) = [q EXCEPT !.threw = TRUE]
    BY DEF Caught
<1> HIDE DEF q
<1> QED
    BY <1>2, <1>3 DEF Process

LEMMA StoresFields ==
    ASSUME NEW p \in Process, NEW plan \in Seq(ArtifactKinds)
    PROVE  /\ Stores(p, plan) \in Process
           /\ Stores(p, plan).at = (IF plan = <<>> THEN "finish" ELSE "put")
           /\ Stores(p, plan).plan = plan /\ Stores(p, plan).kind = p.kind
           /\ Stores(p, plan).exit = p.exit /\ Stores(p, plan).threw = p.threw
           /\ Stores(p, plan).listed = p.listed
BY DEF Stores, Process, Places

(* A request in the try of the runtime goes on in it, or ends it.               *)
Trying == {"command", "resolve", "seed", "ask", "act", "call", "succeed", "fail", "put",
           "row"}
Tries(p, q) ==
    /\ q \in Process /\ q.kind = p.kind
    /\ p.at \in Trying /\ q.at \in Trying \cup {"finish"}
    /\ PlanKnows(q)
    /\ q.threw = TRUE \/ (q.threw = p.threw /\ q.listed = p.listed)

LEMMA CaughtTries ==
    ASSUME NEW p \in Process, p.at \in Trying
    PROVE  Tries(p, Caught(p))
BY CaughtFields DEF Tries, PlanKnows

LEMMA StoresTries ==
    ASSUME NEW p \in Process, NEW plan \in Seq(ArtifactKinds), p.at \in Trying
    PROVE  Tries(p, Stores(p, plan))
BY StoresFields DEF Tries, PlanKnows, Trying

LEMMA WrappedTries ==
    ASSUME NEW p \in Process, p.at \in Trying
    PROVE  Tries(p, Wrapped(p))
<1> DEFINE exit == IF p.answered \/ p.captured THEN 0 ELSE 1
           plan == (IF p.captured THEN <<"JSON", "SCREENSHOT">> ELSE <<>>) \o <<"TRACE">>
           q == [p EXCEPT !.exit = exit, !.provider = None, !.mutates = FALSE]
<1>1. plan \in Seq(ArtifactKinds)
    <2>1. /\ <<"JSON", "SCREENSHOT">> \in Seq(ArtifactKinds)
          /\ <<"TRACE">> \in Seq(ArtifactKinds) /\ <<>> \in Seq(ArtifactKinds)
        BY DEF ArtifactKinds
    <2> QED
        BY <2>1
<1>2. q \in Process /\ q.at = p.at /\ q.kind = p.kind /\ q.threw = p.threw /\ q.listed = p.listed
    BY DEF Process
<1>3. Wrapped(p) = Stores(q, plan)
    BY DEF Wrapped
<1> HIDE DEF q, plan
<1>4. Tries(q, Stores(q, plan))
    BY <1>1, <1>2, StoresTries
<1> QED
    BY <1>2, <1>3, <1>4 DEF Tries

LEMMA LoopedTries ==
    ASSUME NEW p \in Process, p.at \in Trying
    PROVE  Tries(p, Looped(p))
<1>1. CASE p.stepsTaken < MaxSteps
    BY <1>1 DEF Looped, Tries, PlanKnows, Process, Places, Trying
<1>2. CASE ~(p.stepsTaken < MaxSteps)
    BY <1>2, WrappedTries DEF Looped
<1> QED
    BY <1>1, <1>2
-------------------------------------------------------------------------------
(* Steps of one request that record nothing.                                    *)

(* Of a request whose locals and rows a step leaves alone.                      *)
LEMMA RunUntouched ==
    ASSUME NEW s \in Runs, RunKnows(s), run'[s] = run[s], toolCalls'[s] = toolCalls[s],
           ledger'[s] = ledger[s], ArtifactsOf(s)' = ArtifactsOf(s)
    PROVE  RunKnows(s)'
<1>1. \A k \in ArtifactKinds : [run |-> s, kind |-> k] \in artifacts <=> [run |-> s, kind |-> k] \in artifacts'
    <2> SUFFICES ASSUME NEW k \in ArtifactKinds
                 PROVE  [run |-> s, kind |-> k] \in ArtifactsOf(s) <=> [run |-> s, kind |-> k] \in ArtifactsOf(s)'
        BY DEF ArtifactsOf
    <2> QED
        OBVIOUS
<1> QED
    BY <1>1 DEF RunKnows, StoredAsListed, ChargedAtEnd

(* What the recordings and the session's end look at.                           *)
LEMMA QuietRecords ==
    ASSUME IInv, NEW r \in Runs, NEW q, run' = [run EXCEPT ![r] = q],
           UNCHANGED <<browser, navigations, session, late, mixed>>,
           run[r].at \notin Recording, q.at \notin Recording,
           UnderWay(q) => UnderWay(run[r]) \/ ~session.ended
    PROVE  BrowserKnown' /\ SessionKnown'
<1>1. run \in [Runs -> Process]
    BY DEF IInv, TypeOK
<1>2. \A s \in Runs : s # r => run'[s] = run[s]
    BY <1>1
<1>3. run'[r] = q
    BY <1>1
<1>4. BrowserKnown'
    <2> SUFFICES ASSUME ~mixed
                 PROVE  /\ \A s, t \in Recorders' : s = t
                        /\ (\A s \in Runs : run'[s].at # "navigation") => Agrees(browser, navigations)
                        /\ \A s \in Runs : RecorderKnows(s)'
        BY DEF BrowserKnown, Agrees, WentLast, Landed, Landing
    <2>1. Recorders' = Recorders
        BY <1>2, <1>3 DEF Recorders
    <2>2. \A s \in Runs : run'[s].at = "navigation" <=> run[s].at = "navigation"
        BY <1>2, <1>3 DEF Recording
    <2>3. ASSUME NEW s \in Runs PROVE RecorderKnows(s)'
        <3>1. CASE s = r
            BY <1>3, <3>1 DEF RecorderKnows, Recording
        <3>2. CASE s # r
            <4>1. run'[s] = run[s] /\ RecorderKnows(s)
                BY <1>2, <3>2 DEF IInv, BrowserKnown
            <4>2. NavigationOf(s)' = NavigationOf(s)
                BY <4>1 DEF NavigationOf, Requested, Final, Task, Address, Page
            <4>3. Append(navigations, NavigationOf(s))' = Append(navigations, NavigationOf(s))
                BY <4>2
            <4> QED
                BY <4>1, <4>3 DEF RecorderKnows
        <3> QED
            BY <3>1, <3>2
    <2> QED
        BY <2>1, <2>2, <2>3 DEF IInv, BrowserKnown
<1>5. SessionKnown'
    BY <1>2, <1>3 DEF IInv, SessionKnown, OnlyLateRunsReopen
<1> QED
    BY <1>4, <1>5

QuietGoes(r, q) ==
    /\ run' = [run EXCEPT ![r] = q]
    /\ UNCHANGED <<browser, navigations, session, late, mixed>>
    /\ run[r].at \notin Recording /\ q.at \notin Recording
    /\ UnderWay(q) => UnderWay(run[r]) \/ ~session.ended

(* The rows of every other request stay as they are.                            *)
OthersKept(r) == \A s \in Runs \ {r} :
    toolCalls'[s] = toolCalls[s] /\ ledger'[s] = ledger[s] /\ ArtifactsOf(s)' = ArtifactsOf(s)

LEMMA QuietStep ==
    ASSUME IInv, NEW r \in Runs, NEW q, QuietGoes(r, q), OthersKept(r),
           TypeOK', RunKnows(r)'
    PROVE  IInv'
<1>1. BrowserKnown' /\ SessionKnown'
    BY QuietRecords DEF QuietGoes
<1>2. ASSUME NEW s \in Runs, s # r PROVE RunKnows(s)'
    <2>1. run'[s] = run[s]
        BY <1>2 DEF IInv, TypeOK, QuietGoes
    <2> QED
        BY <1>2, <2>1, RunUntouched DEF IInv, OthersKept
<1> QED
    BY <1>1, <1>2 DEF IInv

(* Steps in the try.                                                            *)
TryGoes(r, q) ==
    /\ run' = [run EXCEPT ![r] = q]
    /\ UNCHANGED <<artifacts, ledger, browser, navigations, session, late, mixed>>
    /\ \A s \in Runs : s # r => toolCalls'[s] = toolCalls[s]

LEMMA TryingStep ==
    ASSUME IInv, NEW r \in Runs, NEW q, TryGoes(r, q), Tries(run[r], q),
           McpKnows(q, toolCalls'[r]), TypeOK'
    PROVE  IInv'
<1> USE DEF TryGoes
<1>1. run'[r] = q /\ q \in Process
    BY DEF IInv, TypeOK, Tries
<1>2. RunKnows(r)
    BY DEF IInv
<1>3. /\ run[r].at \notin Recording /\ q.at \notin Recording /\ UnderWay(run[r])
      /\ run[r].at \notin {"done", "lost"}
    BY DEF Tries, Trying, Recording, UnderWay
<1>4. ledger[r] = None
    BY <1>2, <1>3 DEF RunKnows, ChargedAtEnd
<1>5. StoredAsListed(r)'
    BY <1>1, <1>2, <1>3 DEF RunKnows, StoredAsListed, Tries
<1>6. RunKnows(r)'
    BY <1>1, <1>4, <1>5 DEF RunKnows, IdleKnows, ChargedAtEnd, Tries, Trying
<1>7. QuietGoes(r, q) /\ OthersKept(r)
    BY <1>3 DEF QuietGoes, OthersKept, ArtifactsOf
<1> QED
    BY <1>6, <1>7, QuietStep

(* ... of a request that calls no remote tool, or not yet.                      *)
OnlyGoes(r, q) ==
    /\ run[r].at \in {"command", "resolve", "seed", "ask", "act"}
    /\ run[r].at = "resolve" => q.at = "call" \/ q.threw = TRUE
    /\ run' = [run EXCEPT ![r] = q]
    /\ UNCHANGED <<status, storage, records, ledger, remote, session, faults>>

LEMMA PlainStep ==
    ASSUME IInv, NEW r \in Runs, NEW q, OnlyGoes(r, q), Tries(run[r], q)
    PROVE  IInv'
<1> USE DEF OnlyGoes
<1>1. q \in Process /\ run \in [Runs -> Process] /\ toolCalls'[r] = toolCalls[r]
    BY DEF IInv, TypeOK, Tries, remote
<1>2. TypeOK'
    BY <1>1 DEF IInv, TypeOK, storage, records, remote
<1>3. McpKnows(run[r], toolCalls[r])
    BY DEF IInv, RunKnows
<1>4. McpKnows(q, toolCalls'[r])
    BY <1>1, <1>3 DEF McpKnows, Tries
<1>5. TryGoes(r, q)
    BY DEF TryGoes, storage, records, remote
<1> QED
    BY <1>2, <1>4, <1>5, TryingStep

LEMMA RunCommandIInv ==
    ASSUME IInv, NEW r \in Runs, RunCommand(r) PROVE IInv'
<1> DEFINE p == run[r]
<1>1. PICK exit \in {0, 1}, plan \in Printed(p.kind) :
        run' = [run EXCEPT ![r] = [Stores(@, plan) EXCEPT
                    !.exit = exit, !.captured = plan \in Captures]]
    BY DEF RunCommand
<1>2. p \in Process /\ p.at = "command" /\ p.at \in Trying
    BY DEF RunCommand, IInv, TypeOK, Trying
<1>3. exit \in {0, 1}
    OBVIOUS
<1>4. plan \in Seq(ArtifactKinds)
    <2>1. Streams \cup Captures \subseteq Seq(ArtifactKinds)
        BY DEF Streams, Captures, ArtifactKinds
    <2> QED
        BY <2>1 DEF Printed
<1> DEFINE s == Stores(p, plan)
           captured == plan \in Captures
           q == [s EXCEPT !.exit = exit, !.captured = captured]
<1>5. s \in Process /\ Tries(p, s)
    BY <1>2, <1>4, StoresFields, StoresTries
<1>6. OnlyGoes(r, q)
    BY <1>1 DEF RunCommand, OnlyGoes
<1>7. Tries(p, q)
    <2>0. captured \in BOOLEAN
        OBVIOUS
    <2> HIDE DEF s, p, captured
    <2>1. q \in Process
        BY <1>3, <1>5, <2>0 DEF Process
    <2>2. /\ q.at = s.at /\ q.kind = s.kind /\ q.plan = s.plan /\ q.threw = s.threw
          /\ q.listed = s.listed
        BY <1>5 DEF Process
    <2> HIDE DEF q
    <2> QED
        BY <1>5, <2>1, <2>2 DEF Tries, PlanKnows
<1> QED
    BY <1>6, <1>7, PlainStep

LEMMA ResolveBindingIInv ==
    ASSUME IInv, NEW r \in Runs, ResolveBinding(r) PROVE IInv'
<1> DEFINE p == run[r]
           q == [p EXCEPT !.at = "call"]
<1>1. p \in Process /\ p.at = "resolve" /\ p.at \in Trying
    BY DEF ResolveBinding, IInv, TypeOK, Trying
<1>2. ASSUME run' = [run EXCEPT ![r].at = "call"] PROVE IInv'
    <2>1. /\ q \in Process /\ q.at = "call" /\ q.kind = p.kind /\ q.threw = p.threw
          /\ q.listed = p.listed
        BY <1>1 DEF Process, Places
    <2>2. OnlyGoes(r, q)
        BY <1>1, <1>2, <2>1 DEF ResolveBinding, OnlyGoes
    <2> HIDE DEF q
    <2>3. Tries(p, q)
        BY <1>1, <2>1 DEF Tries, Trying, PlanKnows
    <2> QED
        BY <2>2, <2>3, PlainStep
<1>3. ASSUME run' = [run EXCEPT ![r] = Caught(p)] PROVE IInv'
    <2>1. OnlyGoes(r, Caught(p))
        BY <1>1, <1>3, CaughtFields DEF ResolveBinding, OnlyGoes
    <2>2. Tries(p, Caught(p))
        BY <1>1, CaughtTries
    <2> QED
        BY <2>1, <2>2, PlainStep
<1> QED
    BY <1>2, <1>3 DEF ResolveBinding

LEMMA SeedIInv ==
    ASSUME IInv, NEW r \in Runs, Seed(r) PROVE IInv'
<1>1. run[r] \in Process /\ run[r].at = "seed" /\ run[r].at \in Trying
    BY DEF Seed, IInv, TypeOK, Trying
<1>2. PICK provider \in ReadyProviders, mutates \in BOOLEAN :
        run' = [run EXCEPT ![r] =
                  IF LatestHasScreenshot /\ provider # None
                  THEN [@ EXCEPT !.at = "ask", !.provider = provider, !.mutates = mutates]
                  ELSE Caught(@)]
    BY DEF Seed
<1>3. CASE LatestHasScreenshot /\ provider # None
    <2> DEFINE q == [run[r] EXCEPT !.at = "ask", !.provider = provider, !.mutates = mutates]
    <2>1. OnlyGoes(r, q)
        BY <1>2, <1>3 DEF Seed, OnlyGoes
    <2>2. Tries(run[r], q)
        <3>1. q \in Process
            BY <1>1 DEF Process, ReadyProviders, Places
        <3>2. q.at = "ask" /\ q.kind = run[r].kind /\ q.threw = run[r].threw
              /\ q.listed = run[r].listed
            BY <1>1 DEF Process
        <3> HIDE DEF q
        <3> QED
            BY <1>1, <3>1, <3>2 DEF Tries, PlanKnows, Trying
    <2> QED
        BY <2>1, <2>2, PlainStep
<1>4. CASE ~(LatestHasScreenshot /\ provider # None)
    <2>1. OnlyGoes(r, Caught(run[r]))
        BY <1>2, <1>4 DEF Seed, OnlyGoes
    <2>2. Tries(run[r], Caught(run[r]))
        BY <1>1, CaughtTries
    <2> QED
        BY <2>1, <2>2, PlainStep
<1> QED
    BY <1>3, <1>4

(* The answer of a provider, and what is done with it.                          *)
LEMMA AnswerTries ==
    ASSUME NEW p \in Process, p.at = "ask",
           NEW batch, NEW q,
           LET asked == [p EXCEPT !.stepsTaken = @ + 1]
           IN  q = Answered(asked) \/ q = Acts(asked, batch) \/ q = Caught(asked)
    PROVE  Tries(p, q)
<1> DEFINE asked == [p EXCEPT !.stepsTaken = @ + 1]
<1>1. asked \in Process
    <2>1. p.stepsTaken + 1 \in Nat
        BY DEF Process
    <2> QED
        BY <2>1 DEF Process
<1>2. /\ asked.at = "ask" /\ asked.kind = p.kind /\ asked.threw = p.threw
      /\ asked.listed = p.listed
    BY DEF Process
<1>3. q = Answered(asked) \/ q = Acts(asked, batch) \/ q = Caught(asked)
    OBVIOUS
<1> HIDE DEF asked
<1>4. ASSUME Tries(asked, q) PROVE Tries(p, q)
    BY <1>2, <1>4 DEF Tries, Trying
<1>5. asked.at \in Trying
    BY <1>2 DEF Trying
<1>6. Tries(asked, Caught(asked))
    BY <1>1, <1>5, CaughtTries
<1>7. Tries(asked, Answered(asked))
    <2> DEFINE b == [asked EXCEPT !.answered = TRUE]
    <2>1. b \in Process /\ b.at = asked.at /\ b.kind = asked.kind
          /\ b.threw = asked.threw /\ b.listed = asked.listed
        BY <1>1 DEF Process
    <2>2. Answered(asked) = Wrapped(b)
        BY DEF Answered
    <2> HIDE DEF b
    <2>3. Tries(b, Wrapped(b))
        BY <1>5, <2>1, WrappedTries
    <2> QED
        BY <2>1, <2>2, <2>3 DEF Tries
<1>8. Tries(asked, Acts(asked, batch))
    <2>1. CASE batch \cap Mutating # {} /\ ~asked.mutates
        BY <1>6, <2>1 DEF Acts
    <2>2. CASE ~(batch \cap Mutating # {} /\ ~asked.mutates)
        <3> DEFINE b == [asked EXCEPT !.at = "act"]
        <3>1. b \in Process /\ b.at = "act" /\ b.kind = asked.kind
              /\ b.threw = asked.threw /\ b.listed = asked.listed
            BY <1>1 DEF Process, Places
        <3>2. Acts(asked, batch) = b
            BY <2>2 DEF Acts
        <3> HIDE DEF b
        <3> QED
            BY <1>2, <3>1, <3>2 DEF Tries, PlanKnows, Trying
    <2> QED
        BY <2>1, <2>2
<1> QED
    BY <1>3, <1>4, <1>6, <1>7, <1>8

LEMMA AskOpenAiIInv ==
    ASSUME IInv, NEW r \in Runs, AskOpenAi(r) PROVE IInv'
<1> DEFINE asked == [run[r] EXCEPT !.stepsTaken = @ + 1]
<1>1. run[r] \in Process /\ run[r].at = "ask"
    BY DEF AskOpenAi, IInv, TypeOK
<1>2. PICK q : /\ run' = [run EXCEPT ![r] = q]
               /\ q = Answered(asked) \/ \E batch \in OpenAiReadings : q = Acts(asked, batch)
    BY DEF AskOpenAi
<1>3. OnlyGoes(r, q)
    BY <1>1, <1>2 DEF AskOpenAi, OnlyGoes
<1>4. PICK batch : q = Answered(asked) \/ q = Acts(asked, batch)
    BY <1>2
<1>5. Tries(run[r], q)
    BY <1>1, <1>4, AnswerTries
<1> QED
    BY <1>3, <1>5, PlainStep

LEMMA AskAnthropicIInv ==
    ASSUME IInv, NEW r \in Runs, AskAnthropic(r) PROVE IInv'
<1> DEFINE asked == [run[r] EXCEPT !.stepsTaken = @ + 1]
<1>1. run[r] \in Process /\ run[r].at = "ask"
    BY DEF AskAnthropic, IInv, TypeOK
<1>2. PICK q : /\ run' = [run EXCEPT ![r] = q]
               /\ \/ q = Answered(asked)
                  \/ \E batch \in AnthropicReadings :
                        q = IF batch = {} THEN Caught(asked) ELSE Acts(asked, batch)
    BY DEF AskAnthropic
<1>3. OnlyGoes(r, q)
    BY <1>1, <1>2 DEF AskAnthropic, OnlyGoes
<1>4. PICK batch : q = Answered(asked) \/ q = Acts(asked, batch) \/ q = Caught(asked)
    BY <1>2
<1>5. Tries(run[r], q)
    BY <1>1, <1>4, AnswerTries
<1> QED
    BY <1>3, <1>5, PlainStep

LEMMA ActIInv ==
    ASSUME IInv, NEW r \in Runs, Act(r) PROVE IInv'
<1> DEFINE p == run[r]
           b == [p EXCEPT !.captured = TRUE]
<1>1. p \in Process /\ p.at = "act" /\ p.at \in Trying
    BY DEF Act, IInv, TypeOK, Trying
<1>2. b \in Process /\ b.at = p.at /\ b.kind = p.kind /\ b.threw = p.threw
      /\ b.listed = p.listed
    BY <1>1 DEF Process
<1>3. OnlyGoes(r, Looped(b)) \/ OnlyGoes(r, Caught(p))
    BY <1>1 DEF Act, OnlyGoes
<1> HIDE DEF b
<1>4. Tries(p, Looped(b))
    <2>1. Tries(b, Looped(b))
        BY <1>1, <1>2, LoopedTries
    <2> QED
        BY <1>2, <2>1 DEF Tries
<1>5. Tries(p, Caught(p))
    BY <1>1, CaughtTries
<1> QED
    BY <1>3, <1>4, <1>5, PlainStep

LEMMA CallIInv ==
    ASSUME IInv, NEW r \in Runs, Call(r) PROVE IInv'
<1> DEFINE p == run[r]
           called == [p EXCEPT !.attempt = @ + 1]
<1>1. /\ p \in Process /\ p.at = "call" /\ p.at \in Trying
      /\ run \in [Runs -> Process] /\ toolCalls \in [Runs -> Nat]
    BY DEF Call, IInv, TypeOK, Trying
<1>2. PICK ran \in BOOLEAN, outcome \in {"answer", "refusal"} \cup Failures :
        /\ outcome = "answer" => ran
        /\ run' = [run EXCEPT ![r] =
                     CASE outcome = "answer" -> [called EXCEPT !.at = "succeed"]
                       [] outcome \in Failures /\ Retryable(outcome) -> Retried(called)
                       [] OTHER -> [called EXCEPT !.at = "fail"]]
        /\ toolCalls' = IF ran /\ toolCalls[r] <= MaxRetries + 1
                        THEN [toolCalls EXCEPT ![r] = @ + 1] ELSE toolCalls
    BY DEF Call
<1>3. called \in Process /\ called.kind = p.kind /\ called.threw = p.threw
      /\ called.listed = p.listed
    <2>1. p.attempt + 1 \in Nat
        BY <1>1 DEF Process
    <2> QED
        BY <1>1, <2>1 DEF Process
<1> HIDE DEF called
<1>4. PICK place \in {"succeed", "fail", "call"} :
        /\ run' = [run EXCEPT ![r] = [called EXCEPT !.at = place]]
        /\ place = "succeed" => outcome = "answer"
    <2>1. CASE outcome = "answer"
        <3>1. outcome \notin Failures
            BY <2>1 DEF Failures
        <3>2. run' = [run EXCEPT ![r] = [called EXCEPT !.at = "succeed"]]
            BY <1>2, <2>1, <3>1
        <3> QED
            BY <2>1, <3>2
    <2>2. CASE outcome \in Failures /\ Retryable(outcome)
        <3>1. outcome # "answer"
            BY <2>2 DEF Failures
        <3>2. run' = [run EXCEPT ![r] = Retried(called)]
            BY <1>2, <2>2, <3>1
        <3>3. Retried(called) = [called EXCEPT !.at = "fail"]
              \/ Retried(called) = [called EXCEPT !.at = "call"]
            BY DEF Retried
        <3> QED
            BY <3>2, <3>3
    <2>3. CASE outcome # "answer" /\ ~(outcome \in Failures /\ Retryable(outcome))
        BY <1>2, <2>3
    <2> QED
        BY <2>1, <2>2, <2>3
<1> DEFINE q == [called EXCEPT !.at = place]
<1>5. q \in Process /\ q.at = place /\ q.kind = p.kind /\ q.threw = p.threw
      /\ q.listed = p.listed
    BY <1>3 DEF Process, Places
<1>6. toolCalls' \in [Runs -> Nat] /\ \A s \in Runs : s # r => toolCalls'[s] = toolCalls[s]
    BY <1>1, <1>2
<1>7. outcome = "answer" => toolCalls'[r] > 0
    BY <1>1, <1>2
<1>8. TypeOK'
    BY <1>1, <1>4, <1>5, <1>6 DEF Call, IInv, TypeOK, storage, records
<1>9. TryGoes(r, q)
    BY <1>4, <1>6 DEF Call, TryGoes, storage, records
<1> HIDE DEF q
<1>10. Tries(p, q)
    BY <1>1, <1>5 DEF Tries, Trying, PlanKnows
<1>11. McpKnows(q, toolCalls'[r])
    BY <1>4, <1>5, <1>7 DEF McpKnows
<1> QED
    BY <1>8, <1>9, <1>10, <1>11, TryingStep

LEMMA RecordSuccessIInv ==
    ASSUME IInv, NEW r \in Runs, RecordSuccess(r) PROVE IInv'
<1> DEFINE p == run[r]
           s == Stores(p, <<"JSON">>)
           q == [s EXCEPT !.exit = 0]
<1>1. p \in Process /\ p.at = "succeed" /\ p.at \in Trying /\ run \in [Runs -> Process]
    BY DEF RecordSuccess, IInv, TypeOK, Trying
<1>2. <<"JSON">> \in Seq(ArtifactKinds)
    BY DEF ArtifactKinds
<1>3. s \in Process /\ Tries(p, s) /\ s.at = "put" /\ s.plan = <<"JSON">> /\ s.threw = p.threw
    BY <1>1, <1>2, StoresFields, StoresTries
<1>4. run' = [run EXCEPT ![r] = q]
    BY DEF RecordSuccess
<1> HIDE DEF s
<1>5. /\ q \in Process /\ q.at = "put" /\ q.kind = s.kind /\ q.plan = s.plan
      /\ q.threw = s.threw /\ q.listed = s.listed /\ q.exit = 0
    BY <1>3 DEF Process
<1>6. TypeOK'
    BY <1>1, <1>4, <1>5, ZenonT(60) DEF RecordSuccess, IInv, TypeOK, storage, records
<1>7. TryGoes(r, q)
    BY <1>4 DEF RecordSuccess, TryGoes, storage, records
<1> HIDE DEF q
<1>8. Tries(p, q)
    BY <1>3, <1>5 DEF Tries, PlanKnows
<1>9. McpKnows(q, toolCalls'[r])
    <2>1. McpKnows(p, toolCalls[r])
        BY DEF IInv, RunKnows
    <2>2. toolCalls'[r] = toolCalls[r]
        BY DEF RecordSuccess
    <2> QED
        BY <1>1, <1>3, <1>5, <1>8, <2>1, <2>2 DEF McpKnows, Tries
<1> QED
    BY <1>6, <1>7, <1>8, <1>9, TryingStep

(* A request that is caught needs to know nothing of a remote call.             *)
LEMMA CaughtStep ==
    ASSUME IInv, NEW r \in Runs, run[r].at \in Trying, TryGoes(r, Caught(run[r])), TypeOK'
    PROVE  IInv'
<1>1. run[r] \in Process
    BY DEF IInv, TypeOK
<1>2. Tries(run[r], Caught(run[r]))
    BY <1>1, CaughtTries
<1>3. McpKnows(Caught(run[r]), toolCalls'[r])
    BY <1>1, CaughtFields DEF McpKnows
<1> QED
    BY <1>2, <1>3, TryingStep

LEMMA RecordFailureIInv ==
    ASSUME IInv, NEW r \in Runs, RecordFailure(r) PROVE IInv'
<1>1. /\ run[r] \in Process /\ run[r].at \in Trying /\ run \in [Runs -> Process]
      /\ failures \in Nat
    BY DEF RecordFailure, IInv, TypeOK, Trying
<1>2. Caught(run[r]) \in Process
    BY <1>1, CaughtFields
<1>3. TypeOK'
    BY <1>1, <1>2 DEF RecordFailure, IInv, TypeOK, storage, records
<1>4. TryGoes(r, Caught(run[r]))
    BY DEF RecordFailure, TryGoes, storage, records
<1> QED
    BY <1>1, <1>3, <1>4, CaughtStep

LEMMA PutIInv ==
    ASSUME IInv, NEW r \in Runs, Put(r) PROVE IInv'
<1> DEFINE p == run[r]
           q == [p EXCEPT !.at = "row"]
<1>1. /\ p \in Process /\ p.at = "put" /\ p.at \in Trying /\ run \in [Runs -> Process]
      /\ objects \subseteq Artifact
    BY DEF Put, IInv, TypeOK, Trying
<1>2. CASE bucket = "broken"
    <2>1. Caught(p) \in Process
        BY <1>1, CaughtFields
    <2>2. TypeOK'
        BY <1>1, <1>2, <2>1 DEF Put, IInv, TypeOK, records, remote
    <2>3. TryGoes(r, Caught(p))
        BY <1>2 DEF Put, TryGoes, records, remote
    <2> QED
        BY <1>1, <2>2, <2>3, CaughtStep
<1>3. CASE bucket # "broken"
    <2>1. p.plan \in Seq(ArtifactKinds) /\ p.plan # <<>>
        BY <1>1 DEF IInv, RunKnows, PlanKnows, Process
    <2>2. Head(p.plan) \in ArtifactKinds
        BY <2>1
    <2>3. q \in Process /\ q.at = "row" /\ q.kind = p.kind /\ q.plan = p.plan
          /\ q.threw = p.threw /\ q.listed = p.listed /\ q.exit = p.exit
        BY <1>1 DEF Process, Places
    <2>4. objects' \subseteq Artifact
        BY <1>1, <1>3, <2>2 DEF Put, Artifact
    <2>5. TypeOK'
        <3>1. run' = [run EXCEPT ![r] = q] /\ bucket' = "ready"
              /\ UNCHANGED <<status, artifacts, browser, navigations, late, mixed, ledger,
                             failures, toolCalls, session, faults>>
            BY <1>3 DEF Put, records, remote
        <3> QED
            BY <1>1, <2>3, <2>4, <3>1 DEF IInv, TypeOK
    <2>6. TryGoes(r, q)
        BY <1>3 DEF Put, TryGoes, records, remote
    <2> HIDE DEF q
    <2>7. Tries(p, q)
        BY <1>1, <2>1, <2>3 DEF Tries, Trying, PlanKnows
    <2>8. McpKnows(q, toolCalls'[r])
        <3>1. McpKnows(p, toolCalls[r]) /\ toolCalls'[r] = toolCalls[r]
            BY DEF IInv, RunKnows, Put, remote
        <3> QED
            BY <1>1, <2>3, <3>1 DEF McpKnows
    <2> QED
        BY <2>5, <2>6, <2>7, <2>8, TryingStep
<1> QED
    BY <1>2, <1>3

LEMMA CreateRowIInv ==
    ASSUME IInv, NEW r \in Runs, CreateRow(r) PROVE IInv'
<1> DEFINE p == run[r]
           kind == Head(p.plan)
           b == [p EXCEPT !.listed = p.listed \cup {kind}]
           q == Stores(b, Tail(p.plan))
<1>1. /\ p \in Process /\ p.at = "row" /\ run \in [Runs -> Process]
      /\ artifacts \subseteq Artifact /\ RunKnows(r)
    BY DEF CreateRow, IInv, TypeOK
<1>2. p.plan \in Seq(ArtifactKinds) /\ p.plan # <<>> /\ p.listed \subseteq ArtifactKinds
    BY <1>1 DEF RunKnows, PlanKnows, Process
<1>3. kind \in ArtifactKinds /\ Tail(p.plan) \in Seq(ArtifactKinds)
    BY <1>2
<1>4. /\ artifacts' = artifacts \cup {[run |-> r, kind |-> kind]}
      /\ run' = [run EXCEPT ![r] = q]
      /\ UNCHANGED <<status, objects, bucket, browser, navigations, late, mixed, ledger,
                     failures, toolCalls, session, faults>>
    <2>1. /\ artifacts' = artifacts \cup {[run |-> r, kind |-> kind]}
          /\ UNCHANGED <<status, objects, bucket, browser, navigations, late, mixed, ledger,
                         failures, toolCalls, session, faults>>
        BY DEF CreateRow, records, remote
    <2>2. run' = [run EXCEPT ![r] = q]
        <3>1. run' = [run EXCEPT ![r] = Stores(b, Tail(b.plan))]
            BY DEF CreateRow
        <3>2. b.plan = p.plan
            BY <1>1 DEF Process
        <3> QED
            BY <3>1, <3>2
    <2> QED
        BY <2>1, <2>2
<1> HIDE DEF kind
<1>5. /\ b \in Process /\ b.kind = p.kind /\ b.threw = p.threw /\ b.exit = p.exit
      /\ b.listed = p.listed \cup {kind}
    BY <1>1, <1>2, <1>3 DEF Process
<1> HIDE DEF b
<1>6. /\ q \in Process /\ q.at \in {"put", "finish"} /\ q.kind = b.kind
      /\ q.threw = b.threw /\ q.listed = b.listed /\ q.exit = b.exit /\ PlanKnows(q)
    BY <1>3, <1>5, StoresFields, ZenonT(60) DEF PlanKnows
<1> HIDE DEF q
<1>7. run'[r] = q
    BY <1>1, <1>4
<1>8. TypeOK'
    <2>1. artifacts' \subseteq Artifact
        BY <1>1, <1>3, <1>4 DEF Artifact
    <2> QED
        BY <1>1, <1>4, <1>6, <2>1 DEF IInv, TypeOK
<1>9. RunKnows(r)'
    <2>1. ledger[r] = None
        BY <1>1 DEF RunKnows, ChargedAtEnd
    <2>2. StoredAsListed(r)'
        <3> SUFFICES ASSUME ~q.threw, NEW k \in ArtifactKinds
                     PROVE  [run |-> r, kind |-> k] \in artifacts' <=> k \in q.listed
            BY <1>7 DEF StoredAsListed
        <3>1. [run |-> r, kind |-> k] \in artifacts <=> k \in p.listed
            BY <1>1, <1>5, <1>6 DEF RunKnows, StoredAsListed
        <3> QED
            BY <1>4, <1>5, <1>6, <3>1
    <2>3. McpKnows(q, toolCalls[r])
        BY <1>1, <1>5, <1>6 DEF RunKnows, McpKnows
    <2> QED
        BY <1>4, <1>6, <1>7, <2>1, <2>2, <2>3 DEF RunKnows, IdleKnows, ChargedAtEnd
<1>10. QuietGoes(r, q)
    BY <1>1, <1>4, <1>6 DEF QuietGoes, Recording, UnderWay
<1>11. OthersKept(r)
    BY <1>4 DEF OthersKept, ArtifactsOf
<1> QED
    BY <1>8, <1>9, <1>10, <1>11, QuietStep

-------------------------------------------------------------------------------
(* A request begins, and ends.                                                  *)
LEMMA BeginIInv ==
    ASSUME IInv, NEW r \in Runs, Begin(r) PROVE IInv'
<1>1. /\ run \in [Runs -> Process] /\ run[r].at = "idle" /\ ~session.ended /\ RunKnows(r)
      /\ UNCHANGED <<status, artifacts, objects, bucket, browser, navigations, late, mixed,
                     ledger, failures, toolCalls, session, faults>>
    BY DEF Begin, IInv, TypeOK, storage, records, remote
<1>2. PICK k \in Kinds : run' = [run EXCEPT ![r] = [Idle EXCEPT !.at = "lease", !.kind = k]]
    BY DEF Begin
<1> DEFINE q == [Idle EXCEPT !.at = "lease", !.kind = k]
<1>3. /\ q \in Process /\ q.at = "lease" /\ q.kind = k /\ q.threw = Idle.threw
      /\ q.listed = Idle.listed
    BY IdleIsProcess DEF Process, Places
<1>4. Idle.threw = FALSE /\ Idle.listed = {} /\ run[r] = Idle
    BY <1>1 DEF Idle, RunKnows, IdleKnows
<1>5. run'[r] = q
    BY <1>1, <1>2
<1>6. TypeOK'
    <2>1. run' \in [Runs -> Process]
        BY <1>1, <1>2, <1>3
    <2> QED
        BY <1>1, <2>1 DEF IInv, TypeOK
<1>7. QuietGoes(r, q)
    BY <1>1, <1>2, <1>3 DEF QuietGoes, Recording
<1>8. OthersKept(r)
    BY <1>1 DEF OthersKept, ArtifactsOf
<1> HIDE DEF q
<1>9. StoredAsListed(r)'
    <2>1. \A kind \in ArtifactKinds : [run |-> r, kind |-> kind] \in artifacts <=> kind \in {}
        BY <1>1, <1>4, Zenon DEF RunKnows, StoredAsListed, Idle
    <2> QED
        BY <1>1, <1>3, <1>4, <1>5, <2>1 DEF StoredAsListed
<1>10. ledger[r] = None
    BY <1>1 DEF RunKnows, ChargedAtEnd
<1>11. RunKnows(r)'
    BY <1>1, <1>3, <1>5, <1>9, <1>10
        DEF RunKnows, IdleKnows, ChargedAtEnd, McpKnows, PlanKnows
<1> QED
    BY <1>6, <1>7, <1>8, <1>11, QuietStep

(* ... and goes on to the try, where a remote call first resolves its binding.  *)
LEMMA StartsStep ==
    ASSUME IInv, NEW r \in Runs, NEW place \in {"touch", "resolve", "seed", "command"},
           run[r].at \in BeforeTry, run[r].kind = "mcp" => place \in {"touch", "resolve"},
           run' = [run EXCEPT ![r].at = place],
           status' \in [Runs -> {"NONE", "RUNNING", "SUCCEEDED", "FAILED"}],
           UNCHANGED <<artifacts, objects, bucket, browser, navigations, late, mixed, ledger,
                       failures, toolCalls, session, faults>>
    PROVE  IInv'
<1> DEFINE p == run[r]
           q == [p EXCEPT !.at = place]
<1>1. /\ run \in [Runs -> Process] /\ p \in Process /\ RunKnows(r)
      /\ p.at \in {"lease", "touch"}
    BY DEF IInv, TypeOK, BeforeTry
<1>2. run' = [run EXCEPT ![r] = q]
    OBVIOUS
<1>3. /\ q \in Process /\ q.at = place /\ q.kind = p.kind /\ q.threw = p.threw
      /\ q.listed = p.listed
    BY <1>1 DEF Process, Places
<1> HIDE DEF q
<1>4. run'[r] = q
    BY <1>1, <1>2
<1>5. TypeOK'
    <2>1. run' \in [Runs -> Process]
        BY <1>1, <1>2, <1>3
    <2>2. UNCHANGED <<records, storage, remote, ledger, session, faults>>
        BY DEF records, storage, remote
    <2> QED
        BY <2>1, <2>2 DEF IInv, TypeOK, records, storage, remote
<1>6. QuietGoes(r, q) /\ OthersKept(r)
    BY <1>1, <1>2, <1>3 DEF QuietGoes, OthersKept, ArtifactsOf, Recording, UnderWay
<1>7. StoredAsListed(r)'
    BY <1>1, <1>3, <1>4 DEF RunKnows, StoredAsListed
<1>8. ledger[r] = None
    BY <1>1 DEF RunKnows, ChargedAtEnd
<1>9. RunKnows(r)'
    BY <1>1, <1>3, <1>4, <1>7, <1>8
        DEF RunKnows, IdleKnows, ChargedAtEnd, McpKnows, PlanKnows
<1> QED
    BY <1>5, <1>6, <1>9, QuietStep

LEMMA LeaseIInv ==
    ASSUME IInv, NEW r \in Runs, Lease(r) PROVE IInv'
<1>1. status' \in [Runs -> {"NONE", "RUNNING", "SUCCEEDED", "FAILED"}]
    BY DEF Lease, IInv, TypeOK
<1> QED
    BY <1>1, StartsStep DEF Lease, BeforeTry, storage, records, remote

LEMMA TouchSessionIInv ==
    ASSUME IInv, NEW r \in Runs, TouchSession(r) PROVE IInv'
<1> DEFINE place == FirstPlace(run[r].kind)
<1>1. /\ place \in {"touch", "resolve", "seed", "command"}
      /\ run[r].kind = "mcp" => place \in {"touch", "resolve"}
    BY DEF FirstPlace
<1>2. status' \in [Runs -> {"NONE", "RUNNING", "SUCCEEDED", "FAILED"}]
    BY DEF TouchSession, IInv, TypeOK
<1> HIDE DEF place
<1>3. run' = [run EXCEPT ![r].at = place]
    BY DEF TouchSession, place
<1> QED
    BY <1>1, <1>2, <1>3, StartsStep DEF TouchSession, BeforeTry, storage, records, remote

LEMMA FinishIInv ==
    ASSUME IInv, NEW r \in Runs, Finish(r) PROVE IInv'
<1> DEFINE p == run[r]
           place == IF p.kind \in {"browser", "native"} THEN "look" ELSE "bill"
           q == [p EXCEPT !.at = place]
<1>1. /\ run \in [Runs -> Process] /\ p \in Process /\ p.at = "finish" /\ RunKnows(r)
      /\ UNCHANGED <<artifacts, objects, bucket, browser, navigations, late, mixed, ledger,
                     failures, toolCalls, session, faults>>
    BY DEF Finish, IInv, TypeOK, storage, records, remote
<1>2. run' = [run EXCEPT ![r] = q]
    BY DEF Finish
<1>3. place \in {"look", "bill"} /\ (p.kind = "mcp" => place = "bill")
    OBVIOUS
<1> HIDE DEF place
<1>4. /\ q \in Process /\ q.at = place /\ q.kind = p.kind /\ q.threw = p.threw
      /\ q.listed = p.listed /\ q.exit = p.exit
    BY <1>1, <1>3 DEF Process, Places
<1> HIDE DEF q
<1>5. run'[r] = q
    BY <1>1, <1>2
<1>6. TypeOK'
    <2>1. status' \in [Runs -> {"NONE", "RUNNING", "SUCCEEDED", "FAILED"}]
        BY DEF Finish, IInv, TypeOK
    <2> QED
        BY <1>1, <1>2, <1>4, <2>1 DEF IInv, TypeOK
<1>7. QuietGoes(r, q) /\ OthersKept(r)
    BY <1>1, <1>2, <1>3, <1>4 DEF QuietGoes, OthersKept, ArtifactsOf, Recording, UnderWay
<1>8. StoredAsListed(r)'
    BY <1>1, <1>4, <1>5 DEF RunKnows, StoredAsListed
<1>9. ledger[r] = None
    BY <1>1 DEF RunKnows, ChargedAtEnd
<1>10. RunKnows(r)'
    BY <1>1, <1>3, <1>4, <1>5, <1>8, <1>9
        DEF RunKnows, IdleKnows, ChargedAtEnd, McpKnows, PlanKnows
<1> QED
    BY <1>6, <1>7, <1>10, QuietStep

LEMMA KindsAreFinite == IsFiniteSet(ArtifactKinds)
<1>1. ArtifactKinds = {"STDOUT"} \cup {"STDERR"} \cup {"JSON"} \cup {"SCREENSHOT"} \cup {"TRACE"}
    BY DEF ArtifactKinds
<1> QED
    BY <1>1, FS_Singleton, FS_Union

(* As many kinds of artifacts are listed as artifacts are stored.               *)
LEMMA ListedCounts ==
    ASSUME NEW r \in Runs, NEW listed \in SUBSET ArtifactKinds, artifacts \subseteq Artifact,
           \A k \in ArtifactKinds : [run |-> r, kind |-> k] \in artifacts <=> k \in listed
    PROVE  Cardinality(listed) \in Nat /\ Cardinality(ArtifactsOf(r)) = Cardinality(listed)
<1>1. IsFiniteSet(listed)
    BY KindsAreFinite, FS_Subset
<1> DEFINE f == [k \in listed |-> [run |-> r, kind |-> k]]
<1>2. f \in Bijection(listed, ArtifactsOf(r))
    <2>1. \A k \in listed : f[k] \in ArtifactsOf(r)
        BY DEF ArtifactsOf
    <2>2. \A k, m \in listed : f[k] = f[m] => k = m
        BY DEF ArtifactKinds
    <2>3. \A a \in ArtifactsOf(r) : \E k \in listed : f[k] = a
        <3> SUFFICES ASSUME NEW a \in ArtifactsOf(r) PROVE \E k \in listed : f[k] = a
            OBVIOUS
        <3>1. a \in Artifact /\ a.run = r /\ a.kind \in ArtifactKinds
            BY DEF ArtifactsOf, Artifact
        <3>2. a = [run |-> r, kind |-> a.kind]
            BY <3>1 DEF Artifact
        <3>3. a \in artifacts
            BY DEF ArtifactsOf
        <3>4. a.kind \in listed
            BY <3>1, <3>2, <3>3
        <3> QED
            BY <3>2, <3>4
    <2> QED
        BY <2>1, <2>2, <2>3, Fun_IsBij
<1> QED
    BY <1>1, <1>2, FS_Bijection, FS_CardinalityType DEF ExistsBijection

LEMMA BillIInv ==
    ASSUME IInv, NEW r \in Runs, Bill(r) PROVE IInv'
<1> DEFINE p == run[r]
           q == Over(p, "done")
           mcp == IF p.kind = "mcp" /\ p.exit = 0 THEN 1 ELSE 0
           charge == [storage |-> Cardinality(p.listed), provider |-> p.stepsTaken,
                      mcp |-> mcp]
<1>1. /\ run \in [Runs -> Process] /\ p \in Process /\ p.at = "bill" /\ RunKnows(r)
      /\ ledger \in [Runs -> {None} \cup Charge] /\ artifacts \subseteq Artifact
      /\ UNCHANGED <<status, artifacts, objects, bucket, browser, navigations, late, mixed,
                     failures, toolCalls, session, faults>>
    BY DEF Bill, IInv, TypeOK, storage, records, remote
<1>2. run' = [run EXCEPT ![r] = q] /\ ledger' = [ledger EXCEPT ![r] = charge]
    BY DEF Bill
<1>3. q \in Process /\ q.at = "done" /\ q.kind = p.kind /\ q.threw = p.threw
    <2>1. "done" \in Places
        BY DEF Places
    <2> QED
        BY <1>1, <2>1, OverFields
<1>4. p.listed \in SUBSET ArtifactKinds /\ p.stepsTaken \in Nat
    BY <1>1 DEF Process
<1>5. mcp \in {0, 1} /\ (p.kind = "mcp" /\ ~p.threw => mcp = 1) /\ (p.kind # "mcp" => mcp = 0)
    BY <1>1 DEF RunKnows, McpKnows
<1>6. Cardinality(p.listed) \in Nat
    BY <1>4, KindsAreFinite, FS_Subset, FS_CardinalityType
<1> HIDE DEF q, mcp
<1>7. charge \in Charge /\ charge.storage = Cardinality(p.listed) /\ charge.mcp = mcp
    BY <1>4, <1>5, <1>6 DEF Charge
<1> HIDE DEF charge
<1>8. run'[r] = q /\ ledger'[r] = charge
    BY <1>1, <1>2
<1>9. TypeOK'
    BY <1>1, <1>2, <1>3, <1>7 DEF IInv, TypeOK
<1>10. QuietGoes(r, q) /\ OthersKept(r)
    BY <1>1, <1>2, <1>3 DEF QuietGoes, OthersKept, ArtifactsOf, Recording, UnderWay
<1>11. ~q.threw => charge.storage = Cardinality(ArtifactsOf(r)')
    <2> SUFFICES ASSUME ~p.threw PROVE Cardinality(p.listed) = Cardinality(ArtifactsOf(r))
        BY <1>1, <1>3, <1>7 DEF ArtifactsOf
    <2>1. \A k \in ArtifactKinds : [run |-> r, kind |-> k] \in artifacts <=> k \in p.listed
        BY <1>1 DEF RunKnows, StoredAsListed
    <2> QED
        BY <1>1, <1>4, <2>1, ListedCounts
<1>12. ChargedAtEnd(r)'
    BY <1>3, <1>5, <1>7, <1>8, <1>11 DEF ChargedAtEnd
<1>13. RunKnows(r)'
    BY <1>1, <1>3, <1>8, <1>12 DEF RunKnows, IdleKnows, StoredAsListed, McpKnows, PlanKnows
<1> QED
    BY <1>9, <1>10, <1>13, QuietStep

-------------------------------------------------------------------------------
(* recordBrowserNavigation: the read, the upsert, the navigation.               *)

(* One more navigation moves the browser where it landed, if it landed.         *)
LEMMA WentOn ==
    ASSUME NEW navs \in Seq(Navigation), NEW n \in Navigation, NEW url
    PROVE  /\ Landed(n) => WentLast(Landing(n), Append(navs, n))
           /\ ~Landed(n) /\ WentLast(url, navs) => WentLast(url, Append(navs, n))
<1> DEFINE more == Append(navs, n)
<1>1. PICK len \in Nat : len = Len(navs)
    OBVIOUS
<1>2. /\ Len(more) = len + 1 /\ more[len + 1] = n
      /\ \A i \in 1..len : more[i] = navs[i]
    BY <1>1
<1> HIDE DEF more
<1>3. 1..Len(more) = 1..(len + 1) /\ 1..Len(navs) = 1..len
    BY <1>1, <1>2
<1>4. ASSUME Landed(n) PROVE WentLast(Landing(n), more)
    <2>1. len + 1 \in 1..Len(more) /\ \A j \in 1..Len(more) : j <= len + 1
        BY <1>3
    <2> QED
        BY <1>2, <1>4, <2>1 DEF WentLast
<1>5. ASSUME ~Landed(n), WentLast(url, navs) PROVE WentLast(url, more)
    <2>1. \A j \in 1..Len(more) : Landed(more[j]) => j \in 1..len /\ more[j] = navs[j]
        BY <1>2, <1>3, <1>5
    <2>2. CASE url = None /\ \A i \in 1..Len(navs) : ~Landed(navs[i])
        BY <1>3, <2>1, <2>2 DEF WentLast
    <2>3. ASSUME NEW i \in 1..Len(navs), Landed(navs[i]), url = Landing(navs[i]),
                 \A j \in 1..Len(navs) : Landed(navs[j]) => j <= i
          PROVE  WentLast(url, more)
        <3>1. i \in 1..Len(more) /\ more[i] = navs[i]
            BY <1>2, <1>3
        <3>2. \A j \in 1..Len(more) : Landed(more[j]) => j <= i
            BY <1>3, <2>1, <2>3
        <3> QED
            BY <2>3, <3>1, <3>2 DEF WentLast
    <2> QED
        BY <1>5, <2>2, <2>3 DEF WentLast
<1> QED
    BY <1>4, <1>5 DEF more

LEMMA NavigationIsOne ==
    ASSUME NEW r \in Runs, run \in [Runs -> Process]
    PROVE  /\ NavigationOf(r) \in Navigation /\ NavigationOf(r).run = r
           /\ Requested(r) \in Text /\ Final(r) \in {None} \cup Text
           /\ Landed(NavigationOf(r)) <=> run[r].exit = 0 \/ run[r].captured
           /\ run[r].captured => Landing(NavigationOf(r)) = Page(r)
           /\ ~run[r].captured => Landing(NavigationOf(r)) = Requested(r)
<1>1. Task(r) \in Text /\ Address(r) \in Text /\ Page(r) \in Text
    BY DEF Task, Address, Page, Text
<1>2. Requested(r) \in Text /\ Final(r) \in {None} \cup Text /\ Page(r) # None
      /\ (run[r].captured => Final(r) = Page(r)) /\ (~run[r].captured => Final(r) = None)
    BY <1>1 DEF Requested, Final
<1>3. run[r].captured \in BOOLEAN
    BY DEF Process
<1> HIDE DEF Requested, Final
<1> DEFINE n == NavigationOf(r)
<1>4. /\ n \in Navigation /\ n.run = r /\ n.final = Final(r) /\ n.requested = Requested(r)
      /\ n.succeeded = (run[r].exit = 0)
    BY <1>2, <1>3 DEF NavigationOf, Navigation
<1> QED
    BY <1>2, <1>3, <1>4 DEF Landed, Landing

LEMMA LookIInv ==
    ASSUME IInv, NEW r \in Runs, Look(r) PROVE IInv'
<1> DEFINE p == run[r]
           seen == IF browser = None THEN None
                   ELSE [status |-> browser.status, url |-> browser.url]
           q == [p EXCEPT !.at = "session", !.seen = seen]
<1>1. /\ run \in [Runs -> Process] /\ p \in Process /\ p.at = "look" /\ RunKnows(r)
      /\ browser \in {None} \cup Browser
      /\ UNCHANGED <<status, artifacts, objects, bucket, browser, navigations, ledger,
                     failures, toolCalls, session, late, faults>>
    BY DEF Look, IInv, TypeOK, storage, remote
<1>2. run' = [run EXCEPT ![r] = q]
    BY DEF Look
<1>3. seen \in {None} \cup Seen
    BY <1>1 DEF Seen, Browser
<1>4. (seen = None <=> browser = None) /\ (browser # None => seen.url = browser.url)
    <2>1. browser # None => [status |-> browser.status, url |-> browser.url] \in Seen
        BY <1>1 DEF Seen, Browser
    <2> QED
        BY <2>1
<1> HIDE DEF seen
<1>5. /\ q \in Process /\ q.at = "session" /\ q.kind = p.kind /\ q.threw = p.threw
      /\ q.listed = p.listed /\ q.seen = seen
    BY <1>1, <1>3 DEF Process, Places
<1> HIDE DEF q
<1>6. run'[r] = q /\ \A s \in Runs : s # r => run'[s] = run[s]
    BY <1>1, <1>2
<1>7. TypeOK'
    <2>1. mixed' \in BOOLEAN
        BY DEF Look, IInv, TypeOK
    <2> QED
        BY <1>1, <1>2, <1>5, <2>1 DEF IInv, TypeOK
<1>8. ASSUME NEW s \in Runs PROVE RunKnows(s)'
    <2>1. CASE s = r
        <3>1. StoredAsListed(r)'
            BY <1>1, <1>5, <1>6 DEF RunKnows, StoredAsListed
        <3>2. ledger[r] = None
            BY <1>1 DEF RunKnows, ChargedAtEnd
        <3> QED
            BY <1>1, <1>5, <1>6, <2>1, <3>1, <3>2
                DEF RunKnows, IdleKnows, ChargedAtEnd, McpKnows, PlanKnows
    <2>2. CASE s # r
        BY <1>1, <1>6, <2>2, RunUntouched DEF IInv, ArtifactsOf
    <2> QED
        BY <2>1, <2>2
<1>9. BrowserKnown'
    <2> SUFFICES ASSUME ~mixed' PROVE BrowserKnown'
        BY DEF BrowserKnown
    <2>1. ~mixed /\ \A s \in Runs : run[s].at \notin Recording
        BY DEF Look
    <2>2. Agrees(browser, navigations)
        BY <2>1 DEF IInv, BrowserKnown, Recording
    <2>3. Recorders' \subseteq {r}
        BY <1>6, <2>1 DEF Recorders
    <2>4. ASSUME NEW s \in Runs PROVE RecorderKnows(s)'
        <3>1. CASE s = r
            BY <1>1, <1>4, <1>5, <1>6, <3>1 DEF RecorderKnows
        <3>2. CASE s # r
            BY <1>6, <2>1, <3>2 DEF RecorderKnows, Recording
        <3> QED
            BY <3>1, <3>2
    <2>5. Agrees(browser, navigations)'
        BY <1>1, <2>2
    <2> QED
        BY <2>3, <2>4, <2>5 DEF BrowserKnown
<1>10. SessionKnown'
    BY <1>1, <1>5, <1>6 DEF IInv, SessionKnown, OnlyLateRunsReopen, UnderWay
<1> QED
    BY <1>7, <1>8, <1>9, <1>10 DEF IInv

LEMMA UpsertSessionIInv ==
    ASSUME IInv, NEW r \in Runs, UpsertSession(r) PROVE IInv'
<1> DEFINE p == run[r]
           row == [status |-> Derived(r).status, url |-> Derived(r).url,
                   open |-> TRUE, last |-> r]
           q == [p EXCEPT !.at = "navigation", !.seen = None]
           url == Derived(r).url
<1>1. /\ run \in [Runs -> Process] /\ p \in Process /\ p.at = "session" /\ RunKnows(r)
      /\ browser \in {None} \cup Browser /\ navigations \in Seq(Navigation)
      /\ UNCHANGED <<status, artifacts, objects, bucket, navigations, ledger,
                     failures, toolCalls, session, late, mixed, faults>>
    BY DEF UpsertSession, IInv, TypeOK, storage, remote
<1>2. run' = [run EXCEPT ![r] = q] /\ browser' = row
    BY DEF UpsertSession
<1>3. /\ q \in Process /\ q.at = "navigation" /\ q.kind = p.kind /\ q.threw = p.threw
      /\ q.listed = p.listed /\ q.exit = p.exit /\ q.captured = p.captured
    BY <1>1 DEF Process, Places
<1>4. /\ NavigationOf(r) \in Navigation /\ NavigationOf(r).run = r /\ Requested(r) \in Text
      /\ Landed(NavigationOf(r)) <=> p.exit = 0 \/ p.captured
      /\ p.captured => Landing(NavigationOf(r)) = Page(r)
      /\ ~p.captured => Landing(NavigationOf(r)) = Requested(r)
    BY <1>1, NavigationIsOne
<1>5. /\ Derived(r).status \in {"ACTIVE", "FAILED"}
      /\ url = IF p.captured THEN Page(r)
               ELSE IF p.exit = 0 THEN Requested(r)
               ELSE IF p.seen = None THEN None ELSE p.seen.url
    BY DEF Derived
<1>6. url \in {None} \cup Text
    <2>1. Page(r) \in Text
        BY DEF Page, Text
    <2>2. p.seen # None => p.seen.url \in {None} \cup Text
        BY <1>1 DEF Process, Seen
    <2> QED
        BY <1>4, <1>5, <2>1, <2>2
<1> HIDE DEF url
<1>7. row \in Browser /\ row.last = r /\ row.url = url /\ row # None
    <2>1. row.last = r /\ row.url = url
        BY DEF url
    <2>2. row = [status |-> Derived(r).status, url |-> url, open |-> TRUE, last |-> r]
        BY DEF url
    <2>3. row \in Browser
        BY <1>5, <1>6, <2>2 DEF Browser
    <2> QED
        BY <2>1, <2>3
<1> HIDE DEF row, q
<1>8. run'[r] = q /\ \A s \in Runs : s # r => run'[s] = run[s]
    BY <1>1, <1>2
<1>9. TypeOK'
    BY <1>1, <1>2, <1>3, <1>7 DEF IInv, TypeOK
<1>10. ASSUME NEW s \in Runs PROVE RunKnows(s)'
    <2>1. CASE s = r
        <3>1. StoredAsListed(r)'
            BY <1>1, <1>3, <1>8 DEF RunKnows, StoredAsListed
        <3>2. ledger[r] = None
            BY <1>1 DEF RunKnows, ChargedAtEnd
        <3> QED
            BY <1>1, <1>3, <1>8, <2>1, <3>1, <3>2
                DEF RunKnows, IdleKnows, ChargedAtEnd, McpKnows, PlanKnows
    <2>2. CASE s # r
        BY <1>1, <1>8, <2>2, RunUntouched DEF IInv, ArtifactsOf
    <2> QED
        BY <2>1, <2>2
<1>11. BrowserKnown'
    <2> SUFFICES ASSUME ~mixed PROVE BrowserKnown'
        BY <1>1 DEF BrowserKnown
    <2>1. \A s \in Runs : s # r => run[s].at \notin Recording
        BY <1>1 DEF IInv, BrowserKnown, Recorders, Recording
    <2>2. Agrees(browser, navigations) /\ RecorderKnows(r)
        BY <1>1, <2>1 DEF IInv, BrowserKnown, Recording
    <2>3. WentLast(url, Append(navigations, NavigationOf(r)))
        <3>1. CASE p.captured \/ p.exit = 0
            <4>1. url = Landing(NavigationOf(r)) /\ Landed(NavigationOf(r))
                BY <1>4, <1>5, <3>1
            <4> QED
                BY <1>1, <1>4, <4>1, WentOn
        <3>2. CASE ~(p.captured \/ p.exit = 0)
            <4>1. ~Landed(NavigationOf(r))
                BY <1>4, <3>2
            <4>2. WentLast(url, navigations)
                <5>1. CASE browser = None
                    <6>1. url = None /\ navigations = <<>>
                        BY <1>1, <1>5, <2>2, <3>2, <5>1 DEF RecorderKnows, Agrees
                    <6> QED
                        BY <6>1 DEF WentLast
                <5>2. CASE browser # None
                    <6>1. url = browser.url
                        BY <1>1, <1>5, <2>2, <3>2, <5>2 DEF RecorderKnows
                    <6> QED
                        BY <2>2, <5>2, <6>1 DEF Agrees
                <5> QED
                    BY <5>1, <5>2
            <4> QED
                BY <1>1, <1>4, <4>1, <4>2, WentOn
        <3> QED
            BY <3>1, <3>2
    <2>4. Agrees(row, Append(navigations, NavigationOf(r)))
        <3> DEFINE more == Append(navigations, NavigationOf(r))
        <3>1. more # <<>> /\ more[Len(more)] = NavigationOf(r)
            BY <1>1, <1>4
        <3> QED
            BY <1>4, <1>7, <2>3, <3>1 DEF Agrees
    <2>5. NavigationOf(r)' = NavigationOf(r)
        BY <1>3, <1>8 DEF NavigationOf, Requested, Final, Task, Address, Page
    <2>6. Agrees(browser', Append(navigations', NavigationOf(r)'))
        BY <1>1, <1>2, <2>4, <2>5
    <2>7. RecorderKnows(r)'
        BY <1>2, <1>3, <1>7, <1>8, <2>6 DEF RecorderKnows
    <2>8. \A s \in Runs : RecorderKnows(s)'
        BY <1>8, <2>1, <2>7 DEF RecorderKnows, Recording
    <2>9. Recorders' \subseteq {r} /\ run'[r].at = "navigation"
        BY <1>3, <1>8, <2>1 DEF Recorders
    <2> QED
        BY <2>8, <2>9 DEF BrowserKnown
<1>12. SessionKnown'
    <2>1. session.ended => r \in late
        BY <1>1 DEF IInv, SessionKnown, UnderWay
    <2>2. session.ended => \A s \in Runs : UnderWay(run'[s]) => s \in late
        BY <1>8, <2>1 DEF IInv, SessionKnown
    <2>3. session.termination # "open" => session.ended
        BY DEF IInv, SessionKnown
    <2>4. OnlyLateRunsReopen'
        BY <1>1, <1>2, <1>7, <2>1, <2>3 DEF OnlyLateRunsReopen
    <2> QED
        BY <1>1, <1>2, <1>7, <2>2, <2>3, <2>4 DEF SessionKnown
<1> QED
    BY <1>9, <1>10, <1>11, <1>12 DEF IInv

LEMMA UpsertNavigationIInv ==
    ASSUME IInv, NEW r \in Runs, UpsertNavigation(r) PROVE IInv'
<1> DEFINE p == run[r]
           q == [p EXCEPT !.at = "bill"]
<1>1. /\ run \in [Runs -> Process] /\ p \in Process /\ p.at = "navigation" /\ RunKnows(r)
      /\ navigations \in Seq(Navigation)
      /\ UNCHANGED <<status, artifacts, objects, bucket, browser, ledger,
                     failures, toolCalls, session, late, mixed, faults>>
    BY DEF UpsertNavigation, IInv, TypeOK, storage, remote
<1>2. run' = [run EXCEPT ![r] = q] /\ navigations' = Append(navigations, NavigationOf(r))
    BY DEF UpsertNavigation, NavigationOf
<1>3. /\ q \in Process /\ q.at = "bill" /\ q.kind = p.kind /\ q.threw = p.threw
      /\ q.listed = p.listed /\ q.exit = p.exit
    BY <1>1 DEF Process, Places
<1> HIDE DEF q
<1>4. run'[r] = q /\ \A s \in Runs : s # r => run'[s] = run[s]
    BY <1>1, <1>2
<1>5. TypeOK'
    <2>1. navigations' \in Seq(Navigation)
        BY <1>1, <1>2, NavigationIsOne
    <2> QED
        BY <1>1, <1>2, <1>3, <2>1 DEF IInv, TypeOK
<1>6. ASSUME NEW s \in Runs PROVE RunKnows(s)'
    <2>1. CASE s = r
        <3>1. StoredAsListed(r)'
            BY <1>1, <1>3, <1>4 DEF RunKnows, StoredAsListed
        <3>2. ledger[r] = None
            BY <1>1 DEF RunKnows, ChargedAtEnd
        <3> QED
            BY <1>1, <1>3, <1>4, <2>1, <3>1, <3>2
                DEF RunKnows, IdleKnows, ChargedAtEnd, McpKnows, PlanKnows
    <2>2. CASE s # r
        BY <1>1, <1>4, <2>2, RunUntouched DEF IInv, ArtifactsOf
    <2> QED
        BY <2>1, <2>2
<1>7. BrowserKnown'
    <2> SUFFICES ASSUME ~mixed PROVE BrowserKnown'
        BY <1>1 DEF BrowserKnown
    <2>1. \A s \in Runs : s # r => run[s].at \notin Recording
        BY <1>1 DEF IInv, BrowserKnown, Recorders, Recording
    <2>2. RecorderKnows(r)
        BY DEF IInv, BrowserKnown
    <2>3. \A s \in Runs : run'[s].at \notin Recording
        BY <1>3, <1>4, <2>1 DEF Recording
    <2>4. Agrees(browser', navigations')
        BY <1>1, <1>2, <2>2 DEF RecorderKnows
    <2> QED
        BY <2>3, <2>4 DEF BrowserKnown, Recorders, RecorderKnows, Recording
<1>8. SessionKnown'
    BY <1>1, <1>3, <1>4 DEF IInv, SessionKnown, OnlyLateRunsReopen, UnderWay
<1> QED
    BY <1>5, <1>6, <1>7, <1>8 DEF IInv

-------------------------------------------------------------------------------
(* The session ends, and what goes wrong.                                       *)
LEMMA EndSessionIInv ==
    ASSUME IInv, EndSession PROVE IInv'
<1>1. /\ UNCHANGED <<run, status, artifacts, objects, bucket, browser, navigations, ledger,
                     failures, toolCalls, mixed, faults>>
      /\ session' = [session EXCEPT !.ended = TRUE, !.termination = "reading"]
      /\ late' = IF session.ended THEN late
                 ELSE {r \in Runs : run[r].at \notin {"idle", "done", "lost"}}
    BY DEF EndSession, storage, remote
<1>2. TypeOK'
    BY <1>1 DEF IInv, TypeOK, Terminations
<1>3. ASSUME NEW s \in Runs PROVE RunKnows(s)'
    BY <1>1, RunUntouched DEF IInv, ArtifactsOf
<1>4. BrowserKnown'
    BY <1>1 DEF IInv, BrowserKnown, Recorders, RecorderKnows, NavigationOf, Requested, Final,
                Task, Address, Page
<1>5. SessionKnown'
    <2>1. session'.ended /\ session'.termination = "reading"
        BY <1>1 DEF IInv, TypeOK
    <2>2. \A r \in Runs : UnderWay(run[r]) => r \in late'
        BY <1>1 DEF IInv, SessionKnown, UnderWay
    <2> QED
        BY <1>1, <2>1, <2>2 DEF SessionKnown, OnlyLateRunsReopen
<1> QED
    BY <1>2, <1>3, <1>4, <1>5 DEF IInv

LEMMA ReadBrowserIInv ==
    ASSUME IInv, ReadBrowser PROVE IInv'
<1>1. /\ UNCHANGED <<run, status, artifacts, objects, bucket, browser, navigations, ledger,
                     failures, toolCalls, late, mixed, faults>>
      /\ session.termination = "reading"
      /\ session' = IF browser = None THEN [session EXCEPT !.termination = "closed"]
                    ELSE [session EXCEPT !.termination = "closing", !.seen = browser.status]
    BY DEF ReadBrowser, storage, remote, records
<1>2. TypeOK'
    <2>1. browser # None => browser.status \in {"ACTIVE", "FAILED", "CLOSED"}
        BY DEF IInv, TypeOK, Browser
    <2> QED
        BY <1>1, <2>1 DEF IInv, TypeOK, Terminations
<1>3. ASSUME NEW s \in Runs PROVE RunKnows(s)'
    BY <1>1, RunUntouched DEF IInv, ArtifactsOf
<1>4. BrowserKnown'
    BY <1>1 DEF IInv, BrowserKnown, Recorders, RecorderKnows, NavigationOf, Requested, Final,
                Task, Address, Page
<1>5. SessionKnown'
    <2>1. /\ session'.ended = session.ended
          /\ browser = None => session'.termination = "closed"
          /\ browser # None => session'.termination = "closing"
        BY <1>1 DEF IInv, TypeOK
    <2> QED
        BY <1>1, <2>1 DEF IInv, SessionKnown, OnlyLateRunsReopen
<1> QED
    BY <1>2, <1>3, <1>4, <1>5 DEF IInv

LEMMA CloseBrowserIInv ==
    ASSUME IInv, CloseBrowser PROVE IInv'
<1> DEFINE place == IF session.seen = "FAILED" THEN "FAILED" ELSE "CLOSED"
<1>1. /\ UNCHANGED <<run, status, artifacts, objects, bucket, navigations, ledger,
                     failures, toolCalls, late, mixed, faults>>
      /\ session.termination = "closing"
      /\ session' = [session EXCEPT !.termination = "closed"]
      /\ browser' = [browser EXCEPT !.status = place, !.open = FALSE]
    BY DEF CloseBrowser, storage, remote
<1>2. browser \in Browser /\ browser # None
    BY <1>1 DEF IInv, TypeOK, SessionKnown
<1>3. /\ browser' \in Browser /\ browser'.last = browser.last /\ browser'.url = browser.url
      /\ browser'.open = FALSE
    BY <1>1, <1>2 DEF Browser
<1>4. browser' # None
    BY <1>3
<1>5. TypeOK'
    BY <1>1, <1>3 DEF IInv, TypeOK, Terminations
<1>6. ASSUME NEW s \in Runs PROVE RunKnows(s)'
    BY <1>1, RunUntouched DEF IInv, ArtifactsOf
<1>7. BrowserKnown'
    <2> SUFFICES ASSUME ~mixed PROVE BrowserKnown'
        BY <1>1 DEF BrowserKnown
    <2>1. ASSUME NEW navs, Agrees(browser, navs) PROVE Agrees(browser', navs)
        BY <1>2, <1>3, <1>4, <2>1 DEF Agrees
    <2>2. ASSUME NEW s \in Runs PROVE RecorderKnows(s)'
        <3>1. RecorderKnows(s)
            BY DEF IInv, BrowserKnown
        <3>2. NavigationOf(s)' = NavigationOf(s)
            BY <1>1 DEF NavigationOf, Requested, Final, Task, Address, Page
        <3>3. Append(navigations, NavigationOf(s))' = Append(navigations, NavigationOf(s))
            BY <1>1, <3>2
        <3> QED
            BY <1>1, <1>2, <1>3, <1>4, <2>1, <3>1, <3>3 DEF RecorderKnows
    <2>3. (\A r \in Runs : run[r].at # "navigation") => Agrees(browser', navigations)
        BY <2>1 DEF IInv, BrowserKnown
    <2>4. \A r, s \in Recorders : r = s
        BY DEF IInv, BrowserKnown
    <2> QED
        BY <1>1, <2>2, <2>3, <2>4 DEF BrowserKnown, Recorders
<1>8. SessionKnown'
    <2>1. session'.ended = session.ended /\ session'.termination = "closed" /\ session.ended
        BY <1>1 DEF IInv, TypeOK, SessionKnown
    <2> QED
        BY <1>1, <1>3, <2>1 DEF IInv, SessionKnown, OnlyLateRunsReopen
<1> QED
    BY <1>5, <1>6, <1>7, <1>8 DEF IInv

LEMMA ThrowIInv ==
    ASSUME IInv, NEW r \in Runs, Throw(r) PROVE IInv'
<1> DEFINE p == run[r]
<1>1. /\ run \in [Runs -> Process] /\ p \in Process /\ RunKnows(r) /\ mixed \in BOOLEAN
      /\ UNCHANGED <<status, artifacts, objects, browser, navigations, ledger,
                     failures, toolCalls, session, late>>
      /\ mixed' = (mixed \/ p.at = "navigation")
    BY DEF Throw, IInv, TypeOK, remote
<1>2. /\ bucket' \in {"unknown", "ready", "broken"} /\ mixed' \in BOOLEAN
      /\ faults' \in 0..MaxFaults
    BY DEF Throw, IInv, TypeOK
<1>3. ASSUME NEW q \in Process, run' = [run EXCEPT ![r] = q] PROVE TypeOK'
    BY <1>1, <1>2, <1>3 DEF IInv, TypeOK
<1>4. ASSUME p.at \in InTry \cup {"fail"}, run' = [run EXCEPT ![r] = Caught(p)]
      PROVE  IInv'
    <2>1. p.at \in Trying /\ p.at # "navigation"
        BY <1>4 DEF InTry, Trying
    <2>2. TypeOK'
        BY <1>1, <1>3, <1>4, CaughtFields
    <2>3. mixed' = mixed
        BY <1>1, <2>1
    <2>4. TryGoes(r, Caught(p))
        BY <1>1, <1>4, <2>3 DEF TryGoes
    <2> QED
        BY <2>1, <2>2, <2>4, CaughtStep
<1>5. ASSUME p.at \in McpTry, run' = [run EXCEPT ![r].at = "fail"]
      PROVE  IInv'
    <2> DEFINE q == [p EXCEPT !.at = "fail"]
    <2>1. /\ q \in Process /\ q.at = "fail" /\ q.kind = p.kind /\ q.threw = p.threw
          /\ q.listed = p.listed
        BY <1>1 DEF Process, Places
    <2>2. run' = [run EXCEPT ![r] = q]
        BY <1>5
    <2> HIDE DEF q
    <2>3. p.at \in Trying /\ p.at # "navigation"
        BY <1>5 DEF McpTry, Trying
    <2>4. TypeOK'
        BY <1>3, <2>1, <2>2
    <2>5. mixed' = mixed
        BY <1>1, <2>3
    <2>6. TryGoes(r, q)
        BY <1>1, <2>2, <2>5 DEF TryGoes
    <2>7. Tries(p, q) /\ McpKnows(q, toolCalls'[r])
        BY <2>1, <2>3 DEF Tries, Trying, PlanKnows, McpKnows
    <2> QED
        BY <2>4, <2>6, <2>7, TryingStep
<1>6. ASSUME p.at \in BeforeTry \cup AfterTry, run' = [run EXCEPT ![r] = Over(p, "lost")]
      PROVE  IInv'
    <2> DEFINE q == Over(p, "lost")
    <2>1. q \in Process /\ q.at = "lost" /\ q.kind = p.kind /\ q.threw = p.threw
        <3>1. "lost" \in Places
            BY DEF Places
        <3> QED
            BY <1>1, <3>1, OverFields
    <2> HIDE DEF q
    <2>2. run' = [run EXCEPT ![r] = q]
        BY <1>6 DEF q
    <2>3. run'[r] = q /\ \A s \in Runs : s # r => run'[s] = run[s]
        BY <1>1, <2>2
    <2>4. TypeOK'
        BY <1>3, <2>1, <2>2
    <2>5. ASSUME NEW s \in Runs PROVE RunKnows(s)'
        <3>1. CASE s = r
            <4>1. p.at \notin {"idle", "done", "lost"}
                BY <1>6 DEF BeforeTry, AfterTry
            <4>2. ledger[r] = None
                BY <1>1, <4>1 DEF RunKnows, ChargedAtEnd
            <4> QED
                BY <1>1, <2>1, <2>3, <3>1, <4>2
                    DEF RunKnows, IdleKnows, StoredAsListed, ChargedAtEnd, McpKnows, PlanKnows
        <3>2. CASE s # r
            BY <1>1, <2>3, <3>2, RunUntouched DEF IInv, ArtifactsOf
        <3> QED
            BY <3>1, <3>2
    <2>6. BrowserKnown'
        <3> SUFFICES ASSUME ~mixed, p.at # "navigation" PROVE BrowserKnown'
            BY <1>1 DEF BrowserKnown
        <3>1. Recorders' \subseteq Recorders
            BY <2>1, <2>3 DEF Recorders, Recording
        <3>2. \A s \in Runs : run'[s].at = "navigation" <=> run[s].at = "navigation"
            BY <2>1, <2>3
        <3>3. ASSUME NEW s \in Runs PROVE RecorderKnows(s)'
            <4>1. CASE s = r
                BY <2>1, <2>3, <4>1 DEF RecorderKnows
            <4>2. CASE s # r
                <5>1. run'[s] = run[s] /\ RecorderKnows(s)
                    BY <2>3, <4>2 DEF IInv, BrowserKnown
                <5>2. NavigationOf(s)' = NavigationOf(s)
                    BY <5>1 DEF NavigationOf, Requested, Final, Task, Address, Page
                <5>3. Append(navigations, NavigationOf(s))' = Append(navigations, NavigationOf(s))
                    BY <1>1, <5>2
                <5> QED
                    BY <1>1, <5>1, <5>3 DEF RecorderKnows
            <4> QED
                BY <4>1, <4>2
        <3> QED
            BY <1>1, <3>1, <3>2, <3>3 DEF IInv, BrowserKnown
    <2>7. SessionKnown'
        BY <1>1, <2>1, <2>3 DEF IInv, SessionKnown, OnlyLateRunsReopen, UnderWay
    <2> QED
        BY <2>4, <2>5, <2>6, <2>7 DEF IInv
<1> QED
    BY <1>4, <1>5, <1>6 DEF Throw

LEMMA CrashIInv ==
    ASSUME IInv, Crash PROVE IInv'
<1>1. /\ run \in [Runs -> Process]
      /\ UNCHANGED <<status, artifacts, objects, browser, navigations, ledger,
                     failures, toolCalls, late>>
      /\ run' = [r \in Runs |-> IF run[r].at \in {"idle", "done"} THEN run[r]
                                ELSE Over(run[r], "lost")]
      /\ mixed' = (mixed \/ \E r \in Runs : run[r].at = "navigation")
      /\ session' = IF session.termination \in {"reading", "closing"}
                    THEN [session EXCEPT !.termination = "interrupted"] ELSE session
    BY DEF Crash, IInv, TypeOK, remote
<1>2. ASSUME NEW s \in Runs
      PROVE  /\ run'[s] \in Process /\ run'[s].at \in {"idle", "done", "lost"}
             /\ run[s].at \in {"idle", "done"} => run'[s] = run[s]
             /\ run[s].at \notin {"idle", "done"} =>
                   run'[s].at = "lost" /\ run'[s].kind = run[s].kind
    <2>1. run[s] \in Process /\ "lost" \in Places
        BY <1>1 DEF Places
    <2>2. /\ Over(run[s], "lost") \in Process /\ Over(run[s], "lost").at = "lost"
          /\ Over(run[s], "lost").kind = run[s].kind
        BY <2>1, OverFields
    <2> QED
        BY <1>1, <2>1, <2>2
<1>3. TypeOK'
    <2>1. run' \in [Runs -> Process]
        BY <1>1, <1>2
    <2>2. faults' \in 0..MaxFaults /\ bucket' \in {"unknown", "ready", "broken"}
          /\ mixed' \in BOOLEAN
        BY <1>1 DEF Crash, IInv, TypeOK
    <2>3. session' \in [ended: BOOLEAN, termination: Terminations,
                        seen: {"ACTIVE", "FAILED", "CLOSED"}]
        BY <1>1 DEF IInv, TypeOK, Terminations
    <2> QED
        BY <1>1, <2>1, <2>2, <2>3 DEF IInv, TypeOK
<1>4. ASSUME NEW s \in Runs PROVE RunKnows(s)'
    <2>1. CASE run[s].at \in {"idle", "done"}
        BY <1>1, <1>2, <2>1, RunUntouched DEF IInv, ArtifactsOf
    <2>2. CASE run[s].at \notin {"idle", "done"}
        <3>1. ledger[s] = None
            BY <2>2 DEF IInv, RunKnows, ChargedAtEnd
        <3> QED
            BY <1>1, <1>2, <2>2, <3>1
                DEF RunKnows, IdleKnows, StoredAsListed, ChargedAtEnd, McpKnows, PlanKnows
    <2> QED
        BY <2>1, <2>2
<1>5. BrowserKnown'
    <2> SUFFICES ASSUME ~mixed, \A r \in Runs : run[r].at # "navigation" PROVE BrowserKnown'
        BY <1>1 DEF BrowserKnown
    <2>1. Agrees(browser, navigations)
        BY DEF IInv, BrowserKnown
    <2>2. Agrees(browser', navigations')
        BY <1>1, <2>1
    <2>3. \A s \in Runs : run'[s].at \notin Recording
        BY <1>2 DEF Recording
    <2> QED
        BY <2>2, <2>3 DEF BrowserKnown, Recorders, RecorderKnows, Recording
<1>6. SessionKnown'
    <2>1. /\ session'.ended = session.ended
          /\ session'.termination \in {"closed", "closing"} => session' = session
          /\ session.termination = "open" => session'.termination = "open"
          /\ session'.termination # "closing"
        BY <1>1 DEF IInv, TypeOK
    <2>2. \A s \in Runs : ~UnderWay(run'[s])
        BY <1>2 DEF UnderWay
    <2> QED
        BY <1>1, <2>1, <2>2 DEF IInv, SessionKnown, OnlyLateRunsReopen
<1> QED
    BY <1>3, <1>4, <1>5, <1>6 DEF IInv

-------------------------------------------------------------------------------
LEMMA InitIInv ==
    ASSUME Init PROVE IInv
<1>1. \A r \in Runs : run[r] = Idle /\ run[r] \in Process
    BY IdleIsProcess DEF Init
<1>2. Idle.at = "idle" /\ Idle.listed = {} /\ Idle.kind = "exec"
    BY DEF Idle
<1>3. TypeOK
    <2>1. run \in [Runs -> Process]
        BY IdleIsProcess DEF Init
    <2>2. session \in [ended: BOOLEAN, termination: Terminations,
                       seen: {"ACTIVE", "FAILED", "CLOSED"}]
        BY DEF Init, Terminations
    <2>3. navigations \in Seq(Navigation) /\ toolCalls \in [Runs -> Nat] /\ faults \in 0..MaxFaults
        BY DEF Init
    <2> QED
        BY <2>1, <2>2, <2>3 DEF Init, TypeOK
<1>4. ASSUME NEW r \in Runs PROVE RunKnows(r)
    BY <1>1, <1>2 DEF Init, RunKnows, IdleKnows, StoredAsListed, ChargedAtEnd, McpKnows, PlanKnows
<1>5. BrowserKnown
    <2>1. \A r \in Runs : run[r].at \notin Recording
        BY <1>1, <1>2 DEF Recording
    <2>2. Agrees(browser, navigations)
        BY DEF Init, Agrees
    <2> QED
        BY <2>1, <2>2 DEF BrowserKnown, Recorders, RecorderKnows, Recording
<1>6. SessionKnown
    BY DEF Init, SessionKnown, OnlyLateRunsReopen
<1> QED
    BY <1>3, <1>4, <1>5, <1>6 DEF IInv

LEMMA NextIInv ==
    ASSUME IInv, [Next]_vars PROVE IInv'
<1>1. ASSUME NEW r \in Runs, Work(r) PROVE IInv'
    BY <1>1, LeaseIInv, TouchSessionIInv, ResolveBindingIInv, RunCommandIInv, SeedIInv, AskOpenAiIInv, AskAnthropicIInv, ActIInv, CallIInv,
       RecordSuccessIInv, RecordFailureIInv, PutIInv, CreateRowIInv, FinishIInv, LookIInv,
       UpsertSessionIInv, UpsertNavigationIInv, BillIInv DEF Work
<1>2. ASSUME NEW r \in Runs, Begin(r) \/ Throw(r) PROVE IInv'
    BY <1>2, BeginIInv, ThrowIInv
<1>3. CASE EndSession \/ ReadBrowser \/ CloseBrowser \/ Crash
    BY <1>3, EndSessionIInv, ReadBrowserIInv, CloseBrowserIInv, CrashIInv
<1>4. CASE UNCHANGED vars
    <2>1. /\ UNCHANGED <<run, status, artifacts, objects, bucket, browser, navigations, ledger,
                         failures, toolCalls, session, late, mixed, faults>>
        BY <1>4 DEF vars
    <2>2. TypeOK'
        BY <2>1 DEF IInv, TypeOK
    <2>3. ASSUME NEW s \in Runs PROVE RunKnows(s)'
        BY <2>1, RunUntouched DEF IInv, ArtifactsOf
    <2>4. BrowserKnown'
        BY <2>1 DEF IInv, BrowserKnown, Recorders, RecorderKnows, NavigationOf, Requested, Final,
                    Task, Address, Page
    <2>5. SessionKnown'
        BY <2>1 DEF IInv, SessionKnown, OnlyLateRunsReopen
    <2> QED
        BY <2>2, <2>3, <2>4, <2>5 DEF IInv
<1> QED
    BY <1>1, <1>2, <1>3, <1>4 DEF Next

(* What every request knows holds in every state.                               *)
THEOREM InvariantHolds == Spec => []IInv
<1>1. Init => IInv
    BY InitIInv
<1>2. IInv /\ [Next]_vars => IInv'
    BY NextIInv
<1> QED
    BY <1>1, <1>2, PTL DEF Spec

(* Every variable keeps to the values the columns and locals it stands for have. *)
THEOREM TypeCorrect == Spec => []TypeOK
<1>1. IInv => TypeOK
    BY DEF IInv
<1> QED
    BY <1>1, InvariantHolds, PTL

(* Whatever its kind and however often it retried, a charged run whose runtime  *)
(* did not throw is charged the artifacts it stored and, if it called a remote  *)
(* tool, a call that ran (applyExecutionBilling).                               *)
THEOREM RunsAreChargedForTheirStorage == Spec => []ChargedForWhatItStored
<1>1. IInv => ChargedForWhatItStored
    <2> SUFFICES ASSUME IInv, NEW r \in Runs, ledger[r] # None, ~run[r].threw
                 PROVE  /\ ledger[r].storage = Cardinality({a \in artifacts : a.run = r})
                        /\ (ledger[r].mcp = 1) <=> (run[r].kind = "mcp" /\ toolCalls[r] > 0)
        BY DEF ChargedForWhatItStored
    <2>1. ChargedAtEnd(r) /\ McpKnows(run[r], toolCalls[r])
        BY DEF IInv, RunKnows
    <2>2. run[r].kind = "mcp" => toolCalls[r] > 0
        BY <2>1 DEF ChargedAtEnd, McpKnows
    <2> QED
        BY <2>1, <2>2 DEF ChargedAtEnd, ArtifactsOf
<1> QED
    BY <1>1, InvariantHolds, PTL

(* However many runs have recorded, as long as no recording overlapped another  *)
(* or was cut short, the browser session is where the last navigation that      *)
(* landed left it (recordBrowserNavigation).                                    *)
THEOREM BrowserFollowsNavigations == Spec => []BrowserIsWhereItWentLast
<1>1. IInv => BrowserIsWhereItWentLast
    <2> DEFINE landed == {i \in 1..Len(navigations) : Landed(navigations[i])}
               latest == CHOOSE i \in landed : \A j \in landed : j <= i
    <2> SUFFICES ASSUME IInv, ~mixed, \A r \in Runs : run[r].at \notin Recording
                 PROVE  /\ (browser = None) <=> (navigations = <<>>)
                        /\ browser # None =>
                             /\ browser.last = navigations[Len(navigations)].run
                             /\ browser.url = IF landed = {} THEN None
                                              ELSE Landing(navigations[latest])
        BY DEF BrowserIsWhereItWentLast
    <2>1. Agrees(browser, navigations)
        BY DEF IInv, BrowserKnown, Recording
    <2>2. ASSUME browser # None
          PROVE  browser.url = IF landed = {} THEN None ELSE Landing(navigations[latest])
        <3>1. WentLast(browser.url, navigations)
            BY <2>1, <2>2 DEF Agrees
        <3>2. CASE browser.url = None /\ \A i \in 1..Len(navigations) : ~Landed(navigations[i])
            <4>1. landed = {}
                BY <3>2
            <4> QED
                BY <3>2, <4>1
        <3>3. ASSUME NEW i \in 1..Len(navigations), Landed(navigations[i]),
                     browser.url = Landing(navigations[i]),
                     \A j \in 1..Len(navigations) : Landed(navigations[j]) => j <= i
              PROVE  browser.url = IF landed = {} THEN None ELSE Landing(navigations[latest])
            <4>1. i \in landed /\ \A j \in landed : j <= i
                BY <3>3
            <4>2. latest \in landed /\ \A j \in landed : j <= latest
                BY <4>1
            <4>3. latest = i
                <5>1. latest \in Int /\ i \in Int
                    BY <4>2
                <5> HIDE DEF latest
                <5> QED
                    BY <4>1, <4>2, <5>1
            <4> QED
                BY <3>3, <4>1, <4>3
        <3> QED
            BY <3>1, <3>2, <3>3 DEF WentLast
    <2> QED
        BY <2>1, <2>2 DEF Agrees
<1> QED
    BY <1>1, InvariantHolds, PTL

(* However many runs race its end, a session's browser is left open only by one *)
(* that was under way at that moment (terminateComputeSession).                 *)
THEOREM LateRunsReopen == Spec => []OnlyLateRunsReopen
<1>1. IInv => OnlyLateRunsReopen
    BY DEF IInv, SessionKnown
<1> QED
    BY <1>1, InvariantHolds, PTL
===============================================================================
