---------------------------- MODULE ToolRequests ----------------------------
(***************************************************************************)
(* What an audience may have run: the owner's settings, the policy         *)
(* overlays layered on them, the MCP binding, and the tool executions a    *)
(* contact asks for under whatever of it holds at that moment.             *)
(*                                                                         *)
(* Settings are saved from the dashboard at any time, so that an execution *)
(* may be approved under other settings than it was asked under.  Here a   *)
(* broker call is one step: ComputeBroker interleaves its statements, this *)
(* module decides their data.  What the wallet and the conversation have   *)
(* left when a request arrives is any of CreditLevels.                     *)
(***************************************************************************)
EXTENDS CapabilityPolicy

CONSTANTS
  Executions,      \* tool executions that may be asked for
  Requests,        \* what the bot or the dashboard may ask
  Setups,          \* compute settings an owner may save
  OverlayConfigs,  \* settings of one overlay
  Bindings,        \* settings of the MCP binding
  Audience,        \* the contacts a behaviour may start with
  CreditLevels,    \* credits available when a request arrives
  Nothing          \* a field that is NULL

\* The MCP tool a binding calls when the request names none.
DefaultTool == "lookup"
Tools == {DefaultTool, "remove"}
Hosts == {"listed", "unlisted"}

NetworkModes == {"no_network", "allowlist", "full"}
FilesystemModes == {"workspace_only", "read_only_workspace", "ephemeral_full"}
ComputeSetup ==
  [default : Decisions, network : NetworkModes, allowlist : SUBSET Hosts,
   files : FilesystemModes, autoApprove : Nat]

\* ToolExecutionRequest.  The target is the command, the path, the URL or the
\* tool; the body is the content, the native task or the tool's arguments.
Targets == {"command", "file", "url"} \cup Tools
Bodies == {"text", "task", "arguments"}
ToolRequest ==
  [capability : Capabilities, subject : Subjects, domain : BOOLEAN, cost : Nat,
   target : Targets \cup {Nothing}, body : Bodies \cup {Nothing},
   native : BOOLEAN, mutates : BOOLEAN]

\* parseComputeRequest: what a contact may write after /compute.  Only an MCP
\* call may leave its target open, no page is driven natively, and every request
\* states a cost.
StatedCost(capability) ==
  CASE capability = "read"    -> {2}
    [] capability = "browser" -> {10}
    [] capability = "mcp"     -> Nat \ 0..12
    [] capability = "process" -> Nat \ 0..6
    [] OTHER                  -> Nat \ 0..4
ParsedRequest(r) ==
  /\ r.target # Nothing \/ r.capability = "mcp"
  /\ r.body = CASE r.capability = "write" -> "text"
                [] r.capability = "mcp" -> "arguments"
                [] OTHER -> Nothing
  /\ r.cost \in StatedCost(r.capability)
  /\ ~r.native /\ ~r.mutates

\* executeRepresentativeNativeComputerUse: the owner has a task done in the page
\* the browser is on.
NativeRequest(r) ==
  /\ r.capability = "browser" /\ r.native
  /\ r.target = Nothing /\ r.body = "task" /\ r.cost = 0

\* RepresentativeMcpBinding: no allowed tools means every tool.
McpBinding ==
  [enabled : BOOLEAN, host : Hosts, tools : SUBSET Tools, approval : BOOLEAN]

ASSUME ToolRequestsAssumption ==
  /\ Requests \subseteq {r \in ToolRequest : ParsedRequest(r) \/ NativeRequest(r)}
  /\ Setups \subseteq ComputeSetup
  /\ OverlayConfigs \subseteq OverlayConfig
  /\ Bindings \subseteq McpBinding
  /\ Audience \subseteq Contact
  /\ CreditLevels \subseteq Nat
  /\ Nothing \notin Targets \cup Bodies

VARIABLES
  setup,       \* the representative's compute settings
  overlays,    \* the owner's two overlays: baseline, trusted and its tier
  governance,  \* the organization's overlay and the customer account's
  binding,     \* the representative's MCP binding, or Nothing
  contact,     \* the contact the session belongs to
  execution    \* [Executions -> ToolExecution with its approval]

requestVars == <<setup, overlays, governance, binding, contact, execution>>
settings == <<setup, overlays, governance, binding>>

Overlays == [baseline : OverlayConfigs \cup {DefaultBaseline},
             trusted : OverlayConfigs \cup {DefaultTrusted}, tier : Tiers]
DefaultOverlays == [baseline |-> DefaultBaseline, trusted |-> DefaultTrusted, tier |-> "verified"]

\* No organization yet, or its baseline and the customer account, if any.
Governance == [baseline : OverlayConfigs \cup {Nothing}, account : OverlayConfigs \cup {Nothing}]
NoGovernance == [baseline |-> Nothing, account |-> Nothing]

TemplateSetup ==
  [default |-> "ask", network |-> "no_network", allowlist |-> {},
   files |-> "workspace_only", autoApprove |-> 0]

\* The columns of ToolExecution a request is kept in.
StoredRequest ==
  [capability : Capabilities, command : Targets \cup Bodies \cup {Nothing},
   path : Targets \cup {Nothing}, payload : BOOLEAN, task : Bodies \cup {Nothing},
   mutates : BOOLEAN]

NoExecution ==
  [status |-> "NONE", approval |-> "NONE", request |-> Nothing, policy |-> "NONE",
   stored |-> Nothing, ran |-> Nothing]

\* policy is what the profiles decided when it was asked for, ran the request
\* that was carried out.
ExecutionRow ==
  [status : {"BLOCKED", "STARTED", "FAILED", "CANCELED"},
   approval : {"NONE", "PENDING", "APPROVED", "REJECTED"},
   request : ToolRequest, policy : Decisions, stored : StoredRequest,
   ran : ToolRequest \cup {Nothing}]

RequestsTypeOK ==
  /\ setup \in Setups \cup {TemplateSetup}
  /\ overlays \in Overlays
  /\ governance \in Governance
  /\ binding \in Bindings \cup {Nothing}
  /\ contact \in Contact
  /\ execution \in [Executions -> ExecutionRow \cup {NoExecution}]

\* createRepresentative, and a contact whose conversation has just begun.
RequestsInit ==
  /\ setup = TemplateSetup
  /\ overlays = DefaultOverlays
  /\ governance = NoGovernance
  /\ binding = Nothing
  /\ contact \in Audience
  /\ execution = [e \in Executions |-> NoExecution]

-----------------------------------------------------------------------------
(* The settings the dashboard saves.                                       *)

\* updateRepresentativeSetup: upserting the managed profiles puts the owner's
\* overlays back to what a new representative has.
UpdateSetup(s) ==
  /\ setup' = s
  /\ overlays' = DefaultOverlays
  /\ UNCHANGED <<governance, binding, contact, execution>>

UpdateOverlays(baseline, trusted, tier) ==
  /\ overlays' = [baseline |-> baseline, trusted |-> trusted, tier |-> tier]
  /\ UNCHANGED <<setup, governance, binding, contact, execution>>

\* updateRepresentativeOrganizationGovernance: accounts that are not named are
\* deleted with their overlay, every contact is assigned anew.
UpdateGovernance(baseline, account, assigned) ==
  /\ governance' = [baseline |-> baseline, account |-> account]
  /\ contact' = [contact EXCEPT !.account =
                   IF assigned /\ account # Nothing THEN "customer" ELSE "none"]
  /\ UNCHANGED <<setup, overlays, binding, execution>>

UpsertBinding(b) ==
  /\ binding' = b
  /\ UNCHANGED <<setup, overlays, governance, contact, execution>>

\* A paid invoice opens a plan of the conversation.
UnlockPlan ==
  /\ contact' \in {[contact EXCEPT !.plan = plan] :
                     plan \in IF contact.plan = "none" THEN {"pass", "deep_help"} ELSE {"deep_help"}}
  /\ UNCHANGED <<setup, overlays, governance, binding, execution>>

-----------------------------------------------------------------------------
(* What the policy says of a request.                                      *)

\* The managed profiles the broker loads with the session.
ManagedProfiles ==
  {Guardrail, OwnerBaseline(overlays.baseline), TrustedCustomer(overlays.trusted, overlays.tier)}
    \cup (IF governance.baseline = Nothing THEN {} ELSE {OrganizationBaseline(governance.baseline)})
    \cup (IF governance.account = Nothing THEN {} ELSE {CustomerAccount(governance.account)})

PolicyDecision(managed, s, r) == StackDecision(managed, BaseProfile(s.default), r, contact)

BaseCredits(capability) ==
  CASE capability = "browser" -> 8
    [] capability = "mcp"     -> 6
    [] capability = "write"   -> 4
    [] capability = "process" -> 3
    [] OTHER                  -> 2
HalfUp(cents) == (cents + 1) \div 2
EstimateCredits(r) ==
  IF HalfUp(r.cost) > BaseCredits(r.capability) THEN HalfUp(r.cost) ELSE BaseCredits(r.capability)

\* resolveComputeSubagent, and the credits each subagent may spend unasked.
Subagent(capability) == IF capability = "browser" THEN "browser-agent" ELSE "compute-agent"
SubagentBudget(r) == IF Subagent(r.capability) = "browser-agent" THEN 48 ELSE 24

\* The checks of resolveEffectiveDecision that deny, and those that turn an
\* allow into a question; a complex command is asked before any of them.
IsComplex(r) == r.capability \in {"exec", "process"} /\ r.subject = "complex"
DeniesBrowser(s, r) == r.capability = "browser" /\ s.network \in {"no_network", "allowlist"}
DeniesRemote(s, r, host) ==
  /\ r.capability = "mcp"
  /\ s.network = "no_network" \/ (s.network = "allowlist" /\ host \notin s.allowlist)
DeniesWrite(s, r) == r.capability = "write" /\ s.files = "read_only_workspace"
AsksFirst(r) == (r.capability = "browser" /\ r.native /\ r.mutates)
                  \/ EstimateCredits(r) > SubagentBudget(r)
AsksLater(s, r, approval) ==
  \/ s.autoApprove > 0 /\ r.cost > s.autoApprove
  \/ r.capability = "mcp" /\ approval

\* Mutant: the binding's and the budget's questions are not asked.
EffectiveDecision_NoLater(s, r, b, policy, available) ==
  IF IsComplex(r) THEN "ask"
  ELSE IF DeniesBrowser(s, r) THEN "deny"
  ELSE IF AsksFirst(r) /\ policy = "allow" THEN "ask"
  ELSE IF DeniesRemote(s, r, b.host) \/ DeniesWrite(s, r) THEN "deny"
  ELSE IF EstimateCredits(r) > available THEN "deny"
  ELSE policy

\* resolveEffectiveDecision.  The order matters: of two checks that apply the
\* first is the answer.
EffectiveDecision(s, r, b, policy, available) ==
  IF IsComplex(r) THEN "ask"
  ELSE IF DeniesBrowser(s, r) THEN "deny"
  ELSE IF AsksFirst(r) /\ policy = "allow" THEN "ask"
  ELSE IF DeniesRemote(s, r, b.host) \/ DeniesWrite(s, r) THEN "deny"
  ELSE IF AsksLater(s, r, b.approval) /\ policy = "allow" THEN "ask"
  ELSE IF EstimateCredits(r) > available THEN "deny"
  ELSE policy

-----------------------------------------------------------------------------
(* A request, the columns it is kept in, and what is made of them.         *)

\* loadRepresentativeMcpBinding, resolveMcpToolName.
BoundTool(target) == IF target = Nothing THEN DefaultTool ELSE target
AcceptsTool(b, tool) == b # Nothing /\ b.enabled /\ (b.tools # {} => tool \in b.tools)

\* normalizeExecutionInput, after the tool's name was resolved.
Normalized(r) ==
  [r EXCEPT !.target = IF r.capability = "mcp" THEN BoundTool(r.target) ELSE r.target]

\* A path outside the workspace is refused, as is a binding that is disabled,
\* missing or does not offer the tool.
Accepts(r) ==
  /\ r.subject # "outside"
  /\ r.capability = "mcp" => AcceptsTool(binding, BoundTool(r.target))

\* Mutant: what a write is to write is not kept.
PersistedCommand_TargetOnly(r) ==
  IF r.capability = "browser" /\ r.native /\ r.target = Nothing THEN r.body ELSE r.target

\* A native run without a URL leaves its task in the command column.
PersistedCommand(r) ==
  CASE r.capability = "write" -> r.body
    [] r.capability = "browser" /\ r.native /\ r.target = Nothing -> r.body
    [] OTHER -> r.target

Stored(r) ==
  [capability |-> r.capability,
   command |-> PersistedCommand(r),
   path |-> IF r.capability \in {"read", "write"} THEN r.target ELSE Nothing,
   payload |-> r.native,
   task |-> IF r.native \/ r.capability = "mcp" THEN r.body ELSE Nothing,
   mutates |-> r.native /\ r.mutates]

\* reconstructExecutionInput: the request as the row tells it, its cost unknown.
\* The subject goes with the target and is not stored.
Reconstructed(row, r) ==
  [r EXCEPT !.target = IF row.capability \in {"read", "write"} THEN row.path ELSE row.command,
            !.body = IF row.capability = "write" THEN row.command ELSE row.task,
            !.native = row.payload, !.mutates = row.mutates, !.cost = 0, !.domain = FALSE]

\* A command column that holds a task is no URL: the reconstruction throws.
IsReadable(row) == row.capability = "browser" => row.command \notin Bodies

-----------------------------------------------------------------------------
(* Executions.                                                             *)

\* blockExecution, the request for approval, or runAllowedExecution.
Outcome(e, r, policy, decision) ==
  LET Becomes(status, approval, ran) ==
        execution' = [execution EXCEPT ![e] =
          [status |-> status, approval |-> approval, request |-> r, policy |-> policy,
           stored |-> Stored(r), ran |-> ran]]
  IN \/ decision = "deny" /\ Becomes("BLOCKED", "NONE", Nothing)
     \/ decision = "ask" /\ Becomes("BLOCKED", "PENDING", Nothing)
     \/ decision = "allow" /\ Becomes("STARTED", "NONE", r)

NoBinding == [enabled |-> FALSE, host |-> "unlisted", tools |-> {}, approval |-> FALSE]
BindingFor(r) == IF r.capability = "mcp" THEN binding ELSE NoBinding

ExecuteTool(e, r, available) ==
  /\ execution[e] = NoExecution
  /\ Accepts(r)
  /\ LET request == Normalized(r)
         policy == PolicyDecision(ManagedProfiles, setup, request)
     IN Outcome(e, request, policy,
                EffectiveDecision(setup, request, BindingFor(r), policy, available))
  /\ UNCHANGED <<setup, overlays, governance, binding, contact>>

IsPending(e) == execution[e] # NoExecution /\ execution[e].approval = "PENDING"

\* Of a resolved approval the request and its columns stay as they were.
Resolved(e, approval, status, ran) ==
  /\ execution' = [execution EXCEPT ![e] =
       [status |-> status, approval |-> approval, request |-> execution[e].request,
        policy |-> execution[e].policy, stored |-> execution[e].stored, ran |-> ran]]
  /\ UNCHANGED <<settings, contact>>

RejectApproval(e) ==
  /\ IsPending(e)
  /\ Resolved(e, "REJECTED", "CANCELED", Nothing)

\* runMcpExecution looks the binding up again; nothing looks at the policy again.
StillBound(e) ==
  execution[e].request.capability = "mcp" => AcceptsTool(binding, execution[e].stored.command)

ApproveAndRun(e) ==
  /\ IsPending(e)
  /\ IsReadable(execution[e].stored)
  /\ StillBound(e)
  /\ Resolved(e, "APPROVED", "STARTED", Reconstructed(execution[e].stored, execution[e].request))

\* The binding was disabled, or stopped offering the tool: the execution fails.
ApproveAndFail(e) ==
  /\ IsPending(e)
  /\ IsReadable(execution[e].stored)
  /\ ~StillBound(e)
  /\ Resolved(e, "APPROVED", "FAILED", Nothing)

\* APPROVED is committed before the request is read back: when that throws the
\* execution stays blocked.
ApproveInVain(e) ==
  /\ IsPending(e)
  /\ ~IsReadable(execution[e].stored)
  /\ Resolved(e, "APPROVED", "BLOCKED", Nothing)

-----------------------------------------------------------------------------

Save ==
  \/ \E s \in Setups : UpdateSetup(s)
  \/ \E baseline, trusted \in OverlayConfigs, tier \in Tiers : UpdateOverlays(baseline, trusted, tier)
  \/ \E baseline \in OverlayConfigs, account \in OverlayConfigs \cup {Nothing}, assigned \in BOOLEAN :
       UpdateGovernance(baseline, account, assigned)
  \/ \E b \in Bindings : UpsertBinding(b)

\* handleComputeRequest: the bot sends on what a contact wrote.
AskedByContact(e) ==
  \E r \in Requests, available \in CreditLevels : ParsedRequest(r) /\ ExecuteTool(e, r, available)

AskedByOwner(e) ==
  \E r \in Requests, available \in CreditLevels : NativeRequest(r) /\ ExecuteTool(e, r, available)

Execute ==
  \E e \in Executions :
    \/ AskedByContact(e)
    \/ AskedByOwner(e)
    \/ RejectApproval(e)
    \/ ApproveAndRun(e)
    \/ ApproveAndFail(e)
    \/ ApproveInVain(e)

RequestsNext == Save \/ UnlockPlan \/ Execute

RequestsSpec == RequestsInit /\ [][RequestsNext]_requestVars

-----------------------------------------------------------------------------
(* Properties.                                                             *)

\* What the contact asks within the guardrail's rules is decided by the
\* guardrail, whatever the owner, the organization or the representative's own
\* setup say; only an overlay for the contact's customer account outranks it.
GuardrailStands ==
  contact.account = "none" =>
    LET managed == ManagedProfiles
    IN \A r \in Requests :
         Matching(Guardrail, r, contact) # {} =>
           PolicyDecision(managed, setup, r) = ProfileDecision(Guardrail, r, contact)

\* What is carried out, at once or after an approval that came under other
\* settings, is the command, path, page or tool that was asked for, with the
\* content, task or arguments and the liberties it was asked with.
RunIsWhatWasAsked ==
  \A e \in Executions :
    (execution[e] # NoExecution /\ execution[e].ran # Nothing) =>
      LET asked == execution[e].request
          ran == execution[e].ran
      IN /\ <<ran.capability, ran.target, ran.body>> = <<asked.capability, asked.target, asked.body>>
         /\ <<ran.native, ran.mutates>> = <<asked.native, asked.mutates>>

Starts(e) ==
  /\ execution'[e] # NoExecution
  /\ execution'[e].ran # Nothing
  /\ execution[e] = NoExecution \/ execution[e].ran = Nothing

\* Nothing starts without an approval outside what the setup of that moment
\* permits: no complex command, no page or tool without the network, no write to
\* a read-only workspace, no clicking native run, no cost above the limit.
UnapprovedRunsStayInside ==
  [][\A e \in Executions :
       (Starts(e) /\ execution'[e].approval = "NONE") =>
         LET r == execution'[e].request
         IN /\ ~IsComplex(r) /\ ~DeniesBrowser(setup, r) /\ ~DeniesWrite(setup, r)
            /\ ~AsksFirst(r) /\ ~AsksLater(setup, r, BindingFor(r).approval)
            /\ ~DeniesRemote(setup, r, BindingFor(r).host)]_requestVars

\* docs/delegate-architecture-decisions.md:70, "`deny`: forbidden actions never
\* run": a request the policy denied when it was made is never carried out.
DeniedNeverRuns ==
  \A e \in Executions :
    (execution[e] # NoExecution /\ execution[e].policy = "deny") => execution[e].ran = Nothing

=============================================================================
