-------------------------- MODULE CapabilityPolicy --------------------------
(***************************************************************************)
(* The policy engine: what a stack of capability profiles says of a tool   *)
(* request.  A profile is a set of rules and the conditions under which it *)
(* applies; managed profiles are asked in order of precedence, then the    *)
(* representative's own.                                                   *)
(*                                                                         *)
(* A rule's patterns are regular expressions over the command, the path or *)
(* the domain.  Here a request has a subject, the class its command, its   *)
(* normalised path or its tool falls in, and a rule has the set of the     *)
(* subjects its patterns accept.  No profile has two rules of the same     *)
(* priority and no two managed profiles that apply to a contact have the   *)
(* same precedence, so that sorting leaves no choice.                      *)
(***************************************************************************)
EXTENDS Naturals

Capabilities == {"exec", "read", "write", "process", "browser", "mcp"}
Subjects == {"readonly", "plain", "complex", "workspace", "secret", "outside", "page", "tool"}
Decisions == {"allow", "ask", "deny"}
Plans == {"none", "pass", "deep_help"}
Channels == {"private_chat", "group_mention"}
Tiers == {"standard", "verified"}

\* What a rule or a profile says when it sets no condition of that kind.
AnyCondition == "any"
NoLimit == 100000

\* A contact as the engine sees it: trust tier, customer account or "none",
\* the plan the conversation unlocked, and the channel it runs in.
Contact == [tier : Tiers, account : {"none", "customer"}, plan : Plans, channel : Channels]

-----------------------------------------------------------------------------
(* Rules.                                                                  *)

Scope(capability) ==
  CASE capability = "browser" -> "browser_lane"
    [] capability = "mcp"     -> "remote_mcp"
    [] OTHER                  -> "workspace"

\* A pattern on the domain, even one that accepts every domain, rejects a
\* request that names none.
MatchesPatterns(rule, r) ==
  /\ rule.subjects # {} => r.subject \in rule.subjects
  /\ rule.domain => r.domain

Matches(rule, r, who) ==
  /\ rule.capability = r.capability
  /\ MatchesPatterns(rule, r)
  /\ rule.scope \in {AnyCondition, Scope(r.capability)}
  /\ rule.channel \in {AnyCondition, who.channel}

SatisfiesPlan(required, plan) ==
  \/ required = "none"
  \/ plan = required
  \/ required = "pass" /\ plan = "deep_help"

\* What a rule that matches decides: its conditions come before its decision.
RuleDecision(rule, r, who) ==
  IF ~SatisfiesPlan(rule.plan, who.plan) \/ (rule.paid /\ who.plan = "none") THEN "deny"
  ELSE IF r.cost > rule.maxCost \/ rule.approval THEN "ask"
  ELSE rule.decision

Matching(profile, r, who) == {rule \in profile.rules : Matches(rule, r, who)}

First(rules) == CHOOSE rule \in rules : \A other \in rules : other.priority <= rule.priority

-----------------------------------------------------------------------------
(* Profiles.                                                               *)

AppliesTo(profile, who) ==
  /\ profile.enabled
  /\ profile.account \in {AnyCondition, who.account}
  /\ profile.tier \in {AnyCondition, who.tier}

\* The managed profiles that have a word on the request.
Deciding(managed, r, who) ==
  {profile \in managed : AppliesTo(profile, who) /\ Matching(profile, r, who) # {}}

Highest(profiles) ==
  CHOOSE profile \in profiles : \A other \in profiles : other.precedence <= profile.precedence

ProfileDecision(profile, r, who) == RuleDecision(First(Matching(profile, r, who)), r, who)

\* The representative's own profile, default decision included.
BaseDecision(base, r, who) ==
  IF Matching(base, r, who) # {} THEN ProfileDecision(base, r, who) ELSE base.default

\* evaluateCapabilityPolicyStack: of the managed profiles only the first with
\* a matching rule is heard.
StackDecision(managed, base, r, who) ==
  LET deciding == Deciding(managed, r, who)
  IN IF deciding # {} THEN ProfileDecision(Highest(deciding), r, who)
     ELSE BaseDecision(base, r, who)

-----------------------------------------------------------------------------
(* The rules the application writes.                                       *)

Rule(capability, subjects, decision, priority) ==
  [capability |-> capability, subjects |-> subjects, domain |-> FALSE,
   scope |-> Scope(capability), channel |-> AnyCondition, plan |-> "none",
   maxCost |-> NoLimit, paid |-> FALSE, approval |-> FALSE,
   decision |-> decision, priority |-> priority]

Paid(rule, plan) == [rule EXCEPT !.plan = plan, !.paid = TRUE, !.approval = TRUE]

BaseRules ==
  {Rule("exec", {"readonly"}, "allow", 100),
   Rule("read", {"workspace", "secret"}, "allow", 90),
   [Rule("write", {"workspace", "secret"}, "ask", 80) EXCEPT !.approval = TRUE],
   [Rule("browser", {}, "ask", 70) EXCEPT !.domain = TRUE, !.paid = TRUE, !.approval = TRUE]}

GuardrailRules ==
  {[Paid(Rule("browser", {}, "ask", 220), "pass") EXCEPT !.domain = TRUE,
                                                          !.channel = "private_chat"],
   Paid(Rule("process", {}, "ask", 210), "pass"),
   Paid(Rule("mcp", {}, "ask", 208), "pass"),
   Rule("write", {"secret"}, "deny", 205)}

\* An overlay's settings: one decision for the browser lane, one for MCP.
OverlayConfig ==
  [enabled : BOOLEAN, browser : Decisions, browserApproval : BOOLEAN,
   mcp : Decisions, mcpApproval : BOOLEAN, plan : Plans \ {"none"}]

OverlayRules(config, priority) ==
  LET OverlayRule(capability, decision, approval, rank) ==
        [Rule(capability, {}, decision, rank) EXCEPT
           !.channel = "private_chat", !.plan = config.plan, !.paid = TRUE, !.approval = approval]
  IN {OverlayRule("browser", config.browser, config.browserApproval, priority),
      OverlayRule("mcp", config.mcp, config.mcpApproval, priority - 5)}

Managed(precedence, enabled, tier, account, rules) ==
  [precedence |-> precedence, enabled |-> enabled, tier |-> tier, account |-> account,
   default |-> "ask", rules |-> rules]

Guardrail == Managed(100, TRUE, AnyCondition, AnyCondition, GuardrailRules)
OwnerBaseline(config) ==
  Managed(80, config.enabled, AnyCondition, AnyCondition, OverlayRules(config, 160))
\* Mutant: the trusted customers' overlay is layered above the guardrail.
TrustedCustomer_Above(config, tier) ==
  Managed(120, config.enabled, tier, AnyCondition, OverlayRules(config, 170))
TrustedCustomer(config, tier) ==
  Managed(90, config.enabled, tier, AnyCondition, OverlayRules(config, 170))
OrganizationBaseline(config) ==
  Managed(95, config.enabled, AnyCondition, AnyCondition, OverlayRules(config, 180))
CustomerAccount(config) ==
  Managed(110, config.enabled, AnyCondition, "customer", OverlayRules(config, 190))

BaseProfile(default) ==
  [precedence |-> 0, enabled |-> TRUE, tier |-> AnyCondition, account |-> AnyCondition,
   default |-> default, rules |-> BaseRules]

\* The overlays a representative is created with.
DefaultBaseline ==
  [enabled |-> TRUE, browser |-> "ask", browserApproval |-> TRUE,
   mcp |-> "ask", mcpApproval |-> TRUE, plan |-> "pass"]
DefaultTrusted ==
  [enabled |-> TRUE, browser |-> "ask", browserApproval |-> TRUE,
   mcp |-> "allow", mcpApproval |-> FALSE, plan |-> "pass"]
=============================================================================
