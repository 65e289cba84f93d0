--------------------------- MODULE MCToolRequests ---------------------------
(***************************************************************************)
(* Instances of ToolRequests for TLC: requests of every capability, setups *)
(* that open and close the network and the files, an overlay that asks,    *)
(* one that allows and one that denies, bindings that offer one tool or    *)
(* all of them.                                                            *)
(***************************************************************************)
EXTENDS ToolRequests

Ask(capability, subject, target, body, cost) ==
  [capability |-> capability, subject |-> subject, domain |-> capability = "mcp", cost |-> cost,
   target |-> target, body |-> body, native |-> FALSE, mutates |-> FALSE]

NativeRun(mutates) ==
  [Ask("browser", "page", Nothing, "task", 0) EXCEPT !.native = TRUE, !.mutates = mutates]

AudienceRequests ==
  {Ask("exec", "readonly", "command", Nothing, 5), Ask("process", "plain", "command", Nothing, 7),
   Ask("process", "complex", "command", Nothing, 7),
   Ask("read", "workspace", "file", Nothing, 2), Ask("read", "outside", "file", Nothing, 2),
   Ask("write", "workspace", "file", "text", 60), Ask("write", "secret", "file", "text", 5),
   Ask("browser", "page", "url", Nothing, 10), NativeRun(FALSE), NativeRun(TRUE),
   Ask("mcp", "tool", Nothing, "arguments", 13), Ask("mcp", "tool", "remove", "arguments", 13)}

ComputeSetups ==
  {[default |-> "allow", network |-> "full", allowlist |-> {}, files |-> "workspace_only",
    autoApprove |-> 0],
   [default |-> "allow", network |-> "allowlist", allowlist |-> {"listed"},
    files |-> "read_only_workspace", autoApprove |-> 6]}

Overlay(decision, approval, plan) ==
  [enabled |-> TRUE, browser |-> decision, browserApproval |-> approval,
   mcp |-> decision, mcpApproval |-> approval, plan |-> plan]
OwnerOverlays == {Overlay("allow", FALSE, "pass"), Overlay("deny", FALSE, "deep_help")}

McpBindings ==
  {[enabled |-> TRUE, host |-> "listed", tools |-> {}, approval |-> FALSE],
   [enabled |-> TRUE, host |-> "unlisted", tools |-> {"lookup"}, approval |-> TRUE]}

TelegramAudience ==
  {[tier |-> "verified", account |-> "none", plan |-> "none", channel |-> "private_chat"]}
=============================================================================
