\* A complex command is asked before the policy's deny is looked at.
CONSTANTS
  Executions = {e1}
  Nothing = Nothing
  Requests <- AudienceRequests
  Setups <- ComputeSetups
  OverlayConfigs <- OwnerOverlays
  Bindings <- McpBindings
  Audience <- TelegramAudience
  CreditLevels = {3, 40}
SPECIFICATION RequestsSpec
INVARIANTS
  DeniedNeverRuns
CHECK_DEADLOCK FALSE
