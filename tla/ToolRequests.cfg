\* One execution at a time, under every order in which settings are saved.
CONSTANTS
  Executions = {e1}
  Nothing = Nothing
  Requests <- AudienceRequests
  Setups <- ComputeSetups
  OverlayConfigs <- OwnerOverlays
  Bindings <- McpBindings
  Audience <- TelegramAudience
  CreditLevels = {3, 40}
SPECIFICATION RequestsSpec
INVARIANTS
  GuardrailStands
  RunIsWhatWasAsked
PROPERTIES
  UnapprovedRunsStayInside
CHECK_DEADLOCK FALSE
