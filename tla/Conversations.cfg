\* One chat, three updates, collectors of two questions, one fault.
SPECIFICATION FairSpec
CONSTANTS
  Nothing = Nothing
  Representatives <- MCRepresentatives
  Default = "founder"
  Messages <- MCMessages
  ActionGate <- MCActionGate
  FreeReplyLimit <- MCFreeReplyLimit
  QuestionCount = 2
  MaxMessages = 3
  MaxFaults = 1
  MaxDecisions = 2
INVARIANTS
  FreeAnswersBounded
  IntakesInOrder
  OneAwaitingHandoff
  AwaitingIsFollowedUp
PROPERTY EveryUpdateHandled
CHECK_DEADLOCK FALSE
