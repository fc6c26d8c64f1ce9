CONSTANTS
  alice = alice
  bob = bob
  User = {alice, bob}
  NoUser = NoUser
  OtherItem = OtherItem
  AutoItem = AutoItem
  TimedUser = alice
  AskingSteps = {2, 3}
  RenamingSteps = {}
  WorkerFaults = {}
  MaxTries = 2
  PatientUser = TRUE
  PromptUser = FALSE
  TimedLogin = "off"
  MigratableUser = {bob}
  PromptGreeter = TRUE
  MaxConversations = 4
SPECIFICATION FairSpec
INVARIANTS NoBlankScreen
PROPERTIES SessionUndisturbed Decided CancelWorks
CHECK_DEADLOCK FALSE
