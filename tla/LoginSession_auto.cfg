CONSTANTS
  alice = alice
  bob = bob
  User = {alice, bob}
  NoUser = NoUser
  OtherItem = OtherItem
  AutoItem = AutoItem
  TimedUser = alice
  AskingSteps = {}
  RenamingSteps = {}
  WorkerFaults = {}
  MaxTries = 2
  PatientUser = TRUE
  PromptUser = FALSE
  TimedLogin = "at_once"
  MigratableUser = {bob}
  PromptGreeter = FALSE
  MaxConversations = 2
SPECIFICATION FairSpec
PROPERTIES AutoLoginDecided
CHECK_DEADLOCK FALSE
