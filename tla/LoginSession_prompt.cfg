CONSTANTS
  alice = alice
  bob = bob
  User = {alice, bob}
  NoUser = NoUser
  OtherItem = OtherItem
  AutoItem = AutoItem
  TimedUser = alice
  AskingSteps = {2, 3}
  RenamingSteps = {2, 3, 4, 5}
  WorkerFaults = {"fork"}
  MaxTries = 2
  PatientUser = FALSE
  PromptUser = TRUE
  TimedLogin = "off"
  MigratableUser = {bob}
  PromptGreeter = TRUE
  MaxConversations = 3
SPECIFICATION Spec
INVARIANTS AuthorityForOwner
CHECK_DEADLOCK FALSE
