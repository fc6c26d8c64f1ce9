CONSTANTS
  alice = alice
  bob = bob
  User = {alice, bob}
  NoUser = NoUser
  OtherItem = OtherItem
  AutoItem = AutoItem
  TimedUser = alice
  AskingSteps = {2}
  RenamingSteps = {2, 3, 4, 5}
  WorkerFaults = {"crash", "fork"}
  MaxTries = 2
  PatientUser = FALSE
  PromptUser = FALSE
  TimedLogin = "delayed"
  MigratableUser = {bob}
  PromptGreeter = FALSE
  MaxConversations = 2
SPECIFICATION Spec
INVARIANTS TypeOK QueriesPaired SessionOwnsDisplay FirstTimedLoginWaits
 
CHECK_DEADLOCK FALSE
