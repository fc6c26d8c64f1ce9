CONSTANTS
  alice = alice
  bob = bob
  User = {alice, bob}
  NoUser = NoUser
  OtherItem = OtherItem
  AutoItem = AutoItem
  TimedUser = alice
  AskingSteps = {2, 3}
  RenamingSteps = {}
  WorkerFaults = {}
  MaxTries = 2
  PatientUser = FALSE
  PromptUser = FALSE
  TimedLogin = "off"
  MigratableUser = {bob}
  PromptGreeter = FALSE
  MaxConversations = 2
SPECIFICATION Spec
INVARIANTS AuthorityAssertion
CHECK_DEADLOCK FALSE
