CONSTANTS
  A = A
  B = B
  host1 = host1
  Manager = {A, B}
  Host = {host1}
  Number = {0}
  LastSession <- Two
  MaxStarts = 2
  MaxSessions = 2
  MaxPending = 1
  MaxPerHost = 2
  MaxForward = 1
  HonorIndirect = TRUE
  LocalDisplay = TRUE
  Server = A
  QueryTypes = {"QUERY", "INDIRECT_QUERY"}
  Unresolvable = Unresolvable
  Choices = {A, B, Unresolvable}
  PromptBus = TRUE
  MaxTroubles = 0
SPECIFICATION FairSpec
CHECK_DEADLOCK FALSE
INVARIANTS ChoiceExpected
PROPERTIES ChoiceReached
