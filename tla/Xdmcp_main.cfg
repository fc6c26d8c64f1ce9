CONSTANTS
  A = A
  B = B
  host1 = host1
  Manager = {A, B}
  Host = {host1}
  Number = {0}
  LastSession <- TwoAndOne
  MaxStarts = 2
  MaxSessions = 1
  MaxPending = 1
  MaxPerHost = 1
  MaxForward = 1
  HonorIndirect = TRUE
  LocalDisplay = TRUE
  Server = A
  QueryTypes = {"INDIRECT_QUERY"}
  Unresolvable = Unresolvable
  Choices = {A, B, Unresolvable}
  PromptBus = TRUE
  MaxTroubles = 1
SPECIFICATION Spec
CHECK_DEADLOCK FALSE
INVARIANTS TypeOK OneDisplayPerTerminal ForwardsOnce
PROPERTY SessionsKept
