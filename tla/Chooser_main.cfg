SPECIFICATION FairSpec
CONSTANTS
  alice = alice
  bob = bob
  User = {alice, bob}
  NoUser = NoUser
  OtherItem = OtherItem
  AutoItem = AutoItem
  TimedUser = alice
  MaxStarts = 3
  MaxNews = 2
INVARIANTS TypeOK Settled
PROPERTIES ChoiceReported
CHECK_DEADLOCK FALSE
