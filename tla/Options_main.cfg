CONSTANTS
  alice = alice
  bob = bob
  mate = mate
  xfce = xfce
  rescue = rescue
  gone = gone
  en = en
  de = de
  us = us
  fr = fr
  User = {alice, bob}
  OtherUser = OtherUser
  NoName = NoName
  GoneRow = GoneRow
  OtherRow = OtherRow
  Offers = {{"language", "session"}, {"layout"}}
  Items <- Exists
  SystemDefault <- Defaults
  Recent <- Known
  Dmrcs <- Stored
  SaysFailsafe = {rescue}
  NamedFailsafe = {}
  MaxTries = 2
  MaxConversations = 3
  MaxPicks = 1
SPECIFICATION Spec
CHECK_DEADLOCK FALSE
INVARIANTS TypeOK KeptOnRetry
PROPERTIES StartedAsShown Remembered
