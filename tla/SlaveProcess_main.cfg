SPECIFICATION FairSpec
CONSTANTS
  MaxTries = 10
  MaxResets = 2
INVARIANTS TypeOK NothingLeft OneOnDisplay
PROPERTIES SlaveEnds
