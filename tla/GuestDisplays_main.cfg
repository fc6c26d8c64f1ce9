\* MAX_DISPLAY_FAILURES is 5 in the code; 1 shows a replacement and the last one.
CONSTANTS
  s1 = s1
  s2 = s2
  t1 = t1
  t2 = t2
  StaticDisplay = {s1, s2}
  TransientDisplay = {t1, t2}
  MaxFailures = 1
SPECIFICATION FairGuestSpec
INVARIANTS GuestTypeOK NumbersDistinct OneLoginDisplay NoCallbackOnDropped AccountKept
PROPERTIES LoginComesBack
CHECK_DEADLOCK FALSE
