SPECIFICATION FairSpec
CONSTANTS
  Workers = {w1, w2}
  Events = {e1, e2}
  NoEvent = NoEvent
  MaxMishaps = 1
  MaxKills = 1
  MaxRepeats = 1
INVARIANTS
  TypeOK
  OneProcessRetains
  OneNotificationPerEvent
PROPERTIES
  RetainedIsNotified
  ImplementsEventRecord
CHECK_DEADLOCK FALSE
