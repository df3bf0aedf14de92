SPECIFICATION Spec
CONSTANTS
  Detach = 2
  Stall = 2
  Interval = 1
  Confirm = 2
  Cooldown = 1
  Observe = 1
  MaxConn = 2
PROPERTIES
  DetachedWhenStable
  NoFalseAlarm
  StallActedOn
CHECK_DEADLOCK FALSE
