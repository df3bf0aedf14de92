\* One tab in full, the others as writers of the storage.
SPECIFICATION FairSpec
CONSTANTS
  Tab = {t1}
  Caller = {t1}
  Account = {a}
  None = None
  MaxPairs = 3
  Ageing = {1}
PROPERTIES
  RetryOtherToken
  CallsEnd
CHECK_DEADLOCK FALSE
