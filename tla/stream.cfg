\* A window of three bytes and frames of at most two, bodies of up to five.
SPECIFICATION FairSpec
CONSTANTS
  Window = 3
  Chunk = 2
  Bodies <- Everything
PROPERTIES
  Pipes
  RequestEnds
CHECK_DEADLOCK FALSE
