SPECIFICATION Spec
CONSTANTS
  LINE_BUF_SIZE = 8
  max_job_size = 2
  MaxU32 = 7
  MaxU64 = 15
  recognize_auth = TRUE
  Num <- MCNum
  Streams <- MCStreams
INVARIANTS ArrivalIndependent PutCompletes 
CHECK_DEADLOCK FALSE
