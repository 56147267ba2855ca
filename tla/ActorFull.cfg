SPECIFICATION Spec
CONSTANTS
  Jobs = {1, 2, 3, 4, 5, 6}
  Tubes = {"default", "a", "b"}
  TubeOf <- MCTubeOf
  Excess = 1
  DELETE_REC_LEN = 2
  UPDATE_REC_LEN = 2
  SEG_HEADER_LEN = 1
  seg_size = 8
  Deployments <- BothFail
INVARIANTS RecoverySound
CHECK_DEADLOCK FALSE
