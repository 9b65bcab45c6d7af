SPECIFICATION Spec
CONSTANTS
  MaxSpineEvents = 2
  MaxSpineFaults = 1
  MaxGoroutines = 2
  Traces = {"t1", "t2"}
  MaxRuns = 2
  MaxExecEvents = 2
  RingBufferSize = 2
  MinBufferSize = 1
  DefaultBufferSize = 1
  MaxBufferSize = 2
  MaxStreamEvents = 3
CHECK_DEADLOCK FALSE
INVARIANTS LinksFollowMMA
PROPERTIES NeverDeaf AnswerMeansEnded NothingLostInBetween
