SPECIFICATION PipelineSpec
CONSTANTS
  AsyncRequests = {"a1", "a2"}
  Callers = {"s1"}
  CpuTasks = {"c1"}
  Capacity = 2
  MaxProbes = 2
  Entries = 2
  MaxSeq = 3
  MaxPolls = 3
PROPERTIES
  PipelineSafe PipelineServed
CHECK_DEADLOCK FALSE
