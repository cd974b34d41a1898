\* Two instances whose clocks differ, one plan id proposed twice.
SPECIFICATION TraceSpec
CONSTANTS
  Processes = {1, 2}
  Threads = {"a", "b"}
  ProcessOf <- MCOneEach
  Ids = {p1}
  NoId = NoId
  MaxTime = 2
  MaxEvents = 7
INVARIANT EmptyMeansConsistent
