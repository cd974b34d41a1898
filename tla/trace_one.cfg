\* One instance, two threads, a clock that is stepped at will.
SPECIFICATION TraceSpec
CONSTANTS
  Processes = {1}
  Threads = {"a", "b"}
  ProcessOf <- MCOneProcess
  Ids = {p1, p2}
  NoId = NoId
  MaxTime = 1
  MaxEvents = 4
INVARIANTS
  CausesAreShownFirst
  NoFalseAlarm
