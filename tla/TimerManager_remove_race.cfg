\* RemoveTimer while the loop thread dispatches.
SPECIFICATION Safety
CONSTANTS
  Timers = {h1}
  Null = null
  Users = {u}
  Workers = {w1}
  LoopThread = loopThread
  Adders = {u}
  Setters = {}
  Removers = {u}
  Intervals = {1}
  PerSecond = 2
  IntRange = 16
  MaxEvents = 1
  MaxQueued = 1
INVARIANT DispatchAlive
CHECK_DEADLOCK FALSE
