\* Two workers; a user and a worker's callback add and set timers, with
\* intervals of none, of two seconds and a half, and of one that int wraps.
SPECIFICATION Safety
CONSTANTS
  Timers = {h1, h2}
  Null = null
  Users = {u}
  Workers = {w1, w2}
  LoopThread = loopThread
  Adders = {u, w1}
  Setters = {u}
  Removers = {}
  Intervals = {0, 5, 12}
  PerSecond = 2
  IntRange = 16
  MaxEvents = 1
  MaxQueued = 2
SYMMETRY TimerSymmetry
INVARIANTS OneNullEach StopDrains IntervalsKept
PROPERTY ImplementsEventLoop
CHECK_DEADLOCK FALSE
