\* A user and a callback remove timers while they expire; room for one event
\* in each epoll_wait.
SPECIFICATION Spec
CONSTANTS
  Timers = {h1, h2}
  Null = null
  Users = {u}
  Workers = {w1}
  LoopThread = loopThread
  Adders = {u}
  Setters = {}
  Removers = {u, w1}
  Intervals = {0, 1}
  PerSecond = 2
  IntRange = 16
  MaxEvents = 1
  MaxQueued = 1
PROPERTIES StopCompletes TimerFires RemovedStaysQuiet RemovedFreed
CHECK_DEADLOCK FALSE
