\* Another thread, and callbacks, unregister other handlers while the loop
\* runs, stops and restarts.  After a call on a destroyed object ("undefined")
\* the loop thread may stop for good, and everybody with it.
SPECIFICATION Spec
CONSTANTS
  Handlers = {h1, h2}
  Threads = {t1, t2}
  Removers = {t2, loopThread}
  Reusable = {}
  LoopThread = loopThread
  MaxEvents = 1
  OpenMayFail = FALSE
INVARIANT
  WatchedOwned
PROPERTIES
  StopCompletes
  UnregisteredFreed
CHECK_DEADLOCK FALSE
