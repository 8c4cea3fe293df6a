\* Only the loop thread unregisters: callbacks that close themselves, a
\* registering thread, restarts, kept references and a handler that is
\* registered again.
SPECIFICATION Safety
CONSTANTS
  Handlers = {h1, h2}
  Threads = {t1}
  Removers = {}
  Reusable = {h1, h2}
  LoopThread = loopThread
  MaxEvents = 2
  OpenMayFail = FALSE
INVARIANTS
  DispatchAlive
  SelectorOpen
  StoppedQuiet
PROPERTY
  ImplementsLifetime
SYMMETRY Symmetry
