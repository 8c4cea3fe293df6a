\* epoll_create1 may fail in EventLoop::Start.
SPECIFICATION Safety
CONSTANTS
  Handlers = {h1}
  Threads = {t1}
  Removers = {}
  Reusable = {}
  LoopThread = loopThread
  MaxEvents = 1
  OpenMayFail = TRUE
INVARIANT
  SelectorOpen
