----------------------------- MODULE TimerManager -----------------------------
(***************************************************************************)
(* xfnet::TimerManager: one timerfd for each timer, an EventLoop that      *)
(* watches them, a queue of shared_ptr<TimerHandler> and worker threads    *)
(* that take handlers from the queue and run their callbacks.              *)
(*                                                                         *)
(* The event loop is the module EventLoop, whose variables are kept here   *)
(* under their own names; its held is the set of handlers of which the     *)
(* queue or a worker has a copy.  The queue is the FIFO sequence that      *)
(* BlockingQueue implements for untimed Pop.  Users are the threads that   *)
(* use the manager; a worker uses it too, from a callback.                 *)
(***************************************************************************)
EXTENDS TimerInterval, Sequences, FiniteSets

CONSTANTS
  Timers,      \* TimerHandler objects, one timerfd each
  Null,        \* the null shared_ptr that tells a worker to exit
  Users,       \* threads outside the manager
  Workers,     \* m_work_threads
  LoopThread,  \* the thread of m_loop
  Adders,      \* the threads that call AddTimer,
  Setters,     \* ... SetTimer
  Removers,    \* ... and RemoveTimer
  Intervals,   \* the intervals they ask for, in milliseconds
  MaxEvents,   \* MAX_EVENTS of Selector::Select
  MaxQueued    \* bound: entries of one timer in the queue

ASSUME TimerAssumption ==
  /\ IsFiniteSet(Workers) /\ Workers # {}
  /\ Null \notin Timers
  /\ Users \cap Workers = {}
  /\ LoopThread \notin Users \cup Workers
  /\ Adders \cup Setters \cup Removers \subseteq Users \cup Workers
  /\ Intervals \subseteq Unsigned
  /\ MaxEvents \in Nat \ {0}
  /\ MaxQueued \in Nat \ {0}

VARIABLES
  m_state, owner, epoll_open, interest, m_handlers,   \* of EventLoop
  loop, batch, cur, stage, arg, fresh, known,
  manager,    \* where the thread that calls Start and Stop is
  to_push,    \* null handlers Stop has still to push
  queue,      \* m_handler_queue
  at,         \* where each worker is
  job,        \* the handler it runs
  clock,      \* the interval of each timerfd, 0 while it is disarmed
  ticked,     \* timers whose timerfd has an expiration to read
  read_done,  \* HandleRead has read the timerfd
  early       \* entries of the queue that were there when Stop began

loopVars  == <<m_state, owner, epoll_open, interest, m_handlers, loop, batch,
               cur, stage, arg, fresh, known>>
timerVars == <<clock, ticked, read_done>>
poolVars  == <<queue, at, job, early>>
stopVars  == <<manager, to_push>>
vars == <<loopVars, timerVars, poolVars, stopVars>>

Queued(h) == \E i \in 1..Len(queue) : queue[i] = h
Running(h) == \E w \in Workers : at[w] = "running" /\ job[w] = h

(* The timers whose timerfd expires.                                       *)
armed == {h \in Timers : clock[h] # 0}

(* The handlers of which the queue or a worker has a shared_ptr.           *)
Held == {h \in Timers : Queued(h) \/ Running(h)}

EL == INSTANCE EventLoop WITH
  Handlers <- Timers, Threads <- Users \cup Workers, Reusable <- {},
  OpenMayFail <- FALSE, held <- Held

Init ==
  /\ manager = "new" /\ to_push = 0
  /\ queue = << >> /\ early = 0
  /\ at = [w \in Workers |-> "none"]
  /\ job = [w \in Workers |-> Null]
  /\ clock = [h \in Timers |-> 0] /\ ticked = {} /\ read_done = FALSE
  /\ EL!Init

-----------------------------------------------------------------------------
(* TimerManager::Start and Stop.                                           *)

StartLoop ==
  /\ manager = "new"
  /\ manager' = "starting"
  /\ UNCHANGED <<to_push, poolVars, timerVars>>
  /\ EL!Start

(* The loop is started; the worker threads begin, and Start returns.       *)
StartWorkers ==
  /\ manager = "starting"
  /\ manager' = "started"
  /\ at' = [w \in Workers |-> "pop"]
  /\ UNCHANGED <<to_push, queue, job, early, timerVars>>
  /\ EL!SetStarted

\* Mutant of StopBegins: one null handler too few.
StopBeginsShort ==
  /\ manager = "started"
  /\ manager' = "push"
  /\ to_push' = Cardinality(Workers) - 1
  /\ early' = Len(queue)
  /\ UNCHANGED <<queue, at, job, timerVars, loopVars>>

StopBegins ==
  /\ manager = "started"
  /\ manager' = "push"
  /\ to_push' = Cardinality(Workers)
  /\ early' = Len(queue)
  /\ UNCHANGED <<queue, at, job, timerVars, loopVars>>

\* Mutant of PushNull: Stop jumps the queue.
PushNullFirst ==
  /\ manager = "push" /\ to_push > 0
  /\ queue' = <<Null>> \o queue
  /\ to_push' = to_push - 1
  /\ UNCHANGED <<manager, at, job, early, timerVars, loopVars>>

(* Stop pushes a null handler for each worker.                             *)
PushNull ==
  /\ manager = "push" /\ to_push > 0
  /\ queue' = Append(queue, Null)
  /\ to_push' = to_push - 1
  /\ UNCHANGED <<manager, at, job, early, timerVars, loopVars>>

\* Mutant of JoinWorkers: Stop does not wait for the workers.
ForgetWorkers ==
  /\ manager = "push" /\ to_push = 0
  /\ manager' = "joined"
  /\ UNCHANGED <<to_push, poolVars, timerVars, loopVars>>

JoinWorkers ==
  /\ manager = "push" /\ to_push = 0
  /\ \A w \in Workers : at[w] = "exited"
  /\ manager' = "joined"
  /\ UNCHANGED <<to_push, poolVars, timerVars, loopVars>>

(* m_loop.Stop().  That the users are out of their calls is up to them;    *)
(* that no callback is in one is up to Stop.                               *)
StopLoop ==
  /\ manager = "joined"
  /\ \A t \in Users : stage[t] = "idle"
  /\ manager' = "stopping"
  /\ m_state = "STARTED" /\ m_state' = "STOPPING"
  /\ owner' = "join"
  /\ UNCHANGED <<epoll_open, interest, m_handlers, loop, batch, cur, stage, arg,
                 fresh, known, to_push, poolVars, timerVars>>

JoinLoop ==
  /\ manager = "stopping"
  /\ manager' = "stopped"
  /\ UNCHANGED <<to_push, poolVars, timerVars>>
  /\ EL!Join

(* A copy of h's shared_ptr goes away with this step: if it was the last   *)
(* but the loop's, the loop's rules say what becomes of the object.        *)
Forget(h) == IF h \in Held' THEN UNCHANGED loopVars ELSE EL!ReleaseReference(h)

(* ~TimerManager destroys the loop and its map, then the queue.            *)
DestroyLoop ==
  /\ manager = "stopped"
  /\ UNCHANGED <<stopVars, poolVars, timerVars>>
  /\ EL!Destroy

DestroyQueue ==
  /\ manager = "stopped" /\ m_handlers = {}
  /\ queue # << >>
  /\ queue' = Tail(queue)
  /\ UNCHANGED <<stopVars, at, job, early, timerVars>>
  /\ Forget(Head(queue))

-----------------------------------------------------------------------------
(* AddTimer, SetTimer and RemoveTimer, by a user or from a callback.       *)

CanCall(t) == /\ manager \in {"started", "push"}
              /\ t \in Workers => at[t] = "running"
              /\ t \in Users => manager = "started"

(* timerfd_settime: an interval of zero disarms the timer.                 *)
SetClock(h, interval_ms) ==
  LET itime == InitTime(interval_ms)
  IN  /\ Accepted(itime)
      /\ clock' = [clock EXCEPT ![h] = Milliseconds(itime)]

(* AddTimer creates the timerfd, sets it, and then registers the handler.  *)
(* (A failing timerfd call only makes it return nullptr.)                  *)
AddTimer(t, h, interval_ms) ==
  /\ CanCall(t)
  /\ SetClock(h, interval_ms)
  /\ UNCHANGED <<ticked, read_done, stopVars, poolVars>>
  /\ EL!RegisterInsert(t, h)

(* The call goes on inside EventLoop::Register; it asks for reading.       *)
AddToSelector(t) ==
  /\ UNCHANGED <<timerVars, stopVars, poolVars>>
  /\ EL!RegisterAdd(t)
  /\ interest'[arg[t]] \in {{}, EL!EVENT_READ}

(* timerfd_settime of a timer that exists also drops the expirations that  *)
(* nobody has read.                                                        *)
SetTimer(t, h, interval_ms) ==
  /\ CanCall(t) /\ stage[t] = "idle"
  /\ h \in known \cap m_handlers
  /\ SetClock(h, interval_ms)
  /\ ticked' = ticked \ {h}
  /\ UNCHANGED <<read_done, stopVars, poolVars, loopVars>>

(* RemoveTimer is EventLoop::Unregister.                                   *)
RemoveTimer(t, h) ==
  /\ CanCall(t)
  /\ UNCHANGED <<timerVars, stopVars, poolVars>>
  /\ EL!RemoveHandler(t, h)

RemoveFromSelector(t) ==
  /\ UNCHANGED <<timerVars, stopVars, poolVars>>
  /\ EL!UnregisterDel(t)

CallReturns(t) ==
  /\ UNCHANGED <<timerVars, stopVars, poolVars>>
  /\ EL!DropReference(t)

-----------------------------------------------------------------------------
(* The timerfds and the loop thread.                                       *)

(* An interval is over.                                                    *)
Expire(h) ==
  /\ h \in armed /\ EL!Alive(h)
  /\ Cardinality({i \in 1..Len(queue) : queue[i] = h}) < MaxQueued
  /\ ticked' = ticked \cup {h}
  /\ UNCHANGED <<clock, read_done, stopVars, poolVars, loopVars>>

LoopStep ==
  /\ UNCHANGED <<timerVars, stopVars, poolVars>>
  /\ EL!LoopTest \/ EL!BatchDone

(* A timerfd is readable while it has an expiration, and reports nothing   *)
(* else.                                                                   *)
EpollWait ==
  /\ UNCHANGED <<timerVars, stopVars, poolVars>>
  /\ EL!EpollWait
  /\ \A h \in Timers : batch'[h] = {} \/ (batch'[h] = {"IN"} /\ h \in ticked)

Dispatch ==
  /\ read_done' = FALSE
  /\ UNCHANGED <<clock, ticked, stopVars, poolVars>>
  /\ EL!Dispatch

\* Mutant of ReadTimer: the expirations are read and nothing is pushed.
ReadAndDrop ==
  /\ loop = "read" /\ ~read_done
  /\ cur \in ticked
  /\ ticked' = ticked \ {cur}
  /\ read_done' = TRUE
  /\ UNCHANGED <<clock, stopVars, poolVars, loopVars>>

(* TimerHandler::HandleRead reads the expirations and pushes a copy of the *)
(* handler's own shared_ptr.                                               *)
ReadTimer ==
  /\ loop = "read" /\ ~read_done
  /\ cur \in ticked
  /\ ticked' = ticked \ {cur}
  /\ queue' = Append(queue, cur)
  /\ read_done' = TRUE
  /\ UNCHANGED <<clock, stopVars, at, job, early>>
  /\ EL!KeepReference

(* Nothing to read: SetTimer has come in between.                          *)
ReadNothing ==
  /\ loop = "read" /\ ~read_done
  /\ cur \notin ticked /\ EL!Alive(cur)
  /\ read_done' = TRUE
  /\ UNCHANGED <<clock, ticked, stopVars, poolVars, loopVars>>

(* RemoveTimer has come in between and the handler is destroyed: what its  *)
(* HandleRead does is undefined.                                           *)
ReadFreed ==
  /\ ~read_done
  /\ UNCHANGED <<timerVars, stopVars, poolVars>>
  /\ EL!CallbackOnFreed

HandleReadReturns ==
  /\ read_done
  /\ UNCHANGED <<timerVars, stopVars, poolVars>>
  /\ EL!HandlerReturns

-----------------------------------------------------------------------------
(* TimerManager::WorkThread.                                               *)

\* Mutant of Pop: a worker puts the null handler back for the others.
PopAndShareNull(w) ==
  /\ at[w] = "pop" /\ queue # << >>
  /\ queue' = IF Head(queue) = Null THEN Append(Tail(queue), Null) ELSE Tail(queue)
  /\ at' = [at EXCEPT ![w] = IF Head(queue) = Null THEN "exited" ELSE "running"]
  /\ job' = [job EXCEPT ![w] = Head(queue)]
  /\ early' = IF early > 0 THEN early - 1 ELSE 0
  /\ UNCHANGED <<stopVars, timerVars, loopVars>>

\* Mutant of Pop: the handler is copied and left in the queue.
PopLeavesEntry(w) ==
  /\ at[w] = "pop" /\ queue # << >>
  /\ at' = [at EXCEPT ![w] = IF Head(queue) = Null THEN "exited" ELSE "running"]
  /\ job' = [job EXCEPT ![w] = Head(queue)]
  /\ early' = IF early > 0 THEN early - 1 ELSE 0
  /\ UNCHANGED <<queue, stopVars, timerVars, loopVars>>

(* Pop moves the shared_ptr from the queue to the worker; a null one ends  *)
(* the thread.                                                             *)
Pop(w) ==
  /\ at[w] = "pop" /\ queue # << >>
  /\ queue' = Tail(queue)
  /\ at' = [at EXCEPT ![w] = IF Head(queue) = Null THEN "exited" ELSE "running"]
  /\ job' = [job EXCEPT ![w] = Head(queue)]
  /\ early' = IF early > 0 THEN early - 1 ELSE 0
  /\ UNCHANGED <<stopVars, timerVars, loopVars>>

(* The callback returns, and the worker's shared_ptr goes away.            *)
CallbackReturns(w) ==
  /\ at[w] = "running" /\ stage[w] = "idle"
  /\ at' = [at EXCEPT ![w] = "pop"]
  /\ job' = [job EXCEPT ![w] = Null]
  /\ UNCHANGED <<queue, early, stopVars, timerVars>>
  /\ Forget(job[w])

-----------------------------------------------------------------------------
ManagerStep == PushNull \/ JoinWorkers \/ StopLoop \/ JoinLoop

CallStep(t) == AddToSelector(t) \/ RemoveFromSelector(t) \/ CallReturns(t)

HandlerStep == ReadTimer \/ ReadNothing \/ ReadFreed \/ HandleReadReturns

Next ==
  \/ StartLoop \/ StartWorkers \/ StopBegins
  \/ ManagerStep
  \/ DestroyLoop \/ DestroyQueue
  \/ LoopStep \/ EpollWait \/ Dispatch \/ HandlerStep
  \/ \E h \in Timers : Expire(h)
  \/ \E w \in Workers : Pop(w) \/ CallbackReturns(w)
  \/ \E t \in Users \cup Workers : CallStep(t)
  \/ \E t \in Adders, h \in Timers, ms \in Intervals : AddTimer(t, h, ms)
  \/ \E t \in Setters, h \in Timers, ms \in Intervals : SetTimer(t, h, ms)
  \/ \E t \in Removers, h \in Timers : RemoveTimer(t, h)

Safety == Init /\ [][Next]_vars

(* epoll does not ignore a readable descriptor for ever: it rotates its    *)
(* list when there are more than MaxEvents.                                *)
EpollReports(h) == EpollWait /\ batch'[h] # {}

(* Threads are scheduled, calls and callbacks return, an armed timerfd     *)
(* expires, and Stop, once begun, goes on.  The queue serves some worker   *)
(* when it holds something (FifoQueue!FifoFairness).                       *)
Fairness ==
  /\ WF_vars(ManagerStep)
  /\ WF_vars(LoopStep \/ EpollWait \/ Dispatch \/ HandlerStep)
  /\ \A h \in Timers : WF_vars(Expire(h)) /\ SF_vars(EpollReports(h))
  /\ WF_vars(\E w \in Workers : Pop(w))
  /\ \A w \in Workers : WF_vars(CallbackReturns(w))
  /\ \A t \in Users \cup Workers : WF_vars(CallStep(t))

Spec == Safety /\ Fairness
-----------------------------------------------------------------------------
(* Every variable has its type.                                            *)
TypeOK ==
  /\ EL!TypeOK
  /\ manager \in {"new", "starting", "started", "push", "joined", "stopping", "stopped"}
  /\ to_push \in 0..Cardinality(Workers)
  /\ queue \in Seq(Timers \cup {Null})
  /\ at \in [Workers -> {"none", "pop", "running", "exited"}]
  /\ job \in [Workers -> Timers \cup {Null}]
  /\ \A w \in Workers : at[w] = "running" => job[w] # Null
  /\ clock \in [Timers -> Nat]
  /\ ticked \subseteq Timers
  /\ read_done \in BOOLEAN
  /\ early \in Nat

Nulls  == {i \in 1..Len(queue) : queue[i] = Null}
Exited == {w \in Workers : at[w] = "exited"}

(* A timer that expires does so with an interval that was asked for, not   *)
(* with what is left of it after a division or a conversion                *)
(* (timer_manager.cpp:54-60).                                              *)
IntervalsKept == \A h \in armed : clock[h] \in Intervals

(* Once Stop has begun there is, for each worker, a null handler to push,  *)
(* one in the queue, or an exit: no worker takes two, none is left without,*)
(* so that Join does not wait for a worker that waits for a null handler.  *)
OneNullEach ==
  manager \in {"push", "joined", "stopping", "stopped"} =>
    Cardinality(Nulls) + to_push + Cardinality(Exited) = Cardinality(Workers)

(* Once Stop has joined the workers no callback runs any more, and every   *)
(* handler that was in the queue when Stop was called has had its callback.*)
StopDrains ==
  manager \in {"joined", "stopping", "stopped"} =>
    /\ \A w \in Workers : at[w] = "exited"
    /\ early = 0

(* Select calls HandleRead of existing timers only (selector.cpp:88-93),   *)
(* whatever RemoveTimer does meanwhile.                                    *)
DispatchAlive == EL!DispatchAlive

(* The manager uses its event loop as EventLoop allows it to: handlers are *)
(* registered once, from threads that are done before the loop stops, and  *)
(* every shared_ptr that comes and goes in the queue and in the workers is *)
(* one that the loop's rules account for.                                  *)
ImplementsEventLoop == EL!Safety

Removed(h) == /\ h \notin fresh \cup m_handlers
              /\ batch[h] = {}
              /\ \A t \in Users \cup Workers : stage[t] # "idle" => arg[t] # h

(* When RemoveTimer has returned, and the loop is through the events it had*)
(* at that moment, the timer is not queued again: only the callbacks queued*)
(* already may still run.                                                  *)
RemovedStaysQuiet ==
  [][\A h \in Timers : Removed(h) => Removed(h)' /\ (Queued(h)' => Queued(h))]_vars

(* The loop thread has called a timer that RemoveTimer has destroyed; what *)
(* becomes of the program then is undefined (see DispatchAlive).           *)
Undefined == loop = "undefined"

(* A Stop that has begun ends, with timers that keep expiring and callbacks*)
(* that use the manager.                                                   *)
StopCompletes == manager = "push" ~> (manager = "stopped" \/ Undefined)

(* A timer that is armed and watched gets its callback again and again,    *)
(* until it is disarmed, removed or stopped.                               *)
TimerFires ==
  \A h \in Timers :
    (h \in armed /\ interest[h] # {} /\ manager = "started") ~>
      (Running(h) \/ h \notin armed \/ h \notin m_handlers \/ manager # "started"
       \/ Undefined)

(* A removed timer is destroyed and its timerfd closed when the callbacks  *)
(* queued before have run.                                                 *)
RemovedFreed ==
  \A h \in Timers : Removed(h) ~> (EL!Destroyed(h) \/ manager # "started" \/ Undefined)
=============================================================================
