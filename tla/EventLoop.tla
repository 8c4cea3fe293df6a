------------------------------ MODULE EventLoop ------------------------------
(***************************************************************************)
(* xfnet::EventLoop, the Selector (epoll) it owns, and the life of the     *)
(* EventHandler objects registered with it.                                *)
(*                                                                         *)
(* The map m_handlers holds a shared_ptr to every registered handler;      *)
(* epoll holds only the raw pointer, and so does the array of events that  *)
(* epoll_wait fills for the loop thread.  An object is destroyed when its  *)
(* last shared_ptr goes away.  Whether an object exists is therefore not a *)
(* variable here but a state function of the places that keep a shared_ptr *)
(* (Alive): the map, the local pointer of a Register or Unregister call in *)
(* progress, and the copies (held) that code outside the loop keeps.       *)
(*                                                                         *)
(* One action is one critical section of m_mutex, one epoll system call,   *)
(* or one stretch of a thread between two of them.                         *)
(***************************************************************************)
EXTENDS Naturals, FiniteSets

CONSTANTS
  Handlers,     \* EventHandler objects; each owns one descriptor
  Threads,      \* threads, other than the loop's, that call Register
  Removers,     \* threads that unregister handlers of others, perhaps the
                \* loop's, in a callback
  Reusable,     \* handlers whose owner keeps a copy and registers it again
  LoopThread,   \* the thread that runs EventLoop::LoopThread
  MaxEvents,    \* MAX_EVENTS, the size of the array given to epoll_wait
  OpenMayFail   \* TRUE: epoll_create1 may fail (descriptor table full)

Callers == Threads \cup {LoopThread}

ASSUME ConstantsAssumption ==
  /\ LoopThread \notin Threads
  /\ Removers \subseteq Callers
  /\ Reusable \subseteq Handlers
  /\ MaxEvents \in Nat \ {0}
  /\ OpenMayFail \in BOOLEAN

VARIABLES
  m_state,     \* STATE_STOPPED, STATE_STARTED or STATE_STOPPING
  owner,       \* where the thread that calls Start and Stop is
  epoll_open,  \* m_epoll_fd # INVALID_SOCKET
  interest,    \* epoll's interest list: events asked for, {} when absent
  m_handlers,  \* keys of the map of shared_ptr
  loop,        \* where the loop thread is
  batch,       \* events epoll_wait returned that are not dispatched yet
  cur,         \* the handler the loop thread dispatches to
  stage,       \* where each thread is in its Register or Unregister call
  arg,         \* the handler of that call, kept by a local shared_ptr
  fresh,       \* handlers that are not constructed yet
  known,       \* handlers whose raw pointer Register's caller has published
  held         \* handlers of which other code keeps a shared_ptr

controlVars == <<m_state, owner, epoll_open>>
loopVars    == <<loop, batch, cur>>
callVars    == <<stage, arg>>
objectVars  == <<fresh, known, held>>
vars == <<m_state, owner, epoll_open, interest, m_handlers, loop, batch, cur,
          stage, arg, fresh, known, held>>

EVENT_READ      == {"IN"}          \* EPOLLIN | EPOLLPRI
EVENT_WRITE     == {"OUT"}         \* EPOLLOUT
EVENT_READWRITE == EVENT_READ \cup EVENT_WRITE
Requests        == {EVENT_READ, EVENT_WRITE, EVENT_READWRITE}
Reported        == EVENT_READWRITE \cup {"ERR"}  \* EPOLLERR | EPOLLHUP

States     == {"STOPPED", "STARTED", "STOPPING"}
Stages     == {"idle", "add", "return", "del", "drop"}
InCallback == {"read", "write", "error"}
InSelect   == InCallback \cup {"next", "closing", "closed", "undefined"}
LoopPoints == {"none", "test", "select", "exited"} \cup InSelect

\* Mutant of Pinned: Unregister erases the map's entry without a local copy.
PinnedByRegisterOnly(t) ==
  IF stage[t] \in {"add", "return"} THEN {arg[t]} ELSE {}

(* The handlers a thread's call in progress keeps alive.                   *)
Pinned(t) == IF stage[t] = "idle" THEN {} ELSE {arg[t]}

(* Some shared_ptr to h exists: the object is not destroyed.               *)
Alive(h) == \/ h \in m_handlers
            \/ h \in held
            \/ \E t \in Callers : h \in Pinned(t)

(* Some shared_ptr to h exists besides the one thread t is dropping.       *)
AliveWithout(t, h) == \/ h \in m_handlers
                      \/ h \in held
                      \/ \E u \in Callers \ {t} : h \in Pinned(u)

Destroyed(h) == h \notin fresh /\ ~Alive(h)

(* The loop thread is in HandleRead or HandleWrite of an existing object,  *)
(* and not in a call that this makes.                                      *)
InUserCode == loop \in {"read", "write"} /\ stage[LoopThread] = "idle" /\ Alive(cur)

(* A thread may call Register or Unregister: the loop thread out of a      *)
(* callback, the others while the loop runs.                               *)
MayCall(t) == /\ stage[t] = "idle"
              /\ IF t = LoopThread THEN InUserCode
                                   ELSE m_state = "STARTED" /\ owner = "idle"

(* Destroying a handler closes its descriptor, and the kernel then removes *)
(* the descriptor from the interest list.                                  *)
CloseDescriptor(h) == interest' = [interest EXCEPT ![h] = {}]

Init ==
  /\ m_state = "STOPPED"
  /\ owner = "idle"
  /\ epoll_open = FALSE
  /\ interest = [h \in Handlers |-> {}]
  /\ m_handlers = {}
  /\ loop = "none"
  /\ batch = [h \in Handlers |-> {}]
  /\ cur \in Handlers
  /\ stage = [t \in Callers |-> "idle"]
  /\ arg \in [Callers -> {cur}]
  /\ fresh = Handlers
  /\ known = {}
  /\ held = {}

-----------------------------------------------------------------------------
(* EventLoop::Start and Stop, called by one thread, the loop's owner.      *)

(* Start opens the selector, without looking at the result, and starts the *)
(* thread; only then does it set m_state.                                  *)
Start ==
  /\ owner = "idle" /\ m_state = "STOPPED"
  /\ epoll_open' \in (IF OpenMayFail THEN BOOLEAN ELSE {TRUE})
  /\ loop' = "test"
  /\ owner' = "starting"
  /\ UNCHANGED <<m_state, interest, m_handlers, batch, cur, callVars, objectVars>>

SetStarted ==
  /\ owner = "starting"
  /\ m_state' = "STARTED"
  /\ owner' = "idle"
  /\ UNCHANGED <<epoll_open, interest, m_handlers, loopVars, callVars, objectVars>>

(* The owner stops the loop once the threads that register with it are out *)
(* of their calls (TcpServer and TcpClient join them first).               *)
Stopping ==
  /\ owner = "idle" /\ m_state = "STARTED"
  /\ \A t \in Threads : stage[t] = "idle"
  /\ m_state' = "STOPPING"
  /\ owner' = "join"
  /\ UNCHANGED <<epoll_open, interest, m_handlers, loopVars, callVars, objectVars>>

\* Mutant of Join: the selector is closed before the thread is joined.
JoinWithoutWaiting ==
  /\ owner = "join"
  /\ epoll_open' = FALSE
  /\ interest' = [h \in Handlers |-> {}]
  /\ m_state' = "STOPPED"
  /\ owner' = "idle"
  /\ UNCHANGED <<m_handlers, loopVars, callVars, objectVars>>

(* Join waits for the loop thread, closes the selector (and with it the    *)
(* interest list) and marks the loop stopped.  m_handlers is left as it is.*)
Join ==
  /\ owner = "join"
  /\ loop = "exited"
  /\ loop' = "none"
  /\ epoll_open' = FALSE
  /\ interest' = [h \in Handlers |-> {}]
  /\ m_state' = "STOPPED"
  /\ owner' = "idle"
  /\ UNCHANGED <<m_handlers, batch, cur, callVars, objectVars>>

(* ~EventLoop of a stopped loop destroys the map; a new loop takes over.   *)
Destroy ==
  /\ owner = "idle" /\ m_state = "STOPPED"
  /\ m_handlers # {}
  /\ m_handlers' = {}
  /\ UNCHANGED <<controlVars, interest, loopVars, callVars, objectVars>>

-----------------------------------------------------------------------------
(* EventLoop::Register, with the construction of the handler before it and *)
(* the end of the caller's local shared_ptr after it.                      *)

(* The critical section of Register.  A handler already in the map is      *)
(* refused.                                                                *)
RegisterInsert(t, h) ==
  /\ MayCall(t)
  /\ h \in fresh \cup (Reusable \cap held)
  /\ h \notin m_handlers
  /\ m_handlers' = m_handlers \cup {h}
  /\ fresh' = fresh \ {h}
  /\ stage' = [stage EXCEPT ![t] = "add"]
  /\ arg' = [arg EXCEPT ![t] = h]
  /\ UNCHANGED <<controlVars, interest, loopVars, known, held>>

(* Selector::Register.  epoll_ctl may fail (no memory, too many watches);  *)
(* Register then returns false and leaves the handler in the map.          *)
RegisterAdd(t) ==
  /\ stage[t] = "add"
  /\ \/ /\ epoll_open
        /\ interest[arg[t]] = {}
        /\ \E events \in Requests :
             interest' = [interest EXCEPT ![arg[t]] = events]
        /\ stage' = [stage EXCEPT ![t] = "return"]
     \/ /\ stage' = [stage EXCEPT ![t] = "drop"]
        /\ UNCHANGED interest
  /\ UNCHANGED <<controlVars, m_handlers, loopVars, arg, objectVars>>

-----------------------------------------------------------------------------
(* EventLoop::Unregister, called by any thread.                            *)

(* The critical section of Unregister moves the map's shared_ptr to a      *)
(* local one.                                                              *)
UnregisterErase(t, h) ==
  /\ stage[t] = "idle"
  /\ h \in m_handlers
  /\ m_handlers' = m_handlers \ {h}
  /\ stage' = [stage EXCEPT ![t] = "del"]
  /\ arg' = [arg EXCEPT ![t] = h]
  /\ UNCHANGED <<controlVars, interest, objectVars>>

(* Another thread than the loop's unregisters a handler it knows, or a     *)
(* callback one that is not its own.                                       *)
RemoveHandler(t, h) ==
  /\ MayCall(t)
  /\ h \in known /\ (t = LoopThread => h # cur)
  /\ UnregisterErase(t, h)
  /\ UNCHANGED loopVars

\* Mutant of UnregisterDel: the epoll_ctl call is missing.
UnregisterWithoutDel(t) ==
  /\ stage[t] = "del"
  /\ stage' = [stage EXCEPT ![t] = "drop"]
  /\ UNCHANGED <<controlVars, interest, m_handlers, loopVars, arg, objectVars>>

\* Mutant of UnregisterDel: it is retried until it succeeds.
UnregisterDelRetried(t) ==
  /\ stage[t] = "del"
  /\ interest[arg[t]] # {}
  /\ interest' = [interest EXCEPT ![arg[t]] = {}]
  /\ stage' = [stage EXCEPT ![t] = "drop"]
  /\ UNCHANGED <<controlVars, m_handlers, loopVars, arg, objectVars>>

(* Selector::Unregister; a handler absent from epoll makes it fail.        *)
UnregisterDel(t) ==
  /\ stage[t] = "del"
  /\ interest' = [interest EXCEPT ![arg[t]] = {}]
  /\ stage' = [stage EXCEPT ![t] = "drop"]
  /\ UNCHANGED <<controlVars, m_handlers, loopVars, arg, objectVars>>

(* The call returns and its local shared_ptr goes away.  A successful      *)
(* Register has published the raw pointer; an Unregister that a handler    *)
(* has made of itself returns to its callback, the object of which this    *)
(* may have destroyed.                                                     *)
DropReference(t) ==
  /\ stage[t] \in {"return", "drop"}
  /\ stage' = [stage EXCEPT ![t] = "idle"]
  /\ known' = IF stage[t] = "return" THEN known \cup {arg[t]} ELSE known
  /\ loop' = IF t = LoopThread /\ loop = "closing" THEN "closed" ELSE loop
  /\ IF AliveWithout(t, arg[t]) THEN UNCHANGED interest
                                ELSE CloseDescriptor(arg[t])
  /\ UNCHANGED <<controlVars, m_handlers, batch, cur, arg, fresh, held>>

-----------------------------------------------------------------------------
(* EventLoop::LoopThread and Selector::Select.                             *)

LoopTest ==
  /\ loop = "test"
  /\ loop' = IF m_state = "STOPPING" THEN "exited" ELSE "select"
  /\ UNCHANGED <<controlVars, interest, m_handlers, batch, cur, callVars, objectVars>>

\* Mutant of EpollWait: the wait has no timeout.
EpollWaitForever ==
  /\ loop = "select"
  /\ batch' \in {b \in [Handlers -> SUBSET Reported] :
                  /\ \A h \in Handlers : /\ b[h] \subseteq interest[h] \cup {"ERR"}
                                         /\ b[h] # {} => interest[h] # {}
                  /\ \E h \in Handlers : b[h] # {}}
  /\ loop' = "next"
  /\ UNCHANGED <<controlVars, interest, m_handlers, cur, callVars, objectVars>>

(* epoll_wait: one entry for each of up to MaxEvents descriptors, with     *)
(* events that were asked for or an error; none at all on a timeout, an    *)
(* interrupting signal or a bad descriptor.                                *)
EpollWait ==
  /\ loop = "select"
  /\ batch' \in {b \in [Handlers -> SUBSET Reported] :
                  /\ \A h \in Handlers : /\ b[h] \subseteq interest[h] \cup {"ERR"}
                                         /\ b[h] # {} => interest[h] # {}
                  /\ Cardinality({h \in Handlers : b[h] # {}}) <= MaxEvents}
  /\ loop' = "next"
  /\ UNCHANGED <<controlVars, interest, m_handlers, cur, callVars, objectVars>>

(* The order in which Select looks at the events of one entry.             *)
CallFor(events) == IF "IN" \in events THEN "read"
                   ELSE IF "OUT" \in events THEN "write"
                   ELSE IF events # {} THEN "error" ELSE "next"

(* Select calls h for events, through the raw pointer.  What a call on a   *)
(* destroyed object does is undefined: nothing is said of the loop thread  *)
(* from there on, it stays there.                                          *)
CallOn(h, events) ==
  IF events # {} /\ ~Alive(h) THEN "undefined" ELSE CallFor(events)

(* Select takes another entry of the array and calls its handler.          *)
Dispatch ==
  /\ loop = "next"
  /\ \E h \in Handlers :
       /\ batch[h] # {}
       /\ cur' = h
       /\ loop' = CallOn(h, batch[h])
  /\ UNCHANGED <<controlVars, interest, m_handlers, batch, callVars, objectVars>>

BatchDone ==
  /\ loop = "next"
  /\ \A h \in Handlers : batch[h] = {}
  /\ loop' = "test"
  /\ UNCHANGED <<controlVars, interest, m_handlers, batch, cur, callVars, objectVars>>

(* HandleRead or HandleWrite returns true, and Select goes on with the rest*)
(* of the events of this entry, or false, and it skips them.               *)
HandlerReturns ==
  /\ loop \in {"read", "write"} /\ stage[LoopThread] = "idle"
  /\ \E rest \in {batch[cur] \ (IF loop = "read" THEN {"IN"} ELSE {"OUT"}), {}} :
       /\ batch' = [batch EXCEPT ![cur] = rest]
       /\ loop' = CallOn(cur, rest)
  /\ UNCHANGED <<controlVars, interest, m_handlers, cur, callVars, objectVars>>

(* A handler calls Modify on itself inside HandleRead or HandleWrite;      *)
(* epoll_ctl refuses when it is no longer in the interest list.            *)
HandlerModifies ==
  /\ InUserCode
  /\ interest[cur] # {}
  /\ \E events \in Requests : interest' = [interest EXCEPT ![cur] = events]
  /\ UNCHANGED <<controlVars, m_handlers, loopVars, callVars, objectVars>>

\* Mutant of HandlerUnregisters: Select goes on with the handler's other events.
HandlerUnregistersAndGoesOn ==
  /\ loop \in InCallback /\ Alive(cur)
  /\ batch' = [batch EXCEPT ![cur] = @ \ {CASE loop = "read"  -> "IN"
                                             [] loop = "write" -> "OUT"
                                             [] loop = "error" -> "ERR"}]
  /\ UnregisterErase(LoopThread, cur)
  /\ loop' = "closing"
  /\ UNCHANGED cur

(* A handler unregisters itself: HandleRead or HandleWrite before it       *)
(* returns false, or EventHandler::HandleError.  Either way Select skips   *)
(* the rest of its events.  If somebody else has unregistered it already   *)
(* Unregister finds nothing to do.                                         *)
HandlerUnregisters ==
  /\ loop \in InCallback /\ stage[LoopThread] = "idle" /\ Alive(cur)
  /\ batch' = [batch EXCEPT ![cur] = {}]
  /\ \/ /\ UnregisterErase(LoopThread, cur)
        /\ loop' = "closing"
     \/ /\ cur \notin m_handlers
        /\ loop' = "closed"
        /\ UNCHANGED <<controlVars, interest, m_handlers, callVars, objectVars>>
  /\ UNCHANGED cur

(* The callback that has unregistered its handler returns, without looking *)
(* at the object, which may be gone, and Select goes on with the next one. *)
CallbackEnds ==
  /\ loop = "closed"
  /\ loop' = "next"
  /\ UNCHANGED <<controlVars, interest, m_handlers, batch, cur, callVars, objectVars>>

(* The object of a running callback may be destroyed by somebody else; what*)
(* the callback does with it from then on is undefined.                    *)
CallbackOnFreed ==
  /\ loop \in InCallback /\ stage[LoopThread] = "idle" /\ ~Alive(cur)
  /\ loop' = "undefined"
  /\ UNCHANGED <<controlVars, interest, m_handlers, batch, cur, callVars, objectVars>>

-----------------------------------------------------------------------------
(* Other code keeps a shared_ptr (shared_from_this() in a callback, which  *)
(* needs an existing object) and later lets it go.                         *)

KeepReference ==
  /\ InUserCode
  /\ held' = held \cup {cur}
  /\ UNCHANGED <<controlVars, interest, m_handlers, loopVars, callVars, fresh, known>>

ReleaseReference(h) ==
  /\ h \in held
  /\ held' = held \ {h}
  /\ IF h \in m_handlers \/ \E t \in Callers : h \in Pinned(t)
       THEN UNCHANGED interest
       ELSE CloseDescriptor(h)
  /\ UNCHANGED <<controlVars, m_handlers, loopVars, callVars, fresh, known>>

-----------------------------------------------------------------------------
OwnerStep == Start \/ SetStarted \/ Stopping \/ Join \/ Destroy

CallStep(t) == RegisterAdd(t) \/ UnregisterDel(t) \/ DropReference(t)

CallbackStep ==
  HandlerReturns \/ HandlerUnregisters \/ CallbackEnds \/ CallbackOnFreed

LoopStep == LoopTest \/ EpollWait \/ Dispatch \/ BatchDone

Next ==
  \/ OwnerStep
  \/ LoopStep
  \/ CallbackStep
  \/ HandlerModifies
  \/ KeepReference
  \/ \E t \in Callers : CallStep(t)
  \/ \E t \in Callers, h \in Handlers : RegisterInsert(t, h)
  \/ \E t \in Removers, h \in Handlers : RemoveHandler(t, h)
  \/ \E h \in Handlers : ReleaseReference(h)

Safety == Init /\ [][Next]_vars

(* The scheduler runs the loop thread, calls in progress finish, callbacks *)
(* return (they make finitely many calls), and Start and Stop, once begun, *)
(* go on.  Nobody is obliged to begin anything.                            *)
Fairness ==
  /\ WF_vars(LoopStep)
  /\ WF_vars(CallbackStep)
  /\ \A t \in Callers : WF_vars(CallStep(t))
  /\ WF_vars(SetStarted)
  /\ WF_vars(Join)

Spec == Safety /\ Fairness
-----------------------------------------------------------------------------
(* Every variable has its type.                                            *)
TypeOK ==
  /\ m_state \in States
  /\ owner \in {"idle", "starting", "join"}
  /\ epoll_open \in BOOLEAN
  /\ interest \in [Handlers -> SUBSET {"IN", "OUT"}]
  /\ m_handlers \subseteq Handlers
  /\ loop \in LoopPoints
  /\ batch \in [Handlers -> SUBSET {"IN", "OUT", "ERR"}]
  /\ cur \in Handlers
  /\ stage \in [Callers -> Stages]
  /\ arg \in [Callers -> Handlers]
  /\ fresh \subseteq Handlers
  /\ known \subseteq Handlers
  /\ held \subseteq Handlers

(* Select calls HandleRead, HandleWrite and HandleError through the raw    *)
(* pointer of the event array (selector.cpp:88-107): whenever it does the  *)
(* object exists, and it exists until the callback has unregistered it.    *)
DispatchAlive == loop # "undefined" /\ (loop \in InCallback => Alive(cur))

(* The assertions m_epoll_fd # INVALID_SOCKET of Selector::Select,         *)
(* Register and Unregister hold: nobody uses the selector before Start has *)
(* opened it or after Stop has closed it.                                  *)
SelectorOpen ==
  /\ loop = "select" => epoll_open
  /\ \A t \in Callers : stage[t] \in {"add", "del"} => epoll_open

(* A raw pointer in epoll's interest list always belongs to a handler of   *)
(* the map, or to one whose Unregister is about to take it out: between    *)
(* the two critical sections and the two epoll calls of Register and       *)
(* Unregister no registration is left without an owner.                    *)
WatchedOwned ==
  \A h \in Handlers : interest[h] # {} =>
    \/ h \in m_handlers
    \/ \E t \in Callers : stage[t] = "del" /\ arg[t] = h

(* Once Stop has returned no thread is dispatching any more and no call    *)
(* made from a callback is half done.                                      *)
StoppedQuiet ==
  m_state = "STOPPED" /\ owner = "idle" =>
    /\ loop = "none"
    /\ \A t \in Callers : stage[t] = "idle"

(* A Stop that has begun returns: the loop thread leaves epoll_wait after  *)
(* its timeout, finishes its batch and sees STATE_STOPPING.                *)
StopCompletes ==
  m_state = "STOPPING" ~> (m_state = "STOPPED" \/ loop = "undefined")

(* A handler that is unregistered, and that nobody keeps, is destroyed and *)
(* its descriptor closed.                                                  *)
UnregisteredFreed ==
  \A h \in Handlers :
    (h \notin fresh /\ h \notin m_handlers) ~>
      (Destroyed(h) \/ h \in held \/ h \in m_handlers \/ loop = "undefined")
-----------------------------------------------------------------------------
(* The loop implements the lifetime it promises to its handlers: a callback*)
(* is entered only on an existing object and by the running thread, the    *)
(* object stays until the callback itself has unregistered it (it may then *)
(* go while the callback is still on the stack: event_handler.cpp:40-43,   *)
(* event_loop.cpp:85-100), and a destroyed handler is never called again.  *)
ObjectState(h) == IF h \in fresh THEN "fresh"
                  ELSE IF Alive(h) THEN "live" ELSE "dead"

Lifetime == INSTANCE HandlerLifetime WITH
  object  <- [h \in Handlers |-> ObjectState(h)],
  calling <- IF loop \in InSelect \ {"next"} THEN {cur} ELSE {},
  leaving <- loop \in {"closing", "closed"},
  running <- loop \notin {"none", "exited"}

ImplementsLifetime == Lifetime!LifetimeSpec
=============================================================================
