----------------------------- MODULE BlockingQueue -----------------------------
(***************************************************************************)
(* xfutil::BlockingQueue: a deque, a capacity, one mutex and two condition *)
(* variables.  An action is one critical section, or the end of a wait     *)
(* without one.  notify_one wakes one of the waiting threads, the choice   *)
(* being the implementation's; a woken thread competes for the mutex with  *)
(* the threads that are just entering, and looks at the queue again.  A    *)
(* wait may also end by itself (a spurious wakeup), and wait_for reports a *)
(* timeout by looking at the clock, even when the thread was notified.     *)
(***************************************************************************)
EXTENDS Naturals, Sequences, FiniteSets

CONSTANTS
  Callers,     \* threads
  Calls,       \* the operations each thread makes
  Values,      \* the values; each is in at most one place at a time
  Capacities   \* the values m_capacity is given

PushOps  == {"Push", "PushFor", "TryPush"}
PopOps   == {"Pop", "PopFor", "TryPop"}
TimedOps == {"PushFor", "PopFor"}

ASSUME QueueAssumption ==
  /\ IsFiniteSet(Callers)
  /\ Calls \in [Callers -> SUBSET (PushOps \cup PopOps \cup {"SetCapacity"})]
  /\ Capacities \subseteq Nat
  /\ Values # {}

VARIABLES
  m_queue,     \* the deque
  m_capacity,
  at,          \* "idle", "enter", "asleep" or "woken", for each thread
  op,          \* the operation a thread is in, or was in last
  v            \* the value it pushes, or popped last

qvars == <<m_queue, m_capacity, at, op, v>>

Init ==
  /\ m_queue = << >>
  /\ m_capacity \in Capacities
  /\ at = [t \in Callers |-> "idle"]
  /\ op = [t \in Callers |-> "TryPop"]
  /\ \E x \in Values : v = [t \in Callers |-> x]

(* Threads waiting on a condition variable: m_not_empty_cond for PopOps,   *)
(* m_not_full_cond for PushOps.                                            *)
Asleep(Operations) == {t \in Callers : at[t] = "asleep" /\ op[t] \in Operations}
Woken(Operations)  == {t \in Callers : at[t] = "woken" /\ op[t] \in Operations}

\* Mutant of ReturnAndNotify: nobody is woken.
ReturnSilently(t, Operations) == at' = [at EXCEPT ![t] = "idle"]

(* Thread t returns, after a notify_one of the waiters given.              *)
ReturnAndNotify(t, Operations) ==
  \/ /\ Asleep(Operations) = {}
     /\ at' = [at EXCEPT ![t] = "idle"]
  \/ \E u \in Asleep(Operations) :
       at' = [at EXCEPT ![t] = "idle", ![u] = "woken"]

Unused(x) == /\ \A i \in 1..Len(m_queue) : m_queue[i] # x
             /\ \A t \in Callers : at[t] # "idle" /\ op[t] \in PushOps => v[t] # x

(* A thread makes a call and waits for the mutex.                          *)
Call(t, o, x) ==
  /\ at[t] = "idle" /\ o \in Calls[t] \ {"SetCapacity"}
  /\ at' = [at EXCEPT ![t] = "enter"]
  /\ op' = [op EXCEPT ![t] = o]
  /\ IF o \in PushOps THEN Unused(x) /\ v' = [v EXCEPT ![t] = x]
                      ELSE UNCHANGED v
  /\ UNCHANGED <<m_queue, m_capacity>>

\* Mutant of PushStep: the new value goes to the front.
PushFront(t) ==
  /\ at[t] \in {"enter", "woken"} /\ op[t] \in PushOps
  /\ Len(m_queue) < m_capacity
  /\ m_queue' = <<v[t]>> \o m_queue
  /\ ReturnAndNotify(t, PopOps)
  /\ UNCHANGED <<m_capacity, op, v>>

\* Mutant of PushStep: consumers are notified of the first value only.
PushNotifiesWhenEmpty(t) ==
  /\ at[t] \in {"enter", "woken"} /\ op[t] \in PushOps
  /\ Len(m_queue) < m_capacity
  /\ m_queue' = Append(m_queue, v[t])
  /\ IF m_queue = << >> THEN ReturnAndNotify(t, PopOps) ELSE ReturnSilently(t, PopOps)
  /\ UNCHANGED <<m_capacity, op, v>>

(* Push in its three forms, with the mutex held and room in the queue.     *)
PushStep(t) ==
  /\ at[t] \in {"enter", "woken"} /\ op[t] \in PushOps
  /\ Len(m_queue) < m_capacity
  /\ m_queue' = Append(m_queue, v[t])
  /\ ReturnAndNotify(t, PopOps)
  /\ UNCHANGED <<m_capacity, op, v>>

\* Mutant of PopStep: producers are notified when a full queue loses a value.
PopNotifiesWhenFull(t) ==
  /\ at[t] \in {"enter", "woken"} /\ op[t] \in PopOps
  /\ m_queue # << >>
  /\ v' = [v EXCEPT ![t] = Head(m_queue)]
  /\ m_queue' = Tail(m_queue)
  /\ IF Len(m_queue) = m_capacity THEN ReturnAndNotify(t, PushOps)
                                  ELSE ReturnSilently(t, PushOps)
  /\ UNCHANGED <<m_capacity, op>>

(* Pop in its three forms, with the mutex held and a value to take.        *)
PopStep(t) ==
  /\ at[t] \in {"enter", "woken"} /\ op[t] \in PopOps
  /\ m_queue # << >>
  /\ v' = [v EXCEPT ![t] = Head(m_queue)]
  /\ m_queue' = Tail(m_queue)
  /\ ReturnAndNotify(t, PushOps)
  /\ UNCHANGED <<m_capacity, op>>

(* The queue is full, or empty, for the thread that holds the mutex: a Try *)
(* call returns false, any other waits.                                    *)
Blocked(t) == \/ op[t] \in PushOps /\ Len(m_queue) >= m_capacity
              \/ op[t] \in PopOps /\ m_queue = << >>

WaitOrFail(t) ==
  /\ at[t] \in {"enter", "woken"} /\ Blocked(t)
  /\ at' = [at EXCEPT ![t] = IF op[t] \in {"TryPush", "TryPop"} THEN "idle" ELSE "asleep"]
  /\ UNCHANGED <<m_queue, m_capacity, op, v>>

(* wait_for reports a timeout, and the call returns false without another  *)
(* look at the queue.                                                      *)
TimeOut(t) ==
  /\ at[t] \in {"asleep", "woken"} /\ op[t] \in TimedOps
  /\ at' = [at EXCEPT ![t] = "idle"]
  /\ UNCHANGED <<m_queue, m_capacity, op, v>>

SpuriousWakeup(t) ==
  /\ at[t] = "asleep"
  /\ at' = [at EXCEPT ![t] = "woken"]
  /\ UNCHANGED <<m_queue, m_capacity, op, v>>

(* SetCapacity notifies nobody.                                            *)
SetCapacity(t) ==
  /\ at[t] = "idle" /\ "SetCapacity" \in Calls[t]
  /\ m_capacity' \in Capacities
  /\ UNCHANGED <<m_queue, at, op, v>>

Proceed(t) == PushStep(t) \/ PopStep(t) \/ WaitOrFail(t)

Next == \E t \in Callers :
  \/ Proceed(t)
  \/ TimeOut(t)
  \/ SpuriousWakeup(t)
  \/ SetCapacity(t)
  \/ \E o \in Calls[t], x \in Values : Call(t, o, x)

Safety == Init /\ [][Next]_qvars

(* The mutex is handed to every thread that keeps asking for it.           *)
Spec == Safety /\ \A t \in Callers : WF_qvars(Proceed(t))
-----------------------------------------------------------------------------
(* Every variable has its type.                                            *)
TypeOK ==
  /\ m_queue \in Seq(Values)
  /\ m_capacity \in Capacities
  /\ at \in [Callers -> {"idle", "enter", "asleep", "woken"}]
  /\ op \in [Callers -> PushOps \cup PopOps]
  /\ v \in [Callers -> Values]

(* No wakeup of a consumer is lost: while a thread sleeps in Pop, at least *)
(* as many consumers as there are values are on their way to the mutex, so *)
(* that one notify_one for each push (queue.h:58, 72, 84) is enough.       *)
NoLostPop == Asleep(PopOps) # {} => Cardinality(Woken(PopOps)) >= Len(m_queue)

(* The same for producers and free places (queue.h:97, 109, 124).          *)
NoLostPush ==
  Asleep(PushOps) # {} => Cardinality(Woken(PushOps)) >= m_capacity - Len(m_queue)

-----------------------------------------------------------------------------
(* The queue implements FifoQueue: no call takes effect twice, values are  *)
(* popped in the order they were pushed, an untimed call returns only with *)
(* its effect.                                                             *)
Fifo == INSTANCE FifoQueue WITH
  content  <- m_queue,
  capacity <- m_capacity,
  pending  <- [t \in Callers |-> IF at[t] = "idle" THEN "none" ELSE op[t]],
  value    <- v

ImplementsFifo == Fifo!FifoSafety

(* And with a fair mutex, if no thread is woken in vain, calls that can    *)
(* take effect keep taking effect.                                         *)
ImplementsFifoFairness == Fifo!FifoFairness
=============================================================================
