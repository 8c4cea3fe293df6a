------------------------- MODULE BlockingQueue_proofs -------------------------
(***************************************************************************)
(* What is proved about BlockingQueue for any number of threads, values    *)
(* and capacities.  The argument for the absence of lost wakeups counts:   *)
(* every push adds one value and one woken consumer, and whoever takes a   *)
(* value removes at most one of each.                                      *)
(***************************************************************************)
EXTENDS BlockingQueue, FiniteSetTheorems, TLAPS

(* A thread is in a call that it makes.                                    *)
CallsInv == \A t \in Callers : at[t] # "idle" => op[t] \in Calls[t]

(* Nobody whose wait can time out shares a condition variable with another *)
(* thread that waits on it.                                                *)
AloneOrUntimed(Operations, timed) ==
  \/ \A t \in Callers : timed \notin Calls[t]
  \/ \A t, u \in Callers :
       t # u => Calls[t] \cap Operations = {} \/ Calls[u] \cap Operations = {}

-----------------------------------------------------------------------------
(* Types.                                                                  *)

LEMMA TypeInit == Init => TypeOK /\ CallsInv
BY DEF Init, TypeOK, CallsInv, PopOps, PushOps

LEMMA TypeStep == TypeOK /\ CallsInv /\ [Next]_qvars => TypeOK' /\ CallsInv'
<1> SUFFICES ASSUME TypeOK, CallsInv, [Next]_qvars PROVE TypeOK' /\ CallsInv'
  OBVIOUS
<1> USE QueueAssumption DEF TypeOK, CallsInv
<1>1. ASSUME NEW t \in Callers, PushStep(t) PROVE TypeOK' /\ CallsInv'
  BY <1>1 DEF PushStep, ReturnAndNotify, Asleep
<1>2. ASSUME NEW t \in Callers, PopStep(t) PROVE TypeOK' /\ CallsInv'
  BY <1>2 DEF PopStep, ReturnAndNotify, Asleep
<1>3. ASSUME NEW t \in Callers, WaitOrFail(t) \/ TimeOut(t) \/ SpuriousWakeup(t)
      PROVE  TypeOK' /\ CallsInv'
  BY <1>3 DEF WaitOrFail, TimeOut, SpuriousWakeup
<1>4. ASSUME NEW t \in Callers, SetCapacity(t) PROVE TypeOK' /\ CallsInv'
  BY <1>4 DEF SetCapacity
<1>5. ASSUME NEW t \in Callers, NEW o \in Calls[t], NEW x \in Values, Call(t, o, x)
      PROVE  TypeOK' /\ CallsInv'
  BY <1>5 DEF Call
<1>6. CASE UNCHANGED qvars
  BY <1>6 DEF qvars
<1> QED
  BY <1>1, <1>2, <1>3, <1>4, <1>5, <1>6 DEF Next, Proceed

(* Every variable of the queue keeps its type: the deque holds values, a   *)
(* thread is in one of the four situations and in an operation it makes.   *)
THEOREM TypeCorrect == Safety => []TypeOK
<1>1. Safety => [](TypeOK /\ CallsInv)
  BY TypeInit, TypeStep, PTL DEF Safety
<1> QED
  BY <1>1, PTL

-----------------------------------------------------------------------------
(* Counting the threads that wait on one of the two conditions.            *)

LEMMA WokenFinite ==
  ASSUME NEW X
  PROVE  IsFiniteSet(Woken(X)) /\ Cardinality(Woken(X)) \in Nat
<1>1. Woken(X) \in SUBSET Callers
  BY DEF Woken
<1> QED
  BY <1>1, QueueAssumption, FS_Subset, FS_CardinalityType

(* A thread that does not wait for X itself returns and notifies X.        *)
LEMMA NotifiedOne ==
  ASSUME NEW X, TypeOK, NEW t \in Callers, at[t] \in {"enter", "woken"},
         op[t] \notin X, ReturnAndNotify(t, X), op' = op
  PROVE  \/ Asleep(X)' = {}
         \/ Cardinality(Woken(X)') = Cardinality(Woken(X)) + 1
<1>1. CASE Asleep(X) = {} /\ at' = [at EXCEPT ![t] = "idle"]
  BY <1>1 DEF Asleep, TypeOK
<1>2. ASSUME NEW u \in Asleep(X), at' = [at EXCEPT ![t] = "idle", ![u] = "woken"]
      PROVE  Cardinality(Woken(X)') = Cardinality(Woken(X)) + 1
  <2>1. Woken(X)' = Woken(X) \cup {u} /\ u \notin Woken(X)
    BY <1>2 DEF Asleep, Woken, TypeOK
  <2> QED
    BY <2>1, WokenFinite, FS_AddElement
<1> QED
  BY <1>1, <1>2 DEF ReturnAndNotify

(* A thread that may have waited for X returns and notifies others.        *)
LEMMA LeftOne ==
  ASSUME NEW X, NEW Y, X \cap Y = {}, TypeOK, NEW t \in Callers,
         at[t] \in {"enter", "woken"}, op[t] \in X, ReturnAndNotify(t, Y), op' = op
  PROVE  /\ Asleep(X)' = Asleep(X)
         /\ Cardinality(Woken(X)') >= Cardinality(Woken(X)) - 1
<1>1. Asleep(X)' = Asleep(X) /\ Woken(X)' = Woken(X) \ {t}
  <2>1. CASE at' = [at EXCEPT ![t] = "idle"]
    BY <2>1 DEF Asleep, Woken, TypeOK
  <2>2. ASSUME NEW u \in Asleep(Y), at' = [at EXCEPT ![t] = "idle", ![u] = "woken"]
        PROVE  Asleep(X)' = Asleep(X) /\ Woken(X)' = Woken(X) \ {t}
    BY <2>2 DEF Asleep, Woken, TypeOK
  <2> QED
    BY <2>1, <2>2 DEF ReturnAndNotify
<1>2. IsFiniteSet(Woken(X)) /\ Cardinality(Woken(X)) \in Nat
  BY WokenFinite
<1>3. Cardinality(Woken(X) \ {t}) = IF t \in Woken(X) THEN Cardinality(Woken(X)) - 1
                                                      ELSE Cardinality(Woken(X))
  BY <1>2, FS_RemoveElement
<1>4. Cardinality(Woken(X) \ {t}) >= Cardinality(Woken(X)) - 1
  BY <1>2, <1>3
<1> QED
  BY <1>1, <1>4

(* What the other steps do to the waiters of X.                            *)
LEMMA OtherSteps ==
  ASSUME NEW X, NEW timed, X \in {PushOps, PopOps}, X \cap TimedOps \subseteq {timed},
         AloneOrUntimed(X, timed), TypeOK, CallsInv, NEW t \in Callers
  PROVE  /\ TimeOut(t) /\ Asleep(X)' # {} => 
              Asleep(X) # {} /\ Cardinality(Woken(X)') >= Cardinality(Woken(X))
         /\ SpuriousWakeup(t) /\ Asleep(X)' # {} =>
              Asleep(X) # {} /\ Cardinality(Woken(X)') >= Cardinality(Woken(X))
         /\ \A o, x : Call(t, o, x) =>
              Asleep(X)' = Asleep(X) /\ Woken(X)' = Woken(X)
         /\ WaitOrFail(t) /\ op[t] \notin X =>
              Asleep(X)' = Asleep(X) /\ Woken(X)' = Woken(X)
<1>1. ASSUME TimeOut(t), NEW u \in Asleep(X)'
      PROVE  Asleep(X) # {} /\ Cardinality(Woken(X)') >= Cardinality(Woken(X))
  <2>1. u \in Asleep(X) /\ u # t
    BY <1>1 DEF TimeOut, Asleep, TypeOK
  <2>2. op[u] \in Calls[u] \cap X
    BY <2>1 DEF Asleep, CallsInv
  <2>3. t \notin Woken(X)
    <3>1. ASSUME t \in Woken(X) PROVE FALSE
      <4>1. op[t] \in Calls[t] \cap X /\ op[t] \in TimedOps
        BY <1>1, <3>1 DEF TimeOut, Woken, CallsInv
      <4>2. timed \in Calls[t]
        BY <4>1
      <4> QED
        BY <2>1, <2>2, <4>1, <4>2 DEF AloneOrUntimed, Asleep
    <3> QED
      BY <3>1
  <2>4. Woken(X)' = Woken(X)
    BY <1>1, <2>3 DEF TimeOut, Woken, TypeOK
  <2> QED
    BY <2>1, <2>4, WokenFinite
<1>2. ASSUME SpuriousWakeup(t), NEW u \in Asleep(X)'
      PROVE  Asleep(X) # {} /\ Cardinality(Woken(X)') >= Cardinality(Woken(X))
  <2>1. u \in Asleep(X)
    BY <1>2 DEF SpuriousWakeup, Asleep, TypeOK
  <2>2. Woken(X)' = Woken(X) \/ Woken(X)' = Woken(X) \cup {t}
    BY <1>2 DEF SpuriousWakeup, Woken, TypeOK
  <2>3. IsFiniteSet(Woken(X)) /\ Cardinality(Woken(X)) \in Nat
    BY WokenFinite
  <2>4. Cardinality(Woken(X) \cup {t}) >= Cardinality(Woken(X))
    BY <2>3, FS_AddElement
  <2> QED
    BY <2>1, <2>2, <2>3, <2>4
<1>3. ASSUME NEW o, NEW x, Call(t, o, x)
      PROVE  Asleep(X)' = Asleep(X) /\ Woken(X)' = Woken(X)
  BY <1>3 DEF Call, Asleep, Woken, TypeOK
<1>4. ASSUME WaitOrFail(t), op[t] \notin X
      PROVE  Asleep(X)' = Asleep(X) /\ Woken(X)' = Woken(X)
  BY <1>4 DEF WaitOrFail, Asleep, Woken, TypeOK
<1> QED
  BY <1>1, <1>2, <1>3, <1>4

-----------------------------------------------------------------------------
LEMMA NoLostPopStep ==
  ASSUME AloneOrUntimed(PopOps, "PopFor"), TypeOK, CallsInv, NoLostPop, [Next]_qvars
  PROVE  NoLostPop'
<1> USE QueueAssumption
<1>n. Cardinality(Woken(PopOps)) \in Nat /\ Len(m_queue) \in Nat
  BY WokenFinite DEF TypeOK
<1>n1. Cardinality(Woken(PopOps)') \in Nat /\ Len(m_queue') \in Nat
  <2>1. Woken(PopOps)' \in SUBSET Callers
    BY DEF Woken
  <2>2. TypeOK'
    BY TypeStep
  <2> QED
    BY <2>1, <2>2, FS_Subset, FS_CardinalityType DEF TypeOK
<1>1. ASSUME NEW t \in Callers, PushStep(t) PROVE NoLostPop'
  <2>1. Len(m_queue') = Len(m_queue) + 1
    BY <1>1 DEF PushStep, TypeOK
  <2>2. Asleep(PopOps)' = {} \/ Cardinality(Woken(PopOps)') = Cardinality(Woken(PopOps)) + 1
    BY <1>1, NotifiedOne DEF PushStep, PushOps, PopOps
  <2>3. CASE Asleep(PopOps) = {}
    <3>1. Asleep(PopOps)' = {}
      BY <1>1, <2>3 DEF PushStep, ReturnAndNotify, Asleep, TypeOK
    <3> QED
      BY <3>1 DEF NoLostPop
  <2> QED
    BY <1>n, <2>1, <2>2, <2>3 DEF NoLostPop
<1>2. ASSUME NEW t \in Callers, PopStep(t) PROVE NoLostPop'
  <2>1. Len(m_queue') = Len(m_queue) - 1
    BY <1>2 DEF PopStep, TypeOK
  <2>2. /\ Asleep(PopOps)' = Asleep(PopOps)
        /\ Cardinality(Woken(PopOps)') >= Cardinality(Woken(PopOps)) - 1
    BY <1>2, LeftOne DEF PopStep, PushOps, PopOps
  <2> QED
    BY <1>n, <1>n1, <2>1, <2>2 DEF NoLostPop
<1>3. ASSUME NEW t \in Callers, WaitOrFail(t) PROVE NoLostPop'
  <2>1. CASE op[t] \in PopOps
    <3>1. Len(m_queue') = 0
      BY <1>3, <2>1 DEF WaitOrFail, Blocked, PushOps, PopOps
    <3> QED
      BY <1>n1, <3>1 DEF NoLostPop
  <2>2. CASE op[t] \notin PopOps
    <3>1. Asleep(PopOps)' = Asleep(PopOps) /\ Woken(PopOps)' = Woken(PopOps)
      BY <1>3, <2>2, OtherSteps DEF TimedOps, PopOps
    <3>2. m_queue' = m_queue
      BY <1>3 DEF WaitOrFail
    <3> QED
      BY <3>1, <3>2 DEF NoLostPop
  <2> QED
    BY <2>1, <2>2
<1>4. ASSUME NEW t \in Callers, TimeOut(t) \/ SpuriousWakeup(t) PROVE NoLostPop'
  <2>1. Asleep(PopOps)' # {} =>
          Asleep(PopOps) # {} /\ Cardinality(Woken(PopOps)') >= Cardinality(Woken(PopOps))
    BY <1>4, OtherSteps DEF TimedOps, PopOps
  <2>2. m_queue' = m_queue
    BY <1>4 DEF TimeOut, SpuriousWakeup
  <2> QED
    BY <1>n, <1>n1, <2>1, <2>2 DEF NoLostPop
<1>5. ASSUME NEW t \in Callers, NEW o, NEW x, Call(t, o, x) PROVE NoLostPop'
  <2>1. Asleep(PopOps)' = Asleep(PopOps) /\ Woken(PopOps)' = Woken(PopOps)
    BY <1>5, OtherSteps DEF TimedOps, PopOps
  <2> QED
    BY <1>5, <2>1 DEF NoLostPop, Call
<1>6. ASSUME NEW t \in Callers, SetCapacity(t) PROVE NoLostPop'
  BY <1>6 DEF SetCapacity, NoLostPop, Asleep, Woken
<1>7. CASE UNCHANGED qvars
  BY <1>7 DEF qvars, NoLostPop, Asleep, Woken
<1> QED
  BY <1>1, <1>2, <1>3, <1>4, <1>5, <1>6, <1>7 DEF Next, Proceed

(* No wakeup of a consumer is lost, however many threads push and pop,     *)
(* when the consumers' waits have no timeout or there is one consumer only *)
(* (TimerManager's workers, TcpClient's connect thread).                   *)
THEOREM PopsAreNotLost ==
  ASSUME AloneOrUntimed(PopOps, "PopFor")
  PROVE  Safety => []NoLostPop
<1>1. Init => NoLostPop
  BY DEF Init, NoLostPop, Asleep
<1>2. TypeOK /\ CallsInv /\ NoLostPop /\ [Next]_qvars => NoLostPop'
  BY NoLostPopStep
<1> QED
  BY <1>1, <1>2, TypeInit, TypeStep, PTL DEF Safety

-----------------------------------------------------------------------------
LEMMA NoLostPushStep ==
  ASSUME AloneOrUntimed(PushOps, "PushFor"), \A t \in Callers : "SetCapacity" \notin Calls[t],
         TypeOK, CallsInv, NoLostPush, [Next]_qvars
  PROVE  NoLostPush'
<1> USE QueueAssumption
<1>n. /\ Cardinality(Woken(PushOps)) \in Nat
      /\ Len(m_queue) \in Nat /\ m_capacity \in Nat
  BY WokenFinite DEF TypeOK
<1>n1. Cardinality(Woken(PushOps)') \in Nat /\ Len(m_queue') \in Nat /\ m_capacity' \in Nat
  <2>1. Woken(PushOps)' \in SUBSET Callers
    BY DEF Woken
  <2>2. TypeOK'
    BY TypeStep
  <2> QED
    BY <2>1, <2>2, FS_Subset, FS_CardinalityType DEF TypeOK
<1>1. ASSUME NEW t \in Callers, PopStep(t) PROVE NoLostPush'
  <2>1. Len(m_queue') = Len(m_queue) - 1 /\ m_capacity' = m_capacity
    BY <1>1 DEF PopStep, TypeOK
  <2>2. Asleep(PushOps)' = {} \/ Cardinality(Woken(PushOps)') = Cardinality(Woken(PushOps)) + 1
    BY <1>1, NotifiedOne DEF PopStep, PushOps, PopOps
  <2>3. CASE Asleep(PushOps) = {}
    <3>1. Asleep(PushOps)' = {}
      BY <1>1, <2>3 DEF PopStep, ReturnAndNotify, Asleep, TypeOK
    <3> QED
      BY <3>1 DEF NoLostPush
  <2> QED
    BY <1>n, <2>1, <2>2, <2>3 DEF NoLostPush
<1>2. ASSUME NEW t \in Callers, PushStep(t) PROVE NoLostPush'
  <2>1. Len(m_queue') = Len(m_queue) + 1 /\ m_capacity' = m_capacity
    BY <1>2 DEF PushStep, TypeOK
  <2>2. /\ Asleep(PushOps)' = Asleep(PushOps)
        /\ Cardinality(Woken(PushOps)') >= Cardinality(Woken(PushOps)) - 1
    BY <1>2, LeftOne DEF PushStep, PushOps, PopOps
  <2> QED
    BY <1>n, <1>n1, <2>1, <2>2 DEF NoLostPush
<1>3. ASSUME NEW t \in Callers, WaitOrFail(t) PROVE NoLostPush'
  <2>0. m_queue' = m_queue /\ m_capacity' = m_capacity
    BY <1>3 DEF WaitOrFail
  <2>1. CASE op[t] \in PushOps
    <3>1. Len(m_queue) >= m_capacity
      BY <1>3, <2>1 DEF WaitOrFail, Blocked, PushOps, PopOps
    <3> QED
      BY <1>n, <1>n1, <2>0, <3>1 DEF NoLostPush
  <2>2. CASE op[t] \notin PushOps
    <3>1. Asleep(PushOps)' = Asleep(PushOps) /\ Woken(PushOps)' = Woken(PushOps)
      BY <1>3, <2>2, OtherSteps DEF TimedOps, PushOps
    <3> QED
      BY <2>0, <3>1 DEF NoLostPush
  <2> QED
    BY <2>1, <2>2
<1>4. ASSUME NEW t \in Callers, TimeOut(t) \/ SpuriousWakeup(t) PROVE NoLostPush'
  <2>1. Asleep(PushOps)' # {} =>
          Asleep(PushOps) # {} /\ Cardinality(Woken(PushOps)') >= Cardinality(Woken(PushOps))
    BY <1>4, OtherSteps DEF TimedOps, PushOps
  <2>2. m_queue' = m_queue /\ m_capacity' = m_capacity
    BY <1>4 DEF TimeOut, SpuriousWakeup
  <2> QED
    BY <1>n, <1>n1, <2>1, <2>2 DEF NoLostPush
<1>5. ASSUME NEW t \in Callers, NEW o, NEW x, Call(t, o, x) PROVE NoLostPush'
  <2>1. Asleep(PushOps)' = Asleep(PushOps) /\ Woken(PushOps)' = Woken(PushOps)
    BY <1>5, OtherSteps DEF TimedOps, PushOps
  <2> QED
    BY <1>5, <2>1 DEF NoLostPush, Call
<1>6. ASSUME NEW t \in Callers, SetCapacity(t) PROVE NoLostPush'
  BY <1>6 DEF SetCapacity
<1>7. CASE UNCHANGED qvars
  BY <1>7 DEF qvars, NoLostPush, Asleep, Woken
<1> QED
  BY <1>1, <1>2, <1>3, <1>4, <1>5, <1>6, <1>7 DEF Next, Proceed

(* No wakeup of a producer is lost, when the producers' waits have no      *)
(* timeout or there is one producer only, and nobody calls SetCapacity     *)
(* (which raises the capacity without waking anybody, queue.h:38-42).      *)
THEOREM PushesAreNotLost ==
  ASSUME AloneOrUntimed(PushOps, "PushFor"), \A t \in Callers : "SetCapacity" \notin Calls[t]
  PROVE  Safety => []NoLostPush
<1>1. Init => NoLostPush
  BY DEF Init, NoLostPush, Asleep
<1>2. TypeOK /\ CallsInv /\ NoLostPush /\ [Next]_qvars => NoLostPush'
  BY NoLostPushStep
<1> QED
  BY <1>1, <1>2, TypeInit, TypeStep, PTL DEF Safety

-----------------------------------------------------------------------------
(* The refinement of FifoQueue.                                            *)
Pending == [t \in Callers |-> IF at[t] = "idle" THEN "none" ELSE op[t]]

(* A thread that returns has no operation pending any more; nobody else's  *)
(* pending operation changes when one waiter is woken.                     *)
LEMMA ReturnEnds ==
  ASSUME NEW t \in Callers, NEW X, TypeOK, at[t] # "idle", op' = op, ReturnAndNotify(t, X),
         t \notin Asleep(X)
  PROVE  Pending' = [Pending EXCEPT ![t] = "none"]
<1>1. CASE at' = [at EXCEPT ![t] = "idle"]
  BY <1>1 DEF Pending, TypeOK
<1>2. ASSUME NEW u \in Asleep(X), at' = [at EXCEPT ![t] = "idle", ![u] = "woken"]
      PROVE  Pending' = [Pending EXCEPT ![t] = "none"]
  BY <1>2 DEF Pending, Asleep, TypeOK
<1> QED
  BY <1>1, <1>2 DEF ReturnAndNotify

LEMMA FifoStep ==
  ASSUME TypeOK, TypeOK', [Next]_qvars
  PROVE  [Fifo!FifoNext]_(Fifo!queueVars)
<1> DEFINE Stutter == UNCHANGED <<m_queue, m_capacity, Pending, v>>
<1>s. Stutter => [Fifo!FifoNext]_(Fifo!queueVars)
  BY DEF Fifo!queueVars, Pending
<1> DEFINE Ended(t) == Pending' = [Pending EXCEPT ![t] = "none"]
<1>1. ASSUME NEW t \in Callers, PushStep(t) PROVE Fifo!Put(t)
  <2>1. Ended(t)
    BY <1>1, ReturnEnds DEF PushStep, Asleep
  <2>2. Pending[t] \in PushOps
    BY <1>1 DEF PushStep, Pending
  <2> QED
    BY <1>1, <2>1, <2>2 DEF PushStep, Pending, Fifo!Put, Fifo!Below, Fifo!PushOps, PushOps
<1>2. ASSUME NEW t \in Callers, PopStep(t) PROVE Fifo!Take(t)
  <2>1. Ended(t)
    BY <1>2, ReturnEnds DEF PopStep, Asleep
  <2>2. Pending[t] \in PopOps
    BY <1>2 DEF PopStep, Pending
  <2> QED
    BY <1>2, <2>1, <2>2 DEF PopStep, Pending, Fifo!Take, Fifo!PopOps, PopOps
<1>3. ASSUME NEW t \in Callers, WaitOrFail(t) PROVE [Fifo!FifoNext]_(Fifo!queueVars)
  <2>1. CASE op[t] \in {"TryPush", "TryPop"}
    <3>1. Ended(t) /\ Pending[t] = op[t]
      BY <1>3, <2>1 DEF WaitOrFail, Pending, TypeOK
    <3>2. \/ op[t] = "TryPush" /\ ~(Len(m_queue) < m_capacity)
          \/ op[t] = "TryPop" /\ m_queue = << >>
      BY <1>3, <2>1, QueueAssumption DEF WaitOrFail, Blocked, PushOps, PopOps, TypeOK
    <3>3. Fifo!Refuse(t)
      BY <1>3, <3>1, <3>2 DEF WaitOrFail, Pending, Fifo!Refuse, Fifo!Below
    <3> QED
      BY <3>3 DEF Fifo!FifoNext
  <2>2. CASE op[t] \notin {"TryPush", "TryPop"}
    <3>1. Pending' = Pending
      BY <1>3, <2>2 DEF WaitOrFail, Pending, TypeOK
    <3> QED
      BY <1>3, <1>s, <3>1 DEF WaitOrFail
  <2> QED
    BY <2>1, <2>2
<1>4. ASSUME NEW t \in Callers, TimeOut(t) PROVE Fifo!Refuse(t)
  <2>1. Ended(t) /\ Pending[t] \in TimedOps
    BY <1>4 DEF TimeOut, Pending, TypeOK
  <2> QED
    BY <1>4, <2>1 DEF TimeOut, Pending, Fifo!Refuse, Fifo!TimedOps, TimedOps
<1>5. ASSUME NEW t \in Callers, SpuriousWakeup(t) PROVE Stutter
  BY <1>5 DEF SpuriousWakeup, Pending, TypeOK
<1>6. ASSUME NEW t \in Callers, SetCapacity(t) PROVE Fifo!ChangeCapacity
  BY <1>6 DEF SetCapacity, Fifo!ChangeCapacity
<1>7. ASSUME NEW t \in Callers, NEW o \in Calls[t], NEW x \in Values, Call(t, o, x)
      PROVE  o \in Fifo!Ops /\ Fifo!Begin(t, o, x)
  <2>1. o \in Fifo!Ops
    BY <1>7, QueueAssumption DEF Call, Fifo!Ops, Fifo!PushOps, Fifo!PopOps, PushOps, PopOps
  <2>2. Pending' = [Pending EXCEPT ![t] = o] /\ Pending[t] = "none"
    BY <1>7 DEF Call, Pending, TypeOK
  <2>3. v' = IF o \in PushOps THEN [v EXCEPT ![t] = x] ELSE v
    BY <1>7 DEF Call
  <2> QED
    BY <1>7, <2>1, <2>2, <2>3 DEF Call, Pending, Fifo!Begin, Fifo!PushOps, PushOps
<1>8. CASE UNCHANGED qvars
  BY <1>8, <1>s DEF qvars, Pending
<1>9. CASE \E t \in Callers : PushStep(t) \/ PopStep(t) \/ TimeOut(t)
  BY <1>1, <1>2, <1>4, <1>9 DEF Fifo!FifoNext
<1>10. CASE \E t \in Callers : WaitOrFail(t)
  BY <1>3, <1>10
<1>11. CASE \E t \in Callers : SpuriousWakeup(t)
  BY <1>5, <1>11, <1>s
<1>12. CASE \E t \in Callers : SetCapacity(t)
  BY <1>6, <1>12 DEF Fifo!FifoNext
<1>13. CASE \E t \in Callers : \E o \in Calls[t], x \in Values : Call(t, o, x)
  BY <1>7, <1>13 DEF Fifo!FifoNext
<1> QED
  BY <1>8, <1>9, <1>10, <1>11, <1>12, <1>13 DEF Next, Proceed

(* The queue implements the safety part of FifoQueue for any threads,      *)
(* calls, values and capacities: no call takes effect twice, values leave  *)
(* in the order they entered, an untimed call returns only with its effect *)
(* and a Try call fails only on a full or an empty queue.                  *)
THEOREM QueueImplementsFifo == Safety => ImplementsFifo
<1>1. Init => Fifo!FifoInit
  BY DEF Init, Fifo!FifoInit
<1>2. TypeOK /\ TypeOK' /\ [Next]_qvars => [Fifo!FifoNext]_(Fifo!queueVars)
  BY FifoStep
<1> QED
  BY <1>1, <1>2, TypeCorrect, PTL DEF Safety, ImplementsFifo, Fifo!FifoSafety
=============================================================================
