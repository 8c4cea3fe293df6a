-------------------------- MODULE TimerManager_proofs --------------------------
(***************************************************************************)
(* Theorems about TimerInterval and TimerManager.                          *)
(***************************************************************************)
EXTENDS TimerManager, FiniteSetTheorems, FunctionTheorems, SequenceTheorems, TLAPS

(* What a division leaves, put together again, is the number divided.      *)
LEMMA DivisionExact ==
  ASSUME NEW n \in Nat, NEW d \in Nat \ {0}
  PROVE  /\ n \div d \in Nat /\ n % d \in 0..d - 1
         /\ (n \div d) * d + (n % d) = n
  OBVIOUS

(* An interval that an int holds is set as it was asked for: InitTime      *)
(* (timer_manager.cpp:54-60) loses nothing in its division.                *)
THEOREM IntervalExact ==
  ASSUME NEW ms \in Unsigned, FitsInt(ms)
  PROVE  /\ Accepted(InitTime(ms))
         /\ Milliseconds(InitTime(ms)) = ms
<1>1. ms \in Nat /\ IntRange \in Nat /\ PerSecond \in Nat \ {0}
  BY IntervalAssumption DEF Unsigned
<1>2. ms \div PerSecond \in Nat /\ (ms \div PerSecond) * PerSecond + (ms % PerSecond) = ms
  BY <1>1, DivisionExact
<1>3. Quotient(ToInt(ms), PerSecond) = ms \div PerSecond
  BY <1>1 DEF Quotient, ToInt
<1> QED
  BY <1>1, <1>2, <1>3 DEF InitTime, Accepted, Milliseconds

(* An interval that an int does not hold is refused, so that AddTimer      *)
(* returns nullptr and SetTimer false...                                   *)
THEOREM LongIntervalRefused ==
  ASSUME NEW ms \in Unsigned, ~FitsInt(ms), ms <= IntRange - PerSecond
  PROVE  ~Accepted(InitTime(ms))
<1> DEFINE n == IntRange - ms
<1>1. ms \in Nat /\ IntRange \in Nat /\ PerSecond \in Nat \ {0}
  BY IntervalAssumption DEF Unsigned
<1>2. n \in Nat /\ n >= PerSecond /\ ~(ToInt(ms) >= 0) /\ -ToInt(ms) = n
  BY <1>1 DEF ToInt, FitsInt, Unsigned
<1>3. n \div PerSecond >= 1
  <2> HIDE DEF n
  <2>1. /\ n \div PerSecond \in Nat /\ n % PerSecond \in 0..PerSecond - 1
        /\ (n \div PerSecond) * PerSecond + (n % PerSecond) = n
    BY <1>1, <1>2, DivisionExact
  <2>2. CASE n \div PerSecond = 0
    BY <1>1, <1>2, <2>1, <2>2
  <2> QED
    BY <2>1, <2>2
<1>4. Quotient(ToInt(ms), PerSecond) = -(n \div PerSecond)
  BY <1>2 DEF Quotient
<1>5. n \div PerSecond \in Nat
  <2> HIDE DEF n
  <2> QED BY <1>1, <1>2, DivisionExact
<1> QED
  <2> HIDE DEF n
  <2> QED BY <1>3, <1>4, <1>5 DEF InitTime, Accepted

(* ... except for those of the last second below 2^w, which the conversion *)
(* makes negative and the division zero: they set a timer of less than a   *)
(* second.                                                                 *)
THEOREM LongestIntervalWraps ==
  ASSUME NEW ms \in Unsigned, ~FitsInt(ms), ms > IntRange - PerSecond
  PROVE  /\ Accepted(InitTime(ms))
         /\ Milliseconds(InitTime(ms)) = ms % PerSecond
         /\ ms % PerSecond < PerSecond
<1> DEFINE n == IntRange - ms
<1>1. ms \in Nat /\ IntRange \in Nat /\ PerSecond \in Nat \ {0}
  BY IntervalAssumption DEF Unsigned
<1>2. n \in Nat /\ n < PerSecond /\ ~(ToInt(ms) >= 0) /\ -ToInt(ms) = n
  BY <1>1 DEF ToInt, FitsInt, Unsigned
<1>3. n \div PerSecond = 0
  <2> HIDE DEF n
  <2>1. /\ n \div PerSecond \in Nat /\ n % PerSecond \in 0..PerSecond - 1
        /\ (n \div PerSecond) * PerSecond + (n % PerSecond) = n
    BY <1>1, <1>2, DivisionExact
  <2>2. CASE n \div PerSecond >= 1
    <3>1. (n \div PerSecond) * PerSecond >= PerSecond
      BY <1>1, <2>1, <2>2
    <3> QED BY <1>1, <1>2, <2>1, <3>1
  <2> QED
    BY <2>1, <2>2
<1>4. Quotient(ToInt(ms), PerSecond) = 0
  <2> HIDE DEF n
  <2> QED BY <1>2, <1>3 DEF Quotient
<1>5. ms % PerSecond \in 0..PerSecond - 1
  BY <1>1, DivisionExact
<1> QED
  BY <1>1, <1>4, <1>5 DEF InitTime, Accepted, Milliseconds

-----------------------------------------------------------------------------
(* The null handlers in a sequence: appending one adds one, taking the head*)
(* takes one if it is null.                                                *)

NullsOf(q) == {i \in 1..Len(q) : q[i] = Null}

LEMMA NullsFinite ==
  ASSUME NEW S, NEW q \in Seq(S)
  PROVE  IsFiniteSet(NullsOf(q)) /\ Cardinality(NullsOf(q)) \in Nat
<1>1. NullsOf(q) \in SUBSET (1..Len(q)) /\ Len(q) \in Nat
  BY DEF NullsOf
<1>2. IsFiniteSet(1..Len(q))
  BY <1>1, FS_Interval
<1> QED
  BY <1>1, <1>2, FS_Subset, FS_CardinalityType

LEMMA NullsAppend ==
  ASSUME NEW S, NEW q \in Seq(S), NEW x \in S
  PROVE  Cardinality(NullsOf(Append(q, x))) =
           IF x = Null THEN Cardinality(NullsOf(q)) + 1 ELSE Cardinality(NullsOf(q))
<1>1. /\ Len(Append(q, x)) = Len(q) + 1 /\ Append(q, x)[Len(q) + 1] = x
      /\ \A i \in 1..Len(q) : Append(q, x)[i] = q[i]
  BY AppendProperties
<1>2. Len(q) \in Nat
  OBVIOUS
<1>3. CASE x = Null
  <2>1. NullsOf(Append(q, x)) = NullsOf(q) \cup {Len(q) + 1}
    BY <1>1, <1>2, <1>3 DEF NullsOf
  <2>2. Len(q) + 1 \notin NullsOf(q)
    BY <1>2 DEF NullsOf
  <2> QED
    BY <1>3, <2>1, <2>2, NullsFinite, FS_AddElement
<1>4. CASE x # Null
  <2>1. NullsOf(Append(q, x)) = NullsOf(q)
    BY <1>1, <1>2, <1>4 DEF NullsOf
  <2> QED
    BY <1>4, <2>1
<1> QED
  BY <1>3, <1>4

LEMMA NullsTail ==
  ASSUME NEW S, NEW q \in Seq(S), q # << >>
  PROVE  Cardinality(NullsOf(Tail(q))) =
           IF Head(q) = Null THEN Cardinality(NullsOf(q)) - 1 ELSE Cardinality(NullsOf(q))
<1> DEFINE Rest == NullsOf(q) \ {1}
           Shift == [i \in Rest |-> i - 1]
<1>1. /\ Len(Tail(q)) = Len(q) - 1 /\ Len(q) \in Nat \ {0} /\ Head(q) = q[1]
      /\ \A i \in 1..Len(q) - 1 : Tail(q)[i] = q[i + 1]
  BY HeadTailProperties, EmptySeq
<1>2. Shift \in Bijection(Rest, NullsOf(Tail(q)))
  <2>1. ASSUME NEW i \in Rest PROVE i - 1 \in NullsOf(Tail(q))
    BY <1>1 DEF NullsOf
  <2>2. ASSUME NEW j \in NullsOf(Tail(q)) PROVE j + 1 \in Rest /\ (j + 1) - 1 = j
    BY <1>1 DEF NullsOf
  <2>3. ASSUME NEW i \in Rest, NEW j \in Rest, i - 1 = j - 1 PROVE i = j
    BY <2>3 DEF NullsOf
  <2>4. /\ Shift \in [Rest -> NullsOf(Tail(q))]
        /\ \A i, j \in Rest : Shift[i] = Shift[j] => i = j
        /\ \A j \in NullsOf(Tail(q)) : \E i \in Rest : Shift[i] = j
    BY <2>1, <2>2, <2>3
  <2> QED
    BY <2>4, Fun_IsBij
<1>3. IsFiniteSet(Rest) /\ Cardinality(Rest) = IF 1 \in NullsOf(q)
                          THEN Cardinality(NullsOf(q)) - 1 ELSE Cardinality(NullsOf(q))
  BY NullsFinite, FS_RemoveElement
<1>4. Cardinality(NullsOf(Tail(q))) = Cardinality(Rest)
  <2>1. ExistsBijection(Rest, NullsOf(Tail(q)))
    BY <1>2, Fun_ExistsBij
  <2> QED
    BY <1>3, <2>1, FS_Bijection
<1>5. 1 \in NullsOf(q) <=> Head(q) = Null
  BY <1>1 DEF NullsOf
<1> QED
  BY <1>3, <1>4, <1>5

-----------------------------------------------------------------------------
(* The timers' clocks.                                                     *)

ClockInv == clock \in [Timers -> Intervals \cup {0}]

(* No interval is one of those of LongestIntervalWraps.                    *)
NoneWraps == \A ms \in Intervals : FitsInt(ms) \/ ms <= IntRange - PerSecond

LEMMA ClockSet ==
  ASSUME NoneWraps, ClockInv, NEW h \in Timers, NEW ms \in Intervals, SetClock(h, ms)
  PROVE  ClockInv'
<1>1. ms \in Unsigned
  BY TimerAssumption
<1>2. FitsInt(ms)
  BY <1>1, LongIntervalRefused DEF SetClock, NoneWraps
<1>3. clock' = [clock EXCEPT ![h] = ms]
  BY <1>1, <1>2, IntervalExact DEF SetClock
<1> QED
  BY <1>3 DEF ClockInv

LEMMA ClockStep ==
  ASSUME NoneWraps, ClockInv, [Next]_vars
  PROVE  ClockInv'
<1>1. ASSUME NEW t \in Adders, NEW h \in Timers, NEW ms \in Intervals, AddTimer(t, h, ms)
      PROVE  ClockInv'
  BY <1>1, ClockSet DEF AddTimer
<1>2. ASSUME NEW t \in Setters, NEW h \in Timers, NEW ms \in Intervals, SetTimer(t, h, ms)
      PROVE  ClockInv'
  BY <1>2, ClockSet DEF SetTimer
<1>3. ASSUME UNCHANGED clock PROVE ClockInv'
  BY <1>3 DEF ClockInv
<1>4. StartLoop \/ StartWorkers \/ StopBegins \/ ManagerStep \/ DestroyLoop \/ DestroyQueue
        => UNCHANGED clock
  BY DEF StartLoop, StartWorkers, StopBegins, ManagerStep, PushNull, JoinWorkers, StopLoop,
         JoinLoop, DestroyLoop, DestroyQueue, timerVars
<1>5. LoopStep \/ EpollWait \/ Dispatch \/ HandlerStep => UNCHANGED clock
  BY DEF LoopStep, EpollWait, Dispatch, HandlerStep, ReadTimer, ReadNothing, ReadFreed,
         HandleReadReturns, timerVars
<1>6. ASSUME NEW h \in Timers, Expire(h) PROVE UNCHANGED clock
  BY <1>6 DEF Expire
<1>7. ASSUME NEW w \in Workers, Pop(w) \/ CallbackReturns(w) PROVE UNCHANGED clock
  BY <1>7 DEF Pop, CallbackReturns, timerVars
<1>8. ASSUME NEW t \in Users \cup Workers, CallStep(t) PROVE UNCHANGED clock
  BY <1>8 DEF CallStep, AddToSelector, RemoveFromSelector, CallReturns, timerVars
<1>9. ASSUME NEW t \in Removers, NEW h \in Timers, RemoveTimer(t, h) PROVE UNCHANGED clock
  BY <1>9 DEF RemoveTimer, timerVars
<1>10. CASE UNCHANGED vars
  BY <1>3, <1>10 DEF vars, timerVars
<1> QED
  BY <1>1, <1>2, <1>3, <1>4, <1>5, <1>6, <1>7, <1>8, <1>9, <1>10 DEF Next

(* An armed timer runs with an interval that was asked for, unless one of  *)
(* the longest was (timer_manager.cpp:54-60).                              *)
THEOREM IntervalsAreKept ==
  ASSUME NoneWraps
  PROVE  Safety => []IntervalsKept
<1>1. Init => ClockInv
  BY DEF Init, ClockInv
<1>2. ClockInv /\ [Next]_vars => ClockInv'
  BY ClockStep
<1>3. ClockInv => IntervalsKept
  BY DEF ClockInv, IntervalsKept, armed
<1> QED
  BY <1>1, <1>2, <1>3, PTL DEF Safety

-----------------------------------------------------------------------------
(* The workers and the null handlers of Stop.                              *)

PoolType ==
  /\ manager \in {"new", "starting", "started", "push", "joined", "stopping", "stopped"}
  /\ to_push \in Nat /\ early \in Nat
  /\ queue \in Seq(Timers \cup {Null})
  /\ at \in [Workers -> {"none", "pop", "running", "exited"}]
  /\ cur \in Timers

(* Before Stop there is no null handler, and no worker has seen one; after *)
(* the join all workers have.                                              *)
PhaseInv ==
  /\ manager \in {"new", "starting", "started"} => Nulls = {} /\ Exited = {}
  /\ manager \in {"joined", "stopping", "stopped"} => to_push = 0 /\ Exited = Workers

(* What was queued before Stop is in front of the null handlers, and while *)
(* it is, no worker exits.                                                 *)
EarlyInv ==
  /\ early <= Len(queue)
  /\ \A i \in 1..early : queue[i] # Null
  /\ early > 0 => Exited = {}

PoolInv == PoolType /\ PhaseInv /\ OneNullEach /\ EarlyInv

LEMMA PoolFinite ==
  ASSUME PoolType
  PROVE  /\ Cardinality(Workers) \in Nat \ {0}
         /\ IsFiniteSet(Exited) /\ Cardinality(Exited) \in Nat
         /\ IsFiniteSet(Nulls) /\ Cardinality(Nulls) \in Nat
         /\ Nulls = NullsOf(queue)
<1>1. Cardinality(Workers) \in Nat /\ Cardinality(Workers) # 0
  BY TimerAssumption, FS_CardinalityType, FS_EmptySet
<1>2. Exited \in SUBSET Workers
  BY DEF Exited
<1>3. IsFiniteSet(Exited) /\ Cardinality(Exited) \in Nat
  BY <1>2, TimerAssumption, FS_Subset, FS_CardinalityType
<1>4. Nulls = NullsOf(queue)
  BY DEF Nulls, NullsOf
<1> QED
  BY <1>1, <1>3, <1>4, NullsFinite DEF PoolType

(* The loop's pointer stays a handler of the manager.                      *)
LEMMA CurStep ==
  ASSUME cur \in Timers, [Next]_vars
  PROVE  cur' \in Timers
<1>1. ASSUME UNCHANGED cur PROVE cur' \in Timers
  BY <1>1
<1>2. StartLoop \/ StartWorkers \/ StopBegins => UNCHANGED cur
  BY DEF StartLoop, StartWorkers, StopBegins, loopVars, EL!Start, EL!SetStarted, EL!loopVars
<1>3. ManagerStep => UNCHANGED cur
  BY DEF ManagerStep, PushNull, JoinWorkers, StopLoop, JoinLoop, loopVars, EL!Join
<1>4. DestroyLoop \/ DestroyQueue => UNCHANGED cur
  BY DEF DestroyLoop, DestroyQueue, Forget, loopVars, EL!Destroy, EL!ReleaseReference,
         EL!loopVars
<1>5. LoopStep \/ EpollWait => UNCHANGED cur
  BY DEF LoopStep, EpollWait, EL!LoopTest, EL!BatchDone, EL!EpollWait
<1>6. Dispatch => cur' \in Timers
  BY DEF Dispatch, EL!Dispatch
<1>7. HandlerStep => UNCHANGED cur
  BY DEF HandlerStep, ReadTimer, ReadNothing, ReadFreed, HandleReadReturns, loopVars,
         EL!KeepReference, EL!HandlerReturns, EL!CallbackOnFreed, EL!loopVars
<1>8. ASSUME NEW h \in Timers, Expire(h) PROVE UNCHANGED cur
  BY <1>8 DEF Expire, loopVars
<1>9. ASSUME NEW w \in Workers, Pop(w) \/ CallbackReturns(w) PROVE UNCHANGED cur
  BY <1>9 DEF Pop, CallbackReturns, Forget, loopVars, EL!ReleaseReference, EL!loopVars
<1>10. ASSUME NEW t \in Users \cup Workers, CallStep(t) PROVE UNCHANGED cur
  BY <1>10 DEF CallStep, AddToSelector, RemoveFromSelector, CallReturns, EL!RegisterAdd,
         EL!UnregisterDel, EL!DropReference, EL!loopVars
<1>11. ASSUME NEW t, NEW h, NEW ms, AddTimer(t, h, ms) PROVE UNCHANGED cur
  BY <1>11 DEF AddTimer, EL!RegisterInsert, EL!loopVars
<1>12. ASSUME NEW t, NEW h, NEW ms, SetTimer(t, h, ms) PROVE UNCHANGED cur
  BY <1>12 DEF SetTimer, loopVars
<1>13. ASSUME NEW t, NEW h, RemoveTimer(t, h) PROVE UNCHANGED cur
  BY <1>13 DEF RemoveTimer, EL!RemoveHandler, EL!loopVars
<1>14. CASE UNCHANGED vars
  BY <1>1, <1>14 DEF vars, loopVars
<1> QED
  BY <1>1, <1>2, <1>3, <1>4, <1>5, <1>6, <1>7, <1>8, <1>9, <1>10, <1>11, <1>12, <1>13,
     <1>14 DEF Next

LEMMA PoolInit == Init /\ cur \in Timers => PoolInv
<1> SUFFICES ASSUME Init, cur \in Timers PROVE PoolInv
  OBVIOUS
<1>1. /\ manager = "new" /\ to_push = 0 /\ early = 0 /\ queue = << >>
      /\ at = [w \in Workers |-> "none"]
  BY DEF Init
<1>2. Nulls = {} /\ Exited = {}
  BY <1>1 DEF Nulls, Exited
<1> QED
  BY <1>1, <1>2 DEF PoolInv, PoolType, PhaseInv, OneNullEach, EarlyInv

(* A step that changes neither the workers, nor Stop, nor the queue.       *)
LEMMA PoolUnchanged ==
  ASSUME PoolInv, cur' \in Timers, UNCHANGED <<manager, to_push, queue, at, early>>
  PROVE  PoolInv'
BY DEF PoolInv, PoolType, PhaseInv, OneNullEach, EarlyInv, Nulls, Exited

(* Start: no null handler, no exit.                                        *)
LEMMA PoolStarts ==
  ASSUME PoolInv, cur' \in Timers, StartLoop \/ StartWorkers
  PROVE  PoolInv'
<1>1. /\ manager \in {"new", "starting"} /\ manager' \in {"starting", "started"}
      /\ UNCHANGED <<to_push, queue, early>>
      /\ at' = at \/ at' = [w \in Workers |-> "pop"]
  BY DEF StartLoop, StartWorkers, poolVars
<1>2. Nulls' = {} /\ Exited' = {}
  BY <1>1 DEF PoolInv, PhaseInv, Nulls, Exited
<1> QED
  BY <1>1, <1>2 DEF PoolInv, PoolType, PhaseInv, OneNullEach, EarlyInv

(* Stop has as many null handlers to push as there are workers.            *)
LEMMA PoolStopBegins ==
  ASSUME PoolInv, cur' \in Timers, StopBegins
  PROVE  PoolInv'
<1>1. /\ manager = "started" /\ manager' = "push"
      /\ to_push' = Cardinality(Workers) /\ early' = Len(queue)
      /\ UNCHANGED <<queue, at>>
  BY DEF StopBegins
<1>2. Nulls = {} /\ Exited = {} /\ Nulls' = Nulls /\ Exited' = Exited
  BY <1>1 DEF PoolInv, PhaseInv, Nulls, Exited
<1>3. Cardinality(Nulls') = 0 /\ Cardinality(Exited') = 0
  BY <1>2, FS_EmptySet
<1>4. Len(queue) \in Nat /\ \A i \in 1..Len(queue) : queue[i] # Null
  BY <1>2 DEF PoolInv, PoolType, Nulls
<1> QED
  BY <1>1, <1>2, <1>3, <1>4, PoolFinite
     DEF PoolInv, PoolType, PhaseInv, OneNullEach, EarlyInv

(* A handler, or one of Stop's null handlers, goes to the end of the queue.*)
LEMMA PoolAppends ==
  ASSUME PoolInv, cur' \in Timers, NEW x \in Timers \cup {Null},
         queue' = Append(queue, x), UNCHANGED <<manager, at, early>>,
         x = Null => manager = "push" /\ to_push > 0 /\ to_push' = to_push - 1,
         x # Null => to_push' = to_push
  PROVE  PoolInv'
<1> USE DEF PoolInv
<1>1. /\ queue' \in Seq(Timers \cup {Null}) /\ Len(queue') = Len(queue) + 1
      /\ \A i \in 1..Len(queue) : queue'[i] = queue[i]
      /\ queue'[Len(queue) + 1] = x /\ Len(queue) \in Nat
  BY AppendProperties DEF PoolType
<1>2. Cardinality(Nulls') = IF x = Null THEN Cardinality(Nulls) + 1 ELSE Cardinality(Nulls)
  <2>1. Nulls = NullsOf(queue) /\ Nulls' = NullsOf(Append(queue, x))
    BY DEF Nulls, NullsOf
  <2>2. queue \in Seq(Timers \cup {Null})
    BY DEF PoolType
  <2> QED
    BY <2>1, <2>2, NullsAppend
<1>3. Exited' = Exited
  BY DEF Exited
<1>4. PoolType'
  BY <1>1 DEF PoolType
<1>5. PhaseInv'
  <2>1. x # Null /\ Nulls = {} => Nulls' = {}
    BY <1>1 DEF Nulls
  <2> QED
    BY <1>3, <2>1 DEF PhaseInv
<1>6. OneNullEach'
  BY <1>2, <1>3, PoolFinite DEF OneNullEach, PoolType
<1>7. EarlyInv'
  BY <1>1, <1>3 DEF EarlyInv, PoolType
<1> QED
  BY <1>4, <1>5, <1>6, <1>7

(* All workers are through: nothing more was queued in front of the null   *)
(* handlers, and none of these is left.                                    *)
LEMMA JoinedEmpty ==
  ASSUME PoolInv, Exited = Workers
  PROVE  early = 0 /\ (manager # "push" => Nulls = {})
<1>1. manager \notin {"new", "starting", "started"} /\ early = 0
  BY TimerAssumption DEF PoolInv, PoolType, PhaseInv, EarlyInv
<1>2. Cardinality(Nulls) + to_push = 0
  BY <1>1, PoolFinite DEF PoolInv, PoolType, OneNullEach
<1>3. Cardinality(Nulls) = 0
  BY <1>2, PoolFinite DEF PoolInv, PoolType
<1> QED
  BY <1>1, <1>3, PoolFinite, FS_EmptySet DEF PoolInv

(* The head of the queue goes, to worker w: a null one ends the worker.    *)
LEMMA PoolPops ==
  ASSUME PoolInv, cur' \in Timers, NEW w \in Workers, Pop(w)
  PROVE  PoolInv'
<1> USE DEF PoolInv
<1>1. /\ at[w] = "pop" /\ queue # << >> /\ queue' = Tail(queue)
      /\ at' = [at EXCEPT ![w] = IF Head(queue) = Null THEN "exited" ELSE "running"]
      /\ early' = IF early > 0 THEN early - 1 ELSE 0
      /\ UNCHANGED <<manager, to_push>>
  BY DEF Pop, stopVars
<1>2. /\ queue' \in Seq(Timers \cup {Null}) /\ Len(queue') = Len(queue) - 1
      /\ \A i \in 1..Len(queue) - 1 : queue'[i] = queue[i + 1]
      /\ Len(queue) \in Nat \ {0} /\ Head(queue) = queue[1]
  BY <1>1, HeadTailProperties, EmptySeq DEF PoolType
<1>3. Cardinality(Nulls') = IF Head(queue) = Null THEN Cardinality(Nulls) - 1
                                                  ELSE Cardinality(Nulls)
  <2>1. Nulls = NullsOf(queue) /\ Nulls' = NullsOf(Tail(queue))
    BY <1>1 DEF Nulls, NullsOf
  <2>2. queue \in Seq(Timers \cup {Null})
    BY DEF PoolType
  <2> QED
    BY <1>1, <2>1, <2>2, NullsTail
<1>4. w \notin Exited /\ at \in [Workers -> {"none", "pop", "running", "exited"}]
  BY <1>1 DEF Exited, PoolType
<1>5. Exited' = IF Head(queue) = Null THEN Exited \cup {w} ELSE Exited
  BY <1>1, <1>4 DEF Exited
<1>6. Cardinality(Exited') = IF Head(queue) = Null THEN Cardinality(Exited) + 1
                                                   ELSE Cardinality(Exited)
  BY <1>4, <1>5, PoolFinite, FS_AddElement
<1>7. PoolType'
  BY <1>1, <1>2, <1>4 DEF PoolType
<1>8. manager \notin {"joined", "stopping", "stopped"}
  BY <1>4 DEF PhaseInv
<1>9. PhaseInv'
  <2>1. ASSUME Nulls = {} PROVE Head(queue) # Null /\ Nulls' = {}
    BY <1>2, <2>1 DEF Nulls
  <2> QED
    BY <1>1, <1>5, <1>8, <2>1 DEF PhaseInv
<1>10. OneNullEach'
  BY <1>1, <1>3, <1>6, PoolFinite DEF OneNullEach, PoolType
<1>11. EarlyInv'
  <2>1. CASE early > 0
    <3>1. Head(queue) # Null
      BY <1>2, <2>1 DEF EarlyInv, PoolType
    <3> QED
      BY <1>1, <1>2, <1>5, <2>1, <3>1 DEF EarlyInv, PoolType
  <2>2. CASE early = 0
    BY <1>1, <1>2, <2>2 DEF EarlyInv
  <2> QED
    BY <2>1, <2>2 DEF PoolType
<1> QED
  BY <1>7, <1>9, <1>10, <1>11

LEMMA PoolCallbackReturns ==
  ASSUME PoolInv, cur' \in Timers, NEW w \in Workers, CallbackReturns(w)
  PROVE  PoolInv'
<1>1. /\ at[w] = "running" /\ at' = [at EXCEPT ![w] = "pop"]
      /\ UNCHANGED <<queue, early, manager, to_push>>
  BY DEF CallbackReturns, stopVars
<1>2. Exited' = Exited /\ Nulls' = Nulls
  BY <1>1 DEF Exited, Nulls, PoolInv, PoolType
<1> QED
  BY <1>1, <1>2 DEF PoolInv, PoolType, PhaseInv, OneNullEach, EarlyInv

(* Stop, once the null handlers are pushed, and the manager's end.         *)
LEMMA PoolStops ==
  ASSUME PoolInv, cur' \in Timers, JoinWorkers \/ StopLoop \/ JoinLoop
  PROVE  PoolInv'
<1>1. /\ UNCHANGED <<to_push, queue, at, early>>
      /\ manager \in {"push", "joined", "stopping"}
      /\ manager' \in {"joined", "stopping", "stopped"}
      /\ to_push = 0 /\ Exited = Workers
  BY DEF JoinWorkers, StopLoop, JoinLoop, poolVars, PoolInv, PhaseInv, Exited
<1>2. Exited' = Exited /\ Nulls' = Nulls
  BY <1>1 DEF Exited, Nulls
<1> QED
  BY <1>1, <1>2 DEF PoolInv, PoolType, PhaseInv, OneNullEach, EarlyInv

LEMMA PoolDestroyed ==
  ASSUME PoolInv, cur' \in Timers, DestroyQueue
  PROVE  PoolInv'
<1> USE DEF PoolInv
<1>1. /\ manager = "stopped" /\ queue # << >> /\ queue' = Tail(queue)
      /\ UNCHANGED <<manager, to_push, at, early>>
  BY DEF DestroyQueue, stopVars
<1>2. Exited = Workers /\ to_push = 0 /\ early = 0 /\ Nulls = {}
  BY <1>1, JoinedEmpty DEF PhaseInv
<1>3. /\ queue' \in Seq(Timers \cup {Null}) /\ Len(queue') \in Nat
      /\ Len(queue') = Len(queue) - 1
      /\ \A i \in 1..Len(queue) - 1 : queue'[i] = queue[i + 1]
  BY <1>1, HeadTailProperties, EmptySeq DEF PoolType
<1>4. Nulls' = {} /\ Exited' = Exited
  BY <1>1, <1>2, <1>3 DEF Nulls, Exited, PoolType
<1> QED
  BY <1>1, <1>2, <1>3, <1>4 DEF PoolType, PhaseInv, OneNullEach, EarlyInv

LEMMA PoolStep ==
  ASSUME PoolInv, [Next]_vars
  PROVE  PoolInv'
<1>0. cur \in Timers /\ cur' \in Timers
  BY CurStep DEF PoolInv, PoolType
<1>1. CASE StartLoop \/ StartWorkers
  BY <1>0, <1>1, PoolStarts
<1>2. CASE StopBegins
  BY <1>0, <1>2, PoolStopBegins
<1>3. CASE PushNull
  <2>1. /\ manager = "push" /\ to_push > 0 /\ queue' = Append(queue, Null)
        /\ to_push' = to_push - 1 /\ UNCHANGED <<manager, at, early>>
    BY <1>3 DEF PushNull
  <2> QED
    BY <1>0, <2>1, PoolAppends
<1>4. CASE JoinWorkers \/ StopLoop \/ JoinLoop
  BY <1>0, <1>4, PoolStops
<1>5. CASE DestroyQueue
  BY <1>0, <1>5, PoolDestroyed
<1>6. CASE ReadTimer
  <2>1. /\ queue' = Append(queue, cur) /\ cur # Null
        /\ UNCHANGED <<manager, to_push, at, early>>
    BY <1>0, <1>6, TimerAssumption DEF ReadTimer, stopVars
  <2> QED
    BY <1>0, <2>1, PoolAppends
<1>7. ASSUME NEW w \in Workers, Pop(w) \/ CallbackReturns(w) PROVE PoolInv'
  BY <1>0, <1>7, PoolPops, PoolCallbackReturns
<1>8. ASSUME UNCHANGED <<stopVars, poolVars>> PROVE PoolInv'
  BY <1>0, <1>8, PoolUnchanged DEF stopVars, poolVars
<1>9. DestroyLoop \/ LoopStep \/ EpollWait \/ Dispatch \/ ReadNothing \/ ReadFreed
        \/ HandleReadReturns => UNCHANGED <<stopVars, poolVars>>
  BY DEF DestroyLoop, LoopStep, EpollWait, Dispatch, ReadNothing, ReadFreed, HandleReadReturns
<1>10. ASSUME NEW h \in Timers, Expire(h) PROVE UNCHANGED <<stopVars, poolVars>>
  BY <1>10 DEF Expire
<1>11. ASSUME NEW t \in Users \cup Workers, CallStep(t) PROVE UNCHANGED <<stopVars, poolVars>>
  BY <1>11 DEF CallStep, AddToSelector, RemoveFromSelector, CallReturns
<1>12. ASSUME NEW t, NEW h, NEW ms, AddTimer(t, h, ms) \/ SetTimer(t, h, ms)
       PROVE  UNCHANGED <<stopVars, poolVars>>
  BY <1>12 DEF AddTimer, SetTimer
<1>13. ASSUME NEW t, NEW h, RemoveTimer(t, h) PROVE UNCHANGED <<stopVars, poolVars>>
  BY <1>13 DEF RemoveTimer
<1>14. CASE UNCHANGED vars
  BY <1>8, <1>14 DEF vars
<1> QED
  BY <1>1, <1>2, <1>3, <1>4, <1>5, <1>6, <1>7, <1>8, <1>9, <1>10, <1>11, <1>12, <1>13,
     <1>14 DEF Next, ManagerStep, HandlerStep

LEMMA PoolAlways == Safety => []PoolInv
<1>1. Init => PoolInv
  BY PoolInit DEF Init, EL!Init
<1>2. PoolInv /\ [Next]_vars => PoolInv'
  BY PoolStep
<1> QED
  BY <1>1, <1>2, PTL DEF Safety

(* Once Stop has begun there is one null handler, to push or in the queue, *)
(* for each worker that has not exited (timer_manager.cpp:42-50, 102-116), *)
(* with any number of workers, timers and queued handlers.                 *)
THEOREM OneNullForEachWorker == Safety => []OneNullEach
<1>1. PoolInv => OneNullEach
  BY DEF PoolInv
<1> QED
  BY <1>1, PoolAlways, PTL

(* When Stop has joined its workers each handler that was queued before    *)
(* has had its callback, and no callback runs (timer_manager.cpp:42-52).   *)
THEOREM StopDrainsTheQueue == Safety => []StopDrains
<1>1. ASSUME PoolInv PROVE StopDrains
  <2>1. CASE manager \in {"joined", "stopping", "stopped"}
    <3>1. Exited = Workers /\ early = 0
      BY <1>1, <2>1, JoinedEmpty DEF PoolInv, PhaseInv
    <3> QED
      BY <3>1 DEF StopDrains, Exited
  <2> QED
    BY <2>1 DEF StopDrains
<1> QED
  BY <1>1, PoolAlways, PTL

-----------------------------------------------------------------------------
(* The manager keeps the rules of its event loop.                          *)

(* Callbacks are all that calls the loop from a worker, and the loop has   *)
(* been started, and nobody stops it, for as long as there are any.  The   *)
(* loop's own thread never calls it.                                       *)
CallInv ==
  /\ manager \in {"new", "starting"} => \A w \in Workers : at[w] = "none"
  /\ manager \in {"started", "push", "joined"} => owner = "idle"
  /\ stage[LoopThread] = "idle"
  /\ \A w \in Workers : stage[w] # "idle" => at[w] = "running"
  /\ job \in [Workers -> Timers \cup {Null}]
  /\ \A w \in Workers : at[w] = "running" => job[w] # Null

UseInv == EL!TypeOK /\ PoolInv /\ CallInv

(* The manager's loop with what is proved of every event loop.             *)
Proved == INSTANCE EventLoop_proofs WITH
  Handlers <- Timers, Threads <- Users \cup Workers, Reusable <- {},
  OpenMayFail <- FALSE, held <- Held

LEMMA LoopRules == Proved!ConstantsAssumption
BY TimerAssumption DEF Proved!ConstantsAssumption, Proved!Callers

LEMMA SameNext == [EL!Next]_(EL!vars) <=> [Proved!Next]_(Proved!vars)
<1>1. EL!EpollWait <=> Proved!EpollWait
  BY DEF EL!EpollWait, Proved!EpollWait, EL!Reported, Proved!Reported, EL!EVENT_READWRITE,
     Proved!EVENT_READWRITE, EL!EVENT_READ, Proved!EVENT_READ, EL!EVENT_WRITE, Proved!EVENT_WRITE,
     EL!controlVars, Proved!controlVars, EL!callVars, Proved!callVars, EL!objectVars,
     Proved!objectVars, EL!Cardinality, Proved!Cardinality
<1> QED
  BY <1>1 DEF EL!Next, Proved!Next, EL!OwnerStep, Proved!OwnerStep,
     EL!LoopStep, Proved!LoopStep, EL!CallbackStep, Proved!CallbackStep, EL!Start,
     Proved!Start, EL!SetStarted, Proved!SetStarted, EL!Stopping, Proved!Stopping,
     EL!Join, Proved!Join, EL!Destroy, Proved!Destroy, EL!LoopTest, Proved!LoopTest,
     EL!Dispatch, Proved!Dispatch, EL!BatchDone, Proved!BatchDone,
     EL!CallOn, Proved!CallOn, EL!InUserCode, Proved!InUserCode, EL!MayCall,
     Proved!MayCall, EL!CallbackEnds, Proved!CallbackEnds, EL!CallbackOnFreed,
     Proved!CallbackOnFreed, EL!HandlerReturns, Proved!HandlerReturns, EL!HandlerUnregisters,
     Proved!HandlerUnregisters, EL!UnregisterErase, Proved!UnregisterErase,
     EL!HandlerModifies, Proved!HandlerModifies, EL!KeepReference,
     Proved!KeepReference, EL!CallStep, Proved!CallStep, EL!RegisterAdd,
     Proved!RegisterAdd, EL!UnregisterDel, Proved!UnregisterDel, EL!DropReference,
     Proved!DropReference, EL!RegisterInsert, Proved!RegisterInsert,
     EL!RemoveHandler, Proved!RemoveHandler, EL!ReleaseReference,
     Proved!ReleaseReference, EL!vars, Proved!vars, EL!controlVars, Proved!controlVars,
     EL!loopVars, Proved!loopVars, EL!callVars, Proved!callVars, EL!objectVars,
     Proved!objectVars, EL!Callers, Proved!Callers, EL!Alive, Proved!Alive,
     EL!AliveWithout, Proved!AliveWithout, EL!Pinned, Proved!Pinned,
     EL!CloseDescriptor, Proved!CloseDescriptor, EL!CallFor, Proved!CallFor,
     EL!InCallback, Proved!InCallback, EL!Requests, Proved!Requests, EL!EVENT_READ,
     Proved!EVENT_READ, EL!EVENT_WRITE, Proved!EVENT_WRITE, EL!EVENT_READWRITE,
     Proved!EVENT_READWRITE

LEMMA LoopTypeStep == EL!TypeOK /\ [EL!Next]_(EL!vars) => EL!TypeOK'
<1>1. EL!TypeOK <=> Proved!TypeOK
  BY DEF EL!TypeOK, Proved!TypeOK, EL!States, Proved!States, EL!LoopPoints,
     Proved!LoopPoints, EL!InSelect, Proved!InSelect, EL!InCallback, Proved!InCallback,
     EL!Stages, Proved!Stages,
     EL!Callers, Proved!Callers
<1>2. EL!TypeOK' <=> Proved!TypeOK'
  BY DEF EL!TypeOK, Proved!TypeOK, EL!States, Proved!States, EL!LoopPoints,
     Proved!LoopPoints, EL!InSelect, Proved!InSelect, EL!InCallback, Proved!InCallback,
     EL!Stages, Proved!Stages,
     EL!Callers, Proved!Callers
<1> QED
  BY <1>1, <1>2, SameNext, LoopRules, Proved!TypeStep

(* Nothing of the loop changes, and no shared_ptr comes or goes.           *)
LEMMA LoopStutters ==
  ASSUME UNCHANGED loopVars, Held' = Held
  PROVE  UNCHANGED EL!vars
BY DEF loopVars, EL!vars

LEMMA HeldUnchanged ==
  ASSUME UNCHANGED <<queue, at, job>>
  PROVE  Held' = Held
BY DEF Held, Queued, Running

(* A null handler in the queue keeps nothing alive.                        *)
LEMMA HeldNull ==
  ASSUME PoolType, queue' = Append(queue, Null), UNCHANGED <<at, job>>
  PROVE  Held' = Held
<1>1. /\ Len(queue') = Len(queue) + 1 /\ queue'[Len(queue) + 1] = Null
      /\ \A i \in 1..Len(queue) : queue'[i] = queue[i]
      /\ Len(queue) \in Nat
  BY AppendProperties DEF PoolType
<1>2. \A h \in Timers : Queued(h)' <=> Queued(h)
  BY <1>1, TimerAssumption DEF Queued
<1> QED
  BY <1>2 DEF Held, Running

(* What Tail leaves of a queue.                                            *)
LEMMA QueuedTail ==
  ASSUME PoolType, queue # << >>, queue' = Tail(queue), NEW h
  PROVE  Queued(h) <=> Queued(h)' \/ h = Head(queue)
<1>1. /\ Len(queue') = Len(queue) - 1 /\ Len(queue) \in Nat \ {0} /\ Head(queue) = queue[1]
      /\ \A i \in 1..Len(queue) - 1 : queue'[i] = queue[i + 1]
  BY HeadTailProperties, EmptySeq DEF PoolType
<1>2. ASSUME Queued(h), h # Head(queue) PROVE Queued(h)'
  <2>1. PICK i \in 1..Len(queue) : queue[i] = h
    BY <1>2 DEF Queued
  <2>2. i - 1 \in 1..Len(queue') /\ queue'[i - 1] = h
    BY <1>1, <1>2, <2>1
  <2> QED
    BY <2>2 DEF Queued
<1>3. ASSUME Queued(h)' PROVE Queued(h)
  <2>1. PICK i \in 1..Len(queue') : queue'[i] = h
    BY <1>3 DEF Queued
  <2>2. i + 1 \in 1..Len(queue) /\ queue[i + 1] = h
    BY <1>1, <2>1
  <2> QED
    BY <2>2 DEF Queued
<1>4. Queued(Head(queue))
  BY <1>1 DEF Queued
<1> QED
  BY <1>2, <1>3, <1>4

(* Pop moves a shared_ptr: whoever was held still is.                      *)
LEMMA HeldPop ==
  ASSUME UseInv, NEW w \in Workers, Pop(w)
  PROVE  Held' = Held
<1>1. /\ at[w] = "pop" /\ queue # << >> /\ queue' = Tail(queue)
      /\ at' = [at EXCEPT ![w] = IF Head(queue) = Null THEN "exited" ELSE "running"]
      /\ job' = [job EXCEPT ![w] = Head(queue)]
      /\ PoolType
      /\ DOMAIN at = Workers /\ DOMAIN job = Workers
  BY DEF Pop, UseInv, CallInv, PoolInv, PoolType
<1>2. \A h \in Timers : Running(h)' <=> Running(h) \/ h = Head(queue)
  BY <1>1, TimerAssumption DEF Running
<1>3. \A h \in Timers : Queued(h) <=> Queued(h)' \/ h = Head(queue)
  BY <1>1, QueuedTail
<1> QED
  BY <1>2, <1>3 DEF Held

(* A copy of h's shared_ptr goes away, and no other handler's.             *)
LEMMA Forgets ==
  ASSUME NEW h \in Timers \cup {Null}, Forget(h), h \in Held,
         \A g \in Timers : g # h => (g \in Held' <=> g \in Held)
  PROVE  UNCHANGED EL!vars \/ \E g \in Timers : EL!ReleaseReference(g)
<1>1. Held \subseteq Timers /\ Held' \subseteq Timers
  BY DEF Held
<1>2. CASE h \in Held'
  <2>1. Held' = Held
    BY <1>1, <1>2
  <2> QED
    BY <1>2, <2>1, LoopStutters DEF Forget
<1>3. CASE h \notin Held'
  BY <1>1, <1>3 DEF Forget
<1> QED
  BY <1>2, <1>3

LEMMA DestroyQueueForgets ==
  ASSUME UseInv, DestroyQueue
  PROVE  UNCHANGED EL!vars \/ \E g \in Timers : EL!ReleaseReference(g)
<1>1. /\ manager = "stopped" /\ queue # << >> /\ queue' = Tail(queue)
      /\ UNCHANGED <<at, job>> /\ Forget(Head(queue)) /\ PoolType
  BY DEF DestroyQueue, UseInv, PoolInv
<1>2. Head(queue) \in Timers
  <2>1. Nulls = {}
    BY <1>1, JoinedEmpty DEF UseInv, PoolInv, PhaseInv
  <2>2. Len(queue) \in Nat \ {0} /\ Head(queue) = queue[1] /\ queue[1] \in Timers \cup {Null}
    BY <1>1, HeadTailProperties, EmptySeq DEF PoolType
  <2> QED
    BY <2>1, <2>2 DEF Nulls
<1>3. \A g \in Timers : Running(g)' <=> Running(g)
  BY <1>1 DEF Running
<1>4. \A g \in Timers : Queued(g) <=> Queued(g)' \/ g = Head(queue)
  BY <1>1, QueuedTail
<1>5. Head(queue) \in Held /\ \A g \in Timers : g # Head(queue) => (g \in Held' <=> g \in Held)
  BY <1>2, <1>3, <1>4 DEF Held
<1> QED
  BY <1>1, <1>2, <1>5, Forgets

LEMMA CallbackForgets ==
  ASSUME UseInv, NEW w \in Workers, CallbackReturns(w)
  PROVE  UNCHANGED EL!vars \/ \E g \in Timers : EL!ReleaseReference(g)
<1>1. /\ at[w] = "running" /\ at' = [at EXCEPT ![w] = "pop"]
      /\ job' = [job EXCEPT ![w] = Null] /\ queue' = queue /\ Forget(job[w])
      /\ DOMAIN at = Workers /\ DOMAIN job = Workers /\ job[w] \in Timers
  BY DEF CallbackReturns, UseInv, CallInv, PoolInv, PoolType
<1>2. \A g \in Timers : Queued(g)' <=> Queued(g)
  BY <1>1 DEF Queued
<1>3. \A g \in Timers : g # job[w] => (Running(g)' <=> Running(g))
  BY <1>1 DEF Running
<1>4. Running(job[w])
  BY <1>1 DEF Running
<1>5. job[w] \in Held /\ \A g \in Timers : g # job[w] => (g \in Held' <=> g \in Held)
  BY <1>1, <1>2, <1>3, <1>4 DEF Held
<1> QED
  BY <1>1, <1>5, Forgets

(* m_loop.Stop() comes when the loop's rules allow it: no callback is left *)
(* that may be in a call, and nobody else stops the loop.                  *)
LEMMA StopLoopAllowed ==
  ASSUME UseInv, StopLoop
  PROVE  EL!Stopping
<1>1. /\ manager = "joined" /\ m_state = "STARTED" /\ m_state' = "STOPPING"
      /\ owner = "idle" /\ owner' = "join"
      /\ \A t \in Users : stage[t] = "idle"
      /\ UNCHANGED <<epoll_open, interest, m_handlers, loop, batch, cur, stage, arg,
                     fresh, known, queue, at, job>>
  BY DEF StopLoop, UseInv, CallInv, poolVars
<1>2. Exited = Workers
  BY <1>1 DEF UseInv, PoolInv, PhaseInv
<1>3. \A t \in Workers : stage[t] = "idle"
  BY <1>2 DEF UseInv, CallInv, Exited
<1>4. Held' = Held
  BY <1>1, HeldUnchanged
<1> QED
  BY <1>1, <1>3, <1>4 DEF EL!Stopping, EL!loopVars, EL!callVars, EL!objectVars

(* Every step of the manager is one of its loop, or none.                  *)
LEMMA LoopSimulation == UseInv /\ [Next]_vars => [EL!Next]_(EL!vars)
<1> SUFFICES ASSUME UseInv, [Next]_vars PROVE [EL!Next]_(EL!vars)
  OBVIOUS
<1>1. CASE StartLoop \/ StartWorkers \/ StopLoop \/ JoinLoop \/ DestroyLoop
  <2>1. EL!Start \/ EL!SetStarted \/ EL!Stopping \/ EL!Join \/ EL!Destroy
    BY <1>1, StopLoopAllowed DEF StartLoop, StartWorkers, JoinLoop, DestroyLoop
  <2> QED
    BY <2>1 DEF EL!Next, EL!OwnerStep
<1>2. CASE StopBegins \/ JoinWorkers \/ ReadNothing
  BY <1>2, HeldUnchanged, LoopStutters DEF StopBegins, JoinWorkers, ReadNothing, poolVars
<1>3. CASE PushNull
  <2>1. PoolType /\ queue' = Append(queue, Null) /\ UNCHANGED <<at, job, loopVars>>
    BY <1>3 DEF PushNull, UseInv, PoolInv
  <2> QED
    BY <2>1, HeldNull, LoopStutters
<1>4. CASE DestroyQueue
  BY <1>4, DestroyQueueForgets DEF EL!Next
<1>5. CASE LoopStep \/ EpollWait \/ Dispatch
  <2>1. EL!LoopStep
    BY <1>5 DEF LoopStep, EpollWait, Dispatch, EL!LoopStep
  <2> QED
    BY <2>1 DEF EL!Next
<1>6. CASE ReadTimer \/ ReadFreed \/ HandleReadReturns
  <2>1. EL!KeepReference \/ EL!CallbackOnFreed \/ EL!HandlerReturns
    BY <1>6 DEF ReadTimer, ReadFreed, HandleReadReturns
  <2> QED
    BY <2>1 DEF EL!Next, EL!CallbackStep
<1>7. ASSUME NEW w \in Workers, Pop(w) PROVE UNCHANGED EL!vars
  <2>1. UNCHANGED loopVars
    BY <1>7 DEF Pop
  <2> QED
    BY <1>7, <2>1, HeldPop, LoopStutters
<1>8. ASSUME NEW w \in Workers, CallbackReturns(w) PROVE [EL!Next]_(EL!vars)
  BY <1>8, CallbackForgets DEF EL!Next
<1>9. ASSUME NEW t \in Users \cup Workers, CallStep(t) PROVE EL!Next
  <2>1. EL!CallStep(t)
    BY <1>9 DEF CallStep, AddToSelector, RemoveFromSelector, CallReturns, EL!CallStep
  <2> QED
    BY <2>1 DEF EL!Next, EL!Callers
<1>10. ASSUME NEW t \in Adders, NEW h \in Timers, NEW ms \in Intervals, AddTimer(t, h, ms)
       PROVE  EL!Next
  <2>1. t \in Users \cup Workers /\ EL!RegisterInsert(t, h)
    BY <1>10, TimerAssumption DEF AddTimer
  <2> QED
    BY <2>1 DEF EL!Next, EL!Callers
<1>11. ASSUME NEW t \in Removers, NEW h \in Timers, RemoveTimer(t, h) PROVE EL!Next
  BY <1>11 DEF RemoveTimer, EL!Next
<1>12. ASSUME NEW t, NEW h, NEW ms, SetTimer(t, h, ms) \/ Expire(h) PROVE UNCHANGED EL!vars
  BY <1>12, HeldUnchanged, LoopStutters DEF SetTimer, Expire, poolVars
<1>13. CASE UNCHANGED vars
  BY <1>13, HeldUnchanged, LoopStutters DEF vars, poolVars
<1> QED
  BY <1>1, <1>2, <1>3, <1>4, <1>5, <1>6, <1>7, <1>8, <1>9, <1>10, <1>11, <1>12, <1>13
     DEF Next, ManagerStep, HandlerStep

-----------------------------------------------------------------------------
(* CallInv is inductive.                                                   *)

(* A step that begins no call from a worker and ends no callback.          *)
LEMMA CallsKept ==
  ASSUME UseInv, UNCHANGED <<at, job>>, stage'[LoopThread] = stage[LoopThread],
         \A w \in Workers : stage'[w] = "idle" \/ stage'[w] = stage[w] \/ at[w] = "running",
         manager' = manager \/ manager = "new" \/ manager' \notin {"new", "starting"},
         manager' \in {"started", "push", "joined"} => owner' = "idle"
  PROVE  CallInv'
<1>1. PhaseInv /\ PoolType
  BY DEF UseInv, PoolInv
<1>2. manager' \in {"new", "starting"} => manager \in {"new", "starting"}
  BY <1>1 DEF PoolType
<1> QED
  BY <1>2 DEF UseInv, CallInv

LEMMA CallStarts ==
  ASSUME UseInv, StartWorkers
  PROVE  CallInv'
BY DEF StartWorkers, UseInv, CallInv, EL!SetStarted, EL!callVars

LEMMA CallPops ==
  ASSUME UseInv, NEW w \in Workers, Pop(w) \/ CallbackReturns(w)
  PROVE  CallInv'
<1>1. /\ manager' = manager /\ DOMAIN at = Workers
      /\ stage' = stage /\ owner' = owner
  BY DEF Pop, CallbackReturns, Forget, stopVars, loopVars, EL!ReleaseReference, EL!callVars,
         EL!controlVars, UseInv, PoolInv, PoolType
<1>2. at[w] \in {"pop", "running"} /\ manager \notin {"new", "starting"}
  BY DEF Pop, CallbackReturns, UseInv, CallInv
<1>3. stage[w] = "idle"
  BY DEF Pop, CallbackReturns, UseInv, CallInv
<1>4. CASE Pop(w)
  <2>1. Head(queue) \in Timers \cup {Null}
    BY <1>4, HeadTailProperties DEF Pop, UseInv, PoolInv, PoolType
  <2> QED
    BY <1>1, <1>2, <1>3, <1>4, <2>1 DEF Pop, UseInv, CallInv
<1>5. CASE CallbackReturns(w)
  BY <1>1, <1>2, <1>3, <1>5 DEF CallbackReturns, UseInv, CallInv
<1> QED
  BY <1>4, <1>5

LEMMA CallStepInv ==
  ASSUME UseInv, [Next]_vars
  PROVE  CallInv'
<1> USE DEF UseInv
<1>0. DOMAIN stage = Users \cup Workers \cup {LoopThread}
  BY DEF EL!TypeOK, EL!Callers
<1>1. CASE StartWorkers
  BY <1>1, CallStarts
<1>2. ASSUME NEW w \in Workers, Pop(w) \/ CallbackReturns(w) PROVE CallInv'
  BY <1>2, CallPops
<1>3. CASE StartLoop \/ StopLoop \/ JoinLoop
  <2>1. /\ UNCHANGED <<at, job, stage>>
        /\ manager' \notin {"started", "push", "joined"}
        /\ manager = "new" \/ manager' \notin {"new", "starting"}
    BY <1>3 DEF StartLoop, StopLoop, JoinLoop, poolVars, EL!Start, EL!Join, EL!callVars
  <2> QED
    BY <2>1, CallsKept
<1>4. CASE StopBegins \/ PushNull \/ JoinWorkers
  <2>1. /\ UNCHANGED <<at, job, stage, owner>>
        /\ manager \in {"started", "push"} /\ manager' \in {"push", "joined"}
    BY <1>4 DEF StopBegins, PushNull, JoinWorkers, poolVars, loopVars
  <2> QED
    BY <2>1, CallsKept DEF CallInv
<1>5. CASE DestroyLoop \/ DestroyQueue \/ LoopStep \/ EpollWait \/ Dispatch \/ HandlerStep
  <2>1. UNCHANGED <<manager, at, job, stage, owner>>
    BY <1>5 DEF DestroyLoop, DestroyQueue, LoopStep, EpollWait, Dispatch, HandlerStep,
       ReadTimer, ReadNothing, ReadFreed, HandleReadReturns, Forget, stopVars, poolVars, loopVars,
       EL!Destroy, EL!ReleaseReference, EL!LoopTest, EL!BatchDone, EL!EpollWait, EL!Dispatch,
       EL!KeepReference, EL!HandlerReturns, EL!CallbackOnFreed, EL!callVars, EL!controlVars
  <2> QED
    BY <2>1, CallsKept DEF CallInv
<1>6. ASSUME NEW t \in Users \cup Workers, CallStep(t) PROVE CallInv'
  <2>1. /\ UNCHANGED <<manager, at, job, owner>>
        /\ \E x : stage' = [stage EXCEPT ![t] = x] /\ stage[t] # "idle"
    BY <1>6 DEF CallStep, AddToSelector, RemoveFromSelector, CallReturns, stopVars, poolVars,
       EL!RegisterAdd, EL!UnregisterDel, EL!DropReference, EL!controlVars
  <2>2. /\ \A w \in Workers : stage'[w] = stage[w] \/ at[w] = "running"
        /\ stage'[LoopThread] = stage[LoopThread]
    BY <1>0, <1>6, <2>1, TimerAssumption DEF CallInv
  <2> QED
    BY <2>1, <2>2, CallsKept DEF CallInv
<1>7. ASSUME NEW t \in Users \cup Workers, NEW h \in Timers, NEW ms,
             AddTimer(t, h, ms) \/ RemoveTimer(t, h)
      PROVE  CallInv'
  <2>1. /\ UNCHANGED <<manager, at, job, owner>>
        /\ t \in Workers => at[t] = "running"
        /\ \E x : stage' = [stage EXCEPT ![t] = x]
    BY <1>7 DEF AddTimer, RemoveTimer, CanCall, stopVars, poolVars, EL!RegisterInsert,
       EL!RemoveHandler, EL!UnregisterErase, EL!controlVars
  <2>2. /\ \A w \in Workers : stage'[w] = stage[w] \/ at[w] = "running"
        /\ stage'[LoopThread] = stage[LoopThread]
    BY <1>0, <1>7, <2>1, TimerAssumption
  <2> QED
    BY <2>1, <2>2, CallsKept DEF CallInv
<1>8. ASSUME UNCHANGED <<stopVars, poolVars, loopVars>> PROVE CallInv'
  <2>1. UNCHANGED <<manager, at, job, stage, owner>>
    BY <1>8 DEF stopVars, poolVars, loopVars
  <2> QED
    BY <2>1, CallsKept DEF CallInv
<1>9. ASSUME NEW t, NEW h, NEW ms, SetTimer(t, h, ms) \/ Expire(h)
      PROVE  UNCHANGED <<stopVars, poolVars, loopVars>>
  BY <1>9 DEF SetTimer, Expire
<1>10. CASE UNCHANGED vars
  BY <1>8, <1>10 DEF vars
<1> QED
  BY <1>1, <1>2, <1>3, <1>4, <1>5, <1>6, <1>7, <1>8, <1>9, <1>10, TimerAssumption
     DEF Next, ManagerStep

LEMMA UseInit == Init => UseInv
<1> SUFFICES ASSUME Init PROVE UseInv
  OBVIOUS
<1>1. cur \in Timers /\ PoolInv
  BY PoolInit DEF Init, EL!Init
<1>2. EL!TypeOK
  <2>1. arg \in [EL!Callers -> Timers]
    BY <1>1 DEF Init, EL!Init
  <2>2. Held \subseteq Timers
    BY DEF Held
  <2> QED
    BY <1>1, <2>1, <2>2 DEF Init, EL!Init, EL!TypeOK, EL!States, EL!LoopPoints, EL!Stages
<1>3. CallInv
  BY TimerAssumption DEF Init, CallInv, EL!Init, EL!Callers
<1> QED
  BY <1>1, <1>2, <1>3 DEF UseInv

LEMMA UseStep == UseInv /\ [Next]_vars => UseInv'
<1> SUFFICES ASSUME UseInv, [Next]_vars PROVE UseInv'
  OBVIOUS
<1>1. EL!TypeOK'
  BY LoopSimulation, LoopTypeStep DEF UseInv
<1>2. PoolInv'
  BY PoolStep DEF UseInv
<1> QED
  BY <1>1, <1>2, CallStepInv DEF UseInv

LEMMA UseAlways == Safety => []UseInv
BY UseInit, UseStep, PTL DEF Safety

(* TimerManager uses its event loop as the loop's own rules allow, so that *)
(* what is proved of EventLoop under them holds inside a manager: handlers *)
(* are registered once, Stop (timer_manager.cpp:51) finds nobody in a call,*)
(* and every shared_ptr in the queue or with a worker is accounted for.    *)
THEOREM ManagerKeepsTheRules == Safety => ImplementsEventLoop
<1>1. Init => EL!Init
  BY DEF Init
<1> QED
  BY <1>1, UseAlways, LoopSimulation, PTL DEF Safety, ImplementsEventLoop, EL!Safety

-----------------------------------------------------------------------------
(* A timer that has been removed.                                          *)

(* The invariant of EventLoop_proofs holds of the manager's loop.          *)
LEMMA LoopInvAlways == Safety => []Proved!Inv
<1>1. Init => Proved!Inv
  <2>1. Init => Proved!Init
    BY DEF Init, EL!Init, Proved!Init, EL!Callers, Proved!Callers, Held, Queued, Running
  <2> QED
    BY <2>1, LoopRules, Proved!InvInit
<1>2. UseInv /\ Proved!Inv /\ [Next]_vars => Proved!Inv'
  BY LoopSimulation, SameNext, LoopRules, Proved!InvStep
<1> QED
  BY <1>1, <1>2, UseAlways, PTL DEF Safety

(* epoll does not know it any more...                                      *)
LEMMA RemovedUnwatched ==
  ASSUME UseInv, Proved!Inv, NEW h \in Timers, Removed(h)
  PROVE  interest[h] = {} /\ (loop = "read" => cur # h)
BY DEF UseInv, CallInv, Removed, Proved!Inv, Proved!WatchedOwned, Proved!Callers,
   Proved!BatchInv, Proved!InCallback

(* ... so that its loop never reports it, and AddTimer creates other       *)
(* handlers.                                                               *)
LEMMA RemovedForever ==
  ASSUME EL!TypeOK, NEW h \in Timers, Removed(h), interest[h] = {}, [EL!Next]_(EL!vars)
  PROVE  Removed(h)'
<1> USE DEF Removed, EL!controlVars, EL!loopVars, EL!callVars, EL!objectVars
<1>0. /\ DOMAIN stage = Users \cup Workers \cup {LoopThread} /\ DOMAIN arg = DOMAIN stage
      /\ DOMAIN batch = Timers
  BY DEF EL!TypeOK, EL!Callers
<1>1. CASE EL!OwnerStep
  BY <1>1 DEF EL!OwnerStep, EL!Start, EL!SetStarted, EL!Stopping, EL!Join, EL!Destroy
<1>2. CASE EL!LoopTest \/ EL!Dispatch \/ EL!BatchDone \/ EL!HandlerModifies
           \/ EL!KeepReference
  BY <1>2 DEF EL!LoopTest, EL!Dispatch, EL!BatchDone, EL!HandlerModifies, EL!KeepReference
<1>3. CASE EL!EpollWait
  BY <1>3 DEF EL!EpollWait
<1>4. CASE EL!HandlerReturns \/ EL!CallbackEnds \/ EL!CallbackOnFreed
  BY <1>0, <1>4 DEF EL!HandlerReturns, EL!CallbackEnds, EL!CallbackOnFreed
<1>5. CASE EL!HandlerUnregisters
  <2>1. batch'[h] = {}
    BY <1>0, <1>5 DEF EL!HandlerUnregisters
  <2>2. \A t \in Users \cup Workers : stage'[t] = stage[t] /\ arg'[t] = arg[t]
    BY <1>0, <1>5, TimerAssumption DEF EL!HandlerUnregisters, EL!UnregisterErase
  <2> QED
    BY <1>5, <2>1, <2>2 DEF EL!HandlerUnregisters, EL!UnregisterErase
<1>6. ASSUME NEW t \in EL!Callers, EL!CallStep(t) PROVE Removed(h)'
  <2>1. /\ UNCHANGED <<fresh, m_handlers, batch, arg>>
        /\ \E x : stage' = [stage EXCEPT ![t] = x] /\ stage[t] # "idle"
    BY <1>6 DEF EL!CallStep, EL!RegisterAdd, EL!UnregisterDel, EL!DropReference
  <2> QED
    BY <1>0, <2>1
<1>7. ASSUME NEW t, NEW g \in Timers, EL!RegisterInsert(t, g) \/ EL!RemoveHandler(t, g)
      PROVE  Removed(h)'
  <2>1. /\ g # h /\ fresh' \subseteq fresh /\ m_handlers' \subseteq m_handlers \cup {g}
        /\ batch' = batch
        /\ arg' = [arg EXCEPT ![t] = g]
        /\ \E x : stage' = [stage EXCEPT ![t] = x]
    BY <1>7 DEF EL!RegisterInsert, EL!RemoveHandler, EL!UnregisterErase
  <2> QED
    BY <1>0, <2>1
<1>8. ASSUME NEW g, EL!ReleaseReference(g) PROVE Removed(h)'
  BY <1>8 DEF EL!ReleaseReference
<1>9. CASE UNCHANGED EL!vars
  BY <1>9 DEF EL!vars
<1> QED
  BY <1>1, <1>2, <1>3, <1>4, <1>5, <1>6, <1>7, <1>8, <1>9
     DEF EL!Next, EL!LoopStep, EL!CallbackStep

(* The queue gets null handlers, and the handler whose timerfd the loop    *)
(* thread has read.                                                        *)
LEMMA OnlyReadQueues ==
  ASSUME UseInv, [Next]_vars, NEW h \in Timers, Queued(h)', loop = "read" => cur # h
  PROVE  Queued(h)
<1>0. PoolType /\ Null # h
  BY TimerAssumption DEF UseInv, PoolInv
<1>1. ASSUME NEW x \in Timers \cup {Null}, queue' = Append(queue, x), x # h
      PROVE  Queued(h)
  <2>1. /\ Len(queue') = Len(queue) + 1 /\ queue'[Len(queue) + 1] = x
        /\ \A i \in 1..Len(queue) : queue'[i] = queue[i]
        /\ Len(queue) \in Nat
    BY <1>0, <1>1, AppendProperties DEF PoolType
  <2>2. PICK i \in 1..Len(queue') : queue'[i] = h
    BY DEF Queued
  <2>3. i \in 1..Len(queue)
    BY <1>1, <2>1, <2>2
  <2> QED
    BY <2>1, <2>2, <2>3 DEF Queued
<1>2. CASE PushNull
  BY <1>0, <1>1, <1>2 DEF PushNull
<1>3. CASE ReadTimer
  BY <1>0, <1>1, <1>3 DEF ReadTimer, PoolType
<1>4. ASSUME queue # << >>, queue' = Tail(queue) PROVE Queued(h)
  BY <1>0, <1>4, QueuedTail
<1>5. CASE DestroyQueue
  BY <1>4, <1>5 DEF DestroyQueue
<1>6. ASSUME NEW w, Pop(w) PROVE Queued(h)
  BY <1>4, <1>6 DEF Pop
<1>7. ASSUME queue' = queue PROVE Queued(h)
  BY <1>7 DEF Queued
<1>8. StartLoop \/ StartWorkers \/ StopBegins \/ JoinWorkers \/ StopLoop \/ JoinLoop
        \/ DestroyLoop => queue' = queue
  BY DEF StartLoop, StartWorkers, StopBegins, JoinWorkers, StopLoop, JoinLoop, DestroyLoop,
     poolVars
<1>9. LoopStep \/ EpollWait \/ Dispatch \/ ReadNothing \/ ReadFreed \/ HandleReadReturns
        => queue' = queue
  BY DEF LoopStep, EpollWait, Dispatch, ReadNothing, ReadFreed, HandleReadReturns, poolVars
<1>10. ASSUME NEW t, CallStep(t) \/ CallbackReturns(t) PROVE queue' = queue
  BY <1>10 DEF CallStep, AddToSelector, RemoveFromSelector, CallReturns, CallbackReturns,
     poolVars
<1>11. ASSUME NEW t, NEW g, NEW ms,
              AddTimer(t, g, ms) \/ SetTimer(t, g, ms) \/ RemoveTimer(t, g) \/ Expire(g)
       PROVE  queue' = queue
  BY <1>11 DEF AddTimer, SetTimer, RemoveTimer, Expire, poolVars
<1>12. CASE UNCHANGED vars
  BY <1>7, <1>12 DEF vars, poolVars
<1> QED
  BY <1>2, <1>3, <1>5, <1>6, <1>7, <1>8, <1>9, <1>10, <1>11, <1>12
     DEF Next, ManagerStep, HandlerStep

(* When RemoveTimer (timer_manager.cpp:94-99) has returned and the loop is*)
(* through its events, the timer stays removed and is not queued again,    *)
(* with any number of timers, threads and workers.                         *)
THEOREM RemovedTimersStayQuiet == Safety => RemovedStaysQuiet
<1>1. ASSUME UseInv, Proved!Inv, [Next]_vars
      PROVE  [\A h \in Timers : Removed(h) => Removed(h)' /\ (Queued(h)' => Queued(h))]_vars
  <2> SUFFICES ASSUME NEW h \in Timers, Removed(h)
               PROVE  Removed(h)' /\ (Queued(h)' => Queued(h))
    OBVIOUS
  <2>1. interest[h] = {} /\ (loop = "read" => cur # h)
    BY <1>1, RemovedUnwatched
  <2>2. Removed(h)'
    BY <1>1, <2>1, LoopSimulation, RemovedForever DEF UseInv
  <2> QED
    BY <1>1, <2>1, <2>2, OnlyReadQueues
<1> QED
  BY <1>1, UseAlways, LoopInvAlways, PTL DEF Safety, RemovedStaysQuiet

-----------------------------------------------------------------------------
(* The types.                                                              *)

RestInv ==
  /\ manager \in {"new", "starting", "started"} => to_push = 0
  /\ clock \in [Timers -> Nat]
  /\ ticked \subseteq Timers
  /\ read_done \in BOOLEAN

(* What timerfd_settime accepts is a time.                                 *)
LEMMA AcceptedIsTime ==
  ASSUME NEW ms \in Intervals, Accepted(InitTime(ms))
  PROVE  Milliseconds(InitTime(ms)) \in Nat
<1>1. ms \in Unsigned /\ ms \in Nat
  BY TimerAssumption, IntervalAssumption DEF Unsigned
<1>2. CASE FitsInt(ms)
  BY <1>1, <1>2, IntervalExact
<1>3. CASE ~FitsInt(ms)
  <2>1. ms > IntRange - PerSecond
    BY <1>1, <1>3, LongIntervalRefused, IntervalAssumption
  <2>2. Milliseconds(InitTime(ms)) = ms % PerSecond
    BY <1>1, <1>3, <2>1, LongestIntervalWraps
  <2> QED
    BY <1>1, <2>2, DivisionExact, IntervalAssumption
<1> QED
  BY <1>2, <1>3

LEMMA RestStep ==
  ASSUME UseInv, RestInv, [Next]_vars
  PROVE  RestInv'
<1> USE DEF RestInv
<1>1. ASSUME NEW h \in Timers, NEW ms \in Intervals, SetClock(h, ms)
      PROVE  clock' \in [Timers -> Nat]
  BY <1>1, AcceptedIsTime DEF SetClock
<1>2. ASSUME NEW t \in Adders, NEW h \in Timers, NEW ms \in Intervals, AddTimer(t, h, ms)
      PROVE  RestInv'
  BY <1>1, <1>2 DEF AddTimer, stopVars
<1>3. ASSUME NEW t \in Setters, NEW h \in Timers, NEW ms \in Intervals, SetTimer(t, h, ms)
      PROVE  RestInv'
  BY <1>1, <1>3 DEF SetTimer, stopVars
<1>4. CASE StartLoop \/ StartWorkers \/ StopBegins \/ ManagerStep
  BY <1>4 DEF StartLoop, StartWorkers, StopBegins, ManagerStep, PushNull, JoinWorkers,
     StopLoop, JoinLoop, timerVars
<1>5. CASE DestroyLoop \/ DestroyQueue \/ LoopStep \/ EpollWait \/ Dispatch \/ HandlerStep
  BY <1>5 DEF DestroyLoop, DestroyQueue, LoopStep, EpollWait, Dispatch, HandlerStep,
     ReadTimer, ReadNothing, ReadFreed, HandleReadReturns, timerVars, stopVars
<1>6. ASSUME NEW h \in Timers, Expire(h) PROVE RestInv'
  BY <1>6 DEF Expire, stopVars
<1>7. ASSUME UNCHANGED <<stopVars, timerVars>> PROVE RestInv'
  BY <1>7 DEF stopVars, timerVars
<1>8. ASSUME NEW w \in Workers, Pop(w) \/ CallbackReturns(w)
      PROVE  UNCHANGED <<stopVars, timerVars>>
  BY <1>8 DEF Pop, CallbackReturns
<1>9. ASSUME NEW t, CallStep(t) PROVE UNCHANGED <<stopVars, timerVars>>
  BY <1>9 DEF CallStep, AddToSelector, RemoveFromSelector, CallReturns
<1>10. ASSUME NEW t, NEW h, RemoveTimer(t, h) PROVE UNCHANGED <<stopVars, timerVars>>
  BY <1>10 DEF RemoveTimer
<1>11. CASE UNCHANGED vars
  BY <1>7, <1>11 DEF vars
<1> QED
  BY <1>2, <1>3, <1>4, <1>5, <1>6, <1>7, <1>8, <1>9, <1>10, <1>11 DEF Next

(* The variables of the manager and of its loop keep their types; in       *)
(* particular no worker's callback runs on a null handler                  *)
(* (timer_manager.cpp:110-114), and Stop pushes no more null handlers than *)
(* there are workers.                                                      *)
THEOREM TypeCorrect == Safety => []TypeOK
<1>1. Init => RestInv
  <2> SUFFICES ASSUME Init PROVE RestInv
    OBVIOUS
  <2>1. to_push = 0 /\ clock = [h \in Timers |-> 0] /\ ticked = {}
    BY DEF Init
  <2>2. read_done \in BOOLEAN
    BY DEF Init
  <2> QED
    BY <2>1, <2>2 DEF RestInv
<1>2. ASSUME UseInv, RestInv PROVE TypeOK
  <2>1. to_push \in 0..Cardinality(Workers)
    <3>1. /\ to_push \in Nat /\ Cardinality(Workers) \in Nat
          /\ Cardinality(Nulls) \in Nat /\ Cardinality(Exited) \in Nat
      BY <1>2, PoolFinite DEF UseInv, PoolInv, PoolType
    <3>2. to_push = 0 \/ Cardinality(Nulls) + to_push + Cardinality(Exited) = Cardinality(Workers)
      BY <1>2 DEF UseInv, RestInv, PoolInv, PoolType, OneNullEach
    <3> QED
      BY <3>1, <3>2
  <2> QED
    BY <1>2, <2>1 DEF UseInv, RestInv, CallInv, PoolInv, PoolType, TypeOK
<1> QED
  BY <1>1, <1>2, RestStep, UseAlways, PTL DEF Safety
=============================================================================
