------------------------------ MODULE FifoQueue ------------------------------
(***************************************************************************)
(* What a bounded blocking queue promises, with no mutex and no condition  *)
(* variable.  A call takes effect at most once, between the moment it is   *)
(* made and the moment it returns; values leave in the order in which they *)
(* entered; an untimed call never returns without its effect, a Try call   *)
(* only when the effect is impossible; and an effect that stays possible   *)
(* happens.                                                                *)
(***************************************************************************)
EXTENDS Naturals, Sequences

CONSTANTS
  Callers,    \* threads
  Values,     \* what the queue carries
  Capacities  \* the values its capacity is given

TryOps    == {"TryPush", "TryPop"}
TimedOps  == {"PushFor", "PopFor"}  \* Push and Pop with a timeout
PushOps   == {"Push", "PushFor", "TryPush"}
PopOps    == {"Pop", "PopFor", "TryPop"}
Ops       == PushOps \cup PopOps

VARIABLES
  content,   \* the values in the queue, oldest first
  capacity,  \* pushes wait while there are this many
  pending,   \* the operation each thread is in, or "none"
  value      \* the value a thread pushes, or got last

queueVars == <<content, capacity, pending, value>>

Below == Len(content) < capacity

FifoInit ==
  /\ content = << >>
  /\ capacity \in Capacities
  /\ pending = [t \in Callers |-> "none"]
  /\ value \in [Callers -> Values]

Begin(t, o, x) ==
  /\ pending[t] = "none"
  /\ pending' = [pending EXCEPT ![t] = o]
  /\ value' = IF o \in PushOps THEN [value EXCEPT ![t] = x] ELSE value
  /\ UNCHANGED <<content, capacity>>

Put(t) ==
  /\ pending[t] \in PushOps /\ Below
  /\ content' = Append(content, value[t])
  /\ pending' = [pending EXCEPT ![t] = "none"]
  /\ UNCHANGED <<capacity, value>>

Take(t) ==
  /\ pending[t] \in PopOps /\ content # << >>
  /\ value' = [value EXCEPT ![t] = Head(content)]
  /\ content' = Tail(content)
  /\ pending' = [pending EXCEPT ![t] = "none"]
  /\ UNCHANGED capacity

Refuse(t) ==
  /\ \/ pending[t] \in TimedOps
     \/ pending[t] = "TryPush" /\ ~Below
     \/ pending[t] = "TryPop" /\ content = << >>
  /\ pending' = [pending EXCEPT ![t] = "none"]
  /\ UNCHANGED <<content, capacity, value>>

ChangeCapacity ==
  /\ capacity' \in Capacities
  /\ UNCHANGED <<content, pending, value>>

FifoNext ==
  \/ \E t \in Callers : Put(t) \/ Take(t) \/ Refuse(t)
  \/ \E t \in Callers, o \in Ops, x \in Values : Begin(t, o, x)
  \/ ChangeCapacity

FifoSafety == FifoInit /\ [][FifoNext]_queueVars

(* Somebody's push goes in when there is room, somebody's pop gets a value *)
(* when there is one.  Nothing is promised to one thread in particular.    *)
FifoFairness ==
  /\ WF_queueVars(\E t \in Callers : Put(t))
  /\ WF_queueVars(\E t \in Callers : Take(t))
=============================================================================
