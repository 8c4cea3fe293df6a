---------------------------- MODULE EventLoopGroup ----------------------------
(***************************************************************************)
(* xfnet::EventLoopGroup: the event loops of a TcpServer or TcpClient and  *)
(* the calls Start and Stop that its owner's thread makes.  Of a loop only *)
(* what the group and its owner see is kept: m_state, its thread, and the  *)
(* connections whose handlers are in m_handlers.  What goes on inside it   *)
(* is module EventLoop's, whose rules the owner has to keep to: nobody     *)
(* registers with a loop that is not started, and no Register is in        *)
(* progress when it is told to stop.                                       *)
(***************************************************************************)
EXTENDS Naturals, Sequences

VARIABLES
  m_loops,    \* the loops of the group
  new_loops,  \* the local vector of Start
  group       \* where the group's call is: [at |-> ..., i |-> loops done]

groupVars == <<m_loops, new_loops, group>>

NewEventLoop == [state |-> "STARTED", thread |-> "running", handlers |-> {}]

InitGroup ==
  /\ m_loops = << >> /\ new_loops = << >>
  /\ group = [at |-> "idle", i |-> 0]

GroupIdle == group.at = "idle"

(* The connections that loops keep open.                                   *)
HandlersOf(loops) == UNION {loops[i].handlers : i \in 1..Len(loops)}

-----------------------------------------------------------------------------
GroupStart ==
  /\ GroupIdle
  /\ group' = [at |-> "starting", i |-> 0]
  /\ UNCHANGED <<m_loops, new_loops>>

(* Start makes and starts the loops one after the other...                 *)
GroupStartLoop(loop_count) ==
  /\ group.at = "starting" /\ group.i < loop_count
  /\ new_loops' = Append(new_loops, NewEventLoop)
  /\ group' = [group EXCEPT !.i = @ + 1]
  /\ UNCHANGED m_loops

(* ... and then takes them in exchange for the loops of an earlier start,  *)
(* which are destroyed, and with them their handlers and connections.      *)
GroupSwap(loop_count) ==
  /\ group.at = "starting" /\ group.i = loop_count
  /\ m_loops' = new_loops /\ new_loops' = << >>
  /\ group' = [at |-> "idle", i |-> 0]

-----------------------------------------------------------------------------
GroupStop ==
  /\ GroupIdle
  /\ group' = [at |-> "stopping", i |-> 0]
  /\ UNCHANGED <<m_loops, new_loops>>

Loop == group.i + 1

(* All the loops are told to stop before the first one is waited for, so   *)
(* that their timeouts pass at the same time.                              *)
GroupStopping ==
  /\ group.at = "stopping"
  /\ IF Loop <= Len(m_loops)
       THEN /\ m_loops' = [m_loops EXCEPT ![Loop].state =
                             IF @ = "STARTED" THEN "STOPPING" ELSE @]
            /\ group' = [group EXCEPT !.i = @ + 1]
       ELSE /\ group' = [at |-> "joining", i |-> 0]
            /\ UNCHANGED m_loops
  /\ UNCHANGED new_loops

\* Mutant of GroupJoin: the loops' threads are not waited for.
GroupDontJoin ==
  /\ group.at = "joining"
  /\ IF Loop <= Len(m_loops)
       THEN /\ m_loops' = [m_loops EXCEPT ![Loop].state = "STOPPED"]
            /\ group' = [group EXCEPT !.i = @ + 1]
       ELSE /\ group' = [at |-> "idle", i |-> 0]
            /\ UNCHANGED m_loops
  /\ UNCHANGED new_loops

JoinedLoop(loop) == [state |-> "STOPPED", thread |-> "none", handlers |-> loop.handlers]

(* Join waits for the loop's thread and marks the loop stopped; its        *)
(* handlers stay in the map.                                               *)
GroupJoin ==
  /\ group.at = "joining"
  /\ IF Loop <= Len(m_loops)
       THEN /\ m_loops[Loop].thread = "exited"
            /\ m_loops' = [m_loops EXCEPT ![Loop] = JoinedLoop(@)]
            /\ group' = [group EXCEPT !.i = @ + 1]
       ELSE /\ group' = [at |-> "idle", i |-> 0]
            /\ UNCHANGED m_loops
  /\ UNCHANGED new_loops

-----------------------------------------------------------------------------
(* The thread of a loop sees STATE_STOPPING after its epoll_wait.          *)
LoopExits(i) ==
  /\ m_loops[i].thread = "running" /\ m_loops[i].state = "STOPPING"
  /\ m_loops' = [m_loops EXCEPT ![i].thread = "exited"]
  /\ UNCHANGED <<new_loops, group>>

(* A handler unregisters itself, in a callback that the loop's thread runs:*)
(* its connection is closed.                                               *)
LoopCloses(i, c) ==
  /\ m_loops[i].thread = "running" /\ c \in m_loops[i].handlers
  /\ m_loops' = [m_loops EXCEPT ![i].handlers = @ \ {c}]
  /\ UNCHANGED <<new_loops, group>>

(* The create callback makes a handler for c and registers it with loop i. *)
RegisterWith(i, c) ==
  /\ m_loops' = [m_loops EXCEPT ![i].handlers = @ \cup {c}]
  /\ UNCHANGED <<new_loops, group>>

GroupStep(loop_count) ==
  GroupStartLoop(loop_count) \/ GroupSwap(loop_count) \/ GroupStopping \/ GroupJoin

-----------------------------------------------------------------------------
GroupTypeOK(Connections, MaxLoops) ==
  LET Loops == [state: {"STARTED", "STOPPING", "STOPPED"},
                thread: {"running", "exited", "none"},
                handlers: SUBSET Connections]
  IN  /\ m_loops \in Seq(Loops) /\ Len(m_loops) <= MaxLoops
      /\ new_loops \in Seq(Loops)
      /\ group.at \in {"idle", "starting", "stopping", "joining"}
      /\ group.i \in 0..MaxLoops

(* No thread of the group runs.                                            *)
GroupQuiet ==
  /\ new_loops = << >>
  /\ \A i \in 1..Len(m_loops) : m_loops[i].thread = "none" /\ m_loops[i].state = "STOPPED"

(* A thread may register with loop i.                                      *)
MayRegister(i) == /\ i \in 1..Len(m_loops)
                  /\ m_loops[i].state = "STARTED" /\ m_loops[i].thread = "running"
=============================================================================
