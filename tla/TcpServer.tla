------------------------------- MODULE TcpServer -------------------------------
(***************************************************************************)
(* xfnet::TcpServer: Start and Stop in the thread that owns the server,    *)
(* the accept thread, the listening socket (Acceptor) with its backlog,    *)
(* and the group of event loops to which the accept thread gives the       *)
(* connections in turn.                                                    *)
(***************************************************************************)
EXTENDS EventLoopGroup, FiniteSets, SequencesExt

CONSTANTS
  Connections,  \* connections that clients make, each once
  MaxLoops,     \* bound: work_thread_num
  Backlog,      \* the backlog given to listen
  IndexRange    \* 2^w, where w is the width of m_next_loop_index

ASSUME ServerAssumption ==
  MaxLoops \in Nat \ {0} /\ Backlog \in Nat /\ IndexRange \in Nat \ {0}

VARIABLES
  m_state,
  main,               \* where Start or Stop is; "idle" outside of them
  listening,          \* the acceptor's socket is open
  backlog,            \* connections the kernel has completed
  accept,             \* where the accept thread is
  stream,             \* the connection it has accepted, as a set
  target,             \* the loop it gives it to
  m_next_loop_index,
  m_loop_num,
  fresh,              \* connections nobody has made yet
  given               \* how many connections each loop has been chosen for

ownerVars  == <<m_state, main>>
socketVars == <<listening, backlog, fresh>>
acceptVars == <<accept, stream, target, m_next_loop_index, given>>
vars == <<ownerVars, socketVars, acceptVars, m_loop_num, groupVars>>

Init ==
  /\ InitGroup
  /\ m_state = "STOPPED" /\ main = "idle"
  /\ listening = FALSE /\ backlog = << >> /\ fresh = Connections
  /\ accept = "none" /\ stream = {} /\ target = 1
  /\ m_next_loop_index = 0 /\ m_loop_num = 0
  /\ given = << >>

-----------------------------------------------------------------------------
(* TcpServer::Start.                                                       *)

(* Acceptor::Open comes first; when it fails Start returns false and       *)
(* nothing has changed.                                                    *)
Start(work_thread_num) ==
  /\ main = "idle" /\ m_state = "STOPPED"
  /\ listening' = TRUE
  /\ m_loop_num' = work_thread_num
  /\ main' = "start_group"
  /\ GroupStart
  /\ UNCHANGED <<m_state, backlog, fresh, acceptVars>>

StartThread ==
  /\ main = "start_group" /\ GroupIdle
  /\ accept' = "test"
  /\ given' = [i \in 1..m_loop_num |-> 0]
  /\ main' = "set_started"
  /\ UNCHANGED <<m_state, socketVars, stream, target, m_next_loop_index, m_loop_num, groupVars>>

SetStarted ==
  /\ main = "set_started"
  /\ m_state' = "STARTED" /\ main' = "idle"
  /\ UNCHANGED <<socketVars, acceptVars, m_loop_num, groupVars>>

-----------------------------------------------------------------------------
(* TcpServer::Stop.                                                        *)

Stop ==
  /\ main = "idle" /\ m_state = "STARTED"
  /\ m_state' = "STOPPING" /\ main' = "join"
  /\ UNCHANGED <<socketVars, acceptVars, m_loop_num, groupVars>>

\* Mutant of JoinAccept: the loops are stopped while the thread still runs.
StopGroupFirst ==
  /\ main = "join"
  /\ main' = "stop_group"
  /\ GroupStop
  /\ UNCHANGED <<m_state, socketVars, acceptVars, m_loop_num>>

JoinAccept ==
  /\ main = "join" /\ accept = "exited"
  /\ accept' = "none"
  /\ main' = "stop_group"
  /\ GroupStop
  /\ UNCHANGED <<m_state, socketVars, stream, target, m_next_loop_index, given, m_loop_num>>

\* Mutant of CloseAcceptor: the listening socket is left open.
ForgetAcceptor ==
  /\ main = "stop_group" /\ GroupIdle
  /\ m_state' = "STOPPED" /\ main' = "idle"
  /\ UNCHANGED <<socketVars, acceptVars, m_loop_num, groupVars>>

(* Closing the socket resets the connections that are in its backlog.      *)
CloseAcceptor ==
  /\ main = "stop_group" /\ GroupIdle
  /\ listening' = FALSE /\ backlog' = << >>
  /\ m_state' = "STOPPED" /\ main' = "idle"
  /\ UNCHANGED <<fresh, acceptVars, m_loop_num, groupVars>>

(* The stopped server is destroyed, and another takes its place.           *)
Destroy ==
  /\ main = "idle" /\ m_state = "STOPPED"
  /\ m_loops # << >>
  /\ m_loops' = << >>
  /\ m_next_loop_index' = 0 /\ m_loop_num' = 0
  /\ UNCHANGED <<ownerVars, socketVars, accept, stream, target, given, new_loops, group>>

-----------------------------------------------------------------------------
(* TcpServer::AcceptThread.                                                *)

AcceptTest ==
  /\ accept = "test"
  /\ accept' = IF m_state = "STOPPING" THEN "exited" ELSE "accept"
  /\ UNCHANGED <<ownerVars, socketVars, stream, target, m_next_loop_index, given,
                 m_loop_num, groupVars>>

(* accept4 in Acceptor::Accept, before poll and after it.                  *)
AcceptTakes ==
  /\ accept \in {"accept", "accept_again"}
  /\ backlog # << >>
  /\ stream' = {Head(backlog)} /\ backlog' = Tail(backlog)
  /\ accept' = "choose"
  /\ UNCHANGED <<ownerVars, listening, fresh, target, m_next_loop_index, given,
                 m_loop_num, groupVars>>

(* There is no connection, or no descriptor for it (EMFILE).               *)
AcceptFails ==
  /\ \/ accept = "accept" /\ accept' = "poll"
     \/ accept = "accept_again" /\ accept' = "test"
  /\ UNCHANGED <<ownerVars, socketVars, stream, target, m_next_loop_index, given,
                 m_loop_num, groupVars>>

\* Mutant of Poll: it has no timeout.
PollForever ==
  /\ accept = "poll" /\ backlog # << >>
  /\ accept' = "accept_again"
  /\ UNCHANGED <<ownerVars, socketVars, stream, target, m_next_loop_index, given,
                 m_loop_num, groupVars>>

(* SocketUtil::Select: there is a connection; or ACCEPT_TIMEOUT is over, or *)
(* poll fails.                                                             *)
Poll ==
  /\ accept = "poll"
  /\ \/ backlog # << >> /\ accept' = "accept_again"
     \/ accept' = "test"
  /\ UNCHANGED <<ownerVars, socketVars, stream, target, m_next_loop_index, given,
                 m_loop_num, groupVars>>

\* Mutant of NextIndex: the index is not counted up.
SameIndex(index) == index

(* uint32_t m_next_loop_index++.                                           *)
NextIndex(index) == (index + 1) % IndexRange

(* The loops get the connections in turn.                                  *)
ChooseLoop ==
  /\ accept = "choose"
  /\ target' = (m_next_loop_index % m_loop_num) + 1
  /\ m_next_loop_index' = NextIndex(m_next_loop_index)
  /\ given' = [given EXCEPT ![target'] = @ + 1]
  /\ accept' = "create"
  /\ UNCHANGED <<ownerVars, socketVars, stream, m_loop_num, groupVars>>

\* Mutant of CreateHandler: the stream is kept after it was handed over.
CreateHandlerKeeps ==
  /\ accept = "create"
  /\ \E c \in stream : RegisterWith(target, c)
  /\ accept' = "test"
  /\ UNCHANGED <<ownerVars, socketVars, stream, target, m_next_loop_index, given, m_loop_num>>

(* m_create_eventhandler_func moves the stream into a handler that it      *)
(* registers, or fails, and the local stream closes the connection.        *)
CreateHandler ==
  /\ accept = "create"
  /\ \/ \E c \in stream : RegisterWith(target, c)
     \/ UNCHANGED groupVars
  /\ stream' = {}
  /\ accept' = "test"
  /\ UNCHANGED <<ownerVars, socketVars, target, m_next_loop_index, given, m_loop_num>>

-----------------------------------------------------------------------------
(* A client connects.                                                      *)
ClientConnects(c) ==
  /\ c \in fresh /\ listening /\ Len(backlog) < Backlog
  /\ fresh' = fresh \ {c}
  /\ backlog' = Append(backlog, c)
  /\ UNCHANGED <<ownerVars, listening, acceptVars, m_loop_num, groupVars>>

LoopThreads ==
  /\ \E i \in 1..Len(m_loops) :
       LoopExits(i) \/ \E c \in m_loops[i].handlers : LoopCloses(i, c)
  /\ UNCHANGED <<ownerVars, socketVars, acceptVars, m_loop_num>>

LoopsExit(i) ==
  /\ i <= Len(m_loops) /\ LoopExits(i)
  /\ UNCHANGED <<ownerVars, socketVars, acceptVars, m_loop_num>>

GroupGoesOn ==
  /\ GroupStep(m_loop_num)
  /\ UNCHANGED <<ownerVars, socketVars, acceptVars, m_loop_num>>

OwnerGoesOn ==
  StartThread \/ SetStarted \/ JoinAccept \/ CloseAcceptor \/ GroupGoesOn

AcceptStep ==
  AcceptTest \/ AcceptTakes \/ AcceptFails \/ Poll \/ ChooseLoop \/ CreateHandler

Next ==
  \/ \E n \in 1..MaxLoops : Start(n)
  \/ OwnerGoesOn \/ Stop \/ Destroy
  \/ AcceptStep
  \/ LoopThreads
  \/ \E c \in Connections : ClientConnects(c)

Safety == Init /\ [][Next]_vars

(* Threads are scheduled, Start and Stop go on once they have begun, and   *)
(* accept4 does not fail for ever while there is a connection.             *)
Fairness ==
  /\ WF_vars(OwnerGoesOn)
  /\ WF_vars(AcceptStep) /\ SF_vars(AcceptTakes)
  /\ \A i \in 1..MaxLoops : WF_vars(LoopsExit(i))

Spec == Safety /\ Fairness
-----------------------------------------------------------------------------
(* Every variable has its type.                                            *)
TypeOK ==
  /\ GroupTypeOK(Connections, MaxLoops)
  /\ m_state \in {"STOPPED", "STARTED", "STOPPING"}
  /\ main \in {"idle", "start_group", "set_started", "join", "stop_group"}
  /\ listening \in BOOLEAN
  /\ backlog \in Seq(Connections) /\ Len(backlog) <= Backlog
  /\ accept \in {"none", "test", "accept", "poll", "accept_again", "choose", "create", "exited"}
  /\ stream \subseteq Connections
  /\ target \in 1..MaxLoops
  /\ m_next_loop_index \in 0..IndexRange - 1
  /\ m_loop_num \in 0..MaxLoops
  /\ fresh \subseteq Connections
  /\ \A i \in 1..Len(given) : given[i] \in Nat

(* The accept thread registers only with loops that run and that nobody is *)
(* stopping (tcp_server.cpp:70-72), by an index that the group has; and it *)
(* uses the listening socket only while that is open.  The first half is   *)
(* what module EventLoop requires of those who register.                   *)
AcceptThreadSafe ==
  /\ accept \in {"choose", "create"} =>
       /\ m_loop_num = Len(m_loops)
       /\ \A i \in 1..m_loop_num : MayRegister(i)
  /\ accept = "create" => target \in 1..m_loop_num
  /\ accept \notin {"none", "exited"} => listening

(* When the server is stopped none of its threads runs, its port is free   *)
(* and no connection is half accepted.                                     *)
StoppedQuiet ==
  m_state = "STOPPED" /\ main = "idle" =>
    /\ accept = "none" /\ stream = {} /\ ~listening /\ backlog = << >>
    /\ GroupQuiet

(* No connection is owned twice: it is in the backlog, or in the accept    *)
(* thread's hands, or in one loop's map.                                   *)
OneOwner ==
  /\ \A c \in stream : c \notin ToSet(backlog) \cup HandlersOf(m_loops)
  /\ ToSet(backlog) \cap HandlersOf(m_loops) = {}
  /\ IsInjective(backlog)
  /\ \A i, j \in 1..Len(m_loops) :
       i # j => m_loops[i].handlers \cap m_loops[j].handlers = {}

(* The loops are chosen equally often, up to one, for as long as the server*)
(* runs, over a wrap of the index when its range is a multiple of their    *)
(* number.                                                                 *)
Balanced ==
  accept # "none" /\ IndexRange % m_loop_num = 0 =>
    \A i, j \in 1..m_loop_num : given[i] <= given[j] + 1

(* Which loop serves which connection.                                     *)
ServedBy(loops) == {p \in (1..MaxLoops) \X Connections :
                      p[1] <= Len(loops) /\ p[2] \in loops[p[1]].handlers}

Life == INSTANCE ConnectionLife WITH
  Loops <- 1..MaxLoops, open <- listening, waiting <- backlog, taken <- stream,
  serving <- ServedBy(m_loops)

(* The server keeps what ConnectionLife promises, over restarts: accepted  *)
(* in order, served by one loop from then on, none given up between the    *)
(* port and a loop by Stop (tcp_server.cpp:64-75, 78-91).                  *)
ImplementsConnectionLife == Life!LifeSpec

(* A Stop that has begun ends, whatever clients do.                        *)
StopCompletes == m_state = "STOPPING" ~> m_state = "STOPPED"

(* A connection does not stay in the backlog of a server that goes on      *)
(* running.                                                                *)
BacklogServed ==
  \A c \in Connections : c \in ToSet(backlog) ~> c \notin ToSet(backlog)
=============================================================================
