------------------------------- MODULE TcpClient -------------------------------
(***************************************************************************)
(* xfnet::TcpClient: Start and Stop in the thread that owns the client,    *)
(* the connect thread with its two queues of addresses and its calls of    *)
(* Connector::Connect, the threads that call Add, and the group of event   *)
(* loops that gets the connections.                                        *)
(*                                                                         *)
(* An address given to Add(const Address&) is a request, and the           *)
(* connection made for it bears its name; a stream given to Add(Stream&)   *)
(* has a name of its own.  The queues are the FIFO sequences that          *)
(* BlockingQueue implements; their capacity is never reached.              *)
(***************************************************************************)
EXTENDS EventLoopGroup, Connector, FiniteSets, SequencesExt

CONSTANTS
  Requests,       \* addresses given to Add, each once
  Streams,        \* streams given to Add by users, each once
  Users,          \* threads that call Add(Stream&)
  ConnectThread,
  MaxLoops,       \* bound: work_thread_num
  IndexRange      \* 2^w, where w is the width of m_next_loop_index

ASSUME ClientAssumption ==
  /\ Requests \cap Streams = {}
  /\ ConnectThread \notin Users
  /\ MaxLoops \in Nat \ {0} /\ IndexRange \in Nat \ {0}

Adders == Users \cup {ConnectThread}

VARIABLES
  m_state,
  main,               \* where Start or Stop is; "idle" outside of them
  connect_queue, failed_queue,
  connect,            \* where the connect thread is
  addr,               \* the address it has taken, as a set
  adding,             \* where each thread is in Add(Stream&)
  stream,             \* the stream it adds
  index,              \* m_next_loop_index as it has read it
  m_next_loop_index,
  m_loop_num,
  fresh,              \* requests and streams not added yet
  over                \* requests whose connect failed, connections closed

ownerVars   == <<m_state, main, m_loop_num>>
queueVars   == <<connect_queue, failed_queue>>
connectVars == <<connect, addr, connectorVars>>
addVars     == <<adding, stream, index, m_next_loop_index>>
ghostVars   == <<fresh, over>>
vars == <<ownerVars, queueVars, connectVars, addVars, ghostVars, groupVars>>

Init ==
  /\ InitGroup /\ InitConnector
  /\ m_state = "STOPPED" /\ main = "idle" /\ m_loop_num = 0
  /\ connect_queue = << >> /\ failed_queue = << >>
  /\ connect = "none" /\ addr = {}
  /\ adding = [t \in Adders |-> "idle"]
  /\ stream = [t \in Adders |-> {}]
  /\ index = [t \in Adders |-> 0] /\ m_next_loop_index = 0
  /\ fresh = Requests \cup Streams /\ over = {}

-----------------------------------------------------------------------------
(* TcpClient::Start and Stop.                                              *)

Start(work_thread_num) ==
  /\ main = "idle" /\ m_state = "STOPPED"
  /\ m_loop_num' = work_thread_num
  /\ main' = "start_group"
  /\ GroupStart
  /\ UNCHANGED <<m_state, queueVars, connectVars, addVars, ghostVars>>

StartThread ==
  /\ main = "start_group" /\ GroupIdle
  /\ connect' = "test"
  /\ main' = "set_started"
  /\ UNCHANGED <<m_state, m_loop_num, queueVars, addr, connectorVars, addVars, ghostVars, groupVars>>

SetStarted ==
  /\ main = "set_started"
  /\ m_state' = "STARTED" /\ main' = "idle"
  /\ UNCHANGED <<m_loop_num, queueVars, connectVars, addVars, ghostVars, groupVars>>

(* The users are out of Add(Stream&) when the owner calls Stop: nothing in *)
(* the class waits for them.                                               *)
Stop ==
  /\ main = "idle" /\ m_state = "STARTED"
  /\ \A u \in Users : adding[u] = "idle"
  /\ m_state' = "STOPPING" /\ main' = "join"
  /\ UNCHANGED <<m_loop_num, queueVars, connectVars, addVars, ghostVars, groupVars>>

\* Mutant of JoinConnect: the loops are stopped while the thread still runs.
StopGroupFirst ==
  /\ main = "join"
  /\ main' = "stop_group"
  /\ GroupStop
  /\ UNCHANGED <<m_state, m_loop_num, queueVars, connectVars, addVars, ghostVars>>

JoinConnect ==
  /\ main = "join" /\ connect = "exited"
  /\ connect' = "none"
  /\ main' = "stop_group"
  /\ GroupStop
  /\ UNCHANGED <<m_state, m_loop_num, queueVars, addr, connectorVars, addVars, ghostVars>>

SetStopped ==
  /\ main = "stop_group" /\ GroupIdle
  /\ m_state' = "STOPPED" /\ main' = "idle"
  /\ UNCHANGED <<m_loop_num, queueVars, connectVars, addVars, ghostVars, groupVars>>

-----------------------------------------------------------------------------
(* TcpClient::Add.                                                         *)

(* Add(const Address&), by any thread at any time.                         *)
AddAddress(r) ==
  /\ r \in fresh \cap Requests
  /\ fresh' = fresh \ {r}
  /\ connect_queue' = Append(connect_queue, r)
  /\ UNCHANGED <<ownerVars, failed_queue, connectVars, addVars, over, groupVars>>

(* Add(Stream&) by a user while the client is started.                     *)
AddStream(u, s) ==
  /\ m_state = "STARTED" /\ main = "idle"
  /\ adding[u] = "idle" /\ s \in fresh \cap Streams
  /\ fresh' = fresh \ {s}
  /\ stream' = [stream EXCEPT ![u] = {s}]
  /\ adding' = [adding EXCEPT ![u] = "read_index"]
  /\ UNCHANGED <<ownerVars, queueVars, connectVars, index, m_next_loop_index, over, groupVars>>

(* m_next_loop_index++ is not atomic, and nothing protects it.             *)
ReadIndex(t) ==
  /\ adding[t] = "read_index"
  /\ index' = [index EXCEPT ![t] = m_next_loop_index]
  /\ adding' = [adding EXCEPT ![t] = "write_index"]
  /\ UNCHANGED <<ownerVars, queueVars, connectVars, stream, m_next_loop_index, ghostVars, groupVars>>

NextIndex(i) == (i + 1) % IndexRange

WriteIndex(t) ==
  /\ adding[t] = "write_index"
  /\ m_next_loop_index' = NextIndex(index[t])
  /\ adding' = [adding EXCEPT ![t] = "create"]
  /\ UNCHANGED <<ownerVars, queueVars, connectVars, stream, index, ghostVars, groupVars>>

(* The loop that Add gives its stream to.                                  *)
Chosen(t) == (index[t] % m_loop_num) + 1

(* The create callback makes a handler of the stream and registers it.  It *)
(* may report a failure, having made no handler (the stream is closed) or  *)
(* one that epoll refused (EventLoop::Register leaves it in the map).      *)
CreateHandler(t) ==
  /\ adding[t] = "create"
  /\ \E made, ok \in BOOLEAN :
       /\ ok => made
       /\ IF made THEN \E s \in stream[t] : RegisterWith(Chosen(t), s)
                  ELSE UNCHANGED groupVars
       /\ over' = IF made \/ t = ConnectThread THEN over ELSE over \cup stream[t]
       /\ adding' = [adding EXCEPT ![t] = IF t # ConnectThread THEN "idle"
                                          ELSE IF ok THEN "added" ELSE "refused"]
  /\ stream' = [stream EXCEPT ![t] = {}] /\ index' = [index EXCEPT ![t] = 0]
  /\ UNCHANGED <<ownerVars, queueVars, connectVars, m_next_loop_index, fresh>>

-----------------------------------------------------------------------------
(* TcpClient::ConnectThread and Connect.                                   *)

ConnectTest ==
  /\ connect = "test"
  /\ connect' = IF m_state = "STOPPING" THEN "exited" ELSE "pop"
  /\ UNCHANGED <<ownerVars, queueVars, addr, connectorVars, addVars, ghostVars, groupVars>>

\* Mutant of PopAddress: the address is copied and left in the queue.
PopAddressLeaves ==
  /\ connect \in {"pop", "wait"} /\ connect_queue # << >>
  /\ addr' = {Head(connect_queue)}
  /\ connect' = "connect" /\ ConnectCalled
  /\ UNCHANGED <<ownerVars, queueVars, addVars, ghostVars, groupVars>>

PopAddress ==
  /\ connect \in {"pop", "wait"} /\ connect_queue # << >>
  /\ addr' = {Head(connect_queue)} /\ connect_queue' = Tail(connect_queue)
  /\ connect' = "connect" /\ ConnectCalled
  /\ UNCHANGED <<ownerVars, failed_queue, addVars, ghostVars, groupVars>>

PopWaits ==
  /\ connect = "pop" /\ connect_queue = << >>
  /\ connect' = "wait"
  /\ UNCHANGED <<ownerVars, queueVars, addr, connectorVars, addVars, ghostVars, groupVars>>

\* Mutant of PopTimesOut: Connect returns and leaves the failed queue alone.
PopTimesOutOnly ==
  /\ connect = "wait"
  /\ connect' = "test"
  /\ UNCHANGED <<ownerVars, queueVars, addr, connectorVars, addVars, ghostVars, groupVars>>

\* Mutant of PopTimesOut: Pop waits without a timeout.
PopWaitsOn ==
  /\ connect = "wait" /\ connect_queue # << >>
  /\ connect' = "requeue"
  /\ UNCHANGED <<ownerVars, queueVars, addr, connectorVars, addVars, ghostVars, groupVars>>

(* m_connect_timeout_ms is over, perhaps just as an address is pushed.     *)
PopTimesOut ==
  /\ connect = "wait"
  /\ connect' = "requeue"
  /\ UNCHANGED <<ownerVars, queueVars, addr, connectorVars, addVars, ghostVars, groupVars>>

\* Mutant of Requeue: the failed address is copied and not removed.
RequeueCopy ==
  /\ connect = "requeue"
  /\ IF failed_queue # << >>
       THEN /\ connect_queue' = Append(connect_queue, Head(failed_queue))
            /\ connect' = "test"
            /\ UNCHANGED failed_queue
       ELSE /\ connect' = "test"
            /\ UNCHANGED queueVars
  /\ UNCHANGED <<ownerVars, addr, connectorVars, addVars, ghostVars, groupVars>>

(* The failed addresses go back to the connect queue one by one.           *)
Requeue ==
  /\ connect = "requeue"
  /\ IF failed_queue # << >>
       THEN /\ connect_queue' = Append(connect_queue, Head(failed_queue))
            /\ failed_queue' = Tail(failed_queue)
            /\ UNCHANGED connect
       ELSE /\ connect' = "test"
            /\ UNCHANGED queueVars
  /\ UNCHANGED <<ownerVars, addr, connectorVars, addVars, ghostVars, groupVars>>

(* Connector::Connect goes on...                                           *)
Connecting ==
  /\ connect = "connect" /\ ConnectorStep
  /\ UNCHANGED <<ownerVars, queueVars, connect, addr, addVars, ghostVars, groupVars>>

SocketAnswered ==
  /\ PeerAnswers
  /\ UNCHANGED <<ownerVars, queueVars, connect, addr, addVars, ghostVars, groupVars>>

(* ... and returns a stream to add...                                      *)
Connected ==
  /\ connect = "connect" /\ StreamReturned(TRUE)
  /\ stream' = [stream EXCEPT ![ConnectThread] = addr]
  /\ adding' = [adding EXCEPT ![ConnectThread] = "read_index"]
  /\ connect' = "add"
  /\ UNCHANGED <<ownerVars, queueVars, addr, index, m_next_loop_index, ghostVars, groupVars>>

(* ... or none.  The address that cannot be connected to is dropped.       *)
NotConnected ==
  /\ connect = "connect" /\ StreamReturned(FALSE)
  /\ connect' = "test"
  /\ addr' = {} /\ over' = over \cup addr
  /\ UNCHANGED <<ownerVars, queueVars, addVars, fresh, groupVars>>

(* Add has returned, and if it failed the address is to be tried again.    *)
Added ==
  /\ connect = "add" /\ adding[ConnectThread] \in {"added", "refused"}
  /\ IF adding[ConnectThread] = "added" THEN UNCHANGED failed_queue
       ELSE \E r \in addr : failed_queue' = Append(failed_queue, r)
  /\ adding' = [adding EXCEPT ![ConnectThread] = "idle"]
  /\ addr' = {}
  /\ connect' = "test"
  /\ UNCHANGED <<ownerVars, connectorVars, connect_queue, stream, index, m_next_loop_index,
                 ghostVars, groupVars>>

-----------------------------------------------------------------------------
LoopThreadExits(i) ==
  /\ i <= Len(m_loops) /\ LoopExits(i)
  /\ UNCHANGED <<ownerVars, queueVars, connectVars, addVars, ghostVars>>

LoopThreadCloses ==
  /\ \E i \in 1..Len(m_loops) : \E c \in m_loops[i].handlers :
       LoopCloses(i, c) /\ over' = over \cup {c}
  /\ UNCHANGED <<ownerVars, queueVars, connectVars, addVars, fresh>>

(* A restart destroys the loops of the last run, and their connections.    *)
GroupGoesOn ==
  /\ GroupStep(m_loop_num)
  /\ over' = over \cup (HandlersOf(m_loops) \ HandlersOf(m_loops'))
  /\ UNCHANGED <<ownerVars, queueVars, connectVars, addVars, fresh>>

OwnerGoesOn == StartThread \/ SetStarted \/ JoinConnect \/ SetStopped \/ GroupGoesOn

ConnectStep == \/ ConnectTest \/ PopAddress \/ PopWaits \/ PopTimesOut
               \/ Requeue \/ Connecting \/ Connected \/ NotConnected \/ Added

AddStep(t) == ReadIndex(t) \/ WriteIndex(t) \/ CreateHandler(t)

Next ==
  \/ \E n \in 1..MaxLoops : Start(n)
  \/ OwnerGoesOn \/ Stop
  \/ \E r \in Requests : AddAddress(r)
  \/ \E u \in Users, s \in Streams : AddStream(u, s)
  \/ ConnectStep \/ SocketAnswered
  \/ \E t \in Adders : AddStep(t)
  \/ LoopThreadCloses
  \/ \E i \in 1..MaxLoops : LoopThreadExits(i)

Safety == Init /\ [][Next]_vars

(* Threads are scheduled, Start and Stop go on once they have begun, and   *)
(* poll returns (by its timeout at the latest).                            *)
Fairness ==
  /\ WF_vars(OwnerGoesOn)
  /\ WF_vars(ConnectStep)
  /\ \A t \in Adders : WF_vars(AddStep(t))
  /\ \A i \in 1..MaxLoops : WF_vars(LoopThreadExits(i))

Spec == Safety /\ Fairness
-----------------------------------------------------------------------------
(* Every variable has its type.                                            *)
TypeOK ==
  /\ GroupTypeOK(Requests \cup Streams, MaxLoops) /\ ConnectorTypeOK
  /\ m_state \in {"STOPPED", "STARTED", "STOPPING"}
  /\ main \in {"idle", "start_group", "set_started", "join", "stop_group"}
  /\ connect_queue \in Seq(Requests) /\ failed_queue \in Seq(Requests)
  /\ connect \in {"none", "test", "pop", "wait", "requeue", "connect", "add", "exited"}
  /\ addr \subseteq Requests
  /\ adding \in [Adders -> {"idle", "read_index", "write_index", "create", "added", "refused"}]
  /\ stream \in [Adders -> SUBSET (Requests \cup Streams)]
  /\ index \in [Adders -> 0..IndexRange - 1]
  /\ m_next_loop_index \in 0..IndexRange - 1
  /\ m_loop_num \in 0..MaxLoops
  /\ fresh \cup over \subseteq Requests \cup Streams

(* Streams are registered only with loops that run and that nobody stops   *)
(* (tcp_client.cpp:56-58), and with loops that the group has although the  *)
(* index is counted by several threads without a lock.                     *)
AddSafe ==
  \A t \in Adders : adding[t] \in {"read_index", "write_index", "create"} =>
    /\ m_loop_num = Len(m_loops)
    /\ \A i \in 1..m_loop_num : MayRegister(i)
    /\ adding[t] = "create" => Chosen(t) \in 1..m_loop_num

(* The places where something added waits to be connected or registered.   *)
Waiting(c) ==
  {<<"connect", i>> : i \in {j \in 1..Len(connect_queue) : connect_queue[j] = c}} \cup
  {<<"failed", i>> : i \in {j \in 1..Len(failed_queue) : failed_queue[j] = c}} \cup
  {<<"thread", t>> : t \in {u \in Adders : c \in stream[u] \cup (IF u = ConnectThread
                                                                THEN addr ELSE {})}} \cup
  (IF c \in fresh THEN {<<"user", c>>} ELSE {})

(* Nothing that was added is lost or doubled: it waits in one place, once, *)
(* or it has become a connection, or it is over because the connect failed *)
(* or the connection was closed.  (An address whose handler epoll refused  *)
(* is a connection in a loop's map and waits to be tried again.)           *)
NothingLost ==
  \A c \in Requests \cup Streams :
    /\ Cardinality(Waiting(c)) <= 1
    /\ Waiting(c) = {} => c \in HandlersOf(m_loops) \cup over

(* When the client is stopped none of its threads runs.                    *)
StoppedQuiet ==
  m_state = "STOPPED" /\ main = "idle" =>
    /\ connect = "none" /\ addr = {}
    /\ \A t \in Adders : adding[t] = "idle" /\ stream[t] = {}
    /\ GroupQuiet

(* A Stop that has begun ends, whatever the queues hold.                   *)
StopCompletes == m_state = "STOPPING" ~> m_state = "STOPPED"

(* An address whose handler could not be made is tried again, unless the   *)
(* client is stopped, once nobody adds new ones (here: there are finitely  *)
(* many); the queue that is served first can hold it up until then.        *)
FailedRetried ==
  \A r \in Requests :
    r \in ToSet(failed_queue) ~> (r \notin ToSet(failed_queue) \/ m_state # "STARTED")

(* An address added is taken up by a client that goes on running, also one *)
(* added before Start or left over from an earlier run.                    *)
AddressesServed ==
  \A r \in Requests :
    r \in ToSet(connect_queue) ~> (r \notin ToSet(connect_queue) \/ m_state # "STARTED")
=============================================================================
