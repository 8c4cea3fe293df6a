---------------------------------- MODULE Echo ----------------------------------
(***************************************************************************)
(* The two examples at the ends of one connection: TestEventHandler of     *)
(* tools/server_example.cpp, called by the thread of its event loop, and   *)
(* the program of tools/client_example.cpp.  A packet is a header with the *)
(* length of its body, and the body; the server queues every packet it has *)
(* read in m_send_datas and sends it back.  Send may also be called by     *)
(* other threads of the server, which is what the handler's mutex is for.  *)
(*                                                                         *)
(* Bytes are counted: buffers, packets and sockets are their sizes.  Of a  *)
(* pointer only this is kept, whether a short read has moved it to a wrong *)
(* place (Stream!Advance): a header read there tells any length of Garbled.*)
(* An action is a system call or a critical section of the mutex.          *)
(***************************************************************************)
EXTENDS Integers, Sequences

CONSTANTS
  HeadSize,  \* HEAD_SIZE
  Bodies,    \* the body sizes of all packets
  Asked,     \* the first Asked packets are the client's,
             \* the others are queued by threads of the server
  Garbled,   \* lengths in headers that are not where they should be
  Room       \* bytes the sockets hold in each direction

ConstantsFit ==
  /\ HeadSize \in Nat \ {0} /\ Room \in Nat \ {0}
  /\ Bodies \in Seq(Nat) /\ Asked \in 0..Len(Bodies)
  /\ Garbled \subseteq Int /\ \A n \in Garbled : n >= -HeadSize

EVENT_READ == {"IN"}
EVENT_READWRITE == {"IN", "OUT"}

VARIABLES
  registered,    \* the handler is in its loop (and alive)
  interest,      \* the events epoll watches for it
  thread,        \* the loop's thread: "select", "read", "write", "sent"
  reported,      \* the events epoll_wait has reported
  m_head_size, m_body_size,   \* what is left to read
  m_pkt_data,    \* the size of the packet being read
  misplaced,     \* the pointer it is read to has been moved wrongly
  framed,        \* every header has been read where it began
  reading,       \* the client's packet that is being read, while framed
  m_send_datas,  \* the sizes of the packets to send
  m_send_size,   \* what is left to send of the first one
  unpushed,      \* packets other threads have not queued yet
  inbound,       \* bytes on their way to the server,
  outbound,      \* ... and to the client
  client,        \* "open" or "closed"
  asking, written,   \* the packet the client sends, what of it is sent
  put, got,      \* bytes the client has sent and received
  taken, passed  \* bytes of the client's packets queued, of packets popped

epollVars  == <<registered, interest>>
readVars   == <<m_head_size, m_body_size, m_pkt_data, misplaced, framed, reading, taken>>
sendVars   == <<m_send_datas, m_send_size, passed>>
loopVars   == <<thread, reported>>
clientVars == <<client, asking, written, put, got>>
evars == <<epollVars, readVars, sendVars, loopVars, unpushed, inbound, outbound,
           clientVars>>

(* TestEventHandler is constructed and registered (CreateEventHandler) for *)
(* a client that has just connected.                                       *)
Init ==
  /\ registered = TRUE /\ interest = EVENT_READ
  /\ m_head_size = HeadSize /\ m_body_size = 0 /\ m_pkt_data = 0
  /\ misplaced = FALSE /\ framed = TRUE /\ reading = 1
  /\ m_send_datas = << >> /\ m_send_size = 0
  /\ thread = "select" /\ reported = {}
  /\ unpushed = Asked + 1..Len(Bodies)
  /\ client = "open" /\ asking = 1 /\ written = 0
  /\ inbound = 0 /\ outbound = 0
  /\ put = 0 /\ got = 0 /\ taken = 0 /\ passed = 0

-----------------------------------------------------------------------------
(* The thread of the event loop.                                           *)

Ready == (IF inbound # 0 \/ client = "closed" THEN {"IN"} ELSE {}) \cup
         (IF outbound < Room \/ client = "closed" THEN {"OUT"} ELSE {})

(* epoll_wait reports events, and Select calls HandleRead first.           *)
EpollWait ==
  /\ thread = "select" /\ registered
  /\ interest \cap Ready # {}
  /\ reported' = interest \cap Ready
  /\ thread' = IF "IN" \in reported' THEN "read" ELSE "write"
  /\ UNCHANGED <<epollVars, readVars, sendVars, unpushed, inbound, outbound,
                 clientVars>>

(* The end of HandleRead with true.                                        *)
AfterRead == IF "OUT" \in reported THEN "write" ELSE "select"

\* Mutant of Unregister: the handler is left to its loop.
StayRegistered ==
  /\ thread' = "select"
  /\ UNCHANGED <<epollVars, readVars, sendVars, reported, unpushed, inbound,
                 outbound, clientVars>>

(* The loop drops the handler, which is destroyed, and its socket with it. *)
(* What the client has not received yet may be lost.                       *)
Unregister ==
  /\ registered' = FALSE /\ interest' = {}
  /\ thread' = "select" /\ reported' = {}
  /\ m_send_datas' = << >> /\ m_send_size' = 0
  /\ outbound' \in {outbound, 0}
  /\ UNCHANGED <<readVars, passed, unpushed, inbound, clientVars>>

(* Send, with m_mutex held.                                                *)
Send(size) ==
  /\ m_send_datas' = Append(m_send_datas, size)
  /\ interest' = EVENT_READWRITE

-----------------------------------------------------------------------------
(* TestEventHandler::HandleRead.                                           *)

ReadingHead == thread = "read" /\ m_head_size # 0
ReadingBody == thread = "read" /\ m_head_size = 0

(* A read of k bytes leaves left: the pointer advances by left, which is   *)
(* the wrong place unless k bytes are left, or none.                       *)
Misplaces(k, left) == left # k /\ left # 0

(* The header is complete: the packet gets its buffer, in which the body   *)
(* goes behind the header.                                                 *)
HeadRead(size) ==
  /\ m_body_size' = size /\ m_pkt_data' = HeadSize + size

(* The length in a header that has been read in place, or not.             *)
Lengths == IF framed /\ ~misplaced
             THEN IF reading \in DOMAIN Bodies THEN {Bodies[reading]} ELSE {}
             ELSE Garbled

ReadHead(k) ==
  /\ ReadingHead /\ k \in 1..m_head_size /\ k <= inbound
  /\ inbound' = inbound - k
  /\ m_head_size' = m_head_size - k
  /\ IF m_head_size' = 0
       THEN /\ \E size \in Lengths : HeadRead(size)
            /\ framed' = (framed /\ ~misplaced)
            /\ misplaced' = FALSE
       ELSE /\ misplaced' = (misplaced \/ Misplaces(k, m_head_size'))
            /\ UNCHANGED <<m_body_size, m_pkt_data, framed>>
  /\ UNCHANGED <<epollVars, reading, taken, sendVars, loopVars, unpushed, outbound,
                 clientVars>>

ReadBody(k) ==
  /\ ReadingBody /\ k \in 1..m_body_size /\ k <= inbound
  /\ inbound' = inbound - k
  /\ m_body_size' = m_body_size - k
  /\ misplaced' = (misplaced \/ Misplaces(k, m_body_size'))
  /\ UNCHANGED <<epollVars, m_head_size, m_pkt_data, framed, reading, taken, sendVars,
                 loopVars, unpushed, outbound, clientVars>>

(* The body is complete: the packet is queued, the next header is read.    *)
(* A garbled length below 0 asks for no body at all.                       *)
PacketRead ==
  /\ ReadingBody /\ m_body_size <= 0
  /\ Send(m_pkt_data)
  /\ taken' = taken + m_pkt_data
  /\ m_head_size' = HeadSize /\ misplaced' = FALSE
  /\ reading' = IF framed THEN reading + 1 ELSE reading
  /\ UNCHANGED <<m_body_size, m_pkt_data, framed, registered, m_send_size, passed,
                 loopVars, unpushed, inbound, outbound, clientVars>>

Wanting == ReadingHead \/ (ReadingBody /\ m_body_size > 0)

(* EAGAIN: HandleRead returns true.                                        *)
ReadBlocks ==
  /\ Wanting /\ inbound = 0 /\ client = "open"
  /\ thread' = AfterRead
  /\ UNCHANGED <<epollVars, readVars, sendVars, reported, unpushed, inbound, outbound,
                 clientVars>>

(* A closed peer, or an error: the handler unregisters, returns false.     *)
ReadFails == Wanting /\ inbound = 0 /\ client = "closed" /\ Unregister

-----------------------------------------------------------------------------
(* TestEventHandler::HandleWrite.                                          *)

\* Mutant of WriteIdle: the events are left as they are.
WriteIdleOnly ==
  /\ thread = "write" /\ m_send_size = 0 /\ m_send_datas = << >>
  /\ thread' = "select"
  /\ UNCHANGED <<epollVars, readVars, sendVars, reported, unpushed, inbound, outbound,
                 clientVars>>

(* With m_mutex held and nothing to send: only reading is of interest.     *)
WriteIdle ==
  /\ thread = "write" /\ m_send_size = 0 /\ m_send_datas = << >>
  /\ interest' = EVENT_READ
  /\ thread' = "select"
  /\ UNCHANGED <<registered, readVars, sendVars, reported, unpushed, inbound, outbound,
                 clientVars>>

\* Mutant of WriteTakes: every event begins the first packet again.
WriteTakesAgain ==
  /\ thread = "write" /\ m_send_datas # << >>
  /\ m_send_size' = Head(m_send_datas)
  /\ thread' = IF m_send_size' = 0 THEN "sent" ELSE "write"
  /\ UNCHANGED <<epollVars, readVars, m_send_datas, passed, reported, unpushed, inbound,
                 outbound, clientVars>>

(* With m_mutex held: the first packet of the queue is the one to send.    *)
(* Stream::Send returns 1 at once for an empty one.                        *)
WriteTakes ==
  /\ thread = "write" /\ m_send_size = 0 /\ m_send_datas # << >>
  /\ m_send_size' = Head(m_send_datas)
  /\ thread' = IF m_send_size' = 0 THEN "sent" ELSE "write"
  /\ UNCHANGED <<epollVars, readVars, m_send_datas, passed, reported, unpushed, inbound,
                 outbound, clientVars>>

Fits(k) == k \in 1..m_send_size /\ k <= Room - outbound

WriteBytes(k) ==
  /\ thread = "write" /\ client = "open" /\ Fits(k)
  /\ outbound' = outbound + k
  /\ m_send_size' = m_send_size - k
  /\ thread' = IF m_send_size' = 0 THEN "sent" ELSE "write"
  /\ UNCHANGED <<epollVars, readVars, m_send_datas, passed, reported, unpushed, inbound,
                 clientVars>>

(* EAGAIN: HandleWrite returns true, the rest is sent at the next event.   *)
WriteBlocks ==
  /\ thread = "write" /\ client = "open"
  /\ m_send_size # 0 /\ outbound = Room
  /\ thread' = "select"
  /\ UNCHANGED <<epollVars, readVars, sendVars, reported, unpushed, inbound, outbound,
                 clientVars>>

(* The peer is gone.  The write fails with EPIPE, and does no more, since  *)
(* the library ignores SIGPIPE.                                            *)
WriteFails == thread = "write" /\ client = "closed" /\ m_send_size # 0 /\ Unregister

\* Mutant of PopSent: behind each packet only reading is of interest.
PopSentQuiet ==
  /\ thread = "sent"
  /\ m_send_datas' = Tail(m_send_datas)
  /\ passed' = passed + Head(m_send_datas)
  /\ interest' = EVENT_READ
  /\ thread' = "write"
  /\ UNCHANGED <<registered, readVars, m_send_size, reported, unpushed, inbound,
                 outbound, clientVars>>

(* The packet is sent and leaves the queue, with m_mutex held.             *)
PopSent ==
  /\ thread = "sent"
  /\ m_send_datas' = Tail(m_send_datas)
  /\ passed' = passed + Head(m_send_datas)
  /\ thread' = "write"
  /\ UNCHANGED <<epollVars, readVars, m_send_size, reported, unpushed, inbound,
                 outbound, clientVars>>

-----------------------------------------------------------------------------
(* The rest of the server.                                                 *)

(* Another thread, with a shared_ptr of the handler, sends.  Once the      *)
(* handler has left its loop nothing comes of that.                        *)
Push(p) ==
  /\ p \in unpushed /\ registered
  /\ Send(HeadSize + Bodies[p])
  /\ unpushed' = unpushed \ {p}
  /\ UNCHANGED <<registered, readVars, m_send_size, passed, loopVars, inbound, outbound,
                 clientVars>>

(* The process ends, and the connection with it: it is killed, or a wrong  *)
(* pointer tells.  A garbled length lets resize throw or an assertion fail,*)
(* bytes read behind m_pkt_data break the heap; that a pointer outside the *)
(* memory lets read or write fail with EFAULT, so that the handler         *)
(* unregisters, ends here too.                                             *)
ServerEnds == registered /\ Unregister

-----------------------------------------------------------------------------
(* The client.  The example waits for the answer to each packet before it  *)
(* sends the next; this one may send before it reads.                      *)

Size(p) == HeadSize + Bodies[p]

(* Stream::Send(buf, len + HEAD_SIZE, timeout) moves some bytes.           *)
ClientSends(k) ==
  /\ client = "open" /\ asking <= Asked
  /\ k \in 1..Size(asking) - written /\ k <= Room - inbound
  /\ inbound' = inbound + k /\ put' = put + k
  /\ IF written + k = Size(asking)
       THEN asking' = asking + 1 /\ written' = 0
       ELSE written' = written + k /\ UNCHANGED asking
  /\ UNCHANGED <<epollVars, readVars, sendVars, loopVars, unpushed, outbound, client,
                 got>>

(* Stream::Recv(buf2, len + HEAD_SIZE, timeout) moves some bytes.          *)
ClientReceives(k) ==
  /\ client = "open" /\ k \in 1..outbound
  /\ outbound' = outbound - k /\ got' = got + k
  /\ UNCHANGED <<epollVars, readVars, sendVars, loopVars, unpushed, inbound, client,
                 asking, written, put>>

(* The client has all its answers, one of its timeouts is over, or an      *)
(* answer is not what it sent (client_example.cpp:93): the program ends.   *)
(* What the server has not read may be lost with the connection.           *)
ClientCloses ==
  /\ client = "open"
  /\ client' = "closed"
  /\ inbound' \in {inbound, 0} /\ outbound' = 0
  /\ UNCHANGED <<epollVars, readVars, sendVars, loopVars, unpushed, asking, written,
                 put, got>>

(* The connection is over.                                                 *)
Over == client = "closed" /\ ~registered /\ UNCHANGED evars

-----------------------------------------------------------------------------
HandleRead == \/ \E k \in 1..inbound : ReadHead(k) \/ ReadBody(k)
              \/ PacketRead \/ ReadBlocks \/ ReadFails

HandleWrite == \/ WriteIdle \/ WriteTakes
               \/ \E k \in 1..Room : WriteBytes(k)
               \/ WriteBlocks \/ WriteFails \/ PopSent

LoopStep == EpollWait \/ HandleRead \/ HandleWrite

Next ==
  \/ LoopStep
  \/ \E p \in unpushed : Push(p)
  \/ \E k \in 1..Room : ClientSends(k) \/ ClientReceives(k)
  \/ ServerEnds \/ ClientCloses \/ Over

Safety == Init /\ [][Next]_evars

(* The loop's thread is scheduled, and the client reads while it is open.  *)
Fairness == /\ WF_evars(LoopStep)
            /\ WF_evars(\E k \in 1..Room : ClientReceives(k))

Spec == Safety /\ Fairness
-----------------------------------------------------------------------------
(* Every variable has its type.                                            *)
TypeOK ==
  /\ registered \in BOOLEAN
  /\ interest \subseteq EVENT_READWRITE /\ reported \subseteq EVENT_READWRITE
  /\ thread \in {"select", "read", "write", "sent"}
  /\ m_head_size \in 0..HeadSize /\ m_body_size \in Int /\ m_pkt_data \in Nat
  /\ misplaced \in BOOLEAN /\ framed \in BOOLEAN /\ reading \in Nat \ {0}
  /\ m_send_datas \in Seq(Nat) /\ m_send_size \in Nat
  /\ unpushed \subseteq Asked + 1..Len(Bodies)
  /\ inbound \in 0..Room /\ outbound \in 0..Room
  /\ client \in {"open", "closed"}
  /\ asking \in 1..Asked + 1 /\ written \in Nat
  /\ put \in Nat /\ got \in Nat /\ taken \in Nat /\ passed \in Nat

(* What has been written of the first packet of the queue.                 *)
Gone == IF m_send_size # 0 THEN Head(m_send_datas) - m_send_size
        ELSE IF thread = "sent" THEN Head(m_send_datas) ELSE 0

(* The bytes of its packet that HandleRead has read already.               *)
ReadSoFar == IF m_head_size # 0 THEN HeadSize - m_head_size
                                ELSE m_pkt_data - m_body_size

(* While the connection lasts no byte is sent twice or left out, over all  *)
(* the events a packet takes: the client is sent the sizes of the packets  *)
(* that have left the queue and what is gone of the next (server_example   *)
(* .cpp:94-126); and unless a wrong pointer has garbled a header, what the *)
(* client has sent is on its way, in the packet being read, or in packets  *)
(* that have been queued (50-93).  Their contents are Stream's subject.    *)
BytesAccounted ==
  registered /\ client = "open" =>
    /\ got + outbound = passed + Gone
    /\ framed => put = inbound + ReadSoFar + taken

(* A packet in the queue keeps the loop watching for room: the last thing  *)
(* a Send or a HandleWrite leaves behind is never EVENT_READ, whichever of *)
(* the two threads comes last (server_example.cpp:45-47, 100-104).         *)
UnsentWatched ==
  registered /\ m_send_datas # << >> => interest = EVENT_READWRITE

(* Nothing is left behind: what has come in is read and what has been      *)
(* queued, by the loop or by another thread, is sent, unless the connection*)
(* ends.  The switches between EVENT_READ and EVENT_READWRITE forget no    *)
(* packet.                                                                 *)
NothingLeftBehind ==
  (registered /\ (inbound # 0 \/ m_send_datas # << >>)) ~>
    (inbound = 0 /\ m_send_datas = << >>) \/ client = "closed" \/ ~registered

(* When the client has gone the handler leaves its loop.                   *)
ClosedFreed == client = "closed" ~> ~registered

(* With nothing to send the handler stops asking for EVENT_WRITE, which    *)
(* would wake its loop again and again.                                    *)
GoesQuiet ==
  (registered /\ m_send_datas = << >>) ~>
    (interest = EVENT_READ \/ m_send_datas # << >> \/ ~registered)
=============================================================================
