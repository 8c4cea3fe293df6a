------------------------------ MODULE Echo_proofs ------------------------------
(***************************************************************************)
(* What holds of the example programs' connection whatever the packets,    *)
(* the sockets and the pieces in which these move bytes: the counts agree, *)
(* and a packet that waits to be sent is never left unwatched.             *)
(***************************************************************************)
EXTENDS Echo, SequenceTheorems, TLAPS

(* Where the handler stands: callbacks run only while it is registered; a  *)
(* packet leaves the queue when it has been sent, and no more of it is to  *)
(* be sent than it has; a length read in place is never negative.          *)
Shape ==
  /\ thread # "select" => registered
  /\ m_send_size # 0 => m_send_datas # << >> /\ m_send_size <= Head(m_send_datas)
  /\ thread = "sent" => m_send_datas # << >> /\ m_send_size = 0
  /\ framed /\ m_head_size = 0 => m_body_size >= 0

EchoInv == TypeOK /\ Shape /\ BytesAccounted /\ UnsentWatched

LEMMA Sizes ==
  ASSUME ConstantsFit
  PROVE  /\ HeadSize \in Nat /\ HeadSize >= 1 /\ Room \in Nat /\ Asked \in Nat
         /\ Len(Bodies) \in Nat /\ Asked <= Len(Bodies)
         /\ \A p \in 1..Len(Bodies) : Bodies[p] \in Nat
         /\ \A n \in Garbled : n \in Int /\ HeadSize + n \in Nat
<1>1. Bodies \in Seq(Nat) /\ Len(Bodies) \in Nat
  BY LenProperties DEF ConstantsFit
<1>2. \A p \in 1..Len(Bodies) : Bodies[p] \in Nat
  BY <1>1, ElementOfSeq
<1> QED
  BY <1>1, <1>2, SMT DEF ConstantsFit

LEMMA EchoInit == ASSUME ConstantsFit, Init PROVE EchoInv
<1>1. /\ m_send_datas = << >> /\ m_send_datas \in Seq(Nat)
      /\ m_head_size \in 0..HeadSize /\ inbound \in 0..Room /\ outbound \in 0..Room
      /\ asking \in 1..Asked + 1 /\ unpushed \subseteq Asked + 1..Len(Bodies)
  BY Sizes, SMT DEF Init
<1>2. TypeOK
  <2>1. m_body_size \in Int /\ m_pkt_data \in Nat /\ reading \in Nat \ {0} /\ m_send_size \in Nat
        /\ written \in Nat /\ put \in Nat /\ got \in Nat /\ taken \in Nat /\ passed \in Nat
    BY SMT DEF Init
  <2> QED
    BY <1>1, <2>1 DEF Init, TypeOK, EVENT_READ, EVENT_READWRITE
<1>3. BytesAccounted
  BY Sizes, SMT DEF Init, BytesAccounted, Gone, ReadSoFar
<1>4. Shape /\ UnsentWatched
  BY Sizes, SMT DEF Init, Shape, UnsentWatched
<1> QED
  BY <1>2, <1>3, <1>4 DEF EchoInv

-----------------------------------------------------------------------------
(* Steps that several actions share.                                       *)

LEMMA UnregisterKeeps ==
  ASSUME ConstantsFit, EchoInv, Unregister
  PROVE  EchoInv'
<1>1. TypeOK'
  <2>1. << >> \in Seq(Nat) /\ outbound' \in 0..Room
    BY Sizes, SMT DEF EchoInv, TypeOK, Unregister
  <2> QED
    BY <2>1 DEF EchoInv, TypeOK, Unregister, readVars, clientVars
<1> QED
  BY <1>1 DEF EchoInv, Shape, BytesAccounted, UnsentWatched, Unregister, readVars

(* The loop's thread goes from one callback to the next, or to epoll_wait, *)
(* and nothing else changes.                                               *)
LEMMA ThreadKeeps ==
  ASSUME EchoInv, UNCHANGED <<epollVars, readVars, sendVars, unpushed, inbound, outbound, clientVars>>,
         thread # "sent", thread' \in {"select", "read", "write"}, thread' # "select" => registered,
         reported' \subseteq EVENT_READWRITE
  PROVE  EchoInv'
<1>1. TypeOK'
  BY DEF EchoInv, TypeOK, epollVars, readVars, sendVars, clientVars
<1>2. Gone' = Gone /\ ReadSoFar' = ReadSoFar
  BY DEF Gone, ReadSoFar, sendVars, readVars
<1> QED
  BY <1>1, <1>2 DEF EchoInv, Shape, BytesAccounted, UnsentWatched, epollVars, readVars, sendVars,
     clientVars

(* A packet at the end of the queue: what is gone of the first stays.      *)
LEMMA SendKeeps ==
  ASSUME EchoInv, NEW size \in Nat, Send(size), UNCHANGED <<thread, m_send_size>>
  PROVE  /\ m_send_datas' \in Seq(Nat) /\ m_send_datas' # << >>
         /\ m_send_size # 0 \/ thread = "sent" => Head(m_send_datas') = Head(m_send_datas)
         /\ Gone' = Gone /\ UnsentWatched'
<1>1. m_send_datas \in Seq(Nat) /\ m_send_datas' = Append(m_send_datas, size)
  BY DEF EchoInv, TypeOK, Send
<1>2. m_send_datas' \in Seq(Nat) /\ m_send_datas' # << >>
  BY <1>1, AppendProperties
<1>3. m_send_datas # << >> => Head(m_send_datas') = Head(m_send_datas)
  BY <1>1, HeadTailAppend
<1> QED
  BY <1>2, <1>3 DEF EchoInv, Shape, Gone, UnsentWatched, Send

-----------------------------------------------------------------------------
(* One step of each operation.                                             *)

LEMMA ReadHeadKeeps ==
  ASSUME ConstantsFit, EchoInv, NEW k \in 1..inbound, ReadHead(k)
  PROVE  EchoInv'
<1>1. k \in Nat /\ k >= 1 /\ k <= m_head_size /\ m_head_size \in 0..HeadSize /\ inbound \in 0..Room
      /\ inbound' = inbound - k /\ m_head_size' = m_head_size - k /\ HeadSize \in Nat /\ Room \in Nat
      /\ m_head_size # 0 /\ thread = "read"
  BY Sizes, SMT DEF EchoInv, TypeOK, ReadHead, ReadingHead
<1>2. UNCHANGED <<epollVars, reading, taken, sendVars, loopVars, unpushed, outbound, clientVars>>
  BY DEF ReadHead
<1>3. Gone' = Gone
  BY <1>2 DEF Gone, sendVars, loopVars
<1>4. CASE m_head_size' = 0
  <2>1. PICK size \in Lengths : HeadRead(size)
    BY <1>4 DEF ReadHead
  <2>2. framed' = (framed /\ ~misplaced) /\ misplaced' = FALSE
    BY <1>4 DEF ReadHead
  <2>3. size \in Int /\ HeadSize + size \in Nat /\ (framed' => size \in Nat)
    <3>1. CASE framed /\ ~misplaced
      <4>1. reading \in DOMAIN Bodies /\ size = Bodies[reading]
        BY <2>1, <3>1 DEF Lengths
      <4>2. DOMAIN Bodies = 1..Len(Bodies)
        BY LenProperties DEF ConstantsFit
      <4>3. size \in Nat
        BY <4>1, <4>2, Sizes
      <4> QED
        BY <4>3, Sizes
    <3>2. CASE ~(framed /\ ~misplaced)
      <4>1. size \in Garbled
        BY <2>1, <3>2 DEF Lengths
      <4> QED
        BY <2>2, <3>2, <4>1, Sizes
    <3> QED
      BY <3>1, <3>2
  <2>4. m_body_size' = size /\ m_pkt_data' = HeadSize + size
    BY <2>1 DEF HeadRead
  <2>5. TypeOK'
    <3>1. m_head_size' \in 0..HeadSize /\ inbound' \in 0..Room /\ m_body_size' \in Int
          /\ m_pkt_data' \in Nat
      BY <1>1, <1>4, <2>3, <2>4
    <3>2. misplaced' \in BOOLEAN /\ framed' \in BOOLEAN
      BY <2>2
    <3> QED
      BY <1>2, <3>1, <3>2 DEF EchoInv, TypeOK, epollVars, sendVars, loopVars, clientVars
  <2>6. ReadSoFar' = ReadSoFar + k
    BY <1>1, <1>4, <2>3, <2>4, SMT DEF ReadSoFar
  <2>7. Shape' /\ UnsentWatched'
    BY <1>2, <1>4, <2>3, <2>4, SMT
       DEF EchoInv, Shape, UnsentWatched, epollVars, sendVars, loopVars, clientVars
  <2>8. BytesAccounted'
    <3>1. framed' => framed
      BY <2>2
    <3>2. taken \in Nat /\ put \in Nat /\ ReadSoFar \in Int
      BY <1>1, SMT DEF EchoInv, TypeOK, ReadSoFar
    <3> QED
      BY <1>1, <1>2, <1>3, <2>6, <3>1, <3>2, SMT
         DEF EchoInv, BytesAccounted, epollVars, sendVars, clientVars
  <2> QED
    BY <2>5, <2>7, <2>8 DEF EchoInv
<1>5. CASE m_head_size' # 0
  <2>1. misplaced' = (misplaced \/ Misplaces(k, m_head_size')) /\ UNCHANGED <<m_body_size, m_pkt_data, framed>>
    BY <1>5 DEF ReadHead
  <2>2. TypeOK'
    <3>1. misplaced' \in BOOLEAN
      BY <2>1 DEF EchoInv, TypeOK, Misplaces
    <3> QED
      BY <1>1, <1>2, <2>1, <3>1, SMT
         DEF EchoInv, TypeOK, epollVars, sendVars, loopVars, clientVars
  <2>3. ReadSoFar' = ReadSoFar + k
    BY <1>1, <1>5, SMT DEF ReadSoFar
  <2>4. Shape' /\ UnsentWatched'
    BY <1>2, <1>5, <2>1, SMT
       DEF EchoInv, Shape, UnsentWatched, epollVars, sendVars, loopVars, clientVars
  <2>5. BytesAccounted'
    <3>1. taken \in Nat /\ put \in Nat /\ ReadSoFar \in Int
      BY <1>1, SMT DEF EchoInv, TypeOK, ReadSoFar
    <3> QED
      BY <1>1, <1>2, <1>3, <2>1, <2>3, <3>1, SMT
         DEF EchoInv, BytesAccounted, epollVars, sendVars, clientVars
  <2> QED
    BY <2>2, <2>4, <2>5 DEF EchoInv
<1> QED
  BY <1>4, <1>5

LEMMA ReadBodyKeeps ==
  ASSUME ConstantsFit, EchoInv, NEW k \in 1..inbound, ReadBody(k)
  PROVE  EchoInv'
<1>1. k \in Nat /\ k >= 1 /\ k <= m_body_size /\ m_body_size \in Int /\ inbound \in 0..Room
      /\ inbound' = inbound - k /\ m_body_size' = m_body_size - k /\ Room \in Nat
      /\ m_head_size = 0 /\ m_head_size' = 0 /\ m_pkt_data \in Nat
  BY Sizes, SMT DEF EchoInv, TypeOK, ReadBody, ReadingBody
<1>2. UNCHANGED <<epollVars, m_head_size, m_pkt_data, framed, reading, taken, sendVars,
                  loopVars, unpushed, outbound, clientVars>>
  BY DEF ReadBody
<1>3. TypeOK'
  <2>1. misplaced' \in BOOLEAN
    BY DEF EchoInv, TypeOK, Misplaces, ReadBody
  <2> QED
    BY <1>1, <1>2, <2>1, SMT DEF EchoInv, TypeOK, epollVars, sendVars, loopVars, clientVars
<1>4. Shape' /\ UnsentWatched'
  BY <1>1, <1>2, SMT DEF EchoInv, Shape, UnsentWatched, epollVars, sendVars, loopVars, clientVars
<1>5. BytesAccounted'
  <2>1. Gone' = Gone
    BY <1>2 DEF Gone, sendVars, loopVars
  <2>2. ReadSoFar' = ReadSoFar + k /\ ReadSoFar \in Int
    BY <1>1, <1>2, SMT DEF ReadSoFar
  <2>3. taken \in Nat /\ put \in Nat
    BY DEF EchoInv, TypeOK
  <2> QED
    BY <1>1, <1>2, <2>1, <2>2, <2>3, SMT DEF EchoInv, BytesAccounted, epollVars, sendVars, clientVars
<1> QED
  BY <1>3, <1>4, <1>5 DEF EchoInv

LEMMA PacketReadKeeps ==
  ASSUME ConstantsFit, EchoInv, PacketRead
  PROVE  EchoInv'
<1>1. /\ m_pkt_data \in Nat /\ m_body_size \in Int /\ m_body_size <= 0 /\ m_head_size = 0
      /\ m_head_size' = HeadSize /\ HeadSize \in Nat /\ HeadSize >= 1 /\ thread = "read"
      /\ taken' = taken + m_pkt_data /\ taken \in Nat /\ misplaced' = FALSE
      /\ reading' \in Nat \ {0} /\ Send(m_pkt_data) /\ registered
  BY Sizes, SMT DEF EchoInv, TypeOK, Shape, PacketRead, ReadingBody
<1>2. UNCHANGED <<m_body_size, m_pkt_data, framed, registered, m_send_size, passed,
                  loopVars, unpushed, inbound, outbound, clientVars>>
  BY DEF PacketRead
<1>3. /\ m_send_datas' \in Seq(Nat) /\ m_send_datas' # << >> /\ Gone' = Gone /\ UnsentWatched'
      /\ m_send_size # 0 => Head(m_send_datas') = Head(m_send_datas)
  BY <1>1, <1>2, SendKeeps DEF loopVars
<1>4. TypeOK'
  <2>1. m_head_size' \in 0..HeadSize /\ taken' \in Nat
    BY <1>1
  <2>2. interest' \subseteq EVENT_READWRITE /\ misplaced' \in BOOLEAN
    BY <1>1 DEF Send
  <2> QED
    BY <1>1, <1>2, <1>3, <2>1, <2>2 DEF EchoInv, TypeOK, loopVars, clientVars
<1>5. Shape'
  BY <1>1, <1>2, <1>3, SMT DEF EchoInv, Shape, loopVars
<1>6. BytesAccounted'
  <2>1. ReadSoFar' = 0 /\ (framed => ReadSoFar = m_pkt_data)
    BY <1>1, SMT DEF EchoInv, Shape, ReadSoFar
  <2> QED
    BY <1>1, <1>2, <1>3, <2>1, SMT DEF EchoInv, TypeOK, BytesAccounted, clientVars
<1> QED
  BY <1>3, <1>4, <1>5, <1>6 DEF EchoInv

LEMMA WriteTakesKeeps ==
  ASSUME EchoInv, WriteTakes
  PROVE  EchoInv'
<1>1. /\ m_send_datas \in Seq(Nat) /\ m_send_datas # << >> /\ m_send_size = 0 /\ thread = "write"
      /\ m_send_size' = Head(m_send_datas)
      /\ thread' = IF m_send_size' = 0 THEN "sent" ELSE "write"
  BY DEF EchoInv, TypeOK, WriteTakes
<1>2. UNCHANGED <<epollVars, readVars, m_send_datas, passed, reported, unpushed, inbound,
                  outbound, clientVars>>
  BY DEF WriteTakes
<1>3. Head(m_send_datas) \in Nat
  BY <1>1, HeadTailProperties
<1>4. Gone' = Gone /\ ReadSoFar' = ReadSoFar
  BY <1>1, <1>2, <1>3, SMT DEF Gone, ReadSoFar, readVars
<1>5. TypeOK'
  BY <1>1, <1>2, <1>3 DEF EchoInv, TypeOK, epollVars, readVars, clientVars
<1>6. Shape' /\ BytesAccounted' /\ UnsentWatched'
  BY <1>1, <1>2, <1>3, <1>4, SMT
     DEF EchoInv, Shape, BytesAccounted, UnsentWatched, epollVars, readVars, clientVars
<1> QED
  BY <1>5, <1>6 DEF EchoInv

LEMMA WriteBytesKeeps ==
  ASSUME ConstantsFit, EchoInv, NEW k \in 1..Room, WriteBytes(k)
  PROVE  EchoInv'
<1>1. /\ k \in Nat /\ k >= 1 /\ k <= m_send_size /\ m_send_size \in Nat /\ k <= Room - outbound
      /\ outbound \in 0..Room /\ Room \in Nat /\ outbound' = outbound + k
      /\ m_send_size' = m_send_size - k /\ thread = "write"
      /\ thread' = IF m_send_size' = 0 THEN "sent" ELSE "write"
  BY Sizes, SMT DEF EchoInv, TypeOK, WriteBytes, Fits
<1>2. UNCHANGED <<epollVars, readVars, m_send_datas, passed, reported, unpushed, inbound, clientVars>>
  BY DEF WriteBytes
<1>3. /\ m_send_datas \in Seq(Nat) /\ m_send_datas # << >> /\ m_send_size <= Head(m_send_datas)
      /\ Head(m_send_datas) \in Nat
  <2>1. m_send_datas \in Seq(Nat) /\ m_send_datas # << >> /\ m_send_size <= Head(m_send_datas)
    BY <1>1 DEF EchoInv, TypeOK, Shape
  <2> QED
    BY <2>1, HeadTailProperties
<1>4. Gone' = Gone + k /\ Gone \in Nat /\ ReadSoFar' = ReadSoFar
  BY <1>1, <1>2, <1>3, SMT DEF Gone, ReadSoFar, readVars
<1>5. TypeOK'
  BY <1>1, <1>2, SMT DEF EchoInv, TypeOK, epollVars, readVars, clientVars
<1>6. Shape' /\ UnsentWatched'
  BY <1>1, <1>2, <1>3, SMT DEF EchoInv, Shape, UnsentWatched, epollVars, readVars
<1>7. BytesAccounted'
  BY <1>1, <1>2, <1>4, SMT DEF EchoInv, TypeOK, BytesAccounted, epollVars, readVars, clientVars
<1> QED
  BY <1>5, <1>6, <1>7 DEF EchoInv

LEMMA PopSentKeeps ==
  ASSUME EchoInv, PopSent
  PROVE  EchoInv'
<1>1. /\ m_send_datas \in Seq(Nat) /\ m_send_datas # << >> /\ m_send_size = 0 /\ thread = "sent"
      /\ thread' = "write" /\ m_send_datas' = Tail(m_send_datas)
      /\ passed' = passed + Head(m_send_datas) /\ passed \in Nat
  BY DEF EchoInv, TypeOK, Shape, PopSent
<1>2. UNCHANGED <<epollVars, readVars, m_send_size, reported, unpushed, inbound, outbound, clientVars>>
  BY DEF PopSent
<1>3. Head(m_send_datas) \in Nat /\ Tail(m_send_datas) \in Seq(Nat)
  BY <1>1, HeadTailProperties
<1>4. Gone = Head(m_send_datas) /\ Gone' = 0 /\ ReadSoFar' = ReadSoFar
  BY <1>1, <1>2 DEF Gone, ReadSoFar, readVars
<1>5. TypeOK'
  <2>1. passed' \in Nat
    BY <1>1, <1>3
  <2> QED
    BY <1>1, <1>2, <1>3, <2>1 DEF EchoInv, TypeOK, epollVars, readVars, clientVars
<1>6. Shape'
  BY <1>1, <1>2 DEF EchoInv, Shape, epollVars, readVars
<1>7. UnsentWatched'
  BY <1>1, <1>2 DEF EchoInv, UnsentWatched, epollVars
<1>8. BytesAccounted'
  BY <1>1, <1>2, <1>3, <1>4, SMT DEF EchoInv, TypeOK, BytesAccounted, epollVars, readVars, clientVars
<1> QED
  BY <1>5, <1>6, <1>7, <1>8 DEF EchoInv

LEMMA PushKeeps ==
  ASSUME ConstantsFit, EchoInv, NEW p \in unpushed, Push(p)
  PROVE  EchoInv'
<1>1. HeadSize + Bodies[p] \in Nat /\ Send(HeadSize + Bodies[p]) /\ registered
  <2>1. p \in 1..Len(Bodies)
    BY Sizes, SMT DEF EchoInv, TypeOK
  <2> QED
    BY <2>1, Sizes, SMT DEF Push
<1>2. unpushed' = unpushed \ {p}
      /\ UNCHANGED <<registered, readVars, m_send_size, passed, loopVars, inbound, outbound, clientVars>>
  BY DEF Push
<1>3. /\ m_send_datas' \in Seq(Nat) /\ m_send_datas' # << >> /\ Gone' = Gone /\ UnsentWatched'
      /\ m_send_size # 0 \/ thread = "sent" => Head(m_send_datas') = Head(m_send_datas)
  BY <1>1, <1>2, SendKeeps DEF loopVars
<1>4. TypeOK'
  BY <1>2, <1>3 DEF EchoInv, TypeOK, Send, Push, EVENT_READWRITE, readVars, loopVars, clientVars
<1>5. Shape'
  BY <1>2, <1>3 DEF EchoInv, Shape, readVars, loopVars
<1>6. BytesAccounted'
  <2>1. ReadSoFar' = ReadSoFar
    BY <1>2 DEF ReadSoFar, readVars
  <2> QED
    BY <1>2, <1>3, <2>1 DEF EchoInv, BytesAccounted, readVars, clientVars
<1> QED
  BY <1>3, <1>4, <1>5, <1>6 DEF EchoInv

LEMMA ClientSendsKeeps ==
  ASSUME ConstantsFit, EchoInv, NEW k \in 1..Room, ClientSends(k)
  PROVE  EchoInv'
<1>1. /\ k \in Nat /\ inbound' = inbound + k /\ put' = put + k /\ inbound' \in 0..Room
      /\ inbound \in Nat /\ put \in Nat /\ taken \in Nat
  BY Sizes, SMT DEF EchoInv, TypeOK, ClientSends
<1>2. UNCHANGED <<epollVars, readVars, sendVars, loopVars, unpushed, outbound, client, got>>
  BY DEF ClientSends
<1>3. asking' \in 1..Asked + 1 /\ written' \in Nat
  <2>1. asking \in 1..Asked + 1 /\ written \in Nat /\ asking <= Asked
        /\ \/ asking' = asking + 1 /\ written' = 0
           \/ asking' = asking /\ written' = written + k
    BY DEF EchoInv, TypeOK, ClientSends
  <2> QED
    BY <1>1, <2>1, Sizes
<1>4. TypeOK'
  <2>1. put' \in Nat
    BY <1>1
  <2> QED
    BY <1>1, <1>2, <1>3, <2>1 DEF EchoInv, TypeOK, epollVars, readVars, sendVars, loopVars
<1>5. Gone' = Gone /\ ReadSoFar' = ReadSoFar
  BY <1>2 DEF Gone, ReadSoFar, readVars, sendVars, loopVars
<1>6. ReadSoFar \in Int
  BY Sizes, SMT DEF EchoInv, TypeOK, ReadSoFar
<1>7. Shape' /\ UnsentWatched'
  BY <1>2 DEF EchoInv, Shape, UnsentWatched, epollVars, readVars, sendVars, loopVars
<1>8. BytesAccounted'
  BY <1>1, <1>2, <1>5, <1>6, SMT DEF EchoInv, BytesAccounted, epollVars, readVars, sendVars
<1> QED
  BY <1>4, <1>7, <1>8 DEF EchoInv

LEMMA ClientReceivesKeeps ==
  ASSUME ConstantsFit, EchoInv, NEW k \in 1..Room, ClientReceives(k)
  PROVE  EchoInv'
<1>1. /\ k \in Nat /\ outbound' = outbound - k /\ got' = got + k /\ outbound' \in 0..Room
      /\ outbound \in Nat /\ got \in Nat
  BY Sizes, SMT DEF EchoInv, TypeOK, ClientReceives
<1>2. UNCHANGED <<epollVars, readVars, sendVars, loopVars, unpushed, inbound, client, asking,
                  written, put>>
  BY DEF ClientReceives
<1>3. TypeOK'
  <2>1. got' \in Nat
    BY <1>1
  <2> QED
    BY <1>1, <1>2, <2>1 DEF EchoInv, TypeOK, epollVars, readVars, sendVars, loopVars
<1>4. Gone' = Gone /\ ReadSoFar' = ReadSoFar
  BY <1>2 DEF Gone, ReadSoFar, readVars, sendVars, loopVars
<1>5. Shape' /\ UnsentWatched'
  BY <1>2 DEF EchoInv, Shape, UnsentWatched, epollVars, readVars, sendVars, loopVars
<1>6. BytesAccounted'
  BY <1>1, <1>2, <1>4, SMT DEF EchoInv, BytesAccounted, epollVars, readVars, sendVars
<1> QED
  BY <1>3, <1>5, <1>6 DEF EchoInv

LEMMA ClientClosesKeeps ==
  ASSUME ConstantsFit, EchoInv, ClientCloses
  PROVE  EchoInv'
<1>1. inbound' \in 0..Room /\ outbound' \in 0..Room /\ client' = "closed"
  BY Sizes, SMT DEF EchoInv, TypeOK, ClientCloses
<1>2. UNCHANGED <<epollVars, readVars, sendVars, loopVars, unpushed, asking, written, put, got>>
  BY DEF ClientCloses
<1>3. TypeOK'
  BY <1>1, <1>2 DEF EchoInv, TypeOK, epollVars, readVars, sendVars, loopVars
<1>4. Shape' /\ UnsentWatched' /\ BytesAccounted'
  BY <1>1, <1>2 DEF EchoInv, Shape, UnsentWatched, BytesAccounted, epollVars, readVars, sendVars,
     loopVars
<1> QED
  BY <1>3, <1>4 DEF EchoInv

-----------------------------------------------------------------------------
LEMMA EchoStep ==
  ASSUME ConstantsFit, EchoInv, [Next]_evars
  PROVE  EchoInv'
<1>1. CASE EpollWait
  <2>1. reported' \subseteq EVENT_READWRITE /\ registered /\ thread = "select"
        /\ thread' \in {"read", "write"}
    BY <1>1 DEF EpollWait, EchoInv, TypeOK
  <2> QED
    BY <1>1, <2>1, ThreadKeeps DEF EpollWait
<1>2. ASSUME NEW k \in 1..inbound, ReadHead(k) PROVE EchoInv'
  BY <1>2, ReadHeadKeeps
<1>3. ASSUME NEW k \in 1..inbound, ReadBody(k) PROVE EchoInv'
  BY <1>3, ReadBodyKeeps
<1>4. CASE PacketRead
  BY <1>4, PacketReadKeeps
<1>5. CASE ReadBlocks
  <2>1. thread = "read" /\ registered /\ reported' \subseteq EVENT_READWRITE
    BY <1>5 DEF ReadBlocks, Wanting, ReadingHead, ReadingBody, EchoInv, TypeOK, Shape
  <2>2. thread' \in {"select", "write"}
    BY <1>5 DEF ReadBlocks, AfterRead
  <2> QED
    BY <1>5, <2>1, <2>2, ThreadKeeps DEF ReadBlocks
<1>6. CASE ReadFails \/ WriteFails \/ ServerEnds
  BY <1>6, UnregisterKeeps DEF ReadFails, WriteFails, ServerEnds
<1>7. CASE WriteIdle
  <2>1. TypeOK'
    BY <1>7 DEF WriteIdle, EchoInv, TypeOK, EVENT_READ, EVENT_READWRITE, readVars, sendVars,
       clientVars
  <2>2. Gone' = Gone /\ ReadSoFar' = ReadSoFar
    BY <1>7 DEF WriteIdle, Gone, ReadSoFar, readVars, sendVars
  <2> QED
    BY <1>7, <2>1, <2>2 DEF WriteIdle, EchoInv, Shape, BytesAccounted, UnsentWatched, readVars,
       sendVars, clientVars
<1>8. CASE WriteTakes
  BY <1>8, WriteTakesKeeps
<1>9. ASSUME NEW k \in 1..Room, WriteBytes(k) PROVE EchoInv'
  BY <1>9, WriteBytesKeeps
<1>10. CASE WriteBlocks
  BY <1>10, ThreadKeeps DEF WriteBlocks, EchoInv, TypeOK
<1>11. CASE PopSent
  BY <1>11, PopSentKeeps
<1>12. ASSUME NEW p \in unpushed, Push(p) PROVE EchoInv'
  BY <1>12, PushKeeps
<1>13. ASSUME NEW k \in 1..Room, ClientSends(k) PROVE EchoInv'
  BY <1>13, ClientSendsKeeps
<1>14. ASSUME NEW k \in 1..Room, ClientReceives(k) PROVE EchoInv'
  BY <1>14, ClientReceivesKeeps
<1>15. CASE ClientCloses
  BY <1>15, ClientClosesKeeps
<1>16. CASE Over \/ UNCHANGED evars
  <2>1. UNCHANGED <<epollVars, readVars, sendVars, loopVars, unpushed, inbound, outbound, clientVars>>
    BY <1>16 DEF Over, evars
  <2> QED
    BY <2>1 DEF EchoInv, TypeOK, Shape, BytesAccounted, UnsentWatched, Gone, ReadSoFar, epollVars,
       readVars, sendVars, loopVars, clientVars
<1> QED
  BY <1>1, <1>2, <1>3, <1>4, <1>5, <1>6, <1>7, <1>8, <1>9, <1>10, <1>11, <1>12, <1>13, <1>14,
     <1>15, <1>16 DEF Next, LoopStep, HandleRead, HandleWrite

(* All parts of the invariant hold in every state of a connection.         *)
THEOREM EchoAlways ==
  ASSUME ConstantsFit
  PROVE  Safety => []EchoInv
<1>1. Init => EchoInv
  BY EchoInit
<1>2. EchoInv /\ [Next]_evars => EchoInv'
  BY EchoStep
<1> QED
  BY <1>1, <1>2, PTL DEF Safety
===============================================================================
