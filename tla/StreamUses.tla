------------------------------ MODULE StreamUses ------------------------------
(***************************************************************************)
(* What goes through a Stream: a buffer (Stream) or an array of buffers    *)
(* (Iovec), one call at a time, or the packets of the example programs     *)
(* (Echo), one connection.                                                 *)
(***************************************************************************)
EXTENDS Stream

CONSTANTS Arrays, MaxBeyond, HeadSize, Bodies, Asked, Garbled, Room

VARIABLES
  use,   \* "calls" or "connection": what this Stream is used for
  vat, call, lens, iov, iovcnt, elems, vmoved, closed, vret,
  registered, interest, thread, reported, m_head_size, m_body_size,
  m_pkt_data, misplaced, framed, reading, m_send_datas, m_send_size, unpushed,
  inbound, outbound, client, asking, written, put, got, taken, passed

Vec == INSTANCE Iovec WITH at <- vat, moved <- vmoved, ret <- vret

Conn == INSTANCE Echo

vecvars == <<vat, call, lens, iov, iovcnt, elems, vmoved, closed, vret>>
connvars == <<registered, interest, thread, reported, m_head_size, m_body_size,
              m_pkt_data, misplaced, framed, reading, m_send_datas, m_send_size,
              unpushed, inbound, outbound, client, asking, written, put, got,
              taken, passed>>
allvars == <<use, svars, vecvars, connvars>>

AllInit ==
  /\ use \in {"calls", "connection"} /\ Init /\ Vec!Init /\ Conn!Init
  /\ use = "connection" => form = CHOOSE f \in Forms : TRUE

AllNext ==
  /\ UNCHANGED use
  /\ \/ use = "calls" /\ vat = "idle" /\ Next
        /\ UNCHANGED <<vecvars, connvars>>
     \/ use = "calls" /\ at = "idle" /\ Vec!Next
        /\ UNCHANGED <<svars, connvars>>
     \/ use = "connection" /\ Conn!Next /\ UNCHANGED <<svars, vecvars>>

All == AllInit /\ [][AllNext]_allvars /\ Conn!Fairness

(* The pointer forms alone, for the comments of stream.h.                  *)
PointerOnly ==
  /\ AllInit /\ use = "calls"
  /\ [][Next /\ UNCHANGED <<use, vecvars, connvars>>]_allvars

(* The properties of Iovec's calls (stream.cpp:94-140, 205-235): that no   *)
(* byte is left out or repeated over resumed calls; and that the values    *)
(* returned are true.                                                      *)
NothingSkipped == Vec!NothingSkipped
ReturnsTrue    == Vec!ReturnsTrue

(* The properties of the examples (server_example.cpp:43-126): no byte is  *)
(* sent twice or left out; nothing that is read or queued stays behind; a  *)
(* handler whose client has gone leaves its loop; and one with nothing to  *)
(* send does not wake it.                                                  *)
BytesAccounted     == Conn!BytesAccounted
NothingLeftBehind  == Conn!NothingLeftBehind
ClosedFreed        == Conn!ClosedFreed
GoesQuiet          == Conn!GoesQuiet
===============================================================================
