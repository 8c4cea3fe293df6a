-------------------------------- MODULE Stream --------------------------------
(***************************************************************************)
(* xfnet::Stream: the Send and Recv calls on a non-blocking socket that    *)
(* take a pointer and a size, in two forms.  The pointer form stops when   *)
(* the socket would block and leaves in data and size what the caller is   *)
(* to pass again; the timed form waits in SocketUtil::Select instead.      *)
(* (The iovec form is in module Iovec.)                                    *)
(*                                                                         *)
(* A byte is its offset in the caller's buffer: moved[i] is the offset of  *)
(* the byte that was the i-th one to go through the socket.                *)
(***************************************************************************)
EXTENDS Integers, Sequences

CONSTANTS
  Forms,    \* the overloads in use
  MaxSize   \* bound: size of the caller's buffer

PointerForms == {"Send", "Recv"}
TimedForms   == {"SendFor", "RecvFor"}
RecvForms    == {"Recv", "RecvFor"}

ASSUME StreamAssumption == /\ Forms \subseteq PointerForms \cup TimedForms
                           /\ MaxSize \in Nat

VARIABLES
  at,      \* "idle", "io" (before a system call), "poll", "returned"
  form,    \* the overload called
  data,    \* offset the pointer argument points to
  size,    \* what is left to move
  moved,   \* offsets of the bytes moved so far
  wanted,  \* size of the buffer
  ret      \* value returned last

svars == <<at, form, data, size, moved, wanted, ret>>

Init ==
  /\ at = "idle" /\ form \in Forms
  /\ data = 0 /\ size = 0 /\ moved = << >> /\ wanted = 0 /\ ret = 1

Return(code) ==
  /\ at' = "returned"
  /\ ret' = code
  /\ UNCHANGED <<form, data, size, moved, wanted>>

(* The caller sends or receives a whole buffer.                            *)
Call(f, n) ==
  /\ at = "idle"
  /\ at' = "io"
  /\ form' = f
  /\ data' = 0 /\ size' = n /\ wanted' = n
  /\ moved' = << >>
  /\ UNCHANGED ret

(* The socket is ready again (an event of the loop): after a partial result*)
(* the caller passes the same data and size.                               *)
CallAgain ==
  /\ at = "returned" /\ ret = 0 /\ form \in PointerForms
  /\ at' = "io"
  /\ UNCHANGED <<form, data, size, moved, wanted, ret>>

(* The caller is through with this buffer.                                 *)
CallerDone ==
  /\ at = "returned"
  /\ ret # 0 \/ form \in TimedForms
  /\ at' = "idle"
  /\ data' = 0 /\ size' = 0 /\ wanted' = 0 /\ moved' = << >> /\ ret' = 1
  /\ UNCHANGED form

-----------------------------------------------------------------------------
\* Mutant of Advance: the timed form forgets to move the pointer.
AdvanceNothing(k) == /\ size' = size - k
                     /\ data' = data

(* What write or read having moved k bytes does to the arguments.  The     *)
(* pointer form adds the size that is left, not the size that was moved.   *)
Advance(k) == /\ size' = size - k
              /\ data' = IF form \in PointerForms THEN data + size' ELSE data + k

(* write or read moves some of the bytes.                                  *)
Transfer(k) ==
  /\ at = "io" /\ k \in 1..size
  /\ moved' = moved \o [i \in 1..k |-> data + i - 1]
  /\ Advance(k)
  /\ UNCHANGED <<at, form, wanted, ret>>

\* Mutant of AllMoved: a short write ends the call as a full one.
AnyMoved == at = "io" /\ (size <= 0 \/ moved # << >>) /\ Return(1)

AllMoved == at = "io" /\ size <= 0 /\ Return(1)

(* EAGAIN.                                                                 *)
WouldBlock ==
  /\ at = "io" /\ size > 0
  /\ \/ form \in PointerForms /\ Return(0)
     \/ /\ form \in TimedForms
        /\ at' = "poll"
        /\ UNCHANGED <<form, data, size, moved, wanted, ret>>

(* Any other errno but EINTR, which only repeats the call.                 *)
Fails == at = "io" /\ size > 0 /\ Return(-1)

(* read returns 0.                                                         *)
PeerClosed == at = "io" /\ size > 0 /\ form \in RecvForms /\ Return(-2)

(* SocketUtil::Select: an event, a timeout, or an error, of which          *)
(* ECONNRESET is told apart.  EINTR waits again, with the whole timeout.   *)
Select ==
  /\ at = "poll"
  /\ \/ /\ at' = "io"
        /\ UNCHANGED <<form, data, size, moved, wanted, ret>>
     \/ \E code \in {0, -1, -2} : Return(code)

Next ==
  \/ \E f \in Forms, n \in 0..MaxSize : Call(f, n)
  \/ CallAgain \/ CallerDone
  \/ \E k \in 1..MaxSize : Transfer(k)
  \/ AllMoved \/ WouldBlock \/ Fails \/ PeerClosed \/ Select

Safety == Init /\ [][Next]_svars
-----------------------------------------------------------------------------
(* Every variable has its type.                                            *)
TypeOK ==
  /\ at \in {"idle", "io", "poll", "returned"}
  /\ form \in Forms
  /\ data \in Nat
  /\ size \in 0..MaxSize
  /\ moved \in Seq(Nat)
  /\ wanted \in 0..MaxSize
  /\ ret \in {-2, -1, 0, 1}

(* The bytes of the buffer went through the socket in order, none twice,   *)
(* none left out, none from outside the buffer.                            *)
InOrder == /\ Len(moved) <= wanted
           /\ \A i \in 1..Len(moved) : moved[i] = i - 1

(* The promise of the timed forms (stream.cpp:142-169, 237-269).           *)
TimedInOrder == form \in TimedForms => InOrder

(* A return of 1 means that as many bytes as asked for have been moved, a  *)
(* return of 0 of the pointer form that size is what is missing: however   *)
(* often the socket blocks, no call is reported complete too early.        *)
ResultsTrue ==
  at = "returned" =>
    /\ ret = 1 => Len(moved) = wanted
    /\ ret = 0 /\ form \in PointerForms => size = wanted - Len(moved) /\ size > 0
=============================================================================
