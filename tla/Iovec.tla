--------------------------------- MODULE Iovec ---------------------------------
(***************************************************************************)
(* xfnet::Stream: Send and Recv of an array of iovec elements, resumed by  *)
(* the caller with the iov and iovcnt that a partial result leaves.        *)
(*                                                                         *)
(* UpdateIov cuts from the array what writev or readv has moved.  When     *)
(* that is the whole array it goes on, with nothing left, to the memory    *)
(* behind it: a length of 0 found there is passed over, a positive one     *)
(* ends the walk and is written back as it was; a length that is negative  *)
(* as an ssize_t, or memory that is not mapped, is undefined behaviour.    *)
(* All that the code does with the result is test iovcnt > 0.              *)
(*                                                                         *)
(* A byte is a pair: the element of the array and the offset in its        *)
(* buffer.                                                                 *)
(***************************************************************************)
EXTENDS Integers, Sequences, SequencesExt

CONSTANTS
  Arrays,     \* the arrays callers pass: sequences of lengths
  MaxBeyond   \* bound: empty elements passed over behind the array

(* What callers pass.                                                      *)
ConstantsFit == Arrays \subseteq Seq(Nat) /\ MaxBeyond \in Nat

VARIABLES
  at,      \* "idle", "io", "returned"; "undefined": UpdateIov has met what
           \* no iovec is
  call,    \* "Send" or "Recv"
  lens,    \* the array as the caller built it
  iov,     \* index of the element that iov points to
  iovcnt,
  elems,   \* iov_base and iov_len of every element, as they are now
  moved,   \* the bytes that went through the socket
  closed,  \* the peer has closed the connection
  ret

ivars == <<at, call, lens, iov, iovcnt, elems, moved, closed, ret>>

Elements(a) == [i \in 1..Len(a) |-> [base |-> 0, len |-> a[i]]]

(* The bytes that an element describes, ...                                *)
BytesOf(e, i) == [b \in 1..e.len |-> <<i, e.base + b - 1>>]

(* ... and those that the elements from the i-th on do, in order.          *)
BytesFrom(es, i) ==
  FlattenSeq([j \in 1..Len(es) + 1 - i |-> BytesOf(es[i + j - 1], i + j - 1)])

Left == BytesFrom(elems, iov)

Init ==
  /\ at = "idle" /\ call = "Send" /\ lens = << >>
  /\ iov = 1 /\ iovcnt = 0 /\ elems = << >>
  /\ moved = << >> /\ closed = FALSE /\ ret = 1

Return(code) ==
  /\ at' = "returned" /\ ret' = code
  /\ UNCHANGED <<call, lens, iov, iovcnt, elems, moved, closed>>

Call(c, a) ==
  /\ at = "idle" /\ at' = "io"
  /\ call' = c /\ lens' = a
  /\ iov' = 1 /\ iovcnt' = Len(a) /\ elems' = Elements(a)
  /\ moved' = << >>
  /\ UNCHANGED <<closed, ret>>

(* After a partial result the caller passes the same iov and iovcnt.       *)
CallAgain ==
  /\ at = "returned" /\ ret = 0 /\ at' = "io"
  /\ UNCHANGED <<call, lens, iov, iovcnt, elems, moved, closed, ret>>

(* The caller is through with this array.                                  *)
CallerDone ==
  /\ at = "returned" /\ ret # 0 /\ at' = "idle"
  /\ call' = "Send" /\ lens' = << >> /\ elems' = << >>
  /\ iov' = 1 /\ iovcnt' = 0 /\ moved' = << >> /\ ret' = 1
  /\ UNCHANGED closed

PeerCloses ==
  /\ ~closed /\ closed' = TRUE
  /\ UNCHANGED <<at, call, lens, iov, iovcnt, elems, moved, ret>>

-----------------------------------------------------------------------------
\* Mutant of Covers: an element that is empty or just used up is kept.
CoversMore(size, len) == size > len

(* The test of UpdateIov: the element is used up.                          *)
Covers(size, len) == size >= len

(* What is left of size when the loop of UpdateIov comes to an element.    *)
LeftOver(size) ==
  LET left[i \in iov..Len(elems) + 1] ==
        IF i = iov THEN size ELSE left[i - 1] - elems[i - 1].len
  IN  left

(* Where the loop stops: at the first element that is not used up, or      *)
(* behind the array.                                                       *)
Stop(size) ==
  LET left == LeftOver(size)
      Stops(i) == i <= Len(elems) => ~Covers(left[i], elems[i].len)
  IN  CHOOSE i \in iov..Len(elems) + 1 :
        Stops(i) /\ \A j \in iov..i - 1 : ~Stops(j)

\* Mutant of CutElement: only the length of the element is changed.
CutLength(i, size) == [elems EXCEPT ![i].len = @ - size]

CutElement(i, size) ==
  [elems EXCEPT ![i] = [base |-> @.base + size, len |-> @.len - size]]

UpdateIov(size) ==
  LET stop == Stop(size)
  IN  \/ /\ stop <= Len(elems) /\ UNCHANGED at
         /\ iov' = stop
         /\ iovcnt' = iovcnt - (stop - iov)
         /\ elems' = CutElement(stop, LeftOver(size)[stop])
      \/ /\ stop > Len(elems)
         /\ \E beyond \in 0..MaxBeyond :
              /\ iov' = stop + beyond
              /\ iovcnt' = iovcnt - (iov' - iov)
         /\ at' \in {at, "undefined"}
         /\ UNCHANGED elems

(* writev or readv moves the first k bytes described; writev returns 0 when*)
(* the elements left are empty.                                            *)
Transfer(k) ==
  /\ at = "io" /\ iovcnt > 0 /\ k <= Len(Left)
  /\ k > 0 \/ (call = "Send" /\ Left = << >>)
  /\ moved' = moved \o SubSeq(Left, 1, k)
  /\ UpdateIov(k)
  /\ UNCHANGED <<call, lens, closed, ret>>

(* Nothing more is said of the process.                                    *)
Undefined == at = "undefined" /\ UNCHANGED ivars

AllMoved == at = "io" /\ iovcnt <= 0 /\ Return(1)

(* EAGAIN.                                                                 *)
WouldBlock == at = "io" /\ iovcnt > 0 /\ Left # << >> /\ Return(0)

(* Any errno but EAGAIN and EINTR.                                         *)
Fails == at = "io" /\ iovcnt > 0 /\ Return(-1)

(* readv returns 0: at the end of the stream, or for elements without room.*)
ReadsNothing ==
  /\ at = "io" /\ iovcnt > 0 /\ call = "Recv"
  /\ closed \/ Left = << >>
  /\ Return(-2)

Next ==
  \/ \E c \in {"Send", "Recv"}, a \in Arrays : Call(c, a)
  \/ CallAgain \/ CallerDone \/ PeerCloses \/ Undefined
  \/ \E k \in 0..Len(Left) : Transfer(k)
  \/ AllMoved \/ WouldBlock \/ Fails \/ ReadsNothing

Safety == Init /\ [][Next]_ivars
-----------------------------------------------------------------------------
(* Every variable has its type.  iovcnt may be negative: UpdateIov walks   *)
(* on behind the array.                                                    *)
TypeOK ==
  /\ at \in {"idle", "io", "returned", "undefined"}
  /\ call \in {"Send", "Recv"}
  /\ lens \in Arrays \cup {<< >>}
  /\ iov \in 1..Len(lens) + 1 + MaxBeyond
  /\ iovcnt = Len(lens) + 1 - iov
  /\ Len(elems) = Len(lens)
  /\ \A i \in 1..Len(elems) : elems[i].base \in Nat /\ elems[i].len \in Nat
  /\ closed \in BOOLEAN
  /\ ret \in {-2, -1, 0, 1}

AllBytes == BytesFrom(Elements(lens), 1)

(* What has gone through the socket, followed by what iov and iovcnt       *)
(* describe, is the array as the caller built it: resuming a call leaves   *)
(* no byte out and repeats none, in whatever pieces the socket takes them  *)
(* (UpdateIov, stream.cpp:94-112).                                         *)
NothingSkipped == moved \o Left = AllBytes

(* The return values mean what stream.h:91 and 97 say: 1 that everything   *)
(* has been moved, 0 that there is something left to move; and -2, of a    *)
(* Recv that had room, that the peer has closed: the last elements, when   *)
(* empty, are skipped with the bytes before them and never passed to readv *)
(* on their own.                                                           *)
ReturnsTrue ==
  at = "returned" => /\ ret = 1 => moved = AllBytes
                     /\ ret = 0 => moved # AllBytes
                     /\ ret = -2 /\ AllBytes # << >> => closed
=============================================================================
