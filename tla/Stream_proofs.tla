----------------------------- MODULE Stream_proofs -----------------------------
(***************************************************************************)
(* What Stream's calls promise for buffers of every size, and for arrays   *)
(* of any number of them, however often the socket blocks and however      *)
(* short its writes and reads are.                                         *)
(***************************************************************************)
EXTENDS StreamUses, SequenceLemmas

(* What has gone through the socket and what is left make up the buffer;   *)
(* in the timed forms data points behind the bytes that went.              *)
Counted == Len(moved) + size = wanted

TimedPointer == form \in TimedForms => /\ data = Len(moved)
                                       /\ \A i \in 1..Len(moved) : moved[i] = i - 1

ResultInv == /\ at = "returned" => /\ ret = 1 => size = 0
                                   /\ ret = 0 /\ form \in PointerForms => size > 0
             /\ at = "poll" => form \in TimedForms

Inv == TypeOK /\ Counted /\ TimedPointer /\ ResultInv

LEMMA InitInv == Init => Inv
  BY StreamAssumption, SMT DEF Init, Inv, TypeOK, Counted, TimedPointer, ResultInv,
     PointerForms, TimedForms

(* A transfer appends k offsets and takes k from what is left.             *)
LEMMA TransferInv ==
  ASSUME Inv, NEW k \in 1..MaxSize, Transfer(k)
  PROVE  Inv'
<1> DEFINE chunk == [i \in 1..k |-> data + i - 1]
<1>1. /\ k \in Nat /\ k >= 1 /\ k <= size /\ size \in Nat /\ wanted \in Nat
      /\ data \in Nat /\ at = "io"
  BY StreamAssumption, SMT DEF Transfer, Inv, TypeOK
<1>2. chunk \in Seq(Nat) /\ Len(chunk) = k
  <2>1. \A i \in 1..k : data + i - 1 \in Nat
    BY <1>1, SMT
  <2> QED  BY <1>1, <2>1, SMT
<1>3. moved \in Seq(Nat) /\ Len(moved) \in Nat
  BY SMT DEF Inv, TypeOK
<1>4. moved' = moved \o chunk
  BY SMT DEF Transfer
<1>5. /\ moved' \in Seq(Nat)
      /\ Len(moved') = Len(moved) + k
      /\ \A i \in 1..Len(moved) : moved'[i] = moved[i]
      /\ \A i \in Len(moved)+1 .. Len(moved)+k : moved'[i] = data + (i - Len(moved)) - 1
  BY <1>1, <1>2, <1>3, <1>4, SMT
<1>6. size' = size - k /\ form' = form /\ at' = at /\ wanted' = wanted /\ ret' = ret
  BY SMT DEF Transfer, Advance
<1>7. size' \in 0..MaxSize
  BY <1>1, <1>6, StreamAssumption, SMT DEF Inv, TypeOK
<1>8. data' \in Nat /\ (form \in TimedForms => data' = data + k)
  BY <1>1, <1>6, <1>7, StreamAssumption, SMT DEF Transfer, Advance, PointerForms, TimedForms
<1>9. TypeOK'
  BY <1>5, <1>6, <1>7, <1>8, SMT DEF Inv, TypeOK
<1>10. Counted'
  <2>1. Len(moved) + size = wanted
    BY DEF Inv, Counted
  <2>2. Len(moved') = Len(moved) + k
    BY <1>5
  <2>3. (Len(moved) + k) + (size - k) = wanted
    BY <1>1, <1>3, <2>1, SMT
  <2> QED  BY <1>6, <2>2, <2>3 DEF Counted
<1>11. TimedPointer'
  <2> SUFFICES ASSUME form \in TimedForms
               PROVE  /\ data' = Len(moved')
                      /\ \A i \in 1..Len(moved') : moved'[i] = i - 1
    BY <1>6 DEF TimedPointer
  <2>1. data = Len(moved) /\ \A i \in 1..Len(moved) : moved[i] = i - 1
    BY DEF Inv, TimedPointer
  <2>2. data' = Len(moved')
    BY <1>1, <1>3, <1>5, <1>8, <2>1, SMT
  <2>3. ASSUME NEW i \in 1..Len(moved') PROVE moved'[i] = i - 1
    <3>1. i \in 1..Len(moved) \/ i \in Len(moved)+1 .. Len(moved)+k
      BY <1>1, <1>3, <1>5, SMT
    <3>2. CASE i \in 1..Len(moved)
      BY <1>5, <2>1, <3>2
    <3>3. CASE i \in Len(moved)+1 .. Len(moved)+k
      <4>1. moved'[i] = data + (i - Len(moved)) - 1
        BY <1>5, <3>3
      <4> QED  BY <1>1, <1>3, <2>1, <3>3, <4>1, SMT
    <3> QED  BY <3>1, <3>2, <3>3
  <2> QED  BY <2>2, <2>3
<1>12. ResultInv'
  BY <1>1, <1>6 DEF ResultInv
<1> QED  BY <1>9, <1>10, <1>11, <1>12 DEF Inv

LEMMA NextInv == Inv /\ [Next]_svars => Inv'
<1> SUFFICES ASSUME Inv, [Next]_svars PROVE Inv'
  OBVIOUS
<1> USE StreamAssumption
<1>1. ASSUME NEW f \in Forms, NEW n \in 0..MaxSize, Call(f, n) PROVE Inv'
  BY <1>1, SMT DEF Inv, TypeOK, Counted, TimedPointer, ResultInv, Call, PointerForms, TimedForms
<1>2. ASSUME NEW k \in 1..MaxSize, Transfer(k) PROVE Inv'
  BY <1>2, TransferInv
<1>3. CASE CallAgain
  BY <1>3, SMT DEF Inv, TypeOK, Counted, TimedPointer, ResultInv, CallAgain
<1>9. CASE CallerDone
  BY <1>9, SMT DEF Inv, TypeOK, Counted, TimedPointer, ResultInv, CallerDone
<1>4. CASE AllMoved
  BY <1>4, SMT DEF Inv, TypeOK, Counted, TimedPointer, ResultInv, AllMoved, Return
<1>5. CASE WouldBlock
  BY <1>5, SMT DEF Inv, TypeOK, Counted, TimedPointer, ResultInv, WouldBlock, Return,
     PointerForms, TimedForms
<1>6. CASE Fails \/ PeerClosed
  BY <1>6, SMT DEF Inv, TypeOK, Counted, TimedPointer, ResultInv, Fails, PeerClosed, Return
<1>7. CASE Select
  <2>1. form \in TimedForms
    BY <1>7 DEF Select, Inv, ResultInv
  <2>2. form \notin PointerForms
    BY <2>1 DEF PointerForms, TimedForms
  <2>3. CASE UNCHANGED <<form, data, size, moved, wanted, ret>> /\ at' = "io"
    BY <2>3, SMT DEF Inv, TypeOK, Counted, TimedPointer, ResultInv
  <2>4. ASSUME NEW code \in {0, -1, -2}, Return(code) PROVE Inv'
    <3>1. TypeOK'
      BY <2>4, SMT DEF Inv, TypeOK, Return
    <3>2. Counted' /\ TimedPointer'
      BY <2>4 DEF Inv, Counted, TimedPointer, Return
    <3>3. code # 1
      BY <2>4, SMT
    <3>4. ResultInv'
      BY <2>1, <2>2, <2>4, <3>3 DEF ResultInv, Return
    <3> QED  BY <3>1, <3>2, <3>4 DEF Inv
  <2> QED  BY <1>7, <2>3, <2>4 DEF Select
<1>8. CASE UNCHANGED svars
  BY <1>8, SMT DEF Inv, TypeOK, Counted, TimedPointer, ResultInv, svars
<1> QED  BY <1>1, <1>2, <1>3, <1>4, <1>5, <1>6, <1>7, <1>8, <1>9 DEF Next

THEOREM Invariance == Safety => []Inv
  BY InitInv, NextInv, PTL DEF Safety

-----------------------------------------------------------------------------
(* Every variable of a call keeps its type; in particular the size that is *)
(* left never becomes negative.                                            *)
THEOREM TypeCorrect == Safety => []TypeOK
<1>1. Inv => TypeOK
  BY DEF Inv
<1> QED  BY Invariance, <1>1, PTL

(* The timed Send and Recv move the bytes of the buffer in order, none     *)
(* twice and none left out (stream.cpp:142-169, 237-269).                  *)
THEOREM TimedFormsKeepOrder == Safety => []TimedInOrder
<1>1. Inv => TimedInOrder
  <2> SUFFICES ASSUME Inv, form \in TimedForms PROVE Len(moved) <= wanted
    BY DEF TimedInOrder, InOrder, Inv, TimedPointer
  <2>1. size \in Nat /\ Len(moved) \in Nat /\ Len(moved) + size = wanted
    BY StreamAssumption, SMT DEF Inv, TypeOK, Counted
  <2> QED  BY <2>1, SMT
<1> QED  BY Invariance, <1>1, PTL

(* No form of Send or Recv reports a complete transfer before as many bytes*)
(* as asked for have moved, and after a partial one size is what is        *)
(* missing (stream.cpp:67-91, 174-202).                                    *)
THEOREM ReturnsAreTrue == Safety => []ResultsTrue
<1>1. Inv => ResultsTrue
  <2> SUFFICES ASSUME Inv, at = "returned"
               PROVE  /\ ret = 1 => Len(moved) = wanted
                      /\ ret = 0 /\ form \in PointerForms =>
                           size = wanted - Len(moved) /\ size > 0
    BY DEF ResultsTrue
  <2>1. size \in Nat /\ Len(moved) \in Nat /\ Len(moved) + size = wanted
    BY StreamAssumption, SMT DEF Inv, TypeOK, Counted
  <2>2. (ret = 1 => size = 0) /\ (ret = 0 /\ form \in PointerForms => size > 0)
    BY DEF Inv, ResultInv
  <2> QED  BY <2>1, <2>2, SMT
<1> QED  BY Invariance, <1>1, PTL

-----------------------------------------------------------------------------
(* Arrays of buffers.                                                      *)

Byte    == Nat \X Nat
Element == [base : Nat, len : Nat]

LEMMA ElementType ==
  ASSUME NEW es \in Seq(Element), NEW i \in 1..Len(es)
  PROVE  es[i] \in Element /\ es[i].base \in Nat /\ es[i].len \in Nat
<1>1. es[i] \in Element
  BY ElementOfSeq
<1> QED
  BY <1>1 DEF Element

LEMMA BytesOfType ==
  ASSUME NEW e \in Element, NEW i \in Nat
  PROVE  /\ Vec!BytesOf(e, i) \in Seq(Byte) /\ Len(Vec!BytesOf(e, i)) = e.len
         /\ \A b \in 1..e.len : Vec!BytesOf(e, i)[b] = <<i, e.base + b - 1>>
<1>1. e.len \in Nat /\ e.base \in Nat
  BY DEF Element
<1>2. \A b \in 1..e.len : <<i, e.base + b - 1>> \in Byte
  BY <1>1 DEF Byte
<1>3. Vec!BytesOf(e, i) \in [1..e.len -> Byte]
  BY <1>2 DEF Vec!BytesOf
<1>4. \A b \in 1..e.len : Vec!BytesOf(e, i)[b] = <<i, e.base + b - 1>>
  BY DEF Vec!BytesOf
<1>5. Vec!BytesOf(e, i) \in Seq(Byte) /\ Len(Vec!BytesOf(e, i)) = e.len
  <2> HIDE DEF Byte
  <2> QED
    BY <1>1, <1>3, FunctionIsSeq
<1> QED
  BY <1>4, <1>5

(* The sequence that BytesFrom flattens.                                   *)
Parts(es, i) == [j \in 1..Len(es) + 1 - i |-> Vec!BytesOf(es[i + j - 1], i + j - 1)]

LEMMA PartsType ==
  ASSUME NEW es \in Seq(Element), NEW i \in 1..Len(es) + 1
  PROVE  Parts(es, i) \in Seq(Seq(Byte)) /\ Len(Parts(es, i)) = Len(es) + 1 - i
<1>1. Len(es) \in Nat /\ Len(es) + 1 - i \in Nat
  BY SMT
<1>2. ASSUME NEW j \in 1..Len(es) + 1 - i
      PROVE  Vec!BytesOf(es[i + j - 1], i + j - 1) \in Seq(Byte)
  <2>1. i + j - 1 \in 1..Len(es) /\ i + j - 1 \in Nat
    BY <1>1
  <2>2. es[i + j - 1] \in Element
    BY <2>1, ElementOfSeq
  <2> QED
    BY <2>1, <2>2, BytesOfType
<1>3. Parts(es, i) \in [1..Len(es) + 1 - i -> Seq(Byte)]
  BY <1>2 DEF Parts
<1> QED
  <2> DEFINE n == Len(es) + 1 - i
             f == Parts(es, i)
  <2>1. n \in Nat /\ f \in [1..n -> Seq(Byte)]
    BY <1>1, <1>3
  <2> HIDE DEF n, f
  <2>2. f \in Seq(Seq(Byte)) /\ Len(f) = n
    BY <2>1, FunctionIsSeq
  <2> QED
    BY <2>2 DEF n, f

LEMMA BytesFlatten ==
  ASSUME NEW es, NEW i
  PROVE  Vec!BytesFrom(es, i) = FlattenSeq(Parts(es, i))
BY DEF Vec!BytesFrom, Parts, Vec!FlattenSeq, FlattenSeq

LEMMA BytesFromType ==
  ASSUME NEW es \in Seq(Element), NEW i \in 1..Len(es) + 1
  PROVE  Vec!BytesFrom(es, i) \in Seq(Byte)
BY PartsType, FlattenType, BytesFlatten

LEMMA BytesEnd ==
  ASSUME NEW es \in Seq(Element), NEW i \in Nat, i > Len(es)
  PROVE  Vec!BytesFrom(es, i) = << >>
<1>1. 1..Len(es) + 1 - i = {}
  BY SMT
<1>2. Parts(es, i) = << >>
  BY <1>1 DEF Parts
<1> QED
  BY <1>2, FlattenEmpty, BytesFlatten

(* The bytes from an element on are its own and those behind it.           *)
LEMMA BytesStep ==
  ASSUME NEW es \in Seq(Element), NEW i \in 1..Len(es)
  PROVE  Vec!BytesFrom(es, i) = Vec!BytesOf(es[i], i) \o Vec!BytesFrom(es, i + 1)
<1> DEFINE p == Parts(es, i)
           r == Parts(es, i + 1)
<1>0. Len(es) \in Nat /\ i \in 1..Len(es) + 1 /\ i + 1 \in 1..Len(es) + 1 /\ es[i] \in Element
  BY SMT
<1>1. p \in Seq(Seq(Byte)) /\ Len(p) = Len(es) + 1 - i
  BY <1>0, PartsType
<1>2. r \in Seq(Seq(Byte)) /\ Len(r) = Len(es) + 1 - (i + 1)
  BY <1>0, PartsType
<1>3. p # << >> /\ Tail(p) \in Seq(Seq(Byte)) /\ Head(p) = p[1] /\ Len(Tail(p)) = Len(p) - 1
      /\ \A j \in 1..Len(Tail(p)) : Tail(p)[j] = p[j + 1]
  <2>1. p # << >>
    BY <1>1, SMT
  <2> HIDE DEF p
  <2> QED
    BY <1>1, <2>1, HeadTailProperties
<1>4. p[1] = Vec!BytesOf(es[i], i)
  BY SMT DEF Parts
<1>5. Tail(p) = r
  <2>1. Len(Tail(p)) = Len(r)
    BY <1>1, <1>2, <1>3, SMT
  <2>2. ASSUME NEW j \in 1..Len(r) PROVE Tail(p)[j] = r[j]
    <3>1. j + 1 \in 1..Len(es) + 1 - i /\ j \in 1..Len(es) + 1 - (i + 1)
          /\ i + (j + 1) - 1 = (i + 1) + j - 1
      BY <1>2, SMT
    <3>2. Tail(p)[j] = p[j + 1]
      BY <1>3, <2>1
    <3> QED
      BY <3>1, <3>2 DEF Parts
  <2> HIDE DEF p, r
  <2> QED
    BY <1>2, <1>3, <2>1, <2>2, SeqEqual
<1>6. FlattenSeq(p) = Head(p) \o FlattenSeq(Tail(p))
  <2> HIDE DEF p
  <2> QED
    BY <1>1, <1>3, FlattenHead
<1>7. FlattenSeq(p) = Vec!BytesOf(es[i], i) \o FlattenSeq(r)
  <2> HIDE DEF p, r
  <2> QED
    BY <1>3, <1>4, <1>5, <1>6
<1> QED
  BY <1>7, BytesFlatten

(* They depend on nothing in front of it.                                  *)
LEMMA BytesLocal ==
  ASSUME NEW es \in Seq(Element), NEW fs \in Seq(Element), Len(fs) = Len(es),
         NEW i \in 1..Len(es) + 1, \A j \in i..Len(es) : fs[j] = es[j]
  PROVE  Vec!BytesFrom(fs, i) = Vec!BytesFrom(es, i)
<1>1. ASSUME NEW j \in 1..Len(es) + 1 - i
      PROVE  Vec!BytesOf(fs[i + j - 1], i + j - 1) = Vec!BytesOf(es[i + j - 1], i + j - 1)
  <2>1. i + j - 1 \in i..Len(es)
    BY SMT
  <2> QED
    BY <2>1
<1>2. Parts(fs, i) = Parts(es, i)
  BY <1>1 DEF Parts
<1> QED
  BY <1>2, BytesFlatten

-----------------------------------------------------------------------------
(* What the loop of UpdateIov does with size, element by element.  Behind  *)
(* a name: what the recursive function is, and what it says.               *)
LeftFrom(left, count, es, i) ==
  left = [j \in i..Len(es) + 1 |-> IF j = i THEN count ELSE left[j - 1] - es[j - 1].len]

LEMMA LeftExists ==
  ASSUME NEW es \in Seq(Element), NEW i \in 1..Len(es) + 1, NEW count \in Nat
  PROVE  \E left : LeftFrom(left, count, es, i)
<1> DEFINE n == Len(es)
           Upto(f, k) == f = [j \in i..i + k |-> IF j = i THEN count ELSE f[j - 1] - es[j - 1].len]
           S == {k \in Nat : \E f : Upto(f, k)}
<1>0. n \in Nat /\ i \in Nat /\ n + 1 - i \in Nat /\ i + (n + 1 - i) = n + 1
  BY SMT
<1>1. 0 \in S
  <2> DEFINE f == [j \in i..i |-> count]
  <2>1. \A j \in i..i : j = i
    BY <1>0, SMT
  <2>2. f = [j \in i..i |-> IF j = i THEN count ELSE f[j - 1] - es[j - 1].len]
    BY <2>1
  <2>3. i + 0 = i
    BY <1>0
  <2>4. Upto(f, 0)
    BY <2>2, <2>3
  <2> QED
    BY <2>4
<1>2. ASSUME NEW k \in 0..(n + 1 - i) - 1, k \in S PROVE k + 1 \in S
  <2>1. PICK f : Upto(f, k)
    BY <1>2
  <2> DEFINE g == [j \in i..i + (k + 1) |->
                     IF j = i + (k + 1) THEN f[i + k] - es[i + k].len ELSE f[j]]
  <2>2. ASSUME NEW j \in i..i + (k + 1)
        PROVE  g[j] = IF j = i THEN count ELSE g[j - 1] - es[j - 1].len
    <3>1. CASE j = i
      <4>1. i \in i..i + k /\ i # i + (k + 1)
        BY <1>0, SMT
      <4> QED
        BY <2>1, <3>1, <4>1
    <3>2. CASE j = i + (k + 1)
      <4>1. j # i /\ j - 1 = i + k /\ i + k \in i..i + (k + 1) /\ i + k # i + (k + 1)
        BY <1>0, <3>2, SMT
      <4>2. g[i + k] = f[i + k]
        BY <4>1
      <4> QED
        BY <3>2, <4>1, <4>2
    <3>3. CASE j # i /\ j # i + (k + 1)
      <4>1. j \in i..i + k /\ j - 1 \in i..i + (k + 1) /\ j - 1 # i + (k + 1)
        BY <1>0, <3>3, SMT
      <4>2. f[j] = f[j - 1] - es[j - 1].len
        BY <2>1, <3>3, <4>1
      <4> QED
        BY <3>3, <4>1, <4>2
    <3> QED
      BY <3>1, <3>2, <3>3
  <2>3. Upto(g, k + 1)
    BY <2>2, Zenon
  <2>4. k + 1 \in Nat
    BY SMT
  <2> QED
    BY <2>3, <2>4
<1>3. n + 1 - i \in S
  <2> HIDE DEF S
  <2>1. \A k \in 0..n + 1 - i : k \in S
    BY <1>0, <1>1, <1>2, UpTo
  <2> QED
    BY <1>0, <2>1
<1>4. PICK f : Upto(f, n + 1 - i)
  BY <1>3
<1> QED
  BY <1>0, <1>4 DEF LeftFrom

LEMMA LeftOverIs ==
  ASSUME NEW count \in Nat, elems \in Seq(Element), iov \in 1..Len(elems) + 1
  PROVE  /\ Vec!LeftOver(count)[iov] = count
         /\ \A j \in iov..Len(elems) : Vec!LeftOver(count)[j + 1] = Vec!LeftOver(count)[j] - elems[j].len
<1>1. LeftFrom(Vec!LeftOver(count), count, elems, iov)
  <2>1. \E left : LeftFrom(left, count, elems, iov)
    BY LeftExists
  <2> QED
    BY <2>1 DEF Vec!LeftOver, LeftFrom
<1>2. iov \in iov..Len(elems) + 1
  BY SMT
<1>3. Vec!LeftOver(count)[iov] = count
  BY <1>1, <1>2, Zenon DEF LeftFrom
<1>4. ASSUME NEW j \in iov..Len(elems)
      PROVE  Vec!LeftOver(count)[j + 1] = Vec!LeftOver(count)[j] - elems[j].len
  <2>1. j + 1 \in iov..Len(elems) + 1 /\ j + 1 # iov /\ (j + 1) - 1 = j
    BY SMT
  <2>2. Vec!LeftOver(count)[j + 1] = Vec!LeftOver(count)[(j + 1) - 1] - elems[(j + 1) - 1].len
    BY <1>1, <2>1, Zenon DEF LeftFrom
  <2> QED
    BY <2>1, <2>2
<1> QED
  BY <1>3, <1>4

(* Where the loop stops.                                                   *)
StopsAt(count, i) == i <= Len(elems) => ~Vec!Covers(Vec!LeftOver(count)[i], elems[i].len)

LEMMA StopIs ==
  ASSUME NEW count, elems \in Seq(Element), iov \in 1..Len(elems) + 1
  PROVE  /\ Vec!Stop(count) \in iov..Len(elems) + 1 /\ StopsAt(count, Vec!Stop(count))
         /\ \A j \in iov..Vec!Stop(count) - 1 : ~StopsAt(count, j)
<1> DEFINE T == {i \in iov..Len(elems) + 1 : StopsAt(count, i)}
<1>0. Len(elems) \in Nat /\ iov \in Nat
  BY SMT
<1>1. Len(elems) + 1 \in T /\ T \in SUBSET Nat
  BY <1>0, SMT DEF StopsAt
<1>2. PICK i \in T : \A j \in T : i <= j
  <2> HIDE DEF T
  <2> QED
    BY <1>1, LeastNumber
<1>3. \A j \in iov..i - 1 : ~StopsAt(count, j)
  <2>1. ASSUME NEW j \in iov..i - 1 PROVE j \in iov..Len(elems) + 1 /\ ~(i <= j)
    BY <1>0, SMT
  <2> QED
    BY <1>2, <2>1
<1> QED
  BY <1>2, <1>3 DEF Vec!Stop, StopsAt

(* Before every element it comes to, the loop has counted off the bytes in *)
(* front of it: what is left of size falls into the bytes from there on.   *)
Rest(j, by) == SubSeq(Vec!BytesFrom(elems, j), by + 1, Len(Vec!BytesFrom(elems, j)))

Walked(count, j) ==
  /\ Vec!LeftOver(count)[j] \in 0..Len(Vec!BytesFrom(elems, j))
  /\ Rest(iov, count) = Rest(j, Vec!LeftOver(count)[j])

LEMMA WalkStep ==
  ASSUME elems \in Seq(Element), NEW j \in 1..Len(elems), NEW by \in Nat,
         by <= Len(Vec!BytesFrom(elems, j)), elems[j].len <= by
  PROVE  /\ by - elems[j].len \in 0..Len(Vec!BytesFrom(elems, j + 1))
         /\ Rest(j, by) = Rest(j + 1, by - elems[j].len)
<1> DEFINE s == Vec!BytesOf(elems[j], j)
           t == Vec!BytesFrom(elems, j + 1)
           l == elems[j].len
<1>0. Len(elems) \in Nat /\ j \in Nat /\ j + 1 \in 1..Len(elems) + 1
  BY SMT
<1>1. elems[j] \in Element
  BY ElementOfSeq
<1>2. s \in Seq(Byte) /\ Len(s) = l /\ l \in Nat
  BY <1>0, <1>1, BytesOfType DEF Element
<1>3. t \in Seq(Byte)
  BY <1>0, BytesFromType
<1>4. Vec!BytesFrom(elems, j) = s \o t
  BY BytesStep
<1> HIDE DEF s, t, l
<1>5. Len(s \o t) = l + Len(t) /\ Len(t) \in Nat
  BY <1>2, <1>3, ConcatLen
<1>6. by - l \in 0..Len(t) /\ by + 1 = l + (by - l) + 1
  BY <1>2, <1>4, <1>5 DEF l
<1>7. SubSeq(s \o t, l + (by - l) + 1, l + Len(t)) = SubSeq(t, (by - l) + 1, Len(t))
  BY <1>2, <1>3, <1>6, CutSecond
<1> QED
  BY <1>4, <1>5, <1>6, <1>7 DEF Rest, t, l

LEMMA Walk ==
  ASSUME elems \in Seq(Element), iov \in 1..Len(elems) + 1, NEW count \in 0..Len(Vec!Left)
  PROVE  Walked(count, Vec!Stop(count))
<1> DEFINE stop == Vec!Stop(count)
           L == Vec!LeftOver(count)
           S == {k \in Nat : Walked(count, iov + k)}
<1>0. Len(elems) \in Nat /\ iov \in Nat /\ count \in Nat
  <2>1. Vec!Left \in Seq(Byte)
    BY BytesFromType DEF Vec!Left
  <2> QED
    BY <2>1, SMT
<1>1. L[iov] = count /\ \A j \in iov..Len(elems) : L[j + 1] = L[j] - elems[j].len
  BY <1>0, LeftOverIs
<1>2. stop \in iov..Len(elems) + 1 /\ \A j \in iov..stop - 1 : ~StopsAt(count, j)
  BY StopIs
<1> HIDE DEF stop, L
<1>3. 0 \in S
  <2>1. iov + 0 = iov
    BY <1>0
  <2> QED
    BY <1>1, <2>1 DEF Walked, Vec!Left, L
<1>4. ASSUME NEW k \in 0..(stop - iov) - 1, k \in S PROVE k + 1 \in S
  <2> DEFINE j == iov + k
  <2>1. /\ j \in iov..stop - 1 /\ j \in 1..Len(elems) /\ j \in iov..Len(elems)
        /\ j <= Len(elems) /\ k + 1 \in Nat /\ iov + (k + 1) = j + 1
    BY <1>0, <1>2
  <2>2. Walked(count, j)
    BY <1>4
  <2> HIDE DEF j
  <2>3. L[j] \in Nat /\ L[j] <= Len(Vec!BytesFrom(elems, j)) /\ Rest(iov, count) = Rest(j, L[j])
    <3>1. j \in 1..Len(elems) + 1
      BY <1>0, <2>1
    <3>2. Vec!BytesFrom(elems, j) \in Seq(Byte)
      BY <3>1, BytesFromType
    <3> QED
      BY <2>2, <3>2 DEF Walked, L
  <2>4. elems[j].len <= L[j]
    <3>1. elems[j].len \in Nat
      BY <2>1, ElementType
    <3> QED
      BY <1>2, <2>1, <2>3, <3>1 DEF StopsAt, Vec!Covers, L
  <2>5. L[j + 1] = L[j] - elems[j].len
    BY <1>1, <2>1
  <2>6. L[j + 1] \in 0..Len(Vec!BytesFrom(elems, j + 1)) /\ Rest(j, L[j]) = Rest(j + 1, L[j + 1])
    BY <2>1, <2>3, <2>4, <2>5, WalkStep
  <2>7. Walked(count, iov + (k + 1))
    BY <2>1, <2>3, <2>6 DEF Walked, L
  <2> QED
    BY <2>1, <2>7
<1>5. stop - iov \in Nat /\ iov + (stop - iov) = stop
  BY <1>0, <1>2
<1>6. stop - iov \in S
  <2> HIDE DEF S
  <2>1. \A k \in 0..stop - iov : k \in S
    BY <1>3, <1>4, <1>5, UpTo
  <2> QED
    BY <1>5, <2>1
<1> QED
  BY <1>5, <1>6 DEF stop

(* Cutting an element cuts its bytes, and those of no other one.           *)
LEMMA CutBytes ==
  ASSUME elems \in Seq(Element), NEW i \in 1..Len(elems), NEW by \in Nat,
         by < elems[i].len
  PROVE  /\ Vec!CutElement(i, by) \in Seq(Element) /\ Len(Vec!CutElement(i, by)) = Len(elems)
         /\ Vec!BytesFrom(Vec!CutElement(i, by), i) = Rest(i, by)
         /\ Vec!BytesFrom(Vec!CutElement(i, by), i) # << >>
<1> DEFINE es == Vec!CutElement(i, by)
           e  == elems[i]
           s  == Vec!BytesOf(e, i)
           t  == Vec!BytesFrom(elems, i + 1)
<1>0. Len(elems) \in Nat /\ i \in Nat /\ i + 1 \in 1..Len(elems) + 1 /\ i + 1 \in Nat
  BY SMT
<1>1. e \in Element /\ e.base \in Nat /\ e.len \in Nat
  BY ElementType
<1> DEFINE f == [base |-> e.base + by, len |-> e.len - by]
<1>2. f \in Element /\ f.base = e.base + by /\ f.len = e.len - by /\ f.len \in Nat /\ f.len > 0
  <2>1. e.len - by \in Nat /\ e.base + by \in Nat /\ e.len - by > 0
    BY <1>1
  <2> QED
    BY <2>1 DEF Element
<1>3. es = [elems EXCEPT ![i] = f]
  BY DEF Vec!CutElement
<1>4. es \in Seq(Element) /\ Len(es) = Len(elems) /\ es[i] = f
  <2> HIDE DEF f, es
  <2> QED
    BY <1>2, <1>3, ExceptSeq
<1>5. \A j \in i + 1..Len(elems) : es[j] = elems[j]
  <2> HIDE DEF f
  <2> QED
    BY <1>0, <1>3, SMT
<1>6. Vec!BytesFrom(es, i + 1) = t
  <2> HIDE DEF es
  <2> QED
    BY <1>0, <1>4, <1>5, BytesLocal
<1>7. s \in Seq(Byte) /\ Len(s) = e.len /\ \A b \in 1..e.len : s[b] = <<i, e.base + b - 1>>
  BY <1>0, <1>1, BytesOfType
<1> DEFINE r == Vec!BytesOf(f, i)
<1>8. r \in Seq(Byte) /\ Len(r) = f.len /\ \A b \in 1..f.len : r[b] = <<i, f.base + b - 1>>
  <2> HIDE DEF f
  <2> QED
    BY <1>0, <1>2, BytesOfType
<1>9. r = SubSeq(s, by + 1, Len(s))
  <2> DEFINE u == SubSeq(s, by + 1, Len(s))
  <2>0. by < e.len
    OBVIOUS
  <2>1. by \in 0..Len(s)
    BY <1>1, <1>7
  <2>2. u \in Seq(Byte) /\ Len(u) = e.len - by
    <3> HIDE DEF s
    <3> QED
      BY <1>7, <2>1, CutInTwo
  <2>3. ASSUME NEW b \in 1..e.len - by PROVE u[b] = r[b]
    <3>1. by + b \in 1..e.len /\ f.base + b - 1 = e.base + (by + b) - 1
      <4>1. e.base \in Nat /\ e.len \in Nat /\ f.base = e.base + by
        BY <1>1, <1>2
      <4> HIDE DEF e, f
      <4> QED
        BY <4>1, <2>0
    <3>2. u[b] = s[by + b]
      BY <1>7, <2>0, SMT
    <3>3. s[by + b] = <<i, e.base + (by + b) - 1>>
      BY <1>7, <3>1
    <3>4. r[b] = <<i, f.base + b - 1>>
      BY <1>2, <1>8
    <3> QED
      BY <3>1, <3>2, <3>3, <3>4
  <2> HIDE DEF u, r
  <2> QED
    BY <1>2, <1>8, <2>2, <2>3, SeqEqual DEF u
<1>10. t \in Seq(Byte)
  BY <1>0, BytesFromType
<1>11. Vec!BytesFrom(elems, i) = s \o t
  BY BytesStep
<1>12. Vec!BytesFrom(es, i) = r \o t
  <2>1. i \in 1..Len(es)
    BY <1>4
  <2>2. Vec!BytesFrom(es, i) = Vec!BytesOf(es[i], i) \o Vec!BytesFrom(es, i + 1)
    <3> HIDE DEF es
    <3> QED
      BY <1>4, <2>1, BytesStep
  <2> QED
    BY <1>4, <1>6, <2>2
<1> HIDE DEF es, s, t, r, f, e
<1>13. by \in 0..Len(s) /\ Len(s \o t) = Len(s) + Len(t)
  <2>1. by \in 0..Len(s)
    BY <1>1, <1>7 DEF e
  <2> QED
    BY <1>7, <1>10, <2>1, ConcatLen
<1>14. SubSeq(s \o t, by + 1, Len(s) + Len(t)) = r \o t
  BY <1>7, <1>9, <1>10, <1>13, CutFirst
<1>15. r \o t # << >>
  <2>1. r # << >>
    BY <1>2, <1>8
  <2> QED
    BY <1>8, <1>10, <2>1, ConcatEqualIffEmpty
<1> QED
  BY <1>4, <1>11, <1>12, <1>13, <1>14, <1>15 DEF Rest, es

(* UpdateIov leaves what was described behind the bytes moved, and when it *)
(* stops inside the array there is something left to move.                 *)
LEMMA UpdateLeavesRest ==
  ASSUME Vec!ConstantsFit, elems \in Seq(Element), iov \in 1..Len(elems) + 1,
         iovcnt = Len(elems) + 1 - iov, NEW count \in 0..Len(Vec!Left), Vec!UpdateIov(count)
  PROVE  /\ elems' \in Seq(Element) /\ Len(elems') = Len(elems)
         /\ iov' \in 1..Len(elems) + 1 + MaxBeyond
         /\ iovcnt' = Len(elems) + 1 - iov'
         /\ vat' \in {vat, "undefined"}
         /\ Vec!Left' = Rest(iov, count)
         /\ iovcnt' > 0 => Vec!Left' # << >>
<1> DEFINE stop == Vec!Stop(count)
           by   == Vec!LeftOver(count)[stop]
<1>0. Len(elems) \in Nat /\ iov \in Nat /\ MaxBeyond \in Nat
  BY SMT DEF Vec!ConstantsFit
<1>1. stop \in iov..Len(elems) + 1 /\ StopsAt(count, stop)
  BY StopIs
<1>2. by \in 0..Len(Vec!BytesFrom(elems, stop)) /\ Rest(iov, count) = Rest(stop, by)
  BY Walk DEF Walked
<1>3. CASE stop <= Len(elems)
  <2>1. /\ iov' = stop /\ iovcnt' = iovcnt - (stop - iov) /\ vat' = vat
        /\ elems' = Vec!CutElement(stop, by)
    BY <1>1, <1>3, SMT DEF Vec!UpdateIov
  <2> HIDE DEF stop, by
  <2>2. stop \in 1..Len(elems)
    BY <1>0, <1>1, <1>3
  <2>3. by \in Nat
    <3>1. stop \in 1..Len(elems) + 1
      BY <1>0, <1>1
    <3>2. Vec!BytesFrom(elems, stop) \in Seq(Byte)
      BY <3>1, BytesFromType
    <3> QED
      BY <1>2, <3>2
  <2>4. by < elems[stop].len
    <3>1. elems[stop].len \in Nat
      BY <2>2, ElementType
    <3> QED
      BY <1>1, <1>3, <2>3, <3>1 DEF StopsAt, Vec!Covers, stop, by
  <2>5. /\ elems' \in Seq(Element) /\ Len(elems') = Len(elems)
        /\ Vec!BytesFrom(elems', stop) = Rest(stop, by) /\ Vec!BytesFrom(elems', stop) # << >>
    BY <2>1, <2>2, <2>3, <2>4, CutBytes
  <2>6. Vec!Left' = Vec!BytesFrom(elems', stop)
    BY <2>1 DEF Vec!Left
  <2>7. iov' \in 1..Len(elems) + 1 + MaxBeyond /\ iovcnt' = Len(elems) + 1 - iov'
    BY <1>0, <2>1, <2>2
  <2> QED
    BY <1>2, <2>1, <2>5, <2>6, <2>7
<1>4. CASE ~(stop <= Len(elems))
  <2>1. /\ elems' = elems /\ stop > Len(elems) /\ vat' \in {vat, "undefined"}
        /\ \E beyond \in 0..MaxBeyond : iov' = stop + beyond /\ iovcnt' = iovcnt - (iov' - iov)
    BY <1>1, <1>4, SMT DEF Vec!UpdateIov
  <2> HIDE DEF stop, by
  <2>2. stop = Len(elems) + 1
    BY <1>0, <1>1, <1>4
  <2>3. /\ iov' \in Nat /\ iov' > Len(elems) /\ iov' \in 1..Len(elems) + 1 + MaxBeyond
        /\ iovcnt' = Len(elems) + 1 - iov' /\ ~(iovcnt' > 0)
    BY <1>0, <2>1, <2>2
  <2>4. Vec!Left' = << >>
    BY <2>1, <2>3, BytesEnd DEF Vec!Left
  <2>5. Vec!BytesFrom(elems, stop) = << >>
    BY <1>0, <2>2, BytesEnd
  <2>6. by = 0 /\ Rest(stop, by) = << >>
    BY <1>2, <2>5, SMT DEF Rest
  <2> QED
    BY <1>2, <2>1, <2>3, <2>4, <2>6
<1> QED
  BY <1>3, <1>4

-----------------------------------------------------------------------------
(* The calls of a caller.                                                  *)

(* Once something has been moved, the array begins with an element that is *)
(* not used up: only then does an answer of 0 bytes from readv say that    *)
(* the peer has closed.                                                    *)
MovedOn == vmoved # << >> /\ iovcnt > 0 => Vec!Left # << >>

ArrayInv ==
  /\ Vec!TypeOK /\ elems \in Seq(Element) /\ vmoved \in Seq(Byte)
  /\ vat = "idle" => vmoved = << >>
  /\ Vec!NothingSkipped /\ Vec!ReturnsTrue /\ MovedOn

LEMMA ElementsType ==
  ASSUME NEW a \in Seq(Nat)
  PROVE  /\ Vec!Elements(a) \in Seq(Element) /\ Len(Vec!Elements(a)) = Len(a)
<1>1. Len(a) \in Nat /\ \A i \in 1..Len(a) : [base |-> 0, len |-> a[i]] \in Element
  BY DEF Element
<1>2. Vec!Elements(a) \in [1..Len(a) -> Element]
  BY <1>1 DEF Vec!Elements
<1> QED
  BY <1>1, <1>2, FunctionIsSeq

LEMMA LeftType ==
  ASSUME ArrayInv
  PROVE  Vec!Left \in Seq(Byte) /\ (iovcnt <= 0 => Vec!Left = << >>)
<1>1. Len(lens) = Len(elems) /\ Len(elems) \in Nat /\ iov \in Int /\ iov > 0
      /\ iovcnt = Len(elems) + 1 - iov /\ elems \in Seq(Element)
  BY SMT DEF ArrayInv, Vec!TypeOK
<1>2. CASE iov <= Len(elems)
  <2>1. iov \in 1..Len(elems) + 1 /\ ~(iovcnt <= 0)
    BY <1>1, <1>2
  <2> QED
    BY <1>1, <2>1, BytesFromType DEF Vec!Left
<1>3. CASE ~(iov <= Len(elems))
  <2>1. iov \in Nat /\ iov > Len(elems)
    BY <1>1, <1>3
  <2>2. Vec!Left = << >>
    BY <1>1, <2>1, BytesEnd DEF Vec!Left
  <2> QED
    BY <2>2, EmptySeq
<1> QED
  BY <1>2, <1>3

(* A call begins with an array of which nothing has been moved.            *)
Fresh(a) ==
  /\ lens' = a /\ elems' = Vec!Elements(a) /\ iov' = 1 /\ iovcnt' = Len(a) /\ vmoved' = << >>

LEMMA FreshArray ==
  ASSUME Vec!ConstantsFit, NEW a \in Arrays \cup {<< >>}, Fresh(a)
  PROVE  /\ elems' \in Seq(Element) /\ vmoved' \in Seq(Byte) /\ Vec!NothingSkipped' /\ MovedOn'
         /\ lens' \in Arrays \cup {<< >>} /\ iov' \in 1..Len(lens') + 1 + MaxBeyond
         /\ iovcnt' = Len(lens') + 1 - iov' /\ Len(elems') = Len(lens')
<1>1. a \in Seq(Nat) /\ Len(a) \in Nat /\ MaxBeyond \in Nat
  <2>1. a \in Seq(Nat)
    BY EmptySeq DEF Vec!ConstantsFit
  <2> QED
    BY <2>1, LenProperties DEF Vec!ConstantsFit
<1>2. Vec!Elements(a) \in Seq(Element) /\ Len(Vec!Elements(a)) = Len(a)
  BY <1>1, ElementsType
<1>3. Vec!Left' = Vec!AllBytes' /\ vmoved' = << >>
  BY DEF Fresh, Vec!Left, Vec!AllBytes
<1>4. Vec!NothingSkipped' /\ MovedOn'
  BY <1>3, ConcatEmptySeq DEF Vec!NothingSkipped, MovedOn
<1>5. iov' \in 1..Len(lens') + 1 + MaxBeyond /\ iovcnt' = Len(lens') + 1 - iov'
  BY <1>1 DEF Fresh
<1> QED
  BY <1>2, <1>3, <1>4, <1>5, EmptySeq DEF Fresh

LEMMA ArrayInit ==
  ASSUME Vec!ConstantsFit, Vec!Init
  PROVE  ArrayInv
<1>1. MaxBeyond \in Nat /\ Len(<< >>) = 0
  BY DEF Vec!ConstantsFit
<1>2. Vec!Elements(<< >>) = << >>
  BY SMT DEF Vec!Elements
<1>3. elems \in Seq(Element) /\ vmoved \in Seq(Byte)
  BY EmptySeq DEF Vec!Init
<1>4. Vec!TypeOK
  <2>1. iov \in 1..Len(lens) + 1 + MaxBeyond /\ iovcnt = Len(lens) + 1 - iov
    BY <1>1 DEF Vec!Init
  <2>2. Len(elems) = Len(lens) /\ \A i \in 1..Len(elems) : elems[i].base \in Nat /\ elems[i].len \in Nat
    BY <1>3, ElementType DEF Vec!Init
  <2> QED
    BY <2>1, <2>2 DEF Vec!Init, Vec!TypeOK
<1>5. Vec!Left = Vec!AllBytes
  BY <1>2 DEF Vec!Init, Vec!Left, Vec!AllBytes
<1> QED
  BY <1>3, <1>4, <1>5, ConcatEmptySeq
     DEF ArrayInv, Vec!Init, Vec!NothingSkipped, Vec!ReturnsTrue, MovedOn

LEMMA CallKeeps ==
  ASSUME Vec!ConstantsFit, ArrayInv, NEW c \in {"Send", "Recv"}, NEW a \in Arrays, Vec!Call(c, a)
  PROVE  ArrayInv'
<1>1. Fresh(a)
  BY DEF Vec!Call, Fresh
<1>2. a \in Arrays \cup {<< >>}
  OBVIOUS
<1>3. /\ elems' \in Seq(Element) /\ vmoved' \in Seq(Byte) /\ Vec!NothingSkipped' /\ MovedOn'
      /\ lens' \in Arrays \cup {<< >>} /\ iov' \in 1..Len(lens') + 1 + MaxBeyond
      /\ iovcnt' = Len(lens') + 1 - iov' /\ Len(elems') = Len(lens')
  BY <1>1, <1>2, FreshArray
<1>4. Vec!TypeOK'
  <2>1. \A i \in 1..Len(elems') : elems'[i].base \in Nat /\ elems'[i].len \in Nat
    BY <1>3, ElementType
  <2> QED
    BY <1>3, <2>1 DEF ArrayInv, Vec!TypeOK, Vec!Call
<1>5. Vec!ReturnsTrue' /\ vat' # "idle"
  BY DEF Vec!Call, Vec!ReturnsTrue
<1> QED
  BY <1>3, <1>4, <1>5 DEF ArrayInv

LEMMA CallerDoneKeeps ==
  ASSUME Vec!ConstantsFit, ArrayInv, Vec!CallerDone
  PROVE  ArrayInv'
<1>1. Fresh(<< >>)
  <2>1. Vec!Elements(<< >>) = << >> /\ Len(<< >>) = 0
    BY SMT DEF Vec!Elements
  <2> QED
    BY <2>1 DEF Vec!CallerDone, Fresh
<1>2. << >> \in Arrays \cup {<< >>}
  OBVIOUS
<1>3. /\ elems' \in Seq(Element) /\ vmoved' \in Seq(Byte) /\ Vec!NothingSkipped' /\ MovedOn'
      /\ lens' \in Arrays \cup {<< >>} /\ iov' \in 1..Len(lens') + 1 + MaxBeyond
      /\ iovcnt' = Len(lens') + 1 - iov' /\ Len(elems') = Len(lens')
  BY <1>1, <1>2, FreshArray
<1>4. Vec!TypeOK'
  <2>1. \A i \in 1..Len(elems') : elems'[i].base \in Nat /\ elems'[i].len \in Nat
    BY <1>3, ElementType
  <2> QED
    BY <1>3, <2>1 DEF ArrayInv, Vec!TypeOK, Vec!CallerDone
<1>5. Vec!ReturnsTrue' /\ vmoved' = << >>
  BY DEF Vec!CallerDone, Vec!ReturnsTrue
<1> QED
  BY <1>3, <1>4, <1>5 DEF ArrayInv

(* The other steps of a call leave the array and the bytes moved alone.    *)
LEMMA ArrayKept ==
  ASSUME ArrayInv, UNCHANGED <<call, lens, iov, iovcnt, elems, vmoved>>, vat' # "idle"
         \/ vat' = vat, vat' \in {"idle", "io", "returned", "undefined"}, closed' \in BOOLEAN,
         vret' \in {-2, -1, 0, 1}, Vec!ReturnsTrue'
  PROVE  ArrayInv'
<1>1. Vec!TypeOK' /\ elems' \in Seq(Element) /\ vmoved' \in Seq(Byte) /\ (vat' = "idle" => vmoved' = << >>)
  BY DEF ArrayInv, Vec!TypeOK
<1>2. Vec!NothingSkipped' /\ MovedOn'
  BY DEF ArrayInv, Vec!NothingSkipped, MovedOn, Vec!Left, Vec!AllBytes
<1> QED
  BY <1>1, <1>2 DEF ArrayInv

LEMMA TransferKeeps ==
  ASSUME Vec!ConstantsFit, ArrayInv, NEW k \in 0..Len(Vec!Left), Vec!Transfer(k)
  PROVE  ArrayInv'
<1>1. /\ elems \in Seq(Element) /\ iov \in 1..Len(elems) + 1 /\ iovcnt = Len(elems) + 1 - iov
      /\ vmoved \in Seq(Byte) /\ Vec!Left \in Seq(Byte) /\ Len(elems) = Len(lens)
  <2>1. Len(elems) \in Nat /\ Vec!Left \in Seq(Byte)
    BY LeftType, SMT DEF ArrayInv
  <2> QED
    BY <2>1, SMT DEF ArrayInv, Vec!TypeOK, Vec!Transfer, Vec!ConstantsFit
<1>2. Vec!UpdateIov(k) /\ vmoved' = vmoved \o SubSeq(Vec!Left, 1, k)
      /\ UNCHANGED <<call, lens, closed, vret>> /\ vat = "io"
  BY DEF Vec!Transfer
<1>3. /\ elems' \in Seq(Element) /\ Len(elems') = Len(elems)
      /\ iov' \in 1..Len(elems) + 1 + MaxBeyond
      /\ iovcnt' = Len(elems) + 1 - iov'
      /\ vat' \in {vat, "undefined"}
      /\ Vec!Left' = Rest(iov, k)
      /\ iovcnt' > 0 => Vec!Left' # << >>
  BY <1>1, <1>2, UpdateLeavesRest
<1> DEFINE a == SubSeq(Vec!Left, 1, k)
<1>4. a \o Vec!Left' = Vec!Left /\ a \in Seq(Byte) /\ Vec!Left' \in Seq(Byte)
  <2>1. Vec!Left' = SubSeq(Vec!Left, k + 1, Len(Vec!Left))
    BY <1>3 DEF Rest, Vec!Left
  <2> QED
    BY <1>1, <2>1, CutInTwo
<1> HIDE DEF a
<1>5. vmoved' \in Seq(Byte) /\ Vec!NothingSkipped'
  <2>1. Regroup(vmoved, a, Vec!Left')
    BY <1>1, <1>4, Regrouped
  <2>2. vmoved \o Vec!Left = Vec!AllBytes /\ Vec!AllBytes' = Vec!AllBytes /\ vmoved' = vmoved \o a
    BY <1>2 DEF ArrayInv, Vec!NothingSkipped, Vec!AllBytes, a
  <2>3. vmoved \o a \in Seq(Byte)
    BY <1>1, <1>4, ConcatLen
  <2> QED
    BY <1>4, <2>1, <2>2, <2>3 DEF Regroup, Vec!NothingSkipped
<1>6. Vec!TypeOK'
  <2>1. \A i \in 1..Len(elems') : elems'[i].base \in Nat /\ elems'[i].len \in Nat
    BY <1>3, ElementType
  <2> QED
    BY <1>1, <1>2, <1>3, <2>1 DEF ArrayInv, Vec!TypeOK
<1>7. Vec!ReturnsTrue' /\ MovedOn' /\ vat' # "idle"
  BY <1>2, <1>3 DEF Vec!ReturnsTrue, MovedOn
<1> QED
  BY <1>3, <1>5, <1>6, <1>7 DEF ArrayInv

(* What the values that Send and Recv return say.                          *)
LEMMA ReturnKeeps ==
  ASSUME ArrayInv, Vec!AllMoved \/ Vec!WouldBlock \/ Vec!Fails \/ Vec!ReadsNothing
  PROVE  ArrayInv'
<1> DEFINE all == Vec!AllBytes
<1>1. vmoved \o Vec!Left = all /\ vmoved \in Seq(Byte) /\ Vec!Left \in Seq(Byte)
      /\ (iovcnt <= 0 => Vec!Left = << >>) /\ Vec!AllBytes' = all /\ vmoved' = vmoved /\ closed' = closed
  BY LeftType DEF ArrayInv, Vec!NothingSkipped, Vec!AllBytes, Vec!AllMoved, Vec!WouldBlock, Vec!Fails, Vec!ReadsNothing, Vec!Return
<1>2. UNCHANGED <<call, lens, iov, iovcnt, elems, vmoved, closed>> /\ vat' = "returned"
  BY DEF Vec!AllMoved, Vec!WouldBlock, Vec!Fails, Vec!ReadsNothing, Vec!Return
<1>3. vret' \in {-2, -1, 0, 1} /\ closed \in BOOLEAN
  BY DEF Vec!AllMoved, Vec!WouldBlock, Vec!Fails, Vec!ReadsNothing, Vec!Return, ArrayInv, Vec!TypeOK
<1>4. CASE Vec!AllMoved
  <2>1. vret' = 1 /\ Vec!Left = << >>
    BY <1>1, <1>4 DEF Vec!AllMoved, Vec!Return
  <2>2. vmoved = all
    BY <1>1, <2>1, ConcatEmptySeq
  <2> QED
    BY <1>1, <1>2, <1>3, <2>1, <2>2, ArrayKept DEF Vec!ReturnsTrue
<1>5. CASE Vec!WouldBlock
  <2>1. vret' = 0 /\ Vec!Left # << >>
    BY <1>5 DEF Vec!WouldBlock, Vec!Return
  <2>2. vmoved # all
    <3> HIDE DEF all
    <3> QED
      BY <1>1, <2>1, ConcatSimplifications
  <2> QED
    BY <1>1, <1>2, <1>3, <2>1, <2>2, ArrayKept DEF Vec!ReturnsTrue
<1>6. CASE Vec!Fails
  <2>1. vret' = -1
    BY <1>6 DEF Vec!Fails, Vec!Return
  <2>2. Vec!ReturnsTrue'
    BY <2>1, SMT DEF Vec!ReturnsTrue
  <2> QED
    BY <1>2, <1>3, <2>2, ArrayKept
<1>7. CASE Vec!ReadsNothing
  <2>1. vret' = -2 /\ iovcnt > 0 /\ (closed \/ Vec!Left = << >>)
    BY <1>7 DEF Vec!ReadsNothing, Vec!Return
  <2>2. all # << >> => closed
    <3>1. Vec!Left = << >> => vmoved = << >>
      BY <2>1 DEF ArrayInv, MovedOn
    <3> HIDE DEF all
    <3> QED
      BY <1>1, <2>1, <3>1, ConcatEmptySeq
  <2>3. Vec!ReturnsTrue'
    BY <1>1, <2>1, <2>2, SMT DEF Vec!ReturnsTrue
  <2> QED
    BY <1>2, <1>3, <2>3, ArrayKept
<1> QED
  BY <1>4, <1>5, <1>6, <1>7

LEMMA ArrayStep ==
  ASSUME Vec!ConstantsFit, ArrayInv, [Vec!Next]_Vec!ivars
  PROVE  ArrayInv'
<1>1. CASE UNCHANGED Vec!ivars
  <2>1. Vec!ReturnsTrue'
    BY <1>1 DEF ArrayInv, Vec!ReturnsTrue, Vec!AllBytes, Vec!ivars
  <2> QED
    BY <1>1, <2>1, ArrayKept DEF ArrayInv, Vec!TypeOK, Vec!ivars
<1>2. ASSUME NEW c \in {"Send", "Recv"}, NEW a \in Arrays, Vec!Call(c, a) PROVE ArrayInv'
  BY <1>2, CallKeeps
<1>3. CASE Vec!CallAgain
  BY <1>3, ArrayKept DEF ArrayInv, Vec!TypeOK, Vec!CallAgain, Vec!ReturnsTrue
<1>4. CASE Vec!CallerDone
  BY <1>4, CallerDoneKeeps
<1>5. CASE Vec!PeerCloses
  <2>1. Vec!ReturnsTrue'
    BY <1>5 DEF ArrayInv, Vec!ReturnsTrue, Vec!AllBytes, Vec!PeerCloses
  <2> QED
    BY <1>5, <2>1, ArrayKept DEF ArrayInv, Vec!TypeOK, Vec!PeerCloses
<1>6. ASSUME NEW k \in 0..Len(Vec!Left), Vec!Transfer(k) PROVE ArrayInv'
  BY <1>6, TransferKeeps
<1>7. CASE Vec!AllMoved \/ Vec!WouldBlock \/ Vec!Fails \/ Vec!ReadsNothing
  BY <1>7, ReturnKeeps
<1>8. CASE Vec!Undefined
  <2>1. UNCHANGED Vec!ivars
    BY <1>8 DEF Vec!Undefined
  <2> QED
    BY <1>1, <2>1
<1> QED
  BY <1>1, <1>2, <1>3, <1>4, <1>5, <1>6, <1>7, <1>8 DEF Vec!Next

LEMMA ArrayAlways ==
  ASSUME Vec!ConstantsFit
  PROVE  Vec!Safety => []ArrayInv
<1>1. Vec!Init => ArrayInv
  BY ArrayInit
<1>2. ArrayInv /\ [Vec!Next]_Vec!ivars => ArrayInv'
  BY ArrayStep
<1> QED
  BY <1>1, <1>2, PTL DEF Vec!Safety

(* The calls with arrays are steps of module Iovec, or none.               *)
LEMMA ArraySteps ==
  All => Vec!Safety
<1>1. AllInit => Vec!Init
  BY DEF AllInit
<1>2. [AllNext]_allvars => [Vec!Next]_(Vec!ivars)
  BY DEF AllNext, allvars, vecvars, Vec!ivars
<1> QED
  BY <1>1, <1>2, PTL DEF All, Vec!Safety

(* Resuming a call with the iov and iovcnt that it left moves every byte   *)
(* of the array once and in order, whatever the array and whatever pieces  *)
(* the socket takes: what has been moved, followed by what is still        *)
(* described, is the array (UpdateIov, stream.cpp:94-112).                 *)
THEOREM NoByteSkipped ==
  ASSUME Vec!ConstantsFit
  PROVE  All => []NothingSkipped
<1>1. ArrayInv => NothingSkipped
  BY DEF ArrayInv, NothingSkipped
<1> QED
  BY <1>1, ArraySteps, ArrayAlways, PTL

(* Send and Recv of an array return what stream.h:91 and 97 say: 1 when    *)
(* everything has been moved, 0 when something is left, and -2, when the   *)
(* array has room, only if the peer has closed.                            *)
THEOREM ReturnValuesTrue ==
  ASSUME Vec!ConstantsFit
  PROVE  All => []ReturnsTrue
<1>1. ArrayInv => ReturnsTrue
  BY DEF ArrayInv, ReturnsTrue
<1> QED
  BY <1>1, ArraySteps, ArrayAlways, PTL

-----------------------------------------------------------------------------
(* The connection of the example programs: what Echo_proofs proves of      *)
(* module Echo holds for its instance Conn.                                *)
Echoes == INSTANCE Echo_proofs

LEMMA SameConnection ==
  /\ Conn!ConstantsFit <=> Echoes!ConstantsFit
  /\ Conn!Init <=> Echoes!Init
  /\ [Conn!Next]_(Conn!evars) <=> [Echoes!Next]_(Echoes!evars)
  /\ Conn!BytesAccounted <=> Echoes!BytesAccounted
  /\ Conn!UnsentWatched <=> Echoes!UnsentWatched
<1>1. Conn!ConstantsFit <=> Echoes!ConstantsFit
  BY DEF Conn!ConstantsFit, Echoes!ConstantsFit
<1>2. Conn!Init <=> Echoes!Init
  BY DEF Conn!Init, Echoes!Init, Conn!EVENT_READ, Echoes!EVENT_READ
<1>3. [Conn!Next]_(Conn!evars) <=> [Echoes!Next]_(Echoes!evars)
  BY DEF Conn!EpollWait, Echoes!EpollWait, Conn!ReadHead, Echoes!ReadHead, Conn!ReadBody,
         Echoes!ReadBody, Conn!PacketRead, Echoes!PacketRead, Conn!ReadBlocks,
         Echoes!ReadBlocks, Conn!ReadFails, Echoes!ReadFails, Conn!WriteIdle,
         Echoes!WriteIdle, Conn!WriteTakes, Echoes!WriteTakes, Conn!WriteBytes,
         Echoes!WriteBytes, Conn!WriteBlocks, Echoes!WriteBlocks, Conn!WriteFails,
         Echoes!WriteFails, Conn!PopSent, Echoes!PopSent, Conn!Push, Echoes!Push,
         Conn!ServerEnds, Echoes!ServerEnds, Conn!ClientSends, Echoes!ClientSends,
         Conn!ClientReceives, Echoes!ClientReceives, Conn!ClientCloses,
         Echoes!ClientCloses, Conn!Over, Echoes!Over, Conn!LoopStep, Echoes!LoopStep,
         Conn!HandleRead, Echoes!HandleRead, Conn!HandleWrite, Echoes!HandleWrite,
         Conn!Next, Echoes!Next, Conn!Ready, Echoes!Ready, Conn!AfterRead,
         Echoes!AfterRead, Conn!Unregister, Echoes!Unregister, Conn!Send, Echoes!Send,
         Conn!ReadingHead, Echoes!ReadingHead, Conn!ReadingBody, Echoes!ReadingBody,
         Conn!Misplaces, Echoes!Misplaces, Conn!HeadRead, Echoes!HeadRead, Conn!Lengths,
         Echoes!Lengths, Conn!Wanting, Echoes!Wanting, Conn!Fits, Echoes!Fits, Conn!Size,
         Echoes!Size, Conn!EVENT_READ, Echoes!EVENT_READ, Conn!EVENT_READWRITE,
         Echoes!EVENT_READWRITE, Conn!epollVars, Echoes!epollVars, Conn!readVars,
         Echoes!readVars, Conn!sendVars, Echoes!sendVars, Conn!loopVars, Echoes!loopVars,
         Conn!clientVars, Echoes!clientVars, Conn!evars, Echoes!evars
<1>4. /\ Conn!BytesAccounted <=> Echoes!BytesAccounted
      /\ Conn!UnsentWatched <=> Echoes!UnsentWatched
  BY DEF Conn!BytesAccounted, Echoes!BytesAccounted, Conn!UnsentWatched,
         Echoes!UnsentWatched, Conn!Gone, Echoes!Gone, Conn!ReadSoFar, Echoes!ReadSoFar,
         Conn!EVENT_READWRITE, Echoes!EVENT_READWRITE
<1> QED
  BY <1>1, <1>2, <1>3, <1>4

LEMMA ConnectionAlways ==
  ASSUME Conn!ConstantsFit
  PROVE  All => [](BytesAccounted /\ Conn!UnsentWatched)
<1>1. AllInit => Echoes!Init
  BY SameConnection DEF AllInit
<1>2. [AllNext]_allvars => [Conn!Next]_(Conn!evars)
  BY DEF AllNext, allvars, connvars, Conn!evars, Conn!epollVars, Conn!readVars,
         Conn!sendVars, Conn!loopVars, Conn!clientVars
<1>3. [AllNext]_allvars => [Echoes!Next]_(Echoes!evars)
  BY <1>2, SameConnection
<1>4. Echoes!Safety => []Echoes!EchoInv
  BY SameConnection, Echoes!EchoAlways
<1>5. Echoes!EchoInv => BytesAccounted /\ Conn!UnsentWatched
  BY SameConnection DEF Echoes!EchoInv, BytesAccounted
<1> QED
  BY <1>1, <1>3, <1>4, <1>5, PTL DEF All, Echoes!Safety

(* No byte is sent twice or left out, over all the events that a packet    *)
(* takes and whatever pieces the socket moves, for any number of packets of*)
(* any sizes and whatever other threads queue in between; nor, while no    *)
(* wrong pointer has garbled a header, is one lost on the way from the     *)
(* client to the queue (server_example.cpp:50-126).  This counts bytes: the*)
(* pointer form spoils what is in them (stream.cpp:73, 180).               *)
THEOREM BytesCounted ==
  ASSUME Conn!ConstantsFit
  PROVE  All => []BytesAccounted
BY ConnectionAlways, PTL

(* A packet that waits to be sent is never left behind EVENT_READ: a Send  *)
(* of another thread that comes between HandleWrite's last packet and its  *)
(* Modify is seen, or comes after it, since both hold m_mutex              *)
(* (server_example.cpp:45-47, 100-104).                                    *)
THEOREM SendNeverUnwatched ==
  ASSUME Conn!ConstantsFit
  PROVE  All => []Conn!UnsentWatched
BY ConnectionAlways, PTL
===============================================================================
