---------------------------- MODULE SequenceLemmas ----------------------------
(***************************************************************************)
(* Facts about the operators that the model of Stream's arrays is written  *)
(* with: FlattenSeq of the community module SequencesExt, the bytes of     *)
(* several buffers one after the other; and a sequence cut in two.         *)
(*                                                                         *)
(* FlattenSeq recurs over its argument.  What is said of it for sequences  *)
(* of every length rests on induction, stated here for sets of numbers.    *)
(***************************************************************************)
EXTENDS Integers, SequencesExt, SequenceTheorems, WellFoundedInduction, TLAPS

LEMMA LessIsWellFounded ==
  IsWellFoundedOn({p \in Nat \X Nat : p[1] < p[2]}, Nat)
<1>1. OpToRel(<, Nat) = {p \in Nat \X Nat : p[1] < p[2]}
  BY DEF OpToRel
<1> QED
  BY <1>1, NatLessThanWellFounded

(* A set of numbers has a least one.                                       *)
LEMMA LeastNumber ==
  ASSUME NEW T \in SUBSET Nat, T # {}
  PROVE  \E x \in T : \A y \in T : x <= y
<1> DEFINE R == {p \in Nat \X Nat : p[1] < p[2]}
<1>1. \E x \in T : \A y \in T : ~(<<y, x>> \in R)
  <2> HIDE DEF R
  <2> QED
    BY LessIsWellFounded, WFMin DEF R
<1>2. PICK x \in T : \A y \in T : ~(<<y, x>> \in R)
  BY <1>1
<1>3. ASSUME NEW y \in T PROVE x <= y
  <2>1. ~(<<y, x>>[1] < <<y, x>>[2])
    BY <1>2
  <2> QED
    BY <2>1, SMT
<1> QED
  BY <1>2, <1>3

(* Induction up to n.                                                      *)
LEMMA UpTo ==
  ASSUME NEW n \in Nat, NEW S, 0 \in S, \A i \in 0..n - 1 : i \in S => i + 1 \in S
  PROVE  \A i \in 0..n : i \in S
<1> DEFINE T == (0..n) \ S
<1> SUFFICES ASSUME T # {} PROVE FALSE
  OBVIOUS
<1>0. T \in SUBSET Nat
  OBVIOUS
<1>1. PICK x \in T : \A y \in T : x <= y
  <2> HIDE DEF T
  <2> QED
    BY <1>0, LeastNumber
<1>2. x # 0 /\ x - 1 \in 0..n - 1 /\ ~(x <= x - 1) /\ (x - 1) + 1 = x
  BY <1>1, SMT
<1>3. x - 1 \in S
  BY <1>1, <1>2
<1> QED
  BY <1>1, <1>2, <1>3

-----------------------------------------------------------------------------
(* A function on 1..n is a sequence of length n.                           *)
LEMMA FunctionIsSeq ==
  ASSUME NEW S, NEW n \in Nat, NEW f \in [1..n -> S]
  PROVE  f \in Seq(S) /\ Len(f) = n
BY SMT

LEMMA ConcatLen ==
  ASSUME NEW S, NEW s \in Seq(S), NEW t \in Seq(S)
  PROVE  /\ s \o t \in Seq(S) /\ Len(s) \in Nat /\ Len(t) \in Nat
         /\ Len(s \o t) = Len(s) + Len(t)
BY SMT

(* Concatenation is associative.  (The provers find an instance of this    *)
(* more easily behind a name.)                                             *)
Regroup(a, b, c) == (a \o b) \o c = a \o (b \o c)

LEMMA Regrouped ==
  ASSUME NEW S, NEW a \in Seq(S), NEW b \in Seq(S), NEW c \in Seq(S)
  PROVE  Regroup(a, b, c)
BY SMT DEF Regroup

-----------------------------------------------------------------------------
(* The function by which FlattenSeq is defined, for the first n elements.  *)

FlattensTo(f, q, n) ==
  f = [i \in 1..n |-> IF i = 1 THEN q[i] ELSE f[i - 1] \o q[i]]

LEMMA FlattenExists ==
  ASSUME NEW q, NEW n \in Nat
  PROVE  \E f : FlattensTo(f, q, n)
<1> DEFINE S == {k \in Nat : \E f : FlattensTo(f, q, k)}
<1>1. 0 \in S
  <2>1. FlattensTo([i \in 1..0 |-> q[i]], q, 0)
    BY SMT DEF FlattensTo
  <2> QED
    BY <2>1
<1>2. ASSUME NEW k \in 0..n - 1, k \in S PROVE k + 1 \in S
  <2>1. PICK f : FlattensTo(f, q, k)
    BY <1>2
  <2> DEFINE g == [i \in 1..k + 1 |->
                     IF i = 1 THEN q[i] ELSE IF i = k + 1 THEN f[k] \o q[i] ELSE f[i]]
  <2>2. ASSUME NEW i \in 1..k + 1 PROVE g[i] = IF i = 1 THEN q[i] ELSE g[i - 1] \o q[i]
    <3>1. CASE i = 1
      BY <3>1
    <3>2. CASE i # 1 /\ i = k + 1
      <4>1. k \in 1..k /\ k # k + 1 /\ i - 1 = k
        BY <3>2, SMT
      <4>2. g[k] = f[k]
        BY <2>1, <4>1 DEF FlattensTo
      <4> QED
        BY <3>2, <4>1, <4>2
    <3>3. CASE i # 1 /\ i # k + 1
      <4>1. i \in 1..k /\ i - 1 \in 1..k /\ i - 1 # k + 1
        BY <3>3, SMT
      <4>2. g[i - 1] = f[i - 1]
        BY <2>1, <4>1 DEF FlattensTo
      <4>3. f[i] = f[i - 1] \o q[i]
        BY <2>1, <3>3, <4>1 DEF FlattensTo
      <4> QED
        BY <3>3, <4>1, <4>2, <4>3
    <3> QED
      BY <3>1, <3>2, <3>3
  <2>3. FlattensTo(g, q, k + 1)
    BY <2>2, Zenon DEF FlattensTo
  <2>4. k + 1 \in Nat
    BY SMT
  <2> QED
    BY <2>3, <2>4
<1>3. \A k \in 0..n : k \in S
  <2> HIDE DEF S
  <2> QED
    BY <1>1, <1>2, UpTo
<1> QED
  BY <1>3, SMT

(* It depends on those elements only.                                      *)
Agree(f, g, k) == \A i \in 1..k : f[i] = g[i]

LEMMA FlattenUnique ==
  ASSUME NEW q, NEW p, NEW k \in Nat, NEW n \in Nat, k <= n, NEW f, NEW g,
         FlattensTo(f, q, k), FlattensTo(g, p, n), Agree(q, p, k)
  PROVE  Agree(f, g, k)
<1> DEFINE S == {j \in Nat : j # 0 => f[j] = g[j]}
<1>1. 0 \in S
  OBVIOUS
<1>2. ASSUME NEW j \in 0..k - 1, j \in S PROVE j + 1 \in S
  <2>1. j + 1 \in 1..k /\ j + 1 \in 1..n /\ j + 1 \in Nat
        /\ (j + 1) - 1 = j /\ (j + 1 = 1 <=> j = 0)
    BY SMT
  <2>2. f[j + 1] = IF j = 0 THEN q[j + 1] ELSE f[j] \o q[j + 1]
    BY <2>1, Zenon DEF FlattensTo
  <2>3. g[j + 1] = IF j = 0 THEN p[j + 1] ELSE g[j] \o p[j + 1]
    BY <2>1, Zenon DEF FlattensTo
  <2>4. f[j + 1] = g[j + 1]
    BY <1>2, <2>1, <2>2, <2>3 DEF Agree
  <2> QED
    BY <2>1, <2>4
<1>3. \A j \in 0..k : j \in S
  <2> HIDE DEF S
  <2> QED
    BY <1>1, <1>2, UpTo
<1> QED
  BY <1>3, SMT DEF Agree

(* What FlattenSeq picks is that function.                                 *)
LEMMA FlattenByFunction ==
  ASSUME NEW q, NEW n \in Nat \ {0}, Len(q) = n
  PROVE  \E f : FlattensTo(f, q, n) /\ FlattenSeq(q) = f[n]
<1> DEFINE F == CHOOSE f : f = [i \in 1..n |-> IF i = 1 THEN q[i] ELSE f[i - 1] \o q[i]]
<1>1. \E f : f = [i \in 1..n |-> IF i = 1 THEN q[i] ELSE f[i - 1] \o q[i]]
  BY FlattenExists DEF FlattensTo
<1>2. FlattensTo(F, q, n)
  BY <1>1 DEF FlattensTo
<1>3. FlattenSeq(q) = F[n]
  BY DEF FlattenSeq
<1> QED
  BY <1>2, <1>3

LEMMA FlattenEmpty == FlattenSeq(<< >>) = << >>
BY DEF FlattenSeq

(* One more buffer at the end.                                             *)
LEMMA FlattenAppend ==
  ASSUME NEW S, NEW q \in Seq(Seq(S)), NEW x \in Seq(S)
  PROVE  FlattenSeq(Append(q, x)) = FlattenSeq(q) \o x
<1> DEFINE n == Len(q)
           p == Append(q, x)
<1>1. /\ n \in Nat /\ n + 1 \in Nat \ {0} /\ Len(p) = n + 1 /\ p[n + 1] = x
      /\ \A i \in 1..n : p[i] = q[i]
  BY AppendProperties
<1> HIDE DEF n, p
<1>2. PICK g : FlattensTo(g, p, n + 1) /\ FlattenSeq(p) = g[n + 1]
  BY <1>1, FlattenByFunction
<1>3. n + 1 \in 1..n + 1 /\ (n + 1) - 1 = n /\ (n + 1 = 1 <=> n = 0)
  BY <1>1
<1>4. g[n + 1] = IF n = 0 THEN x ELSE g[n] \o x
  BY <1>1, <1>2, <1>3, Zenon DEF FlattensTo
<1>5. CASE n = 0
  <2>1. FlattenSeq(q) = << >>
    BY <1>5, FlattenEmpty DEF n
  <2> QED
    BY <1>2, <1>4, <1>5, <2>1, ConcatEmptySeq DEF p
<1>6. CASE n # 0
  <2>1. PICK f : FlattensTo(f, q, n) /\ FlattenSeq(q) = f[n]
    BY <1>1, <1>6, FlattenByFunction DEF n
  <2>2. n <= n + 1 /\ n \in 1..n /\ n + 1 \in Nat
    BY <1>1, <1>6
  <2>3. Agree(q, p, n)
    BY <1>1 DEF Agree
  <2>4. Agree(f, g, n)
    BY <1>1, <1>2, <2>1, <2>2, <2>3, FlattenUnique
  <2> QED
    BY <1>2, <1>4, <1>6, <2>1, <2>2, <2>4 DEF p, Agree
<1> QED
  BY <1>5, <1>6

LEMMA FlattenType ==
  ASSUME NEW S, NEW q \in Seq(Seq(S))
  PROVE  FlattenSeq(q) \in Seq(S)
<1> DEFINE n == Len(q)
           P == {k \in Nat : \A p \in Seq(Seq(S)) : Len(p) = k => FlattenSeq(p) \in Seq(S)}
<1>1. 0 \in P
  <2>1. ASSUME NEW p \in Seq(Seq(S)), Len(p) = 0 PROVE FlattenSeq(p) \in Seq(S)
    <3>1. p = << >> /\ << >> \in Seq(S)
      BY <2>1, EmptySeq
    <3> QED
      BY <3>1, FlattenEmpty
  <2> QED
    BY <2>1
<1>2. ASSUME NEW k \in 0..n - 1, k \in P PROVE k + 1 \in P
  <2>1. ASSUME NEW p \in Seq(Seq(S)), Len(p) = k + 1 PROVE FlattenSeq(p) \in Seq(S)
    <3>0. p # << >>
      BY <2>1, SMT
    <3>1. PICK r \in Seq(Seq(S)), x \in Seq(S) : p = Append(r, x)
      BY <3>0, SequenceEmptyOrAppend
    <3>2. Len(r) = k
      BY <2>1, <3>1, AppendProperties
    <3>3. FlattenSeq(r) \in Seq(S)
      BY <1>2, <3>2
    <3> QED
      BY <3>1, <3>3, FlattenAppend, ConcatProperties
  <2> QED
    BY <2>1, SMT
<1>3. n \in Nat
  OBVIOUS
<1>4. n \in P
  <2> HIDE DEF P, n
  <2>1. \A k \in 0..n : k \in P
    BY <1>1, <1>2, <1>3, UpTo
  <2> QED
    BY <1>3, <2>1
<1>5. \A p \in Seq(Seq(S)) : Len(p) = n => FlattenSeq(p) \in Seq(S)
  BY <1>4, Zenon
<1> QED
  BY <1>5, Zenon

(* One more buffer in front.                                               *)
InFront(x, q) == FlattenSeq(<<x>> \o q) = x \o FlattenSeq(q)

LEMMA FlattenCons ==
  ASSUME NEW S, NEW q \in Seq(Seq(S)), NEW x \in Seq(S)
  PROVE  InFront(x, q)
<1> DEFINE n == Len(q)
           P == {k \in Nat : \A p \in Seq(Seq(S)) :
                   Len(p) = k => InFront(x, p)}
<1>0. <<x>> \in Seq(Seq(S)) /\ << >> \in Seq(Seq(S)) /\ << >> \in Seq(S)
  OBVIOUS
<1>1. 0 \in P
  <2>1. ASSUME NEW p \in Seq(Seq(S)), Len(p) = 0 PROVE InFront(x, p)
    <3>1. p = << >>
      BY <2>1, EmptySeq
    <3>2. <<x>> \o p = Append(<< >>, x)
      BY <3>1
    <3>3. FlattenSeq(Append(<< >>, x)) = << >> \o x
      BY <1>0, FlattenAppend, FlattenEmpty
    <3>4. << >> \o x = x /\ x \o << >> = x
      BY ConcatEmptySeq
    <3> QED
      BY <3>1, <3>2, <3>3, <3>4, FlattenEmpty DEF InFront
  <2> QED
    BY <2>1
<1>2. ASSUME NEW k \in 0..n - 1, k \in P PROVE k + 1 \in P
  <2>1. ASSUME NEW p \in Seq(Seq(S)), Len(p) = k + 1 PROVE InFront(x, p)
    <3>0. p # << >>
      BY <2>1, SMT
    <3>1. PICK r \in Seq(Seq(S)), y \in Seq(S) : p = Append(r, y)
      BY <3>0, SequenceEmptyOrAppend
    <3>2. Len(r) = k /\ p = r \o <<y>> /\ <<y>> \in Seq(Seq(S))
      BY <2>1, <3>1, AppendProperties, AppendIsConcat
    <3>3. FlattenSeq(<<x>> \o r) = x \o FlattenSeq(r)
      BY <1>2, <3>2 DEF InFront
    <3>4. <<x>> \o r \in Seq(Seq(S))
      BY <1>0, ConcatProperties
    <3>5. <<x>> \o p = Append(<<x>> \o r, y)
      <4>1. Regroup(<<x>>, r, <<y>>)
        BY <1>0, <3>2, Regrouped
      <4>2. <<x>> \o p = (<<x>> \o r) \o <<y>>
        BY <3>2, <4>1 DEF Regroup
      <4> QED
        BY <3>4, <4>2, AppendIsConcat
    <3>6. FlattenSeq(<<x>> \o p) = (x \o FlattenSeq(r)) \o y
      BY <3>3, <3>4, <3>5, FlattenAppend
    <3>7. FlattenSeq(p) = FlattenSeq(r) \o y
      BY <3>1, FlattenAppend
    <3>8. FlattenSeq(r) \in Seq(S)
      BY FlattenType
    <3>9. Regroup(x, FlattenSeq(r), y)
      BY <3>8, Regrouped
    <3>10. FlattenSeq(<<x>> \o p) = x \o FlattenSeq(p)
      BY <3>6, <3>7, <3>9, Zenon DEF Regroup
    <3> QED
      BY <3>10 DEF InFront
  <2>2. k + 1 \in Nat
    BY SMT
  <2> QED
    BY <2>1, <2>2, Zenon
<1>3. n \in Nat
  OBVIOUS
<1>4. n \in P
  <2> HIDE DEF P, n
  <2>1. \A k \in 0..n : k \in P
    BY <1>1, <1>2, <1>3, UpTo
  <2> QED
    BY <1>3, <2>1
<1>5. \A p \in Seq(Seq(S)) : Len(p) = n => InFront(x, p)
  BY <1>4, Zenon
<1> QED
  BY <1>5, Zenon

(* The first buffer, and the others.                                       *)
LEMMA FlattenHead ==
  ASSUME NEW S, NEW q \in Seq(Seq(S)), q # << >>
  PROVE  FlattenSeq(q) = Head(q) \o FlattenSeq(Tail(q))
<1>1. Head(q) \in Seq(S) /\ Tail(q) \in Seq(Seq(S))
  BY HeadTailProperties
<1>2. q = <<Head(q)>> \o Tail(q)
  OBVIOUS
<1> QED
  BY <1>1, <1>2, FlattenCons DEF InFront

-----------------------------------------------------------------------------
(* A sequence cut behind its k-th element.                                 *)
LEMMA CutInTwo ==
  ASSUME NEW S, NEW s \in Seq(S), NEW k \in 0..Len(s)
  PROVE  /\ SubSeq(s, 1, k) \o SubSeq(s, k + 1, Len(s)) = s
         /\ SubSeq(s, 1, k) \in Seq(S) /\ Len(SubSeq(s, 1, k)) = k
         /\ SubSeq(s, k + 1, Len(s)) \in Seq(S)
         /\ Len(SubSeq(s, k + 1, Len(s))) = Len(s) - k
<1>1. Len(s) \in Nat /\ k \in Nat
  OBVIOUS
<1>2. SubSeq(s, 1, k) \o SubSeq(s, k + 1, Len(s)) = s
  <2>1. 1 \in 1..Len(s) + 1 /\ k \in 1 - 1..Len(s) /\ Len(s) \in k..Len(s)
    BY <1>1
  <2>2. SubSeq(s, 1, k) \o SubSeq(s, k + 1, Len(s)) = SubSeq(s, 1, Len(s))
    BY <2>1, ConcatAdjacentSubSeq
  <2> QED
    BY <2>2, SubSeqFull
<1>3. \A i \in 1..k : s[i] \in S
  BY <1>1
<1>4. \A i \in k + 1..Len(s) : s[i] \in S
  BY <1>1
<1>5. SubSeq(s, 1, k) \in Seq(S) /\ Len(SubSeq(s, 1, k)) = k
  <2>1. 1 \in Int /\ k \in Int
    BY <1>1
  <2>2. Len(SubSeq(s, 1, k)) = IF 1 <= k THEN k - 1 + 1 ELSE 0
    BY <1>3, <2>1, SubSeqProperties
  <2> QED
    BY <1>1, <1>3, <2>1, <2>2, SubSeqProperties
<1>6. SubSeq(s, k + 1, Len(s)) \in Seq(S) /\ Len(SubSeq(s, k + 1, Len(s))) = Len(s) - k
  <2>1. k + 1 \in Int /\ Len(s) \in Int
    BY <1>1
  <2>2. Len(SubSeq(s, k + 1, Len(s))) = IF k + 1 <= Len(s) THEN Len(s) - (k + 1) + 1 ELSE 0
    BY <1>4, <2>1, SubSeqProperties
  <2> QED
    BY <1>1, <1>4, <2>1, <2>2, SubSeqProperties
<1> QED
  BY <1>2, <1>5, <1>6

(* What is left of two sequences behind a cut in the first one, ...        *)
LEMMA CutFirst ==
  ASSUME NEW S, NEW s \in Seq(S), NEW t \in Seq(S), NEW k \in 0..Len(s)
  PROVE  SubSeq(s \o t, k + 1, Len(s) + Len(t)) = SubSeq(s, k + 1, Len(s)) \o t
<1>1. s \o t \in Seq(S) /\ Len(s \o t) = Len(s) + Len(t) /\ k \in 0..Len(s \o t)
  BY ConcatProperties
<1> DEFINE a == SubSeq(s, 1, k)
           b == SubSeq(s, k + 1, Len(s))
           c == SubSeq(s \o t, 1, k)
           d == SubSeq(s \o t, k + 1, Len(s) + Len(t))
<1>2. a \o b = s /\ a \in Seq(S) /\ b \in Seq(S) /\ Len(a) = k
  BY CutInTwo
<1>3. c \o d = s \o t /\ c \in Seq(S) /\ d \in Seq(S) /\ Len(c) = k
  BY <1>1, CutInTwo
<1>4. c = a
  <2>1. \A i \in 1..k : c[i] = (s \o t)[i] /\ a[i] = s[i] /\ (s \o t)[i] = s[i]
    BY SMT
  <2> QED
    <3> HIDE DEF a, c
    <3> QED
      BY <1>2, <1>3, <2>1, SeqEqual
<1> HIDE DEF a, b, c, d
<1>5. Regroup(a, b, t)
  BY <1>2, Regrouped
<1>6. b \o t \in Seq(S)
  BY <1>2, ConcatProperties
<1>7. a \o (b \o t) = a \o d
  BY <1>2, <1>3, <1>4, <1>5 DEF Regroup
<1>8. d = b \o t
  BY <1>2, <1>3, <1>6, <1>7, ConcatSimplifications
<1> QED
  BY <1>8 DEF b, d

(* ... and in the second one.                                              *)
LEMMA CutSecond ==
  ASSUME NEW S, NEW s \in Seq(S), NEW t \in Seq(S), NEW k \in 0..Len(t)
  PROVE  SubSeq(s \o t, Len(s) + k + 1, Len(s) + Len(t)) = SubSeq(t, k + 1, Len(t))
<1>1. s \o t \in Seq(S) /\ Len(s \o t) = Len(s) + Len(t) /\ Len(s) \in Nat /\ Len(t) \in Nat
  BY ConcatProperties
<1>2. CASE k = Len(t)
  BY <1>1, <1>2, SubSeqEmpty
<1>3. CASE k # Len(t)
  BY <1>1, <1>3, SubSeqOfConcat2
<1> QED
  BY <1>2, <1>3
===============================================================================
