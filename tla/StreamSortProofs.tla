-------------------------- MODULE StreamSortProofs --------------------------
(***************************************************************************)
(* That the sorter keeps time and keeps its frames, for pools, lengths,    *)
(* stamps and numbers of frames of any size.                               *)
(*                                                                         *)
(* The hard part is the pool.  Frames leave it in the order of time, new   *)
(* ones come in by age, and only the oldest is looked at before one is     *)
(* written.  What makes that enough is how the pool is laid out: position  *)
(* lies in no frame, and by age the frames from position on come first,    *)
(* then those below it, each part in the order of their addresses.         *)
(***************************************************************************)
EXTENDS StreamSort, FiniteSetTheorems, SequenceTheorems, WellFoundedInduction, TLAPS

(* The ring takes every frame a source may write.                          *)
RingTakesAll == \A l \in Lens : l < RingHalf

(* A frame that is not too big for the pool is a third of it at most; the  *)
(* first frames after a clean are put without looking.                     *)
FramesAreShort == \A l \in Lens : l < ssbuf.datasize \div 2 => 3 * l <= ssbuf.datasize

Nodes == [timestamp : Nat, len : Nat \ {0}, position : Nat]

End(nd) == nd.position + nd.len

(* The lists as one: p by time, A by age; m says which frame of p has an   *)
(* address of A, each frame one.                                           *)
Matches(m, p, A) ==
  /\ m \in [1 .. Len(A) -> 1 .. Len(p)]
  /\ \A i \in 1 .. Len(p) : \E j \in 1 .. Len(A) : m[j] = i
  /\ \A j, k \in 1 .. Len(A) : m[j] = m[k] => j = k
  /\ \A j \in 1 .. Len(A) : A[j] = p[m[j]].position

Agree(p, A) == Len(A) = Len(p) /\ \E m : Matches(m, p, A)

Apart(p) ==
  \A i, j \in 1 .. Len(p) : i # j => End(p[i]) <= p[j].position \/ End(p[j]) <= p[i].position

InPool(p, s, d) ==
  /\ s <= d
  /\ \A i \in 1 .. Len(p) : End(p[i]) <= d /\ (End(p[i]) <= s \/ s <= p[i].position)

(* Of two frames the older is the lower one, unless the place of the next  *)
(* frame lies between them, and then it is the higher.                     *)
Aged(A, s) ==
  \A i, j \in 1 .. Len(A) : i < j =>
     IF A[i] < s <=> A[j] < s THEN A[i] < A[j] ELSE s <= A[i]

Sorted(p) == \A i, j \in 1 .. Len(p) : i <= j => p[i].timestamp <= p[j].timestamp

TimeInv(b) ==
  /\ Sorted(b.phead)
  /\ b.phead # << >> => /\ b.mintimestamp = b.phead[1].timestamp
                        /\ b.maxtimestamp = b.phead[Len(b.phead)].timestamp

CountInv(b) ==
  /\ b.uiPutFrameCount - b.u32PopFrameCount = Len(b.phead)
  /\ b.uiValidLen = PackedAt(b.phead, Len(b.phead) + 1)

(* What IsReversed compares with is not earlier than what was handed over, *)
(* until a regrowth forgets it.                                            *)
HandInv(b) ==
  ~b.regrown => /\ b.last <= b.premintimestamp
                /\ \A i \in 1 .. Len(b.phead) : b.last <= b.phead[i].timestamp

EmptyInv(b) ==
  b.phead = << >> => b.uiPutFrameCount = 0 /\ b.u32PopFrameCount = 0 /\ b.last = 0 /\ ~b.regrown

Taken(p) == \A i \in 1 .. Len(p) : p[i].len < RingHalf

(* What SortsInTime needs.                                                 *)
SortInv(b) ==
  /\ b \in SC_ssbuff /\ b.phead \in Seq(Nodes) /\ Taken(b.phead)
  /\ Agree(b.phead, b.frameaddr)
  /\ TimeInv(b) /\ CountInv(b) /\ HandInv(b) /\ EmptyInv(b)

(* What HeldIntact needs: how the pool is laid out, and that the first     *)
(* frames, which are put without looking, lie one behind the other.        *)
PoolInv(b) ==
  /\ Apart(b.phead) /\ InPool(b.phead, b.position, b.datasize) /\ Aged(b.frameaddr, b.position)
  /\ b.phead = << >> => b.position = 0
  /\ b.uiPutFrameCount <= 2 => /\ 3 * b.position <= b.uiPutFrameCount * b.datasize
                               /\ \A i \in 1 .. Len(b.phead) : End(b.phead[i]) <= b.position

-----------------------------------------------------------------------------
(* Sums of lengths *)

(* Induction, for a set of numbers.                                        *)
LEMMA NatSetInduction ==
  ASSUME NEW S, 0 \in S, \A n \in Nat : n \in S => n + 1 \in S
  PROVE  Nat \subseteq S
<1> DEFINE T == Nat \ S
           R == OpToRel(<, Nat)
<1>1. SUFFICES ASSUME T # {} PROVE FALSE
  OBVIOUS
<1>2. IsWellFoundedOn(R, Nat)
  BY NatLessThanWellFounded
<1>3. T \subseteq Nat
  OBVIOUS
<1> HIDE DEF R
<1>4. PICK x \in T : \A y \in T : <<y, x>> \notin R
  BY <1>1, <1>2, <1>3, WFMin, Zenon
<1>5. R = {ss \in Nat \X Nat : ss[1] < ss[2]}
  BY DEF R, OpToRel
<1>6. x # 0 /\ x \in Nat /\ x - 1 \in T
  OBVIOUS
<1>7. <<x - 1, x>> \in R
  BY <1>5, <1>6
<1> QED BY <1>4, <1>6, <1>7

(* Among numbers there is a smallest.                                      *)
LEMMA SmallestOf ==
  ASSUME NEW I \in SUBSET Nat, I # {}
  PROVE  \E x \in I : \A y \in I : x <= y
<1> DEFINE R == OpToRel(<, Nat)
<1>1. IsWellFoundedOn(R, Nat)
  BY NatLessThanWellFounded
<1>2. R = {ss \in Nat \X Nat : ss[1] < ss[2]}
  BY DEF OpToRel
<1> HIDE DEF R
<1>3. PICK x \in I : \A y \in I : <<y, x>> \notin R
  BY <1>1, WFMin, Zenon
<1>4. \A y \in I : y < x => <<y, x>> \in R
  BY <1>2
<1>5. x \in Nat /\ \A y \in I : y \in Nat
  BY <1>3
<1>6. ASSUME NEW y \in I PROVE x <= y
  <2>1. ~(y < x)
    BY <1>3, <1>4
  <2> QED BY <1>5, <2>1
<1> QED BY <1>3, <1>6

(* f tells for the nodes up to i where each begins.                        *)
IsPacking(f, p, i) == f = [k \in 1 .. i |-> IF k = 1 THEN 0 ELSE f[k - 1] + p[k - 1].len]

LEMMA PackingExists ==
  ASSUME NEW p \in Seq(Nodes), NEW i \in 1 .. Len(p) + 1
  PROVE  \E f : IsPacking(f, p, i)
<1> DEFINE S == {n \in Nat : n \in 1 .. Len(p) + 1 => \E f \in [1 .. n -> Nat] : IsPacking(f, p, n)}
<1>1. 0 \in S
  OBVIOUS
<1>2. ASSUME NEW n \in Nat, n \in S PROVE n + 1 \in S
  <2> SUFFICES ASSUME n + 1 \in 1 .. Len(p) + 1
               PROVE  \E f \in [1 .. n + 1 -> Nat] : IsPacking(f, p, n + 1)
    OBVIOUS
  <2>1. CASE n = 0
    <3> DEFINE f == [k \in 1 .. 1 |-> 0]
    <3>1. f \in [1 .. 1 -> Nat] /\ IsPacking(f, p, 1)
      BY DEF IsPacking
    <3> HIDE DEF f
    <3> QED BY <3>1, <2>1
  <2>2. CASE n # 0
    <3>1. PICK f \in [1 .. n -> Nat] : IsPacking(f, p, n)
      BY <1>2, <2>2
    <3>2. p[n] \in Nodes /\ p[n].len \in Nat
      <4>1. n \in 1 .. Len(p)
        BY <2>2
      <4>2. p[n] \in Nodes
        BY <4>1
      <4> QED BY <4>2 DEF Nodes
    <3> DEFINE g == [k \in 1 .. n + 1 |-> IF k = n + 1 THEN f[n] + p[n].len ELSE f[k]]
    <3>3. g \in [1 .. n + 1 -> Nat]
      BY <3>2, <2>2
    <3>4. \A k \in 1 .. n : f[k] = IF k = 1 THEN 0 ELSE f[k - 1] + p[k - 1].len
      BY <3>1 DEF IsPacking
    <3>5. \A k \in 1 .. n + 1 : g[k] = IF k = 1 THEN 0 ELSE g[k - 1] + p[k - 1].len
      BY <3>4, <2>2
    <3>6. IsPacking(g, p, n + 1)
      BY <3>3, <3>5 DEF IsPacking
    <3> QED BY <3>3, <3>6
  <2> QED BY <2>1, <2>2
<1> HIDE DEF S
<1>3. Nat \subseteq S
  BY <1>1, <1>2, NatSetInduction
<1>4. i \in Nat /\ i \in S
  BY <1>3
<1> QED BY <1>4 DEF S

(* Of two packings the shorter agrees with the longer.                     *)
LEMMA PackingUnique ==
  ASSUME NEW p \in Seq(Nodes), NEW q \in Seq(Nodes), NEW i \in Nat, NEW j \in Nat, NEW f, NEW g,
         IsPacking(f, p, i), IsPacking(g, q, j),
         i <= j, \A k \in 1 .. i - 1 : p[k].len = q[k].len
  PROVE  \A k \in 1 .. i : f[k] = g[k]
<1> DEFINE S == {k \in Nat : k \in 1 .. i => f[k] = g[k]}
<1>1. /\ \A k \in 1 .. i : f[k] = IF k = 1 THEN 0 ELSE f[k - 1] + p[k - 1].len
      /\ \A k \in 1 .. j : g[k] = IF k = 1 THEN 0 ELSE g[k - 1] + q[k - 1].len
  <2>1. f = [k \in 1 .. i |-> IF k = 1 THEN 0 ELSE f[k - 1] + p[k - 1].len]
    BY DEF IsPacking
  <2>2. g = [k \in 1 .. j |-> IF k = 1 THEN 0 ELSE g[k - 1] + q[k - 1].len]
    BY DEF IsPacking
  <2> QED BY <2>1, <2>2
<1>2. 0 \in S
  OBVIOUS
<1>3. ASSUME NEW k \in Nat, k \in S PROVE k + 1 \in S
  <2> SUFFICES ASSUME k + 1 \in 1 .. i PROVE f[k + 1] = g[k + 1]
    OBVIOUS
  <2>1. CASE k = 0
    BY <2>1, <1>1
  <2>2. CASE k # 0
    <3>1. f[k] = g[k] /\ p[k].len = q[k].len
      BY <1>3, <2>2
    <3>2. f[k + 1] = f[k] + p[k].len /\ g[k + 1] = g[k] + q[k].len
      BY <1>1, <2>2
    <3> QED BY <3>1, <3>2
  <2> QED BY <2>1, <2>2
<1> HIDE DEF S
<1>4. Nat \subseteq S
  BY <1>2, <1>3, NatSetInduction
<1> QED BY <1>4 DEF S

(* The recursion that defines PackedAt, and that only lengths count.       *)
LEMMA PackedIs ==
  ASSUME NEW p \in Seq(Nodes)
  PROVE  \A i \in 1 .. Len(p) + 1 : \E f : IsPacking(f, p, i) /\ PackedAt(p, i) = f[i]
<1> TAKE i \in 1 .. Len(p) + 1
<1>1. PackedAt(p, i) = (CHOOSE f : IsPacking(f, p, i))[i]
  BY DEF PackedAt, IsPacking
<1>2. IsPacking(CHOOSE f : IsPacking(f, p, i), p, i)
  BY PackingExists
<1> QED BY <1>1, <1>2

LEMMA PackedSame ==
  ASSUME NEW p \in Seq(Nodes), NEW q \in Seq(Nodes), NEW i \in Nat, i \in 1 .. Len(p) + 1,
         i \in 1 .. Len(q) + 1, \A k \in 1 .. i - 1 : p[k].len = q[k].len
  PROVE  PackedAt(p, i) = PackedAt(q, i)
<1>1. PICK f : IsPacking(f, p, i) /\ PackedAt(p, i) = f[i]
  BY PackedIs
<1>2. PICK g : IsPacking(g, q, i) /\ PackedAt(q, i) = g[i]
  BY PackedIs
<1>3. \A k \in 1 .. i : f[k] = g[k]
  <2>1. i \in Nat /\ i <= i /\ \A k \in 1 .. i - 1 : p[k].len = q[k].len
    OBVIOUS
  <2> QED BY ONLY <1>1, <1>2, <2>1, PackingUnique
<1> QED BY <1>1, <1>2, <1>3

LEMMA PackedStep ==
  ASSUME NEW p \in Seq(Nodes)
  PROVE  /\ PackedAt(p, 1) = 0
         /\ \A i \in 1 .. Len(p) : PackedAt(p, i + 1) = PackedAt(p, i) + p[i].len
<1>1. PackedAt(p, 1) = 0
  <2>1. PICK f : IsPacking(f, p, 1) /\ PackedAt(p, 1) = f[1]
    BY PackedIs
  <2>2. f = [k \in 1 .. 1 |-> IF k = 1 THEN 0 ELSE f[k - 1] + p[k - 1].len]
    BY <2>1 DEF IsPacking
  <2> QED BY <2>1, <2>2
<1>2. ASSUME NEW i \in 1 .. Len(p) PROVE PackedAt(p, i + 1) = PackedAt(p, i) + p[i].len
  <2>1. PICK f : IsPacking(f, p, i) /\ PackedAt(p, i) = f[i]
    BY PackedIs
  <2>2. i + 1 \in 1 .. Len(p) + 1
    OBVIOUS
  <2>3. PICK g : IsPacking(g, p, i + 1) /\ PackedAt(p, i + 1) = g[i + 1]
    BY <2>2, PackedIs
  <2>4. f[i] = g[i]
    <3>1. i \in Nat /\ i + 1 \in Nat /\ i <= i + 1 /\ i \in 1 .. i
      OBVIOUS
    <3>2. \A k \in 1 .. i - 1 : p[k].len = p[k].len
      OBVIOUS
    <3>3. \A k \in 1 .. i : f[k] = g[k]
      BY ONLY <2>1, <2>3, <3>1, <3>2, PackingUnique
    <3> QED BY <3>1, <3>3
  <2>5. g = [k \in 1 .. i + 1 |-> IF k = 1 THEN 0 ELSE g[k - 1] + p[k - 1].len]
    BY <2>3 DEF IsPacking
  <2>6. g[i + 1] = g[i] + p[i].len
    BY <2>5
  <2> QED BY <2>1, <2>3, <2>4, <2>6
<1> QED BY <1>1, <1>2

LEMMA PackedNat ==
  ASSUME NEW p \in Seq(Nodes)
  PROVE  \A i \in 1 .. Len(p) + 1 : PackedAt(p, i) \in Nat
<1> DEFINE S == {n \in Nat : n + 1 \in 1 .. Len(p) + 1 => PackedAt(p, n + 1) \in Nat}
<1>1. 0 \in S
  BY PackedStep
<1>2. ASSUME NEW n \in Nat, n \in S PROVE n + 1 \in S
  <2> SUFFICES ASSUME n + 2 \in 1 .. Len(p) + 1 PROVE PackedAt(p, n + 2) \in Nat
    OBVIOUS
  <2>1. n + 1 \in 1 .. Len(p)
    OBVIOUS
  <2>2. PackedAt(p, n + 1) \in Nat
    BY <1>2, <2>1
  <2>3. p[n + 1] \in Nodes
    BY <2>1
  <2>4. PackedAt(p, n + 1 + 1) = PackedAt(p, n + 1) + p[n + 1].len
    BY <2>1, PackedStep
  <2> QED BY SMTT(30), <2>2, <2>3, <2>4 DEF Nodes
<1> HIDE DEF S
<1>3. Nat \subseteq S
  BY <1>1, <1>2, NatSetInduction
<1> SUFFICES ASSUME NEW i \in 1 .. Len(p) + 1 PROVE PackedAt(p, i) \in Nat
  OBVIOUS
<1>4. i - 1 \in Nat /\ (i - 1) + 1 = i
  OBVIOUS
<1>5. i - 1 \in S
  BY <1>3, <1>4
<1> QED BY <1>4, <1>5 DEF S

-----------------------------------------------------------------------------
(* Frames coming and going *)

(* q is p with nd put in as the k-th; and the other way round p is q       *)
(* without its k-th element.                                               *)
IsInserted(q, p, k, nd) ==
  /\ k \in 1 .. Len(p) + 1
  /\ Len(q) = Len(p) + 1
  /\ \A i \in 1 .. Len(p) + 1 : q[i] = IF i < k THEN p[i] ELSE IF i = k THEN nd ELSE p[i - 1]

LEMMA AppendInserts ==
  ASSUME NEW T, NEW p \in Seq(T), NEW nd \in T
  PROVE  Append(p, nd) \in Seq(T) /\ IsInserted(Append(p, nd), p, Len(p) + 1, nd)
<1>1. Len(p) \in Nat
  OBVIOUS
<1> QED BY <1>1, AppendProperties DEF IsInserted

LEMMA ConsInserts ==
  ASSUME NEW T, NEW p \in Seq(T), NEW nd \in T
  PROVE  <<nd>> \o p \in Seq(T) /\ IsInserted(<<nd>> \o p, p, 1, nd)
<1>1. <<nd>> \in Seq(T) /\ Len(<<nd>>) = 1 /\ <<nd>>[1] = nd /\ Len(p) \in Nat
  OBVIOUS
<1>2. /\ <<nd>> \o p \in Seq(T)
      /\ Len(<<nd>> \o p) = 1 + Len(p)
      /\ \A i \in 1 .. 1 + Len(p) : (<<nd>> \o p)[i] = IF i <= 1 THEN <<nd>>[i] ELSE p[i - 1]
  BY <1>1, ConcatProperties
<1> QED BY <1>1, <1>2 DEF IsInserted

LEMMA InsertAtInserts ==
  ASSUME NEW T, NEW p \in Seq(T), NEW nd \in T, NEW k \in 1 .. Len(p)
  PROVE  InsertAt(p, k, nd) \in Seq(T) /\ IsInserted(InsertAt(p, k, nd), p, k, nd)
<1> DEFINE a == SubSeq(p, 1, k - 1)
           b == SubSeq(p, k, Len(p))
           c == <<nd>>
<1>0. Len(p) \in Nat /\ k \in Nat
  OBVIOUS
<1>1. a \in Seq(T) /\ Len(a) = k - 1 /\ \A i \in 1 .. k - 1 : a[i] = p[i]
  BY <1>0, SubSeqProperties
<1>2. b \in Seq(T) /\ Len(b) = Len(p) - k + 1 /\ \A i \in 1 .. Len(p) - k + 1 : b[i] = p[k + i - 1]
  BY <1>0, SubSeqProperties
<1>3. c \in Seq(T) /\ Len(c) = 1 /\ c[1] = nd
  OBVIOUS
<1> HIDE DEF a, b, c
<1>4. /\ a \o c \in Seq(T) /\ Len(a \o c) = k
      /\ \A i \in 1 .. k : (a \o c)[i] = IF i <= k - 1 THEN a[i] ELSE c[i - (k - 1)]
  <2>1. /\ a \o c \in Seq(T) /\ Len(a \o c) = Len(a) + Len(c)
        /\ \A i \in 1 .. Len(a) + Len(c) : (a \o c)[i] = IF i <= Len(a) THEN a[i] ELSE c[i - Len(a)]
    BY <1>1, <1>3, ConcatProperties
  <2> QED BY <1>0, <1>1, <1>3, <2>1
<1>5. /\ (a \o c) \o b \in Seq(T) /\ Len((a \o c) \o b) = Len(p) + 1
      /\ \A i \in 1 .. Len(p) + 1 : ((a \o c) \o b)[i] = IF i <= k THEN (a \o c)[i] ELSE b[i - k]
  <2>1. /\ (a \o c) \o b \in Seq(T) /\ Len((a \o c) \o b) = Len(a \o c) + Len(b)
        /\ \A i \in 1 .. Len(a \o c) + Len(b) :
              ((a \o c) \o b)[i] = IF i <= Len(a \o c) THEN (a \o c)[i] ELSE b[i - Len(a \o c)]
    BY <1>2, <1>4, ConcatProperties
  <2> QED BY SMTT(30), <1>0, <1>2, <1>4, <2>1
<1>6. InsertAt(p, k, nd) = (a \o c) \o b
  BY DEF InsertAt, a, b, c
<1>7. \A i \in 1 .. Len(p) + 1 :
         ((a \o c) \o b)[i] = IF i < k THEN p[i] ELSE IF i = k THEN nd ELSE p[i - 1]
  <2> SUFFICES ASSUME NEW i \in 1 .. Len(p) + 1
               PROVE  ((a \o c) \o b)[i] = IF i < k THEN p[i] ELSE IF i = k THEN nd ELSE p[i - 1]
    OBVIOUS
  <2>1. CASE i < k
    BY <2>1, <1>0, <1>1, <1>4, <1>5
  <2>2. CASE i = k
    BY <2>2, <1>0, <1>3, <1>4, <1>5
  <2>3. CASE i > k
    <3>1. i - k \in 1 .. Len(p) - k + 1 /\ k + (i - k) - 1 = i - 1 /\ ~(i <= k) /\ ~(i < k) /\ i # k
      BY <2>3, <1>0
    <3>2. ((a \o c) \o b)[i] = b[i - k]
      BY <3>1, <1>5
    <3>3. b[i - k] = p[k + (i - k) - 1]
      BY <3>1, <1>2
    <3> QED BY <3>1, <3>2, <3>3
  <2>4. i < k \/ i = k \/ i > k
    BY <1>0
  <2> QED BY <2>1, <2>2, <2>3, <2>4
<1> QED BY <1>0, <1>5, <1>6, <1>7 DEF IsInserted

LEMMA TailRemoves ==
  ASSUME NEW T, NEW p \in Seq(T), p # << >>
  PROVE  Tail(p) \in Seq(T) /\ IsInserted(p, Tail(p), 1, p[1]) /\ Head(p) = p[1] /\ p[1] \in T
<1>1. Len(p) \in Nat /\ Len(p) >= 1
  BY EmptySeq
<1>2. Tail(p) \in Seq(T) /\ Len(Tail(p)) = Len(p) - 1 /\ \A i \in 1 .. Len(Tail(p)) : Tail(p)[i] = p[i + 1]
  BY HeadTailProperties
<1> QED BY <1>1, <1>2 DEF IsInserted

(* A list without its j-th element.                                        *)
LEMMA RemoveAtRemoves ==
  ASSUME NEW T, NEW A \in Seq(T), NEW j \in 1 .. Len(A), NEW a, A[j] = a
  PROVE  RemoveAt(A, j) \in Seq(T) /\ IsInserted(A, RemoveAt(A, j), j, a)
<1>0. Len(A) \in Nat
  OBVIOUS
<1>2. j \in 1 .. Len(A) /\ A[j] = a
  OBVIOUS
<1> DEFINE b == SubSeq(A, 1, j - 1)
           c == SubSeq(A, j + 1, Len(A))
<1>4. b \in Seq(T) /\ Len(b) = j - 1 /\ \A i \in 1 .. j - 1 : b[i] = A[i]
  BY <1>0, <1>2, SubSeqProperties
<1>5. c \in Seq(T) /\ Len(c) = Len(A) - j /\ \A i \in 1 .. Len(A) - j : c[i] = A[j + i]
  BY <1>0, <1>2, SubSeqProperties
<1> HIDE DEF b, c
<1>6. /\ b \o c \in Seq(T) /\ Len(b \o c) = Len(A) - 1
      /\ \A i \in 1 .. Len(A) - 1 : (b \o c)[i] = IF i <= j - 1 THEN b[i] ELSE c[i - (j - 1)]
  <2>1. /\ b \o c \in Seq(T) /\ Len(b \o c) = Len(b) + Len(c)
        /\ \A i \in 1 .. Len(b) + Len(c) : (b \o c)[i] = IF i <= Len(b) THEN b[i] ELSE c[i - Len(b)]
    BY <1>4, <1>5, ConcatProperties
  <2> QED BY <1>0, <1>2, <1>4, <1>5, <2>1
<1>7. RemoveAt(A, j) = b \o c
  BY DEF RemoveAt, b, c
<1>8. \A i \in 1 .. Len(A) - 1 : (b \o c)[i] = IF i < j THEN A[i] ELSE A[i + 1]
  <2> SUFFICES ASSUME NEW i \in 1 .. Len(A) - 1
               PROVE  (b \o c)[i] = IF i < j THEN A[i] ELSE A[i + 1]
    OBVIOUS
  <2>1. CASE i < j
    BY <2>1, <1>0, <1>2, <1>4, <1>6
  <2>2. CASE i >= j
    <3>1. i - (j - 1) \in 1 .. Len(A) - j /\ j + (i - (j - 1)) = i + 1
      BY <2>2, <1>0, <1>2
    <3>2. ~(i <= j - 1) /\ ~(i < j)
      BY <2>2, <1>0, <1>2
    <3>3. (b \o c)[i] = c[i - (j - 1)]
      BY <3>2, <1>6
    <3>4. c[i - (j - 1)] = A[i + 1]
      BY <3>1, <1>5
    <3> QED BY <3>2, <3>3, <3>4
  <2>3. i < j \/ i >= j
    BY <1>0, <1>2
  <2> QED BY <2>1, <2>2, <2>3
<1>9. IsInserted(A, b \o c, j, a)
  <2>1. j \in Nat /\ j \in 1 .. Len(b \o c) + 1 /\ Len(A) = Len(b \o c) + 1
    BY <1>0, <1>2, <1>6
  <2>2. ASSUME NEW i \in 1 .. Len(b \o c) + 1
        PROVE  A[i] = IF i < j THEN (b \o c)[i] ELSE IF i = j THEN a ELSE (b \o c)[i - 1]
    <3>0. i \in Nat
      OBVIOUS
    <3>1. CASE i < j
      <4>1. i \in 1 .. Len(A) - 1
        BY <3>1, <2>1, <1>2, <1>0
      <4> QED BY <3>1, <4>1, <1>8
    <3>2. CASE i = j
      BY <3>2, <1>2, <2>1
    <3>3. CASE i > j
      <4>1. i - 1 \in 1 .. Len(A) - 1 /\ ~(i - 1 < j) /\ ~(i < j) /\ i # j /\ (i - 1) + 1 = i
        BY <3>3, <2>1, <1>2, <1>0, <3>0
      <4>2. (b \o c)[i - 1] = A[(i - 1) + 1]
        BY <4>1, <1>8
      <4> QED BY <4>1, <4>2
    <3>4. i < j \/ i = j \/ i > j
      BY <3>0, <2>1
    <3> QED BY <3>1, <3>2, <3>3, <3>4
  <2> QED BY <2>1, <2>2 DEF IsInserted
<1> QED BY <1>6, <1>7, <1>9

(* RemoveFirst takes out the first of what is there.                       *)
LEMMA RemoveFirstRemoves ==
  ASSUME NEW T, NEW A \in Seq(T), NEW a, Contains(A, a)
  PROVE  /\ RemoveFirst(A, a) \in Seq(T)
         /\ \E j \in 1 .. Len(A) : A[j] = a /\ IsInserted(A, RemoveFirst(A, a), j, a)
<1> DEFINE I == {i \in 1 .. Len(A) : A[i] = a}
           j == Min(I)
<1>0. Len(A) \in Nat
  OBVIOUS
<1>1. j \in I
  <2>1. I # {} /\ I \subseteq Nat
    BY <1>0 DEF Contains
  <2>2. \E x \in I : \A y \in I : x <= y
    BY <2>1, SmallestOf
  <2> QED BY <2>2 DEF Min
<1> HIDE DEF I
<1>2. j \in 1 .. Len(A) /\ A[j] = a
  BY <1>1 DEF I
<1>3. RemoveFirst(A, a) = RemoveAt(A, j)
  <2>1. \E i \in 1 .. Len(A) : A[i] = a
    BY DEF Contains
  <2>2. SelectInSeq(A, LAMBDA v : v = a) = j
    BY <1>1 DEF SelectInSeq, I
  <2> QED BY <2>1, <2>2 DEF RemoveFirst
<1> HIDE DEF j
<1>4. RemoveAt(A, j) \in Seq(T) /\ IsInserted(A, RemoveAt(A, j), j, a)
  BY <1>2, RemoveAtRemoves
<1> QED BY <1>2, <1>3, <1>4

(* A frame more is its length more.                                        *)
LEMMA InsertedSum ==
  ASSUME NEW p \in Seq(Nodes), NEW q \in Seq(Nodes), NEW k \in Nat, NEW nd \in Nodes,
         IsInserted(q, p, k, nd)
  PROVE  PackedAt(q, Len(q) + 1) = PackedAt(p, Len(p) + 1) + nd.len
<1> DEFINE S == {n \in Nat : k + n <= Len(p) + 1
                               => PackedAt(q, k + n + 1) = PackedAt(p, k + n) + nd.len}
<1>0. /\ Len(p) \in Nat /\ Len(q) = Len(p) + 1 /\ k \in 1 .. Len(p) + 1
      /\ \A i \in 1 .. Len(p) + 1 : q[i] = IF i < k THEN p[i] ELSE IF i = k THEN nd ELSE p[i - 1]
  BY DEF IsInserted
<1>1. 0 \in S
  <2>1. k \in 1 .. Len(q) + 1 /\ \A i \in 1 .. k - 1 : p[i].len = q[i].len
    BY <1>0
  <2>2. PackedAt(p, k) = PackedAt(q, k)
    BY <1>0, <2>1, PackedSame
  <2>3. PackedAt(q, k + 1) = PackedAt(q, k) + nd.len
    BY <1>0, PackedStep
  <2> QED BY <2>2, <2>3
<1>2. ASSUME NEW n \in Nat, n \in S PROVE n + 1 \in S
  <2> SUFFICES ASSUME k + (n + 1) <= Len(p) + 1
               PROVE  PackedAt(q, k + (n + 1) + 1) = PackedAt(p, k + (n + 1)) + nd.len
    OBVIOUS
  <2> DEFINE i == k + n
  <2>1. i \in 1 .. Len(p) /\ i + 1 \in 1 .. Len(q) /\ i \in Nat /\ k <= i
    BY <1>0
  <2>2. PackedAt(q, i + 1) = PackedAt(p, i) + nd.len
    BY <1>2, <2>1
  <2> HIDE DEF i
  <2>3. PackedAt(q, i + 1 + 1) = PackedAt(q, i + 1) + q[i + 1].len
    BY <2>1, PackedStep
  <2>4. PackedAt(p, i + 1) = PackedAt(p, i) + p[i].len
    BY <2>1, PackedStep
  <2>5. q[i + 1] = p[i]
    BY <1>0, <2>1
  <2>6. PackedAt(p, i) \in Nat /\ p[i].len \in Nat /\ nd.len \in Nat
    <3>1. PackedAt(p, i) \in Nat
      BY <1>0, <2>1, PackedNat
    <3>2. p[i] \in Nodes
      BY <2>1
    <3> QED BY <3>1, <3>2 DEF Nodes
  <2>7. PackedAt(q, i + 1 + 1) = PackedAt(p, i + 1) + nd.len
    BY SMTT(30), <2>2, <2>3, <2>4, <2>5, <2>6
  <2>8. k + (n + 1) + 1 = i + 1 + 1 /\ k + (n + 1) = i + 1
    BY DEF i
  <2> QED BY <2>7, <2>8
<1> HIDE DEF S
<1>3. Nat \subseteq S
  BY <1>1, <1>2, NatSetInduction
<1> DEFINE e == Len(p) + 1 - k
<1>4. e \in Nat /\ k + e = Len(p) + 1 /\ k + e <= Len(p) + 1 /\ k + e + 1 = Len(q) + 1
  BY <1>0
<1>5. e \in S
  BY <1>3, <1>4
<1> HIDE DEF e
<1> QED BY <1>4, <1>5 DEF S

-----------------------------------------------------------------------------
(* The two lists kept in step *)

LEMMA AgreeEmpty == Agree(<< >>, << >>)
<1>1. Matches([j \in {} |-> 1], << >>, << >>)
  BY DEF Matches
<1> QED BY <1>1 DEF Agree

(* Each list has what the other has.                                       *)
LEMMA AgreeBoth ==
  ASSUME NEW p \in Seq(Nodes), NEW A \in Seq(Nat), Agree(p, A)
  PROVE  /\ Len(A) = Len(p)
         /\ \A i \in 1 .. Len(p) : \E j \in 1 .. Len(A) : A[j] = p[i].position
         /\ \A j \in 1 .. Len(A) : \E i \in 1 .. Len(p) : A[j] = p[i].position
<1>1. PICK m : Matches(m, p, A)
  BY DEF Agree
<1>2. \A j \in 1 .. Len(A) : m[j] \in 1 .. Len(p) /\ A[j] = p[m[j]].position
  BY <1>1 DEF Matches
<1>3. \A i \in 1 .. Len(p) : \E j \in 1 .. Len(A) : m[j] = i
  BY <1>1 DEF Matches
<1>4. \A i \in 1 .. Len(p) : \E j \in 1 .. Len(A) : A[j] = p[i].position
  BY <1>2, <1>3
<1> QED BY <1>2, <1>4 DEF Agree

(* A frame put anywhere in the one and last in the other.                  *)
LEMMA AgreeInserted ==
  ASSUME NEW p \in Seq(Nodes), NEW q \in Seq(Nodes), NEW A \in Seq(Nat), NEW k \in Nat,
         NEW nd \in Nodes, IsInserted(q, p, k, nd), Agree(p, A)
  PROVE  Agree(q, Append(A, nd.position))
<1> DEFINE B == Append(A, nd.position)
           n == Len(p)
<1>0. /\ n \in Nat /\ Len(q) = n + 1 /\ k \in 1 .. n + 1 /\ Len(A) = n
      /\ \A i \in 1 .. n + 1 : q[i] = IF i < k THEN p[i] ELSE IF i = k THEN nd ELSE p[i - 1]
  BY DEF IsInserted, Agree
<1>1. PICK m : Matches(m, p, A)
  BY DEF Agree
<1>2. /\ m \in [1 .. n -> 1 .. n]
      /\ \A i \in 1 .. n : \E j \in 1 .. n : m[j] = i
      /\ \A j, l \in 1 .. n : m[j] = m[l] => j = l
      /\ \A j \in 1 .. n : A[j] = p[m[j]].position
  BY <1>0, <1>1 DEF Matches
<1>3. Len(B) = n + 1 /\ B[n + 1] = nd.position /\ \A j \in 1 .. n : B[j] = A[j]
  <2>1. nd.position \in Nat
    BY DEF Nodes
  <2> QED BY <1>0, <2>1, AppendProperties
<1> HIDE DEF B, n
<1> DEFINE mm == [j \in 1 .. n + 1 |-> IF j = n + 1 THEN k ELSE IF m[j] < k THEN m[j] ELSE m[j] + 1]
<1>a. n \in Nat /\ k \in 1 .. n + 1 /\ k \in Nat
  BY <1>0
<1>b. \A j \in 1 .. n : m[j] \in 1 .. n /\ m[j] \in Nat
  BY <1>2, <1>a
<1>4. mm \in [1 .. n + 1 -> 1 .. n + 1]
  <2> SUFFICES ASSUME NEW j \in 1 .. n + 1
               PROVE  (IF j = n + 1 THEN k ELSE IF m[j] < k THEN m[j] ELSE m[j] + 1) \in 1 .. n + 1
    OBVIOUS
  <2>1. CASE j = n + 1
    BY <2>1, <1>a
  <2>2. CASE j # n + 1
    <3>1. m[j] \in 1 .. n
      BY <2>2, <1>a, <1>b
    <3> QED BY <2>2, <3>1, <1>a
  <2> QED BY <2>1, <2>2
<1>5. \A i \in 1 .. n + 1 : \E j \in 1 .. n + 1 : mm[j] = i
  <2> TAKE i \in 1 .. n + 1
  <2>1. CASE i = k
    <3>1. n + 1 \in 1 .. n + 1 /\ mm[n + 1] = k
      BY <1>0
    <3> QED BY <3>1, <2>1
  <2>2. CASE i < k
    <3>1. i \in 1 .. n
      BY <2>2, <1>0
    <3>2. PICK j \in 1 .. n : m[j] = i
      BY <1>2, <3>1
    <3>3. j \in 1 .. n + 1 /\ j # n + 1 /\ mm[j] = i
      BY <3>2, <2>2, <1>0
    <3> QED BY <3>3
  <2>3. CASE i > k
    <3>1. i - 1 \in 1 .. n
      BY <2>3, <1>0
    <3>2. PICK j \in 1 .. n : m[j] = i - 1
      BY <1>2, <3>1
    <3>3. j \in 1 .. n + 1 /\ j # n + 1 /\ mm[j] = i
      BY <3>2, <2>3, <1>0
    <3> QED BY <3>3
  <2>4. i < k \/ i = k \/ i > k
    BY <1>0
  <2> QED BY <2>1, <2>2, <2>3, <2>4
<1>6. \A j, l \in 1 .. n + 1 : mm[j] = mm[l] => j = l
  <2> SUFFICES ASSUME NEW j \in 1 .. n + 1, NEW l \in 1 .. n + 1, mm[j] = mm[l] PROVE j = l
    OBVIOUS
  <2>1. \A x \in 1 .. n : m[x] \in 1 .. n
    BY <1>2
  <2>2. CASE j = n + 1 /\ l # n + 1
    <3>1. l \in 1 .. n
      BY <2>2, <1>0
    <3>2. mm[j] = k /\ mm[l] # k
      BY <2>1, <2>2, <3>1, <1>0
    <3> QED BY <3>2
  <2>3. CASE j # n + 1 /\ l = n + 1
    <3>1. j \in 1 .. n
      BY <2>3, <1>0
    <3>2. mm[l] = k /\ mm[j] # k
      BY <2>1, <2>3, <3>1, <1>0
    <3> QED BY <3>2
  <2>4. CASE j # n + 1 /\ l # n + 1
    <3>1. j \in 1 .. n /\ l \in 1 .. n
      BY <2>4, <1>0
    <3>2. /\ m[j] \in 1 .. n /\ m[l] \in 1 .. n
          /\ mm[j] = IF m[j] < k THEN m[j] ELSE m[j] + 1
          /\ mm[l] = IF m[l] < k THEN m[l] ELSE m[l] + 1
      BY <2>1, <2>4, <3>1
    <3>3. m[j] = m[l]
      BY SMTT(30), <3>2, <1>a
    <3> QED BY <3>1, <3>3, <1>2
  <2> QED BY <2>2, <2>3, <2>4
<1>7. \A j \in 1 .. n + 1 : B[j] = q[mm[j]].position
  <2> TAKE j \in 1 .. n + 1
  <2>1. CASE j = n + 1
    <3>1. mm[j] = k /\ q[k] = nd /\ B[j] = nd.position
      BY <2>1, <1>0, <1>3
    <3> QED BY <3>1
  <2>2. CASE j # n + 1
    <3>1. j \in 1 .. n
      BY <2>2, <1>0
    <3>2. m[j] \in 1 .. n /\ B[j] = p[m[j]].position
      BY <3>1, <1>2, <1>3
    <3>3. q[mm[j]] = p[m[j]]
      <4>1. CASE m[j] < k
        BY <4>1, <2>2, <3>2, <1>0
      <4>2. CASE m[j] >= k
        <5>1. mm[j] = m[j] + 1 /\ m[j] + 1 \in 1 .. n + 1 /\ ~(m[j] + 1 < k) /\ m[j] + 1 # k
              /\ (m[j] + 1) - 1 = m[j]
          BY SMTT(30), <4>2, <2>2, <3>2, <1>0
        <5> QED BY <5>1, <1>0
      <4>3. m[j] < k \/ m[j] >= k
        BY <3>2, <1>0
      <4> QED BY <4>1, <4>2, <4>3
    <3> QED BY <3>2, <3>3
  <2> QED BY <2>1, <2>2
<1> HIDE DEF mm
<1>8. Matches(mm, q, B)
  BY <1>0, <1>3, <1>4, <1>5, <1>6, <1>7 DEF Matches
<1> QED BY <1>0, <1>3, <1>8 DEF Agree, B

(* The first of the one goes, and an address of its in the other, whether  *)
(* or not it was its own.                                                  *)
LEMMA AgreeRemoved ==
  ASSUME NEW p \in Seq(Nodes), NEW q \in Seq(Nodes), NEW A \in Seq(Nat), NEW B \in Seq(Nat),
         NEW j \in Nat, NEW nd \in Nodes,
         IsInserted(p, q, 1, nd), IsInserted(A, B, j, nd.position), Agree(p, A)
  PROVE  Agree(q, B)
<1> DEFINE n == Len(q)
<1>0. /\ n \in Nat /\ Len(p) = n + 1 /\ Len(A) = n + 1 /\ Len(B) = n /\ j \in 1 .. n + 1
      /\ \A i \in 1 .. n + 1 : p[i] = IF i = 1 THEN nd ELSE q[i - 1]
      /\ \A i \in 1 .. n + 1 : A[i] = IF i < j THEN B[i] ELSE IF i = j THEN nd.position ELSE B[i - 1]
  <2>1. n \in Nat /\ Len(p) = n + 1 /\ Len(A) = n + 1 /\ Len(B) + 1 = n + 1 /\ Len(B) \in Nat
    BY DEF IsInserted, Agree
  <2>2. Len(B) = n
    BY <2>1
  <2>3. j \in 1 .. n + 1
    BY <2>2 DEF IsInserted
  <2>4. \A i \in 1 .. n + 1 : p[i] = IF i < 1 THEN q[i] ELSE IF i = 1 THEN nd ELSE q[i - 1]
    BY DEF IsInserted
  <2>5. \A i \in 1 .. n + 1 : p[i] = IF i = 1 THEN nd ELSE q[i - 1]
    BY <2>1, <2>4
  <2>6. \A i \in 1 .. n + 1 : A[i] = IF i < j THEN B[i] ELSE IF i = j THEN nd.position ELSE B[i - 1]
    BY <2>2 DEF IsInserted
  <2> QED BY <2>1, <2>2, <2>3, <2>5, <2>6
<1>1. PICK m : Matches(m, p, A)
  BY DEF Agree
<1> HIDE DEF n
<1>2. /\ m \in [1 .. n + 1 -> 1 .. n + 1]
      /\ \A i \in 1 .. n + 1 : \E l \in 1 .. n + 1 : m[l] = i
      /\ \A h, l \in 1 .. n + 1 : m[h] = m[l] => h = l
      /\ \A l \in 1 .. n + 1 : A[l] = p[m[l]].position
  BY <1>0, <1>1 DEF Matches
<1>a. n \in Nat /\ j \in 1 .. n + 1
  BY <1>0
<1>b. \A l \in 1 .. n + 1 : m[l] \in 1 .. n + 1
  BY <1>2
<1>3. PICK jj \in 1 .. n + 1 : m[jj] = 1
  <2>1. 1 \in 1 .. n + 1
    BY <1>0
  <2> QED BY <2>1, <1>2
<1> DEFINE m1 == [l \in 1 .. n + 1 |-> IF l = j THEN 1 ELSE IF l = jj THEN m[j] ELSE m[l]]
<1>4. /\ m1 \in [1 .. n + 1 -> 1 .. n + 1]
      /\ \A i \in 1 .. n + 1 : \E l \in 1 .. n + 1 : m1[l] = i
      /\ \A h, l \in 1 .. n + 1 : m1[h] = m1[l] => h = l
      /\ \A l \in 1 .. n + 1 : A[l] = p[m1[l]].position
      /\ m1[j] = 1
  <2>1. m1 \in [1 .. n + 1 -> 1 .. n + 1] /\ m1[j] = 1
    <3>1. 1 \in 1 .. n + 1
      BY <1>a
    <3> QED BY <3>1, <1>a, <1>b, <1>3
  <2>2. ASSUME NEW i \in 1 .. n + 1 PROVE \E l \in 1 .. n + 1 : m1[l] = i
    <3>1. PICK l \in 1 .. n + 1 : m[l] = i
      BY <1>2
    <3>2. m1[j] = 1 /\ (jj # j => m1[jj] = m[j]) /\ (l # j /\ l # jj => m1[l] = i)
      BY <1>0, <1>3, <3>1
    <3> QED BY <3>1, <3>2, <1>0, <1>3
  <2>3. ASSUME NEW h \in 1 .. n + 1, NEW l \in 1 .. n + 1, m1[h] = m1[l] PROVE h = l
    <3>1. /\ \A x, y \in 1 .. n + 1 : m[x] = m[y] => x = y
          /\ m1[h] = IF h = j THEN 1 ELSE IF h = jj THEN m[j] ELSE m[h]
          /\ m1[l] = IF l = j THEN 1 ELSE IF l = jj THEN m[j] ELSE m[l]
      BY <1>2
    <3> QED BY <2>3, <3>1, <1>a, <1>3
  <2>4. ASSUME NEW l \in 1 .. n + 1 PROVE A[l] = p[m1[l]].position
    <3>1. A[j] = nd.position
      BY <1>0
    <3>2. p[1] = nd
      BY <1>0
    <3>3. A[jj] = p[1].position /\ A[j] = p[m[j]].position
      BY <1>2, <1>3, <1>a
    <3> QED BY <3>1, <3>2, <3>3, <1>2
  <2> QED BY <2>1, <2>2, <2>3, <2>4
<1> HIDE DEF m1
<1>5. \A l \in 1 .. n + 1 : l # j => m1[l] - 1 \in 1 .. n /\ m1[l] \in 1 .. n + 1
  <2> SUFFICES ASSUME NEW l \in 1 .. n + 1, l # j PROVE m1[l] - 1 \in 1 .. n /\ m1[l] \in 1 .. n + 1
    OBVIOUS
  <2>1. m1[l] # 1 /\ m1[l] \in 1 .. n + 1
    BY <1>a, <1>4
  <2> QED BY <2>1, <1>a
<1> DEFINE up(x) == IF x < j THEN x ELSE x + 1
           mm == [x \in 1 .. n |-> m1[up(x)] - 1]
<1>6. \A x \in 1 .. n : up(x) \in 1 .. n + 1 /\ up(x) # j
  BY SMTT(30), <1>0
<1>7. mm \in [1 .. n -> 1 .. n] /\ \A x \in 1 .. n : mm[x] = m1[up(x)] - 1
  BY <1>5, <1>6
<1>8. \A i \in 1 .. n : \E x \in 1 .. n : mm[x] = i
  <2> TAKE i \in 1 .. n
  <2>1. i + 1 \in 1 .. n + 1 /\ i \in Nat
    BY <1>0
  <2>2. PICK l \in 1 .. n + 1 : m1[l] = i + 1
    BY <2>1, <1>4
  <2>3. l # j
    BY <2>1, <2>2, <1>4
  <2> DEFINE x == IF l < j THEN l ELSE l - 1
  <2>4. x \in 1 .. n /\ up(x) = l
    <3>1. l \in 1 .. n + 1 /\ l # j
      BY <2>2, <2>3
    <3> QED BY <3>1, <1>a
  <2>5. mm[x] = m1[up(x)] - 1
    BY <2>4, <1>7
  <2> HIDE DEF x, up, mm
  <2>6. mm[x] = i
    BY <2>1, <2>2, <2>4, <2>5
  <2> QED BY <2>4, <2>6
<1>9. \A x, y \in 1 .. n : mm[x] = mm[y] => x = y
  <2> SUFFICES ASSUME NEW x \in 1 .. n, NEW y \in 1 .. n, mm[x] = mm[y] PROVE x = y
    OBVIOUS
  <2>1. m1[up(x)] = m1[up(y)]
    <3>1. m1[up(x)] \in 1 .. n + 1 /\ m1[up(y)] \in 1 .. n + 1
      BY <1>5, <1>6
    <3>2. m1[up(x)] - 1 = m1[up(y)] - 1
      BY <1>7
    <3> HIDE DEF up
    <3> QED BY <3>1, <3>2, <1>a
  <2>2. up(x) = up(y)
    BY <2>1, <1>4, <1>6
  <2> QED BY <2>2, <1>a
<1>10. \A x \in 1 .. n : B[x] = q[mm[x]].position
  <2> TAKE x \in 1 .. n
  <2>1. B[x] = A[up(x)]
    <3>1. CASE x < j
      BY <3>1, <1>0, <1>6
    <3>2. CASE x >= j
      <4>1. up(x) = x + 1 /\ x + 1 \in 1 .. n + 1 /\ ~(x + 1 < j) /\ x + 1 # j /\ (x + 1) - 1 = x
        BY <3>2, <1>a
      <4> QED BY <4>1, <1>0
    <3>3. x < j \/ x >= j
      BY <1>0
    <3> QED BY <3>1, <3>2, <3>3
  <2>2. A[up(x)] = p[m1[up(x)]].position
    BY <1>4, <1>6
  <2>3. p[m1[up(x)]] = q[mm[x]]
    <3>1. m1[up(x)] \in 1 .. n + 1 /\ m1[up(x)] # 1 /\ mm[x] = m1[up(x)] - 1
      <4>1. m1[up(x)] - 1 \in 1 .. n /\ m1[up(x)] \in 1 .. n + 1
        BY <1>5, <1>6
      <4> QED BY SMTT(30), <4>1, <1>0, <1>7
    <3> QED BY <3>1, <1>0
  <2> QED BY <2>1, <2>2, <2>3
<1> HIDE DEF mm
<1>11. Matches(mm, q, B)
  BY <1>0, <1>7, <1>8, <1>9, <1>10 DEF Matches, n
<1> QED BY <1>0, <1>11 DEF Agree, n

(* Packed anew, the two are walked in step.                                *)
LEMMA AgreeRepacked ==
  ASSUME NEW p \in Seq(Nodes), NEW q \in Seq(Nodes), NEW A \in Seq(Nat),
         Len(q) = Len(p), Len(A) = Len(p),
         \A i \in 1 .. Len(p) : A[i] = q[i].position
  PROVE  Agree(q, A)
<1> DEFINE m == [j \in 1 .. Len(A) |-> j]
<1>1. Matches(m, q, A)
  BY DEF Matches
<1> QED BY <1>1 DEF Agree

-----------------------------------------------------------------------------
(* The pool *)

(* Where the next frame goes, of a pool at s, and where the one after it.  *)
PlaceOf(s, d, len) == IF s + len <= d THEN s ELSE 0
NextPlace(s, d, len) == IF PlaceOf(s, d, len) + len = d THEN 0 ELSE PlaceOf(s, d, len) + len

(* No frame lies where one of this length is to be put, nor, when it has   *)
(* to go to the start, between there and the end.                          *)
Room(p, s, d, len) ==
  /\ len < d
  /\ IF s + len <= d
     THEN \A i \in 1 .. Len(p) : End(p[i]) <= s \/ s + len <= p[i].position
     ELSE \A i \in 1 .. Len(p) : End(p[i]) <= s /\ len <= p[i].position

LEMMA NodeFacts ==
  ASSUME NEW p \in Seq(Nodes)
  PROVE  \A i \in 1 .. Len(p) : /\ p[i] \in Nodes /\ p[i].position \in Nat /\ p[i].len \in Nat \ {0}
                                /\ End(p[i]) \in Nat /\ End(p[i]) = p[i].position + p[i].len
                                /\ p[i].position < End(p[i])
<1> TAKE i \in 1 .. Len(p)
<1>1. p[i] \in Nodes
  OBVIOUS
<1>2. p[i].position \in Nat /\ p[i].len \in Nat \ {0}
  BY <1>1 DEF Nodes
<1> QED BY <1>1, <1>2 DEF End

(* To look at the oldest frame is enough.                                  *)
LEMMA OldestIsEnough ==
  ASSUME NEW p \in Seq(Nodes), NEW A \in Seq(Nat), NEW s \in Nat, NEW d \in Nat,
         NEW len \in Nat \ {0}, len < d, A # << >>, Agree(p, A), InPool(p, s, d), Aged(A, s),
         ~(IF s + len <= d THEN s <= A[1] /\ A[1] <= s + len ELSE s <= A[1] \/ A[1] <= len)
  PROVE  Room(p, s, d, len)
<1>1. Len(A) \in Nat /\ Len(A) >= 1
  BY EmptySeq
<1>2. \A j \in 1 .. Len(A) : A[j] \in Nat
  OBVIOUS
<1>3. \A i \in 1 .. Len(p) : \E j \in 1 .. Len(A) : A[j] = p[i].position
  BY AgreeBoth
<1>4. \A j \in 1 .. Len(A) : 1 < j => IF A[1] < s <=> A[j] < s THEN A[1] < A[j] ELSE s <= A[1]
  <2>1. 1 \in 1 .. Len(A)
    BY <1>1
  <2> QED BY <2>1 DEF Aged
<1>5. ASSUME NEW i \in 1 .. Len(p)
      PROVE  IF s + len <= d THEN End(p[i]) <= s \/ s + len <= p[i].position
                             ELSE End(p[i]) <= s /\ len <= p[i].position
  <2>1. PICK j \in 1 .. Len(A) : A[j] = p[i].position
    BY <1>3
  <2>2. /\ p[i].position \in Nat /\ p[i].position < End(p[i]) /\ End(p[i]) \in Nat
        /\ End(p[i]) <= s \/ s <= p[i].position
    BY NodeFacts DEF InPool
  <2>3. A[1] \in Nat /\ 1 \in 1 .. Len(A) /\ A[j] \in Nat
    BY <1>1, <1>2
  <2>4. 1 = j \/ 1 < j
    BY <1>1
  <2>5. 1 < j => IF A[1] < s <=> A[j] < s THEN A[1] < A[j] ELSE s <= A[1]
    BY <1>4
  <2>6. 1 = j => A[1] = A[j]
    OBVIOUS
  <2>7. CASE s + len <= d
    <3>1. A[1] < s \/ s + len < A[1]
      BY <2>3, <2>7
    <3>2. A[j] < s \/ s + len < A[j]
      BY <2>3, <2>4, <2>5, <2>6, <3>1
    <3> QED BY <2>1, <2>2, <2>7, <3>2
  <2>8. CASE ~(s + len <= d)
    <3>1. A[1] < s /\ len < A[1]
      BY <2>3, <2>8
    <3>2. A[j] < s /\ len < A[j]
      BY <2>3, <2>4, <2>5, <2>6, <3>1
    <3> QED BY <2>1, <2>2, <2>8, <3>2
  <2> QED BY <2>7, <2>8
<1> QED BY <1>5 DEF Room

(* What is in a list into which a node was put.                            *)
LEMMA InsertedFrom ==
  ASSUME NEW p, NEW q, NEW k, NEW nd, IsInserted(q, p, k, nd), Len(p) \in Nat
  PROVE  \A x \in 1 .. Len(q) : q[x] = nd \/ \E i \in 1 .. Len(p) : q[x] = p[i]
<1> SUFFICES ASSUME NEW x \in 1 .. Len(q) PROVE q[x] = nd \/ \E i \in 1 .. Len(p) : q[x] = p[i]
  OBVIOUS
<1>1. /\ Len(p) \in Nat /\ x \in 1 .. Len(p) + 1 /\ k \in 1 .. Len(p) + 1
      /\ q[x] = IF x < k THEN p[x] ELSE IF x = k THEN nd ELSE p[x - 1]
  BY DEF IsInserted
<1>2. CASE x < k
  BY <1>1, <1>2
<1>3. CASE x = k
  BY <1>1, <1>3
<1>4. CASE x > k
  <2>1. x - 1 \in 1 .. Len(p) /\ ~(x < k) /\ x # k
    BY <1>1, <1>4
  <2> QED BY <1>1, <2>1
<1>5. x < k \/ x = k \/ x > k
  BY <1>1
<1> QED BY <1>2, <1>3, <1>4, <1>5

(* A frame put where there is room.                                        *)
LEMMA PlacedKeeps ==
  ASSUME NEW p \in Seq(Nodes), NEW q \in Seq(Nodes), NEW A \in Seq(Nat), NEW s \in Nat,
         NEW d \in Nat, NEW k \in Nat, NEW nd \in Nodes,
         IsInserted(q, p, k, nd), nd.position = PlaceOf(s, d, nd.len),
         Agree(p, A), Apart(p), InPool(p, s, d), Aged(A, s), Room(p, s, d, nd.len)
  PROVE  /\ Apart(q) /\ InPool(q, NextPlace(s, d, nd.len), d)
         /\ Aged(Append(A, nd.position), NextPlace(s, d, nd.len))
<1> DEFINE len == nd.len
           at == nd.position
           s2 == NextPlace(s, d, nd.len)
           B == Append(A, nd.position)
<1>1. len \in Nat \ {0} /\ at \in Nat /\ End(nd) = at + len /\ len < d
  BY DEF Nodes, End, Room
<1>2. at = (IF s + len <= d THEN s ELSE 0) /\ s2 = (IF at + len = d THEN 0 ELSE at + len)
  BY DEF NextPlace, PlaceOf
<1>3. s <= d /\ \A i \in 1 .. Len(p) : End(p[i]) <= d /\ (End(p[i]) <= s \/ s <= p[i].position)
  BY DEF InPool
<1>4. \A i \in 1 .. Len(p) : IF s + len <= d THEN End(p[i]) <= s \/ s + len <= p[i].position
                                             ELSE End(p[i]) <= s /\ len <= p[i].position
  BY DEF Room
<1>5. \A i \in 1 .. Len(p) : /\ p[i].position \in Nat /\ End(p[i]) \in Nat
                             /\ p[i].position < End(p[i])
  BY NodeFacts
<1>6. s2 \in Nat /\ s2 <= d /\ End(nd) <= d /\ (End(nd) <= s2 \/ s2 <= at)
  BY <1>1, <1>2, <1>3
<1>7. \A x \in 1 .. Len(q) : q[x] = nd \/ \E i \in 1 .. Len(p) : q[x] = p[i]
  BY SMTT(30), InsertedFrom
<1>8. \A i \in 1 .. Len(p) : /\ End(p[i]) <= s2 \/ s2 <= p[i].position
                             /\ End(p[i]) <= at \/ End(nd) <= p[i].position
  <2> SUFFICES ASSUME NEW i \in 1 .. Len(p)
               PROVE  /\ End(p[i]) <= s2 \/ s2 <= p[i].position
                      /\ End(p[i]) <= at \/ End(nd) <= p[i].position
    OBVIOUS
  <2> DEFINE e == End(p[i])
             o == p[i].position
  <2>1. /\ e \in Nat /\ o \in Nat /\ o < e /\ e <= d /\ (e <= s \/ s <= o)
        /\ IF s + len <= d THEN e <= s \/ s + len <= o ELSE e <= s /\ len <= o
    BY <1>3, <1>4, <1>5
  <2> HIDE DEF e, o, s2, at, len
  <2>2. (e <= s2 \/ s2 <= o) /\ (e <= at \/ at + len <= o)
    BY ONLY <1>1, <1>2, <1>3, <2>1, s \in Nat, d \in Nat
  <2> QED BY <1>1, <2>2 DEF e, o
<1>9. InPool(q, s2, d)
  <2> HIDE DEF s2
  <2> QED BY <1>3, <1>6, <1>7, <1>8 DEF InPool
<1>10. Apart(q)
  <2> SUFFICES ASSUME NEW x \in 1 .. Len(q), NEW y \in 1 .. Len(q), x # y
               PROVE  End(q[x]) <= q[y].position \/ End(q[y]) <= q[x].position
    BY DEF Apart
  <2>1. /\ Len(p) \in Nat /\ x \in 1 .. Len(p) + 1 /\ y \in 1 .. Len(p) + 1 /\ k \in 1 .. Len(p) + 1
        /\ q[x] = IF x < k THEN p[x] ELSE IF x = k THEN nd ELSE p[x - 1]
        /\ q[y] = IF y < k THEN p[y] ELSE IF y = k THEN nd ELSE p[y - 1]
    BY DEF IsInserted
  <2> DEFINE dn(z) == IF z < k THEN z ELSE z - 1
  <2>2. /\ x # k => dn(x) \in 1 .. Len(p) /\ q[x] = p[dn(x)]
        /\ y # k => dn(y) \in 1 .. Len(p) /\ q[y] = p[dn(y)]
    BY <2>1
  <2>3. CASE x = k
    <3>1. y # k /\ q[x] = nd
      BY <2>1, <2>3
    <3> QED BY <1>8, <2>2, <3>1
  <2>4. CASE y = k
    <3>1. x # k /\ q[y] = nd
      BY <2>1, <2>4
    <3> QED BY <1>8, <2>2, <3>1
  <2>5. CASE x # k /\ y # k
    <3>1. dn(x) # dn(y)
      BY <2>1, <2>5
    <3> HIDE DEF dn
    <3> QED BY <2>2, <2>5, <3>1 DEF Apart
  <2> QED BY <2>3, <2>4, <2>5
<1>11. Aged(B, s2)
  <2>1. /\ Len(A) \in Nat /\ Len(B) = Len(A) + 1 /\ B[Len(A) + 1] = at
        /\ \A j \in 1 .. Len(A) : B[j] = A[j] /\ A[j] \in Nat
    BY SMTT(30), <1>1, AppendProperties
  <2>2. \A j \in 1 .. Len(A) : \E i \in 1 .. Len(p) : A[j] = p[i].position
    BY AgreeBoth
  <2> HIDE DEF B, s2, at, len
  <2>3. ASSUME NEW j \in 1 .. Len(A)
        PROVE  /\ A[j] \in Nat
               /\ IF s + len <= d THEN A[j] < s \/ s + len <= A[j] ELSE A[j] < s /\ len <= A[j]
               /\ A[j] < d
    <3>1. PICK i \in 1 .. Len(p) : A[j] = p[i].position
      BY <2>2
    <3> DEFINE e == End(p[i])
               o == p[i].position
    <3>2. /\ e \in Nat /\ o \in Nat /\ o < e /\ e <= d
          /\ IF s + len <= d THEN e <= s \/ s + len <= o ELSE e <= s /\ len <= o
      BY <1>3, <1>4, <1>5
    <3>3. A[j] = o
      BY <3>1
    <3> HIDE DEF e, o
    <3> QED BY <1>1, <3>2, <3>3
  <2>4. ASSUME NEW i \in 1 .. Len(A), NEW j \in 1 .. Len(A), i < j
        PROVE  IF A[i] < s2 <=> A[j] < s2 THEN A[i] < A[j] ELSE s2 <= A[i]
    <3>1. IF A[i] < s <=> A[j] < s THEN A[i] < A[j] ELSE s <= A[i]
      BY <2>4 DEF Aged
    <3>2. /\ A[i] \in Nat /\ A[j] \in Nat /\ A[i] < d /\ A[j] < d
          /\ IF s + len <= d THEN A[i] < s \/ s + len <= A[i] ELSE A[i] < s /\ len <= A[i]
          /\ IF s + len <= d THEN A[j] < s \/ s + len <= A[j] ELSE A[j] < s /\ len <= A[j]
      BY <2>3
    <3> DEFINE a == A[i]
               c == A[j]
    <3> HIDE DEF a, c
    <3> QED BY SMTT(30), <1>1, <1>2, <3>1, <3>2 DEF a, c
  <2>5. ASSUME NEW i \in 1 .. Len(A)
        PROVE  IF A[i] < s2 <=> at < s2 THEN A[i] < at ELSE s2 <= A[i]
    <3>1. /\ A[i] \in Nat /\ A[i] < d
          /\ IF s + len <= d THEN A[i] < s \/ s + len <= A[i] ELSE A[i] < s /\ len <= A[i]
      BY <2>3
    <3> QED BY <1>1, <1>2, <3>1
  <2> SUFFICES ASSUME NEW i \in 1 .. Len(B), NEW j \in 1 .. Len(B), i < j
               PROVE  IF B[i] < s2 <=> B[j] < s2 THEN B[i] < B[j] ELSE s2 <= B[i]
    BY DEF Aged
  <2>6. i \in 1 .. Len(A) /\ (j \in 1 .. Len(A) \/ j = Len(A) + 1)
    <3>1. Len(A) \in Nat /\ Len(B) = Len(A) + 1
      BY <2>1
    <3>2. i \in 1 .. Len(A) + 1 /\ j \in 1 .. Len(A) + 1 /\ i < j
      BY <3>1
    <3> QED BY ONLY <3>1, <3>2
  <2>7. CASE j \in 1 .. Len(A)
    BY <2>1, <2>4, <2>6, <2>7
  <2>8. CASE j = Len(A) + 1
    BY <2>1, <2>5, <2>6, <2>8
  <2> QED BY <2>6, <2>7, <2>8
<1> QED BY <1>9, <1>10, <1>11

(* Frames that leave make no trouble.                                      *)
LEMMA LeavingKeeps ==
  ASSUME NEW p \in Seq(Nodes), NEW q \in Seq(Nodes), NEW k \in Nat, NEW nd, IsInserted(p, q, k, nd)
  PROVE  /\ \A i \in 1 .. Len(q) : \E x \in 1 .. Len(p) : x # k /\ q[i] = p[x]
         /\ Apart(p) => Apart(q)
         /\ \A s, d : InPool(p, s, d) => InPool(q, s, d)
         /\ \A s, d, len : Room(p, s, d, len) => Room(q, s, d, len)
<1> DEFINE up(x) == IF x < k THEN x ELSE x + 1
<1>1. Len(q) \in Nat /\ Len(p) = Len(q) + 1 /\ k \in 1 .. Len(q) + 1
  BY DEF IsInserted
<1>2. \A x \in 1 .. Len(q) + 1 : p[x] = IF x < k THEN q[x] ELSE IF x = k THEN nd ELSE q[x - 1]
  BY DEF IsInserted
<1>3. \A i \in 1 .. Len(q) : up(i) \in 1 .. Len(p) /\ up(i) # k /\ q[i] = p[up(i)]
  <2> SUFFICES ASSUME NEW i \in 1 .. Len(q)
               PROVE  up(i) \in 1 .. Len(p) /\ up(i) # k /\ q[i] = p[up(i)]
    OBVIOUS
  <2>1. CASE i < k
    <3>1. i \in 1 .. Len(q) + 1 /\ i # k
      BY <1>1, <2>1
    <3> QED BY <1>1, <1>2, <2>1, <3>1
  <2>2. CASE i >= k
    <3>1. i + 1 \in 1 .. Len(q) + 1 /\ ~(i + 1 < k) /\ i + 1 # k /\ (i + 1) - 1 = i /\ ~(i < k)
      BY <1>1, <2>2
    <3>2. p[i + 1] = q[(i + 1) - 1]
      BY <1>2, <3>1
    <3> QED BY <1>1, <3>1, <3>2
  <2>3. i < k \/ i >= k
    BY <1>1
  <2> QED BY <2>1, <2>2, <2>3
<1>4. \A i, j \in 1 .. Len(q) : i # j => up(i) # up(j)
  BY <1>1
<1> HIDE DEF up
<1>5. \A i \in 1 .. Len(q) : \E x \in 1 .. Len(p) : x # k /\ q[i] = p[x]
  BY <1>3
<1>6. Apart(p) => Apart(q)
  BY <1>3, <1>4 DEF Apart
<1>7. \A s, d : InPool(p, s, d) => InPool(q, s, d)
  BY <1>3 DEF InPool
<1>8. \A s, d, len : Room(p, s, d, len) => Room(q, s, d, len)
  BY <1>3 DEF Room
<1> QED BY <1>5, <1>6, <1>7, <1>8

LEMMA AgedKeeps ==
  ASSUME NEW A \in Seq(Nat), NEW B \in Seq(Nat), NEW k \in Nat, NEW a, IsInserted(A, B, k, a), NEW s,
         Aged(A, s)
  PROVE  Aged(B, s)
<1> DEFINE up(x) == IF x < k THEN x ELSE x + 1
<1>1. Len(B) \in Nat /\ Len(A) = Len(B) + 1 /\ k \in 1 .. Len(B) + 1
  BY DEF IsInserted
<1>2. \A x \in 1 .. Len(B) + 1 : A[x] = IF x < k THEN B[x] ELSE IF x = k THEN a ELSE B[x - 1]
  BY DEF IsInserted
<1>3. \A i \in 1 .. Len(B) : up(i) \in 1 .. Len(A) /\ B[i] = A[up(i)]
  <2> SUFFICES ASSUME NEW i \in 1 .. Len(B)
               PROVE  up(i) \in 1 .. Len(A) /\ B[i] = A[up(i)]
    OBVIOUS
  <2>1. CASE i < k
    <3>1. i \in 1 .. Len(B) + 1 /\ i # k
      BY <1>1, <2>1
    <3> QED BY <1>1, <1>2, <2>1, <3>1
  <2>2. CASE i >= k
    <3>1. i + 1 \in 1 .. Len(B) + 1 /\ ~(i + 1 < k) /\ i + 1 # k /\ (i + 1) - 1 = i /\ ~(i < k)
      BY <1>1, <2>2
    <3>2. A[i + 1] = B[(i + 1) - 1]
      BY <1>2, <3>1
    <3> QED BY <1>1, <3>1, <3>2
  <2>3. i < k \/ i >= k
    BY <1>1
  <2> QED BY <2>1, <2>2, <2>3
<1>4. \A i, j \in 1 .. Len(B) : i < j => up(i) < up(j)
  BY SMTT(30), <1>1
<1> HIDE DEF up
<1> QED BY <1>3, <1>4 DEF Aged

(* What lies apart in a pool is no longer than the pool.                   *)
LEMMA FitsInPool ==
  ASSUME NEW p \in Seq(Nodes), NEW d \in Nat, Apart(p), \A i \in 1 .. Len(p) : End(p[i]) <= d
  PROVE  PackedAt(p, Len(p) + 1) <= d
<1> DEFINE S == {n \in Nat : \A x \in Seq(Nodes), e \in Nat :
                    Len(x) = n /\ Apart(x) /\ (\A i \in 1 .. Len(x) : End(x[i]) <= e)
                      => PackedAt(x, Len(x) + 1) <= e}
<1>1. 0 \in S
  <2> SUFFICES ASSUME NEW x \in Seq(Nodes), NEW e \in Nat, Len(x) = 0
               PROVE  PackedAt(x, Len(x) + 1) <= e
    OBVIOUS
  <2>1. PackedAt(x, 1) = 0
    BY PackedStep
  <2> QED BY <2>1
<1>2. ASSUME NEW n \in Nat, n \in S PROVE n + 1 \in S
  <2> SUFFICES ASSUME NEW x \in Seq(Nodes), NEW e \in Nat, Len(x) = n + 1, Apart(x),
                      \A i \in 1 .. Len(x) : End(x[i]) <= e
               PROVE  PackedAt(x, Len(x) + 1) <= e
    OBVIOUS
  <2> HIDE DEF S
  <2>1. \A i \in 1 .. Len(x) : /\ x[i] \in Nodes /\ x[i].position \in Nat /\ x[i].len \in Nat \ {0}
                               /\ End(x[i]) \in Nat /\ End(x[i]) = x[i].position + x[i].len
    BY NodeFacts
  <2> DEFINE I == {e - x[i].position : i \in 1 .. Len(x)}
  <2>2. I \in SUBSET Nat
    <3>1. ASSUME NEW i \in 1 .. Len(x) PROVE e - x[i].position \in Nat
      <4>1. /\ x[i].position \in Nat /\ x[i].len \in Nat
            /\ End(x[i]) = x[i].position + x[i].len /\ End(x[i]) <= e
        BY <2>1
      <4> QED BY ONLY <4>1, e \in Nat
    <3> SUFFICES ASSUME NEW v \in I PROVE v \in Nat
      OBVIOUS
    <3>2. PICK i \in 1 .. Len(x) : v = e - x[i].position
      OBVIOUS
    <3> QED BY ONLY <3>1, <3>2
  <2>3. e - x[1].position \in I
    <3>1. 1 \in 1 .. Len(x)
      OBVIOUS
    <3> QED BY <3>1
  <2>4. \E v \in I : \A y \in I : v <= y
    <3> HIDE DEF I
    <3> QED BY <2>2, <2>3, SmallestOf
  <2>5. PICK k \in 1 .. Len(x) : \A y \in I : e - x[k].position <= y
    BY <2>4
  <2>6. \A i \in 1 .. Len(x) : x[i].position <= x[k].position
    <3> SUFFICES ASSUME NEW i \in 1 .. Len(x) PROVE x[i].position <= x[k].position
      OBVIOUS
    <3>1. e - x[i].position \in I
      OBVIOUS
    <3>2. e - x[k].position <= e - x[i].position
      BY <2>5, <3>1
    <3>3. x[i].position \in Nat /\ x[k].position \in Nat
      BY <2>1
    <3> QED BY ONLY <3>2, <3>3, e \in Nat
  <2> HIDE DEF I
  <2> DEFINE q == RemoveAt(x, k)
             o == x[k].position
  <2>7. q \in Seq(Nodes) /\ IsInserted(x, q, k, x[k]) /\ k \in Nat /\ x[k] \in Nodes
    <3>1. x[k] \in Nodes /\ k \in Nat
      BY <2>1
    <3>2. q \in Seq(Nodes) /\ IsInserted(x, q, k, x[k])
      BY ONLY x \in Seq(Nodes), k \in 1 .. Len(x), RemoveAtRemoves
    <3> QED BY <3>1, <3>2
  <2> HIDE DEF q
  <2>8. Len(q) = n
    <3>1. Len(q) \in Nat /\ Len(x) = Len(q) + 1
      BY <2>7 DEF IsInserted
    <3> QED BY <3>1
  <2>9. Apart(q) /\ \A i \in 1 .. Len(q) : End(q[i]) <= o
    <3>1. Apart(q) /\ \A i \in 1 .. Len(q) : \E y \in 1 .. Len(x) : y # k /\ q[i] = x[y]
      BY <2>7, LeavingKeeps
    <3>2. ASSUME NEW y \in 1 .. Len(x), y # k PROVE End(x[y]) <= o
      <4>1. End(x[y]) <= o \/ End(x[k]) <= x[y].position
        BY <3>2 DEF Apart
      <4>2. x[y].position <= o
        BY <2>6
      <4>3. /\ o \in Nat /\ x[k].len \in Nat \ {0} /\ End(x[k]) = o + x[k].len
            /\ x[y].position \in Nat
        BY <2>1
      <4> HIDE DEF o
      <4>4. ~(End(x[k]) <= x[y].position)
        BY ONLY <4>2, <4>3
      <4> QED BY <4>1, <4>4
    <3> QED BY <3>1, <3>2
  <2>10. PackedAt(q, Len(q) + 1) <= o
    <3>1. o \in Nat
      BY <2>1
    <3> HIDE DEF o
    <3> QED BY <1>2, <2>7, <2>8, <2>9, <3>1 DEF S
  <2>11. PackedAt(x, Len(x) + 1) = PackedAt(q, Len(q) + 1) + x[k].len
    BY <2>7, InsertedSum
  <2>12. PackedAt(q, Len(q) + 1) \in Nat
    <3>1. Len(q) + 1 \in 1 .. Len(q) + 1
      BY <2>8
    <3> QED BY <2>7, <3>1, PackedNat
  <2>13. o + x[k].len <= e /\ o \in Nat /\ x[k].len \in Nat
    BY <2>1
  <2> HIDE DEF o
  <2> QED BY ONLY <2>10, <2>11, <2>12, <2>13, e \in Nat
<1> HIDE DEF S
<1>3. Nat \subseteq S
  BY <1>1, <1>2, NatSetInduction
<1>4. Len(p) \in S
  BY <1>3
<1> QED BY <1>4 DEF S

(* Packed frames lie one behind the other.                                 *)
LEMMA PackedRises ==
  ASSUME NEW p \in Seq(Nodes), NEW i \in 1 .. Len(p), NEW j \in 1 .. Len(p) + 1, i < j
  PROVE  PackedAt(p, i) + p[i].len <= PackedAt(p, j)
<1> DEFINE S == {m \in Nat : i + 1 + m <= Len(p) + 1
                               => PackedAt(p, i) + p[i].len <= PackedAt(p, i + 1 + m)}
<1>0. /\ \A k \in 1 .. Len(p) + 1 : PackedAt(p, k) \in Nat
      /\ \A k \in 1 .. Len(p) : p[k].len \in Nat /\ PackedAt(p, k + 1) = PackedAt(p, k) + p[k].len
  BY PackedNat, PackedStep, NodeFacts
<1>1. 0 \in S
  <2>1. i \in Nat /\ i + 1 + 0 = i + 1 /\ i \in 1 .. Len(p) + 1
    OBVIOUS
  <2> QED BY <1>0, <2>1
<1>2. ASSUME NEW m \in Nat, m \in S PROVE m + 1 \in S
  <2> SUFFICES ASSUME i + 1 + (m + 1) <= Len(p) + 1
               PROVE  PackedAt(p, i) + p[i].len <= PackedAt(p, i + 1 + (m + 1))
    OBVIOUS
  <2> DEFINE k == i + 1 + m
  <2>1. k \in 1 .. Len(p) /\ i + 1 + (m + 1) = k + 1 /\ k <= Len(p) + 1 /\ k \in 1 .. Len(p) + 1
    OBVIOUS
  <2>2. PackedAt(p, i) + p[i].len <= PackedAt(p, k)
    BY <1>2, <2>1
  <2> HIDE DEF k
  <2>3. PackedAt(p, k + 1) = PackedAt(p, k) + p[k].len
    BY <1>0, <2>1
  <2>4. /\ PackedAt(p, i) \in Nat /\ p[i].len \in Nat /\ PackedAt(p, k) \in Nat /\ p[k].len \in Nat
    BY SMTT(30), <1>0, <2>1
  <2>5. PackedAt(p, i) + p[i].len <= PackedAt(p, k + 1)
    BY ONLY SMTT(30), <2>2, <2>3, <2>4
  <2> QED BY <2>1, <2>5
<1> HIDE DEF S
<1>3. Nat \subseteq S
  BY <1>1, <1>2, NatSetInduction
<1> DEFINE e == j - (i + 1)
<1>4. e \in Nat /\ i + 1 + e = j /\ i + 1 + e <= Len(p) + 1
  OBVIOUS
<1>5. e \in S
  BY <1>3, <1>4
<1> HIDE DEF e
<1> QED BY <1>4, <1>5 DEF S

(* A pool with room for a frame of this length; the first frames are a     *)
(* third of it at most.                                                    *)
Ready(b, len) ==
  /\ PoolInv(b) /\ Room(b.phead, b.position, b.datasize, len)
  /\ b.uiPutFrameCount <= 2 => 3 * len <= b.datasize

LEMMA PoolSame ==
  ASSUME NEW b, PoolInv(b), NEW c, c.phead = b.phead, c.frameaddr = b.frameaddr,
         c.position = b.position, c.datasize = b.datasize, c.uiPutFrameCount = b.uiPutFrameCount
  PROVE  PoolInv(c)
BY DEF PoolInv

LEMMA EmptiedPool ==
  ASSUME NEW c \in SC_ssbuff, c.phead = << >>, c.frameaddr = << >>, c.position = 0,
         c.uiPutFrameCount = 0
  PROVE  PoolInv(c)
<1>1. c.datasize \in Nat /\ Len(<< >>) = 0
  BY DEF SC_ssbuff
<1> QED BY <1>1 DEF PoolInv, Apart, InPool, Aged

(* A frame put where there is room, in whatever place by time.             *)
LEMMA InsertedPool ==
  ASSUME NEW b, SortInv(b), NEW c, NEW nd \in Nodes, NEW k \in Nat, Ready(b, nd.len),
         c.phead \in Seq(Nodes), IsInserted(c.phead, b.phead, k, nd),
         c.frameaddr = Append(b.frameaddr, nd.position),
         nd.position = CopyAt(b, nd.len), c.position = MemcpyToSortBuff(b, nd.len).position,
         c.datasize = b.datasize, c.uiPutFrameCount = b.uiPutFrameCount + 1
  PROVE  PoolInv(c)
<1> DEFINE p == b.phead
           q == c.phead
           s == b.position
           d == b.datasize
           len == nd.len
           n == b.uiPutFrameCount
<1>1. /\ b \in SC_ssbuff /\ p \in Seq(Nodes) /\ q \in Seq(Nodes) /\ b.frameaddr \in Seq(Nat)
      /\ s \in Nat /\ d \in Nat /\ n \in Nat /\ Agree(p, b.frameaddr)
  BY DEF SortInv, SC_ssbuff
<1>2. len \in Nat \ {0} /\ nd.position \in Nat /\ End(nd) = nd.position + len
  BY DEF Nodes, End
<1>3. nd.position = PlaceOf(s, d, len)
  BY DEF CopyAt, PlaceOf
<1>4. c.position = NextPlace(s, d, len)
  <2> DEFINE x == NextPlace(s, d, len)
  <2>1. MemcpyToSortBuff(b, len) = [b EXCEPT !.position = x]
    BY DEF MemcpyToSortBuff, CopyAt, PlaceOf, NextPlace
  <2> HIDE DEF x
  <2>2. [b EXCEPT !.position = x].position = x
    BY <1>1 DEF SC_ssbuff
  <2> QED BY <2>1, <2>2 DEF x
<1>5. /\ Apart(p) /\ InPool(p, s, d) /\ Aged(b.frameaddr, s) /\ Room(p, s, d, len) /\ len < d
      /\ n <= 2 => /\ 3 * len <= d /\ 3 * s <= n * d /\ \A i \in 1 .. Len(p) : End(p[i]) <= s
  BY DEF Ready, PoolInv, Room
<1>6. IsInserted(q, p, k, nd) /\ Len(p) \in Nat /\ Len(q) = Len(p) + 1 /\ k \in 1 .. Len(p) + 1
  BY SMTT(30), <1>1 DEF IsInserted
<1>7. Apart(q) /\ InPool(q, c.position, c.datasize) /\ Aged(c.frameaddr, c.position)
  <2> HIDE DEF p, q, s, d
  <2>1. c.datasize = d
    BY DEF d
  <2>2. /\ Apart(q) /\ InPool(q, NextPlace(s, d, len), d)
        /\ Aged(Append(b.frameaddr, nd.position), NextPlace(s, d, len))
    BY ONLY <1>1, <1>3, <1>5, <1>6, PlacedKeeps, k \in Nat, nd \in Nodes
  <2> QED BY <1>4, <2>1, <2>2
<1>8. q # << >>
  <2> HIDE DEF q
  <2> QED BY ONLY <1>1, <1>6, EmptySeq
<1>9. ASSUME c.uiPutFrameCount <= 2
      PROVE  /\ 3 * c.position <= c.uiPutFrameCount * c.datasize
             /\ \A i \in 1 .. Len(q) : End(q[i]) <= c.position
  <2>1. n \in {0, 1} /\ c.uiPutFrameCount = n + 1 /\ c.datasize = d
    BY SMTT(30), <1>1, <1>9
  <2>2. 3 * len <= d /\ 3 * s <= n * d /\ \A i \in 1 .. Len(p) : End(p[i]) <= s
    BY <1>5, <2>1
  <2> HIDE DEF p, q, s, d, len, n
  <2>3. 3 * s <= d
    BY ONLY <1>1, <2>1, <2>2
  <2>4. s + len < d
    BY ONLY <1>1, <1>2, <1>5, <2>2, <2>3
  <2>5. PlaceOf(s, d, len) = s /\ NextPlace(s, d, len) = s + len
    BY <1>1, <1>2, <2>4 DEF PlaceOf, NextPlace
  <2>6. 3 * (s + len) <= (n + 1) * d
    BY ONLY <1>1, <1>2, <2>1, <2>2
  <2>7. \A i \in 1 .. Len(q) : End(q[i]) <= s + len
    <3>1. End(nd) = s + len
      BY <1>2, <1>3, <2>5
    <3>2. \A i \in 1 .. Len(p) : End(p[i]) <= s + len
      <4>1. \A i \in 1 .. Len(p) : End(p[i]) \in Nat /\ End(p[i]) <= s
        BY <1>1, <2>2, NodeFacts
      <4> QED BY <1>1, <1>2, <4>1
    <3>3. \A i \in 1 .. Len(q) : q[i] = nd \/ \E x \in 1 .. Len(p) : q[i] = p[x]
      BY <1>6, InsertedFrom
    <3>4. s + len \in Nat
      BY <1>1, <1>2
    <3> QED BY <3>1, <3>2, <3>3, <3>4
  <2> QED BY <1>4, <2>1, <2>5, <2>6, <2>7
<1> QED BY <1>7, <1>8, <1>9 DEF PoolInv

(* The first by time leaves, with an address of its.                       *)
LEMMA RemovedPool ==
  ASSUME NEW b, SortInv(b), PoolInv(b), Len(b.phead) > 1, NEW c \in SC_ssbuff, NEW j \in Nat,
         c.phead = Tail(b.phead),
         IsInserted(b.frameaddr, c.frameaddr, j, b.phead[1].position),
         c.position = b.position, c.datasize = b.datasize, c.uiPutFrameCount = b.uiPutFrameCount
  PROVE  /\ PoolInv(c)
         /\ \A len : Ready(b, len) => Ready(c, len)
<1> DEFINE p == b.phead
           q == c.phead
<1>1. /\ b \in SC_ssbuff /\ p \in Seq(Nodes) /\ b.frameaddr \in Seq(Nat) /\ c.frameaddr \in Seq(Nat)
      /\ p # << >>
  <2>1. b \in SC_ssbuff /\ p \in Seq(Nodes)
    BY DEF SortInv
  <2> QED BY <2>1 DEF SC_ssbuff
<1>2. q \in Seq(Nodes) /\ IsInserted(p, q, 1, p[1])
  BY <1>1, TailRemoves
<1>3. q # << >>
  <2>1. Len(q) >= 1
    BY <1>2 DEF IsInserted
  <2> HIDE DEF q
  <2> QED BY ONLY <1>2, <2>1, EmptySeq
<1>4. /\ \A i \in 1 .. Len(q) : \E x \in 1 .. Len(p) : x # 1 /\ q[i] = p[x]
      /\ Apart(p) => Apart(q)
      /\ \A s, d : InPool(p, s, d) => InPool(q, s, d)
      /\ \A s, d, len : Room(p, s, d, len) => Room(q, s, d, len)
  <2>1. 1 \in Nat
    OBVIOUS
  <2> HIDE DEF p, q
  <2> QED BY ONLY <1>1, <1>2, <2>1, LeavingKeeps
<1>5. Aged(c.frameaddr, c.position)
  <2>1. Aged(b.frameaddr, c.position)
    BY DEF PoolInv
  <2> QED BY <1>1, <2>1, AgedKeeps
<1>6. PoolInv(c)
  <2>1. /\ Apart(p) /\ InPool(p, b.position, b.datasize)
        /\ b.uiPutFrameCount <= 2 => /\ 3 * b.position <= b.uiPutFrameCount * b.datasize
                                     /\ \A i \in 1 .. Len(p) : End(p[i]) <= b.position
    BY DEF PoolInv
  <2>2. Apart(q) /\ InPool(q, c.position, c.datasize)
    BY <1>4, <2>1
  <2>3. c.uiPutFrameCount <= 2 => /\ 3 * c.position <= c.uiPutFrameCount * c.datasize
                                  /\ \A i \in 1 .. Len(q) : End(q[i]) <= c.position
    BY <1>4, <2>1
  <2> QED BY <1>3, <1>5, <2>2, <2>3 DEF PoolInv
<1> QED BY <1>4, <1>6 DEF Ready

-----------------------------------------------------------------------------
(* The invariant of SortsInTime under what the operations do to a buffer *)

(* A node put in its place by time, and last by age.                       *)
LEMMA InsertedKeeps ==
  ASSUME NEW b, SortInv(b), NEW c \in SC_ssbuff, NEW nd \in Nodes, nd.len < RingHalf, NEW k \in Nat,
         c.phead \in Seq(Nodes), IsInserted(c.phead, b.phead, k, nd),
         c.frameaddr = Append(b.frameaddr, nd.position),
         c.uiPutFrameCount = b.uiPutFrameCount + 1, c.u32PopFrameCount = b.u32PopFrameCount,
         c.uiValidLen = b.uiValidLen + nd.len,
         k > 1 => b.phead[k - 1].timestamp <= nd.timestamp,
         k <= Len(b.phead) => nd.timestamp <= b.phead[k].timestamp,
         c.mintimestamp = IF k = 1 THEN nd.timestamp ELSE b.mintimestamp,
         c.maxtimestamp = IF k = Len(b.phead) + 1 THEN nd.timestamp ELSE b.maxtimestamp,
         c.last = b.last, c.regrown = b.regrown,
         ~b.regrown => b.last <= nd.timestamp /\ b.last <= c.premintimestamp
  PROVE  SortInv(c)
<1> DEFINE p == b.phead
           q == c.phead
           n == Len(b.phead)
<1>1. b \in SC_ssbuff /\ p \in Seq(Nodes) /\ q \in Seq(Nodes) /\ b.frameaddr \in Seq(Nat) /\ n \in Nat
  BY DEF SortInv, SC_ssbuff
<1>2. /\ k \in 1 .. n + 1 /\ Len(q) = n + 1
      /\ \A i \in 1 .. n + 1 : q[i] = IF i < k THEN p[i] ELSE IF i = k THEN nd ELSE p[i - 1]
  BY DEF IsInserted
<1>3. (\A i \in 1 .. n : p[i] \in Nodes) /\ nd \in Nodes
  BY <1>1
<1>4. \A i \in 1 .. n : p[i].timestamp \in Nat /\ p[i].len \in Nat
  BY <1>3 DEF Nodes
<1>5. nd.timestamp \in Nat /\ nd.len \in Nat /\ nd.position \in Nat
  BY DEF Nodes
<1>6. IsInserted(q, p, k, nd)
  OBVIOUS
<1>7. Agree(q, c.frameaddr)
  <2>1. Agree(p, b.frameaddr)
    BY DEF SortInv
  <2> QED BY ONLY <1>1, <1>6, <2>1, k \in Nat, nd \in Nodes, AgreeInserted,
             c.frameaddr = Append(b.frameaddr, nd.position)
<1>8. c.uiValidLen = PackedAt(q, Len(q) + 1)
  <2>1. PackedAt(q, Len(q) + 1) = PackedAt(p, Len(p) + 1) + nd.len
    BY ONLY <1>1, <1>6, k \in Nat, nd \in Nodes, InsertedSum
  <2>2. b.uiValidLen = PackedAt(p, Len(p) + 1)
    BY DEF SortInv, CountInv
  <2> QED BY <2>1, <2>2
<1>9. CountInv(c)
  <2>1. b.uiPutFrameCount - b.u32PopFrameCount = n
    BY DEF SortInv, CountInv
  <2>2. b.uiPutFrameCount \in Nat /\ b.u32PopFrameCount \in Nat
    BY <1>1 DEF SC_ssbuff
  <2>3. c.uiPutFrameCount - c.u32PopFrameCount = Len(q)
    <3>1. /\ c.uiPutFrameCount = b.uiPutFrameCount + 1
          /\ c.u32PopFrameCount = b.u32PopFrameCount /\ Len(q) = n + 1 /\ n \in Nat
      BY <1>1, <1>2
    <3> HIDE DEF q, n
    <3> QED BY ONLY <3>1, <2>1, <2>2
  <2> QED BY <1>8, <2>3 DEF CountInv
<1>10. Taken(q)
  <2>1. \A i \in 1 .. n : p[i].len < RingHalf
    BY DEF SortInv, Taken
  <2> SUFFICES ASSUME NEW i \in 1 .. n + 1 PROVE q[i].len < RingHalf
    BY <1>2 DEF Taken
  <2>2. q[i] = nd \/ (\E l \in 1 .. n : q[i] = p[l])
    <3>1. i < k \/ i = k \/ i > k
      BY <1>2
    <3>2. CASE i < k
      BY <3>2, <1>1, <1>2
    <3>3. CASE i = k
      BY <3>3, <1>1, <1>2
    <3>4. CASE i > k
      <4>1. i - 1 \in 1 .. n /\ ~(i < k) /\ i # k
        BY <3>4, <1>1, <1>2
      <4> QED BY <4>1, <1>2
    <3> QED BY <3>1, <3>2, <3>3, <3>4
  <2> QED BY <2>1, <2>2
<1>11. \A i, j \in 1 .. n : i <= j => p[i].timestamp <= p[j].timestamp
  BY DEF SortInv, TimeInv, Sorted
<1>a. /\ k > 1 => p[k - 1].timestamp <= nd.timestamp
      /\ k <= n => nd.timestamp <= p[k].timestamp
  OBVIOUS
<1> HIDE DEF p, q, n
<1>12. /\ \A i \in 1 .. n : i < k => p[i].timestamp <= nd.timestamp
       /\ \A i \in 1 .. n : i >= k => nd.timestamp <= p[i].timestamp
  <2>1. ASSUME NEW i \in 1 .. n, i < k PROVE p[i].timestamp <= nd.timestamp
    <3>1. k - 1 \in 1 .. n /\ i <= k - 1 /\ k > 1
      BY <2>1, <1>1, <1>2
    <3>2. p[i].timestamp <= p[k - 1].timestamp /\ p[k - 1].timestamp <= nd.timestamp
      BY <3>1, <1>11, <1>a
    <3> QED BY <3>1, <3>2, <1>4, <1>5
  <2>2. ASSUME NEW i \in 1 .. n, i >= k PROVE nd.timestamp <= p[i].timestamp
    <3>1. k \in 1 .. n /\ k <= i /\ k <= n
      BY <2>2, <1>1, <1>2
    <3>2. p[k].timestamp <= p[i].timestamp /\ nd.timestamp <= p[k].timestamp
      BY <3>1, <1>11, <1>a
    <3> QED BY <3>1, <3>2, <1>4, <1>5
  <2> QED BY <2>1, <2>2
<1>13. Sorted(q)
  <2> SUFFICES ASSUME NEW i \in 1 .. n + 1, NEW j \in 1 .. n + 1, i <= j
               PROVE  q[i].timestamp <= q[j].timestamp
    BY <1>2 DEF Sorted
  <2>1. n \in Nat /\ k \in Nat /\ i \in Nat /\ j \in Nat
    BY <1>1
  <2>2. CASE j < k
    <3>1. i \in 1 .. n /\ j \in 1 .. n /\ i < k /\ q[i] = p[i] /\ q[j] = p[j]
      BY <2>1, <2>2, <1>2
    <3> QED BY <3>1, <1>11
  <2>3. CASE j = k
    <3>1. CASE i = k
      BY <3>1, <2>3, <1>2, <1>5
    <3>2. CASE i # k
      <4>1. i < k /\ i \in 1 .. n /\ q[i] = p[i] /\ q[j] = nd
        BY <2>1, <2>3, <3>2, <1>2
      <4> QED BY <4>1, <1>12
    <3> QED BY <3>1, <3>2
  <2>4. CASE j > k
    <3>1. j - 1 \in 1 .. n /\ q[j] = p[j - 1] /\ j - 1 >= k
      BY <2>1, <2>4, <1>2
    <3>2. CASE i < k
      <4>1. i \in 1 .. n /\ q[i] = p[i] /\ i <= j - 1
        BY <2>1, <3>1, <3>2, <1>2
      <4> QED BY <3>1, <4>1, <1>11
    <3>3. CASE i = k
      BY <3>1, <3>3, <1>2, <1>12
    <3>4. CASE i > k
      <4>1. i - 1 \in 1 .. n /\ q[i] = p[i - 1] /\ i - 1 <= j - 1
        BY <2>1, <3>4, <1>2
      <4> QED BY <3>1, <4>1, <1>11
    <3> QED BY <2>1, <3>2, <3>3, <3>4
  <2> QED BY <2>1, <2>2, <2>3, <2>4
<1>14. TimeInv(c)
  <2>1. p # << >> => b.mintimestamp = p[1].timestamp /\ b.maxtimestamp = p[n].timestamp
    BY DEF SortInv, TimeInv, p, n
  <2>2. n >= 1 => p # << >>
    BY <1>1 DEF p, n
  <2>3. c.mintimestamp = q[1].timestamp
    <3>1. 1 \in 1 .. n + 1
      BY <1>1
    <3>2. CASE k = 1
      BY <3>1, <3>2, <1>2
    <3>3. CASE k # 1
      <4>1. 1 < k /\ n >= 1
        BY <3>3, <1>1, <1>2
      <4> QED BY <3>1, <3>3, <4>1, <2>1, <2>2, <1>2
    <3> QED BY <3>2, <3>3
  <2>4. c.maxtimestamp = q[n + 1].timestamp
    <3>1. n + 1 \in 1 .. n + 1
      BY <1>1
    <3>2. CASE k = n + 1
      BY <3>1, <3>2, <1>2 DEF n
    <3>3. CASE k # n + 1
      <4>1. k <= n /\ n >= 1 /\ ~(n + 1 < k) /\ n + 1 # k /\ (n + 1) - 1 = n
        BY <3>3, <1>1, <1>2
      <4>2. q[n + 1] = p[n]
        BY <3>1, <4>1, <1>2
      <4>3. c.maxtimestamp = b.maxtimestamp
        BY <3>3 DEF n
      <4> QED BY <4>1, <4>2, <4>3, <2>1, <2>2
    <3> QED BY <3>2, <3>3
  <2> QED BY <1>2, <1>13, <2>3, <2>4 DEF TimeInv, q
<1>15. HandInv(c)
  <2> SUFFICES ASSUME ~b.regrown
               PROVE  b.last <= c.premintimestamp /\ \A i \in 1 .. n + 1 : b.last <= q[i].timestamp
    BY <1>2 DEF HandInv, q
  <2>1. \A i \in 1 .. n : b.last <= p[i].timestamp
    BY DEF SortInv, HandInv, p, n
  <2> SUFFICES ASSUME NEW i \in 1 .. n + 1 PROVE b.last <= q[i].timestamp
    OBVIOUS
  <2>2. n \in Nat /\ k \in Nat /\ i \in Nat
    BY <1>1
  <2>3. CASE i < k
    <3>1. i \in 1 .. n /\ q[i] = p[i]
      BY <2>2, <2>3, <1>2
    <3> QED BY <3>1, <2>1
  <2>4. CASE i = k
    BY <2>4, <1>2
  <2>5. CASE i > k
    <3>1. i - 1 \in 1 .. n /\ q[i] = p[i - 1]
      BY <2>2, <2>5, <1>2
    <3> QED BY <3>1, <2>1
  <2> QED BY <2>2, <2>3, <2>4, <2>5
<1>16. EmptyInv(c)
  <2>1. q # << >>
    BY <1>1, <1>2
  <2> QED BY <2>1 DEF EmptyInv, q
<1> QED BY <1>1, <1>7, <1>9, <1>10, <1>14, <1>15, <1>16 DEF SortInv, q

(* The first node taken off the list, with an address of its.              *)
LEMMA RemovedKeeps ==
  ASSUME NEW b, SortInv(b), Len(b.phead) > 1, NEW c \in SC_ssbuff, NEW j \in Nat,
         c.phead = Tail(b.phead),
         IsInserted(b.frameaddr, c.frameaddr, j, b.phead[1].position),
         c.uiPutFrameCount = b.uiPutFrameCount, c.u32PopFrameCount = b.u32PopFrameCount + 1,
         c.uiValidLen = b.uiValidLen - b.phead[1].len,
         c.mintimestamp = b.phead[2].timestamp, c.maxtimestamp = b.maxtimestamp,
         c.last = b.phead[1].timestamp, c.premintimestamp = b.phead[1].timestamp
  PROVE  SortInv(c)
<1> DEFINE p == b.phead
           q == c.phead
           n == Len(c.phead)
           nd == b.phead[1]
<1>1. /\ b \in SC_ssbuff /\ p \in Seq(Nodes) /\ b.frameaddr \in Seq(Nat) /\ c.frameaddr \in Seq(Nat)
      /\ p # << >>
  <2>1. b \in SC_ssbuff /\ p \in Seq(Nodes)
    BY DEF SortInv
  <2> QED BY <2>1 DEF SC_ssbuff
<1>2. q \in Seq(Nodes) /\ IsInserted(p, q, 1, nd) /\ nd \in Nodes
  BY <1>1, TailRemoves
<1>3. /\ n \in Nat /\ n >= 1 /\ Len(p) = n + 1
      /\ \A i \in 1 .. n + 1 : p[i] = IF i < 1 THEN q[i] ELSE IF i = 1 THEN nd ELSE q[i - 1]
  <2>1. n \in Nat /\ Len(p) = n + 1
    BY <1>2 DEF IsInserted
  <2> QED BY <2>1, <1>2 DEF IsInserted
<1>4. \A i \in 1 .. n : q[i] = p[i + 1] /\ i + 1 \in 1 .. n + 1
  <2> SUFFICES ASSUME NEW i \in 1 .. n PROVE q[i] = p[i + 1] /\ i + 1 \in 1 .. n + 1
    OBVIOUS
  <2>1. i + 1 \in 1 .. n + 1 /\ ~(i + 1 < 1) /\ i + 1 # 1 /\ (i + 1) - 1 = i
    BY <1>3
  <2> QED BY <2>1, <1>3
<1>5. Agree(q, c.frameaddr)
  <2>1. Agree(p, b.frameaddr)
    BY DEF SortInv
  <2>2. IsInserted(b.frameaddr, c.frameaddr, j, nd.position)
    OBVIOUS
  <2> QED BY ONLY <1>1, <1>2, <2>1, <2>2, j \in Nat, AgreeRemoved
<1>6. CountInv(c)
  <2>1. PackedAt(p, Len(p) + 1) = PackedAt(q, Len(q) + 1) + nd.len
    <3>1. 1 \in Nat
      OBVIOUS
    <3> QED BY ONLY <1>1, <1>2, <3>1, InsertedSum
  <2>2. b.uiPutFrameCount - b.u32PopFrameCount = Len(p) /\ b.uiValidLen = PackedAt(p, Len(p) + 1)
    BY DEF SortInv, CountInv
  <2>3. b.uiPutFrameCount \in Nat /\ b.u32PopFrameCount \in Nat /\ nd.len \in Nat
    BY <1>1, <1>2 DEF SC_ssbuff, Nodes
  <2>4. PackedAt(q, Len(q) + 1) \in Nat
    <3>1. Len(q) + 1 \in 1 .. Len(q) + 1
      BY <1>3
    <3> QED BY <3>1, <1>2, PackedNat
  <2>5. /\ c.uiPutFrameCount = b.uiPutFrameCount /\ c.u32PopFrameCount = b.u32PopFrameCount + 1
        /\ c.uiValidLen = b.uiValidLen - nd.len
    OBVIOUS
  <2>6. c.uiPutFrameCount - c.u32PopFrameCount = n
    <3>1. n \in Nat /\ Len(p) = n + 1
      BY <1>3
    <3> HIDE DEF p, q, n, nd
    <3>2. b.uiPutFrameCount - (b.u32PopFrameCount + 1) = n
      BY ONLY <3>1, <2>2, <2>3
    <3> QED BY ONLY <3>2, <2>5
  <2>7. c.uiValidLen = PackedAt(q, Len(q) + 1)
    <3> HIDE DEF p, q, n, nd
    <3> QED BY ONLY <2>1, <2>2, <2>3, <2>4, <2>5
  <2> QED BY <2>6, <2>7 DEF CountInv
<1>7. \A i, l \in 1 .. n + 1 : i <= l => p[i].timestamp <= p[l].timestamp
  BY <1>3 DEF SortInv, TimeInv, Sorted
<1>8. \A i \in 1 .. n + 1 : p[i].len < RingHalf
  BY <1>3 DEF SortInv, Taken
<1>9. b.maxtimestamp = p[n + 1].timestamp
  BY <1>1, <1>3 DEF SortInv, TimeInv
<1>a. /\ c.mintimestamp = p[2].timestamp /\ c.maxtimestamp = b.maxtimestamp
      /\ c.last = p[1].timestamp /\ c.premintimestamp = p[1].timestamp
  OBVIOUS
<1>b. q # << >>
  <2>1. Len(q) >= 1 /\ q \in Seq(Nodes)
    BY <1>2, <1>3
  <2> HIDE DEF q
  <2> QED BY ONLY <2>1, EmptySeq
<1>c. p[1].timestamp \in Nat
  BY <1>2 DEF Nodes
<1> HIDE DEF p, q, n, nd
<1>10. Taken(q)
  <2> SUFFICES ASSUME NEW i \in 1 .. n PROVE q[i].len < RingHalf
    BY DEF Taken, n, q
  <2> QED BY <1>4, <1>8
<1>11. TimeInv(c)
  <2>1. Sorted(q)
    <3> SUFFICES ASSUME NEW i \in 1 .. n, NEW l \in 1 .. n, i <= l PROVE q[i].timestamp <= q[l].timestamp
      BY DEF Sorted, n, q
    <3>1. i + 1 \in 1 .. n + 1 /\ l + 1 \in 1 .. n + 1 /\ i + 1 <= l + 1
      BY <1>3
    <3> QED BY <3>1, <1>4, <1>7
  <2>2. q[1] = p[2] /\ q[n] = p[n + 1]
    <3>1. 1 \in 1 .. n /\ n \in 1 .. n /\ 1 + 1 = 2
      BY <1>3
    <3> QED BY <3>1, <1>4
  <2>3. c.mintimestamp = q[1].timestamp /\ c.maxtimestamp = q[n].timestamp
    BY <2>2, <1>9, <1>a
  <2> QED BY <2>1, <2>3 DEF TimeInv, q, n
<1>12. HandInv(c)
  <2>1. \A i \in 1 .. n : p[1].timestamp <= q[i].timestamp
    <3> SUFFICES ASSUME NEW i \in 1 .. n PROVE p[1].timestamp <= q[i].timestamp
      OBVIOUS
    <3>1. i + 1 \in 1 .. n + 1 /\ 1 \in 1 .. n + 1 /\ 1 <= i + 1
      BY <1>3
    <3> QED BY <3>1, <1>4, <1>7
  <2> QED BY <2>1, <1>a, <1>c DEF HandInv, q, n
<1>13. EmptyInv(c)
  BY <1>b DEF EmptyInv, q
<1> QED BY <1>2, <1>5, <1>6, <1>10, <1>11, <1>12, <1>13 DEF SortInv, q

(* Both lists emptied.                                                     *)
LEMMA EmptiedKeeps ==
  ASSUME NEW c \in SC_ssbuff, c.phead = << >>, c.frameaddr = << >>,
         c.uiPutFrameCount = 0, c.u32PopFrameCount = 0, c.uiValidLen = 0,
         c.last = 0, ~c.regrown
  PROVE  SortInv(c)
<1>1. << >> \in Seq(Nodes) /\ Len(<< >>) = 0
  OBVIOUS
<1>2. PackedAt(<< >>, 1) = 0
  BY <1>1, PackedStep
<1>3. CountInv(c)
  BY <1>1, <1>2 DEF CountInv
<1>4. TimeInv(c) /\ Taken(c.phead) /\ EmptyInv(c)
  BY <1>1 DEF TimeInv, Sorted, Taken, EmptyInv
<1>5. HandInv(c)
  <2>1. c.premintimestamp \in Nat
    BY DEF SC_ssbuff
  <2> QED BY <1>1, <2>1 DEF HandInv
<1> QED BY <1>1, <1>3, <1>4, <1>5, AgreeEmpty DEF SortInv

(* A buffer that differs in its pool, its sort time and its drops only.    *)
LEMMA OthersKeep ==
  ASSUME NEW b, SortInv(b), NEW c \in SC_ssbuff, c.phead = b.phead, c.frameaddr = b.frameaddr,
         c.uiPutFrameCount = b.uiPutFrameCount, c.u32PopFrameCount = b.u32PopFrameCount,
         c.uiValidLen = b.uiValidLen, c.mintimestamp = b.mintimestamp,
         c.maxtimestamp = b.maxtimestamp, c.premintimestamp = b.premintimestamp,
         c.last = b.last, c.regrown = b.regrown
  PROVE  SortInv(c)
BY DEF SortInv, TimeInv, CountInv, HandInv, EmptyInv

LEMMA ModIsNat == \A a \in Int : a % UintMod \in Nat
BY SortAssumption

LEMMA NodesAreNodes ==
  ASSUME NEW p \in Seq(Nodes)
  PROVE  p \in Seq(SC_ssnode)
<1>1. \A i \in 1 .. Len(p) : p[i] \in SC_ssnode
  <2> TAKE i \in 1 .. Len(p)
  <2>1. p[i] \in Nodes
    OBVIOUS
  <2> QED BY <2>1 DEF Nodes, SC_ssnode
<1> QED BY <1>1

(* The first frame, taken out of both lists and handed over.               *)
LEMMA UnlinkedKeeps ==
  ASSUME NEW b, SortInv(b), Len(b.phead) > 1
  PROVE  /\ Head(b.phead) = b.phead[1] /\ b.phead[1] \in Nodes
         /\ Contains(b.frameaddr, b.phead[1].position)
         /\ SortInv(Unlinked(Handed(b)))
         /\ PoolInv(b) => PoolInv(Unlinked(Handed(b)))
         /\ \A len : Ready(b, len) => Ready(Unlinked(Handed(b)), len)
         /\ Unlinked(Handed(b)).position = b.position /\ Unlinked(Handed(b)).datasize = b.datasize
<1> DEFINE p == b.phead
           A == b.frameaddr
           nd == b.phead[1]
           c == Unlinked(Handed(b))
<1>1. /\ b \in SC_ssbuff /\ p \in Seq(Nodes) /\ A \in Seq(Nat) /\ Agree(p, A)
      /\ Len(p) > 1 /\ Len(p) \in Nat
  <2>1. b \in SC_ssbuff /\ p \in Seq(Nodes) /\ Agree(p, A)
    BY DEF SortInv
  <2> QED BY <2>1 DEF SC_ssbuff
<1>2. p # << >>
  <2> HIDE DEF p
  <2> QED BY ONLY <1>1, EmptySeq
<1>3. Head(p) = nd /\ nd \in Nodes /\ Tail(p) \in Seq(Nodes)
  BY <1>1, <1>2, TailRemoves
<1>4. Contains(A, nd.position)
  <2>1. \A i \in 1 .. Len(p) : \E j \in 1 .. Len(A) : A[j] = p[i].position
    BY <1>1, AgreeBoth
  <2>2. 1 \in 1 .. Len(p)
    BY <1>1
  <2> QED BY <2>1, <2>2 DEF Contains
<1>5. /\ RemoveFirst(A, nd.position) \in Seq(Nat)
      /\ \E j \in 1 .. Len(A) :
           A[j] = nd.position /\ IsInserted(A, RemoveFirst(A, nd.position), j, nd.position)
  BY <1>1, <1>4, RemoveFirstRemoves
<1>6. p[2] \in Nodes
  BY <1>1
<1>7. /\ nd.timestamp \in Nat /\ nd.len \in Nat /\ p[2].timestamp \in Nat
      /\ Tail(p) \in Seq(SC_ssnode) /\ b.u32PopFrameCount + 1 \in Nat /\ b.uiValidLen - nd.len \in Int
  <2>1. nd.timestamp \in Nat /\ nd.len \in Nat /\ p[2].timestamp \in Nat
    BY <1>3, <1>6 DEF Nodes
  <2>2. Tail(p) \in Seq(SC_ssnode)
    BY <1>3, NodesAreNodes
  <2>3. b.u32PopFrameCount \in Nat /\ b.uiValidLen \in Int
    BY <1>1 DEF SC_ssbuff
  <2> QED BY <2>1, <2>2, <2>3
<1>8. /\ c \in SC_ssbuff
      /\ c.phead = Tail(p) /\ c.frameaddr = RemoveFirst(A, nd.position)
      /\ c.uiPutFrameCount = b.uiPutFrameCount /\ c.u32PopFrameCount = b.u32PopFrameCount + 1
      /\ c.uiValidLen = b.uiValidLen - nd.len
      /\ c.mintimestamp = p[2].timestamp /\ c.maxtimestamp = b.maxtimestamp
      /\ c.last = nd.timestamp /\ c.premintimestamp = nd.timestamp
      /\ c.position = b.position /\ c.datasize = b.datasize
  BY <1>1, <1>3, <1>5, <1>7 DEF Unlinked, Handed, DeleteAddr, SC_ssbuff
<1>9. PICK j \in 1 .. Len(A) : IsInserted(A, RemoveFirst(A, nd.position), j, nd.position)
  BY <1>5
<1>10. j \in Nat
  OBVIOUS
<1>11. SortInv(c)
  <2> HIDE DEF c
  <2>1. /\ c.phead = Tail(b.phead)
        /\ IsInserted(b.frameaddr, c.frameaddr, j, b.phead[1].position)
        /\ c.uiValidLen = b.uiValidLen - b.phead[1].len
        /\ c.mintimestamp = b.phead[2].timestamp
        /\ c.last = b.phead[1].timestamp /\ c.premintimestamp = b.phead[1].timestamp
    BY <1>8, <1>9
  <2> QED BY ONLY SortInv(b), Len(b.phead) > 1, <1>8, <1>10, <2>1, RemovedKeeps
<1>12. PoolInv(b) => PoolInv(c) /\ \A len : Ready(b, len) => Ready(c, len)
  <2> HIDE DEF c
  <2>1. /\ c.phead = Tail(b.phead)
        /\ IsInserted(b.frameaddr, c.frameaddr, j, b.phead[1].position)
    BY <1>8, <1>9
  <2> QED BY ONLY SortInv(b), Len(b.phead) > 1, <1>8, <1>10, <2>1, RemovedPool
<1>13. \A len : Ready(b, len) => Ready(c, len)
  <2> HIDE DEF c
  <2> QED BY <1>12 DEF Ready
<1> QED BY <1>3, <1>4, <1>8, <1>11, <1>12, <1>13

(* The ring takes what it is handed, so a pop never stops halfway.         *)
LEMMA PopKeeps ==
  ASSUME NEW b, SortInv(b)
  PROVE  /\ SortInv(PopFrameStreamSort(b))
         /\ PoolInv(b) => PoolInv(PopFrameStreamSort(b))
<1>1. ASSUME NEW x, SortInv(x) PROVE SortInv(PopOne(x)) /\ (PoolInv(x) => PoolInv(PopOne(x)))
  <2>1. CASE ~Due(x)
    BY <1>1, <2>1 DEF PopOne
  <2>2. CASE Due(x)
    <3>1. /\ x.uiPutFrameCount - x.u32PopFrameCount > 3
          /\ x.uiPutFrameCount - x.u32PopFrameCount = Len(x.phead)
      BY <1>1, <2>2 DEF Due, SortInv, CountInv
    <3>2. Len(x.phead) > 1
      BY <3>1
    <3>3. /\ Head(x.phead) = x.phead[1] /\ SortInv(Unlinked(Handed(x)))
          /\ PoolInv(x) => PoolInv(Unlinked(Handed(x)))
      BY <1>1, <3>2, UnlinkedKeeps
    <3>4. Datacallback(Head(x.phead))
      <4>1. x.phead[1].len < RingHalf
        <5>1. 1 \in 1 .. Len(x.phead)
          <6>1. x.phead \in Seq(Nodes)
            BY <1>1 DEF SortInv
          <6> QED BY <3>2, <6>1
        <5> QED BY <1>1, <5>1 DEF SortInv, Taken
      <4> QED BY <3>3, <4>1 DEF Datacallback
    <3>5. PopOne(x) = Unlinked(Handed(x))
      BY <2>2, <3>4 DEF PopOne
    <3> QED BY <3>3, <3>5
  <2> QED BY <2>1, <2>2
<1>2. SortInv(PopOne(b)) /\ (PoolInv(b) => PoolInv(PopOne(b)))
  BY <1>1
<1>3. SortInv(PopOne(PopOne(b))) /\ (PoolInv(b) => PoolInv(PopOne(PopOne(b))))
  BY <1>1, <1>2
<1> QED BY <1>2, <1>3 DEF PopFrameStreamSort

LEMMA CleanKeeps ==
  ASSUME NEW b \in SC_ssbuff
  PROVE  CleanSortBuff(b) \in SC_ssbuff /\ SortInv(CleanSortBuff(b)) /\ PoolInv(CleanSortBuff(b))
<1> DEFINE c == CleanSortBuff(b)
<1>1. c \in SC_ssbuff
  <2>1. DefaultStreamSortBuff \in SC_ssbuff
    BY SortAssumption DEF DefaultStreamSortBuff, SC_ssbuff
  <2>2. b.datasize \in Nat /\ b.u32EarlyFrameDrop \in Nat /\ b.u32LateFrameDrop \in Nat
    BY DEF SC_ssbuff
  <2> QED BY <2>1, <2>2 DEF CleanSortBuff, SC_ssbuff
<1>2. /\ c.phead = << >> /\ c.frameaddr = << >> /\ c.uiPutFrameCount = 0
      /\ c.u32PopFrameCount = 0 /\ c.uiValidLen = 0 /\ c.last = 0 /\ ~c.regrown
      /\ c.position = 0
  BY DEF CleanSortBuff, DefaultStreamSortBuff
<1> HIDE DEF c
<1>3. SortInv(c) /\ PoolInv(c)
  BY ONLY <1>1, <1>2, EmptiedKeeps, EmptiedPool
<1> QED BY <1>1, <1>3 DEF c

LEMMA DefaultKeeps == SortInv(DefaultStreamSortBuff) /\ PoolInv(DefaultStreamSortBuff)
<1> DEFINE c == DefaultStreamSortBuff
<1>1. c \in SC_ssbuff
  BY SortAssumption DEF DefaultStreamSortBuff, SC_ssbuff
<1>2. /\ c.phead = << >> /\ c.frameaddr = << >> /\ c.uiPutFrameCount = 0
      /\ c.u32PopFrameCount = 0 /\ c.uiValidLen = 0 /\ c.last = 0 /\ ~c.regrown
      /\ c.position = 0
  BY DEF DefaultStreamSortBuff
<1> HIDE DEF c
<1>3. SortInv(c) /\ PoolInv(c)
  BY ONLY <1>1, <1>2, EmptiedKeeps, EmptiedPool
<1> QED BY <1>3 DEF c

LEMMA AnalysedKeeps ==
  ASSUME NEW b, SortInv(b)
  PROVE  /\ SortInv(Analysed(b))
         /\ Analysed(b).phead = b.phead /\ Analysed(b).frameaddr = b.frameaddr
         /\ Analysed(b).position = b.position /\ Analysed(b).datasize = b.datasize
         /\ Analysed(b).uiPutFrameCount = b.uiPutFrameCount
<1> DEFINE def == b.uiSortTime - b.uiAnalyTime
           far == IF def > Fall1 THEN (b.uiSortTime - Fall1) % UintMod ELSE b.uiSortTime
           new == IF def > Fall2 THEN (far - Fall2) % UintMod ELSE b.uiAnalyTime
           t == IF 0 < b.uiAnalyTime /\ b.uiAnalyTime < b.uiSortTime
                THEN IF new < uiSortTimeBak THEN uiSortTimeBak ELSE new
                ELSE b.uiSortTime
           c == Analysed(b)
<1>1. b \in SC_ssbuff
  BY DEF SortInv
<1>2. /\ b.uiSortTime \in Nat /\ b.uiAnalyTime \in Nat
      /\ Fall1 \in Nat /\ Fall2 \in Nat /\ uiSortTimeBak \in Nat
  BY <1>1, SortAssumption DEF SC_ssbuff
<1>3. far \in Nat
  <2>1. b.uiSortTime - Fall1 \in Int
    BY <1>2
  <2> QED BY <1>2, <2>1, ModIsNat
<1>4. new \in Nat
  <2> HIDE DEF far
  <2>1. far - Fall2 \in Int
    BY <1>2, <1>3
  <2> QED BY <1>2, <2>1, ModIsNat
<1> HIDE DEF new
<1>5. t \in Nat
  BY <1>2, <1>4
<1>6. c = [b EXCEPT !.uiSortTime = t, !.uiAnalyTime = 0]
  BY <1>1 DEF Analysed, new, SC_ssbuff
<1> HIDE DEF c, t
<1>7. c \in SC_ssbuff
  BY <1>1, <1>5, <1>6 DEF SC_ssbuff
<1>8. /\ c.phead = b.phead /\ c.frameaddr = b.frameaddr
      /\ c.uiPutFrameCount = b.uiPutFrameCount /\ c.u32PopFrameCount = b.u32PopFrameCount
      /\ c.uiValidLen = b.uiValidLen /\ c.mintimestamp = b.mintimestamp
      /\ c.maxtimestamp = b.maxtimestamp /\ c.premintimestamp = b.premintimestamp
      /\ c.last = b.last /\ c.regrown = b.regrown
      /\ c.position = b.position /\ c.datasize = b.datasize
  BY <1>1, <1>6 DEF SC_ssbuff
<1>9. SortInv(c)
  BY ONLY SortInv(b), <1>7, <1>8, OthersKeep
<1> QED BY <1>8, <1>9 DEF c

(* A regrown pool: the frames lie elsewhere, and both lists say where.     *)
LEMMA RemallocIs ==
  ASSUME NEW b, SortInv(b), b.frameaddr # << >>, NEW size \in Nat
  PROVE  \E q \in Seq(Nodes), B \in Seq(Nat) :
           /\ RemallocSortBuff(b, size) \in SC_ssbuff
           /\ Len(q) = Len(b.phead) /\ Len(B) = Len(b.phead)
           /\ \A i \in 1 .. Len(q) : /\ q[i].timestamp = b.phead[i].timestamp
                                     /\ q[i].len = b.phead[i].len
                                     /\ q[i].position = PackedAt(b.phead, i)
                                     /\ B[i] = PackedAt(b.phead, i)
           /\ RemallocSortBuff(b, size) =
                [b EXCEPT !.datasize = size, !.phead = q, !.frameaddr = B,
                          !.position = PackedAt(b.phead, Len(b.phead) + 1), !.premintimestamp = 0,
                          !.u32EarlyFrameDrop = 0, !.u32LateFrameDrop = 0, !.regrown = TRUE]
<1> DEFINE p == b.phead
           n == Len(b.phead)
           q == [i \in DOMAIN b.phead |-> [b.phead[i] EXCEPT !.position = PackedAt(b.phead, i)]]
           A == b.frameaddr
           B == [j \in DOMAIN b.frameaddr |->
                   PackedAt(b.phead, IF j + Len(b.frameaddr) <= Len(b.phead)
                                     THEN j + Len(b.frameaddr) ELSE j)]
           c == RemallocSortBuff(b, size)
<1>1. b \in SC_ssbuff /\ p \in Seq(Nodes) /\ A \in Seq(Nat) /\ Agree(p, A) /\ n \in Nat
  <2>1. b \in SC_ssbuff /\ p \in Seq(Nodes) /\ Agree(p, A)
    BY DEF SortInv
  <2> QED BY <2>1 DEF SC_ssbuff
<1>2. Len(A) = n
  BY <1>1 DEF Agree
<1>3. \A i \in 1 .. n + 1 : PackedAt(p, i) \in Nat
  BY <1>1, PackedNat
<1>4. /\ DOMAIN p = 1 .. n /\ DOMAIN A = 1 .. n
      /\ \A i \in 1 .. n : p[i] \in Nodes
  BY <1>1, <1>2
<1>5. \A i \in 1 .. n : [p[i] EXCEPT !.position = PackedAt(p, i)] \in Nodes
  <2> TAKE i \in 1 .. n
  <2>1. p[i] \in Nodes /\ PackedAt(p, i) \in Nat
    BY <1>1, <1>3, <1>4
  <2> QED BY <2>1 DEF Nodes
<1>6. /\ q \in Seq(Nodes) /\ Len(q) = n
      /\ \A i \in 1 .. n : q[i] = [p[i] EXCEPT !.position = PackedAt(p, i)]
  <2>1. q = [i \in 1 .. n |-> [p[i] EXCEPT !.position = PackedAt(p, i)]]
    BY <1>4
  <2> HIDE DEF q, p, n
  <2> QED BY <1>1, <1>5, <2>1
<1>7. \A i \in 1 .. n : /\ q[i].timestamp = p[i].timestamp /\ q[i].len = p[i].len
                        /\ q[i].position = PackedAt(p, i)
  <2> SUFFICES ASSUME NEW i \in 1 .. n
               PROVE  /\ q[i].timestamp = p[i].timestamp /\ q[i].len = p[i].len
                      /\ q[i].position = PackedAt(p, i)
    OBVIOUS
  <2>1. p[i] \in Nodes /\ q[i] = [p[i] EXCEPT !.position = PackedAt(p, i)]
    BY <1>4, <1>6
  <2> HIDE DEF q, p, n
  <2> QED BY <2>1 DEF Nodes
<1>8. B \in Seq(Nat) /\ Len(B) = n /\ \A j \in 1 .. n : B[j] = PackedAt(p, j)
  <2>1. \A j \in 1 .. n : (IF j + Len(A) <= n THEN j + Len(A) ELSE j) = j
    BY <1>1, <1>2
  <2>2. B = [j \in 1 .. n |-> PackedAt(p, j)]
    BY <1>4, <2>1
  <2> HIDE DEF B, p, n
  <2>3. \A j \in 1 .. n : PackedAt(p, j) \in Nat
    BY <1>1, <1>3
  <2> QED BY <1>1, <2>2, <2>3
<1>10. PackedAt(p, n + 1) \in Nat
  BY <1>1, <1>3
<1>11. q \in Seq(SC_ssnode)
  <2> HIDE DEF q
  <2> QED BY <1>6, NodesAreNodes
<1>12. c \in SC_ssbuff
  BY <1>1, <1>8, <1>10, <1>11 DEF RemallocSortBuff, SC_ssbuff
<1>13. c = [b EXCEPT !.datasize = size, !.phead = q, !.frameaddr = B,
                      !.position = PackedAt(p, n + 1), !.premintimestamp = 0,
                      !.u32EarlyFrameDrop = 0, !.u32LateFrameDrop = 0, !.regrown = TRUE]
  BY DEF RemallocSortBuff
<1>14. \A i \in 1 .. Len(q) : /\ q[i].timestamp = p[i].timestamp /\ q[i].len = p[i].len
                              /\ q[i].position = PackedAt(p, i) /\ B[i] = PackedAt(p, i)
  <2> HIDE DEF c, q, B, p, n
  <2> QED BY <1>6, <1>7, <1>8
<1> HIDE DEF c, q, B
<1>15. q \in Seq(Nodes) /\ B \in Seq(Nat) /\ Len(q) = n /\ Len(B) = n
  BY <1>6, <1>8
<1> USE <1>15
<1> WITNESS q \in Seq(Nodes), B \in Seq(Nat)
<1> QED BY <1>12, <1>13, <1>14, <1>15 DEF c

(* The regrown pool keeps what is sorted sorted.                           *)
LEMMA RemallocKeeps ==
  ASSUME NEW b, SortInv(b), b.frameaddr # << >>, NEW size \in Nat
  PROVE  SortInv(RemallocSortBuff(b, size))
<1> DEFINE p == b.phead
           n == Len(b.phead)
           c == RemallocSortBuff(b, size)
<1>1. b \in SC_ssbuff /\ p \in Seq(Nodes) /\ n \in Nat /\ Agree(p, b.frameaddr)
  BY DEF SortInv
<1>2. Len(b.frameaddr) = n /\ b.frameaddr \in Seq(Nat)
  BY <1>1 DEF Agree, SC_ssbuff
<1>3. PICK q \in Seq(Nodes), B \in Seq(Nat) :
        /\ c \in SC_ssbuff
        /\ Len(q) = n /\ Len(B) = n
        /\ \A i \in 1 .. Len(q) : /\ q[i].timestamp = p[i].timestamp
                                  /\ q[i].len = p[i].len
                                  /\ q[i].position = PackedAt(p, i)
                                  /\ B[i] = PackedAt(p, i)
        /\ c = [b EXCEPT !.datasize = size, !.phead = q, !.frameaddr = B,
                         !.position = PackedAt(p, n + 1), !.premintimestamp = 0,
                         !.u32EarlyFrameDrop = 0, !.u32LateFrameDrop = 0, !.regrown = TRUE]
  BY RemallocIs
<1> HIDE DEF c
<1>6. q \in Seq(Nodes) /\ Len(q) = n /\ c \in SC_ssbuff
  BY <1>3
<1>7. \A i \in 1 .. n : /\ q[i].timestamp = p[i].timestamp /\ q[i].len = p[i].len
                        /\ q[i].position = PackedAt(p, i)
  BY <1>3
<1>8. B \in Seq(Nat) /\ Len(B) = n /\ \A j \in 1 .. n : B[j] = PackedAt(p, j)
  BY <1>3
<1>9. /\ c.phead = q /\ c.frameaddr = B /\ c.datasize = size
      /\ c.uiPutFrameCount = b.uiPutFrameCount /\ c.u32PopFrameCount = b.u32PopFrameCount
      /\ c.uiValidLen = b.uiValidLen /\ c.mintimestamp = b.mintimestamp
      /\ c.maxtimestamp = b.maxtimestamp /\ c.regrown
  BY <1>1, <1>3 DEF SC_ssbuff
<1>13. Agree(q, B)
  <2>1. \A i \in 1 .. Len(q) : B[i] = q[i].position
    BY <1>6, <1>7, <1>8
  <2> QED BY <1>6, <1>8, <2>1, AgreeRepacked
<1>14. CountInv(c)
  <2>1. \A k \in 1 .. (n + 1) - 1 : p[k].len = q[k].len
    BY <1>1, <1>7
  <2>2. n + 1 \in Nat /\ n + 1 \in 1 .. Len(p) + 1 /\ n + 1 \in 1 .. Len(q) + 1
    BY <1>1, <1>6
  <2>3. PackedAt(p, n + 1) = PackedAt(q, n + 1)
    BY <1>1, <1>6, <2>1, <2>2, PackedSame
  <2> QED BY <1>6, <1>9, <2>3 DEF CountInv, SortInv
<1>15. n >= 1
  BY <1>1, <1>2, EmptySeq
<1>16. TimeInv(c)
  <2>1. Sorted(q)
    <3>1. Sorted(p)
      BY DEF SortInv, TimeInv
    <3> QED BY <3>1, <1>6, <1>7 DEF Sorted
  <2>2. p # << >>
    BY <1>1, <1>15
  <2>3. b.mintimestamp = p[1].timestamp /\ b.maxtimestamp = p[n].timestamp
    BY <2>2 DEF SortInv, TimeInv
  <2>4. q[1].timestamp = p[1].timestamp /\ q[n].timestamp = p[n].timestamp
    <3>1. 1 \in 1 .. n /\ n \in 1 .. n
      BY <1>1, <1>15
    <3> QED BY <1>7, <3>1
  <2> QED BY <1>6, <1>9, <2>1, <2>3, <2>4 DEF TimeInv
<1>17. Taken(q)
  BY <1>6, <1>7 DEF Taken, SortInv
<1>18. EmptyInv(c) /\ HandInv(c)
  <2>1. q # << >>
    BY <1>6, <1>15
  <2> QED BY <1>9, <2>1 DEF EmptyInv, HandInv
<1>19. SortInv(c)
  BY <1>6, <1>9, <1>13, <1>14, <1>16, <1>17, <1>18 DEF SortInv
<1> QED BY <1>19 DEF c

(* There is room in it: what was apart in the old pool is no longer than   *)
(* that, and a frame is not half of it.                                    *)
LEMMA RemallocMakesRoom ==
  ASSUME NEW b, SortInv(b), PoolInv(b), b.frameaddr # << >>, b.uiPutFrameCount > 2,
         NEW len \in Nat \ {0}, len < b.datasize \div 2
  PROVE  Ready(RemallocSortBuff(b, (b.datasize * 3) \div 2), len)
<1> DEFINE p == b.phead
           n == Len(b.phead)
           size == (b.datasize * 3) \div 2
           s == PackedAt(p, n + 1)
           c == RemallocSortBuff(b, size)
<1>1. /\ b \in SC_ssbuff /\ p \in Seq(Nodes) /\ n \in Nat /\ Agree(p, b.frameaddr)
      /\ b.datasize \in Nat /\ b.frameaddr \in Seq(Nat) /\ b.uiPutFrameCount \in Nat
  BY DEF SortInv, SC_ssbuff
<1>2. Len(b.frameaddr) = n /\ n >= 1
  <2>1. Len(b.frameaddr) = n
    BY DEF SortInv, Agree
  <2>2. Len(b.frameaddr) >= 1
    BY <1>1, EmptySeq
  <2> QED BY <2>1, <2>2
<1>3. size \in Nat /\ \A x \in Nat : x <= b.datasize => x + len <= size
  <2> DEFINE d == b.datasize
  <2>1. d \in Nat /\ len < d \div 2
    BY <1>1
  <2> HIDE DEF d
  <2>2. (d * 3) \div 2 \in Nat /\ \A x \in Nat : x <= d => x + len <= (d * 3) \div 2
    BY ONLY <2>1, len \in Nat \ {0}
  <2> QED BY <2>2 DEF d
<1> HIDE DEF size
<1>4. PICK q \in Seq(Nodes), B \in Seq(Nat) :
        /\ c \in SC_ssbuff
        /\ Len(q) = n /\ Len(B) = n
        /\ \A i \in 1 .. Len(q) : /\ q[i].timestamp = p[i].timestamp
                                  /\ q[i].len = p[i].len
                                  /\ q[i].position = PackedAt(p, i)
                                  /\ B[i] = PackedAt(p, i)
        /\ c = [b EXCEPT !.datasize = size, !.phead = q, !.frameaddr = B,
                         !.position = PackedAt(p, n + 1), !.premintimestamp = 0,
                         !.u32EarlyFrameDrop = 0, !.u32LateFrameDrop = 0, !.regrown = TRUE]
  BY <1>3, RemallocIs
<1> HIDE DEF c, s
<1>5. /\ c.phead = q /\ c.frameaddr = B /\ c.datasize = size /\ c.position = s
      /\ c.uiPutFrameCount = b.uiPutFrameCount
  BY <1>1, <1>4 DEF SC_ssbuff, s
<1>6. s \in Nat /\ s <= b.datasize /\ s + len <= size
  <2>1. n + 1 \in 1 .. n + 1
    BY <1>1
  <2>2. s \in Nat
    BY <1>1, <2>1, PackedNat DEF s
  <2>3. Apart(p) /\ \A i \in 1 .. Len(p) : End(p[i]) <= b.datasize
    BY DEF PoolInv, InPool
  <2>4. s <= b.datasize
    BY <1>1, <2>3, FitsInPool DEF s
  <2> QED BY <1>3, <2>2, <2>4
<1>7. \A i \in 1 .. n, j \in 1 .. n + 1 : i < j => End(q[i]) <= PackedAt(p, j)
  <2> SUFFICES ASSUME NEW i \in 1 .. n, NEW j \in 1 .. n + 1, i < j
               PROVE  End(q[i]) <= PackedAt(p, j)
    OBVIOUS
  <2>1. PackedAt(p, i) + p[i].len <= PackedAt(p, j)
    BY <1>1, PackedRises
  <2>2. End(q[i]) = PackedAt(p, i) + p[i].len
    BY <1>4 DEF End
  <2> QED BY <2>1, <2>2
<1>8. \A i \in 1 .. n : /\ End(q[i]) <= s /\ q[i].position < End(q[i]) /\ End(q[i]) \in Nat
                        /\ q[i].position \in Nat
  <2> SUFFICES ASSUME NEW i \in 1 .. n
               PROVE  /\ End(q[i]) <= s /\ q[i].position < End(q[i]) /\ End(q[i]) \in Nat
                      /\ q[i].position \in Nat
    OBVIOUS
  <2>1. n + 1 \in 1 .. n + 1 /\ i < n + 1
    BY <1>1
  <2>2. End(q[i]) <= s
    BY <1>7, <2>1 DEF s
  <2>3. i \in 1 .. Len(q)
    BY <1>4
  <2> QED BY <2>2, <2>3, NodeFacts
<1>9. Apart(q)
  <2> SUFFICES ASSUME NEW i \in 1 .. n, NEW j \in 1 .. n, i # j
               PROVE  End(q[i]) <= q[j].position \/ End(q[j]) <= q[i].position
    BY <1>4 DEF Apart
  <2>1. i < j \/ j < i
    BY <1>1
  <2>2. i \in 1 .. n + 1 /\ j \in 1 .. n + 1
    BY SMTT(30), <1>1
  <2>3. q[i].position = PackedAt(p, i) /\ q[j].position = PackedAt(p, j)
    BY <1>4
  <2> QED BY <1>7, <2>1, <2>2, <2>3
<1>10. InPool(q, s, size)
  <2> SUFFICES ASSUME NEW i \in 1 .. n PROVE End(q[i]) <= size /\ End(q[i]) <= s
    BY <1>3, <1>4, <1>6 DEF InPool
  <2> QED BY <1>3, <1>6, <1>8
<1>11. Aged(B, s)
  <2> SUFFICES ASSUME NEW i \in 1 .. n, NEW j \in 1 .. n, i < j
               PROVE  IF B[i] < s <=> B[j] < s THEN B[i] < B[j] ELSE s <= B[i]
    BY <1>4 DEF Aged
  <2>1. B[i] = q[i].position /\ B[j] = q[j].position /\ B[j] = PackedAt(p, j)
    BY <1>4
  <2>2. j \in 1 .. n + 1
    BY <1>1
  <2>3. End(q[i]) <= B[j]
    BY <1>7, <2>1, <2>2
  <2>4. B[i] < B[j] /\ B[i] < s /\ B[j] < s
    <3>1. /\ End(q[i]) \in Nat /\ q[i].position \in Nat /\ q[i].position < End(q[i]) /\ End(q[i]) <= s
          /\ End(q[j]) \in Nat /\ q[j].position \in Nat /\ q[j].position < End(q[j]) /\ End(q[j]) <= s
      BY <1>8
    <3> QED BY ONLY <1>6, <2>1, <2>3, <3>1
  <2> QED BY <2>4
<1>12. Room(q, s, size, len)
  <2>1. len < size
    <3>1. size \in Nat /\ s + len <= size /\ b.datasize + len <= size /\ b.datasize > 0
      <4>1. b.datasize > 0
        BY <1>1
      <4> QED BY <1>1, <1>3, <1>6, <4>1
    <3> QED BY <1>1, <3>1
  <2> QED BY <1>4, <1>6, <1>8, <2>1 DEF Room
<1>13. PoolInv(c)
  <2>1. q # << >>
    BY <1>1, <1>2, <1>4, EmptySeq
  <2> QED BY <1>1, <1>5, <1>9, <1>10, <1>11, <2>1 DEF PoolInv
<1>14. Ready(c, len)
  BY <1>1, <1>5, <1>12, <1>13 DEF Ready
<1> QED BY <1>14 DEF c, size

LEMMA CheckKeeps ==
  ASSUME NEW b, SortInv(b), NEW len \in Nat, NEW due \in BOOLEAN
  PROVE  SortInv(CheckStreambuff(b, len, due))
<1> DEFINE fits == b.position + len <= b.datasize
           a == IF ~fits /\ due THEN Analysed(b) ELSE b
<1>1. SortInv(a)
  BY AnalysedKeeps
<1>2. a.frameaddr = b.frameaddr /\ b \in SC_ssbuff /\ a \in SC_ssbuff
  <2>1. b \in SC_ssbuff /\ a \in SC_ssbuff
    BY <1>1 DEF SortInv
  <2>2. Analysed(b).frameaddr = b.frameaddr
    BY <2>1 DEF Analysed, SC_ssbuff
  <2> QED BY <2>1, <2>2
<1>3. SortInv(CleanSortBuff(a))
  BY <1>2, CleanKeeps
<1>4. (b.datasize * 3) \div 2 \in Nat
  <2>1. b.datasize \in Nat
    BY <1>2 DEF SC_ssbuff
  <2> QED BY ONLY <2>1
<1>5. b.frameaddr # << >> => SortInv(RemallocSortBuff(a, (b.datasize * 3) \div 2))
  BY <1>1, <1>2, <1>4, RemallocKeeps
<1> QED BY <1>1, <1>3, <1>5 DEF CheckStreambuff

(* CheckStreambuff leaves a pool in which the frame has room.              *)
LEMMA CheckMakesRoom ==
  ASSUME NEW b, SortInv(b), PoolInv(b), NEW len \in Nat \ {0}, len < b.datasize \div 2,
         3 * len <= b.datasize, NEW due \in BOOLEAN
  PROVE  Ready(CheckStreambuff(b, len, due), len)
<1> DEFINE fits == b.position + len <= b.datasize
           a == IF ~fits /\ due THEN Analysed(b) ELSE b
           p == b.phead
           A == b.frameaddr
           s == b.position
           d == b.datasize
           n == b.uiPutFrameCount
           size == (d * 3) \div 2
           c == CheckStreambuff(b, len, due)
<1> SUFFICES Ready(c, len)
  OBVIOUS
<1>1. /\ b \in SC_ssbuff /\ p \in Seq(Nodes) /\ A \in Seq(Nat) /\ Agree(p, A)
      /\ s \in Nat /\ d \in Nat /\ n \in Nat
  BY DEF SortInv, SC_ssbuff
<1>2. /\ Apart(p) /\ InPool(p, s, d) /\ Aged(A, s)
      /\ p = << >> => s = 0
      /\ n <= 2 => 3 * s <= n * d /\ \A i \in 1 .. Len(p) : End(p[i]) <= s
  BY DEF PoolInv
<1>3. SortInv(a)
  BY AnalysedKeeps
<1>4. /\ a \in SC_ssbuff /\ a.phead = p /\ a.frameaddr = A /\ a.position = s /\ a.datasize = d
      /\ a.uiPutFrameCount = n
  BY <1>3, AnalysedKeeps DEF SortInv
<1>5. PoolInv(a)
  <2> HIDE DEF a
  <2> QED BY <1>4, PoolSame
<1>6. len < d /\ 3 * len <= d /\ len < d \div 2
  <2>1. d \in Nat /\ len < d \div 2 /\ 3 * len <= d
    BY <1>1
  <2> HIDE DEF d
  <2> QED BY ONLY <2>1, len \in Nat \ {0}
<1>7. CASE A = << >> \/ n <= 2
  <2>1. c = b
    BY <1>7 DEF CheckStreambuff
  <2>2. Room(p, s, d, len)
    <3>1. CASE A = << >>
      <4>1. Len(p) = 0
        BY <1>1, <3>1 DEF Agree
      <4>2. p = << >>
        BY <1>1, <4>1, EmptySeq
      <4> QED BY <1>1, <1>2, <1>6, <4>1, <4>2 DEF Room
    <3>2. CASE n <= 2
      <4>1. n \in {0, 1, 2}
        BY <1>1, <3>2
      <4> HIDE DEF p, A, s, d, n, c, a
      <4>2. 3 * s <= 2 * d
        BY ONLY <1>1, <1>2, <3>2, <4>1
      <4>3. s + len <= d
        BY ONLY <1>1, <1>6, <4>2, len \in Nat \ {0}
      <4> QED BY <1>2, <1>6, <3>2, <4>3 DEF Room
    <3> QED BY <1>7, <3>1, <3>2
  <2> QED BY <1>6, <2>1, <2>2 DEF Ready
<1>8. CASE ~(A = << >> \/ n <= 2)
  <2>1. c = IF ~TooLong(b, len) THEN a
            ELSE IF d > MAX_SORT_BUFF_LEN THEN CleanSortBuff(a)
            ELSE RemallocSortBuff(a, size)
    BY <1>8 DEF CheckStreambuff
  <2>2. CASE ~TooLong(b, len)
    <3>1. ~(IF s + len <= d THEN s <= A[1] /\ A[1] <= s + len ELSE s <= A[1] \/ A[1] <= len)
      BY <2>2 DEF TooLong
    <3>2. Room(p, s, d, len)
      <4> HIDE DEF p, A, s, d, n, c, a
      <4> QED BY ONLY <1>1, <1>2, <1>6, <1>8, <3>1, OldestIsEnough, len \in Nat \ {0}
    <3>3. c = a
      BY <2>1, <2>2
    <3> HIDE DEF c, a, p, s, d, n, A
    <3> QED BY <1>4, <1>5, <1>8, <3>2, <3>3 DEF Ready
  <2>3. CASE TooLong(b, len) /\ d > MAX_SORT_BUFF_LEN
    <3>1. c = CleanSortBuff(a)
      BY <2>1, <2>3
    <3> HIDE DEF a
    <3>2. PoolInv(c)
      BY <1>4, <3>1, CleanKeeps
    <3>3. c.phead = << >> /\ c.position = 0 /\ c.datasize = d
      BY <1>4, <3>1 DEF CleanSortBuff, DefaultStreamSortBuff
    <3>4. Room(c.phead, c.position, c.datasize, len)
      BY <1>1, <1>6, <3>3 DEF Room
    <3> HIDE DEF c, d
    <3> QED BY <1>6, <3>2, <3>3, <3>4 DEF Ready
  <2>4. CASE TooLong(b, len) /\ ~(d > MAX_SORT_BUFF_LEN)
    <3>1. c = RemallocSortBuff(a, size)
      BY <2>1, <2>4
    <3>2. a.frameaddr # << >> /\ a.uiPutFrameCount > 2 /\ len < a.datasize \div 2
          /\ size = (a.datasize * 3) \div 2
      BY SMTT(30), <1>1, <1>4, <1>6, <1>8
    <3> HIDE DEF a, c, size
    <3> QED BY ONLY <1>3, <1>5, <3>1, <3>2, len \in Nat \ {0}, RemallocMakesRoom
  <2> QED BY <2>2, <2>3, <2>4
<1> QED BY <1>7, <1>8

LEMMA FrameIs ==
  ASSUME NEW f \in Frames
  PROVE  f.timestamp \in Nat /\ f.len \in Nat \ {0} /\ f.len \in Lens
BY SortAssumption DEF Frames

LEMMA NodeIs ==
  ASSUME NEW f \in Frames, NEW s \in Nat
  PROVE  /\ FillTheNode(f, s) \in Nodes
         /\ FillTheNode(f, s).timestamp = f.timestamp /\ FillTheNode(f, s).len = f.len
         /\ FillTheNode(f, s).position = s
BY FrameIs DEF FillTheNode, Nodes

LEMMA MemcpyIs ==
  ASSUME NEW b \in SC_ssbuff, NEW len \in Nat
  PROVE  /\ CopyAt(b, len) \in Nat
         /\ MemcpyToSortBuff(b, len) \in SC_ssbuff
         /\ MemcpyToSortBuff(b, len) =
              [b EXCEPT !.position = MemcpyToSortBuff(b, len).position]
<1> DEFINE x == IF CopyAt(b, len) + len = b.datasize THEN 0 ELSE CopyAt(b, len) + len
<1>1. CopyAt(b, len) \in Nat
  BY DEF CopyAt, SC_ssbuff
<1>2. x \in Nat
  BY <1>1
<1> HIDE DEF x
<1>3. MemcpyToSortBuff(b, len) = [b EXCEPT !.position = x]
  BY DEF MemcpyToSortBuff, x
<1>4. [b EXCEPT !.position = x].position = x /\ [b EXCEPT !.position = x] \in SC_ssbuff
  BY <1>2 DEF SC_ssbuff
<1> QED BY <1>1, <1>3, <1>4

(* The first frame since the pool was cleaned.                             *)
LEMMA PutFirstKeeps ==
  ASSUME RingTakesAll, NEW STATE b, SortInv(b), NEW f \in Frames, PutFirst(b, f)
  PROVE  SortInv(ssbuf') /\ (Ready(b, f.len) => PoolInv(ssbuf'))
<1> DEFINE nd == FillTheNode(f, 0)
           mb == MemcpyToSortBuff(b, f.len)
           c == [mb EXCEPT
                   !.uiPutFrameCount = 1, !.uiValidLen = f.len,
                   !.maxtimestamp = f.timestamp, !.mintimestamp = f.timestamp,
                   !.premintimestamp = f.timestamp,
                   !.phead = <<nd>>, !.frameaddr = AddAddr(@, 0)]
<1>1. b \in SC_ssbuff /\ b.phead = << >> /\ b.frameaddr \in Seq(Nat)
  BY DEF SortInv, PutFirst, SC_ssbuff
<1>2. f.timestamp \in Nat /\ f.len \in Nat \ {0} /\ f.len \in Lens
  BY FrameIs
<1>3. /\ nd \in Nodes /\ nd.timestamp = f.timestamp /\ nd.len = f.len /\ nd.position = 0
      /\ nd.len < RingHalf
  BY <1>2, NodeIs DEF RingTakesAll
<1>4. mb \in SC_ssbuff /\ mb = [b EXCEPT !.position = mb.position]
  BY <1>1, <1>2, MemcpyIs
<1>5. mb.frameaddr = b.frameaddr /\ mb.u32PopFrameCount = b.u32PopFrameCount
      /\ mb.last = b.last /\ mb.regrown = b.regrown /\ mb.datasize = b.datasize
  <2> HIDE DEF mb
  <2> QED BY <1>1, <1>4 DEF SC_ssbuff
<1> HIDE DEF mb, nd
<1>6. <<nd>> \in Seq(Nodes) /\ <<nd>> \in Seq(SC_ssnode) /\ Len(<<nd>>) = 1 /\ <<nd>>[1] = nd
  <2>1. <<nd>> \in Seq(Nodes)
    BY <1>3
  <2> QED BY <2>1, NodesAreNodes
<1>7. c \in SC_ssbuff
  <2>1. Append(b.frameaddr, 0) \in Seq(Nat)
    BY <1>1
  <2>2. AddAddr(mb.frameaddr, 0) \in Seq(Nat)
    BY <1>5, <2>1 DEF AddAddr
  <2>3. f.timestamp \in Nat /\ f.len \in Int /\ 1 \in Nat
    BY <1>2
  <2> DEFINE B == AddAddr(mb.frameaddr, 0)
             P == <<nd>>
  <2>4. B \in Seq(Nat) /\ P \in Seq(SC_ssnode)
    BY <1>6, <2>2
  <2>5. c = [mb EXCEPT
               !.uiPutFrameCount = 1, !.uiValidLen = f.len,
               !.maxtimestamp = f.timestamp, !.mintimestamp = f.timestamp,
               !.premintimestamp = f.timestamp,
               !.phead = P, !.frameaddr = B]
    OBVIOUS
  <2> HIDE DEF B, P, c
  <2> QED BY ONLY <1>4, <2>3, <2>4, <2>5 DEF SC_ssbuff
<1>8. /\ c.phead = <<nd>> /\ c.frameaddr = Append(b.frameaddr, nd.position)
      /\ c.uiPutFrameCount = 1 /\ c.u32PopFrameCount = b.u32PopFrameCount
      /\ c.uiValidLen = nd.len /\ c.mintimestamp = nd.timestamp /\ c.maxtimestamp = nd.timestamp
      /\ c.last = b.last /\ c.regrown = b.regrown /\ c.premintimestamp = f.timestamp
      /\ c.position = mb.position /\ c.datasize = b.datasize
  BY <1>3, <1>4, <1>5 DEF AddAddr, SC_ssbuff
<1>9. ssbuf' = c
  BY DEF PutFirst, nd, mb
<1> HIDE DEF c
<1>10. b.uiPutFrameCount = 0 /\ b.u32PopFrameCount = 0 /\ b.last = 0 /\ b.uiValidLen = 0
  <2>1. Len(<< >>) = 0 /\ << >> \in Seq(Nodes)
    OBVIOUS
  <2>2. PackedAt(<< >>, 1) = 0
    BY <2>1, PackedStep
  <2> QED BY <2>2, <1>1, <2>1 DEF SortInv, EmptyInv, CountInv
<1>11. Len(b.phead) = 0 /\ 1 \in Nat
  BY <1>1
<1>12. IsInserted(c.phead, b.phead, 1, nd)
  BY <1>6, <1>8, <1>11 DEF IsInserted
<1>13. /\ c.uiPutFrameCount = b.uiPutFrameCount + 1
       /\ c.uiValidLen = b.uiValidLen + nd.len
       /\ c.phead \in Seq(Nodes)
       /\ ~b.regrown => b.last <= nd.timestamp /\ b.last <= c.premintimestamp
  BY <1>2, <1>3, <1>6, <1>8, <1>10
<1>14. /\ 1 > 1 => b.phead[1 - 1].timestamp <= nd.timestamp
       /\ 1 <= Len(b.phead) => nd.timestamp <= b.phead[1].timestamp
       /\ c.mintimestamp = IF 1 = 1 THEN nd.timestamp ELSE b.mintimestamp
       /\ c.maxtimestamp = IF 1 = Len(b.phead) + 1 THEN nd.timestamp ELSE b.maxtimestamp
  BY <1>8, <1>11
<1>15. SortInv(c)
  BY ONLY SortInv(b), <1>3, <1>7, <1>8, <1>11, <1>12, <1>13, <1>14, InsertedKeeps
<1>16. ASSUME Ready(b, f.len) PROVE PoolInv(c)
  <2>1. b.position = 0 /\ f.len < b.datasize
    BY <1>1, <1>16 DEF Ready, PoolInv, Room
  <2>2. CopyAt(b, f.len) = 0
    BY <2>1 DEF CopyAt
  <2>3. /\ Ready(b, nd.len) /\ nd.position = CopyAt(b, nd.len)
        /\ c.position = MemcpyToSortBuff(b, nd.len).position /\ c.datasize = b.datasize
    BY <1>3, <1>8, <1>16, <2>2 DEF mb
  <2> QED BY ONLY SortInv(b), <1>3, <1>8, <1>11, <1>12, <1>13, <2>3, InsertedPool
<1> QED BY <1>9, <1>15, <1>16

(* A late frame is counted and dropped, and too many of them clean.        *)
LEMMA PutLateKeeps ==
  ASSUME NEW STATE b, SortInv(b), NEW f \in Frames, PutLate(b, f)
  PROVE  SortInv(ssbuf') /\ (PoolInv(b) => PoolInv(ssbuf'))
<1> DEFINE n == b.u32LateFrameDrop + 1
           kept == IF n > DropLimit THEN CleanSortBuff(b) ELSE b
<1>1. b \in SC_ssbuff
  BY DEF SortInv
<1>2. n \in Nat
  BY <1>1 DEF SC_ssbuff
<1>3. SortInv(kept) /\ kept \in SC_ssbuff /\ (PoolInv(b) => PoolInv(kept))
  BY <1>1, CleanKeeps
<1>4. ssbuf' = [kept EXCEPT !.u32LateFrameDrop = n]
  BY DEF PutLate
<1> HIDE DEF kept, n
<1>5. /\ ssbuf' \in SC_ssbuff
      /\ ssbuf'.phead = kept.phead /\ ssbuf'.frameaddr = kept.frameaddr
      /\ ssbuf'.uiPutFrameCount = kept.uiPutFrameCount
      /\ ssbuf'.u32PopFrameCount = kept.u32PopFrameCount
      /\ ssbuf'.uiValidLen = kept.uiValidLen /\ ssbuf'.mintimestamp = kept.mintimestamp
      /\ ssbuf'.maxtimestamp = kept.maxtimestamp /\ ssbuf'.premintimestamp = kept.premintimestamp
      /\ ssbuf'.last = kept.last /\ ssbuf'.regrown = kept.regrown
      /\ ssbuf'.position = kept.position /\ ssbuf'.datasize = kept.datasize
  BY <1>2, <1>3, <1>4 DEF SC_ssbuff
<1> QED BY <1>3, <1>5, OthersKeep, PoolSame

(* A frame before the first lengthens the sort time and nothing else.      *)
LEMMA LengthenedIs ==
  ASSUME NEW b \in SC_ssbuff, NEW f \in Frames
  PROVE  \E t, a \in Nat : Lengthened(b, f) = [b EXCEPT !.uiSortTime = t, !.uiAnalyTime = a]
<1> DEFINE td == TimeDef(b.mintimestamp, f.timestamp)
<1>1. td \in Nat /\ b.uiSortTime \in Nat /\ b.uiAnalyTime \in Nat /\ ShortTime \in Nat
  <2>1. b.mintimestamp - f.timestamp \in Int
    BY SMTT(30), FrameIs DEF SC_ssbuff
  <2> QED BY <2>1, ModIsNat, SortAssumption DEF SC_ssbuff, TimeDef
<1> HIDE DEF td
<1>2. CASE f.timestamp < b.mintimestamp /\ (b.uiSortTime + td) % UintMod < uiMaxSortTime
  <2>1. Lengthened(b, f) =
          [b EXCEPT !.uiSortTime = @ + (IF td > LongTime THEN ShortTime ELSE td), !.uiAnalyTime = 0]
    BY <1>2 DEF Lengthened, td
  <2>2. b.uiSortTime + (IF td > LongTime THEN ShortTime ELSE td) \in Nat
    BY <1>1
  <2> QED BY <2>1, <2>2
<1>3. CASE ~(f.timestamp < b.mintimestamp /\ (b.uiSortTime + td) % UintMod < uiMaxSortTime)
  <2>1. Lengthened(b, f) = b
    BY <1>3 DEF Lengthened, td
  <2>2. b = [b EXCEPT !.uiSortTime = b.uiSortTime, !.uiAnalyTime = b.uiAnalyTime]
    BY DEF SC_ssbuff
  <2> QED BY <1>1, <2>1, <2>2
<1> QED BY <1>2, <1>3

(* A frame that would turn time back is dropped.                           *)
LEMMA PutReversedKeeps ==
  ASSUME NEW STATE b, SortInv(b), NEW f \in Frames, PutReversed(b, f)
  PROVE  SortInv(ssbuf') /\ (PoolInv(b) => PoolInv(ssbuf'))
<1>1. b \in SC_ssbuff
  BY DEF SortInv
<1>2. PICK t, a \in Nat : Lengthened(b, f) = [b EXCEPT !.uiSortTime = t, !.uiAnalyTime = a]
  BY <1>1, LengthenedIs
<1>3. ssbuf' = [Lengthened(b, f) EXCEPT !.u32LateFrameDrop = 1]
  BY DEF PutReversed
<1>4. /\ ssbuf' \in SC_ssbuff
      /\ ssbuf'.phead = b.phead /\ ssbuf'.frameaddr = b.frameaddr
      /\ ssbuf'.uiPutFrameCount = b.uiPutFrameCount
      /\ ssbuf'.u32PopFrameCount = b.u32PopFrameCount
      /\ ssbuf'.uiValidLen = b.uiValidLen /\ ssbuf'.mintimestamp = b.mintimestamp
      /\ ssbuf'.maxtimestamp = b.maxtimestamp /\ ssbuf'.premintimestamp = b.premintimestamp
      /\ ssbuf'.last = b.last /\ ssbuf'.regrown = b.regrown
      /\ ssbuf'.position = b.position /\ ssbuf'.datasize = b.datasize
  BY ZenonT(60), <1>1, <1>2, <1>3 DEF SC_ssbuff
<1> QED BY <1>4, OthersKeep, PoolSame

(* Ten seconds early, or early too often: both lists emptied.              *)
LEMMA PutJumpKeeps ==
  ASSUME NEW STATE b, SortInv(b), NEW f \in Frames, PutJump(b, f)
  PROVE  SortInv(ssbuf') /\ (PoolInv(b) => PoolInv(ssbuf'))
<1> DEFINE k == CleanSortBuff(b)
<1>1. k \in SC_ssbuff /\ SortInv(k) /\ PoolInv(k)
  <2>1. b \in SC_ssbuff
    BY DEF SortInv
  <2> QED BY <2>1, CleanKeeps
<1>2. ssbuf' = [k EXCEPT !.u32EarlyFrameDrop = 0]
  BY DEF PutJump
<1> HIDE DEF k
<1>3. /\ ssbuf' \in SC_ssbuff
      /\ ssbuf'.phead = k.phead /\ ssbuf'.frameaddr = k.frameaddr
      /\ ssbuf'.uiPutFrameCount = k.uiPutFrameCount
      /\ ssbuf'.u32PopFrameCount = k.u32PopFrameCount
      /\ ssbuf'.uiValidLen = k.uiValidLen /\ ssbuf'.mintimestamp = k.mintimestamp
      /\ ssbuf'.maxtimestamp = k.maxtimestamp /\ ssbuf'.premintimestamp = k.premintimestamp
      /\ ssbuf'.last = k.last /\ ssbuf'.regrown = k.regrown
      /\ ssbuf'.position = k.position /\ ssbuf'.datasize = k.datasize
  BY <1>1, <1>2 DEF SC_ssbuff
<1> QED BY <1>1, <1>3, OthersKeep, PoolSame

LEMMA StoredIs ==
  ASSUME NEW b \in SC_ssbuff, NEW f \in Frames
  PROVE  /\ Stored(b, f) \in SC_ssbuff
         /\ Stored(b, f) = [b EXCEPT !.position = MemcpyToSortBuff(b, f.len).position,
                                     !.uiValidLen = b.uiValidLen + f.len,
                                     !.uiPutFrameCount = b.uiPutFrameCount + 1]
<1> DEFINE s == MemcpyToSortBuff(b, f.len).position
           mb == MemcpyToSortBuff(b, f.len)
<1>1. f.len \in Nat
  BY FrameIs
<1>2. mb \in SC_ssbuff /\ mb = [b EXCEPT !.position = s]
  BY <1>1, MemcpyIs
<1>3. Stored(b, f) = [mb EXCEPT !.uiValidLen = @ + f.len, !.uiPutFrameCount = @ + 1]
  BY DEF Stored
<1> HIDE DEF mb, s
<1>4. mb.uiValidLen = b.uiValidLen /\ mb.uiPutFrameCount = b.uiPutFrameCount
  BY <1>2 DEF SC_ssbuff
<1>5. b.uiValidLen + f.len \in Int /\ b.uiPutFrameCount + 1 \in Nat
  <2>1. b.uiValidLen \in Int /\ b.uiPutFrameCount \in Nat
    BY DEF SC_ssbuff
  <2> QED BY <1>1, <2>1
<1>6. Stored(b, f) = [mb EXCEPT !.uiValidLen = b.uiValidLen + f.len,
                                !.uiPutFrameCount = b.uiPutFrameCount + 1]
  BY <1>3, <1>4
<1>7. Stored(b, f) \in SC_ssbuff
  BY <1>2, <1>5, <1>6 DEF SC_ssbuff
<1>8. Stored(b, f) = [b EXCEPT !.position = s, !.uiValidLen = b.uiValidLen + f.len,
                               !.uiPutFrameCount = b.uiPutFrameCount + 1]
  BY <1>2, <1>6 DEF SC_ssbuff
<1> QED BY <1>7, <1>8 DEF s

LEMMA EarlyDropIsNat ==
  ASSUME NEW b \in SC_ssbuff, NEW f
  PROVE  EarlyDrop(b, f) \in Nat
<1>1. b.u32EarlyFrameDrop + 1 \in Nat
  BY DEF SC_ssbuff
<1> QED BY <1>1 DEF EarlyDrop

(* A frame in order goes last in both lists.                               *)
LEMMA EndKeeps ==
  ASSUME NEW b, SortInv(b), b.phead # << >>, NEW f \in Frames, f.len < RingHalf,
         f.timestamp >= b.maxtimestamp, NEW s \in Nat, NEW c \in SC_ssbuff,
         c.phead = Append(b.phead, FillTheNode(f, s)), c.frameaddr = Append(b.frameaddr, s),
         c.uiPutFrameCount = b.uiPutFrameCount + 1, c.u32PopFrameCount = b.u32PopFrameCount,
         c.uiValidLen = b.uiValidLen + f.len, c.mintimestamp = b.mintimestamp,
         c.maxtimestamp = f.timestamp, c.premintimestamp = b.premintimestamp,
         c.last = b.last, c.regrown = b.regrown, c.datasize = b.datasize,
         s = CopyAt(b, f.len), c.position = MemcpyToSortBuff(b, f.len).position
  PROVE  SortInv(c) /\ (Ready(b, f.len) => PoolInv(c))
<1> DEFINE nd == FillTheNode(f, s)
           n == Len(b.phead)
           k == n + 1
<1>1. b \in SC_ssbuff /\ b.phead \in Seq(Nodes)
  BY DEF SortInv
<1>2. /\ nd \in Nodes /\ nd.timestamp = f.timestamp /\ nd.len = f.len /\ nd.position = s
      /\ nd.len < RingHalf
  BY NodeIs
<1>3. n \in Nat /\ n >= 1
  <2> DEFINE p == b.phead
  <2>1. p \in Seq(Nodes) /\ p # << >>
    BY <1>1
  <2> HIDE DEF p
  <2>2. Len(p) \in Nat /\ Len(p) >= 1
    BY ONLY <2>1, EmptySeq
  <2> QED BY <2>2 DEF p
<1>4. c.phead \in Seq(Nodes) /\ IsInserted(c.phead, b.phead, k, nd)
  BY <1>1, <1>2, AppendInserts
<1>5. b.maxtimestamp = b.phead[n].timestamp /\ b.phead[n] \in Nodes
  BY <1>1, <1>3 DEF SortInv, TimeInv
<1>6. b.phead[n].timestamp <= nd.timestamp /\ b.phead[n].timestamp \in Nat /\ nd.timestamp \in Nat
  BY <1>2, <1>5 DEF Nodes
<1>7. ~b.regrown => b.last <= nd.timestamp /\ b.last <= c.premintimestamp
  <2> SUFFICES ASSUME ~b.regrown PROVE b.last <= nd.timestamp /\ b.last <= c.premintimestamp
    OBVIOUS
  <2>1. b.last <= b.premintimestamp /\ b.last <= b.phead[n].timestamp
    BY <1>3 DEF SortInv, HandInv
  <2>2. b.last \in Nat
    BY <1>1 DEF SC_ssbuff
  <2> QED BY <1>6, <2>1, <2>2
<1> HIDE DEF nd
<1>8. /\ k \in Nat
      /\ k > 1 => b.phead[k - 1].timestamp <= nd.timestamp
      /\ k <= Len(b.phead) => nd.timestamp <= b.phead[k].timestamp
      /\ c.mintimestamp = IF k = 1 THEN nd.timestamp ELSE b.mintimestamp
      /\ c.maxtimestamp = IF k = Len(b.phead) + 1 THEN nd.timestamp ELSE b.maxtimestamp
      /\ c.frameaddr = Append(b.frameaddr, nd.position)
      /\ c.uiValidLen = b.uiValidLen + nd.len
  <2>1. k \in Nat /\ k - 1 = n /\ k # 1 /\ ~(k <= n)
    BY <1>3
  <2> QED BY <2>1, <1>2, <1>6
<1>9. /\ c.uiPutFrameCount = b.uiPutFrameCount + 1 /\ c.u32PopFrameCount = b.u32PopFrameCount
      /\ c.last = b.last /\ c.regrown = b.regrown
  OBVIOUS
<1> HIDE DEF k
<1>10. SortInv(c)
  BY ONLY SortInv(b), c \in SC_ssbuff, <1>2, <1>4, <1>7, <1>8, <1>9, InsertedKeeps
<1>11. ASSUME Ready(b, f.len) PROVE PoolInv(c)
  <2>1. /\ Ready(b, nd.len) /\ nd.position = CopyAt(b, nd.len)
        /\ c.position = MemcpyToSortBuff(b, nd.len).position /\ c.datasize = b.datasize
    BY <1>2, <1>11
  <2> QED BY ONLY SortInv(b), <1>2, <1>4, <1>8, <1>9, <2>1, InsertedPool
<1> QED BY <1>10, <1>11

LEMMA PutAppendKeeps ==
  ASSUME RingTakesAll, NEW STATE b, SortInv(b), NEW f \in Frames, PutAppend(b, f)
  PROVE  SortInv(ssbuf') /\ (Ready(b, f.len) => PoolInv(ssbuf'))
<1> DEFINE s == CopyAt(b, f.len)
           st == Stored(b, f)
           nd == FillTheNode(f, s)
           x == MemcpyToSortBuff(b, f.len).position
           e == EarlyDrop(b, f)
<1>1. /\ b \in SC_ssbuff /\ b.phead # << >> /\ f.timestamp >= b.maxtimestamp
      /\ ssbuf' = [InsertSortEnd(b, f, s) EXCEPT !.frameaddr = AddAddr(@, s)]
      /\ b.phead \in Seq(Nodes) /\ b.frameaddr \in Seq(Nat)
  BY DEF PutAppend, IsInOrder, SortInv, SC_ssbuff
<1>2. f.timestamp \in Nat /\ f.len \in Nat /\ f.len < RingHalf
  BY FrameIs DEF RingTakesAll
<1>3. s \in Nat
  BY <1>1, <1>2, MemcpyIs
<1>4. nd \in Nodes /\ nd \in SC_ssnode
  <2>1. nd \in Nodes
    BY <1>3, NodeIs
  <2> QED BY <2>1 DEF Nodes, SC_ssnode
<1>5. /\ st \in SC_ssbuff
      /\ st = [b EXCEPT !.position = x, !.uiValidLen = b.uiValidLen + f.len,
                        !.uiPutFrameCount = b.uiPutFrameCount + 1]
  BY <1>1, StoredIs
<1>6. e \in Nat
  BY <1>1, EarlyDropIsNat
<1>7. /\ st.phead = b.phead /\ st.frameaddr = b.frameaddr /\ st.u32PopFrameCount = b.u32PopFrameCount
      /\ st.uiPutFrameCount = b.uiPutFrameCount + 1 /\ st.uiValidLen = b.uiValidLen + f.len
      /\ st.mintimestamp = b.mintimestamp /\ st.premintimestamp = b.premintimestamp
      /\ st.last = b.last /\ st.regrown = b.regrown /\ st.position = x /\ st.datasize = b.datasize
  <2> HIDE DEF st, x
  <2> QED BY <1>1, <1>5 DEF SC_ssbuff
<1> DEFINE P == Append(b.phead, nd)
           B == Append(b.frameaddr, s)
<1>8. P \in Seq(SC_ssnode) /\ B \in Seq(Nat)
  BY <1>1, <1>3, <1>4, NodesAreNodes
<1> HIDE DEF st, nd, e
<1>9. ssbuf' = [st EXCEPT !.phead = P, !.u32EarlyFrameDrop = e, !.maxtimestamp = f.timestamp,
                          !.frameaddr = B]
  BY <1>1, <1>5, <1>7 DEF InsertSortEnd, AddAddr, SC_ssbuff, st, nd, e
<1> HIDE DEF P, B, s
<1>10. /\ ssbuf' \in SC_ssbuff
       /\ ssbuf'.phead = P /\ ssbuf'.frameaddr = B
       /\ ssbuf'.uiPutFrameCount = st.uiPutFrameCount
       /\ ssbuf'.u32PopFrameCount = st.u32PopFrameCount
       /\ ssbuf'.uiValidLen = st.uiValidLen /\ ssbuf'.mintimestamp = st.mintimestamp
       /\ ssbuf'.maxtimestamp = f.timestamp /\ ssbuf'.premintimestamp = st.premintimestamp
       /\ ssbuf'.last = st.last /\ ssbuf'.regrown = st.regrown
       /\ ssbuf'.position = st.position /\ ssbuf'.datasize = st.datasize
  BY <1>2, <1>5, <1>6, <1>8, <1>9 DEF SC_ssbuff
<1>11. /\ ssbuf'.phead = Append(b.phead, FillTheNode(f, s)) /\ ssbuf'.frameaddr = Append(b.frameaddr, s)
       /\ ssbuf'.uiPutFrameCount = b.uiPutFrameCount + 1
       /\ ssbuf'.u32PopFrameCount = b.u32PopFrameCount
       /\ ssbuf'.uiValidLen = b.uiValidLen + f.len /\ ssbuf'.mintimestamp = b.mintimestamp
       /\ ssbuf'.maxtimestamp = f.timestamp /\ ssbuf'.premintimestamp = b.premintimestamp
       /\ ssbuf'.last = b.last /\ ssbuf'.regrown = b.regrown
       /\ ssbuf'.datasize = b.datasize /\ s = CopyAt(b, f.len)
       /\ ssbuf'.position = MemcpyToSortBuff(b, f.len).position
  BY <1>7, <1>10 DEF P, B, nd, s
<1> DEFINE c == ssbuf'
<1>12. /\ c \in SC_ssbuff
       /\ c.phead = Append(b.phead, FillTheNode(f, s)) /\ c.frameaddr = Append(b.frameaddr, s)
       /\ c.uiPutFrameCount = b.uiPutFrameCount + 1
       /\ c.u32PopFrameCount = b.u32PopFrameCount
       /\ c.uiValidLen = b.uiValidLen + f.len /\ c.mintimestamp = b.mintimestamp
       /\ c.maxtimestamp = f.timestamp /\ c.premintimestamp = b.premintimestamp
       /\ c.last = b.last /\ c.regrown = b.regrown /\ c.datasize = b.datasize
       /\ s = CopyAt(b, f.len) /\ c.position = MemcpyToSortBuff(b, f.len).position
  BY <1>10, <1>11
<1> HIDE DEF c
<1>13. b.phead # << >> /\ f.timestamp >= b.maxtimestamp
  BY <1>1
<1>14. SortInv(c) /\ (Ready(b, f.len) => PoolInv(c))
  BY ONLY SortInv(b), f \in Frames, <1>2, <1>3, <1>12, <1>13, EndKeeps
<1> QED BY <1>14 DEF c

LEMMA PutReplaceKeeps ==
  ASSUME RingTakesAll, NEW STATE b, SortInv(b), NEW f \in Frames, PutReplace(b, f)
  PROVE  SortInv(ssbuf') /\ (Ready(b, f.len) => PoolInv(ssbuf'))
<1> DEFINE s == CopyAt(b, f.len)
           r == Unlinked(Handed(b))
           h == b.phead[1]
           freed == [Unlinked(b) EXCEPT
                       !.premintimestamp = h.timestamp, !.last = h.timestamp,
                       !.frameaddr = MoveAddr(@, s, h.position)]
           c == InsertSortEnd(freed, f, s)
           nd == FillTheNode(f, s)
<1>1. /\ b \in SC_ssbuff /\ f.timestamp >= b.maxtimestamp /\ Len(b.phead) > 1
      /\ b.phead \in Seq(Nodes) /\ b.frameaddr \in Seq(Nat)
  BY DEF PutReplace, IsInOrder, MakesWay, SortInv, SC_ssbuff
<1>2. f.timestamp \in Nat /\ f.len \in Nat /\ f.len < RingHalf
  BY FrameIs DEF RingTakesAll
<1>3. s \in Nat
  BY <1>1, <1>2, MemcpyIs
<1>4. Head(b.phead) = h /\ h \in Nodes /\ Contains(b.frameaddr, h.position) /\ SortInv(r)
      /\ (\A len : Ready(b, len) => Ready(r, len))
      /\ r.position = b.position /\ r.datasize = b.datasize
  BY <1>1, UnlinkedKeeps
<1>5. ssbuf' = PopFrameStreamSort(c)
  BY <1>4 DEF PutReplace
<1>6. r \in SC_ssbuff /\ r.phead \in Seq(Nodes) /\ r.frameaddr \in Seq(Nat)
  BY <1>4 DEF SortInv, SC_ssbuff
<1>7. freed = [r EXCEPT !.frameaddr = Append(r.frameaddr, s)]
  <2> DEFINE A1 == RemoveFirst(b.frameaddr, h.position)
             t == h.timestamp
             v == b.uiValidLen - h.len
             q == Tail(b.phead)
             n == b.u32PopFrameCount + 1
             m == b.phead[2].timestamp
             u == [b EXCEPT !.uiValidLen = v, !.phead = q, !.u32PopFrameCount = n, !.mintimestamp = m]
             w == [b EXCEPT !.premintimestamp = t, !.last = t, !.frameaddr = A1]
  <2>1. Unlinked(b) = u /\ Handed(b) = w
    BY <1>4 DEF Unlinked, Handed, DeleteAddr
  <2>2. w.phead = b.phead /\ w.uiValidLen = b.uiValidLen /\ w.u32PopFrameCount = b.u32PopFrameCount
    BY <1>1 DEF SC_ssbuff
  <2>3. r = [w EXCEPT !.uiValidLen = v, !.phead = q, !.u32PopFrameCount = n, !.mintimestamp = m]
    BY <1>4, <2>1, <2>2 DEF Unlinked
  <2>4. u.frameaddr = b.frameaddr
    BY <1>1 DEF SC_ssbuff
  <2>5. freed = [u EXCEPT !.premintimestamp = t, !.last = t, !.frameaddr = Append(A1, s)]
    BY <2>1, <2>4 DEF MoveAddr
  <2> HIDE DEF A1, t, v, q, n, m, r, freed, s
  <2>6. r.frameaddr = A1
    BY <1>1, <2>3 DEF SC_ssbuff
  <2> QED BY <1>1, <2>3, <2>5, <2>6 DEF SC_ssbuff
<1>8. r.phead # << >> /\ r.maxtimestamp = b.maxtimestamp
  <2>1. r.phead = Tail(b.phead) /\ r.maxtimestamp = b.maxtimestamp
    BY <1>1 DEF Unlinked, Handed, SC_ssbuff
  <2> DEFINE p == b.phead
  <2>2. p \in Seq(Nodes) /\ Len(p) > 1
    BY <1>1
  <2> HIDE DEF p
  <2>3. Len(Tail(p)) >= 1 /\ Tail(p) \in Seq(Nodes)
    BY ONLY <2>2, HeadTailProperties, EmptySeq
  <2>4. Tail(p) # << >>
    <3> DEFINE t == Tail(p)
    <3>1. Len(t) >= 1
      BY <2>3
    <3> HIDE DEF t
    <3>2. t # << >>
      BY ONLY <3>1, EmptySeq
    <3> QED BY <3>2 DEF t
  <2> QED BY <2>1, <2>4 DEF p
<1> HIDE DEF r, freed, s
<1>9. /\ freed \in SC_ssbuff /\ freed.phead = r.phead /\ freed.frameaddr = Append(r.frameaddr, s)
      /\ freed.uiPutFrameCount = r.uiPutFrameCount /\ freed.u32PopFrameCount = r.u32PopFrameCount
      /\ freed.uiValidLen = r.uiValidLen /\ freed.mintimestamp = r.mintimestamp
      /\ freed.premintimestamp = r.premintimestamp /\ freed.last = r.last
      /\ freed.regrown = r.regrown /\ freed.position = r.position /\ freed.datasize = r.datasize
  <2> DEFINE B == Append(r.frameaddr, s)
  <2>1. B \in Seq(Nat)
    BY <1>3, <1>6
  <2> HIDE DEF B
  <2>2. freed = [r EXCEPT !.frameaddr = B]
    BY <1>7 DEF B
  <2>3. freed \in SC_ssbuff /\ freed.frameaddr = B
    BY <1>6, <2>1, <2>2 DEF SC_ssbuff
  <2> QED BY <1>6, <2>2, <2>3 DEF SC_ssbuff, B
<1> DEFINE st == Stored(freed, f)
           x == MemcpyToSortBuff(freed, f.len).position
           e == EarlyDrop(freed, f)
           P == Append(r.phead, nd)
<1>10. /\ st \in SC_ssbuff
       /\ st = [freed EXCEPT !.position = x, !.uiValidLen = freed.uiValidLen + f.len,
                             !.uiPutFrameCount = freed.uiPutFrameCount + 1]
  BY <1>9, StoredIs
<1>11. e \in Nat
  BY <1>9, EarlyDropIsNat
<1>12. P \in Seq(SC_ssnode)
  <2>1. nd \in Nodes
    BY <1>3, NodeIs
  <2>2. P \in Seq(Nodes)
    BY <1>6, <2>1
  <2> HIDE DEF P
  <2> QED BY <2>2, NodesAreNodes
<1>13. c = [st EXCEPT !.phead = Append(@, nd), !.u32EarlyFrameDrop = e, !.maxtimestamp = f.timestamp]
  BY DEF InsertSortEnd
<1> HIDE DEF c, st, x, e, nd
<1>14. /\ st.phead = r.phead /\ st.frameaddr = Append(r.frameaddr, s)
       /\ st.uiPutFrameCount = r.uiPutFrameCount + 1 /\ st.u32PopFrameCount = r.u32PopFrameCount
       /\ st.uiValidLen = r.uiValidLen + f.len /\ st.mintimestamp = r.mintimestamp
       /\ st.premintimestamp = r.premintimestamp /\ st.last = r.last
       /\ st.regrown = r.regrown /\ st.position = x /\ st.datasize = r.datasize
  BY <1>9, <1>10 DEF SC_ssbuff
<1>15. c = [st EXCEPT !.phead = P, !.u32EarlyFrameDrop = e, !.maxtimestamp = f.timestamp]
  BY <1>13, <1>14
<1> HIDE DEF P
<1>16. /\ c \in SC_ssbuff
       /\ c.phead = P /\ c.frameaddr = st.frameaddr
       /\ c.uiPutFrameCount = st.uiPutFrameCount
       /\ c.u32PopFrameCount = st.u32PopFrameCount
       /\ c.uiValidLen = st.uiValidLen /\ c.mintimestamp = st.mintimestamp
       /\ c.maxtimestamp = f.timestamp /\ c.premintimestamp = st.premintimestamp
       /\ c.last = st.last /\ c.regrown = st.regrown
       /\ c.position = st.position /\ c.datasize = st.datasize
  BY <1>2, <1>10, <1>11, <1>12, <1>15 DEF SC_ssbuff
<1>17. /\ c \in SC_ssbuff
       /\ c.phead = Append(r.phead, FillTheNode(f, s)) /\ c.frameaddr = Append(r.frameaddr, s)
       /\ c.uiPutFrameCount = r.uiPutFrameCount + 1
       /\ c.u32PopFrameCount = r.u32PopFrameCount
       /\ c.uiValidLen = r.uiValidLen + f.len /\ c.mintimestamp = r.mintimestamp
       /\ c.maxtimestamp = f.timestamp /\ c.premintimestamp = r.premintimestamp
       /\ c.last = r.last /\ c.regrown = r.regrown /\ c.datasize = r.datasize
       /\ s = CopyAt(r, f.len) /\ c.position = MemcpyToSortBuff(r, f.len).position
  <2>1. s = CopyAt(r, f.len)
    BY <1>4 DEF s, CopyAt
  <2>2. x = MemcpyToSortBuff(r, f.len).position
    <3> DEFINE y == IF CopyAt(r, f.len) + f.len = r.datasize THEN 0 ELSE CopyAt(r, f.len) + f.len
    <3>1. CopyAt(freed, f.len) = CopyAt(r, f.len) /\ freed.datasize = r.datasize
      BY <1>9 DEF CopyAt
    <3>2. /\ MemcpyToSortBuff(freed, f.len) = [freed EXCEPT !.position = y]
          /\ MemcpyToSortBuff(r, f.len) = [r EXCEPT !.position = y]
      BY <3>1 DEF MemcpyToSortBuff
    <3> HIDE DEF y
    <3>3. [freed EXCEPT !.position = y].position = y /\ [r EXCEPT !.position = y].position = y
      BY <1>6, <1>9 DEF SC_ssbuff
    <3> QED BY <3>2, <3>3 DEF x
  <2> QED BY <1>14, <1>16, <2>1, <2>2 DEF P, nd
<1>18. f.timestamp >= r.maxtimestamp
  BY <1>1, <1>8
<1>19. SortInv(c) /\ (Ready(r, f.len) => PoolInv(c))
  BY ONLY f \in Frames, <1>2, <1>3, <1>4, <1>8, <1>17, <1>18, EndKeeps
<1>20. Ready(b, f.len) => Ready(r, f.len)
  BY <1>4
<1> QED BY <1>5, <1>19, <1>20, PopKeeps

(* Where a frame between the first and the last goes.                      *)
LEMMA MiddleIs ==
  ASSUME NEW p \in Seq(Nodes), Len(p) >= 1, NEW nd \in Nodes,
         p[1].timestamp <= nd.timestamp, nd.timestamp < p[Len(p)].timestamp
  PROVE  \E k \in 2 .. Len(p) :
           /\ InsertSortMiddle(p, nd) = InsertAt(p, k, nd)
           /\ Alatime(p, nd) = p[k - 1].timestamp
           /\ p[k - 1].timestamp <= nd.timestamp /\ nd.timestamp < p[k].timestamp
<1> DEFINE later == {i \in DOMAIN p : p[i].timestamp > nd.timestamp}
           k == Min(later)
<1>1. Len(p) \in Nat /\ DOMAIN p = 1 .. Len(p)
  OBVIOUS
<1>2. \A i \in 1 .. Len(p) : p[i].timestamp \in Nat
  <2> TAKE i \in 1 .. Len(p)
  <2>1. p[i] \in Nodes
    OBVIOUS
  <2> QED BY <2>1 DEF Nodes
<1>3. nd.timestamp \in Nat
  BY DEF Nodes
<1>4. Len(p) \in later /\ later \in SUBSET Nat
  <2>1. Len(p) \in 1 .. Len(p)
    BY <1>1
  <2> QED BY <1>1, <1>2, <1>3, <2>1
<1>5. later # {} /\ 1 \notin later
  <2>1. 1 \in 1 .. Len(p)
    BY <1>1
  <2> QED BY <1>2, <1>3, <1>4, <2>1
<1>6. k \in later /\ \A y \in later : k <= y
  <2>1. \E x \in later : \A y \in later : x <= y
    BY <1>4, <1>5, SmallestOf
  <2> HIDE DEF later
  <2> QED BY <2>1 DEF Min
<1>7. /\ InsertSortMiddle(p, nd) = InsertAt(p, k, nd)
      /\ Alatime(p, nd) = p[k - 1].timestamp
  BY <1>5 DEF InsertSortMiddle, Alatime
<1> HIDE DEF k
<1>8. k \in 2 .. Len(p) /\ p[k].timestamp > nd.timestamp
  <2>1. k \in 1 .. Len(p) /\ k # 1 /\ p[k].timestamp > nd.timestamp
    BY <1>1, <1>5, <1>6
  <2> QED BY <2>1
<1>9. p[k - 1].timestamp <= nd.timestamp
  <2>1. k - 1 \in 1 .. Len(p) /\ ~(k <= k - 1)
    BY <1>8
  <2>2. k - 1 \notin later
    <3> HIDE DEF later
    <3> QED BY <1>6, <2>1
  <2> QED BY <1>1, <1>2, <1>3, <2>1, <2>2
<1>10. nd.timestamp < p[k].timestamp
  BY <1>8
<1> QED BY <1>7, <1>8, <1>9, <1>10

(* A frame neither late nor last goes where its time is.                   *)
LEMMA PutMiddleKeeps ==
  ASSUME RingTakesAll, NEW STATE b, SortInv(b), NEW f \in Frames, PutMiddle(b, f)
  PROVE  SortInv(ssbuf') /\ (Ready(b, f.len) => PoolInv(ssbuf'))
<1> DEFINE position == CopyAt(b, f.len)
           nd == FillTheNode(f, position)
           st == Stored(b, f)
           s == [st EXCEPT !.frameaddr = AddAddr(@, position), !.u32LateFrameDrop = 0]
           span == TimeDef(b.maxtimestamp, Alatime(b.phead, nd))
           x == MemcpyToSortBuff(b, f.len).position
           n == Len(b.phead)
           B == Append(b.frameaddr, nd.position)
<1>1. /\ b \in SC_ssbuff /\ b.phead \in Seq(Nodes) /\ b.frameaddr \in Seq(Nat)
      /\ b.phead # << >> /\ f.timestamp < b.maxtimestamp /\ ~(b.premintimestamp > f.timestamp)
  BY DEF SortInv, PutMiddle, IsWithin, IsReversed, SC_ssbuff
<1>2. f.timestamp \in Nat /\ f.len \in Nat /\ f.len < RingHalf
  BY FrameIs DEF RingTakesAll
<1>3. position \in Nat
  BY <1>1, <1>2, MemcpyIs
<1>4. /\ nd \in Nodes /\ nd.timestamp = f.timestamp /\ nd.len = f.len /\ nd.position = position
      /\ nd.len < RingHalf
  BY <1>2, <1>3, NodeIs
<1>5. n \in Nat /\ n >= 1
  <2> DEFINE p == b.phead
  <2>1. p \in Seq(Nodes) /\ p # << >>
    BY <1>1
  <2> HIDE DEF p
  <2>2. Len(p) \in Nat /\ Len(p) >= 1
    BY ONLY <2>1, EmptySeq
  <2> QED BY <2>2 DEF p
<1>6. b.mintimestamp = b.phead[1].timestamp /\ b.maxtimestamp = b.phead[n].timestamp
  BY <1>1 DEF SortInv, TimeInv
<1>7. /\ st \in SC_ssbuff
      /\ st = [b EXCEPT !.position = x, !.uiValidLen = b.uiValidLen + f.len,
                        !.uiPutFrameCount = b.uiPutFrameCount + 1]
  BY <1>1, StoredIs
<1>8. ssbuf' = IF f.timestamp < b.mintimestamp
               THEN [Lengthened(s, f) EXCEPT !.phead = <<nd>> \o @, !.mintimestamp = f.timestamp]
               ELSE [s EXCEPT !.phead = InsertSortMiddle(@, nd),
                              !.uiAnalyTime = IF Alatime(b.phead, nd) # 0 /\ @ < span THEN span ELSE @]
  BY DEF PutMiddle
<1> HIDE DEF st, x, position
<1>9. /\ st.phead = b.phead /\ st.frameaddr = b.frameaddr /\ st.u32PopFrameCount = b.u32PopFrameCount
      /\ st.uiPutFrameCount = b.uiPutFrameCount + 1 /\ st.uiValidLen = b.uiValidLen + f.len
      /\ st.mintimestamp = b.mintimestamp /\ st.maxtimestamp = b.maxtimestamp
      /\ st.premintimestamp = b.premintimestamp
      /\ st.last = b.last /\ st.regrown = b.regrown /\ st.position = x /\ st.datasize = b.datasize
  BY <1>1, <1>7 DEF SC_ssbuff
<1>10. B \in Seq(Nat) /\ s = [st EXCEPT !.frameaddr = B, !.u32LateFrameDrop = 0]
  BY <1>1, <1>3, <1>4, <1>9 DEF AddAddr
<1> HIDE DEF s, B, nd
<1>11. /\ s \in SC_ssbuff /\ s.phead = b.phead /\ s.frameaddr = B
       /\ s.uiPutFrameCount = b.uiPutFrameCount + 1 /\ s.u32PopFrameCount = b.u32PopFrameCount
       /\ s.uiValidLen = b.uiValidLen + nd.len
       /\ s.mintimestamp = b.mintimestamp /\ s.maxtimestamp = b.maxtimestamp
       /\ s.premintimestamp = b.premintimestamp /\ s.last = b.last /\ s.regrown = b.regrown
       /\ s.position = x /\ s.datasize = b.datasize
  BY ZenonT(60), <1>4, <1>7, <1>9, <1>10 DEF SC_ssbuff
<1>12. ~b.regrown => b.last <= nd.timestamp /\ b.last <= b.premintimestamp
  <2>1. ~b.regrown => b.last <= b.premintimestamp
    BY DEF SortInv, HandInv
  <2>2. b.last \in Nat /\ b.premintimestamp \in Nat
    BY <1>1 DEF SC_ssbuff
  <2> QED BY <1>1, <1>2, <1>4, <2>1, <2>2
<1>13. CASE f.timestamp < b.mintimestamp
  <2> DEFINE P == <<nd>> \o b.phead
  <2>1. P \in Seq(Nodes) /\ IsInserted(P, b.phead, 1, nd)
    BY <1>1, <1>4, ConsInserts
  <2> HIDE DEF P
  <2>2. P \in Seq(SC_ssnode)
    BY <2>1, NodesAreNodes
  <2>3. PICK t, a \in Nat : Lengthened(s, f) = [s EXCEPT !.uiSortTime = t, !.uiAnalyTime = a]
    BY <1>11, LengthenedIs
  <2> DEFINE l == [s EXCEPT !.uiSortTime = t, !.uiAnalyTime = a]
  <2>4. l.phead = b.phead
    BY <1>11 DEF SC_ssbuff
  <2>5. ssbuf' = [l EXCEPT !.phead = P, !.mintimestamp = f.timestamp]
    BY <1>8, <1>13, <2>3, <2>4 DEF P
  <2>6. /\ ssbuf' \in SC_ssbuff /\ ssbuf'.phead = P /\ ssbuf'.frameaddr = s.frameaddr
        /\ ssbuf'.uiPutFrameCount = s.uiPutFrameCount
        /\ ssbuf'.u32PopFrameCount = s.u32PopFrameCount
        /\ ssbuf'.uiValidLen = s.uiValidLen
        /\ ssbuf'.mintimestamp = f.timestamp /\ ssbuf'.maxtimestamp = s.maxtimestamp
        /\ ssbuf'.premintimestamp = s.premintimestamp /\ ssbuf'.last = s.last
        /\ ssbuf'.regrown = s.regrown
        /\ ssbuf'.position = s.position /\ ssbuf'.datasize = s.datasize
    BY <1>2, <1>11, <2>2, <2>5 DEF SC_ssbuff
  <2>7. /\ ssbuf' \in SC_ssbuff /\ ssbuf'.phead \in Seq(Nodes)
        /\ IsInserted(ssbuf'.phead, b.phead, 1, nd)
        /\ ssbuf'.frameaddr = Append(b.frameaddr, nd.position)
        /\ ssbuf'.uiPutFrameCount = b.uiPutFrameCount + 1
        /\ ssbuf'.u32PopFrameCount = b.u32PopFrameCount
        /\ ssbuf'.uiValidLen = b.uiValidLen + nd.len
        /\ ssbuf'.last = b.last /\ ssbuf'.regrown = b.regrown
        /\ ~b.regrown => b.last <= nd.timestamp /\ b.last <= ssbuf'.premintimestamp
    BY <1>11, <1>12, <2>1, <2>6 DEF B
  <2>8. /\ 1 \in Nat
        /\ 1 > 1 => b.phead[1 - 1].timestamp <= nd.timestamp
        /\ 1 <= Len(b.phead) => nd.timestamp <= b.phead[1].timestamp
        /\ ssbuf'.mintimestamp = IF 1 = 1 THEN nd.timestamp ELSE b.mintimestamp
        /\ ssbuf'.maxtimestamp = IF 1 = Len(b.phead) + 1 THEN nd.timestamp ELSE b.maxtimestamp
    <3>1. b.phead[1].timestamp \in Nat
      <4>1. b.phead[1] \in Nodes
        BY <1>1, <1>5
      <4> QED BY <4>1 DEF Nodes
    <3>2. nd.timestamp <= b.phead[1].timestamp
      BY <1>2, <1>4, <1>6, <1>13, <3>1
    <3>3. ~(1 > 1) /\ ~(1 = Len(b.phead) + 1)
      BY <1>5
    <3> QED BY <1>4, <1>11, <2>6, <3>2, <3>3
  <2>9. SortInv(ssbuf')
    BY ONLY SortInv(b), <1>4, <2>7, <2>8, InsertedKeeps
  <2>10. ASSUME Ready(b, f.len) PROVE PoolInv(ssbuf')
    <3>1. /\ Ready(b, nd.len) /\ nd.position = CopyAt(b, nd.len)
          /\ ssbuf'.position = MemcpyToSortBuff(b, nd.len).position
          /\ ssbuf'.datasize = b.datasize
      BY <1>4, <1>11, <2>6, <2>10 DEF position, x
    <3> QED BY ONLY SortInv(b), <1>4, <2>7, <2>8, <3>1, InsertedPool
  <2> QED BY <2>9, <2>10
<1>14. CASE ~(f.timestamp < b.mintimestamp)
  <2>1. b.phead[1].timestamp <= nd.timestamp /\ nd.timestamp < b.phead[n].timestamp
    <3>1. b.phead[1] \in Nodes
      BY <1>1, <1>5
    <3>2. b.phead[1].timestamp \in Nat
      BY <3>1 DEF Nodes
    <3> QED BY <1>1, <1>2, <1>4, <1>6, <1>14, <3>2
  <2>2. PICK k \in 2 .. n :
           /\ InsertSortMiddle(b.phead, nd) = InsertAt(b.phead, k, nd)
           /\ Alatime(b.phead, nd) = b.phead[k - 1].timestamp
           /\ b.phead[k - 1].timestamp <= nd.timestamp /\ nd.timestamp < b.phead[k].timestamp
    BY <1>1, <1>4, <1>5, <2>1, MiddleIs
  <2> DEFINE P == InsertAt(b.phead, k, nd)
             t == IF Alatime(b.phead, nd) # 0 /\ s.uiAnalyTime < span THEN span ELSE s.uiAnalyTime
  <2>3. k \in 1 .. Len(b.phead) /\ k \in Nat /\ k # 1 /\ k # n + 1
    BY <1>5
  <2>4. P \in Seq(Nodes) /\ IsInserted(P, b.phead, k, nd)
    BY <1>1, <1>4, <2>3, InsertAtInserts
  <2>5. t \in Nat
    <3>1. k - 1 \in 1 .. Len(b.phead)
      BY <2>3, <1>5
    <3>2. b.phead[k - 1] \in Nodes
      BY <1>1, <3>1
    <3>3. b.maxtimestamp \in Nat /\ b.phead[k - 1].timestamp \in Nat
      BY <1>1, <3>2 DEF SC_ssbuff, Nodes
    <3>4. b.maxtimestamp - Alatime(b.phead, nd) \in Int
      BY <2>2, <3>3
    <3>5. span \in Nat
      BY <3>4, ModIsNat DEF TimeDef
    <3>6. s.uiAnalyTime \in Nat
      BY <1>11 DEF SC_ssbuff
    <3> HIDE DEF span
    <3> QED BY <3>5, <3>6
  <2>6. ssbuf' = [s EXCEPT !.phead = P, !.uiAnalyTime = t]
    BY <1>8, <1>11, <1>14, <2>2
  <2> HIDE DEF P, t
  <2>7. P \in Seq(SC_ssnode)
    BY <2>4, NodesAreNodes
  <2>8. /\ ssbuf' \in SC_ssbuff /\ ssbuf'.phead = P /\ ssbuf'.frameaddr = s.frameaddr
        /\ ssbuf'.uiPutFrameCount = s.uiPutFrameCount
        /\ ssbuf'.u32PopFrameCount = s.u32PopFrameCount
        /\ ssbuf'.uiValidLen = s.uiValidLen
        /\ ssbuf'.mintimestamp = s.mintimestamp /\ ssbuf'.maxtimestamp = s.maxtimestamp
        /\ ssbuf'.premintimestamp = s.premintimestamp /\ ssbuf'.last = s.last
        /\ ssbuf'.regrown = s.regrown
        /\ ssbuf'.position = s.position /\ ssbuf'.datasize = s.datasize
    BY <1>11, <2>5, <2>6, <2>7 DEF SC_ssbuff
  <2>9. /\ ssbuf' \in SC_ssbuff /\ ssbuf'.phead \in Seq(Nodes)
        /\ IsInserted(ssbuf'.phead, b.phead, k, nd)
        /\ ssbuf'.frameaddr = Append(b.frameaddr, nd.position)
        /\ ssbuf'.uiPutFrameCount = b.uiPutFrameCount + 1
        /\ ssbuf'.u32PopFrameCount = b.u32PopFrameCount
        /\ ssbuf'.uiValidLen = b.uiValidLen + nd.len
        /\ ssbuf'.last = b.last /\ ssbuf'.regrown = b.regrown
        /\ ~b.regrown => b.last <= nd.timestamp /\ b.last <= ssbuf'.premintimestamp
    BY <1>11, <1>12, <2>4, <2>8 DEF B
  <2>10. /\ k \in Nat
         /\ k > 1 => b.phead[k - 1].timestamp <= nd.timestamp
         /\ k <= Len(b.phead) => nd.timestamp <= b.phead[k].timestamp
         /\ ssbuf'.mintimestamp = IF k = 1 THEN nd.timestamp ELSE b.mintimestamp
         /\ ssbuf'.maxtimestamp = IF k = Len(b.phead) + 1 THEN nd.timestamp ELSE b.maxtimestamp
    <3>1. b.phead[k] \in Nodes
      BY <1>1, <2>3
    <3>2. b.phead[k].timestamp \in Nat /\ nd.timestamp \in Nat
      BY <1>4, <3>1 DEF Nodes
    <3>3. nd.timestamp <= b.phead[k].timestamp
      BY <2>2, <3>2
    <3> QED BY <1>11, <2>2, <2>3, <2>8, <3>3
  <2>11. SortInv(ssbuf')
    BY ONLY SortInv(b), <1>4, <2>9, <2>10, InsertedKeeps
  <2>12. ASSUME Ready(b, f.len) PROVE PoolInv(ssbuf')
    <3>1. /\ Ready(b, nd.len) /\ nd.position = CopyAt(b, nd.len)
          /\ ssbuf'.position = MemcpyToSortBuff(b, nd.len).position
          /\ ssbuf'.datasize = b.datasize
      BY <1>4, <1>11, <2>8, <2>12 DEF position, x
    <3> QED BY ONLY SortInv(b), <1>4, <2>9, <2>10, <3>1, InsertedPool
  <2> QED BY <2>11, <2>12
<1> QED BY <1>13, <1>14

-----------------------------------------------------------------------------

SortStateInv == SortInv(ssbuf)

LEMMA SortInvInit ==
  ASSUME Init
  PROVE  SortStateInv
BY DefaultKeeps DEF Init, SortStateInv

LEMMA SortInvNext ==
  ASSUME RingTakesAll, SortStateInv, [Next]_ssbuf
  PROVE  SortStateInv'
<1> USE DEF SortStateInv
<1>1. ASSUME NEW f \in Frames, PutTooBig(f) PROVE SortInv(ssbuf')
  BY <1>1 DEF PutTooBig
<1>2. ASSUME NEW f \in Frames, NEW due \in BOOLEAN, PutFrameStreamSort(f, due) PROVE SortInv(ssbuf')
  <2> DEFINE b == CheckStreambuff(ssbuf, f.len, due)
  <2>1. SortInv(b)
    BY CheckKeeps, FrameIs
  <2>2. \/ PutFirst(b, f) \/ PutLate(b, f) \/ PutReversed(b, f) \/ PutMiddle(b, f)
        \/ PutJump(b, f) \/ PutAppend(b, f) \/ PutReplace(b, f)
    BY <1>2 DEF PutFrameStreamSort
  <2> HIDE DEF b
  <2>3. CASE PutFirst(b, f)
    BY <2>1, <2>3, PutFirstKeeps
  <2>4. CASE PutLate(b, f)
    BY <2>1, <2>4, PutLateKeeps
  <2>5. CASE PutReversed(b, f)
    BY <2>1, <2>5, PutReversedKeeps
  <2>6. CASE PutMiddle(b, f)
    BY <2>1, <2>6, PutMiddleKeeps
  <2>7. CASE PutJump(b, f)
    BY <2>1, <2>7, PutJumpKeeps
  <2>8. CASE PutAppend(b, f)
    BY <2>1, <2>8, PutAppendKeeps
  <2>9. CASE PutReplace(b, f)
    BY <2>1, <2>9, PutReplaceKeeps
  <2> QED BY <2>2, <2>3, <2>4, <2>5, <2>6, <2>7, <2>8, <2>9
<1>3. CASE Recreate
  BY <1>3, DefaultKeeps DEF Recreate
<1>4. CASE UNCHANGED ssbuf
  BY <1>4
<1> QED BY <1>1, <1>2, <1>3, <1>4 DEF Next

(* What the invariant says of the lists and the counters is SortsInTime.   *)
LEMMA SortInvImplies ==
  ASSUME SortStateInv
  PROVE  SortsInTime
<1> USE DEF SortStateInv
<1> DEFINE p == ssbuf.phead
           A == ssbuf.frameaddr
<1>1. ssbuf \in SC_ssbuff /\ p \in Seq(Nodes) /\ A \in Seq(Nat) /\ Agree(p, A)
  <2>1. ssbuf \in SC_ssbuff /\ p \in Seq(Nodes) /\ Agree(p, A)
    BY DEF SortInv
  <2> QED BY <2>1 DEF SC_ssbuff
<1>2. /\ Len(A) = Len(p)
      /\ \A i \in 1 .. Len(p) : \E j \in 1 .. Len(A) : A[j] = p[i].position
      /\ \A j \in 1 .. Len(A) : \E i \in 1 .. Len(p) : A[j] = p[i].position
  BY <1>1, AgreeBoth
<1>3. ListsAgree
  <2>1. ToSet(A) = {A[j] : j \in 1 .. Len(A)} /\ ToSet(p) = {p[i] : i \in 1 .. Len(p)}
    BY <1>1 DEF ToSet
  <2>2. ToSet(A) = {nd.position : nd \in ToSet(p)}
    <3> HIDE DEF A, p
    <3> DEFINE S == {A[j] : j \in 1 .. Len(A)}
               T == {p[i] : i \in 1 .. Len(p)}
    <3>1. ASSUME NEW v \in S PROVE v \in {nd.position : nd \in T}
      <4>1. PICK j \in 1 .. Len(A) : v = A[j]
        OBVIOUS
      <4>2. PICK i \in 1 .. Len(p) : A[j] = p[i].position
        BY <1>2
      <4>3. p[i] \in T /\ v = p[i].position
        BY <4>1, <4>2
      <4> HIDE DEF T
      <4> QED BY <4>3
    <3>2. ASSUME NEW nd \in T PROVE nd.position \in S
      <4>1. PICK i \in 1 .. Len(p) : nd = p[i]
        OBVIOUS
      <4>2. PICK j \in 1 .. Len(A) : A[j] = p[i].position
        BY <1>2
      <4> QED BY <4>1, <4>2
    <3> HIDE DEF S, T
    <3>3. S = {nd.position : nd \in T}
      BY <3>1, <3>2
    <3> QED BY <2>1, <3>3 DEF S, T
  <2> QED BY <1>2, <2>2 DEF ListsAgree
<1>4. TimeOrdered
  <2>1. DOMAIN p = 1 .. Len(p) /\ Head(p) = p[1] /\ Last(p) = p[Len(p)]
    BY <1>1 DEF Last
  <2>2. Sorted(p) /\ (p # << >> => /\ ssbuf.mintimestamp = p[1].timestamp
                                   /\ ssbuf.maxtimestamp = p[Len(p)].timestamp)
    BY DEF SortInv, TimeInv
  <2> HIDE DEF p
  <2>3. \A i, j \in DOMAIN p : i <= j => p[i].timestamp <= p[j].timestamp
    BY <2>1, <2>2 DEF Sorted
  <2> QED BY <2>1, <2>2, <2>3 DEF TimeOrdered, p
<1>5. CountsAgree
  BY DEF CountsAgree, SortInv, CountInv
<1>6. HandedInOrder
  <2>1. DOMAIN p = 1 .. Len(p)
    BY <1>1
  <2>2. \A i \in 1 .. Len(p) : p[i].timestamp \in Nat
    <3> TAKE i \in 1 .. Len(p)
    <3>1. p[i] \in Nodes
      BY <1>1
    <3> QED BY <3>1 DEF Nodes
  <2>3. ssbuf.last \in Nat
    BY <1>1 DEF SC_ssbuff
  <2>4. ~ssbuf.regrown => \A i \in 1 .. Len(p) : ssbuf.last <= p[i].timestamp
    BY DEF SortInv, HandInv
  <2>5. ~ssbuf.regrown => \A i \in 1 .. Len(p) : p[i].timestamp >= ssbuf.last
    BY <2>2, <2>3, <2>4
  <2> QED BY <2>1, <2>5 DEF HandedInOrder
<1> QED BY <1>1, <1>3, <1>4, <1>5, <1>6 DEF SortsInTime, TypeOK

(***************************************************************************)
(* Whatever it is given, in whatever order, and however the pool is grown  *)
(* or cleaned in between, the sorter of stream_sort.c keeps its two lists  *)
(* and its counters in step and hands over in the order of time, if the    *)
(* ring behind it refuses nothing.                                         *)
(***************************************************************************)
THEOREM FramesAreSorted ==
  ASSUME RingTakesAll
  PROVE  Spec => []SortsInTime
<1>1. SortStateInv /\ [Next]_ssbuf => SortStateInv'
  BY SortInvNext
<1> QED BY <1>1, SortInvInit, SortInvImplies, PTL DEF Spec

-----------------------------------------------------------------------------

PoolStateInv == SortInv(ssbuf) /\ PoolInv(ssbuf)

LEMMA PoolInvNext ==
  ASSUME RingTakesAll, FramesAreShort, PoolStateInv, [Next]_ssbuf
  PROVE  PoolStateInv'
<1> USE DEF PoolStateInv
<1>1. ASSUME NEW f \in Frames, PutTooBig(f) PROVE SortInv(ssbuf') /\ PoolInv(ssbuf')
  BY <1>1 DEF PutTooBig
<1>2. ASSUME NEW f \in Frames, NEW due \in BOOLEAN, PutFrameStreamSort(f, due)
      PROVE  SortInv(ssbuf') /\ PoolInv(ssbuf')
  <2> DEFINE b == CheckStreambuff(ssbuf, f.len, due)
  <2>1. /\ f.len < ssbuf.datasize \div 2 /\ 3 * f.len <= ssbuf.datasize
        /\ f.len \in Nat \ {0} /\ f.len \in Nat
    <3>1. f.len \in Nat \ {0} /\ f.len \in Lens
      BY FrameIs
    <3>2. ssbuf.datasize \in Nat
      BY DEF SortInv, SC_ssbuff
    <3>3. f.len < ssbuf.datasize \div 2
      BY <1>2, <3>1, <3>2 DEF PutFrameStreamSort, TooBig
    <3> QED BY <3>1, <3>3 DEF FramesAreShort
  <2>2. SortInv(b) /\ Ready(b, f.len)
    BY <2>1, CheckKeeps, CheckMakesRoom
  <2>3. PoolInv(b)
    BY <2>2 DEF Ready
  <2>4. \/ PutFirst(b, f) \/ PutLate(b, f) \/ PutReversed(b, f) \/ PutMiddle(b, f)
        \/ PutJump(b, f) \/ PutAppend(b, f) \/ PutReplace(b, f)
    BY <1>2 DEF PutFrameStreamSort
  <2> HIDE DEF b
  <2>5. CASE PutFirst(b, f)
    BY <2>2, <2>5, PutFirstKeeps
  <2>6. CASE PutLate(b, f)
    BY <2>2, <2>3, <2>6, PutLateKeeps
  <2>7. CASE PutReversed(b, f)
    BY <2>2, <2>3, <2>7, PutReversedKeeps
  <2>8. CASE PutMiddle(b, f)
    BY <2>2, <2>8, PutMiddleKeeps
  <2>9. CASE PutJump(b, f)
    BY <2>2, <2>3, <2>9, PutJumpKeeps
  <2>10. CASE PutAppend(b, f)
    BY <2>2, <2>10, PutAppendKeeps
  <2>11. CASE PutReplace(b, f)
    BY <2>2, <2>11, PutReplaceKeeps
  <2> QED BY <2>4, <2>5, <2>6, <2>7, <2>8, <2>9, <2>10, <2>11
<1>3. CASE Recreate
  BY <1>3, DefaultKeeps DEF Recreate
<1>4. CASE UNCHANGED ssbuf
  BY <1>4
<1> QED BY <1>1, <1>2, <1>3, <1>4 DEF Next

LEMMA PoolInvInit ==
  ASSUME Init
  PROVE  PoolStateInv
BY DefaultKeeps DEF Init, PoolStateInv

LEMMA PoolInvImplies ==
  ASSUME PoolStateInv
  PROVE  HeldIntact
<1> DEFINE p == ssbuf.phead
<1>1. p \in Seq(Nodes) /\ Apart(p) /\ \A i \in 1 .. Len(p) : End(p[i]) <= ssbuf.datasize
  BY DEF PoolStateInv, SortInv, PoolInv, InPool
<1>2. DOMAIN p = 1 .. Len(p)
  BY <1>1
<1> QED BY <1>1, <1>2 DEF HeldIntact, Apart, End

(***************************************************************************)
(* The pool of stream_sort.c never loses a frame it still holds: to look   *)
(* at the oldest one (CheckStreambuff), to regrow the pool when it is in   *)
(* the way and to clean it when it is large is enough, for pools, lengths, *)
(* stamps and numbers of frames of any size; as long as the ring refuses   *)
(* nothing and a frame is a third of the pool at most, since the first     *)
(* three are put without looking.                                          *)
(***************************************************************************)
THEOREM FramesAreKept ==
  ASSUME RingTakesAll
  PROVE  Spec /\ []FramesAreShort => []HeldIntact
<1>1. PoolStateInv /\ FramesAreShort /\ [Next]_ssbuf => PoolStateInv'
  BY PoolInvNext
<1> QED BY <1>1, PoolInvInit, PoolInvImplies, PTL DEF Spec
=============================================================================
