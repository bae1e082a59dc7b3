----------------------------- MODULE TlogProofs -----------------------------
(***************************************************************************)
(* That the logger loses and mixes up nothing, for rings, lines, files and *)
(* numbers of printers of any size.                                        *)
(*                                                                         *)
(* The work thread reads the ring without the lock.  What makes that safe  *)
(* is said by the points of the ring: printers only write from `end' on,   *)
(* and what the thread noted is either all below `end' or, once the ring   *)
(* has wrapped, all from `start' on.  So what has been handed over, what   *)
(* is yet to be, and what came later are together what was accepted.       *)
(***************************************************************************)
EXTENDS Tlog, FiniteSetTheorems, SequenceTheorems, WellFoundedInduction, TLAPS

Snap == [len : Nat, extlen : Nat, end : Nat, extend : Nat, dropped : Nat]

Worker ==
  [at : {"top", "pick", "wait", "write", "ext", "drop", "release", "gone"},
   log : BOOLEAN, loop_log : BOOLEAN, snap : Snap]

Ghost ==
  [lines : Nat, accepted : Seq(Nat), handed : Seq(Nat), dropped : Nat, reported : Nat,
   faults : Nat, disk : Seq(Nat)]

Types == TypeOK /\ worker \in Worker /\ ghost \in Ghost

(* The ring has wrapped when there is an ext_end; `end' is then below      *)
(* `start', or both are 0 and the ring is full.                            *)
RingPoints ==
  /\ ring.start <= BuffSize - MaxLine
  /\ ring.ext_end = 0 => ring.start <= ring.end
  /\ ring.ext_end > 0 => /\ ring.start < ring.ext_end
                         /\ ring.end < ring.start \/ (ring.end = 0 /\ ring.start = 0)

(* What the thread noted is still there.                                   *)
SnapHolds ==
  LET w == worker.snap
  IN  /\ w.end <= BuffSize - MaxLine /\ w.extend < BuffSize
      /\ w.extend = 0 => /\ ring.start < w.end /\ w.len = w.end - ring.start /\ w.extlen = 0
                         /\ ring.ext_end = 0 => w.end <= ring.end
                         /\ ring.ext_end > 0 => w.end < ring.ext_end
      /\ w.extend > 0 => /\ ring.ext_end = w.extend /\ w.len = w.extend - ring.start
                         /\ w.extlen = w.end /\ w.end <= ring.end
      /\ worker.at = "drop" => w.dropped > 0

(* The bytes [a, b) of f, and what a ring with these points holds.         *)
Seg(f, a, b) == [i \in 1 .. (b - a) |-> f[a + i - 1]]

Has(f, start, ext, end) ==
  IF ext > 0 THEN Seg(f, start, ext) \o Seg(f, 0, end) ELSE Seg(f, start, end)

(* What the thread has noted and not yet handed over.                      *)
ToHand ==
  LET w == worker.snap
  IN  IF worker.at = "write" THEN Seg(buff, ring.start, ring.start + w.len) \o Seg(buff, 0, w.extlen)
      ELSE IF worker.at = "ext" THEN Seg(buff, 0, w.extlen)
      ELSE << >>

(* What the ring holds besides.                                            *)
Later ==
  IF Writing
  THEN Has(buff, worker.snap.end, IF worker.snap.extend > 0 THEN 0 ELSE ring.ext_end, ring.end)
  ELSE Has(buff, ring.start, ring.ext_end, ring.end)

BytesInv == ghost.handed \o (ToHand \o Later) = ghost.accepted

Busy == {p \in Printers : printer[p].at # "idle"}

LinesInv ==
  /\ ghost.lines + Cardinality(Busy) <= MaxLines
  /\ \A p \in Busy : ring.block /\ printer[p].len \in LineLens

LogInv ==
  /\ Types /\ RingPoints /\ (Writing => SnapHolds)
  /\ BytesInv /\ LinesInv /\ DropsReported

-----------------------------------------------------------------------------
(* Stretches of the buffer *)

LEMMA Bytewise ==
  ASSUME NEW s \in Seq(Nat), NEW t \in Seq(Nat), NEW u \in Seq(Nat)
  PROVE  /\ (s \o t) \o u = s \o (t \o u)
         /\ s \o t \in Seq(Nat)
         /\ s \o << >> = s /\ << >> \o s = s
         /\ << >> \in Seq(Nat)
<1> DEFINE S == Nat
<1>1. s \in Seq(S) /\ t \in Seq(S) /\ u \in Seq(S)
  OBVIOUS
<1> HIDE DEF S
<1>2. /\ (s \o t) \o u = s \o (t \o u)
      /\ s \o << >> = s /\ << >> \o s = s
  BY SMTT(30), <1>1, ConcatAssociative, ConcatEmptySeq
<1>3. s \o t \in Seq(S) /\ << >> \in Seq(S)
  BY <1>1, ConcatProperties, EmptySeq
<1> QED BY <1>2, <1>3 DEF S

LEMMA Regrouped ==
  \A x, y, z \in Seq(Nat) : (x \o y) \o z = x \o (y \o z)
<1> TAKE x, y, z \in Seq(Nat)
<1> QED BY SMTT(30), Bytewise

Buffers == [0 .. BuffSize - 1 -> Nat]

LEMMA Sizes ==
  /\ BuffSize \in Nat /\ MaxLine \in Nat /\ MaxLines \in Nat /\ 2 * MaxLine <= BuffSize
  /\ 0 < MaxLine
  /\ \A l \in LineLens : l \in Nat /\ 1 <= l /\ l < MaxLine
<1>1. \A l \in LineLens : l \in 1 .. MaxLine - 1
  BY TlogAssumption
<1> QED BY <1>1, TlogAssumption

LEMMA SegIs ==
  ASSUME NEW f \in Buffers, NEW a \in Nat, NEW b \in Nat, a <= b, b <= BuffSize
  PROVE  /\ Seg(f, a, b) \in Seq(Nat) /\ Len(Seg(f, a, b)) = b - a
         /\ \A i \in 1 .. b - a : Seg(f, a, b)[i] = f[a + i - 1]
<1>1. \A i \in 1 .. b - a : a + i - 1 \in 0 .. BuffSize - 1
  BY Sizes
<1>2. \A i \in 1 .. b - a : f[a + i - 1] \in Nat
  BY <1>1 DEF Buffers
<1>3. b - a \in Nat
  OBVIOUS
<1> QED BY <1>2, <1>3 DEF Seg

LEMMA SegEmpty ==
  ASSUME NEW f, NEW a \in Nat
  PROVE  Seg(f, a, a) = << >>
<1>1. a - a = 0
  OBVIOUS
<1> QED BY <1>1 DEF Seg

(* A stretch is its two parts.                                             *)
LEMMA SegJoin ==
  ASSUME NEW f \in Buffers, NEW a \in Nat, NEW b \in Nat, NEW c \in Nat,
         a <= b, b <= c, c <= BuffSize
  PROVE  Seg(f, a, b) \o Seg(f, b, c) = Seg(f, a, c)
<1> DEFINE s == Seg(f, a, b)
           t == Seg(f, b, c)
           u == Seg(f, a, c)
<1>0. b <= BuffSize /\ a <= c
  BY Sizes
<1>1. s \in Seq(Nat) /\ Len(s) = b - a /\ \A i \in 1 .. b - a : s[i] = f[a + i - 1]
  BY <1>0, SegIs
<1>2. t \in Seq(Nat) /\ Len(t) = c - b /\ \A i \in 1 .. c - b : t[i] = f[b + i - 1]
  BY SegIs
<1>3. u \in Seq(Nat) /\ Len(u) = c - a /\ \A i \in 1 .. c - a : u[i] = f[a + i - 1]
  BY <1>0, SegIs
<1> HIDE DEF s, t, u
<1>4. s \o t \in Seq(Nat) /\ Len(s \o t) = Len(s) + Len(t)
  BY <1>1, <1>2, ConcatProperties
<1>5. Len(s \o t) = c - a
  BY <1>1, <1>2, <1>4
<1>6. ASSUME NEW i \in 1 .. c - a PROVE (s \o t)[i] = u[i]
  <2>1. (s \o t)[i] = IF i <= Len(s) THEN s[i] ELSE t[i - Len(s)]
    BY <1>1, <1>2, ConcatProperties
  <2>2. CASE i <= b - a
    BY <1>1, <1>3, <2>1, <2>2
  <2>3. CASE ~(i <= b - a)
    <3>1. i - (b - a) \in 1 .. c - b /\ b + (i - (b - a)) - 1 = a + i - 1
      BY <2>3
    <3> QED BY <1>1, <1>2, <1>3, <2>1, <2>3, <3>1
  <2> QED BY <2>2, <2>3
<1>7. s \o t = u
  BY <1>3, <1>4, <1>5, <1>6, SeqEqual
<1> QED BY <1>7 DEF s, t, u

LEMMA SegSame ==
  ASSUME NEW f, NEW g, NEW a \in Nat, NEW b \in Nat,
         \A i \in a .. b - 1 : f[i] = g[i]
  PROVE  Seg(f, a, b) = Seg(g, a, b)
<1>1. \A i \in 1 .. b - a : a + i - 1 \in a .. b - 1
  OBVIOUS
<1> QED BY <1>1 DEF Seg

(* The line a printer puts at `end'.                                       *)
Line(n, len) == [i \in 1 .. len |-> n]

LEMMA SegLine ==
  ASSUME NEW g, NEW a \in Nat, NEW len \in Nat, NEW n \in Nat,
         \A i \in a .. a + len - 1 : g[i] = n
  PROVE  Seg(g, a, a + len) = Line(n, len) /\ Line(n, len) \in Seq(Nat)
<1>1. (a + len) - a = len
  OBVIOUS
<1>2. \A i \in 1 .. len : a + i - 1 \in a .. a + len - 1
  OBVIOUS
<1>3. \A i \in 1 .. len : g[a + i - 1] = n
  BY <1>2
<1>4. Seg(g, a, a + len) = [i \in 1 .. len |-> g[a + i - 1]]
  BY <1>1 DEF Seg
<1> QED BY <1>3, <1>4 DEF Line

(* The points of a ring, whoever has them.                                 *)
Points(start, ext, end) ==
  /\ start \in Nat /\ ext \in Nat /\ end \in Nat
  /\ start <= BuffSize /\ ext <= BuffSize /\ end <= BuffSize
  /\ ext = 0 => start <= end
  /\ ext > 0 => start <= ext

LEMMA HasIs ==
  ASSUME NEW f \in Buffers, NEW start, NEW ext, NEW end, Points(start, ext, end)
  PROVE  Has(f, start, ext, end) \in Seq(Nat)
<1>1. start \in Nat /\ ext \in Nat /\ end \in Nat
  BY DEF Points
<1>2. CASE ext = 0
  <2>1. Seg(f, start, end) \in Seq(Nat)
    BY <1>1, <1>2, SegIs DEF Points
  <2>2. ~(ext > 0)
    BY <1>2
  <2> QED BY <2>1, <2>2 DEF Has
<1>3. CASE ext > 0
  <2>1. Seg(f, start, ext) \in Seq(Nat)
    BY <1>1, <1>3, SegIs DEF Points
  <2>2. Seg(f, 0, end) \in Seq(Nat)
    BY <1>1, SegIs DEF Points
  <2> QED BY <1>3, <2>1, <2>2, ConcatProperties DEF Has
<1> QED BY <1>1, <1>2, <1>3

(* g is f with a line of len bytes n at `end'.                             *)
Puts(f, g, end, len, n) ==
  /\ \A i \in 0 .. BuffSize - 1 : i \notin end .. end + len - 1 => g[i] = f[i]
  /\ \A i \in end .. end + len - 1 : g[i] = n

(* A line put at `end', outside of what a ring holds, comes behind it,     *)
(* with or without the wrap that follows.                                  *)
LEMMA LineAdds ==
  ASSUME NEW f \in Buffers, NEW g \in Buffers, NEW start \in Nat, NEW ext \in Nat, NEW end \in Nat,
         Points(start, ext, end), NEW len \in Nat, NEW n \in Nat,
         end + len <= BuffSize, ext > 0 => end + len <= start, 0 < end + len,
         Puts(f, g, end, len, n)
  PROVE  /\ Has(g, start, ext, end + len) = Has(f, start, ext, end) \o Line(n, len)
         /\ ext = 0 => Has(g, start, end + len, 0) = Has(f, start, ext, end) \o Line(n, len)
         /\ Line(n, len) \in Seq(Nat)
<1> DEFINE e == end + len
<1>1. start \in Nat /\ ext \in Nat /\ end \in Nat /\ e \in Nat /\ end <= e /\ BuffSize \in Nat
  BY Sizes DEF Points
<1>0. /\ \A i \in 0 .. BuffSize - 1 : i \notin end .. end + len - 1 => g[i] = f[i]
      /\ \A i \in end .. end + len - 1 : g[i] = n
  BY DEF Puts
<1>2. Seg(g, end, e) = Line(n, len) /\ Line(n, len) \in Seq(Nat)
  BY <1>0, <1>1, SegLine
<1> HIDE DEF e
<1>3. e = end + len
  BY DEF e
<1>4. CASE ext = 0
  <2>1. start <= end /\ end <= BuffSize /\ e <= BuffSize
    BY <1>3, <1>4 DEF Points
  <2>2. Seg(g, start, end) = Seg(f, start, end)
    <3>1. \A i \in start .. end - 1 : g[i] = f[i]
      BY <1>0, <1>1, <1>3, <2>1
    <3> QED BY <1>1, <3>1, SegSame
  <2>3. Seg(g, start, e) = Seg(f, start, end) \o Line(n, len)
    <3>1. Seg(g, start, end) \o Seg(g, end, e) = Seg(g, start, e)
      BY SMTT(30), <1>1, <2>1, SegJoin
    <3> QED BY <1>2, <2>2, <3>1
  <2>4. Has(f, start, ext, end) = Seg(f, start, end) /\ Has(g, start, ext, e) = Seg(g, start, e)
    BY <1>4 DEF Has
  <2>5. Has(g, start, e, 0) = Seg(g, start, e)
    <3>1. Seg(g, 0, 0) = << >>
      BY SegEmpty
    <3>2. Seg(g, start, e) \in Seq(Nat)
      BY <1>1, <2>1, SegIs
    <3>3. e > 0
      BY <1>3
    <3> QED BY <3>1, <3>2, <3>3, ConcatEmptySeq DEF Has
  <2> QED BY <1>2, <1>3, <2>3, <2>4, <2>5
<1>5. CASE ext > 0
  <2>1. start <= ext /\ ext <= BuffSize /\ e <= start /\ e <= BuffSize
    BY <1>1, <1>3, <1>5 DEF Points
  <2>2. Seg(g, start, ext) = Seg(f, start, ext)
    <3>1. \A i \in start .. ext - 1 : g[i] = f[i]
      <4> TAKE i \in start .. ext - 1
      <4>1. start \in Nat /\ end \in Nat /\ len \in Nat /\ ext \in Nat /\ BuffSize \in Nat
        BY <1>1
      <4>2. end + len <= start /\ ext <= BuffSize
        BY <1>3, <2>1
      <4>3. i \in 0 .. BuffSize - 1 /\ i \notin end .. end + len - 1
        BY ONLY i \in start .. ext - 1, <4>1, <4>2
      <4> QED BY ONLY <1>0, <4>3
    <3>2. \A i \in 1 .. ext - start : start + i - 1 \in start .. ext - 1
      BY ONLY start \in Nat, ext \in Nat
    <3> QED BY ONLY <3>1, <3>2 DEF Seg
  <2>3. Seg(g, 0, end) = Seg(f, 0, end)
    <3>1. \A i \in 0 .. end - 1 : g[i] = f[i]
      <4> TAKE i \in 0 .. end - 1
      <4>1. i \in 0 .. BuffSize - 1 /\ i \notin end .. end + len - 1
        BY <1>1, <1>3, <2>1
      <4> QED BY <1>0, <4>1
    <3>2. 0 \in Nat /\ end \in Nat
      BY <1>1
    <3> QED BY ONLY <3>1, <3>2, SegSame
  <2>4. Seg(g, 0, e) = Seg(f, 0, end) \o Line(n, len)
    <3>1. Seg(g, 0, end) \o Seg(g, end, e) = Seg(g, 0, e)
      BY <1>1, <2>1, SegJoin
    <3> QED BY <1>2, <2>3, <3>1
  <2>5. Seg(f, start, ext) \in Seq(Nat) /\ Seg(f, 0, end) \in Seq(Nat)
    BY <1>1, <2>1, SegIs
  <2>6. Has(f, start, ext, end) = Seg(f, start, ext) \o Seg(f, 0, end)
    BY <1>5 DEF Has
  <2>7. Has(g, start, ext, e) = Seg(f, start, ext) \o (Seg(f, 0, end) \o Line(n, len))
    BY <1>5, <2>2, <2>4 DEF Has
  <2>8. ext # 0
    BY <1>1, <1>5
  <2>9. (Seg(f, start, ext) \o Seg(f, 0, end)) \o Line(n, len)
          = Seg(f, start, ext) \o (Seg(f, 0, end) \o Line(n, len))
    <3> DEFINE x == Seg(f, start, ext)
               y == Seg(f, 0, end)
               z == Line(n, len)
    <3>1. x \in Seq(Nat) /\ y \in Seq(Nat) /\ z \in Seq(Nat)
      BY <1>2, <2>5
    <3> HIDE DEF x, y, z
    <3>2. (x \o y) \o z = x \o (y \o z)
      BY <3>1, Regrouped, Zenon
    <3> QED BY <3>2 DEF x, y, z
  <2> QED BY <1>2, <1>3, <2>6, <2>7, <2>8, <2>9
<1> QED BY SMTT(30), <1>1, <1>4, <1>5

-----------------------------------------------------------------------------
(* The files one behind the other *)

(* A file, and files in a row.                                             *)
File == Seq(Nat)

(* Induction, for a set of numbers.                                        *)
LEMMA NatSetInduction ==
  ASSUME NEW S, 0 \in S, \A n \in Nat : n \in S => n + 1 \in S
  PROVE  Nat \subseteq S
<1> DEFINE T == Nat \ S
           R == OpToRel(<, Nat)
<1>1. SUFFICES ASSUME T # {} PROVE FALSE
  OBVIOUS
<1>2. IsWellFoundedOn(R, Nat)
  BY NatLessThanWellFounded
<1>3. T \subseteq Nat
  OBVIOUS
<1> HIDE DEF R
<1>4. PICK x \in T : \A y \in T : <<y, x>> \notin R
  BY <1>1, <1>2, <1>3, WFMin, Zenon
<1>5. R = {ss \in Nat \X Nat : ss[1] < ss[2]}
  BY DEF R, OpToRel
<1>6. x # 0 /\ x \in Nat /\ x - 1 \in T
  OBVIOUS
<1>7. <<x - 1, x>> \in R
  BY <1>5, <1>6
<1> QED BY <1>4, <1>6, <1>7

LEMMA Joined ==
  ASSUME NEW x \in File, NEW y \in File, NEW z \in File
  PROVE  /\ x \o y \in File /\ (x \o y) \o z = x \o (y \o z)
         /\ x \o << >> = x /\ << >> \o x = x
         /\ << >> \in File
BY SMTT(30), Bytewise DEF File

(* f is, for each k, what the first k files are together.                  *)
IsFlat(f, s) == f = [k \in 1 .. Len(s) |-> IF k = 1 THEN s[k] ELSE f[k - 1] \o s[k]]

LEMMA FlatExists ==
  ASSUME NEW s \in Seq(File), Len(s) # 0
  PROVE  \E f : IsFlat(f, s) /\ f \in [1 .. Len(s) -> File]
<1> DEFINE P(f, n) == \A k \in 1 .. n : f[k] = IF k = 1 THEN s[k] ELSE f[k - 1] \o s[k]
           S == {n \in Nat : n \in 1 .. Len(s) => \E f \in [1 .. n -> File] : P(f, n)}
<1>0. Len(s) \in Nat /\ \A k \in 1 .. Len(s) : s[k] \in File
  OBVIOUS
<1>1. 0 \in S
  OBVIOUS
<1>2. ASSUME NEW n \in Nat, n \in S PROVE n + 1 \in S
  <2> SUFFICES ASSUME n + 1 \in 1 .. Len(s)
               PROVE  \E f \in [1 .. n + 1 -> File] : P(f, n + 1)
    OBVIOUS
  <2>0. s[n + 1] \in File
    BY <1>0
  <2>1. CASE n = 0
    <3> DEFINE f == [k \in 1 .. 1 |-> s[1]]
    <3>1. f \in [1 .. 1 -> File] /\ P(f, 1)
      BY <2>0, <2>1
    <3> HIDE DEF f
    <3> QED BY <3>1, <2>1
  <2>2. CASE n # 0
    <3>1. PICK f \in [1 .. n -> File] : P(f, n)
      BY <1>2, <2>2
    <3>2. f[n] \o s[n + 1] \in File
      BY <2>0, <2>2, Joined
    <3> DEFINE y == f[n] \o s[n + 1]
    <3> HIDE DEF y
    <3> DEFINE g == [k \in 1 .. n + 1 |-> IF k = n + 1 THEN y ELSE f[k]]
    <3>3. g \in [1 .. n + 1 -> File]
      <4>1. y \in File
        BY <3>2 DEF y
      <4> QED BY <4>1
    <3>4. \A k \in 1 .. n : g[k] = f[k]
      OBVIOUS
    <3>5. g[n + 1] = y
      OBVIOUS
    <3> HIDE DEF g
    <3>6. P(g, n + 1)
      <4> SUFFICES ASSUME NEW k \in 1 .. n + 1
                   PROVE  g[k] = IF k = 1 THEN s[k] ELSE g[k - 1] \o s[k]
        OBVIOUS
      <4>1. CASE k = n + 1
        <5>1. k # 1 /\ k - 1 = n /\ n \in 1 .. n
          BY <4>1, <2>2
        <5>2. g[k] = y /\ g[k - 1] = f[n]
          BY <5>1, <4>1, <3>4, <3>5
        <5> QED BY <5>1, <5>2, <4>1, Zenon DEF y
      <4>2. CASE k # n + 1
        <5>1. k \in 1 .. n /\ (k # 1 => k - 1 \in 1 .. n)
          BY <4>2
        <5> QED BY <5>1, <3>1, <3>4
      <4> QED BY <4>1, <4>2
    <3> QED BY <3>3, <3>6
  <2> QED BY <2>1, <2>2
<1> HIDE DEF S
<1>3. Nat \subseteq S
  BY <1>1, <1>2, NatSetInduction
<1>4. Len(s) \in S /\ Len(s) \in 1 .. Len(s)
  BY <1>3, <1>0
<1>5. PICK f \in [1 .. Len(s) -> File] : P(f, Len(s))
  BY <1>4 DEF S
<1>6. IsFlat(f, s)
  BY <1>5 DEF IsFlat
<1> QED BY <1>5, <1>6

(* The recursion that defines FlattenSeq.                                  *)
LEMMA FlatIs ==
  ASSUME NEW s \in Seq(File), Len(s) # 0
  PROVE  \E f : IsFlat(f, s) /\ FlattenSeq(s) = f[Len(s)]
<1>1. FlattenSeq(s) = (CHOOSE f : IsFlat(f, s))[Len(s)]
  BY DEF FlattenSeq, IsFlat
<1>2. IsFlat(CHOOSE f : IsFlat(f, s), s)
  BY FlatExists
<1> QED BY <1>1, <1>2

(* Where two rows agree, so do their recursions.                           *)
LEMMA FlatSame ==
  ASSUME NEW s \in Seq(File), NEW t \in Seq(File), NEW f, NEW g,
         IsFlat(f, s), IsFlat(g, t), Len(s) <= Len(t), \A k \in 1 .. Len(s) : s[k] = t[k]
  PROVE  \A k \in 1 .. Len(s) : f[k] = g[k]
<1> DEFINE S == {k \in Nat : k \in 1 .. Len(s) => f[k] = g[k]}
<1>0. Len(s) \in Nat /\ Len(t) \in Nat
  OBVIOUS
<1>1. /\ \A k \in 1 .. Len(s) : f[k] = IF k = 1 THEN s[k] ELSE f[k - 1] \o s[k]
      /\ \A k \in 1 .. Len(t) : g[k] = IF k = 1 THEN t[k] ELSE g[k - 1] \o t[k]
  BY Zenon DEF IsFlat
<1>2. 0 \in S
  OBVIOUS
<1>3. ASSUME NEW k \in Nat, k \in S PROVE k + 1 \in S
  <2> SUFFICES ASSUME k + 1 \in 1 .. Len(s) PROVE f[k + 1] = g[k + 1]
    OBVIOUS
  <2>1. k + 1 \in 1 .. Len(t) /\ s[k + 1] = t[k + 1] /\ (k + 1) - 1 = k
    BY <1>0
  <2>2. CASE k = 0
    BY <2>1, <2>2, <1>1
  <2>3. CASE k # 0
    <3>1. f[k] = g[k]
      BY <1>0, <1>3, <2>3
    <3>2. k + 1 # 1
      BY <2>3
    <3>3. f[k + 1] = f[k] \o s[k + 1] /\ g[k + 1] = g[k] \o t[k + 1]
      BY <1>1, <2>1, <3>2, Zenon
    <3> QED BY <2>1, <3>1, <3>3
  <2> QED BY <2>2, <2>3
<1> HIDE DEF S
<1>4. Nat \subseteq S
  BY <1>2, <1>3, NatSetInduction
<1>5. \A k \in 1 .. Len(s) : k \in S
  BY <1>0, <1>4
<1> QED BY <1>5 DEF S

LEMMA FlattenNone == FlattenSeq(<< >>) = << >>
<1>1. Len(<< >>) = 0
  OBVIOUS
<1> QED BY <1>1 DEF FlattenSeq

LEMMA FlattenIs ==
  ASSUME NEW s \in Seq(File)
  PROVE  FlattenSeq(s) \in File
<1>1. CASE Len(s) = 0
  <2>1. s = << >>
    BY <1>1
  <2>2. << >> \in File
    BY EmptySeq DEF File
  <2> QED BY <2>1, <2>2, FlattenNone, Zenon
<1>2. CASE Len(s) # 0
  <2>1. PICK f : IsFlat(f, s) /\ FlattenSeq(s) = f[Len(s)]
    BY <1>2, FlatIs
  <2>2. PICK g : IsFlat(g, s) /\ g \in [1 .. Len(s) -> File]
    BY <1>2, FlatExists
  <2>3. Len(s) \in 1 .. Len(s)
    BY <1>2
  <2>4. f[Len(s)] = g[Len(s)]
    <3>1. Len(s) <= Len(s) /\ \A k \in 1 .. Len(s) : s[k] = s[k]
      OBVIOUS
    <3>2. \A k \in 1 .. Len(s) : f[k] = g[k]
      BY ONLY <2>1, <2>2, <3>1, FlatSame, s \in Seq(File)
    <3> QED BY <2>3, <3>2
  <2> QED BY <2>1, <2>2, <2>3, <2>4
<1> QED BY <1>1, <1>2

(* A file more.                                                            *)
LEMMA FlattenAppend ==
  ASSUME NEW s \in Seq(File), NEW x \in File
  PROVE  FlattenSeq(Append(s, x)) = FlattenSeq(s) \o x
<1> DEFINE t == Append(s, x)
<1>1. /\ t \in Seq(File) /\ Len(t) = Len(s) + 1 /\ t[Len(s) + 1] = x
      /\ \A k \in 1 .. Len(s) : s[k] = t[k]
  OBVIOUS
<1> HIDE DEF t
<1>2. Len(s) \in Nat /\ Len(t) # 0
  BY <1>1
<1>3. PICK g : IsFlat(g, t) /\ FlattenSeq(t) = g[Len(t)]
  BY <1>1, <1>2, FlatIs
<1>4. \A k \in 1 .. Len(t) : g[k] = IF k = 1 THEN t[k] ELSE g[k - 1] \o t[k]
  BY <1>3, Zenon DEF IsFlat
<1>5. CASE Len(s) = 0
  <2>1. s = << >> /\ FlattenSeq(s) = << >>
    BY <1>5, FlattenNone
  <2>2. g[1] = x
    BY <1>1, <1>4, <1>5
  <2>3. << >> \o x = x
    BY Joined
  <2>4. Len(t) = 1
    BY <1>1, <1>5
  <2>5. FlattenSeq(t) = x
    BY <1>3, <2>2, <2>4
  <2> QED BY <2>1, <2>3, <2>5 DEF t
<1>6. CASE Len(s) # 0
  <2>1. PICK f : IsFlat(f, s) /\ FlattenSeq(s) = f[Len(s)]
    BY <1>6, FlatIs
  <2>2. f[Len(s)] = g[Len(s)]
    <3>1. Len(s) <= Len(t)
      BY <1>1, <1>2
    <3>2. \A k \in 1 .. Len(s) : f[k] = g[k]
      BY ONLY <2>1, <1>3, <1>1, <3>1, FlatSame, s \in Seq(File)
    <3> QED BY <1>2, <1>6, <3>2
  <2>3. g[Len(s) + 1] = g[Len(s)] \o t[Len(s) + 1]
    <3>1. Len(s) + 1 \in 1 .. Len(t) /\ Len(s) + 1 # 1 /\ (Len(s) + 1) - 1 = Len(s)
      BY <1>1, <1>2, <1>6
    <3> QED BY <1>4, <3>1
  <2> QED BY <1>1, <1>3, <2>1, <2>2, <2>3 DEF t
<1> QED BY <1>5, <1>6

(* A row is what its two parts are.                                        *)
LEMMA FlattenConcat ==
  ASSUME NEW s \in Seq(File), NEW t \in Seq(File)
  PROVE  FlattenSeq(s \o t) = FlattenSeq(s) \o FlattenSeq(t)
<1> DEFINE S == {n \in Nat : n <= Len(t) =>
                   FlattenSeq(s \o SubSeq(t, 1, n)) = FlattenSeq(s) \o FlattenSeq(SubSeq(t, 1, n))}
<1>1. 0 \in S
  <2>1. SubSeq(t, 1, 0) = << >>
    BY SubSeqEmpty
  <2>2. s \o << >> = s
    BY ConcatEmptySeq
  <2>3. FlattenSeq(s) \o << >> = FlattenSeq(s)
    BY FlattenIs, Joined
  <2> QED BY <2>1, <2>2, <2>3, FlattenNone
<1>2. ASSUME NEW n \in Nat, n \in S PROVE n + 1 \in S
  <2> SUFFICES ASSUME n + 1 <= Len(t)
               PROVE  FlattenSeq(s \o SubSeq(t, 1, n + 1)) = FlattenSeq(s) \o FlattenSeq(SubSeq(t, 1, n + 1))
    OBVIOUS
  <2> DEFINE u == SubSeq(t, 1, n)
             x == t[n + 1]
  <2>1. u \in Seq(File) /\ x \in File
    OBVIOUS
  <2>2. SubSeq(t, 1, n + 1) = Append(u, x)
    OBVIOUS
  <2>3. FlattenSeq(s \o u) = FlattenSeq(s) \o FlattenSeq(u)
    <3>1. n <= Len(t)
      OBVIOUS
    <3> QED BY <1>2, <3>1
  <2> HIDE DEF u, x
  <2>4. s \o Append(u, x) = Append(s \o u, x) /\ s \o u \in Seq(File)
    BY <2>1
  <2>5. FlattenSeq(Append(s \o u, x)) = (FlattenSeq(s) \o FlattenSeq(u)) \o x
    BY <2>1, <2>3, <2>4, FlattenAppend
  <2>6. FlattenSeq(Append(u, x)) = FlattenSeq(u) \o x
    BY <2>1, FlattenAppend
  <2>7. (FlattenSeq(s) \o FlattenSeq(u)) \o x = FlattenSeq(s) \o (FlattenSeq(u) \o x)
    <3>1. FlattenSeq(s) \in File
      BY FlattenIs
    <3>2. FlattenSeq(u) \in File
      BY <2>1, FlattenIs
    <3>3. x \in File
      BY <2>1
    <3> QED BY <3>1, <3>2, <3>3, Regrouped, Zenon DEF File
  <2> QED BY <2>2, <2>4, <2>5, <2>6, <2>7
<1> HIDE DEF S
<1>3. Nat \subseteq S
  BY <1>1, <1>2, NatSetInduction
<1>4. Len(t) \in S /\ Len(t) <= Len(t) /\ SubSeq(t, 1, Len(t)) = t
  <2>1. Len(t) \in Nat /\ SubSeq(t, 1, Len(t)) = t
    BY SubSeqFull
  <2> QED BY <2>1, <1>3
<1> QED BY <1>4 DEF S

Files ==
  [fd : BOOLEAN, filesize : Nat, zip : {"none", "running", "ok", "failed"},
   file : File, pending : File, gz : File, archives : Seq(File),
   tried : BOOLEAN, polled : BOOLEAN, removed : File, lost : File]

(* A compressed file that gzip has not just made was there before this     *)
(* process, and until it is renamed no file is archived.                   *)
FileInv(f) ==
  /\ f \in Files
  /\ f.gz # << >> /\ f.zip # "ok" => f.zip = "none" /\ Len(f.archives) <= LogCount
  /\ Len(f.archives) <= LogCount + 1

LEMMA OnDiskIs ==
  ASSUME NEW f \in Files
  PROVE  OnDisk(f) \in File
<1> DEFINE a == f.removed
           b == FlattenSeq(f.archives)
           c == f.gz
           d == f.pending
           e == f.file
<1>1. a \in Seq(Nat) /\ b \in Seq(Nat) /\ c \in Seq(Nat) /\ d \in Seq(Nat) /\ e \in Seq(Nat)
  BY FlattenIs DEF Files, File
<1>2. OnDisk(f) = a \o b \o c \o d \o e
  BY DEF OnDisk
<1> HIDE DEF a, b, c, d, e
<1>3. a \o b \o c \o d \o e \in Seq(Nat)
  BY <1>1
<1> QED BY <1>2, <1>3 DEF File

(* What an earlier process leaves.                                         *)
LEMMA LeftoversAre ==
  ASSUME NEW byte \in Nat, NEW f \in Leftovers(byte)
  PROVE  FileInv(f)
<1>1. /\ << >> \in File /\ << byte >> \in File /\ << byte, byte >> \in File /\ << >> \in Seq(File)
      /\ LogCount \in Nat
  BY TlogFileAssumption DEF File
<1>2. NewFs \in Files
  BY <1>1 DEF NewFs, Files
<1>3. [i \in 1 .. LogCount |-> <<byte>>] \in Seq(File) /\ Len([i \in 1 .. LogCount |-> <<byte>>]) = LogCount
  <2> DEFINE x == <<byte>>
  <2>1. x \in File
    BY <1>1
  <2> HIDE DEF x
  <2> SUFFICES [i \in 1 .. LogCount |-> x] \in Seq(File) /\ Len([i \in 1 .. LogCount |-> x]) = LogCount
    BY DEF x
  <2> QED BY <1>1, <2>1
<1>4. CASE f = NewFs
  BY <1>1, <1>2, <1>4 DEF FileInv, NewFs
<1>5. CASE f = [NewFs EXCEPT !.file = <<byte, byte>>, !.pending = <<byte>>]
  <2>1. f \in Files
    BY <1>1, <1>2, <1>5 DEF Files
  <2>2. f.gz = << >> /\ f.archives = << >>
    BY <1>5 DEF NewFs
  <2> QED BY <1>1, <2>1, <2>2 DEF FileInv
<1>6. CASE f = [NewFs EXCEPT !.gz = <<byte>>, !.archives = [i \in 1 .. LogCount |-> <<byte>>]]
  <2> DEFINE a == [i \in 1 .. LogCount |-> <<byte>>]
  <2> HIDE DEF a
  <2>0. a \in Seq(File) /\ Len(a) = LogCount /\ f = [NewFs EXCEPT !.gz = <<byte>>, !.archives = a]
    BY <1>3, <1>6 DEF a
  <2>1. f \in Files
    BY <1>1, <1>2, <2>0 DEF Files
  <2>2. f.archives = a /\ f.zip = "none"
    BY <2>0 DEF NewFs
  <2> QED BY <1>1, <2>0, <2>1, <2>2 DEF FileInv
<1> QED BY <1>4, <1>5, <1>6 DEF Leftovers

-----------------------------------------------------------------------------
(* The invariant *)

LEMMA Behind ==
  \A h, t, l, n \in Seq(Nat) : h \o (t \o (l \o n)) = (h \o (t \o l)) \o n
<1> TAKE h, t, l, n \in Seq(Nat)
<1>1. (t \o l) \o n = t \o (l \o n)
  BY Regrouped, Zenon
<1>2. t \o l \in Seq(Nat)
  BY Bytewise
<1> DEFINE s == t \o l
<1> HIDE DEF s
<1>3. s \in Seq(Nat)
  BY <1>2 DEF s
<1>4. (h \o s) \o n = h \o (s \o n)
  BY SMTT(30), <1>3, Regrouped, Zenon
<1> QED BY <1>1, <1>4 DEF s

(* The numbers of the ring.                                                *)
LEMMA Numbers ==
  ASSUME LogInv
  PROVE  /\ ring.start \in Nat /\ ring.end \in Nat /\ ring.ext_end \in Nat
         /\ ring.start < BuffSize /\ ring.end <= BuffSize - MaxLine /\ ring.ext_end < BuffSize
         /\ buff \in Buffers
         /\ worker.snap \in Snap
         /\ ghost.accepted \in Seq(Nat) /\ ghost.handed \in Seq(Nat) /\ ghost.lines \in Nat
<1>1. /\ ring \in [start : 0 .. BuffSize - 1, end : 0 .. BuffSize - MaxLine,
                   ext_end : 0 .. BuffSize - 1, dropped : Nat, block : BOOLEAN]
      /\ buff \in [0 .. BuffSize - 1 -> 0 .. MaxLines + 1]
      /\ worker \in Worker /\ ghost \in Ghost
  BY DEF LogInv, Types, TypeOK
<1>2. buff \in Buffers
  BY <1>1 DEF Buffers
<1>3. worker.snap \in Snap
  BY <1>1 DEF Worker
<1>4. ghost.accepted \in Seq(Nat) /\ ghost.handed \in Seq(Nat) /\ ghost.lines \in Nat
  BY <1>1 DEF Ghost
<1> QED BY SMTT(30), <1>1, <1>2, <1>3, <1>4, Sizes

LEMMA HoldsPoints ==
  ASSUME LogInv
  PROVE  /\ Points(ring.start, ring.ext_end, ring.end)
         /\ Writing => Points(worker.snap.end, IF worker.snap.extend > 0 THEN 0 ELSE ring.ext_end, ring.end)
<1>1. RingPoints /\ (Writing => SnapHolds)
  BY DEF LogInv
<1>2. Points(ring.start, ring.ext_end, ring.end)
  BY <1>1, Numbers, Sizes DEF RingPoints, Points
<1>3. ASSUME Writing
      PROVE  Points(worker.snap.end, IF worker.snap.extend > 0 THEN 0 ELSE ring.ext_end, ring.end)
  <2>1. worker.snap.end \in Nat /\ worker.snap.extend \in Nat
    BY Numbers DEF Snap
  <2>2. CASE worker.snap.extend > 0
    BY <1>1, <1>3, <2>1, <2>2, Numbers, Sizes DEF SnapHolds, Points
  <2>3. CASE worker.snap.extend = 0
    BY <1>1, <1>3, <2>1, <2>3, Numbers, Sizes DEF SnapHolds, Points
  <2> QED BY <2>1, <2>2, <2>3
<1> QED BY <1>2, <1>3

LEMMA ToHandIs ==
  ASSUME LogInv
  PROVE  /\ ToHand \in Seq(Nat) /\ Later \in Seq(Nat)
         /\ Writing => /\ Seg(buff, ring.start, ring.start + worker.snap.len) \in Seq(Nat)
                       /\ Seg(buff, 0, worker.snap.extlen) \in Seq(Nat)
<1>1. Later \in Seq(Nat)
  BY HoldsPoints, HasIs, Numbers DEF Later
<1>2. ASSUME Writing
      PROVE  /\ Seg(buff, ring.start, ring.start + worker.snap.len) \in Seq(Nat)
             /\ Seg(buff, 0, worker.snap.extlen) \in Seq(Nat)
  <2>1. SnapHolds /\ worker.snap \in Snap
    BY <1>2, Numbers DEF LogInv
  <2>2. /\ ring.start + worker.snap.len \in Nat /\ ring.start <= ring.start + worker.snap.len
        /\ ring.start + worker.snap.len <= BuffSize
        /\ worker.snap.extlen \in Nat /\ worker.snap.extlen <= BuffSize
    <3>1. /\ worker.snap.len \in Nat /\ worker.snap.extlen \in Nat
          /\ worker.snap.end \in Nat /\ worker.snap.extend \in Nat
      BY <2>1 DEF Snap
    <3>2. CASE worker.snap.extend > 0
      BY SMTT(30), <2>1, <3>1, <3>2, Numbers, Sizes DEF SnapHolds
    <3>3. CASE worker.snap.extend = 0
      BY SMTT(30), <2>1, <3>1, <3>3, Numbers, Sizes DEF SnapHolds
    <3> QED BY <3>1, <3>2, <3>3
  <2>3. 0 \in Nat /\ 0 <= worker.snap.extlen
    BY <2>2
  <2>4. \A a, b \in Nat : a <= b /\ b <= BuffSize => Seg(buff, a, b) \in Seq(Nat)
    BY Numbers, SegIs
  <2>5. ring.start \in Nat
    BY Numbers
  <2>6. Seg(buff, 0, worker.snap.extlen) \in Seq(Nat)
    BY <2>2, <2>3, <2>4
  <2> QED BY <2>2, <2>4, <2>5, <2>6
<1>3. << >> \in Seq(Nat)
  OBVIOUS
<1>4. Writing => Seg(buff, ring.start, ring.start + worker.snap.len) \o Seg(buff, 0, worker.snap.extlen) \in Seq(Nat)
  BY <1>2, ConcatProperties
<1>5. ToHand \in Seq(Nat)
  BY <1>2, <1>3, <1>4 DEF ToHand, Writing
<1> QED BY <1>1, <1>2, <1>5

(* An empty ring, nothing noted, nothing printed.                          *)
LEMMA LogInit == Init => LogInv
<1> SUFFICES ASSUME Init PROVE LogInv
  OBVIOUS
<1>1. /\ ring.start = 0 /\ ring.end = 0 /\ ring.ext_end = 0 /\ ring.dropped = 0
      /\ ring.block \in BOOLEAN
      /\ ring = [start |-> 0, end |-> 0, ext_end |-> 0, dropped |-> 0, block |-> ring.block]
  BY TlogAssumption DEF Init
<1>2. ~Writing /\ ToHand = << >>
  BY DEF Init, Writing, ToHand
<1>3. Later = << >>
  <2>1. Seg(buff, 0, 0) = << >>
    BY SegEmpty
  <2> QED BY <1>1, <1>2, <2>1 DEF Later, Has
<1>4. BytesInv
  BY <1>2, <1>3 DEF BytesInv, Init
<1>5. Busy = {}
  BY DEF Busy, Init, Idle
<1>6. LinesInv
  BY <1>5, FS_EmptySet, Sizes DEF LinesInv, Init
<1>7. TypeOK
  BY <1>1, Sizes DEF Init, TypeOK, Idle
<1>8. worker \in Worker
  BY DEF Init, Worker, Snap, NoSnap
<1>9. ghost \in Ghost
  <2>1. OnDisk(fs) \in Seq(Nat)
    <3>1. OldByte \in Nat
      BY Sizes DEF OldByte
    <3>2. FileInv(fs)
      BY <3>1, LeftoversAre DEF Init
    <3> QED BY <3>2, OnDiskIs DEF FileInv, File
  <2> QED BY <2>1 DEF Init, Ghost
<1>10. RingPoints /\ DropsReported
  BY <1>1, Sizes DEF RingPoints, DropsReported, Init
<1> QED BY <1>2, <1>4, <1>6, <1>7, <1>8, <1>9, <1>10 DEF LogInv, Types

-----------------------------------------------------------------------------
(* Printing *)

(* Where nothing moves, nothing of this changes.                           *)
LEMMA Still ==
  ASSUME LogInv, ring'.start = ring.start, ring'.end = ring.end, ring'.ext_end = ring.ext_end,
         buff' = buff, worker' = worker
  PROVE  RingPoints' /\ (Writing' => SnapHolds') /\ ToHand' = ToHand /\ Later' = Later
<1>1. RingPoints /\ (Writing => SnapHolds)
  BY DEF LogInv
<1>2. RingPoints'
  BY <1>1 DEF RingPoints
<1>3. Writing' => SnapHolds'
  BY <1>1 DEF Writing, SnapHolds
<1>4. ToHand' = ToHand
  BY DEF ToHand
<1>5. Later' = Later
  BY DEF Later, Writing
<1> QED BY <1>2, <1>3, <1>4, <1>5

(* Room for a line: it ends below `start' of a wrapped ring, and below the *)
(* end of the buffer else.                                                 *)
LEMMA RoomFor ==
  ASSUME LogInv, NEW len \in LineLens, FreeLen >= MaxLine
  PROVE  LET e == ring.end + len
         IN  /\ len \in Nat /\ e \in Nat /\ ring.end < e /\ e < BuffSize
             /\ ring.ext_end > 0 => e < ring.start /\ e <= BuffSize - MaxLine
             /\ ring.ext_end = 0 => ring.start <= ring.end
<1>1. RingPoints
  BY DEF LogInv
<1>2. len \in Nat /\ 1 <= len /\ len < MaxLine
  BY Sizes
<1>3. CASE ring.ext_end = 0
  <2>1. BuffSize - ring.end >= MaxLine
    BY <1>1, <1>3, Numbers DEF FreeLen, RingPoints
  <2> QED BY SMTT(30), <1>1, <1>2, <1>3, <2>1, Numbers, Sizes DEF RingPoints
<1>4. CASE ring.ext_end > 0
  <2>1. ring.end < ring.start
    <3>1. SUFFICES ASSUME ring.end = 0, ring.start = 0 PROVE FALSE
      BY <1>1, <1>4 DEF RingPoints
    <3>2. FreeLen = 0
      BY <1>4, <3>1, Numbers DEF FreeLen
    <3> QED BY <3>2, Sizes
  <2>2. FreeLen = ring.start - ring.end
    BY <2>1, Numbers DEF FreeLen
  <2> QED BY SMTT(30), <1>1, <1>2, <1>4, <2>1, <2>2, Numbers, Sizes DEF RingPoints
<1> QED BY <1>3, <1>4, Numbers

(* The line put into the ring.                                             *)
LEMMA LinePut ==
  ASSUME LogInv, NEW len \in LineLens, FreeLen >= MaxLine,
         buff' = [i \in DOMAIN buff |->
                    IF i \in ring.end .. ring.end + len - 1 THEN LineNo ELSE buff[i]],
         ring' = AfterPrint(len), worker' = worker,
         LineNo <= MaxLines
  PROVE  /\ RingPoints' /\ (Writing' => SnapHolds') /\ ToHand' = ToHand
         /\ Later' = Later \o Line(LineNo, len) /\ Line(LineNo, len) \in Seq(Nat)
         /\ buff' \in [0 .. BuffSize - 1 -> 0 .. MaxLines + 1]
         /\ ring' \in [start : 0 .. BuffSize - 1, end : 0 .. BuffSize - MaxLine,
                       ext_end : 0 .. BuffSize - 1, dropped : Nat, block : BOOLEAN]
<1> DEFINE e == ring.end + len
<1>0. RingPoints /\ (Writing => SnapHolds)
  BY DEF LogInv
<1>1. /\ len \in Nat /\ e \in Nat /\ ring.end < e /\ e < BuffSize
      /\ ring.ext_end > 0 => e < ring.start /\ e <= BuffSize - MaxLine
      /\ ring.ext_end = 0 => ring.start <= ring.end
  BY RoomFor
<1>2. /\ ring \in [start : 0 .. BuffSize - 1, end : 0 .. BuffSize - MaxLine,
                   ext_end : 0 .. BuffSize - 1, dropped : Nat, block : BOOLEAN]
      /\ buff \in [0 .. BuffSize - 1 -> 0 .. MaxLines + 1]
  BY DEF LogInv, Types, TypeOK
<1>3. /\ ring'.start = ring.start
      /\ e > BuffSize - MaxLine => ring'.ext_end = e /\ ring'.end = 0
      /\ e <= BuffSize - MaxLine => ring'.ext_end = ring.ext_end /\ ring'.end = e
  <2>1. e \in Nat /\ BuffSize - MaxLine \in Int
    BY <1>1, Sizes
  <2> QED BY <1>2, <2>1 DEF AfterPrint
<1>4. ring' \in [start : 0 .. BuffSize - 1, end : 0 .. BuffSize - MaxLine,
                 ext_end : 0 .. BuffSize - 1, dropped : Nat, block : BOOLEAN]
  <2>1. CASE e > BuffSize - MaxLine
    <3>1. ring' = [ring EXCEPT !.ext_end = e, !.end = 0]
      BY <2>1 DEF AfterPrint
    <3>2. e \in 0 .. BuffSize - 1 /\ 0 \in 0 .. BuffSize - MaxLine
      BY <1>1, Sizes
    <3> QED BY <1>2, <3>1, <3>2
  <2>2. CASE ~(e > BuffSize - MaxLine)
    <3>1. ring' = [ring EXCEPT !.end = e]
      BY <2>2 DEF AfterPrint
    <3>2. e \in 0 .. BuffSize - MaxLine
      BY <1>1, <2>2, Sizes
    <3> QED BY <1>2, <3>1, <3>2
  <2> QED BY <2>1, <2>2
<1>5. LineNo \in Nat /\ LineNo \in 0 .. MaxLines + 1
  BY SMTT(30), Numbers, Sizes DEF LineNo
<1>6. buff' \in [0 .. BuffSize - 1 -> 0 .. MaxLines + 1] /\ buff' \in Buffers
  <2>1. DOMAIN buff = 0 .. BuffSize - 1
    BY <1>2
  <2>2. \A i \in 0 .. BuffSize - 1 : buff[i] \in 0 .. MaxLines + 1
    BY <1>2
  <2>3. buff' \in [0 .. BuffSize - 1 -> 0 .. MaxLines + 1]
    BY <1>5, <2>1, <2>2
  <2> QED BY <2>3, Sizes DEF Buffers
<1>7. /\ \A i \in 0 .. BuffSize - 1 : i \notin ring.end .. ring.end + len - 1 => buff'[i] = buff[i]
      /\ \A i \in ring.end .. ring.end + len - 1 : buff'[i] = LineNo
  <2>1. DOMAIN buff = 0 .. BuffSize - 1
    BY <1>2
  <2>2. \A i \in ring.end .. ring.end + len - 1 : i \in 0 .. BuffSize - 1
    <3>1. ring.end \in Nat /\ BuffSize \in Nat
      BY Numbers, Sizes
    <3> QED BY <1>1, <3>1
  <2> QED BY <2>1, <2>2
<1> HIDE DEF e
<1>8. /\ e = ring.end + len
      /\ ring.start \in Nat /\ ring.end \in Nat /\ ring.ext_end \in Nat
      /\ ring.start < BuffSize /\ ring.end <= BuffSize - MaxLine /\ ring.ext_end < BuffSize
      /\ BuffSize \in Nat /\ MaxLine \in Nat /\ 0 < MaxLine /\ 2 * MaxLine <= BuffSize
      /\ worker.snap.end \in Nat /\ worker.snap.extend \in Nat
      /\ worker.snap.len \in Nat /\ worker.snap.extlen \in Nat
  BY Numbers, Sizes DEF e, Snap
<1>9. RingPoints'
  <2>1. CASE e > BuffSize - MaxLine
    BY <1>0, <1>1, <1>3, <1>8, <2>1 DEF RingPoints
  <2>2. CASE e <= BuffSize - MaxLine
    BY <1>0, <1>1, <1>3, <1>8, <2>2 DEF RingPoints
  <2> QED BY <1>1, <1>8, <2>1, <2>2
<1>10. ASSUME Writing' PROVE SnapHolds'
  <2>1. Writing
    BY <1>10 DEF Writing
  <2>2. CASE e > BuffSize - MaxLine
    BY <1>0, <1>1, <1>3, <1>8, <2>1, <2>2 DEF SnapHolds
  <2>3. CASE e <= BuffSize - MaxLine
    BY <1>0, <1>1, <1>3, <1>8, <2>1, <2>3 DEF SnapHolds
  <2> QED BY <1>1, <1>8, <2>2, <2>3
<1>11. ToHand' = ToHand
  <2>1. CASE ~Writing
    BY <2>1 DEF ToHand, Writing
  <2>2. CASE Writing
    <3>1. ring.start + worker.snap.len <= ring.end \/ e <= ring.start
      <4>1. CASE worker.snap.extend > 0
        BY <1>0, <1>1, <1>8, <2>2, <4>1 DEF SnapHolds
      <4>2. CASE worker.snap.extend = 0
        BY <1>0, <1>1, <1>8, <2>2, <4>2 DEF SnapHolds
      <4> QED BY <1>8, <4>1, <4>2
    <3>2. worker.snap.extlen <= ring.end /\ ring.start + worker.snap.len <= BuffSize
      <4>1. CASE worker.snap.extend > 0
        BY <1>0, <1>1, <1>8, <2>2, <4>1 DEF SnapHolds
      <4>2. CASE worker.snap.extend = 0
        BY <1>0, <1>1, <1>8, <2>2, <4>2 DEF SnapHolds
      <4> QED BY <1>8, <4>1, <4>2
    <3>3. Seg(buff', ring.start, ring.start + worker.snap.len) = Seg(buff, ring.start, ring.start + worker.snap.len)
      <4>1. \A i \in ring.start .. ring.start + worker.snap.len - 1 : buff'[i] = buff[i]
        <5> TAKE i \in ring.start .. ring.start + worker.snap.len - 1
        <5>1. i \in 0 .. BuffSize - 1 /\ i \notin ring.end .. ring.end + len - 1
          BY <1>1, <1>8, <3>1, <3>2
        <5> QED BY <1>7, <5>1
      <4>2. ring.start + worker.snap.len \in Nat
        BY <1>8
      <4>3. ring.start \in Nat
        BY <1>8
      <4> DEFINE g == buff'
                 b == ring.start + worker.snap.len
                 a == ring.start
      <4>4. a \in Nat /\ b \in Nat /\ \A i \in a .. b - 1 : g[i] = buff[i]
        <5>1. \A i \in a .. b - 1 : g[i] = buff[i]
          BY <1>8, <4>1
        <5> QED BY <4>2, <4>3, <5>1
      <4> SUFFICES Seg(g, a, b) = Seg(buff, a, b)
        OBVIOUS
      <4> HIDE DEF g, a, b
      <4> QED BY ONLY <4>4, SegSame
    <3>4. Seg(buff', 0, worker.snap.extlen) = Seg(buff, 0, worker.snap.extlen)
      <4>1. \A i \in 0 .. worker.snap.extlen - 1 : buff'[i] = buff[i]
        <5> TAKE i \in 0 .. worker.snap.extlen - 1
        <5>1. i \in 0 .. BuffSize - 1 /\ i \notin ring.end .. ring.end + len - 1
          BY <1>1, <1>8, <3>2
        <5> QED BY <1>7, <5>1
      <4> DEFINE g == buff'
                 b == worker.snap.extlen
      <4>2. 0 \in Nat /\ b \in Nat /\ \A i \in 0 .. b - 1 : g[i] = buff[i]
        BY <1>8, <4>1
      <4> SUFFICES Seg(g, 0, b) = Seg(buff, 0, b)
        OBVIOUS
      <4> HIDE DEF g, b
      <4> QED BY ONLY <4>2, SegSame
    <3> QED BY <1>3, <3>3, <3>4 DEF ToHand
  <2> QED BY <2>1, <2>2
<1>12. Later' = Later \o Line(LineNo, len) /\ Line(LineNo, len) \in Seq(Nat)
  <2> DEFINE start == IF Writing THEN worker.snap.end ELSE ring.start
             ext == IF Writing /\ worker.snap.extend > 0 THEN 0 ELSE ring.ext_end
             new == IF Writing' /\ worker.snap.extend > 0 THEN 0 ELSE ring'.ext_end
  <2>1. Later = Has(buff, start, ext, ring.end) /\ Points(start, ext, ring.end)
    BY HoldsPoints DEF Later
  <2>2. Later' = Has(buff', start, new, ring'.end)
    <3>1. Writing' <=> Writing
      BY DEF Writing
    <3> QED BY <1>3, <3>1 DEF Later
  <2>3. ext > 0 => e <= start
    <3>1. CASE Writing /\ worker.snap.extend = 0
      BY <1>0, <1>1, <1>8, <3>1 DEF SnapHolds
    <3>2. CASE ~Writing
      BY <1>1, <1>8, <3>2
    <3> QED BY <1>8, <3>1, <3>2
  <2>4. \/ new = ext /\ ring'.end = e
        \/ ext = 0 /\ new = e /\ ring'.end = 0
    <3>0. Writing' <=> Writing
      BY DEF Writing
    <3>1. CASE e <= BuffSize - MaxLine
      BY <1>3, <3>0, <3>1
    <3>2. CASE e > BuffSize - MaxLine
      <4>1. ring.ext_end = 0 /\ ring'.ext_end = e /\ ring'.end = 0
        BY <1>1, <1>3, <1>8, <3>2
      <4>2. ~(Writing /\ worker.snap.extend > 0)
        BY <1>0, <4>1 DEF SnapHolds
      <4> QED BY <3>0, <4>1, <4>2
    <3> QED BY <1>1, <1>8, <3>1, <3>2
  <2> HIDE DEF start, ext, new
  <2>5. /\ Has(buff', start, ext, ring.end + len) = Has(buff, start, ext, ring.end) \o Line(LineNo, len)
        /\ ext = 0 => Has(buff', start, ring.end + len, 0) = Has(buff, start, ext, ring.end) \o Line(LineNo, len)
        /\ Line(LineNo, len) \in Seq(Nat)
    <3>1. /\ buff \in Buffers /\ buff' \in Buffers /\ len \in Nat /\ LineNo \in Nat
          /\ ring.end + len <= BuffSize /\ (ext > 0 => ring.end + len <= start) /\ 0 < ring.end + len
      BY SMTT(30), <1>1, <1>5, <1>6, <1>8, <2>3, Numbers
    <3>2. /\ \A i \in 0 .. BuffSize - 1 : i \notin ring.end .. ring.end + len - 1 => buff'[i] = buff[i]
          /\ \A i \in ring.end .. ring.end + len - 1 : buff'[i] = LineNo
      BY <1>7
    <3>3. Points(start, ext, ring.end)
      BY <2>1
    <3> DEFINE g == buff'
               n == LineNo
               end == ring.end
    <3>4. /\ buff \in Buffers /\ g \in Buffers /\ len \in Nat /\ n \in Nat
          /\ end + len <= BuffSize /\ (ext > 0 => end + len <= start) /\ 0 < end + len
          /\ Points(start, ext, end) /\ start \in Nat /\ ext \in Nat /\ end \in Nat
          /\ Puts(buff, g, end, len, n)
      <4>1. start \in Nat /\ ext \in Nat /\ end \in Nat
        BY <3>3 DEF Points
      <4>2. Puts(buff, buff', ring.end, len, LineNo)
        BY <3>2 DEF Puts
      <4> QED BY <3>1, <3>3, <4>1, <4>2
    <3> SUFFICES /\ Has(g, start, ext, end + len) = Has(buff, start, ext, end) \o Line(n, len)
                 /\ ext = 0 => Has(g, start, end + len, 0) = Has(buff, start, ext, end) \o Line(n, len)
                 /\ Line(n, len) \in Seq(Nat)
      OBVIOUS
    <3> HIDE DEF g, n, end
    <3> QED BY ONLY <3>4, LineAdds
  <2>6. Has(buff', start, ext, e) = Has(buff, start, ext, ring.end) \o Line(LineNo, len)
    BY <1>8, <2>5
  <2>7. ext = 0 => Has(buff', start, e, 0) = Has(buff, start, ext, ring.end) \o Line(LineNo, len)
    BY <1>8, <2>5
  <2> QED BY <2>1, <2>2, <2>4, <2>5, <2>6, <2>7
<1> QED BY <1>4, <1>6, <1>9, <1>10, <1>11, <1>12

(* One printer more or less.                                               *)
LEMMA Crowd ==
  ASSUME NEW B \in SUBSET Printers, NEW p
  PROVE  /\ Cardinality(B) \in Nat
         /\ Cardinality(B \cup {p}) \in Nat /\ Cardinality(B \ {p}) \in Nat
         /\ p \in B => Cardinality(B \ {p}) + 1 = Cardinality(B)
         /\ p \notin B => Cardinality(B \cup {p}) = Cardinality(B) + 1
<1>1. IsFiniteSet(B)
  BY TlogAssumption, FS_Subset
<1>2. Cardinality(B) \in Nat
  BY <1>1, FS_CardinalityType
<1>3. IsFiniteSet(B \cup {p}) /\ Cardinality(B \cup {p}) = IF p \in B THEN Cardinality(B) ELSE Cardinality(B) + 1
  BY <1>1, FS_AddElement
<1>4. IsFiniteSet(B \ {p}) /\ Cardinality(B \ {p}) = IF p \in B THEN Cardinality(B) - 1 ELSE Cardinality(B)
  BY <1>1, FS_RemoveElement
<1>5. Cardinality(B \cup {p}) \in Nat /\ Cardinality(B \ {p}) \in Nat
  BY <1>3, <1>4, FS_CardinalityType
<1> QED BY <1>2, <1>3, <1>4, <1>5

(* What a signal leaves, and the fields nobody touches.                    *)
LEMMA SignalIs ==
  ASSUME TypeOK
  PROVE  Signal(sync) \in [run : BOOLEAN, notify_log : BOOLEAN, signalled : BOOLEAN]
BY DEF TypeOK, Signal

Rings ==
  [start : 0 .. BuffSize - 1, end : 0 .. BuffSize - MaxLine,
   ext_end : 0 .. BuffSize - 1, dropped : Nat, block : BOOLEAN]

Pens == [Printers -> [at : {"idle", "blocked", "woken"}, len : {0} \cup LineLens]]

LEMMA TypesAre ==
  /\ Types => /\ ring \in Rings /\ buff \in [0 .. BuffSize - 1 -> 0 .. MaxLines + 1]
              /\ printer \in Pens /\ worker \in Worker /\ ghost \in Ghost /\ TypeOK
  /\ Types /\ ring' \in Rings /\ buff' \in [0 .. BuffSize - 1 -> 0 .. MaxLines + 1]
       /\ printer' \in Pens /\ worker' \in Worker /\ ghost' \in Ghost
       /\ sync' \in [run : BOOLEAN, notify_log : BOOLEAN, signalled : BOOLEAN]
       /\ main' \in {"up", "exit", "closed"}
     => Types'
<1>1. Types => /\ ring \in Rings /\ buff \in [0 .. BuffSize - 1 -> 0 .. MaxLines + 1]
               /\ printer \in Pens /\ worker \in Worker /\ ghost \in Ghost /\ TypeOK
  BY DEF Types, TypeOK, Rings, Pens
<1>2. ASSUME ring' \in Rings, buff' \in [0 .. BuffSize - 1 -> 0 .. MaxLines + 1],
             printer' \in Pens, worker' \in Worker, ghost' \in Ghost,
             sync' \in [run : BOOLEAN, notify_log : BOOLEAN, signalled : BOOLEAN],
             main' \in {"up", "exit", "closed"}
      PROVE  Types'
  <2>1. /\ worker'.at \in {"top", "pick", "wait", "write", "ext", "drop", "release", "gone"}
        /\ worker'.log \in BOOLEAN /\ worker'.loop_log \in BOOLEAN
    BY <1>2 DEF Worker
  <2>2. TypeOK'
    BY <1>2, <2>1 DEF TypeOK, Rings, Pens
  <2> QED BY <1>2, <2>2 DEF Types
<1> QED BY <1>1, <1>2

(* A printer puts its line into the ring, waits, or drops it.              *)
LEMMA AttemptKeeps ==
  ASSUME LogInv, NEW p \in Printers, NEW len \in LineLens, Attempt(p, len),
         UNCHANGED <<worker, main, fs>>,
         ghost.lines + Cardinality(Busy \ {p}) < MaxLines
  PROVE  LogInv'
<1>0. /\ Types /\ RingPoints /\ (Writing => SnapHolds) /\ BytesInv /\ LinesInv /\ DropsReported
      /\ ring \in Rings /\ buff \in [0 .. BuffSize - 1 -> 0 .. MaxLines + 1]
      /\ printer \in Pens /\ worker \in Worker /\ ghost \in Ghost /\ TypeOK
  BY TypesAre DEF LogInv
<1>1. /\ worker' = worker /\ main' = main /\ fs' = fs
  OBVIOUS
<1>2. /\ Busy \subseteq Printers /\ Cardinality(Busy \ {p}) \in Nat /\ Cardinality(Busy) \in Nat
      /\ Cardinality((Busy \ {p}) \cup {p}) = Cardinality(Busy \ {p}) + 1
  <2>1. Busy \subseteq Printers
    BY DEF Busy
  <2>2. Cardinality(Busy \ {p}) \in Nat /\ Cardinality(Busy) \in Nat
    BY <2>1, Crowd
  <2>3. Busy \ {p} \in SUBSET Printers /\ p \notin Busy \ {p}
    BY <2>1
  <2>4. Cardinality((Busy \ {p}) \cup {p}) = Cardinality(Busy \ {p}) + 1
    BY <2>3, Crowd
  <2> QED BY <2>1, <2>2, <2>4
<1>3. ghost.lines \in Nat /\ LineNo \in Nat /\ LineNo <= MaxLines /\ LineNo = ghost.lines + 1
  <2> DEFINE c == Cardinality(Busy \ {p})
             k == ghost.lines
  <2>1. c \in Nat /\ k \in Nat /\ MaxLines \in Nat /\ k + c < MaxLines
    BY <1>2, Numbers, Sizes
  <2>2. LineNo = k + 1
    BY DEF LineNo
  <2> HIDE DEF c, k
  <2>3. k + 1 \in Nat /\ k + 1 <= MaxLines
    BY <2>1
  <2> QED BY <2>1, <2>2, <2>3 DEF k
<1>4. main' \in {"up", "exit", "closed"}
  BY <1>0, <1>1 DEF TypeOK
<1>5. sync' \in [run : BOOLEAN, notify_log : BOOLEAN, signalled : BOOLEAN]
  <2>1. sync' = sync \/ sync' = Signal(sync)
    BY DEF Attempt
  <2> QED BY <1>0, <2>1, SignalIs DEF TypeOK
<1>6. CASE FreeLen >= MaxLine
  <2>1. /\ buff' = [i \in DOMAIN buff |->
                      IF i \in ring.end .. ring.end + len - 1 THEN LineNo ELSE buff[i]]
        /\ ring' = AfterPrint(len)
        /\ printer' = [printer EXCEPT ![p] = Idle]
        /\ ghost' = [ghost EXCEPT !.lines = LineNo,
                       !.accepted = @ \o [i \in 1 .. len |-> LineNo]]
    BY <1>6 DEF Attempt
  <2>2. /\ RingPoints' /\ (Writing' => SnapHolds') /\ ToHand' = ToHand
        /\ Later' = Later \o Line(LineNo, len) /\ Line(LineNo, len) \in Seq(Nat)
        /\ buff' \in [0 .. BuffSize - 1 -> 0 .. MaxLines + 1] /\ ring' \in Rings
    BY <1>1, <1>3, <1>6, <2>1, LinePut DEF Rings
  <2>3. /\ ghost'.lines = LineNo /\ ghost'.handed = ghost.handed
        /\ ghost'.accepted = ghost.accepted \o Line(LineNo, len)
        /\ ghost'.dropped = ghost.dropped /\ ghost'.reported = ghost.reported
        /\ ghost' \in Ghost
    <3> DEFINE l == [i \in 1 .. len |-> LineNo]
    <3>0. l = Line(LineNo, len) /\ ghost.accepted \in Seq(Nat)
      BY Numbers DEF Line
    <3> HIDE DEF l
    <3>1. ghost' = [ghost EXCEPT !.lines = LineNo, !.accepted = @ \o l]
      BY <2>1 DEF l
    <3>2. ghost.accepted \o l \in Seq(Nat)
      BY <2>2, <3>0, ConcatProperties
    <3> QED BY <1>0, <1>3, <3>0, <3>1, <3>2 DEF Ghost
  <2>4. BytesInv'
    <3>1. ToHand \in Seq(Nat) /\ Later \in Seq(Nat) /\ ghost.handed \in Seq(Nat)
      BY ToHandIs, Numbers
    <3>2. ghost.handed \o (ToHand \o (Later \o Line(LineNo, len)))
             = (ghost.handed \o (ToHand \o Later)) \o Line(LineNo, len)
      <4> DEFINE w == ghost.handed
                 x == ToHand
                 y == Later
                 z == Line(LineNo, len)
      <4>1. w \in Seq(Nat) /\ x \in Seq(Nat) /\ y \in Seq(Nat) /\ z \in Seq(Nat)
        BY <2>2, <3>1
      <4> SUFFICES w \o (x \o (y \o z)) = (w \o (x \o y)) \o z
        OBVIOUS
      <4> HIDE DEF w, x, y, z
      <4>2. \A a, b \in Seq(Nat) : w \o (x \o (a \o b)) = (w \o (x \o a)) \o b
        BY <4>1, Behind
      <4> QED BY <4>1, <4>2
    <3> QED BY <1>0, <2>2, <2>3, <3>2 DEF BytesInv
  <2>5. printer' \in Pens /\ Busy' = Busy \ {p} /\ \A q \in Busy' : printer'[q] = printer[q]
    <3>1. Idle \in [at : {"idle", "blocked", "woken"}, len : {0} \cup LineLens]
      BY DEF Idle
    <3>2. printer' \in Pens
      BY <1>0, <2>1, <3>1 DEF Pens
    <3>3. DOMAIN printer = Printers /\ Idle.at = "idle"
      BY <1>0 DEF Pens, Idle
    <3>4. \A q \in Printers : printer'[q] = IF q = p THEN Idle ELSE printer[q]
      BY <2>1, <3>3
    <3> QED BY <3>2, <3>3, <3>4 DEF Busy
  <2>6. ring'.block = ring.block /\ ring'.dropped = ring.dropped
    BY <1>0, <2>1 DEF AfterPrint, Rings
  <2>7. LinesInv'
    <3>1. ghost'.lines + Cardinality(Busy') <= MaxLines
      BY SMTT(30), <1>2, <1>3, <2>3, <2>5, Sizes
    <3>2. \A q \in Busy' : ring'.block /\ printer'[q].len \in LineLens
      BY <1>0, <2>5, <2>6 DEF LinesInv
    <3> QED BY <3>1, <3>2 DEF LinesInv
  <2>8. DropsReported'
    BY <1>0, <1>1, <2>3, <2>6 DEF DropsReported
  <2>9. Types'
    BY <1>0, <1>1, <1>4, <1>5, <2>2, <2>3, <2>5, TypesAre
  <2> QED BY <2>2, <2>4, <2>7, <2>8, <2>9 DEF LogInv
<1>7. CASE ~(FreeLen >= MaxLine) /\ ring.block
  <2>1. /\ buff' = buff /\ ring' = ring /\ ghost' = ghost
        /\ printer' = [printer EXCEPT ![p] = [at |-> "blocked", len |-> len]]
    BY <1>7 DEF Attempt
  <2>2. RingPoints' /\ (Writing' => SnapHolds') /\ ToHand' = ToHand /\ Later' = Later
    BY <1>1, <2>1, Still
  <2>3. BytesInv'
    BY <1>0, <2>1, <2>2 DEF BytesInv
  <2> DEFINE b == [at |-> "blocked", len |-> len]
  <2>4. b \in [at : {"idle", "blocked", "woken"}, len : {0} \cup LineLens] /\ b.at # "idle" /\ b.len = len
    OBVIOUS
  <2> HIDE DEF b
  <2>5. printer' \in Pens /\ \A q \in Printers : printer'[q] = IF q = p THEN b ELSE printer[q]
    BY <1>0, <2>1, <2>4 DEF Pens, b
  <2>6. Busy' = (Busy \ {p}) \cup {p}
    BY <2>4, <2>5 DEF Busy
  <2>7. LinesInv'
    <3>1. ghost'.lines + Cardinality(Busy') <= MaxLines
      BY <1>2, <1>3, <2>1, <2>6, Sizes
    <3>2. \A q \in Busy' : ring'.block /\ printer'[q].len \in LineLens
      BY <1>0, <1>2, <1>7, <2>1, <2>4, <2>5, <2>6 DEF LinesInv
    <3> QED BY <3>1, <3>2 DEF LinesInv
  <2>8. DropsReported'
    BY <1>0, <1>1, <2>1 DEF DropsReported
  <2>9. Types'
    BY <1>0, <1>1, <1>4, <1>5, <2>1, <2>5, TypesAre
  <2> QED BY <2>2, <2>3, <2>7, <2>8, <2>9 DEF LogInv
<1>8. CASE ~(FreeLen >= MaxLine) /\ ~ring.block
  <2>1. /\ buff' = buff /\ printer' = printer
        /\ ring' = [ring EXCEPT !.dropped = @ + 1]
        /\ ghost' = [ghost EXCEPT !.lines = LineNo, !.dropped = @ + 1]
    BY <1>8 DEF Attempt
  <2>2. /\ ring'.start = ring.start /\ ring'.end = ring.end /\ ring'.ext_end = ring.ext_end
        /\ ring'.block = ring.block /\ ring'.dropped = ring.dropped + 1 /\ ring' \in Rings
    BY <1>0, <2>1 DEF Rings
  <2>3. /\ ghost'.lines = LineNo /\ ghost'.handed = ghost.handed /\ ghost'.accepted = ghost.accepted
        /\ ghost'.dropped = ghost.dropped + 1 /\ ghost'.reported = ghost.reported
        /\ ghost' \in Ghost
    <3>1. ghost.dropped + 1 \in Nat
      <4>1. ghost.dropped \in Nat
        BY <1>0 DEF Ghost
      <4> QED BY <4>1
    <3>2. ghost' = [ghost EXCEPT !.lines = LineNo, !.dropped = ghost.dropped + 1]
      BY <2>1
    <3> QED BY <1>0, <1>3, <3>1, <3>2 DEF Ghost
  <2>4. RingPoints' /\ (Writing' => SnapHolds') /\ ToHand' = ToHand /\ Later' = Later
    BY <1>1, <2>1, <2>2, Still
  <2>5. BytesInv'
    BY <1>0, <2>3, <2>4 DEF BytesInv
  <2>6. Busy' = {} /\ Busy \ {p} = {}
    <3>1. Busy = {}
      BY <1>0, <1>8 DEF LinesInv
    <3> QED BY <3>1, <2>1 DEF Busy
  <2>7. LinesInv'
    BY <1>2, <1>3, <2>3, <2>6, FS_EmptySet, Sizes DEF LinesInv
  <2>8. DropsReported'
    <3>1. /\ ghost.reported \in Nat /\ ghost.dropped \in Nat /\ ring.dropped \in Nat
          /\ worker.snap.dropped \in Nat
      BY <1>0 DEF Ghost, Rings, Worker, Snap
    <3> DEFINE x == IF worker.at \in {"write", "ext", "drop"} THEN worker.snap.dropped ELSE 0
    <3>2. x \in Nat /\ ghost.reported + ring.dropped + x = ghost.dropped
      BY <1>0, <3>1 DEF DropsReported
    <3>3. (IF worker'.at \in {"write", "ext", "drop"} THEN worker'.snap.dropped ELSE 0) = x
      BY <1>1
    <3> HIDE DEF x
    <3>4. ghost.reported + (ring.dropped + 1) + x = ghost.dropped + 1
      BY <3>1, <3>2
    <3> QED BY <2>2, <2>3, <3>3, <3>4 DEF DropsReported
  <2>9. Types'
    BY <1>0, <1>1, <1>4, <1>5, <2>1, <2>2, <2>3, TypesAre
  <2> QED BY <2>4, <2>5, <2>7, <2>8, <2>9 DEF LogInv
<1> QED BY <1>6, <1>7, <1>8

(* A printer that begins has not been counted yet.                         *)
LEMMA VprintfKeeps ==
  ASSUME LogInv, NEW p \in Printers, Vprintf(p)
  PROVE  LogInv'
<1>1. PICK len \in LineLens : Attempt(p, len)
  BY DEF Vprintf
<1>2. {q \in Printers : printer[q].at /= "idle"} = Busy /\ Busy \ {p} = Busy
  BY DEF Busy, Vprintf
<1>3. ghost.lines + Cardinality(Busy) < MaxLines /\ UNCHANGED <<worker, main, fs>>
  BY <1>2 DEF Vprintf
<1> QED BY <1>1, <1>2, <1>3, AttemptKeeps

(* One that was woken has.                                                 *)
LEMMA VprintfAgainKeeps ==
  ASSUME LogInv, NEW p \in Printers, VprintfAgain(p)
  PROVE  LogInv'
<1>1. p \in Busy /\ Busy \in SUBSET Printers
  BY DEF Busy, VprintfAgain
<1>2. LinesInv
  BY DEF LogInv
<1>3. printer[p].len \in LineLens
  BY <1>1, <1>2 DEF LinesInv
<1>4. ghost.lines + Cardinality(Busy \ {p}) < MaxLines
  <2> DEFINE c == Cardinality(Busy)
             d == Cardinality(Busy \ {p})
  <2>1. c \in Nat /\ d \in Nat /\ d + 1 = c
    BY <1>1, Crowd
  <2>2. ghost.lines + c <= MaxLines /\ ghost.lines \in Nat /\ MaxLines \in Nat
    BY <1>2, Numbers, Sizes DEF LinesInv
  <2> HIDE DEF c, d
  <2>3. ghost.lines + d < MaxLines
    BY <2>1, <2>2
  <2> QED BY <2>3 DEF d
<1>5. Attempt(p, printer[p].len) /\ UNCHANGED <<worker, main, fs>>
  BY DEF VprintfAgain
<1> QED BY <1>3, <1>4, <1>5, AttemptKeeps

-----------------------------------------------------------------------------
(* The work thread *)

(* What the steps change that move no byte.                                *)
LEMMA QuietKeeps ==
  ASSUME LogInv, UNCHANGED <<ring, buff, printer>>,
         worker' = worker \/ (worker' \in Worker /\ ~Writing /\ ~Writing'),
         ghost' \in Ghost, ghost'.lines = ghost.lines, ghost'.accepted = ghost.accepted,
         ghost'.handed = ghost.handed, ghost'.dropped = ghost.dropped,
         ghost'.reported = ghost.reported,
         sync' \in [run : BOOLEAN, notify_log : BOOLEAN, signalled : BOOLEAN],
         main' \in {"up", "exit", "closed"}
  PROVE  LogInv'
<1>1. /\ Types /\ RingPoints /\ (Writing => SnapHolds) /\ BytesInv /\ LinesInv /\ DropsReported
      /\ ring \in Rings /\ buff \in [0 .. BuffSize - 1 -> 0 .. MaxLines + 1]
      /\ printer \in Pens /\ worker \in Worker
  BY TypesAre DEF LogInv
<1>2. Types'
  BY <1>1, TypesAre
<1>3. RingPoints' /\ LinesInv'
  BY <1>1 DEF RingPoints, LinesInv, Busy
<1>4. CASE worker' = worker
  <2>1. (Writing' => SnapHolds') /\ ToHand' = ToHand /\ Later' = Later
    BY <1>4, Still
  <2>2. BytesInv' /\ DropsReported'
    BY <1>1, <1>4, <2>1 DEF BytesInv, DropsReported
  <2> QED BY <1>2, <1>3, <2>1, <2>2 DEF LogInv
<1>5. CASE ~Writing /\ ~Writing'
  <2>1. ToHand' = << >> /\ ToHand = << >>
    BY <1>5 DEF Writing, ToHand
  <2>2. Later' = Later
    BY <1>5 DEF Later
  <2>3. BytesInv'
    BY <1>1, <2>1, <2>2 DEF BytesInv
  <2>4. DropsReported'
    BY <1>1, <1>5 DEF DropsReported, Writing
  <2> QED BY <1>2, <1>3, <1>5, <2>3, <2>4 DEF LogInv
<1> QED BY <1>4, <1>5

(* The note is of all that the ring holds.                                 *)
LEMMA TakeKeeps ==
  ASSUME LogInv, ~Writing, ~Empty, Take, UNCHANGED <<buff, printer, ghost>>,
         sync' \in [run : BOOLEAN, notify_log : BOOLEAN, signalled : BOOLEAN],
         main' \in {"up", "exit", "closed"}
  PROVE  LogInv'
<1>1. /\ Types /\ RingPoints /\ BytesInv /\ LinesInv /\ DropsReported
      /\ ring \in Rings /\ buff \in [0 .. BuffSize - 1 -> 0 .. MaxLines + 1]
      /\ printer \in Pens /\ worker \in Worker /\ ghost \in Ghost
  BY TypesAre DEF LogInv
<1>2. /\ worker' = [at |-> "write", log |-> TRUE, loop_log |-> FALSE, snap |-> Snapshot]
      /\ ring' = [ring EXCEPT !.dropped = 0]
  BY DEF Take
<1> DEFINE w == Snapshot
<1>3. /\ ring'.start = ring.start /\ ring'.end = ring.end /\ ring'.ext_end = ring.ext_end
      /\ ring'.dropped = 0 /\ ring'.block = ring.block /\ ring' \in Rings
  BY <1>1, <1>2 DEF Rings
<1>4. /\ ring.start \in Nat /\ ring.end \in Nat /\ ring.ext_end \in Nat /\ ring.dropped \in Nat
      /\ ring.start < BuffSize /\ ring.end <= BuffSize - MaxLine /\ ring.ext_end < BuffSize
  BY <1>1, Numbers DEF Rings
<1>5. /\ w.end = ring.end /\ w.extend = ring.ext_end /\ w.dropped = ring.dropped
      /\ ring.ext_end > 0 => /\ ring.end <= ring.start /\ w.len = ring.ext_end - ring.start
                             /\ w.extlen = ring.end
      /\ ring.ext_end = 0 => /\ ring.start < ring.end /\ w.len = ring.end - ring.start
                             /\ w.extlen = 0
  <2>1. w.end = ring.end /\ w.extend = ring.ext_end /\ w.dropped = ring.dropped
    BY DEF Snapshot
  <2>2. /\ w.len = IF ring.end > ring.start THEN ring.end - ring.start
                   ELSE IF ring.ext_end > 0 THEN ring.ext_end - ring.start ELSE 0
        /\ w.extlen = IF ring.end < ring.start THEN ring.end ELSE 0
    BY DEF Snapshot
  <2> HIDE DEF w
  <2>3. CASE ring.ext_end > 0
    BY <1>1, <1>4, <2>1, <2>2, <2>3 DEF RingPoints
  <2>4. CASE ring.ext_end = 0
    BY <1>1, <1>4, <2>1, <2>2, <2>4 DEF RingPoints, Empty
  <2> QED BY <1>4, <2>1, <2>3, <2>4
<1>6. w = [len |-> w.len, extlen |-> w.extlen, end |-> w.end, extend |-> w.extend, dropped |-> w.dropped]
  BY DEF Snapshot
<1>7. worker'.snap = w /\ worker'.at = "write" /\ Writing'
  BY <1>2 DEF Writing
<1> HIDE DEF w
<1>8. w \in Snap
  <2>1. w.len \in Nat /\ w.extlen \in Nat /\ w.end \in Nat /\ w.extend \in Nat /\ w.dropped \in Nat
    BY <1>1, <1>4, <1>5 DEF RingPoints
  <2> QED BY <1>6, <2>1 DEF Snap
<1>9. worker' \in Worker
  BY <1>2, <1>7, <1>8 DEF Worker
<1>10. Types'
  BY <1>1, <1>3, <1>9, TypesAre
<1>11. RingPoints' /\ LinesInv'
  BY <1>1, <1>3 DEF RingPoints, LinesInv, Busy
<1>12. SnapHolds'
  BY <1>1, <1>3, <1>4, <1>5, <1>7 DEF SnapHolds, RingPoints
<1>13. DropsReported'
  <2>1. ghost.reported + ring.dropped + 0 = ghost.dropped
    BY <1>1 DEF DropsReported, Writing
  <2>2. ghost.reported \in Nat /\ ghost.dropped \in Nat
    BY <1>1 DEF Ghost
  <2>3. ghost.reported + 0 + ring.dropped = ghost.dropped
    BY <1>4, <2>1, <2>2
  <2> QED BY <1>3, <1>5, <1>7, <2>3 DEF DropsReported
<1>14. ToHand = << >> /\ Later = Has(buff, ring.start, ring.ext_end, ring.end)
  BY DEF Writing, ToHand, Later
<1>15. Later' = << >>
  <2>1. Later' = Has(buff, w.end, IF w.extend > 0 THEN 0 ELSE ring.ext_end, ring.end)
    BY <1>3, <1>7 DEF Later
  <2>2. Later' = Seg(buff, ring.end, ring.end)
    BY <1>4, <1>5, <2>1 DEF Has
  <2> QED BY <1>4, <2>2, SegEmpty
<1>16. ToHand' = Later
  <2>1. ToHand' = Seg(buff, ring.start, ring.start + w.len) \o Seg(buff, 0, w.extlen)
    BY <1>3, <1>7 DEF ToHand
  <2>2. CASE ring.ext_end > 0
    <3>1. ring.start + w.len = ring.ext_end /\ w.extlen = ring.end
      BY <1>4, <1>5, <2>2
    <3> QED BY <1>14, <2>1, <2>2, <3>1 DEF Has
  <2>3. CASE ring.ext_end = 0
    <3>1. ring.start + w.len = ring.end /\ w.extlen = 0
      BY <1>4, <1>5, <2>3
    <3>2. Later = Seg(buff, ring.start, ring.end)
      BY <1>14, <2>3 DEF Has
    <3>3. Seg(buff, 0, 0) = << >>
      BY SegEmpty
    <3>4. Later \o << >> = Later
      BY ToHandIs, ConcatEmptySeq
    <3> QED BY <2>1, <3>1, <3>2, <3>3, <3>4
  <2> QED BY <1>4, <2>2, <2>3
<1>17. BytesInv'
  <2>1. << >> \o Later = Later /\ Later \o << >> = Later
    BY ToHandIs, ConcatEmptySeq
  <2> QED BY <1>1, <1>14, <1>15, <1>16, <2>1 DEF BytesInv
<1> QED BY <1>10, <1>11, <1>12, <1>13, <1>17 DEF LogInv

LEMMA KeptTypes ==
  LogInv => /\ worker \in Worker /\ ghost \in Ghost
            /\ sync \in [run : BOOLEAN, notify_log : BOOLEAN, signalled : BOOLEAN]
            /\ main \in {"up", "exit", "closed"}
BY DEF LogInv, Types, TypeOK

(* Not before, not after: it waits or looks for a log.                     *)
LEMMA WorkTopKeeps == LogInv /\ WorkTop => LogInv'
<1> SUFFICES ASSUME LogInv, WorkTop PROVE LogInv'
  OBVIOUS
<1>1. worker' = At("gone") \/ worker' = At("pick")
  BY DEF WorkTop
<1>2. worker' \in Worker /\ worker'.at \in {"gone", "pick"} /\ worker.at = "top"
  BY <1>1, KeptTypes DEF WorkTop, At, Worker
<1>3. ~Writing /\ ~Writing'
  BY <1>2 DEF Writing
<1>4. UNCHANGED <<ring, buff, printer, sync, main, ghost>>
  BY DEF WorkTop
<1>5. ghost' \in Ghost /\ sync' = sync /\ main' = main
  BY <1>4, KeptTypes
<1> QED BY <1>2, <1>3, <1>4, <1>5, KeptTypes, QuietKeeps

LEMMA WorkPickKeeps == LogInv /\ WorkPick => LogInv'
<1> SUFFICES ASSUME LogInv, WorkPick PROVE LogInv'
  OBVIOUS
<1> DEFINE loop == worker.loop_log \/ worker.log
<1>1. worker.at = "pick" /\ UNCHANGED <<buff, printer, sync, main, fs, ghost>>
  BY DEF WorkPick
<1>2. ~Writing
  BY <1>1 DEF Writing
<1>3. CASE ~Empty /\ Take
  BY <1>1, <1>2, <1>3, KeptTypes, TakeKeeps
<1>4. ASSUME ring' = ring,
             \/ worker' = [worker EXCEPT !.at = "top", !.log = FALSE, !.loop_log = loop]
             \/ worker' = [worker EXCEPT !.at = IF loop /\ sync.run THEN "wait" ELSE "top",
                              !.log = TRUE, !.loop_log = loop]
      PROVE  LogInv'
  <2>1. loop \in BOOLEAN
    BY KeptTypes DEF Worker
  <2> HIDE DEF loop
  <2>2. worker' \in Worker /\ worker'.at \in {"top", "wait"}
    <3> DEFINE a == IF loop /\ sync.run THEN "wait" ELSE "top"
    <3>1. a \in {"top", "wait"}
      OBVIOUS
    <3>2. \/ worker' = [worker EXCEPT !.at = "top", !.log = FALSE, !.loop_log = loop]
          \/ worker' = [worker EXCEPT !.at = a, !.log = TRUE, !.loop_log = loop]
      BY <1>4
    <3> HIDE DEF a
    <3> QED BY <2>1, <3>1, <3>2, KeptTypes DEF Worker
  <2>3. ~Writing'
    BY <2>2 DEF Writing
  <2> QED BY <1>1, <1>2, <1>4, <2>2, <2>3, KeptTypes, QuietKeeps
<1>5. \/ ~Empty /\ Take
      \/ /\ ring' = ring
         /\ \/ worker' = [worker EXCEPT !.at = "top", !.log = FALSE, !.loop_log = loop]
            \/ worker' = [worker EXCEPT !.at = IF loop /\ sync.run THEN "wait" ELSE "top",
                             !.log = TRUE, !.loop_log = loop]
  BY Zenon DEF WorkPick
<1> QED BY <1>3, <1>4, <1>5

(* Back from waiting, signalled or not.                                    *)
LEMMA ResumeKeeps ==
  ASSUME LogInv, worker.at = "wait", NEW log \in BOOLEAN, Resume(log),
         UNCHANGED <<buff, printer, main, fs, ghost>>,
         sync' \in [run : BOOLEAN, notify_log : BOOLEAN, signalled : BOOLEAN]
  PROVE  LogInv'
<1>1. ~Writing
  BY DEF Writing
<1>2. CASE log /\ ~Empty
  BY <1>1, <1>2, KeptTypes, TakeKeeps DEF Resume
<1>3. CASE ~(log /\ ~Empty)
  <2>1. worker' = [worker EXCEPT !.at = "top", !.log = log] /\ ring' = ring
    BY <1>3 DEF Resume
  <2>2. worker' \in Worker /\ worker'.at = "top"
    BY <2>1, KeptTypes DEF Worker
  <2>3. ~Writing'
    BY <2>2 DEF Writing
  <2> QED BY <1>1, <2>1, <2>2, <2>3, KeptTypes, QuietKeeps
<1> QED BY <1>2, <1>3

LEMMA WaitEndsKeeps == LogInv /\ (WorkSignalled \/ WorkTimeout) => LogInv'
<1>1. ASSUME LogInv, WorkSignalled PROVE LogInv'
  <2>1. worker.log \in BOOLEAN
    BY <1>1, KeptTypes DEF Worker
  <2>2. sync' \in [run : BOOLEAN, notify_log : BOOLEAN, signalled : BOOLEAN]
    BY <1>1, KeptTypes DEF WorkSignalled
  <2> QED BY <1>1, <2>1, <2>2, ResumeKeeps DEF WorkSignalled
<1>2. ASSUME LogInv, WorkTimeout PROVE LogInv'
  <2>1. sync.notify_log \in BOOLEAN
    BY <1>2, KeptTypes
  <2>2. sync' \in [run : BOOLEAN, notify_log : BOOLEAN, signalled : BOOLEAN]
    BY <1>2, KeptTypes DEF WorkTimeout
  <2> QED BY <1>2, <2>1, <2>2, ResumeKeeps DEF WorkTimeout
<1> QED BY <1>1, <1>2

(* What handing bytes over does, whichever file operations fail.           *)
LEMMA HandIs ==
  ASSUME LogInv, NEW bytes \in Seq(Nat), NEW reported \in Nat, HandToFile(bytes, reported)
  PROVE  /\ ghost' \in Ghost
         /\ ghost'.handed = IF reported = 0 THEN ghost.handed \o bytes ELSE ghost.handed
         /\ ghost'.reported = ghost.reported + reported
         /\ ghost'.lines = ghost.lines /\ ghost'.accepted = ghost.accepted
         /\ ghost'.dropped = ghost.dropped
         /\ ghost'.disk = IF Len(fs'.lost) = Len(fs.lost) THEN ghost.disk \o bytes ELSE ghost.disk
<1> DEFINE h == IF reported = 0 THEN ghost.handed \o bytes ELSE ghost.handed
           r == ghost.reported + reported
           d == IF Len(fs'.lost) = Len(fs.lost) THEN ghost.disk \o bytes ELSE ghost.disk
<1>1. PICK f \in {ghost.faults + 1, ghost.faults} :
        ghost' = [ghost EXCEPT !.handed = h, !.disk = d, !.faults = f, !.reported = r]
  <2>1. PICK ok \in [forks : BOOLEAN, opens : BOOLEAN] :
          LET faulty == WriteLog(fs, bytes, ok) /= WriteLog(fs, bytes, AllWell)
          IN  ghost' = [ghost EXCEPT
                  !.handed = IF reported = 0 THEN @ \o bytes ELSE @,
                  !.disk = IF Len(fs'.lost) = Len(fs.lost) THEN @ \o bytes ELSE @,
                  !.faults = IF faulty THEN @ + 1 ELSE @,
                  !.reported = @ + reported]
    BY DEF HandToFile
  <2> DEFINE f == IF WriteLog(fs, bytes, ok) /= WriteLog(fs, bytes, AllWell)
                  THEN ghost.faults + 1 ELSE ghost.faults
  <2>2. ghost' = [ghost EXCEPT !.handed = h, !.disk = d, !.faults = f, !.reported = r]
    BY <2>1, Zenon
  <2>3. f \in {ghost.faults + 1, ghost.faults}
    BY Zenon
  <2> HIDE DEF d, f, h, r
  <2> QED BY <2>2, <2>3
<1>2. /\ ghost \in Ghost /\ ghost.handed \in Seq(Nat) /\ ghost.disk \in Seq(Nat)
      /\ ghost.faults \in Nat /\ ghost.reported \in Nat
  BY KeptTypes DEF Ghost
<1>3. h \in Seq(Nat)
  <2>1. ghost.handed \o bytes \in Seq(Nat)
    BY <1>2, ConcatProperties
  <2> QED BY <1>2, <2>1
<1>4. ghost.disk \o bytes \in Seq(Nat)
  BY <1>2, ConcatProperties
<1>5. d \in Seq(Nat)
  BY <1>2, <1>4
<1>6. f \in Nat /\ r \in Nat
  <2>1. ghost.faults + 1 \in Nat /\ r \in Nat
    BY <1>2
  <2> QED BY <1>1, <1>2, <2>1
<1> SUFFICES /\ ghost' \in Ghost /\ ghost'.handed = h /\ ghost'.reported = r
             /\ ghost'.lines = ghost.lines /\ ghost'.accepted = ghost.accepted
             /\ ghost'.dropped = ghost.dropped /\ ghost'.disk = d
  OBVIOUS
<1> HIDE DEF h, r, d
<1> QED BY <1>1, <1>2, <1>3, <1>5, <1>6 DEF Ghost

(* What the steps between the note and the release have in common.         *)
LEMMA HandingKeeps ==
  ASSUME LogInv, Writing, UNCHANGED <<ring, buff, printer, sync, main>>,
         NEW at \in {"ext", "drop", "release"}, worker' = At(at),
         at = "drop" => worker.snap.dropped > 0,
         ghost' \in Ghost, ghost'.lines = ghost.lines, ghost'.accepted = ghost.accepted,
         ghost'.dropped = ghost.dropped,
         ghost'.handed \o ToHand' = ghost.handed \o ToHand, ToHand' \in Seq(Nat),
         DropsReported'
  PROVE  LogInv'
<1>1. /\ Types /\ RingPoints /\ SnapHolds /\ BytesInv /\ LinesInv
      /\ ring \in Rings /\ buff \in [0 .. BuffSize - 1 -> 0 .. MaxLines + 1]
      /\ printer \in Pens /\ worker \in Worker
  BY TypesAre DEF LogInv
<1>2. worker' \in Worker /\ worker'.at = at /\ worker'.snap = worker.snap /\ Writing'
  BY <1>1 DEF At, Worker, Writing
<1>3. Types'
  BY <1>1, <1>2, KeptTypes, TypesAre
<1>4. RingPoints' /\ LinesInv'
  BY <1>1 DEF RingPoints, LinesInv, Busy
<1>5. SnapHolds'
  BY <1>1, <1>2 DEF SnapHolds
<1>6. Later' = Later
  BY <1>2 DEF Later
<1>7. BytesInv'
  <2>1. /\ ToHand \in Seq(Nat) /\ Later \in Seq(Nat) /\ ghost.handed \in Seq(Nat)
        /\ ghost'.handed \in Seq(Nat)
    BY ToHandIs, Numbers DEF Ghost
  <2> DEFINE a == ghost.handed
             b == ToHand
             c == Later
             d == ghost'.handed
             e == ToHand'
  <2>2. a \in Seq(Nat) /\ b \in Seq(Nat) /\ c \in Seq(Nat) /\ d \in Seq(Nat) /\ e \in Seq(Nat)
    BY <2>1
  <2>3. d \o e = a \o b
    OBVIOUS
  <2> SUFFICES d \o (e \o c) = a \o (b \o c)
    BY <1>1, <1>6 DEF BytesInv
  <2> HIDE DEF a, b, c, d, e
  <2>4. (d \o e) \o c = d \o (e \o c)
    BY <2>2, Regrouped, ZenonT(30)
  <2>5. (a \o b) \o c = a \o (b \o c)
    BY <2>2, Regrouped, ZenonT(30)
  <2> QED BY <2>3, <2>4, <2>5
<1> QED BY <1>3, <1>4, <1>5, <1>7 DEF LogInv

(* What the ring holds up to its end, or to where it wraps.                *)
LEMMA WorkWriteKeeps == LogInv /\ WorkWrite => LogInv'
<1> SUFFICES ASSUME LogInv, WorkWrite PROVE LogInv'
  OBVIOUS
<1> DEFINE x == Seg(buff, ring.start, ring.start + worker.snap.len)
           y == Seg(buff, 0, worker.snap.extlen)
           at == IF worker.snap.extlen > 0 THEN "ext"
                 ELSE IF worker.snap.dropped > 0 THEN "drop" ELSE "release"
<1>1. worker.at = "write" /\ worker' = At(at) /\ UNCHANGED <<ring, buff, printer, sync, main>>
  BY DEF WorkWrite
<1>2. Writing /\ DropsReported /\ worker \in Worker /\ ghost \in Ghost
  BY <1>1, KeptTypes DEF Writing, LogInv
<1>3. x \in Seq(Nat) /\ y \in Seq(Nat)
  BY <1>2, ToHandIs
<1>4. HandToFile(x, 0)
  BY DEF WorkWrite, Bytes, Seg
<1>5. worker'.at = at /\ worker'.snap = worker.snap
  BY <1>1, <1>2 DEF At, Worker
<1>6. worker.snap.extlen \in Nat /\ worker.snap.dropped \in Nat
  BY <1>2 DEF Worker, Snap
<1>7. ToHand = x \o y
  BY <1>1 DEF ToHand
<1>8. ToHand' = y
  <2>1. CASE worker.snap.extlen > 0
    BY <1>1, <1>5, <2>1 DEF ToHand
  <2>2. CASE worker.snap.extlen = 0
    <3>1. y = << >>
      BY <2>2, SegEmpty
    <3> QED BY <1>5, <2>2, <3>1 DEF ToHand
  <2> QED BY <1>6, <2>1, <2>2
<1>9. at \in {"ext", "drop", "release"} /\ (at = "drop" => worker.snap.dropped > 0)
      /\ (at = "release" => worker.snap.dropped = 0)
  BY <1>6
<1> HIDE DEF x, y, at
<1>10. /\ ghost' \in Ghost /\ ghost'.handed = ghost.handed \o x
       /\ ghost'.reported = ghost.reported + 0
       /\ ghost'.lines = ghost.lines /\ ghost'.accepted = ghost.accepted
       /\ ghost'.dropped = ghost.dropped
  BY <1>3, <1>4, HandIs
<1>11. ghost'.handed \o ToHand' = ghost.handed \o ToHand
  <2>1. (ghost.handed \o x) \o y = ghost.handed \o (x \o y)
    BY <1>3, Numbers, Regrouped
  <2> QED BY <1>7, <1>8, <1>10, <2>1
<1>12. DropsReported'
  <2>1. ghost.reported \in Nat /\ ghost'.reported = ghost.reported
    BY <1>2, <1>10 DEF Ghost
  <2>2. ghost.reported + ring.dropped + worker.snap.dropped = ghost.dropped
    BY <1>1, <1>2 DEF DropsReported
  <2> QED BY <1>1, <1>5, <1>9, <1>10, <2>1, <2>2 DEF DropsReported
<1>13. ToHand' \in Seq(Nat)
  BY <1>3, <1>8
<1> QED BY <1>1, <1>2, <1>9, <1>10, <1>11, <1>12, <1>13, HandingKeeps

(* What it holds from the beginning of the buffer.                         *)
LEMMA WorkWriteExtKeeps == LogInv /\ WorkWriteExt => LogInv'
<1> SUFFICES ASSUME LogInv, WorkWriteExt PROVE LogInv'
  OBVIOUS
<1> DEFINE y == Seg(buff, 0, worker.snap.extlen)
           at == IF worker.snap.dropped > 0 THEN "drop" ELSE "release"
<1>1. worker.at = "ext" /\ worker' = At(at) /\ UNCHANGED <<ring, buff, printer, sync, main>>
  BY DEF WorkWriteExt
<1>2. Writing /\ DropsReported /\ worker \in Worker /\ ghost \in Ghost
  BY <1>1, KeptTypes DEF Writing, LogInv
<1>3. y \in Seq(Nat)
  BY <1>2, ToHandIs
<1>4. HandToFile(y, 0)
  BY DEF WorkWriteExt, Bytes, Seg
<1>5. worker'.at = at /\ worker'.snap = worker.snap
  BY <1>1, <1>2 DEF At, Worker
<1>6. worker.snap.dropped \in Nat
  BY <1>2 DEF Worker, Snap
<1>7. ToHand = y
  BY <1>1 DEF ToHand
<1>8. ToHand' = << >>
  BY <1>5 DEF ToHand
<1>9. at \in {"ext", "drop", "release"} /\ (at = "drop" => worker.snap.dropped > 0)
      /\ at # "ext" /\ (at = "release" => worker.snap.dropped = 0)
  BY <1>6
<1> HIDE DEF y, at
<1>10. /\ ghost' \in Ghost /\ ghost'.handed = ghost.handed \o y
       /\ ghost'.reported = ghost.reported + 0
       /\ ghost'.lines = ghost.lines /\ ghost'.accepted = ghost.accepted
       /\ ghost'.dropped = ghost.dropped
  BY <1>3, <1>4, HandIs
<1>11. ghost'.handed \o ToHand' = ghost.handed \o ToHand
  <2>1. ghost'.handed \in Seq(Nat)
    BY <1>10 DEF Ghost
  <2>2. ghost'.handed \o << >> = ghost'.handed
    BY <2>1, ConcatEmptySeq
  <2> QED BY <1>7, <1>8, <1>10, <2>2
<1>12. DropsReported'
  <2>1. ghost.reported \in Nat /\ ghost'.reported = ghost.reported
    BY <1>2, <1>10 DEF Ghost
  <2>2. ghost.reported + ring.dropped + worker.snap.dropped = ghost.dropped
    BY <1>1, <1>2 DEF DropsReported
  <2> QED BY <1>1, <1>5, <1>9, <1>10, <2>1, <2>2 DEF DropsReported
<1>13. ToHand' \in Seq(Nat)
  BY <1>8
<1> QED BY <1>1, <1>2, <1>9, <1>10, <1>11, <1>12, <1>13, HandingKeeps

(* The message about dropped lines.                                        *)
LEMMA WorkReportDroppedKeeps == LogInv /\ WorkReportDropped => LogInv'
<1> SUFFICES ASSUME LogInv, WorkReportDropped PROVE LogInv'
  OBVIOUS
<1>1. /\ worker.at = "drop" /\ worker' = At("release")
      /\ HandToFile(<<DropByte>>, worker.snap.dropped)
      /\ UNCHANGED <<ring, buff, printer, sync, main>>
  BY DEF WorkReportDropped
<1>2. /\ Writing /\ DropsReported /\ worker \in Worker /\ ghost \in Ghost /\ ring \in Rings
      /\ SnapHolds
  BY <1>1, KeptTypes, TypesAre DEF Writing, LogInv
<1>3. worker.snap.dropped \in Nat /\ worker.snap.dropped > 0
  BY <1>1, <1>2 DEF Worker, Snap, SnapHolds
<1>4. <<DropByte>> \in Seq(Nat)
  BY DEF DropByte
<1>5. /\ ghost' \in Ghost /\ ghost'.handed = ghost.handed
      /\ ghost'.reported = ghost.reported + worker.snap.dropped
      /\ ghost'.lines = ghost.lines /\ ghost'.accepted = ghost.accepted
      /\ ghost'.dropped = ghost.dropped
  <2>1. worker.snap.dropped # 0
    BY <1>3
  <2> QED BY <1>1, <1>3, <1>4, <2>1, HandIs
<1>6. worker'.at = "release"
  BY <1>1, <1>2 DEF At, Worker
<1>7. ToHand' = << >> /\ ToHand = << >>
  BY <1>1, <1>6 DEF ToHand
<1>8. DropsReported'
  <2>1. ghost.reported \in Nat /\ ring.dropped \in Nat
    BY <1>2 DEF Ghost, Rings
  <2>2. ghost.reported + ring.dropped + worker.snap.dropped = ghost.dropped
    BY <1>1, <1>2 DEF DropsReported
  <2>3. ghost.reported + worker.snap.dropped + ring.dropped + 0 = ghost.dropped
    BY <1>3, <2>1, <2>2
  <2> QED BY <1>1, <1>5, <1>6, <2>3 DEF DropsReported
<1>9. ghost'.handed \o ToHand' = ghost.handed \o ToHand /\ ToHand' \in Seq(Nat)
  BY <1>5, <1>7
<1> QED BY <1>1, <1>2, <1>5, <1>8, <1>9, HandingKeeps

(* What is released has been handed over, all of it and no more.           *)
LEMMA WorkReleaseKeeps == LogInv /\ WorkRelease => LogInv'
<1> SUFFICES ASSUME LogInv, WorkRelease PROVE LogInv'
  OBVIOUS
<1>1. /\ worker.at = "release" /\ ring' = Released
      /\ printer' = [p \in Printers |->
            IF printer[p].at = "blocked" THEN [printer[p] EXCEPT !.at = "woken"] ELSE printer[p]]
      /\ worker' = [worker EXCEPT !.at = "top", !.snap = NoSnap]
      /\ UNCHANGED <<buff, sync, main, fs, ghost>>
  BY DEF WorkRelease
<1>2. /\ Types /\ RingPoints /\ SnapHolds /\ BytesInv /\ LinesInv /\ DropsReported
      /\ ring \in Rings /\ buff \in [0 .. BuffSize - 1 -> 0 .. MaxLines + 1]
      /\ printer \in Pens /\ worker \in Worker /\ ghost \in Ghost
  BY <1>1, TypesAre DEF LogInv, Writing
<1> DEFINE w == worker.snap
           x == IF w.extend > 0 THEN 0 ELSE ring.ext_end
<1>3. w.end \in Nat /\ w.extend \in Nat /\ w.len \in Nat
  BY <1>2 DEF Worker, Snap
<1>4. /\ ring.start \in Nat /\ ring.end \in Nat /\ ring.ext_end \in Nat
      /\ ring.start < BuffSize /\ ring.end <= BuffSize - MaxLine /\ ring.ext_end < BuffSize
      /\ BuffSize \in Nat /\ MaxLine \in Nat /\ 0 < MaxLine /\ 2 * MaxLine <= BuffSize
  BY Numbers, Sizes
<1>5. /\ ring'.start = w.end /\ ring'.ext_end = x /\ ring'.end = ring.end
      /\ ring'.dropped = ring.dropped /\ ring'.block = ring.block
  BY <1>1, <1>2 DEF Released, Rings
<1>6. ring' \in Rings
  <2>1. w.end \in 0 .. BuffSize - 1 /\ x \in 0 .. BuffSize - 1
    <3>1. w.end <= BuffSize - MaxLine
      BY <1>2 DEF SnapHolds
    <3>2. x = 0 \/ x = ring.ext_end
      OBVIOUS
    <3> HIDE DEF w, x
    <3> QED BY <1>3, <1>4, <3>1, <3>2
  <2>2. ring' = [ring EXCEPT !.start = w.end, !.ext_end = x]
    BY <1>1 DEF Released
  <2> HIDE DEF w, x
  <2> QED BY <1>2, <2>1, <2>2 DEF Rings
<1>7. RingPoints'
  <2>1. CASE w.extend > 0
    BY <1>2, <1>3, <1>4, <1>5, <2>1 DEF RingPoints, SnapHolds
  <2>2. CASE w.extend = 0
    BY <1>2, <1>3, <1>4, <1>5, <2>2 DEF RingPoints, SnapHolds
  <2> QED BY <1>3, <2>1, <2>2
<1>8. worker' \in Worker /\ worker'.at = "top" /\ ~Writing'
  <2>1. NoSnap \in Snap
    BY DEF NoSnap, Snap
  <2>2. worker' \in Worker /\ worker'.at = "top"
    BY <1>1, <1>2, <2>1 DEF Worker
  <2> QED BY <2>2 DEF Writing
<1>9. /\ printer' \in Pens /\ Busy' = Busy
      /\ \A p \in Printers : printer'[p].len = printer[p].len
  <2>1. ASSUME NEW p \in Printers
        PROVE  /\ printer'[p] \in [at : {"idle", "blocked", "woken"}, len : {0} \cup LineLens]
               /\ printer'[p].len = printer[p].len
               /\ printer'[p].at = "idle" <=> printer[p].at = "idle"
    <3>1. printer[p] \in [at : {"idle", "blocked", "woken"}, len : {0} \cup LineLens]
      BY <1>2 DEF Pens
    <3>2. printer'[p] = IF printer[p].at = "blocked" THEN [printer[p] EXCEPT !.at = "woken"] ELSE printer[p]
      BY <1>1
    <3> DEFINE q == printer[p]
               r == printer'[p]
    <3>3. q \in [at : {"idle", "blocked", "woken"}, len : {0} \cup LineLens]
          /\ r = IF q.at = "blocked" THEN [q EXCEPT !.at = "woken"] ELSE q
      BY <3>1, <3>2
    <3> SUFFICES /\ r \in [at : {"idle", "blocked", "woken"}, len : {0} \cup LineLens]
                 /\ r.len = q.len
                 /\ r.at = "idle" <=> q.at = "idle"
      OBVIOUS
    <3> HIDE DEF q, r
    <3> QED BY <3>3
  <2>2. printer' \in Pens
    BY <1>1, <2>1 DEF Pens
  <2> QED BY <2>1, <2>2 DEF Busy
<1>10. Types'
  BY <1>1, <1>2, <1>6, <1>8, <1>9, KeptTypes, TypesAre
<1>11. LinesInv'
  <2>1. \A p \in Busy : p \in Printers
    BY DEF Busy
  <2> QED BY <1>1, <1>2, <1>5, <1>9, <2>1 DEF LinesInv
<1>12. DropsReported'
  BY <1>1, <1>2, <1>5, <1>8 DEF DropsReported
<1>13. ToHand = << >> /\ ToHand' = << >>
  BY <1>1, <1>8 DEF ToHand
<1>14. Later' = Later
  <2>1. Later = Has(buff, w.end, x, ring.end)
    BY <1>1 DEF Later, Writing
  <2>2. Later' = Has(buff, w.end, x, ring.end)
    <3>1. Later' = Has(buff', ring'.start, ring'.ext_end, ring'.end)
      BY <1>8 DEF Later
    <3> QED BY <1>1, <1>5, <3>1
  <2> QED BY <2>1, <2>2
<1>15. BytesInv'
  BY <1>1, <1>2, <1>13, <1>14 DEF BytesInv
<1> QED BY <1>7, <1>8, <1>10, <1>11, <1>12, <1>15 DEF LogInv

-----------------------------------------------------------------------------
(* The rest, and the theorem *)

LEMMA OutsideKeeps ==
  LogInv /\ (Exit \/ Close \/ Gzip \/ Tick \/ Done \/ UNCHANGED vars) => LogInv'
<1> SUFFICES ASSUME LogInv, Exit \/ Close \/ Gzip \/ Tick \/ Done \/ UNCHANGED vars PROVE LogInv'
  OBVIOUS
<1>1. UNCHANGED <<ring, buff, printer, worker>>
  BY DEF Exit, Close, Gzip, Tick, Done, vars
<1>2. ghost' = ghost \/ ghost' = [ghost EXCEPT !.faults = @ + 1]
  BY DEF Exit, Close, Gzip, Tick, Done, vars
<1>3. sync' = sync \/ sync' = [sync EXCEPT !.run = FALSE, !.signalled = @ \/ worker.at = "wait"]
  BY DEF Exit, Close, Gzip, Tick, Done, vars
<1>4. main' \in {main, "exit", "closed"}
  BY DEF Exit, Close, Gzip, Tick, Done, vars
<1>5. /\ ghost' \in Ghost /\ ghost'.lines = ghost.lines /\ ghost'.accepted = ghost.accepted
      /\ ghost'.handed = ghost.handed /\ ghost'.dropped = ghost.dropped
      /\ ghost'.reported = ghost.reported
  <2>1. ghost.faults + 1 \in Nat
    <3>1. ghost.faults \in Nat
      BY KeptTypes DEF Ghost
    <3> QED BY <3>1
  <2>2. ghost' = ghost \/ ghost' = [ghost EXCEPT !.faults = ghost.faults + 1]
    BY <1>2
  <2> QED BY <2>1, <2>2, KeptTypes DEF Ghost
<1>6. sync' \in [run : BOOLEAN, notify_log : BOOLEAN, signalled : BOOLEAN]
  BY <1>3, KeptTypes
<1>7. main' \in {"up", "exit", "closed"}
  BY <1>4, KeptTypes
<1> QED BY <1>1, <1>5, <1>6, <1>7, QuietKeeps

LEMMA LogKeeps == LogInv /\ [Next]_vars => LogInv'
<1> SUFFICES ASSUME LogInv, [Next]_vars PROVE LogInv'
  OBVIOUS
<1>1. ASSUME NEW p \in Printers, Vprintf(p) \/ VprintfAgain(p) PROVE LogInv'
  BY <1>1, VprintfKeeps, VprintfAgainKeeps
<1>2. CASE Work
  BY <1>2, WorkTopKeeps, WorkPickKeeps, WaitEndsKeeps, WorkWriteKeeps, WorkWriteExtKeeps,
     WorkReportDroppedKeeps, WorkReleaseKeeps DEF Work
<1>3. CASE Exit \/ Close \/ Gzip \/ Tick \/ Done \/ UNCHANGED vars
  BY <1>3, OutsideKeeps
<1> QED BY <1>1, <1>2, <1>3 DEF Next

(* What comes before is a prefix.                                          *)
LEMMA PrefixOfConcat ==
  ASSUME NEW s \in Seq(Nat), NEW t \in Seq(Nat)
  PROVE  IsPrefix(s, s \o t)
<1>1. s \o t \in Seq(Nat) /\ Len(s \o t) = Len(s) + Len(t)
      /\ \A i \in 1 .. Len(s) + Len(t) : (s \o t)[i] = IF i <= Len(s) THEN s[i] ELSE t[i - Len(s)]
  BY ConcatProperties
<1>2. Len(s) \in Nat /\ Len(t) \in Nat
  OBVIOUS
<1>3. SubSeq(s, 1, Len(s)) = [i \in 1 .. Len(s) |-> s[i]]
  BY <1>2
<1>4. SubSeq(s \o t, 1, Len(s)) = [i \in 1 .. Len(s) |-> (s \o t)[i]]
  BY <1>1, <1>2
<1>5. \A i \in 1 .. Len(s) : (s \o t)[i] = s[i]
  BY <1>1, <1>2
<1> QED BY <1>1, <1>2, <1>3, <1>4, <1>5 DEF IsPrefix

(* The invariant says what was handed over, for each point of the thread.  *)
LEMMA HandedInOrder == LogInv => WrittenAsPrinted
<1> SUFFICES ASSUME LogInv PROVE WrittenAsPrinted
  OBVIOUS
<1>1. ghost.handed \o (ToHand \o Later) = ghost.accepted
  BY DEF LogInv, BytesInv
<1>2. ToHand \in Seq(Nat) /\ Later \in Seq(Nat) /\ ghost.handed \in Seq(Nat)
  BY ToHandIs, Numbers
<1>3. CASE ~Writing
  <2>1. ToHand = << >> /\ Later = Held
    BY <1>3 DEF Writing, ToHand, Later, Held, Has, Bytes, Seg
  <2>2. << >> \o Later = Later
    BY <1>2, ConcatEmptySeq
  <2> QED BY <1>1, <1>3, <2>1, <2>2 DEF WrittenAsPrinted
<1>4. CASE Writing
  <2>1. ToHand \o Later \in Seq(Nat)
    BY <1>2, ConcatProperties
  <2>2. IsPrefix(ghost.handed, ghost.accepted)
    <3> DEFINE x == ToHand \o Later
    <3> HIDE DEF x
    <3>1. x \in Seq(Nat) /\ ghost.handed \o x = ghost.accepted
      BY <1>1, <2>1 DEF x
    <3>2. IsPrefix(ghost.handed, ghost.handed \o x)
      BY <1>2, <3>1, PrefixOfConcat
    <3> QED BY <3>1, <3>2
  <2> DEFINE s == Released
             rest == IF s.ext_end > 0 THEN Bytes(s.start, s.ext_end) \o Bytes(0, s.end)
                     ELSE Bytes(s.start, s.end)
  <2>3. ASSUME worker.at = "release" PROVE ghost.handed \o rest = ghost.accepted
    <3>1. ToHand = << >>
      BY <2>3 DEF ToHand
    <3>2. ring \in Rings
      BY TypesAre DEF LogInv
    <3>3. /\ s.start = worker.snap.end /\ s.end = ring.end
          /\ s.ext_end = IF worker.snap.extend > 0 THEN 0 ELSE ring.ext_end
      BY <3>2 DEF Released, Rings
    <3> HIDE DEF s
    <3>4. rest = Has(buff, s.start, s.ext_end, s.end)
      BY DEF Has, Bytes, Seg
    <3>5. Later = rest
      BY <1>4, <3>3, <3>4 DEF Later
    <3>6. << >> \o Later = Later
      BY <1>2, ConcatEmptySeq
    <3> QED BY <1>1, <3>1, <3>5, <3>6
  <2> QED BY <1>4, <2>2, <2>3 DEF WrittenAsPrinted
<1> QED BY <1>3, <1>4

(***************************************************************************)
(* Every line printed is accounted for, for any number of printers, any    *)
(* ring and any lengths of lines: the bytes of a line that was accepted    *)
(* are handed to the files once and in order, the others are dropped and   *)
(* reported, although the work thread reads the ring without the lock      *)
(* (_tlog_vprintf, _tlog_work).                                            *)
(***************************************************************************)
THEOREM LinesAreAccounted == Spec => []LinesAccounted
<1>1. LogInv => LinesAccounted
  BY HandedInOrder DEF LinesAccounted, LogInv, Types
<1> QED BY <1>1, LogInit, LogKeeps, PTL DEF Spec

-----------------------------------------------------------------------------
(* The files *)

(* Everything on disk, part by part.                                       *)
Disk(a, b, c, d, e) == a \o b \o c \o d \o e

LEMMA Concats ==
  \A s, t \in Seq(Nat) : s \o t \in Seq(Nat) /\ s \o << >> = s
BY ConcatProperties, ConcatEmptySeq

LEMMA DiskIs ==
  ASSUME NEW a \in File, NEW b \in File, NEW c \in File, NEW d \in File, NEW e \in File
  PROVE  Disk(a, b, c, d, e) \in File
<1>1. a \o b \in Seq(Nat)
  BY Concats DEF File
<1>2. a \o b \o c \in Seq(Nat)
  BY <1>1, Concats DEF File
<1>3. a \o b \o c \o d \in Seq(Nat)
  BY <1>2, Concats DEF File
<1>4. a \o b \o c \o d \o e \in Seq(Nat)
  BY <1>3, Concats DEF File
<1> QED BY <1>4 DEF Disk, File

(* The compressed file becomes the newest archive.                         *)
LEMMA DiskArchives ==
  ASSUME NEW a \in File, NEW b \in File, NEW c \in File, NEW d, NEW e
  PROVE  Disk(a, b \o c, << >>, d, e) = Disk(a, b, c, d, e)
<1>1. (a \o b) \o c = a \o (b \o c)
  BY Regrouped DEF File
<1>2. a \o b \o c \in Seq(Nat)
  <2>1. a \o b \in Seq(Nat)
    BY Concats DEF File
  <2> QED BY <2>1, Concats DEF File
<1>3. (a \o b \o c) \o << >> = a \o b \o c
  BY <1>2, ConcatEmptySeq
<1> QED BY <1>1, <1>3 DEF Disk

(* The oldest archives are removed.                                        *)
LEMMA DiskRemoves ==
  ASSUME NEW a \in File, NEW x \in File, NEW b \in File, NEW c, NEW d, NEW e
  PROVE  Disk(a \o x, b, c, d, e) = Disk(a, x \o b, c, d, e)
<1>1. (a \o x) \o b = a \o (x \o b)
  BY Regrouped DEF File
<1> QED BY <1>1 DEF Disk

(* The log file becomes the pending file.                                  *)
LEMMA DiskPends ==
  ASSUME NEW a \in File, NEW b \in File, NEW c \in File, NEW e \in File
  PROVE  Disk(a, b, c, << >>, e) = Disk(a, b, c, e, << >>)
<1>1. a \o b \in Seq(Nat)
  BY Concats DEF File
<1>2. a \o b \o c \in Seq(Nat)
  BY <1>1, Concats DEF File
<1>3. a \o b \o c \o e \in Seq(Nat)
  BY <1>2, Concats DEF File
<1>4. (a \o b \o c) \o << >> = a \o b \o c
  BY <1>2, ConcatEmptySeq
<1>5. (a \o b \o c \o e) \o << >> = a \o b \o c \o e
  BY <1>3, ConcatEmptySeq
<1> QED BY <1>4, <1>5 DEF Disk

(* The pending file becomes the compressed file.                           *)
LEMMA DiskZips ==
  ASSUME NEW a \in File, NEW b \in File, NEW d \in File, NEW e
  PROVE  Disk(a, b, << >>, d, e) = Disk(a, b, d, << >>, e)
<1>1. a \o b \in Seq(Nat)
  BY Concats DEF File
<1>2. a \o b \o d \in Seq(Nat)
  BY <1>1, Concats DEF File
<1>3. (a \o b) \o << >> = a \o b
  BY <1>1, ConcatEmptySeq
<1>4. (a \o b \o d) \o << >> = a \o b \o d
  BY <1>2, ConcatEmptySeq
<1> QED BY <1>3, <1>4 DEF Disk

LEMMA OnDiskParts ==
  ASSUME NEW f
  PROVE  OnDisk(f) = Disk(f.removed, FlattenSeq(f.archives), f.gz, f.pending, f.file)
BY DEF OnDisk, Disk

LEMMA FilesAre ==
  ASSUME NEW f \in Files
  PROVE  /\ f.removed \in File /\ f.gz \in File /\ f.pending \in File /\ f.file \in File
         /\ f.archives \in Seq(File) /\ FlattenSeq(f.archives) \in File
         /\ Len(f.archives) \in Nat /\ << >> \in File
<1>1. /\ f.removed \in File /\ f.gz \in File /\ f.pending \in File /\ f.file \in File
      /\ f.archives \in Seq(File)
  BY DEF Files
<1>2. << >> \in File
  BY EmptySeq DEF File
<1> QED BY <1>1, <1>2, FlattenIs

(* The log file grows.                                                     *)
LEMMA DiskGrows ==
  ASSUME NEW f \in Files, NEW x \in File, NEW g, g.removed = f.removed, g.archives = f.archives,
         g.gz = f.gz, g.pending = f.pending, g.file = f.file \o x
  PROVE  OnDisk(g) = OnDisk(f) \o x
<1> DEFINE a == f.removed
           b == FlattenSeq(f.archives)
           c == f.gz
           d == f.pending
           e == f.file
           y == a \o b \o c \o d
<1>1. a \in Seq(Nat) /\ b \in Seq(Nat) /\ c \in Seq(Nat) /\ d \in Seq(Nat) /\ e \in Seq(Nat)
  BY FilesAre DEF File
<1>2. x \in Seq(Nat)
  BY DEF File
<1>3. OnDisk(f) = y \o e /\ OnDisk(g) = y \o (e \o x)
  BY DEF OnDisk
<1> HIDE DEF a, b, c, d, e
<1>4. y \in Seq(Nat)
  BY <1>1
<1> HIDE DEF y
<1>5. e \in Seq(Nat)
  BY <1>1
<1>6. (y \o e) \o x = y \o (e \o x)
  BY <1>2, <1>4, <1>5, Regrouped
<1> QED BY <1>3, <1>6

(* The newest archive.                                                     *)
LEMMA RenamedIs ==
  ASSUME NEW f \in Files
  PROVE  /\ Renamed(f) \in Files /\ OnDisk(Renamed(f)) = OnDisk(f)
         /\ Len(Renamed(f).archives) = Len(f.archives) + 1 /\ Renamed(f).gz = << >>
         /\ Renamed(f).zip = f.zip /\ Renamed(f).lost = f.lost
<1> DEFINE a == Append(f.archives, f.gz)
<1>1. a \in Seq(File) /\ Len(a) = Len(f.archives) + 1 /\ FlattenSeq(a) = FlattenSeq(f.archives) \o f.gz
  <2>1. f.archives \in Seq(File) /\ f.gz \in File
    BY FilesAre
  <2>2. FlattenSeq(Append(f.archives, f.gz)) = FlattenSeq(f.archives) \o f.gz
    BY <2>1, FlattenAppend
  <2>3. Append(f.archives, f.gz) \in Seq(File) /\ Len(Append(f.archives, f.gz)) = Len(f.archives) + 1
    BY <2>1
  <2> QED BY <2>2, <2>3
<1> HIDE DEF a
<1>2. Renamed(f) = [f EXCEPT !.archives = a, !.gz = << >>]
  BY DEF Renamed, a
<1> DEFINE g == Renamed(f)
<1>3. /\ g \in Files /\ g.archives = a /\ g.gz = << >> /\ g.removed = f.removed
      /\ g.pending = f.pending /\ g.file = f.file /\ g.zip = f.zip /\ g.lost = f.lost
  BY <1>1, <1>2, FilesAre DEF Files
<1> HIDE DEF g
<1>4. OnDisk(g) = OnDisk(f)
  <2>1. OnDisk(g) = Disk(f.removed, FlattenSeq(f.archives) \o f.gz, << >>, f.pending, f.file)
    BY <1>1, <1>3, OnDiskParts
  <2>2. /\ f.removed \in File /\ FlattenSeq(f.archives) \in File /\ f.gz \in File
        /\ f.pending \in File /\ f.file \in File
    BY FilesAre
  <2>3. Disk(f.removed, FlattenSeq(f.archives) \o f.gz, << >>, f.pending, f.file)
          = Disk(f.removed, FlattenSeq(f.archives), f.gz, f.pending, f.file)
    BY <2>2, DiskArchives
  <2> QED BY <2>1, <2>3, OnDiskParts
<1> QED BY <1>1, <1>3, <1>4 DEF g

(* The oldest archives go, and are remembered.                             *)
LEMMA RemoveOldIs ==
  ASSUME NEW f \in Files
  PROVE  /\ RemoveOld(f) \in Files /\ OnDisk(RemoveOld(f)) = OnDisk(f)
         /\ Len(RemoveOld(f).archives) <= LogCount
         /\ RemoveOld(f).gz = f.gz /\ RemoveOld(f).zip = f.zip
<1>0. LogCount \in Nat /\ Len(f.archives) \in Nat /\ f.archives \in Seq(File)
  BY TlogFileAssumption, FilesAre
<1>1. CASE Len(f.archives) <= LogCount
  BY <1>1 DEF RemoveOld
<1>2. CASE ~(Len(f.archives) <= LogCount)
  <2> DEFINE n == Len(f.archives)
             over == n - LogCount
             s == SubSeq(f.archives, 1, over)
             t == SubSeq(f.archives, over + 1, n)
             r == f.removed \o FlattenSeq(s)
  <2>1. over \in 0 .. n /\ n \in Nat /\ over \in Nat
    BY <1>0, <1>2
  <2>2. s \in Seq(File) /\ t \in Seq(File) /\ Len(t) = LogCount
    BY <1>0, <2>1
  <2>3. s \o t = f.archives
    <3>1. 1 \in 1 .. n + 1 /\ over \in 1 - 1 .. n /\ n \in over .. n
      BY <2>1
    <3>2. s \o t = SubSeq(f.archives, 1, n)
      BY <1>0, <3>1, ConcatAdjacentSubSeq
    <3>3. SubSeq(f.archives, 1, n) = f.archives
      BY <1>0, SubSeqFull
    <3> QED BY <3>2, <3>3
  <2>4. RemoveOld(f) = [f EXCEPT !.archives = t, !.removed = r]
    BY <1>2 DEF RemoveOld
  <2> HIDE DEF s, t, n, over
  <2>5. /\ FlattenSeq(s) \in File /\ FlattenSeq(t) \in File
        /\ FlattenSeq(s) \o FlattenSeq(t) = FlattenSeq(f.archives)
    <3>1. FlattenSeq(s) \in File /\ FlattenSeq(t) \in File
      BY <2>2, FlattenIs
    <3>2. FlattenSeq(s \o t) = FlattenSeq(s) \o FlattenSeq(t)
      BY <2>2, FlattenConcat
    <3> QED BY <2>3, <3>1, <3>2
  <2>6. r \in File
    <3>1. f.removed \in Seq(Nat) /\ FlattenSeq(s) \in Seq(Nat)
      BY <2>5, FilesAre DEF File
    <3> QED BY <3>1, ConcatProperties DEF File
  <2> DEFINE g == RemoveOld(f)
  <2>7. /\ g \in Files /\ g.archives = t /\ g.removed = r /\ g.gz = f.gz
        /\ g.pending = f.pending /\ g.file = f.file /\ g.zip = f.zip
    <3> HIDE DEF r
    <3> QED BY <2>2, <2>4, <2>6 DEF Files
  <2> HIDE DEF g
  <2>8. OnDisk(g) = OnDisk(f)
    <3>1. OnDisk(g) = Disk(f.removed \o FlattenSeq(s), FlattenSeq(t), f.gz, f.pending, f.file)
      BY <2>7, OnDiskParts
    <3>2. Disk(f.removed \o FlattenSeq(s), FlattenSeq(t), f.gz, f.pending, f.file)
            = Disk(f.removed, FlattenSeq(s) \o FlattenSeq(t), f.gz, f.pending, f.file)
      <4>1. /\ f.removed \in File /\ FlattenSeq(s) \in File /\ FlattenSeq(t) \in File
            /\ f.gz \in File /\ f.pending \in File /\ f.file \in File
        BY <2>5, FilesAre
      <4> QED BY <4>1, DiskRemoves
    <3> QED BY <2>5, <3>1, <3>2, OnDiskParts
  <2> QED BY <1>0, <2>2, <2>7, <2>8 DEF g
<1> QED BY <1>1, <1>2

(* A change that is not one of the parts on disk.                          *)
LEMMA DiskSame ==
  ASSUME NEW f, NEW g, g.removed = f.removed, g.archives = f.archives, g.gz = f.gz,
         g.pending = f.pending, g.file = f.file
  PROVE  OnDisk(g) = OnDisk(f)
BY OnDiskParts

(* When gzip is reaped, what it made is archived and the oldest removed.   *)
LEMMA WaitPidIs ==
  ASSUME NEW f, FileInv(f)
  PROVE  FileInv(WaitPid(f)) /\ OnDisk(WaitPid(f)) = OnDisk(f)
<1>0. f \in Files /\ LogCount \in Nat
  BY TlogFileAssumption DEF FileInv
<1>1. CASE f.zip = "ok"
  <2> DEFINE g == [f EXCEPT !.zip = "none"]
             h == Renamed(g)
             k == RemoveOld(h)
  <2>1. /\ g \in Files /\ g.removed = f.removed /\ g.archives = f.archives /\ g.gz = f.gz
        /\ g.pending = f.pending /\ g.file = f.file /\ g.zip = "none"
    BY <1>0 DEF Files
  <2>2. WaitPid(f) = k
    BY <1>1 DEF WaitPid
  <2> HIDE DEF g
  <2>3. OnDisk(g) = OnDisk(f)
    BY <2>1, DiskSame
  <2>4. h \in Files /\ OnDisk(h) = OnDisk(g) /\ h.gz = << >> /\ h.zip = "none"
    BY <2>1, RenamedIs
  <2> HIDE DEF h
  <2>5. k \in Files /\ OnDisk(k) = OnDisk(h) /\ k.gz = << >> /\ Len(k.archives) <= LogCount
    BY <2>4, RemoveOldIs
  <2>6. Len(k.archives) \in Nat
    BY <2>5, FilesAre
  <2> HIDE DEF k
  <2>7. FileInv(k)
    BY <1>0, <2>5, <2>6 DEF FileInv
  <2> QED BY <2>2, <2>3, <2>4, <2>5, <2>7
<1>2. CASE f.zip = "failed"
  <2> DEFINE g == [f EXCEPT !.zip = "none"]
  <2>1. /\ g \in Files /\ g.removed = f.removed /\ g.archives = f.archives /\ g.gz = f.gz
        /\ g.pending = f.pending /\ g.file = f.file /\ g.zip = "none"
    BY <1>0 DEF Files
  <2>2. WaitPid(f) = g
    BY <1>2 DEF WaitPid
  <2> HIDE DEF g
  <2>3. OnDisk(g) = OnDisk(f)
    BY <2>1, DiskSame
  <2>4. f.gz = << >>
    BY <1>2 DEF FileInv
  <2>5. FileInv(g)
    BY <2>1, <2>4 DEF FileInv
  <2> QED BY <2>2, <2>3, <2>5
<1>3. CASE f.zip # "ok" /\ f.zip # "failed"
  <2>1. WaitPid(f) = f
    BY <1>3 DEF WaitPid
  <2> QED BY <2>1
<1> QED BY <1>1, <1>2, <1>3

LEMMA WaitPidsIs ==
  ASSUME NEW f, FileInv(f)
  PROVE  FileInv(WaitPids(f)) /\ OnDisk(WaitPids(f)) = OnDisk(f)
<1> DEFINE g == WaitPid(f)
           h == [g EXCEPT !.polled = TRUE]
<1>1. FileInv(g) /\ OnDisk(g) = OnDisk(f)
  BY WaitPidIs
<1> HIDE DEF g
<1>2. /\ h \in Files /\ h.removed = g.removed /\ h.archives = g.archives /\ h.gz = g.gz
      /\ h.pending = g.pending /\ h.file = g.file /\ h.zip = g.zip
  BY <1>1 DEF FileInv, Files
<1>3. WaitPids(f) = f \/ WaitPids(f) = h
  BY DEF WaitPids, g
<1> HIDE DEF h
<1>4. FileInv(h)
  BY <1>1, <1>2 DEF FileInv
<1>5. OnDisk(h) = OnDisk(g)
  BY <1>2, DiskSame
<1> QED BY <1>1, <1>3, <1>4, <1>5

(* A compressed file left behind is renamed first; a pending file that is  *)
(* still there is not overwritten.                                         *)
LEMMA ArchiveIs ==
  ASSUME NEW f, FileInv(f), f.zip = "none", NEW forks \in BOOLEAN
  PROVE  /\ FileInv(Archive(f, forks)) /\ OnDisk(Archive(f, forks)) = OnDisk(f)
         /\ Archive(f, forks).lost = f.lost
<1>0. f \in Files /\ LogCount \in Nat /\ << >> \in File
  BY TlogFileAssumption, FilesAre DEF FileInv
<1> DEFINE g == IF f.gz /= <<>> THEN Renamed(f) ELSE f
           h == IF g.pending = <<>> THEN [g EXCEPT !.pending = g.file, !.file = <<>>] ELSE g
           k == [h EXCEPT !.zip = "running"]
<1>1. Archive(f, forks) = IF forks THEN k ELSE h
  BY DEF Archive
<1>2. /\ g \in Files /\ OnDisk(g) = OnDisk(f) /\ g.gz = << >> /\ g.zip = "none"
      /\ Len(g.archives) <= LogCount + 1 /\ g.lost = f.lost
  <2>1. CASE f.gz = << >>
    BY <1>0, <2>1 DEF FileInv
  <2>2. CASE f.gz # << >>
    <3>1. Len(f.archives) <= LogCount /\ Len(f.archives) \in Nat
      BY <1>0, <2>2, FilesAre DEF FileInv
    <3>2. Len(f.archives) + 1 <= LogCount + 1
      BY <1>0, <3>1
    <3> QED BY <1>0, <2>2, <3>2, RenamedIs
  <2> QED BY <2>1, <2>2
<1> HIDE DEF g
<1>3. /\ h \in Files /\ OnDisk(h) = OnDisk(g) /\ h.gz = << >> /\ h.zip = "none"
      /\ h.archives = g.archives /\ h.lost = g.lost
  <2>1. CASE g.pending # << >>
    BY <1>2, <2>1
  <2>2. CASE g.pending = << >>
    <3>1. h = [g EXCEPT !.pending = g.file, !.file = <<>>]
      BY <2>2
    <3>2. /\ h \in Files /\ h.removed = g.removed /\ h.archives = g.archives /\ h.gz = g.gz
          /\ h.pending = g.file /\ h.file = << >> /\ h.zip = g.zip /\ h.lost = g.lost
      BY <1>0, <1>2, <3>1 DEF Files
    <3> HIDE DEF h
    <3>3. OnDisk(h) = Disk(g.removed, FlattenSeq(g.archives), g.gz, g.file, << >>)
      BY <3>2, OnDiskParts
    <3>4. OnDisk(g) = Disk(g.removed, FlattenSeq(g.archives), g.gz, << >>, g.file)
      BY <2>2, OnDiskParts
    <3>5. g.removed \in File /\ FlattenSeq(g.archives) \in File /\ g.gz \in File /\ g.file \in File
      BY <1>2, FilesAre
    <3>6. OnDisk(h) = OnDisk(g)
      BY <3>3, <3>4, <3>5, DiskPends
    <3> QED BY <1>2, <3>2, <3>6
  <2> QED BY <2>1, <2>2
<1> HIDE DEF h
<1>4. /\ k \in Files /\ k.removed = h.removed /\ k.archives = h.archives /\ k.gz = h.gz
      /\ k.pending = h.pending /\ k.file = h.file /\ k.lost = h.lost
  BY <1>3 DEF Files
<1> HIDE DEF k
<1>5. OnDisk(k) = OnDisk(h)
  BY <1>4, DiskSame
<1>6. FileInv(h) /\ FileInv(k)
  BY <1>2, <1>3, <1>4 DEF FileInv
<1> QED BY <1>1, <1>2, <1>3, <1>4, <1>5, <1>6

LEMMA RotateIs ==
  ASSUME NEW f, FileInv(f), NEW forks \in BOOLEAN
  PROVE  /\ FileInv(Rotate(f, forks)) /\ OnDisk(Rotate(f, forks)) = OnDisk(f)
         /\ Rotate(f, forks).lost = f.lost
<1> DEFINE g == [f EXCEPT !.fd = FALSE, !.filesize = 0]
<1>1. /\ g \in Files /\ g.removed = f.removed /\ g.archives = f.archives /\ g.gz = f.gz
      /\ g.pending = f.pending /\ g.file = f.file /\ g.zip = f.zip /\ g.lost = f.lost
  BY DEF FileInv, Files
<1>2. Rotate(f, forks) = f \/ (f.zip = "none" /\ Rotate(f, forks) = Archive(g, forks))
  BY DEF Rotate
<1> HIDE DEF g
<1>3. FileInv(g) /\ OnDisk(g) = OnDisk(f)
  BY <1>1, DiskSame DEF FileInv
<1>4. ASSUME f.zip = "none", Rotate(f, forks) = Archive(g, forks)
      PROVE  /\ FileInv(Rotate(f, forks)) /\ OnDisk(Rotate(f, forks)) = OnDisk(f)
             /\ Rotate(f, forks).lost = f.lost
  BY <1>1, <1>3, <1>4, ArchiveIs
<1> QED BY <1>2, <1>4

LEMMA ReopenIs ==
  ASSUME NEW f, FileInv(f), NEW opens \in BOOLEAN
  PROVE  /\ FileInv(Reopen(f, opens)) /\ OnDisk(Reopen(f, opens)) = OnDisk(f)
         /\ Reopen(f, opens).lost = f.lost
<1> DEFINE n == IF opens THEN Len(f.file) ELSE 0
<1>1. n \in Nat
  <2>1. f.file \in Seq(Nat)
    BY DEF FileInv, Files, File
  <2> QED BY <2>1
<1> HIDE DEF n
<1> DEFINE g == [f EXCEPT !.tried = TRUE, !.fd = opens, !.filesize = n]
<1>2. /\ g \in Files /\ g.removed = f.removed /\ g.archives = f.archives /\ g.gz = f.gz
      /\ g.pending = f.pending /\ g.file = f.file /\ g.zip = f.zip /\ g.lost = f.lost
  BY <1>1 DEF FileInv, Files
<1>3. Reopen(f, opens) = f \/ Reopen(f, opens) = g
  BY DEF Reopen, n
<1> HIDE DEF g
<1>4. FileInv(g) /\ OnDisk(g) = OnDisk(f)
  BY <1>2, DiskSame DEF FileInv
<1> QED BY <1>2, <1>3, <1>4

(* What is written is the newest on disk, or lost as a whole.              *)
LEMMA WriteLogIs ==
  ASSUME NEW f, FileInv(f), NEW bytes \in File, NEW ok \in [forks : BOOLEAN, opens : BOOLEAN]
  PROVE  /\ FileInv(WriteLog(f, bytes, ok))
         /\ Len(WriteLog(f, bytes, ok).lost) = Len(f.lost)
              => OnDisk(WriteLog(f, bytes, ok)) = OnDisk(f) \o bytes
         /\ Len(WriteLog(f, bytes, ok).lost) # Len(f.lost)
              => OnDisk(WriteLog(f, bytes, ok)) = OnDisk(f)
<1> DEFINE r == Rotate(f, ok.forks)
           g == Reopen(r, ok.opens)
           h == [g EXCEPT !.file = @ \o bytes, !.filesize = @ + Len(bytes)]
           k == [g EXCEPT !.lost = @ \o bytes]
           u == WriteLog(f, bytes, ok)
<1>0. ok.forks \in BOOLEAN /\ ok.opens \in BOOLEAN /\ bytes \in Seq(Nat)
  BY DEF File
<1>1. FileInv(r) /\ OnDisk(r) = OnDisk(f) /\ r.lost = f.lost
  BY <1>0, RotateIs
<1>2. u = IF bytes = << >> THEN f ELSE IF g.fd THEN h ELSE k
  BY DEF WriteLog
<1> HIDE DEF r
<1>3. FileInv(g) /\ OnDisk(g) = OnDisk(f) /\ g.lost = f.lost
  BY <1>0, <1>1, ReopenIs
<1> HIDE DEF g
<1>4. g \in Files /\ g.file \in Seq(Nat) /\ g.lost \in Seq(Nat) /\ g.filesize \in Nat
  BY <1>3 DEF FileInv, Files, File
<1> SUFFICES /\ FileInv(u)
             /\ Len(u.lost) = Len(f.lost) => OnDisk(u) = OnDisk(f) \o bytes
             /\ Len(u.lost) # Len(f.lost) => OnDisk(u) = OnDisk(f)
  OBVIOUS
<1>5. CASE bytes = << >>
  <2>1. OnDisk(f) \in Seq(Nat)
    BY OnDiskIs DEF FileInv, File
  <2>2. OnDisk(f) \o << >> = OnDisk(f)
    BY <2>1, ConcatEmptySeq
  <2> HIDE DEF u, h, k
  <2> QED BY <1>2, <1>5, <2>2
<1>6. CASE bytes # << >> /\ g.fd
  <2> DEFINE w == g.file \o bytes
             n == g.filesize + Len(bytes)
  <2>1. w \in File /\ n \in Nat
    <3>1. Len(bytes) \in Nat
      BY <1>0
    <3>2. w \in Seq(Nat)
      BY <1>0, <1>4, ConcatProperties
    <3> QED BY <1>4, <3>1, <3>2 DEF File
  <2>2. h = [g EXCEPT !.file = w, !.filesize = n]
    OBVIOUS
  <2> HIDE DEF w, n, h
  <2>3. /\ h \in Files /\ h.removed = g.removed /\ h.archives = g.archives /\ h.gz = g.gz
        /\ h.pending = g.pending /\ h.file = w /\ h.zip = g.zip /\ h.lost = g.lost
    BY <1>4, <2>1, <2>2 DEF Files
  <2>4. OnDisk(h) = OnDisk(g) \o bytes
    BY <1>4, <2>3, DiskGrows DEF w
  <2>5. FileInv(h)
    BY <1>3, <2>3 DEF FileInv
  <2>6. u = h
    BY <1>2, <1>6
  <2> HIDE DEF u
  <2> QED BY <1>3, <2>3, <2>4, <2>5, <2>6
<1>7. CASE bytes # << >> /\ ~g.fd
  <2> DEFINE l == g.lost \o bytes
  <2>1. l \in File /\ Len(l) = Len(g.lost) + Len(bytes)
    BY <1>0, <1>4, ConcatProperties DEF File
  <2>2. k = [g EXCEPT !.lost = l]
    OBVIOUS
  <2>3. Len(bytes) # 0 /\ Len(bytes) \in Nat /\ Len(g.lost) \in Nat
    <3>1. Len(bytes) \in Nat \ {0}
      BY <1>0, <1>7, EmptySeq
    <3> QED BY <1>4, <3>1
  <2> HIDE DEF l, k
  <2>4. /\ k \in Files /\ k.removed = g.removed /\ k.archives = g.archives /\ k.gz = g.gz
        /\ k.pending = g.pending /\ k.file = g.file /\ k.zip = g.zip /\ k.lost = l
    BY <1>4, <2>1, <2>2 DEF Files
  <2>5. FileInv(k) /\ OnDisk(k) = OnDisk(g)
    BY <1>3, <2>4, DiskSame DEF FileInv
  <2>6. u = k
    BY <1>2, <1>7
  <2>7. Len(k.lost) # Len(f.lost)
    BY <1>3, <2>1, <2>3, <2>4
  <2> HIDE DEF u
  <2> QED BY <1>3, <2>5, <2>6, <2>7
<1> QED BY <1>5, <1>6, <1>7

(* The files, and the bytes written to them.                               *)
FilesInv == FileInv(fs) /\ ghost.disk = OnDisk(fs)

LEMMA FilesInit == Init => FilesInv
<1> SUFFICES ASSUME Init PROVE FilesInv
  OBVIOUS
<1>1. OldByte \in Nat
  BY Sizes DEF OldByte
<1>2. FileInv(fs)
  BY <1>1, LeftoversAre DEF Init
<1> QED BY <1>2 DEF FilesInv, Init

(* Every call of _tlog_write_log.                                          *)
LEMMA HandKeepsFiles ==
  ASSUME LogInv, FilesInv, NEW bytes \in Seq(Nat), NEW reported \in Nat,
         HandToFile(bytes, reported)
  PROVE  FilesInv'
<1> DEFINE d == IF Len(fs'.lost) = Len(fs.lost) THEN ghost.disk \o bytes ELSE ghost.disk
<1>1. PICK ok \in [forks : BOOLEAN, opens : BOOLEAN] : fs' = WriteLog(fs, bytes, ok)
  BY DEF HandToFile
<1>2. ghost'.disk = d
  BY HandIs
<1>3. FileInv(fs) /\ ghost.disk = OnDisk(fs) /\ bytes \in File
  BY DEF FilesInv, File
<1>4. /\ FileInv(fs')
      /\ Len(fs'.lost) = Len(fs.lost) => OnDisk(fs') = OnDisk(fs) \o bytes
      /\ Len(fs'.lost) # Len(fs.lost) => OnDisk(fs') = OnDisk(fs)
  BY <1>1, <1>3, WriteLogIs
<1> QED BY <1>2, <1>3, <1>4 DEF FilesInv

LEMMA WritesKeepFiles ==
  LogInv /\ FilesInv /\ (WorkWrite \/ WorkWriteExt \/ WorkReportDropped) => FilesInv'
<1>1. ASSUME LogInv, FilesInv, WorkWrite PROVE FilesInv'
  <2>1. Writing
    BY <1>1 DEF WorkWrite, Writing
  <2>2. HandToFile(Seg(buff, ring.start, ring.start + worker.snap.len), 0)
    BY <1>1 DEF WorkWrite, Bytes, Seg
  <2> QED BY <1>1, <2>1, <2>2, ToHandIs, HandKeepsFiles
<1>2. ASSUME LogInv, FilesInv, WorkWriteExt PROVE FilesInv'
  <2>1. Writing
    BY <1>2 DEF WorkWriteExt, Writing
  <2>2. HandToFile(Seg(buff, 0, worker.snap.extlen), 0)
    BY <1>2 DEF WorkWriteExt, Bytes, Seg
  <2> QED BY <1>2, <2>1, <2>2, ToHandIs, HandKeepsFiles
<1>3. ASSUME LogInv, FilesInv, WorkReportDropped PROVE FilesInv'
  <2>1. <<DropByte>> \in Seq(Nat)
    BY DEF DropByte
  <2>2. HandToFile(<<DropByte>>, worker.snap.dropped)
    BY <1>3 DEF WorkReportDropped
  <2>3. worker.snap.dropped \in Nat
    BY <1>3, Numbers DEF Snap
  <2> QED BY <1>3, <2>1, <2>2, <2>3, HandKeepsFiles
<1> QED BY <1>1, <1>2, <1>3

(* gzip ends, well or not; the pending file becomes the compressed one.    *)
LEMMA GzipKeepsFiles ==
  ASSUME LogInv, FilesInv, Gzip
  PROVE  FilesInv'
<1>1. fs.zip = "running" /\ FileInv(fs) /\ ghost.disk = OnDisk(fs) /\ fs \in Files
  BY DEF Gzip, FilesInv, FileInv
<1>2. fs.gz = << >>
  BY <1>1 DEF FileInv
<1>3. ghost'.disk = ghost.disk
  <2>1. ghost' = ghost \/ ghost' = [ghost EXCEPT !.faults = @ + 1]
    BY DEF Gzip
  <2> QED BY <2>1, KeptTypes DEF Ghost
<1>4. CASE fs' = GzipDone(fs)
  <2>1. fs' = [fs EXCEPT !.zip = "ok", !.gz = fs.pending, !.pending = <<>>]
    BY <1>4 DEF GzipDone
  <2>2. << >> \in File /\ fs.pending \in File
    BY <1>1, FilesAre
  <2>3. /\ fs' \in Files /\ fs'.removed = fs.removed /\ fs'.archives = fs.archives
        /\ fs'.gz = fs.pending /\ fs'.pending = << >> /\ fs'.file = fs.file /\ fs'.zip = "ok"
    BY <1>1, <2>1, <2>2 DEF Files
  <2>4. OnDisk(fs') = OnDisk(fs)
    <3>1. OnDisk(fs') = Disk(fs.removed, FlattenSeq(fs.archives), fs.pending, << >>, fs.file)
      BY <2>3, OnDiskParts
    <3>2. OnDisk(fs) = Disk(fs.removed, FlattenSeq(fs.archives), << >>, fs.pending, fs.file)
      BY <1>2, OnDiskParts
    <3>3. fs.removed \in File /\ FlattenSeq(fs.archives) \in File
      BY <1>1, FilesAre
    <3> QED BY <2>2, <3>1, <3>2, <3>3, DiskZips
  <2>5. FileInv(fs')
    BY <1>1, <2>3 DEF FileInv
  <2> QED BY <1>1, <1>3, <2>4, <2>5 DEF FilesInv
<1>5. CASE fs' = [fs EXCEPT !.zip = "failed"]
  <2>1. /\ fs' \in Files /\ fs'.removed = fs.removed /\ fs'.archives = fs.archives
        /\ fs'.gz = fs.gz /\ fs'.pending = fs.pending /\ fs'.file = fs.file
    BY <1>1, <1>5 DEF Files
  <2>2. OnDisk(fs') = OnDisk(fs)
    BY <2>1, DiskSame
  <2>3. FileInv(fs')
    BY <1>1, <1>2, <2>1 DEF FileInv
  <2> QED BY <1>1, <1>3, <2>2, <2>3 DEF FilesInv
<1> QED BY <1>4, <1>5 DEF Gzip

(* Reaping gzip, closing the log, another second.                          *)
LEMMA TidyKeepsFiles ==
  ASSUME FilesInv, WorkTop \/ Close \/ Tick
  PROVE  FilesInv'
<1>0. FileInv(fs) /\ ghost.disk = OnDisk(fs) /\ ghost' = ghost
  BY DEF FilesInv, WorkTop, Close, Tick
<1>1. CASE WorkTop
  <2>1. fs' = fs \/ fs' = WaitPids(fs)
    BY <1>1 DEF WorkTop
  <2>2. FileInv(fs') /\ OnDisk(fs') = OnDisk(fs)
    BY <1>0, <2>1, WaitPidsIs
  <2> QED BY <1>0, <2>2 DEF FilesInv
<1>2. CASE Close
  <2> DEFINE g == WaitPid(fs)
  <2>1. FileInv(g) /\ OnDisk(g) = OnDisk(fs)
    BY <1>0, WaitPidIs
  <2>2. fs' = [g EXCEPT !.fd = FALSE]
    BY <1>2 DEF Close
  <2> HIDE DEF g
  <2>3. /\ fs' \in Files /\ fs'.removed = g.removed /\ fs'.archives = g.archives
        /\ fs'.gz = g.gz /\ fs'.pending = g.pending /\ fs'.file = g.file /\ fs'.zip = g.zip
    BY <2>1, <2>2 DEF FileInv, Files
  <2>4. FileInv(fs') /\ OnDisk(fs') = OnDisk(g)
    BY <2>1, <2>3, DiskSame DEF FileInv
  <2> QED BY <1>0, <2>1, <2>4 DEF FilesInv
<1>3. CASE Tick
  <2>1. fs' = [fs EXCEPT !.tried = FALSE, !.polled = FALSE]
    BY <1>3 DEF Tick, NextSecond
  <2>2. /\ fs' \in Files /\ fs'.removed = fs.removed /\ fs'.archives = fs.archives
        /\ fs'.gz = fs.gz /\ fs'.pending = fs.pending /\ fs'.file = fs.file /\ fs'.zip = fs.zip
    BY <1>0, <2>1 DEF FileInv, Files
  <2>3. FileInv(fs') /\ OnDisk(fs') = OnDisk(fs)
    BY <1>0, <2>2, DiskSame DEF FileInv
  <2> QED BY <1>0, <2>3 DEF FilesInv
<1> QED BY <1>1, <1>2, <1>3

(* The other steps leave the files, and what was written, alone.           *)
LEMMA OthersKeepFiles ==
  ASSUME LogInv, FilesInv, fs' = fs,
         ghost' = ghost \/ \E p \in Printers, len \in LineLens : Attempt(p, len)
  PROVE  FilesInv'
<1>1. ghost'.disk = ghost.disk
  <2>1. CASE ghost' = ghost
    BY <2>1
  <2>2. ASSUME NEW p \in Printers, NEW len \in LineLens, Attempt(p, len)
        PROVE  ghost'.disk = ghost.disk
    <3> DEFINE a == ghost.accepted \o [i \in 1 .. len |-> LineNo]
    <3>1. \/ ghost' = ghost
          \/ ghost' = [ghost EXCEPT !.lines = LineNo, !.accepted = a]
          \/ ghost' = [ghost EXCEPT !.lines = LineNo, !.dropped = @ + 1]
      BY <2>2 DEF Attempt
    <3> HIDE DEF a
    <3> QED BY <3>1, KeptTypes DEF Ghost
  <2> QED BY <2>1, <2>2
<1> QED BY <1>1 DEF FilesInv

LEMMA FilesKeeps == LogInv /\ FilesInv /\ [Next]_vars => FilesInv'
<1> SUFFICES ASSUME LogInv, FilesInv, [Next]_vars PROVE FilesInv'
  OBVIOUS
<1>1. ASSUME NEW p \in Printers, Vprintf(p) \/ VprintfAgain(p) PROVE FilesInv'
  <2>1. fs' = fs
    BY <1>1 DEF Vprintf, VprintfAgain
  <2>2. \E len \in LineLens : Attempt(p, len)
    <3>1. CASE Vprintf(p)
      BY <3>1 DEF Vprintf
    <3>2. CASE VprintfAgain(p)
      <4>1. p \in Busy
        BY <3>2 DEF VprintfAgain, Busy
      <4>2. printer[p].len \in LineLens
        BY <4>1 DEF LogInv, LinesInv
      <4> QED BY <3>2, <4>2 DEF VprintfAgain
    <3> QED BY <1>1, <3>1, <3>2
  <2> QED BY <2>1, <2>2, OthersKeepFiles
<1>2. CASE WorkWrite \/ WorkWriteExt \/ WorkReportDropped
  BY <1>2, WritesKeepFiles
<1>3. CASE WorkTop \/ Close \/ Tick
  BY <1>3, TidyKeepsFiles
<1>4. CASE Gzip
  BY <1>4, GzipKeepsFiles
<1>5. CASE WorkPick \/ WorkSignalled \/ WorkTimeout \/ WorkRelease \/ Exit \/ Done \/ UNCHANGED vars
  <2>1. fs' = fs /\ ghost' = ghost
    BY <1>5 DEF WorkPick, WorkSignalled, WorkTimeout, WorkRelease, Exit, Done, vars
  <2> QED BY <2>1, OthersKeepFiles
<1> QED BY <1>1, <1>2, <1>3, <1>4, <1>5 DEF Next, Work

(***************************************************************************)
(* Rotation loses no byte that was written, duplicates none and changes no *)
(* order, and keeps at most one archive too many, for files of any size,   *)
(* whichever of open, vfork and gzip fail, and whatever an earlier process *)
(* left (_tlog_archive_log, _tlog_wait_pid, _tlog_write_log).              *)
(***************************************************************************)
THEOREM FilesAreKept == Spec => []FilesKept
<1>1. LogInv /\ FilesInv => FilesKept
  BY DEF FilesKept, RotationKeeps, ArchivesBounded, FilesInv, FileInv
<1> QED BY <1>1, LogInit, LogKeeps, FilesInit, FilesKeeps, PTL DEF Spec

=============================================================================
