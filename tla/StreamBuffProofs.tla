-------------------------- MODULE StreamBuffProofs --------------------------
(***************************************************************************)
(* Proofs about StreamBuff for every number of records, size of the data   *)
(* area, set of frame lengths and set of readers.                          *)
(***************************************************************************)
EXTENDS StreamBuff, TLAPS

-----------------------------------------------------------------------------
(* Arithmetic of the circular table *)

(* The quotient and remainder by which a frame number finds its record. *)
LEMMA DivMod ==
  ASSUME NEW n \in Nat
  PROVE  /\ SlotOf(n) \in Slots
         /\ n \div MaxValidFrames \in Nat
         /\ n = MaxValidFrames * (n \div MaxValidFrames) + SlotOf(n)
BY RingAssumption DEF SlotOf, Slots

(* Two frames fewer than a table apart have different records. *)
LEMMA SlotDistinct ==
  ASSUME NEW m \in Nat, NEW n \in Nat, m < n, n < m + MaxValidFrames
  PROVE  SlotOf(m) # SlotOf(n)
<1> DEFINE N == MaxValidFrames
           a == m \div N
           b == n \div N
<1>1. N \in Nat /\ N >= 3
  BY RingAssumption
<1>2. /\ a \in Nat /\ b \in Nat
      /\ m = N * a + SlotOf(m) /\ n = N * b + SlotOf(n)
      /\ SlotOf(m) \in 0 .. N - 1 /\ SlotOf(n) \in 0 .. N - 1
  BY DivMod DEF Slots
<1> HIDE DEF N, a, b
<1>3. SUFFICES ASSUME SlotOf(m) = SlotOf(n) PROVE FALSE
  OBVIOUS
<1>4. N * b - N * a > 0 /\ N * b - N * a < N
  <2>1. /\ N * a \in Int /\ N * b \in Int
    BY <1>1, <1>2
  <2> QED BY <2>1, <1>2, <1>3, <1>1 DEF N
<1>5. N * (b - a) > 0 /\ N * (b - a) < N
  <2>1. N * (b - a) = N * b - N * a
    BY <1>1, <1>2
  <2> QED BY <2>1, <1>4
<1>6. CASE b - a >= 1
  <2>1. N * (b - a) >= N
    BY <1>6, <1>1, <1>2
  <2> QED BY <2>1, <1>5, <1>1, <1>2
<1>7. CASE b - a <= 0
  <2>1. N * (b - a) <= 0
    BY <1>7, <1>1, <1>2
  <2> QED BY <2>1, <1>5, <1>1, <1>2
<1> QED BY <1>6, <1>7, <1>2

(* The record after that of frame n is the record of frame n + 1. *)
LEMMA SlotNext ==
  ASSUME NEW n \in Nat
  PROVE  (SlotOf(n) + 1) % MaxValidFrames = SlotOf(n + 1)
<1> DEFINE N == MaxValidFrames
           a == n \div N
           s == SlotOf(n)
<1>1. N \in Nat /\ N >= 3
  BY RingAssumption
<1>2. a \in Nat /\ n = N * a + s /\ s \in 0 .. N - 1
  BY DivMod DEF Slots
<1> HIDE DEF a, s
<1>3. CASE s + 1 < N
  <2>1. (s + 1) % N = s + 1
    BY <1>1, <1>2, <1>3
  <2>2. (N * a + (s + 1)) % N = s + 1
    BY <1>1, <1>2, <1>3
  <2> QED BY <2>1, <2>2, <1>2, <1>1 DEF SlotOf, s
<1>4. CASE s + 1 = N
  <2>1. (s + 1) % N = 0
    BY <1>1, <1>4
  <2>2. n + 1 = N * (a + 1)
    BY <1>1, <1>2, <1>4
  <2>3. (N * (a + 1)) % N = 0
    BY <1>1, <1>2
  <2> QED BY <2>1, <2>2, <2>3 DEF SlotOf, s
<1> QED BY <1>1, <1>2, <1>3, <1>4

-----------------------------------------------------------------------------
(* The jumps of a reader *)

LEMMA TheMember ==
  ASSUME NEW S, S # {}
  PROVE  The(S) \in S
BY DEF The

(* The types of the ring, without those of the readers. *)
RingTypes ==
  /\ written \in Nat
  /\ frames \in [Slots -> SmemoryFrame]

(***************************************************************************)
(* A jump to the oldest key frame lands on a frame already written and,    *)
(* for a reader behind the writer, never behind the reader.                *)
(***************************************************************************)
LEMMA OldestLands ==
  ASSUME RingTypes, NEW cnt \in Nat, written > 0
  PROVE  LET j == JumpToOldestIFrame(cnt)
         IN \/ j = NotFound
            \/ j \in Nat /\ j < written /\ (cnt < written => cnt <= j)
<1> DEFINE hits  == {i \in Slots : /\ IsKey(written + i)
                                   /\ ~(OldestAt(i) < cnt /\ cnt < written)}
           first == {i \in hits : \A k \in hits : i <= k}
<1>1. CASE first = {}
  BY <1>1 DEF JumpToOldestIFrame, RingTypes
<1>2. CASE first # {}
  <2>1. The(first) \in first
    BY <1>2, TheMember
  <2>2. JumpToOldestIFrame(cnt) = OldestAt(The(first))
    BY <1>2 DEF JumpToOldestIFrame, RingTypes
  <2> DEFINE i == The(first)
  <2>3. i \in Slots /\ ~(OldestAt(i) < cnt /\ cnt < written)
    BY <2>1
  <2> HIDE DEF i
  <2>4. OldestAt(i) \in Nat /\ OldestAt(i) < written
    BY <2>3, RingAssumption DEF OldestAt, Slots, RingTypes
  <2> QED BY <2>2, <2>3, <2>4 DEF i, RingTypes
<1> QED BY <1>1, <1>2

(* A jump to the newest key frame lands after the reader, on a frame already written. *)
LEMMA NewestLands ==
  ASSUME RingTypes, NEW cnt \in Nat, cnt < written
  PROVE  LET j == JumpTonewestIFrame(cnt)
         IN j = NotFound \/ (j \in Nat /\ cnt < j /\ j < written)
<1> DEFINE low  == IF written > cnt THEN cnt ELSE written - MaxValidFrames
           hits == {i \in 0 .. written - 1 : low < i /\ IsKey(i)}
           last == {i \in hits : \A k \in hits : k <= i}
<1>1. low = cnt /\ written # 0
  BY DEF RingTypes
<1>2. CASE last = {} \/ \A i \in last : i < cnt
  BY <1>1, <1>2 DEF JumpTonewestIFrame
<1>3. CASE ~(last = {} \/ \A i \in last : i < cnt)
  <2>1. The(last) \in last
    BY <1>3, TheMember
  <2>2. JumpTonewestIFrame(cnt) = The(last)
    BY <1>1, <1>3 DEF JumpTonewestIFrame
  <2>3. The(last) \in 0 .. written - 1 /\ cnt < The(last)
    BY <2>1, <1>1
  <2> QED BY <2>2, <2>3 DEF RingTypes
<1> QED BY <1>2, <1>3

(* What a reader that still wants its first key frame has done so far. *)
Waiting(cnt) == cnt = 0 \/ cnt + JumpBack <= written

(* Where the checks of a get may leave a reader that was at cnt. *)
SeekOK(cnt, s) ==
  /\ s.cnt \in Nat /\ s.breIframe \in BOOLEAN /\ s.go \in BOOLEAN
  /\ cnt <= s.cnt /\ s.cnt < written
  /\ s.breIframe => Waiting(s.cnt) /\ ~s.go

LEMMA SeekValidOK ==
  ASSUME RingTypes, NEW cnt \in Nat, cnt < written
  PROVE  SeekOK(cnt, SeekValid(cnt))
<1> DEFINE to == IF frames[SlotOf(cnt)].valid THEN cnt ELSE JumpToOldestIFrame(cnt)
<1>1. to = NotFound \/ (to \in Nat /\ to < written /\ cnt <= to)
  BY OldestLands DEF RingTypes
<1>2. SeekValid(cnt) = IF to = NotFound THEN Ends(cnt, FALSE)
                       ELSE [cnt |-> to, breIframe |-> FALSE,
                             go |-> frames[SlotOf(to)].len <= MaxFrameLen]
  BY DEF SeekValid
<1> HIDE DEF to
<1>3. CASE to = NotFound
  BY <1>2, <1>3 DEF SeekOK, Ends
<1>4. CASE to # NotFound
  <2>1. SeekValid(cnt) = [cnt |-> to, breIframe |-> FALSE,
                          go |-> frames[SlotOf(to)].len <= MaxFrameLen]
    BY <1>2, <1>4
  <2>2. (frames[SlotOf(to)].len <= MaxFrameLen) \in BOOLEAN
    OBVIOUS
  <2> QED BY <2>1, <2>2, <1>1, <1>4 DEF SeekOK
<1> QED BY <1>3, <1>4

LEMMA SeekKeyOK ==
  ASSUME RingTypes, NEW cnt \in Nat, cnt < written,
         NEW old \in Nat, old = cnt \/ JumpBack <= written, Waiting(old)
  PROVE  SeekOK(old, SeekKey(cnt))
<1> DEFINE from == IF written >= JumpBack THEN written - JumpBack ELSE cnt
           to == JumpTonewestIFrame(from)
<1>1. from \in Nat /\ from < written /\ old <= from /\ Waiting(from)
  BY RingAssumption DEF Waiting, RingTypes
<1>2. SeekKey(cnt) = IF to = NotFound THEN Ends(from, TRUE) ELSE SeekValid(to)
  BY DEF SeekKey
<1>3. to = NotFound \/ (to \in Nat /\ from < to /\ to < written)
  BY <1>1, NewestLands
<1> HIDE DEF from, to
<1>4. CASE to = NotFound
  BY <1>1, <1>2, <1>4 DEF SeekOK, Ends
<1>5. CASE to # NotFound
  <2>1. SeekOK(to, SeekValid(to))
    BY <1>3, <1>5, SeekValidOK
  <2> QED BY <2>1, <1>1, <1>2, <1>3, <1>5 DEF SeekOK
<1> QED BY <1>4, <1>5

LEMMA SeekLands ==
  ASSUME RingTypes, NEW cnt \in Nat, cnt < written,
         NEW want \in BOOLEAN, want => Waiting(cnt)
  PROVE  SeekOK(cnt, Seek(cnt, want))
<1> DEFINE to == IF written - cnt > MaxValidFrames THEN JumpToOldestIFrame(cnt) ELSE cnt
<1>1. Seek(cnt, want) = IF to = NotFound THEN Ends(cnt, want) ELSE SeekFrom(to, want)
  BY DEF Seek, SeekBehind, RingTypes
<1>2. to = NotFound \/ (to \in Nat /\ cnt <= to /\ to < written)
  BY OldestLands DEF RingTypes
<1>3. to = cnt \/ JumpBack <= written
  BY RingAssumption DEF RingTypes
<1> HIDE DEF to
<1>4. CASE to = NotFound
  BY <1>1, <1>4 DEF SeekOK, Ends
<1>5. CASE to # NotFound /\ want
  <2>1. SeekOK(cnt, SeekKey(to))
    BY <1>2, <1>3, <1>5, SeekKeyOK
  <2> QED BY <2>1, <1>1, <1>5 DEF SeekFrom
<1>6. CASE to # NotFound /\ ~want
  <2>1. SeekOK(to, SeekValid(to))
    BY <1>2, <1>6, SeekValidOK
  <2> QED BY <2>1, <1>1, <1>2, <1>6 DEF SeekFrom, SeekOK
<1> QED BY <1>4, <1>5, <1>6

-----------------------------------------------------------------------------
(* The readers *)

(* With the types, this is inductive: it is NeverAhead, and what NeverBack needs. *)
ReaderInv ==
  \A r \in Readers :
    /\ rd[r].cnt <= written
    /\ rd[r].pc \in {"copy", "copied"} => rd[r].cnt < written /\ ~rd[r].breIframe
    /\ rd[r].breIframe => Waiting(rd[r].cnt)

(* The bytes a reader copies are those of places of the data area. *)
LEMMA ReadBytesType ==
  ASSUME TypeOK, NEW f \in SmemoryFrame
  PROVE  ReadBytes(f) \in Seq(Int)
<1>1. \A k \in 1 .. f.len : PlaceAt(f.position, k - 1) \in Places
  BY RingAssumption DEF SmemoryFrame, PlaceAt, Places
<1>2. \A c \in Places : data[c] \in Int
  BY DEF TypeOK, Junk
<1>3. ReadBytes(f) \in [1 .. f.len -> Int]
  BY <1>1, <1>2 DEF ReadBytes
<1>4. f.len \in Nat
  BY RingAssumption DEF SmemoryFrame
<1> QED BY <1>3, <1>4

LEMMA TypeInit == Init => TypeOK /\ ReaderInv
<1> SUFFICES ASSUME Init PROVE TypeOK /\ ReaderInv
  OBVIOUS
<1>1. BlankFrame \in SmemoryFrame
  BY RingAssumption DEF BlankFrame, SmemoryFrame, Places
<1>2. TypeOK
  <2>1. IdleWriter \in Writer
    BY RingAssumption DEF IdleWriter, Writer, Places
  <2>2. rd \in [Readers -> MemReader]
    <3>1. << >> \in Seq(Int)
      OBVIOUS
    <3> QED BY <3>1 DEF Init, MemReader
  <2>3. written \in Nat
    BY DEF Init, InitMemoryParam
  <2>4. data \in [Places -> Nat \cup {Junk}]
    BY DEF Init, InitMemoryParam
  <2> QED BY <1>1, <2>1, <2>2, <2>3, <2>4 DEF Init, InitMemoryParam, TypeOK
<1>3. ReaderInv
  <2>1. \A r \in Readers : rd[r].cnt = 0 /\ rd[r].pc = "off"
    BY DEF Init
  <2>2. written = 0
    BY DEF Init, InitMemoryParam
  <2>3. ASSUME NEW r \in Readers PROVE rd[r].cnt <= written
    <3>1. rd[r].cnt = 0
      BY <2>1
    <3> QED BY <3>1, <2>2
  <2>4. \A r \in Readers : rd[r].pc \notin {"copy", "copied"}
    BY <2>1
  <2>5. \A r \in Readers : Waiting(rd[r].cnt)
    BY <2>1 DEF Waiting
  <2> QED BY <2>3, <2>4, <2>5 DEF ReaderInv
<1> QED BY <1>2, <1>3

(* A put leaves the readers where they are; the ring keeps its types. *)
LEMMA PutTypes ==
  ASSUME TypeOK, Put
  PROVE  TypeOK' /\ rd' = rd /\ written <= written'
<1>1. WriteSlot \in Slots /\ written \in Nat
  BY DivMod, RingAssumption DEF TypeOK, WriteSlot
<1>2. ASSUME NEW len \in Lens, PutTooBig(len)
      PROVE  TypeOK' /\ rd' = rd /\ written <= written'
  BY <1>1, <1>2 DEF PutTooBig, TypeOK, vars
<1>3. ASSUME NEW len \in Lens, NEW type \in FrameTypes, PutCopy(len, type)
      PROVE  TypeOK' /\ rd' = rd /\ written <= written'
  <2> DEFINE p == frames[WriteSlot].position
  <2>1. p \in Places /\ len \in Nat /\ len < DataSize
    BY <1>1, <1>3, RingAssumption DEF PutCopy, TypeOK, SmemoryFrame
  <2>2. wr' \in Writer
    <3>1. PlaceAt(p, len) \in Places
      BY <2>1, RingAssumption DEF PlaceAt, Places
    <3>2. (IF p + len <= DataSize THEN p + len ELSE p + len - DataSize) \in 0 .. DataSize
      BY <2>1, RingAssumption DEF Places
    <3> QED BY <1>3, <2>1, <3>1, <3>2, RingAssumption DEF PutCopy, Writer
  <2>3. data' \in [Places -> Nat \cup {Junk}]
    <3>1. \A c \in Places : LET k == IF c >= p THEN c - p ELSE c + DataSize - p
                            IN k \in Nat
      BY <2>1, RingAssumption DEF Places
    <3> QED BY <1>3, <3>1 DEF PutCopy, Copied, TypeOK
  <2>4. total' \in Nat /\ lap' \in Nat
    BY <1>3, <2>1, RingAssumption DEF PutCopy, TypeOK
  <2> QED BY <1>1, <1>3, <2>2, <2>3, <2>4 DEF PutCopy, TypeOK
<1>4. CASE PutFill
  <2>1. frames' \in [Slots -> SmemoryFrame]
    <3>1. [frames[WriteSlot] EXCEPT !.len = wr.len, !.type = wr.type, !.valid = TRUE,
                                    !.no = written, !.abs = total - wr.len]
            \in SmemoryFrame
      <4>1. /\ frames[WriteSlot] \in SmemoryFrame
            /\ wr.len \in 0 .. DataSize /\ wr.type \in FrameTypes
            /\ written \in Int /\ total - wr.len \in Int
        BY <1>1, RingAssumption DEF TypeOK, Writer
      <4> QED BY <4>1 DEF SmemoryFrame
    <3> QED BY <3>1, <1>1, <1>4 DEF PutFill, TypeOK
  <2>2. wr' \in Writer
    BY <1>4 DEF PutFill, TypeOK, Writer
  <2> QED BY <1>1, <1>4, <2>1, <2>2 DEF PutFill, TypeOK
<1>5. CASE PutCover
  <2>1. frames' \in [Slots -> SmemoryFrame]
    <3>1. ASSUME NEW i \in Slots
          PROVE  [frames[i] EXCEPT !.valid = @ /\ i \notin CoveredSlots,
                                   !.position = IF i = NextSlot THEN wr.next ELSE @]
                   \in SmemoryFrame
      <4>1. frames[i] \in SmemoryFrame /\ wr.next \in Places
        BY DEF TypeOK, Writer
      <4>2. (frames[i].valid /\ i \notin CoveredSlots) \in BOOLEAN
        OBVIOUS
      <4> QED BY <4>1, <4>2 DEF SmemoryFrame
    <3> QED BY <1>5, <3>1 DEF PutCover
  <2>2. data' \in [Places -> Nat \cup {Junk}]
    BY <1>5 DEF PutCover, TypeOK
  <2>3. wr' \in Writer
    BY <1>5 DEF PutCover, TypeOK, Writer
  <2>4. UNCHANGED <<written, rd, total, lap>>
    BY <1>5 DEF PutCover
  <2> QED BY <1>1, <2>1, <2>2, <2>3, <2>4 DEF TypeOK
<1>6. CASE PutCount
  <2>1. wr' \in Writer
    BY <1>6, RingAssumption DEF PutCount, IdleWriter, Writer, Places
  <2> QED BY <1>1, <1>6, <2>1 DEF PutCount, TypeOK
<1> QED BY <1>2, <1>3, <1>4, <1>5, <1>6 DEF Put

LEMMA ReaderTypes ==
  ASSUME TypeOK, ReaderInv, NEW r \in Readers, Attach(r) \/ Detach(r) \/ Get(r)
  PROVE  /\ TypeOK' /\ ReaderInv'
         /\ \A q \in Readers : rd'[q].cnt >= rd[q].cnt
<1>1. /\ UNCHANGED <<written, frames, data, wr, total, lap>>
      /\ \A q \in Readers \ {r} : rd'[q] = rd[q]
  BY DEF Attach, Detach, Get, GetSeek, GetCopy, GetReturn, TypeOK
<1>2. rd[r] \in MemReader /\ rd[r].cnt \in Nat /\ written \in Nat
  BY DEF TypeOK, MemReader
<1>3. SUFFICES /\ rd' \in [Readers -> MemReader]
               /\ rd'[r].cnt <= written /\ rd'[r].cnt >= rd[r].cnt
               /\ rd'[r].pc \in {"copy", "copied"} => rd'[r].cnt < written /\ ~rd'[r].breIframe
               /\ rd'[r].breIframe => Waiting(rd'[r].cnt)
  <2>1. TypeOK'
    BY <1>1, <1>3 DEF TypeOK
  <2>2. ReaderInv'
    <3>1. ASSUME NEW q \in Readers
          PROVE  /\ rd'[q].cnt <= written'
                 /\ rd'[q].pc \in {"copy", "copied"} => rd'[q].cnt < written' /\ ~rd'[q].breIframe
                 /\ rd'[q].breIframe => Waiting(rd[q].cnt)'
      <4>1. CASE q = r
        BY <1>1, <1>3, <4>1 DEF Waiting
      <4>2. CASE q # r
        <5>1. rd'[q] = rd[q]
          BY <1>1, <4>2
        <5> QED BY <1>1, <5>1 DEF ReaderInv, Waiting
      <4> QED BY <4>1, <4>2
    <3> QED BY <3>1 DEF ReaderInv
  <2>3. \A q \in Readers : rd'[q].cnt >= rd[q].cnt
    <3>1. ASSUME NEW q \in Readers, q # r PROVE rd'[q].cnt >= rd[q].cnt
      <4>1. rd'[q] = rd[q] /\ rd[q].cnt \in Nat
        BY <1>1, <3>1 DEF TypeOK, MemReader
      <4> QED BY <4>1
    <3> QED BY <3>1, <1>3
  <2> QED BY <2>1, <2>2, <2>3
<1>4. CASE Attach(r) \/ Detach(r)
  <2>1. rd' \in [Readers -> MemReader]
    <3>1. PICK pc \in {"idle", "gone"} : rd' = [rd EXCEPT ![r].pc = pc]
      BY <1>4 DEF Attach, Detach
    <3>2. [rd[r] EXCEPT !.pc = pc] \in MemReader
      BY <1>2 DEF MemReader
    <3> QED BY <3>1, <3>2 DEF TypeOK
  <2>2. /\ rd'[r].cnt = rd[r].cnt /\ rd'[r].breIframe = rd[r].breIframe
        /\ rd'[r].pc \in {"idle", "gone"}
    BY <1>2, <1>4 DEF Attach, Detach, TypeOK, MemReader
  <2> QED BY <1>2, <2>1, <2>2 DEF ReaderInv
<1>5. CASE GetSeek(r)
  <2> DEFINE s == Seek(rd[r].cnt, rd[r].breIframe)
  <2>1. SeekOK(rd[r].cnt, s)
    <3>1. RingTypes /\ rd[r].cnt < written /\ rd[r].breIframe \in BOOLEAN
      BY <1>2, <1>5 DEF TypeOK, RingTypes, ReaderInv, GetSeek, MemReader
    <3> QED BY <3>1, <1>2, SeekLands DEF ReaderInv
  <2> HIDE DEF s
  <2>2. rd' = [rd EXCEPT ![r] = [@ EXCEPT !.cnt = s.cnt, !.breIframe = s.breIframe,
                                  !.pc = IF s.go THEN "copy" ELSE "idle"]]
    BY <1>5 DEF GetSeek, s
  <2>3. [rd[r] EXCEPT !.cnt = s.cnt, !.breIframe = s.breIframe,
                      !.pc = IF s.go THEN "copy" ELSE "idle"] \in MemReader
    BY <1>2, <2>1 DEF SeekOK, MemReader
  <2>4. rd' \in [Readers -> MemReader]
    BY <2>2, <2>3 DEF TypeOK
  <2>5. /\ rd'[r].cnt = s.cnt /\ rd'[r].breIframe = s.breIframe
        /\ rd'[r].pc = IF s.go THEN "copy" ELSE "idle"
    BY <2>2, <1>2 DEF TypeOK, MemReader
  <2> QED BY <1>2, <2>1, <2>4, <2>5 DEF SeekOK
<1>6. CASE GetCopy(r)
  <2>1. ReadBytes(frames[SlotOf(rd[r].cnt)]) \in Seq(Int)
    BY <1>2, DivMod, ReadBytesType DEF TypeOK
  <2>2. rd' \in [Readers -> MemReader]
    BY <1>2, <1>6, <2>1 DEF GetCopy, TypeOK, MemReader
  <2>3. rd'[r].cnt = rd[r].cnt /\ rd'[r].breIframe = rd[r].breIframe /\ rd[r].pc = "copy"
    BY <1>2, <1>6 DEF GetCopy, TypeOK, MemReader
  <2> QED BY <1>2, <2>2, <2>3 DEF ReaderInv
<1>7. CASE GetReturn(r)
  <2>1. << >> \in Seq(Int)
    OBVIOUS
  <2>2. rd' \in [Readers -> MemReader]
    BY <1>2, <1>7, <2>1 DEF GetReturn, TypeOK, MemReader
  <2>3. /\ rd'[r].cnt = rd[r].cnt + 1 /\ rd'[r].breIframe = rd[r].breIframe
        /\ rd[r].pc = "copied" /\ rd'[r].pc = "idle"
    BY <1>2, <1>7 DEF GetReturn, TypeOK, MemReader
  <2> QED BY <1>2, <2>2, <2>3 DEF ReaderInv
<1> QED BY <1>4, <1>5, <1>6, <1>7 DEF Get

LEMMA ReaderStep ==
  TypeOK /\ ReaderInv /\ [Next]_vars =>
    /\ TypeOK' /\ ReaderInv'
    /\ \A r \in Readers : rd'[r].cnt >= rd[r].cnt
<1> SUFFICES ASSUME TypeOK, ReaderInv, [Next]_vars
             PROVE  /\ TypeOK' /\ ReaderInv'
                    /\ \A r \in Readers : rd'[r].cnt >= rd[r].cnt
  OBVIOUS
<1>1. \A r \in Readers : rd[r].cnt \in Nat
  BY DEF TypeOK, MemReader
<1>2. ASSUME TypeOK', rd' = rd, written <= written'
      PROVE  ReaderInv' /\ \A r \in Readers : rd'[r].cnt >= rd[r].cnt
  <2>1. written \in Nat /\ written' \in Nat
    BY <1>2 DEF TypeOK
  <2>2. \A r \in Readers : Waiting(rd[r].cnt) => Waiting(rd[r].cnt)'
    BY <1>1, <1>2, <2>1, RingAssumption DEF Waiting
  <2> QED BY <1>1, <1>2, <2>1, <2>2 DEF ReaderInv
<1>3. CASE UNCHANGED vars
  <2>1. TypeOK' /\ rd' = rd /\ written <= written'
    BY <1>3 DEF vars, TypeOK
  <2> QED BY <2>1, <1>2
<1>4. CASE Put
  BY <1>4, <1>2, PutTypes
<1>5. ASSUME NEW r \in Readers, Attach(r) \/ Detach(r) \/ Get(r)
      PROVE  /\ TypeOK' /\ ReaderInv'
             /\ \A q \in Readers : rd'[q].cnt >= rd[q].cnt
  BY <1>5, ReaderTypes
<1> QED BY <1>3, <1>4, <1>5 DEF Next

LEMMA ReaderInvariant == Spec => [](TypeOK /\ ReaderInv)
BY TypeInit, ReaderStep, PTL DEF Spec

(***************************************************************************)
(* Every variable keeps its type: every position is a place of the data    *)
(* area and no reader's count goes below zero, whatever the ring's sizes.  *)
(***************************************************************************)
THEOREM TypeCorrect == Spec => []TypeOK
BY ReaderInvariant, PTL

(***************************************************************************)
(* No reader is ever ahead of the writer: the branch that stream_buff.c    *)
(* calls impossible (lines 403 to 410) cannot be reached through           *)
(* GetOneFrameFromBuff, for any interleaving and any number of readers.    *)
(***************************************************************************)
THEOREM ReadersNeverAhead == Spec => []NeverAhead
<1>1. TypeOK /\ ReaderInv => NeverAhead
  BY DEF ReaderInv, NeverAhead
<1> QED BY <1>1, ReaderInvariant, PTL

(***************************************************************************)
(* No call moves a reader backwards, through either jump of                *)
(* GetOneFrameFromBuff.                                                    *)
(***************************************************************************)
THEOREM ReadersNeverBack == Spec => NeverBack
<1>1. TypeOK /\ ReaderInv /\ [Next]_vars
        => [\A r \in Readers : rd'[r].cnt >= rd[r].cnt]_vars
  BY ReaderStep
<1> QED BY <1>1, ReaderInvariant, PTL DEF Spec, NeverBack

-----------------------------------------------------------------------------
(* The writer and the data area *)

(***************************************************************************)
(* Where the next byte goes.  `lap' is the number of the byte last put at  *)
(* place 0, so the position the writer carries from record to record is    *)
(* always total - lap; written so, no multiple of DataSize is needed.      *)
(***************************************************************************)
WriterInv ==
  /\ lap <= total /\ total < lap + DataSize
  /\ wr.pc = "idle" => frames[SlotOf(written)].position = total - lap
  /\ wr.pc \in {"fill", "cover"} => wr.next = total - lap
  /\ wr.pc = "count" => frames[SlotOf(written + 1)].position = total - lap
  /\ wr.pc = "fill" => /\ wr.len <= total
                       /\ frames[SlotOf(written)].position = PlaceOf(total - wr.len)

(* Frames whose record has been filled. *)
Filled == IF wr.pc \in {"cover", "count"} THEN written + 1 ELSE written

(* A filled record the writer has not come round to leads to the bytes of its frame. *)
SlotOK(n) ==
  LET f == frames[SlotOf(n)]
  IN /\ f.no = n
     /\ 0 <= f.abs /\ f.abs + f.len <= total
     /\ total - f.abs <= DataSize => f.position = PlaceOf(f.abs)

SlotInv ==
  \A n \in 0 .. written : n < Filled /\ Claimed - n < MaxValidFrames => SlotOK(n)

RingInv == WriterInv /\ RingHoldsTail /\ SlotInv /\ DeliveredIntact

(* k places after the place of byte n is the place of byte n + k. *)
LEMMA PlaceShift ==
  ASSUME TypeOK, WriterInv, NEW n \in Nat, NEW k \in Nat,
         n + k < total, total - n <= DataSize
  PROVE  PlaceAt(PlaceOf(n), k) = PlaceOf(n + k)
BY RingAssumption DEF TypeOK, WriterInv, PlaceAt, PlaceOf

(* A byte still in the ring is at its place, or was cleared. *)
LEMMA PlaceHolds ==
  ASSUME TypeOK, WriterInv, RingHoldsTail, NEW n \in Nat,
         n < total, total - n <= DataSize
  PROVE  data[PlaceOf(n)] \in {n, Junk}
<1> DEFINE c == PlaceOf(n)
<1>1. /\ c \in Places
      /\ n = IF c < total - lap THEN lap + c ELSE lap + c - DataSize
  BY RingAssumption DEF TypeOK, WriterInv, PlaceOf, Places
<1> HIDE DEF c
<1>2. data[c] \in {Junk, IF c < total - lap THEN lap + c ELSE lap + c - DataSize}
  BY <1>1 DEF RingHoldsTail
<1> QED BY <1>1, <1>2 DEF c

LEMMA RecordTypes ==
  ASSUME TypeOK, NEW n \in Nat
  PROVE  /\ SlotOf(n) \in Slots
         /\ frames[SlotOf(n)].abs \in Int /\ frames[SlotOf(n)].len \in Nat
         /\ frames[SlotOf(n)].no \in Int /\ frames[SlotOf(n)].position \in Places
<1>1. SlotOf(n) \in Slots
  BY DivMod
<1>2. frames[SlotOf(n)] \in SmemoryFrame
  BY <1>1 DEF TypeOK
<1> QED BY <1>1, <1>2, RingAssumption DEF SmemoryFrame

LEMMA RingInit == Init => RingInv
<1> SUFFICES ASSUME Init PROVE RingInv
  OBVIOUS
<1>1. TypeOK
  BY TypeInit
<1>2. /\ written = 0 /\ total = 0 /\ lap = 0 /\ wr.pc = "idle"
      /\ \A i \in Slots : frames[i].position = 0
      /\ \A c \in Places : data[c] = Junk
      /\ \A r \in Readers : rd[r].pc = "off"
  BY DEF Init, InitMemoryParam, BlankFrame, IdleWriter
<1>3. SlotOf(0) \in Slots
  BY DivMod
<1>4. WriterInv
  BY <1>2, <1>3, RingAssumption DEF WriterInv
<1>5. RingHoldsTail
  BY <1>2 DEF RingHoldsTail
<1>6. SlotInv
  BY <1>2 DEF SlotInv, Filled
<1>7. DeliveredIntact
  BY <1>2 DEF DeliveredIntact
<1> QED BY <1>4, <1>5, <1>6, <1>7 DEF RingInv

(* The copy of a frame: bytes land in place, and older frames still in the ring stay put. *)
LEMMA CopyKeepsRing ==
  ASSUME TypeOK, RingInv, NEW len \in Lens, NEW type \in FrameTypes, PutCopy(len, type)
  PROVE  RingInv'
<1> DEFINE p == total - lap
<1>1. /\ written \in Nat /\ total \in Nat /\ lap \in Nat /\ DataSize \in Nat
      /\ len \in Nat /\ len < DataSize
      /\ p \in Places /\ p = frames[WriteSlot].position
      /\ lap <= total /\ total < lap + DataSize
      /\ wr.pc = "idle"
  BY RingAssumption DEF TypeOK, RingInv, WriterInv, PutCopy, WriteSlot, Places
<1>2. /\ total' = total + len
      /\ lap' = IF p + len < DataSize THEN lap ELSE lap + DataSize
      /\ data' = Copied(p, len)
      /\ wr'.pc = "fill" /\ wr'.len = len /\ wr'.next = PlaceAt(p, len)
      /\ written' = written /\ frames' = frames /\ rd' = rd
  BY <1>1 DEF PutCopy
<1> HIDE DEF p
<1>3. WriterInv'
  <2>1. lap' <= total' /\ total' < lap' + DataSize
    BY <1>1, <1>2 DEF p, Places
  <2>2. PlaceAt(p, len) = total' - lap'
    BY <1>1, <1>2 DEF p, Places, PlaceAt
  <2>3. p = PlaceOf(total - wr.len)'
    BY <1>1, <1>2 DEF p, Places, PlaceOf
  <2>4. frames'[SlotOf(written)'].position = p
    BY <1>1, <1>2 DEF WriteSlot, SlotOf
  <2> QED BY <1>1, <1>2, <2>1, <2>2, <2>3, <2>4 DEF WriterInv, PlaceOf
<1>4. RingHoldsTail'
  <2>1. ASSUME NEW c \in Places
        PROVE  data'[c] \in {Junk, IF c < total' - lap' THEN lap' + c ELSE lap' + c - DataSize}
    <3> DEFINE k == IF c >= p THEN c - p ELSE c + DataSize - p
    <3>1. data'[c] = IF k < len THEN total + k ELSE data[c]
      BY <1>2 DEF Copied
    <3>2. data[c] \in {Junk, IF c < total - lap THEN lap + c ELSE lap + c - DataSize}
      BY DEF RingInv, RingHoldsTail
    <3>3. CASE k < len
      <4>1. total + k = IF c < total' - lap' THEN lap' + c ELSE lap' + c - DataSize
        BY <1>1, <1>2, <3>3 DEF p, Places
      <4> QED BY <3>1, <3>3, <4>1
    <3>4. CASE ~(k < len)
      <4>1. (IF c < total - lap THEN lap + c ELSE lap + c - DataSize)
              = IF c < total' - lap' THEN lap' + c ELSE lap' + c - DataSize
        BY <1>1, <1>2, <3>4 DEF p, Places
      <4> QED BY <3>1, <3>2, <3>4, <4>1
    <3> QED BY <3>3, <3>4
  <2> QED BY <2>1 DEF RingHoldsTail
<1>5. SlotInv'
  <2>1. ASSUME NEW n \in 0 .. written, n < Filled', Claimed' - n < MaxValidFrames
        PROVE  SlotOK(n)'
    <3>1. n < Filled /\ Claimed - n < MaxValidFrames
      BY <1>1, <1>2, <2>1, RingAssumption DEF Filled, Claimed
    <3>2. SlotOK(n)
      BY <3>1 DEF RingInv, SlotInv
    <3> DEFINE f == frames[SlotOf(n)]
    <3>3. frames'[SlotOf(n)'] = f /\ f.abs \in Int /\ f.len \in Nat /\ f.position \in Int
      <4>1. n \in Nat
        BY <1>1
      <4>2. frames'[SlotOf(n)'] = f
        BY <1>2 DEF SlotOf
      <4> QED BY <4>1, <4>2, <1>1, RecordTypes DEF Places
    <3> HIDE DEF f
    <3>4. total' - f.abs <= DataSize => f.position = IF f.abs >= lap' THEN f.abs - lap' ELSE f.abs - lap' + DataSize
      <4>1. total - f.abs <= DataSize => f.position = PlaceOf(f.abs)
        BY <3>2 DEF SlotOK, f
      <4>2. f.abs + f.len <= total
        BY <3>2 DEF SlotOK, f
      <4> QED BY <1>1, <1>2, <3>3, <4>1, <4>2 DEF PlaceOf, p, Places
    <3>5. f.no = n /\ 0 <= f.abs /\ f.abs + f.len <= total'
      BY <1>1, <1>2, <3>2, <3>3 DEF SlotOK, f
    <3> QED BY <3>3, <3>4, <3>5 DEF SlotOK, PlaceOf
  <2> QED BY <2>1, <1>2 DEF SlotInv
<1>6. DeliveredIntact'
  <2>1. ASSUME NEW r \in Readers, rd[r].pc = "copied", NotLapped(r)'
        PROVE  NotLapped(r)
    <3>1. rd[r].cnt \in Nat /\ frames[SlotOf(rd[r].cnt)].abs \in Int
      BY DivMod DEF TypeOK, MemReader, SmemoryFrame
    <3> QED BY <1>1, <1>2, <2>1, <3>1, RingAssumption DEF NotLapped, Claimed, SlotOf
  <2> QED BY <1>2, <2>1 DEF RingInv, DeliveredIntact, SlotOf
<1> QED BY <1>3, <1>4, <1>5, <1>6 DEF RingInv

(* Filling the record: it is the record of no frame the invariant speaks of. *)
LEMMA FillKeepsRing ==
  ASSUME TypeOK, RingInv, ReaderInv, PutFill
  PROVE  RingInv'
<1>1. /\ written \in Nat /\ total \in Nat /\ lap \in Nat /\ MaxValidFrames \in Nat
      /\ wr.pc = "fill" /\ wr'.pc = "cover" /\ wr'.next = wr.next /\ wr.len \in Nat
      /\ UNCHANGED <<written, data, rd, total, lap>>
  BY RingAssumption DEF TypeOK, PutFill, Writer
<1>2. WriteSlot = SlotOf(written) /\ WriteSlot \in Slots
  BY <1>1, DivMod DEF WriteSlot
<1>3. /\ \A i \in Slots \ {WriteSlot} : frames'[i] = frames[i]
      /\ frames'[WriteSlot].no = written
      /\ frames'[WriteSlot].abs = total - wr.len
      /\ frames'[WriteSlot].len = wr.len
      /\ frames'[WriteSlot].position = frames[WriteSlot].position
  <2>1. frames[WriteSlot] \in SmemoryFrame
    BY <1>2 DEF TypeOK
  <2> QED BY <1>2, <2>1 DEF PutFill, TypeOK, SmemoryFrame
<1>4. ASSUME NEW n \in Nat, n < written, written + 1 - n < MaxValidFrames
      PROVE  SlotOf(n) \in Slots /\ frames'[SlotOf(n)] = frames[SlotOf(n)]
  <2>1. SlotOf(n) # SlotOf(written)
    BY <1>1, <1>4, SlotDistinct
  <2> QED BY <1>2, <1>3, <2>1, DivMod
<1>5. WriterInv'
  BY <1>1 DEF RingInv, WriterInv
<1>6. RingHoldsTail'
  BY <1>1 DEF RingInv, RingHoldsTail
<1>7. SlotInv'
  <2>1. ASSUME NEW n \in 0 .. written, n < Filled', Claimed' - n < MaxValidFrames
        PROVE  SlotOK(n)'
    <3>1. CASE n < written
      <4>1. SlotOK(n)
        BY <1>1, <2>1, <3>1 DEF RingInv, SlotInv, Filled, Claimed
      <4>2. frames'[SlotOf(n)'] = frames[SlotOf(n)]
        BY <1>1, <1>4, <2>1, <3>1 DEF Claimed, SlotOf
      <4> QED BY <4>1, <4>2, <1>1 DEF SlotOK, PlaceOf
    <3>2. CASE n = written
      <4>1. wr.len <= total /\ frames[WriteSlot].position = PlaceOf(total - wr.len)
        BY <1>1, <1>2 DEF RingInv, WriterInv
      <4>2. SlotOf(n)' = WriteSlot
        BY <1>2, <3>2 DEF SlotOf
      <4> QED BY <1>1, <1>3, <3>2, <4>1, <4>2 DEF SlotOK, PlaceOf
    <3> QED BY <1>1, <2>1, <3>1, <3>2
  <2> QED BY <2>1, <1>1 DEF SlotInv
<1>8. DeliveredIntact'
  <2>1. ASSUME NEW r \in Readers, rd[r].pc = "copied", NotLapped(r)'
        PROVE  NotLapped(r) /\ frames'[SlotOf(rd[r].cnt)] = frames[SlotOf(rd[r].cnt)]
    <3>1. rd[r].cnt \in Nat /\ rd[r].cnt < written
      BY <2>1 DEF TypeOK, MemReader, ReaderInv
    <3>2. written + 1 - rd[r].cnt < MaxValidFrames
      <4>1. (wr.pc # "idle")' /\ written' = written /\ rd' = rd
        BY <1>1
      <4>2. (Claimed - rd[r].cnt < MaxValidFrames)'
        BY <2>1 DEF NotLapped
      <4>3. Claimed' = written + 1
        BY <1>1 DEF Claimed
      <4>4. Claimed' - rd'[r].cnt < MaxValidFrames
        BY <4>2
      <4> QED BY <1>1, <3>1, <4>1, <4>3, <4>4
    <3>3. frames'[SlotOf(rd[r].cnt)] = frames[SlotOf(rd[r].cnt)]
      BY <3>1, <3>2, <1>4
    <3> QED BY <1>1, <2>1, <3>1, <3>3 DEF NotLapped, Claimed, SlotOf
  <2> QED BY <1>1, <2>1 DEF RingInv, DeliveredIntact, SlotOf
<1> QED BY <1>5, <1>6, <1>7, <1>8 DEF RingInv

(***************************************************************************)
(* The walk over the records and the carried position: flags and cleared   *)
(* bytes are not spoken of, and the next record belongs to no live frame.  *)
(***************************************************************************)
LEMMA CoverKeepsRing ==
  ASSUME TypeOK, RingInv, ReaderInv, PutCover
  PROVE  RingInv'
<1>1. /\ written \in Nat /\ total \in Nat /\ lap \in Nat /\ MaxValidFrames \in Nat
      /\ wr.pc = "cover" /\ wr'.pc = "count"
      /\ UNCHANGED <<written, rd, total, lap>>
      /\ \A c \in Places : data'[c] \in {Junk, data[c]}
  BY RingAssumption DEF TypeOK, PutCover, Writer
<1>2. NextSlot = SlotOf(written + 1) /\ NextSlot \in Slots
  BY <1>1, SlotNext, DivMod DEF NextSlot, WriteSlot
<1>3. /\ \A i \in Slots : /\ frames'[i].no = frames[i].no
                           /\ frames'[i].abs = frames[i].abs
                           /\ frames'[i].len = frames[i].len
      /\ \A i \in Slots \ {NextSlot} : frames'[i].position = frames[i].position
      /\ frames'[NextSlot].position = wr.next
  <2>1. ASSUME NEW i \in Slots
        PROVE  /\ frames'[i].no = frames[i].no
               /\ frames'[i].abs = frames[i].abs
               /\ frames'[i].len = frames[i].len
               /\ frames'[i].position = IF i = NextSlot THEN wr.next ELSE frames[i].position
    <3>1. frames[i] \in SmemoryFrame
      BY DEF TypeOK
    <3>2. frames'[i] = [frames[i] EXCEPT !.valid = @ /\ i \notin CoveredSlots,
                                         !.position = IF i = NextSlot THEN wr.next ELSE @]
      BY DEF PutCover
    <3> QED BY <3>1, <3>2 DEF SmemoryFrame
  <2> QED BY <1>2, <2>1
<1>4. ASSUME NEW n \in Nat, n <= written, written + 1 - n < MaxValidFrames
      PROVE  SlotOf(n) \in Slots \ {NextSlot}
  <2>1. SlotOf(n) # SlotOf(written + 1)
    BY <1>1, <1>4, SlotDistinct
  <2> QED BY <1>2, <2>1, DivMod
<1>5. WriterInv'
  <2>1. wr.next = total - lap
    BY <1>1 DEF RingInv, WriterInv
  <2>2. frames'[SlotOf(written + 1)'].position = total - lap
    BY <1>1, <1>2, <1>3, <2>1 DEF SlotOf
  <2>3. lap <= total /\ total < lap + DataSize
    BY DEF RingInv, WriterInv
  <2>4. (wr.pc = "count")'
    BY <1>1
  <2> QED BY <1>1, <2>2, <2>3, <2>4 DEF WriterInv, SlotOf
<1>6. RingHoldsTail'
  BY <1>1 DEF RingInv, RingHoldsTail
<1>7. SlotInv'
  <2>1. ASSUME NEW n \in 0 .. written, n < Filled', Claimed' - n < MaxValidFrames
        PROVE  SlotOK(n)'
    <3>1. SlotOK(n)
      BY <1>1, <2>1 DEF RingInv, SlotInv, Filled, Claimed
    <3>2. SlotOf(n) \in Slots \ {NextSlot}
      BY <1>1, <1>4, <2>1 DEF Claimed
    <3> QED BY <1>1, <1>3, <3>1, <3>2 DEF SlotOK, PlaceOf, SlotOf
  <2> QED BY <2>1, <1>1 DEF SlotInv
<1>8. DeliveredIntact'
  <2>1. ASSUME NEW r \in Readers
        PROVE  SlotOf(rd[r].cnt) \in Slots
    BY DivMod DEF TypeOK, MemReader
  <2>2. ASSUME NEW r \in Readers, NotLapped(r)'
        PROVE  NotLapped(r)
    BY <1>1, <1>3, <2>1, <2>2 DEF NotLapped, Claimed, SlotOf
  <2> QED BY <1>1, <1>3, <2>1, <2>2 DEF RingInv, DeliveredIntact, SlotOf
<1> QED BY <1>5, <1>6, <1>7, <1>8 DEF RingInv

LEMMA CountKeepsRing ==
  ASSUME TypeOK, RingInv, PutCount
  PROVE  RingInv'
<1>1. /\ written \in Nat /\ wr.pc = "count" /\ wr'.pc = "idle" /\ written' = written + 1
      /\ UNCHANGED <<frames, data, rd, total, lap>>
  BY DEF TypeOK, PutCount, IdleWriter
<1>2. Claimed' = Claimed /\ Filled' = Filled /\ Filled = written + 1
  BY <1>1 DEF Claimed, Filled
<1>3. WriterInv'
  BY <1>1 DEF RingInv, WriterInv, SlotOf
<1>4. RingHoldsTail'
  BY <1>1 DEF RingInv, RingHoldsTail
<1>5. SlotInv'
  <2>1. ASSUME NEW n \in 0 .. written', n < Filled', Claimed' - n < MaxValidFrames
        PROVE  SlotOK(n)'
    <3>1. n \in 0 .. written
      BY <1>1, <1>2, <2>1
    <3>2. SlotOK(n)
      BY <3>1, <1>2, <2>1 DEF RingInv, SlotInv
    <3> QED BY <1>1, <3>2 DEF SlotOK, PlaceOf, SlotOf
  <2> QED BY <2>1 DEF SlotInv
<1>6. DeliveredIntact'
  BY <1>1, <1>2 DEF RingInv, DeliveredIntact, NotLapped, SlotOf
<1> QED BY <1>3, <1>4, <1>5, <1>6 DEF RingInv

(* A copy made while the writer is not round takes the frame's own bytes. *)
LEMMA CopyTakesFrame ==
  ASSUME TypeOK, ReaderInv, RingInv, NEW r \in Readers, rd[r].pc = "copy", NotLapped(r)
  PROVE  LET f == frames[SlotOf(rd[r].cnt)]
         IN /\ f.no = rd[r].cnt
            /\ Len(ReadBytes(f)) = f.len
            /\ \A k \in 1 .. f.len : ReadBytes(f)[k] \in {f.abs + k - 1, Junk}
<1> DEFINE n == rd[r].cnt
           f == frames[SlotOf(n)]
<1>1. n \in Nat /\ n < written /\ written \in Nat
  BY DEF TypeOK, MemReader, ReaderInv
<1>2. f.abs \in Int /\ f.len \in Nat
  BY <1>1, RecordTypes
<1>3. Claimed - n < MaxValidFrames /\ total - f.abs <= DataSize
  BY DEF NotLapped
<1>4. SlotOK(n)
  BY <1>1, <1>3 DEF RingInv, SlotInv, Filled
<1>5. f.no = n /\ f.abs \in Nat /\ f.abs + f.len <= total /\ f.position = PlaceOf(f.abs)
  BY <1>2, <1>3, <1>4 DEF SlotOK
<1> HIDE DEF n, f
<1>6. ASSUME NEW k \in 1 .. f.len
      PROVE  ReadBytes(f)[k] \in {f.abs + k - 1, Junk}
  <2>1. /\ k - 1 \in Nat /\ f.abs + (k - 1) \in Nat /\ total \in Nat
        /\ f.abs + (k - 1) < total /\ total - (f.abs + (k - 1)) <= DataSize
    BY <1>2, <1>3, <1>5, <1>6, RingAssumption DEF TypeOK
  <2>2. ReadBytes(f)[k] = data[PlaceAt(f.position, k - 1)]
    BY DEF ReadBytes
  <2>3. PlaceAt(f.position, k - 1) = PlaceOf(f.abs + (k - 1))
    BY <1>3, <1>5, <2>1, PlaceShift DEF RingInv
  <2>4. data[PlaceOf(f.abs + (k - 1))] \in {f.abs + (k - 1), Junk}
    BY <2>1, PlaceHolds DEF RingInv
  <2> QED BY <1>2, <2>2, <2>3, <2>4
<1>7. Len(ReadBytes(f)) = f.len
  BY <1>2 DEF ReadBytes
<1> QED BY <1>5, <1>6, <1>7 DEF n, f

LEMMA ReaderKeepsRing ==
  ASSUME TypeOK, ReaderInv, RingInv, NEW r \in Readers, Attach(r) \/ Detach(r) \/ Get(r)
  PROVE  RingInv'
<1>1. /\ UNCHANGED <<written, frames, data, wr, total, lap>>
      /\ \A q \in Readers \ {r} : rd'[q] = rd[q]
  BY DEF Attach, Detach, Get, GetSeek, GetCopy, GetReturn, TypeOK
<1>2. WriterInv' /\ RingHoldsTail' /\ SlotInv'
  BY <1>1 DEF RingInv, WriterInv, RingHoldsTail, SlotInv, SlotOK, SlotOf, PlaceOf, Filled, Claimed
<1>3. DeliveredIntact'
  <2>1. SUFFICES ASSUME NEW q \in Readers, rd'[q].pc = "copied", NotLapped(q)'
                 PROVE  LET f == frames[SlotOf(rd'[q].cnt)]
                        IN /\ f.no = rd'[q].cnt
                           /\ Len(rd'[q].bytes) = f.len
                           /\ \A k \in 1 .. f.len : rd'[q].bytes[k] \in {f.abs + k - 1, Junk}
    BY <1>1 DEF DeliveredIntact, SlotOf
  <2>2. CASE q # r
    <3>1. rd'[q] = rd[q]
      BY <1>1, <2>2
    <3>2. NotLapped(q)
      BY <1>1, <2>1, <3>1 DEF NotLapped, Claimed, SlotOf
    <3> QED BY <2>1, <3>1, <3>2 DEF RingInv, DeliveredIntact
  <2>3. CASE q = r
    <3>1. GetCopy(r)
      <4>1. rd \in [Readers -> MemReader]
        BY DEF TypeOK
      <4>2. rd[r] \in MemReader
        BY <4>1
      <4>3. ~Attach(r)
        BY <2>1, <2>3, <4>1, <4>2 DEF Attach, MemReader
      <4>4. ~Detach(r)
        BY <2>1, <2>3, <4>1, <4>2 DEF Detach, MemReader
      <4>5. ~GetSeek(r)
        BY <2>1, <2>3, <4>1, <4>2 DEF GetSeek, MemReader
      <4>6. ~GetReturn(r)
        BY <2>1, <2>3, <4>1, <4>2 DEF GetReturn, MemReader
      <4> QED BY <4>3, <4>4, <4>5, <4>6 DEF Get
    <3>2. /\ rd[r].pc = "copy" /\ rd'[r].cnt = rd[r].cnt
          /\ rd'[r].bytes = ReadBytes(frames[SlotOf(rd[r].cnt)])
      BY <3>1 DEF GetCopy, TypeOK, MemReader
    <3>3. NotLapped(r)
      BY <1>1, <2>1, <2>3, <3>2 DEF NotLapped, Claimed, SlotOf
    <3> QED BY <2>3, <3>2, <3>3, CopyTakesFrame
  <2> QED BY <2>2, <2>3
<1> QED BY <1>2, <1>3 DEF RingInv

LEMMA RingStep == TypeOK /\ ReaderInv /\ RingInv /\ [Next]_vars => RingInv'
<1> SUFFICES ASSUME TypeOK, ReaderInv, RingInv, [Next]_vars PROVE RingInv'
  OBVIOUS
<1>1. CASE UNCHANGED vars
  BY <1>1 DEF vars, RingInv, WriterInv, RingHoldsTail, SlotInv, SlotOK, DeliveredIntact,
              NotLapped, SlotOf, PlaceOf, Filled, Claimed
<1>2. ASSUME NEW len \in Lens, PutTooBig(len) PROVE RingInv'
  BY <1>1, <1>2 DEF PutTooBig
<1>3. ASSUME NEW len \in Lens, NEW type \in FrameTypes, PutCopy(len, type) PROVE RingInv'
  BY <1>3, CopyKeepsRing
<1>4. CASE PutFill
  BY <1>4, FillKeepsRing
<1>5. CASE PutCover
  BY <1>5, CoverKeepsRing
<1>6. CASE PutCount
  BY <1>6, CountKeepsRing
<1>7. ASSUME NEW r \in Readers, Attach(r) \/ Detach(r) \/ Get(r) PROVE RingInv'
  BY <1>7, ReaderKeepsRing
<1> QED BY <1>1, <1>2, <1>3, <1>4, <1>5, <1>6, <1>7 DEF Next, Put

LEMMA RingInvariant == Spec => []RingInv
BY RingInit, RingStep, ReaderInvariant, PTL DEF Spec

(***************************************************************************)
(* The data area of every ring always holds exactly the last DataSize      *)
(* bytes put, each at its place, but for the bytes the walk of             *)
(* CheckBuffDataCover past the table has cleared.                          *)
(***************************************************************************)
THEOREM RingIsExact == Spec => []RingHoldsTail
<1>1. RingInv => RingHoldsTail
  BY DEF RingInv
<1> QED BY <1>1, RingInvariant, PTL

(***************************************************************************)
(* A reader the writer has not come round to gets the bytes of the frame   *)
(* it asked for, though nothing locks it against the writer: for any       *)
(* number of records, bytes and readers.                                   *)
(***************************************************************************)
THEOREM DeliveryIsIntact == Spec => []DeliveredIntact
<1>1. RingInv => DeliveredIntact
  BY DEF RingInv
<1> QED BY <1>1, RingInvariant, PTL

-----------------------------------------------------------------------------
(* The newest frames *)

(* How many bytes the recorded frames have. *)
Recorded == IF wr.pc = "fill" THEN total - wr.len ELSE total

(***************************************************************************)
(* The last recorded frame ends where the data does, the one before where  *)
(* it begins, both are valid, and neither is half the data area long.      *)
(***************************************************************************)
NewestInv ==
  /\ wr.pc = "fill" => 2 * wr.len < DataSize
  /\ Filled > 0 =>
       LET f == frames[SlotOf(Filled - 1)]
       IN f.valid /\ f.abs + f.len = Recorded /\ 2 * f.len < DataSize
  /\ Filled > 1 =>
       LET f == frames[SlotOf(Filled - 2)]
       IN f.valid /\ f.abs + f.len = frames[SlotOf(Filled - 1)].abs /\ 2 * f.len < DataSize

LEMMA NewestInit == Init => NewestInv
BY DEF Init, InitMemoryParam, IdleWriter, NewestInv, Filled

(* What a step leaves alone keeps the newest frames.                       *)
LEMMA NewestSame ==
  ASSUME TypeOK, NewestInv, Filled' = Filled, Recorded' = Recorded,
         wr'.pc = "fill" => 2 * wr'.len < DataSize,
         \A i \in Slots : /\ frames'[i].len = frames[i].len /\ frames'[i].abs = frames[i].abs,
         \A n \in {Filled - 1, Filled - 2} \cap Nat :
            frames[SlotOf(n)].valid => frames'[SlotOf(n)].valid
  PROVE  NewestInv'
<1>1. Filled \in Nat
  BY DEF TypeOK, Filled
<1>2. \A n \in Nat : SlotOf(n) \in Slots
  BY DivMod
<1>3. ASSUME Filled > 0
      PROVE  LET f == frames'[SlotOf(Filled - 1)]
             IN f.valid /\ f.abs + f.len = Recorded /\ 2 * f.len < DataSize
  <2>1. Filled - 1 \in Nat
    BY <1>1, <1>3
  <2> QED BY <1>2, <1>3, <2>1 DEF NewestInv
<1>4. ASSUME Filled > 1
      PROVE  LET f == frames'[SlotOf(Filled - 2)]
             IN f.valid /\ f.abs + f.len = frames'[SlotOf(Filled - 1)].abs /\ 2 * f.len < DataSize
  <2>1. Filled - 1 \in Nat /\ Filled - 2 \in Nat /\ Filled > 0
    BY <1>1, <1>4
  <2> QED BY <1>2, <1>4, <2>1 DEF NewestInv
<1> QED BY <1>3, <1>4 DEF NewestInv, SlotOf

(* The record that is filled becomes the newest.                           *)
LEMMA FillKeepsNewest ==
  ASSUME TypeOK, NewestInv, PutFill
  PROVE  NewestInv'
<1>1. /\ written \in Nat /\ total \in Nat /\ wr.len \in Nat /\ MaxValidFrames \in Nat
      /\ 3 <= MaxValidFrames
      /\ wr.pc = "fill" /\ wr'.pc = "cover" /\ written' = written /\ total' = total
  BY RingAssumption DEF TypeOK, PutFill, Writer
<1>2. WriteSlot = SlotOf(written) /\ WriteSlot \in Slots
  BY <1>1, DivMod DEF WriteSlot
<1>3. /\ \A i \in Slots \ {WriteSlot} : frames'[i] = frames[i]
      /\ frames'[WriteSlot].abs = total - wr.len
      /\ frames'[WriteSlot].len = wr.len
      /\ frames'[WriteSlot].valid
  <2>1. frames[WriteSlot] \in SmemoryFrame
    BY <1>2 DEF TypeOK
  <2> QED BY <1>2, <2>1 DEF PutFill, TypeOK, SmemoryFrame
<1>4. Filled = written /\ Filled' = written + 1 /\ Recorded = total - wr.len /\ Recorded' = total
  BY <1>1 DEF Filled, Recorded
<1>5. 2 * wr.len < DataSize
  BY <1>1 DEF NewestInv
<1>6. ASSUME written > 0
      PROVE  LET f == frames'[SlotOf(written - 1)]
             IN f.valid /\ f.abs + f.len = frames'[SlotOf(written)].abs /\ 2 * f.len < DataSize
  <2>1. written - 1 \in Nat /\ written - 1 < written /\ written < (written - 1) + MaxValidFrames
    BY <1>1, <1>6
  <2>2. SlotOf(written - 1) \in Slots \ {WriteSlot}
    BY <1>1, <1>2, <2>1, DivMod, SlotDistinct
  <2>3. frames'[SlotOf(written - 1)] = frames[SlotOf(written - 1)]
    BY <1>3, <2>2
  <2> QED BY <1>2, <1>3, <1>4, <1>6, <2>3 DEF NewestInv
<1>7. LET f == frames'[SlotOf(written)]
      IN f.valid /\ f.abs + f.len = total /\ 2 * f.len < DataSize
  BY <1>1, <1>2, <1>3, <1>5
<1>8. /\ (written + 1) - 1 = written /\ (written + 1) - 2 = written - 1
      /\ written + 1 > 1 => written > 0
  BY <1>1
<1> QED BY <1>1, <1>4, <1>6, <1>7, <1>8 DEF NewestInv, SlotOf

(* The walk of CheckBuffDataCover comes to neither of the newest records.  *)
LEMMA NewestNotCovered ==
  ASSUME TypeOK, NEW n \in {written, written - 1} \cap Nat
  PROVE  SlotOf(n) \notin CoveredSlots
<1>1. /\ written \in Nat /\ MaxValidFrames \in Nat /\ 3 <= MaxValidFrames
  BY RingAssumption DEF TypeOK
<1>2. SlotOf(written) \in 0 .. MaxValidFrames - 1
  BY <1>1, DivMod DEF Slots
<1>3. NextSlot = IF SlotOf(written) + 1 = MaxValidFrames THEN 0 ELSE SlotOf(written) + 1
  BY <1>1, <1>2 DEF NextSlot, WriteSlot
<1>4. CASE n = written
  BY <1>1, <1>2, <1>3, <1>4 DEF CoveredSlots
<1>5. CASE n = written - 1
  <2>1. SlotOf(n) \in 0 .. MaxValidFrames - 1
    BY DivMod DEF Slots
  <2>2. SlotOf(written) = IF SlotOf(n) + 1 = MaxValidFrames THEN 0 ELSE SlotOf(n) + 1
    <3>1. (SlotOf(n) + 1) % MaxValidFrames = SlotOf(n + 1) /\ n + 1 = written
      BY <1>1, <1>5, SlotNext
    <3> QED BY <1>1, <2>1, <3>1
  <2> QED BY <1>1, <1>2, <1>3, <2>1, <2>2 DEF CoveredSlots
<1> QED BY <1>4, <1>5

LEMMA CoverKeepsNewest ==
  ASSUME TypeOK, NewestInv, PutCover
  PROVE  NewestInv'
<1>1. /\ written \in Nat /\ wr.pc = "cover" /\ wr'.pc = "count"
      /\ written' = written /\ total' = total
  BY DEF TypeOK, PutCover, Writer
<1>2. Filled = written + 1 /\ Filled' = Filled /\ Recorded' = Recorded
  BY <1>1 DEF Filled, Recorded
<1>3. ASSUME NEW i \in Slots
      PROVE  /\ frames'[i].len = frames[i].len /\ frames'[i].abs = frames[i].abs
             /\ frames[i].valid /\ i \notin CoveredSlots => frames'[i].valid
  <2>1. frames[i] \in SmemoryFrame
    BY DEF TypeOK
  <2>2. frames'[i] = [frames[i] EXCEPT !.valid = @ /\ i \notin CoveredSlots,
                                       !.position = IF i = NextSlot THEN wr.next ELSE @]
    BY DEF PutCover
  <2> QED BY <2>1, <2>2 DEF SmemoryFrame
<1>4. ASSUME NEW n \in {Filled - 1, Filled - 2} \cap Nat, frames[SlotOf(n)].valid
      PROVE  frames'[SlotOf(n)].valid
  <2>1. n \in {written, written - 1} \cap Nat
    BY <1>1, <1>2
  <2> QED BY <1>3, <1>4, <2>1, DivMod, NewestNotCovered
<1> QED BY <1>1, <1>2, <1>3, <1>4, NewestSame

LEMMA NewestStep == TypeOK /\ NewestInv /\ [Next]_vars => NewestInv'
<1> SUFFICES ASSUME TypeOK, NewestInv, [Next]_vars PROVE NewestInv'
  OBVIOUS
<1>1. CASE UNCHANGED vars
  BY <1>1 DEF vars, NewestInv, Filled, Recorded, SlotOf
<1>2. ASSUME NEW len \in Lens, PutTooBig(len) PROVE NewestInv'
  BY <1>1, <1>2 DEF PutTooBig
<1>3. ASSUME NEW len \in Lens, NEW type \in FrameTypes, PutCopy(len, type) PROVE NewestInv'
  <2>1. /\ wr.pc = "idle" /\ wr'.pc = "fill" /\ wr'.len = len /\ written' = written
        /\ total' = total + len /\ frames' = frames /\ ~(DataSize \div 2 <= len)
    BY <1>3 DEF PutCopy
  <2>2. len \in Nat /\ total \in Nat /\ DataSize \in Nat
    BY RingAssumption DEF TypeOK
  <2>3. 2 * len < DataSize
    BY <2>1, <2>2
  <2>4. Filled' = Filled /\ Recorded' = Recorded
    BY <2>1, <2>2 DEF Filled, Recorded
  <2> QED BY <2>1, <2>3, <2>4, NewestSame DEF SlotOf
<1>4. CASE PutFill
  BY <1>4, FillKeepsNewest
<1>5. CASE PutCover
  BY <1>5, CoverKeepsNewest
<1>6. CASE PutCount
  <2>1. /\ wr.pc = "count" /\ wr'.pc = "idle" /\ written' = written + 1
        /\ total' = total /\ frames' = frames
    BY <1>6 DEF PutCount, IdleWriter
  <2>2. Filled' = Filled /\ Recorded' = Recorded
    BY <2>1 DEF Filled, Recorded
  <2> QED BY <2>1, <2>2, NewestSame DEF SlotOf
<1>7. ASSUME NEW r \in Readers, Attach(r) \/ Detach(r) \/ Get(r) PROVE NewestInv'
  <2>1. UNCHANGED <<written, frames, wr, total>>
    BY <1>7 DEF Attach, Detach, Get, GetSeek, GetCopy, GetReturn
  <2> QED BY <2>1 DEF NewestInv, Filled, Recorded, SlotOf
<1> QED BY <1>1, <1>2, <1>3, <1>4, <1>5, <1>6, <1>7 DEF Next, Put

(* A frame whose record is filled and whose bytes are in the ring is intact. *)
LEMMA RecordLeads ==
  ASSUME TypeOK, RingInv, NEW n \in Nat, SlotOK(n), total - frames[SlotOf(n)].abs <= DataSize
  PROVE  Intact(n)
<1> DEFINE f == frames[SlotOf(n)]
<1>1. f.abs \in Nat /\ f.len \in Nat
  BY RecordTypes DEF SlotOK
<1>2. f.no = n /\ f.abs + f.len <= total /\ f.position = PlaceOf(f.abs)
  BY DEF SlotOK
<1>3. total \in Nat /\ DataSize \in Nat /\ total - f.abs <= DataSize
  BY RingAssumption DEF TypeOK
<1>4. SUFFICES ASSUME NEW k \in 0 .. f.len - 1
               PROVE  data[PlaceAt(f.position, k)] \in {f.abs + k, Junk}
  BY <1>2, <1>3 DEF Intact
<1> HIDE DEF f
<1>5. /\ k \in Nat /\ f.abs + k \in Nat
      /\ f.abs + k < total /\ total - (f.abs + k) <= DataSize
  BY <1>1, <1>2, <1>3
<1>6. PlaceAt(f.position, k) = PlaceOf(f.abs + k)
  BY <1>1, <1>2, <1>3, <1>5, PlaceShift DEF RingInv
<1>7. data[PlaceOf(f.abs + k)] \in {f.abs + k, Junk}
  BY <1>5, PlaceHolds DEF RingInv
<1> QED BY <1>6, <1>7

(***************************************************************************)
(* The two newest frames of every ring are valid and their bytes are       *)
(* there: CheckBuffDataCover, which counts both ends of the range it wrote *)
(* and walks past the table, never reaches them.                           *)
(***************************************************************************)
THEOREM NewestSurvive == Spec => []NewestTwoSurvive
<1>1. TypeOK /\ RingInv /\ NewestInv => NewestTwoSurvive
  <2> SUFFICES ASSUME TypeOK, RingInv, NewestInv, wr.pc = "idle",
                      NEW n \in {written - 1, written - 2} \cap Nat
               PROVE  frames[SlotOf(n)].valid /\ Intact(n)
    BY DEF NewestTwoSurvive
  <2>1. /\ written \in Nat /\ total \in Nat /\ DataSize \in Nat /\ 3 <= MaxValidFrames
        /\ MaxValidFrames \in Nat
    BY RingAssumption DEF TypeOK
  <2>2. Filled = written /\ Recorded = total /\ Claimed = written
    BY DEF Filled, Recorded, Claimed
  <2>3. SlotOK(n)
    BY <2>1, <2>2 DEF RingInv, SlotInv
  <2>4. written > 0 /\ written - 1 \in Nat
    BY <2>1
  <2>5. /\ frames[SlotOf(written - 1)].abs \in Int /\ frames[SlotOf(written - 1)].len \in Nat
        /\ frames[SlotOf(n)].abs \in Int /\ frames[SlotOf(n)].len \in Nat
    BY <2>4, RecordTypes
  <2>6. CASE n = written - 1
    <3>1. /\ frames[SlotOf(n)].valid
          /\ frames[SlotOf(n)].abs + frames[SlotOf(n)].len = total
          /\ 2 * frames[SlotOf(n)].len < DataSize
      BY <2>2, <2>4, <2>6 DEF NewestInv
    <3> QED BY <2>1, <2>3, <2>5, <3>1, RecordLeads
  <2>7. CASE n = written - 2
    <3>1. written > 1
      BY <2>1, <2>7
    <3>2. /\ frames[SlotOf(n)].valid
          /\ frames[SlotOf(n)].abs + frames[SlotOf(n)].len = frames[SlotOf(written - 1)].abs
          /\ 2 * frames[SlotOf(n)].len < DataSize
          /\ frames[SlotOf(written - 1)].abs + frames[SlotOf(written - 1)].len = total
          /\ 2 * frames[SlotOf(written - 1)].len < DataSize
      BY <2>2, <2>4, <2>7, <3>1 DEF NewestInv
    <3> QED BY <2>1, <2>3, <2>5, <3>2, RecordLeads
  <2> QED BY <2>6, <2>7
<1>2. Spec => []NewestInv
  BY NewestInit, NewestStep, ReaderInvariant, PTL DEF Spec
<1> QED BY <1>1, <1>2, ReaderInvariant, RingInvariant, PTL

-----------------------------------------------------------------------------
(* The first frame of a reader *)

(* Until the writer comes round to it, frame n is a key frame.             *)
Keyed(n) == Claimed - n < MaxValidFrames => frames[SlotOf(n)].type = FRAME_I

(* What a reader has found that waits no longer, but has not had a frame.  *)
KeyInv ==
  \A r \in Readers : rd[r].fresh /\ ~rd[r].breIframe => rd[r].cnt < written /\ Keyed(rd[r].cnt)

(* A table further on the record is the same.                              *)
LEMMA SlotAround ==
  ASSUME NEW n \in Nat, n >= MaxValidFrames
  PROVE  SlotOf(n - MaxValidFrames) = SlotOf(n)
<1> DEFINE N == MaxValidFrames
           m == n - N
           a == m \div N
<1>1. N \in Nat /\ N >= 3 /\ m \in Nat
  BY RingAssumption
<1>2. a \in Nat /\ m = N * a + SlotOf(m) /\ SlotOf(m) \in 0 .. N - 1
  BY <1>1, DivMod DEF Slots
<1> DEFINE s == SlotOf(m)
<1>3. n = N * (a + 1) + s /\ a + 1 \in Nat /\ s \in 0 .. N - 1
  <2> HIDE DEF a, s
  <2> QED BY <1>1, <1>2 DEF s
<1>4. \A k \in Nat : (N * k + s) % N = s
  <2> HIDE DEF a, s, m
  <2> QED BY <1>1, <1>3
<1>5. n % N = s
  <2> HIDE DEF a, s, m, N
  <2> QED BY <1>3, <1>4
<1> QED BY <1>5 DEF SlotOf

(* A jump to the oldest key frame ends at a key frame, or does not move.   *)
LEMMA OldestIsKey ==
  ASSUME RingTypes, NEW cnt \in Nat, cnt < written, JumpToOldestIFrame(cnt) # NotFound
  PROVE  IsKey(JumpToOldestIFrame(cnt)) \/ JumpToOldestIFrame(cnt) = cnt
<1> DEFINE hits  == {i \in Slots : /\ IsKey(written + i)
                                   /\ ~(OldestAt(i) < cnt /\ cnt < written)}
           first == {i \in hits : \A k \in hits : i <= k}
           i == The(first)
<1>1. first # {} /\ JumpToOldestIFrame(cnt) = OldestAt(i)
  BY DEF JumpToOldestIFrame, RingTypes
<1>2. i \in Slots /\ IsKey(written + i) /\ ~(OldestAt(i) < cnt /\ cnt < written)
  <2>1. i \in first
    BY <1>1, TheMember
  <2> QED BY <2>1
<1> HIDE DEF i
<1>3. written + i \in Nat /\ MaxValidFrames \in Nat
  BY <1>2, RingAssumption DEF RingTypes, Slots
<1>4. CASE written + i < MaxValidFrames
  <2>1. OldestAt(i) = 0
    BY <1>4 DEF OldestAt
  <2> QED BY <1>1, <1>2, <2>1
<1>5. CASE ~(written + i < MaxValidFrames)
  <2>1. OldestAt(i) = (written + i) - MaxValidFrames
    <3>1. \A k \in Nat : ~(written + k < MaxValidFrames)
                          => OldestAt(k) = (written + k) - MaxValidFrames
      BY <1>3 DEF OldestAt, RingTypes
    <3> QED BY <1>2, <1>5, <3>1, RingAssumption DEF Slots
  <2>2. SlotOf(OldestAt(i)) = SlotOf(written + i)
    BY <1>3, <1>5, <2>1, SlotAround
  <2> QED BY <1>1, <1>2, <2>2 DEF IsKey
<1> QED BY <1>4, <1>5

(* A jump to the newest key frame ends at one.                             *)
LEMMA NewestIsKey ==
  ASSUME RingTypes, NEW cnt \in Nat, cnt < written, JumpTonewestIFrame(cnt) # NotFound
  PROVE  IsKey(JumpTonewestIFrame(cnt))
<1> DEFINE low  == IF written > cnt THEN cnt ELSE written - MaxValidFrames
           hits == {i \in 0 .. written - 1 : low < i /\ IsKey(i)}
           last == {i \in hits : \A k \in hits : k <= i}
<1>1. written # 0
  BY DEF RingTypes
<1>2. last # {} /\ JumpTonewestIFrame(cnt) = The(last)
  BY <1>1 DEF JumpTonewestIFrame
<1>3. The(last) \in last
  BY <1>2, TheMember
<1> QED BY <1>2, <1>3

LEMMA ValidIsKeyed ==
  ASSUME RingTypes, NEW cnt \in Nat, cnt < written, Keyed(cnt)
  PROVE  Keyed(SeekValid(cnt).cnt)
<1> DEFINE to == IF frames[SlotOf(cnt)].valid THEN cnt ELSE JumpToOldestIFrame(cnt)
<1>1. to = NotFound \/ IsKey(to) \/ to = cnt
  BY OldestIsKey
<1>2. SeekValid(cnt).cnt = IF to = NotFound THEN cnt ELSE to
  BY DEF SeekValid, Ends
<1> HIDE DEF to
<1> QED BY <1>1, <1>2 DEF Keyed, IsKey

LEMMA SeekIsKeyed ==
  ASSUME RingTypes, NEW cnt \in Nat, cnt < written, NEW want \in BOOLEAN,
         ~want => Keyed(cnt), ~Seek(cnt, want).breIframe
  PROVE  Keyed(Seek(cnt, want).cnt)
<1> DEFINE to == IF written - cnt > MaxValidFrames THEN JumpToOldestIFrame(cnt) ELSE cnt
           from == IF written >= JumpBack THEN written - JumpBack ELSE to
           key == JumpTonewestIFrame(from)
<1>1. Seek(cnt, want) = IF to = NotFound THEN Ends(cnt, want)
                        ELSE IF want THEN SeekKey(to) ELSE SeekValid(to)
  BY DEF Seek, SeekBehind, SeekFrom, RingTypes
<1>2. SeekKey(to) = IF key = NotFound THEN Ends(from, TRUE) ELSE SeekValid(key)
  BY DEF SeekKey
<1>3. to = NotFound \/ (to \in Nat /\ to < written /\ (IsKey(to) \/ to = cnt))
  BY OldestLands, OldestIsKey DEF RingTypes
<1> HIDE DEF to
<1>4. CASE to = NotFound
  BY <1>1, <1>4 DEF Ends
<1>5. CASE to # NotFound /\ ~want
  <2>1. Keyed(to)
    BY <1>3, <1>5 DEF Keyed, IsKey
  <2> QED BY <1>1, <1>3, <1>5, <2>1, ValidIsKeyed
<1>6. CASE to # NotFound /\ want
  <2>1. from \in Nat /\ from < written
    BY <1>3, <1>6, RingAssumption DEF RingTypes
  <2> HIDE DEF from
  <2>2. key # NotFound
    BY <1>1, <1>2, <1>6 DEF Ends
  <2>3. key \in Nat /\ key < written /\ IsKey(key)
    BY <2>1, <2>2, NewestLands, NewestIsKey
  <2>4. Keyed(key)
    BY <2>3 DEF Keyed, IsKey
  <2> HIDE DEF key
  <2>5. Seek(cnt, want) = SeekValid(key)
    BY <1>1, <1>2, <1>6, <2>2
  <2> QED BY <2>3, <2>4, <2>5, ValidIsKeyed
<1> QED BY <1>4, <1>5, <1>6

LEMMA KeyInit == Init => KeyInv
BY DEF Init, KeyInv

LEMMA ReaderKeepsKey ==
  ASSUME TypeOK, ReaderInv, KeyInv, NEW r \in Readers, Attach(r) \/ Detach(r) \/ Get(r)
  PROVE  KeyInv'
<1>1. /\ UNCHANGED <<written, frames, wr>>
      /\ \A q \in Readers \ {r} : rd'[q] = rd[q]
  BY DEF Attach, Detach, Get, GetSeek, GetCopy, GetReturn, TypeOK
<1>2. rd[r] \in MemReader /\ rd[r].cnt \in Nat /\ rd[r].breIframe \in BOOLEAN
  BY DEF TypeOK, MemReader
<1>3. \A n : Keyed(n)' <=> Keyed(n')
  BY <1>1 DEF Keyed, Claimed, SlotOf
<1>4. SUFFICES ASSUME rd'[r].fresh, ~rd'[r].breIframe
               PROVE  rd'[r].cnt < written /\ Keyed(rd'[r].cnt)
  <2>1. ASSUME NEW q \in Readers, rd'[q].fresh, ~rd'[q].breIframe
        PROVE  rd'[q].cnt < written' /\ Keyed(rd[q].cnt)'
    <3>1. rd'[q].cnt < written /\ Keyed(rd'[q].cnt)
      BY <1>1, <1>4, <2>1 DEF KeyInv
    <3> QED BY <1>1, <3>1 DEF Keyed, Claimed, SlotOf
  <2> QED BY <2>1 DEF KeyInv
<1>5. CASE Attach(r) \/ Detach(r) \/ GetCopy(r)
  <2>1. /\ rd'[r].fresh = rd[r].fresh /\ rd'[r].breIframe = rd[r].breIframe
        /\ rd'[r].cnt = rd[r].cnt
    BY <1>2, <1>5 DEF Attach, Detach, GetCopy, TypeOK, MemReader
  <2> QED BY <1>4, <2>1 DEF KeyInv
<1>6. CASE GetSeek(r)
  <2> DEFINE s == Seek(rd[r].cnt, rd[r].breIframe)
  <2>1. /\ rd'[r].fresh = rd[r].fresh /\ rd'[r].breIframe = s.breIframe
        /\ rd'[r].cnt = s.cnt
    <3> HIDE DEF s
    <3>1. rd' = [rd EXCEPT ![r] = [@ EXCEPT !.cnt = s.cnt, !.breIframe = s.breIframe,
                                    !.pc = IF s.go THEN "copy" ELSE "idle"]]
      BY <1>6 DEF GetSeek, s
    <3> QED BY <1>2, <3>1 DEF TypeOK, MemReader
  <2>2. RingTypes /\ rd[r].cnt < written
    BY <1>2, <1>6 DEF TypeOK, RingTypes, ReaderInv, GetSeek
  <2>3. SeekOK(rd[r].cnt, s)
    BY <1>2, <2>2, SeekLands DEF ReaderInv
  <2>4. ~rd[r].breIframe => Keyed(rd[r].cnt)
    BY <1>4, <2>1 DEF KeyInv
  <2>5. Keyed(s.cnt)
    BY <1>2, <1>4, <2>1, <2>2, <2>4, SeekIsKeyed
  <2> QED BY <2>1, <2>3, <2>5 DEF SeekOK
<1>7. CASE GetReturn(r)
  <2>1. ~rd'[r].fresh
    BY <1>2, <1>7 DEF GetReturn, TypeOK, MemReader
  <2> QED BY <1>4, <2>1
<1> QED BY <1>5, <1>6, <1>7 DEF Get

(* A put changes the type of no record a reader may still be sent to.      *)
LEMMA PutKeepsKey ==
  ASSUME TypeOK, KeyInv, Put
  PROVE  KeyInv'
<1>1. /\ TypeOK' /\ rd' = rd /\ written <= written' /\ written \in Nat /\ written' \in Nat
      /\ MaxValidFrames \in Nat
  BY PutTypes, RingAssumption DEF TypeOK
<1>2. SUFFICES ASSUME NEW n \in Nat, n < written, Keyed(n), Claimed' - n < MaxValidFrames
               PROVE  frames'[SlotOf(n)].type = FRAME_I
  <2>1. ASSUME NEW r \in Readers, rd[r].fresh, ~rd[r].breIframe
        PROVE  rd[r].cnt < written' /\ Keyed(rd[r].cnt)'
    <3>1. rd[r].cnt \in Nat /\ rd[r].cnt < written /\ Keyed(rd[r].cnt)
      BY <2>1 DEF KeyInv, TypeOK, MemReader
    <3>2. Claimed' - rd[r].cnt < MaxValidFrames => frames'[SlotOf(rd[r].cnt)].type = FRAME_I
      BY <1>2, <3>1
    <3> QED BY <1>1, <3>1, <3>2 DEF Keyed, SlotOf
  <2> QED BY <1>1, <2>1 DEF KeyInv
<1>3. Claimed \in Nat /\ Claimed' \in Nat
  <2>1. Claimed \in {written, written + 1} /\ Claimed' \in {written', written' + 1}
    BY DEF Claimed
  <2>2. written \in Nat /\ written' \in Nat
    BY <1>1
  <2>3. \A k \in Nat : k + 1 \in Nat
    OBVIOUS
  <2> QED BY ONLY <2>1, <2>2, <2>3
<1>4. ASSUME Claimed <= Claimed', \A i \in Slots : frames'[i].type = frames[i].type
      PROVE  frames'[SlotOf(n)].type = FRAME_I
  <2>1. Claimed - n < MaxValidFrames
    BY <1>1, <1>2, <1>3, <1>4
  <2> QED BY <1>2, <1>4, <2>1, DivMod DEF Keyed
<1>5. ASSUME NEW len \in Lens, PutTooBig(len) PROVE frames'[SlotOf(n)].type = FRAME_I
  <2>1. frames' = frames /\ Claimed' = Claimed
    BY <1>5 DEF PutTooBig, vars, Claimed
  <2> QED BY <1>3, <1>4, <2>1
<1>6. ASSUME NEW len \in Lens, NEW type \in FrameTypes, PutCopy(len, type)
      PROVE  frames'[SlotOf(n)].type = FRAME_I
  <2>1. frames' = frames /\ Claimed <= Claimed'
    BY <1>1, <1>6 DEF PutCopy, Claimed
  <2> QED BY <1>4, <2>1
<1>7. CASE PutFill
  <2>1. wr.pc = "fill" /\ (wr.pc = "cover")' /\ written' = written
    BY <1>7 DEF PutFill, TypeOK, Writer
  <2>2. Claimed = written + 1 /\ Claimed' = written + 1
    BY <2>1 DEF Claimed
  <2>3. SlotOf(n) # SlotOf(written) /\ SlotOf(n) \in Slots
    BY <1>1, <1>2, <2>2, SlotDistinct, DivMod
  <2>4. frames'[SlotOf(n)] = frames[SlotOf(n)]
    BY <1>7, <2>3 DEF PutFill, WriteSlot, TypeOK
  <2> QED BY <1>2, <2>2, <2>4 DEF Keyed
<1>8. CASE PutCover
  <2>1. wr.pc = "cover" /\ (wr.pc = "count")' /\ written' = written
    BY <1>8 DEF PutCover, TypeOK, Writer
  <2>2. Claimed <= Claimed'
    BY <1>1, <2>1 DEF Claimed
  <2>3. ASSUME NEW i \in Slots PROVE frames'[i].type = frames[i].type
    <3>1. frames[i] \in SmemoryFrame
      BY DEF TypeOK
    <3>2. frames'[i] = [frames[i] EXCEPT !.valid = @ /\ i \notin CoveredSlots,
                                         !.position = IF i = NextSlot THEN wr.next ELSE @]
      BY <1>8 DEF PutCover
    <3> QED BY <3>1, <3>2 DEF SmemoryFrame
  <2> QED BY <1>4, <2>2, <2>3
<1>9. CASE PutCount
  <2>1. frames' = frames /\ wr.pc = "count" /\ (wr.pc = "idle")' /\ written' = written + 1
    BY <1>9 DEF PutCount, IdleWriter
  <2>2. Claimed' = Claimed
    BY <2>1 DEF Claimed
  <2> QED BY <1>3, <1>4, <2>1, <2>2
<1> QED BY <1>5, <1>6, <1>7, <1>8, <1>9 DEF Put

LEMMA KeyStep == TypeOK /\ ReaderInv /\ KeyInv /\ [Next]_vars => KeyInv'
<1> SUFFICES ASSUME TypeOK, ReaderInv, KeyInv, [Next]_vars PROVE KeyInv'
  OBVIOUS
<1>1. CASE UNCHANGED vars
  BY <1>1 DEF vars, KeyInv, Keyed, Claimed, SlotOf
<1>2. CASE Put
  BY <1>2, PutKeepsKey
<1>3. ASSUME NEW r \in Readers, Attach(r) \/ Detach(r) \/ Get(r) PROVE KeyInv'
  BY <1>3, ReaderKeepsKey
<1> QED BY <1>1, <1>2, <1>3 DEF Next

(***************************************************************************)
(* The first frame any reader gets is a key frame, as long as the writer   *)
(* does not come round to it during the get: whichever jumps of            *)
(* GetOneFrameFromBuff it takes, and whatever puts run between its checks  *)
(* and its read of the type.                                               *)
(***************************************************************************)
THEOREM FirstFrameIsKey == Spec => []FirstIsKey
<1>1. ReaderInv /\ KeyInv => FirstIsKey
  BY DEF ReaderInv, KeyInv, FirstIsKey, NotLapped, Keyed
<1>2. Spec => []KeyInv
  BY KeyInit, KeyStep, ReaderInvariant, PTL DEF Spec
<1> QED BY <1>1, <1>2, ReaderInvariant, PTL

=============================================================================
