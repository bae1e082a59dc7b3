----------------------------- MODULE StreamBuff -----------------------------
(***************************************************************************)
(* The frame ring of mgw-core/buffer/stream_buff.c: one writer, any number *)
(* of readers, in shared (or heap) memory, with no lock between them.      *)
(*                                                                         *)
(* A ring is a header (the count of frames written), a table of            *)
(* MaxValidFrames frame records and DataSize bytes of data.  A put copies  *)
(* the frame behind the previous one (wrapping), fills the next record,    *)
(* clears the valid flag of the records whose data it ran over, and only   *)
(* then counts the frame; a reader seeks, copies and steps on.  The steps  *)
(* of the writer and of the readers interleave.                            *)
(*                                                                         *)
(* A byte of data is abstracted to its place in everything ever written:   *)
(* byte n is the n-th byte the writer copied.  `total', `lap' and the      *)
(* fields no and abs of a record are such history, which no step reads;    *)
(* they say which frame a record was filled for and where its bytes began. *)
(***************************************************************************)
EXTENDS Integers, Sequences

CONSTANTS
  Readers,         \* reader contexts (a closed one is never reopened)
  MaxValidFrames,  \* uiMaxValidFrames, the records of the table
  DataSize,        \* datasize, in bytes
  RecSize,         \* sizeof(SmemoryFrame), in bytes
  FrameTypes,      \* frame_t, of which the ring only tells FRAME_I apart
  Lens,            \* the frame lengths offered to a put
  MaxFrameLen,     \* RING_BUFFER_MAX_FRAMESIZE, the longest frame a get takes
  JumpBack,        \* the 5 of GetOneFrameFromBuff: where a new reader starts
  MaxPuts          \* bound: frames written in a behaviour

FRAME_I == "I"

ASSUME RingAssumption ==
  /\ FRAME_I \in FrameTypes
  /\ MaxValidFrames \in Nat /\ JumpBack \in Nat \ {0}
  /\ 3 <= MaxValidFrames /\ JumpBack < MaxValidFrames
  /\ DataSize \in Nat \ {0} /\ RecSize \in Nat \ {0}
  /\ (MaxValidFrames - 2) * RecSize <= DataSize
  /\ Lens \subseteq Nat /\ MaxFrameLen \in Nat /\ MaxPuts \in Nat

VARIABLES
  written,  \* uiWritFrameCount
  frames,   \* pstuFrames
  data,     \* pstuData: the byte in each place
  wr,       \* the put in progress: its program counter and locals
  rd,       \* per reader: its MemReader_t, program counter and copy
  total,    \* history: bytes copied so far
  lap       \* history: which byte the writer last put at place 0

vars == <<written, frames, data, wr, rd, total, lap>>

-----------------------------------------------------------------------------

(* A byte the writer did not copy: the initial memory, or one CheckBuffDataCover overran. *)
Junk == -1

Slots  == 0 .. MaxValidFrames - 1
Places == 0 .. DataSize - 1

(* Result of a jump that found no key frame. *)
NotFound == -1

SlotOf(n) == n % MaxValidFrames

SmemoryFrame ==
  [valid : BOOLEAN, position : Places, len : 0 .. DataSize, type : FrameTypes,
   no : Int, abs : Int]

(* The record cleared by InitMemoryParam: memset makes every type 0, FRAME_I. *)
BlankFrame ==
  [valid |-> FALSE, position |-> 0, len |-> 0, type |-> FRAME_I,
   no |-> -1, abs |-> 0]

MemReader ==
  [pc : {"off", "idle", "copy", "copied", "gone"}, cnt : Nat,
   breIframe : BOOLEAN, fresh : BOOLEAN, bytes : Seq(Int)]

(* The locals of a put: its frame, the range it wrote and where the next one goes. *)
Writer ==
  [pc : {"idle", "fill", "cover", "count"}, len : 0 .. DataSize,
   type : FrameTypes, s : Places, e : 0 .. DataSize, next : Places]

IdleWriter == [pc |-> "idle", len |-> 0, type |-> FRAME_I, s |-> 0, e |-> 0, next |-> 0]

(* InitMemoryParam on the first attach: counters and records zeroed. *)
InitMemoryParam ==
  /\ written = 0
  /\ frames = [i \in Slots |-> BlankFrame]
  /\ data = [p \in Places |-> Junk]
  /\ total = 0
  /\ lap = 0

Init ==
  /\ InitMemoryParam
  /\ wr = IdleWriter
  /\ rd = [r \in Readers |-> [pc |-> "off", cnt |-> 0, breIframe |-> TRUE,
                              fresh |-> TRUE, bytes |-> << >>]]

-----------------------------------------------------------------------------
(* The writer: PutOneFrameToBuff, in the order of its stores. *)

(* The place k bytes after position p, the data area being circular. *)
PlaceAt(p, k) == IF p + k < DataSize THEN p + k ELSE p + k - DataSize

WriteSlot == SlotOf(written)
NextSlot  == (WriteSlot + 1) % MaxValidFrames

(* A frame of half the data area or more is refused (-2) and nothing changes. *)
PutTooBig(len) ==
  /\ wr.pc = "idle"
  /\ DataSize \div 2 <= len
  /\ UNCHANGED vars

(* Mutant: the part of a frame that wraps is not copied. *)
Copied_NoWrap(p, len) ==
  [c \in Places |-> IF c >= p /\ c - p < len THEN total + c - p ELSE data[c]]

(* The place the copy wrote byte total + k to holds that byte afterwards. *)
Copied(p, len) ==
  [c \in Places |->
     LET k == IF c >= p THEN c - p ELSE c + DataSize - p
     IN IF k < len THEN total + k ELSE data[c]]

(* memcpy of the frame behind the last one, wrapping at the end of the data. *)
PutCopy(len, type) ==
  LET p == frames[WriteSlot].position
      fits == p + len <= DataSize
  IN /\ wr.pc = "idle"
     /\ written < MaxPuts
     /\ ~(DataSize \div 2 <= len)
     /\ data' = Copied(p, len)
     /\ wr' = [pc |-> "fill", len |-> len, type |-> type, s |-> p,
               e |-> IF fits THEN p + len ELSE p + len - DataSize,
               next |-> PlaceAt(p, len)]
     /\ total' = total + len
     /\ lap' = IF p + len < DataSize THEN lap ELSE lap + DataSize
     /\ UNCHANGED <<written, frames, rd>>

(* The record of the frame, its valid flag last; the position is already there. *)
PutFill ==
  /\ wr.pc = "fill"
  /\ frames' = [frames EXCEPT ![WriteSlot] =
                  [@ EXCEPT !.len = wr.len, !.type = wr.type, !.valid = TRUE,
                            !.no = written, !.abs = total - wr.len]]
  /\ wr' = [wr EXCEPT !.pc = "cover"]
  /\ UNCHANGED <<written, data, rd, total, lap>>

(* Does the range just written touch position p? Both ends count. *)
Touches(p) ==
  IF wr.s < wr.e THEN wr.s <= p /\ p <= wr.e ELSE wr.s <= p \/ p <= wr.e

(* Mutant: the walk goes round the whole table and never stops early. *)
CoveredSlots_All == {j \in Slots : Touches(frames[j].position)}

(***************************************************************************)
(* CheckBuffDataCover walks MaxValidFrames - 2 records from the next one   *)
(* and stops at the first whose position is not touched.  The index is     *)
(* not taken modulo MaxValidFrames: past the table the walk goes on in the *)
(* data area, where the `position' it reads is whatever the payload says,  *)
(* and the flag it clears is the first byte of each record-sized piece.    *)
(***************************************************************************)
CoveredSlots ==
  {j \in Slots : /\ NextSlot <= j /\ j < NextSlot + MaxValidFrames - 2
                 /\ \A i \in NextSlot .. j : Touches(frames[i].position)}

(* How many pieces of the data area the walk may clear a byte of. *)
Overruns ==
  IF NextSlot > 2 /\ \A i \in NextSlot .. MaxValidFrames - 1 : Touches(frames[i].position)
  THEN 0 .. NextSlot - 2
  ELSE {0}

OverrunPlaces(k) == {j * RecSize : j \in 0 .. k - 1}

PutCover ==
  /\ wr.pc = "cover"
  /\ frames' = [i \in Slots |->
                  [frames[i] EXCEPT
                     !.valid = @ /\ i \notin CoveredSlots,
                     !.position = IF i = NextSlot THEN wr.next ELSE @]]
  /\ \E k \in Overruns :
       data' = [c \in Places |-> IF c \in OverrunPlaces(k) THEN Junk ELSE data[c]]
  /\ wr' = [wr EXCEPT !.pc = "count"]
  /\ UNCHANGED <<written, rd, total, lap>>

PutCount ==
  /\ wr.pc = "count"
  /\ written' = written + 1
  /\ wr' = IdleWriter
  /\ UNCHANGED <<frames, data, rd, total, lap>>

Put ==
  \/ \E len \in Lens : PutTooBig(len)
  \/ \E len \in Lens, type \in FrameTypes : PutCopy(len, type)
  \/ PutFill
  \/ PutCover
  \/ PutCount

-----------------------------------------------------------------------------
(* The readers: CreateStreamBuff, GetOneFrameFromBuff and DeleteStreamBuff. *)

(* Mutant: any valid frame will do. *)
IsKey_AnyType(n) == frames[SlotOf(n)].valid

IsKey(n) == frames[SlotOf(n)].valid /\ frames[SlotOf(n)].type = FRAME_I

(* Mutant: the walk step is taken for the frame number. *)
OldestAt_NoLap(i) == written + i

(* The frame number JumpToOldestIFrame gives to step i of its walk. *)
OldestAt(i) ==
  IF written + i < MaxValidFrames THEN 0 ELSE written + i - MaxValidFrames

(* The member of a set that is known to have one. *)
The(S) == CHOOSE x \in S : TRUE

(* Mutant: key frames the reader has passed are not skipped. *)
JumpToOldestIFrame_Back(cnt) ==
  LET hits  == {i \in Slots : IsKey(written + i)}
      first == {i \in hits : \A j \in hits : i <= j}
  IN IF written = 0 THEN 0
     ELSE IF first = {} THEN NotFound ELSE OldestAt(The(first))

(* Oldest valid key frame that is not behind a reader that is behind the writer. *)
JumpToOldestIFrame(cnt) ==
  LET hits  == {i \in Slots : /\ IsKey(written + i)
                              /\ ~(OldestAt(i) < cnt /\ cnt < written)}
      first == {i \in hits : \A j \in hits : i <= j}
  IN IF written = 0 THEN 0
     ELSE IF first = {} THEN NotFound ELSE OldestAt(The(first))

(* Newest valid key frame strictly after the reader. *)
JumpTonewestIFrame(cnt) ==
  LET low  == IF written > cnt THEN cnt ELSE written - MaxValidFrames
      hits == {i \in 0 .. written - 1 : low < i /\ IsKey(i)}
      last == {i \in hits : \A j \in hits : j <= i}
  IN IF written = 0 THEN 0
     ELSE IF last = {} \/ \A i \in last : i < cnt THEN NotFound ELSE The(last)

(***************************************************************************)
(* The checks of GetOneFrameFromBuff, in order: where the reader stands    *)
(* after them, whether it still wants its first key frame, and whether it  *)
(* goes on to copy (the other ends return FRAME_CONSUME_SLOW, _FAST or 0). *)
(* The read-by-time check is left out: every caller passes timestamp 0,    *)
(* which disables it.                                                      *)
(***************************************************************************)
Ends(cnt, want) == [cnt |-> cnt, breIframe |-> want, go |-> FALSE]

SeekValid(cnt) ==
  LET to == IF frames[SlotOf(cnt)].valid THEN cnt ELSE JumpToOldestIFrame(cnt)
  IN IF to = NotFound THEN Ends(cnt, FALSE)
     ELSE [cnt |-> to, breIframe |-> FALSE,
           go |-> frames[SlotOf(to)].len <= MaxFrameLen]

(* Mutant: the guard of GetOneFrameFromBuff2, which has none. *)
SeekKey_NoGuard(cnt) ==
  LET from == written - JumpBack
      to == JumpTonewestIFrame(from)
  IN IF to = NotFound THEN Ends(from, TRUE) ELSE SeekValid(to)

SeekKey(cnt) ==
  LET from == IF written >= JumpBack THEN written - JumpBack ELSE cnt
      to == JumpTonewestIFrame(from)
  IN IF to = NotFound THEN Ends(from, TRUE) ELSE SeekValid(to)

SeekFrom(cnt, want) == IF want THEN SeekKey(cnt) ELSE SeekValid(cnt)

SeekBehind(cnt, want) ==
  LET to == IF written - cnt > MaxValidFrames THEN JumpToOldestIFrame(cnt) ELSE cnt
  IN IF to = NotFound THEN Ends(cnt, want) ELSE SeekFrom(to, want)

SeekAhead(cnt, want) ==
  LET to == JumpToOldestIFrame(cnt)
  IN Ends(IF to = NotFound THEN cnt ELSE to, want)

Seek(cnt, want) ==
  IF written < cnt THEN SeekAhead(cnt, want) ELSE SeekBehind(cnt, want)

Attach(r) ==
  /\ rd[r].pc = "off"
  /\ rd' = [rd EXCEPT ![r].pc = "idle"]
  /\ UNCHANGED <<written, frames, data, wr, total, lap>>

Detach(r) ==
  /\ rd[r].pc = "idle"
  /\ rd' = [rd EXCEPT ![r].pc = "gone"]
  /\ UNCHANGED <<written, frames, data, wr, total, lap>>

(* A reader level with the writer gets FRAME_CONSUME_FAST: no step. *)
GetSeek(r) ==
  /\ rd[r].pc = "idle"
  /\ written # rd[r].cnt
  /\ LET s == Seek(rd[r].cnt, rd[r].breIframe)
     IN rd' = [rd EXCEPT ![r].cnt = s.cnt, ![r].breIframe = s.breIframe,
                         ![r].pc = IF s.go THEN "copy" ELSE "idle"]
  /\ UNCHANGED <<written, frames, data, wr, total, lap>>

(* Mutant: the wrapped part is copied over the start of the frame. *)
ReadBytes_NoLeft(f) ==
  LET left == DataSize - f.position
  IN [k \in 1 .. f.len |-> IF k <= f.len - left THEN data[k - 1]
                           ELSE data[PlaceAt(f.position, k - 1)]]

(* The bytes a copy takes through record f. *)
ReadBytes(f) == [k \in 1 .. f.len |-> data[PlaceAt(f.position, k - 1)]]

GetCopy(r) ==
  /\ rd[r].pc = "copy"
  /\ rd' = [rd EXCEPT ![r].bytes = ReadBytes(frames[SlotOf(rd[r].cnt)]),
                      ![r].pc = "copied"]
  /\ UNCHANGED <<written, frames, data, wr, total, lap>>

(* Mutant: the reader does not step on. *)
GetReturn_Stay(r) ==
  /\ rd[r].pc = "copied"
  /\ rd' = [rd EXCEPT ![r].fresh = FALSE, ![r].bytes = << >>, ![r].pc = "idle"]
  /\ UNCHANGED <<written, frames, data, wr, total, lap>>

(* Type, time and length are read from the record after the bytes. *)
GetReturn(r) ==
  /\ rd[r].pc = "copied"
  /\ rd' = [rd EXCEPT ![r].cnt = @ + 1, ![r].fresh = FALSE,
                      ![r].bytes = << >>, ![r].pc = "idle"]
  /\ UNCHANGED <<written, frames, data, wr, total, lap>>

Get(r) == GetSeek(r) \/ GetCopy(r) \/ GetReturn(r)

Next == Put \/ \E r \in Readers : Attach(r) \/ Detach(r) \/ Get(r)

(* A put that began runs to its end; an output thread polls its reader for ever. *)
Fairness ==
  /\ WF_vars(PutFill \/ PutCover \/ PutCount)
  /\ \A r \in Readers : WF_vars(Get(r))

Spec == Init /\ [][Next]_vars

FairSpec == Spec /\ Fairness

-----------------------------------------------------------------------------
(* Properties *)

TypeOK ==
  /\ written \in Nat
  /\ frames \in [Slots -> SmemoryFrame]
  /\ data \in [Places -> Nat \cup {Junk}]
  /\ wr \in Writer
  /\ rd \in [Readers -> MemReader]
  /\ total \in Nat
  /\ lap \in Nat

(* Frames whose record the writer has begun to reuse, the one in progress included. *)
Claimed == IF wr.pc = "idle" THEN written ELSE written + 1

(* Byte n, if it is still in the ring, is at this place. *)
PlaceOf(n) == IF n >= lap THEN n - lap ELSE n - lap + DataSize

(***************************************************************************)
(* The data area always holds the last DataSize bytes written, each where  *)
(* the circular layout puts it, but for bytes an overrun cleared: the      *)
(* wrap of PutOneFrameToBuff loses or displaces no byte.                   *)
(***************************************************************************)
RingHoldsTail ==
  \A c \in Places : data[c] \in {Junk, IF c < total - lap THEN lap + c ELSE lap + c - DataSize}

(* Frame n is recorded, and its record leads to its bytes. *)
Intact(n) ==
  LET f == frames[SlotOf(n)]
  IN /\ f.no = n
     /\ total - f.abs <= DataSize
     /\ \A k \in 0 .. f.len - 1 : data[PlaceAt(f.position, k)] \in {f.abs + k, Junk}

(***************************************************************************)
(* A reader that the writer has not come round to (fewer than              *)
(* MaxValidFrames records behind, counting the put in progress, and fewer  *)
(* than DataSize bytes) returns exactly the bytes of the frame it asked    *)
(* for, whatever the writer did between its seek, its copy and its return. *)
(***************************************************************************)
NotLapped(r) ==
  /\ Claimed - rd[r].cnt < MaxValidFrames
  /\ total - frames[SlotOf(rd[r].cnt)].abs <= DataSize

DeliveredIntact ==
  \A r \in Readers : rd[r].pc = "copied" /\ NotLapped(r) =>
    LET f == frames[SlotOf(rd[r].cnt)]
    IN /\ f.no = rd[r].cnt
       /\ Len(rd[r].bytes) = f.len
       /\ \A k \in 1 .. f.len : rd[r].bytes[k] \in {f.abs + k - 1, Junk}

(***************************************************************************)
(* CheckBuffDataCover never gives up what no put can have run over: the    *)
(* two newest frames of the ring are valid and intact.                     *)
(***************************************************************************)
NewestTwoSurvive ==
  wr.pc = "idle" =>
    \A n \in {written - 1, written - 2} \cap Nat :
      frames[SlotOf(n)].valid /\ Intact(n)

(* A reader is never ahead of the writer ("cannot happen", says stream_buff.c:403). *)
NeverAhead == \A r \in Readers : rd[r].cnt <= written

(***************************************************************************)
(* The first frame a new reader gets is a key frame, as long as the writer *)
(* does not come round to it during the get (stream_buff.c:426).           *)
(***************************************************************************)
FirstIsKey ==
  \A r \in Readers : rd[r].pc = "copied" /\ rd[r].fresh /\ NotLapped(r) =>
    frames[SlotOf(rd[r].cnt)].type = FRAME_I

(***************************************************************************)
(* No call moves a reader backwards: jumps to the oldest and to the newest *)
(* key frame only ever skip frames (stream_buff.c:324 and :383).           *)
(***************************************************************************)
NeverBack == [][\A r \in Readers : rd'[r].cnt >= rd[r].cnt]_vars

(***************************************************************************)
(* When the writer stops, a reader that has had its first frame reads on   *)
(* to the end, or stands still for one of two reasons: its frame was run   *)
(* over and the ring has no valid key frame ahead of it, or its frame is   *)
(* longer than a get takes, which stream_buff.c:457 neither returns nor    *)
(* skips.                                                                  *)
(***************************************************************************)
Drained(r) ==
  \/ rd[r].pc = "gone"
  \/ rd[r].cnt = written
  \/ /\ written - rd[r].cnt > MaxValidFrames \/ ~frames[SlotOf(rd[r].cnt)].valid
     /\ \A n \in rd[r].cnt .. written - 1 : ~IsKey(n)
  \/ frames[SlotOf(rd[r].cnt)].len > MaxFrameLen

ReaderDrains ==
  \A r \in Readers :
    <>[](wr.pc = "idle" /\ ~rd[r].fresh) => []<>Drained(r)
=============================================================================
