----------------------------- MODULE StreamSort -----------------------------
(***************************************************************************)
(* The sorter of mgw-core/buffer/stream_sort.c: it holds back the packets  *)
(* of a source for a while (uiSortTime) so that they reach the frame ring  *)
(* in the order of their timestamps.  ring-buffer.c calls it under the     *)
(* write mutex, so a put is one step.                                      *)
(*                                                                         *)
(* Payloads live in a pool that is filled circularly, a frame never being  *)
(* split.  Two lists describe it: phead, by timestamp, and frameaddr, by   *)
(* age.  A pool about to run into its oldest frame is regrown, or cleaned  *)
(* when it is already large.                                               *)
(*                                                                         *)
(* A payload is abstracted to the range of the pool it occupies.  The      *)
(* clock is abstracted to whether the five minutes of the analysis are up. *)
(***************************************************************************)
EXTENDS Integers, SequencesExt

CONSTANTS
  Stamps,             \* timestamps of the packets a source may write
  Lens,               \* their lengths
  uiSize,             \* size of the first pool (SORT_SIZE_DEF)
  MAX_SORT_BUFF_LEN,  \* a pool larger than this is cleaned, not regrown
  RingHalf,           \* the callback refuses frames of this length or more
  uiSortTimeBak,      \* the configured sort time
  uiMaxSortTime,      \* the largest sort time; also what is too early or late
  LongTime, ShortTime, \* 60 ms and 20 ms: a longer increase is replaced
  Fall1, Fall2,       \* 200 ms and 100 ms: the steps of a decrease
  JumpTime,           \* 10 s: a jump that cleans at once
  DropLimit,          \* 60: late (early) frames that clean
  UintMod,            \* 2^32
  MaxPuts,            \* bound: frames put since the last clean
  MaxDrops            \* bound: the count of late frames

ASSUME SortAssumption ==
  /\ Stamps \subseteq Nat /\ Lens \subseteq Nat \ {0}
  /\ uiSize \in Nat \ {0} /\ MAX_SORT_BUFF_LEN \in Nat /\ RingHalf \in Nat
  /\ uiSortTimeBak \in Nat /\ uiMaxSortTime \in Nat /\ uiSortTimeBak <= uiMaxSortTime
  /\ {LongTime, ShortTime, Fall1, Fall2, JumpTime, DropLimit, MaxPuts, MaxDrops} \subseteq Nat
  /\ Fall2 <= Fall1 /\ ShortTime <= LongTime
  /\ UintMod \in Nat \ {0} /\ uiMaxSortTime < UintMod

VARIABLE ssbuf

-----------------------------------------------------------------------------

(* A list node: its timestamp and the range of the pool its payload is in. *)
SC_ssnode == [timestamp : Nat, len : Nat, position : Nat]

(* The fields last and regrown are history: the last stamp handed to the ring
   since the pool was cleaned, and whether the pool was regrown since then. *)
SC_ssbuff ==
  [phead : Seq(SC_ssnode), frameaddr : Seq(Nat), datasize : Nat, position : Nat,
   uiPutFrameCount : Nat, u32PopFrameCount : Nat, uiValidLen : Int,
   uiSortTime : Nat, uiAnalyTime : Nat,
   maxtimestamp : Nat, mintimestamp : Nat, premintimestamp : Nat,
   u32EarlyFrameDrop : Nat, u32LateFrameDrop : Nat,
   last : Nat, regrown : BOOLEAN]

DefaultStreamSortBuff ==
  [phead |-> << >>, frameaddr |-> << >>, datasize |-> uiSize, position |-> 0,
   uiPutFrameCount |-> 0, u32PopFrameCount |-> 0, uiValidLen |-> 0,
   uiSortTime |-> uiSortTimeBak, uiAnalyTime |-> 0,
   maxtimestamp |-> 0, mintimestamp |-> 0, premintimestamp |-> 0,
   u32EarlyFrameDrop |-> 0, u32LateFrameDrop |-> 0,
   last |-> 0, regrown |-> FALSE]

Init == ssbuf = DefaultStreamSortBuff

(* The difference of two 64-bit stamps in an unsigned int. *)
TimeDef(a, b) == (a - b) % UintMod

-----------------------------------------------------------------------------
(* The pool *)

(* Both lists emptied, the counters and the sort time reset; the two drop counters stay. *)
CleanSortBuff(b) ==
  [DefaultStreamSortBuff EXCEPT
     !.datasize = b.datasize,
     !.u32EarlyFrameDrop = b.u32EarlyFrameDrop,
     !.u32LateFrameDrop = b.u32LateFrameDrop]

(* Where the copy of node i begins when nodes are packed in list order. *)
PackedAt(nodes, i) ==
  LET at[k \in 1 .. i] == IF k = 1 THEN 0 ELSE at[k - 1] + nodes[k - 1].len
  IN at[i]

(* Mutant: the address list keeps the old positions. *)
RemallocSortBuff_OldAddrs(b, size) ==
  [b EXCEPT
     !.datasize = size,
     !.phead = [i \in DOMAIN @ |-> [@[i] EXCEPT !.position = PackedAt(b.phead, i)]],
     !.position = b.uiValidLen, !.premintimestamp = 0,
     !.u32EarlyFrameDrop = 0, !.u32LateFrameDrop = 0, !.regrown = TRUE]

(* A new pool with the frames packed in time order.  frameaddr, a circular
   list, is walked in step with phead and takes the positions in that order. *)
RemallocSortBuff(b, size) ==
  LET n == Len(b.frameaddr)
      nodes == Len(b.phead)
  IN [b EXCEPT
        !.datasize = size,
        !.phead = [i \in DOMAIN @ |-> [@[i] EXCEPT !.position = PackedAt(b.phead, i)]],
        !.frameaddr = [j \in DOMAIN @ |->
                         PackedAt(b.phead, IF j + n <= nodes THEN j + n ELSE j)],
        !.position = PackedAt(b.phead, nodes + 1), !.premintimestamp = 0,
        !.u32EarlyFrameDrop = 0, !.u32LateFrameDrop = 0, !.regrown = TRUE]

(* Every five minutes the sort time comes down towards what the analysis saw. *)
Analysed(b) ==
  LET def == b.uiSortTime - b.uiAnalyTime
      far == IF def > Fall1 THEN (b.uiSortTime - Fall1) % UintMod ELSE b.uiSortTime
      new == IF def > Fall2 THEN (far - Fall2) % UintMod ELSE b.uiAnalyTime
  IN [b EXCEPT
        !.uiSortTime = IF 0 < b.uiAnalyTime /\ b.uiAnalyTime < @
                       THEN IF new < uiSortTimeBak THEN uiSortTimeBak ELSE new
                       ELSE @,
        !.uiAnalyTime = 0]

(* Mutant: a frame that does not fit is taken to be clear of the oldest one. *)
TooLong_NoWrap(b, len) ==
  LET earliest == Head(b.frameaddr)
      s == b.position
  IN s + len <= b.datasize /\ s <= earliest /\ earliest <= s + len

(* Would a frame of this length run into the oldest one?  A frame that does
   not fit goes to the start of the pool. *)
TooLong(b, len) ==
  LET earliest == Head(b.frameaddr)
      s == b.position
  IN IF s + len <= b.datasize THEN s <= earliest /\ earliest <= s + len
     ELSE s <= earliest \/ earliest <= len

(* The pool is looked at from the third frame on.  The branch that halves a
   pool is left out: it waits for 15 minutes on a clock set back after 5. *)
CheckStreambuff(b, len, due) ==
  IF b.frameaddr = << >> \/ b.uiPutFrameCount <= 2 THEN b
  ELSE LET fits == b.position + len <= b.datasize
           a == IF ~fits /\ due THEN Analysed(b) ELSE b
       IN IF ~TooLong(b, len) THEN a
          ELSE IF b.datasize > MAX_SORT_BUFF_LEN THEN CleanSortBuff(a)
          ELSE RemallocSortBuff(a, (b.datasize * 3) \div 2)

(* Where MemcpyToSortBuff puts a frame, and where the next one goes. *)
CopyAt(b, len) == IF b.position + len <= b.datasize THEN b.position ELSE 0

MemcpyToSortBuff(b, len) ==
  [b EXCEPT !.position = IF CopyAt(b, len) + len = b.datasize THEN 0 ELSE CopyAt(b, len) + len]

-----------------------------------------------------------------------------
(* The lists *)

FillTheNode(f, position) == [timestamp |-> f.timestamp, len |-> f.len, position |-> position]

(* Mutant: a frame goes behind all that are not later, then one more. *)
InsertSortMiddle_OneOff(nodes, nd) ==
  LET later == {i \in DOMAIN nodes : nodes[i].timestamp > nd.timestamp}
  IN IF later = {} THEN nodes ELSE InsertAt(nodes, Min(later) + 1, nd)

(* Before the first later frame; with none, the node is in no list. *)
InsertSortMiddle(nodes, nd) ==
  LET later == {i \in DOMAIN nodes : nodes[i].timestamp > nd.timestamp}
  IN IF later = {} THEN nodes ELSE InsertAt(nodes, Min(later), nd)

(* The stamp InsertSortMiddle returns: that of the frame before, 0 for none. *)
Alatime(nodes, nd) ==
  LET later == {i \in DOMAIN nodes : nodes[i].timestamp > nd.timestamp}
  IN IF later = {} THEN 0 ELSE nodes[Min(later) - 1].timestamp

(* CFrameaddrList with types 0, 1 and 2; its caller looks for the position. *)
AddAddr(list, new) == Append(list, new)
MoveAddr(list, new, old) == Append(RemoveFirst(list, old), new)
DeleteAddr(list, old) == RemoveFirst(list, old)

(* datacallback is PutOneFrameToBuff, which refuses what fills half the ring. *)
Datacallback(nd) == nd.len < RingHalf

-----------------------------------------------------------------------------
(* PopFrameStreamSort: at most two frames, at least three stay. *)

Due(b) ==
  /\ b.uiPutFrameCount - b.u32PopFrameCount > 3
  /\ TimeDef(b.maxtimestamp, b.mintimestamp) > b.uiSortTime
  /\ Contains(b.frameaddr, Head(b.phead).position)

(* The frame is handed over but not yet taken off the list. *)
Handed(b) ==
  LET nd == Head(b.phead)
  IN [b EXCEPT !.premintimestamp = nd.timestamp, !.last = nd.timestamp,
               !.frameaddr = DeleteAddr(@, nd.position)]

(* Mutant: the new first frame does not become the minimum. *)
Unlinked_OldMin(b) ==
  [b EXCEPT !.uiValidLen = @ - Head(b.phead).len, !.phead = Tail(@),
            !.u32PopFrameCount = @ + 1]

Unlinked(b) ==
  [b EXCEPT !.uiValidLen = @ - Head(b.phead).len, !.phead = Tail(@),
            !.u32PopFrameCount = @ + 1, !.mintimestamp = b.phead[2].timestamp]

(* A refused frame has left frameaddr and stays in phead. *)
PopOne(b) ==
  IF ~Due(b) THEN b
  ELSE IF ~Datacallback(Head(b.phead)) THEN Handed(b)
  ELSE Unlinked(Handed(b))

(* The second round is not reached when the first one stopped. *)
PopFrameStreamSort(b) ==
  IF Due(b) /\ Datacallback(Head(b.phead)) THEN PopOne(PopOne(b)) ELSE PopOne(b)

-----------------------------------------------------------------------------
(* PutFrameStreamSort, one action per way through it; b is the buffer that
   CheckStreambuff left, f the frame. *)

Frames == [timestamp : Stamps, len : Lens]

TooBig(f) == f.len >= ssbuf.datasize \div 2

PutTooBig(f) == TooBig(f) /\ UNCHANGED ssbuf

PutFirst(b, f) ==
  /\ b.phead = << >>
  /\ ssbuf' = [MemcpyToSortBuff(b, f.len) EXCEPT
                 !.uiPutFrameCount = 1, !.uiValidLen = f.len,
                 !.maxtimestamp = f.timestamp, !.mintimestamp = f.timestamp,
                 !.premintimestamp = f.timestamp,
                 !.phead = <<FillTheNode(f, 0)>>, !.frameaddr = AddAddr(@, 0)]

(* Behind the latest frame by more than the largest sort time: dropped, and counted. *)
IsLate(b, f) ==
  /\ b.phead # << >> /\ f.timestamp < b.maxtimestamp
  /\ TimeDef(b.maxtimestamp, f.timestamp) > uiMaxSortTime

PutLate(b, f) ==
  LET n == b.u32LateFrameDrop + 1
      kept == IF n > DropLimit THEN CleanSortBuff(b) ELSE b
  IN /\ IsLate(b, f) /\ n <= MaxDrops
     /\ ssbuf' = [kept EXCEPT !.u32LateFrameDrop = n]

(* A frame that comes before the earliest one held lengthens the sort time. *)
Lengthened(b, f) ==
  LET td == TimeDef(b.mintimestamp, f.timestamp)
  IN IF f.timestamp < b.mintimestamp /\ (b.uiSortTime + td) % UintMod < uiMaxSortTime
     THEN [b EXCEPT !.uiSortTime = @ + (IF td > LongTime THEN ShortTime ELSE td),
                    !.uiAnalyTime = 0]
     ELSE b

IsWithin(b, f) == b.phead # << >> /\ f.timestamp < b.maxtimestamp /\ ~IsLate(b, f)

(* Mutant: no frame is held against the last one handed over. *)
IsReversed_Never(b, f) == FALSE

(* A later frame has already been handed over: dropped, to keep time from going back. *)
IsReversed(b, f) == b.premintimestamp > f.timestamp

PutReversed(b, f) ==
  /\ IsWithin(b, f) /\ IsReversed(b, f)
  /\ ssbuf' = [Lengthened(b, f) EXCEPT !.u32LateFrameDrop = 1]

(* Mutant: the frame is not counted. *)
Stored_NoCount(b, f) ==
  [MemcpyToSortBuff(b, f.len) EXCEPT !.uiValidLen = @ + f.len]

Stored(b, f) ==
  [MemcpyToSortBuff(b, f.len) EXCEPT
     !.uiValidLen = @ + f.len, !.uiPutFrameCount = @ + 1]

PutMiddle(b, f) ==
  LET position == CopyAt(b, f.len)
      nd == FillTheNode(f, position)
      s == [Stored(b, f) EXCEPT !.frameaddr = AddAddr(@, position), !.u32LateFrameDrop = 0]
      span == TimeDef(b.maxtimestamp, Alatime(b.phead, nd))
  IN /\ IsWithin(b, f) /\ ~IsReversed(b, f)
     /\ ssbuf' =
          IF f.timestamp < b.mintimestamp
          THEN [Lengthened(s, f) EXCEPT !.phead = <<nd>> \o @, !.mintimestamp = f.timestamp]
          ELSE [s EXCEPT !.phead = InsertSortMiddle(@, nd),
                         !.uiAnalyTime = IF Alatime(b.phead, nd) # 0 /\ @ < span THEN span ELSE @]

(* A frame in order.  Far ahead counts as early; it is kept all the same. *)
IsInOrder(b, f) == b.phead # << >> /\ f.timestamp >= b.maxtimestamp

(* Mutant: a frame in order takes one off the count. *)
EarlyDrop_Decay(b, f) ==
  b.u32EarlyFrameDrop
    + IF TimeDef(f.timestamp, b.maxtimestamp) >= uiMaxSortTime THEN 1 ELSE -1

EarlyDrop(b, f) ==
  IF TimeDef(f.timestamp, b.maxtimestamp) >= uiMaxSortTime THEN b.u32EarlyFrameDrop + 1 ELSE 0

(* Too many early frames in a row, or one that is ten seconds early. *)
IsJump(b, f) ==
  LET td == TimeDef(f.timestamp, b.maxtimestamp)
  IN td >= uiMaxSortTime /\ (EarlyDrop(b, f) > DropLimit \/ td > JumpTime)

PutJump(b, f) ==
  /\ IsInOrder(b, f) /\ IsJump(b, f)
  /\ ssbuf' = [CleanSortBuff(b) EXCEPT !.u32EarlyFrameDrop = 0]

(* The time held would exceed the sort time: the first frame makes way. *)
MakesWay(b, f) ==
  TimeDef(f.timestamp, b.mintimestamp) > b.uiSortTime /\ Len(b.phead) > 1

(* Last in both lists. *)
InsertSortEnd(b, f, position) ==
  [Stored(b, f) EXCEPT !.phead = Append(@, FillTheNode(f, position)),
                       !.u32EarlyFrameDrop = EarlyDrop(b, f), !.maxtimestamp = f.timestamp]

PutAppend(b, f) ==
  LET position == CopyAt(b, f.len)
  IN /\ IsInOrder(b, f) /\ ~IsJump(b, f) /\ ~MakesWay(b, f)
     /\ ssbuf' = [InsertSortEnd(b, f, position) EXCEPT !.frameaddr = AddAddr(@, position)]

(* The node of the first frame, handed over whatever the ring says, is reused. *)
PutReplace(b, f) ==
  LET nd == Head(b.phead)
      position == CopyAt(b, f.len)
      freed == [Unlinked(b) EXCEPT
                  !.premintimestamp = nd.timestamp, !.last = nd.timestamp,
                  !.frameaddr = MoveAddr(@, position, nd.position)]
  IN /\ IsInOrder(b, f) /\ ~IsJump(b, f) /\ MakesWay(b, f)
     /\ ssbuf' =
          IF Contains(b.frameaddr, nd.position)
          THEN PopFrameStreamSort(InsertSortEnd(freed, f, position))
          ELSE [MemcpyToSortBuff(b, f.len) EXCEPT !.u32EarlyFrameDrop = EarlyDrop(b, f)]

(* mgw_rb_destroy and mgw_rb_create: a sorter deleted and made anew. *)
Recreate == ssbuf' = DefaultStreamSortBuff

PutFrameStreamSort(f, due) ==
  LET b == CheckStreambuff(ssbuf, f.len, due)
  IN /\ ~TooBig(f)
     /\ ssbuf.uiPutFrameCount < MaxPuts
     /\ \/ PutFirst(b, f)
        \/ PutLate(b, f)
        \/ PutReversed(b, f)
        \/ PutMiddle(b, f)
        \/ PutJump(b, f)
        \/ PutAppend(b, f)
        \/ PutReplace(b, f)

Next ==
  \/ \E f \in Frames : PutTooBig(f)
  \/ \E f \in Frames, due \in BOOLEAN : PutFrameStreamSort(f, due)
  \/ Recreate

Spec == Init /\ [][Next]_ssbuf

-----------------------------------------------------------------------------
(* Properties *)

TypeOK == ssbuf \in SC_ssbuff

(***************************************************************************)
(* The two lists describe the same frames: each held frame has its address *)
(* in frameaddr ("Frame list by address", stream_sort.c:44) and no other   *)
(* address is there, so a pop always finds the node it deletes.            *)
(***************************************************************************)
ListsAgree ==
  /\ Len(ssbuf.frameaddr) = Len(ssbuf.phead)
  /\ ToSet(ssbuf.frameaddr) = {nd.position : nd \in ToSet(ssbuf.phead)}

(***************************************************************************)
(* The list is sorted, and the stamps that decide when to pop and what is  *)
(* late are those of its ends, whatever mix of inserts, replacements, pops *)
(* and regrowths made it.                                                  *)
(***************************************************************************)
TimeOrdered ==
  LET p == ssbuf.phead
  IN /\ \A i, j \in DOMAIN p : i <= j => p[i].timestamp <= p[j].timestamp
     /\ p # << >> => /\ ssbuf.mintimestamp = Head(p).timestamp
                     /\ ssbuf.maxtimestamp = Last(p).timestamp

(***************************************************************************)
(* The counters, whose difference decides whether three frames would stay  *)
(* behind a pop, agree with the list, and so does uiValidLen.              *)
(***************************************************************************)
CountsAgree ==
  /\ ssbuf.uiPutFrameCount - ssbuf.u32PopFrameCount = Len(ssbuf.phead)
  /\ ssbuf.uiValidLen = PackedAt(ssbuf.phead, Len(ssbuf.phead) + 1)

(***************************************************************************)
(* No frame is written over one still held, nor past the end of the pool:  *)
(* looking at the oldest frame alone (CheckStreambuff) is enough, though   *)
(* frames leave in the order of time and not of age.                       *)
(***************************************************************************)
HeldIntact ==
  LET p == ssbuf.phead
  IN /\ \A i \in DOMAIN p : p[i].position + p[i].len <= ssbuf.datasize
     /\ \A i, j \in DOMAIN p :
          i # j => \/ p[i].position + p[i].len <= p[j].position
                  \/ p[j].position + p[j].len <= p[i].position

(***************************************************************************)
(* Between cleans the ring gets frames in the order of time: nothing held  *)
(* is earlier than what was handed over, as long as the pool has not been  *)
(* regrown.                                                                *)
(***************************************************************************)
HandedInOrder ==
  ssbuf.regrown \/ \A i \in DOMAIN ssbuf.phead : ssbuf.phead[i].timestamp >= ssbuf.last

(***************************************************************************)
(* Any mix of inserts, replacements, pops, cleans and regrowths keeps what *)
(* the sorter decides by consistent, and the order of what it hands over.  *)
(***************************************************************************)
SortsInTime == TypeOK /\ ListsAgree /\ TimeOrdered /\ CountsAgree /\ HandedInOrder
=============================================================================
