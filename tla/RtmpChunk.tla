----------------------------- MODULE RtmpChunk -----------------------------
(***************************************************************************)
(* The RTMP chunk stream: RTMP_Write turns an FLV tag into a packet,       *)
(* RTMP_SendPacket cuts a packet into chunks behind compressed headers and *)
(* RTMP_ReadPacket puts packets together again (librtmp/rtmp.c).  Both     *)
(* ends run this library; between them the chunks of messages of different *)
(* channels may be interleaved, as servers do.                             *)
(*                                                                         *)
(* A header of type LARGE carries timestamp, size, type and stream;        *)
(* MEDIUM leaves the stream out, SMALL also size and type, MINIMUM         *)
(* everything.  Timestamps are TsMod-bit integers scaled down: ExtTs       *)
(* stands for 0xffffff and TsMod for 2^32.                                 *)
(***************************************************************************)
EXTENDS Integers, Sequences, SequencesExt

CONSTANTS Channels,      \* chunk stream ids in use
          Types,         \* packet types, "info" among them
          Sizes,         \* body sizes offered to RTMP_Write
          Times,         \* timestamps offered
          TsMod, ExtTs,  \* 2^32 and 0xffffff, scaled down
          DataFrame,     \* bytes "@setDataFrame" adds to a body of type "info"
          ChunkSizes, DefaultChunk,
          MaxMessages    \* bound: messages written in a behaviour

LARGE == 0
MEDIUM == 1
SMALL == 2
MINIMUM == 3

None == [none |-> TRUE]
CtlChannel == 2    \* the channel of control packets
SetChunk == "chunk_size"

ASSUME RtmpChunkAssumption ==
    /\ CtlChannel \in Channels /\ SetChunk \notin Types
    /\ TsMod \in Nat /\ ExtTs \in 1..(TsMod - 1) /\ Times \subseteq 0..(TsMod - 1)
    /\ Sizes \subseteq Nat /\ DataFrame \in Nat
    /\ DefaultChunk \in ChunkSizes /\ ChunkSizes \subseteq Nat \ {0}

VARIABLES vecOut,   \* m_vecChannelsOut: the last packet sent on a channel
          outChunk, \* m_outChunkSize of the sender
          queued,   \* chunks of a channel that are not on the wire yet
          wire,     \* headers and body bytes in the order they arrive
          vecIn,    \* m_vecChannelsIn: the packet kept for a channel
          chTime,   \* m_channelTimestamp
          inChunk,  \* m_inChunkSize of the reader
          sent,     \* ghost: packets given to the sender, per channel
          got       \* ghost: packets the reader completed, per channel

vars == <<vecOut, outChunk, queued, wire, vecIn, chTime, inChunk, sent, got>>

Written == LET count[S \in SUBSET Channels] ==
                   IF S = {} THEN 0
                   ELSE LET c == CHOOSE x \in S : TRUE
                        IN  Len(sent[c]) + count[S \ {c}]
           IN  count[Channels]
-----------------------------------------------------------------------------
(* RTMP_SendPacket                                                         *)

(* The plausible slip: size alone decides.                                 *)
Compressed_NoType(p, prev) ==
    LET h1 == IF p.hdr = MEDIUM /\ prev.size = p.size THEN SMALL ELSE p.hdr
    IN  IF h1 = SMALL /\ prev.ts = p.ts THEN MINIMUM ELSE h1

(* The header is made smaller when the previous packet of the channel      *)
(* already said it.                                                        *)
Compressed(p, prev) ==
    LET h1 == IF p.hdr = MEDIUM /\ prev.size = p.size /\ prev.type = p.type
              THEN SMALL ELSE p.hdr
    IN  IF h1 = SMALL /\ prev.ts = p.ts THEN MINIMUM ELSE h1

HeaderType(p) ==
    IF vecOut[p.ch] # None /\ p.hdr # LARGE THEN Compressed(p, vecOut[p.ch]) ELSE p.hdr

(* The 24-bit time field: absolute behind a large header, else the         *)
(* difference to the last packet, modulo 2^32.                             *)
TimeField(p) ==
    LET last == IF vecOut[p.ch] # None /\ p.hdr # LARGE THEN vecOut[p.ch].ts ELSE 0
    IN  (p.ts - last) % TsMod

FirstHeader(p) ==
    LET h == HeaderType(p)
        t == TimeField(p)
    IN  [kind |-> "header", hdr |-> h, ch |-> p.ch,
         time |-> IF t > ExtTs THEN ExtTs ELSE t,
         ext  |-> IF h # MINIMUM /\ t >= ExtTs THEN t ELSE -1,
         size |-> p.size, type |-> p.type, sid |-> p.sid, id |-> p.id, off |-> 0]

(* Every further chunk starts with a header of type MINIMUM and, whatever  *)
(* the first one had, no extended timestamp.  Ghosts of a header are the   *)
(* packet and the offset of its chunk, which the reader does not see.      *)
NextHeader(p, from) ==
    [kind |-> "header", hdr |-> MINIMUM, ch |-> p.ch, time |-> 0, ext |-> -1,
     size |-> p.size, type |-> p.type, sid |-> p.sid, id |-> p.id, off |-> from]

Bytes(p, from, to) == [i \in 1..(to - from) |-> [kind |-> "byte", id |-> p.id, off |-> from + i]]

(* The loop over nSize: one header and up to nChunkSize bytes at a time.   *)
Chunks(p, chunk) ==
    LET n == IF p.size = 0 THEN 1 ELSE (p.size + chunk - 1) \div chunk
        Hi(k) == IF k * chunk > p.size THEN p.size ELSE k * chunk
    IN  [k \in 1..n |-> <<IF k = 1 THEN FirstHeader(p) ELSE NextHeader(p, (k - 1) * chunk)>>
                        \o Bytes(p, (k - 1) * chunk, Hi(k))]

(* Ghost: the time of a message, and of those that count from it, cannot  *)
(* be recovered when it starts with MINIMUM and the difference sent before *)
(* was not 0 (the reader adds it again), or when another chunk follows an  *)
(* extended time (of which the reader keeps 0xffffff).                     *)
TimeLost(p) ==
    LET f == FirstHeader(p)
    IN  \/ f.hdr = MINIMUM /\ Last(sent[p.ch]).field # 0
        \/ f.ext # -1 /\ p.size > outChunk
        \/ p.hdr # LARGE /\ sent[p.ch] # <<>> /\ Last(sent[p.ch]).lost

Send(p) ==
    LET f == FirstHeader(p)
    IN  /\ queued' = [queued EXCEPT ![p.ch] = @ \o Chunks(p, outChunk)]
        /\ vecOut' = [vecOut EXCEPT ![p.ch] = [p EXCEPT !.hdr = f.hdr]]
        /\ sent' = [sent EXCEPT ![p.ch] =
               Append(@, [pkt |-> p, head |-> f, cut |-> outChunk, lost |-> TimeLost(p),
                          field |-> IF f.hdr = MINIMUM THEN Last(@).field ELSE TimeField(p)])]

-----------------------------------------------------------------------------
(* RTMP_Write: the packet made from one FLV tag.                           *)
Packet(ch, type, size, ts) ==
    [hdr |-> IF type = "info" \/ (type \in {"audio", "video"} /\ ts = 0)
             THEN LARGE ELSE MEDIUM,
     ch |-> ch, type |-> type, ts |-> ts, sid |-> 1,
     size |-> IF type = "info" THEN size + DataFrame ELSE size,
     id |-> Len(sent[ch]) + 1, value |-> 0]

(* A media channel is opened by packets with a large header: publish and   *)
(* the metadata of init_send.                                              *)
RTMP_Write(ch, type, size, ts) ==
    /\ Written < MaxMessages
    /\ sent[ch] = <<>> => type = "info"
    /\ Send(Packet(ch, type, size, ts))
    /\ UNCHANGED <<outChunk, wire, vecIn, chTime, inChunk, got>>

(* A new chunk size holds for what follows the packet that announces it;   *)
(* it is announced between messages.                                       *)
SendChunkSize(n) ==
    /\ Written < MaxMessages
    /\ n # outChunk
    /\ \A c \in Channels : queued[c] = <<>>
    /\ Send([hdr |-> LARGE, ch |-> CtlChannel, type |-> SetChunk, ts |-> 0, sid |-> 0,
             size |-> 1, id |-> Len(sent[CtlChannel]) + 1, value |-> n])
    /\ outChunk' = n
    /\ UNCHANGED <<wire, vecIn, chTime, inChunk, got>>

(* The next chunk of some channel goes on the wire.  A control packet is   *)
(* one chunk and nothing overtakes it.  The wire is a queue with one       *)
(* reader, so holding one chunk at a time loses no behaviour.              *)
Transmit(c) ==
    /\ queued[c] # <<>>
    /\ wire = <<>>
    /\ c = CtlChannel \/ queued[CtlChannel] = <<>>
    /\ wire' = wire \o Head(queued[c])
    /\ queued' = [queued EXCEPT ![c] = Tail(@)]
    /\ UNCHANGED <<vecOut, outChunk, vecIn, chTime, inChunk, sent, got>>
-----------------------------------------------------------------------------
(* RTMP_ReadPacket                                                         *)

Fresh == [ts |-> 0, size |-> 0, type |-> "none", sid |-> 0, read |-> 0, abs |-> FALSE, body |-> <<>>]

(* What the packet holds before the header is decoded: the fields kept for *)
(* the channel unless the header is large.                                 *)
Base(h) ==
    IF h.hdr = LARGE THEN [Fresh EXCEPT !.abs = TRUE]
    ELSE IF vecIn[h.ch] = None THEN Fresh ELSE vecIn[h.ch]

Decoded(h) ==
    LET b  == Base(h)
        b1 == IF h.hdr <= SMALL
              THEN [b EXCEPT !.ts = IF h.ext # -1 THEN h.ext ELSE h.time] ELSE b
        b2 == IF h.hdr <= MEDIUM
              THEN [b1 EXCEPT !.size = h.size, !.type = h.type, !.read = 0] ELSE b1
    IN  IF h.hdr = LARGE THEN [b2 EXCEPT !.sid = h.sid] ELSE b2

(* The plausible slip: the chunk is not cut at the end of the body.        *)
ToRead_Whole(p) == inChunk

ToRead(p) ==
    IF p.size - p.read < inChunk THEN p.size - p.read ELSE inChunk

(* m_nTimeStamp made absolute, m_channelTimestamp.                         *)
AbsTime_Relative(h, p) == p.ts

AbsTime_NoWrap(h, p) == IF p.abs THEN p.ts ELSE p.ts + chTime[h.ch]

AbsTime(h, p) == IF p.abs THEN p.ts ELSE (p.ts + chTime[h.ch]) % TsMod

(* What is kept for the channel: of an extended time only 0xffffff.        *)
Kept(h, p) == IF h.ext # -1 THEN [p EXCEPT !.ts = ExtTs] ELSE p

(* The plausible slip: the announced size is not taken over.               *)
HandleChangeChunkSize_Ignored(p) == inChunk

HandleChangeChunkSize(p) ==
    IF p.type = SetChunk THEN sent[CtlChannel][p.body[1].id].pkt.value ELSE inChunk

(* One chunk is read: header, body, bookkeeping; a completed packet is     *)
(* handed to RTMP_ClientPacket.                                            *)
RTMP_ReadPacket ==
    /\ wire # <<>>
    /\ Head(wire).kind = "header"
    /\ LET h == Head(wire)
           d == Decoded(h)
           n == ToRead(d)
       IN  /\ Len(wire) > n
           /\ LET p == [d EXCEPT !.body = @ \o SubSeq(wire, 2, n + 1), !.read = @ + n]
                  ready == p.read = p.size
                  keep == Kept(h, p)
              IN  /\ wire' = SubSeq(wire, n + 2, Len(wire))
                  /\ vecIn' = [vecIn EXCEPT ![h.ch] =
                         IF ready THEN [keep EXCEPT !.body = <<>>, !.read = 0, !.abs = FALSE]
                         ELSE keep]
                  /\ chTime' = IF ready THEN [chTime EXCEPT ![h.ch] = AbsTime(h, p)] ELSE chTime
                  /\ got' = IF ready
                            THEN [got EXCEPT ![h.ch] = Append(@, [p EXCEPT !.ts = AbsTime(h, p)])]
                            ELSE got
                  /\ inChunk' = IF ready THEN HandleChangeChunkSize(p) ELSE inChunk
    /\ UNCHANGED <<vecOut, outChunk, queued, sent>>
-----------------------------------------------------------------------------
Init ==
    /\ vecOut = [c \in Channels |-> None]
    /\ outChunk = DefaultChunk
    /\ queued = [c \in Channels |-> <<>>]
    /\ wire = <<>>
    /\ vecIn = [c \in Channels |-> None]
    /\ chTime = [c \in Channels |-> 0]
    /\ inChunk = DefaultChunk
    /\ sent = [c \in Channels |-> <<>>]
    /\ got = [c \in Channels |-> <<>>]

Next ==
    \/ \E c \in Channels \ {CtlChannel}, k \in Types, z \in Sizes, t \in Times : RTMP_Write(c, k, z, t)
    \/ \E n \in ChunkSizes : SendChunkSize(n)
    \/ \E c \in Channels : Transmit(c)
    \/ RTMP_ReadPacket

(* The network delivers and the reader reads on.                           *)
Spec == Init /\ [][Next]_vars /\ WF_vars(RTMP_ReadPacket)
             /\ \A c \in Channels : WF_vars(Transmit(c))
-----------------------------------------------------------------------------
TypeOK ==
    /\ outChunk \in ChunkSizes /\ inChunk \in ChunkSizes
    /\ chTime \in [Channels -> 0..(TsMod - 1)]
    /\ \A c \in Channels : Len(got[c]) <= Len(sent[c])

(* Whatever the chunk sizes and however the channels interleave, the       *)
(* reader looks for a header exactly where the sender put one.             *)
Framed == wire # <<>> => Head(wire).kind = "header"

(* Packets of a channel arrive in order, each with its own bytes, size,    *)
(* type and stream although most headers left them out.                    *)
PacketsIntact ==
    \A c \in Channels : \A i \in 1..Len(got[c]) :
        LET g == got[c][i]
            s == sent[c][i].pkt
        IN  /\ g.body = Bytes(s, 0, s.size)
            /\ g.size = s.size /\ g.type = s.type /\ g.sid = s.sid

(* Absolute times survive the differences, the wrap at 2^32 and the        *)
(* extended field, except for the two cases TimeLost names.                *)
TimesKept ==
    \A c \in Channels : \A i \in 1..Len(got[c]) :
        ~sent[c][i].lost => got[c][i].ts = sent[c][i].pkt.ts

(* A reader gets back what was written: where headers are, what packets    *)
(* hold and when they are due.                                             *)
ChunksRead == TypeOK /\ Framed /\ PacketsIntact /\ TimesKept

(* Once no more is written every packet is completed at the reader: no     *)
(* header makes it wait for bytes that never come.                         *)
Delivered == <>[](\A c \in Channels : Len(got[c]) = Len(sent[c]))
=============================================================================
