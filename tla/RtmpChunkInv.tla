---------------------------- MODULE RtmpChunkInv ----------------------------
(***************************************************************************)
(* The invariant of the chunk stream: it says of each channel that         *)
(*   - every header the sender wrote, with what the packets before it said,*)
(*     determines its packet (SentOf), and the sender still holds the last *)
(*     one (OutInv);                                                       *)
(*   - the chunk on the wire and those that wait are, without a gap, all   *)
(*     that the reader still misses (Line);                                *)
(*   - the reader keeps of the channel what the next header leaves out     *)
(*     (InOf), and what it completed is what was sent (GotOf);             *)
(* and of the channels together that each chunk was cut with the size the  *)
(* reader will have been told when it reads it (CutInv).                   *)
(***************************************************************************)
EXTENDS RtmpChunk

(* What there is at both ends and on the way.                              *)
Stamps == 0 .. TsMod - 1
Kinds == Types \cup {SetChunk}

Packets == [hdr : {LARGE, MEDIUM}, ch : Channels, type : Kinds, ts : Stamps, sid : {0, 1},
            size : Nat, id : Nat, value : ChunkSizes \cup {0}]
Headers == [kind : {"header"}, hdr : LARGE .. MINIMUM, ch : Channels, time : Stamps,
            ext : Stamps \cup {-1}, size : Nat, type : Kinds, sid : {0, 1}, id : Nat, off : Nat]
BodyBytes == [kind : {"byte"}, id : Nat, off : Nat]
Sendings == [pkt : Packets, head : Headers, cut : ChunkSizes, lost : BOOLEAN, field : Stamps]
Readings == [ts : Stamps, size : Nat, type : Kinds, sid : {0, 1}, read : Nat, abs : BOOLEAN,
             body : Seq(BodyBytes)]

ChunkTypes ==
    /\ outChunk \in ChunkSizes /\ inChunk \in ChunkSizes
    /\ chTime \in [Channels -> Stamps]
    /\ sent \in [Channels -> Seq(Sendings)]
    /\ got \in [Channels -> Seq(Readings)]
    /\ queued \in [Channels -> Seq(Seq(Headers \cup BodyBytes))]
    /\ wire \in Seq(Headers \cup BodyBytes)
    /\ vecIn \in [Channels -> Readings \cup {None}]
    /\ vecOut \in [Channels -> [hdr : LARGE .. MINIMUM, ch : Channels, type : Kinds, ts : Stamps,
                                sid : {0, 1}, size : Nat, id : Nat,
                                value : ChunkSizes \cup {0}] \cup {None}]

(* The header of a packet says of it what the packet before it did not.    *)
Alike(s, c, m) ==
    /\ s.pkt.ch = c /\ s.pkt.id = m
    /\ s.head.ch = c /\ s.head.id = m /\ s.head.off = 0
    /\ s.head.size = s.pkt.size /\ s.head.type = s.pkt.type /\ s.head.sid = s.pkt.sid
    /\ s.head.hdr = LARGE <=> s.pkt.hdr = LARGE
    /\ IF c = CtlChannel
       THEN s.pkt.type = SetChunk /\ s.pkt.size = 1 /\ s.pkt.value \in ChunkSizes /\ s.pkt.sid = 0
            /\ s.pkt.hdr = LARGE
       ELSE s.pkt.type # SetChunk /\ s.pkt.sid = 1

Timed(s) ==
    /\ s.head.hdr # MINIMUM => s.field = IF s.head.ext # -1 THEN s.head.ext ELSE s.head.time
    /\ s.head.ext # -1 <=> s.head.hdr # MINIMUM /\ s.field >= ExtTs
    /\ s.head.hdr = LARGE => s.field = s.pkt.ts
    /\ ~s.lost => (s.head.ext # -1 => s.pkt.size <= s.cut)

Omits(s, r) ==
    /\ s.head.hdr > MEDIUM => s.pkt.size = r.pkt.size /\ s.pkt.type = r.pkt.type
    /\ s.head.hdr \in {MEDIUM, SMALL} => (s.field + r.pkt.ts) % TsMod = s.pkt.ts
    /\ s.head.hdr = MINIMUM => s.pkt.ts = r.pkt.ts /\ s.field = r.field
    /\ ~s.lost => (s.head.hdr # LARGE => ~r.lost) /\ (s.head.hdr = MINIMUM => s.field = 0)

SentOf(S, c) ==
    \A m \in 1 .. Len(S) :
        /\ Alike(S[m], c, m) /\ Timed(S[m])
        /\ m = 1 => S[m].head.hdr = LARGE
        /\ m > 1 => Omits(S[m], S[m - 1])

OutInv(c) ==
    vecOut[c] = IF sent[c] = <<>> THEN None
                ELSE [Last(sent[c]).pkt EXCEPT !.hdr = Last(sent[c]).head.hdr]

(* The chunk of a packet that begins at an offset, and where it ends.      *)
Upto(s, from) == IF from + s.cut < s.pkt.size THEN from + s.cut ELSE s.pkt.size
Piece(s, from) ==
    <<IF from = 0 THEN s.head ELSE NextHeader(s.pkt, from)>> \o Bytes(s.pkt, from, Upto(s, from))

(* A chunk of what was sent, and what begins behind the chunk with a given *)
(* header: the rest of its packet, or the next packet.                     *)
IsChunk(q, S) ==
    /\ q[1].id \in 1 .. Len(S) /\ q[1].off \in Nat
    /\ q = Piece(S[q[1].id], q[1].off)
    /\ q[1].off = 0 \/ (S[q[1].id].cut <= q[1].off /\ q[1].off < S[q[1].id].pkt.size)

Follows(h, S, id, off) ==
    LET end == Upto(S[h.id], h.off)
    IN  IF end = S[h.id].pkt.size THEN id = h.id + 1 /\ off = 0 ELSE id = h.id /\ off = end

(* The chunks L are all that is missing of the packets S behind n packets  *)
(* and r bytes.                                                            *)
LineOf(L, S, n, r) ==
    /\ \A i \in 1 .. Len(L) : IsChunk(L[i], S)
    /\ \A i \in 1 .. Len(L) - 1 : Follows(L[i][1], S, L[i + 1][1].id, L[i + 1][1].off)
    /\ IF L = <<>> THEN n = Len(S) /\ r = 0
       ELSE /\ L[1][1].id = n + 1 /\ L[1][1].off = r
            /\ Follows(L[Len(L)][1], S, Len(S) + 1, 0)

OnWire(c) == wire # <<>> /\ wire[1].ch = c
Ahead(c) == IF OnWire(c) THEN <<wire>> \o queued[c] ELSE queued[c]
Reached(v) == IF v = None THEN 0 ELSE v.read
Line(c) == LineOf(Ahead(c), sent[c], Len(got[c]), Reached(vecIn[c]))

(* What the reader keeps of a channel of whose packets S it has n.         *)
Capped(t) == IF t >= ExtTs THEN ExtTs ELSE t

Keeps(v, s) ==
    /\ v.size = s.pkt.size /\ v.type = s.pkt.type /\ v.sid = s.pkt.sid
    /\ v.ts = Capped(s.field)

InOf(v, S, n) ==
    IF v = None THEN n = 0 ELSE
    /\ v.body = [i \in 1 .. v.read |-> [kind |-> "byte", id |-> n + 1, off |-> i]]
    /\ IF v.read = 0 THEN n > 0 /\ ~v.abs /\ Keeps(v, S[n])
       ELSE n < Len(S) /\ Keeps(v, S[n + 1]) /\ (v.abs <=> S[n + 1].head.hdr = LARGE)

(* What came out of the reader is what was sent.                           *)
IsGot(g, s) ==
    /\ g.body = Bytes(s.pkt, 0, s.pkt.size)
    /\ g.size = s.pkt.size /\ g.type = s.pkt.type /\ g.sid = s.pkt.sid
    /\ ~s.lost => g.ts = s.pkt.ts

GotOf(G, S, t) ==
    /\ Len(G) <= Len(S)
    /\ \A i \in 1 .. Len(G) : IsGot(G[i], S[i])
    /\ G # <<>> => t = G[Len(G)].ts

ChannelInv(c) ==
    /\ SentOf(sent[c], c) /\ OutInv(c) /\ Line(c)
    /\ InOf(vecIn[c], sent[c], Len(got[c])) /\ GotOf(got[c], sent[c], chTime[c])

(* With which size the chunks ahead were cut.                              *)
Announced(q) == sent[CtlChannel][q[1].id].pkt.value
AfterWire == IF OnWire(CtlChannel) THEN Announced(wire) ELSE inChunk
AfterQueue == IF queued[CtlChannel] # <<>> THEN Announced(queued[CtlChannel][1]) ELSE AfterWire

CutInv ==
    /\ outChunk = AfterQueue
    /\ Len(queued[CtlChannel]) <= 1
    /\ \A c \in Channels \ {CtlChannel} :
          /\ \A i \in 1 .. Len(queued[c]) : sent[c][queued[c][i][1].id].cut = outChunk
          /\ OnWire(c) => sent[c][wire[1].id].cut = inChunk

ChunkInv ==
    /\ ChunkTypes /\ CutInv
    /\ wire # <<>> => wire[1] \in Headers
    /\ \A c \in Channels : ChannelInv(c)
=============================================================================
