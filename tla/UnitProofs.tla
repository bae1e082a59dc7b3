----------------------------- MODULE UnitProofs -----------------------------
(***************************************************************************)
(* Three units that stand on their own.                                    *)
(*                                                                         *)
(* A saved configuration survives any number of saves, loads, failures and *)
(* crashes: the invariant says where the last version saved is, under its  *)
(* own name or, once os_safe_replace has moved it away, in the backup, and *)
(* that only a file written to its end is renamed.                         *)
(*                                                                         *)
(* No muxer gets a time below the one before, for packets of any times and *)
(* any number of connections: it was last given the time since its first   *)
(* packet, or one more than that.                                          *)
(*                                                                         *)
(* A reader of the chunk stream gets every packet as it was written: the   *)
(* invariant is RtmpChunkInv's.  Its lemmas follow a packet: what header   *)
(* it gets, into which pieces it is cut, that they line up behind those    *)
(* that wait, how one of them goes on the wire, what the reader makes of   *)
(* its header and of its bytes.                                            *)
(***************************************************************************)
EXTENDS ConfigFile, MpegTs, RtmpChunkInv, TLAPS

Paths == {"main", "temp", "backup"}

ConfigTypeOK ==
  /\ file \in [Paths -> Int]
  /\ saver \in {"idle", "write", "backup", "rename"}
  /\ version \in Nat
  /\ saved \in Int

LastIsKept ==
  /\ saved = Missing \/ saved > 0
  /\ file["main"] = Missing \/ (file["main"] = saved /\ saved > 0)
  /\ file["main"] = Missing => file["backup"] = saved

TempIsWhole ==
  /\ saver \in {"backup", "rename"} => file["temp"] > 0
  /\ saver = "rename" => file["main"] = Missing
  /\ saver = "write" => version > 0

ConfigInv == ConfigTypeOK /\ LastIsKept /\ TempIsWhole

-----------------------------------------------------------------------------
(* The first state, without any file, satisfies the invariant.             *)
LEMMA ConfigInvInit == ConfigInit => ConfigInv
  BY DEF ConfigInit, ConfigInv, ConfigTypeOK, LastIsKept, TempIsWhole, Missing, Paths

(* Every file operation of a save or a load keeps the invariant.           *)
LEMMA ConfigInvNext == ConfigInv /\ [ConfigNext]_fileVars => ConfigInv'
<1> SUFFICES ASSUME ConfigInv, [ConfigNext]_fileVars PROVE ConfigInv'
  OBVIOUS
<1> USE DEF ConfigInv, ConfigTypeOK, LastIsKept, TempIsWhole, Missing, Torn, Paths
<1>1. CASE mgw_data_save_json_safe
  BY <1>1 DEF mgw_data_save_json_safe
<1>2. CASE os_quick_write_utf8_file
  BY <1>2 DEF os_quick_write_utf8_file
<1>3. CASE Backup
  BY <1>3 DEF Backup
<1>4. CASE Rename
  BY <1>4 DEF Rename
<1>5. CASE Crash
  BY <1>5 DEF Crash
<1>6. CASE mgw_data_create_from_json_file_safe
  BY <1>6 DEF mgw_data_create_from_json_file_safe, Load
<1>7. CASE UNCHANGED fileVars
  BY <1>7 DEF fileVars
<1>8. QED
  BY <1>1, <1>2, <1>3, <1>4, <1>5, <1>6, <1>7 DEF ConfigNext

(***************************************************************************)
(* mgw_data_create_from_json_file_safe finds the last version that was     *)
(* saved to its end, whenever and however often the process died since.    *)
(***************************************************************************)
THEOREM SavedConfigSurvives == ConfigSpec => []ConfigSurvives
<1>1. ConfigInv => ConfigSurvives
  BY DEF ConfigInv, ConfigTypeOK, LastIsKept, ConfigSurvives, Load, Missing, Paths
<1>2. QED
  BY <1>1, ConfigInvInit, ConfigInvNext, PTL DEF ConfigSpec
-----------------------------------------------------------------------------
(* The muxer.                                                              *)

Some == SUBSET {"video", "audio"}

Muxer == [made : {TRUE}, active : BOOLEAN, disconnected : BOOLEAN,
          streams : Some, start_dts_offset : Int, last_dts : Int]

TsTypes ==
    /\ ts = None_ \/ ts \in Muxer
    /\ clock \in Nat
    /\ muxed \in [count : Nat, dts : Nat]

Counted ==
    /\ ts.start_dts_offset = 0 => ts.last_dts = 0 /\ muxed.dts = 0
    /\ ts.start_dts_offset # 0 =>
          /\ 0 < ts.start_dts_offset /\ ts.start_dts_offset <= clock
          /\ ts.last_dts = clock - ts.start_dts_offset
          /\ \/ muxed.dts = ts.last_dts
             \/ muxed.dts = ts.last_dts + 1 /\ ts.last_dts # 0
    /\ ts.streams = {} => ~ts.active
    /\ ~ts.active => ts.start_dts_offset = 0

TsInv == TsTypes /\ (ts \in Muxer => Counted)

LEMMA TsInitEstablishes == TsInit => TsInv
<1>1. None_ \notin Muxer  BY DEF None_, Muxer
<1> QED  BY <1>1 DEF TsInit, TsInv, TsTypes

LEMMA IsMade == ASSUME TsInv, ts.made PROVE ts \in Muxer /\ Counted
BY DEF TsInv, TsTypes, None_

LEMMA CreateOk == TsInv /\ mpegts_create => TsInv' /\ StampKept
<1> SUFFICES ASSUME TsInv, mpegts_create PROVE TsInv' /\ StampKept  OBVIOUS
<1>1. /\ ts'.start_dts_offset = 0 /\ ts'.last_dts = 0 /\ ts'.streams = {} /\ ~ts'.active
      /\ ts' \in Muxer /\ clock' = clock
  BY DEF mpegts_create, Muxer, Some
<1>2. muxed' \in [count : Nat, dts : Nat] /\ muxed'.dts = 0 /\ muxed'.count # muxed.count
  BY DEF mpegts_create, TsInv, TsTypes
<1> QED  BY <1>1, <1>2 DEF TsInv, TsTypes, Counted, StampKept

LEMMA StartOk == TsInv /\ mpegts_start => TsInv' /\ StampKept
<1> SUFFICES ASSUME TsInv, mpegts_start PROVE TsInv' /\ StampKept  OBVIOUS
<1>1. ts \in Muxer /\ Counted /\ ~ts.active /\ ~ts.disconnected
  BY IsMade DEF mpegts_start, MayStart, Counted
<1>2. PICK made \in {{}, {"video"}, {"video", "audio"}} :
        \E header \in IF made = {"video", "audio"} THEN BOOLEAN ELSE {FALSE} : ts' = Started(made, header)
  BY <1>1 DEF mpegts_start
<1>3. PICK header \in BOOLEAN : /\ ts' = Started(made, header)
                                /\ made = {} => ~header
  BY <1>2
<1>4. /\ ts' \in Muxer /\ ts'.start_dts_offset = 0 /\ ts'.last_dts = 0
      /\ ts'.streams = {} => ~ts'.active
  <2>1. ts' = [ts EXCEPT !.last_dts = 0, !.start_dts_offset = 0, !.disconnected = FALSE,
                         !.streams = made, !.active = header]
    BY <1>1, <1>3 DEF Started, Muxer
  <2>2. made \in Some  BY DEF Some
  <2>3. ts' \in Muxer
    <3>0. PICK zero \in Int : zero = 0  OBVIOUS
    <3>1. PICK a : a = [ts EXCEPT !.last_dts = zero, !.start_dts_offset = zero]  OBVIOUS
    <3>2. PICK b : b = [a EXCEPT !.disconnected = FALSE]  OBVIOUS
    <3>3. PICK c : c = [b EXCEPT !.streams = made]  OBVIOUS
    <3>4. a \in Muxer  BY <1>1, <3>1 DEF Muxer
    <3>5. b \in Muxer  BY <3>2, <3>4 DEF Muxer
    <3>6. c \in Muxer  BY <2>2, <3>3, <3>5 DEF Muxer
    <3>7. ts' = [c EXCEPT !.active = header]  BY <2>1, <3>0, <3>1, <3>2, <3>3
    <3> QED  BY <3>6, <3>7 DEF Muxer
  <2>4. ts'.start_dts_offset = 0 /\ ts'.last_dts = 0 /\ ts'.streams = made
    BY <1>1, <2>1 DEF Muxer
  <2>5. ts'.active = header  BY <1>1, <2>1 DEF Muxer
  <2> QED  BY <1>3, <2>3, <2>4, <2>5
<1>5. clock' = clock /\ muxed' = muxed /\ muxed.dts = 0
  BY <1>1 DEF mpegts_start, Counted
<1> QED  BY <1>4, <1>5 DEF TsInv, TsTypes, Counted, StampKept

LEMMA StopOk == TsInv /\ mpegts_stop => TsInv' /\ StampKept
<1> SUFFICES ASSUME TsInv, mpegts_stop PROVE TsInv' /\ StampKept  OBVIOUS
<1>1. ts \in Muxer /\ Counted  BY IsMade DEF mpegts_stop
<1>2. /\ ts' \in Muxer /\ ts'.active = ts.active /\ ts'.streams = ts.streams
      /\ ts'.start_dts_offset = ts.start_dts_offset /\ ts'.last_dts = ts.last_dts
      /\ clock' = clock /\ muxed' = muxed
  BY <1>1 DEF mpegts_stop, Muxer
<1> QED  BY <1>1, <1>2 DEF TsInv, TsTypes, Counted, StampKept

LEMMA DestroyOk == TsInv /\ mpegts_destroy => TsInv' /\ StampKept
<1> SUFFICES ASSUME TsInv, mpegts_destroy PROVE TsInv' /\ StampKept  OBVIOUS
<1>1. ts' = None_ /\ ts' \notin Muxer /\ clock' = clock /\ muxed' = muxed
  BY DEF mpegts_destroy, None_, Muxer
<1> QED  BY <1>1 DEF TsInv, TsTypes, StampKept

LEMMA SendOk == TsInv /\ mpegts_send_packet => TsInv' /\ StampKept
<1> SUFFICES ASSUME TsInv, mpegts_send_packet PROVE TsInv' /\ StampKept  OBVIOUS
<1>1. ts \in Muxer /\ Counted /\ ts.active  BY IsMade DEF mpegts_send_packet
<1>2. PICK pts \in clock .. MaxTime :
        /\ ts' = [ts EXCEPT !.start_dts_offset = Offset(pts), !.last_dts = pts - Offset(pts)]
        /\ muxed' = [muxed EXCEPT !.dts = Bumped(pts - Offset(pts))]
        /\ clock' = pts
  BY DEF mpegts_send_packet, LastDts
<1>3. pts \in Nat /\ pts >= clock /\ clock \in Nat
  BY <1>2, MpegTsAssumption DEF TsInv, TsTypes
<1>4. Offset(pts) \in Nat /\ Offset(pts) <= pts
  BY <1>1, <1>3 DEF Offset, Counted, Muxer
<1>5. /\ ts'.active = ts.active /\ ts'.streams = ts.streams
      /\ ts'.start_dts_offset = Offset(pts) /\ ts'.last_dts = pts - Offset(pts)
      /\ ts' \in Muxer
  <2>1. pts - Offset(pts) \in Int  BY <1>3, <1>4
  <2>2. Offset(pts) \in Int  BY <1>4
  <2>3. ts' \in Muxer  BY <1>1, <1>2, <2>1, <2>2 DEF Muxer
  <2>4. ts'.streams = ts.streams  BY <1>1, <1>2 DEF Muxer
  <2>5. ts'.start_dts_offset = Offset(pts)  BY <1>1, <1>2 DEF Muxer
  <2>6. ts'.last_dts = pts - Offset(pts)  BY <1>1, <1>2 DEF Muxer
  <2>7. ts'.active = ts.active  BY <1>1, <1>2 DEF Muxer
  <2> QED  BY <2>3, <2>4, <2>5, <2>6, <2>7
<1>6. muxed.dts \in Nat /\ muxed.count \in Nat /\ muxed'.count = muxed.count
      /\ muxed'.dts = Bumped(pts - Offset(pts))
  BY <1>2 DEF TsInv, TsTypes
<1>7. CASE ts.start_dts_offset = 0
  <2>1. Offset(pts) = pts /\ Bumped(pts - Offset(pts)) = 0 /\ muxed.dts = 0
    BY <1>1, <1>3, <1>7 DEF Offset, Bumped, Counted
  <2> QED  BY <1>1, <1>2, <1>3, <1>5, <1>6, <2>1 DEF TsInv, TsTypes, Counted, StampKept
<1>8. CASE ts.start_dts_offset # 0
  <2>1. Offset(pts) = ts.start_dts_offset /\ Offset(pts) > 0
    BY <1>1, <1>8 DEF Offset, Counted, Muxer
  <2>2. pts - Offset(pts) >= ts.last_dts /\ ts.last_dts \in Nat
    BY <1>1, <1>3, <1>8, <2>1 DEF Counted, Muxer
  <2>3. /\ Bumped(pts - Offset(pts)) \in Nat /\ Bumped(pts - Offset(pts)) >= muxed.dts
        /\ \/ Bumped(pts - Offset(pts)) = pts - Offset(pts)
           \/ (Bumped(pts - Offset(pts)) = pts - Offset(pts) + 1 /\ pts - Offset(pts) # 0)
    BY <1>1, <1>3, <1>4, <1>6, <1>8, <2>2 DEF Bumped, Counted
  <2> QED  BY <1>1, <1>2, <1>3, <1>4, <1>5, <1>6, <2>1, <2>3 DEF TsInv, TsTypes, Counted, StampKept
<1> QED  BY <1>7, <1>8

(***************************************************************************)
(* For packets of any times that come in order, and any number of          *)
(* connections, mpegts_send_packet never gives a muxer a time stamp below  *)
(* the one before: an equal one it moved by 1 is never overtaken.          *)
(***************************************************************************)
THEOREM MuxerNeverBack == TsSpec => MuxNeverBack
<1>1. TsInv /\ [TsNext]_tsVars => TsInv' /\ [StampKept]_tsVars
  <2>1. TsInv /\ TsNext => TsInv' /\ StampKept
    BY CreateOk, StartOk, StopOk, DestroyOk, SendOk DEF TsNext
  <2>2. TsInv /\ UNCHANGED tsVars => TsInv'
    BY DEF TsInv, TsTypes, Counted, tsVars
  <2> QED  BY <2>1, <2>2
<1> QED  BY TsInitEstablishes, <1>1, PTL DEF TsSpec, MuxNeverBack

-----------------------------------------------------------------------------
(* The chunk stream: the header of a packet.                               *)

(* A difference modulo 2^32 and the time it counts from give the time.     *)
LEMMA TakenBack ==
  ASSUME NEW M \in Nat \ {0}, NEW a \in 0 .. M - 1, NEW b \in 0 .. M - 1
  PROVE  /\ (a - b) % M \in 0 .. M - 1 /\ (((a - b) % M) + b) % M = a
         /\ a = b => (a - b) % M = 0
<1>1. (a - b) % M = IF a >= b THEN a - b ELSE a - b + M
  OBVIOUS
<1>2. \A x \in 0 .. M - 1 : x % M = x /\ (x + M) % M = x
  OBVIOUS
<1> QED BY <1>1, <1>2

LEMMA SumStamped ==
  ASSUME NEW a \in Stamps, NEW b \in Stamps
  PROVE  (a + b) % TsMod \in Stamps
  BY RtmpChunkAssumption DEF Stamps

(* What is sent has the header its channel calls for.                      *)
Sendable(p, c) ==
  /\ p \in Packets /\ p.ch = c /\ p.id = Len(sent[c]) + 1
  /\ sent[c] = <<>> => p.hdr = LARGE
  /\ IF c = CtlChannel
     THEN p.type = SetChunk /\ p.size = 1 /\ p.value \in ChunkSizes /\ p.sid = 0 /\ p.hdr = LARGE
     ELSE p.type # SetChunk /\ p.sid = 1

LEMMA LastIs ==
  ASSUME NEW S, NEW s \in Seq(S), s # <<>>
  PROVE  Last(s) = s[Len(s)] /\ Len(s) \in 1 .. Len(s) /\ Last(s) \in S
  BY DEF Last

(* What Compressed leaves of a header the packet before it has said.       *)
LEMMA HeaderIs ==
  ASSUME ChunkTypes, NEW c \in Channels, OutInv(c), NEW p, Sendable(p, c)
  PROVE  LET h == HeaderType(p)
             r == Last(sent[c])
         IN  /\ p.hdr = LARGE => h = LARGE /\ TimeField(p) = p.ts
             /\ p.hdr # LARGE =>
                   /\ sent[c] # <<>> /\ h \in {MEDIUM, SMALL, MINIMUM}
                   /\ h > MEDIUM => p.size = r.pkt.size /\ p.type = r.pkt.type
                   /\ h = MINIMUM => p.ts = r.pkt.ts
                   /\ TimeField(p) = (p.ts - r.pkt.ts) % TsMod
<1> DEFINE r == Last(sent[c])
<1>1. /\ p.hdr \in {LARGE, MEDIUM} /\ p.ch = c /\ p.ts \in 0 .. TsMod - 1 /\ sent[c] \in Seq(Sendings)
      /\ sent[c] = <<>> => p.hdr = LARGE
  BY DEF Sendable, Packets, ChunkTypes, Stamps
<1>2. CASE p.hdr = LARGE
  <2>1. p.ts % TsMod = p.ts
    BY <1>1, RtmpChunkAssumption
  <2> QED BY <1>1, <1>2, <2>1 DEF HeaderType, TimeField
<1>3. CASE p.hdr # LARGE
  <2>1. r \in Sendings /\ sent[c] # <<>>
    BY <1>1, <1>3, LastIs
  <2>2. vecOut[c] = [r.pkt EXCEPT !.hdr = r.head.hdr]
    BY <2>1 DEF OutInv
  <2>3. r.pkt \in Packets
    BY <2>1 DEF Sendings
  <2> HIDE DEF r
  <2>4. vecOut[c].size = r.pkt.size /\ vecOut[c].type = r.pkt.type /\ vecOut[c].ts = r.pkt.ts
    BY <2>2, <2>3 DEF Packets
  <2>5. vecOut[c] # None
    BY <2>2, <2>3 DEF Packets, None
  <2>6. /\ HeaderType(p) = Compressed(p, vecOut[c])
        /\ TimeField(p) = (p.ts - r.pkt.ts) % TsMod
    BY <1>1, <1>3, <2>4, <2>5 DEF HeaderType, TimeField
  <2>7. p.hdr = MEDIUM
    BY <1>1, <1>3
  <2> QED BY <1>3, <2>1, <2>4, <2>6, <2>7 DEF Compressed, r, LARGE, MEDIUM, SMALL, MINIMUM
<1> QED BY <1>2, <1>3

(* The first header is one, and carries the time that TimeField computes.  *)
LEMMA FirstHeaderIs ==
  ASSUME ChunkTypes, NEW c \in Channels, OutInv(c), NEW p, Sendable(p, c)
  PROVE  LET f == FirstHeader(p)
             t == TimeField(p)
         IN  /\ f \in Headers /\ t \in Stamps
             /\ f.hdr = HeaderType(p) /\ f.ch = c /\ f.id = p.id /\ f.off = 0
             /\ f.size = p.size /\ f.type = p.type /\ f.sid = p.sid
             /\ f.ext # -1 <=> f.hdr # MINIMUM /\ t >= ExtTs
             /\ f.hdr # MINIMUM => t = IF f.ext # -1 THEN f.ext ELSE f.time
<1>1. /\ p.hdr \in {LARGE, MEDIUM} /\ p.ch = c /\ p.ts \in 0 .. TsMod - 1 /\ sent[c] \in Seq(Sendings)
      /\ p.size \in Nat /\ p.type \in Kinds /\ p.sid \in {0, 1} /\ p.id \in Nat
  BY DEF Sendable, Packets, ChunkTypes, Stamps
<1> DEFINE h == HeaderType(p)
           t == TimeField(p)
<1>2. h \in LARGE .. MINIMUM
  BY <1>1, HeaderIs DEF LARGE, MEDIUM, SMALL, MINIMUM
<1>3. t \in 0 .. TsMod - 1
  <2>1. CASE p.hdr = LARGE
    BY <1>1, <2>1, HeaderIs
  <2>2. CASE p.hdr # LARGE
    <3> DEFINE r == Last(sent[c])
    <3>1. t = (p.ts - r.pkt.ts) % TsMod /\ sent[c] # <<>>
      BY <2>2, HeaderIs
    <3>0. r \in Sendings
      BY <1>1, <3>1, LastIs
    <3>2. r.pkt.ts \in 0 .. TsMod - 1
      BY <3>0 DEF Sendings, Packets, Stamps
    <3> HIDE DEF t, r
    <3>3. TsMod \in Nat \ {0}
      BY RtmpChunkAssumption
    <3>4. (p.ts - r.pkt.ts) % TsMod \in 0 .. TsMod - 1
      BY <1>1, <3>2, <3>3, TakenBack
    <3> QED BY <3>1, <3>4
  <2> QED BY <2>1, <2>2
<1>4. FirstHeader(p) = [kind |-> "header", hdr |-> h, ch |-> c,
                        time |-> IF t > ExtTs THEN ExtTs ELSE t,
                        ext  |-> IF h # MINIMUM /\ t >= ExtTs THEN t ELSE -1,
                        size |-> p.size, type |-> p.type, sid |-> p.sid, id |-> p.id, off |-> 0]
  BY <1>1 DEF FirstHeader
<1> HIDE DEF h, t
<1>5. ExtTs \in 1 .. TsMod - 1 /\ TsMod \in Nat
  BY RtmpChunkAssumption
<1> SUFFICES /\ FirstHeader(p) \in Headers /\ t \in Stamps
             /\ LET f == FirstHeader(p)
                IN  /\ f.hdr = h /\ f.ch = c /\ f.id = p.id /\ f.off = 0
                    /\ f.size = p.size /\ f.type = p.type /\ f.sid = p.sid
                    /\ f.ext # -1 <=> f.hdr # MINIMUM /\ t >= ExtTs
                    /\ f.hdr # MINIMUM => t = IF f.ext # -1 THEN f.ext ELSE f.time
  BY DEF h, t
<1>6. FirstHeader(p) \in Headers /\ t \in Stamps
  BY <1>1, <1>2, <1>3, <1>4, <1>5 DEF Headers, Stamps
<1> QED BY <1>3, <1>4, <1>5, <1>6

Noted(p) ==
  [pkt |-> p, head |-> FirstHeader(p), cut |-> outChunk, lost |-> TimeLost(p),
   field |-> IF FirstHeader(p).hdr = MINIMUM THEN Last(sent[p.ch]).field ELSE TimeField(p)]

(* What Send notes down of a packet is what SentOf asks of its last        *)
(* entry.                                                                  *)
LEMMA NotedIs ==
  ASSUME ChunkTypes, NEW c \in Channels, OutInv(c), NEW p, Sendable(p, c)
  PROVE  LET s == Noted(p)
         IN  /\ s \in Sendings /\ s.cut = outChunk /\ s.pkt = p /\ s.head = FirstHeader(p)
             /\ Alike(s, c, Len(sent[c]) + 1) /\ Timed(s)
             /\ sent[c] = <<>> => s.head.hdr = LARGE
             /\ sent[c] # <<>> => Omits(s, Last(sent[c]))
<1> DEFINE f == FirstHeader(p)
           t == TimeField(p)
           r == Last(sent[c])
           s == Noted(p)
<1>1. /\ f \in Headers /\ t \in Stamps
      /\ f.ch = c /\ f.id = p.id /\ f.off = 0
      /\ f.size = p.size /\ f.type = p.type /\ f.sid = p.sid
      /\ f.ext # -1 <=> f.hdr # MINIMUM /\ t >= ExtTs
      /\ f.hdr # MINIMUM => t = IF f.ext # -1 THEN f.ext ELSE f.time
  BY FirstHeaderIs
<1>2. /\ p.hdr = LARGE => f.hdr = LARGE /\ t = p.ts
      /\ p.hdr # LARGE =>
            /\ sent[c] # <<>> /\ f.hdr \in {MEDIUM, SMALL, MINIMUM}
            /\ f.hdr > MEDIUM => p.size = r.pkt.size /\ p.type = r.pkt.type
            /\ f.hdr = MINIMUM => p.ts = r.pkt.ts
            /\ t = (p.ts - r.pkt.ts) % TsMod
  BY HeaderIs, FirstHeaderIs
<1>3. /\ p \in Packets /\ p.ch = c /\ p.id = Len(sent[c]) + 1 /\ sent[c] \in Seq(Sendings)
      /\ outChunk \in ChunkSizes
      /\ IF c = CtlChannel
         THEN p.type = SetChunk /\ p.size = 1 /\ p.value \in ChunkSizes /\ p.sid = 0 /\ p.hdr = LARGE
         ELSE p.type # SetChunk /\ p.sid = 1
  BY DEF Sendable, ChunkTypes
<1>4. /\ TimeLost(p) \in BOOLEAN
      /\ ~TimeLost(p) => /\ f.hdr = MINIMUM => r.field = 0
                         /\ f.ext # -1 => ~(p.size > outChunk)
                         /\ p.hdr # LARGE /\ sent[c] # <<>> => ~r.lost
  <2>1. TimeLost(p) = (\/ f.hdr = MINIMUM /\ r.field # 0
                       \/ f.ext # -1 /\ p.size > outChunk
                       \/ p.hdr # LARGE /\ sent[c] # <<>> /\ r.lost)
    BY <1>3 DEF TimeLost
  <2>2. sent[c] # <<>> => r.lost \in BOOLEAN
    <3>1. sent[c] # <<>> => r \in Sendings
      BY <1>3, LastIs
    <3> QED BY <3>1 DEF Sendings
  <2> HIDE DEF f, r
  <2> QED BY <2>1, <2>2
<1>5. s = [pkt |-> p, head |-> f, cut |-> outChunk, lost |-> TimeLost(p),
           field |-> IF f.hdr = MINIMUM THEN r.field ELSE t]
  BY <1>3 DEF Noted
<1>6. sent[c] # <<>> => r \in Sendings
  BY <1>3, LastIs
<1> HIDE DEF f, t, r, s
<1>7. s.field \in Stamps /\ (f.hdr # MINIMUM => s.field = t) /\ (f.hdr = MINIMUM => s.field = r.field)
  <2>1. f.hdr = MINIMUM => sent[c] # <<>>
    BY <1>2 DEF LARGE, MINIMUM
  <2> QED BY <1>1, <1>5, <1>6, <2>1 DEF Sendings
<1>8. s \in Sendings
  <2>1. s.field = IF f.hdr = MINIMUM THEN r.field ELSE t
    BY <1>5
  <2>2. s = [pkt |-> p, head |-> f, cut |-> outChunk, lost |-> TimeLost(p), field |-> s.field]
    BY <1>5, <2>1
  <2> QED BY <1>1, <1>3, <1>4, <1>7, <2>2 DEF Sendings
<1>9. /\ s.pkt = p /\ s.head = f /\ s.cut = outChunk /\ s.lost = TimeLost(p)
  BY <1>5
<1>10. p.hdr = LARGE <=> f.hdr = LARGE
  BY <1>2 DEF LARGE, MEDIUM, SMALL, MINIMUM
<1>11. Alike(s, c, Len(sent[c]) + 1)
  BY <1>1, <1>3, <1>9, <1>10 DEF Alike
<1>12. Timed(s)
  <2>1. f.hdr = LARGE => f.hdr # MINIMUM /\ t = p.ts
    BY <1>2, <1>10 DEF LARGE, MINIMUM
  <2>2. ~(p.size > outChunk) => p.size <= outChunk
    BY <1>3, RtmpChunkAssumption DEF Packets
  <2> QED BY <1>1, <1>4, <1>7, <1>9, <2>1, <2>2 DEF Timed
<1>13. sent[c] = <<>> => s.head.hdr = LARGE
  BY <1>2, <1>9
<1>14. ASSUME sent[c] # <<>> PROVE Omits(s, r)
  <2>1. f.hdr > MEDIUM => p.hdr # LARGE
    BY <1>2 DEF LARGE, MEDIUM
  <2>2. f.hdr \in {MEDIUM, SMALL} => (s.field + r.pkt.ts) % TsMod = p.ts
    <3> SUFFICES ASSUME f.hdr \in {MEDIUM, SMALL} PROVE (s.field + r.pkt.ts) % TsMod = p.ts
      OBVIOUS
    <3>1. s.field = (p.ts - r.pkt.ts) % TsMod
      BY <1>2, <1>7, <1>10 DEF LARGE, MEDIUM, SMALL, MINIMUM
    <3>2. p.ts \in 0 .. TsMod - 1 /\ r.pkt.ts \in 0 .. TsMod - 1
      BY <1>3, <1>6, <1>14 DEF Sendings, Packets, Stamps
    <3>3. TsMod \in Nat \ {0}
      BY RtmpChunkAssumption
    <3>4. (((p.ts - r.pkt.ts) % TsMod) + r.pkt.ts) % TsMod = p.ts
      BY <3>2, <3>3, TakenBack
    <3> QED BY <3>1, <3>4
  <2>3. f.hdr = MINIMUM => p.hdr # LARGE
    BY <1>2 DEF LARGE, MINIMUM
  <2> QED BY <1>2, <1>4, <1>7, <1>9, <1>10, <1>14, <2>1, <2>2, <2>3 DEF Omits
<1> QED BY <1>8, <1>9, <1>11, <1>12, <1>13, <1>14 DEF s, f, r

-----------------------------------------------------------------------------
(* The chunks of a packet.                                                 *)

(* The loop over nSize ends at the end of the body.                        *)
LEMMA HowMany ==
  ASSUME NEW size \in Nat, NEW chunk \in Nat \ {0}
  PROVE  LET n == IF size = 0 THEN 1 ELSE (size + chunk - 1) \div chunk
         IN  /\ n \in Nat \ {0} /\ (size > 0 => (n - 1) * chunk < size) /\ n * chunk >= size
             /\ (size = 0 => n = 1)
<1> DEFINE m == (size + chunk - 1) \div chunk
<1>1. m \in Nat /\ m * chunk >= size /\ m * chunk - chunk < size
  OBVIOUS
<1>2. (m - 1) * chunk = m * chunk - chunk
  BY <1>1
<1>3. size > 0 => m # 0
  BY <1>1
<1>4. 1 * chunk >= 0
  OBVIOUS
<1> HIDE DEF m
<1> QED BY <1>1, <1>2, <1>3, <1>4 DEF m

LEMMA Multiples ==
  ASSUME NEW chunk \in Nat \ {0}, NEW k \in Nat \ {0}, NEW n \in Nat, k < n
  PROVE  /\ k * chunk <= (n - 1) * chunk
OBVIOUS

(* Where the chunks begin.                                                 *)
LEMMA Before ==
  ASSUME NEW chunk \in Nat \ {0}, NEW k \in Nat \ {0}
  PROVE  /\ (k - 1) * chunk + chunk = k * chunk /\ (k - 1) * chunk \in Nat /\ k * chunk \in Nat
         /\ (k - 1) * chunk = 0 <=> k = 1
         /\ k # 1 => chunk <= (k - 1) * chunk
<1>1. (k - 1) * chunk + chunk = k * chunk
  OBVIOUS
<1>2. (k - 1) * chunk \in Nat /\ k * chunk \in Nat
  OBVIOUS
<1>3. k # 1 => (k - 1) * chunk >= chunk
  OBVIOUS
<1> QED BY <1>1, <1>2, <1>3

LEMMA BytesAre ==
  ASSUME NEW p \in Packets, NEW a \in Nat, NEW b \in Nat, a <= b
  PROVE  /\ Bytes(p, a, b) \in Seq(BodyBytes) /\ Len(Bytes(p, a, b)) = b - a
         /\ \A i \in 1 .. b - a : Bytes(p, a, b)[i] = [kind |-> "byte", id |-> p.id, off |-> a + i]
<1>1. b - a \in Nat /\ p.id \in Nat
  BY DEF Packets
<1>2. \A i \in 1 .. b - a : [kind |-> "byte", id |-> p.id, off |-> a + i] \in BodyBytes
  BY <1>1 DEF BodyBytes
<1> QED BY <1>1, <1>2 DEF Bytes

(* Bytes up to a point and from it on.                                     *)
LEMMA BytesJoin ==
  ASSUME NEW p \in Packets, NEW a \in Nat, NEW b \in Nat, a <= b
  PROVE  Bytes(p, 0, a) \o Bytes(p, a, b) = Bytes(p, 0, b)
<1> DEFINE x == Bytes(p, 0, a)
           y == Bytes(p, a, b)
           z == Bytes(p, 0, b)
<1>0. ASSUME NEW n \in Nat
      PROVE  /\ Bytes(p, 0, n) \in Seq(BodyBytes) /\ Len(Bytes(p, 0, n)) = n
             /\ \A i \in 1 .. n : Bytes(p, 0, n)[i] = [kind |-> "byte", id |-> p.id, off |-> i]
  <2>1. n - 0 = n /\ \A i \in 1 .. n : 0 + i = i
    OBVIOUS
  <2>2. /\ Bytes(p, 0, n) \in Seq(BodyBytes) /\ Len(Bytes(p, 0, n)) = n - 0
        /\ \A i \in 1 .. n - 0 : Bytes(p, 0, n)[i] = [kind |-> "byte", id |-> p.id, off |-> 0 + i]
    BY BytesAre
  <2> QED BY <2>1, <2>2
<1>1. /\ x \in Seq(BodyBytes) /\ Len(x) = a
      /\ \A i \in 1 .. a : x[i] = [kind |-> "byte", id |-> p.id, off |-> i]
  BY <1>0
<1>2. /\ y \in Seq(BodyBytes) /\ Len(y) = b - a
      /\ \A i \in 1 .. b - a : y[i] = [kind |-> "byte", id |-> p.id, off |-> a + i]
  BY BytesAre
<1>3. /\ z \in Seq(BodyBytes) /\ Len(z) = b
      /\ \A i \in 1 .. b : z[i] = [kind |-> "byte", id |-> p.id, off |-> i]
  BY <1>0
<1> HIDE DEF x, y, z
<1>4. /\ x \o y \in Seq(BodyBytes) /\ Len(x \o y) = b
      /\ \A i \in 1 .. b : (x \o y)[i] = IF i <= a THEN x[i] ELSE y[i - a]
  <2>1. x \in Seq(BodyBytes) /\ y \in Seq(BodyBytes) /\ Len(x) = a /\ Len(x) + Len(y) = b
    BY <1>1, <1>2
  <2>2. /\ x \o y \in Seq(BodyBytes) /\ Len(x \o y) = Len(x) + Len(y)
        /\ \A i \in 1 .. Len(x) + Len(y) : (x \o y)[i] = IF i <= Len(x) THEN x[i] ELSE y[i - Len(x)]
    BY ONLY <2>1
  <2> QED BY <2>1, <2>2
<1>5. ASSUME NEW i \in 1 .. b PROVE (x \o y)[i] = z[i]
  <2>1. CASE i <= a
    BY <1>1, <1>3, <1>4, <2>1
  <2>2. CASE ~(i <= a)
    <3>1. i - a \in 1 .. b - a /\ a + (i - a) = i
      BY <2>2
    <3> QED BY <1>2, <1>3, <1>4, <2>2, <3>1
  <2> QED BY <2>1, <2>2
<1>6. x \o y = z
  BY <1>3, <1>4, <1>5
<1> QED BY <1>6 DEF x, y, z

(* A header and what is behind it.                                         *)
LEMMA Fronted ==
  ASSUME NEW S, NEW h \in S, NEW b \in Seq(S)
  PROVE  LET q == <<h>> \o b
         IN  /\ q \in Seq(S) /\ Len(q) = Len(b) + 1 /\ q # <<>> /\ q[1] = h /\ Head(q) = h
             /\ SubSeq(q, 2, Len(b) + 1) = b /\ SubSeq(q, Len(b) + 2, Len(q)) = <<>>
             /\ Tail(q) = b
<1> DEFINE q == <<h>> \o b
<1>1. q \in Seq(S) /\ Len(q) = Len(b) + 1 /\ q[1] = h /\ \A i \in 1 .. Len(b) : q[i + 1] = b[i]
  OBVIOUS
<1> HIDE DEF q
<1>2. Len(b) \in Nat
  OBVIOUS
<1>3. SubSeq(q, 2, Len(b) + 1) = b
  <2>1. /\ SubSeq(q, 2, Len(b) + 1) \in Seq(S) /\ Len(SubSeq(q, 2, Len(b) + 1)) = Len(b)
        /\ \A i \in 1 .. Len(b) : SubSeq(q, 2, Len(b) + 1)[i] = q[i + 1]
    BY <1>1, <1>2
  <2> QED BY <1>1, <1>2, <2>1
<1>4. SubSeq(q, Len(b) + 2, Len(q)) = <<>>
  BY <1>1, <1>2
<1>5. Tail(q) = b
  BY <1>1, <1>2
<1> QED BY <1>1, <1>2, <1>3, <1>4, <1>5 DEF q

Symbols == Headers \cup BodyBytes

(* A piece ends inside its packet, behind where it begins.                 *)
LEMMA UptoIs ==
  ASSUME NEW s \in Sendings, NEW from \in Nat, from = 0 \/ from < s.pkt.size
  PROVE  /\ Upto(s, from) \in Nat /\ from <= Upto(s, from) /\ Upto(s, from) <= s.pkt.size
         /\ Upto(s, from) # s.pkt.size => Upto(s, from) = from + s.cut /\ Upto(s, from) > 0
<1>1. s.pkt.size \in Nat /\ s.cut \in Nat \ {0}
  BY RtmpChunkAssumption DEF Sendings, Packets
<1> QED BY <1>1 DEF Upto

(* A piece is a header and the bytes that its chunk holds.                 *)
LEMMA PieceIs ==
  ASSUME NEW s \in Sendings, NEW c, NEW m, Alike(s, c, m),
         NEW from \in Nat, from = 0 \/ from < s.pkt.size
  PROVE  LET q == Piece(s, from)
             h == IF from = 0 THEN s.head ELSE NextHeader(s.pkt, from)
         IN  /\ q \in Seq(Symbols) /\ q # <<>> /\ q[1] = h /\ Head(q) = h
             /\ Len(q) = 1 + (Upto(s, from) - from)
             /\ SubSeq(q, 2, Len(q)) = Bytes(s.pkt, from, Upto(s, from))
             /\ SubSeq(q, Len(q) + 1, Len(q)) = <<>>
             /\ q[1] \in Headers /\ q[1].id = m /\ q[1].off = from /\ q[1].ch = c
<1> DEFINE h == IF from = 0 THEN s.head ELSE NextHeader(s.pkt, from)
           b == Bytes(s.pkt, from, Upto(s, from))
<1>1. s.pkt \in Packets /\ s.head \in Headers
  BY DEF Sendings
<1>2. /\ b \in Seq(BodyBytes) /\ Len(b) = Upto(s, from) - from
  BY <1>1, UptoIs, BytesAre
<1>3. /\ s.pkt.ch = c /\ s.pkt.id = m /\ s.head.ch = c /\ s.head.id = m /\ s.head.off = 0
  BY DEF Alike
<1>4. NextHeader(s.pkt, from) \in Headers
  <2>1. 0 \in Stamps
    BY RtmpChunkAssumption DEF Stamps
  <2> QED BY <1>1, <2>1 DEF NextHeader, Headers, Packets, LARGE, MINIMUM
<1>5. h \in Headers /\ h.id = m /\ h.off = from /\ h.ch = c
  BY <1>1, <1>3, <1>4 DEF NextHeader
<1>6. Piece(s, from) = <<h>> \o b
  BY DEF Piece
<1> HIDE DEF h, b
<1>7. h \in Symbols /\ b \in Seq(Symbols)
  BY <1>2, <1>5 DEF Symbols
<1>8. Upto(s, from) - from \in Nat
  BY UptoIs
<1> DEFINE q == Piece(s, from)
<1>9. /\ q \in Seq(Symbols) /\ Len(q) = Len(b) + 1 /\ q # <<>> /\ q[1] = h /\ Head(q) = h
      /\ SubSeq(q, 2, Len(b) + 1) = b /\ SubSeq(q, Len(b) + 2, Len(q)) = <<>>
  BY <1>6, <1>7, Fronted
<1> HIDE DEF q
<1>10. Len(b) + 2 = Len(q) + 1
  BY <1>2, <1>8, <1>9
<1>11. /\ Len(q) = 1 + (Upto(s, from) - from)
       /\ SubSeq(q, 2, Len(q)) = b /\ SubSeq(q, Len(q) + 1, Len(q)) = <<>>
  BY <1>2, <1>8, <1>9, <1>10
<1> QED BY <1>5, <1>9, <1>11 DEF q, h, b

(* What Chunks makes of a packet are its pieces, one behind the other.     *)
LEMMA ChunksArePieces ==
  ASSUME NEW s \in Sendings, NEW c, NEW m, Alike(s, c, m), s.head = FirstHeader(s.pkt)
  PROVE  LET q == Chunks(s.pkt, s.cut)
         IN  /\ q \in Seq(Seq(Symbols)) /\ q # <<>>
             /\ \A k \in 1 .. Len(q) :
                   LET from == (k - 1) * s.cut
                   IN  /\ q[k] = Piece(s, from) /\ from \in Nat
                       /\ from = 0 \/ (s.cut <= from /\ from < s.pkt.size)
                       /\ k < Len(q) => Upto(s, from) = k * s.cut /\ k * s.cut < s.pkt.size
                       /\ k = Len(q) => Upto(s, from) = s.pkt.size
             /\ s.pkt.size <= 1 => Len(q) = 1
<1> DEFINE p == s.pkt
           chunk == s.cut
           n == IF p.size = 0 THEN 1 ELSE (p.size + chunk - 1) \div chunk
           Hi(k) == IF k * chunk > p.size THEN p.size ELSE k * chunk
           item(k) == <<IF k = 1 THEN FirstHeader(p) ELSE NextHeader(p, (k - 1) * chunk)>>
                        \o Bytes(p, (k - 1) * chunk, Hi(k))
           q == Chunks(p, chunk)
<1>1. p \in Packets /\ p.size \in Nat /\ chunk \in Nat \ {0}
  BY RtmpChunkAssumption DEF Sendings, Packets
<1>2. q = [k \in 1 .. n |-> item(k)]
  BY DEF Chunks
<1> HIDE DEF q
<1>3. /\ n \in Nat \ {0} /\ (p.size > 0 => (n - 1) * chunk < p.size) /\ n * chunk >= p.size
      /\ (p.size = 0 => n = 1)
  BY <1>1, HowMany
<1> HIDE DEF p, chunk, n
<1>4. ASSUME NEW k \in 1 .. n
      PROVE  LET from == (k - 1) * chunk
             IN  /\ item(k) = Piece(s, from) /\ from \in Nat
                 /\ from = 0 \/ (chunk <= from /\ from < p.size)
                 /\ k < n => Upto(s, from) = k * chunk /\ k * chunk < p.size
                 /\ k = n => Upto(s, from) = p.size
  <2> DEFINE from == (k - 1) * chunk
             to == k * chunk
  <2>1. /\ from + chunk = to /\ from \in Nat /\ to \in Nat /\ (from = 0 <=> k = 1)
        /\ k # 1 => chunk <= from
    BY <1>1, Before
  <2>2. k < n => to <= (n - 1) * chunk
    BY <1>1, <1>3, Multiples
  <2>3. k # 1 => from <= (n - 1) * chunk
    <3> SUFFICES ASSUME k # 1 PROVE from <= (n - 1) * chunk
      OBVIOUS
    <3>1. k - 1 \in Nat \ {0} /\ k - 1 < n
      BY <1>3
    <3> QED BY <1>1, <1>3, <3>1, Multiples
  <2>4. (n - 1) * chunk \in Nat
    BY <1>1, <1>3
  <2>5. Hi(k) = IF to > p.size THEN p.size ELSE to
    OBVIOUS
  <2>6. Upto(s, from) = IF from + chunk < p.size THEN from + chunk ELSE p.size
    BY DEF Upto, p, chunk
  <2>7. Piece(s, from) = <<IF from = 0 THEN FirstHeader(p) ELSE NextHeader(p, from)>>
                          \o Bytes(p, from, Upto(s, from))
    BY DEF Piece, p
  <2>8. item(k) = <<IF k = 1 THEN FirstHeader(p) ELSE NextHeader(p, from)>> \o Bytes(p, from, Hi(k))
    OBVIOUS
  <2>9. k = n => to >= p.size
    BY <1>3
  <2>10. k < n => n # 1
    BY <1>3
  <2>11. k # 1 => n # 1
    BY <1>3
  <2> HIDE DEF from, to, Hi, item
  <2>12. Hi(k) = Upto(s, from)
    BY <1>1, <2>1, <2>5, <2>6
  <2>13. from = 0 \/ (chunk <= from /\ from < p.size)
    <3> SUFFICES ASSUME k # 1 PROVE chunk <= from /\ from < p.size
      BY <2>1
    <3>1. p.size > 0 /\ (n - 1) * chunk < p.size
      BY <1>1, <1>3, <2>11
    <3> DEFINE last == (n - 1) * chunk
    <3>2. from <= last /\ last \in Nat /\ last < p.size
      BY <2>3, <2>4, <3>1
    <3> HIDE DEF last
    <3> QED BY <1>1, <2>1, <3>2
  <2>14. k < n => Upto(s, from) = to /\ to < p.size
    BY <1>1, <1>3, <2>1, <2>2, <2>4, <2>6, <2>10
  <2>15. k = n => Upto(s, from) = p.size
    BY <1>1, <2>1, <2>6, <2>9
  <2> QED BY <2>1, <2>7, <2>8, <2>12, <2>13, <2>14, <2>15 DEF from, to
<1>5. ASSUME NEW k \in 1 .. n PROVE item(k) \in Seq(Symbols)
  <2> DEFINE from == (k - 1) * chunk
  <2>1. item(k) = Piece(s, from) /\ from \in Nat /\ (from = 0 \/ from < s.pkt.size)
    BY <1>4 DEF p
  <2> HIDE DEF item, from
  <2> QED BY <2>1, PieceIs
<1> HIDE DEF item
<1>6. q \in Seq(Seq(Symbols)) /\ Len(q) = n /\ \A k \in 1 .. n : q[k] = item(k)
  BY <1>2, <1>3, <1>5
<1>7. q # <<>>
  BY <1>3, <1>6
<1>8. p.size <= 1 => n = 1
  <2> SUFFICES ASSUME p.size <= 1, n > 1 PROVE FALSE
    BY <1>3
  <2>1. 1 * chunk <= (n - 1) * chunk
    BY <1>1, <1>3, Multiples
  <2>2. (n - 1) * chunk \in Nat /\ p.size > 0
    BY <1>1, <1>3
  <2> QED BY <1>1, <1>3, <2>1, <2>2
<1> QED BY <1>4, <1>6, <1>7, <1>8 DEF p, chunk, q

-----------------------------------------------------------------------------
(* More is sent.                                                           *)

(* One more at the end of a sequence.                                      *)
LEMMA AppendIs ==
  ASSUME NEW T, NEW S \in Seq(T), NEW s \in T
  PROVE  LET A == Append(S, s)
         IN  /\ A \in Seq(T) /\ Len(A) = Len(S) + 1 /\ A[Len(S) + 1] = s /\ A # <<>> /\ Last(A) = s
             /\ \A m \in 1 .. Len(S) : A[m] = S[m]
             /\ Len(S) + 1 \in 1 .. Len(A)
  BY DEF Last

(* SentOf holds of one packet more.                                        *)
LEMMA SentGrows ==
  ASSUME NEW c, NEW S \in Seq(Sendings), SentOf(S, c), NEW s \in Sendings,
         Alike(s, c, Len(S) + 1), Timed(s),
         S = <<>> => s.head.hdr = LARGE, S # <<>> => Omits(s, Last(S))
  PROVE  SentOf(Append(S, s), c)
<1> DEFINE A == Append(S, s)
<1>1. /\ Len(A) = Len(S) + 1 /\ A[Len(S) + 1] = s /\ \A m \in 1 .. Len(S) : A[m] = S[m]
      /\ Len(S) \in Nat /\ (S # <<>> => Last(S) = S[Len(S)])
  BY DEF Last
<1> HIDE DEF A
<1>2. ASSUME NEW m \in 1 .. Len(S)
      PROVE  /\ Alike(A[m], c, m) /\ Timed(A[m])
             /\ m = 1 => A[m].head.hdr = LARGE
             /\ m > 1 => Omits(A[m], A[m - 1])
  <2>1. A[m] = S[m]
    BY <1>1
  <2>2. m > 1 => A[m - 1] = S[m - 1]
    BY <1>1
  <2> QED BY <2>1, <2>2 DEF SentOf
<1>3. LET m == Len(S) + 1
      IN  /\ Alike(A[m], c, m) /\ Timed(A[m])
          /\ m = 1 => A[m].head.hdr = LARGE
          /\ m > 1 => Omits(A[m], A[m - 1])
  <2>1. Len(S) > 0 => S # <<>> /\ A[Len(S)] = S[Len(S)]
    BY <1>1
  <2>2. Len(S) = 0 => S = <<>>
    OBVIOUS
  <2>3. (Len(S) + 1) - 1 = Len(S)
    BY <1>1
  <2> QED BY <1>1, <2>1, <2>2, <2>3
<1>4. \A m \in 1 .. Len(A) : m \in 1 .. Len(S) \/ m = Len(S) + 1
  BY <1>1
<1> QED BY <1>2, <1>3, <1>4 DEF SentOf, A

LEMMA FollowsGrows ==
  ASSUME NEW S \in Seq(Sendings), NEW s \in Sendings, NEW h, h.id \in 1 .. Len(S), NEW id, NEW off
  PROVE  Follows(h, Append(S, s), id, off) = Follows(h, S, id, off)
<1>1. Append(S, s)[h.id] = S[h.id]
  OBVIOUS
<1> QED BY <1>1 DEF Follows

(* What is a chunk of packets is one of more packets.                      *)
LEMMA IsChunkGrows ==
  ASSUME NEW S \in Seq(Sendings), NEW s \in Sendings, NEW q, IsChunk(q, S)
  PROVE  IsChunk(q, Append(S, s))
<1> DEFINE A == Append(S, s)
<1>1. /\ Len(A) = Len(S) + 1 /\ Len(S) \in Nat /\ \A m \in 1 .. Len(S) : A[m] = S[m]
  OBVIOUS
<1> HIDE DEF A
<1>2. q[1].id \in 1 .. Len(S)
  BY DEF IsChunk
<1>3. q[1].id \in 1 .. Len(A) /\ A[q[1].id] = S[q[1].id]
  BY <1>1, <1>2
<1> QED BY <1>3 DEF IsChunk, A

(* Pieces of a new packet behind the line.                                 *)
LEMMA LineGrows ==
  ASSUME NEW c, NEW S \in Seq(Sendings), NEW s \in Sendings, Alike(s, c, Len(S) + 1),
         NEW Q, NEW L \in Seq(Seq(Symbols)), NEW n \in Nat, NEW r, LineOf(L, S, n, r),
         Q \in Seq(Seq(Symbols)), Q # <<>>,
         \A k \in 1 .. Len(Q) :
            LET from == (k - 1) * s.cut
            IN  /\ Q[k] = Piece(s, from) /\ from \in Nat
                /\ from = 0 \/ (s.cut <= from /\ from < s.pkt.size)
                /\ k < Len(Q) => Upto(s, from) = k * s.cut /\ k * s.cut < s.pkt.size
                /\ k = Len(Q) => Upto(s, from) = s.pkt.size
  PROVE  LineOf(L \o Q, Append(S, s), n, r)
<1> DEFINE A == Append(S, s)
           M == L \o Q
           from(k) == (k - 1) * s.cut
<1>1. /\ A \in Seq(Sendings) /\ Len(A) = Len(S) + 1 /\ A[Len(S) + 1] = s /\ Len(S) \in Nat
      /\ \A m \in 1 .. Len(S) : A[m] = S[m]
  OBVIOUS
<1>2. /\ Len(L) \in Nat /\ Len(Q) \in Nat \ {0} /\ Len(M) = Len(L) + Len(Q) /\ M # <<>>
      /\ \A i \in 1 .. Len(L) : M[i] = L[i]
      /\ \A k \in 1 .. Len(Q) : M[Len(L) + k] = Q[k]
  OBVIOUS
<1> HIDE DEF A, M
<1>3. ASSUME NEW k \in 1 .. Len(Q)
      PROVE  /\ Q[k] = Piece(s, from(k)) /\ Q[k][1].id = Len(S) + 1 /\ Q[k][1].off = from(k)
             /\ IsChunk(Q[k], A)
             /\ k < Len(Q) => Follows(Q[k][1], A, Len(S) + 1, from(k + 1))
             /\ k = Len(Q) => Follows(Q[k][1], A, Len(A) + 1, 0)
  <2>1. /\ Q[k] = Piece(s, from(k)) /\ from(k) \in Nat
        /\ from(k) = 0 \/ (s.cut <= from(k) /\ from(k) < s.pkt.size)
        /\ k < Len(Q) => Upto(s, from(k)) = k * s.cut /\ k * s.cut < s.pkt.size
        /\ k = Len(Q) => Upto(s, from(k)) = s.pkt.size
    OBVIOUS
  <2>2. from(k + 1) = k * s.cut
    <3>1. (k + 1) - 1 = k
      OBVIOUS
    <3> QED BY <3>1
  <2> HIDE DEF from
  <2>3. Q[k][1].id = Len(S) + 1 /\ Q[k][1].off = from(k)
    <3>1. \A x \in Nat : x = 0 \/ x < s.pkt.size =>
             Piece(s, x)[1].id = Len(S) + 1 /\ Piece(s, x)[1].off = x
      BY PieceIs
    <3> QED BY <2>1, <3>1
  <2>4. s.pkt.size \in Nat
    BY DEF Sendings, Packets
  <2>5. IsChunk(Q[k], A)
    BY <1>1, <2>1, <2>3 DEF IsChunk
  <2>6. k < Len(Q) => Upto(s, from(k)) # s.pkt.size /\ Upto(s, from(k)) = from(k + 1)
    <3>1. Upto(s, from(k)) \in Nat
      BY <2>1, UptoIs
    <3>2. k < Len(Q) => Upto(s, from(k)) < s.pkt.size /\ Upto(s, from(k)) = from(k + 1)
      BY <2>1, <2>2
    <3> QED BY <2>4, <3>1, <3>2
  <2>7. A[Q[k][1].id] = s
    BY <1>1, <2>3
  <2>8. k < Len(Q) => Follows(Q[k][1], A, Len(S) + 1, from(k + 1))
    BY <2>3, <2>6, <2>7 DEF Follows
  <2>9. k = Len(Q) => Follows(Q[k][1], A, Len(A) + 1, 0)
    BY <1>1, <2>1, <2>3, <2>7 DEF Follows
  <2> QED BY <2>1, <2>3, <2>5, <2>8, <2>9
<1>4. from(1) = 0
  <2>1. s.cut \in Nat
    BY RtmpChunkAssumption DEF Sendings
  <2> QED BY <2>1
<1> HIDE DEF from
<1>5. ASSUME NEW i \in 1 .. Len(L) PROVE IsChunk(L[i], A) /\ L[i][1].id \in 1 .. Len(S)
  BY IsChunkGrows DEF LineOf, A, IsChunk
<1>6. ASSUME NEW i \in 1 .. Len(M) PROVE IsChunk(M[i], A)
  <2>1. CASE i \in 1 .. Len(L)
    BY <1>2, <1>5, <2>1
  <2>2. CASE i \notin 1 .. Len(L)
    <3>1. PICK k \in 1 .. Len(Q) : i = Len(L) + k
      <4>1. i - Len(L) \in 1 .. Len(Q) /\ i = Len(L) + (i - Len(L))
        BY <1>2, <2>2
      <4> QED BY <4>1
    <3> QED BY <1>2, <1>3, <3>1
  <2> QED BY <2>1, <2>2
<1>7. L # <<>> => Follows(L[Len(L)][1], A, Len(S) + 1, 0)
  <2> SUFFICES ASSUME L # <<>> PROVE Follows(L[Len(L)][1], A, Len(S) + 1, 0)
    OBVIOUS
  <2>1. Len(L) \in 1 .. Len(L) /\ Follows(L[Len(L)][1], S, Len(S) + 1, 0)
    BY DEF LineOf
  <2> DEFINE h == L[Len(L)][1]
  <2>2. h.id \in 1 .. Len(S) /\ Follows(h, S, Len(S) + 1, 0)
    BY <1>5, <2>1
  <2> HIDE DEF h
  <2>3. Follows(h, A, Len(S) + 1, 0)
    BY <2>2, FollowsGrows DEF A
  <2> QED BY <2>3 DEF h
<1>8. ASSUME NEW i \in 1 .. Len(M) - 1
      PROVE  Follows(M[i][1], A, M[i + 1][1].id, M[i + 1][1].off)
  <2>1. CASE i < Len(L)
    <3>1. i \in 1 .. Len(L) - 1 /\ i \in 1 .. Len(L) /\ i + 1 \in 1 .. Len(L)
      BY <1>2, <2>1
    <3>2. Follows(L[i][1], S, L[i + 1][1].id, L[i + 1][1].off)
      BY <3>1 DEF LineOf
    <3>3. M[i] = L[i] /\ M[i + 1] = L[i + 1]
      BY <1>2, <3>1
    <3>4. L[i][1].id \in 1 .. Len(S)
      BY <1>5, <3>1
    <3> DEFINE h == L[i][1]
               id == L[i + 1][1].id
               off == L[i + 1][1].off
    <3>5. Follows(h, A, id, off)
      <4>1. h.id \in 1 .. Len(S) /\ Follows(h, S, id, off)
        BY <3>2, <3>4
      <4> HIDE DEF h, id, off
      <4> QED BY <4>1, FollowsGrows DEF A
    <3> QED BY <3>3, <3>5
  <2>2. CASE i = Len(L)
    <3>1. L # <<>> /\ i \in 1 .. Len(L) /\ 1 \in 1 .. Len(Q)
      BY <1>2, <2>2
    <3>2. M[i] = L[Len(L)] /\ M[i + 1] = Q[1]
      BY <1>2, <2>2, <3>1
    <3> QED BY <1>3, <1>4, <1>7, <3>1, <3>2
  <2>3. CASE i > Len(L)
    <3>1. PICK k \in 1 .. Len(Q) : i = Len(L) + k /\ k < Len(Q)
      <4>1. i - Len(L) \in 1 .. Len(Q) /\ i = Len(L) + (i - Len(L)) /\ i - Len(L) < Len(Q)
        BY <1>2, <2>3
      <4> QED BY <4>1
    <3>2. k + 1 \in 1 .. Len(Q) /\ i + 1 = Len(L) + (k + 1)
      BY <1>2, <3>1
    <3>3. M[i] = Q[k] /\ M[i + 1] = Q[k + 1]
      BY <1>2, <3>1, <3>2
    <3> QED BY <1>3, <3>1, <3>2, <3>3
  <2> QED BY <1>2, <2>1, <2>2, <2>3
<1>9. M[1][1].id = n + 1 /\ M[1][1].off = r
  <2>1. CASE L = <<>>
    <3>1. Len(L) = 0 /\ M[1] = Q[1] /\ 1 \in 1 .. Len(Q)
      BY <1>2, <2>1
    <3>2. n = Len(S) /\ r = 0
      BY <2>1 DEF LineOf
    <3> QED BY <1>3, <1>4, <3>1, <3>2
  <2>2. CASE L # <<>>
    <3>1. M[1] = L[1]
      BY <1>2, <2>2
    <3> QED BY <2>2, <3>1 DEF LineOf
  <2> QED BY <2>1, <2>2
<1>10. Follows(M[Len(M)][1], A, Len(A) + 1, 0)
  <2>1. Len(Q) \in 1 .. Len(Q) /\ M[Len(M)] = Q[Len(Q)]
    BY <1>2
  <2> QED BY <1>3, <2>1
<1> QED BY <1>2, <1>6, <1>8, <1>9, <1>10 DEF LineOf, M, A

(* What the reader has does not depend on what is sent later.              *)
LEMMA InGrows ==
  ASSUME NEW S \in Seq(Sendings), NEW s, NEW n \in Nat, n <= Len(S), NEW v, InOf(v, S, n)
  PROVE  InOf(v, Append(S, s), n)
<1> DEFINE A == Append(S, s)
<1>1. Len(A) = Len(S) + 1 /\ Len(S) \in Nat /\ \A m \in 1 .. Len(S) : A[m] = S[m]
  OBVIOUS
<1> HIDE DEF A
<1>2. n > 0 => A[n] = S[n]
  BY <1>1
<1>3. n < Len(S) => A[n + 1] = S[n + 1] /\ n < Len(A)
  BY <1>1
<1> QED BY <1>2, <1>3 DEF InOf, A

LEMMA GotGrows ==
  ASSUME NEW S \in Seq(Sendings), NEW s, NEW G \in Seq(Readings), NEW t, GotOf(G, S, t)
  PROVE  GotOf(G, Append(S, s), t)
<1> DEFINE A == Append(S, s)
<1>1. Len(A) = Len(S) + 1 /\ Len(S) \in Nat /\ Len(G) \in Nat /\ \A m \in 1 .. Len(S) : A[m] = S[m]
  OBVIOUS
<1> HIDE DEF A
<1>2. \A i \in 1 .. Len(G) : A[i] = S[i]
  BY <1>1 DEF GotOf
<1> QED BY <1>1, <1>2 DEF GotOf, A

LEMMA FrontAt ==
  ASSUME NEW T, NEW x \in T, NEW b \in Seq(T)
  PROVE  LET u == <<x>> \o b
         IN  /\ u \in Seq(T) /\ Len(u) = Len(b) + 1 /\ u[1] = x
             /\ \A i \in 1 .. Len(b) : u[i + 1] = b[i]
  OBVIOUS

(* Concatenation behind the first element.                                 *)
LEMMA BehindFront ==
  ASSUME NEW T, NEW x \in T, NEW a \in Seq(T), NEW b \in Seq(T)
  PROVE  (<<x>> \o a) \o b = <<x>> \o (a \o b)
<1> DEFINE u == <<x>> \o a
           w == a \o b
           y == u \o b
           z == <<x>> \o w
<1>1. /\ Len(a) \in Nat /\ Len(b) \in Nat
      /\ u \in Seq(T) /\ Len(u) = Len(a) + 1 /\ u[1] = x /\ \A i \in 1 .. Len(a) : u[i + 1] = a[i]
      /\ w \in Seq(T) /\ Len(w) = Len(a) + Len(b)
      /\ \A i \in 1 .. Len(w) : w[i] = IF i <= Len(a) THEN a[i] ELSE b[i - Len(a)]
  OBVIOUS
<1> HIDE DEF u, w
<1>2. /\ y \in Seq(T) /\ Len(y) = Len(u) + Len(b)
      /\ \A i \in 1 .. Len(y) : y[i] = IF i <= Len(u) THEN u[i] ELSE b[i - Len(u)]
  BY <1>1
<1>3. /\ z \in Seq(T) /\ Len(z) = Len(w) + 1 /\ z[1] = x /\ \A i \in 1 .. Len(w) : z[i + 1] = w[i]
  <2>1. w \in Seq(T)
    BY <1>1
  <2> HIDE <1>1
  <2> QED BY <2>1, FrontAt
<1> HIDE DEF y, z
<1>4. Len(y) = Len(z)
  BY <1>1, <1>2, <1>3
<1>5. ASSUME NEW i \in 1 .. Len(y) PROVE y[i] = z[i]
  <2>1. CASE i = 1
    BY <1>1, <1>2, <1>3, <2>1
  <2>2. CASE i # 1
    <3> DEFINE j == i - 1
    <3>1. j \in 1 .. Len(w) /\ i = j + 1
      BY <1>1, <1>2, <2>2
    <3>2. z[i] = IF j <= Len(a) THEN a[j] ELSE b[j - Len(a)]
      BY <1>1, <1>3, <3>1
    <3>3. j <= Len(a) => y[i] = a[j]
      <4> SUFFICES ASSUME j <= Len(a) PROVE y[i] = a[j]
        OBVIOUS
      <4>1. i <= Len(u) /\ j \in 1 .. Len(a)
        BY <1>1, <3>1
      <4> HIDE DEF j
      <4> QED BY <1>1, <1>2, <3>1, <4>1
    <3>4. ~(j <= Len(a)) => y[i] = b[j - Len(a)]
      <4> SUFFICES ASSUME ~(j <= Len(a)) PROVE y[i] = b[j - Len(a)]
        OBVIOUS
      <4>1. ~(i <= Len(u)) /\ i - Len(u) = j - Len(a)
        BY <1>1, <3>1
      <4> QED BY <1>2, <4>1
    <3> QED BY <3>2, <3>3, <3>4
  <2> QED BY <2>1, <2>2
<1>6. y = z
  BY <1>2, <1>3, <1>4, <1>5
<1> QED BY <1>6 DEF u, w, y, z

(* The first chunk ahead is read: n packets and r bytes become more.       *)
LEMMA LineMoves ==
  ASSUME NEW S \in Seq(Sendings), NEW q \in Seq(Symbols), NEW R \in Seq(Seq(Symbols)),
         NEW n \in Nat, NEW r, LineOf(<<q>> \o R, S, n, r)
  PROVE  /\ IsChunk(q, S) /\ q[1].id = n + 1 /\ q[1].off = r
         /\ LET end == Upto(S[n + 1], r)
            IN  IF end = S[n + 1].pkt.size THEN LineOf(R, S, n + 1, 0) ELSE LineOf(R, S, n, end)
<1> DEFINE L == <<q>> \o R
           end == Upto(S[n + 1], r)
<1>1. /\ L # <<>> /\ Len(L) = Len(R) + 1 /\ L[1] = q /\ Len(R) \in Nat /\ Len(S) \in Nat
      /\ \A i \in 1 .. Len(R) : L[i + 1] = R[i]
  OBVIOUS
<1> HIDE DEF L
<1>2. IsChunk(q, S) /\ q[1].id = n + 1 /\ q[1].off = r
  <2>1. 1 \in 1 .. Len(L)
    BY <1>1
  <2> QED BY <1>1, <2>1 DEF LineOf, L
<1>3. \A i \in 1 .. Len(R) : IsChunk(R[i], S)
  <2>1. \A i \in 1 .. Len(R) : i + 1 \in 1 .. Len(L)
    BY <1>1
  <2> QED BY <1>1, <2>1 DEF LineOf, L
<1>4. \A i \in 1 .. Len(R) - 1 : Follows(R[i][1], S, R[i + 1][1].id, R[i + 1][1].off)
  <2> SUFFICES ASSUME NEW i \in 1 .. Len(R) - 1
               PROVE  Follows(R[i][1], S, R[i + 1][1].id, R[i + 1][1].off)
    OBVIOUS
  <2>1. i + 1 \in 1 .. Len(L) - 1 /\ i \in 1 .. Len(R) /\ i + 1 \in 1 .. Len(R)
    BY <1>1
  <2>2. L[i + 1] = R[i] /\ L[(i + 1) + 1] = R[i + 1]
    BY <1>1, <2>1
  <2>3. Follows(L[i + 1][1], S, L[(i + 1) + 1][1].id, L[(i + 1) + 1][1].off)
    BY <2>1 DEF LineOf, L
  <2> QED BY <2>2, <2>3
<1>5. CASE R = <<>>
  <2>1. L[Len(L)] = q
    BY <1>1, <1>5
  <2>2. Follows(q[1], S, Len(S) + 1, 0)
    BY <1>1, <2>1 DEF LineOf, L
  <2>3. end = S[n + 1].pkt.size => n + 1 = Len(S)
    BY <1>1, <1>2, <2>2 DEF Follows
  <2>4. end # S[n + 1].pkt.size => n + 1 = Len(S) + 1 /\ end = 0
    BY <1>1, <1>2, <2>2 DEF Follows
  <2>5. n + 1 \in 1 .. Len(S)
    BY <1>2 DEF IsChunk
  <2>6. end = S[n + 1].pkt.size
    BY <1>1, <2>4, <2>5
  <2> HIDE DEF end
  <2>7. LineOf(R, S, n + 1, 0)
    BY <1>3, <1>4, <1>5, <2>3, <2>6 DEF LineOf
  <2> QED BY <1>2, <2>6, <2>7 DEF end
<1>6. CASE R # <<>>
  <2>1. 1 \in 1 .. Len(L) - 1 /\ L[1 + 1] = R[1] /\ L[Len(L)] = R[Len(R)]
    BY <1>1, <1>6
  <2>2. Follows(q[1], S, R[1][1].id, R[1][1].off) /\ Follows(R[Len(R)][1], S, Len(S) + 1, 0)
    BY <1>1, <2>1 DEF LineOf, L
  <2>3. IF end = S[n + 1].pkt.size THEN R[1][1].id = (n + 1) + 1 /\ R[1][1].off = 0
                                   ELSE R[1][1].id = n + 1 /\ R[1][1].off = end
    BY <1>2, <2>2 DEF Follows
  <2> HIDE DEF end
  <2>4. end = S[n + 1].pkt.size => LineOf(R, S, n + 1, 0)
    BY <1>3, <1>4, <1>6, <2>2, <2>3 DEF LineOf
  <2>5. end # S[n + 1].pkt.size => LineOf(R, S, n, end)
    BY <1>3, <1>4, <1>6, <2>2, <2>3 DEF LineOf
  <2> QED BY <1>2, <2>4, <2>5 DEF end
<1> QED BY <1>5, <1>6

(* The parts of the invariant that most steps use.                         *)
LEMMA GotWithin ==
  ASSUME ChunkInv, NEW c \in Channels
  PROVE  /\ sent[c] \in Seq(Sendings) /\ got[c] \in Seq(Readings) /\ queued[c] \in Seq(Seq(Symbols))
         /\ wire \in Seq(Symbols) /\ Len(got[c]) \in Nat /\ Len(got[c]) <= Len(sent[c])
         /\ Ahead(c) \in Seq(Seq(Symbols))
<1>1. /\ sent[c] \in Seq(Sendings) /\ got[c] \in Seq(Readings) /\ queued[c] \in Seq(Seq(Symbols))
      /\ wire \in Seq(Symbols)
  BY DEF ChunkInv, ChunkTypes, Symbols
<1>2. Len(got[c]) <= Len(sent[c])
  BY DEF ChunkInv, ChannelInv, GotOf
<1>3. <<wire>> \o queued[c] \in Seq(Seq(Symbols))
  BY <1>1, FrontAt
<1> QED BY <1>1, <1>2, <1>3 DEF Ahead

(* The chunks that wait on a channel are of packets sent on it.            *)
LEMMA WaitingAre ==
  ASSUME ChunkInv, NEW c \in Channels
  PROVE  /\ \A i \in 1 .. Len(queued[c]) : IsChunk(queued[c][i], sent[c])
         /\ OnWire(c) => IsChunk(wire, sent[c])
<1>1. /\ queued[c] \in Seq(Seq(Symbols)) /\ wire \in Seq(Symbols)
      /\ \A i \in 1 .. Len(Ahead(c)) : IsChunk(Ahead(c)[i], sent[c])
  BY GotWithin DEF ChunkInv, ChannelInv, Line, LineOf
<1>2. CASE OnWire(c)
  <2> DEFINE L == <<wire>> \o queued[c]
  <2>1. /\ Len(L) = Len(queued[c]) + 1 /\ L[1] = wire
        /\ \A i \in 1 .. Len(queued[c]) : L[i + 1] = queued[c][i]
    BY <1>1, FrontAt
  <2>2. \A i \in 1 .. Len(L) : IsChunk(L[i], sent[c])
    BY <1>1, <1>2 DEF Ahead
  <2> HIDE DEF L
  <2>3. Len(queued[c]) \in Nat
    BY <1>1
  <2>4. 1 \in 1 .. Len(L) /\ \A i \in 1 .. Len(queued[c]) : i + 1 \in 1 .. Len(L)
    BY <2>1, <2>3
  <2> QED BY <2>1, <2>2, <2>4
<1>3. CASE ~OnWire(c)
  BY <1>1, <1>3 DEF Ahead
<1> QED BY <1>2, <1>3

(* Send in terms of the packet and its channel.                            *)
LEMMA SendDoes ==
  ASSUME ChunkInv, NEW c \in Channels, NEW p, Sendable(p, c), Send(p)
  PROVE  LET s == Noted(p)
             Q == Chunks(p, outChunk)
         IN  /\ sent' = [sent EXCEPT ![c] = Append(@, s)]
             /\ queued' = [queued EXCEPT ![c] = @ \o Q]
             /\ vecOut' = [vecOut EXCEPT ![c] = [p EXCEPT !.hdr = FirstHeader(p).hdr]]
  BY DEF Sendable, Send, Noted

(* A packet sent on a channel lines up behind what waits on it.            *)
LEMMA SendKeeps ==
  ASSUME ChunkInv, NEW c \in Channels, NEW p, Sendable(p, c), Send(p),
         UNCHANGED <<wire, vecIn, chTime, inChunk, got>>, outChunk' \in ChunkSizes
  PROVE  ChunkTypes' /\ \A d \in Channels : ChannelInv(d)'
<1> DEFINE S == sent[c]
           s == Noted(p)
           Q == Chunks(p, outChunk)
<1>1. /\ sent' = [sent EXCEPT ![c] = Append(@, s)]
      /\ queued' = [queued EXCEPT ![c] = @ \o Q]
      /\ vecOut' = [vecOut EXCEPT ![c] = [p EXCEPT !.hdr = FirstHeader(p).hdr]]
  BY SendDoes
<1>2. /\ ChunkTypes /\ OutInv(c) /\ SentOf(S, c) /\ Line(c) /\ S \in Seq(Sendings)
      /\ got[c] \in Seq(Readings) /\ Len(got[c]) \in Nat /\ Len(got[c]) <= Len(S)
      /\ InOf(vecIn[c], S, Len(got[c])) /\ GotOf(got[c], S, chTime[c])
  BY GotWithin DEF ChunkInv, ChannelInv
<1>3. /\ s \in Sendings /\ s.cut = outChunk /\ s.pkt = p /\ s.head = FirstHeader(p)
      /\ Alike(s, c, Len(S) + 1) /\ Timed(s)
      /\ S = <<>> => s.head.hdr = LARGE
      /\ S # <<>> => Omits(s, Last(S))
  BY <1>2, NotedIs
<1>4. FirstHeader(p) \in Headers /\ p \in Packets
  BY <1>2, FirstHeaderIs DEF Sendable
<1> HIDE DEF s
<1>5. /\ Q \in Seq(Seq(Symbols)) /\ Q # <<>>
      /\ \A k \in 1 .. Len(Q) :
            LET from == (k - 1) * s.cut
            IN  /\ Q[k] = Piece(s, from) /\ from \in Nat
                /\ from = 0 \/ (s.cut <= from /\ from < s.pkt.size)
                /\ k < Len(Q) => Upto(s, from) = k * s.cut /\ k * s.cut < s.pkt.size
                /\ k = Len(Q) => Upto(s, from) = s.pkt.size
  <2>1. s.head = FirstHeader(s.pkt) /\ Q = Chunks(s.pkt, s.cut)
    BY <1>3
  <2> HIDE DEF Q
  <2> QED BY <1>3, <2>1, ChunksArePieces
<1> HIDE DEF Q, S
<1>6. ChunkTypes'
  <2>1. sent' \in [Channels -> Seq(Sendings)]
    <3>1. Append(S, s) \in Seq(Sendings)
      BY <1>2, <1>3, AppendIs
    <3> QED BY <1>1, <1>2, <3>1 DEF ChunkTypes, S
  <2>2. queued' \in [Channels -> Seq(Seq(Symbols))]
    <3>1. queued \in [Channels -> Seq(Seq(Symbols))]
      BY <1>2 DEF ChunkTypes, Symbols
    <3>2. queued[c] \o Q \in Seq(Seq(Symbols))
      BY <1>5, <3>1
    <3> QED BY <1>1, <3>1, <3>2
  <2>3. vecOut' \in [Channels -> [hdr : LARGE .. MINIMUM, ch : Channels, type : Kinds, ts : Stamps,
                                sid : {0, 1}, size : Nat, id : Nat,
                                value : ChunkSizes \cup {0}] \cup {None}]
    <3>1. [p EXCEPT !.hdr = FirstHeader(p).hdr] \in
             [hdr : LARGE .. MINIMUM, ch : Channels, type : Kinds, ts : Stamps,
              sid : {0, 1}, size : Nat, id : Nat, value : ChunkSizes \cup {0}]
      BY <1>4 DEF Packets, Headers
    <3> QED BY <1>1, <1>2, <3>1 DEF ChunkTypes
  <2> QED BY <1>2, <2>1, <2>2, <2>3 DEF ChunkTypes, Symbols
<1>7. ASSUME NEW d \in Channels, d # c PROVE ChannelInv(d)'
  <2>1. sent'[d] = sent[d] /\ queued'[d] = queued[d] /\ vecOut'[d] = vecOut[d]
    BY <1>1, <1>2, <1>7 DEF ChunkTypes
  <2>2. Ahead(d)' = Ahead(d)
    BY <2>1 DEF Ahead, OnWire
  <2>3. ChannelInv(d)
    BY DEF ChunkInv
  <2> QED BY <2>1, <2>2, <2>3 DEF ChannelInv, OutInv, Line
<1>8. ChannelInv(c)'
  <2>1. sent'[c] = Append(S, s) /\ queued'[c] = queued[c] \o Q
        /\ vecOut'[c] = [p EXCEPT !.hdr = FirstHeader(p).hdr]
    BY <1>1, <1>2 DEF ChunkTypes, S
  <2>2. Ahead(c)' = Ahead(c) \o Q
    <3>1. CASE OnWire(c)
      <4>1. wire \in Seq(Symbols) /\ queued[c] \in Seq(Seq(Symbols))
        BY GotWithin
      <4>2. (<<wire>> \o queued[c]) \o Q = <<wire>> \o (queued[c] \o Q)
        <5> DEFINE T == Seq(Symbols)
                   w == wire
                   a == queued[c]
        <5>1. w \in T /\ a \in Seq(T) /\ Q \in Seq(T)
          BY <1>5, <4>1
        <5> HIDE DEF T, w, a
        <5>2. (<<w>> \o a) \o Q = <<w>> \o (a \o Q)
          BY ONLY <5>1, BehindFront
        <5> QED BY <5>2 DEF w, a
      <4> QED BY <2>1, <3>1, <4>2 DEF Ahead, OnWire
    <3>2. CASE ~OnWire(c)
      BY <2>1, <3>2 DEF Ahead, OnWire
    <3> QED BY <3>1, <3>2
  <2>3. SentOf(Append(S, s), c)
    BY <1>2, <1>3, SentGrows
  <2>4. OutInv(c)'
    <3>1. Append(S, s) # <<>> /\ Last(Append(S, s)) = s
      BY <1>2, <1>3, AppendIs
    <3> QED BY <1>3, <2>1, <3>1 DEF OutInv
  <2>5. LineOf(Ahead(c) \o Q, Append(S, s), Len(got[c]), Reached(vecIn[c]))
    <3> DEFINE L == Ahead(c)
               n == Len(got[c])
               r == Reached(vecIn[c])
    <3>1. L \in Seq(Seq(Symbols)) /\ LineOf(L, S, n, r)
      BY <1>2, GotWithin DEF Line, S
    <3> HIDE DEF L, r
    <3> QED BY <1>2, <1>3, <1>5, <3>1, LineGrows DEF L, r
  <2>6. InOf(vecIn[c], Append(S, s), Len(got[c]))
    BY <1>2, InGrows
  <2>7. GotOf(got[c], Append(S, s), chTime[c])
    BY <1>2, GotGrows
  <2> QED BY <2>1, <2>2, <2>3, <2>4, <2>5, <2>6, <2>7 DEF ChannelInv, Line
<1> QED BY <1>6, <1>7, <1>8

(* RTMP_Write leaves what was cut before as it is, and cuts with the size  *)
(* that holds.                                                             *)
LEMMA WriteKeeps ==
  ASSUME ChunkInv, NEW c \in Channels \ {CtlChannel}, NEW k \in Types, NEW z \in Sizes, NEW t \in Times,
         RTMP_Write(c, k, z, t)
  PROVE  ChunkInv'
<1> DEFINE p == Packet(c, k, z, t)
           s == Noted(p)
           Q == Chunks(p, outChunk)
<1>1. /\ Send(p) /\ UNCHANGED <<wire, vecIn, chTime, inChunk, got>> /\ UNCHANGED outChunk
      /\ sent[c] = <<>> => k = "info"
  BY DEF RTMP_Write
<1>2. sent[c] \in Seq(Sendings) /\ outChunk \in ChunkSizes /\ CtlChannel \in Channels
  BY GotWithin, RtmpChunkAssumption DEF ChunkInv, ChunkTypes
<1>3. Sendable(p, c)
  <2>1. Len(sent[c]) + 1 \in Nat /\ z \in Nat /\ z + DataFrame \in Nat /\ t \in Stamps
    BY <1>2, RtmpChunkAssumption DEF Stamps
  <2>2. p.hdr \in {LARGE, MEDIUM} /\ p.type = k /\ (k = "info" => p.hdr = LARGE)
    BY DEF Packet
  <2>3. k \in Kinds /\ k # SetChunk
    BY RtmpChunkAssumption DEF Kinds
  <2>4. p \in Packets
    BY <2>1, <2>3 DEF Packet, Packets
  <2>5. p.ch = c /\ p.id = Len(sent[c]) + 1 /\ p.sid = 1
    BY DEF Packet
  <2> HIDE DEF p
  <2> QED BY <1>1, <2>2, <2>3, <2>4, <2>5 DEF Sendable
<1> HIDE DEF p
<1>4. ChunkTypes' /\ \A d \in Channels : ChannelInv(d)'
  BY <1>1, <1>2, <1>3, SendKeeps
<1>5. /\ sent' = [sent EXCEPT ![c] = Append(@, s)]
      /\ queued' = [queued EXCEPT ![c] = @ \o Q]
  BY <1>1, <1>3, SendDoes
<1>6. s \in Sendings /\ s.cut = outChunk /\ Alike(s, c, Len(sent[c]) + 1)
      /\ s.pkt = p /\ s.head = FirstHeader(p)
  BY <1>3, NotedIs DEF ChunkInv, ChannelInv
<1> HIDE DEF s
<1>7. /\ Q \in Seq(Seq(Symbols)) /\ \A i \in 1 .. Len(Q) : Q[i][1].id = Len(sent[c]) + 1
  <2>1. s.head = FirstHeader(s.pkt) /\ Q = Chunks(s.pkt, s.cut)
    BY <1>6
  <2> HIDE DEF Q
  <2>2. /\ Q \in Seq(Seq(Symbols))
        /\ \A i \in 1 .. Len(Q) : \E from \in Nat : Q[i] = Piece(s, from)
                                    /\ (from = 0 \/ from < s.pkt.size)
    <3>1. \A i \in 1 .. Len(Q) :
            LET from == (i - 1) * s.cut
            IN  /\ Q[i] = Piece(s, from) /\ from \in Nat
                /\ from = 0 \/ (s.cut <= from /\ from < s.pkt.size)
      BY <1>6, <2>1, ChunksArePieces
    <3>2. Q \in Seq(Seq(Symbols))
      BY <1>6, <2>1, ChunksArePieces
    <3>3. ASSUME NEW i \in 1 .. Len(Q)
          PROVE  \E from \in Nat : Q[i] = Piece(s, from) /\ (from = 0 \/ from < s.pkt.size)
      <4> DEFINE from == (i - 1) * s.cut
      <4>1. from \in Nat /\ Q[i] = Piece(s, from) /\ (from = 0 \/ from < s.pkt.size)
        BY <3>1
      <4> HIDE DEF from
      <4> QED BY <4>1
    <3> QED BY <3>2, <3>3
  <2>3. \A from \in Nat : from = 0 \/ from < s.pkt.size => Piece(s, from)[1].id = Len(sent[c]) + 1
    BY <1>6, PieceIs
  <2> QED BY <2>2, <2>3
<1> HIDE DEF Q
<1>8. CutInv'
  <2>1. queued'[CtlChannel] = queued[CtlChannel] /\ sent'[CtlChannel] = sent[CtlChannel]
    BY <1>2, <1>5 DEF ChunkInv, ChunkTypes
  <2>2. AfterQueue' = AfterQueue
    BY <1>1, <2>1 DEF AfterQueue, AfterWire, OnWire, Announced
  <2>3. ASSUME NEW d \in Channels \ {CtlChannel}
        PROVE  /\ \A i \in 1 .. Len(queued'[d]) : sent'[d][queued'[d][i][1].id].cut = outChunk'
               /\ OnWire(d)' => sent'[d][wire'[1].id].cut = inChunk'
    <3>1. /\ \A i \in 1 .. Len(queued[d]) : /\ queued[d][i][1].id \in 1 .. Len(sent[d])
                                            /\ sent[d][queued[d][i][1].id].cut = outChunk
          /\ OnWire(d) => wire[1].id \in 1 .. Len(sent[d]) /\ sent[d][wire[1].id].cut = inChunk
      BY WaitingAre DEF ChunkInv, CutInv, IsChunk
    <3>2. OnWire(d)' = OnWire(d) /\ wire' = wire /\ outChunk' = outChunk /\ inChunk' = inChunk
      BY <1>1 DEF OnWire
    <3>3. CASE d # c
      <4>1. queued'[d] = queued[d] /\ sent'[d] = sent[d]
        BY <1>5, <3>3 DEF ChunkInv, ChunkTypes
      <4> QED BY <3>1, <3>2, <4>1
    <3>4. CASE d = c
      <4>1. queued'[c] = queued[c] \o Q /\ sent'[c] = Append(sent[c], s)
        BY <1>5 DEF ChunkInv, ChunkTypes
      <4>2. /\ \A m \in 1 .. Len(sent[c]) : sent'[c][m] = sent[c][m]
            /\ sent'[c][Len(sent[c]) + 1] = s
        BY <1>2, <4>1
      <4>3. queued[c] \in Seq(Seq(Symbols))
        BY GotWithin
      <4>4. ASSUME NEW i \in 1 .. Len(queued'[c])
            PROVE  sent'[c][queued'[c][i][1].id].cut = outChunk
        <5>1. CASE i <= Len(queued[c])
          <6>1. i \in 1 .. Len(queued[c]) /\ queued'[c][i] = queued[c][i]
            <7> DEFINE a == queued[c]
                       T == Seq(Symbols)
            <7>1. a \in Seq(T) /\ Q \in Seq(T) /\ queued'[c] = a \o Q /\ i \in 1 .. Len(queued'[c])
                  /\ i <= Len(a)
              BY <1>7, <4>1, <4>3, <5>1
            <7> HIDE DEF a, T
            <7>2. i \in 1 .. Len(a) /\ (a \o Q)[i] = a[i]
              BY ONLY <7>1
            <7> QED BY <7>1, <7>2 DEF a
          <6> QED BY <3>1, <3>4, <4>2, <6>1
        <5>2. CASE ~(i <= Len(queued[c]))
          <6>1. i - Len(queued[c]) \in 1 .. Len(Q) /\ queued'[c][i] = Q[i - Len(queued[c])]
            <7> DEFINE a == queued[c]
                       T == Seq(Symbols)
            <7>1. a \in Seq(T) /\ Q \in Seq(T) /\ queued'[c] = a \o Q /\ i \in 1 .. Len(queued'[c])
                  /\ ~(i <= Len(a))
              BY <1>7, <4>1, <4>3, <5>2
            <7> HIDE DEF a, T
            <7>2. i - Len(a) \in 1 .. Len(Q) /\ (a \o Q)[i] = Q[i - Len(a)]
              BY ONLY <7>1
            <7> QED BY <7>1, <7>2 DEF a
          <6>2. queued'[c][i][1].id = Len(sent[c]) + 1
            BY <1>7, <6>1
          <6> QED BY <1>6, <4>2, <6>2
        <5> QED BY <5>1, <5>2
      <4> QED BY <3>1, <3>2, <3>4, <4>2, <4>4
    <3> QED BY <3>3, <3>4
  <2> QED BY <1>1, <2>1, <2>2, <2>3 DEF ChunkInv, CutInv
<1> QED BY <1>1, <1>4, <1>8 DEF ChunkInv

(* A new size is announced when nothing waits: what is cut next is read    *)
(* with it.                                                                *)
LEMMA SendChunkSizeKeeps ==
  ASSUME ChunkInv, NEW n \in ChunkSizes, SendChunkSize(n)
  PROVE  ChunkInv'
<1> DEFINE c == CtlChannel
           p == [hdr |-> LARGE, ch |-> c, type |-> SetChunk, ts |-> 0, sid |-> 0,
                 size |-> 1, id |-> Len(sent[c]) + 1, value |-> n]
           s == Noted(p)
           Q == Chunks(p, outChunk)
<1>1. /\ Send(p) /\ UNCHANGED <<wire, vecIn, chTime, inChunk, got>> /\ outChunk' = n
      /\ \A d \in Channels : queued[d] = <<>>
  BY DEF SendChunkSize
<1>2. c \in Channels /\ sent[c] \in Seq(Sendings) /\ outChunk \in ChunkSizes
  BY GotWithin, RtmpChunkAssumption DEF ChunkInv, ChunkTypes
<1>3. Sendable(p, c) /\ p.size = 1 /\ p.value = n
  <2>1. 0 \in Stamps /\ Len(sent[c]) + 1 \in Nat
    BY <1>2, RtmpChunkAssumption DEF Stamps
  <2>2. p \in Packets
    BY <1>2, <2>1 DEF Packets, Kinds
  <2> QED BY <2>2 DEF Sendable
<1> HIDE DEF p
<1>4. ChunkTypes' /\ \A d \in Channels : ChannelInv(d)'
  BY <1>1, <1>2, <1>3, SendKeeps
<1>5. /\ sent' = [sent EXCEPT ![c] = Append(@, s)]
      /\ queued' = [queued EXCEPT ![c] = @ \o Q]
  BY <1>1, <1>2, <1>3, SendDoes
<1>6. s \in Sendings /\ s.cut = outChunk /\ Alike(s, c, Len(sent[c]) + 1)
      /\ s.pkt = p /\ s.head = FirstHeader(p)
  BY <1>2, <1>3, NotedIs DEF ChunkInv, ChannelInv
<1> HIDE DEF s
<1>7. /\ Q \in Seq(Seq(Symbols)) /\ Len(Q) = 1 /\ Q[1][1].id = Len(sent[c]) + 1
  <2>1. s.head = FirstHeader(s.pkt) /\ Q = Chunks(s.pkt, s.cut) /\ s.pkt.size = 1
    BY <1>3, <1>6
  <2> HIDE DEF Q
  <2>2. /\ Q \in Seq(Seq(Symbols)) /\ Len(Q) = 1
        /\ \A i \in 1 .. Len(Q) : \E from \in Nat : Q[i] = Piece(s, from)
                                    /\ (from = 0 \/ from < s.pkt.size)
    <3>1. /\ Q \in Seq(Seq(Symbols)) /\ (s.pkt.size <= 1 => Len(Q) = 1)
          /\ \A i \in 1 .. Len(Q) :
               LET from == (i - 1) * s.cut
               IN  /\ Q[i] = Piece(s, from) /\ from \in Nat
                   /\ from = 0 \/ (s.cut <= from /\ from < s.pkt.size)
      BY <1>6, <2>1, ChunksArePieces
    <3> QED BY <2>1, <3>1
  <2>3. \A from \in Nat : from = 0 \/ from < s.pkt.size => Piece(s, from)[1].id = Len(sent[c]) + 1
    BY <1>6, PieceIs
  <2> QED BY <2>2, <2>3
<1> HIDE DEF Q
<1>8. CutInv'
  <2>1. queued'[c] = Q
    <3>1. queued'[c] = <<>> \o Q
      BY <1>1, <1>2, <1>5 DEF ChunkInv, ChunkTypes
    <3> QED BY <1>7, <3>1
  <2>2. sent'[c][Len(sent[c]) + 1] = s
    BY <1>2, <1>5 DEF ChunkInv, ChunkTypes
  <2>3. AfterQueue' = outChunk'
    <3>1. queued'[c] # <<>>
      <4>1. Len(Q) = 1
        BY <1>7
      <4> QED BY <2>1, <4>1
    <3>2. sent'[c][queued'[c][1][1].id].pkt.value = n
      BY <1>3, <1>6, <1>7, <2>1, <2>2
    <3> QED BY <1>1, <3>1, <3>2 DEF AfterQueue, Announced
  <2>4. ASSUME NEW d \in Channels \ {c}
        PROVE  /\ \A i \in 1 .. Len(queued'[d]) : sent'[d][queued'[d][i][1].id].cut = outChunk'
               /\ OnWire(d)' => sent'[d][wire'[1].id].cut = inChunk'
    <3>1. queued'[d] = <<>> /\ sent'[d] = sent[d]
      BY <1>1, <1>5 DEF ChunkInv, ChunkTypes
    <3>2. OnWire(d)' = OnWire(d) /\ wire' = wire /\ inChunk' = inChunk
      BY <1>1 DEF OnWire
    <3>3. OnWire(d) => sent[d][wire[1].id].cut = inChunk
      BY DEF ChunkInv, CutInv
    <3> QED BY <3>1, <3>2, <3>3
  <2>5. Len(queued'[CtlChannel]) <= 1
    <3>1. Len(queued'[c]) = 1
      BY <1>7, <2>1
    <3> QED BY <3>1
  <2> HIDE DEF c
  <2> QED BY <2>3, <2>4, <2>5 DEF CutInv, c
<1> QED BY <1>1, <1>4, <1>8 DEF ChunkInv

-----------------------------------------------------------------------------
(* A chunk goes on the wire.                                               *)

(* What a chunk of a channel looks like.                                   *)
LEMMA ChunkFirst ==
  ASSUME ChunkInv, NEW c \in Channels, NEW q, IsChunk(q, sent[c])
  PROVE  LET s == sent[c][q[1].id]
         IN  /\ q \in Seq(Symbols) /\ q # <<>> /\ q[1] \in Headers /\ q[1].ch = c
             /\ s \in Sendings /\ Alike(s, c, q[1].id) /\ Timed(s)
             /\ Len(q) = 1 + (Upto(s, q[1].off) - q[1].off)
             /\ SubSeq(q, 2, Len(q)) = Bytes(s.pkt, q[1].off, Upto(s, q[1].off))
             /\ SubSeq(q, Len(q) + 1, Len(q)) = <<>>
             /\ q[1] = IF q[1].off = 0 THEN s.head ELSE NextHeader(s.pkt, q[1].off)
<1> DEFINE m == q[1].id
           from == q[1].off
           s == sent[c][m]
<1>1. /\ m \in 1 .. Len(sent[c]) /\ from \in Nat /\ q = Piece(s, from)
      /\ from = 0 \/ from < s.pkt.size
  BY DEF IsChunk
<1>2. sent[c] \in Seq(Sendings) /\ SentOf(sent[c], c)
  BY GotWithin DEF ChunkInv, ChannelInv
<1>3. s \in Sendings /\ Alike(s, c, m) /\ Timed(s)
  BY <1>1, <1>2 DEF SentOf
<1> HIDE DEF m, from, s
<1>4. LET r == Piece(s, from)
          h == IF from = 0 THEN s.head ELSE NextHeader(s.pkt, from)
      IN  /\ r \in Seq(Symbols) /\ r # <<>> /\ r[1] = h
          /\ Len(r) = 1 + (Upto(s, from) - from)
          /\ SubSeq(r, 2, Len(r)) = Bytes(s.pkt, from, Upto(s, from))
          /\ SubSeq(r, Len(r) + 1, Len(r)) = <<>>
          /\ r[1] \in Headers /\ r[1].ch = c
  BY <1>1, <1>3, PieceIs
<1> QED BY <1>1, <1>3, <1>4 DEF m, from, s

(* The first chunk that waits becomes the one on the wire.                 *)
LEMMA TransmitKeeps ==
  ASSUME ChunkInv, NEW c \in Channels, Transmit(c)
  PROVE  ChunkInv'
<1> DEFINE q == Head(queued[c])
<1>1. /\ queued[c] # <<>> /\ wire = <<>> /\ (c = CtlChannel \/ queued[CtlChannel] = <<>>)
      /\ wire' = wire \o q /\ queued' = [queued EXCEPT ![c] = Tail(@)]
      /\ UNCHANGED <<vecOut, outChunk, vecIn, chTime, inChunk, sent, got>>
  BY DEF Transmit
<1>2. queued[c] \in Seq(Seq(Symbols)) /\ queued \in [Channels -> Seq(Seq(Symbols))]
  BY GotWithin DEF ChunkInv, ChunkTypes, Symbols
<1>3. /\ 1 \in 1 .. Len(queued[c]) /\ q = queued[c][1] /\ q \in Seq(Symbols)
      /\ Tail(queued[c]) \in Seq(Seq(Symbols)) /\ queued[c] = <<q>> \o Tail(queued[c])
      /\ Len(Tail(queued[c])) = Len(queued[c]) - 1
      /\ \A i \in 1 .. Len(Tail(queued[c])) : i + 1 \in 1 .. Len(queued[c])
                                               /\ Tail(queued[c])[i] = queued[c][i + 1]
  BY <1>1, <1>2
<1> HIDE DEF q
<1>4. wire' = q
  <2>1. wire' = <<>> \o q
    BY <1>1
  <2> QED BY <1>3, <2>1
<1>5. q # <<>> /\ q[1] \in Headers /\ q[1].ch = c
  BY <1>3, WaitingAre, ChunkFirst
<1>6. queued'[c] = Tail(queued[c]) /\ \A d \in Channels : d # c => queued'[d] = queued[d]
  BY <1>1, <1>2
<1>7. ChunkTypes'
  <2>1. queued' \in [Channels -> Seq(Seq(Symbols))]
    BY <1>1, <1>2, <1>3
  <2> QED BY <1>1, <1>3, <1>4, <2>1 DEF ChunkInv, ChunkTypes, Symbols
<1>8. \A d \in Channels : Ahead(d)' = Ahead(d)
  <2>1. \A d \in Channels : Ahead(d) = queued[d]
    BY <1>1 DEF Ahead, OnWire
  <2>2. Ahead(c)' = <<q>> \o Tail(queued[c])
    BY <1>4, <1>5, <1>6 DEF Ahead, OnWire
  <2>3. \A d \in Channels : d # c => Ahead(d)' = queued[d]
    BY <1>4, <1>5, <1>6 DEF Ahead, OnWire
  <2> QED BY <1>3, <2>1, <2>2, <2>3
<1>9. \A d \in Channels : ChannelInv(d)'
  BY <1>1, <1>8 DEF ChunkInv, ChannelInv, OutInv, Line
<1>10. CutInv'
  <2>0. CtlChannel \in Channels /\ CutInv
    BY RtmpChunkAssumption DEF ChunkInv
  <2>1. AfterWire = inChunk
    BY <1>1 DEF AfterWire, OnWire
  <2>2. CASE c = CtlChannel
    <3>1. Len(queued[c]) = 1 /\ queued'[c] = <<>>
      BY <1>3, <1>6, <2>0, <2>2 DEF CutInv
    <3>2. outChunk = Announced(q)
      BY <1>1, <1>3, <2>0, <2>2 DEF CutInv, AfterQueue
    <3>3. AfterQueue' = Announced(q)
      BY <1>1, <1>4, <1>5, <2>2, <3>1 DEF AfterQueue, AfterWire, OnWire, Announced
    <3>4. ASSUME NEW d \in Channels \ {CtlChannel}
          PROVE  /\ \A i \in 1 .. Len(queued'[d]) : sent'[d][queued'[d][i][1].id].cut = outChunk'
                 /\ ~OnWire(d)'
      <4>1. queued'[d] = queued[d] /\ sent'[d] = sent[d] /\ outChunk' = outChunk
        BY <1>1, <1>6, <2>2
      <4>2. ~OnWire(d)'
        BY <1>4, <1>5, <2>2 DEF OnWire
      <4> QED BY <2>0, <4>1, <4>2 DEF CutInv
    <3>5. Len(queued'[CtlChannel]) <= 1
      BY <2>2, <3>1
    <3> QED BY <1>1, <3>2, <3>3, <3>4, <3>5 DEF CutInv
  <2>3. CASE c # CtlChannel
    <3>1. queued[CtlChannel] = <<>> /\ queued'[CtlChannel] = <<>>
      BY <1>1, <1>6, <2>0, <2>3
    <3>2. outChunk = inChunk
      BY <2>0, <2>1, <3>1 DEF CutInv, AfterQueue
    <3>3. AfterQueue' = inChunk
      BY <1>1, <1>4, <1>5, <2>3, <3>1 DEF AfterQueue, AfterWire, OnWire
    <3>4. ASSUME NEW d \in Channels \ {CtlChannel}
          PROVE  /\ \A i \in 1 .. Len(queued'[d]) : sent'[d][queued'[d][i][1].id].cut = outChunk'
                 /\ OnWire(d)' => sent'[d][wire'[1].id].cut = inChunk'
      <4>1. \A i \in 1 .. Len(queued[d]) : sent[d][queued[d][i][1].id].cut = outChunk
        BY <2>0 DEF CutInv
      <4>2. CASE d # c
        <5>1. queued'[d] = queued[d] /\ sent'[d] = sent[d] /\ outChunk' = outChunk /\ ~OnWire(d)'
          BY <1>1, <1>4, <1>5, <1>6, <4>2 DEF OnWire
        <5> QED BY <4>1, <5>1
      <4>3. CASE d = c
        <5>1. sent' = sent /\ outChunk' = outChunk /\ inChunk' = inChunk
          BY <1>1
        <5>2. sent[c][q[1].id].cut = outChunk
          BY <1>3, <4>1, <4>3
        <5>3. \A i \in 1 .. Len(queued'[c]) : sent[c][queued'[c][i][1].id].cut = outChunk
          BY <1>3, <1>6, <4>1, <4>3
        <5> QED BY <1>4, <3>2, <4>3, <5>1, <5>2, <5>3
      <4> QED BY <4>2, <4>3
    <3>5. Len(queued'[CtlChannel]) <= 1
      BY <3>1
    <3> QED BY <1>1, <3>2, <3>3, <3>4, <3>5 DEF CutInv
  <2> QED BY <2>2, <2>3
<1> QED BY <1>4, <1>5, <1>7, <1>9, <1>10 DEF ChunkInv

-----------------------------------------------------------------------------
(* A chunk is read.                                                        *)

(* What is on the wire is the chunk its channel waits for, cut with the    *)
(* size the reader expects.                                                *)
LEMMA WireIs ==
  ASSUME ChunkInv, wire # <<>>
  PROVE  LET h == wire[1]
             c == h.ch
             n == Len(got[c])
             r == Reached(vecIn[c])
             S == sent[c]
             s == S[n + 1]
         IN  /\ Head(wire) = h /\ h \in Headers /\ c \in Channels /\ OnWire(c)
             /\ S \in Seq(Sendings) /\ n + 1 \in 1 .. Len(S) /\ n \in Nat
             /\ s \in Sendings /\ Alike(s, c, n + 1) /\ Timed(s)
             /\ n = 0 => s.head.hdr = LARGE
             /\ n > 0 => S[n] \in Sendings /\ Alike(S[n], c, n) /\ Omits(s, S[n])
             /\ r \in Nat /\ (r = 0 \/ (s.cut <= r /\ r < s.pkt.size))
             /\ h = IF r = 0 THEN s.head ELSE NextHeader(s.pkt, r)
             /\ h.id = n + 1
             /\ Len(wire) = 1 + (Upto(s, r) - r)
             /\ SubSeq(wire, 2, Len(wire)) = Bytes(s.pkt, r, Upto(s, r))
             /\ SubSeq(wire, Len(wire) + 1, Len(wire)) = <<>>
             /\ IF Upto(s, r) = s.pkt.size THEN LineOf(queued[c], S, n + 1, 0)
                                           ELSE LineOf(queued[c], S, n, Upto(s, r))
             /\ IF c = CtlChannel THEN s.pkt.size = 1 ELSE s.cut = inChunk
<1> DEFINE h == wire[1]
           c == h.ch
           n == Len(got[c])
           r == Reached(vecIn[c])
           S == sent[c]
           s == S[n + 1]
<1>1. h \in Headers /\ c \in Channels /\ OnWire(c)
  BY DEF ChunkInv, Headers, OnWire
<1>2. /\ S \in Seq(Sendings) /\ n \in Nat /\ n <= Len(S) /\ wire \in Seq(Symbols)
      /\ queued[c] \in Seq(Seq(Symbols))
  BY <1>1, GotWithin
<1>3. LineOf(<<wire>> \o queued[c], S, n, r) /\ SentOf(S, c)
  BY <1>1 DEF ChunkInv, ChannelInv, Line, Ahead
<1>4. Head(wire) = h
  BY <1>2
<1> HIDE DEF n, S
<1>5. /\ IsChunk(wire, S) /\ h.id = n + 1 /\ h.off = r
      /\ LET end == Upto(S[n + 1], r)
         IN  IF end = S[n + 1].pkt.size THEN LineOf(queued[c], S, n + 1, 0) ELSE LineOf(queued[c], S, n, end)
  <2> DEFINE q == wire
             R == queued[c]
  <2>1. q \in Seq(Symbols) /\ R \in Seq(Seq(Symbols)) /\ LineOf(<<q>> \o R, S, n, r)
    BY <1>2, <1>3
  <2> HIDE DEF r, q, R
  <2>2. /\ IsChunk(q, S) /\ q[1].id = n + 1 /\ q[1].off = r
        /\ LET end == Upto(S[n + 1], r)
           IN  IF end = S[n + 1].pkt.size THEN LineOf(R, S, n + 1, 0) ELSE LineOf(R, S, n, end)
    BY <1>2, <2>1, LineMoves
  <2> QED BY <2>2 DEF q, R
<1>6. /\ n + 1 \in 1 .. Len(S) /\ r \in Nat /\ (r = 0 \/ (s.cut <= r /\ r < s.pkt.size))
  BY <1>5 DEF IsChunk
<1>7. /\ s \in Sendings /\ Alike(s, c, n + 1) /\ Timed(s)
      /\ Len(wire) = 1 + (Upto(s, r) - r)
      /\ SubSeq(wire, 2, Len(wire)) = Bytes(s.pkt, r, Upto(s, r))
      /\ SubSeq(wire, Len(wire) + 1, Len(wire)) = <<>>
      /\ h = IF r = 0 THEN s.head ELSE NextHeader(s.pkt, r)
  <2> HIDE DEF r
  <2> QED BY <1>1, <1>5, ChunkFirst DEF S
<1>8. n = 0 => s.head.hdr = LARGE
  <2>1. n = 0 => n + 1 = 1
    OBVIOUS
  <2> QED BY <1>3, <1>6, <2>1 DEF SentOf
<1>9. n > 0 => S[n] \in Sendings /\ Alike(S[n], c, n) /\ Omits(s, S[n])
  <2> SUFFICES ASSUME n > 0 PROVE S[n] \in Sendings /\ Alike(S[n], c, n) /\ Omits(s, S[n])
    OBVIOUS
  <2>1. n \in 1 .. Len(S) /\ n + 1 > 1 /\ (n + 1) - 1 = n
    BY <1>2, <1>6
  <2> QED BY <1>2, <1>3, <1>6, <2>1 DEF SentOf
<1>10. IF c = CtlChannel THEN s.pkt.size = 1 ELSE s.cut = inChunk
  <2>1. CASE c = CtlChannel
    BY <1>7, <2>1 DEF Alike
  <2>2. CASE c # CtlChannel
    <3>1. sent[c][wire[1].id].cut = inChunk
      BY <1>1, <2>2 DEF ChunkInv, CutInv
    <3> QED BY <1>5, <2>2, <3>1 DEF S
  <2> QED BY <2>1, <2>2
<1> QED BY <1>1, <1>2, <1>4, <1>5, <1>6, <1>7, <1>8, <1>9, <1>10 DEF n, S

LEMMA BodyIs ==
  ASSUME NEW p \in Packets, NEW r \in Nat
  PROVE  Bytes(p, 0, r) = [i \in 1 .. r |-> [kind |-> "byte", id |-> p.id, off |-> i]]
<1>1. r - 0 = r /\ \A i \in 1 .. r : 0 + i = i
  OBVIOUS
<1> QED BY <1>1 DEF Bytes

Record(t, z, k, i, n, a, b) ==
  [ts |-> t, size |-> z, type |-> k, sid |-> i, read |-> n, abs |-> a, body |-> b]

WithTime(v, x) == [v EXCEPT !.ts = x]
WithKind(v, z, k) == [v EXCEPT !.size = z, !.type = k, !.read = 0]
WithSid(v, x) == [v EXCEPT !.sid = x]

(* Records with one of their fields replaced.                              *)
LEMMA TimeSet ==
  ASSUME NEW t, NEW z, NEW k, NEW i, NEW n, NEW a, NEW b, NEW x
  PROVE  WithTime(Record(t, z, k, i, n, a, b), x) = Record(x, z, k, i, n, a, b)
  BY DEF Record, WithTime

LEMMA SidSet ==
  ASSUME NEW t, NEW z, NEW k, NEW i, NEW n, NEW a, NEW b, NEW x
  PROVE  WithSid(Record(t, z, k, i, n, a, b), x) = Record(t, z, k, x, n, a, b)
  BY DEF Record, WithSid

LEMMA KindSet ==
  ASSUME NEW t, NEW z, NEW k, NEW i, NEW n, NEW a, NEW b, NEW x, NEW y
  PROVE  WithKind(Record(t, z, k, i, n, a, b), x, y) = Record(t, x, y, i, 0, a, b)
<1>1. [Record(t, z, k, i, n, a, b) EXCEPT !.size = x] = Record(t, x, k, i, n, a, b)
  BY DEF Record
<1>2. [Record(t, x, k, i, n, a, b) EXCEPT !.type = y] = Record(t, x, y, i, n, a, b)
  BY DEF Record
<1>3. [Record(t, x, y, i, n, a, b) EXCEPT !.read = 0] = Record(t, x, y, i, 0, a, b)
  BY DEF Record
<1> QED BY <1>1, <1>2, <1>3 DEF WithKind

(* The header and what was kept of the channel give the packet that was    *)
(* sent, as far as it has been read.                                       *)
LEMMA DecodedIs ==
  ASSUME ChunkInv, wire # <<>>
  PROVE  LET h == wire[1]
             n == Len(got[h.ch])
             r == Reached(vecIn[h.ch])
             s == sent[h.ch][n + 1]
             d == Decoded(h)
         IN  d = [ts |-> IF r = 0 /\ h.hdr # MINIMUM THEN s.field ELSE Capped(s.field),
                  size |-> s.pkt.size, type |-> s.pkt.type, sid |-> s.pkt.sid, read |-> r,
                  abs |-> s.head.hdr = LARGE, body |-> Bytes(s.pkt, 0, r)]
<1> DEFINE h == wire[1]
           c == h.ch
           n == Len(got[c])
           v == vecIn[c]
           r == Reached(v)
           S == sent[c]
           s == S[n + 1]
           t == IF h.ext # -1 THEN h.ext ELSE h.time
<1>1. /\ h \in Headers /\ c \in Channels
      /\ n \in Nat /\ s \in Sendings /\ Alike(s, c, n + 1) /\ Timed(s)
      /\ n = 0 => s.head.hdr = LARGE
      /\ n > 0 => S[n] \in Sendings /\ Alike(S[n], c, n) /\ Omits(s, S[n])
      /\ r \in Nat
      /\ h = IF r = 0 THEN s.head ELSE NextHeader(s.pkt, r)
  BY WireIs
<1>2. v \in Readings \cup {None} /\ InOf(v, S, n)
  BY <1>1 DEF ChunkInv, ChunkTypes, ChannelInv
<1>3. s.pkt \in Packets /\ s.pkt.id = n + 1
  BY <1>1 DEF Sendings, Alike
<1>4. Bytes(s.pkt, 0, r) = [i \in 1 .. r |-> [kind |-> "byte", id |-> n + 1, off |-> i]]
  <2> DEFINE p == s.pkt
  <2>1. p \in Packets /\ p.id = n + 1 /\ r \in Nat
    BY <1>1, <1>3
  <2> HIDE DEF p, r, n
  <2>2. Bytes(p, 0, r) = [i \in 1 .. r |-> [kind |-> "byte", id |-> p.id, off |-> i]]
    BY <2>1, BodyIs
  <2> QED BY <2>1, <2>2 DEF p
<1>5. h.hdr \in {LARGE, MEDIUM, SMALL, MINIMUM}
  <2> DEFINE k == h.hdr
  <2>1. k \in LARGE .. MINIMUM
    BY <1>1 DEF Headers
  <2> HIDE DEF k
  <2> QED BY <2>1 DEF k, LARGE, MEDIUM, SMALL, MINIMUM
<1> HIDE DEF h, n, S, s
<1>6. CASE r = 0 /\ s.head.hdr = LARGE
  <2>1. h = s.head /\ h.hdr = LARGE
    BY <1>1, <1>6
  <2>2. t = s.field /\ h.size = s.pkt.size /\ h.type = s.pkt.type /\ h.sid = s.pkt.sid
    BY <1>1, <2>1 DEF Timed, Alike, LARGE, MINIMUM
  <2>3. <<>> = Bytes(s.pkt, 0, r)
    BY <1>4, <1>6
  <2> HIDE DEF r, v
  <2>4. Decoded(h) = [ts |-> t, size |-> h.size, type |-> h.type, sid |-> h.sid, read |-> 0,
                      abs |-> TRUE, body |-> <<>>]
    <3> DEFINE b == Base(h)
    <3>0. b.abs = TRUE /\ b.body = <<>>
      BY <2>1 DEF Base, Fresh
    <3>1. b = Record(b.ts, b.size, b.type, b.sid, b.read, b.abs, b.body)
      BY <2>1 DEF Base, Fresh, Record
    <3>2. h.hdr <= SMALL /\ h.hdr <= MEDIUM
      BY <2>1 DEF LARGE, MEDIUM, SMALL
    <3>3. Decoded(h) = WithSid(WithKind(WithTime(b, t), h.size, h.type), h.sid)
      BY <2>1, <3>2 DEF Decoded, WithTime, WithKind, WithSid
    <3> HIDE DEF t, b
    <3>4. WithTime(b, t) = Record(t, b.size, b.type, b.sid, b.read, b.abs, b.body)
      BY <3>1, TimeSet
    <3>5. Decoded(h) = WithSid(Record(t, h.size, h.type, b.sid, 0, b.abs, b.body), h.sid)
      BY <3>3, <3>4, KindSet
    <3>6. Decoded(h) = Record(t, h.size, h.type, h.sid, 0, b.abs, b.body)
      BY <3>5, SidSet
    <3> QED BY <3>0, <3>6 DEF Record
  <2> HIDE DEF t
  <2>5. h.hdr # MINIMUM
    BY <2>1 DEF LARGE, MINIMUM
  <2>6. Decoded(h) = [ts |-> IF r = 0 /\ h.hdr # MINIMUM THEN s.field ELSE Capped(s.field),
                  size |-> s.pkt.size, type |-> s.pkt.type, sid |-> s.pkt.sid, read |-> r,
                  abs |-> s.head.hdr = LARGE, body |-> Bytes(s.pkt, 0, r)]
    BY <1>6, <2>2, <2>3, <2>4, <2>5
  <2> QED BY <2>6 DEF h, n, S, s, r, v
<1>7. CASE r = 0 /\ s.head.hdr # LARGE
  <2>1. h = s.head /\ n > 0
    BY <1>1, <1>7
  <2>2. v # None /\ v \in Readings
    BY <1>2, <2>1 DEF InOf
  <2>3. v.read = 0 /\ ~v.abs /\ Keeps(v, S[n]) /\ v.body = Bytes(s.pkt, 0, r)
    BY <1>2, <1>4, <1>7, <2>1, <2>2 DEF InOf, Reached
  <2>4. S[n] \in Sendings /\ Alike(S[n], c, n) /\ Omits(s, S[n])
    BY <1>1, <2>1
  <2> HIDE DEF v, r
  <2>5. s.pkt.sid = v.sid
    BY <1>1, <2>3, <2>4 DEF Alike, Keeps
  <2>6. /\ h.hdr <= MEDIUM => h.size = s.pkt.size /\ h.type = s.pkt.type
        /\ h.hdr > MEDIUM => v.size = s.pkt.size /\ v.type = s.pkt.type
    BY <1>1, <2>1, <2>3, <2>4 DEF Alike, Omits, Keeps
  <2>7. /\ h.hdr # MINIMUM => t = s.field
        /\ h.hdr = MINIMUM => v.ts = Capped(s.field)
    BY <1>1, <2>1, <2>3, <2>4 DEF Timed, Omits, Keeps
  <2>8. /\ DOMAIN v = {"ts", "size", "type", "sid", "read", "abs", "body"}
        /\ v = [ts |-> v.ts, size |-> v.size, type |-> v.type, sid |-> v.sid, read |-> 0,
                abs |-> FALSE, body |-> v.body]
    BY <2>2, <2>3 DEF Readings
  <2>9. Base(h) = v
    BY <1>7, <2>1, <2>2 DEF Base, v
  <2>10. Decoded(h) = [ts |-> IF h.hdr # MINIMUM THEN t ELSE v.ts,
                       size |-> IF h.hdr <= MEDIUM THEN h.size ELSE v.size,
                       type |-> IF h.hdr <= MEDIUM THEN h.type ELSE v.type,
                       sid |-> v.sid, read |-> 0, abs |-> FALSE, body |-> v.body]
    <3> HIDE DEF t
    <3>0. Base(h) = Record(v.ts, v.size, v.type, v.sid, 0, v.abs, v.body) /\ v.abs = FALSE
      BY <2>2, <2>3, <2>8, <2>9 DEF Record, Readings
    <3>1. CASE h.hdr = MEDIUM
      <4>1. h.hdr <= SMALL /\ h.hdr <= MEDIUM /\ h.hdr # LARGE /\ h.hdr # MINIMUM
        BY <3>1 DEF LARGE, MEDIUM, SMALL, MINIMUM
      <4>2. Decoded(h) = WithKind(WithTime(Base(h), t), h.size, h.type)
        BY <4>1 DEF Decoded, t, WithTime, WithKind
      <4>3. Decoded(h) = Record(t, h.size, h.type, v.sid, 0, v.abs, v.body)
        BY <3>0, <4>2, TimeSet, KindSet
      <4> QED BY <3>0, <4>1, <4>3 DEF Record
    <3>2. CASE h.hdr = SMALL
      <4>1. h.hdr <= SMALL /\ ~(h.hdr <= MEDIUM) /\ h.hdr # LARGE /\ h.hdr # MINIMUM
        BY <3>2 DEF LARGE, MEDIUM, SMALL, MINIMUM
      <4>2. Decoded(h) = WithTime(Base(h), t)
        BY <4>1 DEF Decoded, t, WithTime
      <4>3. Decoded(h) = Record(t, v.size, v.type, v.sid, 0, v.abs, v.body)
        BY <3>0, <4>2, TimeSet, KindSet
      <4> QED BY <3>0, <4>1, <4>3 DEF Record
    <3>3. CASE h.hdr = MINIMUM
      BY <2>8, <2>9, <3>3 DEF Decoded, LARGE, MEDIUM, SMALL, MINIMUM, t
    <3> QED BY <1>5, <1>7, <2>1, <3>1, <3>2, <3>3
  <2>11. h.hdr <= MEDIUM \/ h.hdr > MEDIUM
    BY <1>5 DEF LARGE, MEDIUM, SMALL, MINIMUM
  <2> HIDE DEF t
  <2>12. Decoded(h) = [ts |-> IF r = 0 /\ h.hdr # MINIMUM THEN s.field ELSE Capped(s.field),
                  size |-> s.pkt.size, type |-> s.pkt.type, sid |-> s.pkt.sid, read |-> r,
                  abs |-> s.head.hdr = LARGE, body |-> Bytes(s.pkt, 0, r)]
    BY <1>7, <2>3, <2>5, <2>6, <2>7, <2>10, <2>11
  <2> QED BY <2>12 DEF h, n, S, s, r, v
<1>8. CASE r # 0
  <2>1. h = NextHeader(s.pkt, r)
    BY <1>1, <1>8
  <2>2. h.hdr = MINIMUM
    BY <2>1 DEF NextHeader
  <2>3. v # None /\ v \in Readings /\ v.read = r
    BY <1>2, <1>8 DEF Reached
  <2>4. Keeps(v, s) /\ (v.abs <=> s.head.hdr = LARGE) /\ v.body = Bytes(s.pkt, 0, r)
    BY <1>2, <1>4, <1>8, <2>3 DEF InOf, s
  <2> HIDE DEF v, r
  <2>5. v = [ts |-> v.ts, size |-> v.size, type |-> v.type, sid |-> v.sid, read |-> v.read,
             abs |-> v.abs, body |-> v.body]
        /\ v.abs \in BOOLEAN
    BY <2>3 DEF Readings
  <2>6. Decoded(h) = v
    BY <2>2, <2>3 DEF Decoded, Base, v, LARGE, MEDIUM, SMALL, MINIMUM
  <2>7. v.abs = (s.head.hdr = LARGE)
    BY <2>4, <2>5
  <2>8. v.size = s.pkt.size /\ v.type = s.pkt.type /\ v.sid = s.pkt.sid /\ v.ts = Capped(s.field)
    BY <2>4 DEF Keeps
  <2>9. Decoded(h) = [ts |-> IF r = 0 /\ h.hdr # MINIMUM THEN s.field ELSE Capped(s.field),
                  size |-> s.pkt.size, type |-> s.pkt.type, sid |-> s.pkt.sid, read |-> r,
                  abs |-> s.head.hdr = LARGE, body |-> Bytes(s.pkt, 0, r)]
    BY <1>8, <2>3, <2>4, <2>5, <2>6, <2>7, <2>8
  <2> QED BY <2>9 DEF h, n, S, s, r, v
<1> QED BY <1>6, <1>7, <1>8

(* How much of the body the reader takes is how much the chunk holds.      *)
LEMMA ToReadIs ==
  ASSUME ChunkInv, NEW s \in Sendings, NEW r \in Nat, r = 0 \/ (s.cut <= r /\ r < s.pkt.size),
         NEW d, d.size = s.pkt.size, d.read = r, s.pkt.size = 1 \/ s.cut = inChunk
  PROVE  ToRead(d) = Upto(s, r) - r
<1> DEFINE z == s.pkt.size
           k == s.cut
<1>1. z \in Nat /\ k \in Nat \ {0} /\ inChunk \in Nat \ {0}
  BY RtmpChunkAssumption DEF Sendings, Packets, ChunkInv, ChunkTypes
<1>2. ToRead(d) = IF z - r < inChunk THEN z - r ELSE inChunk
  BY DEF ToRead
<1>3. Upto(s, r) = IF r + k < z THEN r + k ELSE z
  BY DEF Upto
<1>4. (r = 0 \/ (k <= r /\ r < z)) /\ (z = 1 \/ k = inChunk)
  OBVIOUS
<1> HIDE DEF z, k
<1> QED BY <1>1, <1>2, <1>3, <1>4

WithBody(d, x, k) == [d EXCEPT !.body = @ \o x, !.read = @ + k]

LEMMA BodySet ==
  ASSUME NEW t, NEW z, NEW k, NEW i, NEW n, NEW a, NEW b, NEW x, NEW m
  PROVE  WithBody(Record(t, z, k, i, n, a, b), x, m) = Record(t, z, k, i, n + m, a, b \o x)
<1> DEFINE y == b \o x
           w == n + m
<1>1. Record(t, z, k, i, n, a, b).body = b /\ Record(t, z, k, i, n, a, y).read = n
  BY DEF Record
<1> HIDE DEF y, w
<1>2. [Record(t, z, k, i, n, a, b) EXCEPT !.body = y] = Record(t, z, k, i, n, a, y)
  BY DEF Record
<1>3. [Record(t, z, k, i, n, a, y) EXCEPT !.read = w] = Record(t, z, k, i, w, a, y)
  BY DEF Record
<1> QED BY <1>1, <1>2, <1>3 DEF WithBody, y, w

Emptied(d) == [d EXCEPT !.body = <<>>, !.read = 0, !.abs = FALSE]

(* What the reader keeps of a completed packet.                            *)
LEMMA EmptiedIs ==
  ASSUME NEW d \in Readings
  PROVE  LET v == Emptied(d)
         IN  /\ v \in Readings /\ v.read = 0 /\ ~v.abs /\ v.body = <<>>
             /\ v.ts = d.ts /\ v.size = d.size /\ v.type = d.type /\ v.sid = d.sid
<1> DEFINE v == Emptied(d)
<1>1. v \in Readings
  <2>1. \A a \in Readings : [a EXCEPT !.body = <<>>] \in Readings
    <3>1. <<>> \in Seq(BodyBytes)
      OBVIOUS
    <3>2. \A y \in Seq(BodyBytes) : \A a \in Readings : [a EXCEPT !.body = y] \in Readings
      BY DEF Readings
    <3> QED BY <3>1, <3>2, Zenon
  <2>2. \A a \in Readings : [a EXCEPT !.read = 0] \in Readings
    BY DEF Readings
  <2>3. \A a \in Readings : [a EXCEPT !.abs = FALSE] \in Readings
    BY DEF Readings
  <2> DEFINE a == [d EXCEPT !.body = <<>>]
             b == [a EXCEPT !.read = 0]
  <2>4. a \in Readings
    BY <2>1
  <2>5. b \in Readings
    BY <2>2, <2>4
  <2>6. v = [b EXCEPT !.abs = FALSE]
    BY DEF Emptied
  <2> HIDE DEF a, b, v
  <2> QED BY <2>3, <2>5, <2>6
<1>2. /\ v.read = 0 /\ ~v.abs /\ v.body = <<>>
      /\ v.ts = d.ts /\ v.size = d.size /\ v.type = d.type /\ v.sid = d.sid
  BY DEF Emptied, Readings
<1> QED BY <1>1, <1>2

LEMMA RecordIs ==
  ASSUME NEW t \in Stamps, NEW z \in Nat, NEW k \in Kinds, NEW i \in {0, 1}, NEW n \in Nat,
         NEW a \in BOOLEAN, NEW b \in Seq(BodyBytes)
  PROVE  LET v == Record(t, z, k, i, n, a, b)
         IN  /\ v \in Readings /\ v.ts = t /\ v.size = z /\ v.type = k /\ v.sid = i
             /\ v.read = n /\ (v.abs <=> a) /\ v.body = b
  BY DEF Record, Readings

(* The packet after the chunk has been read.                               *)
Grown(h) ==
  LET d == Decoded(h)
      k == ToRead(d)
  IN  WithBody(d, SubSeq(wire, 2, k + 1), k)

(* An extended time is kept as 0xffffff.                                   *)
LEMMA CappedIs ==
  ASSUME NEW t \in Stamps
  PROVE  Capped(t) \in Stamps /\ ExtTs \in Stamps /\ (t < ExtTs => Capped(t) = t)
         /\ (t >= ExtTs => Capped(t) = ExtTs) /\ Capped(0) = 0
<1>1. ExtTs \in 1 .. TsMod - 1 /\ TsMod \in Nat
  BY RtmpChunkAssumption
<1> QED BY <1>1 DEF Capped, Stamps

(* A chunk brings the packet as far as the chunk reaches.                  *)
LEMMA GrownIs ==
  ASSUME ChunkInv, wire # <<>>
  PROVE  LET h == wire[1]
             n == Len(got[h.ch])
             r == Reached(vecIn[h.ch])
             s == sent[h.ch][n + 1]
             e == Upto(s, r)
             k == ToRead(Decoded(h))
             p == Grown(h)
         IN  /\ Len(wire) > k /\ SubSeq(wire, k + 2, Len(wire)) = <<>>
             /\ p \in Readings /\ p.size = s.pkt.size /\ p.type = s.pkt.type /\ p.sid = s.pkt.sid
             /\ p.read = e /\ (p.abs <=> s.head.hdr = LARGE) /\ p.body = Bytes(s.pkt, 0, e)
             /\ p.ts = IF r = 0 /\ h.hdr # MINIMUM THEN s.field ELSE Capped(s.field)
             /\ p = Record(p.ts, p.size, p.type, p.sid, p.read, p.abs, p.body)
<1> DEFINE h == wire[1]
           c == h.ch
           n == Len(got[c])
           r == Reached(vecIn[c])
           s == sent[c][n + 1]
           e == Upto(s, r)
           d == Decoded(h)
           k == ToRead(d)
           t == IF r = 0 /\ h.hdr # MINIMUM THEN s.field ELSE Capped(s.field)
           x == SubSeq(wire, 2, k + 1)
<1>1. /\ h \in Headers /\ c \in Channels /\ s \in Sendings
      /\ r \in Nat /\ (r = 0 \/ (s.cut <= r /\ r < s.pkt.size))
      /\ Len(wire) = 1 + (e - r)
      /\ SubSeq(wire, 2, Len(wire)) = Bytes(s.pkt, r, e)
      /\ SubSeq(wire, Len(wire) + 1, Len(wire)) = <<>>
      /\ IF c = CtlChannel THEN s.pkt.size = 1 ELSE s.cut = inChunk
  BY WireIs
<1>2. d = [ts |-> t, size |-> s.pkt.size, type |-> s.pkt.type, sid |-> s.pkt.sid, read |-> r,
           abs |-> s.head.hdr = LARGE, body |-> Bytes(s.pkt, 0, r)]
  BY DecodedIs
<1> HIDE DEF h, n, r, s, d, t, c
<1>3. s.pkt \in Packets /\ s.field \in Stamps
  BY <1>1 DEF Sendings
<1>4. t \in Stamps
  BY <1>3, CappedIs DEF t
<1>5. /\ e \in Nat /\ r <= e
  BY <1>1, UptoIs
<1>6. Bytes(s.pkt, 0, r) \o Bytes(s.pkt, r, e) = Bytes(s.pkt, 0, e)
      /\ Bytes(s.pkt, 0, e) \in Seq(BodyBytes)
  <2> DEFINE p == s.pkt
  <2>1. p \in Packets
    BY <1>3
  <2> HIDE DEF p, e
  <2>2. Bytes(p, 0, r) \o Bytes(p, r, e) = Bytes(p, 0, e)
    BY <1>1, <1>5, <2>1, BytesJoin
  <2>3. 0 \in Nat /\ 0 <= e
    BY <1>5
  <2>4. Bytes(p, 0, e) \in Seq(BodyBytes)
    BY <1>5, <2>1, <2>3, BytesAre
  <2> QED BY <2>2, <2>4 DEF p
<1>7. /\ d.ts = t /\ d.size = s.pkt.size /\ d.type = s.pkt.type /\ d.sid = s.pkt.sid /\ d.read = r
      /\ d.body = Bytes(s.pkt, 0, r)
  BY <1>2
<1>8. d.abs \in BOOLEAN /\ (d.abs <=> s.head.hdr = LARGE)
  BY <1>2
<1>9. d = Record(d.ts, d.size, d.type, d.sid, d.read, d.abs, d.body)
  BY <1>2 DEF Record
<1>10. k = e - r
  BY <1>1, <1>7, ToReadIs
<1> HIDE DEF e, k
<1>11. x = Bytes(s.pkt, r, e) /\ Len(wire) > k /\ SubSeq(wire, k + 2, Len(wire)) = <<>>
  <2>1. k + 1 = Len(wire) /\ k + 2 = Len(wire) + 1 /\ Len(wire) > k
    BY <1>1, <1>5, <1>10
  <2> QED BY <1>1, <2>1
<1>12. r + k = e
  BY <1>1, <1>5, <1>10
<1> HIDE DEF x
<1> DEFINE p == Grown(h)
<1>13. p = WithBody(d, x, k)
  BY DEF Grown, d, x, k
<1>14. WithBody(d, x, k) = Record(d.ts, d.size, d.type, d.sid, d.read + k, d.abs, d.body \o x)
  BY <1>9, BodySet
<1>15. d.read + k = e /\ d.body \o x = Bytes(s.pkt, 0, e)
  BY <1>6, <1>7, <1>11, <1>12
<1> DEFINE b == Bytes(s.pkt, 0, e)
<1>16. p = Record(d.ts, d.size, d.type, d.sid, e, d.abs, b)
  BY <1>13, <1>14, <1>15
<1> HIDE DEF p
<1>17. /\ d.ts \in Stamps /\ d.size \in Nat /\ d.type \in Kinds /\ d.sid \in {0, 1} /\ e \in Nat
       /\ d.abs \in BOOLEAN /\ b \in Seq(BodyBytes)
  BY <1>3, <1>4, <1>5, <1>6, <1>7, <1>8 DEF Packets
<1> HIDE DEF b
<1>18. /\ p \in Readings /\ p.ts = d.ts /\ p.size = d.size /\ p.type = d.type /\ p.sid = d.sid
       /\ p.read = e /\ (p.abs <=> d.abs) /\ p.body = b
  BY <1>16, <1>17, RecordIs
<1>19. p = Record(p.ts, p.size, p.type, p.sid, p.read, p.abs, p.body)
  BY <1>16 DEF Record
<1> QED BY <1>7, <1>8, <1>11, <1>18, <1>19 DEF h, c, n, r, s, e, d, k, t, p, b

(* Of a packet with a time the reader keeps as much of it as Capped says.  *)
LEMMA KeptIs ==
  ASSUME ChunkInv, wire # <<>>
  PROVE  LET h == wire[1]
             s == sent[h.ch][Len(got[h.ch]) + 1]
             p == Grown(h)
             v == Kept(h, p)
         IN  /\ v \in Readings /\ v.ts = Capped(s.field)
             /\ v.size = p.size /\ v.type = p.type /\ v.sid = p.sid
             /\ v.read = p.read /\ (v.abs <=> p.abs) /\ v.body = p.body
<1> DEFINE h == wire[1]
           c == h.ch
           n == Len(got[c])
           r == Reached(vecIn[c])
           s == sent[c][n + 1]
           p == Grown(h)
           v == Kept(h, p)
<1>1. /\ h \in Headers /\ c \in Channels /\ s \in Sendings /\ Timed(s) /\ r \in Nat
      /\ h = IF r = 0 THEN s.head ELSE NextHeader(s.pkt, r)
  BY WireIs
<1>2. /\ p \in Readings
      /\ p.ts = IF r = 0 /\ h.hdr # MINIMUM THEN s.field ELSE Capped(s.field)
      /\ p = Record(p.ts, p.size, p.type, p.sid, p.read, p.abs, p.body)
  BY GrownIs
<1>3. v = IF h.ext # -1 THEN WithTime(p, ExtTs) ELSE p
  BY DEF Kept, WithTime
<1> HIDE DEF h, c, n, r, s, p, v
<1>4. s.field \in Stamps
  BY <1>1 DEF Sendings
<1>5. Capped(s.field) \in Stamps /\ ExtTs \in Stamps
      /\ (s.field < ExtTs => Capped(s.field) = s.field) /\ (s.field >= ExtTs => Capped(s.field) = ExtTs)
  BY <1>4, CappedIs
<1>6. CASE h.ext # -1
  <2>1. r = 0 /\ h = s.head
    BY <1>1, <1>6 DEF NextHeader
  <2>2. Capped(s.field) = ExtTs
    BY <1>1, <1>5, <1>6, <2>1 DEF Timed
  <2>3. v = Record(ExtTs, p.size, p.type, p.sid, p.read, p.abs, p.body)
    BY <1>2, <1>3, <1>6, TimeSet
  <2>4. /\ p.size \in Nat /\ p.type \in Kinds /\ p.sid \in {0, 1} /\ p.read \in Nat
        /\ p.abs \in BOOLEAN /\ p.body \in Seq(BodyBytes)
    BY <1>2 DEF Readings
  <2>5. /\ v \in Readings /\ v.ts = ExtTs /\ v.size = p.size /\ v.type = p.type /\ v.sid = p.sid
        /\ v.read = p.read /\ (v.abs <=> p.abs) /\ v.body = p.body
    <3> DEFINE z == p.size
               k == p.type
               i == p.sid
               m == p.read
               a == p.abs
               b == p.body
    <3>1. /\ ExtTs \in Stamps /\ z \in Nat /\ k \in Kinds /\ i \in {0, 1} /\ m \in Nat
          /\ a \in BOOLEAN /\ b \in Seq(BodyBytes)
      BY <1>5, <2>4
    <3>2. v = Record(ExtTs, z, k, i, m, a, b)
      BY <2>3
    <3> HIDE DEF z, k, i, m, a, b
    <3>3. /\ v \in Readings /\ v.ts = ExtTs /\ v.size = z /\ v.type = k /\ v.sid = i
          /\ v.read = m /\ (v.abs <=> a) /\ v.body = b
      BY <3>1, <3>2, RecordIs
    <3> QED BY <3>3 DEF z, k, i, m, a, b
  <2> QED BY <2>2, <2>5 DEF h, c, n, r, s, p, v
<1>7. CASE h.ext = -1
  <2>1. v = p
    BY <1>3, <1>7
  <2>2. p.ts = Capped(s.field)
    <3>1. CASE r = 0 /\ h.hdr # MINIMUM
      <4>1. h = s.head /\ ~(s.field >= ExtTs)
        BY <1>1, <1>7, <3>1 DEF Timed
      <4>2. s.field < ExtTs
        BY <1>4, <4>1, RtmpChunkAssumption DEF Stamps
      <4> QED BY <1>2, <1>5, <3>1, <4>2
    <3>2. CASE ~(r = 0 /\ h.hdr # MINIMUM)
      BY <1>2, <3>2
    <3> QED BY <3>1, <3>2
  <2> QED BY <1>2, <2>1, <2>2 DEF h, c, n, r, s, p, v
<1> QED BY <1>6, <1>7

(* The time of a completed packet, unless it was lost on the way.          *)
LEMMA TimeIs ==
  ASSUME ChunkInv, wire # <<>>
  PROVE  LET h == wire[1]
             s == sent[h.ch][Len(got[h.ch]) + 1]
             u == AbsTime(h, Grown(h))
         IN  u \in Stamps /\ (~s.lost => u = s.pkt.ts)
<1> DEFINE h == wire[1]
           c == h.ch
           n == Len(got[c])
           r == Reached(vecIn[c])
           S == sent[c]
           s == S[n + 1]
           p == Grown(h)
           t == chTime[c]
<1>1. /\ h \in Headers /\ c \in Channels /\ s \in Sendings /\ Timed(s) /\ r \in Nat /\ n \in Nat
      /\ h = IF r = 0 THEN s.head ELSE NextHeader(s.pkt, r)
      /\ r = 0 \/ (s.cut <= r /\ r < s.pkt.size)
      /\ n = 0 => s.head.hdr = LARGE
      /\ n > 0 => S[n] \in Sendings /\ Omits(s, S[n])
  BY WireIs
<1>2. /\ p \in Readings /\ (p.abs <=> s.head.hdr = LARGE)
      /\ p.ts = IF r = 0 /\ h.hdr # MINIMUM THEN s.field ELSE Capped(s.field)
  BY GrownIs
<1>3. t \in Stamps /\ got[c] \in Seq(Readings) /\ GotOf(got[c], S, t)
  BY <1>1, GotWithin DEF ChunkInv, ChunkTypes, ChannelInv
<1>4. n > 0 => t = got[c][n].ts /\ IsGot(got[c][n], S[n])
  BY <1>3 DEF GotOf
<1>5. AbsTime(h, p) = IF p.abs THEN p.ts ELSE (p.ts + t) % TsMod
  BY DEF AbsTime
<1> HIDE DEF h, c, n, r, S, s, p, t
<1>6. s.field \in Stamps /\ s.pkt.size \in Nat /\ s.cut \in Nat
  BY <1>1, RtmpChunkAssumption DEF Sendings, Packets
<1>7. Capped(s.field) \in Stamps /\ (s.field < ExtTs => Capped(s.field) = s.field) /\ Capped(0) = 0
  BY <1>6, CappedIs
<1>8. p.ts \in Stamps
  BY <1>2, <1>6, <1>7
<1>9. AbsTime(h, p) \in Stamps
  BY <1>3, <1>5, <1>8, SumStamped
<1>10. ASSUME ~s.lost PROVE p.ts = s.field
  <2>1. CASE r = 0 /\ h.hdr # MINIMUM
    BY <1>2, <2>1
  <2>2. CASE s.head.hdr = MINIMUM
    <3>1. n > 0
      BY <1>1, <2>2 DEF LARGE, MINIMUM
    <3>2. s.field = 0
      BY <1>1, <1>10, <2>2, <3>1 DEF Omits, LARGE, MINIMUM
    <3> QED BY <1>2, <1>7, <3>2
  <2>3. CASE r # 0 /\ s.head.hdr # MINIMUM
    <3>1. ~(s.pkt.size <= s.cut)
      BY <1>1, <1>6, <2>3
    <3>2. ~(s.field >= ExtTs)
      BY <1>1, <1>10, <2>3, <3>1 DEF Timed
    <3>3. s.field < ExtTs
      BY <1>6, <3>2, RtmpChunkAssumption DEF Stamps
    <3> QED BY <1>2, <1>7, <2>3, <3>3
  <2> QED BY <1>1, <2>1, <2>2, <2>3
<1>11. ASSUME ~s.lost PROVE AbsTime(h, p) = s.pkt.ts
  <2>1. CASE s.head.hdr = LARGE
    BY <1>1, <1>2, <1>5, <1>10, <1>11, <2>1 DEF Timed
  <2>2. CASE s.head.hdr # LARGE
    <3>1. n > 0 /\ S[n] \in Sendings /\ Omits(s, S[n])
      BY <1>1, <2>2
    <3>2. ~S[n].lost
      BY <1>11, <2>2, <3>1 DEF Omits
    <3>3. t = S[n].pkt.ts
      BY <1>4, <3>1, <3>2 DEF IsGot
    <3>4. AbsTime(h, p) = (s.field + S[n].pkt.ts) % TsMod
      BY <1>2, <1>5, <1>10, <1>11, <2>2, <3>3
    <3>5. s.head.hdr \in {MEDIUM, SMALL, MINIMUM}
      BY <1>1, <2>2 DEF Sendings, Headers, LARGE, MEDIUM, SMALL, MINIMUM
    <3>6. CASE s.head.hdr = MINIMUM
      <4>1. s.field = 0 /\ s.pkt.ts = S[n].pkt.ts
        BY <1>11, <3>1, <3>6 DEF Omits, LARGE, MINIMUM
      <4>2. S[n].pkt.ts \in 0 .. TsMod - 1 /\ TsMod \in Nat
        BY <3>1, RtmpChunkAssumption DEF Sendings, Packets, Stamps
      <4> DEFINE q == S[n].pkt.ts
      <4> HIDE DEF q
      <4>3. q \in 0 .. TsMod - 1 => (0 + q) % TsMod = q
        BY <4>2
      <4> QED BY <3>4, <4>1, <4>2, <4>3 DEF q
    <3>7. CASE s.head.hdr # MINIMUM
      BY <3>1, <3>4, <3>5, <3>7 DEF Omits
    <3> QED BY <3>6, <3>7
  <2> QED BY <2>1, <2>2
<1> QED BY <1>9, <1>11 DEF h, c, n, r, S, s, p, t

(* RTMP_ReadPacket in terms of the packet it has put together.             *)
LEMMA ReadDoes ==
  ASSUME ChunkInv, RTMP_ReadPacket
  PROVE  LET h == wire[1]
             c == h.ch
             p == Grown(h)
             v == Kept(h, p)
             u == AbsTime(h, p)
             ready == p.read = p.size
         IN  /\ wire # <<>> /\ wire' = <<>>
             /\ vecIn' = [vecIn EXCEPT ![c] = IF ready THEN Emptied(v) ELSE v]
             /\ chTime' = IF ready THEN [chTime EXCEPT ![c] = u] ELSE chTime
             /\ got' = IF ready THEN [got EXCEPT ![c] = Append(@, WithTime(p, u))] ELSE got
             /\ inChunk' = IF ready THEN HandleChangeChunkSize(p) ELSE inChunk
             /\ UNCHANGED <<vecOut, outChunk, queued, sent>>
<1> DEFINE h == wire[1]
           d == Decoded(h)
           k == ToRead(d)
<1>1. wire # <<>>
  BY DEF RTMP_ReadPacket
<1>2. Head(wire) = h /\ SubSeq(wire, k + 2, Len(wire)) = <<>>
  BY <1>1, WireIs, GrownIs
<1>3. LET p == WithBody(d, SubSeq(wire, 2, k + 1), k)
          ready == p.read = p.size
          keep == Kept(h, p)
      IN  /\ wire' = SubSeq(wire, k + 2, Len(wire))
          /\ vecIn' = [vecIn EXCEPT ![h.ch] = IF ready THEN Emptied(keep) ELSE keep]
          /\ chTime' = IF ready THEN [chTime EXCEPT ![h.ch] = AbsTime(h, p)] ELSE chTime
          /\ got' = IF ready THEN [got EXCEPT ![h.ch] = Append(@, WithTime(p, AbsTime(h, p)))] ELSE got
          /\ inChunk' = IF ready THEN HandleChangeChunkSize(p) ELSE inChunk
          /\ UNCHANGED <<vecOut, outChunk, queued, sent>>
  BY <1>2 DEF RTMP_ReadPacket, WithBody, Emptied, WithTime
<1> QED BY <1>1, <1>2, <1>3 DEF Grown

(* What is read of a chunk of a channel is what the channel waits for.     *)
LEMMA ReadHolds ==
  ASSUME ChunkInv, RTMP_ReadPacket, NEW c, c = wire[1].ch
  PROVE  ChannelInv(c)'
<1> DEFINE h == wire[1]
           n == Len(got[c])
           r == Reached(vecIn[c])
           S == sent[c]
           s == S[n + 1]
           e == Upto(s, r)
           p == Grown(h)
           v == Kept(h, p)
           u == AbsTime(h, p)
           ready == p.read = p.size
<1>1. /\ wire # <<>> /\ wire' = <<>>
      /\ vecIn' = [vecIn EXCEPT ![c] = IF ready THEN Emptied(v) ELSE v]
      /\ chTime' = IF ready THEN [chTime EXCEPT ![c] = u] ELSE chTime
      /\ got' = IF ready THEN [got EXCEPT ![c] = Append(@, WithTime(p, u))] ELSE got
      /\ UNCHANGED <<vecOut, outChunk, queued, sent>>
  BY ReadDoes
<1>2. /\ c \in Channels /\ S \in Seq(Sendings) /\ n + 1 \in 1 .. Len(S) /\ n \in Nat
      /\ s \in Sendings /\ Alike(s, c, n + 1) /\ r \in Nat
      /\ r = 0 \/ (s.cut <= r /\ r < s.pkt.size)
      /\ IF e = s.pkt.size THEN LineOf(queued[c], S, n + 1, 0) ELSE LineOf(queued[c], S, n, e)
  BY <1>1, WireIs
<1>3. /\ p \in Readings /\ p.size = s.pkt.size /\ p.type = s.pkt.type /\ p.sid = s.pkt.sid
      /\ p.read = e /\ (p.abs <=> s.head.hdr = LARGE) /\ p.body = Bytes(s.pkt, 0, e)
      /\ p = Record(p.ts, p.size, p.type, p.sid, p.read, p.abs, p.body)
  BY <1>1, GrownIs
<1>4. /\ v \in Readings /\ v.ts = Capped(s.field)
      /\ v.size = p.size /\ v.type = p.type /\ v.sid = p.sid
      /\ v.read = p.read /\ (v.abs <=> p.abs) /\ v.body = p.body
  BY <1>1, KeptIs
<1>5. u \in Stamps /\ (~s.lost => u = s.pkt.ts)
  BY <1>1, TimeIs
<1>6. /\ SentOf(S, c) /\ OutInv(c) /\ GotOf(got[c], S, chTime[c])
      /\ got[c] \in Seq(Readings) /\ got \in [Channels -> Seq(Readings)]
      /\ chTime \in [Channels -> Stamps] /\ vecIn \in [Channels -> Readings \cup {None}]
  BY <1>2 DEF ChunkInv, ChannelInv, ChunkTypes
<1> HIDE DEF h, n, r, S, s, p, v, u
<1>7. s.pkt \in Packets /\ s.pkt.id = n + 1
  BY <1>2 DEF Sendings, Alike
<1>8. e \in Nat /\ (e # s.pkt.size => e > 0)
  BY <1>2, UptoIs
<1>9. p.body = [i \in 1 .. e |-> [kind |-> "byte", id |-> n + 1, off |-> i]]
  <2> DEFINE q == s.pkt
  <2>1. q \in Packets /\ q.id = n + 1
    BY <1>7
  <2> HIDE DEF q, e
  <2>2. Bytes(q, 0, e) = [i \in 1 .. e |-> [kind |-> "byte", id |-> q.id, off |-> i]]
    BY <1>8, <2>1, BodyIs
  <2> QED BY <1>3, <2>1, <2>2 DEF q
<1>10. Keeps(v, s)
  BY <1>3, <1>4 DEF Keeps
<1>11. sent'[c] = S /\ vecOut'[c] = vecOut[c] /\ queued'[c] = queued[c]
  BY <1>1 DEF S
<1>12. SentOf(sent[c], c)' /\ OutInv(c)'
  BY <1>6, <1>11 DEF OutInv, S
<1>13. Ahead(c)' = queued[c]
  BY <1>1, <1>11 DEF Ahead, OnWire
<1> HIDE DEF e
<1>14. CASE ~ready
  <2>1. vecIn'[c] = v /\ got'[c] = got[c] /\ chTime'[c] = chTime[c]
    BY <1>1, <1>2, <1>6, <1>14
  <2>2. e # s.pkt.size
    BY <1>3, <1>14
  <2>3. v # None /\ v.read = e /\ v.read # 0
    <3>1. v # None
      BY <1>4 DEF Readings, None
    <3> QED BY <1>3, <1>4, <1>8, <2>2, <3>1
  <2>4. Line(c)'
    BY <1>2, <1>11, <1>13, <2>1, <2>2, <2>3 DEF Line, Reached, n
  <2>5. n < Len(S)
    BY <1>2
  <2>6. InOf(v, S, n)
    BY <1>3, <1>4, <1>9, <1>10, <2>3, <2>5 DEF InOf, s
  <2>7. InOf(vecIn[c], sent[c], Len(got[c]))'
    BY <1>11, <2>1, <2>6 DEF n
  <2>8. GotOf(got[c], sent[c], chTime[c])'
    BY <1>6, <1>11, <2>1
  <2> QED BY <1>12, <2>4, <2>7, <2>8 DEF ChannelInv
<1>15. CASE ready
  <2> DEFINE w == Emptied(v)
             g == WithTime(p, u)
  <2>1. /\ w \in Readings /\ w.read = 0 /\ ~w.abs /\ w.body = <<>>
        /\ w.ts = v.ts /\ w.size = v.size /\ w.type = v.type /\ w.sid = v.sid
    BY <1>4, EmptiedIs
  <2>2. g = Record(u, p.size, p.type, p.sid, p.read, p.abs, p.body)
    BY <1>3, TimeSet
  <2>3. /\ p.size \in Nat /\ p.type \in Kinds /\ p.sid \in {0, 1} /\ p.read \in Nat
        /\ p.abs \in BOOLEAN /\ p.body \in Seq(BodyBytes)
    BY <1>3 DEF Readings
  <2> HIDE DEF w, g
  <2>4. /\ g \in Readings /\ g.ts = u /\ g.size = p.size /\ g.type = p.type /\ g.sid = p.sid
        /\ g.body = p.body
    BY <1>5, <2>2, <2>3, RecordIs
  <2>5. vecIn'[c] = w /\ got'[c] = Append(got[c], g) /\ chTime'[c] = u
    BY <1>1, <1>2, <1>6, <1>15 DEF w, g
  <2>6. e = s.pkt.size
    BY <1>3, <1>15
  <2>7. /\ Len(Append(got[c], g)) = n + 1 /\ Append(got[c], g)[n + 1] = g
        /\ Append(got[c], g) # <<>>
        /\ \A i \in 1 .. n : Append(got[c], g)[i] = got[c][i]
    <3> DEFINE G == got[c]
    <3>1. G \in Seq(Readings) /\ Len(G) = n
      BY <1>6 DEF n
    <3> HIDE DEF G
    <3>2. /\ Len(Append(G, g)) = Len(G) + 1 /\ Append(G, g)[Len(G) + 1] = g
          /\ Append(G, g) # <<>>
          /\ \A i \in 1 .. Len(G) : Append(G, g)[i] = G[i]
      BY <2>4, <3>1, AppendIs
    <3> QED BY <3>1, <3>2 DEF G
  <2>8. w # None
    BY <2>1 DEF Readings, None
  <2>9. Line(c)'
    BY <1>2, <1>11, <1>13, <2>1, <2>5, <2>6, <2>7, <2>8 DEF Line, Reached
  <2>10. Keeps(w, s)
    BY <1>10, <2>1 DEF Keeps
  <2>11. InOf(w, S, n + 1)
    <3>1. w.body = [i \in 1 .. w.read |-> [kind |-> "byte", id |-> (n + 1) + 1, off |-> i]]
      BY <2>1
    <3>2. n + 1 > 0
      BY <1>2
    <3> QED BY <2>1, <2>8, <2>10, <3>1, <3>2 DEF InOf, s
  <2>12. InOf(vecIn[c], sent[c], Len(got[c]))'
    BY <1>11, <2>5, <2>7, <2>11
  <2>13. IsGot(g, s)
    BY <1>3, <1>5, <2>4, <2>6 DEF IsGot
  <2>14. GotOf(Append(got[c], g), S, u)
    <3> DEFINE G == Append(got[c], g)
    <3>1. \A i \in 1 .. n : IsGot(got[c][i], S[i])
      BY <1>6 DEF GotOf, n
    <3> HIDE DEF G
    <3>2. ASSUME NEW i \in 1 .. Len(G) PROVE IsGot(G[i], S[i])
      <4>1. CASE i = n + 1
        BY <2>7, <2>13, <4>1 DEF G, s
      <4>2. CASE i # n + 1
        <5>1. i \in 1 .. n
          BY <1>2, <2>7, <4>2 DEF G
        <5> QED BY <2>7, <3>1, <5>1 DEF G
      <4> QED BY <4>1, <4>2
    <3>3. Len(G) = n + 1 /\ G[Len(G)] = g /\ n + 1 <= Len(S)
      BY <1>2, <2>7 DEF G
    <3> QED BY <2>4, <3>2, <3>3 DEF GotOf, G
  <2>15. GotOf(got[c], sent[c], chTime[c])'
    BY <1>11, <2>5, <2>14
  <2> QED BY <1>12, <2>9, <2>12, <2>15 DEF ChannelInv
<1> QED BY <1>14, <1>15

(* What is read takes nothing from the other channels; a control packet    *)
(* sets the size.                                                          *)
LEMMA ReadKeeps ==
  ASSUME ChunkInv, RTMP_ReadPacket
  PROVE  ChunkInv'
<1> DEFINE h == wire[1]
           n == Len(got[h.ch])
           s == sent[h.ch][n + 1]
           p == Grown(h)
           v == Kept(h, p)
           u == AbsTime(h, p)
           ready == p.read = p.size
<1>1. PICK c \in Channels : c = h.ch
  <2>1. wire # <<>>
    BY ReadDoes
  <2> QED BY <2>1, WireIs
<1>2. /\ wire # <<>> /\ wire' = <<>>
      /\ vecIn' = [vecIn EXCEPT ![c] = IF ready THEN Emptied(v) ELSE v]
      /\ chTime' = IF ready THEN [chTime EXCEPT ![c] = u] ELSE chTime
      /\ got' = IF ready THEN [got EXCEPT ![c] = Append(@, WithTime(p, u))] ELSE got
      /\ inChunk' = IF ready THEN HandleChangeChunkSize(p) ELSE inChunk
      /\ UNCHANGED <<vecOut, outChunk, queued, sent>>
  BY <1>1, ReadDoes
<1>3. ChannelInv(c)'
  BY <1>1, ReadHolds
<1>4. /\ OnWire(c) /\ h.id = n + 1 /\ s \in Sendings /\ Alike(s, c, n + 1)
      /\ \A d \in Channels : d # c => ~OnWire(d)
  BY <1>1, <1>2, WireIs DEF OnWire
<1>5. /\ p \in Readings /\ p.size = s.pkt.size /\ p.type = s.pkt.type
      /\ p.read = Upto(s, Reached(vecIn[c])) /\ p.body = Bytes(s.pkt, 0, p.read)
      /\ p = Record(p.ts, p.size, p.type, p.sid, p.read, p.abs, p.body)
  BY <1>1, <1>2, GrownIs
<1>6. v \in Readings /\ Emptied(v) \in Readings
  <2>1. v \in Readings
    BY <1>2, KeptIs
  <2> HIDE DEF v
  <2> QED BY <2>1, EmptiedIs
<1>7. u \in Stamps
  BY <1>2, TimeIs
<1>8. WithTime(p, u) \in Readings
  <2> HIDE DEF p, u
  <2>1. WithTime(p, u) = Record(u, p.size, p.type, p.sid, p.read, p.abs, p.body)
    <3>1. p = Record(p.ts, p.size, p.type, p.sid, p.read, p.abs, p.body)
      BY <1>5
    <3> QED BY ONLY <3>1, TimeSet
  <2>2. /\ p.size \in Nat /\ p.type \in Kinds /\ p.sid \in {0, 1} /\ p.read \in Nat
        /\ p.abs \in BOOLEAN /\ p.body \in Seq(BodyBytes)
    BY <1>5 DEF Readings
  <2> QED BY <1>7, <2>1, <2>2, RecordIs
<1>9. sent[c] = sent[h.ch] /\ Announced(wire) = sent[CtlChannel][h.id].pkt.value
  BY <1>1 DEF Announced
<1>10. IF c = CtlChannel THEN s.pkt.size = 1 /\ Upto(s, Reached(vecIn[c])) = 1 ELSE TRUE
  <2> SUFFICES ASSUME c = CtlChannel PROVE s.pkt.size = 1 /\ Upto(s, Reached(vecIn[c])) = 1
    OBVIOUS
  <2>1. /\ s.pkt.size = 1 /\ Reached(vecIn[c]) \in Nat
        /\ (Reached(vecIn[c]) = 0 \/ (s.cut <= Reached(vecIn[c]) /\ Reached(vecIn[c]) < s.pkt.size))
    BY <1>1, <1>2, WireIs
  <2>2. s.cut \in Nat \ {0}
    BY <1>4, RtmpChunkAssumption DEF Sendings
  <2> DEFINE r == Reached(vecIn[c])
  <2> HIDE DEF r, s
  <2>3. r = 0
    BY <2>1, <2>2 DEF r
  <2> QED BY <2>1, <2>2, <2>3 DEF r, Upto
<1> HIDE DEF h, n, s, p, v, u
<1>11. inChunk' = IF c = CtlChannel THEN Announced(wire) ELSE inChunk
  <2>1. CASE c = CtlChannel
    <3>1. ready /\ p.read = 1 /\ p.type = SetChunk
      BY <1>4, <1>5, <1>10, <2>1 DEF Alike
    <3>2. s.pkt \in Packets /\ s.pkt.id = n + 1
      BY <1>4 DEF Sendings, Alike
    <3>3. p.body[1].id = n + 1
      <4> DEFINE q == s.pkt
      <4>1. q \in Packets /\ q.id = n + 1 /\ p.body = Bytes(q, 0, 1)
        BY <1>5, <3>1, <3>2
      <4> HIDE DEF q
      <4>2. Bytes(q, 0, 1) = [i \in 1 .. 1 |-> [kind |-> "byte", id |-> q.id, off |-> i]]
        BY <4>1, BodyIs
      <4> QED BY <4>1, <4>2
    <3> QED BY <1>2, <1>4, <1>9, <2>1, <3>1, <3>3 DEF HandleChangeChunkSize
  <2>2. CASE c # CtlChannel
    <3>1. p.type # SetChunk
      BY <1>4, <1>5, <2>2 DEF Alike
    <3> QED BY <1>2, <2>2, <3>1 DEF HandleChangeChunkSize
  <2> QED BY <2>1, <2>2
<1>12. CutInv /\ ChunkTypes /\ CtlChannel \in Channels
  BY RtmpChunkAssumption DEF ChunkInv
<1>13. CutInv'
  <2>1. AfterWire' = AfterWire
    <3>1. AfterWire' = inChunk'
      BY <1>2 DEF AfterWire, OnWire
    <3> QED BY <1>4, <1>11, <1>12, <3>1 DEF AfterWire
  <2>2. AfterQueue' = AfterQueue
    BY <1>2, <2>1 DEF AfterQueue, Announced
  <2>3. \A d \in Channels : ~OnWire(d)'
    BY <1>2 DEF OnWire
  <2> QED BY <1>2, <1>12, <2>2, <2>3 DEF CutInv
<1>14. ASSUME NEW d \in Channels, d # c PROVE ChannelInv(d)'
  <2>1. /\ vecIn'[d] = vecIn[d] /\ chTime'[d] = chTime[d] /\ got'[d] = got[d]
        /\ sent'[d] = sent[d] /\ vecOut'[d] = vecOut[d] /\ queued'[d] = queued[d]
    BY <1>2, <1>12, <1>14 DEF ChunkTypes
  <2>2. Ahead(d)' = Ahead(d)
    BY <1>2, <1>4, <1>14, <2>1 DEF Ahead, OnWire
  <2>3. ChannelInv(d)
    BY DEF ChunkInv
  <2> QED BY <2>1, <2>2, <2>3 DEF ChannelInv, OutInv, Line
<1>15. inChunk' \in ChunkSizes
  <2>1. CASE c = CtlChannel
    BY <1>4, <1>9, <1>11, <2>1 DEF Alike, s, h
  <2>2. CASE c # CtlChannel
    BY <1>11, <1>12, <2>2 DEF ChunkTypes
  <2> QED BY <2>1, <2>2
<1>16. got' \in [Channels -> Seq(Readings)]
  <2>1. got[c] \in Seq(Readings) /\ got \in [Channels -> Seq(Readings)]
    BY <1>12 DEF ChunkTypes
  <2>2. Append(got[c], WithTime(p, u)) \in Seq(Readings)
    BY <1>8, <2>1
  <2> QED BY <1>2, <2>1, <2>2
<1>17. ChunkTypes'
  <2>1. chTime' \in [Channels -> Stamps]
    BY <1>2, <1>7, <1>12 DEF ChunkTypes
  <2>2. vecIn' \in [Channels -> Readings \cup {None}]
    BY <1>2, <1>6, <1>12 DEF ChunkTypes
  <2> QED BY <1>2, <1>12, <1>15, <1>16, <2>1, <2>2 DEF ChunkTypes
<1> QED BY <1>2, <1>3, <1>13, <1>14, <1>17 DEF ChunkInv

-----------------------------------------------------------------------------
(* Before anything is sent the invariant holds.                            *)
LEMMA ChunkInvInit ==
  ASSUME Init
  PROVE  ChunkInv
<1>1. TsMod \in Nat \ {0} /\ 0 \in Stamps /\ DefaultChunk \in ChunkSizes /\ CtlChannel \in Channels
  BY RtmpChunkAssumption DEF Stamps
<1>2. ChunkTypes
  <2>1. <<>> \in Seq(Headers \cup BodyBytes) /\ <<>> \in Seq(Sendings) /\ <<>> \in Seq(Readings)
        /\ <<>> \in Seq(Seq(Headers \cup BodyBytes))
    OBVIOUS
  <2> QED BY <1>1, <2>1 DEF Init, ChunkTypes
<1>3. CutInv
  <2>1. \A c \in Channels : queued[c] = <<>> /\ ~OnWire(c)
    BY DEF Init, OnWire
  <2> QED BY <1>1, <2>1 DEF Init, CutInv, AfterQueue, AfterWire
<1>4. ASSUME NEW c \in Channels PROVE ChannelInv(c)
  <2>1. /\ Ahead(c) = <<>> /\ sent[c] = <<>> /\ got[c] = <<>> /\ vecIn[c] = None /\ vecOut[c] = None
    BY DEF Init, Ahead, OnWire
  <2> QED BY <2>1 DEF ChannelInv, SentOf, OutInv, Line, LineOf, Reached, InOf, GotOf
<1> QED BY <1>2, <1>3, <1>4 DEF Init, ChunkInv

(* Every step keeps the invariant.                                         *)
LEMMA ChunkInvNext ==
  ASSUME ChunkInv, [Next]_vars
  PROVE  ChunkInv'
<1>1. CASE \E c \in Channels \ {CtlChannel}, k \in Types, z \in Sizes, t \in Times : RTMP_Write(c, k, z, t)
  BY <1>1, WriteKeeps
<1>2. CASE \E n \in ChunkSizes : SendChunkSize(n)
  BY <1>2, SendChunkSizeKeeps
<1>3. CASE \E c \in Channels : Transmit(c)
  BY <1>3, TransmitKeeps
<1>4. CASE RTMP_ReadPacket
  BY <1>4, ReadKeeps
<1>5. CASE UNCHANGED vars
  BY <1>5 DEF vars, ChunkInv, ChunkTypes, CutInv, AfterQueue, AfterWire, Announced, OnWire,
              ChannelInv, OutInv, Line, Ahead
<1> QED BY <1>1, <1>2, <1>3, <1>4, <1>5 DEF Next

(* The invariant gives the property.                                       *)
LEMMA ChunkInvSound ==
  ASSUME ChunkInv
  PROVE  ChunksRead
<1>1. ASSUME NEW c \in Channels
      PROVE  Len(got[c]) <= Len(sent[c]) /\ \A i \in 1 .. Len(got[c]) : IsGot(got[c][i], sent[c][i])
  BY DEF ChunkInv, ChannelInv, GotOf
<1>2. TypeOK
  BY <1>1 DEF TypeOK, ChunkInv, ChunkTypes, Stamps
<1>3. Framed
  BY WireIs DEF Framed, Headers
<1>4. PacketsIntact
  BY <1>1 DEF PacketsIntact, IsGot
<1>5. TimesKept
  BY <1>1 DEF TimesKept, IsGot
<1> QED BY <1>2, <1>3, <1>4, <1>5 DEF ChunksRead

(***************************************************************************)
(* For any channels, packets, times and chunk sizes, however the chunks of *)
(* several channels are interleaved and whenever a packet announces        *)
(* another m_outChunkSize: RTMP_ReadPacket finds a header where            *)
(* RTMP_SendPacket put one, completes the packets of a channel in order    *)
(* with their bytes, size, type and stream although most headers leave     *)
(* them out, and with their times but in the cases TimeLost names.         *)
(***************************************************************************)
THEOREM ChunksAreRead == Spec => []ChunksRead
<1>1. Init => ChunkInv
  BY ChunkInvInit
<1>2. ChunkInv /\ [Next]_vars => ChunkInv'
  BY ChunkInvNext
<1>3. ChunkInv => ChunksRead
  BY ChunkInvSound
<1> QED BY <1>1, <1>2, <1>3, PTL DEF Spec
=============================================================================
