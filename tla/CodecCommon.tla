---------------------------- MODULE CodecCommon ----------------------------
(***************************************************************************)
(* The helpers on encoded audio and video of util/codec-common.c: the      *)
(* search for NAL units in an H.264 byte stream, the configuration records *)
(* of both codecs and the ADTS header.  A buffer b is a sequence of bytes, *)
(* a pointer an offset from its first byte; base is the address of that    *)
(* byte modulo 4, which the fast search depends on.                        *)
(***************************************************************************)
EXTENDS Integers, Sequences, FiniteSetsExt

Byte(b, p) == b[p + 1]
Slice(b, from, to) == SubSeq(b, from + 1, to)
FirstOf(S, none) == IF S = {} THEN none ELSE Min(S)
Smaller(m, n) == IF m < n THEN m ELSE n

(* The bytes 0, 0, 1.                                                      *)
IsCode(b, p) == Byte(b, p) = 0 /\ Byte(b, p + 1) = 0 /\ Byte(b, p + 2) = 1
----------------------------------------------------------------------------
(***************************************************************************)
(* ff_avc_find_startcode_internal.  HasZero is its trick on a word of four *)
(* bytes, (x - 0x01010101) & ~x & 0x80808080, byte by byte with borrows.   *)
(***************************************************************************)
HasZero(b, p) ==
    LET less[k \in 0..3] == 1 + (IF k > 0 /\ Byte(b, p + k - 1) < less[k - 1] THEN 1 ELSE 0)
    IN  \E k \in 0..3 : (Byte(b, p + k) - less[k]) % 256 >= 128 /\ Byte(b, p + k) < 128

WordHits_LastMissed(b, p) ==
    IF ~HasZero(b, p) THEN {} ELSE {q \in p .. p + 2 : IsCode(b, q)}

(* The start codes that begin in the word at p.                            *)
WordHits(b, p) ==
    IF ~HasZero(b, p) THEN {}
    ELSE {q \in p .. p + 3 : Byte(b, IF q - p \in {0, 1} THEN p + 1 ELSE p + 3) = 0 /\ IsCode(b, q)}

find_startcode_internal(b, base, p, end) ==
    LET a       == p + 4 - ((base + p) % 4)
        p1      == IF p < end - 3 THEN Smaller(a, end - 3) ELSE p
        first   == {q \in p .. p1 - 1 : IsCode(b, q)}
        words   == {q \in p1 .. end - 7 : (q - p1) % 4 = 0}
        p2      == IF words = {} THEN p1 ELSE Max(words) + 4
        second  == UNION {WordHits(b, q) : q \in words}
        third   == {q \in p2 .. end - 4 : IsCode(b, q)}
    IN  FirstOf(first, FirstOf(second, FirstOf(third, end)))

mgw_avc_find_startcode(b, base, p, end) ==
    LET out == find_startcode_internal(b, base, p, end)
    IN  IF p < out /\ out < end /\ Byte(b, out - 1) = 0 THEN out - 1 ELSE out

(* The inner loop of the walk: past zeros and the byte that ends them.     *)
PastZeros(b, p) ==
    LET q == FirstOf({k \in p .. Len(b) - 1 : Byte(b, k) # 0}, Len(b))
    IN  Smaller(q + 1, Len(b))

(* The walk of mgw_avc_keyframe and get_avc_sps_pps over the NAL units.    *)
RECURSIVE NalsFrom(_, _, _)
NalsFrom(b, base, at) ==
    LET start == PastZeros(b, at)
        next  == mgw_avc_find_startcode(b, base, start, Len(b))
    IN  IF start = Len(b) THEN <<>>
        ELSE <<[start |-> start, end |-> next]>> \o NalsFrom(b, base, next)

Nals(b, base) == NalsFrom(b, base, mgw_avc_find_startcode(b, base, 0, Len(b)))
NalType(b, nal) == Byte(b, nal.start) % 32

mgw_avc_keyframe(b, base) ==
    LET nals   == Nals(b, base)
        slices == {k \in 1..Len(nals) : NalType(b, nals[k]) \in {1, 5}}
    IN  slices # {} /\ NalType(b, nals[Min(slices)]) = 5

(* get_avc_sps_pps: the last unit of the type.                             *)
LastNal(b, base, type) ==
    LET nals == Nals(b, base)
        of   == {k \in 1..Len(nals) : NalType(b, nals[k]) = type}
    IN  IF of = {} THEN <<>> ELSE Slice(b, nals[Max(of)].start, nals[Max(of)].end)

Be16(n) == <<(n \div 256) % 256, n % 256>>
Be32(n) == Be16((n \div 65536) % 65536) \o Be16(n % 65536)

AvcRecord(sps, pps) ==
    IF Len(sps) < 4 \/ pps = <<>> THEN <<>>
    ELSE <<1>> \o SubSeq(sps, 2, 4) \o <<255, 225>> \o Be16(Len(sps)) \o sps
           \o <<1>> \o Be16(Len(pps)) \o pps

mgw_parse_avc_header(b, base) == AvcRecord(LastNal(b, base, 7), LastNal(b, base, 8))

(***************************************************************************)
(* mgw_avc_get_startcode_len, which reads four bytes whatever the size of  *)
(* the buffer: behind is what follows it in memory.                        *)
(***************************************************************************)
Seen(b, behind, p) == IF p < Len(b) THEN Byte(b, p) ELSE behind[p - Len(b) + 1]

mgw_avc_get_startcode_len(b, behind, p) ==
    IF Seen(b, behind, p) # 0 \/ Seen(b, behind, p + 1) # 0 THEN -1
    ELSE IF Seen(b, behind, p + 2) = 1 THEN 3
    ELSE IF Seen(b, behind, p + 2) = 0 /\ Seen(b, behind, p + 3) = 1 THEN 4
    ELSE -1

(***************************************************************************)
(* mgw_avc_get_nal for the type of a key frame, in the whole buffer: the   *)
(* unit goes to the end.  The pointer moves before it looks, so a code of  *)
(* three bytes in front of the buffer is not seen.                         *)
(***************************************************************************)
RECURSIVE GetNal(_, _, _, _, _)
GetNal(b, behind, type, i, p) ==
    LET len == mgw_avc_get_startcode_len(b, behind, p + 1)
    IN  IF i = Len(b) THEN -1
        ELSE IF len < 0 THEN GetNal(b, behind, type, i + 1, p + 1)
        ELSE IF Seen(b, behind, p + 1 + len) % 32 = type THEN p + 1 + len
        ELSE GetNal(b, behind, type, i + 1, p + 1 + len)

mgw_avc_get_keyframe(b, behind) == GetNal(b, behind, 5, 0, 0)
----------------------------------------------------------------------------
(***************************************************************************)
(* Audio: the sampling rates that have an index, AudioSpecificConfig, and  *)
(* the ADTS header in front of a frame.                                    *)
(***************************************************************************)
Rated == <<96000, 88200, 64000, 48000, 44100, 32000, 24000, 22050, 16000, 12000, 11025, 8000, 7350>>

get_samplerate_index(rate) ==
    FirstOf({k - 1 : k \in {j \in 1..Len(Rated) : Rated[j] = rate}}, 15)

mgw_get_aac_lc_header_Unshifted(channels, rate) ==
    LET idx  == get_samplerate_index(rate)
        low  == (channels % 16) * 8
        head == <<2 * 8 + (idx \div 2), (idx % 2) * 128>>
    IN  IF idx # 15 THEN <<head[1], head[2] + low>>
        ELSE <<head[1], head[2] + ((rate \div 65536) % 128), (rate \div 256) % 256, rate % 256, low>>

mgw_get_aac_lc_header(channels, rate) ==
    LET idx  == get_samplerate_index(rate)
        low  == (channels % 16) * 8
        head == <<2 * 8 + (idx \div 2), (idx % 2) * 128>>
    IN  IF idx # 15 THEN <<head[1], head[2] + low>>
        ELSE <<head[1], head[2] + ((rate \div 131072) % 128), (rate \div 512) % 256,
               (rate \div 2) % 256, (rate % 2) * 128 + low>>

(* 0xAF with the bits for 16 bit samples and two channels taken back.      *)
mgw_get_aaclc_flv_header(channels, samplesize, rate) ==
    <<175 - (IF samplesize = 8 THEN 2 ELSE 0) - (IF channels = 1 THEN 1 ELSE 0), 0>>
       \o mgw_get_aac_lc_header(channels, rate)

mgw_aac_add_adts(rate, profile, channels, data) ==
    LET size == 7 + Len(data)
    IN  <<255, 241,
          ((profile - 1) * 64 + get_samplerate_index(rate) * 4 + channels \div 4) % 256,
          ((channels % 8) * 64 + size \div 2048) % 256,
          (size \div 8) % 256, (size % 8) * 32 + 31, 252>> \o data
----------------------------------------------------------------------------
(* The first start code that something follows: what the fast search with  *)
(* its words and borrows has to find, wherever the buffer lies in memory.  *)
NaiveStart(b, p) == FirstOf({q \in p .. Len(b) - 4 : IsCode(b, q)}, Len(b))

(* The NAL units by their definition: from behind one code to the next,    *)
(* without the zero that makes that one four bytes long.                   *)
NaiveNals(b) ==
    LET starts == {q + 3 : q \in {k \in 0 .. Len(b) - 4 : IsCode(b, k)}}
        ends(s) == LET q == NaiveStart(b, s)
                   IN  IF q \in s + 1 .. Len(b) - 1 /\ Byte(b, q - 1) = 0 THEN q - 1 ELSE q
    IN  {[start |-> s, end |-> ends(s)] : s \in starts}

UnitsAreFound(b, base) ==
    /\ \A p \in 0 .. Len(b) : find_startcode_internal(b, base, p, Len(b)) = NaiveStart(b, p)
    /\ {Nals(b, base)[k] : k \in 1..Len(Nals(b, base))} = NaiveNals(b)
    /\ \A j, k \in 1..Len(Nals(b, base)) :
          j < k => Nals(b, base)[j].end <= Nals(b, base)[k].start

(* A decoder reads from the record the parameter sets of the stream.       *)
HoldsBoth(r, n, sets) ==
    /\ SubSeq(r, 9, 8 + n) \in sets /\ r[9] % 32 = 7
    /\ SubSeq(r, 12 + n, Len(r)) \in sets /\ r[12 + n] % 32 = 8
    /\ Len(r) = 11 + n + r[10 + n] * 256 + r[11 + n]

RecordReads(b, base) ==
    \A r \in {mgw_parse_avc_header(b, base)} \ {<<>>} :
        HoldsBoth(r, r[7] * 256 + r[8], {Slice(b, nal.start, nal.end) : nal \in NaiveNals(b)})

(* Reading AudioSpecificConfig gives rate and channels, and the ADTS head  *)
(* the same and the size of the frame.                                     *)
AudioHeadersRead(channels, rate, data) ==
    LET asc  == mgw_get_aac_lc_header(channels, rate)
        idx  == (asc[1] % 8) * 2 + asc[2] \div 128
        last == asc[Len(asc)]
        adts == mgw_aac_add_adts(rate, 2, channels % 8, data)
    IN  /\ asc[1] \div 8 = 2
        /\ (last % 128) \div 8 = channels % 16
        /\ IF idx = 15
           THEN rate = (asc[2] % 128) * 131072 + asc[3] * 512 + asc[4] * 2 + last \div 128
           ELSE rate = Rated[idx + 1]
        /\ (adts[4] % 4) * 2048 + adts[5] * 8 + adts[6] \div 32 = Len(adts)
        /\ (adts[3] % 2) * 4 + adts[4] \div 64 = channels % 8
        /\ (adts[3] \div 4) % 16 = get_samplerate_index(rate)
============================================================================
