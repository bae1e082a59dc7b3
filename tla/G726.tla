------------------------------- MODULE G726 -------------------------------
(* The G.726 coder of g726.c: an ADPCM encoder and a decoder that each     *)
(* adapt a predictor and a step size from the codes alone, and the packing *)
(* of codes of 2 to 5 bits into bytes.  A right shift of a negative number *)
(* is arithmetic; a store into a short keeps 16 bits.                      *)
EXTENDS Integers, Sequences, SequencesExt, FiniteSetsExt

CONSTANTS Rates,        \* the bits per sample that are tried
          Signals,      \* periodic signals: sequences of samples
          MaxSamples,   \* bound: samples encoded
          MaxAhead      \* bound: bytes between encoder and decoder

VARIABLES enc,          \* g726_state_t of the encoder
          dec,          \* g726_state_t of the decoder
          sent,         \* bytes between them
          signal,       \* the signal that is encoded
          taken,        \* samples of it encoded so far
          past          \* states of the encoder's predictor since the one the
                        \* decoder should be in (a ghost)

vars == <<enc, dec, sent, signal, taken, past>>

S16(x) == ((x + 32768) % 65536) - 32768
Shr(x, n) == x \div 2^n
Low(x, n) == x % 2^n
Clip(x, lo, hi) == IF x < lo THEN lo ELSE IF x > hi THEN hi ELSE x
Mag(x) == IF x < 0 THEN -x ELSE x

top_bit(x) == IF x = 0 THEN -1 ELSE CHOOSE n \in 0..16 : 2^n <= x /\ x < 2^(n + 1)

(* Tables are kept for the non-negative codes; the other half mirrors them. *)
Mirror(t) == t \o Reverse(t)

qtab == [b \in 2..5 |->
           CASE b = 2 -> <<261>>
             [] b = 3 -> <<8, 218, 331>>
             [] b = 4 -> <<-124, 80, 178, 246, 300, 349, 400>>
             [] b = 5 -> <<-122, -16, 68, 139, 198, 250, 298, 339,
                           378, 413, 445, 475, 502, 528, 553>>]
dqlntab == [b \in 2..5 |->
           Mirror(CASE b = 2 -> <<116, 365>>
                    [] b = 3 -> <<-2048, 135, 273, 373>>
                    [] b = 4 -> <<-2048, 4, 135, 213, 273, 323, 373, 425>>
                    [] b = 5 -> <<-2048, -66, 28, 104, 169, 224, 274, 318,
                                  358, 395, 429, 459, 488, 514, 539, 566>>)]
witab == [b \in 2..5 |->
           Mirror(CASE b = 2 -> <<-704, 14048>>
                    [] b = 3 -> <<-128, 960, 4384, 18624>>
                    [] b = 4 -> <<-384, 576, 1312, 2048, 3584, 6336, 11360, 35904>>
                    [] b = 5 -> <<448, 448, 768, 1248, 1280, 1312, 1856, 3200,
                                  4512, 5728, 7008, 8960, 11456, 14080, 16928, 22272>>)]
fitab == [b \in 2..5 |->
           Mirror(CASE b = 2 -> <<0, 3584>>
                    [] b = 3 -> <<0, 512, 1024, 3584>>
                    [] b = 4 -> <<0, 0, 0, 512, 512, 512, 1536, 3584>>
                    [] b = 5 -> <<0, 0, 0, 0, 0, 512, 512, 512,
                                  512, 512, 1024, 1536, 2048, 2560, 3072, 3072>>)]

bitstream_init == [bits |-> 0, residue |-> 0]

g726_init(bits) ==
    [bps |-> bits, yl |-> 34816, yu |-> 544, dms |-> 0, dml |-> 0, ap |-> 0,
     a |-> <<0, 0>>, b |-> <<0, 0, 0, 0, 0, 0>>, pk |-> <<0, 0>>,
     dq |-> <<32, 32, 32, 32, 32, 32>>, sr |-> <<32, 32>>, td |-> FALSE,
     bs |-> bitstream_init]
-----------------------------------------------------------------------------
(* The code of a difference: its logarithm less the step, looked up.       *)
quantize(d, y, bits) ==
    LET dqm == S16(Mag(d))
        exp == top_bit(Shr(dqm, 1)) + 1
        dl  == exp * 128 + Low(Shr(dqm * 128, exp), 7)
        dln == S16(dl - Shr(y, 2))
        t   == qtab[bits]
        i   == Min({k \in 1..Len(t) : dln < t[k]} \cup {Len(t) + 1}) - 1
    IN  IF d < 0 THEN 2 * Len(t) + 1 - i
        ELSE IF i = 0 /\ bits > 2 THEN 2 * Len(t) + 1 ELSE i

fmult(an, srn) ==
    LET mag  == IF an > 0 THEN an ELSE Low(-an, 13)
        e    == top_bit(mag) - 5
        m    == IF mag = 0 THEN 32 ELSE IF e >= 0 THEN Shr(mag, e) ELSE mag * 2^(-e)
        we   == e + Low(Shr(srn, 6), 4) - 13
        wm   == Shr(m * Low(srn, 6) + 48, 4)
        v    == IF we >= 0 THEN Low(wm * 2^we, 15) ELSE Shr(wm, -we)
    IN  IF (an < 0) # (srn < 0) THEN -v ELSE v

predictor_zero(s) ==
    LET f(i) == fmult(Shr(s.b[i], 2), s.dq[i])
    IN  S16(f(1) + f(2) + f(3) + f(4) + f(5) + f(6))

predictor_pole(s) == S16(fmult(Shr(s.a[2], 2), s.sr[2]) + fmult(Shr(s.a[1], 2), s.sr[1]))

step_size(s) ==
    LET y   == Shr(s.yl, 6)
        dif == s.yu - y
        al  == Shr(s.ap, 2)
    IN  IF s.ap >= 256 THEN s.yu
        ELSE IF dif > 0 THEN y + Shr(dif * al, 6)
        ELSE IF dif < 0 THEN y + Shr(dif * al + 63, 6)
        ELSE y

reconstruct(sign, dqln, y) ==
    LET dql == S16(dqln + Shr(y, 2))
        dq  == S16(Shr((128 + Low(dql, 7)) * 128, 14 - Low(Shr(dql, 7), 4)))
    IN  IF dql < 0 THEN IF sign THEN -32768 ELSE 0
        ELSE IF sign THEN dq - 32768 ELSE dq
-----------------------------------------------------------------------------
(* update: the parts of the recommendation, in its order                   *)

(* TRANS: has the signal turned into a modem's?                            *)
Trans(s, mag) ==
    LET yint == Shr(s.yl, 15)
        thr  == IF yint > 9 THEN 31744 ELSE (32 + Low(Shr(s.yl, 10), 5)) * 2^yint
    IN  s.td /\ mag > Shr(thr + Shr(thr, 1), 1)

(* FUNCTW, LIMB: the fast step size.                                       *)
NewYu(y, wi) == Clip(S16(y + Shr(wi - y, 5)), 544, 5120)

(* The plausible slip: LIMC only above.                                    *)
NewA2_OneLimit(s, pk0, dqsez) ==
    LET a   == s.a[2] - Shr(s.a[2], 7)
        fa1 == IF pk0 # s.pk[1] THEN s.a[1] ELSE -s.a[1]
        b   == a + (IF fa1 < -8191 THEN -256 ELSE IF fa1 > 8191 THEN 255 ELSE Shr(fa1, 5))
    IN  IF dqsez = 0 THEN a
        ELSE IF pk0 # s.pk[2] THEN IF b >= 12416 THEN 12288 ELSE b - 128
        ELSE IF b >= 12160 THEN 12288 ELSE b + 128

(* UPA2, LIMC: the second pole.                                            *)
NewA2(s, pk0, dqsez) ==
    LET a   == s.a[2] - Shr(s.a[2], 7)
        fa1 == IF pk0 # s.pk[1] THEN s.a[1] ELSE -s.a[1]
        b   == a + (IF fa1 < -8191 THEN -256 ELSE IF fa1 > 8191 THEN 255 ELSE Shr(fa1, 5))
    IN  IF dqsez = 0 THEN a
        ELSE IF pk0 # s.pk[2]
        THEN IF b <= -12160 THEN -12288 ELSE IF b >= 12416 THEN 12288 ELSE b - 128
        ELSE IF b <= -12416 THEN -12288 ELSE IF b >= 12160 THEN 12288 ELSE b + 128

(* UPA1, LIMD: the first pole, limited by the second.                      *)
NewA1(s, pk0, dqsez, a2) ==
    LET a  == s.a[1] - Shr(s.a[1], 8)
        b  == IF dqsez = 0 THEN a ELSE IF pk0 = s.pk[1] THEN a + 192 ELSE a - 192
    IN  Clip(b, a2 - 15360, 15360 - a2)

(* UPB: the zeros.                                                         *)
NewB(s, dq) ==
    [i \in 1..6 |->
        LET b == s.b[i] - Shr(s.b[i], IF s.bps = 5 THEN 9 ELSE 8)
        IN  IF Low(dq, 15) = 0 THEN b
            ELSE S16(IF (dq < 0) = (s.dq[i] < 0) THEN b + 128 ELSE b - 128)]

(* FLOAT A and B: 4 bits of exponent, 6 of mantissa; a short keeps it.     *)
Float(mag, neg) ==
    LET e == top_bit(mag) + 1
    IN  IF mag = 0 THEN IF neg THEN -992 ELSE 32
        ELSE e * 64 + Shr(mag * 64, e) - (IF neg THEN 1024 ELSE 0)

(* FILTA, FILTB and the speed of adaptation.                               *)
NewAp(s, tr, y, td, dms, dml) ==
    IF tr THEN 256
    ELSE IF y < 1536 \/ td \/ Mag(dms * 4 - dml) >= Shr(dml, 3)
    THEN s.ap + Shr(512 - s.ap, 4)
    ELSE s.ap + Shr(-s.ap, 4)

update(s, y, wi, fi, dq, sr, dqsez) ==
    LET pk0 == IF dqsez < 0 THEN 1 ELSE 0
        tr  == Trans(s, Low(dq, 15))
        yu  == NewYu(y, wi)
        a2  == IF tr THEN 0 ELSE NewA2(s, pk0, dqsez)
        td  == ~tr /\ a2 < -11776
        dms == s.dms + Shr(fi - s.dms, 5)
        dml == s.dml + Shr(fi * 4 - s.dml, 7)
    IN  [s EXCEPT !.yu = yu, !.yl = @ + yu + Shr(-@, 6),
                  !.a = <<IF tr THEN 0 ELSE NewA1(s, pk0, dqsez, a2), a2>>,
                  !.b = IF tr THEN <<0, 0, 0, 0, 0, 0>> ELSE NewB(s, dq),
                  !.dq = <<Float(Low(dq, 15), dq < 0)>> \o SubSeq(@, 1, 5),
                  !.sr = <<IF sr = -32768 THEN -992 ELSE Float(Mag(sr), sr < 0), @[1]>>,
                  !.pk = <<pk0, @[1]>>,
                  !.td = td, !.dms = dms, !.dml = dml, !.ap = NewAp(s, tr, y, td, dms, dml)]

(* What encoder and decoder both do with a code: rebuild the signal, adapt. *)
Signal(s, se, dq) ==
    S16(IF dq < 0 THEN se - Low(dq, IF s.bps = 5 THEN 15 ELSE 14) ELSE se + dq)

Adapted(s, code, sezi, se, y) ==
    LET dq == reconstruct(code >= 2^(s.bps - 1), dqlntab[s.bps][code + 1], y)
        sr == Signal(s, se, dq)
    IN  [s |-> update(s, y, witab[s.bps][code + 1], fitab[s.bps][code + 1], dq, sr,
                      S16(sr + Shr(sezi, 1) - se)),
         sr |-> sr]

Estimate(s, sezi) == Shr(S16(sezi + predictor_pole(s)), 1)

(* The codes are cut to their bits by the mask of the decoder.             *)
g726_decoder(s, code) ==
    LET sezi == predictor_zero(s)
        r    == Adapted(s, Low(code, s.bps), sezi, Estimate(s, sezi), step_size(s))
    IN  [s |-> r.s, amp |-> S16(r.sr * 4)]

g726_encoder(s, amp) ==
    LET sezi == predictor_zero(s)
        se   == Estimate(s, sezi)
        code == quantize(S16(amp - se), step_size(s), s.bps)
    IN  [s |-> Adapted(s, code, sezi, se, step_size(s)).s, code |-> code]
-----------------------------------------------------------------------------
(* The bits                                                                *)

(* The plausible slip: the byte is made of the last bits, not the first.   *)
PutBits_Last(bs, code, bps) ==
    LET all == bs.bits * 2^bps + code
        res == bs.residue + bps
    IN  IF res >= 8 THEN [byte |-> <<all % 256>>,
                          bs |-> [bits |-> Low(all, res - 8), residue |-> res - 8]]
        ELSE [byte |-> <<>>, bs |-> [bits |-> all, residue |-> res]]

(* What is left after the whole bytes have gone; the stream itself keeps   *)
(* 32 bits, of which only the last `residue' are looked at.                *)
PutBits(bs, code, bps) ==
    LET all == bs.bits * 2^bps + code
        res == bs.residue + bps
    IN  IF res >= 8 THEN [byte |-> <<Shr(all, res - 8) % 256>>,
                          bs |-> [bits |-> Low(all, res - 8), residue |-> res - 8]]
        ELSE [byte |-> <<>>, bs |-> [bits |-> all, residue |-> res]]

NeedsByte(s) == s.bs.residue < s.bps

Predictor(s) == [s EXCEPT !.bs = bitstream_init]

(* One turn of the loop of g726_encode.                                    *)
g726_encode ==
    /\ taken < MaxSamples /\ Len(sent) < MaxAhead
    /\ \E r \in {g726_encoder(enc, Shr(signal[1 + (taken % Len(signal))], 2))} :
       \E p \in {PutBits(enc.bs, r.code, enc.bps)} :
          /\ enc' = [r.s EXCEPT !.bs = p.bs]
          /\ sent' = sent \o p.byte
          /\ past' = Append(past, Predictor(r.s))
    /\ taken' = taken + 1
    /\ UNCHANGED <<dec, signal>>

(* One turn of the loop of g726_decode; it ends when a byte is needed and  *)
(* none is left, and goes on with the next call.                           *)
g726_decode ==
    /\ NeedsByte(dec) => sent # <<>>
    /\ LET bits == IF NeedsByte(dec) THEN dec.bs.bits * 256 + Head(sent) ELSE dec.bs.bits
           res  == (IF NeedsByte(dec) THEN dec.bs.residue + 8 ELSE dec.bs.residue) - dec.bps
       IN  \E r \in {g726_decoder(dec, Shr(bits, res))} :
              dec' = [r.s EXCEPT !.bs = [bits |-> Low(bits, res), residue |-> res]]
    /\ sent' = IF NeedsByte(dec) THEN Tail(sent) ELSE sent
    /\ past' = Tail(past)
    /\ UNCHANGED <<enc, signal, taken>>

Init ==
    /\ \E b \in Rates : enc = g726_init(b) /\ dec = g726_init(b) /\ past = <<g726_init(b)>>
    /\ sent = <<>>
    /\ signal \in Signals
    /\ taken = 0

Next == g726_encode \/ g726_decode

Spec == Init /\ [][Next]_vars
-----------------------------------------------------------------------------
(* The decoder of g726_decode adapts exactly as the encoder has: after as  *)
(* many samples both predictors are the same, however the codes lie across *)
(* the bytes and the calls.                                                *)
InStep == past # <<>> /\ Predictor(dec) = Head(past)

(* The limits of update hold: LIMB, LIMC and LIMD keep the step size and   *)
(* the poles where the predictor is stable.                                *)
Stable ==
    /\ enc.yu \in 544..5120
    /\ enc.a[2] \in -12288..12288
    /\ Mag(enc.a[1]) <= 15360 - enc.a[2]
    /\ enc.ap \in 0..512
=============================================================================
