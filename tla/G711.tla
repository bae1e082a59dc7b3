------------------------------- MODULE G711 -------------------------------
(* The A-law and u-law codes of g711.c.  A code is a byte: a sign bit, a   *)
(* segment of 3 bits and 4 bits of quantisation, some of them inverted on  *)
(* the wire.                                                               *)
EXTENDS Integers, Sequences, Bitwise

seg_end == <<255, 511, 1023, 2047, 4095, 8191, 16383, 32767>>
BIAS == 132

_u2a == <<1, 1, 2, 2, 3, 3, 4, 4, 5, 5, 6, 6, 7, 7, 8, 8,
          9, 10, 11, 12, 13, 14, 15, 16, 17, 18, 19, 20, 21, 22, 23, 24,
          25, 27, 29, 31, 33, 34, 35, 36, 37, 38, 39, 40, 41, 42, 43, 44,
          46, 48, 49, 50, 51, 52, 53, 54, 55, 56, 57, 58, 59, 60, 61, 62>>
        \o [i \in 1..16 |-> 63 + i] \o [i \in 1..48 |-> 80 + i]

_a2u == <<1, 3, 5, 7, 9, 11, 13, 15>> \o [i \in 1..16 |-> 15 + i]
        \o <<32, 32, 33, 33, 34, 34, 35, 35>> \o [i \in 1..12 |-> 35 + i]
        \o <<48, 48, 49, 49>> \o [i \in 1..14 |-> 49 + i] \o <<64, 64>>
        \o [i \in 1..14 |-> 64 + i] \o <<79, 79>> \o [i \in 1..48 |-> 79 + i]

(* The segment: the first whose end is not below the value, 8 if none.     *)
search(val) ==
    LET S == {i \in 1..8 : val <= seg_end[i]}
    IN  IF S = {} THEN 8 ELSE (CHOOSE i \in S : \A j \in S : i <= j) - 1

Bits4(val, shift) == (val \div 2^shift) % 16

linear2alaw(pcm) ==
    LET mask == IF pcm >= 0 THEN 213 ELSE 85
        val  == IF pcm >= 0 THEN pcm ELSE -pcm - 8
        seg  == search(val)
    IN  IF seg >= 8 THEN 127 ^^ mask
        ELSE (seg * 16 + Bits4(val, IF seg < 2 THEN 4 ELSE seg + 3)) ^^ mask

(* The plausible slip: segment 1 without its leading bit.                  *)
alaw2linear_NoStep(code) ==
    LET a   == code ^^ 85
        t   == (a % 16) * 16 + 8
        seg == (a \div 16) % 8
        val == IF seg < 2 THEN t ELSE (t + 256) * 2^(seg - 1)
    IN  IF a >= 128 THEN val ELSE -val

alaw2linear(code) ==
    LET a   == code ^^ 85
        t   == (a % 16) * 16
        seg == (a \div 16) % 8
        val == CASE seg = 0 -> t + 8
                 [] seg = 1 -> t + 264
                 [] OTHER   -> (t + 264) * 2^(seg - 1)
    IN  IF a >= 128 THEN val ELSE -val

linear2ulaw(pcm) ==
    LET mask == IF pcm < 0 THEN 127 ELSE 255
        val  == IF pcm < 0 THEN BIAS - pcm ELSE pcm + BIAS
        seg  == search(val)
    IN  IF seg >= 8 THEN 127 ^^ mask ELSE (seg * 16 + Bits4(val, seg + 3)) ^^ mask

ulaw2linear(code) ==
    LET u == 255 - code
        t == ((u % 16) * 8 + BIAS) * 2^((u \div 16) % 8)
    IN  IF u >= 128 THEN BIAS - t ELSE t - BIAS


alaw2ulaw(a) ==
    IF a >= 128 THEN 255 ^^ _a2u[(a ^^ 213) + 1] ELSE 127 ^^ _a2u[(a ^^ 85) + 1]

ulaw2alaw(u) ==
    IF u >= 128 THEN 213 ^^ (_u2a[(255 ^^ u) + 1] - 1) ELSE 85 ^^ (_u2a[(127 ^^ u) + 1] - 1)

(* Two bytes a sample; the buffer must have room for all.                  *)
g711_decode(room, in, law) ==
    IF in = <<>> THEN [ret |-> -1, out |-> <<>>]
    ELSE IF room < 2 * Len(in) THEN [ret |-> -2, out |-> <<>>]
    ELSE [ret |-> 2 * Len(in),
          out |-> [i \in 1..Len(in) |-> IF law = "alaw" THEN alaw2linear(in[i]) ELSE ulaw2linear(in[i])]]
-----------------------------------------------------------------------------
Abs(x) == IF x < 0 THEN -x ELSE x

(* Half a step of the segment a value lies in.                             *)
HalfStep(val) == LET seg == search(Abs(val)) IN IF seg < 2 THEN 8 ELSE 2^(seg + 2)

(* Decoding a code and encoding it again gives the code back; the two      *)
(* zeros of u-law become one.                                              *)
CodeSurvives(c) ==
    /\ linear2alaw(alaw2linear(c)) = c
    /\ linear2ulaw(ulaw2linear(c)) = IF c = 127 THEN 255 ELSE c

(* Going from one law to the other keeps the order of the samples and      *)
(* moves none by more than a step and a half.                              *)
Transcodes(c, d) ==
    LET a(x) == alaw2linear(ulaw2alaw(x))
        u(x) == ulaw2linear(alaw2ulaw(x))
    IN  /\ Abs(a(c) - ulaw2linear(c)) <= 3 * HalfStep(ulaw2linear(c))
        /\ Abs(u(c) - alaw2linear(c)) <= 3 * HalfStep(alaw2linear(c))
        /\ ulaw2linear(c) < ulaw2linear(d) => a(c) <= a(d)
        /\ alaw2linear(c) < alaw2linear(d) => u(c) <= u(d)
=============================================================================
