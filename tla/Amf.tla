------------------------------- MODULE Amf -------------------------------
(* The AMF encoding of librtmp (amf.c): values are written into a buffer   *)
(* with an end and read back from the bytes of a packet.  A buffer is the  *)
(* sequence of the bytes written so far, its end a length; an encoder      *)
(* returns the longer sequence or NULL.  A decoder returns the number of   *)
(* bytes consumed, -1 for an error, and what it read.                      *)
EXTENDS Integers, Sequences, SequencesExt

CONSTANT LongFrom     \* length from which a string is a long string (65536)

NULL == <<-1>>

AMF_NUMBER == 0
AMF_BOOLEAN == 1
AMF_STRING == 2
AMF_OBJECT == 3
AMF_NULL == 5
AMF_ECMA_ARRAY == 8
AMF_OBJECT_END == 9
AMF_STRICT_ARRAY == 10
AMF_LONG_STRING == 12
AMF_INVALID == 255

Containers == {AMF_OBJECT, AMF_ECMA_ARRAY, AMF_STRICT_ARRAY}

(* A property; a number is its 8 bytes in memory, lowest first, a boolean  *)
(* one byte.                                                               *)
Prop(name, type, val) == [name |-> name, type |-> type, val |-> val, props |-> <<>>]
Obj(name, type, props) == [name |-> name, type |-> type, val |-> <<>>, props |-> props]
AMFProp_Invalid == Prop(<<>>, AMF_INVALID, <<>>)
-----------------------------------------------------------------------------
(* Encoding                                                                *)

AMF_EncodeInt16(out, end, n) ==
    IF Len(out) + 2 > end THEN NULL ELSE out \o <<(n \div 256) % 256, n % 256>>

AMF_EncodeInt24(out, end, n) ==
    IF Len(out) + 3 > end THEN NULL
    ELSE out \o <<(n \div 65536) % 256, (n \div 256) % 256, n % 256>>

AMF_EncodeInt32(out, end, n) ==
    IF Len(out) + 4 > end THEN NULL
    ELSE out \o <<(n \div 16777216) % 256, (n \div 65536) % 256, (n \div 256) % 256, n % 256>>

(* Five bytes of head are asked for whatever the string.                   *)
AMF_EncodeString(out, end, s) ==
    IF Len(out) + 5 + Len(s) > end THEN NULL
    ELSE IF Len(s) < LongFrom
         THEN AMF_EncodeInt16(Append(out, AMF_STRING), end, Len(s)) \o s
         ELSE AMF_EncodeInt32(Append(out, AMF_LONG_STRING), end, Len(s)) \o s

AMF_EncodeNumber(out, end, d) ==
    IF Len(out) + 9 > end THEN NULL ELSE Append(out, AMF_NUMBER) \o Reverse(d)

AMF_EncodeBoolean(out, end, b) ==
    IF Len(out) + 2 > end THEN NULL ELSE out \o <<AMF_BOOLEAN>> \o b

(* The name of a property, and the room AMFProp_Encode asks for.           *)
WithName(p, out) ==
    IF p.type # AMF_NULL /\ p.name # <<>>
    THEN out \o <<Len(p.name) \div 256, Len(p.name) % 256>> \o p.name
    ELSE out

RECURSIVE AMFProp_Encode(_, _, _), AMF_EncodeProps(_, _, _, _)

(* The plausible slip: a property that does not fit is passed over.        *)
AMF_EncodeProps_Skips(props, i, out, end) ==
    IF i > Len(props) THEN out
    ELSE LET res == AMFProp_Encode(props[i], out, end)
         IN  AMF_EncodeProps(props, i + 1, IF res = NULL THEN out ELSE res, end)

(* The properties from the i-th on, until one does not fit: the rest is    *)
(* left out and the caller goes on.                                        *)
AMF_EncodeProps(props, i, out, end) ==
    IF i > Len(props) THEN out
    ELSE LET res == AMFProp_Encode(props[i], out, end)
         IN  IF res = NULL THEN out ELSE AMF_EncodeProps(props, i + 1, res, end)

EndMark(out, end) ==
    IF Len(out) + 3 >= end THEN NULL ELSE AMF_EncodeInt24(out, end, AMF_OBJECT_END)

AMF_Encode(props, out, end) ==
    IF Len(out) + 4 >= end THEN NULL
    ELSE EndMark(AMF_EncodeProps(props, 1, Append(out, AMF_OBJECT), end), end)

(* The plausible slip: the count of an ECMA array is left out.             *)
AMF_EncodeEcmaArray_NoCount(props, out, end) ==
    IF Len(out) + 4 >= end THEN NULL
    ELSE EndMark(AMF_EncodeProps(props, 1, Append(out, AMF_ECMA_ARRAY), end), end)

AMF_EncodeEcmaArray(props, out, end) ==
    IF Len(out) + 4 >= end THEN NULL
    ELSE EndMark(AMF_EncodeProps(props, 1,
                     AMF_EncodeInt32(Append(out, AMF_ECMA_ARRAY), end, Len(props)), end), end)

AMF_EncodeArray(props, out, end) ==
    IF Len(out) + 4 >= end THEN NULL
    ELSE AMF_EncodeProps(props, 1,
             AMF_EncodeInt32(Append(out, AMF_STRICT_ARRAY), end, Len(props)), end)

AMFProp_Encode(p, out, end) ==
    IF p.type = AMF_INVALID \/ (p.type # AMF_NULL /\ Len(out) + Len(p.name) + 3 >= end)
    THEN NULL
    ELSE LET o == WithName(p, out)
         IN  CASE p.type = AMF_NUMBER       -> AMF_EncodeNumber(o, end, p.val)
               [] p.type = AMF_BOOLEAN      -> AMF_EncodeBoolean(o, end, p.val)
               [] p.type = AMF_STRING       -> AMF_EncodeString(o, end, p.val)
               [] p.type = AMF_NULL         -> IF Len(o) + 1 >= end THEN NULL ELSE Append(o, AMF_NULL)
               [] p.type = AMF_OBJECT       -> AMF_Encode(p.props, o, end)
               [] p.type = AMF_ECMA_ARRAY   -> AMF_EncodeEcmaArray(p.props, o, end)
               [] p.type = AMF_STRICT_ARRAY -> AMF_EncodeArray(p.props, o, end)
               [] OTHER                     -> NULL

(* What SendConnectPacket and the other invokes write: a name, then a value. *)
Named(out, end, name) ==
    IF Len(out) + 2 + Len(name) > end THEN NULL ELSE AMF_EncodeInt16(out, end, Len(name)) \o name

AMF_EncodeNamedString(out, end, name, s) ==
    LET o == Named(out, end, name) IN IF o = NULL THEN NULL ELSE AMF_EncodeString(o, end, s)

AMF_EncodeNamedNumber(out, end, name, d) ==
    LET o == Named(out, end, name) IN IF o = NULL THEN NULL ELSE AMF_EncodeNumber(o, end, d)

AMF_EncodeNamedBoolean(out, end, name, b) ==
    LET o == Named(out, end, name) IN IF o = NULL THEN NULL ELSE AMF_EncodeBoolean(o, end, b)
-----------------------------------------------------------------------------
(* Decoding; b is what is left of the buffer                               *)

From(b, n) == SubSeq(b, n + 1, Len(b))

AMF_DecodeInt16(b) == b[1] * 256 + b[2]
AMF_DecodeInt24(b) == b[1] * 65536 + b[2] * 256 + b[3]
AMF_DecodeInt32(b) == b[1] * 16777216 + b[2] * 65536 + b[3] * 256 + b[4]
AMF_DecodeString(b) == SubSeq(b, 3, 2 + AMF_DecodeInt16(b))
AMF_DecodeLongString(b) == SubSeq(b, 5, 4 + AMF_DecodeInt32(b))
AMF_DecodeNumber(b) == Reverse(SubSeq(b, 1, 8))
AMF_DecodeBoolean(b) == IF b[1] # 0 THEN <<1>> ELSE <<0>>

Fails == [n |-> -1, prop |-> AMFProp_Invalid]
Read(n, prop) == [n |-> n, prop |-> prop]

RECURSIVE AMFProp_Decode(_, _), AMF_Decode(_, _, _), AMF_DecodeArray(_, _, _)

(* The value after the name: its type byte is b[1]; k bytes came before.   *)
Value(b, k, name) ==
    LET d == Tail(b)
        in(n, type, val) == Read(k + 1 + n, Prop(name, type, val))
        of(n, type, props) == Read(k + 1 + n, Obj(name, type, props))
    IN  CASE b[1] = AMF_NUMBER -> IF Len(d) < 8 THEN Fails ELSE in(8, AMF_NUMBER, AMF_DecodeNumber(d))
          [] b[1] = AMF_BOOLEAN -> IF Len(d) < 1 THEN Fails ELSE in(1, AMF_BOOLEAN, AMF_DecodeBoolean(d))
          [] b[1] = AMF_STRING ->
               IF Len(d) < AMF_DecodeInt16(d) + 2 THEN Fails
               ELSE in(2 + AMF_DecodeInt16(d), AMF_STRING, AMF_DecodeString(d))
          [] b[1] = AMF_LONG_STRING ->
               IF Len(d) < AMF_DecodeInt32(d) + 4 THEN Fails
               ELSE in(4 + AMF_DecodeInt32(d), AMF_STRING, AMF_DecodeLongString(d))
          [] b[1] = AMF_OBJECT ->
               LET r == AMF_Decode(d, <<>>, 0)
               IN  IF r.n = -1 THEN Fails ELSE of(r.n, AMF_OBJECT, r.props)
          [] b[1] = AMF_ECMA_ARRAY ->
               LET r == AMF_Decode(From(d, 4), <<>>, 0)
               IN  IF r.n = -1 THEN Fails ELSE of(4 + r.n, AMF_ECMA_ARRAY, r.props)
          [] b[1] = AMF_STRICT_ARRAY ->
               LET r == AMF_DecodeArray(From(d, 4), <<>>, AMF_DecodeInt32(d))
               IN  IF r.n = -1 THEN Fails ELSE of(4 + r.n, AMF_STRICT_ARRAY, r.props)
          [] b[1] = AMF_NULL -> in(0, AMF_NULL, <<>>)
          [] OTHER -> Fails

AMFProp_Decode(b, bDecodeName) ==
    IF b = <<>> \/ (bDecodeName /\ Len(b) < 4) THEN Fails
    ELSE IF ~bDecodeName THEN Value(b, 0, <<>>)
    ELSE LET k == 2 + AMF_DecodeInt16(b)
         IN  IF k >= Len(b) THEN Fails ELSE Value(From(b, k), k, AMF_DecodeString(b))

(* The properties up to the end mark, or all there are.                    *)
AMF_Decode(b, props, n) ==
    IF b = <<>> THEN [n |-> n, props |-> props]
    ELSE IF Len(b) >= 3 /\ AMF_DecodeInt24(b) = AMF_OBJECT_END
    THEN [n |-> n + 3, props |-> props]
    ELSE LET r == AMFProp_Decode(b, TRUE)
         IN  IF r.n = -1 \/ r.n > Len(b) THEN [n |-> -1, props |-> props]
             ELSE AMF_Decode(From(b, r.n), Append(props, r.prop), n + r.n)

AMF_DecodeArray(b, props, left) ==
    IF left = 0 THEN [n |-> 0, props |-> props]
    ELSE LET r == AMFProp_Decode(b, FALSE)
         IN  IF r.n = -1 THEN [n |-> -1, props |-> props]
             ELSE LET rest == AMF_DecodeArray(From(b, r.n), Append(props, r.prop), left - 1)
                  IN  IF rest.n = -1 THEN rest ELSE [rest EXCEPT !.n = @ + r.n]

(* By name when there is no index: the first that matches.                 *)
AMF_GetProp(props, name, i) ==
    IF i >= 0 THEN IF i < Len(props) THEN props[i + 1] ELSE AMFProp_Invalid
    ELSE LET I == {k \in 1..Len(props) : props[k].name = name}
         IN  IF I = {} THEN AMFProp_Invalid ELSE props[CHOOSE k \in I : \A j \in I : k <= j]
-----------------------------------------------------------------------------
(* Reference                                                               *)

(* The bytes a property takes, the slack of the checks included.           *)
RECURSIVE Need(_)
Need(p) ==
    LET inner == FoldLeft(LAMBDA a, q : a + Need(q), 0, p.props)
    IN  2 + Len(p.name) + CASE p.type = AMF_NUMBER -> 9
                            [] p.type = AMF_BOOLEAN -> 3
                            [] p.type = AMF_STRING -> 6 + Len(p.val)
                            [] p.type \in Containers -> 10 + inner

RECURSIVE Plain(_), CutOf(_, _)
(* No strict array anywhere: only those carry a count that a reader trusts. *)
Plain(p) == /\ p.type # AMF_STRICT_ARRAY
            /\ p.type \in Containers => \A i \in 1..Len(p.props) : Plain(p.props[i])

(* What is left of a list of properties when some did not fit: a prefix,   *)
(* of which containers may be cut themselves.                              *)
CutOf(cut, props) ==
    /\ Len(cut) <= Len(props)
    /\ \A i \in 1..Len(cut) :
          /\ cut[i].name = props[i].name /\ cut[i].type = props[i].type
          /\ IF cut[i].type \in Containers THEN CutOf(cut[i].props, props[i].props)
             ELSE cut[i].val = props[i].val

(* An encoder given room for all of it loses nothing: the decoder takes    *)
(* every byte, returns the same properties, and AMF_GetProp finds them.    *)
AmfComesBack(p, end) ==
    end >= Need(p) =>
      LET out == AMFProp_Encode(p, <<>>, end)
          r   == AMFProp_Decode(out, p.name # <<>>)
      IN  /\ out # NULL
          /\ r.n = Len(out) /\ r.prop = p
          /\ p.type \in Containers \ {AMF_STRICT_ARRAY} =>
                \A i \in 1..Len(p.props) :
                   AMF_GetProp(r.prop.props, p.props[i].name, -1).name = p.props[i].name

(* An encoder that runs out of room either says so or leaves out the last  *)
(* properties: what it wrote stays within the buffer, is a value, and the  *)
(* decoder reads exactly the properties that went in, in their order.      *)
AmfCutIsWhole(p, end) ==
    LET out == AMFProp_Encode(p, <<>>, end)
        r   == AMFProp_Decode(out, p.name # <<>>)
    IN  out # NULL /\ Plain(p) =>
          /\ Len(out) <= end
          /\ r.n = Len(out)
          /\ CutOf(<<r.prop>>, <<p>>)
=============================================================================
