------------------------------- MODULE FlvMux -------------------------------
(***************************************************************************)
(* From a frame to an FLV tag (plugins/formats/flv-mux.c, with the bytes   *)
(* that util/serializer.c writes), as the rtmp output uses it: its         *)
(* send_packet and send_key_frame put a length where the start code was    *)
(* and take the ADTS header off.  RTMP_Write reads the tag again.          *)
(***************************************************************************)
EXTENDS CodecCommon, Amf

TYPE_AUDIO == 8
TYPE_VIDEO == 9
TYPE_INFO == 18

(* s_wb24, s_wb32 and s_w8 onto what is written; array_output_serializer.  *)
s_wb24(n) == <<(n \div 65536) % 256, (n \div 256) % 256, n % 256>>
s_wb32(n) == <<(n \div 16777216) % 256>> \o s_wb24(n)

(* flv_video and flv_audio; data is a packet without its codec's framing.  *)
TagTime(time) == s_wb24(time) \o <<(time \div 16777216) % 128>>

Tag(type, time, extra, data) ==
    LET tag == <<type>> \o s_wb24(Len(data) + Len(extra)) \o TagTime(time) \o s_wb24(0)
                  \o extra \o data
    IN  tag \o s_wb32(Len(tag) - 1)

flv_video(time, keyframe, is_header, data) ==
    IF data = <<>> THEN <<>>
    ELSE Tag(TYPE_VIDEO, time, <<IF keyframe THEN 23 ELSE 39, IF is_header THEN 0 ELSE 1>> \o s_wb24(0), data)

flv_audio(time, is_header, data) ==
    IF data = <<>> THEN <<>>
    ELSE Tag(TYPE_AUDIO, time, IF is_header THEN <<>> ELSE <<175, 1>>, data)

(***************************************************************************)
(* rtmp-stream.c: send_key_frame takes the packet from its key frame on,   *)
(* send_packet replaces the start code it begins with.  A packet without   *)
(* one is not sent.  behind is what the frame buffer holds after it.       *)
(***************************************************************************)
send_key_frame(b, behind, time) ==
    LET p == mgw_avc_get_keyframe(b, behind)
    IN  IF p < 0 THEN <<>>
        ELSE flv_video(time, TRUE, FALSE, Be32(Len(b) - p) \o Slice(b, p, Len(b)))

send_packet_video_Short(b, behind, time) ==
    LET n == mgw_avc_get_startcode_len(b, behind, 0)
    IN  IF n < 0 THEN <<>>
        ELSE flv_video(time, FALSE, FALSE, Be32(Len(b) - n) \o Slice(b, 4, Len(b)))

send_packet_video(b, behind, time) ==
    LET n == mgw_avc_get_startcode_len(b, behind, 0)
    IN  IF n < 0 THEN <<>>
        ELSE flv_video(time, FALSE, FALSE, Be32(Len(b) - n) \o Slice(b, n, Len(b)))

(* The head is 7 bytes, or 9 with a checksum when its length is right.     *)
send_packet_audio(b, time) ==
    LET len == (b[4] % 4) * 2048 + b[5] * 8 + b[6] \div 32
        cut == IF b[2] % 2 = 1 THEN 7 ELSE IF len = Len(b) THEN 9 ELSE 0
    IN  flv_audio(time, FALSE, Slice(b, cut, Len(b)))

(* build_flv_meta_data, with a name of one byte for every property, and    *)
(* the tag flv_meta_data puts it in.                                       *)
Number(n) == [k \in 1..8 |-> IF k = 1 THEN n ELSE 0]

MetaProps(channels) ==
    <<Prop(<<1>>, AMF_NUMBER, Number(0)), Prop(<<2>>, AMF_NUMBER, Number(0)),
      Prop(<<3>>, AMF_STRING, <<97, 118>>)>>
    \o [k \in 1..4 |-> Prop(<<3 + k>>, AMF_NUMBER, Number(k))]
    \o <<Prop(<<8>>, AMF_STRING, <<109, 112>>)>>
    \o [k \in 1..3 |-> Prop(<<8 + k>>, AMF_NUMBER, Number(k))]
    \o <<Prop(<<12>>, AMF_NUMBER, Number(channels))>>
    \o (IF channels \in {1, 2} THEN <<Prop(<<13>>, AMF_BOOLEAN, <<channels - 1>>)>> ELSE <<>>)
    \o <<Prop(<<14>>, AMF_STRING, <<117>>)>>

NamedValue(out, p) ==
    CASE p.type = AMF_NUMBER  -> AMF_EncodeNamedNumber(out, 4096, p.name, p.val)
      [] p.type = AMF_STRING  -> AMF_EncodeNamedString(out, 4096, p.name, p.val)
      [] p.type = AMF_BOOLEAN -> AMF_EncodeNamedBoolean(out, 4096, p.name, p.val)

build_flv_meta_data(channels) ==
    FoldLeft(NamedValue,
             AMF_EncodeInt32(Append(AMF_EncodeString(<<>>, 4096, <<111, 110>>), AMF_ECMA_ARRAY), 4096, 14),
             MetaProps(channels)) \o <<0, 0, AMF_OBJECT_END>>

flv_meta_data(channels) == Tag(TYPE_INFO, 0, <<>>, build_flv_meta_data(channels))

(***************************************************************************)
(* RTMP_Write: what it takes from a tag.  A tag of information gets the    *)
(* name of the command in front, 16 bytes in the program.                  *)
(***************************************************************************)
ReadTag(tag) ==
    LET size == AMF_DecodeInt24(SubSeq(tag, 2, 4))
    IN  [type |-> tag[1], time |-> AMF_DecodeInt24(SubSeq(tag, 5, 7)) + tag[8] * 16777216,
         body |-> SubSeq(tag, 12, 11 + size), left |-> Len(tag) - 11 - size]
----------------------------------------------------------------------------
(* A player gets the frame the encoder made.  Of video: a packet that      *)
(* begins with a start code of four bytes arrives from its key frame on,   *)
(* one that is no key frame whole, each with its own length in front.      *)
Carries(t, time, first, unit) ==
    /\ t.type = TYPE_VIDEO /\ t.time = time /\ t.left = 4
    /\ t.body[1] = first
    /\ AMF_DecodeInt32(SubSeq(t.body, 6, 9)) = Len(unit)
    /\ SubSeq(t.body, 10, Len(t.body)) = unit

VideoArrives(b, behind, time) ==
    \A code \in {mgw_avc_get_startcode_len(b, behind, 0)} :
        IF mgw_avc_keyframe(b, 0)
        THEN code = 4 =>
               LET keys == {nal \in NaiveNals(b) : NalType(b, nal) = 5}
               IN  Carries(ReadTag(send_key_frame(b, behind, time)), time, 23,
                           Slice(b, Min({nal.start : nal \in keys}), Len(b)))
        ELSE code \in {3, 4} =>
               Carries(ReadTag(send_packet_video(b, behind, time)), time, 39, Slice(b, code, Len(b)))

(* Of audio: the frame comes out of the ADTS header it was given.          *)
AudioArrives(rate, channels, data, time) ==
    LET tag == send_packet_audio(mgw_aac_add_adts(rate, 2, channels, data), time)
        t   == ReadTag(tag)
    IN  data # <<>> =>
          /\ t.type = TYPE_AUDIO /\ t.time = time /\ t.left = 4
          /\ t.body = <<175, 1>> \o data

(* The metadata is one string and one array, of the properties that were   *)
(* set, and the array declares at least as many as it has.                 *)
MetaArrives(channels) ==
    LET t == ReadTag(flv_meta_data(channels))
        s == AMFProp_Decode(t.body, FALSE)
        a == AMFProp_Decode(From(t.body, s.n), FALSE)
    IN  /\ t.left = 4 /\ s.prop.val = <<111, 110>>
        /\ s.n + a.n = Len(t.body)
        /\ a.prop.props = MetaProps(channels)
        /\ Len(a.prop.props) <= AMF_DecodeInt32(From(t.body, s.n + 1))
============================================================================
