------------------------------- MODULE MpegTs -------------------------------
(***************************************************************************)
(* The transport stream muxer (plugins/formats/mpeg-ts.c) as the srt       *)
(* output drives it: made and started for a connection, given its packets, *)
(* stopped and destroyed with it.  The muxer of ffmpeg behind it is        *)
(* external: it is given time stamps, and refuses those that go back.      *)
(***************************************************************************)
EXTENDS Integers

CONSTANTS MaxTime,      \* bound: the largest time of a packet, in ms
          MaxMuxers     \* bound: how many connections there are

ASSUME MpegTsAssumption == MaxTime \in Nat /\ MaxMuxers \in Nat

VARIABLES
    ts,     \* struct mpegts_format, or the absence of one
    clock,  \* the time of the last packet; packets come in order of time
    muxed   \* ghost: the last time stamp given to the muxer of ffmpeg

tsVars == <<ts, clock, muxed>>

None_ == [made |-> FALSE]

TsInit == ts = None_ /\ clock = 0 /\ muxed = [count |-> 0, dts |-> 0]
----------------------------------------------------------------------------
(* mpegts_create; a context that is not allocated is taken down at once.   *)
mpegts_create ==
    /\ ~ts.made /\ muxed.count < MaxMuxers
    /\ ts' = [made |-> TRUE, active |-> FALSE, disconnected |-> FALSE, streams |-> {},
              start_dts_offset |-> 0, last_dts |-> 0]
    /\ muxed' = [count |-> muxed.count + 1, dts |-> 0]
    /\ UNCHANGED clock

(* The srt output starts a muxer once: it destroys the one of a lost       *)
(* connection and makes another.                                           *)
MayStart_Reused == ts.streams = {} \/ ts.disconnected
MayStart == ts.streams = {} /\ ~ts.disconnected

(***************************************************************************)
(* mpegts_start with mpegts_add_video_stream and mpegts_add_audio_stream.  *)
(* A stream or the header may fail.  One that was stopped writes no second *)
(* header.                                                                 *)
(***************************************************************************)
Started(made, header) ==
    [ts EXCEPT !.last_dts = 0, !.start_dts_offset = 0,
               !.disconnected = FALSE, !.streams = made,
               !.active = @ \/ header]

mpegts_start ==
    /\ ts.made /\ MayStart
    /\ \E made \in IF ts.disconnected THEN {ts.streams} ELSE {{}, {"video"}, {"video", "audio"}} :
          \E header \in IF made = {"video", "audio"} THEN BOOLEAN ELSE {FALSE} :
             ts' = Started(made, header)
    /\ UNCHANGED <<clock, muxed>>

mpegts_stop ==
    /\ ts.made /\ ~ts.disconnected
    /\ ts' = [ts EXCEPT !.disconnected = TRUE]
    /\ UNCHANGED <<clock, muxed>>

mpegts_destroy ==
    /\ ts.made /\ ts.disconnected
    /\ ts' = None_
    /\ UNCHANGED <<clock, muxed>>

(***************************************************************************)
(* mpegts_send_packet: the times of a packet begin at the first that is    *)
(* not 0, and one equal to the last is moved by 1.                         *)
(***************************************************************************)
Offset(pts) == IF ts.start_dts_offset = 0 THEN pts ELSE ts.start_dts_offset

Bumped(dts) == IF dts = ts.last_dts /\ ts.last_dts # 0 THEN dts + 1 ELSE dts

LastDts_Bumped(dts) == Bumped(dts)
LastDts(dts) == dts

mpegts_send_packet ==
    /\ ts.made /\ ts.active /\ ~ts.disconnected
    /\ \E pts \in clock .. MaxTime :
          \E dts \in {pts - Offset(pts)} :
             /\ ts' = [ts EXCEPT !.start_dts_offset = Offset(pts), !.last_dts = LastDts(dts)]
             /\ muxed' = [muxed EXCEPT !.dts = Bumped(dts)]
             /\ clock' = pts

TsNext ==
    mpegts_create \/ mpegts_start \/ mpegts_stop \/ mpegts_destroy \/ mpegts_send_packet

TsSpec == TsInit /\ [][TsNext]_tsVars
----------------------------------------------------------------------------
(***************************************************************************)
(* mpegts_send_packet: in the life of one muxer the time stamps it is      *)
(* given never go back, as long as the packets come in order: neither the  *)
(* step that keeps equal times apart nor a lost connection turns one       *)
(* around.                                                                 *)
(***************************************************************************)
StampKept == muxed'.count = muxed.count => muxed'.dts >= muxed.dts

MuxNeverBack == [][StampKept]_tsVars
============================================================================
