----------------------------- MODULE SrtChunks -----------------------------
(***************************************************************************)
(* srt_stream_proc_packet of plugins/outputs/srt-stream.c: the muxer hands *)
(* over pieces of a transport stream of any size, the library is given     *)
(* messages of whole transport packets, and what is left of a packet waits *)
(* for the next piece.  A byte is its place in the stream, modulo Places.  *)
(***************************************************************************)
EXTENDS Integers, Sequences

CONSTANTS
    Ts,             \* MPEGTS_FIX_SIZE
    Payload,        \* what mgw_libsrt_get_payload_size answers
    Pieces,         \* the sizes of the pieces: bounded by the muxer's buffer
    MaxPacket,      \* SRT_MAX_PACKET_SIZE
    ErrorThreshold  \* SRT_ERROR_THRESHOLD

ASSUME ChunksAssumption ==
    /\ {Ts, Payload, MaxPacket} \subseteq Nat \ {0} /\ ErrorThreshold \in Nat
    /\ Payload % Ts = 0 /\ \A p \in Pieces : p \in Nat \ {0} /\ p + Ts <= MaxPacket

VARIABLES
    chunk,  \* the call of srt_stream_proc_packet that is running
    conn,   \* left_data with left_size, send_error_cnt, disconnected, stop_event
    due,    \* ghost: the place of the next byte to leave
    fed     \* ghost: the place of the next byte the muxer hands over

chunkVars == <<chunk, conn, due, fed>>

Places == 4 * Payload
Bytes(from, n) == [k \in 1..n |-> (from + k - 1) % Places]

ChunksInit ==
    /\ chunk = [pc |-> "idle", data |-> <<>>]
    /\ conn = [left |-> <<>>, errors |-> 0, disconnected |-> FALSE, stopping |-> FALSE]
    /\ due = 0 /\ fed = 0
----------------------------------------------------------------------------
LeftFirst_Drops(piece) == piece

(***************************************************************************)
(* The checks at the top of a call; too many errors disconnect.  What was  *)
(* left is put in front of the piece.                                      *)
(***************************************************************************)
LeftFirst(piece) == conn.left \o piece

Refused ==
    /\ chunk.pc = "idle" /\ ~conn.stopping /\ ~conn.disconnected
    /\ conn.errors > ErrorThreshold
    /\ conn' = [conn EXCEPT !.errors = 0, !.disconnected = TRUE]
    /\ UNCHANGED <<chunk, due, fed>>

Taken ==
    /\ chunk.pc = "idle" /\ ~conn.stopping /\ ~conn.disconnected
    /\ conn.errors <= ErrorThreshold
    /\ \E n \in Pieces :
          /\ chunk' = [pc |-> "loop", data |-> LeftFirst(Bytes(fed, n))]
          /\ fed' = (fed + n) % Places
    /\ conn' = [conn EXCEPT !.left = <<>>]
    /\ UNCHANGED due

(***************************************************************************)
(* One mgw_libsrt_write with what the two loops make of its answer: sent,  *)
(* an error that is counted, or one that disconnects.                      *)
(***************************************************************************)
Rest(n) == SubSeq(chunk.data, n + 1, Len(chunk.data))

Written(n, next, left) ==
    /\ due' = (due + n) % Places
    /\ \/ /\ conn' = [conn EXCEPT !.left = left]
          /\ chunk' = next
       \/ /\ conn' = [conn EXCEPT !.errors = @ + 1, !.left = left]
          /\ chunk' = next
       \/ /\ conn' = [conn EXCEPT !.disconnected = TRUE]
          /\ chunk' = [pc |-> "idle", data |-> <<>>]
    /\ UNCHANGED fed

SendFull ==
    /\ chunk.pc = "loop" /\ Len(chunk.data) > Payload
    /\ Written(Payload, [chunk EXCEPT !.data = Rest(Payload)], conn.left)

FullTs_All(n) == n

(***************************************************************************)
(* The tail: the whole transport packets in what is left, and the start of *)
(* another one that is kept.                                               *)
(***************************************************************************)
FullTs(n) == n - (n % Ts)

SendTail ==
    /\ chunk.pc = "loop" /\ Len(chunk.data) <= Payload
    /\ \E n \in {FullTs(Len(chunk.data))} :
          IF n > 0
          THEN Written(n, [pc |-> "idle", data |-> <<>>], Rest(n))
          ELSE /\ conn' = [conn EXCEPT !.left = Rest(0)]
               /\ chunk' = [pc |-> "idle", data |-> <<>>]
               /\ UNCHANGED <<due, fed>>

(* srt_stream_stop, called by another thread in the middle of anything.    *)
StopClears ==
    /\ ~conn.stopping
    /\ conn' = [conn EXCEPT !.stopping = TRUE, !.left = <<>>]
    /\ UNCHANGED <<chunk, due, fed>>

(* init_connect for the next connection, whose muxer starts afresh.        *)
ConnectAgain ==
    /\ chunk.pc = "idle" /\ (conn.disconnected \/ conn.stopping)
    /\ conn' = [left |-> <<>>, errors |-> 0, disconnected |-> FALSE, stopping |-> FALSE]
    /\ due' = 0 /\ fed' = 0
    /\ UNCHANGED chunk

ChunksNext ==
    Refused \/ Taken \/ SendFull \/ SendTail \/ StopClears \/ ConnectAgain
----------------------------------------------------------------------------
(* The library is given whole transport packets only, and never more than  *)
(* its payload, however the muxer cut the stream.                          *)
MessagesAreWhole ==
    chunk.pc = "loop" =>
       LET n == IF Len(chunk.data) > Payload THEN Payload ELSE FullTs(Len(chunk.data))
       IN  n % Ts = 0 /\ n <= Payload /\ due % Ts = 0

(* No byte is skipped, repeated or out of its turn, whichever writes fail; *)
(* what has not left is kept for the next call.                            *)
BytesInTurn ==
    /\ chunk.pc = "loop" /\ chunk.data # <<>> => chunk.data = Bytes(due, Len(chunk.data))
    /\ chunk.pc = "idle" /\ ~conn.disconnected /\ ~conn.stopping
          => conn.left = Bytes(due, (fed - due) % Places)
============================================================================
