---------------------------- MODULE FfmpegSource ----------------------------
(***************************************************************************)
(* The ffmpeg source (plugins/sources/ffmpeg-source.c) under the mgw       *)
(* source that drives it: one thread that opens the media, reads it and    *)
(* reports its end.                                                        *)
(***************************************************************************)
EXTENDS MgwSource

CONSTANTS
    MaxFaults,      \* bound: how often opening or reading the media fails for good
    LateFaults,     \* bound: the same, for a release that a failure may race
    ReadThreshold   \* ERROR_READ_THRESHOLD

ASSUME FfmpegAssumption ==
    MaxFaults \in Nat /\ LateFaults \in 0 .. MaxFaults /\ ReadThreshold \in Nat \ {0}

VARIABLE ff     \* the fields of struct ffmpeg_source that the threads share

vars == <<threadVars, source, ff>>

(***************************************************************************)
(* ffmpeg_source_create.  open is whether fmt_ctx is there, faults counts  *)
(* the failures that ended a reader, or kept one from being made.          *)
(***************************************************************************)
Init ==
    /\ SourceInit
    /\ ff = [actived |-> FALSE, disconnected |-> FALSE, stop_event |-> FALSE,
             receive_thread |-> Api, error_read |-> 0, open |-> FALSE, faults |-> 0]

Held == {Api, source.reconnect_thread, ff.receive_thread}

Steady == {t \in Tids : At(t, "read_loop") /\ ff.actived /\ ~ff.stop_event}

MayFail == ff.faults < (IF Kept THEN MaxFaults ELSE LateFaults)

----------------------------------------------------------------------------
(***************************************************************************)
(* ffmpeg_source_start; actived stays set when the thread cannot be made.  *)
(***************************************************************************)
ImplStart(t) ==
    /\ At(t, "impl_start")
    /\ ff' = [ff EXCEPT !.actived = TRUE]
    /\ Move(Jump(stack, t, "impl_create"))
    /\ UNCHANGED source

ImplCreate(t) ==
    /\ At(t, "impl_create")
    /\ \/ /\ Spawn(ReturnVal(stack, t, "SUCCESS"), Held, "read_thread", "joinable")
          /\ ff' = [ff EXCEPT !.receive_thread = Fresh(Held)]
          /\ UNCHANGED source
       \/ /\ MayFail
          /\ SpawnFails(ReturnVal(stack, t, "FAILED"))
          /\ ff' = [ff EXCEPT !.faults = @ + 1]
          /\ source' = [source EXCEPT !.unmade = TRUE]

(***************************************************************************)
(* ffmpeg_source_stop.                                                     *)
(***************************************************************************)
ImplStop(t) ==
    /\ At(t, "impl_stop")
    /\ Move(IF ff.stop_event THEN Return(stack, t) ELSE Jump(stack, t, "stop_reading"))
    /\ UNCHANGED <<source, ff>>

ImplStopReading(t) ==
    /\ At(t, "stop_reading")
    /\ IF ff.actived
       THEN /\ ff' = [ff EXCEPT !.stop_event = TRUE]
            /\ Move(Jump(stack, t, "stop_reader"))
       ELSE /\ Move(Call(stack, t, "stop_reported", "signal_stop", "SUCCESS"))
            /\ UNCHANGED ff
    /\ UNCHANGED source

ImplStopReader(t) ==
    /\ At(t, "stop_reader")
    /\ Move(JumpJoin(stack, t, "stop_join", ff.receive_thread))
    /\ UNCHANGED <<source, ff>>

ImplStopReported(t) ==
    /\ At(t, "stop_reported")
    /\ Move(Return(stack, t))
    /\ UNCHANGED <<source, ff>>

ImplStopJoin(t) ==
    /\ At(t, "stop_join")
    /\ Join(Return(stack, t), t)
    /\ UNCHANGED <<source, ff>>

(***************************************************************************)
(* ffmpeg_source_destroy.                                                  *)
(***************************************************************************)
ImplDestroy(t) ==
    /\ At(t, "impl_destroy")
    /\ ff' = [ff EXCEPT !.actived = FALSE]
    /\ Move(IF ff.actived THEN Jump(stack, t, "destroy_reader") ELSE Return(stack, t))
    /\ UNCHANGED source

ImplDestroyReader(t) ==
    /\ At(t, "destroy_reader")
    /\ Move(JumpJoin(stack, t, "destroy_join", ff.receive_thread))
    /\ UNCHANGED <<source, ff>>

ImplDestroyJoin(t) ==
    /\ At(t, "destroy_join")
    /\ Join(Return(stack, t), t)
    /\ UNCHANGED <<source, ff>>

----------------------------------------------------------------------------
(***************************************************************************)
(* read_thread: create_ffmpeg_media opens the media, or fails and leaves   *)
(* to the end of the thread without `disconnected'.                        *)
(***************************************************************************)
ReadOpen(t) ==
    /\ At(t, "read_thread")
    /\ \/ /\ ff' = [ff EXCEPT !.open = TRUE]
          /\ Move(Jump(stack, t, "read_loop"))
       \/ /\ MayFail
          /\ \E partly \in BOOLEAN :
                 ff' = [ff EXCEPT !.faults = @ + 1, !.open = @ \/ partly]
          /\ Move(Jump(stack, t, "read_over"))
    /\ UNCHANGED source

\* mutant: the loop does not look at stop_event.
ReadStops_Deaf(t) ==
    /\ At(t, "read_loop")
    /\ ~ff.actived
    /\ Move(Jump(stack, t, "read_over"))
    /\ UNCHANGED <<source, ff>>

ReadStops(t) ==
    /\ At(t, "read_loop")
    /\ ~ff.actived \/ ff.stop_event
    /\ Move(Jump(stack, t, "read_over"))
    /\ UNCHANGED <<source, ff>>

(***************************************************************************)
(* av_read_frame fails; good reads in between do not clear the count.      *)
(***************************************************************************)
ReadFails(t) ==
    /\ At(t, "read_loop")
    /\ ff.actived /\ ~ff.stop_event
    /\ IF ff.error_read + 1 >= ReadThreshold
       THEN /\ MayFail
            /\ ff' = [ff EXCEPT !.error_read = @ + 1, !.disconnected = TRUE, !.faults = @ + 1]
            /\ Move(Jump(stack, t, "read_over"))
       ELSE /\ ff' = [ff EXCEPT !.error_read = @ + 1]
            /\ Move(stack)
    /\ UNCHANGED source

\* mutant: the thread detaches itself although somebody asked it to stop.
ReadOver_Detaches(t) ==
    /\ At(t, "read_over")
    /\ Detach(Call(stack, t, "read_free", "signal_stop", "DISCONNECTED"), ff.receive_thread)
    /\ UNCHANGED <<source, ff>>

ReadOver(t) ==
    /\ At(t, "read_over")
    /\ IF ~ff.stop_event /\ ff.disconnected
       THEN Detach(Call(stack, t, "read_free", "signal_stop", "DISCONNECTED"), ff.receive_thread)
       ELSE Move(Call(stack, t, "read_free", "signal_stop", "DISCONNECTED"))
    /\ UNCHANGED <<source, ff>>

(***************************************************************************)
(* free_ffmpeg_media and the resets before the last one.                   *)
(***************************************************************************)
\* mutant: the count of failed reads is not cleared.
ReadFree_Keeps(t) ==
    /\ At(t, "read_free")
    /\ ff' = [ff EXCEPT !.open = FALSE, !.stop_event = FALSE]
    /\ Move(Jump(stack, t, "read_end"))
    /\ UNCHANGED source

ReadFree(t) ==
    /\ At(t, "read_free")
    /\ ff' = [ff EXCEPT !.open = FALSE, !.error_read = 0, !.stop_event = FALSE]
    /\ Move(Jump(stack, t, "read_end"))
    /\ UNCHANGED source

ReadEnd(t) ==
    /\ At(t, "read_end")
    /\ ff' = [ff EXCEPT !.actived = FALSE]
    /\ Exit(t)
    /\ UNCHANGED source

----------------------------------------------------------------------------
FfmpegStep(t) ==
    \/ ImplStart(t) \/ ImplCreate(t) \/ ImplStop(t) \/ ImplStopReading(t)
    \/ ImplStopReader(t) \/ ImplStopReported(t) \/ ImplStopJoin(t)
    \/ ImplDestroy(t) \/ ImplDestroyReader(t) \/ ImplDestroyJoin(t)
    \/ ReadOpen(t) \/ ReadStops(t) \/ ReadOver(t) \/ ReadFree(t) \/ ReadEnd(t)

ThreadStep(t) == (SourceStep(t, Held, Steady) /\ UNCHANGED ff) \/ FfmpegStep(t)

(***************************************************************************)
(* Once the source is freed a thread that still runs uses memory that is   *)
(* gone; no behaviour is given to it.                                      *)
(***************************************************************************)
Next ==
    /\ ~source.freed
    /\ \/ \E t \in Tids : ThreadStep(t) \/ ReadFails(t)
       \/ (ApiStart \/ ApiRelease \/ Destroy \/ DestroyImpl \/ DestroyFree) /\ UNCHANGED ff

Spec == Init /\ [][Next]_vars

(***************************************************************************)
(* Threads that can run do run; a release that has begun goes on.  Nothing *)
(* is said of when the media fails or whether the source is released.      *)
(***************************************************************************)
Fairness ==
    /\ \A t \in Tids : WF_vars(~source.freed /\ ThreadStep(t))
    /\ WF_vars((Destroy \/ DestroyImpl \/ DestroyFree) /\ UNCHANGED ff)

FairSpec == Spec /\ Fairness

----------------------------------------------------------------------------
FfmpegPoints ==
    {"impl_create", "stop_reading", "stop_reader", "stop_reported", "stop_join",
     "destroy_reader", "destroy_join",
     "read_thread", "read_loop", "read_over", "read_free", "read_end"}

(***************************************************************************)
(* The type of the state.                                                  *)
(***************************************************************************)
TypeOK ==
    /\ SourceTypeOK(SourcePoints \cup FfmpegPoints, {"read_thread"})
    /\ ff \in [actived : BOOLEAN, disconnected : BOOLEAN, stop_event : BOOLEAN,
               receive_thread : Tids, error_read : 0 .. ReadThreshold, open : BOOLEAN,
               faults : 0 .. MaxFaults]

(***************************************************************************)
(* read_thread: fmt_ctx has no lock.  A thread that opens the media is     *)
(* alone with it, and begins with none open and no failed read on record:  *)
(* the thread before has closed it.                                        *)
(***************************************************************************)
ReaderExclusive ==
    \A t \in Tids : At(t, "read_thread") =>
        InRole("read_thread") = {t} /\ ~ff.open /\ ff.error_read = 0

(***************************************************************************)
(* A loss reported while a retry is left leads to another attempt to open  *)
(* the media, unless the source is released or no thread can be made.      *)
(***************************************************************************)
Retriable(t) ==
    /\ At(t, "signal_stop") /\ Val(t) = "DISCONNECTED"
    /\ IF source.reconnecting THEN source.retries < RetryMax ELSE RetryMax # 0

LossIsRetried ==
    (\E t \in Tids : Retriable(t))
        ~> (source.freed \/ source.unmade \/ \E t \in Tids : At(t, "read_thread"))

(***************************************************************************)
(* mgw_source_destroy of a source whose media never failed: the reader was *)
(* joined, so that it does not touch the memory that is freed.             *)
(***************************************************************************)
ReaderJoined == source.freed /\ ff.faults = 0 => InRole("read_thread") = {}

(***************************************************************************)
(* However attempts, losses and a release interleave, one thread at a time *)
(* has the media, and the retries follow their ladder.                     *)
(***************************************************************************)
ReadsAlone == TypeOK /\ RetryLadder /\ ReaderExclusive /\ ReaderJoined
============================================================================
