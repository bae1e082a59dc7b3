----------------------------- MODULE SrtOutput -----------------------------
(***************************************************************************)
(* The srt output (plugins/outputs/srt-stream.c) under the mgw output that *)
(* drives it: one thread connects, sends, and takes its muxer down before  *)
(* it reports.  Its stop call waits for nobody.                            *)
(***************************************************************************)
EXTENDS MgwOutput

CONSTANTS
    MaxFaults,      \* bound: how often the network, or a creation here, fails
    LateFaults      \* bound: the same, for an output that is released

ASSUME SrtAssumption == MaxFaults \in Nat /\ LateFaults \in 0 .. MaxFaults

VARIABLE srt    \* the fields of struct srt_stream that the threads share

vars == <<threadVars, out, srt>>

(***************************************************************************)
(* srt_stream_create; it makes the first muxer.  muxer is the pointer      *)
(* mpegts with what is behind it: none, an unused one, or one in use.      *)
(***************************************************************************)
Init ==
    /\ OutputInit
    /\ \E uri \in {"empty", "given"} :
           srt = [active |-> FALSE, disconnected |-> FALSE, stop_event |-> FALSE,
                  send_thread |-> Api, muxer |-> "new", uri |-> uri, faults |-> 0]

Held == {Api, out.reconnect_thread, srt.send_thread}

MayFail == srt.faults < (IF Kept THEN MaxFaults ELSE LateFaults)

Steady == {t \in Tids : At(t, "send_loop") /\ ~srt.stop_event /\ ~srt.disconnected}

JumpVal(s, t, at, val) == [s EXCEPT ![t] = <<Frame(at, val)>> \o Tail(@)]

----------------------------------------------------------------------------
(***************************************************************************)
(* srt_stream_start.                                                       *)
(***************************************************************************)
ImplStart(t) ==
    /\ At(t, "impl_start")
    /\ \/ /\ Spawn(ReturnVal(stack, t, "SUCCESS"), Held, "send_thread", "joinable")
          /\ srt' = [srt EXCEPT !.send_thread = Fresh(Held)]
          /\ UNCHANGED out
       \/ /\ MayFail
          /\ SpawnFails(ReturnVal(stack, t, "FAILED"))
          /\ srt' = [srt EXCEPT !.faults = @ + 1]
          /\ out' = [out EXCEPT !.unmade = TRUE]

(***************************************************************************)
(* srt_stream_stop.                                                        *)
(***************************************************************************)
ImplStop(t) ==
    /\ At(t, "impl_stop")
    /\ Move(IF srt.stop_event THEN Return(stack, t) ELSE Jump(stack, t, "stop_sending"))
    /\ UNCHANGED <<out, srt>>

ImplStopSending(t) ==
    /\ At(t, "stop_sending")
    /\ IF srt.active
       THEN /\ srt' = [srt EXCEPT !.stop_event = TRUE]
            /\ Move(Return(stack, t))
       ELSE /\ Move(Call(stack, t, "stop_reported", "signal_stop", "SUCCESS"))
            /\ UNCHANGED srt
    /\ UNCHANGED out

ImplStopReported(t) ==
    /\ At(t, "stop_reported")
    /\ Move(Return(stack, t))
    /\ UNCHANGED <<out, srt>>

(***************************************************************************)
(* srt_stream_destroy.                                                     *)
(***************************************************************************)
ImplDestroy(t) ==
    /\ At(t, "impl_destroy")
    /\ srt' = [srt EXCEPT !.stop_event = @ \/ srt.active]
    /\ Move(Jump(stack, t, "destroy_check"))
    /\ UNCHANGED out

ImplDestroyCheck(t) ==
    /\ At(t, "destroy_check")
    /\ Move(IF srt.stop_event /\ srt.active
            THEN JumpJoin(stack, t, "destroy_join", srt.send_thread)
            ELSE Return(stack, t))
    /\ UNCHANGED <<out, srt>>

ImplDestroyJoin(t) ==
    /\ At(t, "destroy_join")
    /\ Join(Return(stack, t), t)
    /\ UNCHANGED <<out, srt>>

----------------------------------------------------------------------------
(***************************************************************************)
(* connect_and_send_thread: init_connect makes a muxer when there is none, *)
(* starts it, and opens the connection.                                    *)
(***************************************************************************)
ConnectInit(t) ==
    /\ At(t, "send_thread")
    /\ IF srt.uri = "empty"
       THEN /\ Move(JumpVal(stack, t, "send_close", "FAILED"))
            /\ UNCHANGED srt
       ELSE /\ srt' = [srt EXCEPT !.disconnected = FALSE,
                                  !.muxer = IF @ = "none" THEN "new" ELSE @]
            /\ Move(Jump(stack, t, "connect_open"))
    /\ UNCHANGED out

ConnectOpen(t) ==
    /\ At(t, "connect_open")
    /\ \/ /\ srt' = [srt EXCEPT !.muxer = "used"]
          /\ Move(Jump(stack, t, "send_active"))
       \/ /\ MayFail
          /\ \E muxer \in {srt.muxer, "used"} :
                 srt' = [srt EXCEPT !.faults = @ + 1, !.muxer = muxer]
          /\ Move(JumpVal(stack, t, "send_close", "FAILED"))
    /\ UNCHANGED out

SendActive(t) ==
    /\ At(t, "send_active")
    /\ srt' = [srt EXCEPT !.active = TRUE]
    /\ Move(Jump(stack, t, "send_loop"))
    /\ UNCHANGED out

(***************************************************************************)
(* The loop; a packet that cannot be sent makes srt_stream_proc_packet set *)
(* `disconnected'.                                                         *)
(***************************************************************************)
SendFails(t) ==
    /\ At(t, "send_loop")
    /\ MayFail /\ ~srt.stop_event /\ ~srt.disconnected
    /\ srt' = [srt EXCEPT !.disconnected = TRUE, !.faults = @ + 1]
    /\ UNCHANGED <<threadVars, out>>

SendStops(t) ==
    /\ At(t, "send_loop")
    /\ srt.stop_event \/ srt.disconnected
    /\ Move(JumpVal(stack, t, "send_close",
                    IF srt.disconnected THEN "DISCONNECTED" ELSE "SUCCESS"))
    /\ UNCHANGED <<out, srt>>

(***************************************************************************)
(* The muxer is stopped and destroyed; a connection to come needs another. *)
(***************************************************************************)
\* mutant: mpegts is not set to NULL after its destruction.
SendClose_Dangles(t) ==
    /\ At(t, "send_close")
    /\ Move(Jump(stack, t, "send_over"))
    /\ UNCHANGED <<out, srt>>

SendClose(t) ==
    /\ At(t, "send_close")
    /\ srt' = [srt EXCEPT !.muxer = "none"]
    /\ Move(Jump(stack, t, "send_over"))
    /\ UNCHANGED out

SendOver(t) ==
    /\ At(t, "send_over")
    /\ Move(Jump(stack, t, IF srt.stop_event THEN "send_reset" ELSE "send_detach"))
    /\ UNCHANGED <<out, srt>>

SendDetach(t) ==
    /\ At(t, "send_detach")
    /\ Detach(Call(stack, t, "send_reset", "signal_stop", Val(t)), srt.send_thread)
    /\ UNCHANGED <<out, srt>>

\* mutant: stop_event is left set.
SendReset_Keeps(t) ==
    /\ At(t, "send_reset")
    /\ Move(Jump(stack, t, "send_end"))
    /\ UNCHANGED <<out, srt>>

SendReset(t) ==
    /\ At(t, "send_reset")
    /\ srt' = [srt EXCEPT !.stop_event = FALSE]
    /\ Move(Jump(stack, t, "send_end"))
    /\ UNCHANGED out

SendEnd(t) ==
    /\ At(t, "send_end")
    /\ srt' = [srt EXCEPT !.active = FALSE]
    /\ Exit(t)
    /\ UNCHANGED out

----------------------------------------------------------------------------
SrtStep(t) ==
    \/ ImplStart(t) \/ ImplStop(t) \/ ImplStopSending(t) \/ ImplStopReported(t)
    \/ ImplDestroy(t) \/ ImplDestroyCheck(t) \/ ImplDestroyJoin(t)
    \/ ConnectInit(t) \/ ConnectOpen(t) \/ SendActive(t) \/ SendStops(t) \/ SendClose(t)
    \/ SendOver(t) \/ SendDetach(t) \/ SendReset(t) \/ SendEnd(t)

ThreadStep(t) == (OutputStep(t, Held, Steady) /\ UNCHANGED srt) \/ SrtStep(t)

ApiStep ==
    /\ (ApiStop /\ srt.faults <= LateFaults) \/ Destroy \/ DestroyImpl \/ DestroyFree
    /\ UNCHANGED srt

Next ==
    /\ ~out.freed
    /\ \/ \E t \in Tids : ThreadStep(t) \/ SendFails(t)
       \/ ApiStart /\ UNCHANGED srt
       \/ ApiStep

Spec == Init /\ [][Next]_vars

(***************************************************************************)
(* The fairness of RtmpOutput: threads run, a release goes on.             *)
(***************************************************************************)
Fairness ==
    /\ \A t \in Tids : WF_vars(~out.freed /\ ThreadStep(t))
    /\ WF_vars((Destroy \/ DestroyImpl \/ DestroyFree) /\ UNCHANGED srt)

FairSpec == Spec /\ Fairness

----------------------------------------------------------------------------
SrtPoints ==
    {"stop_sending", "stop_reported", "destroy_check", "destroy_join", "send_thread",
     "connect_open", "send_active", "send_loop", "send_close", "send_over", "send_detach",
     "send_reset", "send_end"}

(***************************************************************************)
(* The type of the state.                                                  *)
(***************************************************************************)
TypeOK ==
    /\ OutputTypeOK(OutputPoints \cup SrtPoints, {"send_thread"})
    /\ srt \in [active : BOOLEAN, disconnected : BOOLEAN, stop_event : BOOLEAN,
                send_thread : Tids, muxer : {"none", "new", "used"},
                uri : {"empty", "given"}, faults : 0 .. MaxFaults]

(***************************************************************************)
(* connect_and_send_thread: the muxer and the libsrt context have no lock. *)
(* While the output is kept, a thread that opens the connection is alone   *)
(* with them, with a muxer nobody used before.  (A release raises a stop   *)
(* signal that can_reconnect takes for a loss when the output was          *)
(* reconnecting; then two retries may be under way.)                       *)
(***************************************************************************)
ConnectsAlone ==
    \A t \in Tids : Kept /\ At(t, "connect_open") =>
        InRole("send_thread") = {t} /\ srt.muxer = "new"

(***************************************************************************)
(* A stop request never survives into the connection it was not meant for: *)
(* while the output is kept, the thread that starts to send finds          *)
(* stop_event clear.                                                       *)
(***************************************************************************)
NoStaleStop == \A t \in Tids : Kept /\ At(t, "send_active") => ~srt.stop_event

(***************************************************************************)
(* However attempts, losses and a release interleave, a connection begins  *)
(* alone, fresh and not stopped, and the retries follow their ladder.      *)
(***************************************************************************)
ConnectsClean == TypeOK /\ RetryLadder /\ ConnectsAlone /\ NoStaleStop

(***************************************************************************)
(* A loss with a retry left is followed by another attempt to connect,     *)
(* unless the output is released or no thread can be made.                 *)
(***************************************************************************)
LossIsRetried ==
    (\E t \in Tids : Retriable(t))
        ~> (~Kept \/ out.unmade \/ \E t \in Tids : At(t, "connect_open"))
============================================================================
