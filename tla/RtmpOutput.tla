---------------------------- MODULE RtmpOutput -----------------------------
(***************************************************************************)
(* The rtmp output (plugins/outputs/rtmp-stream.c) under the mgw output    *)
(* that drives it: a thread that connects, a thread that sends, and the    *)
(* stop and destroy calls that may run on either of them or on another     *)
(* thread.                                                                 *)
(***************************************************************************)
EXTENDS MgwOutput

CONSTANTS
    MaxFaults,      \* bound: how often the network, or a creation here, fails
    LateFaults      \* bound: the same, for an output that is released

ASSUME RtmpAssumption == MaxFaults \in Nat /\ LateFaults \in 0 .. MaxFaults

VARIABLE rtmp   \* the fields of struct rtmp_stream that the threads share

vars == <<threadVars, out, rtmp>>

Paths == {"empty", "malformed", "good"}     \* the path of the settings

(***************************************************************************)
(* rtmp_stream_create.  nStreams counts the streams added to the RTMP link *)
(* and not yet released.                                                   *)
(***************************************************************************)
Init ==
    /\ OutputInit
    /\ \E path \in Paths :
           rtmp = [connecting |-> FALSE, active |-> FALSE, disconnected |-> FALSE,
                   stop_event |-> FALSE, connect_thread |-> Api, send_thread |-> Api,
                   nStreams |-> 0, path |-> path, faults |-> 0]

(***************************************************************************)
(* The numbers the object's pthread_t hold, and the threads that send on a *)
(* connection with nothing wrong.                                          *)
(***************************************************************************)
Held == {Api, out.reconnect_thread, rtmp.connect_thread, rtmp.send_thread}

MayFail == rtmp.faults < (IF Kept THEN MaxFaults ELSE LateFaults)

Steady == {t \in Tids : At(t, "send_thread") /\ rtmp.active /\ ~rtmp.stop_event}

----------------------------------------------------------------------------
(***************************************************************************)
(* rtmp_stream_start; source_ready holds for every output that was created.*)
(***************************************************************************)
ImplStart(t) ==
    /\ At(t, "impl_start")
    /\ rtmp' = [rtmp EXCEPT !.connecting = TRUE]
    /\ Move(Jump(stack, t, "impl_create"))
    /\ UNCHANGED out

ImplCreate(t) ==
    /\ At(t, "impl_create")
    /\ \/ /\ Spawn(ReturnVal(stack, t, "SUCCESS"), Held, "connect_thread", "joinable")
          /\ rtmp' = [rtmp EXCEPT !.connect_thread = Fresh(Held)]
          /\ UNCHANGED out
       \/ /\ MayFail
          /\ SpawnFails(ReturnVal(stack, t, "FAILED"))
          /\ rtmp' = [rtmp EXCEPT !.faults = @ + 1]
          /\ out' = [out EXCEPT !.unmade = TRUE]

(***************************************************************************)
(* rtmp_stream_stop.                                                       *)
(***************************************************************************)
ImplStop(t) ==
    /\ At(t, "impl_stop")
    /\ Move(IF rtmp.stop_event THEN Return(stack, t) ELSE Jump(stack, t, "stop_connecting"))
    /\ UNCHANGED <<out, rtmp>>

ImplStopConnecting(t) ==
    /\ At(t, "stop_connecting")
    /\ Move(IF rtmp.connecting
            THEN JumpJoin(stack, t, "stop_join_connect", rtmp.connect_thread)
            ELSE Jump(stack, t, "stop_sending"))
    /\ UNCHANGED <<out, rtmp>>

ImplStopJoinConnect(t) ==
    /\ At(t, "stop_join_connect")
    /\ Join(Jump(stack, t, "stop_sending"), t)
    /\ UNCHANGED <<out, rtmp>>

ImplStopSending(t) ==
    /\ At(t, "stop_sending")
    /\ IF rtmp.active
       THEN /\ rtmp' = [rtmp EXCEPT !.stop_event = TRUE]
            /\ Move(JumpJoin(stack, t, "stop_join_send", rtmp.send_thread))
       ELSE /\ Move(Call(stack, t, "stop_clear", "signal_stop", "SUCCESS"))
            /\ UNCHANGED rtmp
    /\ UNCHANGED out

ImplStopJoinSend(t) ==
    /\ At(t, "stop_join_send")
    /\ Join(Jump(stack, t, "stop_clear"), t)
    /\ UNCHANGED <<out, rtmp>>

\* mutant: the streams are freed but nStreams is not reset.
ImplStopClear_Keeps(t) ==
    /\ At(t, "stop_clear")
    /\ Move(Return(stack, t))
    /\ UNCHANGED <<out, rtmp>>

ImplStopClear(t) ==
    /\ At(t, "stop_clear")
    /\ rtmp' = [rtmp EXCEPT !.nStreams = 0]
    /\ Move(Return(stack, t))
    /\ UNCHANGED out

(***************************************************************************)
(* rtmp_stream_destroy.                                                    *)
(***************************************************************************)
ImplDestroy(t) ==
    /\ At(t, "impl_destroy")
    /\ Move(CASE rtmp.connecting -> JumpJoin(stack, t, "destroy_join_connect", rtmp.connect_thread)
              [] ~rtmp.connecting /\ rtmp.active -> Jump(stack, t, "destroy_signal")
              [] OTHER -> Return(stack, t))
    /\ UNCHANGED <<out, rtmp>>

ImplDestroyJoinConnect(t) ==
    /\ At(t, "destroy_join_connect")
    /\ Join(Jump(stack, t, "destroy_signal"), t)
    /\ UNCHANGED <<out, rtmp>>

ImplDestroySignal(t) ==
    /\ At(t, "destroy_signal")
    /\ rtmp' = [rtmp EXCEPT !.stop_event = TRUE]
    /\ Move(Jump(stack, t, "destroy_active"))
    /\ UNCHANGED out

ImplDestroyActive(t) ==
    /\ At(t, "destroy_active")
    /\ rtmp' = [rtmp EXCEPT !.active = FALSE]
    /\ Move(IF rtmp.active THEN JumpJoin(stack, t, "destroy_join_send", rtmp.send_thread)
                           ELSE Return(stack, t))
    /\ UNCHANGED out

ImplDestroyJoinSend(t) ==
    /\ At(t, "destroy_join_send")
    /\ Join(Return(stack, t), t)
    /\ UNCHANGED <<out, rtmp>>

----------------------------------------------------------------------------
(***************************************************************************)
(* connect_thread: init_connect.  With no path it reports MGW_BAD_PATH and *)
(* leaves `connecting' as it is.                                           *)
(***************************************************************************)
ConnectBegin(t) ==
    /\ At(t, "connect_thread")
    /\ Move(IF rtmp.stop_event THEN JumpJoin(stack, t, "connect_join", rtmp.send_thread)
                               ELSE Jump(stack, t, "connect_init"))
    /\ UNCHANGED <<out, rtmp>>

ConnectJoin(t) ==
    /\ At(t, "connect_join")
    /\ Join(Jump(stack, t, "connect_init"), t)
    /\ UNCHANGED <<out, rtmp>>

ConnectInit(t) ==
    /\ At(t, "connect_init")
    /\ rtmp' = [rtmp EXCEPT !.disconnected = FALSE]
    /\ Move(IF rtmp.path = "empty" THEN Call(stack, t, "connect_bad_path", "signal_stop", "FAILED")
                         ELSE Jump(stack, t, "try_connect"))
    /\ UNCHANGED out

ConnectBadPath(t) ==
    /\ At(t, "connect_bad_path")
    /\ Detach(Jump(stack, t, "connect_exit"), rtmp.connect_thread)
    /\ UNCHANGED <<out, rtmp>>

ConnectExit(t) ==
    /\ At(t, "connect_exit")
    /\ Exit(t)
    /\ UNCHANGED <<out, rtmp>>

(***************************************************************************)
(* try_connect and init_send.  The network decides: the connection fails,  *)
(* or is lost while the meta data are sent, or is good.  RTMP_AddStream is *)
(* called before any of it is known, but after RTMP_SetupURL has refused a *)
(* malformed path.                                                         *)
(***************************************************************************)
TryConnect(t) ==
    /\ At(t, "try_connect")
    /\ \/ /\ rtmp.path = "malformed"
          /\ Move(Call(stack, t, "connect_over", "signal_stop", "FAILED"))
          /\ UNCHANGED rtmp
       \/ /\ rtmp.path = "good"
          /\ MayFail
          /\ rtmp' = [rtmp EXCEPT !.nStreams = @ + 1, !.faults = @ + 1]
          /\ \E code \in {"FAILED", "DISCONNECTED"} :
                 Move(Call(stack, t, "connect_over", "signal_stop", code))
       \/ /\ rtmp.path = "good"
          /\ rtmp' = [rtmp EXCEPT !.nStreams = @ + 1]
          /\ Move(Jump(stack, t, "init_send"))
    /\ UNCHANGED out

InitSendActive(t) ==
    /\ At(t, "init_send")
    /\ rtmp' = [rtmp EXCEPT !.active = TRUE]
    /\ Move(Jump(stack, t, "send_create"))
    /\ UNCHANGED out

InitSendCreate(t) ==
    /\ At(t, "send_create")
    /\ \/ /\ Spawn(Jump(stack, t, "connect_over"), Held, "send_thread", "joinable")
          /\ rtmp' = [rtmp EXCEPT !.send_thread = Fresh(Held)]
       \/ /\ MayFail
          /\ SpawnFails(Call(stack, t, "connect_over", "signal_stop", "FAILED"))
          /\ rtmp' = [rtmp EXCEPT !.active = FALSE, !.faults = @ + 1]
    /\ UNCHANGED out

ConnectOver(t) ==
    /\ At(t, "connect_over")
    /\ Move(Jump(stack, t, IF rtmp.stop_event THEN "connect_end" ELSE "connect_detach"))
    /\ UNCHANGED <<out, rtmp>>

ConnectDetach(t) ==
    /\ At(t, "connect_detach")
    /\ Detach(Jump(stack, t, "connect_end"), rtmp.connect_thread)
    /\ UNCHANGED <<out, rtmp>>

ConnectEnd(t) ==
    /\ At(t, "connect_end")
    /\ rtmp' = [rtmp EXCEPT !.connecting = FALSE]
    /\ Exit(t)
    /\ UNCHANGED out

----------------------------------------------------------------------------
(***************************************************************************)
(* send_thread.  The loop sends one packet after another; the network may  *)
(* break it at any of them.                                                *)
(***************************************************************************)
SendStops(t) ==
    /\ At(t, "send_thread")
    /\ ~rtmp.active \/ rtmp.stop_event
    /\ Move(Jump(stack, t, "send_over"))
    /\ UNCHANGED <<out, rtmp>>

SendFails(t) ==
    /\ At(t, "send_thread")
    /\ rtmp.active /\ ~rtmp.stop_event
    /\ MayFail
    /\ rtmp' = [rtmp EXCEPT !.disconnected = TRUE, !.faults = @ + 1]
    /\ Move(Jump(stack, t, "send_over"))
    /\ UNCHANGED out

SendOver(t) ==
    /\ At(t, "send_over")
    /\ Move(Jump(stack, t, IF ~rtmp.stop_event /\ rtmp.disconnected
                           THEN "send_detach" ELSE "send_reset"))
    /\ UNCHANGED <<out, rtmp>>

SendDetach(t) ==
    /\ At(t, "send_detach")
    /\ Detach(Call(stack, t, "send_reset", "signal_stop", "DISCONNECTED"), rtmp.send_thread)
    /\ UNCHANGED <<out, rtmp>>

SendReset(t) ==
    /\ At(t, "send_reset")
    /\ rtmp' = [rtmp EXCEPT !.stop_event = FALSE]
    /\ Move(Jump(stack, t, "send_end"))
    /\ UNCHANGED out

SendEnd(t) ==
    /\ At(t, "send_end")
    /\ rtmp' = [rtmp EXCEPT !.active = FALSE]
    /\ Exit(t)
    /\ UNCHANGED out

----------------------------------------------------------------------------
RtmpStep(t) ==
    \/ ImplStart(t) \/ ImplCreate(t)
    \/ ImplStop(t) \/ ImplStopConnecting(t) \/ ImplStopJoinConnect(t)
    \/ ImplStopSending(t) \/ ImplStopJoinSend(t) \/ ImplStopClear(t)
    \/ ImplDestroy(t) \/ ImplDestroyJoinConnect(t) \/ ImplDestroySignal(t)
    \/ ImplDestroyActive(t) \/ ImplDestroyJoinSend(t)
    \/ ConnectBegin(t) \/ ConnectJoin(t) \/ ConnectInit(t) \/ ConnectBadPath(t)
    \/ ConnectExit(t) \/ TryConnect(t) \/ InitSendActive(t) \/ InitSendCreate(t)
    \/ ConnectOver(t) \/ ConnectDetach(t) \/ ConnectEnd(t)
    \/ SendStops(t) \/ SendOver(t) \/ SendDetach(t) \/ SendReset(t) \/ SendEnd(t)

(***************************************************************************)
(* Once the output is freed a thread that is still running uses memory     *)
(* that is gone; no behaviour is given to it.                              *)
(***************************************************************************)
ThreadStep(t) == (OutputStep(t, Held, Steady) /\ UNCHANGED rtmp) \/ RtmpStep(t)

ApiStep ==
    /\ (ApiStop /\ rtmp.faults <= LateFaults) \/ Destroy \/ DestroyImpl \/ DestroyFree
    /\ UNCHANGED rtmp

Next ==
    /\ ~out.freed
    /\ \/ \E t \in Tids : ThreadStep(t) \/ SendFails(t)
       \/ ApiStart /\ UNCHANGED rtmp
       \/ ApiStep

Spec == Init /\ [][Next]_vars

(***************************************************************************)
(* Every thread that can run does run, and a release that has begun goes   *)
(* on.  Nothing is said of when the network fails, when the output is      *)
(* started, or whether it is released.                                     *)
(***************************************************************************)
Fairness ==
    /\ \A t \in Tids : WF_vars(~out.freed /\ ThreadStep(t))
    /\ WF_vars((Destroy \/ DestroyImpl \/ DestroyFree) /\ UNCHANGED rtmp)

FairSpec == Spec /\ Fairness

----------------------------------------------------------------------------
RtmpPoints ==
    {"impl_create", "stop_connecting", "stop_join_connect", "stop_sending",
     "stop_join_send", "stop_clear", "destroy_join_connect", "destroy_signal",
     "destroy_active", "destroy_join_send", "connect_thread", "connect_join",
     "connect_init", "connect_bad_path", "connect_exit", "try_connect",
     "init_send", "send_create", "connect_over", "connect_detach", "connect_end",
     "send_thread", "send_over", "send_detach", "send_reset", "send_end"}

(***************************************************************************)
(* The type of the state.                                                  *)
(***************************************************************************)
TypeOK ==
    /\ OutputTypeOK(OutputPoints \cup RtmpPoints, {"connect_thread", "send_thread"})
    /\ rtmp \in [connecting : BOOLEAN, active : BOOLEAN, disconnected : BOOLEAN,
                 stop_event : BOOLEAN, connect_thread : Tids, send_thread : Tids,
                 nStreams : Nat, path : Paths, faults : 0 .. MaxFaults]

(***************************************************************************)
(* The RTMP structure has no lock.  While the output is kept, a thread     *)
(* that connects it is alone with it: no older connect thread and no send  *)
(* thread of the connection before is still running.                       *)
(***************************************************************************)
SessionExclusive ==
    \A t \in Tids : Kept /\ At(t, "try_connect") =>
        InRole("connect_thread") = {t} /\ InRole("send_thread") = {}

(***************************************************************************)
(* rtmp_stream_stop empties the link between two connections, so that an   *)
(* output that was not released publishes exactly one stream, however many *)
(* attempts came before.                                                   *)
(***************************************************************************)
PublishesOnce == \A t \in Tids : Kept /\ At(t, "init_send") => rtmp.nStreams = 1

(***************************************************************************)
(* However attempts, losses and a release interleave, a connect has the    *)
(* RTMP structure to itself and finds it emptied.                          *)
(***************************************************************************)
ConnectsClean == TypeOK /\ SessionExclusive /\ PublishesOnce

(***************************************************************************)
(* A loss that is reported while there are retries left is followed by     *)
(* another attempt to connect, unless the output is released or no thread  *)
(* can be made.                                                            *)
(***************************************************************************)
LossIsRetried ==
    (\E t \in Tids : Retriable(t)) ~> (~Kept \/ out.unmade \/ \E t \in Tids : At(t, "try_connect"))
============================================================================
