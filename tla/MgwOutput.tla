----------------------------- MODULE MgwOutput -----------------------------
(***************************************************************************)
(* An output of mgw-core (core-api/mgw-output.c): start, stop, the         *)
(* reconnect thread with its growing delay, the stop signal that its       *)
(* implementation raises, and destruction.                                 *)
(*                                                                         *)
(* The implementation (rtmp or srt) is reached through info.start,         *)
(* info.stop and info.destroy.  A call of one of them pushes a frame at    *)
(* "impl_start", "impl_stop" or "impl_destroy", which the module of the    *)
(* implementation executes; it calls back by pushing "signal_stop".        *)
(***************************************************************************)
EXTENDS Threads

CONSTANTS
    RetryMax,       \* reconnect_retry_max (MGW_OUTPUT_RETRY_MAX)
    RetrySec,       \* reconnect_retry_sec (MGW_OUTPUT_RETRY_SEC)
    MaxRetrySec,    \* MAX_RETRY_SEC
    Prompt,         \* whether a delay outlasts the threads that asked for it
    Releases        \* whether the owner of the output ever releases it

ASSUME OutputAssumption ==
    /\ RetryMax \in Nat
    /\ RetrySec \in Nat \ {0}
    /\ MaxRetrySec \in Nat /\ RetrySec <= MaxRetrySec
    /\ Prompt \in BOOLEAN /\ Releases \in BOOLEAN

VARIABLE out    \* the fields of struct mgw_output, and whether it is freed

(***************************************************************************)
(* The stop codes: MGW_SUCCESS, MGW_DISCONNECTED, and one for all others.  *)
(***************************************************************************)
Codes == {"SUCCESS", "DISCONNECTED", "FAILED"}

(***************************************************************************)
(* bzalloc and mgw_output_create_internal.  The two events are those of    *)
(* os_event_init, not signalled.  Ghosts: the output is gone, and a thread *)
(* that was to connect it could not be made.                               *)
(***************************************************************************)
OutputInit ==
    /\ ThreadsInit("created")
    /\ out = [actived |-> FALSE, stop_code |-> "SUCCESS",
              reconnecting |-> FALSE, retries |-> 0, cur_sec |-> 0,
              thread_active |-> FALSE, reconnect_thread |-> Api,
              stopping_event |-> FALSE, reconnect_stop_event |-> FALSE,
              freed |-> FALSE, unmade |-> FALSE]

(***************************************************************************)
(* The owner of the output has not begun to release it.                    *)
(***************************************************************************)
Kept == stack[Api] # <<>> /\ stack[Api][Len(stack[Api])].at \in {"created", "started"}

----------------------------------------------------------------------------
(***************************************************************************)
(* mgw_output_actual_start.                                                *)
(***************************************************************************)
StartWait(t) ==
    /\ At(t, "actual_start")
    /\ Move(Jump(stack, t, IF out.stopping_event THEN "start_impl" ELSE "start_waits"))
    /\ UNCHANGED out

StartImpl(t) ==
    /\ At(t, "start_impl")
    /\ out' = [out EXCEPT !.stop_code = "SUCCESS"]
    /\ Move(Call(stack, t, "start_actived", "impl_start", "none"))

StartActived(t) ==
    /\ At(t, "start_actived")
    /\ out' = [out EXCEPT !.actived = (Val(t) = "SUCCESS")]
    /\ Move(Return(stack, t))

(***************************************************************************)
(* mgw_output_actual_stop with force, the only way it is called.           *)
(***************************************************************************)
StopReset(t) ==
    /\ At(t, "actual_stop")
    /\ out' = [out EXCEPT !.stopping_event = FALSE]
    /\ Move(Jump(stack, t, "stop_reconnect"))

StopReconnect(t) ==
    /\ At(t, "stop_reconnect")
    /\ IF out.reconnecting
       THEN /\ out' = [out EXCEPT !.reconnect_stop_event = TRUE]
            /\ \E s \in Waking(stack, "delay_waits", "delay_over") :
                   Move(Jump(s, t, "stop_active"))
       ELSE /\ Move(Jump(stack, t, "stop_signal"))
            /\ UNCHANGED out

StopActive(t) ==
    /\ At(t, "stop_active")
    /\ Move(IF out.thread_active THEN JumpJoin(stack, t, "stop_join", out.reconnect_thread)
                                 ELSE Jump(stack, t, "stop_signal"))
    /\ UNCHANGED out

StopJoin(t) ==
    /\ At(t, "stop_join")
    /\ Join(Jump(stack, t, "stop_signal"), t)
    /\ UNCHANGED out

StopSignal(t) ==
    /\ At(t, "stop_signal")
    /\ out' = [out EXCEPT !.stopping_event = TRUE]
    /\ \E s \in Waking(stack, "start_waits", "start_impl") :
           Move(Call(s, t, "stop_actived", "impl_stop", "none"))

StopActived(t) ==
    /\ At(t, "stop_actived")
    /\ out' = [out EXCEPT !.actived = FALSE]
    /\ Move(Return(stack, t))

(***************************************************************************)
(* reconnect_thread.  Its delay is MGW_OUTPUT_RETRY_SEC seconds at least,  *)
(* which Prompt takes to outlast whatever other threads have under way: it *)
(* expires when each of them waits, or belongs to the set `steady' of the  *)
(* implementation's threads that have nothing to do but their daily work.  *)
(***************************************************************************)
Waits(t) ==
    \/ At(t, "started") \/ At(t, "delay_waits") \/ At(t, "start_waits")
    \/ Joined(t) # Api /\ life[Joined(t)] = "joinable"

ReconnectBegin(t) ==
    /\ At(t, "reconnect_thread")
    /\ out' = [out EXCEPT !.thread_active = TRUE]
    /\ Move(Jump(stack, t, "delay"))

\* mutant: the test of os_event_timedwait inverted, a time-out gives up.
DelayWait_GivesUp(t) ==
    /\ At(t, "delay")
    /\ Move(Jump(stack, t, "delay_over"))
    /\ UNCHANGED out

DelayWait(t) ==
    /\ At(t, "delay")
    /\ Move(Jump(stack, t, IF out.reconnect_stop_event THEN "delay_over" ELSE "delay_waits"))
    /\ UNCHANGED out

\* mutant: no delay, ms computed as 0.
DelayExpires_AtOnce(t, steady) ==
    /\ At(t, "delay_waits")
    /\ Move(Call(stack, t, "delay_over", "actual_start", "none"))
    /\ UNCHANGED out

DelayExpires(t, steady) ==
    /\ At(t, "delay_waits")
    /\ Prompt => \A u \in Running \ {t} : u \in steady \/ Waits(u)
    /\ Move(Call(stack, t, "delay_over", "actual_start", "none"))
    /\ UNCHANGED out

ReconnectOver(t) ==
    /\ At(t, "delay_over")
    /\ IF out.reconnect_stop_event
       THEN /\ out' = [out EXCEPT !.reconnecting = FALSE]
            /\ Move(Jump(stack, t, "reconnect_end"))
       ELSE /\ Move(Jump(stack, t, "reconnect_detach"))
            /\ UNCHANGED out

ReconnectDetach(t) ==
    /\ At(t, "reconnect_detach")
    /\ Detach(Jump(stack, t, "reconnect_end"), out.reconnect_thread)
    /\ UNCHANGED out

ReconnectEnd(t) ==
    /\ At(t, "reconnect_end")
    /\ out' = [out EXCEPT !.thread_active = FALSE]
    /\ Exit(t)

(***************************************************************************)
(* stop_thread, created and detached by the same caller.                   *)
(***************************************************************************)
StopThread(t) ==
    /\ At(t, "stop_thread")
    /\ Exit(t)
    /\ UNCHANGED out

SpawnStopThread(s, held) == Spawn(s, held, "stop_thread", "detached") \/ SpawnFails(s)

----------------------------------------------------------------------------
(***************************************************************************)
(* output_signal_stop: the implementation reports the code of its frame.   *)
(***************************************************************************)
SignalStop(t) ==
    /\ At(t, "signal_stop")
    /\ out' = [out EXCEPT !.stop_code = Val(t)]
    /\ Move(Jump(stack, t, "can_reconnect"))

can_reconnect ==
    \/ out.reconnecting /\ out.stop_code # "SUCCESS"
    \/ RetryMax # 0 /\ out.stop_code = "DISCONNECTED"

SignalDecide(t) ==
    /\ At(t, "can_reconnect")
    /\ Move(Jump(stack, t, IF can_reconnect THEN "output_reconnect" ELSE "signal_spawn"))
    /\ UNCHANGED out

SignalSpawn(t, held) ==
    /\ At(t, "signal_spawn")
    /\ IF ~out.reconnecting /\ out.actived
       THEN SpawnStopThread(Jump(stack, t, "signal_event"), held)
       ELSE Move(Jump(stack, t, "signal_event"))
    /\ UNCHANGED out

SignalEvent(t) ==
    /\ At(t, "signal_event")
    /\ out' = [out EXCEPT !.stopping_event = TRUE]
    /\ \E s \in Waking(stack, "start_waits", "start_impl") :
           Move(Jump(s, t, "signal_actived"))

SignalActived(t) ==
    /\ At(t, "signal_actived")
    /\ out' = [out EXCEPT !.actived = FALSE]
    /\ Move(Return(stack, t))

(***************************************************************************)
(* output_reconnect.  pthread_create returns a positive error number, so   *)
(* its test `ret < 0' never takes a failure for one.                       *)
(***************************************************************************)
RetryFirst(t) ==
    /\ At(t, "output_reconnect")
    /\ out' = IF out.reconnecting THEN out
              ELSE [out EXCEPT !.cur_sec = RetrySec, !.retries = 0]
    /\ Move(Jump(stack, t, "retry_budget"))

\* mutant: > in place of >=.
RetryBudget_OneMore(t, held) ==
    /\ At(t, "retry_budget")
    /\ IF out.retries > RetryMax
       THEN /\ out' = [out EXCEPT !.stop_code = "DISCONNECTED", !.reconnecting = FALSE]
            /\ SpawnStopThread(Return(stack, t), held)
       ELSE /\ Move(Jump(stack, t, "retry_mark"))
            /\ UNCHANGED out

RetryBudget(t, held) ==
    /\ At(t, "retry_budget")
    /\ IF out.retries >= RetryMax
       THEN /\ out' = [out EXCEPT !.stop_code = "DISCONNECTED", !.reconnecting = FALSE]
            /\ SpawnStopThread(Return(stack, t), held)
       ELSE /\ Move(Jump(stack, t, "retry_mark"))
            /\ UNCHANGED out

RetryMark(t) ==
    /\ At(t, "retry_mark")
    /\ out' = [out EXCEPT !.reconnecting = TRUE]
    /\ Move(Jump(stack, t, IF out.reconnecting THEN "retry_count" ELSE "retry_reset"))

RetryReset(t) ==
    /\ At(t, "retry_reset")
    /\ out' = [out EXCEPT !.reconnect_stop_event = FALSE]
    /\ Move(Jump(stack, t, "retry_count"))

Smaller(a, b) == IF a < b THEN a ELSE b

\* mutant: the delay is not cut at MAX_RETRY_SEC.
RetryCount_Uncut(t) ==
    /\ At(t, "retry_count")
    /\ out' = [out EXCEPT !.cur_sec = IF out.retries = 0 THEN @ ELSE 2 * @,
                          !.retries = @ + 1]
    /\ Move(Call(stack, t, "retry_spawn", "impl_stop", "none"))

RetryCount(t) ==
    /\ At(t, "retry_count")
    /\ out' = [out EXCEPT
                 !.cur_sec = IF out.retries = 0 THEN @ ELSE Smaller(2 * @, MaxRetrySec),
                 !.retries = @ + 1]
    /\ Move(Call(stack, t, "retry_spawn", "impl_stop", "none"))

RetrySpawn(t, held) ==
    /\ At(t, "retry_spawn")
    /\ \/ /\ Spawn(Return(stack, t), held, "reconnect_thread", "joinable")
          /\ out' = [out EXCEPT !.stop_code = "DISCONNECTED", !.reconnect_thread = Fresh(held)]
       \/ /\ SpawnFails(Return(stack, t))
          /\ out' = [out EXCEPT !.stop_code = "DISCONNECTED", !.unmade = TRUE]

----------------------------------------------------------------------------
(***************************************************************************)
(* The interface: mgw_output_start once the source is there, and           *)
(* mgw_stream_release_output, which stops the output and gives up its last *)
(* reference.  An output whose source never came is released unstarted.    *)
(***************************************************************************)
ApiStart ==
    /\ At(Api, "created")
    /\ out' = [out EXCEPT !.stopping_event = TRUE]
    /\ Move(Call(stack, Api, "started", "actual_start", "none"))

ApiStop ==
    /\ Releases
    /\ At(Api, "created") \/ At(Api, "started")
    /\ Move(IF out.actived THEN Call(stack, Api, "destroy", "actual_stop", "none")
                           ELSE Jump(stack, Api, "destroy"))
    /\ UNCHANGED out

(***************************************************************************)
(* mgw_output_destroy.                                                     *)
(***************************************************************************)
Destroy ==
    /\ At(Api, "destroy")
    /\ Move(IF out.actived THEN Call(stack, Api, "destroy_wait", "actual_stop", "none")
                           ELSE Jump(stack, Api, "destroy_wait"))
    /\ UNCHANGED out

DestroyImpl ==
    /\ At(Api, "destroy_wait")
    /\ out.stopping_event
    /\ Move(Call(stack, Api, "destroy_free", "impl_destroy", "none"))
    /\ UNCHANGED out

DestroyFree ==
    /\ At(Api, "destroy_free")
    /\ out' = [out EXCEPT !.freed = TRUE]
    /\ Exit(Api)

OutputStep(t, held, steady) ==
    \/ StartWait(t) \/ StartImpl(t) \/ StartActived(t)
    \/ StopReset(t) \/ StopReconnect(t) \/ StopActive(t) \/ StopJoin(t)
    \/ StopSignal(t) \/ StopActived(t)
    \/ ReconnectBegin(t) \/ DelayWait(t) \/ DelayExpires(t, steady)
    \/ ReconnectOver(t) \/ ReconnectDetach(t) \/ ReconnectEnd(t) \/ StopThread(t)
    \/ SignalStop(t) \/ SignalDecide(t) \/ SignalSpawn(t, held) \/ SignalEvent(t)
    \/ SignalActived(t)
    \/ RetryFirst(t) \/ RetryBudget(t, held) \/ RetryMark(t) \/ RetryReset(t)
    \/ RetryCount(t) \/ RetrySpawn(t, held)

----------------------------------------------------------------------------
(***************************************************************************)
(* The points of this module's calls.                                      *)
(***************************************************************************)
OutputPoints ==
    {"created", "started", "actual_start", "start_waits", "start_impl",
     "start_actived", "actual_stop", "stop_reconnect", "stop_active", "stop_join",
     "stop_signal", "stop_actived", "reconnect_thread", "delay", "delay_waits",
     "delay_over", "reconnect_detach", "reconnect_end", "stop_thread", "signal_stop", "can_reconnect",
     "signal_spawn", "signal_event", "signal_actived", "output_reconnect",
     "retry_budget", "retry_mark", "retry_reset", "retry_count", "retry_spawn",
     "destroy", "destroy_wait", "destroy_free", "impl_start", "impl_stop",
     "impl_destroy"}

(***************************************************************************)
(* The type of the threads, whose calls are at the given points, and of    *)
(* the output.                                                             *)
(***************************************************************************)
OutputTypeOK(points, roles) ==
    /\ stack \in [Tids -> Seq([at : points, val : Codes \cup {"none"}, join : Tids])]
    /\ life \in [Tids -> {"none", "joinable", "detached", "zombie"}]
    /\ role \in [Tids -> {"none", "api", "reconnect_thread", "stop_thread"} \cup roles]
    /\ out \in [actived : BOOLEAN, stop_code : Codes, reconnecting : BOOLEAN,
                retries : Nat, cur_sec : 0 .. MaxRetrySec, thread_active : BOOLEAN,
                reconnect_thread : Tids, stopping_event : BOOLEAN,
                reconnect_stop_event : BOOLEAN, freed : BOOLEAN, unmade : BOOLEAN]

(***************************************************************************)
(* output_reconnect: whatever threads report failures, and in whatever     *)
(* order, while the output is kept the retries stay within                 *)
(* reconnect_retry_max and the delay is the first one doubled for every    *)
(* retry made, up to MAX_RETRY_SEC.                                        *)
(***************************************************************************)
RetryLadder ==
    Kept /\ out.retries > 0 =>
        /\ out.retries <= RetryMax
        /\ out.cur_sec = Smaller(RetrySec * 2 ^ (out.retries - 1), MaxRetrySec)

(***************************************************************************)
(* Thread t reports a loss that output_reconnect has a retry left for.     *)
(***************************************************************************)
Retriable(t) ==
    /\ At(t, "signal_stop")
    /\ IF out.reconnecting THEN Val(t) # "SUCCESS" /\ out.retries < RetryMax
                           ELSE Val(t) = "DISCONNECTED" /\ RetryMax # 0

(***************************************************************************)
(* What mgw.h says of mgw_output_release, when the last reference is       *)
(* released the output is destroyed, needs that its mgw_output_stop gets   *)
(* to its end.                                                             *)
(***************************************************************************)
StopReturns ==
    At(Api, "actual_stop") ~> (At(Api, "destroy") \/ At(Api, "destroy_wait"))
============================================================================
