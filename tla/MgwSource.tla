----------------------------- MODULE MgwSource -----------------------------
(***************************************************************************)
(* A source of mgw-core that pulls its packets (core-api/mgw-source.c):    *)
(* start, stop, the reconnect thread, the stop signal of the               *)
(* implementation, and destruction.  A private source has no               *)
(* implementation and none of these threads.                               *)
(*                                                                         *)
(* The implementation is reached through info.start, info.stop and         *)
(* info.destroy: frames at "impl_start", "impl_stop" and "impl_destroy",   *)
(* executed by the module of the implementation.                           *)
(***************************************************************************)
EXTENDS Threads

CONSTANTS
    RetryMax,       \* reconnect_retry_max (MGW_SOURCE_RETRY_MAX)
    RetrySec,       \* reconnect_retry_sec (MGW_SOURCE_RETRY_SEC)
    MaxRetrySec     \* MAX_RETRY_SEC

ASSUME SourceAssumption ==
    /\ RetryMax \in Nat
    /\ RetrySec \in Nat \ {0}
    /\ MaxRetrySec \in Nat /\ RetrySec <= MaxRetrySec

VARIABLE source     \* the fields of struct mgw_source, and whether it is freed

Codes == {"SUCCESS", "DISCONNECTED"}    \* what this implementation reports

(***************************************************************************)
(* mgw_source_create_internal and mgw_source_init, for a source that gets  *)
(* its buffer and its implementation.  Ghosts: the source is freed, and a  *)
(* thread that was to connect it could not be made.                        *)
(***************************************************************************)
SourceInit ==
    /\ ThreadsInit("created")
    /\ source = [actived |-> FALSE, stop_code |-> "SUCCESS", reconnecting |-> FALSE,
                 retries |-> 0, cur_sec |-> 0, thread_active |-> FALSE,
                 reconnect_thread |-> Api, stopping_event |-> FALSE,
                 reconnect_stop_event |-> FALSE, freed |-> FALSE, unmade |-> FALSE]

(***************************************************************************)
(* The owner of the source has not begun to release it.                    *)
(***************************************************************************)
Kept == stack[Api] # <<>> /\ stack[Api][Len(stack[Api])].at \in {"created", "started"}

----------------------------------------------------------------------------
(***************************************************************************)
(* mgw_source_start.  Nothing resets stopping_event, so a wait for it ends *)
(* when it was ever signalled.                                             *)
(***************************************************************************)
SourceStart(t) ==
    /\ At(t, "source_start")
    /\ Move(IF source.actived THEN Call(stack, t, "start_restart", "source_stop", "none")
                              ELSE Jump(stack, t, "start_mark"))
    /\ UNCHANGED source

StartRestart(t) ==
    /\ At(t, "start_restart")
    /\ source.stopping_event
    /\ source' = [source EXCEPT !.stop_code = "SUCCESS", !.actived = FALSE]
    /\ Move(Jump(stack, t, "start_mark"))

StartMark(t) ==
    /\ At(t, "start_mark")
    /\ source' = [source EXCEPT !.actived = TRUE]
    /\ Move(Jump(stack, t, "start_wait"))

StartWait(t) ==
    /\ At(t, "start_wait")
    /\ source.reconnecting => source.stopping_event
    /\ Move(Call(stack, t, "start_actived", "impl_start", "none"))
    /\ UNCHANGED source

StartActived(t) ==
    /\ At(t, "start_actived")
    /\ source' = [source EXCEPT !.actived = (Val(t) = "SUCCESS")]
    /\ Move(Return(stack, t))

(***************************************************************************)
(* mgw_source_stop.                                                        *)
(***************************************************************************)
SourceStop(t) ==
    /\ At(t, "source_stop")
    /\ Move(IF source.actived THEN Call(stack, t, "stop_signal", "impl_stop", "none")
                              ELSE Jump(stack, t, "stop_actived"))
    /\ UNCHANGED source

StopSignal(t) ==
    /\ At(t, "stop_signal")
    /\ source' = [source EXCEPT !.stopping_event = TRUE, !.stop_code = "SUCCESS"]
    /\ Move(Jump(stack, t, "stop_actived"))

StopActived(t) ==
    /\ At(t, "stop_actived")
    /\ source' = [source EXCEPT !.actived = FALSE]
    /\ Move(Return(stack, t))

(***************************************************************************)
(* reconnect_thread.  Its delay, of seconds, outlasts what other threads   *)
(* have under way: it expires when each of them waits, has nothing to do,  *)
(* or belongs to `steady', the threads at their daily work.                *)
(***************************************************************************)
Waits(t) ==
    \/ At(t, "started") \/ At(t, "delay")
    \/ Joined(t) # Api /\ life[Joined(t)] = "joinable"

ReconnectBegin(t) ==
    /\ At(t, "reconnect_thread")
    /\ source' = [source EXCEPT !.thread_active = TRUE]
    /\ Move(Jump(stack, t, "delay"))

\* mutant: the event is not there to be waited for, the delay is none.
DelayOver_AtOnce(t, steady) ==
    /\ At(t, "delay")
    /\ Move(IF source.reconnect_stop_event THEN Jump(stack, t, "delay_over")
            ELSE Call(stack, t, "delay_over", "source_start", "none"))
    /\ UNCHANGED source

\* mutant: the test of os_event_timedwait inverted, a time-out gives up.
DelayOver_GivesUp(t, steady) ==
    /\ At(t, "delay")
    /\ Move(Jump(stack, t, "delay_over"))
    /\ UNCHANGED source

DelayOver(t, steady) ==
    /\ At(t, "delay")
    /\ IF source.reconnect_stop_event
       THEN Move(Jump(stack, t, "delay_over"))
       ELSE /\ \A u \in Running \ {t} : u \in steady \/ Waits(u)
            /\ Move(Call(stack, t, "delay_over", "source_start", "none"))
    /\ UNCHANGED source

ReconnectOver(t) ==
    /\ At(t, "delay_over")
    /\ IF source.reconnect_stop_event
       THEN /\ source' = [source EXCEPT !.reconnecting = FALSE]
            /\ Move(Jump(stack, t, "reconnect_end"))
       ELSE /\ Detach(Jump(stack, t, "reconnect_end"), source.reconnect_thread)
            /\ UNCHANGED source

ReconnectEnd(t) ==
    /\ At(t, "reconnect_end")
    /\ source' = [source EXCEPT !.thread_active = FALSE]
    /\ Exit(t)

(***************************************************************************)
(* stop_thread reports to the stream and ends; it is created detached.     *)
(***************************************************************************)
StopThread(t) ==
    /\ At(t, "stop_thread")
    /\ Exit(t)
    /\ UNCHANGED source

SpawnStopThread(s, held) == Spawn(s, held, "stop_thread", "detached") \/ SpawnFails(s)

----------------------------------------------------------------------------
(***************************************************************************)
(* signal_stop: the implementation reports the code of its frame.          *)
(***************************************************************************)
SignalStop(t) ==
    /\ At(t, "signal_stop")
    /\ source' = [source EXCEPT !.stop_code = Val(t)]
    /\ Move(Jump(stack, t, "can_reconnect"))

can_reconnect ==
    \/ source.reconnecting /\ source.stop_code # "SUCCESS"
    \/ RetryMax # 0 /\ source.stop_code = "DISCONNECTED"

SignalDecide(t) ==
    /\ At(t, "can_reconnect")
    /\ Move(Jump(stack, t, IF can_reconnect THEN "source_reconnect" ELSE "signal_spawn"))
    /\ UNCHANGED source

SignalSpawn(t, held) ==
    /\ At(t, "signal_spawn")
    /\ IF ~source.reconnecting /\ source.actived
       THEN SpawnStopThread(Jump(stack, t, "signal_event"), held)
       ELSE Move(Jump(stack, t, "signal_event"))
    /\ UNCHANGED source

SignalEvent(t) ==
    /\ At(t, "signal_event")
    /\ source' = [source EXCEPT !.stopping_event = TRUE]
    /\ Move(Jump(stack, t, "signal_actived"))

SignalActived(t) ==
    /\ At(t, "signal_actived")
    /\ source' = [source EXCEPT !.actived = FALSE]
    /\ Move(Return(stack, t))

(***************************************************************************)
(* source_reconnect.  pthread_create returns a positive error number, so   *)
(* its test `ret < 0' never takes a failure for one.                       *)
(***************************************************************************)
RetryFirst(t) ==
    /\ At(t, "source_reconnect")
    /\ source' = IF source.reconnecting THEN source
                 ELSE [source EXCEPT !.cur_sec = RetrySec, !.retries = 0]
    /\ Move(Jump(stack, t, "retry_budget"))

\* mutant: > in place of >=.
RetryBudget_OneMore(t, held) ==
    /\ At(t, "retry_budget")
    /\ IF source.retries > RetryMax
       THEN /\ source' = [source EXCEPT !.stop_code = "DISCONNECTED", !.reconnecting = FALSE]
            /\ SpawnStopThread(Return(stack, t), held)
       ELSE /\ Move(Jump(stack, t, "retry_mark"))
            /\ UNCHANGED source

RetryBudget(t, held) ==
    /\ At(t, "retry_budget")
    /\ IF source.retries >= RetryMax
       THEN /\ source' = [source EXCEPT !.stop_code = "DISCONNECTED", !.reconnecting = FALSE]
            /\ SpawnStopThread(Return(stack, t), held)
       ELSE /\ Move(Jump(stack, t, "retry_mark"))
            /\ UNCHANGED source

RetryMark(t) ==
    /\ At(t, "retry_mark")
    /\ source' = [source EXCEPT !.reconnecting = TRUE,
                                !.reconnect_stop_event = source.reconnecting /\ @]
    /\ Move(Jump(stack, t, "retry_count"))

\* mutant: the delay is not cut at MAX_RETRY_SEC.
RetryCount_Uncut(t) ==
    /\ At(t, "retry_count")
    /\ source' = [source EXCEPT !.cur_sec = IF source.retries = 0 THEN @ ELSE 2 * @,
                                !.retries = @ + 1]
    /\ Move(Call(stack, t, "retry_spawn", "impl_stop", "none"))

RetryCount(t) ==
    /\ At(t, "retry_count")
    /\ source' = [source EXCEPT
                    !.cur_sec = IF source.retries = 0 THEN @
                                ELSE IF 2 * @ > MaxRetrySec THEN MaxRetrySec ELSE 2 * @,
                    !.retries = @ + 1]
    /\ Move(Call(stack, t, "retry_spawn", "impl_stop", "none"))

RetrySpawn(t, held) ==
    /\ At(t, "retry_spawn")
    /\ \/ /\ Spawn(Return(stack, t), held, "reconnect_thread", "joinable")
          /\ source' = [source EXCEPT !.stop_code = "DISCONNECTED",
                                      !.reconnect_thread = Fresh(held)]
       \/ /\ SpawnFails(Return(stack, t))
          /\ source' = [source EXCEPT !.stop_code = "DISCONNECTED", !.unmade = TRUE]

----------------------------------------------------------------------------
(***************************************************************************)
(* mgw_stream_add_source starts the source; mgw_stream_release_source      *)
(* gives up its last reference, and mgw_source_destroy takes it down.      *)
(***************************************************************************)
ApiStart ==
    /\ At(Api, "created")
    /\ Move(Call(stack, Api, "started", "source_start", "none"))
    /\ UNCHANGED source

ApiRelease ==
    /\ At(Api, "started")
    /\ Move(Jump(stack, Api, "destroy"))
    /\ UNCHANGED source

Destroy ==
    /\ At(Api, "destroy")
    /\ Move(IF source.actived THEN Call(stack, Api, "destroy_impl", "source_stop", "none")
                              ELSE Jump(stack, Api, "destroy_impl"))
    /\ UNCHANGED source

DestroyImpl ==
    /\ At(Api, "destroy_impl")
    /\ Move(Call(stack, Api, "destroy_free", "impl_destroy", "none"))
    /\ UNCHANGED source

DestroyFree ==
    /\ At(Api, "destroy_free")
    /\ source' = [source EXCEPT !.freed = TRUE]
    /\ Exit(Api)

SourceStep(t, held, steady) ==
    \/ SourceStart(t) \/ StartRestart(t) \/ StartMark(t) \/ StartWait(t) \/ StartActived(t)
    \/ SourceStop(t) \/ StopSignal(t) \/ StopActived(t)
    \/ ReconnectBegin(t) \/ DelayOver(t, steady) \/ ReconnectOver(t) \/ ReconnectEnd(t)
    \/ StopThread(t)
    \/ SignalStop(t) \/ SignalDecide(t) \/ SignalSpawn(t, held) \/ SignalEvent(t)
    \/ SignalActived(t)
    \/ RetryFirst(t) \/ RetryBudget(t, held) \/ RetryMark(t) \/ RetryCount(t)
    \/ RetrySpawn(t, held)

----------------------------------------------------------------------------
SourcePoints ==
    {"created", "started", "source_start", "start_restart", "start_mark", "start_wait",
     "start_actived", "source_stop", "stop_signal", "stop_actived", "reconnect_thread",
     "delay", "delay_over", "reconnect_end", "stop_thread", "signal_stop", "can_reconnect",
     "signal_spawn", "signal_event", "signal_actived", "source_reconnect", "retry_budget",
     "retry_mark", "retry_count", "retry_spawn", "destroy", "destroy_impl", "destroy_free",
     "impl_start", "impl_stop", "impl_destroy"}

(***************************************************************************)
(* The type of the threads, whose calls are at the given points, and of    *)
(* the source.                                                             *)
(***************************************************************************)
SourceTypeOK(points, roles) ==
    /\ stack \in [Tids -> Seq([at : points, val : Codes \cup {"none", "FAILED"}, join : Tids])]
    /\ life \in [Tids -> {"none", "joinable", "detached", "zombie"}]
    /\ role \in [Tids -> {"none", "api", "reconnect_thread", "stop_thread"} \cup roles]
    /\ source \in [actived : BOOLEAN, stop_code : Codes, reconnecting : BOOLEAN,
                   retries : Nat, cur_sec : 0 .. MaxRetrySec,
                   thread_active : BOOLEAN, reconnect_thread : Tids,
                   stopping_event : BOOLEAN, reconnect_stop_event : BOOLEAN,
                   freed : BOOLEAN, unmade : BOOLEAN]

(***************************************************************************)
(* source_reconnect: while the source is kept, the retries stay within     *)
(* reconnect_retry_max and the delay is the first one doubled for every    *)
(* retry after the first, up to MAX_RETRY_SEC.                             *)
(***************************************************************************)
RetryLadder ==
    Kept /\ source.retries > 0 =>
        /\ source.retries <= RetryMax
        /\ source.cur_sec = LET d == RetrySec * 2 ^ (source.retries - 1)
                            IN  IF d < MaxRetrySec THEN d ELSE MaxRetrySec

(***************************************************************************)
(* mgw_source_destroy: a release that has begun takes the source down,     *)
(* whatever threads it has to wait for.                                    *)
(***************************************************************************)
ReleaseReturns == At(Api, "destroy") ~> source.freed
============================================================================
