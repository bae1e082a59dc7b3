------------------------------ MODULE WsClient ------------------------------
(***************************************************************************)
(* The registration of the gateway and its web socket to the message       *)
(* server (message/message.cc, message/ws-client.c).                       *)
(*                                                                         *)
(* Two threads share the client: main, which registers, sends and in the   *)
(* end destroys, and the loop thread, which services the socket, so that   *)
(* every callback of libwebsockets runs on it.  There is one send buffer.  *)
(* The semaphore snd_sem is its slot: a sender takes it, fills the buffer  *)
(* and asks for a writeable callback, and that callback gives it back.     *)
(* What a thread does while it holds client->mutex is one step.            *)
(***************************************************************************)
EXTENDS Naturals, Sequences, FiniteSets

CONSTANTS
    Addresses,      \* the senders of text messages
    RecordDestMax,  \* RECORD_DEST_MAX: how many of them are recorded
    RecordNodeMax,  \* RECORD_NODE_MAX: how many message numbers of each
    RepeatedGapMax, \* REPEATED_GAP_MAX, in seconds
    Now,            \* time(NULL) while the messages arrive
    MaxMsgNo,       \* bound: the largest number of a received text message
    MaxReceived,    \* bound: how many messages the server sends
    MaxSends,       \* bound: how many messages main sends
    MaxFaults       \* bound: how often a connection is refused or lost

ASSUME WsClientAssumption ==
    /\ RecordDestMax \in Nat \ {0} /\ RecordNodeMax \in Nat \ {0}
    /\ MaxMsgNo \in Nat /\ MaxReceived \in Nat /\ MaxSends \in Nat /\ MaxFaults \in Nat
    /\ Now \in Nat /\ RepeatedGapMax \in Nat /\ Now > RepeatedGapMax

VARIABLES
    main,   \* the point main has reached
    loop,   \* the point the loop thread has reached
    client, \* the fields of struct ws_client that the threads share
    net,    \* libwebsockets: the connection, what was asked of it, what it wrote
    record, \* client->record: the used entries, in order
    used    \* how much of each bound is used, and whether the client was stopped

vars == <<main, loop, client, net, record, used>>

(***************************************************************************)
(* What the server may send.  A text is a command to start an output of a  *)
(* device with a stream ("known") or without one ("new"), a command to     *)
(* start a source ("srcaddr"), or nothing that can be parsed ("bad").      *)
(***************************************************************************)
Texts == [cmd : {"known", "new", "srcaddr", "bad"}, ack : BOOLEAN,
          addr : Addresses, no : 0 .. MaxMsgNo]
Controls == {"nop", "ping", "pong_authen", "pong_unauthen", "unauthor", "authen_res"}

Waits == {"auth_wait", "reauth_wait", "pong_wait", "resp_wait", "ping_wait"}
Fills == {"auth_fill", "reauth_fill", "pong_fill", "resp_fill", "ping_fill"}
LoopPoints == Waits \cup Fills \cup
    {"none", "check", "service", "heartbeat", "left", "detached", "ended", "gone"}
MainPoints == {"access", "authen", "register", "create", "start", "refused", "idle",
               "send_wait", "send_check", "send_fill", "destroy", "join", "freed", "aborted"}

TypeOK ==
    /\ main \in MainPoints
    /\ loop \in LoopPoints
    /\ client \in [sem : 0 .. 1, buffer : {"none", "authen", "ping", "pong", "resp", "text"},
                   sized : BOOLEAN, snd_req : BOOLEAN, actived : BOOLEAN, looping : BOOLEAN,
                   stop_event : BOOLEAN, token : BOOLEAN]
    /\ net \in [wsi : {"none", "connecting", "up"}, want : BOOLEAN, sul : BOOLEAN,
                first : {"none", "authen", "ping", "pong", "resp", "text"}]
    /\ Len(record) <= RecordDestMax
    /\ \A i \in DOMAIN record : record[i].addr \in Addresses
    /\ used.received <= MaxReceived /\ used.sends <= MaxSends /\ used.faults <= MaxFaults

Init ==
    /\ main = "access" /\ loop = "none"
    /\ client = [sem |-> 0, buffer |-> "none", sized |-> FALSE, snd_req |-> FALSE,
                 actived |-> FALSE, looping |-> FALSE, stop_event |-> FALSE, token |-> FALSE]
    /\ net = [wsi |-> "none", want |-> FALSE, sul |-> FALSE, first |-> "none"]
    /\ record = <<>>
    /\ used = [received |-> 0, sends |-> 0, faults |-> 0, stopped |-> FALSE]

----------------------------------------------------------------------------
(***************************************************************************)
(* Message::RegisterWrap: three requests in order.  One whose answer is    *)
(* empty ends it; the answer to the second brings the access token.        *)
(***************************************************************************)
Refused(at) == main = at /\ main' = "refused" /\ UNCHANGED <<loop, client, net, record, used>>

AccessRequest ==
    \/ Refused("access")
    \/ main = "access" /\ main' = "authen" /\ UNCHANGED <<loop, client, net, record, used>>

AuthenRequest ==
    \/ Refused("authen")
    \/ /\ main = "authen" /\ main' = "register"
       /\ \E ok \in BOOLEAN : client' = [client EXCEPT !.token = ok]
       /\ UNCHANGED <<loop, net, record, used>>

RegisterInternal ==
    \/ Refused("register")
    \/ main = "register" /\ main' = "create" /\ UNCHANGED <<loop, client, net, record, used>>

(***************************************************************************)
(* InitMessageEnv: wsclient_create gives the slot out as its last act, and *)
(* wsclient_start has the first connection scheduled before the loop runs. *)
(* When creation fails there main is left with nothing to join and ends.   *)
(***************************************************************************)
WsCreate ==
    /\ main = "create" /\ main' = "start"
    /\ client' = [client EXCEPT !.sem = @ + 1]
    /\ UNCHANGED <<loop, net, record, used>>

WsStart ==
    /\ main = "start"
    /\ net' = [net EXCEPT !.sul = TRUE]
    /\ client' = [client EXCEPT !.looping = TRUE]
    /\ \/ main' = "idle" /\ loop' = "check"
       \/ main' = "refused" /\ UNCHANGED loop
    /\ UNCHANGED <<record, used>>

----------------------------------------------------------------------------
(***************************************************************************)
(* Message::SendMessage, which is wsclient_send.  A sender that finds the  *)
(* connection down has taken the slot and reports success.  A request on a *)
(* connection that is not up may be lost.                                  *)
(***************************************************************************)
Requested(now) == {n \in {[now EXCEPT !.want = b] : b \in BOOLEAN} : now.wsi = "up" => n.want}

Filled(now, what, sized) == [now EXCEPT !.buffer = what, !.sized = sized, !.snd_req = TRUE]

SendCall ==
    /\ main = "idle" /\ used.sends < MaxSends
    /\ main' = "send_wait"
    /\ used' = [used EXCEPT !.sends = @ + 1]
    /\ UNCHANGED <<loop, client, net, record>>

SendTake ==
    /\ main = "send_wait" /\ client.sem > 0
    /\ client' = [client EXCEPT !.sem = @ - 1]
    /\ main' = "send_check"
    /\ UNCHANGED <<loop, net, record, used>>

SendCheck ==
    /\ main = "send_check"
    /\ main' = IF client.actived THEN "send_fill" ELSE "idle"
    /\ UNCHANGED <<loop, client, net, record, used>>

SendFill_Posts ==
    /\ main = "send_fill" /\ main' = "idle"
    /\ client' = [Filled(client, "text", TRUE) EXCEPT !.sem = @ + 1]
    /\ net' \in Requested(net)
    /\ UNCHANGED <<loop, record, used>>

SendFill ==
    /\ main = "send_fill" /\ main' = "idle"
    /\ client' = Filled(client, "text", TRUE)
    /\ net' \in Requested(net)
    /\ UNCHANGED <<loop, record, used>>

WsStop ==
    /\ main = "idle" /\ ~client.stop_event
    /\ client' = [client EXCEPT !.stop_event = TRUE]
    /\ used' = [used EXCEPT !.stopped = TRUE]
    /\ UNCHANGED <<main, loop, net, record>>

(***************************************************************************)
(* The destructor of Message: wsclient_destroy joins the loop only when it *)
(* is the one that tells it to stop.  A join of a thread that detached     *)
(* itself, or that never was, returns at once.                             *)
(***************************************************************************)
WsDestroy ==
    /\ main = "idle"
    /\ IF client.stop_event
       THEN main' = "freed" /\ UNCHANGED client
       ELSE main' = "join" /\ client' = [client EXCEPT !.stop_event = TRUE]
    /\ UNCHANGED <<loop, net, record, used>>

WsJoin_Skipped ==
    /\ main = "join" /\ main' = "freed"
    /\ UNCHANGED <<loop, client, net, record, used>>

WsJoin ==
    /\ main = "join" /\ loop \in {"detached", "ended", "gone"}
    /\ main' = "freed"
    /\ UNCHANGED <<loop, client, net, record, used>>

----------------------------------------------------------------------------
(***************************************************************************)
(* loop_thread.                                                            *)
(***************************************************************************)
Alive == main \notin {"aborted"}

LoopCheck ==
    /\ Alive /\ loop = "check"
    /\ loop' = IF client.looping /\ ~client.stop_event THEN "service" ELSE "left"
    /\ UNCHANGED <<main, client, net, record, used>>

(***************************************************************************)
(* The heartbeat comes after each service call; it is skipped while a      *)
(* message is on its way or the interval has not passed.                   *)
(***************************************************************************)
Heartbeat ==
    /\ Alive /\ loop = "heartbeat"
    /\ \/ loop' = "check"
       \/ client.actived /\ ~client.snd_req /\ loop' = "ping_wait"
    /\ UNCHANGED <<main, client, net, record, used>>

LoopLeft ==
    /\ Alive /\ loop = "left"
    /\ loop' = IF client.looping THEN "detached" ELSE "ended"
    /\ UNCHANGED <<main, client, net, record, used>>

LoopEnd ==
    /\ Alive /\ loop \in {"detached", "ended"}
    /\ client' = [client EXCEPT !.stop_event = FALSE, !.looping = FALSE, !.actived = FALSE]
    /\ loop' = "gone"
    /\ UNCHANGED <<main, net, record, used>>

(***************************************************************************)
(* The callbacks of one service call, or none.                             *)
(***************************************************************************)
ServiceIdle ==
    /\ Alive /\ loop = "service" /\ loop' = "heartbeat"
    /\ UNCHANGED <<main, client, net, record, used>>

(***************************************************************************)
(* try_connect: a connection that cannot be begun is tried again later.    *)
(***************************************************************************)
TryConnect ==
    /\ Alive /\ loop = "service" /\ net.sul /\ net.wsi = "none"
    /\ \/ /\ net' = [net EXCEPT !.wsi = "connecting", !.sul = FALSE, !.want = FALSE,
                                !.first = "none"]
          /\ UNCHANGED used
       \/ /\ used.faults < MaxFaults
          /\ used' = [used EXCEPT !.faults = @ + 1]
          /\ UNCHANGED net
    /\ loop' = "heartbeat"
    /\ UNCHANGED <<main, client, record>>

(***************************************************************************)
(* request_authorization is refused for a token of the wrong length.       *)
(***************************************************************************)
Authorize(wait, otherwise) == loop' = IF client.token THEN wait ELSE otherwise

Established_ActiveFirst ==
    /\ Alive /\ loop = "service" /\ net.wsi = "connecting"
    /\ net' = [net EXCEPT !.wsi = "up"]
    /\ loop' = "heartbeat"
    /\ client' = [client EXCEPT !.actived = TRUE]
    /\ UNCHANGED <<main, record, used>>

Established ==
    /\ Alive /\ loop = "service" /\ net.wsi = "connecting"
    /\ net' = [net EXCEPT !.wsi = "up"]
    /\ Authorize("auth_wait", "heartbeat")
    /\ client' = IF client.token THEN client ELSE [client EXCEPT !.actived = TRUE]
    /\ UNCHANGED <<main, record, used>>

(***************************************************************************)
(* CLIENT_CONNECTION_ERROR and CLIENT_CLOSED end in the same retry.        *)
(***************************************************************************)
Lost_Forgets ==
    /\ Alive /\ loop = "service" /\ net.wsi # "none" /\ used.faults < MaxFaults
    /\ client' = [client EXCEPT !.actived = FALSE]
    /\ net' = [net EXCEPT !.wsi = "none", !.want = FALSE]
    /\ used' = [used EXCEPT !.faults = @ + 1]
    /\ loop' = "heartbeat"
    /\ UNCHANGED <<main, record>>

Lost ==
    /\ Alive /\ loop = "service" /\ net.wsi # "none" /\ used.faults < MaxFaults
    /\ client' = [client EXCEPT !.actived = FALSE]
    /\ net' = [net EXCEPT !.wsi = "none", !.want = FALSE, !.sul = TRUE]
    /\ used' = [used EXCEPT !.faults = @ + 1]
    /\ loop' = "heartbeat"
    /\ UNCHANGED <<main, record>>

Writeable_Again ==
    /\ Alive /\ loop = "service" /\ net.wsi = "up" /\ net.want
    /\ loop' = "heartbeat"
    /\ UNCHANGED <<main, client, net, record, used>>

Writeable ==
    /\ Alive /\ loop = "service" /\ net.wsi = "up" /\ net.want
    /\ net' = [net EXCEPT !.want = FALSE,
                          !.first = IF client.sized /\ @ = "none" THEN client.buffer ELSE @]
    /\ client' = IF client.sized
                 THEN [client EXCEPT !.sized = FALSE, !.buffer = "none", !.sem = @ + 1,
                                     !.snd_req = FALSE]
                 ELSE client
    /\ loop' = "heartbeat"
    /\ UNCHANGED <<main, record, used>>

(***************************************************************************)
(* receive_message for everything but a text.                              *)
(***************************************************************************)
ReceiveControl(kind) ==
    /\ Alive /\ loop = "service" /\ net.wsi = "up" /\ used.received < MaxReceived
    /\ CASE kind = "ping"                            -> loop' = "pong_wait"
         [] kind \in {"pong_unauthen", "unauthor"}   -> Authorize("reauth_wait", "heartbeat")
         [] OTHER                                    -> loop' = "heartbeat"
    /\ used' = [used EXCEPT !.received = @ + 1]
    /\ UNCHANGED <<main, client, net, record>>

(***************************************************************************)
(* repeated_message.  The address is compared with that of the first       *)
(* record, whichever record is looked at, so the first decides; the time   *)
(* compared is last_recv_ts, which is never written.                       *)
(***************************************************************************)
LastRecvTs == 0

Pos(no) == no % RecordNodeMax

KnownDest(rec, text) == rec # <<>> /\ rec[1].addr = text.addr

Repeated(rec, text) ==
    /\ KnownDest(rec, text)
    /\ rec[1].nos[Pos(text.no)] = text.no
    /\ Now - LastRecvTs < RepeatedGapMax

Recorded_Unbounded(rec, text) ==
    IF KnownDest(rec, text) THEN [rec EXCEPT ![1].nos[Pos(text.no)] = text.no]
    ELSE Append(rec, [addr |-> text.addr, nos |-> [p \in 0 .. RecordNodeMax - 1 |-> 0]])

Recorded(rec, text) ==
    IF KnownDest(rec, text) THEN [rec EXCEPT ![1].nos[Pos(text.no)] = text.no]
    ELSE IF Len(rec) = RecordDestMax THEN rec
    ELSE Append(rec, [addr |-> text.addr,
                      nos |-> [p \in 0 .. RecordNodeMax - 1 |-> IF p = Pos(text.no)
                                                                THEN text.no ELSE 0]])

(***************************************************************************)
(* Message::WSClientCallback.  To start an output of a device without a    *)
(* stream is to ask for a source, by SendMessage on this thread, and       *)
(* SerializeMessageToPb has no form for that request: it makes a string    *)
(* from NULL, which ends the process.                                      *)
(***************************************************************************)
ReceiveText(text) ==
    /\ Alive /\ loop = "service" /\ net.wsi = "up" /\ used.received < MaxReceived
    /\ record' = IF Repeated(record, text) THEN record ELSE Recorded(record, text)
    /\ used' = [used EXCEPT !.received = @ + 1]
    /\ loop' = IF text.ack /\ ~Repeated(record, text) THEN "resp_wait" ELSE "heartbeat"
    /\ main' = IF text.cmd = "new" /\ ~Repeated(record, text) THEN "aborted" ELSE main
    /\ UNCHANGED <<client, net>>

(***************************************************************************)
(* send_message and response_message on the loop thread: wait for the      *)
(* slot, then fill the buffer.  A response leaves snd_size as it was.      *)
(***************************************************************************)
FillOf(wait) == CASE wait = "auth_wait"   -> "auth_fill"
                  [] wait = "reauth_wait" -> "reauth_fill"
                  [] wait = "pong_wait"   -> "pong_fill"
                  [] wait = "resp_wait"   -> "resp_fill"
                  [] wait = "ping_wait"   -> "ping_fill"

LoopTake ==
    /\ Alive /\ loop \in Waits /\ client.sem > 0
    /\ client' = [client EXCEPT !.sem = @ - 1]
    /\ loop' = FillOf(loop)
    /\ UNCHANGED <<main, net, record, used>>

MessageFill(at, what) ==
    /\ Alive /\ loop = at
    /\ client' = Filled(client, what, TRUE)
    /\ net' \in Requested(net)
    /\ UNCHANGED <<main, record, used>>

AuthFill ==
    /\ Alive /\ loop = "auth_fill"
    /\ client' = [Filled(client, "authen", TRUE) EXCEPT !.actived = TRUE]
    /\ net' \in Requested(net)
    /\ loop' = "heartbeat"
    /\ UNCHANGED <<main, record, used>>

ReauthFill == MessageFill("reauth_fill", "authen") /\ loop' = "heartbeat"
PongFill   == MessageFill("pong_fill", "pong") /\ loop' = "heartbeat"
PingFill   == MessageFill("ping_fill", "ping") /\ loop' = "check"

ResponseFill ==
    /\ Alive /\ loop = "resp_fill"
    /\ client' = Filled(client, "resp", client.sized)
    /\ net' \in Requested(net)
    /\ loop' = "heartbeat"
    /\ UNCHANGED <<main, record, used>>

----------------------------------------------------------------------------
Register == AccessRequest \/ AuthenRequest \/ RegisterInternal \/ WsCreate \/ WsStart

Sending == SendCall \/ SendTake \/ SendCheck \/ SendFill

Service ==
    \/ ServiceIdle \/ TryConnect \/ Established \/ Lost \/ Writeable
    \/ \E kind \in Controls : ReceiveControl(kind)
    \/ \E text \in Texts : ReceiveText(text)

LoopOwn ==
    \/ LoopCheck \/ Heartbeat \/ LoopLeft \/ LoopEnd \/ LoopTake
    \/ AuthFill \/ ReauthFill \/ PongFill \/ PingFill \/ ResponseFill

Next == Register \/ Sending \/ WsStop \/ WsDestroy \/ WsJoin \/ Service \/ LoopOwn

Spec == Init /\ [][Next]_vars

(***************************************************************************)
(* Fairness.  Both threads run.  libwebsockets fires a timer that is due,  *)
(* completes a connection and calls back on a writeable one in some of the *)
(* service calls that come every two seconds.  The loop sleeps in between, *)
(* so a sender that waits gets a slot that is free again and again.        *)
(***************************************************************************)
Fairness ==
    /\ WF_vars(LoopOwn) /\ WF_vars(Service)
    /\ SF_vars(TryConnect) /\ SF_vars(Established) /\ SF_vars(Writeable)
    /\ SF_vars(SendTake) /\ WF_vars(SendCheck \/ SendFill) /\ WF_vars(WsJoin)

FairSpec == Spec /\ Fairness

----------------------------------------------------------------------------
Holders == {t \in {"main", "loop"} :
                IF t = "main" THEN main \in {"send_check", "send_fill"} ELSE loop \in Fills}

(***************************************************************************)
(* The slot of the send buffer is in at most one place: free, with one     *)
(* thread that fills the buffer, or with a message that waits to be        *)
(* written.  So no message is written over before it went out              *)
(* (ws-client.c, send_message, wsclient_send and CLIENT_WRITEABLE).        *)
(***************************************************************************)
SlotOnce == client.sem + Cardinality(Holders) + (IF client.sized THEN 1 ELSE 0) <= 1

(***************************************************************************)
(* What the server gets first on a connection is the request for           *)
(* authorization, whatever main sends while the connection comes up or is  *)
(* made again (lws_callback, CLIENT_ESTABLISHED).                          *)
(***************************************************************************)
AuthFirst == client.token => net.first \in {"none", "authen"}

(***************************************************************************)
(* wsclient_destroy frees a client it stopped itself only when the loop    *)
(* has left the service call, so that no callback runs on freed memory.    *)
(***************************************************************************)
NoCallbackAfterFree ==
    main = "freed" /\ ~used.stopped => loop \in {"detached", "ended", "gone"}

(***************************************************************************)
(* The memory of the client and its send buffer have one user at a time.   *)
(***************************************************************************)
MemoryIsHeld == TypeOK /\ SlotOnce /\ NoCallbackAfterFree

(***************************************************************************)
(* The three ways a sender is left waiting: the loop itself waits for the  *)
(* slot only the loop gives back; the slot went with a response that has   *)
(* no size, a message of a lost connection or a send while it was down;    *)
(* the loop has ended.                                                     *)
(***************************************************************************)
LoopStuck == loop \in Waits /\ client.sem = 0

SlotLost ==
    /\ client.sem = 0 /\ Holders = {}
    /\ ~(client.sized /\ net.want /\ net.wsi = "up")

LoopOver == loop \in {"none", "left", "detached", "ended", "gone"} \/ main = "aborted"

(***************************************************************************)
(* A call of wsclient_send returns, unless one of those three is so: while *)
(* the loop runs and the slot is on its way, it comes back.                *)
(***************************************************************************)
SendReturns ==
    main = "send_wait" ~> (main # "send_wait" \/ LoopStuck \/ SlotLost \/ LoopOver)

(***************************************************************************)
(* A connection that was refused or lost is made again, however often,     *)
(* as long as the loop runs and is not stuck (the retry of lws_callback    *)
(* and of try_connect).                                                    *)
(***************************************************************************)
Reconnects ==
    (net.wsi = "none" /\ loop = "service") ~>
        (net.wsi = "up" \/ LoopStuck \/ LoopOver \/ client.stop_event)

(***************************************************************************)
(* Neither a sender nor a lost connection waits for ever, but for those.   *)
(***************************************************************************)
Progresses == SendReturns /\ Reconnects
=============================================================================
