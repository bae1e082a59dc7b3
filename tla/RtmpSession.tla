----------------------------- MODULE RtmpSession ----------------------------
(***************************************************************************)
(* A publishing session of librtmp (rtmp.c) as rtmp-stream.c drives it:    *)
(* RTMP_Connect, the exchange of invokes RTMP_ConnectStream reads until    *)
(* the stream is published, RTMP_Write, RTMP_Close, and the same structure *)
(* used again for the next attempt.                                        *)
(*                                                                         *)
(* `r' is struct RTMP with the socket behind it.  A function of the        *)
(* library is an operator from the structure before to the structure after *)
(* it.  r.room is the number of writes the peer still takes, Many while    *)
(* the connection is healthy; a write that fails closes the session from   *)
(* inside, as WriteN does.  The peer answers invokes in any permitted way. *)
(***************************************************************************)
EXTENDS Integers, Sequences, SequencesExt, FiniteSets

CONSTANTS HasUser,      \* are a user name and a password configured
          Window,       \* m_nClientBW / 10, in packets
          Rooms,        \* how many writes a dying connection may still take
          MaxAttempts,  \* bound: calls of try_connect
          MaxAuth,      \* bound: times the peer refuses connect
          MaxExtra,     \* bound: packets the peer sends unasked and times it goes away
          MaxMedia      \* bound: calls of RTMP_Write in a session

Many == 99            \* room of a healthy connection
MaxIdx == 7           \* RTMP_MAX_STREAMS - 1

VARIABLES r,       \* struct RTMP
          pc,      \* where rtmp-stream stands: idle, reading, sending, crashed
          depth,   \* RTMP_ConnectStream calls below the outermost one
          recon,   \* output->reconnecting
          inbox,   \* packets on their way to the client
          eof,     \* the peer has closed
          count,   \* counters of the bounds
          ghost    \* what the properties remember

vars == <<r, pc, depth, recon, inbox, eof, count, ghost>>
client == <<r, pc, depth, recon, ghost>>

NoStreams == [i \in 0..MaxIdx |-> -1]

RTMP_Init ==
    [open |-> FALSE, playing |-> FALSE, ids |-> NoStreams, n |-> 0, cur |-> 0,
     calls |-> <<>>, inv |-> 0, bw |-> 0, in |-> 0, reported |-> 0, chunk |-> "default",
     app |-> "none", tcUrl |-> "none", alloc |-> FALSE, clate |-> FALSE, clean |-> FALSE,
     room |-> 0, out |-> <<>>, socks |-> 0, orphans |-> {}]
-----------------------------------------------------------------------------
(* RTMP_Close                                                              *)

(* Everything after the socket: ids, calls, counters; with RTMP_PUB_CLEAN  *)
(* also the streams and, if they were allocated, the application name and  *)
(* the URL, whose lengths stay.                                            *)
Forget_KeepsPlaying(s) ==
    [s EXCEPT !.open = FALSE, !.calls = <<>>, !.inv = 0, !.bw = 0, !.in = 0, !.reported = 0,
              !.out = <<>>, !.room = 0, !.ids = NoStreams]

Forget(s) ==
    LET a == [s EXCEPT !.open = FALSE, !.playing = FALSE, !.calls = <<>>, !.inv = 0,
                       !.bw = 0, !.in = 0, !.reported = 0, !.out = <<>>, !.room = 0,
                       !.ids = [i \in 0..MaxIdx |-> IF i < s.n THEN -1 ELSE @[i]]]
    IN  IF ~s.clean THEN a
        ELSE [a EXCEPT !.n = 0, !.cur = 0,
                       !.app = IF s.alloc THEN "freed" ELSE @,
                       !.tcUrl = IF s.alloc THEN "freed" ELSE @]

RTMPSockBuf_Close(s) == [s EXCEPT !.socks = @ - 1]

Msg(name, txn, sid) == [name |-> name, txn |-> txn, sid |-> sid]
Call(name, sid) == [name |-> name, sid |-> sid]

(* WriteN: k packets in a row get through if the peer takes as many.  The  *)
(* one that does not closes the session; nothing RTMP_Close then tries to  *)
(* send, nor a later write, gets through, so what is left is to forget.    *)
Takes(s, k) == s.open /\ (s.room = Many \/ s.room >= k)

WriteN(s, msgs) ==
    IF Takes(s, Len(msgs))
    THEN [s EXCEPT !.out = @ \o msgs, !.room = IF @ = Many THEN Many ELSE @ - Len(msgs)]
    ELSE Forget(IF s.open THEN RTMPSockBuf_Close(s) ELSE s)

(* AV_queue: invokes that wait for their results.                          *)
AV_queue(s, cs) == s.calls \o [i \in 1..Len(cs) |-> [name |-> cs[i].name, txn |-> s.inv + i]]

(* RTMP_SendPacket with invokes: ++m_numInvokes, write, queue.             *)
Invokes(s, cs, queue) ==
    LET w == WriteN(s, [i \in 1..Len(cs) |-> Msg(cs[i].name, s.inv + i, cs[i].sid)])
    IN  IF ~Takes(s, Len(cs)) THEN w
        ELSE [w EXCEPT !.inv = @ + Len(cs), !.calls = IF queue THEN AV_queue(s, cs) ELSE @]

SendReleaseStream == Call("releaseStream", 0)
SendFCPublish == Call("FCPublish", 0)
SendFCUnpublish == Call("FCUnpublish", 0)
RTMP_SendCreateStream == Call("createStream", 0)
SendPublish(s, i) == Call("publish", s.ids[i])
SendDeleteStream(id) == Call("deleteStream", id)
SendCheckBW == Call("_checkbw", 0)
SendCheckBWResult(s, txn) == WriteN([s EXCEPT !.bw = 1], <<Msg("_result", txn, 0)>>)
SendPong(s, txn) == WriteN(s, <<Msg("pong", txn, 0)>>)
RTMP_SendCtrl(s) == WriteN(s, <<Msg("ctrl", 0, 0)>>)
SendBytesReceived(s) == WriteN([s EXCEPT !.reported = s.in], <<Msg("bytes", 0, 0)>>)

Times(n, c) == [i \in 1..n |-> c]

(* A stream the server knows is unpublished and deleted before the socket  *)
(* is closed; ids beyond nStreams are left to the server (ghost orphans).  *)
Unpublish(s) ==
    LET known == {i \in 0..MaxIdx : i < s.n /\ s.ids[i] > 0}
        nth(k) == CHOOSE i \in known : Cardinality({j \in known : j <= i}) = k
        pair(k) == IF k % 2 = 1 THEN SendFCUnpublish ELSE SendDeleteStream(s.ids[nth(k \div 2)])
        u == Invokes(s, [k \in 1..(2 * Cardinality(known)) |-> pair(k)], FALSE)
    IN  IF u.open THEN [u EXCEPT !.ids = [i \in 0..MaxIdx |-> IF i < s.n THEN 0 ELSE @[i]]] ELSE u

(* The plausible slip: only the stream now being published is deleted.     *)
RTMP_Close_OnlyPlaying(s) ==
    LET u == IF s.playing THEN Unpublish(s) ELSE s
    IN  IF ~s.open THEN Forget(s)
        ELSE IF ~u.open THEN u
        ELSE [Forget(RTMPSockBuf_Close(u)) EXCEPT
                 !.orphans = @ \cup {i \in 0..MaxIdx : u.ids[i] > 0}]

(* The plausible slip: the socket stays open.                              *)
RTMP_Close_KeepsSocket(s) ==
    Forget(Unpublish(s))

RTMP_Close(s) ==
    LET u == Unpublish(s)
    IN  IF ~s.open THEN Forget(s)
        ELSE IF ~u.open THEN u
        ELSE [Forget(RTMPSockBuf_Close(u)) EXCEPT
                 !.orphans = @ \cup {i \in 0..MaxIdx : u.ids[i] > 0}]
-----------------------------------------------------------------------------
(* Connecting                                                              *)

(* The URL is cut into its parts.  tcUrl is only set while its length is 0.*)
RTMP_SetupURL(s) ==
    [s EXCEPT !.app = "plain", !.tcUrl = IF @ = "none" THEN "url" ELSE @]

(* Adds a stream behind those already there.                               *)
RTMP_AddStream(s) == [s EXCEPT !.ids[s.n] = -1, !.n = @ + 1]

(* A socket takes the place of the one in the structure, whatever that     *)
(* was; SO_RCVTIMEO bounds every read.                                     *)
RTMP_Connect0(s) == [s EXCEPT !.open = TRUE, !.room = Many, !.out = <<>>, !.socks = @ + 1]

(* The chunk size, then connect.  The URL is read: freed memory is a crash.*)
Crashes(s) == s.tcUrl = "freed" \/ s.app = "freed"

SendConnectPacket(s) == Invokes(WriteN(s, <<Msg("chunk", 0, 0)>>), <<Call("connect", 0)>>, TRUE)

(* add_addr_info, RTMP_Connect0 and HandShake may each fail: without a     *)
(* socket, with RTMP_Close, and with RTMP_Close.                           *)
Outcomes == {"unresolved", "refused", "no_handshake", "connected"}

RTMP_Connect1(s, how) ==
    IF how = "no_handshake" THEN RTMP_Close(s) ELSE SendConnectPacket(s)

RTMP_Connect(s, how) ==
    CASE how = "unresolved" -> s
      [] how = "refused"    -> RTMP_Close(RTMP_Connect0(s))
      [] OTHER              -> RTMP_Connect1(RTMP_Connect0(s), how)
-----------------------------------------------------------------------------
(* What the client makes of a packet                                       *)

Matching(s, txn) == {i \in 1..Len(s.calls) : s.calls[i].txn = txn}

(* The plausible slip: the entry behind the matching one goes.             *)
AV_erase_Next(s, i) ==
    [s EXCEPT !.calls = RemoveAt(@, IF i < Len(@) THEN i + 1 ELSE i)]

AV_erase(s, i) == [s EXCEPT !.calls = RemoveAt(@, i)]

EraseNamed(s, name) ==
    LET I == {i \in 1..Len(s.calls) : s.calls[i].name = name}
    IN  IF I = {} THEN s ELSE AV_erase(s, CHOOSE i \in I : \A j \in I : i <= j)

(* _result of connect: every stream is released, announced and created;    *)
(* a write that fails ends it all.                                         *)
ConnectResult(s) ==
    LET w == Invokes(s, Times(s.n, SendReleaseStream) \o Times(s.n, SendFCPublish), FALSE)
    IN  Invokes(w, Times(s.n, RTMP_SendCreateStream), TRUE)

(* The plausible slip: publish before the stream has its id.               *)
CreateStreamResult_PublishFirst(s, id) ==
    LET p == Invokes(s, <<SendPublish(s, s.cur)>>, TRUE)
    IN  [p EXCEPT !.ids[s.cur] = id, !.cur = @ + 1]

(* _result of createStream: the id goes to the next stream, which is       *)
(* published.                                                              *)
CreateStreamResult(s, id) ==
    LET e == [s EXCEPT !.ids[s.cur] = id]
        p == Invokes(e, <<SendPublish(e, s.cur)>>, TRUE)
    IN  [p EXCEPT !.cur = @ + 1]

HandleResult(s, m) ==
    IF Matching(s, m.txn) = {} THEN s
    ELSE LET i == CHOOSE i \in Matching(s, m.txn) : TRUE
             e == AV_erase(s, i)
         IN  CASE s.calls[i].name = "connect"      -> ConnectResult(e)
               [] s.calls[i].name = "createStream" -> CreateStreamResult(e, m.id)
               [] s.calls[i].name = "publish"      -> [e EXCEPT !.playing = TRUE]
               [] OTHER                            -> e

(* PublisherAuth: what the description in the error asks for decides.  The *)
(* name, then the answer to the challenge, are appended to the application *)
(* name and the URL; the old ones are freed if they were allocated here.   *)
(* Both schemes take the same steps.                                       *)
AuthFails(s) == [s EXCEPT !.clean = TRUE]

AuthName(s) ==
    IF s.app # "plain" \/ ~HasUser THEN AuthFails(s)
    ELSE [s EXCEPT !.app = "named", !.tcUrl = "named", !.alloc = TRUE]

AuthAnswer(s) ==
    [s EXCEPT !.app = "answered", !.tcUrl = "answered", !.alloc = TRUE, !.clate = TRUE]

PublisherAuth(s, m) ==
    CASE m.desc = "need auth" -> AuthName(s)
      [] m.desc = "needauth"  -> AuthAnswer(s)
      [] m.desc = "failed"    -> AuthFails(s)
      [] OTHER                -> s

Reconnects(s, m) ==
    \/ m.desc = "need auth" /\ s.app = "plain" /\ HasUser
    \/ m.desc = "needauth"

(* free(app.av_val) where app points into the URL: RTMP_SetupURL ran since *)
(* the flag was set.                                                       *)
FreesForeign(s, m) == Reconnects(s, m) /\ s.alloc /\ s.app = "plain"

(* _error of connect: authenticate and connect again.                      *)
HandleError(s, m, how) ==
    LET I == Matching(s, m.txn)
        i == CHOOSE i \in I : TRUE
        e == AV_erase(s, i)
        a == PublisherAuth(e, m)
        c == RTMP_Close(a)
    IN  IF I = {} THEN s
        ELSE IF s.calls[i].name # "connect" THEN e
        ELSE IF ~Reconnects(e, m) THEN a
        ELSE RTMP_Connect([c EXCEPT !.clean = @ \/ c.clate], how)

HandleStatus(s, m) ==
    CASE m.code = "Failed"        -> RTMP_Close(s)
      [] m.code = "Publish.Start" -> EraseNamed([s EXCEPT !.playing = TRUE], "publish")
      [] m.code = "Play.Stop"     -> RTMP_Close(s)
      [] OTHER                    -> s

HandleInvoke(s, m) ==
    CASE m.name = "_result"         -> HandleResult(s, m)
      [] m.name = "_error"          -> HandleError(s, m, "unresolved")
      [] m.name = "onStatus"        -> HandleStatus(s, m)
      [] m.name = "onBWDone"        -> IF s.bw = 0 THEN Invokes(s, <<SendCheckBW>>, FALSE) ELSE s
      [] m.name = "_onbwcheck"      -> SendCheckBWResult(s, m.txn)
      [] m.name = "_onbwdone"       -> EraseNamed(s, "_checkbw")
      [] m.name = "ping"            -> SendPong(s, m.txn)
      [] m.name \in {"close", "onFCUnsubscribe"} -> RTMP_Close(s)
      [] OTHER                      -> s

(* HandleCtrl: of the user controls only the ping is answered.             *)
HandleCtrl(s, m) == IF m.code = "ping" THEN RTMP_SendCtrl(s) ELSE s

RTMP_ClientPacket(s, m) ==
    CASE m.type = "invoke"  -> HandleInvoke(s, m)
      [] m.type = "control" -> HandleCtrl(s, m)
      [] m.type = "chunk"   -> [s EXCEPT !.chunk = "set"]
      [] OTHER              -> s

(* ReadN: bytes are counted, and reported when a tenth of the window came. *)
ReadN(s) ==
    LET c == [s EXCEPT !.in = @ + 1]
    IN  IF c.in > c.reported + Window THEN SendBytesReceived(c) ELSE c
-----------------------------------------------------------------------------
(* rtmp-stream                                                             *)

(* The end of an attempt or a session.  Only when the output reconnects    *)
(* does it call rtmp_stream_stop, which drops the streams.                 *)
Dropped_KeepsIndex(s) == [s EXCEPT !.n = 0]

Dropped(s) == [s EXCEPT !.n = 0, !.cur = 0]

Ends(s, code) ==
    /\ pc' = "idle" /\ depth' = 0
    /\ recon' = (recon \/ code = "DISCONNECTED")
    /\ r' = IF recon' THEN Dropped(s) ELSE s

(* Where the loop of RTMP_ConnectStream stands after a packet.             *)
Loops(s) ==
    IF s.playing /\ s.open
    THEN pc' = "sending" /\ depth' = 0 /\ r' = [s EXCEPT !.out = <<>>] /\ UNCHANGED recon
    ELSE IF ~s.open THEN Ends(s, "INVALID_STREAM")
    ELSE pc' = "reading" /\ r' = s /\ UNCHANGED <<depth, recon>>

(* A new connection: nothing is on its way, the peer knows no streams.     *)
NewPeer == inbox' = <<>> /\ eof' = FALSE
Tick(f) == count' = [count EXCEPT ![f] = @ + 1]

(* Ghost: sockets a read time-out left behind; stream ids granted here and *)
(* transactions answered on this connection; whether the index ever        *)
(* slipped.                                                                *)
NewGhost(s) == [ghost EXCEPT !.lost = IF s.open THEN @ + 1 ELSE @,
                             !.granted = {}, !.answered = {}]

try_connect(how) ==
    /\ pc = "idle" /\ count.attempts < MaxAttempts
    /\ r.n <= MaxIdx
    /\ LET s == RTMP_AddStream(RTMP_SetupURL(r))
       IN  IF how = "connected" /\ Crashes(s)
           THEN pc' = "crashed" /\ r' = s /\ UNCHANGED <<depth, recon>>
           ELSE LET c == RTMP_Connect(s, how)
                IN  IF how = "connected" THEN Loops(c) ELSE Ends(c, "CONNECT_FAILED")
    /\ ghost' = IF how = "unresolved" THEN ghost ELSE NewGhost(r)
    /\ IF how = "unresolved" THEN UNCHANGED <<inbox, eof>> ELSE NewPeer
    /\ Tick("attempts")

(* Does the packet make the client authenticate and connect again?         *)
AuthPacket(s, m) ==
    /\ s.open /\ m.type = "invoke" /\ m.name = "_error"
    /\ \E i \in Matching(s, m.txn) : s.calls[i].name = "connect"
    /\ Reconnects(s, m)

(* A publish that is not taken closes the session under its caller, which  *)
(* then advances the index: after a clean close it is one ahead.           *)
Slips(s) == s.n = 0 /\ s.cur > 0

(* One turn of the loop of RTMP_ConnectStream.                             *)
ConnectStream ==
    /\ pc = "reading" /\ inbox # <<>>
    /\ LET m == Head(inbox)
       IN  \E f \in {ReadN(r)} : \E s \in {IF f.open THEN RTMP_ClientPacket(f, m) ELSE f} :
              /\ ~AuthPacket(f, m)
              /\ Loops(s)
              /\ inbox' = IF s.open THEN Tail(inbox) ELSE <<>>
              /\ ghost' = [ghost EXCEPT
                    !.answered = IF f.open /\ m.type = "invoke" /\ m.name \in {"_result", "_error"}
                                 THEN @ \cup {m.txn} ELSE @,
                    !.slipped = @ \/ Slips(s)]
    /\ UNCHANGED <<eof, count>>

(* The turn in which the client authenticates: RTMP_Connect and            *)
(* RTMP_ConnectStream are called from inside the handler.                  *)
Authenticate(how) ==
    /\ pc = "reading" /\ inbox # <<>>
    /\ LET m == Head(inbox)
       IN  \E f \in {ReadN(r)} :
              /\ AuthPacket(f, m)
              /\ \E s \in {HandleError(f, m, how)} :
                    IF FreesForeign(f, m) \/ (how = "connected" /\ Crashes(s))
                    THEN pc' = "crashed" /\ r' = f /\ UNCHANGED <<depth, recon>>
                    ELSE IF s.open
                    THEN pc' = "reading" /\ r' = s /\ depth' = depth + 1 /\ UNCHANGED recon
                    ELSE Ends(s, "INVALID_STREAM")
    /\ NewPeer
    /\ ghost' = [ghost EXCEPT !.granted = {}, !.answered = {}]
    /\ UNCHANGED count

(* The read times out: the innermost call returns and its socket stays     *)
(* open; the call around it reads again.                                   *)
ReadTimeout_ReadsOn ==
    /\ pc = "reading" /\ inbox = <<>> /\ ~eof
    /\ UNCHANGED vars

ReadTimeout ==
    /\ pc = "reading" /\ inbox = <<>> /\ ~eof
    /\ IF depth > 0
       THEN depth' = depth - 1 /\ UNCHANGED <<r, pc, recon>>
       ELSE Ends(r, "INVALID_STREAM")
    /\ ghost' = IF depth = 0 THEN [ghost EXCEPT !.timeouts = @ + 1] ELSE ghost
    /\ UNCHANGED <<inbox, eof, count>>

ReadEof ==
    /\ pc = "reading" /\ inbox = <<>> /\ eof
    /\ Ends(RTMP_Close(r), "INVALID_STREAM")
    /\ UNCHANGED <<inbox, eof, count, ghost>>

(* Metadata, then frames, go to stream 0; what the peer sends is dropped.  *)
RTMP_Write ==
    /\ pc = "sending" /\ count.media < MaxMedia
    /\ LET w == WriteN(r, <<Msg("media", 0, r.ids[0])>>)
       IN  IF w.open
           THEN r' = [w EXCEPT !.out = <<>>] /\ UNCHANGED <<pc, depth, recon>>
           ELSE Ends(w, "DISCONNECTED")
    /\ inbox' = <<>>
    /\ Tick("media")
    /\ UNCHANGED <<eof, ghost>>

(* The send thread ends: stopped by the user, or after a failure.          *)
SendThreadEnds(stopped) ==
    /\ pc = "sending"
    /\ IF stopped
       THEN /\ r' = Dropped(RTMP_Close(r))
            /\ pc' = "idle" /\ recon' = FALSE /\ UNCHANGED depth
       ELSE Ends(RTMP_Close(r), "DISCONNECTED")
    /\ inbox' = <<>>
    /\ UNCHANGED <<eof, count, ghost>>
-----------------------------------------------------------------------------
(* The peer (external): answers what it reads, sends a little more, and    *)
(* may go away.  It acts when the client has read all: both directions are *)
(* queues, so what it would do earlier comes to the same.                  *)

Reply(name, txn) == [type |-> "invoke", name |-> name, txn |-> txn, id |-> 0, code |-> "", desc |-> ""]

Replies(q) ==
    CASE q.name = "connect" ->
           {<<Reply("_result", q.txn)>>, <<Reply("onBWDone", 0), Reply("_result", q.txn)>>}
           \cup {<<[Reply("_error", q.txn) EXCEPT !.desc = d]>> :
                     d \in IF count.auth < MaxAuth THEN {"need auth", "needauth", "failed"} ELSE {}}
      [] q.name = "createStream" ->
           {<<[Reply("_result", q.txn) EXCEPT !.id = Cardinality(ghost.granted) + 1]>>,
            <<Reply("_error", q.txn)>>}
      [] q.name = "publish" ->
           {<<[Reply("onStatus", 0) EXCEPT !.code = c]>> : c \in {"Publish.Start", "Failed"}}
           \cup {<<Reply("_result", q.txn)>>}
      [] q.name = "releaseStream" -> {<<Reply("_result", q.txn)>>}
      [] q.name = "_checkbw" -> {<<Reply("_onbwcheck", 1), Reply("_onbwdone", 0)>>}
      [] OTHER -> {<<>>}

PeerAnswers ==
    /\ r.open /\ r.out # <<>> /\ ~eof /\ inbox = <<>>
    /\ \E a \in Replies(Head(r.out)) :
          /\ count' = IF \E i \in 1..Len(a) : a[i].desc # "" THEN [count EXCEPT !.auth = @ + 1] ELSE count
          /\ inbox' = inbox \o a
          /\ ghost' = IF \E i \in 1..Len(a) : a[i].id > 0
                      THEN [ghost EXCEPT !.granted = @ \cup {Cardinality(@) + 1}] ELSE ghost
    /\ r' = [r EXCEPT !.out = Tail(@)]
    /\ UNCHANGED <<pc, depth, recon, eof>>

Unasked ==
    {Reply("ping", 7), Reply("close", 0), [Reply("onStatus", 0) EXCEPT !.code = "Play.Stop"],
     [type |-> "control", code |-> "ping"], [type |-> "chunk"]}

PeerSends ==
    /\ r.open /\ pc = "reading" /\ ~eof /\ inbox = <<>> /\ count.extra < MaxExtra
    /\ \E m \in Unasked : inbox' = Append(inbox, m)
    /\ Tick("extra")
    /\ UNCHANGED <<client, eof>>

(* The connection dies: some more writes succeed, what is unread may stay  *)
(* unread.                                                                 *)
PeerLeaves ==
    /\ r.open /\ ~eof /\ count.extra < MaxExtra
    /\ eof' = TRUE
    /\ Tick("extra")
    /\ \E k \in Rooms : r' = [r EXCEPT !.room = k, !.out = <<>>]
    /\ \E b \in BOOLEAN : inbox' = IF b THEN inbox ELSE <<>>
    /\ UNCHANGED <<pc, depth, recon, ghost>>
-----------------------------------------------------------------------------
Init ==
    /\ r = RTMP_Init
    /\ pc = "idle" /\ depth = 0 /\ recon = FALSE
    /\ inbox = <<>> /\ eof = FALSE
    /\ count = [attempts |-> 0, auth |-> 0, extra |-> 0, media |-> 0]
    /\ ghost = [lost |-> 0, timeouts |-> 0, granted |-> {}, answered |-> {}, slipped |-> FALSE]

Next ==
    \/ \E how \in Outcomes : try_connect(how)
    \/ ConnectStream
    \/ \E how \in Outcomes : Authenticate(how)
    \/ ReadTimeout \/ ReadEof
    \/ RTMP_Write
    \/ \E b \in BOOLEAN : SendThreadEnds(b)
    \/ PeerAnswers \/ PeerSends \/ PeerLeaves

(* A read returns within SO_RCVTIMEO whatever the peer does.               *)
Spec == Init /\ [][Next]_vars
             /\ WF_vars(ConnectStream)
             /\ WF_vars(\E how \in Outcomes : Authenticate(how))
             /\ WF_vars(ReadTimeout) /\ WF_vars(ReadEof)
-----------------------------------------------------------------------------
TypeOK ==
    /\ r.n \in 0..(MaxIdx + 1) /\ r.socks \in Nat
    /\ r.playing => r.open
    /\ r.out # <<>> => r.open
    /\ pc \in {"idle", "reading", "sending", "crashed"} /\ depth \in Nat
    /\ pc = "sending" => r.playing

(* Sockets are neither closed twice nor forgotten: the only one besides    *)
(* that of the current connection are those of attempts that a read        *)
(* time-out ended, which rtmp-stream never closes.                         *)
SocketsAccounted ==
    /\ r.socks = ghost.lost + (IF r.open THEN 1 ELSE 0)
    /\ ghost.lost + (IF r.open /\ pc = "idle" THEN 1 ELSE 0) = ghost.timeouts

(* A queued invoke was made on this connection, is unanswered and has a    *)
(* transaction number of its own, so a result is never taken for that of   *)
(* another method.                                                         *)
CallsPending ==
    pc = "reading" =>
        \A i \in 1..Len(r.calls) :
            /\ r.calls[i].txn <= r.inv
            /\ r.calls[i].txn \notin ghost.answered
            /\ \A j \in 1..Len(r.calls) : i # j => r.calls[i].txn # r.calls[j].txn

(* publish names a stream the peer created on this very connection.        *)
PublishesGranted ==
    \A i \in 1..Len(r.out) : r.out[i].name = "publish" => r.out[i].sid \in ghost.granted

(* As long as the structure holds one stream and its index never slipped   *)
(* (rtmp.c:3429), frames are written to the stream the peer created.       *)
MediaOnStream == pc = "sending" /\ r.n = 1 /\ ~ghost.slipped => r.ids[0] \in ghost.granted

(* An orderly close leaves no stream at the peer, unless createStream was  *)
(* answered more often than streams were added.                            *)
NoOrphans == \A i \in r.orphans : i >= 1

(* What the session believes of its calls and streams is what the peer has *)
(* granted, through refusals, authentication, failing writes and closes.   *)
SessionAgrees == TypeOK /\ CallsPending /\ PublishesGranted /\ MediaOnStream /\ NoOrphans

(* RTMP_ConnectStream returns: a peer that falls silent cannot hold the    *)
(* connect thread.                                                         *)
AttemptEnds == (pc = "reading") ~> (pc # "reading")
=============================================================================
