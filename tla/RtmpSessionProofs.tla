-------------------------- MODULE RtmpSessionProofs -------------------------
(***************************************************************************)
(* That librtmp neither closes a socket twice nor forgets one, and that it *)
(* agrees with the server on calls and streams, for any peer, any number   *)
(* of attempts, refusals, packets and writes.                              *)
(***************************************************************************)
EXTENDS RtmpSession, FiniteSetTheorems, WellFoundedInduction, TLAPS

Fields == {"open", "playing", "ids", "n", "cur", "calls", "inv", "bw", "in", "reported",
           "chunk", "app", "tcUrl", "alloc", "clate", "clean", "room", "out", "socks",
           "orphans"}

(* struct RTMP, as far as its socket is concerned.                         *)
IsRtmp(s) == DOMAIN s = Fields /\ s.open \in BOOLEAN /\ s.socks \in Int

Held(s) == IF s.open THEN 1 ELSE 0

(* What every function that is called on a session may do to its socket:   *)
(* leave it, or close it once.  Only the connect functions open one.       *)
Shrinks(s, t) ==
  /\ IsRtmp(t)
  /\ t.socks - Held(t) = s.socks - Held(s)
  /\ t.open => s.open /\ t.tcUrl = s.tcUrl /\ t.app = s.app

SocketTypeOK ==
  /\ IsRtmp(r)
  /\ pc \in {"idle", "reading", "sending", "crashed"}
  /\ depth \in Nat
  /\ DOMAIN ghost = {"lost", "timeouts", "granted", "answered", "slipped"}
  /\ ghost.lost \in Nat /\ ghost.timeouts \in Nat

SocketsInv ==
  /\ SocketTypeOK
  /\ SocketsAccounted
  /\ pc \in {"reading", "sending"} => r.open
  /\ r.open => ~Crashes(r)
-----------------------------------------------------------------------------
(* The functions of the library, one by one.                               *)

LEMMA ShrinksItself == \A s : IsRtmp(s) => Shrinks(s, s)
  BY DEF Shrinks

LEMMA ShrinksOn ==
  ASSUME NEW s, NEW t, NEW u, IsRtmp(s), Shrinks(s, t), Shrinks(t, u)
  PROVE  Shrinks(s, u)
  BY DEF Shrinks, IsRtmp, Held

(* Forget leaves a closed structure and the socket to its caller.          *)
LEMMA ForgetCloses ==
  ASSUME NEW s, IsRtmp(s)
  PROVE  IsRtmp(Forget(s)) /\ ~Forget(s).open /\ Forget(s).socks = s.socks
<1> DEFINE a == [s EXCEPT !.open = FALSE, !.playing = FALSE, !.calls = <<>>, !.inv = 0,
                       !.bw = 0, !.in = 0, !.reported = 0, !.out = <<>>, !.room = 0,
                       !.ids = [i \in 0..MaxIdx |-> IF i < s.n THEN -1 ELSE s.ids[i]]]
<1>1. DOMAIN a = Fields /\ a.open = FALSE /\ a.socks = s.socks
  BY DEF IsRtmp, Fields
<1>2. Forget(s) = IF ~s.clean THEN a
        ELSE [a EXCEPT !.n = 0, !.cur = 0,
                       !.app = IF s.alloc THEN "freed" ELSE a.app,
                       !.tcUrl = IF s.alloc THEN "freed" ELSE a.tcUrl]
  BY DEF Forget
<1>3. IsRtmp(a)
  BY <1>1 DEF IsRtmp
<1> HIDE DEF a
<1> DEFINE b == [a EXCEPT !.n = 0, !.cur = 0,
                       !.app = IF s.alloc THEN "freed" ELSE a.app,
                       !.tcUrl = IF s.alloc THEN "freed" ELSE a.tcUrl]
<1>4. IsRtmp(b) /\ b.open = a.open /\ b.socks = a.socks
  BY <1>3 DEF IsRtmp, Fields
<1> HIDE DEF b
<1>5. Forget(s) = a \/ Forget(s) = b
  BY <1>2 DEF b
<1>6. CASE Forget(s) = a
  BY <1>1, <1>3, <1>6
<1>7. CASE Forget(s) = b
  BY <1>1, <1>4, <1>7
<1> QED BY <1>5, <1>6, <1>7

LEMMA ClosesSocket ==
  ASSUME NEW s, IsRtmp(s)
  PROVE  LET t == Forget(IF s.open THEN RTMPSockBuf_Close(s) ELSE s)
         IN  Shrinks(s, t) /\ ~t.open
<1> DEFINE u == IF s.open THEN RTMPSockBuf_Close(s) ELSE s
<1>1. IsRtmp(u) /\ u.socks = s.socks - Held(s)
  BY DEF IsRtmp, Fields, RTMPSockBuf_Close, Held
<1> HIDE DEF u
<1>2. IsRtmp(Forget(u)) /\ ~Forget(u).open /\ Forget(u).socks = u.socks
  BY <1>1, ForgetCloses
<1> QED BY <1>1, <1>2 DEF Shrinks, Held, IsRtmp, u

(* A write that fails closes the session from inside.                      *)
LEMMA WriteNShrinks ==
  ASSUME NEW s, NEW msgs, IsRtmp(s)
  PROVE  Shrinks(s, WriteN(s, msgs))
<1>1. CASE Takes(s, Len(msgs))
  BY <1>1 DEF WriteN, Takes, Shrinks, IsRtmp, Fields, Held
<1>2. CASE ~Takes(s, Len(msgs))
  BY <1>2, ClosesSocket DEF WriteN
<1> QED BY <1>1, <1>2

LEMMA InvokesShrinks ==
  ASSUME NEW s, NEW cs, NEW queue, IsRtmp(s)
  PROVE  Shrinks(s, Invokes(s, cs, queue))
<1> DEFINE w == WriteN(s, [i \in 1..Len(cs) |-> Msg(cs[i].name, s.inv + i, cs[i].sid)])
<1>1. Shrinks(s, w)
  BY WriteNShrinks
<1> HIDE DEF w
<1> DEFINE calls == IF queue THEN AV_queue(s, cs) ELSE w.calls
<1>2. Invokes(s, cs, queue) = IF ~Takes(s, Len(cs)) THEN w
                              ELSE [w EXCEPT !.inv = w.inv + Len(cs), !.calls = calls]
  BY DEF Invokes, w
<1> HIDE DEF calls
<1>3. Shrinks(s, [w EXCEPT !.inv = w.inv + Len(cs), !.calls = calls])
  BY <1>1 DEF Shrinks, IsRtmp, Fields, Held
<1> QED BY <1>1, <1>2, <1>3

LEMMA UnpublishShrinks ==
  ASSUME NEW s, IsRtmp(s)
  PROVE  Shrinks(s, Unpublish(s))
<1> DEFINE known == {i \in 0..MaxIdx : i < s.n /\ s.ids[i] > 0}
           nth(k) == CHOOSE i \in known : Cardinality({j \in known : j <= i}) = k
           pair(k) == IF k % 2 = 1 THEN SendFCUnpublish ELSE SendDeleteStream(s.ids[nth(k \div 2)])
           u == Invokes(s, [k \in 1..(2 * Cardinality(known)) |-> pair(k)], FALSE)
<1>1. Shrinks(s, u)
  BY InvokesShrinks
<1>2. Unpublish(s) = IF u.open
                     THEN [u EXCEPT !.ids = [i \in 0..MaxIdx |-> IF i < s.n THEN 0 ELSE u.ids[i]]]
                     ELSE u
  BY DEF Unpublish
<1> HIDE DEF u
<1> QED BY <1>1, <1>2 DEF Shrinks, IsRtmp, Fields, Held

(* RTMP_Close closes the socket if there is one, however it got there.     *)
LEMMA CloseShrinks ==
  ASSUME NEW s, IsRtmp(s)
  PROVE  Shrinks(s, RTMP_Close(s)) /\ ~RTMP_Close(s).open
<1> DEFINE u == Unpublish(s)
           o == u.ids
           k == Forget(RTMPSockBuf_Close(u))
<1>1. Shrinks(s, u) /\ IsRtmp(u)
  BY UnpublishShrinks DEF Shrinks
<1>2. CASE ~s.open
  BY <1>2, ClosesSocket DEF RTMP_Close
<1>3. CASE s.open /\ ~u.open
  BY <1>1, <1>3 DEF RTMP_Close
<1>4. CASE s.open /\ u.open
  <2>1. Shrinks(u, k) /\ ~k.open
    BY <1>1, <1>4, ClosesSocket
  <2>2. RTMP_Close(s) = [k EXCEPT !.orphans = k.orphans \cup {i \in 0..MaxIdx : o[i] > 0}]
    BY <1>4 DEF RTMP_Close
  <2> HIDE DEF k, o
  <2>3. Shrinks(u, RTMP_Close(s)) /\ ~RTMP_Close(s).open
    BY <2>1, <2>2 DEF Shrinks, IsRtmp, Fields, Held
  <2> QED BY <1>1, <2>3, ShrinksOn
<1> QED BY <1>2, <1>3, <1>4

LEMMA EraseShrinks ==
  ASSUME NEW s, IsRtmp(s), NEW i
  PROVE  Shrinks(s, AV_erase(s, i))
  BY DEF AV_erase, Shrinks, IsRtmp, Fields, Held

LEMMA EraseNamedShrinks ==
  ASSUME NEW s, IsRtmp(s), NEW name
  PROVE  Shrinks(s, EraseNamed(s, name))
  BY EraseShrinks, ShrinksItself DEF EraseNamed

LEMMA SetShrinks ==
  ASSUME NEW s, IsRtmp(s), NEW t, DOMAIN t = Fields, t.open = s.open, t.socks = s.socks,
         t.tcUrl = s.tcUrl, t.app = s.app
  PROVE  Shrinks(s, t)
  BY DEF Shrinks, IsRtmp, Held

LEMMA HandleResultShrinks ==
  ASSUME NEW s, IsRtmp(s), NEW m
  PROVE  Shrinks(s, HandleResult(s, m))
<1>1. CASE Matching(s, m.txn) = {}
  BY <1>1, ShrinksItself DEF HandleResult
<1>2. CASE Matching(s, m.txn) # {}
  <2> DEFINE i == CHOOSE j \in Matching(s, m.txn) : TRUE
             e == AV_erase(s, i)
             name == s.calls[i].name
  <2>1. Shrinks(s, e) /\ IsRtmp(e)
    BY EraseShrinks DEF Shrinks
  <2>2. HandleResult(s, m) = CASE name = "connect"      -> ConnectResult(e)
               [] name = "createStream" -> CreateStreamResult(e, m.id)
               [] name = "publish"      -> [e EXCEPT !.playing = TRUE]
               [] OTHER                 -> e
    BY <1>2 DEF HandleResult
  <2> HIDE DEF e, name, i
  <2>3. Shrinks(e, ConnectResult(e))
    <3> DEFINE w == Invokes(e, Times(e.n, SendReleaseStream) \o Times(e.n, SendFCPublish), FALSE)
    <3>1. Shrinks(e, w) /\ IsRtmp(w)
      BY <2>1, InvokesShrinks DEF Shrinks
    <3>2. ConnectResult(e) = Invokes(w, Times(e.n, RTMP_SendCreateStream), TRUE)
      BY DEF ConnectResult
    <3> HIDE DEF w
    <3> QED BY <2>1, <3>1, <3>2, InvokesShrinks, ShrinksOn
  <2>4. Shrinks(e, CreateStreamResult(e, m.id))
    <3> DEFINE g == [e EXCEPT !.ids[e.cur] = m.id]
               p == Invokes(g, <<SendPublish(g, e.cur)>>, TRUE)
    <3>1. Shrinks(e, g)
      BY <2>1, SetShrinks DEF IsRtmp, Fields
    <3>2. Shrinks(g, p) /\ IsRtmp(p)
      <4>1. IsRtmp(g)
        BY <3>1 DEF Shrinks
      <4> HIDE DEF g
      <4>2. Shrinks(g, p)
        BY <4>1, InvokesShrinks
      <4> HIDE DEF p
      <4> QED BY <4>2 DEF Shrinks
    <3>3. g.cur = e.cur
      BY <2>1 DEF IsRtmp, Fields
    <3>4. CreateStreamResult(e, m.id) = [p EXCEPT !.cur = p.cur + 1]
      BY DEF CreateStreamResult
    <3> HIDE DEF p
    <3>5. Shrinks(p, [p EXCEPT !.cur = p.cur + 1])
      BY <3>2, SetShrinks DEF IsRtmp, Fields
    <3> QED BY <2>1, <3>1, <3>2, <3>4, <3>5, ShrinksOn
  <2>5. Shrinks(e, [e EXCEPT !.playing = TRUE])
    BY <2>1, SetShrinks DEF IsRtmp, Fields
  <2>6. Shrinks(e, HandleResult(s, m))
    BY <2>1, <2>2, <2>3, <2>4, <2>5, ShrinksItself
  <2> QED BY <2>1, <2>6, ShrinksOn
<1> QED BY <1>1, <1>2

(* An error that does not make the client authenticate opens no socket.    *)
LEMMA HandleErrorShrinks ==
  ASSUME NEW s, IsRtmp(s), s.open, NEW m, m.type = "invoke", m.name = "_error",
         ~AuthPacket(s, m), NEW how
  PROVE  Shrinks(s, HandleError(s, m, how))
<1> DEFINE I == Matching(s, m.txn)
           i == CHOOSE j \in I : TRUE
           e == AV_erase(s, i)
           a == PublisherAuth(e, m)
<1>1. CASE I = {}
  BY <1>1, ShrinksItself DEF HandleError
<1>2. CASE I # {}
  <2>1. i \in I
    BY <1>2
  <2>2. Shrinks(s, e) /\ IsRtmp(e)
    BY EraseShrinks DEF Shrinks
  <2>3. CASE s.calls[i].name # "connect"
    BY <1>2, <2>2, <2>3 DEF HandleError
  <2>4. CASE s.calls[i].name = "connect"
    <3>1. ~Reconnects(s, m)
      BY <2>1, <2>4 DEF AuthPacket
    <3>2. ~Reconnects(e, m)
      BY <3>1 DEF Reconnects, AV_erase, IsRtmp, Fields
    <3>3. HandleError(s, m, how) = a
      BY <1>2, <2>4, <3>2 DEF HandleError
    <3> HIDE DEF e
    <3>4. Shrinks(e, a)
      BY <2>2, <3>2, SetShrinks DEF PublisherAuth, Reconnects, AuthName, AuthFails, IsRtmp, Fields,
                                    Shrinks, Held
    <3> QED BY <2>2, <3>3, <3>4, ShrinksOn
  <2> QED BY <2>3, <2>4
<1> QED BY <1>1, <1>2

LEMMA HandleInvokeShrinks ==
  ASSUME NEW s, IsRtmp(s), s.open, NEW m, m.type = "invoke", ~AuthPacket(s, m)
  PROVE  Shrinks(s, HandleInvoke(s, m))
<1>1. Shrinks(s, HandleResult(s, m))
  BY HandleResultShrinks
<1>2. m.name = "_error" => Shrinks(s, HandleError(s, m, "unresolved"))
  BY HandleErrorShrinks
<1>3. Shrinks(s, RTMP_Close(s))
  BY CloseShrinks
<1>4. Shrinks(s, HandleStatus(s, m))
  <2> DEFINE p == [s EXCEPT !.playing = TRUE]
  <2>1. Shrinks(s, p) /\ IsRtmp(p)
    BY DEF Shrinks, Held, IsRtmp, Fields
  <2> HIDE DEF p
  <2>2. Shrinks(p, EraseNamed(p, "publish"))
    BY <2>1, EraseNamedShrinks
  <2>3. Shrinks(s, EraseNamed(p, "publish"))
    BY <2>1, <2>2, ShrinksOn
  <2> QED BY <1>3, <2>3, ShrinksItself DEF HandleStatus, p
<1>5. Shrinks(s, Invokes(s, <<SendCheckBW>>, FALSE))
  BY InvokesShrinks
<1>6. Shrinks(s, SendCheckBWResult(s, m.txn))
  <2> DEFINE b == [s EXCEPT !.bw = 1]
  <2>1. Shrinks(s, b) /\ IsRtmp(b)
    BY DEF Shrinks, Held, IsRtmp, Fields
  <2>2. SendCheckBWResult(s, m.txn) = WriteN(b, <<Msg("_result", m.txn, 0)>>)
    BY DEF SendCheckBWResult
  <2> HIDE DEF b
  <2> QED BY <2>1, <2>2, WriteNShrinks, ShrinksOn
<1>7. Shrinks(s, EraseNamed(s, "_checkbw"))
  BY EraseNamedShrinks
<1>8. Shrinks(s, SendPong(s, m.txn))
  BY WriteNShrinks DEF SendPong
<1>9. Shrinks(s, s)
  BY ShrinksItself
<1> QED BY <1>1, <1>2, <1>3, <1>4, <1>5, <1>6, <1>7, <1>8, <1>9 DEF HandleInvoke

LEMMA ClientPacketShrinks ==
  ASSUME NEW s, IsRtmp(s), s.open, NEW m, ~AuthPacket(s, m)
  PROVE  Shrinks(s, RTMP_ClientPacket(s, m))
<1>1. CASE m.type = "invoke"
  BY <1>1, HandleInvokeShrinks DEF RTMP_ClientPacket
<1>2. Shrinks(s, HandleCtrl(s, m))
  BY WriteNShrinks, ShrinksItself DEF HandleCtrl, RTMP_SendCtrl
<1>3. Shrinks(s, [s EXCEPT !.chunk = "set"])
  BY DEF Shrinks, Held, IsRtmp, Fields
<1> QED BY <1>1, <1>2, <1>3, ShrinksItself DEF RTMP_ClientPacket

LEMMA ReadNShrinks ==
  ASSUME NEW s, IsRtmp(s)
  PROVE  Shrinks(s, ReadN(s))
<1> DEFINE c == [s EXCEPT !.in = s.in + 1]
           b == [c EXCEPT !.reported = c.in]
<1>1. Shrinks(s, c)
  BY SetShrinks DEF IsRtmp, Fields
<1>2. Shrinks(s, b) /\ IsRtmp(b)
  BY SetShrinks DEF IsRtmp, Fields, Shrinks
<1>3. ReadN(s) = IF c.in > c.reported + Window THEN WriteN(b, <<Msg("bytes", 0, 0)>>) ELSE c
  BY DEF ReadN, SendBytesReceived
<1> HIDE DEF b, c
<1> QED BY <1>1, <1>2, <1>3, WriteNShrinks, ShrinksOn
-----------------------------------------------------------------------------
(* Connecting opens one socket, and keeps it if all goes well.             *)

LEMMA ConnectOpens ==
  ASSUME NEW s, IsRtmp(s), NEW how \in Outcomes, how # "unresolved"
  PROVE  LET c == RTMP_Connect(s, how)
         IN  /\ IsRtmp(c)
             /\ c.socks - Held(c) = s.socks
             /\ c.open => how = "connected" /\ c.tcUrl = s.tcUrl /\ c.app = s.app
<1> DEFINE o == RTMP_Connect0(s)
           c == RTMP_Connect(s, how)
<1>1. IsRtmp(o) /\ o.open /\ o.socks = s.socks + 1 /\ o.tcUrl = s.tcUrl /\ o.app = s.app
  BY DEF RTMP_Connect0, IsRtmp, Fields
<1> HIDE DEF o
<1>2. CASE how # "connected"
  <2>1. c = RTMP_Close(o)
    BY <1>2 DEF RTMP_Connect, RTMP_Connect1, Outcomes, o
  <2>2. Shrinks(o, c) /\ ~c.open
    BY <1>1, <2>1, CloseShrinks
  <2> HIDE DEF c
  <2>3. IsRtmp(c) /\ c.socks - Held(c) = s.socks /\ ~c.open
    BY <1>1, <2>2 DEF Shrinks, Held, IsRtmp
  <2> QED BY <2>3 DEF c
<1>3. CASE how = "connected"
  <2> DEFINE w == WriteN(o, <<Msg("chunk", 0, 0)>>)
  <2>1. c = Invokes(w, <<Call("connect", 0)>>, TRUE)
    BY <1>3 DEF RTMP_Connect, RTMP_Connect1, SendConnectPacket, o
  <2>2. Shrinks(o, w) /\ IsRtmp(w)
    BY <1>1, WriteNShrinks DEF Shrinks
  <2> HIDE DEF w
  <2>3. Shrinks(o, c)
    BY <1>1, <2>1, <2>2, InvokesShrinks, ShrinksOn
  <2> HIDE DEF c
  <2> QED BY <1>1, <1>3, <2>3 DEF Shrinks, Held, IsRtmp, c
<1> QED BY <1>2, <1>3
-----------------------------------------------------------------------------
(* The end of a turn leaves the socket as the handler left it.             *)

SameSocket(s, t) ==
  IsRtmp(t) /\ t.open = s.open /\ t.socks = s.socks /\ t.tcUrl = s.tcUrl /\ t.app = s.app

LEMMA AfterEnds ==
  ASSUME NEW s, IsRtmp(s), NEW code, Ends(s, code)
  PROVE  pc' = "idle" /\ depth' = 0 /\ SameSocket(s, r')
<1>1. SameSocket(s, Dropped(s))
  BY DEF SameSocket, Dropped, IsRtmp, Fields
<1> QED BY <1>1 DEF Ends, SameSocket, IsRtmp

LEMMA AfterLoops ==
  ASSUME NEW s, IsRtmp(s), Loops(s)
  PROVE  /\ SameSocket(s, r')
         /\ depth' \in {0, depth}
         /\ s.open => pc' \in {"reading", "sending"}
         /\ ~s.open => pc' = "idle"
<1>1. SameSocket(s, [s EXCEPT !.out = <<>>]) /\ SameSocket(s, s)
  BY DEF SameSocket, IsRtmp, Fields
<1>2. CASE ~s.open
  BY <1>2, AfterEnds DEF Loops
<1>3. CASE s.open
  BY <1>1, <1>3 DEF Loops
<1> QED BY <1>2, <1>3 DEF IsRtmp

LEMMA SocketsInit == Init => SocketsInv
  BY DEF Init, RTMP_Init, SocketsInv, SocketTypeOK, SocketsAccounted, IsRtmp, Fields, Crashes

(* An attempt: if a socket was left open it is lost to the new one.        *)
LEMMA ConnectSockets ==
  ASSUME SocketsInv, NEW how \in Outcomes, try_connect(how)
  PROVE  SocketsInv'
<1> DEFINE s == RTMP_AddStream(RTMP_SetupURL(r))
           c == RTMP_Connect(s, how)
<1>1. /\ IsRtmp(s) /\ s.open = r.open /\ s.socks = r.socks
      /\ (r.open => ~Crashes(s)) /\ (Crashes(s) => ~r.open)
  BY DEF SocketsInv, SocketTypeOK, RTMP_AddStream, RTMP_SetupURL, IsRtmp, Fields, Crashes
<1>2. pc = "idle" /\ SocketTypeOK /\ SocketsAccounted
  BY DEF try_connect, SocketsInv
<1>3. how # "unresolved" =>
        /\ DOMAIN ghost' = DOMAIN ghost /\ ghost'.timeouts = ghost.timeouts
        /\ ghost'.lost = ghost.lost + Held(r)
  BY <1>2 DEF try_connect, NewGhost, SocketTypeOK, Held, IsRtmp
<1>4. CASE how = "connected" /\ Crashes(s)
  <2>1. pc' = "crashed" /\ r' = s /\ depth' = depth
    BY <1>4 DEF try_connect
  <2> HIDE DEF s
  <2> QED BY <1>1, <1>2, <1>3, <1>4, <2>1 DEF SocketsInv, SocketTypeOK, SocketsAccounted, Held
<1>5. CASE how = "connected" /\ ~Crashes(s)
  <2>1. Loops(c)
    BY <1>5 DEF try_connect
  <2>2. IsRtmp(c) /\ c.socks - Held(c) = s.socks /\ (c.open => ~Crashes(c))
    BY <1>1, <1>5, ConnectOpens DEF Crashes
  <2> HIDE DEF c, s
  <2>3. /\ SameSocket(c, r') /\ depth' \in {0, depth} /\ (c.open => pc' \in {"reading", "sending"})
        /\ (~c.open => pc' = "idle")
    BY <2>1, <2>2, AfterLoops
  <2> QED BY <1>1, <1>2, <1>3, <1>5, <2>2, <2>3
          DEF SocketsInv, SocketTypeOK, SocketsAccounted, Held, SameSocket, Crashes, IsRtmp
<1>6. CASE how \notin {"connected", "unresolved"}
  <2>1. Ends(c, "CONNECT_FAILED")
    BY <1>6 DEF try_connect
  <2>2. IsRtmp(c) /\ c.socks = s.socks /\ ~c.open
    BY <1>1, <1>6, ConnectOpens DEF Held, IsRtmp
  <2> HIDE DEF c, s
  <2>3. pc' = "idle" /\ depth' = 0 /\ SameSocket(c, r')
    BY <2>1, <2>2, AfterEnds
  <2> QED BY <1>1, <1>2, <1>3, <1>6, <2>2, <2>3
          DEF SocketsInv, SocketTypeOK, SocketsAccounted, Held, SameSocket, IsRtmp
<1>7. CASE how = "unresolved"
  <2>1. Ends(s, "CONNECT_FAILED") /\ ghost' = ghost
    BY <1>7 DEF try_connect, RTMP_Connect
  <2> HIDE DEF s
  <2>2. pc' = "idle" /\ depth' = 0 /\ SameSocket(s, r')
    BY <1>1, <2>1, AfterEnds
  <2> QED BY <1>1, <1>2, <2>1, <2>2
          DEF SocketsInv, SocketTypeOK, SocketsAccounted, SameSocket, Crashes
<1> QED BY <1>4, <1>5, <1>6, <1>7

LEMMA ConnectStreamSockets ==
  ASSUME SocketsInv, ConnectStream
  PROVE  SocketsInv'
<1> DEFINE m == Head(inbox)
           f == ReadN(r)
           s == IF f.open THEN RTMP_ClientPacket(f, m) ELSE f
<1>1. pc = "reading" /\ ~AuthPacket(f, m) /\ Loops(s)
  BY DEF ConnectStream
<1>2. IsRtmp(r) /\ SocketTypeOK /\ SocketsAccounted /\ r.open /\ ~Crashes(r)
  BY <1>1 DEF SocketsInv, SocketTypeOK
<1>3. Shrinks(r, f) /\ IsRtmp(f)
  BY <1>2, ReadNShrinks DEF Shrinks
<1>4. Shrinks(r, s)
  <2>1. f.open => Shrinks(f, RTMP_ClientPacket(f, m))
    BY <1>1, <1>3, ClientPacketShrinks
  <2> HIDE DEF f
  <2> QED BY <1>2, <1>3, <2>1, ShrinksOn
<1>5. DOMAIN ghost' = DOMAIN ghost /\ ghost'.lost = ghost.lost /\ ghost'.timeouts = ghost.timeouts
  BY <1>2 DEF ConnectStream, SocketTypeOK
<1> HIDE DEF s
<1>6. /\ SameSocket(s, r') /\ depth' \in {0, depth} /\ (s.open => pc' \in {"reading", "sending"})
      /\ (~s.open => pc' = "idle")
  BY <1>1, <1>4, AfterLoops DEF Shrinks
<1> QED BY <1>1, <1>2, <1>4, <1>5, <1>6
        DEF SocketsInv, SocketTypeOK, SocketsAccounted, Held, SameSocket, Shrinks, Crashes, IsRtmp

(* Authenticating closes one socket and opens another, or none.            *)
LEMMA AuthenticateSockets ==
  ASSUME SocketsInv, NEW how \in Outcomes, Authenticate(how)
  PROVE  SocketsInv'
<1> DEFINE m == Head(inbox)
           f == ReadN(r)
           s == HandleError(f, m, how)
           i == CHOOSE j \in Matching(f, m.txn) : TRUE
           e == AV_erase(f, i)
           a == PublisherAuth(e, m)
           c == RTMP_Close(a)
           d == [c EXCEPT !.clean = c.clean \/ c.clate]
<1>1. pc = "reading" /\ AuthPacket(f, m)
  BY DEF Authenticate
<1>2. IsRtmp(r) /\ SocketTypeOK /\ SocketsAccounted /\ r.open /\ ~Crashes(r)
  BY <1>1 DEF SocketsInv, SocketTypeOK
<1>3. Shrinks(r, f) /\ IsRtmp(f) /\ f.open /\ ~Crashes(f)
  BY <1>1, <1>2, ReadNShrinks DEF Shrinks, AuthPacket, Crashes
<1>4. IsRtmp(s) /\ s.socks - Held(s) = f.socks - 1 /\ (s.open => how = "connected" \/ ~Crashes(s))
  <2>1. Shrinks(f, e) /\ IsRtmp(e) /\ e.open /\ e.app = f.app
    BY <1>3 DEF AV_erase, Shrinks, IsRtmp, Fields, Held
  <2>2. IsRtmp(a) /\ a.open /\ a.socks = f.socks
    <3> HIDE DEF e
    <3>1. e.socks = f.socks
      BY <1>3, <2>1 DEF Shrinks, Held, IsRtmp
    <3>2. DOMAIN e = Fields /\ e.open = TRUE
      BY <2>1 DEF IsRtmp
    <3> DEFINE Good(t) == DOMAIN t = Fields /\ t.open = TRUE /\ t.socks = f.socks
    <3>3. Good(e) /\ Good(AuthFails(e)) /\ Good(AuthName(e)) /\ Good(AuthAnswer(e))
      BY <3>1, <3>2 DEF AuthFails, AuthName, AuthAnswer, Fields
    <3>4. Good(a)
      <4> HIDE DEF Good
      <4> QED BY <3>3 DEF PublisherAuth
    <3> QED BY <1>3, <3>4 DEF IsRtmp
  <2>3. IsRtmp(c) /\ ~c.open /\ c.socks = f.socks - 1
    <3> HIDE DEF a
    <3>1. Shrinks(a, c) /\ ~c.open
      BY <2>2, CloseShrinks
    <3> HIDE DEF c
    <3> QED BY <1>3, <2>2, <3>1 DEF Shrinks, Held, IsRtmp
  <2>4. IsRtmp(d) /\ ~d.open /\ d.socks = f.socks - 1
    <3> HIDE DEF c
    <3> QED BY <2>3 DEF IsRtmp, Fields
  <2>5. Reconnects(e, m) /\ Matching(f, m.txn) # {}
    BY <1>1, <2>1 DEF AuthPacket, Reconnects
  <2>6. s = IF f.calls[i].name # "connect" THEN e ELSE RTMP_Connect(d, how)
    BY <2>5 DEF HandleError
  <2>7. CASE f.calls[i].name # "connect"
    <3> HIDE DEF e
    <3>1. s = e
      BY <2>6, <2>7
    <3> HIDE DEF s
    <3> QED BY <1>3, <2>1, <3>1 DEF Shrinks, Held, Crashes, IsRtmp
  <2>8. CASE f.calls[i].name = "connect"
    <3> HIDE DEF d
    <3>1. s = RTMP_Connect(d, how)
      BY <2>6, <2>8
    <3>2. how = "unresolved" => s = d
      BY <3>1 DEF RTMP_Connect
    <3> HIDE DEF s
    <3>3. CASE how = "unresolved"
      BY <2>4, <3>2, <3>3 DEF Held, IsRtmp
    <3>4. CASE how # "unresolved"
      BY <2>4, <3>1, <3>4, ConnectOpens DEF Held
    <3> QED BY <3>3, <3>4
  <2> QED BY <2>7, <2>8
<1>5. DOMAIN ghost' = DOMAIN ghost /\ ghost'.lost = ghost.lost /\ ghost'.timeouts = ghost.timeouts
  BY <1>2 DEF Authenticate, SocketTypeOK
<1>6. \/ pc' = "crashed" /\ r' = f /\ depth' = depth
      \/ ~(how = "connected" /\ Crashes(s)) /\ s.open /\ pc' = "reading" /\ r' = s
         /\ depth' = depth + 1
      \/ ~s.open /\ Ends(s, "INVALID_STREAM")
  BY DEF Authenticate
<1> HIDE DEF s, f, i, e, a, c, d, m
<1>7. f.socks - Held(f) = r.socks - Held(r)
  BY <1>3 DEF Shrinks
<1>8. CASE pc' = "crashed" /\ r' = f /\ depth' = depth
  <2>1. r'.open /\ IsRtmp(r')
    BY <1>3, <1>8
  <2>2. ~Crashes(r')
    BY <1>3, <1>8
  <2>3. r'.socks = r.socks
    BY <1>2, <1>3, <1>7, <1>8 DEF Held, IsRtmp
  <2> QED BY <1>1, <1>2, <1>5, <1>8, <2>1, <2>2, <2>3
          DEF SocketsInv, SocketTypeOK, SocketsAccounted
<1>9. CASE /\ ~(how = "connected" /\ Crashes(s)) /\ s.open
           /\ pc' = "reading" /\ r' = s /\ depth' = depth + 1
  <2>1. r'.open /\ IsRtmp(r')
    BY <1>4, <1>9
  <2>2. ~Crashes(r')
    BY <1>4, <1>9
  <2>3. r'.socks = r.socks
    BY <1>2, <1>3, <1>4, <1>7, <1>9 DEF Held, IsRtmp
  <2> QED BY <1>1, <1>2, <1>5, <1>9, <2>1, <2>2, <2>3
          DEF SocketsInv, SocketTypeOK, SocketsAccounted
<1>10. CASE ~s.open /\ Ends(s, "INVALID_STREAM")
  <2>1. pc' = "idle" /\ depth' = 0 /\ SameSocket(s, r')
    BY <1>4, <1>10, AfterEnds
  <2> QED BY <1>1, <1>2, <1>3, <1>4, <1>5, <1>7, <1>10, <2>1
          DEF SocketsInv, SocketTypeOK, SocketsAccounted, Held, SameSocket, IsRtmp
<1> QED BY <1>6, <1>8, <1>9, <1>10

(* The read time-out is the one end that leaves the socket open.           *)
LEMMA TimeoutSockets ==
  ASSUME SocketsInv, ReadTimeout
  PROVE  SocketsInv'
<1>1. pc = "reading" /\ r.open /\ IsRtmp(r) /\ SocketTypeOK /\ SocketsAccounted
  BY DEF ReadTimeout, SocketsInv, SocketTypeOK
<1>2. CASE depth > 0
  BY <1>2 DEF ReadTimeout, SocketsInv, SocketTypeOK, SocketsAccounted
<1>3. CASE ~(depth > 0)
  <2>1. Ends(r, "INVALID_STREAM")
    BY <1>3 DEF ReadTimeout
  <2>2. pc' = "idle" /\ depth' = 0 /\ SameSocket(r, r')
    BY <1>1, <2>1, AfterEnds
  <2>3. DOMAIN ghost' = DOMAIN ghost /\ ghost'.lost = ghost.lost
        /\ ghost'.timeouts = ghost.timeouts + (IF depth = 0 THEN 1 ELSE 0)
    BY <1>1 DEF ReadTimeout, SocketTypeOK
  <2> QED BY <1>1, <1>3, <2>2, <2>3
          DEF SocketsInv, SocketTypeOK, SocketsAccounted, SameSocket, Crashes, IsRtmp
<1> QED BY <1>2, <1>3

LEMMA WriteSockets ==
  ASSUME SocketsInv, RTMP_Write
  PROVE  SocketsInv'
<1> DEFINE w == WriteN(r, <<Msg("media", 0, r.ids[0])>>)
<1>1. /\ pc = "sending" /\ r.open /\ IsRtmp(r) /\ SocketTypeOK /\ SocketsAccounted /\ ~Crashes(r)
      /\ ghost' = ghost
  BY DEF RTMP_Write, SocketsInv, SocketTypeOK
<1>2. Shrinks(r, w) /\ IsRtmp(w)
  BY <1>1, WriteNShrinks DEF Shrinks
<1>3. \/ w.open /\ r' = [w EXCEPT !.out = <<>>] /\ pc' = pc /\ depth' = depth
      \/ ~w.open /\ Ends(w, "DISCONNECTED")
  BY DEF RTMP_Write
<1> HIDE DEF w
<1>4. CASE w.open /\ r' = [w EXCEPT !.out = <<>>] /\ pc' = pc /\ depth' = depth
  <2>1. SameSocket(w, r')
    BY <1>2, <1>4 DEF SameSocket, IsRtmp, Fields
  <2> QED BY <1>1, <1>2, <1>4, <2>1
          DEF SocketsInv, SocketTypeOK, SocketsAccounted, Shrinks, Held, SameSocket, IsRtmp, Crashes
<1>5. CASE ~w.open /\ Ends(w, "DISCONNECTED")
  <2>1. pc' = "idle" /\ depth' = 0 /\ SameSocket(w, r')
    BY <1>2, <1>5, AfterEnds
  <2> QED BY <1>1, <1>2, <1>5, <2>1
          DEF SocketsInv, SocketTypeOK, SocketsAccounted, Shrinks, Held, SameSocket, IsRtmp
<1> QED BY <1>3, <1>4, <1>5

(* The peer has gone, or the send thread ends: the session is closed.      *)
LEMMA ClosedSockets ==
  ASSUME SocketsInv, pc \in {"reading", "sending"}, UNCHANGED ghost,
         \/ \E code : Ends(RTMP_Close(r), code)
         \/ r' = Dropped(RTMP_Close(r)) /\ pc' = "idle" /\ depth' = depth
  PROVE  SocketsInv'
<1> DEFINE c == RTMP_Close(r)
<1>1. r.open /\ IsRtmp(r) /\ SocketTypeOK /\ SocketsAccounted
  BY DEF SocketsInv, SocketTypeOK
<1>2. Shrinks(r, c) /\ ~c.open /\ IsRtmp(c)
  BY <1>1, CloseShrinks DEF Shrinks
<1>3. (\E code : Ends(c, code)) \/ (r' = Dropped(c) /\ pc' = "idle" /\ depth' = depth)
  OBVIOUS
<1> HIDE DEF c
<1>4. SameSocket(c, Dropped(c))
  BY <1>2 DEF SameSocket, Dropped, IsRtmp, Fields
<1>5. pc' = "idle" /\ depth' \in {0, depth} /\ SameSocket(c, r')
  BY <1>2, <1>3, <1>4, AfterEnds
<1> QED BY <1>1, <1>2, <1>5
        DEF SocketsInv, SocketTypeOK, SocketsAccounted, Shrinks, Held, SameSocket, IsRtmp

(* What the peer does moves packets and never a socket.                    *)
LEMMA PeerSockets ==
  ASSUME SocketsInv, PeerAnswers \/ PeerSends \/ PeerLeaves
  PROVE  SocketsInv'
<1>1. /\ pc' = pc /\ depth' = depth /\ SameSocket(r, r')
      /\ DOMAIN ghost' = DOMAIN ghost /\ ghost'.lost = ghost.lost /\ ghost'.timeouts = ghost.timeouts
  <2>1. IsRtmp(r) /\ DOMAIN ghost = {"lost", "timeouts", "granted", "answered", "slipped"}
    BY DEF SocketsInv, SocketTypeOK
  <2>2. CASE PeerAnswers
    <3>1. /\ pc' = pc /\ depth' = depth /\ r' = [r EXCEPT !.out = Tail(r.out)]
          /\ \/ ghost' = ghost
             \/ \E g : ghost' = [ghost EXCEPT !.granted = g]
      BY <2>2 DEF PeerAnswers
    <3> QED BY <2>1, <3>1 DEF SameSocket, IsRtmp, Fields
  <2>3. CASE PeerSends
    BY <2>1, <2>3 DEF PeerSends, client, SameSocket
  <2>4. CASE PeerLeaves
    BY <2>1, <2>4 DEF PeerLeaves, SameSocket, IsRtmp, Fields
  <2> QED BY <2>2, <2>3, <2>4
<1> QED BY <1>1 DEF SocketsInv, SocketTypeOK, SocketsAccounted, SameSocket, Crashes, IsRtmp

LEMMA SocketsStep == SocketsInv /\ [Next]_vars => SocketsInv'
<1> SUFFICES ASSUME SocketsInv, [Next]_vars PROVE SocketsInv'
  OBVIOUS
<1>1. ASSUME NEW how \in Outcomes, try_connect(how) PROVE SocketsInv'
  BY <1>1, ConnectSockets
<1>2. CASE ConnectStream
  BY <1>2, ConnectStreamSockets
<1>3. ASSUME NEW how \in Outcomes, Authenticate(how) PROVE SocketsInv'
  BY <1>3, AuthenticateSockets
<1>4. CASE ReadTimeout
  BY <1>4, TimeoutSockets
<1>5. CASE ReadEof
  BY <1>5, ClosedSockets DEF ReadEof
<1>6. CASE RTMP_Write
  BY <1>6, WriteSockets
<1>7. ASSUME NEW b \in BOOLEAN, SendThreadEnds(b) PROVE SocketsInv'
  BY <1>7, ClosedSockets DEF SendThreadEnds
<1>8. CASE PeerAnswers \/ PeerSends \/ PeerLeaves
  BY <1>8, PeerSockets
<1>9. CASE UNCHANGED vars
  BY <1>9 DEF vars, SocketsInv, SocketTypeOK, SocketsAccounted, Crashes, IsRtmp
<1> QED BY <1>1, <1>2, <1>3, <1>4, <1>5, <1>6, <1>7, <1>8, <1>9 DEF Next

(***************************************************************************)
(* RTMP_Connect0 and RTMP_Close balance: however a session ends, the only  *)
(* sockets besides the current one are those a read time-out left behind.  *)
(***************************************************************************)
THEOREM SocketsSound == Spec => []SocketsAccounted
<1>1. SocketsInv => SocketsAccounted
  BY DEF SocketsInv
<1> QED BY <1>1, SocketsStep, SocketsInit, PTL DEF Spec
-----------------------------------------------------------------------------
(* What the session knows of its calls and streams.                        *)

(* The words of the protocol: methods, codes and descriptions.             *)
Words ==
  {"", "connect", "createStream", "publish", "releaseStream", "FCPublish", "FCUnpublish",
   "deleteStream", "_checkbw", "_result", "_error", "onStatus", "onBWDone", "_onbwcheck",
   "_onbwdone", "ping", "pong", "close", "ctrl", "bytes", "chunk", "media", "Publish.Start",
   "Play.Stop", "Failed", "need auth", "needauth", "failed"}

Calls == [name : Words, txn : Nat]
Messages == [name : Words, txn : Nat, sid : Int]
Packets == [type : {"invoke"}, name : Words, txn : Nat, id : Nat, code : Words, desc : Words]
           \cup [type : {"control"}, code : Words] \cup [type : {"chunk"}]

Shape(s) ==
  /\ DOMAIN s = Fields
  /\ s.open \in BOOLEAN
  /\ s.ids \in [0..MaxIdx -> Int]
  /\ s.n \in 0 .. MaxIdx + 1 /\ s.cur \in Nat
  /\ s.orphans \subseteq 1..MaxIdx

StructOK(s) ==
  /\ Shape(s)
  /\ s.playing \in BOOLEAN
  /\ s.calls \in Seq(Calls) /\ s.inv \in Nat
  /\ s.out \in Seq(Messages)
  /\ ~s.open => ~s.playing /\ s.out = <<>> /\ s.calls = <<>>

(* Calls are numbered in the order they were made.                         *)
CallsNumbered(s) ==
  \A i \in 1..Len(s.calls) :
     /\ s.calls[i].txn <= s.inv
     /\ \A j \in 1..Len(s.calls) : i # j => s.calls[i].txn # s.calls[j].txn

(* The messages the peer answers with a result.                            *)
Requests == {"connect", "createStream", "publish", "releaseStream"}

InOut(s, name) == \E i \in 1..Len(s.out) : s.out[i].name = name

IsAnswer(m) == m.type = "invoke" /\ m.name \in {"_result", "_error"}
Answers(s, m, name) ==
  IsAnswer(m) /\ \E j \in 1..Len(s.calls) : s.calls[j].txn = m.txn /\ s.calls[j].name = name

IsStart(m) == m.type = "invoke" /\ m.name = "onStatus" /\ m.code = "Publish.Start"

(* A request of this name is on its way to the peer, or its answer back.   *)
Answered(s, ib, name) == \E k \in 1..Len(ib) : Answers(s, ib[k], name)
Starts(ib) == \E k \in 1..Len(ib) : IsStart(ib[k])
Live(s, ib, name) == InOut(s, name) \/ Answered(s, ib, name)

(* Transactions on their way are of this connection, and answered once.    *)
Numbered(s, ib, ans) ==
  /\ \A i \in 1..Len(s.out) : s.out[i].name \in Requests => s.out[i].txn <= s.inv
  /\ \A k \in 1..Len(ib) : IsAnswer(ib[k]) => ib[k].txn \in Nat /\ ib[k].txn <= s.inv
  /\ \A t \in ans : t \in Nat /\ t <= s.inv
  /\ \A i \in 1..Len(s.calls) : s.calls[i].txn \notin ans
  /\ \A k, l \in 1..Len(ib) : IsAnswer(ib[k]) /\ IsAnswer(ib[l]) => k = l

(* A call waits under the number of the request it stands for.             *)
Named(s) ==
  \A i \in 1..Len(s.out), j \in 1..Len(s.calls) :
     s.out[i].name \in Requests /\ s.out[i].txn = s.calls[j].txn => s.out[i].name = s.calls[j].name

(* connect is said once, and until it is answered nothing else happens.    *)
ConnectFirst(s, ib) ==
  /\ \A i, j \in 1..Len(s.out) : s.out[i].name = "connect" /\ s.out[j].name = "connect" => i = j
  /\ InOut(s, "connect") => ~Answered(s, ib, "connect")
  /\ Live(s, ib, "connect") =>
        ~Live(s, ib, "createStream") /\ ~Live(s, ib, "publish") /\ ~Starts(ib)

(* What was published was created.                                         *)
Created(s, ib, g) ==
  /\ Live(s, ib, "createStream") => s.n >= 1
  /\ Live(s, ib, "publish") \/ Starts(ib) => s.cur >= 1
  /\ \A k \in 1..Len(ib) :
        Answers(s, ib[k], "createStream") /\ ib[k].name = "_result" => ib[k].id \in g
  /\ \A i \in 1..Len(s.out) : s.out[i].name = "publish" => s.out[i].sid \in g

(* The one stream has the id it was given; without streams there is none.  *)
Placed(s, g, sl) == s.n = 1 /\ ~sl /\ s.cur >= 1 => s.ids[0] \in g
EmptyOK(s) == s.n = 0 => s.ids[0] <= 0

(* A connection while RTMP_ConnectStream reads: s is the structure, ib     *)
(* what is on its way to it, g the streams granted, ans the transactions   *)
(* answered, sl whether the index slipped before.                          *)
Agrees(s, ib, g, ans, sl) ==
  s.open => /\ CallsNumbered(s) /\ Numbered(s, ib, ans) /\ Named(s)
            /\ ConnectFirst(s, ib) /\ Created(s, ib, g) /\ Placed(s, g, sl)
            /\ Live(s, ib, "connect") /\ s.n = 1 /\ ~sl => s.cur = 0

(* What SessionInv says of the structure, where rtmp-stream stands at p.   *)
Settled(t, p, ib, g, ans, sl) ==
  /\ StructOK(t) /\ CallsNumbered(t)
  /\ \A i \in 1..Len(t.out) : t.out[i].name = "publish" => t.out[i].sid \in g
  /\ t.n = 0 /\ ~sl => t.cur = 0
  /\ p \in {"idle", "reading"} => ~t.playing
  /\ p = "reading" => Agrees(t, ib, g, ans, sl)
  /\ p = "sending" => t.playing /\ t.out = <<>> /\ t.cur >= 1 /\ Placed(t, g, sl)
  /\ p \in {"reading", "sending"} => EmptyOK(t)

SessionInv ==
  /\ SocketsInv
  /\ Settled(r, pc, inbox, ghost.granted, ghost.answered, ghost.slipped)
  /\ inbox \in Seq(Packets) /\ IsFiniteSet(ghost.granted) /\ ghost.slipped \in BOOLEAN
-----------------------------------------------------------------------------
(* What the functions of the library make of streams and calls.            *)

Fit(s) == StructOK(s) /\ EmptyOK(s)

(* A function leaves the streams alone or, with the session, drops them.   *)
Kept(s, t) ==
  /\ Fit(t)
  /\ (t.n = s.n /\ t.cur = s.cur) \/ (t.n = 0 /\ t.cur = 0)
  /\ ~t.open => t.ids[0] <= 0
  /\ t.open => s.open /\ t.n = s.n /\ t.cur = s.cur

LEMMA KeptOn ==
  ASSUME NEW s, NEW t, NEW u, Kept(s, t), Kept(t, u)
  PROVE  Kept(s, u)
  BY DEF Kept

LEMMA ForgetFits ==
  ASSUME NEW s, Shape(s), EmptyOK(s)
  PROVE  Kept(s, Forget(s)) /\ ~Forget(s).open /\ Forget(s).orphans = s.orphans
<1> DEFINE forgotten == [i \in 0..MaxIdx |-> IF i < s.n THEN -1 ELSE s.ids[i]]
           a == [s EXCEPT !.open = FALSE, !.playing = FALSE, !.calls = <<>>, !.inv = 0,
                       !.bw = 0, !.in = 0, !.reported = 0, !.out = <<>>, !.room = 0,
                       !.ids = forgotten]
           f == Forget(s)
<1>1. forgotten \in [0..MaxIdx -> Int] /\ forgotten[0] <= 0
  <2>1. s.ids \in [0..MaxIdx -> Int] /\ s.n \in Nat /\ (s.n = 0 => s.ids[0] <= 0)
    BY DEF Shape, EmptyOK, MaxIdx
  <2>2. \A i \in 0..MaxIdx : s.ids[i] \in Int
    BY <2>1
  <2>3. forgotten \in [0..MaxIdx -> Int]
    BY <2>2
  <2>4. 0 \in 0..MaxIdx
    BY DEF MaxIdx
  <2> QED BY <2>1, <2>3, <2>4
<1>2. f = IF ~s.clean THEN a
        ELSE [a EXCEPT !.n = 0, !.cur = 0,
                       !.app = IF s.alloc THEN "freed" ELSE a.app,
                       !.tcUrl = IF s.alloc THEN "freed" ELSE a.tcUrl]
  BY DEF Forget
<1> HIDE DEF forgotten
<1>3. /\ DOMAIN a = Fields /\ a.open = FALSE /\ a.playing = FALSE /\ a.calls = <<>> /\ a.inv = 0
      /\ a.out = <<>> /\ a.ids = forgotten /\ a.n = s.n /\ a.cur = s.cur /\ a.orphans = s.orphans
  BY DEF Shape, Fields
<1> HIDE DEF a, f
<1>4. /\ DOMAIN f = Fields /\ f.open = FALSE /\ f.playing = FALSE /\ f.calls = <<>> /\ f.inv = 0
      /\ f.out = <<>> /\ f.ids = forgotten /\ f.orphans = s.orphans
      /\ (f.n = s.n /\ f.cur = s.cur) \/ (f.n = 0 /\ f.cur = 0)
  BY <1>2, <1>3 DEF Fields
<1>5. s.n \in 0 .. MaxIdx + 1 /\ s.cur \in Nat /\ s.orphans \subseteq 1..MaxIdx
  BY DEF Shape
<1>6. f.n \in 0 .. MaxIdx + 1 /\ f.cur \in Nat /\ <<>> \in Seq(Calls) /\ <<>> \in Seq(Messages)
  BY <1>4, <1>5 DEF MaxIdx
<1>7. StructOK(f)
  <2>1. f.open \in BOOLEAN /\ f.playing \in BOOLEAN
    BY <1>4
  <2>2. f.inv \in Nat /\ f.ids \in [0..MaxIdx -> Int]
    BY <1>1, <1>4
  <2>3. f.calls \in Seq(Calls) /\ f.out \in Seq(Messages) /\ f.orphans \subseteq 1..MaxIdx
    BY <1>4, <1>5, <1>6
  <2>4. ~f.open => ~f.playing /\ f.out = <<>> /\ f.calls = <<>>
    BY <1>4
  <2>5. f.n \in 0 .. MaxIdx + 1 /\ f.cur \in Nat /\ DOMAIN f = Fields
    BY <1>4, <1>6
  <2> QED BY <2>1, <2>2, <2>3, <2>4, <2>5 DEF StructOK, Shape
<1> QED BY <1>1, <1>4, <1>7 DEF Kept, Fit, EmptyOK, f

LEMMA SockCloses ==
  ASSUME NEW s, Shape(s), EmptyOK(s)
  PROVE  LET t == Forget(IF s.open THEN RTMPSockBuf_Close(s) ELSE s)
         IN  Kept(s, t) /\ ~t.open /\ t.orphans = s.orphans
<1> DEFINE v == RTMPSockBuf_Close(s)
           u == IF s.open THEN v ELSE s
<1>1. DOMAIN v = DOMAIN s /\ \A f \in DOMAIN s \ {"socks"} : v[f] = s[f]
  BY DEF RTMPSockBuf_Close
<1>2. /\ DOMAIN v = Fields /\ v.open = s.open /\ v.ids = s.ids /\ v.n = s.n /\ v.cur = s.cur
      /\ v.orphans = s.orphans
  BY <1>1 DEF Shape, Fields
<1> HIDE DEF v
<1>3. Shape(v) /\ EmptyOK(v)
  BY <1>2 DEF Shape, EmptyOK
<1>4. Shape(u) /\ EmptyOK(u) /\ u.n = s.n /\ u.cur = s.cur /\ u.orphans = s.orphans
  BY <1>2, <1>3
<1> HIDE DEF u
<1>5. Kept(u, Forget(u)) /\ ~Forget(u).open /\ Forget(u).orphans = u.orphans
  BY <1>4, ForgetFits
<1> QED BY <1>4, <1>5 DEF Kept, u, v

(* The rest of the structure, for a session that stays open.               *)
Rest(s, t) ==
  /\ t.n = s.n /\ t.cur = s.cur /\ t.ids = s.ids /\ t.playing = s.playing
  /\ s.open = TRUE /\ t.orphans = s.orphans

LEMMA WriteNFits ==
  ASSUME NEW s, Shape(s), EmptyOK(s), NEW msgs
  PROVE  LET t == WriteN(s, msgs)
         IN  /\ t.orphans = s.orphans
             /\ ~t.open => Kept(s, t)
             /\ t.open <=> Takes(s, Len(msgs))
             /\ t.open => /\ DOMAIN t = Fields /\ t.open = TRUE /\ Rest(s, t)
                          /\ t.out = s.out \o msgs /\ t.calls = s.calls /\ t.inv = s.inv
<1> DEFINE t == WriteN(s, msgs)
<1>1. CASE Takes(s, Len(msgs))
  <2>1. s.open = TRUE
    BY <1>1 DEF Takes, Shape
  <2> DEFINE o == s.out \o msgs
             k == IF s.room = Many THEN Many ELSE s.room - Len(msgs)
  <2>2. t = [s EXCEPT !.out = o, !.room = k]
    BY <1>1 DEF WriteN
  <2> HIDE DEF o, k, t
  <2>3. /\ DOMAIN t = DOMAIN s /\ t.out = o
        /\ \A f \in DOMAIN s \ {"out", "room"} : t[f] = s[f]
    BY <2>2 DEF Shape, Fields
  <2>4. /\ DOMAIN t = Fields /\ t.open = s.open /\ t.playing = s.playing /\ t.ids = s.ids
        /\ t.n = s.n /\ t.cur = s.cur /\ t.calls = s.calls /\ t.inv = s.inv /\ t.orphans = s.orphans
    BY <2>3 DEF Shape, Fields
  <2> QED BY <1>1, <2>1, <2>3, <2>4 DEF Rest, o, t
<1>2. CASE ~Takes(s, Len(msgs))
  <2>1. t = Forget(IF s.open THEN RTMPSockBuf_Close(s) ELSE s)
    BY <1>2 DEF WriteN
  <2>2. Kept(s, t) /\ ~t.open /\ t.orphans = s.orphans
    BY <2>1, SockCloses
  <2> QED BY <1>2, <2>2
<1> QED BY <1>1, <1>2

(* What invokes put on the way to the peer.                                *)
Sent(s, cs) == [i \in 1..Len(cs) |-> Msg(cs[i].name, s.inv + i, cs[i].sid)]

LEMMA InvokesFits ==
  ASSUME NEW s, Shape(s), EmptyOK(s), NEW cs, Len(cs) \in Nat, NEW queue
  PROVE  LET t == Invokes(s, cs, queue)
         IN  /\ t.orphans = s.orphans
             /\ ~t.open => Kept(s, t)
             /\ t.open => /\ DOMAIN t = Fields /\ t.open = TRUE /\ Rest(s, t)
                          /\ t.out = s.out \o Sent(s, cs)
                          /\ t.calls = (IF queue THEN AV_queue(s, cs) ELSE s.calls)
                          /\ t.inv = s.inv + Len(cs)
<1> DEFINE msgs == Sent(s, cs)
           w == WriteN(s, msgs)
           calls == IF queue THEN AV_queue(s, cs) ELSE w.calls
           t == Invokes(s, cs, queue)
<1>1. Len(msgs) = Len(cs)
  BY DEF Sent
<1>2. t = IF ~Takes(s, Len(msgs)) THEN w ELSE [w EXCEPT !.inv = w.inv + Len(cs), !.calls = calls]
  BY <1>1 DEF Invokes, Sent
<1>3. /\ w.orphans = s.orphans
      /\ ~w.open => Kept(s, w)
      /\ w.open <=> Takes(s, Len(msgs))
      /\ w.open => /\ DOMAIN w = Fields /\ w.open = TRUE /\ Rest(s, w)
                   /\ w.out = s.out \o msgs /\ w.calls = s.calls /\ w.inv = s.inv
  BY WriteNFits
<1> HIDE DEF w, msgs
<1>4. CASE ~w.open
  BY <1>2, <1>3, <1>4
<1>5. CASE w.open
  <2> HIDE DEF calls, t
  <2>1. t = [w EXCEPT !.inv = w.inv + Len(cs), !.calls = calls]
    BY <1>2, <1>3, <1>5
  <2>2. /\ DOMAIN w = Fields /\ w.open = TRUE /\ w.n = s.n /\ w.cur = s.cur /\ w.ids = s.ids
        /\ w.playing = s.playing /\ s.open = TRUE /\ w.orphans = s.orphans
        /\ w.out = s.out \o msgs /\ w.calls = s.calls /\ w.inv = s.inv
    BY <1>3, <1>5 DEF Rest
  <2>3. /\ DOMAIN t = Fields /\ t.open = TRUE /\ t.n = w.n /\ t.cur = w.cur /\ t.ids = w.ids
        /\ t.playing = w.playing /\ t.orphans = w.orphans /\ t.out = w.out
        /\ t.inv = w.inv + Len(cs) /\ t.calls = calls
    BY <2>1, <2>2 DEF Fields
  <2>4. Rest(s, t)
    BY <2>2, <2>3 DEF Rest
  <2>5. calls = IF queue THEN AV_queue(s, cs) ELSE s.calls
    BY <2>2 DEF calls
  <2> QED BY <2>2, <2>3, <2>4, <2>5 DEF t, msgs
<1> QED BY <1>4, <1>5

(* Nothing is gone, whether the invokes could be written or not.           *)
Leaves(s, t) ==
  /\ t.orphans = s.orphans
  /\ ~t.open => Kept(s, t)
  /\ t.open => DOMAIN t = Fields /\ t.open = TRUE /\ Rest(s, t)

LEMMA InvokesLeave ==
  ASSUME NEW s, Shape(s), EmptyOK(s), NEW cs, Len(cs) \in Nat, NEW queue
  PROVE  Leaves(s, Invokes(s, cs, queue))
<1> DEFINE t == Invokes(s, cs, queue)
<1>1. /\ t.orphans = s.orphans
      /\ ~t.open => Kept(s, t)
      /\ t.open => /\ DOMAIN t = Fields /\ t.open = TRUE /\ Rest(s, t)
                   /\ t.out = s.out \o Sent(s, cs)
                   /\ t.calls = (IF queue THEN AV_queue(s, cs) ELSE s.calls)
                   /\ t.inv = s.inv + Len(cs)
  BY InvokesFits, Zenon
<1> HIDE DEF t
<1>2. Leaves(s, t)
  BY <1>1 DEF Leaves
<1> QED BY <1>2 DEF t

LEMMA UnqueuedFits ==
  ASSUME NEW s, Shape(s), EmptyOK(s), NEW cs, Len(cs) \in Nat, Invokes(s, cs, FALSE).open
  PROVE  LET t == Invokes(s, cs, FALSE)
         IN  Rest(s, t) /\ t.out = s.out \o Sent(s, cs) /\ t.calls = s.calls /\ t.inv = s.inv + Len(cs)
<1> DEFINE u(q) == Invokes(s, cs, q)
<1>1. ASSUME NEW q \in BOOLEAN
      PROVE  /\ u(q).orphans = s.orphans
             /\ ~u(q).open => Kept(s, u(q))
             /\ u(q).open => /\ DOMAIN u(q) = Fields /\ u(q).open = TRUE /\ Rest(s, u(q))
                             /\ u(q).out = s.out \o Sent(s, cs)
                             /\ u(q).calls = (IF q THEN AV_queue(s, cs) ELSE s.calls)
                             /\ u(q).inv = s.inv + Len(cs)
  BY InvokesFits
<1> HIDE DEF u
<1>2. u(FALSE).open => /\ Rest(s, u(FALSE)) /\ u(FALSE).out = s.out \o Sent(s, cs)
                       /\ u(FALSE).inv = s.inv + Len(cs) /\ u(FALSE).calls = s.calls
  BY <1>1
<1> QED BY <1>2 DEF u

LEMMA CloseFits ==
  ASSUME NEW s, Shape(s), EmptyOK(s)
  PROVE  Kept(s, RTMP_Close(s)) /\ ~RTMP_Close(s).open
<1> DEFINE known == {i \in 0..MaxIdx : i < s.n /\ s.ids[i] > 0}
           nth(k) == CHOOSE i \in known : Cardinality({j \in known : j <= i}) = k
           pair(k) == IF k % 2 = 1 THEN SendFCUnpublish ELSE SendDeleteStream(s.ids[nth(k \div 2)])
           cs == [k \in 1..(2 * Cardinality(known)) |-> pair(k)]
           v == Invokes(s, cs, FALSE)
           zero == [i \in 0..MaxIdx |-> IF i < s.n THEN 0 ELSE v.ids[i]]
           u == Unpublish(s)
           k == Forget(RTMPSockBuf_Close(u))
           o == u.ids
           c == RTMP_Close(s)
<1>1. CASE ~s.open
  BY <1>1, SockCloses DEF RTMP_Close
<1>2. Len(cs) \in Nat
  <2>1. IsFiniteSet(0..MaxIdx)
    <3>1. MaxIdx \in Int
      BY DEF MaxIdx
    <3> QED BY <3>1, FS_Interval
  <2>2. Cardinality(known) \in Nat
    BY <2>1, FS_Subset, FS_CardinalityType
  <2> HIDE DEF known
  <2>3. 2 * Cardinality(known) \in Nat
    BY <2>2
  <2> QED BY <2>3
<1>3. u = IF v.open THEN [v EXCEPT !.ids = zero] ELSE v
  BY DEF Unpublish
<1>4. /\ v.orphans = s.orphans
      /\ ~v.open => Kept(s, v)
      /\ v.open => DOMAIN v = Fields /\ v.open = TRUE /\ Rest(s, v)
  <2> HIDE DEF cs
  <2>1. Leaves(s, v)
    BY <1>2, InvokesLeave
  <2> HIDE DEF v
  <2> QED BY <2>1 DEF Leaves
<1> HIDE DEF v, zero
<1>5. CASE s.open /\ ~v.open
  <2>1. u = v
    BY <1>3, <1>5
  <2>2. c = u
    BY <1>5, <2>1 DEF RTMP_Close
  <2> QED BY <1>4, <1>5, <2>1, <2>2
<1>6. CASE s.open /\ v.open
  <2> HIDE DEF u
  <2>1. /\ DOMAIN u = Fields /\ u.open = TRUE /\ u.ids = zero /\ u.n = s.n /\ u.cur = s.cur
        /\ u.orphans = s.orphans
    BY <1>3, <1>4, <1>6 DEF Fields, Rest
  <2>2. v.ids = s.ids
    BY <1>4, <1>6 DEF Rest
  <2>3. zero \in [0..MaxIdx -> Int] /\ zero[0] <= 0
    <3>1. s.ids \in [0..MaxIdx -> Int] /\ s.n \in Nat /\ (s.n = 0 => s.ids[0] <= 0)
      BY DEF Shape, EmptyOK, MaxIdx
    <3>2. \A i \in 0..MaxIdx : s.ids[i] \in Int
      BY <3>1
    <3>3. zero \in [0..MaxIdx -> Int]
      BY <2>2, <3>2 DEF zero
    <3>4. 0 \in 0..MaxIdx
      BY DEF MaxIdx
    <3> QED BY <2>2, <3>1, <3>3, <3>4 DEF zero
  <2>4. Shape(u) /\ EmptyOK(u)
    BY <2>1, <2>3 DEF Shape, EmptyOK
  <2>5. k = Forget(IF u.open THEN RTMPSockBuf_Close(u) ELSE u)
    BY <2>1
  <2>6. Kept(u, k) /\ ~k.open /\ k.orphans = s.orphans
    BY <2>1, <2>4, <2>5, SockCloses
  <2> DEFINE left == k.orphans \cup {i \in 0..MaxIdx : o[i] > 0}
  <2>7. c = [k EXCEPT !.orphans = left]
    BY <1>6, <2>1 DEF RTMP_Close, u
  <2>8. left \subseteq 1..MaxIdx
    BY <2>1, <2>3, <2>6 DEF Shape
  <2> HIDE DEF k, left, o
  <2>9. DOMAIN k = Fields
    BY <2>6 DEF Kept, Fit, StructOK, Shape
  <2>10. /\ DOMAIN c = Fields /\ c.orphans = left
         /\ \A f \in Fields \ {"orphans"} : c[f] = k[f]
    BY <2>7, <2>9 DEF Fields
  <2>11. Fit(c) /\ ~c.open /\ c.n = k.n /\ c.cur = k.cur /\ c.ids = k.ids
    BY <2>6, <2>8, <2>10 DEF Kept, Fit, StructOK, Shape, EmptyOK, Fields
  <2> QED BY <2>1, <2>6, <2>11 DEF Kept
<1> QED BY <1>1, <1>5, <1>6
-----------------------------------------------------------------------------
(* What the handlers make of it.                                           *)

Turn(s, ib, g, ans, sl) ==
  Fit(s) /\ Agrees(s, ib, g, ans, sl) /\ (s.playing => s.cur >= 1)

LEMMA MessagesTyped ==
  ASSUME NEW q \in Seq(Messages)
  PROVE  \A i \in 1..Len(q) : q[i].txn \in Nat /\ q[i].sid \in Int
<1>1. \A i \in 1..Len(q) : q[i] \in Messages
  OBVIOUS
<1> QED BY <1>1 DEF Messages

LEMMA CallsTyped ==
  ASSUME NEW q \in Seq(Calls)
  PROVE  \A i \in 1..Len(q) : q[i].txn \in Nat
<1>1. \A i \in 1..Len(q) : q[i] \in Calls
  OBVIOUS
<1> QED BY <1>1 DEF Calls

LEMMA StructWritten ==
  ASSUME NEW s, Fit(s), NEW msgs \in Seq(Messages)
  PROVE  Kept(s, WriteN(s, msgs))
<1> DEFINE t == WriteN(s, msgs)
<1>1. Shape(s) /\ EmptyOK(s) /\ s.out \in Seq(Messages) /\ s.playing \in BOOLEAN
      /\ s.calls \in Seq(Calls) /\ s.inv \in Nat
  BY DEF Fit, StructOK
<1>2. /\ t.orphans = s.orphans
      /\ ~t.open => Kept(s, t)
      /\ t.open => /\ DOMAIN t = Fields /\ t.open = TRUE /\ Rest(s, t)
                   /\ t.out = s.out \o msgs /\ t.calls = s.calls /\ t.inv = s.inv
  BY <1>1, WriteNFits
<1>3. s.out \o msgs \in Seq(Messages)
  BY <1>1
<1> HIDE DEF t
<1>4. ASSUME t.open PROVE Kept(s, t)
  <2>1. /\ t.n = s.n /\ t.cur = s.cur /\ t.ids = s.ids /\ t.playing = s.playing /\ s.open = TRUE
        /\ t.out \in Seq(Messages) /\ t.open = TRUE
    BY <1>2, <1>3, <1>4 DEF Rest
  <2>2. Shape(t) /\ EmptyOK(t)
    BY <1>1, <1>2, <1>4, <2>1 DEF Shape, EmptyOK
  <2>3. StructOK(t)
    BY <1>1, <1>2, <1>4, <2>1, <2>2 DEF StructOK
  <2> QED BY <2>1, <2>2, <2>3 DEF Kept, Fit
<1> QED BY <1>2, <1>4 DEF t

(* Only some of the fields matter.                                         *)
LEMMA AgreesSame ==
  ASSUME NEW s, NEW t, NEW ib, NEW g, NEW ans, NEW sl, Agrees(s, ib, g, ans, sl), s.open,
         t.n = s.n, t.cur = s.cur, t.ids = s.ids, t.calls = s.calls, t.inv = s.inv, t.out = s.out
  PROVE  Agrees(t, ib, g, ans, sl)
  BY DEF Agrees, CallsNumbered, Numbered, Named, ConnectFirst, Created, Placed, Live, InOut,
         Answered, Answers

Milestones == {"connect", "createStream", "publish"}

(* Messages that await nothing, and releaseStream, change nothing.         *)
LEMMA AgreesMore ==
  ASSUME NEW s, NEW t, NEW ib, NEW g, NEW ans, NEW sl, Agrees(s, ib, g, ans, sl), s.open,
         Fit(s), Fit(t), t.n = s.n, t.cur = s.cur, t.ids = s.ids, t.calls = s.calls,
         t.inv >= s.inv, NEW w \in Seq(Messages), t.out = s.out \o w,
         \A i \in 1..Len(w) : /\ w[i].name \notin Milestones
                              /\ w[i].name = "releaseStream" => s.inv < w[i].txn /\ w[i].txn <= t.inv
  PROVE  Agrees(t, ib, g, ans, sl)
<1>1. s.out \in Seq(Messages) /\ s.calls \in Seq(Calls) /\ s.inv \in Nat /\ t.inv \in Nat
  BY DEF Fit, StructOK
<1>2. Len(t.out) = Len(s.out) + Len(w) /\ Len(s.out) \in Nat /\ Len(w) \in Nat
  BY <1>1
<1>3. \A i \in 1..Len(s.out) : i \in 1..Len(t.out) /\ t.out[i] = s.out[i]
  BY <1>1, <1>2
<1>4. \A i \in 1..Len(t.out) :
        \/ i \in 1..Len(s.out) /\ t.out[i] = s.out[i]
        \/ \E j \in 1..Len(w) : t.out[i] = w[j]
  <2> SUFFICES ASSUME NEW i \in 1..Len(t.out), i \notin 1..Len(s.out)
               PROVE  \E j \in 1..Len(w) : t.out[i] = w[j]
    BY <1>3
  <2>1. i - Len(s.out) \in 1..Len(w)
    BY <1>2
  <2>2. t.out[i] = w[i - Len(s.out)]
    BY <1>1, <1>2
  <2> QED BY <2>1, <2>2
<1>5. \A i \in 1..Len(s.out) : s.out[i].txn \in Nat
  BY <1>1, MessagesTyped
<1>6. \A j \in 1..Len(w) : w[j].txn \in Nat
  BY MessagesTyped
<1>7. \A j \in 1..Len(s.calls) : s.calls[j].txn \in Nat
  BY <1>1, CallsTyped
<1>8. \A i \in 1..Len(t.out) : t.out[i].name \in Milestones =>
        i \in 1..Len(s.out) /\ t.out[i] = s.out[i]
  BY <1>4
<1>9. \A name \in Milestones : InOut(t, name) = InOut(s, name)
  BY <1>3, <1>8 DEF InOut
<1>10. \A name : Answered(t, ib, name) = Answered(s, ib, name)
  BY DEF Answered, Answers
<1>11. /\ CallsNumbered(s) /\ Numbered(s, ib, ans) /\ Named(s) /\ ConnectFirst(s, ib)
       /\ Created(s, ib, g) /\ Placed(s, g, sl)
       /\ (Live(s, ib, "connect") /\ s.n = 1 /\ ~sl => s.cur = 0)
  BY DEF Agrees
<1>12. CallsNumbered(t)
  <2>1. \A i \in 1..Len(t.calls) : t.calls[i].txn <= t.inv
    <3> SUFFICES ASSUME NEW i \in 1..Len(s.calls) PROVE s.calls[i].txn <= t.inv
      OBVIOUS
    <3>1. s.calls[i].txn <= s.inv
      BY <1>11 DEF CallsNumbered
    <3>2. s.calls[i].txn \in Nat
      BY <1>7
    <3> QED BY <1>1, <3>1, <3>2
  <2>2. \A i, j \in 1..Len(t.calls) : i # j => t.calls[i].txn # t.calls[j].txn
    <3>1. \A i, j \in 1..Len(s.calls) : i # j => s.calls[i].txn # s.calls[j].txn
      BY <1>11, Zenon DEF CallsNumbered
    <3> QED BY <3>1
  <2> QED BY <2>1, <2>2 DEF CallsNumbered
<1>13. Numbered(t, ib, ans)
  <2>1. \A i \in 1..Len(t.out) : t.out[i].name \in Requests => t.out[i].txn <= t.inv
    <3> SUFFICES ASSUME NEW i \in 1..Len(t.out), t.out[i].name \in Requests
                 PROVE  t.out[i].txn <= t.inv
      OBVIOUS
    <3>1. CASE i \in 1..Len(s.out) /\ t.out[i] = s.out[i]
      BY <1>1, <1>5, <1>11, <3>1 DEF Numbered
    <3>2. CASE \E j \in 1..Len(w) : t.out[i] = w[j]
      BY <3>2 DEF Requests, Milestones
    <3> QED BY <1>4, <3>1, <3>2
  <2>2. \A k \in 1..Len(ib) : IsAnswer(ib[k]) => ib[k].txn \in Nat /\ ib[k].txn <= t.inv
    BY <1>1, <1>11 DEF Numbered
  <2>3. \A a \in ans : a \in Nat /\ a <= t.inv
    BY <1>1, <1>11 DEF Numbered
  <2> QED BY <1>11, <2>1, <2>2, <2>3 DEF Numbered
<1>14. Named(t)
  <2> SUFFICES ASSUME NEW i \in 1..Len(t.out), NEW j \in 1..Len(t.calls),
                      t.out[i].name \in Requests, t.out[i].txn = t.calls[j].txn
               PROVE  t.out[i].name = t.calls[j].name
    BY DEF Named
  <2>1. CASE i \in 1..Len(s.out) /\ t.out[i] = s.out[i]
    BY <1>11, <2>1 DEF Named
  <2>2. CASE \E k \in 1..Len(w) : t.out[i] = w[k]
    <3>1. PICK k \in 1..Len(w) : t.out[i] = w[k]
      BY <2>2
    <3>2. w[k].name = "releaseStream"
      BY <3>1 DEF Requests, Milestones
    <3>3. s.inv < s.calls[j].txn
      BY <3>1, <3>2
    <3>4. s.calls[j].txn <= s.inv
      BY <1>11 DEF CallsNumbered
    <3> QED BY <1>1, <1>7, <3>3, <3>4
  <2> QED BY <1>4, <2>1, <2>2
<1>15. \A name \in Milestones : Live(t, ib, name) = Live(s, ib, name)
  BY <1>9, <1>10 DEF Live
<1>16. ConnectFirst(t, ib)
  <2>1. \A i, j \in 1..Len(t.out) : t.out[i].name = "connect" /\ t.out[j].name = "connect" => i = j
    BY <1>8, <1>11 DEF ConnectFirst, Milestones
  <2> QED BY <1>9, <1>10, <1>11, <1>15, <2>1 DEF ConnectFirst, Milestones
<1>17. Created(t, ib, g)
  <2>1. \A i \in 1..Len(t.out) : t.out[i].name = "publish" => t.out[i].sid \in g
    BY <1>8, <1>11 DEF Created, Milestones
  <2>2. \A name : \A k \in 1..Len(ib) : Answers(t, ib[k], name) = Answers(s, ib[k], name)
    BY DEF Answers
  <2> QED BY <1>11, <1>15, <2>1, <2>2 DEF Created, Milestones
<1>18. Placed(t, g, sl) /\ (Live(t, ib, "connect") /\ t.n = 1 /\ ~sl => t.cur = 0)
  BY <1>11, <1>15 DEF Placed, Milestones
<1> QED BY <1>12, <1>13, <1>14, <1>16, <1>17, <1>18 DEF Agrees

(* Calls that are forgotten leave the others as they were.                 *)
LEMMA AgreesLess ==
  ASSUME NEW s, NEW t, NEW ib, NEW g, NEW ans, NEW sl, Agrees(s, ib, g, ans, sl), s.open,
         t.n = s.n, t.cur = s.cur, t.ids = s.ids, t.out = s.out, t.inv = s.inv,
         NEW from, \A i \in 1..Len(t.calls) : /\ from[i] \in 1..Len(s.calls)
                                              /\ t.calls[i] = s.calls[from[i]]
                                              /\ \A j \in 1..Len(t.calls) : i # j => from[i] # from[j]
  PROVE  Agrees(t, ib, g, ans, sl)
<1>1. /\ CallsNumbered(s) /\ Numbered(s, ib, ans) /\ Named(s) /\ ConnectFirst(s, ib)
      /\ Created(s, ib, g) /\ Placed(s, g, sl)
      /\ (Live(s, ib, "connect") /\ s.n = 1 /\ ~sl => s.cur = 0)
  BY DEF Agrees
<1>2. \A m, name : Answers(t, m, name) => Answers(s, m, name)
  BY DEF Answers
<1>3. \A name : Answered(t, ib, name) => Answered(s, ib, name)
  BY <1>2 DEF Answered
<1>4. \A name : InOut(t, name) = InOut(s, name)
  BY DEF InOut
<1>5. \A name : Live(t, ib, name) => Live(s, ib, name)
  BY <1>3, <1>4 DEF Live
<1>6. CallsNumbered(t)
  <2> SUFFICES ASSUME NEW i \in 1..Len(t.calls)
               PROVE  /\ t.calls[i].txn <= t.inv
                      /\ \A j \in 1..Len(t.calls) : i # j => t.calls[i].txn # t.calls[j].txn
    BY DEF CallsNumbered
  <2>1. t.calls[i].txn <= t.inv
    BY <1>1 DEF CallsNumbered
  <2>2. ASSUME NEW j \in 1..Len(t.calls), i # j PROVE t.calls[i].txn # t.calls[j].txn
    <3>1. from[i] \in 1..Len(s.calls) /\ from[j] \in 1..Len(s.calls) /\ from[i] # from[j]
      BY <2>2
    <3>2. s.calls[from[i]].txn # s.calls[from[j]].txn
      BY <1>1, <3>1 DEF CallsNumbered
    <3> QED BY <3>2
  <2> QED BY <2>1, <2>2
<1>7. Numbered(t, ib, ans)
  BY <1>1 DEF Numbered
<1>8. Named(t)
  <2> SUFFICES ASSUME NEW i \in 1..Len(t.out), NEW j \in 1..Len(t.calls),
                      t.out[i].name \in Requests, t.out[i].txn = t.calls[j].txn
               PROVE  t.out[i].name = t.calls[j].name
    BY DEF Named
  <2>1. i \in 1..Len(s.out) /\ t.out[i] = s.out[i]
    OBVIOUS
  <2>2. from[j] \in 1..Len(s.calls) /\ t.calls[j] = s.calls[from[j]]
    OBVIOUS
  <2>3. s.out[i].name = s.calls[from[j]].name
    <3>1. s.out[i].name \in Requests /\ s.out[i].txn = s.calls[from[j]].txn
      BY <2>1, <2>2
    <3>2. \A k \in 1..Len(s.out), n \in 1..Len(s.calls) :
             s.out[k].name \in Requests /\ s.out[k].txn = s.calls[n].txn => s.out[k].name = s.calls[n].name
      BY ONLY <1>1 DEF Named
    <3> QED BY ONLY <2>1, <2>2, <3>1, <3>2
  <2> QED BY <2>1, <2>2, <2>3
<1>9. ConnectFirst(t, ib)
  BY <1>1, <1>3, <1>4, <1>5 DEF ConnectFirst
<1>10. Created(t, ib, g)
  BY <1>1, <1>2, <1>5 DEF Created
<1>11. Placed(t, g, sl) /\ (Live(t, ib, "connect") /\ t.n = 1 /\ ~sl => t.cur = 0)
  BY <1>1, <1>5 DEF Placed
<1> QED BY <1>6, <1>7, <1>8, <1>9, <1>10, <1>11 DEF Agrees

(* A packet that is handled leaves those behind it.                        *)
LEMMA AgreesTail ==
  ASSUME NEW s, NEW ib \in Seq(Packets), ib # <<>>, NEW g, NEW ans, NEW sl,
         Agrees(s, ib, g, ans, sl), s.open
  PROVE  Agrees(s, Tail(ib), g, ans, sl)
<1> DEFINE tl == Tail(ib)
<1>1. /\ CallsNumbered(s) /\ Numbered(s, ib, ans) /\ Named(s) /\ ConnectFirst(s, ib)
      /\ Created(s, ib, g) /\ Placed(s, g, sl)
      /\ (Live(s, ib, "connect") /\ s.n = 1 /\ ~sl => s.cur = 0)
  BY DEF Agrees
<1>2. \A k \in 1..Len(tl) : k + 1 \in 1..Len(ib) /\ tl[k] = ib[k + 1]
  OBVIOUS
<1> HIDE DEF tl
<1>3. \A name : Answered(s, tl, name) => Answered(s, ib, name)
  BY <1>2 DEF Answered
<1>4. Starts(tl) => Starts(ib)
  BY <1>2 DEF Starts
<1>5. \A name : Live(s, tl, name) => Live(s, ib, name)
  BY <1>3 DEF Live
<1>6. Numbered(s, tl, ans)
  <2>1. \A k, l \in 1..Len(tl) : IsAnswer(tl[k]) /\ IsAnswer(tl[l]) => k = l
    <3> SUFFICES ASSUME NEW k \in 1..Len(tl), NEW l \in 1..Len(tl), IsAnswer(tl[k]), IsAnswer(tl[l])
                 PROVE  k = l
      OBVIOUS
    <3>1. k + 1 = l + 1
      BY <1>1, <1>2 DEF Numbered
    <3> QED BY <3>1
  <2>2. \A k \in 1..Len(tl) : IsAnswer(tl[k]) => tl[k].txn \in Nat /\ tl[k].txn <= s.inv
    BY <1>1, <1>2 DEF Numbered
  <2> QED BY <1>1, <2>1, <2>2 DEF Numbered
<1>7. ConnectFirst(s, tl)
  BY <1>1, <1>3, <1>4, <1>5 DEF ConnectFirst
<1>8. Created(s, tl, g)
  BY <1>1, <1>2, <1>4, <1>5 DEF Created
<1> QED BY <1>1, <1>5, <1>6, <1>7, <1>8 DEF Agrees, tl

(* A transaction is answered once no call waits for it.                    *)
LEMMA AgreesAnswered ==
  ASSUME NEW s, NEW ib, NEW g, NEW ans, NEW sl, Agrees(s, ib, g, ans, sl), s.open,
         NEW txn \in Nat, txn <= s.inv, \A i \in 1..Len(s.calls) : s.calls[i].txn # txn
  PROVE  Agrees(s, ib, g, ans \cup {txn}, sl)
<1>1. Numbered(s, ib, ans) => Numbered(s, ib, ans \cup {txn})
  BY DEF Numbered
<1> QED BY <1>1 DEF Agrees

(* q is c without the entry at i: index by index.                          *)
Without(q, c, i) ==
  \E from : \A j \in 1..Len(q) : /\ from[j] \in 1..Len(c) /\ from[j] # i
                                 /\ q[j] = c[from[j]]
                                 /\ \A k \in 1..Len(q) : j # k => from[j] # from[k]
LEMMA EraseFits ==
  ASSUME NEW s, Fit(s), NEW i \in 1..Len(s.calls)
  PROVE  LET e == AV_erase(s, i)
         IN  /\ Fit(e) /\ e.open = s.open /\ e.n = s.n /\ e.cur = s.cur /\ e.ids = s.ids
             /\ e.out = s.out /\ e.inv = s.inv /\ e.playing = s.playing
             /\ Without(e.calls, s.calls, i)
<1> DEFINE c == s.calls
           a == SubSeq(c, 1, i - 1)
           b == SubSeq(c, i + 1, Len(c))
           q == RemoveAt(c, i)
           e == AV_erase(s, i)
           from == [j \in 1..Len(s.calls) |-> IF j < i THEN j ELSE j + 1]
<1>1. c \in Seq(Calls)
  BY DEF Fit, StructOK
<1> HIDE DEF c
<1>2. Len(c) \in Nat /\ i \in 1..Len(c)
  BY <1>1 DEF c
<1>3. a \in Seq(Calls) /\ Len(a) = i - 1 /\ \A j \in 1 .. i - 1 : a[j] = c[j]
  BY <1>1, <1>2
<1>4. b \in Seq(Calls) /\ Len(b) = Len(c) - i /\ \A j \in 1 .. Len(c) - i : b[j] = c[i + j]
  BY <1>1, <1>2
<1>5. q = a \o b
  BY DEF RemoveAt
<1> HIDE DEF a, b
<1>6. q \in Seq(Calls) /\ Len(q) = Len(c) - 1
  BY <1>2, <1>3, <1>4, <1>5
<1>7. \A j \in 1 .. Len(c) - 1 : q[j] = c[IF j < i THEN j ELSE j + 1]
  <2> SUFFICES ASSUME NEW j \in 1 .. Len(c) - 1 PROVE q[j] = c[IF j < i THEN j ELSE j + 1]
    OBVIOUS
  <2>1. CASE j < i
    <3>1. q[j] = a[j]
      BY <1>2, <1>3, <1>4, <1>5, <2>1
    <3> QED BY <1>2, <1>3, <2>1, <3>1
  <2>2. CASE ~(j < i)
    <3>1. q[j] = b[j - (i - 1)]
      BY <1>2, <1>3, <1>4, <1>5, <2>2
    <3>2. j - (i - 1) \in 1 .. Len(c) - i /\ i + (j - (i - 1)) = j + 1
      BY <1>2, <2>2
    <3>3. b[j - (i - 1)] = c[j + 1]
      BY <1>4, <3>2
    <3> QED BY <2>2, <3>1, <3>3
  <2> QED BY <2>1, <2>2
<1>8. e = [s EXCEPT !.calls = q]
  BY DEF AV_erase, c
<1> HIDE DEF q, e
<1>9. /\ DOMAIN e = Fields /\ e.calls = q
      /\ e.open = s.open /\ e.playing = s.playing /\ e.ids = s.ids /\ e.n = s.n /\ e.cur = s.cur
      /\ e.inv = s.inv /\ e.out = s.out /\ e.orphans = s.orphans
  BY <1>8 DEF Fit, StructOK, Shape, Fields
<1>10. Fit(e)
  <2>1. s.open
    <3> SUFFICES ASSUME ~s.open PROVE FALSE
      OBVIOUS
    <3>1. c = <<>>
      BY DEF Fit, StructOK, c
    <3> QED BY <1>2, <3>1
  <2>2. Shape(e) /\ EmptyOK(e)
    BY <1>9 DEF Fit, StructOK, Shape, EmptyOK
  <2>3. StructOK(e)
    BY <1>6, <1>9, <2>1, <2>2 DEF Fit, StructOK
  <2> QED BY <2>2, <2>3 DEF Fit
<1>11. \A j \in 1..Len(q) : /\ from[j] \in 1..Len(c) /\ from[j] # i
                            /\ q[j] = c[from[j]]
                            /\ \A k \in 1..Len(q) : j # k => from[j] # from[k]
  <2>1. \A j \in 1..Len(q) : from[j] = IF j < i THEN j ELSE j + 1
    BY <1>2, <1>6 DEF c
  <2> HIDE DEF from
  <2> QED BY <1>2, <1>6, <1>7, <2>1
<1> HIDE DEF from
<1>12. Without(q, c, i)
  BY <1>11 DEF Without
<1> QED BY <1>9, <1>10, <1>12 DEF c, e

(* Invokes as they are handed to RTMP_SendPacket.                          *)
Invocations == [name : Words, sid : Int]

LEMMA InvokesTyped ==
  ASSUME NEW cs \in Seq(Invocations), NEW s, s.inv \in Nat
  PROVE  /\ Len(cs) \in Nat
         /\ \A i \in 1..Len(cs) : cs[i].name \in Words /\ cs[i].sid \in Int
         /\ Sent(s, cs) \in Seq(Messages)
         /\ [i \in 1..Len(cs) |-> [name |-> cs[i].name, txn |-> s.inv + i]] \in Seq(Calls)
<1>1. \A i \in 1..Len(cs) : cs[i] \in Invocations
  OBVIOUS
<1>2. \A i \in 1..Len(cs) : cs[i].name \in Words /\ cs[i].sid \in Int
  BY <1>1 DEF Invocations
<1>3. Len(cs) \in Nat
  OBVIOUS
<1>4. \A i \in 1..Len(cs) : s.inv + i \in Nat
  BY <1>3
<1>5. \A i \in 1..Len(cs) : Msg(cs[i].name, s.inv + i, cs[i].sid) \in Messages
  BY <1>2, <1>4 DEF Msg, Messages
<1>6. \A i \in 1..Len(cs) : [name |-> cs[i].name, txn |-> s.inv + i] \in Calls
  BY <1>2, <1>4 DEF Calls
<1>7. Sent(s, cs) \in Seq(Messages)
  BY <1>3, <1>5 DEF Sent
<1>8. [i \in 1..Len(cs) |-> [name |-> cs[i].name, txn |-> s.inv + i]] \in Seq(Calls)
  BY <1>3, <1>6
<1> QED BY <1>2, <1>3, <1>7, <1>8

LEMMA InvokesKept ==
  ASSUME NEW s, Fit(s), NEW cs \in Seq(Invocations), NEW queue \in BOOLEAN
  PROVE  Kept(s, Invokes(s, cs, queue))
<1> DEFINE t == Invokes(s, cs, queue)
           msgs == Sent(s, cs)
           queued == [i \in 1..Len(cs) |-> [name |-> cs[i].name, txn |-> s.inv + i]]
<1>1. Shape(s) /\ EmptyOK(s) /\ s.out \in Seq(Messages) /\ s.playing \in BOOLEAN
      /\ s.calls \in Seq(Calls) /\ s.inv \in Nat
  BY DEF Fit, StructOK
<1>2. Len(cs) \in Nat /\ msgs \in Seq(Messages) /\ queued \in Seq(Calls)
  BY <1>1, InvokesTyped
<1>3. /\ t.orphans = s.orphans
      /\ ~t.open => Kept(s, t)
      /\ t.open => /\ DOMAIN t = Fields /\ t.open = TRUE /\ Rest(s, t)
                   /\ t.out = s.out \o msgs
                   /\ t.calls = (IF queue THEN AV_queue(s, cs) ELSE s.calls)
                   /\ t.inv = s.inv + Len(cs)
  BY <1>1, <1>2, InvokesFits
<1>4. AV_queue(s, cs) = s.calls \o queued
  BY DEF AV_queue
<1> HIDE DEF t, msgs, queued
<1>5. s.out \o msgs \in Seq(Messages) /\ s.calls \o queued \in Seq(Calls) /\ s.inv + Len(cs) \in Nat
  BY <1>1, <1>2
<1>6. ASSUME t.open PROVE Kept(s, t)
  <2>1. /\ t.n = s.n /\ t.cur = s.cur /\ t.ids = s.ids /\ t.playing = s.playing /\ s.open = TRUE
        /\ t.open = TRUE /\ t.orphans = s.orphans
    BY <1>3, <1>6 DEF Rest
  <2>2. t.out \in Seq(Messages) /\ t.calls \in Seq(Calls) /\ t.inv \in Nat
    BY <1>1, <1>3, <1>4, <1>5, <1>6
  <2>3. Shape(t) /\ EmptyOK(t)
    BY <1>1, <1>3, <1>6, <2>1 DEF Shape, EmptyOK
  <2>4. StructOK(t)
    BY <1>1, <2>1, <2>2, <2>3 DEF StructOK
  <2> QED BY <2>1, <2>3, <2>4 DEF Kept, Fit
<1> QED BY <1>3, <1>6 DEF t

LEMMA Appended ==
  ASSUME NEW S, NEW a \in Seq(S), NEW b \in Seq(S)
  PROVE  Len(a) \in Nat /\ Len(b) \in Nat /\ Len(a \o b) = Len(a) + Len(b)
  OBVIOUS

LEMMA AppendedTail ==
  ASSUME NEW S, NEW a \in Seq(S), NEW b \in Seq(S), NEW i \in Nat,
         i - Len(a) \in 1..Len(b)
  PROVE  (a \o b)[i] = b[i - Len(a)]
  OBVIOUS

(* What is on the way of t is what is on the way of s, then the invokes.   *)
Lengthens(s, t, cs) ==
  /\ \A i \in 1..Len(s.out) : i \in 1..Len(t.out) /\ t.out[i] = s.out[i]
  /\ \A i \in 1..Len(t.out) :
        \/ i \in 1..Len(s.out) /\ t.out[i] = s.out[i]
        \/ \E j \in 1..Len(cs) : /\ i = Len(s.out) + j /\ t.out[i].name = cs[j].name
                                 /\ t.out[i].txn = s.inv + j /\ t.out[i].sid = cs[j].sid

SameAnswers(s, t, ib) ==
  \A name : \A k \in 1..Len(ib) : Answers(t, ib[k], name) <=> Answers(s, ib[k], name)

(* Invokes that are queued: numbered on, and each under its own name.      *)
LEMMA Queued ==
  ASSUME NEW s, NEW t, NEW ib, NEW ans, NEW cs \in Seq(Invocations),
         s.out \in Seq(Messages), s.calls \in Seq(Calls), s.inv \in Nat,
         CallsNumbered(s), Numbered(s, ib, ans), Named(s),
         t.inv = s.inv + Len(cs), t.calls = AV_queue(s, cs),
         t.out = s.out \o Sent(s, cs)
  PROVE  /\ CallsNumbered(t) /\ Numbered(t, ib, ans) /\ Named(t)
         /\ SameAnswers(s, t, ib) /\ Lengthens(s, t, cs)
<1> DEFINE msgs == Sent(s, cs)
           queued == [i \in 1..Len(cs) |-> [name |-> cs[i].name, txn |-> s.inv + i]]
           l == Len(s.out)
           c == Len(s.calls)
<1>1. /\ Len(cs) \in Nat /\ msgs \in Seq(Messages) /\ queued \in Seq(Calls)
      /\ Len(msgs) = Len(cs) /\ Len(queued) = Len(cs)
  BY InvokesTyped DEF Sent
<1>2. \A j \in 1..Len(cs) : /\ msgs[j].name = cs[j].name /\ msgs[j].txn = s.inv + j
                            /\ msgs[j].sid = cs[j].sid
                            /\ queued[j].name = cs[j].name /\ queued[j].txn = s.inv + j
  BY DEF Msg, Sent
<1>3. t.out = s.out \o msgs /\ t.calls = s.calls \o queued
  BY DEF AV_queue
<1> HIDE DEF msgs, queued
<1>4. /\ l \in Nat /\ c \in Nat
      /\ Len(t.out) = l + Len(cs) /\ Len(t.calls) = c + Len(cs)
  <2>1. l \in Nat /\ c \in Nat
    OBVIOUS
  <2>2. Len(s.out \o msgs) = l + Len(cs)
    <3>1. s.out \in Seq(Messages) /\ msgs \in Seq(Messages)
      BY <1>1
    <3>2. Len(s.out \o msgs) = Len(s.out) + Len(msgs)
      BY ONLY <3>1, Appended, Zenon
    <3> QED BY <1>1, <3>2
  <2>3. Len(s.calls \o queued) = c + Len(cs)
    <3>1. s.calls \in Seq(Calls) /\ queued \in Seq(Calls)
      BY <1>1
    <3>2. Len(s.calls \o queued) = Len(s.calls) + Len(queued)
      BY ONLY <3>1, Appended, Zenon
    <3> QED BY <1>1, <3>2
  <2> QED BY <1>3, <2>1, <2>2, <2>3
<1>5. \A i \in 1..l : i \in 1..Len(t.out) /\ t.out[i] = s.out[i]
  BY <1>1, <1>3, <1>4
<1>6. \A i \in 1..Len(t.out) :
        \/ i \in 1..l /\ t.out[i] = s.out[i]
        \/ \E j \in 1..Len(cs) : i = l + j /\ t.out[i] = msgs[j]
  <2> SUFFICES ASSUME NEW i \in 1..Len(t.out), i \notin 1..l
               PROVE  \E j \in 1..Len(cs) : i = l + j /\ t.out[i] = msgs[j]
    BY <1>5
  <2>1. i - l \in 1..Len(cs) /\ i = l + (i - l)
    BY <1>4
  <2>2. (s.out \o msgs)[i] = msgs[i - l]
    <3>1. s.out \in Seq(Messages) /\ msgs \in Seq(Messages) /\ i \in Nat /\ i - l \in 1..Len(msgs)
      BY <1>1, <1>4, <2>1
    <3> QED BY ONLY <3>1, AppendedTail, Zenon
  <2> QED BY <1>3, <2>1, <2>2
<1>7. \A i \in 1..c : i \in 1..Len(t.calls) /\ t.calls[i] = s.calls[i]
  BY <1>1, <1>3, <1>4
<1>8. \A i \in 1..Len(t.calls) :
        \/ i \in 1..c /\ t.calls[i] = s.calls[i]
        \/ \E j \in 1..Len(cs) : i = c + j /\ t.calls[i] = queued[j]
  <2> SUFFICES ASSUME NEW i \in 1..Len(t.calls), i \notin 1..c
               PROVE  \E j \in 1..Len(cs) : i = c + j /\ t.calls[i] = queued[j]
    BY <1>7
  <2>1. i - c \in 1..Len(cs) /\ i = c + (i - c)
    BY <1>4
  <2>2. (s.calls \o queued)[i] = queued[i - c]
    <3>1. s.calls \in Seq(Calls) /\ queued \in Seq(Calls) /\ i \in Nat /\ i - c \in 1..Len(queued)
      BY <1>1, <1>4, <2>1
    <3> QED BY ONLY <3>1, AppendedTail, Zenon
  <2> QED BY <1>3, <2>1, <2>2
<1>9. \A i \in 1..c : s.calls[i].txn \in Nat /\ s.calls[i].txn <= s.inv
  BY CallsTyped DEF CallsNumbered
<1>10. \A i \in 1..l : s.out[i].txn \in Nat
  BY MessagesTyped
<1>11. \A i \in 1..Len(t.calls) :
        \/ i \in 1..c /\ t.calls[i] = s.calls[i] /\ t.calls[i].txn <= s.inv /\ t.calls[i].txn \in Nat
        \/ \E j \in 1..Len(cs) : /\ i = c + j /\ t.calls[i].txn = s.inv + j
                                 /\ t.calls[i].name = cs[j].name
  <2> SUFFICES ASSUME NEW i \in 1..Len(t.calls),
                      ~ \E j \in 1..Len(cs) : /\ i = c + j /\ t.calls[i].txn = s.inv + j
                                              /\ t.calls[i].name = cs[j].name
               PROVE  i \in 1..c /\ t.calls[i] = s.calls[i]
                      /\ t.calls[i].txn <= s.inv /\ t.calls[i].txn \in Nat
    OBVIOUS
  <2>1. i \in 1..c /\ t.calls[i] = s.calls[i]
    BY <1>2, <1>8
  <2> QED BY <1>9, <2>1
<1>12. \A i \in 1..Len(t.out) :
        \/ i \in 1..l /\ t.out[i] = s.out[i]
        \/ \E j \in 1..Len(cs) : /\ i = l + j /\ t.out[i].name = cs[j].name
                                 /\ t.out[i].txn = s.inv + j /\ t.out[i].sid = cs[j].sid
  BY ONLY <1>2, <1>6, ZenonT(40)
<1>13. \A name : \A k \in 1..Len(ib) : Answers(t, ib[k], name) <=> Answers(s, ib[k], name)
  <2> SUFFICES ASSUME NEW name, NEW k \in 1..Len(ib), IsAnswer(ib[k])
               PROVE  Answers(t, ib[k], name) <=> Answers(s, ib[k], name)
    BY DEF Answers
  <2>1. ib[k].txn \in Nat /\ ib[k].txn <= s.inv
    BY DEF Numbered
  <2>2. ASSUME NEW j \in 1..Len(t.calls), t.calls[j].txn = ib[k].txn
        PROVE  j \in 1..c /\ t.calls[j] = s.calls[j]
    <3>1. ASSUME NEW i \in 1..Len(cs), t.calls[j].txn = s.inv + i PROVE FALSE
      BY <1>1, <2>1, <2>2, <3>1
    <3> QED BY <1>11, <3>1
  <2> QED BY <1>7, <2>2 DEF Answers
<1>14. CallsNumbered(t)
  <2>1. ASSUME NEW i \in 1..Len(t.calls) PROVE t.calls[i].txn <= t.inv
    <3>1. CASE t.calls[i].txn <= s.inv /\ t.calls[i].txn \in Nat
      BY <1>1, <3>1
    <3>2. CASE \E j \in 1..Len(cs) : t.calls[i].txn = s.inv + j
      BY <1>1, <3>2
    <3> QED BY <1>11, <3>1, <3>2
  <2>2. ASSUME NEW i \in 1..Len(t.calls), NEW j \in 1..Len(t.calls), i # j
        PROVE  t.calls[i].txn # t.calls[j].txn
    <3>1. CASE i \in 1..c /\ j \in 1..c
      BY <1>7, <2>2, <3>1 DEF CallsNumbered
    <3>2. CASE i \in 1..c /\ j \notin 1..c
      <4>1. PICK b \in 1..Len(cs) : t.calls[j].txn = s.inv + b
        BY <1>11, <3>2
      <4>2. t.calls[i].txn <= s.inv
        BY <1>7, <1>9, <3>2
      <4> QED BY <1>1, <4>1, <4>2
    <3>3. CASE i \notin 1..c /\ j \in 1..c
      <4>1. PICK a \in 1..Len(cs) : t.calls[i].txn = s.inv + a
        BY <1>11, <3>3
      <4>2. t.calls[j].txn <= s.inv
        BY <1>7, <1>9, <3>3
      <4> QED BY <1>1, <4>1, <4>2
    <3>4. CASE i \notin 1..c /\ j \notin 1..c
      <4>1. PICK a \in 1..Len(cs) : i = c + a /\ t.calls[i].txn = s.inv + a
        BY <1>11, <3>4
      <4>2. PICK b \in 1..Len(cs) : j = c + b /\ t.calls[j].txn = s.inv + b
        BY <1>11, <3>4
      <4> QED BY <1>1, <1>4, <2>2, <4>1, <4>2
    <3> QED BY <3>1, <3>2, <3>3, <3>4
  <2> QED BY <2>1, <2>2 DEF CallsNumbered
<1>15. Numbered(t, ib, ans)
  <2>1. ASSUME NEW i \in 1..Len(t.out), t.out[i].name \in Requests PROVE t.out[i].txn <= t.inv
    <3>1. CASE i \in 1..l /\ t.out[i] = s.out[i]
      <4>1. s.out[i].txn \in Nat /\ s.out[i].txn <= s.inv
        BY <1>10, <2>1, <3>1 DEF Numbered
      <4> QED BY <1>1, <3>1, <4>1
    <3>2. CASE \E j \in 1..Len(cs) : t.out[i].txn = s.inv + j
      BY <1>1, <3>2
    <3> QED BY <1>12, <3>1, <3>2
  <2>2. ASSUME NEW k \in 1..Len(ib), IsAnswer(ib[k]) PROVE ib[k].txn \in Nat /\ ib[k].txn <= t.inv
    <3>1. ib[k].txn \in Nat /\ ib[k].txn <= s.inv
      BY <2>2 DEF Numbered
    <3> QED BY <1>1, <3>1
  <2>3. ASSUME NEW a \in ans PROVE a \in Nat /\ a <= s.inv /\ a <= t.inv
    <3>1. a \in Nat /\ a <= s.inv
      BY DEF Numbered
    <3> QED BY <1>1, <3>1
  <2>4. ASSUME NEW i \in 1..Len(t.calls) PROVE t.calls[i].txn \notin ans
    <3>1. CASE i \in 1..c /\ t.calls[i] = s.calls[i]
      BY <3>1 DEF Numbered
    <3>2. CASE \E j \in 1..Len(cs) : t.calls[i].txn = s.inv + j
      BY <1>1, <2>3, <3>2
    <3> QED BY <1>11, <3>1, <3>2
  <2>5. \A k, m \in 1..Len(ib) : IsAnswer(ib[k]) /\ IsAnswer(ib[m]) => k = m
    BY DEF Numbered
  <2> QED BY <2>1, <2>2, <2>3, <2>4, <2>5 DEF Numbered
<1>16. Named(t)
  <2> SUFFICES ASSUME NEW i \in 1..Len(t.out), NEW j \in 1..Len(t.calls),
                      t.out[i].name \in Requests, t.out[i].txn = t.calls[j].txn
               PROVE  t.out[i].name = t.calls[j].name
    BY DEF Named
  <2>1. CASE i \in 1..l /\ t.out[i] = s.out[i]
    <3>1. t.out[i].txn \in Nat /\ t.out[i].txn <= s.inv
      BY <1>10, <2>1 DEF Numbered
    <3>2. j \in 1..c /\ t.calls[j] = s.calls[j]
      <4>1. ASSUME NEW a \in 1..Len(cs), t.calls[j].txn = s.inv + a PROVE FALSE
        BY <1>1, <3>1, <4>1
      <4> QED BY <1>11, <4>1
    <3> QED BY <2>1, <3>2 DEF Named
  <2>2. CASE i \notin 1..l
    <3>1. PICK a \in 1..Len(cs) : t.out[i].name = cs[a].name /\ t.out[i].txn = s.inv + a
      BY <1>12, <2>2
    <3>2. ~(t.calls[j].txn <= s.inv)
      BY <1>1, <3>1
    <3>3. PICK b \in 1..Len(cs) : t.calls[j].txn = s.inv + b /\ t.calls[j].name = cs[b].name
      BY <1>11, <3>2
    <3>4. s.inv + a = s.inv + b
      BY <3>1, <3>3
    <3>5. a = b
      BY <1>1, <3>4
    <3> QED BY <3>1, <3>3, <3>5
  <2> QED BY <1>12, <2>1, <2>2
<1>17. SameAnswers(s, t, ib)
  BY <1>13 DEF SameAnswers
<1>18. Lengthens(s, t, cs)
  BY <1>5, <1>12 DEF Lengthens
<1> QED BY <1>14, <1>15, <1>16, <1>17, <1>18

-----------------------------------------------------------------------------
(* A turn of the loop, from handler to handler.                            *)

LEMMA TurnClosed ==
  ASSUME NEW s, Fit(s), ~s.open, NEW ib, NEW g, NEW ans, NEW sl
  PROVE  Turn(s, ib, g, ans, sl)
  BY DEF Turn, Agrees, Fit, StructOK

LEMMA TurnSame ==
  ASSUME NEW s, NEW ib, NEW g, NEW ans, NEW sl, Turn(s, ib, g, ans, sl),
         NEW t, DOMAIN t = Fields, t.open = s.open, t.playing = s.playing, t.ids = s.ids,
         t.n = s.n, t.cur = s.cur, t.calls = s.calls, t.inv = s.inv, t.out = s.out,
         t.orphans = s.orphans
  PROVE  Turn(t, ib, g, ans, sl)
<1>1. Shape(t) /\ EmptyOK(t)
  BY DEF Turn, Fit, StructOK, Shape, EmptyOK
<1>2. StructOK(t)
  BY <1>1 DEF Turn, Fit, StructOK
<1>3. s.open => Agrees(t, ib, g, ans, sl)
  BY AgreesSame DEF Turn
<1>4. ~s.open => Agrees(t, ib, g, ans, sl)
  BY DEF Agrees
<1> QED BY <1>1, <1>2, <1>3, <1>4 DEF Turn, Fit

LEMMA SaysMore ==
  ASSUME NEW s, NEW t, NEW w \in Seq(Messages), s.out \in Seq(Messages), t.out = s.out \o w,
         NEW name, \A i \in 1..Len(w) : w[i].name # name
  PROVE  InOut(t, name) => InOut(s, name)
<1>1. Len(t.out) = Len(s.out) + Len(w) /\ Len(s.out) \in Nat /\ Len(w) \in Nat
  BY Appended
<1> SUFFICES ASSUME NEW i \in 1..Len(t.out), t.out[i].name = name
             PROVE  InOut(s, name)
  BY DEF InOut
<1>2. i \in 1..Len(s.out)
  <2> SUFFICES ASSUME i \notin 1..Len(s.out) PROVE FALSE
    OBVIOUS
  <2>1. i - Len(s.out) \in 1..Len(w)
    BY <1>1
  <2>2. t.out[i] = w[i - Len(s.out)]
    BY <1>1, <2>1
  <2> QED BY <2>1, <2>2
<1>3. t.out[i] = s.out[i]
  BY <1>1, <1>2
<1> QED BY <1>2, <1>3 DEF InOut

(* A message that awaits nothing.                                          *)
LEMMA TurnWrites ==
  ASSUME NEW s, NEW ib, NEW g, NEW ans, NEW sl, Turn(s, ib, g, ans, sl), s.open,
         NEW name \in Words, name \notin Milestones, name # "releaseStream", NEW txn \in Nat
  PROVE  LET t == WriteN(s, <<Msg(name, txn, 0)>>)
         IN  /\ Turn(t, ib, g, ans, sl) /\ Kept(s, t)
             /\ t.open => t.out = s.out \o <<Msg(name, txn, 0)>> /\ t.playing = s.playing
<1> DEFINE w == <<Msg(name, txn, 0)>>
           t == WriteN(s, w)
<1>1. w \in Seq(Messages) /\ Len(w) = 1 /\ w[1].name = name
  <2>1. Msg(name, txn, 0) \in Messages
    BY DEF Msg, Messages
  <2>2. Msg(name, txn, 0).name = name
    BY DEF Msg
  <2> QED BY <2>1, <2>2
<1> HIDE DEF w
<1>2. Fit(s) /\ Shape(s) /\ EmptyOK(s) /\ s.out \in Seq(Messages) /\ s.calls \in Seq(Calls)
      /\ s.inv \in Nat
  BY DEF Turn, Fit, StructOK
<1>3. Kept(s, t)
  BY <1>1, <1>2, StructWritten
<1>4. t.open => /\ Rest(s, t) /\ t.out = s.out \o w /\ t.calls = s.calls /\ t.inv = s.inv
  BY <1>2, WriteNFits
<1> HIDE DEF t
<1>5. CASE ~t.open
  BY <1>3, <1>5, TurnClosed DEF Kept, t, w
<1>6. CASE t.open
  <2>1. /\ t.n = s.n /\ t.cur = s.cur /\ t.ids = s.ids /\ t.playing = s.playing
        /\ t.calls = s.calls /\ t.inv = s.inv /\ t.out = s.out \o w
    BY <1>4, <1>6 DEF Rest
  <2>2. t.inv >= s.inv
    BY <1>2, <2>1
  <2>3. Agrees(s, ib, g, ans, sl) /\ Fit(t)
    BY <1>3 DEF Turn, Kept
  <2>4. \A i \in 1..Len(w) : w[i].name \notin Milestones /\ w[i].name # "releaseStream"
    BY <1>1
  <2>5. Agrees(t, ib, g, ans, sl)
    BY <1>1, <1>2, <2>1, <2>2, <2>3, <2>4, AgreesMore
  <2> QED BY <1>3, <2>1, <2>3, <2>5 DEF Turn, t, w
<1> QED BY <1>5, <1>6

(* Invokes nobody waits for.                                               *)
LEMMA TurnInvokes ==
  ASSUME NEW s, NEW ib, NEW g, NEW ans, NEW sl, Turn(s, ib, g, ans, sl), s.open,
         NEW cs \in Seq(Invocations), \A i \in 1..Len(cs) : cs[i].name \notin Milestones
  PROVE  LET t == Invokes(s, cs, FALSE)
         IN  /\ Turn(t, ib, g, ans, sl) /\ Kept(s, t)
             /\ \A name \in Milestones : t.open /\ InOut(t, name) => InOut(s, name)
             /\ t.open => t.calls = s.calls /\ t.playing = s.playing
<1> DEFINE w == Sent(s, cs)
           t == Invokes(s, cs, FALSE)
<1>1. Fit(s) /\ Shape(s) /\ EmptyOK(s) /\ s.out \in Seq(Messages) /\ s.calls \in Seq(Calls)
      /\ s.inv \in Nat
  BY DEF Turn, Fit, StructOK
<1>2. w \in Seq(Messages) /\ Len(cs) \in Nat /\ Len(w) = Len(cs)
  BY <1>1, InvokesTyped DEF Sent
<1>3. \A i \in 1..Len(w) : w[i].name = cs[i].name /\ w[i].txn = s.inv + i
  BY <1>2 DEF Msg, Sent
<1>4. Kept(s, t)
  BY <1>1, InvokesKept
<1>5. t.open => /\ Rest(s, t) /\ t.out = s.out \o w /\ t.calls = s.calls /\ t.inv = s.inv + Len(cs)
  BY <1>1, <1>2, UnqueuedFits
<1> HIDE DEF t, w
<1>6. CASE ~t.open
  BY <1>4, <1>6, TurnClosed DEF Kept, t
<1>7. CASE t.open
  <2>1. /\ t.n = s.n /\ t.cur = s.cur /\ t.ids = s.ids /\ t.playing = s.playing
        /\ t.calls = s.calls /\ t.inv = s.inv + Len(cs) /\ t.out = s.out \o w
    BY <1>5, <1>7 DEF Rest
  <2>2. t.inv >= s.inv
    BY <1>1, <1>2, <2>1
  <2>3. Agrees(s, ib, g, ans, sl) /\ Fit(t)
    BY <1>4 DEF Turn, Kept
  <2>4. \A i \in 1..Len(w) : w[i].name \notin Milestones
    BY <1>2, <1>3
  <2>5. \A i \in 1..Len(w) : s.inv < w[i].txn /\ w[i].txn <= t.inv
    <3> SUFFICES ASSUME NEW i \in 1..Len(w) PROVE s.inv < w[i].txn /\ w[i].txn <= t.inv
      OBVIOUS
    <3>1. w[i].txn = s.inv + i
      BY <1>3
    <3> QED BY <1>1, <1>2, <2>1, <3>1
  <2>6. Agrees(t, ib, g, ans, sl)
    BY <1>1, <1>2, <2>1, <2>2, <2>3, <2>4, <2>5, AgreesMore
  <2>7. ASSUME NEW name \in Milestones PROVE InOut(t, name) => InOut(s, name)
    <3>1. \A i \in 1..Len(w) : w[i].name # name
      BY <2>4
    <3> QED BY <1>1, <1>2, <2>1, <3>1, SaysMore
  <2> QED BY <1>4, <2>1, <2>3, <2>6, <2>7 DEF Turn, t
<1> QED BY <1>6, <1>7

(* A packet is dropped.                                                    *)
LEMMA TurnTail ==
  ASSUME NEW s, NEW ib \in Seq(Packets), ib # <<>>, NEW g, NEW ans, NEW sl, Turn(s, ib, g, ans, sl)
  PROVE  Turn(s, Tail(ib), g, ans, sl)
<1>1. s.open => Agrees(s, Tail(ib), g, ans, sl)
  BY AgreesTail DEF Turn
<1>2. ~s.open => Agrees(s, Tail(ib), g, ans, sl)
  BY DEF Agrees
<1> QED BY <1>1, <1>2 DEF Turn

LEMMA TurnClose ==
  ASSUME NEW s, Fit(s), NEW ib, NEW g, NEW ans, NEW sl
  PROVE  Turn(RTMP_Close(s), ib, g, ans, sl)
<1>1. Kept(s, RTMP_Close(s)) /\ ~RTMP_Close(s).open
  BY CloseFits DEF Fit, StructOK
<1> QED BY <1>1, TurnClosed DEF Kept

(* A call is no longer waited for.                                         *)
LEMMA TurnErase ==
  ASSUME NEW s, NEW ib, NEW g, NEW ans, NEW sl, Turn(s, ib, g, ans, sl), s.open,
         NEW i \in 1..Len(s.calls)
  PROVE  LET e == AV_erase(s, i)
         IN  /\ Turn(e, ib, g, ans, sl) /\ e.open /\ e.n = s.n /\ e.cur = s.cur /\ e.ids = s.ids
             /\ e.out = s.out /\ e.inv = s.inv /\ e.playing = s.playing
             /\ \A j \in 1..Len(e.calls) : e.calls[j].txn # s.calls[i].txn
<1> DEFINE e == AV_erase(s, i)
<1>0. Fit(s)
  BY DEF Turn
<1>1. /\ Fit(e) /\ e.open = s.open /\ e.n = s.n /\ e.cur = s.cur /\ e.ids = s.ids
      /\ e.out = s.out /\ e.inv = s.inv /\ e.playing = s.playing
      /\ Without(e.calls, s.calls, i)
  BY <1>0, EraseFits
<1> HIDE DEF e
<1>6. PICK from : \A j \in 1..Len(e.calls) :
        /\ from[j] \in 1..Len(s.calls) /\ from[j] # i
        /\ e.calls[j] = s.calls[from[j]]
        /\ \A k \in 1..Len(e.calls) : j # k => from[j] # from[k]
  BY <1>1 DEF Without
<1>2. Agrees(e, ib, g, ans, sl)
  <2>1. Agrees(s, ib, g, ans, sl)
    BY DEF Turn
  <2>2. \A j \in 1..Len(e.calls) : /\ from[j] \in 1..Len(s.calls)
                                   /\ e.calls[j] = s.calls[from[j]]
                                   /\ \A k \in 1..Len(e.calls) : j # k => from[j] # from[k]
    BY <1>6
  <2> QED BY <1>1, <2>1, <2>2, AgreesLess
<1>3. CallsNumbered(s)
  BY DEF Turn, Agrees
<1>4. ASSUME NEW j \in 1..Len(e.calls) PROVE e.calls[j].txn # s.calls[i].txn
  <2>1. from[j] \in 1..Len(s.calls) /\ from[j] # i /\ e.calls[j] = s.calls[from[j]]
    BY <1>6
  <2> QED BY <1>3, <2>1 DEF CallsNumbered
<1>5. Turn(e, ib, g, ans, sl)
  BY <1>1, <1>2 DEF Turn
<1> QED BY <1>1, <1>4, <1>5 DEF e

(* Among numbers there is a first.                                         *)
LEMMA FirstOf ==
  ASSUME NEW I \in SUBSET Nat, I # {}
  PROVE  \E i \in I : \A j \in I : i <= j
<1> DEFINE R == OpToRel(<, Nat)
<1>1. IsWellFoundedOn(R, Nat)
  BY NatLessThanWellFounded
<1>2. R = {ss \in Nat \X Nat : ss[1] < ss[2]}
  BY DEF OpToRel
<1> HIDE DEF R
<1>3. PICK x \in I : \A y \in I : <<y, x>> \notin R
  BY <1>1, WFMin, Zenon
<1>4. \A y \in I : y < x => <<y, x>> \in R
  BY <1>2
<1>5. x \in Nat /\ \A y \in I : y \in Nat
  BY <1>3
<1>6. ASSUME NEW y \in I PROVE x <= y
  <2>1. ~(y < x)
    BY <1>3, <1>4
  <2> QED BY <1>5, <2>1
<1> QED BY <1>6

LEMMA TurnEraseNamed ==
  ASSUME NEW s, NEW ib, NEW g, NEW ans, NEW sl, Turn(s, ib, g, ans, sl), s.open, NEW name
  PROVE  Turn(EraseNamed(s, name), ib, g, ans, sl)
<1> DEFINE I == {i \in 1..Len(s.calls) : s.calls[i].name = name}
           k == CHOOSE i \in I : \A j \in I : i <= j
<1>1. CASE I = {}
  BY <1>1 DEF EraseNamed
<1>2. CASE I # {}
  <2>1. EraseNamed(s, name) = AV_erase(s, k)
    BY <1>2 DEF EraseNamed
  <2>2. k \in 1..Len(s.calls)
    <3>1. I \subseteq Nat
      OBVIOUS
    <3>2. \E i \in I : \A j \in I : i <= j
      BY <1>2, <3>1, FirstOf
    <3> QED BY <3>2
  <2> QED BY <2>1, <2>2, TurnErase
<1> QED BY <1>1, <1>2

(* An answer is the only one on its way, and known by its number.          *)
LEMMA HeadAnswers ==
  ASSUME NEW s, NEW ib \in Seq(Packets), ib # <<>>, NEW g, NEW ans, NEW sl,
         Agrees(s, ib, g, ans, sl), s.open, IsAnswer(Head(ib))
  PROVE  LET m == Head(ib)
         IN  /\ m.txn \in Nat /\ m.txn <= s.inv
             /\ \A t : \A name : ~Answered(t, Tail(ib), name)
             /\ \A i \in 1..Len(s.calls) : s.calls[i].txn = m.txn =>
                   Answered(s, ib, s.calls[i].name) /\ Answers(s, ib[1], s.calls[i].name)
<1> DEFINE m == Head(ib)
           tl == Tail(ib)
<1>1. 1 \in 1..Len(ib) /\ ib[1] = m
  OBVIOUS
<1>2. \A k \in 1..Len(tl) : k + 1 \in 1..Len(ib) /\ k + 1 # 1 /\ tl[k] = ib[k + 1]
  OBVIOUS
<1>3. Numbered(s, ib, ans)
  BY DEF Agrees
<1> HIDE DEF m, tl
<1>4. IsAnswer(ib[1])
  BY <1>1 DEF m
<1>5. m.txn \in Nat /\ m.txn <= s.inv
  BY <1>1, <1>3, <1>4 DEF Numbered
<1>6. \A k \in 1..Len(tl) : ~IsAnswer(tl[k])
  <2> SUFFICES ASSUME NEW k \in 1..Len(tl), IsAnswer(tl[k]) PROVE FALSE
    OBVIOUS
  <2>1. k + 1 = 1
    BY <1>1, <1>2, <1>3, <1>4 DEF Numbered
  <2> QED BY <1>2, <2>1
<1>7. \A t : \A name : ~Answered(t, tl, name)
  BY <1>6 DEF Answered, Answers
<1>8. ASSUME NEW i \in 1..Len(s.calls), s.calls[i].txn = m.txn
      PROVE  Answered(s, ib, s.calls[i].name) /\ Answers(s, ib[1], s.calls[i].name)
  <2>1. Answers(s, ib[1], s.calls[i].name)
    BY <1>1, <1>4, <1>8 DEF Answers
  <2> QED BY <1>1, <2>1 DEF Answered
<1> QED BY <1>5, <1>7, <1>8 DEF m, tl

LEMMA TurnAnswered ==
  ASSUME NEW s, NEW ib \in Seq(Packets), ib # <<>>, NEW g, NEW ans, NEW sl,
         Turn(s, ib, g, ans, sl), s.open, NEW txn \in Nat, txn <= s.inv,
         \A j \in 1..Len(s.calls) : s.calls[j].txn # txn
  PROVE  Turn(s, Tail(ib), g, ans \cup {txn}, sl)
<1>1. Turn(s, Tail(ib), g, ans, sl)
  BY TurnTail
<1>2. Agrees(s, Tail(ib), g, ans \cup {txn}, sl)
  BY <1>1, AgreesAnswered DEF Turn
<1> QED BY <1>1, <1>2 DEF Turn

(* createStream and publish are queued: the answers are waited for.        *)
LEMMA AgreesQueues ==
  ASSUME NEW s, NEW t, NEW ib, NEW g, NEW ans, NEW sl, Agrees(s, ib, g, ans, sl), Fit(s), s.open,
         ~Live(s, ib, "connect"), NEW cs \in Seq(Invocations),
         \A i \in 1..Len(cs) : \/ cs[i].name = "createStream" /\ s.n >= 1
                               \/ cs[i].name = "publish" /\ s.cur >= 1 /\ cs[i].sid \in g,
         t.n = s.n, t.cur = s.cur, t.ids = s.ids, t.inv = s.inv + Len(cs),
         t.calls = AV_queue(s, cs), t.out = s.out \o Sent(s, cs)
  PROVE  Agrees(t, ib, g, ans, sl)
<1>1. s.out \in Seq(Messages) /\ s.calls \in Seq(Calls) /\ s.inv \in Nat
  BY DEF Fit, StructOK
<1>2. /\ CallsNumbered(s) /\ Numbered(s, ib, ans) /\ Named(s) /\ ConnectFirst(s, ib)
      /\ Created(s, ib, g) /\ Placed(s, g, sl)
  BY DEF Agrees
<1>3. /\ CallsNumbered(t) /\ Numbered(t, ib, ans) /\ Named(t)
      /\ SameAnswers(s, t, ib) /\ Lengthens(s, t, cs)
  BY <1>1, <1>2, Queued
<1>4. \A name : Answered(t, ib, name) => Answered(s, ib, name)
  BY <1>3 DEF Answered, SameAnswers
<1>5. \A i \in 1..Len(t.out) :
        \/ i \in 1..Len(s.out) /\ t.out[i] = s.out[i]
        \/ t.out[i].name = "createStream" /\ s.n >= 1
        \/ t.out[i].name = "publish" /\ s.cur >= 1 /\ t.out[i].sid \in g
  BY <1>3 DEF Lengthens
<1>6. ~InOut(t, "connect")
  BY <1>5 DEF InOut, Live
<1>7. ~Live(t, ib, "connect")
  BY <1>4, <1>6 DEF Live
<1>8. ConnectFirst(t, ib)
  <2>1. \A i \in 1..Len(t.out) : t.out[i].name # "connect"
    BY <1>6 DEF InOut
  <2> QED BY <1>6, <1>7, <2>1 DEF ConnectFirst
<1>9. Created(t, ib, g)
  <2>1. Live(t, ib, "createStream") => t.n >= 1
    <3>1. InOut(t, "createStream") => InOut(s, "createStream") \/ s.n >= 1
      BY <1>5 DEF InOut
    <3> QED BY <1>2, <1>4, <3>1 DEF Live, Created
  <2>2. Live(t, ib, "publish") \/ Starts(ib) => t.cur >= 1
    <3>1. InOut(t, "publish") => InOut(s, "publish") \/ s.cur >= 1
      BY <1>5 DEF InOut
    <3> QED BY <1>2, <1>4, <3>1 DEF Live, Created
  <2>3. \A k \in 1..Len(ib) :
          Answers(t, ib[k], "createStream") /\ ib[k].name = "_result" => ib[k].id \in g
    BY <1>2, <1>3 DEF Created, SameAnswers
  <2>4. \A i \in 1..Len(t.out) : t.out[i].name = "publish" => t.out[i].sid \in g
    BY <1>2, <1>5 DEF Created
  <2> QED BY <2>1, <2>2, <2>3, <2>4 DEF Created
<1>10. Placed(t, g, sl)
  BY <1>2 DEF Placed
<1> QED BY <1>3, <1>7, <1>8, <1>9, <1>10 DEF Agrees

(* What an open session looks like after invokes that are queued.          *)
LEMMA QueuedFits ==
  ASSUME NEW s, Fit(s), NEW cs \in Seq(Invocations), Invokes(s, cs, TRUE).open
  PROVE  LET t == Invokes(s, cs, TRUE)
         IN  /\ Rest(s, t) /\ t.out = s.out \o Sent(s, cs)
             /\ t.calls = AV_queue(s, cs) /\ t.inv = s.inv + Len(cs)
<1> DEFINE u(q) == Invokes(s, cs, q)
<1>1. Shape(s) /\ EmptyOK(s) /\ Len(cs) \in Nat
  BY DEF Fit, StructOK
<1>2. ASSUME NEW q \in BOOLEAN
      PROVE  /\ u(q).orphans = s.orphans
             /\ ~u(q).open => Kept(s, u(q))
             /\ u(q).open => /\ DOMAIN u(q) = Fields /\ u(q).open = TRUE /\ Rest(s, u(q))
                             /\ u(q).out = s.out \o Sent(s, cs)
                             /\ u(q).calls = (IF q THEN AV_queue(s, cs) ELSE s.calls)
                             /\ u(q).inv = s.inv + Len(cs)
  BY <1>1, InvokesFits
<1> HIDE DEF u
<1>3. u(TRUE).open => /\ Rest(s, u(TRUE)) /\ u(TRUE).out = s.out \o Sent(s, cs)
                      /\ u(TRUE).inv = s.inv + Len(cs) /\ u(TRUE).calls = AV_queue(s, cs)
  BY <1>2
<1> QED BY <1>3 DEF u

LEMMA CallTyped ==
  ASSUME NEW name \in Words, NEW sid \in Int
  PROVE  /\ Call(name, sid) \in Invocations
         /\ Call(name, sid).name = name /\ Call(name, sid).sid = sid
  BY DEF Call, Invocations

LEMMA SomeWords ==
  {"connect", "createStream", "publish", "releaseStream", "FCPublish", "chunk", "bytes", "pong",
   "ctrl", "_result", "_checkbw", "media"} \subseteq Words
  BY DEF Words

LEMMA TimesTyped ==
  ASSUME NEW n \in Nat, NEW c \in Invocations
  PROVE  /\ Times(n, c) \in Seq(Invocations) /\ Len(Times(n, c)) = n
         /\ \A i \in 1..Len(Times(n, c)) : Times(n, c)[i] = c
  BY DEF Times

LEMMA Joined ==
  ASSUME NEW S, NEW a \in Seq(S), NEW b \in Seq(S), NEW i \in 1..Len(a \o b)
  PROVE  \/ \E j \in 1..Len(a) : (a \o b)[i] = a[j]
         \/ \E j \in 1..Len(b) : (a \o b)[i] = b[j]
<1>1. Len(a) \in Nat /\ Len(b) \in Nat /\ Len(a \o b) = Len(a) + Len(b)
  OBVIOUS
<1>2. CASE i \in 1..Len(a)
  <2>1. (a \o b)[i] = a[i]
    BY <1>1, <1>2
  <2> QED BY <1>2, <2>1
<1>3. CASE i \notin 1..Len(a)
  <2>1. i - Len(a) \in 1..Len(b)
    BY <1>1, <1>3
  <2>2. (a \o b)[i] = b[i - Len(a)]
    BY <1>1, <1>3
  <2> QED BY <2>1, <2>2
<1> QED BY <1>2, <1>3

(* connect was answered: the streams are created.                          *)
LEMMA TurnCreates ==
  ASSUME NEW s, NEW ib, NEW g, NEW ans, NEW sl, Turn(s, ib, g, ans, sl), s.open,
         ~Live(s, ib, "connect")
  PROVE  Turn(ConnectResult(s), ib, g, ans, sl)
<1> DEFINE releases == Times(s.n, SendReleaseStream)
           publishes == Times(s.n, SendFCPublish)
           first == releases \o publishes
           cs == Times(s.n, RTMP_SendCreateStream)
           w == Invokes(s, first, FALSE)
           t == Invokes(w, cs, TRUE)
<1>1. s.n \in Nat
  <2>1. Shape(s)
    BY DEF Turn, Fit, StructOK
  <2> QED BY <2>1 DEF Shape, MaxIdx
<1>2. /\ SendReleaseStream \in Invocations /\ SendReleaseStream.name = "releaseStream"
      /\ SendFCPublish \in Invocations /\ SendFCPublish.name = "FCPublish"
      /\ RTMP_SendCreateStream \in Invocations /\ RTMP_SendCreateStream.name = "createStream"
  <2>1. Call("releaseStream", 0) \in Invocations /\ Call("releaseStream", 0).name = "releaseStream"
    BY CallTyped, SomeWords
  <2>2. Call("FCPublish", 0) \in Invocations /\ Call("FCPublish", 0).name = "FCPublish"
    BY CallTyped, SomeWords
  <2>3. Call("createStream", 0) \in Invocations /\ Call("createStream", 0).name = "createStream"
    BY CallTyped, SomeWords
  <2> QED BY <2>1, <2>2, <2>3 DEF SendReleaseStream, SendFCPublish, RTMP_SendCreateStream
<1>3. /\ releases \in Seq(Invocations) /\ publishes \in Seq(Invocations) /\ cs \in Seq(Invocations)
      /\ Len(cs) = s.n
      /\ \A i \in 1..Len(releases) : releases[i] = SendReleaseStream
      /\ \A i \in 1..Len(publishes) : publishes[i] = SendFCPublish
      /\ \A i \in 1..Len(cs) : cs[i] = RTMP_SendCreateStream
  BY <1>1, <1>2, TimesTyped
<1> HIDE DEF releases, publishes, cs
<1>4. first \in Seq(Invocations)
  BY <1>3
<1>5. \A i \in 1..Len(first) : first[i].name \notin Milestones
  <2> SUFFICES ASSUME NEW i \in 1..Len(first) PROVE first[i].name \notin Milestones
    OBVIOUS
  <2>1. first[i] = SendReleaseStream \/ first[i] = SendFCPublish
    BY <1>3, Joined
  <2> QED BY <1>2, <2>1 DEF Milestones
<1> HIDE DEF first
<1>6. /\ Turn(w, ib, g, ans, sl) /\ Kept(s, w)
      /\ \A name \in Milestones : w.open /\ InOut(w, name) => InOut(s, name)
      /\ w.open => w.calls = s.calls /\ w.playing = s.playing
  BY <1>4, <1>5, TurnInvokes
<1>7. ConnectResult(s) = t
  BY DEF ConnectResult, cs, first, releases, publishes
<1> HIDE DEF w
<1>8. Kept(w, t)
  BY <1>3, <1>6, InvokesKept DEF Turn
<1>9. CASE ~t.open
  BY <1>7, <1>8, <1>9, TurnClosed DEF Kept
<1>10. CASE t.open
  <2>1. w.open /\ w.n = s.n
    BY <1>6, <1>8, <1>10 DEF Kept
  <2>2. ~Live(w, ib, "connect")
    <3>1. ~InOut(w, "connect")
      BY <1>6, <2>1 DEF Live, Milestones
    <3>2. ~Answered(w, ib, "connect")
      BY <1>6, <2>1 DEF Live, Answered, Answers
    <3> QED BY <3>1, <3>2 DEF Live
  <2>3. /\ Rest(w, t) /\ t.out = w.out \o Sent(w, cs)
        /\ t.calls = AV_queue(w, cs) /\ t.inv = w.inv + Len(cs)
    BY <1>3, <1>6, <1>10, QueuedFits DEF Turn
  <2> HIDE DEF t
  <2>4. \A i \in 1..Len(cs) : cs[i].name = "createStream" /\ w.n >= 1
    BY <1>1, <1>2, <1>3, <2>1
  <2>5. Agrees(t, ib, g, ans, sl)
    BY <1>3, <1>6, <2>1, <2>2, <2>3, <2>4, AgreesQueues DEF Turn, Rest
  <2>6. t.playing => t.cur >= 1
    BY <1>6, <2>3 DEF Turn, Rest
  <2> QED BY <1>7, <1>8, <2>5, <2>6 DEF Turn, Kept
<1> QED BY <1>9, <1>10

(* createStream was answered: the stream is published.                     *)
LEMMA TurnPublishes ==
  ASSUME NEW s, NEW ib, NEW g, NEW ans, NEW sl, Turn(s, ib, g, ans, sl), s.open,
         ~Live(s, ib, "connect"), s.n >= 1, s.cur <= MaxIdx, NEW id \in Int, id \in g
  PROVE  Turn(CreateStreamResult(s, id), ib, g, ans, sl)
<1> DEFINE e == [s EXCEPT !.ids[s.cur] = id]
           cs == <<SendPublish(e, s.cur)>>
           p == Invokes(e, cs, TRUE)
           t == [p EXCEPT !.cur = p.cur + 1]
           d == [e EXCEPT !.cur = e.cur + 1]
           ids == [s.ids EXCEPT ![s.cur] = id]
<1>1. /\ Fit(s) /\ Agrees(s, ib, g, ans, sl) /\ DOMAIN s = Fields /\ s.cur \in Nat
      /\ s.n \in 0 .. MaxIdx + 1 /\ s.ids \in [0..MaxIdx -> Int] /\ s.cur \in 0..MaxIdx
  <2>1. Fit(s) /\ Agrees(s, ib, g, ans, sl) /\ Shape(s)
    BY DEF Turn, Fit, StructOK
  <2>2. /\ DOMAIN s = Fields /\ s.cur \in Nat
        /\ s.n \in 0 .. MaxIdx + 1 /\ s.ids \in [0..MaxIdx -> Int]
    BY <2>1 DEF Shape
  <2>3. s.cur \in 0..MaxIdx
    BY <2>2 DEF MaxIdx
  <2> QED BY <2>1, <2>2, <2>3
<1>2. /\ ids \in [0..MaxIdx -> Int] /\ ids[s.cur] = id
      /\ \A i \in 0..MaxIdx : i # s.cur => ids[i] = s.ids[i]
  BY <1>1
<1> HIDE DEF ids
<1>3. /\ DOMAIN e = Fields /\ e.ids = ids /\ e.cur = s.cur
      /\ \A f \in Fields \ {"ids"} : e[f] = s[f]
  BY <1>1 DEF Fields, ids
<1>4. CreateStreamResult(s, id) = t
  BY DEF CreateStreamResult
<1> HIDE DEF e
<1>5. /\ e.open = s.open /\ e.playing = s.playing /\ e.n = s.n /\ e.calls = s.calls
      /\ e.inv = s.inv /\ e.out = s.out /\ e.orphans = s.orphans
  BY <1>3 DEF Fields
<1>6. Fit(e)
  <2>1. Shape(e) /\ EmptyOK(e)
    BY <1>1, <1>2, <1>3, <1>5 DEF Fit, StructOK, Shape, EmptyOK
  <2>2. StructOK(e)
    BY <1>1, <1>5, <2>1 DEF Fit, StructOK
  <2> QED BY <2>1, <2>2 DEF Fit
<1>7. cs \in Seq(Invocations) /\ Len(cs) = 1 /\ cs[1].name = "publish" /\ cs[1].sid = id
  <2>1. SendPublish(e, s.cur) = Call("publish", id)
    BY <1>2, <1>3 DEF SendPublish
  <2>2. /\ Call("publish", id) \in Invocations
        /\ Call("publish", id).name = "publish" /\ Call("publish", id).sid = id
    BY CallTyped, SomeWords
  <2> QED BY <2>1, <2>2
<1> HIDE DEF cs
<1>8. Kept(e, p)
  BY <1>6, <1>7, InvokesKept
<1>9. p.open => /\ Rest(e, p) /\ p.out = e.out \o Sent(e, cs)
                /\ p.calls = AV_queue(e, cs) /\ p.inv = e.inv + Len(cs)
  BY <1>6, <1>7, QueuedFits
<1> HIDE DEF p
<1>10. /\ DOMAIN p = Fields /\ p.cur \in Nat
       /\ \A f \in Fields \ {"cur"} : t[f] = p[f]
       /\ DOMAIN t = Fields /\ t.cur = p.cur + 1
  BY <1>8 DEF Kept, Fit, StructOK, Shape, Fields
<1> HIDE DEF t
<1>11. /\ t.open = p.open /\ t.playing = p.playing /\ t.n = p.n /\ t.calls = p.calls /\ t.ids = p.ids
       /\ t.inv = p.inv /\ t.out = p.out /\ t.orphans = p.orphans
  BY <1>10 DEF Fields
<1>12. Fit(t)
  <2>1. Shape(t) /\ EmptyOK(t)
    BY <1>8, <1>10, <1>11 DEF Kept, Fit, StructOK, Shape, EmptyOK
  <2>2. StructOK(t)
    BY <1>8, <1>11, <2>1 DEF Kept, Fit, StructOK
  <2> QED BY <2>1, <2>2 DEF Fit
<1>13. CASE ~t.open
  BY <1>4, <1>12, <1>13, TurnClosed
<1>14. CASE t.open
  <2>1. /\ p.open /\ p.n = e.n /\ p.cur = e.cur /\ p.ids = e.ids /\ p.playing = e.playing
        /\ p.out = e.out \o Sent(e, cs) /\ p.calls = AV_queue(e, cs) /\ p.inv = e.inv + Len(cs)
    BY <1>9, <1>11, <1>14 DEF Rest
  <2>2. /\ DOMAIN d = Fields /\ d.cur = e.cur + 1
        /\ \A f \in Fields \ {"cur"} : d[f] = e[f]
    BY <1>3 DEF Fields
  <2> HIDE DEF d
  <2>3. /\ d.open = e.open /\ d.playing = e.playing /\ d.n = e.n /\ d.calls = e.calls /\ d.ids = e.ids
        /\ d.inv = e.inv /\ d.out = e.out /\ d.orphans = e.orphans
    BY <2>2 DEF Fields
  <2>4. d.cur \in Nat /\ d.cur >= 1
    BY <1>1, <1>3, <2>2
  <2>5. Fit(d)
    <3>1. Shape(d) /\ EmptyOK(d)
      BY <1>6, <2>2, <2>3, <2>4 DEF Fit, StructOK, Shape, EmptyOK
    <3>2. StructOK(d)
      BY <1>6, <2>3, <3>1 DEF Fit, StructOK
    <3> QED BY <3>1, <3>2 DEF Fit
  <2>6. /\ CallsNumbered(s) /\ Numbered(s, ib, ans) /\ Named(s) /\ ConnectFirst(s, ib)
        /\ Created(s, ib, g) /\ Placed(s, g, sl)
    BY <1>1 DEF Agrees
  <2>7. d.calls = s.calls /\ d.inv = s.inv /\ d.out = s.out /\ d.n = s.n /\ d.ids = ids /\ d.open
    BY <1>3, <1>5, <2>3
  <2>8. \A name : \A m : Answers(d, m, name) = Answers(s, m, name)
    BY <2>7 DEF Answers
  <2>9. \A name : InOut(d, name) = InOut(s, name) /\ Answered(d, ib, name) = Answered(s, ib, name)
    BY <2>7, <2>8 DEF InOut, Answered
  <2>10. ~Live(d, ib, "connect")
    BY <2>9 DEF Live
  <2>11. CallsNumbered(d) /\ Numbered(d, ib, ans) /\ Named(d)
    BY <2>6, <2>7 DEF CallsNumbered, Numbered, Named
  <2>12. ConnectFirst(d, ib)
    BY <2>6, <2>7, <2>9 DEF ConnectFirst, Live
  <2>13. Created(d, ib, g)
    BY <2>4, <2>6, <2>7, <2>8, <2>9 DEF Created, Live
  <2>14. Placed(d, g, sl)
    <3> SUFFICES ASSUME d.n = 1, ~sl PROVE ids[0] \in g
      BY <2>7 DEF Placed
    <3>1. CASE s.cur = 0
      BY <1>2, <3>1
    <3>2. CASE s.cur # 0
      <4>1. s.cur >= 1 /\ 0 \in 0..MaxIdx
        BY <1>1, <3>2 DEF MaxIdx
      <4>2. s.ids[0] \in g
        BY <2>6, <2>7, <4>1 DEF Placed
      <4> QED BY <1>2, <3>2, <4>1, <4>2
    <3> QED BY <3>1, <3>2
  <2>15. Agrees(d, ib, g, ans, sl)
    BY <2>10, <2>11, <2>12, <2>13, <2>14 DEF Agrees
  <2>16. AV_queue(d, cs) = AV_queue(e, cs) /\ Sent(d, cs) = Sent(e, cs)
    BY <2>3 DEF AV_queue, Sent
  <2>17. \A i \in 1..Len(cs) : cs[i].name = "publish" /\ d.cur >= 1 /\ cs[i].sid \in g
    BY <1>7, <2>4
  <2>18. /\ t.n = d.n /\ t.cur = d.cur /\ t.ids = d.ids /\ t.inv = d.inv + Len(cs)
         /\ t.calls = AV_queue(d, cs) /\ t.out = d.out \o Sent(d, cs)
    BY <1>10, <1>11, <2>1, <2>2, <2>3, <2>16
  <2>19. Agrees(t, ib, g, ans, sl)
    BY <1>7, <2>5, <2>7, <2>10, <2>15, <2>17, <2>18, AgreesQueues
  <2>20. t.cur >= 1
    BY <2>4, <2>18
  <2> QED BY <1>4, <1>12, <2>19, <2>20 DEF Turn
<1> QED BY <1>13, <1>14

LEMMA TurnPlays ==
  ASSUME NEW s, NEW ib, NEW g, NEW ans, NEW sl, Turn(s, ib, g, ans, sl), s.open, s.cur >= 1
  PROVE  Turn([s EXCEPT !.playing = TRUE], ib, g, ans, sl)
<1> DEFINE t == [s EXCEPT !.playing = TRUE]
<1>1. Fit(s) /\ Agrees(s, ib, g, ans, sl) /\ DOMAIN s = Fields
  BY DEF Turn, Fit, StructOK, Shape
<1>2. /\ DOMAIN t = Fields /\ t.playing = TRUE /\ t.open = s.open /\ t.n = s.n /\ t.cur = s.cur
      /\ t.ids = s.ids /\ t.calls = s.calls /\ t.inv = s.inv /\ t.out = s.out /\ t.orphans = s.orphans
  BY <1>1 DEF Fields
<1> HIDE DEF t
<1>3. Shape(t) /\ EmptyOK(t)
  BY <1>1, <1>2 DEF Fit, StructOK, Shape, EmptyOK
<1>4. StructOK(t)
  BY <1>1, <1>2, <1>3 DEF Fit, StructOK
<1>5. Agrees(t, ib, g, ans, sl)
  BY <1>1, <1>2, AgreesSame
<1> QED BY <1>2, <1>3, <1>4, <1>5 DEF Turn, Fit, t

(* The call that was answered is taken out of the queue.                   *)
LEMMA TurnTakes ==
  ASSUME NEW s, NEW ib \in Seq(Packets), ib # <<>>, NEW g, NEW ans, NEW sl,
         Turn(s, ib, g, ans, sl), s.open, IsAnswer(Head(ib)), NEW i \in Matching(s, Head(ib).txn)
  PROVE  LET e == AV_erase(s, i)
         IN  /\ Turn(e, Tail(ib), g, ans \cup {Head(ib).txn}, sl) /\ e.open
             /\ e.n = s.n /\ e.cur = s.cur /\ e.out = s.out
             /\ \A name : ~Answered(e, Tail(ib), name)
             /\ Answered(s, ib, s.calls[i].name) /\ Answers(s, ib[1], s.calls[i].name)
<1> DEFINE m == Head(ib)
           e == AV_erase(s, i)
<1>1. i \in 1..Len(s.calls) /\ s.calls[i].txn = m.txn
  BY DEF Matching
<1>2. Agrees(s, ib, g, ans, sl)
  BY DEF Turn
<1>3. /\ m.txn \in Nat /\ m.txn <= s.inv
      /\ \A t : \A name : ~Answered(t, Tail(ib), name)
      /\ \A j \in 1..Len(s.calls) : s.calls[j].txn = m.txn =>
            Answered(s, ib, s.calls[j].name) /\ Answers(s, ib[1], s.calls[j].name)
  BY <1>2, HeadAnswers
<1> HIDE DEF m
<1>4. /\ Turn(e, ib, g, ans, sl) /\ e.open /\ e.n = s.n /\ e.cur = s.cur /\ e.ids = s.ids
      /\ e.out = s.out /\ e.inv = s.inv /\ e.playing = s.playing
      /\ \A j \in 1..Len(e.calls) : e.calls[j].txn # s.calls[i].txn
  BY <1>1, TurnErase
<1> HIDE DEF e
<1>5. Turn(e, Tail(ib), g, ans \cup {m.txn}, sl)
  BY <1>1, <1>3, <1>4, TurnAnswered
<1> QED BY <1>1, <1>3, <1>4, <1>5 DEF m, e

LEMMA TurnUnmatched ==
  ASSUME NEW s, NEW ib \in Seq(Packets), ib # <<>>, NEW g, NEW ans, NEW sl,
         Turn(s, ib, g, ans, sl), s.open, IsAnswer(Head(ib)), Matching(s, Head(ib).txn) = {}
  PROVE  Turn(s, Tail(ib), g, ans \cup {Head(ib).txn}, sl)
<1> DEFINE m == Head(ib)
<1>1. Agrees(s, ib, g, ans, sl)
  BY DEF Turn
<1>2. /\ m.txn \in Nat /\ m.txn <= s.inv
      /\ \A t : \A name : ~Answered(t, Tail(ib), name)
      /\ \A j \in 1..Len(s.calls) : s.calls[j].txn = m.txn =>
            Answered(s, ib, s.calls[j].name) /\ Answers(s, ib[1], s.calls[j].name)
  BY <1>1, HeadAnswers
<1>3. \A j \in 1..Len(s.calls) : s.calls[j].txn # m.txn
  BY DEF Matching
<1> HIDE DEF m
<1>4. Turn(s, Tail(ib), g, ans \cup {m.txn}, sl)
  BY <1>2, <1>3, TurnAnswered
<1> QED BY <1>4 DEF m

LEMMA TurnResult ==
  ASSUME NEW s, NEW ib \in Seq(Packets), ib # <<>>, NEW g, NEW ans, NEW sl,
         Turn(s, ib, g, ans, sl), s.open, IsAnswer(Head(ib)), Head(ib).name = "_result",
         s.cur <= MaxIdx
  PROVE  Turn(HandleResult(s, Head(ib)), Tail(ib), g, ans \cup {Head(ib).txn}, sl)
<1> DEFINE m == Head(ib)
           tl == Tail(ib)
           all == ans \cup {m.txn}
           i == CHOOSE j \in Matching(s, m.txn) : TRUE
           e == AV_erase(s, i)
           name == s.calls[i].name
<1>1. CASE Matching(s, m.txn) = {}
  BY <1>1, TurnUnmatched DEF HandleResult
<1>2. CASE Matching(s, m.txn) # {}
  <2>1. i \in Matching(s, m.txn)
    BY <1>2
  <2>2. HandleResult(s, m) = CASE name = "connect"      -> ConnectResult(e)
               [] name = "createStream" -> CreateStreamResult(e, m.id)
               [] name = "publish"      -> [e EXCEPT !.playing = TRUE]
               [] OTHER                 -> e
    BY <1>2 DEF HandleResult
  <2>3. m \in Packets /\ ib[1] = m /\ 1 \in 1..Len(ib) /\ m.type = "invoke"
    BY DEF IsAnswer
  <2>4. m.id \in Int
    BY <2>3 DEF Packets
  <2> HIDE DEF i
  <2>5. /\ Turn(e, tl, g, all, sl) /\ e.open
        /\ e.n = s.n /\ e.cur = s.cur /\ e.out = s.out
        /\ \A nm : ~Answered(e, tl, nm)
        /\ Answered(s, ib, name) /\ Answers(s, ib[1], name)
    BY <2>1, TurnTakes
  <2>6. ConnectFirst(s, ib) /\ Created(s, ib, g)
    BY DEF Turn, Agrees
  <2> HIDE DEF e, name, m, tl, all
  <2>7. \A nm : InOut(e, nm) = InOut(s, nm)
    BY <2>5 DEF InOut
  <2>8. CASE name = "connect"
    <3>1. ~InOut(s, "connect")
      BY <2>5, <2>6, <2>8 DEF ConnectFirst
    <3>2. ~Live(e, tl, "connect")
      BY <2>5, <2>7, <3>1 DEF Live
    <3>3. Turn(ConnectResult(e), tl, g, all, sl)
      BY <2>5, <3>2, TurnCreates
    <3> QED BY <2>2, <2>8, <3>3 DEF m, tl, all
  <2>9. CASE name = "createStream"
    <3>1. Live(s, ib, "createStream")
      BY <2>5, <2>9 DEF Live
    <3>2. ~InOut(s, "connect")
      BY <2>6, <3>1 DEF ConnectFirst, Live
    <3>3. ~Live(e, tl, "connect")
      BY <2>5, <2>7, <3>2 DEF Live
    <3>4. e.n >= 1 /\ m.id \in g
      BY <2>3, <2>5, <2>6, <2>9, <3>1 DEF Created, m
    <3>5. Turn(CreateStreamResult(e, m.id), tl, g, all, sl)
      BY <2>4, <2>5, <3>3, <3>4, TurnPublishes
    <3> QED BY <2>2, <2>9, <3>5 DEF m, tl, all
  <2>10. CASE name = "publish"
    <3>1. e.cur >= 1
      BY <2>5, <2>6, <2>10 DEF Created, Live
    <3>2. Turn([e EXCEPT !.playing = TRUE], tl, g, all, sl)
      BY <2>5, <3>1, TurnPlays
    <3> QED BY <2>2, <2>10, <3>2 DEF m, tl, all
  <2>11. CASE name \notin {"connect", "createStream", "publish"}
    <3>1. HandleResult(s, m) = e
      BY <2>2, <2>11
    <3> QED BY <2>5, <3>1 DEF m, tl, all
  <2> QED BY <2>8, <2>9, <2>10, <2>11
<1> QED BY <1>1, <1>2

(* An error that does not make the client authenticate.                    *)
LEMMA TurnError ==
  ASSUME NEW s, NEW ib \in Seq(Packets), ib # <<>>, NEW g, NEW ans, NEW sl,
         Turn(s, ib, g, ans, sl), s.open, IsAnswer(Head(ib)), Head(ib).name = "_error",
         ~AuthPacket(s, Head(ib)), NEW how
  PROVE  Turn(HandleError(s, Head(ib), how), Tail(ib), g, ans \cup {Head(ib).txn}, sl)
<1> DEFINE m == Head(ib)
           tl == Tail(ib)
           all == ans \cup {m.txn}
           i == CHOOSE j \in Matching(s, m.txn) : TRUE
           e == AV_erase(s, i)
           a == PublisherAuth(e, m)
<1>1. CASE Matching(s, m.txn) = {}
  BY <1>1, TurnUnmatched DEF HandleError
<1>2. CASE Matching(s, m.txn) # {}
  <2>1. i \in Matching(s, m.txn)
    BY <1>2
  <2>2. /\ Turn(e, tl, g, all, sl) /\ e.open
        /\ e.n = s.n /\ e.cur = s.cur /\ e.out = s.out
        /\ \A nm : ~Answered(e, tl, nm)
        /\ Answered(s, ib, s.calls[i].name) /\ Answers(s, ib[1], s.calls[i].name)
    <3> HIDE DEF i
    <3> QED BY <2>1, TurnTakes
  <2>3. CASE s.calls[i].name # "connect"
    <3>1. HandleError(s, m, how) = e
      BY <1>2, <2>3 DEF HandleError
    <3> QED BY <2>2, <3>1
  <2>4. CASE s.calls[i].name = "connect"
    <3>1. ~Reconnects(s, m)
      BY <2>1, <2>4 DEF AuthPacket, IsAnswer
    <3>2. DOMAIN s = Fields
      BY DEF Turn, Fit, StructOK, Shape
    <3>3. ~Reconnects(e, m)
      BY <3>1, <3>2 DEF Reconnects, AV_erase, Fields
    <3>4. HandleError(s, m, how) = a
      BY <1>2, <2>4, <3>3 DEF HandleError
    <3> HIDE DEF e
    <3>5. a = e \/ a = AuthFails(e)
      BY <3>3 DEF PublisherAuth, Reconnects, AuthName
    <3>6. Turn(AuthFails(e), tl, g, all, sl)
      <4>1. DOMAIN e = Fields
        BY <2>2 DEF Turn, Fit, StructOK, Shape
      <4> DEFINE c == AuthFails(e)
      <4>2. /\ DOMAIN c = Fields /\ c.open = e.open /\ c.playing = e.playing /\ c.ids = e.ids
            /\ c.n = e.n /\ c.cur = e.cur /\ c.calls = e.calls /\ c.inv = e.inv /\ c.out = e.out
            /\ c.orphans = e.orphans
        BY <4>1 DEF AuthFails, Fields
      <4> HIDE DEF c, all, tl
      <4>3. Turn(c, tl, g, all, sl)
        BY <2>2, <4>2, TurnSame
      <4> QED BY <4>3 DEF c
    <3> QED BY <2>2, <3>4, <3>5, <3>6
  <2> QED BY <2>3, <2>4
<1> QED BY <1>1, <1>2

(* What the server says of the stream: it was taken, or all is over.       *)
LEMMA TurnStatus ==
  ASSUME NEW s, NEW ib \in Seq(Packets), ib # <<>>, NEW g, NEW ans, NEW sl,
         Turn(s, ib, g, ans, sl), s.open, Head(ib).type = "invoke", Head(ib).name = "onStatus"
  PROVE  Turn(HandleStatus(s, Head(ib)), Tail(ib), g, ans, sl)
<1> DEFINE m == Head(ib)
           tl == Tail(ib)
           p == [s EXCEPT !.playing = TRUE]
<1>1. Turn(s, tl, g, ans, sl) /\ Fit(s) /\ Agrees(s, ib, g, ans, sl)
  BY TurnTail DEF Turn
<1>2. Turn(RTMP_Close(s), tl, g, ans, sl)
  BY <1>1, TurnClose
<1>3. CASE m.code = "Publish.Start"
  <2>1. Starts(ib)
    <3>1. ib[1] = m /\ 1 \in 1..Len(ib)
      OBVIOUS
    <3> QED BY <1>3, <3>1 DEF Starts, IsStart
  <2>2. s.cur >= 1
    BY <1>1, <2>1 DEF Agrees, Created
  <2> HIDE DEF tl
  <2>3. Turn(p, tl, g, ans, sl)
    BY <1>1, <2>2, TurnPlays
  <2>4. p.open
    BY <1>1 DEF Fit, StructOK, Shape, Fields
  <2>5. HandleStatus(s, m) = EraseNamed(p, "publish")
    BY <1>3 DEF HandleStatus
  <2> HIDE DEF p, m
  <2>6. Turn(EraseNamed(p, "publish"), tl, g, ans, sl)
    BY <2>3, <2>4, TurnEraseNamed
  <2> QED BY <2>5, <2>6 DEF m, tl
<1>4. CASE m.code \in {"Failed", "Play.Stop"}
  BY <1>2, <1>4 DEF HandleStatus
<1>5. CASE m.code \notin {"Failed", "Publish.Start", "Play.Stop"}
  BY <1>1, <1>5 DEF HandleStatus
<1> QED BY <1>3, <1>4, <1>5

(* What an answer answers.                                                 *)
After(ans, m) == IF IsAnswer(m) THEN ans \cup {m.txn} ELSE ans

LEMMA PacketTyped ==
  ASSUME NEW m \in Packets, m.type = "invoke"
  PROVE  m.txn \in Nat /\ m.name \in Words /\ m.id \in Nat
  BY DEF Packets

LEMMA TurnInvoke ==
  ASSUME NEW s, NEW ib \in Seq(Packets), ib # <<>>, NEW g, NEW ans, NEW sl,
         Turn(s, ib, g, ans, sl), s.open, s.cur <= MaxIdx, ~AuthPacket(s, Head(ib)),
         Head(ib).type = "invoke"
  PROVE  Turn(HandleInvoke(s, Head(ib)), Tail(ib), g, After(ans, Head(ib)), sl)
<1> DEFINE m == Head(ib)
           tl == Tail(ib)
           name == m.name
           b == [s EXCEPT !.bw = 1]
<1>1. Turn(s, tl, g, ans, sl) /\ Fit(s)
  BY TurnTail DEF Turn
<1>2. m \in Packets /\ m.txn \in Nat
  BY PacketTyped
<1>3. CASE name = "_result"
  <2>1. HandleInvoke(s, m) = HandleResult(s, m) /\ IsAnswer(m) /\ After(ans, m) = ans \cup {m.txn}
    BY <1>3 DEF HandleInvoke, IsAnswer, After
  <2>2. Turn(HandleResult(s, Head(ib)), Tail(ib), g, ans \cup {Head(ib).txn}, sl)
    BY <1>3, <2>1, TurnResult
  <2> QED BY <2>1, <2>2
<1>4. CASE name = "_error"
  <2>1. HandleInvoke(s, m) = HandleError(s, m, "unresolved") /\ IsAnswer(m)
        /\ After(ans, m) = ans \cup {m.txn}
    BY <1>4 DEF HandleInvoke, IsAnswer, After
  <2>2. Turn(HandleError(s, Head(ib), "unresolved"), Tail(ib), g, ans \cup {Head(ib).txn}, sl)
    BY <1>4, <2>1, TurnError
  <2> QED BY <2>1, <2>2
<1>5. CASE name \notin {"_result", "_error"}
  <2>1. After(ans, m) = ans
    BY <1>5 DEF After, IsAnswer
  <2>2. CASE name = "onStatus"
    <3>1. HandleInvoke(s, m) = HandleStatus(s, m)
      BY <2>2 DEF HandleInvoke
    <3>2. Turn(HandleStatus(s, Head(ib)), Tail(ib), g, ans, sl)
      BY <2>2, TurnStatus
    <3> QED BY <2>1, <3>1, <3>2
  <2>3. CASE name = "onBWDone"
    <3> DEFINE cs == <<SendCheckBW>>
    <3>1. HandleInvoke(s, m) = s \/ HandleInvoke(s, m) = Invokes(s, cs, FALSE)
      BY <2>3 DEF HandleInvoke
    <3>2. SendCheckBW \in Invocations /\ SendCheckBW.name = "_checkbw"
      BY CallTyped, SomeWords DEF SendCheckBW
    <3>3. cs \in Seq(Invocations) /\ Len(cs) = 1 /\ cs[1] = SendCheckBW
      BY <3>2
    <3>4. \A i \in 1..Len(cs) : cs[i].name \notin Milestones
      BY <3>2, <3>3 DEF Milestones
    <3> HIDE DEF cs, tl
    <3>5. Turn(Invokes(s, cs, FALSE), tl, g, ans, sl)
      BY <1>1, <3>3, <3>4, TurnInvokes
    <3> QED BY <1>1, <2>1, <3>1, <3>5 DEF tl
  <2>4. CASE name = "_onbwcheck"
    <3>1. HandleInvoke(s, m) = WriteN(b, <<Msg("_result", m.txn, 0)>>)
      BY <2>4 DEF HandleInvoke, SendCheckBWResult
    <3>2. DOMAIN s = Fields
      BY <1>1 DEF Fit, StructOK, Shape
    <3>3. /\ DOMAIN b = Fields /\ b.open = s.open /\ b.playing = s.playing /\ b.ids = s.ids
          /\ b.n = s.n /\ b.cur = s.cur /\ b.calls = s.calls /\ b.inv = s.inv /\ b.out = s.out
          /\ b.orphans = s.orphans
      BY <3>2 DEF Fields
    <3> HIDE DEF b, tl, m
    <3>4. Turn(b, tl, g, ans, sl) /\ b.open
      BY <1>1, <3>3, TurnSame
    <3>5. "_result" \in Words /\ "_result" \notin Milestones
      BY SomeWords DEF Milestones
    <3>6. Turn(WriteN(b, <<Msg("_result", m.txn, 0)>>), tl, g, ans, sl)
      BY <1>2, <3>4, <3>5, TurnWrites
    <3> QED BY <2>1, <3>1, <3>6 DEF tl, m
  <2>5. CASE name = "_onbwdone"
    <3>1. HandleInvoke(s, m) = EraseNamed(s, "_checkbw")
      BY <2>5 DEF HandleInvoke
    <3> HIDE DEF tl
    <3>2. Turn(EraseNamed(s, "_checkbw"), tl, g, ans, sl)
      BY <1>1, TurnEraseNamed
    <3> QED BY <2>1, <3>1, <3>2 DEF tl
  <2>6. CASE name = "ping"
    <3>1. HandleInvoke(s, m) = WriteN(s, <<Msg("pong", m.txn, 0)>>)
      BY <2>6 DEF HandleInvoke, SendPong
    <3>2. "pong" \in Words /\ "pong" \notin Milestones
      BY SomeWords DEF Milestones
    <3> HIDE DEF tl, m
    <3>3. Turn(WriteN(s, <<Msg("pong", m.txn, 0)>>), tl, g, ans, sl)
      BY <1>1, <1>2, <3>2, TurnWrites
    <3> QED BY <2>1, <3>1, <3>3 DEF tl, m
  <2>7. CASE name \in {"close", "onFCUnsubscribe"}
    <3>1. HandleInvoke(s, m) = RTMP_Close(s)
      BY <2>7 DEF HandleInvoke
    <3>2. Turn(RTMP_Close(s), tl, g, ans, sl)
      BY <1>1, TurnClose
    <3> QED BY <2>1, <3>1, <3>2
  <2>8. CASE name \notin {"onStatus", "onBWDone", "_onbwcheck", "_onbwdone", "ping", "close",
                          "onFCUnsubscribe"}
    <3>1. HandleInvoke(s, m) = s
      BY <1>5, <2>8 DEF HandleInvoke
    <3> QED BY <1>1, <2>1, <3>1
  <2> QED BY <2>2, <2>3, <2>4, <2>5, <2>6, <2>7, <2>8
<1> QED BY <1>3, <1>4, <1>5

LEMMA TurnPacket ==
  ASSUME NEW s, NEW ib \in Seq(Packets), ib # <<>>, NEW g, NEW ans, NEW sl,
         Turn(s, ib, g, ans, sl), s.open, s.cur <= MaxIdx, ~AuthPacket(s, Head(ib))
  PROVE  Turn(RTMP_ClientPacket(s, Head(ib)), Tail(ib), g, After(ans, Head(ib)), sl)
<1> DEFINE m == Head(ib)
           tl == Tail(ib)
           c == [s EXCEPT !.chunk = "set"]
<1>1. Turn(s, tl, g, ans, sl) /\ Fit(s)
  BY TurnTail DEF Turn
<1>2. CASE m.type = "invoke"
  <2>1. RTMP_ClientPacket(s, m) = HandleInvoke(s, m)
    BY <1>2 DEF RTMP_ClientPacket
  <2>2. Turn(HandleInvoke(s, Head(ib)), Tail(ib), g, After(ans, Head(ib)), sl)
    BY <1>2, TurnInvoke
  <2> QED BY <2>1, <2>2
<1>3. CASE m.type # "invoke"
  <2>1. After(ans, m) = ans
    BY <1>3 DEF After, IsAnswer
  <2>2. CASE m.type = "control"
    <3>1. RTMP_ClientPacket(s, m) = s \/ RTMP_ClientPacket(s, m) = WriteN(s, <<Msg("ctrl", 0, 0)>>)
      BY <2>2 DEF RTMP_ClientPacket, HandleCtrl, RTMP_SendCtrl
    <3>2. "ctrl" \in Words /\ "ctrl" \notin Milestones /\ 0 \in Nat
      BY SomeWords DEF Milestones
    <3> HIDE DEF tl, m
    <3>3. Turn(WriteN(s, <<Msg("ctrl", 0, 0)>>), tl, g, ans, sl)
      BY <1>1, <3>2, TurnWrites
    <3> QED BY <1>1, <2>1, <3>1, <3>3 DEF tl, m
  <2>3. CASE m.type = "chunk"
    <3>1. RTMP_ClientPacket(s, m) = c
      BY <2>3 DEF RTMP_ClientPacket
    <3>2. DOMAIN s = Fields
      BY <1>1 DEF Fit, StructOK, Shape
    <3>3. /\ DOMAIN c = Fields /\ c.open = s.open /\ c.playing = s.playing /\ c.ids = s.ids
          /\ c.n = s.n /\ c.cur = s.cur /\ c.calls = s.calls /\ c.inv = s.inv /\ c.out = s.out
          /\ c.orphans = s.orphans
      BY <3>2 DEF Fields
    <3> HIDE DEF c, tl, m
    <3>4. Turn(c, tl, g, ans, sl)
      BY <1>1, <3>3, TurnSame
    <3> QED BY <2>1, <3>1, <3>4 DEF tl, m
  <2>4. CASE m.type \notin {"invoke", "control", "chunk"}
    <3>1. RTMP_ClientPacket(s, m) = s
      BY <2>4 DEF RTMP_ClientPacket
    <3> QED BY <1>1, <2>1, <3>1
  <2> QED BY <1>3, <2>2, <2>3, <2>4
<1> QED BY <1>2, <1>3

(* Reading only counts, and reports what was counted.                      *)
LEMMA TurnReads ==
  ASSUME NEW s, NEW ib, NEW g, NEW ans, NEW sl, Turn(s, ib, g, ans, sl), s.open
  PROVE  LET f == ReadN(s)
         IN  Turn(f, ib, g, ans, sl) /\ Kept(s, f) /\ (f.open => f.playing = s.playing)
<1> DEFINE c == [s EXCEPT !.in = s.in + 1]
           b == [c EXCEPT !.reported = c.in]
           w == WriteN(b, <<Msg("bytes", 0, 0)>>)
<1>1. DOMAIN s = Fields /\ Fit(s) /\ s.open = TRUE
  BY DEF Turn, Fit, StructOK, Shape
<1>2. /\ DOMAIN c = Fields /\ c.open = s.open /\ c.playing = s.playing /\ c.ids = s.ids
      /\ c.n = s.n /\ c.cur = s.cur /\ c.calls = s.calls /\ c.inv = s.inv /\ c.out = s.out
      /\ c.orphans = s.orphans
  BY <1>1 DEF Fields
<1>3. /\ DOMAIN b = Fields /\ b.open = s.open /\ b.playing = s.playing /\ b.ids = s.ids
      /\ b.n = s.n /\ b.cur = s.cur /\ b.calls = s.calls /\ b.inv = s.inv /\ b.out = s.out
      /\ b.orphans = s.orphans
  BY <1>1 DEF Fields
<1>4. ReadN(s) = IF c.in > c.reported + Window THEN w ELSE c
  BY DEF ReadN, SendBytesReceived
<1> HIDE DEF b, c
<1>5. Turn(c, ib, g, ans, sl)
  BY <1>2, TurnSame
<1>6. Turn(b, ib, g, ans, sl)
  BY <1>3, TurnSame
<1>7. "bytes" \in Words /\ "bytes" \notin Milestones /\ 0 \in Nat
  BY SomeWords DEF Milestones
<1>8. Turn(w, ib, g, ans, sl) /\ Kept(b, w) /\ (w.open => w.playing = b.playing)
  BY <1>1, <1>3, <1>6, <1>7, TurnWrites
<1>9. Kept(s, c)
  BY <1>1, <1>2, <1>5 DEF Kept, Turn
<1> HIDE DEF w
<1>10. Kept(s, w)
  BY <1>3, <1>8 DEF Kept
<1> QED BY <1>2, <1>3, <1>4, <1>5, <1>8, <1>9, <1>10

-----------------------------------------------------------------------------
(* Where an attempt comes to rest.                                         *)

LEMMA DropFits ==
  ASSUME NEW s, StructOK(s)
  PROVE  LET d == Dropped(s)
         IN  /\ StructOK(d) /\ d.n = 0 /\ d.cur = 0 /\ d.open = s.open /\ d.out = s.out
             /\ d.calls = s.calls /\ d.inv = s.inv /\ d.playing = s.playing
<1> DEFINE d == Dropped(s)
<1>1. DOMAIN d = DOMAIN s /\ (\A f \in DOMAIN s \ {"n", "cur"} : d[f] = s[f])
  BY DEF Dropped
<1>2. DOMAIN s = Fields
  BY DEF StructOK, Shape
<1>3. /\ DOMAIN d = Fields /\ d.open = s.open /\ d.playing = s.playing /\ d.ids = s.ids
      /\ d.calls = s.calls /\ d.inv = s.inv /\ d.out = s.out /\ d.orphans = s.orphans
  BY <1>1, <1>2 DEF Fields
<1>4. d.n = 0 /\ d.cur = 0
  BY <1>2 DEF Dropped, Fields
<1> HIDE DEF d
<1>5. Shape(d)
  BY <1>3, <1>4 DEF StructOK, Shape, MaxIdx
<1>6. StructOK(d)
  BY <1>3, <1>5 DEF StructOK
<1> QED BY <1>3, <1>4, <1>6 DEF d

(* The end of an attempt: whatever was published stays so.                 *)
LEMMA EndsSettled ==
  ASSUME NEW s, StructOK(s), CallsNumbered(s), ~s.playing, NEW g, NEW sl,
         \A i \in 1..Len(s.out) : s.out[i].name = "publish" => s.out[i].sid \in g,
         s.n = 0 /\ ~sl => s.cur = 0, NEW ib, NEW ans, NEW code, Ends(s, code)
  PROVE  Settled(r', pc', ib, g, ans, sl)
<1> DEFINE d == Dropped(s)
<1>1. pc' = "idle" /\ (r' = d \/ r' = s)
  BY DEF Ends
<1>2. /\ StructOK(d) /\ d.n = 0 /\ d.cur = 0 /\ d.open = s.open /\ d.out = s.out
      /\ d.calls = s.calls /\ d.inv = s.inv /\ d.playing = s.playing
  BY DropFits
<1> HIDE DEF d
<1>3. CallsNumbered(d)
  BY <1>2 DEF CallsNumbered
<1>4. Settled(d, "idle", ib, g, ans, sl)
  BY <1>2, <1>3 DEF Settled
<1>5. Settled(s, "idle", ib, g, ans, sl)
  BY DEF Settled
<1> QED BY <1>1, <1>4, <1>5

LEMMA ClosedQuiet ==
  ASSUME NEW s, StructOK(s), ~s.open
  PROVE  CallsNumbered(s) /\ ~s.playing /\ s.out = <<>>
         /\ \A g : \A i \in 1..Len(s.out) : s.out[i].name = "publish" => s.out[i].sid \in g
<1>1. s.out = <<>> /\ s.calls = <<>> /\ ~s.playing
  BY DEF StructOK
<1>2. Len(s.out) = 0 /\ Len(s.calls) = 0
  BY <1>1
<1> QED BY <1>1, <1>2 DEF CallsNumbered

LEMMA LoopsSettled ==
  ASSUME NEW s, NEW ib, NEW g, NEW ans, NEW sl, Turn(s, ib, g, ans, sl),
         s.n = 0 /\ ~sl => s.cur = 0, Loops(s)
  PROVE  Settled(r', pc', ib, g, ans, sl)
<1>1. Fit(s) /\ StructOK(s) /\ EmptyOK(s) /\ Agrees(s, ib, g, ans, sl) /\ (s.playing => s.cur >= 1)
      /\ DOMAIN s = Fields
  BY DEF Turn, Fit, StructOK, Shape
<1>2. CASE ~s.open
  <2>1. Ends(s, "INVALID_STREAM")
    BY <1>2 DEF Loops
  <2>2. CallsNumbered(s) /\ ~s.playing
        /\ \A i \in 1..Len(s.out) : s.out[i].name = "publish" => s.out[i].sid \in g
    BY <1>1, <1>2, ClosedQuiet
  <2> QED BY <1>1, <2>1, <2>2, EndsSettled
<1>3. CASE s.open /\ s.playing
  <2> DEFINE t == [s EXCEPT !.out = <<>>]
  <2>1. r' = t /\ pc' = "sending"
    BY <1>3 DEF Loops
  <2>2. /\ DOMAIN t = Fields /\ t.open = s.open /\ t.playing = s.playing /\ t.ids = s.ids
        /\ t.n = s.n /\ t.cur = s.cur /\ t.calls = s.calls /\ t.inv = s.inv /\ t.out = <<>>
        /\ t.orphans = s.orphans
    BY <1>1 DEF Fields
  <2> HIDE DEF t
  <2>3. Shape(t) /\ EmptyOK(t)
    BY <1>1, <2>2 DEF StructOK, Shape, EmptyOK
  <2>4. StructOK(t)
    BY <1>1, <1>3, <2>2, <2>3 DEF StructOK
  <2>5. CallsNumbered(s) /\ Placed(s, g, sl)
    BY <1>1, <1>3 DEF Agrees
  <2>6. CallsNumbered(t) /\ Placed(t, g, sl)
    BY <2>2, <2>5 DEF CallsNumbered, Placed
  <2>7. t.cur >= 1 /\ t.playing /\ Len(t.out) = 0 /\ (t.n = 0 /\ ~sl => t.cur = 0)
    BY <1>1, <1>3, <2>2
  <2>8. Settled(t, "sending", ib, g, ans, sl)
    BY <2>2, <2>3, <2>4, <2>6, <2>7 DEF Settled
  <2> QED BY <2>1, <2>8
<1>4. CASE s.open /\ ~s.playing
  <2>1. r' = s /\ pc' = "reading"
    BY <1>4 DEF Loops
  <2>2. CallsNumbered(s) /\ Created(s, ib, g)
    BY <1>1, <1>4 DEF Agrees
  <2>3. Settled(s, "reading", ib, g, ans, sl)
    BY <1>1, <1>4, <2>2 DEF Settled, Created
  <2> QED BY <2>1, <2>3
<1> QED BY <1>2, <1>3, <1>4

-----------------------------------------------------------------------------
(* One turn of the loop of RTMP_ConnectStream.                             *)

LEMMA SettledReading ==
  ASSUME SessionInv, pc = "reading"
  PROVE  /\ Turn(r, inbox, ghost.granted, ghost.answered, ghost.slipped)
         /\ r.open /\ ~r.playing /\ inbox \in Seq(Packets)
         /\ (r.n = 0 /\ ~ghost.slipped => r.cur = 0)
         /\ SocketTypeOK /\ IsFiniteSet(ghost.granted) /\ ghost.slipped \in BOOLEAN
  BY DEF SessionInv, Settled, SocketsInv, Turn, Fit

(* Once the index has slipped less is claimed.                             *)
LEMMA TurnSlips ==
  ASSUME NEW s, NEW ib, NEW g, NEW ans, NEW sl \in BOOLEAN, NEW more \in BOOLEAN,
         Turn(s, ib, g, ans, sl)
  PROVE  Turn(s, ib, g, ans, sl \/ more)
<1> DEFINE all == sl \/ more
<1>1. sl => all
  OBVIOUS
<1> HIDE DEF all
<1>2. Agrees(s, ib, g, ans, all)
  BY <1>1 DEF Turn, Agrees, Placed
<1> QED BY <1>2 DEF Turn, all

(* A packet is read and handled.                                           *)
LEMMA ConnectStreamSettled ==
  ASSUME SessionInv, r.cur <= MaxIdx, ConnectStream
  PROVE  /\ Settled(r', pc', inbox', ghost'.granted, ghost'.answered, ghost'.slipped)
         /\ inbox' \in Seq(Packets) /\ ghost'.granted = ghost.granted
         /\ ghost'.slipped \in BOOLEAN
<1> DEFINE ib == inbox
           g == ghost.granted
           ans == ghost.answered
           sl == ghost.slipped
           m == Head(ib)
           f == ReadN(r)
           s == IF f.open THEN RTMP_ClientPacket(f, m) ELSE f
           now == IF f.open THEN After(ans, m) ELSE ans
<1>1. pc = "reading" /\ ib # <<>> /\ ~AuthPacket(f, m) /\ Loops(s)
      /\ inbox' = (IF s.open THEN Tail(ib) ELSE <<>>)
  BY DEF ConnectStream
<1>2. /\ Turn(r, ib, g, ans, sl) /\ r.open /\ ~r.playing /\ ib \in Seq(Packets)
      /\ (r.n = 0 /\ ~sl => r.cur = 0) /\ SocketTypeOK /\ IsFiniteSet(g) /\ sl \in BOOLEAN
  BY <1>1, SettledReading
<1>3. ghost'.granted = g /\ ghost'.answered = now /\ ghost'.slipped = (sl \/ Slips(s))
  <2>1. DOMAIN ghost = {"lost", "timeouts", "granted", "answered", "slipped"}
    BY <1>2 DEF SocketTypeOK
  <2>2. ghost' = [ghost EXCEPT
                    !.answered = IF f.open /\ m.type = "invoke" /\ m.name \in {"_result", "_error"}
                                 THEN ans \cup {m.txn} ELSE ans,
                    !.slipped = sl \/ Slips(s)]
    <3>1. PICK f0 \in {ReadN(r)} : \E s0 \in {IF f0.open THEN RTMP_ClientPacket(f0, m) ELSE f0} :
             ghost' = [ghost EXCEPT
                    !.answered = IF f0.open /\ m.type = "invoke" /\ m.name \in {"_result", "_error"}
                                 THEN ans \cup {m.txn} ELSE ans,
                    !.slipped = sl \/ Slips(s0)]
      BY DEF ConnectStream
    <3>2. f0 = f
      OBVIOUS
    <3> HIDE DEF f
    <3> QED BY <3>1, <3>2
  <2>3. now = IF f.open /\ m.type = "invoke" /\ m.name \in {"_result", "_error"}
              THEN ans \cup {m.txn} ELSE ans
    BY DEF After, IsAnswer
  <2> HIDE DEF f, s, now, ans, sl, m
  <2> QED BY <2>1, <2>2, <2>3 DEF g
<1> HIDE DEF ib, g, ans, sl
<1>4. Turn(f, ib, g, ans, sl) /\ Kept(r, f)
  BY <1>2, TurnReads
<1>5. Turn(s, Tail(ib), g, now, sl)
  <2>1. CASE f.open
    <3>1. f.cur <= MaxIdx
      BY <1>4, <2>1 DEF Kept
    <3> HIDE DEF f
    <3>2. Turn(RTMP_ClientPacket(f, Head(ib)), Tail(ib), g, After(ans, Head(ib)), sl)
      BY <1>1, <1>2, <1>4, <2>1, <3>1, TurnPacket
    <3> QED BY <2>1, <3>2
  <2>2. CASE ~f.open
    <3> HIDE DEF f
    <3> QED BY <1>1, <1>2, <1>4, <2>2, TurnTail
  <2> QED BY <2>1, <2>2
<1> HIDE DEF f, s, now, m
<1>6. Slips(s) \in BOOLEAN
  BY DEF Slips
<1>7. Turn(s, Tail(ib), g, now, sl \/ Slips(s))
  BY <1>2, <1>5, <1>6, TurnSlips
<1>8. s.n = 0 /\ ~(sl \/ Slips(s)) => s.cur = 0
  BY <1>5 DEF Slips, Turn, Fit, StructOK, Shape
<1> DEFINE more == sl \/ Slips(s)
<1> HIDE DEF more
<1>9. CASE s.open
  <2>1. Settled(r', pc', Tail(ib), g, now, more)
    BY <1>1, <1>7, <1>8, LoopsSettled DEF more
  <2>2. inbox' = Tail(ib) /\ Tail(ib) \in Seq(Packets)
    BY <1>1, <1>2, <1>9
  <2> QED BY <1>2, <1>3, <1>6, <2>1, <2>2 DEF more, g
<1>10. CASE ~s.open
  <2>1. Turn(s, <<>>, g, now, more)
    BY <1>5, <1>10, TurnClosed DEF Turn
  <2>2. Settled(r', pc', <<>>, g, now, more)
    BY <1>1, <1>8, <2>1, LoopsSettled DEF more
  <2>3. inbox' = <<>>
    BY <1>1, <1>10
  <2> QED BY <1>2, <1>3, <1>6, <2>2, <2>3 DEF more, g
<1> QED BY <1>9, <1>10

-----------------------------------------------------------------------------
(* A new connection.                                                       *)

(* The structure of a session that is over.                                *)
Over(s, sl) ==
  /\ StructOK(s) /\ CallsNumbered(s) /\ ~s.playing /\ EmptyOK(s)
  /\ s.n = 1 /\ ~sl => s.cur = 0

LEMMA OpensFresh ==
  ASSUME NEW s, NEW sl, Over(s, sl)
  PROVE  LET o == RTMP_Connect0(s)
         IN  /\ Turn(o, <<>>, {}, {}, sl) /\ o.open /\ o.n = s.n /\ o.cur = s.cur
             /\ o.out = <<>> /\ ~o.playing
<1> DEFINE o == RTMP_Connect0(s)
<1>1. StructOK(s) /\ CallsNumbered(s) /\ ~s.playing /\ EmptyOK(s) /\ (s.n = 1 /\ ~sl => s.cur = 0)
      /\ s.cur \in Nat
  BY DEF Over, StructOK, Shape
<1>2. /\ DOMAIN o = Fields /\ o.open = TRUE /\ o.playing = s.playing /\ o.ids = s.ids
      /\ o.n = s.n /\ o.cur = s.cur /\ o.calls = s.calls /\ o.inv = s.inv /\ o.out = <<>>
      /\ o.orphans = s.orphans
  <2>1. DOMAIN s = Fields
    BY <1>1 DEF StructOK, Shape
  <2> QED BY <2>1 DEF RTMP_Connect0, Fields
<1> HIDE DEF o
<1>3. Shape(o) /\ EmptyOK(o)
  BY <1>1, <1>2 DEF StructOK, Shape, EmptyOK
<1>4. StructOK(o)
  BY <1>1, <1>2, <1>3 DEF StructOK
<1>5. CallsNumbered(o)
  BY <1>1, <1>2 DEF CallsNumbered
<1>6. Len(o.out) = 0 /\ Len(<<>>) = 0
  BY <1>2
<1>7. Numbered(o, <<>>, {}) /\ Named(o)
  BY <1>6 DEF Numbered, Named
<1>8. \A name : ~Live(o, <<>>, name)
  BY <1>6 DEF Live, InOut, Answered
<1>9. ~Starts(<<>>)
  BY <1>6 DEF Starts
<1>10. ConnectFirst(o, <<>>)
  BY <1>6, <1>8 DEF ConnectFirst, Live
<1>11. Created(o, <<>>, {})
  BY <1>6, <1>8, <1>9 DEF Created
<1>12. Placed(o, {}, sl)
  BY <1>1, <1>2 DEF Placed
<1>13. Agrees(o, <<>>, {}, {}, sl)
  BY <1>5, <1>7, <1>8, <1>10, <1>11, <1>12 DEF Agrees
<1> QED BY <1>1, <1>2, <1>3, <1>4, <1>13 DEF Turn, Fit, o

(* connect is the first thing that is said.                                *)
LEMMA SaysConnect ==
  ASSUME NEW w, NEW sl, Turn(w, <<>>, {}, {}, sl), w.open, NEW q \in Words,
         q \notin Requests, NEW sid \in Int, w.out = <<Msg(q, 0, sid)>>,
         w.n = 1 /\ ~sl => w.cur = 0, ~w.playing
  PROVE  LET c == Invokes(w, <<Call("connect", 0)>>, TRUE)
         IN  Turn(c, <<>>, {}, {}, sl) /\ Kept(w, c) /\ ~c.playing
<1> DEFINE cs == <<Call("connect", 0)>>
           c == Invokes(w, cs, TRUE)
<1>1. Call("connect", 0) \in Invocations /\ Call("connect", 0).name = "connect"
  BY CallTyped, SomeWords
<1>2. cs \in Seq(Invocations) /\ Len(cs) = 1 /\ cs[1].name = "connect"
  BY <1>1
<1> HIDE DEF cs
<1>3. Fit(w) /\ StructOK(w) /\ Agrees(w, <<>>, {}, {}, sl)
  BY DEF Turn, Fit
<1>4. Kept(w, c)
  BY <1>2, <1>3, InvokesKept
<1>5. c.open => /\ Rest(w, c) /\ c.out = w.out \o Sent(w, cs)
                /\ c.calls = AV_queue(w, cs) /\ c.inv = w.inv + Len(cs)
  BY <1>2, <1>3, QueuedFits
<1> HIDE DEF c
<1>6. CASE ~c.open
  <2>1. Turn(c, <<>>, {}, {}, sl)
    BY <1>4, <1>6, TurnClosed DEF Kept
  <2>2. ~c.playing
    BY <1>4, <1>6 DEF Kept, Fit, StructOK
  <2> QED BY <1>4, <2>1, <2>2 DEF c, cs
<1>7. CASE c.open
  <2>1. CallsNumbered(w) /\ Numbered(w, <<>>, {}) /\ Named(w) /\ w.out \in Seq(Messages)
        /\ w.calls \in Seq(Calls) /\ w.inv \in Nat
    BY <1>3 DEF Agrees, StructOK
  <2>2. /\ CallsNumbered(c) /\ Numbered(c, <<>>, {}) /\ Named(c) /\ Lengthens(w, c, cs)
    BY <1>2, <1>5, <1>7, <2>1, Queued
  <2>3. Len(w.out) = 1 /\ w.out[1].name = q
    BY DEF Msg
  <2>4. \A i \in 1..Len(c.out) : \/ i = 1 /\ c.out[i].name = q
                                 \/ i = 2 /\ c.out[i].name = "connect"
    <3> SUFFICES ASSUME NEW i \in 1..Len(c.out)
                 PROVE  \/ i = 1 /\ c.out[i].name = q
                        \/ i = 2 /\ c.out[i].name = "connect"
      OBVIOUS
    <3>1. CASE i \in 1..Len(w.out) /\ c.out[i] = w.out[i]
      BY <2>3, <3>1
    <3>2. CASE \E j \in 1..Len(cs) : i = Len(w.out) + j /\ c.out[i].name = cs[j].name
      BY <1>2, <2>3, <3>2
    <3> QED BY <2>2, <3>1, <3>2 DEF Lengthens
  <2>5. \A i, j \in 1..Len(c.out) : c.out[i].name = "connect" /\ c.out[j].name = "connect" => i = j
    BY <2>4 DEF Requests
  <2>6. ~InOut(c, "createStream") /\ ~InOut(c, "publish")
    BY <2>4 DEF Requests, InOut
  <2>7. Len(<<>>) = 0
    OBVIOUS
  <2>8. (\A name : ~Answered(c, <<>>, name)) /\ ~Starts(<<>>)
    BY <2>7 DEF Answered, Starts
  <2>9. ConnectFirst(c, <<>>)
    BY <2>5, <2>6, <2>8 DEF ConnectFirst, Live
  <2>10. Created(c, <<>>, {})
    BY <2>4, <2>6, <2>7, <2>8 DEF Created, Live, Requests
  <2>11. c.n = w.n /\ c.cur = w.cur /\ c.playing = w.playing
    BY <1>5, <1>7 DEF Rest
  <2>12. w.cur \in Nat
    BY <1>3 DEF StructOK, Shape
  <2>13. Placed(c, {}, sl) /\ (c.n = 1 /\ ~sl => c.cur = 0)
    BY <2>11, <2>12 DEF Placed
  <2>14. Agrees(c, <<>>, {}, {}, sl)
    BY <2>2, <2>9, <2>10, <2>13 DEF Agrees
  <2> QED BY <1>4, <2>11, <2>14 DEF Turn, Kept, c, cs
<1> QED BY <1>6, <1>7

(* A new connection, if there is one, begins with nothing but connect.     *)
LEMMA ConnectFresh ==
  ASSUME NEW s, NEW sl, Over(s, sl), NEW how \in Outcomes
  PROVE  LET c == RTMP_Connect(s, how)
         IN  /\ StructOK(c) /\ CallsNumbered(c) /\ ~c.playing /\ EmptyOK(c)
             /\ (c.n = s.n /\ c.cur = s.cur) \/ (c.n = 0 /\ c.cur = 0)
             /\ how = "connected" => Turn(c, <<>>, {}, {}, sl)
             /\ how = "unresolved" => c = s
             /\ how \notin {"connected", "unresolved"} => ~c.open
<1> DEFINE o == RTMP_Connect0(s)
           c == RTMP_Connect(s, how)
<1>1. Turn(o, <<>>, {}, {}, sl) /\ o.open /\ o.n = s.n /\ o.cur = s.cur /\ o.out = <<>> /\ ~o.playing
  BY OpensFresh
<1>2. Fit(o) /\ StructOK(o) /\ Shape(o) /\ EmptyOK(o)
  BY <1>1 DEF Turn, Fit, StructOK
<1> HIDE DEF o
<1>3. CASE how = "unresolved"
  <2>1. c = s
    BY <1>3 DEF RTMP_Connect
  <2> HIDE DEF c
  <2>2. StructOK(c) /\ CallsNumbered(c) /\ ~c.playing /\ EmptyOK(c)
    BY <2>1 DEF Over
  <2> QED BY <1>3, <2>1, <2>2 DEF c
<1>4. CASE how \notin {"connected", "unresolved"}
  <2>1. c = RTMP_Close(o)
    BY <1>4 DEF RTMP_Connect, RTMP_Connect1, Outcomes, o
  <2> HIDE DEF c
  <2>2. Kept(o, c) /\ ~c.open
    BY <1>2, <2>1, CloseFits
  <2>3. StructOK(c) /\ EmptyOK(c)
    BY <2>2 DEF Kept, Fit
  <2>4. CallsNumbered(c) /\ ~c.playing
    BY <2>2, <2>3, ClosedQuiet
  <2>5. (c.n = s.n /\ c.cur = s.cur) \/ (c.n = 0 /\ c.cur = 0)
    BY <1>1, <2>2 DEF Kept
  <2> QED BY <1>4, <2>2, <2>3, <2>4, <2>5 DEF c
<1>5. CASE how = "connected"
  <2> DEFINE w == WriteN(o, <<Msg("chunk", 0, 0)>>)
             k == Invokes(w, <<Call("connect", 0)>>, TRUE)
  <2>1. c = k
    BY <1>5 DEF RTMP_Connect, RTMP_Connect1, SendConnectPacket, o
  <2>2. "chunk" \in Words /\ "chunk" \notin Milestones /\ 0 \in Nat /\ 0 \in Int /\ "chunk" \notin Requests
    BY SomeWords DEF Milestones, Requests
  <2>3. /\ Turn(w, <<>>, {}, {}, sl) /\ Kept(o, w)
        /\ w.open => w.out = o.out \o <<Msg("chunk", 0, 0)>> /\ w.playing = o.playing
    BY <1>1, <2>2, TurnWrites
  <2> HIDE DEF w
  <2>4. Turn(k, <<>>, {}, {}, sl) /\ Kept(w, k) /\ ~k.playing
    <3>1. CASE w.open
      <4>1. w.n = s.n /\ w.cur = s.cur /\ ~w.playing
        BY <1>1, <2>3, <3>1 DEF Kept
      <4>2. w.n = 1 /\ ~sl => w.cur = 0
        BY <4>1 DEF Over
      <4>3. w.out = <<Msg("chunk", 0, 0)>>
        <5> DEFINE x == Msg("chunk", 0, 0)
        <5>1. w.out = <<>> \o <<x>>
          BY <1>1, <2>3, <3>1
        <5>2. <<>> \o <<x>> = <<x>>
          <6> HIDE DEF x
          <6> QED OBVIOUS
        <5> QED BY <5>1, <5>2
      <4> QED BY <2>2, <2>3, <3>1, <4>1, <4>2, <4>3, SaysConnect
    <3>2. CASE ~w.open
      <4>1. Fit(w) /\ Shape(w) /\ EmptyOK(w)
        BY <2>3 DEF Turn, Fit, StructOK
      <4>2. \A cs : ~Takes(w, Len(cs))
        BY <3>2 DEF Takes
      <4>3. <<Call("connect", 0)>> \in Seq(Invocations)
        BY CallTyped, SomeWords
      <4>4. Kept(w, k)
        BY <4>1, <4>3, InvokesKept
      <4> HIDE DEF k
      <4>5. ~k.open
        BY <3>2, <4>4 DEF Kept
      <4>6. ~k.playing /\ Turn(k, <<>>, {}, {}, sl)
        BY <4>4, <4>5, TurnClosed DEF Kept, Fit, StructOK
      <4> QED BY <4>4, <4>6
    <3> QED BY <3>1, <3>2
  <2> HIDE DEF k
  <2>5. StructOK(k) /\ EmptyOK(k)
    BY <2>4 DEF Turn, Fit
  <2>6. CallsNumbered(k)
    BY <2>4, <2>5, ClosedQuiet DEF Turn, Agrees
  <2>7. (k.n = s.n /\ k.cur = s.cur) \/ (k.n = 0 /\ k.cur = 0)
    BY <1>1, <2>3, <2>4 DEF Kept
  <2> QED BY <1>5, <2>1, <2>4, <2>5, <2>6, <2>7
<1> QED BY <1>3, <1>4, <1>5

LEMMA AddsStream ==
  ASSUME NEW s, StructOK(s), CallsNumbered(s), s.n <= MaxIdx
  PROVE  LET t == RTMP_AddStream(RTMP_SetupURL(s))
         IN  /\ StructOK(t) /\ CallsNumbered(t) /\ t.n = s.n + 1 /\ t.n >= 1 /\ t.cur = s.cur
             /\ t.open = s.open /\ t.playing = s.playing /\ t.out = s.out
             /\ Crashes(t) => Crashes(s)
<1> DEFINE u == RTMP_SetupURL(s)
           t == RTMP_AddStream(u)
           ids == [s.ids EXCEPT ![s.n] = -1]
<1>1. Shape(s)
  BY DEF StructOK
<1>2. DOMAIN s = Fields /\ s.n \in Nat /\ s.n \in 0..MaxIdx /\ s.ids \in [0..MaxIdx -> Int]
  BY <1>1 DEF Shape, MaxIdx
<1>3. /\ DOMAIN u = Fields /\ u.open = s.open /\ u.playing = s.playing /\ u.ids = s.ids
      /\ u.n = s.n /\ u.cur = s.cur /\ u.calls = s.calls /\ u.inv = s.inv /\ u.out = s.out
      /\ u.orphans = s.orphans /\ u.app = "plain" /\ (u.tcUrl = "freed" => s.tcUrl = "freed")
  BY <1>2 DEF RTMP_SetupURL, Fields
<1> HIDE DEF u
<1>4. /\ DOMAIN t = Fields /\ t.open = u.open /\ t.playing = u.playing /\ t.ids = ids
      /\ t.n = u.n + 1 /\ t.cur = u.cur /\ t.calls = u.calls /\ t.inv = u.inv /\ t.out = u.out
      /\ t.orphans = u.orphans /\ t.app = u.app /\ t.tcUrl = u.tcUrl
  BY <1>3 DEF RTMP_AddStream, Fields
<1>5. ids \in [0..MaxIdx -> Int]
  BY <1>2
<1> HIDE DEF t, ids
<1>6. t.n = s.n + 1 /\ t.n \in 0 .. MaxIdx + 1 /\ t.n >= 1
  BY <1>2, <1>3, <1>4 DEF MaxIdx
<1>7. Shape(t)
  BY <1>1, <1>3, <1>4, <1>5, <1>6 DEF Shape
<1>8. StructOK(t)
  BY <1>3, <1>4, <1>7 DEF StructOK
<1>9. CallsNumbered(t)
  BY <1>3, <1>4 DEF CallsNumbered
<1>10. Crashes(t) => Crashes(s)
  BY <1>3, <1>4 DEF Crashes
<1> QED BY <1>3, <1>4, <1>6, <1>8, <1>9, <1>10 DEF t, u

(* A further attempt on the same structure.                                *)
LEMMA TrySettled ==
  ASSUME SessionInv, NEW how \in Outcomes, try_connect(how)
  PROVE  /\ Settled(r', pc', inbox', ghost'.granted, ghost'.answered, ghost'.slipped)
         /\ inbox' \in Seq(Packets) /\ IsFiniteSet(ghost'.granted) /\ ghost'.slipped \in BOOLEAN
<1> DEFINE s == RTMP_AddStream(RTMP_SetupURL(r))
           c == RTMP_Connect(s, how)
           sl == ghost.slipped
<1>1. pc = "idle" /\ r.n <= MaxIdx
  BY DEF try_connect
<1>2. /\ StructOK(r) /\ CallsNumbered(r) /\ ~r.playing /\ (r.n = 0 /\ ~sl => r.cur = 0)
      /\ \A i \in 1..Len(r.out) : r.out[i].name = "publish" => r.out[i].sid \in ghost.granted
  BY <1>1 DEF SessionInv, Settled
<1>3. SocketTypeOK /\ (r.open => ~Crashes(r)) /\ sl \in BOOLEAN /\ inbox \in Seq(Packets)
      /\ IsFiniteSet(ghost.granted)
  BY DEF SessionInv, SocketsInv
<1>4. /\ StructOK(s) /\ CallsNumbered(s) /\ s.n = r.n + 1 /\ s.n >= 1 /\ s.cur = r.cur
      /\ s.open = r.open /\ s.playing = r.playing /\ s.out = r.out
      /\ Crashes(s) => Crashes(r)
  BY <1>1, <1>2, AddsStream
<1>5. r.n \in Nat /\ r.open \in BOOLEAN
  BY <1>2 DEF StructOK, Shape
<1>6. how # "unresolved" =>
        /\ ghost'.granted = {} /\ ghost'.answered = {} /\ ghost'.slipped = sl
        /\ inbox' = <<>>
  BY <1>3 DEF try_connect, NewGhost, NewPeer, SocketTypeOK
<1>7. IF how = "connected" /\ Crashes(s) THEN pc' = "crashed" /\ r' = s
      ELSE IF how = "connected" THEN Loops(c) ELSE Ends(c, "CONNECT_FAILED")
  BY DEF try_connect
<1>8. how = "unresolved" => ghost' = ghost /\ inbox' = inbox
  BY DEF try_connect
<1> HIDE DEF s, sl
<1>9. s.n = 1 /\ ~sl => s.cur = 0
  BY <1>2, <1>4, <1>5
<1>10. EmptyOK(s) /\ (s.n = 0 /\ ~sl => s.cur = 0)
  BY <1>4, <1>5 DEF EmptyOK
<1>11. Over(s, sl)
  BY <1>2, <1>4, <1>9, <1>10 DEF Over
<1>12. /\ StructOK(c) /\ CallsNumbered(c) /\ ~c.playing /\ EmptyOK(c)
       /\ (c.n = s.n /\ c.cur = s.cur) \/ (c.n = 0 /\ c.cur = 0)
       /\ how = "connected" => Turn(c, <<>>, {}, {}, sl)
       /\ how = "unresolved" => c = s
       /\ how \notin {"connected", "unresolved"} => ~c.open
  BY <1>11, ConnectFresh
<1> HIDE DEF c
<1>13. c.n = 0 /\ ~sl => c.cur = 0
  BY <1>10, <1>12
<1>14. <<>> \in Seq(Packets) /\ IsFiniteSet({})
  BY FS_EmptySet
<1>15. CASE how = "connected" /\ Crashes(s)
  <2>1. s.out = <<>> /\ ~s.open
    BY <1>3, <1>4, <1>5, <1>15 DEF StructOK
  <2>2. Len(s.out) = 0
    BY <2>1
  <2>3. Settled(s, "crashed", <<>>, {}, {}, sl)
    BY <1>4, <1>10, <2>2 DEF Settled
  <2>4. r' = s /\ pc' = "crashed"
    BY <1>7, <1>15
  <2> QED BY <1>3, <1>6, <1>14, <1>15, <2>3, <2>4 DEF sl
<1>16. CASE how = "connected" /\ ~Crashes(s)
  <2>1. Loops(c) /\ Turn(c, <<>>, {}, {}, sl)
    BY <1>7, <1>12, <1>16
  <2>2. Settled(r', pc', <<>>, {}, {}, sl)
    BY <1>13, <2>1, LoopsSettled
  <2> QED BY <1>3, <1>6, <1>14, <1>16, <2>2 DEF sl
<1>17. CASE how \notin {"connected", "unresolved"}
  <2>1. Ends(c, "CONNECT_FAILED") /\ ~c.open
    BY <1>7, <1>12, <1>17
  <2>2. \A i \in 1..Len(c.out) : c.out[i].name = "publish" => c.out[i].sid \in {}
    BY <1>12, <2>1, ClosedQuiet
  <2>3. Settled(r', pc', <<>>, {}, {}, sl)
    BY <1>12, <1>13, <2>1, <2>2, EndsSettled
  <2> QED BY <1>3, <1>6, <1>14, <1>17, <2>3 DEF sl
<1>18. CASE how = "unresolved"
  <2>1. Ends(s, "CONNECT_FAILED")
    BY <1>7, <1>12, <1>18
  <2>2. \A i \in 1..Len(s.out) : s.out[i].name = "publish" => s.out[i].sid \in ghost.granted
    BY <1>2, <1>4
  <2>3. Settled(r', pc', inbox, ghost.granted, ghost.answered, sl)
    BY <1>2, <1>4, <1>10, <2>1, <2>2, EndsSettled
  <2> QED BY <1>3, <1>8, <1>18, <2>3 DEF sl
<1> QED BY <1>15, <1>16, <1>17, <1>18

(* A session of f that was closed and is connected again.                  *)
Reopened(s, f, sl, how) ==
  \E d : /\ s = RTMP_Connect(d, how) /\ Over(d, sl) /\ ~d.open
         /\ (d.n = f.n /\ d.cur = f.cur) \/ (d.n = 0 /\ d.cur = 0)

(* The client authenticates: what it closes is over, what it opens fresh.  *)
LEMMA AuthenticateConnects ==
  ASSUME NEW f, Fit(f), CallsNumbered(f), f.open, NEW m, AuthPacket(f, m), NEW sl,
         f.n = 1 /\ ~sl => f.cur = 0, NEW how \in Outcomes
  PROVE  Reopened(HandleError(f, m, how), f, sl, how)
<1> DEFINE I == Matching(f, m.txn)
           i == CHOOSE j \in I : TRUE
           e == AV_erase(f, i)
           a == PublisherAuth(e, m)
           c == RTMP_Close(a)
           d == [c EXCEPT !.clean = c.clean \/ c.clate]
<1>1. PICK k \in I : f.calls[k].name = "connect"
  BY DEF AuthPacket
<1>2. i \in I
  BY <1>1
<1>3. i \in 1..Len(f.calls) /\ f.calls[i].name = "connect" /\ I # {}
  BY <1>1, <1>2 DEF Matching, CallsNumbered
<1>4. DOMAIN f = Fields
  BY DEF Fit, StructOK, Shape
<1>5. Reconnects(e, m) /\ e.app = f.app
  BY <1>4 DEF AuthPacket, Reconnects, AV_erase, Fields
<1>6. HandleError(f, m, how) = RTMP_Connect(d, how)
  BY <1>3, <1>5 DEF HandleError
<1>7. Fit(e) /\ e.open = f.open /\ e.n = f.n /\ e.cur = f.cur
  BY <1>3, EraseFits
<1> HIDE DEF e, i, I
<1>8. /\ DOMAIN a = Fields /\ a.open = e.open /\ a.playing = e.playing /\ a.ids = e.ids
      /\ a.n = e.n /\ a.cur = e.cur /\ a.calls = e.calls /\ a.inv = e.inv /\ a.out = e.out
      /\ a.orphans = e.orphans
  <2>1. DOMAIN e = Fields
    BY <1>7 DEF Fit, StructOK, Shape
  <2>2. a = [e EXCEPT !.app = "named", !.tcUrl = "named", !.alloc = TRUE] \/ a = AuthAnswer(e)
    BY <1>5 DEF PublisherAuth, Reconnects, AuthName
  <2> HIDE DEF a
  <2>3. CASE a = [e EXCEPT !.app = "named", !.tcUrl = "named", !.alloc = TRUE]
    BY <2>1, <2>3 DEF Fields
  <2>4. CASE a = AuthAnswer(e)
    BY <2>1, <2>4 DEF AuthAnswer, Fields
  <2> QED BY <2>2, <2>3, <2>4
<1> HIDE DEF a
<1>9. Shape(a) /\ EmptyOK(a)
  BY <1>7, <1>8 DEF Fit, StructOK, Shape, EmptyOK
<1>10. Kept(a, c) /\ ~c.open
  BY <1>9, CloseFits
<1> HIDE DEF c
<1>11. Fit(c) /\ StructOK(c) /\ Shape(c) /\ EmptyOK(c) /\ DOMAIN c = Fields
  BY <1>10 DEF Kept, Fit, StructOK, Shape
<1>12. /\ DOMAIN d = Fields /\ d.open = c.open /\ d.playing = c.playing /\ d.ids = c.ids
       /\ d.n = c.n /\ d.cur = c.cur /\ d.calls = c.calls /\ d.inv = c.inv /\ d.out = c.out
       /\ d.orphans = c.orphans
  BY <1>11 DEF Fields
<1> HIDE DEF d
<1>13. Shape(d) /\ EmptyOK(d)
  BY <1>11, <1>12 DEF Shape, EmptyOK
<1>14. StructOK(d)
  BY <1>11, <1>12, <1>13 DEF StructOK
<1>15. CallsNumbered(d) /\ ~d.playing /\ ~d.open
  BY <1>10, <1>12, <1>14, ClosedQuiet
<1>16. (d.n = f.n /\ d.cur = f.cur) \/ (d.n = 0 /\ d.cur = 0)
  BY <1>7, <1>8, <1>10, <1>12 DEF Kept
<1>17. Over(d, sl)
  BY <1>13, <1>14, <1>15, <1>16 DEF Over
<1> QED BY <1>6, <1>15, <1>16, <1>17 DEF Reopened

LEMMA AuthenticateSettled ==
  ASSUME SessionInv, NEW how \in Outcomes, Authenticate(how)
  PROVE  /\ Settled(r', pc', inbox', ghost'.granted, ghost'.answered, ghost'.slipped)
         /\ inbox' \in Seq(Packets) /\ IsFiniteSet(ghost'.granted) /\ ghost'.slipped \in BOOLEAN
<1> DEFINE ib == inbox
           m == Head(ib)
           f == ReadN(r)
           s == HandleError(f, m, how)
           g == ghost.granted
           ans == ghost.answered
           sl == ghost.slipped
<1>1. pc = "reading" /\ ib # <<>> /\ AuthPacket(f, m) /\ inbox' = <<>>
  BY DEF Authenticate, NewPeer
<1>2. /\ Turn(r, ib, g, ans, sl) /\ r.open /\ ~r.playing /\ ib \in Seq(Packets)
      /\ (r.n = 0 /\ ~sl => r.cur = 0) /\ SocketTypeOK /\ IsFiniteSet(g) /\ sl \in BOOLEAN
  BY <1>1, SettledReading
<1>3. ghost'.granted = {} /\ ghost'.answered = {} /\ ghost'.slipped = sl
  BY <1>2 DEF Authenticate, SocketTypeOK
<1>4. \/ pc' = "crashed" /\ r' = f
      \/ pc' = "reading" /\ r' = s /\ s.open
      \/ Ends(s, "INVALID_STREAM") /\ ~s.open
  <2>1. \E f0 \in {ReadN(r)} : \E s0 \in {HandleError(f0, m, how)} :
          \/ pc' = "crashed" /\ r' = f0
          \/ pc' = "reading" /\ r' = s0 /\ s0.open
          \/ Ends(s0, "INVALID_STREAM") /\ ~s0.open
    BY DEF Authenticate
  <2> QED BY <2>1
<1> HIDE DEF ib, g, ans, sl
<1>5. Turn(f, ib, g, ans, sl) /\ Kept(r, f) /\ f.open /\ ~f.playing
  <2>1. f.open
    BY <1>1 DEF AuthPacket
  <2> QED BY <1>2, <2>1, TurnReads
<1> HIDE DEF f
<1>6. Fit(f) /\ Agrees(f, ib, g, ans, sl)
  BY <1>5 DEF Turn
<1>7. CallsNumbered(f) /\ ConnectFirst(f, ib) /\ (Live(f, ib, "connect") /\ f.n = 1 /\ ~sl => f.cur = 0)
  BY <1>5, <1>6 DEF Agrees
<1>8. Live(f, ib, "connect")
  <2>1. IsAnswer(m) /\ ib[1] = m /\ 1 \in 1..Len(ib)
    BY <1>1, <1>2 DEF AuthPacket, IsAnswer
  <2>2. PICK j \in Matching(f, m.txn) : f.calls[j].name = "connect"
    BY <1>1 DEF AuthPacket
  <2>3. j \in 1..Len(f.calls) /\ f.calls[j].txn = m.txn
    BY <2>2 DEF Matching
  <2> HIDE DEF m
  <2>4. Answers(f, ib[1], "connect")
    BY <2>1, <2>2, <2>3 DEF Answers
  <2> QED BY <2>1, <2>4 DEF Live, Answered
<1>9. ~InOut(f, "publish") /\ (f.n = 1 /\ ~sl => f.cur = 0)
  BY <1>7, <1>8 DEF ConnectFirst, Live
<1>10. f.n = 0 /\ ~sl => f.cur = 0
  BY <1>2, <1>5 DEF Kept
<1> HIDE DEF m
<1>11. PICK d : /\ s = RTMP_Connect(d, how) /\ Over(d, sl) /\ ~d.open
                /\ (d.n = f.n /\ d.cur = f.cur) \/ (d.n = 0 /\ d.cur = 0)
  <2>1. AuthPacket(f, m) /\ f.open /\ Fit(f) /\ CallsNumbered(f) /\ (f.n = 1 /\ ~sl => f.cur = 0)
    BY <1>1, <1>5, <1>6, <1>7, <1>9
  <2>2. Reopened(s, f, sl, how)
    BY <2>1, AuthenticateConnects
  <2> HIDE DEF s
  <2> QED BY <2>2 DEF Reopened
<1> HIDE DEF s
<1>12. /\ StructOK(s) /\ CallsNumbered(s) /\ ~s.playing /\ EmptyOK(s)
       /\ (s.n = d.n /\ s.cur = d.cur) \/ (s.n = 0 /\ s.cur = 0)
       /\ how = "connected" => Turn(s, <<>>, {}, {}, sl)
       /\ how = "unresolved" => s = d
       /\ how \notin {"connected", "unresolved"} => ~s.open
  BY <1>11, ConnectFresh
<1>13. s.n = 0 /\ ~sl => s.cur = 0
  BY <1>10, <1>11, <1>12
<1>14. <<>> \in Seq(Packets) /\ IsFiniteSet({})
  BY FS_EmptySet
<1>15. Settled(r', pc', <<>>, {}, {}, sl)
  <2>1. CASE pc' = "crashed" /\ r' = f
    <3>1. \A i \in 1..Len(f.out) : f.out[i].name = "publish" => f.out[i].sid \in {}
      BY <1>9 DEF InOut
    <3>2. Settled(f, "crashed", <<>>, {}, {}, sl)
      BY <1>6, <1>7, <1>10, <3>1 DEF Settled, Fit
    <3> QED BY <2>1, <3>2
  <2>2. CASE pc' = "reading" /\ r' = s /\ s.open
    <3>1. Turn(s, <<>>, {}, {}, sl)
      BY <1>11, <1>12, <2>2
    <3>2. Agrees(s, <<>>, {}, {}, sl) /\ Created(s, <<>>, {})
      BY <2>2, <3>1 DEF Turn, Agrees
    <3>3. \A i \in 1..Len(s.out) : s.out[i].name = "publish" => s.out[i].sid \in {}
      BY <3>2 DEF Created
    <3>4. Settled(s, "reading", <<>>, {}, {}, sl)
      BY <1>12, <1>13, <3>2, <3>3 DEF Settled
    <3> QED BY <2>2, <3>4
  <2>3. CASE Ends(s, "INVALID_STREAM") /\ ~s.open
    <3>1. \A i \in 1..Len(s.out) : s.out[i].name = "publish" => s.out[i].sid \in {}
      BY <1>12, <2>3, ClosedQuiet
    <3> QED BY <1>12, <1>13, <2>3, <3>1, EndsSettled
  <2> QED BY <1>4, <2>1, <2>2, <2>3
<1> QED BY <1>1, <1>2, <1>3, <1>14, <1>15 DEF sl

(* A session is closed from outside.                                       *)
LEMMA ClosedSettled ==
  ASSUME SessionInv, pc \in {"reading", "sending"},
         \/ \E code : Ends(RTMP_Close(r), code)
         \/ r' = Dropped(RTMP_Close(r)) /\ pc' = "idle",
         NEW ib, NEW g, NEW ans
  PROVE  Settled(r', pc', ib, g, ans, ghost.slipped)
<1> DEFINE c == RTMP_Close(r)
           d == Dropped(c)
           sl == ghost.slipped
<1>1. Shape(r) /\ EmptyOK(r) /\ (r.n = 0 /\ ~sl => r.cur = 0)
  BY DEF SessionInv, Settled, StructOK
<1>2. Kept(r, c) /\ ~c.open
  BY <1>1, CloseFits
<1>3. (\E code : Ends(c, code)) \/ (r' = d /\ pc' = "idle")
  OBVIOUS
<1> HIDE DEF c
<1>4. StructOK(c) /\ (c.n = 0 /\ ~sl => c.cur = 0)
  BY <1>1, <1>2 DEF Kept, Fit
<1>5. CallsNumbered(c) /\ ~c.playing
      /\ \A i \in 1..Len(c.out) : c.out[i].name = "publish" => c.out[i].sid \in g
  BY <1>2, <1>4, ClosedQuiet
<1>6. CASE \E code : Ends(c, code)
  BY <1>4, <1>5, <1>6, EndsSettled
<1>7. CASE r' = d /\ pc' = "idle"
  <2>1. /\ StructOK(d) /\ d.n = 0 /\ d.cur = 0 /\ d.open = c.open /\ d.out = c.out
        /\ d.calls = c.calls /\ d.inv = c.inv /\ d.playing = c.playing
    BY <1>4, DropFits
  <2> HIDE DEF d
  <2>2. CallsNumbered(d)
    BY <1>5, <2>1 DEF CallsNumbered
  <2>3. Settled(d, "idle", ib, g, ans, sl)
    BY <1>5, <2>1, <2>2 DEF Settled
  <2> QED BY <1>7, <2>3
<1> QED BY <1>3, <1>6, <1>7

LEMMA TimeoutSettled ==
  ASSUME SessionInv, ReadTimeout
  PROVE  Settled(r', pc', inbox, ghost.granted, ghost.answered, ghost.slipped)
<1>1. pc = "reading"
  BY DEF ReadTimeout
<1>2. Settled(r, pc, inbox, ghost.granted, ghost.answered, ghost.slipped)
  BY DEF SessionInv
<1>3. CASE depth > 0
  BY <1>2, <1>3 DEF ReadTimeout
<1>4. CASE ~(depth > 0)
  <2>1. Ends(r, "INVALID_STREAM")
    BY <1>4 DEF ReadTimeout
  <2>2. /\ StructOK(r) /\ CallsNumbered(r) /\ ~r.playing
        /\ \A i \in 1..Len(r.out) : r.out[i].name = "publish" => r.out[i].sid \in ghost.granted
        /\ r.n = 0 /\ ~ghost.slipped => r.cur = 0
    BY <1>1, <1>2 DEF Settled
  <2> QED BY <2>1, <2>2, EndsSettled
<1> QED BY <1>3, <1>4

(* A frame is taken, or the session is over.                               *)
LEMMA WriteSettled ==
  ASSUME SessionInv, RTMP_Write, NEW ib, NEW ans
  PROVE  Settled(r', pc', ib, ghost.granted, ans, ghost.slipped)
<1> DEFINE msgs == <<Msg("media", 0, r.ids[0])>>
           w == WriteN(r, msgs)
           t == [w EXCEPT !.out = <<>>]
           g == ghost.granted
           sl == ghost.slipped
<1>1. pc = "sending" /\ ((w.open /\ r' = t /\ pc' = pc) \/ (~w.open /\ Ends(w, "DISCONNECTED")))
  BY DEF RTMP_Write
<1>2. /\ StructOK(r) /\ CallsNumbered(r) /\ EmptyOK(r) /\ (r.n = 0 /\ ~sl => r.cur = 0)
      /\ r.playing /\ r.cur >= 1 /\ Placed(r, g, sl)
  BY <1>1 DEF SessionInv, Settled
<1>3. Fit(r) /\ Shape(r)
  BY <1>2 DEF Fit, StructOK
<1>4. msgs \in Seq(Messages)
  <2>1. r.ids[0] \in Int
    BY <1>3 DEF Shape, MaxIdx
  <2>2. Msg("media", 0, r.ids[0]) \in Messages
    BY <2>1, SomeWords DEF Msg, Messages
  <2> QED BY <2>2
<1> HIDE DEF msgs
<1>5. Kept(r, w)
  BY <1>3, <1>4, StructWritten
<1>6. w.open => DOMAIN w = Fields /\ w.open = TRUE /\ Rest(r, w) /\ w.calls = r.calls /\ w.inv = r.inv
  BY <1>2, <1>3, WriteNFits
<1> HIDE DEF w, g, sl
<1>7. CASE w.open /\ r' = t /\ pc' = pc
  <2>1. /\ DOMAIN t = Fields /\ t.open = w.open /\ t.playing = w.playing /\ t.ids = w.ids
        /\ t.n = w.n /\ t.cur = w.cur /\ t.calls = w.calls /\ t.inv = w.inv /\ t.out = <<>>
        /\ t.orphans = w.orphans
    BY <1>6, <1>7 DEF Fields
  <2> HIDE DEF t
  <2>2. w.n = r.n /\ w.cur = r.cur /\ w.ids = r.ids /\ w.playing = r.playing
    BY <1>6, <1>7 DEF Rest
  <2>3. StructOK(w) /\ EmptyOK(w)
    BY <1>5 DEF Kept, Fit
  <2>4. Shape(t) /\ EmptyOK(t)
    BY <2>1, <2>3 DEF StructOK, Shape, EmptyOK
  <2>5. StructOK(t)
    BY <1>7, <2>1, <2>3, <2>4 DEF StructOK
  <2>6. CallsNumbered(t) /\ Placed(t, g, sl)
    BY <1>2, <1>6, <1>7, <2>1, <2>2 DEF CallsNumbered, Placed
  <2>7. t.cur >= 1 /\ t.playing /\ Len(t.out) = 0 /\ (t.n = 0 /\ ~sl => t.cur = 0)
    BY <1>2, <2>1, <2>2
  <2>8. Settled(t, "sending", ib, g, ans, sl)
    BY <2>1, <2>4, <2>5, <2>6, <2>7 DEF Settled
  <2> QED BY <1>1, <1>7, <2>8 DEF g, sl
<1>8. CASE ~w.open /\ Ends(w, "DISCONNECTED")
  <2>1. StructOK(w) /\ (w.n = 0 /\ ~sl => w.cur = 0)
    BY <1>2, <1>5 DEF Kept, Fit
  <2>2. CallsNumbered(w) /\ ~w.playing
        /\ \A i \in 1..Len(w.out) : w.out[i].name = "publish" => w.out[i].sid \in g
    BY <1>8, <2>1, ClosedQuiet
  <2>3. Settled(r', pc', ib, g, ans, sl)
    BY <1>8, <2>1, <2>2, EndsSettled
  <2> QED BY <2>3 DEF g, sl
<1> QED BY <1>1, <1>7, <1>8
-----------------------------------------------------------------------------
(* What the peer does.                                                     *)

(* a is a way to answer q, if a stream it creates is given the number id.  *)
Fits(q, x, id) ==
  /\ x \in Packets
  /\ IsAnswer(x) => /\ q.name \in Requests /\ x.txn = q.txn
                    /\ q.name = "createStream" /\ x.name = "_result" => x.id = id
  /\ IsStart(x) => q.name = "publish"

FitsAll(q, a, id) ==
  /\ a \in Seq(Packets)
  /\ \A k \in 1..Len(a) : Fits(q, a[k], id)
  /\ \A k, l \in 1..Len(a) : IsAnswer(a[k]) /\ IsAnswer(a[l]) => k = l

Said(x, name, txn) == x \in Packets /\ x.name = name /\ x.txn = txn

LEMMA ReplyTyped ==
  ASSUME NEW name \in Words, NEW txn \in Nat
  PROVE  /\ Said(Reply(name, txn), name, txn)
         /\ \A d \in Words : /\ Said([Reply(name, txn) EXCEPT !.desc = d], name, txn)
                             /\ Said([Reply(name, txn) EXCEPT !.code = d], name, txn)
         /\ \A k \in Nat : /\ Said([Reply(name, txn) EXCEPT !.id = k], name, txn)
                           /\ [Reply(name, txn) EXCEPT !.id = k].id = k
<1> DEFINE x == Reply(name, txn)
<1>1. "" \in Words /\ 0 \in Nat
  BY DEF Words
<1>2. x = [type |-> "invoke", name |-> name, txn |-> txn, id |-> 0, code |-> "", desc |-> ""]
  BY DEF Reply
<1> HIDE DEF x
<1>3. x \in [type : {"invoke"}, name : Words, txn : Nat, id : Nat, code : Words, desc : Words]
  BY <1>1, <1>2
<1>4. x.name = name /\ x.txn = txn
  BY <1>2
<1>5. \A d \in Words : Said([x EXCEPT !.desc = d], name, txn)
  BY <1>3, <1>4 DEF Packets, Said
<1>6. \A d \in Words : Said([x EXCEPT !.code = d], name, txn)
  BY <1>3, <1>4 DEF Packets, Said
<1>7. \A k \in Nat : Said([x EXCEPT !.id = k], name, txn) /\ [x EXCEPT !.id = k].id = k
  BY <1>3, <1>4 DEF Packets, Said
<1>8. Said(x, name, txn)
  BY <1>3, <1>4 DEF Packets, Said
<1> QED BY <1>5, <1>6, <1>7, <1>8 DEF x

LEMMA FitsOne ==
  ASSUME NEW q, NEW id, NEW x, Fits(q, x, id)
  PROVE  FitsAll(q, <<x>>, id)
<1>1. <<x>> \in Seq(Packets) /\ Len(<<x>>) = 1 /\ <<x>>[1] = x
  BY DEF Fits
<1> QED BY <1>1 DEF FitsAll

LEMMA FitsTwo ==
  ASSUME NEW q, NEW id, NEW x, NEW y, Fits(q, x, id), Fits(q, y, id), ~IsAnswer(x) \/ ~IsAnswer(y)
  PROVE  FitsAll(q, <<x, y>>, id)
<1>1. /\ <<x, y>> \in Seq(Packets) /\ Len(<<x, y>>) = 2 /\ <<x, y>>[1] = x /\ <<x, y>>[2] = y
      /\ 1..2 = {1, 2}
  BY DEF Fits
<1> DEFINE a == <<x, y>>
<1> HIDE DEF a
<1>2. a \in Seq(Packets) /\ \A k \in 1..Len(a) : (k = 1 /\ a[k] = x) \/ (k = 2 /\ a[k] = y)
  BY <1>1 DEF a
<1>3. FitsAll(q, a, id)
  BY <1>2 DEF FitsAll
<1> QED BY <1>3 DEF a

LEMMA RepliesFit ==
  ASSUME NEW q \in Messages, NEW a \in Replies(q), IsFiniteSet(ghost.granted)
  PROVE  FitsAll(q, a, Cardinality(ghost.granted) + 1)
<1> DEFINE id == Cardinality(ghost.granted) + 1
<1>1. q.txn \in Nat /\ id \in Nat
  BY FS_CardinalityType DEF Messages
<1>2. {"_result", "_error", "onBWDone", "onStatus", "_onbwcheck", "_onbwdone", "need auth", "needauth",
       "failed", "Publish.Start", "Failed"} \subseteq Words /\ 0 \in Nat /\ 1 \in Nat
  BY DEF Words
<1> HIDE DEF id
<1>3. /\ Said(Reply("_result", q.txn), "_result", q.txn)
      /\ Said([Reply("_result", q.txn) EXCEPT !.id = id], "_result", q.txn)
      /\ [Reply("_result", q.txn) EXCEPT !.id = id].id = id
  <2>1. "_result" \in Words
    BY <1>2
  <2>2. /\ Said(Reply("_result", q.txn), "_result", q.txn)
        /\ \A k \in Nat : /\ Said([Reply("_result", q.txn) EXCEPT !.id = k], "_result", q.txn)
                          /\ [Reply("_result", q.txn) EXCEPT !.id = k].id = k
    BY <1>1, <2>1, ReplyTyped
  <2> QED BY <1>1, <2>2
<1>4. /\ Said(Reply("_error", q.txn), "_error", q.txn)
      /\ \A d \in Words : Said([Reply("_error", q.txn) EXCEPT !.desc = d], "_error", q.txn)
  BY <1>1, <1>2, ReplyTyped
<1>5. /\ Said(Reply("onBWDone", 0), "onBWDone", 0)
      /\ Said(Reply("_onbwcheck", 1), "_onbwcheck", 1)
      /\ Said(Reply("_onbwdone", 0), "_onbwdone", 0)
  BY <1>2, ReplyTyped
<1>6. \A c \in Words : Said([Reply("onStatus", 0) EXCEPT !.code = c], "onStatus", 0)
  BY <1>2, ReplyTyped
<1>7. q.name \in Requests /\ q.name # "createStream" => Fits(q, Reply("_result", q.txn), id)
  BY <1>3 DEF Said, Fits, IsStart
<1>8. q.name \in Requests => Fits(q, Reply("_error", q.txn), id)
  BY <1>4 DEF Said, Fits, IsStart
<1>9. ASSUME q.name = "connect" PROVE FitsAll(q, a, id)
  <2>1. \/ a = <<Reply("_result", q.txn)>>
        \/ a = <<Reply("onBWDone", 0), Reply("_result", q.txn)>>
        \/ \E d \in {"need auth", "needauth", "failed"} :
              a = <<[Reply("_error", q.txn) EXCEPT !.desc = d]>>
    BY <1>9 DEF Replies
  <2>2. Fits(q, Reply("_result", q.txn), id)
    BY <1>7, <1>9 DEF Requests
  <2>3. Fits(q, Reply("onBWDone", 0), id) /\ ~IsAnswer(Reply("onBWDone", 0))
    BY <1>5 DEF Said, Fits, IsStart, IsAnswer
  <2>4. ASSUME NEW d \in {"need auth", "needauth", "failed"}
        PROVE  Fits(q, [Reply("_error", q.txn) EXCEPT !.desc = d], id)
    BY <1>2, <1>4, <1>9 DEF Said, Fits, IsStart, Requests
  <2> QED BY <2>1, <2>2, <2>3, <2>4, FitsOne, FitsTwo
<1>10. ASSUME q.name = "createStream" PROVE FitsAll(q, a, id)
  <2>1. \/ a = <<[Reply("_result", q.txn) EXCEPT !.id = id]>>
        \/ a = <<Reply("_error", q.txn)>>
    BY <1>10 DEF Replies, id
  <2>2. Fits(q, [Reply("_result", q.txn) EXCEPT !.id = id], id)
    BY <1>3, <1>10 DEF Said, Fits, IsStart, Requests
  <2>3. Fits(q, Reply("_error", q.txn), id)
    BY <1>8, <1>10 DEF Requests
  <2> QED BY <2>1, <2>2, <2>3, FitsOne
<1>11. ASSUME q.name = "publish" PROVE FitsAll(q, a, id)
  <2>1. \/ \E c \in {"Publish.Start", "Failed"} : a = <<[Reply("onStatus", 0) EXCEPT !.code = c]>>
        \/ a = <<Reply("_result", q.txn)>>
    BY <1>11 DEF Replies
  <2>2. ASSUME NEW c \in {"Publish.Start", "Failed"}
        PROVE  Fits(q, [Reply("onStatus", 0) EXCEPT !.code = c], id)
    BY <1>2, <1>6, <1>11 DEF Said, Fits, IsAnswer
  <2>3. Fits(q, Reply("_result", q.txn), id)
    BY <1>7, <1>11 DEF Requests
  <2> QED BY <2>1, <2>2, <2>3, FitsOne
<1>12. ASSUME q.name = "releaseStream" PROVE FitsAll(q, a, id)
  <2>1. a = <<Reply("_result", q.txn)>>
    BY <1>12 DEF Replies
  <2>2. Fits(q, Reply("_result", q.txn), id)
    BY <1>7, <1>12 DEF Requests
  <2> QED BY <2>1, <2>2, FitsOne
<1>13. ASSUME q.name = "_checkbw" PROVE FitsAll(q, a, id)
  <2>1. a = <<Reply("_onbwcheck", 1), Reply("_onbwdone", 0)>>
    BY <1>13 DEF Replies
  <2>2. /\ Fits(q, Reply("_onbwcheck", 1), id) /\ Fits(q, Reply("_onbwdone", 0), id)
        /\ ~IsAnswer(Reply("_onbwcheck", 1))
    BY <1>5 DEF Said, Fits, IsStart, IsAnswer
  <2> QED BY <2>1, <2>2, FitsTwo
<1>14. ASSUME q.name \notin {"connect", "createStream", "publish", "releaseStream", "_checkbw"}
       PROVE  FitsAll(q, a, id)
  <2>1. a = <<>>
    BY <1>14 DEF Replies
  <2>2. a \in Seq(Packets) /\ Len(a) = 0
    BY <2>1
  <2> QED BY <2>2 DEF FitsAll
<1> QED BY <1>9, <1>10, <1>11, <1>12, <1>13, <1>14 DEF id

(* The peer has read what came first and answered it.                      *)
LEMMA AgreesHears ==
  ASSUME NEW s, NEW g, NEW ans, NEW sl, Agrees(s, <<>>, g, ans, sl), Fit(s), s.open, s.out # <<>>,
         NEW t, t.n = s.n, t.cur = s.cur, t.ids = s.ids, t.calls = s.calls, t.inv = s.inv,
         t.out = Tail(s.out), NEW a, NEW id, FitsAll(Head(s.out), a, id), NEW more, g \subseteq more,
         \A k \in 1..Len(a) : IsAnswer(a[k]) /\ a[k].name = "_result" /\ Head(s.out).name = "createStream"
                                 => id \in more
  PROVE  Agrees(t, a, more, ans, sl)
<1> DEFINE q == Head(s.out)
<1>1. /\ CallsNumbered(s) /\ Numbered(s, <<>>, ans) /\ Named(s) /\ ConnectFirst(s, <<>>)
      /\ Created(s, <<>>, g) /\ Placed(s, g, sl)
      /\ Live(s, <<>>, "connect") /\ s.n = 1 /\ ~sl => s.cur = 0
  BY DEF Agrees
<1>2. s.out \in Seq(Messages) /\ s.inv \in Nat /\ s.calls \in Seq(Calls)
  BY DEF Fit, StructOK
<1>3. /\ Len(s.out) \in Nat \ {0} /\ 1 \in 1..Len(s.out) /\ q = s.out[1] /\ q \in Messages
      /\ Len(t.out) = Len(s.out) - 1
      /\ \A i \in 1..Len(t.out) : i + 1 \in 1..Len(s.out) /\ t.out[i] = s.out[i + 1]
  BY <1>2
<1>4. q.txn \in Nat
  BY <1>3 DEF Messages
<1>5. /\ a \in Seq(Packets) /\ \A k \in 1..Len(a) : Fits(q, a[k], id)
      /\ \A k, l \in 1..Len(a) : IsAnswer(a[k]) /\ IsAnswer(a[l]) => k = l
  BY DEF FitsAll
<1> HIDE DEF q
<1>6. \A name : InOut(t, name) => InOut(s, name)
  BY <1>3 DEF InOut
<1>7. ASSUME NEW name, NEW k \in 1..Len(a), Answers(t, a[k], name)
      PROVE  IsAnswer(a[k]) /\ q.name = name
  <2>1. PICK j \in 1..Len(s.calls) : s.calls[j].txn = a[k].txn /\ s.calls[j].name = name
    BY <1>7 DEF Answers
  <2>2. IsAnswer(a[k]) /\ q.name \in Requests /\ a[k].txn = q.txn
    BY <1>5, <1>7 DEF Answers, Fits
  <2> QED BY <1>1, <1>3, <2>1, <2>2 DEF Named
<1>8. ASSUME NEW name, Answered(t, a, name) PROVE q.name = name /\ InOut(s, name)
  <2>1. q.name = name
    BY <1>7, <1>8 DEF Answered
  <2> QED BY <1>3, <2>1 DEF InOut
<1>9. \A name : Live(t, a, name) => Live(s, <<>>, name)
  BY <1>6, <1>8 DEF Live
<1>10. Starts(a) => q.name = "publish" /\ Live(s, <<>>, "publish")
  BY <1>3, <1>5 DEF Starts, Live, InOut, Fits
<1>11. CallsNumbered(t)
  BY <1>1 DEF CallsNumbered
<1>12. Numbered(t, a, ans)
  <2>1. \A i \in 1..Len(t.out) : t.out[i].name \in Requests => t.out[i].txn <= t.inv
    BY <1>1, <1>3 DEF Numbered
  <2>2. \A k \in 1..Len(a) : IsAnswer(a[k]) => a[k].txn \in Nat /\ a[k].txn <= t.inv
    BY <1>1, <1>3, <1>4, <1>5 DEF Numbered, Fits
  <2>3. /\ \A n \in ans : n \in Nat /\ n <= t.inv
        /\ \A i \in 1..Len(t.calls) : t.calls[i].txn \notin ans
    BY <1>1 DEF Numbered
  <2> QED BY <1>5, <2>1, <2>2, <2>3 DEF Numbered
<1>13. Named(t)
  BY <1>1, <1>3 DEF Named
<1>14. ConnectFirst(t, a)
  <2>1. \A i, j \in 1..Len(t.out) : t.out[i].name = "connect" /\ t.out[j].name = "connect" => i = j
    <3> SUFFICES ASSUME NEW i \in 1..Len(t.out), NEW j \in 1..Len(t.out),
                        t.out[i].name = "connect", t.out[j].name = "connect"
                 PROVE  i = j
      OBVIOUS
    <3>1. i + 1 = j + 1
      BY <1>1, <1>3 DEF ConnectFirst
    <3> QED BY <3>1
  <2>2. InOut(t, "connect") => ~Answered(t, a, "connect")
    <3> SUFFICES ASSUME InOut(t, "connect"), Answered(t, a, "connect") PROVE FALSE
      OBVIOUS
    <3>1. PICK i \in 1..Len(t.out) : t.out[i].name = "connect"
      BY DEF InOut
    <3>2. s.out[1].name = "connect"
      BY <1>3, <1>8
    <3>3. i + 1 = 1
      BY <1>1, <1>3, <3>1, <3>2 DEF ConnectFirst
    <3> QED BY <3>3
  <2>3. Live(t, a, "connect") =>
          ~Live(t, a, "createStream") /\ ~Live(t, a, "publish") /\ ~Starts(a)
    BY <1>1, <1>9, <1>10 DEF ConnectFirst
  <2> QED BY <2>1, <2>2, <2>3 DEF ConnectFirst
<1>15. Created(t, a, more)
  <2>1. Live(t, a, "createStream") => t.n >= 1
    BY <1>1, <1>9 DEF Created
  <2>2. Live(t, a, "publish") \/ Starts(a) => t.cur >= 1
    BY <1>1, <1>9, <1>10 DEF Created
  <2>3. \A k \in 1..Len(a) :
          Answers(t, a[k], "createStream") /\ a[k].name = "_result" => a[k].id \in more
    <3> SUFFICES ASSUME NEW k \in 1..Len(a), Answers(t, a[k], "createStream"), a[k].name = "_result"
                 PROVE  a[k].id \in more
      OBVIOUS
    <3>1. IsAnswer(a[k]) /\ q.name = "createStream"
      BY <1>7
    <3>2. a[k].id = id
      BY <1>5, <3>1 DEF Fits
    <3> QED BY <3>1, <3>2 DEF q
  <2>4. \A i \in 1..Len(t.out) : t.out[i].name = "publish" => t.out[i].sid \in more
    BY <1>1, <1>3 DEF Created
  <2> QED BY <2>1, <2>2, <2>3, <2>4 DEF Created
<1>16. Placed(t, more, sl)
  BY <1>1 DEF Placed
<1>17. Live(t, a, "connect") /\ t.n = 1 /\ ~sl => t.cur = 0
  BY <1>1, <1>9
<1> QED BY <1>11, <1>12, <1>13, <1>14, <1>15, <1>16, <1>17 DEF Agrees

(* Nothing is awaited of what is not an answer.                            *)
LEMMA AgreesUnasked ==
  ASSUME NEW s, NEW g, NEW ans, NEW sl, Agrees(s, <<>>, g, ans, sl), s.open,
         NEW t, t.n = s.n, t.cur = s.cur, t.ids = s.ids, t.calls = s.calls, t.inv = s.inv,
         t.out = s.out \/ t.out = <<>>,
         NEW ib, \A k \in 1..Len(ib) : ~IsAnswer(ib[k]) /\ ~IsStart(ib[k])
  PROVE  Agrees(t, ib, g, ans, sl)
<1>1. /\ CallsNumbered(s) /\ Numbered(s, <<>>, ans) /\ Named(s) /\ ConnectFirst(s, <<>>)
      /\ Created(s, <<>>, g) /\ Placed(s, g, sl)
      /\ Live(s, <<>>, "connect") /\ s.n = 1 /\ ~sl => s.cur = 0
  BY DEF Agrees
<1>2. \A i \in 1..Len(t.out) : i \in 1..Len(s.out) /\ t.out[i] = s.out[i]
  OBVIOUS
<1>3. (\A name : ~Answered(t, ib, name)) /\ ~Starts(ib)
  BY DEF Answered, Answers, Starts
<1>4. \A name : InOut(t, name) => InOut(s, name)
  BY <1>2 DEF InOut
<1>5. \A name : Live(t, ib, name) => Live(s, <<>>, name)
  BY <1>3, <1>4 DEF Live
<1>6. CallsNumbered(t) /\ Placed(t, g, sl) /\ (Live(t, ib, "connect") /\ t.n = 1 /\ ~sl => t.cur = 0)
  BY <1>1, <1>5 DEF CallsNumbered, Placed
<1>7. Numbered(t, ib, ans)
  BY <1>1, <1>2 DEF Numbered
<1>8. Named(t)
  BY <1>1, <1>2 DEF Named
<1>9. ConnectFirst(t, ib)
  BY <1>1, <1>2, <1>3, <1>5 DEF ConnectFirst
<1>10. Created(t, ib, g)
  BY <1>1, <1>2, <1>3, <1>5 DEF Created, Answered
<1> QED BY <1>6, <1>7, <1>8, <1>9, <1>10 DEF Agrees

(* What was sent is read, and less of it is on its way.                    *)
LEMMA ReadSettled ==
  ASSUME NEW s, StructOK(s), CallsNumbered(s), NEW out \in Seq(Messages), NEW g, NEW more, g \subseteq more,
         \A i \in 1..Len(s.out) : s.out[i].name = "publish" => s.out[i].sid \in g,
         \A i \in 1..Len(out) : \E j \in 1..Len(s.out) : out[i] = s.out[j],
         NEW room, ~s.open => out = <<>>
  PROVE  LET t == [s EXCEPT !.out = out, !.room = room]
             u == [s EXCEPT !.out = out]
         IN  \A v \in {t, u} :
               /\ StructOK(v) /\ CallsNumbered(v) /\ v.n = s.n /\ v.cur = s.cur /\ v.ids = s.ids
               /\ v.calls = s.calls /\ v.inv = s.inv /\ v.out = out /\ v.playing = s.playing
               /\ v.open = s.open
               /\ \A i \in 1..Len(v.out) : v.out[i].name = "publish" => v.out[i].sid \in more
<1> DEFINE t == [s EXCEPT !.out = out, !.room = room]
           u == [s EXCEPT !.out = out]
<1>1. DOMAIN s = Fields /\ Shape(s)
  BY DEF StructOK, Shape
<1>2. /\ DOMAIN t = Fields /\ t.open = s.open /\ t.playing = s.playing /\ t.ids = s.ids
      /\ t.n = s.n /\ t.cur = s.cur /\ t.calls = s.calls /\ t.inv = s.inv /\ t.out = out
      /\ t.orphans = s.orphans
  BY <1>1 DEF Fields
<1>3. /\ DOMAIN u = Fields /\ u.open = s.open /\ u.playing = s.playing /\ u.ids = s.ids
      /\ u.n = s.n /\ u.cur = s.cur /\ u.calls = s.calls /\ u.inv = s.inv /\ u.out = out
      /\ u.orphans = s.orphans
  BY <1>1 DEF Fields
<1> HIDE DEF t, u
<1> SUFFICES ASSUME NEW v \in {t, u}
             PROVE /\ StructOK(v) /\ CallsNumbered(v) /\ v.n = s.n /\ v.cur = s.cur /\ v.ids = s.ids
                   /\ v.calls = s.calls /\ v.inv = s.inv /\ v.out = out /\ v.playing = s.playing
                   /\ v.open = s.open
                   /\ \A i \in 1..Len(v.out) : v.out[i].name = "publish" => v.out[i].sid \in more
  BY DEF t, u
<1>4. /\ DOMAIN v = Fields /\ v.open = s.open /\ v.playing = s.playing /\ v.ids = s.ids
      /\ v.n = s.n /\ v.cur = s.cur /\ v.calls = s.calls /\ v.inv = s.inv /\ v.out = out
      /\ v.orphans = s.orphans
  BY <1>2, <1>3
<1>5. Shape(v)
  BY <1>1, <1>4 DEF Shape
<1>6. StructOK(v)
  BY <1>4, <1>5 DEF StructOK
<1>7. CallsNumbered(v)
  BY <1>4 DEF CallsNumbered
<1> QED BY <1>4, <1>6, <1>7

LEMMA PeerAnswersSettled ==
  ASSUME SessionInv, PeerAnswers
  PROVE  /\ Settled(r', pc', inbox', ghost'.granted, ghost'.answered, ghost'.slipped)
         /\ inbox' \in Seq(Packets) /\ IsFiniteSet(ghost'.granted) /\ ghost'.slipped \in BOOLEAN
<1> DEFINE q == Head(r.out)
           out == Tail(r.out)
           g == ghost.granted
           ans == ghost.answered
           sl == ghost.slipped
           id == Cardinality(g) + 1
           t == [r EXCEPT !.out = out]
<1>1. PICK a \in Replies(q) :
        /\ inbox' = inbox \o a
        /\ ghost' = IF \E i \in 1..Len(a) : a[i].id > 0
                    THEN [ghost EXCEPT !.granted = g \cup {id}] ELSE ghost
  BY DEF PeerAnswers
<1>2. r.open /\ r.out # <<>> /\ inbox = <<>> /\ pc' = pc /\ r' = t
  BY DEF PeerAnswers
<1>3. /\ SocketTypeOK /\ Settled(r, pc, inbox, g, ans, sl)
      /\ inbox \in Seq(Packets) /\ IsFiniteSet(g) /\ sl \in BOOLEAN
  BY DEF SessionInv, SocketsInv
<1>4. DOMAIN ghost = {"lost", "timeouts", "granted", "answered", "slipped"}
  BY <1>3 DEF SocketTypeOK
<1>5. StructOK(r) /\ r.out \in Seq(Messages)
  BY <1>3 DEF Settled, StructOK
<1>6. q \in Messages /\ out \in Seq(Messages)
      /\ \A i \in 1..Len(out) : i + 1 \in 1..Len(r.out) /\ out[i] = r.out[i + 1]
  BY <1>2, <1>5
<1>7. FitsAll(q, a, id) /\ id \in Nat /\ id > 0
  <2>1. Cardinality(g) \in Nat
    BY <1>3, FS_CardinalityType
  <2>2. FitsAll(q, a, Cardinality(ghost.granted) + 1)
    <3> HIDE DEF q
    <3> QED BY <1>3, <1>6, RepliesFit
  <2> QED BY <2>1, <2>2
<1>8. inbox' = a /\ a \in Seq(Packets)
  BY <1>1, <1>2, <1>7 DEF FitsAll
<1> HIDE DEF q, id
<1>9. /\ ghost'.answered = ans /\ ghost'.slipped = sl
      /\ \/ ghost'.granted = g \cup {id}
         \/ ghost'.granted = g /\ ~(\E i \in 1..Len(a) : a[i].id > 0)
  BY <1>1, <1>4
<1>10. g \subseteq ghost'.granted /\ IsFiniteSet(ghost'.granted)
  BY <1>3, <1>9, FS_AddElement
<1> DEFINE more == ghost'.granted
<1>11. \A k \in 1..Len(a) : IsAnswer(a[k]) /\ a[k].name = "_result" /\ q.name = "createStream"
         => id \in more
  <2> SUFFICES ASSUME NEW k \in 1..Len(a), IsAnswer(a[k]), a[k].name = "_result",
                      q.name = "createStream"
               PROVE  id \in more
    OBVIOUS
  <2>1. Fits(q, a[k], id)
    BY <1>7 DEF FitsAll
  <2>2. a[k].id = id
    BY <2>1 DEF Fits
  <2>3. a[k].id > 0
    BY <1>7, <2>2
  <2> QED BY <1>9, <2>3
<1> HIDE DEF more
<1>12. /\ StructOK(t) /\ CallsNumbered(t) /\ t.n = r.n /\ t.cur = r.cur /\ t.ids = r.ids
       /\ t.calls = r.calls /\ t.inv = r.inv /\ t.out = out /\ t.playing = r.playing
       /\ t.open = r.open
       /\ \A i \in 1..Len(t.out) : t.out[i].name = "publish" => t.out[i].sid \in more
  <2>1. CallsNumbered(r)
        /\ \A i \in 1..Len(r.out) : r.out[i].name = "publish" => r.out[i].sid \in g
    BY <1>3 DEF Settled
  <2>2. \A i \in 1..Len(out) : \E j \in 1..Len(r.out) : out[i] = r.out[j]
    BY <1>6
  <2>3. g \subseteq more /\ ~(~r.open)
    BY <1>2, <1>10 DEF more
  <2> HIDE DEF g, out
  <2> QED BY <1>5, <1>6, <2>1, <2>2, <2>3, ReadSettled DEF out
<1>13. pc # "sending" \/ r.out = <<>>
  BY <1>3 DEF Settled
<1> HIDE DEF t, g, ans, sl
<1>14. CASE pc = "reading"
  <2>1. Agrees(r, <<>>, g, ans, sl) /\ Fit(r) /\ EmptyOK(r)
    BY <1>2, <1>3, <1>14 DEF Settled, Fit
  <2>2. Agrees(t, a, more, ans, sl)
    BY <1>2, <1>7, <1>10, <1>11, <1>12, <2>1, AgreesHears DEF q, more
  <2>3. EmptyOK(t)
    BY <1>12, <2>1 DEF EmptyOK
  <2>4. Settled(t, pc, a, more, ans, sl)
    BY <1>3, <1>12, <1>14, <2>2, <2>3 DEF Settled
  <2> QED BY <1>2, <1>3, <1>8, <1>9, <1>10, <2>4 DEF more
<1>15. CASE pc # "reading"
  <2>1. Settled(t, pc, a, more, ans, sl)
    BY <1>2, <1>3, <1>12, <1>13, <1>15 DEF Settled
  <2> QED BY <1>2, <1>3, <1>8, <1>9, <1>10, <2>1 DEF more
<1> QED BY <1>14, <1>15

LEMMA PeerSendsSettled ==
  ASSUME SessionInv, PeerSends
  PROVE  Settled(r', pc', inbox', ghost.granted, ghost.answered, ghost.slipped)
         /\ inbox' \in Seq(Packets) /\ UNCHANGED ghost
<1>1. PICK m \in Unasked : inbox' = Append(inbox, m)
  BY DEF PeerSends
<1>2. r.open /\ pc = "reading" /\ inbox = <<>> /\ r' = r /\ pc' = pc /\ ghost' = ghost
  BY DEF PeerSends, client
<1>3. Settled(r, "reading", <<>>, ghost.granted, ghost.answered, ghost.slipped)
  BY <1>2 DEF SessionInv
<1>4. m \in Packets /\ ~IsAnswer(m) /\ ~IsStart(m)
  <2>1. {"ping", "close", "onStatus", "Play.Stop"} \subseteq Words /\ 0 \in Nat /\ 7 \in Nat
    BY DEF Words
  <2>2. /\ Said(Reply("ping", 7), "ping", 7) /\ Said(Reply("close", 0), "close", 0)
        /\ Said([Reply("onStatus", 0) EXCEPT !.code = "Play.Stop"], "onStatus", 0)
    BY <2>1, ReplyTyped
  <2>3. [Reply("onStatus", 0) EXCEPT !.code = "Play.Stop"].code = "Play.Stop"
    BY DEF Reply
  <2>4. CASE m = Reply("ping", 7) \/ m = Reply("close", 0)
    BY <2>2, <2>4 DEF Said, IsAnswer, IsStart
  <2>5. CASE m = [Reply("onStatus", 0) EXCEPT !.code = "Play.Stop"]
    BY <2>2, <2>3, <2>5 DEF Said, IsAnswer, IsStart
  <2>6. CASE m = [type |-> "control", code |-> "ping"]
    BY <2>1, <2>6 DEF Packets, IsAnswer, IsStart
  <2>7. CASE m = [type |-> "chunk"]
    BY <2>7 DEF Packets, IsAnswer, IsStart
  <2> QED BY <1>1, <2>4, <2>5, <2>6, <2>7 DEF Unasked
<1>5. inbox' \in Seq(Packets) /\ Len(inbox') = 1 /\ inbox'[1] = m
  BY <1>1, <1>2, <1>4
<1>6. \A k \in 1..Len(inbox') : ~IsAnswer(inbox'[k]) /\ ~IsStart(inbox'[k])
  BY <1>4, <1>5
<1>7. Agrees(r, <<>>, ghost.granted, ghost.answered, ghost.slipped)
  BY <1>3 DEF Settled
<1>8. Agrees(r, inbox', ghost.granted, ghost.answered, ghost.slipped)
  BY <1>2, <1>6, <1>7, AgreesUnasked
<1>9. Settled(r, "reading", inbox', ghost.granted, ghost.answered, ghost.slipped)
  BY <1>3, <1>8 DEF Settled
<1> QED BY <1>2, <1>5, <1>9

(* What was on its way is lost.                                            *)
LEMMA AgreesLost ==
  ASSUME NEW s, NEW ib, NEW g, NEW ans, NEW sl, Agrees(s, ib, g, ans, sl), s.open,
         NEW t, t.n = s.n, t.cur = s.cur, t.ids = s.ids, t.calls = s.calls, t.inv = s.inv,
         t.out = <<>>, NEW left, left = ib \/ left = <<>>
  PROVE  Agrees(t, left, g, ans, sl)
<1>1. /\ CallsNumbered(s) /\ Numbered(s, ib, ans) /\ Named(s) /\ ConnectFirst(s, ib)
      /\ Created(s, ib, g) /\ Placed(s, g, sl)
      /\ Live(s, ib, "connect") /\ s.n = 1 /\ ~sl => s.cur = 0
  BY DEF Agrees
<1>2. Len(t.out) = 0 /\ \A name : ~InOut(t, name)
  BY DEF InOut
<1>3. \A k \in 1..Len(left) : k \in 1..Len(ib) /\ left[k] = ib[k]
  OBVIOUS
<1>4. \A name : \A k \in 1..Len(left) : Answers(t, left[k], name) => Answers(s, ib[k], name)
  BY <1>3 DEF Answers
<1>5. (\A name : Answered(t, left, name) => Answered(s, ib, name)) /\ (Starts(left) => Starts(ib))
  BY <1>3, <1>4 DEF Answered, Starts
<1>6. \A name : Live(t, left, name) => Live(s, ib, name)
  BY <1>2, <1>5 DEF Live
<1>7. CallsNumbered(t) /\ Placed(t, g, sl) /\ (Live(t, left, "connect") /\ t.n = 1 /\ ~sl => t.cur = 0)
  BY <1>1, <1>6 DEF CallsNumbered, Placed
<1>8. Numbered(t, left, ans)
  <2>1. \A k \in 1..Len(left) : IsAnswer(left[k]) => left[k].txn \in Nat /\ left[k].txn <= t.inv
    BY <1>1, <1>3 DEF Numbered
  <2>2. \A k, l \in 1..Len(left) : IsAnswer(left[k]) /\ IsAnswer(left[l]) => k = l
    BY <1>1, <1>3 DEF Numbered
  <2> QED BY <1>1, <1>2, <2>1, <2>2 DEF Numbered
<1>9. Named(t)
  BY <1>2 DEF Named
<1>10. ConnectFirst(t, left)
  BY <1>1, <1>2, <1>5, <1>6 DEF ConnectFirst
<1>11. Created(t, left, g)
  <2>1. \A k \in 1..Len(left) :
          Answers(t, left[k], "createStream") /\ left[k].name = "_result" => left[k].id \in g
    <3> SUFFICES ASSUME NEW k \in 1..Len(left), Answers(t, left[k], "createStream"),
                        left[k].name = "_result"
                 PROVE  left[k].id \in g
      OBVIOUS
    <3>1. k \in 1..Len(ib) /\ left[k] = ib[k] /\ Answers(s, ib[k], "createStream")
      BY <1>3, <1>4
    <3> QED BY <1>1, <3>1 DEF Created
  <2> QED BY <1>1, <1>2, <1>5, <1>6, <2>1 DEF Created
<1> QED BY <1>7, <1>8, <1>9, <1>10, <1>11 DEF Agrees

LEMMA PeerLeavesSettled ==
  ASSUME SessionInv, PeerLeaves
  PROVE  Settled(r', pc', inbox', ghost.granted, ghost.answered, ghost.slipped)
         /\ inbox' \in Seq(Packets) /\ UNCHANGED ghost
<1> DEFINE g == ghost.granted
           ans == ghost.answered
           sl == ghost.slipped
<1>1. PICK k \in Rooms : r' = [r EXCEPT !.room = k, !.out = <<>>]
  BY DEF PeerLeaves
<1>2. r.open /\ pc' = pc /\ ghost' = ghost /\ (inbox' = inbox \/ inbox' = <<>>)
  BY DEF PeerLeaves
<1>3. Settled(r, pc, inbox, g, ans, sl) /\ inbox \in Seq(Packets)
  BY DEF SessionInv
<1>4. inbox' \in Seq(Packets)
  <2>1. <<>> \in Seq(Packets)
    OBVIOUS
  <2> QED BY <1>2, <1>3, <2>1
<1> DEFINE t == [r EXCEPT !.out = <<>>, !.room = k]
<1>5. r' = t
  BY <1>1, <1>3 DEF Settled, StructOK, Shape, Fields
<1>6. /\ StructOK(t) /\ CallsNumbered(t) /\ t.n = r.n /\ t.cur = r.cur /\ t.ids = r.ids
      /\ t.calls = r.calls /\ t.inv = r.inv /\ t.out = <<>> /\ t.playing = r.playing
      /\ t.open = r.open
      /\ \A i \in 1..Len(t.out) : t.out[i].name = "publish" => t.out[i].sid \in g
  <2>1. StructOK(r) /\ CallsNumbered(r) /\ <<>> \in Seq(Messages) /\ Len(<<>>) = 0
        /\ \A i \in 1..Len(r.out) : r.out[i].name = "publish" => r.out[i].sid \in g
    BY <1>3 DEF Settled
  <2>2. g \subseteq g /\ (\A i \in 1..Len(<<>>) : \E j \in 1..Len(r.out) : <<>>[i] = r.out[j])
    BY <2>1
  <2> HIDE DEF g
  <2> QED BY <2>1, <2>2, ReadSettled
<1> HIDE DEF t, g, ans, sl
<1>7. CASE pc = "reading"
  <2>1. Agrees(r, inbox, g, ans, sl) /\ EmptyOK(r)
    BY <1>3, <1>7 DEF Settled
  <2>2. Agrees(t, inbox', g, ans, sl)
    BY <1>2, <1>6, <2>1, AgreesLost
  <2>3. EmptyOK(t)
    BY <1>6, <2>1 DEF EmptyOK
  <2>4. Settled(t, pc, inbox', g, ans, sl)
    BY <1>3, <1>6, <1>7, <2>2, <2>3 DEF Settled
  <2> QED BY <1>2, <1>4, <1>5, <2>4 DEF g, ans, sl
<1>8. CASE pc # "reading"
  <2>1. pc = "sending" => Placed(t, g, sl) /\ EmptyOK(t)
    BY <1>3, <1>6, <1>8 DEF Settled, Placed, EmptyOK
  <2>2. Settled(t, pc, inbox', g, ans, sl)
    BY <1>3, <1>6, <1>8, <2>1 DEF Settled
  <2> QED BY <1>2, <1>4, <1>5, <2>2 DEF g, ans, sl
<1> QED BY <1>7, <1>8
-----------------------------------------------------------------------------
LEMMA SessionInit == Init => SessionInv
<1> SUFFICES ASSUME Init PROVE SessionInv
  OBVIOUS
<1>1. r = RTMP_Init /\ pc = "idle" /\ inbox = <<>> /\ ghost.granted = {} /\ ghost.slipped = FALSE
  BY DEF Init
<1>2. /\ DOMAIN r = Fields /\ r.open = FALSE /\ r.playing = FALSE /\ r.ids = NoStreams /\ r.n = 0
      /\ r.cur = 0 /\ r.calls = <<>> /\ r.inv = 0 /\ r.out = <<>> /\ r.orphans = {}
  BY <1>1 DEF RTMP_Init, Fields
<1>3. NoStreams \in [0..MaxIdx -> Int]
  BY DEF NoStreams
<1>4. Shape(r)
  <2>1. r.n \in 0 .. MaxIdx + 1 /\ r.cur \in Nat
    BY <1>2 DEF MaxIdx
  <2>3. r.open \in BOOLEAN
    BY <1>2
  <2>2. r.ids \in [0..MaxIdx -> Int] /\ r.orphans \subseteq 1..MaxIdx
    BY <1>2, <1>3
  <2> QED BY <1>2, <2>1, <2>2, <2>3 DEF Shape
<1>5. StructOK(r)
  <2>1. <<>> \in Seq(Calls) /\ <<>> \in Seq(Messages) /\ 0 \in Nat
    OBVIOUS
  <2>2. r.calls \in Seq(Calls) /\ r.out \in Seq(Messages) /\ r.inv \in Nat
    BY <1>2, <2>1
  <2>3. r.playing \in BOOLEAN /\ (~r.open => ~r.playing /\ r.out = <<>> /\ r.calls = <<>>)
    BY <1>2
  <2> QED BY <1>4, <2>2, <2>3 DEF StructOK
<1>6. CallsNumbered(r) /\ ~r.playing
      /\ \A i \in 1..Len(r.out) : r.out[i].name = "publish" => r.out[i].sid \in ghost.granted
  BY <1>2, <1>5, ClosedQuiet
<1>7. Settled(r, pc, inbox, ghost.granted, ghost.answered, ghost.slipped)
  BY <1>1, <1>2, <1>5, <1>6 DEF Settled
<1>8. inbox \in Seq(Packets)
  <2>1. <<>> \in Seq(Packets)
    OBVIOUS
  <2> QED BY <1>1, <2>1
<1>9. IsFiniteSet(ghost.granted) /\ ghost.slipped \in BOOLEAN
  BY <1>1, FS_EmptySet
<1> QED BY <1>7, <1>8, <1>9, SocketsInit DEF SessionInv

LEMMA SettledStep ==
  ASSUME SessionInv, r.cur <= MaxIdx, [Next]_vars
  PROVE  /\ Settled(r', pc', inbox', ghost'.granted, ghost'.answered, ghost'.slipped)
         /\ inbox' \in Seq(Packets) /\ IsFiniteSet(ghost'.granted) /\ ghost'.slipped \in BOOLEAN
<1> DEFINE Done == /\ Settled(r', pc', inbox', ghost'.granted, ghost'.answered, ghost'.slipped)
                   /\ inbox' \in Seq(Packets) /\ IsFiniteSet(ghost'.granted)
                   /\ ghost'.slipped \in BOOLEAN
<1>0. /\ Settled(r, pc, inbox, ghost.granted, ghost.answered, ghost.slipped)
      /\ inbox \in Seq(Packets) /\ IsFiniteSet(ghost.granted) /\ ghost.slipped \in BOOLEAN
      /\ DOMAIN ghost = {"lost", "timeouts", "granted", "answered", "slipped"}
      /\ <<>> \in Seq(Packets)
  BY DEF SessionInv, SocketsInv, SocketTypeOK
<1>1. ASSUME NEW how \in Outcomes, try_connect(how) PROVE Done
  BY <1>1, TrySettled
<1>2. CASE ConnectStream
  BY <1>0, <1>2, ConnectStreamSettled
<1>3. ASSUME NEW how \in Outcomes, Authenticate(how) PROVE Done
  BY <1>3, AuthenticateSettled
<1>4. CASE ReadTimeout
  <2>1. /\ Settled(r', pc', inbox, ghost.granted, ghost.answered, ghost.slipped)
        /\ inbox' = inbox
    BY <1>4, TimeoutSettled DEF ReadTimeout
  <2>2. /\ ghost'.granted = ghost.granted /\ ghost'.answered = ghost.answered
        /\ ghost'.slipped = ghost.slipped
    BY <1>0, <1>4 DEF ReadTimeout
  <2> QED BY <1>0, <2>1, <2>2
<1>5. CASE ReadEof
  <2>1. pc = "reading" /\ Ends(RTMP_Close(r), "INVALID_STREAM") /\ inbox' = inbox /\ ghost' = ghost
    BY <1>5 DEF ReadEof
  <2>2. Settled(r', pc', inbox, ghost.granted, ghost.answered, ghost.slipped)
    BY <2>1, ClosedSettled
  <2> QED BY <1>0, <2>1, <2>2
<1>6. CASE RTMP_Write
  <2>1. Settled(r', pc', <<>>, ghost.granted, ghost.answered, ghost.slipped)
    BY <1>6, WriteSettled
  <2>2. inbox' = <<>> /\ ghost' = ghost
    BY <1>6 DEF RTMP_Write
  <2> QED BY <1>0, <2>1, <2>2
<1>7. ASSUME NEW b \in BOOLEAN, SendThreadEnds(b) PROVE Done
  <2>1. pc = "sending" /\ inbox' = <<>> /\ ghost' = ghost
        /\ \/ \E code : Ends(RTMP_Close(r), code)
           \/ r' = Dropped(RTMP_Close(r)) /\ pc' = "idle"
    BY <1>7 DEF SendThreadEnds
  <2>2. Settled(r', pc', <<>>, ghost.granted, ghost.answered, ghost.slipped)
    BY <2>1, ClosedSettled
  <2> QED BY <1>0, <2>1, <2>2
<1>8. CASE PeerAnswers
  BY <1>8, PeerAnswersSettled
<1>9. CASE PeerSends
  BY <1>0, <1>9, PeerSendsSettled
<1>10. CASE PeerLeaves
  BY <1>0, <1>10, PeerLeavesSettled
<1>11. CASE UNCHANGED vars
  BY <1>0, <1>11 DEF vars
<1> QED BY <1>1, <1>2, <1>3, <1>4, <1>5, <1>6, <1>7, <1>8, <1>9, <1>10, <1>11 DEF Next

LEMMA SessionInvAgrees == SessionInv => SessionAgrees
<1> SUFFICES ASSUME SessionInv PROVE SessionAgrees
  OBVIOUS
<1>1. /\ SocketTypeOK /\ SocketsAccounted /\ (pc \in {"reading", "sending"} => r.open)
      /\ Settled(r, pc, inbox, ghost.granted, ghost.answered, ghost.slipped)
  BY DEF SessionInv, SocketsInv
<1>2. StructOK(r) /\ Shape(r) /\ CallsNumbered(r)
  BY <1>1 DEF Settled, StructOK
<1>3. TypeOK
  <2>1. r.socks \in Nat
    BY <1>1 DEF SocketsAccounted, SocketTypeOK
  <2>2. (r.playing => r.open) /\ (r.out # <<>> => r.open) /\ r.n \in 0..(MaxIdx + 1)
    BY <1>2 DEF StructOK, Shape
  <2> QED BY <1>1, <2>1, <2>2 DEF TypeOK, SocketTypeOK, Settled
<1>4. CallsPending
  <2> SUFFICES ASSUME pc = "reading", NEW i \in 1..Len(r.calls)
               PROVE  /\ r.calls[i].txn <= r.inv
                      /\ r.calls[i].txn \notin ghost.answered
                      /\ \A j \in 1..Len(r.calls) : i # j => r.calls[i].txn # r.calls[j].txn
    BY DEF CallsPending
  <2>1. Numbered(r, inbox, ghost.answered)
    BY <1>1 DEF Settled, Agrees
  <2> QED BY <1>2, <2>1 DEF CallsNumbered, Numbered
<1>5. PublishesGranted
  BY <1>1 DEF Settled, PublishesGranted
<1>6. MediaOnStream
  BY <1>1 DEF Settled, Placed, MediaOnStream
<1>7. NoOrphans
  BY <1>2 DEF Shape, NoOrphans, MaxIdx
<1> QED BY <1>3, <1>4, <1>5, <1>6, <1>7 DEF SessionAgrees

(***************************************************************************)
(* The session agrees with the server, through refusals, authentication,   *)
(* failing writes, lost connections and further attempts, as long as the   *)
(* index of the streams stays in the table: rtmp.c never compares it, and  *)
(* writes behind the table once it is beyond.                              *)
(***************************************************************************)
THEOREM SessionSound == Spec /\ [](r.cur <= MaxIdx) => []SessionAgrees
<1>1. SessionInv /\ r.cur <= MaxIdx /\ [Next]_vars => SessionInv'
  <2> SUFFICES ASSUME SessionInv, r.cur <= MaxIdx, [Next]_vars PROVE SessionInv'
    OBVIOUS
  <2>1. SocketsInv'
    BY SocketsStep DEF SessionInv
  <2>2. /\ Settled(r', pc', inbox', ghost'.granted, ghost'.answered, ghost'.slipped)
        /\ inbox' \in Seq(Packets) /\ IsFiniteSet(ghost'.granted) /\ ghost'.slipped \in BOOLEAN
    BY SettledStep
  <2> QED BY <2>1, <2>2 DEF SessionInv
<1> QED BY <1>1, SessionInit, SessionInvAgrees, PTL DEF Spec
=============================================================================
