--------------------------- MODULE WsClientProofs ---------------------------
(***************************************************************************)
(* That the send buffer of the web socket client has one user at a time,   *)
(* that no callback runs on freed memory, and that authorization is the    *)
(* first thing said on a connection: for any number of messages, senders,  *)
(* records and lost connections.                                           *)
(***************************************************************************)
EXTENDS WsClient, FiniteSetTheorems, TLAPS

Messages == {"none", "authen", "ping", "pong", "resp", "text"}

ClientStates ==
  [sem : Nat, buffer : Messages, sized : BOOLEAN, snd_req : BOOLEAN, actived : BOOLEAN,
   looping : BOOLEAN, stop_event : BOOLEAN, token : BOOLEAN]
NetStates == [wsi : {"none", "connecting", "up"}, want : BOOLEAN, sul : BOOLEAN, first : Messages]
Uses == [received : 0 .. MaxReceived, sends : 0 .. MaxSends, faults : 0 .. MaxFaults,
         stopped : BOOLEAN]

WsTypeOK ==
  /\ main \in MainPoints
  /\ loop \in LoopPoints
  /\ client \in ClientStates
  /\ net \in NetStates
  /\ used \in Uses

Entries == [addr : Addresses, nos : [0 .. RecordNodeMax - 1 -> Nat]]

RecordOK ==
  /\ record \in Seq(Entries)
  /\ Len(record) <= RecordDestMax

(* Before wsclient_start has made the loop nothing moves on the socket.    *)
Early == {"access", "authen", "register", "create"}

QuietBefore ==
  /\ main \in Early => client.sem = 0 /\ net.first = "none"
  /\ main \in Early \cup {"start", "refused"} =>
        /\ loop = "none" /\ net.wsi = "none"
        /\ ~client.sized

(* Until it is destroyed, a client told to stop was told by wsclient_stop. *)
StopIsKnown ==
  main \notin {"join", "freed", "aborted"} /\ client.stop_event => used.stopped

(* While nothing was said on a connection, the loop is about to ask for    *)
(* authorization, or that request is the message which waits.              *)
AuthPending ==
  client.token /\ net.wsi = "up" /\ net.first = "none" =>
     loop \in {"auth_wait", "auth_fill"} \/ (client.sized /\ client.buffer = "authen")

(* The slot, without counting: who has it has it alone.                    *)
MainHolds == main \in {"send_check", "send_fill"}
LoopHolds == loop \in Fills

SlotAlone ==
  /\ client.sem <= 1
  /\ client.sem = 1 => ~MainHolds /\ ~LoopHolds /\ ~client.sized
  /\ MainHolds => ~LoopHolds /\ ~client.sized
  /\ LoopHolds => ~client.sized

WsInv ==
  /\ WsTypeOK
  /\ RecordOK
  /\ QuietBefore
  /\ StopIsKnown
  /\ SlotAlone
  /\ AuthPending
  /\ AuthFirst
  /\ NoCallbackAfterFree

-----------------------------------------------------------------------------
(* The two threads counted are the two threads named.                      *)
LEMMA HoldersCounted ==
  Cardinality(Holders) = (IF MainHolds THEN 1 ELSE 0) + (IF LoopHolds THEN 1 ELSE 0)
<1>0. IsFiniteSet({}) /\ Cardinality({}) = 0
  BY FS_EmptySet
<1>1. IsFiniteSet({"main"}) /\ Cardinality({"main"}) = 1
  BY FS_Singleton
<1>2. Cardinality({"loop"}) = 1
  BY FS_Singleton
<1>3. Cardinality({"main"} \cup {"loop"}) = 2
  <2>1. "loop" \notin {"main"}
    OBVIOUS
  <2>2. Cardinality({"main"} \cup {"loop"}) = Cardinality({"main"}) + 1
    BY <1>1, <2>1, FS_AddElement
  <2> QED BY <1>1, <2>2
<1>4. CASE MainHolds /\ LoopHolds
  <2>1. Holders = {"main"} \cup {"loop"}
    BY <1>4 DEF Holders, MainHolds, LoopHolds
  <2> QED BY <1>3, <1>4, <2>1
<1>5. CASE MainHolds /\ ~LoopHolds
  <2>1. Holders = {"main"}
    BY <1>5 DEF Holders, MainHolds, LoopHolds
  <2> QED BY <1>1, <1>5, <2>1
<1>6. CASE ~MainHolds /\ LoopHolds
  <2>1. Holders = {"loop"}
    BY <1>6 DEF Holders, MainHolds, LoopHolds
  <2> QED BY <1>2, <1>6, <2>1
<1>7. CASE ~MainHolds /\ ~LoopHolds
  <2>1. Holders = {}
    BY <1>7 DEF Holders, MainHolds, LoopHolds
  <2> QED BY <1>0, <1>7, <2>1
<1> QED BY <1>4, <1>5, <1>6, <1>7

(* The invariant says what the run checks.                                 *)
LEMMA WsInvMeans == WsInv => MemoryIsHeld /\ AuthFirst
<1> SUFFICES ASSUME WsInv PROVE MemoryIsHeld
  BY DEF WsInv
<1>1. TypeOK
  <2>1. /\ client \in [sem : 0 .. 1, buffer : {"none", "authen", "ping", "pong", "resp", "text"},
                      sized : BOOLEAN, snd_req : BOOLEAN, actived : BOOLEAN, looping : BOOLEAN,
                      stop_event : BOOLEAN, token : BOOLEAN]
    BY DEF WsInv, WsTypeOK, SlotAlone, Messages, ClientStates
  <2>2. Len(record) <= RecordDestMax /\ \A i \in DOMAIN record : record[i].addr \in Addresses
    <3>1. \A i \in DOMAIN record : record[i] \in Entries
      BY DEF WsInv, RecordOK
    <3> QED BY <3>1 DEF WsInv, RecordOK, Entries
  <2>3. used.received <= MaxReceived /\ used.sends <= MaxSends /\ used.faults <= MaxFaults
    BY WsClientAssumption DEF WsInv, WsTypeOK, Uses
  <2> QED BY <2>1, <2>2, <2>3 DEF WsInv, WsTypeOK, TypeOK, Messages, NetStates
<1>2. SlotOnce
  BY HoldersCounted DEF WsInv, WsTypeOK, ClientStates, SlotAlone, SlotOnce, MainHolds, LoopHolds
<1> QED BY <1>1, <1>2 DEF WsInv, MemoryIsHeld

LEMMA WsInvInit == Init => WsInv
<1> SUFFICES ASSUME Init PROVE WsInv
  OBVIOUS
<1> USE WsClientAssumption DEF Init
<1>1. WsTypeOK /\ RecordOK
  BY DEF WsTypeOK, RecordOK, MainPoints, LoopPoints, Messages, ClientStates, NetStates, Uses
<1>2. QuietBefore /\ StopIsKnown /\ AuthPending /\ AuthFirst /\ NoCallbackAfterFree
  BY DEF QuietBefore, Early, StopIsKnown, AuthPending, AuthFirst, NoCallbackAfterFree
<1>3. SlotAlone
  BY DEF SlotAlone, MainHolds, LoopHolds, Fills
<1> QED BY <1>1, <1>2, <1>3 DEF WsInv
-----------------------------------------------------------------------------
(* Every step *)

(* Filling the buffer changes what waits and that it waits.                *)
LEMMA FilledClient ==
  ASSUME client \in ClientStates, NEW what \in Messages, NEW STATE sized, sized \in BOOLEAN,
         client' = Filled(client, what, sized)
  PROVE  /\ client' \in ClientStates
         /\ client'.buffer = what /\ client'.sized = sized
         /\ \A k \in {"sem", "actived", "looping", "stop_event", "token"} : client'[k] = client[k]
BY DEF Filled, ClientStates

(* Asking for a writeable callback leaves the connection as it is.         *)
LEMMA RequestedNet ==
  ASSUME net \in NetStates, net' \in Requested(net)
  PROVE  net' \in NetStates /\ net'.wsi = net.wsi /\ net'.first = net.first
BY DEF Requested, NetStates

(* Registration and the start of the loop: nothing else moves yet.         *)
LEMMA RegisterKeeps == ASSUME WsInv, Register PROVE WsInv'
<1> USE WsClientAssumption DEF WsInv, Register, AccessRequest, AuthenRequest, RegisterInternal, WsCreate, WsStart, Refused
<1>1. WsTypeOK' /\ RecordOK'
  <2>1. main' \in MainPoints /\ loop' \in LoopPoints
    BY DEF WsTypeOK, MainPoints, LoopPoints, Fills, Waits
  <2>2. client' \in ClientStates
    <3>1. CASE WsCreate
      BY <3>1 DEF WsTypeOK, ClientStates
    <3>2. CASE WsStart
      BY <3>2 DEF WsTypeOK, ClientStates
    <3>3. CASE AuthenRequest
      BY <3>3 DEF WsTypeOK, ClientStates
    <3> QED BY <3>1, <3>2, <3>3 DEF WsTypeOK
  <2>3. net' \in NetStates
    BY DEF WsTypeOK, ClientStates, NetStates, Messages
  <2>4. used' \in Uses
    BY DEF WsTypeOK, Uses
  <2>5. RecordOK'
    BY DEF RecordOK
  <2> QED BY <2>1, <2>2, <2>3, <2>4, <2>5 DEF WsTypeOK
<1>2. QuietBefore'
  BY DEF WsTypeOK, ClientStates, NetStates, Uses, QuietBefore, Early
<1>3. StopIsKnown'
  BY DEF WsTypeOK, ClientStates, NetStates, Uses, StopIsKnown
<1>4. SlotAlone'
  BY DEF WsTypeOK, ClientStates, NetStates, Uses, SlotAlone, MainHolds, LoopHolds, Fills, Waits, QuietBefore, Early
<1>5. AuthPending' /\ AuthFirst'
  BY DEF WsTypeOK, ClientStates, NetStates, Uses, AuthPending, AuthFirst, QuietBefore, Early, SlotAlone, MainHolds, LoopHolds, Fills, Waits
<1>6. NoCallbackAfterFree'
  BY DEF WsTypeOK, ClientStates, NetStates, Uses, NoCallbackAfterFree, StopIsKnown
<1> QED BY <1>1, <1>2, <1>3, <1>4, <1>5, <1>6

(* wsclient_send takes the slot, if the connection is up keeps it.         *)
LEMMA SendTakesKeeps == ASSUME WsInv, SendCall \/ SendTake \/ SendCheck PROVE WsInv'
<1> USE WsClientAssumption DEF WsInv, SendCall, SendTake, SendCheck
<1>1. WsTypeOK' /\ RecordOK'
  <2>1. main' \in MainPoints /\ loop' \in LoopPoints
    BY DEF WsTypeOK, MainPoints, LoopPoints, Fills, Waits
  <2>2. client' \in ClientStates
    BY DEF WsTypeOK, ClientStates, Messages
  <2>3. net' \in NetStates
    BY DEF WsTypeOK, ClientStates, NetStates, Messages
  <2>4. used' \in Uses
    BY DEF WsTypeOK, Uses
  <2>5. RecordOK'
    BY DEF RecordOK
  <2> QED BY <2>1, <2>2, <2>3, <2>4, <2>5 DEF WsTypeOK
<1>2. QuietBefore'
  BY DEF WsTypeOK, ClientStates, NetStates, Uses, QuietBefore, Early
<1>3. StopIsKnown'
  BY DEF WsTypeOK, ClientStates, NetStates, Uses, StopIsKnown
<1>4. SlotAlone'
  BY DEF WsTypeOK, ClientStates, NetStates, Uses, SlotAlone, MainHolds, LoopHolds, Fills, Waits, QuietBefore, Early
<1>5. AuthPending' /\ AuthFirst'
  BY DEF WsTypeOK, ClientStates, NetStates, Uses, AuthPending, AuthFirst, QuietBefore, Early, SlotAlone, MainHolds, LoopHolds, Fills, Waits
<1>6. NoCallbackAfterFree'
  BY DEF WsTypeOK, ClientStates, NetStates, Uses, NoCallbackAfterFree, StopIsKnown
<1> QED BY <1>1, <1>2, <1>3, <1>4, <1>5, <1>6

(* wsclient_send puts its message where none waits: the slot goes with it. *)
LEMMA SendFillKeeps == ASSUME WsInv, SendFill PROVE WsInv'
<1> USE WsClientAssumption DEF WsInv
<1>0. /\ main = "send_fill" /\ main' = "idle"
      /\ UNCHANGED <<loop, record, used>>
  BY DEF SendFill
<1>a. /\ client' \in ClientStates
      /\ client'.buffer = "text" /\ client'.sized
      /\ client'.sem = client.sem /\ client'.stop_event = client.stop_event
      /\ client'.token = client.token
  BY FilledClient DEF SendFill, WsTypeOK, Messages
<1>b. net' \in NetStates /\ net'.wsi = net.wsi /\ net'.first = net.first
  BY RequestedNet DEF SendFill, WsTypeOK
<1>1. WsTypeOK' /\ RecordOK'
  BY <1>0, <1>a, <1>b DEF WsTypeOK, RecordOK, MainPoints
<1>2. QuietBefore' /\ StopIsKnown'
  BY <1>0, <1>a, <1>b DEF QuietBefore, Early, StopIsKnown
<1>3. SlotAlone'
  BY <1>0, <1>a DEF WsTypeOK, ClientStates, SlotAlone, MainHolds, LoopHolds
<1>4. AuthPending' /\ AuthFirst'
  BY <1>0, <1>a, <1>b DEF WsTypeOK, ClientStates, AuthPending, AuthFirst, SlotAlone, MainHolds
<1>5. NoCallbackAfterFree'
  BY <1>0 DEF NoCallbackAfterFree
<1> QED BY <1>1, <1>2, <1>3, <1>4, <1>5

(* wsclient_stop, and wsclient_destroy that joins the loop it stops.       *)
LEMMA StoppingKeeps == ASSUME WsInv, WsStop \/ WsDestroy \/ WsJoin PROVE WsInv'
<1> USE WsClientAssumption DEF WsInv, WsStop, WsDestroy, WsJoin
<1>1. WsTypeOK' /\ RecordOK'
  <2>1. main' \in MainPoints /\ loop' \in LoopPoints
    BY DEF WsTypeOK, MainPoints, LoopPoints, Fills, Waits
  <2>2. client' \in ClientStates
    BY DEF WsTypeOK, ClientStates, Messages
  <2>3. net' \in NetStates
    BY DEF WsTypeOK, ClientStates, NetStates, Messages
  <2>4. used' \in Uses
    BY DEF WsTypeOK, Uses
  <2>5. RecordOK'
    BY DEF RecordOK
  <2> QED BY <2>1, <2>2, <2>3, <2>4, <2>5 DEF WsTypeOK
<1>2. QuietBefore'
  BY DEF WsTypeOK, ClientStates, NetStates, Uses, QuietBefore, Early
<1>3. StopIsKnown'
  BY DEF WsTypeOK, ClientStates, NetStates, Uses, StopIsKnown
<1>4. SlotAlone'
  BY DEF WsTypeOK, ClientStates, NetStates, Uses, SlotAlone, MainHolds, LoopHolds, Fills, Waits, QuietBefore, Early
<1>5. AuthPending' /\ AuthFirst'
  BY DEF WsTypeOK, ClientStates, NetStates, Uses, AuthPending, AuthFirst, QuietBefore, Early, SlotAlone, MainHolds, LoopHolds, Fills, Waits
<1>6. NoCallbackAfterFree'
  BY DEF WsTypeOK, ClientStates, NetStates, Uses, NoCallbackAfterFree, StopIsKnown
<1> QED BY <1>1, <1>2, <1>3, <1>4, <1>5, <1>6

(* The loop thread on its way, and what it clears when it ends.            *)
LEMMA LoopKeeps == ASSUME WsInv, LoopCheck \/ Heartbeat \/ LoopLeft \/ LoopEnd PROVE WsInv'
<1> USE WsClientAssumption DEF WsInv, LoopCheck, Heartbeat, LoopLeft, LoopEnd, Alive
<1>1. WsTypeOK' /\ RecordOK'
  <2>1. main' \in MainPoints /\ loop' \in LoopPoints
    BY DEF WsTypeOK, MainPoints, LoopPoints, Fills, Waits
  <2>2. client' \in ClientStates
    BY DEF WsTypeOK, ClientStates, Messages
  <2>3. net' \in NetStates
    BY DEF WsTypeOK, ClientStates, NetStates, Messages
  <2>4. used' \in Uses
    BY DEF WsTypeOK, Uses
  <2>5. RecordOK'
    BY DEF RecordOK
  <2> QED BY <2>1, <2>2, <2>3, <2>4, <2>5 DEF WsTypeOK
<1>2. QuietBefore'
  BY DEF WsTypeOK, ClientStates, NetStates, Uses, QuietBefore, Early
<1>3. StopIsKnown'
  BY DEF WsTypeOK, ClientStates, NetStates, Uses, StopIsKnown
<1>4. SlotAlone'
  BY DEF WsTypeOK, ClientStates, NetStates, Uses, SlotAlone, MainHolds, LoopHolds, Fills, Waits, QuietBefore, Early
<1>5. AuthPending' /\ AuthFirst'
  BY ZenonT(60) DEF WsTypeOK, ClientStates, NetStates, Uses, AuthPending, AuthFirst, QuietBefore, Early, SlotAlone, MainHolds, LoopHolds, Fills, Waits
<1>6. NoCallbackAfterFree'
  BY DEF WsTypeOK, ClientStates, NetStates, Uses, NoCallbackAfterFree, StopIsKnown
<1> QED BY <1>1, <1>2, <1>3, <1>4, <1>5, <1>6

(* The loop thread takes the slot.                                         *)
LEMMA LoopTakeKeeps == ASSUME WsInv, LoopTake PROVE WsInv'
<1> USE WsClientAssumption DEF WsInv, LoopTake, FillOf, Alive, Waits
<1>1. WsTypeOK' /\ RecordOK'
  <2>1. main' \in MainPoints /\ loop' \in LoopPoints
    BY DEF WsTypeOK, MainPoints, LoopPoints, Fills, Waits
  <2>2. client' \in ClientStates
    BY DEF WsTypeOK, ClientStates, Messages
  <2>3. net' \in NetStates
    BY DEF WsTypeOK, ClientStates, NetStates, Messages
  <2>4. used' \in Uses
    BY DEF WsTypeOK, Uses
  <2>5. RecordOK'
    BY DEF RecordOK
  <2> QED BY <2>1, <2>2, <2>3, <2>4, <2>5 DEF WsTypeOK
<1>2. QuietBefore'
  BY DEF WsTypeOK, ClientStates, NetStates, Uses, QuietBefore, Early
<1>3. StopIsKnown'
  BY DEF WsTypeOK, ClientStates, NetStates, Uses, StopIsKnown
<1>4. SlotAlone'
  BY DEF WsTypeOK, ClientStates, NetStates, Uses, SlotAlone, MainHolds, LoopHolds, Fills, Waits, QuietBefore, Early
<1>5. AuthPending' /\ AuthFirst'
  BY DEF WsTypeOK, ClientStates, NetStates, Uses, AuthPending, AuthFirst, QuietBefore, Early, SlotAlone, MainHolds, LoopHolds, Fills, Waits
<1>6. NoCallbackAfterFree'
  BY DEF WsTypeOK, ClientStates, NetStates, Uses, NoCallbackAfterFree, StopIsKnown
<1> QED BY <1>1, <1>2, <1>3, <1>4, <1>5, <1>6

(* The loop thread fills the buffer; a response keeps the slot.             *)
LEMMA LoopFillKeeps == ASSUME WsInv, AuthFill \/ ReauthFill \/ PongFill \/ PingFill \/ ResponseFill PROVE WsInv'
<1> USE WsClientAssumption DEF WsInv, AuthFill, ReauthFill, PongFill, PingFill, ResponseFill, MessageFill, Filled, Requested, Alive
<1>1. WsTypeOK' /\ RecordOK'
  <2>1. main' \in MainPoints /\ loop' \in LoopPoints
    BY DEF WsTypeOK, MainPoints, LoopPoints, Fills, Waits
  <2>2. client' \in ClientStates
    BY ZenonT(40) DEF WsTypeOK, ClientStates, Messages
  <2>3. net' \in NetStates
    BY DEF WsTypeOK, ClientStates, NetStates, Messages
  <2>4. used' \in Uses
    BY DEF WsTypeOK, Uses
  <2>5. RecordOK'
    BY DEF RecordOK
  <2> QED BY <2>1, <2>2, <2>3, <2>4, <2>5 DEF WsTypeOK
<1>2. QuietBefore'
  BY DEF WsTypeOK, ClientStates, NetStates, Uses, QuietBefore, Early
<1>3. StopIsKnown'
  BY DEF WsTypeOK, ClientStates, NetStates, Uses, StopIsKnown
<1>4. SlotAlone'
  BY ZenonT(60) DEF WsTypeOK, ClientStates, NetStates, Uses, SlotAlone, MainHolds, LoopHolds, Fills, Waits, QuietBefore, Early
<1>5. AuthPending' /\ AuthFirst'
  <2>1. net'.wsi = net.wsi /\ net'.first = net.first
    BY RequestedNet DEF WsTypeOK
  <2>2. client'.token = client.token
    BY DEF WsTypeOK, ClientStates
  <2>3. AuthFill => client'.sized /\ client'.buffer = "authen"
    BY DEF WsTypeOK, ClientStates
  <2>4. ~AuthFill => ~(client.token /\ net.wsi = "up" /\ net.first = "none")
    BY DEF AuthPending, SlotAlone, LoopHolds, Fills
  <2> QED BY <2>1, <2>2, <2>3, <2>4 DEF AuthPending, AuthFirst
<1>6. NoCallbackAfterFree'
  BY DEF WsTypeOK, ClientStates, NetStates, Uses, NoCallbackAfterFree, StopIsKnown
<1> QED BY <1>1, <1>2, <1>3, <1>4, <1>5, <1>6

(* A connection is begun, made or lost.                                     *)
LEMMA ConnectionKeeps == ASSUME WsInv, ServiceIdle \/ TryConnect \/ Established \/ Lost PROVE WsInv'
<1> USE WsClientAssumption DEF WsInv, ServiceIdle, TryConnect, Established, Lost, Authorize, Alive
<1>1. WsTypeOK' /\ RecordOK'
  <2>1. main' \in MainPoints /\ loop' \in LoopPoints
    BY DEF WsTypeOK, MainPoints, LoopPoints, Fills, Waits
  <2>2. client' \in ClientStates
    BY DEF WsTypeOK, ClientStates, Messages
  <2>3. net' \in NetStates
    BY DEF WsTypeOK, ClientStates, NetStates, Messages
  <2>4. used' \in Uses
    BY DEF WsTypeOK, Uses
  <2>5. RecordOK'
    BY DEF RecordOK
  <2> QED BY <2>1, <2>2, <2>3, <2>4, <2>5 DEF WsTypeOK
<1>2. QuietBefore'
  BY DEF WsTypeOK, ClientStates, NetStates, Uses, QuietBefore, Early
<1>3. StopIsKnown'
  BY DEF WsTypeOK, ClientStates, NetStates, Uses, StopIsKnown
<1>4. SlotAlone'
  BY DEF WsTypeOK, ClientStates, NetStates, Uses, SlotAlone, MainHolds, LoopHolds, Fills, Waits, QuietBefore, Early
<1>5. AuthPending' /\ AuthFirst'
  <2> USE DEF WsTypeOK, ClientStates, NetStates, AuthPending, AuthFirst
  <2>1. CASE ServiceIdle
    BY <2>1
  <2>2. CASE TryConnect
    BY <2>2
  <2>3. CASE Established
    BY <2>3
  <2>4. CASE Lost
    BY <2>4
  <2> QED BY <2>1, <2>2, <2>3, <2>4
<1>6. NoCallbackAfterFree'
  BY DEF WsTypeOK, ClientStates, NetStates, Uses, NoCallbackAfterFree, StopIsKnown
<1> QED BY <1>1, <1>2, <1>3, <1>4, <1>5, <1>6

(* The message that waits goes out, and gives the slot back.                *)
LEMMA WriteableKeeps == ASSUME WsInv, Writeable PROVE WsInv'
<1> USE WsClientAssumption DEF WsInv, Writeable, Alive
<1>1. WsTypeOK' /\ RecordOK'
  <2>1. main' \in MainPoints /\ loop' \in LoopPoints
    BY DEF WsTypeOK, MainPoints, LoopPoints, Fills, Waits
  <2>2. client' \in ClientStates
    <3>1. CASE client.sized
      <4>1. client' = [client EXCEPT !.sized = FALSE, !.buffer = "none", !.sem = @ + 1, !.snd_req = FALSE]
        BY <3>1
      <4>2. client \in ClientStates
        BY DEF WsTypeOK
      <4>3. client.sem + 1 \in Nat
        BY <4>2 DEF ClientStates
      <4> QED BY ONLY <4>1, <4>2, <4>3 DEF ClientStates, Messages
    <3>2. CASE ~client.sized
      BY <3>2 DEF WsTypeOK
    <3> QED BY <3>1, <3>2
  <2>3. net' \in NetStates
    BY DEF WsTypeOK, ClientStates, NetStates, Messages
  <2>4. used' \in Uses
    BY DEF WsTypeOK, Uses
  <2>5. RecordOK'
    BY DEF RecordOK
  <2> QED BY <2>1, <2>2, <2>3, <2>4, <2>5 DEF WsTypeOK
<1>2. QuietBefore'
  BY DEF WsTypeOK, ClientStates, NetStates, Uses, QuietBefore, Early
<1>3. StopIsKnown'
  BY DEF WsTypeOK, ClientStates, NetStates, Uses, StopIsKnown
<1>4. SlotAlone'
  BY DEF WsTypeOK, ClientStates, NetStates, Uses, SlotAlone, MainHolds, LoopHolds, Fills, Waits, QuietBefore, Early
<1>5. AuthPending' /\ AuthFirst'
  BY DEF WsTypeOK, ClientStates, NetStates, Uses, AuthPending, AuthFirst, QuietBefore, Early, SlotAlone, MainHolds, LoopHolds, Fills, Waits
<1>6. NoCallbackAfterFree'
  BY DEF WsTypeOK, ClientStates, NetStates, Uses, NoCallbackAfterFree, StopIsKnown
<1> QED BY <1>1, <1>2, <1>3, <1>4, <1>5, <1>6

(* Whatever the server says, the loop answers or goes on.                   *)
LEMMA ReceiveControlKeeps == ASSUME WsInv, NEW kind \in Controls, ReceiveControl(kind) PROVE WsInv'
<1> USE WsClientAssumption DEF WsInv, ReceiveControl, Alive, Authorize, Controls
<1>1. WsTypeOK' /\ RecordOK'
  <2>1. main' \in MainPoints /\ loop' \in LoopPoints
    BY DEF WsTypeOK, MainPoints, LoopPoints, Fills, Waits
  <2>2. client' \in ClientStates
    BY DEF WsTypeOK, ClientStates, Messages
  <2>3. net' \in NetStates
    BY DEF WsTypeOK, ClientStates, NetStates, Messages
  <2>4. used' \in Uses
    BY DEF WsTypeOK, Uses
  <2>5. RecordOK'
    BY DEF RecordOK
  <2> QED BY <2>1, <2>2, <2>3, <2>4, <2>5 DEF WsTypeOK
<1>2. QuietBefore'
  BY DEF WsTypeOK, ClientStates, NetStates, Uses, QuietBefore, Early
<1>3. StopIsKnown'
  BY DEF WsTypeOK, ClientStates, NetStates, Uses, StopIsKnown
<1>4. SlotAlone'
  BY DEF WsTypeOK, ClientStates, NetStates, Uses, SlotAlone, MainHolds, LoopHolds, Fills, Waits, QuietBefore, Early
<1>5. AuthPending' /\ AuthFirst'
  BY DEF WsTypeOK, ClientStates, NetStates, Uses, AuthPending, AuthFirst, QuietBefore, Early, SlotAlone, MainHolds, LoopHolds, Fills, Waits
<1>6. NoCallbackAfterFree'
  BY DEF WsTypeOK, ClientStates, NetStates, Uses, NoCallbackAfterFree, StopIsKnown
<1> QED BY <1>1, <1>2, <1>3, <1>4, <1>5, <1>6
(* What the first record becomes when a number is noted is still a record. *)
LEMMA RecordedOK ==
  ASSUME RecordOK, NEW text \in Texts
  PROVE  /\ Recorded(record, text) \in Seq(Entries)
         /\ Len(Recorded(record, text)) <= RecordDestMax
<1> USE WsClientAssumption DEF RecordOK
<1>1. text.addr \in Addresses /\ text.no \in Nat /\ Pos(text.no) \in 0 .. RecordNodeMax - 1
  BY DEF Texts, Pos
<1>2. CASE KnownDest(record, text)
  <2>1. 1 \in DOMAIN record /\ record[1] \in Entries
    BY <1>2 DEF KnownDest
  <2>2. [record[1] EXCEPT !.nos[Pos(text.no)] = text.no] \in Entries
    BY <1>1, <2>1 DEF Entries
  <2>3. Recorded(record, text) = [record EXCEPT ![1] = [record[1] EXCEPT !.nos[Pos(text.no)] = text.no]]
    BY <1>2, <2>1 DEF Recorded
  <2> HIDE DEF RecordOK
  <2>4. /\ [record EXCEPT ![1] = [record[1] EXCEPT !.nos[Pos(text.no)] = text.no]] \in Seq(Entries)
        /\ Len([record EXCEPT ![1] = [record[1] EXCEPT !.nos[Pos(text.no)] = text.no]]) = Len(record)
    BY <2>1, <2>2 DEF RecordOK
  <2> QED BY <2>3, <2>4 DEF RecordOK
<1>3. CASE ~KnownDest(record, text)
  <2>1. [addr |-> text.addr,
         nos |-> [p \in 0 .. RecordNodeMax - 1 |-> IF p = Pos(text.no) THEN text.no ELSE 0]] \in Entries
    BY <1>1 DEF Entries
  <2> QED BY <1>3, <2>1 DEF Recorded
<1> QED BY <1>2, <1>3

(* A text of the server is recorded, and answered when it asks for that.   *)
LEMMA ReceiveTextKeeps == ASSUME WsInv, NEW text \in Texts, ReceiveText(text) PROVE WsInv'
<1> USE WsClientAssumption DEF WsInv
<1>0. /\ loop = "service" /\ net.wsi = "up"
      /\ loop' \in {"resp_wait", "heartbeat"}
      /\ main' \in {main, "aborted"}
      /\ UNCHANGED <<client, net>>
  BY DEF ReceiveText
<1>1. WsTypeOK'
  <2>1. used' \in Uses
    BY DEF ReceiveText, WsTypeOK, Uses
  <2> QED BY <1>0, <2>1 DEF WsTypeOK, MainPoints, LoopPoints, Waits
<1>2. RecordOK'
  BY RecordedOK DEF ReceiveText, RecordOK
<1>3. used'.stopped = used.stopped
  BY DEF ReceiveText, WsTypeOK, Uses
<1>4. QuietBefore' /\ StopIsKnown' /\ NoCallbackAfterFree'
  BY <1>0, <1>3 DEF QuietBefore, Early, StopIsKnown, NoCallbackAfterFree
<1>5. SlotAlone'
  BY <1>0 DEF SlotAlone, MainHolds, LoopHolds, Fills
<1>6. AuthPending' /\ AuthFirst'
  BY <1>0 DEF AuthPending, AuthFirst
<1> QED BY <1>1, <1>2, <1>4, <1>5, <1>6
-----------------------------------------------------------------------------
(* Both threads keep the invariant, whichever of them steps.               *)
LEMMA WsInvNext == WsInv /\ [Next]_vars => WsInv'
<1> SUFFICES ASSUME WsInv, [Next]_vars PROVE WsInv'
  OBVIOUS
<1>1. CASE Register
  BY <1>1, RegisterKeeps
<1>2. CASE Sending
  BY <1>2, SendTakesKeeps, SendFillKeeps DEF Sending
<1>3. CASE WsStop \/ WsDestroy \/ WsJoin
  BY <1>3, StoppingKeeps
<1>4. CASE Service
  <2>1. CASE ServiceIdle \/ TryConnect \/ Established \/ Lost
    BY <2>1, ConnectionKeeps
  <2>2. CASE Writeable
    BY <2>2, WriteableKeeps
  <2>3. CASE \E kind \in Controls : ReceiveControl(kind)
    BY <2>3, ReceiveControlKeeps
  <2>4. CASE \E text \in Texts : ReceiveText(text)
    BY <2>4, ReceiveTextKeeps
  <2> QED BY <1>4, <2>1, <2>2, <2>3, <2>4 DEF Service
<1>5. CASE LoopOwn
  BY <1>5, LoopKeeps, LoopTakeKeeps, LoopFillKeeps DEF LoopOwn
<1>6. CASE UNCHANGED vars
  BY <1>6 DEF vars, WsInv, WsTypeOK, RecordOK, QuietBefore, StopIsKnown, SlotAlone, MainHolds,
              LoopHolds, AuthPending, AuthFirst, NoCallbackAfterFree
<1> QED BY <1>1, <1>2, <1>3, <1>4, <1>5, <1>6 DEF Next

(***************************************************************************)
(* ws-client.c: for any number of messages, connections and stops, the     *)
(* slot of the send buffer is in one place at a time, so no message is     *)
(* written over before it went out, and wsclient_destroy frees a client it *)
(* stopped only when no callback can run any more.                         *)
(***************************************************************************)
THEOREM ClientMemoryIsHeld == Spec => []MemoryIsHeld
BY WsInvInit, WsInvNext, WsInvMeans, PTL DEF Spec

(***************************************************************************)
(* lws_callback (CLIENT_ESTABLISHED, CLIENT_WRITEABLE): with a token, the  *)
(* request for authorization is what the server gets first on every        *)
(* connection, though a sender that saw the last one up may fill the       *)
(* buffer while the next one is made.                                      *)
(***************************************************************************)
THEOREM AuthorizationIsFirst == Spec => []AuthFirst
BY WsInvInit, WsInvNext, WsInvMeans, PTL DEF Spec
=============================================================================
