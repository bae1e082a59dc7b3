------------------------------- MODULE LibSrt -------------------------------
(***************************************************************************)
(* The wrapper of the srt library (plugins/thirdparty/mgw-libsrt.c): open  *)
(* resolves a name and tries its addresses until one connects, read and    *)
(* write wait for the socket until they are interrupted.  The library      *)
(* itself is external: lib is what it holds for this program.              *)
(***************************************************************************)
EXTENDS Integers, FiniteSets

CONSTANT Addresses      \* bound: how many addresses the name has

ASSUME LibSrtAssumption == Addresses \in Nat \ {0}

VARIABLES
    srt,    \* struct srt_context, and the locals of the call that is running
    lib,    \* the sockets, poll sets and start-ups the library has counted
    waits   \* ghost: polls that ended after the caller raised its flag

srtVars == <<srt, lib, waits>>

Fresh(S) == CHOOSE h \in 1 .. Cardinality(S) + 1 : h \notin S

Modes == {"caller", "listener", "rendezvous"}

(* How libsrt_network_wait_fd may end.                                     *)
Polls == {"ready", "again", "error"}

SrtInit ==
    /\ srt = [pc |-> "closed", mode |-> "caller", fd |-> 0, eid |-> 0, weid |-> 0,
              cur |-> 0, timed |-> FALSE, interrupted |-> FALSE, ret |-> "none"]
    /\ lib = [sockets |-> {}, epolls |-> {}, startups |-> 0]
    /\ waits = 0

Goto(pc) == srt' = [srt EXCEPT !.pc = pc]
GotoRet(pc, ret) == srt' = [srt EXCEPT !.pc = pc, !.ret = ret]
----------------------------------------------------------------------------
(***************************************************************************)
(* mgw_libsrt_open: the options of the uri, one of which picks the mode.   *)
(* An option that is not known, or not copied, ends the call.              *)
(***************************************************************************)
mgw_libsrt_open ==
    /\ srt.pc = "closed"
    /\ \E mode \in Modes, timed \in BOOLEAN, ok \in BOOLEAN :
          /\ lib' = [lib EXCEPT !.startups = @ + 1]
          /\ srt' = [srt EXCEPT !.mode = mode, !.timed = timed, !.cur = 1, !.ret = "none",
                                !.fd = 0, !.interrupted = FALSE, !.pc = IF ok THEN "resolve" ELSE "err"]
    /\ waits' = 0

OpenErr ==
    /\ srt.pc = "err"
    /\ lib' = [lib EXCEPT !.startups = @ - 1]
    /\ Goto("closed")
    /\ UNCHANGED waits

(***************************************************************************)
(* libsrt_setup: the scheme and the port of the uri, and getaddrinfo.      *)
(***************************************************************************)
Resolve ==
    /\ srt.pc = "resolve"
    /\ \/ Goto("socket")
       \/ GotoRet("err", "unresolved")
    /\ UNCHANGED <<lib, waits>>

(* libsrt_setup at `restart', with libsrt_set_options_pre.                 *)
OpenSocket ==
    /\ srt.pc = "socket"
    /\ \/ /\ srt' = [srt EXCEPT !.fd = 0, !.pc = "fail", !.ret = "net"]
          /\ UNCHANGED lib
       \/ /\ lib' = [lib EXCEPT !.sockets = @ \cup {Fresh(lib.sockets)}]
          /\ \E pre \in {"ok", "fails"} :
                srt' = [srt EXCEPT !.fd = Fresh(lib.sockets),
                                   !.pc = IF pre = "ok" THEN "poll_set" ELSE "fail",
                                   !.ret = IF pre = "ok" THEN @ ELSE "net"]
    /\ UNCHANGED waits

(***************************************************************************)
(* libsrt_epoll_create: a poll set that does not take the socket is given  *)
(* back.                                                                   *)
(***************************************************************************)
libsrt_epoll_create(made, failed) ==
    \/ \E eid \in {Fresh(lib.epolls)} :
          /\ lib' = [lib EXCEPT !.epolls = @ \cup {eid}]
          /\ srt' = [srt EXCEPT !.pc = made, ![IF made = "open" THEN "eid" ELSE "weid"] = eid]
    \/ GotoRet(failed, "epoll") /\ UNCHANGED lib

WriteEpoll ==
    /\ srt.pc = "poll_set"
    /\ libsrt_epoll_create("begin", "fail1")
    /\ UNCHANGED waits

(***************************************************************************)
(* The first half of libsrt_listen (bind, listen), the bind of a           *)
(* rendezvous, and the call of srt_connect.  A call that fails gives the   *)
(* poll set back; where it goes on depends on the mode.                    *)
(***************************************************************************)
AfterFailure == IF srt.mode = "listener" THEN "fail1" ELSE "fail"

Begin ==
    /\ srt.pc = "begin"
    /\ \/ Goto("wait_open") /\ UNCHANGED lib
       \/ /\ \E to \in {AfterFailure} \cup (IF srt.mode = "rendezvous" THEN {"fail1"} ELSE {}) :
                GotoRet(to, IF to = "fail" THEN "net" ELSE "bind")
          /\ lib' = [lib EXCEPT !.epolls = @ \ {srt.weid}]
    /\ UNCHANGED waits

WaitLooks_Once(at) == srt.pc = at /\ (~srt.interrupted \/ srt.timed)

(***************************************************************************)
(* libsrt_network_wait_fd_timeout: looks at the flag of the caller, polls  *)
(* (libsrt_network_wait_fd), and starts again when nothing happened.       *)
(***************************************************************************)
WaitLooks(at) == srt.pc = at /\ ~srt.interrupted

WaitExit(at, pc) ==
    /\ srt.pc = at /\ srt.interrupted
    /\ GotoRet(pc, "exit")
    /\ UNCHANGED waits

WaitPoll(at, polling) ==
    /\ WaitLooks(at)
    /\ Goto(polling)
    /\ UNCHANGED waits

(* The poll ends; a wait with a time limit may be over.                    *)
PollEnds(polling, at, good, bad) ==
    /\ srt.pc = polling
    /\ waits' = IF srt.interrupted THEN waits + 1 ELSE waits
    /\ \E poll \in Polls :
          \/ poll = "ready" /\ Goto(good)
          \/ poll = "error" /\ GotoRet(bad, "net")
          \/ poll = "again" /\ Goto(at)
          \/ poll = "again" /\ srt.timed /\ GotoRet(bad, "timeout")

OpenWait ==
    /\ \/ WaitExit("wait_open", "interrupted")
       \/ WaitPoll("wait_open", "polling_open")
       \/ PollEnds("polling_open", "wait_open", "connected", "unconnected")
    /\ UNCHANGED lib

Accepted_KeepsListener(fd) == [lib EXCEPT !.epolls = @ \ {srt.weid}, !.sockets = @ \cup {fd}]

(***************************************************************************)
(* The end of libsrt_listen (accept) and of libsrt_listen_connect, and     *)
(* what libsrt_setup does with it.  The accepted socket takes the place of *)
(* the listening one.                                                      *)
(***************************************************************************)
Accepted(fd) == [lib EXCEPT !.epolls = @ \ {srt.weid}, !.sockets = (@ \ {srt.fd}) \cup {fd}]

Connected ==
    /\ srt.pc = "connected"
    /\ \/ /\ srt.mode # "listener"
          /\ lib' = [lib EXCEPT !.epolls = @ \ {srt.weid}]
          /\ Goto("post")
       \/ /\ srt.mode = "listener"
          /\ lib' = Accepted(Fresh(lib.sockets))
          /\ srt' = [srt EXCEPT !.fd = Fresh(lib.sockets), !.pc = "post"]
       \/ /\ srt.mode = "listener"
          /\ lib' = [lib EXCEPT !.epolls = @ \ {srt.weid}]
          /\ GotoRet("fail1", "net")
    /\ UNCHANGED waits

NotConnected ==
    /\ srt.pc \in {"interrupted", "unconnected"}
    /\ lib' = [lib EXCEPT !.epolls = @ \ {srt.weid}]
    /\ Goto(IF srt.pc = "interrupted" THEN "fail1" ELSE AfterFailure)
    /\ UNCHANGED waits

(* libsrt_set_options_post and the payload size of a writer.               *)
Post ==
    /\ srt.pc = "post"
    /\ \/ Goto("reader")
       \/ GotoRet("fail", "net")
       \/ GotoRet("fail1", "payload")
    /\ UNCHANGED <<lib, waits>>

(* The poll set the open connection keeps.                                 *)
Opened ==
    /\ srt.pc = "reader"
    /\ libsrt_epoll_create("open", "fail1")
    /\ UNCHANGED waits

Fail_Skips ==
    /\ srt.pc = "fail"
    /\ \/ /\ srt.cur + 1 < Addresses
          /\ srt' = [srt EXCEPT !.cur = @ + 1, !.pc = "socket", !.ret = "none"]
          /\ lib' = [lib EXCEPT !.sockets = @ \ {srt.fd}]
       \/ /\ srt.cur + 1 >= Addresses
          /\ Goto("fail1")
          /\ UNCHANGED lib
    /\ UNCHANGED waits

(***************************************************************************)
(* libsrt_setup at `fail' and at `fail1'.                                  *)
(***************************************************************************)
Fail ==
    /\ srt.pc = "fail"
    /\ \/ /\ srt.cur < Addresses
          /\ srt' = [srt EXCEPT !.cur = @ + 1, !.pc = "socket", !.ret = "none"]
          /\ lib' = [lib EXCEPT !.sockets = @ \ {srt.fd}]
       \/ /\ srt.cur = Addresses
          /\ Goto("fail1")
          /\ UNCHANGED lib
    /\ UNCHANGED waits

Fail1 ==
    /\ srt.pc = "fail1"
    /\ lib' = [lib EXCEPT !.sockets = @ \ {srt.fd}]
    /\ Goto("err")
    /\ UNCHANGED waits
----------------------------------------------------------------------------
(***************************************************************************)
(* mgw_libsrt_read and mgw_libsrt_write: a wait, then one message, which   *)
(* the library may refuse.                                                 *)
(***************************************************************************)
StartTransfer ==
    /\ srt.pc = "open"
    /\ Goto("wait_io")
    /\ UNCHANGED <<lib, waits>>

TransferWait ==
    /\ \/ WaitExit("wait_io", "open")
       \/ WaitPoll("wait_io", "polling_io")
       \/ PollEnds("polling_io", "wait_io", "transfer", "open")
    /\ UNCHANGED lib

Transfer ==
    /\ srt.pc = "transfer"
    /\ \E ret \in {"moved", "net"} : GotoRet("open", ret)
    /\ UNCHANGED <<lib, waits>>

mgw_libsrt_close ==
    /\ srt.pc = "open"
    /\ lib' = [sockets |-> lib.sockets \ {srt.fd}, epolls |-> lib.epolls \ {srt.eid},
               startups |-> lib.startups - 1]
    /\ srt' = [srt EXCEPT !.pc = "closed", !.ret = "none"]
    /\ waits' = 0

(***************************************************************************)
(* The flag behind check_stream_interrupt, raised by the caller; it lowers *)
(* it before it opens again.                                               *)
(***************************************************************************)
Interrupt ==
    /\ srt.pc # "closed" /\ ~srt.interrupted
    /\ srt' = [srt EXCEPT !.interrupted = TRUE]
    /\ UNCHANGED <<lib, waits>>

SrtNext ==
    \/ mgw_libsrt_open \/ OpenErr \/ Resolve \/ OpenSocket \/ WriteEpoll \/ Begin \/ OpenWait
    \/ Connected \/ NotConnected \/ Post \/ Opened \/ Fail \/ Fail1
    \/ StartTransfer \/ TransferWait \/ Transfer \/ mgw_libsrt_close \/ Interrupt
----------------------------------------------------------------------------
(* Whatever failed on the way, a closed context holds nothing of the       *)
(* library and an open one exactly its socket and its poll set.            *)
HoldsItsOwn ==
    /\ srt.pc = "closed" => lib = [sockets |-> {}, epolls |-> {}, startups |-> 0]
    /\ srt.pc = "open" => lib = [sockets |-> {srt.fd}, epolls |-> {srt.eid}, startups |-> 1]

(* An open that gives up because a peer did not answer has tried every     *)
(* address of the name.                                                    *)
TriesThemAll ==
    srt.pc = "closed" /\ srt.mode # "listener" /\ srt.ret \in {"net", "timeout"}
       => srt.cur = Addresses

(* Once the caller raised its flag at most the poll that was running ends  *)
(* before the call returns: no time limit, retry or further address makes  *)
(* it wait again.                                                          *)
StopsWaiting == waits <= 1
============================================================================
