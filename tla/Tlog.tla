-------------------------------- MODULE Tlog --------------------------------
(***************************************************************************)
(* The logger (mgw-core/util/source/tlog.c).  Any thread prints: under     *)
(* tlog.lock it puts its line into a byte ring, or waits, or drops it.     *)
(* One work thread notes under the lock what the ring holds, writes that   *)
(* to the files without the lock, and releases it under the lock.          *)
(*                                                                         *)
(* The ring: data lies in [start, end), or, once a line has come within    *)
(* MaxLine of the end of the buffer, in [start, ext_end) and [0, end).     *)
(* The program opens one log, tlog.root; the list of logs has one member.  *)
(* What a thread does while it holds tlog.lock is one step.                *)
(***************************************************************************)
EXTENDS TlogFile, FiniteSets

CONSTANTS
    Printers,   \* the threads that log
    BuffSize,   \* log->buffsize
    MaxLine,    \* TLOG_MAX_LINE_LEN
    LineLens,   \* the lengths a formatted line may have
    Blocks,     \* the values configs->block may have
    MaxLines,   \* bound: how many lines are printed
    MaxFaults   \* bound: how often open, vfork or gzip fails

ASSUME TlogAssumption ==
    /\ IsFiniteSet(Printers)
    /\ MaxLine \in Nat \ {0} /\ BuffSize \in Nat /\ MaxLines \in Nat /\ MaxFaults \in Nat
    /\ BuffSize >= 2 * MaxLine                  \* tlog_init refuses less
    /\ LineLens \subseteq 1 .. MaxLine - 1      \* what fits the free bytes is not cut
    /\ Blocks \subseteq BOOLEAN

VARIABLES
    ring,       \* log->start, end, ext_end, dropped, block
    buff,       \* log->buff
    printer,    \* where each printer is, and the length it wants to print
    worker,     \* the work thread: its point and its local variables
    sync,       \* tlog.run, is_wait, notify_log, and whether cond was signalled
    main,       \* the thread that calls tlog_exit
    fs,         \* the files
    ghost       \* the bytes accepted and handed to the files; the lines dropped and reported

vars == <<ring, buff, printer, worker, sync, main, fs, ghost>>

Idle == [at |-> "idle", len |-> 0]
NoSnap == [len |-> 0, extlen |-> 0, end |-> 0, extend |-> 0, dropped |-> 0]
DropByte == 0
OldByte == MaxLines + 1
LineNo == ghost.lines + 1

(* The bytes [a, b) of the buffer.                                         *)
Bytes(a, b) == [i \in 1 .. (b - a) |-> buff[a + i - 1]]

Empty == ring.end = ring.start /\ ring.ext_end = 0
Writing == worker.at \in {"write", "ext", "drop", "release"}

(* What the ring holds, in the order it was printed.                       *)
Held ==
    IF ring.ext_end > 0 THEN Bytes(ring.start, ring.ext_end) \o Bytes(0, ring.end)
    ELSE Bytes(ring.start, ring.end)

TypeOK ==
    /\ ring \in [start : 0 .. BuffSize - 1, end : 0 .. BuffSize - MaxLine,
                 ext_end : 0 .. BuffSize - 1, dropped : Nat, block : BOOLEAN]
    /\ buff \in [0 .. BuffSize - 1 -> 0 .. MaxLines + 1]
    /\ printer \in [Printers -> [at : {"idle", "blocked", "woken"}, len : {0} \cup LineLens]]
    /\ worker.at \in {"top", "pick", "wait", "write", "ext", "drop", "release", "gone"}
    /\ worker.log \in BOOLEAN /\ worker.loop_log \in BOOLEAN
    /\ sync \in [run : BOOLEAN, notify_log : BOOLEAN, signalled : BOOLEAN]
    /\ main \in {"up", "exit", "closed"}

(* tlog_init: an empty ring, one log, the work thread at its first line.   *)
Init ==
    /\ \E b \in Blocks :
          ring = [start |-> 0, end |-> 0, ext_end |-> 0, dropped |-> 0, block |-> b]
    /\ buff = [i \in 0 .. BuffSize - 1 |-> 0]
    /\ printer = [p \in Printers |-> Idle]
    /\ worker = [at |-> "top", log |-> FALSE, loop_log |-> FALSE, snap |-> NoSnap]
    /\ sync = [run |-> TRUE, notify_log |-> FALSE, signalled |-> FALSE]
    /\ main = "up"
    /\ fs \in Leftovers(OldByte)
    /\ ghost = [lines |-> 0, accepted |-> <<>>, handed |-> <<>>, dropped |-> 0, reported |-> 0, faults |-> 0,
                disk |-> OnDisk(fs)]

(***************************************************************************)
(* Printing.                                                               *)
(***************************************************************************)
(* The free bytes at `end'; none when the ring has wrapped round to start. *)
FreeLen ==
    IF ring.end = ring.start THEN IF ring.ext_end = 0 THEN BuffSize - ring.end ELSE 0
    ELSE IF ring.end > ring.start THEN BuffSize - ring.end
    ELSE ring.start - ring.end

(* Mutant: the room for another line is not kept.                          *)
AfterPrint_NoRoom(len) == [ring EXCEPT !.end = @ + len]

(* When the line does not leave room for another one, `end' goes to 0.     *)
AfterPrint(len) ==
    LET e == ring.end + len
    IN  IF e > BuffSize - MaxLine
        THEN [ring EXCEPT !.ext_end = e, !.end = 0]
        ELSE [ring EXCEPT !.end = e]

(* A signal reaches the work thread only while it waits.                   *)
Signal(s) == [s EXCEPT !.notify_log = TRUE, !.signalled = @ \/ worker.at = "wait"]

(* One round of the loop in _tlog_vprintf by printer p.                    *)
Attempt(p, len) ==
    IF FreeLen >= MaxLine
    THEN /\ buff' = [i \in DOMAIN buff |->
                        IF i \in ring.end .. ring.end + len - 1 THEN LineNo ELSE buff[i]]
         /\ ring' = AfterPrint(len)
         /\ sync' = IF worker.at = "wait" THEN Signal(sync) ELSE sync
         /\ printer' = [printer EXCEPT ![p] = Idle]
         /\ ghost' = [ghost EXCEPT !.lines = LineNo,
                         !.accepted = @ \o [i \in 1 .. len |-> LineNo]]
    ELSE /\ sync' = IF ring.end /= ring.start THEN Signal(sync) ELSE sync
         /\ UNCHANGED buff
         /\ IF ring.block
            THEN /\ printer' = [printer EXCEPT ![p] = [at |-> "blocked", len |-> len]]
                 /\ UNCHANGED <<ring, ghost>>
            ELSE /\ ring' = [ring EXCEPT !.dropped = @ + 1]
                 /\ ghost' = [ghost EXCEPT !.lines = LineNo, !.dropped = @ + 1]
                 /\ UNCHANGED printer

(* tlog_exit is called when no thread logs any more.                       *)
Vprintf(p) ==
    /\ printer[p].at = "idle" /\ main = "up"
    /\ ghost.lines + Cardinality({q \in Printers : printer[q].at /= "idle"}) < MaxLines
    /\ \E len \in LineLens : Attempt(p, len)
    /\ UNCHANGED <<worker, main, fs>>

VprintfAgain(p) ==
    /\ printer[p].at = "woken"
    /\ Attempt(p, printer[p].len)
    /\ UNCHANGED <<worker, main, fs>>

(***************************************************************************)
(* The work thread.                                                        *)
(***************************************************************************)
At(pt) == [worker EXCEPT !.at = pt]

(* Mutant: it ends as soon as it is told to.                               *)
WorkTop_AtOnce ==
    /\ worker.at = "top"
    /\ IF ~sync.run THEN worker' = At("gone") /\ UNCHANGED fs
       ELSE worker' = At("pick") /\ fs' = WaitPids(fs)
    /\ UNCHANGED <<ring, buff, printer, sync, main, ghost>>

(* It ends when it is told to and the ring is empty.                       *)
WorkTop ==
    /\ worker.at = "top"
    /\ IF ~sync.run /\ Empty
       THEN worker' = At("gone") /\ UNCHANGED fs
       ELSE worker' = At("pick") /\ fs' = WaitPids(fs)
    /\ UNCHANGED <<ring, buff, printer, sync, main, ghost>>

(* The note of what is to be written.                                      *)
Snapshot ==
    [len |-> IF ring.end > ring.start THEN ring.end - ring.start
             ELSE IF ring.ext_end > 0 THEN ring.ext_end - ring.start ELSE 0,
     extlen |-> IF ring.end < ring.start THEN ring.end ELSE 0,
     end |-> ring.end, extend |-> ring.ext_end, dropped |-> ring.dropped]

(* Mutant: the count of dropped lines is not reset when it is taken.       *)
Take_KeepsCount ==
    /\ worker' = [at |-> "write", log |-> TRUE, loop_log |-> FALSE, snap |-> Snapshot]
    /\ UNCHANGED ring

Take ==
    /\ worker' = [at |-> "write", log |-> TRUE, loop_log |-> FALSE, snap |-> Snapshot]
    /\ ring' = [ring EXCEPT !.dropped = 0]

(***************************************************************************)
(* The next log of the list: after the last one comes none, after none the *)
(* first.  Coming round to the log it started from, the thread waits when  *)
(* that log is empty.                                                      *)
(***************************************************************************)
WorkPick ==
    LET loop == worker.loop_log \/ worker.log
    IN  /\ worker.at = "pick"
        /\ \/ /\ worker.log
              /\ worker' = [worker EXCEPT !.at = "top", !.log = FALSE, !.loop_log = loop]
              /\ UNCHANGED ring
           \/ /\ ~worker.log /\ Empty
              /\ worker' = [worker EXCEPT !.at = IF loop /\ sync.run THEN "wait" ELSE "top",
                               !.log = TRUE, !.loop_log = loop]
              /\ UNCHANGED ring
           \/ /\ ~worker.log /\ ~Empty
              /\ Take
        /\ UNCHANGED <<buff, printer, sync, main, fs, ghost>>

(* Back from pthread_cond_timedwait, holding the lock.                     *)
Resume(log) ==
    IF log /\ ~Empty THEN Take
    ELSE worker' = [worker EXCEPT !.at = "top", !.log = log] /\ UNCHANGED ring

WorkSignalled ==
    /\ worker.at = "wait" /\ sync.signalled
    /\ sync' = [sync EXCEPT !.signalled = FALSE]
    /\ Resume(worker.log)
    /\ UNCHANGED <<buff, printer, main, fs, ghost>>

(* Only after two seconds without a signal is notify_log looked at.        *)
WorkTimeout ==
    /\ worker.at = "wait" /\ ~sync.signalled
    /\ sync' = [sync EXCEPT !.notify_log = FALSE]
    /\ Resume(sync.notify_log)
    /\ UNCHANGED <<buff, printer, main, fs, ghost>>

(* _tlog_write_log, three times, without the lock.                         *)
HandToFile(bytes, reported) ==
    \E ok \in [forks : BOOLEAN, opens : BOOLEAN] :
        LET faulty == WriteLog(fs, bytes, ok) /= WriteLog(fs, bytes, AllWell)
        IN  /\ faulty => ghost.faults < MaxFaults
            /\ fs' = WriteLog(fs, bytes, ok)
            /\ ghost' = [ghost EXCEPT
                  !.handed = IF reported = 0 THEN @ \o bytes ELSE @,
                  !.disk = IF Len(fs'.lost) = Len(fs.lost) THEN @ \o bytes ELSE @,
                  !.faults = IF faulty THEN @ + 1 ELSE @,
                  !.reported = @ + reported]

WorkWrite ==
    /\ worker.at = "write"
    /\ HandToFile(Bytes(ring.start, ring.start + worker.snap.len), 0)
    /\ worker' = At(IF worker.snap.extlen > 0 THEN "ext"
                    ELSE IF worker.snap.dropped > 0 THEN "drop" ELSE "release")
    /\ UNCHANGED <<ring, buff, printer, sync, main>>

WorkWriteExt ==
    /\ worker.at = "ext"
    /\ HandToFile(Bytes(0, worker.snap.extlen), 0)
    /\ worker' = At(IF worker.snap.dropped > 0 THEN "drop" ELSE "release")
    /\ UNCHANGED <<ring, buff, printer, sync, main>>

WorkReportDropped ==
    /\ worker.at = "drop"
    /\ HandToFile(<<DropByte>>, worker.snap.dropped)
    /\ worker' = At("release")
    /\ UNCHANGED <<ring, buff, printer, sync, main>>

(* Mutant: the release ends a wrap that came after the note.               *)
Released_DropsExt == [ring EXCEPT !.start = worker.snap.end, !.ext_end = 0]

(* The bytes written are free, and the printers that wait try again.       *)
Released ==
    [ring EXCEPT !.start = worker.snap.end,
                 !.ext_end = IF worker.snap.extend > 0 THEN 0 ELSE @]

(* Mutant: only the work thread's own state changes; nobody is woken.      *)
WorkRelease_NoBroadcast ==
    /\ worker.at = "release"
    /\ ring' = Released
    /\ worker' = [worker EXCEPT !.at = "top", !.snap = NoSnap]
    /\ UNCHANGED <<buff, printer, sync, main, fs, ghost>>

WorkRelease ==
    /\ worker.at = "release"
    /\ ring' = Released
    /\ printer' = [p \in Printers |->
          IF printer[p].at = "blocked" THEN [printer[p] EXCEPT !.at = "woken"] ELSE printer[p]]
    /\ worker' = [worker EXCEPT !.at = "top", !.snap = NoSnap]
    /\ UNCHANGED <<buff, sync, main, fs, ghost>>

(***************************************************************************)
(* tlog_exit, and the world outside.                                       *)
(***************************************************************************)
Exit ==
    /\ main = "up" /\ \A p \in Printers : printer[p].at = "idle"
    /\ main' = "exit"
    /\ sync' = [sync EXCEPT !.run = FALSE, !.signalled = @ \/ worker.at = "wait"]
    /\ UNCHANGED <<ring, buff, printer, worker, fs, ghost>>

(* The work thread is joined; _tlog_close waits for gzip to end.           *)
Close ==
    /\ main = "exit" /\ worker.at = "gone" /\ fs.zip /= "running"
    /\ main' = "closed"
    /\ fs' = [WaitPid(fs) EXCEPT !.fd = FALSE]
    /\ UNCHANGED <<ring, buff, printer, worker, sync, ghost>>

Gzip ==
    /\ fs.zip = "running"
    /\ \/ fs' = GzipDone(fs) /\ UNCHANGED ghost
       \/ /\ ghost.faults < MaxFaults
          /\ fs' = [fs EXCEPT !.zip = "failed"]
          /\ ghost' = [ghost EXCEPT !.faults = @ + 1]
    /\ UNCHANGED <<ring, buff, printer, worker, sync, main>>

Tick ==
    /\ main /= "closed" /\ (fs.tried \/ fs.polled)
    /\ fs' = NextSecond(fs)
    /\ UNCHANGED <<ring, buff, printer, worker, sync, main, ghost>>

Done == main = "closed" /\ UNCHANGED vars

Work == \/ WorkTop \/ WorkPick \/ WorkSignalled \/ WorkTimeout
        \/ WorkWrite \/ WorkWriteExt \/ WorkReportDropped \/ WorkRelease

Next ==
    \/ \E p \in Printers : Vprintf(p) \/ VprintfAgain(p)
    \/ Work \/ Exit \/ Close \/ Gzip \/ Tick \/ Done

(***************************************************************************)
(* Threads that can run do, gzip ends, and tlog_exit goes on.  No thread   *)
(* has to print or to call tlog_exit.                                      *)
(***************************************************************************)
Spec == Init /\ [][Next]_vars
FairSpec == Spec /\ WF_vars(Work) /\ WF_vars(Close) /\ WF_vars(Gzip)
                 /\ \A p \in Printers : WF_vars(VprintfAgain(p))

(***************************************************************************)
(* Properties.                                                             *)
(***************************************************************************)
(***************************************************************************)
(* The bytes the work thread hands to the files are those of the lines     *)
(* that were accepted, each once and in order, although it reads the ring  *)
(* without the lock while printers fill it, wrap it round and wait on it   *)
(* (_tlog_vprintf, _tlog_work).  Nothing read is overwritten before.       *)
(***************************************************************************)
WrittenAsPrinted ==
    IF Writing
    THEN /\ IsPrefix(ghost.handed, ghost.accepted)
         /\ worker.at = "release" =>
               LET s == Released
                   rest == IF s.ext_end > 0
                           THEN Bytes(s.start, s.ext_end) \o Bytes(0, s.end)
                           ELSE Bytes(s.start, s.end)
               IN  ghost.handed \o rest = ghost.accepted
    ELSE ghost.handed \o Held = ghost.accepted

(***************************************************************************)
(* Rotation keeps every byte that reached the log file, once and in order: *)
(* file, pending file, compressed file and archives (and those removed as  *)
(* too old) make up what was written, whichever of rename, fork and gzip   *)
(* failed before (_tlog_archive_log, _tlog_wait_pid).                      *)
(***************************************************************************)
RotationKeeps == OnDisk(fs) = ghost.disk

(***************************************************************************)
(* The archives stay bounded: one more than LogCount, from a compressed    *)
(* file an earlier process left, until the next one is archived.           *)
(***************************************************************************)
ArchivesBounded == Len(fs.archives) <= LogCount + 1

(***************************************************************************)
(* A line that was dropped is counted in one message, which the lines      *)
(* dropped meanwhile do not upset (log->dropped is taken under the lock).  *)
(***************************************************************************)
DropsReported ==
    ghost.reported + ring.dropped
        + (IF worker.at \in {"write", "ext", "drop"} THEN worker.snap.dropped ELSE 0)
    = ghost.dropped

(***************************************************************************)
(* A printer that waits for free bytes gets to print: its broadcast cannot *)
(* be missed and the work thread never sleeps on a full ring.              *)
(***************************************************************************)
BlockedPrints == \A p \in Printers : printer[p].at /= "idle" ~> printer[p].at = "idle"

(***************************************************************************)
(* tlog_exit returns, and has flushed the ring by then (tlog.h: "flush     *)
(* pending log message, and exit tlog").                                   *)
(***************************************************************************)
ExitFlushes == main = "exit" ~> (main = "closed" /\ ghost.handed = ghost.accepted)

(***************************************************************************)
(* Every line is accounted for: accepted and handed to the files as it     *)
(* was, or dropped and reported.                                           *)
(***************************************************************************)
LinesAccounted == TypeOK /\ WrittenAsPrinted /\ DropsReported

(***************************************************************************)
(* The files keep what they were given, within their bounds.               *)
(***************************************************************************)
FilesKept == RotationKeeps /\ ArchivesBounded

(***************************************************************************)
(* Neither a printer nor tlog_exit waits for ever.                         *)
(***************************************************************************)
LoggingEnds == BlockedPrints /\ ExitFlushes
=============================================================================
