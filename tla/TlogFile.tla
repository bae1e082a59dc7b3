------------------------------ MODULE TlogFile ------------------------------
(***************************************************************************)
(* The files behind the log (mgw-core/util/source/tlog.c): the log file,   *)
(* its rotation into a pending file, the gzip process that compresses it   *)
(* and the archives kept.  Only the work thread touches them, and          *)
(* tlog_exit after that thread has ended, so every operation is a step of  *)
(* its caller and is written here as an operator on the record `fs'.       *)
(*                                                                         *)
(* A byte is named by the number of the line it belongs to, 0 in a message *)
(* about dropped lines; a file is the sequence of its bytes.  A file that  *)
(* does not exist is the empty sequence, since only a file with more than  *)
(* LogSize bytes is ever renamed.  One process writes the log (multiwrite  *)
(* is 0 in mgw-app), so the lock file is never made.                       *)
(***************************************************************************)
EXTENDS Naturals, Sequences, SequencesExt

CONSTANTS
    LogSize,    \* log->logsize: above this many bytes the file is rotated
    LogCount    \* log->logcount: how many archives are kept

ASSUME TlogFileAssumption == LogSize \in Nat \ {0} /\ LogCount \in Nat \ {0}

NewFs ==
    [fd |-> FALSE, filesize |-> 0, zip |-> "none",
     file |-> <<>>, pending |-> <<>>, gz |-> <<>>, archives |-> <<>>,
     tried |-> FALSE, polled |-> FALSE, removed |-> <<>>, lost |-> <<>>]

(***************************************************************************)
(* What an earlier process may have left: a log file, and a pending file   *)
(* whose compression had not started; or archives and a compressed file    *)
(* that has not got its name.  The bytes are of no line of this process.   *)
(***************************************************************************)
Leftovers(byte) ==
    {NewFs, [NewFs EXCEPT !.file = <<byte, byte>>, !.pending = <<byte>>],
     [NewFs EXCEPT !.gz = <<byte>>, !.archives = [i \in 1 .. LogCount |-> <<byte>>]]}

(* The compressed file gets a name of its own and is the newest archive.   *)
Renamed(f) == [f EXCEPT !.archives = Append(@, f.gz), !.gz = <<>>]

(* Mutant: the counts are subtracted the wrong way round.                  *)
RemoveOld_Reversed(f) ==
    IF Len(f.archives) >= LogCount THEN f
    ELSE [f EXCEPT !.archives = <<>>, !.removed = @ \o FlattenSeq(f.archives)]

(* The archives above LogCount go, the oldest first.                       *)
RemoveOld(f) ==
    LET over == Len(f.archives) - LogCount
    IN  IF Len(f.archives) <= LogCount THEN f
        ELSE [f EXCEPT !.archives = SubSeq(@, over + 1, Len(@)),
                       !.removed = @ \o FlattenSeq(SubSeq(f.archives, 1, over))]

(***************************************************************************)
(* The gzip process, if it has ended, is reaped; what it left is archived. *)
(* After a failure there is nothing to rename and the pending file stays.  *)
(***************************************************************************)
WaitPid(f) ==
    CASE f.zip = "ok"     -> RemoveOld(Renamed([f EXCEPT !.zip = "none"]))
      [] f.zip = "failed" -> [f EXCEPT !.zip = "none"]
      [] OTHER            -> f

(* Once a second at most, while there is a gzip process.                   *)
WaitPids(f) ==
    IF f.zip /= "none" /\ ~f.polled THEN [WaitPid(f) EXCEPT !.polled = TRUE] ELSE f

(* Mutant: the log file is renamed over a pending file.                    *)
Archive_Overwrites(f, forks) ==
    LET g == IF f.gz /= <<>> THEN Renamed(f) ELSE f
        h == [g EXCEPT !.pending = g.file, !.file = <<>>]
    IN  IF forks THEN [h EXCEPT !.zip = "running"] ELSE h

(* A pending file that is still there is compressed before the log file.   *)
Archive(f, forks) ==
    LET g == IF f.gz /= <<>> THEN Renamed(f) ELSE f
        h == IF g.pending = <<>> THEN [g EXCEPT !.pending = g.file, !.file = <<>>] ELSE g
    IN  IF forks THEN [h EXCEPT !.zip = "running"] ELSE h

(* A file above the limit is closed and handed to gzip, unless gzip runs.  *)
Rotate(f, forks) ==
    IF f.filesize > LogSize /\ f.zip = "none"
    THEN Archive([f EXCEPT !.fd = FALSE, !.filesize = 0], forks)
    ELSE f

(* A closed file is opened again, at most once in a second.                *)
Reopen(f, opens) ==
    IF f.fd \/ f.tried THEN f
    ELSE [f EXCEPT !.tried = TRUE, !.fd = opens, !.filesize = IF opens THEN Len(f.file) ELSE 0]

(* Which of vfork and open succeed.                                        *)
AllWell == [forks |-> TRUE, opens |-> TRUE]

(* Without a file the bytes are gone.                                      *)
WriteLog(f, bytes, ok) ==
    LET g == Reopen(Rotate(f, ok.forks), ok.opens)
    IN  IF bytes = <<>> THEN f
        ELSE IF g.fd
        THEN [g EXCEPT !.file = @ \o bytes, !.filesize = @ + Len(bytes)]
        ELSE [g EXCEPT !.lost = @ \o bytes]

(* The process: gzip replaces the pending file by its compressed form.     *)
GzipDone(f) == [f EXCEPT !.zip = "ok", !.gz = f.pending, !.pending = <<>>]

(* Another second.                                                         *)
NextSecond(f) == [f EXCEPT !.tried = FALSE, !.polled = FALSE]

(* Everything on disk, the oldest byte first.                              *)
OnDisk(f) == f.removed \o FlattenSeq(f.archives) \o f.gz \o f.pending \o f.file
=============================================================================
