---------------------------- MODULE BuffRegistry ----------------------------
(***************************************************************************)
(* The life of the shared memory behind one stream name: CreateShareMemory *)
(* and DeleteShareMemory (share_memory.c) as CreateStreamBuff and          *)
(* DeleteStreamBuff (stream_buff.c) call them, one system call a step and  *)
(* no lock between the users, which may be threads or processes.           *)
(*                                                                         *)
(* The counts of readers and writers in the memory are changed without a   *)
(* lock too; of them only the refusal of a second writer matters here, and *)
(* a raced count may refuse any writer.  What is put into the memory is in *)
(* StreamBuff.  Segments are those of the system: one that is removed      *)
(* while it is attached can no longer be found and ends with its last      *)
(* user.                                                                   *)
(***************************************************************************)
EXTENDS Integers, FiniteSets

CONSTANTS Users,        \* who may use the stream at the same time
          Keys,         \* what ftok may return for a file, which depends on its inode
          Segments      \* bound: the numbers of the segments there can be at a time

ASSUME BuffRegistryAssumption ==
    /\ IsFiniteSet(Users)
    /\ Keys \subseteq Nat \ {0}
    /\ Segments \subseteq Nat \ {0}

NoFile == 0     \* no file; and the key (-1) that ftok returns then
NoSegment == 0

VARIABLES disk,     \* the key of /tmp/.<name>, or NoFile
          stray,    \* ghost: a shmget failed since that file was made
          segment,  \* segment[s]: what the system knows of it
          user      \* user[u]: where it is in CreateStreamBuff or DeleteStreamBuff

shmVars == <<disk, stray, segment, user>>

Free_ == [state |-> "free", key |-> NoFile, nattch |-> 0, ready |-> FALSE, leaked |-> 0]
Away == [at |-> "idle", key |-> NoFile, seg |-> NoSegment]

ShmInit ==
    /\ disk = NoFile /\ stray = FALSE
    /\ segment = [s \in Segments |-> Free_]
    /\ user = [u \in Users |-> Away]

At(u, here) == user[u].at = here
Go(u, there) == user' = [user EXCEPT ![u].at = there]
Leave(u) == user' = [user EXCEPT ![u] = Away]
----------------------------------------------------------------------------
(* open(filename, O_CREAT | O_EXCL); ftok; shmget(IPC_CREAT).              *)
Open(u) ==
    /\ At(u, "idle")
    /\ disk' \in IF disk = NoFile THEN Keys ELSE {disk}
    /\ Go(u, "ftok")
    /\ UNCHANGED <<stray, segment>>

Ftok(u) ==
    /\ At(u, "ftok")
    /\ user' = [user EXCEPT ![u].at = "shmget", ![u].key = disk]
    /\ UNCHANGED <<disk, stray, segment>>

Bound(key) == {s \in Segments : segment[s].state = "live" /\ segment[s].key = key}
Unused == {s \in Segments : segment[s].state = "free" /\ \A u \in Users : user[u].seg # s}

(* There is no room, or the segment of that key has another size.          *)
ShmgetFails(u) ==
    /\ At(u, "shmget")
    /\ stray' = TRUE
    /\ Leave(u)
    /\ UNCHANGED <<disk, segment>>

Shmget(u) ==
    /\ At(u, "shmget")
    /\ LET key == user[u].key
       IN  \E s \in IF Bound(key) # {} THEN Bound(key) ELSE {m \in Unused : \A k \in Unused : m <= k} :
              /\ segment' = IF s \in Bound(key) THEN segment
                            ELSE [segment EXCEPT ![s] = [Free_ EXCEPT !.state = "live", !.key = key]]
              /\ user' = [user EXCEPT ![u] = [at |-> "shmat", key |-> NoFile, seg |-> s]]
    /\ UNCHANGED <<disk, stray>>

(* A segment that was removed in the meantime cannot be attached.  A shmat *)
(* that fails for want of address space is not modelled.                   *)
Shmat(u) ==
    /\ At(u, "shmat")
    /\ LET s == user[u].seg
       IN  IF segment[s].state = "free"
           THEN Leave(u) /\ UNCHANGED segment
           ELSE Go(u, "alone") /\ segment' = [segment EXCEPT ![s].nattch = @ + 1]
    /\ UNCHANGED <<disk, stray>>

(* IPC_STAT: who is alone initialises the memory.  Two users that attach   *)
(* before either looks find that they are two, and neither does; and one   *)
(* that was alone when it looked may find another there when it does.      *)
Alone(u) ==
    /\ At(u, "alone")
    /\ Go(u, IF segment[user[u].seg].nattch = 1 THEN "init" ELSE "count")
    /\ UNCHANGED <<disk, stray, segment>>

InitMemoryParam(u) ==
    /\ At(u, "init")
    /\ segment' = [segment EXCEPT ![user[u].seg].ready = TRUE]
    /\ Go(u, "count")
    /\ UNCHANGED <<disk, stray>>

(* CreateStreamBuff counts its caller, or refuses a second writer, which   *)
(* stays attached.                                                         *)
Count(u) ==
    /\ At(u, "count")
    /\ \/ Go(u, "using") /\ UNCHANGED segment
       \/ /\ \A s \in Segments : segment[s].leaked = 0   \* bound: one writer is refused
          /\ Leave(u) /\ segment' = [segment EXCEPT ![user[u].seg].leaked = @ + 1]
    /\ UNCHANGED <<disk, stray>>
----------------------------------------------------------------------------
(* DeleteStreamBuff: shmdt; IPC_STAT; IPC_RMID; remove(filename).          *)
Detached(s) ==
    IF segment[s].nattch = 1 /\ segment[s].state = "doomed" THEN Free_
    ELSE [segment[s] EXCEPT !.nattch = @ - 1]

Shmdt(u) ==
    /\ At(u, "using")
    /\ segment' = [segment EXCEPT ![user[u].seg] = Detached(user[u].seg)]
    /\ Go(u, "last")
    /\ UNCHANGED <<disk, stray>>

(* A plausible slip: the caller is still counted, though it has left.       *)
NobodyLeft_One(s) == segment[s].nattch = 1
NobodyLeft(s) == segment[s].nattch = 0

(* Of a segment that is gone IPC_STAT says nothing, and the buffer on the  *)
(* stack that is then looked at may hold any number.                       *)
LastOut(u) ==
    /\ At(u, "last")
    /\ \E gone \in IF segment[user[u].seg].state = "free" THEN BOOLEAN ELSE {NobodyLeft(user[u].seg)} :
          IF gone THEN Go(u, "rmid") ELSE Leave(u)
    /\ UNCHANGED <<disk, stray, segment>>

Rmid(u) ==
    /\ At(u, "rmid")
    /\ LET s == user[u].seg
       IN  segment' = [segment EXCEPT ![s] = IF @.nattch = 0 THEN Free_ ELSE [@ EXCEPT !.state = "doomed"]]
    /\ Go(u, "remove")
    /\ UNCHANGED <<disk, stray>>

Unlink(u) ==
    /\ At(u, "remove")
    /\ disk' = NoFile /\ stray' = FALSE
    /\ Leave(u)
    /\ UNCHANGED segment

ShmNext ==
    \E u \in Users :
        \/ Open(u) \/ Ftok(u) \/ Shmget(u) \/ ShmgetFails(u) \/ Shmat(u) \/ Alone(u) \/ InitMemoryParam(u) \/ Count(u)
        \/ Shmdt(u) \/ LastOut(u) \/ Rmid(u) \/ Unlink(u)

ShmSpec == ShmInit /\ [][ShmNext]_shmVars
----------------------------------------------------------------------------
(***************************************************************************)
(* share_memory.c: when the last user is gone no segment and no file is    *)
(* left, in whatever order users come and go, but for the attachments of   *)
(* writers that were refused and the file of one that got no segment.      *)
(***************************************************************************)
NothingLeft ==
    (\A u \in Users : user[u] = Away) /\ (\A s \in Segments : segment[s].leaked = 0)
        => (disk = NoFile \/ stray) /\ \A s \in Segments : segment[s] = Free_

(***************************************************************************)
(* CreateStreamBuff and DeleteStreamBuff: the attachments the system       *)
(* counts are those of the users there are and of refused writers, so      *)
(* nobody uses memory that was taken away.                                 *)
(***************************************************************************)
Inside == {"alone", "init", "count", "using"}

AttachedIsCounted ==
    \A s \in Segments :
        /\ segment[s].nattch = segment[s].leaked
               + Cardinality({u \in Users : user[u].seg = s /\ user[u].at \in Inside})
        /\ segment[s].state = "free" => segment[s].nattch = 0

(***************************************************************************)
(* share_memory.c: nobody uses memory that was taken away, and when all    *)
(* users are gone nothing of it is left, whatever the order of the system  *)
(* calls of those that come and go.                                        *)
(***************************************************************************)
MemoryIsShared == NothingLeft /\ AttachedIsCounted
=============================================================================
