------------------------- MODULE BuffRegistryProofs -------------------------
(***************************************************************************)
(* That nothing is left of the shared memory of a stream when its users    *)
(* are gone, for any number of users, keys and segments.  The invariant    *)
(* names who will take away what there is: a segment without attachments   *)
(* has a user that is about to attach or to remove it, and a file has one  *)
(* that is on its way to the segment, in it, or about to unlink the file.  *)
(***************************************************************************)
EXTENDS BuffRegistry, FiniteSetTheorems, TLAPS

Seats == {"shmat", "alone", "init", "count", "using", "last", "rmid", "remove"}

SegmentStates ==
  [state : {"free", "live", "doomed"}, key : Nat, nattch : Nat, ready : BOOLEAN, leaked : Nat]
UserStates ==
  [at : {"idle", "ftok", "shmget"} \cup Seats, key : Nat, seg : Segments \cup {NoSegment}]

ShmTypeOK ==
  /\ disk \in Keys \cup {NoFile}
  /\ stray \in BOOLEAN
  /\ segment \in [Segments -> SegmentStates]
  /\ user \in [Users -> UserStates]

(* Who is in a segment or about to be knows which, and nobody else does.   *)
Seated ==
  \A u \in Users :
     /\ user[u].seg # NoSegment <=> user[u].at \in Seats
     /\ user[u].at = "idle" => user[u] = Away

(* A segment that is free is as new, one that is doomed still has users.   *)
StatesMean ==
  \A s \in Segments :
     /\ segment[s].state = "free" => segment[s] = Free_
     /\ segment[s].state = "doomed" => segment[s].nattch > 0

(* A segment nobody is attached to is about to be attached or removed.     *)
Takers == {"shmat", "last", "rmid"}

SegmentHasTaker ==
  \A s \in Segments :
     segment[s].state = "live" /\ segment[s].nattch = 0
        => \E u \in Users : user[u].seg = s /\ user[u].at \in Takers

(* A file is that of somebody who is on the way or in a live segment.      *)
OnTheWay == {"ftok", "shmget", "rmid", "remove"}
InLive(u) == user[u].at \in Seats /\ segment[user[u].seg].state = "live"

FileHasOwner ==
  \/ disk = NoFile \/ stray
  \/ \E u \in Users : user[u].at \in OnTheWay \/ InLive(u)
  \/ \E s \in Segments : segment[s].leaked > 0

ShmInv ==
  /\ ShmTypeOK
  /\ Seated
  /\ StatesMean
  /\ AttachedIsCounted
  /\ SegmentHasTaker
  /\ FileHasOwner

-----------------------------------------------------------------------------
(* How many are attached *)

InsideOf(s) == {u \in Users : user[u].seg = s /\ user[u].at \in Inside}

(* The users in a segment are finitely many, and one more or less of them  *)
(* is one more or less in number.                                          *)
LEMMA InsideCounts ==
  ASSUME NEW S \in SUBSET Users, NEW u \in Users
  PROVE  /\ IsFiniteSet(S) /\ Cardinality(S) \in Nat
         /\ u \notin S => Cardinality(S \cup {u}) = Cardinality(S) + 1
         /\ u \in S => Cardinality(S \ {u}) = Cardinality(S) - 1 /\ Cardinality(S) > 0
<1>1. IsFiniteSet(S)
  BY BuffRegistryAssumption, FS_Subset
<1>2. Cardinality(S) \in Nat
  BY <1>1, FS_CardinalityType
<1>3. u \notin S => Cardinality(S \cup {u}) = Cardinality(S) + 1
  BY <1>1, FS_AddElement
<1>4. ASSUME u \in S PROVE Cardinality(S \ {u}) = Cardinality(S) - 1 /\ Cardinality(S) > 0
  <2>1. Cardinality(S \ {u}) = Cardinality(S) - 1
    BY <1>1, <1>4, FS_RemoveElement
  <2>2. Cardinality(S) # 0
    BY <1>1, <1>4, FS_EmptySet
  <2> QED BY <2>1, <2>2, <1>2
<1> QED BY <1>1, <1>2, <1>3, <1>4

(* A step moves one user and leaves the others where they are.             *)
Moves(u) == \A v \in Users : v # u => user'[v] = user[v]

IsIn(u, s) == user[u].seg = s /\ user[u].at \in Inside
InsideIs(s) == segment[s].nattch = segment[s].leaked + Cardinality(InsideOf(s))

LEMMA CountMeans ==
  /\ AttachedIsCounted <=> \A s \in Segments : InsideIs(s) /\ (segment[s].state = "free" => segment[s].nattch = 0)
  /\ AttachedIsCounted' <=> \A s \in Segments : InsideIs(s)' /\ (segment'[s].state = "free" => segment'[s].nattch = 0)
BY DEF AttachedIsCounted, InsideIs, InsideOf

(* A user that is inside the same segment before and after, or inside none *)
(* both times, leaves all counts as they are.                              *)
LEMMA CountKept ==
  ASSUME AttachedIsCounted, NEW u \in Users, Moves(u),
         \A s \in Segments : IsIn(u, s) <=> IsIn(u, s)',
         \A s \in Segments : /\ segment'[s].nattch = segment[s].nattch
                             /\ segment'[s].leaked = segment[s].leaked
                             /\ segment'[s].state = "free" => segment[s].nattch = 0
  PROVE  AttachedIsCounted'
<1> SUFFICES ASSUME NEW s \in Segments
             PROVE  /\ InsideIs(s)'
                    /\ segment'[s].state = "free" => segment'[s].nattch = 0
  BY CountMeans
<1>1. InsideOf(s)' = InsideOf(s)
  BY DEF InsideOf, Moves, IsIn
<1>2. InsideIs(s)
  BY CountMeans
<1> QED BY <1>1, <1>2 DEF InsideIs

(* A user that goes into segment s, or leaves it, is one more or one less  *)
(* there and changes nothing elsewhere.                                    *)
LEMMA InsideChanges ==
  ASSUME NEW u \in Users, Moves(u), NEW s \in Segments
  PROVE  /\ Cardinality(InsideOf(s)) \in Nat
         /\ ~IsIn(u, s) /\ IsIn(u, s)' => Cardinality(InsideOf(s)') = Cardinality(InsideOf(s)) + 1
         /\ IsIn(u, s) /\ ~IsIn(u, s)' => /\ Cardinality(InsideOf(s)') = Cardinality(InsideOf(s)) - 1
                                          /\ Cardinality(InsideOf(s)) > 0
         /\ (IsIn(u, s) <=> IsIn(u, s)') => InsideOf(s)' = InsideOf(s)
<1>0. InsideOf(s) \in SUBSET Users
  BY DEF InsideOf
<1>1. ASSUME ~IsIn(u, s), IsIn(u, s)'
      PROVE  Cardinality(InsideOf(s)') = Cardinality(InsideOf(s)) + 1
  <2>1. InsideOf(s)' = InsideOf(s) \cup {u} /\ u \notin InsideOf(s)
    BY <1>1 DEF InsideOf, Moves, IsIn
  <2> QED BY <2>1, <1>0, InsideCounts
<1>2. ASSUME IsIn(u, s), ~IsIn(u, s)'
      PROVE  Cardinality(InsideOf(s)') = Cardinality(InsideOf(s)) - 1 /\ Cardinality(InsideOf(s)) > 0
  <2>1. InsideOf(s)' = InsideOf(s) \ {u} /\ u \in InsideOf(s)
    BY <1>2 DEF InsideOf, Moves, IsIn
  <2> QED BY <2>1, <1>0, InsideCounts
<1>3. ASSUME IsIn(u, s) <=> IsIn(u, s)'
      PROVE  InsideOf(s)' = InsideOf(s)
  BY <1>3 DEF InsideOf, Moves, IsIn
<1>4. Cardinality(InsideOf(s)) \in Nat
  BY <1>0, InsideCounts
<1> QED BY <1>1, <1>2, <1>3, <1>4
-----------------------------------------------------------------------------
(* Memory that somebody is inside of is attached, and never free.          *)
LEMMA InsideIsAttached ==
  ASSUME ShmInv, NEW u \in Users, NEW STATE s, s \in Segments, IsIn(u, s)
  PROVE  /\ segment[s] \in SegmentStates
         /\ segment[s].nattch > 0 /\ segment[s].state # "free"
         /\ segment[s].nattch > segment[s].leaked
<1>1. segment[s] \in SegmentStates
  BY DEF ShmInv, ShmTypeOK
<1>2. u \in InsideOf(s) /\ InsideOf(s) \in SUBSET Users
  BY DEF IsIn, InsideOf
<1>3. Cardinality(InsideOf(s)) \in Nat /\ Cardinality(InsideOf(s)) > 0
  BY <1>2, InsideCounts
<1>4. segment[s].nattch = segment[s].leaked + Cardinality(InsideOf(s))
  BY CountMeans DEF ShmInv, InsideIs
<1>5. segment[s].nattch > 0 /\ segment[s].nattch > segment[s].leaked
  BY <1>1, <1>3, <1>4 DEF SegmentStates
<1> QED BY <1>1, <1>5, CountMeans DEF ShmInv

(* What a step does to one segment leaves the map of segments well typed.  *)
LEMMA SegmentMoves ==
  ASSUME ShmTypeOK, NEW STATE s, s \in Segments, NEW STATE r, r \in SegmentStates,
         segment' = [segment EXCEPT ![s] = r]
  PROVE  /\ segment' \in [Segments -> SegmentStates]
         /\ segment'[s] = r
         /\ \A t \in Segments : t # s => segment'[t] = segment[t]
BY DEF ShmTypeOK

(* The first state *)

LEMMA ShmInvInit == ShmInit => ShmInv
<1> SUFFICES ASSUME ShmInit PROVE ShmInv
  OBVIOUS
<1> USE DEF ShmInit, Free_, Away, NoFile, NoSegment
<1>1. ShmTypeOK
  BY DEF ShmTypeOK, SegmentStates, UserStates
<1>2. Seated
  BY DEF Seated, Seats
<1>3. StatesMean /\ SegmentHasTaker /\ FileHasOwner
  BY DEF StatesMean, SegmentHasTaker, FileHasOwner
<1>4. AttachedIsCounted
  <2>1. \A s \in Segments : {u \in Users : user[u].seg = s /\ user[u].at \in Inside} = {}
    BY DEF Inside
  <2>2. Cardinality({}) = 0
    BY FS_EmptySet
  <2> QED BY SMTT(30), <2>1, <2>2 DEF AttachedIsCounted
<1> QED BY <1>1, <1>2, <1>3, <1>4 DEF ShmInv
-----------------------------------------------------------------------------
(* Every system call *)
(* open: the file is there, and the caller owns it.                        *)
LEMMA OpenKeeps == ASSUME ShmInv, NEW u \in Users, Open(u) PROVE ShmInv'
<1> USE DEF ShmInv, Away, NoFile, NoSegment, Free_, At, Go, Leave, Seats, Open
<1>1. ShmTypeOK'
  <2>1. disk' \in Keys \cup {NoFile}
    BY DEF ShmTypeOK
  <2>2. user' \in [Users -> UserStates]
    BY DEF ShmTypeOK, UserStates
  <2> QED BY <2>1, <2>2 DEF ShmTypeOK
<1>2. Moves(u)
  BY DEF Moves, ShmTypeOK
<1>3. Seated'
  BY DEF Seated, ShmTypeOK
<1>4. StatesMean'
  BY DEF StatesMean, ShmTypeOK
<1>5. AttachedIsCounted'
  BY <1>2, CountKept DEF Seated, ShmTypeOK, IsIn, Inside, AttachedIsCounted
<1>6. SegmentHasTaker'
  BY <1>2 DEF SegmentHasTaker, Takers, Moves, ShmTypeOK, Seated
<1>7. FileHasOwner'
  BY <1>2 DEF FileHasOwner, OnTheWay, InLive, Moves, ShmTypeOK, Seated
<1> QED BY <1>1, <1>3, <1>4, <1>5, <1>6, <1>7

(* ftok: the key of the file there is now.                                 *)
LEMMA FtokKeeps == ASSUME ShmInv, NEW u \in Users, Ftok(u) PROVE ShmInv'
<1> USE DEF ShmInv, Away, NoFile, NoSegment, Free_, At, Go, Leave, Seats, Ftok
<1>1. ShmTypeOK'
  <2>1. disk \in Nat
    BY BuffRegistryAssumption DEF ShmTypeOK
  <2>2. user' \in [Users -> UserStates]
    BY <2>1 DEF ShmTypeOK, UserStates
  <2> QED BY <2>2 DEF ShmTypeOK
<1>2. Moves(u)
  BY DEF Moves, ShmTypeOK
<1>3. Seated'
  BY DEF Seated, ShmTypeOK
<1>4. StatesMean'
  BY DEF StatesMean, ShmTypeOK
<1>5. AttachedIsCounted'
  BY <1>2, CountKept DEF Seated, ShmTypeOK, IsIn, Inside, AttachedIsCounted
<1>6. SegmentHasTaker'
  BY <1>2 DEF SegmentHasTaker, Takers, Moves, ShmTypeOK, Seated
<1>7. FileHasOwner'
  BY <1>2 DEF FileHasOwner, OnTheWay, InLive, Moves, ShmTypeOK, Seated
<1> QED BY <1>1, <1>3, <1>4, <1>5, <1>6, <1>7

(* shmget fails: the file may have nobody from now on, and that is noted.  *)
LEMMA ShmgetFailsKeeps == ASSUME ShmInv, NEW u \in Users, ShmgetFails(u) PROVE ShmInv'
<1> USE DEF ShmInv, Away, NoFile, NoSegment, Free_, At, Go, Leave, Seats, ShmgetFails
<1>1. ShmTypeOK'
  BY BuffRegistryAssumption DEF ShmTypeOK, UserStates
<1>2. Moves(u)
  BY DEF Moves, ShmTypeOK
<1>3. Seated'
  BY DEF Seated, ShmTypeOK
<1>4. StatesMean'
  BY DEF StatesMean, ShmTypeOK
<1>5. AttachedIsCounted'
  BY <1>2, CountKept DEF Seated, ShmTypeOK, IsIn, Inside, AttachedIsCounted
<1>6. SegmentHasTaker'
  BY <1>2 DEF SegmentHasTaker, Takers, Moves, ShmTypeOK, Seated
<1>7. FileHasOwner'
  BY <1>2 DEF FileHasOwner, OnTheWay, InLive, Moves, ShmTypeOK, Seated
<1> QED BY <1>1, <1>3, <1>4, <1>5, <1>6, <1>7

(* IPC_STAT of CreateShareMemory changes nothing but the way of its caller. *)
LEMMA AloneKeeps == ASSUME ShmInv, NEW u \in Users, Alone(u) PROVE ShmInv'
<1> USE DEF ShmInv, Away, NoFile, NoSegment, Free_, At, Go, Leave, Seats, Alone
<1>1. ShmTypeOK'
  BY BuffRegistryAssumption DEF ShmTypeOK, UserStates
<1>2. Moves(u)
  BY DEF Moves, ShmTypeOK
<1>3. Seated'
  BY DEF Seated, ShmTypeOK
<1>4. StatesMean'
  BY DEF StatesMean, ShmTypeOK
<1>5. AttachedIsCounted'
  BY <1>2, CountKept DEF Seated, ShmTypeOK, IsIn, Inside, AttachedIsCounted
<1>6. SegmentHasTaker'
  BY <1>2 DEF SegmentHasTaker, Takers, Moves, ShmTypeOK, Seated
<1>7. FileHasOwner'
  BY <1>2 DEF FileHasOwner, OnTheWay, InLive, Moves, ShmTypeOK, Seated
<1> QED BY <1>1, <1>3, <1>4, <1>5, <1>6, <1>7

(* The memory is written by one that is attached to it.                    *)
LEMMA InitMemoryParamKeeps == ASSUME ShmInv, NEW u \in Users, InitMemoryParam(u) PROVE ShmInv'
<1> USE DEF ShmInv, At, Go, InitMemoryParam
<1> DEFINE s == user[u].seg
           r == [segment[s] EXCEPT !.ready = TRUE]
<1>a. s \in Segments /\ IsIn(u, s) /\ user[u] \in UserStates
  BY DEF Seated, Seats, IsIn, Inside, ShmTypeOK, UserStates, NoSegment
<1>b. segment[s] \in SegmentStates /\ segment[s].nattch > 0 /\ segment[s].state # "free"
  BY <1>a, InsideIsAttached
<1>c. segment' = [segment EXCEPT ![s] = r] /\ r \in SegmentStates
  BY <1>a, <1>b DEF ShmTypeOK, SegmentStates
<1>d. /\ segment' \in [Segments -> SegmentStates]
      /\ segment'[s] = r
      /\ \A t \in Segments : t # s => segment'[t] = segment[t]
  BY <1>a, <1>c, SegmentMoves
<1>e. \A t \in Segments : /\ segment'[t].nattch = segment[t].nattch /\ segment'[t].leaked = segment[t].leaked
                          /\ segment'[t].state = segment[t].state
  BY <1>b, <1>d DEF SegmentStates
<1>1. ShmTypeOK'
  BY <1>d DEF ShmTypeOK, UserStates, Seats
<1>2. Moves(u)
  BY DEF Moves, ShmTypeOK
<1>3. Seated'
  BY DEF Seated, ShmTypeOK, Seats, Away
<1>4. StatesMean'
  BY <1>b, <1>d, <1>e DEF StatesMean
<1>5. AttachedIsCounted'
  <2>1. \A t \in Segments : IsIn(u, t) <=> IsIn(u, t)'
    BY DEF ShmTypeOK, IsIn, Inside
  <2>2. \A t \in Segments : segment'[t].state = "free" => segment[t].nattch = 0
    BY <1>e DEF AttachedIsCounted
  <2> QED BY <1>2, <1>e, <2>1, <2>2, CountKept
<1>6. SegmentHasTaker'
  BY <1>2, <1>e DEF SegmentHasTaker, Takers, Moves
<1>7. FileHasOwner'
  BY <1>2, <1>e DEF FileHasOwner, OnTheWay, InLive, Moves, ShmTypeOK, Seated, Seats
<1> QED BY <1>1, <1>3, <1>4, <1>5, <1>6, <1>7

(* remove: there is no file any more.                                       *)
LEMMA UnlinkKeeps == ASSUME ShmInv, NEW u \in Users, Unlink(u) PROVE ShmInv'
<1> USE DEF ShmInv, Away, NoFile, NoSegment, Free_, At, Go, Leave, Seats, Unlink
<1>1. ShmTypeOK'
  BY BuffRegistryAssumption DEF ShmTypeOK, UserStates
<1>2. Moves(u)
  BY DEF Moves, ShmTypeOK
<1>3. Seated'
  BY DEF Seated, ShmTypeOK
<1>4. StatesMean'
  BY DEF StatesMean, ShmTypeOK
<1>5. AttachedIsCounted'
  BY <1>2, CountKept DEF Seated, ShmTypeOK, IsIn, Inside, AttachedIsCounted
<1>6. SegmentHasTaker'
  BY <1>2 DEF SegmentHasTaker, Takers, Moves, ShmTypeOK, Seated
<1>7. FileHasOwner'
  BY <1>2 DEF FileHasOwner, OnTheWay, InLive, Moves, ShmTypeOK, Seated
<1> QED BY <1>1, <1>3, <1>4, <1>5, <1>6, <1>7
(* shmget finds the segment of the key or makes one, which the caller is   *)
(* then about to attach to.                                                *)
LEMMA ShmgetKeeps == ASSUME ShmInv, NEW u \in Users, Shmget(u) PROVE ShmInv'
<1> USE DEF ShmInv, At
<1>0. user[u].at = "shmget" /\ user[u] \in UserStates
  BY DEF Shmget, ShmTypeOK
<1>1. PICK s \in Segments :
         /\ user' = [user EXCEPT ![u] = [at |-> "shmat", key |-> NoFile, seg |-> s]]
         /\ \/ s \in Bound(user[u].key) /\ segment' = segment
            \/ /\ segment[s].state = "free"
               /\ segment' = [segment EXCEPT ![s] = [Free_ EXCEPT !.state = "live", !.key = user[u].key]]
  BY DEF Shmget, Bound, Unused
<1>2. UNCHANGED <<disk, stray>> /\ Moves(u)
  BY <1>1 DEF Shmget, Moves, ShmTypeOK
<1>3. user'[u] = [at |-> "shmat", key |-> NoFile, seg |-> s] /\ user'[u] \in UserStates
  BY <1>1 DEF ShmTypeOK, UserStates, Seats, NoFile
<1>4. /\ segment' \in [Segments -> SegmentStates]
      /\ \A t \in Segments : /\ segment'[t].nattch = segment[t].nattch
                             /\ segment'[t].leaked = segment[t].leaked
                             /\ segment'[t].state = "free" => segment[t].state = "free"
                             /\ segment'[t].state = "doomed" => segment[t].state = "doomed"
                             /\ t # s => segment'[t] = segment[t]
      /\ segment'[s].state = "live"
  <2>1. CASE s \in Bound(user[u].key) /\ segment' = segment
    BY <2>1 DEF Bound, ShmTypeOK
  <2>2. CASE /\ segment[s].state = "free"
             /\ segment' = [segment EXCEPT ![s] = [Free_ EXCEPT !.state = "live", !.key = user[u].key]]
    <3> DEFINE r == [Free_ EXCEPT !.state = "live", !.key = user[u].key]
    <3>1. r \in SegmentStates /\ r.nattch = 0 /\ r.leaked = 0 /\ r.state = "live"
      BY <1>0 DEF UserStates, SegmentStates, Free_, NoFile
    <3>2. segment[s] = Free_
      BY <2>2 DEF StatesMean
    <3> HIDE DEF r
    <3>3. /\ segment' \in [Segments -> SegmentStates]
          /\ segment'[s] = r
          /\ \A t \in Segments : t # s => segment'[t] = segment[t]
      BY <2>2, <3>1, SegmentMoves DEF r
    <3> QED BY <3>1, <3>2, <3>3 DEF Free_
  <2> QED BY <1>1, <2>1, <2>2
<1>5. ShmTypeOK'
  BY <1>1, <1>2, <1>3, <1>4 DEF ShmTypeOK
<1>6. Seated'
  BY <1>2, <1>3, BuffRegistryAssumption DEF Seated, Seats, Moves, NoSegment
<1>7. StatesMean'
  <2> SUFFICES ASSUME NEW t \in Segments
               PROVE  /\ segment'[t].state = "free" => segment'[t] = Free_
                      /\ segment'[t].state = "doomed" => segment'[t].nattch > 0
    BY DEF StatesMean
  <2> QED BY <1>4 DEF StatesMean
<1>8. AttachedIsCounted'
  <2>1. \A t \in Segments : IsIn(u, t) <=> IsIn(u, t)'
    BY <1>0, <1>3 DEF IsIn, Inside
  <2>2. \A t \in Segments : segment'[t].state = "free" => segment[t].nattch = 0
    BY <1>4 DEF AttachedIsCounted
  <2> QED BY <1>2, <1>4, <2>1, <2>2, CountKept
<1>9. SegmentHasTaker'
  <2> SUFFICES ASSUME NEW t \in Segments, segment'[t].state = "live", segment'[t].nattch = 0
               PROVE  \E v \in Users : user'[v].seg = t /\ user'[v].at \in Takers
    BY DEF SegmentHasTaker
  <2>1. CASE t = s
    BY <2>1, <1>3 DEF Takers
  <2>2. CASE t # s
    <3>1. PICK v \in Users : user[v].seg = t /\ user[v].at \in Takers
      BY <2>2, <1>4 DEF SegmentHasTaker
    <3>2. v # u
      BY <3>1, <1>0 DEF Takers
    <3> QED BY <3>1, <3>2, <1>2 DEF Moves
  <2> QED BY <2>1, <2>2
<1>10. FileHasOwner'
  BY <1>3, <1>4 DEF FileHasOwner, InLive, Seats
<1> QED BY <1>5, <1>6, <1>7, <1>8, <1>9, <1>10

(* shmat: one attachment more, or the segment is gone and the caller too.  *)
LEMMA ShmatKeeps == ASSUME ShmInv, NEW u \in Users, Shmat(u) PROVE ShmInv'
<1> USE DEF ShmInv, At
<1> DEFINE s == user[u].seg
<1>0. user[u].at = "shmat" /\ user[u] \in UserStates /\ s \in Segments /\ segment[s] \in SegmentStates
  BY DEF Shmat, ShmTypeOK, Seated, Seats, UserStates, NoSegment
<1>1. CASE segment[s].state = "free"
  <2> USE <1>0, <1>1 DEF Shmat, Leave, Away, NoFile, NoSegment
  <2>1. ShmTypeOK'
    BY DEF ShmTypeOK, UserStates
  <2>2. Moves(u) /\ user'[u] = Away
    BY DEF Moves, ShmTypeOK
  <2>3. Seated'
    BY <2>2 DEF Seated, Moves, Seats
  <2>4. StatesMean'
    BY DEF StatesMean
  <2>5. AttachedIsCounted'
    <3>1. \A t \in Segments : IsIn(u, t) <=> IsIn(u, t)'
      BY <2>2 DEF IsIn, Inside
    <3> QED BY <2>2, <3>1, CountKept DEF AttachedIsCounted
  <2>6. SegmentHasTaker'
    BY <2>2 DEF SegmentHasTaker, Moves
  <2>7. FileHasOwner'
    BY <2>2 DEF FileHasOwner, OnTheWay, InLive, Moves
  <2> QED BY <2>1, <2>3, <2>4, <2>5, <2>6, <2>7
<1>2. CASE segment[s].state # "free"
  <2> DEFINE r == [segment[s] EXCEPT !.nattch = @ + 1]
  <2>1. segment' = [segment EXCEPT ![s] = r] /\ user' = [user EXCEPT ![u].at = "alone"]
    BY <1>2 DEF Shmat, Go
  <2>2. r \in SegmentStates /\ r.nattch = segment[s].nattch + 1 /\ r.leaked = segment[s].leaked
           /\ r.state = segment[s].state
    BY <1>0 DEF SegmentStates
  <2> HIDE DEF r
  <2>3. /\ segment' \in [Segments -> SegmentStates]
        /\ segment'[s] = r
        /\ \A t \in Segments : t # s => segment'[t] = segment[t]
    BY <1>0, <2>1, <2>2, SegmentMoves
  <2>4. Moves(u) /\ user'[u].at = "alone" /\ user'[u].seg = s /\ user' \in [Users -> UserStates]
    BY <1>0, <2>1 DEF Moves, ShmTypeOK, UserStates, Seats
  <2>5. ShmTypeOK' /\ UNCHANGED <<disk, stray>>
    BY <2>3, <2>4 DEF ShmTypeOK, Shmat
  <2>6. Seated'
    BY <1>0, <2>4 DEF Seated, Moves, Seats
  <2>7. StatesMean'
    BY <1>0, <1>2, <2>2, <2>3 DEF StatesMean, SegmentStates
  <2>8. AttachedIsCounted'
    <3> SUFFICES ASSUME NEW t \in Segments
                 PROVE  InsideIs(t)' /\ (segment'[t].state = "free" => segment'[t].nattch = 0)
      BY CountMeans
    <3>0. InsideIs(t) /\ (segment[t].state = "free" => segment[t].nattch = 0) /\ segment[t] \in SegmentStates
      BY CountMeans DEF ShmTypeOK
    <3>1. CASE t = s
      <4>1. ~IsIn(u, t) /\ IsIn(u, t)'
        BY <3>1, <1>0, <2>4 DEF IsIn, Inside
      <4>2. Cardinality(InsideOf(t)') = Cardinality(InsideOf(t)) + 1 /\ Cardinality(InsideOf(t)) \in Nat
        BY <4>1, <2>4, InsideChanges
      <4> QED BY <3>0, <3>1, <4>2, <2>2, <2>3, <1>2 DEF InsideIs, SegmentStates
    <3>2. CASE t # s
      <4>1. InsideOf(t)' = InsideOf(t)
        BY <3>2, <1>0, <2>4, InsideChanges DEF IsIn
      <4> QED BY <3>0, <3>2, <4>1, <2>3 DEF InsideIs
    <3> QED BY <3>1, <3>2
  <2>9. SegmentHasTaker'
    <3> SUFFICES ASSUME NEW t \in Segments, segment'[t].state = "live", segment'[t].nattch = 0
                 PROVE  \E v \in Users : user'[v].seg = t /\ user'[v].at \in Takers
      BY DEF SegmentHasTaker
    <3>1. t # s
      BY <2>2, <2>3, <1>0 DEF SegmentStates
    <3>2. PICK v \in Users : user[v].seg = t /\ user[v].at \in Takers
      BY <3>1, <2>3 DEF SegmentHasTaker
    <3> QED BY <3>1, <3>2, <2>4 DEF Moves
  <2>10. FileHasOwner'
    BY <1>0, <2>2, <2>3, <2>4, <2>5 DEF FileHasOwner, OnTheWay, InLive, Moves, Seats, Seated, ShmTypeOK, UserStates
  <2> QED BY <2>5, <2>6, <2>7, <2>8, <2>9, <2>10
<1> QED BY <1>1, <1>2

(* CreateStreamBuff counts its caller, or refuses it and leaves its        *)
(* attachment behind.                                                      *)
LEMMA CountKeeps == ASSUME ShmInv, NEW u \in Users, Count(u) PROVE ShmInv'
<1> USE DEF ShmInv, At
<1> DEFINE s == user[u].seg
<1>0. user[u].at = "count" /\ user[u] \in UserStates /\ s \in Segments /\ IsIn(u, s)
  BY DEF Count, ShmTypeOK, Seated, Seats, UserStates, NoSegment, IsIn, Inside
<1>1. /\ segment[s] \in SegmentStates
      /\ segment[s].nattch > 0 /\ segment[s].state # "free"
      /\ segment[s].nattch > segment[s].leaked
  BY <1>0, InsideIsAttached
<1>2. CASE Go(u, "using") /\ UNCHANGED segment
  <2>1. Moves(u) /\ user'[u].at = "using" /\ user'[u].seg = s /\ user' \in [Users -> UserStates]
    BY <1>0, <1>2 DEF Moves, ShmTypeOK, UserStates, Seats, Go
  <2>2. ShmTypeOK' /\ UNCHANGED <<disk, stray, segment>>
    BY <1>2, <2>1 DEF ShmTypeOK, Count
  <2>3. Seated' /\ StatesMean'
    BY <1>0, <2>1, <2>2 DEF Seated, Moves, Seats, StatesMean
  <2>4. AttachedIsCounted'
    <3>1. \A t \in Segments : IsIn(u, t) <=> IsIn(u, t)'
      BY <1>0, <2>1 DEF IsIn, Inside
    <3> QED BY <2>1, <2>2, <3>1, CountKept DEF AttachedIsCounted
  <2>5. SegmentHasTaker'
    BY <1>0, <2>1, <2>2 DEF SegmentHasTaker, Takers, Moves
  <2>6. FileHasOwner'
    BY <1>0, <2>1, <2>2 DEF FileHasOwner, OnTheWay, InLive, Moves, Seats
  <2> QED BY <2>2, <2>3, <2>4, <2>5, <2>6
<1>3. CASE Leave(u) /\ segment' = [segment EXCEPT ![user[u].seg].leaked = @ + 1]
  <2> DEFINE r == [segment[s] EXCEPT !.leaked = @ + 1]
  <2>1. segment' = [segment EXCEPT ![s] = r]
    BY <1>3
  <2>2. r \in SegmentStates /\ r.nattch = segment[s].nattch /\ r.leaked = segment[s].leaked + 1
           /\ r.state = segment[s].state
    BY <1>1 DEF SegmentStates
  <2> HIDE DEF r
  <2>3. /\ segment' \in [Segments -> SegmentStates]
        /\ segment'[s] = r
        /\ \A t \in Segments : t # s => segment'[t] = segment[t]
    BY <1>0, <2>1, <2>2, SegmentMoves
  <2>4. Moves(u) /\ user'[u] = Away /\ user' \in [Users -> UserStates]
    BY <1>0, <1>3 DEF Moves, ShmTypeOK, UserStates, Leave, Away, NoFile, NoSegment
  <2>5. ShmTypeOK'
    BY <2>3, <2>4 DEF ShmTypeOK, Count
  <2>6. Seated'
    BY <2>4 DEF Seated, Moves, Seats, Away
  <2>7. StatesMean'
    BY <1>1, <2>2, <2>3 DEF StatesMean
  <2>8. AttachedIsCounted'
    <3> SUFFICES ASSUME NEW t \in Segments
                 PROVE  InsideIs(t)' /\ (segment'[t].state = "free" => segment'[t].nattch = 0)
      BY CountMeans
    <3>0. InsideIs(t) /\ (segment[t].state = "free" => segment[t].nattch = 0)
      BY CountMeans
    <3>1. CASE t = s
      <4>1. IsIn(u, t) /\ ~IsIn(u, t)'
        BY <3>1, <1>0, <2>4 DEF IsIn, Inside, Away
      <4>2. Cardinality(InsideOf(t)') = Cardinality(InsideOf(t)) - 1 /\ Cardinality(InsideOf(t)) \in Nat
        BY <4>1, <2>4, InsideChanges
      <4> QED BY <3>0, <3>1, <4>2, <2>2, <2>3, <1>1 DEF InsideIs, SegmentStates
    <3>2. CASE t # s
      <4>1. InsideOf(t)' = InsideOf(t)
        BY <3>2, <1>0, <2>4, InsideChanges DEF IsIn, Away, Inside
      <4> QED BY <3>0, <3>2, <4>1, <2>3 DEF InsideIs
    <3> QED BY <3>1, <3>2
  <2>9. SegmentHasTaker'
    <3> SUFFICES ASSUME NEW t \in Segments, segment'[t].state = "live", segment'[t].nattch = 0
                 PROVE  \E v \in Users : user'[v].seg = t /\ user'[v].at \in Takers
      BY DEF SegmentHasTaker
    <3>1. t # s
      BY <2>2, <2>3, <1>1 DEF SegmentStates
    <3>2. PICK v \in Users : user[v].seg = t /\ user[v].at \in Takers
      BY <3>1, <2>3 DEF SegmentHasTaker
    <3> QED BY <3>1, <3>2, <2>4 DEF Moves
  <2>10. FileHasOwner'
    <3>1. segment'[s].leaked > 0
      BY <1>1, <2>2, <2>3 DEF SegmentStates
    <3> QED BY <1>0, <3>1 DEF FileHasOwner
  <2> QED BY <2>5, <2>6, <2>7, <2>8, <2>9, <2>10
<1> QED BY <1>2, <1>3 DEF Count

(* shmdt: one attachment less; who left looks next whether it was the last *)
(* one, and a doomed segment goes with its last user.                      *)
LEMMA ShmdtKeeps == ASSUME ShmInv, NEW u \in Users, Shmdt(u) PROVE ShmInv'
<1> USE DEF ShmInv, At
<1> DEFINE s == user[u].seg
           r == Detached(s)
<1>0. user[u].at = "using" /\ user[u] \in UserStates /\ s \in Segments /\ IsIn(u, s)
  BY DEF Shmdt, ShmTypeOK, Seated, Seats, UserStates, NoSegment, IsIn, Inside
<1>1. /\ segment[s] \in SegmentStates
      /\ segment[s].nattch > 0 /\ segment[s].state # "free"
      /\ segment[s].nattch > segment[s].leaked
  BY <1>0, InsideIsAttached
<1>2. segment' = [segment EXCEPT ![s] = r] /\ UNCHANGED <<disk, stray>>
  BY DEF Shmdt
<1>3. /\ r \in SegmentStates
      /\ r.nattch = segment[s].nattch - 1 /\ r.leaked = segment[s].leaked
      /\ \/ r = Free_ /\ segment[s].state = "doomed"
         \/ r.state = segment[s].state /\ (r.state = "doomed" => r.nattch > 0)
  <2>1. CASE segment[s].nattch = 1 /\ segment[s].state = "doomed"
    BY <1>1, <2>1 DEF Detached, Free_, SegmentStates, NoFile
  <2>2. CASE ~(segment[s].nattch = 1 /\ segment[s].state = "doomed")
    BY <1>1, <2>2 DEF Detached, SegmentStates
  <2> QED BY <2>1, <2>2
<1> HIDE DEF r
<1>4. /\ segment' \in [Segments -> SegmentStates]
      /\ segment'[s] = r
      /\ \A t \in Segments : t # s => segment'[t] = segment[t]
  BY <1>0, <1>2, <1>3, SegmentMoves
<1>5. Moves(u) /\ user'[u].at = "last" /\ user'[u].seg = s /\ user' \in [Users -> UserStates]
  BY <1>0 DEF Shmdt, Go, Moves, ShmTypeOK, UserStates, Seats
<1>6. ShmTypeOK'
  BY <1>2, <1>4, <1>5 DEF ShmTypeOK
<1>7. Seated'
  BY <1>0, <1>5 DEF Seated, Moves, Seats
<1>8. StatesMean'
  BY <1>1, <1>3, <1>4 DEF StatesMean, Free_
<1>9. AttachedIsCounted'
  <2> SUFFICES ASSUME NEW t \in Segments
               PROVE  InsideIs(t)' /\ (segment'[t].state = "free" => segment'[t].nattch = 0)
    BY CountMeans
  <2>0. InsideIs(t) /\ (segment[t].state = "free" => segment[t].nattch = 0)
    BY CountMeans
  <2>1. CASE t = s
    <3>1. IsIn(u, t) /\ ~IsIn(u, t)'
      BY <2>1, <1>0, <1>5 DEF IsIn, Inside
    <3>2. Cardinality(InsideOf(t)') = Cardinality(InsideOf(t)) - 1 /\ Cardinality(InsideOf(t)) \in Nat
      BY <3>1, <1>5, InsideChanges
    <3>3. segment'[t].state = "free" => segment'[t].nattch = 0
      BY <1>1, <1>3, <1>4, <2>1 DEF Free_
    <3> QED BY <2>0, <2>1, <3>2, <3>3, <1>1, <1>3, <1>4 DEF InsideIs, SegmentStates
  <2>2. CASE t # s
    <3>1. InsideOf(t)' = InsideOf(t)
      BY <2>2, <1>0, <1>5, InsideChanges DEF IsIn
    <3> QED BY <2>0, <2>2, <3>1, <1>4 DEF InsideIs
  <2> QED BY <2>1, <2>2
<1>10. SegmentHasTaker'
  <2> SUFFICES ASSUME NEW t \in Segments, segment'[t].state = "live", segment'[t].nattch = 0
               PROVE  \E v \in Users : user'[v].seg = t /\ user'[v].at \in Takers
    BY DEF SegmentHasTaker
  <2>1. CASE t = s
    BY <2>1, <1>5 DEF Takers
  <2>2. CASE t # s
    <3>1. PICK v \in Users : user[v].seg = t /\ user[v].at \in Takers
      BY <2>2, <1>4 DEF SegmentHasTaker
    <3> QED BY <3>1, <2>2, <1>5 DEF Moves
  <2> QED BY <2>1, <2>2
<1>11. FileHasOwner'
  BY <1>0, <1>2, <1>3, <1>4, <1>5 DEF FileHasOwner, OnTheWay, InLive, Moves, Seats, Seated, ShmTypeOK, UserStates
<1> QED BY <1>6, <1>7, <1>8, <1>9, <1>10, <1>11

(* IPC_STAT of DeleteShareMemory: who sees that others are attached leaves *)
(* segment and file to them; they, or the writers refused, are there.      *)
LEMMA LastOutKeeps == ASSUME ShmInv, NEW u \in Users, LastOut(u) PROVE ShmInv'
<1> USE DEF ShmInv, At
<1> DEFINE s == user[u].seg
<1>0. user[u].at = "last" /\ user[u] \in UserStates /\ s \in Segments /\ segment[s] \in SegmentStates
  BY DEF LastOut, ShmTypeOK, Seated, Seats, UserStates, NoSegment
<1>1. UNCHANGED <<disk, stray, segment>>
  BY DEF LastOut
<1>2. Moves(u) /\ user'[u] \in UserStates /\ user' \in [Users -> UserStates]
  BY <1>0 DEF LastOut, Go, Leave, Moves, ShmTypeOK, UserStates, Seats, Away, NoFile, NoSegment
<1>3. \/ user'[u].at = "rmid" /\ user'[u].seg = s
      \/ user'[u] = Away /\ (segment[s].state = "free" \/ segment[s].nattch # 0)
  BY <1>0 DEF LastOut, Go, Leave, ShmTypeOK, UserStates, NobodyLeft
<1>4. ShmTypeOK'
  BY <1>1, <1>2 DEF ShmTypeOK
<1>5. Seated' /\ StatesMean'
  BY <1>0, <1>1, <1>2, <1>3 DEF Seated, Moves, Seats, StatesMean, Away
<1>6. AttachedIsCounted'
  <2>1. \A t \in Segments : IsIn(u, t) <=> IsIn(u, t)'
    BY <1>0, <1>3 DEF IsIn, Inside, Away
  <2> QED BY <1>1, <1>2, <2>1, CountKept DEF AttachedIsCounted
<1>7. SegmentHasTaker'
  BY <1>0, <1>1, <1>2, <1>3 DEF SegmentHasTaker, Takers, Moves
<1>8. FileHasOwner'
  <2>1. CASE user'[u].at = "rmid"
    BY <2>1 DEF FileHasOwner, OnTheWay
  <2>2. CASE user'[u] = Away /\ segment[s].state = "live" /\ segment[s].nattch # 0
    <3>1. CASE segment[s].leaked > 0
      BY <3>1, <1>0, <1>1 DEF FileHasOwner
    <3>2. CASE segment[s].leaked = 0
      <4>1. InsideOf(s) # {}
        <5>1. segment[s].nattch = segment[s].leaked + Cardinality(InsideOf(s))
          BY <1>0, CountMeans DEF InsideIs
        <5>2. Cardinality({}) = 0
          BY FS_EmptySet
        <5> QED BY <2>2, <3>2, <5>1, <5>2
      <4>2. PICK v \in Users : user[v].seg = s /\ user[v].at \in Inside
        BY <4>1 DEF InsideOf
      <4>3. v # u /\ InLive(v)'
        BY <4>2, <2>2, <1>0, <1>1, <1>2 DEF Inside, Moves, InLive, Seats
      <4> QED BY <4>3 DEF FileHasOwner
    <3> QED BY <3>1, <3>2, <1>0 DEF SegmentStates
  <2>3. CASE user'[u] = Away /\ segment[s].state # "live"
    BY <1>0, <1>1, <1>2, <2>3 DEF FileHasOwner, OnTheWay, InLive, Moves
  <2> QED BY <2>1, <2>2, <2>3, <1>0, <1>3 DEF SegmentStates
<1> QED BY <1>4, <1>5, <1>6, <1>7, <1>8

(* IPC_RMID: the segment goes at once, or with its last user; the caller   *)
(* is about to remove the file.                                            *)
LEMMA RmidKeeps == ASSUME ShmInv, NEW u \in Users, Rmid(u) PROVE ShmInv'
<1> USE DEF ShmInv, At
<1> DEFINE s == user[u].seg
           r == IF segment[s].nattch = 0 THEN Free_ ELSE [segment[s] EXCEPT !.state = "doomed"]
<1>0. user[u].at = "rmid" /\ user[u] \in UserStates /\ s \in Segments /\ segment[s] \in SegmentStates
  BY DEF Rmid, ShmTypeOK, Seated, Seats, UserStates, NoSegment
<1>1. segment' = [segment EXCEPT ![s] = r] /\ UNCHANGED <<disk, stray>>
  BY <1>0 DEF Rmid, ShmTypeOK
<1>2. segment[s].nattch >= segment[s].leaked
  <2>1. segment[s].nattch = segment[s].leaked + Cardinality(InsideOf(s))
    BY <1>0, CountMeans DEF InsideIs
  <2>2. Cardinality(InsideOf(s)) \in Nat
    BY InsideCounts DEF InsideOf
  <2> QED BY <2>1, <2>2, <1>0 DEF SegmentStates
<1>3. /\ r \in SegmentStates /\ r.nattch = segment[s].nattch /\ r.leaked = segment[s].leaked
      /\ r.state # "live"
      /\ r.state = "free" => r = Free_ /\ r.nattch = 0
      /\ r.state = "doomed" => r.nattch > 0
  <2>1. CASE segment[s].nattch = 0
    BY <1>0, <1>2, <2>1 DEF Free_, SegmentStates, NoFile
  <2>2. CASE segment[s].nattch # 0
    BY <1>0, <2>2 DEF SegmentStates
  <2> QED BY <2>1, <2>2
<1> HIDE DEF r
<1>4. /\ segment' \in [Segments -> SegmentStates]
      /\ segment'[s] = r
      /\ \A t \in Segments : t # s => segment'[t] = segment[t]
  BY <1>0, <1>1, <1>3, SegmentMoves
<1>5. Moves(u) /\ user'[u].at = "remove" /\ user'[u].seg = s /\ user' \in [Users -> UserStates]
  BY <1>0 DEF Rmid, Go, Moves, ShmTypeOK, UserStates, Seats
<1>6. ShmTypeOK'
  BY <1>1, <1>4, <1>5 DEF ShmTypeOK
<1>7. Seated' /\ StatesMean'
  BY <1>0, <1>3, <1>4, <1>5 DEF Seated, Moves, Seats, StatesMean
<1>8. AttachedIsCounted'
  <2>1. \A t \in Segments : IsIn(u, t) <=> IsIn(u, t)'
    BY <1>0, <1>5 DEF IsIn, Inside
  <2>2. \A t \in Segments : /\ segment'[t].nattch = segment[t].nattch
                            /\ segment'[t].leaked = segment[t].leaked
                            /\ segment'[t].state = "free" => segment[t].nattch = 0
    BY <1>3, <1>4 DEF AttachedIsCounted
  <2> QED BY <1>5, <2>1, <2>2, CountKept
<1>9. SegmentHasTaker'
  <2> SUFFICES ASSUME NEW t \in Segments, segment'[t].state = "live", segment'[t].nattch = 0
               PROVE  \E v \in Users : user'[v].seg = t /\ user'[v].at \in Takers
    BY DEF SegmentHasTaker
  <2>1. t # s /\ segment'[t] = segment[t]
    BY <1>3, <1>4
  <2>2. PICK v \in Users : user[v].seg = t /\ user[v].at \in Takers
    BY <2>1 DEF SegmentHasTaker
  <2> QED BY <2>1, <2>2, <1>5 DEF Moves
<1>10. FileHasOwner'
  BY <1>5 DEF FileHasOwner, OnTheWay
<1> QED BY <1>6, <1>7, <1>8, <1>9, <1>10
-----------------------------------------------------------------------------
(* Every step of every user keeps the invariant.                           *)
LEMMA ShmInvNext == ShmInv /\ [ShmNext]_shmVars => ShmInv'
<1> SUFFICES ASSUME ShmInv, [ShmNext]_shmVars PROVE ShmInv'
  OBVIOUS
<1>1. CASE UNCHANGED shmVars
  BY <1>1 DEF shmVars, ShmInv, ShmTypeOK, Seated, StatesMean, AttachedIsCounted, SegmentHasTaker,
              FileHasOwner, InLive
<1>2. ASSUME NEW u \in Users,
             \/ Open(u) \/ Ftok(u) \/ Shmget(u) \/ ShmgetFails(u) \/ Shmat(u) \/ Alone(u)
             \/ InitMemoryParam(u) \/ Count(u) \/ Shmdt(u) \/ LastOut(u) \/ Rmid(u) \/ Unlink(u)
      PROVE  ShmInv'
  BY <1>2, OpenKeeps, FtokKeeps, ShmgetKeeps, ShmgetFailsKeeps, ShmatKeeps, AloneKeeps,
     InitMemoryParamKeeps, CountKeeps, ShmdtKeeps, LastOutKeeps, RmidKeeps, UnlinkKeeps
<1> QED BY <1>1, <1>2 DEF ShmNext

(* With nobody there nothing has a taker or an owner, so there is nothing. *)
LEMMA ShmInvMeans == ShmInv => MemoryIsShared
<1> SUFFICES ASSUME ShmInv,
                    \A u \in Users : user[u] = Away,
                    \A s \in Segments : segment[s].leaked = 0
             PROVE  (disk = NoFile \/ stray) /\ \A s \in Segments : segment[s] = Free_
  BY DEF MemoryIsShared, NothingLeft, ShmInv
<1>1. disk = NoFile \/ stray
  BY DEF ShmInv, FileHasOwner, OnTheWay, InLive, Seats, Away
<1>2. ASSUME NEW s \in Segments PROVE segment[s] = Free_
  <2>1. InsideOf(s) = {}
    BY DEF InsideOf, Inside, Away
  <2>2. segment[s].nattch = 0
    BY <2>1, FS_EmptySet, CountMeans DEF ShmInv, InsideIs
  <2>3. segment[s].state # "live"
    BY <2>2 DEF ShmInv, SegmentHasTaker, Takers, Away
  <2> QED BY <2>2, <2>3 DEF ShmInv, ShmTypeOK, SegmentStates, StatesMean
<1> QED BY <1>1, <1>2

(***************************************************************************)
(* CreateShareMemory and DeleteShareMemory: for any number of users, keys  *)
(* and segments and any order of their system calls, nobody uses memory    *)
(* that was taken away, and nothing is left when all are gone.             *)
(***************************************************************************)
THEOREM SharedMemoryIsReturned == ShmSpec => []MemoryIsShared
BY ShmInvInit, ShmInvNext, ShmInvMeans, PTL DEF ShmSpec
=============================================================================
