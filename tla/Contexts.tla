------------------------------ MODULE Contexts ------------------------------
(***************************************************************************)
(* The objects of mgw-core: the intrusive list every device, stream,       *)
(* output and service is linked into (mgw.c) and its count of references   *)
(* (mgw-internal.h, and the create, addref, get_ref and release functions  *)
(* of each kind of object, which are the same up to their names).          *)
(*                                                                         *)
(* A list has a mutex; what is done while it is held is one step.  Counts  *)
(* are changed by atomic operations outside of it.                         *)
(***************************************************************************)
EXTENDS Integers, FiniteSets

CONSTANTS
    Nodes,      \* the memory objects may be allocated in
    Names,      \* the names they are given
    Owners,     \* those who may hold a reference, one each
    Null        \* the null pointer

ListHead == "head"      \* &mgw->data.devices_list, or that of another list

ASSUME ContextsAssumption ==
    /\ IsFiniteSet(Owners)
    /\ Null \notin Nodes /\ ListHead \notin Nodes \cup {Null}

Unused == [name |-> Null, is_private |-> FALSE, used |-> FALSE]

VARIABLES
    first,      \* *ListHead
    next,       \* next[n]: context->next
    prev_next,  \* prev_next[n]: what context->prev_next points at
    mutex,      \* mutex[n]: whether context->mutex is set
    obj,        \* obj[n]: name, privacy and whether the memory is in use
    refs,       \* refs[n]: control->refs, one less than the references
    own,        \* own[o]: what o holds a reference to, or is destroying
    at          \* at[o]: "idle", "owner", or the next step of a destruction

vars == <<first, next, prev_next, mutex, obj, refs, own, at>>

TypeOK ==
    /\ first \in Nodes \cup {Null}
    /\ next \in [Nodes -> Nodes \cup {Null}]
    /\ prev_next \in [Nodes -> Nodes \cup {Null, ListHead}]
    /\ mutex \in [Nodes -> BOOLEAN]
    /\ obj \in [Nodes -> [name : Names \cup {Null}, is_private : BOOLEAN, used : BOOLEAN]]
    /\ refs \in [Nodes -> Int]
    /\ own \in [Owners -> Nodes \cup {Null}]
    /\ at \in [Owners -> {"idle", "owner", "remove", "free"}]

Init ==
    /\ first = Null
    /\ next = [n \in Nodes |-> Null]
    /\ prev_next = [n \in Nodes |-> Null]
    /\ mutex = [n \in Nodes |-> FALSE]
    /\ obj = [n \in Nodes |-> Unused]
    /\ refs = [n \in Nodes |-> -1]
    /\ own = [o \in Owners |-> Null]
    /\ at = [o \in Owners |-> "idle"]

----------------------------------------------------------------------------
(***************************************************************************)
(* mgw_context_data_init, a count that starts at 0, and                    *)
(* mgw_context_data_insert.  The first owner is who calls it.              *)
(***************************************************************************)
context_data_insert_Drops(n) ==
    /\ mutex' = [mutex EXCEPT ![n] = TRUE]
    /\ first' = n
    /\ next' = [next EXCEPT ![n] = Null]
    /\ prev_next' = [prev_next EXCEPT ![n] = ListHead]

context_data_insert(n) ==
    /\ mutex' = [mutex EXCEPT ![n] = TRUE]
    /\ first' = n
    /\ next' = [next EXCEPT ![n] = first]
    /\ prev_next' = [m \in Nodes |-> IF m = n THEN ListHead ELSE IF m = first THEN n ELSE prev_next[m]]

Create(o, n, name, is_private) ==
    /\ at[o] = "idle" /\ ~obj[n].used
    /\ obj' = [obj EXCEPT ![n] = [name |-> name, is_private |-> is_private, used |-> TRUE]]
    /\ refs' = [refs EXCEPT ![n] = 0]
    /\ context_data_insert(n)
    /\ own' = [own EXCEPT ![o] = n]
    /\ at' = [at EXCEPT ![o] = "owner"]

(***************************************************************************)
(* get_context_by_name with an addref: the first object from the front     *)
(* that is public and has the name.  When its count is already -1 the      *)
(* answer is NULL, whatever comes after it in the list.                    *)
(***************************************************************************)
Step[k \in Nat] == IF k = 0 THEN first ELSE
                   IF Step[k - 1] = Null THEN Null ELSE next[Step[k - 1]]

Matches(n, name) == n # Null /\ ~obj[n].is_private /\ obj[n].name = name

Found(n, name) ==
    \E k \in 0 .. Cardinality(Nodes) - 1 :
        /\ Step[k] = n /\ Matches(n, name)
        /\ \A j \in 0 .. k - 1 : ~Matches(Step[j], name)

mgw_get_ref_Blind(n) == TRUE

mgw_get_ref(n) == refs[n] > -1

Lookup(o, name) ==
    /\ at[o] = "idle"
    /\ \E n \in Nodes :
          /\ Found(n, name) /\ mgw_get_ref(n)
          /\ refs' = [refs EXCEPT ![n] = @ + 1]
          /\ own' = [own EXCEPT ![o] = n]
    /\ at' = [at EXCEPT ![o] = "owner"]
    /\ UNCHANGED <<first, next, prev_next, mutex, obj>>

(***************************************************************************)
(* mgw_..._addref and get_ref, by one who owns the object, for another.    *)
(***************************************************************************)
AddRef(o, p) ==
    /\ at[o] = "owner" /\ at[p] = "idle"
    /\ refs' = [refs EXCEPT ![own[o]] = @ + 1]
    /\ own' = [own EXCEPT ![p] = own[o]]
    /\ at' = [at EXCEPT ![p] = "owner"]
    /\ UNCHANGED <<first, next, prev_next, mutex, obj>>

(***************************************************************************)
(* mgw_context_data_setname.                                               *)
(***************************************************************************)
SetName(o, name) ==
    /\ at[o] = "owner"
    /\ obj' = [obj EXCEPT ![own[o]].name = name]
    /\ UNCHANGED <<first, next, prev_next, mutex, refs, own, at>>

(***************************************************************************)
(* mgw_..._release: who brings the count to -1 destroys the object.        *)
(***************************************************************************)
Release_Last(o) ==
    /\ at[o] = "owner"
    /\ refs' = [refs EXCEPT ![own[o]] = @ - 1]
    /\ IF refs[own[o]] <= 1
       THEN at' = [at EXCEPT ![o] = "remove"] /\ UNCHANGED own
       ELSE at' = [at EXCEPT ![o] = "idle"] /\ own' = [own EXCEPT ![o] = Null]
    /\ UNCHANGED <<first, next, prev_next, mutex, obj>>

Release(o) ==
    /\ at[o] = "owner"
    /\ refs' = [refs EXCEPT ![own[o]] = @ - 1]
    /\ IF refs[own[o]] = 0
       THEN at' = [at EXCEPT ![o] = "remove"] /\ UNCHANGED own
       ELSE at' = [at EXCEPT ![o] = "idle"] /\ own' = [own EXCEPT ![o] = Null]
    /\ UNCHANGED <<first, next, prev_next, mutex, obj>>

(***************************************************************************)
(* mgw_context_data_remove, in the destruction.                            *)
(***************************************************************************)
context_data_remove_Dangles(n) ==
    /\ first' = IF prev_next[n] = ListHead THEN next[n] ELSE first
    /\ next' = [m \in Nodes |-> IF prev_next[n] = m THEN next[n] ELSE next[m]]
    /\ UNCHANGED prev_next

context_data_remove(n) ==
    /\ first' = IF prev_next[n] = ListHead THEN next[n] ELSE first
    /\ next' = [m \in Nodes |-> IF prev_next[n] = m THEN next[n] ELSE next[m]]
    /\ prev_next' = [m \in Nodes |-> IF next[n] = m THEN prev_next[n] ELSE prev_next[m]]

TakeOut(o) ==
    /\ at[o] = "remove"
    /\ IF mutex[own[o]] THEN context_data_remove(own[o])
                        ELSE UNCHANGED <<first, next, prev_next>>
    /\ mutex' = [mutex EXCEPT ![own[o]] = FALSE]
    /\ at' = [at EXCEPT ![o] = "free"]
    /\ UNCHANGED <<obj, refs, own>>

(***************************************************************************)
(* The rest of mgw_context_data_free clears the context; then the memory   *)
(* goes.                                                                   *)
(***************************************************************************)
Free(o) ==
    /\ at[o] = "free"
    /\ obj' = [obj EXCEPT ![own[o]] = Unused]
    /\ next' = [next EXCEPT ![own[o]] = Null]
    /\ prev_next' = [prev_next EXCEPT ![own[o]] = Null]
    /\ own' = [own EXCEPT ![o] = Null]
    /\ at' = [at EXCEPT ![o] = "idle"]
    /\ UNCHANGED <<first, mutex, refs>>

OwnerStep(o) ==
    \/ \E n \in Nodes, name \in Names, is_private \in BOOLEAN : Create(o, n, name, is_private)
    \/ \E name \in Names : Lookup(o, name) \/ SetName(o, name)
    \/ \E p \in Owners : AddRef(o, p)
    \/ Release(o) \/ TakeOut(o) \/ Free(o)

Next == \E o \in Owners : OwnerStep(o)

Spec == Init /\ [][Next]_vars

----------------------------------------------------------------------------
(***************************************************************************)
(* A reference keeps its object: what an owner holds is allocated, and the *)
(* count is one less than the number of owners, so that a name found while *)
(* the last owner lets go never leads to memory that is being freed.       *)
(***************************************************************************)
HeldBy(n) == {o \in Owners : own[o] = n /\ at[o] = "owner"}

HeldIsAlive ==
    \A n \in Nodes : /\ refs[n] = Cardinality(HeldBy(n)) - 1
                     /\ HeldBy(n) # {} => obj[n].used

(***************************************************************************)
(* One owner, and only one, destroys an object: nobody holds it any more   *)
(* and no one else is at the same destruction.                             *)
(***************************************************************************)
Destroying(o) == at[o] \in {"remove", "free"}

DestroyedOnce ==
    \A o \in Owners : Destroying(o) =>
        /\ obj[own[o]].used /\ HeldBy(own[o]) = {}
        /\ \A p \in Owners \ {o} : Destroying(p) => own[p] # own[o]

(***************************************************************************)
(* The list that get_context_by_name walks holds allocated objects only,   *)
(* and each of them can be unlinked: what its prev_next points at points   *)
(* back at it (mgw_context_data_insert and _remove).                       *)
(***************************************************************************)
Deref(p) == IF p = ListHead THEN first ELSE next[p]

ListIsSound ==
    /\ \A n \in Nodes : mutex[n] => /\ obj[n].used
                                    /\ prev_next[n] \in {m \in Nodes : mutex[m]} \cup {ListHead}
                                    /\ Deref(prev_next[n]) = n
                                    /\ next[n] # Null => mutex[next[n]] /\ prev_next[next[n]] = n
    /\ first # Null => mutex[first] /\ prev_next[first] = ListHead

(***************************************************************************)
(* Objects live as long as they are held, die once, and the list never     *)
(* shows a dead one, whatever threads create, find, share and release.     *)
(***************************************************************************)
ReferencesHold == TypeOK /\ HeldIsAlive /\ DestroyedOnce /\ ListIsSound

(***************************************************************************)
(* The pointers implement the list of ContextSpec, the counts its owners.  *)
(***************************************************************************)
Listed == [k \in 1 .. Cardinality({j \in 0 .. Cardinality(Nodes) - 1 : Step[j] # Null}) |-> Step[k - 1]]

Abstract == INSTANCE ContextSpec WITH list <- Listed, owners <- [n \in Nodes |-> refs[n] + 1]
=============================================================================
