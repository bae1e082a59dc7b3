--------------------------- MODULE ContextsProofs ---------------------------
(***************************************************************************)
(* The objects of mgw-core: their references and their tree.               *)
(*                                                                         *)
(* ReferencesHold of Contexts for any number of objects, names and owners. *)
(* It is not inductive: that an owner can be sure to find its object in    *)
(* the list until it takes it out itself has to be known too.              *)
(*                                                                         *)
(* StreamsAreSound of CoreObjects for any names, bounds and configuration. *)
(* Its invariant says of the two lists of a stream what the calls look at: *)
(* no name is twice in one of them or in both, and what waits in the       *)
(* whitelist was never started.                                            *)
(***************************************************************************)
EXTENDS Contexts, CoreObjects, FiniteSetTheorems, WellFoundedInduction, TLAPS

Engaged(o) ==
    /\ at[o] # "idle" => own[o] \in Nodes
    /\ at[o] \in {"owner", "remove"} => mutex[own[o]]
    /\ at[o] = "free" => ~mutex[own[o]]

IInv == ReferencesHold /\ \A o \in Owners : Engaged(o)

----------------------------------------------------------------------------
(***************************************************************************)
(* How many hold an object after one more does, and after one lets go.     *)
(***************************************************************************)
LEMMA HeldIsFinite ==
    ASSUME NEW n \in Nodes
    PROVE  IsFiniteSet(HeldBy(n)) /\ Cardinality(HeldBy(n)) \in Nat
<1>1. HeldBy(n) \subseteq Owners  BY DEF HeldBy
<1>2. IsFiniteSet(HeldBy(n))  BY <1>1, ContextsAssumption, FS_Subset
<1> QED  BY <1>2, FS_CardinalityType

LEMMA OneMore ==
    ASSUME NEW S, NEW x, IsFiniteSet(S), x \notin S
    PROVE  Cardinality(S \cup {x}) = Cardinality(S) + 1
BY FS_AddElement

LEMMA OneLess ==
    ASSUME NEW S, NEW x, IsFiniteSet(S), x \in S
    PROVE  Cardinality(S \ {x}) = Cardinality(S) - 1
BY FS_RemoveElement

LEMMA NobodyIsZero ==
    ASSUME NEW S, IsFiniteSet(S)
    PROVE  (S = {}) <=> (Cardinality(S) = 0)
BY FS_EmptySet

----------------------------------------------------------------------------
LEMMA InitEstablishes == Init => IInv
<1> SUFFICES ASSUME Init PROVE IInv  OBVIOUS
<1>1. TypeOK  BY DEF Init, TypeOK, Unused
<1>2. ASSUME NEW n \in Nodes PROVE HeldBy(n) = {}
  BY <1>2 DEF Init, HeldBy
<1>3. HeldIsAlive  BY <1>2, FS_EmptySet DEF Init, HeldIsAlive
<1>4. DestroyedOnce  BY DEF Init, DestroyedOnce, Destroying
<1>5. ListIsSound  BY DEF Init, ListIsSound
<1>6. \A o \in Owners : Engaged(o)  BY DEF Init, Engaged
<1> QED  BY <1>1, <1>3, <1>4, <1>5, <1>6 DEF IInv, ReferencesHold

(***************************************************************************)
(* A new object is not in the list and nobody holds it.                    *)
(***************************************************************************)
LEMMA CreateKeeps ==
    ASSUME IInv, NEW o \in Owners, NEW n \in Nodes, NEW name \in Names,
           NEW is_private \in BOOLEAN, Create(o, n, name, is_private)
    PROVE  IInv'
<1> USE DEF IInv, ReferencesHold
<1>1. TypeOK'  BY DEF Create, context_data_insert, TypeOK
<1>2. HeldBy(n) = {} /\ ~mutex[n]
  BY DEF Create, HeldIsAlive, ListIsSound
<1>3. HeldBy(n)' = {o}
  BY <1>2 DEF Create, HeldBy, TypeOK
<1>4. ASSUME NEW m \in Nodes, m # n PROVE HeldBy(m)' = HeldBy(m)
  BY <1>4 DEF Create, HeldBy, TypeOK
<1>5. HeldIsAlive'
  <2>1. Cardinality({o}) = 1  BY FS_Singleton
  <2>2. refs'[n] = Cardinality(HeldBy(n)') - 1 /\ obj'[n].used
    BY <1>3, <2>1 DEF Create, TypeOK
  <2>3. ASSUME NEW m \in Nodes, m # n
        PROVE  refs'[m] = Cardinality(HeldBy(m)') - 1 /\ (HeldBy(m)' # {} => obj'[m].used)
    BY <1>4, <2>3 DEF HeldIsAlive, Create, TypeOK
  <2> QED  BY <2>2, <2>3 DEF HeldIsAlive
<1>6. DestroyedOnce'
  <2> SUFFICES ASSUME NEW p \in Owners, Destroying(p)'
               PROVE  /\ obj'[own'[p]].used /\ HeldBy(own[p])' = {}
                      /\ \A q \in Owners \ {p} : Destroying(q)' => own'[q] # own'[p]
    BY DEF DestroyedOnce
  <2>1. p # o /\ Destroying(p) /\ own'[p] = own[p]
    BY DEF Create, Destroying, TypeOK
  <2>2. own[p] \in Nodes /\ obj[own[p]].used /\ own[p] # n
    BY <2>1 DEF Create, Destroying, DestroyedOnce, Engaged
  <2>3. HeldBy(own[p])' = {}
    BY <2>1, <2>2, <1>4 DEF DestroyedOnce
  <2>4. \A q \in Owners \ {p} : Destroying(q)' => own'[q] # own'[p]
    BY <2>1, <2>2 DEF Create, Destroying, DestroyedOnce, TypeOK
  <2> QED  BY <2>1, <2>2, <2>3, <2>4 DEF Create, TypeOK
<1>7. ListIsSound'
  <2> USE <1>2, ContextsAssumption DEF Create, context_data_insert, ListIsSound, TypeOK
  <2>1. first' = n /\ mutex'[n] /\ prev_next'[n] = ListHead  OBVIOUS
  <2>2. /\ obj'[n].used /\ Deref(prev_next[n])' = n
        /\ next'[n] # Null => mutex'[next'[n]] /\ prev_next'[next'[n]] = n
    BY <2>1 DEF Deref
  <2>3. ASSUME NEW m \in Nodes, m # n, mutex'[m]
        PROVE  /\ obj'[m].used
               /\ prev_next'[m] \in {k \in Nodes : mutex'[k]} \cup {ListHead}
               /\ Deref(prev_next[m])' = m
               /\ next'[m] # Null => mutex'[next'[m]] /\ prev_next'[next'[m]] = m
    <3>1. mutex[m] /\ next'[m] = next[m] /\ obj'[m] = obj[m]  BY <2>3
    <3>2. CASE m = first
      <4>1. prev_next'[m] = n /\ next'[n] = m  BY <2>3, <3>2
      <4>2. next[m] # Null => next[m] # first  BY <3>1, <3>2
      <4> QED  BY <2>3, <3>1, <3>2, <4>1, <4>2 DEF Deref
    <3>3. CASE m # first
      <4>1. prev_next'[m] = prev_next[m]  BY <2>3, <3>3
      <4>2. prev_next[m] \in Nodes /\ mutex[prev_next[m]] /\ next[prev_next[m]] = m
        BY <3>1, <3>3 DEF Deref
      <4>3. prev_next[m] # n  BY <4>2
      <4>4. Deref(prev_next[m])' = m  BY <4>1, <4>2, <4>3 DEF Deref
      <4>5. next[m] # Null => /\ mutex[next[m]] /\ next[m] # n
                              /\ next[m] # first /\ prev_next[next[m]] = m
        BY <3>1
      <4> QED  BY <2>3, <3>1, <4>1, <4>2, <4>4, <4>5
    <3> QED  BY <3>2, <3>3
  <2>4. \A m \in Nodes : mutex'[m] =>
            /\ obj'[m].used
            /\ prev_next'[m] \in {k \in Nodes : mutex'[k]} \cup {ListHead}
            /\ Deref(prev_next[m])' = m
            /\ next'[m] # Null => mutex'[next'[m]] /\ prev_next'[next'[m]] = m
    BY ONLY <2>1, <2>2, <2>3
  <2> QED  BY ONLY <2>1, <2>4 DEF ListIsSound
<1>8. \A p \in Owners : Engaged(p)'
  BY <1>2 DEF Create, context_data_insert, Engaged, TypeOK, DestroyedOnce, Destroying
<1> QED  BY <1>1, <1>5, <1>6, <1>7, <1>8

(***************************************************************************)
(* An owner more, of an object that has one: by its name, or shared.       *)
(***************************************************************************)
LEMMA HoldKeeps ==
    ASSUME IInv, NEW p \in Owners, at[p] = "idle", NEW n \in Nodes, refs[n] > -1,
           refs' = [refs EXCEPT ![n] = @ + 1],
           own' = [own EXCEPT ![p] = n],
           at' = [at EXCEPT ![p] = "owner"],
           UNCHANGED <<first, next, prev_next, mutex, obj>>
    PROVE  IInv'
<1> USE DEF IInv, ReferencesHold
<1>1. TypeOK'  BY DEF TypeOK
<1>2. p \notin HeldBy(n) /\ HeldBy(n)' = HeldBy(n) \cup {p}
  BY DEF HeldBy, TypeOK
<1>3. ASSUME NEW m \in Nodes, m # n PROVE HeldBy(m)' = HeldBy(m)
  BY <1>3 DEF HeldBy, TypeOK
<1>4. HeldBy(n) # {}
  <2>1. Cardinality(HeldBy(n)) # 0
    BY HeldIsFinite DEF HeldIsAlive, TypeOK
  <2> QED  BY <2>1, HeldIsFinite, NobodyIsZero
<1>5. HeldIsAlive'
  <2>1. Cardinality(HeldBy(n) \cup {p}) = Cardinality(HeldBy(n)) + 1
    BY <1>2, HeldIsFinite, OneMore
  <2>2. refs'[n] = Cardinality(HeldBy(n)') - 1 /\ obj'[n].used
    BY <1>2, <1>4, <2>1, HeldIsFinite DEF HeldIsAlive, TypeOK
  <2>3. ASSUME NEW m \in Nodes, m # n
        PROVE  refs'[m] = Cardinality(HeldBy(m)') - 1 /\ (HeldBy(m)' # {} => obj'[m].used)
    BY <1>3, <2>3 DEF HeldIsAlive, TypeOK
  <2> QED  BY <2>2, <2>3 DEF HeldIsAlive
<1>6. DestroyedOnce'
  <2> SUFFICES ASSUME NEW q \in Owners, Destroying(q)'
               PROVE  /\ obj'[own'[q]].used /\ HeldBy(own[q])' = {}
                      /\ \A r \in Owners \ {q} : Destroying(r)' => own'[r] # own'[q]
    BY DEF DestroyedOnce
  <2>1. q # p /\ Destroying(q) /\ own'[q] = own[q]
    BY DEF Destroying, TypeOK
  <2>2. own[q] \in Nodes /\ own[q] # n
    BY <2>1, <1>4 DEF Destroying, DestroyedOnce, Engaged
  <2>3. HeldBy(own[q])' = {}
    BY <2>1, <2>2, <1>3 DEF DestroyedOnce
  <2> QED  BY <2>1, <2>2, <2>3 DEF DestroyedOnce, Destroying, TypeOK
<1>7. ListIsSound'  BY DEF ListIsSound, Deref
<1>8. \A q \in Owners : Engaged(q)'
  <2>1. mutex[n]
    <3>1. PICK q \in Owners : own[q] = n /\ at[q] = "owner"  BY <1>4 DEF HeldBy
    <3> QED  BY <3>1 DEF Engaged
  <2> QED  BY <2>1 DEF Engaged, TypeOK
<1> QED  BY <1>1, <1>5, <1>6, <1>7, <1>8

LEMMA LookupKeeps ==
    ASSUME IInv, NEW o \in Owners, NEW name \in Names, Lookup(o, name)
    PROVE  IInv'
<1>1. PICK n \in Nodes : /\ refs[n] > -1 /\ refs' = [refs EXCEPT ![n] = @ + 1]
                         /\ own' = [own EXCEPT ![o] = n]
  BY DEF Lookup, mgw_get_ref
<1> QED  BY <1>1, HoldKeeps DEF Lookup

LEMMA AddRefKeeps ==
    ASSUME IInv, NEW o \in Owners, NEW p \in Owners, AddRef(o, p)
    PROVE  IInv'
<1>1. own[o] \in Nodes /\ o \in HeldBy(own[o])
  BY DEF AddRef, IInv, Engaged, HeldBy
<1>2. Cardinality(HeldBy(own[o])) # 0
  BY <1>1, HeldIsFinite, NobodyIsZero
<1>3. refs[own[o]] > -1
  BY <1>1, <1>2, HeldIsFinite DEF IInv, ReferencesHold, HeldIsAlive
<1> QED  BY <1>1, <1>3, HoldKeeps DEF AddRef

LEMMA SetNameKeeps ==
    ASSUME IInv, NEW o \in Owners, NEW name \in Names, SetName(o, name)
    PROVE  IInv'
<1> USE DEF IInv, ReferencesHold
<1>1. own[o] \in Nodes  BY DEF SetName, Engaged
<1>2. TypeOK'  BY <1>1 DEF SetName, TypeOK
<1>3. \A n \in Nodes : obj'[n].used = obj[n].used /\ HeldBy(n)' = HeldBy(n)
  BY <1>1 DEF SetName, TypeOK, HeldBy
<1>4. HeldIsAlive'  BY <1>3 DEF SetName, HeldIsAlive
<1>5. DestroyedOnce'
  BY <1>3 DEF SetName, DestroyedOnce, Destroying, Engaged
<1>6. ListIsSound'  BY <1>3 DEF SetName, ListIsSound, Deref
<1>7. \A p \in Owners : Engaged(p)'  BY DEF SetName, Engaged
<1> QED  BY <1>2, <1>4, <1>5, <1>6, <1>7

(***************************************************************************)
(* Who brings the count to -1 was the only one that held the object.       *)
(***************************************************************************)
LEMMA ReleaseKeeps ==
    ASSUME IInv, NEW o \in Owners, Release(o)
    PROVE  IInv'
<1> USE DEF IInv, ReferencesHold
<1>0. PICK n \in Nodes : n = own[o]  BY DEF Release, Engaged
<1>1. n \in Nodes /\ o \in HeldBy(n) /\ mutex[n] /\ at[o] = "owner"
  BY <1>0 DEF Release, Engaged, HeldBy
<1>2. refs' = [refs EXCEPT ![n] = @ - 1] /\ UNCHANGED <<first, next, prev_next, mutex, obj>>
  BY <1>0 DEF Release
<1>3. /\ at'[o] \in {"idle", "remove"} /\ \A p \in Owners \ {o} : at'[p] = at[p] /\ own'[p] = own[p]
      /\ at'[o] = "remove" => refs[n] = 0 /\ own'[o] = n
  BY <1>0 DEF Release, TypeOK
<1>4. TypeOK'
  <2>1. refs' \in [Nodes -> Int]  BY <1>2 DEF TypeOK
  <2>2. own' \in [Owners -> Nodes \cup {Null}] /\ at' \in [Owners -> {"idle", "owner", "remove", "free"}]
    BY DEF Release, TypeOK
  <2> QED  BY <2>1, <2>2, <1>2 DEF TypeOK
<1>5. HeldBy(n)' = HeldBy(n) \ {o}
  BY <1>1, <1>3 DEF HeldBy
<1>6. ASSUME NEW m \in Nodes, m # n PROVE HeldBy(m)' = HeldBy(m)
  BY <1>0, <1>3, <1>6 DEF HeldBy, TypeOK
<1>7. Cardinality(HeldBy(n)') = Cardinality(HeldBy(n)) - 1
  BY <1>1, <1>5, HeldIsFinite, OneLess
<1>8. HeldIsAlive'
  <2>1. refs'[n] = Cardinality(HeldBy(n)') - 1 /\ obj'[n].used
    BY <1>1, <1>2, <1>7, HeldIsFinite DEF HeldIsAlive, TypeOK
  <2>2. ASSUME NEW m \in Nodes, m # n
        PROVE  refs'[m] = Cardinality(HeldBy(m)') - 1 /\ (HeldBy(m)' # {} => obj'[m].used)
    BY <1>2, <1>6, <2>2 DEF HeldIsAlive, TypeOK
  <2> QED  BY <2>1, <2>2 DEF HeldIsAlive
<1>9. at'[o] = "remove" => HeldBy(n)' = {}
  <2> SUFFICES ASSUME at'[o] = "remove" PROVE HeldBy(n)' = {}  OBVIOUS
  <2>1. Cardinality(HeldBy(n)) = 1
    BY <1>1, <1>3, HeldIsFinite DEF HeldIsAlive
  <2>2. IsFiniteSet(HeldBy(n) \ {o})
    BY <1>1, HeldIsFinite, FS_RemoveElement
  <2> QED  BY <2>1, <2>2, <1>5, <1>7, NobodyIsZero
<1>10. DestroyedOnce'
  <2> SUFFICES ASSUME NEW p \in Owners, Destroying(p)'
               PROVE  /\ obj'[own'[p]].used /\ HeldBy(own[p])' = {}
                      /\ \A q \in Owners \ {p} : Destroying(q)' => own'[q] # own'[p]
    BY DEF DestroyedOnce
  <2>0. \A q \in Owners \ {o} : Destroying(q) => own[q] # n /\ own[q] \in Nodes
    BY <1>1 DEF DestroyedOnce, Destroying, Engaged
  <2>1. CASE p = o
    <3>1. at'[o] = "remove" /\ own'[o] = n  BY <2>1, <1>3 DEF Destroying
    <3>2. obj'[n].used  BY <1>1, <1>2 DEF HeldIsAlive
    <3>3. HeldBy(own[p])' = {}  BY <2>1, <3>1, <1>9 DEF HeldBy
    <3> QED  BY <2>0, <2>1, <3>1, <3>2, <3>3, <1>3 DEF Destroying
  <2>2. CASE p # o
    <3>1. Destroying(p) /\ own'[p] = own[p] /\ own[p] # n /\ own[p] \in Nodes
      BY <2>0, <2>2, <1>3 DEF Destroying
    <3>2. HeldBy(own[p])' = {}  BY <3>1, <1>6 DEF DestroyedOnce, HeldBy
    <3>3. ASSUME NEW q \in Owners \ {p}, Destroying(q)' PROVE own'[q] # own'[p]
      <4>1. CASE q = o  BY <3>1, <3>3, <4>1, <1>3 DEF Destroying
      <4>2. CASE q # o  BY <3>1, <3>3, <4>2, <1>3 DEF Destroying, DestroyedOnce
      <4> QED  BY <4>1, <4>2
    <3> QED  BY <3>1, <3>2, <3>3, <1>2 DEF DestroyedOnce
  <2> QED  BY <2>1, <2>2
<1>11. ListIsSound'  BY <1>2 DEF ListIsSound, Deref
<1>12. \A p \in Owners : Engaged(p)'
  BY <1>1, <1>2, <1>3 DEF Engaged
<1> QED  BY <1>4, <1>8, <1>10, <1>11, <1>12

(***************************************************************************)
(* The object that goes leaves its neighbours linked to each other.        *)
(***************************************************************************)
LEMMA RemoveKeeps ==
    ASSUME IInv, NEW o \in Owners, TakeOut(o)
    PROVE  IInv'
<1> USE DEF IInv, ReferencesHold
<1>0. PICK n \in Nodes : n = own[o]  BY DEF TakeOut, Engaged
<1>1. n \in Nodes /\ mutex[n] /\ at[o] = "remove" /\ HeldBy(n) = {} /\ obj[n].used
  BY <1>0 DEF TakeOut, Engaged, DestroyedOnce, Destroying
<1>2. /\ first' = IF prev_next[n] = ListHead THEN next[n] ELSE first
      /\ next' = [m \in Nodes |-> IF prev_next[n] = m THEN next[n] ELSE next[m]]
      /\ prev_next' = [m \in Nodes |-> IF next[n] = m THEN prev_next[n] ELSE prev_next[m]]
      /\ mutex' = [mutex EXCEPT ![n] = FALSE]
      /\ at' = [at EXCEPT ![o] = "free"] /\ UNCHANGED <<obj, refs, own>>
  BY <1>0, <1>1 DEF TakeOut, context_data_remove
<1>3. TypeOK'  BY <1>1, <1>2 DEF TypeOK
<1>4. \A m \in Nodes : HeldBy(m)' = HeldBy(m)
  BY <1>1, <1>2 DEF HeldBy, TypeOK
<1>5. HeldIsAlive'  BY <1>2, <1>4 DEF HeldIsAlive
<1>6. \A p \in Owners : (Destroying(p)' <=> Destroying(p)) /\ (Destroying(p) => own[p] \in Nodes)
  BY <1>1, <1>2 DEF Destroying, TypeOK, Engaged
<1>7. DestroyedOnce'
  BY <1>2, <1>4, <1>6 DEF DestroyedOnce
<1>8. ListIsSound'
  <2> USE ContextsAssumption DEF TypeOK
  <2>1. /\ prev_next[n] \in {m \in Nodes : mutex[m]} \cup {ListHead} /\ Deref(prev_next[n]) = n
        /\ next[n] # Null => mutex[next[n]] /\ prev_next[next[n]] = n
    BY <1>1 DEF ListIsSound
  <2>2. ASSUME NEW m \in Nodes, mutex'[m]
        PROVE  /\ prev_next'[m] \in {k \in Nodes : mutex'[k]} \cup {ListHead}
               /\ Deref(prev_next[m])' = m
    <3>0. m # n /\ mutex[m]  BY <2>2, <1>1, <1>2
    <3>1. /\ prev_next[m] \in {k \in Nodes : mutex[k]} \cup {ListHead} /\ Deref(prev_next[m]) = m
      BY <3>0 DEF ListIsSound
    <3>2. CASE next[n] = m
      <4>1. prev_next'[m] = prev_next[n]  BY <3>2, <1>2
      <4>2. prev_next[n] # n  BY <2>1, <3>0, <3>2 DEF Deref
      <4> QED  BY <2>1, <3>2, <4>1, <4>2, <1>1, <1>2 DEF Deref
    <3>3. CASE next[n] # m
      <4>1. prev_next'[m] = prev_next[m]  BY <3>3, <1>2
      <4>2. prev_next[m] # n  BY <3>1, <3>3, <1>1 DEF Deref
      <4>3. prev_next[n] # prev_next[m]  BY <2>1, <3>0, <3>1
      <4> QED  BY <3>1, <4>1, <4>2, <4>3, <1>1, <1>2 DEF Deref
    <3> QED  BY <3>2, <3>3
  <2>3. ASSUME NEW m \in Nodes, mutex'[m], next'[m] # Null
        PROVE  mutex'[next'[m]] /\ prev_next'[next'[m]] = m
    <3>0. m # n /\ mutex[m]  BY <2>3, <1>1, <1>2
    <3>1. next[m] # Null => mutex[next[m]] /\ prev_next[next[m]] = m
      BY <3>0 DEF ListIsSound
    <3>2. CASE prev_next[n] = m
      <4>1. next'[m] = next[n] /\ next[n] \in Nodes /\ next[n] # Null
        BY <1>1, <1>2, <2>3, <3>2
      <4>2. next[n] # n  BY <2>1, <3>0, <3>2, <4>1
      <4> QED  BY <2>1, <3>2, <4>1, <4>2, <1>1, <1>2
    <3>3. CASE prev_next[n] # m
      <4>1. next'[m] = next[m] /\ next[m] \in Nodes /\ next[m] # Null
        BY <1>2, <2>3, <3>3
      <4>2. next[m] # n  BY <3>1, <3>3, <4>1
      <4>3. next[n] # next[m]  BY <2>1, <3>0, <3>1, <4>1
      <4> QED  BY <3>1, <4>1, <4>2, <4>3, <1>1, <1>2
    <3> QED  BY <3>2, <3>3
  <2>4. first' # Null => mutex'[first'] /\ prev_next'[first'] = ListHead
    <3>0. first # Null => mutex[first] /\ prev_next[first] = ListHead
      BY DEF ListIsSound
    <3>1. CASE prev_next[n] = ListHead
      BY <3>1, <2>1, <1>1, <1>2
    <3>2. CASE prev_next[n] # ListHead
      <4>1. first' = first  BY <3>2, <1>2
      <4>2. first # Null => first # n /\ first # next[n] /\ first \in Nodes
        BY <3>0, <3>2, <2>1, <1>1
      <4> QED  BY <3>0, <4>1, <4>2, <1>1, <1>2
    <3> QED  BY <3>1, <3>2
  <2>5. \A m \in Nodes : mutex'[m] => obj'[m].used
    BY <1>1, <1>2 DEF ListIsSound
  <2> QED  BY <2>2, <2>3, <2>4, <2>5 DEF ListIsSound
<1>9. ASSUME NEW p \in Owners PROVE Engaged(p)'
  <2>1. CASE p = o  BY <2>1, <1>0, <1>1, <1>2 DEF Engaged, TypeOK
  <2>2. CASE p # o
    <3>1. at'[p] = at[p] /\ own'[p] = own[p]  BY <2>2, <1>2 DEF TypeOK
    <3>2. at[p] # "idle" => own[p] # n \/ at[p] = "free"
      BY <2>2, <1>0, <1>1 DEF DestroyedOnce, Destroying, HeldBy, TypeOK
    <3> QED  BY <3>1, <3>2, <1>1, <1>2 DEF Engaged, TypeOK
  <2> QED  BY <2>1, <2>2
<1> QED  BY <1>3, <1>5, <1>7, <1>8, <1>9

(***************************************************************************)
(* What is freed is in no list and held by nobody.                         *)
(***************************************************************************)
LEMMA FreeKeeps ==
    ASSUME IInv, NEW o \in Owners, Free(o)
    PROVE  IInv'
<1> USE DEF IInv, ReferencesHold
<1>0. PICK n \in Nodes : n = own[o]  BY DEF Free, Engaged
<1>1. n \in Nodes /\ ~mutex[n] /\ at[o] = "free" /\ HeldBy(n) = {}
  BY <1>0 DEF Free, Engaged, DestroyedOnce, Destroying
<1>2. /\ obj' = [obj EXCEPT ![n] = Unused] /\ next' = [next EXCEPT ![n] = Null]
      /\ prev_next' = [prev_next EXCEPT ![n] = Null] /\ own' = [own EXCEPT ![o] = Null]
      /\ at' = [at EXCEPT ![o] = "idle"] /\ UNCHANGED <<first, mutex, refs>>
  BY <1>0 DEF Free
<1>3. TypeOK'  BY <1>1, <1>2 DEF TypeOK, Unused
<1>4. \A m \in Nodes : HeldBy(m)' = HeldBy(m)
  BY <1>1, <1>2, ContextsAssumption DEF HeldBy, TypeOK
<1>5. HeldIsAlive'
  BY <1>1, <1>2, <1>4 DEF HeldIsAlive, TypeOK
<1>6. DestroyedOnce'
  <2> SUFFICES ASSUME NEW p \in Owners, Destroying(p)'
               PROVE  /\ obj'[own'[p]].used /\ HeldBy(own[p])' = {}
                      /\ \A q \in Owners \ {p} : Destroying(q)' => own'[q] # own'[p]
    BY DEF DestroyedOnce
  <2>1. p # o /\ Destroying(p) /\ own'[p] = own[p]
    BY <1>2 DEF Destroying, TypeOK
  <2>2. own[p] \in Nodes /\ own[p] # n
    BY <2>1, <1>0, <1>1 DEF Destroying, DestroyedOnce, Engaged
  <2>3. HeldBy(own[p])' = {}
    BY <2>1, <2>2, <1>4 DEF DestroyedOnce
  <2>4. \A q \in Owners \ {p} : Destroying(q)' => own'[q] # own'[p]
    BY <2>1, <1>2 DEF Destroying, DestroyedOnce, TypeOK
  <2> QED  BY <2>1, <2>2, <2>3, <2>4, <1>2 DEF DestroyedOnce, TypeOK
<1>7. ListIsSound'
  <2> USE ContextsAssumption DEF TypeOK
  <2>1. ASSUME NEW m \in Nodes, mutex'[m]
        PROVE  /\ obj'[m].used
               /\ prev_next'[m] \in {k \in Nodes : mutex'[k]} \cup {ListHead}
               /\ Deref(prev_next[m])' = m
               /\ next'[m] # Null => mutex'[next'[m]] /\ prev_next'[next'[m]] = m
    <3>1. m # n /\ mutex[m]  BY <2>1, <1>1, <1>2
    <3>2. next'[m] = next[m] /\ prev_next'[m] = prev_next[m] /\ obj'[m] = obj[m]
      BY <3>1, <1>2
    <3>3. /\ obj[m].used /\ prev_next[m] \in {k \in Nodes : mutex[k]} \cup {ListHead}
          /\ Deref(prev_next[m]) = m
          /\ next[m] # Null => mutex[next[m]] /\ prev_next[next[m]] = m
      BY <3>1 DEF ListIsSound
    <3>4. prev_next[m] # n /\ next[m] # n  BY <3>3, <1>1, ContextsAssumption
    <3>5. Deref(prev_next[m])' = m  BY <3>2, <3>3, <3>4, <1>2 DEF Deref
    <3> QED  BY <3>2, <3>3, <3>4, <3>5, <1>2
  <2>2. first' # Null => mutex'[first'] /\ prev_next'[first'] = ListHead
    BY <1>1, <1>2 DEF ListIsSound
  <2> QED  BY <2>1, <2>2 DEF ListIsSound
<1>8. \A p \in Owners : Engaged(p)'
  BY <1>1, <1>2 DEF Engaged, TypeOK
<1> QED  BY <1>3, <1>5, <1>6, <1>7, <1>8

LEMMA StutterKeeps == IInv /\ UNCHANGED vars => IInv'
BY DEF IInv, ReferencesHold, vars, TypeOK, HeldIsAlive, DestroyedOnce, Destroying,
       ListIsSound, Deref, HeldBy, Engaged

----------------------------------------------------------------------------
(***************************************************************************)
(* For any number of objects, names and owners: what is held is allocated  *)
(* and counted exactly, what is destroyed is destroyed once and held by    *)
(* nobody, and the list mgw.c walks holds allocated objects only, each of  *)
(* which can be unlinked (mgw_context_data_insert, mgw_context_data_remove *)
(* and the addref and release functions).                                  *)
(***************************************************************************)
THEOREM ReferencesAlwaysHold == Spec => []ReferencesHold
<1>1. IInv /\ [Next]_vars => IInv'
  <2> SUFFICES ASSUME IInv, Next PROVE IInv'
    BY StutterKeeps
  <2>1. PICK o \in Owners : OwnerStep(o)  BY DEF Next
  <2>2. CASE \E n \in Nodes, name \in Names, is_private \in BOOLEAN : Create(o, n, name, is_private)
    BY <2>2, CreateKeeps
  <2>3. CASE \E name \in Names : Lookup(o, name) \/ SetName(o, name)
    BY <2>3, LookupKeeps, SetNameKeeps
  <2>4. CASE \E p \in Owners : AddRef(o, p)
    BY <2>4, AddRefKeeps
  <2>5. CASE Release(o) \/ TakeOut(o) \/ Free(o)
    BY <2>5, ReleaseKeeps, RemoveKeeps, FreeKeeps
  <2> QED  BY <2>1, <2>2, <2>3, <2>4, <2>5 DEF OwnerStep
<1>2. IInv => ReferencesHold  BY DEF IInv
<1> QED  BY InitEstablishes, <1>1, <1>2, PTL DEF Spec

-----------------------------------------------------------------------------
(***************************************************************************)
(* The tree.  First, induction over the numbers, for the outputs of a      *)
(* configuration are added one after another, and that what a name leads   *)
(* to is the first place it has in a list.                                 *)
(***************************************************************************)
LEMMA NatSetInduction ==
  ASSUME NEW S, 0 \in S, \A n \in Nat : n \in S => n + 1 \in S
  PROVE  Nat \subseteq S
<1> DEFINE T == Nat \ S
           R == OpToRel(<, Nat)
<1>1. SUFFICES ASSUME T # {} PROVE FALSE
  OBVIOUS
<1>2. IsWellFoundedOn(R, Nat)
  BY NatLessThanWellFounded
<1>3. T \subseteq Nat
  OBVIOUS
<1> HIDE DEF R
<1>4. PICK x \in T : \A y \in T : <<y, x>> \notin R
  BY <1>1, <1>2, <1>3, WFMin, Zenon
<1>5. R = {ss \in Nat \X Nat : ss[1] < ss[2]}
  BY DEF R, OpToRel
<1>6. x # 0 /\ x \in Nat /\ x - 1 \in T
  OBVIOUS
<1>7. <<x - 1, x>> \in R
  BY <1>5, <1>6
<1> QED BY <1>4, <1>6, <1>7

(* Among numbers there is a smallest.                                      *)
LEMMA SmallestOf ==
  ASSUME NEW I \in SUBSET Nat, I # {}
  PROVE  \E x \in I : \A y \in I : x <= y
<1> DEFINE R == OpToRel(<, Nat)
<1>1. IsWellFoundedOn(R, Nat)
  BY NatLessThanWellFounded
<1>2. R = {ss \in Nat \X Nat : ss[1] < ss[2]}
  BY DEF OpToRel
<1> HIDE DEF R
<1>3. PICK x \in I : \A y \in I : <<y, x>> \notin R
  BY <1>1, WFMin, Zenon
<1>4. \A y \in I : y < x => <<y, x>> \in R
  BY <1>2
<1>5. x \in Nat /\ \A y \in I : y \in Nat
  BY <1>3
<1>6. ASSUME NEW y \in I PROVE x <= y
  <2>1. ~(y < x)
    BY <1>3, <1>4
  <2> QED BY <1>5, <2>1
<1> QED BY <1>3, <1>6

Outputs == [name : OutputNames, tried : BOOLEAN]

(* The names in a list of outputs, and of two lists, are different.        *)
Distinct(list) ==
  \A i, j \in 1 .. Len(list) : list[i].name = list[j].name => i = j
Foreign(list, other) ==
  \A i \in 1 .. Len(list), j \in 1 .. Len(other) : list[i].name # other[j].name

SoundStreams ==
  {s \in [name : StreamNames, source : Sources, actived : BOOLEAN,
          outputs : Seq(Outputs), whitelist : Seq(Outputs)] :
      /\ Distinct(s.outputs) /\ Distinct(s.whitelist) /\ Foreign(s.outputs, s.whitelist)
      /\ s.actived => s.source \in {"started", "private"}
      /\ \A i \in 1 .. Len(s.whitelist) : ~s.whitelist[i].tried}

Devices == [sn : Sns, streams : Seq(SoundStreams)]

CoreInv ==
  /\ core \in {"none", "up", "down"} /\ fate \in {"runs", "hung", "broken"}
  /\ devices \in Seq(Devices) /\ Len(devices) <= MaxDevices
  /\ privates \in Seq(SoundStreams)

(* Place is that of an entry, or no entry has the name.                    *)
LEMMA PlaceIs ==
  ASSUME NEW S, NEW list \in Seq(S), NEW name, NEW field
  PROVE  /\ Place(list, name, field) \in 0 .. Len(list)
         /\ Place(list, name, field) = 0 => \A i \in 1 .. Len(list) : list[i][field] # name
<1> DEFINE I == {i \in 1 .. Len(list) : list[i][field] = name}
<1>1. Place(list, name, field) = IF I # {} THEN Min(I) ELSE 0
  BY DEF Place, SelectInSeq
<1>2. Len(list) \in Nat
  OBVIOUS
<1>3. CASE I = {}
  BY <1>1, <1>2, <1>3
<1>4. CASE I # {}
  <2>1. I \in SUBSET Nat
    BY <1>2
  <2>2. \E x \in I : \A y \in I : x <= y
    BY <1>4, <2>1, SmallestOf
  <2> HIDE DEF I
  <2>3. Min(I) \in I
    BY <2>2 DEF Min
  <2> QED BY <1>1, <1>2, <1>4, <2>3 DEF I
<1> QED BY <1>3, <1>4

-----------------------------------------------------------------------------
(* Lists of outputs.                                                       *)

LEMMA PrependIs ==
  ASSUME NEW S, NEW o \in S, NEW list \in Seq(S)
  PROVE  LET t == <<o>> \o list
         IN  /\ t \in Seq(S) /\ Len(t) = Len(list) + 1 /\ t[1] = o
             /\ \A i \in 2 .. Len(t) : i - 1 \in 1 .. Len(list) /\ t[i] = list[i - 1]
  OBVIOUS

LEMMA RemoveIs ==
  ASSUME NEW S, NEW list \in Seq(S), NEW p \in 1 .. Len(list)
  PROVE  LET t == RemoveAt(list, p)
         IN  /\ t \in Seq(S) /\ Len(t) = Len(list) - 1
             /\ \A i \in 1 .. Len(t) : LET j == IF i < p THEN i ELSE i + 1
                                       IN  j \in 1 .. Len(list) /\ t[i] = list[j]
<1> DEFINE a == SubSeq(list, 1, p - 1)
           b == SubSeq(list, p + 1, Len(list))
<1>1. a \in Seq(S) /\ b \in Seq(S) /\ Len(a) = p - 1 /\ Len(b) = Len(list) - p
  OBVIOUS
<1>2. \A i \in 1 .. p - 1 : a[i] = list[i]
  OBVIOUS
<1>3. \A i \in 1 .. Len(list) - p : b[i] = list[p + i]
  OBVIOUS
<1> HIDE DEF a, b
<1>4. RemoveAt(list, p) = a \o b
  BY DEF RemoveAt, a, b
<1>5. /\ a \o b \in Seq(S) /\ Len(a \o b) = Len(list) - 1
      /\ \A i \in 1 .. Len(list) - 1 : (a \o b)[i] = IF i < p THEN a[i] ELSE b[i - (p - 1)]
  <2>1. p - 1 \in Nat /\ Len(list) - p \in Nat /\ (p - 1) + (Len(list) - p) = Len(list) - 1
    OBVIOUS
  <2>2. \A i \in 1 .. Len(a) + Len(b) : (a \o b)[i] = IF i <= Len(a) THEN a[i] ELSE b[i - Len(a)]
    BY ONLY <1>1
  <2>3. a \o b \in Seq(S) /\ Len(a \o b) = Len(a) + Len(b)
    BY ONLY <1>1
  <2> QED BY <1>1, <2>1, <2>2, <2>3
<1>6. ASSUME NEW i \in 1 .. Len(list) - 1
      PROVE  LET j == IF i < p THEN i ELSE i + 1
             IN  j \in 1 .. Len(list) /\ (a \o b)[i] = list[j]
  <2>1. CASE i < p
    <3>1. i \in 1 .. p - 1 /\ i \in 1 .. Len(list)
      BY <2>1
    <3>2. a[i] = list[i]
      BY <1>2, <3>1
    <3> QED BY <1>5, <2>1, <3>1, <3>2
  <2>2. CASE ~(i < p)
    <3>1. i - (p - 1) \in 1 .. Len(list) - p /\ p + (i - (p - 1)) = i + 1
      BY <2>2
    <3>2. b[i - (p - 1)] = list[i + 1]
      BY <1>3, <3>1
    <3> QED BY <1>5, <2>2, <3>2
  <2> QED BY <2>1, <2>2
<1> QED BY <1>4, <1>5, <1>6

LEMMA PrependDistinct ==
  ASSUME NEW o \in Outputs, NEW list \in Seq(Outputs), Distinct(list),
         \A i \in 1 .. Len(list) : list[i].name # o.name
  PROVE  Distinct(<<o>> \o list)
<1> DEFINE t == <<o>> \o list
<1>1. /\ Len(list) \in Nat /\ Len(t) = Len(list) + 1 /\ t[1] = o
      /\ \A i \in 2 .. Len(t) : i - 1 \in 1 .. Len(list) /\ t[i] = list[i - 1]
  BY PrependIs
<1> HIDE DEF t
<1> SUFFICES ASSUME NEW i \in 1 .. Len(t), NEW j \in 1 .. Len(t), t[i].name = t[j].name
             PROVE  i = j
  BY DEF Distinct, t
<1>2. CASE i = 1 /\ j = 1
  BY <1>2
<1>3. CASE i = 1 /\ j # 1
  <2>1. j \in 2 .. Len(t)
    BY <1>1, <1>3
  <2> QED BY <1>1, <1>3, <2>1
<1>4. CASE i # 1 /\ j = 1
  <2>1. i \in 2 .. Len(t)
    BY <1>1, <1>4
  <2> QED BY <1>1, <1>4, <2>1
<1>5. CASE i # 1 /\ j # 1
  <2>1. i \in 2 .. Len(t) /\ j \in 2 .. Len(t)
    BY <1>1, <1>5
  <2>2. i - 1 = j - 1
    BY <1>1, <2>1 DEF Distinct
  <2> QED BY <2>1, <2>2
<1> QED BY <1>2, <1>3, <1>4, <1>5

LEMMA PrependForeign ==
  ASSUME NEW o \in Outputs, NEW list \in Seq(Outputs), NEW other \in Seq(Outputs),
         Foreign(list, other), \A i \in 1 .. Len(other) : other[i].name # o.name
  PROVE  Foreign(<<o>> \o list, other) /\ Foreign(other, <<o>> \o list)
<1> DEFINE t == <<o>> \o list
<1>1. /\ Len(list) \in Nat /\ Len(t) = Len(list) + 1 /\ t[1] = o
      /\ \A i \in 2 .. Len(t) : i - 1 \in 1 .. Len(list) /\ t[i] = list[i - 1]
  BY PrependIs
<1> HIDE DEF t
<1>2. ASSUME NEW i \in 1 .. Len(t), NEW j \in 1 .. Len(other) PROVE t[i].name # other[j].name
  <2>1. CASE i = 1
    BY <1>1, <2>1
  <2>2. CASE i # 1
    <3>1. i \in 2 .. Len(t)
      BY <1>1, <2>2
    <3> QED BY <1>1, <3>1 DEF Foreign
  <2> QED BY <2>1, <2>2
<1> QED BY <1>2 DEF Foreign, t

-----------------------------------------------------------------------------
(* The calls on a stream.                                                  *)

LEMMA StreamIsSound ==
  ASSUME NEW name \in StreamNames
  PROVE  Stream(name) \in SoundStreams
  BY DEF Stream, SoundStreams, Sources, Distinct, Foreign

LEMMA AddOutputSound ==
  ASSUME NEW s \in SoundStreams, NEW name \in OutputNames, NEW made, NEW starts
  PROVE  AddOutput(s, name, made, starts) \in SoundStreams
<1> DEFINE waits == Output(name, FALSE)
           runs == Output(name, s.actived)
<1>1. /\ s.outputs \in Seq(Outputs) /\ s.whitelist \in Seq(Outputs)
      /\ Distinct(s.outputs) /\ Distinct(s.whitelist) /\ Foreign(s.outputs, s.whitelist)
      /\ s.actived \in BOOLEAN /\ \A i \in 1 .. Len(s.whitelist) : ~s.whitelist[i].tried
  BY DEF SoundStreams
<1>2. CASE HasOutput(s, name) \/ ~made
  BY <1>2 DEF AddOutput
<1>3. CASE ~HasOutput(s, name) /\ made
  <2>1. /\ \A i \in 1 .. Len(s.outputs) : s.outputs[i].name # name
        /\ \A i \in 1 .. Len(s.whitelist) : s.whitelist[i].name # name
    <3>1. Place(s.outputs, name, "name") = 0 /\ Place(s.whitelist, name, "name") = 0
      BY <1>3 DEF HasOutput
    <3>2. \A i \in 1 .. Len(s.outputs) : s.outputs[i]["name"] # name
      BY <1>1, <3>1, PlaceIs
    <3>3. \A i \in 1 .. Len(s.whitelist) : s.whitelist[i]["name"] # name
      BY <1>1, <3>1, PlaceIs
    <3> QED BY <3>2, <3>3
  <2>2. /\ waits \in Outputs /\ waits.name = name /\ ~waits.tried
        /\ runs \in Outputs /\ runs.name = name
    BY <1>1 DEF Output, Outputs
  <2> HIDE DEF waits, runs
  <2>3. CASE s.source = "none"
    <3> DEFINE w == <<waits>> \o s.whitelist
    <3>1. w \in Seq(Outputs) /\ Distinct(w)
      BY <1>1, <2>1, <2>2, PrependDistinct
    <3>2. Foreign(s.outputs, w)
      <4>1. Foreign(s.whitelist, s.outputs)
        BY <1>1 DEF Foreign
      <4> QED BY <1>1, <2>1, <2>2, <4>1, PrependForeign
    <3>3. \A i \in 1 .. Len(w) : ~w[i].tried
      <4>1. /\ Len(s.whitelist) \in Nat /\ Len(w) = Len(s.whitelist) + 1 /\ w[1] = waits
            /\ \A i \in 2 .. Len(w) : i - 1 \in 1 .. Len(s.whitelist) /\ w[i] = s.whitelist[i - 1]
        BY <1>1, <2>2, PrependIs
      <4> HIDE DEF w
      <4> SUFFICES ASSUME NEW i \in 1 .. Len(w) PROVE ~w[i].tried
        OBVIOUS
      <4>2. CASE i = 1
        BY <2>2, <4>1, <4>2
      <4>3. CASE i # 1
        <5>1. i \in 2 .. Len(w)
          BY <4>1, <4>3
        <5> QED BY <1>1, <4>1, <5>1
      <4> QED BY <4>2, <4>3
    <3>4. AddOutput(s, name, made, starts) = [s EXCEPT !.whitelist = w]
      BY <1>3, <2>3 DEF AddOutput, waits
    <3> HIDE DEF w
    <3> QED BY <1>1, <3>1, <3>2, <3>3, <3>4 DEF SoundStreams
  <2>4. CASE s.source # "none" /\ s.actived /\ ~starts
    BY <1>3, <2>4 DEF AddOutput
  <2>5. CASE s.source # "none" /\ ~(s.actived /\ ~starts)
    <3> DEFINE o == <<runs>> \o s.outputs
    <3>1. o \in Seq(Outputs) /\ Distinct(o)
      BY <1>1, <2>1, <2>2, PrependDistinct
    <3>2. Foreign(o, s.whitelist)
      BY <1>1, <2>1, <2>2, PrependForeign
    <3>3. AddOutput(s, name, made, starts) = [s EXCEPT !.outputs = o]
      BY <1>3, <2>5 DEF AddOutput, runs
    <3> HIDE DEF o
    <3> QED BY <1>1, <3>1, <3>2, <3>3 DEF SoundStreams
  <2> QED BY <2>3, <2>4, <2>5
<1> QED BY <1>2, <1>3

LEMMA AddSourceSound ==
  ASSUME NEW s \in SoundStreams, NEW outcome \in Outcomes
  PROVE  AddSource(s, outcome) \in SoundStreams
<1>1. CASE s.source # "none" \/ outcome = "unmade"
  BY <1>1 DEF AddSource
<1>2. CASE s.source = "none" /\ outcome = "idle"
  <2>1. AddSource(s, outcome) = [s EXCEPT !.source = "idle"] /\ ~s.actived
    BY <1>2 DEF AddSource, SoundStreams
  <2> QED BY <2>1 DEF SoundStreams, Sources
<1>3. CASE s.source = "none" /\ outcome \in {"started", "private"}
  <2>1. AddSource(s, outcome) = [s EXCEPT !.source = outcome, !.actived = TRUE, !.whitelist = <<>>]
    BY <1>3 DEF AddSource
  <2> DEFINE t == AddSource(s, outcome)
  <2>2. /\ t \in [name : StreamNames, source : Sources, actived : BOOLEAN,
                  outputs : Seq(Outputs), whitelist : Seq(Outputs)]
        /\ t.outputs = s.outputs /\ t.whitelist = <<>> /\ t.source \in {"started", "private"}
    <3>1. <<>> \in Seq(Outputs)
      OBVIOUS
    <3>2. s \in [name : StreamNames, source : Sources, actived : BOOLEAN,
                 outputs : Seq(Outputs), whitelist : Seq(Outputs)]
      BY DEF SoundStreams
    <3> DEFINE none == <<>>
    <3>3. none \in Seq(Outputs)
      BY <3>1
    <3>4. t = [s EXCEPT !.source = outcome, !.actived = TRUE, !.whitelist = none]
      BY <2>1
    <3> HIDE DEF none, t
    <3>5. /\ t \in [name : StreamNames, source : Sources, actived : BOOLEAN,
                    outputs : Seq(Outputs), whitelist : Seq(Outputs)]
          /\ t.outputs = s.outputs /\ t.whitelist = none /\ t.source = outcome
      BY <1>3, <3>2, <3>3, <3>4 DEF Sources
    <3> QED BY <1>3, <3>5 DEF none
  <2>3. Len(t.whitelist) = 0
    BY <2>2
  <2>4. Distinct(t.outputs)
    BY <2>2 DEF SoundStreams
  <2> HIDE DEF t
  <2>5. Distinct(t.whitelist) /\ Foreign(t.outputs, t.whitelist)
    BY <2>3 DEF Distinct, Foreign
  <2>6. t \in SoundStreams
    BY <2>2, <2>3, <2>4, <2>5 DEF SoundStreams
  <2> QED BY <2>6 DEF t
<1> QED BY <1>1, <1>2, <1>3 DEF Outcomes

LEMMA ReleaseSourceSound ==
  ASSUME NEW s \in SoundStreams
  PROVE  ReleaseSource(s) \in SoundStreams
  BY DEF ReleaseSource, SoundStreams, Sources

LEMMA ReleaseOutputSound ==
  ASSUME NEW s \in SoundStreams, NEW name
  PROVE  ReleaseOutput(s, name) \in SoundStreams
<1> DEFINE p == Place(s.outputs, name, "name")
           o == RemoveAt(s.outputs, p)
<1>1. /\ s.outputs \in Seq(Outputs) /\ Distinct(s.outputs) /\ Foreign(s.outputs, s.whitelist)
  BY DEF SoundStreams
<1>2. p \in 0 .. Len(s.outputs) /\ Len(s.outputs) \in Nat
  BY <1>1, PlaceIs
<1>3. ReleaseOutput(s, name) = IF p = 0 THEN s ELSE [s EXCEPT !.outputs = o]
  BY DEF ReleaseOutput
<1> HIDE DEF p
<1>4. CASE p # 0
  <2>1. /\ o \in Seq(Outputs) /\ Len(o) = Len(s.outputs) - 1
        /\ \A i \in 1 .. Len(o) : LET j == IF i < p THEN i ELSE i + 1
                                  IN  j \in 1 .. Len(s.outputs) /\ o[i] = s.outputs[j]
    BY <1>1, <1>2, <1>4, RemoveIs
  <2> HIDE DEF o
  <2>2. Distinct(o)
    <3> SUFFICES ASSUME NEW i \in 1 .. Len(o), NEW k \in 1 .. Len(o), o[i].name = o[k].name
                 PROVE  i = k
      BY DEF Distinct
    <3> DEFINE m == IF i < p THEN i ELSE i + 1
               n == IF k < p THEN k ELSE k + 1
    <3>1. /\ m \in 1 .. Len(s.outputs) /\ o[i] = s.outputs[m]
          /\ n \in 1 .. Len(s.outputs) /\ o[k] = s.outputs[n]
      BY <2>1
    <3>2. m = n => i = k
      BY <1>2, <2>1
    <3> HIDE DEF m, n
    <3> QED BY <1>1, <3>1, <3>2 DEF Distinct
  <2>3. Foreign(o, s.whitelist)
    <3> SUFFICES ASSUME NEW i \in 1 .. Len(o), NEW k \in 1 .. Len(s.whitelist)
                 PROVE  o[i].name # s.whitelist[k].name
      BY DEF Foreign
    <3>1. PICK j \in 1 .. Len(s.outputs) : o[i] = s.outputs[j]
      BY <2>1
    <3> QED BY <1>1, <3>1 DEF Foreign
  <2>4. ReleaseOutput(s, name) = [s EXCEPT !.outputs = o]
    BY <1>3, <1>4
  <2> QED BY <2>1, <2>2, <2>3, <2>4 DEF SoundStreams
<1> QED BY <1>3, <1>4

(* added[k] is the stream with the first k outputs.                        *)
IsAdded(f, s, names, n) ==
  f = [k \in 0 .. n |-> IF k = 0 THEN s ELSE AddOutput(f[k - 1], names[k], TRUE, TRUE)]

LEMMA AddedExists ==
  ASSUME NEW s \in SoundStreams, NEW names \in Seq(OutputNames)
  PROVE  \E f : f \in [0 .. Len(names) -> SoundStreams] /\ IsAdded(f, s, names, Len(names))
<1> DEFINE S == {n \in Nat : n <= Len(names) =>
                    \E f \in [0 .. n -> SoundStreams] : IsAdded(f, s, names, n)}
<1>1. 0 \in S
  <2> DEFINE f == [k \in 0 .. 0 |-> s]
  <2>1. f \in [0 .. 0 -> SoundStreams] /\ IsAdded(f, s, names, 0)
    BY DEF IsAdded
  <2> HIDE DEF f
  <2> QED BY <2>1
<1>2. ASSUME NEW n \in Nat, n \in S PROVE n + 1 \in S
  <2> SUFFICES ASSUME n + 1 <= Len(names)
               PROVE  \E f \in [0 .. n + 1 -> SoundStreams] : IsAdded(f, s, names, n + 1)
    OBVIOUS
  <2>1. PICK f \in [0 .. n -> SoundStreams] : IsAdded(f, s, names, n)
    BY <1>2
  <2> DEFINE grown == AddOutput(f[n], names[n + 1], TRUE, TRUE)
             g == [k \in 0 .. n + 1 |-> IF k = n + 1 THEN grown ELSE f[k]]
  <2>2. grown \in SoundStreams
    <3>1. f[n] \in SoundStreams /\ names[n + 1] \in OutputNames
      OBVIOUS
    <3> QED BY <3>1, AddOutputSound
  <2>3. \A k \in 0 .. n : f[k] = IF k = 0 THEN s ELSE AddOutput(f[k - 1], names[k], TRUE, TRUE)
    BY <2>1, Zenon DEF IsAdded
  <2>4. g \in [0 .. n + 1 -> SoundStreams]
    <3> HIDE DEF grown
    <3> QED BY <2>2
  <2>5. ASSUME NEW k \in 0 .. n + 1
        PROVE  g[k] = IF k = 0 THEN s ELSE AddOutput(g[k - 1], names[k], TRUE, TRUE)
    <3>1. CASE k = n + 1
      <4>1. k - 1 = n /\ n \in 0 .. n + 1 /\ n # n + 1
        BY <3>1
      <4>2. g[k] = grown /\ g[k - 1] = f[n]
        BY <3>1, <4>1
      <4> QED BY <3>1, <4>2
    <3>2. CASE k # n + 1
      <4>1. k \in 0 .. n /\ g[k] = f[k]
        BY <3>2
      <4>2. k # 0 => k - 1 \in 0 .. n + 1 /\ k - 1 # n + 1 /\ g[k - 1] = f[k - 1]
        BY <4>1
      <4> QED BY <2>3, <4>1, <4>2
    <3> QED BY <3>1, <3>2
  <2>6. IsAdded(g, s, names, n + 1)
    <3>1. DOMAIN g = 0 .. n + 1
      OBVIOUS
    <3> HIDE DEF g
    <3>2. g = [k \in 0 .. n + 1 |-> g[k]]
      BY <2>4
    <3> QED BY <2>5, <3>2, Zenon DEF IsAdded
  <2> HIDE DEF g
  <2> QED BY <2>4, <2>6
<1> HIDE DEF S
<1>3. Nat \subseteq S
  BY <1>1, <1>2, NatSetInduction
<1>4. Len(names) \in Nat /\ Len(names) \in S
  BY <1>3
<1> QED BY <1>4 DEF S

LEMMA AddedIn ==
  ASSUME NEW s \in SoundStreams, NEW names \in Seq(OutputNames),
         NEW f, IsAdded(f, s, names, Len(names))
  PROVE  f[Len(names)] \in SoundStreams
<1> DEFINE S == {n \in Nat : n <= Len(names) => f[n] \in SoundStreams}
<1>0. Len(names) \in Nat
  OBVIOUS
<1>1. \A k \in 0 .. Len(names) : f[k] = IF k = 0 THEN s ELSE AddOutput(f[k - 1], names[k], TRUE, TRUE)
  BY Zenon DEF IsAdded
<1>2. 0 \in S
  <2>1. 0 \in 0 .. Len(names)
    BY <1>0
  <2>2. f[0] = s
    BY <1>1, <2>1, Zenon
  <2> QED BY <2>2
<1>3. ASSUME NEW n \in Nat, n \in S PROVE n + 1 \in S
  <2> SUFFICES ASSUME n + 1 <= Len(names) PROVE f[n + 1] \in SoundStreams
    OBVIOUS
  <2>1. f[n] \in SoundStreams /\ names[n + 1] \in OutputNames
    BY <1>3
  <2>2. n + 1 \in 0 .. Len(names) /\ n + 1 # 0 /\ (n + 1) - 1 = n
    BY <1>0
  <2>3. f[n + 1] = AddOutput(f[n], names[n + 1], TRUE, TRUE)
    BY <1>1, <2>2
  <2> QED BY <2>1, <2>3, AddOutputSound
<1> HIDE DEF S
<1>4. Nat \subseteq S
  BY <1>2, <1>3, NatSetInduction
<1>5. Len(names) \in S
  BY <1>0, <1>4
<1> QED BY <1>0, <1>5 DEF S

LEMMA AddOutputsSound ==
  ASSUME NEW s \in SoundStreams, NEW names \in Seq(OutputNames)
  PROVE  AddOutputs(s, names) \in SoundStreams
<1> DEFINE f == CHOOSE f : IsAdded(f, s, names, Len(names))
<1>1. AddOutputs(s, names) = f[Len(names)]
  BY DEF AddOutputs, IsAdded
<1>2. IsAdded(f, s, names, Len(names))
  BY AddedExists
<1> HIDE DEF f
<1> QED BY <1>1, <1>2, AddedIn

LEMMA BuiltSound ==
  ASSUME NEW entry \in StreamEntries, NEW outcome \in Outcomes
  PROVE  Built(entry, outcome) \in SoundStreams
<1> DEFINE fed == IF entry.source THEN AddSource(Stream(entry.name), outcome) ELSE Stream(entry.name)
<1>1. entry.name \in StreamNames /\ entry.outputs \in Seq(OutputNames)
  BY DEF StreamEntries
<1>2. fed \in SoundStreams
  BY <1>1, StreamIsSound, AddSourceSound
<1>3. Built(entry, outcome) = AddOutputs(fed, entry.outputs)
  BY DEF Built
<1> HIDE DEF fed
<1> QED BY <1>1, <1>2, <1>3, AddOutputsSound

-----------------------------------------------------------------------------
(* The calls on the tree.                                                  *)

LEMMA CoreInvInit == CoreInit => CoreInv
  BY CoreAssumption DEF CoreInit, CoreInv

LEMMA ResetStreamsSound ==
  ASSUME NEW entries \in Seq(StreamEntries), NEW i, NEW outcome \in Outcomes
  PROVE  ResetStreams(entries, i, outcome) \in Seq(SoundStreams)
<1>1. CASE i \in DOMAIN entries
  <2> DEFINE b == Built(entries[i], outcome)
  <2>1. b \in SoundStreams
    BY <1>1, BuiltSound
  <2>2. ResetStreams(entries, i, outcome) = [j \in 1 .. Len(entries) |-> b]
    BY <1>1 DEF ResetStreams
  <2> HIDE DEF b
  <2> QED BY <2>1, <2>2
<1>2. CASE i \notin DOMAIN entries
  BY <1>2 DEF ResetStreams
<1> QED BY <1>1, <1>2

LEMMA ReverseIs ==
  ASSUME NEW S, NEW list \in Seq(S)
  PROVE  Reverse(list) \in Seq(S) /\ Len(Reverse(list)) = Len(list)
<1>1. \A i \in 1 .. Len(list) : (Len(list) - i) + 1 \in 1 .. Len(list)
  OBVIOUS
<1>2. \A i \in 1 .. Len(list) : list[(Len(list) - i) + 1] \in S
  BY <1>1
<1> QED BY <1>2 DEF Reverse

LEMMA ResetAllKeeps ==
  ASSUME CoreInv, NEW outcome \in Outcomes, ResetAll(outcome)
  PROVE  CoreInv'
<1> DEFINE ds == Config.devices
           ps == Config.privates
           dev == [i \in DOMAIN ds |-> Device(ds[i].sn, ResetStreams(ds[i].streams, i, outcome))]
           prv == [i \in DOMAIN ps |-> Built(ps[i], outcome)]
<1>1. ds \in Seq(DeviceEntries) /\ Len(ds) <= MaxDevices /\ ps \in Seq(StreamEntries)
  BY CoreAssumption
<1>2. core' = core /\ fate' = fate /\ devices' = Reverse(dev) /\ privates' = Reverse(prv)
  BY DEF ResetAll
<1> HIDE DEF ds, ps
<1>3. dev \in Seq(Devices) /\ Len(dev) = Len(ds)
  <2>1. ASSUME NEW i \in 1 .. Len(ds)
        PROVE  Device(ds[i].sn, ResetStreams(ds[i].streams, i, outcome)) \in Devices
    <3>1. ds[i].sn \in Sns /\ ds[i].streams \in Seq(StreamEntries)
      <4>1. ds[i] \in DeviceEntries
        BY <1>1
      <4> QED BY <4>1 DEF DeviceEntries
    <3>2. ResetStreams(ds[i].streams, i, outcome) \in Seq(SoundStreams)
      BY <3>1, ResetStreamsSound
    <3> QED BY <3>1, <3>2 DEF Device, Devices
  <2>2. DOMAIN ds = 1 .. Len(ds) /\ Len(ds) \in Nat
    BY <1>1
  <2> QED BY <2>1, <2>2
<1>4. prv \in Seq(SoundStreams)
  <2>1. \A i \in 1 .. Len(ps) : Built(ps[i], outcome) \in SoundStreams
    BY <1>1, BuiltSound
  <2>2. DOMAIN ps = 1 .. Len(ps) /\ Len(ps) \in Nat
    BY <1>1
  <2> QED BY <2>1, <2>2
<1> HIDE DEF dev, prv
<1>5. Reverse(dev) \in Seq(Devices) /\ Len(Reverse(dev)) = Len(ds) /\ Reverse(prv) \in Seq(SoundStreams)
  BY <1>3, <1>4, ReverseIs
<1> QED BY <1>1, <1>2, <1>5 DEF CoreInv

(* A device in the place of another, or before all others.                 *)
LEMMA DevicePlaced ==
  ASSUME devices \in Seq(Devices), NEW sn
  PROVE  LET d == Place(devices, sn, "sn")
         IN  /\ d \in 0 .. Len(devices) /\ d \in Nat
             /\ d # 0 => /\ devices[d] \in Devices /\ devices[d].streams \in Seq(SoundStreams)
                         /\ devices[d].sn \in Sns
<1> DEFINE d == Place(devices, sn, "sn")
<1>1. d \in 0 .. Len(devices) /\ Len(devices) \in Nat
  BY PlaceIs
<1> HIDE DEF d
<1>2. d # 0 => devices[d] \in Devices
  BY <1>1
<1> QED BY <1>1, <1>2 DEF Devices, d

LEMMA StreamsReplaced ==
  ASSUME devices \in Seq(Devices), NEW d \in 1 .. Len(devices), NEW streams \in Seq(SoundStreams)
  PROVE  LET t == [devices EXCEPT ![d].streams = streams]
         IN  t \in Seq(Devices) /\ Len(t) = Len(devices)
<1>1. devices[d] \in Devices
  OBVIOUS
<1>2. [devices[d] EXCEPT !.streams = streams] \in Devices
  BY <1>1 DEF Devices
<1> QED BY <1>2

LEMMA DeviceCreateKeeps ==
  ASSUME CoreInv, NEW sn \in Sns, DeviceCreate(sn)
  PROVE  CoreInv'
<1>1. Device(sn, <<>>) \in Devices
  BY DEF Device, Devices
<1>2. /\ devices \in Seq(Devices) /\ Len(devices) < MaxDevices
      /\ devices' = <<Device(sn, <<>>)>> \o devices
  BY DEF CoreInv, DeviceCreate
<1>3. devices' \in Seq(Devices) /\ Len(devices') = Len(devices) + 1
  BY <1>1, <1>2, PrependIs
<1>4. Len(devices') <= MaxDevices
  BY <1>2, <1>3, CoreAssumption
<1> QED BY <1>3, <1>4 DEF CoreInv, DeviceCreate

LEMMA DeviceAddStreamKeeps ==
  ASSUME CoreInv, NEW sn, NEW name \in StreamNames, NEW source \in BOOLEAN,
         NEW outcome \in Outcomes, NEW output \in OutputNames,
         DeviceAddStream(sn, name, source, outcome, <<output>>)
  PROVE  CoreInv'
<1> DEFINE d == Place(devices, sn, "sn")
           fed == IF source THEN AddSource(Stream(name), outcome) ELSE Stream(name)
           full == IF source /\ ~fed.actived THEN fed ELSE AddOutputs(fed, <<output>>)
<1>1. fed \in SoundStreams
  BY StreamIsSound, AddSourceSound
<1>2. full \in SoundStreams
  <2> HIDE DEF fed
  <2>1. <<output>> \in Seq(OutputNames)
    OBVIOUS
  <2> QED BY <1>1, <2>1, AddOutputsSound
<1>3. /\ d # 0 /\ devices' = [devices EXCEPT ![d].streams = <<full>> \o @]
      /\ UNCHANGED <<core, privates, fate>>
  BY DEF DeviceAddStream
<1>4. devices \in Seq(Devices) /\ Len(devices) <= MaxDevices
  BY DEF CoreInv
<1>5. d \in 1 .. Len(devices) /\ devices[d].streams \in Seq(SoundStreams)
  BY <1>3, <1>4, DevicePlaced
<1> HIDE DEF d, full
<1> DEFINE streams == <<full>> \o devices[d].streams
<1>6. streams \in Seq(SoundStreams)
  BY <1>2, <1>5, PrependIs
<1>7. devices' = [devices EXCEPT ![d].streams = streams]
  BY <1>3
<1> HIDE DEF streams
<1>8. devices' \in Seq(Devices) /\ Len(devices') = Len(devices)
  BY <1>4, <1>5, <1>6, <1>7, StreamsReplaced
<1> QED BY <1>3, <1>4, <1>8 DEF CoreInv

(* A call that leaves a stream sound leaves the tree sound.                *)
LEMMA StreamBecomesKeeps ==
  ASSUME CoreInv, NEW sn, NEW name, NEW stream, StreamBecomes(sn, name, stream),
         StreamAt(sn, name) \in SoundStreams => stream \in SoundStreams,
         fate' \in {"runs", "hung", "broken"}
  PROVE  CoreInv'
<1> DEFINE d == Place(devices, sn, "sn")
           i == Place(devices[d].streams, name, "name")
           old == devices[d].streams
<1>1. /\ d # 0 /\ i # 0 /\ devices' = [devices EXCEPT ![d].streams[i] = stream]
      /\ UNCHANGED <<core, privates>> /\ StreamAt(sn, name) = old[i]
  BY DEF StreamBecomes, StreamAt
<1>2. devices \in Seq(Devices) /\ Len(devices) <= MaxDevices
  BY DEF CoreInv
<1>3. d \in 1 .. Len(devices) /\ old \in Seq(SoundStreams)
  BY <1>1, <1>2, DevicePlaced
<1>4. i \in 1 .. Len(old)
  <2>1. i \in 0 .. Len(old) /\ Len(old) \in Nat
    BY <1>3, PlaceIs
  <2> HIDE DEF i, old
  <2> QED BY <1>1, <2>1
<1> HIDE DEF d, i
<1>5. stream \in SoundStreams
  BY <1>1, <1>3, <1>4
<1> DEFINE streams == [old EXCEPT ![i] = stream]
<1>6. streams \in Seq(SoundStreams)
  BY <1>3, <1>4, <1>5
<1>7. devices' = [devices EXCEPT ![d].streams = streams]
  BY <1>1
<1> HIDE DEF streams
<1>8. devices' \in Seq(Devices) /\ Len(devices') = Len(devices)
  BY <1>2, <1>3, <1>6, <1>7, StreamsReplaced
<1> QED BY <1>1, <1>2, <1>8 DEF CoreInv

LEMMA FateTyped == ASSUME CoreInv, UNCHANGED fate \/ fate' \in {"hung", "broken"}
                   PROVE  fate' \in {"runs", "hung", "broken"}
  BY DEF CoreInv

LEMMA StreamCallsKeep ==
  ASSUME CoreInv, NEW sn, NEW name,
         \/ \E outcome \in Outcomes : StreamAddSource(sn, name, outcome)
         \/ StreamReleaseSource(sn, name)
         \/ \E output \in OutputNames :
               \/ \E made, starts \in BOOLEAN :
                     DeviceAddOutputToStream(sn, name, output, made, starts)
               \/ DeviceReleaseOutputFromStream(sn, name, output)
  PROVE  CoreInv'
<1> DEFINE s == StreamAt(sn, name)
<1>1. ASSUME NEW outcome \in Outcomes, StreamAddSource(sn, name, outcome) PROVE CoreInv'
  <2>1. StreamBecomes(sn, name, AddSource(s, outcome)) /\ (fate' = "broken" \/ fate' = fate)
    BY <1>1 DEF StreamAddSource
  <2> HIDE DEF s
  <2>2. s \in SoundStreams => AddSource(s, outcome) \in SoundStreams
    BY AddSourceSound
  <2> QED BY <2>1, <2>2, FateTyped, StreamBecomesKeeps DEF s
<1>2. ASSUME StreamReleaseSource(sn, name) PROVE CoreInv'
  <2>1. StreamBecomes(sn, name, ReleaseSource(s)) /\ fate' = fate
    BY <1>2 DEF StreamReleaseSource
  <2> HIDE DEF s
  <2>2. s \in SoundStreams => ReleaseSource(s) \in SoundStreams
    BY ReleaseSourceSound
  <2> QED BY <2>1, <2>2, FateTyped, StreamBecomesKeeps DEF s
<1>3. ASSUME NEW output \in OutputNames, NEW made \in BOOLEAN, NEW starts \in BOOLEAN,
             DeviceAddOutputToStream(sn, name, output, made, starts)
      PROVE  CoreInv'
  <2>1. StreamBecomes(sn, name, AddOutput(s, output, made, starts)) /\ fate' = fate
    BY <1>3 DEF DeviceAddOutputToStream
  <2> HIDE DEF s
  <2>2. s \in SoundStreams => AddOutput(s, output, made, starts) \in SoundStreams
    BY AddOutputSound
  <2> QED BY <2>1, <2>2, FateTyped, StreamBecomesKeeps DEF s
<1>4. ASSUME NEW output \in OutputNames, DeviceReleaseOutputFromStream(sn, name, output)
      PROVE  CoreInv'
  <2>1. StreamBecomes(sn, name, ReleaseOutput(s, output)) /\ (fate' = "hung" \/ fate' = fate)
    BY <1>4 DEF DeviceReleaseOutputFromStream
  <2> HIDE DEF s
  <2>2. s \in SoundStreams => ReleaseOutput(s, output) \in SoundStreams
    BY ReleaseOutputSound
  <2> QED BY <2>1, <2>2, FateTyped, StreamBecomesKeeps DEF s
<1> QED BY <1>1, <1>2, <1>3, <1>4

LEMMA DeviceReleaseStreamKeeps ==
  ASSUME CoreInv, NEW sn, NEW name, DeviceReleaseStream(sn, name)
  PROVE  CoreInv'
<1> DEFINE d == Place(devices, sn, "sn")
           old == devices[d].streams
           i == Place(old, name, "name")
<1>1. /\ d # 0 /\ i # 0 /\ UNCHANGED <<core, privates>>
      /\ \/ fate' = "hung" /\ UNCHANGED devices
         \/ devices' = [devices EXCEPT ![d].streams = RemoveAt(@, i)] /\ UNCHANGED fate
  BY DEF DeviceReleaseStream
<1>2. devices \in Seq(Devices) /\ Len(devices) <= MaxDevices
  BY DEF CoreInv
<1>3. d \in 1 .. Len(devices) /\ old \in Seq(SoundStreams)
  BY <1>1, <1>2, DevicePlaced
<1>4. i \in 1 .. Len(old)
  <2>1. i \in 0 .. Len(old) /\ Len(old) \in Nat
    BY <1>3, PlaceIs
  <2> HIDE DEF i, old
  <2> QED BY <1>1, <2>1
<1> HIDE DEF d, i
<1>5. RemoveAt(old, i) \in Seq(SoundStreams)
  BY <1>3, <1>4, RemoveIs
<1>6. CASE fate' = "hung" /\ UNCHANGED devices
  BY <1>1, <1>6 DEF CoreInv
<1>7. CASE devices' = [devices EXCEPT ![d].streams = RemoveAt(@, i)] /\ UNCHANGED fate
  <2> DEFINE streams == RemoveAt(old, i)
  <2>1. devices' = [devices EXCEPT ![d].streams = streams]
    BY <1>7
  <2>2. streams \in Seq(SoundStreams)
    BY <1>5
  <2> HIDE DEF streams
  <2>3. devices' \in Seq(Devices) /\ Len(devices') = Len(devices)
    BY <1>2, <1>3, <2>1, <2>2, StreamsReplaced
  <2> QED BY <1>1, <1>2, <1>7, <2>3 DEF CoreInv
<1> QED BY <1>1, <1>6, <1>7

LEMMA DeviceReleaseKeeps ==
  ASSUME CoreInv, NEW sn, DeviceRelease(sn)
  PROVE  CoreInv'
<1> DEFINE d == Place(devices, sn, "sn")
<1>1. /\ d # 0 /\ UNCHANGED <<core, privates>>
      /\ \/ fate' = "hung" /\ UNCHANGED devices
         \/ devices' = RemoveAt(devices, d) /\ UNCHANGED fate
  BY DEF DeviceRelease
<1>2. devices \in Seq(Devices) /\ Len(devices) <= MaxDevices
  BY DEF CoreInv
<1>3. d \in 1 .. Len(devices)
  BY <1>1, <1>2, DevicePlaced
<1> HIDE DEF d
<1>4. /\ RemoveAt(devices, d) \in Seq(Devices)
      /\ Len(RemoveAt(devices, d)) = Len(devices) - 1
  BY <1>2, <1>3, RemoveIs
<1>5. Len(devices) \in Nat /\ Len(devices) - 1 <= MaxDevices
  BY <1>2, CoreAssumption
<1> QED BY <1>1, <1>2, <1>4, <1>5 DEF CoreInv

LEMMA ShutdownKeeps == ASSUME CoreInv, Shutdown PROVE CoreInv'
<1>1. CASE fate' = "hung" /\ UNCHANGED <<core, devices, privates>>
  BY <1>1 DEF CoreInv
<1>2. CASE core' = "down" /\ devices' = <<>> /\ privates' = <<>> /\ UNCHANGED fate
  <2>1. devices' \in Seq(Devices) /\ Len(devices') = 0 /\ privates' \in Seq(SoundStreams)
    BY <1>2
  <2>2. 0 <= MaxDevices
    BY CoreAssumption
  <2> QED BY <1>2, <2>1, <2>2 DEF CoreInv
<1> QED BY <1>1, <1>2 DEF Shutdown

LEMMA CoreInvNext == CoreInv /\ [CoreNext]_coreVars => CoreInv'
<1> SUFFICES ASSUME CoreInv, [CoreNext]_coreVars PROVE CoreInv'
  OBVIOUS
<1>1. CASE Startup
  BY <1>1 DEF CoreInv, Startup
<1>2. CASE Shutdown
  BY <1>2, ShutdownKeeps
<1>3. CASE \E outcome \in Outcomes : ResetAll(outcome)
  BY <1>3, ResetAllKeeps
<1>4. ASSUME NEW sn \in Sns, DeviceCreate(sn) \/ DeviceRelease(sn) PROVE CoreInv'
  BY <1>4, DeviceCreateKeeps, DeviceReleaseKeeps
<1>5. ASSUME NEW sn \in Sns, NEW name \in StreamNames,
             \E source \in BOOLEAN, outcome \in Outcomes, output \in OutputNames :
                DeviceAddStream(sn, name, source, outcome, <<output>>)
      PROVE  CoreInv'
  BY <1>5, DeviceAddStreamKeeps
<1>6. ASSUME NEW sn \in Sns, NEW name \in StreamNames,
             \/ \E outcome \in Outcomes : StreamAddSource(sn, name, outcome)
             \/ StreamReleaseSource(sn, name)
             \/ \E output \in OutputNames :
                   \/ \E made, starts \in BOOLEAN :
                         DeviceAddOutputToStream(sn, name, output, made, starts)
                   \/ DeviceReleaseOutputFromStream(sn, name, output)
      PROVE  CoreInv'
  BY <1>6, StreamCallsKeep
<1>7. ASSUME NEW sn \in Sns, NEW name \in StreamNames, DeviceReleaseStream(sn, name) PROVE CoreInv'
  BY <1>7, DeviceReleaseStreamKeeps
<1>8. CASE UNCHANGED coreVars
  BY <1>8 DEF coreVars, CoreInv
<1> QED BY <1>1, <1>2, <1>3, <1>4, <1>5, <1>6, <1>7, <1>8 DEF CoreNext

(* No two outputs of a sound stream have one name.                         *)
LEMMA SoundIsNamedOnce ==
  ASSUME NEW s \in SoundStreams
  PROVE  LET names == [i \in 1 .. Len(s.outputs) + Len(s.whitelist) |->
                         (s.outputs \o s.whitelist)[i].name]
         IN  IsInjective(names)
<1> DEFINE a == s.outputs
           b == s.whitelist
           c == a \o b
<1>1. a \in Seq(Outputs) /\ b \in Seq(Outputs) /\ Distinct(a) /\ Distinct(b) /\ Foreign(a, b)
  BY DEF SoundStreams
<1> HIDE DEF a, b
<1>2. Len(a) \in Nat /\ Len(b) \in Nat
  BY <1>1
<1>3. \A i \in 1 .. Len(a) : c[i] = a[i]
  BY <1>1
<1>4. \A i \in 1 .. Len(a) + Len(b) : i \notin 1 .. Len(a) =>
         i - Len(a) \in 1 .. Len(b) /\ c[i] = b[i - Len(a)]
  BY <1>1
<1> HIDE DEF c
<1> SUFFICES ASSUME NEW i \in 1 .. Len(a) + Len(b), NEW j \in 1 .. Len(a) + Len(b),
                    c[i].name = c[j].name
             PROVE  i = j
  BY DEF IsInjective, a, b, c
<1>5. CASE i \in 1 .. Len(a) /\ j \in 1 .. Len(a)
  BY <1>1, <1>3, <1>5 DEF Distinct
<1>6. CASE i \in 1 .. Len(a) /\ j \notin 1 .. Len(a)
  BY <1>1, <1>3, <1>4, <1>6 DEF Foreign
<1>7. CASE i \notin 1 .. Len(a) /\ j \in 1 .. Len(a)
  BY <1>1, <1>3, <1>4, <1>7 DEF Foreign
<1>8. CASE i \notin 1 .. Len(a) /\ j \notin 1 .. Len(a)
  <2>1. i - Len(a) = j - Len(a)
    BY <1>1, <1>4, <1>8 DEF Distinct
  <2> QED BY <1>2, <2>1
<1> QED BY <1>5, <1>6, <1>7, <1>8

LEMMA CoreInvSound == CoreInv => StreamsAreSound
<1> SUFFICES ASSUME CoreInv PROVE StreamsAreSound
  OBVIOUS
<1>1. \A d \in DOMAIN devices : devices[d].sn \in Sns /\ devices[d].streams \in Seq(SoundStreams)
  <2>1. \A d \in DOMAIN devices : devices[d] \in Devices
    BY DEF CoreInv
  <2> QED BY <2>1 DEF Devices
<1>2. AllStreams \subseteq SoundStreams
  <2>1. \A i \in DOMAIN privates : privates[i] \in SoundStreams
    BY DEF CoreInv
  <2>2. \A d \in DOMAIN devices : \A i \in DOMAIN devices[d].streams :
           devices[d].streams[i] \in SoundStreams
    BY <1>1
  <2> QED BY <2>1, <2>2 DEF AllStreams
<1>3. ASSUME NEW s \in AllStreams
      PROVE  /\ s.name \in StreamNames /\ s.source \in Sources /\ s.actived \in BOOLEAN
             /\ IsOutputList(s.outputs) /\ IsOutputList(s.whitelist)
             /\ s.actived => s.source \in {"started", "private"}
             /\ \A i \in DOMAIN s.whitelist : ~s.whitelist[i].tried
  <2>1. s \in SoundStreams
    BY <1>2
  <2>2. /\ s.name \in StreamNames /\ s.source \in Sources /\ s.actived \in BOOLEAN
        /\ s.outputs \in Seq(Outputs) /\ s.whitelist \in Seq(Outputs)
        /\ s.actived => s.source \in {"started", "private"}
        /\ \A i \in 1 .. Len(s.whitelist) : ~s.whitelist[i].tried
    BY <2>1 DEF SoundStreams
  <2>3. IsOutputList(s.outputs) /\ IsOutputList(s.whitelist)
    <3>1. \A list \in Seq(Outputs) : \A i \in DOMAIN list : list[i] \in Outputs
      OBVIOUS
    <3>2. \A list \in Seq(Outputs) : IsOutputList(list)
      BY <3>1 DEF IsOutputList, Outputs
    <3> QED BY <2>2, <3>2
  <2> QED BY <2>2, <2>3
<1>4. CoreTypeOK
  BY <1>1, <1>3 DEF CoreTypeOK, CoreInv
<1>5. OutputsAreNamedOnce
  <2>1. \A s \in AllStreams : s \in SoundStreams
    BY <1>2
  <2> QED BY <2>1, SoundIsNamedOnce DEF OutputsAreNamedOnce
<1>6. ActiveIsFed
  BY <1>3 DEF ActiveIsFed
<1> QED BY <1>4, <1>5, <1>6 DEF StreamsAreSound

(***************************************************************************)
(* Whatever is created, added, released and reset, and whether it starts   *)
(* or not: mgw_stream_add_output never lets two outputs of a stream have   *)
(* one name, although it has two lists to look in; what it puts on the     *)
(* whitelist was never started; and mgw_stream_add_source and              *)
(* mgw_stream_release_source leave no stream active without a source.      *)
(***************************************************************************)
THEOREM TreeIsSound == CoreSpec => []StreamsAreSound
  BY CoreInvInit, CoreInvNext, CoreInvSound, PTL DEF CoreSpec
=============================================================================
