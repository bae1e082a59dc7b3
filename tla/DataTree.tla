------------------------------ MODULE DataTree ------------------------------
(***************************************************************************)
(* The objects and arrays of mgw-data.c: counted references, the sorted    *)
(* list of items of an object, deep copies, and JSON.  The layout of an    *)
(* item is DataItem's; here an item is a name and its user value.          *)
(***************************************************************************)
EXTENDS Integers, Sequences, FiniteSets, SequencesExt, Functions

CONSTANTS Cells,        \* what can be allocated: numbers, taken from below
          Names,        \* numbers: strcmp is <
          Atoms,        \* strings, numbers and booleans
          MaxHeld,      \* bound: references the program holds
          MaxItems      \* bound: items in all of them

VARIABLES heap,         \* Cell -> [kind, ref, items]; kind "free" when not allocated
          held,         \* Cell -> references in variables of the program
          copied        \* the last deep copy: <<original, copy>>, a ghost

treeVars == <<heap, held, copied>>

Free == [kind |-> "free", ref |-> 0, items |-> <<>>]
Atom(a) == <<"atom", a>>
Ref(c) == <<"ref", c>>
Item(name, val) == [name |-> name, val |-> val]

NextFree(h) == CHOOSE c \in Cells : h[c].kind = "free" /\ \A d \in Cells : h[d].kind = "free" => c <= d
FreeCells(h) == {c \in Cells : h[c].kind = "free"}

mgw_data_create(h, kind) == [h EXCEPT ![NextFree(h)] = [kind |-> kind, ref |-> 1, items |-> <<>>]]

mgw_data_addref(h, val) == IF val[1] = "ref" THEN [h EXCEPT ![val[2]].ref = @ + 1] ELSE h

(* Releasing the last reference destroys, and releases what it refers to.  *)
RECURSIVE mgw_data_release(_, _)
mgw_data_release(h, val) ==
    IF val[1] # "ref" THEN h
    ELSE IF h[val[2]].ref > 1 THEN [h EXCEPT ![val[2]].ref = @ - 1]
    ELSE FoldLeft(LAMBDA g, it : mgw_data_release(g, it.val),
                  [h EXCEPT ![val[2]] = Free], h[val[2]].items)
-----------------------------------------------------------------------------
(* Items                                                                   *)

get_item(items, name) == SelectInSeq(items, LAMBDA it : it.name = name)

(* The plausible slip: the walk stops at the first that is smaller.        *)
PrevOf_Smaller(items, name) ==
    CHOOSE i \in 1..Len(items) :
       /\ i = Len(items) \/ items[i + 1].name < name
       /\ \A j \in 2..i : items[j].name >= name

(* prev in the walk of set_item_data: it stops before the first item that  *)
(* is greater, from the second on, or at the last.                         *)
PrevOf(items, name) ==
    CHOOSE i \in 1..Len(items) :
       /\ i = Len(items) \/ items[i + 1].name > name
       /\ \A j \in 2..i : items[j].name <= name

(* A new item goes behind prev if prev is smaller; otherwise it becomes    *)
(* the first, with prev as its next.                                       *)
Inserted(items, it) ==
    IF items = <<>> THEN <<it>>
    ELSE LET p == PrevOf(items, it.name)
         IN  IF items[p].name < it.name THEN InsertAt(items, p + 1, it)
             ELSE <<it>> \o SubSeq(items, p, Len(items))

(* The plausible slip: the value that was there is not released.           *)
set_item_Leaks(h, obj, name, val) ==
    LET i == get_item(h[obj].items, name)
    IN  mgw_data_addref(IF i = 0 THEN [h EXCEPT ![obj].items = Inserted(@, Item(name, val))]
                        ELSE [h EXCEPT ![obj].items[i].val = val], val)

(* set_item: the old value is released before the new one is referred to.  *)
set_item(h, obj, name, val) ==
    LET i == get_item(h[obj].items, name)
    IN  IF i = 0 THEN mgw_data_addref([h EXCEPT ![obj].items = Inserted(@, Item(name, val))], val)
        ELSE mgw_data_addref(
               [mgw_data_release(h, h[obj].items[i].val) EXCEPT ![obj].items[i].val = val], val)

(* Items of an object that have no user value are kept by mgw_data_clear.  *)
NoValue == <<"none">>
-----------------------------------------------------------------------------
(* Deep copies                                                             *)

RECURSIVE mgw_data_apply(_, _, _), CopyCell(_, _, _)

(* The new cell, filled from the old one; it is the highest reference that *)
(* copy_obj and copy_array hand to the setter and then release.            *)
CopyCell(h, kind, from) ==
    LET c == NextFree(h)
        g == mgw_data_create(h, kind)
    IN  IF kind = "object" THEN mgw_data_apply(g, c, from)
        ELSE FoldLeft(LAMBDA f, it :
                        LET d == NextFree(f)
                        IN  [CopyCell(f, "object", it.val[2]) EXCEPT ![c].items = Append(@, Item(0, Ref(d)))],
                      g, h[from].items)

(* The plausible slip: the copy shares what the original refers to.        *)
copy_item_Shares(h, target, it) ==
    IF it.val = NoValue THEN h ELSE set_item(h, target, it.name, it.val)

copy_item(h, target, it) ==
    IF it.val = NoValue THEN h
    ELSE IF it.val[1] = "atom" THEN set_item(h, target, it.name, it.val)
    ELSE LET c == NextFree(h)
             g == CopyCell(h, h[it.val[2]].kind, it.val[2])
         IN  mgw_data_release(set_item(g, target, it.name, Ref(c)), Ref(c))

mgw_data_apply(h, target, from) ==
    IF target = from THEN h
    ELSE FoldLeft(LAMBDA g, it : copy_item(g, target, it), h, h[from].items)
-----------------------------------------------------------------------------
(* JSON: an object is its named values in order, an array its elements     *)

RECURSIVE mgw_data_to_json(_, _), Below(_, _), mgw_data_add_json(_, _, _), Size(_)

mgw_data_to_json(h, c) ==
    LET shown == SelectSeq(h[c].items, LAMBDA it : it.val # NoValue)
    IN  <<h[c].kind, [i \in 1..Len(shown) |->
            <<shown[i].name, IF shown[i].val[1] = "atom" THEN shown[i].val
                             ELSE mgw_data_to_json(h, shown[i].val[2])>>]>>

(* The cells a value takes.                                                *)
Size(json) ==
    IF json[1] = "atom" THEN 0
    ELSE 1 + FoldLeft(LAMBDA n, e : n + Size(e[2]), 0, json[2])

(* A json value into the cell that was made for it, which it fills.        *)
mgw_data_add_json(h, c, json) ==
    FoldLeft(LAMBDA g, e :
        IF e[2][1] = "atom" THEN set_item(g, c, e[1], e[2])
        ELSE LET d == NextFree(g)
                 f == mgw_data_add_json(mgw_data_create(g, e[2][1]), d, e[2])
             IN  IF json[1] = "array" THEN [f EXCEPT ![c].items = Append(@, Item(0, Ref(d)))]
                 ELSE mgw_data_release(set_item(f, c, e[1], Ref(d)), Ref(d)),
        h, json[2])

(* Everything a cell refers to, at any depth.                              *)
Below(h, c) ==
    LET refs == {h[c].items[i].val[2] : i \in {j \in 1..Len(h[c].items) : h[c].items[j].val[1] = "ref"}}
    IN  refs \cup UNION {Below(h, d) : d \in refs}
-----------------------------------------------------------------------------
(* The operations of a program that holds references                       *)

Holds(c, kind) == held[c] > 0 /\ heap[c].kind = kind
Held == FoldFunction(LAMBDA a, b : a + b, 0, held)
Keep(c) == Held < MaxHeld /\ held' = [held EXCEPT ![c] = @ + 1]
Room(h) == FoldFunction(LAMBDA cell, n : n + Len(cell.items), 0, h) <= MaxItems
Acyclic(c, d) == c # d /\ c \notin Below(heap, d)

Create(kind) ==
    /\ FreeCells(heap) # {}
    /\ Keep(NextFree(heap))
    /\ heap' = mgw_data_create(heap, kind)
    /\ copied' = <<>>

mgw_data_set(c, name, val) ==
    /\ Holds(c, "object")
    /\ val[1] = "ref" => held[val[2]] > 0 /\ Acyclic(c, val[2])
    /\ heap' = set_item(heap, c, name, val)
    /\ Room(heap')
    /\ copied' = <<>>
    /\ UNCHANGED held

mgw_data_get(c, name) ==
    /\ Holds(c, "object")
    /\ LET i == get_item(heap[c].items, name)
       IN  /\ i # 0 /\ heap[c].items[i].val[1] = "ref"
           /\ heap' = mgw_data_addref(heap, heap[c].items[i].val)
           /\ Keep(heap[c].items[i].val[2])
    /\ copied' = <<>>

mgw_data_array_insert(a, idx, c) ==
    /\ Holds(a, "array") /\ Holds(c, "object") /\ Acyclic(a, c)
    /\ heap' = mgw_data_addref([heap EXCEPT ![a].items = InsertAt(@, idx, Item(0, Ref(c)))], Ref(c))
    /\ Room(heap')
    /\ copied' = <<>>
    /\ UNCHANGED held

mgw_data_array_item(a, idx) ==
    /\ Holds(a, "array")
    /\ Keep(heap[a].items[idx].val[2])
    /\ heap' = mgw_data_addref(heap, heap[a].items[idx].val)
    /\ copied' = <<>>

mgw_data_array_erase(a, idx) ==
    /\ Holds(a, "array")
    /\ heap' = mgw_data_release([heap EXCEPT ![a].items = RemoveAt(@, idx)], heap[a].items[idx].val)
    /\ copied' = <<>>
    /\ UNCHANGED held

Release(c) ==
    /\ held[c] > 0
    /\ heap' = mgw_data_release(heap, Ref(c))
    /\ held' = [held EXCEPT ![c] = @ - 1]
    /\ copied' = <<>>

mgw_data_erase(c, name) ==
    /\ Holds(c, "object")
    /\ LET i == get_item(heap[c].items, name)
       IN  /\ i # 0
           /\ heap' = mgw_data_release([heap EXCEPT ![c].items = RemoveAt(@, i)],
                                       heap[c].items[i].val)
    /\ copied' = <<>>
    /\ UNCHANGED held

mgw_data_clear(c) ==
    /\ Holds(c, "object")
    /\ heap' = FoldLeft(LAMBDA h, it : mgw_data_release(h, it.val),
                        [heap EXCEPT ![c].items = [i \in DOMAIN @ |-> [@[i] EXCEPT !.val = NoValue]]],
                        heap[c].items)
    /\ copied' = <<>>
    /\ UNCHANGED held

Apply(target, from) ==
    /\ Holds(target, "object") /\ Holds(from, "object") /\ Acyclic(target, from)
    /\ Size(mgw_data_to_json(heap, from)) <= Cardinality(FreeCells(heap)) + 1
    /\ heap' = mgw_data_apply(heap, target, from)
    /\ Room(heap')
    /\ copied' = IF heap[target].items = <<>> THEN <<mgw_data_to_json(heap, from), target>> ELSE <<>>
    /\ UNCHANGED held

(* An object is written as JSON and read into a new one.                   *)
mgw_data_create_from_json(from) ==
    /\ Holds(from, "object")
    /\ Size(mgw_data_to_json(heap, from)) <= Cardinality(FreeCells(heap))
    /\ LET c == NextFree(heap)
           json == mgw_data_to_json(heap, from)
       IN  /\ heap' = mgw_data_add_json(mgw_data_create(heap, "object"), c, json)
           /\ Room(heap')
           /\ Keep(c)
           /\ copied' = <<json, c>>

TreeInit ==
    /\ heap = [c \in Cells |-> Free]
    /\ held = [c \in Cells |-> 0]
    /\ copied = <<>>

TreeNext ==
    \/ \E kind \in {"object", "array"} : Create(kind)
    \/ \E c \in Cells :
       \/ \E name \in Names, a \in Atoms : mgw_data_set(c, name, Atom(a))
       \/ \E name \in Names, d \in Cells : mgw_data_set(c, name, Ref(d))
       \/ \E name \in Names : mgw_data_get(c, name) \/ mgw_data_erase(c, name)
       \/ \E d \in Cells : \E idx \in 1..Len(heap[c].items) + 1 : mgw_data_array_insert(c, idx, d)
       \/ \E idx \in 1..Len(heap[c].items) : mgw_data_array_item(c, idx) \/ mgw_data_array_erase(c, idx)
       \/ mgw_data_clear(c)
       \/ Release(c)
       \/ \E d \in Cells : Apply(c, d)
       \/ mgw_data_create_from_json(c)

TreeSpec == TreeInit /\ [][TreeNext]_treeVars
-----------------------------------------------------------------------------
RefersTo(h, d, c) == Cardinality({i \in 1..Len(h[d].items) : h[d].items[i].val = Ref(c)})

(* Every object and array has as many references as the program and other  *)
(* objects hold, and is freed with the last of them, through all setters,  *)
(* copies and releases.                                                    *)
TreeRefsExact ==
    \A c \in Cells :
       /\ heap[c].ref = held[c] + FoldLeft(LAMBDA n, d : n + RefersTo(heap, d, c), 0, SetToSeq(Cells))
       /\ heap[c].kind = "free" <=> heap[c].ref = 0

(* The walk of set_item_data keeps the items of an object in the order of  *)
(* their names, each name once.                                            *)
ItemsSorted ==
    \A c \in Cells : heap[c].kind = "object" =>
       \A i \in 2..Len(heap[c].items) : heap[c].items[i - 1].name < heap[c].items[i].name

(* Applying an object to an empty one, and reading back its JSON, give the *)
(* same values and share nothing with the original.                        *)
CopyIsDeep ==
    copied # <<>> =>
       /\ mgw_data_to_json(heap, copied[2]) = copied[1]
       /\ \A c \in Below(heap, copied[2]) : heap[c].ref = 1

(* Of any JSON object with enough cells: what mgw_data_create_from_json    *)
(* builds is written back as it was, a copy of it is equal and its own,    *)
(* and releasing both frees everything.                                    *)
JsonComesBack(json) ==
    LET none == [c \in Cells |-> Free]
        read == mgw_data_add_json(mgw_data_create(none, "object"), 1, json)
        c    == NextFree(read)
        both == mgw_data_apply(mgw_data_create(read, "object"), c, 1)
    IN  /\ mgw_data_to_json(read, 1) = json
        /\ mgw_data_to_json(both, 1) = json /\ mgw_data_to_json(both, c) = json
        /\ mgw_data_release(mgw_data_release(both, Ref(1)), Ref(c)) = none
=============================================================================
