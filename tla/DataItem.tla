------------------------------ MODULE DataItem ------------------------------
(***************************************************************************)
(* One item of mgw-data.c as it lies in memory: a single allocation holds  *)
(* the user value, the default and the autoselect value one after another. *)
(* mem is what follows the header and the name; cell i + 1 is offset i.    *)
(*                                                                         *)
(* All values of an item have its type.  Setting a user value of another   *)
(* type over a default retypes the default too, and a default object is    *)
(* not counted without a user value: the gateway sets neither, and they    *)
(* are not inputs here.                                                    *)
(***************************************************************************)
EXTENDS Integers, Sequences, FiniteSets

CONSTANTS Strings,      \* values: sequences of bytes
          Pointers,     \* objects an item can refer to; a pointer is one cell
          Align,        \* base_get_alignment
          Garbage,      \* a byte nobody wrote
          None

VARIABLES item,         \* type, sizes, lengths and capacity, as in the struct
          mem,
          ref           \* references to each object; its owner keeps one

itemVars == <<item, mem, ref>>

get_align_size(size) == ((size + Align - 1) \div Align) * Align

(* Offsets.                                                                *)
get_data_ptr(it) == 0
get_default_data_ptr(it) == it.data_len
get_autoselect_data_ptr(it) == it.data_len + it.default_len

mgw_data_item_total_size(it) == it.data_len + it.default_len + it.autoselect_size

Slice(m, at, n) == SubSeq(m, at + 1, at + n)

(* memcpy and memmove within the allocation.                               *)
Write(m, at, bytes) ==
    [i \in 1..Len(m) |-> IF i > at /\ i <= at + Len(bytes) THEN bytes[i - at] ELSE m[i]]
Move(m, to, from, n) == Write(m, to, Slice(m, from, n))

(* The plausible slip: the autoselect value is not counted.                *)
mgw_data_item_ensure_capacity_NoAuto(m, it) ==
    LET n == it.data_len + it.default_len
    IN  IF Len(m) >= n THEN m ELSE [i \in 1..n |-> IF i <= Len(m) THEN m[i] ELSE Garbage]

(* brealloc: the new cells hold anything.                                  *)
mgw_data_item_ensure_capacity(m, it) ==
    IF Len(m) >= mgw_data_item_total_size(it) THEN m
    ELSE [i \in 1..mgw_data_item_total_size(it) |-> IF i <= Len(m) THEN m[i] ELSE Garbage]

(* What get_item_data shows: whatever comes first.                         *)
get_item_data(it, m) ==
    CASE it.data_size > 0       -> Slice(m, get_data_ptr(it), it.data_size)
      [] it.data_size = 0 /\ it.default_size > 0 -> Slice(m, get_data_ptr(it), it.default_size)
      [] OTHER                  -> Slice(m, get_data_ptr(it), it.autoselect_size)

get_item_default_data(it, m) ==
    IF it.default_size = 0 THEN None ELSE Slice(m, get_default_data_ptr(it), it.default_size)

get_item_autoselect_data(it, m) ==
    IF it.autoselect_size = 0 THEN None
    ELSE Slice(m, get_autoselect_data_ptr(it), it.autoselect_size)

has_user_value(it) == it.data_size > 0

(* References follow the pointer that the user value holds.                *)
Counted(r, it, m, by) ==
    IF it.type # "object" \/ ~has_user_value(it) THEN r
    ELSE [r EXCEPT ![get_item_data(it, m)[1]] = @ + by]

item_data_release(r, it, m) == Counted(r, it, m, -1)
item_data_addref(r, it, m) == Counted(r, it, m, 1)

Inputs(type) == IF type = "object" THEN {<<p>> : p \in Pointers} ELSE Strings
-----------------------------------------------------------------------------
mgw_data_item_create ==
    \E type \in {"string", "object"}, kind \in {"user", "default", "autoselect"} :
    \E data \in Inputs(type) :
       LET n == Len(data)
           it == [type |-> type,
                  data_len |-> IF kind = "user" THEN n ELSE 0,
                  data_size |-> IF kind = "user" THEN n ELSE 0,
                  default_len |-> IF kind = "default" THEN n ELSE 0,
                  default_size |-> IF kind = "default" THEN n ELSE 0,
                  autoselect_size |-> IF kind = "autoselect" THEN n ELSE 0]
       IN  /\ type = "object" => kind = "user"
           /\ item = it /\ mem = data
           /\ ref = item_data_addref([p \in Pointers |-> 1], it, data)

(* Room for the new lengths, and what follows the user value after it.     *)
Resized(it, from) ==
    LET grown == mgw_data_item_ensure_capacity(mem, it)
    IN  IF it.default_size > 0 \/ it.autoselect_size > 0
        THEN Move(grown, get_default_data_ptr(it), from, it.default_len + it.autoselect_size)
        ELSE grown

mgw_data_item_setdata(data) ==
    LET it == [item EXCEPT !.data_size = Len(data),
                           !.data_len = IF item.default_size > 0 \/ item.autoselect_size > 0
                                        THEN get_align_size(Len(data)) ELSE Len(data)]
        m == Write(Resized(it, get_default_data_ptr(item)), get_data_ptr(it), data)
    IN  /\ item' = it /\ mem' = m
        /\ ref' = item_data_addref(item_data_release(ref, item, mem), it, m)

(* The plausible slip: the lengths before it are aligned, not moved.       *)
mgw_data_item_set_default_data_Still(data) ==
    LET it == [item EXCEPT !.default_size = Len(data),
                           !.default_len = IF item.autoselect_size > 0
                                           THEN get_align_size(Len(data)) ELSE Len(data),
                           !.data_len = get_align_size(item.data_size)]
    IN  /\ item' = it
        /\ mem' = Write(mgw_data_item_ensure_capacity(mem, it), get_default_data_ptr(it), data)
        /\ UNCHANGED ref

mgw_data_item_set_default_data(data) ==
    LET it == [item EXCEPT !.default_size = Len(data),
                           !.default_len = IF item.autoselect_size > 0
                                           THEN get_align_size(Len(data)) ELSE Len(data),
                           !.data_len = get_align_size(item.data_size)]
        grown == mgw_data_item_ensure_capacity(mem, it)
        m == IF item.autoselect_size = 0 THEN grown
             ELSE Move(grown, get_autoselect_data_ptr(it), get_autoselect_data_ptr(item),
                       item.autoselect_size)
    IN  /\ item' = it
        /\ mem' = Write(m, get_default_data_ptr(it), data)
        /\ UNCHANGED ref

mgw_data_item_set_autoselect_data(data) ==
    LET it == [item EXCEPT !.autoselect_size = Len(data),
                           !.data_len = get_align_size(item.data_size),
                           !.default_len = get_align_size(item.default_size)]
    IN  /\ item' = it
        /\ mem' = Write(mgw_data_item_ensure_capacity(mem, it), get_autoselect_data_ptr(it), data)
        /\ UNCHANGED ref

(* The plausible slip: the room of the value is kept, so nothing moves.    *)
mgw_data_item_unset_user_value_Stays ==
    /\ item.data_size > 0
    /\ item' = [item EXCEPT !.data_size = 0]
    /\ ref' = item_data_release(ref, item, mem)
    /\ UNCHANGED mem

mgw_data_item_unset_user_value ==
    /\ item.data_size > 0
    /\ LET it == [item EXCEPT !.data_size = 0, !.data_len = 0]
       IN  /\ item' = it
           /\ mem' = Move(mem, get_default_data_ptr(it), get_default_data_ptr(item),
                          it.default_len + it.autoselect_size)
           /\ ref' = item_data_release(ref, item, mem)

(* What mgw_data_clear does to each item.                                  *)
clear_item ==
    /\ item.data_len > 0
    /\ item' = [item EXCEPT !.data_size = 0, !.data_len = 0]
    /\ mem' = Move(mem, get_data_ptr(item), get_data_ptr(item) + item.data_len,
                   item.default_len + item.autoselect_size)
    /\ ref' = item_data_release(ref, item, mem)

mgw_data_item_unset_default_value ==
    /\ item.default_size > 0
    /\ LET it == [item EXCEPT !.default_size = 0, !.default_len = 0]
       IN  /\ item' = it
           /\ mem' = Move(mem, get_autoselect_data_ptr(it), get_autoselect_data_ptr(item),
                          it.autoselect_size)
    /\ UNCHANGED ref

mgw_data_item_unset_autoselect_value ==
    /\ item.autoselect_size > 0
    /\ item' = [item EXCEPT !.autoselect_size = 0]
    /\ UNCHANGED <<mem, ref>>

ItemInit == mgw_data_item_create

ItemNext ==
    \/ \E data \in Inputs(item.type) : mgw_data_item_setdata(data)
    \/ \E data \in Strings : /\ item.type = "string"
                             /\ mgw_data_item_set_default_data(data)
    \/ \E data \in Strings : /\ item.type = "string"
                             /\ mgw_data_item_set_autoselect_data(data)
    \/ mgw_data_item_unset_user_value
    \/ clear_item
    \/ mgw_data_item_unset_default_value
    \/ mgw_data_item_unset_autoselect_value

ItemSpec == ItemInit /\ [][ItemNext]_itemVars
-----------------------------------------------------------------------------
ValuesOf ==
    [user |-> IF has_user_value(item) THEN get_item_data(item, mem) ELSE None,
     default |-> get_item_default_data(item, mem),
     autoselect |-> get_item_autoselect_data(item, mem)]

(* A getter is shown the user value, without one the default, without that *)
(* the autoselect value, although get_item_data always reads the start.    *)
ShownInOrder ==
    LET v == ValuesOf
    IN  \A k \in {"user", "default", "autoselect"} :
          /\ v[k] # None
          /\ k # "user" => v["user"] = None
          /\ k = "autoselect" => v["default"] = None
          => get_item_data(item, mem) = v[k]

(* All regions lie inside the allocation, and an object has one reference  *)
(* of its owner and one of the item if that refers to it.                  *)
ItemSound ==
    /\ mgw_data_item_total_size(item) <= Len(mem)
    /\ item.data_size <= item.data_len /\ item.default_size <= item.default_len
    /\ \A p \in Pointers :
          ref[p] = IF item.type = "object" /\ ValuesOf.user = <<p>> THEN 2 ELSE 1
=============================================================================
