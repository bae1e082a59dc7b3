---------------------------- MODULE DataItemSpec ----------------------------
(***************************************************************************)
(* What an item of mgw-data promises: three values of a name, each set and *)
(* unset by itself, and one that a reader is shown.                        *)
(***************************************************************************)
CONSTANTS Values, None
VARIABLE values         \* [user, default, autoselect], each a value or None

Kinds == {"user", "default", "autoselect"}

Init == \E k \in Kinds, v \in Values : values = [i \in Kinds |-> IF i = k THEN v ELSE None]

Set(k, v) == values' = [values EXCEPT ![k] = v]

Unset(k) == values' = [values EXCEPT ![k] = None]

Next == \E k \in Kinds : Unset(k) \/ \E v \in Values : Set(k, v)

Spec == Init /\ [][Next]_values
=============================================================================
