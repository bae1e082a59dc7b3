---------------------------- MODULE ContextSpec ----------------------------
(***************************************************************************)
(* What the lists of objects and their references promise, whatever the    *)
(* pointers look like: a list to whose front objects are added and from    *)
(* which any of them may go, and for every object the number of those who  *)
(* own it.  Only an object somebody owns can be acquired, and an object    *)
(* leaves the list after its last owner has gone.                          *)
(***************************************************************************)
EXTENDS Naturals, Sequences

CONSTANT Nodes

VARIABLES
    list,   \* the objects that can be found, the newest first
    owners  \* owners[n]: how many own n

Listed(n) == \E i \in DOMAIN list : list[i] = n

Init == list = <<>> /\ owners = [n \in Nodes |-> 0]

Create(n) ==
    /\ owners[n] = 0 /\ ~Listed(n)
    /\ list' = <<n>> \o list
    /\ owners' = [owners EXCEPT ![n] = 1]

Acquire(n) ==
    /\ owners[n] > 0
    /\ owners' = [owners EXCEPT ![n] = @ + 1]
    /\ UNCHANGED list

Drop(n) ==
    /\ owners[n] > 0
    /\ owners' = [owners EXCEPT ![n] = @ - 1]
    /\ UNCHANGED list

Unlist(n) ==
    /\ owners[n] = 0 /\ Listed(n)
    /\ list' = SelectSeq(list, LAMBDA m : m # n)
    /\ UNCHANGED owners

Next == \E n \in Nodes : Create(n) \/ Acquire(n) \/ Drop(n) \/ Unlist(n)

Spec == Init /\ [][Next]_<<list, owners>>
=============================================================================
