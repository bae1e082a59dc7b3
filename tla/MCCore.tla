------------------------------- MODULE MCCore -------------------------------
(***************************************************************************)
(* The objects of mgw-core on small instances, its lists and references or *)
(* its tree: Contexts with three threads, or CoreObjects with a            *)
(* configuration of two devices, of two streams and of one, and a private  *)
(* stream.                                                                 *)
(***************************************************************************)
EXTENDS Contexts, CoreObjects

VARIABLE part   \* which of the two this behaviour is of

Entry(name, source, outputs) == [name |-> name, source |-> source, outputs |-> outputs]

MCConfig ==
    LET s == CHOOSE name \in StreamNames : TRUE
        o == CHOOSE name \in OutputNames : TRUE
        sn == CHOOSE name \in Sns : TRUE
    IN  [devices |-> <<[sn |-> sn, streams |-> <<Entry(s, TRUE, <<o, o>>), Entry(s, FALSE, <<o>>)>>],
                       [sn |-> sn, streams |-> <<Entry(s, FALSE, <<>>)>>]>>,
         privates |-> <<Entry(s, TRUE, <<>>)>>]

mcVars == <<part, vars, coreVars>>

MCInit == part \in {"contexts", "objects"} /\ Init /\ CoreInit

MCNext ==
    /\ UNCHANGED part
    /\ \/ part = "contexts" /\ Next /\ UNCHANGED coreVars
       \/ part = "objects" /\ CoreNext /\ UNCHANGED vars

MCSpec == MCInit /\ [][MCNext]_mcVars

(***************************************************************************)
(* The linked list and the counts of mgw.c implement ContextSpec.          *)
(***************************************************************************)
Refines == Abstract!Spec
=============================================================================
