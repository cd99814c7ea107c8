------------------------------ MODULE Catalogue ------------------------------
(***************************************************************************)
(* What the rest of the program relies on in the definition database: a    *)
(* module definition is there as a whole or not at all, and a load takes   *)
(* out or puts in one definition at a time.                                *)
(***************************************************************************)
CONSTANTS
    Uuids,      \* of module definitions
    Contents,   \* what a definition file may say
    Nothing     \* no definition

VARIABLE catalogue

Init == catalogue = [u \in Uuids |-> Nothing]

Remove(u) ==
    /\ catalogue[u] # Nothing
    /\ catalogue' = [catalogue EXCEPT ![u] = Nothing]

Publish(u, c) ==
    /\ catalogue[u] = Nothing
    /\ catalogue' = [catalogue EXCEPT ![u] = c]

Next == \E u \in Uuids : Remove(u) \/ \E c \in Contents : Publish(u, c)

Spec == Init /\ [][Next]_catalogue
=============================================================================
