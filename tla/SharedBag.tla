----------------------------- MODULE SharedBag -----------------------------
(***************************************************************************)
(* What a synchronised lab2_list promises: the elements are in one bag, an *)
(* insertion puts one in, and the removal a thread does for an element     *)
(* takes out one with the same key, which need not be the same element.    *)
(***************************************************************************)
EXTENDS Integers, FiniteSets

CONSTANTS Items   \* all elements there may be

VARIABLES
    key,        \* the key of each element, never changed
    bag,        \* the elements in the lists
    inserted,   \* the elements whose insertion is done
    removed     \* the elements for which a removal is done

vars == <<key, bag, inserted, removed>>

Init ==
    /\ bag = {}
    /\ inserted = {}
    /\ removed = {}

Insert(e) ==
    /\ e \in DOMAIN key \ inserted
    /\ bag' = bag \cup {e}
    /\ inserted' = inserted \cup {e}
    /\ UNCHANGED <<key, removed>>

\* There always is one to take out: nobody else took the last one of the key.
Remove(e) ==
    /\ e \in inserted \ removed
    /\ \E x \in bag : key[x] = key[e] /\ bag' = bag \ {x}
    /\ removed' = removed \cup {e}
    /\ UNCHANGED <<key, inserted>>

Next == \E e \in Items : Insert(e) \/ Remove(e)

Spec == Init /\ [][Next]_vars

=============================================================================
