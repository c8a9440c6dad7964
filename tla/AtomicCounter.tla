--------------------------- MODULE AtomicCounter ---------------------------
(***************************************************************************)
(* What a synchronised lab2_add promises: each thread's additions and then *)
(* its subtractions take effect one at a time and none is lost.            *)
(***************************************************************************)
EXTENDS Integers

CONSTANTS
    Workers,     \* the threads
    Iterations   \* the numbers of operations of each kind a thread may have to do

VARIABLES
    counter,
    added, subtracted,  \* per thread: how many of its operations are done
    limit               \* the number of operations of each kind per thread

vars == <<counter, added, subtracted, limit>>

Init ==
    /\ counter = 0
    /\ added = [t \in Workers |-> 0]
    /\ subtracted = [t \in Workers |-> 0]
    /\ limit \in Iterations

Add(t) ==
    /\ added[t] < limit
    /\ counter' = counter + 1
    /\ added' = [added EXCEPT ![t] = @ + 1]
    /\ UNCHANGED <<subtracted, limit>>

Subtract(t) ==
    /\ added[t] = limit
    /\ subtracted[t] < limit
    /\ counter' = counter - 1
    /\ subtracted' = [subtracted EXCEPT ![t] = @ + 1]
    /\ UNCHANGED <<added, limit>>

Next == \E t \in Workers : Add(t) \/ Subtract(t)

Spec == Init /\ [][Next]_vars

=============================================================================
