--------------------------- MODULE RegistrationLease ---------------------------
(***************************************************************************)
(* What the coordinator promises about registrations: for each (buffer,    *)
(* endpoint) pair there is one lease.  It is granted only while it is not  *)
(* held, every grant carries the next generation, and anything else that   *)
(* happens - death of a worker, a new epoch, a new generation of buffer or *)
(* endpoint, retirement, deregistration - can only take leases away.       *)
(***************************************************************************)
EXTENDS Naturals
CONSTANT Pairs
VARIABLES
    generation,  \* generation of the last grant of each pair, 0 before the first
    held         \* the pairs whose lease is held

leaseVars == <<generation, held>>

Init ==
    /\ generation = [x \in Pairs |-> 0]
    /\ held = {}

Grant(x) ==
    /\ x \notin held
    /\ generation' = [generation EXCEPT ![x] = @ + 1]
    /\ held' = held \cup {x}

Revoke ==
    /\ held' \in SUBSET held
    /\ UNCHANGED generation

Next == Revoke \/ \E x \in Pairs : Grant(x)

Spec == Init /\ [][Next]_leaseVars
===============================================================================
