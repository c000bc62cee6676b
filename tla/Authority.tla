------------------------------- MODULE Authority -------------------------------
(***************************************************************************)
(* Execution authority: the token a caller presents with an operation and  *)
(* that a record keeps as its owner.  A token names a worker incarnation   *)
(* (worker, boot) and the coordinator epoch it was issued under; a token   *)
(* with no worker belongs to the coordinator itself.                       *)
(***************************************************************************)
EXTENDS Integers

CONSTANTS
    Workers,  \* worker ids that may connect
    Nil       \* the nil id: "no worker", "no registration", "no device"

ASSUME NilIsNoWorker == Nil \notin Workers

\* "not connected" in the table of live workers
NoBoot == -1

\* Authority: worker, boot and epoch
AuthorityRecord == [worker : Workers \cup {Nil}, boot : Nat, epoch : Nat]

\* coordinator_authority(): the value-initialised token
coordinator_authority == [worker |-> Nil, boot |-> 0, epoch |-> 0]

worker_owned(a) == a.worker # Nil

\* Is token a current: its epoch is the coordinator's and, if a worker owns
\* it, that worker is connected under exactly that boot id.
AuthorityLive(a, epoch, workers) ==
    /\ a.epoch = epoch
    /\ worker_owned(a) => workers[a.worker] = a.boot
===============================================================================
