------------------------------ MODULE DurableStore ------------------------------
(***************************************************************************)
(* What persist_to_file and recover_from_file promise together: the state  *)
(* file is one atomic register.  A save makes it the live state, whole; a  *)
(* crash costs what happened since the last save and nothing else; a       *)
(* restart continues from the last save, and from nothing only if there    *)
(* never was one.                                                          *)
(***************************************************************************)
VARIABLES
    live,   \* the state of the running process, None while there is no process
    stored  \* the state on disk, None before the first save

storeVars == <<live, stored>>

None == [kind |-> "NONE"]

Init == live # None /\ stored = None

Work ==
    /\ live # None /\ live' # None
    /\ UNCHANGED stored

Save ==
    /\ live # None
    /\ stored' = live
    /\ UNCHANGED live

Crash ==
    /\ live' = None
    /\ UNCHANGED stored

Restart ==
    /\ live = None
    /\ IF stored = None THEN live' # None ELSE live' = stored
    /\ UNCHANGED stored

Next == Work \/ Save \/ Crash \/ Restart

Spec == Init /\ [][Next]_storeVars
===============================================================================
