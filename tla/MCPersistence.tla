----------------------------- MODULE MCPersistence -----------------------------
(***************************************************************************)
(* Small instances of a coordinator with its state file for TLC.           *)
(***************************************************************************)
EXTENDS Persistence, MCCoordinator

MCDefault == Limits(8)

\* A bound on the instance: endpoints stay healthy and no capability is revoked,
\* which doubles the states for each and is saved and restored as it is, and
\* endpoints are replaced under the first epoch only.
NoFlapping ==
    /\ \A e \in EndpointIds : endpoints'[e].present => endpoints'[e].healthy
    /\ endpoints' # endpoints => phase' # phase \/ epoch = 1
    /\ capabilities \ capabilities' # {} => phase' # phase

\* The first process is seeded from the synthetic backend.
PersistenceSpec ==
    /\ seed_synthetic(MCDirect)
    /\ PersistenceInit
    /\ [][PersistenceNext /\ NoFlapping]_<<vars, diskVars>>
===============================================================================
