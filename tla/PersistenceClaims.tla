--------------------------- MODULE PersistenceClaims ---------------------------
(***************************************************************************)
(* What the repository says of persistence and the code does not keep:     *)
(* about a save that runs beside other operations, and about plans.        *)
(***************************************************************************)
EXTENDS MCPersistence

\* persist_to_file takes no lock: other operations come between the reads of
\* two registries.
ConcurrentNext == Operate \/ persist_to_file \/ read_sections(1) \/ SaveStep \/ Restart

ConcurrentSpec ==
    /\ seed_synthetic(MCDirect) /\ PersistenceInit
    /\ [][ConcurrentNext]_<<vars, diskVars>>

\* README.md:159-161: dangling references are rejected, so that nothing that
\* recover_from_file has accepted holds one.
DanglingReferencesAreRejected == phase = "RECOVERED" => Closed(Image)

\* As in the persistence run, with fallback plans.
StagedSpec ==
    /\ seed_synthetic(MCCapabilities) /\ PersistenceInit
    /\ [][PersistenceNext]_<<vars, diskVars>>

\* persistence.cpp:258 "Plans are persisted as historical metadata": a file
\* that persist_to_file wrote is accepted by recover_from_file, with all of
\* its plans.
SavedPlansAreRestored ==
    Intact(file) =>
      PlansReadable(file.image) /\ PlansRead(file.image) = PlansOf(file.image)
===============================================================================
