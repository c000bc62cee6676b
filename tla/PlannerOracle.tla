----------------------------- MODULE PlannerOracle -----------------------------
(***************************************************************************)
(* The planner against an oracle.  Evidence in which every assumption of   *)
(* the direct path is current is spoiled in any number of ways, or none;   *)
(* what the planner must answer follows from the flaws put in, not from    *)
(* the order in which the planner looks for them.                          *)
(***************************************************************************)
EXTENDS PathPlanner

CONSTANTS
    w1,                        \* the worker that owns the registrations
    buffer, endpoint, device,  \* what the request is about
    FlawSets                   \* the combinations of flaws to try

\* Every flaw and the outcome that reports it.
Reports ==
    [retired        |-> "INVALID_BUFFER",        no_source      |-> "INVALID_BUFFER",
     oversize       |-> "NO_VALID_PATH",         no_destination |-> "NO_VALID_PATH",
     unclassified   |-> "NO_VALID_PATH",         no_direct_nic  |-> "DIRECT_UNSUPPORTED",
     unhealthy      |-> "ENDPOINT_STALE",        newer_endpoint |-> "ENDPOINT_STALE",
     host_memory    |-> "DIRECT_UNSUPPORTED",    no_device      |-> "DEVICE_STALE",
     newer_device   |-> "DEVICE_STALE",          provider_down  |-> "PROVIDER_UNAVAILABLE",
     provider_none  |-> "PROVIDER_UNAVAILABLE",  no_capability  |-> "INSUFFICIENT_EVIDENCE",
     says_false     |-> "INSUFFICIENT_EVIDENCE", unregistered   |-> "REGISTRATION_REQUIRED",
     revalidation   |-> "REGISTRATION_STALE",    superseded     |-> "REGISTRATION_STALE",
     old_buffer     |-> "REGISTRATION_STALE",    old_endpoint   |-> "REGISTRATION_STALE",
     dead_owner     |-> "REVALIDATION_REQUIRED", past_epoch     |-> "REVALIDATION_REQUIRED",
     small_alignment |-> "DIRECT_UNSUPPORTED",   odd_size       |-> "DIRECT_UNSUPPORTED"]

Flaws == DOMAIN Reports

ASSUME OracleAssumption ==
    /\ w1 \in Workers
    /\ Nil \notin {buffer, endpoint, device}
    /\ FlawSets \subseteq SUBSET Flaws

VARIABLES request, class, flaws, staging, support, decision

plannerVars == <<request, class, flaws, staging, support, decision>>

\* A value, spoiled if the flaw is among fs.
Spoil(fs, flaw, good, bad) == IF flaw \in fs THEN bad ELSE good

CoordinatorAt(e) == [coordinator_authority EXCEPT !.epoch = e]

\* Generation 2 of everything is current, under epoch 2 and boot 2 of w1.
Current(fs) ==
    [state |-> Spoil(fs, "revalidation", "REGISTERED", "REVALIDATION_REQUIRED"),
     generation |-> 2, buffer |-> buffer, endpoint |-> endpoint,
     buffer_generation |-> Spoil(fs, "old_buffer", 2, 1),
     endpoint_generation |-> Spoil(fs, "old_endpoint", 2, 1),
     authority |-> [worker |-> w1, boot |-> Spoil(fs, "dead_owner", 2, 1),
                    epoch |-> Spoil(fs, "past_epoch", 2, 1)],
     support |-> support]

Older == [Current({}) EXCEPT !.generation = 1, !.buffer_generation = 1,
                             !.state = "REVALIDATION_REQUIRED"]
Newer == [Current({}) EXCEPT !.generation = 3, !.state = "RETIRED"]

Evidence ==
    [epoch |-> 2, workers |-> [w \in {w1} |-> 2],
     sourceId |-> Spoil(flaws, "no_source", buffer, Nil),
     source |-> [lifecycle |-> Spoil(flaws, "retired", "ACTIVE", "RETIRED"), generation |-> 2,
                 domain |-> Spoil(flaws, "host_memory", "CUDA_DEVICE", "HOST_PINNED"),
                 size |-> 128, alignment |-> Spoil(flaws, "small_alignment", 64, 32),
                 support |-> "SYNTHETIC"],
     destinationId |-> Spoil(flaws, "no_destination", endpoint, Nil),
     destination |-> [endpoint_class |-> Spoil(flaws, "unclassified", class, "UNKNOWN"),
                      healthy |-> Spoil(flaws, "unhealthy", TRUE, FALSE), generation |-> 2,
                      support |-> Spoil(flaws, "no_direct_nic", "SYNTHETIC", "UNSUPPORTED")],
     deviceId |-> Spoil(flaws, "no_device", device, Nil), deviceGeneration |-> 1,
     endpoints |-> {<<endpoint, Spoil(flaws, "newer_endpoint", 2, 3)>>},
     devices |-> {<<device, Spoil(flaws, "newer_device", 1, 2)>>},
     registrations |-> Spoil(flaws, "unregistered", {Older, Current(flaws)}, {})
                         \cup Spoil(flaws, "superseded", {}, {Newer}),
     providers |-> Spoil(flaws, "provider_none",
                         {[name |-> provider_for(class), support |-> "SYNTHETIC",
                           available |-> Spoil(flaws, "provider_down", TRUE, FALSE)]}, {}),
     capabilities |->
        Spoil(flaws, "no_capability",
              {[provider |-> provider_for(class), capability |-> cap_for(class),
                value |-> Spoil(flaws, "says_false", "true", "false"),
                support |-> "SYNTHETIC", authority |-> CoordinatorAt(2)]}, {})
        \cup (IF staging = 0 THEN {} ELSE
              {[provider |-> "synthetic", capability |-> "host_staging", value |-> "true",
                support |-> "SYNTHETIC", authority |-> CoordinatorAt(staging)]})]

\* 64 fits and is aligned, 96 is odd, 192 does not fit.
SizeFor(fs) == IF "oversize" \in fs THEN 192 ELSE IF "odd_size" \in fs THEN 96 ELSE 64

Undecided == [eligibility |-> "UNDECIDED"]

Init ==
    /\ flaws \in FlawSets
    /\ request \in [policy : {"DIRECT_ONLY", "PREFER_DIRECT"}, direction : Direction,
                    size : {SizeFor(flaws)}]
    /\ class \in EndpointClass \ {"UNKNOWN"}
    /\ staging \in 0..2      \* epoch of the host_staging observation, 0 if there is none
    /\ support \in Support \ {"UNSUPPORTED"}
    /\ decision = Undecided

Decide ==
    /\ decision = Undecided
    /\ decision' = evaluate(request, Evidence)
    /\ UNCHANGED <<request, class, flaws, staging, support>>

Next == Decide
Spec == Init /\ [][Next]_plannerVars

-------------------------------------------------------------------------------
Decided == decision # Undecided

\* A direct path is offered exactly when every assumption of it is current,
\* and without reservation only on a registration known to be REAL: UNKNOWN
\* and SYNTHETIC support never become DIRECT_ALLOWED.
DirectOnlyIfAllCurrent ==
    Decided =>
      /\ decision.direct_eligibility \in DirectOutcome <=> flaws = {}
      /\ decision.eligibility = "DIRECT_ALLOWED" <=> flaws = {} /\ support = "REAL"

\* A rejection names a flaw that is really there, whatever other flaws hide
\* behind it, and an older registration never stands in for the newest.
RejectionNamesAFlaw ==
    Decided /\ flaws # {} =>
      \E flaw \in flaws : decision.direct_eligibility = Reports[flaw]

\* Staging replaces a rejected path only when the caller allows it, the
\* destination is usable and staging was observed in the current epoch; it
\* never hides why the direct path was rejected.
FallbackIsVisible ==
    Decided /\ decision.eligibility = "FALLBACK_REQUIRED" =>
      /\ request.policy # "DIRECT_ONLY"
      /\ flaws # {} /\ flaws \cap {"no_destination", "unclassified", "unhealthy"} = {}
      /\ staging = 2
      /\ decision.direct_eligibility # "FALLBACK_REQUIRED"

\* The path class chosen, direct or staged, moves data in the direction that
\* was asked for, as path_direction_suffix reads it.  A path between two
\* accelerators has no direction in its class.
DirectionIsKept ==
    Decided /\ decision.path_class # "GPU_TO_GPU_DIRECT" =>
      (path_direction_suffix(decision.path_class) = "to_gpu" <=> request.direction = "PEER_TO_GPU")
===============================================================================
