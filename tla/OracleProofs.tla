------------------------------ MODULE OracleProofs ------------------------------
(***************************************************************************)
(* The planner answers as the oracle says for every combination of flaws,  *)
(* where the run tries none, one or two.                                   *)
(***************************************************************************)
EXTENDS PlannerOracle, PlannerProofs

-------------------------------------------------------------------------------
(* What the flaws do to the requirements. *)

\* The inputs of a case are what Init chooses, and a decision is the planner's.
OracleInv ==
    /\ flaws \in SUBSET Flaws
    /\ request \in [policy : {"DIRECT_ONLY", "PREFER_DIRECT"}, direction : Direction,
                    size : {SizeFor(flaws)}]
    /\ class \in EndpointClass \ {"UNKNOWN"}
    /\ staging \in 0..2
    /\ support \in Support \ {"UNSUPPORTED"}
    /\ decision \in {Undecided, evaluate(request, Evidence)}

LEMMA OracleInvariant == Spec => []OracleInv
  <1>1. Init => OracleInv
    BY OracleAssumption DEF Init, OracleInv
  <1>2. OracleInv /\ [Next]_plannerVars => OracleInv'
    <2> SUFFICES ASSUME OracleInv, [Next]_plannerVars PROVE OracleInv'
      OBVIOUS
    <2>1. UNCHANGED <<request, class, flaws, staging, support>>
      BY DEF Next, Decide, plannerVars
    <2>2. Evidence' = Evidence
      BY <2>1 DEF Evidence, Current, Older, Newer
    <2>3. decision' \in {decision, evaluate(request, Evidence)}
      BY DEF Next, Decide, plannerVars
    <2>4. QED
      BY <2>1, <2>2, <2>3 DEF OracleInv
  <1>3. QED
    BY <1>1, <1>2, PTL DEF Spec

\* The flaws that each requirement is there to find, in its position.
Finds ==
    << {"no_source", "retired"}, {"oversize"}, {"no_destination", "unclassified"},
       {"no_direct_nic"}, {"unhealthy"}, {"newer_endpoint"}, {"host_memory"},
       {"no_device", "newer_device"}, {"provider_none", "provider_down"},
       {"no_capability", "says_false"}, {"unregistered"},
       {"revalidation", "superseded", "old_buffer", "old_endpoint"},
       {"dead_owner", "past_epoch"}, {"small_alignment", "odd_size"} >>

\* The flaws a requirement finds are reported by its outcome.
LEMMA OutcomesMatch ==
    ASSUME NEW req, NEW ev, NEW i \in 1..14, NEW flaw \in Finds[i]
    PROVE  flaw \in Flaws /\ Reports[flaw] = Requirements(req, ev)[i].outcome
  BY DEF Finds, Requirements, Requirement, Flaws, Reports

\* Every flaw is looked for.
LEMMA EveryFlawIsFound ==
    ASSUME NEW flaw \in Flaws
    PROVE  \E i \in 1..14 : flaw \in Finds[i]
  BY DEF Finds, Flaws, Reports

\* None of the flaws that requirement i finds was put in.
Clean(i) == \A flaw \in Finds[i] : flaw \notin flaws

Rs == Requirements(request, Evidence)

\* The requirements on buffer, size, endpoint and device.
LEMMA PlainRequirements ==
    ASSUME OracleInv
    PROVE  /\ Rs[1].holds <=> Clean(1)
           /\ Rs[2].holds <=> Clean(2)
           /\ Rs[3].holds <=> Clean(3)
           /\ Rs[4].holds <=> Clean(4)
           /\ Rs[5].holds <=> Clean(5)
           /\ Rs[7].holds <=> Clean(7)
  <1>1. Rs[1].holds <=> Clean(1)
    BY OracleAssumption DEF Rs, Requirements, Requirement, Clean, Finds, Evidence, Spoil
  <1>2. Rs[2].holds <=> Clean(2)
    <2>1. request.size = SizeFor(flaws) /\ Evidence.source.size = 128
      BY DEF OracleInv, Evidence
    <2>2. Rs[2].holds <=> request.size <= Evidence.source.size
      BY DEF Rs, Requirements, Requirement
    <2>3. Clean(2) <=> "oversize" \notin flaws
      BY DEF Clean, Finds
    <2>4. QED
      BY <2>1, <2>2, <2>3 DEF SizeFor
  <1>3. Rs[3].holds <=> Clean(3)
    <2>1. Rs[3].holds <=> /\ Evidence.destinationId # Nil
                          /\ Evidence.destination.endpoint_class # "UNKNOWN"
      BY DEF Rs, Requirements, Requirement
    <2>2. /\ Evidence.destinationId # Nil <=> "no_destination" \notin flaws
          /\ Evidence.destination.endpoint_class # "UNKNOWN" <=> "unclassified" \notin flaws
      BY OracleAssumption DEF Evidence, Spoil, OracleInv
    <2>3. Clean(3) <=> "no_destination" \notin flaws /\ "unclassified" \notin flaws
      BY DEF Clean, Finds
    <2>4. QED
      BY <2>1, <2>2, <2>3
  <1>4. Rs[4].holds <=> Clean(4)
    BY DEF Rs, Requirements, Requirement, Clean, Finds, Evidence, Spoil
  <1>5. Rs[5].holds <=> Clean(5)
    BY DEF Rs, Requirements, Requirement, Clean, Finds, Evidence, Spoil
  <1>7. Rs[7].holds <=> Clean(7)
    BY DEF Rs, Requirements, Requirement, Clean, Finds, Evidence, Spoil, is_gpu_memory
  <1> QED
    BY <1>1, <1>2, <1>3, <1>4, <1>5, <1>7

\* The requirements that look for the newest generation.
LEMMA NewestRequirements ==
    ASSUME OracleInv
    PROVE  /\ Clean(3) => (Rs[6].holds <=> Clean(6))
           /\ Rs[8].holds <=> Clean(8)
  <1>1. ASSUME NEW id, NEW generation \in Nat, NEW listed \in Nat
        PROVE  NewestGeneration({<<id, listed>>}, id, generation) <=> listed = generation
    <2> DEFINE entry == <<id, listed>>
    <2>1. entry[1] = id /\ entry[2] = listed
      OBVIOUS
    <2> HIDE DEF entry
    <2>2. {y \in {entry} : y[1] = id} = {entry}
      BY <2>1
    <2>3. {x[2] : x \in {entry}} = {listed}
      BY <2>1
    <2>4. QED
      BY <2>2, <2>3 DEF NewestGeneration, entry
  <1>2. Clean(3) => (Rs[6].holds <=> Clean(6))
    <2>1. Rs[6].holds <=> NewestGeneration(Evidence.endpoints, Evidence.destinationId,
                                           Evidence.destination.generation)
      BY DEF Rs, Requirements, Requirement
    <2>2. /\ Evidence.endpoints = {<<endpoint, IF "newer_endpoint" \in flaws THEN 3 ELSE 2>>}
          /\ Evidence.destinationId = IF "no_destination" \in flaws THEN Nil ELSE endpoint
          /\ Evidence.destination.generation = 2
      BY DEF Evidence, Spoil
    <2>3. Clean(3) => "no_destination" \notin flaws
      BY DEF Clean, Finds
    <2>4. Clean(6) <=> "newer_endpoint" \notin flaws
      BY DEF Clean, Finds
    <2>5. NewestGeneration({<<endpoint, 2>>}, endpoint, 2)
          /\ ~NewestGeneration({<<endpoint, 3>>}, endpoint, 2)
      BY <1>1
    <2>6. QED
      BY <2>1, <2>2, <2>3, <2>4, <2>5
  <1>3. Rs[8].holds <=> Clean(8)
    <2>1. Rs[8].holds <=> /\ Evidence.deviceId # Nil
                          /\ NewestGeneration(Evidence.devices, Evidence.deviceId,
                                              Evidence.deviceGeneration)
      BY DEF Rs, Requirements, Requirement
    <2>2. /\ Evidence.devices = {<<device, IF "newer_device" \in flaws THEN 2 ELSE 1>>}
          /\ Evidence.deviceId = IF "no_device" \in flaws THEN Nil ELSE device
          /\ Evidence.deviceGeneration = 1
      BY DEF Evidence, Spoil
    <2>3. Clean(8) <=> "no_device" \notin flaws /\ "newer_device" \notin flaws
      BY DEF Clean, Finds
    <2>4. NewestGeneration({<<device, 1>>}, device, 1)
          /\ ~NewestGeneration({<<device, 2>>}, device, 1)
      BY <1>1
    <2>5. QED
      BY <2>1, <2>2, <2>3, <2>4, OracleAssumption
  <1>4. QED
    BY <1>2, <1>3

\* The requirements on provider and capability, which depend on the class of
\* the endpoint.
LEMMA ProviderRequirements ==
    ASSUME OracleInv, Clean(3)
    PROVE  /\ Rs[9].holds <=> Clean(9)
           /\ Rs[10].holds <=> Clean(10)
  <1>1. Evidence.destination.endpoint_class = class
    BY DEF Clean, Finds, Evidence, Spoil
  <1>2. Rs[9].holds <=> Clean(9)
    <2>1. Rs[9].holds <=> provider_available(Evidence, provider_for(class))
      BY <1>1 DEF Rs, Requirements, Requirement
    <2> DEFINE provider == [name |-> provider_for(class), support |-> "SYNTHETIC",
                            available |-> Spoil(flaws, "provider_down", TRUE, FALSE)]
    <2>2. Evidence.providers = IF "provider_none" \in flaws THEN {} ELSE {provider}
      BY DEF Evidence, Spoil
    <2>3. /\ provider.name = provider_for(class) /\ provider.support # "UNSUPPORTED"
          /\ provider.available <=> "provider_down" \notin flaws
      BY DEF Spoil
    <2>4. Clean(9) <=> "provider_none" \notin flaws /\ "provider_down" \notin flaws
      BY DEF Clean, Finds
    <2> HIDE DEF provider
    <2>5. QED
      BY <2>1, <2>2, <2>3, <2>4 DEF provider_available
  <1>3. Rs[10].holds <=> Clean(10)
    <2>1. Rs[10].holds <=> \E c \in capability_for(Evidence, provider_for(class), cap_for(class)) :
                              c.value = "true" /\ c.support # "UNSUPPORTED"
      BY <1>1 DEF Rs, Requirements, Requirement
    <2> DEFINE direct == [provider |-> provider_for(class), capability |-> cap_for(class),
                          value |-> IF "says_false" \in flaws THEN "false" ELSE "true",
                          support |-> "SYNTHETIC", authority |-> CoordinatorAt(2)]
    <2>2. \A c \in Evidence.capabilities : c = direct \/ c.capability = "host_staging"
      BY DEF Evidence, Spoil
    <2>3. cap_for(class) # "host_staging"
      BY DEF cap_for
    <2>4. direct \in Evidence.capabilities <=> "no_capability" \notin flaws
      BY <2>3 DEF Evidence, Spoil
    <2>5. capability_for(Evidence, provider_for(class), cap_for(class))
            = IF "no_capability" \in flaws THEN {} ELSE {direct}
      BY <2>2, <2>3, <2>4 DEF capability_for
    <2>6. Clean(10) <=> "no_capability" \notin flaws /\ "says_false" \notin flaws
      BY DEF Clean, Finds
    <2>7. direct.support # "UNSUPPORTED" /\ (direct.value = "true" <=> "says_false" \notin flaws)
      OBVIOUS
    <2> HIDE DEF direct
    <2>8. QED
      BY <2>1, <2>5, <2>6, <2>7
  <1>4. QED
    BY <1>2, <1>3

\* The requirement on alignment, for a request that fits.
LEMMA AlignmentRequirement ==
    ASSUME OracleInv, Clean(2)
    PROVE  Rs[14].holds <=> Clean(14)
  <1>1. Rs[14].holds <=> /\ Evidence.source.alignment >= DirectAlignment
                         /\ request.size % Evidence.source.alignment = 0
    BY DEF Rs, Requirements, Requirement
  <1>2. /\ Evidence.source.alignment = IF "small_alignment" \in flaws THEN 32 ELSE 64
        /\ request.size = IF "odd_size" \in flaws THEN 96 ELSE 64
    BY DEF Evidence, Spoil, OracleInv, SizeFor, Clean, Finds
  <1>3. Clean(14) <=> "small_alignment" \notin flaws /\ "odd_size" \notin flaws
    BY DEF Clean, Finds
  <1>4. 96 % 64 = 32 /\ 64 % 64 = 0
    OBVIOUS
  <1>5. QED
    BY <1>1, <1>2, <1>3, <1>4 DEF DirectAlignment

\* The registration that decides: the newest, however good an older one is.
Newest == IF "superseded" \in flaws THEN Newer ELSE Current(flaws)

LEMMA NewestIsFound ==
    ASSUME OracleInv, Clean(1), Clean(3)
    PROVE  find_registration(Evidence)
             = IF "unregistered" \in flaws /\ "superseded" \notin flaws THEN {} ELSE {Newest}
  <1> DEFINE rs == Evidence.registrations
  <1>1. Evidence.sourceId = buffer /\ Evidence.destinationId = endpoint
    BY DEF Clean, Finds, Evidence, Spoil
  <1>2. rs = (IF "unregistered" \in flaws THEN {} ELSE {Older, Current(flaws)})
               \cup (IF "superseded" \in flaws THEN {Newer} ELSE {})
    BY DEF Evidence, Spoil
  <1>3. /\ Current(flaws).buffer = buffer /\ Current(flaws).endpoint = endpoint
        /\ Current(flaws).generation = 2
    BY DEF Current
  <1>4. /\ Older.buffer = buffer /\ Older.endpoint = endpoint /\ Older.generation = 1
        /\ Newer.buffer = buffer /\ Newer.endpoint = endpoint /\ Newer.generation = 3
    BY DEF Current, Older, Newer
  <1> HIDE DEF rs
  <1>5. find_registration(Evidence) =
          {r \in rs : \A q \in rs : q.generation <= r.generation}
    <2>1. \A r \in rs : r.buffer = buffer /\ r.endpoint = endpoint
      BY <1>2, <1>3, <1>4
    <2>2. QED
      BY <1>1, <2>1 DEF find_registration, rs
  <1>6. CASE "superseded" \in flaws
    BY <1>2, <1>3, <1>4, <1>5, <1>6 DEF Newest
  <1>7. CASE "superseded" \notin flaws
    BY <1>2, <1>3, <1>4, <1>5, <1>7 DEF Newest
  <1>8. QED
    BY <1>6, <1>7

\* The requirements on the registration.
LEMMA RegistrationRequirements ==
    ASSUME OracleInv, Clean(1), Clean(3)
    PROVE  /\ Rs[11].holds <=> "unregistered" \notin flaws \/ "superseded" \in flaws
           /\ Rs[11].holds => (Rs[12].holds <=> Clean(12))
           /\ Rs[11].holds /\ Clean(12) => (Rs[13].holds <=> Clean(13))
  <1> DEFINE regs == find_registration(Evidence)
  <1>1. regs = IF "unregistered" \in flaws /\ "superseded" \notin flaws THEN {} ELSE {Newest}
    BY NewestIsFound
  <1> HIDE DEF regs
  <1>2. /\ Rs[11].holds <=> regs # {}
        /\ Rs[12].holds <=> \A r \in regs : /\ r.state = "REGISTERED"
                                            /\ r.buffer_generation = Evidence.source.generation
                                            /\ r.endpoint_generation = Evidence.destination.generation
        /\ Rs[13].holds <=> \A r \in regs : AuthorityLive(r.authority, Evidence.epoch, Evidence.workers)
    BY DEF Rs, Requirements, Requirement, RegistrationMatches, regs
  <1>3. /\ Evidence.source.generation = 2 /\ Evidence.destination.generation = 2
        /\ Evidence.epoch = 2 /\ Evidence.workers = [w \in {w1} |-> 2]
    BY DEF Evidence
  <1>4. Clean(12) <=> /\ "revalidation" \notin flaws /\ "superseded" \notin flaws
                      /\ "old_buffer" \notin flaws /\ "old_endpoint" \notin flaws
    BY DEF Clean, Finds
  <1>5. Clean(12) <=> /\ Newest.state = "REGISTERED"
                      /\ Newest.buffer_generation = 2 /\ Newest.endpoint_generation = 2
    <2>1. Newer.state = "RETIRED"
      BY DEF Newer, Current
    <2>2. /\ Current(flaws).state = "REGISTERED" <=> "revalidation" \notin flaws
          /\ Current(flaws).buffer_generation = 2 <=> "old_buffer" \notin flaws
          /\ Current(flaws).endpoint_generation = 2 <=> "old_endpoint" \notin flaws
      BY DEF Current, Spoil
    <2>3. QED
      BY <1>4, <2>1, <2>2 DEF Newest
  <1>6. Clean(12) => (AuthorityLive(Newest.authority, 2, [w \in {w1} |-> 2]) <=> Clean(13))
    <2> SUFFICES ASSUME Clean(12)
                 PROVE  AuthorityLive(Newest.authority, 2, [w \in {w1} |-> 2]) <=> Clean(13)
      OBVIOUS
    <2>1. Newest.authority = [worker |-> w1, boot |-> Spoil(flaws, "dead_owner", 2, 1),
                              epoch |-> Spoil(flaws, "past_epoch", 2, 1)]
      BY <1>4 DEF Newest, Current
    <2>2. w1 # Nil
      BY OracleAssumption, NilIsNoWorker
    <2>3. Clean(13) <=> "dead_owner" \notin flaws /\ "past_epoch" \notin flaws
      BY DEF Clean, Finds
    <2>4. QED
      BY <2>1, <2>2, <2>3 DEF AuthorityLive, worker_owned, Spoil
  <1>7. QED
    BY <1>1, <1>2, <1>3, <1>5, <1>6

-------------------------------------------------------------------------------
(* From the requirements to the oracle. *)

\* A requirement that is the first to fail found one of its flaws.
LEMMA FirstFailureHasAFlaw ==
    ASSUME OracleInv, NEW i \in 1..14, ~Rs[i].holds, \A j \in 1..14 : j < i => Rs[j].holds
    PROVE  ~Clean(i)
  <1>1. i > 3 => Clean(1) /\ Clean(2) /\ Clean(3)
    BY PlainRequirements
  <1>2. i = 12 \/ i = 13 => Rs[11].holds
    OBVIOUS
  <1>3. i = 13 => Rs[12].holds
    OBVIOUS
  <1>4. i = 13 => Clean(12)
    BY <1>1, <1>2, <1>3, RegistrationRequirements
  <1>5. i = 11 => ~Clean(11)
    BY <1>1, RegistrationRequirements DEF Clean, Finds
  <1>6. i \in {12, 13} => ~Clean(i)
    BY <1>1, <1>2, <1>4, RegistrationRequirements
  <1>7. i \in {1, 2, 3, 4, 5, 7} => ~Clean(i)
    BY PlainRequirements
  <1>8. i \in {6, 8, 9, 10, 14} => ~Clean(i)
    BY <1>1, NewestRequirements, ProviderRequirements, AlignmentRequirement
  <1>9. QED
    BY <1>5, <1>6, <1>7, <1>8

\* If all requirements hold there is no flaw for them to find.
LEMMA NoFlawIsMissed ==
    ASSUME OracleInv, \A i \in 1..14 : Rs[i].holds
    PROVE  flaws = {}
  <1>1. Clean(1) /\ Clean(2) /\ Clean(3) /\ Clean(4) /\ Clean(5) /\ Clean(7)
    BY PlainRequirements
  <1>2. Clean(6) /\ Clean(8) /\ Clean(9) /\ Clean(10) /\ Clean(14)
    BY <1>1, NewestRequirements, ProviderRequirements, AlignmentRequirement
  <1>3. Clean(12)
    BY <1>1, RegistrationRequirements
  <1>4. Clean(13)
    BY <1>1, <1>3, RegistrationRequirements
  <1>5. Clean(11)
    BY <1>1, <1>3, RegistrationRequirements DEF Clean, Finds
  <1>6. \A i \in 1..14 : Clean(i)
    BY <1>1, <1>2, <1>3, <1>4, <1>5
  <1>7. flaws \subseteq Flaws
    BY DEF OracleInv
  <1>8. QED
    BY <1>6, <1>7, EveryFlawIsFound DEF Clean

\* A decision is made by the first requirement that fails, or by none.
LEMMA OracleAnswer ==
    ASSUME OracleInv
    PROVE  LET d == evaluate(request, Evidence) IN
           \/ /\ flaws = {}
              /\ d.direct_eligibility = Rs[15].outcome /\ d.eligibility = Rs[15].outcome
           \/ \E flaw \in flaws : /\ d.direct_eligibility = Reports[flaw]
                                  /\ d.direct_eligibility \notin DirectOutcome
                                  /\ d.eligibility \in {"FALLBACK_REQUIRED", d.direct_eligibility}
  <1> DEFINE d == evaluate(request, Evidence)
             deciding == Deciding(request, Evidence)
  <1>1. PICK i \in 1..15 : /\ deciding = Rs[i] /\ ~Rs[i].holds
                           /\ \A j \in 1..15 : j < i => Rs[j].holds
    BY DecidingIsFirst DEF Rs
  <1>2. /\ \A j \in 1..14 : Rs[j].outcome \notin DirectOutcome
        /\ Rs[15].outcome \in DirectOutcome
    BY RequirementList DEF Rs
  <1>3. /\ d.direct_eligibility = deciding.outcome
        /\ d.eligibility \in {"FALLBACK_REQUIRED", deciding.outcome}
        /\ deciding.outcome \in DirectOutcome => d.eligibility = deciding.outcome
    BY DEF evaluate
  <1> HIDE DEF d, deciding
  <1>4. CASE i = 15
    <2>1. \A j \in 1..14 : Rs[j].holds
      BY <1>1, <1>4
    <2>2. flaws = {}
      BY <2>1, NoFlawIsMissed
    <2>3. QED
      BY <1>1, <1>2, <1>3, <1>4, <2>2 DEF d
  <1>5. CASE i \in 1..14
    <2>1. ~Clean(i)
      BY <1>1, <1>5, FirstFailureHasAFlaw
    <2>2. PICK flaw \in Finds[i] : flaw \in flaws
      BY <2>1 DEF Clean
    <2>3. Reports[flaw] = Rs[i].outcome
      BY <1>5, OutcomesMatch DEF Rs
    <2>4. QED
      BY <1>1, <1>2, <1>3, <1>5, <2>2, <2>3 DEF d
  <1>6. QED
    BY <1>4, <1>5

\* The direct path is offered if and only if no assumption of it was spoiled,
\* however many could have been, and without reservation only on a
\* registration that is REAL.
THEOREM DirectIffFlawless == Spec => []DirectOnlyIfAllCurrent
  <1>1. OracleInv => DirectOnlyIfAllCurrent
    <2> SUFFICES ASSUME OracleInv, Decided PROVE
            /\ decision.direct_eligibility \in DirectOutcome <=> flaws = {}
            /\ decision.eligibility = "DIRECT_ALLOWED" <=> flaws = {} /\ support = "REAL"
      BY DEF DirectOnlyIfAllCurrent
    <2>1. decision = evaluate(request, Evidence)
      BY DEF OracleInv, Decided
    <2>2. Rs[15].outcome \in DirectOutcome
      BY RequirementList DEF Rs
    <2>3. flaws = {} => (Rs[15].outcome = "DIRECT_ALLOWED" <=> support = "REAL")
      <3> SUFFICES ASSUME flaws = {} PROVE Rs[15].outcome = "DIRECT_ALLOWED" <=> support = "REAL"
        OBVIOUS
      <3>1. Clean(1) /\ Clean(3)
        BY DEF Clean
      <3>2. find_registration(Evidence) = {Current(flaws)}
        BY <3>1, NewestIsFound DEF Newest
      <3>3. (CHOOSE r \in find_registration(Evidence) : TRUE).support = support
        <4>1. (CHOOSE r \in find_registration(Evidence) : TRUE) = Current(flaws)
          BY <3>2
        <4>2. Current(flaws).support = support
          BY DEF Current
        <4>3. QED
          BY <4>1, <4>2, Zenon
      <3>4. Rs[15].outcome = IF support = "REAL" THEN "DIRECT_ALLOWED" ELSE "DIRECT_ALLOWED_DEGRADED"
        BY <3>2, <3>3 DEF Rs, Requirements, Requirement
      <3>5. QED
        BY <3>4
    <2>4. QED
      BY <2>1, <2>2, <2>3, OracleAnswer DEF DirectOutcome
  <1>2. QED
    BY <1>1, OracleInvariant, PTL

\* Of any number of flaws, a rejection names one that is there.
THEOREM RejectionsNameFlaws == Spec => []RejectionNamesAFlaw
  <1>1. OracleInv => RejectionNamesAFlaw
    BY OracleAnswer DEF OracleInv, RejectionNamesAFlaw, Decided
  <1>2. QED
    BY <1>1, OracleInvariant, PTL

\* Staging is chosen only for a caller that allows it, for a direct path that
\* is spoiled, over a destination that is not, and on an observation of the
\* current epoch.
THEOREM FallbacksAreVisible == Spec => []FallbackIsVisible
  <1>1. OracleInv => FallbackIsVisible
    <2> SUFFICES ASSUME OracleInv, Decided, decision.eligibility = "FALLBACK_REQUIRED" PROVE
            /\ request.policy # "DIRECT_ONLY"
            /\ flaws # {} /\ flaws \cap {"no_destination", "unclassified", "unhealthy"} = {}
            /\ staging = 2
            /\ decision.direct_eligibility # "FALLBACK_REQUIRED"
      BY DEF FallbackIsVisible
    <2>1. decision = evaluate(request, Evidence)
      BY DEF OracleInv, Decided
    <2>2. /\ request.policy # "DIRECT_ONLY" /\ DestinationUsable(Evidence)
          /\ \E c \in Evidence.capabilities : /\ c.capability = "host_staging"
                                              /\ c.authority.epoch = Evidence.epoch
          /\ decision.direct_eligibility \notin DirectOutcome \cup {"FALLBACK_REQUIRED"}
      BY <2>1, StagingNeedsEvidence
    <2>3. flaws \cap {"no_destination", "unclassified", "unhealthy"} = {}
      BY <2>2 DEF DestinationUsable, Evidence, Spoil
    <2>4. staging = 2
      <3>1. cap_for(class) # "host_staging"
        BY DEF cap_for
      <3>2. PICK c \in Evidence.capabilities : /\ c.capability = "host_staging"
                                               /\ c.authority.epoch = Evidence.epoch
        BY <2>2
      <3>3. c.authority = CoordinatorAt(staging)
        BY <3>1, <3>2 DEF Evidence, Spoil
      <3>4. CoordinatorAt(staging).epoch = staging /\ Evidence.epoch = 2
        BY DEF CoordinatorAt, coordinator_authority, Evidence
      <3>5. QED
        BY <3>2, <3>3, <3>4
    <2>5. flaws # {}
      BY <2>1, <2>2, OracleAnswer, RequirementList DEF Rs
    <2>6. QED
      BY <2>2, <2>3, <2>4, <2>5
  <1>2. QED
    BY <1>1, OracleInvariant, PTL

\* The path class moves data the way that was asked for.
THEOREM DirectionsAreKept == Spec => []DirectionIsKept
  <1>1. OracleInv => DirectionIsKept
    BY PathKeepsDirection DEF OracleInv, DirectionIsKept, Decided
  <1>2. QED
    BY <1>1, OracleInvariant, PTL
===============================================================================
