------------------------------ MODULE PathPlanner ------------------------------
(***************************************************************************)
(* PathPlanner::evaluate as a pure operator: from a request and a snapshot *)
(* of the evidence to a decision.  The requirements are a list in the      *)
(* order the code tests them; the first that fails decides why the direct  *)
(* path is rejected.  Texts and provenance labels are left out.            *)
(*                                                                         *)
(* Evidence is a record                                                    *)
(*   epoch, workers          the coordinator's epoch and live workers      *)
(*   sourceId, source        the source buffer (Nil if there is none)      *)
(*   destinationId, destination   the endpoint (Nil if there is none)      *)
(*   deviceId, deviceGeneration   the source's device (Nil if there is none)*)
(*   endpoints, devices      sets of <<id, generation>>                    *)
(*   registrations           set of registration records                   *)
(*   providers               set of [name, available, support]             *)
(*   capabilities            set of [provider, capability, value, support, *)
(*                           authority]                                    *)
(***************************************************************************)
EXTENDS Authority, Sequences, FiniteSets

Support == {"REAL", "SYNTHETIC", "UNSUPPORTED", "UNKNOWN"}
EndpointClass == {"NIC", "STORAGE", "PEER_DEVICE", "HOST", "UNKNOWN"}
PathPolicy == {"DIRECT_ONLY", "PREFER_DIRECT", "ALLOW_STAGING", "BEST_AVAILABLE"}
Direction == {"GPU_TO_PEER", "PEER_TO_GPU"}

MemoryDomain ==
    {"HOST_PAGEABLE", "HOST_PINNED", "CUDA_DEVICE", "CUDA_MANAGED", "PEER_DEVICE",
     "REGISTERED_GPU_MEMORY", "REGISTERED_HOST_MEMORY", "STORAGE_VISIBLE_BUFFER",
     "NIC_VISIBLE_BUFFER", "UNKNOWN"}

is_gpu_memory(d) == d \in {"CUDA_DEVICE", "CUDA_MANAGED", "REGISTERED_GPU_MEMORY"}

DirectOutcome == {"DIRECT_ALLOWED", "DIRECT_ALLOWED_DEGRADED"}
PathEligibility == DirectOutcome \cup
    {"DIRECT_UNSUPPORTED", "REGISTRATION_REQUIRED", "REGISTRATION_STALE",
     "ENDPOINT_STALE", "DEVICE_STALE", "PROVIDER_UNAVAILABLE",
     "FALLBACK_REQUIRED", "NO_VALID_PATH", "REVALIDATION_REQUIRED",
     "INSUFFICIENT_EVIDENCE", "INVALID_BUFFER"}

\* The alignment below which no direct path is offered.
DirectAlignment == 64

-------------------------------------------------------------------------------
provider_for(cls) ==
    CASE cls = "NIC"         -> "rdma"
      [] cls = "STORAGE"     -> "storage"
      [] cls = "PEER_DEVICE" -> "cuda"
      [] OTHER               -> "host"

cap_for(cls) ==
    CASE cls = "NIC"         -> "direct_nic"
      [] cls = "STORAGE"     -> "direct_storage"
      [] cls = "PEER_DEVICE" -> "peer_memory"
      [] OTHER               -> "direct_host"

classify_direct_Fault(direction, cls) ==
    CASE cls = "PEER_DEVICE" -> "GPU_TO_GPU_DIRECT"
      [] cls = "STORAGE"     -> "GPU_TO_STORAGE_DIRECT"
      [] OTHER               -> "GPU_TO_NIC_DIRECT"

classify_direct(direction, cls) ==
    CASE cls = "PEER_DEVICE" -> "GPU_TO_GPU_DIRECT"
      [] cls = "STORAGE" ->
           IF direction = "GPU_TO_PEER" THEN "GPU_TO_STORAGE_DIRECT"
                                        ELSE "STORAGE_TO_GPU_DIRECT"
      [] OTHER ->
           IF direction = "GPU_TO_PEER" THEN "GPU_TO_NIC_DIRECT"
                                        ELSE "NIC_TO_GPU_DIRECT"

\* The path class of the staging candidate add_fallback_candidates selects.
add_fallback_candidates(direction, cls) ==
    CASE cls = "NIC" ->
           IF direction = "GPU_TO_PEER" THEN "GPU_TO_HOST_STAGED_TO_NIC"
                                        ELSE "NIC_TO_HOST_STAGED_TO_GPU"
      [] cls = "STORAGE" ->
           IF direction = "GPU_TO_PEER" THEN "GPU_TO_HOST_STAGED_TO_STORAGE"
                                        ELSE "STORAGE_TO_HOST_STAGED_TO_GPU"
      [] OTHER ->
           IF direction = "GPU_TO_PEER" THEN "GPU_TO_HOST_PINNED"
                                        ELSE "HOST_PINNED_TO_GPU"

path_direction_suffix(class) ==
    IF class \in {"NIC_TO_GPU_DIRECT", "STORAGE_TO_GPU_DIRECT", "HOST_PINNED_TO_GPU",
                  "NIC_TO_HOST_STAGED_TO_GPU", "STORAGE_TO_HOST_STAGED_TO_GPU"}
    THEN "to_gpu" ELSE "from_gpu"

-------------------------------------------------------------------------------
(* What the planner looks up in the evidence. *)

\* latest_endpoint, latest_device: the highest generation listed for this id,
\* if there is one, is the given generation.
NewestGeneration(entries, id, generation) ==
    LET listed == {x[2] : x \in {y \in entries : y[1] = id}}
    IN  listed # {} => generation \in listed /\ \A g \in listed : g <= generation

find_registration_Fault(ev) ==
    {r \in ev.registrations :
        /\ r.buffer = ev.sourceId /\ r.endpoint = ev.destinationId
        /\ \A q \in ev.registrations :
              q.buffer = r.buffer /\ q.endpoint = r.endpoint => q.generation >= r.generation}

find_registration(ev) ==
    {r \in ev.registrations :
        /\ r.buffer = ev.sourceId /\ r.endpoint = ev.destinationId
        /\ \A q \in ev.registrations :
              q.buffer = r.buffer /\ q.endpoint = r.endpoint => q.generation <= r.generation}

RegistrationMatches_Fault(r, ev) ==
    /\ r.buffer_generation = ev.source.generation
    /\ r.endpoint_generation = ev.destination.generation

\* An active registration of the current generations.
RegistrationMatches(r, ev) ==
    /\ r.state = "REGISTERED"
    /\ r.buffer_generation = ev.source.generation
    /\ r.endpoint_generation = ev.destination.generation

host_staging_available_Fault(ev) ==
    \E c \in ev.capabilities :
        c.capability = "host_staging" /\ c.value = "true" /\ c.support # "UNSUPPORTED"

host_staging_available(ev) ==
    \E c \in ev.capabilities :
        /\ c.capability = "host_staging" /\ c.value = "true"
        /\ c.support # "UNSUPPORTED"
        /\ c.authority.epoch = ev.epoch

provider_available_Fault(ev, name) == \E p \in ev.providers : p.name = name

provider_available(ev, name) ==
    \E p \in ev.providers : p.name = name /\ p.available /\ p.support # "UNSUPPORTED"

capability_for(ev, provider, capability) ==
    {c \in ev.capabilities : c.provider = provider /\ c.capability = capability}

\* Staging still traverses the destination endpoint.
DestinationUsable(ev) ==
    /\ ev.destinationId # Nil
    /\ ev.destination.healthy
    /\ ev.destination.endpoint_class # "UNKNOWN"
-------------------------------------------------------------------------------
(* The requirements of the direct path in the order they are tested: what   *)
(* holds, the outcome if it does not, and the support class the decision is  *)
(* left with in that case.                                                   *)
Requirement(holds, outcome, support) ==
    [holds |-> holds, outcome |-> outcome, support |-> support]

Requirements(req, ev) ==
    LET src == ev.source
        dst == ev.destination
        provider == provider_for(dst.endpoint_class)
        caps == capability_for(ev, provider, cap_for(dst.endpoint_class))
        capSupport == IF caps = {} THEN "UNSUPPORTED" ELSE (CHOOSE c \in caps : TRUE).support
        regs == find_registration(ev)
        regSupport == IF regs = {} THEN capSupport ELSE (CHOOSE r \in regs : TRUE).support
    IN  << Requirement(ev.sourceId # Nil /\ src.lifecycle = "ACTIVE",
                       "INVALID_BUFFER", "UNKNOWN"),
           Requirement(req.size <= src.size, "NO_VALID_PATH", "UNKNOWN"),
           Requirement(ev.destinationId # Nil /\ dst.endpoint_class # "UNKNOWN",
                       "NO_VALID_PATH", "UNKNOWN"),
           Requirement(dst.support # "UNSUPPORTED", "DIRECT_UNSUPPORTED", "UNSUPPORTED"),
           Requirement(dst.healthy, "ENDPOINT_STALE", "UNKNOWN"),
           Requirement(NewestGeneration(ev.endpoints, ev.destinationId, dst.generation),
                       "ENDPOINT_STALE", "UNKNOWN"),
           Requirement(is_gpu_memory(src.domain), "DIRECT_UNSUPPORTED", "UNKNOWN"),
           Requirement(/\ ev.deviceId # Nil
                       /\ NewestGeneration(ev.devices, ev.deviceId, ev.deviceGeneration),
                       "DEVICE_STALE", src.support),
           Requirement(provider_available(ev, provider), "PROVIDER_UNAVAILABLE", "UNSUPPORTED"),
           Requirement(\E c \in caps : c.value = "true" /\ c.support # "UNSUPPORTED",
                       "INSUFFICIENT_EVIDENCE", capSupport),
           Requirement(regs # {}, "REGISTRATION_REQUIRED", capSupport),
           Requirement(\A r \in regs : RegistrationMatches(r, ev), "REGISTRATION_STALE", capSupport),
           Requirement(\A r \in regs : AuthorityLive(r.authority, ev.epoch, ev.workers),
                       "REVALIDATION_REQUIRED", capSupport),
           Requirement(src.alignment >= DirectAlignment /\ req.size % src.alignment = 0,
                       "DIRECT_UNSUPPORTED", regSupport),
           \* nothing failed: a REAL registration is allowed, any other degraded
           Requirement(FALSE, IF regSupport = "REAL" THEN "DIRECT_ALLOWED"
                                                     ELSE "DIRECT_ALLOWED_DEGRADED",
                       regSupport) >>

\* The requirement that decides: the first that does not hold.
Deciding(req, ev) ==
    LET rs == Requirements(req, ev)
        failed == {i \in DOMAIN rs : ~rs[i].holds}
    IN  rs[CHOOSE i \in failed : \A j \in failed : i <= j]

FallbackAllowed_Fault(req, ev) == DestinationUsable(ev) /\ host_staging_available(ev)

\* A rejected direct path may be replaced by staging.
FallbackAllowed(req, ev) ==
    /\ req.policy # "DIRECT_ONLY"
    /\ DestinationUsable(ev)
    /\ host_staging_available(ev)

evaluate(req, ev) ==
    LET d == Deciding(req, ev)
        fallback == d.outcome \notin DirectOutcome /\ FallbackAllowed(req, ev)
    IN  [eligibility        |-> IF fallback THEN "FALLBACK_REQUIRED" ELSE d.outcome,
         direct_eligibility |-> d.outcome,
         support            |-> d.support,
         fallback_available |-> fallback,
         path_class |-> IF fallback
                        THEN add_fallback_candidates(req.direction, ev.destination.endpoint_class)
                        ELSE classify_direct(req.direction, ev.destination.endpoint_class),
         source_generation      |-> ev.source.generation,
         destination_generation |-> ev.destination.generation]
===============================================================================
