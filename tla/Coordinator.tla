------------------------------ MODULE Coordinator ------------------------------
(***************************************************************************)
(* The coordinator's registries and every operation that changes them.     *)
(* Each public operation takes the one mutex for its whole body and is one *)
(* action; plan_transfer alone takes it twice, once to copy the evidence   *)
(* and once to commit, and is two actions with the decision of the first   *)
(* kept in `pending`.  A call that returns an error changes nothing and is *)
(* the negation of a guard.                                                *)
(*                                                                         *)
(* A registry is a total function from a pool of ids; an id that is not in *)
(* the code's map has the "NONE" record.  Freshness counters, names, texts *)
(* and provenance labels are written and never read by the control and are *)
(* left out, as is the provider of a registration, which only chooses      *)
(* between two error texts.                                                *)
(*                                                                         *)
(* Operators named X_Fault are not part of the specification: each is X    *)
(* with a plausible slip in it, kept to show that the properties notice.   *)
(***************************************************************************)
EXTENDS PathPlanner

CONSTANTS
    BufferIds, EndpointIds, DeviceIds, RegistrationIds, PlanIds, AttemptIds, \* pools of ids
    Callers,            \* threads that call plan_transfer
    Authorities,        \* tokens that callers present
    Boots,              \* boot ids that workers say hello with
    MaxEpoch,           \* bound on advance_epoch
    MaxGeneration,      \* bound on every generation counter
    BufferShapes,       \* create_buffer: [domain, size, alignment, device, support]
    EndpointShapes,     \* add_endpoint: [endpoint_class, healthy, support]
    ProviderUpdates,    \* add_provider: [name, available, support]
    CapabilityUpdates,  \* publish_capability: [provider, capability, value, support]
    Requests,           \* plan_transfer: [policy, direction, size]
    RegistrationSupport,\* support classes a backend (or the caller) gives a registration
    Outcomes,           \* what Backend::run_transfer reports: [failed, moved, checked, passed]
    LimitSettings,      \* set_limits: [buffers, registrations, endpoints, plans, attempts]
    IdSources           \* where callers have registration ids from: members of IdSource

ASSUME IdAssumption ==
    /\ Nil \notin BufferIds \cup EndpointIds \cup DeviceIds
    /\ Nil \notin RegistrationIds \cup PlanIds \cup AttemptIds

\* A registration gets the id its backend returns or, if there is no backend,
\* the coordinator's next one.  Each of the two has a counter of its own.
IdSource == {"backend", "coordinator"}

ASSUME InputAssumption ==
    /\ Authorities \subseteq AuthorityRecord
    /\ Boots \subseteq Nat
    /\ MaxEpoch \in Nat /\ MaxGeneration \in Nat
    /\ BufferShapes \subseteq [domain : MemoryDomain, size : Nat, alignment : Nat,
                               device : DeviceIds \cup {Nil}, support : Support]
    /\ EndpointShapes \subseteq [endpoint_class : EndpointClass, healthy : BOOLEAN,
                                 support : Support]
    /\ ProviderUpdates \subseteq [name : STRING, available : BOOLEAN, support : Support]
    /\ CapabilityUpdates \subseteq [provider : STRING, capability : STRING, value : STRING,
                                    support : Support]
    /\ Requests \subseteq [policy : PathPolicy, direction : Direction, size : Nat]
    /\ RegistrationSupport \subseteq Support
    /\ Outcomes \subseteq [failed : BOOLEAN, moved : BOOLEAN, checked : BOOLEAN,
                           passed : BOOLEAN]
    /\ LimitSettings \subseteq [buffers : Nat, registrations : Nat, endpoints : Nat,
                                plans : Nat, attempts : Nat]
    /\ IdSources \subseteq IdSource

VARIABLES
    epoch,            \* CoordinatorEpoch
    workers,          \* live incarnation of each worker, or NoBoot
    worker_max_boot,  \* highest boot ever admitted for each worker, or NoBoot
    limits,           \* resource limits in force
    issued,           \* registration ids that each counter (next_reg_id_, next_id) has passed
    buffers, endpoints, devices, providers, capabilities,
    registrations, plans, attempts, receipts, verifications,
    pending           \* decisions plan_transfer has taken and not yet committed

workerVars    == <<epoch, workers, worker_max_boot>>
inventoryVars == <<endpoints, devices, providers, capabilities>>
transferVars  == <<attempts, receipts, verifications>>
vars == <<workerVars, limits, issued, buffers, inventoryVars, registrations, plans, transferVars,
          pending>>

-------------------------------------------------------------------------------
(* Records. *)
NoBuffer ==
    [lifecycle |-> "NONE", generation |-> 0, authority |-> coordinator_authority,
     domain |-> "UNKNOWN", size |-> 0, alignment |-> 1, device |-> Nil,
     support |-> "UNKNOWN", registration_id |-> Nil, registration_generation |-> 0]

NoEndpoint ==
    [present |-> FALSE, generation |-> 0, authority |-> coordinator_authority,
     endpoint_class |-> "UNKNOWN", healthy |-> FALSE, support |-> "UNKNOWN"]

NoRegistration ==
    [state |-> "NONE", generation |-> 0, buffer |-> Nil, buffer_generation |-> 0,
     endpoint |-> Nil, endpoint_generation |-> 0, authority |-> coordinator_authority,
     support |-> "UNKNOWN"]

NoPlan ==
    [eligibility |-> "NONE", source |-> Nil, source_generation |-> 0,
     destination |-> Nil, destination_generation |-> 0,
     registration_id |-> Nil, registration_generation |-> 0,
     policy |-> "DIRECT_ONLY", expected_bytes |-> 0, epoch |-> 0,
     authority |-> coordinator_authority, authoritative |-> FALSE, staging |-> Nil]

NoAttempt ==
    [state |-> "NONE", plan |-> Nil, authority |-> coordinator_authority,
     bytes |-> 0, submitted_bytes |-> 0, integrity_checked |-> FALSE,
     integrity_passed |-> FALSE, completion_committed |-> FALSE]

NoReceipt == [state |-> "NONE", integrity_verified |-> FALSE]

NoDecision ==
    [eligibility |-> "NONE", source |-> Nil, source_generation |-> 0,
     destination |-> Nil, destination_generation |-> 0, policy |-> "DIRECT_ONLY", size |-> 0]

BufferRecord ==
    [lifecycle : {"NONE", "ACTIVE", "RETIRED"}, generation : Nat, authority : AuthorityRecord,
     domain : MemoryDomain, size : Nat, alignment : Nat, device : DeviceIds \cup {Nil},
     support : Support, registration_id : RegistrationIds \cup {Nil},
     registration_generation : Nat]

EndpointRecord ==
    [present : BOOLEAN, generation : Nat, authority : AuthorityRecord,
     endpoint_class : EndpointClass, healthy : BOOLEAN, support : Support]

\* REGISTERING and DEREGISTERING are set and left again under the lock.
Registration ==
    [state : {"NONE", "REGISTERED", "REVALIDATION_REQUIRED", "RETIRED"}, generation : Nat,
     buffer : BufferIds \cup {Nil}, buffer_generation : Nat,
     endpoint : EndpointIds \cup {Nil}, endpoint_generation : Nat,
     authority : AuthorityRecord, support : Support]

\* The outcomes plan_transfer goes on with.
Plannable == DirectOutcome \cup {"FALLBACK_REQUIRED"}

TransferPlan ==
    [eligibility : {"NONE"} \cup Plannable, source : BufferIds \cup {Nil},
     source_generation : Nat, destination : EndpointIds \cup {Nil}, destination_generation : Nat,
     registration_id : RegistrationIds \cup {Nil}, registration_generation : Nat,
     policy : PathPolicy, expected_bytes : Nat, epoch : Nat,
     authority : AuthorityRecord, authoritative : BOOLEAN, staging : BufferIds \cup {Nil}]

TransferAttempt ==
    [state : {"NONE", "IN_FLIGHT", "FAILED", "COMPLETED", "CANCELLED"},
     plan : PlanIds \cup {Nil}, authority : AuthorityRecord, bytes : Nat, submitted_bytes : Nat,
     integrity_checked : BOOLEAN, integrity_passed : BOOLEAN, completion_committed : BOOLEAN]

TransferReceipt ==
    [state : {"NONE", "FAILED", "COMPLETED", "CANCELLED"}, integrity_verified : BOOLEAN]

\* Verification ids are dropped: equal receipts for one attempt are one element.
VerificationReceipt == [attempt : AttemptIds, passed : BOOLEAN]

Capability ==
    [provider : STRING, capability : STRING, value : STRING, support : Support,
     authority : AuthorityRecord]

Decision ==
    {NoDecision} \cup
    [eligibility : Plannable, source : BufferIds, source_generation : Nat,
     destination : EndpointIds, destination_generation : Nat, policy : PathPolicy, size : Nat]
-------------------------------------------------------------------------------
(* Helpers under the lock. *)
worker_live_locked(a) == AuthorityLive(a, epoch, workers)

OwnerAllows_Fault(owner, a) == worker_owned(owner) => a = owner

\* A token that may act for the owner of a record: records the coordinator
\* owns are open to everybody.
OwnerAllows(owner, a) == worker_owned(owner) => a = owner /\ worker_live_locked(owner)

\* A worker token must be live to bring in new evidence; other tokens are
\* not looked at.
MayPublish(a) == worker_owned(a) => worker_live_locked(a)

\* The staleness fence of completion and cancellation.
MayFinish(a, attempt) ==
    worker_owned(a) => worker_live_locked(a) /\ a = attempt.authority

Revalidate(affected) ==
    [r \in RegistrationIds |->
        IF r \in affected THEN [registrations[r] EXCEPT !.state = "REVALIDATION_REQUIRED"]
                          ELSE registrations[r]]

Supersede(affected) ==
    [p \in PlanIds |->
        IF p \in affected THEN [plans[p] EXCEPT !.authoritative = FALSE] ELSE plans[p]]

invalidate_buffer_dependents(b) ==
    /\ registrations' = Revalidate({r \in RegistrationIds : registrations[r].buffer = b})
    /\ plans' = Supersede({p \in PlanIds : plans[p].source = b})

invalidate_endpoint_dependents_Fault(e) ==
    /\ registrations' = Revalidate({r \in RegistrationIds : registrations[r].endpoint = e})
    /\ UNCHANGED plans

invalidate_endpoint_dependents(e) ==
    /\ registrations' = Revalidate({r \in RegistrationIds : registrations[r].endpoint = e})
    /\ plans' = Supersede({p \in PlanIds : plans[p].destination = e})

\* The registrations of a (buffer, endpoint) pair, and the newest of a set.
RegistrationsOf(b, e) ==
    {r \in RegistrationIds : registrations[r].buffer = b /\ registrations[r].endpoint = e}

Newest(rs) ==
    {r \in rs : \A q \in rs : registrations[q].generation <= registrations[r].generation}

\* Number of entries in each registry.
BufferCount       == Cardinality({b \in BufferIds : buffers[b].lifecycle # "NONE"})
EndpointCount     == Cardinality({e \in EndpointIds : endpoints[e].present})
RegistrationCount == Cardinality({r \in RegistrationIds : registrations[r].state # "NONE"})
PlanCount         == Cardinality({p \in PlanIds : plans[p].eligibility # "NONE"})
AttemptCount      == Cardinality({a \in AttemptIds : attempts[a].state # "NONE"})

-------------------------------------------------------------------------------
(* Workers, epochs, limits. *)
set_limits(l) ==
    /\ limits' = l
    /\ UNCHANGED <<workerVars, issued, buffers, inventoryVars, registrations, plans, transferVars,
                   pending>>

Admits_Fault(w, b) ==
    LET prev_max == IF worker_max_boot[w] = NoBoot THEN 0 ELSE worker_max_boot[w]
    IN  prev_max # 0 => workers[w] # NoBoot \/ b > prev_max

\* Admit boot b of worker w.  Boot ids below the highest one seen are stale;
\* a worker that was seen and is not connected needs a strictly higher one.
\* A highest boot of 0 is indistinguishable from "never seen".
Admits(w, b) ==
    LET prev_max == IF worker_max_boot[w] = NoBoot THEN 0 ELSE worker_max_boot[w]
    IN  /\ b >= prev_max
        /\ prev_max # 0 => workers[w] # NoBoot \/ b > prev_max

register_worker(w, b, e) ==
    /\ e = epoch
    /\ Admits(w, b)
    /\ workers' = [workers EXCEPT ![w] = b]
    /\ worker_max_boot' = [worker_max_boot EXCEPT ![w] = b]
    /\ UNCHANGED <<epoch, limits, issued, buffers, inventoryVars, registrations, plans, transferVars,
                   pending>>

OwnedBy_Fault(w) ==
    {r \in RegistrationIds : registrations[r].authority.worker = w
                             /\ registrations[r].authority.boot # workers[w]}

OwnedBy(w) == {r \in RegistrationIds : registrations[r].authority.worker = w}

mark_worker_dead_Fault(w) ==
    /\ registrations' = Revalidate(OwnedBy(w))
    /\ UNCHANGED <<workerVars, limits, issued, buffers, inventoryVars, plans, transferVars, pending>>

mark_worker_dead(w) ==
    /\ workers' = [workers EXCEPT ![w] = NoBoot]
    /\ registrations' = Revalidate(OwnedBy(w))
    /\ UNCHANGED <<epoch, worker_max_boot, limits, issued, buffers, inventoryVars, plans, transferVars,
                   pending>>

advance_epoch_Fault ==
    /\ epoch < MaxEpoch
    /\ epoch' = epoch + 1
    /\ registrations' = Revalidate({r \in RegistrationIds : registrations[r].state = "REGISTERED"})
    /\ plans' = Supersede(PlanIds)
    /\ UNCHANGED <<workers, worker_max_boot, limits, issued, buffers, inventoryVars, transferVars, pending>>

advance_epoch ==
    /\ epoch < MaxEpoch
    /\ epoch' = epoch + 1
    /\ workers' = [w \in Workers |-> NoBoot]
    /\ registrations' = Revalidate({r \in RegistrationIds : registrations[r].state = "REGISTERED"})
    /\ plans' = Supersede(PlanIds)
    /\ UNCHANGED <<worker_max_boot, limits, issued, buffers, inventoryVars, transferVars, pending>>

-------------------------------------------------------------------------------
(* Buffers. *)
create_buffer_Fault(b, shape, a) ==
    /\ buffers[b].lifecycle = "NONE"
    /\ shape.size > 0 => shape.alignment # 0
    /\ BufferCount <= limits.buffers
    /\ MayPublish(a)
    /\ buffers' = [buffers EXCEPT ![b] =
          [NoBuffer EXCEPT !.lifecycle = "ACTIVE", !.generation = 1, !.authority = a,
                           !.domain = shape.domain, !.size = shape.size,
                           !.alignment = shape.alignment, !.device = shape.device,
                           !.support = shape.support]]
    /\ UNCHANGED <<workerVars, limits, issued, inventoryVars, registrations, plans, transferVars, pending>>

create_buffer(b, shape, a) ==
    /\ buffers[b].lifecycle = "NONE"
    /\ shape.size > 0 => shape.alignment # 0
    /\ BufferCount < limits.buffers
    /\ MayPublish(a)
    /\ buffers' = [buffers EXCEPT ![b] =
          [NoBuffer EXCEPT !.lifecycle = "ACTIVE", !.generation = 1, !.authority = a,
                           !.domain = shape.domain, !.size = shape.size,
                           !.alignment = shape.alignment, !.device = shape.device,
                           !.support = shape.support]]
    /\ UNCHANGED <<workerVars, limits, issued, inventoryVars, registrations, plans, transferVars, pending>>

advance_buffer_generation(b, a) ==
    /\ buffers[b].lifecycle # "NONE"
    /\ OwnerAllows(buffers[b].authority, a)
    /\ buffers[b].generation < MaxGeneration
    /\ buffers' = [buffers EXCEPT ![b].generation = @ + 1]
    /\ invalidate_buffer_dependents(b)
    /\ UNCHANGED <<workerVars, limits, issued, inventoryVars, transferVars, pending>>

retire_buffer(b, a) ==
    /\ buffers[b].lifecycle # "NONE"
    /\ OwnerAllows(buffers[b].authority, a)
    /\ buffers' = [buffers EXCEPT ![b].lifecycle = "RETIRED"]
    /\ invalidate_buffer_dependents(b)
    /\ UNCHANGED <<workerVars, limits, issued, inventoryVars, transferVars, pending>>

-------------------------------------------------------------------------------
(* Devices, endpoints, providers, capabilities. *)

\* A device's generation is 1 when it is added and nothing advances it.
add_device(d, a) ==
    /\ d \notin devices
    /\ MayPublish(a)
    /\ devices' = devices \cup {d}
    /\ UNCHANGED <<workerVars, limits, issued, buffers, endpoints, providers, capabilities,
                   registrations, plans, transferVars, pending>>

add_endpoint(e, shape, a) ==
    /\ ~endpoints[e].present
    /\ EndpointCount < limits.endpoints
    /\ MayPublish(a)
    /\ endpoints' = [endpoints EXCEPT ![e] =
          [present |-> TRUE, generation |-> 1, authority |-> a,
           endpoint_class |-> shape.endpoint_class, healthy |-> shape.healthy,
           support |-> shape.support]]
    /\ UNCHANGED <<workerVars, limits, issued, buffers, devices, providers, capabilities,
                   registrations, plans, transferVars, pending>>

advance_endpoint_generation(e, a) ==
    /\ endpoints[e].present
    /\ OwnerAllows(endpoints[e].authority, a)
    /\ endpoints[e].generation < MaxGeneration
    /\ endpoints' = [endpoints EXCEPT ![e].generation = @ + 1]
    /\ invalidate_endpoint_dependents(e)
    /\ UNCHANGED <<workerVars, limits, issued, buffers, devices, providers, capabilities,
                   transferVars, pending>>

\* Health changes invalidate nothing.
set_endpoint_health(e, healthy, a) ==
    /\ endpoints[e].present
    /\ OwnerAllows(endpoints[e].authority, a)
    /\ endpoints' = [endpoints EXCEPT ![e].healthy = healthy]
    /\ UNCHANGED <<workerVars, limits, issued, buffers, devices, providers, capabilities,
                   registrations, plans, transferVars, pending>>

\* Deduplicated by name.
add_provider(u) ==
    /\ providers' = {p \in providers : p.name # u.name} \cup {u}
    /\ UNCHANGED <<workerVars, limits, issued, buffers, endpoints, devices, capabilities,
                   registrations, plans, transferVars, pending>>

\* Replaces the observation of the same provider and capability.
publish_capability(u, a) ==
    /\ MayPublish(a)
    /\ capabilities' =
          {c \in capabilities : c.provider # u.provider \/ c.capability # u.capability}
            \cup {[provider |-> u.provider, capability |-> u.capability, value |-> u.value,
                   support |-> u.support, authority |-> a]}
    /\ UNCHANGED <<workerVars, limits, issued, buffers, endpoints, devices, providers,
                   registrations, plans, transferVars, pending>>

revoke_capability(c, a) ==
    /\ c \in capabilities
    /\ OwnerAllows(c.authority, a)
    /\ capabilities' = capabilities \ {c}
    /\ UNCHANGED <<workerVars, limits, issued, buffers, endpoints, devices, providers,
                   registrations, plans, transferVars, pending>>

-------------------------------------------------------------------------------
(* Registration. *)

IssueId_Fault(r) == \E source \in IdSources : r \notin issued[source] /\ UNCHANGED issued

\* The id under which a new registration is stored.  A counter does not give
\* out an id twice, but nothing keeps an id of one from being in use already
\* by way of the other: the record under it is then overwritten.
IssueId(r) ==
    \E source \in IdSources :
        /\ r \notin issued[source]
        /\ issued' = [issued EXCEPT ![source] = @ \cup {r}]

IsNextGeneration_Fault(b, e, g) == g = 1

\* One past the newest generation of the pair, 1 for its first registration.
IsNextGeneration(b, e, g) ==
    LET rs == RegistrationsOf(b, e)
    IN  \/ rs = {} /\ g = 1
        \/ \E r \in Newest(rs) : g = registrations[r].generation + 1

PairIsFree_Fault(b, e) == TRUE

\* No registration of the pair is active: the newest one decides.
PairIsFree(b, e) ==
    \A r \in Newest(RegistrationsOf(b, e)) : registrations[r].state # "REGISTERED"

MayRegister_Fault(b, a) ==
    worker_owned(buffers[b].authority) => buffers[b].authority = a

MayRegister(b, a) ==
    /\ a.epoch = epoch
    /\ MayPublish(a)
    /\ worker_owned(buffers[b].authority) => buffers[b].authority = a

register_buffer(b, e, a, r, g, support) ==
    /\ buffers[b].lifecycle = "ACTIVE"
    /\ endpoints[e].present /\ endpoints[e].support # "UNSUPPORTED"
    /\ RegistrationCount < limits.registrations
    /\ MayRegister(b, a)
    /\ PairIsFree(b, e)
    /\ IssueId(r)
    /\ IsNextGeneration(b, e, g)
    /\ registrations' = [registrations EXCEPT ![r] =
          [state |-> "REGISTERED", generation |-> g,
           buffer |-> b, buffer_generation |-> buffers[b].generation,
           endpoint |-> e, endpoint_generation |-> endpoints[e].generation,
           authority |-> a, support |-> support]]
    /\ buffers' = [buffers EXCEPT ![b] =
          [@ EXCEPT !.registration_id = r, !.registration_generation = g]]
    /\ UNCHANGED <<workerVars, limits, inventoryVars, plans, transferVars, pending>>

\* Retired: DEREGISTERING is entered and left under the lock.
Retire_Fault(r) == [registrations EXCEPT ![r].state = "DEREGISTERING"]

Retire(r) == [registrations EXCEPT ![r].state = "RETIRED"]

\* A registration whose worker is gone is retired on anybody's request.
deregister_orphan(r) ==
    /\ registrations[r].state \in {"REGISTERED", "REVALIDATION_REQUIRED"}
    /\ worker_owned(registrations[r].authority)
    /\ ~worker_live_locked(registrations[r].authority)
    /\ registrations' = Retire(r)
    /\ UNCHANGED <<workerVars, limits, issued, buffers, inventoryVars, plans, transferVars, pending>>

\* Only the newest registration of its pair can be given up.
MayDeregister(r, a) ==
    /\ OwnerAllows(registrations[r].authority, a)
    /\ r \in Newest(RegistrationsOf(registrations[r].buffer, registrations[r].endpoint))

deregister_buffer(r, a) ==
    /\ registrations[r].state \in {"REGISTERED", "REVALIDATION_REQUIRED"}
    /\ MayDeregister(r, a)
    /\ registrations' = Retire(r)
    /\ buffers' = [b \in BufferIds |->
          IF b = registrations[r].buffer /\ buffers[b].registration_id = r
          THEN [buffers[b] EXCEPT !.registration_id = Nil, !.registration_generation = 0]
          ELSE buffers[b]]
    /\ UNCHANGED <<workerVars, limits, issued, inventoryVars, plans, transferVars, pending>>

-------------------------------------------------------------------------------
(* Path evaluation and planning. *)
build_evidence_locked(b, e) ==
    LET known == buffers[b].lifecycle # "NONE"
        device == IF buffers[b].device \in devices THEN buffers[b].device ELSE Nil
    IN  [epoch |-> epoch, workers |-> workers,
         sourceId |-> IF known THEN b ELSE Nil, source |-> buffers[b],
         destinationId |-> IF endpoints[e].present THEN e ELSE Nil,
         destination |-> endpoints[e],
         deviceId |-> device, deviceGeneration |-> IF device = Nil THEN 0 ELSE 1,
         endpoints |-> {<<x, endpoints[x].generation>> :
                          x \in {y \in EndpointIds : endpoints[y].present}},
         devices |-> devices \X {1},
         registrations |-> {registrations[r] :
                          r \in {q \in RegistrationIds : registrations[q].state # "NONE"}},
         providers |-> providers, capabilities |-> capabilities]

\* plan_transfer, first half: the decision is taken on a copy of the state
\* and the lock is released.  An unusable outcome ends the call here.
evaluate_path(c, b, e, req) ==
    LET d == evaluate(req, build_evidence_locked(b, e))
    IN  /\ pending[c].eligibility = "NONE"
        /\ d.eligibility \in Plannable
        /\ pending' = [pending EXCEPT ![c] =
              [eligibility |-> d.eligibility,
               source |-> b, source_generation |-> buffers[b].generation,
               destination |-> e, destination_generation |-> endpoints[e].generation,
               policy |-> req.policy, size |-> req.size]]
        /\ UNCHANGED <<workerVars, limits, issued, buffers, inventoryVars, registrations, plans, transferVars>>

\* The registration a plan of this decision binds: the newest active one.
Active(d) ==
    {r \in RegistrationsOf(d.source, d.destination) : registrations[r].state = "REGISTERED"}

StillCurrent_Fault(d) ==
    /\ buffers[d.source].lifecycle # "NONE"
    /\ endpoints[d.destination].present
    /\ d.eligibility \in DirectOutcome => Active(d) # {}

\* plan_transfer, second half: what is tested again under the lock.
StillCurrent(d) ==
    /\ buffers[d.source].lifecycle # "NONE"
    /\ buffers[d.source].generation = d.source_generation
    /\ endpoints[d.destination].present
    /\ endpoints[d.destination].generation = d.destination_generation
    /\ d.eligibility \in DirectOutcome => Active(d) # {}

\* A fallback plan also creates its staging buffer s, whatever the buffer limit.
plan_transfer(c, p, s) ==
    LET d == pending[c]
        direct == d.eligibility \in DirectOutcome
    IN  /\ d.eligibility # "NONE"
        /\ PlanCount < limits.plans
        /\ StillCurrent(d)
        /\ plans[p].eligibility = "NONE"
        /\ IF direct THEN s = Nil ELSE s \in BufferIds /\ buffers[s].lifecycle = "NONE"
        /\ \E r \in IF Active(d) = {} THEN {Nil} ELSE Newest(Active(d)) :
             plans' = [plans EXCEPT ![p] =
               [eligibility |-> d.eligibility,
                source |-> d.source, source_generation |-> buffers[d.source].generation,
                destination |-> d.destination,
                destination_generation |-> endpoints[d.destination].generation,
                registration_id |-> r,
                registration_generation |-> IF r = Nil THEN 0 ELSE registrations[r].generation,
                policy |-> d.policy, expected_bytes |-> d.size, epoch |-> epoch,
                authority |-> buffers[d.source].authority, authoritative |-> TRUE,
                staging |-> s]]
        /\ buffers' = [b \in BufferIds |->
             IF b = s
             THEN [NoBuffer EXCEPT !.lifecycle = "ACTIVE", !.generation = 1,
                                   !.authority = buffers[d.source].authority,
                                   !.domain = "HOST_PINNED", !.size = d.size, !.alignment = 64,
                                   !.support = "SYNTHETIC"]
             ELSE buffers[b]]
        /\ pending' = [pending EXCEPT ![c] = NoDecision]
        /\ UNCHANGED <<workerVars, limits, issued, inventoryVars, registrations, transferVars>>

plan_transfer_rejected(c) ==
    /\ pending[c].eligibility # "NONE"
    /\ PlanCount >= limits.plans \/ ~StillCurrent(pending[c])
    /\ pending' = [pending EXCEPT ![c] = NoDecision]
    /\ UNCHANGED <<workerVars, limits, issued, buffers, inventoryVars, registrations, plans, transferVars>>

-------------------------------------------------------------------------------
(* Transfer lifecycle. *)

\* The token is tested only if a worker presents it.
MayBegin(p, a) ==
    worker_owned(a) => /\ worker_live_locked(a)
                       /\ worker_owned(plans[p].authority) => a = plans[p].authority

\* Generations and registration are tested again at the start of a transfer.
PlanStillCurrent(p) ==
    LET plan == plans[p]
    IN  /\ plan.authoritative
        /\ plan.epoch = epoch
        /\ buffers[plan.source].generation = plan.source_generation
        /\ endpoints[plan.destination].generation = plan.destination_generation

RegistrationStillCurrent_Fault(p) ==
    LET r == plans[p].registration_id
    IN  r # Nil => registrations[r].generation = plans[p].registration_generation

RegistrationStillCurrent(p) ==
    LET r == plans[p].registration_id
    IN  r # Nil => /\ registrations[r].generation = plans[p].registration_generation
                   /\ registrations[r].state = "REGISTERED"

\* o is what the backend reports; a null backend reports nothing at all and
\* a backend error reports only the failure.
begin_transfer(t, p, a, o) ==
    /\ plans[p].eligibility # "NONE"
    /\ PlanStillCurrent(p)
    /\ MayBegin(p, a)
    /\ AttemptCount < limits.attempts
    /\ RegistrationStillCurrent(p)
    /\ attempts[t].state = "NONE"
    /\ attempts' = [attempts EXCEPT ![t] =
          [state |-> IF o.failed THEN "FAILED" ELSE "IN_FLIGHT", plan |-> p, authority |-> a,
           bytes |-> IF o.moved THEN plans[p].expected_bytes ELSE 0,
           submitted_bytes |-> plans[p].expected_bytes,
           integrity_checked |-> o.checked, integrity_passed |-> o.passed,
           completion_committed |-> FALSE]]
    /\ UNCHANGED <<workerVars, limits, issued, buffers, inventoryVars, registrations, plans,
                   receipts, verifications, pending>>

\* Completing an attempt whose backend failed only publishes the failure;
\* it is not committed and no token is asked for.
complete_failed(t) ==
    /\ attempts[t].state = "FAILED"
    /\ receipts[t].state = "NONE"
    /\ receipts' = [receipts EXCEPT ![t] = [state |-> "FAILED", integrity_verified |-> FALSE]]
    /\ UNCHANGED <<workerVars, limits, issued, buffers, inventoryVars, registrations, plans,
                   attempts, verifications, pending>>

MayComplete_Fault(t, a) ==
    /\ attempts[t].state = "IN_FLIGHT"
    /\ MayFinish(a, attempts[t])

\* An attempt may be completed by its owner while its plan is authoritative.
MayComplete(t, a) ==
    /\ attempts[t].state = "IN_FLIGHT"
    /\ MayFinish(a, attempts[t])
    /\ plans[attempts[t].plan].authoritative

FinalState_Fault(attempt) ==
    IF attempt.submitted_bytes = 0 \/ attempt.bytes = attempt.submitted_bytes
    THEN "COMPLETED" ELSE "FAILED"

\* What completion decides, in the order of the code: the integrity gate,
\* then whether every submitted byte was moved.
FinalState(attempt) ==
    IF /\ ~(attempt.integrity_checked /\ ~attempt.integrity_passed)
       /\ attempt.submitted_bytes = 0 \/ attempt.bytes = attempt.submitted_bytes
    THEN "COMPLETED" ELSE "FAILED"

complete_transfer(t, a) ==
    LET attempt == attempts[t]
        mismatch == attempt.integrity_checked /\ ~attempt.integrity_passed
        final == FinalState(attempt)
    IN  /\ MayComplete(t, a)
        /\ attempts' = [attempts EXCEPT ![t] =
              [@ EXCEPT !.state = final, !.completion_committed = TRUE]]
        /\ receipts' = [receipts EXCEPT ![t] =
              [state |-> final,
               integrity_verified |-> attempt.integrity_checked /\ ~mismatch]]
        /\ verifications' = verifications \cup
              (IF attempt.integrity_checked /\ (mismatch \/ final = "COMPLETED")
               THEN {[attempt |-> t, passed |-> ~mismatch]} ELSE {})
        /\ UNCHANGED <<workerVars, limits, issued, buffers, inventoryVars, registrations, plans, pending>>

Cancellable_Fault(attempt) == attempt.state # "NONE"

\* Everything that is not committed can be cancelled, a failed attempt too.
Cancellable(attempt) ==
    attempt.state \in {"IN_FLIGHT", "FAILED", "CANCELLED"} /\ ~attempt.completion_committed

cancel_transfer_Fault(t, a) ==
    /\ Cancellable(attempts[t])
    /\ MayFinish(a, attempts[t])
    /\ attempts' = [attempts EXCEPT ![t] =
          [@ EXCEPT !.state = "CANCELLED", !.completion_committed = FALSE]]
    /\ receipts' = IF receipts[t].state # "NONE" THEN receipts
                   ELSE [receipts EXCEPT ![t] =
                           [state |-> "CANCELLED", integrity_verified |-> FALSE]]
    /\ UNCHANGED <<workerVars, limits, issued, buffers, inventoryVars, registrations, plans,
                   verifications, pending>>

\* The receipt of a failure that was already reported is replaced.
cancel_transfer(t, a) ==
    /\ Cancellable(attempts[t])
    /\ MayFinish(a, attempts[t])
    /\ attempts' = [attempts EXCEPT ![t] =
          [@ EXCEPT !.state = "CANCELLED", !.completion_committed = FALSE]]
    /\ receipts' = [receipts EXCEPT ![t] = [state |-> "CANCELLED", integrity_verified |-> FALSE]]
    /\ UNCHANGED <<workerVars, limits, issued, buffers, inventoryVars, registrations, plans,
                   verifications, pending>>

\* Records whatever the caller says of any attempt.
verify_transfer(t, passed) ==
    /\ attempts[t].state # "NONE"
    /\ verifications' = verifications \cup {[attempt |-> t, passed |-> passed]}
    /\ UNCHANGED <<workerVars, limits, issued, buffers, inventoryVars, registrations, plans,
                   attempts, receipts, pending>>

-------------------------------------------------------------------------------
Init ==
    /\ epoch = 1
    /\ workers = [w \in Workers |-> NoBoot]
    /\ worker_max_boot = [w \in Workers |-> NoBoot]
    /\ limits \in LimitSettings
    /\ issued = [source \in IdSource |-> {}]
    /\ buffers = [b \in BufferIds |-> NoBuffer]
    /\ endpoints = [e \in EndpointIds |-> NoEndpoint]
    /\ devices = {} /\ providers = {} /\ capabilities = {}
    /\ registrations = [r \in RegistrationIds |-> NoRegistration]
    /\ plans = [p \in PlanIds |-> NoPlan]
    /\ attempts = [t \in AttemptIds |-> NoAttempt]
    /\ receipts = [t \in AttemptIds |-> NoReceipt]
    /\ verifications = {}
    /\ pending = [c \in Callers |-> NoDecision]

WorkerOperation ==
    \/ \E l \in LimitSettings : set_limits(l)
    \/ \E w \in Workers, b \in Boots, e \in 0..MaxEpoch : register_worker(w, b, e)
    \/ \E w \in Workers : mark_worker_dead(w)
    \/ advance_epoch

BufferOperation ==
    \/ \E b \in BufferIds, shape \in BufferShapes, a \in Authorities : create_buffer(b, shape, a)
    \/ \E b \in BufferIds, a \in Authorities : advance_buffer_generation(b, a)
    \/ \E b \in BufferIds, a \in Authorities : retire_buffer(b, a)

InventoryOperation ==
    \/ \E d \in DeviceIds, a \in Authorities : add_device(d, a)
    \/ \E e \in EndpointIds, shape \in EndpointShapes, a \in Authorities :
          add_endpoint(e, shape, a)
    \/ \E e \in EndpointIds, a \in Authorities : advance_endpoint_generation(e, a)
    \/ \E e \in EndpointIds, healthy \in BOOLEAN, a \in Authorities :
          set_endpoint_health(e, healthy, a)
    \/ \E u \in ProviderUpdates : add_provider(u)
    \/ \E u \in CapabilityUpdates, a \in Authorities : publish_capability(u, a)
    \/ \E c \in capabilities, a \in Authorities : revoke_capability(c, a)

RegistrationOperation ==
    \/ \E b \in BufferIds, e \in EndpointIds, a \in Authorities, r \in RegistrationIds,
          g \in 1..MaxGeneration, support \in RegistrationSupport :
          register_buffer(b, e, a, r, g, support)
    \/ \E r \in RegistrationIds : deregister_orphan(r)
    \/ \E r \in RegistrationIds, a \in Authorities : deregister_buffer(r, a)

PlanOperation ==
    \/ \E c \in Callers, b \in BufferIds, e \in EndpointIds, req \in Requests :
          evaluate_path(c, b, e, req)
    \/ \E c \in Callers, p \in PlanIds, s \in BufferIds \cup {Nil} : plan_transfer(c, p, s)
    \/ \E c \in Callers : plan_transfer_rejected(c)

TransferOperation ==
    \/ \E t \in AttemptIds, p \in PlanIds, a \in Authorities, o \in Outcomes :
          begin_transfer(t, p, a, o)
    \/ \E t \in AttemptIds : complete_failed(t)
    \/ \E t \in AttemptIds, a \in Authorities : complete_transfer(t, a)
    \/ \E t \in AttemptIds, a \in Authorities : cancel_transfer(t, a)
    \/ \E t \in AttemptIds, passed \in BOOLEAN : verify_transfer(t, passed)

Next ==
    \/ WorkerOperation
    \/ BufferOperation
    \/ InventoryOperation
    \/ RegistrationOperation
    \/ PlanOperation
    \/ TransferOperation

Spec == Init /\ [][Next]_vars
===============================================================================
