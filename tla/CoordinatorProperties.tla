------------------------- MODULE CoordinatorProperties -------------------------
(***************************************************************************)
(* The properties the coordinator keeps, and the two abstract              *)
(* specifications it implements.                                           *)
(***************************************************************************)
EXTENDS Coordinator

\* Every registry holds records of its type: no operation of coordinator.cpp
\* or coordinator_lifecycle.cpp stores a half-filled record.
TypeOK ==
    /\ epoch \in Nat
    /\ workers \in [Workers -> Nat \cup {NoBoot}]
    /\ worker_max_boot \in [Workers -> Nat \cup {NoBoot}]
    /\ limits \in LimitSettings
    /\ issued \in [IdSource -> SUBSET RegistrationIds]
    /\ buffers \in [BufferIds -> BufferRecord]
    /\ endpoints \in [EndpointIds -> EndpointRecord]
    /\ devices \subseteq DeviceIds
    /\ providers \subseteq [name : STRING, available : BOOLEAN, support : Support]
    /\ capabilities \subseteq Capability
    /\ registrations \in [RegistrationIds -> Registration]
    /\ plans \in [PlanIds -> TransferPlan]
    /\ attempts \in [AttemptIds -> TransferAttempt]
    /\ receipts \in [AttemptIds -> TransferReceipt]
    /\ verifications \subseteq VerificationReceipt
    /\ pending \in [Callers -> Decision]

-------------------------------------------------------------------------------
(* Worker incarnations. *)

\* The live incarnation of a worker is the newest one ever admitted, and an
\* active registration owned by a worker belongs to a connected worker and to
\* no incarnation that is yet to come (register_worker, mark_worker_dead and
\* register_buffer keep three tables in step).
IncarnationFence ==
    /\ \A w \in Workers : workers[w] # NoBoot => workers[w] = worker_max_boot[w]
    /\ \A r \in RegistrationIds :
          LET owner == registrations[r].authority
          IN  registrations[r].state = "REGISTERED" /\ worker_owned(owner) =>
                /\ workers[owner.worker] # NoBoot
                /\ owner.boot <= workers[owner.worker]

\* Epochs, admitted boots and the generations of buffers and endpoints never
\* go back, whatever restarts, deaths and retirements come in between.
CountersNeverDecrease ==
    [][ /\ epoch' >= epoch
        /\ \A w \in Workers : worker_max_boot'[w] >= worker_max_boot[w]
        /\ \A b \in BufferIds : buffers'[b].generation >= buffers[b].generation
        /\ \A e \in EndpointIds : endpoints'[e].generation >= endpoints[e].generation ]_vars

\* A token has one life: it comes to life only with a boot that its worker
\* has never had, so that neither a reconnection nor a new epoch revives one
\* that mark_worker_dead or advance_epoch has killed ("resurrecting a dead
\* worker requires a fresh boot id").
DeadTokensStayDead ==
    [][ \A a \in Authorities :
          worker_owned(a) /\ ~worker_live_locked(a) /\ worker_live_locked(a)' =>
            a.boot > worker_max_boot[a.worker] ]_vars

\* What a worker owns changes only while that very incarnation is live under
\* the current epoch: a token of a dead boot or a past epoch can neither
\* mutate nor revoke what it once owned.  A capability may also be replaced,
\* by an observation whose publisher is live.
StaleOwnerCannotMutate ==
    [][ /\ \A b \in BufferIds :
             LET was == buffers[b] IN
             /\ was.lifecycle # "NONE"
             /\ <<was.generation, was.lifecycle>> # <<buffers'[b].generation, buffers'[b].lifecycle>>
             => MayPublish(was.authority)
        /\ \A e \in EndpointIds :
             LET was == endpoints[e] IN
             was.present /\ was # endpoints'[e] => MayPublish(was.authority)
        /\ \A c \in capabilities \ capabilities' :
             \/ MayPublish(c.authority)
             \/ \E d \in capabilities' \ capabilities :
                   /\ d.provider = c.provider /\ d.capability = c.capability
                   /\ MayPublish(d.authority) ]_vars

-------------------------------------------------------------------------------
(* Registrations. *)

\* An active registration is never stale: its buffer is ACTIVE and, like its
\* endpoint, still of the generation it was registered at, and its authority
\* is of the current epoch.  Five operations have to invalidate for this.
RegistrationCurrent ==
    \A r \in RegistrationIds :
        LET reg == registrations[r]
        IN  reg.state = "REGISTERED" =>
              /\ reg.buffer \in BufferIds /\ reg.endpoint \in EndpointIds
              /\ buffers[reg.buffer].lifecycle = "ACTIVE"
              /\ buffers[reg.buffer].generation = reg.buffer_generation
              /\ endpoints[reg.endpoint].present
              /\ endpoints[reg.endpoint].generation = reg.endpoint_generation
              /\ reg.authority.epoch = epoch

\* An active registration is the only one of its pair and the newest: every
\* other registration of the pair has a strictly lower generation.
OneActiveRegistration ==
    \A r, q \in RegistrationIds :
        /\ registrations[r].state = "REGISTERED"
        /\ q # r
        /\ registrations[q].buffer = registrations[r].buffer
        /\ registrations[q].endpoint = registrations[r].endpoint
        => registrations[q].generation < registrations[r].generation

\* register_buffer, deregister_buffer and the five operations that invalidate
\* implement one lease per pair, granted with increasing generations.
LastGeneration(b, e) ==
    LET rs == RegistrationsOf(b, e)
    IN  IF rs = {} THEN 0 ELSE registrations[CHOOSE r \in Newest(rs) : TRUE].generation

Lease == INSTANCE RegistrationLease WITH
    Pairs <- BufferIds \X EndpointIds,
    generation <- [x \in BufferIds \X EndpointIds |-> LastGeneration(x[1], x[2])],
    held <- {x \in BufferIds \X EndpointIds :
               \E r \in RegistrationsOf(x[1], x[2]) : registrations[r].state = "REGISTERED"}

ImplementsLease == Lease!Spec

-------------------------------------------------------------------------------
(* Plans. *)

\* An authoritative plan is of the current epoch and of the current
\* generations of its source and destination: no operation moves one of the
\* three and leaves a plan that rests on it authoritative.
PlanFence ==
    \A p \in PlanIds :
        LET plan == plans[p]
        IN  plan.authoritative =>
              /\ plan.eligibility # "NONE"
              /\ plan.source \in BufferIds /\ plan.destination \in EndpointIds
              /\ plan.epoch = epoch
              /\ buffers[plan.source].generation = plan.source_generation
              /\ endpoints[plan.destination].generation = plan.destination_generation

\* A plan is committed for the generations of source and destination that
\* it was decided on: what is evaluated on a snapshot is not carried over to
\* a buffer or endpoint that moved on before plan_transfer took the lock again.
CommitMatchesSnapshot ==
    [][ \A p \in PlanIds :
          plans[p].eligibility = "NONE" /\ plans'[p].eligibility # "NONE" =>
            \E c \in Callers :
               LET d == pending[c] IN
               /\ d # NoDecision /\ pending'[c] = NoDecision
               /\ d.eligibility = plans'[p].eligibility
               /\ <<d.source, d.source_generation>>
                    = <<plans'[p].source, plans'[p].source_generation>>
               /\ <<d.destination, d.destination_generation>>
                    = <<plans'[p].destination, plans'[p].destination_generation>> ]_vars

\* All that a direct path rests on is in the registries and current: an ACTIVE
\* buffer on a known device, a healthy endpoint, an available provider with the
\* capability, and an active registration of exactly this pair, at the
\* generations both have now, whose owner is the live incarnation of its worker
\* under this epoch.
RestsOnRegistries(d) ==
    LET src == buffers[d.source]
        dst == endpoints[d.destination]
    IN  /\ src.lifecycle = "ACTIVE" /\ d.size <= src.size /\ src.device \in devices
        /\ dst.present /\ dst.healthy
        /\ \E p \in providers : p.name = provider_for(dst.endpoint_class) /\ p.available
        /\ \E x \in capabilities :
             /\ x.provider = provider_for(dst.endpoint_class)
             /\ x.capability = cap_for(dst.endpoint_class)
             /\ x.value = "true"
        /\ \E r \in RegistrationsOf(d.source, d.destination) :
             LET reg == registrations[r] IN
             /\ reg.state = "REGISTERED"
             /\ reg.buffer_generation = src.generation
             /\ reg.endpoint_generation = dst.generation
             /\ worker_owned(reg.authority) => workers[reg.authority.worker] = reg.authority.boot
             /\ reg.authority.epoch = epoch

\* plan_transfer decides for a direct path only while all that the path rests
\* on is current: what evaluate concludes from the copied evidence is true of
\* the registries the copy was made of.
DirectDecisionIsCurrent ==
    [][ \A c \in Callers :
          pending[c].eligibility = "NONE" /\ pending'[c].eligibility \in DirectOutcome =>
            RestsOnRegistries(pending'[c]) ]_vars

\* Both counters have given out the id, so that the second registration has
\* overwritten the first.
IssuedTwice(r) == \A source \in IdSource : r \in issued[source]

\* The registration a plan is bound to is of the plan's own source and
\* destination and still has the generation the plan recorded, unless a
\* backend and the coordinator have both given out its id (register_buffer
\* does not look whether the id is in use); a direct plan is bound to one.
PlanBinding ==
    \A p \in PlanIds :
        LET plan == plans[p]
            reg == registrations[plan.registration_id]
        IN  /\ plan.registration_id # Nil /\ ~IssuedTwice(plan.registration_id) =>
                 /\ reg.buffer = plan.source
                 /\ reg.endpoint = plan.destination
                 /\ reg.generation = plan.registration_generation
            /\ plan.eligibility \in DirectOutcome => plan.registration_id # Nil

\* A caller that asked for DIRECT_ONLY never gets a plan with a staging copy,
\* even if the registration it needs vanishes between snapshot and commit.
StagingOnlyWhenAllowed ==
    \A p \in PlanIds : plans[p].policy = "DIRECT_ONLY" => plans[p].staging = Nil

\* The buffer registry is bounded although plan_transfer adds staging buffers
\* without looking at the limit: it exceeds the largest limit it was given by
\* one staging buffer for each plan at most.
BuffersAreBounded ==
    \E l \in LimitSettings :
        BufferCount <= l.buffers + Cardinality({p \in PlanIds : plans[p].staging # Nil})

-------------------------------------------------------------------------------
(* Transfers. *)

\* A transfer starts on a direct plan only in the epoch of the plan and through
\* an active registration; unless its id was given out twice, that is the one
\* of exactly this buffer and endpoint, both at the planned generations, and
\* the buffer is ACTIVE.
DirectBeginIsFenced ==
    [][ \A t \in AttemptIds :
          attempts[t].state = "NONE" /\ attempts'[t].state # "NONE" =>
            LET plan == plans[attempts'[t].plan]
                reg == registrations[plan.registration_id]
            IN  plan.eligibility \in DirectOutcome =>
                  /\ plan.epoch = epoch
                  /\ reg.state = "REGISTERED"
                  /\ ~IssuedTwice(plan.registration_id) =>
                       /\ reg.buffer = plan.source /\ reg.endpoint = plan.destination
                       /\ reg.buffer_generation = plan.source_generation
                       /\ reg.endpoint_generation = plan.destination_generation
                       /\ buffers[plan.source].lifecycle = "ACTIVE" ]_vars

\* Success is published only while the plan's epoch and both generations are
\* still the current ones: a stale attempt cannot publish a completion.
CompletionIsCurrent ==
    [][ \A t \in AttemptIds :
          receipts[t].state # "COMPLETED" /\ receipts'[t].state = "COMPLETED" =>
            LET plan == plans[attempts[t].plan]
            IN  /\ plan.epoch = epoch
                /\ buffers[plan.source].generation = plan.source_generation
                /\ endpoints[plan.destination].generation = plan.destination_generation ]_vars

\* The receipt on file agrees with the attempt: a cancelled or committed
\* attempt has published exactly its final state, success is always
\* committed, and no receipt exists for an attempt still in flight.
ReceiptMatchesAttempt ==
    \A t \in AttemptIds :
        LET attempt == attempts[t] IN
        /\ receipts[t].state \in {"NONE", attempt.state}
        /\ attempt.completion_committed \/ attempt.state = "CANCELLED" =>
              receipts[t].state = attempt.state
        /\ attempt.completion_committed => attempt.state \in {"COMPLETED", "FAILED"}
        /\ attempt.state = "COMPLETED" => attempt.completion_committed

\* Integrity is never overstated: success means every submitted byte was
\* moved and no check failed, and a receipt marked verified is of an attempt
\* whose check was made and passed.
IntegrityNeverOverstated ==
    \A t \in AttemptIds :
        LET attempt == attempts[t] IN
        /\ receipts[t].state = "COMPLETED" =>
              /\ attempt.bytes = attempt.submitted_bytes \/ attempt.submitted_bytes = 0
              /\ attempt.integrity_checked => attempt.integrity_passed
        /\ receipts[t].integrity_verified =>
              attempt.integrity_checked /\ attempt.integrity_passed

\* begin, complete, cancel and verify implement the abstract lifecycle.
Lifecycle == INSTANCE TransferLifecycle WITH
    Attempts <- AttemptIds,
    status <- [t \in AttemptIds |->
                 IF attempts[t].state = "IN_FLIGHT" THEN "RUNNING"
                 ELSE IF attempts[t].state = "FAILED" /\ ~attempts[t].completion_committed
                      THEN "FAULTED" ELSE attempts[t].state],
    published <- [t \in AttemptIds |-> receipts[t].state]

ImplementsLifecycle == Lifecycle!Spec

===============================================================================
