------------------------------- MODULE PlanProofs -------------------------------
(***************************************************************************)
(* Plans: an authoritative plan is of the current epoch and generations,   *)
(* a plan stays bound to the registration it was committed with, and a     *)
(* direct transfer starts only through an active registration.  Then the   *)
(* transfers that plans are executed by.                                   *)
(***************************************************************************)
EXTENDS CoordinatorProofs, PlannerProofs, FiniteSetTheorems

\* What a stored plan refers to is in the registries, from which nothing is
\* ever erased.  PlanFence needs it: creating a buffer sets its generation
\* to 1, and must not do so under a plan.
PlanKnown ==
    \A p \in PlanIds :
        LET plan == plans[p] IN
        /\ plan.eligibility = "NONE" => ~plan.authoritative /\ plan.registration_id = Nil
        /\ plan.eligibility # "NONE" =>
              /\ plan.source \in BufferIds /\ buffers[plan.source].lifecycle # "NONE"
              /\ plan.destination \in EndpointIds /\ endpoints[plan.destination].present

\* Superseding a plan changes nothing but its authority.
LEMMA SupersedeFrame ==
    ASSUME TypeOK, NEW ps, NEW p \in PlanIds
    PROVE  /\ Supersede(ps)[p].eligibility = plans[p].eligibility
           /\ Supersede(ps)[p].source = plans[p].source
           /\ Supersede(ps)[p].source_generation = plans[p].source_generation
           /\ Supersede(ps)[p].destination = plans[p].destination
           /\ Supersede(ps)[p].destination_generation = plans[p].destination_generation
           /\ Supersede(ps)[p].registration_id = plans[p].registration_id
           /\ Supersede(ps)[p].registration_generation = plans[p].registration_generation
           /\ Supersede(ps)[p].epoch = plans[p].epoch
           /\ Supersede(ps)[p].policy = plans[p].policy
           /\ Supersede(ps)[p].staging = plans[p].staging
           /\ Supersede(ps)[p].authoritative => p \notin ps /\ plans[p].authoritative
  BY DEF Supersede, TypeOK, TransferPlan

\* A buffer or endpoint that exists goes on existing, and its generation
\* moves only in a step that supersedes every plan that refers to it.
KeepsReferences ==
    /\ \A b \in BufferIds :
          buffers[b].lifecycle # "NONE" =>
            /\ buffers'[b].lifecycle # "NONE"
            /\ \/ buffers'[b].generation = buffers[b].generation
               \/ plans' = Supersede({p \in PlanIds : plans[p].source = b})
    /\ \A e \in EndpointIds :
          endpoints[e].present =>
            /\ endpoints'[e].present
            /\ \/ endpoints'[e].generation = endpoints[e].generation
               \/ plans' = Supersede({p \in PlanIds : plans[p].destination = e})

\* Every operation keeps its promise about what plans refer to.
LEMMA ReferencesKept == TypeOK /\ [Next]_vars => KeepsReferences
  <1> SUFFICES ASSUME TypeOK, [Next]_vars PROVE KeepsReferences
    OBVIOUS
  <1> USE DEF vars, workerVars, inventoryVars, transferVars
  <1>1. CASE UNCHANGED <<buffers, endpoints>>
    BY <1>1 DEF KeepsReferences
  <1>2. CASE BufferOperation
    <2>1. UNCHANGED endpoints
      BY <1>2, Frames
    <2>2. ASSUME NEW b \in BufferIds, NEW shape \in BufferShapes, NEW a \in Authorities,
                 create_buffer(b, shape, a)
          PROVE  KeepsReferences
      BY <2>1, <2>2 DEF create_buffer, KeepsReferences, TypeOK
    <2>3. ASSUME NEW b \in BufferIds, NEW a \in Authorities, advance_buffer_generation(b, a)
          PROVE  KeepsReferences
      <3>1. \A x \in BufferIds : x # b => buffers'[x] = buffers[x]
        BY <2>3 DEF advance_buffer_generation, TypeOK
      <3>2. buffers'[b].lifecycle = buffers[b].lifecycle
        BY <2>3 DEF advance_buffer_generation, TypeOK, BufferRecord
      <3>3. plans' = Supersede({p \in PlanIds : plans[p].source = b})
        BY <2>3 DEF advance_buffer_generation, invalidate_buffer_dependents
      <3>4. QED
        BY <2>1, <3>1, <3>2, <3>3 DEF KeepsReferences
    <2>4. ASSUME NEW b \in BufferIds, NEW a \in Authorities, retire_buffer(b, a)
          PROVE  KeepsReferences
      <3>1. \A x \in BufferIds : /\ buffers'[x].generation = buffers[x].generation
                                 /\ buffers'[x].lifecycle \in {buffers[x].lifecycle, "RETIRED"}
        BY <2>4 DEF retire_buffer, TypeOK, BufferRecord
      <3>2. QED
        BY <2>1, <3>1 DEF KeepsReferences
    <2>5. QED
      BY <1>2, <2>2, <2>3, <2>4 DEF BufferOperation
  <1>3. CASE InventoryOperation
    <2>1. UNCHANGED buffers
      BY <1>3, Frames
    <2>2. ASSUME NEW e \in EndpointIds, NEW shape \in EndpointShapes, NEW a \in Authorities,
                 add_endpoint(e, shape, a)
          PROVE  KeepsReferences
      BY <2>1, <2>2 DEF add_endpoint, KeepsReferences, TypeOK
    <2>3. ASSUME NEW e \in EndpointIds, NEW a \in Authorities, advance_endpoint_generation(e, a)
          PROVE  KeepsReferences
      <3>1. \A x \in EndpointIds : x # e => endpoints'[x] = endpoints[x]
        BY <2>3 DEF advance_endpoint_generation, TypeOK
      <3>2. endpoints'[e].present = endpoints[e].present
        BY <2>3 DEF advance_endpoint_generation, TypeOK, EndpointRecord
      <3>3. plans' = Supersede({p \in PlanIds : plans[p].destination = e})
        BY <2>3 DEF advance_endpoint_generation, invalidate_endpoint_dependents
      <3>4. QED
        BY <2>1, <3>1, <3>2, <3>3 DEF KeepsReferences
    <2>4. ASSUME NEW e \in EndpointIds, NEW healthy \in BOOLEAN, NEW a \in Authorities,
                 set_endpoint_health(e, healthy, a)
          PROVE  KeepsReferences
      <3>1. \A x \in EndpointIds : /\ endpoints'[x].present = endpoints[x].present
                                   /\ endpoints'[x].generation = endpoints[x].generation
        BY <2>4 DEF set_endpoint_health, TypeOK, EndpointRecord
      <3>2. QED
        BY <2>1, <3>1 DEF KeepsReferences
    <2>5. QED
      BY <1>1, <1>3, <2>1, <2>2, <2>3, <2>4
      DEF InventoryOperation, add_device, add_provider, publish_capability, revoke_capability
  <1>4. CASE RegistrationOperation
    <2>1. UNCHANGED endpoints
      BY <1>4, Frames
    <2>2. ASSUME NEW b \in BufferIds, NEW e, NEW a, NEW r, NEW g, NEW support,
                 register_buffer(b, e, a, r, g, support)
          PROVE  \A x \in BufferIds : /\ buffers'[x].generation = buffers[x].generation
                                      /\ buffers'[x].lifecycle = buffers[x].lifecycle
      BY <2>2 DEF register_buffer, TypeOK, BufferRecord
    <2>3. ASSUME NEW r, NEW a, deregister_buffer(r, a)
          PROVE  \A x \in BufferIds : /\ buffers'[x].generation = buffers[x].generation
                                      /\ buffers'[x].lifecycle = buffers[x].lifecycle
      BY <2>3 DEF deregister_buffer, TypeOK, BufferRecord
    <2>4. ASSUME NEW r, deregister_orphan(r)
          PROVE  UNCHANGED buffers
      BY <2>4 DEF deregister_orphan
    <2>5. QED
      BY <1>4, <2>1, <2>2, <2>3, <2>4 DEF RegistrationOperation, KeepsReferences
  <1>5. CASE PlanOperation
    <2>1. UNCHANGED endpoints
      BY <1>5, Frames
    <2>2. ASSUME NEW c \in Callers, NEW p \in PlanIds, NEW s \in BufferIds \cup {Nil},
                 plan_transfer(c, p, s)
          PROVE  \A x \in BufferIds : buffers[x].lifecycle # "NONE" => buffers'[x] = buffers[x]
      BY <2>2, IdAssumption DEF plan_transfer
    <2>3. QED
      BY <1>5, <2>1, <2>2
      DEF PlanOperation, evaluate_path, plan_transfer_rejected, KeepsReferences
  <1>6. QED
    BY <1>1, <1>2, <1>3, <1>4, <1>5, Frames DEF Next

\* plan_transfer is the only operation that makes a plan authoritative; any
\* other one supersedes plans, if it touches them, and a new epoch all of them.
LEMMA OnlyPlanTransferCommits ==
    ASSUME TypeOK, [Next]_vars
    PROVE  \/ \E c \in Callers, p \in PlanIds, s \in BufferIds \cup {Nil} : plan_transfer(c, p, s)
           \/ UNCHANGED <<epoch, plans>>
           \/ UNCHANGED epoch /\ \E ps \in SUBSET PlanIds : plans' = Supersede(ps)
           \/ plans' = Supersede(PlanIds)
  <1> USE DEF vars, workerVars, inventoryVars, transferVars
  <1>1. CASE WorkerOperation
    BY <1>1 DEF WorkerOperation, set_limits, register_worker, mark_worker_dead, advance_epoch
  <1>2. CASE BufferOperation
    BY <1>2 DEF BufferOperation, create_buffer, advance_buffer_generation, retire_buffer,
                invalidate_buffer_dependents
  <1>3. CASE InventoryOperation
    BY <1>3 DEF InventoryOperation, add_device, add_endpoint, advance_endpoint_generation,
                set_endpoint_health, add_provider, publish_capability, revoke_capability,
                invalidate_endpoint_dependents
  <1>4. CASE PlanOperation
    BY <1>4 DEF PlanOperation, evaluate_path, plan_transfer_rejected
  <1>5. QED
    BY <1>1, <1>2, <1>3, <1>4, Frames DEF Next

\* The plan that plan_transfer stores.
LEMMA CommittedPlan ==
    ASSUME TypeOK, NEW c \in Callers, NEW p \in PlanIds, NEW s \in BufferIds \cup {Nil},
           plan_transfer(c, p, s)
    PROVE  /\ \A q \in PlanIds : q # p => plans'[q] = plans[q]
           /\ plans'[p].eligibility = pending[c].eligibility
           /\ pending[c].eligibility \in Plannable
           /\ plans'[p].source = pending[c].source
           /\ plans'[p].source \in BufferIds
           /\ plans'[p].source_generation = buffers[plans'[p].source].generation
           /\ plans'[p].source_generation = pending[c].source_generation
           /\ buffers[plans'[p].source].lifecycle # "NONE"
           /\ plans'[p].destination = pending[c].destination
           /\ plans'[p].destination \in EndpointIds
           /\ plans'[p].destination_generation = endpoints[plans'[p].destination].generation
           /\ plans'[p].destination_generation = pending[c].destination_generation
           /\ endpoints[plans'[p].destination].present
           /\ plans'[p].epoch = epoch
           /\ plans'[p].policy = pending[c].policy
           /\ plans'[p].staging = s
           /\ IF Active(pending[c]) = {}
              THEN plans'[p].registration_id = Nil
              ELSE /\ plans'[p].registration_id \in Active(pending[c])
                   /\ plans'[p].registration_generation
                        = registrations[plans'[p].registration_id].generation
           /\ pending[c].eligibility \in DirectOutcome => Active(pending[c]) # {}
  <1> DEFINE d == pending[c]
  <1>1. d \in [eligibility : Plannable, source : BufferIds, source_generation : Nat,
               destination : EndpointIds, destination_generation : Nat,
               policy : PathPolicy, size : Nat]
    BY DEF plan_transfer, TypeOK, Decision, NoDecision
  <1>2. StillCurrent(d)
    BY DEF plan_transfer
  <1>3. PICK r \in IF Active(d) = {} THEN {Nil} ELSE Newest(Active(d)) :
           plans' = [plans EXCEPT ![p] =
             [eligibility |-> d.eligibility,
              source |-> d.source, source_generation |-> buffers[d.source].generation,
              destination |-> d.destination,
              destination_generation |-> endpoints[d.destination].generation,
              registration_id |-> r,
              registration_generation |-> IF r = Nil THEN 0 ELSE registrations[r].generation,
              policy |-> d.policy, expected_bytes |-> d.size, epoch |-> epoch,
              authority |-> buffers[d.source].authority, authoritative |-> TRUE,
              staging |-> s]]
    BY DEF plan_transfer
  <1>4. /\ \A q \in PlanIds : q # p => plans'[q] = plans[q]
        /\ plans'[p] =
             [eligibility |-> d.eligibility,
              source |-> d.source, source_generation |-> buffers[d.source].generation,
              destination |-> d.destination,
              destination_generation |-> endpoints[d.destination].generation,
              registration_id |-> r,
              registration_generation |-> IF r = Nil THEN 0 ELSE registrations[r].generation,
              policy |-> d.policy, expected_bytes |-> d.size, epoch |-> epoch,
              authority |-> buffers[d.source].authority, authoritative |-> TRUE,
              staging |-> s]
    BY <1>3 DEF TypeOK
  <1>5. IF Active(d) = {} THEN r = Nil ELSE r \in Active(d) /\ r # Nil
    BY <1>3, IdAssumption DEF Newest, Active, RegistrationsOf
  <1>6. QED
    BY <1>1, <1>2, <1>4, <1>5 DEF StillCurrent

\* A plan that is authoritative before and after a step has seen no new
\* generation in it.
LEMMA AuthoritativeKept ==
    ASSUME TypeOK, PlanKnown, KeepsReferences,
           NEW p \in PlanIds, plans[p].authoritative, plans'[p].authoritative
    PROVE  /\ buffers'[plans[p].source].generation = buffers[plans[p].source].generation
           /\ endpoints'[plans[p].destination].generation
                = endpoints[plans[p].destination].generation
  <1>1. /\ plans[p].source \in BufferIds /\ buffers[plans[p].source].lifecycle # "NONE"
        /\ plans[p].destination \in EndpointIds /\ endpoints[plans[p].destination].present
    BY DEF PlanKnown
  <1>2. ASSUME NEW ps, p \in ps PROVE plans' # Supersede(ps)
    BY <1>2, SupersedeFrame
  <1>3. plans' # Supersede({q \in PlanIds : plans[q].source = plans[p].source})
    BY <1>2
  <1>4. plans' # Supersede({q \in PlanIds : plans[q].destination = plans[p].destination})
    BY <1>2
  <1>5. QED
    BY <1>1, <1>3, <1>4 DEF KeepsReferences

\* Every step keeps PlanFence, given that plans refer to records that exist.
LEMMA PlanFenceStep ==
    TypeOK /\ PlanKnown /\ PlanFence /\ [Next]_vars => PlanKnown' /\ PlanFence'
  <1> SUFFICES ASSUME TypeOK, PlanKnown, PlanFence, [Next]_vars
               PROVE  PlanKnown' /\ PlanFence'
    OBVIOUS
  <1>1. KeepsReferences
    BY ReferencesKept
  <1>2. ASSUME NEW ps \in SUBSET PlanIds, plans' = Supersede(ps)
        PROVE  PlanKnown'
    <2>1. ASSUME NEW p \in PlanIds
          PROVE  /\ plans'[p].eligibility = plans[p].eligibility
                 /\ plans'[p].source = plans[p].source
                 /\ plans'[p].destination = plans[p].destination
                 /\ plans'[p].registration_id = plans[p].registration_id
                 /\ plans'[p].authoritative => plans[p].authoritative
      BY <1>2, SupersedeFrame
    <2>2. QED
      BY <1>1, <2>1 DEF PlanKnown, KeepsReferences
  <1>3. CASE UNCHANGED <<epoch, plans>>
    <2>1. PlanKnown'
      BY <1>1, <1>3 DEF PlanKnown, KeepsReferences
    <2>2. ASSUME NEW p \in PlanIds, plans[p].authoritative
          PROVE  /\ buffers'[plans[p].source].generation = buffers[plans[p].source].generation
                 /\ endpoints'[plans[p].destination].generation
                      = endpoints[plans[p].destination].generation
      BY <1>1, <1>3, <2>2, AuthoritativeKept
    <2>3. QED
      BY <1>3, <2>1, <2>2 DEF PlanFence
  <1>4. ASSUME UNCHANGED epoch, NEW ps \in SUBSET PlanIds, plans' = Supersede(ps)
        PROVE  PlanFence'
    <2>1. ASSUME NEW p \in PlanIds, plans'[p].authoritative
          PROVE  /\ buffers'[plans[p].source].generation = buffers[plans[p].source].generation
                 /\ endpoints'[plans[p].destination].generation
                      = endpoints[plans[p].destination].generation
                 /\ plans[p].authoritative
      <3>1. plans[p].authoritative
        BY <1>4, <2>1, SupersedeFrame
      <3>2. QED
        BY <1>1, <2>1, <3>1, AuthoritativeKept
    <2>2. QED
      BY <1>4, <2>1, SupersedeFrame DEF PlanFence
  <1>5. ASSUME plans' = Supersede(PlanIds)
        PROVE  PlanFence'
    BY <1>5, SupersedeFrame DEF PlanFence
  <1>6. ASSUME NEW c \in Callers, NEW p \in PlanIds, NEW s \in BufferIds \cup {Nil},
               plan_transfer(c, p, s)
        PROVE  PlanKnown' /\ PlanFence'
    <2>1. UNCHANGED <<epoch, endpoints>>
      BY <1>6 DEF plan_transfer, workerVars, inventoryVars
    <2>2. \A b \in BufferIds : buffers[b].lifecycle # "NONE" => buffers'[b] = buffers[b]
      BY <1>6, IdAssumption DEF plan_transfer
    <2>3. "NONE" \notin Plannable
      BY DEF Plannable, DirectOutcome
    <2>4. PlanKnown'
      BY <1>6, <2>1, <2>2, <2>3, CommittedPlan DEF PlanKnown
    <2>5. PlanFence'
      BY <1>6, <2>1, <2>2, <2>3, CommittedPlan DEF PlanFence, PlanKnown
    <2>6. QED
      BY <2>4, <2>5
  <1>7. QED
    BY <1>2, <1>3, <1>4, <1>5, <1>6, OnlyPlanTransferCommits

\* The inductive invariant of plans.
LEMMA PlanInvariant == Spec => [](PlanKnown /\ PlanFence)
  <1>1. Init => PlanKnown /\ PlanFence
    BY DEF Init, PlanKnown, PlanFence, NoPlan
  <1>2. QED
    BY <1>1, PlanFenceStep, TypeCorrect, PTL DEF Spec

\* However the steps of two plan_transfer calls, registrations, generation
\* changes and epochs interleave, an authoritative plan is a current plan.
THEOREM PlansStayFenced == Spec => []PlanFence
  BY PlanInvariant, PTL

-------------------------------------------------------------------------------
(* PlanBinding: the registration under an id changes its pair or its       *)
(* generation only when the other counter gives out the id as well.        *)

\* A step keeps the pair and the generation of a registration, unless it
\* makes its id one that was given out twice.
LEMMA BindingKept ==
    ASSUME TypeOK, IdsAreIssued, [Next]_vars, NEW bound \in RegistrationIds,
           registrations[bound].buffer # Nil, ~IssuedTwice(bound)'
    PROVE  SameBinding(bound)
  <1>1. CASE UNCHANGED registrations
    BY <1>1 DEF SameBinding
  <1>2. ASSUME NEW rs \in SUBSET RegistrationIds, registrations' = Revalidate(rs)
        PROVE  SameBinding(bound)
    BY <1>2, RevalidateFrame DEF SameBinding
  <1>3. ASSUME NEW r \in RegistrationIds, registrations' = Retire(r)
        PROVE  SameBinding(bound)
    BY <1>3, RetireFrame DEF SameBinding
  <1>4. ASSUME NEW b \in BufferIds, NEW e \in EndpointIds, NEW a \in Authorities,
               NEW r \in RegistrationIds, NEW g \in 1..MaxGeneration,
               NEW support \in RegistrationSupport, register_buffer(b, e, a, r, g, support)
        PROVE  SameBinding(bound)
    <2>1. bound # r
      BY <1>4, OverwritesAreCollisions DEF InUse
    <2>2. QED
      BY <1>4, <2>1 DEF register_buffer, SameBinding, TypeOK
  <1>5. QED
    BY <1>1, <1>2, <1>3, <1>4, OnlyRegisterGrants

\* Every step keeps PlanBinding.
LEMMA BindingStep ==
    TypeOK /\ PlanKnown /\ IdsAreIssued /\ PlanBinding /\ [Next]_vars => PlanBinding'
  <1> SUFFICES ASSUME TypeOK, PlanKnown, IdsAreIssued, PlanBinding, [Next]_vars
               PROVE  PlanBinding'
    OBVIOUS
  <1>0. ASSUME NEW r, ~IssuedTwice(r)' PROVE ~IssuedTwice(r)
    BY <1>0, IssuedGrows DEF IssuedTwice
  <1>1. ASSUME NEW p \in PlanIds, NEW r, r = plans[p].registration_id, r # Nil, ~IssuedTwice(r)'
        PROVE  SameBinding(r) /\ ~IssuedTwice(r)
    <2>1. r \in RegistrationIds /\ registrations[r].buffer # Nil
      BY <1>0, <1>1, IdAssumption DEF TypeOK, TransferPlan, PlanKnown, PlanBinding
    <2>2. QED
      BY <1>0, <1>1, <2>1, BindingKept
  <1>2. ASSUME \A p \in PlanIds :
                  /\ plans'[p].eligibility = plans[p].eligibility
                  /\ plans'[p].source = plans[p].source
                  /\ plans'[p].destination = plans[p].destination
                  /\ plans'[p].registration_id = plans[p].registration_id
                  /\ plans'[p].registration_generation = plans[p].registration_generation
        PROVE  PlanBinding'
    BY <1>1, <1>2 DEF PlanBinding, SameBinding, IssuedTwice
  <1>3. CASE UNCHANGED plans
    BY <1>2, <1>3
  <1>4. ASSUME NEW ps, plans' = Supersede(ps)
        PROVE  PlanBinding'
    BY <1>2, <1>4, SupersedeFrame
  <1>5. ASSUME NEW c \in Callers, NEW p \in PlanIds, NEW s \in BufferIds \cup {Nil},
               plan_transfer(c, p, s)
        PROVE  PlanBinding'
    <2>1. UNCHANGED <<registrations, issued>>
      BY <1>5 DEF plan_transfer
    <2>2. plans'[p].registration_id # Nil =>
             /\ plans'[p].registration_id \in Active(pending[c])
             /\ registrations[plans'[p].registration_id].buffer = plans'[p].source
             /\ registrations[plans'[p].registration_id].endpoint = plans'[p].destination
             /\ registrations[plans'[p].registration_id].generation
                  = plans'[p].registration_generation
      BY <1>5, CommittedPlan DEF Active, RegistrationsOf
    <2>3. plans'[p].eligibility \in DirectOutcome => plans'[p].registration_id # Nil
      BY <1>5, CommittedPlan, IdAssumption DEF Active, RegistrationsOf
    <2>4. \A q \in PlanIds : q # p => plans'[q] = plans[q]
      BY <1>5, CommittedPlan
    <2>5. QED
      BY <2>1, <2>2, <2>3, <2>4 DEF PlanBinding, IssuedTwice
  <1>6. QED
    BY <1>3, <1>4, <1>5, OnlyPlanTransferCommits

\* The inductive invariant of bindings.
LEMMA BindingInvariant == Spec => []PlanBinding
  <1>1. Init => PlanBinding
    BY DEF Init, PlanBinding, NoPlan, DirectOutcome
  <1>2. QED
    BY <1>1, BindingStep, TypeCorrect, PlanInvariant, IssuedInvariant, PTL DEF Spec

\* A plan comes to name a registration of another pair or generation in one
\* way only: a backend and the coordinator both gave out its id.
THEOREM PlansStayBound == Spec => []PlanBinding
  BY BindingInvariant, PTL

-------------------------------------------------------------------------------
(* DirectBeginIsFenced, from the invariants. *)
BeginFenced(t) ==
    attempts[t].state = "NONE" /\ attempts'[t].state # "NONE" =>
      LET plan == plans[attempts'[t].plan]
          reg == registrations[plan.registration_id]
      IN  plan.eligibility \in DirectOutcome =>
            /\ plan.epoch = epoch
            /\ reg.state = "REGISTERED"
            /\ ~IssuedTwice(plan.registration_id) =>
                 /\ reg.buffer = plan.source /\ reg.endpoint = plan.destination
                 /\ reg.buffer_generation = plan.source_generation
                 /\ reg.endpoint_generation = plan.destination_generation
                 /\ buffers[plan.source].lifecycle = "ACTIVE"

\* Only begin_transfer takes an attempt out of NONE.
LEMMA OnlyBeginStarts ==
    ASSUME TypeOK, [Next]_vars, NEW t \in AttemptIds,
           attempts[t].state = "NONE", attempts'[t].state # "NONE"
    PROVE  \E p \in PlanIds, a \in Authorities, o \in Outcomes : begin_transfer(t, p, a, o)
  <1> USE DEF vars, workerVars, inventoryVars, transferVars
  <1>1. TransferOperation
    BY Frames DEF Next
  <1>2. ASSUME NEW u \in AttemptIds, NEW p \in PlanIds, NEW a \in Authorities, NEW o \in Outcomes,
               begin_transfer(u, p, a, o)
        PROVE  u = t
    BY <1>2 DEF begin_transfer, TypeOK
  <1>3. ASSUME NEW u \in AttemptIds, complete_failed(u) PROVE FALSE
    BY <1>3 DEF complete_failed
  <1>4. ASSUME NEW u \in AttemptIds, NEW a \in Authorities, complete_transfer(u, a) PROVE FALSE
    <2>1. u # t
      BY <1>4 DEF complete_transfer, MayComplete
    <2>2. QED
      BY <1>4, <2>1 DEF complete_transfer, TypeOK
  <1>5. ASSUME NEW u \in AttemptIds, NEW a \in Authorities, cancel_transfer(u, a) PROVE FALSE
    <2>1. u # t
      BY <1>5 DEF cancel_transfer, Cancellable
    <2>2. QED
      BY <1>5, <2>1 DEF cancel_transfer, TypeOK
  <1>6. ASSUME NEW u \in AttemptIds, NEW passed \in BOOLEAN, verify_transfer(u, passed) PROVE FALSE
    BY <1>6 DEF verify_transfer
  <1>7. QED
    BY <1>1, <1>2, <1>3, <1>4, <1>5, <1>6 DEF TransferOperation

\* One step of begin_transfer on a direct plan, from the invariants.
LEMMA BeginStep ==
    ASSUME TypeOK, RegistrationCurrent, PlanKnown, PlanFence, PlanBinding, [Next]_vars,
           NEW t \in AttemptIds
    PROVE  BeginFenced(t)
  <1> SUFFICES ASSUME attempts[t].state = "NONE", attempts'[t].state # "NONE",
                      plans[attempts'[t].plan].eligibility \in DirectOutcome
               PROVE  LET plan == plans[attempts'[t].plan]
                          reg == registrations[plan.registration_id]
                      IN  /\ plan.epoch = epoch
                          /\ reg.state = "REGISTERED"
                          /\ ~IssuedTwice(plan.registration_id) =>
                               /\ reg.buffer = plan.source /\ reg.endpoint = plan.destination
                               /\ reg.buffer_generation = plan.source_generation
                               /\ reg.endpoint_generation = plan.destination_generation
                               /\ buffers[plan.source].lifecycle = "ACTIVE"
    BY DEF BeginFenced
  <1>1. PICK p \in PlanIds, a \in Authorities, o \in Outcomes : begin_transfer(t, p, a, o)
    BY OnlyBeginStarts
  <1>2. attempts'[t].plan = p
    BY <1>1 DEF begin_transfer, TypeOK
  <1> DEFINE r == plans[p].registration_id
  <1>3. r # Nil /\ r \in RegistrationIds
    BY <1>2 DEF PlanBinding, TypeOK, TransferPlan
  <1>4. registrations[r].state = "REGISTERED" /\ plans[p].authoritative
    BY <1>1, <1>3 DEF begin_transfer, RegistrationStillCurrent, PlanStillCurrent
  <1>5. ~IssuedTwice(r) =>
          registrations[r].buffer = plans[p].source /\ registrations[r].endpoint = plans[p].destination
    BY <1>3 DEF PlanBinding
  <1>6. QED
    BY <1>2, <1>3, <1>4, <1>5 DEF RegistrationCurrent, PlanFence

\* Every transfer on a direct plan starts through an active registration and,
\* unless its id was given out twice, through the one of exactly the planned
\* buffer and endpoint, at the planned generations.
THEOREM DirectTransfersAreFenced == Spec => DirectBeginIsFenced
  <1>1. /\ TypeOK /\ RegistrationCurrent /\ PlanKnown /\ PlanFence /\ PlanBinding
        /\ [Next]_vars
        => [\A t \in AttemptIds : BeginFenced(t)]_vars
    BY BeginStep
  <1>2. [\A t \in AttemptIds : BeginFenced(t)]_vars =>
          [ \A t \in AttemptIds :
              attempts[t].state = "NONE" /\ attempts'[t].state # "NONE" =>
                LET plan == plans[attempts'[t].plan]
                    reg == registrations[plan.registration_id]
                IN  plan.eligibility \in DirectOutcome =>
                      /\ plan.epoch = epoch
                      /\ reg.state = "REGISTERED"
                      /\ ~IssuedTwice(plan.registration_id) =>
                           /\ reg.buffer = plan.source /\ reg.endpoint = plan.destination
                           /\ reg.buffer_generation = plan.source_generation
                           /\ reg.endpoint_generation = plan.destination_generation
                           /\ buffers[plan.source].lifecycle = "ACTIVE" ]_vars
    BY DEF BeginFenced
  <1>3. QED
    BY <1>1, <1>2, TypeCorrect, RegistrationsStayCurrent, PlanInvariant, BindingInvariant, PTL
    DEF Spec, DirectBeginIsFenced

-------------------------------------------------------------------------------
(* CommitMatchesSnapshot. *)

\* The plan a caller commits is the decision it took, at the generations it
\* took it on; the decision is used up.
LEMMA CommitStep ==
    ASSUME TypeOK, [Next]_vars, NEW p \in PlanIds,
           plans[p].eligibility = "NONE", plans'[p].eligibility # "NONE"
    PROVE  \E c \in Callers :
              LET d == pending[c] IN
              /\ d # NoDecision /\ pending'[c] = NoDecision
              /\ d.eligibility = plans'[p].eligibility
              /\ <<d.source, d.source_generation>>
                   = <<plans'[p].source, plans'[p].source_generation>>
              /\ <<d.destination, d.destination_generation>>
                   = <<plans'[p].destination, plans'[p].destination_generation>>
  <1>1. ASSUME NEW ps PROVE plans' # Supersede(ps)
    BY SupersedeFrame
  <1>2. PICK c \in Callers, q \in PlanIds, s \in BufferIds \cup {Nil} : plan_transfer(c, q, s)
    BY <1>1, OnlyPlanTransferCommits
  <1>3. q = p
    BY <1>2, CommittedPlan
  <1>4. pending'[c] = NoDecision /\ pending[c] # NoDecision
    BY <1>2 DEF plan_transfer, TypeOK, NoDecision
  <1>5. QED
    BY <1>2, <1>3, <1>4, CommittedPlan

\* Whatever happens between the two critical sections of plan_transfer, a
\* plan is committed only for the generations it was decided on.
THEOREM CommitsMatchSnapshots == Spec => CommitMatchesSnapshot
  <1> DEFINE Match ==
        \A p \in PlanIds :
          plans[p].eligibility = "NONE" /\ plans'[p].eligibility # "NONE" =>
            \E c \in Callers :
               LET d == pending[c] IN
               /\ d # NoDecision /\ pending'[c] = NoDecision
               /\ d.eligibility = plans'[p].eligibility
               /\ <<d.source, d.source_generation>>
                    = <<plans'[p].source, plans'[p].source_generation>>
               /\ <<d.destination, d.destination_generation>>
                    = <<plans'[p].destination, plans'[p].destination_generation>>
  <1>1. TypeOK /\ [Next]_vars => [Match]_vars
    BY CommitStep
  <1>2. QED
    BY <1>1, TypeCorrect, PTL DEF Spec, CommitMatchesSnapshot

-------------------------------------------------------------------------------
(* DirectDecisionIsCurrent: from the evidence back to the registries. *)

\* A direct decision that evaluate_path takes rests on the registries.
LEMMA DecisionOnRegistries ==
    ASSUME NEW b \in BufferIds, NEW e \in EndpointIds, NEW req,
           evaluate(req, build_evidence_locked(b, e)).eligibility \in DirectOutcome,
           NEW d, d.source = b, d.destination = e, d.size = req.size
    PROVE  RestsOnRegistries(d)
  <1> DEFINE ev == build_evidence_locked(b, e)
  <1>1. /\ ev.epoch = epoch /\ ev.workers = workers /\ ev.source = buffers[b]
        /\ ev.destination = endpoints[e]
        /\ ev.providers = providers /\ ev.capabilities = capabilities
        /\ ev.registrations = {registrations[r] :
                                 r \in {q \in RegistrationIds : registrations[q].state # "NONE"}}
    BY DEF build_evidence_locked
  <1>2. /\ ev.sourceId \in {b, Nil}
        /\ ev.destinationId = IF endpoints[e].present THEN e ELSE Nil
        /\ ev.deviceId = IF buffers[b].device \in devices THEN buffers[b].device ELSE Nil
    BY DEF build_evidence_locked
  <1> HIDE DEF ev
  <1>3. /\ ev.sourceId # Nil /\ ev.source.lifecycle = "ACTIVE" /\ req.size <= ev.source.size
        /\ DestinationUsable(ev) /\ ev.deviceId # Nil
        /\ \E p \in ev.providers :
             p.name = provider_for(ev.destination.endpoint_class) /\ p.available
        /\ \E c \in ev.capabilities :
             /\ c.provider = provider_for(ev.destination.endpoint_class)
             /\ c.capability = cap_for(ev.destination.endpoint_class)
             /\ c.value = "true"
    BY DirectRestsOnEvidence DEF ev
  <1>4. PICK reg \in ev.registrations :
             /\ reg.buffer = ev.sourceId /\ reg.endpoint = ev.destinationId
             /\ reg.state = "REGISTERED"
             /\ reg.buffer_generation = ev.source.generation
             /\ reg.endpoint_generation = ev.destination.generation
             /\ AuthorityLive(reg.authority, ev.epoch, ev.workers)
    BY DirectRestsOnEvidence DEF ev
  <1>5. PICK r \in RegistrationIds : reg = registrations[r]
    BY <1>1, <1>4
  <1>6. ev.sourceId = b /\ ev.destinationId = e /\ endpoints[e].present
    BY <1>2, <1>3 DEF DestinationUsable
  <1>7. r \in RegistrationsOf(b, e)
    BY <1>4, <1>5, <1>6 DEF RegistrationsOf
  <1>8. buffers[b].device \in devices /\ endpoints[e].healthy
    BY <1>1, <1>2, <1>3 DEF DestinationUsable
  <1>9. QED
    BY <1>1, <1>3, <1>4, <1>5, <1>6, <1>7, <1>8 DEF RestsOnRegistries, AuthorityLive

\* Whatever the registries hold, and for every request: a decision for a
\* direct path is taken only while everything the path rests on is current.
THEOREM DirectDecisionsAreCurrent == Spec => DirectDecisionIsCurrent
  <1> DEFINE Rests == \A c \in Callers :
               pending[c].eligibility = "NONE" /\ pending'[c].eligibility \in DirectOutcome =>
                 RestsOnRegistries(pending'[c])
  <1>1. TypeOK /\ [Next]_vars => [Rests]_vars
    <2> SUFFICES ASSUME TypeOK, Next, NEW x \in Callers, pending[x].eligibility = "NONE",
                        pending'[x].eligibility \in DirectOutcome
                 PROVE  RestsOnRegistries(pending'[x])
      OBVIOUS
    <2>1. pending'[x] # pending[x] /\ NoDecision.eligibility = "NONE"
      BY DEF DirectOutcome, NoDecision
    <2>2. PlanOperation
      BY <2>1, Frames DEF Next
    <2>3. ASSUME NEW c \in Callers, NEW b \in BufferIds, NEW e \in EndpointIds,
                 NEW req \in Requests, evaluate_path(c, b, e, req)
          PROVE  RestsOnRegistries(pending'[x])
      <3>1. c = x
        BY <2>1, <2>3 DEF evaluate_path, TypeOK
      <3>2. /\ pending'[x].eligibility = evaluate(req, build_evidence_locked(b, e)).eligibility
            /\ pending'[x].source = b /\ pending'[x].destination = e
            /\ pending'[x].size = req.size
        BY <2>3, <3>1 DEF evaluate_path, TypeOK
      <3>3. QED
        BY <3>2, DecisionOnRegistries
    <2>4. ASSUME NEW c \in Callers, pending' = [pending EXCEPT ![c] = NoDecision] PROVE FALSE
      BY <2>1, <2>4 DEF TypeOK, DirectOutcome
    <2>5. QED
      BY <2>2, <2>3, <2>4 DEF PlanOperation, plan_transfer, plan_transfer_rejected
  <1>2. QED
    BY <1>1, TypeCorrect, PTL DEF Spec, DirectDecisionIsCurrent

-------------------------------------------------------------------------------
(* StagingOnlyWhenAllowed: the decision that waits for its commit must keep *)
(* the promise already.                                                     *)
StagingAllowed ==
    /\ \A c \in Callers : pending[c].eligibility = "FALLBACK_REQUIRED" =>
                             pending[c].policy # "DIRECT_ONLY"
    /\ StagingOnlyWhenAllowed

\* How decisions that wait change: a new one, or one that is used up.
LEMMA DecisionStep ==
    ASSUME TypeOK, StagingAllowed, [Next]_vars, NEW x \in Callers,
           pending'[x].eligibility = "FALLBACK_REQUIRED"
    PROVE  pending'[x].policy # "DIRECT_ONLY"
  <1>1. CASE UNCHANGED pending
    BY <1>1 DEF StagingAllowed
  <1>2. ASSUME NEW c \in Callers, NEW b \in BufferIds, NEW e \in EndpointIds,
               NEW req \in Requests, evaluate_path(c, b, e, req)
        PROVE  pending'[x].policy # "DIRECT_ONLY"
    <2> DEFINE ev == build_evidence_locked(b, e)
    <2> HIDE DEF ev
    <2>1. pending' = [pending EXCEPT ![c] =
             [eligibility |-> evaluate(req, ev).eligibility,
              source |-> b, source_generation |-> buffers[b].generation,
              destination |-> e, destination_generation |-> endpoints[e].generation,
              policy |-> req.policy, size |-> req.size]]
      BY <1>2 DEF evaluate_path, ev
    <2>2. CASE x = c
      <3>1. /\ pending'[x].eligibility = evaluate(req, ev).eligibility
            /\ pending'[x].policy = req.policy
        BY <2>1, <2>2 DEF TypeOK
      <3>2. QED
        BY <3>1, StagingNeedsEvidence
    <2>3. CASE x # c
      BY <2>1, <2>3 DEF TypeOK, StagingAllowed
    <2>4. QED
      BY <2>2, <2>3
  <1>3. ASSUME NEW c \in Callers, pending' = [pending EXCEPT ![c] = NoDecision]
        PROVE  pending'[x].policy # "DIRECT_ONLY"
    BY <1>3 DEF TypeOK, StagingAllowed, NoDecision
  <1>4. CASE PlanOperation
    BY <1>2, <1>3, <1>4 DEF PlanOperation, plan_transfer, plan_transfer_rejected
  <1>5. QED
    BY <1>1, <1>4, Frames DEF Next, vars

\* A caller that asked for DIRECT_ONLY never gets a plan with a staging
\* copy, however the evidence changes between decision and commit.
THEOREM NoHiddenStaging == Spec => []StagingOnlyWhenAllowed
  <1>1. Init => StagingAllowed
    BY DEF Init, StagingAllowed, StagingOnlyWhenAllowed, NoPlan, NoDecision
  <1>2. TypeOK /\ StagingAllowed /\ [Next]_vars => StagingAllowed'
    <2> SUFFICES ASSUME TypeOK, StagingAllowed, [Next]_vars PROVE StagingAllowed'
      OBVIOUS
    <2>1. ASSUME NEW c \in Callers, NEW p \in PlanIds, NEW s \in BufferIds \cup {Nil},
                 plan_transfer(c, p, s)
          PROVE  StagingOnlyWhenAllowed'
      <3>1. pending[c].eligibility \notin DirectOutcome
              => pending[c].eligibility = "FALLBACK_REQUIRED"
        BY <2>1, CommittedPlan DEF Plannable
      <3>2. pending[c].eligibility \in DirectOutcome => s = Nil
        BY <2>1 DEF plan_transfer
      <3>3. QED
        BY <2>1, <3>1, <3>2, CommittedPlan DEF StagingAllowed, StagingOnlyWhenAllowed
    <2>2. ASSUME NEW ps, plans' = Supersede(ps) PROVE StagingOnlyWhenAllowed'
      BY <2>2, SupersedeFrame DEF StagingAllowed, StagingOnlyWhenAllowed
    <2>3. ASSUME UNCHANGED plans PROVE StagingOnlyWhenAllowed'
      BY <2>3 DEF StagingAllowed, StagingOnlyWhenAllowed
    <2>4. StagingOnlyWhenAllowed'
      BY <2>1, <2>2, <2>3, OnlyPlanTransferCommits
    <2>5. QED
      BY <2>4, DecisionStep DEF StagingAllowed
  <1>3. StagingAllowed => StagingOnlyWhenAllowed
    BY DEF StagingAllowed
  <1>4. QED
    BY <1>1, <1>2, <1>3, TypeCorrect, PTL DEF Spec

-------------------------------------------------------------------------------
(* BuffersAreBounded: the registries stay finite, whatever the pools are, *)
(* and an id that is no plan yet has no staging buffer.                   *)
Known  == {b \in BufferIds : buffers[b].lifecycle # "NONE"}
Staged == {p \in PlanIds : plans[p].staging # Nil}

Accounted ==
    /\ IsFiniteSet(Known) /\ IsFiniteSet(Staged)
    /\ \A p \in PlanIds : plans[p].eligibility = "NONE" => plans[p].staging = Nil
    /\ BuffersAreBounded

\* A buffer comes from create_buffer or, as a staging buffer, from
\* plan_transfer; none ever goes.
LEMMA BufferSources ==
    ASSUME TypeOK, [Next]_vars
    PROVE  \/ \E b \in BufferIds, shape \in BufferShapes, a \in Authorities :
                 create_buffer(b, shape, a)
           \/ \E c \in Callers, p \in PlanIds, s \in BufferIds \cup {Nil} : plan_transfer(c, p, s)
           \/ Known' = Known
  <1> USE DEF vars, workerVars, inventoryVars, transferVars
  <1>1. CASE UNCHANGED buffers
    BY <1>1 DEF Known
  <1>2. CASE BufferOperation
    <2>1. ASSUME NEW b \in BufferIds, NEW a \in Authorities, advance_buffer_generation(b, a)
          PROVE  \A x \in BufferIds : buffers'[x].lifecycle = buffers[x].lifecycle
      BY <2>1 DEF advance_buffer_generation, TypeOK, BufferRecord
    <2>2. ASSUME NEW b \in BufferIds, NEW a \in Authorities, retire_buffer(b, a)
          PROVE  \A x \in BufferIds :
                    buffers'[x].lifecycle # "NONE" <=> buffers[x].lifecycle # "NONE"
      BY <2>2 DEF retire_buffer, TypeOK, BufferRecord
    <2>3. QED
      BY <1>2, <2>1, <2>2 DEF BufferOperation, Known
  <1>3. CASE RegistrationOperation
    <2>1. ASSUME NEW b \in BufferIds, NEW e, NEW a, NEW r, NEW g, NEW support,
                 register_buffer(b, e, a, r, g, support)
          PROVE  \A x \in BufferIds : buffers'[x].lifecycle = buffers[x].lifecycle
      BY <2>1 DEF register_buffer, TypeOK, BufferRecord
    <2>2. ASSUME NEW r, NEW a, deregister_buffer(r, a)
          PROVE  \A x \in BufferIds : buffers'[x].lifecycle = buffers[x].lifecycle
      BY <2>2 DEF deregister_buffer, TypeOK, BufferRecord
    <2>3. QED
      BY <1>1, <1>3, <2>1, <2>2 DEF RegistrationOperation, deregister_orphan, Known
  <1>4. CASE PlanOperation
    BY <1>1, <1>4 DEF PlanOperation, evaluate_path, plan_transfer_rejected
  <1>5. QED
    BY <1>1, <1>2, <1>3, <1>4, Frames DEF Next

\* Every step keeps the account: create_buffer stays below the limit in
\* force, and a staging buffer is paid for by the plan it belongs to.
LEMMA AccountStep == TypeOK /\ Accounted /\ [Next]_vars => Accounted'
  <1> SUFFICES ASSUME TypeOK, Accounted, [Next]_vars PROVE Accounted'
    OBVIOUS
  <1> USE DEF Accounted
  <1>1. /\ BufferCount = Cardinality(Known) /\ BufferCount' = Cardinality(Known')
        /\ BuffersAreBounded <=>
             \E l \in LimitSettings : Cardinality(Known) <= l.buffers + Cardinality(Staged)
        /\ BuffersAreBounded' <=>
             \E l \in LimitSettings : Cardinality(Known') <= l.buffers + Cardinality(Staged')
    BY DEF BufferCount, Known, Staged, BuffersAreBounded
  <1>2. Cardinality(Known) \in Nat /\ Cardinality(Staged) \in Nat
    BY FS_CardinalityType
  <1>3. ASSUME \A p \in PlanIds : /\ plans'[p].staging = plans[p].staging
                                  /\ plans'[p].eligibility = plans[p].eligibility
        PROVE  /\ Staged' = Staged
               /\ \A p \in PlanIds : plans'[p].eligibility = "NONE" => plans'[p].staging = Nil
    BY <1>3 DEF Staged
  <1>4. CASE \E b \in BufferIds, shape \in BufferShapes, a \in Authorities :
                create_buffer(b, shape, a)
    <2>1. PICK b \in BufferIds, shape \in BufferShapes, a \in Authorities :
             create_buffer(b, shape, a)
      BY <1>4
    <2>2. UNCHANGED plans /\ Cardinality(Known) < limits.buffers
      BY <1>1, <2>1 DEF create_buffer
    <2>3. Known' = Known \cup {b} /\ b \notin Known
      <3>1. \A x \in BufferIds : x # b => buffers'[x] = buffers[x]
        BY <2>1 DEF create_buffer, TypeOK
      <3>2. buffers'[b].lifecycle = "ACTIVE"
        BY <2>1 DEF create_buffer, TypeOK, NoBuffer
      <3>3. buffers[b].lifecycle = "NONE"
        BY <2>1 DEF create_buffer
      <3>4. QED
        BY <3>1, <3>2, <3>3 DEF Known
    <2>4. limits \in LimitSettings /\ limits.buffers \in Nat
      BY InputAssumption DEF TypeOK
    <2>5. IsFiniteSet(Known') /\ Cardinality(Known') = Cardinality(Known) + 1
      BY <2>3, FS_AddElement
    <2>6. Staged' = Staged /\ Cardinality(Known') \in Nat
      BY <1>3, <2>2, <2>5, FS_CardinalityType
    <2>7. Cardinality(Known') <= limits.buffers + Cardinality(Staged')
      BY <1>2, <2>2, <2>4, <2>5, <2>6
    <2>8. QED
      BY <1>1, <1>3, <2>2, <2>4, <2>5, <2>6, <2>7
  <1>5. CASE \E c \in Callers, p \in PlanIds, s \in BufferIds \cup {Nil} : plan_transfer(c, p, s)
    <2>1. PICK c \in Callers, p \in PlanIds, s \in BufferIds \cup {Nil} : plan_transfer(c, p, s)
      BY <1>5
    <2>2. /\ \A q \in PlanIds : q # p => plans'[q] = plans[q]
          /\ plans'[p].staging = s /\ plans'[p].eligibility # "NONE"
          /\ plans[p].staging = Nil
      <3>1. plans[p].eligibility = "NONE"
        BY <2>1 DEF plan_transfer
      <3>2. "NONE" \notin Plannable
        BY DEF Plannable, DirectOutcome
      <3>3. QED
        BY <2>1, <3>1, <3>2, CommittedPlan
    <2>3. \A x \in BufferIds : x # s => buffers'[x] = buffers[x]
      BY <2>1 DEF plan_transfer
    <2>4. CASE s = Nil
      <3>1. Known' = Known
        BY <2>3, <2>4, IdAssumption DEF Known
      <3>2. Staged' = Staged
        BY <2>2, <2>4 DEF Staged
      <3>3. QED
        BY <1>1, <2>2, <3>1, <3>2
    <2>5. CASE s # Nil
      <3>1. s \in BufferIds /\ buffers[s].lifecycle = "NONE" /\ buffers'[s].lifecycle = "ACTIVE"
        BY <2>1, <2>5 DEF plan_transfer, NoBuffer
      <3>2. Known' = Known \cup {s} /\ s \notin Known
        BY <2>3, <3>1 DEF Known
      <3>3. Staged' = Staged \cup {p} /\ p \notin Staged
        BY <2>2, <2>5 DEF Staged
      <3>4. IsFiniteSet(Known') /\ Cardinality(Known') = Cardinality(Known) + 1
        BY <3>2, FS_AddElement
      <3>5. IsFiniteSet(Staged') /\ Cardinality(Staged') = Cardinality(Staged) + 1
        BY <3>3, FS_AddElement
      <3>6. PICK l \in LimitSettings : Cardinality(Known) <= l.buffers + Cardinality(Staged)
        BY <1>1
      <3>7. l.buffers \in Nat
        BY InputAssumption
      <3>8. Cardinality(Known') <= l.buffers + Cardinality(Staged')
        BY <1>2, <3>4, <3>5, <3>6, <3>7
      <3>9. QED
        BY <1>1, <2>2, <3>4, <3>5, <3>8
    <2>6. QED
      BY <2>4, <2>5
  <1>6. ASSUME Known' = Known,
               ~\E c \in Callers, p \in PlanIds, s \in BufferIds \cup {Nil} : plan_transfer(c, p, s)
        PROVE  Accounted'
    <2>1. \A p \in PlanIds : /\ plans'[p].staging = plans[p].staging
                             /\ plans'[p].eligibility = plans[p].eligibility
      BY <1>6, OnlyPlanTransferCommits, SupersedeFrame
    <2>2. QED
      BY <1>1, <1>3, <1>6, <2>1
  <1>7. QED
    BY <1>4, <1>5, <1>6, BufferSources

\* The buffer registry exceeds the largest limit it was ever given by at
\* most one staging buffer for each plan, although plan_transfer does not
\* look at the limit.
THEOREM BuffersStayBounded == Spec => []BuffersAreBounded
  <1>1. Init => Accounted
    <2> SUFFICES ASSUME Init PROVE Accounted
      OBVIOUS
    <2>1. Known = {} /\ Staged = {} /\ BufferCount = Cardinality(Known)
      BY DEF Init, Known, Staged, NoBuffer, NoPlan, BufferCount
    <2>2. limits \in LimitSettings /\ limits.buffers \in Nat
      BY InputAssumption DEF Init
    <2>3. BuffersAreBounded
      BY <2>1, <2>2, FS_EmptySet DEF BuffersAreBounded, Staged
    <2>4. QED
      BY <2>1, <2>3, FS_EmptySet DEF Accounted, Init, NoPlan
  <1>2. Accounted => BuffersAreBounded
    BY DEF Accounted
  <1>3. QED
    BY <1>1, <1>2, AccountStep, TypeCorrect, PTL DEF Spec

-------------------------------------------------------------------------------
(* Transfers: what the lifecycle publishes, for every number of attempts,  *)
(* plans and workers and whatever backends report.                         *)

\* The inductive invariant of one attempt: the two properties of receipts,
\* and two facts they rest on.  An attempt without a receipt has nothing
\* verified, so that begin_transfer overstates nothing, and an attempt that
\* exists has a plan, so that the fence of its plan applies to it.
Settled(t) ==
    LET attempt == attempts[t]
        receipt == receipts[t]
    IN  /\ receipt.state \in {"NONE", attempt.state}
        /\ attempt.completion_committed \/ attempt.state = "CANCELLED" =>
              receipt.state = attempt.state
        /\ attempt.completion_committed => attempt.state \in {"COMPLETED", "FAILED"}
        /\ attempt.state = "COMPLETED" => attempt.completion_committed
        /\ receipt.state = "COMPLETED" =>
              /\ attempt.bytes = attempt.submitted_bytes \/ attempt.submitted_bytes = 0
              /\ attempt.integrity_checked => attempt.integrity_passed
        /\ receipt.integrity_verified => attempt.integrity_checked /\ attempt.integrity_passed
        /\ receipt.state = "NONE" => ~receipt.integrity_verified
        /\ attempt.state # "NONE" => attempt.plan \in PlanIds

AllSettled == \A t \in AttemptIds : Settled(t)

\* begin_transfer stores an attempt with no receipt.
LEMMA SettledBegin ==
    ASSUME TypeOK, AllSettled, NEW t \in AttemptIds, NEW p \in PlanIds, NEW a \in Authorities,
           NEW o \in Outcomes, begin_transfer(t, p, a, o)
    PROVE  AllSettled'
  <1>1. ASSUME NEW u \in AttemptIds, u # t PROVE Settled(u)'
    BY <1>1 DEF AllSettled, Settled, begin_transfer, TypeOK
  <1>2. receipts' = receipts /\ receipts[t].state = "NONE" /\ ~receipts[t].integrity_verified
    BY DEF AllSettled, Settled, begin_transfer
  <1>3. /\ attempts'[t].state \in {"FAILED", "IN_FLIGHT"}
        /\ ~attempts'[t].completion_committed
        /\ attempts'[t].plan = p
    BY DEF begin_transfer, TypeOK
  <1>4. Settled(t)'
    BY <1>2, <1>3 DEF Settled
  <1>5. QED
    BY <1>1, <1>4 DEF AllSettled

\* The receipt of a backend failure agrees with the failed attempt.
LEMMA SettledFailed ==
    ASSUME TypeOK, AllSettled, NEW t \in AttemptIds, complete_failed(t)
    PROVE  AllSettled'
  <1>1. ASSUME NEW u \in AttemptIds, u # t PROVE Settled(u)'
    BY <1>1 DEF AllSettled, Settled, complete_failed, TypeOK
  <1>2. /\ attempts' = attempts /\ attempts[t].state = "FAILED"
        /\ receipts'[t].state = "FAILED" /\ ~receipts'[t].integrity_verified
    BY DEF complete_failed, TypeOK
  <1>3. Settled(t)
    BY DEF AllSettled
  <1>4. Settled(t)'
    BY <1>2, <1>3 DEF Settled
  <1>5. QED
    BY <1>1, <1>4 DEF AllSettled

\* Completion commits and publishes the state it decided on, past the
\* integrity gate and the byte count.
LEMMA SettledComplete ==
    ASSUME TypeOK, AllSettled, NEW t \in AttemptIds, NEW a \in Authorities, complete_transfer(t, a)
    PROVE  AllSettled'
  <1> DEFINE final == FinalState(attempts[t])
  <1>1. ASSUME NEW u \in AttemptIds, u # t PROVE Settled(u)'
    BY <1>1 DEF AllSettled, Settled, complete_transfer, TypeOK
  <1>2. final \in {"COMPLETED", "FAILED"}
    BY DEF FinalState
  <1>3. final = "COMPLETED" =>
          /\ attempts[t].bytes = attempts[t].submitted_bytes \/ attempts[t].submitted_bytes = 0
          /\ attempts[t].integrity_checked => attempts[t].integrity_passed
    BY DEF FinalState
  <1>4. /\ attempts'[t] = [attempts[t] EXCEPT !.state = final, !.completion_committed = TRUE]
        /\ receipts'[t] = [state |-> final,
              integrity_verified |-> /\ attempts[t].integrity_checked
                                     /\ ~(attempts[t].integrity_checked
                                          /\ ~attempts[t].integrity_passed)]
    BY DEF complete_transfer, TypeOK
  <1>5. attempts[t] \in TransferAttempt /\ attempts[t].state = "IN_FLIGHT"
    BY DEF TypeOK, complete_transfer, MayComplete
  <1>6. attempts[t].plan \in PlanIds
    BY <1>5 DEF AllSettled, Settled
  <1>7. /\ attempts'[t].state = final /\ attempts'[t].completion_committed
        /\ attempts'[t].bytes = attempts[t].bytes
        /\ attempts'[t].submitted_bytes = attempts[t].submitted_bytes
        /\ attempts'[t].integrity_checked = attempts[t].integrity_checked
        /\ attempts'[t].integrity_passed = attempts[t].integrity_passed
        /\ attempts'[t].plan = attempts[t].plan
    BY <1>4, <1>5 DEF TransferAttempt
  <1>8. /\ receipts'[t].state = final
        /\ receipts'[t].integrity_verified =>
              attempts[t].integrity_checked /\ attempts[t].integrity_passed
    BY <1>4
  <1>9. Settled(t)'
    BY <1>2, <1>3, <1>6, <1>7, <1>8 DEF Settled
  <1>10. QED
    BY <1>1, <1>9 DEF AllSettled

\* Cancellation publishes CANCELLED and never touches a committed attempt.
LEMMA SettledCancel ==
    ASSUME TypeOK, AllSettled, NEW t \in AttemptIds, NEW a \in Authorities, cancel_transfer(t, a)
    PROVE  AllSettled'
  <1>1. ASSUME NEW u \in AttemptIds, u # t PROVE Settled(u)'
    BY <1>1 DEF AllSettled, Settled, cancel_transfer, TypeOK
  <1>2. /\ attempts'[t].state = "CANCELLED" /\ ~attempts'[t].completion_committed
        /\ attempts'[t].plan = attempts[t].plan
        /\ receipts'[t].state = "CANCELLED" /\ ~receipts'[t].integrity_verified
    BY DEF cancel_transfer, TypeOK, TransferAttempt
  <1>3. attempts[t].plan \in PlanIds
    BY DEF AllSettled, Settled, cancel_transfer, Cancellable
  <1>4. Settled(t)'
    BY <1>2, <1>3 DEF Settled
  <1>5. QED
    BY <1>1, <1>4 DEF AllSettled

\* Every step keeps every attempt settled.
LEMMA SettledStep == TypeOK /\ AllSettled /\ [Next]_vars => AllSettled'
  <1> SUFFICES ASSUME TypeOK, AllSettled, [Next]_vars PROVE AllSettled'
    OBVIOUS
  <1>1. CASE UNCHANGED <<attempts, receipts>>
    BY <1>1 DEF AllSettled, Settled
  <1>2. CASE TransferOperation
    BY <1>1, <1>2, SettledBegin, SettledFailed, SettledComplete, SettledCancel
    DEF TransferOperation, verify_transfer
  <1>3. QED
    BY <1>1, <1>2, Frames DEF Next, vars, transferVars

\* The inductive invariant of the transfer lifecycle.
LEMMA SettledInvariant == Spec => []AllSettled
  <1>1. Init => AllSettled
    BY DEF Init, AllSettled, Settled, NoAttempt, NoReceipt
  <1>2. QED
    BY <1>1, SettledStep, TypeCorrect, PTL DEF Spec

\* Receipt and attempt never disagree: what complete_transfer and
\* cancel_transfer publish is what the attempt ended as.
THEOREM ReceiptsMatchAttempts == Spec => []ReceiptMatchesAttempt
  <1>1. AllSettled => ReceiptMatchesAttempt
    BY DEF AllSettled, Settled, ReceiptMatchesAttempt
  <1>2. QED
    BY <1>1, SettledInvariant, PTL

\* No receipt claims bytes that were not moved or a check that did not pass,
\* whatever a backend reports.
THEOREM ReceiptsAreHonest == Spec => []IntegrityNeverOverstated
  <1>1. AllSettled => IntegrityNeverOverstated
    BY DEF AllSettled, Settled, IntegrityNeverOverstated
  <1>2. QED
    BY <1>1, SettledInvariant, PTL

-------------------------------------------------------------------------------
(* CompletionIsCurrent, from the fence of plans. *)

\* Only complete_transfer publishes success.
LEMMA OnlyCompletionSucceeds ==
    ASSUME TypeOK, [Next]_vars, NEW t \in AttemptIds,
           receipts[t].state # "COMPLETED", receipts'[t].state = "COMPLETED"
    PROVE  \E a \in Authorities : complete_transfer(t, a)
  <1>1. TransferOperation
    BY Frames DEF Next, vars, transferVars
  <1>2. ASSUME NEW u \in AttemptIds, NEW p \in PlanIds, NEW a \in Authorities, NEW o \in Outcomes,
               begin_transfer(u, p, a, o)
        PROVE  FALSE
    BY <1>2 DEF begin_transfer
  <1>3. ASSUME NEW u \in AttemptIds, complete_failed(u) PROVE FALSE
    BY <1>3 DEF complete_failed, TypeOK
  <1>4. ASSUME NEW u \in AttemptIds, NEW a \in Authorities, complete_transfer(u, a) PROVE u = t
    BY <1>4 DEF complete_transfer, TypeOK
  <1>5. ASSUME NEW u \in AttemptIds, NEW a \in Authorities, cancel_transfer(u, a) PROVE FALSE
    BY <1>5 DEF cancel_transfer, TypeOK
  <1>6. ASSUME NEW u \in AttemptIds, NEW passed \in BOOLEAN, verify_transfer(u, passed) PROVE FALSE
    BY <1>6 DEF verify_transfer
  <1>7. QED
    BY <1>1, <1>2, <1>3, <1>4, <1>5, <1>6 DEF TransferOperation

\* A step that publishes success does so on a current plan.
LEMMA CompletionStep ==
    ASSUME TypeOK, AllSettled, PlanFence, [Next]_vars, NEW t \in AttemptIds,
           receipts[t].state # "COMPLETED", receipts'[t].state = "COMPLETED"
    PROVE  LET plan == plans[attempts[t].plan]
           IN  /\ plan.epoch = epoch
               /\ buffers[plan.source].generation = plan.source_generation
               /\ endpoints[plan.destination].generation = plan.destination_generation
  <1>1. PICK a \in Authorities : complete_transfer(t, a)
    BY OnlyCompletionSucceeds
  <1>2. attempts[t].state = "IN_FLIGHT" /\ plans[attempts[t].plan].authoritative
    BY <1>1 DEF complete_transfer, MayComplete
  <1>3. attempts[t].plan \in PlanIds
    BY <1>2 DEF AllSettled, Settled
  <1>4. QED
    BY <1>2, <1>3 DEF PlanFence

\* A stale attempt cannot publish a completion: however many generations,
\* epochs and reconnections lie between begin_transfer and complete_transfer,
\* success is published only on a plan that is current in that step.
THEOREM CompletionsAreCurrent == Spec => CompletionIsCurrent
  <1>1. TypeOK /\ AllSettled /\ PlanFence /\ [Next]_vars =>
          [ \A t \in AttemptIds :
              receipts[t].state # "COMPLETED" /\ receipts'[t].state = "COMPLETED" =>
                LET plan == plans[attempts[t].plan]
                IN  /\ plan.epoch = epoch
                    /\ buffers[plan.source].generation = plan.source_generation
                    /\ endpoints[plan.destination].generation = plan.destination_generation ]_vars
    BY CompletionStep
  <1>2. QED
    BY <1>1, TypeCorrect, SettledInvariant, PlansStayFenced, PTL DEF Spec, CompletionIsCurrent

-------------------------------------------------------------------------------
(* ImplementsLifecycle, step by step. *)

\* The abstract status of an attempt, as CoordinatorProperties maps it.
Status(attempt) ==
    IF attempt.state = "IN_FLIGHT" THEN "RUNNING"
    ELSE IF attempt.state = "FAILED" /\ ~attempt.completion_committed
         THEN "FAULTED" ELSE attempt.state

\* A step that touches one attempt moves the abstract status of that attempt
\* only, and likewise for receipts.
LEMMA StatusFrame ==
    ASSUME TypeOK, TypeOK', NEW t \in AttemptIds,
           \A u \in AttemptIds : u # t => attempts'[u] = attempts[u]
    PROVE  [u \in AttemptIds |-> Status(attempts'[u])]
             = [[u \in AttemptIds |-> Status(attempts[u])] EXCEPT ![t] = Status(attempts'[t])]
  OBVIOUS

\* The same for what is published.
LEMMA PublishedFrame ==
    ASSUME TypeOK, TypeOK', NEW t \in AttemptIds,
           \A u \in AttemptIds : u # t => receipts'[u] = receipts[u]
    PROVE  [u \in AttemptIds |-> receipts'[u].state]
             = [[u \in AttemptIds |-> receipts[u].state] EXCEPT ![t] = receipts'[t].state]
  OBVIOUS

\* Every step of the coordinator is a step of the lifecycle or leaves it alone.
LEMMA StepLifecycle ==
    TypeOK /\ TypeOK' /\ AllSettled /\ [Next]_vars
      => [Lifecycle!Next]_(Lifecycle!lifecycleVars)
  <1> SUFFICES ASSUME TypeOK, TypeOK', AllSettled, [Next]_vars
               PROVE  [Lifecycle!Next]_(Lifecycle!lifecycleVars)
    OBVIOUS
  <1> DEFINE status == [u \in AttemptIds |-> Status(attempts[u])]
             published == [u \in AttemptIds |-> receipts[u].state]
  <1>1. ASSUME NEW t \in AttemptIds, NEW p \in PlanIds, NEW a \in Authorities, NEW o \in Outcomes,
               begin_transfer(t, p, a, o)
        PROVE  Lifecycle!Start(t)
    <2>1. /\ attempts[t].state = "NONE" /\ UNCHANGED receipts
          /\ \A u \in AttemptIds : u # t => attempts'[u] = attempts[u]
      BY <1>1 DEF begin_transfer, TypeOK
    <2>2. attempts'[t].state \in {"IN_FLIGHT", "FAILED"} /\ ~attempts'[t].completion_committed
      BY <1>1 DEF begin_transfer, TypeOK
    <2>3. status[t] = "NONE" /\ Status(attempts'[t]) \in {"RUNNING", "FAULTED"}
      BY <2>1, <2>2 DEF Status
    <2>4. status' = [status EXCEPT ![t] = Status(attempts'[t])] /\ published' = published
      BY <2>1, StatusFrame
    <2>5. QED
      BY <2>3, <2>4 DEF Lifecycle!Start, Status
  <1>2. ASSUME NEW t \in AttemptIds, complete_failed(t)
        PROVE  Lifecycle!ReportFault(t)
    <2>1. /\ attempts[t].state = "FAILED" /\ UNCHANGED attempts
          /\ receipts[t].state = "NONE" /\ receipts'[t].state = "FAILED"
          /\ \A u \in AttemptIds : u # t => receipts'[u] = receipts[u]
      BY <1>2 DEF complete_failed, TypeOK
    <2>2. ~attempts[t].completion_committed
      BY <2>1 DEF AllSettled, Settled
    <2>3. status[t] = "FAULTED" /\ status' = status
      BY <2>1, <2>2 DEF Status
    <2>4. published' = [published EXCEPT ![t] = "FAILED"]
      BY <2>1, PublishedFrame
    <2>5. QED
      BY <2>3, <2>4 DEF Lifecycle!ReportFault, Status
  <1>3. ASSUME NEW t \in AttemptIds, NEW a \in Authorities, complete_transfer(t, a)
        PROVE  Lifecycle!Settle(t)
    <2> DEFINE final == FinalState(attempts[t])
    <2>1. final \in {"COMPLETED", "FAILED"}
      BY DEF FinalState
    <2>2. /\ attempts'[t] = [attempts[t] EXCEPT !.state = final, !.completion_committed = TRUE]
          /\ receipts'[t].state = final
          /\ \A u \in AttemptIds : u # t => attempts'[u] = attempts[u] /\ receipts'[u] = receipts[u]
      BY <1>3 DEF complete_transfer, TypeOK
    <2>3. attempts[t].state = "IN_FLIGHT"
      BY <1>3 DEF complete_transfer, MayComplete
    <2> HIDE DEF final
    <2>4. attempts'[t].state = final /\ attempts'[t].completion_committed
      BY <2>2 DEF TypeOK, TransferAttempt
    <2>5. status[t] = "RUNNING" /\ Status(attempts'[t]) = final
      BY <2>1, <2>3, <2>4 DEF Status
    <2>6. /\ status' = [status EXCEPT ![t] = final]
          /\ published' = [published EXCEPT ![t] = final]
      BY <2>2, <2>5, StatusFrame, PublishedFrame
    <2>7. QED
      BY <2>1, <2>5, <2>6 DEF Lifecycle!Settle, Status
  <1>4. ASSUME NEW t \in AttemptIds, NEW a \in Authorities, cancel_transfer(t, a)
        PROVE  Lifecycle!Cancel(t) \/ UNCHANGED Lifecycle!lifecycleVars
    <2>1. /\ attempts'[t].state = "CANCELLED" /\ receipts'[t].state = "CANCELLED"
          /\ \A u \in AttemptIds : u # t => attempts'[u] = attempts[u] /\ receipts'[u] = receipts[u]
      BY <1>4 DEF cancel_transfer, TypeOK, TransferAttempt
    <2>2. /\ attempts[t].state \in {"IN_FLIGHT", "FAILED", "CANCELLED"}
          /\ ~attempts[t].completion_committed
      BY <1>4 DEF cancel_transfer, Cancellable
    <2>3. /\ status' = [status EXCEPT ![t] = "CANCELLED"]
          /\ published' = [published EXCEPT ![t] = "CANCELLED"]
      <3>1. Status(attempts'[t]) = "CANCELLED"
        BY <2>1 DEF Status
      <3>2. QED
        BY <2>1, <3>1, StatusFrame, PublishedFrame
    <2>4. CASE attempts[t].state = "CANCELLED"
      <3>1. receipts[t].state = "CANCELLED"
        BY <2>4 DEF AllSettled, Settled
      <3>2. status[t] = "CANCELLED" /\ published[t] = "CANCELLED"
        BY <2>4, <3>1 DEF Status
      <3>3. status' = status /\ published' = published
        BY <2>3, <3>2
      <3>4. QED
        BY <3>3 DEF Lifecycle!lifecycleVars, Status
    <2>5. CASE attempts[t].state # "CANCELLED"
      <3>1. status[t] \in {"RUNNING", "FAULTED"}
        BY <2>2, <2>5 DEF Status
      <3>2. QED
        BY <2>3, <3>1 DEF Lifecycle!Cancel, Status
    <2>6. QED
      BY <2>4, <2>5
  <1>5. ASSUME UNCHANGED <<attempts, receipts>>
        PROVE  UNCHANGED Lifecycle!lifecycleVars
    BY <1>5 DEF Lifecycle!lifecycleVars
  <1>6. CASE TransferOperation
    BY <1>1, <1>2, <1>3, <1>4, <1>5, <1>6
    DEF TransferOperation, verify_transfer, Lifecycle!Next
  <1>7. QED
    BY <1>5, <1>6, Frames DEF Next, vars, transferVars

\* begin, complete, cancel and verify implement the abstract lifecycle: an
\* outcome is published by the step that settles or cancels the attempt, and
\* nothing leaves a settled attempt.
THEOREM TransfersImplementLifecycle == Spec => ImplementsLifecycle
  <1>1. Init => Lifecycle!Init
    BY DEF Init, Lifecycle!Init, NoAttempt, NoReceipt
  <1>2. QED
    BY <1>1, StepLifecycle, TypeCorrect, SettledInvariant, PTL
    DEF Spec, ImplementsLifecycle, Lifecycle!Spec
===============================================================================
