--------------------------- MODULE CoordinatorProofs ---------------------------
(***************************************************************************)
(* The coordinator's invariants, for every number of workers, buffers,     *)
(* endpoints, registrations, plans and attempts and every bound: types,    *)
(* counters, owners, and the registrations of each pair.                   *)
(***************************************************************************)
EXTENDS CoordinatorProperties, TLAPS

-------------------------------------------------------------------------------
(* The empty records have the types of the records they stand for. *)
LEMMA EmptyRecords ==
    /\ NoBuffer \in BufferRecord
    /\ NoEndpoint \in EndpointRecord
    /\ NoRegistration \in Registration
    /\ NoPlan \in TransferPlan
    /\ NoAttempt \in TransferAttempt
    /\ NoReceipt \in TransferReceipt
    /\ NoDecision \in Decision
  <1>1. coordinator_authority \in AuthorityRecord
    BY DEF coordinator_authority, AuthorityRecord
  <1>2. /\ "UNKNOWN" \in Support /\ "UNKNOWN" \in EndpointClass
        /\ "UNKNOWN" \in MemoryDomain /\ "DIRECT_ONLY" \in PathPolicy
    BY DEF Support, EndpointClass, MemoryDomain, PathPolicy
  <1>3. NoBuffer \in BufferRecord
    BY <1>1, <1>2 DEF NoBuffer, BufferRecord
  <1>4. NoEndpoint \in EndpointRecord
    BY <1>1, <1>2 DEF NoEndpoint, EndpointRecord
  <1>5. NoRegistration \in Registration
    BY <1>1, <1>2 DEF NoRegistration, Registration
  <1>6. NoPlan \in TransferPlan
    BY <1>1, <1>2 DEF NoPlan, TransferPlan
  <1>7. NoAttempt \in TransferAttempt
    BY <1>1 DEF NoAttempt, TransferAttempt
  <1>8. NoReceipt \in TransferReceipt
    BY DEF NoReceipt, TransferReceipt
  <1>9. NoDecision \in Decision
    BY DEF Decision
  <1>10. QED
    BY <1>3, <1>4, <1>5, <1>6, <1>7, <1>8, <1>9

\* Invalidating registrations or superseding plans keeps the registries typed.
LEMMA InvalidationTyped ==
    ASSUME TypeOK, NEW rs, NEW ps
    PROVE  /\ Revalidate(rs) \in [RegistrationIds -> Registration]
           /\ Supersede(ps) \in [PlanIds -> TransferPlan]
  <1>1. ASSUME NEW r \in RegistrationIds
        PROVE  [registrations[r] EXCEPT !.state = "REVALIDATION_REQUIRED"] \in Registration
    <2>1. registrations[r] \in Registration
      BY <1>1 DEF TypeOK
    <2>2. QED
      BY <2>1 DEF Registration
  <1>2. ASSUME NEW p \in PlanIds
        PROVE  [plans[p] EXCEPT !.authoritative = FALSE] \in TransferPlan
    <2>1. plans[p] \in TransferPlan
      BY <1>2 DEF TypeOK
    <2>2. QED
      BY <2>1 DEF TransferPlan
  <1>3. QED
    BY <1>1, <1>2 DEF TypeOK, Revalidate, Supersede

\* A new coordinator (coordinator.cpp, constructor) is well typed.
LEMMA TypeInit == Init => TypeOK
  BY EmptyRecords DEF Init, TypeOK, NoBoot

\* Limits, hello, death of a worker and a new epoch keep the types.
LEMMA TypeWorker == TypeOK /\ WorkerOperation => TypeOK'
  <1> SUFFICES ASSUME TypeOK, WorkerOperation PROVE TypeOK'
    OBVIOUS
  <1> USE DEF vars, workerVars, inventoryVars, transferVars
  <1>1. CASE \E l \in LimitSettings : set_limits(l)
    BY <1>1 DEF set_limits, TypeOK
  <1>2. ASSUME NEW w \in Workers, NEW b \in Boots, NEW e \in 0..MaxEpoch, register_worker(w, b, e)
        PROVE  TypeOK'
    BY <1>2, InputAssumption DEF register_worker, TypeOK
  <1>3. ASSUME NEW w \in Workers, mark_worker_dead(w)
        PROVE  TypeOK'
    BY <1>3, InvalidationTyped DEF mark_worker_dead, TypeOK
  <1>4. CASE advance_epoch
    BY <1>4, InvalidationTyped DEF advance_epoch, TypeOK
  <1>5. QED
    BY <1>1, <1>2, <1>3, <1>4 DEF WorkerOperation

\* create_buffer, advance_buffer_generation and retire_buffer keep the types.
LEMMA TypeBuffer == TypeOK /\ BufferOperation => TypeOK'
  <1> SUFFICES ASSUME TypeOK, BufferOperation PROVE TypeOK'
    OBVIOUS
  <1> USE DEF vars, workerVars, inventoryVars, transferVars
  <1>1. ASSUME NEW b \in BufferIds, NEW shape \in BufferShapes, NEW a \in Authorities,
               create_buffer(b, shape, a)
        PROVE  TypeOK'
    <2>1. [NoBuffer EXCEPT !.lifecycle = "ACTIVE", !.generation = 1, !.authority = a,
                           !.domain = shape.domain, !.size = shape.size,
                           !.alignment = shape.alignment, !.device = shape.device,
                           !.support = shape.support] \in BufferRecord
      BY EmptyRecords, InputAssumption DEF BufferRecord
    <2>2. QED
      BY <1>1, <2>1 DEF create_buffer, TypeOK
  <1>2. ASSUME NEW b \in BufferIds, NEW a \in Authorities, advance_buffer_generation(b, a)
        PROVE  TypeOK'
    <2>1. [buffers EXCEPT ![b].generation = @ + 1] \in [BufferIds -> BufferRecord]
      BY DEF TypeOK, BufferRecord
    <2>2. QED
      BY <1>2, <2>1, InvalidationTyped
      DEF advance_buffer_generation, invalidate_buffer_dependents, TypeOK
  <1>3. ASSUME NEW b \in BufferIds, NEW a \in Authorities, retire_buffer(b, a)
        PROVE  TypeOK'
    <2>1. [buffers EXCEPT ![b].lifecycle = "RETIRED"] \in [BufferIds -> BufferRecord]
      BY DEF TypeOK, BufferRecord
    <2>2. QED
      BY <1>3, <2>1, InvalidationTyped
      DEF retire_buffer, invalidate_buffer_dependents, TypeOK
  <1>4. QED
    BY <1>1, <1>2, <1>3 DEF BufferOperation

\* Devices, endpoints, providers and capabilities stay typed.
LEMMA TypeInventory == TypeOK /\ InventoryOperation => TypeOK'
  <1> SUFFICES ASSUME TypeOK, InventoryOperation PROVE TypeOK'
    OBVIOUS
  <1> USE DEF vars, workerVars, inventoryVars, transferVars
  <1>1. ASSUME NEW d \in DeviceIds, NEW a \in Authorities, add_device(d, a)
        PROVE  TypeOK'
    BY <1>1 DEF add_device, TypeOK
  <1>2. ASSUME NEW e \in EndpointIds, NEW shape \in EndpointShapes, NEW a \in Authorities,
               add_endpoint(e, shape, a)
        PROVE  TypeOK'
    <2>1. [present |-> TRUE, generation |-> 1, authority |-> a,
           endpoint_class |-> shape.endpoint_class, healthy |-> shape.healthy,
           support |-> shape.support] \in EndpointRecord
      BY InputAssumption DEF EndpointRecord
    <2>2. QED
      BY <1>2, <2>1 DEF add_endpoint, TypeOK
  <1>3. ASSUME NEW e \in EndpointIds, NEW a \in Authorities, advance_endpoint_generation(e, a)
        PROVE  TypeOK'
    <2>1. [endpoints EXCEPT ![e].generation = @ + 1] \in [EndpointIds -> EndpointRecord]
      BY DEF TypeOK, EndpointRecord
    <2>2. QED
      BY <1>3, <2>1, InvalidationTyped
      DEF advance_endpoint_generation, invalidate_endpoint_dependents, TypeOK
  <1>4. ASSUME NEW e \in EndpointIds, NEW healthy \in BOOLEAN, NEW a \in Authorities,
               set_endpoint_health(e, healthy, a)
        PROVE  TypeOK'
    <2>1. [endpoints EXCEPT ![e].healthy = healthy] \in [EndpointIds -> EndpointRecord]
      BY DEF TypeOK, EndpointRecord
    <2>2. QED
      BY <1>4, <2>1 DEF set_endpoint_health, TypeOK
  <1>5. ASSUME NEW u \in ProviderUpdates, add_provider(u)
        PROVE  TypeOK'
    BY <1>5, InputAssumption DEF add_provider, TypeOK
  <1>6. ASSUME NEW u \in CapabilityUpdates, NEW a \in Authorities, publish_capability(u, a)
        PROVE  TypeOK'
    <2>1. [provider |-> u.provider, capability |-> u.capability, value |-> u.value,
           support |-> u.support, authority |-> a] \in Capability
      BY InputAssumption DEF Capability
    <2>2. QED
      BY <1>6, <2>1 DEF publish_capability, TypeOK
  <1>7. ASSUME NEW c \in capabilities, NEW a \in Authorities, revoke_capability(c, a)
        PROVE  TypeOK'
    BY <1>7 DEF revoke_capability, TypeOK
  <1>8. QED
    BY <1>1, <1>2, <1>3, <1>4, <1>5, <1>6, <1>7 DEF InventoryOperation

\* register_buffer and deregister_buffer keep the types.
LEMMA TypeRegistration == TypeOK /\ RegistrationOperation => TypeOK'
  <1> SUFFICES ASSUME TypeOK, RegistrationOperation PROVE TypeOK'
    OBVIOUS
  <1> USE DEF vars, workerVars, inventoryVars, transferVars
  <1>1. ASSUME NEW b \in BufferIds, NEW e \in EndpointIds, NEW a \in Authorities,
               NEW r \in RegistrationIds, NEW g \in 1..MaxGeneration,
               NEW support \in RegistrationSupport, register_buffer(b, e, a, r, g, support)
        PROVE  TypeOK'
    <2>0. g \in Nat /\ a \in AuthorityRecord /\ support \in Support
      BY InputAssumption
    <2>1. [state |-> "REGISTERED", generation |-> g,
           buffer |-> b, buffer_generation |-> buffers[b].generation,
           endpoint |-> e, endpoint_generation |-> endpoints[e].generation,
           authority |-> a, support |-> support] \in Registration
      BY <2>0 DEF TypeOK, Registration, BufferRecord, EndpointRecord
    <2>2. [buffers[b] EXCEPT !.registration_id = r, !.registration_generation = g]
            \in BufferRecord
      <3>1. buffers[b] \in BufferRecord
        BY DEF TypeOK
      <3>2. QED
        BY <2>0, <3>1 DEF BufferRecord
    <2>3. issued' \in [IdSource -> SUBSET RegistrationIds]
      BY <1>1, InputAssumption DEF register_buffer, IssueId, TypeOK
    <2>4. QED
      BY <1>1, <2>1, <2>2, <2>3 DEF register_buffer, TypeOK
  <1>2. ASSUME NEW r \in RegistrationIds
        PROVE  Retire(r) \in [RegistrationIds -> Registration]
    BY DEF Retire, TypeOK, Registration
  <1>3. ASSUME NEW r \in RegistrationIds, deregister_orphan(r)
        PROVE  TypeOK'
    BY <1>2, <1>3 DEF deregister_orphan, TypeOK
  <1>4. ASSUME NEW r \in RegistrationIds, NEW a \in Authorities, deregister_buffer(r, a)
        PROVE  TypeOK'
    <2>1. ASSUME NEW b \in BufferIds
          PROVE  [buffers[b] EXCEPT !.registration_id = Nil, !.registration_generation = 0]
                    \in BufferRecord
      <3>1. buffers[b] \in BufferRecord
        BY <2>1 DEF TypeOK
      <3>2. QED
        BY <3>1 DEF BufferRecord
    <2>2. QED
      BY <1>2, <1>4, <2>1 DEF deregister_buffer, TypeOK
  <1>5. QED
    BY <1>1, <1>3, <1>4 DEF RegistrationOperation

\* Both halves of plan_transfer keep the types; the decision that is carried
\* from one to the other is one of the outcomes the code goes on with.
LEMMA TypePlan == TypeOK /\ PlanOperation => TypeOK'
  <1> SUFFICES ASSUME TypeOK, PlanOperation PROVE TypeOK'
    OBVIOUS
  <1> USE DEF vars, workerVars, inventoryVars, transferVars
  <1>1. ASSUME NEW c \in Callers, NEW b \in BufferIds, NEW e \in EndpointIds,
               NEW req \in Requests, evaluate_path(c, b, e, req)
        PROVE  TypeOK'
    <2> DEFINE d == evaluate(req, build_evidence_locked(b, e))
    <2> HIDE DEF d
    <2>1. /\ d.eligibility \in Plannable
          /\ pending' = [pending EXCEPT ![c] =
                [eligibility |-> d.eligibility,
                 source |-> b, source_generation |-> buffers[b].generation,
                 destination |-> e, destination_generation |-> endpoints[e].generation,
                 policy |-> req.policy, size |-> req.size]]
      BY <1>1 DEF evaluate_path, d
    <2>2. [eligibility |-> d.eligibility,
           source |-> b, source_generation |-> buffers[b].generation,
           destination |-> e, destination_generation |-> endpoints[e].generation,
           policy |-> req.policy, size |-> req.size] \in Decision
      <3>1. req.policy \in PathPolicy /\ req.size \in Nat
        BY InputAssumption
      <3>2. QED
        BY <2>1, <3>1 DEF TypeOK, Decision, BufferRecord, EndpointRecord
    <2>3. pending' \in [Callers -> Decision]
      BY <2>1, <2>2 DEF TypeOK
    <2>4. QED
      BY <1>1, <2>3 DEF evaluate_path, TypeOK
  <1>2. ASSUME NEW c \in Callers, NEW p \in PlanIds, NEW s \in BufferIds \cup {Nil},
               plan_transfer(c, p, s)
        PROVE  TypeOK'
    <2> DEFINE d == pending[c]
    <2>1. /\ d \in [eligibility : Plannable, source : BufferIds, source_generation : Nat,
                     destination : EndpointIds, destination_generation : Nat,
                     policy : PathPolicy, size : Nat]
          /\ buffers[d.source] \in BufferRecord
          /\ endpoints[d.destination] \in EndpointRecord
      BY <1>2 DEF plan_transfer, TypeOK, Decision, NoDecision
    <2>2. PICK r \in IF Active(d) = {} THEN {Nil} ELSE Newest(Active(d)) :
             plans' = [plans EXCEPT ![p] =
               [eligibility |-> d.eligibility,
                source |-> d.source, source_generation |-> buffers[d.source].generation,
                destination |-> d.destination,
                destination_generation |-> endpoints[d.destination].generation,
                registration_id |-> r,
                registration_generation |-> IF r = Nil THEN 0 ELSE registrations[r].generation,
                policy |-> d.policy, expected_bytes |-> d.size, epoch |-> epoch,
                authority |-> buffers[d.source].authority, authoritative |-> TRUE,
                staging |-> s]]
      BY <1>2 DEF plan_transfer
    <2>3. /\ r \in RegistrationIds \cup {Nil}
          /\ (IF r = Nil THEN 0 ELSE registrations[r].generation) \in Nat
      BY <2>2, IdAssumption DEF Active, RegistrationsOf, Newest, TypeOK, Registration
    <2>4. plans' \in [PlanIds -> TransferPlan]
      BY <2>1, <2>2, <2>3 DEF TypeOK, TransferPlan, BufferRecord, EndpointRecord
    <2>5. [NoBuffer EXCEPT !.lifecycle = "ACTIVE", !.generation = 1,
                           !.authority = buffers[d.source].authority,
                           !.domain = "HOST_PINNED", !.size = d.size, !.alignment = 64,
                           !.support = "SYNTHETIC"] \in BufferRecord
      BY <2>1, EmptyRecords DEF BufferRecord, MemoryDomain, Support
    <2>6. buffers' \in [BufferIds -> BufferRecord]
      BY <1>2, <2>5 DEF plan_transfer, TypeOK
    <2>7. QED
      BY <1>2, <2>4, <2>6, EmptyRecords DEF plan_transfer, TypeOK
  <1>3. ASSUME NEW c \in Callers, plan_transfer_rejected(c)
        PROVE  TypeOK'
    BY <1>3, EmptyRecords DEF plan_transfer_rejected, TypeOK
  <1>4. QED
    BY <1>1, <1>2, <1>3 DEF PlanOperation

\* begin, complete, cancel and verify keep the types.
LEMMA TypeTransfer == TypeOK /\ TransferOperation => TypeOK'
  <1> SUFFICES ASSUME TypeOK, TransferOperation PROVE TypeOK'
    OBVIOUS
  <1> USE DEF vars, workerVars, inventoryVars, transferVars
  <1>1. ASSUME NEW t \in AttemptIds, NEW p \in PlanIds, NEW a \in Authorities,
               NEW o \in Outcomes, begin_transfer(t, p, a, o)
        PROVE  TypeOK'
    <2>1. [state |-> IF o.failed THEN "FAILED" ELSE "IN_FLIGHT", plan |-> p, authority |-> a,
           bytes |-> IF o.moved THEN plans[p].expected_bytes ELSE 0,
           submitted_bytes |-> plans[p].expected_bytes,
           integrity_checked |-> o.checked, integrity_passed |-> o.passed,
           completion_committed |-> FALSE] \in TransferAttempt
      BY InputAssumption DEF TypeOK, TransferAttempt, TransferPlan
    <2>2. QED
      BY <1>1, <2>1 DEF begin_transfer, TypeOK
  <1>2. ASSUME NEW t \in AttemptIds, complete_failed(t)
        PROVE  TypeOK'
    BY <1>2 DEF complete_failed, TypeOK, TransferReceipt
  <1>3. ASSUME NEW t \in AttemptIds, NEW a \in Authorities, complete_transfer(t, a)
        PROVE  TypeOK'
    <2>1. FinalState(attempts[t]) \in {"COMPLETED", "FAILED"}
      BY DEF FinalState
    <2>2. [attempts[t] EXCEPT !.state = FinalState(attempts[t]), !.completion_committed = TRUE]
            \in TransferAttempt
      BY <2>1 DEF TypeOK, TransferAttempt
    <2>3. attempts' \in [AttemptIds -> TransferAttempt]
      BY <1>3, <2>2 DEF complete_transfer, TypeOK
    <2>4. receipts' \in [AttemptIds -> TransferReceipt]
      BY <1>3, <2>1 DEF complete_transfer, TypeOK, TransferReceipt, TransferAttempt
    <2>5. verifications' \subseteq VerificationReceipt
      BY <1>3 DEF complete_transfer, TypeOK, VerificationReceipt, TransferAttempt
    <2>6. QED
      BY <1>3, <2>3, <2>4, <2>5 DEF complete_transfer, TypeOK
  <1>4. ASSUME NEW t \in AttemptIds, NEW a \in Authorities, cancel_transfer(t, a)
        PROVE  TypeOK'
    <2>1. [attempts[t] EXCEPT !.state = "CANCELLED", !.completion_committed = FALSE]
            \in TransferAttempt
      BY DEF TypeOK, TransferAttempt
    <2>2. [state |-> "CANCELLED", integrity_verified |-> FALSE] \in TransferReceipt
      BY DEF TransferReceipt
    <2>3. QED
      BY <1>4, <2>1, <2>2 DEF cancel_transfer, TypeOK
  <1>5. ASSUME NEW t \in AttemptIds, NEW passed \in BOOLEAN, verify_transfer(t, passed)
        PROVE  TypeOK'
    BY <1>5 DEF verify_transfer, TypeOK, VerificationReceipt
  <1>6. QED
    BY <1>1, <1>2, <1>3, <1>4, <1>5 DEF TransferOperation

\* Every step of the coordinator keeps the types.
LEMMA TypeStep == TypeOK /\ [Next]_vars => TypeOK'
  <1>1. TypeOK /\ UNCHANGED vars => TypeOK'
    BY DEF vars, workerVars, inventoryVars, transferVars, TypeOK
  <1>2. QED
    BY <1>1, TypeWorker, TypeBuffer, TypeInventory, TypeRegistration, TypePlan, TypeTransfer
    DEF Next

\* The coordinator stores only records of their types.
THEOREM TypeCorrect == Spec => []TypeOK
  BY TypeInit, TypeStep, PTL DEF Spec

-------------------------------------------------------------------------------
(* What each group of operations leaves alone. *)
LEMMA Frames ==
    /\ WorkerOperation => UNCHANGED <<issued, buffers, inventoryVars, transferVars, pending>>
    /\ BufferOperation =>
          UNCHANGED <<workerVars, limits, issued, inventoryVars, transferVars, pending>>
    /\ InventoryOperation =>
          UNCHANGED <<workerVars, limits, issued, buffers, transferVars, pending>>
    /\ RegistrationOperation =>
          UNCHANGED <<workerVars, limits, inventoryVars, plans, transferVars, pending>>
    /\ PlanOperation =>
          UNCHANGED <<workerVars, limits, issued, inventoryVars, registrations, transferVars>>
    /\ TransferOperation =>
          UNCHANGED <<workerVars, limits, issued, buffers, inventoryVars, registrations, plans, pending>>
  <1> USE DEF workerVars, inventoryVars, transferVars
  <1>1. WorkerOperation => UNCHANGED <<issued, buffers, inventoryVars, transferVars, pending>>
    BY DEF WorkerOperation, set_limits, register_worker, mark_worker_dead, advance_epoch
  <1>2. BufferOperation =>
          UNCHANGED <<workerVars, limits, issued, inventoryVars, transferVars, pending>>
    BY DEF BufferOperation, create_buffer, advance_buffer_generation, retire_buffer
  <1>3. InventoryOperation =>
          UNCHANGED <<workerVars, limits, issued, buffers, transferVars, pending>>
    BY DEF InventoryOperation, add_device, add_endpoint, advance_endpoint_generation,
           set_endpoint_health, add_provider, publish_capability, revoke_capability
  <1>4. RegistrationOperation =>
          UNCHANGED <<workerVars, limits, inventoryVars, plans, transferVars, pending>>
    <2> DEFINE Same == UNCHANGED <<workerVars, limits, inventoryVars, plans, transferVars, pending>>
    <2>1. ASSUME NEW b, NEW e, NEW a, NEW r, NEW g, NEW support,
                 register_buffer(b, e, a, r, g, support)
          PROVE  Same
      BY <2>1 DEF register_buffer
    <2>2. ASSUME NEW r, deregister_orphan(r) PROVE Same
      BY <2>2 DEF deregister_orphan
    <2>3. ASSUME NEW r, NEW a, deregister_buffer(r, a) PROVE Same
      BY <2>3 DEF deregister_buffer
    <2>4. QED
      BY <2>1, <2>2, <2>3 DEF RegistrationOperation
  <1>5. PlanOperation =>
          UNCHANGED <<workerVars, limits, issued, inventoryVars, registrations, transferVars>>
    BY DEF PlanOperation, evaluate_path, plan_transfer, plan_transfer_rejected
  <1>6. TransferOperation =>
          UNCHANGED <<workerVars, limits, issued, buffers, inventoryVars, registrations, plans, pending>>
    BY DEF TransferOperation, begin_transfer, complete_failed, complete_transfer,
           cancel_transfer, verify_transfer
  <1>7. QED
    BY <1>1, <1>2, <1>3, <1>4, <1>5, <1>6

-------------------------------------------------------------------------------
(* How buffers and endpoints change. *)

\* A record that nobody touches, a new one, and one changed by its owner.
BufferChange(b) ==
    \/ /\ buffers'[b].lifecycle = buffers[b].lifecycle
       /\ buffers'[b].generation = buffers[b].generation
    \/ /\ buffers[b].lifecycle = "NONE"
       /\ buffers'[b].lifecycle = "ACTIVE" /\ buffers'[b].generation = 1
    \/ /\ buffers[b].lifecycle # "NONE" /\ MayPublish(buffers[b].authority)
       /\ buffers'[b].lifecycle # "NONE"
       /\ buffers'[b].generation \in {buffers[b].generation, buffers[b].generation + 1}

EndpointChange(e) ==
    \/ endpoints'[e] = endpoints[e]
    \/ ~endpoints[e].present /\ endpoints'[e].present /\ endpoints'[e].generation = 1
    \/ /\ endpoints[e].present /\ MayPublish(endpoints[e].authority)
       /\ endpoints'[e].present
       /\ endpoints'[e].generation \in {endpoints[e].generation, endpoints[e].generation + 1}

\* A token that may act for an owner shows that the owner is live.
LEMMA OwnerIsLive ==
    ASSUME NEW owner, NEW a, OwnerAllows(owner, a)
    PROVE  MayPublish(owner)
  BY DEF OwnerAllows, MayPublish

\* Every step changes a buffer in one of the three ways.
LEMMA BufferChanges == TypeOK /\ [Next]_vars => \A b \in BufferIds : BufferChange(b)
  <1> SUFFICES ASSUME TypeOK, [Next]_vars, NEW x \in BufferIds PROVE BufferChange(x)
    OBVIOUS
  <1> USE DEF vars
  <1>1. CASE UNCHANGED buffers
    BY <1>1 DEF BufferChange
  <1>2. CASE BufferOperation
    <2>1. ASSUME NEW b \in BufferIds, NEW shape \in BufferShapes, NEW a \in Authorities,
                 create_buffer(b, shape, a)
          PROVE  BufferChange(x)
      <3>1. buffers'[b].lifecycle = "ACTIVE" /\ buffers'[b].generation = 1
        BY <2>1 DEF create_buffer, TypeOK, NoBuffer
      <3>2. x # b => buffers'[x] = buffers[x]
        BY <2>1 DEF create_buffer, TypeOK
      <3>3. QED
        BY <2>1, <3>1, <3>2 DEF create_buffer, BufferChange
    <2>2. ASSUME NEW b \in BufferIds, NEW a \in Authorities, advance_buffer_generation(b, a)
          PROVE  BufferChange(x)
      <3>1. /\ buffers'[b].lifecycle = buffers[b].lifecycle
            /\ buffers'[b].generation = buffers[b].generation + 1
        BY <2>2 DEF advance_buffer_generation, TypeOK, BufferRecord
      <3>2. x # b => buffers'[x] = buffers[x]
        BY <2>2 DEF advance_buffer_generation, TypeOK
      <3>3. QED
        BY <2>2, <3>1, <3>2, OwnerIsLive DEF advance_buffer_generation, BufferChange
    <2>3. ASSUME NEW b \in BufferIds, NEW a \in Authorities, retire_buffer(b, a)
          PROVE  BufferChange(x)
      <3>1. /\ buffers'[b].lifecycle = "RETIRED"
            /\ buffers'[b].generation = buffers[b].generation
        BY <2>3 DEF retire_buffer, TypeOK, BufferRecord
      <3>2. x # b => buffers'[x] = buffers[x]
        BY <2>3 DEF retire_buffer, TypeOK
      <3>3. QED
        BY <2>3, <3>1, <3>2, OwnerIsLive DEF retire_buffer, BufferChange
    <2>4. QED
      BY <1>2, <2>1, <2>2, <2>3 DEF BufferOperation
  <1>3. CASE RegistrationOperation
    <2>1. ASSUME NEW b \in BufferIds, NEW e, NEW a, NEW r, NEW g, NEW support,
                 register_buffer(b, e, a, r, g, support)
          PROVE  BufferChange(x)
      BY <2>1 DEF register_buffer, BufferChange, TypeOK, BufferRecord
    <2>2. ASSUME NEW r, NEW a, deregister_buffer(r, a)
          PROVE  BufferChange(x)
      BY <2>2 DEF deregister_buffer, BufferChange, TypeOK, BufferRecord
    <2>3. ASSUME NEW r, deregister_orphan(r) PROVE UNCHANGED buffers
      BY <2>3 DEF deregister_orphan
    <2>4. QED
      BY <1>1, <1>3, <2>1, <2>2, <2>3 DEF RegistrationOperation
  <1>4. CASE PlanOperation
    <2>1. ASSUME NEW c \in Callers, NEW p \in PlanIds, NEW s \in BufferIds \cup {Nil},
                 plan_transfer(c, p, s)
          PROVE  BufferChange(x)
      <3>1. CASE x = s
        <4>1. buffers[x].lifecycle = "NONE"
          BY <2>1, <3>1, IdAssumption DEF plan_transfer
        <4>2. buffers'[x].lifecycle = "ACTIVE" /\ buffers'[x].generation = 1
          BY <2>1, <3>1 DEF plan_transfer, NoBuffer
        <4>3. QED
          BY <4>1, <4>2 DEF BufferChange
      <3>2. CASE x # s
        BY <2>1, <3>2 DEF plan_transfer, BufferChange
      <3>3. QED
        BY <3>1, <3>2
    <2>2. QED
      BY <1>1, <1>4, <2>1 DEF PlanOperation, evaluate_path, plan_transfer_rejected
  <1>5. QED
    BY <1>1, <1>2, <1>3, <1>4, Frames DEF Next

\* Every step changes an endpoint in one of the three ways.
LEMMA EndpointChanges == TypeOK /\ [Next]_vars => \A e \in EndpointIds : EndpointChange(e)
  <1> SUFFICES ASSUME TypeOK, [Next]_vars, NEW x \in EndpointIds PROVE EndpointChange(x)
    OBVIOUS
  <1> USE DEF vars, inventoryVars
  <1>1. CASE UNCHANGED endpoints
    BY <1>1 DEF EndpointChange
  <1>2. ASSUME NEW e \in EndpointIds, NEW shape \in EndpointShapes, NEW a \in Authorities,
               add_endpoint(e, shape, a)
        PROVE  EndpointChange(x)
    BY <1>2 DEF add_endpoint, EndpointChange, TypeOK
  <1>3. ASSUME NEW e \in EndpointIds, NEW a \in Authorities, advance_endpoint_generation(e, a)
        PROVE  EndpointChange(x)
    <2>1. /\ endpoints'[e].present = endpoints[e].present
          /\ endpoints'[e].generation = endpoints[e].generation + 1
      BY <1>3 DEF advance_endpoint_generation, TypeOK, EndpointRecord
    <2>2. x # e => endpoints'[x] = endpoints[x]
      BY <1>3 DEF advance_endpoint_generation, TypeOK
    <2>3. QED
      BY <1>3, <2>1, <2>2, OwnerIsLive DEF advance_endpoint_generation, EndpointChange
  <1>4. ASSUME NEW e \in EndpointIds, NEW healthy \in BOOLEAN, NEW a \in Authorities,
               set_endpoint_health(e, healthy, a)
        PROVE  EndpointChange(x)
    <2>1. /\ endpoints'[e].present = endpoints[e].present
          /\ endpoints'[e].generation = endpoints[e].generation
      BY <1>4 DEF set_endpoint_health, TypeOK, EndpointRecord
    <2>2. x # e => endpoints'[x] = endpoints[x]
      BY <1>4 DEF set_endpoint_health, TypeOK
    <2>3. QED
      BY <1>4, <2>1, <2>2, OwnerIsLive DEF set_endpoint_health, EndpointChange
  <1>5. CASE InventoryOperation
    BY <1>1, <1>2, <1>3, <1>4, <1>5
    DEF InventoryOperation, add_device, add_provider, publish_capability, revoke_capability
  <1>6. QED
    BY <1>1, <1>5, Frames DEF Next

-------------------------------------------------------------------------------
(* CountersNeverDecrease: creating a record sets its generation to 1, so    *)
(* that an id without a record must not have been further already.          *)
Blank ==
    /\ \A b \in BufferIds : buffers[b].lifecycle = "NONE" => buffers[b].generation = 0
    /\ \A e \in EndpointIds : ~endpoints[e].present => endpoints[e].generation = 0

\* Nothing is ever erased, so that an id without a record never had one.
LEMMA BlankInvariant == Spec => []Blank
  <1>1. Init => Blank
    BY DEF Init, Blank, NoBuffer, NoEndpoint
  <1>2. TypeOK /\ Blank /\ [Next]_vars => Blank'
    <2> SUFFICES ASSUME TypeOK, Blank, [Next]_vars PROVE Blank'
      OBVIOUS
    <2>1. /\ \A b \in BufferIds : BufferChange(b)
          /\ \A e \in EndpointIds : EndpointChange(e)
      BY BufferChanges, EndpointChanges
    <2>2. QED
      BY <2>1 DEF Blank, BufferChange, EndpointChange
  <1>3. QED
    BY <1>1, <1>2, TypeCorrect, PTL DEF Spec

\* Epoch and boots move only where the code moves them forward.
LEMMA EpochAndBootsGrow ==
    ASSUME TypeOK, [Next]_vars
    PROVE  epoch' >= epoch /\ \A w \in Workers : worker_max_boot'[w] >= worker_max_boot[w]
  <1> USE DEF vars, workerVars
  <1>1. epoch \in Int /\ \A w \in Workers : worker_max_boot[w] \in Int
    BY DEF TypeOK, NoBoot
  <1>2. CASE UNCHANGED <<epoch, worker_max_boot>>
    BY <1>1, <1>2
  <1>3. ASSUME NEW w \in Workers, NEW b \in Boots, NEW e \in 0..MaxEpoch, register_worker(w, b, e)
        PROVE  /\ epoch' = epoch
               /\ \A v \in Workers : worker_max_boot'[v] >= worker_max_boot[v]
    <2>1. b >= worker_max_boot[w]
      BY <1>3, InputAssumption DEF register_worker, Admits, TypeOK, NoBoot
    <2>2. \A v \in Workers : worker_max_boot'[v] = IF v = w THEN b ELSE worker_max_boot[v]
      BY <1>3 DEF register_worker, TypeOK
    <2>3. epoch' = epoch
      BY <1>3 DEF register_worker
    <2>4. QED
      BY <1>1, <2>1, <2>2, <2>3
  <1>4. CASE advance_epoch
    BY <1>1, <1>4 DEF advance_epoch
  <1>5. CASE WorkerOperation
    BY <1>1, <1>2, <1>3, <1>4, <1>5 DEF WorkerOperation, set_limits, mark_worker_dead
  <1>6. QED
    BY <1>2, <1>5, Frames DEF Next

\* No restart of a worker, death, retirement or new epoch takes a counter
\* back that fences what came before.
THEOREM CountersGrow == Spec => CountersNeverDecrease
  <1> DEFINE Grow == /\ epoch' >= epoch
                     /\ \A w \in Workers : worker_max_boot'[w] >= worker_max_boot[w]
                     /\ \A b \in BufferIds : buffers'[b].generation >= buffers[b].generation
                     /\ \A e \in EndpointIds : endpoints'[e].generation >= endpoints[e].generation
  <1>1. TypeOK /\ Blank /\ [Next]_vars => [Grow]_vars
    <2> SUFFICES ASSUME TypeOK, Blank, [Next]_vars PROVE Grow
      OBVIOUS
    <2>1. /\ \A b \in BufferIds : BufferChange(b) /\ buffers[b].generation \in Nat
          /\ \A e \in EndpointIds : EndpointChange(e) /\ endpoints[e].generation \in Nat
      BY BufferChanges, EndpointChanges DEF TypeOK, BufferRecord, EndpointRecord
    <2>2. \A b \in BufferIds : buffers'[b].generation >= buffers[b].generation
      BY <2>1 DEF Blank, BufferChange
    <2>3. \A e \in EndpointIds : endpoints'[e].generation >= endpoints[e].generation
      BY <2>1 DEF Blank, EndpointChange
    <2>4. QED
      BY <2>2, <2>3, EpochAndBootsGrow
  <1>2. QED
    BY <1>1, TypeCorrect, BlankInvariant, PTL DEF Spec, CountersNeverDecrease

-------------------------------------------------------------------------------
(* StaleOwnerCannotMutate: a capability that is replaced must be replaced   *)
(* by a new one, so that there must not be two for one key.                 *)
OnePerKey ==
    \A c, d \in capabilities : c.provider = d.provider /\ c.capability = d.capability => c = d

\* How the capabilities change: not at all, by the owner, or by a publisher.
LEMMA CapabilityChanges ==
    ASSUME TypeOK, [Next]_vars
    PROVE  \/ UNCHANGED capabilities
           \/ \E c \in capabilities, a \in Authorities : revoke_capability(c, a)
           \/ \E u \in CapabilityUpdates, a \in Authorities : publish_capability(u, a)
  <1> USE DEF vars, inventoryVars
  <1>1. CASE InventoryOperation
    BY <1>1 DEF InventoryOperation, add_device, add_endpoint, advance_endpoint_generation,
                set_endpoint_health, add_provider
  <1>2. QED
    BY <1>1, Frames DEF Next

\* publish_capability removes the observation it replaces.
LEMMA OnePerKeyInvariant == Spec => []OnePerKey
  <1>1. Init => OnePerKey
    BY DEF Init, OnePerKey
  <1>2. TypeOK /\ OnePerKey /\ [Next]_vars => OnePerKey'
    <2> SUFFICES ASSUME TypeOK, OnePerKey, [Next]_vars PROVE OnePerKey'
      OBVIOUS
    <2>1. CASE UNCHANGED capabilities
      BY <2>1 DEF OnePerKey
    <2>2. ASSUME NEW c \in capabilities, NEW a \in Authorities, revoke_capability(c, a)
          PROVE  OnePerKey'
      BY <2>2 DEF revoke_capability, OnePerKey
    <2>3. ASSUME NEW u \in CapabilityUpdates, NEW a \in Authorities, publish_capability(u, a)
          PROVE  OnePerKey'
      BY <2>3 DEF publish_capability, OnePerKey
    <2>4. QED
      BY <2>1, <2>2, <2>3, CapabilityChanges
  <1>3. QED
    BY <1>1, <1>2, TypeCorrect, PTL DEF Spec

\* The part of StaleOwnerCannotMutate about capabilities, in one step.
LEMMA CapabilityOwners ==
    ASSUME TypeOK, OnePerKey, [Next]_vars, NEW c \in capabilities \ capabilities'
    PROVE  \/ MayPublish(c.authority)
           \/ \E d \in capabilities' \ capabilities :
                 /\ d.provider = c.provider /\ d.capability = c.capability
                 /\ MayPublish(d.authority)
  <1>1. ASSUME NEW x \in capabilities, NEW a \in Authorities, revoke_capability(x, a)
        PROVE  MayPublish(c.authority)
    <2>1. c = x
      BY <1>1 DEF revoke_capability
    <2>2. QED
      BY <1>1, <2>1, OwnerIsLive DEF revoke_capability
  <1>2. ASSUME NEW u \in CapabilityUpdates, NEW a \in Authorities, publish_capability(u, a)
        PROVE  \E d \in capabilities' \ capabilities :
                  /\ d.provider = c.provider /\ d.capability = c.capability
                  /\ MayPublish(d.authority)
    <2> DEFINE d == [provider |-> u.provider, capability |-> u.capability, value |-> u.value,
                     support |-> u.support, authority |-> a]
    <2>1. MayPublish(a) /\ d \in capabilities'
      BY <1>2 DEF publish_capability
    <2>2. c.provider = u.provider /\ c.capability = u.capability
      BY <1>2 DEF publish_capability
    <2>3. d.provider = u.provider /\ d.capability = u.capability /\ d.authority = a
      OBVIOUS
    <2>4. d \notin capabilities
      BY <2>1, <2>2, <2>3 DEF OnePerKey
    <2> HIDE DEF d
    <2>5. QED
      BY <2>1, <2>2, <2>3, <2>4
  <1>3. QED
    BY <1>1, <1>2, CapabilityChanges

\* A token of a dead incarnation or a past epoch can neither mutate nor
\* revoke what it once owned, for any number of workers and any tokens.
THEOREM StaleOwnersCannotMutate == Spec => StaleOwnerCannotMutate
  <1> DEFINE Fenced ==
        /\ \A b \in BufferIds :
             LET was == buffers[b] IN
             /\ was.lifecycle # "NONE"
             /\ <<was.generation, was.lifecycle>> # <<buffers'[b].generation, buffers'[b].lifecycle>>
             => MayPublish(was.authority)
        /\ \A e \in EndpointIds :
             LET was == endpoints[e] IN
             was.present /\ was # endpoints'[e] => MayPublish(was.authority)
        /\ \A c \in capabilities \ capabilities' :
             \/ MayPublish(c.authority)
             \/ \E d \in capabilities' \ capabilities :
                   /\ d.provider = c.provider /\ d.capability = c.capability
                   /\ MayPublish(d.authority)
  <1>1. TypeOK /\ OnePerKey /\ [Next]_vars => [Fenced]_vars
    <2> SUFFICES ASSUME TypeOK, OnePerKey, [Next]_vars PROVE Fenced
      OBVIOUS
    <2>1. /\ \A b \in BufferIds : BufferChange(b)
          /\ \A e \in EndpointIds : EndpointChange(e)
      BY BufferChanges, EndpointChanges
    <2>2. ASSUME NEW b \in BufferIds, buffers[b].lifecycle # "NONE",
                 <<buffers[b].generation, buffers[b].lifecycle>>
                    # <<buffers'[b].generation, buffers'[b].lifecycle>>
          PROVE  MayPublish(buffers[b].authority)
      BY <2>1, <2>2 DEF BufferChange
    <2>3. ASSUME NEW e \in EndpointIds, endpoints[e].present, endpoints[e] # endpoints'[e]
          PROVE  MayPublish(endpoints[e].authority)
      BY <2>1, <2>3 DEF EndpointChange
    <2>4. QED
      BY <2>2, <2>3, CapabilityOwners
  <1>2. QED
    BY <1>1, TypeCorrect, OnePerKeyInvariant, PTL DEF Spec, StaleOwnerCannotMutate

-------------------------------------------------------------------------------
(* RegistrationCurrent is inductive given TypeOK. *)

\* What an invalidated registry looks like: an entry that is REGISTERED is
\* not affected and is as it was.
LEMMA RevalidateKeeps ==
    ASSUME NEW rs, NEW r \in RegistrationIds, TypeOK,
           Revalidate(rs)[r].state = "REGISTERED"
    PROVE  r \notin rs /\ Revalidate(rs)[r] = registrations[r]
  BY DEF Revalidate, TypeOK, Registration

\* A step that leaves the epoch alone keeps the invariant if every entry that
\* is REGISTERED afterwards was there before and its buffer and endpoint kept
\* generation, lifecycle and presence.
LEMMA CurrentFrame ==
    ASSUME RegistrationCurrent, epoch' = epoch,
           \A r \in RegistrationIds : registrations'[r].state = "REGISTERED" =>
              LET reg == registrations[r] IN
              /\ registrations'[r] = reg
              /\ buffers'[reg.buffer].lifecycle = buffers[reg.buffer].lifecycle
              /\ buffers'[reg.buffer].generation = buffers[reg.buffer].generation
              /\ endpoints'[reg.endpoint].present = endpoints[reg.endpoint].present
              /\ endpoints'[reg.endpoint].generation = endpoints[reg.endpoint].generation
    PROVE  RegistrationCurrent'
  BY DEF RegistrationCurrent

\* Every step keeps RegistrationCurrent, given the types.
LEMMA CurrentStep == TypeOK /\ RegistrationCurrent /\ [Next]_vars => RegistrationCurrent'
  <1> SUFFICES ASSUME TypeOK, RegistrationCurrent, [Next]_vars PROVE RegistrationCurrent'
    OBVIOUS
  <1> USE DEF vars, workerVars, inventoryVars, transferVars
  <1>0. CASE UNCHANGED <<epoch, registrations, buffers, endpoints>>
    BY <1>0 DEF RegistrationCurrent
  <1>1. CASE UNCHANGED vars
    BY <1>0, <1>1
  <1>2. CASE WorkerOperation
    <2>1. CASE \E l \in LimitSettings : set_limits(l)
      BY <1>0, <2>1 DEF set_limits
    <2>2. CASE \E w \in Workers, b \in Boots, e \in 0..MaxEpoch : register_worker(w, b, e)
      BY <1>0, <2>2 DEF register_worker
    <2>3. ASSUME NEW w \in Workers, mark_worker_dead(w) PROVE RegistrationCurrent'
      BY <2>3, CurrentFrame, RevalidateKeeps DEF mark_worker_dead
    <2>4. CASE advance_epoch
      <3>1. \A r \in RegistrationIds : registrations'[r].state # "REGISTERED"
        BY <2>4 DEF advance_epoch, Revalidate, TypeOK, Registration
      <3>2. QED
        BY <3>1 DEF RegistrationCurrent
    <2>5. QED
      BY <1>2, <2>1, <2>2, <2>3, <2>4 DEF WorkerOperation
  <1>3. CASE BufferOperation
    <2>1. ASSUME NEW b \in BufferIds, NEW shape \in BufferShapes, NEW a \in Authorities,
                 create_buffer(b, shape, a)
          PROVE  RegistrationCurrent'
      <3>1. \A r \in RegistrationIds :
               registrations[r].state = "REGISTERED" => registrations[r].buffer # b
        BY <2>1 DEF create_buffer, RegistrationCurrent
      <3>2. QED
        BY <2>1, <3>1, CurrentFrame DEF create_buffer, RegistrationCurrent, TypeOK
    <2>2. ASSUME NEW b \in BufferIds, NEW a \in Authorities, advance_buffer_generation(b, a)
          PROVE  RegistrationCurrent'
      <3>1. ASSUME NEW r \in RegistrationIds, registrations'[r].state = "REGISTERED"
            PROVE  registrations[r].buffer # b /\ registrations'[r] = registrations[r]
        BY <2>2, <3>1, RevalidateKeeps DEF advance_buffer_generation, invalidate_buffer_dependents
      <3>2. \A x \in BufferIds : x # b => buffers'[x] = buffers[x]
        BY <2>2 DEF advance_buffer_generation, TypeOK
      <3>3. QED
        BY <2>2, <3>1, <3>2, CurrentFrame DEF advance_buffer_generation, RegistrationCurrent
    <2>3. ASSUME NEW b \in BufferIds, NEW a \in Authorities, retire_buffer(b, a)
          PROVE  RegistrationCurrent'
      <3>1. ASSUME NEW r \in RegistrationIds, registrations'[r].state = "REGISTERED"
            PROVE  registrations[r].buffer # b /\ registrations'[r] = registrations[r]
        BY <2>3, <3>1, RevalidateKeeps DEF retire_buffer, invalidate_buffer_dependents
      <3>2. \A x \in BufferIds : x # b => buffers'[x] = buffers[x]
        BY <2>3 DEF retire_buffer, TypeOK
      <3>3. QED
        BY <2>3, <3>1, <3>2, CurrentFrame DEF retire_buffer, RegistrationCurrent
    <2>4. QED
      BY <1>3, <2>1, <2>2, <2>3 DEF BufferOperation
  <1>4. CASE InventoryOperation
    <2>1. ASSUME NEW e \in EndpointIds, NEW shape \in EndpointShapes, NEW a \in Authorities,
                 add_endpoint(e, shape, a)
          PROVE  RegistrationCurrent'
      <3>1. \A r \in RegistrationIds :
               registrations[r].state = "REGISTERED" => registrations[r].endpoint # e
        BY <2>1 DEF add_endpoint, RegistrationCurrent
      <3>2. QED
        BY <2>1, <3>1, CurrentFrame DEF add_endpoint, RegistrationCurrent, TypeOK
    <2>2. ASSUME NEW e \in EndpointIds, NEW a \in Authorities, advance_endpoint_generation(e, a)
          PROVE  RegistrationCurrent'
      <3>1. ASSUME NEW r \in RegistrationIds, registrations'[r].state = "REGISTERED"
            PROVE  registrations[r].endpoint # e /\ registrations'[r] = registrations[r]
        BY <2>2, <3>1, RevalidateKeeps DEF advance_endpoint_generation, invalidate_endpoint_dependents
      <3>2. \A x \in EndpointIds : x # e => endpoints'[x] = endpoints[x]
        BY <2>2 DEF advance_endpoint_generation, TypeOK
      <3>3. QED
        BY <2>2, <3>1, <3>2, CurrentFrame DEF advance_endpoint_generation, RegistrationCurrent
    <2>3. ASSUME NEW e \in EndpointIds, NEW healthy \in BOOLEAN, NEW a \in Authorities,
                 set_endpoint_health(e, healthy, a)
          PROVE  RegistrationCurrent'
      BY <2>3, CurrentFrame DEF set_endpoint_health, RegistrationCurrent, TypeOK, EndpointRecord
    <2>4. CASE UNCHANGED <<epoch, registrations, buffers, endpoints>>
      BY <1>0, <2>4
    <2>5. QED
      BY <1>4, <2>1, <2>2, <2>3, <2>4
      DEF InventoryOperation, add_device, add_provider, publish_capability, revoke_capability
  <1>5. CASE RegistrationOperation
    <2>1. ASSUME NEW b \in BufferIds, NEW e \in EndpointIds, NEW a \in Authorities,
                 NEW r \in RegistrationIds, NEW g \in 1..MaxGeneration,
                 NEW support \in RegistrationSupport, register_buffer(b, e, a, r, g, support)
          PROVE  RegistrationCurrent'
      <3>1. \A x \in BufferIds : /\ buffers'[x].lifecycle = buffers[x].lifecycle
                                 /\ buffers'[x].generation = buffers[x].generation
        BY <2>1 DEF register_buffer, TypeOK, BufferRecord
      <3>2. ASSUME NEW q \in RegistrationIds, q # r
            PROVE  registrations'[q] = registrations[q]
        BY <2>1, <3>2 DEF register_buffer, TypeOK
      <3>3. /\ registrations'[r].buffer = b /\ registrations'[r].endpoint = e
            /\ registrations'[r].buffer_generation = buffers[b].generation
            /\ registrations'[r].endpoint_generation = endpoints[e].generation
            /\ registrations'[r].authority = a
        BY <2>1 DEF register_buffer, TypeOK
      <3>4. /\ buffers[b].lifecycle = "ACTIVE" /\ endpoints[e].present /\ a.epoch = epoch
            /\ UNCHANGED <<epoch, endpoints>>
        BY <2>1 DEF register_buffer, MayRegister
      <3>5. QED
        BY <3>1, <3>2, <3>3, <3>4 DEF RegistrationCurrent
    <2>2. ASSUME NEW r \in RegistrationIds, deregister_orphan(r)
          PROVE  RegistrationCurrent'
      BY <2>2, CurrentFrame DEF deregister_orphan, Retire, TypeOK, Registration
    <2>3. ASSUME NEW r \in RegistrationIds, NEW a \in Authorities, deregister_buffer(r, a)
          PROVE  RegistrationCurrent'
      <3>1. \A x \in BufferIds : /\ buffers'[x].lifecycle = buffers[x].lifecycle
                                 /\ buffers'[x].generation = buffers[x].generation
        BY <2>3 DEF deregister_buffer, TypeOK, BufferRecord
      <3>2. ASSUME NEW q \in RegistrationIds, registrations'[q].state = "REGISTERED"
            PROVE  registrations'[q] = registrations[q]
        <4>1. registrations' = [registrations EXCEPT ![r].state = "RETIRED"]
          BY <2>3 DEF deregister_buffer, Retire
        <4>2. QED
          BY <3>2, <4>1 DEF TypeOK, Registration
      <3>3. QED
        <4>1. \A q \in RegistrationIds : registrations'[q].state = "REGISTERED" =>
                 registrations[q].buffer \in BufferIds
          BY <3>2 DEF RegistrationCurrent
        <4>2. UNCHANGED <<epoch, endpoints>>
          BY <2>3 DEF deregister_buffer
        <4>3. QED
          BY <3>1, <3>2, <4>1, <4>2, CurrentFrame
    <2>4. QED
      BY <1>5, <2>1, <2>2, <2>3 DEF RegistrationOperation
  <1>6. CASE PlanOperation
    <2>1. ASSUME NEW c \in Callers, NEW p \in PlanIds, NEW s \in BufferIds \cup {Nil},
                 plan_transfer(c, p, s)
          PROVE  RegistrationCurrent'
      <3>1. \A r \in RegistrationIds :
               registrations[r].state = "REGISTERED" => registrations[r].buffer # s
        BY <2>1, IdAssumption DEF plan_transfer, RegistrationCurrent
      <3>2. QED
        BY <2>1, <3>1, CurrentFrame DEF plan_transfer, RegistrationCurrent, TypeOK
    <2>2. QED
      BY <1>0, <1>6, <2>1 DEF PlanOperation, evaluate_path, plan_transfer_rejected
  <1>7. CASE TransferOperation
    BY <1>0, <1>7 DEF TransferOperation, begin_transfer, complete_failed, complete_transfer,
                      cancel_transfer, verify_transfer
  <1>8. QED
    BY <1>1, <1>2, <1>3, <1>4, <1>5, <1>6, <1>7 DEF Next

\* No interleaving of the operations leaves a stale registration active.
THEOREM RegistrationsStayCurrent == Spec => []RegistrationCurrent
  <1>1. Init => RegistrationCurrent
    BY DEF Init, RegistrationCurrent, NoRegistration
  <1>2. QED
    BY <1>1, CurrentStep, TypeCorrect, PTL DEF Spec

-------------------------------------------------------------------------------
(* OneActiveRegistration is inductive: an active registration is strictly  *)
(* the newest of its pair, so PairIsFree, which looks only at the newest,  *)
(* finds it.                                                               *)

\* Operations that only take registrations out of REGISTERED keep it.
LEMMA OneActiveFrame ==
    ASSUME OneActiveRegistration,
           \A r \in RegistrationIds :
              /\ registrations'[r].buffer = registrations[r].buffer
              /\ registrations'[r].endpoint = registrations[r].endpoint
              /\ registrations'[r].generation = registrations[r].generation
              /\ registrations'[r].state = "REGISTERED" => registrations[r].state = "REGISTERED"
    PROVE  OneActiveRegistration'
  BY DEF OneActiveRegistration

\* Invalidation is such an operation.
LEMMA RevalidateFrame ==
    ASSUME TypeOK, NEW rs, NEW r \in RegistrationIds
    PROVE  /\ Revalidate(rs)[r].buffer = registrations[r].buffer
           /\ Revalidate(rs)[r].endpoint = registrations[r].endpoint
           /\ Revalidate(rs)[r].generation = registrations[r].generation
           /\ Revalidate(rs)[r].authority = registrations[r].authority
           /\ Revalidate(rs)[r].state = "REGISTERED" => registrations[r].state = "REGISTERED"
  BY DEF Revalidate, TypeOK, Registration

\* So is retirement.
LEMMA RetireFrame ==
    ASSUME TypeOK, NEW x \in RegistrationIds, NEW r \in RegistrationIds
    PROVE  /\ Retire(x)[r].buffer = registrations[r].buffer
           /\ Retire(x)[r].endpoint = registrations[r].endpoint
           /\ Retire(x)[r].generation = registrations[r].generation
           /\ Retire(x)[r].authority = registrations[r].authority
           /\ Retire(x)[r].state = "REGISTERED" => registrations[r].state = "REGISTERED"
  BY DEF Retire, TypeOK, Registration

\* Registering is the only operation that grants: every other step changes
\* registrations by invalidation or retirement, if at all.
LEMMA OnlyRegisterGrants ==
    ASSUME TypeOK, [Next]_vars
    PROVE  \/ \E b \in BufferIds, e \in EndpointIds, a \in Authorities, r \in RegistrationIds,
                 g \in 1..MaxGeneration, support \in RegistrationSupport :
                 register_buffer(b, e, a, r, g, support)
           \/ UNCHANGED registrations
           \/ \E rs \in SUBSET RegistrationIds : registrations' = Revalidate(rs)
           \/ \E r \in RegistrationIds : registrations' = Retire(r)
  <1> USE DEF vars, workerVars, inventoryVars, transferVars
  <1>1. CASE WorkerOperation
    BY <1>1 DEF WorkerOperation, set_limits, register_worker, mark_worker_dead, advance_epoch, OwnedBy
  <1>2. CASE BufferOperation
    BY <1>2 DEF BufferOperation, create_buffer, advance_buffer_generation, retire_buffer,
                invalidate_buffer_dependents
  <1>3. CASE InventoryOperation
    BY <1>3 DEF InventoryOperation, add_device, add_endpoint, advance_endpoint_generation,
                set_endpoint_health, add_provider, publish_capability, revoke_capability,
                invalidate_endpoint_dependents
  <1>4. CASE RegistrationOperation
    BY <1>4 DEF RegistrationOperation, deregister_orphan, deregister_buffer
  <1>5. CASE PlanOperation
    BY <1>5 DEF PlanOperation, evaluate_path, plan_transfer, plan_transfer_rejected
  <1>6. CASE TransferOperation
    BY <1>6 DEF TransferOperation, begin_transfer, complete_failed, complete_transfer,
                cancel_transfer, verify_transfer
  <1>7. QED
    BY <1>1, <1>2, <1>3, <1>4, <1>5, <1>6 DEF Next

\* Every step keeps OneActiveRegistration.
LEMMA OneActiveStep ==
    TypeOK /\ OneActiveRegistration /\ [Next]_vars => OneActiveRegistration'
  <1> SUFFICES ASSUME TypeOK, OneActiveRegistration, [Next]_vars PROVE OneActiveRegistration'
    OBVIOUS
  <1>1. CASE UNCHANGED registrations
    BY <1>1 DEF OneActiveRegistration
  <1>2. ASSUME NEW rs \in SUBSET RegistrationIds, registrations' = Revalidate(rs)
        PROVE  OneActiveRegistration'
    BY <1>2, OneActiveFrame, RevalidateFrame
  <1>3. ASSUME NEW r \in RegistrationIds, registrations' = Retire(r)
        PROVE  OneActiveRegistration'
    BY <1>3, OneActiveFrame, RetireFrame
  <1>4. ASSUME NEW b \in BufferIds, NEW e \in EndpointIds, NEW a \in Authorities,
               NEW r \in RegistrationIds, NEW g \in 1..MaxGeneration,
               NEW support \in RegistrationSupport, register_buffer(b, e, a, r, g, support)
        PROVE  OneActiveRegistration'
    <2>1. /\ registrations'[r].buffer = b /\ registrations'[r].endpoint = e
          /\ registrations'[r].generation = g
          /\ \A q \in RegistrationIds : q # r => registrations'[q] = registrations[q]
      BY <1>4 DEF register_buffer, TypeOK
    <2>2. \A q \in RegistrationIds : registrations[q].generation \in Nat
      BY DEF TypeOK, Registration
    <2>3. \A q \in RegistrationsOf(b, e) : registrations[q].state # "REGISTERED"
      <3>1. SUFFICES ASSUME NEW q \in RegistrationsOf(b, e), registrations[q].state = "REGISTERED"
                     PROVE  FALSE
        OBVIOUS
      <3>2. q \in Newest(RegistrationsOf(b, e))
        BY <2>2, <3>1 DEF Newest, RegistrationsOf, OneActiveRegistration
      <3>3. QED
        BY <1>4, <3>1, <3>2 DEF register_buffer, PairIsFree
    <2>4. \A q \in RegistrationsOf(b, e) : registrations[q].generation < g
      BY <1>4, <2>2 DEF register_buffer, IsNextGeneration, Newest, RegistrationsOf
    <2>5. QED
      BY <2>1, <2>3, <2>4 DEF OneActiveRegistration, RegistrationsOf
  <1>5. QED
    BY <1>1, <1>2, <1>3, <1>4, OnlyRegisterGrants

\* At most one registration of a pair is active and it is the newest, even
\* if backends reuse registration ids.
THEOREM RegistrationsStayUnique == Spec => []OneActiveRegistration
  <1>1. Init => OneActiveRegistration
    BY DEF Init, OneActiveRegistration, NoRegistration
  <1>2. QED
    BY <1>1, OneActiveStep, TypeCorrect, PTL DEF Spec

-------------------------------------------------------------------------------
(* IncarnationFence is inductive. *)
\* Every step keeps IncarnationFence.
LEMMA FenceStep == TypeOK /\ IncarnationFence /\ [Next]_vars => IncarnationFence'
  <1> SUFFICES ASSUME TypeOK, IncarnationFence, [Next]_vars PROVE IncarnationFence'
    OBVIOUS
  <1> USE DEF vars, workerVars, inventoryVars, transferVars
  <1>1. ASSUME UNCHANGED <<workers, worker_max_boot>>,
               \A r \in RegistrationIds :
                  /\ registrations'[r].authority = registrations[r].authority
                  /\ registrations'[r].state = "REGISTERED"
                       => registrations[r].state = "REGISTERED"
        PROVE  IncarnationFence'
    BY <1>1 DEF IncarnationFence
  <1>2. ASSUME UNCHANGED <<workers, worker_max_boot>>,
               NEW rs \in SUBSET RegistrationIds, registrations' = Revalidate(rs)
        PROVE  IncarnationFence'
    BY <1>1, <1>2, RevalidateFrame
  <1>3. ASSUME UNCHANGED <<workers, worker_max_boot>>,
               NEW r \in RegistrationIds, registrations' = Retire(r)
        PROVE  IncarnationFence'
    BY <1>1, <1>3, RetireFrame
  <1>4. ASSUME NEW w \in Workers, NEW b \in Boots, NEW e \in 0..MaxEpoch, register_worker(w, b, e)
        PROVE  IncarnationFence'
    <2>1. /\ workers' = [workers EXCEPT ![w] = b]
          /\ worker_max_boot' = [worker_max_boot EXCEPT ![w] = b]
          /\ registrations' = registrations
          /\ b \in Nat
      BY <1>4, InputAssumption DEF register_worker
    <2>2. workers[w] # NoBoot => workers[w] <= b
      BY <1>4 DEF register_worker, Admits, IncarnationFence, TypeOK
    <2>3. \A x \in Workers : workers'[x] # NoBoot => workers'[x] = worker_max_boot'[x]
      BY <2>1 DEF IncarnationFence, TypeOK
    <2>4. ASSUME NEW r \in RegistrationIds, registrations[r].state = "REGISTERED",
                 worker_owned(registrations[r].authority)
          PROVE  /\ workers'[registrations[r].authority.worker] # NoBoot
                 /\ registrations[r].authority.boot
                      <= workers'[registrations[r].authority.worker]
      <3>1. /\ registrations[r].authority.worker \in Workers
            /\ registrations[r].authority.boot \in Nat
        BY <2>4 DEF TypeOK, Registration, AuthorityRecord, worker_owned
      <3>2. /\ workers[registrations[r].authority.worker] # NoBoot
            /\ registrations[r].authority.boot <= workers[registrations[r].authority.worker]
        BY <2>4 DEF IncarnationFence
      <3>3. QED
        BY <2>1, <2>2, <3>1, <3>2 DEF TypeOK, NoBoot
    <2>5. QED
      BY <2>1, <2>3, <2>4 DEF IncarnationFence
  <1>5. ASSUME NEW w \in Workers, mark_worker_dead(w)
        PROVE  IncarnationFence'
    <2>1. ASSUME NEW r \in RegistrationIds, registrations'[r].state = "REGISTERED"
          PROVE  registrations[r].authority.worker # w /\ registrations'[r] = registrations[r]
      BY <1>5, <2>1, RevalidateKeeps DEF mark_worker_dead, OwnedBy
    <2>2. QED
      BY <1>5, <2>1 DEF mark_worker_dead, IncarnationFence, TypeOK, NoBoot
  <1>6. CASE advance_epoch
    <2>1. \A r \in RegistrationIds : registrations'[r].state # "REGISTERED"
      BY <1>6 DEF advance_epoch, Revalidate, TypeOK, Registration
    <2>2. QED
      BY <1>6, <2>1 DEF advance_epoch, IncarnationFence
  <1>7. ASSUME NEW b \in BufferIds, NEW e \in EndpointIds, NEW a \in Authorities,
               NEW r \in RegistrationIds, NEW g \in 1..MaxGeneration,
               NEW support \in RegistrationSupport, register_buffer(b, e, a, r, g, support)
        PROVE  IncarnationFence'
    <2>1. /\ registrations'[r].authority = a
          /\ \A q \in RegistrationIds : q # r => registrations'[q] = registrations[q]
          /\ UNCHANGED <<workers, worker_max_boot>>
      BY <1>7 DEF register_buffer, TypeOK
    <2>2. worker_owned(a) => workers[a.worker] = a.boot /\ a.boot \in Nat
      BY <1>7, InputAssumption
      DEF register_buffer, MayRegister, MayPublish, worker_live_locked, AuthorityLive, AuthorityRecord
    <2>3. QED
      BY <2>1, <2>2 DEF IncarnationFence, NoBoot
  <1>8. UNCHANGED <<workers, worker_max_boot>> \/ WorkerOperation
    BY Frames DEF Next
  <1>9. CASE WorkerOperation
    <2>1. CASE \E l \in LimitSettings : set_limits(l)
      BY <1>1, <2>1 DEF set_limits
    <2>2. QED
      BY <1>4, <1>5, <1>6, <1>9, <2>1 DEF WorkerOperation
  <1>10. CASE UNCHANGED <<workers, worker_max_boot>>
    <2>1. CASE UNCHANGED registrations
      BY <1>1, <1>10, <2>1
    <2>2. QED
      BY <1>2, <1>3, <1>7, <1>10, <2>1, OnlyRegisterGrants
  <1>11. QED
    BY <1>8, <1>9, <1>10

\* The live incarnation of a worker is the newest admitted one, and no active
\* registration belongs to a worker that is not connected.
THEOREM IncarnationsStayFenced == Spec => []IncarnationFence
  <1>1. Init => IncarnationFence
    BY DEF Init, IncarnationFence, NoRegistration
  <1>2. QED
    BY <1>1, FenceStep, TypeCorrect, PTL DEF Spec

-------------------------------------------------------------------------------
(* DeadTokensStayDead, if no worker ever says hello with boot 0. *)

\* The highest boot of a worker is one it said hello with, or none.
BootsAdmitted == \A w \in Workers : worker_max_boot[w] \in Boots \cup {NoBoot}

\* Every step keeps BootsAdmitted: only register_worker writes the table.
LEMMA AdmittedStep == TypeOK /\ BootsAdmitted /\ [Next]_vars => BootsAdmitted'
  <1> SUFFICES ASSUME TypeOK, BootsAdmitted, [Next]_vars PROVE BootsAdmitted'
    OBVIOUS
  <1>1. CASE UNCHANGED worker_max_boot
    BY <1>1 DEF BootsAdmitted
  <1>2. ASSUME NEW w \in Workers, NEW b \in Boots, NEW e \in 0..MaxEpoch, register_worker(w, b, e)
        PROVE  BootsAdmitted'
    BY <1>2 DEF register_worker, BootsAdmitted, TypeOK
  <1>3. CASE WorkerOperation
    BY <1>1, <1>2, <1>3 DEF WorkerOperation, set_limits, mark_worker_dead, advance_epoch, workerVars
  <1>4. QED
    BY <1>1, <1>3, Frames DEF Next, vars, workerVars

\* One step revives no token: register_worker admits a boot that is not live
\* only above every boot the worker has had.
LEMMA OneLifeStep ==
    ASSUME 0 \notin Boots, TypeOK, IncarnationFence, BootsAdmitted, [Next]_vars,
           NEW a \in Authorities, worker_owned(a), ~worker_live_locked(a), worker_live_locked(a)'
    PROVE  a.boot > worker_max_boot[a.worker]
  <1> USE DEF workerVars
  <1>1. a.worker \in Workers /\ a.boot \in Nat
    BY InputAssumption DEF AuthorityRecord, worker_owned
  <1>2. a.epoch = epoch' /\ workers'[a.worker] = a.boot
    BY DEF worker_live_locked, AuthorityLive
  <1>3. a.epoch # epoch \/ workers[a.worker] # a.boot
    BY DEF worker_live_locked, AuthorityLive
  <1>4. ASSUME NEW w \in Workers, NEW b \in Boots, NEW e \in 0..MaxEpoch, register_worker(w, b, e)
        PROVE  a.boot > worker_max_boot[a.worker]
    <2>1. /\ epoch' = epoch
          /\ workers' = [workers EXCEPT ![w] = b]
          /\ Admits(w, b)
      BY <1>4 DEF register_worker
    <2>2. a.worker = w /\ a.boot = b /\ workers[w] # b
      BY <1>1, <1>2, <1>3, <2>1 DEF TypeOK
    <2>3. worker_max_boot[w] = NoBoot \/ worker_max_boot[w] \in Nat \ {0}
      BY InputAssumption DEF BootsAdmitted
    <2>4. CASE worker_max_boot[w] = NoBoot
      BY <1>1, <2>2, <2>4 DEF NoBoot
    <2>5. CASE worker_max_boot[w] \in Nat \ {0}
      <3>1. b >= worker_max_boot[w] /\ (workers[w] # NoBoot \/ b > worker_max_boot[w])
        BY <2>1, <2>5 DEF Admits, NoBoot
      <3>2. workers[w] # NoBoot => b # worker_max_boot[w]
        BY <2>2 DEF IncarnationFence
      <3>3. QED
        BY <1>1, <2>2, <2>5, <3>1, <3>2
    <2>6. QED
      BY <2>3, <2>4, <2>5
  <1>5. ASSUME NEW w \in Workers, mark_worker_dead(w)
        PROVE  FALSE
    BY <1>1, <1>2, <1>3, <1>5 DEF mark_worker_dead, NoBoot, TypeOK
  <1>6. ~advance_epoch
    BY <1>1, <1>2 DEF advance_epoch, NoBoot
  <1>7. ~UNCHANGED <<epoch, workers>>
    BY <1>2, <1>3
  <1>8. WorkerOperation
    BY <1>7, Frames DEF Next, vars
  <1>9. QED
    BY <1>4, <1>5, <1>6, <1>7, <1>8 DEF WorkerOperation, set_limits

\* If no worker has boot 0, which the boot fence takes for "never seen", then
\* no token of a dead incarnation or of a past epoch comes back to life.
THEOREM TokensHaveOneLife ==
    ASSUME 0 \notin Boots
    PROVE  Spec => DeadTokensStayDead
  <1>1. Init => BootsAdmitted
    BY DEF Init, BootsAdmitted
  <1>2. TypeOK /\ IncarnationFence /\ BootsAdmitted /\ [Next]_vars =>
          [ \A a \in Authorities :
              worker_owned(a) /\ ~worker_live_locked(a) /\ worker_live_locked(a)' =>
                a.boot > worker_max_boot[a.worker] ]_vars
    BY OneLifeStep
  <1>3. QED
    BY <1>1, <1>2, AdmittedStep, TypeCorrect, IncarnationsStayFenced, PTL DEF Spec, DeadTokensStayDead

-------------------------------------------------------------------------------
(* Registration ids: what a counter has passed it never gives out again.   *)

\* The fields of a registration that plans and leases depend on.
SameBinding(r) ==
    /\ registrations'[r].buffer = registrations[r].buffer
    /\ registrations'[r].endpoint = registrations[r].endpoint
    /\ registrations'[r].generation = registrations[r].generation

\* An id that is in use was given out by a counter.
InUse(r) == registrations[r].buffer # Nil \/ registrations[r].state = "REGISTERED"

IdsAreIssued ==
    \A r \in RegistrationIds : InUse(r) => \E source \in IdSources : r \in issued[source]

\* Counters only go forward, and only register_buffer moves one.
LEMMA IssuedGrows ==
    ASSUME TypeOK, [Next]_vars, NEW source \in IdSource
    PROVE  issued[source] \subseteq issued'[source]
  <1>1. ASSUME NEW b, NEW e, NEW a, NEW r, NEW g, NEW support,
               register_buffer(b, e, a, r, g, support)
        PROVE  issued[source] \subseteq issued'[source]
    BY <1>1 DEF register_buffer, IssueId, TypeOK
  <1>2. CASE UNCHANGED issued
    BY <1>2
  <1>3. CASE RegistrationOperation
    BY <1>1, <1>2, <1>3 DEF RegistrationOperation, deregister_orphan, deregister_buffer
  <1>4. QED
    BY <1>2, <1>3, Frames DEF Next, vars

\* A registration that is stored under an id in use is the second one under
\* it: both counters have given the id out.
LEMMA OverwritesAreCollisions ==
    ASSUME TypeOK, IdsAreIssued, NEW b, NEW e, NEW a, NEW r \in RegistrationIds, NEW g, NEW support,
           register_buffer(b, e, a, r, g, support), InUse(r)
    PROVE  IssuedTwice(r)' /\ \E s, t \in IdSources : s # t
  <1>1. PICK s \in IdSources : r \in issued[s]
    BY DEF IdsAreIssued
  <1>2. PICK t \in IdSources : r \notin issued[t] /\ issued' = [issued EXCEPT ![t] = @ \cup {r}]
    BY DEF register_buffer, IssueId
  <1>3. s \in IdSource /\ t \in IdSource /\ s # t
    BY <1>1, <1>2, InputAssumption
  <1>4. r \in issued'[s] /\ r \in issued'[t]
    BY <1>1, <1>2, <1>3 DEF TypeOK
  <1>5. \A source \in IdSource : source = s \/ source = t
    BY <1>3 DEF IdSource
  <1>6. QED
    BY <1>3, <1>4, <1>5 DEF IssuedTwice

\* Every step keeps it that ids in use are issued.
LEMMA IssuedStep == TypeOK /\ IdsAreIssued /\ [Next]_vars => IdsAreIssued'
  <1> SUFFICES ASSUME TypeOK, IdsAreIssued, [Next]_vars PROVE IdsAreIssued'
    OBVIOUS
  <1>1. \A source \in IdSources : issued[source] \subseteq issued'[source]
    BY IssuedGrows, InputAssumption
  <1>2. ASSUME \A r \in RegistrationIds : InUse(r)' => InUse(r)
        PROVE  IdsAreIssued'
    BY <1>1, <1>2 DEF IdsAreIssued
  <1>3. ASSUME NEW b \in BufferIds, NEW e \in EndpointIds, NEW a \in Authorities,
               NEW r \in RegistrationIds, NEW g \in 1..MaxGeneration,
               NEW support \in RegistrationSupport, register_buffer(b, e, a, r, g, support)
        PROVE  IdsAreIssued'
    <2>1. \E source \in IdSources : r \in issued'[source]
      BY <1>3, InputAssumption DEF register_buffer, IssueId, TypeOK
    <2>2. \A q \in RegistrationIds : q # r => registrations'[q] = registrations[q]
      BY <1>3 DEF register_buffer, TypeOK
    <2>3. QED
      BY <1>1, <2>1, <2>2 DEF IdsAreIssued, InUse
  <1>4. QED
    BY <1>2, <1>3, OnlyRegisterGrants, RevalidateFrame, RetireFrame DEF InUse

\* Every registration is stored under an id that a counter has given out.
LEMMA IssuedInvariant == Spec => []IdsAreIssued
  <1>1. Init => IdsAreIssued
    BY DEF Init, IdsAreIssued, InUse, NoRegistration
  <1>2. QED
    BY <1>1, IssuedStep, TypeCorrect, PTL DEF Spec

-------------------------------------------------------------------------------
(* ImplementsLease, if registration ids come from one counter. *)
OneIdSource == \A s, t \in IdSources : s = t

\* A pair that was ever registered has a newest registration, so that the
\* generation of the next grant is defined, and ids in use are issued.
LeaseInv ==
    /\ IdsAreIssued
    /\ \A b \in BufferIds, e \in EndpointIds :
          RegistrationsOf(b, e) # {} => Newest(RegistrationsOf(b, e)) # {}

\* All newest registrations of a pair have one generation, the last one.
LEMMA LastIsNewest ==
    ASSUME TypeOK, NEW b, NEW e, NEW r \in Newest(RegistrationsOf(b, e))
    PROVE  LastGeneration(b, e) = registrations[r].generation
  <1> DEFINE rs == RegistrationsOf(b, e)
             last == CHOOSE q \in Newest(rs) : TRUE
  <1>1. \A q \in rs : registrations[q].generation \in Nat
    BY DEF RegistrationsOf, TypeOK, Registration
  <1>2. r \in rs /\ \A q \in rs : registrations[q].generation <= registrations[r].generation
    BY DEF Newest
  <1>3. last \in Newest(rs)
    OBVIOUS
  <1> HIDE DEF last
  <1>4. last \in rs /\ \A q \in rs : registrations[q].generation <= registrations[last].generation
    BY <1>3 DEF Newest
  <1>5. registrations[last].generation = registrations[r].generation
    BY <1>1, <1>2, <1>4
  <1>6. LastGeneration(b, e) = registrations[last].generation
    BY <1>2 DEF LastGeneration, last
  <1>7. QED
    BY <1>5, <1>6

\* A step that leaves the registrations of a pair and their generations as
\* they are leaves its last generation as it is.
LEMMA LastFrame ==
    ASSUME NEW b, NEW e, RegistrationsOf(b, e)' = RegistrationsOf(b, e),
           RegistrationsOf(b, e) # {} => Newest(RegistrationsOf(b, e)) # {},
           \A r \in RegistrationsOf(b, e) :
              registrations'[r].generation = registrations[r].generation
    PROVE  /\ Newest(RegistrationsOf(b, e))' = Newest(RegistrationsOf(b, e))
           /\ LastGeneration(b, e)' = LastGeneration(b, e)
  <1> DEFINE rs == RegistrationsOf(b, e)
  <1>1. Newest(rs)' = {r \in rs' : \A q \in rs' :
                         registrations'[q].generation <= registrations'[r].generation}
    BY DEF Newest
  <1>2. Newest(rs) = {r \in rs : \A q \in rs :
                        registrations[q].generation <= registrations[r].generation}
    BY DEF Newest
  <1>3. Newest(rs)' = Newest(rs)
    BY <1>1, <1>2
  <1>4. LastGeneration(b, e)'
          = IF rs' = {} THEN 0 ELSE registrations'[CHOOSE r \in Newest(rs)' : TRUE].generation
    BY DEF LastGeneration
  <1>5. LastGeneration(b, e)
          = IF rs = {} THEN 0 ELSE registrations[CHOOSE r \in Newest(rs) : TRUE].generation
    BY DEF LastGeneration
  <1>6. CASE rs = {}
    BY <1>3, <1>4, <1>5, <1>6
  <1>7. CASE Newest(rs) # {}
    <2>1. (CHOOSE r \in Newest(rs) : TRUE) \in rs
      BY <1>2, <1>7
    <2>2. QED
      BY <1>3, <1>4, <1>5, <2>1
  <1>8. QED
    BY <1>6, <1>7

\* register_buffer adds a registration, strictly newer than all others of its
\* pair and one past the last generation, and leaves every other pair alone.
LEMMA RegisterEffect ==
    ASSUME OneIdSource, TypeOK, TypeOK', LeaseInv, OneActiveRegistration,
           NEW b \in BufferIds, NEW e \in EndpointIds, NEW a \in Authorities,
           NEW r \in RegistrationIds, NEW g \in 1..MaxGeneration,
           NEW support \in RegistrationSupport, register_buffer(b, e, a, r, g, support)
    PROVE  /\ \A q \in RegistrationIds : q # r => registrations'[q] = registrations[q]
           /\ \A x \in BufferIds, y \in EndpointIds :
                 <<x, y>> # <<b, e>> => /\ RegistrationsOf(x, y)' = RegistrationsOf(x, y)
                                        /\ r \notin RegistrationsOf(x, y)
           /\ RegistrationsOf(b, e)' = RegistrationsOf(b, e) \cup {r}
           /\ Newest(RegistrationsOf(b, e))' = {r}
           /\ LastGeneration(b, e)' = LastGeneration(b, e) + 1
           /\ \A q \in RegistrationsOf(b, e) : registrations[q].state # "REGISTERED"
           /\ registrations'[r].state = "REGISTERED"
  <1> DEFINE rs == RegistrationsOf(b, e)
  <1>1. /\ registrations'[r].buffer = b /\ registrations'[r].endpoint = e
        /\ registrations'[r].generation = g /\ registrations'[r].state = "REGISTERED"
        /\ \A q \in RegistrationIds : q # r => registrations'[q] = registrations[q]
    BY DEF register_buffer, TypeOK
  <1>2. registrations[r].buffer = Nil
    BY OverwritesAreCollisions DEF OneIdSource, LeaseInv, InUse
  <1>3. Nil \notin BufferIds
    BY IdAssumption
  <1>4. \A x \in BufferIds, y \in EndpointIds :
           <<x, y>> # <<b, e>> => /\ RegistrationsOf(x, y)' = RegistrationsOf(x, y)
                                  /\ r \notin RegistrationsOf(x, y)
    BY <1>1, <1>2, <1>3 DEF RegistrationsOf
  <1>5. rs' = rs \cup {r} /\ r \notin rs
    BY <1>1, <1>2, <1>3 DEF RegistrationsOf
  <1>6. \A q \in RegistrationIds : registrations[q].generation \in Nat
    BY DEF TypeOK, Registration
  <1>7. \A q \in rs : registrations[q].generation < g /\ q \in RegistrationIds
    BY <1>6 DEF register_buffer, IsNextGeneration, Newest, RegistrationsOf
  <1>8. Newest(rs)' = {r}
    <2>1. Newest(rs)' = {x \in rs \cup {r} : \A q \in rs \cup {r} :
                           registrations'[q].generation <= registrations'[x].generation}
      BY <1>5 DEF Newest
    <2>2. \A q \in rs : registrations'[q].generation < registrations'[r].generation
                        /\ registrations'[q].generation \in Nat
      BY <1>1, <1>5, <1>6, <1>7
    <2>3. registrations'[r].generation \in Nat
      BY <1>1
    <2>4. QED
      BY <2>1, <2>2, <2>3
  <1>9. LastGeneration(b, e)' = g
    <2>1. r \in Newest(rs)'
      BY <1>8
    <2>2. LastGeneration(b, e)' = registrations'[CHOOSE q \in Newest(rs)' : TRUE].generation
      BY <1>5 DEF LastGeneration
    <2>3. (CHOOSE q \in Newest(rs)' : TRUE) = r
      BY <1>8
    <2>4. QED
      BY <1>1, <2>2, <2>3
  <1>10. LastGeneration(b, e) = g - 1
    <2>1. CASE rs = {} /\ g = 1
      BY <2>1 DEF LastGeneration
    <2>2. CASE \E q \in Newest(rs) : g = registrations[q].generation + 1
      <3>1. PICK q \in Newest(rs) : g = registrations[q].generation + 1
        BY <2>2
      <3>2. q \in RegistrationIds
        BY <3>1 DEF Newest, RegistrationsOf
      <3>3. QED
        BY <1>6, <3>1, <3>2, LastIsNewest
    <2>3. QED
      BY <2>1, <2>2 DEF register_buffer, IsNextGeneration
  <1>11. \A q \in rs : registrations[q].state # "REGISTERED"
    <2>1. SUFFICES ASSUME NEW q \in rs, registrations[q].state = "REGISTERED" PROVE FALSE
      OBVIOUS
    <2>2. q \in Newest(rs)
      BY <1>6, <2>1 DEF Newest, RegistrationsOf, OneActiveRegistration
    <2>3. QED
      BY <2>1, <2>2 DEF register_buffer, PairIsFree
  <1>12. LastGeneration(b, e)' = LastGeneration(b, e) + 1
    BY <1>9, <1>10
  <1>13. QED
    BY <1>1, <1>4, <1>5, <1>8, <1>11, <1>12

\* Any other step keeps pair and generation of every registration and makes
\* none active.
LEMMA OtherSteps ==
    ASSUME TypeOK, [Next]_vars,
           ~\E b \in BufferIds, e \in EndpointIds, a \in Authorities, r \in RegistrationIds,
               g \in 1..MaxGeneration, support \in RegistrationSupport :
               register_buffer(b, e, a, r, g, support)
    PROVE  \A r \in RegistrationIds :
              /\ SameBinding(r)
              /\ registrations'[r].state = "REGISTERED" => registrations[r].state = "REGISTERED"
  BY OnlyRegisterGrants, RevalidateFrame, RetireFrame DEF SameBinding

\* Every step keeps the invariant of leases.
LEMMA LeaseInvStep ==
    ASSUME OneIdSource
    PROVE  TypeOK /\ TypeOK' /\ OneActiveRegistration /\ LeaseInv /\ [Next]_vars => LeaseInv'
  <1> SUFFICES ASSUME TypeOK, TypeOK', OneActiveRegistration, LeaseInv, [Next]_vars
               PROVE  LeaseInv'
    OBVIOUS
  <1>1. IdsAreIssued'
    BY IssuedStep DEF LeaseInv
  <1> SUFFICES ASSUME NEW x \in BufferIds, NEW y \in EndpointIds, RegistrationsOf(x, y)' # {}
               PROVE  Newest(RegistrationsOf(x, y))' # {}
    BY <1>1 DEF LeaseInv
  <1>2. RegistrationsOf(x, y) # {} => Newest(RegistrationsOf(x, y)) # {}
    BY DEF LeaseInv
  <1>3. ASSUME NEW b \in BufferIds, NEW e \in EndpointIds, NEW a \in Authorities,
               NEW r \in RegistrationIds, NEW g \in 1..MaxGeneration,
               NEW support \in RegistrationSupport, register_buffer(b, e, a, r, g, support)
        PROVE  Newest(RegistrationsOf(x, y))' # {}
    <2>1. CASE <<x, y>> = <<b, e>>
      BY <1>3, <2>1, RegisterEffect
    <2>2. CASE <<x, y>> # <<b, e>>
      <3>1. /\ RegistrationsOf(x, y)' = RegistrationsOf(x, y)
            /\ \A q \in RegistrationsOf(x, y) : registrations'[q] = registrations[q]
        BY <1>3, <2>2, RegisterEffect DEF RegistrationsOf
      <3>2. QED
        BY <1>2, <3>1, LastFrame
    <2>3. QED
      BY <2>1, <2>2
  <1>4. CASE \A r \in RegistrationIds : SameBinding(r)
    <2>1. /\ RegistrationsOf(x, y)' = RegistrationsOf(x, y)
          /\ \A q \in RegistrationsOf(x, y) :
                registrations'[q].generation = registrations[q].generation
      BY <1>4 DEF RegistrationsOf, SameBinding
    <2>2. QED
      BY <1>2, <2>1, LastFrame
  <1>5. QED
    BY <1>3, <1>4, OtherSteps

\* The inductive invariant of leases.
LEMMA LeaseInvariant ==
    ASSUME OneIdSource
    PROVE  Spec => []LeaseInv
  <1>1. Init => LeaseInv
    BY IdAssumption DEF Init, LeaseInv, IdsAreIssued, InUse, RegistrationsOf, NoRegistration
  <1>2. QED
    BY <1>1, LeaseInvStep, TypeCorrect, RegistrationsStayUnique, PTL DEF Spec

\* register_buffer is a grant of its pair; every other step can only take
\* leases away.
LEMMA StepLease ==
    ASSUME OneIdSource
    PROVE  TypeOK /\ TypeOK' /\ OneActiveRegistration /\ LeaseInv /\ [Next]_vars
             => [Lease!Next]_(Lease!leaseVars)
  <1> SUFFICES ASSUME TypeOK, TypeOK', OneActiveRegistration, LeaseInv, [Next]_vars
               PROVE  Lease!Next
    OBVIOUS
  <1> DEFINE Pairs == BufferIds \X EndpointIds
             generation == [x \in Pairs |-> LastGeneration(x[1], x[2])]
             held == {x \in Pairs : \E r \in RegistrationsOf(x[1], x[2]) :
                                       registrations[r].state = "REGISTERED"}
  <1>1. ASSUME NEW b \in BufferIds, NEW e \in EndpointIds, NEW a \in Authorities,
               NEW r \in RegistrationIds, NEW g \in 1..MaxGeneration,
               NEW support \in RegistrationSupport, register_buffer(b, e, a, r, g, support)
        PROVE  Lease!Grant(<<b, e>>)
    <2>1. <<b, e>> \in Pairs /\ <<b, e>> \notin held
      BY <1>1, RegisterEffect
    <2>2. ASSUME NEW x \in Pairs, x # <<b, e>>
          PROVE  /\ LastGeneration(x[1], x[2])' = LastGeneration(x[1], x[2])
                 /\ x \in held' <=> x \in held
      <3>1. /\ RegistrationsOf(x[1], x[2])' = RegistrationsOf(x[1], x[2])
            /\ \A q \in RegistrationsOf(x[1], x[2]) : registrations'[q] = registrations[q]
        BY <1>1, <2>2, RegisterEffect DEF RegistrationsOf
      <3>2. RegistrationsOf(x[1], x[2]) # {} => Newest(RegistrationsOf(x[1], x[2])) # {}
        BY DEF LeaseInv
      <3>3. LastGeneration(x[1], x[2])' = LastGeneration(x[1], x[2])
        BY <3>1, <3>2, LastFrame
      <3>4. QED
        BY <3>1, <3>3
    <2>3. LastGeneration(b, e)' = LastGeneration(b, e) + 1 /\ <<b, e>> \in held'
      BY <1>1, RegisterEffect
    <2>4. held' = held \cup {<<b, e>>}
      BY <2>1, <2>2, <2>3
    <2>5. generation' = [generation EXCEPT ![<<b, e>>] = @ + 1]
      <3>1. generation[<<b, e>>] = LastGeneration(b, e)
        BY <2>1
      <3>2. [generation EXCEPT ![<<b, e>>] = @ + 1]
              = [x \in Pairs |-> IF x = <<b, e>> THEN LastGeneration(b, e) + 1
                                               ELSE LastGeneration(x[1], x[2])]
        BY <2>1, <3>1
      <3>3. generation' = [x \in Pairs |-> LastGeneration(x[1], x[2])']
        OBVIOUS
      <3>4. \A x \in Pairs : x = <<b, e>> => LastGeneration(x[1], x[2])' = LastGeneration(b, e)'
        BY DEF LastGeneration, RegistrationsOf
      <3>5. \A x \in Pairs :
               LastGeneration(x[1], x[2])' = IF x = <<b, e>> THEN LastGeneration(b, e) + 1
                                                          ELSE LastGeneration(x[1], x[2])
        BY <2>2, <2>3, <3>4
      <3>6. QED
        BY <3>2, <3>3, <3>5
    <2>6. QED
      BY <2>1, <2>4, <2>5 DEF Lease!Grant
  <1>2. ASSUME \A r \in RegistrationIds :
                  /\ SameBinding(r)
                  /\ registrations'[r].state = "REGISTERED" => registrations[r].state = "REGISTERED"
        PROVE  Lease!Revoke
    <2>1. ASSUME NEW x \in Pairs
          PROVE  /\ LastGeneration(x[1], x[2])' = LastGeneration(x[1], x[2])
                 /\ RegistrationsOf(x[1], x[2])' = RegistrationsOf(x[1], x[2])
      <3>1. /\ RegistrationsOf(x[1], x[2])' = RegistrationsOf(x[1], x[2])
            /\ \A q \in RegistrationsOf(x[1], x[2]) :
                  registrations'[q].generation = registrations[q].generation
        BY <1>2 DEF RegistrationsOf, SameBinding
      <3>2. RegistrationsOf(x[1], x[2]) # {} => Newest(RegistrationsOf(x[1], x[2])) # {}
        BY DEF LeaseInv
      <3>3. QED
        BY <3>1, <3>2, LastFrame
    <2>2. generation' = generation
      BY <2>1
    <2>3. held' \subseteq held
      BY <1>2, <2>1 DEF RegistrationsOf
    <2>4. QED
      BY <2>2, <2>3 DEF Lease!Revoke
  <1>3. QED
    BY <1>1, <1>2, OtherSteps DEF Lease!Next

\* For every pair there is one lease: it is granted only while it is not
\* held, every grant carries the next generation, and no death, epoch,
\* generation change or retirement gives one out - provided that all
\* registration ids come from one counter: callers pass a backend always or never.
THEOREM RegistrationsImplementLease ==
    ASSUME OneIdSource
    PROVE  Spec => ImplementsLease
  <1>1. Init => Lease!Init
    BY IdAssumption
    DEF Init, Lease!Init, LastGeneration, RegistrationsOf, NoRegistration
  <1>2. QED
    BY <1>1, StepLease, TypeCorrect, RegistrationsStayUnique, LeaseInvariant, PTL
    DEF Spec, ImplementsLease, Lease!Spec
===============================================================================
