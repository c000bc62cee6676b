--------------------------- MODULE PersistenceProofs ---------------------------
(***************************************************************************)
(* The coordinator with its state file: what deaths and restarts of the    *)
(* process cannot break, for every number of records and of restarts.      *)
(***************************************************************************)
EXTENDS Persistence, PlanProofs

-------------------------------------------------------------------------------
(* What the registries owe each other, so that a file written from them is *)
(* closed under references.                                                *)

\* An id that is not in use has the empty record, so that no invalidation
\* can bring it to life.
EmptyIds ==
    \A r \in RegistrationIds : registrations[r].state = "NONE" => registrations[r] = NoRegistration

\* A registration, active or not, is of a buffer and an endpoint that exist.
RegistrationKnown ==
    \A r \in RegistrationIds :
        LET reg == registrations[r] IN
        reg.state # "NONE" =>
          /\ reg.buffer \in BufferIds /\ buffers[reg.buffer].lifecycle # "NONE"
          /\ reg.endpoint \in EndpointIds /\ endpoints[reg.endpoint].present

\* A plan names a registration that exists.
BindingKnown ==
    \A p \in PlanIds :
        plans[p].registration_id # Nil => registrations[plans[p].registration_id].state # "NONE"

References == EmptyIds /\ RegistrationKnown /\ BindingKnown

\* An invalidation that leaves unused ids alone keeps pairs and existence.
LEMMA RevalidateUsed ==
    ASSUME TypeOK, NEW rs, \A r \in RegistrationIds : r \in rs => registrations[r].state # "NONE"
    PROVE  \A r \in RegistrationIds :
              /\ registrations[r].state = "NONE" => Revalidate(rs)[r] = registrations[r]
              /\ registrations[r].state # "NONE" =>
                    /\ Revalidate(rs)[r].state # "NONE"
                    /\ Revalidate(rs)[r].buffer = registrations[r].buffer
                    /\ Revalidate(rs)[r].endpoint = registrations[r].endpoint
  BY DEF Revalidate, TypeOK, Registration

\* Retiring a registration that exists does so, too.
LEMMA RetireUsed ==
    ASSUME TypeOK, NEW x \in RegistrationIds, registrations[x].state # "NONE"
    PROVE  \A r \in RegistrationIds :
              /\ registrations[r].state = "NONE" => Retire(x)[r] = registrations[r]
              /\ registrations[r].state # "NONE" =>
                    /\ Retire(x)[r].state # "NONE"
                    /\ Retire(x)[r].buffer = registrations[r].buffer
                    /\ Retire(x)[r].endpoint = registrations[r].endpoint
  BY DEF Retire, TypeOK, Registration

\* Only register_buffer brings a registration to life, and nothing erases one.
KeepsRegistrations ==
    \A r \in RegistrationIds :
        /\ registrations[r].state = "NONE" => registrations'[r] = registrations[r]
        /\ registrations[r].state # "NONE" =>
              /\ registrations'[r].state # "NONE"
              /\ registrations'[r].buffer = registrations[r].buffer
              /\ registrations'[r].endpoint = registrations[r].endpoint

\* Every operation but register_buffer keeps what registrations there are.
LEMMA RegistrationsKept ==
    ASSUME TypeOK, EmptyIds, [Next]_vars
    PROVE  \/ \E b \in BufferIds, e \in EndpointIds, a \in Authorities, r \in RegistrationIds,
                 g \in 1..MaxGeneration, support \in RegistrationSupport :
                 register_buffer(b, e, a, r, g, support)
           \/ KeepsRegistrations
  <1> USE DEF vars, workerVars, inventoryVars, transferVars
  <1>1. CASE UNCHANGED registrations
    BY <1>1 DEF KeepsRegistrations
  <1>2. ASSUME NEW rs, \A r \in RegistrationIds : r \in rs => registrations[r].state # "NONE",
               registrations' = Revalidate(rs)
        PROVE  KeepsRegistrations
    BY <1>2, RevalidateUsed DEF KeepsRegistrations
  <1>3. ASSUME NEW x \in RegistrationIds, registrations[x].state # "NONE",
               registrations' = Retire(x)
        PROVE  KeepsRegistrations
    BY <1>3, RetireUsed DEF KeepsRegistrations
  <1>4. /\ NoRegistration.buffer = Nil /\ NoRegistration.endpoint = Nil
        /\ NoRegistration.authority.worker = Nil
    BY DEF NoRegistration, coordinator_authority
  <1>5. CASE WorkerOperation
    <2>1. ASSUME NEW w \in Workers, mark_worker_dead(w) PROVE KeepsRegistrations
      <3>1. \A r \in RegistrationIds : r \in OwnedBy(w) => registrations[r].state # "NONE"
        BY <1>4, NilIsNoWorker DEF OwnedBy, EmptyIds
      <3>2. QED
        BY <1>2, <2>1, <3>1 DEF mark_worker_dead
    <2>2. CASE advance_epoch
      BY <1>2, <2>2 DEF advance_epoch
    <2>3. QED
      BY <1>1, <1>5, <2>1, <2>2 DEF WorkerOperation, set_limits, register_worker
  <1>6. ASSUME NEW b \in BufferIds,
               registrations' = Revalidate({r \in RegistrationIds : registrations[r].buffer = b})
        PROVE  KeepsRegistrations
    BY <1>2, <1>4, <1>6, IdAssumption DEF EmptyIds
  <1>7. ASSUME NEW e \in EndpointIds,
               registrations' = Revalidate({r \in RegistrationIds : registrations[r].endpoint = e})
        PROVE  KeepsRegistrations
    BY <1>2, <1>4, <1>7, IdAssumption DEF EmptyIds
  <1>8. CASE BufferOperation
    BY <1>1, <1>6, <1>8 DEF BufferOperation, create_buffer, advance_buffer_generation,
                            retire_buffer, invalidate_buffer_dependents
  <1>9. CASE InventoryOperation
    BY <1>1, <1>7, <1>9 DEF InventoryOperation, add_device, add_endpoint,
       advance_endpoint_generation, set_endpoint_health, add_provider, publish_capability,
       revoke_capability, invalidate_endpoint_dependents
  <1>10. CASE RegistrationOperation
    BY <1>3, <1>10 DEF RegistrationOperation, deregister_orphan, deregister_buffer
  <1>11. QED
    BY <1>1, <1>5, <1>8, <1>9, <1>10, Frames DEF Next

\* Every operation keeps references inside the registries.
LEMMA ReferencesStep ==
    TypeOK /\ PlanKnown /\ References /\ [Next]_vars => References'
  <1> SUFFICES ASSUME TypeOK, PlanKnown, References, [Next]_vars PROVE References'
    OBVIOUS
  <1> USE DEF References
  <1>1. KeepsReferences
    BY ReferencesKept
  <1>2. ASSUME NEW b \in BufferIds, NEW e \in EndpointIds, NEW a \in Authorities,
               NEW r \in RegistrationIds, NEW g \in 1..MaxGeneration,
               NEW support \in RegistrationSupport, register_buffer(b, e, a, r, g, support)
        PROVE  References'
    <2>1. /\ registrations'[r].buffer = b /\ registrations'[r].endpoint = e
          /\ registrations'[r].state = "REGISTERED"
          /\ \A q \in RegistrationIds : q # r => registrations'[q] = registrations[q]
          /\ UNCHANGED plans
      BY <1>2 DEF register_buffer, TypeOK
    <2>2. buffers[b].lifecycle # "NONE" /\ endpoints[e].present
      BY <1>2 DEF register_buffer
    <2>3. EmptyIds'
      BY <2>1 DEF EmptyIds
    <2>4. RegistrationKnown'
      BY <1>1, <2>1, <2>2 DEF RegistrationKnown, KeepsReferences
    <2>5. BindingKnown'
      BY <2>1 DEF BindingKnown, TypeOK, TransferPlan
    <2>6. QED
      BY <2>3, <2>4, <2>5
  <1>3. CASE KeepsRegistrations
    <2>1. EmptyIds'
      BY <1>3 DEF EmptyIds, KeepsRegistrations
    <2>2. RegistrationKnown'
      BY <1>1, <1>3 DEF RegistrationKnown, KeepsRegistrations, KeepsReferences
    <2>3. ASSUME NEW p \in PlanIds, plans'[p].registration_id = plans[p].registration_id,
                 plans'[p].registration_id # Nil
          PROVE  registrations'[plans'[p].registration_id].state # "NONE"
      <3>1. plans[p].registration_id \in RegistrationIds
        BY <2>3 DEF TypeOK, TransferPlan
      <3>2. QED
        BY <1>3, <2>3, <3>1 DEF BindingKnown, KeepsRegistrations
    <2>4. ASSUME NEW c \in Callers, NEW p \in PlanIds, NEW s \in BufferIds \cup {Nil},
                 plan_transfer(c, p, s)
          PROVE  BindingKnown'
      <3>1. plans'[p].registration_id # Nil =>
               registrations'[plans'[p].registration_id].state = "REGISTERED"
        <4>1. UNCHANGED registrations
          BY <2>4 DEF plan_transfer
        <4>2. plans'[p].registration_id # Nil => plans'[p].registration_id \in Active(pending[c])
          BY <2>4, CommittedPlan
        <4>3. QED
          BY <4>1, <4>2 DEF Active
      <3>2. \A q \in PlanIds : q # p => plans'[q] = plans[q]
        BY <2>4, CommittedPlan
      <3>3. QED
        BY <2>3, <3>1, <3>2 DEF BindingKnown
    <2>5. ASSUME NEW ps, plans' = Supersede(ps) PROVE BindingKnown'
      BY <2>3, <2>5, SupersedeFrame DEF BindingKnown
    <2>6. ASSUME UNCHANGED plans PROVE BindingKnown'
      BY <2>3, <2>6 DEF BindingKnown
    <2>7. BindingKnown'
      BY <2>4, <2>5, <2>6, OnlyPlanTransferCommits
    <2>8. QED
      BY <2>1, <2>2, <2>7
  <1>4. QED
    BY <1>2, <1>3, RegistrationsKept

-------------------------------------------------------------------------------
(* The live registries and the contents of a file. *)

\* The invariant of a process, running or just recovered.
LiveInv == TypeOK /\ IncarnationFence /\ PlanKnown /\ PlanFence /\ References

\* Every operation keeps it.
LEMMA LiveStep == LiveInv /\ [Next]_vars => LiveInv'
  BY TypeStep, FenceStep, PlanFenceStep, ReferencesStep DEF LiveInv

\* The first process has it, whatever it was seeded with.
LEMMA LiveInit == Seeded => LiveInv
  <1> SUFFICES ASSUME Seeded PROVE LiveInv
    OBVIOUS
  <1>1. TypeOK
    BY EmptyRecords DEF Seeded, TypeOK, NoBoot
  <1>2. IncarnationFence
    BY DEF Seeded, IncarnationFence, NoRegistration
  <1>3. PlanKnown /\ PlanFence
    BY DEF Seeded, PlanKnown, PlanFence, NoPlan
  <1>4. References
    BY DEF Seeded, References, EmptyIds, RegistrationKnown, BindingKnown, NoRegistration, NoPlan
  <1>5. QED
    BY <1>1, <1>2, <1>3, <1>4 DEF LiveInv

\* An empty start is one of them.
LEMMA EmptyIsSeeded == Init => Seeded
  BY EmptyRecords DEF Init, Seeded

ImageRecord ==
    [epoch : Nat, next_id : SUBSET RegistrationIds,
     buffers : [BufferIds -> BufferRecord], devices : SUBSET DeviceIds,
     endpoints : [EndpointIds -> EndpointRecord],
     providers : SUBSET [name : STRING, available : BOOLEAN, support : Support],
     capabilities : SUBSET Capability,
     registrations : [RegistrationIds -> Registration],
     plans : [PlanIds -> TransferPlan]]

\* What holds of every file: records of their types, and the references of
\* the process that wrote it.
Sound(image) ==
    /\ image \in ImageRecord
    /\ \A r \in RegistrationIds :
          LET reg == image.registrations[r] IN
          /\ reg.state = "NONE" => reg = NoRegistration
          /\ reg.state # "NONE" =>
                /\ reg.buffer \in BufferIds /\ image.buffers[reg.buffer].lifecycle # "NONE"
                /\ reg.endpoint \in EndpointIds /\ image.endpoints[reg.endpoint].present
    /\ \A p \in PlanIds :
          LET plan == image.plans[p] IN
          /\ plan.eligibility = "NONE" => plan.registration_id = Nil
          /\ plan.eligibility # "NONE" =>
                /\ plan.source \in BufferIds /\ image.buffers[plan.source].lifecycle # "NONE"
                /\ plan.destination \in EndpointIds /\ image.endpoints[plan.destination].present
          /\ plan.registration_id # Nil =>
                image.registrations[plan.registration_id].state # "NONE"

\* A sound image is closed under references.
LEMMA SoundIsClosed == \A image : Sound(image) => Closed(image)
  BY DEF Sound, Closed

\* What is saved of a record.
LEMMA SavedRecords ==
    ASSUME TypeOK
    PROVE  /\ \A b \in BufferIds :
                /\ SavedBuffer(buffers[b]) \in BufferRecord
                /\ SavedBuffer(buffers[b]).lifecycle = buffers[b].lifecycle
                /\ SavedBuffer(buffers[b]).generation = buffers[b].generation
           /\ \A e \in EndpointIds :
                /\ SavedEndpoint(endpoints[e]) \in EndpointRecord
                /\ SavedEndpoint(endpoints[e]).present = endpoints[e].present
                /\ SavedEndpoint(endpoints[e]).generation = endpoints[e].generation
           /\ \A p \in PlanIds :
                /\ SavedPlan(plans[p]) \in TransferPlan
                /\ SavedPlan(plans[p]).eligibility = plans[p].eligibility
                /\ SavedPlan(plans[p]).source = plans[p].source
                /\ SavedPlan(plans[p]).destination = plans[p].destination
                /\ SavedPlan(plans[p]).registration_id = plans[p].registration_id
  <1>1. coordinator_authority \in AuthorityRecord
    BY DEF coordinator_authority, AuthorityRecord
  <1>2. ASSUME NEW b \in BufferIds
        PROVE  /\ SavedBuffer(buffers[b]) \in BufferRecord
               /\ SavedBuffer(buffers[b]).lifecycle = buffers[b].lifecycle
               /\ SavedBuffer(buffers[b]).generation = buffers[b].generation
    <2>1. buffers[b] \in BufferRecord
      BY DEF TypeOK
    <2>2. QED
      BY <1>1, <2>1 DEF SavedBuffer, BufferRecord
  <1>3. ASSUME NEW e \in EndpointIds
        PROVE  /\ SavedEndpoint(endpoints[e]) \in EndpointRecord
               /\ SavedEndpoint(endpoints[e]).present = endpoints[e].present
               /\ SavedEndpoint(endpoints[e]).generation = endpoints[e].generation
    <2>1. endpoints[e] \in EndpointRecord
      BY DEF TypeOK
    <2>2. QED
      BY <1>1, <2>1 DEF SavedEndpoint, EndpointRecord
  <1>4. ASSUME NEW p \in PlanIds
        PROVE  /\ SavedPlan(plans[p]) \in TransferPlan
               /\ SavedPlan(plans[p]).eligibility = plans[p].eligibility
               /\ SavedPlan(plans[p]).source = plans[p].source
               /\ SavedPlan(plans[p]).destination = plans[p].destination
               /\ SavedPlan(plans[p]).registration_id = plans[p].registration_id
    <2>1. plans[p] \in TransferPlan
      BY DEF TypeOK
    <2>2. QED
      BY <2>1 DEF SavedPlan, TransferPlan
  <1>5. QED
    BY <1>2, <1>3, <1>4

\* What a save that excludes other operations writes is sound.
LEMMA ImageIsSound == LiveInv => Sound(Image)
  <1> SUFFICES ASSUME LiveInv PROVE Sound(Image)
    OBVIOUS
  <1> USE DEF LiveInv
  <1>1. Image \in ImageRecord
    <2>1. issued["coordinator"] \in SUBSET RegistrationIds
      BY DEF TypeOK, IdSource
    <2>2. QED
      BY <2>1, SavedRecords DEF Image, ImageRecord, TypeOK
  <1>2. /\ Image.registrations = registrations
        /\ Image.buffers = [b \in BufferIds |-> SavedBuffer(buffers[b])]
        /\ Image.endpoints = [e \in EndpointIds |-> SavedEndpoint(endpoints[e])]
        /\ Image.plans = [p \in PlanIds |-> SavedPlan(plans[p])]
    BY DEF Image
  <1>3. /\ \A b \in BufferIds : Image.buffers[b].lifecycle = buffers[b].lifecycle
        /\ \A e \in EndpointIds : Image.endpoints[e].present = endpoints[e].present
        /\ \A p \in PlanIds :
              /\ Image.plans[p].eligibility = plans[p].eligibility
              /\ Image.plans[p].source = plans[p].source
              /\ Image.plans[p].destination = plans[p].destination
              /\ Image.plans[p].registration_id = plans[p].registration_id
    BY <1>2, SavedRecords
  <1> HIDE DEF LiveInv
  <1>4. EmptyIds /\ RegistrationKnown /\ BindingKnown /\ PlanKnown
    BY DEF LiveInv, References
  <1>5. QED
    BY <1>1, <1>2, <1>3, <1>4 DEF Sound, EmptyIds, RegistrationKnown, BindingKnown, PlanKnown

\* A process that starts from a sound file, with every registration to be
\* revalidated and every plan superseded, has the invariant again.
LEMMA RecoveredIsLive ==
    ASSUME NEW image, Sound(image), Load(Recovered(image))
    PROVE  LiveInv'
  <1>1. image \in ImageRecord
    BY DEF Sound
  <1>2. /\ epoch' = image.epoch /\ buffers' = image.buffers /\ endpoints' = image.endpoints
        /\ devices' = image.devices /\ providers' = image.providers
        /\ issued' = [source \in IdSource |-> IF source = "coordinator" THEN image.next_id ELSE {}]
        /\ capabilities' = image.capabilities
        /\ registrations'
             = [r \in RegistrationIds |-> RecoveredRegistration(image.registrations[r])]
        /\ plans' = [p \in PlanIds |->
             IF p \in PlansRead(image) THEN RecoveredPlan(image.plans[p]) ELSE NoPlan]
    BY <1>1 DEF Load, Recovered, ImageRecord
  <1>3. ASSUME NEW r \in RegistrationIds
        PROVE  /\ registrations'[r] \in Registration
               /\ registrations'[r].state # "REGISTERED"
               /\ registrations'[r].state = "NONE" <=> image.registrations[r].state = "NONE"
               /\ registrations'[r].state = "NONE" => registrations'[r] = image.registrations[r]
               /\ registrations'[r].buffer = image.registrations[r].buffer
               /\ registrations'[r].endpoint = image.registrations[r].endpoint
    <2>1. image.registrations[r] \in Registration
      BY <1>1 DEF ImageRecord
    <2>2. QED
      BY <1>2, <2>1 DEF RecoveredRegistration, Registration
  <1>4. ASSUME NEW p \in PlanIds
        PROVE  /\ plans'[p] \in TransferPlan
               /\ ~plans'[p].authoritative
               /\ plans'[p].registration_id \in {Nil, image.plans[p].registration_id}
               /\ plans'[p].eligibility = "NONE" =>
                     \/ plans'[p] = NoPlan
                     \/ /\ image.plans[p].eligibility = "NONE"
                        /\ plans'[p].registration_id = image.plans[p].registration_id
               /\ plans'[p].eligibility # "NONE" =>
                     /\ image.plans[p].eligibility # "NONE"
                     /\ plans'[p].source = image.plans[p].source
                     /\ plans'[p].destination = image.plans[p].destination
    <2>1. image.plans[p] \in TransferPlan
      BY <1>1 DEF ImageRecord
    <2>2. CASE p \in PlansRead(image)
      <3>1. plans'[p] = RecoveredPlan(image.plans[p])
        BY <1>2, <2>2
      <3>2. QED
        BY <2>1, <3>1 DEF RecoveredPlan, TransferPlan
    <2>3. CASE p \notin PlansRead(image)
      <3>1. plans'[p] = NoPlan
        BY <1>2, <2>3
      <3>2. QED
        BY <3>1, EmptyRecords DEF NoPlan
    <2>4. QED
      BY <2>2, <2>3
  <1>5. TypeOK'
    <2>1. /\ epoch' \in Nat /\ buffers' \in [BufferIds -> BufferRecord]
          /\ endpoints' \in [EndpointIds -> EndpointRecord] /\ devices' \subseteq DeviceIds
          /\ providers' \subseteq [name : STRING, available : BOOLEAN, support : Support]
          /\ capabilities' \subseteq Capability
          /\ issued' \in [IdSource -> SUBSET RegistrationIds]
      BY <1>1, <1>2 DEF ImageRecord
    <2>2. /\ registrations' \in [RegistrationIds -> Registration]
          /\ plans' \in [PlanIds -> TransferPlan]
      BY <1>2, <1>3, <1>4
    <2>3. /\ workers' \in [Workers -> Nat \cup {NoBoot}]
          /\ worker_max_boot' \in [Workers -> Nat \cup {NoBoot}]
          /\ limits' \in LimitSettings
          /\ attempts' \in [AttemptIds -> TransferAttempt]
          /\ receipts' \in [AttemptIds -> TransferReceipt]
          /\ verifications' \subseteq VerificationReceipt
          /\ pending' \in [Callers -> Decision]
      BY EmptyRecords, PersistenceAssumption DEF Load
    <2>4. QED
      BY <2>1, <2>2, <2>3 DEF TypeOK
  <1>6. IncarnationFence'
    BY <1>3 DEF IncarnationFence, Load
  <1>7. PlanFence'
    BY <1>4 DEF PlanFence
  <1>8. PlanKnown'
    <2>1. NoPlan.registration_id = Nil
      BY DEF NoPlan
    <2>2. \A p \in PlanIds :
             /\ image.plans[p].eligibility = "NONE" => image.plans[p].registration_id = Nil
             /\ image.plans[p].eligibility # "NONE" =>
                   /\ image.plans[p].source \in BufferIds
                   /\ buffers'[image.plans[p].source].lifecycle # "NONE"
                   /\ image.plans[p].destination \in EndpointIds
                   /\ endpoints'[image.plans[p].destination].present
      BY <1>2 DEF Sound
    <2>3. QED
      BY <1>4, <2>1, <2>2 DEF PlanKnown
  <1>9. EmptyIds' /\ RegistrationKnown'
    BY <1>2, <1>3 DEF EmptyIds, RegistrationKnown, Sound
  <1>10. BindingKnown'
    <2> SUFFICES ASSUME NEW p \in PlanIds, plans'[p].registration_id # Nil
                 PROVE  registrations'[plans'[p].registration_id].state # "NONE"
      BY DEF BindingKnown
    <2>1. plans'[p].registration_id = image.plans[p].registration_id
      BY <1>4
    <2>2. image.plans[p].registration_id \in RegistrationIds
      BY <1>1, <2>1 DEF ImageRecord, TransferPlan
    <2>3. image.registrations[image.plans[p].registration_id].state # "NONE"
      BY <2>1 DEF Sound
    <2>4. QED
      BY <1>3, <2>1, <2>2, <2>3
  <1>11. QED
    BY <1>5, <1>6, <1>7, <1>8, <1>9, <1>10 DEF LiveInv, References

-------------------------------------------------------------------------------
(* The inductive invariant of process and file. *)

Saving(s, n, image) == [step |-> s, read |-> n, image |-> image]

\* A save runs only in a running process and, once it has read the
\* registries, holds what they still contain.
SaverInv ==
    \/ saver = Idle
    \/ /\ phase = "RUNNING"
       /\ saver \in {Saving("READ", 0, EmptyImage), Saving("WRITE", 9, Image),
                     Saving("REPLACE", 9, Image)}

FileInv == file = Absent \/ \E image : Sound(image) /\ file = Complete(image)

\* Tokens of the past are of an epoch that is on disk, and a process that
\* serves is past that epoch; before it serves no worker is connected.
PastInv ==
    /\ phase \in {"RUNNING", "DOWN", "RECOVERED"}
    /\ phase # "RUNNING" => workers = [w \in Workers |-> NoBoot]
    /\ phase = "RECOVERED" => Intact(file) /\ epoch = file.image.epoch
    /\ \A a \in past :
          /\ a.worker \in Workers /\ a.boot \in Nat /\ a.epoch \in Nat
          /\ Intact(file) /\ a.epoch <= file.image.epoch
          /\ phase = "RUNNING" => a.epoch < epoch

DurableInv == LiveInv /\ SaverInv /\ FileInv /\ PastInv

\* What Intact and the image of a file are.
LEMMA FileForms ==
    /\ ~Intact(Absent)
    /\ \A image : Intact(Complete(image)) /\ Complete(image).image = image
                  /\ Complete(image) # Absent
  BY DEF Intact, Absent, Complete

\* A file that is intact is complete and sound.
LEMMA FileIsSound ==
    ASSUME FileInv, Intact(file)
    PROVE  file = Complete(file.image) /\ Sound(file.image) /\ file.image.epoch \in Nat
  <1>1. PICK image : Sound(image) /\ file = Complete(image)
    BY FileForms DEF FileInv
  <1>2. file.image = image
    BY <1>1, FileForms
  <1>3. image.epoch \in Nat
    BY <1>1 DEF Sound, ImageRecord
  <1>4. QED
    BY <1>1, <1>2, <1>3

\* Reading all sections at once reads the image.
LEMMA ReadsAll ==
    ASSUME saver = Saving("READ", 0, EmptyImage), read_sections(Len(Sections))
    PROVE  saver' = Saving("WRITE", 9, Image)
  <1>1. Len(Sections) = 9
    BY DEF Sections
  <1>2. saver.read = 0 /\ saver.image = EmptyImage
    BY DEF Saving
  <1>3. DOMAIN EmptyImage = {"epoch", "next_id", "buffers", "devices", "endpoints",
                             "providers", "capabilities", "registrations", "plans"}
    BY DEF EmptyImage
  <1>4. \A s \in DOMAIN EmptyImage : \E i \in 1..9 : Sections[i] = s
    BY <1>3 DEF Sections
  <1>5. saver' = [step |-> "WRITE", read |-> 9,
                  image |-> [s \in DOMAIN EmptyImage |->
                               IF \E i \in 1..9 : Sections[i] = s
                               THEN Image[s] ELSE EmptyImage[s]]]
    BY <1>1, <1>2 DEF read_sections
  <1>6. [s \in DOMAIN EmptyImage |->
           IF \E i \in 1..9 : Sections[i] = s THEN Image[s] ELSE EmptyImage[s]]
          = [s \in DOMAIN EmptyImage |-> Image[s]]
    BY <1>4
  <1>7. [s \in DOMAIN EmptyImage |-> Image[s]] = Image
    BY <1>3 DEF Image
  <1>8. QED
    BY <1>5, <1>6, <1>7 DEF Saving

\* A process that lost its memory is as a new one.
LEMMA EmptyLoad == Load(EmptyImage) => Init'
  BY PersistenceAssumption DEF Load, EmptyImage, Init

\* The steps of a save that only move the save.
LEMMA SaverStep ==
    ASSUME DurableInv, UNCHANGED <<vars, phase, file, past>>, SaverInv'
    PROVE  DurableInv'
  <1> USE DEF vars, workerVars, inventoryVars, transferVars
  <1>1. UNCHANGED vars /\ LiveInv
    BY DEF DurableInv
  <1>2. LiveInv'
    BY <1>1, LiveStep
  <1>3. FileInv'
    BY DEF DurableInv, FileInv
  <1>4. PastInv'
    BY DEF DurableInv, PastInv
  <1>5. QED
    BY <1>2, <1>3, <1>4 DEF DurableInv

\* An operation of the running process, outside of a save.
LEMMA OperateStep ==
    ASSUME DurableInv, saver = Idle, Operate
    PROVE  DurableInv'
  <1>1. LiveInv /\ Next /\ phase = "RUNNING" /\ UNCHANGED <<phase, saver, file, past>>
    BY DEF DurableInv, Operate, diskVars
  <1>2. LiveInv'
    BY <1>1, LiveStep
  <1>3. epoch' >= epoch /\ epoch \in Nat /\ epoch' \in Nat
    BY <1>1, <1>2, EpochAndBootsGrow DEF LiveInv, TypeOK
  <1>4. PastInv'
    BY <1>1, <1>3 DEF DurableInv, PastInv
  <1>5. SaverInv' /\ FileInv'
    BY <1>1 DEF DurableInv, SaverInv, FileInv
  <1>6. QED
    BY <1>2, <1>4, <1>5 DEF DurableInv

\* The replacement puts the image of the live process on disk.
LEMMA ReplaceStep ==
    ASSUME DurableInv, atomic_replace_file
    PROVE  DurableInv' /\ phase = "RUNNING" /\ file' \in {file, Complete(Image)}
  <1> USE DEF vars, workerVars, inventoryVars, transferVars
  <1>1. saver = Saving("REPLACE", 9, Image) /\ phase = "RUNNING"
    BY DEF DurableInv, SaverInv, atomic_replace_file, Saving, Idle
  <1>2. file' \in {file, Complete(Image)} /\ saver' = Idle /\ UNCHANGED <<vars, phase, past>>
    BY <1>1 DEF atomic_replace_file, Saving
  <1>3. LiveInv /\ LiveInv'
    BY <1>2, LiveStep DEF DurableInv
  <1>4. FileInv'
    BY <1>2, <1>3, ImageIsSound DEF DurableInv, FileInv
  <1>5. Image.epoch = epoch /\ epoch \in Nat
    BY <1>3 DEF Image, LiveInv, TypeOK
  <1>6. PastInv'
    <2>1. CASE file' = file
      BY <1>2, <2>1 DEF DurableInv, PastInv
    <2>2. CASE file' = Complete(Image)
      <3>1. Intact(file') /\ file'.image.epoch = epoch
        BY <1>5, <2>2, FileForms
      <3>2. QED
        BY <1>1, <1>2, <1>5, <3>1 DEF DurableInv, PastInv
    <2>3. QED
      BY <1>2, <2>1, <2>2
  <1>7. QED
    BY <1>1, <1>2, <1>3, <1>4, <1>6 DEF DurableInv, SaverInv

\* The death of the process: what its workers held joins the past, if its
\* epoch is on disk.
LEMMA CrashStep ==
    ASSUME DurableInv, crash
    PROVE  DurableInv'
  <1>1. LiveInv'
    <2>1. Init'
      BY EmptyLoad DEF crash
    <2>2. QED
      BY <2>1, EmptyIsSeeded, LiveInit, PTL
  <1>2. /\ phase' = "DOWN" /\ saver' = Idle /\ UNCHANGED file
        /\ workers' = [w \in Workers |-> NoBoot]
    BY DEF crash, Load
  <1>3. ASSUME NEW a \in past'
        PROVE  /\ a.worker \in Workers /\ a.boot \in Nat /\ a.epoch \in Nat
               /\ Intact(file) /\ a.epoch <= file.image.epoch
    <2>1. CASE a \in past
      BY <2>1 DEF DurableInv, PastInv
    <2>2. CASE a \notin past
      <3>1. Intact(file) /\ file.image.epoch = epoch /\ a \in LiveTokens
        BY <1>3, <2>2 DEF crash
      <3>2. PICK w \in Workers : /\ workers[w] # NoBoot
                                 /\ a = [worker |-> w, boot |-> workers[w], epoch |-> epoch]
        BY <3>1 DEF LiveTokens
      <3>3. workers[w] \in Nat /\ epoch \in Nat
        BY <3>2 DEF DurableInv, LiveInv, TypeOK
      <3>4. QED
        BY <3>1, <3>2, <3>3
    <2>3. QED
      BY <2>1, <2>2
  <1>4. PastInv'
    BY <1>2, <1>3 DEF PastInv
  <1>5. SaverInv' /\ FileInv'
    BY <1>2 DEF DurableInv, SaverInv, FileInv
  <1>6. QED
    BY <1>1, <1>4, <1>5 DEF DurableInv

\* A process that starts without a file: there is no past to fence off.
LEMMA FreshStep ==
    ASSUME DurableInv, start_fresh
    PROVE  DurableInv'
  <1> USE DEF vars, workerVars, inventoryVars, transferVars
  <1>1. UNCHANGED vars /\ LiveInv
    BY DEF start_fresh, DurableInv
  <1>2. LiveInv'
    BY <1>1, LiveStep
  <1>3. past = {}
    BY FileForms DEF start_fresh, DurableInv, PastInv
  <1>4. PastInv'
    BY <1>3 DEF start_fresh, PastInv
  <1>5. saver = Idle
    BY DEF start_fresh, DurableInv, SaverInv
  <1>6. SaverInv' /\ FileInv'
    BY <1>5 DEF start_fresh, DurableInv, SaverInv, FileInv
  <1>7. QED
    BY <1>2, <1>4, <1>6 DEF DurableInv

\* Recovery: the process is back at the epoch on disk, with no worker.
LEMMA RecoverStep ==
    ASSUME DurableInv, recover_from_file
    PROVE  DurableInv'
  <1>1. /\ phase = "DOWN" /\ phase' = "RECOVERED" /\ Intact(file)
        /\ Load(Recovered(file.image)) /\ UNCHANGED <<saver, file, past>>
    BY DEF recover_from_file
  <1>2. Sound(file.image)
    BY <1>1, FileIsSound DEF DurableInv
  <1>3. LiveInv'
    BY <1>1, <1>2, RecoveredIsLive
  <1>4. epoch' = file.image.epoch /\ workers' = [w \in Workers |-> NoBoot]
    BY <1>1, <1>2 DEF Load, Recovered, Sound, ImageRecord
  <1>5. PastInv'
    BY <1>1, <1>4 DEF DurableInv, PastInv
  <1>6. SaverInv' /\ FileInv'
    BY <1>1 DEF DurableInv, SaverInv, FileInv
  <1>7. QED
    BY <1>3, <1>5, <1>6 DEF DurableInv

\* The epoch advances before anybody is served, past every token of the past.
LEMMA ResumeStep ==
    ASSUME DurableInv, resume
    PROVE  DurableInv'
  <1>1. /\ phase = "RECOVERED" /\ phase' = "RUNNING" /\ advance_epoch
        /\ UNCHANGED <<saver, file, past>>
    BY DEF resume
  <1>2. LiveInv'
    BY <1>1, LiveStep DEF DurableInv, Next, WorkerOperation
  <1>3. epoch \in Nat /\ epoch' = epoch + 1 /\ epoch = file.image.epoch
    BY <1>1 DEF DurableInv, LiveInv, TypeOK, PastInv, advance_epoch
  <1>4. PastInv'
    BY <1>1, <1>3 DEF DurableInv, PastInv
  <1>5. saver = Idle
    BY <1>1 DEF DurableInv, SaverInv
  <1>6. SaverInv' /\ FileInv'
    BY <1>1, <1>5 DEF DurableInv, SaverInv, FileInv
  <1>7. QED
    BY <1>2, <1>4, <1>6 DEF DurableInv

\* Beginning a save, reading and writing.
LEMMA WriteSteps ==
    ASSUME DurableInv, persist_to_file \/ read_sections(Len(Sections)) \/ write_temp
    PROVE  DurableInv'
  <1> USE DEF vars, workerVars, inventoryVars, transferVars
  <1>1. CASE persist_to_file
    <2>1. saver' = Saving("READ", 0, EmptyImage) /\ phase' = "RUNNING"
      BY <1>1 DEF persist_to_file, Idle, Saving
    <2>2. QED
      BY <1>1, <2>1, SaverStep DEF persist_to_file, SaverInv
  <1>2. CASE read_sections(Len(Sections))
    <2>1. saver = Saving("READ", 0, EmptyImage) /\ phase = "RUNNING"
      BY <1>2 DEF DurableInv, SaverInv, read_sections, Saving, Idle
    <2>2. saver' = Saving("WRITE", 9, Image)
      BY <1>2, <2>1, ReadsAll
    <2>3. UNCHANGED <<vars, phase, file, past>> /\ Image' = Image
      BY <1>2 DEF read_sections, Image
    <2>4. QED
      BY <2>1, <2>2, <2>3, SaverStep DEF SaverInv
  <1>3. CASE write_temp
    <2>1. saver = Saving("WRITE", 9, Image) /\ phase = "RUNNING"
      BY <1>3 DEF DurableInv, SaverInv, write_temp, Saving, Idle
    <2>2. saver' \in {Saving("REPLACE", 9, Image), Idle}
      BY <1>3, <2>1 DEF write_temp, Saving
    <2>3. UNCHANGED <<vars, phase, file, past>> /\ Image' = Image
      BY <1>3 DEF write_temp, Image
    <2>4. QED
      BY <2>1, <2>2, <2>3, SaverStep DEF SaverInv
  <1>4. QED
    BY <1>1, <1>2, <1>3

\* Every step of process and file keeps the invariant.
LEMMA DurableStep ==
    DurableInv /\ [PersistenceNext]_<<vars, diskVars>> => DurableInv'
  <1> SUFFICES ASSUME DurableInv, [PersistenceNext]_<<vars, diskVars>> PROVE DurableInv'
    OBVIOUS
  <1>1. CASE UNCHANGED <<vars, diskVars>>
    <2>1. UNCHANGED <<vars, phase, file, past>> /\ UNCHANGED saver
      BY <1>1 DEF diskVars
    <2>2. Image' = Image
      BY <2>1 DEF Image, vars, workerVars, inventoryVars, transferVars
    <2>3. QED
      BY <2>1, <2>2, SaverStep DEF DurableInv, SaverInv
  <1>2. QED
    BY <1>1, OperateStep, WriteSteps, ReplaceStep, CrashStep, FreshStep, RecoverStep, ResumeStep
    DEF PersistenceNext, SaveStep, Restart

\* The invariant of a coordinator that dies and is restarted.
LEMMA DurableInvariant == DurableSpec => []DurableInv
  <1>1. Seeded /\ PersistenceInit => DurableInv
    BY LiveInit DEF PersistenceInit, DurableInv, SaverInv, FileInv, PastInv
  <1>2. QED
    BY <1>1, DurableStep, PTL DEF DurableSpec

\* Restarts do not break the fence of incarnations, although the table of
\* highest boots is not saved.
THEOREM IncarnationsSurviveRestarts == DurableSpec => []IncarnationFence
  <1>1. DurableInv => IncarnationFence
    BY DEF DurableInv, LiveInv
  <1>2. QED
    BY <1>1, DurableInvariant, PTL

\* No plan that was saved is authoritative again after a restart, and those
\* made since are current.
THEOREM PlansSurviveRestarts == DurableSpec => []PlanFence
  <1>1. DurableInv => PlanFence
    BY DEF DurableInv, LiveInv
  <1>2. QED
    BY <1>1, DurableInvariant, PTL

\* Whatever was restarted from whatever file before, a file that a save
\* leaves behind holds every record that its registrations and plans name.
THEOREM FilesAreClosed == DurableSpec => []NoDanglingReference
  <1>1. DurableInv => NoDanglingReference
    BY FileIsSound, SoundIsClosed DEF DurableInv, NoDanglingReference
  <1>2. QED
    BY <1>1, DurableInvariant, PTL

\* A token that was live in a process whose epoch was on disk when it died
\* is dead for ever.
THEOREM TokensStayDead == DurableSpec => []TokensDieWithTheProcess
  <1>1. DurableInv => TokensDieWithTheProcess
    <2> SUFFICES ASSUME DurableInv, NEW a \in past PROVE ~worker_live_locked(a)
      BY DEF TokensDieWithTheProcess
    <2>1. /\ a.worker \in Workers /\ a.boot \in Nat /\ a.epoch \in Nat
          /\ phase = "RUNNING" => a.epoch < epoch
          /\ phase # "RUNNING" => workers = [w \in Workers |-> NoBoot]
          /\ epoch \in Nat
      BY DEF DurableInv, PastInv, LiveInv, TypeOK
    <2>2. worker_owned(a)
      BY <2>1, NilIsNoWorker DEF worker_owned
    <2>3. CASE phase = "RUNNING"
      BY <2>1, <2>3 DEF worker_live_locked, AuthorityLive
    <2>4. CASE phase # "RUNNING"
      BY <2>1, <2>2, <2>4 DEF worker_live_locked, AuthorityLive, NoBoot
    <2>5. QED
      BY <2>3, <2>4
  <1>2. QED
    BY <1>1, DurableInvariant, PTL

-------------------------------------------------------------------------------
(* ImplementsDurableStore, step by step. *)

\* A state is not the absence of one.
LEMMA IdentityIsSomething == \A image : Identity(image) # [kind |-> "NONE"]
  <1>1. ASSUME NEW image PROVE Identity(image).kind = "STATE"
    BY DEF Identity
  <1>2. [kind |-> "NONE"].kind = "NONE"
    OBVIOUS
  <1>3. QED
    BY <1>1, <1>2

\* What identifies an image is what identifies the process started from it.
LEMMA IdentityRecovered ==
    ASSUME NEW image, Sound(image), Load(Recovered(image)), TypeOK'
    PROVE  Identity(Image)' = Identity(image)
  <1>1. image \in ImageRecord
    BY DEF Sound
  <1>2. /\ epoch' = image.epoch /\ buffers' = image.buffers /\ endpoints' = image.endpoints
        /\ issued'["coordinator"] = image.next_id
        /\ registrations'
             = [r \in RegistrationIds |-> RecoveredRegistration(image.registrations[r])]
    BY <1>1 DEF Load, Recovered, ImageRecord, IdSource
  <1>3. /\ Image'.epoch = epoch' /\ Image'.next_id = issued'["coordinator"]
        /\ Image'.registrations = registrations'
        /\ \A b \in BufferIds : Image'.buffers[b] = SavedBuffer(buffers'[b])
        /\ \A e \in EndpointIds : Image'.endpoints[e] = SavedEndpoint(endpoints'[e])
    BY DEF Image
  <1>4. ASSUME NEW b \in BufferIds
        PROVE  <<Image'.buffers[b].lifecycle, Image'.buffers[b].generation>>
                 = <<image.buffers[b].lifecycle, image.buffers[b].generation>>
    <2>1. image.buffers[b] \in BufferRecord
      BY <1>1 DEF ImageRecord
    <2>2. QED
      BY <1>2, <1>3, <2>1 DEF SavedBuffer, BufferRecord
  <1>5. ASSUME NEW e \in EndpointIds
        PROVE  Image'.endpoints[e].generation = image.endpoints[e].generation
    <2>1. image.endpoints[e] \in EndpointRecord
      BY <1>1 DEF ImageRecord
    <2>2. QED
      BY <1>2, <1>3, <2>1 DEF SavedEndpoint, EndpointRecord
  <1>6. ASSUME NEW r \in RegistrationIds
        PROVE  <<Image'.registrations[r].buffer, Image'.registrations[r].endpoint,
                 Image'.registrations[r].generation>>
                 = <<image.registrations[r].buffer, image.registrations[r].endpoint,
                     image.registrations[r].generation>>
    <2>1. image.registrations[r] \in Registration
      BY <1>1 DEF ImageRecord
    <2>2. QED
      BY <1>2, <1>3, <2>1 DEF RecoveredRegistration, Registration
  <1>7. QED
    BY <1>2, <1>3, <1>4, <1>5, <1>6 DEF Identity

\* Saving, dying and restarting are the steps of the register; operations of
\* the process are its work.
LEMMA StepStore ==
    DurableInv /\ [PersistenceNext]_<<vars, diskVars>> => [Store!Next]_(Store!storeVars)
  <1> SUFFICES ASSUME DurableInv, [PersistenceNext]_<<vars, diskVars>>
               PROVE  [Store!Next]_(Store!storeVars)
    OBVIOUS
  <1> DEFINE none == [kind |-> "NONE"]
             live == IF phase = "DOWN" THEN none ELSE Identity(Image)
             stored == IF Intact(file) THEN Identity(file.image) ELSE none
  <1>1. ASSUME UNCHANGED <<vars, phase, file>> PROVE UNCHANGED Store!storeVars
    <2>1. Image' = Image
      BY <1>1 DEF Image, vars, workerVars, inventoryVars, transferVars
    <2>2. live' = live /\ stored' = stored
      BY <1>1, <2>1
    <2>3. QED
      BY <2>2 DEF Store!storeVars
  <1>2. ASSUME phase # "DOWN", phase' # "DOWN", UNCHANGED file PROVE Store!Work
    <2>1. live # none /\ live' # none /\ stored' = stored
      BY <1>2, IdentityIsSomething
    <2>2. QED
      BY <2>1 DEF Store!Work, Store!None
  <1>3. CASE saver = Idle /\ Operate
    BY <1>2, <1>3 DEF Operate, diskVars, Store!Next
  <1>4. CASE persist_to_file \/ read_sections(Len(Sections)) \/ write_temp
    BY <1>1, <1>4 DEF persist_to_file, read_sections, write_temp
  <1>5. CASE atomic_replace_file
    <2>1. /\ phase = "RUNNING" /\ file' \in {file, Complete(Image)}
          /\ UNCHANGED <<vars, phase>>
      BY <1>5, ReplaceStep DEF atomic_replace_file
    <2>2. CASE file' = file
      BY <1>1, <2>1, <2>2
    <2>3. CASE file' = Complete(Image)
      <3>1. Image' = Image
        BY <2>1 DEF Image, vars, workerVars, inventoryVars, transferVars
      <3>2. Intact(file') /\ file'.image = Image
        BY <2>3, FileForms
      <3>3. stored' = Identity(Image) /\ live = Identity(Image) /\ live' = live
        BY <2>1, <3>1, <3>2
      <3>4. live # none
        BY <3>3, IdentityIsSomething
      <3>5. Store!Save
        BY <3>3, <3>4 DEF Store!Save, Store!None
      <3>6. QED
        BY <3>5 DEF Store!Next
    <2>4. QED
      BY <2>1, <2>2, <2>3
  <1>6. CASE crash
    <2>1. phase' = "DOWN" /\ UNCHANGED file
      BY <1>6 DEF crash
    <2>2. live' = none /\ stored' = stored
      BY <2>1
    <2>3. Store!Crash
      BY <2>2 DEF Store!Crash, Store!None
    <2>4. QED
      BY <2>3 DEF Store!Next
  <1>7. CASE start_fresh
    <2>1. phase = "DOWN" /\ phase' = "RUNNING" /\ file = Absent /\ UNCHANGED file
      BY <1>7 DEF start_fresh
    <2>2. live = none /\ stored = none /\ stored' = stored /\ live' # none
      BY <2>1, FileForms, IdentityIsSomething
    <2>3. Store!Restart
      BY <2>2 DEF Store!Restart, Store!None
    <2>4. QED
      BY <2>3 DEF Store!Next
  <1>8. CASE recover_from_file
    <2>1. /\ phase = "DOWN" /\ phase' = "RECOVERED" /\ Intact(file) /\ UNCHANGED file
          /\ Load(Recovered(file.image))
      BY <1>8 DEF recover_from_file
    <2>2. Sound(file.image)
      BY <2>1, FileIsSound DEF DurableInv
    <2>3. TypeOK'
      BY <2>1, <2>2, RecoveredIsLive DEF LiveInv
    <2>4. Identity(Image)' = Identity(file.image)
      BY <2>1, <2>2, <2>3, IdentityRecovered
    <2>5. live = none /\ live' = stored /\ stored' = stored /\ stored # none
      BY <2>1, <2>4, IdentityIsSomething
    <2>6. Store!Restart
      BY <2>5 DEF Store!Restart, Store!None
    <2>7. QED
      BY <2>6 DEF Store!Next
  <1>9. CASE resume
    BY <1>2, <1>9 DEF resume, Store!Next
  <1>10. CASE UNCHANGED <<vars, diskVars>>
    BY <1>1, <1>10 DEF diskVars
  <1>11. QED
    BY <1>3, <1>4, <1>5, <1>6, <1>7, <1>8, <1>9, <1>10 DEF PersistenceNext, SaveStep, Restart

\* The state file is an atomic register, whenever the process dies.
THEOREM FileIsDurable == DurableSpec => ImplementsDurableStore
  <1>1. Seeded /\ PersistenceInit => Store!Init
    BY FileForms, IdentityIsSomething DEF PersistenceInit, Store!Init, Store!None
  <1>2. QED
    BY <1>1, StepStore, DurableInvariant, PTL
    DEF DurableSpec, ImplementsDurableStore, Store!Spec
===============================================================================
