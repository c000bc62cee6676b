------------------------------- MODULE Persistence -------------------------------
(***************************************************************************)
(* The state file of a coordinator, and a coordinator process that can die *)
(* at any moment and be started again from that file.                      *)
(*                                                                         *)
(* A save reads the registries one after the other without the mutex,      *)
(* writes a temporary file and puts it in the place of the state file.     *)
(* Its callers in the repository let no other operation run meanwhile, so  *)
(* that here a save excludes operations of the coordinator (not a crash);  *)
(* PersistenceClaims drops that.  The replacement is the atomic one of the *)
(* Windows build.  The registries of NICs and storage endpoints, which no  *)
(* operation reads, are left out, and so are freshness counters.  Of the   *)
(* counter next_id the file has the registration ids it has passed.        *)
(***************************************************************************)
EXTENDS CoordinatorProperties

CONSTANT DefaultLimits  \* the limits of a new State

\* Plan ids come from a counter and plans are written in the order of ids.
ASSUME PersistenceAssumption ==
    /\ DefaultLimits \in LimitSettings
    /\ PlanIds \subseteq Nat

VARIABLES
    phase,  \* of the process: "RUNNING", "DOWN", or "RECOVERED" with the epoch still to advance
    saver,  \* where persist_to_file is, and what it has read so far
    file,   \* the state file
    past    \* history: tokens live in a process that died when its epoch was on disk

diskVars == <<phase, saver, file, past>>

-------------------------------------------------------------------------------
(* File contents. *)

\* The sections of the file, in the order they are read and written.
Sections == <<"epoch", "next_id", "buffers", "devices", "endpoints", "providers",
              "capabilities", "registrations", "plans">>

EmptyImage ==
    [epoch |-> 1, next_id |-> {}, buffers |-> [b \in BufferIds |-> NoBuffer],
     devices |-> {}, endpoints |-> [e \in EndpointIds |-> NoEndpoint],
     providers |-> {}, capabilities |-> {},
     registrations |-> [r \in RegistrationIds |-> NoRegistration],
     plans |-> [p \in PlanIds |-> NoPlan]]

\* Neither the owner of a buffer nor its registration is written.
SavedBuffer_Fault(buffer) ==
    IF buffer.lifecycle = "RETIRED" THEN NoBuffer
    ELSE [buffer EXCEPT !.authority = coordinator_authority, !.registration_id = Nil,
                        !.registration_generation = 0]

SavedBuffer(buffer) ==
    [buffer EXCEPT !.authority = coordinator_authority, !.registration_id = Nil,
                   !.registration_generation = 0]

SavedEndpoint(endpoint) == [endpoint EXCEPT !.authority = coordinator_authority]

\* Neither the stages of a plan nor whether it is authoritative is written.
SavedPlan(plan) == [plan EXCEPT !.staging = Nil, !.authoritative = FALSE]

\* What a save that read everything now would write.
Image ==
    [epoch |-> epoch, next_id |-> issued["coordinator"],
     buffers |-> [b \in BufferIds |-> SavedBuffer(buffers[b])], devices |-> devices,
     endpoints |-> [e \in EndpointIds |-> SavedEndpoint(endpoints[e])],
     providers |-> providers, capabilities |-> capabilities, registrations |-> registrations,
     plans |-> [p \in PlanIds |-> SavedPlan(plans[p])]]

\* Length, checksum and magic hold for a file that was written to the end,
\* and no other is ever put in the place of the state file.
Absent == [kind |-> "ABSENT"]
Complete(image) == [kind |-> "COMPLETE", image |-> image]
Intact(f) == f.kind = "COMPLETE"

-------------------------------------------------------------------------------
(* persist_to_file. *)
Idle == [step |-> "IDLE", read |-> 0, image |-> EmptyImage]

persist_to_file ==
    /\ phase = "RUNNING" /\ saver = Idle
    /\ saver' = [saver EXCEPT !.step = "READ"]
    /\ UNCHANGED <<vars, phase, file, past>>

\* Read the next n sections.
read_sections(n) ==
    LET upto == saver.read + n
    IN  /\ saver.step = "READ" /\ upto <= Len(Sections)
        /\ saver' = [step |-> IF upto = Len(Sections) THEN "WRITE" ELSE "READ",
                     read |-> upto,
                     image |-> [s \in DOMAIN saver.image |->
                                  IF \E i \in saver.read + 1 .. upto : Sections[i] = s
                                  THEN Image[s] ELSE saver.image[s]]]
        /\ UNCHANGED <<vars, phase, file, past>>

\* The image goes to a temporary file, which only this save reads: one that
\* a failed write or a crash leaves behind is written anew by the next save.
write_temp ==
    /\ saver.step = "WRITE"
    /\ \/ saver' = [saver EXCEPT !.step = "REPLACE"]
       \/ saver' = Idle
    /\ UNCHANGED <<vars, phase, file, past>>

atomic_replace_file_Fault ==
    /\ saver.step = "REPLACE"
    /\ \/ file # Absent /\ file' = Absent /\ UNCHANGED saver
       \/ file' = Complete(saver.image) /\ saver' = Idle
    /\ UNCHANGED <<vars, phase, past>>

\* One call moves the temporary file over the state file, or fails.
atomic_replace_file ==
    /\ saver.step = "REPLACE"
    /\ saver' = Idle
    /\ file' \in {file, Complete(saver.image)}
    /\ UNCHANGED <<vars, phase, past>>

-------------------------------------------------------------------------------
(* Death and restart of the process. *)

\* The memory of a process that starts from an image: no worker is connected
\* and none has ever been, no attempt, receipt or decision is known.  Its
\* backend is a new one, whose counter starts again.
Load(image) ==
    /\ epoch' = image.epoch
    /\ workers' = [w \in Workers |-> NoBoot]
    /\ worker_max_boot' = [w \in Workers |-> NoBoot]
    /\ limits' = DefaultLimits
    /\ issued' = [source \in IdSource |-> IF source = "coordinator" THEN image.next_id ELSE {}]
    /\ buffers' = image.buffers
    /\ endpoints' = image.endpoints
    /\ devices' = image.devices
    /\ providers' = image.providers
    /\ capabilities' = image.capabilities
    /\ registrations' = image.registrations
    /\ plans' = image.plans
    /\ attempts' = [t \in AttemptIds |-> NoAttempt]
    /\ receipts' = [t \in AttemptIds |-> NoReceipt]
    /\ verifications' = {}
    /\ pending' = [c \in Callers |-> NoDecision]

LiveTokens ==
    {[worker |-> w, boot |-> workers[w], epoch |-> epoch] :
       w \in {v \in Workers : workers[v] # NoBoot}}

\* The process can die at any step, also of a save.
crash ==
    /\ phase # "DOWN"
    /\ phase' = "DOWN"
    /\ saver' = Idle
    /\ past' = IF Intact(file) /\ file.image.epoch = epoch THEN past \cup LiveTokens ELSE past
    /\ Load(EmptyImage)
    /\ UNCHANGED file

\* A new coordinator, when there is no state file to start from.
start_fresh ==
    /\ phase = "DOWN" /\ file = Absent
    /\ phase' = "RUNNING"
    /\ UNCHANGED <<vars, saver, file, past>>

RecoveredRegistration_Fault(reg) == reg

RecoveredRegistration(reg) ==
    IF reg.state = "REGISTERED" THEN [reg EXCEPT !.state = "REVALIDATION_REQUIRED"] ELSE reg

RecoveredPlan_Fault(plan) == [plan EXCEPT !.authoritative = TRUE]

RecoveredPlan(plan) == [plan EXCEPT !.authoritative = FALSE]

copy_count(plan) == IF plan.eligibility \in DirectOutcome THEN 1 ELSE 2

\* The plans of an image, and the place of each in the file.
PlansOf(image) == {p \in PlanIds : image.plans[p].eligibility # "NONE"}
Place(image, p) == Cardinality({q \in PlansOf(image) : q <= p})

\* The loop over the plans reads the copy count of each into the variable
\* that bounds the loop: it ends at a plan that has at most as many copies as
\* plans were read, and runs past the end of the file if no plan ends it.
LoopEnds(image) == {p \in PlansOf(image) : copy_count(image.plans[p]) <= Place(image, p)}

PlansReadable(image) == PlansOf(image) = {} \/ LoopEnds(image) # {}
PlansRead(image) == {q \in PlansOf(image) : \A p \in LoopEnds(image) : q <= p}

Recovered(image) ==
    [image EXCEPT
       !.registrations = [r \in RegistrationIds |-> RecoveredRegistration(image.registrations[r])],
       !.plans = [p \in PlanIds |->
                    IF p \in PlansRead(image) THEN RecoveredPlan(image.plans[p]) ELSE NoPlan]]

recover_from_file ==
    /\ phase = "DOWN" /\ Intact(file) /\ PlansReadable(file.image)
    /\ Load(Recovered(file.image))
    /\ phase' = "RECOVERED"
    /\ UNCHANGED <<saver, file, past>>

resume_Fault ==
    /\ phase = "RECOVERED"
    /\ phase' = "RUNNING"
    /\ UNCHANGED <<vars, saver, file, past>>

\* The new process advances the epoch before it serves anybody.
resume ==
    /\ phase = "RECOVERED"
    /\ advance_epoch
    /\ phase' = "RUNNING"
    /\ UNCHANGED <<saver, file, past>>

-------------------------------------------------------------------------------
\* Plan ids are handed out in increasing order.
PlanIdsAreCounted ==
    \A p, q \in PlanIds :
        q < p /\ plans'[p].eligibility # "NONE" => plans'[q].eligibility # "NONE"

Operate ==
    /\ phase = "RUNNING"
    /\ Next
    /\ PlanIdsAreCounted
    /\ UNCHANGED diskVars

PersistenceInit ==
    /\ phase = "RUNNING" /\ saver = Idle
    /\ file = Absent
    /\ past = {}

SaveStep == write_temp \/ atomic_replace_file
Restart == crash \/ start_fresh \/ recover_from_file \/ resume

PersistenceNext ==
    \/ saver = Idle /\ Operate
    \/ persist_to_file
    \/ read_sections(Len(Sections))
    \/ SaveStep
    \/ Restart

\* The first process, before it serves anybody: a backend may have seeded it
\* with any endpoints, devices, providers and capabilities.
Seeded ==
    /\ epoch = 1
    /\ workers = [w \in Workers |-> NoBoot]
    /\ worker_max_boot = [w \in Workers |-> NoBoot]
    /\ limits \in LimitSettings
    /\ issued = [source \in IdSource |-> {}]
    /\ buffers = [b \in BufferIds |-> NoBuffer]
    /\ endpoints \in [EndpointIds -> EndpointRecord]
    /\ devices \subseteq DeviceIds
    /\ providers \subseteq [name : STRING, available : BOOLEAN, support : Support]
    /\ capabilities \subseteq Capability
    /\ registrations = [r \in RegistrationIds |-> NoRegistration]
    /\ plans = [p \in PlanIds |-> NoPlan]
    /\ attempts = [t \in AttemptIds |-> NoAttempt]
    /\ receipts = [t \in AttemptIds |-> NoReceipt]
    /\ verifications = {}
    /\ pending = [c \in Callers |-> NoDecision]

\* A coordinator that starts with any inventory and no state file.
DurableSpec == Seeded /\ PersistenceInit /\ [][PersistenceNext]_<<vars, diskVars>>

-------------------------------------------------------------------------------
(* Properties. *)

\* What identifies the durable part of a state: epoch, ids given out,
\* generations and lifecycles, and the pair and generation of each registration.
Identity(image) ==
    [kind |-> "STATE", epoch |-> image.epoch, next_id |-> image.next_id,
     buffers |-> [b \in BufferIds |-> <<image.buffers[b].lifecycle, image.buffers[b].generation>>],
     endpoints |-> [e \in EndpointIds |-> image.endpoints[e].generation],
     registrations |-> [r \in RegistrationIds |->
        <<image.registrations[r].buffer, image.registrations[r].endpoint,
          image.registrations[r].generation>>]]

Store == INSTANCE DurableStore WITH
    live <- IF phase = "DOWN" THEN [kind |-> "NONE"] ELSE Identity(Image),
    stored <- IF Intact(file) THEN Identity(file.image) ELSE [kind |-> "NONE"]

\* The state file is an atomic register: whenever the process dies, it is
\* restarted from the last save that returned, whole (persist_to_file,
\* atomic_replace_file and recover_from_file together).
ImplementsDurableStore == Store!Spec

\* No registration and no plan of the image refers to a record that is not in it.
Closed(image) ==
    /\ \A r \in RegistrationIds :
         LET reg == image.registrations[r] IN
         reg.state # "NONE" =>
           image.buffers[reg.buffer].lifecycle # "NONE" /\ image.endpoints[reg.endpoint].present
    /\ \A p \in PlanIds :
         LET plan == image.plans[p] IN
         plan.eligibility # "NONE" =>
           /\ image.buffers[plan.source].lifecycle # "NONE"
           /\ image.endpoints[plan.destination].present
           /\ plan.registration_id # Nil =>
                image.registrations[plan.registration_id].state # "NONE"

\* The file that persist_to_file leaves refers to nothing outside of it, also
\* when it was written by a process that was itself restarted from a file:
\* recover_from_file does not test it.
NoDanglingReference == Intact(file) => Closed(file.image)

\* A token that was live when a process died is dead for ever, if the epoch
\* of that process was on disk: the boot fence is not saved, the epoch alone
\* keeps the old incarnations out.
TokensDieWithTheProcess == \A a \in past : ~worker_live_locked(a)
===============================================================================
