# A TLA+ verification of GPU Direct Fabric

GPU Direct Fabric decides when data may move directly between GPU memory and a
NIC, a storage endpoint or a peer device. A *coordinator* keeps registries of
buffers, endpoints, devices, capabilities, registrations, plans and transfers;
*workers* are processes that publish what they own. Its promise is that a path
is used only while everything it rests on is current: generations, owners,
epoch, registration. This project models the coordinator, its planner, its
transfer lifecycle, its server, its state file, the framed transport between
the processes and the CUDA self-test, checks them with TLC on small instances
and proves the main safety properties with TLAPS for every value of the
constants.

`PROJECT.json` lists the components, runs, mutants, findings, hazards and
theorems, and maps every definition to the lines of `src/` it stands for.

## The system

| component | state | operations | correct if |
|---|---|---|---|
| Authority (`authority.hpp`) | token: worker, boot, epoch | liveness of a token | a token of a dead boot or a past epoch changes nothing |
| Workers and epoch (`coordinator.cpp`) | live boot and highest boot of each worker, epoch, limits | `register_worker`, `mark_worker_dead`, `advance_epoch`, `set_limits` | the live incarnation is the newest; counters never go back |
| Buffers | generation, lifecycle, owner | `create_buffer`, `advance_buffer_generation`, `retire_buffer` | a change invalidates registrations and plans of the buffer |
| Inventory | endpoints, devices, providers, capabilities | `add_*`, `advance_endpoint_generation`, `set_endpoint_health`, `publish_capability`, `revoke_capability` | the same for endpoints; only a live owner changes what it owns |
| Registrations | buffer and endpoint generation, owner, state, generation | `register_buffer`, `deregister_buffer` | at most one active per pair, the newest, never stale |
| Path planner (`path.cpp`) | none | `evaluate` | direct exactly if no requirement fails; a fallback is visible and allowed |
| Planning | plans, and the decision a caller carries from snapshot to commit | `evaluate_path`, `plan_transfer` | an authoritative plan is current |
| Transfer lifecycle (`coordinator_lifecycle.cpp`) | attempts, receipts, verifications | `begin_transfer`, `complete_transfer`, `cancel_transfer`, `verify_transfer` | receipt and attempt agree; success is current and never overstated |
| Server (`coordinator_server.cpp`) | connections and their threads | accept loop, `handle_worker_message`, end of a connection | every live worker is watched; deaths are noticed |
| Worker (`worker_client.cpp`, `worker_main.cpp`) | one connection, ids it was given | hello, publish, create, register, ready | a ready worker is registered |
| Persistence (`persistence.cpp`, `atomic_file.cpp`) | the state file | `persist_to_file`, `recover_from_file`, restart | the file is the last save, whole; nothing restored is current authority |
| Transport (`protocol.cpp`, `transport.cpp`) | bytes of a connection | `encode_frame`, `send_frame`, `recv_frame`, `decode_frame` | a connection is a queue of whole frames |
| CUDA backend (`cuda_backend.cpp`) | devices found; allocations and report of a self-test | `discover`, `self_test` | every path frees what it allocated; REAL only for data that went through the device |
| Synthetic and unsupported backends | a counter of registration ids | register, deregister, transfer | answers are choices of the coordinator's actions; the ids are `issued["backend"]` |

How they interact. Every coordinator operation is one critical section under
one mutex, so an operation is one action; `plan_transfer` is the exception: it
evaluates on a snapshot in a first critical section and commits in a second,
and is therefore two actions (`evaluate_path`, `plan_transfer`). The backend is
called under the lock and answers by a nondeterministic choice. The server has
an accept thread, which also reads the first frame of each connection, and one
thread per connection; a worker process sends one request at a time.

What is hard: everything that happens between snapshot and commit, and between
a plan and its execution; a worker that reconnects while its old connection is
still open; a completion that races a cancellation, a death or a generation
advance; five operations that must each invalidate the right registrations; the
order of fourteen planner requirements; a coordinator that dies inside a save
and comes back without its memory of boots; frames that arrive in pieces.

## Modules

| module | content |
|---|---|
| `Authority` | tokens and their liveness |
| `PathPlanner` | `evaluate` as an ordered list of requirements, the first failing one deciding; no state |
| `Coordinator` | the registries as variables, one action per operation |
| `CoordinatorProperties` | its type invariant, safety and action properties, the two refinements |
| `RegistrationLease`, `TransferLifecycle` | abstract specifications: one lease per pair; an attempt settles once |
| `CoordinatorServer` | connections, accept loop, connection threads and worker processes around `Coordinator` |
| `Persistence` | the state file, saving, death and restart of the process, around `Coordinator` |
| `DurableStore` | abstract specification: an atomic register |
| `Transport` | one direction of a connection, byte counts and frame fields |
| `FrameChannel` | abstract specification: a queue of frames |
| `CudaBackend` | discovery and the self-test |
| `PlannerOracle` | evidence with known flaws, and what the planner must answer to it |
| `CoordinatorProofs` | theorems about types, incarnations, tokens and registrations |
| `PlannerProofs`, `OracleProofs` | theorems about `evaluate`, and about its answers to flawed evidence |
| `PlanProofs` | theorems about plans and transfers, on top of `CoordinatorProofs` and `PlannerProofs` |
| `ServerProofs`, `PersistenceProofs` | the coordinator as a process with connections, and with a state file and restarts |
| `TransportProofs`, `CudaProofs` | theorems about a connection and about the self-test |
| `MCCoordinator`, `MCPathPlanner`, `MCCoordinatorServer`, `MCPersistence`, `MCTransport` | instances for TLC |
| `CoordinatorClaims`, `PersistenceClaims` | statements of the documentation the code does not keep |

Correspondence. A map `id -> record` of `Coordinator::State` is a function from
a pool of ids to records, with an "empty" record (`NoBuffer`, `NoPlan`, ...) for
ids not in use. Absent operations are early returns that change nothing; an
early return that does change state is an action of its own
(`deregister_orphan`, `plan_transfer_rejected`, `complete_failed`). A
registration's id comes from one of two counters, the backend's `next_reg_id_`
or, without a backend, the coordinator's `next_id`; `issued` has the ids each
has given out. A counter does not give out an id twice, but `register_buffer`
does not look whether the id is in use, so `IssueId` does not either: an id of
both counters overwrites a record. `IdSources` says which of them callers use. Freshness
stamps, names, localities and provenance are left out: no operation branches on
them. Definitions named `X_Fault` are the plausible bugs the properties are
tested against; no specification uses them.

Names of the server's state: `phase` of a connection is `FREE` (not opened),
`BACKLOG` (the accept loop has not read its hello), `SERVED` (it has a thread)
or `CLOSED`; `request` and `reply` are the frame on its way in each direction.
A killed process may or may not have got its last frame through. The program of
a process is a constant, `Program`: typed messages, at most one of which
registers, as in `worker_main.cpp`. The server registers without a backend
(`IdSources = {"coordinator"}`). New ids are the next of a pool (`IsNextId`);
the pools bound how many a behaviour uses.

Persistence. `phase` is the process: `RUNNING`, `DOWN`, or `RECOVERED` before
`advance_epoch`; `saver` is where `persist_to_file` is and what it has read.
`Image` says, field by field, what a save keeps: owners of buffers and endpoints,
the buffer's registration, a plan's stages and its authority are not written;
of the counter `next_id` it has the registration ids given out; live workers,
boots, limits, attempts, receipts and verifications are not written either
(although `src/README.md:154-155` counts transfer history, verification receipts
and configuration among the durable state). A restart is what
`tests/coordinator_restart_test.cpp` does: recover, then advance the epoch; the
coordinator program itself always starts fresh. In `Persistence` no operation
runs during a save, as in every caller in the repository (a crash may come at
any step); `PersistenceClaims` lets operations in between the reads of two
registries. Within one registry a concurrent change is a data race on an
`unordered_map`, which is worse than anything modelled. The replacement is the
single call of the Windows build, the only one the transport compiles on.

Transport. A frame is its fields and the length of its payload; a byte is a
position in its frame. The wire form is twelve bytes, the payload and four bytes
of checksum (the comment in `protocol.hpp:17-18` has the last two the other way
round); the receiver reads sixteen bytes as header and then as many as the
payload is long. `Frames` holds what this program sends and what a peer of
another version might. After the sender is gone the receiver may or may not get
what was still in the socket, as with a TCP reset.

CUDA. One action per call that can fail, memory in units of the 16 MiB the test
allocates. A call that succeeds may still have spoiled the data, and a free may
fail, which the code does not look at: what is checked is that every allocation
is handed to a free.

## What the runs show

Bounds are in the `.cfg` files; pools of ids and `MaxEpoch`, `MaxGeneration`
bound the behaviours. Deadlock is checked except in `planner` (a single step),
`server` (every connection of the pool may have been used up) and `transport`
(a connection that failed or has nothing more to send stops).

| run | instance | checks |
|---|---|---|
| `fencing` | 1 worker with 2 boots, 1 pair, 2 registration ids, 2 epochs, 2 generations, a device, a capability, tokens of every incarnation and epoch | `TypeOK`, `IncarnationFence`, `RegistrationCurrent`, `OneActiveRegistration`, `CountersNeverDecrease`, `StaleOwnerCannotMutate`, `DeadTokensStayDead`, `ImplementsLease` |
| `planning` | a seeded coordinator, a caller's buffer and a staging buffer, one plan, direct-only and prefer-direct requests | `PlanFence`, `PlanBinding`, `StagingOnlyWhenAllowed`, `BuffersAreBounded`, `CommitMatchesSnapshot` |
| `transfer` | a seeded coordinator, one plan and one attempt, six backend outcomes | `ReceiptMatchesAttempt`, `IntegrityNeverOverstated`, `DirectDecisionIsCurrent`, `DirectBeginIsFenced`, `CompletionIsCurrent`, `ImplementsLifecycle` |
| `planner` | evidence with none, one or two of 24 flaws, every endpoint class, support and direction | `DirectOnlyIfAllCurrent`, `RejectionNamesAFlaw`, `FallbackIsVisible`, `DirectionIsKept` |
| `server` | two processes of one worker, boots 1 and 2, the whole program of `gdf_worker`, room for one or both | `LiveWorkerIsServed`, `ReadyWorkerIsRegistered`, `DeathIsNoticed`, `HelloIsAnswered` |
| `persistence` | a seeded coordinator with 1 buffer, 1 registration id, 1 plan, 2 epochs, saves and crashes at any step | `IncarnationFence`, `PlanFence`, `NoDanglingReference`, `TokensDieWithTheProcess`, `ImplementsDurableStore` |
| `transport` | 2 frames out of 7 (2 good, one empty; 5 bad in different ways), every cut into pieces | `FailureHasACause`, `ReceiveBufferIsBounded`, `ImplementsChannel`, `SentFramesArrive` |
| `cuda` | up to 2 devices, 4 units of memory | `NothingStaysAllocated`, `RealMeansProved`, `DiscoveryIsConsistent` |

Why these bounds suffice. Staleness needs an old and a new value, so two
boots, epochs and generations show every comparison failing and holding. Two
registration ids let a pair be registered again after an invalidation, and a
late deregistration of the first meet the second. A single attempt is enough
because operations on attempts touch one attempt each; the proofs cover any
number. In the planner, two flaws at once show the order of two requirements;
the proofs cover every combination of the 24. Two
processes of a worker are what a reconnection needs. In `persistence` endpoints
stay healthy and no capability is revoked (`NoFlapping`): both are saved and
restored as they are; endpoints are replaced under the first epoch only, which
lets a save, a crash or a plan fall before or after it. In `fencing` a device
is added before there is a registration or not at all (`DevicesComeEarly`): no
buffer of that instance lies on a device. In `planning` and
`persistence` registration ids come from the backend's counter and from the
coordinator's (`IdSources`), so that an id in use can be given out again, in
`persistence` also by the backend of a restarted process, which counts from 1
again. In `planning` the backend's counter comes first, and the coordinator's
gives out the same id only while epoch and generations are the first
(`CollisionsComeEarly`): the plan is then checked at the moment of the
collision and not beyond it. The other instances have one counter, as every
caller in the repository.
Two frames show that the receiver finds the start of the second; lengths 0 to 4
lie on both sides of the four bytes that header and payload share, and of the
limit; the proofs cover every number and length. Four units of device memory
let the comparison of the baseline fail.

`TokensDieWithTheProcess` speaks of processes whose epoch was on disk when they
died. The epoch is advanced in memory and reaches the disk with the next save
only; a process that dies before that is followed by one of the same epoch.

Symmetry is used in `fencing` and `planning`, which check no liveness.

Fairness is assumed in the server and the transport. In the transport the two
loops of `send_frame` and `recv_frame` go on while the socket takes or gives
bytes; nobody has to send or to close. In the server a thread or process that can step is
scheduled (`AcceptLoop`, each `ConnectionThread`, each `Worker`). Nobody has to
start or kill a process, and coordinator operations have no fairness, because
they are calls. The worker's weak fairness includes its hello: `gdf_worker`
sends it right after connecting. The accept loop blocks on that frame, so a
client that connects and stays silent stops it: `HelloIsAnswered` rests on that
assumption.

### Where the code differs from its documentation

Each has a run in which TLC finds the behaviour.

* `claim_stale`: `begin_transfer` does not check the owner of the registration,
  the endpoint's health or the capability. A worker that reconnects with a
  higher boot while live leaves registrations of the old incarnation active, a
  change of health supersedes no plan, and the planner accepts a capability
  observed in a past epoch (also one restored from the file of a dead process),
  while it checks staging capabilities for that. The run shows a direct transfer
  that starts with all three stale; a revoked capability is not noticed either.
* `claim_reconnect`: the end of an old connection kills the worker's new
  incarnation.
* `claim_plans`: the copy count of a plan overwrites the bound of the loop that
  reads the plans, so a state file with a fallback plan cannot be recovered and
  one with several direct plans loses all but the first.
* `claim_dangling`: a save beside other operations can write a registration
  without its buffer, and recovery does not check references.

Further differences, without a run of their own: a highest boot of 0 counts as
"never seen" (`coordinator.cpp:102`), so a dead worker of boot 0 returns with
boot 0 and its old token is live again, against the comment in line 108 (with
`Boots = {0, 1}`, `fencing` violates `DeadTokensStayDead`; the checked instances
have boots from 1, as the tests and tools, so this hazard has no property); a
registration id that both the backend and the coordinator give out, or the
backends of two processes, overwrites the record in use
(`coordinator.cpp:648`, against "Generations never decrease"), and
`begin_transfer` takes the new record for the planned one if its generation is
the same. No caller in the repository registers both with and without a backend
on one coordinator; `PlanBinding` and `DirectBeginIsFenced` make this one
exception and hold otherwise. Off Windows
the state file is removed before the new one is renamed (`atomic_file.cpp:24`):
that order is the mutant of `ImplementsDurableStore`, and violates it.

Seen while modelling, without a document that says otherwise: staging from a
retired buffer is allowed; the staging buffer ignores `max_buffers`; a
verification can be recorded
for a cancelled attempt; the stream of the state file is tested before it is
flushed (`persistence.cpp:303`); `baseline_return` of the CUDA self-test cannot
fail on a leak, as the baseline is read after the allocations and compared with
twice their size as tolerance (`cuda_backend.cpp:205`).

## What is proved

Theorems of the form `Spec => []P` or `Spec => [][A]_vars`, refinements, and
statements about the planner's operators; all of them for every set of workers,
ids, tokens and connections, every shape, outcome and limit, and every bound.
They assume the `ASSUME`s of the modules they are about (the nil id is no id;
inputs have their types; a program registers at most once), which TLC evaluates
in the runs. What a theorem assumes beyond that is said with it.

### The coordinator

* `TypeCorrect`: `TypeOK` is inductive as it stands; one lemma per group of
  operations. `Frames` says what each group leaves alone.
* `CountersGrow`: needs `Blank`, that an id without a record has generation 0:
  creating a record sets its generation to 1 and must not lower it.
* `StaleOwnersCannotMutate`: needs `OnePerKey`, that a provider has one record
  per capability: publishing replaces the records of its key by one, which must
  not be among those it replaces.
* `RegistrationsStayCurrent`, `IncarnationsStayFenced`: inductive together with
  `TypeOK`. The lemma `OnlyRegisterGrants` says that `register_buffer` is the
  only step after which a registration is newly active; every other step is an
  invalidation or leaves it alone.
* `TokensHaveOneLife`: no token that mark_worker_dead or advance_epoch killed is
  live again. A hello that brings a boot to life finds the worker connected
  under another boot, which is the highest seen (`IncarnationFence`), or not
  connected, and then the boot must exceed the highest. The latter test is
  skipped for a highest boot of 0; the theorem assumes that no boot is 0 and
  carries `BootsAdmitted`, that the table holds boots of hellos only. The
  assumption cannot be dropped (see above).
* `RegistrationsStayUnique`: the newest registration of the pair is not active
  when another is granted, so by the invariant none is, and the new generation
  exceeds them all.
* `RegistrationsImplementLease`: the registrations of every pair implement
  `RegistrationLease`. `LeaseInv` adds that a pair with a registration has a
  newest one (which the mapping reads) and that an unused id names no buffer.
  Assumes `OneIdSource`, that all registration ids come from one counter, and
  carries `IdsAreIssued`, that an id in use was given out by a counter: then
  no record is overwritten (`OverwritesAreCollisions`).
* `PlansStayFenced`: `PlanFence` is not inductive; `PlanKnown` (what a plan
  refers to exists) is added, since creating a buffer sets its generation to 1
  and must not do so under a plan. `KeepsReferences` states that a generation
  moves only in a step that supersedes the plans that refer to it.
* `PlansStayBound`, `DirectTransfersAreFenced`: without an assumption on ids.
  From `IdsAreIssued`, a record in use is overwritten only under an id that both
  counters have then given out, and no other step changes the pair or the
  generation of a record (`BindingKept`). The second combines `PlanFence`, `PlanBinding` and
  `RegistrationCurrent` at the moment of `begin_transfer`.
* `CommitsMatchSnapshots`: what a commit compares again is all that the decision
  rests on.
* `NoHiddenStaging`: the promise is made before the plan exists, so the
  invariant (`StagingAllowed`) is also about the decision a caller still carries.
* `BuffersStayBounded`: `Accounted` adds that the sets whose sizes are compared
  are finite and that an id that is no plan has no staging buffer. A plan's
  staging buffer is the only one that a limit does not stop.
* `DirectDecisionsAreCurrent`: a decision for a direct path, taken on copies, is
  true of the registries they were made of. `DirectRestsOnEvidence` says what
  each of the fourteen requirements asks of the evidence, and
  `DecisionOnRegistries` finds it in the registries, the registration included
  that is the newest of exactly this pair.
* `StagingNeedsEvidence`, `PathKeepsDirection`: `evaluate` for every request and
  every evidence, current or not, consistent or not.
* `DirectIffFlawless`, `RejectionsNameFlaws`, `FallbacksAreVisible`,
  `DirectionsAreKept`: the properties of the `planner` run, for every combination
  of the 24 flaws (the run tries at most two at a time), every policy, class,
  direction and support. They speak of the flaws put into
  the evidence, independently of the list of requirements.
  `Finds` gives each requirement the flaws it is there to find and `Clean(i)`
  says that none of those of requirement `i` was put in; four lemmas show how
  the requirements answer to them, and `NewestIsFound` settles which of up to three registrations
  decides. Then the first failing requirement has a flaw
  (`FirstFailureHasAFlaw`), and no flaw escapes all fourteen
  (`NoFlawIsMissed`).
* `ReceiptsMatchAttempts`, `ReceiptsAreHonest`: from `AllSettled`, which joins
  the two and adds that an attempt without a receipt has nothing verified (so
  that `begin_transfer` overstates nothing) and that an attempt that exists has
  a plan. `CompletionsAreCurrent` follows with `PlanFence`: completion itself
  asks only whether the plan is still authoritative.
* `TransfersImplementLifecycle`: every attempt implements `TransferLifecycle`,
  from the same invariant, one step per operation.

### The process around it

* `ServerDrivesCoordinator`: `ServerSpec => Spec`. Whatever processes, accept
  loop and connection threads do, the coordinator takes only steps of its own
  specification, so each theorem above is one about the running server. It
  needs `ServerInv`: what phase, step, request and reply of a connection allow
  together, and that the backlog holds each waiting connection once. From
  there, every call a handler makes is given arguments that `Next` allows.
* `LiveWorkersStayServed`: inductive with `ServerInv`. The end of a connection
  of *any* boot kills the worker, so a live worker always has a thread of
  exactly its boot (the price of this is `claim_reconnect`).
* `ReadyWorkersStayRegistered`: the registration must outlive what other
  processes of the worker do. `HoldsRegistration(k)` has it from the moment the
  coordinator granted message `k`, not only when the process learns of it;
  `BootsSeen` says that a process that was ever admitted has a boot no higher
  than the highest seen, so that nobody is admitted with its boot again. It
  assumes what `worker_main.cpp` does: message `k` registers, and none after it
  asks for another buffer or endpoint (`RegistersAt(k)`, true of the checked
  instance for `k = 6`); and that no boot id is 0, which `register_worker`
  takes for "never seen".
* `IncarnationsSurviveRestarts`, `PlansSurviveRestarts`, `FilesAreClosed`,
  `TokensStayDead`: of `DurableSpec`, a coordinator that starts with whatever
  inventory a backend has seeded it with (`Seeded`; an empty start is one case,
  that of the run another) and no file, for any number of saves, deaths and restarts. Their
  invariant is `DurableInv`: `LiveInv` about the registries in memory (the
  fences, and `References`: registrations and plans name records that exist),
  `SaverInv` about what a save has read so far, `FileInv` about the file and the
  temporary file, and `PastInv` about the epochs of processes that are gone.
  A file is closed because the registries it was written from are; the
  registries are after a restart because the file was: neither can be proved
  without the other. A record in use may be overwritten here, as happens after
  a restart: nothing is assumed about the counters.
* `FileIsDurable`: the state file implements `DurableStore`; every step of a save
  but the replacement is a stutter.

### Transport and self-test

* `FailuresHaveCauses`, `BufferStaysBounded`, `TransportImplementsChannel`: from
  `ReceiverInv`, which adds to `FailureHasACause` that no more frames were
  delivered than sent and that a payload is only read of a frame that exists and
  whose header was accepted. `ReceiverSteps` says what one call of `recv` can do;
  a byte that was read belongs to a frame that was sent, and the tests of
  `recv_frame` and `decode_frame` together are exactly `Acceptable`
  (`DecoderIsExact`).
* `NothingLeaks`: `HeldInv` says at each point of `self_test` what is allocated.
* `RealIsProved`: `Evidence` says at each point what the report may already
  claim and what the device then holds.
* `DiscoveryStaysConsistent`: `CountInv` ties records and provider to the count
  of the last discovery.

### Only model-checked

* Liveness: `DeathIsNoticed`, `HelloIsAnswered`, `SentFramesArrive`. Reasoning
  about fairness is out of the prover's reach.
* The `claim_*` runs, which show what the code does not keep.

Every invariant and every action property of the passing runs is a theorem. The
`planning` and `transfer` runs start from a seeded coordinator, to reach plans
soon; the theorems about `Spec` start with empty registries and cover the seeded
start where the inputs include the seed, which is made by `add_*` and
`publish_capability`.

## Not modelled

* Query connections of the server, which change nothing, and first frames that
  are no hello. Opening sockets and starting processes: platform I/O.
* `add_nic` and `add_storage_endpoint`, and their sections of the state file:
  registries that nothing reads. The counter `freshness`, and `next_id` where it
  numbers anything but registrations: those ids are taken from pools, and only
  registration ids can come from elsewhere.
* Rejection of damaged state files: no step of the program makes one (see the
  unflushed stream above).
* The unsupported backend: its answers are among the model's choices.
* Enumeration names, ids, results, the inspection tool.
* Registrations in `REGISTERING` or `DEREGISTERING`: the first is never
  assigned, the second exists only inside one critical section.

## What is left

Hazards without a property, each of which needs a decision of the authors about
what the code should promise first: staging from a retired buffer
(`path.cpp:351`), the two lists of a query answer (`coordinator_server.cpp:195`),
a write that fails when the stream is flushed (`persistence.cpp:303`) and the
tolerance of `baseline_return` (`cuda_backend.cpp:205`). A boot of 0
(`coordinator.cpp:102`) breaks `DeadTokensStayDead`; either the fence or the
range of boots has to change.
