----------------------------- MODULE MCCoordinator -----------------------------
(***************************************************************************)
(* Small instances of the coordinator for TLC.                             *)
(***************************************************************************)
EXTENDS CoordinatorProperties, TLC

\* The tokens the tests use: those of every worker incarnation under every
\* epoch, and of the coordinator.
MCWorkerTokens == [worker : Workers, boot : Boots, epoch : 1..MaxEpoch]
MCFewTokens == MCWorkerTokens \cup [worker : {Nil}, boot : {0}, epoch : {1}]

GpuBuffer(device) ==
    [domain |-> "CUDA_DEVICE", size |-> 64, alignment |-> 64, device |-> device,
     support |-> "SYNTHETIC"]
MCGpuBuffers == {GpuBuffer(Nil)}
MCDeviceBuffers == {GpuBuffer(d) : d \in DeviceIds}

MCNic == {[endpoint_class |-> "NIC", healthy |-> TRUE, support |-> "SYNTHETIC"]}
MCNone == {}

\* One incarnation and the coordinator, under the first epoch only.
MCFirstEpoch == [worker : Workers, boot : Boots, epoch : {1}]
                  \cup [worker : {Nil}, boot : {0}, epoch : {1}]

MCProviders == {[name |-> "rdma", available |-> TRUE, support |-> "SYNTHETIC"]}
MCDirect == {[provider |-> "rdma", capability |-> "direct_nic", value |-> "true",
              support |-> "SYNTHETIC"]}
MCStaging == {[provider |-> "synthetic", capability |-> "host_staging", value |-> "true",
               support |-> "SYNTHETIC"]}
MCCapabilities == MCDirect \cup MCStaging

Ask(policy, size) == [policy |-> policy, direction |-> "GPU_TO_PEER", size |-> size]
MCRequests == {Ask("DIRECT_ONLY", 64), Ask("PREFER_DIRECT", 64)}
MCDirectRequest == {Ask("DIRECT_ONLY", 64)}

MCSupport == {"SYNTHETIC"}

Outcome(failed, moved, checked, passed) ==
    [failed |-> failed, moved |-> moved, checked |-> checked, passed |-> passed]
\* no backend; backend error; synthetic success and corruption; a mismatch
\* the backend does not call a failure; a short transfer
MCOutcomes ==
    {Outcome(FALSE, FALSE, FALSE, FALSE), Outcome(TRUE, FALSE, FALSE, FALSE),
     Outcome(FALSE, TRUE, TRUE, TRUE), Outcome(TRUE, TRUE, TRUE, FALSE),
     Outcome(FALSE, TRUE, TRUE, FALSE), Outcome(FALSE, FALSE, TRUE, TRUE)}
MCSuccess == {Outcome(FALSE, TRUE, TRUE, TRUE)}

Limits(n) == [buffers |-> n, registrations |-> n, endpoints |-> n, plans |-> n, attempts |-> n]
MCLimits == {Limits(8)}
\* One buffer at most is created by a caller, any other is a staging buffer.
MCOneBuffer == {[Limits(8) EXCEPT !.buffers = 1]}

\* A bound on the instance: a device is added before there is a registration or
\* not at all, since no buffer of this instance lies on one.
DevicesComeEarly ==
    devices = {} \/ \A r \in RegistrationIds : registrations[r] = NoRegistration

\* A bound on the instance: the two counters are interchangeable, so the
\* backend's gives out an id first.  The coordinator's gives it out again only
\* while epoch, buffers and endpoints are at their first generation; what
\* happens to the plan afterwards is not explored.
CollisionsComeEarly ==
    \/ issued["coordinator"] = {}
    \/ /\ issued["coordinator"] \subseteq issued["backend"]
       /\ epoch = 1
       /\ \A b \in BufferIds : buffers[b].generation <= 1
       /\ \A e \in EndpointIds : endpoints[e].generation = 1

\* A coordinator filled from the synthetic backend, as every test and tool
\* starts: providers, devices and endpoints owned by the coordinator, and
\* capabilities published under its epoch.
seed_synthetic(observed) ==
    /\ epoch = 1
    /\ workers = [w \in Workers |-> NoBoot]
    /\ worker_max_boot = [w \in Workers |-> NoBoot]
    /\ limits \in LimitSettings
    /\ issued = [source \in IdSource |-> {}]
    /\ buffers = [b \in BufferIds |-> NoBuffer]
    /\ endpoints = [e \in EndpointIds |->
          [present |-> TRUE, generation |-> 1, authority |-> coordinator_authority,
           endpoint_class |-> "NIC", healthy |-> TRUE, support |-> "SYNTHETIC"]]
    /\ devices = DeviceIds
    /\ providers = MCProviders
    /\ capabilities = {[provider |-> u.provider, capability |-> u.capability,
                        value |-> u.value, support |-> u.support,
                        authority |-> [coordinator_authority EXCEPT !.epoch = epoch]] :
                         u \in observed}
    /\ registrations = [r \in RegistrationIds |-> NoRegistration]
    /\ plans = [p \in PlanIds |-> NoPlan]
    /\ attempts = [t \in AttemptIds |-> NoAttempt]
    /\ receipts = [t \in AttemptIds |-> NoReceipt]
    /\ verifications = {}
    /\ pending = [c \in Callers |-> NoDecision]

SeededSpec == seed_synthetic(MCCapabilities) /\ [][Next]_vars
\* without the staging capability, which DIRECT_ONLY requests never use
DirectSpec == seed_synthetic(MCDirect) /\ [][Next]_vars

Symmetry ==
    Permutations(Workers) \cup Permutations(RegistrationIds) \cup Permutations(BufferIds)
      \cup Permutations(PlanIds) \cup Permutations(AttemptIds)
===============================================================================
