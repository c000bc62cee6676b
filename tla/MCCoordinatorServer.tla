-------------------------- MODULE MCCoordinatorServer --------------------------
(***************************************************************************)
(* Small instances of the coordinator process for TLC.                     *)
(***************************************************************************)
EXTENDS CoordinatorServer, TLC

MCNone == {}
MCSupport == {"SYNTHETIC"}
MCNic == {[endpoint_class |-> "NIC", healthy |-> TRUE, support |-> "SYNTHETIC"]}
MCGpuBuffer == {[domain |-> "CUDA_DEVICE", size |-> 64, alignment |-> 64, device |-> d,
                 support |-> "SYNTHETIC"] : d \in DeviceIds}
Limits(n) == [buffers |-> n, registrations |-> n, endpoints |-> 8, plans |-> 8, attempts |-> 8]
\* Room for everybody, or for the buffer of one process only.
MCLimits == {Limits(8), Limits(1)}

NoUpdate == [provider |-> "", capability |-> "", value |-> "", support |-> "UNKNOWN"]
Send(type) == [type |-> type, update |-> NoUpdate]
Publish(provider, capability) ==
    [type |-> "PUBLISH_CAPABILITY",
     update |-> [provider |-> provider, capability |-> capability, value |-> "true",
                 support |-> "SYNTHETIC"]]

MCTokens == {HelloToken(w, b) : w \in Workers, b \in Boots}

\* What gdf_worker sends.
worker_main ==
    <<Send("PUBLISH_DEVICE"), Send("PUBLISH_ENDPOINT"), Publish("rdma", "direct_nic"),
      Publish("synthetic", "host_staging"), Send("CREATE_BUFFER"), Send("REGISTER_BUFFER"),
      Send("READY")>>

MCUpdates == {worker_main[i].update : i \in DOMAIN worker_main} \ {NoUpdate}

\* README.md:112-113: "A stale WorkerBootId or CoordinatorEpoch cannot mutate
\* current state".  So a live incarnation is taken off the live workers only
\* by the thread of a connection of that incarnation.
StaleConnectionCannotKill ==
    [][ \A w \in Workers :
          workers[w] # NoBoot /\ workers'[w] = NoBoot =>
            \E c \in Connections :
               /\ conns[c].phase = "SERVED" /\ conns'[c].phase = "CLOSED"
               /\ conns[c].token.worker = w /\ conns[c].token.boot = workers[w] ]_serverVars
===============================================================================
