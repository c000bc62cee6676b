--------------------------- MODULE CoordinatorClaims ---------------------------
(***************************************************************************)
(* What the repository's documentation says of the coordinator and the     *)
(* code does not keep; TLC finds the behaviour that contradicts it.        *)
(***************************************************************************)
EXTENDS MCCoordinator

\* README.md:24-29: a direct path is valid only while endpoint, transport
\* capability, ownership and execution authority remain current; a stale one
\* is revalidated before use.  So a direct transfer does not start when the
\* owner of the plan's registration is dead, the endpoint is unhealthy and the
\* capability was observed in a past epoch, all at once.  (A worker that
\* reconnects while connected leaves the registrations of its previous
\* incarnation REGISTERED, set_endpoint_health leaves plans alone,
\* capability_for does not compare epochs, and begin_transfer looks at none
\* of the three.)
StalePathIsNotUsed ==
    [][ \A t \in AttemptIds :
          attempts[t].state = "NONE" /\ attempts'[t].state # "NONE" =>
            LET plan == plans[attempts'[t].plan]
                dst == endpoints[plan.destination]
            IN  plan.eligibility \in DirectOutcome =>
                  \/ worker_live_locked(registrations[plan.registration_id].authority)
                  \/ dst.healthy
                  \/ \A c \in capabilities :
                        c.capability = cap_for(dst.endpoint_class) =>
                          c.authority.epoch = epoch ]_vars
===============================================================================
