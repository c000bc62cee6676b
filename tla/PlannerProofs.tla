----------------------------- MODULE PlannerProofs -----------------------------
(***************************************************************************)
(* What PathPlanner::evaluate decides, for every request and every         *)
(* evidence, current or not, consistent or not.                            *)
(***************************************************************************)
EXTENDS PathPlanner, TLAPS

\* A set of positions in the list of requirements has a first one.
LEMMA FirstPosition ==
    ASSUME NEW S, S \subseteq 1..15, S # {}
    PROVE  \E i \in S : \A j \in S : i <= j
  <1> SUFFICES ASSUME \A i \in S : \E j \in S : j < i PROVE FALSE
    OBVIOUS
  <1>1. 1 \notin S
    OBVIOUS
  <1>2. 2 \notin S
    BY <1>1
  <1>3. 3 \notin S
    BY <1>1, <1>2
  <1>4. 4 \notin S
    BY <1>1, <1>2, <1>3
  <1>5. 5 \notin S
    BY <1>1, <1>2, <1>3, <1>4
  <1>6. 6 \notin S
    BY <1>1, <1>2, <1>3, <1>4, <1>5
  <1>7. 7 \notin S
    BY <1>1, <1>2, <1>3, <1>4, <1>5, <1>6
  <1>8. 8 \notin S
    BY <1>1, <1>2, <1>3, <1>4, <1>5, <1>6, <1>7
  <1>9. 9 \notin S
    BY <1>1, <1>2, <1>3, <1>4, <1>5, <1>6, <1>7, <1>8
  <1>10. 10 \notin S
    BY <1>1, <1>2, <1>3, <1>4, <1>5, <1>6, <1>7, <1>8, <1>9
  <1>11. 11 \notin S
    BY <1>1, <1>2, <1>3, <1>4, <1>5, <1>6, <1>7, <1>8, <1>9, <1>10
  <1>12. 12 \notin S
    BY <1>1, <1>2, <1>3, <1>4, <1>5, <1>6, <1>7, <1>8, <1>9, <1>10, <1>11
  <1>13. 13 \notin S
    BY <1>1, <1>2, <1>3, <1>4, <1>5, <1>6, <1>7, <1>8, <1>9, <1>10, <1>11, <1>12
  <1>14. 14 \notin S
    BY <1>1, <1>2, <1>3, <1>4, <1>5, <1>6, <1>7, <1>8, <1>9, <1>10, <1>11, <1>12, <1>13
  <1>15. 15 \notin S
    BY <1>1, <1>2, <1>3, <1>4, <1>5, <1>6, <1>7, <1>8, <1>9, <1>10, <1>11, <1>12, <1>13, <1>14
  <1>16. PICK i \in S : TRUE
    OBVIOUS
  <1>17. i \in 1..15
    BY <1>16
  <1>18. \/ i = 1 \/ i = 2 \/ i = 3 \/ i = 4 \/ i = 5 \/ i = 6 \/ i = 7 \/ i = 8
         \/ i = 9 \/ i = 10 \/ i = 11 \/ i = 12 \/ i = 13 \/ i = 14 \/ i = 15
    BY <1>17
  <1>19. QED
    BY <1>1, <1>2, <1>3, <1>4, <1>5, <1>6, <1>7, <1>8, <1>9, <1>10, <1>11, <1>12, <1>13,
       <1>14, <1>15, <1>16, <1>18

\* Fourteen requirements, each with an outcome that is neither direct nor
\* staged, and behind them the entry that offers the direct path.
LEMMA RequirementList ==
    ASSUME NEW req, NEW ev
    PROVE  LET rs == Requirements(req, ev) IN
           /\ DOMAIN rs = 1..15
           /\ \A i \in 1..14 :
                 rs[i].outcome \in PathEligibility \ (DirectOutcome \cup {"FALLBACK_REQUIRED"})
           /\ ~rs[15].holds /\ rs[15].outcome \in DirectOutcome
  BY DEF Requirements, Requirement, PathEligibility, DirectOutcome

\* The requirement that decides fails, and all before it hold.
LEMMA DecidingIsFirst ==
    ASSUME NEW req, NEW ev
    PROVE  \E i \in 1..15 :
              /\ Deciding(req, ev) = Requirements(req, ev)[i]
              /\ ~Requirements(req, ev)[i].holds
              /\ \A j \in 1..15 : j < i => Requirements(req, ev)[j].holds
  <1> DEFINE rs == Requirements(req, ev)
             failed == {i \in DOMAIN rs : ~rs[i].holds}
             first == CHOOSE i \in failed : \A j \in failed : i <= j
  <1>1. DOMAIN rs = 1..15 /\ ~rs[15].holds
    BY RequirementList
  <1> HIDE DEF rs
  <1>2. failed \subseteq 1..15 /\ 15 \in failed
    BY <1>1
  <1>3. \E i \in failed : \A j \in failed : i <= j
    BY <1>2, FirstPosition
  <1>4. first \in failed /\ \A j \in failed : first <= j
    BY <1>3
  <1>5. Deciding(req, ev) = rs[first]
    BY DEF Deciding, rs
  <1> HIDE DEF first
  <1>6. \A j \in 1..15 : j < first => rs[j].holds
    BY <1>1, <1>2, <1>4
  <1>7. QED
    BY <1>2, <1>4, <1>5, <1>6 DEF rs

\* The planner offers a direct path only if every one of its requirements
\* holds: no staging capability, policy or other evidence makes up for one
\* that does not.
LEMMA DirectNeedsEveryRequirement ==
    ASSUME NEW req, NEW ev, evaluate(req, ev).eligibility \in DirectOutcome
    PROVE  \A i \in 1..14 : Requirements(req, ev)[i].holds
  <1> DEFINE rs == Requirements(req, ev)
             d == Deciding(req, ev)
  <1>1. PICK i \in 1..15 : /\ d = rs[i] /\ ~rs[i].holds
                           /\ \A j \in 1..15 : j < i => rs[j].holds
    BY DecidingIsFirst
  <1>2. /\ \A j \in 1..14 :
              rs[j].outcome \in PathEligibility \ (DirectOutcome \cup {"FALLBACK_REQUIRED"})
        /\ ~rs[15].holds /\ rs[15].outcome \in DirectOutcome
    BY RequirementList
  <1>3. evaluate(req, ev).eligibility
          = IF d.outcome \notin DirectOutcome /\ FallbackAllowed(req, ev)
            THEN "FALLBACK_REQUIRED" ELSE d.outcome
    BY DEF evaluate
  <1> HIDE DEF rs, d
  <1>4. d.outcome \in DirectOutcome <=> i = 15
    BY <1>1, <1>2
  <1>5. evaluate(req, ev).eligibility \in DirectOutcome <=> d.outcome \in DirectOutcome
    BY <1>3 DEF DirectOutcome
  <1>6. i = 15 <=> \A j \in 1..14 : rs[j].holds
    BY <1>1
  <1>7. QED
    BY <1>4, <1>5, <1>6 DEF rs

\* What a direct path rests on, in terms of the evidence and for every request
\* and evidence: an ACTIVE source that holds the request, a usable destination,
\* a device, an available provider with the capability, and a registration of
\* source and destination, none newer, that is active, of their generations
\* and of a live owner.
LEMMA DirectRestsOnEvidence ==
    ASSUME NEW req, NEW ev, evaluate(req, ev).eligibility \in DirectOutcome
    PROVE  /\ ev.sourceId # Nil /\ ev.source.lifecycle = "ACTIVE" /\ req.size <= ev.source.size
           /\ DestinationUsable(ev) /\ ev.deviceId # Nil
           /\ \E p \in ev.providers :
                p.name = provider_for(ev.destination.endpoint_class) /\ p.available
           /\ \E c \in ev.capabilities :
                /\ c.provider = provider_for(ev.destination.endpoint_class)
                /\ c.capability = cap_for(ev.destination.endpoint_class)
                /\ c.value = "true"
           /\ \E r \in ev.registrations :
                /\ r.buffer = ev.sourceId /\ r.endpoint = ev.destinationId
                /\ \A q \in ev.registrations :
                      q.buffer = r.buffer /\ q.endpoint = r.endpoint =>
                        q.generation <= r.generation
                /\ r.state = "REGISTERED"
                /\ r.buffer_generation = ev.source.generation
                /\ r.endpoint_generation = ev.destination.generation
                /\ AuthorityLive(r.authority, ev.epoch, ev.workers)
  <1> DEFINE rs == Requirements(req, ev)
  <1>1. \A i \in 1..14 : rs[i].holds
    BY DirectNeedsEveryRequirement
  <1> HIDE DEF rs
  <1>2. rs[1].holds /\ rs[2].holds /\ rs[3].holds /\ rs[5].holds /\ rs[8].holds
    BY <1>1
  <1>3. rs[9].holds /\ rs[10].holds
    BY <1>1
  <1>4. rs[11].holds /\ rs[12].holds /\ rs[13].holds
    BY <1>1
  <1>5. /\ ev.sourceId # Nil /\ ev.source.lifecycle = "ACTIVE" /\ req.size <= ev.source.size
        /\ DestinationUsable(ev) /\ ev.deviceId # Nil
    BY <1>2 DEF rs, Requirements, Requirement, DestinationUsable
  <1>6. /\ provider_available(ev, provider_for(ev.destination.endpoint_class))
        /\ \E c \in capability_for(ev, provider_for(ev.destination.endpoint_class),
                                   cap_for(ev.destination.endpoint_class)) : c.value = "true"
    BY <1>3 DEF rs, Requirements, Requirement
  <1>7. /\ find_registration(ev) # {}
        /\ \A r \in find_registration(ev) : /\ RegistrationMatches(r, ev)
                                            /\ AuthorityLive(r.authority, ev.epoch, ev.workers)
    BY <1>4 DEF rs, Requirements, Requirement
  <1>8. QED
    BY <1>5, <1>6, <1>7
    DEF provider_available, capability_for, find_registration, RegistrationMatches

\* Staging is the outcome only for a caller that allows it, towards a known
\* and healthy destination, and with staging observed in the current epoch;
\* the direct path was rejected, for every request and evidence.
THEOREM StagingNeedsEvidence ==
    ASSUME NEW req, NEW ev, evaluate(req, ev).eligibility = "FALLBACK_REQUIRED"
    PROVE  /\ req.policy # "DIRECT_ONLY"
           /\ DestinationUsable(ev)
           /\ \E c \in ev.capabilities :
                /\ c.capability = "host_staging" /\ c.value = "true"
                /\ c.support # "UNSUPPORTED" /\ c.authority.epoch = ev.epoch
           /\ evaluate(req, ev).direct_eligibility
                \in PathEligibility \ (DirectOutcome \cup {"FALLBACK_REQUIRED"})
  <1> DEFINE rs == Requirements(req, ev)
             d == Deciding(req, ev)
  <1>1. PICK i \in 1..15 : d = rs[i]
    BY DecidingIsFirst
  <1>2. /\ \A j \in 1..14 :
              rs[j].outcome \in PathEligibility \ (DirectOutcome \cup {"FALLBACK_REQUIRED"})
        /\ rs[15].outcome \in DirectOutcome
    BY RequirementList
  <1>3. /\ evaluate(req, ev).eligibility
             = IF d.outcome \notin DirectOutcome /\ FallbackAllowed(req, ev)
               THEN "FALLBACK_REQUIRED" ELSE d.outcome
        /\ evaluate(req, ev).direct_eligibility = d.outcome
    BY DEF evaluate
  <1> HIDE DEF rs, d
  <1>4. d.outcome # "FALLBACK_REQUIRED"
    BY <1>1, <1>2 DEF DirectOutcome
  <1>5. d.outcome \notin DirectOutcome /\ FallbackAllowed(req, ev)
    BY <1>3, <1>4
  <1>6. d.outcome \in PathEligibility \ (DirectOutcome \cup {"FALLBACK_REQUIRED"})
    BY <1>1, <1>2, <1>5
  <1>7. QED
    BY <1>3, <1>5, <1>6 DEF FallbackAllowed, host_staging_available

\* The class of the path that is chosen, direct or staged, moves data in the
\* direction that was asked for, for every class of endpoint and every
\* evidence: classify_direct, add_fallback_candidates and
\* path_direction_suffix agree on which classes lead to the GPU.
THEOREM PathKeepsDirection ==
    ASSUME NEW req, req.direction \in Direction, NEW ev,
           evaluate(req, ev).path_class # "GPU_TO_GPU_DIRECT"
    PROVE  path_direction_suffix(evaluate(req, ev).path_class) = "to_gpu"
             <=> req.direction = "PEER_TO_GPU"
  <1> DEFINE cls == ev.destination.endpoint_class
             class == evaluate(req, ev).path_class
  <1>1. class \in {add_fallback_candidates(req.direction, cls), classify_direct(req.direction, cls)}
    BY DEF evaluate
  <1>2. CASE class = add_fallback_candidates(req.direction, cls)
    BY <1>2 DEF add_fallback_candidates, path_direction_suffix, Direction
  <1>3. CASE class = classify_direct(req.direction, cls)
    BY <1>3 DEF classify_direct, path_direction_suffix, Direction
  <1>4. QED
    BY <1>1, <1>2, <1>3
===============================================================================
