--------------------------- MODULE CoordinatorServer ---------------------------
(***************************************************************************)
(* The coordinator process and its workers.  One thread accepts            *)
(* connections and reads the first frame of each, one thread per worker    *)
(* connection applies requests to the coordinator, and a worker process    *)
(* sends one request at a time and waits for the answer.  A process can be *)
(* killed at any moment; its connection thread finds out when it next      *)
(* reads, after any frame that still reached the socket.                   *)
(*                                                                         *)
(* Frames are delivered in order by TCP, so that a connection is one slot  *)
(* for the request on its way and one for the answer.  Only well-formed    *)
(* frames are sent.  Connections that only query the state are left out:   *)
(* they change nothing.                                                    *)
(***************************************************************************)
EXTENDS Coordinator

CONSTANTS
    Connections,  \* pool of connections, one for each worker process
    Program       \* what a process sends after its hello, in order: a sequence
                  \* of [type, update], update being the capability to publish

MessageType ==
    {"PUBLISH_DEVICE", "PUBLISH_ENDPOINT", "PUBLISH_CAPABILITY", "CREATE_BUFFER",
     "REGISTER_BUFFER", "READY"}

\* The token of a process is the one its hello names; the epoch it names is 1.
HelloToken(w, b) == [worker |-> w, boot |-> b, epoch |-> 1]

\* What processes present is among what callers of the coordinator present.
\* A program registers once: a duplicate registration, which is answered with
\* the one on file and changes nothing, is not sent.  The server passes no
\* backend on: every id is the coordinator's.
ASSUME ConnectionAssumption ==
    /\ Program \in Seq([type : MessageType,
                        update : [provider : STRING, capability : STRING, value : STRING,
                                  support : Support]])
    /\ \A i \in DOMAIN Program :
          Program[i].type = "PUBLISH_CAPABILITY" => Program[i].update \in CapabilityUpdates
    /\ \A i, j \in DOMAIN Program :
          Program[i].type = "REGISTER_BUFFER" /\ Program[j].type = "REGISTER_BUFFER" => i = j
    /\ \A w \in Workers, b \in Boots : HelloToken(w, b) \in Authorities
    /\ MaxEpoch >= 1
    /\ IdSources = {"coordinator"}

VARIABLES
    conns,    \* both ends of each connection
    backlog   \* connections without a thread; the accept loop reads from the first

serverVars == <<vars, conns, backlog>>

\* up: the process lives.  step: how many of its requests were granted, the
\* hello included.  device, endpoint, buffer: the ids it was given.
NoConnection ==
    [phase |-> "FREE", up |-> FALSE, token |-> coordinator_authority, step |-> 0,
     request |-> FALSE, reply |-> "NONE", id |-> Nil,
     device |-> Nil, endpoint |-> Nil, buffer |-> Nil]

Done(c) == conns[c].step > Len(Program)
Message(c) == IF conns[c].step = 0 THEN "HELLO" ELSE Program[conns[c].step].type

-------------------------------------------------------------------------------
(* The worker process. *)

\* Started by hand with a worker and a boot id.
connect(c, w, b) ==
    /\ conns[c].phase = "FREE"
    /\ conns' = [conns EXCEPT ![c] =
          [NoConnection EXCEPT !.phase = "BACKLOG", !.up = TRUE,
                               !.token = HelloToken(w, b)]]
    /\ backlog' = Append(backlog, c)
    /\ UNCHANGED vars

send_frame(c) ==
    /\ conns[c].up /\ ~conns[c].request /\ conns[c].reply = "NONE"
    /\ ~Done(c)
    /\ conns' = [conns EXCEPT ![c].request = TRUE]
    /\ UNCHANGED <<vars, backlog>>

\* An answer that is not an ACK ends the process.
recv_ack(c) ==
    LET conn == conns[c]
        given(type, old) == IF Message(c) = type THEN conn.id ELSE old
    IN  /\ conn.up /\ conn.reply # "NONE"
        /\ conns' = [conns EXCEPT ![c] =
              IF conn.reply = "ACK"
              THEN [conn EXCEPT !.step = @ + 1, !.reply = "NONE", !.id = Nil,
                                !.device = given("PUBLISH_DEVICE", @),
                                !.endpoint = given("PUBLISH_ENDPOINT", @),
                                !.buffer = given("CREATE_BUFFER", @)]
              ELSE [conn EXCEPT !.up = FALSE, !.reply = "NONE"]]
        /\ UNCHANGED <<vars, backlog>>

\* A frame that was sent may or may not have reached the coordinator.
terminate_process(c) ==
    /\ conns[c].up
    /\ \E reached \in {conns[c].request, FALSE} :
          conns' = [conns EXCEPT ![c] =
            [@ EXCEPT !.up = FALSE, !.request = reached, !.reply = "NONE", !.id = Nil]]
    /\ UNCHANGED <<vars, backlog>>

-------------------------------------------------------------------------------
(* The accept loop: it waits for the hello of one connection at a time. *)
Answer(c, phase, reply, id) ==
    conns' = [conns EXCEPT ![c] = [@ EXCEPT !.phase = phase, !.request = FALSE,
                                            !.reply = IF conns[c].up THEN reply ELSE "NONE",
                                            !.id = IF conns[c].up THEN id ELSE Nil]]

accept_hello(c) ==
    LET token == conns[c].token
    IN  /\ backlog # <<>> /\ c = Head(backlog)
        /\ conns[c].request
        /\ backlog' = Tail(backlog)
        /\ \/ /\ register_worker(token.worker, token.boot, token.epoch)
              /\ Answer(c, "SERVED", "ACK", Nil)
           \/ /\ ~(token.epoch = epoch /\ Admits(token.worker, token.boot))
              /\ UNCHANGED vars
              /\ Answer(c, "CLOSED", "NACK", Nil)

accept_lost_Fault(c) ==
    /\ backlog # <<>> /\ c = Head(backlog)
    /\ ~conns[c].request /\ ~conns[c].up
    /\ UNCHANGED serverVars

accept_lost(c) ==
    /\ backlog # <<>> /\ c = Head(backlog)
    /\ ~conns[c].request /\ ~conns[c].up
    /\ backlog' = Tail(backlog)
    /\ conns' = [conns EXCEPT ![c].phase = "CLOSED"]
    /\ UNCHANGED vars

-------------------------------------------------------------------------------
(* The thread of a worker connection. *)

\* Ids come from the coordinator's counter: the next one is determined, as
\* long as the pool, which stands for the counter, is not used up.
IsNextId(id, free) == id \in free /\ id = CHOOSE x \in free : TRUE

\* A registration needs a buffer and an endpoint that the process was given
\* and that can be registered.
Unregistrable(c) ==
    LET b == conns[c].buffer
        e == conns[c].endpoint
    IN  /\ Message(c) = "REGISTER_BUFFER"
        /\ ~(/\ b \in BufferIds /\ buffers[b].lifecycle = "ACTIVE"
             /\ e \in EndpointIds /\ endpoints[e].support # "UNSUPPORTED")

\* The request of c is granted; the id in the answer is `id`.
Granted(c, id) ==
    LET token == conns[c].token
        update == Program[conns[c].step].update
    IN  \/ /\ Message(c) = "PUBLISH_DEVICE"
           /\ IsNextId(id, DeviceIds \ devices)
           /\ add_device(id, token)
        \/ /\ Message(c) = "PUBLISH_ENDPOINT"
           /\ IsNextId(id, {e \in EndpointIds : ~endpoints[e].present})
           /\ \E shape \in EndpointShapes : add_endpoint(id, shape, token)
        \/ /\ Message(c) = "PUBLISH_CAPABILITY"
           /\ id = Nil
           /\ publish_capability(update, token)
        \/ /\ Message(c) = "CREATE_BUFFER"
           /\ IsNextId(id, {b \in BufferIds : buffers[b].lifecycle = "NONE"})
           /\ \E shape \in BufferShapes :
                shape.device = conns[c].device /\ create_buffer(id, shape, token)
        \/ /\ Message(c) = "REGISTER_BUFFER"
           /\ IsNextId(id, RegistrationIds \ issued["coordinator"])
           /\ ~Unregistrable(c)
           /\ \E g \in 1..MaxGeneration, support \in RegistrationSupport :
                register_buffer(conns[c].buffer, conns[c].endpoint, token, id, g, support)
        \/ /\ Message(c) = "READY"
           /\ id = Nil
           /\ UNCHANGED vars

\* A registry that is full takes no more.
AtLimit(c) ==
    <<Message(c), TRUE>> \in {<<"PUBLISH_ENDPOINT", EndpointCount >= limits.endpoints>>,
                              <<"CREATE_BUFFER", BufferCount >= limits.buffers>>,
                              <<"REGISTER_BUFFER", RegistrationCount >= limits.registrations>>}

\* Every request but READY is refused to a token that is not live.
Refused(c) ==
    Message(c) # "READY" /\ (~MayPublish(conns[c].token) \/ AtLimit(c) \/ Unregistrable(c))

handle_worker_message(c) ==
    /\ conns[c].phase = "SERVED" /\ conns[c].request
    /\ \/ \E id \in {Nil} \cup DeviceIds \cup EndpointIds \cup BufferIds \cup RegistrationIds :
             Granted(c, id) /\ Answer(c, "SERVED", "ACK", id)
       \/ Refused(c) /\ UNCHANGED vars /\ Answer(c, "SERVED", "NACK", Nil)
    /\ UNCHANGED backlog

connection_lost_Fault(c) ==
    /\ conns[c].phase = "SERVED" /\ ~conns[c].request /\ ~conns[c].up
    /\ conns' = [conns EXCEPT ![c].phase = "CLOSED"]
    /\ UNCHANGED <<vars, backlog>>

\* The thread ends and declares the worker dead, whatever its boot is by now.
connection_lost(c) ==
    /\ conns[c].phase = "SERVED" /\ ~conns[c].request /\ ~conns[c].up
    /\ mark_worker_dead(conns[c].token.worker)
    /\ conns' = [conns EXCEPT ![c].phase = "CLOSED"]
    /\ UNCHANGED backlog

-------------------------------------------------------------------------------
ServerInit ==
    /\ Init
    /\ conns = [c \in Connections |-> NoConnection]
    /\ backlog = <<>>

Worker(c) == send_frame(c) \/ recv_ack(c)
AcceptLoop == \E c \in Connections : accept_hello(c) \/ accept_lost(c)
ConnectionThread(c) == handle_worker_message(c) \/ connection_lost(c)

ServerNext ==
    \/ \E c \in Connections, w \in Workers, b \in Boots : connect(c, w, b)
    \/ \E c \in Connections : Worker(c) \/ terminate_process(c)
    \/ AcceptLoop
    \/ \E c \in Connections : ConnectionThread(c)

\* Threads and processes that can take a step are scheduled; nobody has to
\* start a process or to kill one.
Fairness ==
    /\ WF_serverVars(AcceptLoop)
    /\ \A c \in Connections : WF_serverVars(Worker(c)) /\ WF_serverVars(ConnectionThread(c))

ServerSpec == ServerInit /\ [][ServerNext]_serverVars /\ Fairness

-------------------------------------------------------------------------------
\* No immortal worker: for every live incarnation there is a thread, of a
\* connection that said hello with exactly this boot, that will declare it
\* dead (run starts the thread only after register_worker has succeeded).
LiveWorkerIsServed ==
    \A w \in Workers : workers[w] # NoBoot =>
        \E c \in Connections :
            /\ conns[c].phase = "SERVED"
            /\ conns[c].token.worker = w /\ conns[c].token.boot = workers[w]

\* A process that was told it is ready, and whose incarnation is the live
\* one, holds an active registration of the buffer and the endpoint it was
\* given, however many processes of the same worker come and go.
ReadyWorkerIsRegistered ==
    \A c \in Connections :
        /\ conns[c].up /\ Done(c)
        /\ workers[conns[c].token.worker] = conns[c].token.boot
        => \E r \in RegistrationIds :
              /\ registrations[r].state = "REGISTERED"
              /\ registrations[r].authority = conns[c].token
              /\ registrations[r].buffer = conns[c].buffer
              /\ registrations[r].endpoint = conns[c].endpoint

Connected(w) == \E c \in Connections : conns[c].up /\ conns[c].token.worker = w

\* Once no process of a worker is left, its death is noticed: it is taken off
\* the live workers and none of its registrations stays active, unless a new
\* process comes up first.
DeathIsNoticed ==
    \A w \in Workers :
        ~Connected(w) ~>
          \/ Connected(w)
          \/ /\ workers[w] = NoBoot
             /\ \A r \in RegistrationIds : registrations[r].authority.worker = w =>
                   registrations[r].state # "REGISTERED"

\* Every hello is answered: a process that dies before it says hello does not
\* keep the accept loop from the connections behind it.
HelloIsAnswered ==
    \A c \in Connections :
        conns[c].phase = "BACKLOG" /\ conns[c].request ~> conns[c].phase # "BACKLOG"
===============================================================================
