------------------------------ MODULE ServerProofs ------------------------------
(***************************************************************************)
(* The coordinator process, for every number of workers, boots and         *)
(* connections and every program a worker may run: processes start, ask    *)
(* and are killed in any order.                                            *)
(***************************************************************************)
EXTENDS CoordinatorServer, CoordinatorProofs

Ids == {Nil} \cup DeviceIds \cup EndpointIds \cup BufferIds \cup RegistrationIds

Connection ==
    [phase : {"FREE", "BACKLOG", "SERVED", "CLOSED"}, up : BOOLEAN, token : AuthorityRecord,
     step : Nat, request : BOOLEAN, reply : {"NONE", "ACK", "NACK"}, id : Ids,
     device : Ids, endpoint : Ids, buffer : Ids]

\* A connection in use carries the token of a hello; a request or an answer
\* on its way belongs to a message of the program, and only one of the two is
\* on its way.
ConnectionOK(conn) ==
    /\ conn \in Connection
    /\ conn.phase # "FREE" =>
          conn.token \in {HelloToken(w, b) : w \in Workers, b \in Boots}
    /\ conn.phase = "FREE" => ~conn.up /\ ~conn.request
    /\ conn.phase \in {"FREE", "BACKLOG"} => conn.reply = "NONE" /\ conn.step = 0
    /\ conn.request => conn.step <= Len(Program)
    /\ conn.reply # "NONE" => ~conn.request /\ conn.step <= Len(Program)

ConnectionsOK ==
    /\ conns = [c \in Connections |-> conns[c]]
    /\ \A c \in Connections : ConnectionOK(conns[c])

\* The connections that wait for the accept loop are in phase BACKLOG and
\* wait once.
BacklogOK ==
    /\ backlog \in Seq(Connections)
    /\ \A i \in 1..Len(backlog) : conns[backlog[i]].phase = "BACKLOG"
    /\ \A i, j \in 1..Len(backlog) : backlog[i] = backlog[j] => i = j

ServerInv == ConnectionsOK /\ BacklogOK

-------------------------------------------------------------------------------
\* A step changes one connection.
LEMMA OneConnection ==
    ASSUME ConnectionsOK, NEW c \in Connections, NEW conn, ConnectionOK(conn),
           conns' = [conns EXCEPT ![c] = conn]
    PROVE  ConnectionsOK' /\ conns'[c] = conn /\ \A k \in Connections \ {c} : conns'[k] = conns[k]
  <1>1. DOMAIN conns = Connections
    BY DEF ConnectionsOK
  <1>2. conns' = [k \in Connections |-> IF k = c THEN conn ELSE conns[k]]
    BY <1>1
  <1>3. conns'[c] = conn /\ \A k \in Connections \ {c} : conns'[k] = conns[k]
    BY <1>2
  <1>4. QED
    BY <1>2, <1>3 DEF ConnectionsOK, ConnectionOK

\* What a step of connection c leaves alone: the other connections.
Only(c) == \A k \in Connections \ {c} : conns'[k] = conns[k]

\* A connection nobody uses is well formed.
LEMMA EmptyConnection ==
    /\ NoConnection \in Connection /\ NoConnection.phase = "FREE" /\ ~NoConnection.up
    /\ NoConnection.step = 0 /\ NoConnection.reply = "NONE" /\ ~NoConnection.request
  <1>1. coordinator_authority \in AuthorityRecord
    BY DEF coordinator_authority, AuthorityRecord
  <1>2. QED
    BY <1>1 DEF NoConnection, Connection, Ids

\* A new process takes a connection that nobody used.
LEMMA ConnectEffect ==
    ASSUME ConnectionsOK, NEW c \in Connections, NEW w \in Workers, NEW b \in Boots,
           connect(c, w, b)
    PROVE  /\ ConnectionsOK' /\ Only(c)
           /\ conns[c].phase = "FREE" /\ conns'[c].phase = "BACKLOG"
           /\ conns'[c].step = 0 /\ conns'[c].reply = "NONE" /\ ~conns'[c].request
  <1> DEFINE conn == [NoConnection EXCEPT !.phase = "BACKLOG", !.up = TRUE,
                                          !.token = HelloToken(w, b)]
  <1>1. HelloToken(w, b) \in AuthorityRecord
    BY InputAssumption DEF HelloToken, AuthorityRecord
  <1>2. NoConnection \in Connection /\ NoConnection.step = 0 /\ NoConnection.reply = "NONE"
    BY EmptyConnection
  <1>3. conn \in Connection
    BY <1>1, <1>2 DEF Connection
  <1>4. /\ conn.phase = "BACKLOG" /\ conn.token = HelloToken(w, b) /\ conn.step = 0
        /\ conn.reply = "NONE" /\ ~conn.request
    BY <1>2, EmptyConnection DEF Connection
  <1>5. Len(Program) \in Nat
    BY ConnectionAssumption
  <1>6. ConnectionOK(conn)
    BY <1>3, <1>4, <1>5 DEF ConnectionOK
  <1>7. conns' = [conns EXCEPT ![c] = conn]
    BY DEF connect
  <1> HIDE DEF conn
  <1>8. ConnectionsOK' /\ conns'[c] = conn /\ Only(c)
    BY <1>6, <1>7, OneConnection DEF Only
  <1>9. QED
    BY <1>4, <1>8 DEF connect

\* send_frame, recv_ack and terminate_process are steps of the process: they
\* keep the phase and the token.
LEMMA ProcessEffect ==
    ASSUME ConnectionsOK, NEW c \in Connections, Worker(c) \/ terminate_process(c)
    PROVE  /\ ConnectionsOK' /\ Only(c)
           /\ conns'[c].phase = conns[c].phase /\ conns'[c].token = conns[c].token
           /\ conns'[c].up => conns[c].up
           /\ \/ /\ conns'[c].step = conns[c].step
                 /\ conns'[c].buffer = conns[c].buffer /\ conns'[c].endpoint = conns[c].endpoint
                 /\ conns'[c].reply \in {conns[c].reply, "NONE"}
              \/ /\ conns[c].reply = "ACK" /\ conns'[c].reply = "NONE"
                 /\ conns'[c].step = conns[c].step + 1 /\ conns[c].step <= Len(Program)
                 /\ Message(c) # "CREATE_BUFFER" => conns'[c].buffer = conns[c].buffer
                 /\ Message(c) # "PUBLISH_ENDPOINT" => conns'[c].endpoint = conns[c].endpoint
  <1> DEFINE old == conns[c]
  <1>0. ConnectionOK(old) /\ DOMAIN conns = Connections
    BY DEF ConnectionsOK
  <1>t. old \in Connection
    BY <1>0 DEF ConnectionOK
  <1>n. Nil \in Ids
    BY DEF Ids
  <1>1. CASE send_frame(c)
    <2> DEFINE conn == [old EXCEPT !.request = TRUE]
    <2>1. /\ conn \in Connection /\ conn.phase = old.phase /\ conn.token = old.token
          /\ conn.step = old.step /\ conn.up = old.up /\ conn.reply = old.reply /\ conn.request
          /\ conn.buffer = old.buffer /\ conn.endpoint = old.endpoint
      BY <1>t DEF Connection
    <2>2. conns' = [conns EXCEPT ![c] = conn]
      BY <1>0, <1>1 DEF send_frame
    <2>3. old.step <= Len(Program) /\ old.reply = "NONE" /\ old.up
      BY <1>0, <1>1, ConnectionAssumption DEF send_frame, Done, ConnectionOK, Connection
    <2>4. ConnectionOK(conn)
      BY <1>0, <2>1, <2>3 DEF ConnectionOK
    <2> HIDE DEF conn
    <2>5. QED
      BY <2>1, <2>2, <2>4, OneConnection DEF Only
  <1>2. CASE recv_ack(c)
    <2>0. old.up /\ old.reply # "NONE" /\ old.phase # "FREE" /\ ~old.request
      BY <1>0, <1>2 DEF recv_ack, ConnectionOK
    <2>1. CASE old.reply = "ACK"
      <3> DEFINE given(type, x) == IF Message(c) = type THEN old.id ELSE x
                 conn == [old EXCEPT !.step = @ + 1, !.reply = "NONE", !.id = Nil,
                                     !.device = given("PUBLISH_DEVICE", @),
                                     !.endpoint = given("PUBLISH_ENDPOINT", @),
                                     !.buffer = given("CREATE_BUFFER", @)]
      <3>1. /\ conn \in Connection /\ conn.phase = old.phase /\ conn.token = old.token
            /\ conn.step = old.step + 1 /\ conn.up = old.up /\ conn.reply = "NONE"
            /\ conn.request = old.request
            /\ Message(c) # "CREATE_BUFFER" => conn.buffer = old.buffer
            /\ Message(c) # "PUBLISH_ENDPOINT" => conn.endpoint = old.endpoint
        <4> DEFINE d == given("PUBLISH_DEVICE", old.device)
                   e == given("PUBLISH_ENDPOINT", old.endpoint)
                   b == given("CREATE_BUFFER", old.buffer)
        <4>1. d \in Ids /\ e \in Ids /\ b \in Ids
          BY <1>t DEF Connection
        <4>2. /\ Message(c) # "CREATE_BUFFER" => b = old.buffer
              /\ Message(c) # "PUBLISH_ENDPOINT" => e = old.endpoint
          OBVIOUS
        <4>3. conn = [old EXCEPT !.step = old.step + 1, !.reply = "NONE", !.id = Nil,
                                 !.device = d, !.endpoint = e, !.buffer = b]
          OBVIOUS
        <4> HIDE DEF d, e, b, conn
        <4>4. old.step + 1 \in Nat
          BY <1>t DEF Connection
        <4>5. conn \in Connection
          BY <1>t, <1>n, <4>1, <4>3, <4>4 DEF Connection
        <4>6. /\ conn.phase = old.phase /\ conn.token = old.token
              /\ conn.step = old.step + 1 /\ conn.up = old.up /\ conn.reply = "NONE"
              /\ conn.request = old.request /\ conn.buffer = b /\ conn.endpoint = e
          BY <1>t, <4>3 DEF Connection
        <4>7. QED
          BY <4>2, <4>5, <4>6
      <3>2. conns' = [conns EXCEPT ![c] = conn]
        BY <1>2, <2>1 DEF recv_ack
      <3>3. ConnectionOK(conn)
        BY <1>0, <2>0, <3>1 DEF ConnectionOK
      <3>4. old.step <= Len(Program)
        BY <1>0, <2>0 DEF ConnectionOK
      <3> HIDE DEF conn
      <3>5. QED
        BY <2>1, <3>1, <3>2, <3>3, <3>4, OneConnection DEF Only
    <2>2. CASE old.reply # "ACK"
      <3> DEFINE conn == [old EXCEPT !.up = FALSE, !.reply = "NONE"]
      <3>1. /\ conn \in Connection /\ conn.phase = old.phase /\ conn.token = old.token
            /\ conn.step = old.step /\ ~conn.up /\ conn.reply = "NONE"
            /\ conn.request = old.request
            /\ conn.buffer = old.buffer /\ conn.endpoint = old.endpoint
        BY <1>t DEF Connection
      <3>2. conns' = [conns EXCEPT ![c] = conn]
        BY <1>2, <2>2 DEF recv_ack
      <3>3. ConnectionOK(conn)
        BY <1>0, <2>0, <3>1 DEF ConnectionOK
      <3> HIDE DEF conn
      <3>4. QED
        BY <3>1, <3>2, <3>3, OneConnection DEF Only
    <2>3. QED
      BY <2>1, <2>2
  <1>3. CASE terminate_process(c)
    <2>0. PICK reached \in {conns[c].request, FALSE} : conns' = [conns EXCEPT ![c] =
            [@ EXCEPT !.up = FALSE, !.request = reached, !.reply = "NONE", !.id = Nil]]
      BY <1>3 DEF terminate_process
    <2> DEFINE conn == [old EXCEPT !.up = FALSE, !.request = reached, !.reply = "NONE", !.id = Nil]
    <2>1. /\ conn \in Connection /\ conn.phase = old.phase /\ conn.token = old.token
          /\ conn.step = old.step /\ ~conn.up /\ conn.reply = "NONE"
          /\ conn.request => old.request
          /\ conn.buffer = old.buffer /\ conn.endpoint = old.endpoint
      BY <1>t, <1>n DEF Connection
    <2>2. conns' = [conns EXCEPT ![c] = conn]
      BY <1>0, <2>0
    <2>3. old.up
      BY <1>3 DEF terminate_process
    <2>4. ConnectionOK(conn)
      BY <1>0, <2>1, <2>3 DEF ConnectionOK
    <2> HIDE DEF conn
    <2>5. QED
      BY <2>1, <2>2, <2>4, OneConnection DEF Only
  <1>4. QED
    BY <1>1, <1>2, <1>3 DEF Worker

\* An answer takes the request off the wire and keeps what the process knows.
LEMMA AnswerEffect ==
    ASSUME ConnectionsOK, NEW c \in Connections, conns[c].request,
           NEW phase \in {"SERVED", "CLOSED"}, NEW reply \in {"ACK", "NACK"}, NEW id \in Ids,
           Answer(c, phase, reply, id)
    PROVE  /\ ConnectionsOK' /\ Only(c)
           /\ conns'[c].phase = phase /\ conns'[c].token = conns[c].token
           /\ conns'[c].step = conns[c].step /\ conns'[c].up = conns[c].up
           /\ conns'[c].buffer = conns[c].buffer /\ conns'[c].endpoint = conns[c].endpoint
           /\ conns'[c].reply \in {reply, "NONE"}
  <1> DEFINE old == conns[c]
             r == IF old.up THEN reply ELSE "NONE"
             i == IF old.up THEN id ELSE Nil
             conn == [old EXCEPT !.phase = phase, !.request = FALSE, !.reply = r, !.id = i]
  <1>1. ConnectionOK(old) /\ DOMAIN conns = Connections
    BY DEF ConnectionsOK
  <1>2. old \in Connection
    BY <1>1 DEF ConnectionOK
  <1>3. r \in {reply, "NONE"} /\ r \in {"NONE", "ACK", "NACK"} /\ i \in Ids
    BY DEF Ids
  <1>4. conns' = [conns EXCEPT ![c] = conn]
    BY <1>1 DEF Answer
  <1> HIDE DEF r, i
  <1>5. conn \in Connection
    BY <1>2, <1>3 DEF Connection
  <1>6. /\ conn.phase = phase /\ conn.token = old.token /\ conn.step = old.step
        /\ conn.up = old.up /\ conn.buffer = old.buffer /\ conn.endpoint = old.endpoint
        /\ conn.reply = r /\ ~conn.request
    BY <1>2 DEF Connection
  <1> HIDE DEF conn
  <1>7. ConnectionOK(conn)
    BY <1>1, <1>5, <1>6 DEF ConnectionOK
  <1>8. ConnectionsOK' /\ conns'[c] = conn /\ Only(c)
    BY <1>4, <1>7, OneConnection DEF Only
  <1>9. QED
    BY <1>3, <1>6, <1>8

\* A connection whose process is gone is closed.
LEMMA CloseEffect ==
    ASSUME ConnectionsOK, NEW c \in Connections, conns[c].phase # "FREE",
           conns' = [conns EXCEPT ![c].phase = "CLOSED"]
    PROVE  /\ ConnectionsOK' /\ Only(c)
           /\ conns'[c].phase = "CLOSED" /\ conns'[c].token = conns[c].token
           /\ conns'[c].step = conns[c].step /\ conns'[c].up = conns[c].up
           /\ conns'[c].reply = conns[c].reply
           /\ conns'[c].buffer = conns[c].buffer /\ conns'[c].endpoint = conns[c].endpoint
  <1> DEFINE old == conns[c]
             conn == [old EXCEPT !.phase = "CLOSED"]
  <1>1. ConnectionOK(old) /\ DOMAIN conns = Connections
    BY DEF ConnectionsOK
  <1>2. old \in Connection
    BY <1>1 DEF ConnectionOK
  <1>3. conns' = [conns EXCEPT ![c] = conn]
    OBVIOUS
  <1>4. conn \in Connection
    BY <1>2 DEF Connection
  <1>5. /\ conn.phase = "CLOSED" /\ conn.token = old.token /\ conn.step = old.step
        /\ conn.up = old.up /\ conn.buffer = old.buffer /\ conn.endpoint = old.endpoint
        /\ conn.reply = old.reply /\ conn.request = old.request
    BY <1>2 DEF Connection
  <1> HIDE DEF conn
  <1>6. ConnectionOK(conn)
    BY <1>1, <1>4, <1>5 DEF ConnectionOK
  <1>7. ConnectionsOK' /\ conns'[c] = conn /\ Only(c)
    BY <1>3, <1>6, OneConnection DEF Only
  <1>8. QED
    BY <1>5, <1>7

\* handle_worker_message answers on the connection and touches no other.
LEMMA HandleEffect ==
    ASSUME ConnectionsOK, NEW c \in Connections, handle_worker_message(c)
    PROVE  /\ ConnectionsOK' /\ Only(c) /\ conns[c].request
           /\ conns[c].phase = "SERVED" /\ conns'[c].phase = "SERVED"
           /\ conns'[c].token = conns[c].token
           /\ conns'[c].step = conns[c].step
           /\ conns'[c].buffer = conns[c].buffer /\ conns'[c].endpoint = conns[c].endpoint
           /\ conns'[c].reply # "ACK" \/ \E id \in Ids : Granted(c, id)
           /\ (\E id \in Ids : Granted(c, id)) \/ UNCHANGED vars
  <1>1. conns[c].phase = "SERVED" /\ conns[c].request
    BY DEF handle_worker_message
  <1>2. CASE \E id \in Ids : Granted(c, id) /\ Answer(c, "SERVED", "ACK", id)
    <2>1. PICK id \in Ids : Granted(c, id) /\ Answer(c, "SERVED", "ACK", id)
      BY <1>2
    <2>2. QED
      BY <1>1, <2>1, AnswerEffect
  <1>3. CASE UNCHANGED vars /\ Answer(c, "SERVED", "NACK", Nil)
    <2>1. Nil \in Ids
      BY DEF Ids
    <2>2. QED
      BY <1>1, <1>3, <2>1, AnswerEffect
  <1>4. QED
    BY <1>2, <1>3 DEF handle_worker_message, Ids

\* accept_hello admits the process or turns it away.
LEMMA AcceptEffect ==
    ASSUME ConnectionsOK, NEW c \in Connections, accept_hello(c)
    PROVE  /\ ConnectionsOK' /\ Only(c) /\ conns[c].request
           /\ backlog # <<>> /\ c = Head(backlog) /\ backlog' = Tail(backlog)
           /\ conns'[c].token = conns[c].token
           /\ conns'[c].step = conns[c].step
           /\ conns'[c].buffer = conns[c].buffer /\ conns'[c].endpoint = conns[c].endpoint
           /\ \/ /\ register_worker(conns[c].token.worker, conns[c].token.boot,
                                    conns[c].token.epoch)
                 /\ conns'[c].phase = "SERVED"
              \/ /\ UNCHANGED vars
                 /\ conns'[c].phase = "CLOSED" /\ conns'[c].reply # "ACK"
  <1>1. Nil \in Ids
    BY DEF Ids
  <1>2. /\ backlog # <<>> /\ c = Head(backlog) /\ backlog' = Tail(backlog)
        /\ conns[c].request
    BY DEF accept_hello
  <1>3. CASE /\ register_worker(conns[c].token.worker, conns[c].token.boot, conns[c].token.epoch)
             /\ Answer(c, "SERVED", "ACK", Nil)
    BY <1>1, <1>2, <1>3, AnswerEffect
  <1>4. CASE UNCHANGED vars /\ Answer(c, "CLOSED", "NACK", Nil)
    BY <1>1, <1>2, <1>4, AnswerEffect
  <1>5. QED
    BY <1>3, <1>4 DEF accept_hello

\* The first connection of the backlog still waits.
LEMMA FirstWaits ==
    ASSUME BacklogOK, backlog # <<>>
    PROVE  Head(backlog) \in Connections /\ conns[Head(backlog)].phase = "BACKLOG"
  BY DEF BacklogOK

\* Taking the first connection keeps the others waiting.
LEMMA Dequeue ==
    ASSUME BacklogOK, backlog # <<>>, backlog' = Tail(backlog), Only(Head(backlog))
    PROVE  BacklogOK'
  <1>1. /\ backlog' \in Seq(Connections) /\ Len(backlog') = Len(backlog) - 1
        /\ \A i \in 1..Len(backlog') : i + 1 \in 1..Len(backlog) /\ backlog'[i] = backlog[i + 1]
    BY DEF BacklogOK
  <1>2. Head(backlog) = backlog[1] /\ 1 \in 1..Len(backlog)
    BY DEF BacklogOK
  <1>3. \A i \in 1..Len(backlog') : conns'[backlog'[i]].phase = "BACKLOG"
    <2> SUFFICES ASSUME NEW i \in 1..Len(backlog') PROVE conns'[backlog'[i]].phase = "BACKLOG"
      OBVIOUS
    <2>1. i + 1 \in 1..Len(backlog) /\ backlog'[i] = backlog[i + 1] /\ i + 1 # 1
      BY <1>1
    <2>2. backlog[i + 1] \in Connections \ {Head(backlog)}
      BY <1>2, <2>1 DEF BacklogOK
    <2>3. QED
      BY <2>1, <2>2 DEF BacklogOK, Only
  <1>4. \A i, j \in 1..Len(backlog') : backlog'[i] = backlog'[j] => i = j
    BY <1>1 DEF BacklogOK
  <1>5. QED
    BY <1>1, <1>3, <1>4 DEF BacklogOK

\* A new connection waits behind the others.
LEMMA Enqueue ==
    ASSUME BacklogOK, NEW c \in Connections, conns[c].phase # "BACKLOG",
           backlog' = Append(backlog, c), conns'[c].phase = "BACKLOG", Only(c)
    PROVE  BacklogOK'
  <1>1. /\ backlog' \in Seq(Connections) /\ Len(backlog') = Len(backlog) + 1
        /\ \A i \in 1..Len(backlog) : backlog'[i] = backlog[i]
        /\ backlog'[Len(backlog) + 1] = c /\ Len(backlog) \in Nat
    BY DEF BacklogOK
  <1>2. \A i \in 1..Len(backlog) : backlog[i] \in Connections \ {c}
    BY DEF BacklogOK
  <1>3. \A i \in 1..Len(backlog') : i \in 1..Len(backlog) \/ i = Len(backlog) + 1
    BY <1>1
  <1>4. \A i \in 1..Len(backlog') : conns'[backlog'[i]].phase = "BACKLOG"
    BY <1>1, <1>2, <1>3 DEF BacklogOK, Only
  <1>5. \A i, j \in 1..Len(backlog') : backlog'[i] = backlog'[j] => i = j
    BY <1>1, <1>2, <1>3 DEF BacklogOK
  <1>6. QED
    BY <1>1, <1>4, <1>5 DEF BacklogOK

\* A step that keeps the phase of a waiting connection keeps the backlog.
LEMMA QueueFrame ==
    ASSUME BacklogOK, NEW c \in Connections, UNCHANGED backlog, Only(c),
           conns[c].phase = "BACKLOG" => conns'[c].phase = "BACKLOG"
    PROVE  BacklogOK'
  BY DEF BacklogOK, Only

\* Every step keeps the connections and the backlog well formed.
LEMMA ServerStep == ServerInv /\ [ServerNext]_serverVars => ServerInv'
  <1> SUFFICES ASSUME ServerInv, [ServerNext]_serverVars PROVE ServerInv'
    OBVIOUS
  <1> USE DEF ServerInv
  <1>1. CASE UNCHANGED serverVars
    BY <1>1 DEF serverVars, ConnectionsOK, ConnectionOK, BacklogOK
  <1>2. ASSUME NEW c \in Connections, NEW w \in Workers, NEW b \in Boots, connect(c, w, b)
        PROVE  ServerInv'
    BY <1>2, ConnectEffect, Enqueue DEF connect
  <1>3. ASSUME NEW c \in Connections, Worker(c) \/ terminate_process(c)
        PROVE  ServerInv'
    <2>1. UNCHANGED backlog
      BY <1>3 DEF Worker, send_frame, recv_ack, terminate_process
    <2>2. QED
      BY <1>3, <2>1, ProcessEffect, QueueFrame
  <1>4. ASSUME NEW c \in Connections, accept_hello(c) PROVE ServerInv'
    BY <1>4, AcceptEffect, Dequeue
  <1>5. ASSUME NEW c \in Connections, accept_lost(c) PROVE ServerInv'
    <2>1. conns[c].phase = "BACKLOG"
      BY <1>5, FirstWaits DEF accept_lost
    <2>2. ConnectionsOK' /\ Only(c)
      BY <1>5, <2>1, CloseEffect DEF accept_lost
    <2>3. QED
      BY <1>5, <2>2, Dequeue DEF accept_lost
  <1>6. ASSUME NEW c \in Connections, handle_worker_message(c) PROVE ServerInv'
    <2>1. UNCHANGED backlog
      BY <1>6 DEF handle_worker_message
    <2>2. QED
      BY <1>6, <2>1, HandleEffect, QueueFrame
  <1>7. ASSUME NEW c \in Connections, connection_lost(c) PROVE ServerInv'
    <2>1. conns[c].phase = "SERVED" /\ UNCHANGED backlog
      BY <1>7 DEF connection_lost
    <2>2. QED
      BY <1>7, <2>1, CloseEffect, QueueFrame DEF connection_lost
  <1>8. QED
    BY <1>1, <1>2, <1>3, <1>4, <1>5, <1>6, <1>7 DEF ServerNext, AcceptLoop, ConnectionThread

\* The coordinator process starts with no connection.
LEMMA ServerInvInit == ServerInit => ServerInv
  <1> SUFFICES ASSUME ServerInit PROVE ServerInv
    OBVIOUS
  <1>1. ConnectionOK(NoConnection)
    BY EmptyConnection DEF ConnectionOK
  <1>2. ConnectionsOK
    BY <1>1 DEF ServerInit, ConnectionsOK
  <1>3. BacklogOK
    BY DEF ServerInit, BacklogOK
  <1>4. QED
    BY <1>2, <1>3 DEF ServerInv

\* The connections and the backlog stay well formed.
LEMMA ServerInvariant == ServerSpec => []ServerInv
  BY ServerInvInit, ServerStep, PTL DEF ServerSpec

-------------------------------------------------------------------------------
(* The server drives the coordinator through its operations only. *)

\* The token of a connection in use is one that callers may present.
LEMMA TokenPresented ==
    ASSUME ConnectionsOK, NEW c \in Connections, conns[c].phase # "FREE"
    PROVE  /\ conns[c].token \in Authorities
           /\ conns[c].token.worker \in Workers /\ conns[c].token.boot \in Boots
           /\ conns[c].token.epoch = 1
  <1>1. PICK w \in Workers, b \in Boots : conns[c].token = HelloToken(w, b)
    BY DEF ConnectionsOK, ConnectionOK
  <1>2. QED
    BY <1>1, ConnectionAssumption DEF HelloToken

\* A granted request is one operation of the coordinator.
LEMMA GrantedStep ==
    ASSUME ConnectionsOK, NEW c \in Connections, conns[c].phase # "FREE", conns[c].request,
           NEW id \in Ids, Granted(c, id)
    PROVE  [Next]_vars
  <1> DEFINE token == conns[c].token
             update == Program[conns[c].step].update
  <1>1. token \in Authorities
    BY TokenPresented
  <1>2. CASE /\ id \in DeviceIds /\ add_device(id, token)
    BY <1>1, <1>2 DEF Next, InventoryOperation
  <1>3. CASE id \in EndpointIds /\ \E shape \in EndpointShapes : add_endpoint(id, shape, token)
    BY <1>1, <1>3 DEF Next, InventoryOperation
  <1>4. CASE Message(c) = "PUBLISH_CAPABILITY" /\ publish_capability(update, token)
    <2>1. conns[c].step \in Nat /\ conns[c].step <= Len(Program) /\ conns[c].step # 0
      BY <1>4 DEF ConnectionsOK, ConnectionOK, Connection, Message
    <2>2. conns[c].step \in DOMAIN Program
      BY <2>1, ConnectionAssumption
    <2>3. update \in CapabilityUpdates
      BY <1>4, <2>1, <2>2, ConnectionAssumption DEF Message
    <2>4. QED
      BY <1>1, <1>4, <2>3 DEF Next, InventoryOperation
  <1>5. CASE id \in BufferIds /\ \E shape \in BufferShapes : create_buffer(id, shape, token)
    BY <1>1, <1>5 DEF Next, BufferOperation
  <1>6. CASE /\ id \in RegistrationIds
             /\ conns[c].buffer \in BufferIds /\ conns[c].endpoint \in EndpointIds
             /\ \E g \in 1..MaxGeneration, support \in RegistrationSupport :
                  register_buffer(conns[c].buffer, conns[c].endpoint, token, id, g, support)
    BY <1>1, <1>6 DEF Next, RegistrationOperation
  <1>7. CASE UNCHANGED vars
    BY <1>7
  <1>8. QED
    BY <1>2, <1>3, <1>4, <1>5, <1>6, <1>7 DEF Granted, IsNextId, Unregistrable

\* Every step is an operation of the coordinator or leaves it alone.
LEMMA ServerStepIsOperation == ServerInv /\ [ServerNext]_serverVars => [Next]_vars
  <1> SUFFICES ASSUME ServerInv, [ServerNext]_serverVars PROVE [Next]_vars
    OBVIOUS
  <1> USE DEF ServerInv
  <1>1. CASE UNCHANGED serverVars
    BY <1>1 DEF serverVars
  <1>2. CASE \E c \in Connections, w \in Workers, b \in Boots : connect(c, w, b)
    BY <1>2 DEF connect
  <1>3. CASE \E c \in Connections : Worker(c) \/ terminate_process(c)
    BY <1>3 DEF Worker, send_frame, recv_ack, terminate_process
  <1>4. ASSUME NEW c \in Connections, accept_hello(c) PROVE [Next]_vars
    <2>1. conns[c].phase = "BACKLOG"
      BY <1>4, AcceptEffect, FirstWaits
    <2>2. /\ conns[c].token.worker \in Workers /\ conns[c].token.boot \in Boots
          /\ conns[c].token.epoch \in 0..MaxEpoch
      BY <2>1, TokenPresented, ConnectionAssumption, InputAssumption
    <2>3. QED
      BY <1>4, <2>2, AcceptEffect DEF Next, WorkerOperation
  <1>5. CASE \E c \in Connections : accept_lost(c)
    BY <1>5 DEF accept_lost
  <1>6. ASSUME NEW c \in Connections, handle_worker_message(c) PROVE [Next]_vars
    BY <1>6, HandleEffect, GrantedStep
  <1>7. ASSUME NEW c \in Connections, connection_lost(c) PROVE [Next]_vars
    BY <1>7, TokenPresented DEF connection_lost, Next, WorkerOperation
  <1>8. QED
    BY <1>1, <1>2, <1>3, <1>4, <1>5, <1>6, <1>7 DEF ServerNext, AcceptLoop, ConnectionThread

\* Whatever processes, accept loop and connection threads do, the coordinator
\* only ever takes steps of its own specification: every safety theorem of
\* the coordinator holds of the running process.
THEOREM ServerDrivesCoordinator == ServerSpec => Spec
  <1>1. ServerInit => Init
    BY DEF ServerInit
  <1>2. QED
    BY <1>1, ServerInvariant, ServerStepIsOperation, PTL DEF ServerSpec, Spec

-------------------------------------------------------------------------------
(* No immortal worker. *)

\* Of all steps only a hello and the end of a connection change who is live.
LEMMA LiveFrame ==
    ASSUME NEW c \in Connections, NEW id, Granted(c, id)
    PROVE  UNCHANGED <<workers, worker_max_boot>>
  <1> USE DEF vars, workerVars
  <1>1. ASSUME NEW shape, NEW token, NEW x,
               \/ add_device(x, token) \/ add_endpoint(x, shape, token)
               \/ publish_capability(shape, token) \/ create_buffer(x, shape, token)
        PROVE  UNCHANGED <<workers, worker_max_boot>>
    BY <1>1 DEF add_device, add_endpoint, publish_capability, create_buffer
  <1>2. ASSUME NEW b, NEW e, NEW token, NEW g, NEW support,
               register_buffer(b, e, token, id, g, support)
        PROVE  UNCHANGED <<workers, worker_max_boot>>
    BY <1>2 DEF register_buffer
  <1>3. QED
    BY <1>1, <1>2 DEF Granted

\* A step that keeps the live workers and every connection that is served
\* keeps every live worker served.
LEMMA ServedFrame ==
    ASSUME LiveWorkerIsServed, NEW c \in Connections, Only(c), UNCHANGED workers,
           conns[c].phase = "SERVED" =>
              conns'[c].phase = "SERVED" /\ conns'[c].token = conns[c].token
    PROVE  LiveWorkerIsServed'
  BY DEF LiveWorkerIsServed, Only

\* Every step keeps every live worker served.
LEMMA ServedStep ==
    TypeOK /\ ServerInv /\ LiveWorkerIsServed /\ [ServerNext]_serverVars => LiveWorkerIsServed'
  <1> SUFFICES ASSUME TypeOK, ServerInv, LiveWorkerIsServed, [ServerNext]_serverVars
               PROVE  LiveWorkerIsServed'
    OBVIOUS
  <1> USE DEF ServerInv, vars, workerVars
  <1>1. CASE UNCHANGED serverVars
    BY <1>1 DEF serverVars, LiveWorkerIsServed
  <1>2. ASSUME NEW c \in Connections, NEW w \in Workers, NEW b \in Boots, connect(c, w, b)
        PROVE  LiveWorkerIsServed'
    BY <1>2, ConnectEffect, ServedFrame DEF connect
  <1>3. ASSUME NEW c \in Connections, Worker(c) \/ terminate_process(c)
        PROVE  LiveWorkerIsServed'
    <2>1. UNCHANGED workers
      BY <1>3 DEF Worker, send_frame, recv_ack, terminate_process
    <2>2. QED
      BY <1>3, <2>1, ProcessEffect, ServedFrame
  <1>4. ASSUME NEW c \in Connections, accept_hello(c) PROVE LiveWorkerIsServed'
    <2>1. conns[c].phase = "BACKLOG"
      BY <1>4, AcceptEffect, FirstWaits
    <2>2. CASE UNCHANGED vars
      BY <1>4, <2>1, <2>2, AcceptEffect, ServedFrame
    <2>3. CASE /\ register_worker(conns[c].token.worker, conns[c].token.boot,
                                  conns[c].token.epoch)
               /\ conns'[c].phase = "SERVED"
      <3> DEFINE v == conns[c].token.worker
      <3>1. v \in Workers
        BY <2>1, TokenPresented
      <3>2. /\ workers'[v] = conns[c].token.boot
            /\ \A w \in Workers \ {v} : workers'[w] = workers[w]
        BY <2>3, <3>1 DEF register_worker, TypeOK
      <3>3. conns'[c].token = conns[c].token /\ Only(c)
        BY <1>4, AcceptEffect
      <3>4. QED
        BY <2>1, <2>3, <3>2, <3>3 DEF LiveWorkerIsServed, Only
    <2>4. QED
      BY <1>4, <2>2, <2>3, AcceptEffect
  <1>5. ASSUME NEW c \in Connections, accept_lost(c) PROVE LiveWorkerIsServed'
    <2>1. conns[c].phase = "BACKLOG"
      BY <1>5, FirstWaits DEF accept_lost
    <2>2. QED
      BY <1>5, <2>1, CloseEffect, ServedFrame DEF accept_lost
  <1>6. ASSUME NEW c \in Connections, handle_worker_message(c) PROVE LiveWorkerIsServed'
    <2>1. UNCHANGED workers
      BY <1>6, HandleEffect, LiveFrame
    <2>2. QED
      BY <1>6, <2>1, HandleEffect, ServedFrame
  <1>7. ASSUME NEW c \in Connections, connection_lost(c) PROVE LiveWorkerIsServed'
    <2> DEFINE v == conns[c].token.worker
    <2>1. conns[c].phase = "SERVED" /\ mark_worker_dead(v)
      BY <1>7 DEF connection_lost
    <2>2. v \in Workers
      BY <2>1, TokenPresented
    <2>3. workers'[v] = NoBoot /\ \A w \in Workers \ {v} : workers'[w] = workers[w]
      BY <2>1, <2>2 DEF mark_worker_dead, TypeOK
    <2>4. Only(c)
      BY <1>7, <2>1, CloseEffect DEF connection_lost
    <2>5. QED
      BY <2>3, <2>4 DEF LiveWorkerIsServed, Only
  <1>8. QED
    BY <1>1, <1>2, <1>3, <1>4, <1>5, <1>6, <1>7 DEF ServerNext, AcceptLoop, ConnectionThread

\* Whenever processes start and die, every live incarnation is watched by a
\* thread that said hello with exactly that boot.
THEOREM LiveWorkersStayServed == ServerSpec => []LiveWorkerIsServed
  <1>1. ServerInit => LiveWorkerIsServed
    BY DEF ServerInit, Init, LiveWorkerIsServed
  <1>2. ServerSpec => []TypeOK
    BY ServerDrivesCoordinator, TypeCorrect, PTL
  <1>3. QED
    BY <1>1, <1>2, ServerInvariant, ServedStep, PTL DEF ServerSpec

-------------------------------------------------------------------------------
(* A ready worker holds its registration. *)

\* A process that was admitted, or was told so, has a boot that was seen.
Greeted(c) == conns[c].phase = "SERVED" \/ conns[c].step > 0 \/ conns[c].reply = "ACK"

BootsSeen ==
    \A c \in Connections :
        Greeted(c) => conns[c].token.boot <= worker_max_boot[conns[c].token.worker]

\* The k-th message of the program was granted.
Past(c, k) == conns[c].step > k \/ (conns[c].step = k /\ conns[c].reply = "ACK")

Registered(c) ==
    \E r \in RegistrationIds :
        /\ registrations[r].state = "REGISTERED"
        /\ registrations[r].authority = conns[c].token
        /\ registrations[r].buffer = conns[c].buffer
        /\ registrations[r].endpoint = conns[c].endpoint

\* A live process holds the registration of message k from the moment it was
\* granted, before the answer has arrived.
HoldsRegistration(k) ==
    \A c \in Connections :
        Past(c, k) /\ workers[conns[c].token.worker] = conns[c].token.boot => Registered(c)

\* The k-th message registers the buffer, and no later one gives the process
\* another buffer or endpoint: the shape of worker_main's program.
RegistersAt(k) ==
    /\ k \in DOMAIN Program
    /\ Program[k].type = "REGISTER_BUFFER"
    /\ \A i \in DOMAIN Program :
          i > k => Program[i].type \notin {"CREATE_BUFFER", "PUBLISH_ENDPOINT"}

\* A hello that is accepted raises the highest boot seen to its own.
LEMMA HelloRaises ==
    ASSUME TypeOK, NEW v \in Workers, NEW b \in Boots, NEW e, register_worker(v, b, e)
    PROVE  /\ worker_max_boot'[v] = b /\ workers'[v] = b
           /\ \A w \in Workers \ {v} : worker_max_boot'[w] = worker_max_boot[w]
                                       /\ workers'[w] = workers[w]
           /\ b \in Nat /\ worker_max_boot[v] \in Nat \cup {NoBoot} /\ worker_max_boot[v] <= b
  <1>1. b \in Nat
    BY InputAssumption
  <1>2. worker_max_boot[v] \in Nat \cup {NoBoot}
    BY DEF TypeOK
  <1>3. worker_max_boot[v] <= b
    BY <1>1, <1>2 DEF register_worker, Admits, NoBoot
  <1>4. QED
    BY <1>1, <1>2, <1>3 DEF register_worker, TypeOK

\* A step that keeps the highest boots, in which no connection is greeted.
LEMMA SeenFrame ==
    ASSUME BootsSeen, NEW c \in Connections, Only(c), UNCHANGED worker_max_boot,
           Greeted(c)' => Greeted(c) /\ conns'[c].token = conns[c].token
    PROVE  BootsSeen'
  BY DEF BootsSeen, Greeted, Only

\* Every step keeps the boots of admitted processes seen.
LEMMA SeenStep ==
    TypeOK /\ ServerInv /\ BootsSeen /\ [ServerNext]_serverVars => BootsSeen'
  <1> SUFFICES ASSUME TypeOK, ServerInv, BootsSeen, [ServerNext]_serverVars
               PROVE  BootsSeen'
    OBVIOUS
  <1> USE DEF ServerInv, vars, workerVars
  <1>1. CASE UNCHANGED serverVars
    BY <1>1 DEF serverVars, BootsSeen, Greeted
  <1>2. ASSUME NEW c \in Connections, NEW w \in Workers, NEW b \in Boots, connect(c, w, b)
        PROVE  BootsSeen'
    <2>1. ~Greeted(c)' /\ Only(c)
      BY <1>2, ConnectEffect DEF Greeted
    <2>2. UNCHANGED worker_max_boot
      BY <1>2 DEF connect
    <2>3. QED
      BY <2>1, <2>2, SeenFrame
  <1>3. ASSUME NEW c \in Connections, Worker(c) \/ terminate_process(c)
        PROVE  BootsSeen'
    <2>1. UNCHANGED worker_max_boot
      BY <1>3 DEF Worker, send_frame, recv_ack, terminate_process
    <2>2. Greeted(c)' => Greeted(c)
      BY <1>3, ProcessEffect DEF Greeted
    <2>3. QED
      BY <1>3, <2>1, <2>2, ProcessEffect, SeenFrame
  <1>4. ASSUME NEW c \in Connections, accept_hello(c) PROVE BootsSeen'
    <2>1. conns[c].phase = "BACKLOG"
      BY <1>4, AcceptEffect, FirstWaits
    <2>2. conns[c].step = 0 /\ conns'[c].step = 0
      BY <1>4, <2>1, AcceptEffect DEF ConnectionsOK, ConnectionOK
    <2>3. CASE UNCHANGED vars /\ conns'[c].phase = "CLOSED" /\ conns'[c].reply # "ACK"
      BY <1>4, <2>2, <2>3, AcceptEffect, SeenFrame DEF Greeted
    <2>4. CASE register_worker(conns[c].token.worker, conns[c].token.boot, conns[c].token.epoch)
      <3> DEFINE v == conns[c].token.worker
                 b == conns[c].token.boot
      <3>1. v \in Workers /\ b \in Boots
        BY <2>1, TokenPresented
      <3>2. /\ worker_max_boot'[v] = b /\ b \in Nat
            /\ worker_max_boot[v] \in Nat \cup {NoBoot} /\ worker_max_boot[v] <= b
            /\ \A w \in Workers \ {v} : worker_max_boot'[w] = worker_max_boot[w]
        BY <2>4, <3>1, HelloRaises
      <3>3. conns'[c].token = conns[c].token /\ Only(c)
        BY <1>4, AcceptEffect
      <3> SUFFICES ASSUME NEW d \in Connections, Greeted(d)'
                   PROVE  conns'[d].token.boot <= worker_max_boot'[conns'[d].token.worker]
        BY DEF BootsSeen
      <3>4. CASE d = c
        BY <3>2, <3>3, <3>4
      <3>5. CASE d # c
        <4>1. conns'[d] = conns[d]
          BY <3>3, <3>5 DEF Only
        <4>2. Greeted(d)
          BY <4>1 DEF Greeted
        <4>3. conns[d].phase # "FREE"
          BY <4>2 DEF Greeted, ConnectionsOK, ConnectionOK
        <4>4. conns[d].token.worker \in Workers /\ conns[d].token.boot \in Nat
          BY <4>3, TokenPresented, InputAssumption
        <4>5. conns[d].token.boot <= worker_max_boot[conns[d].token.worker]
          BY <4>2 DEF BootsSeen
        <4>6. CASE conns[d].token.worker = v
          BY <3>2, <4>1, <4>4, <4>5, <4>6 DEF NoBoot
        <4>7. CASE conns[d].token.worker # v
          BY <3>2, <4>1, <4>4, <4>5, <4>7
        <4>8. QED
          BY <4>6, <4>7
      <3>6. QED
        BY <3>4, <3>5
    <2>5. QED
      BY <1>4, <2>3, <2>4, AcceptEffect
  <1>5. ASSUME NEW c \in Connections, accept_lost(c) PROVE BootsSeen'
    <2>1. conns[c].phase = "BACKLOG"
      BY <1>5, FirstWaits DEF accept_lost
    <2>2. QED
      BY <1>5, <2>1, CloseEffect, SeenFrame DEF accept_lost, Greeted
  <1>6. ASSUME NEW c \in Connections, handle_worker_message(c) PROVE BootsSeen'
    <2>1. UNCHANGED worker_max_boot
      BY <1>6, HandleEffect, LiveFrame
    <2>2. QED
      BY <1>6, <2>1, HandleEffect, SeenFrame DEF Greeted
  <1>7. ASSUME NEW c \in Connections, connection_lost(c) PROVE BootsSeen'
    <2>1. conns[c].phase = "SERVED" /\ UNCHANGED worker_max_boot
      BY <1>7 DEF connection_lost, mark_worker_dead
    <2>2. QED
      BY <1>7, <2>1, CloseEffect, SeenFrame DEF connection_lost, Greeted
  <1>8. QED
    BY <1>1, <1>2, <1>3, <1>4, <1>5, <1>6, <1>7 DEF ServerNext, AcceptLoop, ConnectionThread

\* What a granted request does to the registrations: nothing, or it adds the
\* one it was asked for under an id that was free.
LEMMA GrantedRegistration ==
    ASSUME TypeOK, IdsAreIssued, NEW c \in Connections, NEW id, Granted(c, id)
    PROVE  \/ Message(c) # "REGISTER_BUFFER" /\ UNCHANGED registrations
           \/ /\ id \in RegistrationIds /\ ~InUse(id)
              /\ registrations'[id].state = "REGISTERED"
              /\ registrations'[id].authority = conns[c].token
              /\ registrations'[id].buffer = conns[c].buffer
              /\ registrations'[id].endpoint = conns[c].endpoint
              /\ \A r \in RegistrationIds \ {id} : registrations'[r] = registrations[r]
  <1> USE DEF vars
  <1>1. ASSUME NEW shape, NEW token, NEW x,
               \/ add_device(x, token) \/ add_endpoint(x, shape, token)
               \/ publish_capability(shape, token) \/ create_buffer(x, shape, token)
        PROVE  UNCHANGED registrations
    BY <1>1 DEF add_device, add_endpoint, publish_capability, create_buffer
  <1>2. ASSUME Message(c) = "REGISTER_BUFFER"
        PROVE  /\ id \in RegistrationIds /\ ~InUse(id)
               /\ registrations'[id].state = "REGISTERED"
               /\ registrations'[id].authority = conns[c].token
               /\ registrations'[id].buffer = conns[c].buffer
               /\ registrations'[id].endpoint = conns[c].endpoint
               /\ \A r \in RegistrationIds \ {id} : registrations'[r] = registrations[r]
    <2>1. id \in RegistrationIds /\ ~InUse(id)
      BY <1>2, ConnectionAssumption DEF Granted, IsNextId, IdsAreIssued
    <2>2. PICK g, support :
             register_buffer(conns[c].buffer, conns[c].endpoint, conns[c].token, id, g, support)
      BY <1>2 DEF Granted
    <2>3. QED
      BY <2>1, <2>2 DEF register_buffer, TypeOK
  <1>3. QED
    BY <1>1, <1>2 DEF Granted

\* A registration that stays as it is stays with its process.
LEMMA RegisteredFrame ==
    ASSUME NEW c \in Connections, Registered(c),
           conns'[c].token = conns[c].token, conns'[c].buffer = conns[c].buffer,
           conns'[c].endpoint = conns[c].endpoint,
           \A r \in RegistrationIds :
              /\ registrations[r].state = "REGISTERED"
              /\ registrations[r].authority = conns[c].token
              => registrations'[r] = registrations[r]
    PROVE  Registered(c)'
  BY DEF Registered

\* A step that keeps registrations and live workers, in which no connection
\* gets past message k.
LEMMA HoldsFrame ==
    ASSUME NEW k, HoldsRegistration(k), NEW c \in Connections, Only(c),
           UNCHANGED <<workers, registrations>>,
           Past(c, k)' => /\ Past(c, k) /\ conns'[c].token = conns[c].token
                          /\ conns'[c].buffer = conns[c].buffer
                          /\ conns'[c].endpoint = conns[c].endpoint
    PROVE  HoldsRegistration(k)'
  BY DEF HoldsRegistration, Registered, Past, Only

\* An admitted boot that was seen before is live already: boot 0 aside, a
\* dead incarnation never comes back.
LEMMA NoRevival ==
    ASSUME TypeOK, IncarnationFence, 0 \notin Boots, NEW v \in Workers, NEW b \in Boots, NEW e,
           register_worker(v, b, e), b <= worker_max_boot[v]
    PROVE  workers[v] = b
  <1>1. /\ b \in Nat /\ b # 0 /\ worker_max_boot[v] \in Nat \cup {NoBoot}
        /\ worker_max_boot[v] <= b
    BY HelloRaises, InputAssumption
  <1>2. worker_max_boot[v] = b
    BY <1>1 DEF NoBoot
  <1>3. workers[v] # NoBoot
    BY <1>1, <1>2 DEF register_worker, Admits, NoBoot
  <1>4. QED
    BY <1>2, <1>3 DEF IncarnationFence

\* Every step keeps the registrations of live processes.
LEMMA HoldsStep ==
    ASSUME 0 \notin Boots, NEW k, RegistersAt(k)
    PROVE  /\ TypeOK /\ IncarnationFence /\ IdsAreIssued /\ ServerInv /\ BootsSeen
           /\ HoldsRegistration(k) /\ [ServerNext]_serverVars
           => HoldsRegistration(k)'
  <1> SUFFICES ASSUME TypeOK, IncarnationFence, IdsAreIssued, ServerInv, BootsSeen,
                      HoldsRegistration(k), [ServerNext]_serverVars
               PROVE  HoldsRegistration(k)'
    OBVIOUS
  <1> USE DEF ServerInv, vars, workerVars
  <1>k. k \in Nat /\ k >= 1 /\ k <= Len(Program) /\ Len(Program) \in Nat
    BY ConnectionAssumption DEF RegistersAt
  <1>t. \A c \in Connections : conns[c].step \in Nat
    BY DEF ConnectionsOK, ConnectionOK, Connection
  <1>1. CASE UNCHANGED serverVars
    BY <1>1 DEF serverVars, HoldsRegistration, Registered, Past
  <1>2. ASSUME NEW c \in Connections, NEW w \in Workers, NEW b \in Boots, connect(c, w, b)
        PROVE  HoldsRegistration(k)'
    <2>1. ~Past(c, k)' /\ Only(c)
      BY <1>2, <1>k, ConnectEffect DEF Past
    <2>2. UNCHANGED <<workers, registrations>>
      BY <1>2 DEF connect
    <2>3. QED
      BY <2>1, <2>2, HoldsFrame
  <1>3. ASSUME NEW c \in Connections, Worker(c) \/ terminate_process(c)
        PROVE  HoldsRegistration(k)'
    <2>1. UNCHANGED <<workers, registrations>>
      BY <1>3 DEF Worker, send_frame, recv_ack, terminate_process
    <2>2. ASSUME Past(c, k)'
          PROVE  /\ Past(c, k) /\ conns'[c].buffer = conns[c].buffer
                 /\ conns'[c].endpoint = conns[c].endpoint
      <3>1. CASE /\ conns'[c].step = conns[c].step
                 /\ conns'[c].buffer = conns[c].buffer /\ conns'[c].endpoint = conns[c].endpoint
                 /\ conns'[c].reply \in {conns[c].reply, "NONE"}
        BY <2>2, <3>1 DEF Past
      <3>2. CASE /\ conns[c].reply = "ACK" /\ conns'[c].reply = "NONE"
                 /\ conns'[c].step = conns[c].step + 1 /\ conns[c].step <= Len(Program)
                 /\ Message(c) # "CREATE_BUFFER" => conns'[c].buffer = conns[c].buffer
                 /\ Message(c) # "PUBLISH_ENDPOINT" => conns'[c].endpoint = conns[c].endpoint
        <4>1. conns[c].step >= k
          BY <1>k, <1>t, <2>2, <3>2 DEF Past
        <4>2. conns[c].step \in DOMAIN Program /\ conns[c].step # 0
          BY <1>k, <1>t, <3>2, <4>1, ConnectionAssumption
        <4>3. Program[conns[c].step].type \notin {"CREATE_BUFFER", "PUBLISH_ENDPOINT"}
          BY <1>k, <1>t, <4>1, <4>2 DEF RegistersAt
        <4>4. Message(c) \notin {"CREATE_BUFFER", "PUBLISH_ENDPOINT"}
          BY <4>2, <4>3 DEF Message
        <4>5. QED
          BY <1>k, <1>t, <3>2, <4>1, <4>4 DEF Past
      <3>3. QED
        BY <1>3, <3>1, <3>2, ProcessEffect
    <2>3. QED
      BY <1>3, <2>1, <2>2, ProcessEffect, HoldsFrame
  <1>4. ASSUME NEW c \in Connections, accept_hello(c) PROVE HoldsRegistration(k)'
    <2>1. conns[c].phase = "BACKLOG"
      BY <1>4, AcceptEffect, FirstWaits
    <2>2. conns[c].step = 0 /\ conns'[c].step = 0 /\ Only(c)
      BY <1>4, <2>1, AcceptEffect DEF ConnectionsOK, ConnectionOK
    <2>3. ~Past(c, k)'
      BY <1>k, <2>2 DEF Past
    <2>4. CASE UNCHANGED vars
      BY <2>2, <2>3, <2>4, HoldsFrame
    <2>5. CASE register_worker(conns[c].token.worker, conns[c].token.boot, conns[c].token.epoch)
      <3> DEFINE v == conns[c].token.worker
                 b == conns[c].token.boot
      <3>1. v \in Workers /\ b \in Boots
        BY <2>1, TokenPresented
      <3>2. /\ workers'[v] = b /\ UNCHANGED registrations
            /\ \A w \in Workers \ {v} : workers'[w] = workers[w]
        BY <2>5, <3>1, HelloRaises DEF register_worker
      <3> SUFFICES ASSUME NEW d \in Connections, Past(d, k)',
                          workers'[conns'[d].token.worker] = conns'[d].token.boot
                   PROVE  Registered(d)'
        BY DEF HoldsRegistration
      <3>3. d # c /\ conns'[d] = conns[d] /\ Past(d, k)
        BY <2>2, <2>3 DEF Only, Past
      <3>4. Greeted(d) /\ conns[d].phase # "FREE"
        BY <1>k, <1>t, <3>3 DEF Past, Greeted, ConnectionsOK, ConnectionOK
      <3>5. conns[d].token.worker \in Workers
        BY <3>4, TokenPresented
      <3>6. workers[conns[d].token.worker] = conns[d].token.boot
        <4>1. CASE conns[d].token.worker # v
          BY <3>2, <3>3, <3>5, <4>1
        <4>2. CASE conns[d].token.worker = v
          <5>1. conns[d].token.boot = b
            BY <3>2, <3>3, <4>2
          <5>2. b <= worker_max_boot[v]
            BY <3>4, <4>2, <5>1 DEF BootsSeen
          <5>3. QED
            BY <2>5, <3>1, <4>2, <5>1, <5>2, NoRevival
        <4>3. QED
          BY <4>1, <4>2
      <3>7. Registered(d)
        BY <3>3, <3>6 DEF HoldsRegistration
      <3>8. QED
        BY <3>2, <3>3, <3>7 DEF Registered
    <2>6. QED
      BY <1>4, <2>4, <2>5, AcceptEffect
  <1>5. ASSUME NEW c \in Connections, accept_lost(c) PROVE HoldsRegistration(k)'
    <2>1. conns[c].phase = "BACKLOG"
      BY <1>5, FirstWaits DEF accept_lost
    <2>2. /\ Only(c) /\ conns'[c].token = conns[c].token /\ conns'[c].step = conns[c].step
          /\ conns'[c].reply = conns[c].reply
          /\ conns'[c].buffer = conns[c].buffer /\ conns'[c].endpoint = conns[c].endpoint
      BY <1>5, <2>1, CloseEffect DEF accept_lost
    <2>3. UNCHANGED <<workers, registrations>>
      BY <1>5 DEF accept_lost
    <2>4. QED
      BY <2>2, <2>3, HoldsFrame DEF Past
  <1>6. ASSUME NEW c \in Connections, handle_worker_message(c) PROVE HoldsRegistration(k)'
    <2>1. /\ Only(c) /\ conns[c].request /\ conns'[c].token = conns[c].token
          /\ conns'[c].step = conns[c].step
          /\ conns'[c].buffer = conns[c].buffer /\ conns'[c].endpoint = conns[c].endpoint
          /\ conns'[c].reply # "ACK" \/ \E id \in Ids : Granted(c, id)
          /\ (\E id \in Ids : Granted(c, id)) \/ UNCHANGED vars
      BY <1>6, HandleEffect
    <2>2. conns[c].reply = "NONE"
      BY <2>1 DEF ConnectionsOK, ConnectionOK
    <2>3. UNCHANGED workers
      BY <2>1, LiveFrame
    <2>4. \A r \in RegistrationIds :
             registrations[r].state = "REGISTERED" => registrations'[r] = registrations[r]
      BY <2>1, GrantedRegistration DEF InUse
    <2> SUFFICES ASSUME NEW d \in Connections, Past(d, k)',
                        workers'[conns'[d].token.worker] = conns'[d].token.boot
                 PROVE  Registered(d)'
      BY DEF HoldsRegistration
    <2>5. /\ conns'[d].token = conns[d].token /\ conns'[d].step = conns[d].step
          /\ conns'[d].buffer = conns[d].buffer /\ conns'[d].endpoint = conns[d].endpoint
      BY <2>1 DEF Only
    <2>6. CASE Past(d, k)
      <3>1. Registered(d)
        BY <2>3, <2>5, <2>6 DEF HoldsRegistration
      <3>2. QED
        BY <2>4, <2>5, <3>1, RegisteredFrame
    <2>7. CASE ~Past(d, k)
      <3>1. d = c
        BY <2>1, <2>7 DEF Only, Past
      <3>2. conns[c].step = k /\ conns'[c].reply = "ACK"
        BY <2>1, <2>7, <3>1 DEF Past
      <3>3. Message(c) = "REGISTER_BUFFER"
        BY <1>k, <3>2 DEF Message, RegistersAt
      <3>4. PICK id \in Ids : Granted(c, id)
        BY <2>1, <3>2
      <3>5. /\ id \in RegistrationIds
            /\ registrations'[id].state = "REGISTERED"
            /\ registrations'[id].authority = conns[c].token
            /\ registrations'[id].buffer = conns[c].buffer
            /\ registrations'[id].endpoint = conns[c].endpoint
        BY <3>3, <3>4, GrantedRegistration
      <3>6. QED
        BY <2>5, <3>1, <3>5 DEF Registered
    <2>8. QED
      BY <2>6, <2>7
  <1>7. ASSUME NEW c \in Connections, connection_lost(c) PROVE HoldsRegistration(k)'
    <2> DEFINE v == conns[c].token.worker
    <2>1. conns[c].phase = "SERVED" /\ mark_worker_dead(v)
      BY <1>7 DEF connection_lost
    <2>2. v \in Workers
      BY <2>1, TokenPresented
    <2>3. workers'[v] = NoBoot /\ \A w \in Workers \ {v} : workers'[w] = workers[w]
      BY <2>1, <2>2 DEF mark_worker_dead, TypeOK
    <2>4. /\ Only(c) /\ conns'[c].token = conns[c].token /\ conns'[c].step = conns[c].step
          /\ conns'[c].reply = conns[c].reply
          /\ conns'[c].buffer = conns[c].buffer /\ conns'[c].endpoint = conns[c].endpoint
      BY <1>7, <2>1, CloseEffect DEF connection_lost
    <2>5. \A r \in RegistrationIds :
             registrations[r].authority.worker # v => registrations'[r] = registrations[r]
      BY <2>1 DEF mark_worker_dead, Revalidate, OwnedBy
    <2> SUFFICES ASSUME NEW d \in Connections, Past(d, k)',
                        workers'[conns'[d].token.worker] = conns'[d].token.boot
                 PROVE  Registered(d)'
      BY DEF HoldsRegistration
    <2>6. /\ conns'[d].token = conns[d].token /\ Past(d, k)
          /\ conns'[d].buffer = conns[d].buffer /\ conns'[d].endpoint = conns[d].endpoint
      BY <2>4 DEF Only, Past
    <2>7. conns[d].phase # "FREE"
      BY <1>k, <1>t, <2>6 DEF Past, ConnectionsOK, ConnectionOK
    <2>8. conns[d].token.worker \in Workers /\ conns[d].token.boot \in Nat
      BY <2>7, TokenPresented, InputAssumption
    <2>9. conns[d].token.worker # v
      BY <2>3, <2>6, <2>8 DEF NoBoot
    <2>10. Registered(d)
      BY <2>3, <2>6, <2>8, <2>9 DEF HoldsRegistration
    <2>11. QED
      BY <2>5, <2>6, <2>9, <2>10, RegisteredFrame
  <1>8. QED
    BY <1>1, <1>2, <1>3, <1>4, <1>5, <1>6, <1>7 DEF ServerNext, AcceptLoop, ConnectionThread

\* For every program that registers its buffer last, and as long as no boot
\* id is 0 (which register_worker takes for "never seen"): a process that was
\* told it is ready holds its registration for as long as it is the live
\* incarnation, however many processes of its worker come and go.
THEOREM ReadyWorkersStayRegistered ==
    ASSUME 0 \notin Boots, NEW k, RegistersAt(k)
    PROVE  ServerSpec => []ReadyWorkerIsRegistered
  <1>1. ServerInit => BootsSeen /\ HoldsRegistration(k)
    <2>1. k \in Nat /\ k >= 1
      BY ConnectionAssumption DEF RegistersAt
    <2>2. QED
      BY <2>1, EmptyConnection DEF ServerInit, BootsSeen, Greeted, HoldsRegistration, Past
  <1>2. ServerSpec => []TypeOK /\ []IncarnationFence /\ []IdsAreIssued
    BY ServerDrivesCoordinator, TypeCorrect, IncarnationsStayFenced, IssuedInvariant, PTL
  <1>3. /\ TypeOK /\ IncarnationFence /\ IdsAreIssued /\ ServerInv /\ BootsSeen
        /\ HoldsRegistration(k)
        /\ [ServerNext]_serverVars
        => HoldsRegistration(k)'
    BY HoldsStep
  <1>4. ServerInv /\ HoldsRegistration(k) => ReadyWorkerIsRegistered
    <2> SUFFICES ASSUME ServerInv, HoldsRegistration(k), NEW c \in Connections, Done(c),
                        workers[conns[c].token.worker] = conns[c].token.boot
                 PROVE  Registered(c)
      BY DEF ReadyWorkerIsRegistered, Registered
    <2>1. k \in Nat /\ k <= Len(Program) /\ Len(Program) \in Nat /\ conns[c].step \in Nat
      BY ConnectionAssumption DEF RegistersAt, ServerInv, ConnectionsOK, ConnectionOK, Connection
    <2>2. Past(c, k)
      BY <2>1 DEF Done, Past
    <2>3. QED
      BY <2>2 DEF HoldsRegistration
  <1>5. QED
    BY <1>1, <1>2, <1>3, <1>4, ServerInvariant, SeenStep, PTL DEF ServerSpec

===============================================================================
