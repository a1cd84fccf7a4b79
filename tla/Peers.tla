-------------------------------- MODULE Peers --------------------------------
(***************************************************************************)
(* The peer layer: clients of one server register to each other, connect   *)
(* to each other, disconnect and deregister by sending signals through the *)
(* server.  The server keeps a posting for every request that waits for    *)
(* the other peer's answer, a mailbox for peers that are offline, the      *)
(* lists of mutual peers, and a virtual connection between every two       *)
(* sessions it forwards packets for.  The endpoints agree on a key of      *)
(* their own (the key exchange) before they open a channel.                *)
(*                                                                         *)
(* A client's session is `client[c].on'; the server's session of the same  *)
(* client is server.sess[c], the number of the login it belongs to (0 when *)
(* there is none).  Signals travel in order between the two.               *)
(***************************************************************************)
EXTENDS Naturals, Sequences, FiniteSets, TLC

CONSTANTS
    Cid,         \* the clients
    Requests,    \* the kinds of request the kernels make
    Responses,   \* the answers they give, of "accept" and "decline"
    MaxTicket,   \* bound on the number of requests
    Leavers,     \* the clients whose sessions may end
    MaxLogin,    \* bound on the number of logins of each client
    MayExpire,   \* may the timeout of a posting expire?
    MayDrop,     \* may the kernels drop a peer channel?
    Overlaps     \* may a kernel ask a peer while another exchange with the peer is under way?

VARIABLES
    client,  \* what each client's session holds
    server,  \* what the server's sessions and its peer layer hold
    up,      \* signals from each client to the server
    down,    \* signals from the server to each client
    req      \* the requests made so far: by, to, kind and the kernel's answer

vars == <<client, server, up, down, req>>

Kinds == {"register", "connect", "deregister", "list"}

Ticket == DOMAIN req

NoKem == [role |-> "none", key |-> 0]
NoConn == [key |-> 0, active |-> FALSE, initiator |-> FALSE]

\* A session starts with empty tables.
Fresh == [p \in Cid |-> NoKem]
Closed == [p \in Cid |-> NoConn]
Nobody == [p \in Cid |-> 0]

StateContainer(on) ==
    [on |-> on, kem |-> Fresh, vconn |-> Closed, attempts |-> Nobody,
     punching |-> {}, held |-> {}, inbox |-> {}, accepted |-> {},
     drains |-> {}]

PeerLayer ==
    [sess |-> [c \in Cid |-> 1], logins |-> [c \in Cid |-> 1], mapped |-> Cid,
     post |-> [c \in Cid |-> {}], queue |-> {}, mailbox |-> [c \in Cid |-> {}],
     vconn |-> [c \in Cid |-> {}], mutual |-> [c \in Cid |-> Nobody], tasks |-> {},
     crossed |-> {}]

\* Both lists of registered peers outlive the sessions: the server's is
\* server.mutual, the client's is kept beside its session.
Init ==
    /\ client = [c \in Cid |-> StateContainer(TRUE) @@ [known |-> Nobody]]
    /\ server = PeerLayer
    /\ up = [c \in Cid |-> <<>>]
    /\ down = [c \in Cid |-> <<>>]
    /\ req = <<>>

(***************************************************************************)
(* Signals.  `conn' is the pair of the original sender and the original    *)
(* target; an answer carries the reversed pair and the request's ticket.   *)
(***************************************************************************)
Signal(type, conn, ticket, resp) == [type |-> type, conn |-> conn, ticket |-> ticket, resp |-> resp]
PostRegister(conn, ticket, resp) == Signal("PostRegister", conn, ticket, resp)
PostConnect(conn, ticket, resp) == Signal("PostConnect", conn, ticket, resp)
Deregister(conn, ticket) == Signal("Deregister", conn, ticket, "none")
DeregistrationSuccess(from, peer, ticket) == Signal("DeregistrationSuccess", <<from, peer>>, ticket, "none")
Disconnect(conn, resp) == Signal("Disconnect", conn, 0, resp)
Kem(conn, ticket, stage) == Signal("Kem", conn, ticket, stage)
GetMutuals(c, ticket) == Signal("GetMutuals", <<c, c>>, ticket, "none")
SignalReceived(c, ticket) == Signal("SignalReceived", <<c, c>>, ticket, "none")
SignalError(c, ticket) == Signal("SignalError", <<c, c>>, ticket, "none")

reverse(conn) == <<conn[2], conn[1]>>

\* A session's primary stream: what is written once the client is gone is lost.
Sent(d, c, s) == IF client[c].on THEN [d EXCEPT ![c] = Append(@, s)] ELSE d

\* send_signal_to_peer_direct: an error unless the peer has a session.
Routed(d, c, s) == IF server.sess[c] > 0 THEN Sent(d, c, s) ELSE d

Receives(c, type) ==
    /\ client[c].on /\ down[c] # <<>> /\ Head(down[c]).type = type
    /\ down' = [down EXCEPT ![c] = Tail(@)]

Submits(c, type) ==
    /\ server.sess[c] > 0 /\ up[c] # <<>> /\ Head(up[c]).type = type
    /\ up' = [up EXCEPT ![c] = Tail(@)]

Told(t, answer) == IF t \in Ticket THEN [req EXCEPT ![t].told = answer] ELSE req

(***************************************************************************)
(* The kernels' requests and answers.                                      *)
(***************************************************************************)
Command(c, p, kind, ticket) ==
    CASE kind = "register" -> PostRegister(<<c, p>>, ticket, "none")
      [] kind = "connect" -> PostConnect(<<c, p>>, ticket, "none")
      [] kind = "deregister" -> Deregister(<<c, p>>, ticket)
      [] kind = "list" -> GetMutuals(c, ticket)

\* A kernel knows of its own requests and of those it has accepted.
UnderWay(c, p) ==
    \/ \E t \in Ticket : req[t].by = c /\ req[t].to = p /\ req[t].told = "none"
    \/ \E t \in client[c].accepted : req[t].by = p

\* dispatch_peer_command: an outgoing connect attempt is remembered under the
\* peer, in place of an earlier one.
Request(c, p, kind) ==
    /\ client[c].on /\ c # p /\ Len(req) < MaxTicket /\ kind \in Requests
    /\ Overlaps \/ ~UnderWay(c, p)
    /\ LET t == Len(req) + 1 IN
        /\ req' = Append(req, [by |-> c, to |-> p, kind |-> kind, told |-> "none"])
        /\ up' = [up EXCEPT ![c] = Append(@, Command(c, p, kind, t))]
        /\ client' = IF kind = "connect" THEN [client EXCEPT ![c].attempts[p] = t] ELSE client
    /\ UNCHANGED <<server, down>>

\* The kernel answers a request of its peer with the request's own ticket.
Respond(c, s, resp) ==
    /\ client[c].on /\ s \in client[c].inbox
    /\ client' = [client EXCEPT ![c].inbox = @ \ {s},
                                ![c].accepted = IF s.type = "PostConnect" /\ resp = "accept" THEN @ \cup {s.ticket} ELSE @]
    /\ up' = [up EXCEPT ![c] = Append(@, [s EXCEPT !.conn = reverse(@), !.resp = resp])]
    /\ UNCHANGED <<server, down, req>>

\* The receiving half of a channel is dropped: the connection goes inactive and
\* the server is asked to disconnect the two peers.
DropChannel(c, p, key) ==
    /\ MayDrop /\ client[c].on /\ <<p, key>> \in client[c].held
    /\ client' = [client EXCEPT ![c].held = @ \ {<<p, key>>},
                                ![c].vconn[p].active = @ /\ client[c].vconn[p].key # key]
    /\ up' = [up EXCEPT ![c] = Append(@, Disconnect(<<c, p>>, "none"))]
    /\ UNCHANGED <<server, down, req>>

(***************************************************************************)
(* The postings: requests that wait for an answer.                         *)
(***************************************************************************)
Posting(t, kind, target) == [ticket |-> t, kind |-> kind, target |-> target]

\* A mutant: the timeout is queued and the posting forgotten.
QueueTimeoutOnly(srv, c, posting) == [srv EXCEPT !.queue = @ \cup {<<c, posting.ticket>>}]

\* A posting is only kept for a peer whose map exists; its timeout is queued
\* in either case.
insert_tracked_posting(srv, c, posting) ==
    [srv EXCEPT !.post[c] = IF c \in srv.mapped THEN @ \cup {posting} ELSE @,
                !.queue = @ \cup {<<c, posting.ticket>>}]

remove_tracked_posting(srv, c, t) ==
    [srv EXCEPT !.post[c] = {x \in @ : x.ticket # t}, !.queue = @ \ {<<c, t>>}]

\* The tickets under which `peer' waits for this client.
check_simultaneous(kind, c, peer) ==
    {x.ticket : x \in {y \in server.post[peer] : y.kind = kind /\ y.target = c}}

\* The event an earlier deregistration by `peer' left behind.
check_simultaneous_deregister(c, peer) ==
    \E x \in server.post[peer] : x.kind = "deregistered" /\ x.target = c

try_add_mailbox(srv, p, s) == [srv EXCEPT !.mailbox[p] = @ \cup {s}]

\* The posting is inserted first, then the signal goes to the peer's session, or
\* to its mailbox when it has none.
route_signal_primary(c, p, s, kind) ==
    LET posted == insert_tracked_posting(server, c, Posting(s.ticket, kind, p)) IN
    server' = IF server.sess[p] > 0 THEN posted ELSE try_add_mailbox(posted, p, s)

reply_to_sender(d, c, s) == Sent(d, c, s)
reply_to_sender_err(d, c, ticket) == Sent(d, c, SignalError(c, ticket))

\* The sender is told that the request is on its way.
route_signal_and_register_ticket_forwards(c, p, s, kind) ==
    /\ route_signal_primary(c, p, s, kind)
    /\ down' = reply_to_sender(Routed(down, p, s), c, SignalReceived(c, s.ticket))

\* route_signal_response_primary takes the posting out before it looks for the
\* session of the peer that made it.
Routable(c, p, t) == (\E x \in server.post[p] : x.ticket = t) /\ server.sess[p] > 0

\* What the server does once the answer is on its way.
RegisterTask(c, p, t) == [kind |-> "register", from |-> c, to |-> p, ticket |-> t, login |-> server.sess[c]]

\* A mutant: the registration is carried out for a refusal.
RegisterWhenDeclined(srv, c, p, t, resp) ==
    IF resp = "accept" THEN srv ELSE [srv EXCEPT !.tasks = @ \cup {RegisterTask(c, p, t)}]

post_register_finished(srv, c, p, t, resp) ==
    IF resp = "decline" THEN srv ELSE [srv EXCEPT !.tasks = @ \cup {RegisterTask(c, p, t)}]

insert_new_virtual_connection_as_server(srv, c, p) == [srv EXCEPT !.vconn[c] = @ \cup {p}]

\* A disconnection of the two will remove the peer's entry and not the one of the
\* session that asked for it: that one is gone, or the session was an earlier one.
Unlisting(c, p) ==
    \E task \in server.tasks :
        /\ {task.from, task.to} = {c, p}
        /\ task.kind = "unlist" \/ (task.kind = "disconnect" /\ task.login # server.sess[task.from])

\* The two sessions are connected whatever the answer is.  (`crossed' only records
\* which connections a disconnection may cut in half.)
post_connect_finished(srv, c, p) ==
    LET connected == insert_new_virtual_connection_as_server(insert_new_virtual_connection_as_server(srv, c, p), p, c)
    IN  IF Unlisting(c, p) THEN [connected EXCEPT !.crossed = @ \cup {{c, p}}] ELSE connected

handle_response_phase_post_register(c, p, t, resp) ==
    LET removed == remove_tracked_posting(server, p, t) IN
    IF Routable(c, p, t) THEN post_register_finished(removed, c, p, t, resp) ELSE removed

handle_response_phase_post_connect(c, p, t) ==
    LET removed == remove_tracked_posting(server, p, t) IN
    IF Routable(c, p, t) THEN post_connect_finished(removed, c, p) ELSE removed

\* The sender of an answer is told that it was forwarded, or why it was not.
route_signal_response(c, p, s, t) ==
    IF Routable(c, p, t)
    THEN reply_to_sender(Sent(down, p, s), c, SignalReceived(c, t))
    ELSE reply_to_sender_err(down, c, t)

(***************************************************************************)
(* The server handles a signal.                                            *)
(***************************************************************************)
\* The answer of a peer to a registration request.
PostRegisterResponse(c) ==
    LET s == Head(up[c])  p == s.conn[2] IN
    /\ Submits(c, "PostRegister") /\ s.resp # "none"
    /\ server' = handle_response_phase_post_register(c, p, s.ticket, s.resp)
    /\ down' = route_signal_response(c, p, s, s.ticket)
    /\ UNCHANGED <<client, req>>

\* A request: when the peer asked for the same before, the request counts as its
\* acceptance and the sender is told of an acceptance in turn, whatever became
\* of the first one.
PostRegisterRequest(c) ==
    LET s == Head(up[c])  p == s.conn[2]  waiting == check_simultaneous("register", c, p) IN
    /\ Submits(c, "PostRegister") /\ s.resp = "none"
    /\ \/ \E t \in waiting :
            /\ server' = handle_response_phase_post_register(c, p, t, "accept")
            /\ LET accept == PostRegister(<<c, p>>, t, "accept")
                   told == IF Routable(c, p, t) THEN Sent(down, p, accept) ELSE down
               IN  down' = reply_to_sender(told, c, PostRegister(<<p, c>>, s.ticket, "accept"))
       \/ waiting = {} /\ route_signal_and_register_ticket_forwards(c, p, s, "register")
    /\ UNCHANGED <<client, req>>

PostConnectResponse(c) ==
    LET s == Head(up[c])  p == s.conn[2] IN
    /\ Submits(c, "PostConnect") /\ s.resp # "none"
    /\ server' = handle_response_phase_post_connect(c, p, s.ticket)
    /\ down' = route_signal_response(c, p, s, s.ticket)
    /\ UNCHANGED <<client, req>>

\* The later of two simultaneous requests is taken for an acceptance of the
\* first; its sender gets no answer of its own.
PostConnectRequest(c) ==
    LET s == Head(up[c])  p == s.conn[2]  waiting == check_simultaneous("connect", c, p) IN
    /\ Submits(c, "PostConnect") /\ s.resp = "none"
    /\ \/ \E t \in waiting :
            /\ server' = handle_response_phase_post_connect(c, p, t)
            /\ down' = IF Routable(c, p, t) THEN Sent(down, p, PostConnect(<<c, p>>, t, "accept")) ELSE down
       \/ waiting = {} /\ route_signal_and_register_ticket_forwards(c, p, s, "connect")
    /\ UNCHANGED <<client, req>>

\* One entry of each list is removed; an error when the first has none.
deregister_p2p_as_server(srv, c, p) == [srv EXCEPT !.mutual[c][p] = @ - 1, !.mutual[p][c] = @ - 1]

\* Both peers are told; the event is kept for a deregistration of the other peer
\* that is under way.
DeregisterPeer(c) ==
    LET s == Head(up[c])
        p == s.conn[2]
        event == Posting(s.ticket, "deregistered", p)
        simultaneous == check_simultaneous_deregister(c, p)
        told == Sent(Routed(down, p, DeregistrationSuccess(p, c, s.ticket)),
                     c, DeregistrationSuccess(c, p, s.ticket))
    IN
    /\ Submits(c, "Deregister")
    /\ \/ simultaneous /\ server' = server /\ down' = told
       \/ /\ ~simultaneous /\ server.mutual[c][p] > 0
          /\ server' = insert_tracked_posting(deregister_p2p_as_server(server, c, p), c, event)
          /\ down' = told
       \/ /\ ~simultaneous /\ server.mutual[c][p] = 0
          /\ server' = server /\ down' = reply_to_sender_err(down, c, s.ticket)
    /\ UNCHANGED <<client, req>>

\* The key exchange is forwarded; the sender is told when the peer is gone.
RouteKem(c) ==
    LET s == Head(up[c])  p == s.conn[2] IN
    /\ Submits(c, "Kem")
    /\ down' = IF server.sess[p] > 0 THEN Sent(down, p, s) ELSE reply_to_sender_err(down, c, s.ticket)
    /\ UNCHANGED <<client, server, req>>

\* A disconnect is carried out by a task, once no packet has been delivered for
\* a while; nothing happens when the two are not connected.
DisconnectTask(c, p) == [kind |-> "disconnect", from |-> c, to |-> p, ticket |-> 0, login |-> server.sess[c]]

DisconnectRequest(c) ==
    LET p == Head(up[c]).conn[2] IN
    /\ Submits(c, "Disconnect")
    /\ server' = IF p \in server.vconn[c] THEN [server EXCEPT !.tasks = @ \cup {DisconnectTask(c, p)}] ELSE server
    /\ UNCHANGED <<client, down, req>>

\* The answer to a query about the registered peers is the list itself.
ListMutuals(c) ==
    LET s == Head(up[c]) IN
    /\ Submits(c, "GetMutuals")
    /\ down' = reply_to_sender(down, c, s)
    /\ UNCHANGED <<client, server, req>>

(***************************************************************************)
(* The server's tasks.                                                     *)
(***************************************************************************)
\* An entry is added to both lists, whether there is one or not.
register_p2p_as_server(srv, c, p) == [srv EXCEPT !.mutual[c][p] = @ + 1, !.mutual[p][c] = @ + 1]

Registers(task) ==
    /\ task.kind = "register"
    /\ server' = [register_p2p_as_server(server, task.from, task.to) EXCEPT !.tasks = @ \ {task}]
    /\ UNCHANGED <<client, up, down, req>>

\* The entry of the session that asked is removed first, under the lock of its
\* state, the one of the peer's session under the lock of the peer's.
Disconnects(task) ==
    LET c == task.from
        p == task.to
    IN
    /\ task.kind = "disconnect"
    /\ server' = [server EXCEPT !.tasks = (@ \ {task}) \cup {[task EXCEPT !.kind = "unlist"]},
                                !.vconn[c] = IF server.sess[c] = task.login THEN @ \ {p} ELSE @]
    /\ UNCHANGED <<client, up, down, req>>

\* A peer that has no entry is not told.
disconnect_virtual_conn(task) ==
    LET c == task.from
        p == task.to
    IN
    /\ task.kind = "unlist"
    /\ server' = [server EXCEPT !.tasks = @ \ {task}, !.vconn[p] = @ \ {c}]
    /\ down' = IF c \in server.vconn[p] THEN Routed(down, p, Disconnect(<<c, p>>, "disconnected")) ELSE down
    /\ UNCHANGED <<client, up, req>>

\* on_session_shutdown forgets the postings of the client, whose timeouts stay
\* queued, and after that empties its mailbox.
ForgetsPeer(task) ==
    /\ task.kind = "shutdown"
    /\ server' = [server EXCEPT !.tasks = (@ \ {task}) \cup {[task EXCEPT !.kind = "mailbox"]},
                                !.mapped = @ \ {task.from}, !.post[task.from] = {}]
    /\ UNCHANGED <<client, up, down, req>>

EmptiesMailbox(task) ==
    /\ task.kind = "mailbox"
    /\ server' = [server EXCEPT !.tasks = @ \ {task}, !.mailbox[task.from] = {}]
    /\ UNCHANGED <<client, up, down, req>>

\* A mutant: the timeout is told and the posting still waits for an answer.
ExpireKeepsPosting(c, t) ==
    /\ MayExpire /\ <<c, t>> \in server.queue
    /\ server' = [server EXCEPT !.queue = @ \ {<<c, t>>}]
    /\ down' = Sent(down, c, SignalError(c, t))
    /\ UNCHANGED <<client, up, req>>

\* The timeout of a posting.  The stale request itself goes back to its sender.
Expire(c, t) ==
    LET expired == {x \in server.post[c] : x.ticket = t}
        stale == {x \in expired : x.kind # "deregistered"}
    IN
    /\ MayExpire /\ <<c, t>> \in server.queue
    /\ server' = remove_tracked_posting(server, c, t)
    /\ down' = IF stale # {} THEN Sent(down, c, Command(c, req[t].to, req[t].kind, t)) ELSE down
    /\ UNCHANGED <<client, up, req>>

(***************************************************************************)
(* A client handles a signal.                                              *)
(***************************************************************************)
insert_hyperlan_peer(n) == n + 1

register_hyperlan_p2p_at_endpoints(cl, p) == [cl EXCEPT !.known[p] = insert_hyperlan_peer(@)]

\* An acceptance adds the peer to the client's list, whether it is there or not.
RegisterAccepted(c) ==
    LET s == Head(down[c]) IN
    /\ Receives(c, "PostRegister") /\ s.resp = "accept"
    /\ client' = [client EXCEPT ![c] = register_hyperlan_p2p_at_endpoints(@, s.conn[1])]
    /\ req' = Told(s.ticket, "accept")
    /\ UNCHANGED <<server, up>>

\* Requests go to the kernel, refusals to the one who waits for the ticket; a
\* stale request of the client's own comes back under a ticket whose listener
\* expects an answer.
ForwardToKernel(c) ==
    LET s == Head(down[c]) IN
    /\ Receives(c, "PostRegister") \/ Receives(c, "PostConnect")
    /\ s.resp # "accept"
    /\ client' = IF s.resp = "none" /\ s.conn[2] = c THEN [client EXCEPT ![c].inbox = @ \cup {s}] ELSE client
    /\ req' = IF s.resp = "decline" THEN Told(s.ticket, "decline") ELSE req
    /\ UNCHANGED <<server, up>>

\* The accepted side of a connect request starts the key exchange as Alice.
ConnectAccepted(c) ==
    LET s == Head(down[c])  p == s.conn[1] IN
    /\ Receives(c, "PostConnect") /\ s.resp = "accept"
    /\ client' = [client EXCEPT ![c].kem[p] = [role |-> "alice", key |-> s.ticket]]
    /\ up' = [up EXCEPT ![c] = Append(@, Kem(<<c, p>>, s.ticket, "stage0"))]
    /\ UNCHANGED <<server, req>>

KemStage0(c) ==
    LET s == Head(down[c])  p == s.conn[1] IN
    /\ Receives(c, "Kem") /\ s.resp = "stage0"
    /\ client' = [client EXCEPT ![c].kem[p] = [role |-> "bob", key |-> s.ticket]]
    /\ up' = [up EXCEPT ![c] = Append(@, Kem(reverse(s.conn), s.ticket, "stage1"))]
    /\ UNCHANGED <<server, req>>

\* The session's tables once the key is agreed: the connection replaces an
\* earlier one, and the channel goes to the kernel under the ticket of this
\* client's own attempt, if it made one.
insert_new_peer_virtual_connection_as_endpoint(cl, p, key, initiator) ==
    [cl EXCEPT !.vconn[p] = [key |-> key, active |-> TRUE, initiator |-> initiator],
               !.kem[p] = [role |-> "finished", key |-> key],
               !.attempts[p] = 0,
               !.punching = @ \cup {[peer |-> p, key |-> key,
                                     ticket |-> IF cl.attempts[p] # 0 THEN cl.attempts[p] ELSE key]}]

\* stage1_alice only decrypts what was made for this constructor.
stage1_alice(kem, key) == kem.role = "alice" /\ kem.key = key

KemStage1(c) ==
    LET s == Head(down[c])  p == s.conn[1]  kem == client[c].kem[p] IN
    /\ Receives(c, "Kem") /\ s.resp = "stage1" /\ stage1_alice(kem, s.ticket)
    /\ client' = [client EXCEPT ![c] = insert_new_peer_virtual_connection_as_endpoint(@, p, kem.key, TRUE)]
    /\ up' = [up EXCEPT ![c] = Append(@, Kem(reverse(s.conn), s.ticket, "stage2"))]
    /\ UNCHANGED <<server, req>>

\* The exchange of another constructor, or of none.
KemStage1Dropped(c) ==
    LET s == Head(down[c])  p == s.conn[1] IN
    /\ Receives(c, "Kem") /\ s.resp = "stage1"
    /\ client[c].kem[p].role \in {"none", "finished"}
    /\ client' = [client EXCEPT ![c].kem[p] = NoKem]
    /\ UNCHANGED <<server, up, req>>

\* A mutant: Bob finishes the exchange and opens no connection.
KemStage2Unopened(c) ==
    LET s == Head(down[c])  p == s.conn[1] IN
    /\ Receives(c, "Kem") /\ s.resp = "stage2"
    /\ client' = [client EXCEPT ![c].kem[p].role = "finished"]
    /\ UNCHANGED <<server, up, req>>

\* Bob finishes with the constructor that is there, whichever exchange it is of;
\* one of Alice's has no drill to finish with and is used up.
KemStage2(c) ==
    LET s == Head(down[c])  p == s.conn[1]  kem == client[c].kem[p] IN
    /\ Receives(c, "Kem") /\ s.resp = "stage2"
    /\ client' = CASE kem.role = "bob" ->
                        [client EXCEPT ![c] = insert_new_peer_virtual_connection_as_endpoint(@, p, kem.key, FALSE)]
                   [] kem.role = "alice" -> [client EXCEPT ![c].kem[p].role = "finished"]
                   [] OTHER -> client
    /\ UNCHANGED <<server, up, req>>

\* The endpoints register with each other and punch; the kernel is handed the
\* channel afterwards, whether the punching succeeded or not.
attempt_simultaneous_hole_punch(c, punch) ==
    LET p == punch.peer  key == punch.key IN
    /\ client[c].on
    /\ client[p].on /\ \/ \E other \in client[p].punching : other.peer = c /\ other.key = key
                       \/ <<c, key>> \in client[p].held
                       \/ client[p].vconn[c].key = key
    /\ client' = [client EXCEPT ![c].punching = @ \ {punch}, ![c].held = @ \cup {<<p, key>>},
                                ![c].accepted = @ \ {key}]
    /\ req' = Told(punch.ticket, "connected")
    /\ UNCHANGED <<server, up, down>>

\* The server's word that a peer is gone: the connection goes inactive at once
\* and is removed by a task.
PeerDisconnected(c) ==
    LET s == Head(down[c])  p == s.conn[1] IN
    /\ Receives(c, "Disconnect")
    /\ LET ended == [client[c] EXCEPT !.accepted = {t \in @ : req[t].by # p}] IN
       client' = [client EXCEPT ![c] = IF @.vconn[p] = NoConn THEN ended
                                       ELSE [ended EXCEPT !.vconn[p].active = FALSE, !.drains = @ \cup {p}]]
    /\ UNCHANGED <<server, up, req>>

\* The task removes whatever connection is kept under the peer by then.
Drain(c, p) ==
    /\ p \in client[c].drains
    /\ client' = [client EXCEPT ![c].drains = @ \ {p}, ![c].vconn[p] = NoConn]
    /\ UNCHANGED <<server, up, down, req>>

remove_hyperlan_peer(n) == IF n > 0 THEN n - 1 ELSE 0

Deregistered(c) ==
    LET s == Head(down[c]) IN
    /\ Receives(c, "DeregistrationSuccess")
    /\ client' = [client EXCEPT ![c].known[s.conn[2]] = remove_hyperlan_peer(@)]
    /\ req' = IF req[s.ticket].by = c THEN Told(s.ticket, "gone") ELSE req
    /\ UNCHANGED <<server, up>>

\* An error ends the wait of the kernel for the ticket it names.
Errors(c) ==
    LET s == Head(down[c]) IN
    /\ Receives(c, "SignalError")
    /\ req' = IF req[s.ticket].by = c THEN Told(s.ticket, "error") ELSE req
    /\ client' = [client EXCEPT ![c].accepted = @ \ {s.ticket}]
    /\ UNCHANGED <<server, up>>

Acknowledged(c) ==
    /\ Receives(c, "SignalReceived")
    /\ UNCHANGED <<client, server, up, req>>

Listed(c) ==
    /\ Receives(c, "GetMutuals")
    /\ req' = Told(Head(down[c]).ticket, "listed")
    /\ UNCHANGED <<client, server, up>>

(***************************************************************************)
(* Sessions end and begin.                                                 *)
(***************************************************************************)
\* The client's side of the session ends: everything in flight is lost, and so
\* are the answers its kernel waited for.
EndsAt(c) ==
    /\ client' = [client EXCEPT ![c] = StateContainer(FALSE) @@ [known |-> client[c].known]]
    /\ up' = [up EXCEPT ![c] = <<>>]
    /\ down' = [down EXCEPT ![c] = <<>>]
    /\ req' = [t \in Ticket |-> IF req[t].by = c /\ req[t].told = "none" THEN [req[t] EXCEPT !.told = "lost"] ELSE req[t]]

Leave(c) ==
    /\ client[c].on /\ c \in Leavers /\ server.logins[c] < MaxLogin
    /\ EndsAt(c)
    /\ UNCHANGED server

\* stage1_alice fails: the handler's error ends the session.
KemStage1Fails(c) ==
    LET s == IF down[c] = <<>> THEN Disconnect(<<c, c>>, "none") ELSE Head(down[c])
        kem == client[c].kem[s.conn[1]]
    IN
    /\ client[c].on /\ s.type = "Kem" /\ s.resp = "stage1"
    /\ kem.role \in {"alice", "bob"} /\ ~stage1_alice(kem, s.ticket)
    /\ EndsAt(c)
    /\ UNCHANGED server

\* The server's side: the session's virtual connections are taken out of the
\* sessions of the peers, who are alerted; a task clears the peer layer.
Shutdown(c) ==
    LET peers == server.vconn[c]
        task == [kind |-> "shutdown", from |-> c, to |-> c, ticket |-> 0, login |-> server.sess[c]]
        alert(p) == p \in peers /\ server.sess[p] > 0 /\ client[p].on
    IN
    /\ ~client[c].on /\ server.sess[c] > 0
    /\ server' = [server EXCEPT !.sess[c] = 0, !.tasks = @ \cup {task},
                                !.vconn = [p \in Cid |-> IF p = c THEN {} ELSE
                                                         IF p \in peers THEN @[p] \ {c} ELSE @[p]]]
    /\ down' = [p \in Cid |-> IF alert(p) THEN Append(down[p], Disconnect(<<c, p>>, "disconnected")) ELSE down[p]]
    /\ UNCHANGED <<client, up, req>>

\* The client's list becomes the server's.
synchronize_hyperlan_peer_list(cl, list) == cl @@ [known |-> list]

\* A new login: register_peer makes the maps that are missing and hands over the
\* mailbox; the client takes over the server's list of its peers.
Login(c) ==
    /\ ~client[c].on /\ server.sess[c] = 0 /\ server.logins[c] < MaxLogin
    /\ LET n == server.logins[c] + 1 IN
        server' = [server EXCEPT !.sess[c] = n, !.logins[c] = n, !.mapped = @ \cup {c}, !.mailbox[c] = {}]
    /\ client' = [client EXCEPT ![c] = synchronize_hyperlan_peer_list(
                                          [StateContainer(TRUE) EXCEPT !.inbox = server.mailbox[c]], server.mutual[c])]
    /\ UNCHANGED <<up, down, req>>

Serves(c) ==
    \/ PostRegisterResponse(c) \/ PostRegisterRequest(c)
    \/ PostConnectResponse(c) \/ PostConnectRequest(c)
    \/ DeregisterPeer(c) \/ RouteKem(c) \/ DisconnectRequest(c) \/ ListMutuals(c)

Works(task) ==
    \/ Registers(task)
    \/ Disconnects(task) \/ disconnect_virtual_conn(task)
    \/ ForgetsPeer(task) \/ EmptiesMailbox(task)

Handles(c) ==
    \/ RegisterAccepted(c) \/ ForwardToKernel(c) \/ ConnectAccepted(c)
    \/ KemStage0(c) \/ KemStage1(c) \/ KemStage1Dropped(c) \/ KemStage2(c) \/ KemStage1Fails(c)
    \/ PeerDisconnected(c) \/ Deregistered(c) \/ Errors(c) \/ Acknowledged(c) \/ Listed(c)

Answers(c) == \E s \in client[c].inbox, resp \in Responses : Respond(c, s, resp)

Next ==
    \/ \E c, p \in Cid, kind \in Kinds : Request(c, p, kind)
    \/ \E c \in Cid : Answers(c)
    \/ \E c, p \in Cid : \E k \in 1 .. MaxTicket : DropChannel(c, p, k)
    \/ \E c \in Cid : Serves(c) \/ Handles(c)
    \/ \E task \in server.tasks : Works(task)
    \/ \E c \in Cid, t \in Ticket : Expire(c, t)
    \/ \E c \in Cid : \E punch \in client[c].punching : attempt_simultaneous_hole_punch(c, punch)
    \/ \E c, p \in Cid : Drain(c, p)
    \/ \E c \in Cid : Leave(c) \/ Shutdown(c) \/ Login(c)

\* The sessions, the tasks and the punching run on; the kernels answer the
\* requests they get.
Progress ==
    \/ \E c \in Cid : Serves(c) \/ Handles(c) \/ Answers(c) \/ Shutdown(c) \/ Login(c)
    \/ \E task \in server.tasks : Works(task)
    \/ \E c \in Cid : \E punch \in client[c].punching : attempt_simultaneous_hole_punch(c, punch)
    \/ \E c, p \in Cid : Drain(c, p)
    \/ \E c \in Cid, t \in Ticket : Expire(c, t)

Spec == Init /\ [][Next]_vars

(***************************************************************************)
(* Properties.                                                             *)
(***************************************************************************)
TypeOK ==
    /\ \A c \in Cid : client[c].held \subseteq Cid \X Ticket /\ client[c].drains \subseteq Cid
    /\ server.vconn \in [Cid -> SUBSET Cid] /\ server.mapped \subseteq Cid
    /\ server.mutual \in [Cid -> [Cid -> Nat]] /\ server.sess \in [Cid -> 0 .. MaxLogin]
    /\ \A t \in Ticket : req[t].told \in {"none", "accept", "decline", "connected", "gone", "error", "listed", "lost"}

\* A request has one outcome: once the kernel has been given an answer to a
\* ticket, no later signal (a timeout, a late answer, an error of the key
\* exchange) gives it another one.
KeepsAnswers == \A t \in Ticket : req[t].told \notin {"none", "lost"} => req'[t].told = req[t].told

\* The server lists two peers as mutual at both accounts or at neither, whatever
\* registrations and deregistrations of the two overlap.
MutualsAgree ==
    \A c, p \in Cid : server.mutual[c][p] = server.mutual[p][c]

\* A virtual connection of a session leads to a session that lists it too, so
\* that a session which ends finds itself listed at each of its peers, except
\* while a disconnection of the two is half way, and unless they were connected
\* during one.
VconnsAreListed ==
    \A c \in Cid : \A p \in server.vconn[c] :
        \/ server.sess[p] > 0 /\ c \in server.vconn[p]
        \/ Unlisting(c, p) \/ {c, p} \in server.crossed

Quiet == /\ \A c \in Cid : up[c] = <<>> /\ down[c] = <<>> /\ client[c].drains = {}
         /\ server.tasks = {}

\* When nothing is in flight, a connection that is active at both ends has one
\* key and one initiator, whichever of the two asked, and also when both did.
ChannelKeysAgree ==
    \A c, p \in Cid :
        LET mine == client[c].vconn[p]  theirs == client[p].vconn[c] IN
        Quiet /\ mine.active /\ theirs.active => mine.key = theirs.key /\ mine.initiator # theirs.initiator

\* When nothing is in flight, a connection that is active at one end is active at the other.
ActiveAtBothEnds ==
    \A c, p \in Cid : Quiet /\ client[c].vconn[p].active => client[p].vconn[c].active

\* An accepted registration is on the server's lists once its task has run,
\* unless a deregistration was asked for.
AcceptedIsRegistered ==
    Quiet => \A t \in Ticket : req[t].told = "accept" =>
        \/ server.mutual[req[t].by][req[t].to] > 0
        \/ \E u \in Ticket : req[u].kind = "deregister"

\* A kernel waits for an answer.
Waiting == \E t \in Ticket : req[t].told = "none"

FairSpec == Spec /\ WF_vars(Progress)
=============================================================================
