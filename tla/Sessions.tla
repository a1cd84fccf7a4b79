------------------------------ MODULE Sessions ------------------------------
(***************************************************************************)
(* The life of the sessions between clients and one server: registration,  *)
(* pre-connection, login, disconnection and deregistration, with the two   *)
(* session managers, the account managers and what the kernels are told.   *)
(*                                                                         *)
(* A link is one transport connection.  Each end of it runs a session: the *)
(* packets of a link arrive in order, but a handler that awaits lets the   *)
(* next packet in (execute_inbound_stream is concurrent); what it still    *)
(* has to do is a task of its end.  A packet carries the key it is         *)
(* encrypted with: of an account (its static ratchet, named after the link *)
(* that registered it) or of a link (the ratchet its pre-connection made). *)
(***************************************************************************)
EXTENDS Naturals, Sequences, FiniteSets, Functions

CONSTANTS
    Client,         \* the clients
    Server,         \* the server
    Link,           \* the transport connections that may be made
    User,           \* the account every credentialed link belongs to
    None,
    Mode,           \* what links are made for, a subset of Modes
    UdpMode,        \* a subset of {"off", "punch", "quic"}
    Credentials,    \* a subset of {"right", "wrong"}
    Transient,      \* whether the server allows passwordless accounts
    MayBreak,       \* whether a transport may break
    MayExpire       \* whether an attempt to connect may outlast DO_CONNECT_EXPIRE_TIME

Modes == {"register", "connect", "force", "fetch", "passwordless"}

VARIABLES
    link,       \* the parameters of each link in use
    sess,       \* the session at each end of a link
    wire,       \* the packets on their way to each end
    sessions,   \* HdpSessionManagerInner::sessions of each node
    prov,       \* its provisional_connections
    acct,       \* the accounts of each node: the key of each
    toolset,    \* the ratchet in the toolset of each account of each node
    told        \* what each end has told its kernel

maps == <<sessions, prov>>
accounts == <<acct, toolset>>
vars == <<link, sess, wire, maps, accounts, told>>

Node == Client \cup {Server}
End == Link \X {"client", "server"}
Cid == Link \cup {User}     \* a passwordless link has an account of its own
Key == Cid                  \* an account is named after the link that registered it
Used == {l \in Link : link[l] # None}

Other(e) == <<e[1], IF e[2] = "client" THEN "server" ELSE "client">>
NodeOf(e) == IF e[2] = "server" THEN Server ELSE link[e[1]].node
CidOf(l) == IF link[l].mode = "passwordless" THEN l ELSE User

\* SessionState of a session whose account has not logged in yet.
Registrable == {"SocketJustOpened", "NeedsRegister", "NeedsConnect"}
is_provisional(s) == s.state \in Registrable \cup {"ConnectionProcess"}

New(state, cid) ==
    [run |-> "running", err |-> FALSE, state |-> state, cid |-> cid, reg |-> "STAGE0",
     pre |-> "SYN", success |-> FALSE, con |-> "STAGE0", cnac |-> None, ratchet |-> FALSE,
     udp |-> FALSE, loader |-> "none", alert |-> FALSE, channel |-> None, signal |-> FALSE,
     dc |-> TRUE, asked |-> FALSE, tasks |-> {}]

NoSession == [New("SocketJustOpened", None) EXCEPT !.run = "none"]

SessionType ==
    [run     : {"none", "running", "stopped", "closed", "dropped"},
     err     : BOOLEAN,                     \* whether the session future ended with an error
     state   : Registrable \cup {"ConnectionProcess", "Connected", "Disconnected"},
     cid     : Cid \cup {None},             \* implicated_cid
     reg     : {"STAGE0", "STAGE1", "STAGE2"},
     pre     : {"SYN", "SYN_ACK", "SUCCESS"},
     success : BOOLEAN,                     \* pre_connect_state.success
     con     : {"STAGE0", "STAGE1", "SUCCESS", "FAILURE"},
     cnac    : Key \cup {None},
     ratchet : BOOLEAN,                     \* whether there is a generated_ratchet
     udp     : BOOLEAN,                     \* UdpMode::Enabled
     loader  : {"none", "waiting", "loaded"},   \* the task of udp_socket_loader
     alert   : BOOLEAN,                     \* whether tcp_loaded_status holds a sender
     channel : Link \cup {None},            \* the ratchet of the c2s channel
     signal  : BOOLEAN,                     \* channel_signal
     dc      : BOOLEAN,                     \* whether dc_signal_sender was not taken yet
     asked   : BOOLEAN,                     \* bound: the kernel asks once to end the session
     tasks   : SUBSET {"register", "save", "syn", "punch", "right", "wrong", "greet", "sync"}]

Init ==
    /\ link = [l \in Link |-> None]
    /\ sess = [e \in End |-> NoSession]
    /\ wire = [e \in End |-> <<>>]
    /\ sessions = [n \in Node |-> [c \in Cid |-> None]]
    /\ prov = [n \in Node |-> {}]
    /\ told = [e \in End |-> <<>>]
    /\ \/ acct = [n \in Node |-> [c \in Cid |-> None]]
       \/ \E c \in Client : acct = [n \in Node |->
                [d \in Cid |-> IF n \in {c, Server} /\ d = User THEN User ELSE None]]
    /\ toolset = [n \in Node |-> [k \in Key |-> None]]
-----------------------------------------------------------------------------
Packet(type, key) == [type |-> type, key |-> key]

(* do_register: the first three and FAILURE are in the clear *)
do_register_stage0     == Packet("REGISTER STAGE0", None)
do_register_stage1     == Packet("REGISTER STAGE1", None)
do_register_stage2(l)  == Packet("REGISTER STAGE2", l)
do_register_success(l) == Packet("REGISTER SUCCESS", l)
do_register_failure    == Packet("REGISTER FAILURE", None)

(* pre_connect: the account's static key, then the link's *)
craft_syn(k)               == Packet("SYN", k)
craft_syn_ack(k)           == Packet("SYN_ACK", k)
craft_stage0(l)            == Packet("STAGE0", l)
craft_stage_final(l)       == Packet("SUCCESS", l)
craft_begin_connect(l)     == Packet("BEGIN_CONNECT", l)
craft_halt                 == Packet("HALT", None)

(* do_connect, do_disconnect, do_deregister *)
craft_stage0_packet(l)         == Packet("CONNECT STAGE0", l)
craft_final_status_packet(l, success) ==
    Packet(IF success THEN "CONNECT SUCCESS" ELSE "CONNECT FAILURE", l)
craft_success_ack(l)           == Packet("SUCCESS_ACK", l)
do_disconnect_stage0(k)        == Packet("DISCONNECT STAGE0", k)
do_disconnect_final(k)         == Packet("DISCONNECT FINAL", k)
do_deregister_stage0(k)        == Packet("DEREGISTER STAGE0", k)
do_deregister_final(k, success) ==
    Packet(IF success THEN "DEREGISTER SUCCESS" ELSE "DEREGISTER FAILURE", k)
-----------------------------------------------------------------------------
\* The queue of e when packets are sent to it: lost if its session has ended.
Onto(e, packets) == IF sess[e].run \in {"none", "running"} THEN wire[e] \o packets ELSE wire[e]

Acts(e, s, packets) ==
    /\ sess' = [sess EXCEPT ![e] = s]
    /\ wire' = [wire EXCEPT ![Other(e)] = Onto(Other(e), packets)]

\* PrimaryProcessorResult::ReplyToSender, or Void when there are no packets.
Replies(e, s, packets) ==
    /\ sess' = [sess EXCEPT ![e] = s]
    /\ wire' = [wire EXCEPT ![e] = Tail(@), ![Other(e)] = Onto(Other(e), packets)]

\* The session future of e ends: its handlers are dropped, and with its writer
\* the packets that were not written yet.
Stops(e, s, err, packets) ==
    /\ sess' = [sess EXCEPT ![e] = [s EXCEPT !.run = "stopped", !.err = err, !.tasks = {}]]
    /\ LET q == Onto(Other(e), packets)
       IN  \E k \in 0 .. Len(q) :
             wire' = [wire EXCEPT ![e] = <<>>, ![Other(e)] = SubSeq(q, 1, k)]

\* PrimaryProcessorResult::EndSession, or an error.
EndsSession(e, s, packets) == Stops(e, s, TRUE, packets)

\* HdpSession::shutdown
Shutdown(e, s) == Stops(e, [s EXCEPT !.state = "Disconnected"], FALSE, <<>>)

Tell(e, results) == told' = [told EXCEPT ![e] = @ \o results]

\* send_session_dc_signal
DcSignal(s) == IF s.dc THEN <<"Disconnect">> ELSE <<>>

disable_dc_signal(s) == [s EXCEPT !.dc = FALSE]

\* get_proper_hyper_ratchet
RatchetOf(e) ==
    LET s == sess[e]
    IN  IF s.state = "Connected" THEN s.channel ELSE IF s.ratchet THEN e[1] ELSE None

\* Whether process_register gets past its early returns, and so on.
RegisterAccepts(e, p) ==
    LET s == sess[e]
    IN  /\ s.state \in Registrable
        /\ CASE p.type = "REGISTER STAGE0"  -> s.reg = "STAGE0"
             [] p.type = "REGISTER STAGE1"  -> s.reg = "STAGE0"
             [] p.type = "REGISTER STAGE2"  -> s.reg = "STAGE1" /\ p.key = e[1]
             [] p.type = "REGISTER SUCCESS" -> s.reg = "STAGE2" /\ p.key = e[1]
             [] p.type = "REGISTER FAILURE" -> s.reg # "STAGE0"

PreConnectAccepts(e, p) ==
    LET s == sess[e]
        opens == p.key = RatchetOf(e)
    IN  /\ is_provisional(s)
        /\ CASE p.type \in {"SYN", "HALT"} -> TRUE
             [] p.type = "SYN_ACK"         -> s.pre = "SYN_ACK" /\ s.cnac = p.key
             [] p.type = "STAGE0"          -> s.pre = "SYN_ACK" /\ opens
             [] p.type = "SUCCESS"         -> opens
             [] p.type = "BEGIN_CONNECT"   -> s.pre = "SUCCESS" /\ opens

ConnectAccepts(e, p) ==
    LET s == sess[e]
    IN  /\ is_provisional(s) \/ s.con = "SUCCESS"
        /\ s.success
        /\ p.key = RatchetOf(e)
        /\ p.type = "CONNECT SUCCESS" => s.con = "STAGE1"

DisconnectAccepts(e, p) == sess[e].state = "Connected" /\ p.key = RatchetOf(e)
DeregisterAccepts(e, p) == sess[e].state = "Connected" /\ p.key = RatchetOf(e)

RegisterTypes == {"REGISTER STAGE0", "REGISTER STAGE1", "REGISTER STAGE2", "REGISTER SUCCESS",
                  "REGISTER FAILURE"}
PreConnectTypes == {"SYN", "SYN_ACK", "STAGE0", "SUCCESS", "BEGIN_CONNECT", "HALT"}
ConnectTypes == {"CONNECT STAGE0", "CONNECT SUCCESS", "CONNECT FAILURE", "SUCCESS_ACK"}
DisconnectTypes == {"DISCONNECT STAGE0", "DISCONNECT FINAL"}

\* process_primary_packet hands a packet to the processor of its kind.
Accepts(e, p) ==
    CASE p.type \in RegisterTypes   -> RegisterAccepts(e, p)
      [] p.type \in PreConnectTypes -> PreConnectAccepts(e, p)
      [] p.type \in ConnectTypes    -> ConnectAccepts(e, p)
      [] p.type \in DisconnectTypes -> DisconnectAccepts(e, p)
      [] OTHER                      -> DeregisterAccepts(e, p)

\* e is about to process a packet of this type.
Receives(e, type) ==
    /\ sess[e].run = "running"
    /\ wire[e] # <<>>
    /\ Head(wire[e]).type = type
    /\ Accepts(e, Head(wire[e]))

Discard(e) ==
    /\ sess[e].run = "running"
    /\ wire[e] # <<>>
    /\ ~ Accepts(e, Head(wire[e]))
    /\ wire' = [wire EXCEPT ![e] = Tail(@)]
    /\ UNCHANGED <<link, sess, maps, accounts, told>>

\* e goes on with a handler that awaited.
Resumes(e, task) == sess[e].run = "running" /\ task \in sess[e].tasks

Awaits(s, task) == [s EXCEPT !.tasks = @ \cup {task}]
Done(s, task) == [s EXCEPT !.tasks = @ \ {task}]
-----------------------------------------------------------------------------
(* The account managers *)

get_client_by_cid(n, cid) == acct[n][cid]
save_cnac(n, l) == [acct EXCEPT ![n][CidOf(l)] = l]
delete_client_by_cid(n, cid) == [acct EXCEPT ![n][cid] = None]

(* The session managers *)

\* The links that share a peer_addr: on a client every link to the server has the
\* server's address, on the server every link has an address of its own.
SameAddress(e) == IF e[2] = "client" THEN Link ELSE {e[1]}

clear_session(n, cid) == IF cid = None THEN sessions ELSE [sessions EXCEPT ![n][cid] = None]
clear_provisional_session(e) == [prov EXCEPT ![NodeOf(e)] = @ \ SameAddress(e)]

\* begin_connect: the client's part of the pre-connection begins.
begin_connect(s, cnac) == [s EXCEPT !.pre = "SYN_ACK", !.cnac = cnac]

\* handle_zero_state: what a client's session sends first.
handle_zero_state(cnac) == IF cnac = None THEN do_register_stage0 ELSE craft_syn(cnac)

\* The account an attempt is made with: it must exist, but for a new one.
AccountFor(n, mode) == IF mode \in {"register", "passwordless"} THEN None ELSE get_client_by_cid(n, User)

\* initiate_connection, from the one loop that handles the kernel's requests: the
\* entry of an earlier attempt makes it fail unless it is older than
\* DO_CONNECT_EXPIRE_TIME, in which case it is removed.
Initiate(n, l, mode, udp, creds) ==
    LET e == <<l, "client">>
        cnac == AccountFor(n, mode)
        s == IF cnac = None THEN New("NeedsRegister", None)
                            ELSE begin_connect(New("NeedsConnect", User), cnac)
    IN  /\ l \notin Used
        /\ MayExpire \/ prov[n] = {}
        /\ mode \in {"connect", "force", "fetch"} => cnac # None
        /\ link' = [link EXCEPT ![l] = [node |-> n, mode |-> mode, udp |-> udp, creds |-> creds]]
        /\ prov' = [prov EXCEPT ![n] = {l}]
        /\ Acts(e, [s EXCEPT !.udp = udp # "off"], <<handle_zero_state(cnac)>>)
        /\ UNCHANGED <<sessions, accounts, told>>

\* The same, when the transport cannot be made after the old entry was removed.
InitiateFails(n) ==
    /\ MayBreak /\ MayExpire
    /\ prov[n] # {}
    /\ prov' = [prov EXCEPT ![n] = {}]
    /\ UNCHANGED <<link, sess, wire, sessions, accounts, told>>

\* process_new_inbound_connection
Inbound(l) ==
    LET e == <<l, "server">>
    IN  /\ l \in Used
        /\ sess[e].run = "none"
        /\ prov' = [prov EXCEPT ![Server] = @ \cup {l}]
        /\ Acts(e, New("SocketJustOpened", None), <<>>)
        /\ UNCHANGED <<link, sessions, accounts, told>>

\* upgrade_connection: what is moved is the session found under the address.
Upgrade(e, cid) ==
    LET n == NodeOf(e)
    IN  /\ sessions' = [sessions EXCEPT ![n][cid] = CHOOSE l \in prov[n] \cap SameAddress(e) : TRUE]
        /\ prov' = clear_provisional_session(e)

Upgradable(e) == prov[NodeOf(e)] \cap SameAddress(e) # {}

\* Mutants: the signal is sent but not taken; the session stays in the map.
SafeShutdownTellsTwice(e) ==
    LET n == NodeOf(e)
        s == sess[e]
    IN  /\ s.run = "stopped"
        /\ sess' = [sess EXCEPT ![e].run = "closed"]
        /\ Tell(e, IF s.err THEN DcSignal(s) ELSE <<>>)
        /\ sessions' = clear_session(n, s.cid)
        /\ prov' = clear_provisional_session(e)
        /\ UNCHANGED <<link, wire, accounts>>

SafeShutdownKeepsSession(e) ==
    LET n == NodeOf(e)
        s == sess[e]
    IN  /\ s.run = "stopped"
        /\ sess' = [sess EXCEPT ![e].run = "closed", ![e].dc = @ /\ ~ s.err]
        /\ Tell(e, IF s.err THEN DcSignal(s) ELSE <<>>)
        /\ prov' = clear_provisional_session(e)
        /\ UNCHANGED <<link, wire, sessions, accounts>>

\* The rest of execute and execute_session_with_safe_shutdown, after the session
\* future of e ended.
SafeShutdown(e) ==
    LET n == NodeOf(e)
        s == sess[e]
    IN  /\ s.run = "stopped"
        /\ sess' = [sess EXCEPT ![e].run = "closed", ![e].dc = @ /\ ~ s.err]
        /\ Tell(e, IF s.err THEN DcSignal(s) ELSE <<>>)
        /\ sessions' = clear_session(n, s.cid)
        /\ prov' = clear_provisional_session(e)
        /\ acct' = IF s.cnac \in Link /\ link[s.cnac].mode = "passwordless"
                     THEN delete_client_by_cid(n, s.cnac) ELSE acct
        /\ UNCHANGED <<link, wire, toolset>>

\* A mutant: the session is dropped without its signal.
DropSilently(e) ==
    LET n == NodeOf(e)
    IN  /\ sess[e].run = "closed"
        /\ e[1] \notin prov[n]
        /\ \A c \in Cid : sessions[n][c] # e[1]
        /\ sess' = [sess EXCEPT ![e].run = "dropped", ![e].dc = FALSE]
        /\ UNCHANGED <<link, wire, maps, accounts, told>>

\* Drop for HdpSessionInner, once no map of the manager holds the session.
DropSession(e) ==
    LET n == NodeOf(e)
    IN  /\ sess[e].run = "closed"
        /\ e[1] \notin prov[n]
        /\ \A c \in Cid : sessions[n][c] # e[1]
        /\ sess' = [sess EXCEPT ![e].run = "dropped", ![e].dc = FALSE]
        /\ Tell(e, DcSignal(sess[e]))
        /\ UNCHANGED <<link, wire, maps, accounts>>

(* What ends a session from outside its packets *)

\* The stream of e ends, as the other end has gone.
Eof(e) ==
    /\ sess[e].run = "running"
    /\ wire[e] = <<>>
    /\ sess[Other(e)].run \notin {"none", "running"}
    /\ Stops(e, sess[e], FALSE, <<>>)
    /\ UNCHANGED <<link, maps, accounts, told>>

Breaks(e) ==
    /\ MayBreak
    /\ sess[e].run = "running"
    /\ Stops(e, sess[e], TRUE, <<>>)
    /\ UNCHANGED <<link, maps, accounts, told>>

\* PROVISIONAL_CHECKER, once, LOGIN_EXPIRATION_TIME after the session began: not
\* for a session that was connected by then, and has left the state since.
LoginExpires(e) ==
    /\ sess[e].run = "running"
    /\ sess[e].state # "Connected"
    /\ ~ (sess[e].state = "NeedsRegister" /\ sess[e].channel # None)
    /\ Stops(e, sess[e], FALSE, <<>>)
    /\ UNCHANGED <<link, maps, accounts, told>>
-----------------------------------------------------------------------------
(* Registration *)

\* STAGE0: a passwordless account may be refused.
RegisterStage0(e) ==
    LET s == sess[e]
        refused == link[e[1]].mode = "passwordless" /\ ~ Transient
    IN  /\ Receives(e, "REGISTER STAGE0")
        /\ Replies(e, IF refused THEN s ELSE [s EXCEPT !.reg = "STAGE1"],
                   <<IF refused THEN do_register_failure ELSE do_register_stage1>>)
        /\ UNCHANGED <<link, maps, accounts, told>>

RegisterStage1(e) ==
    /\ Receives(e, "REGISTER STAGE1")
    /\ Replies(e, [sess[e] EXCEPT !.reg = "STAGE2"], <<do_register_stage2(e[1])>>)
    /\ UNCHANGED <<link, maps, accounts, told>>

RegisterStage2(e) ==
    /\ Receives(e, "REGISTER STAGE2")
    /\ Replies(e, Awaits(sess[e], "register"), <<>>)
    /\ UNCHANGED <<link, maps, accounts, told>>

\* register_impersonal_hyperlan_client_network_account: the user name is looked
\* up ...
RegisterLookup(e) ==
    LET s == Done(sess[e], "register")
    IN  /\ Resumes(e, "register")
        /\ IF get_client_by_cid(Server, CidOf(e[1])) # None
             THEN Acts(e, s, <<do_register_failure>>)
             ELSE Acts(e, Awaits(s, "save"), <<>>)
        /\ UNCHANGED <<link, maps, accounts, told>>

\* ... and the new account is saved.
RegisterSave(e) ==
    /\ Resumes(e, "save")
    /\ acct' = save_cnac(Server, e[1])
    /\ Acts(e, Done(sess[e], "save"), <<do_register_success(e[1])>>)
    /\ UNCHANGED <<link, maps, toolset, told>>

\* SUCCESS: a passwordless link goes on with begin_connect, any other is done.
RegisterSuccess(e) ==
    LET l == e[1]
        n == NodeOf(e)
    IN  /\ Receives(e, "REGISTER SUCCESS")
        /\ acct' = save_cnac(n, l)
        /\ IF link[l].mode = "passwordless"
             THEN /\ Replies(e, begin_connect(sess[e], l), <<craft_syn(l)>>)
                  /\ UNCHANGED <<prov, told>>
             ELSE /\ prov' = clear_provisional_session(e)
                  /\ Tell(e, <<"RegisterOkay">>)
                  /\ Shutdown(e, sess[e])
        /\ UNCHANGED <<link, sessions, toolset>>

RegisterFailure(e) ==
    /\ Receives(e, "REGISTER FAILURE")
    /\ Tell(e, <<"RegisterFailure">>)
    /\ EndsSession(e, [sess[e] EXCEPT !.state = "Disconnected"], <<>>)
    /\ UNCHANGED <<link, maps, accounts>>
-----------------------------------------------------------------------------
(* Pre-connection *)

\* SYN: an account with a session is refused, any other is loaded ...
Syn(e) ==
    /\ Receives(e, "SYN")
    /\ IF sessions[Server][CidOf(e[1])] # None
         THEN Replies(e, sess[e], <<craft_halt>>)
         ELSE Replies(e, Awaits(sess[e], "syn"), <<>>)
    /\ UNCHANGED <<link, maps, accounts, told>>

\* validate_syn opens the packet with the account's static key and looks again
\* for a session, unless the login is forced.
validate_syn(l, key) ==
    /\ key # None
    /\ get_client_by_cid(Server, CidOf(l)) = key
    /\ link[l].mode = "force" \/ sessions[Server][CidOf(l)] = None

\* ... and, if its SYN is valid, gets a new toolset.
SynLoaded(e) ==
    LET l == e[1]
        s == Done(sess[e], "syn")
        key == sess[Other(e)].cnac      \* the key the SYN was made with
    IN  /\ Resumes(e, "syn")
        /\ IF validate_syn(l, key)
             THEN /\ toolset' = [toolset EXCEPT ![Server][key] = l]
                  /\ Acts(e, [s EXCEPT !.pre = "SYN_ACK", !.ratchet = TRUE, !.cnac = key,
                                       !.udp = link[l].udp # "off"],
                          <<craft_syn_ack(key)>>)
             ELSE /\ Acts(e, s, <<craft_halt>>)
                  /\ UNCHANGED toolset
        /\ UNCHANGED <<link, maps, acct, told>>

\* udp_socket_loader waits for the alert before it loads the UDP connection.
setup_tcp_alert_if_udp_c2s(s) == [s EXCEPT !.alert = TRUE]
udp_socket_loader(s) == [s EXCEPT !.loader = "waiting"]

handle_success_as_receiver(s, connected) ==
    LET t == setup_tcp_alert_if_udp_c2s([s EXCEPT !.pre = "SUCCESS"])
    IN  IF connected THEN udp_socket_loader(t) ELSE t

SynAck(e) ==
    LET l == e[1]
        s == [sess[e] EXCEPT !.ratchet = TRUE]
    IN  /\ Receives(e, "SYN_ACK")
        /\ toolset' = [toolset EXCEPT ![NodeOf(e)][s.cnac] = l]
        /\ CASE link[l].udp = "off"   ->
                  Replies(e, [s EXCEPT !.pre = "SUCCESS"], <<craft_stage0(l)>>)
             [] link[l].udp = "quic"  ->
                  Replies(e, handle_success_as_receiver(s, TRUE), <<craft_stage_final(l)>>)
             [] link[l].udp = "punch" ->
                  Replies(e, Awaits(s, "punch"), <<craft_stage0(l)>>)
        /\ UNCHANGED <<link, maps, acct, told>>

PreConnectStage0(e) ==
    LET s == sess[e]
    IN  /\ Receives(e, "STAGE0")
        /\ IF s.udp THEN Replies(e, Awaits(s, "punch"), <<>>)
                    ELSE Replies(e, [s EXCEPT !.success = TRUE], <<craft_begin_connect(e[1])>>)
        /\ UNCHANGED <<link, maps, accounts, told>>

\* The end of the hole punching, at the client (send_success_as_initiator) ...
PunchedInitiator(e) ==
    /\ e[2] = "client"
    /\ Resumes(e, "punch")
    /\ \E connected \in BOOLEAN :
         Acts(e, handle_success_as_receiver(Done(sess[e], "punch"), connected), <<craft_stage_final(e[1])>>)
    /\ UNCHANGED <<link, maps, accounts, told>>

\* ... and at the server, whenever that is.
PunchedReceiver(e) ==
    LET s == Done(sess[e], "punch")
    IN  /\ e[2] = "server"
        /\ Resumes(e, "punch")
        /\ \/ Acts(e, handle_success_as_receiver(s, TRUE), <<>>)
           \/ Acts(e, [s EXCEPT !.udp = FALSE, !.pre = "SUCCESS"], <<>>)
        /\ UNCHANGED <<link, maps, accounts, told>>

\* SUCCESS of the client, who never sends FAILURE.
PreConnectSuccess(e) ==
    LET s == [sess[e] EXCEPT !.success = TRUE]
    IN  /\ Receives(e, "SUCCESS")
        /\ Replies(e, IF s.udp /\ link[e[1]].udp = "quic" THEN handle_success_as_receiver(s, TRUE) ELSE s,
                   <<craft_begin_connect(e[1])>>)
        /\ UNCHANGED <<link, maps, accounts, told>>

begin_connect_process(s) == [s EXCEPT !.con = "STAGE1", !.state = "ConnectionProcess"]

BeginConnect(e) ==
    /\ Receives(e, "BEGIN_CONNECT")
    /\ Replies(e, begin_connect_process([sess[e] EXCEPT !.success = TRUE]),
               <<craft_stage0_packet(e[1])>>)
    /\ UNCHANGED <<link, maps, accounts, told>>

Halt(e) ==
    /\ Receives(e, "HALT")
    /\ Tell(e, <<"ConnectFail">>)
    /\ EndsSession(e, sess[e], <<>>)
    /\ UNCHANGED <<link, maps, accounts>>
-----------------------------------------------------------------------------
(* Login *)

ConnectStage0(e) ==
    /\ Receives(e, "CONNECT STAGE0")
    /\ Replies(e, Awaits(sess[e], link[e[1]].creds), <<>>)
    /\ UNCHANGED <<link, maps, accounts, told>>

\* insert_udp_channel, by the loader that was alerted
insert_udp_channel(s) == IF s.loader = "waiting" THEN [s EXCEPT !.loader = "loaded"] ELSE s

\* The channel uses the account's toolset as it is now, and the loader of a UDP
\* connection is alerted.
init_new_c2s_virtual_connection(e, s) ==
    LET t == [s EXCEPT !.channel = toolset[NodeOf(e)][s.cnac], !.alert = FALSE]
    IN  IF s.alert THEN insert_udp_channel(t) ELSE t

ConnectRefused(e) ==
    /\ Resumes(e, "wrong")
    /\ Acts(e, Done(sess[e], "wrong"), <<craft_final_status_packet(e[1], FALSE)>>)
    /\ UNCHANGED <<link, maps, accounts, told>>

\* The credentials are right: the session is moved to the sessions ...
ConnectAllowed(e) ==
    LET s == [init_new_c2s_virtual_connection(e, Done(sess[e], "right")) EXCEPT !.con = "SUCCESS"]
    IN  /\ Resumes(e, "right")
        /\ IF Upgradable(e)
             THEN Upgrade(e, CidOf(e[1])) /\ Acts(e, Awaits(s, "greet"), <<>>)
             ELSE UNCHANGED maps /\ EndsSession(e, s, <<>>)
        /\ UNCHANGED <<link, accounts, told>>

\* A mutant: the channel is not kept back until SUCCESS_ACK.
GreetedAtOnce(e) ==
    /\ Resumes(e, "greet")
    /\ Acts(e, [Done(sess[e], "greet") EXCEPT !.cid = CidOf(e[1]), !.state = "Connected"],
            <<craft_final_status_packet(e[1], TRUE)>>)
    /\ Tell(e, <<"ConnectSuccess">>)
    /\ UNCHANGED <<link, maps, accounts>>

\* ... and, after the peer layer and the list of peers, its state says so.
ConnectGreeted(e) ==
    /\ Resumes(e, "greet")
    /\ Acts(e, [Done(sess[e], "greet") EXCEPT !.cid = CidOf(e[1]), !.state = "Connected", !.signal = TRUE],
            <<craft_final_status_packet(e[1], TRUE)>>)
    /\ UNCHANGED <<link, maps, accounts, told>>

ConnectFailure(e) ==
    /\ Receives(e, "CONNECT FAILURE")
    /\ Tell(e, <<"ConnectFail">>)
    /\ EndsSession(e, [disable_dc_signal(sess[e]) EXCEPT !.con = "FAILURE", !.cid = None,
                                                         !.state = "NeedsConnect"], <<>>)
    /\ UNCHANGED <<link, maps, accounts>>

ConnectSuccess(e) ==
    LET s == [init_new_c2s_virtual_connection(e, sess[e]) EXCEPT !.con = "SUCCESS", !.cid = CidOf(e[1])]
    IN  /\ Receives(e, "CONNECT SUCCESS")
        /\ IF Upgradable(e)
             THEN /\ Upgrade(e, CidOf(e[1]))
                  /\ Replies(e, Awaits([s EXCEPT !.state = "Connected"], "sync"),
                             <<craft_success_ack(e[1])>>)
                  /\ Tell(e, <<"ConnectSuccess">>)
             ELSE EndsSession(e, s, <<>>) /\ UNCHANGED <<maps, told>>
        /\ UNCHANGED <<link, accounts>>

\* The list of peers has been stored; ConnectMode::Fetch wants no more.
PeersSynced(e) ==
    /\ Resumes(e, "sync")
    /\ IF link[e[1]].mode = "fetch" THEN EndsSession(e, sess[e], <<>>)
                                    ELSE Acts(e, Done(sess[e], "sync"), <<>>)
    /\ UNCHANGED <<link, maps, accounts, told>>

\* SUCCESS_ACK, at the server: its kernel gets the channel, or the session ends
\* as there is none.
SuccessAck(e) ==
    LET s == sess[e]
    IN  /\ Receives(e, "SUCCESS_ACK")
        /\ IF s.signal THEN /\ Replies(e, [s EXCEPT !.signal = FALSE], <<>>)
                            /\ Tell(e, <<"ConnectSuccess">>)
                       ELSE EndsSession(e, s, <<>>) /\ UNCHANGED told
        /\ UNCHANGED <<link, maps, accounts>>
-----------------------------------------------------------------------------
(* Disconnection and deregistration *)

\* initiate_disconnect and initiate_deregister, for the session the manager finds
\* under the account's id.
Asks(e, packet) ==
    /\ sess[e].run = "running"
    /\ sess[e].channel # None
    /\ \E c \in Cid : sessions[NodeOf(e)][c] = e[1]
    /\ ~ sess[e].asked
    /\ Acts(e, [sess[e] EXCEPT !.asked = TRUE], <<packet>>)
    /\ UNCHANGED <<link, maps, accounts, told>>

Disconnect(e) == Asks(e, do_disconnect_stage0(sess[e].channel))

Deregister(e) == e[2] = "client" /\ Asks(e, do_deregister_stage0(sess[e].channel))

DisconnectStage0(e) ==
    /\ Receives(e, "DISCONNECT STAGE0")
    /\ EndsSession(e, sess[e], <<do_disconnect_final(sess[e].channel)>>)
    /\ UNCHANGED <<link, maps, accounts, told>>

DisconnectFinal(e) ==
    /\ Receives(e, "DISCONNECT FINAL")
    /\ EndsSession(e, [sess[e] EXCEPT !.state = "Disconnected"], <<>>)
    /\ UNCHANGED <<link, maps, accounts, told>>

\* deregister_client_from_self
DeregisterStage0(e) ==
    LET s == sess[e]
        found == get_client_by_cid(Server, s.cid) # None
    IN  /\ Receives(e, "DEREGISTER STAGE0")
        /\ acct' = delete_client_by_cid(Server, s.cid)
        /\ Tell(e, <<"DeRegistration">> \o DcSignal(s))
        /\ Replies(e, [s EXCEPT !.state = "NeedsRegister", !.dc = FALSE],
                   <<do_deregister_final(s.channel, found)>>)
        /\ UNCHANGED <<link, maps, toolset>>

\* deregister_from_hyperlan_server_as_client
DeregisterSuccess(e) ==
    LET s == sess[e]
    IN  /\ Receives(e, "DEREGISTER SUCCESS")
        /\ acct' = delete_client_by_cid(NodeOf(e), s.cid)
        /\ Tell(e, <<"DeRegistration">> \o DcSignal(s))
        /\ Shutdown(e, [s EXCEPT !.dc = FALSE])
        /\ UNCHANGED <<link, maps, toolset>>

DeregisterFailure(e) ==
    /\ Receives(e, "DEREGISTER FAILURE")
    /\ Tell(e, <<"DeRegistration">>)
    /\ EndsSession(e, sess[e], <<>>)
    /\ UNCHANGED <<link, maps, accounts>>
-----------------------------------------------------------------------------
Processes(e) ==
    \/ Discard(e)
    \/ RegisterStage0(e) \/ RegisterStage1(e) \/ RegisterStage2(e)
    \/ RegisterLookup(e) \/ RegisterSave(e) \/ RegisterSuccess(e) \/ RegisterFailure(e)
    \/ Syn(e) \/ SynLoaded(e) \/ SynAck(e) \/ PreConnectStage0(e)
    \/ PunchedInitiator(e) \/ PunchedReceiver(e) \/ PreConnectSuccess(e)
    \/ BeginConnect(e) \/ Halt(e)
    \/ ConnectStage0(e) \/ ConnectRefused(e) \/ ConnectAllowed(e) \/ ConnectGreeted(e)
    \/ ConnectFailure(e) \/ ConnectSuccess(e) \/ PeersSynced(e) \/ SuccessAck(e)
    \/ DisconnectStage0(e) \/ DisconnectFinal(e)
    \/ DeregisterStage0(e) \/ DeregisterSuccess(e) \/ DeregisterFailure(e)
    \/ Eof(e) \/ SafeShutdown(e) \/ DropSession(e)

Next ==
    \/ \E n \in Client, l \in Link, m \in Mode, u \in UdpMode, c \in Credentials : Initiate(n, l, m, u, c)
    \/ \E n \in Client : InitiateFails(n)
    \/ \E l \in Link : Inbound(l)
    \/ \E e \in End : Processes(e) \/ LoginExpires(e) \/ Breaks(e) \/ Disconnect(e) \/ Deregister(e)

Fairness ==
    /\ \A l \in Link : WF_vars(Inbound(l))
    /\ \A e \in End : WF_vars(Processes(e)) /\ WF_vars(LoginExpires(e))

Spec == Init /\ [][Next]_vars
FairSpec == Spec /\ Fairness
-----------------------------------------------------------------------------
Times(e, result) == Cardinality({i \in DOMAIN told[e] : told[e][i] = result})

TypeOK ==
    /\ sess \in [End -> SessionType]
    /\ sessions \in [Node -> [Cid -> Link \cup {None}]]
    /\ prov \in [Node -> SUBSET Link]
    /\ acct \in [Node -> [Cid -> Key \cup {None}]]
    /\ toolset \in [Node -> [Key -> Link \cup {None}]]

\* A kernel hears one answer to a request to connect or to register, and hears it
\* first; of a disconnection it hears at most once, and afterwards nothing more:
\* the processors, execute, SafeShutdown and Drop all report, in whatever order a
\* session ends.
OneOutcome ==
    \A e \in End :
        LET t == told[e]
            answers == {"ConnectSuccess", "ConnectFail", "RegisterOkay", "RegisterFailure"}
        IN  /\ \A i \in DOMAIN t : t[i] \in answers => i = 1
            /\ \A i \in DOMAIN t : t[i] = "Disconnect" => i = Len(t)

\* The server's kernel gets the channel of a client only after the client's own
\* kernel has got its end (channel_signal is kept back until SUCCESS_ACK).
ServerToldAfterClient ==
    \A l \in Link : Times(<<l, "server">>, "ConnectSuccess") <= Times(<<l, "client">>, "ConnectSuccess")

\* The two ends of a connected link use the ratchet that this link made, though
\* each takes it from the account's toolset, which every other login replaces.
KeysAgree ==
    \A l \in Link :
        (\A e \in {<<l, "client">>, <<l, "server">>} : sess[e].run = "running" /\ sess[e].state = "Connected")
            => \A e \in {<<l, "client">>, <<l, "server">>} : sess[e].channel = l

\* The session a client's manager has for an account is a session of this account
\* that has not been shut down, though upgrade_connection takes the session from
\* an entry that attempts to the same server share.
ClientEntryIsLive ==
    \A n \in Client, c \in Cid :
        sessions[n][c] # None =>
            LET s == sess[<<sessions[n][c], "client">>]
            IN  s.run \in {"running", "stopped"} /\ s.cid = c

\* A loader of a UDP connection is alerted by the login, at a client and over QUIC:
\* it does not wait on an alert made after init_new_c2s_virtual_connection.
UdpIsAlertedInOrder ==
    \A e \in End : e[2] = "client" \/ (e[1] \in Used /\ link[e[1]].udp = "quic") =>
        ~ (sess[e].loader = "waiting" /\ sess[e].channel # None)

Attempted(l) == l \in Used
Answered(l) == told[<<l, "client">>] # <<>>

\* Every attempt to register or to connect is answered, whatever the server does
\* and wherever the transport breaks.
EveryAttemptAnswered == \A l \in Link : Attempted(l) ~> Answered(l)
-----------------------------------------------------------------------------
(* What the code does not keep; no run checks these, the README tells how they fail. *)

\* The same, of a server that punches a hole.
UdpIsAlerted ==
    \A e \in End : ~ (sess[e].loader = "waiting" /\ sess[e].channel # None)

\* A registration that the server confirmed is the one the server stores, unless
\* the account was deleted: username_exists and save_cnac see no other between.
RegistrationIsKept ==
    \A l \in Link : Times(<<l, "client">>, "RegisterOkay") = 1
        => acct[Server][CidOf(l)] \in {l, None}

\* A session that has ended is in no map of its manager, as the documentation of
\* execute_session_with_safe_shutdown promises.
EndedIsRemoved ==
    \A e \in End : sess[e].run \in {"closed", "dropped"} =>
        /\ e[1] \notin prov[NodeOf(e)]
        /\ \A c \in Cid : sessions[NodeOf(e)][c] # e[1]

\* A login that is forced, by a client that holds the account's key, is not
\* refused, as ConnectMode documents: any session there is gives way.
ForceIsNotRefused ==
    \A l \in Used : link[l].mode = "force" /\ sess[<<l, "client">>].cnac = acct[Server][CidOf(l)]
        => craft_halt \notin Range(wire[<<l, "client">>])
=============================================================================
