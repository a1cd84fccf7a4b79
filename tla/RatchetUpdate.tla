--------------------------- MODULE RatchetUpdate ---------------------------
(***************************************************************************)
(* The two ends of one session (client and server, or two peers): they     *)
(* send messages, and with every message or on request they try to agree   *)
(* on the next ratchet.                                                    *)
(*                                                                         *)
(*   Alice                                Bob                              *)
(*     GROUP_HEADER(message, transfer) ->   commits, locks                 *)
(*     STAGE0(transfer)                ->                                  *)
(*       commits  <- GROUP_HEADER_ACK(status) or STAGE1(status)            *)
(*     TRUNCATE(old version?)          ->   may use the ratchet, unlocks   *)
(*       unlocks  <- TRUNCATE_ACK           (only if a version was dropped) *)
(*                                                                         *)
(* Either end may be Alice, in two exchanges at once.  One handler is one  *)
(* step: it runs to its end under the session's state lock.                *)
(***************************************************************************)
EXTENDS PeerSessionCrypto, OrderedChannel

CONSTANTS
    Peers,          \* the two ends
    Initiator,      \* the end that built its container with local_is_initiator
    Perfect,        \* SecrecyMode::Perfect, otherwise BestEffort
    BasePerfect,    \* the same of the session with the server, of which this
                    \* one may be a virtual connection
    Direct,         \* a hole-punched peer-to-peer stream exists next to the
                    \* primary stream through the server
    MultiThreaded,  \* the multi-threaded build
    MaxMessages,    \* [Peers -> Nat]: messages each application submits
    MaxRekeys,      \* [Peers -> Nat]: rekey requests at each end
    Droppers        \* the ends whose application may drop its receive half

ASSUME RatchetUpdateAssumption ==
    /\ \E p, q \in Peers : p # q /\ Peers = {p, q}
    /\ Initiator \in Peers
    /\ {Perfect, BasePerfect, Direct, MultiThreaded} \subseteq BOOLEAN
    /\ MaxMessages \in [Peers -> Nat]
    /\ MaxRekeys \in [Peers -> Nat]
    /\ Droppers \subseteq Peers
    /\ None \notin Peers \X Nat     \* the absence of an exchange is not one

VARIABLES
    state,    \* the StateContainerInner of each end, as far as the session goes
    streams,  \* streams[p][path]: packets on their way to p
    replies   \* replies[p][path]: what p's handler returned to be sent

vars == <<state, streams, replies>>

Peer(p) == CHOOSE q \in Peers : q # p

Paths == {"primary", "direct"}

\* get_direct_p2p_primary_stream, or the primary stream
preferred == IF Direct THEN "direct" ELSE "primary"

(***************************************************************************)
(* An exchange is named by who started it and a serial number.             *)
(***************************************************************************)
Kex == Peers \X Nat

GenesisRatchet == [version |-> 0, kex |-> <<Initiator, 0>>]

(***************************************************************************)
(* Packets.  ratchet is the one the packet is encrypted with; the header   *)
(* shows its version.                                                      *)
(***************************************************************************)
GroupHeader(hr, group, message, transfer) ==
    [type |-> "GROUP_HEADER", ratchet |-> hr, group |-> group,
     message |-> message, transfer |-> transfer]

GroupHeaderAck(hr, group, status) ==
    [type |-> "GROUP_HEADER_ACK", ratchet |-> hr, group |-> group, status |-> status]

Stage0(hr, transfer) == [type |-> "STAGE0", ratchet |-> hr, transfer |-> transfer]

Stage1(hr, status) == [type |-> "STAGE1", ratchet |-> hr, status |-> status]

Truncate(hr, version) ==
    [type |-> "TRUNCATE", ratchet |-> hr, truncate_version |-> version]

TruncateAck(hr, version) ==
    [type |-> "TRUNCATE_ACK", ratchet |-> hr, truncated_version |-> version]

Packet ==
    LET hr == Ratchet(Kex)
    IN  [type : {"GROUP_HEADER"}, ratchet : hr, group : Id,
         message : Nat, transfer : Kex \cup {None}]
        \cup [type : {"GROUP_HEADER_ACK"}, ratchet : hr, group : Id,
              status : KemTransferStatus(Kex)]
        \cup [type : {"STAGE0"}, ratchet : hr, transfer : Kex]
        \cup [type : {"STAGE1"}, ratchet : hr, status : KemTransferStatus(Kex)]
        \cup [type : {"TRUNCATE"}, ratchet : hr, truncate_version : Version \cup {None}]
        \cup [type : {"TRUNCATE_ACK"}, ratchet : hr, truncated_version : Version]

(***************************************************************************)
(* transmitters: the outbound_transmitters map, the groups whose           *)
(* acknowledgement is outstanding with their constructors.  rekey: the     *)
(* constructor of the STAGE0 in flight (alice_hyper_ratchet, p2p_updates). *)
(* ticket: a rekey request waits for its result.  inbox: the ordered       *)
(* channel to the application.  sender: the task of                        *)
(* spawn_message_sender_function runs.  kexes, submitted, rekeys and       *)
(* answered count, and sealed remembers the ratchet of the last message    *)
(* sent: no step depends on them but for the bounds.                       *)
(***************************************************************************)
NewState(p) ==
    [crypt |-> new_container(GenesisRatchet, p = Initiator),
     transmitters |-> {},
     rekey |-> None,
     ticket |-> FALSE,
     enqueued |-> <<>>,
     inbox |-> new_channel,
     session |-> "Connected",
     sender |-> TRUE,
     sealed |-> None,
     kexes |-> 0,
     submitted |-> 0,
     rekeys |-> 0,
     answered |-> 0]

NoPackets == [path \in Paths |-> <<>>]

Init ==
    /\ state = [p \in Peers |-> NewState(p)]
    /\ streams = [p \in Peers |-> NoPackets]
    /\ replies = [p \in Peers |-> [path \in Paths |-> None]]
-----------------------------------------------------------------------------
(***************************************************************************)
(* A handler maps a state to an outcome: the new state, the packets it     *)
(* hands to each stream, and the packet it returns as ReplyToSender.       *)
(***************************************************************************)
Outcome(s, out, reply) == [state |-> s, out |-> out, reply |-> reply]

Void(s) == Outcome(s, NoPackets, None)

Put(out, path, packet) == [out EXCEPT ![path] = Append(@, packet)]

enqueue_packet(s, message) == [s EXCEPT !.enqueued = Append(@, message)]

(***************************************************************************)
(* Sending one message with the latest usable ratchet.  When there is none *)
(* unwrap() panics and takes the task down: the stream's reader, when      *)
(* polled, or else the task that sends the application's messages.  The    *)
(* constructor, if the lock allows one, travels with the message and waits *)
(* in the transmitter for the acknowledgement.                             *)
(***************************************************************************)
transmit_message(p, s, out, message, called_from_poll) ==
    LET hr    == latest_usable(s.crypt)
        next  == get_next_constructor(s.crypt, called_from_poll, <<p, s.kexes + 1>>)
        group == s.crypt.rolling_group_id
    IN  IF hr = None
        THEN Outcome(IF called_from_poll THEN [s EXCEPT !.session = "Panicked"]
                     ELSE [s EXCEPT !.sender = FALSE], out, None)
        ELSE IF Perfect /\ next.constructor = None
        THEN Outcome(enqueue_packet([s EXCEPT !.crypt = next.crypt], message), out, None)
        ELSE Outcome(
               [s EXCEPT
                  !.crypt = [next.crypt EXCEPT
                               !.rolling_group_id = id_plus(group, 1)],
                  !.sealed = hr,
                  !.kexes = IF next.constructor = None THEN @ ELSE @ + 1,
                  !.transmitters =
                      {t \in @ : t.group # group}
                      \cup {[group |-> group, constructor |-> next.constructor]}],
               Put(out, preferred, GroupHeader(hr, group, message, next.constructor)),
               None)

(***************************************************************************)
(* The application's send.  Perfect secrecy queues behind what is queued   *)
(* and behind an update in progress.                                       *)
(***************************************************************************)
process_outbound_message(p, s, message) ==
    IF Perfect /\ (s.enqueued # <<>> \/ s.crypt.update_in_progress)
    THEN Void(enqueue_packet(s, message))
    ELSE transmit_message(p, s, NoPackets, message, FALSE)

\* A mutant: the queue is popped from the wrong end.
poll_back(p, s, out) ==
    LET locked == [s EXCEPT !.crypt.update_in_progress = TRUE]
    IN  IF ~Perfect \/ s.crypt.update_in_progress
        THEN Outcome(s, out, None)
        ELSE IF s.enqueued = <<>>
        THEN Outcome(locked, out, None)
        ELSE transmit_message(p, [locked EXCEPT !.enqueued = SubSeq(@, 1, Len(@) - 1)],
                              out, s.enqueued[Len(s.enqueued)], TRUE)

(***************************************************************************)
(* fetch_nand(false) sets the flag, whether or not a packet follows.       *)
(***************************************************************************)
poll_next_enqueued(p, s, out) ==
    LET locked == [s EXCEPT !.crypt.update_in_progress = TRUE]
    IN  IF ~Perfect \/ s.crypt.update_in_progress
        THEN Outcome(s, out, None)
        ELSE IF s.enqueued = <<>>
        THEN Outcome(locked, out, None)
        ELSE transmit_message(p, [locked EXCEPT !.enqueued = Tail(@)], out,
                              Head(s.enqueued), TRUE)

\* A mutant: the ticket is kept.
complete_without_alert(s) == s

\* RatchetUpdateState::on_complete
on_complete(s) ==
    [s EXCEPT !.ticket = FALSE, !.answered = IF s.ticket THEN @ + 1 ELSE @]

(***************************************************************************)
(* A rekey request.  Refused at once when an update is in progress.        *)
(***************************************************************************)
initiate_drill_update(p, s) ==
    LET hr   == latest_usable(s.crypt)
        next == get_next_constructor(s.crypt, FALSE, <<p, s.kexes + 1>>)
    IN  IF next.constructor = None
        THEN Void([s EXCEPT !.crypt = next.crypt, !.answered = @ + 1])
        ELSE Outcome([s EXCEPT !.crypt = next.crypt, !.kexes = @ + 1,
                               !.rekey = next.constructor, !.ticket = TRUE],
                     Put(NoPackets, preferred, Stage0(hr, next.constructor)),
                     None)
-----------------------------------------------------------------------------
(***************************************************************************)
(* GROUP_HEADER of a message: the exchange first, then the delivery.  When *)
(* the delivery fails the exchange stays committed and nothing is answered.*)
(***************************************************************************)
on_group_header(p, s, packet) ==
    LET kem  == attempt_kem_as_bob(s.crypt, packet.transfer)
        recv == on_packet_received(s.inbox, packet.group, packet.message)
        new  == [s EXCEPT !.crypt = kem.crypt, !.inbox = recv.channel]
    IN  Outcome(new, NoPackets,
                IF recv.ok THEN GroupHeaderAck(packet.ratchet, packet.group, kem.status)
                ELSE None)

(***************************************************************************)
(* The acknowledgement of a group that has a transmitter: its constructor  *)
(* is taken, and the transmitter removed unless the exchange failed.       *)
(***************************************************************************)
on_group_header_ack_received(s, group, status) ==
    LET entry == CHOOSE t \in s.transmitters : t.group = group
        kem   == attempt_kem_as_alice_finish(s.crypt, status, entry.constructor)
    IN  [s EXCEPT
           !.crypt = kem.crypt,
           !.transmitters =
               (@ \ {entry})
               \cup (IF kem.ok THEN {} ELSE {[entry EXCEPT !.constructor = None]})]

(***************************************************************************)
(* GROUP_HEADER_ACK: an acknowledgement of an unknown group ends the       *)
(* session.  The TRUNCATE is sent even when the exchange failed.  Whether  *)
(* to poll the queue is asked of the session with the server.              *)
(***************************************************************************)
on_group_header_ack(p, s, packet) ==
    LET new == on_group_header_ack_received(s, packet.group, packet.status)
        out == IF packet.status.kind = "Some"
               THEN Put(NoPackets, "primary",
                        Truncate(packet.ratchet, packet.status.old_version))
               ELSE NoPackets
    IN  IF \A t \in s.transmitters : t.group # packet.group
        THEN Void([s EXCEPT !.session = "Ended"])
        ELSE IF BasePerfect THEN poll_next_enqueued(p, new, out)
        ELSE Outcome(new, out, None)

\* STAGE0
on_stage0(p, s, packet) ==
    LET kem == attempt_kem_as_bob(s.crypt, packet.transfer)
    IN  Outcome([s EXCEPT !.crypt = kem.crypt], NoPackets,
                Stage1(packet.ratchet, kem.status))

(***************************************************************************)
(* STAGE1: Alice answers TRUNCATE whatever Bob's status was.               *)
(***************************************************************************)
on_stage1(p, s, packet) ==
    LET kem   == attempt_kem_as_alice_finish(s.crypt, packet.status, s.rekey)
        hr    == IF kem.ratchet = None THEN packet.ratchet ELSE kem.ratchet
        taken == [s EXCEPT !.rekey = None, !.crypt = kem.crypt]
    IN  IF s.rekey = None THEN Void(s)
        ELSE IF ~kem.ok THEN Void(taken)
        ELSE Outcome(IF packet.status.old_version = None
                     THEN on_complete(taken) ELSE taken,
                     NoPackets,
                     Truncate(hr, packet.status.old_version))

(***************************************************************************)
(* TRUNCATE: Bob drops the version, may use the new ratchet from now on,   *)
(* and unlocks.  A refused deregistration is only logged.                  *)
(***************************************************************************)
on_truncate(p, s, packet) ==
    LET version == packet.truncate_version
        dropped == IF version = None THEN s.crypt
                   ELSE deregister(s.crypt, version).crypt
        crypt   == maybe_unlock(post_alice_stage1_or_post_stage1_bob(dropped), FALSE)
        new     == [s EXCEPT !.crypt = crypt]
        out     == IF version = None THEN NoPackets
                   ELSE Put(NoPackets, "primary", TruncateAck(packet.ratchet, version))
    IN  IF latest_usable(crypt) = None THEN Void(new)
        ELSE IF s.crypt.lock_set_by_alice = "bob" THEN poll_next_enqueued(p, new, out)
        ELSE Outcome(new, out, None)

\* A mutant: the lock is not released.
truncate_ack_without_unlock(p, s, packet) ==
    [poll_next_enqueued(p, s, NoPackets) EXCEPT !.state = on_complete(@)]

\* A mutant: the lock is released, and nothing taken off the queue.
truncate_ack_without_poll(p, s, packet) ==
    LET crypt == maybe_unlock(s.crypt, TRUE)
    IN  IF latest_usable(crypt) = None THEN Void([s EXCEPT !.crypt = crypt])
        ELSE Outcome(on_complete([s EXCEPT !.crypt = crypt]), NoPackets, None)

\* TRUNCATE_ACK
on_truncate_ack(p, s, packet) ==
    LET crypt == maybe_unlock(s.crypt, TRUE)
        done  == poll_next_enqueued(p, [s EXCEPT !.crypt = crypt], NoPackets)
    IN  IF latest_usable(crypt) = None THEN Void([s EXCEPT !.crypt = crypt])
        ELSE [done EXCEPT !.state = on_complete(@)]
-----------------------------------------------------------------------------
(***************************************************************************)
(* Steps.                                                                  *)
(***************************************************************************)
Connected(p) == state[p].session = "Connected"

Extended(inbound, out) == [path \in Paths |-> inbound[path] \o out[path]]

(***************************************************************************)
(* What a task other than a stream reader does at p: its packets are on    *)
(* the streams when it releases the lock.                                  *)
(***************************************************************************)
Perform(p, outcome) ==
    /\ state' = [state EXCEPT ![p] = outcome.state]
    /\ streams' = [streams EXCEPT ![Peer(p)] = Extended(@, outcome.out)]
    /\ UNCHANGED replies

SubmitMessage(p) ==
    LET s == [state[p] EXCEPT !.submitted = @ + 1]
    IN  /\ Connected(p) /\ state[p].sender
        /\ state[p].submitted < MaxMessages[p]
        /\ Perform(p, process_outbound_message(p, s, s.submitted))

RequestRekey(p) ==
    /\ Connected(p)
    /\ state[p].rekeys < MaxRekeys[p]
    /\ Perform(p, initiate_drill_update(p, [state[p] EXCEPT !.rekeys = @ + 1]))

(***************************************************************************)
(* The application drops its PeerChannelRecvHalf: the sink of the ordered  *)
(* channel is closed.  A peer-to-peer channel also asks for a disconnect,  *)
(* which belongs to the life of the connection and is not modelled here.   *)
(***************************************************************************)
DropReceiver(p) ==
    /\ p \in Droppers
    /\ state[p].inbox.open
    /\ state' = [state EXCEPT ![p].inbox.open = FALSE]
    /\ UNCHANGED <<streams, replies>>

(***************************************************************************)
(* A packet opens when the receiver holds, under the version in its        *)
(* header, the very ratchet it was encrypted with; otherwise it is dropped.*)
(***************************************************************************)
Opens(p, packet) ==
    get_hyper_ratchet(state[p].crypt.toolset, packet.ratchet.version) = packet.ratchet

(***************************************************************************)
(* The reader's use of an outcome.  The reply is sent after the state lock *)
(* is released: in the multi-threaded build other tasks of p may send in   *)
(* between.                                                                *)
(***************************************************************************)
Applied(p, path, outcome) ==
    LET out == IF outcome.reply = None \/ MultiThreaded THEN outcome.out
               ELSE Put(outcome.out, path, outcome.reply)
    IN  /\ state' = [state EXCEPT ![p] = outcome.state]
        /\ streams' = [streams EXCEPT ![p][path] = Tail(@),
                                      ![Peer(p)] = Extended(@, out)]
        /\ replies' = IF MultiThreaded
                      THEN [replies EXCEPT ![p][path] = outcome.reply]
                      ELSE replies

First(p, path) == Head(streams[p][path])

(***************************************************************************)
(* The reader of one stream at p takes the next packet once the previous   *)
(* reply is out.  handled is the outcome of the packet's handler.          *)
(***************************************************************************)
Read(p, path, type, handled) ==
    /\ Connected(p)
    /\ replies[p][path] = None
    /\ streams[p][path] # <<>>
    /\ First(p, path).type = type
    /\ \E outcome \in {IF Opens(p, First(p, path)) THEN handled ELSE Void(state[p])} :
        Applied(p, path, outcome)

ReceiveGroupHeader(p, path) ==
    Read(p, path, "GROUP_HEADER", on_group_header(p, state[p], First(p, path)))

ReceiveGroupHeaderAck(p, path) ==
    Read(p, path, "GROUP_HEADER_ACK", on_group_header_ack(p, state[p], First(p, path)))

ReceiveStage0(p, path) ==
    Read(p, path, "STAGE0", on_stage0(p, state[p], First(p, path)))

ReceiveStage1(p, path) ==
    Read(p, path, "STAGE1", on_stage1(p, state[p], First(p, path)))

ReceiveTruncate(p, path) ==
    Read(p, path, "TRUNCATE", on_truncate(p, state[p], First(p, path)))

ReceiveTruncateAck(p, path) ==
    Read(p, path, "TRUNCATE_ACK", on_truncate_ack(p, state[p], First(p, path)))

ReplyToSender(p, path) ==
    /\ replies[p][path] # None
    /\ replies' = [replies EXCEPT ![p][path] = None]
    /\ streams' = [streams EXCEPT ![Peer(p)][path] = Append(@, replies[p][path])]
    /\ UNCHANGED state

Delivery(p, path) ==
    \/ ReceiveGroupHeader(p, path)
    \/ ReceiveGroupHeaderAck(p, path)
    \/ ReceiveStage0(p, path)
    \/ ReceiveStage1(p, path)
    \/ ReceiveTruncate(p, path)
    \/ ReceiveTruncateAck(p, path)
    \/ ReplyToSender(p, path)

Next ==
    \E p \in Peers :
        \/ SubmitMessage(p)
        \/ RequestRekey(p)
        \/ DropReceiver(p)
        \/ \E path \in Paths : Delivery(p, path)

Spec == Init /\ [][Next]_vars
-----------------------------------------------------------------------------
StateType ==
    [crypt : Container(Kex, Id),
     transmitters : SUBSET [group : Id, constructor : Kex \cup {None}],
     rekey : Kex \cup {None},
     ticket : BOOLEAN,
     enqueued : Seq(Nat),
     inbox : ChannelType(Nat),
     session : {"Connected", "Ended", "Panicked"},
     sender : BOOLEAN,
     sealed : Ratchet(Kex) \cup {None},
     kexes : Nat, submitted : Nat, rekeys : Nat, answered : Nat]

\* The types of the session state and of every packet.
TypeOK ==
    /\ state \in [Peers -> StateType]
    /\ streams \in [Peers -> [Paths -> Seq(Packet)]]
    /\ replies \in [Peers -> [Paths -> Packet \cup {None}]]

ToolsetOf(p) == state[p].crypt.toolset

InFlight(p) ==
    UNION {{streams[p][path][i] : i \in DOMAIN streams[p][path]} : path \in Paths}
    \cup ({replies[Peer(p)][path] : path \in Paths} \ {None})

(***************************************************************************)
(* The deque of each toolset is the gapless run of versions its index      *)
(* arithmetic takes it for (get_adjusted_index), whatever the order of     *)
(* commits and deregistrations and across the wrap of the version number.  *)
(***************************************************************************)
WindowInv == \A p \in Peers : Window(ToolsetOf(p))

(***************************************************************************)
(* A toolset never holds more than one ratchet above the maximum: a commit *)
(* beyond it is always followed by the deregistration of the oldest before *)
(* the next commit.                                                        *)
(***************************************************************************)
WindowBounded ==
    \A p \in Peers : Len(ToolsetOf(p).map) <= MAX_HYPER_RATCHETS_IN_MEMORY + 1

(***************************************************************************)
(* Two ratchets of one version come out of one exchange: the ends never    *)
(* commit two different exchanges under the same version number            *)
(* (update_sync_safe's preference of the initiator).                       *)
(***************************************************************************)
KeyAgreement ==
    \A p, q \in Peers : \A i \in DOMAIN ToolsetOf(p).map, j \in DOMAIN ToolsetOf(q).map :
        ToolsetOf(p).map[i].version = ToolsetOf(q).map[j].version
            => ToolsetOf(p).map[i] = ToolsetOf(q).map[j]

(***************************************************************************)
(* No packet is lost to a missing or a different ratchet: from the moment  *)
(* it is sent, whatever is on its way can be opened by the end it goes to. *)
(***************************************************************************)
InFlightOpens == \A p \in Peers : \A packet \in InFlight(p) : Opens(p, packet)

(***************************************************************************)
(* The ratchet an end encrypts with is one both ends hold: Bob does not    *)
(* use a version before Alice committed it, and nobody drops a version the *)
(* other end still encrypts with (deregister_oldest_hyper_ratchet).        *)
(***************************************************************************)
UsableAtBothEnds ==
    \A p \in Peers : LET hr == latest_usable(state[p].crypt)
                     IN  hr # None /\ Holds(ToolsetOf(Peer(p)), hr)

(***************************************************************************)
(* The flag update_in_progress is set exactly when some end's lock is      *)
(* recorded, so whoever is to release it can tell.                         *)
(***************************************************************************)
LockHasOwner ==
    \A p \in Peers : LET c == state[p].crypt
                     IN  c.update_in_progress <=> c.lock_set_by_alice # "unset"

(***************************************************************************)
(* A TRUNCATE finds the lock it is to release: maybe_unlock logs an error  *)
(* otherwise, and leaves the lock set.                                     *)
(***************************************************************************)
UnlockFindsLock ==
    \A p \in Peers, path \in Paths :
        LET packets == streams[p][path]
        IN  (packets # <<>> /\ Head(packets).type = "TRUNCATE")
                => state[p].crypt.update_in_progress

(***************************************************************************)
(* Once nothing is on its way the two ends are in step: the same toolset,  *)
(* its newest ratchet in use, no lock held, no constructor left over.      *)
(***************************************************************************)
QuiescentAgreement ==
    (\A p \in Peers : InFlight(p) = {}) =>
        \A p \in Peers : LET s == state[p] IN
            /\ ToolsetOf(p) = ToolsetOf(Peer(p))
            /\ s.crypt.latest_usable_version = s.crypt.toolset.most_recent
            /\ ~s.crypt.update_in_progress
            /\ s.transmitters = {} /\ s.rekey = None

(***************************************************************************)
(* The application receives the peer's messages in the order they were     *)
(* submitted, none twice and none left out in between.                     *)
(***************************************************************************)
InOrder ==
    \A p \in Peers : LET sink == state[p].inbox.sink IN
        /\ Len(sink) <= state[Peer(p)].submitted
        /\ \A i \in DOMAIN sink : sink[i] = i

(***************************************************************************)
(* A rekey request is answered once: its ticket is neither overwritten by  *)
(* a later request nor reported twice.                                     *)
(***************************************************************************)
RequestsAccounted ==
    \A p \in Peers :
        state[p].rekeys = state[p].answered + (IF state[p].ticket THEN 1 ELSE 0)

(***************************************************************************)
(* Messages wait in the queue only for an update in progress: whoever ends *)
(* the update takes the next message off the queue and locks again         *)
(* (poll_next_enqueued).  A message left behind an open lock stays there,  *)
(* and every later one behind it.                                          *)
(***************************************************************************)
QueuedOnlyWhileLocked ==
    \A p \in Peers :
        state[p].enqueued # <<>> => state[p].crypt.update_in_progress

(***************************************************************************)
(* The lock of an update and the ticket of a rekey are neither lost nor    *)
(* released twice (get_next_constructor, maybe_unlock, on_truncate).       *)
(***************************************************************************)
LocksSound == LockHasOwner /\ UnlockFindsLock /\ RequestsAccounted

(***************************************************************************)
(* The session implements RatchetAgreement: its exchanges happen one after *)
(* the other, each in the three steps, however the packets interleave.     *)
(***************************************************************************)
Agreement ==
    INSTANCE RatchetAgreement WITH
        Ends <- Peers,
        Exchanges <- UNION {{p} \X (0 .. MaxMessages[p] + MaxRekeys[p]) : p \in Peers},
        Genesis <- GenesisRatchet.kex,
        held <- [p \in Peers |->
                    [i \in DOMAIN ToolsetOf(p).map |-> ToolsetOf(p).map[i].kex]],
        usable <- [p \in Peers |-> latest_usable(state[p].crypt).kex]
=============================================================================
