------------------------ MODULE RatchetUpdateProofs ------------------------
(***************************************************************************)
(* Type correctness of the session, soundness of both toolsets, and the    *)
(* order of messages, for every build, secrecy mode, window size, and      *)
(* number of messages and rekey requests.  Types and toolsets are proved   *)
(* together: the types of what a lookup returns depend on the window being *)
(* gapless.  The order of messages rests on both.                          *)
(***************************************************************************)
EXTENDS RatchetUpdate, SessionPartsProofs

\* Zenon has 30 seconds for each leaf that does not name another prover.
USE ZenonT(30)

SoundState(s) == s \in StateType /\ Window(s.crypt.toolset)

SoundOutcome(o) ==
    /\ SoundState(o.state)
    /\ o.out \in [Paths -> Seq(Packet)]
    /\ o.reply \in Packet \cup {None}

\* There is another end.
LEMMA PeerType ==
    /\ Initiator \in Peers
    /\ \A p \in Peers : Peer(p) \in Peers /\ Peer(p) # p
  BY RatchetUpdateAssumption DEF Peer

\* Every packet the code builds is one.
LEMMA PacketType ==
    ASSUME NEW hr \in Ratchet(Kex)
    PROVE  /\ \A group \in Id, message \in Nat, transfer \in Kex \cup {None} :
                GroupHeader(hr, group, message, transfer) \in Packet
           /\ \A group \in Id, status \in KemTransferStatus(Kex) :
                GroupHeaderAck(hr, group, status) \in Packet
           /\ \A transfer \in Kex : Stage0(hr, transfer) \in Packet
           /\ \A status \in KemTransferStatus(Kex) : Stage1(hr, status) \in Packet
           /\ \A version \in Version \cup {None} : Truncate(hr, version) \in Packet
           /\ \A version \in Version : TruncateAck(hr, version) \in Packet
  BY DEF Packet, GroupHeader, GroupHeaderAck, Stage0, Stage1, Truncate, TruncateAck

\* What a handler finds in a packet of its type.
LEMMA PacketFields ==
    ASSUME NEW packet \in Packet
    PROVE  /\ packet.ratchet \in Ratchet(Kex)
           /\ packet.type = "GROUP_HEADER" =>
                /\ packet.group \in Id /\ packet.message \in Nat
                /\ packet.transfer \in Kex \cup {None}
           /\ packet.type = "GROUP_HEADER_ACK" =>
                packet.group \in Id /\ packet.status \in KemTransferStatus(Kex)
           /\ packet.type = "STAGE0" => packet.transfer \in Kex
           /\ packet.type = "STAGE1" => packet.status \in KemTransferStatus(Kex)
           /\ packet.type = "TRUNCATE" =>
                packet.truncate_version \in Version \cup {None}
  BY DEF Packet

\* The fields of one end's state.
LEMMA StateFields ==
    ASSUME NEW s, SoundState(s)
    PROVE  /\ Sound(s.crypt, Kex, Id)
           /\ s.transmitters \in SUBSET [group : Id, constructor : Kex \cup {None}]
           /\ s.rekey \in Kex \cup {None}
           /\ s.ticket \in BOOLEAN
           /\ s.enqueued \in Seq(Nat)
           /\ s.inbox \in ChannelType(Nat)
           /\ s.sender \in BOOLEAN
           /\ s.kexes \in Nat /\ s.submitted \in Nat
           /\ s.rekeys \in Nat /\ s.answered \in Nat
  BY DEF SoundState, StateType, Sound

\* A handler that only changes the container.
LEMMA WithContainer ==
    ASSUME NEW s, SoundState(s), NEW c, Sound(c, Kex, Id)
    PROVE  SoundState([s EXCEPT !.crypt = c])
  BY DEF SoundState, StateType, Sound

\* Exchange names, and what the streams carry.
LEMMA Streams ==
    /\ \A p \in Peers, n \in Nat : <<p, n>> \in Kex
    /\ NoPackets \in [Paths -> Seq(Packet)]
    /\ preferred \in Paths /\ "primary" \in Paths
    /\ \A out \in [Paths -> Seq(Packet)] : \A path \in Paths, packet \in Packet :
            Put(out, path, packet) \in [Paths -> Seq(Packet)]
    /\ \A in, out \in [Paths -> Seq(Packet)] :
            Extended(in, out) \in [Paths -> Seq(Packet)]
  <1>1. \A p \in Peers, n \in Nat : <<p, n>> \in Kex
    BY DEF Kex
  <1>2. NoPackets \in [Paths -> Seq(Packet)] /\ preferred \in Paths /\ "primary" \in Paths
    BY SMTT(30) DEF NoPackets, preferred, Paths
  <1>3. \A out \in [Paths -> Seq(Packet)] : \A path \in Paths, packet \in Packet :
            Put(out, path, packet) \in [Paths -> Seq(Packet)]
    <2> SUFFICES ASSUME NEW out \in [Paths -> Seq(Packet)],
                        NEW path \in Paths, NEW packet \in Packet
                 PROVE  Put(out, path, packet) \in [Paths -> Seq(Packet)]
      OBVIOUS
    <2>1. Append(out[path], packet) \in Seq(Packet)
      BY SMTT(30)
    <2> QED
      BY <2>1 DEF Put
  <1>4. \A in, out \in [Paths -> Seq(Packet)] :
            Extended(in, out) \in [Paths -> Seq(Packet)]
    <2> SUFFICES ASSUME NEW in \in [Paths -> Seq(Packet)],
                        NEW out \in [Paths -> Seq(Packet)]
                 PROVE  Extended(in, out) \in [Paths -> Seq(Packet)]
      OBVIOUS
    <2>1. \A path \in Paths : in[path] \o out[path] \in Seq(Packet)
      BY SMTT(30)
    <2> QED
      BY <2>1 DEF Extended
  <1> QED
    BY <1>1, <1>2, <1>3, <1>4

\* Outcomes of the simplest form.
LEMMA OutcomeType ==
    ASSUME NEW s, SoundState(s)
    PROVE  /\ SoundOutcome(Void(s))
           /\ \A out \in [Paths -> Seq(Packet)] : \A reply \in Packet \cup {None} :
                SoundOutcome(Outcome(s, out, reply))
  BY Streams DEF SoundOutcome, Void, Outcome

\* transmit_message sends, queues or takes its task down.
LEMMA TransmitMessage ==
    ASSUME NEW p \in Peers, NEW s, SoundState(s), NEW out \in [Paths -> Seq(Packet)],
           NEW message \in Nat, NEW called_from_poll \in BOOLEAN
    PROVE  SoundOutcome(transmit_message(p, s, out, message, called_from_poll))
  <1> DEFINE hr    == latest_usable(s.crypt)
             fresh == <<p, s.kexes + 1>>
             next  == get_next_constructor(s.crypt, called_from_poll, fresh)
             group == s.crypt.rolling_group_id
             kept  == {t \in s.transmitters : t.group # group}
             mine  == [group |-> group, constructor |-> next.constructor]
             c     == [next.crypt EXCEPT !.rolling_group_id = id_plus(group, 1)]
             kexes == IF next.constructor = None THEN s.kexes ELSE s.kexes + 1
             sent  == [s EXCEPT !.crypt = c, !.sealed = hr, !.kexes = kexes,
                                !.transmitters = kept \cup {mine}]
             packet == GroupHeader(hr, group, message, next.constructor)
  <1>1. Sound(s.crypt, Kex, Id) /\ s.kexes \in Nat /\ s.enqueued \in Seq(Nat)
    BY StateFields
  <1>2. fresh \in Kex
    BY SMTT(30), <1>1, Streams
  <1>3. /\ Sound(next.crypt, Kex, Id) /\ next.constructor \in Kex \cup {None}
        /\ next.crypt.rolling_group_id = group
    BY SMTT(30), <1>1, <1>2, GetNextConstructor
  <1>4. hr = None \/ hr \in Ratchet(Kex)
    BY <1>1, LatestUsable
  <1>5. group \in Id /\ id_plus(group, 1) \in Id
    <2>1. group \in Id
      BY <1>1, ContainerFields DEF Sound
    <2>2. 1 \in 0 .. MaxId + 1
      BY SMTT(30), OrderedChannelAssumption
    <2> QED
      BY <2>1, <2>2, IdType
  <1>6. CASE hr = None
    <2>1. /\ SoundState([s EXCEPT !.session = "Panicked"])
          /\ SoundState([s EXCEPT !.sender = FALSE])
      BY DEF SoundState, StateType
    <2> QED
      BY <1>6, <2>1, OutcomeType DEF transmit_message
  <1>7. CASE hr # None /\ Perfect /\ next.constructor = None
    <2>1. SoundState([s EXCEPT !.crypt = next.crypt])
      BY <1>3, WithContainer
    <2>2. SoundState(enqueue_packet([s EXCEPT !.crypt = next.crypt], message))
      <3> DEFINE t == [s EXCEPT !.crypt = next.crypt]
      <3> HIDE DEF next
      <3>1. t.enqueued \in Seq(Nat) /\ SoundState(t)
        BY <2>1, StateFields
      <3> HIDE DEF t
      <3>2. Append(t.enqueued, message) \in Seq(Nat)
        BY SMTT(30), <3>1
      <3>3. SoundState([t EXCEPT !.enqueued = Append(t.enqueued, message)])
        BY <3>1, <3>2 DEF SoundState, StateType
      <3> QED
        BY <3>3 DEF enqueue_packet, t
    <2> QED
      BY <1>7, <2>2, OutcomeType DEF transmit_message
  <1>8. CASE hr # None /\ ~(Perfect /\ next.constructor = None)
    <2>1. packet \in Packet
      BY <1>3, <1>4, <1>5, <1>8, PacketType
    <2>2. Put(out, preferred, packet) \in [Paths -> Seq(Packet)]
      BY <2>1, Streams
    <2>3. transmit_message(p, s, out, message, called_from_poll)
            = Outcome(sent, Put(out, preferred, packet), None)
      BY <1>8 DEF transmit_message
    <2> HIDE DEF next, hr, group
    <2>4. Sound(c, Kex, Id)
      BY <1>3, <1>5 DEF Sound, Container
    <2>5. kept \cup {mine} \in SUBSET [group : Id, constructor : Kex \cup {None}]
      <3>1. mine \in [group : Id, constructor : Kex \cup {None}]
        BY <1>3, <1>5
      <3>2. kept \in SUBSET [group : Id, constructor : Kex \cup {None}]
        BY StateFields
      <3> QED
        BY <3>1, <3>2
    <2>6. kexes \in Nat
      BY SMTT(30), <1>1
    <2>7. SoundState(sent)
      <3> HIDE DEF c, kept, mine, kexes
      <3> QED
        BY <1>4, <1>8, <2>4, <2>5, <2>6 DEF SoundState, StateType, Sound
    <2> HIDE DEF sent, packet
    <2> QED
      BY <2>2, <2>3, <2>7, OutcomeType
  <1> QED
    BY <1>6, <1>7, <1>8

\* poll_next_enqueued: nothing, the lock alone, or the next message.
LEMMA PollNextEnqueued ==
    ASSUME NEW p \in Peers, NEW s, SoundState(s), NEW out \in [Paths -> Seq(Packet)]
    PROVE  SoundOutcome(poll_next_enqueued(p, s, out))
  <1> DEFINE c == [s.crypt EXCEPT !.update_in_progress = TRUE]
             locked == [s EXCEPT !.crypt = c]
  <1>1. Sound(s.crypt, Kex, Id) /\ s.enqueued \in Seq(Nat)
    BY StateFields
  <1>2. Sound(c, Kex, Id)
    BY <1>1 DEF Sound, Container
  <1>3. [s EXCEPT !.crypt.update_in_progress = TRUE] = locked
    BY DEF SoundState, StateType
  <1> HIDE DEF c
  <1>4. SoundState(locked) /\ locked.enqueued = s.enqueued
    BY <1>2, WithContainer DEF SoundState, StateType
  <1> HIDE DEF locked
  <1>5. CASE ~Perfect \/ s.crypt.update_in_progress
    BY <1>5, OutcomeType DEF poll_next_enqueued
  <1>6. CASE ~(~Perfect \/ s.crypt.update_in_progress) /\ s.enqueued = <<>>
    BY <1>3, <1>4, <1>6, OutcomeType DEF poll_next_enqueued
  <1>7. CASE ~(~Perfect \/ s.crypt.update_in_progress) /\ s.enqueued # <<>>
    <2>1. Head(s.enqueued) \in Nat /\ Tail(s.enqueued) \in Seq(Nat)
      BY SMTT(30), <1>1, <1>7
    <2> DEFINE t == [locked EXCEPT !.enqueued = Tail(s.enqueued)]
    <2>2. SoundState(t)
      BY <1>4, <2>1 DEF SoundState, StateType
    <2>3. poll_next_enqueued(p, s, out)
            = transmit_message(p, t, out, Head(s.enqueued), TRUE)
      BY <1>3, <1>4, <1>7 DEF poll_next_enqueued
    <2> HIDE DEF t
    <2> QED
      BY <2>1, <2>2, <2>3, TransmitMessage
  <1> QED
    BY <1>5, <1>6, <1>7

\* The application's send.
LEMMA ProcessOutbound ==
    ASSUME NEW p \in Peers, NEW s, SoundState(s), NEW message \in Nat
    PROVE  SoundOutcome(process_outbound_message(p, s, message))
  <1>1. SoundState(enqueue_packet(s, message))
    <2>1. Append(s.enqueued, message) \in Seq(Nat)
      BY SMTT(30), StateFields
    <2> QED
      BY <2>1 DEF SoundState, StateType, enqueue_packet
  <1>2. SoundOutcome(transmit_message(p, s, NoPackets, message, FALSE))
    BY TransmitMessage, Streams
  <1> QED
    BY <1>1, <1>2, OutcomeType DEF process_outbound_message

\* A rekey request.
LEMMA InitiateDrillUpdate ==
    ASSUME NEW p \in Peers, NEW s, SoundState(s)
    PROVE  SoundOutcome(initiate_drill_update(p, s))
  <1> DEFINE hr   == latest_usable(s.crypt)
             fresh == <<p, s.kexes + 1>>
             next == get_next_constructor(s.crypt, FALSE, fresh)
             refused == [s EXCEPT !.crypt = next.crypt, !.answered = s.answered + 1]
             started == [s EXCEPT !.crypt = next.crypt, !.kexes = s.kexes + 1,
                                  !.rekey = next.constructor, !.ticket = TRUE]
  <1>1. /\ Sound(s.crypt, Kex, Id) /\ s.kexes \in Nat
        /\ s.kexes + 1 \in Nat /\ s.answered + 1 \in Nat
    BY SMTT(30), StateFields
  <1>2. fresh \in Kex
    BY <1>1, Streams
  <1>3. /\ Sound(next.crypt, Kex, Id) /\ next.constructor \in Kex \cup {None}
        /\ hr = None => next.constructor = None
    <2> DEFINE force == FALSE
               n     == get_next_constructor(s.crypt, force, fresh)
    <2>1. force \in BOOLEAN
      OBVIOUS
    <2> HIDE DEF force, fresh
    <2>2. /\ Sound(n.crypt, Kex, Id) /\ n.constructor \in Kex \cup {None}
          /\ latest_usable(s.crypt) = None => n.constructor = None
      BY SMTT(30), <1>1, <1>2, <2>1, GetNextConstructor
    <2> QED
      BY <2>2 DEF force
  <1>4. hr = None \/ hr \in Ratchet(Kex)
    BY <1>1, LatestUsable
  <1>5. CASE next.constructor = None
    <2>1. initiate_drill_update(p, s) = Void(refused)
      BY <1>5 DEF initiate_drill_update
    <2> HIDE DEF next
    <2>2. SoundState(refused)
      <3> DEFINE answered == s.answered + 1
      <3>1. answered \in Nat
        BY <1>1
      <3> HIDE DEF answered
      <3>2. SoundState([s EXCEPT !.crypt = next.crypt, !.answered = answered])
        BY <1>3, <3>1 DEF SoundState, StateType, Sound
      <3> QED
        BY <3>2 DEF answered
    <2> QED
      BY <2>1, <2>2, OutcomeType
  <1>6. CASE next.constructor # None
    <2> DEFINE out == Put(NoPackets, preferred, Stage0(hr, next.constructor))
    <2>1. initiate_drill_update(p, s) = Outcome(started, out, None)
      BY <1>6 DEF initiate_drill_update
    <2> HIDE DEF next, hr
    <2>2. SoundState(started)
      <3> DEFINE kexes == s.kexes + 1
      <3>1. kexes \in Nat
        BY <1>1
      <3> HIDE DEF kexes
      <3>2. SoundState([s EXCEPT !.crypt = next.crypt, !.kexes = kexes,
                                 !.rekey = next.constructor, !.ticket = TRUE])
        BY <1>3, <3>1 DEF SoundState, StateType, Sound
      <3> QED
        BY <3>2 DEF kexes
    <2>3. out \in [Paths -> Seq(Packet)]
      <3>1. Stage0(hr, next.constructor) \in Packet
        BY <1>3, <1>4, <1>6, PacketType
      <3> QED
        BY <3>1, Streams
    <2> HIDE DEF started, out
    <2> QED
      BY <2>1, <2>2, <2>3, OutcomeType
  <1> QED
    BY <1>5, <1>6

\* Reporting the end of an update.
LEMMA OnComplete ==
    ASSUME NEW s, SoundState(s)
    PROVE  SoundState(on_complete(s))
  <1>1. (IF s.ticket THEN s.answered + 1 ELSE s.answered) \in Nat
    BY SMTT(30), StateFields
  <1> QED
    BY <1>1 DEF SoundState, StateType, on_complete

\* GROUP_HEADER
LEMMA OnGroupHeader ==
    ASSUME NEW p \in Peers, NEW s, SoundState(s),
           NEW packet \in Packet, packet.type = "GROUP_HEADER"
    PROVE  SoundOutcome(on_group_header(p, s, packet))
  <1> DEFINE kem  == attempt_kem_as_bob(s.crypt, packet.transfer)
             recv == on_packet_received(s.inbox, packet.group, packet.message)
             new  == [s EXCEPT !.crypt = kem.crypt, !.inbox = recv.channel]
             reply == IF recv.ok
                      THEN GroupHeaderAck(packet.ratchet, packet.group, kem.status)
                      ELSE None
  <1>1. /\ packet.ratchet \in Ratchet(Kex) /\ packet.group \in Id
        /\ packet.message \in Nat /\ packet.transfer \in Kex \cup {None}
    BY PacketFields
  <1>2. Sound(s.crypt, Kex, Id) /\ s.inbox \in ChannelType(Nat)
    BY StateFields
  <1>3. Sound(kem.crypt, Kex, Id) /\ kem.status \in KemTransferStatus(Kex)
    BY <1>1, <1>2, AttemptAsBob
  <1>4. recv.channel \in ChannelType(Nat)
    BY <1>1, <1>2, OnPacketReceivedType
  <1>5. on_group_header(p, s, packet) = Outcome(new, NoPackets, reply)
    BY DEF on_group_header
  <1> HIDE DEF kem, recv
  <1>6. SoundState(new)
    BY <1>3, <1>4 DEF SoundState, StateType, Sound
  <1>7. reply \in Packet \cup {None}
    BY <1>1, <1>3, PacketType
  <1> HIDE DEF new, reply
  <1> QED
    BY <1>5, <1>6, <1>7, OutcomeType, Streams

\* GROUP_HEADER_ACK
LEMMA OnGroupHeaderAck ==
    ASSUME NEW p \in Peers, NEW s, SoundState(s),
           NEW packet \in Packet, packet.type = "GROUP_HEADER_ACK"
    PROVE  SoundOutcome(on_group_header_ack(p, s, packet))
  <1> DEFINE entry == CHOOSE t \in s.transmitters : t.group = packet.group
             kem   == attempt_kem_as_alice_finish(s.crypt, packet.status, entry.constructor)
             rest  == (s.transmitters \ {entry})
                      \cup (IF kem.ok THEN {} ELSE {[entry EXCEPT !.constructor = None]})
             new   == [s EXCEPT !.crypt = kem.crypt, !.transmitters = rest]
             out   == IF packet.status.kind = "Some"
                      THEN Put(NoPackets, "primary",
                               Truncate(packet.ratchet, packet.status.old_version))
                      ELSE NoPackets
             T     == [group : Id, constructor : Kex \cup {None}]
  <1>1. packet.ratchet \in Ratchet(Kex) /\ packet.status \in KemTransferStatus(Kex)
    BY PacketFields
  <1>2. Sound(s.crypt, Kex, Id) /\ s.transmitters \in SUBSET T
    BY StateFields
  <1>3. CASE \A t \in s.transmitters : t.group # packet.group
    <2>1. SoundState([s EXCEPT !.session = "Ended"])
      BY DEF SoundState, StateType
    <2> QED
      BY <1>3, <2>1, OutcomeType DEF on_group_header_ack
  <1>4. CASE \E t \in s.transmitters : t.group = packet.group
    <2>1. entry \in T
      BY <1>2, <1>4
    <2>2. /\ entry.constructor \in Kex \cup {None}
          /\ [entry EXCEPT !.constructor = None] \in T
      <3> HIDE DEF entry
      <3> QED
        BY <2>1
    <2>3. kem.ok \in BOOLEAN /\ Sound(kem.crypt, Kex, Id)
      BY <1>1, <1>2, <2>2, AttemptAsAlice
    <2>4. on_group_header_ack(p, s, packet)
            = IF BasePerfect THEN poll_next_enqueued(p, new, out)
              ELSE Outcome(new, out, None)
      BY <1>4 DEF on_group_header_ack, on_group_header_ack_received
    <2> HIDE DEF kem, entry
    <2>5. rest \in SUBSET T
      BY <1>2, <2>2
    <2> HIDE DEF rest
    <2>6. SoundState(new)
      BY <2>3, <2>5 DEF SoundState, StateType, Sound
    <2>7. out \in [Paths -> Seq(Packet)]
      <3>1. packet.status.old_version \in Version \cup {None}
        BY <1>1 DEF KemTransferStatus
      <3>2. Truncate(packet.ratchet, packet.status.old_version) \in Packet
        BY <1>1, <3>1, PacketType
      <3> QED
        BY <3>2, Streams
    <2> HIDE DEF new, out
    <2> QED
      BY <2>4, <2>6, <2>7, OutcomeType, PollNextEnqueued
  <1> QED
    BY <1>3, <1>4

\* STAGE0
LEMMA OnStage0 ==
    ASSUME NEW p \in Peers, NEW s, SoundState(s),
           NEW packet \in Packet, packet.type = "STAGE0"
    PROVE  SoundOutcome(on_stage0(p, s, packet))
  <1> DEFINE kem == attempt_kem_as_bob(s.crypt, packet.transfer)
             new == [s EXCEPT !.crypt = kem.crypt]
  <1>1. packet.ratchet \in Ratchet(Kex) /\ packet.transfer \in Kex \cup {None}
    BY PacketFields
  <1>2. Sound(kem.crypt, Kex, Id) /\ kem.status \in KemTransferStatus(Kex)
    BY <1>1, StateFields, AttemptAsBob
  <1>3. on_stage0(p, s, packet)
            = Outcome(new, NoPackets, Stage1(packet.ratchet, kem.status))
    BY DEF on_stage0
  <1> HIDE DEF kem
  <1>4. SoundState(new)
    BY <1>2, WithContainer
  <1>5. Stage1(packet.ratchet, kem.status) \in Packet
    BY <1>1, <1>2, PacketType
  <1> HIDE DEF new
  <1> QED
    BY SMTT(30), <1>3, <1>4, <1>5, OutcomeType, Streams

\* STAGE1
LEMMA OnStage1 ==
    ASSUME NEW p \in Peers, NEW s, SoundState(s),
           NEW packet \in Packet, packet.type = "STAGE1"
    PROVE  SoundOutcome(on_stage1(p, s, packet))
  <1> DEFINE kem   == attempt_kem_as_alice_finish(s.crypt, packet.status, s.rekey)
             hr    == IF kem.ratchet = None THEN packet.ratchet ELSE kem.ratchet
             taken == [s EXCEPT !.rekey = None, !.crypt = kem.crypt]
             done  == IF packet.status.old_version = None
                      THEN on_complete(taken) ELSE taken
             reply == Truncate(hr, packet.status.old_version)
  <1>1. /\ packet.ratchet \in Ratchet(Kex)
        /\ packet.status \in KemTransferStatus(Kex)
        /\ packet.status.old_version \in Version \cup {None}
    BY PacketFields DEF KemTransferStatus
  <1>2. Sound(kem.crypt, Kex, Id) /\ kem.ratchet \in Ratchet(Kex) \cup {None}
    BY <1>1, StateFields, AttemptAsAlice
  <1>3. \/ on_stage1(p, s, packet) = Void(s)
        \/ on_stage1(p, s, packet) = Void(taken)
        \/ on_stage1(p, s, packet) = Outcome(done, NoPackets, reply)
    BY DEF on_stage1
  <1> HIDE DEF kem
  <1>4. SoundState(taken)
    BY <1>2 DEF SoundState, StateType, Sound
  <1>5. SoundState(done)
    BY <1>4, OnComplete
  <1>6. reply \in Packet
    <2>1. hr \in Ratchet(Kex)
      BY <1>1, <1>2
    <2> QED
      BY <1>1, <2>1, PacketType
  <1> HIDE DEF taken, done, reply
  <1> QED
    BY SMTT(30), <1>3, <1>4, <1>5, <1>6, OutcomeType, Streams

\* TRUNCATE
LEMMA OnTruncate ==
    ASSUME NEW p \in Peers, NEW s, SoundState(s),
           NEW packet \in Packet, packet.type = "TRUNCATE"
    PROVE  SoundOutcome(on_truncate(p, s, packet))
  <1> DEFINE version == packet.truncate_version
             dropped == IF version = None THEN s.crypt
                        ELSE deregister(s.crypt, version).crypt
             crypt   == maybe_unlock(post_alice_stage1_or_post_stage1_bob(dropped), FALSE)
             new     == [s EXCEPT !.crypt = crypt]
             out     == IF version = None THEN NoPackets
                        ELSE Put(NoPackets, "primary", TruncateAck(packet.ratchet, version))
  <1>1. packet.ratchet \in Ratchet(Kex) /\ version \in Version \cup {None}
    BY PacketFields
  <1>2. Sound(dropped, Kex, Id)
    BY StateFields, DeregisterContainer
  <1>3. \/ on_truncate(p, s, packet) = Void(new)
        \/ on_truncate(p, s, packet) = poll_next_enqueued(p, new, out)
        \/ on_truncate(p, s, packet) = Outcome(new, out, None)
    BY DEF on_truncate
  <1> HIDE DEF dropped
  <1>4. Sound(crypt, Kex, Id)
    <2>1. Sound(post_alice_stage1_or_post_stage1_bob(dropped), Kex, Id)
      BY <1>2, UnlockAndPost
    <2> QED
      BY <2>1, UnlockAndPost
  <1> HIDE DEF crypt
  <1>5. SoundState(new)
    BY <1>4, WithContainer
  <1>6. out \in [Paths -> Seq(Packet)]
    <2>1. version # None => TruncateAck(packet.ratchet, version) \in Packet
      BY <1>1, PacketType
    <2> QED
      BY <2>1, Streams
  <1> HIDE DEF new, out
  <1> QED
    BY <1>3, <1>5, <1>6, OutcomeType, PollNextEnqueued

\* TRUNCATE_ACK
LEMMA OnTruncateAck ==
    ASSUME NEW p \in Peers, NEW s, SoundState(s),
           NEW packet \in Packet, packet.type = "TRUNCATE_ACK"
    PROVE  SoundOutcome(on_truncate_ack(p, s, packet))
  <1> DEFINE crypt == maybe_unlock(s.crypt, TRUE)
             new   == [s EXCEPT !.crypt = crypt]
             done  == poll_next_enqueued(p, new, NoPackets)
  <1>1. Sound(crypt, Kex, Id)
    BY StateFields, UnlockAndPost
  <1>2. \/ on_truncate_ack(p, s, packet) = Void(new)
        \/ on_truncate_ack(p, s, packet) = [done EXCEPT !.state = on_complete(@)]
    BY DEF on_truncate_ack
  <1> HIDE DEF crypt
  <1>3. SoundState(new)
    BY <1>1, WithContainer
  <1> HIDE DEF new
  <1>4. SoundOutcome(done) /\ done = [state |-> done.state, out |-> done.out, reply |-> done.reply]
    <2>1. SoundOutcome(done)
      BY <1>3, PollNextEnqueued, Streams
    <2>2. done = [state |-> done.state, out |-> done.out, reply |-> done.reply]
      BY DEF poll_next_enqueued, transmit_message, Outcome
    <2> QED
      BY <2>1, <2>2
  <1> HIDE DEF done
  <1>5. SoundState(on_complete(done.state))
    BY <1>4, OnComplete DEF SoundOutcome
  <1>6. SoundOutcome([done EXCEPT !.state = on_complete(@)])
    BY <1>4, <1>5 DEF SoundOutcome
  <1> QED
    BY <1>2, <1>3, <1>6, OutcomeType
-----------------------------------------------------------------------------
SoundSession == TypeOK /\ WindowInv

\* Each end of a sound session has a sound state.
LEMMA SoundEnds ==
    ASSUME SoundSession
    PROVE  \A p \in Peers : SoundState(state[p])
  BY DEF SoundSession, TypeOK, WindowInv, ToolsetOf, SoundState

(***************************************************************************)
(* A step that replaces the state of one end by a sound one and keeps the  *)
(* types of what is under way.                                             *)
(***************************************************************************)
LEMMA SoundStep ==
    ASSUME SoundSession, NEW p \in Peers, NEW s, SoundState(s),
           state' = [state EXCEPT ![p] = s],
           streams' \in [Peers -> [Paths -> Seq(Packet)]],
           replies' \in [Peers -> [Paths -> Packet \cup {None}]]
    PROVE  SoundSession'
  <1>1. state \in [Peers -> StateType] /\ s \in StateType
    BY DEF SoundSession, TypeOK, SoundState
  <1>2. \A q \in Peers : state'[q] = IF q = p THEN s ELSE state[q]
    BY <1>1
  <1>3. \A q \in Peers : SoundState(state'[q])
    BY <1>2, SoundEnds
  <1>4. TypeOK'
    BY <1>1 DEF TypeOK
  <1> QED
    BY <1>3, <1>4 DEF SoundSession, WindowInv, ToolsetOf, SoundState

\* A step of a task other than a stream reader.
LEMMA PerformSound ==
    ASSUME SoundSession, NEW p \in Peers, NEW o, SoundOutcome(o), Perform(p, o)
    PROVE  SoundSession'
  <1>1. /\ streams \in [Peers -> [Paths -> Seq(Packet)]]
        /\ replies \in [Peers -> [Paths -> Packet \cup {None}]]
        /\ Peer(p) \in Peers
    BY PeerType DEF SoundSession, TypeOK
  <1>2. Extended(streams[Peer(p)], o.out) \in [Paths -> Seq(Packet)]
    BY <1>1, Streams DEF SoundOutcome
  <1>3. streams' \in [Peers -> [Paths -> Seq(Packet)]]
    BY <1>1, <1>2 DEF Perform
  <1>4. replies' \in [Peers -> [Paths -> Packet \cup {None}]]
    BY <1>1 DEF Perform
  <1> QED
    BY <1>3, <1>4, SoundStep DEF Perform, SoundOutcome

\* Reading a packet: the reply is sent at once, or kept until the lock is released.
LEMMA AppliedSound ==
    ASSUME SoundSession, NEW p \in Peers, NEW path \in Paths,
           streams[p][path] # <<>>, NEW o, SoundOutcome(o), Applied(p, path, o)
    PROVE  SoundSession'
  <1> DEFINE out == IF o.reply = None \/ MultiThreaded THEN o.out
                    ELSE Put(o.out, path, o.reply)
             rest == [streams EXCEPT ![p][path] = Tail(@)]
             q == Peer(p)
             Typed == [Paths -> Seq(Packet)]
  <1>1. /\ streams \in [Peers -> Typed] /\ q \in Peers /\ q # p
        /\ replies \in [Peers -> [Paths -> Packet \cup {None}]]
    BY PeerType DEF SoundSession, TypeOK
  <1>2. o.out \in Typed /\ o.reply \in Packet \cup {None}
    BY DEF SoundOutcome
  <1>3. out \in Typed
    BY <1>2, Streams
  <1>4. rest \in [Peers -> Typed]
    <2>1. Tail(streams[p][path]) \in Seq(Packet)
      BY SMTT(30), <1>1
    <2> QED
      BY <1>1, <2>1
  <1>5. /\ state' = [state EXCEPT ![p] = o.state]
        /\ streams' = [rest EXCEPT ![q] = Extended(streams[q], out)]
        /\ replies' = IF MultiThreaded THEN [replies EXCEPT ![p][path] = o.reply]
                      ELSE replies
    BY <1>1 DEF Applied
  <1> HIDE DEF out, rest, q
  <1>6. streams' \in [Peers -> Typed]
    <2>1. Extended(streams[q], out) \in Typed
      BY <1>1, <1>3, Streams
    <2> QED
      BY <1>1, <1>4, <1>5, <2>1
  <1>7. replies' \in [Peers -> [Paths -> Packet \cup {None}]]
    BY <1>1, <1>2, <1>5
  <1> QED
    BY <1>5, <1>6, <1>7, SoundStep DEF SoundOutcome

\* The initial session is sound.
LEMMA InitSound == Init => SoundSession
  <1> SUFFICES ASSUME Init PROVE SoundSession
    OBVIOUS
  <1>1. ASSUME NEW p \in Peers
        PROVE  SoundState(NewState(p))
    <2> DEFINE c == new_container(GenesisRatchet, p = Initiator)
    <2>1. Sound(c, Kex, Id)
      <3> DEFINE b == (p = Initiator)
                 kex == <<Initiator, 0>>
      <3>1. b \in BOOLEAN /\ 0 \in Id /\ kex \in Kex
        BY IdZero, Streams, PeerType
      <3>2. c = new_container([version |-> 0, kex |-> kex], b)
        BY DEF GenesisRatchet
      <3> HIDE DEF b, kex, c
      <3> QED
        BY <3>1, <3>2, NewContainer
    <2>2. new_channel \in ChannelType(Nat)
      BY SMTT(30) DEF new_channel, ChannelType
    <2> HIDE DEF c
    <2> QED
      BY SMTT(30), <2>1, <2>2 DEF SoundState, StateType, NewState, Sound, c
  <1>2. state \in [Peers -> StateType] /\ \A p \in Peers : SoundState(state[p])
    BY <1>1 DEF Init, SoundState
  <1>3. TypeOK
    BY <1>2, Streams DEF Init, TypeOK
  <1> QED
    BY <1>2, <1>3 DEF SoundSession, WindowInv, ToolsetOf, SoundState

\* Every step keeps the session sound.
LEMMA NextSound == SoundSession /\ [Next]_vars => SoundSession'
  <1> SUFFICES ASSUME SoundSession, [Next]_vars PROVE SoundSession'
    OBVIOUS
  <1>1. CASE UNCHANGED vars
    BY <1>1 DEF vars, SoundSession, TypeOK, WindowInv, ToolsetOf
  <1>2. ASSUME NEW p \in Peers, SubmitMessage(p) PROVE SoundSession'
    <2> DEFINE n == state[p].submitted + 1
               s == [state[p] EXCEPT !.submitted = n]
    <2>1. SoundState(state[p]) /\ n \in Nat
      BY SMTT(30), SoundEnds, StateFields
    <2> HIDE DEF n
    <2>2. SoundState(s) /\ s.submitted \in Nat
      BY <2>1 DEF SoundState, StateType
    <2>3. Perform(p, process_outbound_message(p, s, s.submitted))
      BY <1>2 DEF SubmitMessage, n
    <2> HIDE DEF s
    <2> QED
      BY <2>2, <2>3, ProcessOutbound, PerformSound
  <1>3. ASSUME NEW p \in Peers, RequestRekey(p) PROVE SoundSession'
    <2> DEFINE n == state[p].rekeys + 1
               s == [state[p] EXCEPT !.rekeys = n]
    <2>1. SoundState(state[p]) /\ n \in Nat
      BY SMTT(30), SoundEnds, StateFields
    <2> HIDE DEF n
    <2>2. SoundState(s)
      BY <2>1 DEF SoundState, StateType
    <2>3. Perform(p, initiate_drill_update(p, s))
      BY <1>3 DEF RequestRekey, n
    <2> HIDE DEF s
    <2> QED
      BY <2>2, <2>3, InitiateDrillUpdate, PerformSound
  <1>4. ASSUME NEW p \in Peers, DropReceiver(p) PROVE SoundSession'
    <2> DEFINE inbox == [state[p].inbox EXCEPT !.open = FALSE]
               s == [state[p] EXCEPT !.inbox = inbox]
    <2>1. SoundState(state[p]) /\ state[p].inbox \in ChannelType(Nat)
      BY SoundEnds, StateFields
    <2>2. inbox \in ChannelType(Nat)
      BY <2>1 DEF ChannelType
    <2>3. state' = [state EXCEPT ![p] = s] /\ streams' = streams /\ replies' = replies
      BY <1>4 DEF DropReceiver, SoundSession, TypeOK, StateType
    <2> HIDE DEF inbox
    <2>4. SoundState(s)
      BY <2>1, <2>2 DEF SoundState, StateType
    <2> HIDE DEF s
    <2> QED
      BY <2>3, <2>4, SoundStep DEF SoundSession, TypeOK
  <1>5. ASSUME NEW p \in Peers, NEW path \in Paths, Delivery(p, path)
        PROVE  SoundSession'
    <2> DEFINE packet == Head(streams[p][path])
    <2>1. SoundState(state[p])
      BY SoundEnds
    <2>2. /\ streams \in [Peers -> [Paths -> Seq(Packet)]]
          /\ replies \in [Peers -> [Paths -> Packet \cup {None}]]
      BY DEF SoundSession, TypeOK
    <2>3. streams[p][path] # <<>> => packet \in Packet
      BY SMTT(30), <2>2
    <2>4. CASE ReceiveGroupHeader(p, path)
      <3>1. PICK o \in {IF Opens(p, packet) THEN on_group_header(p, state[p], packet)
                        ELSE Void(state[p])} : Applied(p, path, o)
        BY <2>4 DEF ReceiveGroupHeader, Read, First
      <3>2. streams[p][path] # <<>> /\ packet.type = "GROUP_HEADER"
        BY <2>4 DEF ReceiveGroupHeader, Read, First
      <3>3. SoundOutcome(o)
        <4>1. packet \in Packet
          BY <2>3, <3>2
        <4> HIDE DEF packet
        <4> QED
          BY <2>1, <3>1, <3>2, <4>1, OnGroupHeader, OutcomeType
      <3> QED
        BY <3>1, <3>2, <3>3, AppliedSound
    <2>5. CASE ReceiveGroupHeaderAck(p, path)
      <3>1. PICK o \in {IF Opens(p, packet) THEN on_group_header_ack(p, state[p], packet)
                        ELSE Void(state[p])} : Applied(p, path, o)
        BY <2>5 DEF ReceiveGroupHeaderAck, Read, First
      <3>2. streams[p][path] # <<>> /\ packet.type = "GROUP_HEADER_ACK"
        BY <2>5 DEF ReceiveGroupHeaderAck, Read, First
      <3>3. SoundOutcome(o)
        <4>1. packet \in Packet
          BY <2>3, <3>2
        <4> HIDE DEF packet
        <4> QED
          BY <2>1, <3>1, <3>2, <4>1, OnGroupHeaderAck, OutcomeType
      <3> QED
        BY <3>1, <3>2, <3>3, AppliedSound
    <2>6. CASE ReceiveStage0(p, path)
      <3>1. PICK o \in {IF Opens(p, packet) THEN on_stage0(p, state[p], packet)
                        ELSE Void(state[p])} : Applied(p, path, o)
        BY <2>6 DEF ReceiveStage0, Read, First
      <3>2. streams[p][path] # <<>> /\ packet.type = "STAGE0"
        BY <2>6 DEF ReceiveStage0, Read, First
      <3>3. SoundOutcome(o)
        <4>1. packet \in Packet
          BY <2>3, <3>2
        <4> HIDE DEF packet
        <4> QED
          BY <2>1, <3>1, <3>2, <4>1, OnStage0, OutcomeType
      <3> QED
        BY <3>1, <3>2, <3>3, AppliedSound
    <2>7. CASE ReceiveStage1(p, path)
      <3>1. PICK o \in {IF Opens(p, packet) THEN on_stage1(p, state[p], packet)
                        ELSE Void(state[p])} : Applied(p, path, o)
        BY <2>7 DEF ReceiveStage1, Read, First
      <3>2. streams[p][path] # <<>> /\ packet.type = "STAGE1"
        BY <2>7 DEF ReceiveStage1, Read, First
      <3>3. SoundOutcome(o)
        <4>1. packet \in Packet
          BY <2>3, <3>2
        <4> HIDE DEF packet
        <4> QED
          BY <2>1, <3>1, <3>2, <4>1, OnStage1, OutcomeType
      <3> QED
        BY <3>1, <3>2, <3>3, AppliedSound
    <2>8. CASE ReceiveTruncate(p, path)
      <3>1. PICK o \in {IF Opens(p, packet) THEN on_truncate(p, state[p], packet)
                        ELSE Void(state[p])} : Applied(p, path, o)
        BY <2>8 DEF ReceiveTruncate, Read, First
      <3>2. streams[p][path] # <<>> /\ packet.type = "TRUNCATE"
        BY <2>8 DEF ReceiveTruncate, Read, First
      <3>3. SoundOutcome(o)
        <4>1. packet \in Packet
          BY <2>3, <3>2
        <4> HIDE DEF packet
        <4> QED
          BY <2>1, <3>1, <3>2, <4>1, OnTruncate, OutcomeType
      <3> QED
        BY <3>1, <3>2, <3>3, AppliedSound
    <2>9. CASE ReceiveTruncateAck(p, path)
      <3>1. PICK o \in {IF Opens(p, packet) THEN on_truncate_ack(p, state[p], packet)
                        ELSE Void(state[p])} : Applied(p, path, o)
        BY <2>9 DEF ReceiveTruncateAck, Read, First
      <3>2. streams[p][path] # <<>> /\ packet.type = "TRUNCATE_ACK"
        BY <2>9 DEF ReceiveTruncateAck, Read, First
      <3>3. SoundOutcome(o)
        <4>1. packet \in Packet
          BY <2>3, <3>2
        <4> HIDE DEF packet
        <4> QED
          BY <2>1, <3>1, <3>2, <4>1, OnTruncateAck, OutcomeType
      <3> QED
        BY <3>1, <3>2, <3>3, AppliedSound
    <2>10. CASE ReplyToSender(p, path)
      <3> DEFINE q == Peer(p)
      <3>1. q \in Peers
        BY PeerType
      <3>2. replies[p][path] \in Packet
        BY <2>2, <2>10 DEF ReplyToSender
      <3>3. /\ state' = state
            /\ streams' = [streams EXCEPT ![q][path] = Append(@, replies[p][path])]
            /\ replies' = [replies EXCEPT ![p][path] = None]
        BY <2>10 DEF ReplyToSender
      <3> HIDE DEF q
      <3>4. Append(streams[q][path], replies[p][path]) \in Seq(Packet)
        BY SMTT(30), <2>2, <3>1, <3>2
      <3>5. TypeOK'
        BY <2>2, <3>1, <3>3, <3>4 DEF SoundSession, TypeOK
      <3> QED
        BY <3>3, <3>5 DEF SoundSession, WindowInv, ToolsetOf
    <2> QED
      BY <1>5, <2>4, <2>5, <2>6, <2>7, <2>8, <2>9, <2>10 DEF Delivery
  <1> QED
    BY <1>1, <1>2, <1>3, <1>4, <1>5 DEF Next

\* The types of the session state and of every packet.
THEOREM TypeCorrect == Spec => []TypeOK
  <1>1. SoundSession => TypeOK
    BY DEF SoundSession
  <1> QED
    BY <1>1, InitSound, NextSound, PTL DEF Spec

(***************************************************************************)
(* The deque of each toolset is the gapless run of versions its index      *)
(* arithmetic (get_adjusted_index) takes it for, in every build and mode   *)
(* and across the wrap of the version number: neither a commit nor a       *)
(* deregistration can break it, whatever the other end does.               *)
(***************************************************************************)
THEOREM WindowSound == Spec => []WindowInv
  <1>1. SoundSession => WindowInv
    BY DEF SoundSession
  <1> QED
    BY <1>1, InitSound, NextSound, PTL DEF Spec
-----------------------------------------------------------------------------
(***************************************************************************)
(* The order of messages.  What an end has queued follows what it has      *)
(* sent, without a gap (process_outbound_message, poll_next_enqueued), and *)
(* only Perfect secrecy queues.                                            *)
(***************************************************************************)
Queued(s) ==
    LET sent == s.crypt.rolling_group_id
    IN  /\ Perfect \/ Len(s.enqueued) = 0
        /\ sent + Len(s.enqueued) <= s.submitted
        /\ s.session = "Connected" =>
             /\ \A i \in 1 .. Len(s.enqueued) : s.enqueued[i] = sent + i
             /\ s.sender => sent + Len(s.enqueued) = s.submitted

\* A message of an end that has sent so many of them, under the group of its number.
Numbered(packet, sent) ==
    packet.type = "GROUP_HEADER" => packet.message = packet.group + 1 /\ packet.group < sent

AllNumbered(c, sent) == \A k \in 1 .. Len(c) : Numbered(c[k], sent)

\* What has arrived of an end that has sent so many messages.
Received(ch, sent) ==
    /\ \A e \in ch.map : e.packet = e.id + 1 /\ e.id < sent
    /\ \A i \in 1 .. Len(ch.sink) : ch.sink[i] = i
    /\ Len(ch.sink) <= sent
    /\ ch.last = IF Len(ch.sink) = 0 THEN None ELSE Len(ch.sink) - 1

OrderedState(s, sent) ==
    SoundState(s) /\ Queued(s) /\ Received(s.inbox, sent) /\ s.submitted <= MaxId

\* What a handler may do to a state whose other end has sent so many messages.
OrderedOutcome(s, o, sent) ==
    /\ OrderedState(o.state, sent)
    /\ o.state.submitted = s.submitted
    /\ s.crypt.rolling_group_id <= o.state.crypt.rolling_group_id
    /\ \A path \in Paths : AllNumbered(o.out[path], o.state.crypt.rolling_group_id)
    /\ o.reply # None => o.reply.type # "GROUP_HEADER"

\* Two states that hold the same messages.
SameMessages(s, t) ==
    /\ t.enqueued = s.enqueued /\ t.submitted = s.submitted /\ t.inbox = s.inbox
    /\ t.crypt.rolling_group_id = s.crypt.rolling_group_id
    /\ t.session # "Connected" \/ (t.session = s.session /\ t.sender = s.sender)

\* The numbers in a sound state.
LEMMA Counts ==
    ASSUME NEW s, SoundState(s)
    PROVE  /\ s.crypt.rolling_group_id \in Id /\ s.crypt.rolling_group_id \in Nat
           /\ s.enqueued \in Seq(Nat) /\ Len(s.enqueued) \in Nat /\ s.submitted \in Nat
           /\ s.inbox \in ChannelType(Nat)
  <1>1. Sound(s.crypt, Kex, Id)
    BY StateFields
  <1>2. s.crypt.rolling_group_id \in Id
    BY <1>1, ContainerFields DEF Sound
  <1>3. s.enqueued \in Seq(Nat) /\ s.submitted \in Nat /\ s.inbox \in ChannelType(Nat)
    BY StateFields
  <1> QED
    BY SMTT(30), <1>2, <1>3, OrderedChannelAssumption DEF Id

\* A state that holds the same messages is as ordered.
LEMMA SameOrdered ==
    ASSUME NEW s, NEW t, NEW sent \in Nat, OrderedState(s, sent), SoundState(t), SameMessages(s, t)
    PROVE  OrderedState(t, sent)
  BY DEF OrderedState, SameMessages, Queued

\* A handler that leaves the messages alone.
LEMMA QuietOutcome ==
    ASSUME NEW s, NEW t, NEW sent \in Nat, OrderedState(s, sent), SoundState(t), SameMessages(s, t),
           NEW out, NEW reply, \A path \in Paths : AllNumbered(out[path], s.crypt.rolling_group_id),
           reply # None => reply.type # "GROUP_HEADER"
    PROVE  OrderedOutcome(s, Outcome(t, out, reply), sent)
  <1>1. OrderedState(t, sent)
    BY SameOrdered
  <1>2. s.crypt.rolling_group_id \in Nat
    BY Counts DEF OrderedState
  <1> QED
    BY SMTT(30), <1>1, <1>2 DEF OrderedOutcome, Outcome, SameMessages

\* Packets that carry no message.
LEMMA NoMessages ==
    ASSUME NEW sent
    PROVE  /\ \A path \in Paths : AllNumbered(NoPackets[path], sent)
           /\ \A packet \in Packet : packet.type # "GROUP_HEADER" =>
                \A path \in Paths : AllNumbered(Put(NoPackets, "primary", packet)[path], sent)
           /\ \A packet \in Packet : packet.type # "GROUP_HEADER" =>
                \A path \in Paths : AllNumbered(Put(NoPackets, preferred, packet)[path], sent)
  <1>1. \A path \in Paths : NoPackets[path] = <<>>
    BY DEF NoPackets
  <1>2. ASSUME NEW packet \in Packet, packet.type # "GROUP_HEADER", NEW to \in Paths, NEW path \in Paths
        PROVE  AllNumbered(Put(NoPackets, to, packet)[path], sent)
    <2>1. Put(NoPackets, to, packet)[path] \in {<<>>, <<packet>>}
      BY SMTT(30), <1>1, <1>2 DEF Put, NoPackets
    <2> QED
      BY SMTT(30), <1>2, <2>1 DEF AllNumbered, Numbered
  <1> QED
    BY SMTT(30), <1>1, <1>2, Streams DEF AllNumbered

\* The operations on the container leave the number of messages sent alone.
LEMMA GroupIdKept ==
    ASSUME NEW c, Sound(c, Kex, Id)
    PROVE  /\ \A b \in BOOLEAN : maybe_unlock(c, b).rolling_group_id = c.rolling_group_id
           /\ post_alice_stage1_or_post_stage1_bob(c).rolling_group_id = c.rolling_group_id
           /\ \A v : deregister(c, v).crypt.rolling_group_id = c.rolling_group_id
           /\ \A kex : \A b \in BOOLEAN :
                update_sync_safe(c, kex, b).crypt.rolling_group_id = c.rolling_group_id
           /\ \A kex : attempt_kem_as_bob(c, kex).crypt.rolling_group_id = c.rolling_group_id
  <1>1. c \in Container(Kex, Id)
    BY DEF Sound
  <1>2. \A b \in BOOLEAN : maybe_unlock(c, b).rolling_group_id = c.rolling_group_id
    BY <1>1 DEF maybe_unlock, Container
  <1>3. post_alice_stage1_or_post_stage1_bob(c).rolling_group_id = c.rolling_group_id
    BY <1>1 DEF post_alice_stage1_or_post_stage1_bob, Container
  <1>4. \A v : deregister(c, v).crypt.rolling_group_id = c.rolling_group_id
    BY <1>1 DEF deregister, Container
  <1>5. \A kex : \A b \in BOOLEAN :
            update_sync_safe(c, kex, b).crypt.rolling_group_id = c.rolling_group_id
    BY <1>1 DEF update_sync_safe, Container
  <1>6. \A kex : attempt_kem_as_bob(c, kex).crypt.rolling_group_id = c.rolling_group_id
    BY <1>5 DEF attempt_kem_as_bob
  <1> QED
    BY <1>2, <1>3, <1>4, <1>5, <1>6

\* So does Alice's part of an exchange.
LEMMA FinishKeepsGroupId ==
    ASSUME NEW c, Sound(c, Kex, Id), NEW status \in KemTransferStatus(Kex),
           NEW constructor \in Kex \cup {None}
    PROVE  attempt_kem_as_alice_finish(c, status, constructor).crypt.rolling_group_id
             = c.rolling_group_id
  <1>1. maybe_unlock(c, TRUE).rolling_group_id = c.rolling_group_id
    BY GroupIdKept
  <1>2. ASSUME status.kex \in Kex
        PROVE  commit_as_alice(c, status).crypt.rolling_group_id = c.rolling_group_id
    <2> DEFINE committed == update_sync_safe(c, status.kex, TRUE).crypt
               dropped   == deregister(committed, status.old_version)
               posted    == post_alice_stage1_or_post_stage1_bob(dropped.crypt)
               unlocked  == maybe_unlock(post_alice_stage1_or_post_stage1_bob(committed), TRUE)
    <2>1. Sound(committed, Kex, Id) /\ committed.rolling_group_id = c.rolling_group_id
      <3>1. Sound(committed, Kex, Id)
        BY <1>2, UpdateSyncSafe
      <3>2. committed.rolling_group_id = c.rolling_group_id
        <4> DEFINE b == TRUE
        <4>1. b \in BOOLEAN
          OBVIOUS
        <4> HIDE DEF b
        <4>2. update_sync_safe(c, status.kex, b).crypt.rolling_group_id = c.rolling_group_id
          BY <4>1, GroupIdKept
        <4> QED
          BY <4>2 DEF b
      <3> QED
        BY <3>1, <3>2
    <2>2. commit_as_alice(c, status).crypt \in {dropped.crypt, posted, unlocked}
      BY DEF commit_as_alice
    <2> HIDE DEF committed
    <2>3. Sound(dropped.crypt, Kex, Id) /\ dropped.crypt.rolling_group_id = c.rolling_group_id
      BY <2>1, DeregisterContainer, GroupIdKept
    <2> HIDE DEF dropped
    <2>4. posted.rolling_group_id = c.rolling_group_id
      BY <2>3, GroupIdKept
    <2>5. unlocked.rolling_group_id = c.rolling_group_id
      <3> DEFINE post == post_alice_stage1_or_post_stage1_bob(committed)
      <3>1. Sound(post, Kex, Id) /\ post.rolling_group_id = c.rolling_group_id
        BY <2>1, UnlockAndPost, GroupIdKept
      <3> HIDE DEF post
      <3>2. maybe_unlock(post, TRUE).rolling_group_id = c.rolling_group_id
        BY <3>1, GroupIdKept
      <3> QED
        BY <3>2 DEF post
    <2> QED
      BY <2>2, <2>3, <2>4, <2>5
  <1>3. status.kind \notin {"Empty", "Omitted"} => status.kex \in Kex
    BY DEF KemTransferStatus
  <1> QED
    BY <1>1, <1>2, <1>3 DEF attempt_kem_as_alice_finish

\* A longer stream, or a shorter one, of numbered messages.
LEMMA NumberedStreams ==
    ASSUME NEW sent \in Nat, NEW c \in Seq(Packet), AllNumbered(c, sent)
    PROVE  /\ \A more \in Nat : sent <= more => AllNumbered(c, more)
           /\ \A packet \in Packet : Numbered(packet, sent) => AllNumbered(Append(c, packet), sent)
           /\ \A d \in Seq(Packet) : AllNumbered(d, sent) => AllNumbered(c \o d, sent)
           /\ c # <<>> => AllNumbered(Tail(c), sent) /\ Numbered(Head(c), sent)
  <1>1. ASSUME NEW more \in Nat, sent <= more PROVE AllNumbered(c, more)
    <2>1. \A k \in 1 .. Len(c) : c[k].type = "GROUP_HEADER" => c[k].group \in Id
      BY SMTT(30), PacketFields
    <2> QED
      BY SMTT(30), <1>1, <2>1, OrderedChannelAssumption DEF AllNumbered, Numbered, Id
  <1>2. ASSUME NEW packet \in Packet, Numbered(packet, sent) PROVE AllNumbered(Append(c, packet), sent)
    BY SMTT(30), <1>2 DEF AllNumbered
  <1>3. ASSUME NEW d \in Seq(Packet), AllNumbered(d, sent) PROVE AllNumbered(c \o d, sent)
    <2> SUFFICES ASSUME NEW k \in 1 .. Len(c \o d) PROVE Numbered((c \o d)[k], sent)
      BY DEF AllNumbered
    <2>1. CASE k <= Len(c)
      BY SMTT(30), <2>1 DEF AllNumbered
    <2>2. CASE k > Len(c)
      <3>1. (c \o d)[k] = d[k - Len(c)] /\ k - Len(c) \in 1 .. Len(d)
        BY SMTT(30), <2>2
      <3> QED
        BY <1>3, <3>1 DEF AllNumbered
    <2> QED
      BY SMTT(30), <2>1, <2>2
  <1>4. ASSUME c # <<>> PROVE AllNumbered(Tail(c), sent) /\ Numbered(Head(c), sent)
    BY SMTT(30), <1>4 DEF AllNumbered
  <1> QED
    BY <1>1, <1>2, <1>3, <1>4

\* The state and the message that transmit_message is called with.
InTurn(s, message, called_from_poll) ==
    LET sent == s.crypt.rolling_group_id
    IN  /\ message = sent + 1
        /\ Perfect \/ Len(s.enqueued) = 0
        /\ \A i \in 1 .. Len(s.enqueued) : s.enqueued[i] = sent + 1 + i
        /\ sent + 1 + Len(s.enqueued) <= s.submitted
        /\ s.sender => sent + 1 + Len(s.enqueued) = s.submitted
        /\ ~called_from_poll =>
             Len(s.enqueued) = 0 /\ (Perfect => ~s.crypt.update_in_progress)

\* In Perfect secrecy a message that may be sent gets a constructor.
LEMMA ConstructorGiven ==
    ASSUME NEW p \in Peers, NEW s, SoundState(s), NEW called_from_poll \in BOOLEAN,
           Perfect => called_from_poll \/ ~s.crypt.update_in_progress,
           latest_usable(s.crypt) # None
    PROVE  ~(Perfect /\ get_next_constructor(s.crypt, called_from_poll, <<p, s.kexes + 1>>).constructor
                          = None)
  <1>1. <<p, s.kexes + 1>> # None
    BY SMTT(30), StateFields, RatchetUpdateAssumption
  <1> QED
    BY <1>1 DEF get_next_constructor

\* transmit_message sends the message in its turn, or is the last to send.
LEMMA TransmitOrdered ==
    ASSUME NEW p \in Peers, NEW s, SoundState(s), NEW sent \in Nat, Received(s.inbox, sent),
           s.submitted <= MaxId, NEW out \in [Paths -> Seq(Packet)],
           \A path \in Paths : AllNumbered(out[path], s.crypt.rolling_group_id),
           NEW message \in Nat, NEW called_from_poll \in BOOLEAN,
           InTurn(s, message, called_from_poll)
    PROVE  OrderedOutcome(s, transmit_message(p, s, out, message, called_from_poll), sent)
  <1> DEFINE hr    == latest_usable(s.crypt)
             next  == get_next_constructor(s.crypt, called_from_poll, <<p, s.kexes + 1>>)
             group == s.crypt.rolling_group_id
             o     == transmit_message(p, s, out, message, called_from_poll)
  <1>1. SoundOutcome(o)
    BY TransmitMessage
  <1>2. /\ group \in Id /\ group \in Nat /\ s.enqueued \in Seq(Nat)
        /\ Len(s.enqueued) \in Nat /\ s.submitted \in Nat
    BY Counts
  <1>3. CASE hr = None
    <2>1. o = Outcome(IF called_from_poll THEN [s EXCEPT !.session = "Panicked"]
                      ELSE [s EXCEPT !.sender = FALSE], out, None)
      BY <1>3 DEF transmit_message
    <2>2. s \in StateType
      BY DEF SoundState
    <2>3. /\ o.state.crypt = s.crypt /\ o.state.enqueued = s.enqueued /\ o.state.inbox = s.inbox
          /\ o.state.submitted = s.submitted /\ o.out = out /\ o.reply = None
          /\ called_from_poll => o.state.session = "Panicked"
          /\ ~called_from_poll => ~o.state.sender
      BY SMTT(30), <2>1, <2>2 DEF StateType, Outcome
    <2> HIDE DEF o
    <2>4. Queued(o.state)
      <3>1. CASE called_from_poll
        BY SMTT(30), <1>2, <2>3, <3>1 DEF InTurn, Queued
      <3>2. CASE ~called_from_poll
        BY SMTT(30), <1>2, <2>3, <3>2 DEF InTurn, Queued
      <3> QED
        BY <3>1, <3>2
    <2>5. OrderedState(o.state, sent)
      BY <1>1, <2>3, <2>4 DEF OrderedState, SoundOutcome
    <2> QED
      BY SMTT(30), <1>2, <2>3, <2>5 DEF OrderedOutcome, o
  <1>4. CASE hr # None
    <2> DEFINE c == [next.crypt EXCEPT !.rolling_group_id = id_plus(group, 1)]
               packet == GroupHeader(hr, group, message, next.constructor)
               new == [s EXCEPT !.crypt = c, !.sealed = hr,
                                !.kexes = IF next.constructor = None THEN @ ELSE @ + 1,
                                !.transmitters =
                                    {t \in @ : t.group # group}
                                    \cup {[group |-> group, constructor |-> next.constructor]}]
    <2>1. ~(Perfect /\ next.constructor = None)
      BY <1>4, ConstructorGiven DEF InTurn
    <2>2. o = Outcome(new, Put(out, preferred, packet), None)
      BY <1>4, <2>1 DEF transmit_message
    <2>3. next.crypt \in Container(Kex, Id)
      <3>1. Sound(s.crypt, Kex, Id) /\ <<p, s.kexes + 1>> \in Kex
        BY SMTT(30), StateFields, Streams
      <3> QED
        <4> DEFINE fresh == <<p, s.kexes + 1>>
        <4> HIDE DEF fresh
        <4>1. Sound(get_next_constructor(s.crypt, called_from_poll, fresh).crypt, Kex, Id)
          BY <3>1, GetNextConstructor DEF fresh
        <4> QED
          BY <4>1 DEF Sound, fresh
    <2>4. id_plus(group, 1) = group + 1
      <3> DEFINE n == Len(s.enqueued)
                 m == s.submitted
      <3>1. group + 1 + n <= m /\ m <= MaxId /\ group \in Nat /\ n \in Nat /\ m \in Nat
        BY <1>2 DEF InTurn
      <3> HIDE DEF group, n, m
      <3>2. group + 1 <= MaxId
        BY SMTT(30), <3>1, OrderedChannelAssumption
      <3> QED
        BY SMTT(30), <1>2, <3>2, OrderedChannelAssumption DEF id_plus
    <2> HIDE DEF next
    <2>5. c.rolling_group_id = group + 1
      BY <2>3, <2>4 DEF Container
    <2> HIDE DEF c
    <2>6. /\ new.crypt = c /\ new.enqueued = s.enqueued /\ new.inbox = s.inbox
          /\ new.submitted = s.submitted /\ new.sender = s.sender /\ new.session = s.session
      BY DEF SoundState, StateType
    <2> HIDE DEF new
    <2>7. /\ o.state = new /\ o.out = Put(out, preferred, packet) /\ o.reply = None
      BY SMTT(30), <2>2 DEF Outcome
    <2>8. Queued(new)
      BY <1>2, <2>5, <2>6 DEF InTurn, Queued
    <2>9. Numbered(packet, group + 1)
      BY SMTT(30), <1>2 DEF Numbered, GroupHeader, InTurn
    <2>10. \A path \in Paths : AllNumbered(o.out[path], group + 1)
      <3> SUFFICES ASSUME NEW path \in Paths PROVE AllNumbered(o.out[path], group + 1)
        OBVIOUS
      <3> HIDE DEF packet
      <3>1. AllNumbered(out[path], group + 1)
        BY SMTT(30), <1>2, NumberedStreams
      <3>2. o.out[path] = IF path = preferred THEN Append(out[path], packet) ELSE out[path]
        BY <2>7 DEF Put
      <3>3. Append(out[path], packet) \in Seq(Packet) \/ path # preferred
        BY <1>1, <3>2 DEF SoundOutcome
      <3>4. \A k \in 1 .. Len(Append(out[path], packet)) : Numbered(Append(out[path], packet)[k], group + 1)
        BY SMTT(30), <2>9, <3>1 DEF AllNumbered
      <3> QED
        BY <3>1, <3>2, <3>4 DEF AllNumbered
    <2> HIDE DEF o
    <2>11. OrderedState(o.state, sent)
      BY <1>1, <2>6, <2>7, <2>8 DEF OrderedState, SoundOutcome
    <2>12. o.state.crypt.rolling_group_id = group + 1 /\ group <= group + 1
      BY SMTT(30), <1>2, <2>5, <2>6, <2>7
    <2> QED
      BY <2>6, <2>7, <2>10, <2>11, <2>12 DEF OrderedOutcome, o
  <1> QED
    BY <1>3, <1>4

\* The numbers after g, without a gap.
From(q, g) == \A i \in 1 .. Len(q) : q[i] = g + i

\* A queue of the numbers after g whose first element is taken.
LEMMA QueueTail ==
    ASSUME NEW q \in Seq(Nat), NEW g \in Nat, From(q, g), q # <<>>
    PROVE  /\ Head(q) = g + 1 /\ Tail(q) \in Seq(Nat) /\ From(Tail(q), g + 1)
           /\ g + 1 + Len(Tail(q)) = g + Len(q)
  <1>1. Tail(q) \in Seq(Nat) /\ Len(Tail(q)) = Len(q) - 1 /\ Len(q) \in Nat \ {0}
    BY SMTT(30)
  <1>2. Head(q) = q[1] /\ 1 \in 1 .. Len(q)
    BY SMTT(30)
  <1>3. ASSUME NEW i \in 1 .. Len(Tail(q)) PROVE Tail(q)[i] = g + 1 + i
    <2>1. Tail(q)[i] = q[i + 1] /\ i + 1 \in 1 .. Len(q)
      BY SMTT(30), <1>1
    <2>2. q[i + 1] = g + (i + 1)
      BY <2>1 DEF From
    <2> QED
      BY SMTT(30), <2>1, <2>2
  <1> QED
    BY SMTT(30), <1>1, <1>2, <1>3 DEF From

\* A queue of the numbers after g to which the next one is appended.
LEMMA QueueAppend ==
    ASSUME NEW q \in Seq(Nat), NEW g \in Nat, From(q, g), NEW m \in Nat, g + Len(q) + 1 = m
    PROVE  From(Append(q, m), g) /\ g + Len(Append(q, m)) = m
  <1>1. Len(Append(q, m)) = Len(q) + 1 /\ Len(q) \in Nat
    BY SMTT(30)
  <1>2. ASSUME NEW i \in 1 .. Len(Append(q, m)) PROVE Append(q, m)[i] = g + i
    BY SMTT(30), <1>1 DEF From
  <1> QED
    BY SMTT(30), <1>1, <1>2 DEF From

\* poll_next_enqueued sends the first message of the queue.
LEMMA PollOrdered ==
    ASSUME NEW p \in Peers, NEW s, NEW sent \in Nat, OrderedState(s, sent), s.session = "Connected",
           NEW out \in [Paths -> Seq(Packet)],
           \A path \in Paths : AllNumbered(out[path], s.crypt.rolling_group_id)
    PROVE  OrderedOutcome(s, poll_next_enqueued(p, s, out), sent)
  <1> DEFINE c == [s.crypt EXCEPT !.update_in_progress = TRUE]
             locked == [s EXCEPT !.crypt = c]
  <1>1. Sound(s.crypt, Kex, Id) /\ SoundState(s) /\ s \in StateType
    BY StateFields DEF OrderedState, SoundState
  <1>2. Sound(c, Kex, Id) /\ c.rolling_group_id = s.crypt.rolling_group_id
    BY <1>1 DEF Sound, Container
  <1>3. [s EXCEPT !.crypt.update_in_progress = TRUE] = locked
    BY <1>1 DEF StateType
  <1> HIDE DEF c
  <1>4. SoundState(locked)
    BY <1>1, <1>2, WithContainer
  <1>5. /\ locked.enqueued = s.enqueued /\ locked.submitted = s.submitted /\ locked.inbox = s.inbox
        /\ locked.crypt = c /\ locked.session = s.session /\ locked.sender = s.sender
    BY <1>1 DEF StateType
  <1> HIDE DEF locked
  <1>6. CASE ~Perfect \/ s.crypt.update_in_progress
    <2>1. poll_next_enqueued(p, s, out) = Outcome(s, out, None)
      BY <1>6 DEF poll_next_enqueued
    <2> QED
      BY <1>1, <2>1, QuietOutcome DEF SameMessages
  <1>7. CASE ~(~Perfect \/ s.crypt.update_in_progress) /\ s.enqueued = <<>>
    <2>1. poll_next_enqueued(p, s, out) = Outcome(locked, out, None)
      BY <1>3, <1>7 DEF poll_next_enqueued
    <2>2. SameMessages(s, locked)
      BY <1>2, <1>5 DEF SameMessages
    <2> QED
      BY <1>4, <2>1, <2>2, QuietOutcome
  <1>8. CASE ~(~Perfect \/ s.crypt.update_in_progress) /\ s.enqueued # <<>>
    <2> DEFINE t == [locked EXCEPT !.enqueued = Tail(s.enqueued)]
               message == Head(s.enqueued)
               group == s.crypt.rolling_group_id
    <2>1. /\ s.enqueued \in Seq(Nat) /\ group \in Nat /\ s.submitted \in Nat
          /\ Len(s.enqueued) \in Nat
      BY <1>1, Counts
    <2>2. message \in Nat /\ Tail(s.enqueued) \in Seq(Nat)
      BY SMTT(30), <1>8, <2>1
    <2>3. SoundState(t)
      BY <1>4, <2>2 DEF SoundState, StateType
    <2>4. poll_next_enqueued(p, s, out) = transmit_message(p, t, out, message, TRUE)
      BY <1>3, <1>5, <1>8 DEF poll_next_enqueued
    <2>5. /\ t.enqueued = Tail(s.enqueued) /\ t.submitted = s.submitted /\ t.inbox = s.inbox
          /\ t.crypt.rolling_group_id = group /\ t.sender = s.sender
      BY <1>2, <1>4, <1>5 DEF SoundState, StateType
    <2> HIDE DEF t
    <2>6. InTurn(t, message, TRUE)
      <3>1. /\ Perfect /\ group + Len(s.enqueued) <= s.submitted
            /\ \A i \in 1 .. Len(s.enqueued) : s.enqueued[i] = group + i
            /\ s.sender => group + Len(s.enqueued) = s.submitted
        BY <1>8 DEF OrderedState, Queued
      <3> HIDE DEF message, group
      <3>2. /\ message = group + 1
            /\ \A i \in 1 .. Len(Tail(s.enqueued)) : Tail(s.enqueued)[i] = group + 1 + i
            /\ group + 1 + Len(Tail(s.enqueued)) = group + Len(s.enqueued)
        BY <1>8, <2>1, <3>1, QueueTail DEF message, From
      <3> QED
        BY <2>5, <3>1, <3>2 DEF InTurn
    <2>7. \A path \in Paths : AllNumbered(out[path], t.crypt.rolling_group_id)
      BY <2>5
    <2>8. OrderedOutcome(t, transmit_message(p, t, out, message, TRUE), sent)
      <3> DEFINE b == TRUE
      <3>1. b \in BOOLEAN /\ InTurn(t, message, b)
        BY <2>6
      <3>2. Received(t.inbox, sent) /\ t.submitted <= MaxId
        BY <2>5 DEF OrderedState
      <3> HIDE DEF b
      <3>3. OrderedOutcome(t, transmit_message(p, t, out, message, b), sent)
        BY <2>2, <2>3, <2>7, <3>1, <3>2, TransmitOrdered
      <3> QED
        BY <3>3 DEF b
    <2> QED
      BY <2>4, <2>5, <2>8 DEF OrderedOutcome
  <1> QED
    BY <1>6, <1>7, <1>8

\* The application's send: its message comes after all that is queued.
LEMMA OutboundOrdered ==
    ASSUME NEW p \in Peers, NEW s, SoundState(s), NEW sent \in Nat, Received(s.inbox, sent),
           s.session = "Connected", s.sender, s.submitted <= MaxId,
           Perfect \/ Len(s.enqueued) = 0,
           s.crypt.rolling_group_id + Len(s.enqueued) + 1 = s.submitted,
           \A i \in 1 .. Len(s.enqueued) : s.enqueued[i] = s.crypt.rolling_group_id + i
    PROVE  OrderedOutcome(s, process_outbound_message(p, s, s.submitted), sent)
  <1> DEFINE group == s.crypt.rolling_group_id
             o == process_outbound_message(p, s, s.submitted)
  <1>1. /\ s.enqueued \in Seq(Nat) /\ group \in Nat /\ s.submitted \in Nat
        /\ Len(s.enqueued) \in Nat
    BY Counts
  <1>2. CASE Perfect /\ (s.enqueued # <<>> \/ s.crypt.update_in_progress)
    <2> DEFINE t == enqueue_packet(s, s.submitted)
    <2>1. o = Outcome(t, NoPackets, None)
      BY <1>2 DEF process_outbound_message, Void
    <2>2. SoundState(t)
      <3>1. SoundOutcome(o)
        BY <1>1, ProcessOutbound
      <3> QED
        BY SMTT(30), <2>1, <3>1 DEF SoundOutcome, Outcome
    <2>3. /\ t.enqueued = Append(s.enqueued, s.submitted) /\ t.submitted = s.submitted
          /\ t.inbox = s.inbox /\ t.crypt = s.crypt /\ t.session = s.session /\ t.sender = s.sender
      BY DEF SoundState, StateType, enqueue_packet
    <2> HIDE DEF t
    <2>4. /\ \A i \in 1 .. Len(t.enqueued) : t.enqueued[i] = group + i
          /\ group + Len(t.enqueued) = s.submitted
      <3> DEFINE m == s.submitted
                 q == s.enqueued
      <3>1. /\ m \in Nat /\ group \in Nat /\ q \in Seq(Nat)
            /\ group + Len(q) + 1 = m /\ From(q, group)
        BY <1>1 DEF From
      <3> HIDE DEF m, q, group
      <3>2. From(Append(q, m), group) /\ group + Len(Append(q, m)) = m
        BY <3>1, QueueAppend
      <3> QED
        BY <2>3, <3>2 DEF m, q, From
    <2>5. t.submitted \in Nat /\ t.crypt.rolling_group_id = group
      BY <1>1, <2>3
    <2> HIDE DEF group
    <2>6. Queued(t)
      BY SMTT(30), <1>1, <1>2, <2>3, <2>4, <2>5 DEF Queued
    <2>7. OrderedState(t, sent)
      BY <2>2, <2>3, <2>6 DEF OrderedState
    <2>8. o.state = t /\ o.out = NoPackets /\ o.reply = None
      BY SMTT(30), <2>1 DEF Outcome
    <2>9. \A path \in Paths : AllNumbered(NoPackets[path], group)
      BY NoMessages
    <2> HIDE DEF o
    <2>10. OrderedOutcome(s, o, sent)
      BY SMTT(30), <1>1, <2>3, <2>5, <2>7, <2>8, <2>9 DEF OrderedOutcome, group
    <2> QED
      BY <2>10 DEF o
  <1>3. CASE ~(Perfect /\ (s.enqueued # <<>> \/ s.crypt.update_in_progress))
    <2>1. o = transmit_message(p, s, NoPackets, s.submitted, FALSE)
      BY <1>3 DEF process_outbound_message
    <2> DEFINE b == FALSE
    <2>2. Len(s.enqueued) = 0
      BY SMTT(30), <1>1, <1>3
    <2>3. InTurn(s, s.submitted, FALSE)
      BY SMTT(30), <1>1, <1>3, <2>2 DEF InTurn
    <2>4. b \in BOOLEAN /\ InTurn(s, s.submitted, b)
      BY <2>3
    <2> HIDE DEF b
    <2>5. OrderedOutcome(s, transmit_message(p, s, NoPackets, s.submitted, b), sent)
      BY <1>1, <2>4, TransmitOrdered, NoMessages, Streams
    <2> QED
      BY <2>1, <2>5 DEF b
  <1> QED
    BY <1>2, <1>3

\* Stored packets of an end that has not sent all of its ids do not wrap around.
LEMMA ScanStays ==
    ASSUME NEW map \in SUBSET [id : Id, packet : Nat], NEW sent \in Id, NEW group \in Id, group < sent,
           \A e \in map : e.packet = e.id + 1 /\ e.id < sent
    PROVE  LET n == scan_length(map, group)
           IN  /\ n \in Nat /\ group + n < sent
               /\ \A k \in 0 .. n : id_plus(group, k) = group + k
               /\ \A k \in 1 .. n : packet_of(map, id_plus(group, k)) = group + k + 1
  <1> DEFINE n == scan_length(map, group)
  <1>1. n \in 0 .. MaxId /\ \A k \in 1 .. n : stored(map, id_plus(group, k))
    BY ScanLength
  <1>2. \A k \in 1 .. n : id_plus(group, k) < sent
    BY <1>1 DEF stored
  <1> HIDE DEF n
  <1>3. group + n <= MaxId
    <2> SUFFICES ASSUME group + n > MaxId PROVE FALSE
      BY SMTT(30), <1>1, OrderedChannelAssumption DEF Id
    <2>1. MaxId - group \in 1 .. n
      BY SMTT(30), <1>1, OrderedChannelAssumption DEF Id
    <2>2. id_plus(group, MaxId - group) = MaxId
      BY SMTT(30), OrderedChannelAssumption DEF Id, id_plus
    <2>3. MaxId < sent
      BY <1>2, <2>1, <2>2
    <2> QED
      BY SMTT(30), <2>3, OrderedChannelAssumption DEF Id
  <1>4. \A k \in 0 .. n : id_plus(group, k) = group + k
    BY SMTT(30), <1>1, <1>3, OrderedChannelAssumption DEF Id, id_plus
  <1>5. group + n < sent
    <2>1. CASE n = 0
      BY SMTT(30), <2>1 DEF Id
    <2>2. CASE n # 0
      <3>1. n \in 1 .. n /\ n \in 0 .. n
        BY SMTT(30), <1>1, <2>2
      <3> QED
        BY <1>2, <1>4, <3>1
    <2> QED
      BY <2>1, <2>2
  <1>6. ASSUME NEW k \in 1 .. n PROVE packet_of(map, id_plus(group, k)) = group + k + 1
    <2> DEFINE id == id_plus(group, k)
    <2>1. id = group + k
      BY SMTT(30), <1>4
    <2>2. \E e \in map : e.id = id
      BY <1>1 DEF stored
    <2> HIDE DEF id
    <2>3. packet_of(map, id) = id + 1
      BY <2>2 DEF packet_of
    <2> QED
      BY <2>1, <2>3 DEF id
  <1> QED
    BY SMTT(30), <1>1, <1>4, <1>5, <1>6 DEF n

\* The next id an end expects is the number of messages it handed on.
LEMMA Expected ==
    ASSUME NEW ch \in ChannelType(Nat), NEW sent \in Id, Received(ch, sent)
    PROVE  next_expected(ch) = Len(ch.sink) /\ Len(ch.sink) \in Nat
  <1> DEFINE n == Len(ch.sink)
  <1>1. n \in Nat /\ n <= sent /\ ch.last = IF n = 0 THEN None ELSE n - 1
    BY SMTT(30) DEF ChannelType, Received
  <1> HIDE DEF n
  <1>2. CASE n = 0
    BY <1>1, <1>2 DEF next_expected, n
  <1>3. CASE n # 0
    <2>1. ch.last = n - 1 /\ n - 1 \in Nat /\ n <= MaxId
      BY SMTT(30), <1>1, <1>3, OrderedChannelAssumption DEF Id
    <2>2. ch.last # None
      BY <2>1, NoneAssumption
    <2>3. id_plus(n - 1, 1) = n
      BY SMTT(30), <1>1, <2>1, OrderedChannelAssumption DEF id_plus
    <2> QED
      BY <1>1, <2>1, <2>2, <2>3 DEF next_expected, n
  <1> QED
    BY <1>2, <1>3

\* The length of two lists of messages.
LEMMA Joined ==
    ASSUME NEW q \in Seq(Nat), NEW r \in Seq(Nat)
    PROVE  Len(q) \in Nat /\ Len(r) \in Nat /\ Len(q \o r) = Len(q) + Len(r)
  BY SMTT(30)

\* The first messages, the one after them, and the ones that follow it.
LEMMA Continued ==
    ASSUME NEW q \in Seq(Nat), NEW r \in Seq(Nat), NEW g \in Nat, Len(q) = g,
           \A i \in 1 .. Len(q) : q[i] = i, \A k \in 1 .. Len(r) : r[k] = g + k + 1
    PROVE  /\ Len(Append(q, g + 1) \o r) = g + 1 + Len(r)
           /\ \A i \in 1 .. Len(Append(q, g + 1) \o r) : (Append(q, g + 1) \o r)[i] = i
  <1> DEFINE a == Append(q, g + 1)
  <1>1. /\ a \in Seq(Nat) /\ Len(a) = g + 1 /\ \A i \in 1 .. g + 1 : a[i] = i
    BY SMTT(30)
  <1> HIDE DEF a
  <1>2. Len(a \o r) = g + 1 + Len(r) /\ Len(r) \in Nat
    <2>1. a \in Seq(Nat) /\ Len(a) = g + 1
      BY <1>1
    <2>2. Len(r) \in Nat /\ Len(a \o r) = Len(a) + Len(r)
      BY <2>1, Joined
    <2> QED
      BY <2>1, <2>2
  <1>3. ASSUME NEW i \in 1 .. g + 1 + Len(r) PROVE (a \o r)[i] = i
    <2>1. CASE i <= g + 1
      BY SMTT(30), <1>1, <2>1
    <2>2. CASE i > g + 1
      <3>1. i - (g + 1) \in 1 .. Len(r) /\ (a \o r)[i] = r[i - (g + 1)]
        BY SMTT(30), <1>1, <1>2, <2>2
      <3>2. r[i - (g + 1)] = g + (i - (g + 1)) + 1
        BY <3>1
      <3> QED
        BY SMTT(30), <3>1, <3>2
    <2>3. i <= g + 1 \/ i > g + 1
      BY SMTT(30), <1>2
    <2> QED
      BY <2>1, <2>2, <2>3
  <1> QED
    BY <1>2, <1>3 DEF a

\* The inbox takes a numbered message in its place.
LEMMA ReceiveOrdered ==
    ASSUME NEW ch \in ChannelType(Nat), NEW sent \in Id, Received(ch, sent),
           NEW group \in Id, group < sent, NEW message \in Nat, message = group + 1
    PROVE  Received(on_packet_received(ch, group, message).channel, sent)
  <1> DEFINE new == on_packet_received(ch, group, message).channel
             len == Len(ch.sink)
  <1>1. next_expected(ch) = len /\ len \in Nat
    BY Expected
  <1>2. /\ ch.map \in SUBSET [id : Id, packet : Nat] /\ ch.sink \in Seq(Nat)
        /\ \A e \in ch.map : e.packet = e.id + 1 /\ e.id < sent
        /\ \A i \in 1 .. len : ch.sink[i] = i
    BY DEF ChannelType, Received
  <1>3. CASE len # group
    <2>1. new = store_received_packet(ch, group, message)
      BY <1>1, <1>3 DEF on_packet_received
    <2>2. /\ new.map = {e \in ch.map : e.id # group} \cup {[id |-> group, packet |-> message]}
          /\ new.sink = ch.sink /\ new.last = ch.last
      BY SMTT(30), <2>1, StoreReceivedPacket
    <2> HIDE DEF new
    <2>3. \A e \in new.map : e.packet = e.id + 1 /\ e.id < sent
      BY SMTT(30), <1>2, <2>2
    <2> QED
      BY <2>2, <2>3 DEF Received, new
  <1>4. CASE len = group /\ ~ch.open
    BY <1>1, <1>4 DEF on_packet_received, send_then_scan
  <1>5. CASE len = group /\ ch.open
    <2> DEFINE n    == scan_length(ch.map, group)
               scan == [k \in 1 .. n |-> packet_of(ch.map, id_plus(group, k))]
    <2>1. new = send_then_scan(ch, group, message).channel
      BY <1>1, <1>5 DEF on_packet_received
    <2>2. Scanned(Nat, ch, group, message)
      BY <1>5, SendThenScan
    <2>3. /\ scan \in Seq(Nat) /\ Len(scan) = n
          /\ new.sink = Append(ch.sink, message) \o scan
          /\ new.map = {e \in ch.map : \A k \in 1 .. n : e.id # id_plus(group, k)}
          /\ new.last = id_plus(group, n)
      BY <2>1, <2>2 DEF Scanned
    <2>4. /\ n \in Nat /\ group + n < sent
          /\ \A k \in 0 .. n : id_plus(group, k) = group + k
          /\ \A k \in 1 .. n : packet_of(ch.map, id_plus(group, k)) = group + k + 1
      <3> DEFINE map == ch.map
      <3>1. /\ map \in SUBSET [id : Id, packet : Nat]
            /\ \A e \in map : e.packet = e.id + 1 /\ e.id < sent
        BY <1>2
      <3> HIDE DEF map
      <3>2. LET m == scan_length(map, group)
            IN  /\ m \in Nat /\ group + m < sent
                /\ \A k \in 0 .. m : id_plus(group, k) = group + k
                /\ \A k \in 1 .. m : packet_of(map, id_plus(group, k)) = group + k + 1
        BY <3>1, ScanStays
      <3> QED
        BY <3>2 DEF map
    <2>5. \A k \in 1 .. n : scan[k] = group + k + 1
      BY <2>4
    <2> HIDE DEF new, n, scan
    <2>6. Len(new.sink) = group + 1 + n /\ \A k \in 1 .. Len(new.sink) : new.sink[k] = k
      <3> DEFINE sink == ch.sink
      <3>1. /\ sink \in Seq(Nat) /\ group = Len(sink) /\ group \in Nat /\ message = group + 1
            /\ \A i \in 1 .. Len(sink) : sink[i] = i
            /\ \A k \in 1 .. Len(scan) : scan[k] = group + k + 1
        BY <1>1, <1>2, <1>5, <2>3, <2>5
      <3>2. new.sink = Append(sink, group + 1) \o scan
        BY <2>3
      <3> HIDE DEF sink, len
      <3>3. /\ Len(Append(sink, group + 1) \o scan) = group + 1 + Len(scan)
            /\ \A i \in 1 .. Len(Append(sink, group + 1) \o scan) :
                    (Append(sink, group + 1) \o scan)[i] = i
        BY <2>3, <3>1, Continued
      <3> QED
        BY <2>3, <3>2, <3>3
    <2>7. \A e \in new.map : e.packet = e.id + 1 /\ e.id < sent
      BY <1>2, <2>3
    <2>8. new.last = group + n /\ group \in Nat
      BY SMTT(30), <2>3, <2>4 DEF Id
    <2>9. Len(new.sink) # 0 /\ Len(new.sink) - 1 = group + n /\ Len(new.sink) <= sent
      BY SMTT(30), <2>4, <2>6, <2>8 DEF Id
    <2> QED
      BY <2>6, <2>7, <2>8, <2>9 DEF Received, new
  <1> QED
    BY <1>3, <1>4, <1>5

\* More messages sent take nothing away from what has arrived.
LEMMA ReceivedMore ==
    ASSUME NEW ch \in ChannelType(Nat), NEW sent \in Nat, NEW more \in Nat, sent <= more,
           Received(ch, sent)
    PROVE  Received(ch, more)
  <1>1. \A e \in ch.map : e.id \in Nat
    BY SMTT(30) DEF ChannelType, Id
  <1>2. Len(ch.sink) \in Nat
    BY SMTT(30) DEF ChannelType
  <1> QED
    BY SMTT(30), <1>1, <1>2 DEF Received

\* A handler that leaves the messages alone, whatever else it does.
LEMMA QuietHandler ==
    ASSUME NEW s, NEW sent \in Nat, OrderedState(s, sent), NEW o, SoundOutcome(o),
           SameMessages(s, o.state),
           \A path \in Paths : AllNumbered(o.out[path], s.crypt.rolling_group_id),
           o.reply # None => o.reply.type # "GROUP_HEADER"
    PROVE  OrderedOutcome(s, o, sent)
  <1>1. OrderedState(o.state, sent)
    BY SameOrdered DEF SoundOutcome
  <1>2. s.crypt.rolling_group_id \in Nat
    BY Counts DEF OrderedState
  <1> QED
    BY SMTT(30), <1>1, <1>2 DEF OrderedOutcome, SameMessages

\* A handler that leaves the messages alone before it polls.
LEMMA QuietBefore ==
    ASSUME NEW s, NEW t, NEW o, NEW sent, SameMessages(s, t), OrderedOutcome(t, o, sent)
    PROVE  OrderedOutcome(s, o, sent)
  BY DEF OrderedOutcome, SameMessages

\* Another container that has sent as many messages.
LEMMA SameContainer ==
    ASSUME NEW s, SoundState(s), NEW c, c.rolling_group_id = s.crypt.rolling_group_id
    PROVE  /\ SameMessages(s, [s EXCEPT !.crypt = c])
           /\ [s EXCEPT !.crypt = c].session = s.session
  BY DEF SoundState, StateType, SameMessages

\* Reporting the end of an update.
LEMMA CompleteSame ==
    ASSUME NEW s, SoundState(s)
    PROVE  SameMessages(s, on_complete(s))
  BY DEF SoundState, StateType, SameMessages, on_complete

\* A rekey request leaves the messages alone.
LEMMA InitiateOrdered ==
    ASSUME NEW p \in Peers, NEW s, NEW sent \in Nat, OrderedState(s, sent)
    PROVE  OrderedOutcome(s, initiate_drill_update(p, s), sent)
  <1> DEFINE hr    == latest_usable(s.crypt)
             fresh == <<p, s.kexes + 1>>
             next  == get_next_constructor(s.crypt, FALSE, fresh)
             o     == initiate_drill_update(p, s)
             group == s.crypt.rolling_group_id
  <1>1. SoundState(s) /\ s \in StateType
    BY DEF OrderedState, SoundState
  <1>2. SoundOutcome(o)
    BY <1>1, InitiateDrillUpdate
  <1>3. /\ next.crypt.rolling_group_id = group /\ next.constructor \in Kex \cup {None}
        /\ hr = None => next.constructor = None
    <2> DEFINE force == FALSE
               n     == get_next_constructor(s.crypt, force, fresh)
    <2>1. force \in BOOLEAN /\ fresh \in Kex /\ Sound(s.crypt, Kex, Id)
      BY SMTT(30), <1>1, StateFields, Streams
    <2> HIDE DEF force, fresh
    <2>2. /\ n.crypt.rolling_group_id = group /\ n.constructor \in Kex \cup {None}
          /\ latest_usable(s.crypt) = None => n.constructor = None
      BY SMTT(30), <2>1, GetNextConstructor
    <2> QED
      BY <2>2 DEF force
  <1>4. CASE next.constructor = None
    <2> DEFINE t == [s EXCEPT !.crypt = next.crypt, !.answered = @ + 1]
    <2>1. o = Void(t)
      BY <1>4 DEF initiate_drill_update
    <2> HIDE DEF next
    <2>2. SameMessages(s, t)
      BY <1>1, <1>3 DEF StateType, SameMessages
    <2> HIDE DEF t
    <2>3. o.state = t /\ o.out = NoPackets /\ o.reply = None
      BY SMTT(30), <2>1 DEF Void, Outcome
    <2> HIDE DEF o
    <2>4. OrderedOutcome(s, o, sent)
      BY <1>2, <2>2, <2>3, NoMessages, QuietHandler
    <2> QED
      BY <2>4 DEF o
  <1>5. CASE next.constructor # None
    <2> DEFINE packet == Stage0(hr, next.constructor)
               t == [s EXCEPT !.crypt = next.crypt, !.kexes = @ + 1,
                              !.rekey = next.constructor, !.ticket = TRUE]
    <2>1. o = Outcome(t, Put(NoPackets, preferred, packet), None)
      BY <1>5 DEF initiate_drill_update
    <2>2. packet \in Packet /\ packet.type # "GROUP_HEADER"
      <3>1. Sound(s.crypt, Kex, Id)
        BY <1>1, StateFields
      <3>2. hr \in Ratchet(Kex) /\ next.constructor \in Kex
        BY <1>3, <1>5, <3>1, LatestUsable
      <3> HIDE DEF hr, next
      <3> QED
        BY <3>2, PacketType DEF Stage0
    <2> HIDE DEF next, packet
    <2>3. SameMessages(s, t)
      BY <1>1, <1>3 DEF StateType, SameMessages
    <2> HIDE DEF t
    <2>4. o.state = t /\ o.out = Put(NoPackets, preferred, packet) /\ o.reply = None
      BY SMTT(30), <2>1 DEF Outcome
    <2> HIDE DEF o
    <2>5. \A path \in Paths : AllNumbered(o.out[path], group)
      BY <2>2, <2>4, NoMessages
    <2>6. OrderedOutcome(s, o, sent)
      BY <1>2, <2>3, <2>4, <2>5, QuietHandler
    <2> QED
      BY <2>6 DEF o
  <1> QED
    BY <1>4, <1>5

\* GROUP_HEADER: the message goes into the inbox, and is acknowledged.
LEMMA GroupHeaderOrdered ==
    ASSUME NEW p \in Peers, NEW s, NEW sent \in Id, OrderedState(s, sent),
           NEW packet \in Packet, packet.type = "GROUP_HEADER", Numbered(packet, sent)
    PROVE  OrderedOutcome(s, on_group_header(p, s, packet), sent)
  <1> DEFINE kem  == attempt_kem_as_bob(s.crypt, packet.transfer)
             recv == on_packet_received(s.inbox, packet.group, packet.message)
             new  == [s EXCEPT !.crypt = kem.crypt, !.inbox = recv.channel]
             o    == on_group_header(p, s, packet)
             group == s.crypt.rolling_group_id
  <1>1. SoundState(s) /\ s \in StateType /\ s.inbox \in ChannelType(Nat) /\ group \in Nat
        /\ Received(s.inbox, sent)
    BY Counts DEF OrderedState, SoundState
  <1>2. SoundOutcome(o)
    BY <1>1, OnGroupHeader
  <1>3. Received(recv.channel, sent)
    <2>1. packet.group \in Id /\ packet.message \in Nat
      BY PacketFields
    <2>2. packet.group < sent /\ packet.message = packet.group + 1
      BY DEF Numbered
    <2> QED
      BY <1>1, <2>1, <2>2, ReceiveOrdered
  <1>4. kem.crypt.rolling_group_id = group
    <2>1. Sound(s.crypt, Kex, Id)
      BY <1>1, StateFields
    <2> QED
      BY <2>1, GroupIdKept
  <1>5. /\ o.state = new /\ o.out = NoPackets
        /\ o.reply # None => o.reply.type = "GROUP_HEADER_ACK"
    BY DEF on_group_header, Outcome, GroupHeaderAck
  <1> HIDE DEF kem, recv
  <1>6. /\ new.crypt = kem.crypt /\ new.inbox = recv.channel /\ new.enqueued = s.enqueued
        /\ new.submitted = s.submitted /\ new.session = s.session /\ new.sender = s.sender
    BY <1>1 DEF StateType
  <1> HIDE DEF new, o
  <1>7. Queued(new)
    BY <1>4, <1>6 DEF OrderedState, Queued
  <1>8. OrderedState(o.state, sent)
    BY <1>2, <1>3, <1>5, <1>6, <1>7 DEF OrderedState, SoundOutcome
  <1>9. OrderedOutcome(s, o, sent)
    BY SMTT(30), <1>1, <1>4, <1>5, <1>6, <1>8, NoMessages DEF OrderedOutcome
  <1> QED
    BY <1>9 DEF o

\* STAGE0
LEMMA Stage0Ordered ==
    ASSUME NEW p \in Peers, NEW s, NEW sent \in Nat, OrderedState(s, sent),
           NEW packet \in Packet, packet.type = "STAGE0"
    PROVE  OrderedOutcome(s, on_stage0(p, s, packet), sent)
  <1> DEFINE kem == attempt_kem_as_bob(s.crypt, packet.transfer)
             o   == on_stage0(p, s, packet)
  <1>1. SoundState(s) /\ Sound(s.crypt, Kex, Id)
    BY StateFields DEF OrderedState
  <1>2. SoundOutcome(o)
    BY <1>1, OnStage0
  <1>3. kem.crypt.rolling_group_id = s.crypt.rolling_group_id
    BY <1>1, GroupIdKept
  <1>4. /\ o.state = [s EXCEPT !.crypt = kem.crypt] /\ o.out = NoPackets
        /\ o.reply.type = "STAGE1"
    BY DEF on_stage0, Outcome, Stage1
  <1> HIDE DEF kem, o
  <1>5. SameMessages(s, o.state)
    BY SMTT(30), <1>1, <1>3, <1>4, SameContainer
  <1>6. OrderedOutcome(s, o, sent)
    BY <1>2, <1>4, <1>5, NoMessages, QuietHandler
  <1> QED
    BY <1>6 DEF o

\* GROUP_HEADER_ACK: the container finishes the exchange, then the queue is polled.
LEMMA GroupHeaderAckOrdered ==
    ASSUME NEW p \in Peers, NEW s, NEW sent \in Nat, OrderedState(s, sent), s.session = "Connected",
           NEW packet \in Packet, packet.type = "GROUP_HEADER_ACK"
    PROVE  OrderedOutcome(s, on_group_header_ack(p, s, packet), sent)
  <1> DEFINE entry == CHOOSE t \in s.transmitters : t.group = packet.group
             kem   == attempt_kem_as_alice_finish(s.crypt, packet.status, entry.constructor)
             rest  == (s.transmitters \ {entry})
                      \cup (IF kem.ok THEN {} ELSE {[entry EXCEPT !.constructor = None]})
             new   == [s EXCEPT !.crypt = kem.crypt, !.transmitters = rest]
             truncate == Truncate(packet.ratchet, packet.status.old_version)
             out   == IF packet.status.kind = "Some" THEN Put(NoPackets, "primary", truncate)
                      ELSE NoPackets
             o     == on_group_header_ack(p, s, packet)
             T     == [group : Id, constructor : Kex \cup {None}]
  <1>1. /\ SoundState(s) /\ s \in StateType /\ Sound(s.crypt, Kex, Id)
        /\ s.transmitters \in SUBSET T /\ s.crypt.rolling_group_id \in Nat
    BY StateFields, Counts DEF OrderedState, SoundState
  <1>2. SoundOutcome(o)
    BY <1>1, OnGroupHeaderAck
  <1>3. packet.ratchet \in Ratchet(Kex) /\ packet.status \in KemTransferStatus(Kex)
    BY PacketFields
  <1>4. CASE \A t \in s.transmitters : t.group # packet.group
    <2> DEFINE t == [s EXCEPT !.session = "Ended"]
    <2>1. o = Void(t)
      BY <1>4 DEF on_group_header_ack
    <2>2. SameMessages(s, t)
      BY <1>1 DEF StateType, SameMessages
    <2> HIDE DEF t
    <2>3. o.state = t /\ o.out = NoPackets /\ o.reply = None
      BY SMTT(30), <2>1 DEF Void, Outcome
    <2> HIDE DEF o
    <2>4. OrderedOutcome(s, o, sent)
      BY <1>2, <2>2, <2>3, NoMessages, QuietHandler
    <2> QED
      BY <2>4 DEF o
  <1>5. CASE \E t \in s.transmitters : t.group = packet.group
    <2>1. entry \in T
      BY <1>1, <1>5
    <2>2. /\ entry.constructor \in Kex \cup {None}
          /\ [entry EXCEPT !.constructor = None] \in T
      <3> HIDE DEF entry
      <3> QED
        BY <2>1
    <2>3. kem.ok \in BOOLEAN /\ Sound(kem.crypt, Kex, Id)
      BY <1>1, <1>3, <2>2, AttemptAsAlice
    <2>4. kem.crypt.rolling_group_id = s.crypt.rolling_group_id
      BY SMTT(30), <1>1, <1>3, <2>2, FinishKeepsGroupId
    <2>5. o = IF BasePerfect THEN poll_next_enqueued(p, new, out) ELSE Outcome(new, out, None)
      BY <1>5 DEF on_group_header_ack, on_group_header_ack_received
    <2> HIDE DEF kem, entry
    <2>6. rest \in SUBSET T
      BY <1>1, <2>2
    <2> HIDE DEF rest
    <2>7. SoundState(new)
      BY <1>1, <2>3, <2>6 DEF SoundState, StateType, Sound
    <2>8. SameMessages(s, new) /\ new.session = "Connected"
      BY <1>1, <2>4 DEF StateType, SameMessages
    <2>9. /\ out \in [Paths -> Seq(Packet)]
          /\ \A path \in Paths : AllNumbered(out[path], s.crypt.rolling_group_id)
      <3>1. packet.status.old_version \in Version \cup {None}
        BY <1>3 DEF KemTransferStatus
      <3>2. truncate \in Packet
        BY <1>3, <3>1, PacketType
      <3>3. truncate.type # "GROUP_HEADER"
        BY DEF Truncate
      <3> HIDE DEF truncate
      <3> QED
        BY <3>2, <3>3, Streams, NoMessages
    <2> HIDE DEF new, out, o
    <2>10. CASE BasePerfect
      <3>1. OrderedState(new, sent)
        BY <2>7, <2>8, SameOrdered
      <3>2. \A path \in Paths : AllNumbered(out[path], new.crypt.rolling_group_id)
        BY <2>8, <2>9 DEF SameMessages
      <3>3. OrderedOutcome(new, poll_next_enqueued(p, new, out), sent)
        BY <2>8, <2>9, <3>1, <3>2, PollOrdered
      <3>4. OrderedOutcome(s, poll_next_enqueued(p, new, out), sent)
        BY <2>8, <3>3, QuietBefore
      <3> QED
        BY <2>5, <2>10, <3>4 DEF o
    <2>11. CASE ~BasePerfect
      <3>1. OrderedOutcome(s, Outcome(new, out, None), sent)
        BY <2>7, <2>8, <2>9, QuietOutcome
      <3> QED
        BY <2>5, <2>11, <3>1 DEF o
    <2> QED
      BY <2>10, <2>11
  <1> QED
    BY <1>4, <1>5

\* STAGE1
LEMMA Stage1Ordered ==
    ASSUME NEW p \in Peers, NEW s, NEW sent \in Nat, OrderedState(s, sent),
           NEW packet \in Packet, packet.type = "STAGE1"
    PROVE  OrderedOutcome(s, on_stage1(p, s, packet), sent)
  <1> DEFINE kem   == attempt_kem_as_alice_finish(s.crypt, packet.status, s.rekey)
             hr    == IF kem.ratchet = None THEN packet.ratchet ELSE kem.ratchet
             taken == [s EXCEPT !.rekey = None, !.crypt = kem.crypt]
             reply == Truncate(hr, packet.status.old_version)
             o     == on_stage1(p, s, packet)
  <1>1. /\ SoundState(s) /\ s \in StateType /\ Sound(s.crypt, Kex, Id)
        /\ s.rekey \in Kex \cup {None}
    BY StateFields DEF OrderedState, SoundState
  <1>2. SoundOutcome(o)
    BY <1>1, OnStage1
  <1>3. packet.status \in KemTransferStatus(Kex)
    BY PacketFields
  <1>4. Sound(kem.crypt, Kex, Id) /\ kem.crypt.rolling_group_id = s.crypt.rolling_group_id
    BY <1>1, <1>3, AttemptAsAlice, FinishKeepsGroupId
  <1>5. \/ o = Void(s) \/ o = Void(taken)
        \/ o = Outcome(taken, NoPackets, reply) \/ o = Outcome(on_complete(taken), NoPackets, reply)
    BY DEF on_stage1
  <1>6. reply.type = "TRUNCATE"
    BY DEF Truncate
  <1> HIDE DEF kem, reply
  <1>7. SoundState(taken)
    BY <1>1, <1>4 DEF SoundState, StateType, Sound
  <1>8. SameMessages(s, taken)
    BY <1>1, <1>4 DEF StateType, SameMessages
  <1> HIDE DEF taken
  <1>9. SameMessages(taken, on_complete(taken))
    BY <1>7, CompleteSame
  <1>10. SameMessages(s, s) /\ SameMessages(s, on_complete(taken))
    BY <1>8, <1>9 DEF SameMessages
  <1>11. /\ o.state \in {s, taken, on_complete(taken)} /\ o.out = NoPackets
         /\ o.reply \in {None, reply}
    BY SMTT(30), <1>5 DEF Void, Outcome
  <1> HIDE DEF o
  <1>12. OrderedOutcome(s, o, sent)
    BY <1>2, <1>6, <1>8, <1>10, <1>11, NoMessages, QuietHandler
  <1> QED
    BY <1>12 DEF o

\* TRUNCATE
LEMMA TruncateOrdered ==
    ASSUME NEW p \in Peers, NEW s, NEW sent \in Nat, OrderedState(s, sent), s.session = "Connected",
           NEW packet \in Packet, packet.type = "TRUNCATE"
    PROVE  OrderedOutcome(s, on_truncate(p, s, packet), sent)
  <1> DEFINE version == packet.truncate_version
             dropped == IF version = None THEN s.crypt
                        ELSE deregister(s.crypt, version).crypt
             posted  == post_alice_stage1_or_post_stage1_bob(dropped)
             crypt   == maybe_unlock(posted, FALSE)
             new     == [s EXCEPT !.crypt = crypt]
             ack     == TruncateAck(packet.ratchet, version)
             out     == IF version = None THEN NoPackets ELSE Put(NoPackets, "primary", ack)
             o       == on_truncate(p, s, packet)
             group   == s.crypt.rolling_group_id
  <1>1. SoundState(s) /\ Sound(s.crypt, Kex, Id)
    BY StateFields DEF OrderedState
  <1>2. packet.ratchet \in Ratchet(Kex) /\ version \in Version \cup {None}
    BY PacketFields
  <1>3. o = Void(new) \/ o = poll_next_enqueued(p, new, out) \/ o = Outcome(new, out, None)
    BY DEF on_truncate
  <1>4. Sound(dropped, Kex, Id) /\ dropped.rolling_group_id = group
    BY <1>1, DeregisterContainer, GroupIdKept
  <1> HIDE DEF dropped
  <1>5. Sound(posted, Kex, Id) /\ posted.rolling_group_id = group
    BY <1>4, UnlockAndPost, GroupIdKept
  <1> HIDE DEF posted
  <1>6. Sound(crypt, Kex, Id) /\ crypt.rolling_group_id = group
    <2> DEFINE b == FALSE
    <2>1. b \in BOOLEAN
      OBVIOUS
    <2> HIDE DEF b
    <2>2. Sound(maybe_unlock(posted, b), Kex, Id) /\ maybe_unlock(posted, b).rolling_group_id = group
      BY <1>5, <2>1, UnlockAndPost, GroupIdKept
    <2> QED
      BY <2>2 DEF b
  <1> HIDE DEF crypt
  <1>7. SoundState(new) /\ SameMessages(s, new) /\ new.session = "Connected"
    BY <1>1, <1>6, WithContainer, SameContainer
  <1>8. out \in [Paths -> Seq(Packet)] /\ \A path \in Paths : AllNumbered(out[path], group)
    <2>1. version # None => ack \in Packet
      BY <1>2, PacketType
    <2>2. ack.type # "GROUP_HEADER"
      BY DEF TruncateAck
    <2> HIDE DEF ack
    <2> QED
      BY <2>1, <2>2, Streams, NoMessages
  <1> HIDE DEF new, out, o
  <1>9. OrderedState(new, sent)
    BY <1>7, SameOrdered
  <1>10. OrderedOutcome(new, poll_next_enqueued(p, new, out), sent)
    <2>1. \A path \in Paths : AllNumbered(out[path], new.crypt.rolling_group_id)
      BY <1>7, <1>8 DEF SameMessages
    <2> QED
      BY <1>7, <1>8, <1>9, <2>1, PollOrdered
  <1>11. OrderedOutcome(s, poll_next_enqueued(p, new, out), sent)
    BY <1>7, <1>10, QuietBefore
  <1>12. OrderedOutcome(s, Outcome(new, out, None), sent)
    BY <1>7, <1>8, QuietOutcome
  <1>13. OrderedOutcome(s, Outcome(new, NoPackets, None), sent)
    BY <1>7, NoMessages, QuietOutcome
  <1> QED
    BY <1>3, <1>11, <1>12, <1>13 DEF Void, o

\* TRUNCATE_ACK
LEMMA TruncateAckOrdered ==
    ASSUME NEW p \in Peers, NEW s, NEW sent \in Nat, OrderedState(s, sent), s.session = "Connected",
           NEW packet \in Packet, packet.type = "TRUNCATE_ACK"
    PROVE  OrderedOutcome(s, on_truncate_ack(p, s, packet), sent)
  <1> DEFINE crypt == maybe_unlock(s.crypt, TRUE)
             new   == [s EXCEPT !.crypt = crypt]
             done  == poll_next_enqueued(p, new, NoPackets)
             o     == on_truncate_ack(p, s, packet)
  <1>1. SoundState(s) /\ Sound(s.crypt, Kex, Id)
    BY StateFields DEF OrderedState
  <1>2. SoundOutcome(o)
    BY <1>1, OnTruncateAck
  <1>3. o = Void(new) \/ o = [done EXCEPT !.state = on_complete(@)]
    BY DEF on_truncate_ack
  <1>4. Sound(crypt, Kex, Id) /\ crypt.rolling_group_id = s.crypt.rolling_group_id
    <2> DEFINE b == TRUE
    <2>1. b \in BOOLEAN
      OBVIOUS
    <2> HIDE DEF b
    <2>2. /\ Sound(maybe_unlock(s.crypt, b), Kex, Id)
          /\ maybe_unlock(s.crypt, b).rolling_group_id = s.crypt.rolling_group_id
      BY <1>1, <2>1, UnlockAndPost, GroupIdKept
    <2> QED
      BY <2>2 DEF b
  <1> HIDE DEF crypt
  <1>5. SoundState(new) /\ SameMessages(s, new) /\ new.session = "Connected"
    BY <1>1, <1>4, WithContainer, SameContainer
  <1> HIDE DEF new
  <1>6. OrderedOutcome(s, done, sent)
    <2>1. OrderedState(new, sent)
      BY <1>5, SameOrdered
    <2>2. OrderedOutcome(new, done, sent)
      BY <1>5, <2>1, NoMessages, Streams, PollOrdered
    <2> QED
      BY <1>5, <2>2, QuietBefore
  <1>7. done = [state |-> done.state, out |-> done.out, reply |-> done.reply]
    BY DEF poll_next_enqueued, transmit_message, Outcome
  <1> HIDE DEF done
  <1>8. CASE o = [done EXCEPT !.state = on_complete(@)]
    <2>1. o.state = on_complete(done.state) /\ o.out = done.out /\ o.reply = done.reply
      BY <1>7, <1>8
    <2>2. OrderedState(done.state, sent) /\ SoundState(done.state)
      BY <1>6 DEF OrderedOutcome, OrderedState
    <2> HIDE DEF o
    <2>3. SameMessages(done.state, o.state)
      BY <2>1, <2>2, CompleteSame
    <2>4. OrderedState(o.state, sent)
      BY <1>2, <2>2, <2>3, SameOrdered DEF SoundOutcome
    <2>5. OrderedOutcome(s, o, sent)
      BY <1>6, <2>1, <2>3, <2>4 DEF OrderedOutcome, SameMessages
    <2> QED
      BY <2>5 DEF o
  <1>9. OrderedOutcome(s, Outcome(new, NoPackets, None), sent)
    BY <1>5, NoMessages, QuietOutcome
  <1> QED
    BY <1>3, <1>8, <1>9 DEF Void
-----------------------------------------------------------------------------
SentBy(p) == state[p].crypt.rolling_group_id

(***************************************************************************)
(* The messages of a session: those an end has queued, those on their way  *)
(* to it and those it has received.  Messages never travel as replies.     *)
(***************************************************************************)
OrderInv ==
    /\ SoundSession
    /\ \A p \in Peers :
        /\ OrderedState(state[p], SentBy(Peer(p)))
        /\ state[p].submitted <= MaxMessages[p]
        /\ \A path \in Paths :
            /\ AllNumbered(streams[p][path], SentBy(Peer(p)))
            /\ replies[p][path] # None => replies[p][path].type # "GROUP_HEADER"

\* The two ends.
LEMMA TwoPeers ==
    ASSUME NEW p \in Peers
    PROVE  Peer(p) \in Peers /\ Peer(p) # p /\ Peer(Peer(p)) = p /\ Peers = {p, Peer(p)}
  <1>1. PICK a, b \in Peers : a # b /\ Peers = {a, b}
    BY RatchetUpdateAssumption
  <1>2. \A q \in Peers : Peer(q) \in Peers /\ Peer(q) # q
    BY PeerType
  <1> QED
    BY <1>1, <1>2

\* What the invariant says of the numbers.
LEMMA SentCounts ==
    ASSUME OrderInv, NEW p \in Peers
    PROVE  /\ SentBy(p) \in Nat /\ SentBy(p) \in Id /\ SentBy(p) <= state[p].submitted
           /\ SoundState(state[p])
  <1>1. OrderedState(state[p], SentBy(Peer(p))) /\ SoundState(state[p])
    BY DEF OrderInv, OrderedState
  <1> DEFINE sent == SentBy(p)
             len  == Len(state[p].enqueued)
             n    == state[p].submitted
  <1>2. sent \in Nat /\ sent \in Id /\ len \in Nat /\ n \in Nat
    BY <1>1, Counts DEF SentBy
  <1>3. sent + len <= n
    BY <1>1 DEF OrderedState, Queued, SentBy
  <1> HIDE DEF sent, len, n
  <1>4. sent <= n
    BY SMTT(30), <1>2, <1>3
  <1> QED
    BY <1>1, <1>2, <1>4 DEF sent, n

(***************************************************************************)
(* A step in which one end takes an ordered state: what the other end has  *)
(* received is still a part of what was sent.                              *)
(***************************************************************************)
LEMMA OrderStep ==
    ASSUME OrderInv, SoundSession', NEW p \in Peers, NEW t, state' = [state EXCEPT ![p] = t],
           OrderedState(t, SentBy(Peer(p))), SentBy(p) <= t.crypt.rolling_group_id,
           t.submitted <= MaxMessages[p],
           \A path \in Paths :
                /\ AllNumbered(streams'[p][path], SentBy(Peer(p)))
                /\ AllNumbered(streams'[Peer(p)][path], t.crypt.rolling_group_id),
           \A q \in Peers, path \in Paths :
                replies'[q][path] # None => replies'[q][path].type # "GROUP_HEADER"
    PROVE  OrderInv'
  <1> DEFINE q == Peer(p)
             sent == SentBy(p)
             more == t.crypt.rolling_group_id
  <1>1. q \in Peers /\ q # p /\ Peer(q) = p /\ Peers = {p, q}
    BY TwoPeers
  <1>2. state'[p] = t /\ state'[q] = state[q]
    <2>1. state \in [Peers -> StateType]
      BY DEF OrderInv, SoundSession, TypeOK
    <2> QED
      BY <1>1, <2>1
  <1>3. SentBy(p)' = more /\ SentBy(q)' = SentBy(q)
    BY <1>2 DEF SentBy
  <1>4. sent \in Nat /\ more \in Nat /\ sent <= more
    BY SentCounts, Counts DEF OrderedState
  <1>5. OrderedState(state[q], sent) /\ state[q].submitted <= MaxMessages[q]
    BY <1>1 DEF OrderInv
  <1>6. OrderedState(state[q], more)
    <2>1. SoundState(state[q]) /\ Received(state[q].inbox, sent)
      BY <1>5 DEF OrderedState
    <2>2. state[q].inbox \in ChannelType(Nat)
      BY <2>1, Counts
    <2> HIDE DEF sent, more, q
    <2>3. Received(state[q].inbox, more)
      BY <1>4, <2>1, <2>2, ReceivedMore
    <2> QED
      BY <1>5, <2>3 DEF OrderedState
  <1>7. OrderedState(state'[p], SentBy(q)') /\ OrderedState(state'[q], SentBy(p)')
    BY <1>2, <1>3, <1>6
  <1>8. state'[p].submitted <= MaxMessages[p] /\ state'[q].submitted <= MaxMessages[q]
    BY <1>2, <1>5
  <1>9. \A path \in Paths : /\ AllNumbered(streams'[p][path], SentBy(q)')
                            /\ AllNumbered(streams'[q][path], SentBy(p)')
    BY <1>3
  <1> HIDE DEF q
  <1>10. ASSUME NEW r \in Peers
         PROVE  /\ OrderedState(state'[r], SentBy(Peer(r))') /\ state'[r].submitted <= MaxMessages[r]
                /\ \A path \in Paths : AllNumbered(streams'[r][path], SentBy(Peer(r))')
    <2>1. CASE r = p
      <3>1. Peer(r) = q
        BY <2>1 DEF q
      <3> QED
        BY <1>7, <1>8, <1>9, <2>1, <3>1
    <2>2. CASE r = q
      BY <1>1, <1>7, <1>8, <1>9, <2>2
    <2> QED
      BY <1>1, <2>1, <2>2
  <1> QED
    BY <1>10 DEF OrderInv

\* A step of a task other than a stream reader.
LEMMA PerformOrder ==
    ASSUME OrderInv, NEW p \in Peers, NEW s, NEW o, SoundOutcome(o),
           OrderedOutcome(s, o, SentBy(Peer(p))),
           s.crypt.rolling_group_id = SentBy(p), s.submitted <= MaxMessages[p], Perform(p, o)
    PROVE  OrderInv'
  <1> DEFINE q == Peer(p)
             more == o.state.crypt.rolling_group_id
  <1>1. SoundSession /\ SoundSession'
    BY PerformSound DEF OrderInv
  <1>2. q \in Peers /\ q # p /\ Peer(q) = p
    BY TwoPeers
  <1>3. /\ streams \in [Peers -> [Paths -> Seq(Packet)]]
        /\ replies' = replies /\ state' = [state EXCEPT ![p] = o.state]
        /\ streams' = [streams EXCEPT ![q] = Extended(@, o.out)]
    BY <1>1 DEF SoundSession, TypeOK, Perform
  <1>4. /\ OrderedState(o.state, SentBy(q)) /\ SentBy(p) <= more
        /\ o.state.submitted <= MaxMessages[p]
        /\ \A path \in Paths : AllNumbered(o.out[path], more)
    BY DEF OrderedOutcome
  <1>5. SentBy(p) \in Nat /\ more \in Nat
    BY <1>4, SentCounts, Counts DEF OrderedState
  <1> HIDE DEF q
  <1>6. ASSUME NEW path \in Paths
        PROVE  /\ AllNumbered(streams'[p][path], SentBy(q))
               /\ AllNumbered(streams'[q][path], more)
    <2> DEFINE c == streams[q][path]
               d == o.out[path]
               sent == SentBy(p)
    <2>1. streams'[p][path] = streams[p][path] /\ streams'[q][path] = c \o d
      BY <1>2, <1>3 DEF Extended
    <2>2. AllNumbered(streams[p][path], SentBy(q)) /\ AllNumbered(c, sent)
      BY <1>2 DEF OrderInv, q
    <2>3. c \in Seq(Packet) /\ d \in Seq(Packet) /\ AllNumbered(d, more)
      BY <1>2, <1>3, <1>4 DEF SoundOutcome
    <2> HIDE DEF c, d, sent, more
    <2>4. AllNumbered(c, more)
      BY <1>4, <1>5, <2>2, <2>3, NumberedStreams DEF sent
    <2>5. AllNumbered(c \o d, more)
      BY <1>5, <2>3, <2>4, NumberedStreams
    <2> QED
      BY <2>1, <2>2, <2>5
  <1>7. \A r \in Peers, path \in Paths :
            replies'[r][path] # None => replies'[r][path].type # "GROUP_HEADER"
    BY <1>3 DEF OrderInv
  <1> QED
    BY <1>1, <1>3, <1>4, <1>6, <1>7, OrderStep DEF q

\* Reading a packet.
LEMMA AppliedOrder ==
    ASSUME OrderInv, NEW p \in Peers, NEW path \in Paths, streams[p][path] # <<>>,
           NEW o, SoundOutcome(o), OrderedOutcome(state[p], o, SentBy(Peer(p))), Applied(p, path, o)
    PROVE  OrderInv'
  <1> DEFINE q == Peer(p)
             more == o.state.crypt.rolling_group_id
             out == IF o.reply = None \/ MultiThreaded THEN o.out ELSE Put(o.out, path, o.reply)
  <1>1. SoundSession /\ SoundSession'
    BY AppliedSound DEF OrderInv
  <1>2. q \in Peers /\ q # p /\ Peer(q) = p
    BY TwoPeers
  <1>3. /\ streams \in [Peers -> [Paths -> Seq(Packet)]]
        /\ replies \in [Peers -> [Paths -> Packet \cup {None}]]
    BY <1>1 DEF SoundSession, TypeOK
  <1>4. /\ state' = [state EXCEPT ![p] = o.state]
        /\ replies' = IF MultiThreaded THEN [replies EXCEPT ![p][path] = o.reply] ELSE replies
        /\ \A x \in Paths : /\ streams'[q][x] = streams[q][x] \o out[x]
                            /\ streams'[p][x] = IF x = path THEN Tail(streams[p][x]) ELSE streams[p][x]
    <2>1. streams' = [streams EXCEPT ![p][path] = Tail(@), ![q] = Extended(@, out)]
      BY DEF Applied
    <2> HIDE DEF q, out
    <2>2. streams'[q] = Extended(streams[q], out)
      BY <1>2, <1>3, <2>1
    <2>3. streams'[p] = [streams[p] EXCEPT ![path] = Tail(@)]
      BY <1>2, <1>3, <2>1
    <2>4. \A x \in Paths : streams'[q][x] = streams[q][x] \o out[x]
      BY <2>2 DEF Extended
    <2>5. \A x \in Paths : streams'[p][x] = IF x = path THEN Tail(streams[p][x]) ELSE streams[p][x]
      BY <1>3, <2>3
    <2> QED
      BY <2>4, <2>5 DEF Applied
  <1>5. /\ OrderedState(o.state, SentBy(q)) /\ SentBy(p) <= more
        /\ o.state.submitted <= MaxMessages[p]
        /\ \A x \in Paths : AllNumbered(o.out[x], more)
        /\ o.reply # None => o.reply.type # "GROUP_HEADER"
    <2>1. state[p].submitted <= MaxMessages[p]
      BY DEF OrderInv
    <2> QED
      BY <2>1 DEF OrderedOutcome, SentBy
  <1>6. SentBy(p) \in Nat /\ SentBy(q) \in Nat /\ more \in Nat
    BY <1>2, <1>5, SentCounts, Counts DEF OrderedState
  <1>7. out \in [Paths -> Seq(Packet)] /\ \A x \in Paths : AllNumbered(out[x], more)
    <2>1. o.out \in [Paths -> Seq(Packet)] /\ o.reply \in Packet \cup {None}
      BY DEF SoundOutcome
    <2>2. CASE o.reply = None \/ MultiThreaded
      BY <1>5, <2>1, <2>2
    <2>3. CASE ~(o.reply = None \/ MultiThreaded)
      <3>1. out = Put(o.out, path, o.reply) /\ o.reply \in Packet /\ Numbered(o.reply, more)
        BY <1>5, <2>1, <2>3 DEF Numbered
      <3>2. out \in [Paths -> Seq(Packet)]
        BY <2>1, <3>1, Streams
      <3> HIDE DEF more
      <3>3. ASSUME NEW x \in Paths PROVE AllNumbered(out[x], more)
        <4> DEFINE c == o.out[x]
                   packet == o.reply
        <4>1. c \in Seq(Packet) /\ packet \in Packet /\ AllNumbered(c, more) /\ Numbered(packet, more)
          BY <1>5, <2>1, <3>1
        <4>2. out[x] = IF x = path THEN Append(c, packet) ELSE c
          BY <2>1, <3>1 DEF Put
        <4> HIDE DEF c, packet, out
        <4>3. AllNumbered(Append(c, packet), more)
          BY <1>6, <4>1, NumberedStreams
        <4> QED
          BY <4>1, <4>2, <4>3
      <3> QED
        BY <3>2, <3>3
    <2> QED
      BY <2>2, <2>3
  <1> HIDE DEF q, out
  <1>8. ASSUME NEW x \in Paths
        PROVE  /\ AllNumbered(streams'[p][x], SentBy(q))
               /\ AllNumbered(streams'[q][x], more)
    <2> DEFINE c == streams[q][x]
               d == out[x]
               e == streams[p][x]
               sent == SentBy(p)
               theirs == SentBy(q)
    <2>1. /\ AllNumbered(e, theirs) /\ AllNumbered(c, sent)
      BY <1>2 DEF OrderInv, q
    <2>2. c \in Seq(Packet) /\ d \in Seq(Packet) /\ e \in Seq(Packet) /\ AllNumbered(d, more)
      BY <1>2, <1>3, <1>7
    <2>3. streams'[q][x] = c \o d /\ streams'[p][x] = IF x = path THEN Tail(e) ELSE e
      BY <1>4
    <2>4. x = path => e # <<>>
      OBVIOUS
    <2>5. sent \in Nat /\ theirs \in Nat /\ sent <= more
      BY <1>5, <1>6
    <2> HIDE DEF c, d, e, sent, theirs, more
    <2>6. x = path => AllNumbered(Tail(e), theirs)
      BY <2>1, <2>2, <2>4, <2>5, NumberedStreams
    <2>7. AllNumbered(c, more)
      BY <1>6, <2>1, <2>2, <2>5, NumberedStreams
    <2>8. AllNumbered(c \o d, more)
      BY <1>6, <2>2, <2>7, NumberedStreams
    <2> QED
      BY <2>1, <2>3, <2>6, <2>8 DEF theirs
  <1>9. \A r \in Peers, x \in Paths :
            replies'[r][x] # None => replies'[r][x].type # "GROUP_HEADER"
    <2>1. \A r \in Peers, x \in Paths :
            replies[r][x] # None => replies[r][x].type # "GROUP_HEADER"
      BY DEF OrderInv
    <2> QED
      BY <1>3, <1>4, <1>5, <2>1
  <1> QED
    BY <1>1, <1>4, <1>5, <1>8, <1>9, OrderStep DEF q

\* Nothing has been sent or received.
LEMMA InitOrder ==
    ASSUME Init, \A p \in Peers : MaxMessages[p] <= MaxId
    PROVE  OrderInv
  <1>1. SoundSession
    BY InitSound
  <1>2. ASSUME NEW p \in Peers
        PROVE  /\ state[p].enqueued = <<>> /\ state[p].inbox = new_channel
               /\ state[p].submitted = 0 /\ SentBy(p) = 0
    BY DEF Init, NewState, new_container, SentBy
  <1>3. ASSUME NEW p \in Peers
        PROVE  /\ OrderedState(state[p], SentBy(Peer(p))) /\ state[p].submitted <= MaxMessages[p]
    <2>1. SoundState(state[p])
      BY <1>1, SoundEnds
    <2>2. SentBy(Peer(p)) = 0
      BY <1>2, PeerType
    <2>3. Queued(state[p])
      BY SMTT(30), <1>2 DEF Queued, SentBy
    <2>4. Received(state[p].inbox, 0)
      BY SMTT(30), <1>2 DEF Received, new_channel
    <2>5. state[p].submitted <= MaxId /\ state[p].submitted <= MaxMessages[p]
      BY SMTT(30), <1>2, OrderedChannelAssumption, RatchetUpdateAssumption
    <2> QED
      BY <2>1, <2>2, <2>3, <2>4, <2>5 DEF OrderedState
  <1>4. \A p \in Peers, path \in Paths : streams[p][path] = <<>> /\ replies[p][path] = None
    BY DEF Init, NoPackets
  <1>5. \A p \in Peers, path \in Paths : AllNumbered(streams[p][path], SentBy(Peer(p)))
    BY SMTT(30), <1>4 DEF AllNumbered
  <1> QED
    BY <1>1, <1>3, <1>4, <1>5 DEF OrderInv

\* The next message is submitted.
LEMMA SubmitOrder ==
    ASSUME OrderInv, \A p \in Peers : MaxMessages[p] <= MaxId, NEW p \in Peers, SubmitMessage(p)
    PROVE  OrderInv'
  <1> DEFINE n == state[p].submitted + 1
             s == [state[p] EXCEPT !.submitted = n]
             sent == SentBy(Peer(p))
  <1>1. OrderedState(state[p], sent) /\ SoundState(state[p])
    BY DEF OrderInv, OrderedState
  <1>2. state[p].submitted \in Nat /\ n \in Nat /\ n <= MaxMessages[p] /\ n <= MaxId
    <2>1. state[p].submitted \in Nat /\ state[p].submitted < MaxMessages[p]
      BY <1>1, StateFields DEF SubmitMessage
    <2>2. MaxMessages[p] \in Nat /\ MaxId \in Nat /\ MaxMessages[p] <= MaxId
      BY RatchetUpdateAssumption, OrderedChannelAssumption
    <2> QED
      BY SMTT(30), <2>1, <2>2
  <1>3. /\ s.submitted = n /\ s.crypt = state[p].crypt /\ s.enqueued = state[p].enqueued
        /\ s.inbox = state[p].inbox /\ s.sender = state[p].sender /\ s.session = state[p].session
    BY <1>1 DEF SoundState, StateType
  <1>4. s.sender /\ s.session = "Connected"
    BY <1>3 DEF SubmitMessage, Connected
  <1>5. /\ Perfect \/ Len(s.enqueued) = 0
        /\ \A i \in 1 .. Len(s.enqueued) : s.enqueued[i] = s.crypt.rolling_group_id + i
        /\ s.crypt.rolling_group_id + Len(s.enqueued) + 1 = s.submitted
    <2>1. Queued(state[p])
      BY <1>1 DEF OrderedState
    <2> DEFINE g == state[p].crypt.rolling_group_id
               l == Len(state[p].enqueued)
               m == state[p].submitted
    <2>2. \A i \in 1 .. l : state[p].enqueued[i] = g + i
      BY <1>3, <1>4, <2>1 DEF Queued
    <2>3. g \in Nat /\ l \in Nat /\ m \in Nat
      BY <1>1, Counts
    <2>4. g + l = m
      BY <1>3, <1>4, <2>1 DEF Queued
    <2> HIDE DEF g, l, m
    <2>5. g + l + 1 = m + 1
      BY <2>3, <2>4
    <2>6. Perfect \/ l = 0
      BY <2>1 DEF Queued, l
    <2> QED
      BY <1>3, <2>2, <2>5, <2>6 DEF g, l, m
  <1>6. Perform(p, process_outbound_message(p, s, s.submitted))
    BY DEF SubmitMessage
  <1> HIDE DEF n
  <1>7. SoundState(s)
    BY <1>1, <1>2 DEF SoundState, StateType
  <1>8. Received(s.inbox, sent) /\ s.submitted \in Nat /\ s.submitted <= MaxId
        /\ s.submitted <= MaxMessages[p] /\ s.crypt.rolling_group_id = SentBy(p)
    BY <1>1, <1>2, <1>3 DEF OrderedState, SentBy
  <1>9. sent \in Nat
    BY TwoPeers, SentCounts
  <1> HIDE DEF s
  <1> DEFINE t == s
             o == process_outbound_message(p, t, t.submitted)
  <1>10. SoundOutcome(o)
    BY <1>7, <1>8, ProcessOutbound
  <1>11. OrderedOutcome(t, o, sent)
    BY <1>4, <1>5, <1>7, <1>8, <1>9, OutboundOrdered
  <1>12. Perform(p, o)
    BY <1>6
  <1> QED
    BY <1>8, <1>10, <1>11, <1>12, PerformOrder

\* A rekey is requested.
LEMMA RekeyOrder ==
    ASSUME OrderInv, NEW p \in Peers, RequestRekey(p)
    PROVE  OrderInv'
  <1> DEFINE n == state[p].rekeys + 1
             s == [state[p] EXCEPT !.rekeys = n]
             sent == SentBy(Peer(p))
             o == initiate_drill_update(p, s)
  <1>1. OrderedState(state[p], sent) /\ SoundState(state[p]) /\ state[p].submitted <= MaxMessages[p]
    BY DEF OrderInv, OrderedState
  <1>2. n \in Nat
    BY SMTT(30), <1>1, StateFields
  <1>3. Perform(p, o)
    BY DEF RequestRekey
  <1> HIDE DEF n
  <1>4. SoundState(s)
    BY <1>1, <1>2 DEF SoundState, StateType
  <1>5. SameMessages(state[p], s)
    BY <1>1 DEF SoundState, StateType, SameMessages
  <1>6. s.crypt.rolling_group_id = SentBy(p) /\ s.submitted <= MaxMessages[p]
    BY <1>1, <1>5 DEF SameMessages, SentBy
  <1>7. sent \in Nat
    BY TwoPeers, SentCounts
  <1> HIDE DEF s
  <1>8. OrderedState(s, sent)
    BY <1>1, <1>4, <1>5, <1>7, SameOrdered
  <1>9. SoundOutcome(o) /\ OrderedOutcome(s, o, sent)
    BY <1>4, <1>7, <1>8, InitiateDrillUpdate, InitiateOrdered
  <1> HIDE DEF o
  <1> QED
    BY <1>3, <1>6, <1>9, PerformOrder

\* The application drops its receiver.
LEMMA DropOrder ==
    ASSUME OrderInv, NEW p \in Peers, DropReceiver(p)
    PROVE  OrderInv'
  <1> DEFINE inbox == [state[p].inbox EXCEPT !.open = FALSE]
             t == [state[p] EXCEPT !.inbox = inbox]
             sent == SentBy(Peer(p))
  <1>1. /\ OrderedState(state[p], sent) /\ SoundState(state[p]) /\ state[p].submitted <= MaxMessages[p]
        /\ SoundSession
    BY DEF OrderInv, OrderedState
  <1>2. state[p].inbox \in ChannelType(Nat)
    BY <1>1, StateFields
  <1>3. inbox \in ChannelType(Nat)
    BY <1>2 DEF ChannelType
  <1>4. Received(inbox, sent)
    <2>1. inbox.map = state[p].inbox.map /\ inbox.sink = state[p].inbox.sink
          /\ inbox.last = state[p].inbox.last
      BY <1>2 DEF ChannelType
    <2> HIDE DEF inbox
    <2> QED
      BY <1>1, <2>1 DEF OrderedState, Received
  <1>5. state' = [state EXCEPT ![p] = t] /\ streams' = streams /\ replies' = replies
    BY <1>1 DEF DropReceiver, SoundSession, TypeOK, StateType
  <1> HIDE DEF inbox
  <1>6. SoundState(t)
    BY <1>1, <1>3 DEF SoundState, StateType
  <1>7. /\ t.inbox = inbox /\ t.enqueued = state[p].enqueued /\ t.submitted = state[p].submitted
        /\ t.crypt = state[p].crypt /\ t.session = state[p].session /\ t.sender = state[p].sender
    BY <1>1 DEF SoundState, StateType
  <1> HIDE DEF t
  <1>8. OrderedState(t, sent)
    BY <1>1, <1>4, <1>6, <1>7 DEF OrderedState, Queued
  <1>9. SoundSession'
    BY <1>1, <1>5, <1>6, SoundStep DEF SoundSession, TypeOK
  <1>10. t.crypt.rolling_group_id = SentBy(p) /\ SentBy(p) \in Nat /\ t.submitted <= MaxMessages[p]
    BY <1>1, <1>7, SentCounts DEF SentBy
  <1>11. \A path \in Paths : /\ AllNumbered(streams'[p][path], sent)
                             /\ AllNumbered(streams'[Peer(p)][path], t.crypt.rolling_group_id)
    <2>1. Peer(p) \in Peers /\ Peer(Peer(p)) = p
      BY TwoPeers
    <2> QED
      BY <1>5, <1>10, <2>1 DEF OrderInv
  <1>12. \A q \in Peers, path \in Paths :
            replies'[q][path] # None => replies'[q][path].type # "GROUP_HEADER"
    BY <1>5 DEF OrderInv
  <1>13. SentBy(p) <= t.crypt.rolling_group_id
    BY SMTT(30), <1>10
  <1> QED
    BY <1>5, <1>8, <1>9, <1>10, <1>11, <1>12, <1>13, OrderStep

\* A reply is sent.
LEMMA ReplyOrder ==
    ASSUME OrderInv, NEW p \in Peers, NEW path \in Paths, ReplyToSender(p, path)
    PROVE  OrderInv'
  <1> DEFINE q == Peer(p)
             packet == replies[p][path]
  <1>1. SoundSession /\ SoundSession'
    <2>1. SoundSession /\ Next
      BY DEF OrderInv, Next, Delivery
    <2> QED
      BY <2>1, NextSound
  <1>2. q \in Peers /\ q # p /\ Peer(q) = p /\ Peers = {p, q}
    BY TwoPeers
  <1>3. /\ streams \in [Peers -> [Paths -> Seq(Packet)]]
        /\ replies \in [Peers -> [Paths -> Packet \cup {None}]]
        /\ state' = state
        /\ replies' = [replies EXCEPT ![p][path] = None]
        /\ streams' = [streams EXCEPT ![q][path] = Append(@, packet)]
    BY <1>1 DEF SoundSession, TypeOK, ReplyToSender
  <1>4. packet \in Packet /\ packet.type # "GROUP_HEADER"
    BY SMTT(30), <1>3 DEF ReplyToSender, OrderInv
  <1> HIDE DEF q, packet
  <1>5. ASSUME NEW r \in Peers, NEW x \in Paths
        PROVE  /\ AllNumbered(streams'[r][x], SentBy(Peer(r)))
               /\ replies'[r][x] # None => replies'[r][x].type # "GROUP_HEADER"
    <2> DEFINE c == streams[r][x]
               sent == SentBy(Peer(r))
    <2>1. c \in Seq(Packet) /\ AllNumbered(c, sent)
      BY <1>3 DEF OrderInv
    <2>2. sent \in Nat
      BY TwoPeers, SentCounts
    <2>3. streams'[r][x] = c \/ streams'[r][x] = Append(c, packet)
      BY <1>2, <1>3
    <2> HIDE DEF c, sent
    <2>4. AllNumbered(Append(c, packet), sent)
      BY <1>4, <2>1, <2>2, NumberedStreams DEF Numbered
    <2>5. replies'[r][x] # None => replies'[r][x].type # "GROUP_HEADER"
      BY <1>3 DEF OrderInv
    <2> QED
      BY <2>1, <2>3, <2>4, <2>5 DEF sent
  <1>6. \A r \in Peers : SentBy(Peer(r))' = SentBy(Peer(r))
    BY <1>3 DEF SentBy
  <1> QED
    BY <1>1, <1>3, <1>5, <1>6 DEF OrderInv

\* A packet is read, or a reply is sent.
LEMMA DeliveryOrder ==
    ASSUME OrderInv, NEW p \in Peers, NEW path \in Paths, Delivery(p, path)
    PROVE  OrderInv'
  <1> DEFINE packet == Head(streams[p][path])
             s == state[p]
             sent == SentBy(Peer(p))
  <1>1. SoundState(s) /\ OrderedState(s, sent)
    BY DEF OrderInv, OrderedState
  <1>2. sent \in Nat /\ sent \in Id
    BY TwoPeers, SentCounts
  <1>3. streams[p][path] # <<>> => packet \in Packet /\ Numbered(packet, sent)
    <2> DEFINE c == streams[p][path]
    <2>1. c \in Seq(Packet) /\ AllNumbered(c, sent)
      BY DEF OrderInv, SoundSession, TypeOK
    <2> HIDE DEF c, sent
    <2>2. c # <<>> => Head(c) \in Packet /\ Numbered(Head(c), sent)
      BY SMTT(30), <1>2, <2>1, NumberedStreams
    <2> QED
      BY <2>2 DEF c
  <1>4. SoundOutcome(Void(s)) /\ OrderedOutcome(s, Void(s), sent)
    <2>1. SoundOutcome(Void(s))
      BY <1>1, OutcomeType
    <2>2. SameMessages(s, s)
      BY DEF SameMessages
    <2>3. OrderedOutcome(s, Outcome(s, NoPackets, None), sent)
      BY <1>1, <1>2, <2>2, NoMessages, QuietOutcome
    <2> QED
      BY <2>1, <2>3 DEF Void
  <1>5. CASE ReceiveGroupHeader(p, path)
    <2>1. PICK o \in {IF Opens(p, packet) THEN on_group_header(p, s, packet)
                      ELSE Void(s)} : Applied(p, path, o)
      BY <1>5 DEF ReceiveGroupHeader, Read, First
    <2>2. streams[p][path] # <<>> /\ packet.type = "GROUP_HEADER" /\ s.session = "Connected"
      BY <1>5 DEF ReceiveGroupHeader, Read, First, Connected
    <2>3. SoundOutcome(o) /\ OrderedOutcome(s, o, sent)
      <3>1. packet \in Packet /\ Numbered(packet, sent)
        BY <1>3, <2>2
      <3> HIDE DEF packet, s, sent
      <3>2. /\ SoundOutcome(on_group_header(p, s, packet))
            /\ OrderedOutcome(s, on_group_header(p, s, packet), sent)
        BY <1>1, <1>2, <2>2, <3>1, OnGroupHeader, GroupHeaderOrdered
      <3> QED
        BY <1>4, <2>1, <3>2
    <2> QED
      BY <2>1, <2>2, <2>3, AppliedOrder
  <1>6. CASE ReceiveGroupHeaderAck(p, path)
    <2>1. PICK o \in {IF Opens(p, packet) THEN on_group_header_ack(p, s, packet)
                      ELSE Void(s)} : Applied(p, path, o)
      BY <1>6 DEF ReceiveGroupHeaderAck, Read, First
    <2>2. streams[p][path] # <<>> /\ packet.type = "GROUP_HEADER_ACK" /\ s.session = "Connected"
      BY <1>6 DEF ReceiveGroupHeaderAck, Read, First, Connected
    <2>3. SoundOutcome(o) /\ OrderedOutcome(s, o, sent)
      <3>1. packet \in Packet /\ Numbered(packet, sent)
        BY <1>3, <2>2
      <3> HIDE DEF packet, s, sent
      <3>2. /\ SoundOutcome(on_group_header_ack(p, s, packet))
            /\ OrderedOutcome(s, on_group_header_ack(p, s, packet), sent)
        BY <1>1, <1>2, <2>2, <3>1, OnGroupHeaderAck, GroupHeaderAckOrdered
      <3> QED
        BY <1>4, <2>1, <3>2
    <2> QED
      BY <2>1, <2>2, <2>3, AppliedOrder
  <1>7. CASE ReceiveStage0(p, path)
    <2>1. PICK o \in {IF Opens(p, packet) THEN on_stage0(p, s, packet)
                      ELSE Void(s)} : Applied(p, path, o)
      BY <1>7 DEF ReceiveStage0, Read, First
    <2>2. streams[p][path] # <<>> /\ packet.type = "STAGE0" /\ s.session = "Connected"
      BY <1>7 DEF ReceiveStage0, Read, First, Connected
    <2>3. SoundOutcome(o) /\ OrderedOutcome(s, o, sent)
      <3>1. packet \in Packet /\ Numbered(packet, sent)
        BY <1>3, <2>2
      <3> HIDE DEF packet, s, sent
      <3>2. /\ SoundOutcome(on_stage0(p, s, packet))
            /\ OrderedOutcome(s, on_stage0(p, s, packet), sent)
        BY <1>1, <1>2, <2>2, <3>1, OnStage0, Stage0Ordered
      <3> QED
        BY <1>4, <2>1, <3>2
    <2> QED
      BY <2>1, <2>2, <2>3, AppliedOrder
  <1>8. CASE ReceiveStage1(p, path)
    <2>1. PICK o \in {IF Opens(p, packet) THEN on_stage1(p, s, packet)
                      ELSE Void(s)} : Applied(p, path, o)
      BY <1>8 DEF ReceiveStage1, Read, First
    <2>2. streams[p][path] # <<>> /\ packet.type = "STAGE1" /\ s.session = "Connected"
      BY <1>8 DEF ReceiveStage1, Read, First, Connected
    <2>3. SoundOutcome(o) /\ OrderedOutcome(s, o, sent)
      <3>1. packet \in Packet /\ Numbered(packet, sent)
        BY <1>3, <2>2
      <3> HIDE DEF packet, s, sent
      <3>2. /\ SoundOutcome(on_stage1(p, s, packet))
            /\ OrderedOutcome(s, on_stage1(p, s, packet), sent)
        BY <1>1, <1>2, <2>2, <3>1, OnStage1, Stage1Ordered
      <3> QED
        BY <1>4, <2>1, <3>2
    <2> QED
      BY <2>1, <2>2, <2>3, AppliedOrder
  <1>9. CASE ReceiveTruncate(p, path)
    <2>1. PICK o \in {IF Opens(p, packet) THEN on_truncate(p, s, packet)
                      ELSE Void(s)} : Applied(p, path, o)
      BY <1>9 DEF ReceiveTruncate, Read, First
    <2>2. streams[p][path] # <<>> /\ packet.type = "TRUNCATE" /\ s.session = "Connected"
      BY <1>9 DEF ReceiveTruncate, Read, First, Connected
    <2>3. SoundOutcome(o) /\ OrderedOutcome(s, o, sent)
      <3>1. packet \in Packet /\ Numbered(packet, sent)
        BY <1>3, <2>2
      <3> HIDE DEF packet, s, sent
      <3>2. /\ SoundOutcome(on_truncate(p, s, packet))
            /\ OrderedOutcome(s, on_truncate(p, s, packet), sent)
        BY <1>1, <1>2, <2>2, <3>1, OnTruncate, TruncateOrdered
      <3> QED
        BY <1>4, <2>1, <3>2
    <2> QED
      BY <2>1, <2>2, <2>3, AppliedOrder
  <1>10. CASE ReceiveTruncateAck(p, path)
    <2>1. PICK o \in {IF Opens(p, packet) THEN on_truncate_ack(p, s, packet)
                      ELSE Void(s)} : Applied(p, path, o)
      BY <1>10 DEF ReceiveTruncateAck, Read, First
    <2>2. streams[p][path] # <<>> /\ packet.type = "TRUNCATE_ACK" /\ s.session = "Connected"
      BY <1>10 DEF ReceiveTruncateAck, Read, First, Connected
    <2>3. SoundOutcome(o) /\ OrderedOutcome(s, o, sent)
      <3>1. packet \in Packet /\ Numbered(packet, sent)
        BY <1>3, <2>2
      <3> HIDE DEF packet, s, sent
      <3>2. /\ SoundOutcome(on_truncate_ack(p, s, packet))
            /\ OrderedOutcome(s, on_truncate_ack(p, s, packet), sent)
        BY <1>1, <1>2, <2>2, <3>1, OnTruncateAck, TruncateAckOrdered
      <3> QED
        BY <1>4, <2>1, <3>2
    <2> QED
      BY <2>1, <2>2, <2>3, AppliedOrder
  <1>11. CASE ReplyToSender(p, path)
    BY <1>11, ReplyOrder
  <1> QED
    BY <1>5, <1>6, <1>7, <1>8, <1>9, <1>10, <1>11 DEF Delivery

\* Every step keeps the messages in order.
LEMMA NextOrder ==
    ASSUME OrderInv, [Next]_vars, \A p \in Peers : MaxMessages[p] <= MaxId
    PROVE  OrderInv'
  <1>1. CASE UNCHANGED vars
    <2>1. SoundSession'
      BY NextSound DEF OrderInv
    <2>2. state' = state /\ streams' = streams /\ replies' = replies
      BY <1>1 DEF vars
    <2> QED
      BY <2>1, <2>2 DEF OrderInv, SentBy
  <1>2. ASSUME NEW p \in Peers, SubmitMessage(p) PROVE OrderInv'
    BY <1>2, SubmitOrder
  <1>3. ASSUME NEW p \in Peers, RequestRekey(p) PROVE OrderInv'
    BY <1>3, RekeyOrder
  <1>4. ASSUME NEW p \in Peers, DropReceiver(p) PROVE OrderInv'
    BY <1>4, DropOrder
  <1>5. ASSUME NEW p \in Peers, NEW path \in Paths, Delivery(p, path) PROVE OrderInv'
    BY <1>5, DeliveryOrder
  <1> QED
    BY <1>1, <1>2, <1>3, <1>4, <1>5 DEF Next

(***************************************************************************)
(* The application receives the peer's messages in the order they were     *)
(* submitted, none twice and none left out in between: over two streams    *)
(* that overtake each other, in both secrecy modes (poll_next_enqueued     *)
(* takes the queue in turn), whatever exchanges run and fail meanwhile and *)
(* whichever packets no longer open.  The group ids, u64 in the code, must *)
(* not run out.                                                            *)
(***************************************************************************)
THEOREM MessagesInOrder ==
    ASSUME \A p \in Peers : MaxMessages[p] <= MaxId
    PROVE  Spec => []InOrder
  <1>1. Init => OrderInv
    BY InitOrder
  <1>2. OrderInv /\ [Next]_vars => OrderInv'
    BY NextOrder
  <1>3. OrderInv => InOrder
    <2> SUFFICES ASSUME OrderInv, NEW p \in Peers
                 PROVE  /\ Len(state[p].inbox.sink) <= state[Peer(p)].submitted
                        /\ \A i \in DOMAIN state[p].inbox.sink : state[p].inbox.sink[i] = i
      BY DEF InOrder
    <2> DEFINE sink == state[p].inbox.sink
               sent == SentBy(Peer(p))
               n    == state[Peer(p)].submitted
    <2>1. sent \in Nat /\ sent <= n /\ n \in Nat
      BY TwoPeers, SentCounts, StateFields
    <2>2. sink \in Seq(Nat)
      <3>1. state[p].inbox \in ChannelType(Nat)
        BY SentCounts, StateFields
      <3> QED
        BY <3>1 DEF ChannelType
    <2>3. Len(sink) <= sent /\ \A i \in 1 .. Len(sink) : sink[i] = i
      BY DEF OrderInv, OrderedState, Received
    <2> HIDE DEF sink, sent, n
    <2>4. Len(sink) <= n /\ \A i \in DOMAIN sink : sink[i] = i
      BY SMTT(30), <2>1, <2>2, <2>3
    <2> QED
      BY <2>4 DEF sink, n
  <1> QED
    BY <1>1, <1>2, <1>3, PTL DEF Spec
=============================================================================
