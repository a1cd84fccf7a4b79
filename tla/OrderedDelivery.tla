-------------------------- MODULE OrderedDelivery --------------------------
(***************************************************************************)
(* The ordered channel at work: one end numbers its messages, packets      *)
(* arrive in any order (two streams lead to a peer, and the tests of the   *)
(* component feed it shuffled), and the application may drop its receiver. *)
(*                                                                         *)
(* Ids are given out by get_and_increment_group_id, from 0 and wrapping,   *)
(* to messages and to the groups of files alike; the groups of a file do   *)
(* not go through the ordered channel.  A packet is the message that was   *)
(* given the packet-th id.                                                 *)
(***************************************************************************)
EXTENDS OrderedChannel

CONSTANTS
    MaxSent,   \* ids given out in a behaviour
    MaxGroups  \* groups of a file

ASSUME OrderedDeliveryAssumption == MaxSent \in Nat /\ MaxGroups \in Nat

VARIABLES
    sent,     \* ids given out so far
    grouped,  \* those of them that groups of files were given
    next_id,  \* rolling_group_id
    network,  \* packets on their way
    channel   \* the OrderedChannel of the receiver

vars == <<sent, grouped, next_id, network, channel>>

Init ==
    /\ sent = 0
    /\ grouped = {}
    /\ next_id = 0
    /\ network = {}
    /\ channel = new_channel

(***************************************************************************)
(* Ids are 64 bits wide: an id is not used again while a packet with it is *)
(* under way or held.  With the small MaxId of an instance the guard on    *)
(* the distance says so.                                                   *)
(***************************************************************************)
Send ==
    /\ sent < MaxSent
    /\ sent - Len(channel.sink) <= MaxId
    /\ sent' = sent + 1
    /\ next_id' = id_plus(next_id, 1)
    /\ network' = network \cup {[id |-> next_id, packet |-> sent + 1]}
    /\ UNCHANGED <<grouped, channel>>

\* A file is sent: its groups are given the next ids, all at once.
SendFile(groups) ==
    /\ sent + groups <= MaxSent
    /\ sent + groups - Len(channel.sink) <= MaxId + 1
    /\ sent' = sent + groups
    /\ grouped' = grouped \cup sent + 1 .. sent + groups
    /\ next_id' = id_plus(next_id, groups)
    /\ UNCHANGED <<network, channel>>

Arrive(e) ==
    /\ network' = network \ {e}
    /\ channel' = on_packet_received(channel, e.id, e.packet).channel
    /\ UNCHANGED <<sent, grouped, next_id>>

DropReceiver ==
    /\ channel.open
    /\ channel' = [channel EXCEPT !.open = FALSE]
    /\ UNCHANGED <<sent, grouped, next_id, network>>

Next ==
    \/ Send
    \/ \E groups \in 1 .. MaxGroups : SendFile(groups)
    \/ \E e \in network : Arrive(e)
    \/ DropReceiver

Spec == Init /\ [][Next]_vars

\* The network delivers what it carries.
FairSpec == Spec /\ WF_vars(\E e \in network : Arrive(e))
-----------------------------------------------------------------------------
\* The types of the counters, of the packets under way and of the channel.
TypeOK ==
    /\ sent \in Nat
    /\ grouped \in SUBSET (1 .. sent)
    /\ next_id \in Id
    /\ network \in SUBSET [id : Id, packet : Nat]
    /\ channel \in ChannelType(Nat)

(***************************************************************************)
(* Whatever the order of arrival, the application is given the messages in *)
(* the order they were sent, without a gap and none twice                  *)
(* (send_then_scan, scan_send); none of them was sent after a file.        *)
(***************************************************************************)
InOrder ==
    /\ Len(channel.sink) <= sent
    /\ \A i \in 1 .. Len(channel.sink) : channel.sink[i] = i /\ i \notin grouped

(***************************************************************************)
(* Nothing is held back that could be delivered: while the receiver lives  *)
(* the buffer does not hold the packet that is expected next, so that only *)
(* a packet still under way, or one that never comes as a file has its id, *)
(* can be missing.                                                         *)
(***************************************************************************)
NothingHeldBack ==
    channel.open => ~stored(channel.map, next_expected(channel))

(***************************************************************************)
(* Every message sent is under way, held or delivered, exactly one of      *)
(* these, for as long as the receiver lives: the buffer neither loses a    *)
(* packet nor keeps one it has delivered.                                  *)
(***************************************************************************)
Conserved ==
    channel.open =>
        sent - Cardinality(grouped) =
            Cardinality(network) + Cardinality(channel.map) + Len(channel.sink)

\* The messages sent before the first file: the next id the channel expects is then
\* one that no message has.
BeforeFiles == {m \in 1 .. sent : \A f \in grouped : m < f}

(***************************************************************************)
(* Every message sent before the first file reaches the application,       *)
(* unless it dropped its receiver; with no file sent that is every one.    *)
(* on_packet_received stores the others for good.                          *)
(***************************************************************************)
AllDelivered == <>[](channel.open => Len(channel.sink) = Cardinality(BeforeFiles))
=============================================================================
