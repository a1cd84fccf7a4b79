--------------------------- MODULE OrderedChannel ---------------------------
(***************************************************************************)
(* The reordering buffer in front of the application's message channel     *)
(* (citadel_proto/src/proto/misc/ordered_channel.rs).                      *)
(*                                                                         *)
(* map holds the packets that arrived early, last is                       *)
(* last_message_received, sink is what the application was given, in       *)
(* order.  Ids are u64 in the code; they wrap at MaxId.                    *)
(***************************************************************************)
EXTENDS Integers, Sequences, FiniteSets, Option

CONSTANT MaxId   \* u64::MAX

ASSUME OrderedChannelAssumption == MaxId \in Nat

Id == 0 .. MaxId

ChannelType(Data) ==
    [last : Id \cup {None}, map : SUBSET [id : Id, packet : Data],
     sink : Seq(Data), open : BOOLEAN]

id_plus(id, n) == IF id + n > MaxId THEN id + n - MaxId - 1 ELSE id + n

new_channel == [last |-> None, map |-> {}, sink |-> <<>>, open |-> TRUE]

\* A mutant: the first id is taken to be 1.
next_expected_from_one(ch) == IF ch.last = None THEN 1 ELSE id_plus(ch.last, 1)

next_expected(ch) == IF ch.last = None THEN 0 ELSE id_plus(ch.last, 1)

store_received_packet(ch, id, packet) ==
    [ch EXCEPT !.map = {e \in @ : e.id # id} \cup {[id |-> id, packet |-> packet]}]

stored(map, id) == \E e \in map : e.id = id

packet_of(map, id) == (CHOOSE e \in map : e.id = id).packet

(***************************************************************************)
(* scan_send: the stored packets that follow id without a gap leave the    *)
(* map in id order.  scan_length counts them.                              *)
(***************************************************************************)
scan_length(map, id) ==
    Cardinality({n \in 1 .. MaxId : \A k \in 1 .. n : stored(map, id_plus(id, k))})

\* A mutant: what was stored is not scanned for.
send_without_scan(ch, id, packet) ==
    IF ~ch.open THEN [ok |-> FALSE, channel |-> ch]
    ELSE [ok |-> TRUE,
          channel |-> [ch EXCEPT !.sink = Append(@, packet), !.last = id]]

(***************************************************************************)
(* A closed sink fails the send of the packet itself: nothing changes and  *)
(* the caller sees the error.                                              *)
(***************************************************************************)
send_then_scan(ch, id, packet) ==
    LET n    == scan_length(ch.map, id)
        sent == {id_plus(id, k) : k \in 1 .. n}
    IN  IF ~ch.open
        THEN [ok |-> FALSE, channel |-> ch]
        ELSE [ok |-> TRUE,
              channel |->
                [ch EXCEPT
                    !.sink = Append(@, packet)
                             \o [k \in 1 .. n |-> packet_of(ch.map, id_plus(id, k))],
                    !.map  = {e \in @ : e.id \notin sent},
                    !.last = id_plus(id, n)]]

\* A mutant: any packet that is not old is sent at once.
received_without_order(ch, id, packet) ==
    IF id >= next_expected(ch)
    THEN send_then_scan(ch, id, packet)
    ELSE [ok |-> TRUE, channel |-> store_received_packet(ch, id, packet)]

on_packet_received(ch, id, packet) ==
    IF next_expected(ch) = id
    THEN send_then_scan(ch, id, packet)
    ELSE [ok |-> TRUE, channel |-> store_received_packet(ch, id, packet)]
=============================================================================
