---------------------------- MODULE NetMultiplex ----------------------------
(***************************************************************************)
(* The subscriptions of a multiplexed connection: how two nodes open and   *)
(* close the conversations that share one reliable ordered stream          *)
(* (multiplex.rs, subscription.rs and network_application.rs of netbeam).  *)
(* Payloads are left out: a packet of a conversation is its id.            *)
(***************************************************************************)
EXTENDS Naturals, Sequences

CONSTANTS
    Capacity,  \* INITIAL_CAPACITY: the conversations reserved at the start
    MaxId,     \* a bound on the conversations that are opened
    MaxChan    \* a bound on the packets in flight to a node

Node == {"initiator", "receiver"}

Peer(n) == IF n = "initiator" THEN "receiver" ELSE "initiator"

Id == 1..MaxId

\* A subscriber: its entry is there from "reserved" to "sent".
Sub == {"absent", "reserved", "open", "closing", "sent"}

VARIABLES
    node,    \* the MultiplexedConn of each node
    rx,      \* whose recv holds the lock on the receivers of each post-action
             \* channel, 0 if it is free
    chan,    \* the packets on their way to each node
    faults   \* the failed assertions and the errors that were logged

vars == <<node, rx, chan, faults>>

Init ==
    /\ node = [n \in Node |->
                 [latest |-> 0,            \* current_latest_subscribed
                  gen |-> Capacity,        \* id_gen
                  subs |-> [i \in Id |-> IF i <= Capacity THEN "reserved" ELSE "absent"],
                  post |-> [i \in Id |-> IF i <= Capacity THEN "empty" ELSE "absent"],
                  pre |-> <<>>,            \* the pre-action channel, of capacity 1
                  waiting |-> FALSE]]      \* a call holds the lock on pre
    /\ rx = [n \in Node |-> 0]
    /\ chan = [n \in Node |-> <<>>]
    /\ faults = {}

Becomes(n, s) == node' = [node EXCEPT ![n] = s]

Send(n, type, id) == chan' = [chan EXCEPT ![Peer(n)] = Append(@, [type |-> type, id |-> id])]

\* get_next_prereserved
Reserved(s) == s.latest + 1 \in Id /\ s.subs[s.latest + 1] = "reserved"

\* subscribe and setup_channel; the latter waits for the lock that a recv holds, and
\* nothing is sent before.
Subscribed(s, id) ==
    [s EXCEPT !.subs[id] = "open", !.post[id] = "empty", !.latest = @ + 1]

\* The two assertions of subscribe.
SubscribeFaults(s, id) ==
    {f \in {"subscribed twice", "id out of order"} :
       \/ f = "subscribed twice" /\ s.subs[id] # "absent"
       \/ f = "id out of order" /\ s.latest + 1 # id}

\* preaction_sync up to its first wait; the lock admits one call at a time.
InitiateReserved(n) ==
    LET s == node[n]
    IN  /\ ~s.waiting
        /\ Reserved(s)
        /\ Becomes(n, [s EXCEPT !.subs[s.latest + 1] = "open", !.latest = @ + 1])
        /\ UNCHANGED <<rx, chan, faults>>

InitiateReceiver ==
    LET n == "receiver"
        s == node[n]
        id == s.gen + 1
    IN  /\ ~s.waiting
        /\ ~Reserved(s)
        /\ id \in Id
        /\ rx[n] = 0
        /\ Becomes(n, [Subscribed(s, id) EXCEPT !.gen = id, !.waiting = TRUE])
        /\ faults' = faults \cup SubscribeFaults(s, id)
        /\ Send(n, "PreCreate", id)
        /\ UNCHANGED rx

InitiateInitiator ==
    LET n == "initiator"
        s == node[n]
    IN  /\ ~s.waiting
        /\ ~Reserved(s)
        /\ s.latest < MaxId
        /\ Becomes(n, [s EXCEPT !.waiting = TRUE])
        /\ UNCHANGED <<rx, chan, faults>>

\* The rest of preaction_sync, once an id is in the pre-action channel.
OpenedReceiver ==
    LET n == "receiver"
        s == node[n]
    IN  /\ s.waiting
        /\ s.pre # <<>>
        /\ Becomes(n, [s EXCEPT !.pre = Tail(@), !.waiting = FALSE])
        /\ faults' = faults \cup (IF Head(s.pre) # s.gen THEN {"invalid sync id"} ELSE {})
        /\ UNCHANGED <<rx, chan>>

OpenedInitiator ==
    LET n == "initiator"
        s == node[n]
        id == Head(s.pre)
    IN  /\ s.waiting
        /\ s.pre # <<>>
        /\ rx[n] = 0
        /\ Becomes(n, [Subscribed(s, id) EXCEPT !.pre = Tail(@), !.waiting = FALSE])
        /\ faults' = faults \cup SubscribeFaults(s, id)
        /\ Send(n, "PreCreate", id)
        /\ UNCHANGED rx

\* The receiver does not have its subscription before its call has returned.
Usable(n, id) ==
    node[n].subs[id] = "open" /\ ~(n = "receiver" /\ node[n].waiting /\ id = node[n].gen)

\* send_to_peer of a subscription.
SendToPeer(n, id) ==
    /\ Usable(n, id)
    /\ Len(chan[Peer(n)]) < MaxChan
    /\ Send(n, "ApplicationLayer", id)
    /\ UNCHANGED <<node, rx, faults>>

\* Drop of a subscription: close_sequence_for_multiplexed_bistream is spawned.
DropSubscription(n, id) ==
    /\ Usable(n, id)
    /\ Becomes(n, [node[n] EXCEPT !.subs[id] = "closing"])
    /\ UNCHANGED <<rx, chan, faults>>

Signalled(s, id) == s.post[id] = "signalled"

\* postaction_sync at the receiver: send the signal, then wait for the answer.
SendPostDrop(id) ==
    /\ node["receiver"].subs[id] = "closing"
    /\ Becomes("receiver", [node["receiver"] EXCEPT !.subs[id] = "sent"])
    /\ Send("receiver", "PostDrop", id)
    /\ UNCHANGED <<rx, faults>>

\* recv of the post-action channel takes the lock on the receivers of all
\* conversations, and keeps it while it waits for its own.
AwaitPostDrop(n, id) ==
    /\ node[n].subs[id] = IF n = "receiver" THEN "sent" ELSE "closing"
    /\ rx[n] = 0
    /\ rx' = [rx EXCEPT ![n] = id]
    /\ UNCHANGED <<node, chan, faults>>

CloseReceiver(id) ==
    /\ node["receiver"].subs[id] = "sent"
    /\ rx["receiver"] = id
    /\ Signalled(node["receiver"], id)
    /\ Becomes("receiver", [node["receiver"] EXCEPT !.subs[id] = "absent"])
    /\ rx' = [rx EXCEPT !["receiver"] = 0]
    /\ UNCHANGED <<chan, faults>>

\* A mutant: the initiator does not wait for the signal.
CloseAtOnce(id) ==
    /\ node["initiator"].subs[id] = "closing"
    /\ Becomes("initiator", [node["initiator"] EXCEPT !.subs[id] = "absent"])
    /\ Send("initiator", "PostDrop", id)
    /\ UNCHANGED <<rx, faults>>

\* postaction_sync at the initiator: wait for the signal, then answer.
CloseInitiator(id) ==
    /\ node["initiator"].subs[id] = "closing"
    /\ rx["initiator"] = id
    /\ Signalled(node["initiator"], id)
    /\ Becomes("initiator", [node["initiator"] EXCEPT !.subs[id] = "absent"])
    /\ rx' = [rx EXCEPT !["initiator"] = 0]
    /\ Send("initiator", "PostDrop", id)
    /\ UNCHANGED faults

Incoming(n, type) == chan[n] # <<>> /\ Head(chan[n]).type = type

Consume(n) == chan' = [chan EXCEPT ![n] = Tail(@)]

\* forward_packet
ForwardApplication(n) ==
    /\ Incoming(n, "ApplicationLayer")
    /\ Consume(n)
    /\ faults' = faults \cup
         (IF node[n].subs[Head(chan[n]).id] = "absent" THEN {"no such channel"} ELSE {})
    /\ UNCHANGED <<node, rx>>

ForwardPreCreate(n) ==
    /\ Incoming(n, "PreCreate")
    /\ node[n].pre = <<>>
    /\ Consume(n)
    /\ Becomes(n, [node[n] EXCEPT !.pre = Append(@, Head(chan[n]).id)])
    /\ UNCHANGED <<rx, faults>>

ForwardPostDrop(n) ==
    LET id == Head(chan[n]).id
    IN  /\ Incoming(n, "PostDrop")
        /\ Consume(n)
        /\ UNCHANGED rx
        /\ \/ /\ node[n].post[id] = "empty"
              /\ Becomes(n, [node[n] EXCEPT !.post[id] = "signalled"])
              /\ UNCHANGED faults
           \/ /\ node[n].post[id] # "empty"
              /\ faults' = faults \cup {"no post channel"}
              /\ UNCHANGED node

Forward(n) == ForwardApplication(n) \/ ForwardPreCreate(n) \/ ForwardPostDrop(n)

Close(id) ==
    \/ SendPostDrop(id) \/ CloseReceiver(id) \/ CloseInitiator(id)
    \/ \E n \in Node : AwaitPostDrop(n, id)

Next ==
    \/ \E n \in Node : InitiateReserved(n) \/ Forward(n)
    \/ InitiateReceiver \/ InitiateInitiator \/ OpenedReceiver \/ OpenedInitiator
    \/ \E n \in Node : \E id \in Id : SendToPeer(n, id) \/ DropSubscription(n, id)
    \/ \E id \in Id : Close(id)

Spec == Init /\ [][Next]_vars

\* The reader task of each node, and the spawned close tasks.
Fairness ==
    /\ \A n \in Node : WF_vars(Forward(n))
    /\ \A id \in Id : WF_vars(Close(id))
-----------------------------------------------------------------------------
\* The types of the variables.
TypeOK ==
    /\ node \in [Node -> [latest : 0..MaxId, gen : Capacity..MaxId, subs : [Id -> Sub],
                          post : [Id -> {"absent", "empty", "signalled"}],
                          pre : Seq(Id), waiting : BOOLEAN]]
    /\ rx \in [Node -> {0} \cup Id]
    /\ \A n \in Node : \A k \in 1..Len(chan[n]) :
          chan[n][k].type \in {"ApplicationLayer", "PreCreate", "PostDrop"} /\ chan[n][k].id \in Id

(***************************************************************************)
(* No packet arrives for a conversation its receiver no longer, or not     *)
(* yet, knows, and no assertion of subscribe fails: whoever returns first  *)
(* from initiate_subscription may send at once, "knowing the adjacent node *)
(* will still have the conv open to receive messages".                     *)
(***************************************************************************)
NoFault == faults = {}

(***************************************************************************)
(* The reader task never waits for room in the pre-action channel, which   *)
(* holds one id: a second PreCreate before the first is taken would stall  *)
(* every other conversation of the connection.                             *)
(***************************************************************************)
ReaderNeverBlocks == \A n \in Node : Incoming(n, "PreCreate") => node[n].pre = <<>>

BothDropped(id) == \A n \in Node : node[n].subs[id] \in {"closing", "sent"}

Forgotten(id) == \A n \in Node : node[n].subs[id] = "absent"

\* One node has dropped the conversation and the other still has it.
HalfDropped(id) ==
    \E n \in Node : /\ node[n].subs[id] \in {"closing", "sent"}
                    /\ node[Peer(n)].subs[id] \in {"reserved", "open"}

NoneHalfDropped == \A id \in Id : ~HalfDropped(id)

\* Once both nodes have dropped a conversation both forget it, provided that what
\* one node drops the other drops as well, at some time: until then the recv of the
\* first keeps the lock that every other close needs.
ConversationCloses == []<>NoneHalfDropped => \A id \in Id : BothDropped(id) ~> Forgotten(id)
=============================================================================
