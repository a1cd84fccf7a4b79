----------------------------- MODULE NetChannel -----------------------------
(***************************************************************************)
(* The bidirectional channel of netbeam (bi_channel.rs): two nodes, each   *)
(* with a sending and a receiving half over one subscription.  A receiving *)
(* half that is dropped spawns a task which halts the other node, and      *)
(* waits until it has verified that.                                       *)
(***************************************************************************)
EXTENDS Naturals, Sequences

CONSTANT MaxItems  \* how many items each node sends

Node == {"initiator", "receiver"}

Peer(n) == IF n = "initiator" THEN "receiver" ELSE "initiator"

VARIABLES
    node,  \* the two halves of each node
    chan   \* the packets on their way to each node

vars == <<node, chan>>

(***************************************************************************)
(* recv is the receiving half: in use, or where the task is that its Drop  *)
(* spawned.  send_item looks at the flag recv_halt before it sends.        *)
(***************************************************************************)
NodeType == [
    recv      : {"open", "dropped", "halting", "waiting", "done"},
    recv_halt : BOOLEAN,
    sending   : BOOLEAN,
    items     : 0..MaxItems]

Init ==
    /\ node = [n \in Node |->
                 [recv |-> "open", recv_halt |-> FALSE, sending |-> FALSE, items |-> 0]]
    /\ chan = [n \in Node |-> <<>>]

Becomes(n, s) == node' = [node EXCEPT ![n] = s]

Send(n, packet) == chan' = [chan EXCEPT ![Peer(n)] = Append(@, packet)]

Consume(n) == chan' = [chan EXCEPT ![n] = Tail(@)]

\* send_item, up to its await and after it.
SendItem(n) ==
    /\ node[n].items < MaxItems
    /\ ~node[n].sending
    /\ ~node[n].recv_halt
    /\ Becomes(n, [node[n] EXCEPT !.sending = TRUE, !.items = @ + 1])
    /\ UNCHANGED chan

SendsItem(n) ==
    /\ node[n].sending
    /\ Becomes(n, [node[n] EXCEPT !.sending = FALSE])
    /\ Send(n, "Packet")

\* A mutant: a Halt is taken for the end of the stream and not remembered.
RecvForgetsHalt(n) ==
    /\ node[n].recv = "open"
    /\ ~node[n].recv_halt
    /\ chan[n] # <<>>
    /\ Consume(n)
    /\ UNCHANGED node

\* recv and poll_next; a packet other than an item halts the channel.
Recv(n) ==
    /\ node[n].recv = "open"
    /\ ~node[n].recv_halt
    /\ chan[n] # <<>>
    /\ Becomes(n, [node[n] EXCEPT !.recv_halt = Head(chan[n]) # "Packet"])
    /\ Consume(n)

DropRecv(n) ==
    /\ node[n].recv = "open"
    /\ Becomes(n, [node[n] EXCEPT !.recv = "dropped"])
    /\ UNCHANGED chan

\* The task: who was halted verifies it, who was not halts the other node,
DropTask(n) ==
    /\ node[n].recv = "dropped"
    /\ Send(n, IF node[n].recv_halt THEN "HaltVerified" ELSE "Halt")
    /\ Becomes(n, [node[n] EXCEPT !.recv = IF node[n].recv_halt THEN "done" ELSE "halting"])

\* stops its own sending half, and
StopSending(n) ==
    /\ node[n].recv = "halting"
    /\ Becomes(n, [node[n] EXCEPT !.recv = "waiting", !.recv_halt = TRUE])
    /\ UNCHANGED chan

\* reads on until the halt is verified.
AwaitVerified(n) ==
    /\ node[n].recv = "waiting"
    /\ chan[n] # <<>>
    /\ Consume(n)
    /\ Becomes(n, [node[n] EXCEPT !.recv = IF Head(chan[n]) = "HaltVerified" THEN "done" ELSE @])

Task(n) == SendsItem(n) \/ Recv(n) \/ DropTask(n) \/ StopSending(n) \/ AwaitVerified(n)

Next == \E n \in Node : Task(n) \/ SendItem(n) \/ DropRecv(n)

\* An application reads its channel, and drops it once it is at its end.
DropHalted(n) == node[n].recv_halt /\ DropRecv(n)
-----------------------------------------------------------------------------
TypeOK ==
    /\ node \in [Node -> NodeType]
    /\ chan \in [Node -> Seq({"Packet", "Halt", "HaltVerified"})]

(***************************************************************************)
(* A halt is verified only to the node that waits for it, and only by a    *)
(* node that had nothing to halt itself: the halts of one channel never    *)
(* answer each other twice.                                                *)
(***************************************************************************)
VerifiedIsAwaited ==
    \A n \in Node : \A k \in DOMAIN chan[n] :
       chan[n][k] = "HaltVerified" =>
          node[n].recv \in {"halting", "waiting"} /\ node[Peer(n)].recv = "done"

\* The halves were dropped at both nodes before either saw the other's Halt.
BothHalt == \A n \in Node : node[n].recv \in {"halting", "waiting"}

\* A dropped receiving half is done with, but when both were dropped at once.
Dropped(n) == node[n].recv \notin {"open", "done"}
Settled(n) == node[n].recv = "done" \/ BothHalt
=============================================================================
