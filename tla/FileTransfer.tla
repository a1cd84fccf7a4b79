---------------------------- MODULE FileTransfer ----------------------------
(***************************************************************************)
(* Files between the two ends of a connection, client and server or peer   *)
(* and peer.  The sender announces a file (FILE_HEADER), the receiver's    *)
(* kernel accepts or declines it, and a task of the sender then takes one  *)
(* group after the other from the scrambler: it sends the GROUP_HEADER,    *)
(* the receiver's answer releases the payload, and the WAVE_ACKs of the    *)
(* group wake the task for the next one.  The receiver hands each complete *)
(* group to a task that writes it to the backend, and signals that task    *)
(* when it takes the file to be complete.  Messages use the same group ids.*)
(*                                                                         *)
(* Both ends key their maps by the cid of the other end and a group or an  *)
(* object id; there is one connection, so the ids are the keys.  A group   *)
(* is its waves (WaveTransfer): a wave travels as one packet.              *)
(***************************************************************************)
EXTENDS OrderedChannel

CONSTANTS
    Node,          \* the two ends
    Plans,         \* for each end, the group counts of the files it sends, in turn
    WaveCount,     \* waves in a group
    ChannelLimit,  \* groups the scrambler may be ahead of the task (5)
    MaxMessage,    \* messages each end sends
    Responses,     \* what a kernel does with an offered file: "accept", "decline", "drop"
    MayFail,       \* TRUE: reading the file may fail, and the backend may fail to create it
    MayExpire      \* TRUE: a group may stay unacknowledged for GROUP_EXPIRE_TIME_MS

VARIABLES
    node,  \* the state container of each end
    todo,  \* files each end will still send
    net    \* packets on their way to each end, in order

fileVars == <<node, todo, net>>

Other(n) == CHOOSE m \in Node : m # n

Wave == 0..WaveCount - 1

Empty == [x \in {} |-> x]

Put(f, x, v) == [y \in DOMAIN f \cup {x} |-> IF y = x THEN v ELSE f[y]]

Without(f, x) == [y \in DOMAIN f \ {x} |-> f[y]]

Has(f, x) == x \in DOMAIN f

-----------------------------------------------------------------------------
(***************************************************************************)
(* State                                                                   *)
(***************************************************************************)

\* What the kernel has been told through the handle of a file, told by the orientation and the object id.
Handle == {"Sender", "Receiver"} \X Nat

StateContainer ==
    [rolling_group_id       |-> 0,
     rolling_object_id      |-> 1,
     outbound_files         |-> Empty,  \* object -> whether start and stop_tx are still there
     inbound_files          |-> Empty,  \* object -> the file being received
     file_transfer_handles  |-> Empty,  \* object -> the handle statuses go to
     outbound_transmitters  |-> Empty,  \* group -> the group being sent
     inbound_groups         |-> Empty,  \* group -> the group being received
     sending                |-> Empty,  \* object -> the task that sends it
     writing                |-> Empty,  \* object -> the task that writes it
     messages               |-> 0,
     to_channel             |-> new_channel,  \* the ordered channel of messages
     kernel                 |-> Empty]  \* handle -> the statuses told, in order

InboundFileTransfer(total) == [total_groups |-> total]

OutboundFileTransfer == [start |-> TRUE]

\* has_begun of an inbound group is never set: its timeout finds nothing to do (primary_group_packet.rs 200).
GroupReceiverContainer(object) == [object_id |-> object, waves |-> {}]

OutboundTransmitterContainer(object, relative, total) ==
    [object_id |-> object, relative_group_id |-> relative, total_groups |-> total, acked |-> {}, sent |-> FALSE,
     has_begun |-> FALSE, expired |-> FALSE, notifier |-> TRUE, is_message |-> FALSE]

\* A message takes a transmitter too, until it is acknowledged.
MessageTransmitter == [OutboundTransmitterContainer(0, 0, 1) EXCEPT !.is_message = TRUE, !.notifier = FALSE]

\* The task of process_outbound_file and its scrambler: groups rendered, groups taken, wake-ups not yet used.
SendingTask(first, total) ==
    [at |-> "start_rx", first |-> first, total |-> total, rendered |-> 0, relative_group_id |-> 0, alerts |-> 0,
     stopped |-> FALSE]

\* The task of on_file_header_received: chunks are the groups handed over, signal what became of
\* reception_complete_tx, open whether stream_to_hd is still there.
WritingTask(first) == [at |-> "start_recv_rx", first |-> first, chunks |-> <<>>, signal |-> "none", open |-> TRUE]

Status(type, group) == [type |-> type, group |-> group]

Tell(c, handle, status) == [c EXCEPT !.kernel[handle] = Append(@, status)]

-----------------------------------------------------------------------------
(***************************************************************************)
(* Packets                                                                 *)
(***************************************************************************)

FileHeader(object, first, total) == [type |-> "FILE_HEADER", object_id |-> object, group |-> first, count |-> total]
FileHeaderAck(object, success) == [type |-> "FILE_HEADER_ACK", object_id |-> object, success |-> success]
GroupHeader(object, g) == [type |-> "GROUP_HEADER", object_id |-> object, group |-> g, fast_msg |-> FALSE]
MessageHeader(g) == [type |-> "GROUP_HEADER", object_id |-> 0, group |-> g, fast_msg |-> TRUE]
\* Always ReadyToReceive, with a window or without one: NotReady is never crafted.
GroupHeaderAck(g, fast) == [type |-> "GROUP_HEADER_ACK", group |-> g, fast_msg |-> fast]
GroupPayload(object, g, w) == [type |-> "GROUP_PAYLOAD", object_id |-> object, group |-> g, wave_id |-> w]
WaveAckPacket(object, g, w) == [type |-> "WAVE_ACK", object_id |-> object, group |-> g, wave_id |-> w]

-----------------------------------------------------------------------------
(***************************************************************************)
(* Sending                                                                 *)
(***************************************************************************)

get_and_increment_group_id(c) == [c EXCEPT !.rolling_group_id = @ + 1]

get_and_increment_object_id(c) == [c EXCEPT !.rolling_object_id = @ + 1]

\* A mutant: the ids of the groups after the first are not reserved.
ReserveFirst(c, total) == c

reserve_groups(c, total) == [c EXCEPT !.rolling_group_id = @ + total - 1]

process_outbound_file(n, total) ==
    LET c      == node[n]
        object == c.rolling_object_id
        first  == c.rolling_group_id
        ids    == reserve_groups(get_and_increment_group_id(get_and_increment_object_id(c)), total)
    IN  /\ node' = [node EXCEPT ![n] = [ids EXCEPT !.outbound_files = Put(@, object, OutboundFileTransfer),
                                                   !.sending = Put(@, object, SendingTask(first, total))]]
        /\ net' = [net EXCEPT ![Other(n)] = Append(@, FileHeader(object, first, total))]

SendFile(n) ==
    /\ todo[n] # <<>>
    /\ process_outbound_file(n, Head(todo[n]))
    /\ todo' = [todo EXCEPT ![n] = Tail(@)]

\* A mutant: the scrambler does not notice the end of the file.
ScrambleOn(n, o) ==
    LET t == node[n].sending[o]
    IN  /\ ~t.stopped
        /\ t.at # "ended"
        /\ t.rendered - t.relative_group_id < ChannelLimit
        /\ node' = [node EXCEPT ![n].sending[o].rendered = @ + 1]
        /\ UNCHANGED <<todo, net>>

\* poll_scramble_next_group and file_streamer: the scrambler stops at the limit of its channel, for good
\* once it is told to.
Scramble(n, o) ==
    LET t == node[n].sending[o]
    IN  /\ ~t.stopped
        /\ t.at # "ended"
        /\ t.rendered < t.total
        /\ t.rendered - t.relative_group_id < ChannelLimit
        /\ node' = [node EXCEPT ![n].sending[o].rendered = @ + 1]
        /\ UNCHANGED <<todo, net>>

\* The source cannot be read, or a group not encrypted: the stream of groups ends as if it were complete.
ScrambleFails(n, o) ==
    LET t == node[n].sending[o]
    IN  /\ MayFail
        /\ ~t.stopped
        /\ t.at # "ended"
        /\ t.rendered < t.total
        /\ node' = [node EXCEPT ![n].sending[o].stopped = TRUE]
        /\ UNCHANGED <<todo, net>>

\* The task takes the next group: the header goes out and the transmitter is kept.
NextGroup(n, o) ==
    LET t == node[n].sending[o]
        g == t.first + t.relative_group_id
    IN  /\ t.at = "group_sender_rx"
        /\ t.relative_group_id < t.rendered
        /\ node' = [node EXCEPT
               ![n].outbound_transmitters = Put(@, g, OutboundTransmitterContainer(o, t.relative_group_id, t.total)),
               ![n].sending[o].relative_group_id = @ + 1,
               ![n].sending[o].at = "next_gs_alerter"]
        /\ net' = [net EXCEPT ![Other(n)] = Append(@, GroupHeader(o, g))]
        /\ UNCHANGED todo

AwaitAlert(n, o) ==
    LET t == node[n].sending[o]
    IN  /\ t.at = "next_gs_alerter"
        /\ t.alerts > 0
        /\ node' = [node EXCEPT ![n].sending[o].at = "group_sender_rx", ![n].sending[o].alerts = @ - 1]
        /\ UNCHANGED <<todo, net>>

\* group_sender_rx.next() is None: the scrambler is done, or it was stopped and its channel is empty.
SendingEnds(n, o) ==
    LET t == node[n].sending[o]
    IN  /\ t.at = "group_sender_rx"
        /\ t.relative_group_id = t.rendered
        /\ t.rendered = t.total \/ t.stopped
        /\ node' = [node EXCEPT ![n].sending[o].at = "ended"]
        /\ UNCHANGED <<todo, net>>

\* process_outbound_message, as far as group ids and transmitters go.
SendMessage(n) ==
    LET g == node[n].rolling_group_id
    IN  /\ node[n].messages < MaxMessage[n]
        /\ node' = [node EXCEPT ![n] = [get_and_increment_group_id(node[n]) EXCEPT
                        !.messages = @ + 1,
                        !.outbound_transmitters = Put(@, g, MessageTransmitter)]]
        /\ net' = [net EXCEPT ![Other(n)] = Append(@, MessageHeader(g))]
        /\ UNCHANGED todo

(***************************************************************************)
(* The timeout of an outbound group: nothing was acknowledged for a        *)
(* minute, though a wave of the group was before.                          *)
(***************************************************************************)
OutboundGroupExpires(n, g) ==
    LET c == node[n]
        x == c.outbound_transmitters[g]
        o == x.object_id
    IN  /\ MayExpire
        /\ x.has_begun
        /\ ~x.expired
        /\ node' = [node EXCEPT
               ![n].outbound_files = Without(@, o),
               ![n].sending[o].stopped = @ \/ Has(c.outbound_files, o),
               ![n].outbound_transmitters[g].expired = TRUE,
               ![n].kernel = Put(@, <<"Ticket", o>>, <<Status("InternalServerError", 0)>>)]
        /\ UNCHANGED <<todo, net>>

-----------------------------------------------------------------------------
(***************************************************************************)
(* Receiving: what a handler makes of the state container and what it      *)
(* sends back                                                              *)
(***************************************************************************)

Reply(c, packets) == [c |-> c, reply |-> packets]

on_file_header_received(c, p) ==
    LET o == p.object_id
        h == <<"Receiver", o>>
    IN  IF Has(c.inbound_files, o)
        THEN Reply(c, <<>>)
        ELSE Reply([c EXCEPT !.inbound_files = Put(@, o, InboundFileTransfer(p.count)),
                             !.file_transfer_handles = Put(@, o, h),
                             !.writing = Put(@, o, WritingTask(p.group)),
                             !.kernel = Put(@, h, <<>>)], <<>>)

on_file_header_ack_received(c, p) ==
    LET o == p.object_id
        h == <<"Sender", o>>
    IN  IF ~Has(c.outbound_files, o)
        THEN Reply(c, <<>>)
        ELSE IF p.success /\ ~c.outbound_files[o].start
        THEN Reply(c, <<>>)
        ELSE IF p.success
        THEN Reply([c EXCEPT !.outbound_files[o].start = FALSE,
                             !.sending[o].at = "group_sender_rx",
                             !.file_transfer_handles = Put(@, o, h),
                             !.kernel = Put(@, h, <<Status("TransferBeginning", 0)>>)], <<>>)
        ELSE Reply([c EXCEPT !.outbound_files = Without(@, o),
                             !.sending[o].stopped = TRUE,
                             !.sending[o].at = "ended"], <<>>)

\* A duplicate group, or a group of a file that is not there, is not entered; it is answered all the same.
on_group_header_received(c, p) ==
    LET ready == ~Has(c.inbound_groups, p.group) /\ Has(c.inbound_files, p.object_id)
    IN  Reply(IF ready THEN [c EXCEPT !.inbound_groups = Put(@, p.group, GroupReceiverContainer(p.object_id))] ELSE c,
              <<GroupHeaderAck(p.group, FALSE)>>)

\* forward_data_to_ordered_channel: the message goes through its ordered channel and is acknowledged at once,
\* also when it is stored there.
on_message_received(c, p) ==
    LET r == on_packet_received(c.to_channel, p.group, p.group)
    IN  IF r.ok THEN Reply([c EXCEPT !.to_channel = r.channel], <<GroupHeaderAck(p.group, TRUE)>>)
        ELSE Reply(c, <<>>)

\* The payload is drained from a hash map: the order of its packets is anyone's, so any of them.
Orders == {s \in [1..WaveCount -> Wave] : \A i, j \in 1..WaveCount : s[i] = s[j] => i = j}

transmit_tcp_file_transfer(object, g, order) == [i \in 1..WaveCount |-> GroupPayload(object, g, order[i])]

\* An answer to a group whose transmitter is gone ends the session; the invariant below shows there is none.
on_group_header_ack_received(c, p, order) ==
    LET g == p.group
        x == c.outbound_transmitters[g]
    IN  IF ~Has(c.outbound_transmitters, g) THEN Reply(c, <<>>)
        ELSE IF p.fast_msg THEN Reply([c EXCEPT !.outbound_transmitters = Without(@, g)], <<>>)
        ELSE Reply([c EXCEPT !.outbound_transmitters[g].sent = TRUE],
                   IF x.sent THEN <<>> ELSE transmit_tcp_file_transfer(x.object_id, g, order))

\* A mutant: the file is complete with the last group but one.
CompleteEarly(task, total, g) == g >= total - 2

\* The group is the last one if its id, counted from the beginning of the connection, is that of the last.
IsLastGroup(task, total, g) == g = total - 1

\* The group is rendered: its bytes go to the writing task, and with the last group the signal does.
group_complete(c, o, g) ==
    LET w        == c.writing[o]
        rest     == [c EXCEPT !.inbound_groups = Without(@, g), !.writing[o].chunks = Append(@, g - w.first)]
        finished == [rest EXCEPT !.inbound_files = Without(@, o),
                                 !.file_transfer_handles = Without(@, o),
                                 !.writing[o].signal = "sent",
                                 !.writing[o].open = FALSE]
    IN  IF IsLastGroup(w, c.inbound_files[o].total_groups, g)
        THEN finished
        ELSE Tell(rest, c.file_transfer_handles[o], Status("ReceptionTick", g))

\* A chunk that cannot be handed over, the writing task being gone, leaves the group unacknowledged.
on_group_payload_received(c, p) ==
    LET g     == p.group
        o     == c.inbound_groups[g].object_id
        waves == c.inbound_groups[g].waves \cup {p.wave_id}
        ack   == <<WaveAckPacket(p.object_id, g, p.wave_id)>>
    IN  IF ~Has(c.inbound_groups, g) THEN Reply(c, <<>>)
        ELSE IF ~Has(c.inbound_files, o) \/ ~Has(c.file_transfer_handles, o) THEN Reply(c, <<>>)
        ELSE IF waves # Wave THEN Reply([c EXCEPT !.inbound_groups[g].waves = waves], ack)
        ELSE IF c.writing[o].at = "ended" THEN Reply([c EXCEPT !.inbound_groups = Without(@, g)], <<>>)
        ELSE Reply(group_complete(c, o, g), ack)

is_atleast_fifty_percent_done(x) == 3 * Cardinality(x.acked) >= 2 * WaveCount

\* next_group_notifier.unbounded_send(()), at most once for a group
NotifyNextGroup(c, g) ==
    LET x == c.outbound_transmitters[g]
    IN  IF x.notifier
        THEN [c EXCEPT !.outbound_transmitters[g].notifier = FALSE, !.sending[x.object_id].alerts = @ + 1]
        ELSE c

\* The status of a group that is finished goes to the handle; with the last one the handle goes.
TellTransfer(c, x) ==
    LET o    == x.object_id
        last == x.relative_group_id = x.total_groups - 1
        told == Tell(c, c.file_transfer_handles[o],
                     IF last THEN Status("TransferComplete", 0) ELSE Status("TransferTick", x.relative_group_id))
    IN  IF ~Has(c.file_transfer_handles, o) THEN c
        ELSE IF last THEN [told EXCEPT !.file_transfer_handles = Without(@, o)]
        ELSE told

\* A mutant: the next group is never asked for.
NeverWakes(c, p) ==
    LET g     == p.group
        acked == [c EXCEPT !.outbound_transmitters[g].acked = @ \cup {p.wave_id}]
        x     == acked.outbound_transmitters[g]
    IN  IF ~Has(c.outbound_transmitters, g) THEN Reply(c, <<>>)
        ELSE IF x.acked = Wave
             THEN Reply([TellTransfer(acked, x) EXCEPT !.outbound_transmitters = Without(@, g)], <<>>)
        ELSE Reply(acked, <<>>)

on_wave_ack_received(c, p) ==
    LET g     == p.group
        acked == [c EXCEPT !.outbound_transmitters[g].acked = @ \cup {p.wave_id}, !.outbound_transmitters[g].has_begun = TRUE]
        x     == acked.outbound_transmitters[g]
    IN  IF ~Has(c.outbound_transmitters, g) THEN Reply(c, <<>>)
        ELSE IF x.acked = Wave
             THEN Reply([TellTransfer(NotifyNextGroup(acked, g), x) EXCEPT !.outbound_transmitters = Without(@, g)], <<>>)
        ELSE Reply(IF is_atleast_fifty_percent_done(x) THEN NotifyNextGroup(acked, g) ELSE acked, <<>>)

process_packet(c, p, order) ==
    CASE p.type = "FILE_HEADER"                    -> on_file_header_received(c, p)
      [] p.type = "FILE_HEADER_ACK"                -> on_file_header_ack_received(c, p)
      [] p.type = "GROUP_HEADER" /\ p.fast_msg     -> on_message_received(c, p)
      [] p.type = "GROUP_HEADER" /\ ~p.fast_msg    -> on_group_header_received(c, p)
      [] p.type = "GROUP_HEADER_ACK"               -> on_group_header_ack_received(c, p, order)
      [] p.type = "GROUP_PAYLOAD"                  -> on_group_payload_received(c, p)
      [] p.type = "WAVE_ACK"                       -> on_wave_ack_received(c, p)

Receive(n, order) ==
    /\ net[n] # <<>>
    /\ LET r == process_packet(node[n], Head(net[n]), order)
       IN  /\ node' = [node EXCEPT ![n] = r.c]
           /\ net' = [net EXCEPT ![n] = Tail(@), ![Other(n)] = @ \o r.reply]
    /\ UNCHANGED todo

-----------------------------------------------------------------------------
(***************************************************************************)
(* The receiver's kernel and the task that writes the file                 *)
(***************************************************************************)

\* accept and decline of the handle, or the handle dropped: the answer goes out first.  A file declined is
\* forgotten, one whose handle was dropped stays in the maps.
Respond(n, o, response) ==
    LET c == node[n]
    IN  /\ response \in Responses
        /\ c.writing[o].at = "start_recv_rx"
        /\ node' = [node EXCEPT ![n] =
               CASE response = "accept"  -> [c EXCEPT !.writing[o].at = "create"]
                 [] response = "decline" -> [c EXCEPT !.writing[o].at = "ended",
                                                      !.writing[o].open = FALSE,
                                                      !.inbound_files = Without(@, o),
                                                      !.file_transfer_handles = Without(@, o)]
                 [] response = "drop"    -> [c EXCEPT !.writing[o].at = "ended"]]
        /\ net' = [net EXCEPT ![Other(n)] = Append(@, FileHeaderAck(o, response = "accept"))]
        /\ UNCHANGED todo

\* stream_object_to_backend creates the file ...
CreateFile(n, o) ==
    /\ node[n].writing[o].at = "create"
    /\ node' = [node EXCEPT ![n] = Tell([node[n] EXCEPT !.writing[o].at = "copy"],
                                        <<"Receiver", o>>, Status("ReceptionBeginning", 0))]
    /\ UNCHANGED <<todo, net>>

\* ... or fails to, and the task ends without a word to the kernel.
CreateFails(n, o) ==
    /\ MayFail
    /\ node[n].writing[o].at = "create"
    /\ node' = [node EXCEPT ![n].writing[o].at = "ended"]
    /\ UNCHANGED <<todo, net>>

\* The stream of chunks has ended: the entry of the file is gone, and with it the sender of the signal.
WritingEnds(n, o) ==
    LET w == node[n].writing[o]
    IN  /\ w.at = "copy"
        /\ ~w.open
        /\ node' = [node EXCEPT ![n] = Tell([node[n] EXCEPT !.writing[o].at = "ended"], <<"Receiver", o>>,
                                            Status(IF w.signal = "sent" THEN "ReceptionComplete" ELSE "Fail", 0))]
        /\ UNCHANGED <<todo, net>>

-----------------------------------------------------------------------------
FileInit ==
    /\ node = [n \in Node |-> StateContainer]
    /\ todo \in Plans
    /\ net = [n \in Node |-> <<>>]

\* The steps of the tasks ...
SendingStep(n) ==
    \E o \in DOMAIN node[n].sending : Scramble(n, o) \/ NextGroup(n, o) \/ AwaitAlert(n, o) \/ SendingEnds(n, o)

WritingStep(n) == \E o \in DOMAIN node[n].writing : CreateFile(n, o) \/ WritingEnds(n, o)

ReceiveStep(n) == \E order \in Orders : Receive(n, order)

\* ... of the kernels ...
KernelStep(n) ==
    \/ SendFile(n)
    \/ SendMessage(n)
    \/ \E o \in DOMAIN node[n].writing, r \in Responses : Respond(n, o, r)

\* ... and what may go wrong.
Fault(n) ==
    \/ \E o \in DOMAIN node[n].sending : ScrambleFails(n, o)
    \/ \E o \in DOMAIN node[n].writing : CreateFails(n, o)
    \/ \E g \in DOMAIN node[n].outbound_transmitters : OutboundGroupExpires(n, g)

FileNext == \E n \in Node : SendingStep(n) \/ WritingStep(n) \/ ReceiveStep(n) \/ KernelStep(n) \/ Fault(n)

FileSpec == FileInit /\ [][FileNext]_fileVars

\* The executor runs the tasks and the connection delivers; no kernel has to send or to answer.
FileFairness ==
    \A n \in Node :
        WF_fileVars(SendingStep(n)) /\ WF_fileVars(WritingStep(n)) /\ WF_fileVars(ReceiveStep(n))

-----------------------------------------------------------------------------
(***************************************************************************)
(* Properties                                                              *)
(***************************************************************************)

FileTypeOK ==
    /\ \A n \in Node :
          /\ node[n].rolling_group_id \in Nat
          /\ node[n].rolling_object_id \in Nat \ {0}
          /\ \A o \in DOMAIN node[n].sending :
                /\ node[n].sending[o].at \in {"start_rx", "group_sender_rx", "next_gs_alerter", "ended"}
                /\ node[n].sending[o].relative_group_id \in 0..node[n].sending[o].rendered
                /\ node[n].sending[o].rendered \in 0..node[n].sending[o].total
          /\ \A o \in DOMAIN node[n].writing :
                node[n].writing[o].at \in {"start_recv_rx", "create", "copy", "ended"}
          /\ DOMAIN node[n].inbound_files \subseteq DOMAIN node[n].writing
          /\ DOMAIN node[n].outbound_files \subseteq DOMAIN node[n].sending
          /\ \A g \in DOMAIN node[n].outbound_transmitters : node[n].outbound_transmitters[g].acked \subseteq Wave
          /\ \A g \in DOMAIN node[n].inbound_groups : node[n].inbound_groups[g].waves \subseteq Wave
    /\ todo \in [Node -> Seq(Nat)]
    /\ DOMAIN net = Node

Told(n, handle, type) ==
    Has(node[n].kernel, handle) /\ \E i \in 1..Len(node[n].kernel[handle]) : node[n].kernel[handle][i].type = type

\* The object o that n receives is stored as its sender read it: every group, in order, once.
Stored(n, o) ==
    /\ Has(node[n].writing, o)
    /\ node[n].writing[o].chunks = [i \in 1..node[Other(n)].sending[o].total |-> i - 1]

\* A receiver is told ReceptionComplete only of a file all of whose groups were handed to the backend, in
\* order.  The signal is sent on group_id == total_groups - 1 (state_container.rs 1321), an id of the
\* connection compared with a count of the file: the property is stated of a file whose groups begin at 0.
FileIsWhole ==
    \A n \in Node : \A o \in DOMAIN node[n].writing :
        node[n].writing[o].first = 0 /\ Told(n, <<"Receiver", o>>, "ReceptionComplete") => Stored(n, o)

\* The same of every file: "we need only take the sender and send a signal to prove that we finished
\* correctly here" (state_container.rs 1325).
EveryFileIsWhole ==
    \A n \in Node : \A o \in DOMAIN node[n].writing :
        Told(n, <<"Receiver", o>>, "ReceptionComplete") => Stored(n, o)

\* A sender is told TransferComplete only of a file that its receiver has stored whole, whatever the first
\* group, whoever else sends, and though a timeout was reported in between.
SentMeansStored ==
    \A n \in Node : \A o \in DOMAIN node[n].sending :
        Told(n, <<"Sender", o>>, "TransferComplete") => Stored(Other(n), o)

\* The task finds no transmitter under the id of the group it takes next (the assert of session.rs 1491):
\* files and messages that overlap share one counter of group ids.
NextGroupIsFree ==
    \A n \in Node : \A o \in DOMAIN node[n].sending :
        LET t == node[n].sending[o]
        IN  t.at # "ended" /\ t.relative_group_id < t.total =>
                ~Has(node[n].outbound_transmitters, t.first + t.relative_group_id)

\* A GROUP_HEADER_ACK finds the transmitter it answers, or the session would be ended ("TCP sockets
\* disconnected", primary_group_packet.rs 347).
AnswersFindTheirGroup ==
    \A n \in Node : \A i \in 1..Len(net[n]) :
        net[n][i].type = "GROUP_HEADER_ACK" => Has(node[n].outbound_transmitters, net[n][i].group)

\* What the sender's handle is told: the beginning, a tick for each group but the last, in order, the end.
SenderStatuses(total) ==
    <<Status("TransferBeginning", 0)>> \o [i \in 1..total - 1 |-> Status("TransferTick", i - 1)]
        \o <<Status("TransferComplete", 0)>>

\* The statuses of a transfer reach the kernel of the sender in order and none after the end, while groups
\* overlap on the wire (the next one is begun when two thirds of the last are acknowledged).
StatusesInOrder ==
    \A n \in Node : \A o \in DOMAIN node[n].sending :
        Has(node[n].kernel, <<"Sender", o>>) =>
            LET told == node[n].kernel[<<"Sender", o>>]
            IN  /\ Len(told) <= node[n].sending[o].total + 1
                /\ told = SubSeq(SenderStatuses(node[n].sending[o].total), 1, Len(told))

\* The first file of the connection is accepted ...
Accepted(n) == Has(node[n].writing, 1) /\ node[n].writing[1].first = 0 /\ node[n].writing[1].at = "create"

\* ... and arrives: both kernels are told.
Arrived(n) ==
    Told(n, <<"Receiver", 1>>, "ReceptionComplete") /\ Told(Other(n), <<"Sender", 1>>, "TransferComplete")

\* The first file is refused, by an answer or by dropping the handle ...
Refused(n) == Has(node[n].writing, 1) /\ node[n].writing[1].at = "ended" /\ node[n].writing[1].chunks = <<>>

\* ... and the sender's task has ended.
Abandoned(n) ==
    LET c == node[Other(n)]
    IN  Has(c.sending, 1) /\ c.sending[1].at = "ended" /\ ~Has(c.outbound_files, 1)

=============================================================================
