------------------------------- MODULE Groups -------------------------------
(***************************************************************************)
(* A message group: a set of clients that broadcast to each other through  *)
(* the server.  The server keeps the group (its members and the peers that *)
(* were invited and have not accepted) in the owner's map of the peer      *)
(* layer; each member's session keeps the sending end of the channel that  *)
(* the member's kernel reads.                                              *)
(*                                                                         *)
(* A handler of the server awaits the lock of the peer layer and sends     *)
(* afterwards, so what it sends may be decided before, and sent after, a   *)
(* step of another session's handler: `rest' holds the handlers that are   *)
(* between the two.                                                        *)
(***************************************************************************)
EXTENDS Naturals, Sequences, FiniteSets, SequencesExt

CONSTANTS
    Member,       \* the clients
    Owner,        \* the one that creates the group
    Commands,     \* the kinds of command the kernels give
    MaxCommand,   \* bound on the number of commands
    MayDisconnect \* may a session end?

VARIABLES
    group,   \* the server's record of the group
    client,  \* what each client's session and kernel hold
    rest,    \* the handlers of the server that have something left to send
    up,      \* signals from each client to the server
    down,    \* signals from the server to each client
    cmd      \* the commands given so far: by, kind and the answer

vars == <<group, client, rest, up, down, cmd>>

Ticket == DOMAIN cmd

NoGroup == [exists |-> FALSE, public |-> FALSE, members |-> {}, pending |-> {}, founding |-> {}]

NoChannel == [session |-> "on", channel |-> FALSE, held |-> 0, invited |-> FALSE, asked |-> FALSE]

Init ==
    /\ group = NoGroup
    /\ client = [c \in Member |-> NoChannel]
    /\ rest = {}
    /\ up = [c \in Member |-> <<>>]
    /\ down = [c \in Member |-> <<>>]
    /\ cmd = <<>>

On(c) == client[c].session = "on"

\* The kernel holds a channel, open or closed.
Holds(c) == client[c].held > 0

(***************************************************************************)
(* Signals: the kind, the ticket, the outcome and the peers they name.     *)
(***************************************************************************)
GroupBroadcast(kind, ticket, ok, peers) == [kind |-> kind, ticket |-> ticket, ok |-> ok, peers |-> peers]

\* A reply, and what is broadcast beside it.
Reply(kind, ticket, ok) == GroupBroadcast(kind, ticket, ok, {})

\* send_group_broadcast_signal_to: a peer without a session gets mail instead.
Sends(d, peers, s) == [c \in Member |-> IF c \in peers /\ On(c) THEN Append(d[c], s) ELSE d[c]]

Told(t, answer) == IF t \in Ticket /\ cmd[t].told = "none" THEN [cmd EXCEPT ![t].told = answer] ELSE cmd

(***************************************************************************)
(* The kernels' commands.                                                  *)
(***************************************************************************)
\* process_outbound_broadcast_command sends these kinds and no other.  Commands
\* are numbered here; the ones given through a channel all carry its ticket.
Gives(c, kind, peers) ==
    /\ On(c) /\ kind \in Commands /\ Len(cmd) < MaxCommand
    /\ cmd' = Append(cmd, [by |-> c, kind |-> kind, told |-> "none"])
    /\ up' = [up EXCEPT ![c] = Append(@, GroupBroadcast(kind, Len(cmd) + 1, FALSE, peers))]
    /\ UNCHANGED <<group, rest, down>>

Create(kind, peers) ==
    /\ \A t \in Ticket : cmd[t].by # Owner
    /\ Gives(Owner, kind, peers)
    /\ UNCHANGED client

\* The group id is chosen by the owner's kernel, which hands it out.
RequestJoin(c) ==
    /\ group.exists /\ c # Owner /\ ~Holds(c)
    /\ \A t \in Ticket : cmd[t].by = c /\ cmd[t].kind = "RequestJoin" => cmd[t].told # "none"
    /\ Gives(c, "RequestJoin", {})
    /\ UNCHANGED client

AcceptMembership(c) ==
    /\ client[c].invited \/ client[c].asked
    /\ Gives(c, "AcceptMembership", {})
    /\ client' = [client EXCEPT ![c].invited = FALSE, ![c].asked = FALSE]

\* DeclineMembership is not a valid request: the kernel gets an error and the
\* server hears nothing.
DeclineMembership(c) ==
    /\ client[c].invited /\ "DeclineMembership" \in Commands /\ On(c) /\ Len(cmd) < MaxCommand
    /\ cmd' = Append(cmd, [by |-> c, kind |-> "DeclineMembership", told |-> "refused"])
    /\ client' = [client EXCEPT ![c].invited = FALSE]
    /\ UNCHANGED <<group, rest, up, down>>

\* Through the channel: anyone may send; inviting and kicking is the owner's.
send_message(c) == Holds(c) /\ Gives(c, "Message", {}) /\ UNCHANGED client
invite(p) == Holds(Owner) /\ p # Owner /\ Gives(Owner, "Add", {p}) /\ UNCHANGED client
kick(p) == Holds(Owner) /\ p # Owner /\ Gives(Owner, "Kick", {p}) /\ UNCHANGED client
End == Holds(Owner) /\ Gives(Owner, "End", {}) /\ UNCHANGED client
ListGroupsFor(c) == Gives(c, "ListGroupsFor", {}) /\ UNCHANGED client

\* The receiving half of a channel is dropped, of one that is closed as well.
LeaveRoom(c) ==
    /\ Holds(c)
    /\ Gives(c, "LeaveRoom", {c})
    /\ client' = [client EXCEPT ![c].held = @ - 1]

(***************************************************************************)
(* The server.  A handler changes the group under the lock and leaves the  *)
(* rest: what is still to be sent to whom, and the reply.                  *)
(***************************************************************************)
Takes(c, kind) ==
    /\ On(c) /\ up[c] # <<>> /\ Head(up[c]).kind = kind
    /\ up' = [up EXCEPT ![c] = Tail(@)]
    /\ UNCHANGED <<client, cmd>>

Rest(then, by, sends, reply) == [then |-> then, by |-> by, sends |-> sends, reply |-> reply]

\* Nothing happens under the lock but what `g' says.
Leaves(g, handler) == group' = g /\ rest' = rest \cup {handler} /\ UNCHANGED down

\* create_new_message_group: the peers are pending before they are invited.
create_new_message_group(public, peers) ==
    [exists |-> TRUE, public |-> public, members |-> {Owner}, pending |-> peers, founding |-> peers]

CreateHandler(kind) ==
    LET s == Head(up[Owner]) IN
    /\ Takes(Owner, kind)
    /\ Leaves(create_new_message_group(kind = "CreatePublic", s.peers),
              Rest("reply", Owner, << <<s.peers, GroupBroadcast("Invitation", s.ticket, TRUE, {})>> >>,
                   Reply("CreateResponse", s.ticket, TRUE)))

\* A public group takes the peer in; otherwise the owner is asked.
request_join(c) == IF group.public THEN [group EXCEPT !.members = @ \cup {c}] ELSE group

RequestJoinHandler(c) ==
    LET s == Head(up[c]) IN
    /\ Takes(c, "RequestJoin")
    /\ Leaves(IF group.exists THEN request_join(c) ELSE group,
              CASE ~group.exists -> Rest("reply", c, <<>>, Reply("GroupNonExists", s.ticket, FALSE))
                [] group.exists /\ group.public ->
                     Rest("reply", c, <<>>, Reply("AcceptMembershipResponse", s.ticket, TRUE))
                [] OTHER -> Rest("reply", c, << <<{Owner}, GroupBroadcast("RequestJoin", s.ticket, TRUE, {})>> >>,
                                 Reply("SignalResponse", s.ticket, On(Owner))))

\* The sender itself is upgraded, if it is pending.
upgrade_peer_in_group(c) ==
    IF c \in group.pending THEN [group EXCEPT !.pending = @ \ {c}, !.members = @ \cup {c}] ELSE group

AcceptMembershipHandler(c) ==
    LET s == Head(up[c])  success == group.exists /\ c \in group.pending IN
    /\ Takes(c, "AcceptMembership")
    /\ Leaves(upgrade_peer_in_group(c),
              Rest(IF success THEN "entered" ELSE "reply", c, <<>>,
                   Reply("AcceptMembershipResponse", s.ticket, success)))

\* get_peers_in_message_group, without the sender; none when the group is gone.
Broadcastees(c) == group.members \ {c}

\* The members are looked up for the broadcast after the upgrade.
EnteredGroup(h) ==
    /\ h \in rest /\ h.then = "entered"
    /\ rest' = (rest \ {h}) \cup
         {Rest("reply", h.by, << <<Broadcastees(h.by), GroupBroadcast("MemberStateChanged", 0, TRUE, {h.by})>> >>, h.reply)}
    /\ UNCHANGED <<group, client, up, down, cmd>>

MessageHandler(c) ==
    LET s == Head(up[c]) IN
    /\ Takes(c, "Message")
    /\ Leaves(group, Rest("reply", c, << <<Broadcastees(c), s>> >>, Reply("MessageResponse", s.ticket, group.members # {})))

\* The invitation is sent first; the peer is pending after that.
AddHandler(c) ==
    LET s == Head(up[c]) IN
    /\ Takes(c, "Add")
    /\ down' = IF group.exists THEN Sends(down, s.peers, GroupBroadcast("Invitation", s.ticket, TRUE, {})) ELSE down
    /\ rest' = rest \cup {IF group.exists
                          THEN Rest("pending", c, << <<s.peers, s>> >>, Reply("AddResponse", s.ticket, TRUE))
                          ELSE Rest("reply", c, <<>>, Reply("GroupNonExists", s.ticket, FALSE))}
    /\ UNCHANGED group

add_pending_peers_to_group(h) ==
    /\ h \in rest /\ h.then = "pending"
    /\ group' = IF group.exists THEN [group EXCEPT !.pending = @ \cup h.sends[1][1]] ELSE group
    /\ rest' = (rest \ {h}) \cup {Rest("reply", h.by, <<>>, h.reply)}
    /\ UNCHANGED <<client, up, down, cmd>>

\* A mutant: those who leave stay on the list.
RemoveNobody(peers) == group

remove_peers_from_message_group(peers) == [group EXCEPT !.members = @ \ peers]

\* Those who are kicked are told so, those who remain are told who left.
kick_from_message_group(c, peers, mode) ==
    LET removed == peers \cap group.members
        remaining == group.members \ (peers \cup {c})
    IN  (IF mode = "Kick" THEN << <<removed \ {c}, GroupBroadcast("Disconnected", 0, TRUE, {})>> >> ELSE <<>>)
        \o << <<remaining, GroupBroadcast("MemberStateChanged", 0, FALSE, removed)>> >>

KickHandler(c) ==
    LET s == Head(up[c]) IN
    /\ Takes(c, "Kick")
    /\ Leaves(remove_peers_from_message_group(s.peers),
              Rest("reply", c, IF group.exists THEN kick_from_message_group(c, s.peers, "Kick") ELSE <<>>,
                   Reply("KickResponse", s.ticket, group.exists)))

\* A mutant: a member that leaves gets no reply.
LeaveUnanswered(c) ==
    /\ Takes(c, "LeaveRoom")
    /\ group' = remove_peers_from_message_group({c})
    /\ UNCHANGED <<rest, down>>

LeaveRoomHandler(c) ==
    LET s == Head(up[c]) IN
    /\ Takes(c, "LeaveRoom")
    /\ Leaves(remove_peers_from_message_group({c}),
              Rest("reply", c, IF group.exists THEN kick_from_message_group(c, {c}, "Leave") ELSE <<>>,
                   Reply("LeaveRoomResponse", s.ticket, group.exists)))

remove_message_group(c) == << <<group.members \ {c}, GroupBroadcast("Disconnected", 0, TRUE, {})>> >>

EndHandler(c) ==
    LET s == Head(up[c]) IN
    /\ Takes(c, "End")
    /\ Leaves(NoGroup, Rest("reply", c, remove_message_group(c), Reply("EndResponse", s.ticket, group.exists)))

ListHandler(c) ==
    LET s == Head(up[c]) IN
    /\ Takes(c, "ListGroupsFor")
    /\ Leaves(group, Rest("reply", c, <<>>, Reply("ListResponse", s.ticket, TRUE)))

\* The rest of a handler: what it still sends, then the reply.
Finish(h) ==
    /\ h \in rest /\ h.then = "reply"
    /\ down' = Sends(FoldLeft(LAMBDA d, x : Sends(d, x[1], x[2]), down, h.sends), {h.by}, h.reply)
    /\ rest' = rest \ {h}
    /\ UNCHANGED <<group, client, up, cmd>>

(***************************************************************************)
(* A client.                                                               *)
(***************************************************************************)
Hears(c, kinds) ==
    /\ On(c) /\ down[c] # <<>> /\ Head(down[c]).kind \in kinds
    /\ down' = [down EXCEPT ![c] = Tail(@)]
    /\ UNCHANGED <<group, rest>>

Settled(s) == IF s.ok THEN "done" ELSE "refused"

\* setup_group_channel_endpoints: a second channel of the same group is an error
\* of the handler, which ends the session.
create_group_channel(c) ==
    LET s == Head(down[c]) IN
    /\ Hears(c, {"CreateResponse", "AcceptMembershipResponse"}) /\ s.ok
    /\ ~client[c].channel
    /\ client' = [client EXCEPT ![c].channel = TRUE, ![c].held = @ + 1]
    /\ cmd' = Told(s.ticket, "done")
    /\ UNCHANGED up

\* What a session loses when it ends; its kernel waits for nothing any more.
Ends(c, how) ==
    /\ client' = [client EXCEPT ![c] = [NoChannel EXCEPT !.session = how]]
    /\ up' = [up EXCEPT ![c] = <<>>]
    /\ down' = [down EXCEPT ![c] = <<>>]
    /\ cmd' = [t \in Ticket |-> IF cmd[t].by = c /\ cmd[t].told = "none" THEN [cmd[t] EXCEPT !.told = "lost"] ELSE cmd[t]]

ChannelExists(c) ==
    /\ On(c) /\ down[c] # <<>> /\ client[c].channel
    /\ Head(down[c]).kind \in {"CreateResponse", "AcceptMembershipResponse"} /\ Head(down[c]).ok
    /\ Ends(c, "failed")
    /\ UNCHANGED <<group, rest>>

\* An answer ends the wait for its ticket; an invitation or a request to join
\* goes to the channel if there is one and to the kernel if there is none.
forward_signal(c) ==
    LET s == Head(down[c]) IN
    /\ \/ Hears(c, {"Invitation", "RequestJoin", "Message", "MemberStateChanged", "SignalResponse", "ListResponse",
                    "MessageResponse", "AddResponse", "KickResponse", "GroupNonExists"})
       \/ Hears(c, {"CreateResponse", "AcceptMembershipResponse"}) /\ ~s.ok
    /\ client' = [client EXCEPT ![c].invited = @ \/ (s.kind = "Invitation" /\ ~client[c].channel),
                                ![c].asked = @ \/ s.kind = "RequestJoin"]
    /\ cmd' = IF s.kind \in {"Invitation", "RequestJoin", "Message"} THEN cmd ELSE Told(s.ticket, Settled(s))
    /\ UNCHANGED up

\* These take the channel out of the session whatever the outcome is.  The kernel
\* keeps its end until it drops it.
ChannelRemoved(c) ==
    LET s == Head(down[c]) IN
    /\ Hears(c, {"EndResponse", "Disconnected", "LeaveRoomResponse"})
    /\ client' = [client EXCEPT ![c].channel = FALSE]
    /\ cmd' = Told(s.ticket, Settled(s))
    /\ UNCHANGED up

(***************************************************************************)
(* A session ends.  on_session_shutdown forgets the groups the client      *)
(* owns; the ones it is a member of keep it.                               *)
(***************************************************************************)
Disconnects(c) ==
    /\ MayDisconnect /\ On(c) /\ cmd # <<>>
    /\ Ends(c, "left")
    /\ UNCHANGED <<group, rest>>

on_session_shutdown ==
    /\ ~On(Owner) /\ group # NoGroup
    /\ group' = NoGroup
    /\ UNCHANGED <<client, rest, up, down, cmd>>

Given ==
    \/ \E peers \in SUBSET (Member \ {Owner}), kind \in {"CreatePublic", "CreatePrivate"} : Create(kind, peers)
    \/ \E c \in Member : \/ RequestJoin(c) \/ AcceptMembership(c) \/ DeclineMembership(c)
                         \/ send_message(c) \/ LeaveRoom(c) \/ ListGroupsFor(c)
    \/ \E p \in Member : invite(p) \/ kick(p)
    \/ End

Handled ==
    \/ \E kind \in {"CreatePublic", "CreatePrivate"} : CreateHandler(kind)
    \/ \E c \in Member : \/ RequestJoinHandler(c) \/ AcceptMembershipHandler(c) \/ MessageHandler(c)
                         \/ AddHandler(c) \/ KickHandler(c) \/ LeaveRoomHandler(c) \/ EndHandler(c) \/ ListHandler(c)
    \/ \E h \in rest : EnteredGroup(h) \/ add_pending_peers_to_group(h) \/ Finish(h)

Heard == \E c \in Member : create_group_channel(c) \/ ChannelExists(c) \/ forward_signal(c) \/ ChannelRemoved(c)

Next == Given \/ Handled \/ Heard \/ (\E c \in Member : Disconnects(c)) \/ on_session_shutdown

Spec == Init /\ [][Next]_vars

\* The server's handlers and the clients' sessions run on.
Progress == Handled \/ Heard \/ on_session_shutdown

FairSpec == Spec /\ WF_vars(Progress)

(***************************************************************************)
(* Properties.                                                             *)
(***************************************************************************)
TypeOK ==
    /\ group.members \subseteq Member /\ group.pending \subseteq Member
    /\ \A c \in Member : client[c].session \in {"on", "left", "failed"}
    /\ \A h \in rest : h.by \in Member /\ h.then \in {"reply", "entered", "pending"}
    /\ \A t \in Ticket : cmd[t].told \in {"none", "done", "refused", "lost"}

\* A peer that was invited when the group was created is not refused the first
\* time it accepts, as long as there is a group: the peers are pending before the
\* first invitation leaves the server.
InvitationHonoured ==
    \A t \in Ticket :
        LET first == \A u \in 1 .. t - 1 : cmd[u].kind = "AcceptMembership" => cmd[u].by # cmd[t].by IN
        cmd[t].kind = "AcceptMembership" /\ cmd[t].told = "refused" /\ first =>
            ~group.exists \/ cmd[t].by \notin group.founding

\* The owner's acceptance of a request to join is honoured in the same way.
JoinHonoured ==
    \A t \in Ticket : cmd[t].kind = "AcceptMembership" /\ cmd[t].by = Owner => cmd[t].told # "refused"

Quiet == rest = {} /\ \A c \in Member : up[c] = <<>> /\ down[c] = <<>>

\* When nothing is in flight, a member the server broadcasts to has a channel
\* the messages go to.
MembersHaveChannels ==
    Quiet => \A c \in group.members : On(c) => client[c].channel

\* When nothing is in flight, a client with a channel is a member of the group.
ChannelsAreMembers ==
    Quiet => \A c \in Member : client[c].channel => c \in group.members

\* No group signal makes a session fail.
SessionSurvives == \A c \in Member : client[c].session # "failed"

\* A kernel waits for an answer.
Waiting == \E t \in Ticket : cmd[t].told = "none"
=============================================================================
