------------------------------ MODULE MCPeers ------------------------------
(***************************************************************************)
(* The peer layer on small instances, a scene each.  Two peers             *)
(*   connect:  ask each other for connections, one exchange at a time, and *)
(*             for the list of peers;                                      *)
(*   drop:     do so and drop the channels;                                *)
(*   register: register and deregister;                                    *)
(*   overlap:  ask each other while another exchange is under way;         *)
(*   leave:    register, with sessions that end, begin and time out;       *)
(*   part:     connect, with sessions that end and begin;                  *)
(*   decline:  as connect, but a request may be declined.                  *)
(* And a message group                                                     *)
(*   founded:  of two, with all that can happen to an invited member;      *)
(*   public:   of two, that anyone may join, with sessions that end;       *)
(*   rejoin:   of two, that members of it leave and join again;            *)
(*   three:    of three, that accept while the group may end;              *)
(*   invite:   of two, the second invited once the group is there.         *)
(***************************************************************************)
EXTENDS Naturals, Sequences, FiniteSets, TLC

CONSTANTS Scenes, Peer1, Peer2, Peer3

VARIABLES scene, client, up, down, server, req, group, rest, cmd

vars == <<scene, client, up, down, server, req, group, rest, cmd>>

Connects == INSTANCE Peers WITH
    Cid <- {Peer1, Peer2}, Requests <- {"connect", "list"}, Responses <- {"accept"}, MaxTicket <- 3, Leavers <- {}, MaxLogin <- 1,
    MayExpire <- FALSE, MayDrop <- FALSE, Overlaps <- FALSE

Drops == INSTANCE Peers WITH
    Cid <- {Peer1, Peer2}, Requests <- {"connect"}, Responses <- {"accept"}, MaxTicket <- 2, Leavers <- {}, MaxLogin <- 1,
    MayExpire <- FALSE, MayDrop <- TRUE, Overlaps <- FALSE

Crosses == INSTANCE Peers WITH
    Cid <- {Peer1, Peer2}, Requests <- {"connect"}, Responses <- {"accept"}, MaxTicket <- 2, Leavers <- {}, MaxLogin <- 1,
    MayExpire <- FALSE, MayDrop <- FALSE, Overlaps <- TRUE

Registers == INSTANCE Peers WITH
    Cid <- {Peer1, Peer2}, Requests <- {"register", "deregister"}, Responses <- {"accept", "decline"},
    MaxTicket <- 3, Leavers <- {}, MaxLogin <- 1, MayExpire <- FALSE, MayDrop <- FALSE, Overlaps <- FALSE

Leaves == INSTANCE Peers WITH
    Cid <- {Peer1, Peer2}, Requests <- {"register"}, Responses <- {"accept"}, MaxTicket <- 2, Leavers <- {Peer2}, MaxLogin <- 2,
    MayExpire <- TRUE, MayDrop <- FALSE, Overlaps <- FALSE

Parts == INSTANCE Peers WITH
    Cid <- {Peer1, Peer2}, Requests <- {"connect"}, Responses <- {"accept"}, MaxTicket <- 2, Leavers <- {Peer2}, MaxLogin <- 2,
    MayExpire <- FALSE, MayDrop <- FALSE, Overlaps <- FALSE

Declines == INSTANCE Peers WITH
    Cid <- {Peer1, Peer2}, Requests <- {"connect"}, Responses <- {"accept", "decline"}, MaxTicket <- 2, Leavers <- {}, MaxLogin <- 1,
    MayExpire <- FALSE, MayDrop <- FALSE, Overlaps <- FALSE

Founded == INSTANCE Groups WITH
    Member <- {Peer1, Peer2}, Owner <- Peer1, MaxCommand <- 4, MayDisconnect <- FALSE,
    Commands <- {"CreatePrivate", "AcceptMembership", "DeclineMembership", "Message", "Kick", "LeaveRoom", "End"}

Public == INSTANCE Groups WITH
    Member <- {Peer1, Peer2}, Owner <- Peer1, MaxCommand <- 3, MayDisconnect <- TRUE,
    Commands <- {"CreatePublic", "CreatePrivate", "RequestJoin", "Message", "ListGroupsFor"}

Rejoin == INSTANCE Groups WITH
    Member <- {Peer1, Peer2}, Owner <- Peer1, MaxCommand <- 4, MayDisconnect <- FALSE,
    Commands <- {"CreatePublic", "RequestJoin", "LeaveRoom"}

Three == INSTANCE Groups WITH
    Member <- {Peer1, Peer2, Peer3}, Owner <- Peer1, MaxCommand <- 4, MayDisconnect <- FALSE,
    Commands <- {"CreatePrivate", "AcceptMembership", "End"}

Invite == INSTANCE Groups WITH
    Member <- {Peer1, Peer2}, Owner <- Peer1, MaxCommand <- 3, MayDisconnect <- FALSE,
    Commands <- {"CreatePrivate", "AcceptMembership", "Add", "Message"}

PeerScenes == {"connect", "drop", "overlap", "register", "leave", "part", "decline"}
GroupScenes == {"founded", "public", "rejoin", "three", "invite"}

Init ==
    /\ scene \in Scenes
    /\ \/ scene \in PeerScenes /\ group = 0 /\ rest = 0 /\ cmd = 0
       \/ scene \in GroupScenes /\ server = 0 /\ req = 0
    /\ \/ scene = "connect" /\ Connects!Init
       \/ scene = "drop" /\ Drops!Init
       \/ scene = "overlap" /\ Crosses!Init
       \/ scene = "register" /\ Registers!Init
       \/ scene = "leave" /\ Leaves!Init
       \/ scene = "part" /\ Parts!Init
       \/ scene = "decline" /\ Declines!Init
       \/ scene = "founded" /\ Founded!Init
       \/ scene = "public" /\ Public!Init
       \/ scene = "rejoin" /\ Rejoin!Init
       \/ scene = "three" /\ Three!Init
       \/ scene = "invite" /\ Invite!Init

Next ==
    \/ /\ \/ scene = "connect" /\ Connects!Next
          \/ scene = "drop" /\ Drops!Next
          \/ scene = "overlap" /\ Crosses!Next
          \/ scene = "register" /\ Registers!Next
          \/ scene = "leave" /\ Leaves!Next
          \/ scene = "part" /\ Parts!Next
          \/ scene = "decline" /\ Declines!Next
       /\ UNCHANGED <<scene, group, rest, cmd>>
    \/ /\ \/ scene = "founded" /\ Founded!Next
          \/ scene = "public" /\ Public!Next
          \/ scene = "rejoin" /\ Rejoin!Next
          \/ scene = "three" /\ Three!Next
          \/ scene = "invite" /\ Invite!Next
       /\ UNCHANGED <<scene, server, req>>

\* The sessions run on, in the scenes liveness is about.
Progress ==
    \/ /\ \/ scene = "connect" /\ Connects!Progress
          \/ scene = "drop" /\ Drops!Progress
          \/ scene = "register" /\ Registers!Progress
       /\ UNCHANGED <<scene, group, rest, cmd>>
    \/ /\ \/ scene = "founded" /\ Founded!Progress
          \/ scene = "public" /\ Public!Progress
          \/ scene = "invite" /\ Invite!Progress
       /\ UNCHANGED <<scene, server, req>>

Spec == Init /\ [][Next]_vars

FairSpec == Spec /\ WF_vars(Progress)
-----------------------------------------------------------------------------
\* A property of the group, which has two members or three.
OfGroup(two, three) ==
    /\ scene \in GroupScenes \ {"three"} => two
    /\ scene = "three" => three

\* Once a kernel has been given an answer to its ticket, no later signal
\* (process_peer_cmd, the timeout of a posting, the end of a key exchange) gives
\* it a different one, unless a peer's session ends during the key exchange.
OneAnswer == [][(scene \in PeerScenes \ {"part", "decline"}) => (Connects!KeepsAnswers)]_vars

\* So it is when a request may be declined: what follows a refusal is the answer
\* to another ticket.
OneAnswerAfterDecline == [][(scene = "decline") => (Connects!KeepsAnswers)]_vars

\* The server lists two accounts as mutual peers at both or at neither, however
\* registrations and deregistrations of the two overlap; a registration the kernel
\* was told is accepted is on the lists once its task has run, unless the peers
\* deregister or sessions end.
RegistrationsHold ==
    /\ scene \in PeerScenes => Leaves!TypeOK /\ Connects!MutualsAgree
    /\ scene = "register" => Connects!AcceptedIsRegistered

\* A session that ends finds itself listed in the virtual connections of every
\* peer it is connected to, unless a disconnection of the two is half way or was
\* half way when they were connected.  With nothing in flight, two peers with an active
\* connection to each other hold the same key and one of them is its initiator,
\* and, unless channels are dropped or sessions end, a connection that is active
\* at one end is active at the other.
ConnectionsHold ==
    /\ scene \in PeerScenes => Connects!VconnsAreListed /\ Connects!ChannelKeysAgree
    /\ scene \in {"connect", "register"} => Connects!ActiveAtBothEnds

\* A peer invited by the creation of the group is not refused when it accepts;
\* with nothing in flight every member the server broadcasts to has a channel; and
\* no group signal ends a session with an error, as long as no member that left
\* comes back.
GroupsHold ==
    /\ OfGroup(Founded!TypeOK, Three!TypeOK)
    /\ OfGroup(Founded!InvitationHonoured, Three!InvitationHonoured)
    /\ OfGroup(Founded!MembersHaveChannels, Three!MembersHaveChannels)
    /\ scene # "rejoin" => OfGroup(Founded!SessionSurvives, Three!SessionSurvives)

\* Every request to a peer is answered while the sessions last: a kernel that waits
\* for an answer comes to wait for none (of finitely many).
EveryRequestAnswered ==
    (scene \in {"connect", "drop", "register"} /\ Connects!Waiting) ~>
        (scene \in {"connect", "drop", "register"} /\ ~Connects!Waiting)

\* Every command of a group is answered, or the session that gave it has ended.
EveryCommandAnswered ==
    (scene \in {"founded", "public", "invite"} /\ Founded!Waiting) ~>
        (scene \in {"founded", "public", "invite"} /\ ~Founded!Waiting)
=============================================================================
