----------------------------- MODULE MCSessions -----------------------------
(***************************************************************************)
(* Sessions on small instances, a scene each:                              *)
(*   attempt: one link, for any purpose, that may break anywhere;          *)
(*   refusal: one passwordless link to a server that allows none;          *)
(*   retries: one client logs in by two links, the second one begun when   *)
(*            the first has left the provisional connections.              *)
(***************************************************************************)
EXTENDS Naturals, Sequences, FiniteSets, TLC

CONSTANTS
    Scenes,     \* the scenes to play
    Client1, ServerNode, Link1, Link2, Account, Nothing

VARIABLES scene, link, sess, wire, sessions, prov, acct, toolset, told

vars == <<scene, link, sess, wire, sessions, prov, acct, toolset, told>>

Attempt == INSTANCE Sessions WITH
    Client <- {Client1}, Server <- ServerNode, Link <- {Link1}, User <- Account, None <- Nothing,
    Mode <- {"register", "connect", "force", "fetch", "passwordless"},
    UdpMode <- {"off", "punch", "quic"}, Credentials <- {"right", "wrong"},
    Transient <- TRUE, MayBreak <- TRUE, MayExpire <- TRUE

Refusal == INSTANCE Sessions WITH
    Client <- {Client1}, Server <- ServerNode, Link <- {Link1}, User <- Account, None <- Nothing,
    Mode <- {"passwordless"}, UdpMode <- {"off"}, Credentials <- {"right"},
    Transient <- FALSE, MayBreak <- TRUE, MayExpire <- FALSE

Retries == INSTANCE Sessions WITH
    Client <- {Client1}, Server <- ServerNode, Link <- {Link1, Link2}, User <- Account, None <- Nothing,
    Mode <- {"connect"}, UdpMode <- {"off"}, Credentials <- {"right"},
    Transient <- FALSE, MayBreak <- FALSE, MayExpire <- FALSE

Init ==
    /\ scene \in Scenes
    /\ \/ scene = "attempt" /\ Attempt!Init
       \/ scene = "refusal" /\ Refusal!Init
       \/ scene = "retries" /\ Retries!Init

Next ==
    /\ \/ scene = "attempt" /\ Attempt!Next
       \/ scene = "refusal" /\ Refusal!Next
       \/ scene = "retries" /\ Retries!Next
    /\ UNCHANGED scene

\* What the sessions of the first two scenes do by themselves.
Goes(e) ==
    /\ \/ scene = "attempt" /\ Attempt!Processes(e)
       \/ scene = "refusal" /\ Refusal!Processes(e)
    /\ UNCHANGED scene

Expires(e) ==
    /\ \/ scene = "attempt" /\ Attempt!LoginExpires(e)
       \/ scene = "refusal" /\ Refusal!LoginExpires(e)
    /\ UNCHANGED scene

Arrives ==
    /\ \/ scene = "attempt" /\ Attempt!Inbound(Link1)
       \/ scene = "refusal" /\ Refusal!Inbound(Link1)
    /\ UNCHANGED scene

Spec == Init /\ [][Next]_vars

FairSpec ==
    /\ Spec
    /\ WF_vars(Arrives)
    /\ \A e \in Attempt!End : WF_vars(Goes(e)) /\ WF_vars(Expires(e))

Played(attempt, refusal, retries) ==
    CASE scene = "attempt" -> attempt
      [] scene = "refusal" -> refusal
      [] scene = "retries" -> retries
-----------------------------------------------------------------------------
\* A kernel hears one answer to its request, first, and of one disconnection, last.
OneOutcome == Played(Attempt!OneOutcome, Refusal!OneOutcome, Retries!OneOutcome)

\* What a login brings about comes in order: the server's kernel gets a channel
\* after the client's kernel got its end, and the loader of a UDP connection is
\* alerted by the login, at a client or over QUIC.
LoginInOrder ==
    /\ Played(Attempt!ServerToldAfterClient, Refusal!ServerToldAfterClient, Retries!ServerToldAfterClient)
    /\ Played(Attempt!UdpIsAlertedInOrder, Refusal!UdpIsAlertedInOrder, Retries!UdpIsAlertedInOrder)

\* The two ends of a connected link use the ratchet that this link made.
KeysAgree == Played(Attempt!KeysAgree, Refusal!KeysAgree, Retries!KeysAgree)

\* A client's manager finds under an account a session of it that is not shut down.
ClientEntryIsLive ==
    /\ Played(Attempt!TypeOK, Refusal!TypeOK, Retries!TypeOK)
    /\ Played(Attempt!ClientEntryIsLive, Refusal!ClientEntryIsLive, Retries!ClientEntryIsLive)

\* Every attempt to register or to connect is answered, wherever the link breaks.
EveryAttemptAnswered ==
    (scene \in {"attempt", "refusal"} /\ Attempt!Attempted(Link1)) ~> Attempt!Answered(Link1)
=============================================================================
