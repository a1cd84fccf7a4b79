---------------------------- MODULE NetSyncStart ----------------------------
(***************************************************************************)
(* sync, sync_exchange_payload and sync_execute: two nodes exchange a      *)
(* payload and start a function at about the same time (sync_start.rs).    *)
(* Each time tracker reads the clock of its own host.  Time is counted on  *)
(* the receiver's clock; the initiator's differs from it by an amount that *)
(* is fixed during the call.                                               *)
(***************************************************************************)
EXTENDS Integers, Sequences

CONSTANTS
    MaxClock,  \* a bound on the clock
    MaxSkew    \* a bound on the difference between the clocks, either way

Node == {"initiator", "receiver"}

Never == MaxClock + 1

VARIABLES
    clock,    \* tt.get_global_time_ns() at the receiver
    skew,     \* how far the initiator's clock is ahead of the receiver's
    step,     \* where the call of each node is
    due,      \* when each node runs its function
    syn,      \* when the receiver sent its Syn
    got,      \* when the Ack reached the initiator
    payload,  \* whose payload each node has received
    started,  \* when each node ran its function
    chan      \* the packet on its way to each node

vars == <<clock, skew, step, due, syn, got, payload, started, chan>>

Init ==
    /\ clock = 0
    /\ skew \in -MaxSkew..MaxSkew
    /\ step = [n \in Node |-> IF n = "receiver" THEN "call" ELSE "syn"]
    /\ due = [n \in Node |-> Never]
    /\ syn = 0
    /\ got = 0
    /\ payload = [n \in Node |-> "none"]
    /\ started = [n \in Node |-> Never]
    /\ chan = [n \in Node |-> <<>>]

Incoming(n, type) == chan[n] # <<>> /\ Head(chan[n]).type = type

\* The receiver calls, and sends its payload.
SendSyn ==
    /\ step["receiver"] = "call"
    /\ step' = [step EXCEPT !["receiver"] = "syn_ack"]
    /\ syn' = clock
    /\ chan' = [chan EXCEPT !["initiator"] = <<[type |-> "Syn", of |-> "receiver"]>>]
    /\ UNCHANGED <<clock, skew, due, got, payload, started>>

\* The initiator takes the payload and answers with its own.
RecvSyn ==
    /\ step["initiator"] = "syn"
    /\ Incoming("initiator", "Syn")
    /\ payload' = [payload EXCEPT !["initiator"] = Head(chan["initiator"]).of]
    /\ step' = [step EXCEPT !["initiator"] = "ack"]
    /\ chan' = [initiator |-> <<>>, receiver |-> <<[type |-> "SynAck", of |-> "initiator"]>>]
    /\ UNCHANGED <<clock, skew, due, syn, got, started>>

\* The receiver measures the round trip and proposes a time one trip ahead.
SyncTime == clock + (clock - syn)

RecvSynAck ==
    /\ step["receiver"] = "syn_ack"
    /\ Incoming("receiver", "SynAck")
    /\ payload' = [payload EXCEPT !["receiver"] = Head(chan["receiver"]).of]
    /\ step' = [step EXCEPT !["receiver"] = "sleep"]
    /\ due' = [due EXCEPT !["receiver"] = SyncTime]
    /\ chan' = [receiver |-> <<>>, initiator |-> <<[type |-> "Ack", of |-> SyncTime]>>]
    /\ UNCHANGED <<clock, skew, syn, got, started>>

\* A mutant: the initiator sleeps for a full trip more.
WakesLate(time) == time + 1

\* The initiator compares the proposed time with its own clock, and sleeps for the
\* difference if it is still ahead.
Wakes(time) == IF time > clock + skew THEN clock + (time - (clock + skew)) ELSE clock

RecvAck ==
    /\ step["initiator"] = "ack"
    /\ Incoming("initiator", "Ack")
    /\ step' = [step EXCEPT !["initiator"] = "sleep"]
    /\ due' = [due EXCEPT !["initiator"] = Wakes(Head(chan["initiator"]).of)]
    /\ got' = clock
    /\ chan' = [chan EXCEPT !["initiator"] = <<>>]
    /\ UNCHANGED <<clock, skew, syn, payload, started>>

\* The sleep ends and the function runs.
Execute(n) ==
    /\ step[n] = "sleep"
    /\ clock = due[n]
    /\ step' = [step EXCEPT ![n] = "done"]
    /\ started' = [started EXCEPT ![n] = clock]
    /\ UNCHANGED <<clock, skew, due, syn, got, payload, chan>>

\* Time passes; a sleep is taken to end on time.
Tick ==
    /\ clock < MaxClock
    /\ \A n \in Node : step[n] = "sleep" => clock < due[n]
    /\ clock' = clock + 1
    /\ UNCHANGED <<skew, step, due, syn, got, payload, started, chan>>

Next ==
    \/ SendSyn \/ RecvSyn \/ RecvSynAck \/ RecvAck \/ Tick
    \/ \E n \in Node : Execute(n)

Spec == Init /\ [][Next]_vars
-----------------------------------------------------------------------------
HasStarted(n) == step[n] = "done"

(***************************************************************************)
(* No function runs before both nodes have the payload of the other.       *)
(***************************************************************************)
ExchangedBeforeStart ==
    (\E n \in Node : HasStarted(n)) =>
        payload = [initiator |-> "receiver", receiver |-> "initiator"]

(***************************************************************************)
(* Both nodes start when their own clocks show the same time, that is as   *)
(* far apart as the clocks are; or that time had passed on the initiator's *)
(* clock when the Ack arrived, and the initiator started at once.  So the  *)
(* functions run "at about the same time" only on hosts whose clocks agree *)
(* and as long as the Ack takes no longer than the round trip before it.   *)
(***************************************************************************)
StartsTogether ==
    (\A n \in Node : HasStarted(n)) =>
        \/ started["initiator"] + skew = started["receiver"]
        \/ started["initiator"] = got /\ got + skew > started["receiver"]
=============================================================================
