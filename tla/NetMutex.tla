------------------------------ MODULE NetMutex ------------------------------
(***************************************************************************)
(* netbeam's mutex shared by two nodes (net_mutex.rs), once it has been    *)
(* established.  Each node keeps a copy of the value behind a local tokio  *)
(* mutex, and only the task that owns this local mutex reads the stream    *)
(* from the other node.  Three tasks of a node compete for it: the         *)
(* background handler, the acquirer (a call of lock()) and the code that   *)
(* runs after a guard was dropped.                                         *)
(***************************************************************************)
EXTENDS Naturals, Sequences

CONSTANTS
    Node,       \* the two nodes
    MaxTime,    \* request times are 1 .. MaxTime; the clocks are not synchronised
    MayHalt     \* whether a node may drop its NetMutex

ASSUME NetMutexAssumption ==
    /\ \E i, r \in Node : i # r /\ Node = {i, r}
    /\ MaxTime \in Nat

VARIABLES
    node,    \* the state of each node, see NodeType
    chan,    \* the packets on their way to each node, in order
    latest   \* the value of the guard that was dropped last

vars == <<node, chan, latest>>

Peer(n) == CHOOSE m \in Node : m # n

Ended == {"dead", "panicked"}

NodeType == [
    owner   : {"none", "bg", "app", "drop"},   \* the task that owns the local mutex
    app     : {"idle", "signal", "called", "queued", "granted", "wait", "yield", "hold"},
    drop    : {"none", "spawned", "wait", "flagged", "yield"},
    bg      : {"top", "listen", "asleep", "yield"} \cup Ended,
    sig     : BOOLEAN,      \* the channel to the background, which holds one signal
    alerts  : Nat,          \* spawned senders that have not sent their signal yet
    value   : Nat,          \* the local copy of the value
    time    : 0 .. MaxTime, \* the time of the latest request
    dropped : {"no", "spawned", "sent"}]       \* the NetMutex, and its Halt

TryAcquire(t)    == [type |-> "TryAcquire", time |-> t]
Released(v)      == [type |-> "Released", value |-> v]
LockAcquired     == [type |-> "LockAcquired"]
ReleasedVerified == [type |-> "ReleasedVerified"]
Halt             == [type |-> "Halt"]

Packet == [type : {"TryAcquire"}, time : 1 .. MaxTime] \cup [type : {"Released"}, value : Nat]
             \cup {LockAcquired, ReleasedVerified, Halt}

Init ==
    /\ node = [n \in Node |->
         [owner |-> "none", app |-> "idle", drop |-> "none", bg |-> "top", sig |-> FALSE,
          alerts |-> 0, value |-> 0, time |-> 0, dropped |-> "no"]]
    /\ chan = [n \in Node |-> <<>>]
    /\ latest = 0
-----------------------------------------------------------------------------
(***************************************************************************)
(* The local mutex is fair: when it is freed it goes to the acquirer that  *)
(* is queued for it, and only otherwise is it there for try_lock_owned.    *)
(***************************************************************************)
Freed(s) ==
    IF s.app = "queued" THEN [s EXCEPT !.owner = "app", !.app = "granted"]
                        ELSE [s EXCEPT !.owner = "none"]

\* LocalLockHolder::drop, of a holder that is not the background's.
DropHolder(s) == [Freed(s) EXCEPT !.alerts = @ + 1]

Becomes(n, s) == node' = [node EXCEPT ![n] = s]

Send(n, packet) == chan' = [chan EXCEPT ![Peer(n)] = Append(@, packet)]

\* The task that owns the local mutex of n has a packet of such a type to read.
Reads(n, task, types) ==
    /\ node[n].owner = task
    /\ chan[n] # <<>>
    /\ Head(chan[n]).type \in types

\* That packet is consumed and answered with packets.
Answer(n, packets) ==
    chan' = [chan EXCEPT ![n] = Tail(@), ![Peer(n)] = @ \o packets]
-----------------------------------------------------------------------------
(* The acquirer *)

Lock(n) ==
    /\ node[n].app = "idle"
    /\ node[n].dropped = "no"
    /\ node[n].time < MaxTime
    /\ node' = [node EXCEPT ![n].app = "signal"]
    /\ UNCHANGED <<chan, latest>>

\* bg_stop_signaller.send, an error once the background has ended.
Signal(n) ==
    /\ node[n].app = "signal"
    /\ \/ /\ node[n].bg \in Ended
          /\ node' = [node EXCEPT ![n].app = "idle"]
       \/ /\ node[n].bg \notin Ended
          /\ ~node[n].sig
          /\ node' = [node EXCEPT ![n].app = "called", ![n].sig = TRUE]
    /\ UNCHANGED <<chan, latest>>

LockOwned(n) ==
    /\ node[n].app = "called"
    /\ node' = [node EXCEPT ![n] =
         IF @.owner = "none" THEN [@ EXCEPT !.owner = "app", !.app = "granted"]
                             ELSE [@ EXCEPT !.app = "queued"]]
    /\ UNCHANGED <<chan, latest>>

Request(n) ==
    /\ node[n].app = "granted"
    /\ \E t \in node[n].time + 1 .. MaxTime :
          /\ node' = [node EXCEPT ![n].app = "wait", ![n].time = t]
          /\ Send(n, TryAcquire(t))
    /\ UNCHANGED latest

\* A mutant: the value is not taken over.
AcquireStale(n) ==
    /\ node[n].app = "wait"
    /\ Reads(n, "app", {"Released"})
    /\ node' = [node EXCEPT ![n].app = "hold"]
    /\ Answer(n, <<LockAcquired, ReleasedVerified>>)
    /\ UNCHANGED latest

AcquireReleased(n) ==
    /\ node[n].app = "wait"
    /\ Reads(n, "app", {"Released"})
    /\ node' = [node EXCEPT ![n].app = "hold", ![n].value = Head(chan[n]).value]
    /\ Answer(n, <<LockAcquired, ReleasedVerified>>)
    /\ UNCHANGED latest

\* Both are trying to acquire: the older request wins, the other yields.
AcquireConflict(n) ==
    /\ node[n].app = "wait"
    /\ Reads(n, "app", {"TryAcquire"})
    /\ \/ /\ Head(chan[n]).time <= node[n].time
          /\ node' = [node EXCEPT ![n].app = "yield"]
          /\ Answer(n, <<Released(node[n].value)>>)
       \/ /\ Head(chan[n]).time > node[n].time
          /\ node' = [node EXCEPT ![n].app = "hold"]
          /\ Answer(n, <<LockAcquired>>)
    /\ UNCHANGED latest

AcquireIgnores(n) ==
    /\ node[n].app = "wait"
    /\ Reads(n, "app", {"LockAcquired", "ReleasedVerified"})
    /\ Answer(n, <<>>)
    /\ UNCHANGED <<node, latest>>

\* The other node dropped the mutex: lock() fails and drops the local holder.
AcquireHalted(n) ==
    /\ node[n].app = "wait"
    /\ Reads(n, "app", {"Halt"})
    /\ Becomes(n, DropHolder([node[n] EXCEPT !.app = "idle"]))
    /\ Answer(n, <<>>)
    /\ UNCHANGED latest
-----------------------------------------------------------------------------
(* The guard and the code after it *)

\* The application edits the value through its guard, and drops the guard.
DropGuard(n) ==
    /\ node[n].app = "hold"
    /\ latest' = latest + 1
    /\ node' = [node EXCEPT ![n].app = "idle", ![n].owner = "drop",
                            ![n].drop = "spawned", ![n].value = latest + 1]
    /\ UNCHANGED chan

DropSends(n) ==
    /\ node[n].drop = "spawned"
    /\ node' = [node EXCEPT ![n].drop = "wait"]
    /\ Send(n, Released(node[n].value))
    /\ UNCHANGED latest

DropSeesRequest(n) ==
    /\ node[n].drop \in {"wait", "flagged"}
    /\ Reads(n, "drop", {"TryAcquire"})
    /\ node' = [node EXCEPT ![n].drop = "flagged"]
    /\ Answer(n, <<>>)
    /\ UNCHANGED latest

DropVerified(n) ==
    /\ Reads(n, "drop", {"ReleasedVerified"})
    /\ \/ /\ node[n].drop = "wait"
          /\ Becomes(n, DropHolder([node[n] EXCEPT !.drop = "none"]))
          /\ Answer(n, <<>>)
       \/ /\ node[n].drop = "flagged"
          /\ node' = [node EXCEPT ![n].drop = "yield"]
          /\ Answer(n, <<Released(node[n].value)>>)
    /\ UNCHANGED latest

DropIgnores(n) ==
    /\ node[n].drop \in {"wait", "flagged"}
    /\ Reads(n, "drop", {"Released", "LockAcquired", "Halt"})
    /\ Answer(n, <<>>)
    /\ UNCHANGED <<node, latest>>
-----------------------------------------------------------------------------
(* yield_lock, which each of the three tasks may be in *)

Yields(s) ==
    \/ s.owner = "app" /\ s.app = "yield"
    \/ s.owner = "drop" /\ s.drop = "yield"
    \/ s.owner = "bg" /\ s.bg = "yield"

\* What the task does once its call of yield_lock has returned.
Yielded(s) ==
    CASE s.owner = "app"  -> [s EXCEPT !.app = "wait"]
      [] s.owner = "drop" -> DropHolder([s EXCEPT !.drop = "none"])
      [] s.owner = "bg"   -> Freed([s EXCEPT !.bg = "top"])

\* A mutant: the release is not verified.
YieldUnverified(n) ==
    /\ Yields(node[n])
    /\ Reads(n, node[n].owner, {"Released"})
    /\ Becomes(n, Yielded([node[n] EXCEPT !.value = Head(chan[n]).value]))
    /\ Answer(n, <<LockAcquired>>)
    /\ UNCHANGED latest

YieldReleased(n) ==
    /\ Yields(node[n])
    /\ Reads(n, node[n].owner, {"Released"})
    /\ Becomes(n, Yielded([node[n] EXCEPT !.value = Head(chan[n]).value]))
    /\ Answer(n, <<LockAcquired, ReleasedVerified>>)
    /\ UNCHANGED latest

YieldHalted(n) ==
    /\ Yields(node[n])
    /\ Reads(n, node[n].owner, {"Halt"})
    /\ Becomes(n, Yielded(node[n]))
    /\ Answer(n, <<>>)
    /\ UNCHANGED latest

YieldIgnores(n) ==
    /\ Yields(node[n])
    /\ Reads(n, node[n].owner, {"LockAcquired", "ReleasedVerified", "TryAcquire"})
    /\ Answer(n, <<>>)
    /\ UNCHANGED <<node, latest>>
-----------------------------------------------------------------------------
(* The background handler *)

BgTryLock(n) ==
    /\ node[n].bg = "top"
    /\ node' = [node EXCEPT ![n] =
         IF @.owner = "none" THEN [@ EXCEPT !.owner = "bg", !.bg = "listen"]
                             ELSE [@ EXCEPT !.bg = "asleep"]]
    /\ UNCHANGED <<chan, latest>>

BgSignalled(n) ==
    LET s == [node[n] EXCEPT !.bg = "top", !.sig = FALSE]
    IN  /\ node[n].sig
        /\ \/ node[n].bg = "listen" /\ Becomes(n, Freed(s))
           \/ node[n].bg = "asleep" /\ Becomes(n, s)
        /\ UNCHANGED <<chan, latest>>

BgRequested(n) ==
    /\ node[n].bg = "listen"
    /\ Reads(n, "bg", {"TryAcquire"})
    /\ node' = [node EXCEPT ![n].bg = "yield"]
    /\ Answer(n, <<Released(node[n].value)>>)
    /\ UNCHANGED latest

\* The task ends; a packet it calls unreachable!() makes it panic.
BgEnds(n) ==
    /\ node[n].bg = "listen"
    /\ Reads(n, "bg", {"Halt", "Released", "ReleasedVerified", "LockAcquired"})
    /\ Becomes(n, Freed([node[n] EXCEPT !.bg =
          IF Head(chan[n]) = Halt THEN "dead" ELSE "panicked"]))
    /\ Answer(n, <<>>)
    /\ UNCHANGED latest

\* A spawned sender of a signal; the channel is closed once the task has ended.
Alert(n) ==
    /\ node[n].alerts > 0
    /\ node[n].bg \in Ended \/ ~node[n].sig
    /\ node' = [node EXCEPT ![n].alerts = @ - 1, ![n].sig = node[n].bg \notin Ended]
    /\ UNCHANGED <<chan, latest>>
-----------------------------------------------------------------------------
(***************************************************************************)
(* The application drops its NetMutex, which no acquirer borrows then; a   *)
(* guard may outlive it.  The background is stopped wherever it is.        *)
(***************************************************************************)
DropMutex(n) ==
    /\ MayHalt
    /\ node[n].dropped = "no"
    /\ node[n].app \in {"idle", "hold"}
    /\ node' = [node EXCEPT ![n].dropped = "spawned",
                            ![n].bg = IF @ = "panicked" THEN @ ELSE "dead",
                            ![n].owner = IF @ = "bg" THEN "none" ELSE @]
    /\ UNCHANGED <<chan, latest>>

SendHalt(n) ==
    /\ node[n].dropped = "spawned"
    /\ node' = [node EXCEPT ![n].dropped = "sent"]
    /\ Send(n, Halt)
    /\ UNCHANGED latest
-----------------------------------------------------------------------------
\* The steps of the tasks of a node, which its runtime schedules.
Task(n) ==
    \/ Signal(n) \/ LockOwned(n) \/ Request(n)
    \/ AcquireReleased(n) \/ AcquireConflict(n) \/ AcquireIgnores(n) \/ AcquireHalted(n)
    \/ DropSends(n) \/ DropSeesRequest(n) \/ DropVerified(n) \/ DropIgnores(n)
    \/ YieldReleased(n) \/ YieldHalted(n) \/ YieldIgnores(n)
    \/ BgTryLock(n) \/ BgSignalled(n) \/ BgRequested(n) \/ BgEnds(n)
    \/ Alert(n) \/ SendHalt(n)

Next == \E n \in Node : Task(n) \/ Lock(n) \/ DropGuard(n) \/ DropMutex(n)

Spec == Init /\ [][Next]_vars

\* Tasks that can run do, and an application drops its guards.
Fairness == \A n \in Node : WF_vars(Task(n)) /\ WF_vars(DropGuard(n))
-----------------------------------------------------------------------------
TypeOK ==
    /\ node \in [Node -> NodeType]
    /\ chan \in [Node -> Seq(Packet)]
    /\ latest \in Nat

\* At most one of the two nodes has a guard (the purpose of the mutex).
MutualExclusion == \A n, m \in Node : node[n].app = "hold" /\ node[m].app = "hold" => n = m

NoHalt == \A n \in Node : node[n].dropped = "no"

(***************************************************************************)
(* A guard shows the value of the guard that was dropped before it,        *)
(* whichever node that was on: "the lock ensures the drop process is       *)
(* complete and that both nodes have a symmetric value".                   *)
(***************************************************************************)
GuardIsFresh ==
    NoHalt => \A n \in Node : node[n].app = "hold" => node[n].value = latest

\* What lock() promises: its guards are exclusive and show the value left last
\* (net_mutex_guard_acquire, yield_lock, net_mutex_drop_code).
MutexGuards == TypeOK /\ MutualExclusion /\ GuardIsFresh

\* The background never meets the packets it calls unreachable!().
BackgroundNeverPanics == NoHalt => \A n \in Node : node[n].bg # "panicked"

\* A released lock is confirmed by the other node: the code after a guard ends.
ReleaseDone(n) == node[n].drop = "none"

ReleaseCompletes == \A n \in Node : ~ReleaseDone(n) ~> (ReleaseDone(n) \/ ~NoHalt)
=============================================================================
