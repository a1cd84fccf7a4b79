----------------------------- MODULE NetRwLock -----------------------------
(***************************************************************************)
(* netbeam's readers-writer lock shared by two nodes (net_rwlock.rs).  As  *)
(* in NetMutex each node has its copy of the value behind a local mutex,   *)
(* and three tasks that compete for it.  A read lock is an Arc around the  *)
(* owned local mutex, cloned by each read guard of the node and kept in    *)
(* local_active_read_lock so that further reads need not ask the network.  *)
(***************************************************************************)
EXTENDS Naturals, Sequences

CONSTANTS
    Node,         \* the two nodes
    MaxTime,      \* request times are 1 .. MaxTime; the clocks are not synchronised
    MaxAcquires,  \* calls that ask the network, of both nodes together
    MaxGuards,    \* guards a node has out at a time
    MaxAlerts,    \* signals not sent yet while a node reads without the network
    MayHalt       \* whether a node may drop its NetRwLock

VARIABLES
    node,    \* the state of each node, see NodeType
    chan,    \* the packets on their way to each node, in order
    latest,  \* the value of the write guard that was dropped last
    acquires \* calls of read() and write() that asked the network so far

vars == <<node, chan, latest, acquires>>

Peer(n) == CHOOSE m \in Node : m # n

LockType == {"Read", "Write"}
Ended == {"ended"}

(***************************************************************************)
(* A guard is <<the method that was called, the holder inside>>: read()    *)
(* gives a ReadGuard and write() a WriteGuard, around a LocalLockHolder    *)
(* that is itself a Read or a Write.                                       *)
(***************************************************************************)
Guard == LockType \X LockType

NodeType == [
    task    : {"none", "bg", "app", "drop"},   \* the task that owns the local mutex,
    holder  : LockType,                        \*   and its LocalLockHolder
    store   : BOOLEAN,                         \* local_active_read_lock is Some
    guards  : [Guard -> 0 .. MaxGuards],       \* the guards of the application
    app     : {"idle", "signal", "called", "queued", "granted", "wait", "yield"},
    method  : LockType,                        \* what the acquirer was called for
    drop    : {"none", "spawned", "wait", "flagged", "yield"},
    bg      : {"top", "listen", "asleep", "yield"} \cup Ended,
    asked   : LockType,                        \* what the background yields for
    sig     : BOOLEAN,
    alerts  : Nat,
    value   : Nat,
    time    : 0 .. MaxTime,
    dropped : {"no", "spawned", "sent"}]

TryAcquire(t, type) == [packet |-> "TryAcquire", time |-> t, type |-> type]
ReleasedWrite(v)    == [packet |-> "ReleasedWrite", value |-> v]
ReleasedRead        == [packet |-> "ReleasedRead"]
LockAcquired        == [packet |-> "LockAcquired"]
ReleasedVerified    == [packet |-> "ReleasedVerified"]
Halt                == [packet |-> "Halt"]

Init ==
    /\ node = [n \in Node |->
         [task |-> "none", holder |-> "Write", store |-> FALSE,
          guards |-> [g \in Guard |-> 0], app |-> "idle", method |-> "Read",
          drop |-> "none", bg |-> "top", asked |-> "Read", sig |-> FALSE, alerts |-> 0,
          value |-> 0, time |-> 0, dropped |-> "no"]]
    /\ chan = [n \in Node |-> <<>>]
    /\ latest = 0
    /\ acquires = 0
-----------------------------------------------------------------------------
Has(s, g) == s.guards[g] > 0

Guards(s) == s.guards[<<"Read", "Read">>] + s.guards[<<"Write", "Read">>]
           + s.guards[<<"Read", "Write">>] + s.guards[<<"Write", "Write">>]

\* Arc::strong_count of the node's read lock.
ArcCount(s) ==
    s.guards[<<"Read", "Read">>] + s.guards[<<"Write", "Read">>]
  + (IF s.store THEN 1 ELSE 0)
  + (IF s.task # "none" /\ s.holder = "Read" THEN 1 ELSE 0)

\* The local mutex is owned by a task, by a guard or through the Arc.
Locked(s) == s.task # "none" \/ Guards(s) > 0 \/ s.store

\* A local mutex that is freed goes to the acquirer queued for it (see NetMutex).
Settled(s) ==
    IF ~Locked(s) /\ s.app = "queued"
    THEN [s EXCEPT !.task = "app", !.holder = s.method, !.app = "granted"]
    ELSE s

\* LocalLockHolder::drop in the background, and in any other task.
LetGo(s) == Settled([s EXCEPT !.task = "none", !.holder = "Write"])
DropHolder(s) == LetGo([s EXCEPT !.alerts = @ + 1])

(***************************************************************************)
(* acquire_lock returns: the guard takes the holder, and a read lock is    *)
(* put into local_active_read_lock.                                        *)
(***************************************************************************)
Acquired(s) ==
    [s EXCEPT !.app = "idle", !.task = "none", !.holder = "Write",
              !.store = @ \/ s.holder = "Read",
              !.guards[<<s.method, s.holder>>] = @ + 1]

Becomes(n, s) == node' = [node EXCEPT ![n] = s]

Send(n, packet) == chan' = [chan EXCEPT ![Peer(n)] = Append(@, packet)]

Release(s) == IF s.holder = "Read" THEN ReleasedRead ELSE ReleasedWrite(s.value)

Reads(n, task, packets) ==
    /\ node[n].task = task
    /\ chan[n] # <<>>
    /\ Head(chan[n]).packet \in packets

Answer(n, packets) ==
    chan' = [chan EXCEPT ![n] = Tail(@), ![Peer(n)] = @ \o packets]
-----------------------------------------------------------------------------
(* The acquirer *)

\* read() while the node has a read lock that somebody uses: no network.
FastRead(n) ==
    /\ node[n].dropped = "no"
    /\ node[n].store
    /\ ArcCount(node[n]) > 1
    /\ Guards(node[n]) < MaxGuards
    /\ node[n].alerts < MaxAlerts
    /\ node' = [node EXCEPT ![n].guards[<<"Read", "Read">>] = @ + 1]
    /\ UNCHANGED <<chan, latest, acquires>>

Acquire(n) ==
    /\ node[n].app = "idle"
    /\ node[n].dropped = "no"
    /\ node[n].time < MaxTime
    /\ acquires < MaxAcquires
    /\ acquires' = acquires + 1
    /\ \E type \in LockType :
          /\ type = "Read" => ~(node[n].store /\ ArcCount(node[n]) > 1)
          /\ node' = [node EXCEPT ![n].app = "signal", ![n].method = type]
    /\ UNCHANGED <<chan, latest>>

Signal(n) ==
    /\ node[n].app = "signal"
    /\ \/ /\ node[n].bg \in Ended
          /\ node' = [node EXCEPT ![n].app = "idle"]
       \/ /\ node[n].bg \notin Ended
          /\ ~node[n].sig
          /\ node' = [node EXCEPT ![n].app = "called", ![n].sig = TRUE]
    /\ UNCHANGED <<chan, latest, acquires>>

LockOwned(n) ==
    /\ node[n].app = "called"
    /\ Becomes(n, Settled([node[n] EXCEPT !.app = "queued"]))
    /\ UNCHANGED <<chan, latest, acquires>>

Request(n) ==
    /\ node[n].app = "granted"
    /\ \E t \in node[n].time + 1 .. MaxTime :
          /\ node' = [node EXCEPT ![n].app = "wait", ![n].time = t]
          /\ Send(n, TryAcquire(t, node[n].method))
    /\ UNCHANGED <<latest, acquires>>

AcquireReleased(n) ==
    /\ node[n].app = "wait"
    /\ Reads(n, "app", {"ReleasedWrite", "ReleasedRead"})
    /\ Becomes(n, Acquired(
          IF Head(chan[n]).packet = "ReleasedWrite"
          THEN [node[n] EXCEPT !.value = Head(chan[n]).value]
          ELSE node[n]))
    /\ Answer(n, <<ReleasedVerified, LockAcquired>>)
    /\ UNCHANGED <<latest, acquires>>

\* Both are acquiring reads: both win.
AcquireBothRead(n) ==
    /\ node[n].app = "wait"
    /\ Reads(n, "app", {"TryAcquire"})
    /\ Head(chan[n]).type = "Read" /\ node[n].holder = "Read"
    /\ Becomes(n, Acquired(node[n]))
    /\ Answer(n, <<ReleasedRead>>)
    /\ UNCHANGED <<latest, acquires>>

\* A mutant: of two requests with the same time both win.
AcquireTieWins(n) ==
    /\ node[n].app = "wait"
    /\ Reads(n, "app", {"TryAcquire"})
    /\ Head(chan[n]).time >= node[n].time
    /\ Becomes(n, Acquired(node[n]))
    /\ Answer(n, <<LockAcquired>>)
    /\ UNCHANGED <<latest, acquires>>

(***************************************************************************)
(* Otherwise the older request wins.  The loser turns its holder into the  *)
(* type the other node asked for and yields; the code after yield_lock     *)
(* that should turn it back compares two types that are equal by then.     *)
(***************************************************************************)
AcquireConflict(n) ==
    /\ node[n].app = "wait"
    /\ Reads(n, "app", {"TryAcquire"})
    /\ ~(Head(chan[n]).type = "Read" /\ node[n].holder = "Read")
    /\ LET yielding == [node[n] EXCEPT !.app = "yield", !.holder = Head(chan[n]).type,
                                       !.store = @ /\ Head(chan[n]).type = "Read"]
       IN  \/ /\ Head(chan[n]).time <= node[n].time
              /\ Becomes(n, yielding)
              /\ Answer(n, <<Release(yielding)>>)
           \/ /\ Head(chan[n]).time > node[n].time
              /\ Becomes(n, Acquired(node[n]))
              /\ Answer(n, <<LockAcquired>>)
    /\ UNCHANGED <<latest, acquires>>

AcquireIgnores(n) ==
    /\ node[n].app = "wait"
    /\ Reads(n, "app", {"LockAcquired", "ReleasedVerified"})
    /\ Answer(n, <<>>)
    /\ UNCHANGED <<node, latest, acquires>>

AcquireHalted(n) ==
    /\ node[n].app = "wait"
    /\ Reads(n, "app", {"Halt"})
    /\ Becomes(n, DropHolder([node[n] EXCEPT !.app = "idle"]))
    /\ Answer(n, <<>>)
    /\ UNCHANGED <<latest, acquires>>
-----------------------------------------------------------------------------
(* The guards and the code after the last of them *)

\* A read guard goes; the last one of the node takes the stored lock with it.
DropReadGuard(n) ==
    LET s    == node[n]
        less == [s EXCEPT !.guards[<<"Read", "Read">>] = @ - 1]
    IN  /\ Has(s, <<"Read", "Read">>)
        /\ Becomes(n, IF ArcCount(s) = 2
                      THEN [less EXCEPT !.store = FALSE, !.task = "drop",
                                        !.holder = "Read", !.drop = "spawned"]
                      ELSE Settled([less EXCEPT !.alerts = @ + 1]))
        /\ UNCHANGED <<chan, latest, acquires>>

(***************************************************************************)
(* A write guard goes, after an edit.  One with a read lock inside cannot  *)
(* edit: deref_mut panics.                                                 *)
(***************************************************************************)
DropWriteGuard(n) ==
    \E holder \in LockType :
       /\ Has(node[n], <<"Write", holder>>)
       /\ latest' = IF holder = "Write" THEN latest + 1 ELSE latest
       /\ node' = [node EXCEPT ![n].guards[<<"Write", holder>>] = @ - 1,
                               ![n].value = IF holder = "Write" THEN latest + 1 ELSE @,
                               ![n].task = "drop", ![n].holder = holder,
                               ![n].drop = "spawned"]
       /\ UNCHANGED <<chan, acquires>>

\* A read guard with a write lock inside: arc_strong_count().unwrap() panics.
DropPanics(n) ==
    /\ Has(node[n], <<"Read", "Write">>)
    /\ Becomes(n, DropHolder([node[n] EXCEPT !.guards[<<"Read", "Write">>] = @ - 1]))
    /\ UNCHANGED <<chan, latest, acquires>>

DropSends(n) ==
    /\ node[n].drop = "spawned"
    /\ node' = [node EXCEPT ![n].drop = "wait"]
    /\ Send(n, Release(node[n]))
    /\ UNCHANGED <<latest, acquires>>

DropSeesRequest(n) ==
    /\ node[n].drop \in {"wait", "flagged"}
    /\ Reads(n, "drop", {"TryAcquire"})
    /\ node' = [node EXCEPT ![n].drop = "flagged"]
    /\ Answer(n, <<>>)
    /\ UNCHANGED <<latest, acquires>>

DropVerified(n) ==
    /\ Reads(n, "drop", {"ReleasedVerified"})
    /\ \/ /\ node[n].drop = "wait"
          /\ Becomes(n, DropHolder([node[n] EXCEPT !.drop = "none"]))
          /\ Answer(n, <<>>)
       \/ /\ node[n].drop = "flagged"
          /\ node' = [node EXCEPT ![n].drop = "yield"]
          /\ Answer(n, <<Release(node[n])>>)
    /\ UNCHANGED <<latest, acquires>>

\* A read that is released at both ends is verified; the rest is ignored.
DropOther(n) ==
    /\ node[n].drop \in {"wait", "flagged"}
    /\ Reads(n, "drop", {"ReleasedRead", "ReleasedWrite", "LockAcquired", "Halt"})
    /\ Answer(n, IF Head(chan[n]).packet = "ReleasedRead" /\ node[n].holder = "Read"
                 THEN <<ReleasedVerified>> ELSE <<>>)
    /\ UNCHANGED <<node, latest, acquires>>
-----------------------------------------------------------------------------
(* yield_lock, which each of the three tasks may be in *)

Yields(s) ==
    \/ s.task = "app" /\ s.app = "yield"
    \/ s.task = "drop" /\ s.drop = "yield"
    \/ s.task = "bg" /\ s.bg = "yield"

(***************************************************************************)
(* What the task does once yield_lock has returned its holder.  The        *)
(* background clears the stored lock if only the two of them are left.     *)
(***************************************************************************)
Yielded(s) ==
    CASE s.task = "app"  -> [s EXCEPT !.app = "wait"]
      [] s.task = "drop" -> DropHolder([s EXCEPT !.drop = "none"])
      [] s.task = "bg"   ->
           LetGo([s EXCEPT !.bg = "top",
                           !.store = @ /\ ~(s.asked = "Read" /\ ArcCount(s) = 2)])

\* The release is taken only if its type is that of the holder.
YieldReleased(n) ==
    /\ Yields(node[n])
    /\ Reads(n, node[n].task, {"ReleasedWrite", "ReleasedRead"})
    /\ \/ /\ Head(chan[n]).packet = "ReleasedWrite" /\ node[n].holder = "Write"
          /\ Becomes(n, Yielded([node[n] EXCEPT !.value = Head(chan[n]).value]))
          /\ Answer(n, <<ReleasedVerified>>)
       \/ /\ Head(chan[n]).packet = "ReleasedRead" /\ node[n].holder = "Read"
          /\ Becomes(n, Yielded(node[n]))
          /\ Answer(n, <<ReleasedVerified>>)
       \/ /\ (Head(chan[n]).packet = "ReleasedRead") # (node[n].holder = "Read")
          /\ Answer(n, <<>>)
          /\ UNCHANGED node
    /\ UNCHANGED <<latest, acquires>>

\* Err: the acquirer fails, the code after a guard ends, the background ends.
YieldHalted(n) ==
    /\ Yields(node[n])
    /\ Reads(n, node[n].task, {"Halt"})
    /\ Becomes(n,
         CASE node[n].task = "app"  -> DropHolder([node[n] EXCEPT !.app = "idle"])
           [] node[n].task = "drop" -> DropHolder([node[n] EXCEPT !.drop = "none"])
           [] node[n].task = "bg"   -> LetGo([node[n] EXCEPT !.bg = "ended"]))
    /\ Answer(n, <<>>)
    /\ UNCHANGED <<latest, acquires>>

YieldIgnores(n) ==
    /\ Yields(node[n])
    /\ Reads(n, node[n].task, {"LockAcquired", "ReleasedVerified", "TryAcquire"})
    /\ Answer(n, <<>>)
    /\ UNCHANGED <<node, latest, acquires>>
-----------------------------------------------------------------------------
(* The background handler *)

BgTryLock(n) ==
    /\ node[n].bg = "top"
    /\ node' = [node EXCEPT ![n] =
         IF Locked(@) THEN [@ EXCEPT !.bg = "asleep"]
                      ELSE [@ EXCEPT !.task = "bg", !.bg = "listen"]]
    /\ UNCHANGED <<chan, latest, acquires>>

BgSignalled(n) ==
    LET s == [node[n] EXCEPT !.bg = "top", !.sig = FALSE]
    IN  /\ node[n].sig
        /\ \/ node[n].bg = "listen" /\ Becomes(n, LetGo(s))
           \/ node[n].bg = "asleep" /\ Becomes(n, s)
        /\ UNCHANGED <<chan, latest, acquires>>

\* A read is stored at once, so that this node can read while the other does.
BgRequested(n) ==
    LET type     == Head(chan[n]).type
        yielding == [node[n] EXCEPT !.bg = "yield", !.asked = type, !.holder = type,
                                    !.store = (type = "Read")]
    IN  /\ node[n].bg = "listen"
        /\ Reads(n, "bg", {"TryAcquire"})
        /\ Becomes(n, yielding)
        /\ Answer(n, <<Release(yielding)>>)
        /\ UNCHANGED <<latest, acquires>>

\* A packet that should not come here is logged; a Halt ends the task.
BgOther(n) ==
    /\ node[n].bg = "listen"
    /\ Reads(n, "bg", {"Halt", "ReleasedRead", "ReleasedWrite", "ReleasedVerified",
                       "LockAcquired"})
    /\ Becomes(n, LetGo([node[n] EXCEPT !.bg =
          IF Head(chan[n]) = Halt THEN "ended" ELSE "top"]))
    /\ Answer(n, <<>>)
    /\ UNCHANGED <<latest, acquires>>

Alert(n) ==
    /\ node[n].alerts > 0
    /\ node[n].bg \in Ended \/ ~node[n].sig
    /\ node' = [node EXCEPT ![n].alerts = @ - 1, ![n].sig = node[n].bg \notin Ended]
    /\ UNCHANGED <<chan, latest, acquires>>

\* The NetRwLock is dropped: the background is stopped wherever it is.
DropRwLock(n) ==
    /\ MayHalt
    /\ node[n].dropped = "no"
    /\ node[n].app = "idle"
    /\ LET s == [node[n] EXCEPT !.dropped = "spawned", !.bg = "ended"]
       IN  Becomes(n, IF s.task = "bg" THEN LetGo(s) ELSE s)
    /\ UNCHANGED <<chan, latest, acquires>>

SendHalt(n) ==
    /\ node[n].dropped = "spawned"
    /\ node' = [node EXCEPT ![n].dropped = "sent"]
    /\ Send(n, Halt)
    /\ UNCHANGED <<latest, acquires>>
-----------------------------------------------------------------------------
\* The steps of the tasks of a node, which its runtime schedules.
Task(n) ==
    \/ Signal(n) \/ LockOwned(n) \/ Request(n)
    \/ AcquireReleased(n) \/ AcquireBothRead(n) \/ AcquireConflict(n)
    \/ AcquireIgnores(n) \/ AcquireHalted(n)
    \/ DropSends(n) \/ DropSeesRequest(n) \/ DropVerified(n) \/ DropOther(n)
    \/ YieldReleased(n) \/ YieldHalted(n) \/ YieldIgnores(n)
    \/ BgTryLock(n) \/ BgSignalled(n) \/ BgRequested(n) \/ BgOther(n)
    \/ Alert(n) \/ SendHalt(n)

Next ==
    \E n \in Node :
       \/ Task(n) \/ Acquire(n) \/ FastRead(n)
       \/ DropReadGuard(n) \/ DropWriteGuard(n) \/ DropPanics(n) \/ DropRwLock(n)

Spec == Init /\ [][Next]_vars
-----------------------------------------------------------------------------
\* The types of the nodes' state and of the packets.
TypeOK ==
    /\ node \in [Node -> NodeType]
    /\ latest \in Nat

NoHalt == \A n \in Node : node[n].dropped = "no"

\* A guard that the application may write through.
Writes(s) == Has(s, <<"Write", "Write">>)

(***************************************************************************)
(* A writer excludes every other guard, of its own node and of the other   *)
(* ("this will prevent local from acquiring any reads").                   *)
(***************************************************************************)
WriterExcludesAll ==
    \A n, m \in Node : Writes(node[n]) /\ Guards(node[m]) > 0 =>
        n = m /\ Guards(node[n]) = 1

(***************************************************************************)
(* There is one writer at a time on the two nodes, and it shares its node  *)
(* with no reader.                                                         *)
(***************************************************************************)
OneWriter ==
    \A n \in Node : Writes(node[n]) =>
        /\ Guards(node[n]) = 1
        /\ ~Writes(node[Peer(n)])

\* A writer starts from the value the latest writer left, wherever that was.
WriterIsFresh ==
    NoHalt => \A n \in Node : Writes(node[n]) => node[n].value = latest
=============================================================================
