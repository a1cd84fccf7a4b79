--------------------------- MODULE NetMutexProofs ---------------------------
(***************************************************************************)
(* At most one node has a guard of the mutex, and the guard shows the      *)
(* value left last, for any request times, any number of acquisitions and  *)
(* any moment at which a node drops its NetMutex.                          *)
(*                                                                         *)
(* While both nodes keep the mutex the inductive invariant lists what the  *)
(* two nodes may be doing together with the packets between them           *)
(* (Together).  Once a node has dropped it, the invariant only says that   *)
(* nothing which is on its way to a node can make it acquire the lock as   *)
(* long as the other has a guard (Alone).                                  *)
(***************************************************************************)
EXTENDS NetMutexProtocol

\* Zenon has 30 seconds for each leaf that does not name another prover.
USE ZenonT(30)

(***************************************************************************)
(* What a node is doing in the protocol.  "retries" and "resigns" are the  *)
(* calls of yield_lock, after which an acquirer tries again and the other  *)
(* tasks do not; "flagged" is the code after a guard that saw a request.   *)
(***************************************************************************)
Phase(s) ==
    IF s.app = "hold" \/ s.drop = "spawned" THEN "holds"
    ELSE IF s.app = "wait" THEN "waits"
    ELSE IF s.app = "yield" THEN "retries"
    ELSE IF s.drop = "wait" THEN "released"
    ELSE IF s.drop = "flagged" THEN "flagged"
    ELSE IF s.drop = "yield" \/ s.bg = "yield" THEN "resigns"
    ELSE "idle"

Together ==
    \A n \in Node :
       Config(Phase(node[n]), node[n].value, chan[n],
              Phase(node[Peer(n)]), node[Peer(n)].value, chan[Peer(n)], latest)

\* What is known of the times of the requests
Times == \A n \in Node : Timed(Phase(node[n]), node[n].time, chan[n], chan[Peer(n)])

\* A node that has the lock has it alone.
Alone(n) ==
    LET p == Peer(n)
    IN  Phase(node[n]) = "holds" =>
           /\ Phase(node[p]) # "holds"
           /\ node[p].dropped # "no" \/ Harmless(Phase(node[p]), node[p].time, chan[p])

\* The task that owns the local mutex is where it needs it, and no other is.
Owned(s) ==
    /\ s.owner = "app" <=> s.app \in {"granted", "wait", "yield", "hold"}
    /\ s.owner = "drop" <=> s.drop # "none"
    /\ s.owner = "bg" <=> s.bg \in {"listen", "yield"}
    /\ s.dropped # "no" => s.app \in {"idle", "hold"}

IInv ==
    /\ TypeOK
    /\ \A n \in Node : Owned(node[n])
    /\ NoHalt => Together /\ Times
    /\ \A n \in Node : NoHalt \/ Alone(n)
-----------------------------------------------------------------------------
(* The actions *)

\* There are two nodes.
LEMMA Peers ==
    \A n \in Node : /\ Peer(n) \in Node /\ Peer(n) # n /\ Peer(Peer(n)) = n
                    /\ \A m \in Node : m = n \/ m = Peer(n)
  <1>1. PICK i \in Node, r \in Node : i # r /\ Node = {i, r}
    BY NetMutexAssumption
  <1>2. Peer(i) = r /\ Peer(r) = i
    BY <1>1 DEF Peer
  <1> QED
    BY <1>1, <1>2

\* What a step of node n that has nothing to do with dropping the mutex does.
Moves(n) ==
    LET p == Peer(n)
    IN  /\ node' \in [Node -> NodeType] /\ chan' \in [Node -> Seq(Packet)] /\ latest' \in Nat
        /\ Owned(node'[n]) /\ node'[p] = node[p]
        /\ node'[n].dropped = node[n].dropped
        /\ Step(Phase(node[n]), node[n].value, node[n].time, chan[n], chan[p], latest,
                Phase(node'[n]), node'[n].value, node'[n].time, chan'[n], chan'[p], latest')

\* A step that changes the record of its node only.
LEMMA Moved ==
    ASSUME TypeOK, NEW n \in Node, NEW s \in NodeType, Owned(s), s.dropped = node[n].dropped,
           Becomes(n, s), chan' \in [Node -> Seq(Packet)], latest' \in Nat,
           Step(Phase(node[n]), node[n].value, node[n].time, chan[n], chan[Peer(n)], latest,
                Phase(s), s.value, s.time, chan'[n], chan'[Peer(n)], latest')
    PROVE  Moves(n)
  <1>1. node' \in [Node -> NodeType] /\ node'[n] = s /\ node'[Peer(n)] = node[Peer(n)]
    BY Peers DEF TypeOK, Becomes
  <1> QED
    BY <1>1 DEF Moves

\* What Answer and Send do to the channels.
LEMMA Channels ==
    ASSUME TypeOK, NEW n \in Node
    PROVE  /\ chan[n] \in Seq(Packet) /\ chan[Peer(n)] \in Seq(Packet)
           /\ chan[n] # <<>> => Head(chan[n]) \in Packet
           /\ \A m \in Packet : Send(n, m) =>
                 /\ chan' \in [Node -> Seq(Packet)] /\ chan'[n] = chan[n]
                 /\ chan'[Peer(n)] = Append(chan[Peer(n)], m)
           /\ chan[n] # <<>> /\ Answer(n, <<>>) =>
                 /\ chan' \in [Node -> Seq(Packet)] /\ chan'[n] = Tail(chan[n])
                 /\ chan'[Peer(n)] = chan[Peer(n)]
           /\ \A m \in Packet : chan[n] # <<>> /\ Answer(n, <<m>>) =>
                 /\ chan' \in [Node -> Seq(Packet)] /\ chan'[n] = Tail(chan[n])
                 /\ chan'[Peer(n)] = Append(chan[Peer(n)], m)
           /\ \A m, k \in Packet : chan[n] # <<>> /\ Answer(n, <<m, k>>) =>
                 /\ chan' \in [Node -> Seq(Packet)] /\ chan'[n] = Tail(chan[n])
                 /\ chan'[Peer(n)] = Append(Append(chan[Peer(n)], m), k)
  <1> DEFINE p == Peer(n)
  <1>1. p \in Node /\ p # n
    BY Peers
  <1>2. chan[n] \in Seq(Packet) /\ chan[p] \in Seq(Packet)
    BY <1>1 DEF TypeOK
  <1>3. chan[n] # <<>> => Head(chan[n]) \in Packet /\ Tail(chan[n]) \in Seq(Packet)
    BY SMTT(30), <1>2
  <1>4. ASSUME NEW m \in Packet, Send(n, m)
        PROVE  /\ chan' \in [Node -> Seq(Packet)] /\ chan'[n] = chan[n]
               /\ chan'[p] = Append(chan[p], m)
    <2>1. Append(chan[p], m) \in Seq(Packet)
      BY <1>2, SendWord
    <2> QED
      BY <1>1, <1>4, <2>1 DEF Send, TypeOK
  <1>5. ASSUME NEW x, chan[p] \o x \in Seq(Packet), chan[n] # <<>>, Answer(n, x)
        PROVE  /\ chan' \in [Node -> Seq(Packet)] /\ chan'[n] = Tail(chan[n])
               /\ chan'[p] = chan[p] \o x
    BY <1>1, <1>3, <1>5 DEF Answer, TypeOK
  <1>6. chan[p] \o <<>> = chan[p]
    BY SMTT(30), <1>2
  <1>7. \A m \in Packet : /\ chan[p] \o <<m>> = Append(chan[p], m)
                          /\ Append(chan[p], m) \in Seq(Packet)
    BY <1>2, Answers, SendWord
  <1>8. \A m, k \in Packet : /\ chan[p] \o <<m, k>> = Append(Append(chan[p], m), k)
                             /\ Append(Append(chan[p], m), k) \in Seq(Packet)
    BY <1>2, <1>7, Answers, SendWord
  <1>9. chan[n] # <<>> /\ Answer(n, <<>>) =>
          /\ chan' \in [Node -> Seq(Packet)] /\ chan'[n] = Tail(chan[n])
          /\ chan'[p] = chan[p]
    BY <1>2, <1>5, <1>6
  <1>10. \A m \in Packet : chan[n] # <<>> /\ Answer(n, <<m>>) =>
          /\ chan' \in [Node -> Seq(Packet)] /\ chan'[n] = Tail(chan[n])
          /\ chan'[p] = Append(chan[p], m)
    <2> SUFFICES ASSUME NEW m \in Packet, chan[n] # <<>>, Answer(n, <<m>>)
                 PROVE  /\ chan' \in [Node -> Seq(Packet)] /\ chan'[n] = Tail(chan[n])
                        /\ chan'[p] = Append(chan[p], m)
      OBVIOUS
    <2>1. chan[p] \o <<m>> \in Seq(Packet)
      BY <1>7
    <2>2. /\ chan' \in [Node -> Seq(Packet)] /\ chan'[n] = Tail(chan[n])
          /\ chan'[p] = chan[p] \o <<m>>
      BY <1>5, <2>1
    <2> QED
      BY <1>7, <2>2
  <1>11. \A m, k \in Packet : chan[n] # <<>> /\ Answer(n, <<m, k>>) =>
          /\ chan' \in [Node -> Seq(Packet)] /\ chan'[n] = Tail(chan[n])
          /\ chan'[p] = Append(Append(chan[p], m), k)
    <2> SUFFICES ASSUME NEW m \in Packet, NEW k \in Packet, chan[n] # <<>>, Answer(n, <<m, k>>)
                 PROVE  /\ chan' \in [Node -> Seq(Packet)] /\ chan'[n] = Tail(chan[n])
                        /\ chan'[p] = Append(Append(chan[p], m), k)
      OBVIOUS
    <2>1. chan[p] \o <<m, k>> \in Seq(Packet)
      BY <1>8
    <2>2. /\ chan' \in [Node -> Seq(Packet)] /\ chan'[n] = Tail(chan[n])
          /\ chan'[p] = chan[p] \o <<m, k>>
      BY <1>5, <2>1
    <2> QED
      BY <1>8, <2>2
  <1> QED
    BY <1>2, <1>3, <1>4, <1>9, <1>10, <1>11

\* A task frees the local mutex, and nobody is in the protocol.
LEMMA FreedIdle ==
    ASSUME NEW s \in NodeType, s.drop = "none", s.app \in {"idle", "signal", "called", "queued"},
           s.bg \notin {"listen", "yield"}, s.dropped # "no" => s.app = "idle"
    PROVE  /\ Freed(s) \in NodeType /\ Owned(Freed(s)) /\ Phase(Freed(s)) = "idle"
           /\ Freed(s).value = s.value /\ Freed(s).time = s.time /\ Freed(s).dropped = s.dropped
  <1>1. CASE s.app = "queued"
    BY <1>1 DEF NodeType, Owned, Phase, Freed
  <1>2. CASE s.app # "queued"
    BY <1>2 DEF NodeType, Owned, Phase, Freed
  <1> QED
    BY <1>1, <1>2

\* LocalLockHolder::drop frees the local mutex and wakes the background.
LEMMA DropHolderIdle ==
    ASSUME NEW s \in NodeType, s.drop = "none", s.app \in {"idle", "signal", "called", "queued"},
           s.bg \notin {"listen", "yield"}, s.dropped # "no" => s.app = "idle"
    PROVE  /\ DropHolder(s) \in NodeType /\ Owned(DropHolder(s)) /\ Phase(DropHolder(s)) = "idle"
           /\ DropHolder(s).value = s.value /\ DropHolder(s).time = s.time
           /\ DropHolder(s).dropped = s.dropped
  <1> DEFINE f == Freed(s)
  <1>1. /\ f \in NodeType /\ Owned(f) /\ Phase(f) = "idle"
        /\ f.value = s.value /\ f.time = s.time /\ f.dropped = s.dropped
    BY FreedIdle
  <1> DEFINE g == [f EXCEPT !.alerts = @ + 1]
  <1> HIDE DEF f
  <1>2. /\ g \in NodeType /\ Owned(g) /\ Phase(g) = "idle"
        /\ g.value = s.value /\ g.time = s.time /\ g.dropped = s.dropped
    BY SMTT(30), <1>1 DEF NodeType, Owned, Phase
  <1> QED
    BY <1>2 DEF f, DropHolder

\* The records below are in the type, the local mutex has its owner, the phase is q.
Fits(x, s, q) ==
    /\ x \in NodeType /\ Owned(x) /\ Phase(x) = q
    /\ x.time = s.time /\ x.dropped = s.dropped

\* The steps of lock() before its request do not show in the protocol.
LEMMA LockMoves ==
    ASSUME TypeOK, NEW n \in Node, Owned(node[n]), Lock(n) \/ Signal(n) \/ LockOwned(n)
    PROVE  Moves(n)
  <1> DEFINE s == node[n]
             idle == [s EXCEPT !.app = "idle"]
             signal == [s EXCEPT !.app = "signal"]
             called == [s EXCEPT !.app = "called", !.sig = TRUE]
             granted == [s EXCEPT !.owner = "app", !.app = "granted"]
             queued == [s EXCEPT !.app = "queued"]
             Same(x) == Fits(x, s, Phase(s)) /\ x.value = s.value
  <1>1. \/ Becomes(n, signal) /\ s.app = "idle" /\ s.dropped = "no"
        \/ Becomes(n, idle) /\ s.app = "signal"
        \/ Becomes(n, called) /\ s.app = "signal"
        \/ Becomes(n, granted) /\ s.app = "called" /\ s.owner = "none"
        \/ Becomes(n, queued) /\ s.app = "called" /\ s.owner # "none"
    BY DEF Lock, Signal, LockOwned, Becomes, TypeOK
  <1>2. s \in NodeType /\ Owned(s) /\ chan' = chan /\ latest' = latest
    BY DEF TypeOK, Lock, Signal, LockOwned
  <1> HIDE DEF s
  <1>3. s.app = "idle" /\ s.dropped = "no" => Same(signal)
    BY <1>2 DEF Fits, NodeType, Owned, Phase
  <1>4. s.app = "signal" => Same(idle)
    BY <1>2 DEF Fits, NodeType, Owned, Phase
  <1>5. s.app = "signal" => Same(called)
    BY <1>2 DEF Fits, NodeType, Owned, Phase
  <1>6. s.app = "called" /\ s.owner = "none" => Same(granted)
    BY <1>2 DEF Fits, NodeType, Owned, Phase
  <1>7. s.app = "called" /\ s.owner # "none" => Same(queued)
    BY <1>2 DEF Fits, NodeType, Owned, Phase
  <1>8. ASSUME NEW x, Becomes(n, x), Same(x) PROVE Moves(n)
    <2>1. Step(Phase(s), s.value, s.time, chan[n], chan[Peer(n)], latest,
               Phase(x), x.value, x.time, chan'[n], chan'[Peer(n)], latest')
      BY <1>2, <1>8 DEF Step, Sends, Fits
    <2> QED
      BY <1>2, <1>8, <2>1, Moved DEF Fits, s, TypeOK
  <1> HIDE DEF Same, idle, signal, called, granted, queued
  <1> QED
    BY <1>1, <1>3, <1>4, <1>5, <1>6, <1>7, <1>8

\* An acquirer that has its local mutex sends TryAcquire.
LEMMA RequestMoves ==
    ASSUME TypeOK, NEW n \in Node, Owned(node[n]), Request(n)
    PROVE  Moves(n)
  <1> DEFINE s == node[n]
  <1>1. s \in NodeType /\ Owned(s) /\ latest' = latest /\ s.app = "granted"
    BY DEF TypeOK, Request
  <1>2. PICK t \in s.time + 1 .. MaxTime :
          /\ node' = [node EXCEPT ![n].app = "wait", ![n].time = t]
          /\ Send(n, TryAcquire(t))
    BY DEF Request
  <1> DEFINE x == [s EXCEPT !.app = "wait", !.time = t]
  <1>3. Becomes(n, x)
    BY <1>2 DEF Becomes, TypeOK
  <1>4. s.time \in Nat /\ t \in 1 .. MaxTime /\ t \in 0 .. MaxTime
    BY SMTT(30), <1>1, NetMutexAssumption DEF NodeType
  <1>5. /\ chan' \in [Node -> Seq(Packet)] /\ chan'[n] = chan[n]
        /\ chan'[Peer(n)] = Append(chan[Peer(n)], TryAcquire(t))
    BY <1>2, <1>4, Channels, Packets
  <1> HIDE DEF s
  <1>6. /\ x \in NodeType /\ Owned(x) /\ Phase(x) = "waits" /\ Phase(s) = "idle"
        /\ x.time = t /\ x.dropped = s.dropped /\ x.value = s.value
    BY <1>1, <1>4 DEF NodeType, Owned, Phase
  <1>7. Step(Phase(s), s.value, s.time, chan[n], chan[Peer(n)], latest,
             Phase(x), x.value, x.time, chan'[n], chan'[Peer(n)], latest')
    BY <1>1, <1>4, <1>5, <1>6 DEF Step, Sends
  <1> HIDE DEF x
  <1> QED
    BY <1>1, <1>3, <1>5, <1>6, <1>7, Moved DEF s, TypeOK

\* The steps that read a packet.
LEMMA ReadMoves ==
    ASSUME TypeOK, NEW n \in Node, NEW x, NEW q, Becomes(n, x), Fits(x, node[n], q),
           chan[n] # <<>>, chan' \in [Node -> Seq(Packet)], chan'[n] = Tail(chan[n]),
           latest' = latest,
           Receives(Phase(node[n]), node[n].value, node[n].time, chan[n], chan[Peer(n)],
                    q, x.value, chan'[Peer(n)])
    PROVE  Moves(n)
  <1>1. Step(Phase(node[n]), node[n].value, node[n].time, chan[n], chan[Peer(n)], latest,
             Phase(x), x.value, x.time, chan'[n], chan'[Peer(n)], latest')
    BY DEF Step, Fits
  <1> QED
    BY <1>1, Moved DEF Fits, TypeOK

\* net_mutex_guard_acquire, which waits for an answer to its request.
LEMMA AcquireMoves ==
    ASSUME TypeOK, NEW n \in Node, Owned(node[n]),
           \/ AcquireReleased(n) \/ AcquireConflict(n)
           \/ AcquireIgnores(n) \/ AcquireHalted(n)
    PROVE  Moves(n)
  <1> DEFINE s == node[n]
             k == Head(chan[n])
             takes == [s EXCEPT !.app = "hold", !.value = k.value]
             wins == [s EXCEPT !.app = "hold"]
             yields == [s EXCEPT !.app = "yield"]
             stops == [s EXCEPT !.app = "idle"]
  <1>1. /\ s \in NodeType /\ Owned(s) /\ latest' = latest /\ chan[n] # <<>> /\ k \in Packet
        /\ s.app = "wait" /\ s.owner = "app"
    BY Channels DEF TypeOK, AcquireReleased, AcquireConflict, AcquireIgnores, AcquireHalted, Reads
  <1>2. s.value \in Nat /\ s.time \in Nat
    BY SMTT(30), <1>1, NetMutexAssumption DEF NodeType
  <1>3. \/ Becomes(n, takes) /\ k.type = R /\ Answer(n, <<LockAcquired, ReleasedVerified>>)
        \/ Becomes(n, yields) /\ k.type = T /\ Answer(n, <<Released(s.value)>>)
        \/ Becomes(n, wins) /\ k.type = T /\ k.time > s.time /\ Answer(n, <<LockAcquired>>)
        \/ Becomes(n, s) /\ k.type \in {A, V} /\ Answer(n, <<>>)
        \/ Becomes(n, DropHolder(stops)) /\ k.type = "Halt" /\ Answer(n, <<>>)
    BY DEF AcquireReleased, AcquireConflict, AcquireIgnores, AcquireHalted, Reads, Becomes,
           TypeOK, A, R, T, V
  <1>4. k.type = R => k.value \in Nat
    BY <1>1, PacketFields
  <1>5. Released(s.value) \in Packet /\ LockAcquired \in Packet /\ ReleasedVerified \in Packet
    BY <1>2, Packets
  <1> HIDE DEF s, k
  <1>6. k.type = R => Fits(takes, s, "holds") /\ takes.value = k.value
    BY <1>1, <1>4 DEF Fits, NodeType, Owned, Phase
  <1>7. Fits(wins, s, "holds") /\ wins.value = s.value
    BY <1>1 DEF Fits, NodeType, Owned, Phase
  <1>8. Fits(yields, s, "retries") /\ yields.value = s.value
    BY <1>1 DEF Fits, NodeType, Owned, Phase
  <1>9. Fits(s, s, "waits") /\ Phase(s) = "waits"
    BY <1>1 DEF Fits, NodeType, Owned, Phase
  <1>10. Fits(DropHolder(stops), s, "idle") /\ DropHolder(stops).value = s.value
    <2>1. /\ stops \in NodeType /\ stops.drop = "none" /\ stops.app = "idle"
          /\ stops.bg \notin {"listen", "yield"}
          /\ stops.value = s.value /\ stops.time = s.time /\ stops.dropped = s.dropped
      BY <1>1 DEF NodeType, Owned
    <2> HIDE DEF stops
    <2> QED
      BY <2>1, DropHolderIdle DEF Fits
  <1> HIDE DEF takes, wins, yields, stops
  <1> USE DEF s
  <1>11. CASE Becomes(n, takes) /\ k.type = R /\ Answer(n, <<LockAcquired, ReleasedVerified>>)
    <2>1. Receives("waits", s.value, s.time, chan[n], chan[Peer(n)],
                   "holds", takes.value, chan'[Peer(n)])
      BY <1>1, <1>5, <1>6, <1>11, Channels DEF Receives, k
    <2> QED
      BY <1>1, <1>5, <1>6, <1>9, <1>11, <2>1, Channels, ReadMoves
  <1>12. CASE Becomes(n, yields) /\ k.type = T /\ Answer(n, <<Released(s.value)>>)
    <2>1. Receives("waits", s.value, s.time, chan[n], chan[Peer(n)],
                   "retries", yields.value, chan'[Peer(n)])
      BY <1>1, <1>5, <1>8, <1>12, Channels DEF Receives, k
    <2> QED
      BY <1>1, <1>5, <1>8, <1>9, <1>12, <2>1, Channels, ReadMoves
  <1>13. CASE Becomes(n, wins) /\ k.type = T /\ k.time > s.time /\ Answer(n, <<LockAcquired>>)
    <2>1. Receives("waits", s.value, s.time, chan[n], chan[Peer(n)],
                   "holds", wins.value, chan'[Peer(n)])
      BY <1>1, <1>5, <1>7, <1>13, Channels DEF Receives, k
    <2> QED
      BY <1>1, <1>5, <1>7, <1>9, <1>13, <2>1, Channels, ReadMoves
  <1>14. CASE Becomes(n, s) /\ k.type \in {A, V} /\ Answer(n, <<>>)
    <2>1. Receives("waits", s.value, s.time, chan[n], chan[Peer(n)],
                   "waits", s.value, chan'[Peer(n)])
      BY <1>1, <1>14, Channels DEF Receives, k
    <2> QED
      BY <1>1, <1>9, <1>14, <2>1, Channels, ReadMoves
  <1>15. CASE Becomes(n, DropHolder(stops)) /\ k.type = "Halt" /\ Answer(n, <<>>)
    <2>1. Receives("waits", s.value, s.time, chan[n], chan[Peer(n)],
                   "idle", DropHolder(stops).value, chan'[Peer(n)])
      BY <1>1, <1>15, Channels DEF Receives, k
    <2> QED
      BY <1>1, <1>9, <1>10, <1>15, <2>1, Channels, ReadMoves
  <1> QED
    BY <1>3, <1>11, <1>12, <1>13, <1>14, <1>15

\* A guard is dropped, and net_mutex_drop_code releases the lock.
LEMMA GuardMoves ==
    ASSUME TypeOK, NEW n \in Node, Owned(node[n]), DropGuard(n) \/ DropSends(n)
    PROVE  Moves(n)
  <1> DEFINE s == node[n]
             leaves == [s EXCEPT !.app = "idle", !.owner = "drop", !.drop = "spawned",
                                 !.value = latest + 1]
             releases == [s EXCEPT !.drop = "wait"]
  <1>1. s \in NodeType /\ Owned(s) /\ s.value \in Nat /\ latest + 1 \in Nat
    BY SMTT(30) DEF TypeOK, NodeType
  <1>2. \/ /\ s.app = "hold" /\ Becomes(n, leaves) /\ latest' = latest + 1 /\ chan' = chan
        \/ /\ s.drop = "spawned" /\ Becomes(n, releases) /\ latest' = latest
           /\ Send(n, Released(s.value))
    BY DEF DropGuard, DropSends, Becomes, TypeOK
  <1> HIDE DEF s
  <1>3. s.app = "hold" =>
          Fits(leaves, s, "holds") /\ Phase(s) = "holds" /\ leaves.value = latest + 1
    BY <1>1 DEF Fits, NodeType, Owned, Phase
  <1>4. s.drop = "spawned" =>
          Fits(releases, s, "released") /\ Phase(s) = "holds" /\ releases.value = s.value
    BY <1>1 DEF Fits, NodeType, Owned, Phase
  <1> HIDE DEF leaves, releases
  <1>5. CASE s.app = "hold" /\ Becomes(n, leaves) /\ latest' = latest + 1 /\ chan' = chan
    <2>1. Step(Phase(s), s.value, s.time, chan[n], chan[Peer(n)], latest,
               Phase(leaves), leaves.value, leaves.time, chan'[n], chan'[Peer(n)], latest')
      BY <1>3, <1>5 DEF Step, Sends, Fits
    <2> QED
      BY <1>1, <1>3, <1>5, <2>1, Moved DEF Fits, s, TypeOK
  <1>6. CASE s.drop = "spawned" /\ Becomes(n, releases) /\ latest' = latest
             /\ Send(n, Released(s.value))
    <2>1. /\ chan' \in [Node -> Seq(Packet)] /\ chan'[n] = chan[n]
          /\ chan'[Peer(n)] = Append(chan[Peer(n)], Released(s.value))
      BY <1>1, <1>6, Channels, Packets
    <2>2. Step(Phase(s), s.value, s.time, chan[n], chan[Peer(n)], latest,
               Phase(releases), releases.value, releases.time, chan'[n], chan'[Peer(n)], latest')
      BY <1>4, <1>6, <2>1 DEF Step, Sends, Fits
    <2> QED
      BY <1>1, <1>4, <1>6, <2>1, <2>2, Moved DEF Fits, s, TypeOK
  <1> QED
    BY <1>2, <1>5, <1>6

\* net_mutex_drop_code waits until its release is verified.
LEMMA DropMoves ==
    ASSUME TypeOK, NEW n \in Node, Owned(node[n]),
           DropSeesRequest(n) \/ DropVerified(n) \/ DropIgnores(n)
    PROVE  Moves(n)
  <1> DEFINE s == node[n]
             k == Head(chan[n])
             flagged == [s EXCEPT !.drop = "flagged"]
             ends == [s EXCEPT !.drop = "none"]
             yields == [s EXCEPT !.drop = "yield"]
  <1>1. /\ s \in NodeType /\ Owned(s) /\ latest' = latest /\ chan[n] # <<>> /\ k \in Packet
        /\ s.drop \in {"wait", "flagged"} /\ s.owner = "drop"
    BY Channels DEF TypeOK, DropSeesRequest, DropVerified, DropIgnores, Reads
  <1>2. s.value \in Nat /\ Released(s.value) \in Packet
    BY <1>1, Packets DEF NodeType
  <1>3. \/ Becomes(n, flagged) /\ k.type = T /\ Answer(n, <<>>)
        \/ Becomes(n, DropHolder(ends)) /\ s.drop = "wait" /\ k.type = V /\ Answer(n, <<>>)
        \/ /\ Becomes(n, yields) /\ s.drop = "flagged" /\ k.type = V
           /\ Answer(n, <<Released(s.value)>>)
        \/ Becomes(n, s) /\ k.type \in {A, R, "Halt"} /\ Answer(n, <<>>)
    BY DEF DropSeesRequest, DropVerified, DropIgnores, Reads, Becomes, TypeOK, A, R, T, V
  <1> HIDE DEF s, k
  <1>4. /\ Phase(s) = IF s.drop = "wait" THEN "released" ELSE "flagged"
        /\ Fits(s, s, Phase(s))
    BY <1>1 DEF Fits, NodeType, Owned, Phase
  <1>5. Fits(flagged, s, "flagged") /\ flagged.value = s.value
    BY <1>1 DEF Fits, NodeType, Owned, Phase
  <1>6. Fits(yields, s, "resigns") /\ yields.value = s.value
    BY <1>1 DEF Fits, NodeType, Owned, Phase
  <1>7. Fits(DropHolder(ends), s, "idle") /\ DropHolder(ends).value = s.value
    <2>1. /\ ends \in NodeType /\ ends.drop = "none" /\ ends.bg \notin {"listen", "yield"}
          /\ ends.app \in {"idle", "signal", "called", "queued"}
          /\ ends.dropped # "no" => ends.app = "idle"
          /\ ends.value = s.value /\ ends.time = s.time /\ ends.dropped = s.dropped
      BY <1>1 DEF NodeType, Owned
    <2> HIDE DEF ends
    <2> QED
      BY <2>1, DropHolderIdle DEF Fits
  <1> HIDE DEF flagged, ends, yields
  <1> USE DEF s
  <1>8. CASE Becomes(n, flagged) /\ k.type = T /\ Answer(n, <<>>)
    <2>1. Receives(Phase(s), s.value, s.time, chan[n], chan[Peer(n)],
                   "flagged", flagged.value, chan'[Peer(n)])
      BY <1>1, <1>4, <1>5, <1>8, Channels DEF Receives, k
    <2> QED
      BY <1>1, <1>5, <1>8, <2>1, Channels, ReadMoves
  <1>9. CASE /\ Becomes(n, DropHolder(ends)) /\ s.drop = "wait" /\ k.type = V
             /\ Answer(n, <<>>)
    <2>1. Receives(Phase(s), s.value, s.time, chan[n], chan[Peer(n)],
                   "idle", DropHolder(ends).value, chan'[Peer(n)])
      BY <1>1, <1>4, <1>7, <1>9, Channels DEF Receives, k
    <2> QED
      BY <1>1, <1>7, <1>9, <2>1, Channels, ReadMoves
  <1>10. CASE /\ Becomes(n, yields) /\ s.drop = "flagged" /\ k.type = V
              /\ Answer(n, <<Released(s.value)>>)
    <2>1. Receives(Phase(s), s.value, s.time, chan[n], chan[Peer(n)],
                   "resigns", yields.value, chan'[Peer(n)])
      BY <1>1, <1>2, <1>4, <1>6, <1>10, Channels DEF Receives, k
    <2> QED
      BY <1>1, <1>2, <1>6, <1>10, <2>1, Channels, ReadMoves
  <1>11. CASE Becomes(n, s) /\ k.type \in {A, R, "Halt"} /\ Answer(n, <<>>)
    <2>1. Receives(Phase(s), s.value, s.time, chan[n], chan[Peer(n)],
                   Phase(s), s.value, chan'[Peer(n)])
      BY <1>1, <1>4, <1>11, Channels DEF Receives, k
    <2> QED
      BY <1>1, <1>4, <1>11, <2>1, Channels, ReadMoves
  <1> QED
    BY <1>3, <1>8, <1>9, <1>10, <1>11

\* What the task does once its call of yield_lock has returned.
LEMMA YieldedFits ==
    ASSUME NEW s \in NodeType, Owned(s), Yields(s)
    PROVE  /\ Yielded(s).value = s.value
           /\ \/ Phase(s) = "retries" /\ Fits(Yielded(s), s, "waits")
              \/ Phase(s) = "resigns" /\ Fits(Yielded(s), s, "idle")
  <1>1. CASE s.owner = "app" /\ s.app = "yield"
    <2>1. Yielded(s) = [s EXCEPT !.app = "wait"]
      BY <1>1 DEF Yielded
    <2> QED
      BY <1>1, <2>1 DEF Fits, NodeType, Owned, Phase
  <1>2. CASE s.owner = "drop" /\ s.drop = "yield"
    <2> DEFINE ends == [s EXCEPT !.drop = "none"]
    <2>1. Yielded(s) = DropHolder(ends)
      BY <1>2 DEF Yielded
    <2>2. /\ ends \in NodeType /\ ends.drop = "none" /\ ends.bg \notin {"listen", "yield"}
          /\ ends.app \in {"idle", "signal", "called", "queued"}
          /\ ends.dropped # "no" => ends.app = "idle"
          /\ ends.value = s.value /\ ends.time = s.time /\ ends.dropped = s.dropped
      BY <1>2 DEF NodeType, Owned
    <2>3. Phase(s) = "resigns"
      BY <1>2 DEF NodeType, Owned, Phase
    <2> HIDE DEF ends
    <2> QED
      BY <2>1, <2>2, <2>3, DropHolderIdle DEF Fits
  <1>3. CASE s.owner = "bg" /\ s.bg = "yield"
    <2> DEFINE ends == [s EXCEPT !.bg = "top"]
    <2>1. Yielded(s) = Freed(ends)
      BY <1>3 DEF Yielded
    <2>2. /\ ends \in NodeType /\ ends.drop = "none" /\ ends.bg \notin {"listen", "yield"}
          /\ ends.app \in {"idle", "signal", "called", "queued"}
          /\ ends.dropped # "no" => ends.app = "idle"
          /\ ends.value = s.value /\ ends.time = s.time /\ ends.dropped = s.dropped
      BY <1>3 DEF NodeType, Owned
    <2>3. Phase(s) = "resigns"
      BY <1>3 DEF NodeType, Owned, Phase
    <2> HIDE DEF ends
    <2> QED
      BY <2>1, <2>2, <2>3, FreedIdle DEF Fits
  <1> QED
    BY <1>1, <1>2, <1>3 DEF Yields

\* yield_lock waits for the release of the other node.
LEMMA YieldMoves ==
    ASSUME TypeOK, NEW n \in Node, Owned(node[n]),
           YieldReleased(n) \/ YieldHalted(n) \/ YieldIgnores(n)
    PROVE  Moves(n)
  <1> DEFINE s == node[n]
             k == Head(chan[n])
             y == [s EXCEPT !.value = k.value]
  <1>1. /\ s \in NodeType /\ Owned(s) /\ latest' = latest /\ chan[n] # <<>> /\ k \in Packet
        /\ Yields(s)
    BY Channels DEF TypeOK, YieldReleased, YieldHalted, YieldIgnores, Reads
  <1>2. k.type = R => k.value \in Nat
    BY <1>1, PacketFields
  <1>3. \/ /\ Becomes(n, Yielded(y)) /\ k.type = R
           /\ Answer(n, <<LockAcquired, ReleasedVerified>>)
        \/ Becomes(n, Yielded(s)) /\ k.type = "Halt" /\ Answer(n, <<>>)
        \/ Becomes(n, s) /\ k.type \in {A, T, V} /\ Answer(n, <<>>)
    BY DEF YieldReleased, YieldHalted, YieldIgnores, Reads, Becomes, TypeOK, A, R, T, V
  <1> HIDE DEF s, k
  <1>4. Phase(s) \in {"retries", "resigns"} /\ Fits(s, s, Phase(s))
    BY <1>1 DEF Fits, NodeType, Owned, Phase, Yields
  <1>5. k.type = R =>
          /\ y \in NodeType /\ Owned(y) /\ Yields(y) /\ Phase(y) = Phase(s) /\ y.value = k.value
          /\ y.time = s.time /\ y.dropped = s.dropped
    BY <1>1, <1>2 DEF NodeType, Owned, Phase, Yields
  <1> HIDE DEF y
  <1> USE DEF s
  <1>6. CASE /\ Becomes(n, Yielded(y)) /\ k.type = R
             /\ Answer(n, <<LockAcquired, ReleasedVerified>>)
    <2>1. /\ Yielded(y).value = k.value
          /\ \/ Phase(s) = "retries" /\ Fits(Yielded(y), s, "waits")
             \/ Phase(s) = "resigns" /\ Fits(Yielded(y), s, "idle")
      BY <1>5, <1>6, YieldedFits DEF Fits
    <2>2. /\ chan' \in [Node -> Seq(Packet)] /\ chan'[n] = Tail(chan[n])
          /\ chan'[Peer(n)] = Append(Append(chan[Peer(n)], LockAcquired), ReleasedVerified)
      BY SMTT(30), <1>1, <1>6, Channels, Packets
    <2>3. CASE Phase(s) = "retries" /\ Fits(Yielded(y), s, "waits")
      <3>1. Receives("retries", s.value, s.time, chan[n], chan[Peer(n)],
                     "waits", Yielded(y).value, chan'[Peer(n)])
        BY <1>6, <2>1, <2>2 DEF Receives, k
      <3> QED
        BY <1>1, <1>6, <2>2, <2>3, <3>1, ReadMoves
    <2>4. CASE Phase(s) = "resigns" /\ Fits(Yielded(y), s, "idle")
      <3>1. Receives("resigns", s.value, s.time, chan[n], chan[Peer(n)],
                     "idle", Yielded(y).value, chan'[Peer(n)])
        BY <1>6, <2>1, <2>2 DEF Receives, k
      <3> QED
        BY <1>1, <1>6, <2>2, <2>4, <3>1, ReadMoves
    <2> QED
      BY <2>1, <2>3, <2>4
  <1>7. CASE Becomes(n, Yielded(s)) /\ k.type = "Halt" /\ Answer(n, <<>>)
    <2>1. PICK q \in {"waits", "idle"} : Fits(Yielded(s), s, q)
      BY <1>1, YieldedFits
    <2>2. Receives(Phase(s), s.value, s.time, chan[n], chan[Peer(n)],
                   q, Yielded(s).value, chan'[Peer(n)])
      BY <1>1, <1>4, <1>7, <2>1, Channels DEF Receives, k
    <2> QED
      BY <1>1, <1>7, <2>1, <2>2, Channels, ReadMoves
  <1>8. CASE Becomes(n, s) /\ k.type \in {A, T, V} /\ Answer(n, <<>>)
    <2>1. Receives(Phase(s), s.value, s.time, chan[n], chan[Peer(n)],
                   Phase(s), s.value, chan'[Peer(n)])
      BY <1>1, <1>4, <1>8, Channels DEF Receives, k
    <2> QED
      BY <1>1, <1>4, <1>8, <2>1, Channels, ReadMoves
  <1> QED
    BY <1>3, <1>6, <1>7, <1>8

\* The background handler and the senders of its signals.
LEMMA BgMoves ==
    ASSUME TypeOK, NEW n \in Node, Owned(node[n]),
           BgTryLock(n) \/ BgSignalled(n) \/ BgRequested(n) \/ BgEnds(n) \/ Alert(n)
    PROVE  Moves(n)
  <1> DEFINE s == node[n]
             k == Head(chan[n])
             p == Peer(n)
             listens == [s EXCEPT !.owner = "bg", !.bg = "listen"]
             sleeps == [s EXCEPT !.bg = "asleep"]
             wakes == [s EXCEPT !.bg = "top", !.sig = FALSE]
             yields == [s EXCEPT !.bg = "yield"]
             ends == [s EXCEPT !.bg = IF k = Halt THEN "dead" ELSE "panicked"]
             alerted == [s EXCEPT !.alerts = @ - 1, !.sig = s.bg \notin Ended]
             Same(x) == Fits(x, s, Phase(s)) /\ x.value = s.value
  <1>1. s \in NodeType /\ Owned(s) /\ latest' = latest
    BY DEF TypeOK, BgTryLock, BgSignalled, BgRequested, BgEnds, Alert
  <1>2. s.value \in Nat /\ Released(s.value) \in Packet
    BY <1>1, Packets DEF NodeType
  <1>3. \/ Becomes(n, listens) /\ s.bg = "top" /\ s.owner = "none" /\ chan' = chan
        \/ Becomes(n, sleeps) /\ s.bg = "top" /\ s.owner # "none" /\ chan' = chan
        \/ Becomes(n, Freed(wakes)) /\ s.bg = "listen" /\ chan' = chan
        \/ Becomes(n, wakes) /\ s.bg = "asleep" /\ chan' = chan
        \/ /\ Becomes(n, yields) /\ s.bg = "listen" /\ k.type = T /\ chan[n] # <<>>
           /\ Answer(n, <<Released(s.value)>>)
        \/ /\ Becomes(n, Freed(ends)) /\ s.bg = "listen" /\ k.type # T /\ chan[n] # <<>>
           /\ Answer(n, <<>>)
        \/ Becomes(n, alerted) /\ s.alerts > 0 /\ chan' = chan
    BY DEF BgTryLock, BgSignalled, BgRequested, BgEnds, Alert, Reads, Becomes, TypeOK,
           A, R, T, V
  <1> HIDE DEF s, k
  <1>4. s.bg = "top" /\ s.owner = "none" => Same(listens)
    BY <1>1 DEF Fits, NodeType, Owned, Phase
  <1>5. s.bg = "top" /\ s.owner # "none" => Same(sleeps)
    BY <1>1 DEF Fits, NodeType, Owned, Phase
  <1>6. s.bg = "asleep" => Same(wakes)
    BY <1>1 DEF Fits, NodeType, Owned, Phase
  <1>7. s.alerts > 0 => Same(alerted)
    <2>1. s.alerts > 0 => s.alerts - 1 \in Nat
      BY SMTT(30), <1>1 DEF NodeType
    <2> QED
      BY <1>1, <2>1 DEF Fits, NodeType, Owned, Phase
  <1>8. ASSUME s.bg = "listen"
        PROVE  /\ Phase(s) = "idle" /\ s.drop = "none"
               /\ s.app \in {"idle", "signal", "called", "queued"}
               /\ s.dropped # "no" => s.app = "idle"
    BY <1>1, <1>8 DEF NodeType, Owned, Phase
  <1>9. s.bg = "listen" => Same(Freed(wakes))
    <2> HAVE s.bg = "listen"
    <2>1. /\ wakes \in NodeType /\ wakes.bg = "top" /\ wakes.drop = s.drop /\ wakes.app = s.app
          /\ wakes.value = s.value /\ wakes.time = s.time /\ wakes.dropped = s.dropped
      BY <1>1 DEF NodeType
    <2> HIDE DEF wakes
    <2> QED
      BY SMTT(30), <1>8, <2>1, FreedIdle DEF Fits
  <1>10. s.bg = "listen" => Same(Freed(ends))
    <2> HAVE s.bg = "listen"
    <2>1. /\ ends \in NodeType /\ ends.bg \in Ended /\ ends.drop = s.drop /\ ends.app = s.app
          /\ ends.value = s.value /\ ends.time = s.time /\ ends.dropped = s.dropped
      BY <1>1 DEF NodeType, Ended
    <2> HIDE DEF ends
    <2> QED
      BY SMTT(30), <1>8, <2>1, FreedIdle DEF Fits, Ended
  <1>11. s.bg = "listen" => Fits(yields, s, "resigns") /\ yields.value = s.value
    BY <1>1 DEF Fits, NodeType, Owned, Phase
  <1> HIDE DEF listens, sleeps, wakes, yields, ends, alerted
  <1>12. ASSUME NEW x, Becomes(n, x), Same(x), chan' = chan PROVE Moves(n)
    <2>1. Step(Phase(s), s.value, s.time, chan[n], chan[p], latest,
               Phase(x), x.value, x.time, chan'[n], chan'[p], latest')
      BY <1>1, <1>12 DEF Step, Sends, Fits
    <2> QED
      BY <1>1, <1>12, <2>1, Moved DEF Fits, s, TypeOK
  <1> USE DEF s
  <1>13. CASE /\ Becomes(n, yields) /\ s.bg = "listen" /\ k.type = T /\ chan[n] # <<>>
              /\ Answer(n, <<Released(s.value)>>)
    <2>1. Receives(Phase(s), s.value, s.time, chan[n], chan[p],
                   "resigns", yields.value, chan'[p])
      BY <1>2, <1>8, <1>11, <1>13, Channels DEF Receives, k
    <2> QED
      BY <1>1, <1>2, <1>11, <1>13, <2>1, Channels, ReadMoves
  <1>14. CASE /\ Becomes(n, Freed(ends)) /\ s.bg = "listen" /\ k.type # T /\ chan[n] # <<>>
              /\ Answer(n, <<>>)
    <2>1. Receives(Phase(s), s.value, s.time, chan[n], chan[p],
                   Phase(s), Freed(ends).value, chan'[p])
      BY <1>8, <1>10, <1>14, Channels DEF Receives, k
    <2> QED
      BY <1>1, <1>10, <1>14, <2>1, Channels, ReadMoves
  <1> HIDE DEF Same, s
  <1> QED
    BY <1>3, <1>4, <1>5, <1>6, <1>7, <1>9, <1>12, <1>13, <1>14

\* Every step but those that drop the mutex.
LEMMA AllMove ==
    ASSUME TypeOK, NEW n \in Node, Owned(node[n]), Task(n) \/ Lock(n) \/ DropGuard(n),
           ~SendHalt(n)
    PROVE  Moves(n)
  BY LockMoves, RequestMoves, AcquireMoves, GuardMoves, DropMoves, YieldMoves, BgMoves DEF Task
-----------------------------------------------------------------------------
(* The invariant *)

\* The mutex as it is established satisfies the invariant.
LEMMA InitInv == Init => IInv
  <1> SUFFICES ASSUME Init PROVE IInv
    OBVIOUS
  <1> DEFINE s == [owner |-> "none", app |-> "idle", drop |-> "none", bg |-> "top",
                   sig |-> FALSE, alerts |-> 0, value |-> 0, time |-> 0, dropped |-> "no"]
  <1>1. s \in NodeType /\ Owned(s) /\ Phase(s) = "idle" /\ s.value = 0 /\ s.dropped = "no"
    BY SMTT(30), NetMutexAssumption DEF NodeType, Owned, Phase
  <1>2. \A n \in Node : node[n] = s /\ chan[n] = <<>>
    BY DEF Init
  <1>3. TypeOK
    <2>1. node \in [Node -> NodeType]
      BY <1>1 DEF Init
    <2> QED
      BY SMTT(30), <2>1 DEF Init, TypeOK
  <1> HIDE DEF s
  <1>4. Empty(<<>>) /\ Current(<<>>, 0) /\ ~Lost(<<>>)
    BY SMTT(30) DEF Empty, Current, Lost, Two, Three
  <1>5. Config("idle", 0, <<>>, "idle", 0, <<>>, 0)
    BY <1>4 DEF Config, Line, Nobody
  <1>6. Together
    BY <1>1, <1>2, <1>5, Peers DEF Together, Init
  <1>7. Times
    BY <1>1, <1>2, Peers DEF Times, Timed
  <1>8. NoHalt /\ \A n \in Node : Owned(node[n])
    BY <1>1, <1>2 DEF NoHalt
  <1> QED
    BY <1>3, <1>6, <1>7, <1>8 DEF IInv

\* The order of the two nodes does not matter.
LEMMA Symmetric ==
    ASSUME NEW q, NEW v, NEW c, NEW r, NEW u, NEW d, NEW l
    PROVE  Config(q, v, c, r, u, d, l) <=> Config(r, u, d, q, v, c, l)
  BY DEF Config

\* What holds of a node and of the other holds of both.
LEMMA Both == \A n \in Node : Node = {n, Peer(n)}
  BY Peers

\* A step while both nodes keep the mutex.
LEMMA TogetherKept ==
    ASSUME IInv, NoHalt, NEW n \in Node, Moves(n)
    PROVE  NoHalt' /\ Together' /\ Times'
  <1> DEFINE p == Peer(n)
  <1>1. /\ node'[p] = node[p] /\ node'[n].dropped = node[n].dropped
        /\ Step(Phase(node[n]), node[n].value, node[n].time, chan[n], chan[p], latest,
                Phase(node'[n]), node'[n].value, node'[n].time, chan'[n], chan'[p], latest')
    BY DEF Moves
  <1>2. /\ p \in Node /\ Peer(p) = n /\ Node = {n, p}
        /\ chan[n] \in Seq(Packet) /\ chan[p] \in Seq(Packet) /\ latest \in Nat
        /\ node[n] \in NodeType /\ node[p] \in NodeType
    BY Peers, Both DEF IInv, TypeOK
  <1>3. node[n].value \in Nat /\ node[n].time \in Nat /\ node[p].time \in Nat
    BY SMTT(30), <1>2, NetMutexAssumption DEF NodeType
  <1>4. /\ Config(Phase(node[n]), node[n].value, chan[n],
                  Phase(node[p]), node[p].value, chan[p], latest)
        /\ Timed(Phase(node[n]), node[n].time, chan[n], chan[p])
        /\ Timed(Phase(node[p]), node[p].time, chan[p], chan[n])
    BY <1>2 DEF IInv, Together, Times
  <1>5. Config(Phase(node'[n]), node'[n].value, chan'[n],
               Phase(node'[p]), node'[p].value, chan'[p], latest')
    <2>1. Phase(node[n]) = "waits" /\ Lost(chan[n]) => chan[n][1].time <= node[n].time
      BY <1>4 DEF Timed
    <2> QED
      BY SMTT(30), <1>1, <1>2, <1>3, <1>4, <2>1, StepsTogether
  <1>6. /\ Timed(Phase(node'[n]), node'[n].time, chan'[n], chan'[p])
        /\ Timed(Phase(node'[p]), node'[p].time, chan'[p], chan'[n])
    BY SMTT(30), <1>1, <1>2, <1>3, <1>4, StepsTimed
  <1>7. Config(Phase(node'[p]), node'[p].value, chan'[p],
               Phase(node'[n]), node'[n].value, chan'[n], latest')
    BY <1>5, Symmetric
  <1>8. Together'
    BY <1>2, <1>5, <1>7 DEF Together
  <1>9. Times'
    BY <1>2, <1>6 DEF Times
  <1>10. NoHalt'
    BY <1>1, <1>2 DEF NoHalt
  <1> QED
    BY <1>8, <1>9, <1>10

\* A step after a node has dropped the mutex.
LEMMA AloneKept ==
    ASSUME IInv, ~NoHalt, NEW n \in Node, Moves(n)
    PROVE  /\ \A m \in Node : Alone(m)'
           /\ ~NoHalt'
  <1> DEFINE p == Peer(n)
             q == Phase(node[n])
             q2 == Phase(node'[n])
  <1>1. /\ node'[p] = node[p] /\ node'[n].dropped = node[n].dropped
        /\ Step(q, node[n].value, node[n].time, chan[n], chan[p], latest,
                q2, node'[n].value, node'[n].time, chan'[n], chan'[p], latest')
    BY DEF Moves
  <1>2. /\ p \in Node /\ Peer(p) = n /\ Node = {n, p} /\ chan[n] \in Seq(Packet)
        /\ node[n] \in NodeType
    BY Peers, Both DEF IInv, TypeOK
  <1>3. node[n].time \in Nat
    BY SMTT(30), <1>2, NetMutexAssumption DEF NodeType
  <1>4. /\ q = "holds" => /\ Phase(node[p]) # "holds"
                          /\ \/ node[p].dropped # "no"
                             \/ Harmless(Phase(node[p]), node[p].time, chan[p])
        /\ Phase(node[p]) = "holds" => /\ q # "holds"
                                       /\ \/ node[n].dropped # "no"
                                          \/ Harmless(q, node[n].time, chan[n])
    BY <1>2 DEF IInv, Alone
  <1>5. node[n].dropped # "no" => q # "waits"
    BY <1>2 DEF IInv, Owned, Phase, NodeType
  <1>6. node[n].dropped # "no" \/ node[p].dropped # "no"
    BY <1>2 DEF NoHalt
  <1>7. q2 = "holds" => q \in {"holds", "waits"}
    BY <1>1 DEF Step, Sends, Receives
  <1>8. q = "holds" /\ q2 = "holds" => chan'[p] = chan[p]
    BY <1>1 DEF Step, Sends, Receives
  <1>9. Harmless(q, node[n].time, chan[n]) /\ q # "holds" =>
          q2 # "holds" /\ Harmless(q2, node'[n].time, chan'[n])
    BY SMTT(30), <1>1, <1>2, <1>3, StepsHarmless
  <1>10. Phase(node'[n]) = "holds" =>
           /\ Phase(node'[p]) # "holds"
           /\ node'[p].dropped # "no" \/ Harmless(Phase(node'[p]), node'[p].time, chan'[p])
    BY <1>1, <1>4, <1>5, <1>6, <1>7, <1>8, <1>9
  <1>11. Phase(node'[p]) = "holds" =>
           /\ Phase(node'[n]) # "holds"
           /\ node'[n].dropped # "no" \/ Harmless(Phase(node'[n]), node'[n].time, chan'[n])
    BY <1>1, <1>4, <1>5, <1>7, <1>9
  <1>12. Alone(n)' /\ Alone(p)'
    BY <1>2, <1>10, <1>11 DEF Alone
  <1>13. ~NoHalt'
    BY <1>1, <1>2, <1>6 DEF NoHalt
  <1> QED
    BY <1>2, <1>12, <1>13

\* Two nodes are never both past a request; the other can be given the lock in no way.
LEMMA HeldAlone == IInv => \A n \in Node : Alone(n)
  <1> SUFFICES ASSUME IInv, NoHalt, NEW n \in Node PROVE Alone(n)
    BY DEF IInv
  <1> DEFINE p == Peer(n)
  <1>1. p \in Node /\ Peer(p) = n /\ chan[p] \in Seq(Packet)
    BY Peers DEF IInv, TypeOK
  <1>2. /\ Config(Phase(node[n]), node[n].value, chan[n],
                  Phase(node[p]), node[p].value, chan[p], latest)
        /\ Timed(Phase(node[p]), node[p].time, chan[p], chan[n])
    BY <1>1 DEF IInv, Together, Times
  <1> QED
    BY SMTT(30), <1>1, <1>2, HasHarmless DEF Alone

\* NetMutex::drop, in whatever state the two nodes are.
LEMMA DropMutexInv ==
    ASSUME IInv, NEW n \in Node, DropMutex(n)
    PROVE  IInv'
  <1> DEFINE p == Peer(n)
             s == node[n]
             b == IF s.bg = "panicked" THEN s.bg ELSE "dead"
             o == IF s.owner = "bg" THEN "none" ELSE s.owner
             x == [s EXCEPT !.dropped = "spawned", !.bg = b, !.owner = o]
  <1>1. /\ p \in Node /\ p # n /\ Peer(p) = n /\ Node = {n, p} /\ TypeOK
        /\ s \in NodeType /\ Owned(s) /\ Owned(node[p]) /\ Alone(n) /\ Alone(p)
    BY Peers, Both, HeldAlone DEF IInv, TypeOK
  <1>2. /\ node' = [node EXCEPT ![n] = x] /\ chan' = chan /\ latest' = latest
        /\ s.app \in {"idle", "hold"}
    BY DEF DropMutex, IInv, TypeOK
  <1> HIDE DEF s
  <1>3. /\ x \in NodeType /\ Owned(x) /\ x.dropped = "spawned"
        /\ Phase(x) = "holds" => Phase(s) = "holds"
    <2>1. b \in Ended /\ o \in {"none", "app", "drop"}
      BY <1>1 DEF NodeType, Ended
    <2> HIDE DEF b, o
    <2>2. /\ x \in NodeType /\ x.bg = b /\ x.dropped = "spawned" /\ x.owner = o
          /\ x.app = s.app /\ x.drop = s.drop
      BY <1>1, <2>1 DEF NodeType
    <2> HIDE DEF x
    <2>3. Owned(x)
      BY <1>1, <1>2, <2>1, <2>2 DEF Owned, Ended, b, o
    <2> QED
      BY <2>1, <2>2, <2>3 DEF Phase, Ended
  <1> HIDE DEF x
  <1>4. node'[n] = x /\ node'[p] = node[p]
    BY <1>1, <1>2 DEF TypeOK
  <1>5. TypeOK'
    BY <1>1, <1>2, <1>3 DEF TypeOK
  <1>6. Alone(n)' /\ Alone(p)' /\ ~NoHalt'
    BY <1>1, <1>2, <1>3, <1>4 DEF Alone, NoHalt, s
  <1> QED
    BY <1>1, <1>3, <1>4, <1>5, <1>6 DEF IInv

\* The Halt that the drop of a NetMutex sends.
LEMMA SendHaltInv ==
    ASSUME IInv, NEW n \in Node, SendHalt(n)
    PROVE  IInv'
  <1> DEFINE p == Peer(n)
             s == node[n]
             x == [s EXCEPT !.dropped = "sent"]
  <1>1. /\ p \in Node /\ p # n /\ Peer(p) = n /\ Node = {n, p} /\ TypeOK
        /\ s \in NodeType /\ Owned(s) /\ Owned(node[p]) /\ Alone(n) /\ Alone(p)
        /\ chan[p] \in Seq(Packet)
    BY Peers, Both, HeldAlone DEF IInv, TypeOK
  <1>2. node' = [node EXCEPT ![n] = x] /\ latest' = latest /\ s.dropped = "spawned"
    BY DEF SendHalt, IInv, TypeOK
  <1>3. /\ chan' \in [Node -> Seq(Packet)] /\ chan'[n] = chan[n]
        /\ chan'[p] = Append(chan[p], Halt)
    BY <1>1, Channels, Packets DEF SendHalt
  <1> HIDE DEF s
  <1>4. x \in NodeType /\ Owned(x) /\ x.dropped = "sent" /\ Phase(x) = Phase(s)
    BY <1>1, <1>2 DEF NodeType, Owned, Phase
  <1> HIDE DEF x
  <1>5. node'[n] = x /\ node'[p] = node[p]
    BY <1>1, <1>2 DEF TypeOK
  <1>6. TypeOK'
    BY <1>1, <1>2, <1>3, <1>4 DEF TypeOK
  <1>7. Harmless(Phase(node[p]), node[p].time, chan[p]) =>
          Harmless(Phase(node'[p]), node'[p].time, chan'[p])
    BY <1>1, <1>3, <1>5, HaltHarmless
  <1>8. Alone(n)' /\ Alone(p)' /\ ~NoHalt'
    BY <1>1, <1>3, <1>4, <1>5, <1>7 DEF Alone, NoHalt, s
  <1> QED
    BY <1>1, <1>4, <1>5, <1>6, <1>8 DEF IInv

\* Every step keeps the invariant.
LEMMA Inductive == IInv /\ [Next]_vars => IInv'
  <1> SUFFICES ASSUME IInv, [Next]_vars PROVE IInv'
    OBVIOUS
  <1>1. CASE UNCHANGED vars
    BY <1>1 DEF vars, IInv, TypeOK, NoHalt, Together, Times, Alone
  <1>2. ASSUME NEW n \in Node, Task(n) \/ Lock(n) \/ DropGuard(n), ~SendHalt(n)
        PROVE  IInv'
    <2>1. TypeOK /\ Owned(node[n])
      BY DEF IInv
    <2>2. Moves(n)
      BY <1>2, <2>1, AllMove
    <2>3. TypeOK' /\ \A m \in Node : Owned(node'[m])
      BY <2>2, Peers DEF Moves, TypeOK, IInv
    <2>4. CASE NoHalt
      BY <2>2, <2>3, <2>4, TogetherKept DEF IInv
    <2>5. CASE ~NoHalt
      BY <2>2, <2>3, <2>5, AloneKept DEF IInv
    <2> QED
      BY <2>4, <2>5
  <1>3. ASSUME NEW n \in Node, SendHalt(n) PROVE IInv'
    BY <1>3, SendHaltInv
  <1>4. ASSUME NEW n \in Node, DropMutex(n) PROVE IInv'
    BY <1>4, DropMutexInv
  <1> QED
    BY <1>1, <1>2, <1>3, <1>4 DEF Next

\* The invariant gives exclusive guards that show the value left last.
LEMMA GuardsFollow == IInv => MutexGuards
  <1> SUFFICES ASSUME IInv PROVE MutexGuards
    OBVIOUS
  <1>1. \A n \in Node : node[n].app = "hold" => Phase(node[n]) = "holds"
    BY DEF Phase
  <1>2. \A n \in Node : Phase(node[n]) = "holds" => Phase(node[Peer(n)]) # "holds"
    BY HeldAlone DEF Alone
  <1>3. MutualExclusion
    BY <1>1, <1>2, Peers DEF MutualExclusion
  <1>4. GuardIsFresh
    <2> SUFFICES ASSUME NoHalt, NEW n \in Node, node[n].app = "hold"
                 PROVE  node[n].value = latest
      BY DEF GuardIsFresh
    <2> DEFINE p == Peer(n)
    <2>1. p \in Node /\ Peer(p) = n /\ chan[p] \in Seq(Packet)
      BY Peers DEF IInv, TypeOK
    <2>2. /\ Config(Phase(node[n]), node[n].value, chan[n],
                    Phase(node[p]), node[p].value, chan[p], latest)
          /\ Timed(Phase(node[p]), node[p].time, chan[p], chan[n])
      BY <2>1 DEF IInv, Together, Times
    <2> QED
      BY SMTT(30), <1>1, <2>1, <2>2, HasHarmless
  <1> QED
    BY <1>3, <1>4 DEF MutexGuards, IInv

(***************************************************************************)
(* The guards that lock() returns exclude each other and show the value    *)
(* left last: of net_mutex_guard_acquire, yield_lock, net_mutex_drop_code  *)
(* and the background handler, with a node that drops its NetMutex at any  *)
(* moment.                                                                 *)
(***************************************************************************)
THEOREM MutexSafe == Spec => []MutexGuards
  BY InitInv, Inductive, GuardsFollow, PTL DEF Spec
=============================================================================
