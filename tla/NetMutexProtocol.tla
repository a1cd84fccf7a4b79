-------------------------- MODULE NetMutexProtocol --------------------------
(***************************************************************************)
(* The protocol of the mutex that two nodes share, apart from the tasks    *)
(* that speak it: what the two nodes may be doing together with the        *)
(* packets between them, and that the steps of a node keep it so.  The     *)
(* lemmas are about any phases, values and channels; NetMutexProofs shows  *)
(* that the actions of the mutex are such steps.                           *)
(*                                                                         *)
(* A node holds the lock, waits for an answer to its request, retries (it  *)
(* yields and asks again), has released the lock, is flagged (it released  *)
(* the lock and saw a request since), resigns (it yields and does not ask  *)
(* again) or is idle.                                                      *)
(***************************************************************************)
EXTENDS NetMutex, TLAPS

\* Zenon has 30 seconds for each leaf that does not name another prover.
USE ZenonT(30)

\* A channel a packet was sent on.
LEMMA SentOn ==
    ASSUME NEW Q, NEW c \in Seq(Q), NEW p \in Q
    PROVE  /\ Append(c, p) \in Seq(Q) /\ Append(c, p) # <<>> /\ Len(Append(c, p)) = Len(c) + 1
           /\ Append(c, p)[Len(c) + 1] = p /\ \A k \in 1..Len(c) : Append(c, p)[k] = c[k]
  BY SMTT(30)

\* The first packet of a channel stays the first when another is sent.
LEMMA SentLast ==
    ASSUME NEW Q, NEW c \in Seq(Q), NEW p \in Q
    PROVE  /\ Head(Append(c, p)) = IF c = <<>> THEN p ELSE Head(c)
           /\ Tail(Append(c, p)) = IF c = <<>> THEN <<>> ELSE Append(Tail(c), p)
  BY SMTT(30)

\* A channel a packet was read from.
LEMMA ReadFrom ==
    ASSUME NEW Q, NEW c \in Seq(Q), c # <<>>
    PROVE  /\ Head(c) \in Q /\ Tail(c) \in Seq(Q) /\ Len(Tail(c)) = Len(c) - 1
           /\ \A k \in 1..Len(Tail(c)) : Tail(c)[k] = c[k + 1]
  BY SMTT(30)

\* The packets of a channel, by their types.
Empty(c) == Len(c) = 0
One(c, t) == Len(c) = 1 /\ c[1].type = t
Two(c, t, u) == Len(c) = 2 /\ c[1].type = t /\ c[2].type = u
Three(c, t, u, v) == Len(c) = 3 /\ c[1].type = t /\ c[2].type = u /\ c[3].type = v
Four(c, t, u, v, x) ==
    Len(c) = 4 /\ c[1].type = t /\ c[2].type = u /\ c[3].type = v /\ c[4].type = x

T == "TryAcquire"
R == "Released"
A == "LockAcquired"
V == "ReleasedVerified"

\* One node has the lock; q is the phase of the other, w is on its way to the other
\* and c to the one that has the lock.
Beaten(q, w, c) ==
    \/ /\ Empty(c)
       /\ \/ q = "idle" /\ Empty(w)
          \/ q = "waits" /\ (Empty(w) \/ One(w, A) \/ Two(w, T, A))
          \/ q \in {"retries", "resigns"} /\ (Empty(w) \/ One(w, V) \/ Two(w, A, V))
          \/ q = "retries" /\ One(w, A)
          \/ q = "released" /\ (One(w, V) \/ Two(w, A, V) \/ Three(w, T, A, V))
          \/ q = "flagged" /\ (One(w, V) \/ Two(w, A, V))
    \/ /\ One(c, R)
       /\ \/ q \in {"retries", "resigns"} /\ Empty(w)
          \/ q = "retries" /\ One(w, A)
    \/ One(c, T) /\ q = "waits" /\ Empty(w)

(***************************************************************************)
(* The states of the two nodes.  For the one: its phase q, its value v and *)
(* the packets c on their way to it; r, u and d for the other; l is the    *)
(* value left last.                                                        *)
(***************************************************************************)

\* The one has the lock.
Has(q, v, c, r, d, l) == q = "holds" /\ v = l /\ Beaten(r, d, c)

\* The one has released the lock, and the other has not read that yet.
Releases(q, v, c, r, d, l) ==
    /\ v = l
    /\ \E w \in Seq(Packet) :
          /\ d = Append(w, Released(l))
          /\ \/ q = "released" /\ Beaten(r, w, c)
             \/ q = "flagged" /\ r = "waits" /\ Empty(w) /\ Empty(c)

\* The other has taken over the value in yield_lock, and the one will be told.
Verifies(q, v, c, r, u, d, l) ==
    /\ q = "released" /\ v = l /\ u = l /\ Empty(d)
    /\ \/ r \in {"idle", "waits"} /\ (One(c, V) \/ Two(c, A, V) \/ Three(c, R, A, V))
       \/ r = "waits" /\ (Two(c, V, T) \/ Three(c, A, V, T) \/ Four(c, R, A, V, T))

\* Every release in c carries the value left last.
Current(c, l) == \A i \in 1 .. Len(c) : c[i].type = R => c[i].value = l

\* What an acquirer ignores
Noise(c) == Empty(c) \/ One(c, V) \/ Two(c, A, V)

\* Nobody has the lock.
Nobody(q, v, c, r, u, d, l) ==
    /\ v = l /\ u = l /\ Current(c, l) /\ Current(d, l)
    /\ \/ q = "idle" /\ r = "idle" /\ Empty(c) /\ Empty(d)
       \/ q = "idle" /\ r = "waits" /\ (Empty(c) \/ One(c, T)) /\ Empty(d)
       \/ /\ q = "waits" /\ r = "waits"
          /\ \/ Noise(c) /\ Noise(d)
             \/ (Empty(c) \/ One(c, T)) /\ One(d, T)
       \/ q = "waits" /\ r \in {"retries", "resigns"} /\ One(c, R) /\ Empty(d)
       \/ q = "waits" /\ r = "retries" /\ Two(c, T, R) /\ Empty(d)
       \/ q = "waits" /\ r = "retries" /\ Empty(c) /\ Three(d, R, A, V)
       \/ q = "retries" /\ r = "retries" /\ One(c, R) /\ One(d, R)

\* The background of the other took the release for a packet it cannot meet: the one
\* waits for a verification that does not come.
Stuck(q, c, r, d) ==
    /\ Empty(d)
    /\ \/ q = "released" /\ r = "idle" /\ Empty(c)
       \/ q = "released" /\ r = "waits" /\ One(c, T)
       \/ q = "flagged" /\ r = "waits" /\ Empty(c)

Line(q, v, c, r, u, d, l) ==
    \/ Has(q, v, c, r, d, l)
    \/ Releases(q, v, c, r, d, l)
    \/ Verifies(q, v, c, r, u, d, l)
    \/ Nobody(q, v, c, r, u, d, l)
    \/ Stuck(q, c, r, d)

Config(q, v, c, r, u, d, l) == Line(q, v, c, r, u, d, l) \/ Line(r, u, d, q, v, c, l)

(***************************************************************************)
(* The times of the requests.  The latest request of a node is from time   *)
(* t, c is on its way to the node and d to the other.  An acquirer that    *)
(* waits has sent nothing since its request; the request of a node that    *)
(* won a conflict is not younger than that of the acquirer it reaches.     *)
(***************************************************************************)
Lost(c) == Two(c, T, A) \/ Three(c, T, A, R)

Timed(q, t, c, d) ==
    q = "waits" =>
       /\ Len(d) > 0 /\ d[Len(d)].type = T => d[Len(d)].time = t
       /\ Lost(c) => c[1].time <= t

\* The packets that may give the lock to an acquirer.
Grants(c) == {i \in 1 .. Len(c) : c[i].type \in {T, R}}

\* What is on its way to a node, which is in phase q and sent its latest request at t,
\* does not make the node acquire the lock.
Harmless(q, t, c) ==
    \/ Grants(c) = {}
    \/ /\ q \in {"released", "flagged"}
       /\ \E j \in 1 .. Len(c) : c[j].type = V
       /\ \A i \in Grants(c) : \A j \in 1 .. Len(c) : c[j].type = V => i < j
    \/ q = "waits" /\ Grants(c) = {1} /\ c[1].type = T /\ c[1].time <= t

(***************************************************************************)
(* The steps of a node in terms of the protocol.  Its phase, its value,    *)
(* the time of its latest request, the packets on their way to it and to   *)
(* the other node, and the value left last are q, v, t, c, d and l before  *)
(* the step and q2, v2, t2, c2, d2 and l2 after it.                        *)
(***************************************************************************)
Sends(q, v, t, c, d, l, q2, v2, t2, c2, d2, l2) ==
    /\ c2 = c
    /\ \/ q2 = q /\ v2 = v /\ t2 = t /\ d2 = d /\ l2 = l
       \/ /\ q = "idle" /\ q2 = "waits" /\ v2 = v /\ l2 = l
          /\ t2 \in 1 .. MaxTime /\ d2 = Append(d, TryAcquire(t2))
       \/ q = "holds" /\ q2 = "holds" /\ v2 = l2 /\ t2 = t /\ d2 = d
       \/ /\ q = "holds" /\ q2 = "released" /\ v2 = v /\ t2 = t /\ l2 = l
          /\ d2 = Append(d, Released(v))

Receives(q, v, t, c, d, q2, v2, d2) ==
    \/ /\ q = "waits" /\ q2 = "holds" /\ Head(c).type = R /\ v2 = Head(c).value
       /\ d2 = Append(Append(d, LockAcquired), ReleasedVerified)
    \/ /\ q = "waits" /\ q2 = "holds" /\ Head(c).type = T /\ Head(c).time > t
       /\ v2 = v /\ d2 = Append(d, LockAcquired)
    \/ /\ q = "waits" /\ q2 = "retries" /\ Head(c).type = T
       /\ v2 = v /\ d2 = Append(d, Released(v))
    \/ q = "waits" /\ q2 = q /\ Head(c).type \in {A, V} /\ v2 = v /\ d2 = d
    \/ /\ q = "idle" /\ q2 = "resigns" /\ Head(c).type = T
       /\ v2 = v /\ d2 = Append(d, Released(v))
    \/ q = "idle" /\ q2 = q /\ Head(c).type # T /\ v2 = v /\ d2 = d
    \/ q \in {"released", "flagged"} /\ q2 = "flagged" /\ Head(c).type = T /\ v2 = v /\ d2 = d
    \/ q = "released" /\ q2 = "idle" /\ Head(c).type = V /\ v2 = v /\ d2 = d
    \/ /\ q = "flagged" /\ q2 = "resigns" /\ Head(c).type = V
       /\ v2 = v /\ d2 = Append(d, Released(v))
    \/ /\ q \in {"released", "flagged"} /\ q2 = q /\ Head(c).type \in {A, R}
       /\ v2 = v /\ d2 = d
    \/ q \in {"retries", "resigns"} /\ q2 = q /\ Head(c).type \in {A, T, V} /\ v2 = v /\ d2 = d
    \/ /\ (q = "retries" /\ q2 = "waits") \/ (q = "resigns" /\ q2 = "idle")
       /\ Head(c).type = R /\ v2 = Head(c).value
       /\ d2 = Append(Append(d, LockAcquired), ReleasedVerified)
    \/ /\ q # "holds" /\ q2 # "holds" /\ Head(c).type = "Halt" /\ d2 = d
       /\ q \in {"released", "flagged"} => q2 = q

Step(q, v, t, c, d, l, q2, v2, t2, c2, d2, l2) ==
    \/ Sends(q, v, t, c, d, l, q2, v2, t2, c2, d2, l2)
    \/ /\ Receives(q, v, t, c, d, q2, v2, d2)
       /\ c # <<>> /\ c2 = Tail(c) /\ t2 = t /\ l2 = l
-----------------------------------------------------------------------------
(* Channels *)

\* What a handler reads from a channel, and what it leaves there.
LEMMA ReadWord ==
    ASSUME NEW c \in Seq(Packet)
    PROVE  /\ Empty(c) <=> c = <<>>
           /\ \A t : One(c, t) => c # <<>> /\ Head(c).type = t /\ Empty(Tail(c))
           /\ \A t, u : Two(c, t, u) => c # <<>> /\ Head(c).type = t /\ One(Tail(c), u)
           /\ \A t, u, v : Three(c, t, u, v) =>
                 c # <<>> /\ Head(c).type = t /\ Two(Tail(c), u, v)
           /\ \A t, u, v, x : Four(c, t, u, v, x) =>
                 c # <<>> /\ Head(c).type = t /\ Three(Tail(c), u, v, x)
  <1>1. Empty(c) <=> c = <<>>
    BY SMTT(30) DEF Empty
  <1>2. /\ Len(c) \in Nat
        /\ c = <<>> => Len(c) = 0
        /\ c # <<>> => Head(c) = c[1] /\ Len(Tail(c)) = Len(c) - 1
    BY SMTT(30)
  <1>3. c # <<>> => \A i \in 1 .. Len(Tail(c)) : Tail(c)[i] = c[i + 1]
    BY ReadFrom
  <1>4. Len(c) >= 2 => Tail(c)[1] = c[2]
    BY SMTT(30), <1>2, <1>3
  <1>5. Len(c) >= 3 => Tail(c)[2] = c[3]
    BY SMTT(30), <1>2, <1>3
  <1>6. Len(c) >= 4 => Tail(c)[3] = c[4]
    BY SMTT(30), <1>2, <1>3
  <1>7. \A t : One(c, t) => c # <<>> /\ Head(c).type = t /\ Empty(Tail(c))
    BY SMTT(30), <1>2 DEF Empty, One
  <1>8. \A t, u : Two(c, t, u) => c # <<>> /\ Head(c).type = t /\ One(Tail(c), u)
    BY SMTT(30), <1>2, <1>4 DEF One, Two
  <1>9. \A t, u, v : Three(c, t, u, v) =>
           c # <<>> /\ Head(c).type = t /\ Two(Tail(c), u, v)
    BY SMTT(30), <1>2, <1>4, <1>5 DEF Two, Three
  <1>10. \A t, u, v, x : Four(c, t, u, v, x) =>
           c # <<>> /\ Head(c).type = t /\ Three(Tail(c), u, v, x)
    <2> SUFFICES ASSUME NEW t, NEW u, NEW v, NEW x, Four(c, t, u, v, x)
                 PROVE  c # <<>> /\ Head(c).type = t /\ Three(Tail(c), u, v, x)
      OBVIOUS
    <2>1. Len(c) = 4 /\ c[1].type = t /\ c[2].type = u /\ c[3].type = v /\ c[4].type = x
      BY DEF Four
    <2>2. c # <<>> /\ Len(Tail(c)) = 3
      BY SMTT(30), <1>2, <2>1
    <2>3. Tail(c)[1] = c[2] /\ Tail(c)[2] = c[3] /\ Tail(c)[3] = c[4]
      <3>1. Len(c) >= 2 /\ Len(c) >= 3 /\ Len(c) >= 4
        BY SMTT(30), <2>1
      <3> QED
        BY <1>4, <1>5, <1>6, <3>1
    <2>4. Head(c).type = t
      BY <1>2, <2>1, <2>2
    <2> QED
      BY <2>1, <2>2, <2>3, <2>4 DEF Three
  <1> QED
    BY <1>1, <1>7, <1>8, <1>9, <1>10

\* What a channel holds after a packet was sent.
LEMMA SendWord ==
    ASSUME NEW c \in Seq(Packet), NEW m \in Packet
    PROVE  /\ Append(c, m) \in Seq(Packet) /\ Append(c, m) # <<>>
           /\ Empty(c) => One(Append(c, m), m.type)
           /\ \A t : One(c, t) => Two(Append(c, m), t, m.type)
           /\ \A t, u : Two(c, t, u) => Three(Append(c, m), t, u, m.type)
           /\ \A t, u, v : Three(c, t, u, v) => Four(Append(c, m), t, u, v, m.type)
  <1>1. /\ Len(Append(c, m)) = Len(c) + 1 /\ Append(c, m)[Len(c) + 1] = m
        /\ \A i \in 1 .. Len(c) : Append(c, m)[i] = c[i]
        /\ Len(c) \in Nat /\ Append(c, m) \in Seq(Packet)
    BY SMTT(30), SentOn
  <1>2. Append(c, m) # <<>>
    BY SMTT(30), <1>1
  <1>3. Empty(c) => One(Append(c, m), m.type)
    BY SMTT(30), <1>1 DEF Empty, One
  <1>4. \A t : One(c, t) => Two(Append(c, m), t, m.type)
    BY SMTT(30), <1>1 DEF One, Two
  <1>5. \A t, u : Two(c, t, u) => Three(Append(c, m), t, u, m.type)
    BY SMTT(30), <1>1 DEF Two, Three
  <1>6. \A t, u, v : Three(c, t, u, v) => Four(Append(c, m), t, u, v, m.type)
    BY SMTT(30), <1>1 DEF Three, Four
  <1> QED
    BY <1>1, <1>2, <1>3, <1>4, <1>5, <1>6

\* Answers of no, one and two packets.
LEMMA Answers ==
    ASSUME NEW c \in Seq(Packet), NEW m \in Packet, NEW k \in Packet
    PROVE  /\ c \o <<>> = c
           /\ c \o <<m>> = Append(c, m)
           /\ c \o <<m, k>> = Append(Append(c, m), k)
  <1>1. c \o <<m, k>> = Append(Append(c, m), k)
    BY SMTT(30)
  <1>2. c \o <<m>> = Append(c, m)
    BY SMTT(30)
  <1>3. c \o <<>> = c
    BY SMTT(30)
  <1> QED
    BY <1>1, <1>2, <1>3

\* The packet that was sent last stays last.
LEMMA ReadBefore ==
    ASSUME NEW w \in Seq(Packet), NEW m \in Packet
    PROVE  /\ w = <<>> => Head(Append(w, m)) = m /\ Tail(Append(w, m)) = <<>>
           /\ w # <<>> => Head(Append(w, m)) = Head(w) /\ Tail(Append(w, m)) = Append(Tail(w), m)
  <1>1. w = <<>> => Head(Append(w, m)) = m /\ Tail(Append(w, m)) = <<>>
    BY SMTT(30)
  <1>2. w # <<>> => Head(Append(w, m)) = Head(w) /\ Tail(Append(w, m)) = Append(Tail(w), m)
    BY SentLast
  <1> QED
    BY <1>1, <1>2

\* The packets and their types
LEMMA Packets ==
    /\ \A t \in 1 .. MaxTime : TryAcquire(t) \in Packet /\ TryAcquire(t).type = T
    /\ \A v \in Nat : Released(v) \in Packet /\ Released(v).type = R /\ Released(v).value = v
    /\ LockAcquired \in Packet /\ LockAcquired.type = A
    /\ ReleasedVerified \in Packet /\ ReleasedVerified.type = V
    /\ Halt \in Packet /\ Halt.type = "Halt"
  BY DEF Packet, TryAcquire, Released, LockAcquired, ReleasedVerified, Halt, T, R, A, V

\* The fields of the packets
LEMMA PacketFields ==
    \A m \in Packet : /\ m.type = T => m.time \in 1 .. MaxTime /\ m.time \in Nat
                      /\ m.type = R => m.value \in Nat
                      /\ m.type \in {T, R, A, V, "Halt"}
  <1> SUFFICES ASSUME NEW m \in Packet
               PROVE  /\ m.type = T => m.time \in 1 .. MaxTime /\ m.time \in Nat
                      /\ m.type = R => m.value \in Nat
                      /\ m.type \in {T, R, A, V, "Halt"}
    OBVIOUS
  <1>1. CASE m \in [type : {"TryAcquire"}, time : 1 .. MaxTime]
    BY SMTT(30), <1>1, NetMutexAssumption DEF T, R
  <1>2. CASE m \in [type : {"Released"}, value : Nat]
    BY <1>2 DEF T, R
  <1>3. CASE m \in {LockAcquired, ReleasedVerified, Halt}
    BY <1>3, Packets DEF A, R, T, V
  <1> QED
    BY <1>1, <1>2, <1>3 DEF Packet

\* The releases under way stay current when a packet is sent or read.
LEMMA CurrentSteps ==
    ASSUME NEW c \in Seq(Packet), NEW l, NEW m \in Packet
    PROVE  /\ Empty(c) => Current(c, l)
           /\ Current(c, l) /\ (m.type = R => m.value = l) => Current(Append(c, m), l)
           /\ Current(c, l) /\ c # <<>> => Current(Tail(c), l)
           /\ Current(c, l) /\ c # <<>> /\ Head(c).type = R => Head(c).value = l
  <1>1. Empty(c) => Current(c, l)
    BY SMTT(30) DEF Empty, Current
  <1>2. ASSUME Current(c, l), m.type = R => m.value = l PROVE Current(Append(c, m), l)
    BY SMTT(30), <1>2, SentOn DEF Current
  <1>3. ASSUME Current(c, l), c # <<>> PROVE Current(Tail(c), l)
    <2>1. \A i \in 1 .. Len(Tail(c)) : Tail(c)[i] = c[i + 1] /\ i + 1 \in 1 .. Len(c)
      BY SMTT(30), <1>3, ReadFrom
    <2> QED
      BY <1>3, <2>1 DEF Current
  <1>4. ASSUME Current(c, l), c # <<>>, Head(c).type = R PROVE Head(c).value = l
    <2>1. 1 \in 1 .. Len(c) /\ Head(c) = c[1]
      BY SMTT(30), <1>4
    <2> QED
      BY <1>4, <2>1 DEF Current
  <1> QED
    BY <1>1, <1>2, <1>3, <1>4
-----------------------------------------------------------------------------
(* What the steps of one node do to the two nodes together.  The node that moves   *)
(* is in phase q, has value v and reads from c.                                    *)

\* Request: an acquirer that has its local mutex asks for the lock.
LEMMA Requests ==
    ASSUME NEW q, NEW v, NEW c \in Seq(Packet), NEW r, NEW u, NEW d \in Seq(Packet),
           NEW l, NEW m \in Packet, m.type = T,
           Config(q, v, c, r, u, d, l), q = "idle"
    PROVE  Config("waits", v, c, r, u, Append(d, m), l)
  <1> USE DEF Config, Line
  <1>1. CASE Has(r, u, d, q, c, l)
    BY <1>1, SendWord DEF Has, Beaten
  <1>2. CASE Releases(r, u, d, q, c, l)
    BY <1>2, SendWord DEF Releases, Beaten
  <1>3. CASE Verifies(r, u, d, q, v, c, l)
    BY <1>3, SendWord DEF Verifies, A, R, T, V
  <1>4. CASE Nobody(r, u, d, q, v, c, l) \/ Nobody(q, v, c, r, u, d, l)
    BY SMTT(30), <1>4, SendWord, CurrentSteps DEF Nobody, T, R
  <1>5. CASE Stuck(r, d, q, c)
    BY <1>5, SendWord DEF Stuck
  <1> QED
    BY <1>1, <1>2, <1>3, <1>4, <1>5 DEF Has, Releases, Verifies, Stuck

\* DropSends: the code after a guard releases the lock.
LEMMA LetsGo ==
    ASSUME NEW q, NEW v, NEW c \in Seq(Packet), NEW r, NEW u, NEW d \in Seq(Packet),
           NEW l, Config(q, v, c, r, u, d, l), q = "holds"
    PROVE  Config("released", v, c, r, u, Append(d, Released(v)), l)
  <1>1. Has(q, v, c, r, d, l)
    BY DEF Config, Line, Has, Releases, Verifies, Nobody, Stuck, Beaten
  <1>2. Releases("released", v, c, r, Append(d, Released(v)), l)
    BY <1>1 DEF Has, Releases
  <1> QED
    BY <1>2 DEF Config, Line

\* DropGuard: whatever value the guard leaves is the one left last.
LEMMA Leaves ==
    ASSUME NEW q, NEW v, NEW c, NEW r, NEW u, NEW d, NEW l, NEW k,
           Config(q, v, c, r, u, d, l), q = "holds"
    PROVE  Config("holds", k, c, r, u, d, k)
  <1>1. Has(q, v, c, r, d, l)
    BY DEF Config, Line, Has, Releases, Verifies, Nobody, Stuck, Beaten
  <1> QED
    BY <1>1 DEF Has, Config, Line

\* AcquireReleased: an acquirer reads a release.
LEMMA WaitsReleased ==
    ASSUME NEW q, NEW v, NEW c \in Seq(Packet), NEW r, NEW u, NEW d \in Seq(Packet),
           NEW l \in Nat, Config(q, v, c, r, u, d, l), q = "waits",
           c # <<>>, Head(c).type = R
    PROVE  Config("holds", Head(c).value, Tail(c), r, u,
                  Append(Append(d, LockAcquired), ReleasedVerified), l)
  <1> DEFINE d1 == Append(d, LockAcquired)
             d2 == Append(d1, ReleasedVerified)
  <1>1. d1 \in Seq(Packet)
    BY SendWord, Packets
  <1>2. Empty(d) => Two(d2, A, V)
    BY <1>1, SendWord, Packets
  <1>3. One(d, T) => Three(d2, T, A, V)
    BY <1>1, SendWord, Packets
  <1> HIDE DEF d1, d2
  <1>4. CASE Releases(r, u, d, q, c, l)
    <2>1. PICK w \in Seq(Packet) :
            /\ c = Append(w, Released(l))
            /\ \/ r = "released" /\ Beaten(q, w, d)
               \/ r = "flagged" /\ q = "waits" /\ Empty(w) /\ Empty(d)
      BY <1>4 DEF Releases
    <2>2. w = <<>>
      <3> SUFFICES ASSUME w # <<>> PROVE FALSE
        OBVIOUS
      <3>1. Head(c) = Head(w)
        BY <2>1, ReadBefore, Packets
      <3> QED
        BY SMTT(30), <2>1, <3>1, ReadWord DEF Beaten, A, R, T
    <2>3. Head(c).value = l /\ Tail(c) = <<>>
      BY <2>1, <2>2, ReadBefore, Packets
    <2>4. Empty(Tail(c)) /\ Empty(w)
      BY <2>2, <2>3 DEF Empty
    <2>5. \/ r = "released" /\ (Empty(d) \/ One(d, T))
          \/ r = "flagged" /\ Empty(d)
      BY <2>1, <2>4, ReadWord DEF Beaten, A, T
    <2>6. Has("holds", Head(c).value, Tail(c), r, d2, l)
      BY <1>2, <1>3, <2>3, <2>4, <2>5 DEF Has, Beaten
    <2> QED
      BY <2>6 DEF Config, Line, d1, d2
  <1>5. CASE Nobody(q, v, c, r, u, d, l)
    <2>1. Head(c).value = l
      BY <1>5, CurrentSteps, Packets DEF Nobody
    <2>2. r \in {"retries", "resigns"} /\ One(c, R) /\ Empty(d)
      BY SMTT(30), <1>5, ReadWord DEF Nobody, Noise, A, R, T, V
    <2>3. Has("holds", Head(c).value, Tail(c), r, d2, l)
      BY <1>2, <2>1, <2>2, ReadWord DEF Has, Beaten
    <2> QED
      BY <2>3 DEF Config, Line, d1, d2
  <1>6. ~Nobody(r, u, d, q, v, c, l)
    BY SMTT(30), ReadWord DEF Nobody, Noise, A, R, T, V
  <1>7. ~Has(r, u, d, q, c, l) /\ ~Verifies(r, u, d, q, v, c, l) /\ ~Stuck(r, d, q, c)
    BY SMTT(30), ReadWord DEF Has, Beaten, Verifies, Stuck, A, R, T, V
  <1> QED
    BY <1>4, <1>5, <1>6, <1>7 DEF Config, Line, Has, Releases, Verifies, Stuck

\* What was sent before a release that has not been read yet.
Before(q, c, r, u, d, l) ==
    \E w \in Seq(Packet) :
       /\ c = Append(w, Released(l)) /\ w # <<>> /\ Head(w) = Head(c)
       /\ Tail(w) \in Seq(Packet) /\ Tail(c) = Append(Tail(w), Released(l))
       /\ r = "released" /\ u = l /\ Beaten(q, w, d)

\* The reader of a channel with a release in it reads what came before that first.
LEMMA ReadBeaten ==
    ASSUME NEW q, NEW c \in Seq(Packet), NEW r, NEW u, NEW d \in Seq(Packet),
           NEW l \in Nat, Releases(r, u, d, q, c, l), Head(c).type # R
    PROVE  Before(q, c, r, u, d, l)
  <1>1. PICK w \in Seq(Packet) :
          /\ c = Append(w, Released(l))
          /\ \/ r = "released" /\ Beaten(q, w, d)
             \/ r = "flagged" /\ q = "waits" /\ Empty(w) /\ Empty(d)
    BY DEF Releases
  <1>2. w # <<>>
    BY SMTT(30), <1>1, ReadBefore, Packets
  <1>3. Head(w) = Head(c) /\ Tail(c) = Append(Tail(w), Released(l)) /\ Tail(w) \in Seq(Packet)
    BY SMTT(30), <1>1, <1>2, ReadBefore, Packets
  <1>4. r = "released" /\ u = l /\ Beaten(q, w, d)
    BY <1>1, <1>2, ReadWord DEF Releases
  <1> QED
    BY <1>1, <1>2, <1>3, <1>4 DEF Before

\* AcquireConflict: the older request wins.
LEMMA WaitsWins ==
    ASSUME NEW q, NEW v \in Nat, NEW c \in Seq(Packet), NEW r, NEW u, NEW d \in Seq(Packet),
           NEW l \in Nat, Config(q, v, c, r, u, d, l), c # <<>>,
           q = "waits", Head(c).type = T, ~Lost(c)
    PROVE  Config("holds", v, Tail(c), r, u, Append(d, LockAcquired), l)
  <1> DEFINE e == Append(d, LockAcquired)
  <1>1. (Empty(d) => One(e, A)) /\ (One(d, T) => Two(e, T, A))
    BY SendWord, Packets
  <1> HIDE DEF e
  <1>2. ~Has(r, u, d, q, c, l) /\ ~Verifies(r, u, d, q, v, c, l) /\ ~Stuck(r, d, q, c)
    BY SMTT(30), ReadWord DEF Has, Beaten, Lost, Verifies, Stuck, A, R, T, V
  <1>3. ~Releases(r, u, d, q, c, l)
    <2> SUFFICES ASSUME Releases(r, u, d, q, c, l) PROVE FALSE
      OBVIOUS
    <2>1. PICK w \in Seq(Packet) :
            /\ c = Append(w, Released(l)) /\ w # <<>> /\ Head(w) = Head(c)
            /\ Beaten(q, w, d)
      <3>1. Head(c).type # R
        BY DEF R, T
      <3>2. Before(q, c, r, u, d, l)
        BY <3>1, ReadBeaten
      <3> QED
        BY <3>2 DEF Before
    <2>2. Two(w, T, A)
      BY <2>1, ReadWord DEF Beaten, A, T
    <2> QED
      BY SMTT(30), <2>1, <2>2, SendWord, Packets DEF Lost
  <1>4. CASE Nobody(q, v, c, r, u, d, l)
    BY SMTT(30), <1>1, <1>4, ReadWord DEF Nobody, Noise, Config, Line, Has, Beaten, A, R, T, V, e
  <1>5. CASE Nobody(r, u, d, q, v, c, l)
    BY SMTT(30), <1>1, <1>5, ReadWord DEF Nobody, Noise, Config, Line, Has, Beaten, A, R, T, V, e
  <1> QED
    BY <1>2, <1>3, <1>4, <1>5 DEF Config, Line, Has, Releases, Verifies, Stuck

\* AcquireConflict: the younger request, or one of the same age, yields.
LEMMA WaitsYields ==
    ASSUME NEW q, NEW v \in Nat, NEW c \in Seq(Packet), NEW r, NEW u, NEW d \in Seq(Packet),
           NEW l \in Nat, Config(q, v, c, r, u, d, l), c # <<>>,
           q = "waits", Head(c).type = T
    PROVE  Config("retries", v, Tail(c), r, u, Append(d, Released(v)), l)
  <1> DEFINE e == Append(d, Released(v))
  <1>1. /\ Empty(d) => One(e, R)
        /\ One(d, T) => Two(e, T, R)
        /\ v = l /\ Current(d, l) => Current(e, l)
        /\ Current(c, l) => Current(Tail(c), l)
    <2>1. Released(v) \in Packet /\ Released(v).type = R /\ Released(v).value = v
      BY Packets
    <2>2. (Empty(d) => One(e, R)) /\ (One(d, T) => Two(e, T, R))
      BY <2>1, SendWord
    <2>3. v = l /\ Current(d, l) => Current(e, l)
      BY <2>1, CurrentSteps
    <2>4. Current(c, l) => Current(Tail(c), l)
      BY <2>1, CurrentSteps
    <2> QED
      BY <2>2, <2>3, <2>4
  <1> HIDE DEF e
  <1>2. ~Verifies(r, u, d, q, v, c, l) /\ ~Stuck(r, d, q, c)
    BY ReadWord DEF Verifies, Stuck, A, R, T, V
  <1>3. CASE Has(r, u, d, q, c, l)
    BY <1>1, <1>3, ReadWord DEF Has, Beaten, Config, Line, A, R, T, V, e
  <1>4. CASE Releases(r, u, d, q, c, l)
    <2>1. PICK w \in Seq(Packet) :
            /\ c = Append(w, Released(l)) /\ w # <<>> /\ Head(w) = Head(c)
            /\ Tail(w) \in Seq(Packet) /\ Tail(c) = Append(Tail(w), Released(l))
            /\ r = "released" /\ u = l /\ Beaten(q, w, d)
      <3>1. Head(c).type # R
        BY DEF R, T
      <3>2. Before(q, c, r, u, d, l)
        BY <1>4, <3>1, ReadBeaten
      <3> QED
        BY <3>2 DEF Before
    <2>2. Beaten("retries", Tail(w), e)
      BY <1>1, <2>1, ReadWord DEF Beaten, A, T
    <2>3. Releases(r, u, e, "retries", Tail(c), l)
      BY <2>1, <2>2 DEF Releases
    <2> QED
      BY <2>3 DEF Config, Line, e
  <1>5. CASE Nobody(q, v, c, r, u, d, l)
    BY SMTT(30), <1>1, <1>5, ReadWord DEF Nobody, Noise, Config, Line, A, R, T, V, e
  <1>6. CASE Nobody(r, u, d, q, v, c, l)
    BY SMTT(30), <1>1, <1>6, ReadWord DEF Nobody, Noise, Config, Line, A, R, T, V, e
  <1> QED
    BY <1>2, <1>3, <1>4, <1>5, <1>6 DEF Config, Line, Has, Releases, Verifies, Stuck

\* AcquireIgnores: a node that waits ignores the answers to its releases.
LEMMA WaitsIgnores ==
    ASSUME NEW q, NEW v \in Nat, NEW c \in Seq(Packet), NEW r, NEW u, NEW d \in Seq(Packet),
           NEW l \in Nat, Config(q, v, c, r, u, d, l), c # <<>>,
           q = "waits", Head(c).type \in {A, V}
    PROVE  Config(q, v, Tail(c), r, u, d, l)
  <1>1. Current(c, l) => Current(Tail(c), l)
    BY CurrentSteps, Packets
  <1>2. ~Verifies(r, u, d, q, v, c, l) /\ ~Stuck(r, d, q, c)
    BY ReadWord DEF Verifies, Stuck
  <1>3. CASE Has(r, u, d, q, c, l)
    BY <1>3, ReadWord DEF Has, Beaten, Config, Line, A, T, V
  <1>4. CASE Releases(r, u, d, q, c, l)
    <2>1. PICK w \in Seq(Packet) :
            /\ c = Append(w, Released(l)) /\ w # <<>> /\ Head(w) = Head(c)
            /\ Tail(w) \in Seq(Packet) /\ Tail(c) = Append(Tail(w), Released(l))
            /\ r = "released" /\ u = l /\ Beaten(q, w, d)
      <3>1. Head(c).type # R
        BY DEF A, R, T, V
      <3>2. Before(q, c, r, u, d, l)
        BY <1>4, <3>1, ReadBeaten
      <3> QED
        BY <3>2 DEF Before
    <2>2. Beaten(q, Tail(w), d)
      BY <2>1, ReadWord DEF Beaten, A, T, V
    <2>3. Releases(r, u, d, q, Tail(c), l)
      BY <2>1, <2>2 DEF Releases
    <2> QED
      BY <2>3 DEF Config, Line
  <1>5. CASE Nobody(q, v, c, r, u, d, l)
    BY <1>1, <1>5, ReadWord DEF Nobody, Noise, Config, Line, A, R, T, V
  <1>6. CASE Nobody(r, u, d, q, v, c, l)
    BY <1>1, <1>6, ReadWord DEF Nobody, Noise, Config, Line, A, R, T, V
  <1> QED
    BY <1>2, <1>3, <1>4, <1>5, <1>6 DEF Config, Line, Has, Releases, Verifies, Stuck

\* BgRequested: the background yields to a request.
LEMMA IdleRequested ==
    ASSUME NEW q, NEW v \in Nat, NEW c \in Seq(Packet), NEW r, NEW u, NEW d \in Seq(Packet),
           NEW l \in Nat, Config(q, v, c, r, u, d, l), c # <<>>,
           q = "idle", Head(c).type = T
    PROVE  Config("resigns", v, Tail(c), r, u, Append(d, Released(v)), l)
  <1> DEFINE e == Append(d, Released(v))
  <1>1. Released(v) \in Packet /\ Released(v).type = R /\ Released(v).value = v
    BY Packets
  <1>2. (Empty(d) => One(e, R)) /\ (v = l /\ Current(d, l) => Current(e, l))
    BY <1>1, SendWord, CurrentSteps
  <1>3. Current(c, l) => Current(Tail(c), l)
    BY <1>1, CurrentSteps
  <1> HIDE DEF e
  <1>4. ~Verifies(r, u, d, q, v, c, l) /\ ~Stuck(r, d, q, c) /\ ~Has(r, u, d, q, c, l)
    BY ReadWord DEF Verifies, Stuck, Has, Beaten, A, T, R, V
  <1>5. ~Releases(r, u, d, q, c, l)
    <2> SUFFICES ASSUME Releases(r, u, d, q, c, l) PROVE FALSE
      OBVIOUS
    <2>1. PICK w \in Seq(Packet) :
            /\ c = Append(w, Released(l)) /\ w # <<>> /\ Head(w) = Head(c)
            /\ Tail(w) \in Seq(Packet) /\ Tail(c) = Append(Tail(w), Released(l))
            /\ r = "released" /\ u = l /\ Beaten(q, w, d)
      <3>1. Head(c).type # R
        BY DEF A, R, T, V
      <3>2. Before(q, c, r, u, d, l)
        BY Releases(r, u, d, q, c, l), <3>1, ReadBeaten
      <3> QED
        BY <3>2 DEF Before
    <2> QED
      BY <2>1, ReadWord DEF Beaten
  <1>6. CASE Nobody(q, v, c, r, u, d, l)
    BY <1>2, <1>3, <1>6, ReadWord DEF Nobody, Config, Line, e
  <1>7. CASE Nobody(r, u, d, q, v, c, l)
    BY <1>7, ReadWord DEF Nobody
  <1> QED
    BY <1>4, <1>5, <1>6, <1>7 DEF Config, Line, Has, Releases, Verifies, Stuck

\* BgEnds: the background reads a packet it takes for impossible.
LEMMA IdlePanics ==
    ASSUME NEW q, NEW v \in Nat, NEW c \in Seq(Packet), NEW r, NEW u, NEW d \in Seq(Packet),
           NEW l \in Nat, Config(q, v, c, r, u, d, l), c # <<>>,
           q = "idle", Head(c).type # T
    PROVE  Config(q, v, Tail(c), r, u, d, l)
  <1>1. ~Verifies(r, u, d, q, v, c, l) /\ ~Stuck(r, d, q, c) /\ ~Has(r, u, d, q, c, l)
    BY ReadWord DEF Verifies, Stuck, Has, Beaten, A, T, R, V
  <1>2. ~Nobody(q, v, c, r, u, d, l) /\ ~Nobody(r, u, d, q, v, c, l)
    BY ReadWord DEF Nobody
  <1>3. CASE Releases(r, u, d, q, c, l)
    <2>1. PICK w \in Seq(Packet) :
            c = Append(w, Released(l)) /\ r = "released" /\ Beaten(q, w, d)
      BY <1>3 DEF Releases
    <2>2. Empty(w) /\ Empty(d)
      BY <2>1 DEF Beaten
    <2>3. Empty(Tail(c))
      BY <2>1, <2>2, ReadWord, ReadBefore, Packets DEF Empty
    <2> QED
      BY <2>1, <2>2, <2>3 DEF Stuck, Config, Line
  <1> QED
    BY <1>1, <1>2, <1>3 DEF Config, Line, Has, Releases, Verifies, Stuck

\* DropSeesRequest: the code after a guard remembers a request.
LEMMA ReleasedSees ==
    ASSUME NEW q, NEW v \in Nat, NEW c \in Seq(Packet), NEW r, NEW u, NEW d \in Seq(Packet),
           NEW l \in Nat, Config(q, v, c, r, u, d, l), c # <<>>,
           q \in {"released", "flagged"}, Head(c).type = T
    PROVE  Config("flagged", v, Tail(c), r, u, d, l)
  <1>1. CASE Releases(q, v, c, r, d, l)
    BY <1>1, ReadWord DEF Releases, Beaten, Config, Line, R, T
  <1>2. CASE Stuck(q, c, r, d)
    BY <1>2, ReadWord DEF Stuck, Config, Line
  <1>3. CASE Has(r, u, d, q, c, l)
    BY <1>3, ReadWord DEF Has, Beaten, Config, Line, A, T, V
  <1>4. CASE Releases(r, u, d, q, c, l)
    <2>1. PICK w \in Seq(Packet) :
            /\ c = Append(w, Released(l)) /\ w # <<>> /\ Head(w) = Head(c)
            /\ Tail(w) \in Seq(Packet) /\ Tail(c) = Append(Tail(w), Released(l))
            /\ r = "released" /\ u = l /\ Beaten(q, w, d)
      <3>1. Head(c).type # R
        BY DEF A, R, T, V
      <3>2. Before(q, c, r, u, d, l)
        BY <1>4, <3>1, ReadBeaten
      <3> QED
        BY <3>2 DEF Before
    <2>2. Beaten("flagged", Tail(w), d)
      BY <2>1, ReadWord DEF Beaten, A, R, T, V
    <2>3. Releases(r, u, d, "flagged", Tail(c), l)
      BY <2>1, <2>2 DEF Releases
    <2> QED
      BY <2>3 DEF Config, Line
  <1>5. ~Verifies(q, v, c, r, u, d, l)
    BY SMTT(30), ReadWord DEF Verifies, A, R, T, V
  <1> QED
    BY <1>1, <1>2, <1>3, <1>4, <1>5 DEF Config, Line, Has, Verifies, Nobody, Stuck

\* DropVerified: the release was taken over, and nobody asked for the lock.
LEMMA ReleasedVerifies ==
    ASSUME NEW q, NEW v \in Nat, NEW c \in Seq(Packet), NEW r, NEW u, NEW d \in Seq(Packet),
           NEW l \in Nat, Config(q, v, c, r, u, d, l), c # <<>>,
           q = "released", Head(c).type = V
    PROVE  Config("idle", v, Tail(c), r, u, d, l)
  <1>1. ~Releases(q, v, c, r, d, l) /\ ~Stuck(q, c, r, d)
    BY SMTT(30), ReadWord DEF Releases, Beaten, Stuck, R, T, V
  <1>2. CASE Verifies(q, v, c, r, u, d, l)
    <2>1. Empty(Tail(c)) \/ One(Tail(c), T) => Current(Tail(c), l)
      BY SMTT(30) DEF Empty, One, Current, R, T
    <2>2. Empty(d) => Current(d, l)
      BY SMTT(30) DEF Empty, Current
    <2> QED
      BY SMTT(30), <1>2, <2>1, <2>2, ReadWord DEF Verifies, Nobody, Config, Line, A, R, V
  <1>3. CASE Has(r, u, d, q, c, l)
    BY <1>3, ReadWord DEF Has, Beaten, Config, Line, A, T, V
  <1>4. CASE Releases(r, u, d, q, c, l)
    <2>1. PICK w \in Seq(Packet) :
            /\ c = Append(w, Released(l)) /\ w # <<>> /\ Head(w) = Head(c)
            /\ Tail(w) \in Seq(Packet) /\ Tail(c) = Append(Tail(w), Released(l))
            /\ r = "released" /\ u = l /\ Beaten(q, w, d)
      <3>1. Head(c).type # R
        BY DEF A, R, T, V
      <3>2. Before(q, c, r, u, d, l)
        BY <1>4, <3>1, ReadBeaten
      <3> QED
        BY <3>2 DEF Before
    <2>2. Beaten("idle", Tail(w), d)
      BY <2>1, ReadWord DEF Beaten, A, R, T, V
    <2>3. Releases(r, u, d, "idle", Tail(c), l)
      BY <2>1, <2>2 DEF Releases
    <2> QED
      BY <2>3 DEF Config, Line
  <1> QED
    BY <1>1, <1>2, <1>3, <1>4 DEF Config, Line, Has, Verifies, Nobody, Stuck

\* DropVerified: the lock is yielded to the node that asked for it.
LEMMA FlaggedVerifies ==
    ASSUME NEW q, NEW v \in Nat, NEW c \in Seq(Packet), NEW r, NEW u, NEW d \in Seq(Packet),
           NEW l \in Nat, Config(q, v, c, r, u, d, l), c # <<>>,
           q = "flagged", Head(c).type = V
    PROVE  Config("resigns", v, Tail(c), r, u, Append(d, Released(v)), l)
  <1> DEFINE e == Append(d, Released(v))
  <1>1. Empty(d) => One(e, R)
    BY Packets, SendWord
  <1> HIDE DEF e
  <1>2. ~Releases(q, v, c, r, d, l) /\ ~Stuck(q, c, r, d)
    BY ReadWord DEF Releases, Stuck
  <1>3. CASE Has(r, u, d, q, c, l)
    BY SMTT(30), <1>1, <1>3, ReadWord DEF Has, Beaten, Config, Line, A, T, V, e
  <1>4. CASE Releases(r, u, d, q, c, l)
    <2>1. PICK w \in Seq(Packet) :
            /\ c = Append(w, Released(l)) /\ w # <<>> /\ Head(w) = Head(c)
            /\ Tail(w) \in Seq(Packet) /\ Tail(c) = Append(Tail(w), Released(l))
            /\ r = "released" /\ u = l /\ Beaten(q, w, d)
      <3>1. Head(c).type # R
        BY DEF A, R, T, V
      <3>2. Before(q, c, r, u, d, l)
        BY <1>4, <3>1, ReadBeaten
      <3> QED
        BY <3>2 DEF Before
    <2>2. Beaten("resigns", Tail(w), e)
      BY <1>1, <2>1, ReadWord DEF Beaten, A, R, T, V
    <2>3. Releases(r, u, e, "resigns", Tail(c), l)
      BY <2>1, <2>2 DEF Releases
    <2> QED
      BY <2>3 DEF Config, Line, e
  <1> QED
    BY <1>2, <1>3, <1>4 DEF Config, Line, Has, Verifies, Nobody, Stuck

\* DropIgnores: the code after a guard ignores releases and acquisitions.
LEMMA ReleasedIgnores ==
    ASSUME NEW q, NEW v \in Nat, NEW c \in Seq(Packet), NEW r, NEW u, NEW d \in Seq(Packet),
           NEW l \in Nat, Config(q, v, c, r, u, d, l), c # <<>>,
           q \in {"released", "flagged"}, Head(c).type \in {A, R}
    PROVE  Config(q, v, Tail(c), r, u, d, l)
  <1>1. CASE Releases(q, v, c, r, d, l)
    BY <1>1, ReadWord DEF Releases, Beaten, Config, Line, A, R, T
  <1>2. CASE Verifies(q, v, c, r, u, d, l)
    BY SMTT(30), <1>2, ReadWord DEF Verifies, Config, Line, A, R, V
  <1>3. ~Stuck(q, c, r, d)
    BY SMTT(30), ReadWord DEF Stuck, A, R, T
  <1>4. CASE Has(r, u, d, q, c, l)
    BY <1>4, ReadWord DEF Has, Beaten, Config, Line, A, R, T, V
  <1>5. CASE Releases(r, u, d, q, c, l)
    <2>1. PICK w \in Seq(Packet) :
            c = Append(w, Released(l)) /\ r = "released" /\ u = l /\ Beaten(q, w, d)
      BY <1>5 DEF Releases
    <2>2. w # <<>>
      BY <2>1, ReadWord DEF Beaten
    <2>3. /\ Head(w) = Head(c) /\ Tail(w) \in Seq(Packet)
          /\ Tail(c) = Append(Tail(w), Released(l))
      BY SMTT(30), <2>1, <2>2, ReadBefore, Packets
    <2>4. Beaten(q, Tail(w), d)
      BY <2>1, <2>2, <2>3, ReadWord DEF Beaten, A, R, T, V
    <2>5. Releases(r, u, d, q, Tail(c), l)
      BY <2>1, <2>3, <2>4 DEF Releases
    <2> QED
      BY <2>5 DEF Config, Line
  <1> QED
    BY <1>1, <1>2, <1>3, <1>4, <1>5 DEF Config, Line, Has, Verifies, Nobody, Stuck

\* YieldIgnores: yield_lock ignores all but releases.
LEMMA YieldsIgnores ==
    ASSUME NEW q, NEW v \in Nat, NEW c \in Seq(Packet), NEW r, NEW u, NEW d \in Seq(Packet),
           NEW l \in Nat, Config(q, v, c, r, u, d, l), c # <<>>,
           q \in {"retries", "resigns"}, Head(c).type \in {A, T, V}
    PROVE  Config(q, v, Tail(c), r, u, d, l)
  <1>1. CASE Has(r, u, d, q, c, l)
    BY <1>1, ReadWord DEF Has, Beaten, Config, Line, A, R, T, V
  <1>2. CASE Releases(r, u, d, q, c, l)
    <2>1. PICK w \in Seq(Packet) :
            /\ c = Append(w, Released(l)) /\ w # <<>> /\ Head(w) = Head(c)
            /\ Tail(w) \in Seq(Packet) /\ Tail(c) = Append(Tail(w), Released(l))
            /\ r = "released" /\ u = l /\ Beaten(q, w, d)
      <3>1. Head(c).type # R
        BY DEF A, R, T, V
      <3>2. Before(q, c, r, u, d, l)
        BY <1>2, <3>1, ReadBeaten
      <3> QED
        BY <3>2 DEF Before
    <2>2. Beaten(q, Tail(w), d)
      BY <2>1, ReadWord DEF Beaten, A, R, T, V
    <2>3. Releases(r, u, d, q, Tail(c), l)
      BY <2>1, <2>2 DEF Releases
    <2> QED
      BY <2>3 DEF Config, Line
  <1>3. ~Nobody(q, v, c, r, u, d, l) /\ ~Nobody(r, u, d, q, v, c, l)
    BY SMTT(30), ReadWord DEF Nobody, A, R, T, V
  <1> QED
    BY <1>1, <1>2, <1>3 DEF Config, Line, Has, Releases, Verifies, Stuck

\* YieldReleased: yield_lock takes over the value and verifies the release.
LEMMA YieldsTakes ==
    ASSUME NEW q, NEW v \in Nat, NEW c \in Seq(Packet), NEW r, NEW u, NEW d \in Seq(Packet),
           NEW l \in Nat, Config(q, v, c, r, u, d, l), c # <<>>,
           NEW p, \/ q = "retries" /\ p = "waits"
                  \/ q = "resigns" /\ p = "idle",
           Head(c).type = R
    PROVE  Config(p, Head(c).value, Tail(c), r, u,
                  Append(Append(d, LockAcquired), ReleasedVerified), l)
  <1> DEFINE d1 == Append(d, LockAcquired)
             d2 == Append(d1, ReleasedVerified)
  <1>1. d1 \in Seq(Packet)
    BY SendWord, Packets
  <1>2. (Empty(d) => Two(d2, A, V)) /\ (One(d, R) => Three(d2, R, A, V))
    BY <1>1, SendWord, Packets
  <1>3. Current(d, l) => Current(d2, l)
    <2>1. Current(d, l) => Current(d1, l)
      BY CurrentSteps, Packets DEF A, R
    <2> QED
      BY <1>1, <2>1, CurrentSteps, Packets DEF R, V
  <1> HIDE DEF d1, d2
  <1>4. /\ Current(c, l) => Current(Tail(c), l) /\ Head(c).value = l
    BY CurrentSteps, Packets
  <1>5. ~Has(r, u, d, q, c, l)
    BY SMTT(30), ReadWord DEF Has, Beaten, A, R, T, V
  <1>6. CASE Releases(r, u, d, q, c, l)
    <2>1. PICK w \in Seq(Packet) :
            /\ c = Append(w, Released(l))
            /\ r = "released" /\ u = l /\ Beaten(q, w, d)
      BY <1>6 DEF Releases
    <2>2. w = <<>>
      <3> SUFFICES ASSUME w # <<>> PROVE FALSE
        OBVIOUS
      <3>1. Head(c) = Head(w)
        BY <2>1, ReadBefore, Packets
      <3> QED
        BY SMTT(30), <2>1, <3>1, ReadWord DEF Beaten, A, R, T, V
    <2>3. Head(c).value = l /\ Empty(Tail(c))
      BY SMTT(30), <2>1, <2>2, ReadBefore, Packets DEF Empty
    <2>4. Empty(d) \/ One(d, R)
      BY <2>1, <2>2, ReadWord DEF Beaten
    <2>5. Verifies(r, u, d2, p, Head(c).value, Tail(c), l)
      BY <1>2, <2>1, <2>3, <2>4 DEF Verifies
    <2> QED
      BY <2>5 DEF Config, Line, d1, d2
  <1>7. CASE Nobody(q, v, c, r, u, d, l)
    <2>1. r = "retries" /\ q = "retries" /\ One(c, R) /\ One(d, R)
      BY <1>7, ReadWord DEF Nobody
    <2>2. Nobody("waits", Head(c).value, Tail(c), r, u, d2, l)
      BY <1>2, <1>3, <1>4, <1>7, <2>1, ReadWord DEF Nobody
    <2> QED
      BY <2>1, <2>2 DEF Config, Line, d1, d2
  <1>8. CASE Nobody(r, u, d, q, v, c, l)
    <2>1. \/ r = "retries" /\ q = "retries" /\ One(c, R) /\ One(d, R)
          \/ r = "waits" /\ q = "retries" /\ Empty(d) /\ Three(c, R, A, V)
      BY <1>8, ReadWord DEF Nobody
    <2>2. \/ Nobody("waits", Head(c).value, Tail(c), r, u, d2, l)
          \/ Nobody(r, u, d2, "waits", Head(c).value, Tail(c), l)
      BY <1>2, <1>3, <1>4, <1>8, <2>1, ReadWord DEF Nobody, Noise
    <2> QED
      BY <2>1, <2>2 DEF Config, Line, d1, d2
  <1> QED
    BY <1>5, <1>6, <1>7, <1>8 DEF Config, Line, Has, Releases, Verifies, Stuck

\* No node has told the other to halt.
LEMMA NoHaltRead ==
    ASSUME NEW q, NEW v, NEW c \in Seq(Packet), NEW r, NEW u, NEW d \in Seq(Packet),
           NEW l \in Nat, Config(q, v, c, r, u, d, l), c # <<>>, q # "holds"
    PROVE  Head(c).type # "Halt"
  <1>1. CASE Releases(r, u, d, q, c, l)
    <2>1. Head(c).type # R => Before(q, c, r, u, d, l)
      BY <1>1, ReadBeaten
    <2>2. Before(q, c, r, u, d, l) => Head(c).type # "Halt"
      BY ReadWord DEF Before, Beaten, A, R, T, V
    <2> QED
      BY <2>1, <2>2 DEF R
  <1>2. CASE Releases(q, v, c, r, d, l)
    BY SMTT(30), <1>2, ReadWord DEF Releases, Beaten, R, T
  <1>3. CASE Has(r, u, d, q, c, l)
    BY SMTT(30), <1>3, ReadWord DEF Has, Beaten, A, R, T, V
  <1>4. CASE Verifies(q, v, c, r, u, d, l) \/ Stuck(q, c, r, d)
    BY SMTT(30), <1>4, ReadWord DEF Verifies, Stuck, A, R, T, V
  <1>5. CASE Verifies(r, u, d, q, v, c, l) \/ Stuck(r, d, q, c)
    BY <1>5, ReadWord DEF Verifies, Stuck, A, R, T, V
  <1>6. CASE Nobody(q, v, c, r, u, d, l) \/ Nobody(r, u, d, q, v, c, l)
    BY SMTT(30), <1>6, ReadWord DEF Nobody, Noise, A, R, T, V
  <1> QED
    BY <1>1, <1>2, <1>3, <1>4, <1>5, <1>6 DEF Config, Line, Has

\* The steps of a node keep the two nodes together.
LEMMA StepsTogether ==
    ASSUME NEW q, NEW v \in Nat, NEW t \in Nat, NEW c \in Seq(Packet), NEW r, NEW u,
           NEW d \in Seq(Packet), NEW l \in Nat,
           NEW q2, NEW v2, NEW t2, NEW c2, NEW d2, NEW l2,
           Config(q, v, c, r, u, d, l), Step(q, v, t, c, d, l, q2, v2, t2, c2, d2, l2),
           q = "waits" /\ Lost(c) => c[1].time <= t
    PROVE  Config(q2, v2, c2, r, u, d2, l2)
  <1>1. CASE Sends(q, v, t, c, d, l, q2, v2, t2, c2, d2, l2)
    <2>1. \A x \in 1 .. MaxTime : TryAcquire(x) \in Packet /\ TryAcquire(x).type = T
      BY Packets
    <2>2. CASE q = "holds" /\ q2 = "holds" /\ v2 = l2 /\ c2 = c /\ d2 = d
      BY <2>2, Leaves
    <2> QED
      BY <1>1, <2>1, <2>2, Requests, LetsGo DEF Sends
  <1>2. ASSUME Receives(q, v, t, c, d, q2, v2, d2), c # <<>>, c2 = Tail(c), l2 = l
        PROVE  Config(q2, v2, c2, r, u, d2, l2)
    <2>1. q # "holds" => Head(c).type # "Halt"
      BY <1>2, NoHaltRead
    <2>2. Head(c).type = T /\ Head(c).time > t /\ q = "waits" => ~Lost(c)
      <3>1. Head(c) = c[1] /\ c[1] \in Packet
        BY SMTT(30), <1>2
      <3>2. c[1].type = T => c[1].time \in Nat
        BY <3>1, PacketFields
      <3> QED
        BY SMTT(30), <3>1, <3>2
    <2>3. CASE q = "waits"
      BY <1>2, <2>1, <2>2, <2>3, WaitsReleased, WaitsWins, WaitsYields, WaitsIgnores
         DEF Receives
    <2>4. CASE q = "idle"
      BY <1>2, <2>1, <2>4, IdleRequested, IdlePanics DEF Receives
    <2>5. CASE q \in {"released", "flagged"}
      <3>1. CASE Head(c).type = T
        BY <1>2, <2>5, <3>1, ReleasedSees DEF Receives, A, R, T, V
      <3>2. CASE Head(c).type = V
        BY <1>2, <2>5, <3>2, ReleasedVerifies, FlaggedVerifies DEF Receives, A, R, T, V
      <3>3. CASE Head(c).type \in {A, R}
        BY <1>2, <2>5, <3>3, ReleasedIgnores DEF Receives, A, R, T, V
      <3>4. Head(c) \in Packet
        BY SMTT(30), <1>2
      <3> QED
        BY <2>1, <2>5, <3>1, <3>2, <3>3, <3>4, PacketFields
    <2>6. CASE q \in {"retries", "resigns"}
      BY <1>2, <2>1, <2>6, YieldsIgnores, YieldsTakes DEF Receives
    <2> QED
      BY <1>2, <2>1, <2>3, <2>4, <2>5, <2>6 DEF Receives
  <1> QED
    BY <1>1, <1>2 DEF Step
-----------------------------------------------------------------------------
(* The times of the requests *)

\* A channel that ends with the packets of a conflict, or begins like one
LEMMA SendLost ==
    ASSUME NEW x \in Seq(Packet), NEW m \in Packet, Lost(Append(x, m))
    PROVE  /\ Append(x, m)[1] = x[1]
           /\ \/ m.type = A /\ One(x, T)
              \/ m.type = R /\ Two(x, T, A)
  <1> DEFINE y == Append(x, m)
  <1>1. /\ Len(y) = Len(x) + 1 /\ y[Len(x) + 1] = m
        /\ \A i \in 1 .. Len(x) : y[i] = x[i]
        /\ Len(x) \in Nat
    BY SMTT(30), SentOn
  <1>2. Two(y, T, A) \/ Three(y, T, A, R)
    BY DEF Lost
  <1> DEFINE k == Len(x)
             j == Len(y)
  <1>3. k \in Nat /\ j = k + 1
    BY <1>1
  <1>4. (j = 2 => k = 1) /\ (j = 3 => k = 2)
    <2> HIDE DEF j, k
    <2> QED
      BY SMTT(30), <1>3
  <1> HIDE DEF y
  <1>5. CASE Two(y, T, A)
    <2>1. Len(x) = 1
      BY <1>4, <1>5 DEF Two
    <2>2. y[1] = x[1] /\ y[2] = m
      BY SMTT(30), <1>1, <2>1
    <2> QED
      BY <1>5, <2>1, <2>2 DEF Two, One, y
  <1>6. CASE Three(y, T, A, R)
    <2>1. Len(x) = 2
      BY <1>4, <1>6 DEF Three
    <2>2. y[1] = x[1] /\ y[2] = x[2] /\ y[3] = m
      BY SMTT(30), <1>1, <2>1
    <2>3. y[1] = x[1] /\ m.type = R /\ Two(x, T, A)
      BY <1>6, <2>1, <2>2 DEF Three, Two
    <2> QED
      BY <2>3 DEF y
  <1> QED
    BY <1>2, <1>5, <1>6

\* The packet sent last, and the last packet that is left when another is read.
LEMMA LastPacket ==
    ASSUME NEW c \in Seq(Packet), NEW m \in Packet
    PROVE  /\ Append(c, m)[Len(Append(c, m))] = m
           /\ c # <<>> /\ Len(Tail(c)) > 0 => Tail(c)[Len(Tail(c))] = c[Len(c)]
           /\ Len(Tail(c)) > 0 /\ c # <<>> => Len(c) > 0
  <1>1. Append(c, m)[Len(Append(c, m))] = m
    BY SMTT(30), SentOn
  <1>2. c # <<>> => Len(Tail(c)) = Len(c) - 1 /\ Len(c) \in Nat /\ Len(c) > 0
    BY SMTT(30)
  <1>3. c # <<>> => \A i \in 1 .. Len(Tail(c)) : Tail(c)[i] = c[i + 1]
    BY ReadFrom
  <1> QED
    BY SMTT(30), <1>1, <1>2, <1>3

\* What an acquirer reads before its conflict ends is not a lost conflict.
LEMMA NotLost ==
    ASSUME NEW q, NEW v, NEW c \in Seq(Packet), NEW r, NEW u, NEW d \in Seq(Packet),
           NEW l \in Nat, Config(q, v, c, r, u, d, l)
    PROVE  /\ q = "idle" => ~Lost(c)
           /\ q \in {"waits", "retries"} /\ c # <<>> => ~Lost(Tail(c))
           /\ q = "waits" /\ r = "waits" /\ One(d, T) /\ c # <<>> /\ Head(c).type = T =>
                 One(c, T)
  <1>1. \A w : /\ Empty(w) => ~Lost(w)
               /\ \A t : One(w, t) => ~Lost(w)
               /\ \A t, x : Two(w, t, x) /\ t # T => ~Lost(w)
               /\ \A t, x, z : Three(w, t, x, z) /\ t # T => ~Lost(w)
    BY SMTT(30) DEF Empty, One, Two, Three, Lost
  <1>2. ASSUME q = "idle" PROVE ~Lost(c)
    <2>1. CASE Releases(r, u, d, q, c, l)
      <3>1. PICK w \in Seq(Packet) : c = Append(w, Released(l)) /\ Empty(w)
        BY <1>2, <2>1 DEF Releases, Beaten
      <3>2. One(c, R)
        BY <3>1, SendWord, Packets
      <3> QED
        BY <1>1, <3>2
    <2> QED
      BY <1>1, <1>2, <2>1 DEF Config, Line, Has, Releases, Verifies, Nobody, Stuck, Beaten
  <1>3. ASSUME q \in {"waits", "retries"}, c # <<>> PROVE ~Lost(Tail(c))
    <2>1. CASE Has(r, u, d, q, c, l)
      BY <1>1, <1>3, <2>1, ReadWord DEF Has, Beaten, A, T, V
    <2>2. CASE Releases(r, u, d, q, c, l)
      <3>1. PICK w \in Seq(Packet) :
              c = Append(w, Released(l)) /\ (Empty(w) \/ Beaten(q, w, d))
        BY <2>2 DEF Releases
      <3>2. CASE w = <<>>
        BY <1>1, <3>1, <3>2, ReadBefore, ReadWord, Packets DEF Empty
      <3>3. CASE w # <<>>
        <4>1. Tail(c) = Append(Tail(w), Released(l)) /\ Tail(w) \in Seq(Packet)
          BY SMTT(30), <3>1, <3>3, ReadBefore, Packets
        <4>2. ~Two(Tail(w), T, A)
          <5>1. Empty(Tail(w)) \/ (\E x : One(Tail(w), x)) \/ Two(Tail(w), A, V)
            BY <1>3, <3>1, <3>3, ReadWord DEF Beaten
          <5> QED
            BY SMTT(30), <5>1 DEF Empty, One, Two, A, T
        <4> QED
          BY <4>1, <4>2, SendLost, Packets DEF A, R
      <3> QED
        BY <3>2, <3>3
    <2>3. CASE Nobody(q, v, c, r, u, d, l) \/ Nobody(r, u, d, q, v, c, l)
      BY <1>1, <1>3, <2>3, ReadWord DEF Nobody, Noise, A, R, T, V
    <2>4. ~Stuck(r, d, q, c) /\ ~Verifies(r, u, d, q, v, c, l)
      BY <1>3, ReadWord DEF Stuck, Verifies
    <2> QED
      BY <1>3, <2>1, <2>2, <2>3, <2>4 DEF Config, Line, Has, Releases, Verifies, Stuck
  <1>4. ASSUME q = "waits", r = "waits", One(d, T), c # <<>>, Head(c).type = T
        PROVE  One(c, T)
    <2>1. Nobody(q, v, c, r, u, d, l) \/ Nobody(r, u, d, q, v, c, l)
      BY <1>4 DEF Config, Line, Has, Releases, Verifies, Stuck
    <2> QED
      BY SMTT(30), <1>4, <2>1, ReadWord DEF Nobody, Noise, A, R, T, V
  <1> QED
    BY <1>2, <1>3, <1>4

\* The steps of a node keep what is known of the times of the requests.
LEMMA StepsTimed ==
    ASSUME NEW q, NEW v \in Nat, NEW t \in Nat, NEW c \in Seq(Packet),
           NEW r, NEW u, NEW z \in Nat, NEW d \in Seq(Packet), NEW l \in Nat,
           NEW q2, NEW v2, NEW t2, NEW c2, NEW d2, NEW l2,
           Config(q, v, c, r, u, d, l), Step(q, v, t, c, d, l, q2, v2, t2, c2, d2, l2),
           Timed(q, t, c, d), Timed(r, z, d, c)
    PROVE  Timed(q2, t2, c2, d2) /\ Timed(r, z, d2, c2)
  <1>1. /\ \A k \in Nat : Released(k) \in Packet /\ Released(k).type = R
        /\ \A k \in 1 .. MaxTime : /\ TryAcquire(k) \in Packet /\ TryAcquire(k).type = T
                                   /\ TryAcquire(k).time = k
        /\ LockAcquired \in Packet /\ LockAcquired.type = A
        /\ ReleasedVerified \in Packet /\ ReleasedVerified.type = V
    BY Packets DEF TryAcquire
  <1>2. Append(d, LockAcquired) \in Seq(Packet)
    BY <1>1, SendWord
  <1>3. CASE Sends(q, v, t, c, d, l, q2, v2, t2, c2, d2, l2)
    <2>1. CASE q2 = q /\ t2 = t /\ d2 = d /\ c2 = c
      BY <2>1
    <2>2. CASE q = "idle" /\ q2 = "waits" /\ t2 \in 1 .. MaxTime /\ d2 = Append(d, TryAcquire(t2)) /\ c2 = c
      <3>1. ~Lost(c)
        BY <2>2, NotLost
      <3>2. ~Lost(d2)
        BY <1>1, <2>2, SendLost DEF A, R, T
      <3>3. d2[Len(d2)].time = t2
        BY <1>1, <2>2, LastPacket
      <3> QED
        BY <2>2, <3>1, <3>2, <3>3 DEF Timed
    <2>3. CASE q = "holds" /\ q2 = "released" /\ d2 = Append(d, Released(v)) /\ c2 = c
      <3>1. Lost(d2) => d2[1] = d[1] /\ Lost(d)
        BY <1>1, <2>3, SendLost DEF A, R, Lost
      <3> QED
        BY <2>3, <3>1 DEF Timed
    <2> QED
      BY <1>3, <2>1, <2>2, <2>3 DEF Sends
  <1>4. ASSUME Receives(q, v, t, c, d, q2, v2, d2), c # <<>>, c2 = Tail(c), t2 = t
        PROVE  Timed(q2, t2, c2, d2) /\ Timed(r, z, d2, c2)
    <2>1. q # "holds" => Head(c).type # "Halt"
      BY <1>4, NoHaltRead
    <2>2. \/ d2 = d
          \/ d2 = Append(d, Released(v))
          \/ /\ d2 = Append(d, LockAcquired) /\ q = "waits"
             /\ Head(c).type = T /\ Head(c).time > t
          \/ d2 = Append(Append(d, LockAcquired), ReleasedVerified)
      BY <1>4, <2>1 DEF Receives
    <2>3. \/ q2 # "waits"
          \/ q2 = q /\ q = "waits" /\ d2 = d
          \/ q = "retries" /\ d2 = Append(Append(d, LockAcquired), ReleasedVerified)
      BY <1>4, <2>1 DEF Receives
    <2>4. Timed(q2, t2, c2, d2)
      <3> SUFFICES ASSUME q2 = "waits"
                   PROVE  /\ Len(d2) > 0 /\ d2[Len(d2)].type = T => d2[Len(d2)].time = t
                          /\ ~Lost(c2)
        BY <1>4 DEF Timed
      <3>1. ~Lost(c2)
        BY <1>4, <2>3, NotLost
      <3>2. d2 = Append(Append(d, LockAcquired), ReleasedVerified) => d2[Len(d2)].type # T
        BY SMTT(30), <1>1, <1>2, LastPacket DEF T, V
      <3> QED
        BY <2>3, <3>1, <3>2 DEF Timed
    <2>5. ASSUME r = "waits", Len(c2) > 0, c2[Len(c2)].type = T
          PROVE  c2[Len(c2)].time = z
      <3>1. c2[Len(c2)] = c[Len(c)] /\ Len(c) > 0
        BY <1>1, <1>4, <2>5, LastPacket
      <3> QED
        BY <2>5, <3>1 DEF Timed
    <2>6. ASSUME r = "waits", Lost(d2)
          PROVE  d2[1].time <= z
      <3>1. CASE d2 = d
        BY <2>6, <3>1 DEF Timed
      <3>2. CASE d2 = Append(d, Released(v))
        <4>1. d2[1] = d[1] /\ Lost(d)
          BY <1>1, <2>6, <3>2, SendLost DEF A, R, Lost
        <4> QED
          BY <2>6, <4>1 DEF Timed
      <3>3. d2 # Append(Append(d, LockAcquired), ReleasedVerified)
        BY <1>1, <1>2, <2>6, SendLost DEF A, R, V
      <3>4. CASE /\ d2 = Append(d, LockAcquired) /\ q = "waits"
                 /\ Head(c).type = T /\ Head(c).time > t
        <4>1. d2[1] = d[1] /\ One(d, T)
          BY <1>1, <2>6, <3>4, SendLost DEF A, R
        <4>2. One(c, T)
          BY <1>4, <2>6, <3>4, <4>1, NotLost
        <4>3. d[1].time = t
          BY SMTT(30), <3>4, <4>1 DEF Timed, One
        <4>4. c[1].time = z /\ Head(c) = c[1]
          BY SMTT(30), <1>4, <2>6, <4>2 DEF Timed, One
        <4> QED
          BY SMTT(30), <3>4, <4>1, <4>3, <4>4
      <3> QED
        BY <2>2, <3>1, <3>2, <3>3, <3>4
    <2>7. Timed(r, z, d2, c2)
      BY <2>5, <2>6 DEF Timed
    <2> QED
      BY <2>4, <2>7
  <1> QED
    BY <1>3, <1>4 DEF Step
-----------------------------------------------------------------------------
(* After a node has dropped its mutex *)

\* The packets that may give the lock, after one was read or a Halt was sent.
LEMMA GrantsSteps ==
    ASSUME NEW c \in Seq(Packet)
    PROVE  /\ Grants(Append(c, Halt)) = Grants(c)
           /\ c # <<>> => \A i \in Nat : i \in Grants(Tail(c)) <=> i # 0 /\ i + 1 \in Grants(c)
           /\ c # <<>> => (1 \in Grants(c) <=> Head(c).type \in {T, R})
  <1>1. /\ Len(Append(c, Halt)) = Len(c) + 1 /\ Append(c, Halt)[Len(c) + 1] = Halt
        /\ \A i \in 1 .. Len(c) : Append(c, Halt)[i] = c[i]
        /\ Len(c) \in Nat
    BY SMTT(30), SentOn, Packets
  <1>2. Halt.type \notin {T, R}
    BY Packets DEF T, R
  <1>3. Grants(Append(c, Halt)) = Grants(c)
    <2>1. 1 .. Len(Append(c, Halt)) = 1 .. Len(c) \cup {Len(c) + 1}
      BY SMTT(30), <1>1
    <2> QED
      BY <1>1, <1>2, <2>1 DEF Grants
  <1>4. ASSUME c # <<>>, NEW i \in Nat
        PROVE  i \in Grants(Tail(c)) <=> i # 0 /\ i + 1 \in Grants(c)
    <2>1. Len(Tail(c)) = Len(c) - 1 /\ Len(c) > 0
      BY SMTT(30), <1>4
    <2>2. \A j \in 1 .. Len(Tail(c)) : Tail(c)[j] = c[j + 1]
      BY <1>4, ReadFrom
    <2>3. i \in 1 .. Len(Tail(c)) <=> i # 0 /\ i + 1 \in 1 .. Len(c)
      BY SMTT(30), <1>1, <2>1
    <2> QED
      BY <2>2, <2>3 DEF Grants
  <1>5. c # <<>> => (1 \in Grants(c) <=> Head(c).type \in {T, R})
    BY SMTT(30), <1>1 DEF Grants
  <1> QED
    BY <1>3, <1>4, <1>5

\* A node that nothing makes acquire the lock does not acquire it by its next step.
LEMMA StepsHarmless ==
    ASSUME NEW q, NEW v, NEW t \in Nat, NEW c \in Seq(Packet), NEW d, NEW l,
           NEW q2, NEW v2, NEW t2, NEW c2, NEW d2, NEW l2,
           Harmless(q, t, c), q # "holds", Step(q, v, t, c, d, l, q2, v2, t2, c2, d2, l2)
    PROVE  q2 # "holds" /\ Harmless(q2, t2, c2)
  <1>1. CASE Sends(q, v, t, c, d, l, q2, v2, t2, c2, d2, l2)
    BY <1>1 DEF Sends, Harmless
  <1>2. ASSUME Receives(q, v, t, c, d, q2, v2, d2), c # <<>>, c2 = Tail(c), t2 = t
        PROVE  q2 # "holds" /\ Harmless(q2, t2, c2)
    <2>1. /\ \A i \in Nat : i \in Grants(c2) <=> i # 0 /\ i + 1 \in Grants(c)
          /\ 1 \in Grants(c) <=> Head(c).type \in {T, R}
          /\ Grants(c2) \subseteq Nat /\ Head(c) = c[1] /\ 1 \in 1 .. Len(c)
      <3>1. /\ \A i \in Nat : i \in Grants(Tail(c)) <=> i # 0 /\ i + 1 \in Grants(c)
            /\ 1 \in Grants(c) <=> Head(c).type \in {T, R}
        BY <1>2, GrantsSteps
      <3>2. Head(c) = c[1] /\ 1 \in 1 .. Len(c)
        BY SMTT(30), <1>2
      <3>3. Grants(c2) \subseteq Nat
        BY SMTT(30) DEF Grants
      <3> QED
        BY <1>2, <3>1, <3>2, <3>3
    <2>2. CASE Grants(c) = {}
      <3>1. Grants(c2) = {}
        BY <2>1, <2>2
      <3>2. q2 # "holds"
        BY <1>2, <2>1, <2>2 DEF Receives
      <3> QED
        BY <3>1, <3>2 DEF Harmless
    <2>3. CASE q = "waits" /\ Grants(c) = {1} /\ c[1].type = T /\ c[1].time <= t
      <3>1. Grants(c2) = {}
        BY SMTT(30), <2>1, <2>3
      <3>2. c[1].time \in Nat
        <4>1. c[1] \in Packet
          BY SMTT(30), <2>1
        <4> QED
          BY <2>3, <4>1, PacketFields
      <3>3. q2 # "holds"
        BY SMTT(30), <1>2, <2>1, <2>3, <3>2 DEF Receives, A, R, T, V
      <3> QED
        BY <3>1, <3>3 DEF Harmless
    <2>4. CASE /\ q \in {"released", "flagged"}
               /\ \E j \in 1 .. Len(c) : c[j].type = V
               /\ \A i \in Grants(c) : \A j \in 1 .. Len(c) : c[j].type = V => i < j
      <3>1. q2 # "holds"
        BY <1>2, <2>4 DEF Receives
      <3>2. CASE Head(c).type = V
        <4>1. Grants(c) = {}
          <5>1. \A i \in Grants(c) : i \in Nat /\ i >= 1
            BY SMTT(30) DEF Grants
          <5>2. \A i \in Grants(c) : i < 1
            BY <2>1, <2>4, <3>2
          <5> QED
            BY SMTT(30), <5>1, <5>2
        <4> QED
          BY <2>2, <4>1
      <3>3. CASE Head(c).type # V
        <4>1. q2 \in {"released", "flagged"}
          BY <1>2, <2>4, <3>3 DEF Receives, A, R, T, V
        <4>2. /\ Len(c2) = Len(c) - 1 /\ Len(c) \in Nat
              /\ \A j \in 1 .. Len(c2) : c2[j] = c[j + 1] /\ j + 1 \in 1 .. Len(c)
          <5>1. Len(c2) = Len(c) - 1 /\ Len(c) \in Nat
            BY SMTT(30), <1>2
          <5>2. \A j \in 1 .. Len(c2) : c2[j] = c[j + 1]
            BY <1>2, ReadFrom
          <5> QED
            BY SMTT(30), <5>1, <5>2
        <4>3. PICK j \in 1 .. Len(c) : c[j].type = V
          BY <2>4
        <4>4. j - 1 \in 1 .. Len(c2) /\ c2[j - 1] = c[j]
          <5>1. j # 1
            BY <2>1, <3>3, <4>3
          <5>2. j - 1 \in 1 .. Len(c2) /\ (j - 1) + 1 = j
            BY SMTT(30), <4>2, <5>1
          <5> QED
            BY <4>2, <5>2
        <4>5. \E x \in 1 .. Len(c2) : c2[x].type = V
          BY <4>3, <4>4
        <4>6. ASSUME NEW i \in Grants(c2), NEW x \in 1 .. Len(c2), c2[x].type = V
              PROVE  i < x
          <5>1. i \in Nat /\ i + 1 \in Grants(c) /\ x + 1 \in 1 .. Len(c) /\ c[x + 1].type = V
            BY <2>1, <4>2, <4>6
          <5>2. i + 1 < x + 1
            BY <2>4, <5>1
          <5> QED
            BY SMTT(30), <5>1, <5>2
        <4> QED
          BY <3>1, <4>1, <4>5, <4>6 DEF Harmless
      <3> QED
        BY <3>2, <3>3
    <2> QED
      BY <2>2, <2>3, <2>4 DEF Harmless
  <1> QED
    BY <1>1, <1>2 DEF Step

\* What is on its way to the other node while one has the lock.
LEMMA HasHarmless ==
    ASSUME NEW q, NEW v, NEW c, NEW r, NEW u, NEW z, NEW d \in Seq(Packet), NEW l,
           Config(q, v, c, r, u, d, l), q = "holds", Timed(r, z, d, c)
    PROVE  v = l /\ r # "holds" /\ Harmless(r, z, d)
  <1>1. v = l /\ Beaten(r, d, c)
    BY DEF Config, Line, Has, Releases, Verifies, Nobody, Stuck, Beaten
  <1>2. r # "holds"
    BY <1>1 DEF Beaten
  <1>3. CASE Empty(d) \/ One(d, A) \/ One(d, V) \/ Two(d, A, V)
    <2>1. Grants(d) = {}
      BY SMTT(30), <1>3 DEF Grants, Empty, One, Two, A, R, T, V
    <2> QED
      BY <1>1, <1>2, <2>1 DEF Harmless
  <1>4. CASE r = "waits" /\ Two(d, T, A)
    <2>1. Grants(d) = {1} /\ d[1].type = T
      BY SMTT(30), <1>4 DEF Grants, Two, A, R, T
    <2>2. d[1].time <= z
      BY <1>4 DEF Timed, Lost
    <2> QED
      BY <1>1, <1>2, <1>4, <2>1, <2>2 DEF Harmless
  <1>5. CASE r = "released" /\ Three(d, T, A, V)
    <2>1. Len(d) = 3 /\ d[1].type = T /\ d[2].type = A /\ d[3].type = V
      BY <1>5 DEF Three
    <2>2. 1 .. Len(d) = {1, 2, 3}
      BY SMTT(30), <2>1
    <2>3. \A j \in 1 .. Len(d) : d[j].type = V => j = 3
      BY <2>1, <2>2 DEF A, T, V
    <2>4. \A i \in Grants(d) : i = 1
      BY <2>1, <2>2 DEF Grants, A, R, T, V
    <2>5. 3 \in 1 .. Len(d)
      BY <2>2
    <2> QED
      BY SMTT(30), <1>1, <1>2, <1>5, <2>1, <2>3, <2>4, <2>5 DEF Harmless
  <1> QED
    BY <1>1, <1>3, <1>4, <1>5 DEF Beaten

\* SendHalt: a Halt gives the lock to nobody.
LEMMA HaltHarmless ==
    ASSUME NEW q, NEW t, NEW c \in Seq(Packet), Harmless(q, t, c)
    PROVE  Harmless(q, t, Append(c, Halt))
  <1> DEFINE e == Append(c, Halt)
  <1>1. /\ Len(e) = Len(c) + 1 /\ e[Len(c) + 1] = Halt
        /\ \A i \in 1 .. Len(c) : e[i] = c[i]
        /\ Len(c) \in Nat /\ Halt.type # V
    BY SMTT(30), SentOn, Packets DEF V
  <1>2. Grants(e) = Grants(c)
    BY GrantsSteps
  <1> HIDE DEF e
  <1>3. \A i \in 1 .. Len(e) : i \in 1 .. Len(c) \/ i = Len(c) + 1
    BY SMTT(30), <1>1
  <1>4. \A i \in 1 .. Len(c) : i \in 1 .. Len(e)
    BY SMTT(30), <1>1
  <1>5. Grants(c) = {1} => e[1] = c[1]
    BY <1>1 DEF Grants
  <1>6. Harmless(q, t, e)
    BY <1>1, <1>2, <1>3, <1>4, <1>5 DEF Harmless
  <1> QED
    BY <1>6 DEF e
=============================================================================
