------------------------ MODULE NetMultiplexProofs ------------------------
(***************************************************************************)
(* The conversations of a connection, for every number of them that is     *)
(* reserved or opened: an inductive invariant over the two nodes and what   *)
(* is on its way between them, and what the connection promises.           *)
(***************************************************************************)
EXTENDS NetMultiplex, TLAPS

\* Zenon has 30 seconds for each leaf that does not name another prover.
USE ZenonT(30)

\* The packets of a stream.
Carried(c) == {c[k] : k \in 1 .. Len(c)}

\* What a stream carries after a packet was sent on it or read from it.
LEMMA Streams ==
    ASSUME NEW Q, NEW c \in Seq(Q)
    PROVE  /\ c \o <<>> = c
           /\ \A p \in Q : /\ c \o <<p>> = Append(c, p) /\ Append(c, p) \in Seq(Q)
                           /\ Carried(Append(c, p)) = Carried(c) \cup {p}
           /\ c # <<>> => /\ Tail(c) \in Seq(Q) /\ Head(c) \in Q
                          /\ Carried(c) = {Head(c)} \cup Carried(Tail(c))
  <1>1. c \o <<>> = c
    BY SMTT(30)
  <1>2. ASSUME NEW p \in Q
        PROVE  /\ c \o <<p>> = Append(c, p) /\ Append(c, p) \in Seq(Q)
               /\ Carried(Append(c, p)) = Carried(c) \cup {p}
    <2> DEFINE d == Append(c, p)
    <2>1. c \o <<p>> = d /\ d \in Seq(Q)
      BY SMTT(30)
    <2>2. /\ Len(d) = Len(c) + 1 /\ Len(c) \in Nat /\ d[Len(c) + 1] = p
          /\ \A k \in 1 .. Len(c) : d[k] = c[k]
      BY SMTT(30)
    <2>3. 1 .. Len(d) = 1 .. Len(c) \cup {Len(c) + 1}
      BY SMTT(30), <2>2
    <2> HIDE DEF d
    <2>4. Carried(d) = Carried(c) \cup {p}
      BY SMTT(30), <2>2, <2>3 DEF Carried
    <2> QED
      BY <2>1, <2>4 DEF d
  <1>3. ASSUME c # <<>>
        PROVE  Tail(c) \in Seq(Q) /\ Head(c) \in Q /\ Carried(c) = {Head(c)} \cup Carried(Tail(c))
    <2>1. Tail(c) \in Seq(Q) /\ Head(c) \in Q /\ Head(c) = c[1] /\ 1 \in 1 .. Len(c)
      BY SMTT(30), <1>3
    <2>2. /\ Len(c) \in Nat /\ Len(Tail(c)) = Len(c) - 1
          /\ \A k \in 1 .. Len(Tail(c)) : Tail(c)[k] = c[k + 1] /\ k + 1 \in 1 .. Len(c)
      BY SMTT(30), <1>3
    <2>3. \A k \in 1 .. Len(c) : k = 1 \/ (k - 1 \in 1 .. Len(Tail(c)) /\ c[k] = Tail(c)[k - 1])
      <3> SUFFICES ASSUME NEW k \in 1 .. Len(c), k # 1
                   PROVE  k - 1 \in 1 .. Len(Tail(c)) /\ c[k] = Tail(c)[k - 1]
        OBVIOUS
      <3>1. k - 1 \in 1 .. Len(Tail(c)) /\ (k - 1) + 1 = k
        BY SMTT(30), <2>2
      <3> QED
        BY <2>2, <3>1
    <2>4. Carried(c) \subseteq {Head(c)} \cup Carried(Tail(c))
      BY SMTT(30), <2>1, <2>3 DEF Carried
    <2>5. {Head(c)} \cup Carried(Tail(c)) \subseteq Carried(c)
      BY SMTT(30), <2>1, <2>2 DEF Carried
    <2> QED
      BY <2>1, <2>4, <2>5
  <1> QED
    BY <1>1, <1>2, <1>3

\* A stream nothing was sent on.
LEMMA NoStream == <<>> \in Seq({}) /\ Carried(<<>>) = {} /\ \A Q : <<>> \in Seq(Q)
  BY SMTT(30) DEF Carried


\* Of two packets of a stream, the earlier and the later are in relation R.
Ordered(c, R) == \A j, k \in 1 .. Len(c) : j < k => <<c[j], c[k]>> \in R

\* Sending a packet and reading one keep an order.
LEMMA Orders ==
    ASSUME NEW Q, NEW R, NEW c \in Seq(Q), Ordered(c, R)
    PROVE  /\ \A q \in Q : (\A p \in Carried(c) : <<p, q>> \in R) => Ordered(Append(c, q), R)
           /\ c # <<>> => /\ Ordered(Tail(c), R)
                          /\ \A q \in Carried(Tail(c)) : <<Head(c), q>> \in R
  <1>1. ASSUME NEW q \in Q, \A p \in Carried(c) : <<p, q>> \in R
        PROVE  Ordered(Append(c, q), R)
    <2> DEFINE d == Append(c, q)
    <2>1. /\ Len(d) = Len(c) + 1 /\ Len(c) \in Nat /\ d[Len(c) + 1] = q
          /\ \A k \in 1 .. Len(c) : d[k] = c[k] /\ c[k] \in Carried(c)
      BY SMTT(30) DEF Carried
    <2> HIDE DEF d
    <2>2. ASSUME NEW j \in 1 .. Len(d), NEW k \in 1 .. Len(d), j < k
          PROVE  <<d[j], d[k]>> \in R
      <3>1. CASE k = Len(c) + 1
        BY SMTT(30), <1>1, <2>1, <2>2, <3>1
      <3>2. CASE k # Len(c) + 1
        BY SMTT(30), <2>1, <2>2, <3>2 DEF Ordered
      <3> QED
        BY <3>1, <3>2
    <2> QED
      BY <2>2 DEF Ordered, d
  <1>2. ASSUME c # <<>>
        PROVE  Ordered(Tail(c), R) /\ \A q \in Carried(Tail(c)) : <<Head(c), q>> \in R
    <2>1. /\ Len(Tail(c)) \in Nat /\ Len(c) \in Nat /\ Head(c) = c[1] /\ 1 \in 1 .. Len(c)
          /\ \A k \in 1 .. Len(Tail(c)) : /\ Tail(c)[k] = c[k + 1] /\ k + 1 \in 1 .. Len(c)
                                          /\ 1 < k + 1
      BY SMTT(30), <1>2
    <2>2. Ordered(Tail(c), R)
      <3> SUFFICES ASSUME NEW j \in 1 .. Len(Tail(c)), NEW k \in 1 .. Len(Tail(c)), j < k
                   PROVE  <<Tail(c)[j], Tail(c)[k]>> \in R
        BY DEF Ordered
      <3>1. Tail(c)[j] = c[j + 1] /\ Tail(c)[k] = c[k + 1] /\ j + 1 < k + 1
        BY SMTT(30), <2>1
      <3> QED
        BY <2>1, <3>1 DEF Ordered
    <2>3. \A q \in Carried(Tail(c)) : <<Head(c), q>> \in R
      <3> SUFFICES ASSUME NEW k \in 1 .. Len(Tail(c)) PROVE <<Head(c), Tail(c)[k]>> \in R
        BY DEF Carried
      <3> QED
        BY <2>1 DEF Ordered
    <2> QED
      BY <2>2, <2>3
  <1> QED
    BY <1>1, <1>2

-----------------------------------------------------------------------------
(* Subscriptions *)

\* No more conversations are reserved than there are.
Sized == Capacity \in Nat /\ MaxId \in Nat /\ Capacity <= MaxId

SubNode == [latest : 0..MaxId, gen : Capacity..MaxId, subs : [Id -> Sub],
            post : [Id -> {"absent", "empty", "signalled"}],
            pre : Seq(Id), waiting : BOOLEAN]

PacketType == {"ApplicationLayer", "PreCreate", "PostDrop"}

SubPacket == [type : PacketType, id : Id]

\* A stream carries one PreCreate at a time, and a PostDrop is the last packet of
\* its conversation.
Follows ==
    {pq \in SubPacket \X SubPacket :
       /\ pq[1].type = "PreCreate" => pq[2].type # "PreCreate"
       /\ pq[1].type = "PostDrop" /\ pq[1].id = pq[2].id => pq[2].type = "PreCreate"}

\* The last conversation node s knows of.
Reached(s) == IF s.latest > Capacity THEN s.latest ELSE Capacity

\* The conversations a node that has reached g has entries for.
KnownIds(s, g) ==
    \A id \in Id :
       /\ id > g => s.subs[id] = "absent" /\ s.post[id] = "absent"
       /\ id <= g => s.post[id] # "absent"
       /\ s.subs[id] = "reserved" <=> s.latest < id /\ id <= Capacity

NoPreCreate(c) == \A p \in c : p.type # "PreCreate"

\* Which side has the turn to open conversation r.gen: the receiver numbers it, the
\* initiator opens it, the receiver's call returns.  (ci and cr: what is on its way
\* to the initiator and to the receiver.)
Turn(i, r, ci, cr) ==
    /\ i.waiting => i.latest >= Capacity
    /\ r.waiting => /\ r.gen \in Id /\ r.latest = r.gen
                    /\ r.subs[r.gen] = "open" /\ r.post[r.gen] = "empty"
    /\ \/ /\ ~r.waiting /\ Reached(i) = r.gen
          /\ NoPreCreate(ci) /\ NoPreCreate(cr) /\ i.pre = <<>> /\ r.pre = <<>>
       \/ /\ r.waiting /\ Reached(i) = r.gen - 1
          /\ NoPreCreate(cr) /\ r.pre = <<>>
          /\ \/ i.pre = <<>> /\ \A p \in ci : p.type = "PreCreate" => p.id = r.gen
             \/ i.pre = <<r.gen>> /\ NoPreCreate(ci)
       \/ /\ r.waiting /\ Reached(i) = r.gen
          /\ NoPreCreate(ci) /\ i.pre = <<>>
          /\ \/ r.pre = <<>> /\ \A p \in cr : p.type = "PreCreate" => p.id = r.gen
             \/ r.pre = <<r.gen>> /\ NoPreCreate(cr)

\* The stages of closing conversation id: the receiver says that it has dropped it,
\* the initiator is signalled, forgets it and answers, the receiver forgets it.
Closing(i, r, id) ==
    /\ r.subs[id] \in {"closing", "sent"} => id <= Reached(i)
    /\ i.subs[id] # "sent"
    /\ r.post[id] = "signalled" =>
          i.subs[id] = "absent" /\ i.post[id] = "signalled" /\ r.subs[id] \in {"sent", "absent"}
    /\ i.post[id] = "signalled" => r.subs[id] \in {"sent", "absent"}
    /\ id <= Reached(i) /\ i.subs[id] = "absent" => i.post[id] = "signalled"
    /\ id <= r.gen /\ r.subs[id] = "absent" => r.post[id] = "signalled"

ToInitiator(i, r, ci) ==
    \A p \in ci :
       /\ p \in SubPacket
       /\ p.type = "ApplicationLayer" => p.id <= Reached(i) /\ i.post[p.id] = "empty"
       /\ p.type = "PostDrop" => r.subs[p.id] = "sent" /\ i.post[p.id] = "empty"

ToReceiver(i, r, cr) ==
    \A p \in cr :
       /\ p \in SubPacket
       /\ p.type = "ApplicationLayer" => p.id <= Reached(i) /\ r.post[p.id] = "empty"
       /\ p.type = "PostDrop" => /\ i.subs[p.id] = "absent" /\ i.post[p.id] = "signalled"
                                 /\ r.subs[p.id] = "sent" /\ r.post[p.id] = "empty"

\* The entries of the two nodes fit together.
Nodes(i, r) ==
    /\ i \in SubNode /\ r \in SubNode /\ r.gen = Reached(r)
    /\ KnownIds(i, Reached(i)) /\ KnownIds(r, r.gen)
    /\ \A id \in Id : Closing(i, r, id)

Conversations(i, r, ci, cr) ==
    Nodes(i, r) /\ Turn(i, r, ci, cr) /\ ToInitiator(i, r, ci) /\ ToReceiver(i, r, cr)

OfNodes(f) == f = [n \in Node |-> f[n]]

SubInv ==
    /\ Sized
    /\ faults = {}
    /\ OfNodes(node)
    /\ chan \in [Node -> Seq(SubPacket)]
    /\ \A n \in Node : Ordered(chan[n], Follows)
    /\ Conversations(node["initiator"], node["receiver"],
                     Carried(chan["initiator"]), Carried(chan["receiver"]))

-----------------------------------------------------------------------------
(* What the calls change in a node *)

\* The ids are numbers, and a packet carries one.
LEMMA Ids == (\A id \in Id : id \in Nat) /\ \A p \in SubPacket : p.id \in Id
  BY SMTT(30) DEF Id, SubPacket

\* What one packet may follow.
LEMMA SubFollows ==
    ASSUME NEW p \in SubPacket, NEW q \in SubPacket,
           p.type = "PreCreate" => q.type # "PreCreate",
           p.type = "PostDrop" /\ p.id = q.id => q.type = "PreCreate"
    PROVE  <<p, q>> \in Follows
  BY DEF Follows

\* What a packet may be followed by: no PreCreate after a PreCreate, and nothing of a
\* conversation after its PostDrop.
LEMMA SubFollowed ==
    ASSUME NEW p, NEW q, <<p, q>> \in Follows
    PROVE  /\ p.type = "PreCreate" => q.type # "PreCreate"
           /\ p.type = "PostDrop" /\ p.id = q.id => q.type = "PreCreate"
  BY DEF Follows

\* get_next_prereserved: a reserved conversation is taken.
Taken(s) == [s EXCEPT !.subs[s.latest + 1] = "open", !.latest = @ + 1]

\* It was known already, so that how far the node has come stays.
LEMMA SubTaken ==
    ASSUME Sized, NEW s \in SubNode, Reserved(s), KnownIds(s, Reached(s)), NEW t, t = Taken(s)
    PROVE  /\ t \in SubNode /\ t.gen = s.gen /\ t.post = s.post
           /\ t.pre = s.pre /\ t.waiting = s.waiting
           /\ Reached(t) = Reached(s) /\ KnownIds(t, Reached(t)) /\ s.latest < Capacity
           /\ \A id \in Id : \/ t.subs[id] = s.subs[id]
                             \/ s.subs[id] = "reserved" /\ t.subs[id] = "open"
  <1> DEFINE k == s.latest + 1
  <1>1. /\ s.latest \in Nat /\ k \in Id /\ s.subs[k] = "reserved" /\ k <= Capacity
        /\ s.subs \in [Id -> Sub] /\ Capacity \in Nat
    BY SMTT(30) DEF SubNode, Reserved, KnownIds, Sized
  <1>2. t = [s EXCEPT !.subs = [s.subs EXCEPT ![k] = "open"], !.latest = k]
    BY DEF Taken
  <1>3. [s.subs EXCEPT ![k] = "open"] \in [Id -> Sub] /\ k \in 0..MaxId
    BY SMTT(30), <1>1 DEF Sub, Id
  <1>4. s.latest < k /\ s.latest < Capacity /\ \A id \in Nat : id # k => (k < id <=> s.latest < id)
    BY SMTT(30), <1>1
  <1> HIDE DEF k
  <1>5. /\ t \in SubNode /\ t.subs = [s.subs EXCEPT ![k] = "open"] /\ t.latest = k
        /\ t.gen = s.gen /\ t.post = s.post /\ t.pre = s.pre /\ t.waiting = s.waiting
    BY <1>2, <1>3 DEF SubNode
  <1>6. Reached(t) = Capacity /\ Reached(s) = Capacity
    BY SMTT(30), <1>1, <1>4, <1>5, Ids DEF Reached
  <1>7. t.subs[k] = "open" /\ \A id \in Id : id # k => t.subs[id] = s.subs[id]
    BY <1>1, <1>5
  <1>8. ASSUME NEW id \in Id
        PROVE  /\ id > Capacity => t.subs[id] = "absent" /\ t.post[id] = "absent"
               /\ id <= Capacity => t.post[id] # "absent"
               /\ t.subs[id] = "reserved" <=> t.latest < id /\ id <= Capacity
    <2>1. /\ id > Capacity => s.subs[id] = "absent" /\ s.post[id] = "absent"
          /\ id <= Capacity => s.post[id] # "absent"
          /\ s.subs[id] = "reserved" <=> s.latest < id /\ id <= Capacity
      BY <1>6 DEF KnownIds
    <2>2. CASE id = k
      BY SMTT(30), <1>1, <1>5, <1>7, <2>1, <2>2, Ids
    <2>3. CASE id # k
      BY <1>4, <1>5, <1>7, <2>1, <2>3, Ids
    <2> QED
      BY <2>2, <2>3
  <1>9. KnownIds(t, Capacity)
    BY <1>8 DEF KnownIds
  <1> QED
    BY <1>1, <1>4, <1>5, <1>6, <1>7, <1>9

\* subscribe: the next id is neither known nor out of order.
LEMMA SubSubscribed ==
    ASSUME Sized, NEW s \in SubNode, NEW id \in Id, id = s.latest + 1, s.latest >= Capacity,
           KnownIds(s, s.latest), NEW t, t = Subscribed(s, id)
    PROVE  /\ SubscribeFaults(s, id) = {} /\ t \in SubNode /\ t.latest = id /\ t.gen = s.gen
           /\ t.pre = s.pre /\ t.waiting = s.waiting
           /\ s.subs[id] = "absent" /\ s.post[id] = "absent"
           /\ t.subs[id] = "open" /\ t.post[id] = "empty"
           /\ \A x \in Id : x # id => t.subs[x] = s.subs[x] /\ t.post[x] = s.post[x]
           /\ Reached(t) = id /\ Reached(s) = s.latest /\ KnownIds(t, id)
  <1>1. /\ s.latest \in Nat /\ s.subs \in [Id -> Sub] /\ Capacity \in Nat /\ id \in Nat
        /\ s.post \in [Id -> {"absent", "empty", "signalled"}]
    BY SMTT(30), Ids DEF SubNode, Sized
  <1>2. s.subs[id] = "absent" /\ s.post[id] = "absent"
    BY SMTT(30), <1>1 DEF KnownIds
  <1>3. SubscribeFaults(s, id) = {}
    BY <1>2 DEF SubscribeFaults
  <1>4. t = [s EXCEPT !.subs = [s.subs EXCEPT ![id] = "open"],
                      !.post = [s.post EXCEPT ![id] = "empty"], !.latest = id]
    BY DEF Subscribed
  <1>5. /\ [s.subs EXCEPT ![id] = "open"] \in [Id -> Sub]
        /\ [s.post EXCEPT ![id] = "empty"] \in [Id -> {"absent", "empty", "signalled"}]
        /\ id \in 0..MaxId
    BY SMTT(30), <1>1 DEF Sub, Id
  <1>6. /\ t \in SubNode /\ t.latest = id /\ t.gen = s.gen /\ t.pre = s.pre /\ t.waiting = s.waiting
        /\ t.subs = [s.subs EXCEPT ![id] = "open"] /\ t.post = [s.post EXCEPT ![id] = "empty"]
    BY <1>4, <1>5 DEF SubNode
  <1>7. /\ t.subs[id] = "open" /\ t.post[id] = "empty"
        /\ \A x \in Id : x # id => t.subs[x] = s.subs[x] /\ t.post[x] = s.post[x]
    BY <1>1, <1>6
  <1>8. Reached(t) = id /\ Reached(s) = s.latest
    BY SMTT(30), <1>1, <1>6 DEF Reached
  <1>9. ASSUME NEW x \in Id
        PROVE  /\ x > id => t.subs[x] = "absent" /\ t.post[x] = "absent"
               /\ x <= id => t.post[x] # "absent"
               /\ t.subs[x] = "reserved" <=> t.latest < x /\ x <= Capacity
    <2>1. /\ x > s.latest => s.subs[x] = "absent" /\ s.post[x] = "absent"
          /\ x <= s.latest => s.post[x] # "absent"
          /\ s.subs[x] = "reserved" <=> s.latest < x /\ x <= Capacity
      BY DEF KnownIds
    <2>2. CASE x = id
      BY SMTT(30), <1>1, <1>6, <1>7, <2>2
    <2>3. CASE x # id
      BY SMTT(30), <1>1, <1>6, <1>7, <2>1, <2>3, Ids
    <2> QED
      BY <2>2, <2>3
  <1>10. KnownIds(t, id)
    BY <1>9 DEF KnownIds
  <1> QED
    BY <1>2, <1>3, <1>6, <1>7, <1>8, <1>10

\* A node without reserved conversations has gone through all of them.
LEMMA SubUnreserved ==
    ASSUME Sized, NEW s \in SubNode, NEW g, KnownIds(s, g), ~Reserved(s)
    PROVE  s.latest >= Capacity /\ Reached(s) = s.latest
  <1>1. s.latest \in Nat /\ Capacity \in Nat /\ MaxId \in Nat /\ Capacity <= MaxId
    BY SMTT(30) DEF SubNode, Sized
  <1>2. s.latest >= Capacity
    BY SMTT(30), <1>1 DEF KnownIds, Reserved, Id
  <1> QED
    BY SMTT(30), <1>1, <1>2 DEF Reached

\* The entry of a conversation moves on.
Marked(s, id, x) == [s EXCEPT !.subs[id] = x]

\* The rest of the node stays.
LEMMA SubMarked ==
    ASSUME NEW s \in SubNode, NEW id \in Id, NEW x \in Sub, x # "reserved", NEW g,
           KnownIds(s, g), s.subs[id] \notin {"absent", "reserved"}, NEW t, t = Marked(s, id, x)
    PROVE  /\ t \in SubNode /\ t.gen = s.gen /\ t.latest = s.latest
           /\ t.post = s.post /\ t.pre = s.pre /\ t.waiting = s.waiting
           /\ Reached(t) = Reached(s) /\ KnownIds(t, g)
           /\ t.subs[id] = x /\ \A y \in Id : y # id => t.subs[y] = s.subs[y]
  <1>1. s.subs \in [Id -> Sub] /\ [s.subs EXCEPT ![id] = x] \in [Id -> Sub]
    BY DEF SubNode
  <1>2. t = [s EXCEPT !.subs = [s.subs EXCEPT ![id] = x]]
    BY DEF Marked
  <1>3. /\ t \in SubNode /\ t.subs = [s.subs EXCEPT ![id] = x] /\ t.latest = s.latest
        /\ t.gen = s.gen /\ t.post = s.post /\ t.pre = s.pre /\ t.waiting = s.waiting
    BY <1>1, <1>2 DEF SubNode
  <1>4. t.subs[id] = x /\ \A y \in Id : y # id => t.subs[y] = s.subs[y]
    BY <1>1, <1>3
  <1>5. Reached(t) = Reached(s)
    BY <1>3 DEF Reached
  <1>6. KnownIds(t, g)
    BY <1>3, <1>4 DEF KnownIds
  <1> QED
    BY <1>3, <1>4, <1>5, <1>6

\* The signal of a conversation is set.
Told(s, id) == [s EXCEPT !.post[id] = "signalled"]

\* The entries of the node stay.
LEMMA SubTold ==
    ASSUME NEW s \in SubNode, NEW id \in Id, NEW g, KnownIds(s, g), s.post[id] = "empty",
           NEW t, t = Told(s, id)
    PROVE  /\ t \in SubNode /\ t.gen = s.gen /\ t.latest = s.latest
           /\ t.subs = s.subs /\ t.pre = s.pre /\ t.waiting = s.waiting
           /\ Reached(t) = Reached(s) /\ KnownIds(t, g)
           /\ t.post[id] = "signalled" /\ \A y \in Id : y # id => t.post[y] = s.post[y]
  <1> DEFINE P == {"absent", "empty", "signalled"}
  <1>1. s.post \in [Id -> P] /\ [s.post EXCEPT ![id] = "signalled"] \in [Id -> P]
    BY DEF SubNode
  <1>2. t = [s EXCEPT !.post = [s.post EXCEPT ![id] = "signalled"]]
    BY DEF Told
  <1>3. /\ t \in SubNode /\ t.post = [s.post EXCEPT ![id] = "signalled"] /\ t.latest = s.latest
        /\ t.gen = s.gen /\ t.subs = s.subs /\ t.pre = s.pre /\ t.waiting = s.waiting
    BY <1>1, <1>2 DEF SubNode
  <1>4. t.post[id] = "signalled" /\ \A y \in Id : y # id => t.post[y] = s.post[y]
    BY <1>1, <1>3
  <1>5. Reached(t) = Reached(s)
    BY <1>3 DEF Reached
  <1>6. KnownIds(t, g)
    BY SMTT(30), <1>3, <1>4 DEF KnownIds
  <1> QED
    BY <1>3, <1>4, <1>5, <1>6

\* The pre-action channel and the lock on it change, the entries stay.
SameEntries(s, t) ==
    /\ t \in SubNode /\ t.latest = s.latest /\ t.gen = s.gen
    /\ t.subs = s.subs /\ t.post = s.post

\* What depends on the entries stays.
LEMMA SubSame ==
    ASSUME NEW s, NEW t, SameEntries(s, t)
    PROVE  Reached(t) = Reached(s) /\ \A g : KnownIds(s, g) => KnownIds(t, g)
  BY SMTT(30) DEF SameEntries, Reached, KnownIds

-----------------------------------------------------------------------------
(* What the calls change in a conversation *)

\* The numbers of the two nodes.
LEMMA Numbers ==
    ASSUME Sized, NEW i, NEW r, NEW ci, NEW cr, Conversations(i, r, ci, cr)
    PROVE  /\ Reached(i) \in Nat /\ r.gen \in Nat
           /\ Reached(i) = r.gen \/ (r.waiting /\ Reached(i) = r.gen - 1)
  <1>1. i \in SubNode /\ r \in SubNode
    BY DEF Conversations, Nodes
  <1>2. Reached(i) \in Nat /\ r.gen \in Nat
    BY SMTT(30), <1>1 DEF Reached, SubNode, Sized
  <1> QED
    BY <1>2 DEF Conversations, Turn

\* Streams may lose packets, and gain packets that the nodes can take.
LEMMA Restreamed ==
    ASSUME NEW i, NEW r, NEW ci, NEW cr, NEW di, NEW dr, Conversations(i, r, ci, cr),
           ToInitiator(i, r, di), ToReceiver(i, r, dr),
           \A p \in di : p.type = "PreCreate" => p \in ci,
           \A p \in dr : p.type = "PreCreate" => p \in cr
    PROVE  Conversations(i, r, di, dr)
  <1>1. Turn(i, r, di, dr)
    BY DEF Conversations, Turn, NoPreCreate
  <1> QED
    BY <1>1 DEF Conversations

\* Packets that are left in the streams can be taken as before.
LEMMA Shrunk ==
    ASSUME NEW i, NEW r, NEW ci, NEW cr, NEW di, NEW dr, Conversations(i, r, ci, cr),
           di \subseteq ci, dr \subseteq cr
    PROVE  Conversations(i, r, di, dr)
  <1>1. ToInitiator(i, r, di) /\ ToReceiver(i, r, dr)
    BY DEF Conversations, ToInitiator, ToReceiver
  <1> QED
    BY <1>1, Restreamed

\* An entry of the receiver moves on.
LEMMA MarkedReceiver ==
    ASSUME NEW i, NEW r, NEW ci, NEW cr, Conversations(i, r, ci, cr), NEW id \in Id,
           NEW x \in Sub, x # "reserved", r.subs[id] \notin {"absent", "reserved"},
           r.waiting => id # r.gen, NEW u, u = Marked(r, id, x), Closing(i, u, id),
           \A p \in ci \cup cr : p.type = "PostDrop" /\ p.id = id => x = "sent"
    PROVE  Conversations(i, u, ci, cr)
  <1>1. r \in SubNode /\ KnownIds(r, r.gen)
    BY DEF Conversations, Nodes
  <1>2. /\ u.gen = r.gen /\ u.latest = r.latest
        /\ u.post = r.post /\ u.pre = r.pre /\ u.waiting = r.waiting
        /\ u.subs[id] = x /\ \A y \in Id : y # id => u.subs[y] = r.subs[y]
    BY SMTT(30), <1>1, SubMarked
  <1>3. u \in SubNode /\ Reached(u) = Reached(r) /\ KnownIds(u, r.gen)
    BY SMTT(30), <1>1, SubMarked
  <1>4. ASSUME NEW y \in Id PROVE Closing(i, u, y)
    <2>1. Closing(i, r, y)
      BY DEF Conversations, Nodes
    <2>2. CASE y # id
      BY <1>2, <2>1, <2>2 DEF Closing
    <2> QED
      BY <2>2
  <1>5. Nodes(i, u)
    BY <1>2, <1>3, <1>4 DEF Conversations, Nodes
  <1>6. Turn(i, u, ci, cr)
    BY <1>2 DEF Conversations, Turn
  <1>7. ToInitiator(i, u, ci)
    BY <1>2, Ids DEF Conversations, ToInitiator
  <1>8. ToReceiver(i, u, cr)
    BY <1>2, Ids DEF Conversations, ToReceiver
  <1> QED
    BY <1>5, <1>6, <1>7, <1>8 DEF Conversations

\* An entry of the initiator moves on.
LEMMA MarkedInitiator ==
    ASSUME NEW i, NEW r, NEW ci, NEW cr, Conversations(i, r, ci, cr), NEW id \in Id,
           NEW x \in Sub, x # "reserved", i.subs[id] \notin {"absent", "reserved"},
           NEW j, j = Marked(i, id, x), Closing(j, r, id)
    PROVE  Conversations(j, r, ci, cr)
  <1>1. i \in SubNode /\ KnownIds(i, Reached(i))
    BY DEF Conversations, Nodes
  <1>2. /\ j.latest = i.latest /\ j.post = i.post /\ j.pre = i.pre /\ j.waiting = i.waiting
        /\ Reached(j) = Reached(i) /\ \A y \in Id : y # id => j.subs[y] = i.subs[y]
    BY SMTT(30), <1>1, SubMarked
  <1>3. j \in SubNode /\ KnownIds(j, Reached(i))
    BY <1>1, SubMarked
  <1>4. ASSUME NEW y \in Id PROVE Closing(j, r, y)
    <2>1. Closing(i, r, y)
      BY DEF Conversations, Nodes
    <2>2. CASE y # id
      BY <1>2, <2>1, <2>2 DEF Closing
    <2> QED
      BY <2>2
  <1>5. Nodes(j, r)
    BY <1>2, <1>3, <1>4 DEF Conversations, Nodes
  <1>6. Turn(j, r, ci, cr)
    BY <1>2 DEF Conversations, Turn
  <1>7. ToInitiator(j, r, ci)
    BY <1>2 DEF Conversations, ToInitiator
  <1>8. ToReceiver(j, r, cr)
    BY <1>2, Ids DEF Conversations, ToReceiver
  <1> QED
    BY <1>5, <1>6, <1>7, <1>8 DEF Conversations

\* The receiver is signalled the end of a conversation nothing is on its way of.
LEMMA ToldReceiver ==
    ASSUME NEW i, NEW r, NEW ci, NEW cr, Conversations(i, r, ci, cr), NEW id \in Id,
           r.post[id] = "empty", r.waiting => id # r.gen, NEW u, u = Told(r, id),
           Closing(i, u, id), \A p \in cr : p.id = id => p.type = "PreCreate"
    PROVE  Conversations(i, u, ci, cr)
  <1>1. r \in SubNode /\ KnownIds(r, r.gen)
    BY DEF Conversations, Nodes
  <1>2. /\ u.gen = r.gen /\ u.latest = r.latest
        /\ u.subs = r.subs /\ u.pre = r.pre /\ u.waiting = r.waiting
        /\ \A y \in Id : y # id => u.post[y] = r.post[y]
    BY SMTT(30), <1>1, SubTold
  <1>3. u \in SubNode /\ Reached(u) = Reached(r) /\ KnownIds(u, r.gen)
    BY SMTT(30), <1>1, SubTold
  <1>4. ASSUME NEW y \in Id PROVE Closing(i, u, y)
    <2>1. Closing(i, r, y)
      BY DEF Conversations, Nodes
    <2>2. CASE y # id
      BY <1>2, <2>1, <2>2 DEF Closing
    <2> QED
      BY <2>2
  <1>5. Nodes(i, u)
    BY <1>2, <1>3, <1>4 DEF Conversations, Nodes
  <1>6. Turn(i, u, ci, cr)
    BY SMTT(30), <1>2 DEF Conversations, Turn
  <1>7. ToInitiator(i, u, ci)
    BY <1>2 DEF Conversations, ToInitiator
  <1>8. ToReceiver(i, u, cr)
    BY <1>2, Ids DEF Conversations, ToReceiver
  <1> QED
    BY <1>5, <1>6, <1>7, <1>8 DEF Conversations

\* The initiator is signalled the end of a conversation nothing is on its way of.
LEMMA ToldInitiator ==
    ASSUME NEW i, NEW r, NEW ci, NEW cr, Conversations(i, r, ci, cr), NEW id \in Id,
           i.post[id] = "empty", NEW j, j = Told(i, id),
           Closing(j, r, id), \A p \in ci : p.id = id => p.type = "PreCreate"
    PROVE  Conversations(j, r, ci, cr)
  <1>1. i \in SubNode /\ KnownIds(i, Reached(i))
    BY DEF Conversations, Nodes
  <1>2. /\ j.latest = i.latest /\ j.subs = i.subs /\ j.pre = i.pre /\ j.waiting = i.waiting
        /\ Reached(j) = Reached(i) /\ \A y \in Id : y # id => j.post[y] = i.post[y]
    BY SMTT(30), <1>1, SubTold
  <1>3. j \in SubNode /\ KnownIds(j, Reached(i)) /\ j.post[id] = "signalled"
    BY SMTT(30), <1>1, SubTold
  <1>4. ASSUME NEW y \in Id PROVE Closing(j, r, y)
    <2>1. Closing(i, r, y)
      BY DEF Conversations, Nodes
    <2>2. CASE y # id
      BY <1>2, <2>1, <2>2 DEF Closing
    <2> QED
      BY <2>2
  <1>5. Nodes(j, r)
    BY <1>2, <1>3, <1>4 DEF Conversations, Nodes
  <1>6. Turn(j, r, ci, cr)
    BY <1>2 DEF Conversations, Turn
  <1>7. ToInitiator(j, r, ci)
    BY <1>2, Ids DEF Conversations, ToInitiator
  <1>8. ToReceiver(j, r, cr)
    BY <1>2, <1>3, Ids DEF Conversations, ToReceiver
  <1> QED
    BY <1>5, <1>6, <1>7, <1>8 DEF Conversations

\* The initiator takes a reserved conversation.
LEMMA TakenInitiator ==
    ASSUME Sized, NEW i, NEW r, NEW ci, NEW cr, Conversations(i, r, ci, cr),
           Reserved(i), ~i.waiting, NEW j, j = Taken(i)
    PROVE  Conversations(j, r, ci, cr)
  <1>1. i \in SubNode /\ KnownIds(i, Reached(i))
    BY DEF Conversations, Nodes
  <1>2. /\ j.post = i.post /\ j.pre = i.pre /\ j.waiting = i.waiting /\ Reached(j) = Reached(i)
        /\ \A x \in Id : j.subs[x] = i.subs[x] \/ (i.subs[x] = "reserved" /\ j.subs[x] = "open")
    BY SMTT(30), <1>1, SubTaken
  <1>3. j \in SubNode /\ KnownIds(j, Reached(j))
    BY <1>1, SubTaken
  <1>4. \A x \in Id : Closing(j, r, x)
    BY SMTT(30), <1>2 DEF Conversations, Nodes, Closing
  <1>5. Nodes(j, r)
    BY <1>3, <1>4 DEF Conversations, Nodes
  <1>6. Turn(j, r, ci, cr)
    BY <1>2 DEF Conversations, Turn
  <1>7. ToInitiator(j, r, ci)
    BY <1>2 DEF Conversations, ToInitiator
  <1>8. ToReceiver(j, r, cr)
    BY SMTT(30), <1>2, Ids DEF Conversations, ToReceiver
  <1> QED
    BY <1>5, <1>6, <1>7, <1>8 DEF Conversations

\* The receiver takes a reserved conversation.
LEMMA TakenReceiver ==
    ASSUME Sized, NEW i, NEW r, NEW ci, NEW cr, Conversations(i, r, ci, cr),
           Reserved(r), ~r.waiting, NEW u, u = Taken(r)
    PROVE  Conversations(i, u, ci, cr)
  <1>1. r \in SubNode /\ KnownIds(r, Reached(r)) /\ r.gen = Reached(r)
    BY DEF Conversations, Nodes
  <1>2. /\ u.gen = r.gen /\ u.post = r.post /\ u.pre = r.pre /\ u.waiting = r.waiting
        /\ \A x \in Id : u.subs[x] = r.subs[x] \/ (r.subs[x] = "reserved" /\ u.subs[x] = "open")
    BY SMTT(30), <1>1, SubTaken
  <1>3. u \in SubNode /\ KnownIds(u, Reached(u)) /\ Reached(u) = Reached(r)
    BY <1>1, SubTaken
  <1>4. \A x \in Id : Closing(i, u, x)
    BY <1>2 DEF Conversations, Nodes, Closing
  <1>5. Nodes(i, u)
    BY <1>1, <1>2, <1>3, <1>4 DEF Conversations, Nodes
  <1>6. Turn(i, u, ci, cr)
    BY <1>2 DEF Conversations, Turn
  <1>7. ToInitiator(i, u, ci)
    BY <1>2, Ids DEF Conversations, ToInitiator
  <1>8. ToReceiver(i, u, cr)
    BY SMTT(30), <1>2, Ids DEF Conversations, ToReceiver
  <1> QED
    BY <1>5, <1>6, <1>7, <1>8 DEF Conversations

\* The pre-action channel or the lock of the initiator changes.
LEMMA SyncedInitiator ==
    ASSUME NEW i, NEW r, NEW ci, NEW cr, Conversations(i, r, ci, cr), NEW di,
           NEW j, SameEntries(i, j), di \subseteq ci, Turn(j, r, di, cr)
    PROVE  Conversations(j, r, di, cr)
  <1>1. Reached(j) = Reached(i) /\ KnownIds(j, Reached(j))
    BY SubSame DEF Conversations, Nodes
  <1>2. Nodes(j, r)
    BY <1>1 DEF Conversations, Nodes, Closing, SameEntries
  <1>3. ToInitiator(j, r, di) /\ ToReceiver(j, r, cr)
    BY <1>1 DEF Conversations, ToInitiator, ToReceiver, SameEntries
  <1> QED
    BY <1>2, <1>3 DEF Conversations

\* The pre-action channel or the lock of the receiver changes.
LEMMA SyncedReceiver ==
    ASSUME NEW i, NEW r, NEW ci, NEW cr, Conversations(i, r, ci, cr), NEW dr,
           NEW u, SameEntries(r, u), dr \subseteq cr, Turn(i, u, ci, dr)
    PROVE  Conversations(i, u, ci, dr)
  <1>1. Reached(u) = Reached(r) /\ KnownIds(u, r.gen) /\ u.gen = r.gen
    BY SubSame DEF Conversations, Nodes, SameEntries
  <1>2. Nodes(i, u)
    BY <1>1 DEF Conversations, Nodes, Closing, SameEntries
  <1>3. ToInitiator(i, u, ci) /\ ToReceiver(i, u, dr)
    BY DEF Conversations, ToInitiator, ToReceiver, SameEntries
  <1> QED
    BY <1>2, <1>3 DEF Conversations

\* A call of the initiator waits for a number: it has gone through the reserved ones.
LEMMA WaitingInitiator ==
    ASSUME Sized, NEW i, NEW r, NEW ci, NEW cr, Conversations(i, r, ci, cr), ~Reserved(i),
           NEW j, j = [i EXCEPT !.waiting = TRUE]
    PROVE  Conversations(j, r, ci, cr)
  <1>1. i \in SubNode /\ KnownIds(i, Reached(i))
    BY DEF Conversations, Nodes
  <1>2. SameEntries(i, j) /\ j.pre = i.pre /\ j.latest = i.latest
    BY <1>1 DEF SubNode, SameEntries
  <1>3. i.latest >= Capacity /\ Reached(j) = Reached(i)
    BY <1>1, <1>2, SubUnreserved, SubSame
  <1>4. Turn(j, r, ci, cr)
    BY <1>2, <1>3 DEF Conversations, Turn
  <1> QED
    BY <1>2, <1>4, SyncedInitiator

\* The call of the receiver returns with the number it has given.
LEMMA OpenedByReceiver ==
    ASSUME NEW i, NEW r, NEW ci, NEW cr, Conversations(i, r, ci, cr), r.waiting, r.pre # <<>>,
           NEW u, u = [r EXCEPT !.pre = Tail(@), !.waiting = FALSE]
    PROVE  Head(r.pre) = r.gen /\ Conversations(i, u, ci, cr)
  <1>1. r \in SubNode
    BY DEF Conversations, Nodes
  <1>2. /\ Reached(i) = r.gen /\ NoPreCreate(ci) /\ NoPreCreate(cr) /\ i.pre = <<>>
        /\ r.pre = <<r.gen>> /\ (i.waiting => i.latest >= Capacity)
    BY DEF Conversations, Turn
  <1>3. Head(r.pre) = r.gen /\ Tail(r.pre) = <<>>
    BY SMTT(30), <1>2
  <1>4. SameEntries(r, u) /\ u.gen = r.gen /\ u.pre = <<>> /\ ~u.waiting
    <2>1. u = [r EXCEPT !.pre = <<>>, !.waiting = FALSE] /\ <<>> \in Seq(Id)
      BY <1>1, <1>3, NoStream
    <2> QED
      BY <1>1, <2>1 DEF SubNode, SameEntries
  <1>5. Turn(i, u, ci, cr)
    BY <1>2, <1>4 DEF Turn
  <1> QED
    BY <1>3, <1>4, <1>5, SyncedReceiver

\* The initiator is offered the number the receiver has given.
LEMMA OfferedInitiator ==
    ASSUME NEW i, NEW r, NEW ci, NEW cr, Conversations(i, r, ci, cr), NEW di, NEW p,
           ci = {p} \cup di, p.type = "PreCreate", NoPreCreate(di), i.pre = <<>>,
           NEW j, j = [i EXCEPT !.pre = Append(@, p.id)]
    PROVE  Conversations(j, r, di, cr)
  <1>1. i \in SubNode /\ p.id \in Id
    BY Ids DEF Conversations, Nodes, ToInitiator
  <1>2. Append(i.pre, p.id) = <<p.id>> /\ <<p.id>> \in Seq(Id)
    BY SMTT(30), <1>1
  <1>3. /\ r.waiting /\ Reached(i) = r.gen - 1 /\ NoPreCreate(cr) /\ r.pre = <<>> /\ p.id = r.gen
        /\ (i.waiting => i.latest >= Capacity) /\ r.gen \in Id
        /\ r.latest = r.gen /\ r.subs[r.gen] = "open" /\ r.post[r.gen] = "empty"
    BY DEF Conversations, Turn, NoPreCreate
  <1>4. SameEntries(i, j) /\ j.latest = i.latest /\ j.pre = <<r.gen>> /\ j.waiting = i.waiting
    BY <1>1, <1>2, <1>3 DEF SubNode, SameEntries
  <1>5. Turn(j, r, di, cr)
    BY SMTT(30), <1>3, <1>4, SubSame DEF Turn
  <1> QED
    BY <1>4, <1>5, SyncedInitiator

\* The receiver is told that the initiator has opened the conversation.
LEMMA OfferedReceiver ==
    ASSUME NEW i, NEW r, NEW ci, NEW cr, Conversations(i, r, ci, cr), NEW dr, NEW p,
           cr = {p} \cup dr, p.type = "PreCreate", NoPreCreate(dr), r.pre = <<>>,
           NEW u, u = [r EXCEPT !.pre = Append(@, p.id)]
    PROVE  Conversations(i, u, ci, dr)
  <1>1. r \in SubNode /\ p.id \in Id
    BY Ids DEF Conversations, Nodes, ToReceiver
  <1>2. Append(r.pre, p.id) = <<p.id>> /\ <<p.id>> \in Seq(Id)
    BY SMTT(30), <1>1
  <1>3. /\ r.waiting /\ Reached(i) = r.gen /\ NoPreCreate(ci) /\ i.pre = <<>> /\ p.id = r.gen
        /\ (i.waiting => i.latest >= Capacity) /\ r.gen \in Id
        /\ r.latest = r.gen /\ r.subs[r.gen] = "open" /\ r.post[r.gen] = "empty"
    BY DEF Conversations, Turn, NoPreCreate
  <1>4. /\ SameEntries(r, u) /\ u.latest = r.latest /\ u.gen = r.gen /\ u.subs = r.subs
        /\ u.post = r.post /\ u.pre = <<r.gen>> /\ u.waiting = r.waiting
    BY <1>1, <1>2, <1>3 DEF SubNode, SameEntries
  <1>5. Turn(i, u, ci, dr)
    BY <1>3, <1>4 DEF Turn
  <1> QED
    BY <1>4, <1>5, SyncedReceiver

\* preaction_sync of the receiver: the next number, and the lock.
Numbered(s, id) == [Subscribed(s, id) EXCEPT !.gen = id, !.waiting = TRUE]

\* The receiver numbers the next conversation and tells the initiator.
LEMMA NumberedByReceiver ==
    ASSUME Sized, NEW i, NEW r, NEW ci, NEW cr, Conversations(i, r, ci, cr),
           ~r.waiting, ~Reserved(r), NEW id \in Id, id = r.gen + 1, NEW u, u = Numbered(r, id),
           NEW q \in SubPacket, q.type = "PreCreate", q.id = id, NEW c, c = ci \cup {q}
    PROVE  /\ SubscribeFaults(r, id) = {} /\ Conversations(i, u, c, cr)
           /\ \A p \in ci : <<p, q>> \in Follows
  <1> DEFINE v == Subscribed(r, id)
  <1>1. r \in SubNode /\ KnownIds(r, r.gen) /\ r.gen = Reached(r)
    BY DEF Conversations, Nodes
  <1>2. r.latest >= Capacity /\ r.gen = r.latest
    BY <1>1, SubUnreserved
  <1>3. /\ NoPreCreate(ci) /\ NoPreCreate(cr) /\ i.pre = <<>> /\ r.pre = <<>>
        /\ Reached(i) = r.gen /\ (i.waiting => i.latest >= Capacity)
    BY DEF Conversations, Turn
  <1>4. /\ SubscribeFaults(r, id) = {} /\ v \in SubNode /\ v.latest = id /\ v.pre = r.pre
        /\ r.subs[id] = "absent" /\ r.post[id] = "absent"
        /\ v.subs[id] = "open" /\ v.post[id] = "empty"
        /\ \A x \in Id : x # id => v.subs[x] = r.subs[x] /\ v.post[x] = r.post[x]
        /\ Reached(v) = id /\ KnownIds(v, id)
    BY SMTT(30), <1>1, <1>2, SubSubscribed
  <1>5. r.gen \in Nat /\ id \in Nat /\ id \in Capacity..MaxId
    BY SMTT(30), <1>1, <1>2, Ids DEF SubNode, Id, Sized
  <1> HIDE DEF v
  <1>6. /\ u \in SubNode /\ u.latest = v.latest /\ u.gen = id /\ u.waiting
        /\ u.subs = v.subs /\ u.post = v.post /\ u.pre = v.pre
    BY <1>4, <1>5 DEF SubNode, Numbered, v
  <1>7. Reached(u) = id /\ KnownIds(u, id)
    BY <1>4, <1>6 DEF Reached, KnownIds
  <1>8. i.post[id] = "absent" /\ i.subs[id] = "absent" /\ ~(id <= Reached(i))
    BY SMTT(30), <1>3, <1>5 DEF Conversations, Nodes, KnownIds
  <1>9. ASSUME NEW x \in Id PROVE Closing(i, u, x)
    <2>1. Closing(i, r, x)
      BY DEF Conversations, Nodes
    <2>2. CASE x = id
      <3>1. /\ u.subs[x] = "open" /\ u.post[x] = "empty" /\ i.subs[x] = "absent"
            /\ i.post[x] = "absent" /\ ~(x <= Reached(i))
        BY <1>4, <1>6, <1>8, <2>2
      <3> QED
        BY <3>1 DEF Closing
    <2>3. CASE x # id
      <3>0. u.gen = id
        BY <1>6
      <3>1. x <= u.gen => x <= r.gen
        BY SMTT(30), <1>5, <2>3, <3>0, Ids
      <3>2. u.subs[x] = r.subs[x] /\ u.post[x] = r.post[x]
        BY <1>4, <1>6, <2>3
      <3> QED
        BY <2>1, <3>1, <3>2 DEF Closing
    <2> QED
      BY <2>2, <2>3
  <1>10. Nodes(i, u)
    BY <1>6, <1>7, <1>9 DEF Conversations, Nodes
  <1>11. Turn(i, u, c, cr)
    <2>1. Reached(i) = u.gen - 1 /\ u.pre = <<>> /\ u.waiting /\ u.gen \in Id
      BY SMTT(30), <1>3, <1>4, <1>5, <1>6
    <2>2. \A p \in c : p.type = "PreCreate" => p.id = u.gen
      BY <1>3, <1>6 DEF NoPreCreate
    <2>3. u.latest = u.gen /\ u.subs[u.gen] = "open" /\ u.post[u.gen] = "empty"
      BY <1>4, <1>6
    <2>4. /\ u.waiting /\ Reached(i) = u.gen - 1 /\ NoPreCreate(cr) /\ u.pre = <<>>
          /\ i.pre = <<>> /\ \A p \in c : p.type = "PreCreate" => p.id = u.gen
      BY <1>3, <2>1, <2>2
    <2> QED
      BY <1>3, <2>1, <2>3, <2>4 DEF Turn
  <1>15. \A x \in Id : /\ r.subs[x] = "sent" => u.subs[x] = "sent"
                       /\ r.post[x] = "empty" => u.post[x] = "empty"
    BY <1>4, <1>6
  <1>12. ToInitiator(i, u, c)
    <2>1. ToInitiator(i, r, ci)
      BY DEF Conversations
    <2> QED
      BY <1>15, <2>1, Ids DEF ToInitiator
  <1>13. ToReceiver(i, u, cr)
    <2>1. ToReceiver(i, r, cr)
      BY DEF Conversations
    <2> QED
      BY <1>15, <2>1, Ids DEF ToReceiver
  <1>14. \A p \in ci : <<p, q>> \in Follows
    BY <1>3, SubFollows DEF NoPreCreate, Conversations, ToInitiator
  <1> QED
    BY <1>4, <1>10, <1>11, <1>12, <1>13, <1>14 DEF Conversations

\* preaction_sync of the initiator, once it has a number.
Entered(s, id) == [Subscribed(s, id) EXCEPT !.pre = Tail(@), !.waiting = FALSE]

\* The number the initiator is offered is its next one.
LEMMA OfferedNumber ==
    ASSUME Sized, NEW i, NEW r, NEW ci, NEW cr, Conversations(i, r, ci, cr), i.waiting, i.pre # <<>>
    PROVE  /\ i.pre = <<r.gen>> /\ Head(i.pre) = r.gen /\ Tail(i.pre) = <<>>
           /\ r.gen \in Id /\ r.gen = i.latest + 1 /\ i.latest >= Capacity
           /\ Reached(i) = i.latest /\ i.latest \in Nat
           /\ r.waiting /\ NoPreCreate(ci) /\ NoPreCreate(cr) /\ r.pre = <<>>
           /\ r.latest = r.gen /\ r.subs[r.gen] = "open" /\ r.post[r.gen] = "empty"
  <1>1. /\ r.waiting /\ Reached(i) = r.gen - 1 /\ NoPreCreate(ci) /\ NoPreCreate(cr)
        /\ r.pre = <<>> /\ i.pre = <<r.gen>> /\ i.latest >= Capacity /\ r.gen \in Id
        /\ r.latest = r.gen /\ r.subs[r.gen] = "open" /\ r.post[r.gen] = "empty"
    BY DEF Conversations, Turn
  <1>2. i.latest \in Nat /\ Capacity \in Nat
    BY SMTT(30) DEF Conversations, Nodes, SubNode, Sized
  <1>3. Reached(i) = i.latest
    BY SMTT(30), <1>1, <1>2 DEF Reached
  <1>4. r.gen = i.latest + 1
    BY SMTT(30), <1>1, <1>2, <1>3, Ids
  <1>5. Head(i.pre) = r.gen /\ Tail(i.pre) = <<>>
    BY SMTT(30), <1>1
  <1> QED
    BY <1>1, <1>2, <1>3, <1>4, <1>5

\* The initiator opens conversation id and sends q.
Opens(i, r, ci, cr, id, j, q, c) ==
    /\ Conversations(i, r, ci, cr) /\ i.waiting /\ i.pre # <<>> /\ id \in Id /\ id = r.gen
    /\ j = Entered(i, id) /\ q \in SubPacket /\ q.type = "PreCreate" /\ q.id = id
    /\ c = cr \cup {q}

\* It is the conversation the receiver has numbered.
LEMMA OpenedByInitiator ==
    ASSUME Sized, NEW i, NEW r, NEW ci, NEW cr, NEW id, NEW j, NEW q, NEW c,
           Opens(i, r, ci, cr, id, j, q, c)
    PROVE  /\ SubscribeFaults(i, id) = {} /\ Conversations(j, r, ci, c)
           /\ \A p \in cr : <<p, q>> \in Follows
  <1>0. /\ Conversations(i, r, ci, cr) /\ i.waiting /\ i.pre # <<>> /\ id \in Id /\ id = r.gen
        /\ j = Entered(i, id) /\ q \in SubPacket /\ q.type = "PreCreate" /\ q.id = id
        /\ c = cr \cup {q}
    BY DEF Opens
  <1> DEFINE v == Subscribed(i, id)
  <1>1. i \in SubNode /\ KnownIds(i, Reached(i))
    BY <1>0 DEF Conversations, Nodes
  <1>2. /\ id = r.gen /\ Tail(i.pre) = <<>> /\ id = i.latest + 1 /\ i.latest >= Capacity
        /\ Reached(i) = i.latest /\ i.latest \in Nat
    BY <1>0, OfferedNumber
  <1>3. /\ r.waiting /\ NoPreCreate(ci) /\ NoPreCreate(cr) /\ r.pre = <<>> /\ r.gen \in Id
        /\ r.latest = r.gen /\ r.subs[r.gen] = "open" /\ r.post[r.gen] = "empty"
    BY <1>0, OfferedNumber
  <1>4. /\ SubscribeFaults(i, id) = {} /\ v \in SubNode /\ v.latest = id /\ v.pre = i.pre
        /\ i.subs[id] = "absent" /\ i.post[id] = "absent"
        /\ v.subs[id] = "open" /\ v.post[id] = "empty"
        /\ \A x \in Id : x # id => v.subs[x] = i.subs[x] /\ v.post[x] = i.post[x]
        /\ Reached(v) = id /\ KnownIds(v, id)
    BY SMTT(30), <1>0, <1>1, <1>2, SubSubscribed
  <1> HIDE DEF v
  <1>5. SameEntries(v, j) /\ j.pre = <<>> /\ ~j.waiting
    <2>1. j = [v EXCEPT !.pre = <<>>, !.waiting = FALSE] /\ <<>> \in Seq(Id)
      BY <1>0, <1>2, <1>4, NoStream DEF Entered, v
    <2> QED
      BY <1>4, <2>1 DEF SubNode, SameEntries
  <1>6. /\ j \in SubNode /\ Reached(j) = id /\ KnownIds(j, id)
        /\ j.subs[id] = "open" /\ j.post[id] = "empty"
        /\ \A x \in Id : x # id => j.subs[x] = i.subs[x] /\ j.post[x] = i.post[x]
    <2>1. j \in SubNode /\ j.subs = v.subs /\ j.post = v.post
      BY <1>5 DEF SameEntries
    <2>2. Reached(j) = id /\ KnownIds(j, id)
      BY <1>4, <1>5, SubSame
    <2> QED
      BY <1>4, <2>1, <2>2
  <1>7. id <= id /\ \A x \in Id : x <= Reached(i) <=> x <= id /\ x # id
    BY SMTT(30), <1>0, <1>2, Ids
  <1>8. ASSUME NEW x \in Id PROVE Closing(j, r, x)
    <2>1. Closing(i, r, x)
      BY <1>0 DEF Conversations, Nodes
    <2>2. CASE x = id
      <3>1. /\ j.subs[x] = "open" /\ j.post[x] = "empty" /\ r.subs[x] = "open"
            /\ r.post[x] = "empty" /\ x <= Reached(j)
        BY <1>0, <1>2, <1>3, <1>6, <1>7, <2>2
      <3> QED
        BY <3>1 DEF Closing
    <2>3. CASE x # id
      <3>1. /\ j.subs[x] = i.subs[x] /\ j.post[x] = i.post[x]
            /\ x <= Reached(i) <=> x <= Reached(j)
        BY <1>6, <1>7, <2>3
      <3> QED
        BY <2>1, <3>1 DEF Closing
    <2> QED
      BY <2>2, <2>3
  <1>9. Nodes(j, r)
    BY <1>0, <1>6, <1>8 DEF Conversations, Nodes
  <1>10. Turn(j, r, ci, c)
    <2>1. \A p \in c : p.type = "PreCreate" => p.id = r.gen
      BY <1>0, <1>3 DEF NoPreCreate
    <2>2. /\ r.waiting /\ Reached(j) = r.gen /\ NoPreCreate(ci) /\ j.pre = <<>>
          /\ r.pre = <<>> /\ \A p \in c : p.type = "PreCreate" => p.id = r.gen
      BY <1>2, <1>3, <1>5, <1>6, <2>1
    <2> QED
      BY <1>3, <1>5, <2>2 DEF Turn
  <1>14. \A x \in Id : /\ x <= Reached(i) => x <= Reached(j)
                       /\ i.post[x] = "empty" => j.post[x] = "empty"
                       /\ i.post[x] = "signalled" => j.post[x] = "signalled"
                       /\ i.post[x] = "signalled" => j.subs[x] = i.subs[x]
    BY <1>4, <1>6, <1>7
  <1>11. ToInitiator(j, r, ci)
    <2>1. ToInitiator(i, r, ci)
      BY <1>0 DEF Conversations
    <2> QED
      BY <1>14, <2>1, Ids DEF ToInitiator
  <1>12. ToReceiver(j, r, c)
    <2>1. ToReceiver(i, r, cr)
      BY <1>0 DEF Conversations
    <2>2. \A p \in cr : p \in SubPacket /\ p.id \in Id
      BY <2>1, Ids DEF ToReceiver
    <2> QED
      BY SMTT(30), <1>0, <1>14, <2>1, <2>2 DEF ToReceiver
  <1>13. \A p \in cr : <<p, q>> \in Follows
    BY <1>0, <1>3, SubFollows DEF NoPreCreate, Conversations, ToReceiver
  <1> QED
    BY <1>4, <1>9, <1>10, <1>11, <1>12, <1>13 DEF Conversations

\* What the initiator may use, the receiver knows and has not been told the end of.
LEMMA UsableInitiator ==
    ASSUME Sized, NEW i, NEW r, NEW ci, NEW cr, Conversations(i, r, ci, cr),
           NEW id \in Id, i.subs[id] \notin {"absent", "reserved"}
    PROVE  id <= Reached(i) /\ id <= r.gen /\ r.post[id] = "empty"
  <1>1. /\ r \in SubNode /\ KnownIds(i, Reached(i)) /\ KnownIds(r, r.gen) /\ Closing(i, r, id)
    BY DEF Conversations, Nodes
  <1>2. Reached(i) \in Nat /\ r.gen \in Nat /\ Reached(i) <= r.gen /\ id \in Nat
    BY SMTT(30), Numbers, Ids
  <1>3. id <= Reached(i)
    BY SMTT(30), <1>1, <1>2 DEF KnownIds
  <1>4. id <= r.gen
    BY SMTT(30), <1>2, <1>3
  <1>5. r.post[id] # "absent" /\ r.post[id] # "signalled"
    BY <1>1, <1>4 DEF KnownIds, Closing
  <1>6. r.post[id] \in {"absent", "empty", "signalled"}
    BY <1>1 DEF SubNode
  <1> QED
    BY <1>3, <1>4, <1>5, <1>6

\* What the receiver may use, the initiator has opened and has not been told the end of.
LEMMA UsableReceiver ==
    ASSUME Sized, NEW i, NEW r, NEW ci, NEW cr, Conversations(i, r, ci, cr),
           NEW id \in Id, r.subs[id] \in {"open", "closing"}, r.waiting => id # r.gen
    PROVE  id <= Reached(i) /\ i.post[id] = "empty"
  <1>1. /\ i \in SubNode /\ KnownIds(i, Reached(i)) /\ KnownIds(r, r.gen) /\ Closing(i, r, id)
    BY DEF Conversations, Nodes
  <1>2. Reached(i) \in Nat /\ r.gen \in Nat /\ id \in Nat
    BY Numbers, Ids
  <1>3. Reached(i) = r.gen \/ (r.waiting /\ Reached(i) = r.gen - 1)
    BY Numbers
  <1>4. id <= r.gen
    BY SMTT(30), <1>1, <1>2 DEF KnownIds
  <1>5. id <= Reached(i)
    BY SMTT(30), <1>2, <1>3, <1>4
  <1>6. i.post[id] # "absent" /\ i.post[id] # "signalled"
    BY <1>1, <1>5 DEF KnownIds, Closing
  <1>7. i.post[id] \in {"absent", "empty", "signalled"}
    BY <1>1 DEF SubNode
  <1> QED
    BY <1>5, <1>6, <1>7

\* A message of the initiator joins the stream to the receiver.
LEMMA SentByInitiator ==
    ASSUME Sized, NEW i, NEW r, NEW ci, NEW cr, Conversations(i, r, ci, cr), NEW id \in Id,
           i.subs[id] = "open", NEW q \in SubPacket, q.type = "ApplicationLayer", q.id = id,
           NEW c, c = cr \cup {q}
    PROVE  Conversations(i, r, ci, c) /\ \A p \in cr : <<p, q>> \in Follows
  <1>1. id <= Reached(i) /\ r.post[id] = "empty"
    BY UsableInitiator
  <1>2. ToInitiator(i, r, ci) /\ ToReceiver(i, r, cr)
    BY DEF Conversations
  <1>3. ToReceiver(i, r, c)
    BY <1>1, <1>2 DEF ToReceiver
  <1>4. \A p \in cr : <<p, q>> \in Follows
    BY <1>2, SubFollows DEF ToReceiver
  <1>5. Conversations(i, r, ci, c)
    BY <1>2, <1>3, Restreamed
  <1> QED
    BY <1>4, <1>5

\* A message of the receiver joins the stream to the initiator.
LEMMA SentByReceiver ==
    ASSUME Sized, NEW i, NEW r, NEW ci, NEW cr, Conversations(i, r, ci, cr), NEW id \in Id,
           r.subs[id] = "open", r.waiting => id # r.gen,
           NEW q \in SubPacket, q.type = "ApplicationLayer", q.id = id, NEW c, c = ci \cup {q}
    PROVE  Conversations(i, r, c, cr) /\ \A p \in ci : <<p, q>> \in Follows
  <1>1. id <= Reached(i) /\ i.post[id] = "empty"
    BY UsableReceiver
  <1>2. ToInitiator(i, r, ci) /\ ToReceiver(i, r, cr)
    BY DEF Conversations
  <1>3. ToInitiator(i, r, c)
    BY <1>1, <1>2 DEF ToInitiator
  <1>4. \A p \in ci : <<p, q>> \in Follows
    BY <1>2, SubFollows DEF ToInitiator
  <1>5. Conversations(i, r, c, cr)
    BY <1>2, <1>3, Restreamed
  <1> QED
    BY <1>4, <1>5

\* The initiator drops a subscription.
LEMMA DroppedByInitiator ==
    ASSUME NEW i, NEW r, NEW ci, NEW cr, Conversations(i, r, ci, cr), NEW id \in Id,
           i.subs[id] = "open", NEW j, j = Marked(i, id, "closing")
    PROVE  Conversations(j, r, ci, cr)
  <1>1. i \in SubNode /\ KnownIds(i, Reached(i)) /\ Closing(i, r, id)
    BY DEF Conversations, Nodes
  <1>2. "closing" \in Sub /\ i.subs[id] \notin {"absent", "reserved"} /\ "closing" # "reserved"
    BY DEF Sub
  <1>3. j.post = i.post /\ Reached(j) = Reached(i) /\ j.subs[id] = "closing"
    BY SMTT(30), <1>1, <1>2, SubMarked
  <1>4. Closing(j, r, id)
    BY <1>1, <1>3 DEF Closing
  <1> QED
    BY <1>2, <1>4, MarkedInitiator

\* No PostDrop of a conversation is on its way before the receiver has sent its own.
LEMMA NothingSent ==
    ASSUME NEW i, NEW r, NEW ci, NEW cr, Conversations(i, r, ci, cr), NEW id \in Id,
           r.subs[id] # "sent"
    PROVE  \A p \in ci \cup cr : ~(p.type = "PostDrop" /\ p.id = id)
  BY DEF Conversations, ToInitiator, ToReceiver

\* The receiver drops a subscription.
LEMMA DroppedByReceiver ==
    ASSUME Sized, NEW i, NEW r, NEW ci, NEW cr, Conversations(i, r, ci, cr), NEW id \in Id,
           r.subs[id] = "open", r.waiting => id # r.gen, NEW u, u = Marked(r, id, "closing")
    PROVE  Conversations(i, u, ci, cr)
  <1>1. r \in SubNode /\ KnownIds(r, r.gen) /\ Closing(i, r, id) /\ id <= Reached(i)
    BY UsableReceiver DEF Conversations, Nodes
  <1>2. "closing" \in Sub /\ r.subs[id] \notin {"absent", "reserved"} /\ "closing" # "reserved"
    BY DEF Sub
  <1>3. u.post = r.post /\ u.gen = r.gen /\ u.subs[id] = "closing"
    BY SMTT(30), <1>1, <1>2, SubMarked
  <1>4. Closing(i, u, id)
    BY <1>1, <1>3 DEF Closing
  <1>5. \A p \in ci \cup cr : p.type = "PostDrop" /\ p.id = id => "closing" = "sent"
    BY SMTT(30), NothingSent
  <1> QED
    BY <1>2, <1>4, <1>5, MarkedReceiver

\* While the receiver waits, the conversation it waits for is open.
LEMMA OpenWhileWaiting ==
    ASSUME NEW i, NEW r, NEW ci, NEW cr, Conversations(i, r, ci, cr),
           NEW id \in Id, r.subs[id] # "open"
    PROVE  r.waiting => id # r.gen
  BY DEF Conversations, Turn

\* The receiver, its subscription dropped, sends q.
Ends(i, r, ci, cr, id, u, q, c) ==
    /\ Conversations(i, r, ci, cr) /\ id \in Id /\ r.subs[id] = "closing"
    /\ u = Marked(r, id, "sent") /\ q \in SubPacket /\ q.type = "PostDrop" /\ q.id = id
    /\ c = ci \cup {q}

\* The receiver tells the initiator that it has dropped the conversation.
LEMMA EndedByReceiver ==
    ASSUME Sized, NEW i, NEW r, NEW ci, NEW cr, NEW id, NEW u, NEW q, NEW c,
           Ends(i, r, ci, cr, id, u, q, c)
    PROVE  Conversations(i, u, c, cr) /\ \A p \in ci : <<p, q>> \in Follows
  <1>0. /\ Conversations(i, r, ci, cr) /\ id \in Id /\ r.subs[id] = "closing"
        /\ u = Marked(r, id, "sent") /\ q \in SubPacket /\ q.type = "PostDrop" /\ q.id = id
        /\ c = ci \cup {q}
    BY DEF Ends
  <1>1. r.waiting => id # r.gen
    BY <1>0, OpenWhileWaiting
  <1>2. /\ r \in SubNode /\ KnownIds(r, r.gen) /\ Closing(i, r, id) /\ id <= Reached(i)
        /\ i.post[id] = "empty"
    BY <1>0, <1>1, UsableReceiver DEF Conversations, Nodes
  <1>3. "sent" \in Sub /\ r.subs[id] \notin {"absent", "reserved"} /\ "sent" # "reserved"
    BY <1>0 DEF Sub
  <1>4. u.post = r.post /\ u.gen = r.gen /\ u.subs[id] = "sent"
    BY SMTT(30), <1>0, <1>2, <1>3, SubMarked
  <1>5. Closing(i, u, id)
    BY <1>0, <1>2, <1>4 DEF Closing
  <1>6. \A p \in ci \cup cr : ~(p.type = "PostDrop" /\ p.id = id)
    BY SMTT(30), <1>0, NothingSent
  <1>7. Conversations(i, u, ci, cr)
    BY <1>0, <1>1, <1>3, <1>5, <1>6, MarkedReceiver
  <1>8. ToInitiator(i, u, ci) /\ ToReceiver(i, u, cr)
    BY <1>7 DEF Conversations
  <1>9. ToInitiator(i, u, c)
    BY <1>0, <1>2, <1>4, <1>8 DEF ToInitiator
  <1>10. Conversations(i, u, c, cr)
    BY <1>0, <1>7, <1>8, <1>9, Restreamed
  <1>11. \A p \in ci : <<p, q>> \in Follows
    BY <1>0, <1>6, <1>8, SubFollows DEF ToInitiator
  <1> QED
    BY <1>10, <1>11

\* The receiver forgets the conversation, the initiator having answered.
LEMMA ForgottenByReceiver ==
    ASSUME NEW i, NEW r, NEW ci, NEW cr, Conversations(i, r, ci, cr), NEW id \in Id,
           r.subs[id] = "sent", r.post[id] = "signalled", NEW u, u = Marked(r, id, "absent")
    PROVE  Conversations(i, u, ci, cr)
  <1>1. r.waiting => id # r.gen
    BY OpenWhileWaiting
  <1>2. r \in SubNode /\ KnownIds(r, r.gen) /\ Closing(i, r, id)
    BY DEF Conversations, Nodes
  <1>3. "absent" \in Sub /\ r.subs[id] \notin {"absent", "reserved"} /\ "absent" # "reserved"
    BY DEF Sub
  <1>4. u.post = r.post /\ u.gen = r.gen /\ u.subs[id] = "absent"
    BY SMTT(30), <1>2, <1>3, SubMarked
  <1>5. Closing(i, u, id)
    BY <1>2, <1>4 DEF Closing
  <1>6. i.post[id] = "signalled"
    BY <1>2 DEF Closing
  <1>7. \A p \in ci \cup cr : ~(p.type = "PostDrop" /\ p.id = id)
    BY <1>6 DEF Conversations, ToInitiator, ToReceiver
  <1> QED
    BY SMTT(30), <1>1, <1>3, <1>5, <1>7, MarkedReceiver

\* The initiator, signalled, forgets the conversation and answers.
LEMMA ForgottenByInitiator ==
    ASSUME Sized, NEW i, NEW r, NEW ci, NEW cr, Conversations(i, r, ci, cr), NEW id \in Id,
           i.subs[id] = "closing", i.post[id] = "signalled", NEW j, j = Marked(i, id, "absent"),
           NEW q \in SubPacket, q.type = "PostDrop", q.id = id, NEW c, c = cr \cup {q}
    PROVE  Conversations(j, r, ci, c) /\ \A p \in cr : <<p, q>> \in Follows
  <1>1. id <= r.gen /\ r.post[id] = "empty"
    BY UsableInitiator
  <1>2. i \in SubNode /\ KnownIds(i, Reached(i)) /\ Closing(i, r, id)
    BY DEF Conversations, Nodes
  <1>3. "absent" \in Sub /\ i.subs[id] \notin {"absent", "reserved"} /\ "absent" # "reserved"
    BY DEF Sub
  <1>4. j.post = i.post /\ Reached(j) = Reached(i) /\ j.subs[id] = "absent"
    BY SMTT(30), <1>2, <1>3, SubMarked
  <1>5. Closing(j, r, id) /\ r.subs[id] = "sent"
    BY <1>1, <1>2, <1>4 DEF Closing
  <1>6. Conversations(j, r, ci, cr)
    BY <1>3, <1>5, MarkedInitiator
  <1>7. ToInitiator(j, r, ci) /\ ToReceiver(j, r, cr)
    BY <1>6 DEF Conversations
  <1>8. ToReceiver(j, r, c)
    BY <1>1, <1>4, <1>5, <1>7 DEF ToReceiver
  <1>9. Conversations(j, r, ci, c)
    BY <1>6, <1>7, <1>8, Restreamed
  <1>10. \A p \in cr : p \in SubPacket /\ ~(p.type = "PostDrop" /\ p.id = id)
    BY DEF Conversations, ToReceiver
  <1>11. \A p \in cr : <<p, q>> \in Follows
    BY <1>10, SubFollows
  <1> QED
    BY <1>9, <1>11

\* A message finds its conversation at the initiator.
LEMMA KnownToInitiator ==
    ASSUME NEW i, NEW r, NEW ci, NEW cr, Conversations(i, r, ci, cr),
           NEW p \in ci, p.type = "ApplicationLayer"
    PROVE  i.subs[p.id] # "absent"
  <1>1. p.id <= Reached(i) /\ i.post[p.id] = "empty" /\ p.id \in Id
    BY Ids DEF Conversations, ToInitiator
  <1>2. Closing(i, r, p.id)
    BY <1>1 DEF Conversations, Nodes
  <1> QED
    BY <1>1, <1>2 DEF Closing

\* A message finds its conversation at the receiver.
LEMMA KnownToReceiver ==
    ASSUME Sized, NEW i, NEW r, NEW ci, NEW cr, Conversations(i, r, ci, cr),
           NEW p \in cr, p.type = "ApplicationLayer"
    PROVE  r.subs[p.id] # "absent"
  <1>1. p.id <= Reached(i) /\ r.post[p.id] = "empty" /\ p.id \in Id
    BY Ids DEF Conversations, ToReceiver
  <1>2. Closing(i, r, p.id)
    BY <1>1 DEF Conversations, Nodes
  <1>3. p.id <= r.gen
    BY SMTT(30), <1>1, Numbers, Ids
  <1> QED
    BY <1>1, <1>2, <1>3 DEF Closing

\* The initiator is told the end of a conversation.
LEMMA EndReachesInitiator ==
    ASSUME NEW i, NEW r, NEW ci, NEW cr, Conversations(i, r, ci, cr), NEW p \in ci, NEW di,
           di \subseteq ci, p.type = "PostDrop", \A q \in di : <<p, q>> \in Follows,
           NEW j, j = Told(i, p.id)
    PROVE  i.post[p.id] = "empty" /\ Conversations(j, r, di, cr)
  <1>1. r.subs[p.id] = "sent" /\ i.post[p.id] = "empty" /\ p.id \in Id
    BY Ids DEF Conversations, ToInitiator
  <1>2. i \in SubNode /\ KnownIds(i, Reached(i)) /\ Closing(i, r, p.id)
    BY <1>1 DEF Conversations, Nodes
  <1>3. j.subs = i.subs /\ Reached(j) = Reached(i) /\ j.post[p.id] = "signalled"
    BY SMTT(30), <1>1, <1>2, SubTold
  <1>4. Closing(j, r, p.id)
    BY <1>1, <1>2, <1>3 DEF Closing
  <1>5. \A q \in di : q.id = p.id => q.type = "PreCreate"
    BY SubFollowed
  <1>6. Conversations(i, r, di, cr)
    BY Shrunk
  <1>7. Conversations(j, r, di, cr)
    BY <1>1, <1>4, <1>5, <1>6, ToldInitiator
  <1> QED
    BY <1>1, <1>7

\* The receiver is told the end of a conversation.
LEMMA EndReachesReceiver ==
    ASSUME NEW i, NEW r, NEW ci, NEW cr, Conversations(i, r, ci, cr), NEW p \in cr, NEW dr,
           dr \subseteq cr, p.type = "PostDrop", \A q \in dr : <<p, q>> \in Follows,
           NEW u, u = Told(r, p.id)
    PROVE  r.post[p.id] = "empty" /\ Conversations(i, u, ci, dr)
  <1>1. /\ r.subs[p.id] = "sent" /\ r.post[p.id] = "empty" /\ p.id \in Id
        /\ i.subs[p.id] = "absent" /\ i.post[p.id] = "signalled"
    BY Ids DEF Conversations, ToReceiver
  <1>2. r \in SubNode /\ KnownIds(r, r.gen) /\ Closing(i, r, p.id)
    BY <1>1 DEF Conversations, Nodes
  <1>3. u.subs = r.subs /\ u.gen = r.gen /\ u.post[p.id] = "signalled"
    BY SMTT(30), <1>1, <1>2, SubTold
  <1>4. Closing(i, u, p.id)
    BY <1>1, <1>2, <1>3 DEF Closing
  <1>5. \A q \in dr : q.id = p.id => q.type = "PreCreate"
    BY SubFollowed
  <1>6. Conversations(i, r, ci, dr)
    BY Shrunk
  <1>7. r.waiting => p.id # r.gen
    BY <1>1, OpenWhileWaiting
  <1>8. Conversations(i, u, ci, dr)
    BY <1>1, <1>4, <1>5, <1>6, <1>7, ToldReceiver
  <1> QED
    BY <1>1, <1>8

-----------------------------------------------------------------------------
(* The steps *)

\* A connection starts with the reserved conversations and with empty streams.
LEMMA SubInit ==
    ASSUME Sized, Init
    PROVE  SubInv
  <1> DEFINE s == [latest |-> 0, gen |-> Capacity,
                   subs |-> [i \in Id |-> IF i <= Capacity THEN "reserved" ELSE "absent"],
                   post |-> [i \in Id |-> IF i <= Capacity THEN "empty" ELSE "absent"],
                   pre |-> <<>>, waiting |-> FALSE]
  <1>1. /\ node["initiator"] = s /\ node["receiver"] = s /\ OfNodes(node)
        /\ faults = {} /\ chan["initiator"] = <<>> /\ chan["receiver"] = <<>>
        /\ chan \in [Node -> Seq(SubPacket)] /\ \A n \in Node : chan[n] = <<>>
    BY SMTT(30) DEF Init, Node, OfNodes
  <1>2. /\ s.latest = 0 /\ s.gen = Capacity /\ s.pre = <<>> /\ ~s.waiting
        /\ \A id \in Id : /\ s.subs[id] = IF id <= Capacity THEN "reserved" ELSE "absent"
                          /\ s.post[id] = IF id <= Capacity THEN "empty" ELSE "absent"
    OBVIOUS
  <1>3. s \in SubNode
    BY SMTT(30), NoStream DEF SubNode, Sub, Sized, Id
  <1> HIDE DEF s
  <1>4. Reached(s) = Capacity
    BY SMTT(30), <1>2 DEF Reached, Sized
  <1>5. KnownIds(s, Capacity)
    BY SMTT(30), <1>2 DEF KnownIds, Sized, Id
  <1>6. \A id \in Id : Closing(s, s, id)
    BY <1>2, <1>4 DEF Closing
  <1>7. Turn(s, s, {}, {}) /\ ToInitiator(s, s, {}) /\ ToReceiver(s, s, {})
    BY <1>2, <1>4 DEF Turn, ToInitiator, ToReceiver, NoPreCreate
  <1>8. Conversations(s, s, {}, {})
    BY <1>2, <1>3, <1>4, <1>5, <1>6, <1>7 DEF Conversations, Nodes
  <1>9. Ordered(<<>>, Follows)
    BY SMTT(30) DEF Ordered
  <1> QED
    BY <1>1, <1>8, <1>9, NoStream DEF SubInv

\* The two nodes.
LEMMA SubNodes ==
    /\ "initiator" \in Node /\ "receiver" \in Node
    /\ Peer("initiator") = "receiver" /\ Peer("receiver") = "initiator"
    /\ \A n \in Node : n = "initiator" \/ n = "receiver"
  BY DEF Node, Peer

\* A packet is sent.
Sent(t, id) == [type |-> t, id |-> id]

\* It is a packet of its type and conversation.
LEMMA SentPacket ==
    ASSUME NEW t \in PacketType, NEW id \in Id
    PROVE  Sent(t, id) \in SubPacket /\ Sent(t, id).type = t /\ Sent(t, id).id = id
  BY DEF SubPacket, Sent

\* Packet q of node n is the last of the stream to node m.
Joins(n, m, q) ==
    /\ chan' \in [Node -> Seq(SubPacket)] /\ chan'[n] = chan[n]
    /\ Carried(chan'[m]) = Carried(chan[m]) \cup {q}
    /\ (\A p \in Carried(chan[m]) : <<p, q>> \in Follows) =>
          \A x \in Node : Ordered(chan'[x], Follows)

\* A packet that is sent is the last of its stream, and the other stream stays.
LEMMA SubSend ==
    ASSUME SubInv, NEW n \in Node, NEW t \in PacketType, NEW id \in Id, Send(n, t, id)
    PROVE  Joins(n, Peer(n), Sent(t, id))
  <1> DEFINE q == Sent(t, id)
             m == Peer(n)
  <1>1. /\ m # n /\ m \in Node /\ \A x \in Node : x = n \/ x = m
        /\ chan[m] \in Seq(SubPacket) /\ chan \in [Node -> Seq(SubPacket)]
        /\ Ordered(chan[m], Follows) /\ Ordered(chan[n], Follows)
    BY SubNodes DEF SubInv
  <1>2. q \in SubPacket
    BY SentPacket
  <1>3. chan' = [chan EXCEPT ![m] = Append(chan[m], q)]
    BY DEF Send, Sent
  <1> HIDE DEF q, m
  <1>4. /\ Append(chan[m], q) \in Seq(SubPacket)
        /\ Carried(Append(chan[m], q)) = Carried(chan[m]) \cup {q}
    BY SMTT(30), <1>1, <1>2, Streams
  <1>5. chan'[m] = Append(chan[m], q) /\ chan'[n] = chan[n] /\ chan' \in [Node -> Seq(SubPacket)]
    BY <1>1, <1>3, <1>4
  <1>6. (\A p \in Carried(chan[m]) : <<p, q>> \in Follows) => Ordered(Append(chan[m], q), Follows)
    BY <1>1, <1>2, Orders
  <1>7. (\A p \in Carried(chan[m]) : <<p, q>> \in Follows) =>
           \A x \in Node : Ordered(chan'[x], Follows)
    BY <1>1, <1>5, <1>6
  <1> QED
    BY <1>4, <1>5, <1>7 DEF q, m, Joins

\* A packet is read.
LEMMA SubConsume ==
    ASSUME SubInv, NEW n \in Node, NEW m \in Node, Peer(n) = m, chan[n] # <<>>, Consume(n)
    PROVE  /\ chan' \in [Node -> Seq(SubPacket)] /\ chan'[m] = chan[m]
           /\ Head(chan[n]) \in SubPacket
           /\ Carried(chan[n]) = {Head(chan[n])} \cup Carried(chan'[n])
           /\ \A q \in Carried(chan'[n]) : <<Head(chan[n]), q>> \in Follows
           /\ \A x \in Node : Ordered(chan'[x], Follows)
  <1> DEFINE c == chan[n]
  <1>1. /\ m # n /\ \A x \in Node : x = n \/ x = m
        /\ c \in Seq(SubPacket) /\ chan \in [Node -> Seq(SubPacket)]
        /\ Ordered(c, Follows) /\ Ordered(chan[m], Follows)
    BY SubNodes DEF SubInv
  <1>2. chan' = [chan EXCEPT ![n] = Tail(c)] /\ c # <<>>
    BY DEF Consume
  <1>3. /\ Tail(c) \in Seq(SubPacket) /\ Head(c) \in SubPacket
        /\ Carried(c) = {Head(c)} \cup Carried(Tail(c))
    BY <1>1, <1>2, Streams
  <1>4. Ordered(Tail(c), Follows) /\ \A q \in Carried(Tail(c)) : <<Head(c), q>> \in Follows
    BY <1>1, <1>2, Orders
  <1> HIDE DEF c
  <1>5. chan'[n] = Tail(c) /\ chan'[m] = chan[m] /\ chan' \in [Node -> Seq(SubPacket)]
    BY <1>1, <1>2, <1>3
  <1>6. \A x \in Node : Ordered(chan'[x], Follows)
    BY <1>1, <1>4, <1>5
  <1> QED
    BY <1>3, <1>4, <1>5, <1>6 DEF c

\* A node changes.
LEMMA SubBecomes ==
    ASSUME SubInv, NEW n \in Node, NEW s, Becomes(n, s)
    PROVE  node'[n] = s /\ node'[Peer(n)] = node[Peer(n)] /\ OfNodes(node')
  BY SubNodes DEF SubInv, Becomes, OfNodes

\* The state a step leads to, from the two nodes and the two streams.
LEMMA SubStep ==
    ASSUME SubInv, NEW i, NEW r,
           node'["initiator"] = i, node'["receiver"] = r, OfNodes(node'), faults' = {},
           chan' \in [Node -> Seq(SubPacket)], \A n \in Node : Ordered(chan'[n], Follows),
           Conversations(i, r, Carried(chan'["initiator"]), Carried(chan'["receiver"]))
    PROVE  SubInv'
  BY DEF SubInv, Sized

\* A node that is left alone is as it was.
LEMMA SubStays ==
    ASSUME SubInv, NEW n \in Node, node' = node
    PROVE  Becomes(n, node[n])
  BY DEF SubInv, OfNodes, Becomes

\* The initiator changes by itself.
LEMMA InitiatorStep ==
    ASSUME SubInv, NEW j, Becomes("initiator", j), chan' = chan, faults' = faults,
           Conversations(j, node["receiver"], Carried(chan["initiator"]), Carried(chan["receiver"]))
    PROVE  SubInv'
  <1>1. node'["initiator"] = j /\ node'["receiver"] = node["receiver"] /\ OfNodes(node')
    BY SubBecomes, SubNodes
  <1>2. /\ faults' = {} /\ chan' \in [Node -> Seq(SubPacket)]
        /\ \A n \in Node : Ordered(chan'[n], Follows)
    BY DEF SubInv
  <1> QED
    BY <1>1, <1>2, SubStep

\* The receiver changes by itself.
LEMMA ReceiverStep ==
    ASSUME SubInv, NEW u, Becomes("receiver", u), chan' = chan, faults' = {},
           Conversations(node["initiator"], u, Carried(chan["initiator"]), Carried(chan["receiver"]))
    PROVE  SubInv'
  <1>1. node'["receiver"] = u /\ node'["initiator"] = node["initiator"] /\ OfNodes(node')
    BY SubBecomes, SubNodes
  <1>2. /\ chan' \in [Node -> Seq(SubPacket)]
        /\ \A n \in Node : Ordered(chan'[n], Follows)
    BY DEF SubInv
  <1> QED
    BY <1>1, <1>2, SubStep

\* The initiator changes and sends a packet.
LEMMA InitiatorSends ==
    ASSUME SubInv, NEW j, Becomes("initiator", j), faults' = {}, NEW id \in Id,
           NEW t \in PacketType, Send("initiator", t, id),
           NEW c, c = Carried(chan["receiver"]) \cup {Sent(t, id)},
           Conversations(j, node["receiver"], Carried(chan["initiator"]), c),
           \A p \in Carried(chan["receiver"]) : <<p, Sent(t, id)>> \in Follows
    PROVE  SubInv'
  <1>1. node'["initiator"] = j /\ node'["receiver"] = node["receiver"] /\ OfNodes(node')
    BY SubBecomes, SubNodes
  <1>2. "initiator" \in Node /\ Peer("initiator") = "receiver"
    BY SubNodes
  <1>3. Joins("initiator", Peer("initiator"), Sent(t, id))
    BY <1>2, SubSend
  <1>4. /\ chan' \in [Node -> Seq(SubPacket)] /\ chan'["initiator"] = chan["initiator"]
        /\ Carried(chan'["receiver"]) = c /\ \A n \in Node : Ordered(chan'[n], Follows)
    BY <1>2, <1>3 DEF Joins
  <1> QED
    BY <1>1, <1>4, SubStep

\* The receiver changes and sends a packet.
LEMMA ReceiverSends ==
    ASSUME SubInv, NEW u, Becomes("receiver", u), faults' = {}, NEW id \in Id,
           NEW t \in PacketType, Send("receiver", t, id),
           NEW c, c = Carried(chan["initiator"]) \cup {Sent(t, id)},
           Conversations(node["initiator"], u, c, Carried(chan["receiver"])),
           \A p \in Carried(chan["initiator"]) : <<p, Sent(t, id)>> \in Follows
    PROVE  SubInv'
  <1>1. node'["receiver"] = u /\ node'["initiator"] = node["initiator"] /\ OfNodes(node')
    BY SubBecomes, SubNodes
  <1>2. "receiver" \in Node /\ Peer("receiver") = "initiator"
    BY SubNodes
  <1>3. Joins("receiver", Peer("receiver"), Sent(t, id))
    BY <1>2, SubSend
  <1>4. /\ chan' \in [Node -> Seq(SubPacket)] /\ chan'["receiver"] = chan["receiver"]
        /\ Carried(chan'["initiator"]) = c /\ \A n \in Node : Ordered(chan'[n], Follows)
    BY <1>2, <1>3 DEF Joins
  <1> QED
    BY <1>1, <1>4, SubStep

\* The initiator reads a packet.
LEMMA InitiatorReads ==
    ASSUME SubInv, NEW j, Becomes("initiator", j), faults' = {},
           chan["initiator"] # <<>>, Consume("initiator"),
           Conversations(j, node["receiver"], Carried(chan'["initiator"]), Carried(chan["receiver"]))
    PROVE  SubInv'
  <1>1. node'["initiator"] = j /\ node'["receiver"] = node["receiver"] /\ OfNodes(node')
    BY SubBecomes, SubNodes
  <1>2. /\ chan' \in [Node -> Seq(SubPacket)] /\ chan'["receiver"] = chan["receiver"]
        /\ \A n \in Node : Ordered(chan'[n], Follows)
    BY SubConsume, SubNodes
  <1> QED
    BY <1>1, <1>2, SubStep

\* The receiver reads a packet.
LEMMA ReceiverReads ==
    ASSUME SubInv, NEW u, Becomes("receiver", u), faults' = {},
           chan["receiver"] # <<>>, Consume("receiver"),
           Conversations(node["initiator"], u, Carried(chan["initiator"]), Carried(chan'["receiver"]))
    PROVE  SubInv'
  <1>1. node'["receiver"] = u /\ node'["initiator"] = node["initiator"] /\ OfNodes(node')
    BY SubBecomes, SubNodes
  <1>2. /\ chan' \in [Node -> Seq(SubPacket)] /\ chan'["initiator"] = chan["initiator"]
        /\ \A n \in Node : Ordered(chan'[n], Follows)
    BY SubConsume, SubNodes
  <1> QED
    BY <1>1, <1>2, SubStep

-----------------------------------------------------------------------------
(* The actions *)

\* The types of the packets.
LEMMA Types == {"ApplicationLayer", "PreCreate", "PostDrop"} \subseteq PacketType
  BY DEF PacketType

\* A reserved conversation is taken: it is known at both nodes already.
LEMMA SubInitiateReserved ==
    ASSUME SubInv, NEW n \in Node, InitiateReserved(n)
    PROVE  SubInv'
  <1> DEFINE i == node["initiator"]
             r == node["receiver"]
             ci == Carried(chan["initiator"])
             cr == Carried(chan["receiver"])
  <1>1. Sized /\ Conversations(i, r, ci, cr) /\ faults = {}
    BY DEF SubInv
  <1>2. /\ ~node[n].waiting /\ Reserved(node[n]) /\ Becomes(n, Taken(node[n]))
        /\ chan' = chan /\ faults' = faults
    BY DEF InitiateReserved, Taken
  <1>3. CASE n = "initiator"
    <2> DEFINE j == Taken(i)
    <2>1. ~i.waiting /\ Reserved(i) /\ Becomes("initiator", j) /\ j = Taken(i)
      BY <1>2, <1>3
    <2> HIDE DEF i, r, ci, cr, j
    <2>2. Conversations(j, r, ci, cr)
      BY <1>1, <2>1, TakenInitiator
    <2> QED
      BY <1>2, <2>1, <2>2, InitiatorStep DEF r, ci, cr
  <1>4. CASE n = "receiver"
    <2> DEFINE u == Taken(r)
    <2>1. ~r.waiting /\ Reserved(r) /\ Becomes("receiver", u) /\ u = Taken(r) /\ faults' = {}
      BY <1>1, <1>2, <1>4
    <2> HIDE DEF i, r, ci, cr, u
    <2>2. Conversations(i, u, ci, cr)
      BY <1>1, <2>1, TakenReceiver
    <2> QED
      BY <1>2, <2>1, <2>2, ReceiverStep DEF i, ci, cr
  <1> QED
    BY <1>3, <1>4, SubNodes

\* The receiver numbers the next conversation.
LEMMA SubInitiateReceiver ==
    ASSUME SubInv, InitiateReceiver
    PROVE  SubInv'
  <1> DEFINE i == node["initiator"]
             r == node["receiver"]
             ci == Carried(chan["initiator"])
             cr == Carried(chan["receiver"])
             id == r.gen + 1
             u == Numbered(r, id)
             q == Sent("PreCreate", id)
             c == ci \cup {q}
  <1>1. Sized /\ Conversations(i, r, ci, cr) /\ faults = {}
    BY DEF SubInv
  <1>2. /\ ~r.waiting /\ ~Reserved(r) /\ id \in Id /\ Becomes("receiver", u)
        /\ faults' = faults \cup SubscribeFaults(r, id) /\ Send("receiver", "PreCreate", id)
    BY DEF InitiateReceiver, Numbered
  <1>3. "PreCreate" \in PacketType
    BY Types
  <1>4. q \in SubPacket /\ q.type = "PreCreate" /\ q.id = id
    BY <1>2, <1>3, SentPacket
  <1>5. id = r.gen + 1 /\ u = Numbered(r, id) /\ c = ci \cup {q}
    OBVIOUS
  <1> HIDE DEF i, r, ci, cr, id, u, q, c
  <1>6. /\ SubscribeFaults(r, id) = {} /\ Conversations(i, u, c, cr)
        /\ \A p \in ci : <<p, q>> \in Follows
    BY SMTT(30), <1>1, <1>2, <1>4, <1>5, NumberedByReceiver
  <1>7. faults' = {}
    BY <1>1, <1>2, <1>6
  <1> QED
    BY <1>2, <1>3, <1>5, <1>6, <1>7, ReceiverSends DEF i, ci, cr, q

\* The initiator waits for a number.
LEMMA SubInitiateInitiator ==
    ASSUME SubInv, InitiateInitiator
    PROVE  SubInv'
  <1> DEFINE i == node["initiator"]
             r == node["receiver"]
             ci == Carried(chan["initiator"])
             cr == Carried(chan["receiver"])
             j == [i EXCEPT !.waiting = TRUE]
  <1>1. Sized /\ Conversations(i, r, ci, cr) /\ faults = {}
    BY DEF SubInv
  <1>2. ~Reserved(i) /\ Becomes("initiator", j) /\ chan' = chan /\ faults' = faults
    BY DEF InitiateInitiator
  <1>3. j = [i EXCEPT !.waiting = TRUE]
    OBVIOUS
  <1> HIDE DEF i, r, ci, cr, j
  <1>4. Conversations(j, r, ci, cr)
    BY <1>1, <1>2, <1>3, WaitingInitiator
  <1> QED
    BY <1>2, <1>4, InitiatorStep DEF r, ci, cr

\* The receiver's call returns.
LEMMA SubOpenedReceiver ==
    ASSUME SubInv, OpenedReceiver
    PROVE  SubInv'
  <1> DEFINE i == node["initiator"]
             r == node["receiver"]
             ci == Carried(chan["initiator"])
             cr == Carried(chan["receiver"])
             u == [r EXCEPT !.pre = Tail(@), !.waiting = FALSE]
  <1>1. Sized /\ Conversations(i, r, ci, cr) /\ faults = {}
    BY DEF SubInv
  <1>2. /\ r.waiting /\ r.pre # <<>> /\ Becomes("receiver", u) /\ chan' = chan
        /\ faults' = faults \cup (IF Head(r.pre) # r.gen THEN {"invalid sync id"} ELSE {})
    BY DEF OpenedReceiver
  <1>3. u = [r EXCEPT !.pre = Tail(@), !.waiting = FALSE]
    OBVIOUS
  <1> HIDE DEF i, r, ci, cr, u
  <1>4. Head(r.pre) = r.gen /\ Conversations(i, u, ci, cr)
    BY <1>1, <1>2, <1>3, OpenedByReceiver
  <1>5. faults' = {}
    BY <1>1, <1>2, <1>4
  <1> QED
    BY <1>2, <1>4, <1>5, ReceiverStep DEF i, ci, cr

\* The initiator opens the conversation the receiver has numbered.
LEMMA SubOpenedInitiator ==
    ASSUME SubInv, OpenedInitiator
    PROVE  SubInv'
  <1> DEFINE i == node["initiator"]
             r == node["receiver"]
             ci == Carried(chan["initiator"])
             cr == Carried(chan["receiver"])
             id == Head(i.pre)
             j == Entered(i, id)
             q == Sent("PreCreate", id)
             c == cr \cup {q}
  <1>1. Sized /\ Conversations(i, r, ci, cr) /\ faults = {}
    BY DEF SubInv
  <1>2. /\ i.waiting /\ i.pre # <<>> /\ Becomes("initiator", j)
        /\ faults' = faults \cup SubscribeFaults(i, id) /\ Send("initiator", "PreCreate", id)
    BY DEF OpenedInitiator, Entered
  <1>3. "PreCreate" \in PacketType
    BY Types
  <1>4. j = Entered(i, id) /\ c = cr \cup {q}
    OBVIOUS
  <1> HIDE DEF i, r, ci, cr, j, c
  <1>5. id \in Id /\ id = r.gen
    BY <1>1, <1>2, OfferedNumber
  <1>6. q \in SubPacket /\ q.type = "PreCreate" /\ q.id = id
    BY <1>3, <1>5, SentPacket
  <1> HIDE DEF id, q
  <1>9. Opens(i, r, ci, cr, id, j, q, c)
    BY <1>1, <1>2, <1>4, <1>5, <1>6 DEF Opens
  <1>7. /\ SubscribeFaults(i, id) = {} /\ Conversations(j, r, ci, c)
        /\ \A p \in cr : <<p, q>> \in Follows
    BY <1>1, <1>9, OpenedByInitiator
  <1>8. faults' = {}
    BY <1>1, <1>2, <1>7
  <1> QED
    BY <1>2, <1>3, <1>4, <1>5, <1>7, <1>8, InitiatorSends DEF r, ci, cr, q

\* A message of a conversation that can be used is sent.
LEMMA SubSendToPeer ==
    ASSUME SubInv, NEW n \in Node, NEW id \in Id, SendToPeer(n, id)
    PROVE  SubInv'
  <1> DEFINE i == node["initiator"]
             r == node["receiver"]
             ci == Carried(chan["initiator"])
             cr == Carried(chan["receiver"])
             q == Sent("ApplicationLayer", id)
  <1>1. Sized /\ Conversations(i, r, ci, cr) /\ faults = {}
    BY DEF SubInv
  <1>2. /\ node[n].subs[id] = "open" /\ ~(n = "receiver" /\ node[n].waiting /\ id = node[n].gen)
        /\ Send(n, "ApplicationLayer", id) /\ node' = node /\ faults' = faults
    BY DEF SendToPeer, Usable
  <1>3. "ApplicationLayer" \in PacketType /\ faults' = {} /\ Becomes(n, node[n])
    BY <1>1, <1>2, Types, SubStays
  <1>4. q \in SubPacket /\ q.type = "ApplicationLayer" /\ q.id = id
    BY <1>3, SentPacket
  <1>5. CASE n = "initiator"
    <2> DEFINE c == cr \cup {q}
    <2>1. /\ i.subs[id] = "open" /\ Send("initiator", "ApplicationLayer", id)
          /\ Becomes("initiator", i) /\ c = cr \cup {q}
      BY <1>2, <1>3, <1>5
    <2> HIDE DEF i, r, ci, cr, q, c
    <2>2. Conversations(i, r, ci, c) /\ \A p \in cr : <<p, q>> \in Follows
      BY <1>1, <1>4, <2>1, SentByInitiator
    <2> QED
      BY <1>3, <2>1, <2>2, InitiatorSends DEF r, ci, cr, q
  <1>6. CASE n = "receiver"
    <2> DEFINE c == ci \cup {q}
    <2>1. /\ r.subs[id] = "open" /\ (r.waiting => id # r.gen)
          /\ Send("receiver", "ApplicationLayer", id)
          /\ Becomes("receiver", r) /\ c = ci \cup {q}
      BY <1>2, <1>3, <1>6
    <2> HIDE DEF i, r, ci, cr, q, c
    <2>2. Conversations(i, r, c, cr) /\ \A p \in ci : <<p, q>> \in Follows
      BY <1>1, <1>4, <2>1, SentByReceiver
    <2> QED
      BY <1>3, <2>1, <2>2, ReceiverSends DEF i, ci, cr, q
  <1> QED
    BY <1>5, <1>6, SubNodes

\* A subscription is dropped: its entry stays until the two nodes have agreed.
LEMMA SubDropSubscription ==
    ASSUME SubInv, NEW n \in Node, NEW id \in Id, DropSubscription(n, id)
    PROVE  SubInv'
  <1> DEFINE i == node["initiator"]
             r == node["receiver"]
             ci == Carried(chan["initiator"])
             cr == Carried(chan["receiver"])
  <1>1. Sized /\ Conversations(i, r, ci, cr) /\ faults = {}
    BY DEF SubInv
  <1>2. /\ node[n].subs[id] = "open" /\ ~(n = "receiver" /\ node[n].waiting /\ id = node[n].gen)
        /\ Becomes(n, Marked(node[n], id, "closing")) /\ chan' = chan /\ faults' = faults
    BY DEF DropSubscription, Usable, Marked
  <1>3. CASE n = "initiator"
    <2> DEFINE j == Marked(i, id, "closing")
    <2>1. i.subs[id] = "open" /\ Becomes("initiator", j) /\ j = Marked(i, id, "closing")
      BY <1>2, <1>3
    <2> HIDE DEF i, r, ci, cr, j
    <2>2. Conversations(j, r, ci, cr)
      BY <1>1, <2>1, DroppedByInitiator
    <2> QED
      BY <1>2, <2>1, <2>2, InitiatorStep DEF r, ci, cr
  <1>4. CASE n = "receiver"
    <2> DEFINE u == Marked(r, id, "closing")
    <2>1. /\ r.subs[id] = "open" /\ (r.waiting => id # r.gen) /\ Becomes("receiver", u)
          /\ u = Marked(r, id, "closing") /\ faults' = {}
      BY <1>1, <1>2, <1>4
    <2> HIDE DEF i, r, ci, cr, u
    <2>2. Conversations(i, u, ci, cr)
      BY <1>1, <2>1, DroppedByReceiver
    <2> QED
      BY <1>2, <2>1, <2>2, ReceiverStep DEF i, ci, cr
  <1> QED
    BY <1>3, <1>4, SubNodes

\* The receiver says that it has dropped a conversation.
LEMMA SubSendPostDrop ==
    ASSUME SubInv, NEW id \in Id, SendPostDrop(id)
    PROVE  SubInv'
  <1> DEFINE i == node["initiator"]
             r == node["receiver"]
             ci == Carried(chan["initiator"])
             cr == Carried(chan["receiver"])
             u == Marked(r, id, "sent")
             q == Sent("PostDrop", id)
             c == ci \cup {q}
  <1>1. Sized /\ Conversations(i, r, ci, cr) /\ faults = {}
    BY DEF SubInv
  <1>2. /\ r.subs[id] = "closing" /\ Becomes("receiver", u)
        /\ Send("receiver", "PostDrop", id) /\ faults' = faults
    BY DEF SendPostDrop, Marked
  <1>3. "PostDrop" \in PacketType /\ faults' = {}
    BY <1>1, <1>2, Types
  <1>4. q \in SubPacket /\ q.type = "PostDrop" /\ q.id = id
    BY <1>3, SentPacket
  <1>5. u = Marked(r, id, "sent") /\ c = ci \cup {q}
    OBVIOUS
  <1> HIDE DEF i, r, ci, cr, u, q, c
  <1>7. Ends(i, r, ci, cr, id, u, q, c)
    BY <1>1, <1>2, <1>4, <1>5 DEF Ends
  <1>6. Conversations(i, u, c, cr) /\ \A p \in ci : <<p, q>> \in Follows
    BY <1>1, <1>7, EndedByReceiver
  <1> QED
    BY <1>2, <1>3, <1>5, <1>6, ReceiverSends DEF i, ci, cr, q

\* Waiting for the signal changes nothing but the lock.
LEMMA SubAwaitPostDrop ==
    ASSUME SubInv, NEW n \in Node, NEW id \in Id, AwaitPostDrop(n, id)
    PROVE  SubInv'
  BY DEF SubInv, Sized, OfNodes, AwaitPostDrop

\* The receiver forgets a conversation.
LEMMA SubCloseReceiver ==
    ASSUME SubInv, NEW id \in Id, CloseReceiver(id)
    PROVE  SubInv'
  <1> DEFINE i == node["initiator"]
             r == node["receiver"]
             ci == Carried(chan["initiator"])
             cr == Carried(chan["receiver"])
             u == Marked(r, id, "absent")
  <1>1. Sized /\ Conversations(i, r, ci, cr) /\ faults = {}
    BY DEF SubInv
  <1>2. /\ r.subs[id] = "sent" /\ r.post[id] = "signalled" /\ Becomes("receiver", u)
        /\ chan' = chan /\ faults' = faults
    BY DEF CloseReceiver, Signalled, Marked
  <1>3. u = Marked(r, id, "absent") /\ faults' = {}
    BY <1>1, <1>2
  <1> HIDE DEF i, r, ci, cr, u
  <1>4. Conversations(i, u, ci, cr)
    BY <1>1, <1>2, <1>3, ForgottenByReceiver
  <1> QED
    BY <1>2, <1>3, <1>4, ReceiverStep DEF i, ci, cr

\* The initiator forgets a conversation and says so.
LEMMA SubCloseInitiator ==
    ASSUME SubInv, NEW id \in Id, CloseInitiator(id)
    PROVE  SubInv'
  <1> DEFINE i == node["initiator"]
             r == node["receiver"]
             ci == Carried(chan["initiator"])
             cr == Carried(chan["receiver"])
             j == Marked(i, id, "absent")
             q == Sent("PostDrop", id)
             c == cr \cup {q}
  <1>1. Sized /\ Conversations(i, r, ci, cr) /\ faults = {}
    BY DEF SubInv
  <1>2. /\ i.subs[id] = "closing" /\ i.post[id] = "signalled" /\ Becomes("initiator", j)
        /\ Send("initiator", "PostDrop", id) /\ faults' = faults
    BY DEF CloseInitiator, Signalled, Marked
  <1>3. "PostDrop" \in PacketType /\ faults' = {}
    BY <1>1, <1>2, Types
  <1>4. q \in SubPacket /\ q.type = "PostDrop" /\ q.id = id
    BY <1>3, SentPacket
  <1>5. j = Marked(i, id, "absent") /\ c = cr \cup {q}
    OBVIOUS
  <1> HIDE DEF i, r, ci, cr, j, q, c
  <1>6. Conversations(j, r, ci, c) /\ \A p \in cr : <<p, q>> \in Follows
    BY <1>1, <1>2, <1>4, <1>5, ForgottenByInitiator
  <1> QED
    BY <1>2, <1>3, <1>5, <1>6, InitiatorSends DEF r, ci, cr, q

\* What node n reads is the first packet on its way to it, and the others follow it.
Reads(n, p, d) ==
    /\ Carried(chan[n]) = {p} \cup d /\ p \in Carried(chan[n]) /\ d \subseteq Carried(chan[n])
    /\ \A q \in d : <<p, q>> \in Follows

\* Taking a packet from a stream leaves the others, which may follow it.
LEMMA SubReads ==
    ASSUME SubInv, NEW n \in Node, chan[n] # <<>>, Consume(n)
    PROVE  Reads(n, Head(chan[n]), Carried(chan'[n]))
  <1>1. Peer(n) \in Node
    BY SubNodes
  <1>2. /\ Carried(chan[n]) = {Head(chan[n])} \cup Carried(chan'[n])
        /\ \A q \in Carried(chan'[n]) : <<Head(chan[n]), q>> \in Follows
    BY <1>1, SubConsume
  <1> QED
    BY <1>2 DEF Reads

\* A message reaches a node that has the conversation.
LEMMA SubForwardApplication ==
    ASSUME SubInv, NEW n \in Node, ForwardApplication(n)
    PROVE  SubInv'
  <1> DEFINE i == node["initiator"]
             r == node["receiver"]
             ci == Carried(chan["initiator"])
             cr == Carried(chan["receiver"])
             p == Head(chan[n])
             d == Carried(chan'[n])
  <1>1. Sized /\ Conversations(i, r, ci, cr) /\ faults = {}
    BY DEF SubInv
  <1>2. /\ chan[n] # <<>> /\ p.type = "ApplicationLayer" /\ Consume(n) /\ node' = node
        /\ faults' = faults \cup
             (IF node[n].subs[p.id] = "absent" THEN {"no such channel"} ELSE {})
    BY DEF ForwardApplication, Incoming
  <1>3. Reads(n, p, d) /\ Becomes(n, node[n])
    BY <1>2, SubReads, SubStays
  <1>4. CASE n = "initiator"
    <2>1. p \in ci /\ d \subseteq ci /\ cr \subseteq cr
      BY <1>3, <1>4 DEF Reads
    <2> HIDE DEF i, r, ci, cr, p, d
    <2>2. i.subs[p.id] # "absent" /\ Conversations(i, r, d, cr)
      BY <1>1, <1>2, <2>1, KnownToInitiator, Shrunk
    <2>3. faults' = {}
      BY <1>1, <1>2, <1>4, <2>2 DEF i
    <2> QED
      BY <1>2, <1>3, <1>4, <2>2, <2>3, InitiatorReads DEF i, r, cr, d
  <1>5. CASE n = "receiver"
    <2>1. p \in cr /\ d \subseteq cr /\ ci \subseteq ci
      BY <1>3, <1>5 DEF Reads
    <2> HIDE DEF i, r, ci, cr, p, d
    <2>2. r.subs[p.id] # "absent" /\ Conversations(i, r, ci, d)
      BY <1>1, <1>2, <2>1, KnownToReceiver, Shrunk
    <2>3. faults' = {}
      BY <1>1, <1>2, <1>5, <2>2 DEF r
    <2> QED
      BY <1>2, <1>3, <1>5, <2>2, <2>3, ReceiverReads DEF i, r, ci, d
  <1> QED
    BY <1>4, <1>5, SubNodes

\* The one number under way reaches an empty pre-action channel.
LEMMA SubForwardPreCreate ==
    ASSUME SubInv, NEW n \in Node, ForwardPreCreate(n)
    PROVE  SubInv'
  <1> DEFINE i == node["initiator"]
             r == node["receiver"]
             ci == Carried(chan["initiator"])
             cr == Carried(chan["receiver"])
             p == Head(chan[n])
             d == Carried(chan'[n])
             t == [node[n] EXCEPT !.pre = Append(@, p.id)]
  <1>1. Sized /\ Conversations(i, r, ci, cr) /\ faults = {}
    BY DEF SubInv
  <1>2. /\ chan[n] # <<>> /\ p.type = "PreCreate" /\ Consume(n) /\ Becomes(n, t)
        /\ node[n].pre = <<>> /\ faults' = faults /\ t = [node[n] EXCEPT !.pre = Append(@, p.id)]
    BY DEF ForwardPreCreate, Incoming
  <1>3. Reads(n, p, d) /\ faults' = {}
    BY <1>1, <1>2, SubReads
  <1> HIDE DEF p, d, t
  <1>4. NoPreCreate(d)
    BY <1>2, <1>3, SubFollowed DEF Reads, NoPreCreate
  <1>5. CASE n = "initiator"
    <2>1. ci = {p} \cup d /\ i.pre = <<>> /\ t = [i EXCEPT !.pre = Append(@, p.id)]
      BY <1>2, <1>3, <1>5 DEF Reads
    <2> HIDE DEF i, r, ci, cr
    <2>2. Conversations(t, r, d, cr)
      BY <1>1, <1>2, <1>4, <2>1, OfferedInitiator
    <2> QED
      BY <1>2, <1>3, <1>5, <2>2, InitiatorReads DEF r, cr, d
  <1>6. CASE n = "receiver"
    <2>1. cr = {p} \cup d /\ r.pre = <<>> /\ t = [r EXCEPT !.pre = Append(@, p.id)]
      BY <1>2, <1>3, <1>6 DEF Reads
    <2> HIDE DEF i, r, ci, cr
    <2>2. Conversations(i, t, ci, d)
      BY <1>1, <1>2, <1>4, <2>1, OfferedReceiver
    <2> QED
      BY <1>2, <1>3, <1>6, <2>2, ReceiverReads DEF i, ci, d
  <1> QED
    BY <1>5, <1>6, SubNodes

\* The signal that the other node has dropped a conversation finds its channel.
LEMMA SubForwardPostDrop ==
    ASSUME SubInv, NEW n \in Node, ForwardPostDrop(n)
    PROVE  SubInv'
  <1> DEFINE i == node["initiator"]
             r == node["receiver"]
             ci == Carried(chan["initiator"])
             cr == Carried(chan["receiver"])
             p == Head(chan[n])
             d == Carried(chan'[n])
             t == Told(node[n], p.id)
  <1>1. Sized /\ Conversations(i, r, ci, cr) /\ faults = {}
    BY DEF SubInv
  <1>2. /\ chan[n] # <<>> /\ p.type = "PostDrop" /\ Consume(n)
        /\ node[n].post[p.id] = "empty" => Becomes(n, t) /\ faults' = faults
        /\ t = Told(node[n], p.id)
    BY DEF ForwardPostDrop, Incoming, Told
  <1>3. Reads(n, p, d)
    BY <1>2, SubReads
  <1> HIDE DEF p, d, t
  <1>4. CASE n = "initiator"
    <2>1. p \in ci /\ d \subseteq ci /\ (\A q \in d : <<p, q>> \in Follows) /\ t = Told(i, p.id)
      BY <1>2, <1>3, <1>4 DEF Reads
    <2> HIDE DEF i, r, ci, cr
    <2>2. i.post[p.id] = "empty" /\ Conversations(t, r, d, cr)
      BY <1>1, <1>2, <2>1, EndReachesInitiator
    <2>3. Becomes("initiator", t) /\ faults' = {}
      BY <1>1, <1>2, <1>4, <2>2 DEF i
    <2> QED
      BY <1>2, <1>4, <2>2, <2>3, InitiatorReads DEF r, cr, d
  <1>5. CASE n = "receiver"
    <2>1. p \in cr /\ d \subseteq cr /\ (\A q \in d : <<p, q>> \in Follows) /\ t = Told(r, p.id)
      BY <1>2, <1>3, <1>5 DEF Reads
    <2> HIDE DEF i, r, ci, cr
    <2>2. r.post[p.id] = "empty" /\ Conversations(i, t, ci, d)
      BY <1>1, <1>2, <2>1, EndReachesReceiver
    <2>3. Becomes("receiver", t) /\ faults' = {}
      BY <1>1, <1>2, <1>5, <2>2 DEF r
    <2> QED
      BY <1>2, <1>5, <2>2, <2>3, ReceiverReads DEF i, ci, d
  <1> QED
    BY <1>4, <1>5, SubNodes

-----------------------------------------------------------------------------
(* The theorem *)

\* Every step of the subscriptions preserves their invariant.
LEMMA SubNext ==
    ASSUME SubInv, Next
    PROVE  SubInv'
  <1>1. CASE \E n \in Node : InitiateReserved(n) \/ Forward(n)
    BY <1>1, SubInitiateReserved, SubForwardApplication, SubForwardPreCreate,
       SubForwardPostDrop DEF Forward
  <1>2. CASE InitiateReceiver \/ InitiateInitiator \/ OpenedReceiver \/ OpenedInitiator
    BY <1>2, SubInitiateReceiver, SubInitiateInitiator, SubOpenedReceiver,
       SubOpenedInitiator
  <1>3. CASE \E n \in Node : \E id \in Id : SendToPeer(n, id) \/ DropSubscription(n, id)
    BY <1>3, SubSendToPeer, SubDropSubscription
  <1>4. CASE \E id \in Id : Close(id)
    BY <1>4, SubSendPostDrop, SubAwaitPostDrop, SubCloseReceiver, SubCloseInitiator DEF Close
  <1> QED
    BY <1>1, <1>2, <1>3, <1>4 DEF Next

\* Only an id of a conversation is in the lock of the post-action channel.
LockedSubInv == SubInv /\ rx \in [Node -> {0} \cup Id]

\* At the start the locks are free.
LEMMA LockedSubInit == ASSUME Sized, Init PROVE LockedSubInv
  <1>1. SubInv
    BY SubInit
  <1> QED
    BY <1>1 DEF LockedSubInv, Init

\* recv takes the lock for its id and gives it back.
LEMMA LockedSubNext ==
    ASSUME LockedSubInv, Next
    PROVE  LockedSubInv'
  <1>1. SubInv'
    BY SubNext DEF LockedSubInv
  <1>2. \/ rx' = rx
        \/ \E n \in Node : \E id \in {0} \cup Id : rx' = [rx EXCEPT ![n] = id]
    <2>1. CASE \E id \in Id : Close(id)
      BY <2>1 DEF Close, SendPostDrop, AwaitPostDrop, CloseReceiver, CloseInitiator, Node
    <2>2. CASE \E n \in Node : \/ InitiateReserved(n) \/ Forward(n)
                               \/ \E id \in Id : SendToPeer(n, id) \/ DropSubscription(n, id)
      BY <2>2 DEF InitiateReserved, Forward, ForwardApplication, ForwardPreCreate,
         ForwardPostDrop, SendToPeer, DropSubscription
    <2>3. CASE InitiateReceiver \/ InitiateInitiator \/ OpenedReceiver \/ OpenedInitiator
      BY <2>3 DEF InitiateReceiver, InitiateInitiator, OpenedReceiver, OpenedInitiator
    <2> QED
      BY <2>1, <2>2, <2>3 DEF Next
  <1>3. rx' \in [Node -> {0} \cup Id]
    BY <1>2 DEF LockedSubInv
  <1> QED
    BY <1>1, <1>3 DEF LockedSubInv

\* What the invariant says of the properties: the one PreCreate on its way meets an
\* empty pre-action channel.
LEMMA LockedSubHolds ==
    ASSUME LockedSubInv
    PROVE  TypeOK /\ NoFault /\ ReaderNeverBlocks
  <1> DEFINE i == node["initiator"]
             r == node["receiver"]
             ci == Carried(chan["initiator"])
             cr == Carried(chan["receiver"])
  <1> USE DEF LockedSubInv
  <1>1. i \in SubNode /\ r \in SubNode /\ Turn(i, r, ci, cr)
    BY DEF SubInv, Conversations, Nodes
  <1>2. node \in [Node -> SubNode]
    <2>1. OfNodes(node) /\ \A n \in Node : node[n] \in SubNode
      BY <1>1, SubNodes DEF SubInv
    <2> QED
      BY <2>1 DEF OfNodes
  <1>3. ASSUME NEW n \in Node, NEW k \in 1..Len(chan[n])
        PROVE  /\ chan[n][k].type \in {"ApplicationLayer", "PreCreate", "PostDrop"}
               /\ chan[n][k].id \in Id
    <2>1. chan[n][k] \in SubPacket
      BY SMTT(30) DEF SubInv
    <2> QED
      BY <2>1 DEF SubPacket, PacketType
  <1>4. TypeOK
    BY <1>2, <1>3 DEF TypeOK, SubNode
  <1>5. ASSUME NEW n \in Node, Incoming(n, "PreCreate") PROVE node[n].pre = <<>>
    <2>1. Head(chan[n]) \in Carried(chan[n]) /\ Head(chan[n]).type = "PreCreate"
      <3>1. chan[n] \in Seq(SubPacket) /\ chan[n] # <<>> /\ Head(chan[n]).type = "PreCreate"
        BY <1>5 DEF SubInv, Incoming
      <3>2. Carried(chan[n]) = {Head(chan[n])} \cup Carried(Tail(chan[n]))
        BY <3>1, Streams
      <3> QED
        BY <3>1, <3>2
    <2>2. (~NoPreCreate(ci) => i.pre = <<>>) /\ (~NoPreCreate(cr) => r.pre = <<>>)
      <3> HIDE DEF i, r, ci, cr
      <3> QED
        BY <1>1 DEF Turn
    <2> QED
      BY <2>1, <2>2, SubNodes DEF NoPreCreate
  <1> QED
    BY <1>4, <1>5 DEF SubInv, NoFault, ReaderNeverBlocks

(***************************************************************************)
(* However the calls of the two nodes, their readers and the close tasks   *)
(* interleave, with any number of conversations reserved and opened and of *)
(* packets on their way: no packet arrives for a conversation its receiver *)
(* does not know, no assertion of subscribe fails, and the reader never    *)
(* waits for room in the pre-action channel (multiplex.rs).                *)
(***************************************************************************)
THEOREM SubscriptionsSound ==
    ASSUME Sized
    PROVE  Spec => [](TypeOK /\ NoFault /\ ReaderNeverBlocks)
  <1>1. Init => LockedSubInv
    BY LockedSubInit
  <1>2. LockedSubInv /\ [Next]_vars => LockedSubInv'
    <2>1. LockedSubInv /\ UNCHANGED vars => LockedSubInv'
      BY DEF vars, LockedSubInv, SubInv, Sized
    <2> QED
      BY <2>1, LockedSubNext
  <1>3. LockedSubInv => TypeOK /\ NoFault /\ ReaderNeverBlocks
    BY LockedSubHolds
  <1> QED
    BY <1>1, <1>2, <1>3, PTL DEF Spec
=============================================================================
