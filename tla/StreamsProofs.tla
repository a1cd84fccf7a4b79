--------------------------- MODULE StreamsProofs ----------------------------
(*****************************************************************************)
(* Ordered delivery for every width of the id and any number of messages,  *)
(* and the nonce versions of the waves of any groups.                      *)
(*                                                                         *)
(* The inductive invariant of ordered delivery counts from what was        *)
(* delivered: a pending packet is at the distance from the expected id     *)
(* that its number has from the next message to deliver, so that an id     *)
(* determines its packet.  The ids that files were given are ahead of what *)
(* was delivered, and no packet has one.                                   *)
(*                                                                         *)
(* calculate_nonce_version takes no number twice: its value lies between   *)
(* the square of the larger of its arguments and the next square, so it    *)
(* gives away which number the larger one is; where it lies in between     *)
(* gives away which argument that was, and the other one.                  *)
(*****************************************************************************)
EXTENDS OrderedDelivery, NonceVersion, SessionPartsProofs

\* Zenon has 30 seconds for each leaf that does not name another prover.
USE ZenonT(30)
-----------------------------------------------------------------------------
(* Ordered delivery *)

Delivered == Len(channel.sink)

Expected == next_expected(channel)

Pending == network \cup channel.map

Numbered ==
    /\ Delivered <= sent
    /\ sent - Delivered <= MaxId + 1
    /\ next_id = id_plus(Expected, sent - Delivered)
    /\ \A i \in 1 .. Delivered : channel.sink[i] = i
    /\ \A e \in Pending : /\ Delivered < e.packet /\ e.packet <= sent
                          /\ e.id = id_plus(Expected, e.packet - Delivered - 1)

\* The ids of files are not passed.
Ahead ==
    /\ \A g \in grouped : Delivered < g
    /\ \A e \in Pending : e.packet \notin grouped

Covered ==
    channel.open =>
        \A m \in Delivered + 1 .. sent : m \notin grouped => \E e \in Pending : e.packet = m

IInv ==
    /\ TypeOK
    /\ Numbered
    /\ network \cap channel.map = {}
    /\ ~stored(channel.map, Expected)
    /\ Ahead
    /\ Covered

\* Types of the parts the steps below speak of.
LEMMA Types ==
    ASSUME TypeOK
    PROVE  /\ channel.sink \in Seq(Nat) /\ Delivered \in Nat
           /\ channel.last \in Id \cup {None}
           /\ channel.open \in BOOLEAN
           /\ Expected \in Id
           /\ \A e \in Pending : /\ e.id \in Id /\ e.packet \in Nat
                                 /\ e = [id |-> e.id, packet |-> e.packet]
  <1>1. channel.sink \in Seq(Nat) /\ channel.last \in Id \cup {None} /\ channel.open \in BOOLEAN
    BY DEF TypeOK, ChannelType
  <1>2. Delivered \in Nat
    BY SMTT(30), <1>1 DEF Delivered
  <1>3. Expected \in Id
    BY NextExpectedType DEF TypeOK, Expected
  <1>4. Pending \in SUBSET [id : Id, packet : Nat]
    BY DEF Pending, TypeOK, ChannelType
  <1> QED
    BY SMTT(30), <1>1, <1>2, <1>3, <1>4

\* In the initial state nothing is pending.
LEMMA InitInv == Init => IInv
  <1> SUFFICES ASSUME Init PROVE IInv
    OBVIOUS
  <1>1. /\ channel.sink = <<>> /\ channel.map = {} /\ channel.last = None
        /\ channel.open = TRUE
    BY DEF Init, new_channel
  <1>2. channel \in ChannelType(Nat)
    BY SMTT(30) DEF Init, new_channel, ChannelType
  <1>3. TypeOK
    BY <1>2, IdZero DEF Init, TypeOK
  <1>4. Delivered = 0 /\ Expected = 0 /\ Pending = {}
    BY <1>1 DEF Delivered, Expected, next_expected, Pending, Init
  <1>5. id_plus(0, 0) = 0
    BY IdZero
  <1> QED
    BY SMTT(30), <1>1, <1>3, <1>4, <1>5, OrderedChannelAssumption
    DEF IInv, Numbered, Ahead, Covered, stored, Init

\* A pending packet is known by its id.
LEMMA PendingUnique ==
    ASSUME TypeOK, Numbered, NEW e \in Pending, NEW j \in 0 .. MaxId,
           e.id = id_plus(Expected, j)
    PROVE  e.packet = Delivered + 1 + j
  <1>1. /\ Delivered \in Nat /\ e.packet \in Nat /\ Expected \in Id
        /\ sent \in Nat /\ MaxId \in Nat
    BY Types, OrderedChannelAssumption DEF TypeOK
  <1>2. e.packet - Delivered - 1 \in 0 .. MaxId
    BY SMTT(30), <1>1 DEF Numbered
  <1>3. id_plus(Expected, e.packet - Delivered - 1) = id_plus(Expected, j)
    BY DEF Numbered
  <1>4. e.packet - Delivered - 1 = j
    BY <1>1, <1>2, <1>3, IdInjective
  <1> QED
    BY SMTT(30), <1>1, <1>4

\* Sending: the new packet is the farthest from the expected one.
LEMMA SendInv == IInv /\ Send => IInv'
  <1> SUFFICES ASSUME IInv, Send PROVE IInv'
    OBVIOUS
  <1> DEFINE e0 == [id |-> next_id, packet |-> sent + 1]
  <1>1. /\ TypeOK /\ Numbered /\ Delivered \in Nat /\ Expected \in Id
        /\ sent \in Nat /\ MaxId \in Nat /\ next_id \in Id
    BY Types, OrderedChannelAssumption DEF IInv, TypeOK
  <1>2. /\ sent' = sent + 1 /\ next_id' = id_plus(next_id, 1)
        /\ network' = network \cup {e0} /\ channel' = channel /\ grouped' = grouped
        /\ sent - Delivered <= MaxId
    BY DEF Send, Delivered
  <1>3. Delivered' = Delivered /\ Expected' = Expected
    BY <1>2 DEF Delivered, Expected
  <1>4. Pending' = Pending \cup {e0}
    BY <1>2 DEF Pending
  <1>5. e0 \in [id : Id, packet : Nat] /\ e0.id = next_id /\ e0.packet = sent + 1
    BY SMTT(30), <1>1
  <1>6. next_id = id_plus(Expected, sent - Delivered) /\ Delivered <= sent
    BY <1>1 DEF Numbered
  <1> HIDE DEF e0
  <1>7. TypeOK'
    <2>1. id_plus(next_id, 1) \in Id
      <3>1. 1 \in 0 .. MaxId + 1
        BY SMTT(30), <1>1
      <3> QED
        BY <1>1, <3>1, IdType
    <2>2. grouped \in SUBSET (1 .. sent + 1) /\ sent + 1 \in Nat
      BY SMTT(30), <1>1 DEF TypeOK
    <2> QED
      BY <1>1, <1>2, <1>5, <2>1, <2>2 DEF TypeOK
  <1>8. Numbered'
    <2>1. id_plus(next_id, 1) = id_plus(Expected, sent - Delivered + 1)
      <3>1. sent - Delivered \in Nat /\ sent - Delivered + 1 <= MaxId + 1
        BY SMTT(30), <1>1, <1>2, <1>6
      <3> QED
        BY SMTT(30), <1>1, <1>6, <3>1, IdAdd
    <2>2. sent - Delivered + 1 = sent + 1 - Delivered /\ sent + 1 - Delivered - 1 = sent - Delivered
      BY SMTT(30), <1>1
    <2>3. ASSUME NEW e \in Pending \cup {e0}
          PROVE  /\ Delivered < e.packet /\ e.packet <= sent + 1
                 /\ e.id = id_plus(Expected, e.packet - Delivered - 1)
      <3>1. CASE e \in Pending
        <4>1. e.packet \in Nat
          BY <1>1, <3>1, Types
        <4> QED
          BY SMTT(30), <1>1, <3>1, <4>1 DEF Numbered
      <3>2. CASE e = e0
        <4>1. e.packet = sent + 1 /\ e.id = next_id
          BY <1>5, <3>2
        <4>2. e.packet - Delivered - 1 = sent - Delivered
          BY SMTT(30), <1>1, <4>1
        <4>3. e.id = id_plus(Expected, e.packet - Delivered - 1)
          BY <1>6, <4>1, <4>2
        <4> QED
          BY SMTT(30), <1>1, <1>6, <4>1, <4>3
      <3> QED
        BY <3>1, <3>2
    <2>4. Delivered <= sent + 1 /\ sent + 1 - Delivered <= MaxId + 1
      BY SMTT(30), <1>1, <1>2, <1>6
    <2>5. \A i \in 1 .. Delivered : channel.sink[i] = i
      BY <1>1 DEF Numbered
    <2>6. next_id' = id_plus(Expected', sent' - Delivered')
      BY SMTT(30), <1>1, <1>2, <1>3, <2>1, <2>2
    <2>7. \A e \in Pending' : /\ Delivered' < e.packet /\ e.packet <= sent'
                             /\ e.id = id_plus(Expected', e.packet - Delivered' - 1)
      BY <1>2, <1>3, <1>4, <2>3
    <2> QED
      BY SMTT(30), <1>1, <1>2, <1>3, <2>4, <2>5, <2>6, <2>7 DEF Numbered
  <1>9. (network \cap channel.map = {})'
    <2>1. e0 \notin channel.map
      <3>1. \A e \in channel.map : e.packet <= sent
        BY <1>1 DEF Numbered, Pending
      <3> QED
        BY SMTT(30), <1>1, <1>5, <3>1
    <2> QED
      BY <1>2, <2>1 DEF IInv
  <1>10. Covered'
    <2> SUFFICES ASSUME channel.open, NEW m \in Delivered + 1 .. sent + 1, m \notin grouped
                 PROVE  \E e \in Pending \cup {e0} : e.packet = m
      BY <1>2, <1>3, <1>4 DEF Covered
    <2>1. m \in Delivered + 1 .. sent \/ m = sent + 1
      BY SMTT(30), <1>1
    <2> QED
      BY <1>5, <2>1 DEF IInv, Covered
  <1>11. Ahead'
    <2>1. sent + 1 \notin grouped
      BY SMTT(30), <1>1 DEF TypeOK
    <2> QED
      BY <1>2, <1>3, <1>4, <1>5, <2>1 DEF IInv, Ahead
  <1> QED
    BY <1>2, <1>3, <1>7, <1>8, <1>9, <1>10, <1>11 DEF IInv

\* A file is sent: the ids of its groups are the farthest, and nothing is pending
\* for them.
LEMMA SendFileInv ==
    ASSUME IInv, NEW groups \in 1 .. MaxGroups, SendFile(groups)
    PROVE  IInv'
  <1>1. /\ TypeOK /\ Numbered /\ Delivered \in Nat /\ Expected \in Id /\ groups \in Nat
        /\ sent \in Nat /\ MaxId \in Nat /\ next_id \in Id /\ grouped \in SUBSET (1 .. sent)
    BY SMTT(30), Types, OrderedChannelAssumption, OrderedDeliveryAssumption DEF IInv, TypeOK
  <1>2. /\ sent' = sent + groups /\ next_id' = id_plus(next_id, groups)
        /\ network' = network /\ channel' = channel
        /\ grouped' = grouped \cup sent + 1 .. sent + groups
        /\ sent + groups - Delivered <= MaxId + 1
    BY DEF SendFile, Delivered
  <1>3. Delivered' = Delivered /\ Expected' = Expected /\ Pending' = Pending
    BY <1>2 DEF Delivered, Expected, Pending
  <1>4. /\ next_id = id_plus(Expected, sent - Delivered) /\ Delivered <= sent
        /\ sent - Delivered \in Nat /\ sent - Delivered + groups <= MaxId + 1
        /\ sent - Delivered + groups = sent + groups - Delivered
        /\ sent - Delivered + groups \in 0 .. MaxId + 1 /\ sent + groups \in Nat
    BY SMTT(30), <1>1, <1>2 DEF Numbered
  <1>5. next_id' = id_plus(Expected, sent - Delivered + groups)
    BY <1>1, <1>2, <1>4, IdAdd
  <1>6. TypeOK'
    <2>1. next_id' \in Id
      BY <1>1, <1>4, <1>5, IdType
    <2>2. grouped' \in SUBSET (1 .. sent + groups)
      BY SMTT(30), <1>1, <1>2
    <2> QED
      BY <1>1, <1>2, <1>4, <2>1, <2>2 DEF TypeOK
  <1>7. Numbered'
    <2>1. ASSUME NEW e \in Pending
          PROVE  /\ Delivered < e.packet /\ e.packet <= sent + groups
                 /\ e.id = id_plus(Expected, e.packet - Delivered - 1)
      <3>1. e.packet \in Nat
        BY <1>1, Types
      <3> QED
        BY SMTT(30), <1>1, <3>1 DEF Numbered
    <2>2. Delivered <= sent + groups /\ \A i \in 1 .. Delivered : channel.sink[i] = i
      BY SMTT(30), <1>1, <1>4 DEF Numbered
    <2>3. /\ sent' - Delivered' <= MaxId + 1 /\ Delivered' <= sent'
          /\ next_id' = id_plus(Expected', sent' - Delivered')
      BY SMTT(30), <1>1, <1>2, <1>3, <1>4, <1>5, <2>2
    <2>4. \A i \in 1 .. Delivered' : channel'.sink[i] = i
      BY <1>2, <1>3, <2>2
    <2>5. \A e \in Pending' : /\ Delivered' < e.packet /\ e.packet <= sent'
                             /\ e.id = id_plus(Expected', e.packet - Delivered' - 1)
      BY <1>2, <1>3, <2>1
    <2> QED
      BY <2>3, <2>4, <2>5 DEF Numbered
  <1>8. Ahead'
    <2>1. \A g \in sent + 1 .. sent + groups : Delivered < g /\ sent < g
      BY SMTT(30), <1>1, <1>4
    <2>2. \A e \in Pending : e.packet \notin sent + 1 .. sent + groups
      <3> SUFFICES ASSUME NEW e \in Pending, e.packet \in sent + 1 .. sent + groups
                   PROVE  FALSE
        OBVIOUS
      <3>1. e.packet \in Nat /\ e.packet <= sent
        BY <1>1, Types DEF Numbered
      <3> QED
        BY SMTT(30), <1>1, <3>1
    <2> QED
      BY <1>2, <1>3, <2>1, <2>2 DEF IInv, Ahead
  <1>9. Covered'
    <2> SUFFICES ASSUME channel.open, NEW m \in Delivered + 1 .. sent + groups,
                        m \notin grouped, m \notin sent + 1 .. sent + groups
                 PROVE  \E e \in Pending : e.packet = m
      BY <1>2, <1>3 DEF Covered
    <2>1. m \in Delivered + 1 .. sent
      BY SMTT(30), <1>1
    <2> QED
      BY <2>1 DEF IInv, Covered
  <1> QED
    BY <1>2, <1>3, <1>6, <1>7, <1>8, <1>9 DEF IInv

\* Dropping the receiver changes nothing but the flag.
LEMMA DropInv == IInv /\ DropReceiver => IInv'
  <1> SUFFICES ASSUME IInv, DropReceiver PROVE IInv'
    OBVIOUS
  <1>1. channel \in ChannelType(Nat)
    BY DEF IInv, TypeOK
  <1>2. /\ channel' = [channel EXCEPT !.open = FALSE]
        /\ sent' = sent /\ next_id' = next_id /\ network' = network /\ grouped' = grouped
    BY DEF DropReceiver
  <1>3. /\ channel' \in ChannelType(Nat)
        /\ channel'.sink = channel.sink /\ channel'.map = channel.map
        /\ channel'.last = channel.last /\ channel'.open = FALSE
    BY <1>1, <1>2 DEF ChannelType
  <1>4. Delivered' = Delivered /\ Expected' = Expected /\ Pending' = Pending
    BY SMTT(30), <1>2, <1>3 DEF Delivered, Expected, next_expected, Pending
  <1>5. TypeOK'
    BY <1>2, <1>3 DEF IInv, TypeOK
  <1>6. Numbered'
    BY <1>2, <1>3, <1>4 DEF IInv, Numbered
  <1> QED
    BY <1>2, <1>3, <1>4, <1>5, <1>6 DEF IInv, Ahead, Covered

\* Two pending packets with one id are one packet.
LEMMA PendingSame ==
    ASSUME TypeOK, Numbered, NEW e \in Pending, NEW f \in Pending, e.id = f.id
    PROVE  e = f
  <1> DEFINE j == e.packet - Delivered - 1
  <1>1. /\ Delivered \in Nat /\ e.packet \in Nat /\ f.packet \in Nat
        /\ sent \in Nat /\ MaxId \in Nat
        /\ e = [id |-> e.id, packet |-> e.packet]
        /\ f = [id |-> f.id, packet |-> f.packet]
    BY Types, OrderedChannelAssumption DEF TypeOK
  <1>2. j \in 0 .. MaxId /\ e.id = id_plus(Expected, j)
    BY SMTT(30), <1>1 DEF Numbered
  <1>3. f.packet = Delivered + 1 + j
    BY <1>2, PendingUnique
  <1>4. f.packet = e.packet
    BY SMTT(30), <1>1, <1>3
  <1> QED
    BY <1>1, <1>4

\* A packet that is early is stored, and is pending as before.
LEMMA ArriveEarlyInv ==
    ASSUME IInv, NEW e \in network, Arrive(e), e.id # Expected
    PROVE  IInv'
  <1>1. /\ TypeOK /\ Numbered /\ channel \in ChannelType(Nat)
        /\ network \cap channel.map = {} /\ ~stored(channel.map, Expected)
    BY DEF IInv, TypeOK
  <1>2. e \in Pending /\ \A f \in channel.map : f \in Pending
    BY DEF Pending
  <1>3. /\ e.id \in Id /\ e.packet \in Nat
        /\ e = [id |-> e.id, packet |-> e.packet]
    BY <1>1, <1>2, Types
  <1>4. /\ network' = network \ {e} /\ sent' = sent /\ next_id' = next_id
        /\ grouped' = grouped
        /\ channel' = store_received_packet(channel, e.id, e.packet)
    BY DEF Arrive, on_packet_received, Expected
  <1>5. /\ channel' \in ChannelType(Nat)
        /\ channel'.map = {f \in channel.map : f.id # e.id} \cup {e}
        /\ channel'.sink = channel.sink
        /\ channel'.last = channel.last
        /\ channel'.open = channel.open
    BY SMTT(30), <1>1, <1>3, <1>4, StoreReceivedPacket
  <1>6. \A f \in channel.map : f.id # e.id
    BY <1>1, <1>2, PendingSame
  <1>7. channel'.map = channel.map \cup {e}
    BY <1>5, <1>6
  <1>8. Delivered' = Delivered /\ Expected' = Expected /\ Pending' = Pending
    BY <1>4, <1>5, <1>7 DEF Delivered, Expected, next_expected, Pending
  <1>9. TypeOK'
    BY <1>1, <1>4, <1>5 DEF TypeOK
  <1>10. Numbered'
    BY <1>1, <1>4, <1>5, <1>8 DEF Numbered
  <1>11. (network \cap channel.map = {})' /\ ~stored(channel'.map, Expected')
    BY <1>1, <1>4, <1>7, <1>8 DEF stored
  <1> QED
    BY <1>4, <1>5, <1>8, <1>9, <1>10, <1>11 DEF IInv, Ahead, Covered

\* A packet for a dropped receiver is lost.
LEMMA ArriveClosedInv ==
    ASSUME IInv, NEW e \in network, Arrive(e), e.id = Expected, ~channel.open
    PROVE  IInv'
  <1>1. /\ network' = network \ {e} /\ sent' = sent /\ next_id' = next_id
        /\ grouped' = grouped /\ channel' = channel
    BY DEF Arrive, on_packet_received, send_then_scan, Expected
  <1>2. Delivered' = Delivered /\ Expected' = Expected /\ Pending' \subseteq Pending
    BY <1>1 DEF Delivered, Expected, Pending
  <1>3. TypeOK'
    BY <1>1 DEF IInv, TypeOK
  <1>4. Numbered'
    BY <1>1, <1>2 DEF IInv, Numbered
  <1> QED
    BY <1>1, <1>2, <1>3, <1>4 DEF IInv, Ahead, Covered

(***************************************************************************)
(* The expected packet is delivered, and with it all that follow it        *)
(* without a gap.                                                          *)
(***************************************************************************)
LEMMA ArriveExpectedInv ==
    ASSUME IInv, NEW e \in network, Arrive(e), e.id = Expected, channel.open
    PROVE  IInv'
  <1> DEFINE x == Expected
             d == Delivered
             n == scan_length(channel.map, e.id)
             scan == [k \in 1 .. n |-> packet_of(channel.map, id_plus(e.id, k))]
             D == d + 1 + n
  <1>1. /\ TypeOK /\ Numbered /\ channel \in ChannelType(Nat)
        /\ network \cap channel.map = {} /\ ~stored(channel.map, x) /\ Ahead /\ Covered
        /\ grouped \in SUBSET (1 .. sent)
    BY DEF IInv, TypeOK
  <1>2. /\ x \in Id /\ d \in Nat /\ sent \in Nat /\ MaxId \in Nat
        /\ channel.sink \in Seq(Nat) /\ Len(channel.sink) = d
        /\ \A f \in Pending : f.id \in Id /\ f.packet \in Nat
    BY <1>1, Types, OrderedChannelAssumption DEF TypeOK, Delivered
  <1>3. e \in Pending /\ (\A f \in channel.map : f \in Pending) /\ \A f \in network : f \in Pending
    BY DEF Pending
  <1>4. e.packet \in Nat /\ e.id \in Id /\ e.id = x
    BY <1>2, <1>3
  <1>5. e.packet = d + 1
    <2>1. 0 \in 0 .. MaxId /\ e.id = id_plus(x, 0)
      BY SMTT(30), <1>2, <1>4, IdZero
    <2>2. e.packet = d + 1 + 0
      BY <1>1, <1>3, <2>1, PendingUnique
    <2> QED
      BY SMTT(30), <1>2, <2>2
  <1>6. /\ network' = network \ {e} /\ sent' = sent /\ next_id' = next_id
        /\ grouped' = grouped
        /\ channel' = send_then_scan(channel, e.id, e.packet).channel
    BY DEF Arrive, on_packet_received, Expected
  <1>7. /\ n \in 0 .. MaxId
        /\ scan \in Seq(Nat) /\ Len(scan) = n
        /\ channel' \in ChannelType(Nat)
        /\ channel'.sink = Append(channel.sink, e.packet) \o scan
        /\ channel'.map = {f \in channel.map : \A k \in 1 .. n : f.id # id_plus(e.id, k)}
        /\ channel'.last = id_plus(e.id, n)
        /\ channel'.open = channel.open
    <2> DEFINE new == send_then_scan(channel, e.id, e.packet).channel
    <2>1. Scanned(Nat, channel, e.id, e.packet)
      BY <1>1, <1>4, SendThenScan
    <2>2. /\ n \in 0 .. MaxId
          /\ scan \in Seq(Nat) /\ Len(scan) = n
          /\ new \in ChannelType(Nat)
          /\ new.sink = Append(channel.sink, e.packet) \o scan
          /\ new.map = {f \in channel.map : \A k \in 1 .. n : f.id # id_plus(e.id, k)}
          /\ new.last = id_plus(e.id, n)
          /\ new.open = channel.open
      BY <2>1 DEF Scanned
    <2> HIDE DEF n, scan, new
    <2> QED
      BY <1>6, <2>2 DEF new
  <1>8. /\ \A k \in 1 .. n : stored(channel.map, id_plus(x, k))
        /\ n < MaxId => ~stored(channel.map, id_plus(x, n + 1))
    BY <1>4, ScanLength
  <1>9. \A k \in 1 .. n : scan[k] = packet_of(channel.map, id_plus(x, k))
    BY <1>4
  <1> HIDE DEF x, d, n, scan
  <1>10. n \in Nat /\ n <= MaxId
    BY SMTT(30), <1>2, <1>7
  <1>11. ASSUME NEW k \in 1 .. n, NEW f \in channel.map, f.id = id_plus(x, k)
         PROVE  f.packet = d + 1 + k
    <2>1. k \in 0 .. MaxId
      BY SMTT(30), <1>2, <1>10
    <2> QED
      BY <1>1, <1>3, <1>11, <2>1, PendingUnique DEF x, d
  <1>12. \A k \in 1 .. n : scan[k] = d + 1 + k
    <2> SUFFICES ASSUME NEW k \in 1 .. n PROVE scan[k] = d + 1 + k
      OBVIOUS
    <2> DEFINE f == CHOOSE g \in channel.map : g.id = id_plus(x, k)
    <2>1. f \in channel.map /\ f.id = id_plus(x, k)
      BY <1>8 DEF stored
    <2>2. scan[k] = f.packet
      BY <1>9 DEF packet_of
    <2> HIDE DEF f
    <2> QED
      BY <1>11, <2>1, <2>2
  <1>13. D \in Nat /\ D <= sent
    <2>1. CASE n = 0
      BY SMTT(30), <1>1, <1>2, <1>3, <1>5, <2>1 DEF Numbered
    <2>2. CASE n > 0
      <3>1. n \in 1 .. n
        BY SMTT(30), <1>10, <2>2
      <3>2. PICK f \in channel.map : f.id = id_plus(x, n)
        BY <1>8, <3>1 DEF stored
      <3>3. f.packet = D
        BY <1>11, <3>1, <3>2
      <3> QED
        BY <1>1, <1>2, <1>3, <1>10, <3>2, <3>3 DEF Numbered
    <2> QED
      BY SMTT(30), <1>10, <2>1, <2>2
  <1>14. D = d + 1 + n
    OBVIOUS
  <1> HIDE DEF D
  <1>15. Delivered' = D /\ \A i \in 1 .. D : channel'.sink[i] = i
    <2> DEFINE first == Append(channel.sink, e.packet)
    <2>1. /\ first \in Seq(Nat) /\ Len(first) = d + 1
          /\ first[d + 1] = e.packet
          /\ \A i \in 1 .. d : first[i] = channel.sink[i]
      BY SMTT(30), <1>2, <1>4
    <2> HIDE DEF first
    <2>2. /\ Len(channel'.sink) = D
          /\ \A i \in 1 .. d + 1 : channel'.sink[i] = first[i]
          /\ \A k \in 1 .. n : channel'.sink[d + 1 + k] = scan[k]
      <3>0. first \in Seq(Nat) /\ scan \in Seq(Nat)
        BY <1>7, <2>1
      <3>1. channel'.sink = first \o scan
        BY <1>7 DEF first
      <3>2. Len(first \o scan) = Len(first) + Len(scan)
        BY SMTT(30), <3>0
      <3>3. \A i \in 1 .. Len(first) + Len(scan) :
                (first \o scan)[i] = IF i <= Len(first) THEN first[i]
                                     ELSE scan[i - Len(first)]
        BY SMTT(30), <3>0
      <3>4. \A k \in 1 .. n : /\ d + 1 + k \in 1 .. d + 1 + n
                              /\ ~(d + 1 + k <= d + 1)
                              /\ d + 1 + k - (d + 1) = k
        BY SMTT(30), <1>2, <1>10
      <3>5. \A i \in 1 .. d + 1 : i \in 1 .. d + 1 + n /\ i <= d + 1
        BY SMTT(30), <1>2, <1>10
      <3> QED
        BY SMTT(30), <1>2, <1>7, <1>10, <1>14, <2>1, <3>1, <3>2, <3>3, <3>4, <3>5
    <2>3. \A i \in 1 .. D : channel'.sink[i] = i
      <3> SUFFICES ASSUME NEW i \in 1 .. D PROVE channel'.sink[i] = i
        OBVIOUS
      <3>1. CASE i \in 1 .. d
        <4>1. channel.sink[i] = i
          BY <1>1, <3>1 DEF Numbered, d
        <4>2. i \in 1 .. d + 1
          BY SMTT(30), <1>2, <3>1
        <4> QED
          BY <2>1, <2>2, <3>1, <4>1, <4>2
      <3>2. CASE i = d + 1
        BY SMTT(30), <1>2, <1>5, <2>1, <2>2, <3>2
      <3>3. CASE i > d + 1
        <4> DEFINE k == i - (d + 1)
        <4>1. k \in 1 .. n /\ d + 1 + k = i
          BY SMTT(30), <1>2, <1>10, <1>14, <3>3
        <4> HIDE DEF k
        <4> QED
          BY <1>12, <2>2, <4>1
      <3> QED
        BY SMTT(30), <1>2, <1>10, <1>14, <3>1, <3>2, <3>3
    <2> QED
      BY <2>2, <2>3 DEF Delivered
  <1>16. Expected' = id_plus(x, n + 1) /\ Expected' \in Id
    <2>1. n \in 0 .. MaxId + 1 /\ n + 1 \in 0 .. MaxId + 1
      BY SMTT(30), <1>2, <1>10
    <2>2. id_plus(x, n) \in Id /\ id_plus(x, n + 1) \in Id
      BY <1>2, <2>1, IdType
    <2>3. channel'.last = id_plus(x, n) /\ channel'.last # None
      BY SMTT(30), <1>2, <1>4, <1>7, <2>2, NoneAssumption DEF Id
    <2>4. Expected' = id_plus(id_plus(x, n), 1)
      BY <2>3 DEF Expected, next_expected
    <2> QED
      BY SMTT(30), <1>2, <1>10, <2>1, <2>2, <2>4, IdAdd
  <1>17. ASSUME NEW f \in Pending
         PROVE  /\ f.packet \in Nat /\ d < f.packet /\ f.packet <= sent
                /\ f.packet - d - 1 \in 0 .. MaxId
                /\ f.id = id_plus(x, f.packet - d - 1)
    BY SMTT(30), <1>1, <1>2 DEF Numbered, d, x
  <1>18. ASSUME NEW f \in Pending, f.packet > D
         PROVE  f.id = id_plus(Expected', f.packet - D - 1)
    <2> DEFINE j == f.packet - D - 1
    <2>1. j \in Nat /\ n + 1 \in Nat /\ n + 1 + j = f.packet - d - 1
      <3>1. f.packet \in Nat
        BY <1>17
      <3> QED
        BY SMTT(30), <1>2, <1>10, <1>13, <1>14, <1>18, <3>1
    <2>2. n + 1 + j <= MaxId + 1
      BY SMTT(30), <1>2, <1>17, <2>1
    <2> HIDE DEF j
    <2>3. id_plus(id_plus(x, n + 1), j) = id_plus(x, n + 1 + j)
      BY <1>2, <2>1, <2>2, IdAdd
    <2> QED
      BY <1>16, <1>17, <2>1, <2>3 DEF j
  <1>19. ASSUME NEW f \in Pending'
         PROVE  f \in Pending /\ f.packet > D
    <2>1. f \in Pending
      BY <1>6, <1>7 DEF Pending
    <2>2. f.id # x
      <3>1. CASE f \in channel'.map
        BY <1>1, <1>7, <3>1 DEF stored
      <3>2. CASE f \in network \ {e}
        BY <1>1, <1>3, <1>4, <3>2, PendingSame
      <3> QED
        BY <1>6, <3>1, <3>2 DEF Pending
    <2>3. \A k \in 1 .. n : f.id # id_plus(x, k)
      <3>1. CASE f \in channel'.map
        BY <1>4, <1>7, <3>1
      <3>2. CASE f \in network
        <4> SUFFICES ASSUME NEW k \in 1 .. n, f.id = id_plus(x, k) PROVE FALSE
          OBVIOUS
        <4>1. PICK g \in channel.map : g.id = id_plus(x, k)
          BY <1>8 DEF stored
        <4>2. g = f
          BY <1>1, <1>3, <3>2, <4>1, PendingSame
        <4> QED
          BY <1>1, <3>2, <4>2
      <3> QED
        BY <1>6, <3>1, <3>2 DEF Pending
    <2> DEFINE j == f.packet - d - 1
    <2>4. j \in 0 .. MaxId /\ f.id = id_plus(x, j) /\ f.packet = d + 1 + j
      BY SMTT(30), <1>2, <1>17, <2>1
    <2> HIDE DEF j
    <2>5. j # 0
      BY <1>2, <2>2, <2>4, IdZero
    <2>6. j \notin 1 .. n
      BY <2>3, <2>4
    <2> QED
      BY SMTT(30), <1>2, <1>10, <1>14, <2>1, <2>4, <2>5, <2>6
  <1>20. TypeOK'
    BY <1>1, <1>6, <1>7 DEF TypeOK
  <1>21. Numbered'
    <2>1. next_id = id_plus(Expected', sent - D)
      <3> DEFINE j == sent - D
      <3>1. j \in Nat /\ n + 1 \in Nat /\ n + 1 + j = sent - d
        BY SMTT(30), <1>2, <1>10, <1>13, <1>14
      <3>2. n + 1 + j <= MaxId + 1 /\ next_id = id_plus(x, n + 1 + j)
        BY <1>1, <1>2, <3>1 DEF Numbered, d, x
      <3> HIDE DEF j
      <3>3. id_plus(id_plus(x, n + 1), j) = id_plus(x, n + 1 + j)
        BY <1>2, <3>1, <3>2, IdAdd
      <3> QED
        BY <1>16, <3>2, <3>3 DEF j
    <2>2. sent - D <= MaxId + 1
      BY SMTT(30), <1>1, <1>2, <1>10, <1>13, <1>14 DEF Numbered, d
    <2>3. ASSUME NEW f \in Pending'
          PROVE  /\ D < f.packet /\ f.packet <= sent
                 /\ f.id = id_plus(Expected', f.packet - D - 1)
      <3>1. f \in Pending /\ f.packet > D
        BY <1>19
      <3>2. f.packet \in Nat /\ f.packet <= sent
        BY <1>17, <3>1
      <3>3. f.id = id_plus(Expected', f.packet - D - 1)
        BY <1>18, <3>1
      <3> QED
        BY <1>13, <3>1, <3>2, <3>3
    <2> QED
      BY <1>2, <1>6, <1>13, <1>15, <2>1, <2>2, <2>3 DEF Numbered
  <1>22. (network \cap channel.map = {})'
    BY <1>1, <1>6, <1>7
  <1>23. ~stored(channel'.map, Expected')
    <2>1. CASE n < MaxId
      BY <1>7, <1>8, <1>16, <2>1 DEF stored
    <2>2. CASE n = MaxId
      <3>1. id_plus(x, n + 1) = x
        BY SMTT(30), <1>2, <2>2 DEF id_plus, Id
      <3> QED
        BY <1>1, <1>7, <1>16, <3>1 DEF stored
    <2> QED
      BY SMTT(30), <1>2, <1>10, <2>1, <2>2
  <1>24. Covered'
    <2> SUFFICES ASSUME NEW m \in D + 1 .. sent, m \notin grouped
                 PROVE  \E f \in Pending' : f.packet = m
      BY <1>6, <1>15 DEF Covered
    <2>1. m \in d + 1 .. sent /\ m > d + 1 /\ m > d + 1 + n
      BY SMTT(30), <1>2, <1>10, <1>13, <1>14
    <2>2. PICK f \in Pending : f.packet = m
      BY <1>1, <2>1 DEF Covered, d
    <2>3. CASE f \in network
      <3>1. f # e
        BY SMTT(30), <1>2, <1>5, <2>1, <2>2
      <3> QED
        BY <1>6, <2>2, <2>3, <3>1 DEF Pending
    <2>4. CASE f \in channel.map
      <3>1. ASSUME NEW k \in 1 .. n, f.id = id_plus(x, k) PROVE FALSE
        BY SMTT(30), <1>2, <1>10, <1>11, <2>1, <2>2, <2>4, <3>1
      <3>2. f \in channel'.map
        BY <1>4, <1>7, <2>4, <3>1
      <3> QED
        BY <2>2, <3>2 DEF Pending
    <2> QED
      BY <2>3, <2>4 DEF Pending
  <1>25. Ahead'
    <2>1. ASSUME NEW g \in grouped PROVE D < g
      <3>1. g \in Nat /\ d < g
        BY SMTT(30), <1>1, <1>2 DEF Ahead, d
      <3>2. g # d + 1
        BY <1>1, <1>3, <1>5 DEF Ahead
      <3>3. ASSUME NEW k \in 1 .. n PROVE g # d + 1 + k
        <4>1. PICK f \in channel.map : f.id = id_plus(x, k)
          BY <1>8 DEF stored
        <4>2. f.packet = d + 1 + k
          BY <1>11, <4>1
        <4> QED
          BY <1>1, <1>3, <4>2 DEF Ahead
      <3>4. SUFFICES ASSUME g <= D PROVE FALSE
        BY SMTT(30), <1>13, <3>1
      <3> DEFINE k == g - (d + 1)
      <3>5. k \in 1 .. n /\ g = d + 1 + k
        BY SMTT(30), <1>2, <1>10, <1>14, <3>1, <3>2, <3>4
      <3> HIDE DEF k
      <3> QED
        BY <3>3, <3>5
    <2> QED
      BY <1>1, <1>6, <1>15, <1>19, <2>1 DEF Ahead
  <1> QED
    BY <1>20, <1>21, <1>22, <1>23, <1>24, <1>25 DEF IInv

(***************************************************************************)
(* The invariant holds throughout.                                         *)
(***************************************************************************)
LEMMA Invariant == Spec => []IInv
  <1>1. IInv /\ [Next]_vars => IInv'
    <2> SUFFICES ASSUME IInv, [Next]_vars PROVE IInv'
      OBVIOUS
    <2>1. CASE Send
      BY <2>1, SendInv
    <2>2. CASE \E e \in network : Arrive(e)
      BY <2>2, ArriveEarlyInv, ArriveClosedInv, ArriveExpectedInv
    <2>3. CASE DropReceiver
      BY <2>3, DropInv
    <2>4. CASE UNCHANGED vars
      BY <2>4 DEF vars, IInv, TypeOK, Numbered, Ahead, Covered, Delivered, Expected, Pending
    <2>5. CASE \E groups \in 1 .. MaxGroups : SendFile(groups)
      BY <2>5, SendFileInv
    <2> QED
      BY <2>1, <2>2, <2>3, <2>4, <2>5 DEF Next
  <1> QED
    BY <1>1, InitInv, PTL DEF Spec

(***************************************************************************)
(* The pending packets are as many as the messages sent and not delivered. *)
(***************************************************************************)
LEMMA PendingCount ==
    ASSUME IInv, channel.open
    PROVE  Conserved
  <1> DEFINE L == Delivered + 1 .. sent
             M == L \ grouped
             f == [m \in M |-> CHOOSE e \in Pending : e.packet = m]
  <1>1. /\ TypeOK /\ Numbered /\ Delivered \in Nat /\ sent \in Nat
        /\ network \cap channel.map = {}
        /\ \A e \in Pending : e.packet \in Nat
        /\ grouped \subseteq 1 .. sent /\ Ahead
    BY Types DEF IInv, TypeOK
  <1>2. \A m \in M : f[m] \in Pending /\ f[m].packet = m
    BY DEF IInv, Covered
  <1>3. \A e \in Pending : e.packet \in M /\ f[e.packet] = e
    <2> SUFFICES ASSUME NEW e \in Pending
                 PROVE  e.packet \in M /\ f[e.packet] = e
      OBVIOUS
    <2>1. e.packet \in M
      <3>1. e.packet \in L
        BY SMTT(30), <1>1 DEF Numbered
      <3> QED
        BY <1>1, <3>1 DEF Ahead
    <2>2. f[e.packet] \in Pending /\ f[e.packet].packet = e.packet
      BY <1>2, <2>1
    <2> HIDE DEF f
    <2>3. f[e.packet].id = e.id
      BY <1>1, <2>2 DEF Numbered
    <2> QED
      BY <1>1, <2>1, <2>2, <2>3, PendingSame
  <1>4. f \in [M -> Pending]
    BY <1>2
  <1> HIDE DEF f
  <1>5. f \in Bijection(M, Pending)
    <2>1. IsInjective(f)
      BY <1>2, <1>4 DEF IsInjective
    <2>2. \A e \in Pending : \E m \in M : f[m] = e
      BY <1>3
    <2> QED
      BY <1>4, <2>1, <2>2 DEF Bijection, Injection, Surjection
  <1> DEFINE G == Cardinality(grouped)
  <1>6. IsFiniteSet(M) /\ Cardinality(M) = sent - Delivered - G /\ G \in Nat
    <2>1. /\ IsFiniteSet(L)
          /\ Cardinality(L) = IF Delivered + 1 > sent THEN 0 ELSE sent - (Delivered + 1) + 1
      BY SMTT(30), <1>1, FS_Interval
    <2>2. Cardinality(L) = sent - Delivered
      BY SMTT(30), <1>1, <2>1 DEF Numbered
    <2>3. grouped \subseteq L
      BY SMTT(30), <1>1 DEF Ahead
    <2> HIDE DEF L
    <2>4. /\ IsFiniteSet(grouped) /\ G \in Nat /\ L \cap grouped = grouped
          /\ IsFiniteSet(M) /\ Cardinality(M) = Cardinality(L) - Cardinality(L \cap grouped)
      BY <2>1, <2>3, FS_Subset, FS_CardinalityType, FS_Difference
    <2> QED
      BY <2>2, <2>4
  <1> HIDE DEF G
  <1>7. IsFiniteSet(Pending) /\ Cardinality(Pending) = sent - Delivered - G
    BY <1>5, <1>6, FS_Bijection DEF ExistsBijection
  <1>8. IsFiniteSet(network) /\ IsFiniteSet(channel.map)
    BY <1>7, FS_Subset DEF Pending
  <1>9. Cardinality(Pending) = Cardinality(network) + Cardinality(channel.map) - Cardinality({})
    BY <1>1, <1>8, FS_Union DEF Pending
  <1>10. /\ Cardinality(network) \in Nat /\ Cardinality(channel.map) \in Nat
         /\ Cardinality({}) = 0
    BY <1>8, FS_CardinalityType, FS_EmptySet
  <1> QED
    BY SMTT(30), <1>1, <1>6, <1>7, <1>9, <1>10 DEF Conserved, Delivered, G

\* The types of the counters, of the packets under way and of the channel.
THEOREM TypeCorrect == Spec => []TypeOK
  <1>1. IInv => TypeOK
    BY DEF IInv
  <1> QED
    BY <1>1, Invariant, PTL

(***************************************************************************)
(* send_then_scan and scan_send deliver in the order sent, without a gap   *)
(* and nothing twice, for every order of arrival and whatever files are    *)
(* sent in between; nothing that was sent after a file is delivered.       *)
(***************************************************************************)
THEOREM OrderedThroughout == Spec => []InOrder
  <1>1. IInv => InOrder
    <2> SUFFICES ASSUME IInv, NEW i \in 1 .. Delivered, i \in grouped PROVE FALSE
      BY DEF IInv, Numbered, InOrder, Delivered
    <2>1. Delivered \in Nat /\ Delivered < i
      BY Types DEF IInv, Ahead
    <2> QED
      BY SMTT(30), <2>1
  <1> QED
    BY <1>1, Invariant, PTL

\* The buffer never holds the packet it waits for.
THEOREM NeverHeldBack == Spec => []NothingHeldBack
  <1>1. IInv => NothingHeldBack
    BY DEF IInv, NothingHeldBack, Expected
  <1> QED
    BY <1>1, Invariant, PTL

\* Every message sent is under way, stored or delivered, exactly one of these.
THEOREM ConservedThroughout == Spec => []Conserved
  <1>1. IInv => Conserved
    BY PendingCount DEF Conserved
  <1> QED
    BY <1>1, Invariant, PTL
-----------------------------------------------------------------------------
(* Nonce versions *)

Larger(a, b) == IF a < b THEN b ELSE a

\* The squares of two numbers are further apart than twice the smaller one.
LEMMA SquaresApart ==
    ASSUME NEW m \in Nat, NEW n \in Nat, m < n
    PROVE  m * m + 2 * m < n * n
<1>1. (m + 1) * (m + 1) = m * m + 2 * m + 1
  BY SMTT(30)
<1>2. (m + 1) * (m + 1) =< n * (m + 1) /\ n * (m + 1) =< n * n
  BY SMTT(30)
<1>. DEFINE low == m * m + 2 * m
            next == (m + 1) * (m + 1)
            middle == n * (m + 1)
            high == n * n
<1>3. low \in Nat /\ next \in Nat /\ middle \in Nat /\ high \in Nat
  BY SMTT(30)
<1>4. next = low + 1 /\ next =< middle /\ middle =< high
  BY <1>1, <1>2
<1>. QED
  <2>. HIDE DEF low, next, middle, high
  <2>1. low < high
    BY SMTT(30), <1>3, <1>4
  <2>. QED BY <2>1 DEF low, high

\* The nonce version of a wave and a group (calculate_nonce_version) lies between
\* the square of the larger one and the next square.
LEMMA BetweenSquares ==
    ASSUME NEW a \in Nat, NEW b \in Nat
    PROVE  /\ calculate_nonce_version(a, b) \in Nat
           /\ Larger(a, b) * Larger(a, b) =< calculate_nonce_version(a, b)
           /\ calculate_nonce_version(a, b) =< Larger(a, b) * Larger(a, b) + 2 * Larger(a, b)
BY SMTT(30) DEF calculate_nonce_version, Larger

\* A larger argument gives a larger nonce version.
LEMMA LargerGivesLarger ==
    ASSUME NEW a \in Nat, NEW b \in Nat, NEW c \in Nat, NEW d \in Nat,
           Larger(a, b) < Larger(c, d)
    PROVE  calculate_nonce_version(a, b) < calculate_nonce_version(c, d)
<1>. DEFINE m == Larger(a, b)
            n == Larger(c, d)
            low == m * m + 2 * m
            high == n * n
            v == calculate_nonce_version(a, b)
            w == calculate_nonce_version(c, d)
<1>1. m \in Nat /\ n \in Nat
  BY DEF Larger
<1>2. low \in Nat /\ high \in Nat
  BY SMTT(30), <1>1
<1>3. low < high
  BY <1>1, SquaresApart
<1>4. v \in Nat /\ w \in Nat /\ v =< low /\ high =< w
  BY BetweenSquares
<1>. HIDE DEF m, n, low, high, v, w
<1>5. v < w
  BY SMTT(30), <1>2, <1>3, <1>4
<1>. QED BY <1>5 DEF v, w

\* One nonce version has one larger argument.
LEMMA SameLarger ==
    ASSUME NEW a \in Nat, NEW b \in Nat, NEW c \in Nat, NEW d \in Nat,
           calculate_nonce_version(a, b) = calculate_nonce_version(c, d)
    PROVE  Larger(a, b) = Larger(c, d)
<1>1. Larger(a, b) \in Nat /\ Larger(c, d) \in Nat
  BY DEF Larger
<1>2. calculate_nonce_version(a, b) \in Nat /\ calculate_nonce_version(c, d) \in Nat
  BY BetweenSquares
<1>3. ~(Larger(a, b) < Larger(c, d))
  BY SMTT(30), <1>2, LargerGivesLarger
<1>4. ~(Larger(c, d) < Larger(a, b))
  BY SMTT(30), <1>2, LargerGivesLarger
<1>. QED BY SMTT(30), <1>1, <1>3, <1>4

\* calculate_nonce_version is injective.
LEMMA NonceVersionInjective ==
    ASSUME NEW a \in Nat, NEW b \in Nat, NEW c \in Nat, NEW d \in Nat,
           calculate_nonce_version(a, b) = calculate_nonce_version(c, d)
    PROVE  a = c /\ b = d
<1>1. Larger(a, b) = Larger(c, d)
  BY SMTT(30), SameLarger
<1>2. CASE a < b /\ c < d
  BY SMTT(30), <1>1, <1>2 DEF calculate_nonce_version, Larger
<1>3. CASE a < b /\ ~(c < d)
  BY SMTT(30), <1>1, <1>3 DEF calculate_nonce_version, Larger
<1>4. CASE ~(a < b) /\ c < d
  BY SMTT(30), <1>1, <1>4 DEF calculate_nonce_version, Larger
<1>5. CASE ~(a < b) /\ ~(c < d)
  BY SMTT(30), <1>1, <1>5 DEF calculate_nonce_version, Larger
<1>. QED BY <1>2, <1>3, <1>4, <1>5

\* Whatever the number of waves and whichever group is sent, none of its waves is
\* encrypted under the nonce version of another wave, of this group or of another, as
\* long as the version is not cut to its width (calculate_nonce_version).
THEOREM NonceVersionsUnique ==
    group.id \in GroupIds => NonceVersionsDiffer
<1>. SUFFICES ASSUME NEW id \in GroupIds, id = group.id,
                     NEW w1 \in 0..2 * PortRange, NEW w2 \in 0..2 * PortRange,
                     NEW g \in GroupIds,
                     calculate_nonce_version(w1, id) = calculate_nonce_version(w2, g)
              PROVE  w1 = w2 /\ id = g
  BY DEF NonceVersionsDiffer
<1>1. w1 \in Nat /\ w2 \in Nat /\ id \in Nat /\ g \in Nat
  BY SMTT(30), NonceVersionAssumption
<1>. QED BY SMTT(30), <1>1, NonceVersionInjective
=============================================================================
