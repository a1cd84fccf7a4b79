------------------------- MODULE SessionPartsProofs -------------------------
(*****************************************************************************)
(* What the parts of a session guarantee, for every maximum and every      *)
(* width of the numbers: the window of ratchets and the container around   *)
(* it, and the reordering buffer of the ordered channel.                   *)
(*****************************************************************************)
EXTENDS PeerSessionCrypto, OrderedChannel, FiniteSetTheorems, TLAPS

\* Zenon has 30 seconds for each leaf that does not name another prover.
USE ZenonT(30)
-----------------------------------------------------------------------------
(* The window of ratchets and its container *)

\* Version arithmetic stays within the width, also where it wraps.
LEMMA WrapType ==
    /\ 0 \in Version
    /\ \A v \in Version : wrapping_add_1(v) \in Version
    /\ \A a, b \in Version : wrapping_sub(a, b) \in Version
  BY SMTT(30), ToolsetAssumption DEF Version, wrapping_add_1, wrapping_sub

\* The newest version is at distance 0.
LEMMA WrapZero ==
    \A v \in Version : wrapping_sub(v, 0) = v
  BY SMTT(30), ToolsetAssumption DEF Version, wrapping_sub

\* The version before the next one is this one, the test of update_from.
LEMMA WrapInverse ==
    \A v \in Version : wrapping_sub(wrapping_add_1(v), 1) = v
  BY SMTT(30), ToolsetAssumption DEF Version, wrapping_add_1, wrapping_sub

\* Distances from the newest version grow by one with every commit.
LEMMA WrapShift ==
    \A v \in Version : \A d \in 1 .. MaxVersion :
        wrapping_sub(wrapping_add_1(v), d) = wrapping_sub(v, d - 1)
  BY SMTT(30), ToolsetAssumption DEF Version, wrapping_add_1, wrapping_sub

\* A version is its distance from the newest one, taken off the newest one.
LEMMA WrapDistance ==
    \A a, b \in Version : wrapping_sub(a, wrapping_sub(a, b)) = b
  BY SMTT(30), ToolsetAssumption DEF Version, wrapping_sub

\* Toolset::new: a window of one ratchet.
LEMMA NewToolset ==
    ASSUME NEW Kex, NEW kex \in Kex
    PROVE  LET ts == new_toolset([version |-> 0, kex |-> kex])
           IN  ts \in ToolsetType(Kex) /\ Window(ts)
  <1> DEFINE hr == [version |-> 0, kex |-> kex]
             ts == new_toolset(hr)
  <1>1. hr \in Ratchet(Kex) /\ hr.version = 0
    BY WrapType DEF Ratchet
  <1>2. ts.map = <<hr>> /\ ts.most_recent = 0 /\ ts.oldest = 0
    BY DEF new_toolset
  <1>3. <<hr>> \in Seq(Ratchet(Kex)) /\ Len(<<hr>>) = 1 /\ <<hr>>[1] = hr
    BY SMTT(30), <1>1
  <1>4. ts \in ToolsetType(Kex)
    BY <1>1, <1>3, WrapType DEF new_toolset, ToolsetType
  <1>5. Window(ts)
    <2>1. /\ Len(ts.map) = 1
          /\ ts.map[1].version = 0
          /\ wrapping_sub(0, 0) = 0
      BY SMTT(30), <1>1, <1>2, <1>3 DEF wrapping_sub
    <2> HIDE DEF ts
    <2> QED
      BY SMTT(30), <1>2, <2>1 DEF Window
  <1> QED
    BY <1>4, <1>5

(***************************************************************************)
(* commit: update_from accepts the next version, and only puts it in front *)
(* of the window.                                                          *)
(***************************************************************************)
LEMMA UpdateFrom ==
    ASSUME NEW Kex, NEW kex \in Kex, NEW ts \in ToolsetType(Kex), Window(ts)
    PROVE  LET hr == [version |-> wrapping_add_1(ts.most_recent), kex |-> kex]
               u  == update_from(ts, hr)
           IN  /\ u.ok
               /\ u.toolset \in ToolsetType(Kex)
               /\ Window(u.toolset)
               /\ u.old_version \in Version \cup {None}
               /\ u.toolset.most_recent = hr.version
               /\ u.toolset.oldest = ts.oldest
               /\ u.toolset.map = <<hr>> \o ts.map
  <1> DEFINE hr == [version |-> wrapping_add_1(ts.most_recent), kex |-> kex]
             u  == update_from(ts, hr)
             map == <<hr>> \o ts.map
  <1>1. /\ ts.most_recent \in Version /\ ts.oldest \in Version
        /\ ts.map \in Seq(Ratchet(Kex))
    BY DEF ToolsetType
  <1>2. hr \in Ratchet(Kex) /\ hr.version = wrapping_add_1(ts.most_recent)
    BY <1>1, WrapType DEF Ratchet
  <1>3. /\ <<hr>> \in Seq(Ratchet(Kex))
        /\ map \in Seq(Ratchet(Kex))
        /\ Len(map) = Len(ts.map) + 1
        /\ map[1] = hr
        /\ \A i \in 1 .. Len(ts.map) : map[i + 1] = ts.map[i]
    BY SMTT(30), <1>1, <1>2
  <1>4. /\ u.ok
        /\ u.toolset = [ts EXCEPT !.map = map, !.most_recent = hr.version]
        /\ u.old_version \in Version \cup {None}
    BY <1>1, <1>2, WrapInverse DEF update_from, append_hyper_ratchet
  <1> HIDE DEF hr, u, map
  <1>5. /\ u.toolset \in ToolsetType(Kex)
        /\ u.toolset.map = map
        /\ u.toolset.most_recent = hr.version
        /\ u.toolset.oldest = ts.oldest
    <2>1. hr.version \in Version /\ map \in Seq(Ratchet(Kex))
      BY <1>1, <1>2, <1>3, WrapType
    <2> QED
      BY <1>4, <2>1 DEF ToolsetType
  <1>6. Window(u.toolset)
    <2>1. Len(ts.map) \in Nat /\ Len(ts.map) > 0
      BY SMTT(30), <1>1 DEF Window
    <2>2. map[Len(map)].version = ts.oldest
      BY SMTT(30), <1>3, <2>1 DEF Window
    <2>3. ts.map[1].version = ts.most_recent
      <3>1. 1 \in 1 .. Len(ts.map) /\ 1 <= MaxVersion + 1 /\ 1 - 1 = 0
        BY SMTT(30), <2>1, ToolsetAssumption
      <3> QED
        BY <1>1, <3>1, WrapZero DEF Window
    <2>4. \A i \in 1 .. Len(map) - 1 : map[i].version = wrapping_add_1(map[i + 1].version)
      <3> SUFFICES ASSUME NEW i \in 1 .. Len(map) - 1
                   PROVE  map[i].version = wrapping_add_1(map[i + 1].version)
        OBVIOUS
      <3>1. CASE i = 1
        BY SMTT(30), <1>2, <1>3, <2>1, <2>3, <3>1
      <3>2. CASE i > 1
        <4>1. i - 1 \in 1 .. Len(ts.map) - 1
          BY SMTT(30), <1>3, <2>1, <3>2
        <4>2. map[i] = ts.map[i - 1] /\ map[i + 1] = ts.map[i]
          BY SMTT(30), <1>3, <2>1, <4>1
        <4> QED
          BY SMTT(30), <4>1, <4>2 DEF Window
      <3> QED
        BY SMTT(30), <1>3, <2>1, <3>1, <3>2
    <2>5. \A i \in 1 .. Len(map) :
            i <= MaxVersion + 1 => map[i].version = wrapping_sub(hr.version, i - 1)
      <3> SUFFICES ASSUME NEW i \in 1 .. Len(map), i <= MaxVersion + 1
                   PROVE  map[i].version = wrapping_sub(hr.version, i - 1)
        OBVIOUS
      <3>1. CASE i = 1
        <4>1. hr.version \in Version
          BY <1>1, <1>2, WrapType
        <4>2. map[i].version = hr.version /\ i - 1 = 0
          BY SMTT(30), <1>3, <3>1
        <4> QED
          BY <4>1, <4>2, WrapZero
      <3>2. CASE i > 1
        <4>1. i - 1 \in 1 .. Len(ts.map) /\ i - 1 \in 1 .. MaxVersion
          BY SMTT(30), <1>3, <2>1, <3>2, ToolsetAssumption
        <4>2. map[i].version = wrapping_sub(ts.most_recent, i - 1 - 1)
          <5>1. map[i] = ts.map[i - 1]
            BY SMTT(30), <1>3, <2>1, <4>1
          <5> QED
            BY SMTT(30), <4>1, <5>1, ToolsetAssumption DEF Window
        <4> QED
          BY <1>1, <1>2, <4>1, <4>2, WrapShift
      <3> QED
        BY SMTT(30), <1>3, <2>1, <3>1, <3>2
    <2> QED
      BY SMTT(30), <1>3, <1>5, <2>1, <2>2, <2>4, <2>5 DEF Window
  <1> QED
    BY <1>2, <1>4, <1>5, <1>6 DEF hr, u, map

(***************************************************************************)
(* deregister_oldest_hyper_ratchet takes exactly the oldest ratchet off    *)
(* the window, or changes nothing.                                         *)
(***************************************************************************)
LEMMA Deregister ==
    ASSUME NEW Kex, NEW ts \in ToolsetType(Kex), Window(ts), NEW version
    PROVE  LET d == deregister_oldest_hyper_ratchet(ts, version)
           IN  /\ d.ok \in BOOLEAN
               /\ d.toolset \in ToolsetType(Kex)
               /\ Window(d.toolset)
               /\ d.toolset.most_recent = ts.most_recent
  <1> DEFINE d == deregister_oldest_hyper_ratchet(ts, version)
             n == Len(ts.map) - 1
             map == SubSeq(ts.map, 1, n)
  <1>1. /\ ts.most_recent \in Version /\ ts.oldest \in Version
        /\ ts.map \in Seq(Ratchet(Kex))
        /\ Len(ts.map) \in Nat
    BY SMTT(30) DEF ToolsetType
  <1>2. CASE Len(ts.map) <= MAX_HYPER_RATCHETS_IN_MEMORY \/ ts.oldest # version
    BY <1>2 DEF deregister_oldest_hyper_ratchet
  <1>3. CASE ~(Len(ts.map) <= MAX_HYPER_RATCHETS_IN_MEMORY) /\ ts.oldest = version
    <2>1. n \in Nat \ {0} /\ n + 1 = Len(ts.map)
      <3>1. MAX_HYPER_RATCHETS_IN_MEMORY \in Nat /\ MAX_HYPER_RATCHETS_IN_MEMORY >= 1
        BY SMTT(30), ToolsetAssumption
      <3>2. Len(ts.map) > MAX_HYPER_RATCHETS_IN_MEMORY
        BY SMTT(30), <1>1, <1>3, <3>1
      <3>3. \A len, max \in Nat :
                max >= 1 /\ len > max => len - 1 \in Nat \ {0} /\ len - 1 + 1 = len
        BY SMTT(30)
      <3>4. Len(ts.map) \in Nat
        BY <1>1
      <3> QED
        BY <3>1, <3>2, <3>3, <3>4
    <2>2. /\ map \in Seq(Ratchet(Kex))
          /\ Len(map) = n
          /\ \A i \in 1 .. n : map[i] = ts.map[i]
      <3>1. \A i \in 1 .. n : ts.map[i] \in Ratchet(Kex)
        BY SMTT(30), <1>1, <2>1
      <3> QED
        BY SMTT(30), <2>1, <3>1
    <2>3. d = [ok |-> TRUE,
               toolset |-> [ts EXCEPT !.map = map, !.oldest = wrapping_add_1(@)]]
      BY <1>3 DEF deregister_oldest_hyper_ratchet
    <2> HIDE DEF n, map, d
    <2>4. /\ d.ok = TRUE
          /\ d.toolset \in ToolsetType(Kex)
          /\ d.toolset.map = map
          /\ d.toolset.oldest = wrapping_add_1(ts.oldest)
          /\ d.toolset.most_recent = ts.most_recent
      <3>1. wrapping_add_1(ts.oldest) \in Version
        BY <1>1, WrapType
      <3> QED
        BY <2>2, <2>3, <3>1 DEF ToolsetType
    <2>5. map[n].version = wrapping_add_1(ts.oldest)
      <3>1. n \in 1 .. n /\ n \in 1 .. Len(ts.map) - 1
        BY SMTT(30), <1>1, <2>1
      <3>2. ts.map[n].version = wrapping_add_1(ts.map[n + 1].version)
        BY <3>1 DEF Window
      <3>3. ts.map[n + 1].version = ts.oldest
        BY <2>1 DEF Window
      <3> QED
        BY <2>2, <3>1, <3>2, <3>3
    <2>6. Window(d.toolset)
      <3>1. \A i \in 1 .. n - 1 : map[i].version = wrapping_add_1(map[i + 1].version)
        <4> SUFFICES ASSUME NEW i \in 1 .. n - 1
                     PROVE  map[i].version = wrapping_add_1(map[i + 1].version)
          OBVIOUS
        <4>1. map[i] = ts.map[i] /\ map[i + 1] = ts.map[i + 1]
          BY SMTT(30), <2>1, <2>2
        <4>2. i \in 1 .. Len(ts.map) - 1
          BY SMTT(30), <1>1, <2>1
        <4> QED
          BY <4>1, <4>2 DEF Window
      <3>2. \A i \in 1 .. n : i <= MaxVersion + 1 =>
                map[i].version = wrapping_sub(ts.most_recent, i - 1)
        <4> SUFFICES ASSUME NEW i \in 1 .. n, i <= MaxVersion + 1
                     PROVE  map[i].version = wrapping_sub(ts.most_recent, i - 1)
          OBVIOUS
        <4>1. map[i] = ts.map[i] /\ i \in 1 .. Len(ts.map)
          BY SMTT(30), <1>1, <2>1, <2>2
        <4> QED
          BY <4>1 DEF Window
      <3> QED
        BY SMTT(30), <2>1, <2>2, <2>4, <2>5, <3>1, <3>2 DEF Window
    <2> QED
      BY <2>4, <2>6 DEF d
  <1> QED
    BY <1>2, <1>3

(***************************************************************************)
(* The lookup by index arithmetic finds a ratchet of the version asked     *)
(* for, or none.                                                           *)
(***************************************************************************)
LEMMA Lookup ==
    ASSUME NEW Kex, NEW ts \in ToolsetType(Kex), Window(ts), NEW version \in Version
    PROVE  \/ get_hyper_ratchet(ts, version) = None
           \/ /\ get_hyper_ratchet(ts, version) \in Ratchet(Kex)
              /\ get_hyper_ratchet(ts, version).version = version
              /\ Holds(ts, get_hyper_ratchet(ts, version))
  <1> DEFINE idx == wrapping_sub(ts.most_recent, version)
  <1>1. /\ ts.most_recent \in Version
        /\ ts.map \in Seq(Ratchet(Kex))
        /\ Len(ts.map) \in Nat
    BY SMTT(30) DEF ToolsetType
  <1>2. idx \in Version
    BY <1>1, WrapType
  <1>3. wrapping_sub(ts.most_recent, idx) = version
    BY <1>1, WrapDistance
  <1>4. idx \in Nat /\ idx <= MaxVersion
    BY SMTT(30), <1>2, ToolsetAssumption DEF Version
  <1> HIDE DEF idx
  <1>5. CASE idx < Len(ts.map)
    <2>1. get_hyper_ratchet(ts, version) = ts.map[idx + 1]
      BY <1>5 DEF get_hyper_ratchet, get_adjusted_index, idx
    <2>2. idx + 1 \in 1 .. Len(ts.map) /\ idx + 1 <= MaxVersion + 1 /\ idx + 1 - 1 = idx
      BY SMTT(30), <1>1, <1>4, <1>5, ToolsetAssumption
    <2>3. ts.map[idx + 1].version = version
      <3> DEFINE i == idx + 1
      <3>1. i \in 1 .. Len(ts.map) /\ i <= MaxVersion + 1 /\ i - 1 = idx
        BY SMTT(30), <1>1, <1>4, <2>2
      <3> HIDE DEF i
      <3>2. ts.map[i].version = wrapping_sub(ts.most_recent, i - 1)
        BY <3>1 DEF Window
      <3> QED
        BY <1>3, <3>1, <3>2 DEF i
    <2> QED
      BY SMTT(30), <1>1, <2>1, <2>2, <2>3 DEF Holds
  <1>6. CASE ~(idx < Len(ts.map))
    BY <1>6 DEF get_hyper_ratchet, get_adjusted_index, idx
  <1> QED
    BY <1>5, <1>6

(***************************************************************************)
(* Every ratchet in the window is found under its own version, as long as  *)
(* the window is no longer than there are version numbers: the newest      *)
(* ratchet of a version never hides an older one.                          *)
(***************************************************************************)
THEOREM LookupComplete ==
    ASSUME NEW Kex, NEW ts \in ToolsetType(Kex), Window(ts),
           Len(ts.map) <= MaxVersion + 1, NEW hr, Holds(ts, hr)
    PROVE  get_hyper_ratchet(ts, hr.version) = hr
  <1>1. /\ ts.most_recent \in Version
        /\ ts.map \in Seq(Ratchet(Kex))
        /\ Len(ts.map) \in Nat
    BY SMTT(30) DEF ToolsetType
  <1>2. PICK i \in 1 .. Len(ts.map) : ts.map[i] = hr
    BY DEF Holds
  <1>3. i \in Nat /\ i - 1 \in Version /\ i <= MaxVersion + 1
    BY SMTT(30), <1>1, ToolsetAssumption DEF Version
  <1>4. hr.version = wrapping_sub(ts.most_recent, i - 1)
    BY <1>2, <1>3 DEF Window
  <1>5. wrapping_sub(ts.most_recent, hr.version) = i - 1
    BY <1>1, <1>3, <1>4, WrapDistance
  <1> QED
    BY SMTT(30), <1>1, <1>2, <1>3, <1>5 DEF get_hyper_ratchet, get_adjusted_index
-----------------------------------------------------------------------------
(***************************************************************************)
(* The container.                                                          *)
(***************************************************************************)
Sound(c, Kex, GroupId) == c \in Container(Kex, GroupId) /\ Window(c.toolset)

\* The fields of a container.
LEMMA ContainerFields ==
    ASSUME NEW Kex, NEW GroupId, NEW c \in Container(Kex, GroupId)
    PROVE  /\ c.toolset \in ToolsetType(Kex)
           /\ c.update_in_progress \in BOOLEAN
           /\ c.local_is_initiator \in BOOLEAN
           /\ c.lock_set_by_alice \in {"unset", "alice", "bob"}
           /\ c.latest_usable_version \in Version
           /\ c.rolling_group_id \in GroupId
  BY DEF Container

\* A new container, PeerSessionCrypto::new.
LEMMA NewContainer ==
    ASSUME NEW Kex, NEW GroupId, 0 \in GroupId, NEW kex \in Kex, NEW b \in BOOLEAN
    PROVE  Sound(new_container([version |-> 0, kex |-> kex], b), Kex, GroupId)
  <1> DEFINE ts == new_toolset([version |-> 0, kex |-> kex])
             c  == new_container([version |-> 0, kex |-> kex], b)
  <1>1. ts \in ToolsetType(Kex) /\ Window(ts)
    BY NewToolset
  <1>2. c = [toolset |-> ts, update_in_progress |-> FALSE, local_is_initiator |-> b,
             lock_set_by_alice |-> "unset", latest_usable_version |-> 0,
             rolling_group_id |-> 0]
    BY DEF new_container
  <1> HIDE DEF ts, c
  <1>3. c.toolset = ts /\ c \in Container(Kex, GroupId)
    BY <1>1, <1>2, WrapType DEF Container
  <1> QED
    BY <1>1, <1>3 DEF Sound, c

\* get_hyper_ratchet(None) returns a ratchet of the toolset, or nothing.
LEMMA LatestUsable ==
    ASSUME NEW Kex, NEW GroupId, NEW c, Sound(c, Kex, GroupId)
    PROVE  latest_usable(c) = None \/ latest_usable(c) \in Ratchet(Kex)
  BY ContainerFields, Lookup DEF Sound, latest_usable

\* A commit, as either end, keeps the window and yields a status to send.
LEMMA UpdateSyncSafe ==
    ASSUME NEW Kex, NEW GroupId, NEW c, Sound(c, Kex, GroupId),
           NEW kex \in Kex, NEW local_is_alice \in BOOLEAN
    PROVE  LET u == update_sync_safe(c, kex, local_is_alice)
           IN  /\ Sound(u.crypt, Kex, GroupId)
               /\ u.status \in KemTransferStatus(Kex)
  <1> DEFINE hr == [version |-> wrapping_add_1(c.toolset.most_recent), kex |-> kex]
             commit == update_from(c.toolset, hr)
             u == update_sync_safe(c, kex, local_is_alice)
  <1>1. c \in Container(Kex, GroupId) /\ c.toolset \in ToolsetType(Kex) /\ Window(c.toolset)
    BY ContainerFields DEF Sound
  <1>2. /\ commit.toolset \in ToolsetType(Kex) /\ Window(commit.toolset)
        /\ commit.old_version \in Version \cup {None}
    BY <1>1, UpdateFrom
  <1>3. commit_next_hyper_ratchet_version(c, kex) = commit
    BY DEF commit_next_hyper_ratchet_version
  <1> HIDE DEF commit
  <1>4. Omitted \in KemTransferStatus(Kex)
    BY DEF Omitted, KemTransferStatus
  <1>5. [kind |-> "Some", kex |-> kex, old_version |-> commit.old_version]
            \in KemTransferStatus(Kex)
    BY <1>2 DEF KemTransferStatus
  <1>6. /\ Sound([c EXCEPT !.toolset = commit.toolset], Kex, GroupId)
        /\ Sound([c EXCEPT !.toolset = commit.toolset,
                           !.update_in_progress = TRUE,
                           !.lock_set_by_alice = "bob"], Kex, GroupId)
    BY <1>1, <1>2 DEF Sound, Container
  <1> QED
    BY <1>3, <1>4, <1>5, <1>6 DEF update_sync_safe

\* Unlocking, and moving on to the next version, leave the toolset alone.
LEMMA UnlockAndPost ==
    ASSUME NEW Kex, NEW GroupId, NEW c, Sound(c, Kex, GroupId)
    PROVE  /\ \A b \in BOOLEAN : Sound(maybe_unlock(c, b), Kex, GroupId)
           /\ Sound(post_alice_stage1_or_post_stage1_bob(c), Kex, GroupId)
  <1>1. wrapping_add_1(c.latest_usable_version) \in Version
    BY ContainerFields, WrapType DEF Sound
  <1> QED
    BY <1>1 DEF Sound, Container, maybe_unlock, post_alice_stage1_or_post_stage1_bob

\* Dropping the oldest version, successful or not.
LEMMA DeregisterContainer ==
    ASSUME NEW Kex, NEW GroupId, NEW c, Sound(c, Kex, GroupId), NEW version
    PROVE  /\ deregister(c, version).ok \in BOOLEAN
           /\ Sound(deregister(c, version).crypt, Kex, GroupId)
  <1> DEFINE d == deregister_oldest_hyper_ratchet(c.toolset, version)
  <1>1. c.toolset \in ToolsetType(Kex) /\ Window(c.toolset)
    BY ContainerFields DEF Sound
  <1>2. d.ok \in BOOLEAN /\ d.toolset \in ToolsetType(Kex) /\ Window(d.toolset)
    BY <1>1, Deregister
  <1>3. deregister(c, version) = [ok |-> d.ok, crypt |-> [c EXCEPT !.toolset = d.toolset]]
    BY DEF deregister
  <1> HIDE DEF d
  <1> QED
    BY SMTT(30), <1>2, <1>3 DEF Sound, Container

\* A constructor is handed out, or refused, and only with a usable ratchet.
LEMMA GetNextConstructor ==
    ASSUME NEW Kex, NEW GroupId, NEW c, Sound(c, Kex, GroupId),
           NEW force \in BOOLEAN, NEW fresh \in Kex
    PROVE  LET next == get_next_constructor(c, force, fresh)
           IN  /\ Sound(next.crypt, Kex, GroupId)
               /\ next.constructor \in Kex \cup {None}
               /\ latest_usable(c) = None => next.constructor = None
               /\ next.crypt.rolling_group_id = c.rolling_group_id
  <1>1. Sound([c EXCEPT !.update_in_progress = TRUE, !.lock_set_by_alice = "alice"],
              Kex, GroupId)
    BY DEF Sound, Container
  <1> QED
    BY <1>1 DEF get_next_constructor, Sound, Container

\* Bob's half of an exchange.
LEMMA AttemptAsBob ==
    ASSUME NEW Kex, NEW GroupId, NEW c, Sound(c, Kex, GroupId),
           NEW transfer \in Kex \cup {None}
    PROVE  LET kem == attempt_kem_as_bob(c, transfer)
           IN  /\ Sound(kem.crypt, Kex, GroupId)
               /\ kem.status \in KemTransferStatus(Kex)
  <1>1. EmptyTransfer \in KemTransferStatus(Kex)
    BY DEF EmptyTransfer, KemTransferStatus
  <1> QED
    BY <1>1, UpdateSyncSafe DEF attempt_kem_as_bob

\* Alice's commit, with the deregistration Bob asked for.
LEMMA CommitAsAlice ==
    ASSUME NEW Kex, NEW GroupId, NEW c, Sound(c, Kex, GroupId),
           NEW status \in KemTransferStatus(Kex), status.kex \in Kex
    PROVE  LET kem == commit_as_alice(c, status)
           IN  /\ kem.ok \in BOOLEAN
               /\ Sound(kem.crypt, Kex, GroupId)
               /\ kem.ratchet \in Ratchet(Kex) \cup {None}
  <1> DEFINE committed == update_sync_safe(c, status.kex, TRUE).crypt
             dropped   == deregister(committed, status.old_version)
             posted    == post_alice_stage1_or_post_stage1_bob(dropped.crypt)
             unlocked  == maybe_unlock(post_alice_stage1_or_post_stage1_bob(committed), TRUE)
  <1>1. Sound(committed, Kex, GroupId)
    BY UpdateSyncSafe
  <1>2. dropped.ok \in BOOLEAN /\ Sound(dropped.crypt, Kex, GroupId)
    BY <1>1, DeregisterContainer
  <1>3. Sound(posted, Kex, GroupId)
    BY <1>2, UnlockAndPost
  <1>4. Sound(unlocked, Kex, GroupId)
    <2>1. Sound(post_alice_stage1_or_post_stage1_bob(committed), Kex, GroupId)
      BY <1>1, UnlockAndPost
    <2> QED
      BY <2>1, UnlockAndPost
  <1>5. /\ latest_usable(posted) \in Ratchet(Kex) \cup {None}
        /\ latest_usable(unlocked) \in Ratchet(Kex) \cup {None}
    BY <1>3, <1>4, LatestUsable
  <1>6. \/ commit_as_alice(c, status) =
                [ok |-> FALSE, crypt |-> dropped.crypt, ratchet |-> None]
        \/ commit_as_alice(c, status) =
                [ok |-> latest_usable(posted) # None,
                 crypt |-> posted, ratchet |-> latest_usable(posted)]
        \/ commit_as_alice(c, status) =
                [ok |-> latest_usable(unlocked) # None,
                 crypt |-> unlocked, ratchet |-> latest_usable(unlocked)]
    BY <1>2 DEF commit_as_alice
  <1> HIDE DEF committed, dropped, posted, unlocked
  <1>7. CASE commit_as_alice(c, status) =
                [ok |-> FALSE, crypt |-> dropped.crypt, ratchet |-> None]
    BY SMTT(30), <1>2, <1>7
  <1>8. CASE commit_as_alice(c, status) =
                [ok |-> latest_usable(posted) # None,
                 crypt |-> posted, ratchet |-> latest_usable(posted)]
    BY SMTT(30), <1>3, <1>5, <1>8
  <1>9. CASE commit_as_alice(c, status) =
                [ok |-> latest_usable(unlocked) # None,
                 crypt |-> unlocked, ratchet |-> latest_usable(unlocked)]
    BY SMTT(30), <1>4, <1>5, <1>9
  <1> QED
    BY <1>6, <1>7, <1>8, <1>9

\* Alice's half of an exchange, whatever Bob answered.
LEMMA AttemptAsAlice ==
    ASSUME NEW Kex, NEW GroupId, NEW c, Sound(c, Kex, GroupId),
           NEW status \in KemTransferStatus(Kex), NEW constructor \in Kex \cup {None}
    PROVE  LET kem == attempt_kem_as_alice_finish(c, status, constructor)
           IN  /\ kem.ok \in BOOLEAN
               /\ Sound(kem.crypt, Kex, GroupId)
               /\ kem.ratchet \in Ratchet(Kex) \cup {None}
  <1> DEFINE unlocked == maybe_unlock(c, TRUE)
             kem == attempt_kem_as_alice_finish(c, status, constructor)
  <1>1. /\ Sound(unlocked, Kex, GroupId)
        /\ latest_usable(unlocked) \in Ratchet(Kex) \cup {None}
    BY UnlockAndPost, LatestUsable
  <1> HIDE DEF unlocked
  <1>2. \/ status.kind \in {"Empty", "Omitted"}
        \/ status.kind = "Some" /\ status.kex \in Kex
    BY DEF KemTransferStatus
  <1>3. CASE status.kind = "Empty"
    BY <1>3 DEF attempt_kem_as_alice_finish
  <1>4. CASE status.kind = "Omitted"
    BY <1>1, <1>4 DEF attempt_kem_as_alice_finish, unlocked
  <1>5. CASE status.kind = "Some" /\ constructor = None
    BY <1>5 DEF attempt_kem_as_alice_finish
  <1>6. CASE status.kind = "Some" /\ constructor # None /\ constructor # status.kex
    BY <1>6 DEF attempt_kem_as_alice_finish
  <1>7. CASE status.kind = "Some" /\ constructor # None /\ constructor = status.kex
    <2>1. kem = commit_as_alice(c, status)
      BY <1>7 DEF attempt_kem_as_alice_finish
    <2>2. status.kex \in Kex
      BY <1>2, <1>7
    <2> HIDE DEF kem
    <2>3. /\ kem.ok \in BOOLEAN
          /\ Sound(kem.crypt, Kex, GroupId)
          /\ kem.ratchet \in Ratchet(Kex) \cup {None}
      BY <2>1, <2>2, CommitAsAlice
    <2> QED
      BY <2>3 DEF kem
  <1> QED
    BY <1>2, <1>3, <1>4, <1>5, <1>6, <1>7
-----------------------------------------------------------------------------
(* The reordering buffer: id arithmetic, where a scan stops, and types *)

\* Ids stay within their width.
LEMMA IdType ==
    \A x \in Id : \A j \in 0 .. MaxId + 1 : id_plus(x, j) \in Id
  BY SMTT(30), OrderedChannelAssumption DEF Id, id_plus

\* Adding nothing to an id.
LEMMA IdZero ==
    0 \in Id /\ \A x \in Id : id_plus(x, 0) = x
  BY SMTT(30), OrderedChannelAssumption DEF Id, id_plus

\* Within one turn of the counter an id tells its distance.
LEMMA IdInjective ==
    \A x \in Id : \A i, j \in 0 .. MaxId : id_plus(x, i) = id_plus(x, j) => i = j
  BY SMTT(30), OrderedChannelAssumption DEF Id, id_plus

\* Distances add up, across the wrap.
LEMMA IdAdd ==
    \A x \in Id : \A i, j \in Nat :
        i + j <= MaxId + 1 => id_plus(id_plus(x, i), j) = id_plus(x, i + j)
  BY SMTT(30), OrderedChannelAssumption DEF Id, id_plus

(***************************************************************************)
(* A set of positive numbers that contains, with a number, all smaller     *)
(* ones, is the interval up to its cardinality.                            *)
(***************************************************************************)
LEMMA DownwardClosed ==
    ASSUME NEW M \in Nat, NEW S \in SUBSET (1 .. M),
           \A k \in S : 1 .. k \subseteq S
    PROVE  Cardinality(S) \in 0 .. M /\ S = 1 .. Cardinality(S)
  <1>1. IsFiniteSet(1 .. M) /\ Cardinality(1 .. M) = M
    BY SMTT(30), FS_Interval
  <1>2. IsFiniteSet(S) /\ Cardinality(S) \in Nat /\ Cardinality(S) <= M
    BY ZenonT(60), <1>1, FS_Subset, FS_CardinalityType
  <1> DEFINE c == Cardinality(S)
  <1>3. IsFiniteSet(1 .. c) /\ Cardinality(1 .. c) = c
    BY SMTT(30), <1>2, FS_Interval
  <1>4. S \subseteq 1 .. c
    <2> SUFFICES ASSUME NEW k \in S PROVE k \in 1 .. c
      OBVIOUS
    <2>1. k \in Nat /\ k >= 1
      BY SMTT(30)
    <2>2. Cardinality(1 .. k) = k
      BY SMTT(30), <2>1, FS_Interval
    <2>3. Cardinality(1 .. k) <= c
      BY <1>2, FS_Subset
    <2> QED
      BY SMTT(30), <1>2, <2>1, <2>2, <2>3
  <1>5. S = 1 .. c
    BY <1>3, <1>4, FS_Subset
  <1> QED
    BY SMTT(30), <1>2, <1>5

(***************************************************************************)
(* scan_send stops at the first id that is not stored.                     *)
(***************************************************************************)
LEMMA ScanLength ==
    ASSUME NEW map, NEW id
    PROVE  /\ scan_length(map, id) \in 0 .. MaxId
           /\ \A k \in 1 .. scan_length(map, id) : stored(map, id_plus(id, k))
           /\ scan_length(map, id) < MaxId =>
                ~stored(map, id_plus(id, scan_length(map, id) + 1))
  <1> DEFINE P(k) == stored(map, id_plus(id, k))
             S == {n \in 1 .. MaxId : \A k \in 1 .. n : P(k)}
             c == scan_length(map, id)
  <1>1. c = Cardinality(S)
    BY DEF scan_length
  <1> HIDE DEF P, c
  <1>2. MaxId \in Nat
    BY OrderedChannelAssumption
  <1>3. \A k \in S : 1 .. k \subseteq S
    BY SMTT(30), <1>2
  <1>4. c \in 0 .. MaxId /\ S = 1 .. c
    BY <1>1, <1>2, <1>3, DownwardClosed
  <1>5. \A k \in 1 .. c : P(k)
    <2> SUFFICES ASSUME NEW k \in 1 .. c PROVE P(k)
      OBVIOUS
    <2>1. k \in S
      BY <1>4
    <2> QED
      BY SMTT(30), <1>2, <2>1
  <1>6. c < MaxId => ~P(c + 1)
    <2> SUFFICES ASSUME c < MaxId, P(c + 1) PROVE FALSE
      OBVIOUS
    <2>1. c + 1 \in 1 .. MaxId /\ \A k \in 1 .. c + 1 : k \in 1 .. c \/ k = c + 1
      BY SMTT(30), <1>2, <1>4
    <2>2. c + 1 \in S
      BY <1>5, <2>1
    <2> QED
      BY SMTT(30), <1>2, <1>4, <2>2
  <1> QED
    BY <1>4, <1>5, <1>6 DEF P, c

\* The next expected id is an id.
LEMMA NextExpectedType ==
    ASSUME NEW Data, NEW ch \in ChannelType(Data)
    PROVE  next_expected(ch) \in Id
  <1>1. ch.last \in Id \cup {None} /\ 1 \in 0 .. MaxId + 1
    BY SMTT(30), OrderedChannelAssumption DEF ChannelType
  <1> QED
    BY <1>1, IdType, IdZero DEF next_expected

(***************************************************************************)
(* What send_then_scan hands to the sink when it does not fail, and what   *)
(* it leaves.                                                              *)
(***************************************************************************)
Scanned(Data, ch, id, packet) ==
    LET n    == scan_length(ch.map, id)
        scan == [k \in 1 .. n |-> packet_of(ch.map, id_plus(id, k))]
        new  == send_then_scan(ch, id, packet).channel
    IN  /\ n \in 0 .. MaxId
        /\ scan \in Seq(Data) /\ Len(scan) = n
        /\ new \in ChannelType(Data)
        /\ new.sink = Append(ch.sink, packet) \o scan
        /\ new.map = {e \in ch.map : \A k \in 1 .. n : e.id # id_plus(id, k)}
        /\ new.last = id_plus(id, n)
        /\ new.open = ch.open

\* An open channel is scanned when the expected packet arrives.
LEMMA SendThenScan ==
    ASSUME NEW Data, NEW ch \in ChannelType(Data), ch.open,
           NEW id \in Id, NEW packet \in Data
    PROVE  Scanned(Data, ch, id, packet)
  <1> DEFINE n    == scan_length(ch.map, id)
             scan == [k \in 1 .. n |-> packet_of(ch.map, id_plus(id, k))]
             new  == send_then_scan(ch, id, packet).channel
             rest == {e \in ch.map : e.id \notin {id_plus(id, k) : k \in 1 .. n}}
             sink == Append(ch.sink, packet) \o scan
  <1>1. /\ ch.last \in Id \cup {None}
        /\ ch.map \in SUBSET [id : Id, packet : Data]
        /\ ch.sink \in Seq(Data)
        /\ ch.open \in BOOLEAN
    BY DEF ChannelType
  <1>2. n \in 0 .. MaxId /\ \A k \in 1 .. n : stored(ch.map, id_plus(id, k))
    BY ScanLength
  <1>3. n \in Nat /\ n \in 0 .. MaxId + 1
    BY SMTT(30), <1>2, OrderedChannelAssumption
  <1>4. new = [ch EXCEPT !.sink = sink, !.map = rest, !.last = id_plus(id, n)]
    BY DEF send_then_scan
  <1> HIDE DEF n, new
  <1>5. \A k \in 1 .. n : packet_of(ch.map, id_plus(id, k)) \in Data
    BY <1>1, <1>2 DEF stored, packet_of
  <1>6. scan \in Seq(Data) /\ Len(scan) = n
    BY SMTT(30), <1>3, <1>5
  <1> HIDE DEF scan
  <1>7. sink \in Seq(Data)
    BY SMTT(30), <1>1, <1>6
  <1>8. id_plus(id, n) \in Id
    BY <1>3, IdType
  <1>9. rest \in SUBSET [id : Id, packet : Data]
    BY <1>1
  <1>10. rest = {e \in ch.map : \A k \in 1 .. n : e.id # id_plus(id, k)}
    OBVIOUS
  <1> HIDE DEF sink, rest
  <1>11. /\ new \in ChannelType(Data)
         /\ new.sink = sink /\ new.map = rest
         /\ new.last = id_plus(id, n) /\ new.open = ch.open
    BY <1>1, <1>4, <1>7, <1>8, <1>9 DEF ChannelType
  <1> QED
    BY <1>2, <1>6, <1>10, <1>11 DEF n, scan, new, sink, Scanned

\* store_received_packet keeps one packet for an id.
LEMMA StoreReceivedPacket ==
    ASSUME NEW Data, NEW ch \in ChannelType(Data),
           NEW id \in Id, NEW packet \in Data
    PROVE  LET new == store_received_packet(ch, id, packet)
           IN  /\ new \in ChannelType(Data)
               /\ new.map = {e \in ch.map : e.id # id}
                            \cup {[id |-> id, packet |-> packet]}
               /\ new.sink = ch.sink /\ new.last = ch.last /\ new.open = ch.open
  <1> DEFINE map == {e \in ch.map : e.id # id} \cup {[id |-> id, packet |-> packet]}
  <1>1. map \in SUBSET [id : Id, packet : Data]
    BY SMTT(30) DEF ChannelType
  <1>2. store_received_packet(ch, id, packet) = [ch EXCEPT !.map = map]
    BY DEF store_received_packet
  <1> HIDE DEF map
  <1> QED
    BY <1>1, <1>2 DEF ChannelType, map

\* Receiving a packet keeps the channel's type.
LEMMA OnPacketReceivedType ==
    ASSUME NEW Data, NEW ch \in ChannelType(Data),
           NEW id \in Id, NEW packet \in Data
    PROVE  LET r == on_packet_received(ch, id, packet)
           IN  r.ok \in BOOLEAN /\ r.channel \in ChannelType(Data)
  <1>1. CASE next_expected(ch) # id
    BY <1>1, StoreReceivedPacket DEF on_packet_received
  <1>2. CASE next_expected(ch) = id /\ ch.open
    <2>1. send_then_scan(ch, id, packet).channel \in ChannelType(Data)
      <3>1. Scanned(Data, ch, id, packet)
        BY <1>2, SendThenScan
      <3> QED
        BY <3>1 DEF Scanned
    <2>2. send_then_scan(ch, id, packet).ok = TRUE
      BY <1>2 DEF send_then_scan
    <2> QED
      BY <1>2, <2>1, <2>2 DEF on_packet_received
  <1>3. CASE next_expected(ch) = id /\ ~ch.open
    BY <1>3 DEF on_packet_received, send_then_scan
  <1> QED
    BY <1>1, <1>2, <1>3
=============================================================================
