--------------------------- MODULE DatabaseProofs ---------------------------
(***************************************************************************)
(* The two backends behind which there is a database, for any accounts,    *)
(* lists, slots and values.  Redis: whatever accounts calls name, the keys *)
(* of the registered ones agree with one another.  SQL: with repeated      *)
(* registrations and overlapping removals as well, the rows keep to the    *)
(* accounts, and a server lists two accounts at both or at neither.        *)
(***************************************************************************)
EXTENDS RedisBackend, Sequences, TLAPS

\* Zenon has 30 seconds for each leaf that does not name another prover.
USE ZenonT(30)
-----------------------------------------------------------------------------
(* Redis *)

Fields ==
    {"clients", "username", "to_username", "impersonals", "personals", "peers_cid", "peers_username",
     "byte_map"}

RedisTypeOK ==
    /\ role \in {"server", "client"}
    /\ db = [f \in Fields |-> db[f]]
    /\ db.clients \subseteq Cid
    /\ db.peers_cid \in [Cid -> SUBSET Cid]
    /\ db.peers_username \in [Cid -> SUBSET Cid]

\* Only a client deletes lists and adds them back.
SyncingSound ==
    /\ syncing = [t \in DOMAIN syncing |-> syncing[t]]
    /\ \A t \in DOMAIN syncing :
          role = "client" /\ syncing[t].cid \in Cid /\ syncing[t].peers \subseteq Cid

RedisInv == RedisTypeOK /\ DatabaseAgrees /\ SyncingSound

\* The names, the status and the lists, without the two ways to ask for peers
KeysAgree ==
    /\ db.username = db.clients /\ db.to_username = db.clients
    /\ db.impersonals = IF role = "server" THEN db.clients ELSE {}
    /\ db.personals = IF role = "client" THEN db.clients ELSE {}
    /\ \A c \in db.clients : db.peers_cid[c] = db.peers_username[c]
    /\ role = "server" =>
          \A c \in db.clients, d \in Cid :
             d \in db.peers_username[c] => d \in db.clients /\ c \in db.peers_username[d]

\* get_hyperlan_peers and hyperlan_peers_are_mutuals read the same list.
LEMMA KeysSuffice == KeysAgree <=> DatabaseAgrees
<1>1. \A wanted, list : wanted \subseteq list <=> wanted \cap list = wanted
  OBVIOUS
<1>2. \A c, wanted : PeersCanBeRead(c, wanted) <=> hyperlan_peers_are_mutuals(c, wanted) = wanted
  BY <1>1 DEF PeersCanBeRead, hyperlan_peers_are_mutuals
<1> QED BY <1>2 DEF KeysAgree, DatabaseAgrees, ListedAtBoth, hyperlan_peer_exists

Empty == role \in {"server", "client"} /\ db = NewDb

\* The empty database, when it is new or was purged.
LEMMA EmptySound == Empty => RedisTypeOK /\ DatabaseAgrees
<1> SUFFICES ASSUME Empty PROVE RedisTypeOK /\ DatabaseAgrees
  OBVIOUS
<1> USE DEF Empty
<1>1. db = [f \in Fields |-> db[f]]
  BY DEF NewDb, Fields
<1>2. /\ db.clients = {} /\ db.username = {} /\ db.to_username = {} /\ db.impersonals = {}
      /\ db.personals = {} /\ db.peers_cid = NoLists /\ db.peers_username = NoLists
  BY DEF NewDb
<1>3. NoLists \in [Cid -> SUBSET Cid]
  BY DEF NoLists
<1>4. RedisTypeOK
  BY <1>1, <1>2, <1>3 DEF RedisTypeOK
<1>5. KeysAgree
  BY <1>2 DEF KeysAgree
<1> QED BY <1>4, <1>5, KeysSuffice

\* What a call may do to the lists: those of an account change alike, and the
\* server's at both ends.
LEMMA ListsSound ==
    ASSUME RedisInv, role' = role, NEW cids \in [Cid -> SUBSET Cid], NEW names \in [Cid -> SUBSET Cid],
           db' = [db EXCEPT !.peers_cid = cids, !.peers_username = names],
           \A c \in db.clients : cids[c] = names[c],
           role = "server" =>
              \A c \in db.clients, d \in Cid : d \in names[c] => d \in db.clients /\ c \in names[d]
    PROVE  RedisTypeOK' /\ DatabaseAgrees' /\ db'.clients = db.clients
<1>1. db' = [f \in Fields |-> db'[f]]
  BY DEF RedisInv, RedisTypeOK, Fields
<1>2. /\ db'.clients = db.clients /\ db'.username = db.username /\ db'.to_username = db.to_username
      /\ db'.impersonals = db.impersonals /\ db'.personals = db.personals
      /\ db'.peers_cid = cids /\ db'.peers_username = names
  BY DEF RedisInv, RedisTypeOK, Fields
<1>3. RedisTypeOK'
  BY <1>1, <1>2 DEF RedisInv, RedisTypeOK
<1>4. KeysAgree
  BY KeysSuffice DEF RedisInv
<1>5. KeysAgree'
  BY <1>2, <1>4 DEF KeysAgree
<1>6. DatabaseAgrees'
  BY <1>5, KeysSuffice, PTL
<1> QED BY <1>2, <1>3, <1>6

\* What is known of the lists before a call.
LEMMA OldLists ==
    ASSUME RedisInv
    PROVE  /\ db.peers_username \in [Cid -> SUBSET Cid] /\ db.peers_cid \in [Cid -> SUBSET Cid]
           /\ db.clients \subseteq Cid /\ db.to_username = db.clients
           /\ \A c \in db.clients : db.peers_cid[c] = db.peers_username[c]
           /\ role = "server" =>
                 \A c \in db.clients, d \in Cid :
                    d \in db.peers_username[c] => d \in db.clients /\ c \in db.peers_username[d]
  BY DEF RedisInv, RedisTypeOK, DatabaseAgrees, ListedAtBoth, hyperlan_peer_exists

\* Two accounts get onto each other's lists.
LEMMA RegisterSound ==
    ASSUME RedisInv, NEW c \in Cid, NEW d \in Cid, c # d, register_p2p_as_server(c, d)
    PROVE  RedisInv'
<1> DEFINE cids == db.peers_cid
           names == db.peers_username
<1>1. role' = role /\ syncing' = syncing /\ d \in db.clients
  BY OldLists DEF register_p2p_as_server, Quiet, Step
<1>2. RedisTypeOK' /\ DatabaseAgrees' /\ db'.clients = db.clients
  <2>1. CASE c \in db.clients
    <3> DEFINE newCids == [cids EXCEPT ![c] = @ \cup {d}, ![d] = @ \cup {c}]
               newNames == [names EXCEPT ![c] = @ \cup {d}, ![d] = @ \cup {c}]
    <3>1. db' = [db EXCEPT !.peers_cid = newCids, !.peers_username = newNames]
      BY <2>1, OldLists DEF register_p2p_as_server, RedisInv, RedisTypeOK, Fields
    <3>2. newCids \in [Cid -> SUBSET Cid] /\ newNames \in [Cid -> SUBSET Cid]
      BY OldLists
    <3>3. \A x \in Cid : newNames[x] = IF x = c THEN names[x] \cup {d}
                                       ELSE IF x = d THEN names[x] \cup {c} ELSE names[x]
      BY OldLists
    <3>4. \A x \in Cid : newCids[x] = IF x = c THEN cids[x] \cup {d}
                                      ELSE IF x = d THEN cids[x] \cup {c} ELSE cids[x]
      BY OldLists
    <3> HIDE DEF newCids, newNames
    <3>5. \A x \in db.clients : newCids[x] = newNames[x]
      BY <3>3, <3>4, OldLists
    <3>6. role = "server" =>
             \A x \in db.clients, y \in Cid : y \in newNames[x] => y \in db.clients /\ x \in newNames[y]
      <4> SUFFICES ASSUME role = "server", NEW x \in db.clients, NEW y \in Cid, y \in newNames[x]
                   PROVE  y \in db.clients /\ x \in newNames[y]
        OBVIOUS
      <4>0. x \in Cid
        BY OldLists
      <4>1. y \in names[x] \/ (x = c /\ y = d) \/ (x = d /\ y = c)
        BY <3>3, <4>0
      <4>2. y \in db.clients /\ (x \in names[y] \/ (x = c /\ y = d) \/ (x = d /\ y = c))
        BY <1>1, <2>1, <4>1, OldLists
      <4> QED BY <3>3, <4>2
    <3> QED BY <1>1, <3>1, <3>2, <3>5, <3>6, ListsSound
  <2>2. CASE c \notin db.clients
    <3> DEFINE newNames == [names EXCEPT ![c] = @ \cup {d}]
    <3>1. db' = [db EXCEPT !.peers_cid = cids, !.peers_username = newNames]
      BY <2>2, OldLists DEF register_p2p_as_server, RedisInv, RedisTypeOK, Fields
    <3>2. newNames \in [Cid -> SUBSET Cid]
      BY OldLists
    <3>3. \A x \in db.clients : newNames[x] = names[x]
      BY <2>2, OldLists
    <3> HIDE DEF newNames
    <3>4. \A x \in db.clients : cids[x] = newNames[x]
      BY <3>3, OldLists
    <3>5. role = "server" =>
             \A x \in db.clients, y \in Cid : y \in newNames[x] => y \in db.clients /\ x \in newNames[y]
      BY <3>3, OldLists
    <3>6. cids \in [Cid -> SUBSET Cid]
      BY OldLists
    <3> QED BY <1>1, <3>1, <3>2, <3>4, <3>5, <3>6, ListsSound
  <2> QED BY <2>1, <2>2
<1> QED BY <1>1, <1>2 DEF RedisInv, SyncingSound

\* The server takes two accounts off each other's lists.
LEMMA DeregisterSound ==
    ASSUME RedisInv, NEW c \in Cid, NEW d \in Cid, c # d, deregister_p2p_as_server(c, d)
    PROVE  RedisInv'
<1> DEFINE cids == db.peers_cid
           names == db.peers_username
<1>1. role' = role /\ syncing' = syncing
  BY DEF deregister_p2p_as_server, Quiet, Step
<1>2. RedisTypeOK' /\ DatabaseAgrees' /\ db'.clients = db.clients
  <2>1. CASE c \in db.clients
    <3> DEFINE newCids == [cids EXCEPT ![c] = @ \ {d}, ![d] = @ \ {c}]
               newNames == [names EXCEPT ![c] = @ \ {d}, ![d] = @ \ {c}]
    <3>1. db' = [db EXCEPT !.peers_cid = newCids, !.peers_username = newNames]
      BY <2>1, OldLists DEF deregister_p2p_as_server, RedisInv, RedisTypeOK, Fields
    <3>2. newCids \in [Cid -> SUBSET Cid] /\ newNames \in [Cid -> SUBSET Cid]
      BY OldLists
    <3>3. \A x \in Cid : newNames[x] = IF x = c THEN names[x] \ {d}
                                       ELSE IF x = d THEN names[x] \ {c} ELSE names[x]
      BY OldLists
    <3>4. \A x \in Cid : newCids[x] = IF x = c THEN cids[x] \ {d}
                                      ELSE IF x = d THEN cids[x] \ {c} ELSE cids[x]
      BY OldLists
    <3> HIDE DEF newCids, newNames
    <3>5. \A x \in db.clients : newCids[x] = newNames[x]
      BY <3>3, <3>4, OldLists
    <3>6. role = "server" =>
             \A x \in db.clients, y \in Cid : y \in newNames[x] => y \in db.clients /\ x \in newNames[y]
      BY <3>3, OldLists
    <3> QED BY <1>1, <3>1, <3>2, <3>5, <3>6, ListsSound
  <2>2. CASE c \notin db.clients
    <3> DEFINE newCids == [cids EXCEPT ![c] = @ \ {d}]
    <3>1. db' = [db EXCEPT !.peers_cid = newCids, !.peers_username = names]
      BY <2>2, OldLists DEF deregister_p2p_as_server, RedisInv, RedisTypeOK, Fields
    <3>2. newCids \in [Cid -> SUBSET Cid] /\ names \in [Cid -> SUBSET Cid]
      BY OldLists
    <3>3. \A x \in db.clients : newCids[x] = names[x]
      BY <2>2, OldLists
    <3> HIDE DEF newCids
    <3> QED BY <1>1, <3>1, <3>2, <3>3, OldLists, ListsSound
  <2> QED BY <2>1, <2>2
<1> QED BY <1>1, <1>2 DEF RedisInv, SyncingSound

\* A client adds the same peers to the two lists of an account, or removes them.
LEMMA ClientListSound ==
    ASSUME RedisInv, role = "client", role' = role, NEW c \in Cid,
           NEW cids \in SUBSET Cid, NEW names \in SUBSET Cid,
           db.peers_cid[c] = db.peers_username[c] => cids = names,
           db' = [db EXCEPT !.peers_cid[c] = cids, !.peers_username[c] = names]
    PROVE  RedisTypeOK' /\ DatabaseAgrees' /\ db'.clients = db.clients
<1> DEFINE newCids == [db.peers_cid EXCEPT ![c] = cids]
           newNames == [db.peers_username EXCEPT ![c] = names]
<1>1. db' = [db EXCEPT !.peers_cid = newCids, !.peers_username = newNames]
  BY DEF RedisInv, RedisTypeOK, Fields
<1>2. newCids \in [Cid -> SUBSET Cid] /\ newNames \in [Cid -> SUBSET Cid]
  BY OldLists
<1>3. \A x \in db.clients : newCids[x] = newNames[x]
  BY OldLists
<1> HIDE DEF newCids, newNames
<1> QED BY <1>1, <1>2, <1>3, ListsSound

\* The calls of a client on its lists.
LEMMA ClientCallSound ==
    ASSUME RedisInv, role = "client", NEW c \in Cid, NEW p \in Cid,
           register_p2p_as_client(c, p) \/ deregister_p2p_as_client(c, p)
    PROVE  RedisInv'
<1> DEFINE cids == db.peers_cid[c]
           names == db.peers_username[c]
<1>1. role' = role /\ syncing' = syncing
  BY DEF register_p2p_as_client, deregister_p2p_as_client, Quiet, Step
<1>2. /\ cids \cup {p} \in SUBSET Cid /\ cids \ {p} \in SUBSET Cid
      /\ names \cup {p} \in SUBSET Cid /\ names \ {p} \in SUBSET Cid
  BY OldLists
<1>3. RedisTypeOK' /\ DatabaseAgrees' /\ db'.clients = db.clients
  <2>1. CASE register_p2p_as_client(c, p)
    <3>1. db' = [db EXCEPT !.peers_cid[c] = cids \cup {p}, !.peers_username[c] = names \cup {p}]
      BY <2>1 DEF register_p2p_as_client, RedisInv, RedisTypeOK, Fields
    <3> QED BY <1>1, <1>2, <3>1, ClientListSound
  <2>2. CASE deregister_p2p_as_client(c, p)
    <3>1. db' = [db EXCEPT !.peers_cid[c] = cids \ {p}, !.peers_username[c] = names \ {p}]
      BY <2>2 DEF deregister_p2p_as_client, RedisInv, RedisTypeOK, Fields
    <3> QED BY <1>1, <1>2, <3>1, ClientListSound
  <2> QED BY <2>1, <2>2
<1> QED BY <1>1, <1>3 DEF RedisInv, SyncingSound

\* The old lists of an account are deleted.
LEMMA SynchronizeSound ==
    ASSUME RedisInv, role = "client", NEW t, NEW c \in Cid, NEW listed \in SUBSET Cid,
           synchronize_hyperlan_peer_list_as_client(t, c, listed)
    PROVE  RedisInv'
<1>1. role' = role
  BY DEF synchronize_hyperlan_peer_list_as_client
<1>2. RedisTypeOK' /\ DatabaseAgrees'
  <2>1. {} \in SUBSET Cid
    OBVIOUS
  <2>2. db' = [db EXCEPT !.peers_cid[c] = {}, !.peers_username[c] = {}]
    BY DEF synchronize_hyperlan_peer_list_as_client
  <2> QED BY <1>1, <2>1, <2>2, ClientListSound
<1> DEFINE new == [cid |-> c, peers |-> listed]
<1>3. new.cid = c /\ new.peers = listed
  OBVIOUS
<1>4. syncing' = [u \in DOMAIN syncing \cup {t} |-> IF u = t THEN new ELSE syncing[u]]
  BY DEF synchronize_hyperlan_peer_list_as_client
<1> HIDE DEF new
<1>5. SyncingSound'
  BY <1>1, <1>3, <1>4 DEF RedisInv, SyncingSound
<1> QED BY <1>2, <1>5 DEF RedisInv

\* The list the server has sent is added.
LEMMA AddBackSound ==
    ASSUME RedisInv, NEW t, AddBack(t)
    PROVE  RedisInv'
<1> DEFINE c == syncing[t].cid
           sent == syncing[t].peers
           cids == db.peers_cid[c]
           names == db.peers_username[c]
<1>1. role' = role /\ role = "client" /\ c \in Cid /\ sent \subseteq Cid
  BY DEF AddBack, RedisInv, SyncingSound
<1>2. cids \cup sent \in SUBSET Cid /\ names \cup sent \in SUBSET Cid
  BY <1>1, OldLists
<1>3. db' = [db EXCEPT !.peers_cid[c] = cids \cup sent, !.peers_username[c] = names \cup sent]
  BY DEF AddBack, RedisInv, RedisTypeOK, Fields
<1>4. RedisTypeOK' /\ DatabaseAgrees'
  <2> HIDE DEF c, sent
  <2> QED BY <1>1, <1>2, <1>3, ClientListSound
<1>5. syncing' = [u \in DOMAIN syncing \ {t} |-> syncing[u]]
  BY DEF AddBack, Without, Restrict
<1>6. SyncingSound'
  BY <1>1, <1>5 DEF RedisInv, SyncingSound
<1> QED BY <1>4, <1>6 DEF RedisInv

\* A call that changes the byte map only.
LEMMA ByteMapSound ==
    ASSUME RedisInv, role' = role, syncing' = syncing, NEW map, db' = [db EXCEPT !.byte_map = map]
    PROVE  RedisInv'
<1>1. db' = [f \in Fields |-> db'[f]]
  BY DEF RedisInv, RedisTypeOK, Fields
<1>2. /\ db'.clients = db.clients /\ db'.username = db.username /\ db'.to_username = db.to_username
      /\ db'.impersonals = db.impersonals /\ db'.personals = db.personals
      /\ db'.peers_cid = db.peers_cid /\ db'.peers_username = db.peers_username
  BY DEF RedisInv, RedisTypeOK, Fields
<1>3. RedisTypeOK'
  BY <1>1, <1>2 DEF RedisInv, RedisTypeOK
<1>4. KeysAgree
  BY KeysSuffice DEF RedisInv
<1>5. KeysAgree'
  BY <1>2, <1>4 DEF KeysAgree
<1>6. DatabaseAgrees'
  BY <1>5, KeysSuffice, PTL
<1> QED BY <1>3, <1>6 DEF RedisInv, SyncingSound

\* An account is saved under all of its keys.  A new one finds no lists.
LEMMA SaveSound ==
    ASSUME RedisInv, NEW c \in Cid, cid_is_registered(c) \/ Unused(c), save_cnac(c)
    PROVE  RedisInv'
<1>0. role' = role /\ syncing' = syncing
  BY DEF save_cnac, Quiet, Step
<1>1. db' = [f \in Fields |-> db'[f]]
  BY DEF RedisInv, RedisTypeOK, Fields, save_cnac
<1>2. /\ db'.clients = db.clients \cup {c} /\ db'.username = db.username \cup {c}
      /\ db'.to_username = db.to_username \cup {c}
      /\ db'.impersonals = IF role = "client" THEN db.impersonals ELSE db.impersonals \cup {c}
      /\ db'.personals = IF role = "client" THEN db.personals \cup {c} ELSE db.personals
      /\ db'.peers_cid = db.peers_cid /\ db'.peers_username = db.peers_username
  BY DEF RedisInv, RedisTypeOK, Fields, save_cnac
<1>3. RedisTypeOK'
  BY <1>0, <1>1, <1>2 DEF RedisInv, RedisTypeOK
<1>4. KeysAgree
  BY KeysSuffice DEF RedisInv
<1>5. c \in db.clients \/ (db.peers_cid[c] = {} /\ db.peers_username[c] = {})
  BY DEF cid_is_registered, Unused
<1>6. KeysAgree'
  <2>1. \A x \in db'.clients : db'.peers_cid[x] = db'.peers_username[x]
    BY <1>2, <1>4, <1>5 DEF KeysAgree
  <2>2. role' = "server" =>
           \A x \in db'.clients, y \in Cid :
              y \in db'.peers_username[x] => y \in db'.clients /\ x \in db'.peers_username[y]
    BY <1>0, <1>2, <1>4, <1>5 DEF KeysAgree
  <2>3. /\ db'.username = db'.clients /\ db'.to_username = db'.clients
        /\ db'.impersonals = IF role' = "server" THEN db'.clients ELSE {}
        /\ db'.personals = IF role' = "client" THEN db'.clients ELSE {}
    BY <1>0, <1>2, <1>4 DEF KeysAgree, RedisInv, RedisTypeOK
  <2> QED BY <2>1, <2>2, <2>3 DEF KeysAgree
<1>7. DatabaseAgrees'
  BY <1>6, KeysSuffice, PTL
<1>8. SyncingSound'
  BY <1>0 DEF RedisInv, SyncingSound
<1> QED BY <1>3, <1>7, <1>8 DEF RedisInv

\* A deleted account is on no list of another.  The script finds the lists it is on
\* by its own list: at a server these are all of them.
LEMMA DeleteSound ==
    ASSUME RedisInv, NEW c \in Cid, delete_cnac_by_cid(c)
    PROVE  RedisInv'
<1> DEFINE cids == db.peers_cid
           names == db.peers_username
           newCids == Unlist(cids, c, cids[c])
           newNames == Unlist(names, c, cids[c])
<1>0. role' = role /\ syncing' = syncing /\ c \in db.clients /\ cids[c] = names[c]
  BY OldLists DEF delete_cnac_by_cid, Quiet, Step
<1>1. db' = [f \in Fields |-> db'[f]]
  BY DEF RedisInv, RedisTypeOK, Fields, delete_cnac_by_cid
<1>2. /\ db'.clients = db.clients \ {c} /\ db'.username = db.username \ {c}
      /\ db'.to_username = db.to_username \ {c}
      /\ db'.impersonals = db.impersonals \ {c} /\ db'.personals = db.personals \ {c}
      /\ db'.peers_cid = newCids /\ db'.peers_username = newNames
  BY DEF RedisInv, RedisTypeOK, Fields, delete_cnac_by_cid
<1>3. newCids \in [Cid -> SUBSET Cid] /\ newNames \in [Cid -> SUBSET Cid]
  BY OldLists DEF Unlist
<1>4. \A x \in Cid : /\ newCids[x] = IF x = c THEN {} ELSE IF x \in cids[c] THEN cids[x] \ {c} ELSE cids[x]
                     /\ newNames[x] = IF x = c THEN {} ELSE IF x \in cids[c] THEN names[x] \ {c} ELSE names[x]
  BY DEF Unlist
<1> HIDE DEF newCids, newNames
<1>5. RedisTypeOK'
  BY <1>0, <1>1, <1>2, <1>3 DEF RedisInv, RedisTypeOK
<1>6. \A x \in db.clients : newCids[x] = newNames[x]
  <2> TAKE x \in db.clients
  <2>1. x \in Cid /\ cids[x] = names[x]
    BY OldLists
  <2> QED BY <1>4, <2>1
<1>7. role = "server" =>
         \A x \in db.clients \ {c}, y \in Cid :
            y \in newNames[x] => y \in db.clients \ {c} /\ x \in newNames[y]
  <2> SUFFICES ASSUME role = "server", NEW x \in db.clients \ {c}, NEW y \in Cid, y \in newNames[x]
               PROVE  y \in db.clients \ {c} /\ x \in newNames[y]
    OBVIOUS
  <2>0. x \in Cid
    BY OldLists
  <2>1. y \in names[x]
    BY <1>4, <2>0
  <2>2. y \in db.clients /\ x \in names[y]
    BY <2>1, OldLists
  <2>3. y # c
    BY <1>0, <1>4, <2>0, <2>2
  <2> QED BY <1>4, <2>2, <2>3
<1>8. KeysAgree
  BY KeysSuffice DEF RedisInv
<1>9. KeysAgree'
  BY <1>0, <1>2, <1>6, <1>7, <1>8 DEF KeysAgree
<1>10. DatabaseAgrees'
  BY <1>9, KeysSuffice, PTL
<1>11. SyncingSound'
  BY <1>0 DEF RedisInv, SyncingSound
<1> QED BY <1>5, <1>10, <1>11 DEF RedisInv

\* Every call keeps the keys in agreement.
LEMMA NextSound ==
    ASSUME Reuse = FALSE, Local \subseteq Cid, \A l \in Lists : l \subseteq Cid,
           RedisInv, [RedisNext]_redisVars
    PROVE  RedisInv'
<1>1. CASE UNCHANGED <<role, db, syncing>>
  <2>1. KeysAgree
    BY KeysSuffice DEF RedisInv
  <2>2. KeysAgree'
    BY <1>1, <2>1 DEF KeysAgree
  <2>3. DatabaseAgrees'
    BY <2>2, KeysSuffice, PTL
  <2> QED BY <1>1, <2>3 DEF RedisInv, RedisTypeOK, SyncingSound
<1>2. CASE purge
  <2>1. Empty'
    BY <1>2 DEF Empty, purge, Quiet, Step, RedisInv, RedisTypeOK, NewDb, NoLists
  <2>2. (RedisTypeOK /\ DatabaseAgrees)'
    BY <2>1, EmptySound, PTL
  <2> QED BY <1>2, <2>2 DEF RedisInv, SyncingSound, purge, Quiet, Step
<1>3. ASSUME NEW t \in Task, AddBack(t) PROVE RedisInv'
  BY <1>3, AddBackSound
<1>4. ASSUME NEW c \in Own, Reuse \/ cid_is_registered(c) \/ Unused(c), save_cnac(c) PROVE RedisInv'
  BY <1>4, SaveSound DEF Own
<1>5. ASSUME NEW c \in Own, delete_cnac_by_cid(c) PROVE RedisInv'
  BY <1>5, DeleteSound DEF Own
<1>6. ASSUME NEW c \in Cid, NEW d \in Cid, c # d,
             register_p2p_as_server(c, d) \/ deregister_p2p_as_server(c, d)
      PROVE  RedisInv'
  BY <1>6, RegisterSound, DeregisterSound
<1>7. ASSUME NEW c \in Cid, NEW p \in Cid, role = "client",
             register_p2p_as_client(c, p) \/ deregister_p2p_as_client(c, p)
      PROVE  RedisInv'
  BY <1>7, ClientCallSound
<1>8. ASSUME NEW t \in Task, NEW c \in Own, NEW listed \in Lists, role = "client",
             synchronize_hyperlan_peer_list_as_client(t, c, listed \ {c})
      PROVE  RedisInv'
  <2>1. c \in Cid /\ listed \ {c} \in SUBSET Cid
    BY DEF Own
  <2> QED BY <1>8, <2>1, SynchronizeSound
<1>9. ASSUME NEW c \in Keeper[role], NEW s \in Slot, NEW v \in Value, store_byte_map_value(c, s, v)
      PROVE  RedisInv'
  BY <1>9, ByteMapSound DEF store_byte_map_value, Step
<1>10. ASSUME NEW c \in Keeper[role], NEW slots, get_byte_map_values(c, slots) PROVE RedisInv'
  BY <1>1, <1>10 DEF get_byte_map_values, Step
<1>11. ASSUME NEW c \in Keeper[role], NEW slots, remove_byte_map_values(c, slots) PROVE RedisInv'
  BY <1>11, ByteMapSound DEF remove_byte_map_values, Step
<1>12. CASE UNCHANGED redisVars
  BY <1>1, <1>12 DEF redisVars
<1> QED BY <1>2, <1>3, <1>4, <1>5, <1>6, <1>7, <1>8, <1>9, <1>10, <1>11, <1>12 DEF RedisNext

\* Whatever the sequence of calls, on registered accounts or not, the keys of the
\* registered ones agree: an account has its names and its status, a peer is on both
\* of its lists or on neither, and at a server it is on its peer's as well.  The
\* script of delete_cnac_by_cid relies on it: it finds the lists the account is on by
\* the account's own.  Only an account that is saved anew has to find nothing of an
\* earlier one.
THEOREM RedisKeysSound ==
    ASSUME Reuse = FALSE, Local \subseteq Cid, \A l \in Lists : l \subseteq Cid
    PROVE  RedisSpec => []DatabaseAgrees
<1>1. RedisInit => RedisInv
  <2> SUFFICES ASSUME RedisInit PROVE RedisInv
    OBVIOUS
  <2>1. RedisTypeOK /\ DatabaseAgrees
    BY EmptySound DEF Empty, RedisInit
  <2>2. DOMAIN syncing = {}
    BY SMTT(30) DEF RedisInit
  <2>3. syncing = [t \in DOMAIN syncing |-> syncing[t]]
    BY SMTT(30) DEF RedisInit
  <2> QED BY <2>1, <2>2, <2>3 DEF RedisInv, SyncingSound
<1>2. RedisInv /\ [RedisNext]_redisVars => RedisInv'
  BY NextSound
<1>3. RedisInv => DatabaseAgrees
  BY DEF RedisInv
<1> QED BY <1>1, <1>2, <1>3, PTL DEF RedisSpec

-----------------------------------------------------------------------------
(* SQL *)

CONSTANTS Repeats, MayOverwrite, MayOverlap   \* of SqlBackend

VARIABLES removing, purging

Sql == INSTANCE SqlBackend

Database == [cnacs : SUBSET Cid, peers : [Sql!Rows -> Nat], bytemap : [Cid \X Slot -> Seq(Value)]]

SqlTypeOK == role \in {"server", "client"} /\ db \in Database

\* A pair has as many rows in one direction as in the other: what keeps
\* hyperlan_peer_exists, which wants exactly one row, the same at both.
SameRows == role = "server" => \A c, d \in Cid : db.peers[<<c, d>>] = db.peers[<<d, c>>]

SqlInv == SqlTypeOK /\ SameRows /\ Sql!RowsHaveAccounts

\* The empty database has no rows.
LEMMA SqlInitSound == Sql!SqlInit => SqlInv
<1> SUFFICES ASSUME Sql!SqlInit PROVE SqlInv
  OBVIOUS
<1>1. db \in Database
  <2>1. <<>> \in Seq(Value)
    BY SMTT(30)
  <2> QED BY <2>1 DEF Sql!SqlInit, Sql!NewDb, Database, Sql!Rows
<1>2. \A c, d \in Cid : db.peers[<<c, d>>] = 0
  BY DEF Sql!SqlInit, Sql!NewDb, Sql!Rows
<1>3. \A c \in Cid, s \in Slot : db.bytemap[<<c, s>>] = <<>>
  BY DEF Sql!SqlInit, Sql!NewDb
<1> QED BY SMTT(30), <1>1, <1>2, <1>3 DEF Sql!SqlInit, SqlInv, SqlTypeOK, SameRows, Sql!RowsHaveAccounts

\* Deleting accounts with the cascade and the trigger keeps the rest in order.
LEMMA CascadeSound ==
    ASSUME SqlInv, NEW gone, db' = Sql!Cascade(db, gone), role' = role
    PROVE  SqlInv'
<1>1. db' \in Database
  <2>1. <<>> \in Seq(Value)
    BY SMTT(30)
  <2> QED BY <2>1 DEF SqlInv, SqlTypeOK, Database, Sql!Cascade
<1>2. \A c, d \in Cid : db'.peers[<<c, d>>] =
                          IF c \in gone \/ d \in gone THEN 0 ELSE db.peers[<<c, d>>]
  BY DEF Sql!Cascade, Sql!Rows
<1>3. \A c \in Cid, s \in Slot : db'.bytemap[<<c, s>>] =
                          IF c \in gone THEN <<>> ELSE db.bytemap[<<c, s>>]
  BY DEF Sql!Cascade
<1>4. db'.cnacs = db.cnacs \ gone
  BY DEF Sql!Cascade
<1>5. SameRows'
  BY <1>2 DEF SqlInv, SameRows
<1>6. Sql!RowsHaveAccounts'
  BY SMTT(30), <1>2, <1>3, <1>4 DEF SqlInv, Sql!RowsHaveAccounts
<1> QED BY <1>1, <1>5, <1>6 DEF SqlInv, SqlTypeOK

\* A call that leaves the rows of peers alone, and adds accounts at most.
LEMMA SamePeersSound ==
    ASSUME SqlInv, db' \in Database, role' = role, db'.peers = db.peers, db.cnacs \subseteq db'.cnacs,
           \A c \in Cid, s \in Slot : db'.bytemap[<<c, s>>] # <<>> => c \in db'.cnacs
    PROVE  SqlInv'
<1>1. SameRows'
  BY DEF SqlInv, SameRows
<1>2. Sql!RowsHaveAccounts'
  BY DEF SqlInv, Sql!RowsHaveAccounts
<1> QED BY <1>1, <1>2 DEF SqlInv, SqlTypeOK

\* A call that changes the rows of peers only.
LEMMA OtherPeersSound ==
    ASSUME SqlInv, role' = role, NEW peers \in [Sql!Rows -> Nat], db' = [db EXCEPT !.peers = peers],
           role = "server" => \A c, d \in Cid : peers[<<c, d>>] = peers[<<d, c>>],
           \A c, d \in Cid : peers[<<c, d>>] > 0 => c \in db.cnacs /\ (role = "server" => d \in db.cnacs)
    PROVE  SqlInv'
<1>1. db' \in Database /\ db'.peers = peers /\ db'.cnacs = db.cnacs /\ db'.bytemap = db.bytemap
  BY DEF SqlInv, SqlTypeOK, Database
<1> QED BY <1>1 DEF SqlInv, SqlTypeOK, SameRows, Sql!RowsHaveAccounts

\* The client's rows of c, and the pairs of the server: the calls on peers.
LEMMA PeerCallSound ==
    ASSUME SqlInv, NEW c \in Cid, NEW d \in Cid, c # d,
           \/ role = "server" /\ Sql!register_p2p_as_server(c, d)
           \/ role = "server" /\ Sql!deregister_p2p_as_server(c, d)
           \/ role = "client" /\ Sql!register_p2p_as_client(c, d)
           \/ role = "client" /\ Sql!deregister_p2p_as_client(c, d)
    PROVE  SqlInv'
<1> DEFINE old == db.peers
           Pair(x, y) == (x = c /\ y = d) \/ (x = d /\ y = c)
<1>0. /\ role' = role /\ <<c, d>> \in Sql!Rows /\ <<d, c>> \in Sql!Rows /\ <<c, d>> # <<d, c>>
      /\ old \in [Sql!Rows -> Nat] /\ db \in Database
  BY DEF SqlInv, SqlTypeOK, Database, Sql!Rows, Sql!register_p2p_as_server, Sql!deregister_p2p_as_server,
         Sql!register_p2p_as_client, Sql!deregister_p2p_as_client, Sql!Quiet, Sql!Step
<1>1. CASE role = "server" /\ Sql!register_p2p_as_server(c, d)
  <2> DEFINE new == [old EXCEPT ![<<c, d>>] = @ + 1, ![<<d, c>>] = @ + 1]
  <2>1. db' = [db EXCEPT !.peers = new]
    BY <1>0, <1>1 DEF Sql!register_p2p_as_server, Database
  <2>2. new \in [Sql!Rows -> Nat]
    BY SMTT(30), <1>0
  <2>3. \A x, y \in Cid : new[<<x, y>>] =
           IF Pair(x, y) THEN old[<<x, y>>] + 1 ELSE old[<<x, y>>]
    BY <1>0 DEF Sql!Rows
  <2> HIDE DEF new
  <2>4. \A x, y \in Cid : new[<<x, y>>] = new[<<y, x>>]
    <3>1. \A x, y \in Cid : old[<<x, y>>] \in Nat /\ old[<<x, y>>] = old[<<y, x>>]
      BY <1>0, <1>1 DEF SqlInv, SameRows, Sql!Rows
    <3> TAKE x, y \in Cid
    <3>2. Pair(x, y) <=> Pair(y, x)
      OBVIOUS
    <3> HIDE DEF old, Pair
    <3>3. CASE Pair(x, y)
      <4>1. new[<<x, y>>] = old[<<x, y>>] + 1 /\ new[<<y, x>>] = old[<<y, x>>] + 1
        BY <2>3, <3>2, <3>3
      <4> QED BY <3>1, <4>1
    <3>4. CASE ~Pair(x, y)
      <4>1. new[<<x, y>>] = old[<<x, y>>] /\ new[<<y, x>>] = old[<<y, x>>]
        BY <2>3, <3>2, <3>4
      <4> QED BY <3>1, <4>1
    <3> QED BY <3>3, <3>4
  <2>5. \A x, y \in Cid : new[<<x, y>>] > 0 => x \in db.cnacs /\ y \in db.cnacs
    BY <1>1, <2>3 DEF SqlInv, Sql!RowsHaveAccounts, Sql!register_p2p_as_server
  <2> QED BY <1>0, <2>1, <2>2, <2>4, <2>5, OtherPeersSound
<1>2. CASE role = "server" /\ Sql!deregister_p2p_as_server(c, d)
  <2> DEFINE new == [old EXCEPT ![<<c, d>>] = 0, ![<<d, c>>] = 0]
  <2>1. db' = [db EXCEPT !.peers = new]
    BY <1>0, <1>2 DEF Sql!deregister_p2p_as_server, Database
  <2>2. new \in [Sql!Rows -> Nat]
    BY <1>0
  <2>3. \A x, y \in Cid : new[<<x, y>>] = IF Pair(x, y) THEN 0 ELSE old[<<x, y>>]
    BY <1>0 DEF Sql!Rows
  <2> HIDE DEF new
  <2>4. \A x, y \in Cid : new[<<x, y>>] = new[<<y, x>>]
    BY <1>2, <2>3 DEF SqlInv, SameRows
  <2>5. \A x, y \in Cid : new[<<x, y>>] > 0 => x \in db.cnacs /\ y \in db.cnacs
    BY SMTT(30), <1>2, <2>3 DEF SqlInv, Sql!RowsHaveAccounts
  <2> QED BY <1>0, <2>1, <2>2, <2>4, <2>5, OtherPeersSound
<1>3. CASE role = "client" /\ Sql!register_p2p_as_client(c, d)
  <2> DEFINE new == [old EXCEPT ![<<c, d>>] = @ + 1]
  <2>1. db' = [db EXCEPT !.peers = new]
    BY <1>0, <1>3 DEF Sql!register_p2p_as_client, Database
  <2>2. new \in [Sql!Rows -> Nat]
    BY SMTT(30), <1>0
  <2>3. \A x, y \in Cid : new[<<x, y>>] > 0 => x \in db.cnacs
    BY <1>0, <1>3 DEF Sql!Rows, SqlInv, Sql!RowsHaveAccounts, Sql!register_p2p_as_client
  <2> HIDE DEF new
  <2> QED BY <1>0, <1>3, <2>1, <2>2, <2>3, OtherPeersSound
<1>4. CASE role = "client" /\ Sql!deregister_p2p_as_client(c, d)
  <2> DEFINE new == [old EXCEPT ![<<c, d>>] = 0]
  <2>1. db' = [db EXCEPT !.peers = new]
    BY <1>0, <1>4 DEF Sql!deregister_p2p_as_client, Database
  <2>2. new \in [Sql!Rows -> Nat]
    BY <1>0
  <2>3. \A x, y \in Cid : new[<<x, y>>] > 0 => x \in db.cnacs
    BY SMTT(30), <1>0, <1>4 DEF Sql!Rows, SqlInv, Sql!RowsHaveAccounts
  <2> HIDE DEF new
  <2> QED BY <1>0, <1>4, <2>1, <2>2, <2>3, OtherPeersSound
<1> QED BY <1>1, <1>2, <1>3, <1>4

\* A client takes over the list the server has sent.
LEMMA SqlSynchronizeSound ==
    ASSUME SqlInv, role = "client", NEW c, NEW listed,
           Sql!synchronize_hyperlan_peer_list_as_client(c, listed)
    PROVE  SqlInv'
<1> DEFINE new == [r \in Sql!Rows |-> IF r[1] # c THEN db.peers[r] ELSE IF r[2] \in listed THEN 1 ELSE 0]
<1>1. db' = [db EXCEPT !.peers = new] /\ role' = role
  BY DEF Sql!synchronize_hyperlan_peer_list_as_client, Sql!Quiet, Sql!Step, SqlInv, SqlTypeOK, Database
<1>2. new \in [Sql!Rows -> Nat]
  BY DEF SqlInv, SqlTypeOK, Database
<1>3. \A x, y \in Cid : new[<<x, y>>] = IF x # c THEN db.peers[<<x, y>>]
                                        ELSE IF y \in listed THEN 1 ELSE 0
  BY DEF Sql!Rows
<1>4. \A x, y \in Cid : new[<<x, y>>] > 0 => x \in db.cnacs
  BY SMTT(30), <1>3 DEF SqlInv, Sql!RowsHaveAccounts, Sql!synchronize_hyperlan_peer_list_as_client
<1> HIDE DEF new
<1> QED BY <1>1, <1>2, <1>4, OtherPeersSound

\* The calls on byte maps.
LEMMA SqlByteMapSound ==
    ASSUME SqlInv, NEW c \in Cid, NEW s \in Slot, NEW v \in Value, Sql!store_byte_map_value(c, s, v)
    PROVE  SqlInv'
<1>1. /\ role' = role /\ db \in Database /\ c \in db.cnacs
      /\ db' = [db EXCEPT !.bytemap[<<c, s>>] = Append(@, v)]
  BY DEF Sql!store_byte_map_value, Sql!Step, SqlInv, SqlTypeOK
<1>2. Append(db.bytemap[<<c, s>>], v) \in Seq(Value)
  BY SMTT(30), <1>1 DEF Database
<1>3. db' \in Database /\ db'.peers = db.peers /\ db'.cnacs = db.cnacs
  BY <1>1, <1>2 DEF Database
<1>4. \A x \in Cid, y \in Slot : db'.bytemap[<<x, y>>] # <<>> => x \in db'.cnacs
  BY <1>1, <1>3 DEF SqlInv, Sql!RowsHaveAccounts, Database
<1> QED BY <1>1, <1>3, <1>4, SamePeersSound

\* The second half of a removal.
LEMMA DeleteReadSound ==
    ASSUME SqlInv, NEW r, Sql!DeleteRead(r)
    PROVE  SqlInv'
<1> DEFINE map == Sql!Unslot(r.cid, r.slots)
<1>1. /\ role' = role /\ db \in Database /\ db' = [db EXCEPT !.bytemap = map]
  BY DEF Sql!DeleteRead, SqlInv, SqlTypeOK
<1>2. <<>> \in Seq(Value)
  BY SMTT(30)
<1>3. map \in [Cid \X Slot -> Seq(Value)]
  BY <1>1, <1>2 DEF Sql!Unslot, Database
<1>4. \A x \in Cid, y \in Slot : map[<<x, y>>] # <<>> => x \in db.cnacs
  BY <1>1 DEF Sql!Unslot, Database, SqlInv, Sql!RowsHaveAccounts
<1> HIDE DEF map
<1>5. /\ db' \in Database /\ db'.peers = db.peers /\ db'.cnacs = db.cnacs /\ db'.bytemap = map
  BY <1>1, <1>3 DEF Database
<1> QED BY <1>1, <1>4, <1>5, SamePeersSound

\* One of the three statements of a purge.
LEMMA EmptyTableSound ==
    ASSUME SqlInv, Sql!EmptyTable
    PROVE  SqlInv'
<1>1. role' = role /\ db \in Database
  BY DEF Sql!EmptyTable, SqlInv, SqlTypeOK
<1>2. CASE db' = [db EXCEPT !.peers = Sql!NewDb.peers]
  <2>1. Sql!NewDb.peers \in [Sql!Rows -> Nat] /\ \A x, y \in Cid : Sql!NewDb.peers[<<x, y>>] = 0
    BY DEF Sql!NewDb, Sql!Rows
  <2> QED BY SMTT(30), <1>1, <1>2, <2>1, OtherPeersSound
<1>3. CASE db' = [db EXCEPT !.bytemap = Sql!NewDb.bytemap]
  <2>1. <<>> \in Seq(Value)
    BY SMTT(30)
  <2>2. /\ Sql!NewDb.bytemap \in [Cid \X Slot -> Seq(Value)]
        /\ \A x \in Cid, y \in Slot : Sql!NewDb.bytemap[<<x, y>>] = <<>>
    BY <2>1 DEF Sql!NewDb
  <2>3. /\ db' \in Database /\ db'.peers = db.peers /\ db'.cnacs = db.cnacs
        /\ db'.bytemap = Sql!NewDb.bytemap
    BY <1>1, <1>3, <2>2 DEF Database
  <2> QED BY <1>1, <2>2, <2>3, SamePeersSound
<1>4. CASE db' = Sql!Cascade(db, db.cnacs)
  BY <1>1, <1>4, CascadeSound
<1> QED BY <1>2, <1>3, <1>4 DEF Sql!EmptyTable

\* Every call keeps the rows in order, whatever the others have left.
LEMMA SqlNextSound ==
    ASSUME Local \subseteq Cid, \A r \in {"server", "client"} : Keeper[r] \subseteq Cid,
           SqlInv, [Sql!SqlNext]_(Sql!sqlVars)
    PROVE  SqlInv'
<1>1. CASE UNCHANGED <<role, db>>
  BY <1>1 DEF SqlInv, SqlTypeOK, SameRows, Sql!RowsHaveAccounts
<1>2. CASE Sql!purge
  BY <1>1, <1>2 DEF Sql!purge
<1>3. CASE Sql!EmptyTable
  BY <1>3, EmptyTableSound
<1>4. ASSUME NEW r \in removing, Sql!DeleteRead(r) PROVE SqlInv'
  BY <1>4, DeleteReadSound
<1>5. ASSUME NEW c \in Sql!Own, Sql!save_cnac(c) PROVE SqlInv'
  <2>1. c \in Cid /\ role' = role /\ db \in Database /\ db' = [db EXCEPT !.cnacs = @ \cup {c}]
    BY <1>5 DEF Sql!Own, Sql!save_cnac, Sql!Quiet, Sql!Step, SqlInv, SqlTypeOK
  <2>2. /\ db' \in Database /\ db'.peers = db.peers /\ db.cnacs \subseteq db'.cnacs
        /\ db'.bytemap = db.bytemap
    BY <2>1 DEF Database
  <2> QED BY <2>1, <2>2, SamePeersSound DEF SqlInv, Sql!RowsHaveAccounts
<1>6. ASSUME NEW c \in Sql!Own, Sql!delete_cnac_by_cid(c) PROVE SqlInv'
  BY <1>6, CascadeSound DEF Sql!delete_cnac_by_cid, Sql!Quiet, Sql!Step
<1>7. ASSUME NEW c \in Cid, NEW d \in Cid, role = "server", c # d,
             Sql!register_p2p_as_server(c, d) \/ Sql!deregister_p2p_as_server(c, d)
      PROVE  SqlInv'
  BY <1>7, PeerCallSound
<1>8. ASSUME NEW c \in Cid, NEW d \in Cid, role = "client", c # d,
             Sql!register_p2p_as_client(c, d) \/ Sql!deregister_p2p_as_client(c, d)
      PROVE  SqlInv'
  BY <1>8, PeerCallSound
<1>9. ASSUME NEW c \in Sql!Own, NEW listed \in Lists, role = "client",
             Sql!synchronize_hyperlan_peer_list_as_client(c, listed \ {c})
      PROVE  SqlInv'
  BY <1>9, SqlSynchronizeSound
<1>10. ASSUME NEW c \in Keeper[role], NEW s \in Slot, NEW v \in Value, Sql!store_byte_map_value(c, s, v)
       PROVE  SqlInv'
  BY <1>10, SqlByteMapSound DEF SqlInv, SqlTypeOK
<1>11. ASSUME NEW c \in Keeper[role], NEW slots, Sql!get_byte_map_values(c, slots) PROVE SqlInv'
  BY <1>1, <1>11 DEF Sql!get_byte_map_values, Sql!Step
<1>12. ASSUME NEW c \in Keeper[role], NEW s \in Slot,
              Sql!remove_byte_map_value(c, s) \/ Sql!remove_byte_map_values_by_key(c, Sql!Box(s[1]))
       PROVE  SqlInv'
  BY <1>1, <1>12 DEF Sql!remove_byte_map_value, Sql!remove_byte_map_values_by_key, Sql!Selected, Sql!Step
<1>13. CASE UNCHANGED Sql!sqlVars
  BY <1>1, <1>13 DEF Sql!sqlVars
<1> QED BY <1>2, <1>3, <1>4, <1>5, <1>6, <1>7, <1>8, <1>9, <1>10, <1>11, <1>12, <1>13 DEF Sql!SqlNext

\* Whatever sequence of calls, repeated registrations and overlapping removals
\* included, only accounts have rows and a server lists two accounts at both or at
\* neither (register_p2p_as_server, deregister_p2p_as_server, delete_cnac_by_cid
\* with its trigger, purge).
THEOREM SqlRowsSound ==
    ASSUME Local \subseteq Cid, \A r \in {"server", "client"} : Keeper[r] \subseteq Cid
    PROVE  Sql!SqlSpec => [](Sql!ListedAtBoth /\ Sql!RowsHaveAccounts)
<1>1. Sql!SqlInit => SqlInv
  BY SqlInitSound
<1>2. SqlInv /\ [Sql!SqlNext]_(Sql!sqlVars) => SqlInv'
  BY SqlNextSound
<1>3. SqlInv => Sql!ListedAtBoth /\ Sql!RowsHaveAccounts
  BY DEF SqlInv, SameRows, Sql!ListedAtBoth, Sql!hyperlan_peer_exists
<1> QED BY <1>1, <1>2, <1>3, PTL DEF Sql!SqlSpec
=============================================================================
