---------------------------- MODULE RedisBackend ----------------------------
(***************************************************************************)
(* The backend that keeps the accounts in Redis.  A script or an atomic    *)
(* pipeline is one step of the database; a script that fails half way      *)
(* keeps what it has written.  Usernames and cids determine each other, so *)
(* a cid stands for the username as well.                                  *)
(***************************************************************************)
EXTENDS Functions, TLC

CONSTANTS Cid, Slot, Value, Local, Keeper, Lists,
          Task,    \* synchronisations that may be under way at once
          Reuse    \* may an account be registered of which there are lists or bytes?

VARIABLES role, answer,
          db,       \* the database, a field per kind of key
          syncing   \* lists that are deleted and not yet added back, by task

redisVars == <<role, answer, db, syncing>>

Own == IF role = "server" THEN Cid ELSE Local

NoLists == [c \in Cid |-> {}]

NewDb ==
    [clients |-> {},               \* clients: cid to account
     username |-> {},              \* username.local: username to cid
     to_username |-> {},           \* cid.to.username.local: cid to username
     impersonals |-> {}, personals |-> {},
     peers_cid |-> NoLists,        \* peers_for.cid: usernames to cids
     peers_username |-> NoLists,   \* peers_for.username: cids to usernames
     byte_map |-> <<>>]

RedisInit ==
    /\ role \in {"server", "client"}
    /\ answer = [of |-> "nobody", found |-> <<>>] /\ db = NewDb /\ syncing = <<>>

Without(f, keys) == Restrict(f, DOMAIN f \ keys)
-----------------------------------------------------------------------------
\* The queries.
cid_is_registered(c) == c \in db.clients

get_username_by_cid(c) == c \in db.to_username

get_registered_impersonal_cids == db.impersonals

get_hyperlan_peer_list(c) == db.peers_username[c]

get_hyperlan_peer_by_cid(c, p) == p \in db.peers_username[c]

hyperlan_peer_exists(c, p) == p \in db.peers_username[c]

hyperlan_peers_are_mutuals(c, wanted) == wanted \cap db.peers_username[c]

get_hyperlan_peer_list_as_server(c) == db.peers_username[c]

\* An unknown peer comes back as nil, which is no username: the call fails.
PeersCanBeRead(c, wanted) == wanted \subseteq db.peers_username[c]

Entries(c, slots) == ({c} \X slots) \cap DOMAIN db.byte_map

Held(c, slots) ==
    [of |-> c, found |-> [s \in {e[2] : e \in Entries(c, slots)} |-> db.byte_map[<<c, s>>]]]

Box(b) == {s \in Slot : s[1] = b}

Calls == {{s} : s \in Slot} \cup {Box(s[1]) : s \in Slot}
-----------------------------------------------------------------------------
\* The calls.
Step == UNCHANGED <<role, syncing>>

Quiet == Step /\ UNCHANGED answer

save_cnac(c) ==
    /\ Quiet
    /\ db' = [db EXCEPT !.username = @ \cup {c}, !.clients = @ \cup {c}, !.to_username = @ \cup {c},
                        !.personals = IF role = "client" THEN @ \cup {c} ELSE @,
                        !.impersonals = IF role = "client" THEN @ ELSE @ \cup {c}]

\* The peers of the account lose it from both of their lists.
Unlist(lists, c, listing) == [d \in Cid |-> IF d = c THEN {} ELSE IF d \in listing THEN lists[d] \ {c} ELSE lists[d]]

\* The script fails at the first line that needs a username there is none of.  The
\* byte map stays.
delete_cnac_by_cid(c) ==
    /\ Quiet
    /\ c \in db.to_username
    /\ db' = [db EXCEPT !.username = @ \ {c}, !.clients = @ \ {c}, !.to_username = @ \ {c},
                        !.personals = @ \ {c}, !.impersonals = @ \ {c},
                        !.peers_cid = Unlist(@, c, db.peers_cid[c]),
                        !.peers_username = Unlist(@, c, db.peers_cid[c])]

purge == Quiet /\ db' = NewDb

\* Without the username of d nothing is written; without the username of c, which
\* is only needed by the second write, the first one stays.
register_p2p_as_server(c, d) ==
    /\ Quiet
    /\ d \in db.to_username
    /\ db' = IF c \in db.to_username
             THEN [db EXCEPT !.peers_username[c] = @ \cup {d}, !.peers_username[d] = @ \cup {c},
                             !.peers_cid[c] = @ \cup {d}, !.peers_cid[d] = @ \cup {c}]
             ELSE [db EXCEPT !.peers_username[c] = @ \cup {d}]

deregister_p2p_as_server(c, d) ==
    /\ Quiet
    /\ d \in db.to_username
    /\ db' = IF c \in db.to_username
             THEN [db EXCEPT !.peers_cid[c] = @ \ {d}, !.peers_cid[d] = @ \ {c},
                             !.peers_username[c] = @ \ {d}, !.peers_username[d] = @ \ {c}]
             ELSE [db EXCEPT !.peers_cid[c] = @ \ {d}]

register_p2p_as_client(c, p) ==
    /\ Quiet
    /\ db' = [db EXCEPT !.peers_username[c] = @ \cup {p}, !.peers_cid[c] = @ \cup {p}]

deregister_p2p_as_client(c, p) ==
    /\ Quiet
    /\ p \in db.peers_username[c]
    /\ db' = [db EXCEPT !.peers_cid[c] = @ \ {p}, !.peers_username[c] = @ \ {p}]

\* The old lists are deleted by a command of their own, before the pipeline.
synchronize_hyperlan_peer_list_as_client(t, c, listed) ==
    /\ t \notin DOMAIN syncing
    /\ syncing' = [u \in DOMAIN syncing \cup {t} |-> IF u = t THEN [cid |-> c, peers |-> listed] ELSE syncing[u]]
    /\ db' = [db EXCEPT !.peers_cid[c] = {}, !.peers_username[c] = {}]
    /\ UNCHANGED <<role, answer>>

AddBack(t) ==
    /\ t \in DOMAIN syncing
    /\ syncing' = Without(syncing, {t})
    /\ db' = [db EXCEPT !.peers_cid[syncing[t].cid] = @ \cup syncing[t].peers,
                        !.peers_username[syncing[t].cid] = @ \cup syncing[t].peers]
    /\ UNCHANGED <<role, answer>>

store_byte_map_value(c, s, v) ==
    /\ Step
    /\ db' = [db EXCEPT !.byte_map = (<<c, s>> :> v) @@ @]
    /\ answer' = Held(c, {s})

get_byte_map_values(c, slots) == Step /\ UNCHANGED db /\ answer' = Held(c, slots)

remove_byte_map_values(c, slots) ==
    /\ Step
    /\ db' = [db EXCEPT !.byte_map = Without(@, {c} \X slots)]
    /\ answer' = Held(c, slots)

\* Nothing is left of an earlier account.
Unused(c) == Entries(c, Slot) = {} /\ db.peers_cid[c] = {} /\ db.peers_username[c] = {}

RedisNext ==
    \/ purge
    \/ \E t \in Task : AddBack(t)
    \/ \E c \in Own : (Reuse \/ cid_is_registered(c) \/ Unused(c)) /\ save_cnac(c)
    \/ \E c \in Own : delete_cnac_by_cid(c)
    \/ \E c, d \in Cid :
          /\ role = "server" /\ c # d
          /\ register_p2p_as_server(c, d) \/ deregister_p2p_as_server(c, d)
    \/ \E c, p \in Cid :
          /\ role = "client" /\ c # p
          /\ register_p2p_as_client(c, p) \/ deregister_p2p_as_client(c, p)
    \/ \E t \in Task, c \in Own, listed \in Lists :
          role = "client" /\ synchronize_hyperlan_peer_list_as_client(t, c, listed \ {c})
    \/ \E c \in Keeper[role], s \in Slot, v \in Value : store_byte_map_value(c, s, v)
    \/ \E c \in Keeper[role], slots \in Calls : get_byte_map_values(c, slots) \/ remove_byte_map_values(c, slots)

RedisSpec == RedisInit /\ [][RedisNext]_redisVars
-----------------------------------------------------------------------------
\* What is promised about: the lists and the byte maps of accounts
Store == INSTANCE AccountStore WITH
    accounts <- db.clients,
    peers <- {pair \in db.clients \X Cid : hyperlan_peer_exists(pair[1], pair[2])},
    bytes <- Restrict(db.byte_map, {k \in DOMAIN db.byte_map : k[1] \in db.clients}),
    busy <- {<<"fill", syncing[t].cid>> : t \in DOMAIN syncing}

\* A server lists two accounts at both or at neither, and no others.
ListedAtBoth ==
    role = "server" =>
        \A c \in db.clients, d \in Cid :
            hyperlan_peer_exists(c, d) => d \in db.clients /\ hyperlan_peer_exists(d, c)

\* The keys of the accounts agree with one another, whatever is left of others: an
\* account has its names and its status, and a peer is in both of its lists.
\* get_hyperlan_peers succeeds just when all peers asked for are listed (the other
\* backends leave out those that are not).
DatabaseAgrees ==
    /\ db.username = db.clients /\ db.to_username = db.clients
    /\ db.impersonals = IF role = "server" THEN db.clients ELSE {}
    /\ db.personals = IF role = "client" THEN db.clients ELSE {}
    /\ \A c \in db.clients : db.peers_cid[c] = db.peers_username[c]
    /\ \A c \in db.clients, wanted \in SUBSET Cid :
          PeersCanBeRead(c, wanted) <=> hyperlan_peers_are_mutuals(c, wanted) = wanted
    /\ ListedAtBoth
=============================================================================
