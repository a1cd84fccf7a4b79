--------------------------- MODULE MemoryBackend ---------------------------
(***************************************************************************)
(* The backend that keeps the accounts in memory.  "role" says whether the *)
(* node is a server, whose accounts are its clients', or a client, which   *)
(* keeps its own accounts and lists peers it has no account of.  A call    *)
(* that returns an error and changes nothing is not a step.                *)
(***************************************************************************)
EXTENDS Naturals, SequencesExt

CONSTANTS Cid, Slot, Value,
          Local,    \* the accounts a client may have
          Keeper,   \* the accounts whose byte map is used, by role
          Lists,    \* the lists a server sends at a login
          Repeats   \* may a pair be registered that is registered, or just being deregistered?

VARIABLES role, clients,
          answer,         \* what the last call on a byte map found, and of whom
          deregistering   \* <<c, d>>: c's list has lost d, and d's is next

Own == IF role = "server" THEN Cid ELSE Local

NewAccount == [mutuals |-> <<>>, byte_map |-> <<>>]

NoAnswer == [of |-> "nobody", found |-> <<>>]

MemInit ==
    /\ role \in {"server", "client"}
    /\ clients = <<>> /\ answer = NoAnswer /\ deregistering = {}

Without(f, keys) == Restrict(f, DOMAIN f \ keys)
-----------------------------------------------------------------------------
\* The queries.
cid_is_registered(c) == c \in DOMAIN clients

MutualsOf(c) == IF cid_is_registered(c) THEN clients[c].mutuals ELSE <<>>

BytesOf(c) == IF cid_is_registered(c) THEN clients[c].byte_map ELSE <<>>

get_hyperlan_peer_list(c) == ToSet(MutualsOf(c))

get_hyperlan_peer_by_cid(c, p) == \E i \in DOMAIN MutualsOf(c) : MutualsOf(c)[i] = p

hyperlan_peer_exists(c, p) == get_hyperlan_peer_by_cid(c, p)

hyperlan_peers_are_mutuals(c, wanted) ==
    {p \in wanted : cid_is_registered(c) /\ p \in ToSet(MutualsOf(c))}

get_hyperlan_peers(c, wanted) == {p \in wanted : get_hyperlan_peer_by_cid(c, p)}

get_registered_impersonal_cids == IF role = "server" THEN DOMAIN clients ELSE {}

Held(c, slots) == [of |-> c, found |-> Restrict(BytesOf(c), slots \cap DOMAIN BytesOf(c))]

Box(b) == {s \in Slot : s[1] = b}
-----------------------------------------------------------------------------
\* The changes to an account.
insert_hyperlan_peer(cl, c, p) == [cl EXCEPT ![c].mutuals = Append(@, p)]

remove_hyperlan_peer(cl, c, p) == [cl EXCEPT ![c].mutuals = RemoveFirst(@, p)]

\* What the calls leave alone.  A deregistration holds a read lock on the map of the
\* accounts: calls that need it for writing wait.
Quiet == UNCHANGED <<answer, deregistering>>

Locks == deregistering = {} /\ Quiet

\* The account that is saved is the one in use, or a new one.
save_cnac(c) ==
    /\ Locks
    /\ clients' = IF cid_is_registered(c) THEN clients ELSE (c :> NewAccount) @@ clients

\* A mutant: the account stays on the lists of its peers.
DeleteAlone(c) ==
    /\ Locks
    /\ cid_is_registered(c)
    /\ clients' = Without(clients, {c})

delete_cnac_by_cid(c) ==
    /\ Locks
    /\ cid_is_registered(c)
    /\ clients' = FoldLeft(LAMBDA cl, p : IF p \in DOMAIN cl THEN remove_hyperlan_peer(cl, p, c) ELSE cl,
                           Without(clients, {c}), clients[c].mutuals)

purge == Locks /\ clients' = <<>>

Unlisted(c, d) ==
    /\ ~hyperlan_peer_exists(c, d) /\ ~hyperlan_peer_exists(d, c)
    /\ deregistering \cap {<<c, d>>, <<d, c>>} = {}

\* Both accounts are locked before either changes.
register_p2p_as_server(c, d) ==
    /\ cid_is_registered(c) /\ cid_is_registered(d)
    /\ clients' = insert_hyperlan_peer(insert_hyperlan_peer(clients, c, d), d, c)
    /\ Quiet

\* The accounts are locked and changed one after the other.  c that does not list d
\* is an error.
deregister_p2p_as_server(c, d) ==
    /\ cid_is_registered(c) /\ cid_is_registered(d)
    /\ hyperlan_peer_exists(c, d)
    /\ clients' = remove_hyperlan_peer(clients, c, d)
    /\ deregistering' = deregistering \cup {<<c, d>>}
    /\ UNCHANGED answer

\* d that does not list c is an error as well, and too late.
UnlistOther(c, d) ==
    /\ <<c, d>> \in deregistering
    /\ clients' = remove_hyperlan_peer(clients, d, c)
    /\ deregistering' = deregistering \ {<<c, d>>}
    /\ UNCHANGED answer

register_p2p_as_client(c, p) ==
    /\ cid_is_registered(c)
    /\ clients' = insert_hyperlan_peer(clients, c, p)
    /\ Quiet

deregister_p2p_as_client(c, p) ==
    /\ cid_is_registered(c)
    /\ clients' = remove_hyperlan_peer(clients, c, p)
    /\ Quiet

synchronize_hyperlan_peer_list_as_client(c, listed) ==
    /\ cid_is_registered(c)
    /\ clients' = [clients EXCEPT ![c].mutuals = SetToSeq(listed)]
    /\ Quiet

\* Of an account that is not registered there are no values, and none is kept.
store_byte_map_value(c, s, v) ==
    /\ clients' = IF cid_is_registered(c) THEN [clients EXCEPT ![c].byte_map = (s :> v) @@ @] ELSE clients
    /\ answer' = Held(c, {s})
    /\ UNCHANGED deregistering

get_byte_map_values(c, slots) == answer' = Held(c, slots) /\ UNCHANGED <<clients, deregistering>>

remove_byte_map_values(c, slots) ==
    /\ clients' = IF cid_is_registered(c) THEN [clients EXCEPT ![c].byte_map = Without(@, slots)] ELSE clients
    /\ answer' = Held(c, slots)
    /\ UNCHANGED deregistering

\* get_byte_map_value and get_byte_map_values_by_key, and so for removals
Calls == {{s} : s \in Slot} \cup {Box(s[1]) : s \in Slot}

AsServer(c, d) == role = "server" /\ c # d

AsClient(c, p) == role = "client" /\ c # p

MemNext ==
    /\ \/ purge
       \/ \E c \in Own : save_cnac(c) \/ delete_cnac_by_cid(c)
       \/ \E c, d \in Cid :
             \/ AsServer(c, d) /\ (Repeats \/ Unlisted(c, d)) /\ register_p2p_as_server(c, d)
             \/ AsServer(c, d) /\ deregister_p2p_as_server(c, d)
             \/ UnlistOther(c, d)
             \/ AsClient(c, d) /\ (Repeats \/ ~hyperlan_peer_exists(c, d)) /\ register_p2p_as_client(c, d)
             \/ AsClient(c, d) /\ deregister_p2p_as_client(c, d)
       \/ \E c \in Own, listed \in Lists :
             role = "client" /\ synchronize_hyperlan_peer_list_as_client(c, listed \ {c})
       \/ \E c \in Keeper[role], s \in Slot, v \in Value : store_byte_map_value(c, s, v)
       \/ \E c \in Keeper[role], slots \in Calls : get_byte_map_values(c, slots) \/ remove_byte_map_values(c, slots)
    /\ UNCHANGED role
-----------------------------------------------------------------------------
Pairs == {pair \in Cid \X Cid : hyperlan_peer_exists(pair[1], pair[2])}

Bytes == [k \in {k \in Cid \X Slot : k[2] \in DOMAIN BytesOf(k[1])} |-> BytesOf(k[1])[k[2]]]

Halves == {<<"half", pair[1], pair[2]>> : pair \in deregistering}

Store == INSTANCE AccountStore WITH
    accounts <- DOMAIN clients,
    peers <- Pairs,
    bytes <- Bytes,
    busy <- Halves

\* The queries agree with one another, and the server lists two accounts at both
\* or at neither, unless it is just deregistering them.
QueriesAgree ==
    /\ \A c \in Cid :
          LET listed == {p \in Cid : hyperlan_peer_exists(c, p)} IN
          /\ get_hyperlan_peer_list(c) = listed
          /\ \A wanted \in SUBSET Cid :
                /\ hyperlan_peers_are_mutuals(c, wanted) = wanted \cap listed
                /\ get_hyperlan_peers(c, wanted) = wanted \cap listed
    /\ get_registered_impersonal_cids = {c \in Cid : role = "server" /\ cid_is_registered(c)}
    /\ role = "server" =>
          \A c, d \in Cid : hyperlan_peer_exists(c, d) =>
              hyperlan_peer_exists(d, c) \/ deregistering \cap {<<c, d>>, <<d, c>>} # {}
=============================================================================
