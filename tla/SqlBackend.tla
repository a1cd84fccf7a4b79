----------------------------- MODULE SqlBackend -----------------------------
(***************************************************************************)
(* The backend that keeps the accounts in a SQL database.  A statement or  *)
(* a transaction is one step.  The rows of peers and of bytemap have no    *)
(* key: a row may be there twice.  The foreign keys refuse rows of unknown *)
(* accounts, and the deletion of an account cascades to its rows, and by   *)
(* the trigger post_cid_delete to the rows in which it is the peer.        *)
(***************************************************************************)
EXTENDS Sequences, FiniteSetsExt

CONSTANTS Cid, Slot, Value, Local, Keeper, Lists,
          Repeats,        \* may a pair that is registered be registered again?
          MayOverwrite,   \* may a value be stored where there is one?
          MayOverlap      \* may other calls on an account run during a removal?

VARIABLES role, answer,
          db,         \* cnacs, peers and bytemap
          removing,   \* removals that have read their values
          purging     \* the tables a purge has still to empty

sqlVars == <<role, answer, db, removing, purging>>

Own == IF role = "server" THEN Cid ELSE Local

Rows == Cid \X Cid

NewDb == [cnacs |-> {}, peers |-> [r \in Rows |-> 0], bytemap |-> [k \in Cid \X Slot |-> <<>>]]

Answer(c, found) == [of |-> c, found |-> found]

SqlInit ==
    /\ role \in {"server", "client"}
    /\ answer = Answer("nobody", <<>>) /\ db = NewDb /\ removing = {} /\ purging = <<>>
-----------------------------------------------------------------------------
\* The queries.
cid_is_registered(c) == c \in db.cnacs

get_registered_impersonal_cids == IF role = "server" THEN db.cnacs ELSE {}

get_hyperlan_peer_list(c) == {p \in Cid : db.peers[<<c, p>>] > 0}

get_hyperlan_peer_by_cid(c, p) == db.peers[<<c, p>>] > 0

\* SELECT COUNT(*) = 1
hyperlan_peer_exists(c, p) == db.peers[<<c, p>>] = 1

\* The rows that join the wanted peers, at most as many as there are wanted peers;
\* which of them is up to the database.
Joined(c, wanted) ==
    {got \in SUBSET {p \in wanted : db.peers[<<c, p>>] > 0} :
        \/ got = {p \in wanted : db.peers[<<c, p>>] > 0}
        \/ FoldSet(LAMBDA p, n : n + db.peers[<<c, p>>], 0, got) >= Cardinality(wanted)}

hyperlan_peers_are_mutuals(c, wanted) == Joined(c, wanted)

get_hyperlan_peers(c, wanted) == Joined(c, wanted)

get_hyperlan_peer_list_as_server(c) == {p \in Cid : c \in db.cnacs /\ db.peers[<<c, p>>] > 0}

\* get_byte_map_value and get_byte_map_values_by_key: of several rows, any.
Reads(c, slots) ==
    LET found == {s \in slots : db.bytemap[<<c, s>>] # <<>>}
    IN  {f \in [found -> Value] : \A s \in found : f[s] \in Range(db.bytemap[<<c, s>>])}

Box(b) == {s \in Slot : s[1] = b}

Calls == {{s} : s \in Slot} \cup {Box(s[1]) : s \in Slot}
-----------------------------------------------------------------------------
\* The calls.
Step == UNCHANGED <<role, removing, purging>>

Quiet == Step /\ UNCHANGED answer

save_cnac(c) == Quiet /\ db' = [db EXCEPT !.cnacs = @ \cup {c}]

\* The foreign keys and the trigger.
Cascade(d, gone) ==
    [cnacs |-> d.cnacs \ gone,
     peers |-> [r \in Rows |-> IF r[1] \in gone \/ r[2] \in gone THEN 0 ELSE d.peers[r]],
     bytemap |-> [k \in Cid \X Slot |-> IF k[1] \in gone THEN <<>> ELSE d.bytemap[k]]]

delete_cnac_by_cid(c) == Quiet /\ c \in db.cnacs /\ db' = Cascade(db, {c})

\* Three statements.
purge == purging = <<>> /\ purging' = <<"peers", "bytemap", "cnacs">> /\ UNCHANGED <<role, answer, removing, db>>

EmptyTable ==
    /\ purging # <<>>
    /\ purging' = Tail(purging)
    /\ \/ Head(purging) = "peers" /\ db' = [db EXCEPT !.peers = NewDb.peers]
       \/ Head(purging) = "bytemap" /\ db' = [db EXCEPT !.bytemap = NewDb.bytemap]
       \/ Head(purging) = "cnacs" /\ db' = Cascade(db, db.cnacs)
    /\ UNCHANGED <<role, answer, removing>>

register_p2p_as_server(c, d) ==
    /\ Quiet
    /\ {c, d} \subseteq db.cnacs
    /\ db' = [db EXCEPT !.peers[<<c, d>>] = @ + 1, !.peers[<<d, c>>] = @ + 1]

deregister_p2p_as_server(c, d) ==
    /\ Quiet
    /\ db' = [db EXCEPT !.peers[<<c, d>>] = 0, !.peers[<<d, c>>] = 0]

register_p2p_as_client(c, p) ==
    /\ Quiet
    /\ c \in db.cnacs
    /\ db' = [db EXCEPT !.peers[<<c, p>>] = @ + 1]

deregister_p2p_as_client(c, p) == Quiet /\ db' = [db EXCEPT !.peers[<<c, p>>] = 0]

\* An empty list is not an instruction to empty the list.
synchronize_hyperlan_peer_list_as_client(c, listed) ==
    /\ Quiet
    /\ c \in db.cnacs /\ listed # {}
    /\ db' = [db EXCEPT !.peers = [r \in Rows |-> IF r[1] # c THEN @[r] ELSE IF r[2] \in listed THEN 1 ELSE 0]]

\* A row is inserted, whatever is there.
store_byte_map_value(c, s, v) ==
    /\ Step
    /\ c \in db.cnacs
    /\ db' = [db EXCEPT !.bytemap[<<c, s>>] = Append(@, v)]
    /\ \E found \in Reads(c, {s}) : answer' = Answer(c, found)

get_byte_map_values(c, slots) ==
    Step /\ UNCHANGED db /\ \E found \in Reads(c, slots) : answer' = Answer(c, found)

\* A removal selects the values, and then deletes by a statement of its own.
Selected(c, slots, found) ==
    /\ removing' = removing \cup {[cid |-> c, slots |-> slots, found |-> found]}
    /\ UNCHANGED <<role, answer, db, purging>>

\* Where there is no value nothing is deleted.
remove_byte_map_value(c, s) ==
    \E found \in Reads(c, {s}) :
       \/ DOMAIN found # {} /\ Selected(c, {s}, found)
       \/ DOMAIN found = {} /\ answer' = Answer(c, found) /\ Step /\ UNCHANGED db

remove_byte_map_values_by_key(c, slots) == \E found \in Reads(c, slots) : Selected(c, slots, found)

Unslot(c, slots) == [k \in DOMAIN db.bytemap |-> IF k[1] = c /\ k[2] \in slots THEN <<>> ELSE db.bytemap[k]]

\* A mutant: all slots of the account.
DeleteEverySlot(r) ==
    /\ db' = [db EXCEPT !.bytemap = Unslot(r.cid, Slot)]
    /\ answer' = Answer(r.cid, r.found)
    /\ removing' = removing \ {r}
    /\ UNCHANGED <<role, purging>>

DeleteRead(r) ==
    /\ db' = [db EXCEPT !.bytemap = Unslot(r.cid, r.slots)]
    /\ answer' = Answer(r.cid, r.found)
    /\ removing' = removing \ {r}
    /\ UNCHANGED <<role, purging>>

Free(c) == MayOverlap \/ \A r \in removing : r.cid # c

AllFree == \A c \in Cid : Free(c)

SqlNext ==
    \/ AllFree /\ purge
    \/ AllFree /\ EmptyTable
    \/ \E r \in removing : DeleteRead(r)
    \/ \E c \in Own : Free(c) /\ (save_cnac(c) \/ delete_cnac_by_cid(c))
    \/ \E c, d \in Cid :
          /\ role = "server" /\ c # d
          /\ \/ (Repeats \/ ~get_hyperlan_peer_by_cid(c, d)) /\ register_p2p_as_server(c, d)
             \/ deregister_p2p_as_server(c, d)
    \/ \E c, p \in Cid :
          /\ role = "client" /\ c # p
          /\ \/ (Repeats \/ ~get_hyperlan_peer_by_cid(c, p)) /\ register_p2p_as_client(c, p)
             \/ deregister_p2p_as_client(c, p)
    \/ \E c \in Own, listed \in Lists :
          role = "client" /\ synchronize_hyperlan_peer_list_as_client(c, listed \ {c})
    \/ \E c \in Keeper[role], s \in Slot, v \in Value :
          Free(c) /\ (MayOverwrite \/ db.bytemap[<<c, s>>] = <<>>) /\ store_byte_map_value(c, s, v)
    \/ \E c \in Keeper[role], slots \in Calls : Free(c) /\ get_byte_map_values(c, slots)
    \/ \E c \in Keeper[role], s \in Slot :
          Free(c) /\ (remove_byte_map_value(c, s) \/ remove_byte_map_values_by_key(c, Box(s[1])))

SqlSpec == SqlInit /\ [][SqlNext]_sqlVars
-----------------------------------------------------------------------------
Store == INSTANCE AccountStore WITH
    accounts <- db.cnacs,
    peers <- {r \in Rows : hyperlan_peer_exists(r[1], r[2])},
    bytes <- [k \in {k \in DOMAIN db.bytemap : db.bytemap[k] # <<>>} |-> Head(db.bytemap[k])],
    busy <- IF purging = <<>> THEN {} ELSE {<<"purge">>}

\* A server lists two accounts at both or at neither.
ListedAtBoth ==
    role = "server" => \A c, d \in Cid : hyperlan_peer_exists(c, d) => hyperlan_peer_exists(d, c)

\* Only accounts have rows (the foreign keys and the trigger).
RowsHaveAccounts ==
    /\ \A c, d \in Cid :
          db.peers[<<c, d>>] > 0 => c \in db.cnacs /\ (role = "server" => d \in db.cnacs)
    /\ \A c \in Cid, s \in Slot : db.bytemap[<<c, s>>] # <<>> => c \in db.cnacs

\* The queries agree with one another and with the accounts.
RowsAgree ==
    /\ \A c \in Cid :
          LET listed == {p \in Cid : hyperlan_peer_exists(c, p)} IN
          /\ get_hyperlan_peer_list(c) = listed
          /\ get_hyperlan_peer_list_as_server(c) = listed
          /\ \A wanted \in SUBSET Cid :
                /\ hyperlan_peers_are_mutuals(c, wanted) = {wanted \cap listed}
                /\ get_hyperlan_peers(c, wanted) = {wanted \cap listed}
    /\ RowsHaveAccounts
    /\ ListedAtBoth
=============================================================================
