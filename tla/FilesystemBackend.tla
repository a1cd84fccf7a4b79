------------------------- MODULE FilesystemBackend -------------------------
(***************************************************************************)
(* The backend that keeps the accounts in memory and a file of each on     *)
(* disk.  A call works on the memory and then looks the account up,        *)
(* serialises it, writes the file and puts the account into the memory;    *)
(* nothing keeps two calls apart, and a crash may come between any two     *)
(* steps.                                                                  *)
(***************************************************************************)
EXTENDS MemoryBackend, FiniteSetsExt

CONSTANT Task   \* calls that may be under way at once

VARIABLES disk,         \* the files the loader can read
          todo,         \* what each call under way has left to do
          serialised,   \* the account as a call is about to write it
          detached,     \* accounts deleted under a call that still holds them
          purging,      \* a purge: "none", "running" or "failed", and the files it has left
          home,         \* does the home directory exist?
          crossed       \* accounts on which calls overlapped, and that none has saved alone since

calls == <<todo, serialised>>

rest == <<role, purging, home>>

NoPurge == [status |-> "none", files |-> {}]

FsInit ==
    /\ MemInit /\ disk = <<>> /\ detached = <<>> /\ crossed = {}
    /\ todo = [t \in Task |-> <<>>] /\ serialised = [t \in Task |-> <<>>]
    /\ purging = NoPurge /\ home = TRUE

\* A step is what it does and to whom.
Cids(steps) == UNION {{steps[i][k] : k \in 2..Len(steps[i])} : i \in DOMAIN steps}

Under(c) == {t \in Task : c \in Cids(todo[t])}

\* save_cnac with an account at hand
Writes(c) == <<<<"open", c>>, <<"fill", c>>, <<"insert", c>>>>

\* save_cnac_by_cid
Saves(c) == <<<<"lookup", c>>>> \o Writes(c)

SavesBoth(c, d) == <<<<"lookup", c, d>>>> \o Writes(c) \o Writes(d)
-----------------------------------------------------------------------------
\* The calls.  Two calls on an account cross.
Call(t, steps) ==
    /\ t = Min({u \in Task : todo[u] = <<>>})
    /\ todo' = [todo EXCEPT ![t] = steps]
    /\ crossed' = crossed \cup {c \in Cids(steps) : Under(c) # {}}
    /\ UNCHANGED <<serialised, disk, rest>>

\* An account that others hold outlives its deletion.
Detach(gone) ==
    detached' = [c \in {c \in gone : Under(c) # {}} |-> clients[c]] @@ detached

Kept == UNCHANGED detached

\* A new account has a cid no call is about.
fs_save_cnac(t, c) ==
    /\ cid_is_registered(c) \/ Under(c) = {}
    /\ Call(t, Writes(c))
    /\ UNCHANGED clients /\ Quiet /\ Kept

fs_delete_cnac_by_cid(t, c) ==
    /\ delete_cnac_by_cid(c)
    /\ Call(t, <<<<"remove", c>>>>)
    /\ Detach({c})

fs_register_p2p_as_server(t, c, d) == register_p2p_as_server(c, d) /\ Call(t, SavesBoth(c, d)) /\ Kept

fs_deregister_p2p_as_server(t, c, d) ==
    /\ deregister_p2p_as_server(c, d)
    /\ Call(t, <<<<"unlist", c, d>>>> \o SavesBoth(c, d))
    /\ Kept

\* A mutant: the file is not written.
RegisterUnsaved(t, c, p) == register_p2p_as_client(c, p) /\ Call(t, <<>>) /\ Kept

fs_register_p2p_as_client(t, c, p) == register_p2p_as_client(c, p) /\ Call(t, Saves(c)) /\ Kept

fs_deregister_p2p_as_client(t, c, p) == deregister_p2p_as_client(c, p) /\ Call(t, Saves(c)) /\ Kept

fs_synchronize_hyperlan_peer_list_as_client(t, c, listed) ==
    /\ synchronize_hyperlan_peer_list_as_client(c, listed)
    /\ Call(t, Writes(c))
    /\ Kept

\* A call on a byte map fails without the account, and one that reads a box writes
\* the file as well.
fs_store_byte_map_value(t, c, s, v) ==
    cid_is_registered(c) /\ store_byte_map_value(c, s, v) /\ Call(t, Saves(c)) /\ Kept

fs_get_byte_map_value(c, s) ==
    /\ get_byte_map_values(c, {s})
    /\ UNCHANGED <<calls, disk, detached, crossed, rest>>

fs_get_byte_map_values_by_key(t, c, slots) ==
    cid_is_registered(c) /\ get_byte_map_values(c, slots) /\ Call(t, Saves(c)) /\ Kept

fs_remove_byte_map_values(t, c, slots) ==
    cid_is_registered(c) /\ remove_byte_map_values(c, slots) /\ Call(t, Saves(c)) /\ Kept

fs_purge ==
    /\ purging.status # "running"
    /\ purge
    /\ Detach(DOMAIN clients)
    /\ purging' = [status |-> "running", files |-> DOMAIN clients]
    /\ UNCHANGED <<role, calls, disk, home, crossed>>
-----------------------------------------------------------------------------
\* The steps of a call.
This(t) == Head(todo[t])[2]

Ahead(t, what) ==
    /\ todo[t] # <<>> /\ Head(todo[t])[1] = what
    /\ crossed' = IF what = "open" /\ home /\ Under(This(t)) = {t} THEN crossed \ {This(t)} ELSE crossed
    /\ UNCHANGED rest

Done(t) == todo' = [todo EXCEPT ![t] = Tail(@)]

\* An account is back, or nobody holds it any more.
Release ==
    detached' = Restrict(detached, {c \in DOMAIN detached \ DOMAIN clients' : \E t \in Task : c \in Cids(todo'[t])})

Fails(t) ==
    /\ todo' = [todo EXCEPT ![t] = <<>>]
    /\ UNCHANGED <<serialised, clients, disk>> /\ Release /\ Quiet

\* The second half of a deregistration.  An error leaves both accounts unsaved.
Unlist(t) ==
    /\ Ahead(t, "unlist")
    /\ LET c == This(t) d == Head(todo[t])[3] IN
       /\ UnlistOther(c, d)
       /\ IF hyperlan_peer_exists(d, c) THEN Done(t) ELSE todo' = [todo EXCEPT ![t] = <<>>]
    /\ UNCHANGED <<serialised, disk>> /\ Release

\* An account that is gone ends the call.
Lookup(t) ==
    /\ Ahead(t, "lookup")
    /\ IF Cids(<<Head(todo[t])>>) \subseteq DOMAIN clients
       THEN Done(t) /\ UNCHANGED <<serialised, clients, disk>> /\ Release /\ Quiet
       ELSE Fails(t)

\* The account a call holds: the one in use, the one deleted under it, or a new one
AtHand(c) ==
    IF cid_is_registered(c) THEN clients[c] ELSE IF c \in DOMAIN detached THEN detached[c] ELSE NewAccount

\* The account is serialised, and the file opened, which empties it.  Others cannot
\* tell one from the other: what they write in between is lost, or written over.
\* Without the directory the call ends with an error.
Open(t) ==
    /\ Ahead(t, "open") /\ home
    /\ serialised' = [serialised EXCEPT ![t] = AtHand(This(t))]
    /\ disk' = Without(disk, {This(t)})
    /\ Done(t)
    /\ UNCHANGED clients /\ Release /\ Quiet

OpenFails(t) == Ahead(t, "open") /\ ~home /\ Fails(t)

\* On top of what another call has written meanwhile, what is written may be
\* unreadable.
Fill(t) ==
    /\ Ahead(t, "fill")
    /\ \/ disk' = (This(t) :> serialised[t]) @@ disk
       \/ This(t) \in DOMAIN disk /\ disk' = Without(disk, {This(t)})
    /\ serialised' = [serialised EXCEPT ![t] = <<>>]
    /\ Done(t)
    /\ UNCHANGED clients /\ Release /\ Quiet

Insert(t) ==
    /\ Ahead(t, "insert")
    /\ Locks
    /\ clients' = IF cid_is_registered(This(t)) THEN clients ELSE (This(t) :> AtHand(This(t))) @@ clients
    /\ Done(t)
    /\ UNCHANGED <<serialised, disk>> /\ Release

RemoveFile(t) ==
    /\ Ahead(t, "remove")
    /\ disk' = Without(disk, {This(t)})
    /\ Done(t)
    /\ UNCHANGED <<serialised, clients>> /\ Release /\ Quiet

\* A file that is gone already ends the purge.
PurgeFile(c) ==
    /\ c \in purging.files
    /\ IF c \in DOMAIN disk
       THEN disk' = Without(disk, {c}) /\ purging' = [purging EXCEPT !.files = @ \ {c}]
       ELSE UNCHANGED disk /\ purging' = [status |-> "failed", files |-> {}]
    /\ UNCHANGED <<role, clients, calls, detached, crossed, home>> /\ Quiet

PurgeHome ==
    /\ purging = [status |-> "running", files |-> {}]
    /\ disk' = <<>> /\ home' = FALSE /\ purging' = NoPurge
    /\ UNCHANGED <<role, clients, calls, detached, crossed>> /\ Quiet

\* The process stops, wherever it is, and connect loads what can be read.
Restart ==
    /\ clients' = disk
    /\ answer' = NoAnswer /\ deregistering' = {} /\ detached' = <<>> /\ crossed' = {}
    /\ todo' = [t \in Task |-> <<>>] /\ serialised' = [t \in Task |-> <<>>]
    /\ purging' = NoPurge /\ home' = TRUE
    /\ UNCHANGED <<role, disk>>

Steps(t) ==
    Unlist(t) \/ Lookup(t) \/ Open(t) \/ OpenFails(t) \/ Fill(t) \/ Insert(t) \/ RemoveFile(t)

Starts(t) ==
    \/ \E c \in Own : fs_save_cnac(t, c) \/ fs_delete_cnac_by_cid(t, c)
    \/ \E c, d \in Cid :
          \/ AsServer(c, d) /\ (Repeats \/ Unlisted(c, d)) /\ fs_register_p2p_as_server(t, c, d)
          \/ AsServer(c, d) /\ fs_deregister_p2p_as_server(t, c, d)
          \/ AsClient(c, d) /\ (Repeats \/ ~hyperlan_peer_exists(c, d)) /\ fs_register_p2p_as_client(t, c, d)
          \/ AsClient(c, d) /\ fs_deregister_p2p_as_client(t, c, d)
    \/ \E c \in Own, listed \in Lists :
          role = "client" /\ fs_synchronize_hyperlan_peer_list_as_client(t, c, listed \ {c})
    \/ \E c \in Keeper[role], s \in Slot, v \in Value : fs_store_byte_map_value(t, c, s, v)
    \/ \E c \in Keeper[role], s \in Slot : fs_get_byte_map_values_by_key(t, c, Box(s[1]))
    \/ \E c \in Keeper[role], slots \in Calls : fs_remove_byte_map_values(t, c, slots)

FsNext ==
    \/ \E t \in Task : Steps(t)
    \/ \E t \in Task : todo[t] = <<>> /\ Starts(t)
    \/ fs_purge \/ PurgeHome \/ Restart \/ \E c \in Cid : PurgeFile(c)
    \/ \E c \in Keeper[role], s \in Slot : fs_get_byte_map_value(c, s)
-----------------------------------------------------------------------------
FileStore == INSTANCE AccountStore WITH
    accounts <- DOMAIN clients,
    peers <- Pairs,
    bytes <- Bytes,
    busy <- Halves \cup ({"gone"} \X DOMAIN detached)

(***************************************************************************)
(* A restart loses nothing a finished call has done, unless another call   *)
(* on the account was under way: the same accounts, their byte maps, and   *)
(* at least the peers they list.  A later call on the account that saves   *)
(* it makes up for calls that crossed.  (A peer that was deleted comes     *)
(* back: delete_cnac_by_cid does not save the accounts it changes.)        *)
(***************************************************************************)
RestartKeeps ==
    home /\ purging.status = "none" =>
        \A c \in Cid \ crossed : Under(c) = {} =>
            /\ c \in DOMAIN clients <=> c \in DOMAIN disk
            /\ c \in DOMAIN clients =>
                  /\ clients[c].byte_map = disk[c].byte_map
                  /\ ToSet(clients[c].mutuals) \subseteq ToSet(disk[c].mutuals)
=============================================================================
