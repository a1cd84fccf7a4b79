------------------------------ MODULE MCStores ------------------------------
(***************************************************************************)
(* The four backends on small instances.  "scene" says which of them a     *)
(* behaviour is about; the variables of the others stay fixed.             *)
(***************************************************************************)
EXTENDS Naturals, TLC

CONSTANTS
    User1, User2, User3,   \* accounts, the third of which no client has
    Old, New               \* values of a byte map

VARIABLES
    scene, role, answer,
    clients, deregistering,                     \* MemoryBackend
    disk, todo, serialised, detached, purging,  \* FilesystemBackend; purging also SqlBackend
    home, crossed,                              \* FilesystemBackend
    db, syncing, removing                       \* RedisBackend and SqlBackend

memory == <<clients, deregistering>>

files == <<disk, todo, serialised, detached, home, crossed>>

vars == <<scene, role, answer, memory, files, purging, db, syncing, removing>>

Users == {User1, User2, User3}

\* Two sub keys of one key
Slots == {<<"key", "sub1">>, <<"key", "sub2">>}

OneSlot == {<<"key", "sub1">>}

ByBoth == [r \in {"server", "client"} |-> {User1}]

ByClient == [ByBoth EXCEPT !["server"] = {}]

Memory == INSTANCE MemoryBackend WITH
    Cid <- Users, Slot <- Slots, Value <- {Old}, Local <- {User1, User2}, Keeper <- ByBoth,
    Lists <- {{}, {User2}}, Repeats <- FALSE

Files == INSTANCE FilesystemBackend WITH
    Cid <- {User1, User2}, Slot <- OneSlot, Value <- {Old}, Local <- {User1}, Keeper <- ByClient,
    Lists <- {{}, {User2}}, Repeats <- FALSE, Task <- {1, 2}

Redis == INSTANCE RedisBackend WITH
    Cid <- Users, Slot <- OneSlot, Value <- {Old, New}, Local <- {User1, User2}, Keeper <- ByBoth,
    Lists <- {{}, {User2}}, Task <- {1, 2}, Reuse <- FALSE

Sql == INSTANCE SqlBackend WITH
    Cid <- Users, Slot <- Slots, Value <- {Old, New}, Local <- {User1, User2}, Keeper <- ByBoth,
    Lists <- {{User2}, {User2, User3}}, Repeats <- FALSE, MayOverwrite <- FALSE, MayOverlap <- FALSE

NoMemory == clients = 0 /\ deregistering = 0

NoFiles ==
    /\ disk = 0 /\ todo = 0 /\ serialised = 0 /\ detached = 0
    /\ home = 0 /\ crossed = 0

NoDatabase == db = 0 /\ syncing = 0 /\ removing = 0

Init ==
    \/ scene = "memory" /\ Memory!MemInit /\ NoFiles /\ purging = 0 /\ NoDatabase
    \/ scene = "files" /\ Files!FsInit /\ NoDatabase
    \/ scene = "redis" /\ Redis!RedisInit /\ NoMemory /\ NoFiles /\ purging = 0 /\ removing = 0
    \/ scene = "sql" /\ Sql!SqlInit /\ NoMemory /\ NoFiles /\ syncing = 0

Next ==
    /\ \/ scene = "memory" /\ Memory!MemNext
          /\ UNCHANGED <<files, purging, db, syncing, removing>>
       \/ scene = "files" /\ Files!FsNext /\ UNCHANGED <<db, syncing, removing>>
       \/ scene = "redis" /\ Redis!RedisNext
          /\ UNCHANGED <<memory, files, purging, removing>>
       \/ scene = "sql" /\ Sql!SqlNext
          /\ UNCHANGED <<memory, files, syncing>>
    /\ UNCHANGED scene

Spec == Init /\ [][Next]_vars
-----------------------------------------------------------------------------
(***************************************************************************)
(* Every backend is an AccountStore for those who ask with                 *)
(* cid_is_registered, hyperlan_peer_exists and get_byte_map_value: a call  *)
(* of the trait BackendConnection changes what it says and nothing else,   *)
(* at once or in the few steps that AccountStore announces, and each value *)
(* of a byte map is handed out by the call that removes it.  The restart   *)
(* of the filesystem backend is what RestartKeeps is about.                *)
(***************************************************************************)
StoresImplement ==
    /\ scene = "memory" => Memory!Store!Init
    /\ scene = "files" => Files!FileStore!Init
    /\ scene = "redis" => Redis!Store!Init
    /\ scene = "sql" => Sql!Store!Init
    /\ [][ /\ scene = "memory" => [Memory!Store!Next]_(Memory!Store!vars)
           /\ scene = "files" => Files!Restart \/ [Files!FileStore!Next]_(Files!FileStore!vars)
           /\ scene = "redis" => [Redis!Store!Next]_(Redis!Store!vars)
           /\ scene = "sql" => [Sql!Store!Next]_(Sql!Store!vars) ]_vars

\* Whatever the calls before, the queries of a backend agree with each other, and a
\* server lists two accounts at both or at neither (register_p2p_as_server,
\* deregister_p2p_as_server, delete_cnac_by_cid).
QueriesAgree ==
    /\ scene = "memory" => Memory!QueriesAgree
    /\ scene = "redis" => Redis!DatabaseAgrees
    /\ scene = "sql" => Sql!RowsAgree

\* Wherever a crash falls, a restart of the filesystem backend finds what finished
\* calls have done to an account, unless they overlapped with another call on it
\* (save_cnac, load_cnac_files).
RestartKeeps == scene = "files" => Files!RestartKeeps
=============================================================================
