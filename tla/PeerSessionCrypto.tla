------------------------- MODULE PeerSessionCrypto -------------------------
(***************************************************************************)
(* The crypto container of one end of a session: a toolset, the update     *)
(* lock, and the version this end may encrypt with                         *)
(* (citadel_crypt/src/endpoint_crypto_container.rs), and the two halves of *)
(* a key exchange that drive it                                            *)
(* (proto/packet_processor/primary_group_packet.rs, from line 639).        *)
(*                                                                         *)
(* "Alice" is the end that started an exchange, "Bob" the one that answers *)
(* it.  lock_set_by_alice, an Option<bool>, is "unset", "alice" or "bob".  *)
(* A constructor is the exchange it belongs to.  The key material itself,  *)
(* and the failures of the primitives that compute it, are left out.       *)
(***************************************************************************)
EXTENDS Toolset

Container(Kex, GroupId) ==
    [toolset : ToolsetType(Kex),
     update_in_progress : BOOLEAN,
     local_is_initiator : BOOLEAN,
     lock_set_by_alice : {"unset", "alice", "bob"},
     latest_usable_version : Version,
     rolling_group_id : GroupId]

(***************************************************************************)
(* KemTransferStatus.  Bob's answer to an exchange: Empty when none was    *)
(* offered, Omitted when Bob turned it down, Some(transfer, status) when   *)
(* Bob committed it; old_version is then the version to drop, or None.     *)
(* StatusNoTransfer stays local to Alice and is never sent.                *)
(***************************************************************************)
KemTransferStatus(Kex) ==
    [kind : {"Empty", "Omitted"}, kex : {None}, old_version : {None}]
    \cup [kind : {"Some"}, kex : Kex, old_version : Version \cup {None}]

EmptyTransfer == [kind |-> "Empty", kex |-> None, old_version |-> None]

Omitted == [kind |-> "Omitted", kex |-> None, old_version |-> None]

new_container(hr, initiator) ==
    [toolset |-> new_toolset(hr),
     update_in_progress |-> FALSE,
     local_is_initiator |-> initiator,
     lock_set_by_alice |-> "unset",
     latest_usable_version |-> 0,
     rolling_group_id |-> 0]

\* get_hyper_ratchet(None)
latest_usable(c) == get_hyper_ratchet(c.toolset, c.latest_usable_version)

commit_next_hyper_ratchet_version(c, kex) ==
    update_from(c.toolset,
                [version |-> wrapping_add_1(c.toolset.most_recent), kex |-> kex])

\* Mutants: the initiator no longer takes preference; Bob forgets the lock;
\* Bob uses the new ratchet before Alice has it.
update_without_preference(c, kex, local_is_alice) ==
    LET commit == commit_next_hyper_ratchet_version(c, kex)
    IN  [crypt |-> IF local_is_alice
                   THEN [c EXCEPT !.toolset = commit.toolset]
                   ELSE [c EXCEPT !.toolset = commit.toolset,
                                  !.update_in_progress = TRUE,
                                  !.lock_set_by_alice = "bob"],
         status |-> [kind |-> "Some", kex |-> kex, old_version |-> commit.old_version]]
update_without_bobs_lock(c, kex, local_is_alice) ==
    LET commit == commit_next_hyper_ratchet_version(c, kex)
    IN  IF c.update_in_progress /\ ~local_is_alice /\ c.local_is_initiator
        THEN [crypt |-> c, status |-> Omitted]
        ELSE [crypt |-> [c EXCEPT !.toolset = commit.toolset],
              status |-> [kind |-> "Some", kex |-> kex,
                          old_version |-> commit.old_version]]

(***************************************************************************)
(* Two exchanges that cross are decided here: an initiator that is in the  *)
(* middle of an update turns Alice's down, a non-initiator gives up its    *)
(* own.  Committing as Bob takes the lock over, whoever held it.           *)
(***************************************************************************)
update_sync_safe(c, kex, local_is_alice) ==
    LET commit == commit_next_hyper_ratchet_version(c, kex)
    IN  IF c.update_in_progress /\ ~local_is_alice /\ c.local_is_initiator
        THEN [crypt |-> c, status |-> Omitted]
        ELSE [crypt |-> IF local_is_alice
                        THEN [c EXCEPT !.toolset = commit.toolset]
                        ELSE [c EXCEPT !.toolset = commit.toolset,
                                       !.update_in_progress = TRUE,
                                       !.lock_set_by_alice = "bob"],
              status |-> [kind |-> "Some", kex |-> kex,
                          old_version |-> commit.old_version]]

(***************************************************************************)
(* fetch_nand(true) negates the flag: unlocking what is not locked locks   *)
(* it.                                                                     *)
(***************************************************************************)
maybe_unlock(c, requires_locked_by_alice) ==
    IF requires_locked_by_alice /\ c.lock_set_by_alice # "alice"
    THEN c
    ELSE [c EXCEPT !.update_in_progress = ~@, !.lock_set_by_alice = "unset"]

post_alice_stage1_or_post_stage1_bob(c) ==
    [c EXCEPT !.latest_usable_version = wrapping_add_1(@)]

deregister(c, version) ==
    LET d == deregister_oldest_hyper_ratchet(c.toolset, version)
    IN  [ok |-> d.ok, crypt |-> [c EXCEPT !.toolset = d.toolset]]

\* A mutant: every call behaves as if forced.
constructor_ignoring_lock(c, force, fresh) ==
    [crypt |-> [c EXCEPT !.update_in_progress = TRUE, !.lock_set_by_alice = "alice"],
     constructor |-> IF latest_usable(c) = None THEN None ELSE fresh]

(***************************************************************************)
(* fresh is the exchange the new constructor starts.  The lock is taken    *)
(* before the ratchet is looked up, so it is held even when there is none. *)
(***************************************************************************)
get_next_constructor(c, force, fresh) ==
    IF ~force /\ c.update_in_progress
    THEN [crypt |-> c, constructor |-> None]
    ELSE [crypt |-> [c EXCEPT !.update_in_progress = TRUE,
                              !.lock_set_by_alice = "alice"],
          constructor |-> IF latest_usable(c) = None THEN None ELSE fresh]

attempt_kem_as_bob(c, transfer) ==
    IF transfer = None
    THEN [crypt |-> c, status |-> EmptyTransfer]
    ELSE update_sync_safe(c, transfer, FALSE)

(***************************************************************************)
(* Alice's commit of an exchange Bob committed.  ok is FALSE where the     *)
(* code returns Err: c keeps what was changed before the failure.          *)
(***************************************************************************)
commit_as_alice(c, status) ==
    LET committed == update_sync_safe(c, status.kex, TRUE).crypt
        dropped   == deregister(committed, status.old_version)
        posted    == post_alice_stage1_or_post_stage1_bob(dropped.crypt)
        unlocked  == maybe_unlock(post_alice_stage1_or_post_stage1_bob(committed), TRUE)
    IN  CASE status.old_version # None /\ ~dropped.ok ->
                [ok |-> FALSE, crypt |-> dropped.crypt, ratchet |-> None]
          [] status.old_version # None /\ dropped.ok ->
                [ok |-> latest_usable(posted) # None,
                 crypt |-> posted, ratchet |-> latest_usable(posted)]
          [] OTHER ->
                [ok |-> latest_usable(unlocked) # None,
                 crypt |-> unlocked, ratchet |-> latest_usable(unlocked)]

(***************************************************************************)
(* ratchet is the latest usable one, None for Ok(None).  Bob's ciphertext  *)
(* only fits the constructor of the exchange it answers.                   *)
(***************************************************************************)
attempt_kem_as_alice_finish(c, status, constructor) ==
    LET unlocked == maybe_unlock(c, TRUE)
    IN  CASE status.kind = "Empty" ->
                [ok |-> TRUE, crypt |-> c, ratchet |-> None]
          [] status.kind = "Omitted" ->
                [ok |-> latest_usable(unlocked) # None,
                 crypt |-> unlocked, ratchet |-> latest_usable(unlocked)]
          [] status.kind = "Some" /\ constructor = None ->
                [ok |-> TRUE, crypt |-> c, ratchet |-> None]
          [] status.kind = "Some" /\ constructor # None /\ constructor # status.kex ->
                [ok |-> FALSE, crypt |-> c, ratchet |-> None]
          [] OTHER -> commit_as_alice(c, status)
=============================================================================
