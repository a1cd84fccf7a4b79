------------------------------ MODULE Toolset ------------------------------
(***************************************************************************)
(* The window of ratchets one endpoint keeps for one session               *)
(* (citadel_crypt/src/toolset.rs).                                         *)
(*                                                                         *)
(* A ratchet is reduced to its version and to the key exchange it came out *)
(* of: two endpoints hold the same symmetric keys exactly when they        *)
(* finished the same exchange.  The VecDeque is a sequence whose first     *)
(* element is the front, the newest ratchet.  Versions are u32 in the code *)
(* and wrap; here they wrap at MaxVersion.  The owner's cid is constant    *)
(* for a toolset and always equals the ratchet's, so it is left out.       *)
(***************************************************************************)
EXTENDS Integers, Sequences, Option

CONSTANTS
    MAX_HYPER_RATCHETS_IN_MEMORY, \* 6 in debug builds, 128 in release builds
    MaxVersion                    \* u32::MAX

ASSUME ToolsetAssumption ==
    /\ MAX_HYPER_RATCHETS_IN_MEMORY \in Nat \ {0}
    /\ MaxVersion \in Nat
    /\ MAX_HYPER_RATCHETS_IN_MEMORY < MaxVersion

Version == 0 .. MaxVersion

\* A mutant: the version does not wrap.
add_1_unwrapped(v) == v + 1

wrapping_add_1(v) == IF v = MaxVersion THEN 0 ELSE v + 1

wrapping_sub(a, b) == IF a >= b THEN a - b ELSE a - b + MaxVersion + 1

Ratchet(Kex) == [version : Version, kex : Kex]

ToolsetType(Kex) ==
    [most_recent : Version, oldest : Version, map : Seq(Ratchet(Kex))]

new_toolset(hr) == [most_recent |-> 0, oldest |-> 0, map |-> <<hr>>]

(***************************************************************************)
(* UpdateStatus: old_version is None for Committed and the version to drop *)
(* for CommittedNeedsSynchronization.                                      *)
(***************************************************************************)
append_hyper_ratchet(ts, hr) ==
    LET map == <<hr>> \o ts.map
    IN  [map |-> map,
         old_version |-> IF Len(map) > MAX_HYPER_RATCHETS_IN_MEMORY
                         THEN ts.oldest ELSE None]

(***************************************************************************)
(* ok is FALSE where the code returns None: the new ratchet does not come  *)
(* right after the most recent one.                                        *)
(***************************************************************************)
update_from(ts, hr) ==
    LET appended == append_hyper_ratchet(ts, hr)
    IN  IF ts.most_recent # wrapping_sub(hr.version, 1)
        THEN [ok |-> FALSE, toolset |-> ts, old_version |-> None]
        ELSE [ok |-> TRUE,
              toolset |-> [ts EXCEPT !.map = appended.map,
                                     !.most_recent = hr.version],
              old_version |-> appended.old_version]

\* A mutant: oldest_hyper_ratchet_version is not advanced.
deregister_keeping_oldest(ts, version) ==
    IF Len(ts.map) <= MAX_HYPER_RATCHETS_IN_MEMORY \/ ts.oldest # version
    THEN [ok |-> FALSE, toolset |-> ts]
    ELSE [ok |-> TRUE, toolset |-> [ts EXCEPT !.map = SubSeq(@, 1, Len(@) - 1)]]

deregister_oldest_hyper_ratchet(ts, version) ==
    IF \/ Len(ts.map) <= MAX_HYPER_RATCHETS_IN_MEMORY
       \/ ts.oldest # version
    THEN [ok |-> FALSE, toolset |-> ts]
    ELSE [ok |-> TRUE,
          toolset |-> [ts EXCEPT !.map = SubSeq(@, 1, Len(@) - 1),
                                 !.oldest = wrapping_add_1(@)]]

get_adjusted_index(ts, version) == wrapping_sub(ts.most_recent, version)

get_hyper_ratchet(ts, version) ==
    LET idx == get_adjusted_index(ts, version)
    IN  IF idx < Len(ts.map) THEN ts.map[idx + 1] ELSE None

(***************************************************************************)
(* What the index arithmetic relies on: the deque is a run of successive   *)
(* versions, newest first and ending with oldest, and the ratchet of a     *)
(* version is found at its adjusted index.                                 *)
(***************************************************************************)
Window(ts) ==
    /\ Len(ts.map) > 0
    /\ ts.map[Len(ts.map)].version = ts.oldest
    /\ \A i \in 1 .. Len(ts.map) - 1 :
            ts.map[i].version = wrapping_add_1(ts.map[i + 1].version)
    /\ \A i \in 1 .. Len(ts.map) :
            i <= MaxVersion + 1 =>
                ts.map[i].version = wrapping_sub(ts.most_recent, i - 1)

Holds(ts, hr) == \E i \in 1 .. Len(ts.map) : ts.map[i] = hr
=============================================================================
