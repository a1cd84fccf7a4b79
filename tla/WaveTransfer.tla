---------------------------- MODULE WaveTransfer ----------------------------
(***************************************************************************)
(* What the splitting of a group of bytes promises: a group is a set of    *)
(* waves, the waves are completed one by one in any order, the group is    *)
(* rendered with the last of them, and the sender learns of it afterwards. *)
(* GroupSplitter implements this; FileTransfer is built on it.             *)
(***************************************************************************)
EXTENDS Naturals

VARIABLES
    waves,     \* the waves of the group
    done,      \* the waves completed
    rendered,  \* the receiver has the bytes of the group
    confirmed  \* the sender knows

vars == <<waves, done, rendered, confirmed>>

Init ==
    /\ done = {}
    /\ rendered = FALSE
    /\ confirmed = FALSE

CompleteWave(w) ==
    /\ w \notin done
    /\ done' = done \cup {w}
    /\ rendered' = (done' = waves)
    /\ UNCHANGED <<waves, confirmed>>

Confirm ==
    /\ rendered
    /\ ~confirmed
    /\ confirmed' = TRUE
    /\ UNCHANGED <<waves, done, rendered>>

Next == Confirm \/ \E w \in waves : CompleteWave(w)

Spec == Init /\ [][Next]_vars

=============================================================================
