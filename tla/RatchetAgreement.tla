-------------------------- MODULE RatchetAgreement --------------------------
(***************************************************************************)
(* What a session promises about its keys, without packets, locks or       *)
(* version numbers.                                                        *)
(*                                                                         *)
(* held[p] lists the exchanges end p holds keys of, newest first, and      *)
(* usable[p] is the one it encrypts with.  The ends move to a new exchange *)
(* in three steps: one end holds it but does not use it; the other holds   *)
(* and uses it; then the first uses it too.  The next exchange only begins *)
(* after that.  Keys are forgotten from the back, first by the end that    *)
(* adopts, then by the other.                                              *)
(***************************************************************************)
EXTENDS Integers, Sequences

CONSTANTS Ends, Exchanges, Genesis

VARIABLES held, usable

keys == <<held, usable>>

Newest(p) == Head(held[p])

Settled == \A p, q \in Ends : usable[p] = Newest(q)

\* keep is what remains of a list: all of it, or all but its oldest element.
Remainders(list) == {list} \cup {SubSeq(list, 1, Len(list) - 1)}

InitKeys ==
    /\ held = [p \in Ends |-> <<Genesis>>]
    /\ usable = [p \in Ends |-> Genesis]

Offer(p) ==
    /\ Settled
    /\ \E e \in Exchanges :
        /\ \A i \in DOMAIN held[p] : held[p][i] # e
        /\ held' = [held EXCEPT ![p] = <<e>> \o @]
    /\ UNCHANGED usable

Adopt(p, q) ==
    /\ Len(held[q]) > 1
    /\ held[q][2] = Newest(p)
    /\ usable[q] = Newest(p)
    /\ \E keep \in Remainders(held[p]) :
        held' = [held EXCEPT ![p] = <<Newest(q)>> \o keep]
    /\ usable' = [usable EXCEPT ![p] = Newest(q)]

Confirm(p, q) ==
    /\ usable[p] # Newest(p)
    /\ Newest(q) = Newest(p)
    /\ usable' = [usable EXCEPT ![p] = Newest(p)]
    /\ held' = [held EXCEPT ![p] = held[q]]

NextKeys ==
    \E p, q \in Ends : p # q /\ (Offer(p) \/ Adopt(p, q) \/ Confirm(p, q))

Spec == InitKeys /\ [][NextKeys]_keys
=============================================================================
