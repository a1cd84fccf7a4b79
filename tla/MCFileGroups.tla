---------------------------- MODULE MCFileGroups ----------------------------
(***************************************************************************)
(* Two files, one after the other, on one connection: a file of one group  *)
(* and one of three.  The groups of the second are numbered 1, 2 and 3.    *)
(***************************************************************************)
EXTENDS FileTransfer

CONSTANTS Alice, Bob

TwoFiles == {[n \in {Alice, Bob} |-> IF n = Alice THEN <<1, 3>> ELSE <<>>]}

NoMessages == [n \in {Alice, Bob} |-> 0]
=============================================================================
