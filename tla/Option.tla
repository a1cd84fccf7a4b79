------------------------------- MODULE Option -------------------------------
(***************************************************************************)
(* Option::None, the absence of a version, an id, a ratchet or a packet.   *)
(***************************************************************************)
EXTENDS Naturals

CONSTANT None

ASSUME NoneAssumption == None \notin Nat
=============================================================================
