-------------------------- MODULE MCRatchetUpdate --------------------------
(***************************************************************************)
(* Small instances of RatchetUpdate: the client (or the peer that asked    *)
(* for the connection) and the server (or the other peer).  A budget gives *)
(* the number of messages, or of rekey requests, of the client and then of *)
(* the server.                                                             *)
(***************************************************************************)
EXTENDS RatchetUpdate, TLC

CONSTANTS client, server

Budget(ofClient, ofServer) == client :> ofClient @@ server :> ofServer

ZeroZero == Budget(0, 0)
OneZero  == Budget(1, 0)
OneOne   == Budget(1, 1)
TwoZero  == Budget(2, 0)
TwoOne   == Budget(2, 1)
TwoTwo   == Budget(2, 2)
ThreeOne == Budget(3, 1)
ThreeTwo == Budget(3, 2)
EightOne == Budget(8, 1)
=============================================================================
