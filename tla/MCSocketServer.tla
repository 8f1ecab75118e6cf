--------------------------- MODULE MCSocketServer ---------------------------
(***************************************************************************)
(* Instances of SocketServer for TLC.  Clients are interchangeable.        *)
(***************************************************************************)
EXTENDS SocketServer, TLC

ClientSymmetry == Permutations(Clients)
=============================================================================
