--------------------------- MODULE MCCommandPath ---------------------------
(***************************************************************************)
(* Instances of CommandPath for TLC.  Clients are interchangeable.         *)
(***************************************************************************)
EXTENDS CommandPath, TLC

ClientSymmetry == Permutations(Clients)

(* One line for each way through the daemon, with the device the operation *)
(* addresses and with another one, and two that are not accepted by the    *)
(* client or by the television's inputs.                                   *)
MixedLines ==
  {Line("power", <<Text("off"), Number(4)>>),
   Line("power", <<Text("on"), Number(16)>>),
   Line("volume", <<Text("mute"), Number(5)>>),
   Line("volume", <<Text("up"), Number(0)>>),
   Line("source", <<Number(0), Number(3)>>),
   Line("source", <<Number(5), Number(2)>>),
   Line("source", <<Number(0), Number(9)>>),
   Line("key", <<Text("red")>>),
   Line("standby", <<Text("on")>>),
   Line("restart", << >>),
   Line("suspend", << >>)}

(* A key without a code, a code that is not a key, no payload, a response  *)
(* code, an unknown type, less than a header.                              *)
OddBytes == {<<11, 0>>, <<11, 0, 64>>, <<6, 0, 0, 7>>, <<10, 0>>, <<100, 0>>, <<77, 0>>, <<1>>}
=============================================================================
