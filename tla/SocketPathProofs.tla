-------------------------- MODULE SocketPathProofs --------------------------
(***************************************************************************)
(* For any number of daemons, however their starts, stops and crashes      *)
(* interleave: a daemon whose start and stop met no other is the one the   *)
(* path leads to while it serves.                                          *)
(***************************************************************************)
EXTENDS SocketPath, TLAPS

(* What the path may name besides a daemon's socket is no daemon.          *)
NamesDiffer == "none" \notin Daemons /\ "left" \notin Daemons

(* Init establishes the inductive invariant.                               *)
LEMMA PathInit == Init => PathInv
  BY DEF Init, PathInv, TypeOK, TransitMeets, BeforeTheProbe, PastTheProbe, Undisturbed,
         Owns, Idle, Transit, Starting, Serving

(* Every system call of a start, a stop or a crash preserves it.           *)
LEMMA PathStep == NamesDiffer /\ PathInv /\ [Next]_vars => PathInv'
<1> SUFFICES ASSUME NamesDiffer, PathInv, [Next]_vars PROVE PathInv'
  OBVIOUS
<1> USE DEF NamesDiffer, PathInv, TypeOK, TransitMeets, BeforeTheProbe, PastTheProbe,
            Undisturbed, Owns, Idle, Transit, Starting, Serving, Goto
<1>1. ASSUME NEW d \in Daemons, Start(d) PROVE PathInv'
  BY <1>1 DEF Start, MeetsOnStart, OthersInTransit
<1>2. ASSUME NEW d \in Daemons, Access(d) PROVE PathInv'
  BY <1>2 DEF Access
<1>3. ASSUME NEW d \in Daemons, Probe(d) PROVE PathInv'
  BY <1>3 DEF Probe, ProbeResult
<1>4. ASSUME NEW d \in Daemons, Unlink(d) PROVE PathInv'
  BY <1>4 DEF Unlink
<1>5. ASSUME NEW d \in Daemons, Bind(d) PROVE PathInv'
  BY <1>5 DEF Bind
<1>6. ASSUME NEW d \in Daemons, Listen(d) PROVE PathInv'
  BY <1>6 DEF Listen
<1>7. ASSUME NEW d \in Daemons, StopCloses(d) PROVE PathInv'
  BY <1>7 DEF StopCloses, MeetsOnStop, OthersInTransit
<1>8. ASSUME NEW d \in Daemons, StopUnlinks(d) PROVE PathInv'
  BY <1>8 DEF StopUnlinks
<1>9. ASSUME NEW d \in Daemons, Crash(d) PROVE PathInv'
  BY <1>9 DEF Crash
<1>10. CASE UNCHANGED vars
  BY <1>10 DEF vars
<1> QED
  BY <1>1, <1>2, <1>3, <1>4, <1>5, <1>6, <1>7, <1>8, <1>9, <1>10 DEF Next, DaemonStep

(* Whatever races, crashes and refused starts there are, a daemon that     *)
(* serves and met no other start or stop is reached through the path.      *)
THEOREM PathReachable ==
  ASSUME NamesDiffer
  PROVE  Spec => []ServingIsReachable
<1>1. PathInv => ServingIsReachable
  BY DEF PathInv, Owns, ServingIsReachable, Serving
<1>2. PathInv /\ [Next]_vars => PathInv'
  BY PathStep
<1> QED
  BY PathInit, <1>1, <1>2, PTL DEF Spec
=============================================================================
