----------------------------- MODULE SocketPath -----------------------------
(***************************************************************************)
(* The socket file: how daemons that start, stop and crash share one path. *)
(* UnixSocket::listen is a chain of system calls on a file system others   *)
(* use as well, so each call is one step.                                  *)
(*                                                                         *)
(* file is what the path names: nothing, the socket a daemon bound, or     *)
(* something that was left there before any of them ran.  Nothing keeps    *)
(* two daemons from starting or stopping at once; the history variable met *)
(* remembers the ones that did.                                            *)
(***************************************************************************)
EXTENDS Naturals, FiniteSets

CONSTANT Daemons

VARIABLES
  file,      \* "none", "left", or the daemon whose socket it is
  pc,        \* where each daemon is
  met        \* the daemons whose start or stop met another's

vars == <<file, pc, met>>

Idle == {"down", "refused", "crashed"}
Starting == {"access", "probe", "unlink", "bind", "listen"}
Transit == Starting \cup {"stopping"}

Init ==
  /\ file \in {"none", "left"}
  /\ pc = [d \in Daemons |-> "down"]
  /\ met = {}

Goto(d, l) == pc' = [pc EXCEPT ![d] = l]

Serving(d) == pc[d] = "serving"

(* History, no state of the code: two daemons that are both starting or    *)
(* stopping have met, and so has one that starts beside a daemon that had  *)
(* met another and still runs.  A new start forgets what the daemon met    *)
(* before.                                                                 *)
OthersInTransit(d) == {e \in Daemons \ {d} : pc[e] \in Transit}

MeetsOnStart(d) ==
  LET O == OthersInTransit(d)
      runsMet == \E e \in met \ {d} : pc[e] \notin Idle
  IN  met' = IF O # {} \/ runsMet THEN met \cup O \cup {d} ELSE met \ {d}

MeetsOnStop(d) ==
  LET O == OthersInTransit(d)
  IN  met' = IF O # {} THEN met \cup O \cup {d} ELSE met

-----------------------------------------------------------------------------
Start(d) ==
  /\ pc[d] \in Idle
  /\ Goto(d, "access")
  /\ MeetsOnStart(d)
  /\ UNCHANGED file

(* access(F_OK): is anything there?                                        *)
Access(d) ==
  /\ pc[d] = "access"
  /\ Goto(d, IF file = "none" THEN "bind" ELSE "probe")
  /\ UNCHANGED <<file, met>>

(* Mutant: any answer but success means stale, EAGAIN of a full backlog    *)
(* included.                                                               *)
AlwaysStale == "Stale"

(* connect(): accepted by a daemon that listens, refused by any other      *)
(* socket, ENOENT when the file has gone meanwhile.                        *)
ProbeResult == IF file \in Daemons /\ Serving(file) THEN "Live" ELSE "Stale"

Probe(d) ==
  /\ pc[d] = "probe"
  /\ \/ ProbeResult = "Live" /\ Goto(d, "refused")
     \/ ProbeResult = "Stale" /\ Goto(d, "unlink")
     \/ Goto(d, "refused")                    \* ProbeResult::Error
  /\ UNCHANGED <<file, met>>

Unlink(d) ==
  /\ pc[d] = "unlink"
  /\ \/ Goto(d, "bind") /\ file' = "none"
     \/ Goto(d, "refused") /\ UNCHANGED file  \* not allowed to
  /\ UNCHANGED met

(* bind() makes the file.  It fails when there is one, and socket() or     *)
(* bind() may fail for other reasons.                                      *)
Bind(d) ==
  /\ pc[d] = "bind"
  /\ \/ file = "none" /\ file' = d /\ Goto(d, "listen")
     \/ Goto(d, "refused") /\ UNCHANGED file
  /\ UNCHANGED met

(* A listen() that fails closes the descriptor and leaves the file.        *)
Listen(d) ==
  /\ pc[d] = "listen"
  /\ Goto(d, "serving") \/ Goto(d, "refused")
  /\ UNCHANGED <<file, met>>

(* SocketServer::stop: the listener is closed first, ...                   *)
StopCloses(d) ==
  /\ pc[d] = "serving"
  /\ Goto(d, "stopping")
  /\ MeetsOnStop(d)
  /\ UNCHANGED file

(* ... then the path is unlinked, whatever it names.                       *)
StopUnlinks(d) ==
  /\ pc[d] = "stopping"
  /\ file' = "none"
  /\ Goto(d, "down")
  /\ UNCHANGED met

Crash(d) ==
  /\ pc[d] \in Transit \cup {"serving"}
  /\ Goto(d, "crashed")
  /\ UNCHANGED <<file, met>>

-----------------------------------------------------------------------------
DaemonStep(d) ==
  \/ Access(d) \/ Probe(d) \/ Unlink(d) \/ Bind(d) \/ Listen(d)
  \/ StopCloses(d) \/ StopUnlinks(d)

Next == \E d \in Daemons : Start(d) \/ DaemonStep(d) \/ Crash(d)

Spec == Init /\ [][Next]_vars

TypeOK ==
  /\ file \in Daemons \cup {"none", "left"}
  /\ pc \in [Daemons -> Idle \cup Transit \cup {"serving"}]
  /\ met \subseteq Daemons

(* A daemon that serves is the one clients reach through the path, unless  *)
(* its start or its stop met another's.  UnixSocket::listen takes over a   *)
(* file only after the probe has shown that nobody listens, and stop       *)
(* unlinks its own, so crashes, refused starts and what was left behind    *)
(* never separate a daemon from its path; and when two starts race between *)
(* probe and bind, the harm stays with the daemons that met and is over    *)
(* once they have ended: a daemon that was serving before keeps its file,  *)
(* and one that starts after them is reached.                              *)
ServingIsReachable == \A d \in Daemons : Serving(d) /\ d \notin met => file = d

-----------------------------------------------------------------------------
(* The inductive invariant behind it.  Two daemons in transit have met.  A *)
(* daemon that met nobody sees, up to its probe, others that are idle or   *)
(* serve undisturbed; past the probe, and while it stops, only idle ones;  *)
(* and while it serves, nobody gets past the probe.                        *)
TransitMeets ==
  \A d, e \in Daemons :
    d # e /\ pc[d] \in Transit /\ pc[e] \in Transit => {d, e} \subseteq met

BeforeTheProbe ==
  \A d, e \in Daemons :
    d # e /\ d \notin met /\ pc[d] \in {"access", "probe"}
      => pc[e] \in Idle \/ (Serving(e) /\ e \notin met)

PastTheProbe ==
  \A d, e \in Daemons :
    d # e /\ d \notin met /\ pc[d] \in {"unlink", "bind", "listen", "stopping"}
      => pc[e] \in Idle

Undisturbed ==
  \A d, e \in Daemons :
    d # e /\ d \notin met /\ Serving(d) => pc[e] \in Idle \cup {"access", "probe"}

Owns ==
  \A d \in Daemons :
    d \notin met /\ pc[d] \in {"listen", "serving", "stopping"} => file = d

PathInv ==
  TypeOK /\ TransitMeets /\ BeforeTheProbe /\ PastTheProbe /\ Undisturbed /\ Owns

-----------------------------------------------------------------------------
(* What the code does not keep.  unix_socket.cpp:121 says "don't unlink    *)
(* something we can't verify is stale", but a socket that is bound and not *)
(* yet listening looks stale to the probe, and the probe's answer is old   *)
(* when the file is unlinked: a daemon that began to listen in between     *)
(* loses its path.                                                         *)
UnlinksOnlyTheDead ==
  [][\A d \in Daemons : Serving(d) /\ file = d => file' = d \/ ~Serving(d)']_vars
=============================================================================
