------------------------------ MODULE WorkQueue ------------------------------
(***************************************************************************)
(* What MainThreadWork promises: closures are posted by any thread and run *)
(* by the main thread, each once, in the order they were posted.           *)
(***************************************************************************)
EXTENDS Naturals, Sequences

CONSTANT Closures

VARIABLES queue, ran

vars == <<queue, ran>>

Init == queue = << >> /\ ran = << >>

Post(c) ==
  /\ queue' = Append(queue, c)
  /\ UNCHANGED ran

Run ==
  /\ queue # << >>
  /\ queue' = Tail(queue)
  /\ ran' = Append(ran, Head(queue))

Next == (\E c \in Closures : Post(c)) \/ Run

Spec == Init /\ [][Next]_vars

FairSpec == Spec /\ WF_vars(Run)
=============================================================================
