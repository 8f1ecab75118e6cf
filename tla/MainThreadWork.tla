--------------------------- MODULE MainThreadWork ---------------------------
(***************************************************************************)
(* MainThreadWork: m_pending under a mutex and an eventfd beside it.  A    *)
(* post writes the eventfd after it has released the mutex, and a drain    *)
(* clears the eventfd before it takes the mutex, so either may run between *)
(* the two halves of the other.                                            *)
(*                                                                         *)
(* A closure that posts does it like any other thread, and is not told     *)
(* apart here.                                                             *)
(***************************************************************************)
EXTENDS Naturals, Sequences

CONSTANTS
  Threads,
  MaxPosts    \* posts of one thread

ASSUME MaxPostsAssumption == MaxPosts \in Nat

VARIABLES
  pending,    \* m_pending
  wakeFd,     \* is the eventfd readable?
  poster,     \* per thread: "idle", or "pushed" before it writes the eventfd
  posted,     \* how often each thread has posted
  main,       \* the main thread: "wait", "clear", "swap" or "run"
  batch,      \* what drain() has swapped out and not run yet
  ran         \* what has run

vars == <<pending, wakeFd, poster, posted, main, batch, ran>>

Closures == Threads \X (1 .. MaxPosts)

Init ==
  /\ pending = << >>
  /\ wakeFd = FALSE
  /\ poster = [t \in Threads |-> "idle"]
  /\ posted = [t \in Threads |-> 0]
  /\ main = "wait"
  /\ batch = << >>
  /\ ran = << >>

-----------------------------------------------------------------------------
Push(t) ==
  /\ poster[t] = "idle"
  /\ posted[t] < MaxPosts
  /\ poster' = [poster EXCEPT ![t] = "pushed"]
  /\ posted' = [posted EXCEPT ![t] = @ + 1]
  /\ pending' = Append(pending, <<t, posted[t] + 1>>)
  /\ UNCHANGED <<wakeFd, main, batch, ran>>

WriteWakeFd(t) ==
  /\ poster[t] = "pushed"
  /\ poster' = [poster EXCEPT ![t] = "idle"]
  /\ wakeFd' = TRUE
  /\ UNCHANGED <<pending, posted, main, batch, ran>>

(* epoll_wait returns, the handler calls drain.                            *)
DrainStarts ==
  /\ main = "wait"
  /\ wakeFd
  /\ main' = "clear"
  /\ UNCHANGED <<pending, wakeFd, poster, posted, batch, ran>>

(* Mutant: m_pending is swapped out first and the eventfd cleared after.   *)
ClearAfterSwap ==
  /\ main = "clear"
  /\ \/ /\ batch = << >> /\ pending # << >>
        /\ batch' = pending /\ pending' = << >>
        /\ UNCHANGED <<main, wakeFd>>
     \/ /\ batch # << >> \/ pending = << >>
        /\ main' = "run" /\ wakeFd' = FALSE
        /\ UNCHANGED <<pending, batch>>
  /\ UNCHANGED <<poster, posted, ran>>

ClearWakeFd ==
  /\ main = "clear"
  /\ main' = "swap"
  /\ wakeFd' = FALSE
  /\ UNCHANGED <<pending, poster, posted, batch, ran>>

(* Mutant: the copy taken out leaves m_pending as it was.                  *)
CopyPending ==
  /\ main = "swap"
  /\ main' = "run"
  /\ batch' = pending
  /\ UNCHANGED <<pending, wakeFd, poster, posted, ran>>

SwapPending ==
  /\ main = "swap"
  /\ main' = "run"
  /\ batch' = pending
  /\ pending' = << >>
  /\ UNCHANGED <<wakeFd, poster, posted, ran>>

(* Mutant: a closure that throws ends the batch.                           *)
ThrowEndsBatch ==
  /\ main = "run"
  /\ batch # << >>
  /\ \/ batch' = Tail(batch) /\ ran' = Append(ran, Head(batch)) /\ UNCHANGED main
     \/ main' = "wait" /\ ran' = Append(ran, Head(batch)) /\ batch' = Tail(batch)
  /\ UNCHANGED <<pending, wakeFd, poster, posted>>

(* An exception of the closure is caught: the batch goes on.               *)
RunClosure ==
  /\ main = "run"
  /\ batch # << >>
  /\ batch' = Tail(batch)
  /\ ran' = Append(ran, Head(batch))
  /\ UNCHANGED <<pending, wakeFd, poster, posted, main>>

DrainReturns ==
  /\ main = "run"
  /\ batch = << >>
  /\ main' = "wait"
  /\ UNCHANGED <<pending, wakeFd, poster, posted, batch, ran>>

-----------------------------------------------------------------------------
DrainStep == DrainStarts \/ ClearWakeFd \/ SwapPending \/ RunClosure \/ DrainReturns

Next == (\E t \in Threads : Push(t) \/ WriteWakeFd(t)) \/ DrainStep

Spec == Init /\ [][Next]_vars

(* The main thread runs, and a thread that has pushed goes on to write.    *)
FairSpec == Spec /\ WF_vars(DrainStep) /\ \A t \in Threads : WF_vars(WriteWakeFd(t))

TypeOK ==
  /\ pending \in Seq(Closures)
  /\ wakeFd \in BOOLEAN
  /\ poster \in [Threads -> {"idle", "pushed"}]
  /\ posted \in [Threads -> 0 .. MaxPosts]
  /\ main \in {"wait", "clear", "swap", "run"}
  /\ batch \in Seq(Closures)
  /\ ran \in Seq(Closures)

(* No wake-up is lost: a closure in m_pending is about to be swapped out,  *)
(* or the eventfd is readable, or a poster is about to make it so.         *)
NoLostWakeup ==
  pending # << >> => wakeFd \/ main = "swap" \/ \E t \in Threads : poster[t] = "pushed"

(* The queue of the promise: what is left of the batch, then m_pending.    *)
(* drain never overtakes, drops or repeats a closure.                      *)
Promise == INSTANCE WorkQueue WITH queue <- batch \o pending

RunsInOrder == Promise!Spec

(* And with a main thread that runs, every closure posted is run.          *)
RunsEventually == Promise!FairSpec

-----------------------------------------------------------------------------
(* The part of the state SwapPending relies on: nothing is left of the     *)
(* previous batch.                                                         *)
BatchDone == main # "run" => batch = << >>

WorkInv == TypeOK /\ NoLostWakeup /\ BatchDone
=============================================================================
