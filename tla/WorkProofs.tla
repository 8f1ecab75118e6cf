----------------------------- MODULE WorkProofs -----------------------------
(***************************************************************************)
(* For any number of threads and posts: no wake-up of the main thread is   *)
(* lost, and MainThreadWork implements WorkQueue.                          *)
(***************************************************************************)
EXTENDS MainThreadWork, SequenceTheorems, TLAPS

(* Init establishes the inductive invariant.                               *)
LEMMA WorkInit == Init => WorkInv
<1> SUFFICES ASSUME Init PROVE WorkInv
  OBVIOUS
<1>1. << >> \in Seq(Closures)
  OBVIOUS
<1>2. wakeFd \in BOOLEAN
  BY DEF Init
<1>3. posted \in [Threads -> 0 .. MaxPosts] /\ poster \in [Threads -> {"idle", "pushed"}]
  BY MaxPostsAssumption DEF Init
<1> QED
  BY <1>1, <1>2, <1>3 DEF Init, WorkInv, TypeOK, NoLostWakeup, BatchDone

(* Every half of a post and every step of a drain preserves it.            *)
LEMMA WorkStep == WorkInv /\ [Next]_vars => WorkInv'
<1> SUFFICES ASSUME WorkInv, [Next]_vars PROVE WorkInv'
  OBVIOUS
<1> USE MaxPostsAssumption DEF WorkInv, TypeOK, NoLostWakeup, BatchDone
<1>1. ASSUME NEW t \in Threads, Push(t) PROVE WorkInv'
  <2>1. <<t, posted[t] + 1>> \in Closures
    BY <1>1 DEF Push, Closures
  <2>2. pending' \in Seq(Closures)
    BY <1>1, <2>1 DEF Push
  <2> QED
    BY <1>1, <2>2 DEF Push
<1>2. ASSUME NEW t \in Threads, WriteWakeFd(t) PROVE WorkInv'
  BY <1>2 DEF WriteWakeFd
<1>3. CASE DrainStarts
  BY <1>3 DEF DrainStarts
<1>4. CASE ClearWakeFd
  BY <1>4 DEF ClearWakeFd
<1>5. CASE SwapPending
  BY <1>5 DEF SwapPending
<1>6. CASE RunClosure
  BY <1>6 DEF RunClosure
<1>7. CASE DrainReturns
  BY <1>7 DEF DrainReturns
<1>8. CASE UNCHANGED vars
  BY <1>8 DEF vars
<1> QED
  BY <1>1, <1>2, <1>3, <1>4, <1>5, <1>6, <1>7, <1>8 DEF Next, DrainStep

(* A closure in m_pending always has a wake-up on its way: whatever the    *)
(* interleaving of post and drain, the main thread does not sleep on it.   *)
THEOREM WakeupKept == Spec => []NoLostWakeup
<1>1. WorkInv => NoLostWakeup
  BY DEF WorkInv
<1> QED
  BY WorkInit, WorkStep, <1>1, PTL DEF Spec

(* What concatenation does to the queue of the promise.                    *)
LEMMA ConcatAppend ==
  ASSUME NEW S, NEW s \in Seq(S), NEW t \in Seq(S), NEW x \in S
  PROVE  s \o Append(t, x) = Append(s \o t, x)
  OBVIOUS

(* The head of a concatenation is that of its first part.                  *)
LEMMA ConcatTail ==
  ASSUME NEW S, NEW s \in Seq(S), NEW t \in Seq(S), s # << >>
  PROVE  /\ Tail(s) \o t = Tail(s \o t)
         /\ Head(s) = Head(s \o t)
         /\ s \o t # << >>
  OBVIOUS

(* The drain implements a queue in which posting and running are one step: *)
(* closures run once each, in the order they were posted.                  *)
THEOREM DrainImplementsQueue == Spec => RunsInOrder
<1>1. Init => Promise!Init
  BY DEF Init, Promise!Init
<1>2. WorkInv /\ [Next]_vars => [Promise!Next]_(Promise!vars)
  <2> SUFFICES ASSUME WorkInv, [Next]_vars PROVE [Promise!Next]_(Promise!vars)
    OBVIOUS
  <2> USE DEF WorkInv, TypeOK, Promise!vars
  <2>1. ASSUME NEW t \in Threads, Push(t) PROVE Promise!Next
    <3>1. <<t, posted[t] + 1>> \in Closures
      BY <2>1, MaxPostsAssumption DEF Push, Closures
    <3>2. batch \o Append(pending, <<t, posted[t] + 1>>) = Append(batch \o pending, <<t, posted[t] + 1>>)
      BY <3>1, ConcatAppend
    <3> QED
      BY <2>1, <3>1, <3>2 DEF Push, Promise!Next, Promise!Post
  <2>2. ASSUME NEW t \in Threads, WriteWakeFd(t) PROVE UNCHANGED Promise!vars
    BY <2>2 DEF WriteWakeFd
  <2>3. CASE DrainStarts \/ ClearWakeFd \/ DrainReturns
    BY <2>3 DEF DrainStarts, ClearWakeFd, DrainReturns
  <2>4. CASE SwapPending
    <3>1. batch = << >>
      BY <2>4 DEF SwapPending, BatchDone
    <3>2. pending \o << >> = << >> \o pending
      OBVIOUS
    <3> QED
      BY <2>4, <3>1, <3>2 DEF SwapPending
  <2>5. CASE RunClosure
    <3>1. /\ Tail(batch) \o pending = Tail(batch \o pending)
          /\ Head(batch) = Head(batch \o pending)
          /\ batch \o pending # << >>
      BY <2>5, ConcatTail DEF RunClosure
    <3> QED
      BY <2>5, <3>1 DEF RunClosure, Promise!Next, Promise!Run
  <2>6. CASE UNCHANGED vars
    BY <2>6 DEF vars
  <2> QED
    BY <2>1, <2>2, <2>3, <2>4, <2>5, <2>6 DEF Next, DrainStep
<1> QED
  BY WorkInit, WorkStep, <1>1, <1>2, PTL DEF Spec, RunsInOrder, Promise!Spec
=============================================================================
