------------------------------ MODULE MainLoop ------------------------------
(***************************************************************************)
(* The main thread: EventLoop over epoll, MainThreadWork and the two       *)
(* TimerSources of the power path.                                         *)
(*                                                                         *)
(* A handler of the code is a chain of calls; each call that reads or      *)
(* writes state another thread can touch is one step of the model, and     *)
(* calls is what is left to run, first call first.  The loop is at a       *)
(* dispatch point when the last handler has returned.                      *)
(***************************************************************************)
EXTENDS Naturals, Sequences

VARIABLES
  work,        \* MainThreadWork::m_pending, preceded by the batch being drained
  batch,       \* closures left in the batch that drain() swapped out
  ready,       \* events of the last epoll_wait not dispatched yet
  calls,       \* what is left of the running handler
  loop,        \* "running", "stopRequested", "stopping" or "stopped"
  safetyTimer, \* m_suspendSafetyTimer: "off", "armed" or "expired"
  retryTimer   \* m_reconnectRetryTimer

timerVars == <<safetyTimer, retryTimer>>
loopVars == <<work, batch, ready, calls, loop, safetyTimer, retryTimer>>

(* What runs on the main thread.  id is the command a reply answers.       *)
Closure ==
  {"suspendDBus", "resumeDBus", "connectionLost", "suspendCompleted",
   "resumeWorkerValid", "resumeWorkerInvalid", "attemptSucceeded",
   "attemptFailed", "reply"}
Handler ==
  Closure \cup {"suspendWire", "resumeWire", "resumeValid", "resumeInvalid",
                "pumpQueue", "seedCycle", "safetyTimerFired", "retryTimerFired"}
Frame == [fn : Handler, id : Nat]
Call(fn) == [fn |-> fn, id |-> 0]

TimerState == {"off", "armed", "expired"}
LoopState == {"running", "stopRequested", "stopping", "stopped"}

LoopInit ==
  /\ work = << >>
  /\ batch = 0
  /\ ready = {}
  /\ calls = << >>
  /\ loop = "running"
  /\ safetyTimer = "off"
  /\ retryTimer = "off"

-----------------------------------------------------------------------------
AtDispatchPoint == loop = "running" /\ calls = << >> /\ batch = 0

Readable ==
  {e \in {"work", "safety", "retry"} :
     \/ e = "work" /\ work # << >>
     \/ e = "safety" /\ safetyTimer = "expired"
     \/ e = "retry" /\ retryTimer = "expired"}

(* epoll_wait: the events it returns are dispatched later, one by one, on  *)
(* state the handlers before them may have changed.                        *)
Poll ==
  /\ AtDispatchPoint
  /\ ready = {}
  /\ Readable # {}
  /\ ready' = Readable
  /\ UNCHANGED <<work, batch, calls, loop, safetyTimer, retryTimer>>

(* MainThreadWork::drain takes what is there now; what a closure posts     *)
(* waits for the next drain.                                               *)
Drain ==
  /\ AtDispatchPoint
  /\ "work" \in ready
  /\ ready' = ready \ {"work"}
  /\ batch' = Len(work)
  /\ UNCHANGED <<work, calls, loop, safetyTimer, retryTimer>>

(* The batch runs to its end, also after a closure has asked the loop to   *)
(* stop.                                                                   *)
RunClosure ==
  /\ loop \in {"running", "stopRequested"}
  /\ calls = << >>
  /\ batch > 0
  /\ batch' = batch - 1
  /\ calls' = <<Head(work)>>
  /\ work' = Tail(work)
  /\ UNCHANGED <<ready, loop, safetyTimer, retryTimer>>

DispatchTimer(event, fn) ==
  /\ AtDispatchPoint
  /\ event \in ready
  /\ ready' = ready \ {event}
  /\ calls' = <<Call(fn)>>
  /\ UNCHANGED <<work, batch, loop, safetyTimer, retryTimer>>

DispatchSafetyTimer == DispatchTimer("safety", "safetyTimerFired")

DispatchRetryTimer == DispatchTimer("retry", "retryTimerFired")

(* The kernel: an armed timerfd becomes readable.                          *)
SafetyTimerExpires ==
  /\ loop = "running"
  /\ safetyTimer = "armed"
  /\ safetyTimer' = "expired"
  /\ UNCHANGED <<work, batch, ready, calls, loop, retryTimer>>

RetryTimerExpires ==
  /\ loop = "running"
  /\ retryTimer = "armed"
  /\ retryTimer' = "expired"
  /\ UNCHANGED <<work, batch, ready, calls, loop, safetyTimer>>

(* TimerSource::consume reads the expiration count; its callers ignore     *)
(* whether there was one.                                                  *)
Consumed(timer) == IF timer = "expired" THEN "off" ELSE timer

Post(fn, id) == work' = Append(work, [fn |-> fn, id |-> id])

-----------------------------------------------------------------------------
MainLoopStep ==
  \/ Poll
  \/ Drain
  \/ RunClosure
  \/ DispatchSafetyTimer
  \/ DispatchRetryTimer

LoopTypeOK ==
  /\ work \in Seq([fn : Closure, id : Nat])
  /\ batch \in 0 .. Len(work)
  /\ ready \subseteq {"work", "safety", "retry"}
  /\ calls \in Seq(Frame)
  /\ loop \in LoopState
  /\ safetyTimer \in TimerState
  /\ retryTimer \in TimerState
=============================================================================
