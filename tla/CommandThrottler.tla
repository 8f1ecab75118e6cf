-------------------------- MODULE CommandThrottler --------------------------
(***************************************************************************)
(* CommandThrottler: when the attempts of CEC commands may begin.          *)
(*                                                                         *)
(* The throttler belongs to the dispatcher and is called by jobs of the    *)
(* worker only, so nobody else changes the two atomics between a load and  *)
(* the compare-and-swap after it.  Time is counted in units of             *)
(* kFailureStepMs, from the present: what matters is how long the next     *)
(* slot is away.                                                           *)
(***************************************************************************)
EXTENDS Integers, FiniteSetsExt

CONSTANTS baseInterval, maxInterval   \* ThrottlerConfig

ASSUME ThrottlerAssumption == baseInterval \in Nat \ {0} /\ maxInterval \in Nat

VARIABLES
  untilFree,       \* m_nextAllowed - now, zero once it has come
  failures,        \* m_consecutiveFailures
  slot             \* the last slot reserved: how long ago it came, and its interval

throttlerVars == <<untilFree, failures, slot>>

LongestInterval == Max({baseInterval, maxInterval})

ThrottlerInit ==
  /\ untilFree = 0
  /\ failures = 0
  /\ slot = [ago |-> LongestInterval, interval |-> baseInterval]

(* Doubles with each failure, never by more than the span.                 *)
currentInterval(f) ==
  LET span == IF maxInterval > baseInterval THEN maxInterval - baseInterval ELSE 0
      extra == 2 ^ Min({f, 5})
  IN  IF f = 0 THEN baseInterval ELSE baseInterval + Min({extra, span})

RetryDelay(attempt) == IF attempt = 0 THEN 1 ELSE 2 ^ attempt

(* Mutant: the interval counts from now, not from the slot.                *)
ReserveFromNow ==
  /\ untilFree' = currentInterval(failures)
  /\ slot' = [ago |-> - untilFree, interval |-> currentInterval(failures)]
  /\ UNCHANGED failures

(* reserveSlotAndSleep: the caller sleeps for untilFree.                   *)
ReserveSlot ==
  /\ untilFree' = untilFree + currentInterval(failures)
  /\ slot' = [ago |-> - untilFree, interval |-> currentInterval(failures)]
  /\ UNCHANGED failures

(* executeWithThrottle after an attempt, and after the last one.           *)
AttemptSucceeded == failures' = 0 /\ UNCHANGED <<untilFree, slot>>

AttemptFailed == failures' = failures + 1 /\ UNCHANGED <<untilFree, slot>>

Softened == IF failures > 0 THEN failures - 1 ELSE 0

RetriesExhausted == failures' = Softened /\ UNCHANGED <<untilFree, slot>>

TimePasses ==
  /\ untilFree' = Max({untilFree - 1, 0})
  /\ slot' = [slot EXCEPT !.ago = Min({@ + 1, LongestInterval})]
  /\ UNCHANGED failures
=============================================================================
