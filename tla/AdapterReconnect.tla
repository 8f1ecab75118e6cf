-------------------------- MODULE AdapterReconnect --------------------------
(***************************************************************************)
(* The reconnect cycle of the daemon, class AdapterReconnect with its      *)
(* BackoffSchedule: a pure decision type over a state rc.  The length of a *)
(* delay is left out, whether there is one is kept: ConnectionLostDelay    *)
(* says that the delay given at construction is positive, as it is in      *)
(* PowerSupervisor (kConnectionLostRetryDelay).                            *)
(***************************************************************************)
EXTENDS Integers

CONSTANTS
  ScheduleSize,         \* number of delays in the BackoffSchedule (3 in the code)
  ConnectionLostDelay   \* m_connectionLostDelay > 0

ASSUME ScheduleAssumption ==
  /\ ScheduleSize \in Nat
  /\ ConnectionLostDelay \in BOOLEAN

ReconnectEvent ==
  {"ConnectionLost", "AttemptSucceeded", "AttemptFailed", "RetryTimerFired",
   "SystemSuspend", "SystemResume", "TimerArmFailed"}

ReconnectEffect ==
  {"None", "StartAttempt", "ScheduleRetry", "CancelRetry", "AbandonCycle"}

(* drawn is BackoffSchedule::m_attempt, the number of delays used up.      *)
AdapterReconnectState ==
  [state : {"Idle", "Attempting", "WaitingForRetry"},
   drawn : 0 .. ScheduleSize, nextAttemptNumber : 0 .. ScheduleSize + 1]

resetCycle == [state |-> "Idle", drawn |-> 0, nextAttemptNumber |-> 0]

AdapterReconnectInit == resetCycle

totalAttempts == ScheduleSize + 1

Effect(rc, effect) == [rc |-> rc, effect |-> effect]

firstAttempt(state) == [state |-> state, drawn |-> 0, nextAttemptNumber |-> 1]

-----------------------------------------------------------------------------
seedCycle(rc) ==
  IF rc.state # "Idle" THEN Effect(rc, "None")
  ELSE Effect(firstAttempt("WaitingForRetry"), "ScheduleRetry")

onEventIdle(rc, event) ==
  IF event # "ConnectionLost" THEN Effect(rc, "None")
  ELSE IF ConnectionLostDelay
       THEN Effect(firstAttempt("WaitingForRetry"), "ScheduleRetry")
       ELSE Effect(firstAttempt("Attempting"), "StartAttempt")

(* Mutants: one delay too many, a schedule that never advances.            *)
NextDelayOffByOne(rc) ==
  IF rc.drawn > ScheduleSize THEN Effect(resetCycle, "AbandonCycle")
  ELSE Effect([state |-> "WaitingForRetry", drawn |-> rc.drawn + 1,
               nextAttemptNumber |-> rc.drawn + 2], "ScheduleRetry")

NextDelayStuck(rc) ==
  Effect([state |-> "WaitingForRetry", drawn |-> rc.drawn,
          nextAttemptNumber |-> rc.drawn + 1], "ScheduleRetry")

(* AttemptFailed: BackoffSchedule::nextDelay, then the next attempt or the *)
(* end of the cycle.                                                       *)
nextDelay(rc) ==
  IF rc.drawn >= ScheduleSize THEN Effect(resetCycle, "AbandonCycle")
  ELSE Effect([state |-> "WaitingForRetry", drawn |-> rc.drawn + 1,
               nextAttemptNumber |-> rc.drawn + 2], "ScheduleRetry")

onEventAttempting(rc, event) ==
  CASE event = "AttemptSucceeded" -> Effect(resetCycle, "None")
    [] event = "AttemptFailed" -> nextDelay(rc)
    [] event \in {"SystemSuspend", "SystemResume"} -> Effect(resetCycle, "None")
    [] OTHER -> Effect(rc, "None")

(* Mutant: a suspend ends the cycle and leaves its timer armed.            *)
WaitingForgetsCancel(rc, event) ==
  CASE event \in {"ConnectionLost", "RetryTimerFired"} ->
         Effect([rc EXCEPT !.state = "Attempting"], "StartAttempt")
    [] event \in {"SystemSuspend", "SystemResume"} -> Effect(resetCycle, "None")
    [] event = "TimerArmFailed" -> Effect(resetCycle, "AbandonCycle")
    [] OTHER -> Effect(rc, "None")

onEventWaiting(rc, event) ==
  CASE event = "ConnectionLost" -> Effect(firstAttempt("Attempting"), "StartAttempt")
    [] event = "RetryTimerFired" ->
         Effect([rc EXCEPT !.state = "Attempting"], "StartAttempt")
    [] event \in {"SystemSuspend", "SystemResume"} -> Effect(resetCycle, "CancelRetry")
    [] event = "TimerArmFailed" -> Effect(resetCycle, "AbandonCycle")
    [] OTHER -> Effect(rc, "None")

onEvent(rc, event) ==
  CASE rc.state = "Idle" -> onEventIdle(rc, event)
    [] rc.state = "Attempting" -> onEventAttempting(rc, event)
    [] rc.state = "WaitingForRetry" -> onEventWaiting(rc, event)
=============================================================================
