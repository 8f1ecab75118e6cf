--------------------------- MODULE PowerSupervisor ---------------------------
(***************************************************************************)
(* PowerSupervisor drives the two decision types and carries out what they *)
(* answer, with AdapterLifecycle and its SuspendQueue between it and the   *)
(* adapter's worker.  Every action below is one call of the main thread:   *)
(* the transition of the decision type and all the effects it asks for.    *)
(* What the call goes on to call in tail position is left in calls.        *)
(***************************************************************************)
EXTENDS PowerLifecycle, AdapterReconnect, AdapterWorker, InhibitLock

CONSTANT ArmMayFail   \* timerfd_settime can fail

ASSUME ArmAssumption == ArmMayFail \in BOOLEAN

VARIABLES
  lifecycle,  \* m_powerLifecycle
  reconnect,  \* m_adapterReconnect
  suspended,  \* SuspendQueue::m_suspended
  queued,     \* SuspendQueue::m_queued, the ids of the commands
  exitStatus  \* CECDaemon::m_exitStatus

fsmVars == <<lifecycle, reconnect>>
queueVars == <<suspended, queued>>

SupervisorInit ==
  /\ lifecycle = PowerLifecycleInit
  /\ reconnect = AdapterReconnectInit
  /\ suspended = FALSE
  /\ queued = << >>
  /\ exitStatus = "success"

Running(fn) == calls # << >> /\ Head(calls).fn = fn

-----------------------------------------------------------------------------
(* CECDaemon::requestUnrecoverableShutdown.                                *)
RequestUnrecoverableShutdown ==
  /\ exitStatus' = "failure"
  /\ loop' = "stopRequested"

(* Mutants: an early return without the callback; no gate while suspended. *)
ReconnectAsyncNoCallback(rest) ==
  \/ /\ suspended \/ connected
     /\ calls' = rest
     /\ UNCHANGED jobs
  \/ /\ ~suspended /\ ~connected
     /\ calls' = rest
     /\ Submit("reconnect", 0)

ReconnectAsyncNoGate(rest) ==
  \/ /\ connected
     /\ calls' = <<Call("attemptSucceeded")>> \o rest
     /\ UNCHANGED jobs
  \/ /\ ~connected
     /\ calls' = rest
     /\ Submit("reconnect", 0)

(* AdapterLifecycle::reconnectAsync.  Two of its returns call back at once.*)
ReconnectAsync(rest) ==
  \/ /\ suspended
     /\ calls' = <<Call("attemptFailed")>> \o rest
     /\ UNCHANGED jobs
  \/ /\ ~suspended /\ connected
     /\ calls' = <<Call("attemptSucceeded")>> \o rest
     /\ UNCHANGED jobs
  \/ /\ ~suspended /\ ~connected
     /\ calls' = rest
     /\ Submit("reconnect", 0)

(* PowerSupervisor::execute for the answer r of the reconnect cycle.  When *)
(* the retry timer cannot be armed the cycle is told at once and gives up. *)
Execute(r, rest) ==
  \/ /\ r.effect = "None"
     /\ reconnect' = r.rc
     /\ calls' = rest
     /\ UNCHANGED <<retryTimer, jobs, loop, exitStatus>>
  \/ /\ r.effect = "StartAttempt"
     /\ reconnect' = r.rc
     /\ retryTimer' = "off"
     /\ ReconnectAsync(rest)
     /\ UNCHANGED <<loop, exitStatus>>
  \/ /\ r.effect = "ScheduleRetry"
     /\ reconnect' = r.rc
     /\ retryTimer' = "armed"
     /\ calls' = rest
     /\ UNCHANGED <<jobs, loop, exitStatus>>
  \/ /\ r.effect = "ScheduleRetry"
     /\ ArmMayFail
     /\ reconnect' = onEvent(r.rc, "TimerArmFailed").rc
     /\ RequestUnrecoverableShutdown
     /\ calls' = rest
     /\ UNCHANGED <<retryTimer, jobs>>
  \/ /\ r.effect = "AbandonCycle"
     /\ reconnect' = r.rc
     /\ RequestUnrecoverableShutdown
     /\ calls' = rest
     /\ UNCHANGED <<retryTimer, jobs>>

-----------------------------------------------------------------------------
(* Mutants: an early return without the callback; the gate is left to the  *)
(* worker's completion; the gate is opened when the resume is submitted.   *)
SuspendAsyncNoCallback(rest) ==
  \/ suspended /\ calls' = rest /\ UNCHANGED <<suspended, jobs>>
  \/ ~suspended /\ suspended' = TRUE /\ Submit("suspend", 0) /\ calls' = rest

SuspendAsyncLateGate(rest) ==
  Submit("suspend", 0) /\ calls' = rest /\ UNCHANGED suspended

ResumeAsyncEarlyGate(rest) ==
  \/ /\ ~suspended
     /\ calls' = <<Call("resumeInvalid")>> \o rest
     /\ UNCHANGED <<suspended, jobs>>
  \/ /\ suspended
     /\ suspended' = FALSE
     /\ Submit("resume", 0)
     /\ calls' = rest

(* AdapterLifecycle::suspendAsync and resumeAsync: submit the work, or     *)
(* complete at once when there is nothing to do.                           *)
SuspendAsync(rest) ==
  \/ /\ suspended
     /\ calls' = <<Call("suspendCompleted")>> \o rest
     /\ UNCHANGED <<suspended, jobs>>
  \/ /\ ~suspended
     /\ suspended' = TRUE
     /\ Submit("suspend", 0)
     /\ calls' = rest

ResumeAsync(rest) ==
  \/ /\ ~suspended
     /\ calls' = <<Call("resumeInvalid")>> \o rest
     /\ UNCHANGED <<suspended, jobs>>
  \/ /\ suspended
     /\ Submit("resume", 0)
     /\ calls' = rest
     /\ UNCHANGED suspended

SubmitWork(w, rest) ==
  \/ w = "StartSuspend" /\ SuspendAsync(rest)
  \/ w = "StartResume" /\ ResumeAsync(rest)
  \/ w = "None" /\ calls' = rest /\ UNCHANGED <<suspended, jobs>>

SafetyTimerOp(op) ==
  \/ op = "Disarm" /\ safetyTimer' = "off"
  \/ op = "Arm" /\ safetyTimer' = "armed"
  \/ op = "Arm" /\ ArmMayFail /\ UNCHANGED safetyTimer
  \/ op = "None" /\ UNCHANGED safetyTimer

(* What the reconnect cycle answers to SystemSuspend and SystemResume.     *)
Notified(notify) ==
  IF notify = "None" THEN Effect(reconnect, "None")
                     ELSE onEvent(reconnect, notify)

(* PowerSupervisor::executeEffects.  A cycle told of a suspend or a resume *)
(* only ever cancels its retry.                                            *)
ExecuteEffects(out, rest) ==
  /\ reconnect' = Notified(out.notify).rc
  /\ retryTimer' = IF Notified(out.notify).effect = "CancelRetry" THEN "off"
                   ELSE retryTimer
  /\ SafetyTimerOp(out.timer)
  /\ LockOp(out.lock)
  /\ SubmitWork(out.work, rest)

supervisorRest == <<work, batch, ready, loop, exitStatus, queued, job, wpc, wok,
                    connected, link, alerting, bus, sleep>>

(* PowerSupervisor::applyLifecycle: the effects, then the pump.            *)
ApplyLifecycle(t, rest) ==
  /\ lifecycle' = t.lc
  /\ ExecuteEffects(t.out, <<Call("pumpQueue")>> \o rest)
  /\ UNCHANGED supervisorRest

-----------------------------------------------------------------------------
OnSuspendRequested(fn, source) ==
  /\ Running(fn)
  /\ ApplyLifecycle(onSuspendRequested(lifecycle, source), Tail(calls))

OnResumeRequested(fn, source) ==
  /\ Running(fn)
  /\ ApplyLifecycle(onResumeRequested(lifecycle, source), Tail(calls))

PumpQueue ==
  /\ Running("pumpQueue")
  /\ lifecycle' = pumpQueue(lifecycle).lc
  /\ ExecuteEffects(pumpQueue(lifecycle).out, Tail(calls))
  /\ UNCHANGED supervisorRest

OnSuspendCompleted ==
  /\ Running("suspendCompleted")
  /\ ApplyLifecycle(onSuspendCompleted(lifecycle), Tail(calls))

(* AdapterLifecycle::onResumeWorkerComplete with the callback it is given: *)
(* the queue is drained, the gate opened, and the commands are replayed    *)
(* ahead of anything a client sends from now on.                           *)
Replay(ids) == jobs' = jobs \o [i \in DOMAIN ids |-> [kind |-> "replay", id |-> ids[i]]]

(* Mutant: the callback is skipped when the adapter could not be reopened. *)
ResumeWorkerNoCallback(fn, valid) ==
  /\ Running(fn)
  /\ suspended' = FALSE
  /\ queued' = << >>
  /\ IF valid THEN Replay(queued) ELSE UNCHANGED jobs
  /\ calls' = (IF valid THEN <<Call("resumeValid")>> ELSE << >>) \o Tail(calls)
  /\ UNCHANGED <<work, batch, ready, loop, safetyTimer, retryTimer, job, wpc, wok,
                 connected, link, alerting, held, slot, request, bus, sleep,
                 lifecycle, reconnect, exitStatus>>

OnResumeWorkerComplete(fn, valid) ==
  /\ Running(fn)
  /\ suspended' = FALSE
  /\ queued' = << >>
  /\ IF valid THEN Replay(queued) ELSE UNCHANGED jobs
  /\ calls' = <<Call(IF valid THEN "resumeValid" ELSE "resumeInvalid")>> \o Tail(calls)
  /\ UNCHANGED <<work, batch, ready, loop, safetyTimer, retryTimer, job, wpc, wok,
                 connected, link, alerting, held, slot, request, bus, sleep,
                 lifecycle, reconnect, exitStatus>>

(* onResumeCompleted seeds the reconnect cycle after the pump has run.     *)
OnResumeCompleted(fn, valid) ==
  /\ Running(fn)
  /\ ApplyLifecycle(onResumeCompleted(lifecycle),
                    (IF valid THEN << >> ELSE <<Call("seedCycle")>>) \o Tail(calls))

OnSafetyTimerFired ==
  /\ Running("safetyTimerFired")
  /\ lifecycle' = onSafetyTimerFired(lifecycle).lc
  /\ safetyTimer' = Consumed(safetyTimer)
  /\ LockOp(onSafetyTimerFired(lifecycle).out.lock)
  /\ calls' = <<Call("pumpQueue")>> \o Tail(calls)
  /\ UNCHANGED supervisorRest
  /\ UNCHANGED <<reconnect, retryTimer, suspended, jobs>>

-----------------------------------------------------------------------------
reconnectRest == <<work, batch, ready, safetyTimer, queued, suspended, job, wpc, wok,
                   connected, link, alerting, held, slot, request, bus, sleep,
                   lifecycle>>

SeedCycle ==
  /\ Running("seedCycle")
  /\ Execute(seedCycle(reconnect), Tail(calls))
  /\ UNCHANGED reconnectRest

OnConnectionLost ==
  /\ Running("connectionLost")
  /\ Execute(onEvent(reconnect, "ConnectionLost"), Tail(calls))
  /\ UNCHANGED reconnectRest

OnReconnectResult(fn, event) ==
  /\ Running(fn)
  /\ Execute(onEvent(reconnect, event), Tail(calls))
  /\ UNCHANGED reconnectRest

(* The timer is consumed, then execute() disarms it when an attempt starts.*)
OnReconnectRetryTimerFired ==
  /\ Running("retryTimerFired")
  /\ LET r == onEvent(reconnect, "RetryTimerFired")
     IN  \/ /\ r.effect = "None"
            /\ reconnect' = r.rc
            /\ retryTimer' = Consumed(retryTimer)
            /\ calls' = Tail(calls)
            /\ UNCHANGED <<jobs, loop, exitStatus>>
         \/ /\ r.effect # "None"
            /\ Execute(r, Tail(calls))
  /\ UNCHANGED reconnectRest

SupervisorStep ==
  \/ OnSuspendRequested("suspendDBus", "DBus")
  \/ OnSuspendRequested("suspendWire", "Wire")
  \/ OnResumeRequested("resumeDBus", "DBus")
  \/ OnResumeRequested("resumeWire", "Wire")
  \/ PumpQueue
  \/ OnSuspendCompleted
  \/ OnResumeWorkerComplete("resumeWorkerValid", TRUE)
  \/ OnResumeWorkerComplete("resumeWorkerInvalid", FALSE)
  \/ OnResumeCompleted("resumeValid", TRUE)
  \/ OnResumeCompleted("resumeInvalid", FALSE)
  \/ OnSafetyTimerFired
  \/ SeedCycle
  \/ OnConnectionLost
  \/ OnReconnectResult("attemptSucceeded", "AttemptSucceeded")
  \/ OnReconnectResult("attemptFailed", "AttemptFailed")
  \/ OnReconnectRetryTimerFired

SupervisorTypeOK ==
  /\ lifecycle \in PowerLifecycleState
  /\ reconnect \in AdapterReconnectState
  /\ suspended \in BOOLEAN
  /\ queued \in Seq(Nat)
  /\ exitStatus \in {"success", "failure"}
=============================================================================
