-------------------------- MODULE SleepOverOutage --------------------------
(***************************************************************************)
(* Sleep and wake-up across outages of the system bus: the connection of   *)
(* DBusMonitor, the arbiter PowerLifecycle with the part of                *)
(* PowerSupervisor and AdapterLifecycle that carries its answers out, and  *)
(* logind (external).  A PrepareForSleep sent while the daemon has no      *)
(* connection is lost, and so is one the daemon had not read when it gave  *)
(* the connection up.  The adapter is a job that ends or hangs, and the    *)
(* reconnect cycle of the adapter is left to CecDaemon.                    *)
(***************************************************************************)
EXTENDS BusConnection, PowerLifecycle

CONSTANTS
  MaxSleeps,       \* sleeps that logind announces
  MaxRequests,     \* suspends and resumes that clients ask for
  MaxTimeouts      \* how often the safety timer expires

ASSUME SleepAssumption ==
  MaxSleeps \in Nat /\ MaxRequests \in Nat /\ MaxTimeouts \in Nat

VARIABLES
  sleep,           \* logind: "awake", or "preparing" until it sends the next signal
  inbox,           \* what the connection has to deliver, in order
  work,            \* closures posted to the main thread
  calls,           \* what is left of the running handler
  lifecycle,       \* m_powerLifecycle
  suspended,       \* SuspendQueue::m_suspended
  job,             \* of the worker: "none", "suspend" or "resume"
  safety,          \* m_suspendSafetyTimer: "off", "armed" or "expired"
  sleeps,          \* sleeps still to come
  requests,        \* client requests still to come
  timeouts,        \* expirations of the safety timer still to come
  lost,            \* did logind's last signal miss the daemon?
  spoke            \* who asked last: "nobody", "logind" or "client"

logindVars == <<sleep, inbox, sleeps>>
arbiterVars == <<lifecycle, suspended, job, safety>>
budgetVars == <<requests, timeouts>>
historyVars == <<lost, spoke>>
otherVars == <<logindVars, work, calls, arbiterVars, budgetVars, historyVars>>
vars == <<busVars, otherVars>>

Init ==
  /\ BusInit
  /\ sleep = "awake" /\ inbox = << >> /\ sleeps = MaxSleeps
  /\ work = << >> /\ calls = << >>
  /\ lifecycle = PowerLifecycleInit /\ suspended = FALSE
  /\ job = "none" /\ safety = "off"
  /\ requests = MaxRequests /\ timeouts = MaxTimeouts
  /\ lost = FALSE /\ spoke = "nobody"

Signal == {"sleep", "wake"}

(* A handler looks at the connection once and posts nothing, so what the   *)
(* bus, logind, the clock and the worker do while one runs is as good as   *)
(* done before it or after it: they all take their steps in between.       *)
Between == calls = << >>

(* The loop dispatches the next event when the last handler has returned.  *)
Idle == Attached /\ Between

-----------------------------------------------------------------------------
(* Steps of the connection.  What was not read from one that is given up   *)
(* is gone.                                                                *)
Unread ==
  /\ inbox' = IF conn' = "none" THEN << >> ELSE inbox
  /\ lost' = (lost \/ \E i \in DOMAIN inbox : inbox[i] \in Signal /\ conn' = "none")

ConnectionStep ==
  /\ Between
  /\ attach \/ attachFails \/ detach \/ stop \/ onBusReadable \/ onReconnectTimer
            \/ suspendSystem
  /\ Unread
  /\ UNCHANGED <<sleep, sleeps, work, calls, arbiterVars, budgetVars, spoke>>

InhibitReply ==
  /\ Between
  /\ inbox # << >> /\ Head(inbox) = "reply"
  /\ onInhibitReply
  /\ inbox' = Tail(inbox)
  /\ UNCHANGED <<sleep, sleeps, work, calls, arbiterVars, budgetVars, historyVars>>

(* processBus also delivers what arrived before the peer went away.        *)
OnPrepareForSleep ==
  /\ Idle /\ registered
  /\ inbox # << >> /\ Head(inbox) \in Signal
  /\ inbox' = Tail(inbox)
  /\ work' = Append(work, IF Head(inbox) = "sleep" THEN "suspendDBus" ELSE "resumeDBus")
  /\ UNCHANGED <<busVars, sleep, sleeps, calls, arbiterVars, budgetVars, historyVars>>

BusFails == Between /\ BusBreaks /\ UNCHANGED otherVars

BusRestored == Between /\ BusReturns /\ UNCHANGED otherVars

RetryDue == Between /\ TimerExpires /\ UNCHANGED otherVars

-----------------------------------------------------------------------------
(* logind: a signal reaches the daemon over an open connection only, and   *)
(* an Inhibit request is refused while a sleep is prepared.                *)
Send(signal) ==
  /\ inbox' = IF conn = "open" THEN Append(inbox, signal) ELSE inbox
  /\ lost' = (conn # "open")
  /\ spoke' = "logind"

PrepareForSleep ==
  /\ Between /\ sleep = "awake" /\ sleeps > 0
  /\ sleep' = "preparing" /\ sleeps' = sleeps - 1
  /\ Send("sleep")
  /\ UNCHANGED <<busVars, work, calls, arbiterVars, budgetVars>>

WakeUp ==
  /\ Between /\ sleep = "preparing"
  /\ sleep' = "awake"
  /\ Send("wake")
  /\ UNCHANGED <<busVars, sleeps, work, calls, arbiterVars, budgetVars>>

AnswerInhibit ==
  /\ Between /\ LogindAnswers
  /\ reply' = IF sleep = "awake" THEN "granted" ELSE "refused"
  /\ inbox' = Append(inbox, "reply")
  /\ UNCHANGED <<sleep, sleeps, work, calls, arbiterVars, budgetVars, historyVars>>

-----------------------------------------------------------------------------
(* The supervisor.  takeInhibitLock does nothing without a bus, with a     *)
(* lock or with a request in flight.                                       *)
LockOp(op) ==
  \/ op = "Release" /\ releaseInhibitLock
  \/ op = "Release" /\ ~held /\ UNCHANGED busVars
  \/ op = "Take" /\ takeInhibitLock
  \/ op = "Take" /\ (conn = "none" \/ held \/ slot) /\ UNCHANGED busVars
  \/ op = "None" /\ UNCHANGED busVars

TimerOp(op) ==
  \/ op = "Arm" /\ safety' = "armed"
  \/ op = "Disarm" /\ safety' = "off"
  \/ op = "None" /\ UNCHANGED safety

(* Mutant: nothing to do, so nobody is told.                               *)
StartWorkNoCallback(w, rest) ==
  \/ w = "StartSuspend" /\ ~suspended /\ suspended' = TRUE /\ job' = "suspend" /\ calls' = rest
  \/ w = "StartResume" /\ suspended /\ job' = "resume" /\ calls' = rest /\ UNCHANGED suspended
  \/ /\ w = "None" \/ suspended = (w = "StartSuspend")
     /\ calls' = rest /\ UNCHANGED <<suspended, job>>

(* suspendAsync and resumeAsync complete at once when there is nothing to  *)
(* do.                                                                     *)
StartWork(w, rest) ==
  \/ /\ w = "StartSuspend" /\ suspended
     /\ calls' = <<"suspendCompleted">> \o rest
     /\ UNCHANGED <<suspended, job>>
  \/ /\ w = "StartSuspend" /\ ~suspended
     /\ suspended' = TRUE /\ job' = "suspend" /\ calls' = rest
  \/ /\ w = "StartResume" /\ ~suspended
     /\ calls' = <<"resumeCompleted">> \o rest
     /\ UNCHANGED <<suspended, job>>
  \/ /\ w = "StartResume" /\ suspended
     /\ job' = "resume" /\ calls' = rest
     /\ UNCHANGED suspended
  \/ w = "None" /\ calls' = rest /\ UNCHANGED <<suspended, job>>

(* The answer t of the arbiter is carried out, then rest runs.             *)
Carry(t, rest) ==
  /\ lifecycle' = t.lc
  /\ TimerOp(t.out.timer)
  /\ LockOp(t.out.lock)
  /\ StartWork(t.out.work, rest)

Runs(fn) == calls # << >> /\ Head(calls) = fn

Pumped == <<"pumpQueue">> \o Tail(calls)

RunCall ==
  /\ \/ Runs("suspendDBus") /\ Carry(onSuspendRequested(lifecycle, "DBus"), Pumped)
     \/ Runs("resumeDBus") /\ Carry(onResumeRequested(lifecycle, "DBus"), Pumped)
     \/ Runs("suspendWire") /\ Carry(onSuspendRequested(lifecycle, "Wire"), Pumped)
     \/ Runs("resumeWire") /\ Carry(onResumeRequested(lifecycle, "Wire"), Pumped)
     \/ Runs("pumpQueue") /\ Carry(pumpQueue(lifecycle), Tail(calls))
     \/ Runs("suspendCompleted") /\ Carry(onSuspendCompleted(lifecycle), Pumped)
     \/ Runs("safetyTimerFired") /\ Carry(onSafetyTimerFired(lifecycle), Pumped)
  /\ Unread
  /\ UNCHANGED <<sleep, sleeps, work, budgetVars, spoke>>

(* onResumeWorkerComplete opens the gate, then onResumeCompleted.          *)
ResumeCompleted ==
  /\ Runs("resumeCompleted")
  /\ lifecycle' = onResumeCompleted(lifecycle).lc
  /\ LockOp(onResumeCompleted(lifecycle).out.lock)
  /\ suspended' = FALSE /\ calls' = Pumped
  /\ Unread
  /\ UNCHANGED <<job, safety, sleep, sleeps, work, budgetVars, spoke>>

-----------------------------------------------------------------------------
RunClosure ==
  /\ Idle /\ work # << >>
  /\ calls' = <<Head(work)>> /\ work' = Tail(work)
  /\ UNCHANGED <<busVars, logindVars, arbiterVars, budgetVars, historyVars>>

(* A client's request is carried out where it is read.                     *)
WireRequest ==
  /\ Idle /\ requests > 0
  /\ requests' = requests - 1
  /\ \E fn \in {"suspendWire", "resumeWire"} : calls' = <<fn>>
  /\ spoke' = "client"
  /\ UNCHANGED <<busVars, logindVars, work, arbiterVars, timeouts, lost>>

SafetyTimerExpires ==
  /\ Between /\ safety = "armed" /\ timeouts > 0
  /\ safety' = "expired" /\ timeouts' = timeouts - 1
  /\ UNCHANGED <<busVars, logindVars, work, calls, lifecycle, suspended, job, requests, historyVars>>

SafetyTimerFired ==
  /\ Idle /\ safety = "expired"
  /\ safety' = "off" /\ calls' = <<"safetyTimerFired">>
  /\ UNCHANGED <<busVars, logindVars, work, lifecycle, suspended, job, budgetVars, historyVars>>

(* The worker has closed or reopened the adapter and posts the completion. *)
JobDone ==
  /\ Between /\ job # "none"
  /\ job' = "none"
  /\ work' = Append(work, IF job = "suspend" THEN "suspendCompleted" ELSE "resumeCompleted")
  /\ UNCHANGED <<busVars, logindVars, calls, lifecycle, suspended, safety, budgetVars, historyVars>>

MainThread ==
  \/ InhibitReply \/ OnPrepareForSleep \/ RunCall \/ ResumeCompleted \/ RunClosure
  \/ SafetyTimerFired

Next ==
  \/ MainThread \/ ConnectionStep \/ WireRequest \/ JobDone
  \/ SafetyTimerExpires \/ BusFails \/ BusRestored \/ RetryDue
  \/ PrepareForSleep \/ WakeUp \/ AnswerInhibit

Spec == Init /\ [][Next]_vars

(* The loop dispatches what is ready, timers expire, every outage ends,    *)
(* and logind answers.                                                     *)
FairSpec ==
  /\ Spec
  /\ WF_vars(MainThread)
  /\ WF_vars(ConnectionStep /\ (onBusReadable \/ onReconnectTimer))
  /\ WF_vars(BusRestored) /\ WF_vars(RetryDue)
  /\ WF_vars(AnswerInhibit)

-----------------------------------------------------------------------------
(* Nothing is on its way, and the connection has been dealt with.          *)
Settled ==
  /\ Idle /\ conn = "open"
  /\ inbox = << >> /\ reply = "none" /\ work = << >> /\ job = "none"

(* Whatever was lost before, and whatever clients asked before: once a     *)
(* signal of logind has been read and nobody has spoken since, the adapter *)
(* is released exactly if the machine prepares to sleep.  An arbiter that  *)
(* coalesces a request across a lost signal would stay in the wrong state. *)
FollowsLogind ==
  Settled /\ ~lost /\ spoke = "logind" => suspended = (sleep = "preparing")

(* A sleep whose signal was read is not delayed by a lock once the suspend *)
(* has ended, also when reconnectBus has taken the lock again in the       *)
(* middle of a suspend; only a safety timer that has fired can spoil it.   *)
LockFreeAfterOutage ==
  Settled /\ ~lost /\ sleep = "preparing" /\ sleeps < MaxSleeps /\ timeouts = MaxTimeouts
    => ~held

(* After a wake-up that was read, or a reconnect, the lock is held again,  *)
(* whatever the outage did to the Inhibit call in flight, unless a call of *)
(* the monitor's own has failed.                                           *)
LockHeldAfterOutage ==
  Settled /\ ~lost /\ sleep = "awake" /\ sleeps < MaxSleeps /\ faults = MaxFaults
    => held

(* The lock follows the sleeps of logind again as soon as one of its       *)
(* signals is read on the new connection (reconnectBus, takeInhibitLock).  *)
LockAfterOutage == LockFreeAfterOutage /\ LockHeldAfterOutage

(* "The release obligation can be discharged by either the completion path *)
(* or the safety timer, whichever fires first" (power_lifecycle.h): a      *)
(* suspend that has ended leaves no lock to the sleep it was for.          *)
ReleaseDischarged ==
  Settled /\ ~lost /\ sleep = "preparing" => ~held
=============================================================================
