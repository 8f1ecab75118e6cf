------------------------------ MODULE CecDaemon ------------------------------
(***************************************************************************)
(* The running daemon: the parts of PowerSupervisor, AdapterWorker,        *)
(* InhibitLock and MainLoop together, the commands that clients send       *)
(* (CECDaemon::handleCommand, CommandDispatcher) and the ordered shutdown  *)
(* (CECDaemon::stop).                                                      *)
(***************************************************************************)
EXTENDS PowerSupervisor, FiniteSets

CONSTANTS
  Budgets,         \* how often each input of the environment may happen
  QueueCommands    \* m_queueCommandsDuringSuspend

Input == {"sleep", "suspend", "resume", "lost", "command", "restart"}

ASSUME BudgetAssumption ==
  /\ Budgets \subseteq [Input -> Nat]
  /\ QueueCommands \in BOOLEAN

VARIABLES
  spent,     \* how often each input has happened: within one of Budgets
  awaiting   \* ids of the commands whose client has no response yet

vars == <<work, batch, ready, calls, loop, safetyTimer, retryTimer,
          jobs, job, wpc, wok, connected, link, alerting,
          held, slot, request, bus, sleep,
          lifecycle, reconnect, suspended, queued, exitStatus,
          spent, awaiting>>

supervisorVars == <<lifecycle, reconnect, suspended, queued, exitStatus>>
clientVars == <<spent, awaiting>>

Init ==
  /\ LoopInit
  /\ WorkerInit
  /\ LockInit
  /\ SupervisorInit
  /\ spent = [input \in Input |-> 0]
  /\ awaiting = {}

Spend(input) ==
  /\ spent' = [spent EXCEPT ![input] = @ + 1]
  /\ \E b \in Budgets : \A i \in Input : spent'[i] <= b[i]

-----------------------------------------------------------------------------
(* handleCommand: CMD_SUSPEND and CMD_RESUME go to the supervisor, inline. *)
WireRequest(input, fn) ==
  /\ AtDispatchPoint
  /\ Spend(input)
  /\ calls' = <<Call(fn)>>
  /\ UNCHANGED <<work, batch, ready, loop, safetyTimer, retryTimer, awaiting>>
  /\ UNCHANGED <<workerVars, adapterVars, busVars, supervisorVars>>

WireSuspend == WireRequest("suspend", "suspendWire")

WireResume == WireRequest("resume", "resumeWire")

(* Commands are numbered in the order the daemon reads them.               *)
CommandId == 1 + spent["command"] + spent["restart"]

(* CommandDispatcher::dispatch for an AdapterCall row of the table.        *)
DispatchToWorker(input, kind) ==
  /\ AtDispatchPoint
  /\ ~suspended
  /\ Spend(input)
  /\ Submit(kind, CommandId)
  /\ awaiting' = awaiting \cup {CommandId}
  /\ UNCHANGED <<job, wpc, wok>>
  /\ UNCHANGED <<loopVars, adapterVars, busVars, supervisorVars>>

DispatchCommand == DispatchToWorker("command", "command")

RestartAdapter == DispatchToWorker("restart", "restart")

(* handleSuspendedInline: queueable commands are accepted for later, all   *)
(* others refused; the answer is immediate.                                *)
EnqueueCommand ==
  /\ AtDispatchPoint
  /\ suspended
  /\ QueueCommands
  /\ Spend("command")
  /\ queued' = Append(queued, CommandId)
  /\ UNCHANGED <<awaiting, lifecycle, reconnect, suspended, exitStatus>>
  /\ UNCHANGED <<loopVars, workerVars, adapterVars, busVars>>

RefuseCommand ==
  /\ AtDispatchPoint
  /\ suspended
  /\ \/ ~QueueCommands /\ Spend("command")
     \/ Spend("restart")
  /\ UNCHANGED <<awaiting, loopVars, workerVars, adapterVars, busVars, supervisorVars>>

(* The closure submitAdapterWork posts: the response goes to the client.   *)
Reply ==
  /\ Running("reply")
  /\ awaiting' = awaiting \ {Head(calls).id}
  /\ calls' = Tail(calls)
  /\ UNCHANGED <<work, batch, ready, loop, safetyTimer, retryTimer, spent>>
  /\ UNCHANGED <<workerVars, adapterVars, busVars, supervisorVars>>

-----------------------------------------------------------------------------
(* onSignalReadable for SIGTERM or SIGINT. *)
Terminate ==
  /\ AtDispatchPoint
  /\ loop' = "stopRequested"
  /\ UNCHANGED <<work, batch, ready, calls, safetyTimer, retryTimer>>
  /\ UNCHANGED <<workerVars, adapterVars, busVars, supervisorVars, clientVars>>

(* CECDaemon::stop up to the join of the worker: the bus is detached, the  *)
(* sessions are closed, the queue is discarded.                            *)
Stop ==
  /\ loop = "stopRequested"
  /\ calls = << >>
  /\ batch = 0
  /\ loop' = "stopping"
  /\ ready' = {}
  /\ queued' = << >>
  /\ awaiting' = {}
  /\ UNCHANGED <<work, batch, calls, safetyTimer, retryTimer, spent>>
  /\ UNCHANGED <<lifecycle, reconnect, suspended, exitStatus>>
  /\ UNCHANGED <<workerVars, adapterVars, busVars>>

(* The worker has been joined: libcec is destroyed, the lock released.     *)
Stopped ==
  /\ loop = "stopping"
  /\ wpc = "exited"
  /\ ~alerting
  /\ loop' = "stopped"
  /\ link' = "none"
  /\ held' = FALSE
  /\ slot' = FALSE
  /\ UNCHANGED <<work, batch, ready, calls, safetyTimer, retryTimer>>
  /\ UNCHANGED <<workerVars, connected, alerting, request, bus, sleep>>
  /\ UNCHANGED <<supervisorVars, clientVars>>

Done == loop = "stopped" /\ UNCHANGED vars

-----------------------------------------------------------------------------
(* The steps of the parts, with the rest of the daemon left alone.         *)
LoopStep ==
  /\ MainLoopStep
  /\ UNCHANGED <<workerVars, adapterVars, busVars, supervisorVars, clientVars>>

TimerStep ==
  /\ SafetyTimerExpires \/ RetryTimerExpires
  /\ UNCHANGED <<workerVars, adapterVars, busVars, supervisorVars, clientVars>>

HandlerStep == SupervisorStep /\ UNCHANGED clientVars

workerRest == <<batch, ready, calls, loop, safetyTimer, retryTimer,
                held, slot, request, bus, sleep,
                lifecycle, reconnect, suspended, queued, exitStatus, awaiting>>

AdapterStep == WorkerStep /\ UNCHANGED <<workerRest, spent>>

ConnectionLost == AlertClearsFlag /\ Spend("lost") /\ UNCHANGED workerRest

AlertStep == AlertPosts /\ UNCHANGED <<workerRest, spent>>

BusStep ==
  /\ OnPrepareForSleep \/ OnInhibitReply
  /\ UNCHANGED <<workerVars, adapterVars, supervisorVars, clientVars>>

logindRest == <<loopVars, workerVars, adapterVars, supervisorVars, awaiting>>

LogindSleeps == loop # "stopped" /\ PrepareForSleep /\ Spend("sleep") /\ UNCHANGED logindRest

LogindWakes == loop # "stopped" /\ WakeUp /\ UNCHANGED <<logindRest, spent>>

LogindAnswers == loop # "stopped" /\ AnswerInhibit /\ UNCHANGED <<logindRest, spent>>

MainStep ==
  \/ LoopStep \/ HandlerStep \/ BusStep \/ Reply \/ Stop

ClientStep ==
  \/ WireSuspend \/ WireResume \/ DispatchCommand \/ RestartAdapter
  \/ EnqueueCommand \/ RefuseCommand

Next ==
  \/ MainStep
  \/ TimerStep
  \/ AdapterStep
  \/ ConnectionLost \/ AlertStep
  \/ LogindSleeps \/ LogindWakes \/ LogindAnswers
  \/ ClientStep
  \/ Terminate \/ Stopped \/ Done

Spec == Init /\ [][Next]_vars

-----------------------------------------------------------------------------
(* Fairness.  The main thread is scheduled and armed timers expire; that   *)
(* much holds even when a libcec call never returns.                       *)
FairSpec == Spec /\ WF_vars(MainStep) /\ WF_vars(TimerStep)

(* What some promises rest on besides: every libcec call returns and       *)
(* logind answers.                                                         *)
LibcecReturns ==
  /\ WF_vars(AdapterStep)
  /\ WF_vars(AlertStep)
  /\ WF_vars(LogindAnswers)
  /\ WF_vars(Stopped)
-----------------------------------------------------------------------------
(* What is under way. *)

(* Jobs the worker has not finished, in the order they run.                *)
Pipeline == (IF wpc \in {"idle", "exited"} THEN << >> ELSE <<job>>) \o jobs

CountJobs(kind) ==
  Cardinality({i \in DOMAIN Pipeline : Pipeline[i].kind = kind})
CountCalls(fns) ==
  Cardinality({i \in DOMAIN work : work[i].fn \in fns})
    + Cardinality({i \in DOMAIN calls : calls[i].fn \in fns})

Live == loop \in {"running", "stopRequested"}

(* Nothing is on its way to the main thread or to the worker.              *)
Quiescent ==
  /\ loop = "running"
  /\ calls = << >> /\ work = << >> /\ Pipeline = << >>
  /\ ~alerting
  /\ bus = << >> /\ ~request

-----------------------------------------------------------------------------
(* Properties *)

InputTypeOK == spent \in [Input -> Nat]

(* Every variable keeps its type.                                          *)
TypeOK ==
  /\ LoopTypeOK
  /\ WorkerTypeOK
  /\ LockTypeOK
  /\ SupervisorTypeOK
  /\ InputTypeOK
  /\ awaiting \subseteq Nat

(* PowerLifecycle ignores a completion outside its phase and leaves a      *)
(* phase only on a completion, so a lost completion would block every      *)
(* later suspend and resume and a second one would end a cycle that is     *)
(* still running.  While the loop runs, a suspend (resume) that has not    *)
(* ended has exactly one completion on its way, as a job, a posted closure *)
(* or a call, and there is none otherwise.                                 *)
OneCompletionPerCycle ==
  Live =>
    /\ CountJobs("suspend") + CountCalls({"suspendCompleted"})
         = (IF lifecycle.phase = "Suspending" THEN 1 ELSE 0)
    /\ CountJobs("resume")
         + CountCalls({"resumeWorkerValid", "resumeWorkerInvalid",
                       "resumeValid", "resumeInvalid"})
         = (IF lifecycle.phase = "Resuming" THEN 1 ELSE 0)

(* WaitingForRetry is "the retry timer is armed for the next attempt"      *)
(* (AdapterReconnect::State): the decision type and the kernel timer that  *)
(* PowerSupervisor::execute drives for it never disagree.                  *)
WaitingIffRetryArmed ==
  reconnect.state = "WaitingForRetry" <=> retryTimer # "off"

(* The safety timer runs, and is remembered to have fired, during a        *)
(* suspend only: it never outlives the cycle it guards.                    *)
SafetyTimerOnlyInSuspend ==
  safetyTimer # "off" \/ lifecycle.safetyFiredFirst
    => lifecycle.phase = "Suspending"

(* onSafetyTimerFired does not look at what consume() returned.  An event  *)
(* taken from epoll before the timer was disarmed still never finds a      *)
(* suspend whose own deadline is ahead, so the lock is not given up early. *)
StaleSafetyEventHarmless ==
  Running("safetyTimerFired") /\ lifecycle.phase = "Suspending"
    => safetyTimer # "armed" \/ lifecycle.safetyFiredFirst

(* An Attempting cycle leaves that state only when a result arrives: one   *)
(* is always on its way, or the adapter would never be recovered.          *)
AttemptInFlight ==
  Live /\ reconnect.state = "Attempting" =>
    \/ job.kind = "reconnect"
    \/ \E i \in DOMAIN jobs : jobs[i].kind = "reconnect"
    \/ \E i \in DOMAIN work : work[i].fn \in {"attemptSucceeded", "attemptFailed"}
    \/ \E i \in DOMAIN calls : calls[i].fn \in {"attemptSucceeded", "attemptFailed"}

(* The number of the next attempt is zero outside a cycle and otherwise    *)
(* one more than the delays drawn: the log's "attempt n/total" is right    *)
(* and a cycle makes at most totalAttempts attempts.                       *)
AttemptNumbering ==
  /\ reconnect.nextAttemptNumber =
       (IF reconnect.state = "Idle" THEN 0 ELSE reconnect.drawn + 1)
  /\ reconnect.state = "Idle" => reconnect.drawn = 0

(* Once a suspend has ended and until a resume begins the adapter is       *)
(* closed and nothing in the worker's queue can open it or use it: the     *)
(* machine may sleep at any moment of that time.                           *)
SleepReady ==
  Live /\ suspended /\ lifecycle.phase = "Idle" =>
    ~connected /\ link # "open" /\ Pipeline = << >>

(* Between the job that closes the adapter and the one that reopens it no  *)
(* other job can run, whatever clients, alerts and retries do meanwhile.   *)
NothingBetweenCloseAndReopen ==
  \A i, j \in DOMAIN Pipeline :
    i < j /\ Pipeline[i].kind = "suspend" => Pipeline[j].kind = "resume"

(* Commands reach the adapter in the order the daemon read them, also when *)
(* some are queued over a suspend and replayed.                            *)
CommandsInOrder ==
  LET IsCommand(j) == j.kind \in {"command", "restart", "replay"}
  IN  /\ \A i, j \in DOMAIN Pipeline :
           i < j /\ IsCommand(Pipeline[i]) /\ IsCommand(Pipeline[j])
             => Pipeline[i].id < Pipeline[j].id
      /\ \A i \in DOMAIN Pipeline : \A j \in DOMAIN queued :
           IsCommand(Pipeline[i]) => Pipeline[i].id < queued[j]
      /\ \A i, j \in DOMAIN queued : i < j => queued[i] < queued[j]

(* "Every branch is responsible for invoking reply exactly once": a client *)
(* that waits for a response has exactly one job or closure that will give *)
(* it, and nobody else is answered.                                        *)
OneReplyPerCommand ==
  Live =>
    \A id \in 1 .. CommandId :
      Cardinality({i \in DOMAIN Pipeline :
                     Pipeline[i].id = id /\ Pipeline[i].kind \in {"command", "restart"}})
        + Cardinality({i \in DOMAIN work : work[i].fn = "reply" /\ work[i].id = id})
        + Cardinality({i \in DOMAIN calls : calls[i].fn = "reply" /\ calls[i].id = id})
      = (IF id \in awaiting THEN 1 ELSE 0)

(* A suspend request of logind that is still to be acted upon.             *)
SleepRequestPending ==
  \/ \E i \in DOMAIN bus : bus[i] = "sleep"
  \/ CountCalls({"suspendDBus"}) > 0
  \/ \E i \in DOMAIN lifecycle.pending :
       lifecycle.pending[i] = [kind |-> "Suspend", source |-> "DBus"]

(* While logind prepares a sleep, the daemon holds the delay lock only as  *)
(* long as the suspend it announced is under way: no order of completions, *)
(* safety timer, late Inhibit replies and client requests keeps the lock   *)
(* past it.                                                                *)
LockFreeOncePrepared ==
  loop = "running" /\ sleep = "preparing" /\ lifecycle.phase = "Idle" /\ ~SleepRequestPending
    => ~held

(* When everything has come to rest with the machine awake after a sleep,  *)
(* the daemon holds the lock again: the next sleep will wait for it.       *)
LockHeldWhenSettled ==
  Quiescent /\ lifecycle.phase = "Idle" /\ lifecycle.pending = << >>
  /\ sleep = "awake" /\ spent["sleep"] > 0
    => held

-----------------------------------------------------------------------------
(* Liveness *)

(* A suspend or resume that a client asked for is under way.               *)
ClientCycle == lifecycle.phase # "Idle" /\ lifecycle.phaseSource = "Wire"

(* A sleep that logind has announced is not held up for ever by this       *)
(* daemon's lock, even if the worker never takes another step: if Close()  *)
(* is stuck, the suspend-safety timer gives the lock back, also behind     *)
(* requests of clients, wake-ups and late Inhibit replies.  The one        *)
(* exception is a cycle of a client that itself never ends, for which      *)
(* PowerLifecycle leaves the lock alone: the sleep waits behind it.        *)
SleepIsNotHeldUp ==
  \/ <>[]ClientCycle
  \/ (sleep = "preparing" /\ SleepRequestPending)
       ~> (~held \/ sleep = "awake" \/ loop # "running")

(* Every suspend and every resume ends if libcec's calls do.               *)
CyclesEnd ==
  LibcecReturns => (lifecycle.phase # "Idle" ~> (lifecycle.phase = "Idle" \/ loop # "running"))

(* A reconnect cycle ends: it succeeds, is cancelled, or stops the daemon. *)
ReconnectEnds ==
  LibcecReturns => (reconnect.state # "Idle" ~> (reconnect.state = "Idle" \/ loop # "running"))

(* Every client that waits is answered, or its session closed by stop().   *)
ClientsAreAnswered == LibcecReturns => (awaiting # {} ~> awaiting = {})
-----------------------------------------------------------------------------
(* Statements of the repository that some behaviours of the code refute.   *)

(* "The in-flight attempt already addresses the same condition"            *)
(* (AdapterReconnect::onEvent), and stale results "are absorbed as no-ops" *)
(* (adapter_reconnect.h): when all is quiet, an adapter that is down for   *)
(* another reason than a suspend is being recovered.                       *)
LossIsRecovered ==
  Quiescent /\ lifecycle.phase = "Idle" /\ ~suspended /\ ~connected
    => reconnect.state # "Idle"

(* "A stray alert arriving between suspend() and kernel sleep [...] drop   *)
(* it and wait for resume to reopen" (AdapterLifecycle::reconnectAsync): a *)
(* suspended daemon does not give up on its adapter.                       *)
NoAbandonWhileSuspended ==
  [][exitStatus' = "failure" /\ exitStatus # "failure" => ~suspended]_vars

(* "SystemSuspend on the reconnect FSM cancels any pending reconnect retry *)
(* - including a post-resume seed waiting on its delay"                    *)
(* (PowerLifecycle::makeSuspendEntry): with no connection lost, a suspend  *)
(* under way has no reconnect cycle beside it.                             *)
NoSeedDuringSuspend ==
  lifecycle.phase = "Suspending" /\ calls = << >> => reconnect.state = "Idle"

(* "EAGAIN or partial read - caller treats as no expiry"                   *)
(* (TimerSource::consume): a retry event taken from epoll before the timer *)
(* was disarmed starts nothing.                                            *)
StaleRetryIgnored ==
  [][Running("retryTimerFired") /\ retryTimer # "expired" => UNCHANGED reconnect]_vars

(* "A stuck libcec Close() here is caught by the daemon's suspend-safety   *)
(* timer (inhibit lock is released at 10s)"                                *)
(* (LibCecAdapter::closeConnection): no announced sleep is held up for     *)
(* ever, by whomever the suspend that is stuck was asked for.              *)
StuckCloseIsCaught ==
  (sleep = "preparing" /\ SleepRequestPending)
    ~> (~held \/ sleep = "awake" \/ loop # "running")
=============================================================================
