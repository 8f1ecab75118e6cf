--------------------------- MODULE DaemonLifetime ---------------------------
(***************************************************************************)
(* From main() to the end of the process: CECDaemon::start with every way  *)
(* it can fail, run, stop, and the destructors.  The objects are the       *)
(* members of CECDaemon; what they do between start and stop is in the     *)
(* other modules and is here only what a teardown can collide with: a job  *)
(* of the worker, the threads of libcec and of the hook executor, the      *)
(* handlers of the loop, the lock and the socket file.                     *)
(***************************************************************************)
EXTENDS Naturals, Sequences

VARIABLES
  pc,          \* where the main thread is
  options,     \* what the configuration and the unit ask for
  alive,       \* members that are constructed, unique_ptrs that are set
  adapter,     \* libcec: "none", "open" or "closed"
  worker,      \* its thread: "none", "idle", "scan", "command" or "exited"
  stopWorker,  \* AdapterWorker::m_stopRequested
  executor,    \* the hook executor's thread: "none", "running" or "joined"
  path,        \* the socket file: "none", "bound" or "left" (nobody unlinks it)
  held,        \* is the inhibit lock held?
  handlers,    \* objects that have a handler in the loop
  monitorRef,  \* PowerSupervisor::m_dbusMonitor is set
  started,     \* m_started
  stopLoop,    \* EventLoop::m_stopRequested
  signalled,   \* a termination signal has been read
  exitStatus,  \* m_exitStatus
  exit         \* of the process: "none", "success" or "failure"

threadVars == <<adapter, worker, stopWorker, executor>>
loopVars == <<stopLoop, signalled, exitStatus>>
outsideVars == <<path, held>>
wiringVars == <<alive, handlers, monitorRef, started>>
vars == <<pc, options, threadVars, loopVars, outsideVars, wiringVars, exit>>

(* The members in the order they are declared.  The timers and sources of  *)
(* the main thread are values, the subsystems unique_ptrs.                 *)
Values == <<"signals", "work", "loop", "timers">>
Subsystems ==
  <<"standbyPolicy", "hookExecutor", "hooks", "worker", "lifecycle", "dispatcher",
    "socketServer", "dbusMonitor", "supervisor">>
Declared == Values \o Subsystems \o <<"config">>

Members == {Declared[i] : i \in DOMAIN Declared}

Option == {"scan", "powerMonitor", "watchdog"}

(* CECDaemon's constructor has run; the configuration is loaded.           *)
Init ==
  /\ pc = "openAdapter"
  /\ options \in SUBSET Option
  /\ alive = {"signals", "work", "loop", "timers", "config"}
  /\ adapter = "none" /\ worker = "none" /\ stopWorker = FALSE /\ executor = "none"
  /\ path = "none" /\ held = FALSE
  /\ handlers = {} /\ monitorRef = FALSE /\ started = FALSE
  /\ stopLoop = FALSE /\ signalled = FALSE
  /\ exitStatus = "success" /\ exit = "none"

-----------------------------------------------------------------------------
(* start().  A step that fails returns false, or throws what start()       *)
(* catches: runDaemon returns EXIT_FAILURE and the daemon is destroyed.    *)
(* The checks before the adapter is opened fail like the opening does.     *)
Fails ==
  /\ pc' = "destruct"
  /\ exit' = "failure"

At(place, next) == pc = place /\ pc' = next /\ UNCHANGED exit

(* An adapter that cannot be opened is destroyed with the local variable;  *)
(* one that can is the worker's.  libcec's threads run from here on.       *)
OpenAdapter ==
  /\ \/ /\ At("openAdapter", "build")
        /\ adapter' = "open"
        /\ alive' = alive \cup {"worker", "lifecycle", "standbyPolicy", "hookExecutor"}
     \/ /\ pc = "openAdapter"
        /\ Fails
        /\ UNCHANGED <<adapter, alive>>
  /\ UNCHANGED <<options, worker, stopWorker, executor, loopVars, outsideVars,
                 handlers, monitorRef, started>>

(* HookExecutor::start may find no thread to have, and then hooks,         *)
(* dispatcher and supervisor are never built.                              *)
BuildSubsystems ==
  /\ \/ /\ At("build", "startWorker")
        /\ executor' = "running"
        /\ alive' = alive \cup {"hooks", "dispatcher", "supervisor"}
     \/ /\ pc = "build"
        /\ Fails
        /\ UNCHANGED <<executor, alive>>
  /\ UNCHANGED <<options, adapter, worker, stopWorker, loopVars, outsideVars,
                 handlers, monitorRef, started>>

StartWorker ==
  /\ \/ At("startWorker", "listen") /\ worker' = IF "scan" \in options THEN "scan" ELSE "idle"
     \/ pc = "startWorker" /\ Fails /\ UNCHANGED worker
  /\ UNCHANGED <<options, adapter, stopWorker, executor, loopVars, outsideVars, wiringVars>>

(* SocketServer::start undoes through stop() what it did after             *)
(* UnixSocket::listen.  One that fails in listen(2) has made the file and  *)
(* returns no listener: start() does not unwind, and for want of a         *)
(* listener the destructor's stop() does nothing, so the file stays.       *)
PathsOfFailedStart == {"none", "left"}

StartServer ==
  /\ alive' = alive \cup {"socketServer"}
  /\ \/ /\ At("listen", "powerMonitor")
        /\ path' = "bound" /\ handlers' = handlers \cup {"socketServer"}
     \/ /\ pc = "listen"
        /\ Fails
        /\ path' \in PathsOfFailedStart /\ UNCHANGED handlers
  /\ UNCHANGED <<options, threadVars, loopVars, held, monitorRef, started>>

(* setupPowerMonitor; its failure is only logged, and the lock optional.   *)
SetupPowerMonitor ==
  /\ At("powerMonitor", "register")
  /\ \/ UNCHANGED <<alive, monitorRef, held>>
     \/ /\ "powerMonitor" \in options
        /\ alive' = alive \cup {"dbusMonitor"}
        /\ monitorRef' = TRUE
        /\ held' \in BOOLEAN
  /\ UNCHANGED <<options, threadVars, loopVars, path, handlers, started>>

(* The sources of the main thread are registered one after the other.      *)
RegisterSources ==
  /\ \/ /\ At("register", "attach")
        /\ handlers' = handlers \cup {"signals", "work", "supervisor", "hooks"}
     \/ /\ pc = "register"
        /\ Fails
        /\ \E done \in {{}, {"signals"}, {"signals", "work"}, {"signals", "work", "supervisor"}} :
             handlers' = handlers \cup done
  /\ UNCHANGED <<options, threadVars, loopVars, outsideVars, alive, monitorRef, started>>

(* A monitor that cannot be attached is dropped, the supervisor told first.*)
AttachMonitor ==
  /\ At("attach", "watchdog")
  /\ \/ /\ "dbusMonitor" \in alive
        /\ handlers' = handlers \cup {"dbusMonitor"}
        /\ UNCHANGED <<alive, held, monitorRef>>
     \/ /\ "dbusMonitor" \in alive
        /\ alive' = alive \ {"dbusMonitor"}
        /\ held' = FALSE /\ monitorRef' = FALSE
        /\ UNCHANGED handlers
     \/ /\ "dbusMonitor" \notin alive
        /\ UNCHANGED <<alive, held, monitorRef, handlers>>
  /\ UNCHANGED <<options, threadVars, loopVars, path, started>>

(* The last thing start() does is to post the closure that arms the        *)
(* standby policy (Observers).                                             *)
StartWatchdog ==
  /\ \/ "watchdog" \notin options /\ UNCHANGED handlers
     \/ "watchdog" \in options /\ handlers' = handlers \cup {"timers"}
  /\ At("watchdog", "loop")
  /\ started' = TRUE
  /\ UNCHANGED <<options, threadVars, loopVars, outsideVars, alive, monitorRef>>

(* The watchdog timer cannot be registered, or not be armed.               *)
WatchdogFails ==
  /\ pc = "watchdog" /\ "watchdog" \in options
  /\ Fails
  /\ handlers' \in {handlers, handlers \cup {"timers"}}
  /\ UNCHANGED <<options, threadVars, loopVars, outsideVars, alive, monitorRef, started>>

-----------------------------------------------------------------------------
(* run().                                                                  *)
runRest == <<options, adapter, stopWorker, executor, outsideVars, wiringVars>>

Dispatching == pc = "loop" /\ ~stopLoop

(* A command, or a suspend, resume or reconnect, goes to the worker.       *)
SubmitJob ==
  /\ Dispatching /\ worker = "idle"
  /\ worker' = "command"
  /\ UNCHANGED <<pc, runRest, loopVars, exit>>

(* The supervisor releases the lock or takes it.                           *)
MoveLock ==
  /\ Dispatching /\ monitorRef
  /\ held' = ~held
  /\ UNCHANGED <<pc, options, threadVars, loopVars, path, wiringVars, exit>>

onSignalReadable ==
  /\ Dispatching
  /\ stopLoop' = TRUE /\ signalled' = TRUE
  /\ UNCHANGED <<pc, runRest, worker, exitStatus, exit>>

requestUnrecoverableShutdown ==
  /\ Dispatching
  /\ stopLoop' = TRUE /\ exitStatus' = "failure"
  /\ UNCHANGED <<pc, runRest, worker, signalled, exit>>

(* The loop ends when it was asked to or when epoll_wait fails.  The       *)
(* status is read before the daemon is destroyed.                          *)
RunReturns ==
  /\ pc' = "destruct" /\ exit' = exitStatus
  /\ UNCHANGED <<runRest, worker, loopVars>>

LoopStopped == pc = "loop" /\ stopLoop /\ RunReturns

PollerFails == Dispatching /\ RunReturns

(* What a handler throws goes through run() to runDaemon.                  *)
HandlerThrows ==
  /\ Dispatching
  /\ Fails
  /\ UNCHANGED <<runRest, worker, loopVars>>

-----------------------------------------------------------------------------
(* The other threads.                                                      *)
FinishJob ==
  /\ worker \in {"scan", "command"}
  /\ worker' = "idle"
  /\ adapter' \in IF worker = "command" THEN {"open", "closed"} ELSE {adapter}
  /\ UNCHANGED <<pc, options, stopWorker, executor, loopVars, outsideVars, wiringVars, exit>>

(* The worker's last act is to close the adapter.                          *)
WorkerExits ==
  /\ worker = "idle" /\ stopWorker
  /\ worker' = "exited" /\ adapter' = "closed"
  /\ UNCHANGED <<pc, options, stopWorker, executor, loopVars, outsideVars, wiringVars, exit>>

-----------------------------------------------------------------------------
(* stop(), run by the destructor, does nothing unless start() succeeded.   *)
Stop ==
  /\ pc = "destruct"
  /\ pc' = IF started THEN "detach" ELSE "members"
  /\ started' = FALSE
  /\ stopLoop' = (stopLoop \/ started)
  /\ UNCHANGED <<options, threadVars, signalled, exitStatus, outsideVars, alive, handlers,
                 monitorRef, exit>>

(* The path after SocketServer::stop, which needs a listener to act.       *)
Unlinked == IF path = "bound" THEN "none" ELSE path

(* DBusMonitor::detach and SocketServer::stop; the gates of dispatcher and *)
(* lifecycle are shut.  The daemon made the file, so it may unlink it.     *)
DetachAndClose ==
  /\ At("detach", "stopWorker")
  /\ handlers' = handlers \ {"dbusMonitor", "socketServer"}
  /\ path' = Unlinked
  /\ UNCHANGED <<options, threadVars, loopVars, held, alive, monitorRef, started>>

(* Mutant: the worker is told to stop and not waited for.                  *)
JoinNotWaited ==
  /\ stopWorker' = TRUE
  /\ UNCHANGED <<worker, adapter>>

(* Mutant: the thread is joined without having been told.                  *)
JoinUntold ==
  /\ ~stopWorker /\ worker \notin {"none", "exited"}
  /\ UNCHANGED <<stopWorker, worker, adapter>>

(* AdapterWorker::stop: flag, join, and the adapter is destroyed (which    *)
(* closes it if there was no thread to do so).                             *)
RequestStopWorker ==
  /\ ~stopWorker /\ worker \notin {"none", "exited"}
  /\ stopWorker' = TRUE
  /\ UNCHANGED <<worker, adapter>>

JoinWorker ==
  /\ worker \in {"none", "exited"}
  /\ stopWorker' = TRUE /\ adapter' = "none"
  /\ UNCHANGED worker

StopWorker ==
  /\ \/ At("stopWorker", "stopWorker") /\ RequestStopWorker
     \/ At("stopWorker", "stopMonitor") /\ JoinWorker
  /\ UNCHANGED <<options, executor, loopVars, outsideVars, wiringVars>>

StopMonitor ==
  /\ At("stopMonitor", "reset")
  /\ held' = FALSE
  /\ UNCHANGED <<options, threadVars, loopVars, path, wiringVars>>

-----------------------------------------------------------------------------
(* The resets at the end of stop().                                        *)
ResetOrder ==
  <<"supervisor", "dbusMonitor", "socketServer", "dispatcher", "lifecycle", "worker",
    "hooks", "hookExecutor", "standbyPolicy">>

(* Mutant: the work queue is declared among the subsystems.                *)
DestructorOrderWorkFirst ==
  <<"config", "supervisor", "work", "dbusMonitor", "socketServer", "dispatcher", "lifecycle",
    "worker", "hooks", "hookExecutor", "standbyPolicy", "timers", "loop", "signals">>

(* Members are destroyed in the reverse of the order of declaration.       *)
DestructorOrder == [i \in DOMAIN Declared |-> Declared[Len(Declared) + 1 - i]]

(* The first of order that is still there is next.                         *)
NextIn(order, o) ==
  \E i \in DOMAIN order :
    /\ order[i] = o /\ o \in alive
    /\ \A j \in 1 .. i - 1 : order[j] \notin alive

(* What the destructor of a member does: the worker's and the executor's   *)
(* join, the server and the monitor leave the loop and clean up outside.   *)
Destroy(o) ==
  /\ \/ /\ o = "worker"
        /\ \/ RequestStopWorker /\ UNCHANGED alive
           \/ JoinWorker /\ alive' = alive \ {o}
     \/ o # "worker" /\ alive' = alive \ {o} /\ UNCHANGED <<stopWorker, adapter, worker>>
  /\ executor' = IF o = "hookExecutor" /\ executor = "running" THEN "joined" ELSE executor
  /\ path' = IF o = "socketServer" THEN Unlinked ELSE path
  /\ held' = (held /\ o # "dbusMonitor")
  /\ handlers' = IF o \in {"socketServer", "dbusMonitor"} THEN handlers \ {o}
                 ELSE IF o = "loop" THEN {} ELSE handlers
  /\ monitorRef' = (monitorRef /\ o # "supervisor")

ResetSubsystem ==
  /\ pc = "reset"
  /\ \/ \E o \in Members : NextIn(ResetOrder, o) /\ Destroy(o) /\ UNCHANGED pc
     \/ /\ \A i \in DOMAIN ResetOrder : ResetOrder[i] \notin alive
        /\ pc' = "members"
        /\ UNCHANGED <<alive, threadVars, outsideVars, handlers, monitorRef>>
  /\ UNCHANGED <<options, loopVars, started, exit>>

DestroyMember ==
  /\ pc = "members"
  /\ \E o \in Members : NextIn(DestructorOrder, o) /\ Destroy(o)
  /\ UNCHANGED <<pc, options, loopVars, started, exit>>

ProcessEnds ==
  /\ pc = "members" /\ alive = {}
  /\ pc' = "ended"
  /\ UNCHANGED <<options, threadVars, loopVars, outsideVars, wiringVars, exit>>

MainThread ==
  \/ OpenAdapter \/ BuildSubsystems \/ StartWorker \/ StartServer \/ SetupPowerMonitor
  \/ RegisterSources \/ AttachMonitor \/ StartWatchdog \/ WatchdogFails
  \/ Stop \/ DetachAndClose \/ StopWorker \/ StopMonitor
  \/ ResetSubsystem \/ DestroyMember \/ ProcessEnds

LoopDispatches ==
  \/ SubmitJob \/ MoveLock \/ onSignalReadable \/ requestUnrecoverableShutdown
  \/ LoopStopped \/ PollerFails \/ HandlerThrows

Next == MainThread \/ LoopDispatches \/ FinishJob \/ WorkerExits

Spec == Init /\ [][Next]_vars

(* The main thread goes on while it can, a loop that was asked to stop     *)
(* returns, and libcec's calls return.                                     *)
FairSpec ==
  /\ Spec
  /\ WF_vars(MainThread)
  /\ WF_vars(LoopStopped)
  /\ WF_vars(FinishJob) /\ WF_vars(WorkerExits)

-----------------------------------------------------------------------------
(* What an object holds references to, or calls in its destructor.         *)
References(o) ==
  CASE o = "supervisor" -> {"dispatcher", "lifecycle", "worker", "timers"}
                             \cup (IF monitorRef THEN {"dbusMonitor"} ELSE {})
    [] o = "dispatcher" -> {"worker", "work", "lifecycle", "standbyPolicy"}
    [] o = "lifecycle"  -> {"worker", "work"}
    [] o = "hooks"      -> {"hookExecutor", "timers"}
    [] o = "socketServer" -> {"loop"}
    [] o = "dbusMonitor" -> {"loop"}
    [] OTHER -> {}

(* "No thread ever observes a destroyed subsystem" (CECDaemon::stop), also *)
(* when start() fails half-way and only the order of declaration protects  *)
(* them: libcec's threads find the work queue, a job of the worker the     *)
(* dispatcher and lifecycle it was made by, the executor's thread its      *)
(* queue, a handler its object, and no reference dangles, not even that of *)
(* the supervisor to a monitor that could not be attached.                 *)
NoUseAfterDestruction ==
  /\ adapter = "open" => {"work", "worker"} \subseteq alive
  /\ worker \in {"idle", "scan"} => "worker" \in alive
  /\ worker = "command" => {"worker", "dispatcher", "lifecycle", "work"} \subseteq alive
  /\ executor = "running" => "hookExecutor" \in alive
  /\ pc = "loop" => handlers \subseteq alive
  /\ \A o \in alive : References(o) \subseteq alive

(* However far start() came and however the loop ended, the process leaves *)
(* a closed adapter, no thread and no lock behind, and no socket file but  *)
(* the one of a start that failed in listen(2), which the next start takes *)
(* over (SocketPath).  It reports success only if start() succeeded (stop()*)
(* stops the loop exactly then) and the adapter was not given up: a start  *)
(* that failed says so to the service manager.                             *)
NothingLeftBehind ==
  pc = "ended" =>
    /\ adapter \in {"none", "closed"} /\ worker \in {"none", "exited"}
    /\ executor # "running"
    /\ path # "bound" /\ ~held
    /\ path = "left" => ~stopLoop
    /\ exit = "success" => exitStatus = "success" /\ stopLoop

(* A failed start, a signal, an adapter given up and an exception all lead *)
(* to the end of the process, as long as libcec returns: no join waits for *)
(* a thread that nobody has told to stop.                                  *)
EndsEventually == (pc = "destruct" \/ stopLoop) ~> pc = "ended"

(* "EXIT_SUCCESS for a clean signal-driven stop" (CECDaemon::exitStatus;   *)
(* DaemonBootstrap::runDaemon says the same).                              *)
SuccessIsSignalDriven == exit = "success" => signalled
=============================================================================
