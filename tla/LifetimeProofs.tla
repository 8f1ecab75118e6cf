--------------------------- MODULE LifetimeProofs ---------------------------
(***************************************************************************)
(* No subsystem is used after its destruction and the process leaves       *)
(* nothing behind, wherever start() fails and however run() ends: the      *)
(* first two properties of DaemonLifetime, for every run of the program.   *)
(*                                                                         *)
(* Both need an invariant that says of every place of the main thread      *)
(* which members are there (Constructed), what each thread, handler and    *)
(* outside effect keeps alive (Owned), and what the exit status can still  *)
(* become (Reported).  The destructors enter through one fact about the    *)
(* orders of destruction, UsersGoFirst.                                    *)
(***************************************************************************)
EXTENDS DaemonLifetime, TLAPS

Base == {"signals", "work", "loop", "timers", "config"}
Opened == {"worker", "lifecycle", "standbyPolicy", "hookExecutor"}
Built == Opened \cup {"hooks", "dispatcher", "supervisor"}

Starting == {"openAdapter", "build", "startWorker", "listen", "powerMonitor", "register",
             "attach", "watchdog"}
Stopping == {"detach", "stopWorker", "stopMonitor"}
Place == Starting \cup {"loop", "destruct"} \cup Stopping \cup {"reset", "members", "ended"}

(* The values of the variables that are not truth values.                  *)
LifetimeTypeOK ==
  /\ pc \in Place /\ options \subseteq Option
  /\ alive \subseteq Members /\ handlers \subseteq Members
  /\ adapter \in {"none", "open", "closed"}
  /\ worker \in {"none", "idle", "scan", "command", "exited"}
  /\ executor \in {"none", "running", "joined"}
  /\ path \in {"none", "bound", "left"}
  /\ exitStatus \in {"success", "failure"}
  /\ exit \in {"none", "success", "failure"}

(* stop() has work to do: start() has succeeded and stop() has not yet     *)
(* joined the worker.                                                      *)
Serving == pc \in {"loop", "detach", "stopWorker"} \/ (pc = "destruct" /\ started)

(* Which members are there at which place of start(), run() and stop().    *)
Constructed ==
  /\ pc \in Starting => Base \subseteq alive
  /\ pc = "build" => Opened \subseteq alive
  /\ pc \in Starting \ {"openAdapter", "build"} \/ Serving => Base \cup Built \subseteq alive
  /\ pc \in {"powerMonitor", "register", "attach", "watchdog"} => "socketServer" \in alive
  /\ pc = "loop" => started
  /\ started => pc \in {"loop", "destruct"}

(* What is kept alive, and by whom.                                        *)
Owned ==
  /\ adapter = "open" => {"work", "worker"} \subseteq alive
  /\ worker \in {"idle", "scan", "command"} => "worker" \in alive
  /\ worker = "command" => Serving
  /\ pc \in {"stopMonitor", "reset"} => worker \in {"none", "exited"}
  /\ executor = "running" => "hookExecutor" \in alive
  /\ path = "bound" => "socketServer" \in alive
  /\ held => "dbusMonitor" \in alive
  /\ monitorRef => {"supervisor", "dbusMonitor"} \subseteq alive
  /\ pc \in Starting \cup {"loop"} => handlers \subseteq alive
  /\ pc \in Starting \ {"watchdog"} => "dbusMonitor" \notin handlers
  /\ \A o \in alive : References(o) \subseteq alive

(* The process reports success only if start() succeeded and the loop      *)
(* ended without a failure, and then stop() has stopped the loop, or will. *)
(* A start() that failed never runs the loop, and only it leaves a file.   *)
Reported ==
  /\ pc \in Starting \cup {"loop"} => exit = "none"
  /\ exit = "success" => exitStatus = "success" /\ (stopLoop \/ started)
  /\ pc \in Stopping => stopLoop
  /\ pc \in Starting => ~stopLoop
  /\ path = "left" => ~stopLoop /\ ~started /\ pc \in {"destruct", "members", "ended"}
  /\ pc = "ended" => alive = {}

LifetimeInv == LifetimeTypeOK /\ Constructed /\ Owned /\ Reported

-----------------------------------------------------------------------------
(* The orders of destruction. *)

(* The members in the reverse of the order of declaration.                 *)
LEMMA DestructorOrderIs ==
  /\ DOMAIN DestructorOrder = 1 .. 14
  /\ DestructorOrder[1] = "config" /\ DestructorOrder[2] = "supervisor"
  /\ DestructorOrder[3] = "dbusMonitor" /\ DestructorOrder[4] = "socketServer"
  /\ DestructorOrder[5] = "dispatcher" /\ DestructorOrder[6] = "lifecycle"
  /\ DestructorOrder[7] = "worker" /\ DestructorOrder[8] = "hooks"
  /\ DestructorOrder[9] = "hookExecutor" /\ DestructorOrder[10] = "standbyPolicy"
  /\ DestructorOrder[11] = "timers" /\ DestructorOrder[12] = "loop"
  /\ DestructorOrder[13] = "work" /\ DestructorOrder[14] = "signals"
<1>1. Len(Declared) = 14 /\ DOMAIN Declared = 1 .. 14
  BY DEF Declared, Values, Subsystems
<1>2. /\ Declared[1] = "signals" /\ Declared[2] = "work" /\ Declared[3] = "loop"
      /\ Declared[4] = "timers" /\ Declared[5] = "standbyPolicy"
      /\ Declared[6] = "hookExecutor" /\ Declared[7] = "hooks" /\ Declared[8] = "worker"
      /\ Declared[9] = "lifecycle" /\ Declared[10] = "dispatcher"
      /\ Declared[11] = "socketServer" /\ Declared[12] = "dbusMonitor"
      /\ Declared[13] = "supervisor" /\ Declared[14] = "config"
  BY DEF Declared, Values, Subsystems
<1>3. \A i \in 1 .. 14 : DestructorOrder[i] = Declared[15 - i]
  BY <1>1 DEF DestructorOrder
<1> QED
  BY <1>1, <1>2, <1>3 DEF DestructorOrder


(* The users of a member: who has a reference to it.                       *)
Users(o) ==
  CASE o = "worker" -> {"supervisor", "dispatcher", "lifecycle"}
    [] o = "dispatcher" -> {"supervisor"}
    [] o = "lifecycle" -> {"supervisor", "dispatcher"}
    [] o = "dbusMonitor" -> {"supervisor"}
    [] o = "standbyPolicy" -> {"dispatcher"}
    [] o = "hookExecutor" -> {"hooks"}
    [] o = "timers" -> {"supervisor", "hooks"}
    [] o = "loop" -> {"socketServer", "dbusMonitor"}
    [] o = "work" -> {"worker", "dispatcher", "lifecycle"}
    [] OTHER -> {}

(* Each order destroys the users of a member before the member; the worker *)
(* counts as a user of the work queue, which libcec's threads post to.     *)
LEMMA UsersGoFirst ==
  ASSUME NEW o \in Members,
         NextIn(DestructorOrder, o) \/ NextIn(ResetOrder, o)
  PROVE  o \in alive /\ Users(o) \cap alive = {}
<1>1. CASE NextIn(DestructorOrder, o)
  <2>1. PICK i \in 1 .. 14 :
          /\ DestructorOrder[i] = o /\ o \in alive
          /\ \A j \in 1 .. i - 1 : DestructorOrder[j] \notin alive
    BY <1>1, DestructorOrderIs DEF NextIn
  <2>2. CASE o \in {"worker", "dispatcher", "lifecycle", "dbusMonitor"}
    BY <2>1, <2>2, DestructorOrderIs DEF Users
  <2>3. CASE o \in {"standbyPolicy", "hookExecutor"}
    BY <2>1, <2>3, DestructorOrderIs DEF Users
  <2>4. CASE o \in {"timers", "loop", "work"}
    BY <2>1, <2>4, DestructorOrderIs DEF Users
  <2> QED
    BY <2>1, <2>2, <2>3, <2>4 DEF Users
<1>2. CASE NextIn(ResetOrder, o)
  <2>1. /\ DOMAIN ResetOrder = 1 .. 9
        /\ ResetOrder[1] = "supervisor" /\ ResetOrder[2] = "dbusMonitor"
        /\ ResetOrder[3] = "socketServer" /\ ResetOrder[4] = "dispatcher"
        /\ ResetOrder[5] = "lifecycle" /\ ResetOrder[6] = "worker" /\ ResetOrder[7] = "hooks"
        /\ ResetOrder[8] = "hookExecutor" /\ ResetOrder[9] = "standbyPolicy"
    BY DEF ResetOrder
  <2>2. PICK i \in 1 .. 9 :
          /\ ResetOrder[i] = o /\ o \in alive
          /\ \A j \in 1 .. i - 1 : ResetOrder[j] \notin alive
    BY <1>2, <2>1 DEF NextIn
  <2> QED
    BY <2>1, <2>2 DEF Users
<1> QED
  BY <1>1, <1>2

(* References and Users say the same.                                      *)
LEMMA UsersRefer ==
  ASSUME NEW o, NEW u, o \in References(u)
  PROVE  u \in Users(o)
BY DEF References, Users

(* Whoever uses a member is gone when it is destroyed.                     *)
LEMMA ReferencesKept ==
  ASSUME NEW o, Users(o) \cap alive = {}, \A u \in alive : References(u) \subseteq alive,
         alive' = alive \ {o}, monitorRef' => monitorRef
  PROVE  \A u \in alive' : References(u)' \subseteq alive'
<1> SUFFICES ASSUME NEW u \in alive', NEW p \in References(u)'
             PROVE  p \in alive'
  OBVIOUS
<1>1. p \in References(u)
  BY DEF References
<1>2. u \in alive /\ p \in alive
  BY <1>1
<1> QED
  BY <1>1, <1>2, UsersRefer


(* The members, spelled out.                                               *)
LEMMA MembersAre ==
  Members = {"signals", "work", "loop", "timers", "config", "standbyPolicy", "hookExecutor",
             "hooks", "worker", "lifecycle", "dispatcher", "socketServer", "dbusMonitor",
             "supervisor"}
<1>1. DOMAIN Declared = 1 .. 14
  BY DEF Declared, Values, Subsystems
<1>2. /\ Declared[1] = "signals" /\ Declared[2] = "work" /\ Declared[3] = "loop"
      /\ Declared[4] = "timers" /\ Declared[5] = "standbyPolicy"
      /\ Declared[6] = "hookExecutor" /\ Declared[7] = "hooks" /\ Declared[8] = "worker"
      /\ Declared[9] = "lifecycle" /\ Declared[10] = "dispatcher"
      /\ Declared[11] = "socketServer" /\ Declared[12] = "dbusMonitor"
      /\ Declared[13] = "supervisor" /\ Declared[14] = "config"
  BY DEF Declared, Values, Subsystems
<1> QED
  BY <1>1, <1>2 DEF Members


-----------------------------------------------------------------------------
(* The steps. *)

(* A destructor, in stop() or at the end of the process.                   *)
LEMMA DestroyKeeps ==
  ASSUME LifetimeInv, NEW o \in Members, o \in alive, Users(o) \cap alive = {},
         pc \in {"reset", "members"}, Destroy(o),
         UNCHANGED <<pc, options, loopVars, started, exit>>
  PROVE  LifetimeInv'
<1> USE DEF LifetimeInv
<1>1. /\ ~Serving /\ ~Serving'
      /\ pc' = pc /\ started' = started /\ exit' = exit /\ exitStatus' = exitStatus
  BY DEF Serving, Constructed, loopVars
<1>2. /\ alive' = alive \/ alive' = alive \ {o}
      /\ o = "worker" /\ alive' # alive => worker \in {"none", "exited"} /\ adapter' = "none"
      /\ adapter' = adapter \/ adapter' = "none"
      /\ worker' = worker /\ (stopWorker => stopWorker')
  BY DEF Destroy, RequestStopWorker, JoinWorker, LifetimeTypeOK
<1>3. /\ o # "worker" => alive' = alive \ {o} /\ adapter' = adapter
      /\ executor' = IF o = "hookExecutor" /\ executor = "running" THEN "joined" ELSE executor
      /\ path' \in {path, "none"} /\ (o = "socketServer" => path' # "bound")
      /\ held' = (held /\ o # "dbusMonitor")
      /\ monitorRef' = (monitorRef /\ o # "supervisor")
      /\ handlers' \subseteq handlers
  BY DEF Destroy, Unlinked
<1>4. LifetimeTypeOK'
  BY <1>1, <1>2, <1>3 DEF LifetimeTypeOK, loopVars
<1>5. Constructed'
  BY <1>1 DEF Constructed, Starting
<1>6. Owned'
  <2>1. adapter' = "open" => {"work", "worker"} \subseteq alive'
    BY <1>2, <1>3 DEF Owned, Users
  <2>2. /\ worker' \in {"idle", "scan", "command"} => "worker" \in alive'
        /\ worker' = "command" => Serving'
        /\ pc' \in {"stopMonitor", "reset"} => worker' \in {"none", "exited"}
    BY <1>1, <1>2 DEF Owned
  <2>3. /\ executor' = "running" => "hookExecutor" \in alive'
        /\ path' = "bound" => "socketServer" \in alive'
        /\ held' => "dbusMonitor" \in alive'
    BY <1>2, <1>3 DEF Owned
  <2>4. monitorRef' => {"supervisor", "dbusMonitor"} \subseteq alive'
    BY <1>2, <1>3 DEF Owned, Users
  <2>5. \A u \in alive' : References(u)' \subseteq alive'
    <3>1. monitorRef' => monitorRef
      BY <1>3
    <3>2. CASE alive' = alive \ {o}
      BY <3>1, <3>2, ReferencesKept DEF Owned
    <3>3. CASE alive' = alive
      BY <3>1, <3>3 DEF Owned, References
    <3> QED
      BY <1>2, <3>2, <3>3
  <2> QED
    BY <1>1, <2>1, <2>2, <2>3, <2>4, <2>5 DEF Owned, Starting
<1>7. Reported'
  BY <1>1, <1>2, <1>3 DEF Reported, Starting, loopVars
<1> QED
  BY <1>4, <1>5, <1>6, <1>7

(* The steps of start(), each with its failure.                            *)
LEMMA StartKeeps ==
  ASSUME LifetimeInv,
         \/ OpenAdapter \/ BuildSubsystems \/ StartWorker \/ StartServer \/ SetupPowerMonitor
         \/ RegisterSources \/ AttachMonitor \/ StartWatchdog \/ WatchdogFails
  PROVE  LifetimeInv'
<1> USE DEF LifetimeInv
<1> USE DEF At, Fails, threadVars, loopVars, outsideVars, wiringVars, Base, Opened, Built,
            Starting, Stopping, Place, Serving
<1>1. {"worker", "lifecycle", "standbyPolicy", "hookExecutor", "hooks", "dispatcher",
       "supervisor", "socketServer", "dbusMonitor", "signals", "work", "timers"} \subseteq Members
  BY MembersAre
<1>2. CASE OpenAdapter
  <2>1. LifetimeTypeOK'
    BY <1>1, <1>2 DEF LifetimeTypeOK, OpenAdapter
  <2>2. Constructed'
    BY <1>2 DEF Constructed, OpenAdapter
  <2>3. Owned'
    BY <1>2 DEF Owned, Constructed, OpenAdapter, References
  <2>4. Reported'
    BY <1>2 DEF Reported, OpenAdapter
  <2> QED
    BY <2>1, <2>2, <2>3, <2>4
<1>3. CASE BuildSubsystems
  <2>1. LifetimeTypeOK'
    BY <1>1, <1>3 DEF LifetimeTypeOK, BuildSubsystems
  <2>2. Constructed'
    BY <1>3 DEF Constructed, BuildSubsystems
  <2>3. Owned'
    BY <1>3 DEF Owned, Constructed, BuildSubsystems, References
  <2>4. Reported'
    BY <1>3 DEF Reported, BuildSubsystems
  <2> QED
    BY <2>1, <2>2, <2>3, <2>4
<1>4. CASE StartWorker
  <2>1. LifetimeTypeOK'
    BY <1>4 DEF LifetimeTypeOK, StartWorker
  <2>2. Constructed'
    BY <1>4 DEF Constructed, StartWorker
  <2>3. Owned'
    BY <1>4 DEF Owned, Constructed, StartWorker, References
  <2>4. Reported'
    BY <1>4 DEF Reported, StartWorker
  <2> QED
    BY <2>1, <2>2, <2>3, <2>4
<1>5. CASE StartServer
  <2>1. LifetimeTypeOK'
    BY <1>1, <1>5 DEF LifetimeTypeOK, StartServer, PathsOfFailedStart
  <2>2. Constructed'
    BY <1>5 DEF Constructed, StartServer
  <2>3. Owned'
    BY <1>5 DEF Owned, Constructed, StartServer, PathsOfFailedStart, References
  <2>4. Reported'
    BY <1>5 DEF Reported, Constructed, StartServer, PathsOfFailedStart
  <2> QED
    BY <2>1, <2>2, <2>3, <2>4
<1>6. CASE SetupPowerMonitor
  <2>1. LifetimeTypeOK'
    BY <1>1, <1>6 DEF LifetimeTypeOK, SetupPowerMonitor
  <2>2. Constructed'
    BY <1>6 DEF Constructed, SetupPowerMonitor
  <2>3. Owned'
    BY <1>6 DEF Owned, Constructed, SetupPowerMonitor, References
  <2>4. Reported'
    BY <1>6 DEF Reported, SetupPowerMonitor
  <2> QED
    BY <2>1, <2>2, <2>3, <2>4
<1>7. CASE RegisterSources
  <2>1. LifetimeTypeOK'
    BY <1>1, <1>7 DEF LifetimeTypeOK, RegisterSources
  <2>2. Constructed'
    BY <1>7 DEF Constructed, RegisterSources
  <2>3. Owned'
    BY <1>7 DEF Owned, Constructed, RegisterSources, References
  <2>4. Reported'
    BY <1>7 DEF Reported, RegisterSources
  <2> QED
    BY <2>1, <2>2, <2>3, <2>4
<1>8. CASE AttachMonitor
  <2>1. LifetimeTypeOK'
    BY <1>1, <1>8 DEF LifetimeTypeOK, AttachMonitor
  <2>2. Constructed'
    BY <1>8 DEF Constructed, AttachMonitor
  <2>3. Owned'
    BY <1>8 DEF Owned, Constructed, AttachMonitor, References
  <2>4. Reported'
    BY <1>8 DEF Reported, AttachMonitor
  <2> QED
    BY <2>1, <2>2, <2>3, <2>4
<1>9. CASE StartWatchdog \/ WatchdogFails
  <2>1. LifetimeTypeOK'
    BY <1>1, <1>9 DEF LifetimeTypeOK, StartWatchdog, WatchdogFails
  <2>2. Constructed'
    BY <1>9 DEF Constructed, StartWatchdog, WatchdogFails
  <2>3. Owned'
    BY <1>9 DEF Owned, Constructed, StartWatchdog, WatchdogFails, References
  <2>4. Reported'
    BY <1>9 DEF Reported, StartWatchdog, WatchdogFails
  <2> QED
    BY <2>1, <2>2, <2>3, <2>4
<1> QED
  BY <1>2, <1>3, <1>4, <1>5, <1>6, <1>7, <1>8, <1>9

(* The loop's handlers, and how run() ends.                                *)
LEMMA RunKeeps ==
  ASSUME LifetimeInv, LoopDispatches
  PROVE  LifetimeInv'
<1> USE DEF LifetimeInv, Fails, threadVars, loopVars, outsideVars, wiringVars, Base, Built,
            Opened, Starting, Stopping, Place, Serving, runRest, Dispatching
<1>1. CASE SubmitJob
  BY <1>1 DEF SubmitJob, LifetimeTypeOK, Constructed, Owned, References, Reported
<1>2. CASE MoveLock
  BY <1>2 DEF MoveLock, LifetimeTypeOK, Constructed, Owned, References, Reported
<1>3. CASE onSignalReadable \/ requestUnrecoverableShutdown
  BY <1>3 DEF onSignalReadable, requestUnrecoverableShutdown, LifetimeTypeOK, Constructed,
              Owned, References, Reported
<1>4. CASE LoopStopped \/ PollerFails
  BY <1>4 DEF LoopStopped, PollerFails, RunReturns, LifetimeTypeOK, Constructed, Owned,
              References, Reported
<1>5. CASE HandlerThrows
  BY <1>5 DEF HandlerThrows, LifetimeTypeOK, Constructed, Owned, References, Reported
<1> QED
  BY <1>1, <1>2, <1>3, <1>4, <1>5 DEF LoopDispatches

(* The worker's thread.                                                    *)
LEMMA WorkerKeeps ==
  ASSUME LifetimeInv, FinishJob \/ WorkerExits
  PROVE  LifetimeInv'
BY DEF LifetimeInv, loopVars, outsideVars, wiringVars, Base, Built, Opened, Starting, Stopping,
       Place, Serving, FinishJob, WorkerExits, LifetimeTypeOK, Constructed, Owned, References,
       Reported

(* The steps of stop() before the resets.                                  *)
LEMMA StopKeeps ==
  ASSUME LifetimeInv, Stop \/ DetachAndClose \/ StopWorker \/ StopMonitor
  PROVE  LifetimeInv'
<1> USE DEF LifetimeInv, At, threadVars, loopVars, outsideVars, wiringVars, Base, Built,
            Opened, Starting, Stopping, Place, Serving
<1>1. CASE Stop
  <2>1. /\ ~started => (stopLoop' <=> stopLoop)
        /\ started => stopLoop'
        /\ ~started'
    BY <1>1 DEF Stop
  <2>2. LifetimeTypeOK' /\ Constructed' /\ Owned'
    BY <1>1 DEF Stop, LifetimeTypeOK, Constructed, Owned, References
  <2>3. Reported'
    BY <1>1, <2>1 DEF Stop, Constructed, Reported
  <2> QED
    BY <2>2, <2>3
<1>2. CASE DetachAndClose
  BY <1>2 DEF DetachAndClose, Unlinked, LifetimeTypeOK, Constructed, Owned, References, Reported
<1>3. CASE StopWorker
  BY <1>3 DEF StopWorker, RequestStopWorker, JoinWorker, LifetimeTypeOK, Constructed, Owned,
              References, Reported
<1>4. CASE StopMonitor
  BY <1>4 DEF StopMonitor, LifetimeTypeOK, Constructed, Owned, References, Reported
<1> QED
  BY <1>1, <1>2, <1>3, <1>4

(* The resets and the destructors.                                         *)
LEMMA DestructionKeeps ==
  ASSUME LifetimeInv, ResetSubsystem \/ DestroyMember \/ ProcessEnds
  PROVE  LifetimeInv'
<1>1. ASSUME NEW o \in Members, NextIn(ResetOrder, o), Destroy(o), pc = "reset",
             UNCHANGED <<pc, options, loopVars, started, exit>>
      PROVE  LifetimeInv'
  BY <1>1, UsersGoFirst, DestroyKeeps
<1>2. CASE DestroyMember
  BY <1>2, UsersGoFirst, DestroyKeeps DEF DestroyMember
<1>3. CASE pc = "reset" /\ pc' = "members"
           /\ UNCHANGED <<alive, threadVars, outsideVars, handlers, monitorRef, options,
                          loopVars, started, exit>>
  BY <1>3 DEF LifetimeInv, threadVars, loopVars, outsideVars, Base, Built, Opened, Starting,
              Stopping, Place, Serving, LifetimeTypeOK, Constructed, Owned, References, Reported
<1>4. CASE ProcessEnds
  BY <1>4 DEF ProcessEnds, LifetimeInv, threadVars, loopVars, outsideVars, wiringVars, Base,
              Built, Opened, Starting, Stopping, Place, Serving, LifetimeTypeOK, Constructed,
              Owned, References, Reported
<1>5. CASE ResetSubsystem
  BY <1>1, <1>3, <1>5 DEF ResetSubsystem
<1> QED
  BY <1>2, <1>4, <1>5

(* The invariant holds in every state of the program.                      *)
LEMMA LifetimeHolds == Spec => []LifetimeInv
<1>1. Init => LifetimeInv
  BY MembersAre DEF Init, LifetimeInv, LifetimeTypeOK, Constructed, Owned, Reported, Serving, Place,
         Starting, Stopping, Base, References
<1>2. LifetimeInv /\ [Next]_vars => LifetimeInv'
  <2> SUFFICES ASSUME LifetimeInv, [Next]_vars PROVE LifetimeInv'
    OBVIOUS
  <2>1. CASE UNCHANGED vars
    BY <2>1 DEF vars, LifetimeInv, threadVars, loopVars, outsideVars, wiringVars, LifetimeTypeOK,
                Constructed, Owned, Reported, Serving, References
  <2>2. CASE MainThread
    BY <2>2, StartKeeps, StopKeeps, DestructionKeeps DEF MainThread
  <2> QED
    BY <2>1, <2>2, RunKeeps, WorkerKeeps DEF Next
<1> QED
  BY <1>1, <1>2, PTL DEF Spec

-----------------------------------------------------------------------------
(* No thread, handler or reference of the daemon outlives the object it    *)
(* works on: AdapterWorker::stop joins before CECDaemon's members go, and  *)
(* where start() failed the order of declaration does it.                  *)
THEOREM NothingUsedAfterDestruction == Spec => []NoUseAfterDestruction
<1>1. LifetimeInv => NoUseAfterDestruction
  BY DEF LifetimeInv, Owned, Constructed, Serving, Built, Opened, Base, Starting,
         NoUseAfterDestruction
<1> QED
  BY <1>1, LifetimeHolds, PTL

(* When the process ends, the adapter is closed, its threads are joined,   *)
(* the lock is given back and the socket file unlinked, unless start()     *)
(* failed in listen(2); and success is reported only if start() succeeded  *)
(* and the adapter was not given up.                                       *)
THEOREM ProcessLeavesNothing == Spec => []NothingLeftBehind
<1>1. LifetimeInv => NothingLeftBehind
  BY DEF LifetimeInv, LifetimeTypeOK, Constructed, Owned, Reported, Serving, NothingLeftBehind
<1> QED
  BY <1>1, LifetimeHolds, PTL
=============================================================================
