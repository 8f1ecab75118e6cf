# A TLA+ model of the cec-control daemon

`cec-control` drives a CEC adapter through libcec. Its daemon closes the adapter
before the machine sleeps, reopens it on wake-up, recovers it when the link is
lost, and runs the commands that clients send over a Unix socket. This directory
holds a model of that daemon, the TLC runs that check it and the TLAPS proofs
about it. Paths below are relative to the repository, `src/` in `PROJECT.json`.

## 1. The system

### Threads

| Thread | Runs | Touches |
|---|---|---|
| main | `EventLoop::run`: fd handlers, timers, sd-bus, closures of `MainThreadWork` | all state but the adapter |
| adapter worker | `AdapterWorker::run`: jobs in FIFO order, every libcec call after start | the adapter |
| libcec alert / command threads | `cecAlertCallback`, observations | the atomic `m_connected`; posts closures |
| hook executor | `HookExecutor::run` | its own queue |

Threads communicate through three things: the worker's job queue,
`MainThreadWork` (closures posted to the main thread) and the atomic
`LibCecAdapter::m_connected`.

### Components

| Component | State | Operations | Interacts with | What is hard |
|---|---|---|---|---|
| `PowerLifecycle` | phase, source, safetyFiredFirst, deque of requests | request, completion, safety timer, pump | answers an `Output` to the supervisor | two sources, coalescing, completions outside their phase |
| `AdapterReconnect`, `BackoffSchedule` | Idle / Attempting / WaitingForRetry, attempt counters | `onEvent`, `seedCycle` | answers an `Effect` | stale results and timer events, counters off by one from each other |
| `PowerSupervisor` | the two above, two timers | handlers of every power event | everything else | order of effects, synchronous callbacks inside them, arm failures |
| `AdapterLifecycle`, `SuspendQueue` | suspended flag, queued commands | suspend / resume / reconnect async, enqueue | worker, work queue | two-phase operations, early returns that complete at once |
| `AdapterWorker` | job queue, stop flag | submit, run, stop | adapter | pending jobs at stop, a job that never returns |
| `LibCecAdapter` | `m_connected`, libcec handle | open, close, reopen, bus operations | libcec | the flag is written by two threads |
| `EventLoop`, `MainThreadWork`, `TimerSource` | handlers, closures, timerfds | poll, drain, post, arm, consume | all | events of a batch are stale when dispatched |
| `DBusMonitor` | inhibit fd, in-flight request, bus state | take / release lock, signals, reconnect | logind | asynchronous Inhibit, lost signals, bus outage |
| `CommandDispatcher`, dispatch table | - | dispatch, replay | worker, lifecycle | one reply per command over two threads |
| `CECDaemon` | subsystems, exit status | start, run, stop, handleCommand | all | a start that fails half-way, teardown order |
| `SocketServer` | sessions, pending sends | accept, read, send, idle sweep | loop, dispatcher | replies to closed sessions, fd reuse, limit of 10 |
| `StandbyPolicy` | enabled, armed | apply, observe, arm | D-Bus | observations before the first drain |
| `CecHookSubsystem`, `HookExecutor` | pending / last fired source, power cache; job queue | observe, debounce; submit, reap | debounce timer | debounce against stale expirations |
| `CommandThrottler`, operations | next slot, failure count | execute with retry | adapter | back-off, retry of what was done |
| command registry, messages, client | - | parse, one request, one response, exit status | daemon | a response after the timeout, bytes the parser never wrote |
| configuration, bootstrap, logging | - | parse once | - | nothing concurrent |

What makes them correct: a suspend or resume always ends, once; the inhibit lock
is given back in time and taken again; the machine never sleeps on an open
adapter; a lost link is recovered or the daemon exits so that it is restarted;
commands keep their order and get one answer; what reaches the television is what
the user typed, and a reported success is one; a start that fails and a stop leave
nothing behind. `PROJECT.json`
lists, under `hazards`, where in the code each of these could go wrong.

## 2. The modules

```
PowerLifecycle   AdapterReconnect        MainLoop
     |   (decision types)   |           /        \
     |                      |   AdapterWorker   InhibitLock
     +----------+-----------+----------+-------------+
                          PowerSupervisor
                                |
                            CecDaemon -- CecDaemonProofs
                                |
                           MCCecDaemon  (*.cfg)

BusConnection   PowerLifecycle       Commands   CommandThrottler
       \          /                       \          /
      SleepOverOutage -- BusProofs       CommandPath -- MCCommandPath
                                              |
MCSocketServer                           CommandProofs
     |
SocketServer -- SocketServerProofs
SocketPath   -- SocketPathProofs
Observers    -- ObserverProofs        MainThreadWork ==> WorkQueue
DaemonLifetime -- LifetimeProofs            |
                                        WorkProofs
```

(`==>`: implements.) `CecDaemon` composes the power path. The other groups stand
beside it, each with its own picture of the main loop, only as detailed as its
questions need: `SleepOverOutage` is the arbiter on a bus that comes and goes,
`CommandPath` one command from the shell to libcec, `DaemonLifetime` the process
around all of it.

* **PowerLifecycle**, **AdapterReconnect**: the two pure decision types as
  operators from a state record to a next state and an output. Operators have
  the names of the methods.
* **MainLoop**: `work` is `m_pending`, `batch` the closures left of the batch a
  `drain` has swapped out, `ready` the events of the last `epoll_wait` not yet
  dispatched, `calls` what is left of the running handler. Because `ready` is a
  snapshot, an event can be dispatched after an earlier handler has disarmed its
  timer. Events of one batch are taken in any order, as epoll promises none.
* **AdapterWorker**: the worker, the connection part of `LibCecAdapter`, libcec
  and its alert thread. A job is cut into steps wherever the alert thread can run
  between two accesses to `m_connected` or wherever a libcec call may take time.
  libcec is external: `Open` succeeds or fails, `Close` and `CECDestroy` return
  once the alert callback is not running, an open link can be lost at any time.
* **InhibitLock**: the delay inhibitor of `DBusMonitor` and logind. logind is
  external: it announces sleep and wake-up in turn, answers an Inhibit request
  later, refuses it while a sleep is being prepared, and delivers in order.
* **PowerSupervisor**: every handler of `PowerSupervisor`, with
  `AdapterLifecycle`. One action is one call on the main thread with all its
  effects; a callback made synchronously (the early returns of `suspendAsync`,
  `resumeAsync`, `reconnectAsync`) and the pump that follows are put on `calls`
  in the order the C++ stack would run them.
* **CecDaemon**: the composition, the commands of clients, signals and the
  ordered shutdown; the properties.
* **MCCecDaemon**: budgets of inputs for TLC.
* **CecDaemonProofs**: the theorems about it, in four parts that rest on one
  another: types and timers, attempts, what is on its way, the inhibitor lock.

* **SocketServer**: listener, sessions, the epoll registrations of `EventLoop` by
  descriptor, deferred replies and the idle sweep, with clients that pipeline,
  stall and leave. Sessions have numbers, handlers have descriptors, and the
  kernel gives out the lowest free descriptor, so an event can be dispatched
  after its descriptor changed hands. `answered` is the history of what each
  client was sent. The handler of a command is a choice: it replies before it
  returns or keeps the sink. `MCSocketServer` adds the symmetry of clients,
  **SocketServerProofs** has the theorems.
* **SocketPath**: the socket file. `UnixSocket::listen` and `SocketServer::stop`
  are chains of system calls on a path that several daemons share, one step each;
  daemons crash anywhere, and starts and stops may overlap (systemd excludes it for
  one unit, nothing does for a daemon started by hand). The history variable `met`
  holds the daemons whose start or stop met another's, and those that started
  beside one of them.
* **WorkQueue**, **MainThreadWork**: what the work queue promises, and how the
  mutex and the eventfd implement it. `post` writes the eventfd after it has
  released the mutex and `drain` clears it before it takes the mutex; the four are
  separate steps. The mapping takes the abstract queue to be what is left of the
  batch followed by `m_pending`.
* **Observers**: from a frame on the bus to `StandbyPolicy`, `CecHookSubsystem`,
  `HookExecutor` and the reaping of scripts. `fired` is the history of hooks with
  the values their scripts were told. **ObserverProofs** has the theorems.
* **BusConnection**: `DBusMonitor` over bus outages: attach, disconnect, schedule
  of reconnects, heartbeat, and what becomes of the lock and of a call in flight.
* **SleepOverOutage**: `BusConnection` with the arbiter's operators
  (`PowerLifecycle`), the part of the supervisor that carries its answers out, and
  logind. A signal sent while there is no connection is lost, and so is one not
  read when the connection is given up; `lost` and `spoke` are histories of it.
  `InhibitLock` has the same lock on a bus that stays up, with the worker, the
  reconnect cycle and the shutdown around it, in `CecDaemon`; here the adapter is
  a job that ends or hangs. All its steps on the connection are steps of
  `BusConnection`, which is a theorem.
* **DaemonLifetime**: `runDaemon`, `CECDaemon::start` step by step with its
  failures, `run`, `stop` and the destructors. `alive` holds the members that
  exist; `Declared` is their order in `cec_daemon.h`, and destruction runs through
  it backwards, which is all that protects a daemon whose `start()` failed, since
  `stop()` then returns at once. What happens between start and stop is reduced to
  what a teardown can collide with: a job, a thread, a handler, the lock, the
  socket. `path` is the file as this process leaves it: `SocketServer::stop` unlinks
  what is bound (a daemon is taken to be allowed to unlink what it made), and a
  file made by a start that then failed in `listen(2)` stays. **LifetimeProofs** has
  its theorems.
* **Commands**: what a command is, as operators: the parsers of the command
  registry, `serialize` and `deserialize`, the dispatch table, and for each
  operation the first libcec call and the next one after each result. That
  `validateDispatchTable` succeeds is an assumption TLC evaluates.
* **CommandThrottler**: slot reservation, failure count and interval, in units of
  `kFailureStepMs`. Only jobs of the worker call it, so a load and the
  compare-and-swap after it are one step.
* **CommandPath**: client processes (parse, send, wait, give up, exit status),
  `handleCommand`, the dispatcher with every row of the table, the suspend queue
  and its replay, `executeOnAdapter`, retries and calls. `calls` is the history of
  what was called for each client, what libcec answered and whether it reached the
  bus. The power pipeline is reduced to the gate it puts before commands.
  `MCCommandPath` lists the lines typed and the hand-made messages.
  **CommandProofs** has the theorems, for all lines and messages.

Operators whose comment begins with *Mutant* are wrong versions of the definition
that follows them; `PROJECT.json` names them as evidence that a property can fail.
They take no part in the specification.

### What is abstracted

Delays (a timer is off, armed or expired and may expire at any time once armed;
only the throttler counts time), log output and wording, and the difference
between a failed `CECInitialise`, a failed detection and a failed `Open`. In
`CecDaemon` and `SocketServer` a command is its number and one step of the worker
that ends in a reply; what it contains and does is in `CommandPath`.
`ConnectionLostDelay` is whether the delay given to `AdapterReconnect` is
positive; it is in this program. `sd_bus_call_method_async` and `dup` do not fail
in `InhibitLock`; they do in `BusConnection`. libcec's `Open` and `Close` fail or
hang and do not throw; its bus calls may throw in `CommandPath`.

libcec's answer to a bus call is a choice of three: acknowledged, lost, and
delivered with the acknowledgement lost.

## 3. The runs

The environment of `CecDaemon` is bounded by `Budgets`, a set of functions that say
how often logind sleeps, clients send suspend, resume, a command, a restart, and
the link is lost; inputs may happen as long as some budget of the set allows it.
Nothing else is bounded; all queues follow from it. The other modules name their
bounds `Max...`.

| Run | Inputs | Checks |
|---|---|---|
| `daemon` | one of: 2 sleeps, 1 suspend, 1 resume; 1 sleep, 2 losses, 1 resume; 1 suspend, 1 resume, 3 commands, 1 restart. Arm failures | `TypeOK`, `OneCompletionPerCycle`, `SafetyTimerOnlyInSuspend`, `StaleSafetyEventHarmless`, `LockFreeOncePrepared`, `LockHeldWhenSettled`, `WaitingIffRetryArmed`, `AttemptInFlight`, `SleepReady`, `CommandsInOrder`, `OneReplyPerCommand`, `NothingBetweenCloseAndReopen` |
| `liveness` | one of: 2 sleeps, 1 suspend; 1 sleep, 1 suspend, 1 resume; 1 sleep, 1 loss, 1 command (431 633 states) | `SleepIsNotHeldUp`, `CyclesEnd`, `ReconnectEnds`, `ClientsAreAnswered` |
| `sleep_over_outage` | 2 sleeps, 1 outage, 1 failing call, 1 client request, 1 safety timeout, schedule of 2 (775 598 states) | `BusInv`, `FollowsLogind`, `LockAfterOutage`, `BusRecovers` |
| `daemon_lifetime` | every failure of start, every end of the loop (3 656 states) | `NoUseAfterDestruction`, `NothingLeftBehind`, `EndsEventually` |
| `command_path` | 2 clients, 11 command lines, 7 hand-made messages, 2 faults, 1 suspend, at most 0 or 2 attempts (5.2 million states) | `OnlyWhatWasSaid`, `SuccessIsTrue`, `OnceUnlessMisreported`, `SlotsSpaced` |
| `sessions` | 2 clients, 2 requests each, valid or not, 2 places, 1 failing call | `AnswersInOrder`, `SessionInv` (types, one driver per session, no stale registration) |
| `sessions_live` | 2 clients, 2 requests, 1 place; clients read | `RequestsAnswered`, `IdleSessionsSwept` |
| `socket_path` | 3 daemons, any overlap, any crash (7 879 states) | `ServingIsReachable` |
| `main_thread_work` | 2 threads, 3 posts each | `NoLostWakeup`, `RunsInOrder`, `RunsEventually` |
| `observers` | 3 observations of 2 addresses, 1 fault | `ScriptsSeeAChain`, `HookInv` (types, zombies signalled, start-up standbys absorbed), `CommitsOnlySettled`, `SettledSourceReported` |
| `loss_absorbed` | 2 losses | refutes `LossIsRecovered` |
| `abandon_suspended` | 1 suspend, 1 loss | refutes `NoAbandonWhileSuspended` |

What the three compositions show:

* `sleep_over_outage`: the arbiter coalesces a request with the last one it
  accepted, so a lost `PrepareForSleep(false)` makes the next `(true)` look
  redundant, and a client may have moved it meanwhile. Whatever was lost, the
  first signal that is read puts adapter and lock where logind wants them
  (`FollowsLogind`, `LockAfterOutage`), and a signal is always read again after an
  outage (`BusRecovers`). The exception of `LockAfterOutage`, a safety timer that
  fired, is described below.
* `daemon_lifetime`: the comment in `CECDaemon::stop` that no thread observes a
  destroyed subsystem holds in a start that fails at any step too, by the order of
  declaration alone, and no join waits for a thread that was not told to stop. One
  thing may stay: the socket file of a start that failed in `listen(2)`. Nobody
  serves it, so the next start takes it over, as `socket_path` shows.
* `command_path`: what is called on libcec is what was typed, but for the device of
  volume and source commands (below); exit status 0 means an acknowledged call or
  an accepted command; a command that is not idempotent
  repeats its effect only where libcec reported a failure that was none, once per
  report. `maxRetryAttempts = 0`, which the configuration allows, refuses every
  command without a call.

Why these bounds: two sleeps are the least for which a cycle's leftovers (timer
event, Inhibit reply, coalesced request) can meet the next cycle, and a client's
suspend and resume supply the other source between them. Two losses let one
arrive during the recovery from the other. `ScheduleSize = 1` gives a cycle a
first attempt, a scheduled one and an abandonment; the two runs that end in a
violation use 3. Three commands allow one before, one during and one after a
suspend. Termination by a signal is possible in every state of every run of the
daemon.

With two clients a descriptor and a place are used again, also while a reply to the
closed session is on its way; two requests let one wait in the socket while the
other is answered; `MaxUnread = 1` makes the second response meet EAGAIN. The
one place of `sessions_live` makes the second client meet the limit. Three daemons
are two that race and one that served before or starts after them. Two posting threads with the main thread give every order of
the four steps of post and drain, three posts let a post meet each of them twice.
Three observations are a burst of two and one more after it.
In `sleep_over_outage` two sleeps give a signal that is lost and one that is read
after it, in either order of sleep and wake-up; an outage that lasts runs through
the schedule into the heartbeat, where it stays as long as it likes, so that a
second one would only repeat the first. In `command_path` the lines take every way
through parser and dispatcher, two faults are a failed attempt and one more thing
that goes wrong, and two clients let one command meet the other in the worker, in
the suspend queue and in the throttler. Nothing bounds `DaemonLifetime`.

`CHECK_DEADLOCK FALSE` stands where the system may rest: clients that are done,
a daemon that has stopped, closures that are all run, the last outage over.

### Fairness

`FairSpec` of `CecDaemon` assumes weak fairness of the main thread's steps and of
the expiry of armed timers only: the main thread never blocks on libcec, and a
timerfd always fires. It allows every libcec call to hang, and `SleepIsNotHeldUp`
is checked under it. `CyclesEnd`, `ReconnectEnds` and `ClientsAreAnswered` have
`LibcecReturns` as their antecedent: weak fairness of the worker (`Open` has a
timeout), of the alert callback, of logind's answers and of the last step of
`stop`. No run assumes that logind wakes up, that a client sends anything, or that
`Open` ever succeeds.

The other modules assume the same of their main loop and timers. `sessions_live`
adds that a client reads its response (`SocketClient::sendCommand` waits in
`recv`). `sleep_over_outage` assumes that an outage ends and that logind answers,
and `BusRecovers` excuses a monitor whose own calls failed. `daemon_lifetime`
assumes that libcec's calls return, as `stop` joins the worker; `EndsEventually`
says nothing of a loop that nobody asks to stop. `main_thread_work` assumes that a
thread that has pushed goes on to write the eventfd.

### Statements the code does not keep

Some comments of the repository say more than the code does. Two of them are runs
that end in a violation:

* `loss_absorbed`: a loss absorbed because "the in-flight attempt already
  addresses the same condition" (`adapter_reconnect.cpp:98`) is not recovered
  when that attempt had already reopened the link.
* `abandon_suspended`: an alert processed while suspended is not dropped
  (`adapter_lifecycle.cpp:126`): its attempts fail at once and after the last one
  the daemon exits with failure while it should wait for the resume.

The others are stated as definitions, each at the end of its module, and are
refuted by putting the definition into a configuration like the one named.

* A stale result is not always "absorbed as a no-op"
  (`adapter_reconnect.h:34`): a client's resume while not suspended seeds a new
  cycle, which the old result can end.
  (`LossIsRecovered`, 1 loss and 1 resume.)
* A suspend does not cancel a post-resume seed
  (`power_lifecycle.cpp:57`) when it was queued behind the failed resume, since
  the seed comes after the pump.
  (Invariant `NoSeedDuringSuspend`, 2 sleeps.)
* The supervisor does not treat an empty `consume()` as "no
  expiry" (`timer_source.cpp:82`), so a stale event starts an attempt early. The
  hook subsystem, with the same kind of timer, does look at the result.
  (`StaleRetryIgnored`, 1 loss and 1 resume.)
* A stuck `Close()` is not "caught by the safety timer"
  (`libcec_adapter.cpp:193`) in a suspend asked by a client: the lock is not
  released for that source and a sleep queued behind it keeps waiting.
  `SleepIsNotHeldUp` says that this is the only exception: its first disjunct is a
  client's cycle that never ends, and the run has such cycles.
  (`StuckCloseIsCaught`, `Liveness.cfg`.)
* A queued response and `requestInFlight` are both set after
  an EAGAIN (`socket_server.cpp:32` says at most one is). The code relies on both:
  the sweep skips the session because of it.
  (`AtMostOneTruthy`, `Sessions.cfg`.)
* A hang-up does not always mean that "the peer is gone"
  (`socket_server.cpp:191`). A session closed by the sweep or by a failed reply and
  a connection accepted on its descriptor within one batch leave the old hang-up
  to the new session. It takes a peer that leaves at that moment; the client of
  the new session sees its connection closed and can retry.
  (`HangupMeansPeerGone`, `Sessions.cfg`.)
* A session whose peer never reads its response is not idle for
  the sweep, although "idle" is said to be about the peer
  (`socket_server.cpp:333`).
  (`StalledPeerSwept` under `FairSpec`, `SessionsLive.cfg`.)
* A daemon that starts while another is between `bind` and
  `listen`, or between its own probe and unlink, unlinks a socket that is about to
  serve, against "don't unlink something we can't verify is stale"
  (`unix_socket.cpp:121`). `socket_path` shows whom this harms: only daemons that
  were starting or stopping at once, or started while one of those ran.
  (`UnlinksOnlyTheDead`, `SocketPath.cfg`.)
* The DEVICE_ID of a volume or source command is checked, sent and ignored. The
  help says "volume up 5  Increase volume on device 5" (`help_printer.cpp:121`), the
  README "Change inputs on TVs and receivers" (`README.md:9`, and DEVICE_ID in lines
  104 and 106); `setVolume` and `setMute` only log the device
  (`operations.cpp:97-112`) and `setSource` is not given it
  (`command_dispatch.cpp:64`). So `volume up 0` turns up the audio system, `source 5
  2` switches the television, and both are reported as done. `Meant` is what the
  help promises; the properties use `Doable`, which differs from it in that device
  alone (`AddressedDevice`).
  (`DeviceAsTyped`, `CommandPath.cfg`.)
* A standby frame that arrives after `start()` has posted the
  arming closure and before the first drain is not absorbed, though
  `standby_policy.h:37` says everything up to the first drain is.
  (`PreDrainAbsorbed`, `Observers.cfg`.)
* The lock that a suspend has to release is not always released "by either the
  completion path or the safety timer" (`power_lifecycle.h:42`). The timer fires in a suspend
  that hangs, the wake-up is lost in an outage, and `reconnectBus` takes a new
  lock. The next sleep is coalesced with the suspend that still runs, whose
  completion leaves the release to the timer that has already fired; that sleep
  waits for logind's own limit.
  (`ReleaseDischarged`, `SleepOverOutage.cfg` with no faults and no requests.)
* `EXIT_SUCCESS` is not only for "a clean signal-driven stop" (`exitStatus` in
  `cec_daemon.h`): the loop also returns when `epoll_wait` fails
  (`event_loop.cpp:51`) and nothing records it, so the service manager sees a
  success.
  (`SuccessIsSignalDriven`, `DaemonLifetime.cfg`.)

Two comments were found wrong while reading and need no run. A command that fails
all of its N attempts is not "a single adaptive-throttle hit rather than N"
(`command_throttler.cpp:51`): the count goes up N times and down once. And the
current attempt of the bus schedule is not "zero outside an active Reconnecting
cycle" (`dbus_monitor.h:273`): a monitor that was disabled in a cycle keeps it.

## 4. The proofs

The theorems about the daemon hold for every `ScheduleSize`, `Budgets`, `ConnectionLostDelay`,
`ArmMayFail` and `QueueCommands` within the named assumptions
(`ScheduleAssumption`, `ArmAssumption`, `BudgetAssumption`), which say only that
they are naturals, Booleans and functions to naturals; those about the bus for
every schedule and every bound (`BusAssumption`, `SleepAssumption`); those about
sessions and observers for any clients, addresses, places and bounds
(`SocketServerAssumption`, `ObserversAssumption`).

* `TypeCorrect`: `Spec => []TypeOK`. `TypeOK` is inductive as it stands: it
  includes that `batch` never exceeds `work` and that the worker holds a job exactly
  when it is inside one. The proof goes component by component
  (`LoopKeepsTypes`, `WorkerKeepsTypes`, ...), with lemmas on what the decision
  types return.
* `RetryTimerCorrect`: `WaitingIffRetryArmed` and `AttemptNumbering`. The
  argument: whatever the cycle answers fits the state it goes to
  (`ReconnectAnswers`: ScheduleRetry goes to WaitingForRetry, no effect never
  enters or leaves it), `execute` moves the timer with the answer also when arming
  fails (`ExecuteDrivesTimer`), and a suspend or resume cancels
  (`NotifyDrivesTimer`).
* `SafetyTimerCorrect`: `SafetyTimerOnlyInSuspend`.
* `AttemptNeverLost`: `AttemptInFlight`. The inductive invariant adds to `TypeOK`
  that an attempt is in one of four places (the running job, the job queue, the
  posted closures, the calls of the handler), as a predicate on sequences with its
  lemmas (`Occurs...`), and that no handler is left running once the loop has
  ended, so that the invariant need not speak of a dead main thread.
* `PathReachable` (SocketPathProofs): for any set of daemons and any overlap; the
  only assumption is that no daemon is called "none" or "left" (`NamesDiffer`).
  `PathInv` says that two daemons in transit have met, and of one that met nobody
  what the others can be doing: up to its probe they are idle or serve undisturbed,
  past it they are idle, and while it serves none of them gets past its own probe.
* `WakeupKept` (WorkProofs): `NoLostWakeup` for any number of threads and posts.
  It is inductive with the types: a push is followed by a write, and a clear by a
  swap.
* `DrainImplementsQueue` (WorkProofs): `Spec => RunsInOrder`. Every step is a Post,
  a Run or a stutter of `WorkQueue`; a swap stutters because nothing is left of
  the previous batch then (`BatchDone`).

* `BusAlwaysClean` (BusProofs): `BusSpec => []BusInv`. `BusInv` says that a
  connection which is given up leaves no registration, lock or call behind, and
  that while there is none the next attempt is scheduled. It is not inductive:
  `attach` registers what `initialize` prepared, so the invariant adds `Fresh`,
  that before it the monitor is operational with an unused schedule and a
  connection that at worst has broken since. `DisconnectKeeps` does the main part once for every place that
  gives the bus up.
* `SleepImplementsBus`, `SleepFindsBusClean` (BusProofs): every step of
  `SleepOverOutage` is a step of `BusConnection` or leaves the connection alone
  (`NextIsBusStep`, and `LockOpIsBusStep` for the arbiter's answers), so that
  `BusInv` holds in the composition without a second induction.

* `CyclesEndOnce` (CecDaemonProofs): `OneCompletionPerCycle`, a statement about
  cardinalities, as a count of tokens. `Tokens(J, F)` is the number of jobs in `J`
  in the worker's pipeline, of closures in `F` and of calls in `F`; `TokensMoved`
  says, once, that a handler replaces its own token by those of the calls and jobs
  it leaves, so that every handler needs only its list of them. The invariant
  `CycleInv` says that there is one token exactly in the phase it belongs to.
* `NothingComesBetween`, `SuspendedIsClosed` (CecDaemonProofs): they rest on `CycleInv`
  and on `GateInv`, that the gate before the worker is shut before the job that
  closes the adapter is submitted and opened before the resume is reported.
  `SleepReady` is not inductive: `ClosedInv` extends it over the suspend that is
  under way, and `FlagInv` says where in a job of the worker `m_connected` may
  disagree with libcec, which the alert thread writes too.
* `ClientsAnsweredOnce`, `CommandsKeepOrder` (CecDaemonProofs): the same count for every
  command number, of commands to come too (`ReplyInv`), and the line of pipeline,
  suspend queue and commands still to be read as one increasing sequence
  (`LineInv`), which a resume only cuts elsewhere.
* `StaleSafetyHarmless` (CecDaemonProofs): from the moment epoll reports the timer to
  the call it leads to (`SafetyWindow`), either the suspend it was armed for is
  still under way, or it is over and no later one can begin before that call:
  its resume would have to end first, and that closure is not in this batch
  (`SameSuspend`, `SuspendOver`). The invariant is the first one that needs the
  rest: counts, gate and closures by position.
* `NothingUsedAfterDestruction`, `ProcessLeavesNothing` (LifetimeProofs). The
  invariant says at each place of `start`, `run` and `stop` which members are there
  (`Constructed`), what each thread, handler and outside effect keeps alive
  (`Owned`), and what the exit status and the file can still become (`Reported`: only
  a start that failed leaves a file, and it never reports success; `stopLoop` tells
  at the end which it was). The destructors
  enter by one fact: both orders of destruction take every member before those it
  refers to (`UsersGoFirst`), which is where the proof would fail if the
  declarations in `cec_daemon.h` were reordered.
* `BusCarriesWhatWasSaid`, `SuccessMeansDone` (CommandProofs): for any set of lines,
  any sequences of bytes and any number of clients, retries, faults and suspends
  (`PathAssumption`). Both speak of `Doable`, so for volume and source commands of
  the device that the operations address. Three groups of lemmas: what a client wrote is what the daemon
  reads (`RoundTrip`, `SentIsRead`), the calls an attempt can make for a message and
  that it comes to its release or its success only by an acknowledged call
  (`PlanBegins`, `PlanGoesOn`, `PlanIsDoable`, `PlanIsVettable`), and that what a job
  or closure says about its client stays true as histories only grow (`TruthKept`).
  `PathInv` then says that each job, queued, replayed or running, carries the
  message its client sent, and that a reply that reports success, once it is posted,
  is true.
* `AttemptsAreSpaced` (CommandProofs): `SlotsSpaced`, an action property, for every
  base and maximum. `ThrottleInv` says that the next slot is at least an interval
  after the last one; `IntervalBounded` that no failure count leads out of the range.

* `LockFreeForSleep`, `LockHeldAgain` (CecDaemonProofs): neither property is
  inductive, as the lock is taken and given back long after the signal that decides
  it. The invariant follows a sleep from the bus through the posted closures and the
  running handler into the arbiter's deque and phase. Sleeps and wake-ups take turns
  all the way, so that while logind prepares a sleep either the lock is free or what
  will release it is still due (`ReleaseInv`), and once it is awake again the lock is
  held, asked for, or what will take it is due (`TakeInv`). A suspend under way counts
  as what will release the lock only until its safety timer has fired, since its
  completion leaves the lock alone after that.
* `SuspendFollowsLogind`, `LockRightAfterOutage` (BusProofs): the same road on a bus
  that comes and goes. `OutageInv` says that the last request, by whoever made it, is
  the last in the first place that holds any (inbox, closures, handler, arbiter:
  `FollowInv`), that each sleep not yet answered has its wake-up behind it
  (`AnsweredInv`), that one completion belongs to each cycle, and that a grant or a
  refusal of logind which the next signal has overtaken still comes before that
  signal (`ReplyInv`), which is why a late answer cannot spoil the lock. The queue
  lemmas speak of positions, so that giving the connection up, which empties the
  inbox, needs one argument: if a signal was there, `lost` says so.
* `ResponsesNeverMisrouted`, `SessionsAlwaysDriven` (SocketServerProofs): for any
  number of clients, requests and places. Descriptors are used again while replies
  and events of the old session are still on their way, so neither property follows
  from the sessions alone. The strengthening counts for each client what it has
  sent, what of it was read and what was answered, and fits these numbers to the one
  thing its session waits for (`Progress`: a request, its one sink, room for its
  response); a client has one connection at a time (`OneEnd`), and an event in the
  batch can count on little more than that it was reported (`EventsOK`). The counts of sinks are
  cardinalities of sets, as elsewhere.
* `ScriptsAlwaysSeeAChain`, `StartupStandbysAbsorbed`, `SwitchesSettleFirst`
  (ObserverProofs): for any number of observations and faults. The chain of each kind
  of hook ends in the cache that the next one is compared with (`EndsIn`,
  `ChainGrows`), and every observation made before `start()` ends lies before the
  closure that arms the policy. `SwitchesSettleFirst` is an action property.
* `CommandsTakeEffectOnce` (CommandProofs): `OnceUnlessMisreported`, a statement about
  the number of calls in a history. `OnceInv` says that a command is in one place at a
  time (the wire, the worker's queue, the suspend queue, the worker, an answer), that
  nothing was called for it before the worker took it, and that a power or volume
  command is not tried again once libcec has acknowledged it. What was delivered is
  then what was misreported and at most one acknowledged call (`DeliveredCounts`).

Every invariant and every action property that a passing run checks is thus stated by
a theorem. Only model-checked are the liveness properties (`SleepIsNotHeldUp`,
`CyclesEnd`, `ReconnectEnds`, `ClientsAreAnswered`, `RequestsAnswered`,
`IdleSessionsSwept`, `RunsEventually`, `SettledSourceReported`, `BusRecovers`,
`EndsEventually`): the prover has no support for fairness and ENABLED.

## 5. What is not modelled

* Configuration, directories, fork, help texts, daemon options and logging run
  once or only produce text. The configuration gives the constants of the other
  modules their values.
* The shutdown gates of dispatcher and lifecycle: they are closed in `stop()`, when
  the loop no longer runs, and nothing can reach them.
* `SystemdNotify` and the watchdog's ping write datagrams nobody here reads; that
  the watchdog timer is registered and may fail to be is in `DaemonLifetime`.
* The delay between a key's press and release, and retry delays past 31 attempts,
  where the shift in `executeWithThrottle` is undefined; runs use two attempts.
* Exceptions out of libcec's `Open` and `Close`, an sd-bus that changes its
  descriptor, the poll inside a connect with deadline, and memory order (atomics
  are interleaved, not weakened).
* The suspend and resume that a client sends in `CommandPath` are only
  acknowledged there; what they do is in `CecDaemon`.

## 6. Plan

Done: the power path from events to the adapter, also over bus outages; start-up,
shutdown and destruction; sessions and the socket path; the work queue;
observations, hooks and scripts; commands from the command line to libcec and back;
the theorems of section 4, which cover all safety properties of the runs. What could
follow:

1. Abstract specifications: a suspend cycle with one completion that
   `PowerSupervisor` implements, and a server that answers each client in order.
   `CyclesEndOnce` and `ResponsesNeverMisrouted` state their safety already.
2. One main loop for `CecDaemon` and `SleepOverOutage`, so that the worker and the
   reconnect cycle meet bus outages too.
