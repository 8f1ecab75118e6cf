--------------------------- MODULE BusConnection ---------------------------
(***************************************************************************)
(* DBusMonitor's connection to the system bus: how an outage is noticed,   *)
(* the reconnect schedule, the heartbeat after it, and what becomes of the *)
(* inhibit lock on the way.  InhibitLock models the lock on a bus that     *)
(* stays up; SleepOverOutage puts the arbiter and logind beside this one.  *)
(***************************************************************************)
EXTENDS Naturals

CONSTANTS
  ScheduleSize,    \* delays of m_reconnectSchedule
  MaxOutages,      \* how often the bus goes away
  MaxFaults        \* epoll, timerfd, dup and sd-bus calls that fail

ASSUME BusAssumption ==
  ScheduleSize \in Nat \ {0} /\ MaxOutages \in Nat /\ MaxFaults \in Nat

VARIABLES
  phase,           \* "initialized", "attached" (m_loop is set), "detached", "stopped"
  state,           \* m_state
  conn,            \* m_bus: "none", "open", or "broken" once the peer is gone
  registered,      \* m_registeredBusFd >= 0
  held,            \* m_inhibitFd >= 0
  slot,            \* m_inhibitSlot
  reply,           \* to that call: "none", "waiting", "granted" or "refused"
  timer,           \* m_reconnectTimer: "off", "armed" or "expired"
  next,            \* m_reconnectSchedule: delays handed out
  current,         \* m_currentAttemptNumber
  busUp,           \* is the bus daemon there?
  outages,         \* outages still to come
  faults           \* faults still to come

connVars == <<state, conn, registered>>
lockVars == <<held, slot, reply>>
retryVars == <<timer, next, current>>
envVars == <<busUp, outages>>
busVars == <<phase, connVars, lockVars, retryVars, envVars, faults>>

(* initialize() has connected; it goes on without the lock if it must.     *)
BusInit ==
  /\ phase = "initialized"
  /\ state = "Operational" /\ conn = "open" /\ registered = FALSE
  /\ held \in BOOLEAN /\ slot = FALSE /\ reply = "none"
  /\ timer = "off" /\ next = 0 /\ current = 0
  /\ busUp = TRUE /\ outages = MaxOutages
  /\ faults = MaxFaults

Costs(n) == faults >= n /\ faults' = faults - n

Attached == phase = "attached"

-----------------------------------------------------------------------------
(* Mutant: the call in flight is not cancelled.                            *)
TearDownKeepsSlot ==
  /\ UNCHANGED <<slot, reply>>
  /\ conn' = "none"

tearDownBusState ==
  /\ slot' = FALSE /\ reply' = "none"
  /\ conn' = "none"

(* The lock goes with the bus, and the first delay of the schedule begins. *)
handleBusDisconnect ==
  /\ state = "Operational"
  /\ held' = FALSE
  /\ registered' = FALSE
  /\ tearDownBusState
  /\ next' = 1
  /\ \/ /\ Costs(0)
        /\ state' = "Reconnecting" /\ timer' = "armed" /\ current' = 1
     \/ /\ Costs(1)
        /\ state' = "Disabled" /\ current' = 0 /\ UNCHANGED timer

(* attach() ends with a first processBus().                                *)
attach ==
  /\ phase = "initialized"
  /\ phase' = "attached"
  /\ \/ /\ conn = "open"
        /\ registered' = TRUE
        /\ UNCHANGED <<state, conn, lockVars, retryVars, faults>>
     \/ conn = "broken" /\ handleBusDisconnect
  /\ UNCHANGED envVars

(* The daemon drops a monitor it cannot attach: detach() and stop().       *)
attachFails ==
  /\ phase = "initialized"
  /\ Costs(1)
  /\ phase' = "stopped"
  /\ held' = FALSE /\ tearDownBusState
  /\ UNCHANGED <<state, registered, retryVars, envVars>>

(* processBus: a connection that is no longer open is given up.            *)
onBusReadable ==
  /\ Attached /\ registered
  /\ conn = "broken"
  /\ handleBusDisconnect
  /\ UNCHANGED <<phase, envVars>>

(* processBus dispatches logind's reply.                                   *)
onInhibitReply ==
  /\ Attached /\ registered
  /\ conn = "open" /\ reply \in {"granted", "refused"}
  /\ slot' = FALSE /\ reply' = "none"
  /\ \/ reply = "granted" /\ held' = TRUE /\ Costs(0)
     \/ reply = "granted" /\ held' = FALSE /\ Costs(1)
     \/ reply = "refused" /\ UNCHANGED held /\ Costs(0)
  /\ UNCHANGED <<phase, connVars, retryVars, envVars>>

-----------------------------------------------------------------------------
(* takeInhibitLock, with a bus and the loop: an asynchronous call.         *)
ScheduleInhibit ==
  \/ Costs(0) /\ slot' = TRUE /\ reply' = "waiting"
  \/ Costs(1) /\ slot' = FALSE /\ reply' = "none"

(* updateLoopRegistration, where it is the first to learn that sd-bus has  *)
(* no descriptor any more.                                                 *)
updateLoopRegistration ==
  /\ conn = "broken"
  /\ handleBusDisconnect

(* Called by the supervisor.                                               *)
takeInhibitLock ==
  /\ Attached
  /\ conn # "none" /\ ~held /\ ~slot
  /\ \/ ScheduleInhibit /\ UNCHANGED <<held, connVars, retryVars>>
     \/ updateLoopRegistration
  /\ UNCHANGED <<phase, envVars>>

(* The Suspend call itself is a message that changes nothing here.         *)
suspendSystem ==
  /\ Attached
  /\ updateLoopRegistration
  /\ UNCHANGED <<phase, envVars>>

releaseInhibitLock ==
  /\ Attached
  /\ held
  /\ held' = FALSE
  /\ UNCHANGED <<phase, connVars, slot, reply, retryVars, envVars, faults>>

-----------------------------------------------------------------------------
(* reconnectBus, registerBusWithLoop and the way back to Operational.      *)
Reconnects ==
  /\ busUp
  /\ conn' = "open" /\ registered' = TRUE /\ state' = "Operational"
  /\ ScheduleInhibit /\ UNCHANGED held
  /\ timer' = "off" /\ next' = 0 /\ current' = 0

(* The attempt fails at no cost while the bus is away, else by a fault.    *)
ReconnectFails(n) ==
  /\ n = 0 => ~busUp
  /\ tearDownBusState
  /\ UNCHANGED <<registered, held>>

(* Mutant: a heartbeat attempt that fails is the last one.                 *)
HeartbeatOnce(n) == Costs(n) /\ timer' = "off"

(* One more timer for the heartbeat, or none if it cannot be armed.        *)
armHeartbeat(n) ==
  \/ Costs(n) /\ timer' = "armed"
  \/ Costs(n + 1) /\ timer' = "off"

nextDelay(n) ==
  /\ next < ScheduleSize
  /\ next' = next + 1
  /\ \/ Costs(n) /\ timer' = "armed" /\ current' = next + 1 /\ UNCHANGED state
     \/ Costs(n + 1) /\ timer' = "off" /\ state' = "Disabled" /\ UNCHANGED current

ScheduleExhausted(n) ==
  /\ next = ScheduleSize
  /\ state' = "Disabled" /\ armHeartbeat(n)
  /\ UNCHANGED <<next, current>>

onReconnectTimer ==
  /\ Attached
  /\ timer = "expired"
  /\ \/ Reconnects
     \/ \E n \in 0..1 :
          /\ ReconnectFails(n)
          /\ \/ state = "Reconnecting" /\ nextDelay(n)
             \/ state = "Reconnecting" /\ ScheduleExhausted(n)
             \/ state = "Disabled" /\ armHeartbeat(n) /\ UNCHANGED <<state, next, current>>
  /\ UNCHANGED <<phase, envVars>>

-----------------------------------------------------------------------------
detach ==
  /\ Attached
  /\ phase' = "detached"
  /\ registered' = FALSE
  /\ UNCHANGED <<state, conn, lockVars, retryVars, envVars, faults>>

stop ==
  /\ phase = "detached"
  /\ phase' = "stopped"
  /\ held' = FALSE /\ tearDownBusState
  /\ state' = "Operational"
  /\ timer' = "off" /\ next' = 0 /\ current' = 0
  /\ UNCHANGED <<registered, envVars, faults>>

-----------------------------------------------------------------------------
(* The bus daemon, logind and the clock (external).                        *)
BusBreaks ==
  /\ busUp /\ outages > 0
  /\ busUp' = FALSE /\ outages' = outages - 1
  /\ conn' = IF conn = "open" THEN "broken" ELSE conn
  /\ UNCHANGED <<phase, state, registered, lockVars, retryVars, faults>>

BusReturns ==
  /\ ~busUp
  /\ busUp' = TRUE
  /\ UNCHANGED <<phase, connVars, lockVars, retryVars, outages, faults>>

LogindAnswers ==
  /\ conn = "open" /\ reply = "waiting"
  /\ reply' \in {"granted", "refused"}
  /\ UNCHANGED <<phase, connVars, held, slot, retryVars, envVars, faults>>

TimerExpires ==
  /\ timer = "armed"
  /\ timer' = "expired"
  /\ UNCHANGED <<phase, connVars, lockVars, next, current, envVars, faults>>

BusNext ==
  \/ attach \/ attachFails \/ detach \/ stop
  \/ onBusReadable \/ onInhibitReply \/ onReconnectTimer
  \/ takeInhibitLock \/ releaseInhibitLock \/ suspendSystem
  \/ BusBreaks \/ BusReturns \/ LogindAnswers \/ TimerExpires

BusSpec == BusInit /\ [][BusNext]_busVars

-----------------------------------------------------------------------------
BusTypeOK ==
  /\ phase \in {"initialized", "attached", "detached", "stopped"}
  /\ state \in {"Operational", "Reconnecting", "Disabled"}
  /\ conn \in {"none", "open", "broken"}
  /\ registered \in BOOLEAN /\ held \in BOOLEAN /\ slot \in BOOLEAN
  /\ reply \in {"none", "waiting", "granted", "refused"}
  /\ timer \in {"off", "armed", "expired"}
  /\ next \in 0..ScheduleSize /\ current \in 0..ScheduleSize
  /\ busUp \in BOOLEAN /\ outages \in 0..MaxOutages /\ faults \in 0..MaxFaults

(* In the loop the monitor is Operational exactly while it has a bus; with *)
(* no bus there is no registration left to dispatch, no lock of the dead   *)
(* connection and no call whose reply could still come (an old m_inhibitSlot *)
(* would make takeInhibitLock skip the request on the new connection).     *)
DownIsClean ==
  /\ Attached => (conn = "none") = (state # "Operational")
  /\ Attached => registered = (conn # "none")
  /\ conn = "none" => ~held /\ ~slot
  /\ slot = (reply # "none")

(* While Reconnecting the timer runs for exactly the attempt on record;    *)
(* the heartbeat keeps a Disabled monitor trying unless a timer could not  *)
(* be armed; and the timer never runs while Operational (527-529), where   *)
(* onReconnectTimer has nothing to do.                                     *)
RetryScheduled ==
  Attached =>
    /\ state = "Reconnecting" => timer # "off" /\ current = next /\ next > 0
    /\ state = "Disabled" /\ faults = MaxFaults => timer # "off"
    /\ state = "Operational" => timer = "off" /\ next = 0 /\ current = 0

(* Over any number of outages, failed attempts and resets: nothing is left *)
(* of a bus that is gone, after handleBusDisconnect and after a            *)
(* reconnectBus that failed half-way, and the next attempt is scheduled.   *)
BusInv == BusTypeOK /\ DownIsClean /\ RetryScheduled

(* However many attempts the schedule has and however long the outage, a   *)
(* monitor that stays in the loop gets a bus again and asks for the lock,  *)
(* unless a call of its own fails.                                         *)
BusRecovers ==
  (Attached /\ conn # "open")
    ~> (~Attached \/ (conn = "open" /\ slot) \/ faults < MaxFaults)
=============================================================================
