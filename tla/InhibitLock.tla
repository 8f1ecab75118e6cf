----------------------------- MODULE InhibitLock -----------------------------
(***************************************************************************)
(* The delay inhibitor of DBusMonitor on a bus that stays up, and logind   *)
(* as this code sees it (external): it announces PrepareForSleep(true) and *)
(* PrepareForSleep(false) in turn, answers Inhibit requests in its own     *)
(* time, refuses them while a sleep is being prepared, and everything it   *)
(* sends arrives in order.                                                 *)
(***************************************************************************)
EXTENDS MainLoop

VARIABLES
  held,    \* m_inhibitFd >= 0
  slot,    \* m_inhibitSlot: an Inhibit call awaits its reply
  request, \* that call has not been answered by logind yet
  bus,     \* messages from logind not processed yet
  sleep    \* logind: "awake", or "preparing" from one signal to the next

lockVars == <<held, slot, request>>
logindVars == <<bus, sleep>>
busVars == <<held, slot, request, bus, sleep>>

BusMessage == {"sleep", "wake", "granted", "refused"}

(* initialize() goes on without the lock when logind refuses it.           *)
LockInit ==
  /\ held \in BOOLEAN
  /\ slot = FALSE
  /\ request = FALSE
  /\ bus = << >>
  /\ sleep = "awake"

-----------------------------------------------------------------------------
releaseInhibitLock ==
  /\ held' = FALSE
  /\ UNCHANGED <<slot, request>>

(* Asynchronous: the lock is ours when the reply has been processed.       *)
takeInhibitLock ==
  /\ IF held \/ slot THEN UNCHANGED <<slot, request>>
                     ELSE slot' = TRUE /\ request' = TRUE
  /\ UNCHANGED held

LockOp(op) ==
  \/ op = "Release" /\ releaseInhibitLock
  \/ op = "Take" /\ takeInhibitLock
  \/ op = "None" /\ UNCHANGED lockVars

-----------------------------------------------------------------------------
(* onPrepareForSleep hands the event to the daemon's callback, which posts *)
(* it.                                                                     *)
OnPrepareForSleep ==
  /\ AtDispatchPoint
  /\ bus # << >>
  /\ Head(bus) \in {"sleep", "wake"}
  /\ bus' = Tail(bus)
  /\ Post(IF Head(bus) = "sleep" THEN "suspendDBus" ELSE "resumeDBus", 0)
  /\ UNCHANGED <<held, slot, request, sleep>>
  /\ UNCHANGED <<batch, ready, calls, loop, safetyTimer, retryTimer>>

OnInhibitReply ==
  /\ AtDispatchPoint
  /\ bus # << >>
  /\ Head(bus) \in {"granted", "refused"}
  /\ bus' = Tail(bus)
  /\ slot' = FALSE
  /\ held' = (held \/ Head(bus) = "granted")
  /\ UNCHANGED <<request, sleep>>
  /\ UNCHANGED loopVars

-----------------------------------------------------------------------------
(* logind *)
PrepareForSleep ==
  /\ sleep = "awake"
  /\ sleep' = "preparing"
  /\ bus' = Append(bus, "sleep")
  /\ UNCHANGED lockVars

WakeUp ==
  /\ sleep = "preparing"
  /\ sleep' = "awake"
  /\ bus' = Append(bus, "wake")
  /\ UNCHANGED lockVars

AnswerInhibit ==
  /\ request
  /\ request' = FALSE
  /\ bus' = Append(bus, IF sleep = "awake" THEN "granted" ELSE "refused")
  /\ UNCHANGED <<held, slot, sleep>>

LockTypeOK ==
  /\ held \in BOOLEAN
  /\ slot \in BOOLEAN
  /\ request \in BOOLEAN
  /\ bus \in Seq(BusMessage)
  /\ sleep \in {"awake", "preparing"}
=============================================================================
