------------------------------ MODULE BusProofs ------------------------------
(***************************************************************************)
(* BusInv for every schedule and every number of outages and faults: first *)
(* of the connection by itself, then, as SleepOverOutage takes no other    *)
(* step of it, of the connection under the arbiter and logind.  The second *)
(* half follows a signal of logind from the connection through the posted  *)
(* closures to the arbiter: the adapter and the inhibitor lock are as the  *)
(* last signal that was read wants them.                                   *)
(***************************************************************************)
EXTENDS SleepOverOutage, SequenceTheorems, TLAPS

(* BusInv is not inductive: attach relies on what initialize() has left.   *)
Fresh ==
  phase = "initialized" =>
    state = "Operational" /\ conn # "none" /\ timer = "off" /\ next = 0 /\ current = 0

IBusInv == BusInv /\ Fresh

-----------------------------------------------------------------------------
(* The ends of the counters' ranges.                                       *)
LEMMA Bounds ==
  /\ 0 \in 0..ScheduleSize /\ 1 \in 0..ScheduleSize
  /\ MaxOutages \in 0..MaxOutages /\ MaxFaults \in 0..MaxFaults
BY BusAssumption

(* A fault that happens was still to be had.                               *)
LEMMA CostsType ==
  ASSUME faults \in 0..MaxFaults, NEW n \in Nat, Costs(n)
  PROVE  faults' \in 0..MaxFaults /\ faults' <= faults /\ (n > 0 => faults' < MaxFaults)
BY BusAssumption DEF Costs

(* Giving the connection up leaves nothing of it, from whatever state it   *)
(* is done in (handleBusDisconnect).                                       *)
LEMMA DisconnectKeeps ==
  ASSUME BusTypeOK, handleBusDisconnect, timer = "off",
         phase' = "attached", UNCHANGED envVars
  PROVE  IBusInv'
<1>1. faults' \in 0..MaxFaults /\ (state' = "Disabled" => faults' < MaxFaults)
  BY CostsType DEF handleBusDisconnect, BusTypeOK
<1>2. BusTypeOK'
  BY <1>1, Bounds DEF BusTypeOK, handleBusDisconnect, tearDownBusState, envVars
<1>3. DownIsClean'
  BY DEF DownIsClean, handleBusDisconnect, tearDownBusState, Attached
<1>4. RetryScheduled'
  BY <1>1, BusAssumption DEF RetryScheduled, handleBusDisconnect, Attached, BusTypeOK
<1> QED
  BY <1>2, <1>3, <1>4 DEF IBusInv, BusInv, Fresh

(* An Inhibit call is outstanding exactly when its slot is.                *)
LEMMA InhibitType ==
  ASSUME BusTypeOK, ScheduleInhibit
  PROVE  /\ slot' \in BOOLEAN /\ reply' \in {"none", "waiting"}
         /\ slot' = (reply' # "none")
         /\ faults' \in 0..MaxFaults /\ faults' <= faults
BY CostsType DEF ScheduleInhibit, BusTypeOK

-----------------------------------------------------------------------------
(* Before initialize().                                                    *)
LEMMA InitEstablishes == BusInit => IBusInv
BY Bounds
   DEF BusInit, IBusInv, BusInv, BusTypeOK, DownIsClean, RetryScheduled, Fresh, Attached

(* attach, on a connection that works or one that broke meanwhile.         *)
LEMMA AttachKeeps == ASSUME IBusInv, attach PROVE IBusInv'
<1>1. CASE conn = "open"
  BY <1>1 DEF attach, IBusInv, BusInv, BusTypeOK, DownIsClean, RetryScheduled, Fresh,
              Attached, handleBusDisconnect, lockVars, retryVars, envVars
<1>2. CASE conn = "broken"
  BY <1>2, DisconnectKeeps DEF attach, IBusInv, BusInv, Fresh, envVars
<1> QED
  BY <1>1, <1>2 DEF attach

(* The ways out: an attach that fails, detach and stop.                    *)
LEMMA LeaveKeeps == ASSUME IBusInv, attachFails \/ detach \/ stop PROVE IBusInv'
<1>1. CASE attachFails
  BY <1>1, CostsType
     DEF attachFails, IBusInv, BusInv, BusTypeOK, DownIsClean, RetryScheduled, Fresh,
         Attached, tearDownBusState, retryVars, envVars
<1>2. CASE detach
  BY <1>2 DEF detach, IBusInv, BusInv, BusTypeOK, DownIsClean, RetryScheduled, Fresh,
              Attached, lockVars, retryVars, envVars
<1>3. CASE stop
  BY <1>3, Bounds
     DEF stop, IBusInv, BusInv, BusTypeOK, DownIsClean, RetryScheduled, Fresh,
         Attached, tearDownBusState, envVars
<1> QED
  BY <1>1, <1>2, <1>3

(* The three places that notice a connection the peer has left.            *)
LEMMA NoticeKeeps ==
  ASSUME IBusInv, Attached, conn = "broken", handleBusDisconnect, UNCHANGED <<phase, envVars>>
  PROVE  IBusInv'
<1>1. timer = "off"
  BY DEF IBusInv, BusInv, RetryScheduled, handleBusDisconnect
<1> QED
  BY <1>1, DisconnectKeeps DEF IBusInv, BusInv, Attached

(* onInhibitReply, with the descriptor or without.                         *)
LEMMA InhibitReplyKeeps == ASSUME IBusInv, onInhibitReply PROVE IBusInv'
<1>1. faults' \in 0..MaxFaults /\ faults' <= faults
  BY CostsType DEF onInhibitReply, IBusInv, BusInv, BusTypeOK
<1>2. held' \in BOOLEAN
  BY DEF onInhibitReply, IBusInv, BusInv, BusTypeOK
<1>3. BusTypeOK'
  BY <1>1, <1>2 DEF onInhibitReply, IBusInv, BusInv, BusTypeOK, connVars, retryVars, envVars
<1>4. DownIsClean'
  BY DEF onInhibitReply, IBusInv, BusInv, DownIsClean, Attached, connVars
<1>5. RetryScheduled' /\ Fresh'
  BY <1>1, BusAssumption
     DEF onInhibitReply, IBusInv, BusInv, BusTypeOK, RetryScheduled, Fresh, Attached,
         connVars, retryVars
<1> QED
  BY <1>3, <1>4, <1>5 DEF IBusInv, BusInv

(* The operations on the lock, which may find the connection broken.       *)
LEMMA LockKeeps ==
  ASSUME IBusInv, takeInhibitLock \/ releaseInhibitLock \/ suspendSystem
  PROVE  IBusInv'
<1>1. CASE takeInhibitLock /\ updateLoopRegistration
  BY <1>1, NoticeKeeps DEF takeInhibitLock, updateLoopRegistration
<1>2. CASE takeInhibitLock /\ ~updateLoopRegistration
  <2>1. /\ ScheduleInhibit /\ Attached /\ conn # "none"
        /\ UNCHANGED <<held, connVars, retryVars, phase, envVars>>
    BY <1>2 DEF takeInhibitLock
  <2>2. /\ slot' \in BOOLEAN /\ reply' \in {"none", "waiting"}
        /\ slot' = (reply' # "none")
        /\ faults' \in 0..MaxFaults /\ faults' <= faults
    BY <2>1, InhibitType DEF IBusInv, BusInv
  <2> QED
    BY <2>1, <2>2, BusAssumption
       DEF IBusInv, BusInv, BusTypeOK, DownIsClean, RetryScheduled, Fresh, Attached,
           connVars, retryVars, envVars
<1>3. CASE releaseInhibitLock
  BY <1>3 DEF releaseInhibitLock, IBusInv, BusInv, BusTypeOK, DownIsClean, RetryScheduled,
              Fresh, Attached, connVars, retryVars, envVars
<1>4. CASE suspendSystem
  BY <1>4, NoticeKeeps DEF suspendSystem, updateLoopRegistration
<1> QED
  BY <1>1, <1>2, <1>3, <1>4

-----------------------------------------------------------------------------
(* An attempt that fails leaves no half-open connection, and the next one  *)
(* is armed or, at the price of a fault, given up.                         *)
LEMMA FailedAttemptKeeps ==
  ASSUME IBusInv, Attached, state # "Operational",
         NEW n \in 0..1, ReconnectFails(n),
         \/ state = "Reconnecting" /\ nextDelay(n)
         \/ state = "Reconnecting" /\ ScheduleExhausted(n)
         \/ state = "Disabled" /\ armHeartbeat(n) /\ UNCHANGED <<state, next, current>>,
         UNCHANGED <<phase, envVars>>
  PROVE  IBusInv'
<1>1. /\ faults' \in 0..MaxFaults
      /\ timer' \in {"armed", "off"}
      /\ timer' = "off" => faults' < MaxFaults
  BY CostsType DEF IBusInv, BusInv, BusTypeOK, nextDelay, ScheduleExhausted, armHeartbeat
<1>2. /\ next' \in 0..ScheduleSize /\ current' \in 0..ScheduleSize
      /\ state' \in {"Reconnecting", "Disabled"}
      /\ state' = "Reconnecting" => timer' = "armed" /\ current' = next' /\ next' > 0
  BY BusAssumption
     DEF IBusInv, BusInv, BusTypeOK, nextDelay, ScheduleExhausted, armHeartbeat
<1>3. conn = "none" /\ ~registered /\ ~held
  BY DEF IBusInv, BusInv, BusTypeOK, DownIsClean
<1>4. /\ conn' = "none" /\ registered' = FALSE /\ held' = FALSE
      /\ slot' = FALSE /\ reply' = "none" /\ phase' = "attached"
      /\ UNCHANGED envVars
  BY <1>3 DEF ReconnectFails, tearDownBusState, Attached, IBusInv, BusInv, BusTypeOK
<1>5. BusTypeOK'
  BY <1>1, <1>2, <1>4 DEF IBusInv, BusInv, BusTypeOK, envVars
<1>6. DownIsClean' /\ Fresh'
  BY <1>2, <1>4 DEF DownIsClean, Fresh, Attached
<1>7. RetryScheduled'
  BY <1>1, <1>2, BusAssumption DEF RetryScheduled
<1> QED
  BY <1>5, <1>6, <1>7 DEF IBusInv, BusInv

(* onReconnectTimer: the connection is back, or the next attempt is        *)
(* scheduled.                                                              *)
LEMMA ReconnectTimerKeeps == ASSUME IBusInv, onReconnectTimer PROVE IBusInv'
<1>1. Attached /\ state # "Operational" /\ UNCHANGED <<phase, envVars>>
  BY DEF onReconnectTimer, IBusInv, BusInv, RetryScheduled
<1>2. CASE Reconnects
  <2>1. /\ slot' \in BOOLEAN /\ reply' \in {"none", "waiting"}
        /\ slot' = (reply' # "none")
        /\ faults' \in 0..MaxFaults
    BY <1>2, InhibitType DEF Reconnects, IBusInv, BusInv
  <2> QED
    BY <1>1, <1>2, <2>1, Bounds
       DEF Reconnects, IBusInv, BusInv, BusTypeOK, DownIsClean, RetryScheduled, Fresh,
           Attached, envVars
<1>3. CASE ~Reconnects
  BY <1>1, <1>3, FailedAttemptKeeps DEF onReconnectTimer
<1> QED
  BY <1>2, <1>3

(* What happens outside: the bus, logind's answer, the kernel's timer.     *)
LEMMA WorldKeeps ==
  ASSUME IBusInv, BusBreaks \/ BusReturns \/ LogindAnswers \/ TimerExpires
  PROVE  IBusInv'
<1>1. CASE BusBreaks
  <2>1. outages' \in 0..MaxOutages
    BY <1>1, BusAssumption DEF BusBreaks, IBusInv, BusInv, BusTypeOK
  <2>2. conn' \in {"none", "open", "broken"} /\ (conn' = "none") = (conn = "none")
    BY <1>1 DEF BusBreaks, IBusInv, BusInv, BusTypeOK
  <2> QED
    BY <1>1, <2>1, <2>2
       DEF BusBreaks, IBusInv, BusInv, BusTypeOK, DownIsClean, RetryScheduled, Fresh,
           Attached, lockVars, retryVars
<1>2. CASE BusReturns
  BY <1>2 DEF BusReturns, IBusInv, BusInv, BusTypeOK, DownIsClean, RetryScheduled, Fresh,
              Attached, connVars, lockVars, retryVars
<1>3. CASE LogindAnswers
  BY <1>3 DEF LogindAnswers, IBusInv, BusInv, BusTypeOK, DownIsClean, RetryScheduled, Fresh,
              Attached, connVars, retryVars, envVars
<1>4. CASE TimerExpires
  BY <1>4 DEF TimerExpires, IBusInv, BusInv, BusTypeOK, DownIsClean, RetryScheduled, Fresh,
              Attached, connVars, lockVars, envVars
<1> QED
  BY <1>1, <1>2, <1>3, <1>4

(* Every step of the connection keeps IBusInv.                             *)
LEMMA StepKeeps == IBusInv /\ [BusNext]_busVars => IBusInv'
<1> SUFFICES ASSUME IBusInv, [BusNext]_busVars PROVE IBusInv'
  OBVIOUS
<1>1. CASE onBusReadable
  BY <1>1, NoticeKeeps DEF onBusReadable
<1>2. CASE UNCHANGED busVars
  BY <1>2 DEF busVars, connVars, lockVars, retryVars, envVars, IBusInv, BusInv, BusTypeOK,
              DownIsClean, RetryScheduled, Fresh, Attached
<1> QED
  BY <1>1, <1>2, AttachKeeps, LeaveKeeps, InhibitReplyKeeps, ReconnectTimerKeeps, LockKeeps,
     WorldKeeps DEF BusNext

(* The connection to the bus, over any number of outages, attempts and     *)
(* faults: nothing survives a connection that is given up, and while the   *)
(* monitor is without one the next attempt is scheduled                    *)
(* (handleBusDisconnect, onReconnectTimer, reconnectBus).                  *)
THEOREM BusAlwaysClean == BusSpec => []BusInv
<1>1. BusInit => IBusInv
  BY InitEstablishes
<1>2. IBusInv /\ [BusNext]_busVars => IBusInv'
  BY StepKeeps
<1>3. IBusInv => BusInv
  BY DEF IBusInv
<1> QED
  BY <1>1, <1>2, <1>3, PTL DEF BusSpec

-----------------------------------------------------------------------------
(* What the supervisor asks of the monitor is a step of the connection.    *)
LEMMA LockOpIsBusStep ==
  ASSUME NEW op, LockOp(op) PROVE [BusNext]_busVars
BY DEF LockOp, BusNext

(* So is every step of the composition that touches it.                    *)
LEMMA NextIsBusStep == [Next]_vars => [BusNext]_busVars
<1>1. ASSUME MainThread PROVE [BusNext]_busVars
  <2>1. ASSUME NEW t, NEW rest, Carry(t, rest) PROVE [BusNext]_busVars
    BY <2>1, LockOpIsBusStep DEF Carry
  <2>2. CASE RunCall
    BY <2>1, <2>2 DEF RunCall
  <2>3. CASE ResumeCompleted
    BY <2>3, LockOpIsBusStep DEF ResumeCompleted
  <2>4. CASE InhibitReply
    BY <2>4 DEF InhibitReply, BusNext
  <2>5. CASE OnPrepareForSleep \/ RunClosure \/ SafetyTimerFired
    BY <2>5 DEF OnPrepareForSleep, RunClosure, SafetyTimerFired
  <2> QED
    BY <1>1, <2>2, <2>3, <2>4, <2>5 DEF MainThread
<1>2. ASSUME ConnectionStep PROVE BusNext
  BY <1>2 DEF ConnectionStep, BusNext
<1>3. ASSUME BusFails \/ BusRestored \/ RetryDue \/ AnswerInhibit PROVE BusNext
  BY <1>3 DEF BusFails, BusRestored, RetryDue, AnswerInhibit, BusNext
<1>4. ASSUME WireRequest \/ JobDone \/ SafetyTimerExpires \/ PrepareForSleep \/ WakeUp
      PROVE  UNCHANGED busVars
  BY <1>4 DEF WireRequest, JobDone, SafetyTimerExpires, PrepareForSleep, WakeUp
<1>5. ASSUME UNCHANGED vars PROVE UNCHANGED busVars
  BY <1>5 DEF vars
<1> QED
  BY <1>1, <1>2, <1>3, <1>4, <1>5 DEF Next

(* Whatever the arbiter, logind and the clients do, they do nothing to the *)
(* connection but what BusConnection allows (PowerSupervisor reaches it    *)
(* through takeInhibitLock and releaseInhibitLock only).                   *)
THEOREM SleepImplementsBus == Spec => BusSpec
<1>1. Init => BusInit
  BY DEF Init
<1> QED
  BY <1>1, NextIsBusStep, PTL DEF Spec, BusSpec

(* Hence sleeps, wake-ups and requests never find a connection that is     *)
(* half given up, nor a monitor that has stopped trying.                   *)
THEOREM SleepFindsBusClean == Spec => []BusInv
BY BusAlwaysClean, SleepImplementsBus, PTL

-----------------------------------------------------------------------------
(* What is on its way, from logind's side of the connection to the arbiter.*)

Occurs(s, S) == \E i \in DOMAIN s : s[i] \in S

(* One of S with none of W behind it.                                      *)
Unanswered(s, S, W) ==
  \E i \in DOMAIN s : s[i] \in S /\ \A k \in DOMAIN s : i < k => s[k] \notin W

(* The last one of S is an x.                                              *)
LastIs(s, x, S) == Occurs(s, {x}) /\ ~Unanswered(s, S \ {x}, {x})

(* An x has a y behind it.                                                 *)
Behind(s, x, y) == \E i, j \in DOMAIN s : i < j /\ s[i] = x /\ s[j] = y

Message == Signal \cup {"reply"}
LogindFn == {"suspendDBus", "resumeDBus"}
Request == LogindFn \cup {"suspendWire", "resumeWire"}
Completion == {"suspendCompleted", "resumeCompleted"}
Fn == Request \cup Completion \cup {"pumpQueue", "safetyTimerFired"}

SleepRequest == {[kind |-> "Suspend", source |-> "DBus"]}
WakeRequest == {[kind |-> "Resume", source |-> "DBus"]}

OutageType ==
  /\ inbox \in Seq(Message) /\ work \in Seq(LogindFn \cup Completion)
  /\ calls = << >> \/ \E fn \in Fn : calls = <<fn>>
  /\ lifecycle \in PowerLifecycleState /\ suspended \in BOOLEAN
  /\ job \in {"none", "suspend", "resume"} /\ safety \in {"off", "armed", "expired"}
  /\ sleep \in {"awake", "preparing"} /\ lost \in BOOLEAN
  /\ sleeps \in 0..MaxSleeps /\ requests \in Nat /\ timeouts \in 0..MaxTimeouts

(* Exactly one completion is on its way for a cycle, and none without one. *)
Once(s, x, S) ==
  \E i \in DOMAIN s : s[i] = x /\ \A j \in DOMAIN s : s[j] \in S => j = i
NoneReady == ~Occurs(work, Completion) /\ ~Runs("suspendCompleted") /\ ~Runs("resumeCompleted")

OneEnd(kind, fn) ==
  \/ job = kind /\ NoneReady
  \/ job = "none" /\ Runs(fn) /\ ~Occurs(work, Completion)
  \/ job = "none" /\ ~Runs("suspendCompleted") /\ ~Runs("resumeCompleted") /\ Once(work, fn, Completion)

CycleInv ==
  /\ lifecycle.phase = "Idle" => job = "none" /\ NoneReady
  /\ lifecycle.phase = "Suspending" => suspended /\ OneEnd("suspend", "suspendCompleted")
  /\ lifecycle.phase = "Resuming" => OneEnd("resume", "resumeCompleted")
  /\ lifecycle.phase = "Idle" /\ lifecycle.pending # << >> => Runs("pumpQueue")

(* What the arbiter was asked for last.                                    *)
LastAccepted(lc, susp, kind) ==
  IF lc.pending # << >> THEN lc.pending[Len(lc.pending)].kind = kind
  ELSE IF lc.phase # "Idle" THEN lc.phase = (IF kind = "Suspend" THEN "Suspending" ELSE "Resuming")
  ELSE susp = (kind = "Suspend")

Follows(signal, fn, kind) ==
  IF Occurs(inbox, Signal) THEN LastIs(inbox, signal, Signal)
  ELSE IF Occurs(work, LogindFn) THEN LastIs(work, fn, LogindFn)
  ELSE IF \E f \in Request : Runs(f) THEN Runs(fn)
  ELSE LastAccepted(lifecycle, suspended, kind)

FollowInv ==
  ~lost /\ spoke = "logind" =>
    /\ sleep = "preparing" => Follows("sleep", "suspendDBus", "Suspend")
    /\ sleep = "awake" => Follows("wake", "resumeDBus", "Resume")

(* The sleeps on their way have a wake-up behind them.                     *)
UnansweredRequest(lc) ==
  \/ Unanswered(lc.pending, SleepRequest, WakeRequest)
  \/ lc.phase = "Suspending" /\ lc.phaseSource = "DBus" /\ ~Occurs(lc.pending, WakeRequest)

AnsweredInv ==
  ~lost /\ sleep = "awake" /\ sleeps < MaxSleeps =>
    /\ ~Unanswered(inbox, {"sleep"}, {"wake"})
    /\ Unanswered(work, {"suspendDBus"}, {"resumeDBus"}) => Occurs(inbox, {"wake"})
    /\ Runs("suspendDBus") => Occurs(work, {"resumeDBus"}) \/ Occurs(inbox, {"wake"})
    /\ UnansweredRequest(lifecycle) =>
         Runs("resumeDBus") \/ Occurs(work, {"resumeDBus"}) \/ Occurs(inbox, {"wake"})

ReplyInv ==
  /\ reply \in {"granted", "refused"} => Occurs(inbox, {"reply"})
  /\ ~lost /\ sleep = "preparing" /\ reply = "granted" => Behind(inbox, "reply", "sleep")
  /\ ~lost /\ sleep = "awake" /\ reply = "refused" => Behind(inbox, "reply", "wake")

SleepAccepted(lc) ==
  Occurs(lc.pending, SleepRequest) \/ (lc.phase = "Suspending" /\ lc.phaseSource = "DBus")
WakeAccepted(lc) ==
  Occurs(lc.pending, WakeRequest) \/ (lc.phase = "Resuming" /\ lc.phaseSource = "DBus")

SleepDue ==
  \/ Occurs(inbox, {"sleep"}) \/ Occurs(work, {"suspendDBus"}) \/ Runs("suspendDBus")
  \/ SleepAccepted(lifecycle)

WakeDue ==
  \/ Occurs(inbox, {"wake"}) \/ Occurs(work, {"resumeDBus"}) \/ Runs("resumeDBus")
  \/ WakeAccepted(lifecycle)

NoTimeout ==
  timeouts = MaxTimeouts =>
    ~lifecycle.safetyFiredFirst /\ safety # "expired" /\ ~Runs("safetyTimerFired")

ReleaseInv ==
  ~lost /\ sleep = "preparing" /\ timeouts = MaxTimeouts => SleepDue \/ ~held

TakeInv ==
  ~lost /\ sleep = "awake" /\ sleeps < MaxSleeps /\ faults = MaxFaults =>
    WakeDue \/ held \/ reply \in {"waiting", "granted"} \/ conn = "none"

OutageInv ==
  /\ OutageType /\ CycleInv /\ FollowInv /\ AnsweredInv /\ ReplyInv
  /\ NoTimeout /\ ReleaseInv /\ TakeInv

-----------------------------------------------------------------------------
(* Queues.                                                                 *)

(* Nothing is in an empty queue.                                           *)
LEMMA EmptyQueue ==
  ASSUME NEW S, NEW W
  PROVE  ~Occurs(<< >>, S) /\ ~Unanswered(<< >>, S, W)
<1>1. DOMAIN << >> = {}
  OBVIOUS
<1> QED
  BY <1>1 DEF Occurs, Unanswered

(* One more at the end of a queue.                                         *)
LEMMA OccursAppend ==
  ASSUME NEW T, NEW s \in Seq(T), NEW e \in T, NEW S
  PROVE  /\ Append(s, e) \in Seq(T)
         /\ Occurs(Append(s, e), S) <=> Occurs(s, S) \/ e \in S
<1> DEFINE t == Append(s, e)
           n == Len(s)
<1>1. /\ t \in Seq(T) /\ n \in Nat /\ DOMAIN s = 1 .. n /\ DOMAIN t = 1 .. n + 1
      /\ t[n + 1] = e /\ \A i \in 1 .. n : t[i] = s[i]
  BY AppendProperties, LenProperties
<1> HIDE DEF t, n
<1>2. /\ n + 1 \in 1 .. n + 1 /\ 1 .. n \subseteq 1 .. n + 1
      /\ \A i \in 1 .. n + 1 : (i # n + 1 => i \in 1 .. n) /\ ~(n + 1 < i)
      /\ \A i \in 1 .. n : i < n + 1 /\ i # n + 1
  BY <1>1
<1>3. Occurs(t, S) <=> Occurs(s, S) \/ e \in S
  BY <1>1, <1>2, Zenon DEF Occurs
<1> QED
  BY <1>1, <1>3 DEF t

(* It answers, or wants an answer, or neither.                             *)
LEMMA UnansweredAppend ==
  ASSUME NEW T, NEW s \in Seq(T), NEW e \in T, NEW S, NEW W
  PROVE  Unanswered(Append(s, e), S, W) <=> e \in S \/ (Unanswered(s, S, W) /\ e \notin W)
<1> DEFINE t == Append(s, e)
           n == Len(s)
<1>1. /\ t \in Seq(T) /\ n \in Nat /\ DOMAIN s = 1 .. n /\ DOMAIN t = 1 .. n + 1
      /\ t[n + 1] = e /\ \A i \in 1 .. n : t[i] = s[i]
  BY AppendProperties, LenProperties
<1> HIDE DEF t, n
<1>2. /\ n + 1 \in 1 .. n + 1 /\ 1 .. n \subseteq 1 .. n + 1
      /\ \A i \in 1 .. n + 1 : (i # n + 1 => i \in 1 .. n) /\ ~(n + 1 < i)
      /\ \A i \in 1 .. n : i < n + 1 /\ i # n + 1
  BY <1>1
<1>4. Unanswered(t, S, W) <=> e \in S \/ (Unanswered(s, S, W) /\ e \notin W)
  <2>1. ASSUME Unanswered(t, S, W) PROVE e \in S \/ (Unanswered(s, S, W) /\ e \notin W)
    <3>1. PICK i \in 1 .. n + 1 : t[i] \in S /\ \A k \in 1 .. n + 1 : i < k => t[k] \notin W
      BY <1>1, <2>1 DEF Unanswered
    <3> QED
      BY <1>1, <1>2, <3>1 DEF Unanswered
  <2>2. ASSUME e \in S PROVE Unanswered(t, S, W)
    BY <1>1, <1>2, <2>2 DEF Unanswered
  <2>3. ASSUME Unanswered(s, S, W), e \notin W PROVE Unanswered(t, S, W)
    <3>1. PICK i \in 1 .. n : s[i] \in S /\ \A k \in 1 .. n : i < k => s[k] \notin W
      BY <1>1, <2>3 DEF Unanswered
    <3> QED
      BY <1>1, <1>2, <2>3, <3>1 DEF Unanswered
  <2> QED
    BY <2>1, <2>2, <2>3
<1> QED
  BY <1>4 DEF t

(* It is behind all that was there.                                        *)
LEMMA BehindAppend ==
  ASSUME NEW T, NEW s \in Seq(T), NEW e \in T, NEW x, NEW y
  PROVE  Behind(Append(s, e), x, y) <=> Behind(s, x, y) \/ (Occurs(s, {x}) /\ e = y)
<1> DEFINE t == Append(s, e)
           n == Len(s)
<1>1. /\ t \in Seq(T) /\ n \in Nat /\ DOMAIN s = 1 .. n /\ DOMAIN t = 1 .. n + 1
      /\ t[n + 1] = e /\ \A i \in 1 .. n : t[i] = s[i]
  BY AppendProperties, LenProperties
<1> HIDE DEF t, n
<1>2. /\ n + 1 \in 1 .. n + 1 /\ 1 .. n \subseteq 1 .. n + 1
      /\ \A i \in 1 .. n + 1 : (i # n + 1 => i \in 1 .. n) /\ ~(n + 1 < i)
      /\ \A i \in 1 .. n : i < n + 1 /\ i # n + 1
  BY <1>1
<1>5. Behind(t, x, y) <=> Behind(s, x, y) \/ (Occurs(s, {x}) /\ e = y)
  <2>1. ASSUME Behind(t, x, y) PROVE Behind(s, x, y) \/ (Occurs(s, {x}) /\ e = y)
    <3>1. PICK i \in 1 .. n + 1, j \in 1 .. n + 1 : i < j /\ t[i] = x /\ t[j] = y
      BY <1>1, <2>1 DEF Behind
    <3>2. i \in 1 .. n
      BY <1>2, <3>1
    <3> QED
      BY <1>1, <1>2, <3>1, <3>2 DEF Behind, Occurs
  <2>2. ASSUME Behind(s, x, y) PROVE Behind(t, x, y)
    <3>1. PICK i \in 1 .. n, j \in 1 .. n : i < j /\ s[i] = x /\ s[j] = y
      BY <1>1, <2>2 DEF Behind
    <3> QED
      BY <1>1, <1>2, <3>1 DEF Behind
  <2>3. ASSUME Occurs(s, {x}), e = y PROVE Behind(t, x, y)
    <3>1. PICK i \in 1 .. n : s[i] = x
      BY <1>1, <2>3 DEF Occurs
    <3> QED
      BY <1>1, <1>2, <2>3, <3>1 DEF Behind
  <2> QED
    BY <2>1, <2>2, <2>3
<1> QED
  BY <1>5 DEF t

(* It is the only one of S if there was none.                              *)
LEMMA OnceAppend ==
  ASSUME NEW T, NEW s \in Seq(T), NEW e \in T, NEW S, NEW x
  PROVE  /\ e \notin S /\ Once(s, x, S) => Once(Append(s, e), x, S)
         /\ ~Occurs(s, S) => Once(Append(s, e), e, S)
<1> DEFINE t == Append(s, e)
           n == Len(s)
<1>1. /\ t \in Seq(T) /\ n \in Nat /\ DOMAIN s = 1 .. n /\ DOMAIN t = 1 .. n + 1
      /\ t[n + 1] = e /\ \A i \in 1 .. n : t[i] = s[i]
  BY AppendProperties, LenProperties
<1> HIDE DEF t, n
<1>2. /\ n + 1 \in 1 .. n + 1 /\ 1 .. n \subseteq 1 .. n + 1
      /\ \A i \in 1 .. n + 1 : (i # n + 1 => i \in 1 .. n) /\ ~(n + 1 < i)
      /\ \A i \in 1 .. n : i < n + 1 /\ i # n + 1
  BY <1>1
<1>6. ASSUME e \notin S, Once(s, x, S) PROVE Once(t, x, S)
  <2>1. PICK i \in 1 .. n : s[i] = x /\ \A j \in 1 .. n : s[j] \in S => j = i
    BY <1>1, <1>6 DEF Once
  <2> QED
    BY <1>1, <1>2, <1>6, <2>1 DEF Once
<1>7. ASSUME ~Occurs(s, S) PROVE Once(t, e, S)
  BY <1>1, <1>2, <1>7 DEF Once, Occurs
<1> QED
  BY <1>6, <1>7 DEF t

(* The first one taken off a queue.                                        *)
LEMMA OccursTail ==
  ASSUME NEW T, NEW s \in Seq(T), s # << >>, NEW S
  PROVE  /\ Head(s) \in T /\ Tail(s) \in Seq(T)
         /\ Occurs(s, S) <=> Head(s) \in S \/ Occurs(Tail(s), S)
<1> DEFINE h == Head(s)
           r == Tail(s)
           n == Len(s)
<1>1. /\ h \in T /\ r \in Seq(T) /\ n \in Nat /\ n # 0 /\ DOMAIN s = 1 .. n
      /\ DOMAIN r = 1 .. n - 1 /\ s[1] = h /\ \A i \in 1 .. n - 1 : r[i] = s[i + 1]
  BY HeadTailProperties, LenProperties, EmptySeq
<1> HIDE DEF h, r, n
<1>2. /\ 1 \in 1 .. n
      /\ \A i \in 1 .. n - 1 : i + 1 \in 1 .. n /\ i + 1 # 1 /\ 1 < i + 1
      /\ \A i \in 1 .. n : i # 1 => i - 1 \in 1 .. n - 1 /\ (i - 1) + 1 = i /\ 1 < i
      /\ \A i, j \in Int : i < j <=> i - 1 < j - 1
      /\ \A i, j \in Int : i < j <=> i + 1 < j + 1
  BY <1>1
<1>3. \A i \in 1 .. n : i # 1 => r[i - 1] = s[i]
  BY <1>1, <1>2
<1>4. Occurs(s, S) <=> h \in S \/ Occurs(r, S)
  <2>1. ASSUME Occurs(s, S) PROVE h \in S \/ Occurs(r, S)
    <3>1. PICK i \in 1 .. n : s[i] \in S
      BY <1>1, <2>1 DEF Occurs
    <3> QED
      BY <1>1, <1>2, <1>3, <3>1 DEF Occurs
  <2>2. ASSUME Occurs(r, S) PROVE Occurs(s, S)
    <3>1. PICK i \in 1 .. n - 1 : r[i] \in S
      BY <1>1, <2>2 DEF Occurs
    <3> QED
      BY <1>1, <1>2, <3>1 DEF Occurs
  <2>3. ASSUME h \in S PROVE Occurs(s, S)
    BY <1>1, <1>2, <2>3 DEF Occurs
  <2> QED
    BY <2>1, <2>2, <2>3
<1> QED
  BY <1>1, <1>4 DEF h, r

(* What answers it is in the rest.                                         *)
LEMMA UnansweredTail ==
  ASSUME NEW T, NEW s \in Seq(T), s # << >>, NEW S, NEW W
  PROVE  Unanswered(s, S, W) <=>
           Unanswered(Tail(s), S, W) \/ (Head(s) \in S /\ ~Occurs(Tail(s), W))
<1> DEFINE h == Head(s)
           r == Tail(s)
           n == Len(s)
<1>1. /\ h \in T /\ r \in Seq(T) /\ n \in Nat /\ n # 0 /\ DOMAIN s = 1 .. n
      /\ DOMAIN r = 1 .. n - 1 /\ s[1] = h /\ \A i \in 1 .. n - 1 : r[i] = s[i + 1]
  BY HeadTailProperties, LenProperties, EmptySeq
<1> HIDE DEF h, r, n
<1>2. /\ 1 \in 1 .. n
      /\ \A i \in 1 .. n - 1 : i + 1 \in 1 .. n /\ i + 1 # 1 /\ 1 < i + 1
      /\ \A i \in 1 .. n : i # 1 => i - 1 \in 1 .. n - 1 /\ (i - 1) + 1 = i /\ 1 < i
      /\ \A i, j \in Int : i < j <=> i - 1 < j - 1
      /\ \A i, j \in Int : i < j <=> i + 1 < j + 1
  BY <1>1
<1>3. \A i \in 1 .. n : i # 1 => r[i - 1] = s[i]
  BY <1>1, <1>2
<1>5. Unanswered(s, S, W) <=> Unanswered(r, S, W) \/ (h \in S /\ ~Occurs(r, W))
  <2>1. ASSUME Unanswered(s, S, W) PROVE Unanswered(r, S, W) \/ (h \in S /\ ~Occurs(r, W))
    <3>1. PICK i \in 1 .. n : s[i] \in S /\ \A k \in 1 .. n : i < k => s[k] \notin W
      BY <1>1, <2>1 DEF Unanswered
    <3>2. \A k \in 1 .. n - 1 : i < k + 1 => r[k] \notin W
      BY <1>1, <1>2, <3>1
    <3>3. CASE i = 1
      BY <1>1, <1>2, <3>1, <3>2, <3>3 DEF Occurs
    <3>4. CASE i # 1
      <4>1. i - 1 \in 1 .. n - 1 /\ r[i - 1] \in S
        BY <1>2, <1>3, <3>1, <3>4
      <4>2. \A k \in 1 .. n - 1 : i - 1 < k => r[k] \notin W
        BY <1>1, <3>2
      <4> QED
        BY <1>1, <4>1, <4>2 DEF Unanswered
    <3> QED
      BY <3>3, <3>4
  <2>2. ASSUME Unanswered(r, S, W) PROVE Unanswered(s, S, W)
    <3>1. PICK i \in 1 .. n - 1 : r[i] \in S /\ \A k \in 1 .. n - 1 : i < k => r[k] \notin W
      BY <1>1, <2>2 DEF Unanswered
    <3>2. i + 1 \in 1 .. n /\ s[i + 1] \in S
      BY <1>1, <1>2, <3>1
    <3>3. ASSUME NEW k \in 1 .. n, i + 1 < k PROVE s[k] \notin W
      <4>1. k # 1 /\ k - 1 \in 1 .. n - 1 /\ i < k - 1
        BY <1>1, <3>3
      <4> QED
        BY <1>3, <3>1, <4>1
    <3> QED
      BY <1>1, <3>2, <3>3 DEF Unanswered
  <2>3. ASSUME h \in S, ~Occurs(r, W) PROVE Unanswered(s, S, W)
    <3>1. ASSUME NEW k \in 1 .. n, 1 < k PROVE s[k] \notin W
      <4>1. k # 1 /\ k - 1 \in 1 .. n - 1
        BY <1>1, <3>1
      <4> QED
        BY <1>1, <1>3, <2>3, <4>1 DEF Occurs
    <3> QED
      BY <1>1, <1>2, <2>3, <3>1 DEF Unanswered
  <2> QED
    BY <2>1, <2>2, <2>3
<1> QED
  BY <1>5 DEF h, r

(* The order of the rest is as it was.                                     *)
LEMMA BehindTail ==
  ASSUME NEW T, NEW s \in Seq(T), s # << >>, NEW x, NEW y
  PROVE  Behind(s, x, y) => Behind(Tail(s), x, y) \/ Head(s) = x
<1> DEFINE h == Head(s)
           r == Tail(s)
           n == Len(s)
<1>1. /\ h \in T /\ r \in Seq(T) /\ n \in Nat /\ n # 0 /\ DOMAIN s = 1 .. n
      /\ DOMAIN r = 1 .. n - 1 /\ s[1] = h /\ \A i \in 1 .. n - 1 : r[i] = s[i + 1]
  BY HeadTailProperties, LenProperties, EmptySeq
<1> HIDE DEF h, r, n
<1>2. /\ 1 \in 1 .. n
      /\ \A i \in 1 .. n - 1 : i + 1 \in 1 .. n /\ i + 1 # 1 /\ 1 < i + 1
      /\ \A i \in 1 .. n : i # 1 => i - 1 \in 1 .. n - 1 /\ (i - 1) + 1 = i /\ 1 < i
      /\ \A i, j \in Int : i < j <=> i - 1 < j - 1
      /\ \A i, j \in Int : i < j <=> i + 1 < j + 1
  BY <1>1
<1>3. \A i \in 1 .. n : i # 1 => r[i - 1] = s[i]
  BY <1>1, <1>2
<1>6. ASSUME Behind(s, x, y), h # x PROVE Behind(r, x, y)
  <2>1. PICK i \in 1 .. n, j \in 1 .. n : i < j /\ s[i] = x /\ s[j] = y
    BY <1>1, <1>6 DEF Behind
  <2>2. i # 1 /\ j # 1 /\ i - 1 < j - 1
    BY <1>1, <1>6, <2>1
  <2>3. i - 1 \in 1 .. n - 1 /\ j - 1 \in 1 .. n - 1 /\ r[i - 1] = x /\ r[j - 1] = y
    BY <1>2, <1>3, <2>1, <2>2
  <2> QED
    BY <1>1, <2>2, <2>3 DEF Behind
<1> QED
  BY <1>6 DEF h, r

(* The only one of S is the first or in the rest.                          *)
LEMMA OnceTail ==
  ASSUME NEW T, NEW s \in Seq(T), s # << >>, NEW S, NEW x \in S, Once(s, x, S)
  PROVE  IF Head(s) \in S THEN Head(s) = x /\ ~Occurs(Tail(s), S) ELSE Once(Tail(s), x, S)
<1> DEFINE h == Head(s)
           r == Tail(s)
           n == Len(s)
<1>1. /\ h \in T /\ r \in Seq(T) /\ n \in Nat /\ n # 0 /\ DOMAIN s = 1 .. n
      /\ DOMAIN r = 1 .. n - 1 /\ s[1] = h /\ \A i \in 1 .. n - 1 : r[i] = s[i + 1]
  BY HeadTailProperties, LenProperties, EmptySeq
<1> HIDE DEF h, r, n
<1>2. /\ 1 \in 1 .. n
      /\ \A i \in 1 .. n - 1 : i + 1 \in 1 .. n /\ i + 1 # 1 /\ 1 < i + 1
      /\ \A i \in 1 .. n : i # 1 => i - 1 \in 1 .. n - 1 /\ (i - 1) + 1 = i /\ 1 < i
      /\ \A i, j \in Int : i < j <=> i - 1 < j - 1
      /\ \A i, j \in Int : i < j <=> i + 1 < j + 1
  BY <1>1
<1>3. \A i \in 1 .. n : i # 1 => r[i - 1] = s[i]
  BY <1>1, <1>2
<1>7. IF h \in S THEN h = x /\ ~Occurs(r, S) ELSE Once(r, x, S)
  <2>1. PICK i \in 1 .. n : s[i] = x /\ \A j \in 1 .. n : s[j] \in S => j = i
    BY <1>1 DEF Once
  <2>2. CASE h \in S
    <3>1. i = 1
      BY <1>1, <1>2, <2>1, <2>2
    <3>2. \A j \in 1 .. n - 1 : r[j] \notin S
      BY <1>1, <1>2, <2>1, <3>1
    <3> QED
      BY <1>1, <2>1, <2>2, <3>1, <3>2 DEF Occurs
  <2>3. CASE h \notin S
    <3>1. i # 1
      BY <1>1, <2>1, <2>3
    <3>2. \A j \in 1 .. n - 1 : r[j] \in S => j = i - 1
      <4> SUFFICES ASSUME NEW j \in 1 .. n - 1, r[j] \in S PROVE j = i - 1
        OBVIOUS
      <4>1. j + 1 = i
        BY <1>1, <1>2, <2>1
      <4> QED
        BY <1>1, <4>1
    <3> QED
      BY <1>1, <1>2, <1>3, <2>1, <2>3, <3>1, <3>2 DEF Once
  <2> QED
    BY <2>2, <2>3
<1> QED
  BY <1>7 DEF h, r

(* The last one of S, when one more comes or the first one goes.           *)
LEMMA LastAppend ==
  ASSUME NEW T, NEW s \in Seq(T), NEW e \in T, NEW S, NEW x
  PROVE  /\ e = x => LastIs(Append(s, e), x, S)
         /\ e \notin S /\ e # x => (LastIs(Append(s, e), x, S) <=> LastIs(s, x, S))
<1>1. /\ Occurs(Append(s, e), {x}) <=> Occurs(s, {x}) \/ e \in {x}
      /\ Unanswered(Append(s, e), S \ {x}, {x}) <=>
           e \in S \ {x} \/ (Unanswered(s, S \ {x}, {x}) /\ e \notin {x})
  BY OccursAppend, UnansweredAppend
<1> QED
  BY <1>1 DEF LastIs

(* When the first one goes, the last one of S stays or was the one that    *)
(* went.                                                                   *)
LEMMA LastTail ==
  ASSUME NEW T, NEW s \in Seq(T), s # << >>, NEW S, NEW x \in S, LastIs(s, x, S)
  PROVE  IF Occurs(Tail(s), S) THEN LastIs(Tail(s), x, S) ELSE Head(s) = x
<1> DEFINE r == Tail(s)
<1>1. /\ Occurs(s, {x}) <=> Head(s) \in {x} \/ Occurs(r, {x})
      /\ Unanswered(r, S \ {x}, {x}) => Unanswered(s, S \ {x}, {x})
  BY OccursTail, UnansweredTail
<1> HIDE DEF r
<1>2. Occurs(r, S) /\ ~Occurs(r, {x}) => Unanswered(r, S \ {x}, {x})
  BY DEF Occurs, Unanswered
<1>3. Occurs(r, {x}) => Occurs(r, S)
  BY DEF Occurs
<1> QED
  BY <1>1, <1>2, <1>3 DEF LastIs, r

(* Two queues with the same signals of logind in them.                     *)
SameSignals(s, t) ==
  /\ Occurs(s, Signal) <=> Occurs(t, Signal)
  /\ Occurs(s, {"sleep"}) <=> Occurs(t, {"sleep"})
  /\ Occurs(s, {"wake"}) <=> Occurs(t, {"wake"})
  /\ Unanswered(s, {"sleep"}, {"wake"}) <=> Unanswered(t, {"sleep"}, {"wake"})
  /\ Occurs(t, Signal) => /\ LastIs(s, "sleep", Signal) <=> LastIs(t, "sleep", Signal)
                          /\ LastIs(s, "wake", Signal) <=> LastIs(t, "wake", Signal)

(* Replies among the signals make no difference.                           *)
LEMMA SignalsKept ==
  ASSUME NEW s \in Seq(Message)
  PROVE  /\ SameSignals(s, s)
         /\ SameSignals(Append(s, "reply"), s)
         /\ s # << >> /\ Head(s) = "reply" => SameSignals(Tail(s), s)
         /\ ~Occurs(s, Signal) => SameSignals(<< >>, s)
<1>1. SameSignals(s, s)
  BY DEF SameSignals
<1>2. /\ "reply" \in Message /\ "reply" \notin Signal /\ "reply" # "sleep" /\ "reply" # "wake"
      /\ {"sleep", "wake"} = Signal
  BY DEF Message, Signal
<1>3. SameSignals(Append(s, "reply"), s)
  <2>1. \A S : "reply" \notin S => (Occurs(Append(s, "reply"), S) <=> Occurs(s, S))
    BY <1>2, OccursAppend
  <2>2. Unanswered(Append(s, "reply"), {"sleep"}, {"wake"}) <=> Unanswered(s, {"sleep"}, {"wake"})
    BY <1>2, UnansweredAppend
  <2>3. \A x \in Signal : LastIs(Append(s, "reply"), x, Signal) <=> LastIs(s, x, Signal)
    BY <1>2, LastAppend
  <2> QED
    BY <1>2, <2>1, <2>2, <2>3 DEF SameSignals
<1>4. ASSUME s # << >>, Head(s) = "reply" PROVE SameSignals(Tail(s), s)
  <2>1. \A S : "reply" \notin S => (Occurs(Tail(s), S) <=> Occurs(s, S))
    BY <1>4, OccursTail
  <2>2. \A S, W : "reply" \notin S => (Unanswered(Tail(s), S, W) <=> Unanswered(s, S, W))
    BY <1>4, UnansweredTail
  <2>3. \A x \in Signal : LastIs(Tail(s), x, Signal) <=> LastIs(s, x, Signal)
    BY <1>2, <2>1, <2>2 DEF LastIs
  <2> QED
    BY <1>2, <2>1, <2>2, <2>3 DEF SameSignals
<1>5. ASSUME ~Occurs(s, Signal) PROVE SameSignals(<< >>, s)
  <2>1. ~Occurs(s, {"sleep"}) /\ ~Occurs(s, {"wake"}) /\ ~Unanswered(s, {"sleep"}, {"wake"})
    BY <1>2, <1>5 DEF Occurs, Unanswered
  <2>2. /\ ~Occurs(<< >>, {"sleep"}) /\ ~Occurs(<< >>, {"wake"}) /\ ~Occurs(<< >>, Signal)
        /\ ~Unanswered(<< >>, {"sleep"}, {"wake"})
    BY EmptyQueue
  <2> QED
    BY <1>5, <2>1, <2>2 DEF SameSignals
<1> QED
  BY <1>1, <1>3, <1>4, <1>5

-----------------------------------------------------------------------------
(* Steps that leave the arbiter and what it will be asked alone.           *)

Queues == <<sleep, sleeps, work, calls, lifecycle, suspended, job, timeouts, safety, spoke>>

(* They keep the order of what is on its way, and what is due stays due.   *)
LEMMA QueuesFramed ==
  ASSUME OutageInv, UNCHANGED Queues,
         ~lost' => ~lost /\ SameSignals(inbox', inbox)
  PROVE  /\ CycleInv' /\ FollowInv' /\ AnsweredInv' /\ NoTimeout'
         /\ ~lost' => (SleepDue' <=> SleepDue) /\ (WakeDue' <=> WakeDue)
<1>1. \A fn : Runs(fn)' <=> Runs(fn)
  BY DEF Queues, Runs
<1>2. CycleInv'
  BY <1>1 DEF OutageInv, CycleInv, NoneReady, OneEnd, Queues
<1>3. FollowInv'
  BY <1>1 DEF OutageInv, FollowInv, Follows, Queues, SameSignals
<1>4. AnsweredInv'
  BY <1>1 DEF OutageInv, AnsweredInv, Queues, SameSignals
<1>5. NoTimeout'
  BY <1>1 DEF OutageInv, NoTimeout, Queues
<1>6. ~lost' => (SleepDue' <=> SleepDue) /\ (WakeDue' <=> WakeDue)
  BY <1>1 DEF SleepDue, WakeDue, Queues, SameSignals
<1> QED
  BY <1>2, <1>3, <1>4, <1>5, <1>6

(* What is left of the unread signals when the connection may be given up. *)
LEMMA UnreadKeeps ==
  ASSUME OutageType, BusInv', Unread
  PROVE  /\ inbox' \in Seq(Message) /\ lost' \in BOOLEAN
         /\ ~lost' => ~lost /\ SameSignals(inbox', inbox)
         /\ inbox' = inbox \/ reply' = "none"
<1>1. conn' = "none" => reply' = "none"
  BY DEF BusInv, DownIsClean, BusTypeOK
<1>2. inbox \in Seq(Message) /\ lost \in BOOLEAN
  BY DEF OutageType
<1>3. CASE conn' = "none"
  <2>1. inbox' = << >> /\ lost' = (lost \/ Occurs(inbox, Signal))
    BY <1>3 DEF Unread, Occurs
  <2>2. << >> \in Seq(Message)
    BY EmptySeq
  <2>3. lost' \in BOOLEAN /\ (~lost' => ~lost /\ ~Occurs(inbox, Signal))
    BY <2>1
  <2> QED
    BY <1>1, <1>2, <1>3, <2>1, <2>2, <2>3, SignalsKept
<1>4. CASE conn' # "none"
  <2>1. inbox' = inbox /\ (lost' <=> lost) /\ lost' \in BOOLEAN
    BY <1>4 DEF Unread
  <2> QED
    BY <1>2, <2>1, SignalsKept
<1> QED
  BY <1>3, <1>4

(* What most steps do with the lock: no reply comes, a lock is not taken,  *)
(* and one that is held or asked for stays so until the connection goes,   *)
(* unless a call of the monitor fails.                                     *)
LockSecured == held \/ reply \in {"waiting", "granted"} \/ conn = "none"

LockKept ==
  /\ reply' \in {"granted", "refused"} => reply' = reply
  /\ held' => held
  /\ faults' = MaxFaults => faults = MaxFaults /\ (LockSecured => LockSecured')

(* The connection's own steps and the bus do no more.                      *)
LEMMA ConnectionKeepsLock ==
  ASSUME IBusInv,
         \/ attach \/ attachFails \/ detach \/ stop \/ onBusReadable \/ onReconnectTimer
         \/ suspendSystem \/ BusBreaks \/ BusReturns \/ TimerExpires
  PROVE  LockKept
<1>1. BusTypeOK /\ faults \in 0..MaxFaults /\ MaxFaults \in Nat
  BY BusAssumption DEF IBusInv, BusInv, BusTypeOK
<1>2. ASSUME NEW n \in Nat, Costs(n) PROVE faults' = MaxFaults => faults = MaxFaults /\ n = 0
  BY <1>1, <1>2 DEF Costs
<1>3. ASSUME handleBusDisconnect PROVE LockKept
  <2>1. held' = FALSE /\ reply' = "none" /\ conn' = "none" /\ (Costs(0) \/ Costs(1))
    BY <1>3 DEF handleBusDisconnect, tearDownBusState
  <2> QED
    BY <1>2, <2>1 DEF LockKept, LockSecured
<1>4. CASE attach
  BY <1>3, <1>4 DEF attach, lockVars, LockKept, LockSecured
<1>5. CASE attachFails
  BY <1>2, <1>5 DEF attachFails, tearDownBusState, LockKept, LockSecured
<1>6. CASE detach
  BY <1>6 DEF detach, lockVars, LockKept, LockSecured
<1>7. CASE stop
  BY <1>7 DEF stop, tearDownBusState, LockKept, LockSecured
<1>8. CASE onBusReadable \/ suspendSystem
  BY <1>3, <1>8 DEF onBusReadable, suspendSystem, updateLoopRegistration
<1>9. CASE onReconnectTimer
  <2>1. CASE Reconnects
    BY <1>2, <2>1 DEF Reconnects, ScheduleInhibit, LockKept, LockSecured
  <2>2. ASSUME NEW n \in 0..1, ReconnectFails(n),
               \/ nextDelay(n) \/ ScheduleExhausted(n) \/ armHeartbeat(n)
        PROVE  LockKept
    <3>1. Costs(n) \/ Costs(n + 1)
      BY <2>2 DEF nextDelay, ScheduleExhausted, armHeartbeat
    <3>2. n \in Nat /\ n + 1 \in Nat
      BY <2>2
    <3>3. faults' = MaxFaults => faults = MaxFaults
      BY <1>2, <3>1, <3>2
    <3> QED
      BY <2>2, <3>3 DEF ReconnectFails, tearDownBusState, LockKept, LockSecured
  <2> QED
    BY <1>9, <2>1, <2>2 DEF onReconnectTimer
<1>10. CASE BusBreaks \/ BusReturns \/ TimerExpires
  BY <1>10 DEF BusBreaks, BusReturns, TimerExpires, lockVars, connVars, LockKept, LockSecured
<1> QED
  BY <1>4, <1>5, <1>6, <1>7, <1>8, <1>9, <1>10

(* Neither does a step that leaves the connection alone.                   *)
LEMMA UnchangedKeepsLock == ASSUME UNCHANGED busVars PROVE LockKept
BY DEF busVars, lockVars, connVars, LockKept, LockSecured

(* Then what is due of the lock stays due.                                 *)
LEMMA LockStaysDue ==
  ASSUME OutageInv, LockKept, inbox' = inbox \/ reply' = "none",
         UNCHANGED <<sleep, sleeps, timeouts>>,
         ~lost' => ~lost /\ (SleepDue => SleepDue') /\ (WakeDue => WakeDue')
  PROVE  ReplyInv' /\ ReleaseInv' /\ TakeInv'
<1>1. ReplyInv'
  <2>1. CASE reply' = "none"
    BY <2>1 DEF ReplyInv
  <2>2. CASE inbox' = inbox
    BY <2>2 DEF OutageInv, ReplyInv, LockKept
  <2> QED
    BY <2>1, <2>2
<1>2. ReleaseInv'
  BY DEF OutageInv, ReleaseInv, LockKept
<1>3. TakeInv'
  BY DEF OutageInv, TakeInv, LockKept, LockSecured
<1> QED
  BY <1>1, <1>2, <1>3

(* The steps of the connection, of the bus and of its timer.               *)
LEMMA ConnectionKeeps ==
  ASSUME OutageInv, IBusInv, IBusInv', ConnectionStep \/ BusFails \/ BusRestored \/ RetryDue
  PROVE  OutageInv'
<1>1. UNCHANGED <<Queues, requests>>
  BY DEF ConnectionStep, BusFails, BusRestored, RetryDue, Queues, otherVars, logindVars,
         arbiterVars, budgetVars, historyVars
<1>2. LockKept
  BY ConnectionKeepsLock DEF ConnectionStep, BusFails, BusRestored, RetryDue
<1>3. /\ inbox' \in Seq(Message) /\ lost' \in BOOLEAN
      /\ ~lost' => ~lost /\ SameSignals(inbox', inbox)
      /\ inbox' = inbox \/ reply' = "none"
  <2>1. CASE ConnectionStep
    BY <2>1, UnreadKeeps DEF ConnectionStep, OutageInv, IBusInv
  <2>2. CASE BusFails \/ BusRestored \/ RetryDue
    BY <2>2, SignalsKept DEF BusFails, BusRestored, RetryDue, otherVars, logindVars, historyVars,
                             OutageInv, OutageType
  <2> QED
    BY <2>1, <2>2
<1>4. /\ CycleInv' /\ FollowInv' /\ AnsweredInv' /\ NoTimeout'
      /\ ~lost' => (SleepDue' <=> SleepDue) /\ (WakeDue' <=> WakeDue)
  BY <1>1, <1>3, QueuesFramed
<1>5. OutageType'
  BY <1>1, <1>3 DEF OutageInv, OutageType, Queues
<1>6. ReplyInv' /\ ReleaseInv' /\ TakeInv'
  BY <1>1, <1>2, <1>3, <1>4, LockStaysDue DEF Queues
<1> QED
  BY <1>4, <1>5, <1>6 DEF OutageInv

(* onInhibitReply.                                                         *)
LEMMA ReplyKeeps ==
  ASSUME OutageInv, IBusInv, InhibitReply
  PROVE  OutageInv'
<1>1. /\ UNCHANGED <<Queues, requests, lost>> /\ inbox # << >> /\ Head(inbox) = "reply"
      /\ inbox' = Tail(inbox) /\ onInhibitReply
  BY DEF InhibitReply, Queues, arbiterVars, budgetVars, historyVars
<1>2. inbox \in Seq(Message) /\ inbox' \in Seq(Message) /\ SameSignals(inbox', inbox)
  BY <1>1, SignalsKept, OccursTail DEF OutageInv, OutageType
<1>3. /\ CycleInv' /\ FollowInv' /\ AnsweredInv' /\ NoTimeout'
      /\ ~lost' => (SleepDue' <=> SleepDue) /\ (WakeDue' <=> WakeDue)
  BY <1>1, <1>2, QueuesFramed
<1>4. OutageType'
  BY <1>1, <1>2 DEF OutageInv, OutageType, Queues
<1>5. reply' = "none" /\ reply \in {"granted", "refused"}
  BY <1>1 DEF onInhibitReply
<1>6. ReplyInv'
  BY <1>5 DEF ReplyInv
<1>7. \A y : Behind(inbox, "reply", y) => Occurs(inbox, {y})
  BY DEF Behind, Occurs
<1>8. ~lost /\ sleep = "preparing" /\ reply = "granted" => SleepDue
  BY <1>7 DEF OutageInv, ReplyInv, SleepDue
<1>9. ~lost /\ sleep = "awake" /\ reply = "refused" => WakeDue
  BY <1>7 DEF OutageInv, ReplyInv, WakeDue
<1>10. ReleaseInv'
  <2>1. reply = "granted" \/ held' = held
    BY <1>1 DEF onInhibitReply
  <2> QED
    BY <1>1, <1>3, <1>8, <2>1 DEF OutageInv, ReleaseInv, Queues
<1>11. TakeInv'
  <2>1. faults' = MaxFaults => faults = MaxFaults /\ (reply = "granted" => held')
    <3>1. faults \in 0..MaxFaults /\ MaxFaults \in Nat
      BY BusAssumption DEF IBusInv, BusInv, BusTypeOK
    <3>2. Costs(1) => faults' # MaxFaults
      BY <3>1 DEF Costs
    <3>3. Costs(0) => faults' = faults
      BY <3>1 DEF Costs
    <3> QED
      BY <1>1, <3>2, <3>3 DEF onInhibitReply
  <2> QED
    BY <1>1, <1>3, <1>5, <1>9, <2>1 DEF TakeInv, Queues
<1> QED
  BY <1>3, <1>4, <1>6, <1>10, <1>11 DEF OutageInv

(* logind answers an Inhibit call.                                         *)
LEMMA AnswerKeeps ==
  ASSUME OutageInv, AnswerInhibit
  PROVE  OutageInv'
<1>1. /\ UNCHANGED <<Queues, requests, lost, held, faults, conn>>
      /\ inbox' = Append(inbox, "reply")
      /\ reply = "waiting" /\ reply' = IF sleep = "awake" THEN "granted" ELSE "refused"
  BY DEF AnswerInhibit, LogindAnswers, Queues, arbiterVars, budgetVars, historyVars, connVars
<1>2. /\ inbox' \in Seq(Message) /\ SameSignals(inbox', inbox) /\ Occurs(inbox', {"reply"})
  <2>1. inbox \in Seq(Message) /\ "reply" \in Message
    BY DEF OutageInv, OutageType, Message
  <2> QED
    BY <1>1, <2>1, SignalsKept, OccursAppend
<1>3. /\ CycleInv' /\ FollowInv' /\ AnsweredInv' /\ NoTimeout'
      /\ ~lost' => (SleepDue' <=> SleepDue) /\ (WakeDue' <=> WakeDue)
  BY <1>1, <1>2, QueuesFramed
<1>4. OutageType'
  BY <1>1, <1>2 DEF OutageInv, OutageType, Queues
<1>5. ReplyInv'
  BY <1>1, <1>2 DEF ReplyInv, Queues
<1>6. ReleaseInv' /\ TakeInv'
  BY <1>1, <1>3 DEF OutageInv, ReleaseInv, TakeInv, Queues
<1> QED
  BY <1>3, <1>4, <1>5, <1>6 DEF OutageInv

(* Which call runs.                                                        *)
LEMMA RunsNone == ASSUME calls = << >>, NEW fn PROVE ~Runs(fn)
BY DEF Runs

(* Only the handler that was dispatched runs next.                         *)
LEMMA RunsNext ==
  ASSUME NEW fn, calls' = <<fn>>
  PROVE  \A f : Runs(f)' <=> f = fn
<1>1. <<fn>> # << >> /\ Head(<<fn>>) = fn
  OBVIOUS
<1> QED
  BY <1>1 DEF Runs

(* logind announces a sleep or a wake-up.                                  *)
LEMMA LogindKeeps ==
  ASSUME OutageInv, PrepareForSleep \/ WakeUp
  PROVE  OutageInv'
<1> DEFINE e == IF sleep = "awake" THEN "sleep" ELSE "wake"
<1>1. /\ UNCHANGED <<work, calls, lifecycle, suspended, job, timeouts, safety, requests, busVars>>
      /\ inbox' = (IF conn = "open" THEN Append(inbox, e) ELSE inbox) /\ lost' = (conn # "open")
      /\ sleep' = (IF sleep = "awake" THEN "preparing" ELSE "awake")
      /\ sleeps' \in 0..MaxSleeps
  <2>1. sleeps \in 0..MaxSleeps /\ MaxSleeps \in Nat
    BY SleepAssumption DEF OutageInv, OutageType
  <2>2. sleeps > 0 => sleeps - 1 \in 0..MaxSleeps
    BY <2>1
  <2> QED
    BY <2>1, <2>2 DEF PrepareForSleep, WakeUp, Send, arbiterVars, budgetVars
<1>2. inbox \in Seq(Message) /\ e \in Message /\ e \in Signal
  BY DEF OutageInv, OutageType, Message, Signal
<1>3. UNCHANGED <<reply, held, conn, faults>>
  BY <1>1 DEF busVars, lockVars, connVars
<1>4. \A fn : Runs(fn)' <=> Runs(fn)
  BY <1>1 DEF Runs
<1>5. OutageType'
  <2>1. inbox' \in Seq(Message)
    BY <1>1, <1>2, OccursAppend
  <2>2. lost' \in BOOLEAN /\ sleep' \in {"awake", "preparing"}
    BY <1>1
  <2> QED
    BY <1>1, <2>1, <2>2 DEF OutageInv, OutageType
<1>6. CycleInv' /\ NoTimeout'
  BY <1>1, <1>4 DEF OutageInv, CycleInv, NoneReady, OneEnd, NoTimeout
<1>7. CASE lost'
  <2>1. conn # "open" /\ inbox' = inbox
    BY <1>1, <1>7
  <2> QED
    BY <1>3, <1>5, <1>6, <1>7, <2>1
       DEF OutageInv, FollowInv, AnsweredInv, ReplyInv, ReleaseInv, TakeInv
<1>8. CASE ~lost'
  <2>1. inbox' = Append(inbox, e)
    BY <1>1, <1>8
  <2>2. /\ Occurs(inbox', Signal) /\ Occurs(inbox', {e}) /\ LastIs(inbox', e, Signal)
        /\ Occurs(inbox, {"reply"}) => Occurs(inbox', {"reply"}) /\ Behind(inbox', "reply", e)
    BY <1>2, <2>1, OccursAppend, LastAppend, BehindAppend
  <2>3. e = "wake" => ~Unanswered(inbox', {"sleep"}, {"wake"})
    BY <1>2, <2>1, UnansweredAppend
  <2>4. /\ e = "sleep" <=> sleep' = "preparing"
        /\ e = "wake" <=> sleep' = "awake"
    BY <1>1
  <2> HIDE DEF e
  <2>5. FollowInv'
    BY <2>2, <2>4 DEF FollowInv, Follows
  <2>6. AnsweredInv'
    BY <2>2, <2>3, <2>4 DEF AnsweredInv
  <2>7. ReplyInv'
    BY <1>3, <2>2, <2>4 DEF OutageInv, ReplyInv
  <2>8. ReleaseInv' /\ TakeInv'
    BY <2>2, <2>4 DEF ReleaseInv, TakeInv, SleepDue, WakeDue
  <2> QED
    BY <1>5, <1>6, <2>5, <2>6, <2>7, <2>8 DEF OutageInv
<1> QED
  BY <1>7, <1>8

-----------------------------------------------------------------------------
(* The loop.                                                               *)

(* The sets a closure may be of.                                           *)
LEMMA WorkSets ==
  /\ LogindFn \cap Completion = {} /\ LogindFn \subseteq Request /\ Request \cap Completion = {}
  /\ LogindFn \cup Completion \subseteq Fn
  /\ \A fn \in LogindFn \cup Completion : fn \notin LogindFn => fn \in Completion /\ fn \notin Request
  /\ "suspendDBus" \in LogindFn /\ "resumeDBus" \in LogindFn
  /\ "suspendCompleted" \in Completion /\ "resumeCompleted" \in Completion
  /\ "safetyTimerFired" \notin LogindFn \cup Completion
  /\ "pumpQueue" \notin LogindFn \cup Completion
BY DEF LogindFn, Completion, Request, Fn

(* The daemon reads a signal of logind and posts what it asks for.         *)
LEMMA SignalKeeps ==
  ASSUME OutageInv, OnPrepareForSleep
  PROVE  OutageInv'
<1> DEFINE h == Head(inbox)
           r == Tail(inbox)
           fn == IF h = "sleep" THEN "suspendDBus" ELSE "resumeDBus"
<1>1. /\ calls = << >> /\ inbox # << >> /\ h \in Signal /\ inbox' = r /\ work' = Append(work, fn)
      /\ UNCHANGED <<busVars, sleep, sleeps, calls, lifecycle, suspended, job, safety, timeouts,
                     requests, lost, spoke>>
  BY DEF OnPrepareForSleep, Idle, Between, arbiterVars, budgetVars, historyVars
<1>2. inbox \in Seq(Message) /\ work \in Seq(LogindFn \cup Completion) /\ fn \in LogindFn
  BY DEF OutageInv, OutageType, LogindFn
<1>3. h \in {"sleep", "wake"} /\ Signal = {"sleep", "wake"} /\ h # "reply"
  BY <1>1 DEF Signal
<1>4. \A f : ~Runs(f) /\ ~Runs(f)'
  BY <1>1 DEF Runs
<1>5. r \in Seq(Message) /\ work' \in Seq(LogindFn \cup Completion)
  BY <1>1, <1>2, OccursTail, OccursAppend
<1>6. /\ fn = "suspendDBus" <=> h = "sleep"
      /\ fn = "resumeDBus" <=> h = "wake"
  BY <1>3
<1>7. UNCHANGED <<reply, held, conn, faults>>
  BY <1>1 DEF busVars, lockVars, connVars
<1> HIDE DEF h, r, fn
<1>8. /\ \A S : Occurs(inbox, S) <=> h \in S \/ Occurs(r, S)
      /\ \A S, W : Unanswered(inbox, S, W) <=> Unanswered(r, S, W) \/ (h \in S /\ ~Occurs(r, W))
      /\ \A y : Behind(inbox, "reply", y) => Behind(r, "reply", y)
  BY <1>1, <1>2, <1>3, OccursTail, UnansweredTail, BehindTail DEF h, r
<1>9. /\ \A S : Occurs(work', S) <=> Occurs(work, S) \/ fn \in S
      /\ \A S, W : Unanswered(work', S, W) <=> fn \in S \/ (Unanswered(work, S, W) /\ fn \notin W)
  BY <1>1, <1>2, OccursAppend, UnansweredAppend
<1>10. OutageType'
  BY <1>1, <1>5 DEF OutageInv, OutageType
<1>11. CycleInv' /\ NoTimeout'
  <2>1. fn \notin Completion
    BY <1>2, WorkSets
  <2>2. Occurs(work', Completion) <=> Occurs(work, Completion)
    BY <1>9, <2>1
  <2>3. \A x : Once(work, x, Completion) => Once(work', x, Completion)
    BY <1>1, <1>2, <2>1, OnceAppend
  <2> QED
    BY <1>1, <1>4, <2>2, <2>3 DEF OutageInv, CycleInv, NoneReady, OneEnd, NoTimeout
<1>12. ASSUME NEW signal \in Signal, NEW f, NEW kind, h = signal => fn = f,
              Follows(signal, f, kind)
       PROVE  Follows(signal, f, kind)'
  <2>1. LastIs(inbox, signal, Signal)
    BY <1>1, <1>8, <1>12 DEF Follows
  <2>2. IF Occurs(r, Signal) THEN LastIs(r, signal, Signal) ELSE h = signal
    BY <1>1, <1>2, <2>1, LastTail DEF h, r
  <2>3. CASE Occurs(r, Signal)
    BY <1>1, <2>2, <2>3 DEF Follows
  <2>4. CASE ~Occurs(r, Signal)
    <3>1. fn = f
      BY <1>12, <2>2, <2>4
    <3>2. Occurs(work', LogindFn)
      BY <1>2, <1>9
    <3>3. LastIs(work', f, LogindFn)
      BY <1>1, <1>2, <3>1, LastAppend
    <3> QED
      BY <1>1, <2>4, <3>2, <3>3 DEF Follows
  <2> QED
    BY <2>3, <2>4
<1>13. FollowInv'
  <2>1. "sleep" \in Signal /\ "wake" \in Signal
    BY <1>3
  <2> QED
    BY <1>1, <1>6, <1>12, <2>1 DEF OutageInv, FollowInv
<1>14. AnsweredInv'
  BY <1>1, <1>3, <1>4, <1>6, <1>8, <1>9 DEF OutageInv, AnsweredInv
<1>15. ReplyInv'
  BY <1>1, <1>3, <1>7, <1>8 DEF OutageInv, ReplyInv
<1>16. (SleepDue => SleepDue') /\ (WakeDue => WakeDue')
  BY <1>1, <1>4, <1>6, <1>8, <1>9 DEF SleepDue, WakeDue
<1>17. ReleaseInv' /\ TakeInv'
  BY <1>1, <1>7, <1>16 DEF OutageInv, ReleaseInv, TakeInv
<1> QED
  BY <1>10, <1>11, <1>13, <1>14, <1>15, <1>17 DEF OutageInv

(* The loop runs the next closure.                                         *)
LEMMA ClosureKeeps ==
  ASSUME OutageInv, RunClosure
  PROVE  OutageInv'
<1> DEFINE h == Head(work)
           r == Tail(work)
<1>1. /\ calls = << >> /\ work # << >> /\ calls' = <<h>> /\ work' = r
      /\ UNCHANGED <<busVars, inbox, sleep, sleeps, lifecycle, suspended, job, safety, timeouts,
                     requests, lost, spoke>>
  BY DEF RunClosure, Idle, Between, logindVars, arbiterVars, budgetVars, historyVars
<1>2. work \in Seq(LogindFn \cup Completion)
  BY DEF OutageInv, OutageType
<1>3. h \in LogindFn \cup Completion /\ r \in Seq(LogindFn \cup Completion)
  BY <1>1, <1>2, OccursTail
<1>4. (\A f : ~Runs(f)) /\ (\A f : Runs(f)' <=> f = h)
  BY <1>1, RunsNone, RunsNext
<1> HIDE DEF h, r
<1>5. /\ \A S : Occurs(work, S) <=> h \in S \/ Occurs(r, S)
      /\ \A S, W : Unanswered(work, S, W) <=> Unanswered(r, S, W) \/ (h \in S /\ ~Occurs(r, W))
  BY <1>1, <1>2, OccursTail, UnansweredTail DEF h, r
<1>6. OutageType'
  <2>1. h \in Fn
    BY <1>3, WorkSets
  <2> QED
    BY <1>1, <1>3, <2>1 DEF OutageInv, OutageType
<1>7. CycleInv' /\ NoTimeout'
  <2>1. \A x \in Completion : Once(work, x, Completion) =>
          IF h \in Completion THEN h = x /\ ~Occurs(r, Completion) ELSE Once(r, x, Completion)
    BY <1>1, <1>2, OnceTail DEF h, r
  <2>2. /\ "suspendCompleted" \in Completion /\ "resumeCompleted" \in Completion
        /\ h # "safetyTimerFired" /\ h # "pumpQueue"
    BY <1>3, WorkSets
  <2>3. ASSUME NEW kind, NEW fn \in Completion, OneEnd(kind, fn) PROVE OneEnd(kind, fn)'
    <3>1. \/ job = kind /\ ~Occurs(work, Completion)
          \/ job = "none" /\ Once(work, fn, Completion)
      BY <1>4, <2>3 DEF OneEnd, NoneReady
    <3>2. CASE job = kind /\ ~Occurs(work, Completion)
      BY <1>1, <1>4, <1>5, <2>2, <3>2 DEF OneEnd, NoneReady
    <3>3. CASE job = "none" /\ Once(work, fn, Completion)
      BY <1>1, <1>4, <2>1, <2>2, <2>3, <3>3 DEF OneEnd
    <3> QED
      BY <3>1, <3>2, <3>3
  <2>4. NoneReady => NoneReady'
    BY <1>1, <1>4, <1>5, <2>2 DEF NoneReady
  <2> QED
    BY <1>1, <1>4, <2>2, <2>3, <2>4 DEF OutageInv, CycleInv, NoTimeout
<1>8. ASSUME NEW signal, NEW fn \in LogindFn, NEW kind, Follows(signal, fn, kind)
      PROVE  Follows(signal, fn, kind)'
  <2>1. CASE Occurs(inbox, Signal)
    BY <1>1, <1>8, <2>1 DEF Follows
  <2>2. CASE ~Occurs(inbox, Signal) /\ Occurs(work, LogindFn)
    <3>1. LastIs(work, fn, LogindFn)
      BY <1>8, <2>2 DEF Follows
    <3>2. IF Occurs(r, LogindFn) THEN LastIs(r, fn, LogindFn) ELSE h = fn
      BY <1>1, <1>2, <1>8, <3>1, LastTail DEF h, r
    <3>3. fn \in Request
      BY <1>8, WorkSets
    <3> QED
      BY <1>1, <1>4, <2>2, <3>2, <3>3 DEF Follows
  <2>3. CASE ~Occurs(inbox, Signal) /\ ~Occurs(work, LogindFn)
    <3>1. LastAccepted(lifecycle, suspended, kind)
      BY <1>4, <1>8, <2>3 DEF Follows
    <3>2. ~Occurs(r, LogindFn) /\ h \notin Request
      BY <1>3, <1>5, <2>3, WorkSets
    <3> QED
      BY <1>1, <1>4, <2>3, <3>1, <3>2 DEF Follows
  <2> QED
    BY <2>1, <2>2, <2>3
<1>9. FollowInv'
  <2>1. "suspendDBus" \in LogindFn /\ "resumeDBus" \in LogindFn
    BY WorkSets
  <2> QED
    BY <1>1, <1>8, <2>1 DEF OutageInv, FollowInv
<1>10. AnsweredInv'
  BY <1>1, <1>4, <1>5 DEF OutageInv, AnsweredInv
<1>11. (SleepDue => SleepDue') /\ (WakeDue => WakeDue')
  BY <1>1, <1>4, <1>5 DEF SleepDue, WakeDue
<1>12. ReplyInv' /\ ReleaseInv' /\ TakeInv'
  BY <1>1, <1>11, UnchangedKeepsLock, LockStaysDue
<1> QED
  BY <1>6, <1>7, <1>9, <1>10, <1>12 DEF OutageInv

(* The worker is done and posts the completion.                            *)
LEMMA JobKeeps ==
  ASSUME OutageInv, JobDone
  PROVE  OutageInv'
<1> DEFINE fn == IF job = "suspend" THEN "suspendCompleted" ELSE "resumeCompleted"
<1>1. /\ calls = << >> /\ job # "none" /\ job' = "none" /\ work' = Append(work, fn)
      /\ UNCHANGED <<busVars, inbox, sleep, sleeps, calls, lifecycle, suspended, safety, timeouts,
                     requests, lost, spoke>>
  BY DEF JobDone, Between, logindVars, budgetVars, historyVars
<1>2. /\ work \in Seq(LogindFn \cup Completion) /\ fn \in LogindFn \cup Completion
      /\ fn \in Completion /\ fn \notin LogindFn /\ job \in {"suspend", "resume"}
  BY <1>1, WorkSets DEF OutageInv, OutageType
<1>3. \A f : ~Runs(f) /\ ~Runs(f)'
  BY <1>1 DEF Runs
<1>4. /\ \A S : Occurs(work', S) <=> Occurs(work, S) \/ fn \in S
      /\ \A S, W : Unanswered(work', S, W) <=> fn \in S \/ (Unanswered(work, S, W) /\ fn \notin W)
      /\ work' \in Seq(LogindFn \cup Completion)
  BY <1>1, <1>2, OccursAppend, UnansweredAppend
<1>5. /\ fn = "suspendCompleted" <=> job = "suspend"
      /\ fn = "resumeCompleted" <=> job = "resume"
  BY <1>2
<1>6. fn # "suspendDBus" /\ fn # "resumeDBus"
  OBVIOUS
<1> HIDE DEF fn
<1>7. OutageType'
  BY <1>1, <1>4 DEF OutageInv, OutageType
<1>8. CycleInv' /\ NoTimeout'
  <2>1. ASSUME NEW kind, NEW f, OneEnd(kind, f), kind = job => fn = f
        PROVE  kind = job /\ OneEnd(kind, f)'
    <3>1. job = kind /\ ~Occurs(work, Completion)
      BY <1>1, <2>1 DEF OneEnd, NoneReady
    <3>2. Once(work', f, Completion)
      BY <1>1, <1>2, <2>1, <3>1, OnceAppend
    <3> QED
      BY <1>1, <1>3, <3>1, <3>2 DEF OneEnd
  <2>2. lifecycle.phase # "Idle"
    BY <1>1 DEF OutageInv, CycleInv
  <2> QED
    BY <1>1, <1>5, <2>1, <2>2 DEF OutageInv, CycleInv, NoTimeout, Runs
<1>9. ASSUME NEW signal, NEW f \in LogindFn, NEW kind, Follows(signal, f, kind)
      PROVE  Follows(signal, f, kind)'
  <2>1. Occurs(work', LogindFn) <=> Occurs(work, LogindFn)
    BY <1>2, <1>4
  <2>2. LastIs(work', f, LogindFn) <=> LastIs(work, f, LogindFn)
    BY <1>1, <1>2, <1>9, LastAppend
  <2> QED
    BY <1>1, <1>3, <1>9, <2>1, <2>2 DEF Follows
<1>10. FollowInv'
  <2>1. "suspendDBus" \in LogindFn /\ "resumeDBus" \in LogindFn
    BY WorkSets
  <2> QED
    BY <1>1, <1>9, <2>1 DEF OutageInv, FollowInv
<1>11. AnsweredInv'
  BY <1>1, <1>3, <1>4, <1>6 DEF OutageInv, AnsweredInv
<1>12. (SleepDue => SleepDue') /\ (WakeDue => WakeDue')
  BY <1>1, <1>3, <1>4 DEF SleepDue, WakeDue
<1>13. ReplyInv' /\ ReleaseInv' /\ TakeInv'
  BY <1>1, <1>12, UnchangedKeepsLock, LockStaysDue
<1> QED
  BY <1>7, <1>8, <1>10, <1>11, <1>13 DEF OutageInv

(* A client asks, or the safety timer expires or is read.                  *)
LEMMA InputKeeps ==
  ASSUME OutageInv, WireRequest \/ SafetyTimerExpires \/ SafetyTimerFired
  PROVE  OutageInv'
<1>1. /\ calls = << >>
      /\ UNCHANGED <<busVars, inbox, sleep, sleeps, work, lifecycle, suspended, job, lost>>
  BY DEF WireRequest, SafetyTimerExpires, SafetyTimerFired, Idle, Between, logindVars, arbiterVars,
         historyVars
<1>2. \A f : ~Runs(f)
  BY <1>1, RunsNone
<1>3. \/ calls' = << >>
      \/ \E fn \in {"suspendWire", "resumeWire", "safetyTimerFired"} : calls' = <<fn>>
  BY <1>1 DEF WireRequest, SafetyTimerExpires, SafetyTimerFired
<1>4. \A f : Runs(f)' => f \in {"suspendWire", "resumeWire", "safetyTimerFired"}
  BY <1>3, RunsNext DEF Runs
<1>5. /\ requests' \in Nat /\ timeouts' \in 0..MaxTimeouts /\ safety' \in {"off", "armed", "expired"}
      /\ timeouts' = MaxTimeouts =>
           /\ timeouts = MaxTimeouts
           /\ safety' # "expired" /\ ~Runs("safetyTimerFired")'
  <2>1. /\ requests \in Nat /\ timeouts \in 0..MaxTimeouts /\ MaxTimeouts \in Nat
        /\ safety \in {"off", "armed", "expired"}
        /\ timeouts = MaxTimeouts => safety # "expired"
    BY SleepAssumption DEF OutageInv, OutageType, NoTimeout
  <2>2. CASE WireRequest
    <3>1. requests' \in Nat /\ UNCHANGED <<timeouts, safety>>
      BY <2>1, <2>2 DEF WireRequest, arbiterVars
    <3>2. ~Runs("safetyTimerFired")'
      <4>1. \E fn \in {"suspendWire", "resumeWire"} : calls' = <<fn>>
        BY <2>2 DEF WireRequest
      <4> QED
        BY <4>1, RunsNext
    <3> QED
      BY <2>1, <3>1, <3>2
  <2>3. CASE SafetyTimerExpires
    <3>1. timeouts' \in 0..MaxTimeouts /\ timeouts' # MaxTimeouts
      BY <2>1, <2>3 DEF SafetyTimerExpires
    <3> QED
      BY <2>1, <2>3, <3>1 DEF SafetyTimerExpires
  <2>4. CASE SafetyTimerFired
    BY <2>1, <2>4 DEF SafetyTimerFired, budgetVars
  <2> QED
    BY <2>2, <2>3, <2>4
<1>6. spoke' = spoke \/ spoke' = "client"
  BY DEF WireRequest, SafetyTimerExpires, SafetyTimerFired, historyVars
<1>7. OutageType'
  <2>1. {"suspendWire", "resumeWire", "safetyTimerFired"} \subseteq Fn
    BY DEF Fn, Request
  <2> QED
    BY <1>1, <1>3, <1>5, <2>1 DEF OutageInv, OutageType
<1>8. CycleInv'
  <2>1. ~Runs("suspendCompleted")' /\ ~Runs("resumeCompleted")'
    BY <1>4
  <2>2. ~(lifecycle.phase = "Idle" /\ lifecycle.pending # << >>)
    BY <1>2 DEF OutageInv, CycleInv
  <2> QED
    BY <1>1, <1>2, <2>1, <2>2 DEF OutageInv, CycleInv, NoneReady, OneEnd
<1>9. NoTimeout'
  BY <1>1, <1>5 DEF OutageInv, NoTimeout
<1>10. FollowInv'
  <2>1. CASE spoke' = "client"
    BY <2>1 DEF FollowInv
  <2>2. CASE spoke' = spoke /\ spoke' # "client"
    <3>1. \A f \in Request : ~Runs(f)'
      <4>1. ~WireRequest
        BY <2>2 DEF WireRequest
      <4>2. calls' = << >> \/ calls' = <<"safetyTimerFired">>
        BY <1>1, <4>1 DEF SafetyTimerExpires, SafetyTimerFired
      <4>3. "safetyTimerFired" \notin Request
        BY DEF Request, LogindFn
      <4> QED
        BY <4>2, <4>3, RunsNext DEF Runs
    <3>2. ASSUME NEW signal, NEW f, NEW kind, Follows(signal, f, kind)
          PROVE  Follows(signal, f, kind)'
      BY <1>1, <1>2, <3>1, <3>2 DEF Follows
    <3> QED
      BY <1>1, <2>2, <3>2 DEF OutageInv, FollowInv
  <2> QED
    BY <1>6, <2>1, <2>2
<1>11. AnsweredInv'
  BY <1>1, <1>2, <1>4 DEF OutageInv, AnsweredInv
<1>12. (SleepDue => SleepDue') /\ (WakeDue => WakeDue')
  BY <1>1, <1>2 DEF SleepDue, WakeDue
<1>13. UNCHANGED <<held, reply, conn, faults>>
  BY <1>1 DEF busVars, lockVars, connVars
<1>14. ReplyInv' /\ ReleaseInv' /\ TakeInv'
  BY <1>1, <1>5, <1>12, <1>13 DEF OutageInv, ReplyInv, ReleaseInv, TakeInv
<1> QED
  BY <1>7, <1>8, <1>9, <1>10, <1>11, <1>14 DEF OutageInv

-----------------------------------------------------------------------------
(* The arbiter.                                                            *)

(* A request is the last one accepted, whether it is appended or the same  *)
(* as the one before.                                                      *)
LEMMA RequestAccepted ==
  ASSUME NEW lc \in PowerLifecycleState, NEW kind \in EventKind, NEW source \in Source
  PROVE  LET e == [kind |-> kind, source |-> source]
             r == onRequested(lc, kind, source).lc IN
         /\ r \in PowerLifecycleState /\ r.phase = lc.phase /\ r.phaseSource = lc.phaseSource
         /\ r.safetyFiredFirst = lc.safetyFiredFirst
         /\ \A susp : LastAccepted(r, susp, kind)
         /\ SleepAccepted(lc) \/ e \in SleepRequest => SleepAccepted(r)
         /\ WakeAccepted(lc) \/ e \in WakeRequest => WakeAccepted(r)
         /\ UnansweredRequest(r) =>
              e \in SleepRequest \/ (UnansweredRequest(lc) /\ e \notin WakeRequest)
<1> DEFINE e == [kind |-> kind, source |-> source]
           p == lc.pending
           r == onRequested(lc, kind, source).lc
<1>1. e \in Pending /\ e.kind = kind /\ e.source = source /\ p \in Seq(Pending)
  BY DEF Pending, PowerLifecycleState
<1>2. /\ e \in SleepRequest <=> kind = "Suspend" /\ source = "DBus"
      /\ e \in WakeRequest <=> kind = "Resume" /\ source = "DBus"
      /\ kind \in {"Suspend", "Resume"}
  BY DEF SleepRequest, WakeRequest, EventKind
<1>3. CASE coalescesWithEffectiveTail(lc, kind, source)
  <2>1. r = lc
    BY <1>3 DEF onRequested, Transition
  <2>2. CASE p = << >>
    <3>1. /\ lc.phase = (IF kind = "Suspend" THEN "Suspending" ELSE "Resuming")
          /\ lc.phaseSource = source
      BY <1>3, <2>2 DEF coalescesWithEffectiveTail
    <3>2. ~Occurs(p, SleepRequest) /\ ~Occurs(p, WakeRequest)
          /\ ~Unanswered(p, SleepRequest, WakeRequest)
      BY <2>2, EmptyQueue
    <3>3. lc.phase # "Idle"
      BY <3>1
    <3> QED
      BY <1>2, <2>1, <2>2, <3>1, <3>2, <3>3
         DEF LastAccepted, SleepAccepted, WakeAccepted, UnansweredRequest
  <2>3. CASE p # << >>
    <3> DEFINE n == Len(p)
    <3>1. n \in DOMAIN p /\ p[n] = e /\ \A k \in DOMAIN p : ~(n < k)
      <4>1. p[n] = e
        BY <1>3, <2>3 DEF coalescesWithEffectiveTail
      <4>2. n \in Nat /\ n # 0 /\ DOMAIN p = 1 .. n
        BY <1>1, <2>3, LenProperties, EmptySeq
      <4>3. \A m \in Nat : m # 0 => m \in 1 .. m /\ \A k \in 1 .. m : ~(m < k)
        OBVIOUS
      <4> HIDE DEF n, p, e
      <4> QED
        BY <4>1, <4>2, <4>3
    <3>2. \A susp : LastAccepted(lc, susp, kind)
      BY <1>1, <2>3, <3>1 DEF LastAccepted
    <3> HIDE DEF n, e, p
    <3>3. /\ e \in SleepRequest => Occurs(p, SleepRequest)
          /\ e \in WakeRequest => Occurs(p, WakeRequest)
      BY <3>1 DEF Occurs
    <3>4. e \in WakeRequest => ~Unanswered(p, SleepRequest, WakeRequest)
      <4> SUFFICES ASSUME e \in WakeRequest, NEW i \in DOMAIN p, p[i] \in SleepRequest,
                          \A k \in DOMAIN p : i < k => p[k] \notin WakeRequest
                   PROVE  FALSE
        BY DEF Unanswered
      <4>1. ~(i < n) /\ ~(n < i)
        BY <3>1
      <4>2. i = n
        <5>1. i \in Nat /\ n \in Nat
          BY <1>1, <3>1, LenProperties
        <5> QED
          BY <4>1, <5>1
      <4> QED
        BY <1>2, <3>1, <4>2
    <3>5. /\ SleepAccepted(lc) \/ e \in SleepRequest => SleepAccepted(lc)
          /\ WakeAccepted(lc) \/ e \in WakeRequest => WakeAccepted(lc)
          /\ UnansweredRequest(lc) =>
               e \in SleepRequest \/ (UnansweredRequest(lc) /\ e \notin WakeRequest)
      BY <3>3, <3>4 DEF SleepAccepted, WakeAccepted, UnansweredRequest, p
    <3> QED
      BY <2>1, <3>2, <3>5 DEF e
  <2> QED
    BY <2>2, <2>3
<1>4. CASE ~coalescesWithEffectiveTail(lc, kind, source)
  <2>1. r = [lc EXCEPT !.pending = Append(@, e)]
    BY <1>4 DEF onRequested, Transition
  <2>2. /\ r \in PowerLifecycleState /\ r.phase = lc.phase /\ r.phaseSource = lc.phaseSource
        /\ r.safetyFiredFirst = lc.safetyFiredFirst /\ r.pending = Append(p, e)
    BY <1>1, <2>1 DEF PowerLifecycleState
  <2> HIDE DEF r, e, p
  <2>3. /\ Append(p, e) # << >> /\ Append(p, e)[Len(Append(p, e))] = e
    BY <1>1, AppendProperties
  <2>4. \A susp : LastAccepted(r, susp, kind)
    BY <1>1, <2>2, <2>3 DEF LastAccepted
  <2>5. \A S : Occurs(r.pending, S) <=> Occurs(p, S) \/ e \in S
    BY <1>1, <2>2, OccursAppend
  <2>6. Unanswered(r.pending, SleepRequest, WakeRequest) <=>
          e \in SleepRequest \/ (Unanswered(p, SleepRequest, WakeRequest) /\ e \notin WakeRequest)
    BY <1>1, <2>2, UnansweredAppend
  <2>7. /\ SleepAccepted(lc) \/ e \in SleepRequest => SleepAccepted(r)
        /\ WakeAccepted(lc) \/ e \in WakeRequest => WakeAccepted(r)
        /\ UnansweredRequest(r) =>
             e \in SleepRequest \/ (UnansweredRequest(lc) /\ e \notin WakeRequest)
    BY <2>2, <2>5, <2>6 DEF SleepAccepted, WakeAccepted, UnansweredRequest, p
  <2> QED
    BY <2>2, <2>4, <2>7 DEF r, e
<1> QED
  BY <1>3, <1>4

(* The pump makes the first request the current one, and no other.         *)
LEMMA PumpAccepted ==
  ASSUME NEW lc \in PowerLifecycleState, lc.phase = "Idle", lc.pending # << >>
  PROVE  LET r == pumpQueue(lc).lc
             out == pumpQueue(lc).out IN
         /\ r \in PowerLifecycleState /\ out.lock = "None"
         /\ \/ r.phase = "Suspending" /\ ~r.safetyFiredFirst /\ out.work = "StartSuspend"
               /\ out.timer = "Arm"
            \/ r.phase = "Resuming" /\ r.safetyFiredFirst = lc.safetyFiredFirst
               /\ out.work = "StartResume" /\ out.timer = "None"
         /\ \A susp, also, kind : LastAccepted(lc, susp, kind) /\ kind \in EventKind
              => LastAccepted(r, also, kind)
         /\ SleepAccepted(lc) => SleepAccepted(r)
         /\ WakeAccepted(lc) => WakeAccepted(r)
         /\ UnansweredRequest(r) => UnansweredRequest(lc)
<1> DEFINE h == Head(lc.pending)
           t == Tail(lc.pending)
           r == pumpQueue(lc).lc
           out == pumpQueue(lc).out
<1>1. /\ lc.pending \in Seq(Pending) /\ h \in Pending /\ t \in Seq(Pending)
      /\ h.kind \in {"Suspend", "Resume"} /\ h.source \in Source
  <2>1. lc.pending \in Seq(Pending)
    BY DEF PowerLifecycleState
  <2>2. h \in Pending /\ t \in Seq(Pending)
    BY <2>1, HeadTailProperties
  <2>3. h.kind \in {"Suspend", "Resume"} /\ h.source \in Source
    BY <2>2 DEF Pending, EventKind
  <2> QED
    BY <2>1, <2>2, <2>3
<1>2. /\ r \in PowerLifecycleState /\ r.pending = t /\ r.phaseSource = h.source
      /\ r.phase = (IF h.kind = "Suspend" THEN "Suspending" ELSE "Resuming")
      /\ out.lock = "None"
      /\ h.kind = "Suspend" => ~r.safetyFiredFirst /\ out.work = "StartSuspend" /\ out.timer = "Arm"
      /\ h.kind = "Resume" => /\ r.safetyFiredFirst = lc.safetyFiredFirst
                              /\ out.work = "StartResume" /\ out.timer = "None"
  BY <1>1 DEF pumpQueue, makeSuspendEntry, makeResumeEntry, Transition, Inert,
              PowerLifecycleState, Phase, Source
<1>3. /\ h \in SleepRequest <=> h.kind = "Suspend" /\ h.source = "DBus"
      /\ h \in WakeRequest <=> h.kind = "Resume" /\ h.source = "DBus"
  BY <1>1 DEF SleepRequest, WakeRequest, Pending
<1> HIDE DEF r, out
<1>4. /\ Len(t) = Len(lc.pending) - 1 /\ \A i \in 1 .. Len(t) : t[i] = lc.pending[i + 1]
      /\ Len(t) \in Nat /\ Len(lc.pending) \in Nat /\ h = lc.pending[1]
      /\ (Len(t) = 0) <=> (t = << >>)
  <2>1. \A q \in Seq(Pending) : Len(q) \in Nat /\ ((Len(q) = 0) <=> (q = << >>))
    BY LenProperties, EmptySeq
  <2>2. /\ Len(t) = Len(lc.pending) - 1 /\ \A i \in 1 .. Len(t) : t[i] = lc.pending[i + 1]
        /\ h = lc.pending[1]
    BY <1>1, HeadTailProperties
  <2> HIDE DEF h, t
  <2> QED
    BY <1>1, <2>1, <2>2
<1> HIDE DEF h, t
<1>5. /\ \A S : Occurs(lc.pending, S) <=> h \in S \/ Occurs(t, S)
      /\ Unanswered(lc.pending, SleepRequest, WakeRequest) <=>
           Unanswered(t, SleepRequest, WakeRequest) \/ (h \in SleepRequest /\ ~Occurs(t, WakeRequest))
  BY <1>1, OccursTail, UnansweredTail DEF h, t
<1>6. ASSUME NEW susp, NEW also, NEW kind \in EventKind, LastAccepted(lc, susp, kind)
      PROVE  LastAccepted(r, also, kind)
  <2>1. lc.pending[Len(lc.pending)].kind = kind
    BY <1>6 DEF LastAccepted
  <2>2. CASE t = << >>
    <3>1. lc.pending[Len(lc.pending)] = h
      <4>1. Len(lc.pending) = 1
        BY <1>4, <2>2
      <4> QED
        BY <1>4, <4>1
    <3> QED
      BY <1>1, <1>2, <2>1, <2>2, <3>1 DEF LastAccepted, EventKind
  <2>3. CASE t # << >>
    <3>1. t[Len(t)] = lc.pending[Len(lc.pending)]
      <4>1. Len(t) \in 1 .. Len(t) /\ Len(t) + 1 = Len(lc.pending)
        BY <1>4, <2>3
      <4> QED
        BY <1>4, <4>1
    <3> QED
      BY <1>2, <2>1, <2>3, <3>1 DEF LastAccepted
  <2> QED
    BY <2>2, <2>3
<1>7. /\ SleepAccepted(lc) => SleepAccepted(r)
      /\ WakeAccepted(lc) => WakeAccepted(r)
      /\ UnansweredRequest(r) => UnansweredRequest(lc)
  BY <1>2, <1>3, <1>5 DEF SleepAccepted, WakeAccepted, UnansweredRequest
<1> QED
  BY <1>1, <1>2, <1>6, <1>7 DEF r, out

-----------------------------------------------------------------------------
(* The handlers of the supervisor.                                         *)

(* A handler is all that is left of the dispatched event.                  *)
LEMMA RunsAlone ==
  ASSUME OutageType, NEW fn, Runs(fn)
  PROVE  /\ Tail(calls) = << >> /\ Pumped = <<"pumpQueue">>
         /\ \A f : Runs(f) <=> f = fn
<1>1. PICK g : calls = <<g>>
  BY DEF OutageType, Runs
<1>2. Head(<<g>>) = g /\ Tail(<<g>>) = << >> /\ <<"pumpQueue">> \o << >> = <<"pumpQueue">>
  OBVIOUS
<1>3. g = fn
  BY <1>1, <1>2 DEF Runs
<1>4. calls # << >>
  BY DEF Runs
<1> QED
  BY <1>1, <1>2, <1>3, <1>4 DEF Pumped, Runs

(* What the supervisor does to the lock.                                   *)
LEMMA OpFacts ==
  ASSUME IBusInv, NEW op, LockOp(op)
  PROVE  /\ op = "None" => UNCHANGED busVars
         /\ op = "Release" => held' = FALSE /\ UNCHANGED <<conn, reply, faults>>
         /\ op # "Release" => LockKept
         /\ op = "Take" /\ faults' = MaxFaults => LockSecured' \/ reply = "refused"
<1>1. BusTypeOK /\ faults \in 0..MaxFaults /\ MaxFaults \in Nat /\ slot = (reply # "none")
  BY BusAssumption DEF IBusInv, BusInv, BusTypeOK, DownIsClean
<1>2. ASSUME NEW n \in Nat, Costs(n) PROVE faults' = MaxFaults => faults = MaxFaults /\ n = 0
  BY <1>1, <1>2 DEF Costs
<1>3. op = "None" => UNCHANGED busVars
  BY DEF LockOp
<1>4. op = "Release" => held' = FALSE /\ UNCHANGED <<conn, reply, faults>>
  BY <1>1 DEF LockOp, releaseInhibitLock, busVars, connVars, lockVars, BusTypeOK
<1>5. ASSUME takeInhibitLock PROVE LockKept /\ (faults' = MaxFaults => LockSecured')
  <2>1. CASE ScheduleInhibit /\ UNCHANGED <<held, connVars, retryVars>>
    BY <1>2, <2>1 DEF ScheduleInhibit, LockKept, LockSecured
  <2>2. CASE updateLoopRegistration
    <3>1. held' = FALSE /\ reply' = "none" /\ conn' = "none" /\ (Costs(0) \/ Costs(1))
      BY <2>2 DEF updateLoopRegistration, handleBusDisconnect, tearDownBusState
    <3> QED
      BY <1>2, <3>1 DEF LockKept, LockSecured
  <2> QED
    BY <1>5, <2>1, <2>2 DEF takeInhibitLock
<1>6. ASSUME conn = "none" \/ held \/ slot, UNCHANGED busVars
      PROVE  LockSecured' \/ reply = "refused"
  BY <1>1, <1>6 DEF busVars, connVars, lockVars, LockSecured, BusTypeOK
<1> QED
  BY <1>3, <1>4, <1>5, <1>6, UnchangedKeepsLock DEF LockOp

(* A handler that is not a request: what was asked for last is carried on. *)
LEMMA QuietAsks ==
  ASSUME OutageInv, BusInv', Unread, UNCHANGED <<sleep, sleeps, work, spoke>>,
         \A f \in Request : ~Runs(f) /\ ~Runs(f)',
         \A kind \in EventKind : LastAccepted(lifecycle, suspended, kind)
                                   => LastAccepted(lifecycle', suspended', kind),
         UnansweredRequest(lifecycle') => UnansweredRequest(lifecycle)
  PROVE  FollowInv' /\ AnsweredInv'
<1>1. ~lost' => ~lost /\ SameSignals(inbox', inbox)
  BY UnreadKeeps DEF OutageInv
<1>2. "Suspend" \in EventKind /\ "Resume" \in EventKind /\ LogindFn \subseteq Request
  BY WorkSets DEF EventKind
<1>3. FollowInv'
  <2> SUFFICES ASSUME ~lost', spoke' = "logind"
               PROVE  /\ sleep' = "preparing" => Follows("sleep", "suspendDBus", "Suspend")'
                      /\ sleep' = "awake" => Follows("wake", "resumeDBus", "Resume")'
    BY DEF FollowInv
  <2>1. ASSUME NEW signal \in {"sleep", "wake"}, NEW fn \in LogindFn, NEW kind \in EventKind,
               Follows(signal, fn, kind)
        PROVE  Follows(signal, fn, kind)'
    <3>1. CASE Occurs(inbox, Signal)
      BY <1>1, <2>1, <3>1 DEF Follows, SameSignals
    <3>2. CASE ~Occurs(inbox, Signal)
      BY <1>1, <1>2, <2>1, <3>2 DEF Follows, SameSignals
    <3> QED
      BY <3>1, <3>2
  <2>2. "suspendDBus" \in LogindFn /\ "resumeDBus" \in LogindFn
    BY WorkSets
  <2> QED
    BY <1>1, <1>2, <2>1, <2>2 DEF OutageInv, FollowInv
<1>4. AnsweredInv'
  <2>1. ~Runs("suspendDBus") /\ ~Runs("resumeDBus") /\ ~Runs("suspendDBus")' /\ ~Runs("resumeDBus")'
    BY <1>2, WorkSets
  <2> QED
    BY <1>1, <2>1 DEF OutageInv, AnsweredInv, SameSignals
<1> QED
  BY <1>3, <1>4

(* What is due after it.                                                   *)
LEMMA QuietDue ==
  ASSUME OutageInv, BusInv', Unread, UNCHANGED work,
         \A f \in Request : ~Runs(f) /\ ~Runs(f)'
  PROVE  ~lost' =>
           /\ ~lost
           /\ SleepDue => SleepDue' \/ (SleepAccepted(lifecycle) /\ ~SleepAccepted(lifecycle'))
           /\ WakeDue => WakeDue' \/ (WakeAccepted(lifecycle) /\ ~WakeAccepted(lifecycle'))
<1>1. ~lost' => ~lost /\ SameSignals(inbox', inbox)
  BY UnreadKeeps DEF OutageInv
<1>2. ~Runs("suspendDBus") /\ ~Runs("resumeDBus")
  BY WorkSets
<1> QED
  BY <1>1, <1>2 DEF SleepDue, WakeDue, SameSignals

(* A request of logind or of a client.                                     *)
LEMMA RequestKeeps ==
  ASSUME OutageInv, IBusInv, IBusInv', RunCall,
         NEW fn \in Request, NEW kind \in EventKind, NEW source \in Source,
         fn = "suspendDBus" <=> kind = "Suspend" /\ source = "DBus",
         fn = "resumeDBus" <=> kind = "Resume" /\ source = "DBus",
         Runs(fn), Carry(onRequested(lifecycle, kind, source), Pumped)
  PROVE  OutageInv'
<1> DEFINE e == [kind |-> kind, source |-> source]
           r == onRequested(lifecycle, kind, source).lc
<1>1. lifecycle \in PowerLifecycleState /\ OutageType
  BY DEF OutageInv, OutageType
<1>2. /\ r \in PowerLifecycleState /\ r.phase = lifecycle.phase
      /\ r.phaseSource = lifecycle.phaseSource
      /\ r.safetyFiredFirst = lifecycle.safetyFiredFirst
      /\ \A susp : LastAccepted(r, susp, kind)
      /\ SleepAccepted(lifecycle) \/ e \in SleepRequest => SleepAccepted(r)
      /\ WakeAccepted(lifecycle) \/ e \in WakeRequest => WakeAccepted(r)
      /\ UnansweredRequest(r) =>
           e \in SleepRequest \/ (UnansweredRequest(lifecycle) /\ e \notin WakeRequest)
  BY <1>1, RequestAccepted
<1>3. /\ e \in SleepRequest <=> fn = "suspendDBus"
      /\ e \in WakeRequest <=> fn = "resumeDBus"
  BY DEF SleepRequest, WakeRequest
<1>4. /\ lifecycle' = r /\ calls' = <<"pumpQueue">>
      /\ UNCHANGED <<busVars, suspended, job, safety>>
  <2>1. onRequested(lifecycle, kind, source).out = Inert /\ Pumped = <<"pumpQueue">>
    BY <1>1, RunsAlone DEF onRequested, Transition
  <2>2. Inert.lock = "None" /\ Inert.timer = "None" /\ Inert.work = "None"
    BY DEF Inert
  <2> QED
    BY <2>1, <2>2 DEF Carry, LockOp, TimerOp, StartWork
<1>5. UNCHANGED <<sleep, sleeps, work, requests, timeouts, spoke>> /\ Unread
  BY DEF RunCall, budgetVars
<1>6. /\ \A f : Runs(f) <=> f = fn
      /\ \A f : Runs(f)' <=> f = "pumpQueue"
  BY <1>1, <1>4, RunsAlone, RunsNext
<1> HIDE DEF e, r
<1>7. /\ inbox' \in Seq(Message) /\ lost' \in BOOLEAN
      /\ ~lost' => ~lost /\ SameSignals(inbox', inbox)
      /\ inbox' = inbox \/ reply' = "none"
  BY <1>1, <1>5, UnreadKeeps DEF IBusInv
<1>8. OutageType'
  <2>1. "pumpQueue" \in Fn
    BY DEF Fn
  <2> QED
    BY <1>1, <1>2, <1>4, <1>5, <1>7, <2>1 DEF OutageType
<1>9. "pumpQueue" \notin Request /\ fn # "suspendCompleted" /\ fn # "resumeCompleted"
      /\ fn # "safetyTimerFired"
  BY DEF Request, LogindFn
<1>10. CycleInv' /\ NoTimeout'
  <2>1. NoneReady => NoneReady'
    BY <1>5, <1>6 DEF NoneReady
  <2>2. ASSUME NEW k, NEW f \in Completion, OneEnd(k, f) PROVE OneEnd(k, f)'
    <3>1. f # fn
      BY <1>9 DEF Completion
    <3> QED
      BY <1>4, <1>5, <1>6, <2>1, <2>2, <3>1 DEF OneEnd
  <2>3. "suspendCompleted" \in Completion /\ "resumeCompleted" \in Completion
    BY WorkSets
  <2>4. CycleInv'
    BY <1>2, <1>4, <1>6, <2>1, <2>2, <2>3 DEF OutageInv, CycleInv
  <2>5. NoTimeout'
    BY <1>2, <1>4, <1>5, <1>6 DEF OutageInv, NoTimeout
  <2> QED
    BY <2>4, <2>5
<1>11. FollowInv'
  <2>1. ASSUME ~lost', NEW signal \in {"sleep", "wake"}, NEW f, NEW k,
               Follows(signal, f, k), fn = f => kind = k
        PROVE  Follows(signal, f, k)'
    <3>1. CASE Occurs(inbox, Signal)
      BY <1>7, <2>1, <3>1 DEF Follows, SameSignals
    <3>2. CASE ~Occurs(inbox, Signal) /\ Occurs(work, LogindFn)
      BY <1>5, <1>7, <2>1, <3>2 DEF Follows, SameSignals
    <3>3. CASE ~Occurs(inbox, Signal) /\ ~Occurs(work, LogindFn)
      <4>1. fn = f
        BY <1>6, <2>1, <3>3 DEF Follows
      <4>2. LastAccepted(lifecycle', suspended', k)
        BY <1>2, <1>4, <2>1, <4>1
      <4> QED
        BY <1>5, <1>6, <1>7, <1>9, <2>1, <3>3, <4>2 DEF Follows, SameSignals
    <3> QED
      BY <3>1, <3>2, <3>3
  <2> QED
    BY <1>5, <1>7, <2>1 DEF OutageInv, FollowInv
<1>12. AnsweredInv'
  BY <1>2, <1>3, <1>4, <1>5, <1>6, <1>7 DEF OutageInv, AnsweredInv, SameSignals
<1>13. ~lost' => ~lost /\ (SleepDue => SleepDue') /\ (WakeDue => WakeDue')
  BY <1>2, <1>3, <1>4, <1>5, <1>6, <1>7 DEF SleepDue, WakeDue, SameSignals
<1>14. ReplyInv' /\ ReleaseInv' /\ TakeInv'
  BY <1>4, <1>5, <1>7, <1>13, UnchangedKeepsLock, LockStaysDue
<1> QED
  BY <1>8, <1>10, <1>11, <1>12, <1>14 DEF OutageInv


(* pumpQueue, with nothing to start or with the first of the queue.        *)
LEMMA PumpKeeps ==
  ASSUME OutageInv, IBusInv, IBusInv', RunCall,
         Runs("pumpQueue"), Carry(pumpQueue(lifecycle), Tail(calls))
  PROVE  OutageInv'
<1> DEFINE r == pumpQueue(lifecycle).lc
           out == pumpQueue(lifecycle).out
           rest == Tail(calls)
<1>1. lifecycle \in PowerLifecycleState /\ OutageType /\ suspended \in BOOLEAN
  BY DEF OutageInv, OutageType
<1>2. /\ rest = << >> /\ <<"suspendCompleted">> \o rest = <<"suspendCompleted">>
      /\ <<"resumeCompleted">> \o rest = <<"resumeCompleted">>
      /\ \A f : Runs(f) <=> f = "pumpQueue"
  <2>1. rest = << >> /\ \A f : Runs(f) <=> f = "pumpQueue"
    BY <1>1, RunsAlone
  <2>2. /\ <<"suspendCompleted">> \o << >> = <<"suspendCompleted">>
        /\ <<"resumeCompleted">> \o << >> = <<"resumeCompleted">>
    OBVIOUS
  <2> HIDE DEF rest
  <2> QED
    BY <2>1, <2>2
<1>3. /\ lifecycle' = r /\ TimerOp(out.timer) /\ LockOp(out.lock) /\ StartWork(out.work, rest)
  BY DEF Carry
<1>4. UNCHANGED <<sleep, sleeps, work, requests, timeouts, spoke>> /\ Unread
  BY DEF RunCall, budgetVars
<1>5. "pumpQueue" \notin Request /\ Completion \cap Request = {}
      /\ {"suspendCompleted", "resumeCompleted"} = Completion /\ Completion \subseteq Fn
  BY DEF Request, LogindFn, Completion, Fn
<1>6. /\ \/ r = lifecycle /\ out.work = "None" /\ out.timer = "None"
            /\ (lifecycle.phase # "Idle" \/ lifecycle.pending = << >>)
         \/ lifecycle.phase = "Idle"
            /\ \/ r.phase = "Suspending" /\ ~r.safetyFiredFirst /\ out.work = "StartSuspend"
                  /\ out.timer = "Arm"
               \/ r.phase = "Resuming" /\ r.safetyFiredFirst = lifecycle.safetyFiredFirst
                  /\ out.work = "StartResume" /\ out.timer = "None"
      /\ out.lock = "None" /\ r \in PowerLifecycleState
      /\ \A also, kind : LastAccepted(lifecycle, suspended, kind) /\ kind \in EventKind
           => LastAccepted(r, also, kind) \/ (r = lifecycle /\ also # suspended)
      /\ SleepAccepted(lifecycle) => SleepAccepted(r)
      /\ WakeAccepted(lifecycle) => WakeAccepted(r)
      /\ UnansweredRequest(r) => UnansweredRequest(lifecycle)
  <2>1. CASE lifecycle.phase # "Idle" \/ lifecycle.pending = << >>
    <3>1. r = lifecycle /\ out.work = "None" /\ out.timer = "None" /\ out.lock = "None"
      BY <2>1 DEF pumpQueue, Transition, Inert
    <3> QED
      BY <1>1, <2>1, <3>1
  <2>2. CASE lifecycle.phase = "Idle" /\ lifecycle.pending # << >>
    <3> HIDE DEF r, out
    <3> QED
      BY <1>1, <2>2, PumpAccepted DEF r, out
  <2> QED
    BY <2>1, <2>2
<1> HIDE DEF r, out, rest
<1>7. UNCHANGED busVars
  BY <1>3, <1>6 DEF LockOp
<1>8. \/ /\ r = lifecycle /\ (lifecycle.phase # "Idle" \/ lifecycle.pending = << >>)
         /\ calls' = << >> /\ UNCHANGED <<suspended, job, safety>>
      \/ /\ lifecycle.phase = "Idle" /\ r.phase = "Suspending" /\ ~r.safetyFiredFirst
         /\ safety' = "armed" /\ suspended' = TRUE
         /\ \/ calls' = <<"suspendCompleted">> /\ UNCHANGED job
            \/ calls' = << >> /\ job' = "suspend"
      \/ /\ lifecycle.phase = "Idle" /\ r.phase = "Resuming"
         /\ r.safetyFiredFirst = lifecycle.safetyFiredFirst
         /\ UNCHANGED <<safety, suspended>>
         /\ \/ calls' = <<"resumeCompleted">> /\ UNCHANGED job
            \/ calls' = << >> /\ job' = "resume"
  BY <1>1, <1>2, <1>3, <1>6 DEF StartWork, TimerOp
<1>9. /\ inbox' \in Seq(Message) /\ lost' \in BOOLEAN
      /\ ~lost' => ~lost /\ SameSignals(inbox', inbox)
      /\ inbox' = inbox \/ reply' = "none"
  BY <1>1, <1>4, UnreadKeeps DEF IBusInv
<1>10. OutageType'
  <2>1. suspended' \in BOOLEAN /\ job' \in {"none", "suspend", "resume"}
        /\ safety' \in {"off", "armed", "expired"}
        /\ (calls' = << >> \/ calls' = <<"suspendCompleted">> \/ calls' = <<"resumeCompleted">>)
    BY <1>1, <1>8 DEF OutageType
  <2> QED
    BY <1>1, <1>3, <1>4, <1>5, <1>6, <1>9, <2>1 DEF OutageType
<1>11. /\ calls' = << >> => \A f : ~Runs(f)'
       /\ calls' = <<"suspendCompleted">> => \A f : Runs(f)' <=> f = "suspendCompleted"
       /\ calls' = <<"resumeCompleted">> => \A f : Runs(f)' <=> f = "resumeCompleted"
  BY RunsNext DEF Runs
<1>12. CycleInv'
  <2>1. ~Runs("suspendCompleted") /\ ~Runs("resumeCompleted")
    BY <1>2
  <2>2. CASE r = lifecycle /\ (lifecycle.phase # "Idle" \/ lifecycle.pending = << >>)
             /\ calls' = << >> /\ UNCHANGED <<suspended, job, safety>>
    BY <1>3, <1>4, <1>11, <2>1, <2>2 DEF OutageInv, CycleInv, NoneReady, OneEnd
  <2>3. CASE lifecycle.phase = "Idle"
    <3>1. job = "none" /\ ~Occurs(work', Completion)
      BY <1>4, <2>3 DEF OutageInv, CycleInv, NoneReady
    <3>2. CASE r.phase = "Suspending" /\ suspended' = TRUE
               /\ \/ calls' = <<"suspendCompleted">> /\ UNCHANGED job
                  \/ calls' = << >> /\ job' = "suspend"
      BY <1>3, <1>11, <3>1, <3>2 DEF CycleInv, NoneReady, OneEnd
    <3>3. CASE r.phase = "Resuming"
               /\ \/ calls' = <<"resumeCompleted">> /\ UNCHANGED job
                  \/ calls' = << >> /\ job' = "resume"
      BY <1>3, <1>11, <3>1, <3>3 DEF CycleInv, NoneReady, OneEnd
    <3> QED
      BY <1>8, <2>2, <2>3, <3>2, <3>3
  <2> QED
    BY <1>8, <2>2, <2>3
<1>13. NoTimeout'
  BY <1>3, <1>4, <1>8, <1>11 DEF OutageInv, NoTimeout
<1>14. \A f \in Request : ~Runs(f) /\ ~Runs(f)'
  BY <1>2, <1>5, <1>8, <1>11
<1>15. FollowInv' /\ AnsweredInv'
  <2>1. \A kind \in EventKind : LastAccepted(lifecycle, suspended, kind)
                                  => LastAccepted(lifecycle', suspended', kind)
    BY <1>3, <1>6, <1>8
  <2> QED
    BY <1>3, <1>4, <1>6, <1>14, <2>1, QuietAsks DEF IBusInv
<1>16. ReplyInv' /\ ReleaseInv' /\ TakeInv'
  <2>1. ~lost' => ~lost /\ (SleepDue => SleepDue') /\ (WakeDue => WakeDue')
    BY <1>3, <1>4, <1>6, <1>14, QuietDue DEF IBusInv
  <2> QED
    BY <1>4, <1>7, <1>9, <2>1, UnchangedKeepsLock, LockStaysDue
<1> QED
  BY <1>10, <1>12, <1>13, <1>15, <1>16 DEF OutageInv

(* The lock when a suspend ends or its safety timer fires: it is released  *)
(* for a sleep of logind only, and if the machine is awake by then, the    *)
(* wake-up that will take it again is on its way.                          *)
LEMMA SuspendLock ==
  ASSUME OutageInv, IBusInv, IBusInv', Unread, UNCHANGED <<sleep, sleeps, work, timeouts>>,
         \A f \in Request : ~Runs(f) /\ ~Runs(f)',
         lifecycle.phase = "Suspending", lifecycle'.pending = lifecycle.pending,
         NEW op \in {"None", "Release"}, LockOp(op),
         op = "Release" => lifecycle.phaseSource = "DBus",
         \/ SleepAccepted(lifecycle) => SleepAccepted(lifecycle')
         \/ lifecycle.phaseSource = "DBus" => op = "Release" \/ timeouts # MaxTimeouts
  PROVE  ReplyInv' /\ ReleaseInv' /\ TakeInv'
<1>1. /\ ~lost' => ~lost /\ SameSignals(inbox', inbox)
      /\ inbox' = inbox \/ reply' = "none"
  BY UnreadKeeps DEF OutageInv, IBusInv
<1>2. WakeAccepted(lifecycle) => WakeAccepted(lifecycle')
  BY DEF WakeAccepted
<1>3. ~lost' => /\ ~lost /\ (WakeDue => WakeDue')
                /\ SleepDue => SleepDue' \/ (SleepAccepted(lifecycle) /\ ~SleepAccepted(lifecycle'))
  BY <1>2, QuietDue DEF IBusInv
<1>4. UNCHANGED <<conn, reply, faults>> /\ (op = "Release" => held' = FALSE)
      /\ (op = "None" => held' = held)
  BY OpFacts DEF busVars, lockVars, connVars
<1>5. ReplyInv'
  <2>1. CASE reply' = "none"
    BY <2>1 DEF ReplyInv
  <2>2. CASE inbox' = inbox
    BY <1>1, <1>4, <2>2 DEF OutageInv, ReplyInv
  <2> QED
    BY <1>1, <2>1, <2>2
<1>6. ReleaseInv'
  <2> SUFFICES ASSUME ~lost', sleep' = "preparing", timeouts' = MaxTimeouts
               PROVE  SleepDue' \/ ~held'
    BY DEF ReleaseInv
  <2>1. SleepDue \/ ~held
    BY <1>3 DEF OutageInv, ReleaseInv
  <2>2. ~held => ~held'
    BY <1>4
  <2>3. ASSUME SleepAccepted(lifecycle), ~SleepAccepted(lifecycle') PROVE ~held'
    <3>1. lifecycle.phaseSource = "DBus"
      BY <2>3 DEF SleepAccepted
    <3> QED
      BY <1>4, <2>3, <3>1
  <2> QED
    BY <1>3, <2>1, <2>2, <2>3
<1>7. TakeInv'
  <2> SUFFICES ASSUME ~lost', sleep' = "awake", sleeps' < MaxSleeps, faults' = MaxFaults
               PROVE  WakeDue' \/ LockSecured'
    BY DEF TakeInv, LockSecured
  <2>1. CASE op = "None"
    BY <1>3, <1>4, <2>1 DEF OutageInv, TakeInv, LockSecured
  <2>2. CASE op = "Release"
    <3>1. CASE Occurs(lifecycle.pending, WakeRequest)
      BY <3>1 DEF WakeDue, WakeAccepted
    <3>2. CASE ~Occurs(lifecycle.pending, WakeRequest)
      <4>1. UnansweredRequest(lifecycle)
        BY <2>2, <3>2 DEF UnansweredRequest
      <4>2. ~Runs("resumeDBus")
        BY WorkSets
      <4>3. Occurs(work, {"resumeDBus"}) \/ Occurs(inbox, {"wake"})
        BY <1>1, <4>1, <4>2 DEF OutageInv, AnsweredInv
      <4> QED
        BY <1>1, <4>3 DEF WakeDue, SameSignals
    <3> QED
      BY <3>1, <3>2
  <2> QED
    BY <2>1, <2>2
<1> QED
  BY <1>5, <1>6, <1>7

(* The one completion of a suspend comes while it is in progress.          *)
LEMMA CompletionMatches ==
  ASSUME OutageInv, NEW fn \in Completion, Runs(fn)
  PROVE  /\ lifecycle.phase = (IF fn = "suspendCompleted" THEN "Suspending" ELSE "Resuming")
         /\ job = "none" /\ ~Occurs(work, Completion)
         /\ fn = "suspendCompleted" => suspended
<1>1. \A f : Runs(f) <=> f = fn
  BY RunsAlone DEF OutageInv
<1>2. fn = "suspendCompleted" \/ fn = "resumeCompleted"
  BY DEF Completion
<1>3. lifecycle.phase \in {"Idle", "Suspending", "Resuming"}
  BY DEF OutageInv, OutageType, PowerLifecycleState, Phase
<1> QED
  BY <1>1, <1>2, <1>3 DEF OutageInv, CycleInv, OneEnd, NoneReady

(* onSuspendCompleted.                                                     *)
LEMMA SuspendCompletedKeeps ==
  ASSUME OutageInv, IBusInv, IBusInv', RunCall,
         Runs("suspendCompleted"), Carry(onSuspendCompleted(lifecycle), Pumped)
  PROVE  OutageInv'
<1> DEFINE lc == lifecycle
           op == IF ~lc.safetyFiredFirst /\ lc.phaseSource = "DBus" THEN "Release" ELSE "None"
<1>1. lc \in PowerLifecycleState /\ OutageType /\ suspended \in BOOLEAN
  BY DEF OutageInv, OutageType
<1>2. lc.phase = "Suspending" /\ job = "none" /\ ~Occurs(work, Completion) /\ suspended
  BY WorkSets, CompletionMatches
<1>3. /\ lifecycle' = [lc EXCEPT !.phase = "Idle", !.safetyFiredFirst = FALSE]
      /\ safety' = "off" /\ LockOp(op) /\ calls' = <<"pumpQueue">> /\ UNCHANGED <<suspended, job>>
  <2>1. LET t == onSuspendCompleted(lc) IN
        /\ t.lc = [lc EXCEPT !.phase = "Idle", !.safetyFiredFirst = FALSE]
        /\ t.out.timer = "Disarm" /\ t.out.lock = op /\ t.out.work = "None"
    BY <1>2 DEF onSuspendCompleted, Transition, Inert
  <2>2. Pumped = <<"pumpQueue">>
    BY <1>1, RunsAlone
  <2> QED
    BY <2>1, <2>2 DEF Carry, TimerOp, StartWork
<1>4. /\ lifecycle' \in PowerLifecycleState /\ lifecycle'.phase = "Idle"
      /\ ~lifecycle'.safetyFiredFirst
      /\ lifecycle'.pending = lc.pending /\ lifecycle'.phaseSource = lc.phaseSource
  BY <1>1, <1>3 DEF PowerLifecycleState, Phase
<1>5. UNCHANGED <<sleep, sleeps, work, requests, timeouts, spoke>> /\ Unread
  BY DEF RunCall, budgetVars
<1>6. /\ \A f : Runs(f) <=> f = "suspendCompleted"
      /\ \A f : Runs(f)' <=> f = "pumpQueue"
  BY <1>1, <1>3, RunsAlone, RunsNext
<1>7. /\ "pumpQueue" \notin Request /\ "suspendCompleted" \notin Request /\ "pumpQueue" \in Fn
  BY DEF Request, LogindFn, Fn
<1>8. \A f \in Request : ~Runs(f) /\ ~Runs(f)'
  BY <1>6, <1>7
<1>9. /\ inbox' \in Seq(Message) /\ lost' \in BOOLEAN
  BY <1>1, <1>5, UnreadKeeps DEF IBusInv
<1>10. OutageType'
  BY <1>1, <1>3, <1>4, <1>5, <1>7, <1>9 DEF OutageType
<1>11. CycleInv' /\ NoTimeout'
  BY <1>2, <1>3, <1>4, <1>5, <1>6 DEF CycleInv, NoneReady, NoTimeout
<1>12. FollowInv' /\ AnsweredInv'
  <2>1. ASSUME NEW kind \in EventKind, LastAccepted(lc, suspended, kind)
        PROVE  LastAccepted(lifecycle', suspended', kind)
    BY <1>2, <1>3, <1>4, <2>1 DEF LastAccepted, EventKind
  <2>2. UnansweredRequest(lifecycle') => UnansweredRequest(lc)
    BY <1>4 DEF UnansweredRequest
  <2> QED
    BY <1>5, <1>8, <2>1, <2>2, QuietAsks DEF IBusInv
<1>13. ReplyInv' /\ ReleaseInv' /\ TakeInv'
  <2>1. lc.phaseSource = "DBus" => op = "Release" \/ timeouts # MaxTimeouts
    BY DEF OutageInv, NoTimeout
  <2>2. op \in {"None", "Release"} /\ (op = "Release" => lc.phaseSource = "DBus")
    OBVIOUS
  <2> HIDE DEF op
  <2> QED
    BY <1>2, <1>3, <1>4, <1>5, <1>8, <2>1, <2>2, SuspendLock
<1> QED
  BY <1>10, <1>11, <1>12, <1>13 DEF OutageInv

(* onSafetyTimerFired.                                                     *)
LEMMA SafetyKeeps ==
  ASSUME OutageInv, IBusInv, IBusInv', RunCall,
         Runs("safetyTimerFired"), Carry(onSafetyTimerFired(lifecycle), Pumped)
  PROVE  OutageInv'
<1> DEFINE lc == lifecycle
           fires == lc.phase = "Suspending" /\ ~lc.safetyFiredFirst
           op == IF fires /\ lc.phaseSource = "DBus" THEN "Release" ELSE "None"
<1>1. lc \in PowerLifecycleState /\ OutageType
  BY DEF OutageInv, OutageType
<1>2. /\ lifecycle' = (IF fires THEN [lc EXCEPT !.safetyFiredFirst = TRUE] ELSE lc)
      /\ LockOp(op) /\ calls' = <<"pumpQueue">> /\ UNCHANGED <<suspended, job, safety>>
  <2>1. LET t == onSafetyTimerFired(lc) IN
        /\ t.lc = (IF fires THEN [lc EXCEPT !.safetyFiredFirst = TRUE] ELSE lc)
        /\ t.out.timer = "None" /\ t.out.lock = op /\ t.out.work = "None"
    BY DEF onSafetyTimerFired, Transition, Inert
  <2>2. Pumped = <<"pumpQueue">>
    BY <1>1, RunsAlone
  <2> QED
    BY <2>1, <2>2 DEF Carry, TimerOp, StartWork
<1>3. /\ lifecycle' \in PowerLifecycleState /\ lifecycle'.phase = lc.phase
      /\ lifecycle'.pending = lc.pending /\ lifecycle'.phaseSource = lc.phaseSource
  BY <1>1, <1>2 DEF PowerLifecycleState
<1>4. op \in {"None", "Release"} /\ (op = "Release" => lc.phase = "Suspending" /\ lc.phaseSource = "DBus")
  OBVIOUS
<1> HIDE DEF op, fires
<1>5. UNCHANGED <<sleep, sleeps, work, requests, timeouts, spoke>> /\ Unread
  BY DEF RunCall, budgetVars
<1>6. /\ \A f : Runs(f) <=> f = "safetyTimerFired"
      /\ \A f : Runs(f)' <=> f = "pumpQueue"
  BY <1>1, <1>2, RunsAlone, RunsNext
<1>7. /\ "pumpQueue" \notin Request /\ "safetyTimerFired" \notin Request /\ "pumpQueue" \in Fn
  BY DEF Request, LogindFn, Fn
<1>8. \A f \in Request : ~Runs(f) /\ ~Runs(f)'
  BY <1>6, <1>7
<1>9. /\ inbox' \in Seq(Message) /\ lost' \in BOOLEAN
      /\ inbox' = inbox \/ reply' = "none"
  BY <1>1, <1>5, UnreadKeeps DEF IBusInv
<1>10. OutageType'
  BY <1>1, <1>2, <1>3, <1>5, <1>7, <1>9 DEF OutageType
<1>11. CycleInv'
  BY <1>2, <1>3, <1>5, <1>6 DEF OutageInv, CycleInv, NoneReady, OneEnd
<1>12. timeouts # MaxTimeouts /\ NoTimeout'
  BY <1>5 DEF OutageInv, NoTimeout
<1>13. FollowInv' /\ AnsweredInv'
  <2>1. ASSUME NEW kind \in EventKind, LastAccepted(lc, suspended, kind)
        PROVE  LastAccepted(lifecycle', suspended', kind)
    BY <1>2, <1>3, <2>1 DEF LastAccepted
  <2>2. UnansweredRequest(lifecycle') => UnansweredRequest(lc)
    BY <1>3 DEF UnansweredRequest
  <2> QED
    BY <1>5, <1>8, <2>1, <2>2, QuietAsks DEF IBusInv
<1>14. /\ SleepAccepted(lc) => SleepAccepted(lifecycle')
       /\ WakeAccepted(lc) => WakeAccepted(lifecycle')
  BY <1>3 DEF SleepAccepted, WakeAccepted
<1>15. ReplyInv' /\ ReleaseInv' /\ TakeInv'
  <2>1. CASE lc.phase = "Suspending"
    BY <1>2, <1>3, <1>4, <1>5, <1>8, <1>14, <2>1, SuspendLock
  <2>2. CASE lc.phase # "Suspending"
    <3>1. LockKept
      BY <1>2, <1>4, <2>2, OpFacts
    <3>2. ~lost' => ~lost /\ (SleepDue => SleepDue') /\ (WakeDue => WakeDue')
      BY <1>5, <1>8, <1>14, QuietDue DEF IBusInv
    <3> QED
      BY <1>5, <1>9, <3>1, <3>2, LockStaysDue
  <2> QED
    BY <2>1, <2>2
<1> QED
  BY <1>10, <1>11, <1>12, <1>13, <1>15 DEF OutageInv

(* onResumeCompleted: the lock is asked for, or a refusal is on its way    *)
(* with the next wake-up behind it.                                        *)
LEMMA ResumeCompletedKeeps ==
  ASSUME OutageInv, IBusInv, IBusInv', ResumeCompleted
  PROVE  OutageInv'
<1> DEFINE lc == lifecycle
           op == IF lc.phaseSource = "DBus" THEN "Take" ELSE "None"
<1>1. lc \in PowerLifecycleState /\ OutageType /\ Runs("resumeCompleted")
  BY DEF OutageInv, OutageType, ResumeCompleted
<1>2. lc.phase = "Resuming" /\ job = "none" /\ ~Occurs(work, Completion)
  BY <1>1, WorkSets, CompletionMatches
<1>3. /\ lifecycle' = [lc EXCEPT !.phase = "Idle"] /\ LockOp(op)
      /\ calls' = <<"pumpQueue">> /\ suspended' = FALSE /\ UNCHANGED <<job, safety>>
  <2>1. LET t == onResumeCompleted(lc) IN
        t.lc = [lc EXCEPT !.phase = "Idle"] /\ t.out.lock = op
    BY <1>2 DEF onResumeCompleted, Transition, Inert
  <2>2. Pumped = <<"pumpQueue">>
    BY <1>1, RunsAlone
  <2> QED
    BY <2>1, <2>2 DEF ResumeCompleted
<1>4. /\ lifecycle' \in PowerLifecycleState /\ lifecycle'.phase = "Idle"
      /\ lifecycle'.safetyFiredFirst = lc.safetyFiredFirst
      /\ lifecycle'.pending = lc.pending /\ lifecycle'.phaseSource = lc.phaseSource
  BY <1>1, <1>3 DEF PowerLifecycleState, Phase
<1>5. UNCHANGED <<sleep, sleeps, work, requests, timeouts, spoke>> /\ Unread
  BY DEF ResumeCompleted, budgetVars
<1>6. /\ \A f : Runs(f) <=> f = "resumeCompleted"
      /\ \A f : Runs(f)' <=> f = "pumpQueue"
  BY <1>1, <1>3, RunsAlone, RunsNext
<1>7. /\ "pumpQueue" \notin Request /\ "resumeCompleted" \notin Request /\ "pumpQueue" \in Fn
  BY DEF Request, LogindFn, Fn
<1>8. \A f \in Request : ~Runs(f) /\ ~Runs(f)'
  BY <1>6, <1>7
<1>9. /\ inbox' \in Seq(Message) /\ lost' \in BOOLEAN
      /\ ~lost' => ~lost /\ SameSignals(inbox', inbox)
      /\ inbox' = inbox \/ reply' = "none"
  BY <1>1, <1>5, UnreadKeeps DEF IBusInv
<1>10. OutageType'
  BY <1>1, <1>3, <1>4, <1>5, <1>7, <1>9 DEF OutageType
<1>11. CycleInv' /\ NoTimeout'
  BY <1>2, <1>3, <1>4, <1>5, <1>6 DEF OutageInv, CycleInv, NoneReady, NoTimeout
<1>12. FollowInv' /\ AnsweredInv'
  <2>1. ASSUME NEW kind \in EventKind, LastAccepted(lc, suspended, kind)
        PROVE  LastAccepted(lifecycle', suspended', kind)
    BY <1>2, <1>3, <1>4, <2>1 DEF LastAccepted, EventKind
  <2>2. UnansweredRequest(lifecycle') => UnansweredRequest(lc)
    BY <1>4 DEF UnansweredRequest
  <2> QED
    BY <1>5, <1>8, <2>1, <2>2, QuietAsks DEF IBusInv
<1>13. /\ SleepAccepted(lc) => SleepAccepted(lifecycle')
       /\ WakeAccepted(lc) => WakeAccepted(lifecycle') \/ op = "Take"
  BY <1>2, <1>4 DEF SleepAccepted, WakeAccepted
<1>14. op \in {"None", "Take"}
  OBVIOUS
<1> HIDE DEF op
<1>15. LockKept /\ (op = "Take" /\ faults' = MaxFaults => LockSecured' \/ reply = "refused")
  BY <1>3, <1>14, OpFacts
<1>16. ~lost' => ~lost /\ (SleepDue => SleepDue') /\ (WakeDue => WakeDue' \/ op = "Take")
  BY <1>5, <1>8, <1>13, QuietDue DEF IBusInv
<1>17. ReplyInv'
  <2>1. CASE reply' = "none"
    BY <2>1 DEF ReplyInv
  <2>2. CASE inbox' = inbox
    BY <1>5, <1>9, <1>15, <2>2 DEF OutageInv, ReplyInv, LockKept
  <2> QED
    BY <1>9, <2>1, <2>2
<1>18. ReleaseInv'
  BY <1>5, <1>15, <1>16 DEF OutageInv, ReleaseInv, LockKept
<1>19. TakeInv'
  <2> SUFFICES ASSUME ~lost', sleep' = "awake", sleeps' < MaxSleeps, faults' = MaxFaults
               PROVE  WakeDue' \/ LockSecured'
    BY DEF TakeInv, LockSecured
  <2>1. WakeDue \/ LockSecured
    BY <1>5, <1>9, <1>15 DEF OutageInv, TakeInv, LockKept, LockSecured
  <2>2. CASE op = "Take" /\ reply = "refused"
    <3>1. Behind(inbox, "reply", "wake")
      BY <1>5, <1>9, <2>2 DEF OutageInv, ReplyInv
    <3>2. Occurs(inbox, {"wake"})
      BY <3>1 DEF Behind, Occurs
    <3> QED
      BY <1>9, <3>2 DEF WakeDue, SameSignals
  <2>3. CASE ~(op = "Take" /\ reply = "refused")
    BY <1>15, <1>16, <2>1, <2>3 DEF LockKept
  <2> QED
    BY <2>2, <2>3
<1> QED
  BY <1>10, <1>11, <1>12, <1>17, <1>18, <1>19 DEF OutageInv

(* Every handler of the supervisor.                                        *)
LEMMA CallKeeps ==
  ASSUME OutageInv, IBusInv, IBusInv', RunCall
  PROVE  OutageInv'
<1>1. /\ "Suspend" \in EventKind /\ "Resume" \in EventKind
      /\ "DBus" \in Source /\ "Wire" \in Source
      /\ {"suspendDBus", "resumeDBus", "suspendWire", "resumeWire"} = Request
  BY DEF EventKind, Source, Request, LogindFn
<1>2. CASE Runs("suspendDBus") /\ Carry(onSuspendRequested(lifecycle, "DBus"), Pumped)
  BY <1>1, <1>2, RequestKeeps DEF onSuspendRequested
<1>3. CASE Runs("resumeDBus") /\ Carry(onResumeRequested(lifecycle, "DBus"), Pumped)
  BY <1>1, <1>3, RequestKeeps DEF onResumeRequested
<1>4. CASE Runs("suspendWire") /\ Carry(onSuspendRequested(lifecycle, "Wire"), Pumped)
  BY <1>1, <1>4, RequestKeeps DEF onSuspendRequested
<1>5. CASE Runs("resumeWire") /\ Carry(onResumeRequested(lifecycle, "Wire"), Pumped)
  BY <1>1, <1>5, RequestKeeps DEF onResumeRequested
<1>6. CASE Runs("pumpQueue") /\ Carry(pumpQueue(lifecycle), Tail(calls))
  BY <1>6, PumpKeeps
<1>7. CASE Runs("suspendCompleted") /\ Carry(onSuspendCompleted(lifecycle), Pumped)
  BY <1>7, SuspendCompletedKeeps
<1>8. CASE Runs("safetyTimerFired") /\ Carry(onSafetyTimerFired(lifecycle), Pumped)
  BY <1>8, SafetyKeeps
<1> QED
  BY <1>2, <1>3, <1>4, <1>5, <1>6, <1>7, <1>8, Zenon DEF RunCall

-----------------------------------------------------------------------------
(* Sleep and wake-up, whatever the bus does.                               *)

(* The three facts that make OutageInv an invariant of the composition.    *)
LEMMA OutageInit == ASSUME Init PROVE OutageInv
<1>1. /\ << >> \in Seq(Message) /\ << >> \in Seq(LogindFn \cup Completion) /\ << >> \in Seq(Pending)
  BY EmptySeq
<1>2. lifecycle = PowerLifecycleInit /\ lifecycle \in PowerLifecycleState
      /\ lifecycle.phase = "Idle" /\ lifecycle.pending = << >> /\ ~lifecycle.safetyFiredFirst
  BY <1>1 DEF Init, PowerLifecycleInit, PowerLifecycleState, Phase, Source
<1>3. \A fn : ~Runs(fn)
  BY DEF Init, Runs
<1>4. ~Occurs(work, Completion)
  BY EmptyQueue DEF Init
<1>5. reply = "none"
  BY DEF Init, BusInit
<1>6. MaxSleeps \in 0..MaxSleeps /\ MaxTimeouts \in 0..MaxTimeouts /\ ~(MaxSleeps < MaxSleeps)
  BY SleepAssumption
<1>7. OutageType
  BY <1>1, <1>2, <1>6, SleepAssumption DEF Init, OutageType
<1>8. CycleInv
  BY <1>2, <1>3, <1>4 DEF Init, CycleInv, NoneReady
<1>9. FollowInv /\ AnsweredInv /\ ReplyInv /\ NoTimeout /\ ReleaseInv /\ TakeInv
  BY <1>2, <1>3, <1>5, <1>6 DEF Init, FollowInv, AnsweredInv, ReplyInv, NoTimeout, ReleaseInv, TakeInv
<1> QED
  BY <1>7, <1>8, <1>9 DEF OutageInv

(* It survives every step, given what holds of the connection.             *)
LEMMA OutageNext ==
  ASSUME OutageInv, IBusInv, IBusInv', [Next]_vars
  PROVE  OutageInv'
<1>1. CASE UNCHANGED vars
  <2>1. UNCHANGED <<Queues, busVars, inbox, lost, requests>>
    BY <1>1 DEF vars, otherVars, logindVars, arbiterVars, budgetVars, historyVars, Queues
  <2>2. ~lost' => ~lost /\ SameSignals(inbox', inbox)
    BY <2>1, SignalsKept DEF OutageInv, OutageType
  <2>3. /\ CycleInv' /\ FollowInv' /\ AnsweredInv' /\ NoTimeout'
        /\ ~lost' => (SleepDue' <=> SleepDue) /\ (WakeDue' <=> WakeDue)
    BY <2>1, <2>2, QueuesFramed
  <2>4. OutageType'
    BY <2>1 DEF OutageInv, OutageType, Queues
  <2>5. ReplyInv' /\ ReleaseInv' /\ TakeInv'
    BY <2>1, <2>2, <2>3, UnchangedKeepsLock, LockStaysDue DEF Queues
  <2> QED
    BY <2>3, <2>4, <2>5 DEF OutageInv
<1>2. CASE InhibitReply
  BY <1>2, ReplyKeeps
<1>3. CASE OnPrepareForSleep
  BY <1>3, SignalKeeps
<1>4. CASE RunCall
  BY <1>4, CallKeeps
<1>5. CASE ResumeCompleted
  BY <1>5, ResumeCompletedKeeps
<1>6. CASE RunClosure
  BY <1>6, ClosureKeeps
<1>7. CASE SafetyTimerFired \/ WireRequest \/ SafetyTimerExpires
  BY <1>7, InputKeeps
<1>8. CASE ConnectionStep \/ BusFails \/ BusRestored \/ RetryDue
  BY <1>8, ConnectionKeeps
<1>9. CASE JobDone
  BY <1>9, JobKeeps
<1>10. CASE PrepareForSleep \/ WakeUp
  BY <1>10, LogindKeeps
<1>11. CASE AnswerInhibit
  BY <1>11, AnswerKeeps
<1> QED
  BY <1>1, <1>2, <1>3, <1>4, <1>5, <1>6, <1>7, <1>8, <1>9, <1>10, <1>11, Zenon DEF Next, MainThread

(* So it always holds.                                                     *)
LEMMA OutageHolds == Spec => []OutageInv
<1>1. Init => IBusInv /\ OutageInv
  BY InitEstablishes, OutageInit DEF Init
<1>2. IBusInv /\ OutageInv /\ [Next]_vars => (IBusInv /\ OutageInv)'
  <2> SUFFICES ASSUME IBusInv, OutageInv, [Next]_vars PROVE IBusInv' /\ OutageInv'
    OBVIOUS
  <2>1. IBusInv'
    BY NextIsBusStep, StepKeeps
  <2> QED
    BY <2>1, OutageNext
<1> QED
  BY <1>1, <1>2, PTL DEF Spec

(* Nothing on its way: no cycle runs and none is queued.                   *)
LEMMA SettledMeans ==
  ASSUME OutageInv, Settled
  PROVE  /\ \A fn : ~Runs(fn)
         /\ \A S : ~Occurs(inbox, S) /\ ~Occurs(work, S) /\ ~Occurs(lifecycle.pending, S)
         /\ lifecycle.phase = "Idle" /\ lifecycle.pending = << >>
<1>1. calls = << >> /\ inbox = << >> /\ work = << >> /\ job = "none"
  BY DEF Settled, Idle, Between
<1>2. \A fn : ~Runs(fn)
  BY <1>1, RunsNone
<1>3. \A S : ~Occurs(inbox, S) /\ ~Occurs(work, S)
  BY <1>1, EmptyQueue
<1>4. DOMAIN work = {}
  BY <1>1
<1>5. lifecycle.phase \in {"Idle", "Suspending", "Resuming"}
  BY DEF OutageInv, OutageType, PowerLifecycleState, Phase
<1>6. lifecycle.phase = "Idle"
  BY <1>1, <1>2, <1>4, <1>5 DEF OutageInv, CycleInv, OneEnd, Once
<1>7. lifecycle.pending = << >>
  BY <1>2, <1>6 DEF OutageInv, CycleInv
<1> QED
  BY <1>2, <1>3, <1>6, <1>7, EmptyQueue

(* The adapter follows logind again from the first signal that is read,    *)
(* whatever an outage has swallowed and whatever clients asked before      *)
(* (onSuspendRequested, onResumeRequested, handleBusDisconnect).           *)
THEOREM SuspendFollowsLogind == Spec => []FollowsLogind
<1>1. OutageInv => FollowsLogind
  <2> SUFFICES ASSUME OutageInv, Settled, ~lost, spoke = "logind"
               PROVE  suspended = (sleep = "preparing")
    BY DEF FollowsLogind
  <2>1. /\ \A fn : ~Runs(fn)
        /\ \A S : ~Occurs(inbox, S) /\ ~Occurs(work, S)
        /\ lifecycle.phase = "Idle" /\ lifecycle.pending = << >>
    BY SettledMeans
  <2>2. sleep \in {"awake", "preparing"} /\ suspended \in BOOLEAN
    BY DEF OutageInv, OutageType
  <2>3. CASE sleep = "preparing"
    <3>1. Follows("sleep", "suspendDBus", "Suspend")
      BY <2>3 DEF OutageInv, FollowInv
    <3> QED
      BY <2>1, <2>2, <2>3, <3>1 DEF Follows, LastAccepted
  <2>4. CASE sleep = "awake"
    <3>1. Follows("wake", "resumeDBus", "Resume")
      BY <2>4 DEF OutageInv, FollowInv
    <3> QED
      BY <2>1, <2>2, <2>4, <3>1 DEF Follows, LastAccepted
  <2> QED
    BY <2>2, <2>3, <2>4
<1> QED
  BY <1>1, OutageHolds, PTL

(* So does the inhibitor lock: free for a sleep whose signal was read, and *)
(* held again after the wake-up, though an outage may have dropped the     *)
(* lock, the Inhibit call in flight or its answer (takeInhibitLock,        *)
(* releaseInhibitLock, reconnectBus).                                      *)
THEOREM LockRightAfterOutage == Spec => []LockAfterOutage
<1>1. OutageInv => LockAfterOutage
  <2> SUFFICES ASSUME OutageInv, Settled, ~lost PROVE LockAfterOutage
    BY DEF LockAfterOutage, LockFreeAfterOutage, LockHeldAfterOutage
  <2>1. ~SleepDue /\ ~WakeDue
    BY SettledMeans DEF SleepDue, WakeDue, SleepAccepted, WakeAccepted
  <2>2. reply = "none" /\ conn = "open"
    BY DEF Settled
  <2>3. LockFreeAfterOutage
    BY <2>1 DEF OutageInv, ReleaseInv, LockFreeAfterOutage
  <2>4. LockHeldAfterOutage
    BY <2>1, <2>2 DEF OutageInv, TakeInv, LockHeldAfterOutage
  <2> QED
    BY <2>3, <2>4 DEF LockAfterOutage
<1> QED
  BY <1>1, OutageHolds, PTL
=============================================================================
