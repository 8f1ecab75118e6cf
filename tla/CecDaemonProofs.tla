--------------------------- MODULE CecDaemonProofs ---------------------------
(***************************************************************************)
(* Proofs about CecDaemon for every schedule, every budget and whether or  *)
(* not timers can fail to arm: types and timers, then attempts, then what  *)
(* is on its way through the daemon, then the inhibitor lock.              *)
(***************************************************************************)
EXTENDS CecDaemon, SequenceTheorems, FiniteSetTheorems, TLAPS

(* The operations of PowerLifecycle stay within its types: its state after *)
(* a call and the Output the supervisor executes are well formed.          *)
LEMMA LifecycleTypes ==
  ASSUME NEW lc \in PowerLifecycleState, NEW source \in Source
  PROVE  /\ onSuspendRequested(lc, source).lc \in PowerLifecycleState
         /\ onSuspendRequested(lc, source).out = Inert
         /\ onResumeRequested(lc, source).lc \in PowerLifecycleState
         /\ onResumeRequested(lc, source).out = Inert
         /\ pumpQueue(lc).lc \in PowerLifecycleState
         /\ pumpQueue(lc).out \in LifecycleOutput
         /\ onSuspendCompleted(lc).lc \in PowerLifecycleState
         /\ onSuspendCompleted(lc).out \in LifecycleOutput
         /\ onResumeCompleted(lc).lc \in PowerLifecycleState
         /\ onResumeCompleted(lc).out \in LifecycleOutput
         /\ onSafetyTimerFired(lc).lc \in PowerLifecycleState
         /\ onSafetyTimerFired(lc).out \in LifecycleOutput
<1> USE DEF PowerLifecycleState, LifecycleOutput, Inert, Transition, Source,
            Phase, EventKind, Pending
<1>1. ASSUME NEW kind \in EventKind
      PROVE  /\ onRequested(lc, kind, source).lc \in PowerLifecycleState
             /\ onRequested(lc, kind, source).out = Inert
  <2>1. CASE coalescesWithEffectiveTail(lc, kind, source)
    BY <2>1 DEF onRequested
  <2>2. CASE ~coalescesWithEffectiveTail(lc, kind, source)
    <3> DEFINE p == [kind |-> kind, source |-> source]
    <3>1. Append(lc.pending, p) \in Seq(Pending)
      OBVIOUS
    <3>2. [lc EXCEPT !.pending = Append(@, p)] \in PowerLifecycleState
      BY <3>1
    <3> QED
      BY <2>2, <3>2 DEF onRequested
  <2> QED
    BY <2>1, <2>2
<1>2. /\ onSuspendRequested(lc, source).lc \in PowerLifecycleState
      /\ onSuspendRequested(lc, source).out = Inert
      /\ onResumeRequested(lc, source).lc \in PowerLifecycleState
      /\ onResumeRequested(lc, source).out = Inert
  BY <1>1 DEF onSuspendRequested, onResumeRequested
<1>3. /\ pumpQueue(lc).lc \in PowerLifecycleState
      /\ pumpQueue(lc).out \in LifecycleOutput
  <2>1. CASE lc.phase # "Idle" \/ lc.pending = << >>
    BY <2>1 DEF pumpQueue
  <2>2. CASE ~(lc.phase # "Idle" \/ lc.pending = << >>)
    <3> DEFINE next   == Head(lc.pending)
               popped == [lc EXCEPT !.pending = Tail(@), !.phaseSource = next.source]
    <3>1. next \in Pending /\ Tail(lc.pending) \in Seq(Pending)
      <4>1. lc.pending \in Seq(Pending) /\ lc.pending # << >>
        BY <2>2
      <4> QED
        BY <4>1, HeadTailProperties
    <3>2. popped \in PowerLifecycleState
      BY <3>1
    <3>3. ASSUME NEW x \in PowerLifecycleState
          PROVE  /\ makeSuspendEntry(x).lc \in PowerLifecycleState
                 /\ makeSuspendEntry(x).out \in LifecycleOutput
                 /\ makeResumeEntry(x).lc \in PowerLifecycleState
                 /\ makeResumeEntry(x).out \in LifecycleOutput
      BY DEF makeSuspendEntry, makeResumeEntry
    <3>4. pumpQueue(lc) = IF next.kind = "Suspend" THEN makeSuspendEntry(popped)
                                                  ELSE makeResumeEntry(popped)
      BY <2>2 DEF pumpQueue
    <3> HIDE DEF popped
    <3> QED
      BY <3>2, <3>3, <3>4
  <2> QED
    BY <2>1, <2>2
<1>4. /\ onSuspendCompleted(lc).lc \in PowerLifecycleState
      /\ onSuspendCompleted(lc).out \in LifecycleOutput
  BY DEF onSuspendCompleted
<1>5. /\ onResumeCompleted(lc).lc \in PowerLifecycleState
      /\ onResumeCompleted(lc).out \in LifecycleOutput
  BY DEF onResumeCompleted
<1>6. /\ onSafetyTimerFired(lc).lc \in PowerLifecycleState
      /\ onSafetyTimerFired(lc).out \in LifecycleOutput
  BY DEF onSafetyTimerFired
<1> QED
  BY <1>2, <1>3, <1>4, <1>5, <1>6

(* The operations of AdapterReconnect stay within its types.               *)
LEMMA ReconnectTypes ==
  ASSUME NEW rc \in AdapterReconnectState, NEW event \in ReconnectEvent
  PROVE  /\ onEvent(rc, event).rc \in AdapterReconnectState
         /\ onEvent(rc, event).effect \in ReconnectEffect
         /\ seedCycle(rc).rc \in AdapterReconnectState
         /\ seedCycle(rc).effect \in ReconnectEffect
<1> USE ScheduleAssumption
    DEF AdapterReconnectState, ReconnectEffect, Effect, resetCycle, firstAttempt
<1>1. CASE rc.state = "Idle"
  BY <1>1 DEF onEvent, onEventIdle, seedCycle
<1>2. CASE rc.state = "Attempting"
  BY <1>2 DEF onEvent, onEventAttempting, nextDelay, seedCycle
<1>3. CASE rc.state = "WaitingForRetry"
  BY <1>3 DEF onEvent, onEventWaiting, seedCycle
<1> QED
  BY <1>1, <1>2, <1>3

-----------------------------------------------------------------------------
(* Type correctness, one lemma for each part of the daemon.                *)

(* A step of the event loop keeps the types of its variables.              *)
LEMMA LoopKeepsTypes ==
  ASSUME LoopTypeOK, MainLoopStep
  PROVE  LoopTypeOK'
<1> USE DEF LoopTypeOK, AtDispatchPoint, Frame, Handler, Closure, Call
<1>1. CASE Poll
  BY <1>1 DEF Poll, Readable
<1>2. CASE Drain
  BY <1>2 DEF Drain
<1>3. CASE RunClosure
  <2> DEFINE C == [fn : Closure, id : Nat]
  <2>1. work \in Seq(C) /\ work # << >>
    BY <1>3 DEF RunClosure
  <2>2. /\ Head(work) \in C
        /\ Tail(work) \in Seq(C)
        /\ Len(Tail(work)) = Len(work) - 1
    BY <2>1, HeadTailProperties
  <2>3. Head(work) \in Frame
    BY <2>2
  <2>4. calls' \in Seq(Frame)
    BY <1>3, <2>3 DEF RunClosure
  <2> QED
    BY <1>3, <2>2, <2>4 DEF RunClosure
<1>4. ASSUME NEW event, NEW fn \in Handler, DispatchTimer(event, fn)
      PROVE  LoopTypeOK'
  <2>1. Call(fn) \in Frame
    OBVIOUS
  <2>2. calls' \in Seq(Frame)
    BY <1>4, <2>1 DEF DispatchTimer
  <2> QED
    BY <1>4, <2>2 DEF DispatchTimer
<1> QED
  BY <1>1, <1>2, <1>3, <1>4 DEF MainLoopStep, DispatchSafetyTimer, DispatchRetryTimer

(* Posting a closure keeps the work queue's type and does not disturb the  *)
(* batch being drained.                                                    *)
LEMMA PostKeepsTypes ==
  ASSUME LoopTypeOK, NEW fn \in Closure, NEW id \in Nat, Post(fn, id)
  PROVE  work' \in Seq([fn : Closure, id : Nat]) /\ batch \in 0 .. Len(work')
<1> DEFINE C == [fn : Closure, id : Nat]
           c == [fn |-> fn, id |-> id]
<1>1. work \in Seq(C) /\ c \in C /\ work' = Append(work, c)
  BY DEF LoopTypeOK, Post
<1>2. batch \in 0 .. Len(work)
  BY DEF LoopTypeOK
<1> HIDE DEF C, c
<1>3. work' \in Seq(C) /\ Len(work') = Len(work) + 1
  BY <1>1
<1> QED
  BY <1>2, <1>3, <1>1, LenProperties DEF C

(* A step of the worker thread keeps the types, and those of the queue it  *)
(* posts its result to.                                                    *)
LEMMA WorkerKeepsTypes ==
  ASSUME LoopTypeOK, WorkerTypeOK, WorkerStep
  PROVE  /\ WorkerTypeOK'
         /\ work' \in Seq([fn : Closure, id : Nat])
         /\ batch \in 0 .. Len(work')
<1> USE DEF WorkerTypeOK, WorkerPc
<1>1. CASE UNCHANGED work
  <2>1. /\ work' \in Seq([fn : Closure, id : Nat])
        /\ batch \in 0 .. Len(work')
    BY <1>1 DEF LoopTypeOK
  <2>2. CASE TakeJob
    <3>1. Head(jobs) \in Job /\ Tail(jobs) \in Seq(Job)
      BY <2>2, HeadTailProperties DEF TakeJob
    <3>2. FirstStep(Head(jobs).kind) \in {"close", "reopen", "report"}
      BY DEF FirstStep
    <3>3. Head(jobs) # NoJob
      BY <3>1 DEF Job, JobKind, NoJob
    <3> QED
      BY <2>1, <2>2, <3>1, <3>2, <3>3 DEF TakeJob
  <2>3. CASE CloseConnection \/ LibcecClose \/ ReopenConnection \/ LibcecDestroy
    BY <2>1, <2>3 DEF CloseConnection, LibcecClose, ReopenConnection, LibcecDestroy
  <2>4. CASE OpenFails \/ OpenSucceeds \/ MarkConnected \/ CheckConnected
    <3>1. AfterOpen \in {"check", "report"}
      BY DEF AfterOpen
    <3> QED
      BY <2>1, <2>4, <3>1 DEF OpenFails, OpenSucceeds, MarkConnected, CheckConnected
  <2>5. CASE FinishJob
    BY <2>1, <2>5 DEF FinishJob
  <2>6. CASE WorkerExit
    BY <2>1, <2>6, EmptySeq DEF WorkerExit
  <2> QED
    BY <2>2, <2>3, <2>4, <2>5, <2>6 DEF WorkerStep
<1>2. CASE work' # work
  <2>1. FinishJob /\ job.kind # "replay"
    BY <1>2 DEF WorkerStep, TakeJob, CloseConnection, LibcecClose, ReopenConnection,
                LibcecDestroy, OpenFails, OpenSucceeds, MarkConnected, CheckConnected,
                FinishJob, WorkerExit
  <2>2. Report(job.kind, wok) \in Closure
    BY DEF Report, Closure
  <2>3. job.id \in Nat
    BY DEF Job, NoJob
  <2>4. Post(Report(job.kind, wok), job.id)
    BY <2>1 DEF FinishJob
  <2>5. /\ work' \in Seq([fn : Closure, id : Nat])
        /\ batch \in 0 .. Len(work')
    BY <2>2, <2>3, <2>4, PostKeepsTypes
  <2>6. WorkerTypeOK'
    BY <2>1 DEF FinishJob
  <2> QED
    BY <2>5, <2>6
<1> QED
  BY <1>1, <1>2

(* The alert thread clears the flag and posts.                             *)
LEMMA AlertKeepsTypes ==
  ASSUME LoopTypeOK, WorkerTypeOK, AlertClearsFlag \/ AlertPosts
  PROVE  /\ WorkerTypeOK'
         /\ work' \in Seq([fn : Closure, id : Nat])
         /\ batch \in 0 .. Len(work')
<1>1. CASE AlertClearsFlag
  BY <1>1 DEF AlertClearsFlag, WorkerTypeOK, LoopTypeOK
<1>2. CASE AlertPosts
  <2>1. "connectionLost" \in Closure /\ 0 \in Nat
    BY DEF Closure
  <2> QED
    BY <1>2, <2>1, PostKeepsTypes DEF AlertPosts, WorkerTypeOK
<1> QED
  BY <1>1, <1>2

(* Processing a bus message keeps the types of the lock and of the loop.   *)
LEMMA BusKeepsTypes ==
  ASSUME LoopTypeOK, LockTypeOK, OnPrepareForSleep \/ OnInhibitReply
  PROVE  LoopTypeOK' /\ LockTypeOK'
<1>1. bus # << >> /\ bus \in Seq(BusMessage) /\ Tail(bus) \in Seq(BusMessage)
  BY HeadTailProperties DEF OnPrepareForSleep, OnInhibitReply, LockTypeOK
<1>2. CASE OnPrepareForSleep
  <2> DEFINE fn == IF Head(bus) = "sleep" THEN "suspendDBus" ELSE "resumeDBus"
  <2>1. fn \in Closure /\ 0 \in Nat /\ Post(fn, 0)
    BY <1>2 DEF Closure, OnPrepareForSleep
  <2> HIDE DEF fn
  <2>2. work' \in Seq([fn : Closure, id : Nat]) /\ batch \in 0 .. Len(work')
    BY <2>1, PostKeepsTypes
  <2>3. LoopTypeOK'
    BY <1>2, <2>2 DEF OnPrepareForSleep, LoopTypeOK
  <2>4. LockTypeOK'
    BY <1>1, <1>2 DEF OnPrepareForSleep, LockTypeOK
  <2> QED
    BY <2>3, <2>4
<1>3. CASE OnInhibitReply
  <2>1. LoopTypeOK'
    BY <1>3 DEF OnInhibitReply, LoopTypeOK, loopVars
  <2>2. LockTypeOK'
    BY <1>1, <1>3 DEF OnInhibitReply, LockTypeOK
  <2> QED
    BY <2>1, <2>2
<1> QED
  BY <1>2, <1>3

(* logind's own steps only append to the bus.                              *)
LEMMA LogindKeepsTypes ==
  ASSUME LockTypeOK, PrepareForSleep \/ WakeUp \/ AnswerInhibit
  PROVE  LockTypeOK'
<1>1. ASSUME NEW m \in BusMessage
      PROVE  Append(bus, m) \in Seq(BusMessage)
  BY DEF LockTypeOK
<1>2. {"sleep", "wake", "granted", "refused"} \subseteq BusMessage
  BY DEF BusMessage
<1> QED
  BY <1>1, <1>2 DEF LockTypeOK, lockVars, PrepareForSleep, WakeUp, AnswerInhibit

-----------------------------------------------------------------------------
(* The supervisor. *)

(* What an effect leaves to run is a sequence of frames, and the jobs it   *)
(* submits are jobs.                                                       *)
LEMMA FramesAndJobs ==
  ASSUME LoopTypeOK, WorkerTypeOK
  PROVE  /\ \A fn \in Handler : Call(fn) \in Frame
         /\ \A fn \in Handler : \A rest \in Seq(Frame) : <<Call(fn)>> \o rest \in Seq(Frame)
         /\ calls # << >> => Head(calls) \in Frame /\ Tail(calls) \in Seq(Frame)
         /\ \A kind \in JobKind : \A id \in Nat : Append(jobs, [kind |-> kind, id |-> id]) \in Seq(Job)
<1>1. ASSUME NEW fn \in Handler
      PROVE  Call(fn) \in Frame
  BY DEF Call, Frame
<1>2. ASSUME NEW fn \in Handler, NEW rest \in Seq(Frame)
      PROVE  <<Call(fn)>> \o rest \in Seq(Frame)
  <2>1. <<Call(fn)>> \in Seq(Frame)
    BY <1>1
  <2> QED
    BY <2>1, ConcatProperties
<1>3. ASSUME calls # << >>
      PROVE  Head(calls) \in Frame /\ Tail(calls) \in Seq(Frame)
  BY <1>3, HeadTailProperties DEF LoopTypeOK
<1>4. ASSUME NEW kind \in JobKind, NEW id \in Nat
      PROVE  Append(jobs, [kind |-> kind, id |-> id]) \in Seq(Job)
  <2>1. [kind |-> kind, id |-> id] \in Job
    BY DEF Job
  <2> QED
    BY <2>1 DEF WorkerTypeOK
<1> QED
  BY <1>1, <1>2, <1>3, <1>4

(* PowerSupervisor::execute keeps the types for every well-formed answer   *)
(* of the reconnect cycle.                                                 *)
LEMMA ExecuteKeepsTypes ==
  ASSUME TypeOK, NEW rest \in Seq(Frame), NEW r,
         r.rc \in AdapterReconnectState, Execute(r, rest)
  PROVE  /\ reconnect' \in AdapterReconnectState
         /\ retryTimer' \in TimerState
         /\ calls' \in Seq(Frame)
         /\ jobs' \in Seq(Job)
         /\ loop' \in LoopState
         /\ exitStatus' \in {"success", "failure"}
<1> USE DEF TypeOK, LoopTypeOK, WorkerTypeOK, SupervisorTypeOK, TimerState, LoopState
<1>1. /\ <<Call("attemptFailed")>> \o rest \in Seq(Frame)
      /\ <<Call("attemptSucceeded")>> \o rest \in Seq(Frame)
      /\ Append(jobs, [kind |-> "reconnect", id |-> 0]) \in Seq(Job)
  BY FramesAndJobs DEF Handler, Closure, JobKind
<1>2. onEvent(r.rc, "TimerArmFailed").rc \in AdapterReconnectState
  BY ReconnectTypes DEF ReconnectEvent
<1>3. ReconnectAsync(rest) => calls' \in Seq(Frame) /\ jobs' \in Seq(Job)
  BY <1>1 DEF ReconnectAsync, Submit
<1> QED
  BY <1>2, <1>3 DEF Execute, RequestUnrecoverableShutdown

(* PowerSupervisor::executeEffects keeps the types for every well-formed   *)
(* Output of the lifecycle.                                                *)
LEMMA EffectsKeepTypes ==
  ASSUME TypeOK, NEW rest \in Seq(Frame), NEW out \in LifecycleOutput,
         ExecuteEffects(out, rest)
  PROVE  /\ reconnect' \in AdapterReconnectState
         /\ retryTimer' \in TimerState
         /\ safetyTimer' \in TimerState
         /\ held' \in BOOLEAN /\ slot' \in BOOLEAN /\ request' \in BOOLEAN
         /\ calls' \in Seq(Frame)
         /\ jobs' \in Seq(Job)
         /\ suspended' \in BOOLEAN
<1> USE DEF TypeOK, LoopTypeOK, WorkerTypeOK, SupervisorTypeOK, LockTypeOK, TimerState
<1>1. Notified(out.notify).rc \in AdapterReconnectState
  <2>1. out.notify \in {"None", "SystemSuspend", "SystemResume"}
    BY DEF LifecycleOutput
  <2>2. CASE out.notify = "None"
    BY <2>2 DEF Notified, Effect
  <2>3. CASE out.notify # "None"
    <3>1. out.notify \in ReconnectEvent
      BY <2>1, <2>3 DEF ReconnectEvent
    <3> QED
      BY <2>3, <3>1, ReconnectTypes DEF Notified
  <2> QED
    BY <2>2, <2>3
<1>2. safetyTimer' \in TimerState
  BY DEF ExecuteEffects, SafetyTimerOp
<1>3. held' \in BOOLEAN /\ slot' \in BOOLEAN /\ request' \in BOOLEAN
  BY DEF ExecuteEffects, LockOp, lockVars, releaseInhibitLock, takeInhibitLock
<1>4. /\ <<Call("suspendCompleted")>> \o rest \in Seq(Frame)
      /\ <<Call("resumeInvalid")>> \o rest \in Seq(Frame)
      /\ Append(jobs, [kind |-> "suspend", id |-> 0]) \in Seq(Job)
      /\ Append(jobs, [kind |-> "resume", id |-> 0]) \in Seq(Job)
  BY FramesAndJobs DEF Handler, Closure, JobKind
<1>5. calls' \in Seq(Frame) /\ jobs' \in Seq(Job) /\ suspended' \in BOOLEAN
  BY <1>4 DEF ExecuteEffects, SubmitWork, SuspendAsync, ResumeAsync, Submit
<1> QED
  BY <1>1, <1>2, <1>3, <1>5 DEF ExecuteEffects

(* Replayed commands are jobs.                                             *)
LEMMA ReplayedAreJobs ==
  ASSUME queued \in Seq(Nat)
  PROVE  [i \in DOMAIN queued |-> [kind |-> "replay", id |-> queued[i]]] \in Seq(Job)
<1> DEFINE replayed == [i \in DOMAIN queued |-> [kind |-> "replay", id |-> queued[i]]]
<1>1. DOMAIN queued = 1 .. Len(queued) /\ Len(queued) \in Nat
  BY LenProperties
<1>2. \A i \in DOMAIN queued : queued[i] \in Nat
  BY <1>1, ElementOfSeq
<1>3. \A i \in 1 .. Len(queued) : [kind |-> "replay", id |-> queued[i]] \in Job
  BY <1>1, <1>2 DEF Job, JobKind
<1>4. replayed \in [1 .. Len(queued) -> Job]
  BY <1>1, <1>3
<1> QED
  BY <1>1, <1>4, SeqDef

(* Every handler of the supervisor keeps the types.                        *)
LEMMA SupervisorKeepsTypes ==
  ASSUME TypeOK, SupervisorStep, UNCHANGED clientVars
  PROVE  TypeOK'
<1> USE DEF TypeOK, clientVars, InputTypeOK
<1>1. ASSUME calls # << >> PROVE Tail(calls) \in Seq(Frame)
  BY <1>1, FramesAndJobs
<1>2. ASSUME NEW rest \in Seq(Frame), NEW out \in LifecycleOutput,
             lifecycle' \in PowerLifecycleState,
             ExecuteEffects(out, rest), UNCHANGED supervisorRest
      PROVE  TypeOK'
  <2>1. /\ reconnect' \in AdapterReconnectState
        /\ retryTimer' \in TimerState
        /\ safetyTimer' \in TimerState
        /\ held' \in BOOLEAN /\ slot' \in BOOLEAN /\ request' \in BOOLEAN
        /\ calls' \in Seq(Frame)
        /\ jobs' \in Seq(Job)
        /\ suspended' \in BOOLEAN
    BY <1>2, EffectsKeepTypes
  <2> QED
    BY <1>2, <2>1 DEF supervisorRest, LoopTypeOK, WorkerTypeOK, LockTypeOK, SupervisorTypeOK
<1>3. ASSUME NEW rest \in Seq(Frame), NEW t, t.lc \in PowerLifecycleState,
             t.out \in LifecycleOutput, ApplyLifecycle(t, rest)
      PROVE  TypeOK'
  <2>1. <<Call("pumpQueue")>> \o rest \in Seq(Frame)
    BY FramesAndJobs DEF Handler
  <2> QED
    BY <1>2, <1>3, <2>1 DEF ApplyLifecycle
<1>4. ASSUME NEW rest \in Seq(Frame), NEW r, r.rc \in AdapterReconnectState,
             Execute(r, rest), UNCHANGED reconnectRest
      PROVE  TypeOK'
  <2>1. /\ reconnect' \in AdapterReconnectState
        /\ retryTimer' \in TimerState
        /\ calls' \in Seq(Frame)
        /\ jobs' \in Seq(Job)
        /\ loop' \in LoopState
        /\ exitStatus' \in {"success", "failure"}
    BY <1>4, ExecuteKeepsTypes
  <2> QED
    BY <1>4, <2>1 DEF reconnectRest, LoopTypeOK, WorkerTypeOK, LockTypeOK, SupervisorTypeOK
<1>5. lifecycle \in PowerLifecycleState /\ reconnect \in AdapterReconnectState
  BY DEF SupervisorTypeOK
<1>6. Inert \in LifecycleOutput
  BY DEF Inert, LifecycleOutput
<1>7. ASSUME NEW fn, NEW source \in Source,
             OnSuspendRequested(fn, source) \/ OnResumeRequested(fn, source)
      PROVE  TypeOK'
  BY <1>1, <1>3, <1>5, <1>6, <1>7, LifecycleTypes
     DEF OnSuspendRequested, OnResumeRequested, Running
<1>8. CASE PumpQueue
  <2>1. pumpQueue(lifecycle).lc \in PowerLifecycleState
        /\ pumpQueue(lifecycle).out \in LifecycleOutput
    BY <1>5, LifecycleTypes DEF Source
  <2> QED
    BY <1>1, <1>2, <1>8, <2>1 DEF PumpQueue, Running
<1>9. CASE OnSuspendCompleted
  <2>1. onSuspendCompleted(lifecycle).lc \in PowerLifecycleState
        /\ onSuspendCompleted(lifecycle).out \in LifecycleOutput
    BY <1>5, LifecycleTypes DEF Source
  <2> QED
    BY <1>1, <1>3, <1>9, <2>1 DEF OnSuspendCompleted, Running
<1>10. ASSUME NEW fn, NEW valid \in BOOLEAN, OnResumeWorkerComplete(fn, valid)
       PROVE  TypeOK'
  <2>1. Tail(calls) \in Seq(Frame)
    BY <1>1, <1>10 DEF OnResumeWorkerComplete, Running
  <2>2. calls' \in Seq(Frame)
    BY <1>10, <2>1, FramesAndJobs DEF OnResumeWorkerComplete, Handler
  <2>3. jobs' \in Seq(Job)
    <3>1. jobs \in Seq(Job) /\ queued \in Seq(Nat)
      BY DEF WorkerTypeOK, SupervisorTypeOK
    <3> QED
      BY <1>10, <3>1, ReplayedAreJobs, ConcatProperties DEF OnResumeWorkerComplete, Replay
  <2>4. queued' \in Seq(Nat)
    BY <1>10, EmptySeq DEF OnResumeWorkerComplete
  <2> QED
    BY <1>10, <2>2, <2>3, <2>4
       DEF OnResumeWorkerComplete, LoopTypeOK, WorkerTypeOK, LockTypeOK, SupervisorTypeOK
<1>11. ASSUME NEW fn, NEW valid \in BOOLEAN, OnResumeCompleted(fn, valid)
       PROVE  TypeOK'
  <2>1. onResumeCompleted(lifecycle).lc \in PowerLifecycleState
        /\ onResumeCompleted(lifecycle).out \in LifecycleOutput
    BY <1>5, LifecycleTypes DEF Source
  <2>2. Tail(calls) \in Seq(Frame)
    BY <1>1, <1>11 DEF OnResumeCompleted, Running
  <2>3. <<Call("seedCycle")>> \o Tail(calls) \in Seq(Frame)
    BY <2>2, FramesAndJobs DEF Handler
  <2>4. << >> \o Tail(calls) \in Seq(Frame)
    BY <2>2, ConcatProperties, EmptySeq
  <2>5. (IF valid THEN << >> ELSE <<Call("seedCycle")>>) \o Tail(calls) \in Seq(Frame)
    BY <2>3, <2>4
  <2> QED
    BY <1>3, <1>11, <2>1, <2>5 DEF OnResumeCompleted
<1>12. CASE OnSafetyTimerFired
  <2>1. onSafetyTimerFired(lifecycle).lc \in PowerLifecycleState
    BY <1>5, LifecycleTypes DEF Source
  <2>2. Tail(calls) \in Seq(Frame)
    BY <1>1, <1>12 DEF OnSafetyTimerFired, Running
  <2>3. <<Call("pumpQueue")>> \o Tail(calls) \in Seq(Frame)
    BY <2>2, FramesAndJobs DEF Handler
  <2>4. held' \in BOOLEAN /\ slot' \in BOOLEAN /\ request' \in BOOLEAN
    BY <1>12 DEF OnSafetyTimerFired, LockOp, lockVars, releaseInhibitLock, takeInhibitLock,
                 LockTypeOK
  <2>5. safetyTimer' \in TimerState
    BY <1>12 DEF OnSafetyTimerFired, Consumed, LoopTypeOK, TimerState
  <2> QED
    BY <1>12, <2>1, <2>3, <2>4, <2>5
       DEF OnSafetyTimerFired, supervisorRest,
           LoopTypeOK, WorkerTypeOK, LockTypeOK, SupervisorTypeOK
<1>13. CASE SeedCycle
  <2>1. seedCycle(reconnect).rc \in AdapterReconnectState
    BY <1>5, ReconnectTypes DEF ReconnectEvent
  <2> QED
    BY <1>1, <1>4, <1>13, <2>1 DEF SeedCycle, Running
<1>14. ASSUME NEW event \in ReconnectEvent
       PROVE  onEvent(reconnect, event).rc \in AdapterReconnectState
  BY <1>5, ReconnectTypes
<1>15. CASE OnConnectionLost
  BY <1>1, <1>4, <1>14, <1>15 DEF OnConnectionLost, Running, ReconnectEvent
<1>16. ASSUME NEW fn, NEW event \in ReconnectEvent, OnReconnectResult(fn, event)
       PROVE  TypeOK'
  BY <1>1, <1>4, <1>14, <1>16 DEF OnReconnectResult, Running
<1>17. CASE OnReconnectRetryTimerFired
  <2> DEFINE r == onEvent(reconnect, "RetryTimerFired")
  <2>1. r.rc \in AdapterReconnectState
    BY <1>14 DEF ReconnectEvent
  <2>2. Tail(calls) \in Seq(Frame)
    BY <1>1, <1>17 DEF OnReconnectRetryTimerFired, Running
  <2>3. \/ /\ reconnect' = r.rc
           /\ retryTimer' = Consumed(retryTimer)
           /\ calls' = Tail(calls)
           /\ UNCHANGED <<jobs, loop, exitStatus>>
        \/ Execute(r, Tail(calls))
    BY <1>17 DEF OnReconnectRetryTimerFired
  <2>4. UNCHANGED reconnectRest
    BY <1>17 DEF OnReconnectRetryTimerFired
  <2> HIDE DEF r
  <2>5. CASE Execute(r, Tail(calls))
    BY <1>4, <2>1, <2>2, <2>4, <2>5
  <2>6. CASE ~Execute(r, Tail(calls))
    <3>1. /\ reconnect' \in AdapterReconnectState
          /\ calls' \in Seq(Frame)
          /\ UNCHANGED <<jobs, loop, exitStatus>>
      BY <2>1, <2>2, <2>3, <2>6
    <3>2. retryTimer' \in TimerState
      BY <2>3, <2>6 DEF Consumed, LoopTypeOK, TimerState
    <3> QED
      BY <2>4, <3>1, <3>2
         DEF reconnectRest, LoopTypeOK, WorkerTypeOK, LockTypeOK, SupervisorTypeOK
  <2> QED
    BY <2>5, <2>6
<1> QED
  BY <1>7, <1>8, <1>9, <1>10, <1>11, <1>12, <1>13, <1>15, <1>16, <1>17
     DEF SupervisorStep, Source, ReconnectEvent

-----------------------------------------------------------------------------
(* The daemon. *)

(* Spending an input keeps the type of the counters.                       *)
LEMMA SpendKeepsTypes ==
  ASSUME InputTypeOK, NEW input \in Input, Spend(input)
  PROVE  InputTypeOK'
BY DEF InputTypeOK, Spend

(* Commands read from clients keep the types.                              *)
LEMMA ClientKeepsTypes ==
  ASSUME TypeOK, ClientStep
  PROVE  TypeOK'
<1> USE DEF TypeOK, LoopTypeOK, WorkerTypeOK, LockTypeOK, SupervisorTypeOK
<1>1. ASSUME NEW input \in Input, Spend(input)
      PROVE  InputTypeOK'
  BY <1>1, SpendKeepsTypes
<1>2. {"suspend", "resume", "command", "restart"} \subseteq Input
  BY DEF Input
<1>3. CommandId \in Nat
  <2>1. \A input \in Input : spent[input] \in Nat
    BY DEF InputTypeOK
  <2> QED
    BY <1>2, <2>1 DEF CommandId
<1> HIDE DEF CommandId
<1>4. ASSUME NEW input \in Input, NEW fn \in Handler, WireRequest(input, fn)
      PROVE  TypeOK'
  <2>1. calls' \in Seq(Frame)
    BY <1>4, FramesAndJobs DEF WireRequest
  <2> QED
    BY <1>1, <1>4, <2>1
       DEF WireRequest, workerVars, adapterVars, busVars, supervisorVars
<1>5. ASSUME NEW input \in Input, NEW kind \in JobKind, DispatchToWorker(input, kind)
      PROVE  TypeOK'
  <2>1. jobs' \in Seq(Job)
    BY <1>3, <1>5, FramesAndJobs DEF DispatchToWorker, Submit
  <2>2. awaiting' \subseteq Nat
    BY <1>3, <1>5 DEF DispatchToWorker
  <2> QED
    BY <1>1, <1>5, <2>1, <2>2
       DEF DispatchToWorker, loopVars, adapterVars, busVars, supervisorVars
<1>6. CASE EnqueueCommand
  <2>1. queued' \in Seq(Nat)
    BY <1>3, <1>6 DEF EnqueueCommand
  <2> QED
    BY <1>1, <1>2, <1>6, <2>1
       DEF EnqueueCommand, loopVars, workerVars, adapterVars, busVars
<1>7. CASE RefuseCommand
  BY <1>1, <1>2, <1>7
     DEF RefuseCommand, loopVars, workerVars, adapterVars, busVars, supervisorVars
<1> QED
  BY <1>2, <1>4, <1>5, <1>6, <1>7
     DEF ClientStep, WireSuspend, WireResume, DispatchCommand, RestartAdapter,
         Handler, JobKind

(* Every step of the daemon keeps the types.                               *)
LEMMA NextKeepsTypes ==
  ASSUME TypeOK, [Next]_vars
  PROVE  TypeOK'
<1> USE DEF TypeOK
<1>1. CASE LoopStep
  BY <1>1, LoopKeepsTypes
     DEF LoopStep, workerVars, adapterVars, busVars, supervisorVars, clientVars,
         WorkerTypeOK, LockTypeOK, SupervisorTypeOK, InputTypeOK
<1>2. CASE HandlerStep
  BY <1>2, SupervisorKeepsTypes DEF HandlerStep
<1>3. CASE BusStep
  BY <1>3, BusKeepsTypes
     DEF BusStep, workerVars, adapterVars, supervisorVars, clientVars,
         WorkerTypeOK, SupervisorTypeOK, InputTypeOK
<1>4. CASE Reply
  <2>1. calls' \in Seq(Frame)
    BY <1>4, FramesAndJobs DEF Reply, Running
  <2>2. awaiting' \subseteq Nat
    BY <1>4 DEF Reply
  <2> QED
    BY <1>4, <2>1, <2>2
       DEF Reply, workerVars, adapterVars, busVars, supervisorVars,
           LoopTypeOK, WorkerTypeOK, LockTypeOK, SupervisorTypeOK, InputTypeOK
<1>5. CASE Stop
  <2>1. queued' \in Seq(Nat)
    BY <1>5, EmptySeq DEF Stop
  <2> QED
    BY <1>5, <2>1
       DEF Stop, workerVars, adapterVars, busVars, LoopState,
           LoopTypeOK, WorkerTypeOK, LockTypeOK, SupervisorTypeOK, InputTypeOK
<1>6. CASE TimerStep
  <2>1. LoopTypeOK'
    BY <1>6 DEF TimerStep, SafetyTimerExpires, RetryTimerExpires, TimerState, LoopTypeOK
  <2> QED
    BY <1>6, <2>1
       DEF TimerStep, workerVars, adapterVars, busVars, supervisorVars, clientVars,
           WorkerTypeOK, LockTypeOK, SupervisorTypeOK, InputTypeOK
<1>7. ASSUME WorkerTypeOK', work' \in Seq([fn : Closure, id : Nat]),
             batch \in 0 .. Len(work'), InputTypeOK', UNCHANGED workerRest
      PROVE  TypeOK'
  BY <1>7 DEF workerRest, LoopTypeOK, LockTypeOK, SupervisorTypeOK
<1>8. CASE AdapterStep
  <2>1. InputTypeOK' /\ WorkerStep /\ UNCHANGED workerRest
    BY <1>8 DEF AdapterStep, InputTypeOK
  <2> QED
    BY <1>7, <2>1, WorkerKeepsTypes
<1>9. CASE ConnectionLost
  <2>1. InputTypeOK' /\ AlertClearsFlag /\ UNCHANGED workerRest
    BY <1>9, SpendKeepsTypes DEF ConnectionLost, Input
  <2> QED
    BY <1>7, <2>1, AlertKeepsTypes
<1>10. CASE AlertStep
  <2>1. InputTypeOK' /\ AlertPosts /\ UNCHANGED workerRest
    BY <1>10 DEF AlertStep, InputTypeOK
  <2> QED
    BY <1>7, <2>1, AlertKeepsTypes
<1>11. CASE LogindSleeps \/ LogindWakes \/ LogindAnswers
  <2>1. InputTypeOK'
    <3>1. CASE LogindSleeps
      BY <3>1, SpendKeepsTypes DEF LogindSleeps, Input
    <3>2. CASE LogindWakes \/ LogindAnswers
      BY <3>2 DEF LogindWakes, LogindAnswers, InputTypeOK
    <3> QED
      BY <1>11, <3>1, <3>2
  <2>2. LockTypeOK'
    BY <1>11, LogindKeepsTypes DEF LogindSleeps, LogindWakes, LogindAnswers
  <2>3. UNCHANGED logindRest
    BY <1>11 DEF LogindSleeps, LogindWakes, LogindAnswers
  <2> QED
    BY <2>1, <2>2, <2>3
       DEF logindRest, loopVars, workerVars, adapterVars, supervisorVars,
           LoopTypeOK, WorkerTypeOK, SupervisorTypeOK
<1>12. CASE ClientStep
  BY <1>12, ClientKeepsTypes
<1>13. CASE Terminate
  BY <1>13
     DEF Terminate, workerVars, adapterVars, busVars, supervisorVars, clientVars, LoopState,
         LoopTypeOK, WorkerTypeOK, LockTypeOK, SupervisorTypeOK, InputTypeOK
<1>14. CASE Stopped
  BY <1>14
     DEF Stopped, workerVars, supervisorVars, clientVars, LoopState,
         LoopTypeOK, WorkerTypeOK, LockTypeOK, SupervisorTypeOK, InputTypeOK
<1>15. CASE UNCHANGED vars
  BY <1>15 DEF vars, LoopTypeOK, WorkerTypeOK, LockTypeOK, SupervisorTypeOK, InputTypeOK
<1> QED
  BY <1>1, <1>2, <1>3, <1>4, <1>5, <1>6, <1>8, <1>9, <1>10, <1>11, <1>12, <1>13,
     <1>14, <1>15 DEF Next, MainStep, Done

(* The daemon's variables keep their types: in particular what is left of  *)
(* a handler is always a sequence of calls the loop can run, a batch never *)
(* promises more closures than the queue holds, and the worker is inside a *)
(* job exactly when it has popped one.                                     *)
THEOREM TypeCorrect == Spec => []TypeOK
<1>1. Init => TypeOK
  <2> SUFFICES ASSUME Init PROVE TypeOK
    OBVIOUS
  <2>1. LoopTypeOK
    BY EmptySeq DEF Init, LoopInit, LoopTypeOK, TimerState, LoopState
  <2>2. WorkerTypeOK
    BY EmptySeq DEF Init, WorkerInit, WorkerTypeOK, WorkerPc
  <2>3. LockTypeOK
    BY EmptySeq DEF Init, LockInit, LockTypeOK
  <2>4. SupervisorTypeOK
    <3>1. PowerLifecycleInit \in PowerLifecycleState
      BY EmptySeq DEF PowerLifecycleInit, PowerLifecycleState, Phase, Source
    <3>2. AdapterReconnectInit \in AdapterReconnectState
      BY ScheduleAssumption DEF AdapterReconnectInit, resetCycle, AdapterReconnectState
    <3> QED
      BY <3>1, <3>2, EmptySeq DEF Init, SupervisorInit, SupervisorTypeOK
  <2>5. InputTypeOK /\ awaiting \subseteq Nat
    BY DEF Init, InputTypeOK
  <2> QED
    BY <2>1, <2>2, <2>3, <2>4, <2>5 DEF TypeOK
<1>2. TypeOK /\ [Next]_vars => TypeOK'
  BY NextKeepsTypes
<1> QED
  BY <1>1, <1>2, PTL DEF Spec

-----------------------------------------------------------------------------
(* The decision types and their timers. *)

(* What the reconnect cycle answers is in step with the state it goes to.  *)
LEMMA ReconnectAnswers ==
  ASSUME NEW rc \in AdapterReconnectState, NEW event \in ReconnectEvent
  PROVE  LET r == onEvent(rc, event)
         IN  /\ r.effect = "None" =>
                  (r.rc.state = "WaitingForRetry" <=> rc.state = "WaitingForRetry")
             /\ r.effect = "StartAttempt" => r.rc.state = "Attempting"
             /\ r.effect = "ScheduleRetry" =>
                  r.rc.state = "WaitingForRetry" /\ rc.state # "WaitingForRetry"
             /\ r.effect = "CancelRetry" => r.rc.state = "Idle"
             /\ r.effect = "AbandonCycle" =>
                  /\ r.rc.state = "Idle"
                  /\ rc.state = "WaitingForRetry" => event = "TimerArmFailed"
             /\ event \in {"SystemSuspend", "SystemResume"} =>
                  r.effect \in {"None", "CancelRetry"}
<1> USE ScheduleAssumption
    DEF AdapterReconnectState, ReconnectEvent, Effect, resetCycle, firstAttempt
<1>1. CASE rc.state = "Idle"
  BY <1>1 DEF onEvent, onEventIdle
<1>2. CASE rc.state = "Attempting"
  BY <1>2 DEF onEvent, onEventAttempting, nextDelay
<1>3. CASE rc.state = "WaitingForRetry"
  BY <1>3 DEF onEvent, onEventWaiting
<1> QED
  BY <1>1, <1>2, <1>3

(* A cycle's attempt number follows the delays drawn.                      *)
Numbered(rc) ==
  /\ rc.nextAttemptNumber = (IF rc.state = "Idle" THEN 0 ELSE rc.drawn + 1)
  /\ rc.state = "Idle" => rc.drawn = 0

(* Every event of the reconnect cycle, and a seed, keep the numbering.     *)
LEMMA ReconnectNumbers ==
  ASSUME NEW rc \in AdapterReconnectState, NEW event \in ReconnectEvent, Numbered(rc)
  PROVE  Numbered(onEvent(rc, event).rc) /\ Numbered(seedCycle(rc).rc)
<1> USE ScheduleAssumption
    DEF Numbered, AdapterReconnectState, Effect, resetCycle, firstAttempt
<1>1. CASE rc.state = "Idle"
  BY <1>1 DEF onEvent, onEventIdle, seedCycle
<1>2. CASE rc.state = "Attempting"
  BY <1>2 DEF onEvent, onEventAttempting, nextDelay, seedCycle
<1>3. CASE rc.state = "WaitingForRetry"
  BY <1>3 DEF onEvent, onEventWaiting, seedCycle
<1> QED
  BY <1>1, <1>2, <1>3

(* Only the supervisor changes the decision types, or turns a timer on or  *)
(* off.                                                                    *)
LEMMA OnlySupervisor ==
  ASSUME TypeOK, [Next]_vars, ~SupervisorStep
  PROVE  /\ UNCHANGED <<lifecycle, reconnect>>
         /\ safetyTimer' = "off" <=> safetyTimer = "off"
         /\ retryTimer' = "off" <=> retryTimer = "off"
<1>1. CASE LoopStep
  BY <1>1 DEF LoopStep, supervisorVars, MainLoopStep, Poll, Drain, RunClosure,
              DispatchSafetyTimer, DispatchRetryTimer, DispatchTimer
<1>2. CASE BusStep
  BY <1>2 DEF BusStep, supervisorVars, OnPrepareForSleep, OnInhibitReply, loopVars
<1>3. CASE Reply \/ Stop \/ Terminate \/ Stopped
  BY <1>3 DEF Reply, Stop, Terminate, Stopped, supervisorVars
<1>4. CASE TimerStep
  BY <1>4 DEF TimerStep, SafetyTimerExpires, RetryTimerExpires, supervisorVars
<1>5. CASE AdapterStep \/ ConnectionLost \/ AlertStep
  BY <1>5 DEF AdapterStep, ConnectionLost, AlertStep, workerRest
<1>6. CASE LogindSleeps \/ LogindWakes \/ LogindAnswers
  BY <1>6 DEF LogindSleeps, LogindWakes, LogindAnswers, logindRest, loopVars, supervisorVars
<1>7. CASE ClientStep
  BY <1>7 DEF ClientStep, WireSuspend, WireResume, WireRequest, DispatchCommand,
              RestartAdapter, DispatchToWorker, EnqueueCommand, RefuseCommand,
              loopVars, supervisorVars
<1>8. CASE UNCHANGED vars
  BY <1>8 DEF vars
<1> QED
  BY <1>1, <1>2, <1>3, <1>4, <1>5, <1>6, <1>7, <1>8 DEF Next, MainStep, HandlerStep, Done

(* PowerSupervisor::execute drives the retry timer as the cycle's state    *)
(* says, whether or not the timer can be armed.                            *)
LEMMA ExecuteDrivesTimer ==
  ASSUME TypeOK, WaitingIffRetryArmed, AttemptNumbering, NEW rest,
         NEW r, r.rc \in AdapterReconnectState, Numbered(r.rc), Execute(r, rest),
         r.effect = "None" =>
           (r.rc.state = "WaitingForRetry" <=> reconnect.state = "WaitingForRetry"),
         r.effect = "StartAttempt" => r.rc.state = "Attempting",
         r.effect = "ScheduleRetry" =>
           r.rc.state = "WaitingForRetry" /\ reconnect.state # "WaitingForRetry",
         r.effect = "AbandonCycle" =>
           r.rc.state = "Idle" /\ reconnect.state # "WaitingForRetry"
  PROVE  WaitingIffRetryArmed' /\ AttemptNumbering'
<1> DEFINE failed == onEvent(r.rc, "TimerArmFailed").rc
<1>1. "TimerArmFailed" \in ReconnectEvent
  BY DEF ReconnectEvent
<1>2. Numbered(failed)
  BY <1>1, ReconnectNumbers
<1>3. r.effect = "ScheduleRetry" => failed.state = "Idle"
  BY DEF onEvent, onEventWaiting, Effect, resetCycle
<1>4. WaitingIffRetryArmed'
  BY <1>3 DEF WaitingIffRetryArmed, Execute
<1>5. reconnect' = r.rc \/ reconnect' = failed
  BY DEF Execute
<1>6. AttemptNumbering'
  BY <1>2, <1>5 DEF AttemptNumbering, Numbered
<1> QED
  BY <1>4, <1>6

(* PowerSupervisor::executeEffects disarms the retry timer of a cycle that *)
(* a suspend or a resume ends.                                             *)
LEMMA NotifyDrivesTimer ==
  ASSUME TypeOK, WaitingIffRetryArmed, AttemptNumbering,
         NEW out \in LifecycleOutput, NEW rest, ExecuteEffects(out, rest)
  PROVE  WaitingIffRetryArmed' /\ AttemptNumbering'
<1>1. reconnect \in AdapterReconnectState /\ Numbered(reconnect)
  BY DEF TypeOK, SupervisorTypeOK, AttemptNumbering, Numbered
<1>2. /\ reconnect' = Notified(out.notify).rc
      /\ retryTimer' = IF Notified(out.notify).effect = "CancelRetry" THEN "off"
                       ELSE retryTimer
  BY DEF ExecuteEffects
<1>3. CASE out.notify = "None"
  BY <1>1, <1>2, <1>3 DEF Notified, Effect, WaitingIffRetryArmed, AttemptNumbering
<1>4. CASE out.notify # "None"
  <2>1. /\ out.notify \in {"SystemSuspend", "SystemResume"}
        /\ out.notify \in ReconnectEvent
    BY <1>4 DEF LifecycleOutput, ReconnectEvent
  <2>2. Notified(out.notify) = onEvent(reconnect, out.notify)
    BY <1>4 DEF Notified
  <2>3. Numbered(reconnect')
    BY <1>1, <1>2, <2>1, <2>2, ReconnectNumbers
  <2>4. WaitingIffRetryArmed'
    BY <1>1, <1>2, <2>1, <2>2, ReconnectAnswers DEF WaitingIffRetryArmed
  <2> QED
    BY <2>3, <2>4 DEF Numbered, AttemptNumbering
<1> QED
  BY <1>3, <1>4

(* Every handler of the supervisor keeps the reconnect cycle, its numbers  *)
(* and its timer in step.                                                  *)
LEMMA SupervisorDrivesReconnect ==
  ASSUME TypeOK, WaitingIffRetryArmed, AttemptNumbering, SupervisorStep
  PROVE  WaitingIffRetryArmed' /\ AttemptNumbering'
<1>1. /\ lifecycle \in PowerLifecycleState
      /\ reconnect \in AdapterReconnectState
      /\ Numbered(reconnect)
  BY DEF TypeOK, SupervisorTypeOK, AttemptNumbering, Numbered
<1>2. ASSUME NEW out \in LifecycleOutput, NEW rest, ExecuteEffects(out, rest)
      PROVE  WaitingIffRetryArmed' /\ AttemptNumbering'
  BY <1>2, NotifyDrivesTimer
<1>3. /\ Inert \in LifecycleOutput
      /\ pumpQueue(lifecycle).out \in LifecycleOutput
      /\ onSuspendCompleted(lifecycle).out \in LifecycleOutput
      /\ onResumeCompleted(lifecycle).out \in LifecycleOutput
  <2>1. Inert \in LifecycleOutput
    BY DEF Inert, LifecycleOutput
  <2> QED
    BY <1>1, <2>1, LifecycleTypes DEF Source
<1>4. ASSUME NEW fn, NEW source \in Source,
             OnSuspendRequested(fn, source) \/ OnResumeRequested(fn, source)
      PROVE  WaitingIffRetryArmed' /\ AttemptNumbering'
  <2>1. /\ onSuspendRequested(lifecycle, source).out = Inert
        /\ onResumeRequested(lifecycle, source).out = Inert
    BY <1>1, LifecycleTypes
  <2>2. \E rest : ExecuteEffects(Inert, rest)
    BY <1>4, <2>1 DEF OnSuspendRequested, OnResumeRequested, ApplyLifecycle
  <2> QED
    BY <1>2, <1>3, <2>2
<1>5. CASE PumpQueue
  BY <1>2, <1>3, <1>5 DEF PumpQueue
<1>6. CASE OnSuspendCompleted
  BY <1>2, <1>3, <1>6 DEF OnSuspendCompleted, ApplyLifecycle
<1>7. ASSUME NEW fn, NEW valid, OnResumeCompleted(fn, valid)
      PROVE  WaitingIffRetryArmed' /\ AttemptNumbering'
  BY <1>2, <1>3, <1>7 DEF OnResumeCompleted, ApplyLifecycle
<1>8. ASSUME UNCHANGED <<reconnect, retryTimer>>
      PROVE  WaitingIffRetryArmed' /\ AttemptNumbering'
  BY <1>8 DEF WaitingIffRetryArmed, AttemptNumbering
<1>9. ASSUME NEW fn, NEW valid, OnResumeWorkerComplete(fn, valid)
      PROVE  WaitingIffRetryArmed' /\ AttemptNumbering'
  BY <1>8, <1>9 DEF OnResumeWorkerComplete
<1>10. CASE OnSafetyTimerFired
  BY <1>8, <1>10 DEF OnSafetyTimerFired
<1>11. CASE SeedCycle
  <2> DEFINE r == seedCycle(reconnect)
  <2>1. r.rc \in AdapterReconnectState /\ Numbered(r.rc) /\ Execute(r, Tail(calls))
    BY <1>1, <1>11, ReconnectTypes, ReconnectNumbers DEF SeedCycle, ReconnectEvent
  <2>2. /\ r.effect \in {"None", "ScheduleRetry"}
        /\ r.effect = "None" => r.rc = reconnect
        /\ r.effect = "ScheduleRetry" =>
             r.rc.state = "WaitingForRetry" /\ reconnect.state = "Idle"
    BY DEF seedCycle, Effect, firstAttempt
  <2> HIDE DEF r
  <2> QED
    BY <2>1, <2>2, ExecuteDrivesTimer
<1>12. ASSUME NEW event \in ReconnectEvent, event # "TimerArmFailed",
              Execute(onEvent(reconnect, event), Tail(calls))
       PROVE  WaitingIffRetryArmed' /\ AttemptNumbering'
  <2> DEFINE r == onEvent(reconnect, event)
  <2>1. r.rc \in AdapterReconnectState /\ Numbered(r.rc) /\ Execute(r, Tail(calls))
    BY <1>1, <1>12, ReconnectTypes, ReconnectNumbers
  <2>2. /\ r.effect = "None" =>
             (r.rc.state = "WaitingForRetry" <=> reconnect.state = "WaitingForRetry")
        /\ r.effect = "StartAttempt" => r.rc.state = "Attempting"
        /\ r.effect = "ScheduleRetry" =>
             r.rc.state = "WaitingForRetry" /\ reconnect.state # "WaitingForRetry"
        /\ r.effect = "AbandonCycle" =>
             r.rc.state = "Idle" /\ reconnect.state # "WaitingForRetry"
    BY <1>1, <1>12, ReconnectAnswers
  <2> HIDE DEF r
  <2> QED
    BY <2>1, <2>2, ExecuteDrivesTimer
<1>13. CASE OnConnectionLost
  BY <1>12, <1>13 DEF OnConnectionLost, ReconnectEvent
<1>14. CASE \/ OnReconnectResult("attemptSucceeded", "AttemptSucceeded")
            \/ OnReconnectResult("attemptFailed", "AttemptFailed")
  BY <1>12, <1>14 DEF OnReconnectResult, ReconnectEvent
<1>15. CASE OnReconnectRetryTimerFired
  <2> DEFINE r == onEvent(reconnect, "RetryTimerFired")
  <2>1. CASE r.effect # "None"
    BY <1>12, <1>15, <2>1 DEF OnReconnectRetryTimerFired, ReconnectEvent, Execute
  <2>2. CASE r.effect = "None"
    <3>1. reconnect.state # "WaitingForRetry"
      BY <2>2 DEF onEvent, onEventWaiting, Effect
    <3>2. reconnect' = r.rc /\ retryTimer' = Consumed(retryTimer)
      BY <1>15, <2>2 DEF OnReconnectRetryTimerFired, Execute
    <3>3. r.rc.state # "WaitingForRetry" /\ Numbered(r.rc)
      BY <1>1, <2>2, <3>1, ReconnectAnswers, ReconnectNumbers DEF ReconnectEvent
    <3> QED
      BY <3>1, <3>2, <3>3
         DEF Consumed, WaitingIffRetryArmed, AttemptNumbering, Numbered
  <2> QED
    BY <2>1, <2>2
<1> QED
  BY <1>4, <1>5, <1>6, <1>7, <1>9, <1>10, <1>11, <1>13, <1>14, <1>15
     DEF SupervisorStep, Source

(* The retry timer is armed exactly while the cycle waits for it, and      *)
(* attempts are numbered by the delays drawn: for every schedule, every    *)
(* order of losses, results, suspends, resumes and timer events, and also  *)
(* when timers cannot be armed.                                            *)
THEOREM RetryTimerCorrect == Spec => [](WaitingIffRetryArmed /\ AttemptNumbering)
<1> DEFINE Inv == WaitingIffRetryArmed /\ AttemptNumbering
<1>1. Init => Inv
  BY DEF Init, LoopInit, SupervisorInit, AdapterReconnectInit, resetCycle,
         WaitingIffRetryArmed, AttemptNumbering
<1>2. Inv /\ TypeOK /\ [Next]_vars => Inv'
  <2> SUFFICES ASSUME Inv, TypeOK, [Next]_vars PROVE Inv'
    OBVIOUS
  <2>1. CASE SupervisorStep
    BY <2>1, SupervisorDrivesReconnect
  <2>2. CASE ~SupervisorStep
    BY <2>2, OnlySupervisor DEF WaitingIffRetryArmed, AttemptNumbering
  <2> QED
    BY <2>1, <2>2
<1> QED
  BY <1>1, <1>2, TypeCorrect, PTL DEF Spec

-----------------------------------------------------------------------------
(* The safety timer runs during a suspend only, in every behaviour and     *)
(* also when it cannot be armed: it never outlives the cycle it guards.    *)
THEOREM SafetyTimerCorrect == Spec => []SafetyTimerOnlyInSuspend
<1>1. Init => SafetyTimerOnlyInSuspend
  BY DEF Init, LoopInit, SupervisorInit, PowerLifecycleInit, SafetyTimerOnlyInSuspend
<1>2. TypeOK /\ SafetyTimerOnlyInSuspend /\ [Next]_vars => SafetyTimerOnlyInSuspend'
  <2> SUFFICES ASSUME TypeOK, SafetyTimerOnlyInSuspend, [Next]_vars
               PROVE  SafetyTimerOnlyInSuspend'
    OBVIOUS
  <2>1. CASE ~SupervisorStep
    BY <2>1, OnlySupervisor DEF SafetyTimerOnlyInSuspend
  <2>2. lifecycle \in PowerLifecycleState
    BY DEF TypeOK, SupervisorTypeOK
  <2>3. ASSUME NEW t, NEW rest, lifecycle' = t.lc, ExecuteEffects(t.out, rest),
               t.lc.safetyFiredFirst => t.lc.phase = "Suspending",
               t.lc.phase # "Suspending" =>
                 t.out.timer = "Disarm" \/ (t.out.timer = "None" /\ lifecycle.phase # "Suspending")
        PROVE  SafetyTimerOnlyInSuspend'
    BY <2>3 DEF ExecuteEffects, SafetyTimerOp, SafetyTimerOnlyInSuspend
  <2>4. ASSUME NEW kind, NEW source
        PROVE  LET t == onRequested(lifecycle, kind, source)
               IN  /\ t.lc.phase = lifecycle.phase
                   /\ t.lc.safetyFiredFirst = lifecycle.safetyFiredFirst
                   /\ t.out.timer = "None"
    BY <2>2 DEF onRequested, Transition, Inert, PowerLifecycleState
  <2>5. ASSUME NEW fn, NEW source,
               OnSuspendRequested(fn, source) \/ OnResumeRequested(fn, source)
        PROVE  SafetyTimerOnlyInSuspend'
    <3>1. PICK kind, rest :
            /\ lifecycle' = onRequested(lifecycle, kind, source).lc
            /\ ExecuteEffects(onRequested(lifecycle, kind, source).out, rest)
      BY <2>5 DEF OnSuspendRequested, OnResumeRequested, ApplyLifecycle,
                  onSuspendRequested, onResumeRequested
    <3> QED
      BY <2>3, <2>4, <3>1 DEF SafetyTimerOnlyInSuspend
  <2>6. CASE PumpQueue
    <3> DEFINE t == pumpQueue(lifecycle)
    <3>1. /\ t.lc.safetyFiredFirst => t.lc.phase = "Suspending"
          /\ t.lc.phase # "Suspending" =>
               t.out.timer = "None" /\ lifecycle.phase # "Suspending"
      BY <2>2 DEF pumpQueue, makeSuspendEntry, makeResumeEntry, Transition, Inert,
                  PowerLifecycleState, SafetyTimerOnlyInSuspend
    <3> QED
      BY <2>3, <2>6, <3>1 DEF PumpQueue
  <2>7. CASE OnSuspendCompleted
    <3> DEFINE t == onSuspendCompleted(lifecycle)
    <3>1. /\ t.lc.safetyFiredFirst => t.lc.phase = "Suspending"
          /\ t.lc.phase # "Suspending" =>
               t.out.timer = "Disarm" \/ (t.out.timer = "None" /\ lifecycle.phase # "Suspending")
      BY <2>2 DEF onSuspendCompleted, Transition, Inert, PowerLifecycleState,
                  SafetyTimerOnlyInSuspend
    <3> QED
      BY <2>3, <2>7, <3>1 DEF OnSuspendCompleted, ApplyLifecycle
  <2>8. ASSUME NEW fn, NEW valid, OnResumeCompleted(fn, valid)
        PROVE  SafetyTimerOnlyInSuspend'
    <3> DEFINE t == onResumeCompleted(lifecycle)
    <3>1. /\ t.lc.safetyFiredFirst => t.lc.phase = "Suspending"
          /\ t.lc.phase # "Suspending" =>
               t.out.timer = "None" /\ lifecycle.phase # "Suspending"
      BY <2>2 DEF onResumeCompleted, Transition, Inert, PowerLifecycleState,
                  SafetyTimerOnlyInSuspend
    <3> QED
      BY <2>3, <2>8, <3>1 DEF OnResumeCompleted, ApplyLifecycle
  <2>9. CASE OnSafetyTimerFired
    BY <2>2, <2>9
       DEF OnSafetyTimerFired, onSafetyTimerFired, Transition, Consumed,
           PowerLifecycleState, SafetyTimerOnlyInSuspend
  <2>10. ASSUME UNCHANGED <<lifecycle, safetyTimer>>
         PROVE  SafetyTimerOnlyInSuspend'
    BY <2>10 DEF SafetyTimerOnlyInSuspend
  <2>11. CASE SupervisorStep
    BY <2>5, <2>6, <2>7, <2>8, <2>9, <2>10, <2>11
       DEF SupervisorStep, OnResumeWorkerComplete, SeedCycle, OnConnectionLost,
           OnReconnectResult, OnReconnectRetryTimerFired, reconnectRest
  <2> QED
    BY <2>1, <2>11
<1> QED
  BY <1>1, <1>2, TypeCorrect, PTL DEF Spec

-----------------------------------------------------------------------------
(* A reconnect attempt is never lost on its way through the daemon: from   *)
(* the worker's queue to the job that runs, to the closure it posts, to    *)
(* the call of the main thread.                                            *)

Occurs(s, S) == \E i \in DOMAIN s : s[i] \in S

(* Appending to a queue loses nothing, and adds what is appended.          *)
LEMMA OccursAppend ==
  ASSUME NEW T, NEW s \in Seq(T), NEW e \in T, NEW S
  PROVE  Occurs(Append(s, e), S) <=> Occurs(s, S) \/ e \in S
<1>1. /\ DOMAIN s = 1 .. Len(s) /\ Len(s) \in Nat
      /\ DOMAIN Append(s, e) = 1 .. Len(s) + 1
      /\ \A i \in 1 .. Len(s) : Append(s, e)[i] = s[i]
      /\ Append(s, e)[Len(s) + 1] = e
  BY AppendProperties, LenProperties
<1>2. ASSUME Occurs(s, S) \/ e \in S
      PROVE  Occurs(Append(s, e), S)
  <2>1. CASE Occurs(s, S)
    <3>1. PICK i \in 1 .. Len(s) : s[i] \in S
      BY <1>1, <2>1 DEF Occurs
    <3>2. i \in 1 .. Len(s) + 1
      BY <1>1
    <3> QED
      BY <1>1, <3>1, <3>2 DEF Occurs
  <2>2. CASE e \in S
    <3>1. Len(s) + 1 \in 1 .. Len(s) + 1
      BY <1>1
    <3> QED
      BY <1>1, <2>2, <3>1 DEF Occurs
  <2> QED
    BY <1>2, <2>1, <2>2
<1>3. ASSUME Occurs(Append(s, e), S)
      PROVE  Occurs(s, S) \/ e \in S
  <2>1. PICK i \in 1 .. Len(s) + 1 : Append(s, e)[i] \in S
    BY <1>1, <1>3 DEF Occurs
  <2>2. i = Len(s) + 1 \/ i \in 1 .. Len(s)
    BY <1>1
  <2> QED
    BY <1>1, <2>1, <2>2 DEF Occurs
<1> QED
  BY <1>2, <1>3

(* Taking the head of a queue loses nothing else.                          *)
LEMMA OccursTail ==
  ASSUME NEW T, NEW s \in Seq(T), s # << >>, NEW S
  PROVE  Occurs(s, S) => Head(s) \in S \/ Occurs(Tail(s), S)
<1>1. /\ DOMAIN s = 1 .. Len(s) /\ Len(s) \in Nat
      /\ Tail(s) \in Seq(T) /\ Len(Tail(s)) = Len(s) - 1
      /\ DOMAIN Tail(s) = 1 .. Len(s) - 1
      /\ Head(s) = s[1]
      /\ \A i \in 1 .. Len(Tail(s)) : Tail(s)[i] = s[i + 1]
  BY HeadTailProperties, LenProperties
<1>2. SUFFICES ASSUME NEW i \in 1 .. Len(s), s[i] \in S, i # 1
               PROVE  Occurs(Tail(s), S)
  BY <1>1 DEF Occurs
<1>3. i - 1 \in 1 .. Len(s) - 1 /\ (i - 1) + 1 = i
  BY <1>1, <1>2
<1>4. Tail(s)[i - 1] = s[i]
  BY <1>1, <1>3
<1> QED
  BY <1>1, <1>2, <1>3, <1>4 DEF Occurs

(* Joining two queues loses nothing of either.                             *)
LEMMA OccursConcat ==
  ASSUME NEW T, NEW s \in Seq(T), NEW t \in Seq(T), NEW S, Occurs(s, S) \/ Occurs(t, S)
  PROVE  Occurs(s \o t, S)
<1>1. /\ DOMAIN s = 1 .. Len(s) /\ Len(s) \in Nat
      /\ DOMAIN t = 1 .. Len(t) /\ Len(t) \in Nat
      /\ DOMAIN (s \o t) = 1 .. Len(s) + Len(t)
      /\ \A i \in 1 .. Len(s) + Len(t) :
           (s \o t)[i] = IF i <= Len(s) THEN s[i] ELSE t[i - Len(s)]
  BY ConcatProperties, LenProperties
<1>2. CASE Occurs(s, S)
  <2>1. PICK i \in 1 .. Len(s) : s[i] \in S
    BY <1>1, <1>2 DEF Occurs
  <2>2. i \in 1 .. Len(s) + Len(t) /\ i <= Len(s)
    BY <1>1
  <2> QED
    BY <1>1, <2>1, <2>2 DEF Occurs
<1>3. CASE Occurs(t, S)
  <2>1. PICK i \in 1 .. Len(t) : t[i] \in S
    BY <1>1, <1>3 DEF Occurs
  <2>2. /\ i + Len(s) \in 1 .. Len(s) + Len(t) /\ ~(i + Len(s) <= Len(s))
        /\ (i + Len(s)) - Len(s) = i
    BY <1>1
  <2>3. (s \o t)[i + Len(s)] = t[i]
    BY <1>1, <2>2
  <2> QED
    BY <1>1, <2>1, <2>2, <2>3 DEF Occurs
<1> QED
  BY <1>2, <1>3

-----------------------------------------------------------------------------
Attempts == [kind : {"reconnect"}, id : Nat]
Results == [fn : {"attemptSucceeded", "attemptFailed"}, id : Nat]

(* The four places where an attempt or its result can be.                  *)
Underway ==
  \/ job \in Attempts
  \/ Occurs(jobs, Attempts)
  \/ Occurs(work, Results)
  \/ Occurs(calls, Results)

(* AttemptInFlight in these words.                                         *)
LEMMA UnderwayMeaning ==
  ASSUME TypeOK
  PROVE  AttemptInFlight <=> (Live /\ reconnect.state = "Attempting" => Underway)
<1>1. job \in Attempts <=> job.kind = "reconnect"
  BY DEF TypeOK, WorkerTypeOK, Job, NoJob, Attempts
<1>2. \A i \in DOMAIN jobs : jobs[i] \in Attempts <=> jobs[i].kind = "reconnect"
  <2>1. \A i \in DOMAIN jobs : jobs[i] \in Job
    BY ElementOfSeq, LenProperties DEF TypeOK, WorkerTypeOK
  <2> QED
    BY <2>1 DEF Job, Attempts
<1>3. \A i \in DOMAIN work :
        work[i] \in Results <=> work[i].fn \in {"attemptSucceeded", "attemptFailed"}
  <2>1. \A i \in DOMAIN work : work[i] \in [fn : Closure, id : Nat]
    BY ElementOfSeq, LenProperties DEF TypeOK, LoopTypeOK
  <2> QED
    BY <2>1 DEF Results
<1>4. \A i \in DOMAIN calls :
        calls[i] \in Results <=> calls[i].fn \in {"attemptSucceeded", "attemptFailed"}
  <2>1. \A i \in DOMAIN calls : calls[i] \in Frame
    BY ElementOfSeq, LenProperties DEF TypeOK, LoopTypeOK
  <2> QED
    BY <2>1 DEF Results, Frame
<1> QED
  BY <1>1, <1>2, <1>3, <1>4 DEF AttemptInFlight, Underway, Occurs

(* The queues of the daemon keep what they hold when something is added.   *)
LEMMA QueuesKeep ==
  ASSUME TypeOK
  PROVE  /\ \A fn \in Closure : \A id \in Nat :
              Post(fn, id) /\ Occurs(work, Results) => Occurs(work', Results)
         /\ \A kind \in JobKind : \A id \in Nat :
              Submit(kind, id) /\ Occurs(jobs, Attempts) => Occurs(jobs', Attempts)
         /\ \A fn \in Handler : \A rest \in Seq(Frame) :
              Occurs(rest, Results) => Occurs(<<Call(fn)>> \o rest, Results)
         /\ ~Occurs(<< >>, Results)
<1>1. ASSUME NEW fn \in Closure, NEW id \in Nat, Post(fn, id), Occurs(work, Results)
      PROVE  Occurs(work', Results)
  <2> DEFINE C == [fn : Closure, id : Nat]
             c == [fn |-> fn, id |-> id]
  <2>1. c \in C /\ work \in Seq(C) /\ work' = Append(work, c)
    BY <1>1 DEF TypeOK, LoopTypeOK, Post
  <2> HIDE DEF C, c
  <2> QED
    BY <1>1, <2>1, OccursAppend
<1>2. ASSUME NEW kind \in JobKind, NEW id \in Nat, Submit(kind, id), Occurs(jobs, Attempts)
      PROVE  Occurs(jobs', Attempts)
  <2>1. [kind |-> kind, id |-> id] \in Job
    BY DEF Job
  <2>2. jobs \in Seq(Job)
    BY DEF TypeOK, WorkerTypeOK
  <2> QED
    BY <1>2, <2>1, <2>2, OccursAppend DEF Submit
<1>3. ASSUME NEW fn \in Handler, NEW rest \in Seq(Frame), Occurs(rest, Results)
      PROVE  Occurs(<<Call(fn)>> \o rest, Results)
  <2>1. <<Call(fn)>> \in Seq(Frame)
    BY DEF Call, Frame
  <2> QED
    BY <1>3, <2>1, OccursConcat
<1>4. ~Occurs(<< >>, Results)
  <2>1. DOMAIN << >> = {}
    OBVIOUS
  <2> QED
    BY <2>1 DEF Occurs
<1> QED
  BY <1>1, <1>2, <1>3, <1>4

(* A step of the worker or of the alert thread moves an attempt on, or     *)
(* leaves it where it is.                                                  *)
LEMMA WorkerKeepsAttempt ==
  ASSUME TypeOK, Underway, UNCHANGED <<calls, loop>>, Live,
         WorkerStep \/ AlertClearsFlag \/ AlertPosts
  PROVE  Underway'
<1>1. CASE UNCHANGED <<job, jobs, work>>
  BY <1>1 DEF Underway
<1>2. CASE TakeJob
  <2>1. jobs \in Seq(Job) /\ jobs # << >> /\ job' = Head(jobs) /\ jobs' = Tail(jobs)
        /\ UNCHANGED work
    BY <1>2 DEF TakeJob, TypeOK, WorkerTypeOK
  <2>2. job \notin Attempts
    BY <1>2 DEF TakeJob, TypeOK, WorkerTypeOK, NoJob, Attempts
  <2>3. Occurs(jobs, Attempts) => Head(jobs) \in Attempts \/ Occurs(Tail(jobs), Attempts)
    BY <2>1, OccursTail
  <2> QED
    BY <2>1, <2>2, <2>3 DEF Underway
<1>3. CASE FinishJob
  <2>1. UNCHANGED jobs
    BY <1>3 DEF FinishJob
  <2>2. job \in Job
    BY <1>3 DEF FinishJob, TypeOK, WorkerTypeOK
  <2>3. CASE job.kind = "replay"
    <3>1. UNCHANGED work /\ job \notin Attempts
      BY <1>3, <2>3 DEF FinishJob, Attempts
    <3> QED
      BY <2>1, <3>1 DEF Underway
  <2>4. CASE job.kind # "replay"
    <3>1. Post(Report(job.kind, wok), job.id)
      BY <1>3, <2>4 DEF FinishJob
    <3>2. Report(job.kind, wok) \in Closure /\ job.id \in Nat
      BY <2>2 DEF Report, Closure, Job
    <3>3. Occurs(work, Results) => Occurs(work', Results)
      BY <3>1, <3>2, QueuesKeep
    <3>4. job \in Attempts => Occurs(work', Results)
      <4> SUFFICES ASSUME job \in Attempts PROVE Occurs(work', Results)
        OBVIOUS
      <4> DEFINE c == [fn |-> Report(job.kind, wok), id |-> job.id]
      <4>1. c \in Results
        BY <3>2 DEF Report, Results, Attempts
      <4>2. c \in [fn : Closure, id : Nat] /\ work \in Seq([fn : Closure, id : Nat])
        BY <3>2 DEF TypeOK, LoopTypeOK
      <4>3. work' = Append(work, c)
        BY <3>1 DEF Post
      <4> HIDE DEF c
      <4> QED
        BY <4>1, <4>2, <4>3, OccursAppend
    <3> QED
      BY <2>1, <3>3, <3>4 DEF Underway
  <2> QED
    BY <2>3, <2>4
<1>4. CASE AlertPosts
  <2>1. Post("connectionLost", 0) /\ UNCHANGED <<job, jobs>>
    BY <1>4 DEF AlertPosts
  <2>2. "connectionLost" \in Closure /\ 0 \in Nat
    BY DEF Closure
  <2>3. Occurs(work, Results) => Occurs(work', Results)
    BY <2>1, <2>2, QueuesKeep
  <2> QED
    BY <2>1, <2>3 DEF Underway
<1>5. ~WorkerExit
  BY DEF WorkerExit, Live
<1> QED
  BY <1>1, <1>2, <1>3, <1>4, <1>5
     DEF WorkerStep, CloseConnection, LibcecClose, ReopenConnection, LibcecDestroy,
         OpenFails, OpenSucceeds, MarkConnected, CheckConnected, AlertClearsFlag

(* The event loop moves a result from the queue to the main thread.        *)
LEMMA LoopKeepsAttempt ==
  ASSUME TypeOK, Underway, MainLoopStep, UNCHANGED <<job, jobs>>
  PROVE  Underway'
<1>1. CASE Poll \/ Drain
  BY <1>1 DEF Poll, Drain, Underway
<1>2. CASE RunClosure
  <2>1. /\ calls = << >> /\ calls' = <<Head(work)>> /\ work' = Tail(work)
        /\ work \in Seq([fn : Closure, id : Nat]) /\ work # << >>
    BY <1>2 DEF RunClosure, TypeOK, LoopTypeOK
  <2>2. ~Occurs(calls, Results)
    BY <2>1, QueuesKeep
  <2>3. Occurs(work, Results) => Head(work) \in Results \/ Occurs(Tail(work), Results)
    BY <2>1, OccursTail
  <2>4. Head(work) \in Results => Occurs(<<Head(work)>>, Results)
    BY DEF Occurs
  <2> QED
    BY <2>1, <2>2, <2>3, <2>4 DEF Underway
<1>3. ASSUME NEW event, NEW fn, DispatchTimer(event, fn)
      PROVE  Underway'
  <2>1. calls = << >> /\ UNCHANGED work
    BY <1>3 DEF DispatchTimer, AtDispatchPoint
  <2>2. ~Occurs(calls, Results)
    BY <2>1, QueuesKeep
  <2> QED
    BY <2>1, <2>2 DEF Underway
<1> QED
  BY <1>1, <1>2, <1>3 DEF MainLoopStep, DispatchSafetyTimer, DispatchRetryTimer

-----------------------------------------------------------------------------
(* A handler that is not a result leaves the attempt where it is.          *)
LEMMA HandlerKeepsAttempt ==
  ASSUME TypeOK, Underway, calls # << >>,
         Head(calls).fn \notin {"attemptSucceeded", "attemptFailed"},
         UNCHANGED <<job, work>>,
         Occurs(jobs, Attempts) => Occurs(jobs', Attempts),
         Occurs(Tail(calls), Results) => Occurs(calls', Results)
  PROVE  Underway'
<1>1. calls \in Seq(Frame)
  BY DEF TypeOK, LoopTypeOK
<1>2. Occurs(calls, Results) => Head(calls) \in Results \/ Occurs(Tail(calls), Results)
  BY <1>1, OccursTail
<1>3. Head(calls) \notin Results
  BY DEF Results
<1> QED
  BY <1>2, <1>3 DEF Underway

(* executeEffects keeps what is under way.                                 *)
LEMMA EffectsKeepAttempt ==
  ASSUME TypeOK, NEW rest \in Seq(Frame), NEW out, ExecuteEffects(out, rest)
  PROVE  /\ Occurs(jobs, Attempts) => Occurs(jobs', Attempts)
         /\ Occurs(rest, Results) => Occurs(calls', Results)
<1>1. {"suspend", "resume"} \subseteq JobKind /\ 0 \in Nat
      /\ {"suspendCompleted", "resumeInvalid"} \subseteq Handler
  BY DEF JobKind, Handler, Closure
<1>2. \/ UNCHANGED jobs
      \/ Submit("suspend", 0)
      \/ Submit("resume", 0)
  BY DEF ExecuteEffects, SubmitWork, SuspendAsync, ResumeAsync
<1>3. \/ calls' = rest
      \/ calls' = <<Call("suspendCompleted")>> \o rest
      \/ calls' = <<Call("resumeInvalid")>> \o rest
  BY DEF ExecuteEffects, SubmitWork, SuspendAsync, ResumeAsync
<1> QED
  BY <1>1, <1>2, <1>3, QueuesKeep

(* A cycle told of a suspend or a resume is not Attempting afterwards.     *)
LEMMA NotifiedCycle ==
  ASSUME TypeOK, NEW out \in LifecycleOutput, NEW rest, ExecuteEffects(out, rest),
         reconnect'.state = "Attempting"
  PROVE  reconnect.state = "Attempting"
<1>1. reconnect' = Notified(out.notify).rc
  BY DEF ExecuteEffects
<1>2. CASE out.notify = "None"
  BY <1>1, <1>2 DEF Notified, Effect
<1>3. CASE out.notify # "None"
  <2>1. out.notify \in {"SystemSuspend", "SystemResume"}
    BY <1>3 DEF LifecycleOutput
  <2> QED
    BY <1>1, <1>3, <2>1
       DEF Notified, onEvent, onEventIdle, onEventAttempting, onEventWaiting, Effect,
           resetCycle, TypeOK, SupervisorTypeOK, AdapterReconnectState
<1> QED
  BY <1>2, <1>3

(* execute() that starts an attempt puts it, or its result, on the way.    *)
LEMMA StartPutsUnderway ==
  ASSUME TypeOK, NEW rest \in Seq(Frame), ReconnectAsync(rest)
  PROVE  Underway'
<1>1. ASSUME NEW fn \in {"attemptSucceeded", "attemptFailed"},
             calls' = <<Call(fn)>> \o rest
      PROVE  Underway'
  <2>1. Call(fn) \in Results /\ Call(fn) \in Frame
    BY DEF Call, Results, Frame, Handler, Closure
  <2>2. Occurs(<<Call(fn)>>, Results)
    BY <2>1 DEF Occurs
  <2>3. <<Call(fn)>> \in Seq(Frame)
    BY <2>1
  <2> QED
    BY <1>1, <2>2, <2>3, OccursConcat DEF Underway
<1>2. ASSUME Submit("reconnect", 0)
      PROVE  Underway'
  <2> DEFINE j == [kind |-> "reconnect", id |-> 0]
  <2>1. j \in Attempts /\ j \in Job /\ jobs \in Seq(Job) /\ jobs' = Append(jobs, j)
    BY <1>2 DEF Attempts, Job, JobKind, Submit, TypeOK, WorkerTypeOK
  <2> HIDE DEF j
  <2> QED
    BY <2>1, OccursAppend DEF Underway
<1> QED
  BY <1>1, <1>2 DEF ReconnectAsync

(* Every handler of the supervisor that leaves the cycle Attempting leaves *)
(* an attempt under way.                                                   *)
LEMMA SupervisorKeepsAttempt ==
  ASSUME TypeOK, SupervisorStep, reconnect'.state = "Attempting",
         reconnect.state = "Attempting" => Underway
  PROVE  Underway'
<1>1. /\ lifecycle \in PowerLifecycleState
      /\ reconnect \in AdapterReconnectState
  BY DEF TypeOK, SupervisorTypeOK
<1>2. ASSUME calls # << >> PROVE Tail(calls) \in Seq(Frame)
  BY <1>2, FramesAndJobs DEF TypeOK
<1>3. ASSUME NEW fn, Running(fn), fn \notin {"attemptSucceeded", "attemptFailed"},
             UNCHANGED supervisorRest, NEW out \in LifecycleOutput,
             NEW rest \in Seq(Frame), ExecuteEffects(out, rest),
             Occurs(Tail(calls), Results) => Occurs(rest, Results)
      PROVE  Underway'
  <2>1. Underway
    BY <1>3, NotifiedCycle
  <2>2. /\ Occurs(jobs, Attempts) => Occurs(jobs', Attempts)
        /\ Occurs(rest, Results) => Occurs(calls', Results)
    BY <1>3, EffectsKeepAttempt
  <2>3. UNCHANGED <<job, work>>
    BY <1>3 DEF supervisorRest
  <2> QED
    BY <1>3, <2>1, <2>2, <2>3, HandlerKeepsAttempt DEF Running
<1>4. ASSUME NEW fn, Running(fn), fn \notin {"attemptSucceeded", "attemptFailed"},
             NEW t, t.out \in LifecycleOutput, NEW rest \in Seq(Frame),
             ApplyLifecycle(t, rest),
             Occurs(Tail(calls), Results) => Occurs(rest, Results)
      PROVE  Underway'
  <2>1. "pumpQueue" \in Handler
    BY DEF Handler
  <2>2. /\ <<Call("pumpQueue")>> \o rest \in Seq(Frame)
        /\ Occurs(rest, Results) => Occurs(<<Call("pumpQueue")>> \o rest, Results)
    BY <2>1, FramesAndJobs, QueuesKeep DEF TypeOK
  <2> QED
    BY <1>3, <1>4, <2>2 DEF ApplyLifecycle
<1>5. Inert \in LifecycleOutput
  BY DEF Inert, LifecycleOutput
<1>6. ASSUME NEW fn, fn \notin {"attemptSucceeded", "attemptFailed"}, NEW source \in Source,
             OnSuspendRequested(fn, source) \/ OnResumeRequested(fn, source)
      PROVE  Underway'
  <2>1. /\ onSuspendRequested(lifecycle, source).out = Inert
        /\ onResumeRequested(lifecycle, source).out = Inert
    BY <1>1, LifecycleTypes
  <2>2. Running(fn) /\ Tail(calls) \in Seq(Frame)
    BY <1>2, <1>6 DEF OnSuspendRequested, OnResumeRequested, Running
  <2> QED
    BY <1>4, <1>5, <1>6, <2>1, <2>2 DEF OnSuspendRequested, OnResumeRequested
<1>7. CASE PumpQueue
  <2>1. pumpQueue(lifecycle).out \in LifecycleOutput
    BY <1>1, LifecycleTypes DEF Source
  <2> QED
    BY <1>2, <1>3, <1>7, <2>1 DEF PumpQueue, Running
<1>8. CASE OnSuspendCompleted
  <2>1. onSuspendCompleted(lifecycle).out \in LifecycleOutput
    BY <1>1, LifecycleTypes DEF Source
  <2> QED
    BY <1>2, <1>4, <1>8, <2>1 DEF OnSuspendCompleted, Running
<1>9. ASSUME NEW fn, fn \notin {"attemptSucceeded", "attemptFailed"}, NEW valid \in BOOLEAN,
             OnResumeCompleted(fn, valid)
      PROVE  Underway'
  <2>1. onResumeCompleted(lifecycle).out \in LifecycleOutput
    BY <1>1, LifecycleTypes DEF Source
  <2>2. Running(fn) /\ Tail(calls) \in Seq(Frame)
    BY <1>2, <1>9 DEF OnResumeCompleted, Running
  <2>3. CASE valid
    <3>1. << >> \o Tail(calls) = Tail(calls)
      BY <2>2, ConcatEmptySeq
    <3> QED
      BY <1>4, <1>9, <2>1, <2>2, <2>3, <3>1 DEF OnResumeCompleted
  <2>4. CASE ~valid
    <3>1. "seedCycle" \in Handler
      BY DEF Handler
    <3>2. /\ <<Call("seedCycle")>> \o Tail(calls) \in Seq(Frame)
          /\ Occurs(Tail(calls), Results) => Occurs(<<Call("seedCycle")>> \o Tail(calls), Results)
      BY <2>2, <3>1, FramesAndJobs, QueuesKeep DEF TypeOK
    <3> QED
      BY <1>4, <1>9, <2>1, <2>2, <2>4, <3>2 DEF OnResumeCompleted
  <2> QED
    BY <2>3, <2>4
<1>10. ASSUME NEW fn, fn \notin {"attemptSucceeded", "attemptFailed"}, NEW valid \in BOOLEAN,
              OnResumeWorkerComplete(fn, valid)
       PROVE  Underway'
  <2>1. /\ Running(fn) /\ Tail(calls) \in Seq(Frame) /\ Underway
        /\ UNCHANGED <<job, work>>
    BY <1>2, <1>10 DEF OnResumeWorkerComplete, Running
  <2>2. {"resumeValid", "resumeInvalid"} \subseteq Handler
    BY DEF Handler
  <2>3. Occurs(Tail(calls), Results) => Occurs(calls', Results)
    BY <1>10, <2>1, <2>2, QueuesKeep DEF OnResumeWorkerComplete
  <2>4. Occurs(jobs, Attempts) => Occurs(jobs', Attempts)
    <3>1. CASE ~valid
      BY <1>10, <3>1 DEF OnResumeWorkerComplete
    <3>2. CASE valid
      <4> DEFINE replayed == [i \in DOMAIN queued |-> [kind |-> "replay", id |-> queued[i]]]
      <4>1. jobs \in Seq(Job) /\ jobs' = jobs \o replayed
        BY <1>10, <3>2 DEF OnResumeWorkerComplete, Replay, TypeOK, WorkerTypeOK
      <4>2. replayed \in Seq(Job)
        BY ReplayedAreJobs DEF TypeOK, SupervisorTypeOK
      <4> HIDE DEF replayed
      <4> QED
        BY <4>1, <4>2, OccursConcat
    <3> QED
      BY <3>1, <3>2
  <2> QED
    BY <1>10, <2>1, <2>3, <2>4, HandlerKeepsAttempt DEF Running
<1>11. CASE OnSafetyTimerFired
  <2>1. /\ Running("safetyTimerFired") /\ Tail(calls) \in Seq(Frame) /\ Underway
        /\ calls' = <<Call("pumpQueue")>> \o Tail(calls)
        /\ UNCHANGED <<job, work, jobs>>
    BY <1>2, <1>11 DEF OnSafetyTimerFired, Running, supervisorRest
  <2>2. "pumpQueue" \in Handler
    BY DEF Handler
  <2> QED
    BY <2>1, <2>2, QueuesKeep, HandlerKeepsAttempt DEF Running
<1>12. ASSUME NEW fn, Running(fn), NEW r, Execute(r, Tail(calls)), UNCHANGED reconnectRest,
              r.effect = "None" /\ r.rc.state = "Attempting" =>
                /\ reconnect.state = "Attempting"
                /\ fn \notin {"attemptSucceeded", "attemptFailed"},
              r.effect = "ScheduleRetry" => r.rc.state = "WaitingForRetry",
              r.effect = "AbandonCycle" => r.rc.state = "Idle"
       PROVE  Underway'
  <2>1. Tail(calls) \in Seq(Frame)
    BY <1>2, <1>12 DEF Running
  <2>2. CASE r.effect = "StartAttempt"
    <3>1. ReconnectAsync(Tail(calls))
      BY <1>12, <2>2 DEF Execute
    <3> QED
      BY <2>1, <3>1, StartPutsUnderway
  <2>3. CASE r.effect = "None"
    <3>1. reconnect' = r.rc /\ calls' = Tail(calls) /\ UNCHANGED <<job, work, jobs>>
      BY <1>12, <2>3 DEF Execute, reconnectRest
    <3> QED
      BY <1>12, <2>3, <3>1, HandlerKeepsAttempt DEF Running
  <2>4. CASE r.effect = "ScheduleRetry" \/ r.effect = "AbandonCycle"
    <3>1. r.rc.state = "WaitingForRetry" =>
            onEvent(r.rc, "TimerArmFailed").rc.state = "Idle"
      BY DEF onEvent, onEventWaiting, Effect, resetCycle
    <3> QED
      BY <1>12, <2>4, <3>1 DEF Execute
  <2> QED
    BY <1>12, <2>2, <2>3, <2>4 DEF Execute
<1>13. CASE SeedCycle
  <2>1. /\ seedCycle(reconnect).effect = "None" => seedCycle(reconnect).rc = reconnect
        /\ seedCycle(reconnect).effect = "ScheduleRetry" =>
             seedCycle(reconnect).rc.state = "WaitingForRetry"
        /\ seedCycle(reconnect).effect # "AbandonCycle"
    BY DEF seedCycle, Effect, firstAttempt
  <2> QED
    BY <1>12, <1>13, <2>1 DEF SeedCycle
<1>14. ASSUME NEW event \in ReconnectEvent
       PROVE  LET r == onEvent(reconnect, event)
              IN  /\ r.effect = "None" /\ r.rc.state = "Attempting" =>
                       /\ reconnect.state = "Attempting"
                       /\ event \notin {"AttemptSucceeded", "AttemptFailed"}
                  /\ r.effect = "ScheduleRetry" => r.rc.state = "WaitingForRetry"
                  /\ r.effect = "AbandonCycle" => r.rc.state = "Idle"
  BY <1>1 DEF onEvent, onEventIdle, onEventAttempting, onEventWaiting, nextDelay,
              Effect, resetCycle, firstAttempt, AdapterReconnectState
<1>15. CASE OnConnectionLost
  BY <1>12, <1>14, <1>15 DEF OnConnectionLost, ReconnectEvent
<1>16. CASE OnReconnectResult("attemptSucceeded", "AttemptSucceeded")
  BY <1>12, <1>14, <1>16 DEF OnReconnectResult, ReconnectEvent
<1>17. CASE OnReconnectResult("attemptFailed", "AttemptFailed")
  BY <1>12, <1>14, <1>17 DEF OnReconnectResult, ReconnectEvent
<1>18. CASE OnReconnectRetryTimerFired
  <2> DEFINE r == onEvent(reconnect, "RetryTimerFired")
  <2>1. /\ Running("retryTimerFired") /\ UNCHANGED reconnectRest
        /\ \/ /\ r.effect = "None" /\ reconnect' = r.rc
              /\ calls' = Tail(calls) /\ UNCHANGED jobs
           \/ Execute(r, Tail(calls))
    BY <1>18 DEF OnReconnectRetryTimerFired
  <2>2. /\ r.effect = "None" /\ r.rc.state = "Attempting" => reconnect.state = "Attempting"
        /\ r.effect = "ScheduleRetry" => r.rc.state = "WaitingForRetry"
        /\ r.effect = "AbandonCycle" => r.rc.state = "Idle"
    BY <1>14 DEF ReconnectEvent
  <2> HIDE DEF r
  <2>3. CASE Execute(r, Tail(calls))
    BY <1>12, <2>1, <2>2, <2>3
  <2>4. CASE ~Execute(r, Tail(calls))
    <3>1. Underway /\ calls' = Tail(calls) /\ UNCHANGED <<job, work, jobs>>
      BY <2>1, <2>2, <2>4 DEF reconnectRest
    <3> QED
      BY <2>1, <3>1, HandlerKeepsAttempt DEF Running
  <2> QED
    BY <2>3, <2>4
<1> QED
  BY <1>6, <1>7, <1>8, <1>9, <1>10, <1>11, <1>13, <1>15, <1>16, <1>17, <1>18
     DEF SupervisorStep, Source

-----------------------------------------------------------------------------
(* A handler runs only while the loop does.                                *)
HandlersEnd == ~Live => calls = << >>

(* The loop is not entered again once it has been left.                    *)
LEMMA LoopEndsOnce ==
  ASSUME TypeOK, HandlersEnd, [Next]_vars
  PROVE  HandlersEnd' /\ (Live' => Live)
<1> USE DEF HandlersEnd, Live
<1>1. CASE SupervisorStep
  <2>1. calls # << >>
    BY <1>1
       DEF SupervisorStep, OnSuspendRequested, OnResumeRequested, PumpQueue,
           OnSuspendCompleted, OnResumeWorkerComplete, OnResumeCompleted,
           OnSafetyTimerFired, SeedCycle, OnConnectionLost, OnReconnectResult,
           OnReconnectRetryTimerFired, Running
  <2>2. loop' = loop \/ loop' = "stopRequested"
    BY <1>1
       DEF SupervisorStep, OnSuspendRequested, OnResumeRequested, PumpQueue,
           OnSuspendCompleted, OnResumeWorkerComplete, OnResumeCompleted,
           OnSafetyTimerFired, SeedCycle, OnConnectionLost, OnReconnectResult,
           OnReconnectRetryTimerFired, ApplyLifecycle, supervisorRest, Execute,
           RequestUnrecoverableShutdown
  <2> QED
    BY <2>1, <2>2
<1>2. CASE LoopStep
  BY <1>2 DEF LoopStep, MainLoopStep, Poll, Drain, RunClosure, DispatchSafetyTimer,
              DispatchRetryTimer, DispatchTimer, AtDispatchPoint
<1>3. CASE BusStep
  BY <1>3 DEF BusStep, OnPrepareForSleep, OnInhibitReply, loopVars
<1>4. CASE Reply
  BY <1>4 DEF Reply, Running
<1>5. CASE Stop \/ Terminate \/ Stopped
  BY <1>5 DEF Stop, Terminate, Stopped, AtDispatchPoint
<1>6. CASE TimerStep
  BY <1>6 DEF TimerStep, SafetyTimerExpires, RetryTimerExpires
<1>7. CASE AdapterStep \/ ConnectionLost \/ AlertStep
  BY <1>7 DEF AdapterStep, ConnectionLost, AlertStep, workerRest
<1>8. CASE LogindSleeps \/ LogindWakes \/ LogindAnswers
  BY <1>8 DEF LogindSleeps, LogindWakes, LogindAnswers, logindRest, loopVars
<1>9. CASE ClientStep
  BY <1>9 DEF ClientStep, WireSuspend, WireResume, WireRequest, DispatchCommand,
              RestartAdapter, DispatchToWorker, EnqueueCommand, RefuseCommand,
              AtDispatchPoint, loopVars
<1>10. CASE UNCHANGED vars
  BY <1>10 DEF vars
<1> QED
  BY <1>1, <1>2, <1>3, <1>4, <1>5, <1>6, <1>7, <1>8, <1>9, <1>10
     DEF Next, MainStep, HandlerStep, Done

(* The inductive form of AttemptInFlight.                                  *)
AttemptUnderway == Live /\ reconnect.state = "Attempting" => Underway

(* Every step of the daemon keeps an attempt under way.                    *)
LEMMA NextKeepsAttempt ==
  ASSUME TypeOK, HandlersEnd, AttemptUnderway, [Next]_vars
  PROVE  AttemptUnderway'
<1> SUFFICES ASSUME Live', reconnect'.state = "Attempting"
             PROVE  Underway'
  BY DEF AttemptUnderway
<1>1. Live
  BY LoopEndsOnce
<1>2. CASE SupervisorStep
  BY <1>1, <1>2, SupervisorKeepsAttempt DEF AttemptUnderway
<1>3. CASE ~SupervisorStep
  <2>1. Underway
    BY <1>1, <1>3, OnlySupervisor DEF AttemptUnderway
  <2>2. CASE LoopStep
    BY <2>1, <2>2, LoopKeepsAttempt DEF LoopStep, workerVars
  <2>3. CASE BusStep
    <3>1. UNCHANGED <<job, jobs, calls>>
      BY <2>3 DEF BusStep, OnPrepareForSleep, OnInhibitReply, loopVars, workerVars
    <3>2. Occurs(work, Results) => Occurs(work', Results)
      <4>1. CASE OnPrepareForSleep
        <5>1. {"suspendDBus", "resumeDBus"} \subseteq Closure /\ 0 \in Nat
          BY DEF Closure
        <5>2. Post("suspendDBus", 0) \/ Post("resumeDBus", 0)
          BY <4>1 DEF OnPrepareForSleep
        <5> QED
          BY <5>1, <5>2, QueuesKeep
      <4>2. CASE OnInhibitReply
        BY <4>2 DEF OnInhibitReply, loopVars
      <4> QED
        BY <2>3, <4>1, <4>2 DEF BusStep
    <3> QED
      BY <2>1, <3>1, <3>2 DEF Underway
  <2>4. CASE Reply
    <3>1. /\ calls # << >> /\ Head(calls).fn = "reply" /\ calls' = Tail(calls)
          /\ UNCHANGED <<job, work, jobs>>
      BY <2>4 DEF Reply, Running, workerVars
    <3> QED
      BY <2>1, <3>1, HandlerKeepsAttempt
  <2>5. CASE Stop \/ Stopped
    BY <2>5 DEF Stop, Stopped, Live
  <2>6. CASE AdapterStep \/ ConnectionLost \/ AlertStep
    BY <1>1, <2>1, <2>6, WorkerKeepsAttempt
       DEF AdapterStep, ConnectionLost, AlertStep, workerRest
  <2>7. CASE WireSuspend \/ WireResume
    <3>1. calls = << >> /\ UNCHANGED <<job, work, jobs>>
      BY <2>7 DEF WireSuspend, WireResume, WireRequest, AtDispatchPoint, workerVars
    <3>2. ~Occurs(calls, Results)
      BY <3>1, QueuesKeep
    <3> QED
      BY <2>1, <3>1, <3>2 DEF Underway
  <2>8. CASE DispatchCommand \/ RestartAdapter
    <3>1. UNCHANGED <<job, work, calls>>
      BY <2>8 DEF DispatchCommand, RestartAdapter, DispatchToWorker, loopVars
    <3>2. PICK e : jobs' = Append(jobs, e)
      BY <2>8 DEF DispatchCommand, RestartAdapter, DispatchToWorker, Submit
    <3>3. Occurs(jobs, Attempts) => Occurs(jobs', Attempts)
      <4>1. jobs \in Seq(Job) /\ jobs' = Append(jobs, e)
        BY <3>2 DEF TypeOK, WorkerTypeOK
      <4>2. jobs \in Seq(Job \cup {e}) /\ e \in Job \cup {e}
        BY <4>1
      <4> QED
        BY <4>1, <4>2, OccursAppend
    <3> QED
      BY <2>1, <3>1, <3>3 DEF Underway
  <2>9. CASE UNCHANGED <<job, jobs, work, calls>>
    BY <2>1, <2>9 DEF Underway
  <2>10. CASE \/ TimerStep \/ LogindSleeps \/ LogindWakes \/ LogindAnswers
              \/ EnqueueCommand \/ RefuseCommand \/ Terminate \/ UNCHANGED vars
    BY <2>9, <2>10
       DEF TimerStep, SafetyTimerExpires, RetryTimerExpires, LogindSleeps, LogindWakes,
           LogindAnswers, logindRest, EnqueueCommand, RefuseCommand, Terminate, vars,
           loopVars, workerVars
  <2> QED
    BY <1>3, <2>2, <2>3, <2>4, <2>5, <2>6, <2>7, <2>8, <2>10
       DEF Next, MainStep, ClientStep, HandlerStep, Done
<1> QED
  BY <1>2, <1>3

(* A reconnect cycle that waits for an attempt always has that attempt, or *)
(* its result, on the way: whatever suspends, resumes, further losses,     *)
(* commands and timers do in between, AdapterReconnect is never left       *)
(* Attempting with nothing to wake it.                                     *)
THEOREM AttemptNeverLost == Spec => []AttemptInFlight
<1>1. Init => HandlersEnd /\ AttemptUnderway
  BY DEF Init, LoopInit, SupervisorInit, AdapterReconnectInit, resetCycle,
         HandlersEnd, Live, AttemptUnderway
<1>2. TypeOK /\ HandlersEnd /\ AttemptUnderway /\ [Next]_vars
        => HandlersEnd' /\ AttemptUnderway'
  BY LoopEndsOnce, NextKeepsAttempt
<1>3. TypeOK /\ AttemptUnderway => AttemptInFlight
  BY UnderwayMeaning DEF AttemptUnderway
<1> QED
  BY <1>1, <1>2, <1>3, TypeCorrect, PTL DEF Spec

-----------------------------------------------------------------------------
(* What is on its way through the daemon, counted: every job of the worker *)
(* turns into one closure, every closure into one call.  From this: every  *)
(* suspend and resume ends exactly once, every client is answered exactly  *)
(* once, and in a suspend the adapter is closed and stays closed.          *)

Count(s, S) == Cardinality({i \in DOMAIN s : s[i] \in S})

One(condition) == IF condition THEN 1 ELSE 0

(* The elements of a sequence that are counted are finitely many.          *)
LEMMA CountFinite ==
  ASSUME NEW T, NEW s \in Seq(T), NEW S
  PROVE  /\ IsFiniteSet({i \in DOMAIN s : s[i] \in S})
         /\ Count(s, S) \in Nat
         /\ Count(s, S) = 0 <=> ~Occurs(s, S)
<1>1. DOMAIN s = 1 .. Len(s) /\ Len(s) \in Nat
  BY LenProperties
<1>2. IsFiniteSet(1 .. Len(s))
  BY <1>1, FS_Interval
<1>3. IsFiniteSet({i \in DOMAIN s : s[i] \in S})
  BY <1>1, <1>2, FS_Subset
<1>4. Count(s, S) = 0 <=> {i \in DOMAIN s : s[i] \in S} = {}
  BY <1>3, FS_EmptySet DEF Count
<1> QED
  BY <1>3, <1>4, FS_CardinalityType DEF Count, Occurs

(* The parts of a sequence are counted separately.                         *)
LEMMA CountConcat ==
  ASSUME NEW T, NEW s \in Seq(T), NEW t \in Seq(T), NEW S
  PROVE  Count(s \o t, S) = Count(s, S) + Count(t, S)
<1> DEFINE m == Len(s)
           n == Len(t)
           A == {i \in DOMAIN s : s[i] \in S}
           B == {i \in DOMAIN t : t[i] \in S}
           C == {i \in DOMAIN (s \o t) : (s \o t)[i] \in S}
           D == {i \in m + 1 .. m + n : t[i - m] \in S}
           shift == [i \in B |-> i + m]
<1>1. /\ m \in Nat /\ n \in Nat
      /\ DOMAIN s = 1 .. m /\ DOMAIN t = 1 .. n
      /\ DOMAIN (s \o t) = 1 .. m + n
      /\ \A i \in 1 .. m + n : (s \o t)[i] = IF i <= m THEN s[i] ELSE t[i - m]
  BY ConcatProperties, LenProperties
<1> HIDE DEF m, n
<1>2. C = A \cup D
  BY <1>1
<1>3. A \cap D = {}
  BY <1>1
<1>4. IsFiniteSet(A) /\ IsFiniteSet(B)
  BY CountFinite
<1>5. shift \in Bijection(B, D)
  <2>1. \A i \in B : i + m \in D
    BY <1>1
  <2>2. \A i, j \in B : i + m = j + m => i = j
    BY <1>1
  <2>3. \A k \in D : k - m \in B /\ (k - m) + m = k
    BY <1>1
  <2> HIDE DEF B, D
  <2>4. shift \in [B -> D]
    BY <2>1
  <2>5. shift \in Injection(B, D)
    BY <2>2, <2>4 DEF Injection, IsInjective
  <2>6. shift \in Surjection(B, D)
    BY <2>3, <2>4 DEF Surjection
  <2> QED
    BY <2>5, <2>6 DEF Bijection
<1> HIDE DEF A, B, C, D
<1>6. IsFiniteSet(D) /\ Cardinality(D) = Cardinality(B)
  BY <1>4, <1>5, FS_Bijection DEF ExistsBijection
<1>7. Cardinality(C) = Cardinality(A) + Cardinality(D) - Cardinality({})
  BY <1>2, <1>3, <1>4, <1>6, FS_Union
<1>8. Cardinality(A) \in Nat /\ Cardinality(D) \in Nat
  BY <1>4, <1>6, FS_CardinalityType
<1>9. Cardinality(C) = Cardinality(A) + Cardinality(B)
  BY <1>6, <1>7, <1>8, FS_EmptySet
<1> QED
  BY <1>9 DEF Count, A, B, C

(* One element is counted once or not at all.                              *)
LEMMA CountSmall ==
  ASSUME NEW e, NEW S
  PROVE  /\ Count(<< >>, S) = 0
         /\ Count(<<e>>, S) = One(e \in S)
<1>1. {i \in DOMAIN << >> : << >>[i] \in S} = {}
  OBVIOUS
<1>2. {i \in DOMAIN <<e>> : <<e>>[i] \in S} = IF e \in S THEN {1} ELSE {}
  OBVIOUS
<1> QED
  BY <1>1, <1>2, FS_EmptySet, FS_Singleton DEF Count, One

(* A queue is counted by its head and its tail.                            *)
LEMMA CountHeadTail ==
  ASSUME NEW T, NEW s \in Seq(T), s # << >>, NEW S
  PROVE  Count(s, S) = One(Head(s) \in S) + Count(Tail(s), S)
<1>1. /\ Head(s) \in T /\ Tail(s) \in Seq(T)
      /\ s = <<Head(s)>> \o Tail(s)
  BY HeadTailProperties
<1>2. <<Head(s)>> \in Seq(T)
  BY <1>1
<1>3. Count(<<Head(s)>> \o Tail(s), S) = Count(<<Head(s)>>, S) + Count(Tail(s), S)
  BY <1>1, <1>2, CountConcat
<1>4. Count(<<Head(s)>>, S) = One(Head(s) \in S)
  BY CountSmall
<1> QED
  BY <1>1, <1>3, <1>4, Zenon

(* An element more at the end.                                             *)
LEMMA CountAppend ==
  ASSUME NEW T, NEW s \in Seq(T), NEW e \in T, NEW S
  PROVE  Count(Append(s, e), S) = Count(s, S) + One(e \in S)
<1>1. Append(s, e) = s \o <<e>> /\ <<e>> \in Seq(T)
  BY AppendIsConcat
<1>2. Count(s \o <<e>>, S) = Count(s, S) + Count(<<e>>, S)
  BY <1>1, CountConcat
<1>3. Count(<<e>>, S) = One(e \in S)
  BY CountSmall
<1> QED
  BY <1>1, <1>2, <1>3, Zenon

-----------------------------------------------------------------------------
(* The worker's pipeline. *)

(* What is submitted comes last, what is popped stays first, and what is   *)
(* finished was first.                                                     *)
LEMMA PipelineMoves ==
  ASSUME TypeOK
  PROVE  /\ Pipeline \in Seq(Job)
         /\ \A t \in Seq(Job) :
              jobs' = jobs \o t /\ UNCHANGED <<job, wpc>> => Pipeline' = Pipeline \o t
         /\ \A e \in Job :
              jobs' = Append(jobs, e) /\ UNCHANGED <<job, wpc>>
                => Pipeline' = Pipeline \o <<e>>
         /\ TakeJob => Pipeline' = Pipeline
         /\ wpc = "report" => job \in Job /\ Pipeline = <<job>> \o jobs
         /\ UNCHANGED <<job, jobs>> /\ (wpc \in {"idle", "exited"} <=> wpc' \in {"idle", "exited"})
              => UNCHANGED Pipeline
<1> DEFINE now == IF wpc \in {"idle", "exited"} THEN << >> ELSE <<job>>
<1>1. jobs \in Seq(Job) /\ now \in Seq(Job)
  BY DEF TypeOK, WorkerTypeOK
<1>2. Pipeline = now \o jobs
  BY DEF Pipeline
<1>3. Pipeline \in Seq(Job)
  BY <1>1, <1>2, ConcatProperties
<1>4. ASSUME NEW t \in Seq(Job), jobs' = jobs \o t, UNCHANGED <<job, wpc>>
      PROVE  Pipeline' = Pipeline \o t
  <2>1. Pipeline' = now \o (jobs \o t)
    BY <1>4 DEF Pipeline
  <2> HIDE DEF now
  <2> QED
    BY <1>1, <1>2, <2>1, ConcatAssociative
<1>5. ASSUME NEW e \in Job, jobs' = Append(jobs, e), UNCHANGED <<job, wpc>>
      PROVE  Pipeline' = Pipeline \o <<e>>
  <2>1. <<e>> \in Seq(Job) /\ jobs' = jobs \o <<e>>
    BY <1>1, <1>5, AppendIsConcat
  <2> QED
    BY <1>4, <1>5, <2>1
<1>6. ASSUME TakeJob
      PROVE  Pipeline' = Pipeline
  <2>1. jobs # << >> /\ job' = Head(jobs) /\ jobs' = Tail(jobs) /\ wpc = "idle"
        /\ wpc' = FirstStep(Head(jobs).kind)
    BY <1>6 DEF TakeJob
  <2>2. wpc' \notin {"idle", "exited"}
    BY <2>1 DEF FirstStep
  <2>3. jobs = <<Head(jobs)>> \o Tail(jobs)
    BY <1>1, <2>1, HeadTailProperties
  <2>4. Pipeline = jobs
    BY <1>1, <2>1, ConcatEmptySeq DEF Pipeline
  <2>5. Pipeline' = <<job'>> \o jobs'
    BY <2>2 DEF Pipeline
  <2> QED
    BY <2>1, <2>3, <2>4, <2>5
<1>7. ASSUME wpc = "report"
      PROVE  job \in Job /\ Pipeline = <<job>> \o jobs
  BY <1>7 DEF Pipeline, TypeOK, WorkerTypeOK
<1>8. ASSUME UNCHANGED <<job, jobs>>, wpc \in {"idle", "exited"} <=> wpc' \in {"idle", "exited"}
      PROVE  UNCHANGED Pipeline
  BY <1>8 DEF Pipeline
<1> QED
  BY <1>3, <1>4, <1>5, <1>6, <1>7, <1>8

-----------------------------------------------------------------------------
(* What the handlers of the main thread do to the suspend cycle. *)

(* The call fn is replaced by the calls ins, and add goes to the worker.   *)
Moves(fn, ins, add) ==
  /\ Running(fn)
  /\ calls' = ins \o Tail(calls)
  /\ Pipeline' = Pipeline \o add

PhaseKept ==
  /\ lifecycle'.phase = lifecycle.phase
  /\ lifecycle'.safetyFiredFirst = lifecycle.safetyFiredFirst
  /\ UNCHANGED safetyTimer

GateKept == UNCHANGED <<suspended, queued>>

Requests == {"suspendDBus", "suspendWire", "resumeDBus", "resumeWire"}

RequestNoted ==
  /\ \E fn \in Requests : Moves(fn, <<Call("pumpQueue")>>, << >>)
  /\ PhaseKept /\ GateKept

NothingPumped == Moves("pumpQueue", << >>, << >>) /\ PhaseKept /\ GateKept

SuspendStarts ==
  /\ lifecycle.phase = "Idle" /\ lifecycle'.phase = "Suspending"
  /\ UNCHANGED queued
  /\ \/ /\ suspended /\ UNCHANGED suspended
        /\ Moves("pumpQueue", <<Call("suspendCompleted")>>, << >>)
     \/ /\ ~suspended /\ suspended' = TRUE
        /\ Moves("pumpQueue", << >>, <<[kind |-> "suspend", id |-> 0]>>)

ResumeStarts ==
  /\ lifecycle.phase = "Idle" /\ lifecycle'.phase = "Resuming"
  /\ UNCHANGED safetyTimer /\ GateKept
  /\ \/ ~suspended /\ Moves("pumpQueue", <<Call("resumeInvalid")>>, << >>)
     \/ suspended /\ Moves("pumpQueue", << >>, <<[kind |-> "resume", id |-> 0]>>)

SuspendEnds ==
  /\ Moves("suspendCompleted", <<Call("pumpQueue")>>, << >>)
  /\ GateKept
  /\ \/ lifecycle.phase # "Suspending" /\ PhaseKept
     \/ /\ lifecycle.phase = "Suspending" /\ lifecycle'.phase = "Idle"
        /\ safetyTimer' = "off"

Replayed(ids) == [i \in DOMAIN ids |-> [kind |-> "replay", id |-> ids[i]]]

GateOpens ==
  /\ suspended' = FALSE /\ queued' = << >> /\ PhaseKept
  /\ \/ Moves("resumeWorkerValid", <<Call("resumeValid")>>, Replayed(queued))
     \/ Moves("resumeWorkerInvalid", <<Call("resumeInvalid")>>, << >>)

ResumeEnds ==
  /\ \/ Moves("resumeValid", <<Call("pumpQueue")>>, << >>)
     \/ Moves("resumeInvalid", <<Call("pumpQueue"), Call("seedCycle")>>, << >>)
  /\ GateKept /\ UNCHANGED safetyTimer
  /\ \/ lifecycle.phase # "Resuming" /\ PhaseKept
     \/ lifecycle.phase = "Resuming" /\ lifecycle'.phase = "Idle"

SafetyFires ==
  /\ Moves("safetyTimerFired", <<Call("pumpQueue")>>, << >>)
  /\ GateKept
  /\ lifecycle'.phase = lifecycle.phase
  /\ safetyTimer' = Consumed(safetyTimer)

ReconnectHandlers ==
  {"connectionLost", "attemptSucceeded", "attemptFailed", "seedCycle", "retryTimerFired"}

ReconnectMoves ==
  /\ PhaseKept /\ GateKept
  /\ \E fn \in ReconnectHandlers :
       \/ Moves(fn, << >>, << >>)
       \/ Moves(fn, <<Call("attemptSucceeded")>>, << >>)
       \/ Moves(fn, <<Call("attemptFailed")>>, << >>)
       \/ ~suspended /\ Moves(fn, << >>, <<[kind |-> "reconnect", id |-> 0]>>)

HandlerMoves ==
  \/ RequestNoted \/ NothingPumped \/ SuspendStarts \/ ResumeStarts \/ SuspendEnds
  \/ GateOpens \/ ResumeEnds \/ SafetyFires \/ ReconnectMoves

(* The answers of PowerLifecycle to the pump.                              *)
LEMMA PumpAnswers ==
  ASSUME NEW lc \in PowerLifecycleState
  PROVE  \/ pumpQueue(lc) = Transition(lc, Inert)
         \/ /\ lc.phase = "Idle" /\ pumpQueue(lc).lc.phase = "Suspending"
            /\ pumpQueue(lc).out.work = "StartSuspend"
         \/ /\ lc.phase = "Idle" /\ pumpQueue(lc).lc.phase = "Resuming"
            /\ pumpQueue(lc).out.work = "StartResume"
            /\ pumpQueue(lc).out.timer = "None"
BY DEF pumpQueue, PowerLifecycleState, makeSuspendEntry, makeResumeEntry, Transition, Inert

(* A handler that starts nothing leaves gate and pipeline alone.           *)
LEMMA ApplyMoves ==
  ASSUME TypeOK, NEW fn, Running(fn), NEW t, t.out.work = "None", NEW rest,
         ApplyLifecycle(t, rest)
  PROVE  /\ calls' = <<Call("pumpQueue")>> \o rest
         /\ Pipeline' = Pipeline \o << >> /\ GateKept
         /\ lifecycle' = t.lc
         /\ t.out.timer = "None" => UNCHANGED safetyTimer
         /\ t.out.timer = "Disarm" => safetyTimer' = "off"
<1>1. /\ calls' = <<Call("pumpQueue")>> \o rest
      /\ UNCHANGED <<suspended, queued, jobs, job, wpc>> /\ lifecycle' = t.lc
      /\ SafetyTimerOp(t.out.timer)
  BY DEF ApplyLifecycle, ExecuteEffects, SubmitWork, supervisorRest
<1>2. Pipeline' = Pipeline /\ Pipeline \in Seq(Job)
  BY <1>1, PipelineMoves
<1>3. Pipeline' = Pipeline \o << >>
  BY <1>2, ConcatEmptySeq
<1> QED
  BY <1>1, <1>3 DEF GateKept, SafetyTimerOp

(* Every handler of the supervisor is one of the moves above, and leaves   *)
(* what belongs to the other threads alone.                                *)
LEMMA SupervisorMoves ==
  ASSUME TypeOK, SupervisorStep
  PROVE  /\ HandlerMoves
         /\ UNCHANGED <<work, batch, ready, job, wpc, wok, connected, link, alerting>>
<1>1. /\ lifecycle \in PowerLifecycleState
      /\ reconnect \in AdapterReconnectState
      /\ jobs \in Seq(Job)
  BY DEF TypeOK, SupervisorTypeOK, WorkerTypeOK
<1>2. UNCHANGED <<work, batch, ready, job, wpc, wok, connected, link, alerting>>
  BY DEF SupervisorStep, OnSuspendRequested, OnResumeRequested, PumpQueue,
         OnSuspendCompleted, OnResumeWorkerComplete, OnResumeCompleted,
         OnSafetyTimerFired, SeedCycle, OnConnectionLost, OnReconnectResult,
         OnReconnectRetryTimerFired, ApplyLifecycle, supervisorRest, reconnectRest
<1> SUFFICES HandlerMoves
  BY <1>2
<1>3. ASSUME calls # << >>
      PROVE  Tail(calls) \in Seq(Frame) /\ << >> \o Tail(calls) = Tail(calls)
  BY <1>3, FramesAndJobs, ConcatEmptySeq DEF TypeOK
<1>4. /\ Pipeline \in Seq(Job) /\ Pipeline \o << >> = Pipeline
      /\ UNCHANGED jobs => Pipeline' = Pipeline \o << >>
  BY <1>2, PipelineMoves, ConcatEmptySeq
<1>5. \A kind \in JobKind : Submit(kind, 0) => Pipeline' = Pipeline \o <<[kind |-> kind, id |-> 0]>>
  <2> SUFFICES ASSUME NEW kind \in JobKind, Submit(kind, 0)
               PROVE  Pipeline' = Pipeline \o <<[kind |-> kind, id |-> 0]>>
    OBVIOUS
  <2>1. [kind |-> kind, id |-> 0] \in Job
    BY DEF Job
  <2> QED
    BY <1>2, <2>1, PipelineMoves DEF Submit
<1>6. {"suspend", "resume", "reconnect"} \subseteq JobKind
  BY DEF JobKind
<1>7. ASSUME NEW fn \in Requests, NEW source \in Source,
             OnSuspendRequested(fn, source) \/ OnResumeRequested(fn, source)
      PROVE  RequestNoted
  <2>1. PICK kind \in EventKind :
          Running(fn) /\ ApplyLifecycle(onRequested(lifecycle, kind, source), Tail(calls))
    BY <1>7 DEF OnSuspendRequested, OnResumeRequested, onSuspendRequested,
                onResumeRequested, EventKind
  <2> DEFINE t == onRequested(lifecycle, kind, source)
  <2>2. t.out = Inert /\ t.lc.phase = lifecycle.phase
        /\ t.lc.safetyFiredFirst = lifecycle.safetyFiredFirst
    BY <1>1 DEF onRequested, Transition, PowerLifecycleState
  <2>3. t.out.work = "None" /\ t.out.timer = "None"
    BY <2>2 DEF Inert
  <2> HIDE DEF t
  <2>4. ApplyLifecycle(t, Tail(calls))
    BY <2>1 DEF t
  <2> QED
    BY <2>1, <2>2, <2>3, <2>4, ApplyMoves DEF RequestNoted, Moves, PhaseKept
<1>8. CASE PumpQueue
  <2> DEFINE t == pumpQueue(lifecycle)
  <2>1. /\ Running("pumpQueue") /\ lifecycle' = t.lc /\ UNCHANGED queued
        /\ SafetyTimerOp(t.out.timer) /\ SubmitWork(t.out.work, Tail(calls))
    BY <1>8 DEF PumpQueue, ExecuteEffects, supervisorRest
  <2>2. Tail(calls) = << >> \o Tail(calls)
    BY <1>3, <2>1 DEF Running
  <2>3. \/ t = Transition(lifecycle, Inert)
        \/ /\ lifecycle.phase = "Idle" /\ t.lc.phase = "Suspending"
           /\ t.out.work = "StartSuspend"
        \/ /\ lifecycle.phase = "Idle" /\ t.lc.phase = "Resuming"
           /\ t.out.work = "StartResume" /\ t.out.timer = "None"
    BY <1>1, PumpAnswers
  <2> HIDE DEF t
  <2>4. CASE t = Transition(lifecycle, Inert)
    <3>1. t.out.work = "None" /\ t.out.timer = "None" /\ t.lc = lifecycle
      BY <2>4 DEF Transition, Inert
    <3>2. calls' = Tail(calls) /\ UNCHANGED <<suspended, jobs, safetyTimer>>
      BY <2>1, <3>1 DEF SubmitWork, SafetyTimerOp
    <3> QED
      BY <1>4, <2>1, <2>2, <3>1, <3>2
         DEF HandlerMoves, NothingPumped, Moves, PhaseKept, GateKept
  <2>5. CASE /\ lifecycle.phase = "Idle" /\ t.lc.phase = "Suspending"
             /\ t.out.work = "StartSuspend"
    <3>1. SuspendAsync(Tail(calls))
      BY <2>1, <2>5 DEF SubmitWork
    <3> QED
      BY <1>4, <1>5, <1>6, <2>1, <2>2, <2>5, <3>1
         DEF HandlerMoves, SuspendStarts, SuspendAsync, Moves
  <2>6. CASE /\ lifecycle.phase = "Idle" /\ t.lc.phase = "Resuming"
             /\ t.out.work = "StartResume" /\ t.out.timer = "None"
    <3>1. ResumeAsync(Tail(calls)) /\ UNCHANGED safetyTimer
      BY <2>1, <2>6 DEF SubmitWork, SafetyTimerOp
    <3> QED
      BY <1>4, <1>5, <1>6, <2>1, <2>2, <2>6, <3>1
         DEF HandlerMoves, ResumeStarts, ResumeAsync, Moves, GateKept
  <2> QED
    BY <2>3, <2>4, <2>5, <2>6
<1>9. CASE OnSuspendCompleted
  <2> DEFINE t == onSuspendCompleted(lifecycle)
  <2>1. /\ t.out.work = "None"
        /\ \/ /\ lifecycle.phase # "Suspending" /\ t.lc = lifecycle /\ t.out.timer = "None"
           \/ /\ lifecycle.phase = "Suspending" /\ t.lc.phase = "Idle"
              /\ t.out.timer = "Disarm"
    BY <1>1 DEF onSuspendCompleted, Transition, Inert, PowerLifecycleState
  <2>2. Running("suspendCompleted") /\ ApplyLifecycle(t, Tail(calls))
    BY <1>9 DEF OnSuspendCompleted
  <2> HIDE DEF t
  <2> QED
    BY <2>1, <2>2, ApplyMoves DEF HandlerMoves, SuspendEnds, Moves, PhaseKept
<1>10. ASSUME NEW fn, NEW valid \in BOOLEAN, OnResumeCompleted(fn, valid),
              fn = IF valid THEN "resumeValid" ELSE "resumeInvalid"
       PROVE  ResumeEnds
  <2> DEFINE t == onResumeCompleted(lifecycle)
             rest == (IF valid THEN << >> ELSE <<Call("seedCycle")>>) \o Tail(calls)
  <2>1. /\ t.out.work = "None" /\ t.out.timer = "None"
        /\ \/ lifecycle.phase # "Resuming" /\ t.lc = lifecycle
           \/ lifecycle.phase = "Resuming" /\ t.lc.phase = "Idle"
    BY <1>1 DEF onResumeCompleted, Transition, Inert, PowerLifecycleState
  <2>2. Running(fn) /\ ApplyLifecycle(t, rest)
    BY <1>10 DEF OnResumeCompleted
  <2> HIDE DEF t
  <2>3. calls' = <<Call("pumpQueue")>> \o rest
    BY <2>1, <2>2, ApplyMoves
  <2>4. Tail(calls) \in Seq(Frame) /\ << >> \o Tail(calls) = Tail(calls)
    BY <1>3, <2>2 DEF Running
  <2>5. ~valid => calls' = <<Call("pumpQueue"), Call("seedCycle")>> \o Tail(calls)
    <3> DEFINE a == <<Call("pumpQueue")>>
               b == <<Call("seedCycle")>>
    <3>1. a \in Seq(Frame) /\ b \in Seq(Frame)
      BY DEF Call, Frame, Handler
    <3>2. a \o b = <<Call("pumpQueue"), Call("seedCycle")>>
      <4> DEFINE c == <<Call("pumpQueue"), Call("seedCycle")>>
      <4>1. c \in Seq(Frame) /\ Len(c) = 2
        BY <3>1
      <4>2. /\ a \o b \in Seq(Frame) /\ Len(a \o b) = 2
            /\ \A i \in 1 .. 2 : (a \o b)[i] = IF i <= 1 THEN a[i] ELSE b[i - 1]
        BY <3>1, ConcatProperties
      <4>3. \A i \in 1 .. 2 : (a \o b)[i] = c[i]
        BY <4>2
      <4> HIDE DEF a, b, c
      <4> QED
        BY <4>1, <4>2, <4>3, SeqEqual DEF c
    <3>3. ~valid => calls' = a \o (b \o Tail(calls))
      BY <2>3
    <3> HIDE DEF a, b
    <3>4. a \o (b \o Tail(calls)) = (a \o b) \o Tail(calls)
      BY <2>4, <3>1, ConcatAssociative
    <3> QED
      BY <3>2, <3>3, <3>4
  <2>6. valid => calls' = <<Call("pumpQueue")>> \o Tail(calls)
    BY <2>3, <2>4
  <2> HIDE DEF rest
  <2> QED
    BY <1>10, <2>1, <2>2, <2>5, <2>6, ApplyMoves DEF ResumeEnds, Moves, PhaseKept
<1>11. CASE OnResumeWorkerComplete("resumeWorkerValid", TRUE)
  <2>1. /\ Running("resumeWorkerValid") /\ suspended' = FALSE /\ queued' = << >>
        /\ calls' = <<Call("resumeValid")>> \o Tail(calls)
        /\ jobs' = jobs \o Replayed(queued)
        /\ UNCHANGED <<lifecycle, safetyTimer>>
    BY <1>11 DEF OnResumeWorkerComplete, Replay, Replayed
  <2>2. Replayed(queued) \in Seq(Job)
    BY ReplayedAreJobs DEF Replayed, TypeOK, SupervisorTypeOK
  <2>3. Pipeline' = Pipeline \o Replayed(queued)
    BY <1>2, <2>1, <2>2, PipelineMoves
  <2> QED
    BY <2>1, <2>3 DEF HandlerMoves, GateOpens, Moves, PhaseKept
<1>12. CASE OnResumeWorkerComplete("resumeWorkerInvalid", FALSE)
  BY <1>4, <1>12 DEF OnResumeWorkerComplete, HandlerMoves, GateOpens, Moves, PhaseKept
<1>13. CASE OnSafetyTimerFired
  <2>1. onSafetyTimerFired(lifecycle).lc.phase = lifecycle.phase
    BY <1>1 DEF onSafetyTimerFired, Transition, PowerLifecycleState
  <2> QED
    BY <1>4, <1>13, <2>1
       DEF OnSafetyTimerFired, supervisorRest, HandlerMoves, SafetyFires, Moves, GateKept
<1>14. ASSUME NEW fn \in ReconnectHandlers, Running(fn), NEW r,
              \/ Execute(r, Tail(calls))
              \/ calls' = Tail(calls) /\ UNCHANGED jobs,
              UNCHANGED reconnectRest
       PROVE  ReconnectMoves
  <2>1. Tail(calls) = << >> \o Tail(calls)
    BY <1>3, <1>14 DEF Running
  <2>2. \/ calls' = Tail(calls) /\ UNCHANGED jobs
        \/ ReconnectAsync(Tail(calls))
    BY <1>14 DEF Execute
  <2>3. PhaseKept /\ GateKept
    BY <1>14 DEF reconnectRest, PhaseKept, GateKept
  <2> QED
    BY <1>4, <1>5, <1>6, <1>14, <2>1, <2>2, <2>3 DEF ReconnectMoves, ReconnectAsync, Moves
<1>15. CASE \/ SeedCycle \/ OnConnectionLost
            \/ OnReconnectResult("attemptSucceeded", "AttemptSucceeded")
            \/ OnReconnectResult("attemptFailed", "AttemptFailed")
            \/ OnReconnectRetryTimerFired
  BY <1>14, <1>15
     DEF SeedCycle, OnConnectionLost, OnReconnectResult, OnReconnectRetryTimerFired,
         ReconnectHandlers, HandlerMoves
<1> QED
  BY <1>7, <1>8, <1>9, <1>10, <1>11, <1>12, <1>13, <1>15
     DEF SupervisorStep, HandlerMoves, Requests, Source

-----------------------------------------------------------------------------
(* What the other steps do to what is under way. *)

QuietStep == UNCHANGED <<work, calls, Pipeline>>

ClosureStarts ==
  /\ calls = << >> /\ work # << >>
  /\ calls' = <<Head(work)>> /\ work' = Tail(work)
  /\ UNCHANGED Pipeline

Events == {"suspendDBus", "resumeDBus", "connectionLost"}
EventPosted ==
  /\ \E fn \in Events : Post(fn, 0)
  /\ UNCHANGED <<calls, Pipeline>>

Starts == {"suspendWire", "resumeWire", "safetyTimerFired", "retryTimerFired"}
CallStarts ==
  /\ calls = << >>
  /\ \E fn \in Starts : calls' = <<Call(fn)>>
  /\ UNCHANGED <<work, Pipeline>>

JobEnds ==
  /\ wpc = "report" /\ job \in Job
  /\ Pipeline = <<job>> \o jobs /\ Pipeline' = jobs
  /\ IF job.kind = "replay" THEN UNCHANGED work
                            ELSE Post(Report(job.kind, wok), job.id)
  /\ UNCHANGED calls

CommandSubmitted ==
  /\ ~suspended /\ Live
  /\ \E kind \in {"command", "restart"} :
       Pipeline' = Pipeline \o <<[kind |-> kind, id |-> CommandId]>>
  /\ awaiting' = awaiting \cup {CommandId} /\ CommandId' = CommandId + 1
  /\ UNCHANGED <<work, calls>>

ReplyGiven ==
  /\ Running("reply")
  /\ calls' = Tail(calls) /\ awaiting' = awaiting \ {Head(calls).id}
  /\ UNCHANGED <<work, Pipeline>>

WorkerEnds == ~Live /\ Pipeline' = << >> /\ UNCHANGED <<work, calls>>

(* Commands are numbered from 1.                                           *)
LEMMA CommandIdType ==
  ASSUME TypeOK
  PROVE  CommandId \in Nat \ {0}
BY DEF TypeOK, InputTypeOK, Input, CommandId

(* What the environment spends on commands numbers them.                   *)
LEMMA CommandIdMoves ==
  ASSUME TypeOK, NEW input \in Input, Spend(input)
  PROVE  CommandId' = IF input \in {"command", "restart"} THEN CommandId + 1 ELSE CommandId
<1>1. spent \in [Input -> Nat] /\ spent' = [spent EXCEPT ![input] = @ + 1]
  BY DEF TypeOK, InputTypeOK, Spend
<1>2. /\ spent["command"] \in Nat /\ spent["restart"] \in Nat
      /\ spent'["command"] = IF input = "command" THEN spent["command"] + 1 ELSE spent["command"]
      /\ spent'["restart"] = IF input = "restart" THEN spent["restart"] + 1 ELSE spent["restart"]
  BY <1>1 DEF Input
<1>3. CommandId' = 1 + spent'["command"] + spent'["restart"]
  BY DEF CommandId
<1> QED
  BY <1>2, <1>3 DEF CommandId

(* Every step that is not one of the supervisor is one of these moves.     *)
LEMMA OtherMoves ==
  ASSUME TypeOK, [Next]_vars, ~SupervisorStep
  PROVE  /\ UNCHANGED <<suspended, lifecycle>>
         /\ \/ /\ QuietStep \/ ClosureStarts \/ EventPosted \/ CallStarts \/ JobEnds
               /\ UNCHANGED awaiting \/ ~Live'
            \/ CommandSubmitted
            \/ ReplyGiven
            \/ WorkerEnds
<1> DEFINE Goal == \/ /\ \/ QuietStep \/ ClosureStarts \/ EventPosted \/ CallStarts
                         \/ JobEnds
                      /\ UNCHANGED awaiting \/ ~Live'
                   \/ CommandSubmitted
                   \/ ReplyGiven
                   \/ WorkerEnds
<1>1. UNCHANGED <<suspended, lifecycle>>
  BY DEF Next, vars, MainStep, HandlerStep, LoopStep, BusStep, Reply, Stop, TimerStep,
         AdapterStep, ConnectionLost, AlertStep, workerRest, LogindSleeps, LogindWakes,
         LogindAnswers, logindRest, ClientStep, WireSuspend, WireResume, WireRequest,
         DispatchCommand, RestartAdapter, DispatchToWorker, EnqueueCommand,
         RefuseCommand, Terminate, Stopped, Done, supervisorVars
<1> SUFFICES Goal
  BY <1>1
<1>2. ASSUME UNCHANGED <<job, jobs, wpc>>
      PROVE  UNCHANGED Pipeline
  BY <1>2, PipelineMoves
<1>3. CASE LoopStep
  <2>1. UNCHANGED <<Pipeline, awaiting>>
    BY <1>2, <1>3 DEF LoopStep, workerVars, clientVars
  <2>2. CASE Poll \/ Drain
    BY <2>1, <2>2 DEF Poll, Drain, QuietStep
  <2>3. CASE RunClosure
    <3>1. work # << >>
      BY <2>3 DEF RunClosure, TypeOK, LoopTypeOK
    <3> QED
      BY <2>1, <2>3, <3>1 DEF RunClosure, ClosureStarts
  <2>4. CASE DispatchSafetyTimer \/ DispatchRetryTimer
    BY <2>1, <2>4
       DEF DispatchSafetyTimer, DispatchRetryTimer, DispatchTimer, AtDispatchPoint,
           CallStarts, Starts
  <2> QED
    BY <1>3, <2>2, <2>3, <2>4 DEF LoopStep, MainLoopStep
<1>4. CASE BusStep
  <2>1. UNCHANGED <<Pipeline, awaiting, calls>>
    BY <1>2, <1>4 DEF BusStep, workerVars, clientVars, OnPrepareForSleep, OnInhibitReply,
                      loopVars
  <2> QED
    BY <1>4, <2>1
       DEF BusStep, OnPrepareForSleep, OnInhibitReply, loopVars, QuietStep, EventPosted,
           Events
<1>5. CASE Reply
  <2>1. UNCHANGED Pipeline
    BY <1>2, <1>5 DEF Reply, workerVars
  <2> QED
    BY <1>5, <2>1 DEF Reply, ReplyGiven
<1>6. CASE Stop \/ Stopped \/ Terminate
  <2>1. UNCHANGED Pipeline
    BY <1>2, <1>6 DEF Stop, Stopped, Terminate, workerVars
  <2> QED
    BY <1>6, <2>1 DEF Stop, Stopped, Terminate, QuietStep, Live, clientVars
<1>7. CASE AdapterStep
  <2>1. UNCHANGED <<calls, awaiting>> /\ WorkerStep
    BY <1>7 DEF AdapterStep, workerRest
  <2>2. CASE TakeJob
    BY <2>1, <2>2, PipelineMoves DEF TakeJob, QuietStep
  <2>3. CASE FinishJob
    <3>1. wpc = "report" /\ job' = NoJob /\ jobs' = jobs /\ wpc' = "idle"
      BY <2>3 DEF FinishJob
    <3>2. jobs \in Seq(Job) /\ Pipeline' = << >> \o jobs
      BY <3>1 DEF Pipeline, TypeOK, WorkerTypeOK
    <3>3. Pipeline' = jobs
      BY <3>2, ConcatEmptySeq
    <3>4. JobEnds
      BY <2>1, <2>3, <3>1, <3>3, PipelineMoves DEF FinishJob, JobEnds
    <3> QED
      BY <2>1, <3>4
  <2>4. CASE WorkerExit
    <3>1. Pipeline' = << >>
      <4>1. Pipeline' = << >> \o << >>
        BY <2>4 DEF WorkerExit, Pipeline
      <4> QED
        BY <4>1, EmptySeq, ConcatEmptySeq
    <3> QED
      BY <2>1, <2>4, <3>1 DEF WorkerExit, WorkerEnds, Live
  <2>5. CASE \/ CloseConnection \/ LibcecClose \/ ReopenConnection \/ LibcecDestroy
             \/ OpenFails \/ OpenSucceeds \/ MarkConnected \/ CheckConnected
    <3>1. UNCHANGED <<job, jobs, work>>
      BY <2>5 DEF CloseConnection, LibcecClose, ReopenConnection, LibcecDestroy,
                  OpenFails, OpenSucceeds, MarkConnected, CheckConnected
    <3>2. wpc \notin {"idle", "exited"} /\ wpc' \notin {"idle", "exited"}
      BY <2>5 DEF CloseConnection, LibcecClose, ReopenConnection, LibcecDestroy,
                  OpenFails, OpenSucceeds, MarkConnected, CheckConnected, AfterOpen
    <3> QED
      BY <2>1, <3>1, <3>2, PipelineMoves DEF QuietStep
  <2> QED
    BY <2>1, <2>2, <2>3, <2>4, <2>5 DEF WorkerStep
<1>8. CASE ConnectionLost \/ AlertStep
  <2>1. UNCHANGED <<Pipeline, awaiting, calls>>
    BY <1>2, <1>8 DEF ConnectionLost, AlertStep, AlertClearsFlag, AlertPosts, workerRest
  <2> QED
    BY <1>8, <2>1
       DEF ConnectionLost, AlertStep, AlertClearsFlag, AlertPosts, QuietStep, EventPosted,
           Events
<1>9. CASE WireSuspend \/ WireResume
  <2>1. UNCHANGED Pipeline
    BY <1>2, <1>9 DEF WireSuspend, WireResume, WireRequest, workerVars
  <2> QED
    BY <1>9, <2>1
       DEF WireSuspend, WireResume, WireRequest, AtDispatchPoint, CallStarts, Starts
<1>10. ASSUME NEW kind \in {"command", "restart"}, DispatchToWorker(kind, kind)
       PROVE  CommandSubmitted
  <2>1. [kind |-> kind, id |-> CommandId] \in Job
    BY CommandIdType DEF Job, JobKind
  <2>2. Pipeline' = Pipeline \o <<[kind |-> kind, id |-> CommandId]>>
    BY <1>10, <2>1, PipelineMoves DEF DispatchToWorker, Submit
  <2>3. CommandId' = CommandId + 1
    BY <1>10, CommandIdMoves DEF DispatchToWorker, Input
  <2> QED
    BY <1>10, <2>2, <2>3
       DEF DispatchToWorker, CommandSubmitted, AtDispatchPoint, Live, loopVars
<1>11. CASE DispatchCommand \/ RestartAdapter
  BY <1>10, <1>11 DEF DispatchCommand, RestartAdapter
<1>12. CASE UNCHANGED <<job, jobs, wpc, work, calls, awaiting>>
  BY <1>2, <1>12 DEF QuietStep
<1>13. CASE \/ TimerStep \/ LogindSleeps \/ LogindWakes \/ LogindAnswers
            \/ EnqueueCommand \/ RefuseCommand \/ UNCHANGED vars
  BY <1>12, <1>13
     DEF TimerStep, SafetyTimerExpires, RetryTimerExpires, LogindSleeps, LogindWakes,
         LogindAnswers, logindRest, EnqueueCommand, RefuseCommand, vars, loopVars,
         workerVars, clientVars
<1> QED
  BY <1>3, <1>4, <1>5, <1>6, <1>7, <1>8, <1>9, <1>11, <1>13
     DEF Next, MainStep, ClientStep, HandlerStep, Done

-----------------------------------------------------------------------------
(* Tokens: the jobs of J under way, and the closures and calls of F that   *)
(* they turn into.                                                         *)
Tokens(J, F) == Count(Pipeline, J) + Count(work, F) + Count(calls, F)

(* F is what the jobs of J report, and nothing else posts it or calls it.  *)
Carries(J, F) ==
  /\ \A j \in Job : \A ok \in BOOLEAN :
       IF j.kind = "replay" THEN j \notin J
       ELSE j \in J <=> [fn |-> Report(j.kind, ok), id |-> j.id] \in F
  /\ \A fn \in Events \cup Starts : Call(fn) \notin F

(* The numbers that the tokens are the sum of.                             *)
LEMMA TokensType ==
  ASSUME TypeOK, NEW J, NEW F
  PROVE  /\ work \in Seq(Frame) /\ calls \in Seq(Frame) /\ Pipeline \in Seq(Job)
         /\ Count(Pipeline, J) \in Nat /\ Count(work, F) \in Nat /\ Count(calls, F) \in Nat
         /\ Tokens(J, F) \in Nat
<1>1. calls \in Seq(Frame) /\ Pipeline \in Seq(Job)
  BY PipelineMoves DEF TypeOK, LoopTypeOK
<1>2. work \in Seq(Frame)
  <2>1. work \in Seq([fn : Closure, id : Nat])
    BY DEF TypeOK, LoopTypeOK
  <2>2. [fn : Closure, id : Nat] \subseteq Frame
    BY DEF Frame, Handler
  <2> QED
    BY <2>1, <2>2, SeqMonotonic
<1>3. Count(Pipeline, J) \in Nat /\ Count(work, F) \in Nat /\ Count(calls, F) \in Nat
  BY <1>1, <1>2, CountFinite
<1> QED
  BY <1>1, <1>2, <1>3 DEF Tokens

(* The same of the state after a step.                                     *)
LEMMA TokensTypeNext ==
  ASSUME TypeOK', NEW J, NEW F
  PROVE  /\ calls' \in Seq(Frame) /\ Pipeline' \in Seq(Job)
         /\ Tokens(J, F)' \in Nat
<1>1. calls' \in Seq(Frame)
  BY DEF TypeOK, LoopTypeOK
<1>2. work' \in Seq([fn : Closure, id : Nat])
  BY DEF TypeOK, LoopTypeOK
<1>3. Pipeline' \in Seq(Job)
  <2> DEFINE now == IF wpc' \in {"idle", "exited"} THEN << >> ELSE <<job'>>
  <2>1. jobs' \in Seq(Job) /\ now \in Seq(Job)
    BY DEF TypeOK, WorkerTypeOK
  <2>2. Pipeline' = now \o jobs'
    BY DEF Pipeline
  <2> HIDE DEF now
  <2> QED
    BY <2>1, <2>2, ConcatProperties
<1>4. Count(Pipeline', J) \in Nat /\ Count(work', F) \in Nat /\ Count(calls', F) \in Nat
  BY <1>1, <1>2, <1>3, CountFinite
<1>5. Tokens(J, F)' = Count(Pipeline', J) + Count(work', F) + Count(calls', F)
  BY DEF Tokens
<1> QED
  BY <1>1, <1>3, <1>4, <1>5

(* A token that moves stays one token.                                     *)
LEMMA TokensKept ==
  ASSUME TypeOK, NEW J, NEW F, Carries(J, F),
         QuietStep \/ ClosureStarts \/ EventPosted \/ CallStarts \/ JobEnds
  PROVE  Tokens(J, F)' = Tokens(J, F)
<1>1. /\ work \in Seq(Frame) /\ calls \in Seq(Frame) /\ Pipeline \in Seq(Job)
      /\ Count(Pipeline, J) \in Nat /\ Count(work, F) \in Nat /\ Count(calls, F) \in Nat
  BY TokensType
<1>2. Tokens(J, F)' = Count(Pipeline', J) + Count(work', F) + Count(calls', F)
  BY DEF Tokens
<1>3. ASSUME NEW fn \in Closure, NEW id \in Nat, Post(fn, id)
      PROVE  Count(work', F) = Count(work, F) + One([fn |-> fn, id |-> id] \in F)
  <2> DEFINE c == [fn |-> fn, id |-> id]
  <2>1. c \in Frame /\ work' = Append(work, c)
    BY <1>3 DEF Frame, Handler, Post
  <2> HIDE DEF c
  <2>2. Count(work', F) = Count(work, F) + One(c \in F)
    BY <1>1, <2>1, CountAppend
  <2> QED
    BY <2>2 DEF c
<1>4. CASE QuietStep
  BY <1>2, <1>4 DEF QuietStep, Tokens
<1>5. CASE ClosureStarts
  <2>1. Count(work, F) = One(Head(work) \in F) + Count(work', F)
    BY <1>1, <1>5, CountHeadTail DEF ClosureStarts
  <2>2. Count(calls, F) = 0 /\ Count(calls', F) = One(Head(work) \in F)
    BY <1>5, CountSmall DEF ClosureStarts
  <2>3. Tail(work) \in Seq(Frame)
    BY <1>1, <1>5, HeadTailProperties DEF ClosureStarts
  <2>4. Count(work', F) \in Nat /\ Pipeline' = Pipeline
    BY <1>5, <2>3, CountFinite DEF ClosureStarts
  <2> QED
    BY <1>1, <1>2, <2>1, <2>2, <2>4 DEF Tokens, One
<1>6. CASE EventPosted
  <2>1. PICK fn \in Events : Post(fn, 0)
    BY <1>6 DEF EventPosted
  <2>2. fn \in Closure /\ [fn |-> fn, id |-> 0] \notin F
    BY DEF Events, Closure, Carries, Call
  <2>3. Count(work', F) = Count(work, F) + 0
    BY <1>3, <2>1, <2>2 DEF One
  <2> QED
    BY <1>1, <1>2, <1>6, <2>3 DEF EventPosted, Tokens
<1>7. CASE CallStarts
  <2>1. PICK fn \in Starts : calls' = <<Call(fn)>>
    BY <1>7 DEF CallStarts
  <2>2. Call(fn) \notin F
    BY DEF Carries
  <2>3. Count(calls, F) = 0 /\ Count(calls', F) = 0
    BY <1>7, <2>1, <2>2, CountSmall DEF CallStarts, One
  <2> QED
    BY <1>1, <1>2, <1>7, <2>3 DEF CallStarts, Tokens
<1>8. CASE JobEnds
  <2>1. /\ job \in Job /\ Pipeline = <<job>> \o jobs /\ Pipeline' = jobs
        /\ UNCHANGED calls /\ wok \in BOOLEAN /\ jobs \in Seq(Job)
    BY <1>8 DEF JobEnds, TypeOK, WorkerTypeOK
  <2>2. Count(Pipeline, J) = One(job \in J) + Count(Pipeline', J)
    <3>1. <<job>> \in Seq(Job)
      BY <2>1
    <3>2. Count(<<job>> \o jobs, J) = Count(<<job>>, J) + Count(jobs, J)
      BY <2>1, <3>1, CountConcat
    <3>3. Count(<<job>>, J) = One(job \in J)
      BY CountSmall
    <3> QED
      BY <2>1, <3>2, <3>3
  <2>3. Count(Pipeline', J) \in Nat
    BY <2>1, CountFinite
  <2>4. Count(work', F) = Count(work, F) + One(job \in J)
    <3>1. CASE job.kind = "replay"
      <4>1. job \notin J
        BY <2>1, <3>1 DEF Carries
      <4> QED
        BY <1>1, <1>8, <3>1, <4>1 DEF JobEnds, One
    <3>2. CASE job.kind # "replay"
      <4>1. Report(job.kind, wok) \in Closure /\ job.id \in Nat
        BY <2>1 DEF Report, Closure, Job
      <4>2. job \in J <=> [fn |-> Report(job.kind, wok), id |-> job.id] \in F
        BY <2>1, <3>2 DEF Carries
      <4> QED
        BY <1>3, <1>8, <3>2, <4>1, <4>2 DEF JobEnds, One
    <3> QED
      BY <3>1, <3>2
  <2> QED
    BY <1>1, <1>2, <2>1, <2>2, <2>3, <2>4 DEF Tokens, One
<1> QED
  BY <1>4, <1>5, <1>6, <1>7, <1>8

(* A call consumes its token and makes those of what it calls and submits. *)
LEMMA TokensMoved ==
  ASSUME TypeOK, NEW J, NEW F, NEW fn, NEW ins \in Seq(Frame), NEW add \in Seq(Job),
         Moves(fn, ins, add), UNCHANGED work
  PROVE  /\ Tokens(J, F)' + One(Head(calls) \in F)
               = Tokens(J, F) + Count(ins, F) + Count(add, J)
         /\ Head(calls) \in F => Tokens(J, F) > 0
         /\ Tokens(J, F)' \in Nat
<1>1. /\ work \in Seq(Frame) /\ calls \in Seq(Frame) /\ Pipeline \in Seq(Job)
      /\ Count(Pipeline, J) \in Nat /\ Count(work, F) \in Nat /\ Count(calls, F) \in Nat
  BY TokensType
<1>2. calls # << >> /\ calls' = ins \o Tail(calls) /\ Pipeline' = Pipeline \o add
  BY DEF Moves, Running
<1>3. Tail(calls) \in Seq(Frame)
  BY <1>1, <1>2, HeadTailProperties
<1>4. Count(calls, F) = One(Head(calls) \in F) + Count(Tail(calls), F)
  BY <1>1, <1>2, CountHeadTail
<1>5. Count(calls', F) = Count(ins, F) + Count(Tail(calls), F)
  BY <1>2, <1>3, CountConcat
<1>6. Count(Pipeline', J) = Count(Pipeline, J) + Count(add, J)
  BY <1>1, <1>2, CountConcat
<1>7. Count(Tail(calls), F) \in Nat /\ Count(ins, F) \in Nat /\ Count(add, J) \in Nat
  BY <1>3, CountFinite
<1>8. Tokens(J, F)' = Count(Pipeline', J) + Count(work, F) + Count(calls', F)
  BY DEF Tokens
<1>9. Tokens(J, F) = Count(Pipeline, J) + Count(work, F) + Count(calls, F)
  BY DEF Tokens
<1>10. One(Head(calls) \in F) \in Nat /\ (Head(calls) \in F => One(Head(calls) \in F) = 1)
  BY DEF One
<1> DEFINE p == Count(Pipeline, J)
           w == Count(work, F)
           h == One(Head(calls) \in F)
           r == Count(Tail(calls), F)
           i == Count(ins, F)
           a == Count(add, J)
<1>11. /\ Tokens(J, F)' = (p + a) + w + (i + r)
       /\ Tokens(J, F) = p + w + (h + r)
       /\ p \in Nat /\ w \in Nat /\ h \in Nat /\ r \in Nat /\ i \in Nat /\ a \in Nat
       /\ Head(calls) \in F => h = 1
  BY <1>1, <1>4, <1>5, <1>6, <1>7, <1>8, <1>9, <1>10
<1> HIDE DEF p, w, h, r, i, a
<1>12. /\ Tokens(J, F)' + h = Tokens(J, F) + i + a
       /\ Head(calls) \in F => Tokens(J, F) > 0
       /\ Tokens(J, F)' \in Nat
  BY <1>11
<1> QED
  BY <1>12 DEF h, i, a

-----------------------------------------------------------------------------
(* The invariants. *)

JobsOf(kind) == [kind : {kind}, id : Nat]
FramesOf(fns) == [fn : fns, id : Nat]

ResumeFns == {"resumeWorkerValid", "resumeWorkerInvalid", "resumeValid", "resumeInvalid"}

Suspends == JobsOf("suspend")
SuspendEnd == FramesOf({"suspendCompleted"})
Resumes == JobsOf("resume")
ResumeEnd == FramesOf(ResumeFns)

(* OneCompletionPerCycle in these words.                                   *)
CycleInv ==
  Live => /\ Tokens(Suspends, SuspendEnd) = One(lifecycle.phase = "Suspending")
          /\ Tokens(Resumes, ResumeEnd) = One(lifecycle.phase = "Resuming")

(* The gate is shut before the job that closes the adapter is submitted    *)
(* and open before the resume is reported.                                 *)
GateInv ==
  Live => /\ Occurs(Pipeline, Suspends) => suspended
          /\ lifecycle.phase = "Suspending" => suspended
          /\ Occurs(calls, FramesOf({"resumeValid", "resumeInvalid"})) => ~suspended

(* The flag says that the link is down, but where the code is between the  *)
(* flag and the call of libcec that goes with it.                          *)
FlagInv ==
  /\ ~connected /\ wpc \notin {"destroy", "mark", "closing", "exited"} => link # "open"
  /\ wpc = "open" => link = "none"
  /\ job.kind = "suspend" => wpc \in {"close", "closing", "report"}
  /\ job.kind = "suspend" /\ wpc # "close" => ~connected
  /\ job.kind = "suspend" /\ wpc = "report" => link # "open"

ClosedInv ==
  Live /\ suspended /\ lifecycle.phase # "Resuming" =>
    \/ ~connected /\ link # "open" /\ Pipeline = << >>
    \/ Occurs(Pipeline, Suspends)

(* From the moment epoll reports the safety timer to the call it leads to. *)
SafetyWindow == "safety" \in ready \/ Running("safetyTimerFired")

(* The suspend that the event is about is still under way ...              *)
SameSuspend ==
  /\ lifecycle.phase = "Suspending" /\ safetyTimer # "armed"
  /\ "work" \in ready => ~Occurs(calls, SuspendEnd)

(* ... or the batch after the event has ended it, and whatever that batch  *)
(* starts besides cannot end before the event is dispatched.               *)
SuspendOver ==
  /\ "work" \notin ready /\ suspended
  /\ \/ lifecycle.phase = "Idle"
     \/ lifecycle.phase = "Suspending" /\ Occurs(calls, SuspendEnd)
     \/ /\ lifecycle.phase = "Resuming"
        /\ ~Occurs(calls, ResumeEnd)
        /\ \A i \in 1 .. batch : work[i] \notin ResumeEnd

WindowInv ==
  /\ batch > 0 => "work" \notin ready
  /\ Occurs(calls, FramesOf({"safetyTimerFired"})) => calls = <<Call("safetyTimerFired")>>
  /\ Live /\ SafetyWindow => SameSuspend \/ SuspendOver

CommandKinds == {"command", "restart", "replay"}

CommandsWith(id) == [kind : {"command", "restart"}, id : {id}]
RepliesWith(id) == [fn : {"reply"}, id : {id}]

(* OneReplyPerCommand for every number, of commands to come too.           *)
ReplyInv ==
  Live =>
    /\ \A id \in Nat : Tokens(CommandsWith(id), RepliesWith(id)) = One(id \in awaiting)
    /\ \A id \in awaiting : id < CommandId

-----------------------------------------------------------------------------
(* One completion per cycle. *)

(* TokensMoved for the calls and jobs that occur.                          *)
LEMMA TokensReturn ==
  ASSUME TypeOK, UNCHANGED work, NEW J, NEW F, NEW fn, Moves(fn, << >>, << >>)
  PROVE  Tokens(J, F)' + One(Head(calls) \in F) = Tokens(J, F)
<1>1. << >> \in Seq(Frame) /\ << >> \in Seq(Job) /\ Tokens(J, F) \in Nat
  BY EmptySeq, TokensType
<1>2. Tokens(J, F)' + One(Head(calls) \in F) = Tokens(J, F) + Count(<< >>, F) + Count(<< >>, J)
  BY <1>1, TokensMoved
<1>3. Count(<< >>, F) = 0 /\ Count(<< >>, J) = 0
  BY CountSmall
<1>4. Tokens(J, F)' + One(Head(calls) \in F) = Tokens(J, F) + 0 + 0
  BY <1>2, <1>3
<1> QED
  BY <1>1, <1>4

(* A handler that calls another one hands its token on.                    *)
LEMMA TokensCall ==
  ASSUME TypeOK, UNCHANGED work, NEW J, NEW F, NEW fn, NEW g \in Handler,
         Moves(fn, <<Call(g)>>, << >>)
  PROVE  Tokens(J, F)' + One(Head(calls) \in F) = Tokens(J, F) + One(Call(g) \in F)
<1>1. << >> \in Seq(Job) /\ Tokens(J, F) \in Nat /\ One(Call(g) \in F) \in Nat
  BY EmptySeq, TokensType DEF One
<1>2. <<Call(g)>> \in Seq(Frame)
  BY DEF Call, Frame
<1>3. Tokens(J, F)' + One(Head(calls) \in F)
        = Tokens(J, F) + Count(<<Call(g)>>, F) + Count(<< >>, J)
  BY <1>1, <1>2, TokensMoved
<1>4. Count(<<Call(g)>>, F) = One(Call(g) \in F) /\ Count(<< >>, J) = 0
  BY CountSmall
<1>5. Tokens(J, F)' + One(Head(calls) \in F) = Tokens(J, F) + One(Call(g) \in F) + 0
  BY <1>3, <1>4
<1> QED
  BY <1>1, <1>5

(* A handler that submits a job hands its token to the job.                *)
LEMMA TokensSubmit ==
  ASSUME TypeOK, UNCHANGED work, NEW J, NEW F, NEW fn, NEW j \in Job,
         Moves(fn, << >>, <<j>>)
  PROVE  Tokens(J, F)' + One(Head(calls) \in F) = Tokens(J, F) + One(j \in J)
<1>1. << >> \in Seq(Frame) /\ Tokens(J, F) \in Nat /\ One(j \in J) \in Nat
  BY EmptySeq, TokensType DEF One
<1>2. <<j>> \in Seq(Job)
  OBVIOUS
<1>3. Tokens(J, F)' + One(Head(calls) \in F)
        = Tokens(J, F) + Count(<< >>, F) + Count(<<j>>, J)
  BY <1>1, <1>2, TokensMoved
<1>4. Count(<< >>, F) = 0 /\ Count(<<j>>, J) = One(j \in J)
  BY CountSmall
<1>5. Tokens(J, F)' + One(Head(calls) \in F) = Tokens(J, F) + 0 + One(j \in J)
  BY <1>3, <1>4
<1> QED
  BY <1>1, <1>5

(* onResumeCompleted goes on to pumpQueue and seedCycle, which carry no    *)
(* token.                                                                  *)
LEMMA TokensSeed ==
  ASSUME TypeOK, UNCHANGED work, NEW J, NEW F, NEW fn,
         Moves(fn, <<Call("pumpQueue"), Call("seedCycle")>>, << >>),
         Call("pumpQueue") \notin F, Call("seedCycle") \notin F
  PROVE  Tokens(J, F)' + One(Head(calls) \in F) = Tokens(J, F)
<1> DEFINE c == <<Call("pumpQueue"), Call("seedCycle")>>
<1>1. << >> \in Seq(Job) /\ Tokens(J, F) \in Nat
  BY EmptySeq, TokensType
<1>2. c \in Seq(Frame)
  BY DEF Call, Frame, Handler
<1>3. ~Occurs(c, F)
  BY DEF Occurs
<1>4. Moves(fn, c, << >>)
  OBVIOUS
<1> HIDE DEF c
<1>5. Tokens(J, F)' + One(Head(calls) \in F) = Tokens(J, F) + Count(c, F) + Count(<< >>, J)
  BY <1>1, <1>2, <1>4, TokensMoved
<1>6. Count(c, F) = 0 /\ Count(<< >>, J) = 0
  BY <1>2, <1>3, CountFinite, CountSmall
<1>7. Tokens(J, F)' + One(Head(calls) \in F) = Tokens(J, F) + 0 + 0
  BY <1>5, <1>6
<1> QED
  BY <1>1, <1>7

(* Replayed commands carry no token.                                       *)
LEMMA TokensReplay ==
  ASSUME TypeOK, UNCHANGED work, NEW J, NEW F, NEW fn, NEW g \in Handler,
         Moves(fn, <<Call(g)>>, Replayed(queued)), \A j \in J : j.kind # "replay"
  PROVE  Tokens(J, F)' + One(Head(calls) \in F) = Tokens(J, F) + One(Call(g) \in F)
<1>1. Tokens(J, F) \in Nat /\ One(Call(g) \in F) \in Nat
  BY TokensType DEF One
<1>2. <<Call(g)>> \in Seq(Frame)
  BY DEF Call, Frame
<1>3. Replayed(queued) \in Seq(Job)
  BY ReplayedAreJobs DEF Replayed, TypeOK, SupervisorTypeOK
<1>4. ~Occurs(Replayed(queued), J)
  BY DEF Occurs, Replayed
<1>5. Tokens(J, F)' + One(Head(calls) \in F)
        = Tokens(J, F) + Count(<<Call(g)>>, F) + Count(Replayed(queued), J)
  BY <1>2, <1>3, TokensMoved
<1>6. Count(<<Call(g)>>, F) = One(Call(g) \in F)
  BY CountSmall
<1>7. Count(Replayed(queued), J) = 0
  BY <1>3, <1>4, CountFinite
<1>8. Tokens(J, F)' + One(Head(calls) \in F) = Tokens(J, F) + One(Call(g) \in F) + 0
  BY <1>5, <1>6, <1>7
<1> QED
  BY <1>1, <1>8

(* What the sets of jobs and frames contain.                               *)
LEMMA Members ==
  /\ \A fn, fns : Call(fn) \in FramesOf(fns) <=> fn \in fns
  /\ \A f \in Frame : \A fns : f \in FramesOf(fns) <=> f.fn \in fns
  /\ \A j \in Job : \A kind : j \in JobsOf(kind) <=> j.kind = kind
  /\ \A kind \in JobKind : [kind |-> kind, id |-> 0] \in Job
  /\ \A kind, k : [kind |-> k, id |-> 0] \in JobsOf(kind) <=> k = kind
BY DEF Call, FramesOf, Frame, Job, JobsOf

(* The jobs of a suspend and of a resume carry their completions.          *)
LEMMA CompletionsCarried ==
  /\ Carries(Suspends, SuspendEnd)
  /\ Carries(Resumes, ResumeEnd)
<1>1. \A fn \in Events \cup Starts : fn \notin {"suspendCompleted"} \cup ResumeFns
  BY DEF Events, Starts, ResumeFns
<1>2. ASSUME NEW j \in Job, NEW ok \in BOOLEAN
      PROVE  /\ IF j.kind = "replay" THEN j \notin Suspends
                ELSE j \in Suspends <=> [fn |-> Report(j.kind, ok), id |-> j.id] \in SuspendEnd
             /\ IF j.kind = "replay" THEN j \notin Resumes
                ELSE j \in Resumes <=> [fn |-> Report(j.kind, ok), id |-> j.id] \in ResumeEnd
  <2>1. j.id \in Nat /\ j.kind \in JobKind
    BY DEF Job
  <2>2. \A kind : j \in JobsOf(kind) <=> j.kind = kind
    BY Members
  <2>3. \A fns : [fn |-> Report(j.kind, ok), id |-> j.id] \in FramesOf(fns)
                  <=> Report(j.kind, ok) \in fns
    BY <2>1 DEF FramesOf
  <2>4. /\ Report(j.kind, ok) = "suspendCompleted" <=> j.kind = "suspend"
        /\ Report(j.kind, ok) \in ResumeFns <=> j.kind = "resume"
    BY <2>1 DEF Report, ResumeFns, JobKind
  <2> QED
    BY <2>2, <2>3, <2>4 DEF Suspends, SuspendEnd, Resumes, ResumeEnd
<1> QED
  BY <1>1, <1>2, Members DEF Carries, SuspendEnd, ResumeEnd

(* Every handler keeps one completion on the way while a cycle runs.       *)
LEMMA HandlerKeepsCycle ==
  ASSUME TypeOK, TypeOK', CycleInv, Live, HandlerMoves, UNCHANGED work
  PROVE  /\ Tokens(Suspends, SuspendEnd)' = One(lifecycle'.phase = "Suspending")
         /\ Tokens(Resumes, ResumeEnd)' = One(lifecycle'.phase = "Resuming")
<1> DEFINE s == Tokens(Suspends, SuspendEnd)
           sNext == Tokens(Suspends, SuspendEnd)'
           r == Tokens(Resumes, ResumeEnd)
           rNext == Tokens(Resumes, ResumeEnd)'
           Balance(fn, sNew, rNew) ==
             /\ sNext + One(fn = "suspendCompleted") = s + One(sNew)
             /\ rNext + One(fn \in ResumeFns) = r + One(rNew)
<1>1. /\ s = One(lifecycle.phase = "Suspending")
      /\ r = One(lifecycle.phase = "Resuming")
  BY DEF CycleInv
<1>2. sNext \in Nat /\ rNext \in Nat
  BY TokensTypeNext
<1>3. ASSUME NEW fn, Running(fn)
      PROVE  /\ Head(calls) \in SuspendEnd <=> fn = "suspendCompleted"
             /\ Head(calls) \in ResumeEnd <=> fn \in ResumeFns
  <2>1. calls # << >> /\ Head(calls).fn = fn /\ Head(calls) \in Frame
    BY <1>3, FramesAndJobs DEF TypeOK, Running
  <2> QED
    BY <2>1, Members DEF SuspendEnd, ResumeEnd
<1>4. \A fn : /\ Call(fn) \in SuspendEnd <=> fn = "suspendCompleted"
              /\ Call(fn) \in ResumeEnd <=> fn \in ResumeFns
  BY Members DEF SuspendEnd, ResumeEnd
<1>5. \A k \in JobKind : /\ [kind |-> k, id |-> 0] \in Job
                         /\ [kind |-> k, id |-> 0] \in Suspends <=> k = "suspend"
                         /\ [kind |-> k, id |-> 0] \in Resumes <=> k = "resume"
  BY Members DEF Suspends, Resumes
<1>6. \A j \in Suspends \cup Resumes : j.kind # "replay"
  BY DEF JobsOf, Suspends, Resumes
<1>7. {"suspend", "resume", "reconnect"} \subseteq JobKind
  BY DEF JobKind
<1>8. {"pumpQueue", "seedCycle", "suspendCompleted", "resumeValid", "resumeInvalid",
       "attemptSucceeded", "attemptFailed"} \subseteq Handler
  BY DEF Handler, Closure
<1>9. \A x : One(FALSE) = 0 /\ One(x) \in Nat
  BY DEF One
<1>10. s \in Nat /\ r \in Nat
  BY <1>1, <1>9
<1>11. ASSUME NEW fn, Moves(fn, << >>, << >>)
       PROVE  Balance(fn, FALSE, FALSE)
  <2>1. /\ sNext + One(Head(calls) \in SuspendEnd) = s
        /\ rNext + One(Head(calls) \in ResumeEnd) = r
    BY <1>11, TokensReturn
  <2> QED
    BY <1>3, <1>10, <1>11, <2>1 DEF Moves, One
<1>12. ASSUME NEW fn, NEW g \in Handler, Moves(fn, <<Call(g)>>, << >>)
       PROVE  Balance(fn, g = "suspendCompleted", g \in ResumeFns)
  <2>1. /\ sNext + One(Head(calls) \in SuspendEnd) = s + One(Call(g) \in SuspendEnd)
        /\ rNext + One(Head(calls) \in ResumeEnd) = r + One(Call(g) \in ResumeEnd)
    BY <1>12, TokensCall
  <2> QED
    BY <1>3, <1>4, <1>12, <2>1 DEF Moves
<1>13. ASSUME NEW fn, NEW k \in JobKind, Moves(fn, << >>, <<[kind |-> k, id |-> 0]>>)
       PROVE  Balance(fn, k = "suspend", k = "resume")
  <2> DEFINE j == [kind |-> k, id |-> 0]
  <2>1. j \in Job /\ (j \in Suspends <=> k = "suspend") /\ (j \in Resumes <=> k = "resume")
    BY <1>5
  <2> HIDE DEF j
  <2>2. Moves(fn, << >>, <<j>>)
    BY <1>13 DEF j
  <2>3. sNext + One(Head(calls) \in SuspendEnd) = s + One(j \in Suspends)
    BY <2>1, <2>2, TokensSubmit
  <2>4. rNext + One(Head(calls) \in ResumeEnd) = r + One(j \in Resumes)
    BY <2>1, <2>2, TokensSubmit
  <2> QED
    BY <1>3, <1>13, <2>1, <2>3, <2>4 DEF Moves
<1>14. ASSUME NEW fn, NEW g \in Handler, Moves(fn, <<Call(g)>>, Replayed(queued))
       PROVE  Balance(fn, g = "suspendCompleted", g \in ResumeFns)
  <2>1. sNext + One(Head(calls) \in SuspendEnd) = s + One(Call(g) \in SuspendEnd)
    BY <1>6, <1>14, TokensReplay
  <2>2. rNext + One(Head(calls) \in ResumeEnd) = r + One(Call(g) \in ResumeEnd)
    BY <1>6, <1>14, TokensReplay
  <2> QED
    BY <1>3, <1>4, <1>14, <2>1, <2>2 DEF Moves
<1>15. ASSUME NEW fn, Moves(fn, <<Call("pumpQueue"), Call("seedCycle")>>, << >>)
       PROVE  Balance(fn, FALSE, FALSE)
  <2>1. /\ Call("pumpQueue") \notin SuspendEnd /\ Call("seedCycle") \notin SuspendEnd
        /\ Call("pumpQueue") \notin ResumeEnd /\ Call("seedCycle") \notin ResumeEnd
    BY <1>4 DEF ResumeFns
  <2>2. /\ sNext + One(Head(calls) \in SuspendEnd) = s
        /\ rNext + One(Head(calls) \in ResumeEnd) = r
    BY <1>15, <2>1, TokensSeed
  <2> QED
    BY <1>3, <1>10, <1>15, <2>2 DEF Moves, One
<1>16. SUFFICES /\ sNext = One(lifecycle'.phase = "Suspending")
                /\ rNext = One(lifecycle'.phase = "Resuming")
  OBVIOUS
<1> HIDE DEF s, sNext, r, rNext
<1>17. ASSUME NEW fn, NEW sNew, NEW rNew, Balance(fn, sNew, rNew)
       PROVE  /\ sNext = s + One(sNew) - One(fn = "suspendCompleted")
              /\ rNext = r + One(rNew) - One(fn \in ResumeFns)
  BY <1>2, <1>9, <1>10, <1>17
<1>18. CASE RequestNoted
  <2>1. PICK fn \in Requests : Moves(fn, <<Call("pumpQueue")>>, << >>)
    BY <1>18 DEF RequestNoted
  <2>2. Balance(fn, "pumpQueue" = "suspendCompleted", "pumpQueue" \in ResumeFns)
    BY <1>8, <1>12, <2>1
  <2>3. sNext + 0 = s + 0 /\ rNext + 0 = r + 0
    BY <2>2 DEF One, Requests, ResumeFns
  <2> QED
    BY <1>1, <1>2, <1>10, <1>18, <2>3 DEF RequestNoted, PhaseKept
<1>19. CASE NothingPumped
  <2>1. Balance("pumpQueue", FALSE, FALSE)
    BY <1>11, <1>19 DEF NothingPumped
  <2>2. sNext + 0 = s + 0 /\ rNext + 0 = r + 0
    BY <2>1 DEF One, ResumeFns
  <2> QED
    BY <1>1, <1>2, <1>10, <1>19, <2>2 DEF NothingPumped, PhaseKept
<1>20. CASE SuspendStarts
  <2>1. \/ Balance("pumpQueue", "suspendCompleted" = "suspendCompleted",
                   "suspendCompleted" \in ResumeFns)
        \/ Balance("pumpQueue", "suspend" = "suspend", "suspend" = "resume")
    BY <1>7, <1>8, <1>12, <1>13, <1>20 DEF SuspendStarts
  <2>2. sNext + 0 = s + 1 /\ rNext + 0 = r + 0
    BY <2>1 DEF One, ResumeFns
  <2>3. s = 0 /\ r = 0
    BY <1>1, <1>20 DEF SuspendStarts, One
  <2> QED
    BY <1>2, <1>20, <2>2, <2>3 DEF SuspendStarts, One
<1>21. CASE ResumeStarts
  <2>1. \/ Balance("pumpQueue", "resumeInvalid" = "suspendCompleted",
                   "resumeInvalid" \in ResumeFns)
        \/ Balance("pumpQueue", "resume" = "suspend", "resume" = "resume")
    BY <1>7, <1>8, <1>12, <1>13, <1>21 DEF ResumeStarts
  <2>2. sNext + 0 = s + 0 /\ rNext + 0 = r + 1
    BY <2>1 DEF One, ResumeFns
  <2>3. s = 0 /\ r = 0
    BY <1>1, <1>21 DEF ResumeStarts, One
  <2> QED
    BY <1>2, <1>21, <2>2, <2>3 DEF ResumeStarts, One
<1>22. CASE SuspendEnds
  <2>1. Balance("suspendCompleted", "pumpQueue" = "suspendCompleted", "pumpQueue" \in ResumeFns)
    BY <1>8, <1>12, <1>22 DEF SuspendEnds
  <2>2. sNext + 1 = s + 0 /\ rNext + 0 = r + 0
    BY <2>1 DEF One, ResumeFns
  <2>3. lifecycle.phase = "Suspending" /\ s = 1 /\ r = 0
    BY <1>1, <1>2, <2>2 DEF One
  <2>4. lifecycle'.phase = "Idle"
    BY <1>22, <2>3 DEF SuspendEnds
  <2> QED
    BY <1>2, <2>2, <2>3, <2>4 DEF One
<1>23. CASE GateOpens
  <2>1. \E fn \in {"resumeWorkerValid", "resumeWorkerInvalid"} :
          \E g \in {"resumeValid", "resumeInvalid"} :
            Balance(fn, g = "suspendCompleted", g \in ResumeFns)
    <3>1. CASE Moves("resumeWorkerValid", <<Call("resumeValid")>>, Replayed(queued))
      BY <1>8, <1>14, <3>1
    <3>2. CASE Moves("resumeWorkerInvalid", <<Call("resumeInvalid")>>, << >>)
      BY <1>8, <1>12, <3>2
    <3> QED
      BY <1>23, <3>1, <3>2 DEF GateOpens
  <2>2. sNext + 0 = s + 0 /\ rNext + 1 = r + 1
    BY <2>1 DEF One, ResumeFns
  <2> QED
    BY <1>1, <1>2, <1>10, <1>23, <2>2 DEF GateOpens, PhaseKept
<1>24. CASE ResumeEnds
  <2>1. \/ Balance("resumeValid", "pumpQueue" = "suspendCompleted", "pumpQueue" \in ResumeFns)
        \/ Balance("resumeInvalid", FALSE, FALSE)
    BY <1>8, <1>12, <1>15, <1>24 DEF ResumeEnds
  <2>2. sNext + 0 = s + 0 /\ rNext + 1 = r + 0
    BY <2>1 DEF One, ResumeFns
  <2>3. lifecycle.phase = "Resuming" /\ s = 0 /\ r = 1
    BY <1>1, <1>2, <2>2 DEF One
  <2>4. lifecycle'.phase = "Idle"
    BY <1>24, <2>3 DEF ResumeEnds
  <2> QED
    BY <1>2, <2>2, <2>3, <2>4 DEF One
<1>25. CASE SafetyFires
  <2>1. Balance("safetyTimerFired", "pumpQueue" = "suspendCompleted", "pumpQueue" \in ResumeFns)
    BY <1>8, <1>12, <1>25 DEF SafetyFires
  <2>2. sNext + 0 = s + 0 /\ rNext + 0 = r + 0
    BY <2>1 DEF One, ResumeFns
  <2> QED
    BY <1>1, <1>2, <1>10, <1>25, <2>2 DEF SafetyFires
<1>26. CASE ReconnectMoves
  <2>1. PICK fn \in ReconnectHandlers :
          \/ Moves(fn, << >>, << >>)
          \/ Moves(fn, <<Call("attemptSucceeded")>>, << >>)
          \/ Moves(fn, <<Call("attemptFailed")>>, << >>)
          \/ Moves(fn, << >>, <<[kind |-> "reconnect", id |-> 0]>>)
    BY <1>26 DEF ReconnectMoves
  <2>2. \/ Balance(fn, FALSE, FALSE)
        \/ \E g \in {"attemptSucceeded", "attemptFailed"} :
             Balance(fn, g = "suspendCompleted", g \in ResumeFns)
        \/ Balance(fn, "reconnect" = "suspend", "reconnect" = "resume")
    BY <1>7, <1>8, <1>11, <1>12, <1>13, <2>1
  <2>3. sNext + 0 = s + 0 /\ rNext + 0 = r + 0
    BY <2>2 DEF One, ResumeFns, ReconnectHandlers
  <2> QED
    BY <1>1, <1>2, <1>10, <1>26, <2>3 DEF ReconnectMoves, PhaseKept
<1> QED
  BY <1>18, <1>19, <1>20, <1>21, <1>22, <1>23, <1>24, <1>25, <1>26 DEF HandlerMoves

(* The closure of a command is a call that calls and submits nothing.      *)
LEMMA ReplyMoves ==
  ASSUME TypeOK, ReplyGiven
  PROVE  Moves("reply", << >>, << >>) /\ Head(calls) \in Frame
<1>1. /\ Running("reply") /\ calls' = Tail(calls) /\ Pipeline' = Pipeline
      /\ calls # << >>
  BY DEF ReplyGiven, Running
<1>2. Head(calls) \in Frame /\ Tail(calls) \in Seq(Frame)
  BY <1>1, FramesAndJobs DEF TypeOK
<1>3. Pipeline \in Seq(Job)
  BY PipelineMoves
<1> QED
  BY <1>1, <1>2, <1>3, ConcatEmptySeq DEF Moves

(* A job that a client's command adds makes one token.                     *)
LEMMA TokensAdded ==
  ASSUME TypeOK, UNCHANGED <<work, calls>>, NEW J, NEW F, NEW j \in Job,
         Pipeline' = Pipeline \o <<j>>
  PROVE  Tokens(J, F)' = Tokens(J, F) + One(j \in J)
<1>1. /\ Pipeline \in Seq(Job) /\ Count(Pipeline, J) \in Nat
      /\ Count(work, F) \in Nat /\ Count(calls, F) \in Nat
  BY TokensType
<1>2. <<j>> \in Seq(Job)
  OBVIOUS
<1>3. Count(Pipeline \o <<j>>, J) = Count(Pipeline, J) + Count(<<j>>, J)
  BY <1>1, <1>2, CountConcat
<1>4. Count(<<j>>, J) = One(j \in J) /\ One(j \in J) \in Nat
  BY CountSmall DEF One
<1>5. Tokens(J, F)' = Count(Pipeline', J) + Count(work, F) + Count(calls, F)
  BY DEF Tokens
<1>6. Tokens(J, F)' = (Count(Pipeline, J) + One(j \in J)) + Count(work, F) + Count(calls, F)
  BY <1>3, <1>4, <1>5
<1> QED
  BY <1>1, <1>4, <1>6 DEF Tokens

(* Every step of the daemon keeps one completion on the way.               *)
LEMMA NextKeepsCycle ==
  ASSUME TypeOK, TypeOK', HandlersEnd, CycleInv, [Next]_vars
  PROVE  CycleInv'
<1> SUFFICES ASSUME Live'
             PROVE  /\ Tokens(Suspends, SuspendEnd)' = One(lifecycle'.phase = "Suspending")
                    /\ Tokens(Resumes, ResumeEnd)' = One(lifecycle'.phase = "Resuming")
  BY DEF CycleInv
<1>1. Live
  BY LoopEndsOnce
<1>2. CASE SupervisorStep
  BY <1>1, <1>2, SupervisorMoves, HandlerKeepsCycle
<1>3. CASE ~SupervisorStep
  <2>1. /\ Tokens(Suspends, SuspendEnd) = One(lifecycle.phase = "Suspending")
        /\ Tokens(Resumes, ResumeEnd) = One(lifecycle.phase = "Resuming")
        /\ UNCHANGED lifecycle
    BY <1>1, <1>3, OtherMoves DEF CycleInv
  <2> SUFFICES /\ Tokens(Suspends, SuspendEnd)' = Tokens(Suspends, SuspendEnd)
               /\ Tokens(Resumes, ResumeEnd)' = Tokens(Resumes, ResumeEnd)
    BY <2>1
  <2>2. CASE QuietStep \/ ClosureStarts \/ EventPosted \/ CallStarts \/ JobEnds
    BY <2>2, CompletionsCarried, TokensKept
  <2>3. CASE CommandSubmitted
    <3>1. PICK kind \in {"command", "restart"} :
            Pipeline' = Pipeline \o <<[kind |-> kind, id |-> CommandId]>>
      BY <2>3 DEF CommandSubmitted
    <3> DEFINE j == [kind |-> kind, id |-> CommandId]
    <3>2. j \in Job /\ j \notin Suspends /\ j \notin Resumes
      BY CommandIdType DEF Job, JobKind, JobsOf, Suspends, Resumes
    <3> HIDE DEF j
    <3>3. Pipeline' = Pipeline \o <<j>> /\ UNCHANGED <<work, calls>>
      BY <2>3, <3>1 DEF CommandSubmitted, j
    <3>4. /\ Tokens(Suspends, SuspendEnd)' = Tokens(Suspends, SuspendEnd) + One(j \in Suspends)
          /\ Tokens(Resumes, ResumeEnd)' = Tokens(Resumes, ResumeEnd) + One(j \in Resumes)
      BY <3>2, <3>3, TokensAdded
    <3>5. Tokens(Suspends, SuspendEnd) \in Nat /\ Tokens(Resumes, ResumeEnd) \in Nat
      BY TokensType
    <3> QED
      BY <3>2, <3>4, <3>5 DEF One
  <2>4. CASE ReplyGiven
    <3>1. Moves("reply", << >>, << >>) /\ UNCHANGED work /\ Head(calls) \in Frame
      BY <2>4, ReplyMoves DEF ReplyGiven
    <3>2. Head(calls) \notin SuspendEnd /\ Head(calls) \notin ResumeEnd
      BY <3>1, Members DEF Moves, Running, SuspendEnd, ResumeEnd, ResumeFns
    <3>3. /\ Tokens(Suspends, SuspendEnd)' + One(Head(calls) \in SuspendEnd)
               = Tokens(Suspends, SuspendEnd)
          /\ Tokens(Resumes, ResumeEnd)' + One(Head(calls) \in ResumeEnd)
               = Tokens(Resumes, ResumeEnd)
      BY <3>1, TokensReturn
    <3>4. Tokens(Suspends, SuspendEnd)' \in Nat /\ Tokens(Resumes, ResumeEnd)' \in Nat
      BY TokensTypeNext
    <3> QED
      BY <3>2, <3>3, <3>4 DEF One
  <2>5. CASE WorkerEnds
    BY <1>1, <2>5 DEF WorkerEnds
  <2> QED
    BY <1>3, <2>2, <2>3, <2>4, <2>5, OtherMoves
<1> QED
  BY <1>2, <1>3

(* At the start nothing is under way.                                      *)
LEMMA InitEmpty ==
  ASSUME Init
  PROVE  /\ Pipeline = << >> /\ work = << >> /\ calls = << >>
         /\ \A S : ~Occurs(<< >>, S)
         /\ \A J, F : Tokens(J, F) = 0
<1>1. Pipeline = << >>
  <2>1. Pipeline = << >> \o << >>
    BY DEF Init, WorkerInit, Pipeline
  <2> QED
    BY <2>1, EmptySeq, ConcatEmptySeq
<1>2. work = << >> /\ calls = << >>
  BY DEF Init, LoopInit
<1>3. DOMAIN << >> = {}
  OBVIOUS
<1>4. \A S : Count(<< >>, S) = 0 /\ ~Occurs(<< >>, S)
  BY <1>3, CountSmall DEF Occurs
<1> QED
  BY <1>1, <1>2, <1>4 DEF Tokens

(* The types, and one completion on the way, always.                       *)
LEMMA CycleHolds == Spec => [](TypeOK /\ HandlersEnd /\ CycleInv)
<1>1. Init => HandlersEnd /\ CycleInv
  <2> SUFFICES ASSUME Init PROVE HandlersEnd /\ CycleInv
    OBVIOUS
  <2>1. HandlersEnd
    BY InitEmpty DEF HandlersEnd
  <2>2. Tokens(Suspends, SuspendEnd) = 0 /\ Tokens(Resumes, ResumeEnd) = 0
    BY InitEmpty
  <2>3. lifecycle.phase = "Idle"
    BY DEF Init, SupervisorInit, PowerLifecycleInit
  <2> QED
    BY <2>1, <2>2, <2>3 DEF CycleInv, One
<1>2. TypeOK /\ HandlersEnd /\ CycleInv /\ [Next]_vars => HandlersEnd' /\ CycleInv'
  BY NextKeepsTypes, LoopEndsOnce, NextKeepsCycle
<1> QED
  BY <1>1, <1>2, TypeCorrect, PTL DEF Spec

(* OneCompletionPerCycle counts the same jobs, closures and calls.         *)
LEMMA CycleMeaning ==
  ASSUME TypeOK, CycleInv
  PROVE  OneCompletionPerCycle
<1>1. work \in Seq(Frame) /\ calls \in Seq(Frame) /\ Pipeline \in Seq(Job)
  BY TokensType
<1>2. \A i \in DOMAIN Pipeline : Pipeline[i] \in Job
  BY <1>1, ElementOfSeq, LenProperties
<1>3. \A i \in DOMAIN work : work[i] \in Frame
  BY <1>1, ElementOfSeq, LenProperties
<1>4. \A i \in DOMAIN calls : calls[i] \in Frame
  BY <1>1, ElementOfSeq, LenProperties
<1>5. ASSUME NEW kind PROVE CountJobs(kind) = Count(Pipeline, JobsOf(kind))
  <2>1. {i \in DOMAIN Pipeline : Pipeline[i].kind = kind}
          = {i \in DOMAIN Pipeline : Pipeline[i] \in JobsOf(kind)}
    BY <1>2, Members
  <2> QED
    BY <2>1 DEF CountJobs, Count
<1>6. ASSUME NEW fns PROVE CountCalls(fns) = Count(work, FramesOf(fns)) + Count(calls, FramesOf(fns))
  <2>1. {i \in DOMAIN work : work[i].fn \in fns}
          = {i \in DOMAIN work : work[i] \in FramesOf(fns)}
    BY <1>3, Members
  <2>2. {i \in DOMAIN calls : calls[i].fn \in fns}
          = {i \in DOMAIN calls : calls[i] \in FramesOf(fns)}
    BY <1>4, Members
  <2> QED
    BY <2>1, <2>2 DEF CountCalls, Count
<1>7. ASSUME NEW kind, NEW fns
      PROVE  CountJobs(kind) + CountCalls(fns) = Tokens(JobsOf(kind), FramesOf(fns))
  <2>1. /\ Count(Pipeline, JobsOf(kind)) \in Nat /\ Count(work, FramesOf(fns)) \in Nat
        /\ Count(calls, FramesOf(fns)) \in Nat
    BY TokensType
  <2> QED
    BY <1>5, <1>6, <2>1 DEF Tokens
<1>8. CountJobs("suspend") + CountCalls({"suspendCompleted"}) = Tokens(Suspends, SuspendEnd)
  BY <1>7 DEF Suspends, SuspendEnd
<1>9. CountJobs("resume") + CountCalls(ResumeFns) = Tokens(Resumes, ResumeEnd)
  BY <1>7 DEF Resumes, ResumeEnd
<1> QED
  BY <1>8, <1>9 DEF OneCompletionPerCycle, CycleInv, One, ResumeFns

(* A suspend or resume that has begun has exactly one completion on its    *)
(* way, as a job of the worker, a posted closure or a call, and there is   *)
(* none otherwise: no order of requests, early returns, safety timer,      *)
(* losses and commands loses a completion, which would block every later   *)
(* suspend and resume, or makes a second one.                              *)
THEOREM CyclesEndOnce == Spec => []OneCompletionPerCycle
<1>1. TypeOK /\ HandlersEnd /\ CycleInv => OneCompletionPerCycle
  BY CycleMeaning
<1> QED
  BY <1>1, CycleHolds, PTL

-----------------------------------------------------------------------------
(* Where a job or a call can come from. *)

(* A part of a queue is found in the queue, and nothing else.              *)
LEMMA OccursJoin ==
  ASSUME NEW T, NEW s \in Seq(T), NEW t \in Seq(T), NEW S
  PROVE  Occurs(s \o t, S) <=> Occurs(s, S) \/ Occurs(t, S)
<1>1. s \o t \in Seq(T)
  BY ConcatProperties
<1>2. Count(s \o t, S) = Count(s, S) + Count(t, S)
  BY CountConcat
<1>3. /\ Count(s, S) \in Nat /\ Count(t, S) \in Nat
      /\ Count(s, S) = 0 <=> ~Occurs(s, S)
      /\ Count(t, S) = 0 <=> ~Occurs(t, S)
      /\ Count(s \o t, S) = 0 <=> ~Occurs(s \o t, S)
  BY <1>1, CountFinite
<1> QED
  BY <1>2, <1>3

(* In a sequence of at most one element.                                   *)
LEMMA OccursSmall ==
  ASSUME NEW e, NEW S
  PROVE  /\ ~Occurs(<< >>, S)
         /\ Occurs(<<e>>, S) <=> e \in S
<1>1. DOMAIN << >> = {} /\ DOMAIN <<e>> = {1} /\ <<e>>[1] = e
  OBVIOUS
<1> QED
  BY <1>1 DEF Occurs

(* At the head or in the rest.                                             *)
LEMMA OccursHead ==
  ASSUME NEW T, NEW s \in Seq(T), s # << >>, NEW S
  PROVE  Occurs(s, S) <=> Head(s) \in S \/ Occurs(Tail(s), S)
<1>1. Head(s) \in T /\ Tail(s) \in Seq(T) /\ s = <<Head(s)>> \o Tail(s)
  BY HeadTailProperties
<1>2. <<Head(s)>> \in Seq(T)
  BY <1>1
<1>3. Occurs(<<Head(s)>> \o Tail(s), S) <=> Occurs(<<Head(s)>>, S) \/ Occurs(Tail(s), S)
  BY <1>1, <1>2, OccursJoin
<1>4. Occurs(<<Head(s)>>, S) <=> Head(s) \in S
  BY OccursSmall
<1> QED
  BY <1>1, <1>3, <1>4, Zenon

(* The call that a handler makes, and when.                                *)
CallMade(F) ==
  \/ Call("pumpQueue") \in F \/ Call("seedCycle") \in F
  \/ SuspendStarts /\ suspended /\ Call("suspendCompleted") \in F
  \/ ResumeStarts /\ ~suspended /\ Call("resumeInvalid") \in F
  \/ GateOpens /\ (Call("resumeValid") \in F \/ Call("resumeInvalid") \in F)
  \/ ReconnectMoves /\ (Call("attemptSucceeded") \in F \/ Call("attemptFailed") \in F)

(* The job that a handler submits, and when.                               *)
JobSubmitted(J) ==
  \/ SuspendStarts /\ ~suspended /\ [kind |-> "suspend", id |-> 0] \in J
  \/ ResumeStarts /\ suspended /\ [kind |-> "resume", id |-> 0] \in J
  \/ ReconnectMoves /\ ~suspended /\ [kind |-> "reconnect", id |-> 0] \in J
  \/ GateOpens /\ Occurs(Replayed(queued), J)

(* What the worker has to do after a handler, and what is left of the      *)
(* handler.                                                                *)
LEMMA HandlerOccurs ==
  ASSUME TypeOK, HandlerMoves, NEW J, NEW F
  PROVE  /\ calls # << >> /\ calls \in Seq(Frame)
         /\ Occurs(Pipeline, J) => Occurs(Pipeline', J)
         /\ Occurs(Tail(calls), F) => Occurs(calls', F) /\ Occurs(calls, F)
         /\ Head(calls) \in F => Occurs(calls, F)
         /\ Occurs(Pipeline', J) => Occurs(Pipeline, J) \/ JobSubmitted(J)
         /\ Occurs(calls', F) => Occurs(Tail(calls), F) \/ CallMade(F)
<1> DEFINE From(made, submitted) ==
             /\ calls # << >> /\ calls \in Seq(Frame)
             /\ Occurs(Pipeline, J) => Occurs(Pipeline', J)
             /\ Occurs(Tail(calls), F) => Occurs(calls', F) /\ Occurs(calls, F)
             /\ Head(calls) \in F => Occurs(calls, F)
             /\ Occurs(Pipeline', J) => Occurs(Pipeline, J) \/ submitted
             /\ Occurs(calls', F) => Occurs(Tail(calls), F) \/ made
<1>1. calls \in Seq(Frame) /\ Pipeline \in Seq(Job)
  BY TokensType
<1>2. ASSUME NEW fn, NEW ins \in Seq(Frame), NEW add \in Seq(Job), Moves(fn, ins, add)
      PROVE  From(Occurs(ins, F), Occurs(add, J))
  <2>1. calls # << >> /\ calls' = ins \o Tail(calls) /\ Pipeline' = Pipeline \o add
    BY <1>2 DEF Moves, Running
  <2>2. Tail(calls) \in Seq(Frame)
    BY <1>1, <2>1, HeadTailProperties
  <2>3. Occurs(calls', F) <=> Occurs(ins, F) \/ Occurs(Tail(calls), F)
    BY <2>1, <2>2, OccursJoin
  <2>4. Occurs(Pipeline', J) <=> Occurs(Pipeline, J) \/ Occurs(add, J)
    BY <1>1, <2>1, OccursJoin
  <2>5. Occurs(calls, F) <=> Head(calls) \in F \/ Occurs(Tail(calls), F)
    BY <1>1, <2>1, OccursHead
  <2> QED
    BY <1>1, <2>1, <2>3, <2>4, <2>5
<1>3. << >> \in Seq(Frame) /\ << >> \in Seq(Job) /\ ~Occurs(<< >>, F) /\ ~Occurs(<< >>, J)
  BY EmptySeq, OccursSmall
<1>4. {"pumpQueue", "seedCycle", "suspendCompleted", "resumeValid", "resumeInvalid",
       "attemptSucceeded", "attemptFailed"} \subseteq Handler
  BY DEF Handler, Closure
<1>5. \A g \in Handler : Call(g) \in Frame
  BY DEF Call, Frame
<1>6. \A e \in Frame : <<e>> \in Seq(Frame) /\ (Occurs(<<e>>, F) <=> e \in F)
  BY OccursSmall
<1>7. \A e \in Job : <<e>> \in Seq(Job) /\ (Occurs(<<e>>, J) <=> e \in J)
  BY OccursSmall
<1>8. {"suspend", "resume", "reconnect"} \subseteq JobKind
  BY DEF JobKind
<1> HIDE DEF From
<1>9. ASSUME NEW fn, Moves(fn, << >>, << >>)
      PROVE  From(FALSE, FALSE)
  BY <1>2, <1>3, <1>9 DEF From
<1>10. ASSUME NEW fn, NEW g \in Handler, Moves(fn, <<Call(g)>>, << >>)
       PROVE  From(Call(g) \in F, FALSE)
  <2>1. <<Call(g)>> \in Seq(Frame) /\ (Occurs(<<Call(g)>>, F) <=> Call(g) \in F)
    BY <1>5, <1>6
  <2> QED
    BY <1>2, <1>3, <1>10, <2>1 DEF From
<1>11. ASSUME NEW fn, NEW k \in JobKind, Moves(fn, << >>, <<[kind |-> k, id |-> 0]>>)
       PROVE  From(FALSE, [kind |-> k, id |-> 0] \in J)
  <2> DEFINE j == [kind |-> k, id |-> 0]
  <2>1. j \in Job /\ Moves(fn, << >>, <<j>>)
    BY <1>11, Members
  <2> HIDE DEF j
  <2>2. <<j>> \in Seq(Job) /\ (Occurs(<<j>>, J) <=> j \in J)
    BY <1>7, <2>1
  <2>3. From(FALSE, j \in J)
    BY <1>2, <1>3, <2>1, <2>2 DEF From
  <2> QED
    BY <2>3 DEF j
<1>12. ASSUME NEW fn, NEW g \in Handler, Moves(fn, <<Call(g)>>, Replayed(queued))
       PROVE  From(Call(g) \in F, Occurs(Replayed(queued), J))
  <2>1. <<Call(g)>> \in Seq(Frame) /\ (Occurs(<<Call(g)>>, F) <=> Call(g) \in F)
    BY <1>5, <1>6
  <2>2. Replayed(queued) \in Seq(Job)
    BY ReplayedAreJobs DEF Replayed, TypeOK, SupervisorTypeOK
  <2> QED
    BY <1>2, <1>12, <2>1, <2>2 DEF From
<1>13. ASSUME NEW fn, Moves(fn, <<Call("pumpQueue"), Call("seedCycle")>>, << >>)
       PROVE  From(Call("pumpQueue") \in F \/ Call("seedCycle") \in F, FALSE)
  <2> DEFINE c == <<Call("pumpQueue"), Call("seedCycle")>>
  <2>1. c \in Seq(Frame)
    BY <1>4, <1>5
  <2>2. Occurs(c, F) => Call("pumpQueue") \in F \/ Call("seedCycle") \in F
    BY DEF Occurs
  <2>3. Moves(fn, c, << >>)
    BY <1>13
  <2> HIDE DEF c
  <2> QED
    BY <1>2, <1>3, <2>1, <2>2, <2>3 DEF From
<1> SUFFICES From(CallMade(F), JobSubmitted(J))
  BY DEF From
<1>14. CASE RequestNoted \/ NothingPumped \/ SuspendEnds \/ ResumeEnds \/ SafetyFires
  <2>1. \/ From(FALSE, FALSE)
        \/ From(Call("pumpQueue") \in F, FALSE)
        \/ From(Call("pumpQueue") \in F \/ Call("seedCycle") \in F, FALSE)
    BY <1>4, <1>9, <1>10, <1>13, <1>14
       DEF RequestNoted, NothingPumped, SuspendEnds, ResumeEnds, SafetyFires
  <2> QED
    BY <2>1 DEF From, CallMade
<1>15. CASE SuspendStarts
  <2>1. \/ suspended /\ From(Call("suspendCompleted") \in F, FALSE)
        \/ ~suspended /\ From(FALSE, [kind |-> "suspend", id |-> 0] \in J)
    BY <1>4, <1>8, <1>10, <1>11, <1>15 DEF SuspendStarts
  <2> QED
    BY <1>15, <2>1 DEF From, CallMade, JobSubmitted
<1>16. CASE ResumeStarts
  <2>1. \/ ~suspended /\ From(Call("resumeInvalid") \in F, FALSE)
        \/ suspended /\ From(FALSE, [kind |-> "resume", id |-> 0] \in J)
    BY <1>4, <1>8, <1>10, <1>11, <1>16 DEF ResumeStarts
  <2> QED
    BY <1>16, <2>1 DEF From, CallMade, JobSubmitted
<1>17. CASE GateOpens
  <2>1. \/ From(Call("resumeValid") \in F, Occurs(Replayed(queued), J))
        \/ From(Call("resumeInvalid") \in F, FALSE)
    BY <1>4, <1>10, <1>12, <1>17 DEF GateOpens
  <2> QED
    BY <1>17, <2>1 DEF From, CallMade, JobSubmitted
<1>18. CASE ReconnectMoves
  <2>1. \/ From(FALSE, FALSE)
        \/ From(Call("attemptSucceeded") \in F, FALSE)
        \/ From(Call("attemptFailed") \in F, FALSE)
        \/ ~suspended /\ From(FALSE, [kind |-> "reconnect", id |-> 0] \in J)
    BY <1>4, <1>8, <1>9, <1>10, <1>11, <1>18 DEF ReconnectMoves
  <2> QED
    BY <1>18, <2>1 DEF From, CallMade, JobSubmitted
<1> QED
  BY <1>14, <1>15, <1>16, <1>17, <1>18 DEF HandlerMoves

(* What a step outside the supervisor can add.                             *)
LEMMA OtherOccurs ==
  ASSUME TypeOK, [Next]_vars, ~SupervisorStep, NEW J, NEW F
  PROVE  /\ Occurs(Pipeline', J) =>
              \/ Occurs(Pipeline, J)
              \/ /\ CommandSubmitted
                 /\ \E kind \in {"command", "restart"} : [kind |-> kind, id |-> CommandId] \in J
         /\ Occurs(calls', F) =>
              \/ Occurs(calls, F)
              \/ ClosureStarts /\ Head(work) \in F /\ Head(work) \in [fn : Closure, id : Nat]
              \/ \E fn \in Starts : Call(fn) \in F
<1>1. calls \in Seq(Frame) /\ Pipeline \in Seq(Job) /\ ~Occurs(<< >>, J)
  BY TokensType, OccursSmall
<1>2. CASE QuietStep
  BY <1>2 DEF QuietStep
<1>3. CASE ClosureStarts
  <2>1. Occurs(calls', F) => Head(work) \in F
    BY <1>3, OccursSmall DEF ClosureStarts
  <2>2. Head(work) \in [fn : Closure, id : Nat]
    BY <1>3, HeadTailProperties DEF ClosureStarts, TypeOK, LoopTypeOK
  <2> QED
    BY <1>3, <2>1, <2>2 DEF ClosureStarts
<1>4. CASE EventPosted
  BY <1>4 DEF EventPosted
<1>5. CASE CallStarts
  <2>1. PICK fn \in Starts : calls' = <<Call(fn)>>
    BY <1>5 DEF CallStarts
  <2>2. Occurs(calls', F) => Call(fn) \in F
    BY <2>1, OccursSmall
  <2> QED
    BY <1>5, <2>2 DEF CallStarts
<1>6. CASE JobEnds
  <2>1. <<job>> \in Seq(Job) /\ jobs \in Seq(Job) /\ Pipeline = <<job>> \o jobs
        /\ Pipeline' = jobs /\ UNCHANGED calls
    BY <1>6 DEF JobEnds, TypeOK, WorkerTypeOK
  <2>2. Occurs(<<job>> \o jobs, J) <=> Occurs(<<job>>, J) \/ Occurs(jobs, J)
    BY <2>1, OccursJoin
  <2> QED
    BY <2>1, <2>2
<1>7. CASE CommandSubmitted
  <2>1. PICK kind \in {"command", "restart"} :
          Pipeline' = Pipeline \o <<[kind |-> kind, id |-> CommandId]>>
    BY <1>7 DEF CommandSubmitted
  <2> DEFINE j == [kind |-> kind, id |-> CommandId]
  <2>2. j \in Job
    BY CommandIdType DEF Job, JobKind
  <2> HIDE DEF j
  <2>3. Pipeline' = Pipeline \o <<j>> /\ <<j>> \in Seq(Job)
    BY <2>1, <2>2 DEF j
  <2>4. Occurs(Pipeline', J) <=> Occurs(Pipeline, J) \/ Occurs(<<j>>, J)
    BY <1>1, <2>3, OccursJoin
  <2>5. Occurs(<<j>>, J) <=> j \in J
    BY OccursSmall
  <2> QED
    BY <1>7, <2>4, <2>5 DEF CommandSubmitted, j
<1>8. CASE ReplyGiven
  <2>1. Occurs(calls, F) <=> Head(calls) \in F \/ Occurs(Tail(calls), F)
    BY <1>1, <1>8, OccursHead DEF ReplyGiven, Running
  <2> QED
    BY <1>8, <2>1 DEF ReplyGiven
<1>9. CASE WorkerEnds
  BY <1>1, <1>9 DEF WorkerEnds
<1> QED
  BY <1>2, <1>3, <1>4, <1>5, <1>6, <1>7, <1>8, <1>9, OtherMoves

(* The one completion is in one place, and in none when no cycle runs.     *)
LEMMA CycleParts ==
  ASSUME TypeOK, CycleInv, Live
  PROVE  /\ lifecycle.phase # "Suspending" =>
              ~Occurs(Pipeline, Suspends) /\ ~Occurs(work, SuspendEnd) /\ ~Occurs(calls, SuspendEnd)
         /\ lifecycle.phase # "Resuming" =>
              ~Occurs(Pipeline, Resumes) /\ ~Occurs(work, ResumeEnd) /\ ~Occurs(calls, ResumeEnd)
         /\ Occurs(calls, SuspendEnd) => ~Occurs(Pipeline, Suspends)
         /\ Occurs(calls, ResumeEnd) => ~Occurs(Pipeline, Resumes)
<1>1. ASSUME NEW J, NEW F, Tokens(J, F) \in {0, 1}
      PROVE  /\ Tokens(J, F) = 0 => ~Occurs(Pipeline, J) /\ ~Occurs(work, F) /\ ~Occurs(calls, F)
             /\ Occurs(calls, F) => ~Occurs(Pipeline, J)
  <2>1. /\ work \in Seq(Frame) /\ calls \in Seq(Frame) /\ Pipeline \in Seq(Job)
        /\ Count(Pipeline, J) \in Nat /\ Count(work, F) \in Nat /\ Count(calls, F) \in Nat
    BY TokensType
  <2>2. /\ Count(Pipeline, J) = 0 <=> ~Occurs(Pipeline, J)
        /\ Count(work, F) = 0 <=> ~Occurs(work, F)
        /\ Count(calls, F) = 0 <=> ~Occurs(calls, F)
    BY <2>1, CountFinite
  <2>3. Count(Pipeline, J) + Count(work, F) + Count(calls, F) \in {0, 1}
    BY <1>1 DEF Tokens
  <2>4. /\ Tokens(J, F) = 0 => Count(Pipeline, J) = 0 /\ Count(work, F) = 0 /\ Count(calls, F) = 0
        /\ Count(calls, F) # 0 => Count(Pipeline, J) = 0
    BY <2>1, <2>3 DEF Tokens
  <2> QED
    BY <2>2, <2>4
<1>2. /\ Tokens(Suspends, SuspendEnd) = One(lifecycle.phase = "Suspending")
      /\ Tokens(Resumes, ResumeEnd) = One(lifecycle.phase = "Resuming")
  BY DEF CycleInv
<1>3. /\ Tokens(Suspends, SuspendEnd) \in {0, 1} /\ Tokens(Resumes, ResumeEnd) \in {0, 1}
      /\ lifecycle.phase # "Suspending" => Tokens(Suspends, SuspendEnd) = 0
      /\ lifecycle.phase # "Resuming" => Tokens(Resumes, ResumeEnd) = 0
  BY <1>2 DEF One
<1> QED
  BY <1>1, <1>3

-----------------------------------------------------------------------------
(* Between the job that closes the adapter and the one that reopens it. *)

OpenEnd == FramesOf({"resumeValid", "resumeInvalid"})

(* A handler shuts and opens the gate in time.                             *)
LEMMA HandlerKeepsGate ==
  ASSUME TypeOK, CycleInv, GateInv, Live, HandlerMoves
  PROVE  /\ Occurs(Pipeline', Suspends) => suspended'
         /\ lifecycle'.phase = "Suspending" => suspended'
         /\ Occurs(calls', OpenEnd) => ~suspended'
<1>1. /\ Occurs(Pipeline, Suspends) => suspended
      /\ lifecycle.phase = "Suspending" => suspended
      /\ Occurs(calls, OpenEnd) => ~suspended
  BY DEF GateInv, OpenEnd
<1>2. /\ Occurs(Pipeline', Suspends) => Occurs(Pipeline, Suspends) \/ JobSubmitted(Suspends)
      /\ Occurs(calls', OpenEnd) => Occurs(Tail(calls), OpenEnd) \/ CallMade(OpenEnd)
      /\ Occurs(Tail(calls), OpenEnd) => Occurs(calls, OpenEnd)
  BY HandlerOccurs
<1>3. JobSubmitted(Suspends) => SuspendStarts
  <2>1. ~Occurs(Replayed(queued), Suspends)
    BY DEF Occurs, Replayed, Suspends, JobsOf
  <2> QED
    BY <2>1 DEF JobSubmitted, Suspends, JobsOf
<1>4. CallMade(OpenEnd) => GateOpens \/ (ResumeStarts /\ ~suspended)
  BY Members DEF CallMade, OpenEnd
<1>5. Occurs(calls, OpenEnd) => Occurs(calls, ResumeEnd)
  BY DEF Occurs, OpenEnd, ResumeEnd, FramesOf, ResumeFns
<1>6. CASE SuspendStarts
  <2>1. suspended' /\ lifecycle.phase = "Idle"
    BY <1>6 DEF SuspendStarts
  <2>2. ~Occurs(calls, OpenEnd)
    BY <1>5, <2>1, CycleParts
  <2>3. ~GateOpens /\ ~ResumeStarts
    BY <1>6 DEF SuspendStarts, GateOpens, PhaseKept, ResumeStarts
  <2> QED
    BY <1>2, <1>4, <2>1, <2>2, <2>3
<1>7. CASE GateOpens
  <2>1. PICK fn \in ResumeFns : Running(fn)
    BY <1>7 DEF GateOpens, Moves, ResumeFns
  <2>2. Head(calls) \in Frame /\ Head(calls).fn = fn
    BY <2>1, FramesAndJobs DEF TypeOK, Running
  <2>3. Head(calls) \in ResumeEnd
    BY <2>2, Members DEF ResumeEnd
  <2>4. Occurs(calls, ResumeEnd)
    BY <2>3, HandlerOccurs
  <2>5. lifecycle.phase = "Resuming"
    BY <2>4, CycleParts
  <2>6. ~Occurs(Pipeline, Suspends)
    BY <2>5, CycleParts
  <2>7. ~SuspendStarts
    BY <2>5 DEF SuspendStarts
  <2> QED
    BY <1>2, <1>3, <1>7, <2>5, <2>6, <2>7 DEF GateOpens, PhaseKept
<1>8. CASE ~SuspendStarts /\ ~GateOpens
  <2>1. UNCHANGED suspended
    BY <1>8 DEF HandlerMoves, RequestNoted, NothingPumped, ResumeStarts, SuspendEnds,
                ResumeEnds, SafetyFires, ReconnectMoves, GateKept
  <2>2. lifecycle'.phase = "Suspending" => lifecycle.phase = "Suspending"
    BY <1>8 DEF HandlerMoves, RequestNoted, NothingPumped, ResumeStarts, SuspendEnds,
                ResumeEnds, SafetyFires, ReconnectMoves, PhaseKept
  <2> QED
    BY <1>1, <1>2, <1>3, <1>4, <1>8, <2>1, <2>2
<1> QED
  BY <1>6, <1>7, <1>8

(* Every step keeps the gate.                                              *)
LEMMA NextKeepsGate ==
  ASSUME TypeOK, HandlersEnd, CycleInv, GateInv, [Next]_vars
  PROVE  GateInv'
<1> SUFFICES ASSUME Live'
             PROVE  /\ Occurs(Pipeline', Suspends) => suspended'
                    /\ lifecycle'.phase = "Suspending" => suspended'
                    /\ Occurs(calls', OpenEnd) => ~suspended'
  BY DEF GateInv, OpenEnd
<1>1. Live
  BY LoopEndsOnce
<1>2. CASE SupervisorStep
  BY <1>1, <1>2, SupervisorMoves, HandlerKeepsGate
<1>3. CASE ~SupervisorStep
  <2>1. UNCHANGED <<suspended, lifecycle>>
    BY <1>3, OtherMoves
  <2>2. Occurs(Pipeline', Suspends) => Occurs(Pipeline, Suspends)
    <3>1. \A kind \in {"command", "restart"} : [kind |-> kind, id |-> CommandId] \notin Suspends
      BY DEF Suspends, JobsOf
    <3> QED
      BY <1>3, <3>1, OtherOccurs
  <2>3. Occurs(calls', OpenEnd) => Occurs(calls, OpenEnd)
    <3>1. \A f \in [fn : Closure, id : Nat] : f \notin OpenEnd
      BY DEF OpenEnd, FramesOf, Closure
    <3>2. \A fn \in Starts : Call(fn) \notin OpenEnd
      BY Members DEF OpenEnd, Starts
    <3> QED
      BY <1>3, <3>1, <3>2, OtherOccurs
  <2> QED
    BY <1>1, <2>1, <2>2, <2>3 DEF GateInv, OpenEnd
<1> QED
  BY <1>2, <1>3

(* The invariants up to GateInv hold in every state that can be reached.   *)
LEMMA GateHolds == Spec => [](TypeOK /\ HandlersEnd /\ CycleInv /\ GateInv)
<1>1. Init => GateInv
  <2> SUFFICES ASSUME Init PROVE GateInv
    OBVIOUS
  <2>1. lifecycle.phase = "Idle"
    BY DEF Init, SupervisorInit, PowerLifecycleInit
  <2> QED
    BY <2>1, InitEmpty DEF GateInv
<1>2. TypeOK /\ HandlersEnd /\ CycleInv /\ GateInv /\ [Next]_vars => GateInv'
  BY NextKeepsGate
<1> QED
  BY <1>1, <1>2, CycleHolds, PTL DEF Spec

(* The job that a handler gives to the worker.                             *)
LEMMA HandlerPipeline ==
  ASSUME TypeOK, HandlerMoves
  PROVE  /\ Pipeline \in Seq(Job) /\ calls # << >>
         /\ \E add \in Seq(Job) :
              /\ Pipeline' = Pipeline \o add
              /\ \/ add = << >>
                 \/ SuspendStarts /\ add = <<[kind |-> "suspend", id |-> 0]>>
                 \/ ResumeStarts /\ add = <<[kind |-> "resume", id |-> 0]>>
                 \/ ReconnectMoves /\ ~suspended /\ add = <<[kind |-> "reconnect", id |-> 0]>>
                 \/ GateOpens /\ add = Replayed(queued)
<1>1. Pipeline \in Seq(Job) /\ calls # << >>
  BY TokensType, HandlerOccurs
<1>2. \A k \in JobKind : <<[kind |-> k, id |-> 0]>> \in Seq(Job)
  <2>1. \A j \in Job : <<j>> \in Seq(Job)
    OBVIOUS
  <2>2. \A k \in JobKind : [kind |-> k, id |-> 0] \in Job
    BY DEF Job
  <2> QED
    BY <2>1, <2>2, Zenon
<1>3. << >> \in Seq(Job) /\ {"suspend", "resume", "reconnect"} \subseteq JobKind
  BY EmptySeq DEF JobKind
<1>4. Replayed(queued) \in Seq(Job)
  BY ReplayedAreJobs DEF Replayed, TypeOK, SupervisorTypeOK
<1>5. CASE RequestNoted \/ NothingPumped \/ SuspendEnds \/ ResumeEnds \/ SafetyFires
  <2>1. Pipeline' = Pipeline \o << >>
    BY <1>5 DEF RequestNoted, NothingPumped, SuspendEnds, ResumeEnds, SafetyFires, Moves
  <2> QED
    BY <1>1, <1>3, <2>1
<1>6. CASE SuspendStarts
  <2>1. \/ Pipeline' = Pipeline \o << >>
        \/ Pipeline' = Pipeline \o <<[kind |-> "suspend", id |-> 0]>>
    BY <1>6 DEF SuspendStarts, Moves
  <2> QED
    BY <1>1, <1>2, <1>3, <1>6, <2>1
<1>7. CASE ResumeStarts
  <2>1. \/ Pipeline' = Pipeline \o << >>
        \/ Pipeline' = Pipeline \o <<[kind |-> "resume", id |-> 0]>>
    BY <1>7 DEF ResumeStarts, Moves
  <2> QED
    BY <1>1, <1>2, <1>3, <1>7, <2>1
<1>8. CASE ReconnectMoves
  <2>1. \/ Pipeline' = Pipeline \o << >>
        \/ ~suspended /\ Pipeline' = Pipeline \o <<[kind |-> "reconnect", id |-> 0]>>
    BY <1>8 DEF ReconnectMoves, Moves
  <2> QED
    BY <1>1, <1>2, <1>3, <1>8, <2>1
<1>9. CASE GateOpens
  <2>1. \/ Pipeline' = Pipeline \o << >>
        \/ Pipeline' = Pipeline \o Replayed(queued)
    BY <1>9 DEF GateOpens, Moves
  <2> QED
    BY <1>1, <1>3, <1>4, <1>9, <2>1
<1> QED
  BY <1>5, <1>6, <1>7, <1>8, <1>9 DEF HandlerMoves

(* NothingBetweenCloseAndReopen of a sequence of jobs.                     *)
Undisturbed(s) == \A i, j \in DOMAIN s : i < j /\ s[i].kind = "suspend" => s[j].kind = "resume"

(* Jobs may be added when no suspend is ahead of them, and a resume always.*)
LEMMA UndisturbedJoin ==
  ASSUME NEW s \in Seq(Job), NEW t \in Seq(Job), Undisturbed(s), Undisturbed(t),
         ~Occurs(s, Suspends) \/ ~Occurs(t, Job \ Resumes)
  PROVE  Undisturbed(s \o t)
<1> DEFINE m == Len(s)
           n == Len(t)
<1>1. /\ m \in Nat /\ n \in Nat
      /\ DOMAIN s = 1 .. m /\ DOMAIN t = 1 .. n
      /\ DOMAIN (s \o t) = 1 .. m + n
      /\ \A i \in 1 .. m + n : (s \o t)[i] = IF i <= m THEN s[i] ELSE t[i - m]
  BY ConcatProperties, LenProperties
<1>2. /\ \A i \in 1 .. m : s[i] \in Job
      /\ \A i \in 1 .. n : t[i] \in Job
  BY ElementOfSeq
<1>3. ~Occurs(s, Suspends) => \A i \in 1 .. m : s[i].kind # "suspend"
  BY <1>1, <1>2, Members DEF Occurs, Suspends
<1>4. ~Occurs(t, Job \ Resumes) => \A i \in 1 .. n : t[i].kind = "resume"
  BY <1>1, <1>2, Members DEF Occurs, Resumes
<1> HIDE DEF m, n
<1> SUFFICES ASSUME NEW i \in 1 .. m + n, NEW j \in 1 .. m + n, i < j,
                    (s \o t)[i].kind = "suspend"
             PROVE  (s \o t)[j].kind = "resume"
  BY <1>1 DEF Undisturbed
<1>5. CASE j <= m
  <2>1. i \in 1 .. m /\ j \in 1 .. m /\ i <= m
    BY <1>1, <1>5
  <2> QED
    BY <1>1, <1>5, <2>1 DEF Undisturbed
<1>6. CASE m < i
  <2>1. i - m \in 1 .. n /\ j - m \in 1 .. n /\ i - m < j - m /\ ~(i <= m) /\ ~(j <= m)
    BY <1>1, <1>6
  <2>2. (s \o t)[i] = t[i - m] /\ (s \o t)[j] = t[j - m]
    BY <1>1, <2>1
  <2> QED
    BY <1>1, <2>1, <2>2 DEF Undisturbed
<1>7. CASE i <= m /\ m < j
  <2>1. i \in 1 .. m /\ j - m \in 1 .. n /\ ~(j <= m)
    BY <1>1, <1>7
  <2>2. (s \o t)[i] = s[i] /\ (s \o t)[j] = t[j - m]
    BY <1>1, <1>7, <2>1
  <2> QED
    BY <1>3, <1>4, <2>1, <2>2
<1> QED
  BY <1>1, <1>5, <1>6, <1>7

(* A job less at the front disturbs nothing.                               *)
LEMMA UndisturbedTail ==
  ASSUME NEW e \in Job, NEW t \in Seq(Job), Undisturbed(<<e>> \o t)
  PROVE  Undisturbed(t)
<1>1. <<e>> \in Seq(Job) /\ Len(<<e>>) = 1
  OBVIOUS
<1>2. /\ Len(t) \in Nat /\ DOMAIN t = 1 .. Len(t)
      /\ DOMAIN (<<e>> \o t) = 1 .. 1 + Len(t)
      /\ \A i \in 1 .. 1 + Len(t) : (<<e>> \o t)[i] = IF i <= 1 THEN <<e>>[i] ELSE t[i - 1]
  BY <1>1, ConcatProperties, LenProperties
<1> SUFFICES ASSUME NEW i \in 1 .. Len(t), NEW j \in 1 .. Len(t), i < j, t[i].kind = "suspend"
             PROVE  t[j].kind = "resume"
  BY <1>2 DEF Undisturbed
<1>3. /\ i + 1 \in 1 .. 1 + Len(t) /\ j + 1 \in 1 .. 1 + Len(t) /\ i + 1 < j + 1
      /\ ~(i + 1 <= 1) /\ ~(j + 1 <= 1) /\ (i + 1) - 1 = i /\ (j + 1) - 1 = j
  BY <1>2
<1>4. (<<e>> \o t)[i + 1] = t[i] /\ (<<e>> \o t)[j + 1] = t[j]
  BY <1>2, <1>3
<1> QED
  BY <1>2, <1>3, <1>4 DEF Undisturbed

(* Every step keeps close and reopen together.                             *)
LEMMA NextKeepsUndisturbed ==
  ASSUME TypeOK, HandlersEnd, CycleInv, GateInv, [Next]_vars, Undisturbed(Pipeline)
  PROVE  Undisturbed(Pipeline')
<1>1. Pipeline \in Seq(Job) /\ jobs \in Seq(Job)
  BY TokensType DEF TypeOK, WorkerTypeOK
<1>2. ASSUME NEW e \in Job
      PROVE  /\ <<e>> \in Seq(Job) /\ Undisturbed(<<e>>)
             /\ e \in Resumes => ~Occurs(<<e>>, Job \ Resumes)
  <2>1. DOMAIN <<e>> = {1}
    OBVIOUS
  <2>2. Undisturbed(<<e>>)
    BY <2>1 DEF Undisturbed
  <2> QED
    BY <2>2, OccursSmall
<1>3. Undisturbed(<< >>)
  <2>1. DOMAIN << >> = {}
    OBVIOUS
  <2> QED
    BY <2>1 DEF Undisturbed
<1>4. ASSUME NEW e \in Job, Pipeline' = Pipeline \o <<e>>,
             ~Occurs(Pipeline, Suspends) \/ e \in Resumes
      PROVE  Undisturbed(Pipeline')
  BY <1>1, <1>2, <1>4, UndisturbedJoin
<1>5. CASE SupervisorStep
  <2>1. HandlerMoves
    BY <1>5, SupervisorMoves
  <2>2. Live
    BY <2>1, HandlerPipeline DEF HandlersEnd
  <2>3. PICK add \in Seq(Job) :
              /\ Pipeline' = Pipeline \o add
              /\ \/ add = << >>
                 \/ SuspendStarts /\ add = <<[kind |-> "suspend", id |-> 0]>>
                 \/ ResumeStarts /\ add = <<[kind |-> "resume", id |-> 0]>>
                 \/ ReconnectMoves /\ ~suspended /\ add = <<[kind |-> "reconnect", id |-> 0]>>
                 \/ GateOpens /\ add = Replayed(queued)
    BY <2>1, HandlerPipeline
  <2>4. {"suspend", "resume", "reconnect"} \subseteq JobKind
    BY DEF JobKind
  <2>5. CASE add = << >>
    <3>1. Pipeline' = Pipeline
      BY <1>1, <2>3, <2>5, ConcatEmptySeq
    <3> QED
      BY <3>1
  <2>6. CASE SuspendStarts /\ add = <<[kind |-> "suspend", id |-> 0]>>
    <3>1. ~Occurs(Pipeline, Suspends)
      BY <2>2, <2>6, CycleParts DEF SuspendStarts
    <3> QED
      BY <1>4, <2>3, <2>4, <2>6, <3>1, Members
  <2>7. CASE ResumeStarts /\ add = <<[kind |-> "resume", id |-> 0]>>
    <3>1. [kind |-> "resume", id |-> 0] \in Resumes
      BY Members DEF Resumes
    <3> QED
      BY <1>4, <2>3, <2>4, <2>7, <3>1, Members
  <2>8. CASE ~suspended /\ add = <<[kind |-> "reconnect", id |-> 0]>>
    <3>1. ~Occurs(Pipeline, Suspends)
      BY <2>2, <2>8 DEF GateInv
    <3> QED
      BY <1>4, <2>3, <2>4, <2>8, <3>1, Members
  <2>9. CASE GateOpens /\ add = Replayed(queued)
    <3>1. PICK fn \in ResumeFns : Running(fn)
      BY <2>9 DEF GateOpens, Moves, ResumeFns
    <3>2. Head(calls) \in Frame /\ Head(calls).fn = fn
      BY <3>1, FramesAndJobs DEF TypeOK, Running
    <3>3. Head(calls) \in ResumeEnd
      BY <3>2, Members DEF ResumeEnd
    <3>4. Occurs(calls, ResumeEnd)
      BY <2>1, <3>3, HandlerOccurs
    <3>5. ~Occurs(Pipeline, Suspends)
      BY <2>2, <3>4, CycleParts
    <3>6. Undisturbed(Replayed(queued))
      BY DEF Undisturbed, Replayed
    <3> QED
      BY <1>1, <2>3, <2>9, <3>5, <3>6, UndisturbedJoin
  <2> QED
    BY <2>3, <2>5, <2>6, <2>7, <2>8, <2>9
<1>6. CASE ~SupervisorStep
  <2>1. CASE QuietStep \/ ClosureStarts \/ EventPosted \/ CallStarts \/ ReplyGiven
    BY <2>1 DEF QuietStep, ClosureStarts, EventPosted, CallStarts, ReplyGiven
  <2>2. CASE JobEnds
    BY <1>1, <2>2, UndisturbedTail DEF JobEnds
  <2>3. CASE CommandSubmitted
    <3>1. PICK kind \in {"command", "restart"} :
            Pipeline' = Pipeline \o <<[kind |-> kind, id |-> CommandId]>>
      BY <2>3 DEF CommandSubmitted
    <3>2. [kind |-> kind, id |-> CommandId] \in Job
      BY CommandIdType DEF Job, JobKind
    <3>3. ~Occurs(Pipeline, Suspends)
      BY <2>3 DEF GateInv, CommandSubmitted
    <3> QED
      BY <1>4, <3>1, <3>2, <3>3
  <2>4. CASE WorkerEnds
    BY <1>3, <2>4 DEF WorkerEnds
  <2> QED
    BY <1>6, <2>1, <2>2, <2>3, <2>4, OtherMoves
<1> QED
  BY <1>5, <1>6

(* No job can run between the one that closes the adapter and the one that *)
(* reopens it, whatever clients, alerts, retries and replayed commands do  *)
(* meanwhile, also in a daemon that is being stopped.                      *)
THEOREM NothingComesBetween == Spec => []NothingBetweenCloseAndReopen
<1>1. Init => Undisturbed(Pipeline)
  BY InitEmpty DEF Undisturbed
<1>2. TypeOK /\ HandlersEnd /\ CycleInv /\ GateInv /\ Undisturbed(Pipeline) /\ [Next]_vars
        => Undisturbed(Pipeline)'
  BY NextKeepsUndisturbed
<1>3. Undisturbed(Pipeline) => NothingBetweenCloseAndReopen
  BY DEF Undisturbed, NothingBetweenCloseAndReopen
<1> QED
  BY <1>1, <1>2, <1>3, GateHolds, PTL DEF Spec

-----------------------------------------------------------------------------
(* A suspended machine has a closed adapter. *)

(* The connection is changed by the worker and by libcec's alert thread.   *)
LEMMA LinkMoves ==
  ASSUME [Next]_vars, ~SupervisorStep
  PROVE  \/ UNCHANGED <<connected, link, job, wpc>>
         \/ WorkerStep
         \/ AlertClearsFlag
         \/ Stopped
BY DEF Next, vars, MainStep, HandlerStep, LoopStep, BusStep, Reply, Stop, TimerStep,
       AdapterStep, ConnectionLost, AlertStep, AlertPosts, LogindSleeps, LogindWakes,
       LogindAnswers, logindRest, ClientStep, WireSuspend, WireResume, WireRequest,
       DispatchCommand, RestartAdapter, DispatchToWorker, EnqueueCommand,
       RefuseCommand, Terminate, Done, workerVars, adapterVars

(* Every step keeps the flag and the link together.                        *)
LEMMA NextKeepsFlag ==
  ASSUME TypeOK, FlagInv, [Next]_vars
  PROVE  FlagInv'
<1> USE DEF FlagInv
<1>1. CASE UNCHANGED <<connected, link, job, wpc>>
  BY <1>1
<1>2. CASE SupervisorStep
  BY <1>1, <1>2, SupervisorMoves
<1>3. CASE AlertClearsFlag
  BY <1>3 DEF AlertClearsFlag
<1>4. CASE Stopped
  BY <1>4 DEF Stopped, workerVars
<1>5. CASE WorkerStep
  <2>1. job = NoJob <=> wpc \in {"idle", "exited"}
    BY DEF TypeOK, WorkerTypeOK
  <2>2. CASE TakeJob
    <3>1. job' = Head(jobs) /\ wpc = "idle" /\ wpc' = FirstStep(Head(jobs).kind)
          /\ UNCHANGED <<connected, link>>
      BY <2>2 DEF TakeJob
    <3> QED
      BY <3>1 DEF FirstStep
  <2>3. CASE FinishJob \/ WorkerExit
    BY <2>1, <2>3 DEF FinishJob, WorkerExit, NoJob
  <2>4. CASE CloseConnection \/ LibcecClose
    BY <2>4 DEF CloseConnection, LibcecClose
  <2>5. CASE ReopenConnection \/ LibcecDestroy
    BY <2>5 DEF ReopenConnection, LibcecDestroy
  <2>6. CASE OpenFails \/ OpenSucceeds
    BY <2>6 DEF OpenFails, OpenSucceeds, AfterOpen
  <2>7. CASE MarkConnected \/ CheckConnected
    BY <2>7 DEF MarkConnected, CheckConnected, AfterOpen
  <2> QED
    BY <1>5, <2>2, <2>3, <2>4, <2>5, <2>6, <2>7 DEF WorkerStep
<1> QED
  BY <1>1, <1>2, <1>3, <1>4, <1>5, LinkMoves

(* An idle worker has nothing to do.                                       *)
LEMMA PipelineEmpty ==
  ASSUME TypeOK, Pipeline = << >>
  PROVE  wpc \in {"idle", "exited"} /\ jobs = << >>
<1> DEFINE now == IF wpc \in {"idle", "exited"} THEN << >> ELSE <<job>>
<1>1. jobs \in Seq(Job) /\ now \in Seq(Job)
  BY DEF TypeOK, WorkerTypeOK
<1>2. Len(now) = IF wpc \in {"idle", "exited"} THEN 0 ELSE 1
  OBVIOUS
<1>3. now \o jobs = << >>
  BY DEF Pipeline
<1> HIDE DEF now
<1>4. Len(now \o jobs) = Len(now) + Len(jobs) /\ Len(jobs) \in Nat
  BY <1>1, ConcatProperties, LenProperties
<1>5. Len(now) + Len(jobs) = 0
  BY <1>3, <1>4
<1>6. Len(jobs) = 0 /\ Len(now) = 0
  BY <1>2, <1>4, <1>5
<1> QED
  BY <1>1, <1>2, <1>6, EmptySeq

(* A handler leaves a closed adapter closed.                               *)
LEMMA HandlerKeepsClosed ==
  ASSUME TypeOK, CycleInv, GateInv, ClosedInv, Live, HandlerMoves,
         UNCHANGED <<connected, link>>, suspended', lifecycle'.phase # "Resuming"
  PROVE  \/ ~connected' /\ link' # "open" /\ Pipeline' = << >>
         \/ Occurs(Pipeline', Suspends)
<1>1. Pipeline \in Seq(Job)
  BY TokensType
<1>2. ASSUME suspended, lifecycle.phase # "Resuming", Pipeline' = Pipeline \o << >>
      PROVE  \/ ~connected' /\ link' # "open" /\ Pipeline' = << >>
             \/ Occurs(Pipeline', Suspends)
  <2>1. Pipeline' = Pipeline
    BY <1>1, <1>2, ConcatEmptySeq
  <2> QED
    BY <1>2, <2>1 DEF ClosedInv
<1>3. CASE RequestNoted \/ NothingPumped \/ SuspendEnds \/ SafetyFires
  BY <1>2, <1>3
     DEF RequestNoted, NothingPumped, SuspendEnds, SafetyFires, PhaseKept, GateKept, Moves
<1>4. CASE SuspendStarts
  <2>1. CASE suspended
    BY <1>2, <1>4, <2>1 DEF SuspendStarts, Moves
  <2>2. CASE ~suspended
    <3> DEFINE j == [kind |-> "suspend", id |-> 0]
    <3>1. Pipeline' = Pipeline \o <<j>>
      BY <1>4, <2>2 DEF SuspendStarts, Moves
    <3>2. j \in Suspends /\ j \in Job
      BY DEF Suspends, JobsOf, Job, JobKind
    <3> HIDE DEF j
    <3>3. <<j>> \in Seq(Job) /\ Occurs(<<j>>, Suspends)
      BY <3>2, OccursSmall
    <3>4. Occurs(Pipeline \o <<j>>, Suspends)
      BY <1>1, <3>3, OccursJoin
    <3> QED
      BY <3>1, <3>4
  <2> QED
    BY <2>1, <2>2
<1>5. CASE ResumeStarts \/ GateOpens
  BY <1>5 DEF ResumeStarts, GateOpens
<1>6. CASE ResumeEnds
  <2>1. PICK fn \in {"resumeValid", "resumeInvalid"} : Running(fn)
    BY <1>6 DEF ResumeEnds, Moves
  <2>2. Head(calls) \in Frame /\ Head(calls).fn = fn
    BY <2>1, FramesAndJobs DEF TypeOK, Running
  <2>3. Head(calls) \in OpenEnd
    BY <2>2, Members DEF OpenEnd
  <2>4. Occurs(calls, OpenEnd)
    BY <2>3, HandlerOccurs
  <2> QED
    BY <1>6, <2>4 DEF GateInv, OpenEnd, ResumeEnds, GateKept
<1>7. CASE ReconnectMoves
  <2>1. suspended
    BY <1>7 DEF ReconnectMoves, GateKept
  <2> QED
    BY <1>2, <1>7, <2>1 DEF ReconnectMoves, PhaseKept, Moves
<1> QED
  BY <1>3, <1>4, <1>5, <1>6, <1>7 DEF HandlerMoves

(* The job that closes the adapter is the last one until a resume begins,  *)
(* and leaves the adapter closed.                                          *)
LEMMA CloseIsLast ==
  ASSUME TypeOK, CycleInv, FlagInv, Undisturbed(Pipeline), Live,
         lifecycle.phase # "Resuming", JobEnds, Occurs(Pipeline, Suspends)
  PROVE  \/ ~connected /\ link # "open" /\ Pipeline' = << >>
         \/ Occurs(Pipeline', Suspends)
<1>1. /\ job \in Job /\ jobs \in Seq(Job) /\ <<job>> \in Seq(Job)
      /\ Pipeline = <<job>> \o jobs /\ Pipeline' = jobs /\ wpc = "report"
  BY DEF JobEnds, TypeOK, WorkerTypeOK
<1>2. /\ Occurs(Pipeline, Suspends) <=> Occurs(<<job>>, Suspends) \/ Occurs(jobs, Suspends)
      /\ Occurs(Pipeline, Resumes) <=> Occurs(<<job>>, Resumes) \/ Occurs(jobs, Resumes)
  BY <1>1, OccursJoin
<1>3. Occurs(<<job>>, Suspends) <=> job.kind = "suspend"
  BY <1>1, OccursSmall, Members DEF Suspends
<1>4. ~Occurs(jobs, Resumes)
  BY <1>2, CycleParts
<1>5. SUFFICES ASSUME job.kind = "suspend", jobs # << >>
               PROVE  FALSE
  BY <1>1, <1>2, <1>3 DEF FlagInv
<1>6. Len(jobs) \in Nat \ {0} /\ Len(<<job>>) = 1
  BY <1>1, <1>5, EmptySeq
<1>7. /\ DOMAIN Pipeline = 1 .. 1 + Len(jobs)
      /\ \A i \in 1 .. 1 + Len(jobs) : Pipeline[i] = IF i <= 1 THEN <<job>>[i] ELSE jobs[i - 1]
  BY <1>1, <1>6, ConcatProperties, LenProperties
<1>8. 1 \in DOMAIN Pipeline /\ 2 \in DOMAIN Pipeline
  BY <1>6, <1>7
<1>9. Pipeline[1] = job /\ Pipeline[2] = jobs[1]
  BY <1>6, <1>7
<1>10. jobs[1].kind = "resume"
  BY <1>5, <1>8, <1>9 DEF Undisturbed
<1>11. 1 \in DOMAIN jobs /\ jobs[1] \in Job
  BY <1>1, <1>6, ElementOfSeq, LenProperties
<1>12. Occurs(jobs, Resumes)
  BY <1>10, <1>11, Members DEF Occurs, Resumes
<1> QED
  BY <1>4, <1>12

(* Every step leaves a closed adapter closed.                              *)
LEMMA NextKeepsClosed ==
  ASSUME TypeOK, HandlersEnd, CycleInv, GateInv, FlagInv, Undisturbed(Pipeline), ClosedInv,
         [Next]_vars
  PROVE  ClosedInv'
<1> SUFFICES ASSUME Live', suspended', lifecycle'.phase # "Resuming"
             PROVE  \/ ~connected' /\ link' # "open" /\ Pipeline' = << >>
                    \/ Occurs(Pipeline', Suspends)
  BY DEF ClosedInv
<1>1. Live
  BY LoopEndsOnce
<1>2. CASE SupervisorStep
  BY <1>1, <1>2, SupervisorMoves, HandlerKeepsClosed
<1>3. CASE ~SupervisorStep
  <2>1. suspended /\ lifecycle.phase # "Resuming"
    BY <1>3, OtherMoves
  <2>2. \/ ~connected /\ link # "open" /\ Pipeline = << >>
        \/ Occurs(Pipeline, Suspends)
    BY <1>1, <2>1 DEF ClosedInv
  <2>3. \/ UNCHANGED <<connected, link>>
        \/ WorkerStep
        \/ ~connected' /\ link' # "open"
    BY <1>3, LinkMoves DEF AlertClearsFlag, Stopped, Live
  <2>4. ~CommandSubmitted /\ ~WorkerEnds
    BY <1>1, <2>1 DEF CommandSubmitted, WorkerEnds
  <2>5. UNCHANGED Pipeline \/ JobEnds
    BY <1>3, <2>4, OtherMoves
       DEF QuietStep, ClosureStarts, EventPosted, CallStarts, ReplyGiven
  <2>6. CASE ~connected /\ link # "open" /\ Pipeline = << >>
    <3>1. wpc \in {"idle", "exited"} /\ jobs = << >>
      BY <2>6, PipelineEmpty
    <3>2. ~WorkerStep
      BY <1>1, <3>1
         DEF WorkerStep, TakeJob, CloseConnection, LibcecClose, ReopenConnection,
             LibcecDestroy, OpenFails, OpenSucceeds, MarkConnected, CheckConnected,
             FinishJob, WorkerExit, Live
    <3>3. ~JobEnds
      BY <3>1 DEF JobEnds
    <3> QED
      BY <2>3, <2>5, <2>6, <3>2, <3>3
  <2>7. CASE Occurs(Pipeline, Suspends) /\ JobEnds
    <3>1. \/ ~connected /\ link # "open" /\ Pipeline' = << >>
          \/ Occurs(Pipeline', Suspends)
      BY <1>1, <2>1, <2>7, CloseIsLast
    <3>2. WorkerStep => UNCHANGED <<connected, link>>
      BY <2>7
         DEF JobEnds, WorkerStep, TakeJob, CloseConnection, LibcecClose, ReopenConnection,
             LibcecDestroy, OpenFails, OpenSucceeds, MarkConnected, CheckConnected,
             FinishJob, WorkerExit
    <3> QED
      BY <2>3, <3>1, <3>2
  <2>8. CASE Occurs(Pipeline, Suspends) /\ UNCHANGED Pipeline
    BY <2>8
  <2> QED
    BY <2>2, <2>5, <2>6, <2>7, <2>8
<1> QED
  BY <1>2, <1>3

(* From the end of a suspend to the beginning of a resume the connection   *)
(* is closed and the worker has nothing that could open or use it: the     *)
(* machine may sleep at any moment of that time.                           *)
THEOREM SuspendedIsClosed == Spec => []SleepReady
<1>1. Init => Undisturbed(Pipeline) /\ FlagInv /\ ClosedInv
  <2> SUFFICES ASSUME Init PROVE Undisturbed(Pipeline) /\ FlagInv /\ ClosedInv
    OBVIOUS
  <2>1. Undisturbed(Pipeline)
    BY InitEmpty DEF Undisturbed
  <2> QED
    BY <2>1 DEF Init, WorkerInit, SupervisorInit, NoJob, FlagInv, ClosedInv
<1>2. TypeOK /\ HandlersEnd /\ CycleInv /\ GateInv /\ Undisturbed(Pipeline) /\ FlagInv
        /\ ClosedInv /\ [Next]_vars
        => Undisturbed(Pipeline)' /\ FlagInv' /\ ClosedInv'
  BY NextKeepsUndisturbed, NextKeepsFlag, NextKeepsClosed
<1>3. TypeOK /\ CycleInv /\ ClosedInv => SleepReady
  BY CycleParts DEF ClosedInv, SleepReady
<1> QED
  BY <1>1, <1>2, <1>3, GateHolds, PTL DEF Spec

-----------------------------------------------------------------------------
(* One reply per command. *)

(* The supervisor's handlers have no part in replies.                      *)
LEMMA HandlerKeepsTokens ==
  ASSUME TypeOK, TypeOK', HandlerMoves, UNCHANGED work, NEW J, NEW F,
         \A j \in J : j.kind \in {"command", "restart"},
         \A f \in F : f.fn = "reply"
  PROVE  Tokens(J, F)' = Tokens(J, F)
<1>1. Tokens(J, F) \in Nat /\ Tokens(J, F)' \in Nat
  BY TokensType, TokensTypeNext
<1>2. \A fn : fn # "reply" => Call(fn) \notin F
  BY DEF Call
<1>3. ASSUME NEW fn, Running(fn), fn # "reply"
      PROVE  One(Head(calls) \in F) = 0
  BY <1>3 DEF Running, One
<1>4. ASSUME NEW fn, fn # "reply", Moves(fn, << >>, << >>)
      PROVE  Tokens(J, F)' = Tokens(J, F)
  <2>1. Tokens(J, F)' + One(Head(calls) \in F) = Tokens(J, F)
    BY <1>4, TokensReturn
  <2> QED
    BY <1>1, <1>3, <1>4, <2>1 DEF Moves
<1>5. ASSUME NEW fn, fn # "reply", NEW g \in Handler, g # "reply", Moves(fn, <<Call(g)>>, << >>)
      PROVE  Tokens(J, F)' = Tokens(J, F)
  <2>1. Tokens(J, F)' + One(Head(calls) \in F) = Tokens(J, F) + One(Call(g) \in F)
    BY <1>5, TokensCall
  <2>2. One(Call(g) \in F) = 0
    BY <1>2, <1>5 DEF One
  <2> QED
    BY <1>1, <1>3, <1>5, <2>1, <2>2 DEF Moves
<1>6. ASSUME NEW fn, fn # "reply", NEW k \in {"suspend", "resume", "reconnect"},
             Moves(fn, << >>, <<[kind |-> k, id |-> 0]>>)
      PROVE  Tokens(J, F)' = Tokens(J, F)
  <2> DEFINE j == [kind |-> k, id |-> 0]
  <2>1. j \in Job /\ j \notin J
    BY DEF Job, JobKind
  <2>2. Moves(fn, << >>, <<j>>)
    BY <1>6
  <2> HIDE DEF j
  <2>3. Tokens(J, F)' + One(Head(calls) \in F) = Tokens(J, F) + One(j \in J)
    BY <2>1, <2>2, TokensSubmit
  <2>4. One(j \in J) = 0
    BY <2>1 DEF One
  <2> QED
    BY <1>1, <1>3, <1>6, <2>3, <2>4 DEF Moves
<1>7. ASSUME NEW fn, fn # "reply", NEW g \in Handler, g # "reply",
             Moves(fn, <<Call(g)>>, Replayed(queued))
      PROVE  Tokens(J, F)' = Tokens(J, F)
  <2>1. \A j \in J : j.kind # "replay"
    OBVIOUS
  <2>2. Tokens(J, F)' + One(Head(calls) \in F) = Tokens(J, F) + One(Call(g) \in F)
    BY <1>7, <2>1, TokensReplay
  <2>3. One(Call(g) \in F) = 0
    BY <1>2, <1>7 DEF One
  <2> QED
    BY <1>1, <1>3, <1>7, <2>2, <2>3 DEF Moves
<1>8. ASSUME NEW fn, fn # "reply", Moves(fn, <<Call("pumpQueue"), Call("seedCycle")>>, << >>)
      PROVE  Tokens(J, F)' = Tokens(J, F)
  <2>1. Tokens(J, F)' + One(Head(calls) \in F) = Tokens(J, F)
    BY <1>2, <1>8, TokensSeed
  <2> QED
    BY <1>1, <1>3, <1>8, <2>1 DEF Moves
<1>9. {"pumpQueue", "suspendCompleted", "resumeValid", "resumeInvalid",
       "attemptSucceeded", "attemptFailed"} \subseteq Handler
  BY DEF Handler, Closure
<1> QED
  BY <1>4, <1>5, <1>6, <1>7, <1>8, <1>9
     DEF HandlerMoves, RequestNoted, Requests, NothingPumped, SuspendStarts, ResumeStarts,
         SuspendEnds, GateOpens, ResumeEnds, SafetyFires, ReconnectMoves, ReconnectHandlers

(* A command's job carries its reply.                                      *)
LEMMA RepliesCarried ==
  ASSUME NEW id \in Nat
  PROVE  Carries(CommandsWith(id), RepliesWith(id))
<1>1. ASSUME NEW j \in Job, NEW ok \in BOOLEAN
      PROVE  IF j.kind = "replay" THEN j \notin CommandsWith(id)
             ELSE j \in CommandsWith(id)
                    <=> [fn |-> Report(j.kind, ok), id |-> j.id] \in RepliesWith(id)
  <2>1. j.id \in Nat /\ j.kind \in JobKind /\ j = [kind |-> j.kind, id |-> j.id]
    BY DEF Job
  <2>2. j \in CommandsWith(id) <=> j.kind \in {"command", "restart"} /\ j.id = id
    BY <2>1 DEF CommandsWith
  <2>3. [fn |-> Report(j.kind, ok), id |-> j.id] \in RepliesWith(id)
          <=> Report(j.kind, ok) = "reply" /\ j.id = id
    BY DEF RepliesWith
  <2>4. Report(j.kind, ok) = "reply" <=> j.kind \in {"command", "restart", "replay"}
    BY <2>1 DEF Report, JobKind
  <2> QED
    BY <2>2, <2>3, <2>4
<1>2. \A fn \in Events \cup Starts : Call(fn) \notin RepliesWith(id)
  BY DEF Events, Starts, Call, RepliesWith
<1> QED
  BY <1>1, <1>2 DEF Carries

(* A step of the supervisor answers no client and numbers no command.      *)
LEMMA ClientsLeftAlone ==
  ASSUME TypeOK, [Next]_vars, SupervisorStep
  PROVE  UNCHANGED <<awaiting, CommandId>>
<1>1. calls # << >> /\ Head(calls).fn # "reply"
  BY DEF SupervisorStep, OnSuspendRequested, OnResumeRequested, PumpQueue,
         OnSuspendCompleted, OnResumeWorkerComplete, OnResumeCompleted,
         OnSafetyTimerFired, SeedCycle, OnConnectionLost, OnReconnectResult,
         OnReconnectRetryTimerFired, Running
<1>2. ASSUME UNCHANGED <<awaiting, spent>>
      PROVE  UNCHANGED <<awaiting, CommandId>>
  BY <1>2 DEF CommandId
<1>3. CASE ConnectionLost \/ LogindSleeps
  <2>1. UNCHANGED awaiting
    BY <1>3 DEF ConnectionLost, LogindSleeps, workerRest, logindRest
  <2>2. Spend("lost") \/ Spend("sleep")
    BY <1>3 DEF ConnectionLost, LogindSleeps
  <2> QED
    BY <2>1, <2>2, CommandIdMoves DEF Input
<1>4. ~Reply /\ ~Stop /\ ~ClientStep
  BY <1>1 DEF Reply, Running, Stop, ClientStep, WireSuspend, WireResume, WireRequest,
              DispatchCommand, RestartAdapter, DispatchToWorker, EnqueueCommand,
              RefuseCommand, AtDispatchPoint
<1> QED
  BY <1>2, <1>3, <1>4
     DEF Next, vars, MainStep, LoopStep, HandlerStep, BusStep, TimerStep, AdapterStep,
         AlertStep, workerRest, LogindWakes, LogindAnswers, logindRest, Terminate, Stopped,
         Done, clientVars

(* The numbers of commands grow.                                           *)
LEMMA CommandIdGrows ==
  ASSUME TypeOK, [Next]_vars
  PROVE  CommandId \in Nat /\ CommandId' \in {CommandId, CommandId + 1}
<1>1. ASSUME UNCHANGED spent PROVE CommandId' = CommandId
  BY <1>1 DEF CommandId
<1>2. \/ UNCHANGED spent
      \/ \E input \in Input : Spend(input)
  BY DEF Next, vars, MainStep, HandlerStep, LoopStep, BusStep, Reply, Stop, TimerStep,
         AdapterStep, ConnectionLost, AlertStep, LogindSleeps, LogindWakes,
         LogindAnswers, ClientStep, WireSuspend, WireResume, WireRequest,
         DispatchCommand, RestartAdapter, DispatchToWorker, EnqueueCommand,
         RefuseCommand, Terminate, Stopped, Done, clientVars, Input
<1> QED
  BY <1>1, <1>2, CommandIdMoves, CommandIdType

(* Every step keeps one reply on the way for every client that waits.      *)
LEMMA NextKeepsReply ==
  ASSUME TypeOK, TypeOK', HandlersEnd, ReplyInv, [Next]_vars
  PROVE  ReplyInv'
<1>1. CommandId \in Nat /\ CommandId' \in {CommandId, CommandId + 1}
  BY CommandIdGrows
<1> SUFFICES ASSUME Live'
             PROVE  /\ \A id \in Nat :
                         Tokens(CommandsWith(id), RepliesWith(id))' = One(id \in awaiting')
                    /\ \A id \in awaiting' : id < CommandId'
  BY DEF ReplyInv, CommandsWith, RepliesWith
<1>2. Live
  BY LoopEndsOnce
<1>3. /\ \A id \in Nat : Tokens(CommandsWith(id), RepliesWith(id)) = One(id \in awaiting)
      /\ \A id \in awaiting : id < CommandId
      /\ awaiting \subseteq Nat
  BY <1>2 DEF ReplyInv, TypeOK
<1>4. ASSUME awaiting' \subseteq awaiting
      PROVE  \A id \in awaiting' : id < CommandId'
  BY <1>1, <1>3, <1>4
<1>5. CASE SupervisorStep
  <2>1. HandlerMoves /\ UNCHANGED work
    BY <1>5, SupervisorMoves
  <2>2. \A id \in Nat : /\ \A j \in CommandsWith(id) : j.kind \in {"command", "restart"}
                        /\ \A f \in RepliesWith(id) : f.fn = "reply"
    BY DEF CommandsWith, RepliesWith
  <2>3. ASSUME NEW id \in Nat
        PROVE  Tokens(CommandsWith(id), RepliesWith(id))'
                 = Tokens(CommandsWith(id), RepliesWith(id))
    BY <2>1, <2>2, HandlerKeepsTokens
  <2>4. UNCHANGED awaiting
    BY <1>5, ClientsLeftAlone
  <2> QED
    BY <1>3, <1>4, <2>3, <2>4
<1>6. CASE ~SupervisorStep
  <2>1. CASE /\ QuietStep \/ ClosureStarts \/ EventPosted \/ CallStarts \/ JobEnds
             /\ UNCHANGED awaiting
    <3>1. ASSUME NEW id \in Nat
          PROVE  Tokens(CommandsWith(id), RepliesWith(id))'
                   = Tokens(CommandsWith(id), RepliesWith(id))
      BY <2>1, RepliesCarried, TokensKept
    <3> QED
      BY <1>3, <1>4, <2>1, <3>1
  <2>2. CASE CommandSubmitted
    <3>1. PICK kind \in {"command", "restart"} :
            Pipeline' = Pipeline \o <<[kind |-> kind, id |-> CommandId]>>
      BY <2>2 DEF CommandSubmitted
    <3> DEFINE j == [kind |-> kind, id |-> CommandId]
    <3>2. j \in Job /\ \A id \in Nat : j \in CommandsWith(id) <=> id = CommandId
      BY CommandIdType DEF Job, JobKind, CommandsWith
    <3> HIDE DEF j
    <3>3. Pipeline' = Pipeline \o <<j>> /\ UNCHANGED <<work, calls>>
      BY <2>2, <3>1 DEF CommandSubmitted, j
    <3>4. CommandId \notin awaiting /\ awaiting' = awaiting \cup {CommandId}
          /\ CommandId' = CommandId + 1
      BY <1>1, <1>3, <2>2 DEF CommandSubmitted
    <3>5. ASSUME NEW id \in Nat
          PROVE  Tokens(CommandsWith(id), RepliesWith(id))' = One(id \in awaiting')
      <4>1. Tokens(CommandsWith(id), RepliesWith(id))'
              = Tokens(CommandsWith(id), RepliesWith(id)) + One(j \in CommandsWith(id))
        BY <3>2, <3>3, TokensAdded
      <4>2. Tokens(CommandsWith(id), RepliesWith(id)) = One(id \in awaiting)
        BY <1>3
      <4>3. One(j \in CommandsWith(id)) = One(id = CommandId)
        BY <3>2
      <4> QED
        BY <3>4, <4>1, <4>2, <4>3 DEF One
    <3>6. \A id \in awaiting' : id < CommandId'
      BY <1>1, <1>3, <3>4
    <3> QED
      BY <3>5, <3>6
  <2>3. CASE ReplyGiven
    <3>1. Moves("reply", << >>, << >>) /\ UNCHANGED work /\ Head(calls) \in Frame
      BY <2>3, ReplyMoves DEF ReplyGiven
    <3>2. Head(calls).fn = "reply" /\ awaiting' = awaiting \ {Head(calls).id}
      BY <2>3 DEF ReplyGiven, Running
    <3>3. ASSUME NEW id \in Nat
          PROVE  Tokens(CommandsWith(id), RepliesWith(id))' = One(id \in awaiting')
      <4>1. Tokens(CommandsWith(id), RepliesWith(id))' + One(Head(calls) \in RepliesWith(id))
              = Tokens(CommandsWith(id), RepliesWith(id))
        BY <3>1, TokensReturn
      <4>2. Head(calls) \in RepliesWith(id) <=> Head(calls).id = id
        BY <3>1, <3>2 DEF Frame, RepliesWith
      <4>3. Tokens(CommandsWith(id), RepliesWith(id)) = One(id \in awaiting)
        BY <1>3
      <4>4. Tokens(CommandsWith(id), RepliesWith(id))' \in Nat
        BY TokensTypeNext
      <4> QED
        BY <3>2, <4>1, <4>2, <4>3, <4>4 DEF One
    <3> QED
      BY <1>4, <3>2, <3>3
  <2>4. CASE WorkerEnds
    BY <1>2, <2>4 DEF WorkerEnds
  <2> QED
    BY <1>6, <2>1, <2>2, <2>3, <2>4, OtherMoves
<1> QED
  BY <1>5, <1>6

(* OneReplyPerCommand counts the same jobs, closures and calls.            *)
LEMMA ReplyMeaning ==
  ASSUME TypeOK, ReplyInv
  PROVE  OneReplyPerCommand
<1>1. work \in Seq(Frame) /\ calls \in Seq(Frame) /\ Pipeline \in Seq(Job)
  BY TokensType
<1>2. \A i \in DOMAIN Pipeline : Pipeline[i] \in Job
  BY <1>1, ElementOfSeq, LenProperties
<1>3. \A i \in DOMAIN work : work[i] \in Frame
  BY <1>1, ElementOfSeq, LenProperties
<1>4. \A i \in DOMAIN calls : calls[i] \in Frame
  BY <1>1, ElementOfSeq, LenProperties
<1>5. CommandId \in Nat
  BY CommandIdType
<1> SUFFICES ASSUME Live, NEW id \in 1 .. CommandId
             PROVE  Cardinality({i \in DOMAIN Pipeline :
                       Pipeline[i].id = id /\ Pipeline[i].kind \in {"command", "restart"}})
                      + Cardinality({i \in DOMAIN work : work[i].fn = "reply" /\ work[i].id = id})
                      + Cardinality({i \in DOMAIN calls : calls[i].fn = "reply" /\ calls[i].id = id})
                    = (IF id \in awaiting THEN 1 ELSE 0)
  BY DEF OneReplyPerCommand
<1>6. id \in Nat
  BY <1>5
<1>7. {i \in DOMAIN Pipeline : Pipeline[i].id = id /\ Pipeline[i].kind \in {"command", "restart"}}
        = {i \in DOMAIN Pipeline : Pipeline[i] \in CommandsWith(id)}
  BY <1>2 DEF Job, CommandsWith
<1>8. {i \in DOMAIN work : work[i].fn = "reply" /\ work[i].id = id}
        = {i \in DOMAIN work : work[i] \in RepliesWith(id)}
  BY <1>3 DEF Frame, RepliesWith
<1>9. {i \in DOMAIN calls : calls[i].fn = "reply" /\ calls[i].id = id}
        = {i \in DOMAIN calls : calls[i] \in RepliesWith(id)}
  BY <1>4 DEF Frame, RepliesWith
<1>10. Tokens(CommandsWith(id), RepliesWith(id)) = One(id \in awaiting)
  BY <1>6 DEF ReplyInv
<1> QED
  BY <1>7, <1>8, <1>9, <1>10 DEF Tokens, Count, One

(* Every client that waits has exactly one job, closure or call that will  *)
(* answer it, and nothing answers a client that does not: losses, suspends *)
(* and replayed commands neither drop a reply nor send a second one.       *)
THEOREM ClientsAnsweredOnce == Spec => []OneReplyPerCommand
<1>1. Init => HandlersEnd /\ ReplyInv
  <2> SUFFICES ASSUME Init PROVE HandlersEnd /\ ReplyInv
    OBVIOUS
  <2>1. awaiting = {}
    BY DEF Init
  <2> QED
    BY <2>1, InitEmpty DEF HandlersEnd, ReplyInv, One
<1>2. TypeOK /\ HandlersEnd /\ ReplyInv /\ [Next]_vars => HandlersEnd' /\ ReplyInv'
  BY NextKeepsTypes, LoopEndsOnce, NextKeepsReply
<1>3. TypeOK /\ ReplyInv => OneReplyPerCommand
  BY ReplyMeaning
<1> QED
  BY <1>1, <1>2, <1>3, TypeCorrect, PTL DEF Spec

-----------------------------------------------------------------------------
(* Commands stay in order. *)

(* The jobs of commands with a number of n or more.                        *)
AtLeast(n) == [kind : CommandKinds, id : {k \in Nat : k >= n}]

Sorted(s) ==
  \A i, j \in DOMAIN s :
    i < j /\ s[i].kind \in CommandKinds /\ s[j].kind \in CommandKinds => s[i].id < s[j].id

Increasing(q) == \A i, j \in DOMAIN q : i < j => q[i] < q[j]

(* The commands in the worker's pipeline, then the queued ones, then those *)
(* still to be read.                                                       *)
LineInv ==
  /\ Sorted(Pipeline) /\ Increasing(queued)
  /\ \A j \in DOMAIN queued : ~Occurs(Pipeline, AtLeast(queued[j])) /\ queued[j] < CommandId
  /\ ~Occurs(Pipeline, AtLeast(CommandId))
  /\ queued # << >> => suspended

(* Later jobs are kept in order behind earlier ones.                       *)
LEMMA SortedJoin ==
  ASSUME NEW s \in Seq(Job), NEW t \in Seq(Job), Sorted(s), Sorted(t),
         \A j \in DOMAIN t : t[j].kind \in CommandKinds => ~Occurs(s, AtLeast(t[j].id))
  PROVE  Sorted(s \o t)
<1> DEFINE m == Len(s)
           n == Len(t)
<1>1. /\ m \in Nat /\ n \in Nat
      /\ DOMAIN s = 1 .. m /\ DOMAIN t = 1 .. n
      /\ DOMAIN (s \o t) = 1 .. m + n
      /\ \A i \in 1 .. m + n : (s \o t)[i] = IF i <= m THEN s[i] ELSE t[i - m]
  BY ConcatProperties, LenProperties
<1>2. /\ \A i \in 1 .. m : s[i] \in Job
      /\ \A i \in 1 .. n : t[i] \in Job
  BY ElementOfSeq
<1>3. ASSUME NEW i \in 1 .. m, NEW k \in Nat, s[i].kind \in CommandKinds, ~Occurs(s, AtLeast(k))
      PROVE  s[i].id < k
  <2>1. s[i] \notin AtLeast(k) /\ s[i] \in Job
    BY <1>1, <1>2, <1>3 DEF Occurs
  <2>2. ~(s[i].id >= k) /\ s[i].id \in Nat
    BY <1>3, <2>1 DEF AtLeast, Job
  <2> QED
    BY <2>2
<1> HIDE DEF m, n
<1> SUFFICES ASSUME NEW i \in 1 .. m + n, NEW j \in 1 .. m + n, i < j,
                    (s \o t)[i].kind \in CommandKinds, (s \o t)[j].kind \in CommandKinds
             PROVE  (s \o t)[i].id < (s \o t)[j].id
  BY <1>1 DEF Sorted
<1>5. CASE j <= m
  <2>1. i \in 1 .. m /\ j \in 1 .. m /\ i <= m
    BY <1>1, <1>5
  <2> QED
    BY <1>1, <1>5, <2>1 DEF Sorted
<1>6. CASE m < i
  <2>1. i - m \in 1 .. n /\ j - m \in 1 .. n /\ i - m < j - m /\ ~(i <= m) /\ ~(j <= m)
    BY <1>1, <1>6
  <2>2. (s \o t)[i] = t[i - m] /\ (s \o t)[j] = t[j - m]
    BY <1>1, <2>1
  <2> QED
    BY <1>1, <2>1, <2>2 DEF Sorted
<1>7. CASE i <= m /\ m < j
  <2>1. i \in 1 .. m /\ j - m \in 1 .. n /\ ~(j <= m)
    BY <1>1, <1>7
  <2>2. (s \o t)[i] = s[i] /\ (s \o t)[j] = t[j - m]
    BY <1>1, <1>7, <2>1
  <2>3. t[j - m].id \in Nat
    BY <1>2, <2>1 DEF Job
  <2>4. ~Occurs(s, AtLeast(t[j - m].id))
    BY <1>1, <2>1, <2>2
  <2> QED
    BY <1>3, <2>1, <2>2, <2>3, <2>4
<1>8. j <= m \/ m < i \/ (i <= m /\ m < j)
  BY <1>1
<1> QED
  BY <1>5, <1>6, <1>7, <1>8

(* A job less at the front leaves the rest in order.                       *)
LEMMA SortedTail ==
  ASSUME NEW e \in Job, NEW t \in Seq(Job), Sorted(<<e>> \o t)
  PROVE  Sorted(t)
<1>1. <<e>> \in Seq(Job) /\ Len(<<e>>) = 1
  OBVIOUS
<1>2. /\ Len(t) \in Nat /\ DOMAIN t = 1 .. Len(t)
      /\ DOMAIN (<<e>> \o t) = 1 .. 1 + Len(t)
      /\ \A i \in 1 .. 1 + Len(t) : (<<e>> \o t)[i] = IF i <= 1 THEN <<e>>[i] ELSE t[i - 1]
  BY <1>1, ConcatProperties, LenProperties
<1> SUFFICES ASSUME NEW i \in 1 .. Len(t), NEW j \in 1 .. Len(t), i < j,
                    t[i].kind \in CommandKinds, t[j].kind \in CommandKinds
             PROVE  t[i].id < t[j].id
  BY <1>2 DEF Sorted
<1>3. /\ i + 1 \in 1 .. 1 + Len(t) /\ j + 1 \in 1 .. 1 + Len(t) /\ i + 1 < j + 1
      /\ ~(i + 1 <= 1) /\ ~(j + 1 <= 1) /\ (i + 1) - 1 = i /\ (j + 1) - 1 = j
  BY <1>2
<1>4. (<<e>> \o t)[i + 1] = t[i] /\ (<<e>> \o t)[j + 1] = t[j]
  BY <1>2, <1>3
<1> QED
  BY <1>2, <1>3, <1>4 DEF Sorted

(* The queue of commands accepted during a suspend.                        *)
LEMMA QueueMoves ==
  ASSUME TypeOK, [Next]_vars, ~SupervisorStep
  PROVE  \/ UNCHANGED queued
         \/ queued' = << >>
         \/ /\ suspended /\ queued' = Append(queued, CommandId) /\ CommandId' = CommandId + 1
            /\ UNCHANGED Pipeline
<1>1. CASE EnqueueCommand
  <2>1. UNCHANGED Pipeline
    BY <1>1, PipelineMoves DEF EnqueueCommand, workerVars
  <2>2. CommandId' = CommandId + 1
    BY <1>1, CommandIdMoves DEF EnqueueCommand, Input
  <2> QED
    BY <1>1, <2>1, <2>2 DEF EnqueueCommand
<1>2. CASE Stop
  BY <1>2 DEF Stop
<1>3. CASE ~EnqueueCommand /\ ~Stop
  BY <1>3
     DEF Next, vars, MainStep, HandlerStep, LoopStep, BusStep, Reply, TimerStep,
         AdapterStep, ConnectionLost, AlertStep, workerRest, LogindSleeps, LogindWakes,
         LogindAnswers, logindRest, ClientStep, WireSuspend, WireResume, WireRequest,
         DispatchCommand, RestartAdapter, DispatchToWorker, RefuseCommand, Terminate,
         Stopped, Done, supervisorVars
<1> QED
  BY <1>1, <1>2, <1>3

(* What a handler does to the queue.                                       *)
LEMMA HandlerQueue ==
  ASSUME TypeOK, HandlerMoves
  PROVE  \/ queued' = << >> /\ GateOpens
         \/ /\ UNCHANGED queued /\ ~GateOpens
            /\ suspended => suspended'
<1>1. suspended \in BOOLEAN
  BY DEF TypeOK, SupervisorTypeOK
<1>2. CASE GateOpens
  BY <1>2 DEF GateOpens
<1>3. CASE ~GateOpens
  BY <1>1, <1>3
     DEF HandlerMoves, RequestNoted, NothingPumped, SuspendStarts, ResumeStarts,
         SuspendEnds, ResumeEnds, SafetyFires, ReconnectMoves, GateKept
<1> QED
  BY <1>2, <1>3

(* What is not yet reached is not reached by earlier numbers.              *)
LEMMA AtLeastGrows ==
  ASSUME NEW s, NEW n \in Nat, NEW m \in Nat, n <= m, ~Occurs(s, AtLeast(n))
  PROVE  ~Occurs(s, AtLeast(m))
<1>1. \A k \in Nat : k >= m => k >= n
  OBVIOUS
<1> QED
  BY <1>1 DEF Occurs, AtLeast

(* Replayed commands are in the order in which they were queued.           *)
LEMMA ReplayedInOrder ==
  ASSUME TypeOK, LineInv
  PROVE  /\ Replayed(queued) \in Seq(Job) /\ Sorted(Replayed(queued))
         /\ \A j \in DOMAIN Replayed(queued) : ~Occurs(Pipeline, AtLeast(Replayed(queued)[j].id))
         /\ ~Occurs(Replayed(queued), AtLeast(CommandId))
<1>1. Replayed(queued) \in Seq(Job)
  BY ReplayedAreJobs DEF Replayed, TypeOK, SupervisorTypeOK
<1>2. /\ DOMAIN Replayed(queued) = DOMAIN queued
      /\ \A j \in DOMAIN queued : Replayed(queued)[j].id = queued[j]
  BY DEF Replayed
<1>3. Sorted(Replayed(queued))
  BY <1>2 DEF LineInv, Sorted, Increasing
<1>4. \A j \in DOMAIN queued : queued[j] < CommandId /\ queued[j] \in Nat
  BY ElementOfSeq, LenProperties DEF LineInv, TypeOK, SupervisorTypeOK
<1>5. ~Occurs(Replayed(queued), AtLeast(CommandId))
  <2>1. CommandId \in Nat
    BY CommandIdType
  <2>2. \A j \in DOMAIN queued : ~(Replayed(queued)[j].id >= CommandId)
    BY <1>2, <1>4, <2>1
  <2>3. \A f \in AtLeast(CommandId) : f.id >= CommandId
    BY DEF AtLeast
  <2> QED
    BY <1>2, <2>2, <2>3 DEF Occurs
<1> QED
  BY <1>1, <1>2, <1>3, <1>5 DEF LineInv

(* The order is kept when jobs are added that no command is behind of.     *)
LEMMA LineGrows ==
  ASSUME TypeOK, LineInv, NEW add \in Seq(Job), Pipeline' = Pipeline \o add, Sorted(add),
         \A j \in DOMAIN add : add[j].kind \in CommandKinds => ~Occurs(Pipeline, AtLeast(add[j].id)),
         NEW q \in Seq(Nat), queued' = q, NEW n \in Nat, CommandId' = n, CommandId <= n,
         Increasing(q), q # << >> => suspended',
         \A j \in DOMAIN q : /\ ~Occurs(Pipeline, AtLeast(q[j])) /\ ~Occurs(add, AtLeast(q[j]))
                             /\ q[j] < n,
         ~Occurs(add, AtLeast(n))
  PROVE  LineInv'
<1>1. Pipeline \in Seq(Job) /\ CommandId \in Nat
  BY TokensType, CommandIdType
<1>2. Sorted(Pipeline')
  BY <1>1, SortedJoin DEF LineInv
<1>3. \A S : Occurs(Pipeline', S) <=> Occurs(Pipeline, S) \/ Occurs(add, S)
  BY <1>1, OccursJoin
<1>4. ~Occurs(Pipeline, AtLeast(n))
  BY <1>1, AtLeastGrows DEF LineInv
<1> QED
  BY <1>2, <1>3, <1>4 DEF LineInv

(* The order is kept when jobs are finished or dropped.                    *)
LEMMA LineShrinks ==
  ASSUME TypeOK, LineInv, Sorted(Pipeline'),
         \A S : Occurs(Pipeline', S) => Occurs(Pipeline, S),
         UNCHANGED queued \/ queued' = << >>, CommandId <= CommandId', CommandId' \in Nat,
         UNCHANGED suspended
  PROVE  LineInv'
<1>1. CommandId \in Nat
  BY CommandIdType
<1>2. \A S : ~Occurs(Pipeline, S) => ~Occurs(Pipeline', S)
  OBVIOUS
<1>3. ~Occurs(Pipeline', AtLeast(CommandId'))
  <2> DEFINE n == CommandId'
  <2> HIDE DEF n
  <2>1. n \in Nat /\ CommandId <= n
    BY DEF n
  <2>2. ~Occurs(Pipeline, AtLeast(n))
    BY <1>1, <2>1, AtLeastGrows DEF LineInv
  <2> QED
    BY <1>2, <2>2 DEF n
<1>4. CASE UNCHANGED queued
  <2>1. \A j \in DOMAIN queued : queued[j] \in Nat
    BY ElementOfSeq, LenProperties DEF TypeOK, SupervisorTypeOK
  <2>2. \A j \in DOMAIN queued : queued[j] < CommandId'
    BY <1>1, <2>1 DEF LineInv
  <2> QED
    BY <1>2, <1>3, <1>4, <2>2 DEF LineInv
<1>5. CASE queued' = << >>
  <2>1. DOMAIN << >> = {}
    OBVIOUS
  <2> QED
    BY <1>3, <1>5, <2>1 DEF LineInv, Increasing
<1> QED
  BY <1>4, <1>5

(* Every step keeps the commands in order.                                 *)
LEMMA NextKeepsOrder ==
  ASSUME TypeOK, TypeOK', LineInv, [Next]_vars
  PROVE  LineInv'
<1>1. /\ Pipeline \in Seq(Job) /\ jobs \in Seq(Job) /\ queued \in Seq(Nat) /\ queued' \in Seq(Nat)
      /\ CommandId \in Nat
  BY TokensType, CommandIdType DEF TypeOK, WorkerTypeOK, SupervisorTypeOK
<1>2. CommandId' \in Nat /\ CommandId <= CommandId'
  <2> DEFINE n == CommandId'
  <2>1. n \in {CommandId, CommandId + 1}
    BY CommandIdGrows
  <2> HIDE DEF n
  <2>2. n \in Nat /\ CommandId <= n
    BY <1>1, <2>1
  <2> QED
    BY <2>2 DEF n
<1>3. /\ Sorted(<< >>) /\ Increasing(<< >>) /\ << >> \in Seq(Job) /\ << >> \in Seq(Nat)
      /\ DOMAIN << >> = {} /\ \A S : ~Occurs(<< >>, S)
  <2>1. DOMAIN << >> = {}
    OBVIOUS
  <2> QED
    BY <2>1, EmptySeq, OccursSmall DEF Sorted, Increasing
<1>4. \A e \in Job : <<e>> \in Seq(Job) /\ DOMAIN <<e>> = {1} /\ <<e>>[1] = e
  OBVIOUS
<1>5. \A e \in Job : Sorted(<<e>>) /\ \A S : Occurs(<<e>>, S) <=> e \in S
  BY <1>4, OccursSmall DEF Sorted
<1>6. \A j \in DOMAIN queued : queued[j] \in Nat
  BY <1>1, ElementOfSeq, LenProperties
<1>7. CASE SupervisorStep
  <2>1. HandlerMoves /\ CommandId' = CommandId
    BY <1>7, SupervisorMoves, ClientsLeftAlone
  <2>2. PICK add \in Seq(Job) :
              /\ Pipeline' = Pipeline \o add
              /\ \/ add = << >>
                 \/ SuspendStarts /\ add = <<[kind |-> "suspend", id |-> 0]>>
                 \/ ResumeStarts /\ add = <<[kind |-> "resume", id |-> 0]>>
                 \/ ReconnectMoves /\ ~suspended /\ add = <<[kind |-> "reconnect", id |-> 0]>>
                 \/ GateOpens /\ add = Replayed(queued)
    BY <2>1, HandlerPipeline
  <2>3. \/ queued' = << >> /\ GateOpens
        \/ UNCHANGED queued /\ ~GateOpens /\ (suspended => suspended')
    BY <2>1, HandlerQueue
  <2>4. /\ Increasing(queued') /\ (queued' # << >> => suspended')
        /\ \A j \in DOMAIN queued' : /\ ~Occurs(Pipeline, AtLeast(queued'[j]))
                                     /\ queued'[j] < CommandId
    BY <1>3, <2>3 DEF LineInv
  <2>5. ASSUME Sorted(add),
               \A j \in DOMAIN add :
                 add[j].kind \in CommandKinds => ~Occurs(Pipeline, AtLeast(add[j].id)),
               \A j \in DOMAIN queued' : ~Occurs(add, AtLeast(queued'[j])),
               ~Occurs(add, AtLeast(CommandId))
        PROVE  LineInv'
    <3> DEFINE q == queued'
    <3>1. /\ q \in Seq(Nat) /\ CommandId <= CommandId /\ CommandId \in Nat
          /\ Increasing(q) /\ (q # << >> => suspended')
          /\ \A j \in DOMAIN q : /\ ~Occurs(Pipeline, AtLeast(q[j])) /\ ~Occurs(add, AtLeast(q[j]))
                                 /\ q[j] < CommandId
      BY <1>1, <2>4, <2>5
    <3>2. queued' = q
      OBVIOUS
    <3> HIDE DEF q
    <3> QED
      BY <2>1, <2>2, <2>5, <3>1, <3>2, LineGrows
  <2>6. CASE add = << >>
    BY <1>3, <2>5, <2>6
  <2>7. ASSUME NEW kind \in {"suspend", "resume", "reconnect"},
               add = <<[kind |-> kind, id |-> 0]>>
        PROVE  LineInv'
    <3> DEFINE e == [kind |-> kind, id |-> 0]
    <3>1. e \in Job /\ e.kind \notin CommandKinds /\ \A n : e \notin AtLeast(n)
      BY DEF Job, JobKind, CommandKinds, AtLeast
    <3>2. add = <<e>>
      BY <2>7
    <3> HIDE DEF e
    <3>3. Sorted(add) /\ (\A n : ~Occurs(add, AtLeast(n))) /\ DOMAIN add = {1} /\ add[1] = e
      BY <1>4, <1>5, <3>1, <3>2
    <3> QED
      BY <2>5, <3>1, <3>3
  <2>8. CASE GateOpens /\ add = Replayed(queued)
    <3>1. queued' = << >>
      BY <2>3, <2>8
    <3> QED
      BY <1>3, <2>5, <2>8, <3>1, ReplayedInOrder
  <2> QED
    BY <2>2, <2>6, <2>7, <2>8
<1>8. CASE ~SupervisorStep
  <2>1. UNCHANGED suspended
    BY <1>8, OtherMoves
  <2>2. CASE /\ suspended /\ queued' = Append(queued, CommandId) /\ CommandId' = CommandId + 1
             /\ UNCHANGED Pipeline
    <3>1. Pipeline' = Pipeline \o << >>
      BY <1>1, <2>2, ConcatEmptySeq
    <3>2. /\ DOMAIN queued = 1 .. Len(queued) /\ Len(queued) \in Nat
          /\ DOMAIN queued' = 1 .. Len(queued) + 1
          /\ \A i \in 1 .. Len(queued) : queued'[i] = queued[i]
          /\ queued'[Len(queued) + 1] = CommandId
      BY <1>1, <2>2, AppendProperties, LenProperties
    <3>3. \A j \in DOMAIN queued' : j \in DOMAIN queued \/ j = Len(queued) + 1
      BY <3>2
    <3>4. \A j \in DOMAIN queued' : ~Occurs(Pipeline, AtLeast(queued'[j]))
      BY <3>2, <3>3 DEF LineInv
    <3>5. \A j \in DOMAIN queued' : queued'[j] < CommandId + 1
      <4>1. \A j \in DOMAIN queued : queued[j] < CommandId + 1
        BY <1>1, <1>6 DEF LineInv
      <4>2. CommandId < CommandId + 1
        BY <1>1
      <4> QED
        BY <3>2, <3>3, <4>1, <4>2
    <3>6. Increasing(queued')
      <4> SUFFICES ASSUME NEW i \in DOMAIN queued', NEW j \in DOMAIN queued', i < j
                   PROVE  queued'[i] < queued'[j]
        BY DEF Increasing
      <4>1. i \in DOMAIN queued
        BY <3>2
      <4>2. CASE j \in DOMAIN queued
        BY <3>2, <4>1, <4>2 DEF LineInv, Increasing
      <4>3. CASE j = Len(queued) + 1
        BY <3>2, <4>1, <4>3 DEF LineInv
      <4> QED
        BY <3>3, <4>2, <4>3
    <3>7. \A S : ~Occurs(<< >>, S)
      BY <1>3
    <3>8. CommandId + 1 \in Nat /\ CommandId <= CommandId + 1
      BY <1>1
    <3> QED
      BY <1>1, <1>3, <2>1, <2>2, <3>1, <3>4, <3>5, <3>6, <3>7, <3>8, LineGrows
  <2>3. CASE UNCHANGED queued \/ queued' = << >>
    <3>1. CASE \/ QuietStep \/ ClosureStarts \/ EventPosted \/ CallStarts \/ ReplyGiven
      <4>1. UNCHANGED Pipeline
        BY <3>1 DEF QuietStep, ClosureStarts, EventPosted, CallStarts, ReplyGiven
      <4>2. Sorted(Pipeline')
        BY <4>1 DEF LineInv
      <4> QED
        BY <1>2, <2>1, <2>3, <4>1, <4>2, LineShrinks
    <3>2. CASE JobEnds
      <4>1. job \in Job /\ Pipeline = <<job>> \o jobs /\ Pipeline' = jobs
        BY <3>2 DEF JobEnds
      <4>2. Sorted(<<job>> \o jobs)
        BY <4>1 DEF LineInv
      <4>3. Sorted(Pipeline')
        BY <1>1, <4>1, <4>2, SortedTail
      <4>4. \A S : Occurs(Pipeline', S) => Occurs(Pipeline, S)
        BY <1>1, <1>4, <4>1, OccursJoin
      <4> QED
        BY <1>2, <2>1, <2>3, <4>3, <4>4, LineShrinks
    <3>3. CASE WorkerEnds
      <4>1. Pipeline' = << >>
        BY <3>3 DEF WorkerEnds
      <4>2. Sorted(Pipeline') /\ \A S : Occurs(Pipeline', S) => Occurs(Pipeline, S)
        BY <1>3, <4>1
      <4> QED
        BY <1>2, <2>1, <2>3, <4>2, LineShrinks
    <3>4. CASE CommandSubmitted
      <4>1. PICK kind \in {"command", "restart"} :
              Pipeline' = Pipeline \o <<[kind |-> kind, id |-> CommandId]>>
        BY <3>4 DEF CommandSubmitted
      <4> DEFINE e == [kind |-> kind, id |-> CommandId]
      <4>2. e \in Job /\ e.id = CommandId /\ \A n \in Nat : e \in AtLeast(n) => CommandId >= n
        BY <1>1 DEF Job, JobKind, AtLeast
      <4> HIDE DEF e
      <4>3. <<e>> \in Seq(Job) /\ Pipeline' = Pipeline \o <<e>>
        BY <1>4, <4>1, <4>2 DEF e
      <4>4. queued' = << >> /\ CommandId' = CommandId + 1
        BY <2>3, <3>4 DEF LineInv, CommandSubmitted
      <4>5. CommandId + 1 \in Nat /\ CommandId <= CommandId + 1 /\ ~(CommandId >= CommandId + 1)
        BY <1>1
      <4>6. ~Occurs(<<e>>, AtLeast(CommandId + 1)) /\ Sorted(<<e>>)
        BY <1>5, <4>2, <4>5
      <4>7. \A j \in DOMAIN <<e>> : ~Occurs(Pipeline, AtLeast(<<e>>[j].id))
        BY <1>4, <4>2 DEF LineInv
      <4> QED
        BY <1>1, <1>3, <4>3, <4>4, <4>5, <4>6, <4>7, LineGrows
    <3> QED
      BY <1>8, <3>1, <3>2, <3>3, <3>4, OtherMoves
  <2> QED
    BY <1>8, <2>2, <2>3, QueueMoves
<1> QED
  BY <1>7, <1>8

(* CommandsInOrder speaks of the numbers themselves.                       *)
LEMMA OrderMeaning ==
  ASSUME TypeOK, LineInv
  PROVE  CommandsInOrder
<1>1. Pipeline \in Seq(Job)
  BY TokensType
<1>2. \A i \in DOMAIN Pipeline : Pipeline[i] \in Job
  BY <1>1, ElementOfSeq, LenProperties
<1>3. \A j \in DOMAIN queued : queued[j] \in Nat
  BY ElementOfSeq, LenProperties DEF TypeOK, SupervisorTypeOK
<1>4. ASSUME NEW i \in DOMAIN Pipeline, NEW j \in DOMAIN queued, Pipeline[i].kind \in CommandKinds
      PROVE  Pipeline[i].id < queued[j]
  <2>1. Pipeline[i] \in Job /\ Pipeline[i] \notin AtLeast(queued[j]) /\ queued[j] \in Nat
    BY <1>2, <1>3 DEF LineInv, Occurs
  <2>2. Pipeline[i].id \in Nat /\ ~(Pipeline[i].id >= queued[j])
    BY <1>4, <2>1 DEF Job, AtLeast
  <2> QED
    BY <2>1, <2>2
<1> QED
  BY <1>4 DEF CommandsInOrder, LineInv, Sorted, Increasing, CommandKinds

(* Commands reach the adapter in the order in which the daemon read them,  *)
(* however many of them are queued over a suspend and replayed, and        *)
(* whatever else the worker is given in between.                           *)
THEOREM CommandsKeepOrder == Spec => []CommandsInOrder
<1>1. Init => LineInv
  <2> SUFFICES ASSUME Init PROVE LineInv
    OBVIOUS
  <2>1. DOMAIN << >> = {} /\ queued = << >>
    BY DEF Init, SupervisorInit
  <2> QED
    BY <2>1, InitEmpty DEF LineInv, Sorted, Increasing
<1>2. TypeOK /\ LineInv /\ [Next]_vars => LineInv'
  BY NextKeepsTypes, NextKeepsOrder
<1>3. TypeOK /\ LineInv => CommandsInOrder
  BY OrderMeaning
<1> QED
  BY <1>1, <1>2, <1>3, TypeCorrect, PTL DEF Spec

-----------------------------------------------------------------------------
(* An event of the safety timer that comes too late. *)

SafetyCall == FramesOf({"safetyTimerFired"})

(* No closure of the batch being run ends a resume.                        *)
NoResumeInBatch == \A i \in 1 .. batch : work[i] \notin ResumeEnd

(* A step that ends no cycle keeps what is known of the event.             *)
LEMMA WindowKept ==
  ASSUME SameSuspend \/ SuspendOver,
         UNCHANGED <<ready, suspended>>, lifecycle'.phase = lifecycle.phase,
         safetyTimer # "armed" => safetyTimer' # "armed",
         Occurs(calls', SuspendEnd) <=> Occurs(calls, SuspendEnd),
         Occurs(calls', ResumeEnd) => Occurs(calls, ResumeEnd),
         NoResumeInBatch => NoResumeInBatch'
  PROVE  SameSuspend' \/ SuspendOver'
<1>1. ResumeEnd' = ResumeEnd /\ SuspendEnd' = SuspendEnd
  BY DEF ResumeEnd, SuspendEnd, FramesOf, ResumeFns
<1>2. NoResumeInBatch' <=> \A i \in 1 .. batch' : work'[i] \notin ResumeEnd
  BY <1>1 DEF NoResumeInBatch
<1>3. /\ Occurs(calls, SuspendEnd)' <=> Occurs(calls', SuspendEnd)
      /\ Occurs(calls, ResumeEnd)' <=> Occurs(calls', ResumeEnd)
  BY <1>1 DEF Occurs
<1>4. CASE SameSuspend
  BY <1>3, <1>4 DEF SameSuspend
<1>5. CASE SuspendOver
  BY <1>2, <1>3, <1>5 DEF SuspendOver, NoResumeInBatch
<1> QED
  BY <1>4, <1>5

(* A call that is first is found among the calls.                          *)
LEMMA RunningOccurs ==
  ASSUME TypeOK, NEW fn, Running(fn), NEW fns
  PROVE  /\ calls # << >> /\ calls \in Seq(Frame) /\ Head(calls) \in Frame
         /\ Head(calls) \in FramesOf(fns) <=> fn \in fns
         /\ fn \in fns => Occurs(calls, FramesOf(fns))
         /\ fn \notin fns => (Occurs(calls, FramesOf(fns)) <=> Occurs(Tail(calls), FramesOf(fns)))
<1>1. calls # << >> /\ Head(calls).fn = fn /\ calls \in Seq(Frame)
  BY DEF Running, TypeOK, LoopTypeOK
<1>2. Head(calls) \in Frame
  BY <1>1, HeadTailProperties
<1>3. Head(calls) \in FramesOf(fns) <=> fn \in fns
  BY <1>1, <1>2, Members
<1>4. Occurs(calls, FramesOf(fns)) <=> Head(calls) \in FramesOf(fns) \/ Occurs(Tail(calls), FramesOf(fns))
  BY <1>1, OccursHead
<1> QED
  BY <1>1, <1>2, <1>3, <1>4

(* A handler, while an event of the safety timer waits behind it.          *)
LEMMA HandlerKeepsWindow ==
  ASSUME TypeOK, CycleInv, GateInv, WindowInv, Live, HandlerMoves,
         UNCHANGED <<work, batch, ready>>
  PROVE  /\ ~Occurs(calls', SafetyCall)
         /\ "safety" \in ready => SameSuspend' \/ SuspendOver'
<1>1. /\ calls # << >> /\ calls \in Seq(Frame)
      /\ Occurs(calls', SafetyCall) => Occurs(Tail(calls), SafetyCall) \/ CallMade(SafetyCall)
      /\ Occurs(Tail(calls), SafetyCall) => Occurs(calls, SafetyCall)
  BY HandlerOccurs
<1>2. ~CallMade(SafetyCall)
  BY Members DEF CallMade, SafetyCall
<1>3. ~Occurs(Tail(calls), SafetyCall)
  <2> SUFFICES ASSUME Occurs(Tail(calls), SafetyCall) PROVE FALSE
    OBVIOUS
  <2>1. calls = <<Call("safetyTimerFired")>>
    BY <1>1 DEF WindowInv, SafetyCall
  <2>2. Tail(calls) = << >>
    BY <2>1
  <2> QED
    BY <2>2, OccursSmall
<1>4. ~Occurs(calls', SafetyCall)
  BY <1>1, <1>2, <1>3
<1> SUFFICES ASSUME "safety" \in ready PROVE SameSuspend' \/ SuspendOver'
  BY <1>4
<1>5. SameSuspend \/ SuspendOver
  BY DEF WindowInv, SafetyWindow
<1>6. NoResumeInBatch => NoResumeInBatch'
  BY DEF NoResumeInBatch, ResumeEnd, FramesOf, ResumeFns
<1>7. /\ Occurs(calls', SuspendEnd) => Occurs(Tail(calls), SuspendEnd) \/ CallMade(SuspendEnd)
      /\ Occurs(Tail(calls), SuspendEnd) => Occurs(calls', SuspendEnd) /\ Occurs(calls, SuspendEnd)
      /\ Occurs(calls', ResumeEnd) => Occurs(Tail(calls), ResumeEnd) \/ CallMade(ResumeEnd)
      /\ Occurs(Tail(calls), ResumeEnd) => Occurs(calls, ResumeEnd)
  BY HandlerOccurs
<1>8. /\ CallMade(SuspendEnd) => SuspendStarts /\ suspended
      /\ CallMade(ResumeEnd) => GateOpens \/ ResumeStarts
  BY Members DEF CallMade, SuspendEnd, ResumeEnd, ResumeFns
<1>9. ASSUME NEW fn, Running(fn), fn \notin {"suspendCompleted"}
      PROVE  Occurs(calls, SuspendEnd) <=> Occurs(Tail(calls), SuspendEnd)
  BY <1>9, RunningOccurs DEF SuspendEnd
<1>10. CASE RequestNoted \/ NothingPumped \/ SafetyFires \/ ReconnectMoves
  <2>1. PICK fn : Running(fn) /\ fn # "suspendCompleted"
    BY <1>10 DEF RequestNoted, Requests, NothingPumped, SafetyFires, ReconnectMoves,
                 ReconnectHandlers, Moves
  <2>2. /\ lifecycle'.phase = lifecycle.phase /\ UNCHANGED suspended
        /\ safetyTimer # "armed" => safetyTimer' # "armed"
    BY <1>10 DEF RequestNoted, NothingPumped, SafetyFires, ReconnectMoves, PhaseKept,
                 GateKept, Consumed
  <2>3. ~SuspendStarts /\ ~GateOpens /\ ~ResumeStarts
    <3>1. ~SuspendStarts /\ ~ResumeStarts
      BY <2>2 DEF SuspendStarts, ResumeStarts
    <3>2. ~GateOpens
      BY <1>10 DEF GateOpens, RequestNoted, Requests, NothingPumped, SafetyFires,
                   ReconnectMoves, ReconnectHandlers, Moves, Running
    <3> QED
      BY <3>1, <3>2
  <2>4. /\ Occurs(calls', SuspendEnd) <=> Occurs(calls, SuspendEnd)
        /\ Occurs(calls', ResumeEnd) => Occurs(calls, ResumeEnd)
    BY <1>7, <1>8, <1>9, <2>1, <2>3
  <2> QED
    BY <1>5, <1>6, <2>2, <2>4, WindowKept
<1>11. CASE SuspendStarts
  <2>1. SuspendOver /\ suspended
    BY <1>5, <1>11 DEF SuspendStarts, SameSuspend, SuspendOver
  <2>2. calls' = <<Call("suspendCompleted")>> \o Tail(calls) /\ suspended'
        /\ lifecycle'.phase = "Suspending"
    BY <1>11, <2>1 DEF SuspendStarts, Moves
  <2>3. Occurs(calls', SuspendEnd)
    <3> DEFINE c == Call("suspendCompleted")
    <3>1. c \in SuspendEnd /\ c \in Frame
      BY DEF SuspendEnd, FramesOf, Call, Frame, Handler, Closure
    <3>2. calls' = <<c>> \o Tail(calls)
      BY <2>2
    <3> HIDE DEF c
    <3>3. <<c>> \in Seq(Frame) /\ Tail(calls) \in Seq(Frame) /\ Occurs(<<c>>, SuspendEnd)
      BY <1>1, <3>1, HeadTailProperties, OccursSmall
    <3> QED
      BY <3>2, <3>3, OccursJoin
  <2>4. Occurs(calls, SuspendEnd)'
    BY <2>3 DEF Occurs, SuspendEnd, FramesOf
  <2> QED
    BY <2>1, <2>2, <2>4 DEF SuspendOver
<1>12. CASE ResumeStarts
  <2>1. SuspendOver /\ suspended /\ lifecycle.phase = "Idle"
    BY <1>5, <1>12 DEF ResumeStarts, SameSuspend, SuspendOver
  <2>2. ~Occurs(calls, ResumeEnd) /\ ~Occurs(work, ResumeEnd)
    BY <2>1, CycleParts
  <2>3. Moves("pumpQueue", << >>, <<[kind |-> "resume", id |-> 0]>>) /\ suspended'
        /\ lifecycle'.phase = "Resuming"
    BY <1>12, <2>1 DEF ResumeStarts, GateKept
  <2>4. calls' = Tail(calls)
    <3>1. Tail(calls) \in Seq(Frame) /\ calls' = << >> \o Tail(calls)
      BY <1>1, <2>3, HeadTailProperties DEF Moves
    <3> QED
      BY <3>1, ConcatEmptySeq
  <2>5. ~Occurs(calls, ResumeEnd)'
    <3>1. ~Occurs(calls', ResumeEnd)
      BY <1>7, <2>2, <2>4
    <3> QED
      BY <3>1 DEF Occurs, ResumeEnd, FramesOf, ResumeFns
  <2>6. NoResumeInBatch'
    <3>1. 1 .. batch \subseteq DOMAIN work
      BY LenProperties DEF TypeOK, LoopTypeOK
    <3>2. NoResumeInBatch
      BY <2>2, <3>1 DEF Occurs, NoResumeInBatch
    <3> QED
      BY <1>6, <3>2
  <2> QED
    BY <2>1, <2>3, <2>5, <2>6 DEF SuspendOver, NoResumeInBatch
<1>13. CASE SuspendEnds
  <2>1. Running("suspendCompleted") /\ GateKept
    BY <1>13 DEF SuspendEnds, Moves
  <2>2. Occurs(calls, SuspendEnd)
    BY <2>1, RunningOccurs DEF SuspendEnd
  <2>3. lifecycle.phase = "Suspending"
    BY <2>2, CycleParts
  <2>4. suspended' /\ lifecycle'.phase = "Idle"
    BY <1>13, <2>1, <2>3 DEF GateInv, GateKept, SuspendEnds
  <2>5. "work" \notin ready
    BY <1>5, <2>2 DEF SameSuspend, SuspendOver
  <2> QED
    BY <2>4, <2>5 DEF SuspendOver
<1>14. CASE GateOpens \/ ResumeEnds
  <2>1. PICK fn \in ResumeFns : Running(fn)
    BY <1>14 DEF GateOpens, ResumeEnds, Moves, ResumeFns
  <2>2. Occurs(calls, ResumeEnd)
    BY <2>1, RunningOccurs DEF ResumeEnd
  <2>3. lifecycle.phase = "Resuming"
    BY <2>2, CycleParts
  <2> QED
    BY <1>5, <2>2, <2>3 DEF SameSuspend, SuspendOver
<1> QED
  BY <1>10, <1>11, <1>12, <1>13, <1>14 DEF HandlerMoves

(* Apart from the loop, the timers and stop(), a step leaves the events    *)
(* and the batch alone and only adds closures behind it.                   *)
LEMMA WindowRest ==
  ASSUME [Next]_vars, ~SupervisorStep, ~LoopStep, ~TimerStep, ~Stop
  PROVE  /\ UNCHANGED <<ready, batch, safetyTimer>>
         /\ UNCHANGED work \/ \E c : work' = Append(work, c)
         /\ \/ UNCHANGED calls
            \/ calls = << >> /\ \E fn \in {"suspendWire", "resumeWire"} : calls' = <<Call(fn)>>
            \/ Running("reply") /\ calls' = Tail(calls)
<1>1. CASE BusStep
  BY <1>1 DEF BusStep, OnPrepareForSleep, OnInhibitReply, loopVars, Post
<1>2. CASE AdapterStep \/ ConnectionLost \/ AlertStep
  <2>1. UNCHANGED <<ready, batch, safetyTimer, calls>>
    BY <1>2 DEF AdapterStep, ConnectionLost, AlertStep, workerRest
  <2>2. CASE AdapterStep
    BY <2>1, <2>2
       DEF AdapterStep, WorkerStep, TakeJob, CloseConnection, LibcecClose, ReopenConnection,
           LibcecDestroy, OpenFails, OpenSucceeds, MarkConnected, CheckConnected,
           FinishJob, WorkerExit, Post
  <2>3. CASE ConnectionLost \/ AlertStep
    BY <2>1, <2>3 DEF ConnectionLost, AlertStep, AlertClearsFlag, AlertPosts, Post
  <2> QED
    BY <1>2, <2>2, <2>3
<1>3. CASE WireSuspend \/ WireResume
  BY <1>3 DEF WireSuspend, WireResume, WireRequest, AtDispatchPoint
<1>4. CASE Reply
  BY <1>4 DEF Reply
<1>5. CASE \/ LogindSleeps \/ LogindWakes \/ LogindAnswers \/ DispatchCommand
           \/ RestartAdapter \/ EnqueueCommand \/ RefuseCommand \/ Terminate \/ Stopped
           \/ UNCHANGED vars
  BY <1>5
     DEF LogindSleeps, LogindWakes, LogindAnswers, logindRest, DispatchCommand,
         RestartAdapter, DispatchToWorker, EnqueueCommand, RefuseCommand, Terminate,
         Stopped, vars, loopVars
<1> QED
  BY <1>1, <1>2, <1>3, <1>4, <1>5 DEF Next, MainStep, HandlerStep, ClientStep, Done

(* What a step that is not a handler leaves true of a late event.          *)
LEMMA LoopKeepsWindow ==
  ASSUME TypeOK, SafetyTimerOnlyInSuspend, WindowInv, Live, LoopStep
  PROVE  WindowInv'
<1> DEFINE Kept == SameSuspend' \/ SuspendOver'
<1>1. /\ UNCHANGED <<suspended, lifecycle>> /\ MainLoopStep
      /\ work \in Seq([fn : Closure, id : Nat]) /\ batch \in 0 .. Len(work)
  BY DEF LoopStep, supervisorVars, TypeOK, LoopTypeOK
<1>2. /\ Occurs(calls, SafetyCall)' <=> Occurs(calls', SafetyCall)
      /\ Occurs(calls, SuspendEnd)' <=> Occurs(calls', SuspendEnd)
  BY DEF Occurs, SafetyCall, SuspendEnd, FramesOf
<1>3. SUFFICES /\ batch' > 0 => "work" \notin ready'
               /\ Occurs(calls', SafetyCall) => calls' = <<Call("safetyTimerFired")>>
               /\ "safety" \in ready' \/ Running("safetyTimerFired")' => Kept
  BY <1>2 DEF WindowInv, SafetyWindow, SafetyCall
<1>4. \A fn : /\ Call(fn) \in SuspendEnd <=> fn = "suspendCompleted"
              /\ Call(fn) \in ResumeEnd <=> fn \in ResumeFns
  BY Members DEF SuspendEnd, ResumeEnd
<1>5. ASSUME calls = << >>
      PROVE  /\ ~Occurs(calls, SuspendEnd) /\ ~Occurs(calls, ResumeEnd)
             /\ ~Occurs(calls, SafetyCall) /\ ~Running("safetyTimerFired")
  BY <1>5, OccursSmall DEF Running
<1>6. CASE Poll
  <2>1. /\ calls = << >> /\ batch = 0 /\ ready' = Readable
        /\ UNCHANGED <<work, batch, calls, safetyTimer>>
    BY <1>6 DEF Poll, AtDispatchPoint
  <2>2. ~Occurs(calls', SafetyCall) /\ ~Occurs(calls, SuspendEnd)' /\ ~Running("safetyTimerFired")'
    BY <1>2, <1>5, <2>1 DEF Running
  <2>3. "safety" \in ready' => safetyTimer = "expired"
    BY <2>1 DEF Readable
  <2>4. "safety" \in ready' => SameSuspend'
    BY <1>1, <2>1, <2>2, <2>3 DEF SafetyTimerOnlyInSuspend, SameSuspend
  <2> QED
    BY <2>1, <2>2, <2>4
<1>7. CASE Drain
  <2>1. /\ calls = << >> /\ "work" \in ready /\ ready' = ready \ {"work"}
        /\ UNCHANGED <<calls, safetyTimer>>
    BY <1>7 DEF Drain, AtDispatchPoint
  <2>2. ~Occurs(calls', SafetyCall) /\ ~Running("safetyTimerFired")'
    BY <1>5, <2>1 DEF Running
  <2>3. "safety" \in ready' => SameSuspend
    BY <2>1 DEF WindowInv, SafetyWindow, SuspendOver
  <2>4. "safety" \in ready' => SameSuspend'
    BY <1>1, <2>1, <2>3 DEF SameSuspend
  <2> QED
    BY <2>1, <2>2, <2>4
<1>8. CASE RunClosure
  <2>1. /\ calls = << >> /\ batch > 0 /\ batch' = batch - 1
        /\ calls' = <<Head(work)>> /\ work' = Tail(work)
        /\ UNCHANGED <<ready, safetyTimer>>
    BY <1>8 DEF RunClosure
  <2>2. /\ work # << >> /\ Len(work) \in Nat \ {0} /\ Head(work) = work[1]
        /\ Head(work) \in [fn : Closure, id : Nat]
        /\ \A i \in 1 .. Len(work) - 1 : Tail(work)[i] = work[i + 1]
    <3>1. work # << >> /\ Len(work) \in Nat \ {0}
      BY <1>1, <2>1, LenProperties
    <3>2. /\ Head(work) \in [fn : Closure, id : Nat] /\ Len(Tail(work)) = Len(work) - 1
          /\ \A i \in 1 .. Len(Tail(work)) : Tail(work)[i] = work[i + 1]
      BY <1>1, <3>1, HeadTailProperties
    <3>3. Head(work) = work[1]
      OBVIOUS
    <3> QED
      BY <3>1, <3>2, <3>3
  <2>3. Head(work) \notin SafetyCall
    BY <2>2 DEF SafetyCall, FramesOf, Closure
  <2>4. ~Occurs(calls', SafetyCall) /\ ~Running("safetyTimerFired")'
    <3>1. ~Occurs(calls', SafetyCall)
      BY <2>1, <2>3, OccursSmall
    <3>2. Head(calls') = Head(work)
      BY <2>1
    <3>3. Head(work).fn # "safetyTimerFired"
      BY <2>2 DEF Closure
    <3> QED
      BY <3>1, <3>2, <3>3 DEF Running
  <2>5. "work" \notin ready'
    BY <2>1 DEF WindowInv
  <2>6. ASSUME "safety" \in ready' PROVE Kept
    <3>1. SameSuspend \/ SuspendOver
      BY <2>1, <2>6 DEF WindowInv, SafetyWindow
    <3>2. CASE SameSuspend
      BY <1>1, <2>1, <2>5, <3>2 DEF SameSuspend
    <3>3. CASE SuspendOver /\ lifecycle.phase = "Idle"
      BY <1>1, <2>5, <3>3 DEF SuspendOver
    <3>4. CASE SuspendOver /\ lifecycle.phase = "Resuming" /\ NoResumeInBatch
      <4>1. 1 \in 1 .. batch /\ Head(work) \notin ResumeEnd
        BY <1>1, <2>1, <2>2, <3>4 DEF NoResumeInBatch
      <4>2. ~Occurs(calls', ResumeEnd)
        BY <2>1, <4>1, OccursSmall
      <4>3. ~Occurs(calls, ResumeEnd)'
        BY <4>2 DEF Occurs, ResumeEnd, FramesOf, ResumeFns
      <4>4. \A i \in 1 .. batch - 1 : Tail(work)[i] \notin ResumeEnd
        <5> SUFFICES ASSUME NEW i \in 1 .. batch - 1 PROVE Tail(work)[i] \notin ResumeEnd
          OBVIOUS
        <5>1. i + 1 \in 1 .. batch /\ i \in 1 .. Len(work) - 1
          BY <1>1, <2>1, <2>2
        <5> QED
          BY <2>2, <3>4, <5>1 DEF NoResumeInBatch
      <4>5. (\A i \in 1 .. batch : work[i] \notin ResumeEnd)'
        BY <2>1, <4>4 DEF ResumeEnd, FramesOf, ResumeFns
      <4> QED
        BY <1>1, <2>5, <3>4, <4>3, <4>5 DEF SuspendOver
    <3> QED
      BY <1>5, <2>1, <3>1, <3>2, <3>3, <3>4 DEF SuspendOver, NoResumeInBatch
  <2> QED
    BY <2>4, <2>5, <2>6
<1>9. ASSUME NEW event \in {"safety", "retry"}, NEW fn \in {"safetyTimerFired", "retryTimerFired"},
             DispatchTimer(event, fn), fn = "safetyTimerFired" => event = "safety"
      PROVE  /\ batch' > 0 => "work" \notin ready'
             /\ Occurs(calls', SafetyCall) => calls' = <<Call("safetyTimerFired")>>
             /\ "safety" \in ready' \/ Running("safetyTimerFired")' => Kept
  <2>1. /\ calls = << >> /\ batch = 0 /\ event \in ready /\ ready' = ready \ {event}
        /\ calls' = <<Call(fn)>> /\ UNCHANGED <<work, batch, safetyTimer>>
    BY <1>9 DEF DispatchTimer, AtDispatchPoint
  <2>2. /\ Occurs(calls', SafetyCall) => fn = "safetyTimerFired"
        /\ ~Occurs(calls', SuspendEnd) /\ ~Occurs(calls', ResumeEnd)
    <3>1. Call(fn) \notin SuspendEnd /\ Call(fn) \notin ResumeEnd
      BY <1>4 DEF ResumeFns
    <3>2. Call(fn) \in SafetyCall => fn = "safetyTimerFired"
      BY Members DEF SafetyCall
    <3> QED
      BY <2>1, <3>1, <3>2, OccursSmall
  <2>3. ASSUME "safety" \in ready' \/ Running("safetyTimerFired")' PROVE Kept
    <3>1. Running("safetyTimerFired")' => fn = "safetyTimerFired"
      <4>1. Head(calls').fn = fn
        BY <2>1 DEF Call
      <4> QED
        BY <4>1 DEF Running
    <3>2. "safety" \in ready
      BY <1>9, <2>1, <2>3, <3>1
    <3>3. SameSuspend \/ SuspendOver
      BY <3>2 DEF WindowInv, SafetyWindow
    <3>4. "work" \in ready' <=> "work" \in ready
      BY <1>9, <2>1
    <3>5. ~Occurs(calls, SuspendEnd)' /\ ~Occurs(calls, ResumeEnd)'
      BY <2>2 DEF Occurs, SuspendEnd, ResumeEnd, FramesOf, ResumeFns
    <3>6. CASE SameSuspend
      BY <1>1, <2>1, <3>5, <3>6 DEF SameSuspend
    <3>7. CASE SuspendOver
      BY <1>1, <1>5, <2>1, <3>4, <3>5, <3>7 DEF SuspendOver
    <3> QED
      BY <3>3, <3>6, <3>7
  <2> QED
    BY <2>1, <2>2, <2>3
<1> HIDE DEF Kept
<1>10. CASE DispatchSafetyTimer
  BY <1>9, <1>10 DEF DispatchSafetyTimer
<1>11. CASE DispatchRetryTimer
  BY <1>9, <1>11 DEF DispatchRetryTimer
<1> QED
  BY <1>1, <1>6, <1>7, <1>8, <1>10, <1>11 DEF MainLoopStep


(* A call of safetyTimerFired that is first is found among the calls.      *)
LEMMA SafetyFirst ==
  ASSUME NEW s \in Seq(Frame), s # << >>, Head(s).fn = "safetyTimerFired"
  PROVE  Occurs(s, SafetyCall)
<1>1. Head(s) \in Frame
  BY HeadTailProperties
<1>2. Head(s) \in SafetyCall
  BY <1>1, Members DEF SafetyCall
<1> QED
  BY <1>2, OccursHead

(* A step that is neither a handler nor the loop's own, while an event of  *)
(* the safety timer waits.                                                 *)
LEMMA OthersKeepWindow ==
  ASSUME TypeOK, WindowInv, Live, [Next]_vars, ~SupervisorStep, ~LoopStep, ~Stop,
         "safety" \in ready \/ Running("safetyTimerFired")
  PROVE  SameSuspend' \/ SuspendOver'
<1>1. UNCHANGED <<suspended, lifecycle>>
  BY OtherMoves
<1>2. SameSuspend \/ SuspendOver
  BY DEF WindowInv, SafetyWindow
<1>3. CASE TimerStep
  <2>1. /\ UNCHANGED <<work, batch, ready, calls>>
        /\ safetyTimer # "armed" => safetyTimer' # "armed"
    BY <1>3 DEF TimerStep, SafetyTimerExpires, RetryTimerExpires
  <2>2. NoResumeInBatch => NoResumeInBatch'
    BY <2>1 DEF NoResumeInBatch, ResumeEnd, FramesOf, ResumeFns
  <2> QED
    BY <1>1, <1>2, <2>1, <2>2, WindowKept
<1>4. CASE ~TimerStep
  <2>1. /\ UNCHANGED <<ready, batch, safetyTimer>>
        /\ UNCHANGED work \/ \E c : work' = Append(work, c)
        /\ \/ UNCHANGED calls
           \/ calls = << >> /\ \E fn \in {"suspendWire", "resumeWire"} : calls' = <<Call(fn)>>
           \/ Running("reply") /\ calls' = Tail(calls)
    BY <1>4, WindowRest
  <2>2. NoResumeInBatch => NoResumeInBatch'
    <3>1. /\ work \in Seq([fn : Closure, id : Nat]) /\ batch \in 0 .. Len(work)
      BY DEF TypeOK, LoopTypeOK
    <3>2. \A i \in 1 .. batch : work'[i] = work[i]
      <4>1. CASE UNCHANGED work
        BY <4>1
      <4>2. ASSUME NEW c, work' = Append(work, c)
            PROVE  \A i \in 1 .. batch : work'[i] = work[i]
        <5> DEFINE C == [fn : Closure, id : Nat]
                   T == C \cup {c}
        <5>1. work \in Seq(T) /\ c \in T
          <6>1. work \in Seq(C)
            BY <3>1
          <6>2. C \subseteq T /\ c \in T
            OBVIOUS
          <6> HIDE DEF C, T
          <6> QED
            BY <6>1, <6>2
        <5> HIDE DEF T
        <5>2. \A i \in 1 .. Len(work) : Append(work, c)[i] = work[i]
          BY <5>1, AppendProperties
        <5>3. Len(work) \in Nat
          BY <5>1, LenProperties
        <5> QED
          BY <3>1, <4>2, <5>2, <5>3
      <4> QED
        BY <2>1, <4>1, <4>2
    <3> QED
      BY <2>1, <3>2 DEF NoResumeInBatch, ResumeEnd, FramesOf, ResumeFns
  <2>3. /\ Occurs(calls', SuspendEnd) <=> Occurs(calls, SuspendEnd)
        /\ Occurs(calls', ResumeEnd) => Occurs(calls, ResumeEnd)
    <3>1. CASE UNCHANGED calls
      BY <3>1
    <3>2. ASSUME calls = << >>, NEW fn \in {"suspendWire", "resumeWire"}, calls' = <<Call(fn)>>
          PROVE  /\ ~Occurs(calls', SuspendEnd) /\ ~Occurs(calls, SuspendEnd)
                 /\ ~Occurs(calls', ResumeEnd)
      <4>1. Call(fn) \notin SuspendEnd /\ Call(fn) \notin ResumeEnd
        BY Members DEF SuspendEnd, ResumeEnd, ResumeFns
      <4> QED
        BY <3>2, <4>1, OccursSmall
    <3>3. CASE Running("reply") /\ calls' = Tail(calls)
      BY <3>3, RunningOccurs DEF SuspendEnd, ResumeEnd, ResumeFns
    <3> QED
      BY <2>1, <3>1, <3>2, <3>3
  <2> QED
    BY <1>1, <1>2, <2>1, <2>2, <2>3, WindowKept
<1> QED
  BY <1>3, <1>4

(* Between two steps the event's suspend is still under way, or ended by a *)
(* batch that cannot start another one's deadline.                         *)
LEMMA NextKeepsWindow ==
  ASSUME TypeOK, TypeOK', HandlersEnd, SafetyTimerOnlyInSuspend, CycleInv, GateInv, WindowInv,
         [Next]_vars
  PROVE  WindowInv'
<1>1. Live' => Live
  BY LoopEndsOnce
<1>2. Running("safetyTimerFired")' => Occurs(calls', SafetyCall)
  <2> DEFINE q == calls'
  <2>1. q \in Seq(Frame) /\ (Running("safetyTimerFired")' => q # << >> /\ Head(q).fn = "safetyTimerFired")
    BY DEF TypeOK, LoopTypeOK, Running
  <2>2. calls' = q
    OBVIOUS
  <2> HIDE DEF q
  <2> QED
    BY <2>1, <2>2, SafetyFirst
<1>3. Occurs(calls, SafetyCall)' <=> Occurs(calls', SafetyCall)
  BY DEF Occurs, SafetyCall, FramesOf
<1>4. CASE LoopStep
  <2>1. Live
    BY <1>4 DEF LoopStep, MainLoopStep, Poll, Drain, RunClosure, DispatchSafetyTimer,
                DispatchRetryTimer, DispatchTimer, AtDispatchPoint, Live
  <2> QED
    BY <1>4, <2>1, LoopKeepsWindow
<1> SUFFICES ASSUME ~LoopStep
             PROVE  /\ batch' > 0 => "work" \notin ready'
                    /\ Occurs(calls', SafetyCall) => calls' = <<Call("safetyTimerFired")>>
                    /\ Live' /\ ("safety" \in ready' \/ Running("safetyTimerFired")')
                          => SameSuspend' \/ SuspendOver'
  BY <1>3, <1>4 DEF WindowInv, SafetyWindow, SafetyCall
<1>5. CASE SupervisorStep
  <2>1. HandlerMoves /\ UNCHANGED <<work, batch, ready>>
    BY <1>5, SupervisorMoves
  <2>2. Live
    BY <2>1, HandlerPipeline DEF HandlersEnd
  <2>3. /\ ~Occurs(calls', SafetyCall)
        /\ "safety" \in ready => SameSuspend' \/ SuspendOver'
    BY <2>1, <2>2, HandlerKeepsWindow
  <2> QED
    BY <1>2, <2>1, <2>3 DEF WindowInv
<1>6. CASE Stop
  <2>1. batch' = 0 /\ calls' = << >> /\ ~Live'
    BY <1>6 DEF Stop, Live
  <2>2. ~Occurs(calls', SafetyCall)
    BY <2>1, OccursSmall
  <2> QED
    BY <2>1, <2>2
<1>7. CASE ~SupervisorStep /\ ~Stop
  <2>1. /\ UNCHANGED <<ready, batch>>
        /\ \/ UNCHANGED calls
           \/ calls = << >> /\ \E fn \in {"suspendWire", "resumeWire"} : calls' = <<Call(fn)>>
           \/ Running("reply") /\ calls' = Tail(calls)
    <3>1. CASE TimerStep
      BY <3>1 DEF TimerStep, SafetyTimerExpires, RetryTimerExpires
    <3> QED
      BY <1>7, <3>1, WindowRest
  <2>2. \/ UNCHANGED calls
        \/ ~Occurs(calls', SafetyCall)
    <3>1. ASSUME NEW fn \in {"suspendWire", "resumeWire"}, calls' = <<Call(fn)>>
          PROVE  ~Occurs(calls', SafetyCall)
      <4>1. Call(fn) \notin SafetyCall
        BY Members DEF SafetyCall
      <4> QED
        BY <3>1, <4>1, OccursSmall
    <3>2. CASE Running("reply") /\ calls' = Tail(calls)
      <4> SUFFICES ASSUME Occurs(calls', SafetyCall) PROVE FALSE
        OBVIOUS
      <4>1. Occurs(calls, SafetyCall)
        BY <3>2, RunningOccurs DEF SafetyCall
      <4>2. calls = <<Call("safetyTimerFired")>>
        BY <4>1 DEF WindowInv, SafetyCall
      <4>3. Head(calls).fn = "safetyTimerFired"
        BY <4>2 DEF Call
      <4> QED
        BY <3>2, <4>3 DEF Running
    <3> QED
      BY <2>1, <3>1, <3>2
  <2>3. Occurs(calls', SafetyCall) => calls' = <<Call("safetyTimerFired")>>
    BY <2>2 DEF WindowInv, SafetyCall
  <2>4. Running("safetyTimerFired")' => Running("safetyTimerFired")
    BY <1>2, <2>2 DEF Running
  <2>5. Live' /\ ("safety" \in ready' \/ Running("safetyTimerFired")')
          => SameSuspend' \/ SuspendOver'
    BY <1>1, <1>7, <2>1, <2>4, OthersKeepWindow
  <2> QED
    BY <2>1, <2>3, <2>5 DEF WindowInv
<1> QED
  BY <1>5, <1>6, <1>7

(* No event of the safety timer, however late, meets a suspend whose own   *)
(* deadline is ahead: onSafetyTimerFired, which ignores what consume()     *)
(* returned, never lets logind sleep early.                                *)
THEOREM StaleSafetyHarmless == Spec => []StaleSafetyEventHarmless
<1>1. Init => WindowInv
  <2> SUFFICES ASSUME Init PROVE WindowInv
    OBVIOUS
  <2>1. batch = 0 /\ calls = << >> /\ ready = {}
    BY DEF Init, LoopInit
  <2> QED
    BY <2>1, OccursSmall DEF WindowInv, SafetyWindow, Running
<1>2. /\ TypeOK /\ TypeOK' /\ HandlersEnd /\ SafetyTimerOnlyInSuspend /\ CycleInv /\ GateInv
      /\ WindowInv /\ [Next]_vars
      => WindowInv'
  BY NextKeepsWindow
<1>3. TypeOK /\ HandlersEnd /\ WindowInv => StaleSafetyEventHarmless
  <2> SUFFICES ASSUME TypeOK, HandlersEnd, WindowInv, Running("safetyTimerFired"),
                      lifecycle.phase = "Suspending"
               PROVE  safetyTimer # "armed"
    BY DEF StaleSafetyEventHarmless
  <2>1. calls # << >> /\ Occurs(calls, SafetyCall)
    BY RunningOccurs DEF SafetyCall
  <2>2. Live
    BY <2>1 DEF HandlersEnd
  <2>3. calls = <<Call("safetyTimerFired")>>
    BY <2>1 DEF WindowInv, SafetyCall
  <2>4. ~Occurs(calls, SuspendEnd)
    <3>1. Call("safetyTimerFired") \notin SuspendEnd
      BY Members DEF SuspendEnd
    <3> QED
      BY <2>3, <3>1, OccursSmall
  <2>5. SameSuspend \/ SuspendOver
    BY <2>2 DEF WindowInv, SafetyWindow
  <2> QED
    BY <2>4, <2>5 DEF SameSuspend, SuspendOver
<1> QED
  BY <1>1, <1>2, <1>3, GateHolds, SafetyTimerCorrect, PTL DEF Spec

-----------------------------------------------------------------------------
(* Turns.  In a queue of events some are of S (a sleep is announced) and   *)
(* some of W (a wake-up is): one of S may have none of W after it, or none *)
(* before it, and two of S may have none of W between them.                *)

Unanswered(s, S, W) ==
  \E i \in DOMAIN s : s[i] \in S /\ \A k \in DOMAIN s : i < k => s[k] \notin W

Unprepared(s, S, W) ==
  \E j \in DOMAIN s : s[j] \in S /\ \A k \in DOMAIN s : k < j => s[k] \notin W

InTurn(s, S, W) ==
  \A i, j \in DOMAIN s :
    i < j /\ s[i] \in S /\ s[j] \in S => \E k \in DOMAIN s : i < k /\ k < j /\ s[k] \in W

(* Two queues one after the other.                                         *)
LEMMA TurnsJoin ==
  ASSUME NEW T, NEW s \in Seq(T), NEW t \in Seq(T), NEW S, NEW W
  PROVE  /\ Unanswered(s \o t, S, W) <=>
              Unanswered(t, S, W) \/ (Unanswered(s, S, W) /\ ~Occurs(t, W))
         /\ Unprepared(s \o t, S, W) <=>
              Unprepared(s, S, W) \/ (~Occurs(s, W) /\ Unprepared(t, S, W))
         /\ InTurn(s \o t, S, W) <=>
              /\ InTurn(s, S, W) /\ InTurn(t, S, W)
              /\ ~(Unanswered(s, S, W) /\ Unprepared(t, S, W))
<1> DEFINE c == s \o t
           n == Len(s)
           m == Len(t)
<1>1. /\ n \in Nat /\ m \in Nat
      /\ DOMAIN s = 1 .. n /\ DOMAIN t = 1 .. m /\ DOMAIN c = 1 .. n + m
      /\ \A i \in 1 .. n + m : c[i] = IF i <= n THEN s[i] ELSE t[i - n]
  BY ConcatProperties, LenProperties
<1> HIDE DEF c, n, m
<1>2. \A i \in 1 .. n : i \in 1 .. n + m /\ c[i] = s[i]
  BY <1>1
<1>3. \A j \in 1 .. m : n + j \in 1 .. n + m /\ c[n + j] = t[j]
  <2> TAKE j \in 1 .. m
  <2>1. n + j \in 1 .. n + m /\ ~(n + j <= n) /\ (n + j) - n = j
    BY <1>1
  <2> QED
    BY <1>1, <2>1
<1>4. \A i \in 1 .. n + m : i \in 1 .. n \/ \E j \in 1 .. m : i = n + j
  <2> SUFFICES ASSUME NEW i \in 1 .. n + m, i \notin 1 .. n PROVE \E j \in 1 .. m : i = n + j
    OBVIOUS
  <2>1. i - n \in 1 .. m /\ i = n + (i - n)
    BY <1>1
  <2> QED
    BY <2>1
<1>5. /\ \A i \in 1 .. n, j \in 1 .. m : i < n + j /\ ~(n + j < i)
      /\ \A j, k \in 1 .. m : n + j < n + k <=> j < k
  BY <1>1
<1>6. ASSUME Unanswered(c, S, W)
      PROVE  Unanswered(t, S, W) \/ (Unanswered(s, S, W) /\ ~Occurs(t, W))
  <2>1. PICK i \in 1 .. n + m : c[i] \in S /\ \A k \in 1 .. n + m : i < k => c[k] \notin W
    BY <1>1, <1>6 DEF Unanswered
  <2>2. CASE i \in 1 .. n
    <3>1. ~Occurs(t, W)
      BY <1>1, <1>3, <1>5, <2>1, <2>2 DEF Occurs
    <3>2. Unanswered(s, S, W)
      BY <1>1, <1>2, <2>1, <2>2 DEF Unanswered
    <3> QED
      BY <3>1, <3>2
  <2>3. CASE \E j \in 1 .. m : i = n + j
    <3>1. PICK j \in 1 .. m : i = n + j
      BY <2>3
    <3>2. t[j] \in S /\ \A k \in 1 .. m : j < k => t[k] \notin W
      BY <1>3, <1>5, <2>1, <3>1
    <3> QED
      BY <1>1, <3>2 DEF Unanswered
  <2> QED
    BY <1>4, <2>2, <2>3
<1>7. ASSUME Unanswered(t, S, W)
      PROVE  Unanswered(c, S, W)
  <2>1. PICK j \in 1 .. m : t[j] \in S /\ \A k \in 1 .. m : j < k => t[k] \notin W
    BY <1>1, <1>7 DEF Unanswered
  <2>2. \A k \in 1 .. n + m : n + j < k => c[k] \notin W
    BY <1>3, <1>4, <1>5, <2>1
  <2> QED
    BY <1>1, <1>3, <2>1, <2>2 DEF Unanswered
<1>8. ASSUME Unanswered(s, S, W), ~Occurs(t, W)
      PROVE  Unanswered(c, S, W)
  <2>1. PICK i \in 1 .. n : s[i] \in S /\ \A k \in 1 .. n : i < k => s[k] \notin W
    BY <1>1, <1>8 DEF Unanswered
  <2>2. \A k \in 1 .. m : t[k] \notin W
    BY <1>1, <1>8 DEF Occurs
  <2>3. \A k \in 1 .. n + m : i < k => c[k] \notin W
    BY <1>2, <1>3, <1>4, <2>1, <2>2
  <2> QED
    BY <1>1, <1>2, <2>1, <2>3 DEF Unanswered
<1>9. ASSUME Unprepared(c, S, W)
      PROVE  Unprepared(s, S, W) \/ (~Occurs(s, W) /\ Unprepared(t, S, W))
  <2>1. PICK i \in 1 .. n + m : c[i] \in S /\ \A k \in 1 .. n + m : k < i => c[k] \notin W
    BY <1>1, <1>9 DEF Unprepared
  <2>2. CASE i \in 1 .. n
    BY <1>1, <1>2, <2>1, <2>2 DEF Unprepared
  <2>3. CASE \E j \in 1 .. m : i = n + j
    <3>1. PICK j \in 1 .. m : i = n + j
      BY <2>3
    <3>2. t[j] \in S /\ \A k \in 1 .. m : k < j => t[k] \notin W
      BY <1>3, <1>5, <2>1, <3>1
    <3>3. ~Occurs(s, W)
      BY <1>1, <1>2, <1>5, <2>1, <3>1 DEF Occurs
    <3> QED
      BY <1>1, <3>2, <3>3 DEF Unprepared
  <2> QED
    BY <1>4, <2>2, <2>3
<1>10. ASSUME Unprepared(s, S, W)
       PROVE  Unprepared(c, S, W)
  <2>1. PICK i \in 1 .. n : s[i] \in S /\ \A k \in 1 .. n : k < i => s[k] \notin W
    BY <1>1, <1>10 DEF Unprepared
  <2>2. \A k \in 1 .. n + m : k < i => c[k] \notin W
    BY <1>2, <1>4, <1>5, <2>1
  <2> QED
    BY <1>1, <1>2, <2>1, <2>2 DEF Unprepared
<1>11. ASSUME ~Occurs(s, W), Unprepared(t, S, W)
       PROVE  Unprepared(c, S, W)
  <2>1. PICK j \in 1 .. m : t[j] \in S /\ \A k \in 1 .. m : k < j => t[k] \notin W
    BY <1>1, <1>11 DEF Unprepared
  <2>2. \A k \in 1 .. n : s[k] \notin W
    BY <1>1, <1>11 DEF Occurs
  <2>3. \A k \in 1 .. n + m : k < n + j => c[k] \notin W
    BY <1>2, <1>3, <1>4, <1>5, <2>1, <2>2
  <2> QED
    BY <1>1, <1>3, <2>1, <2>3 DEF Unprepared
<1>12. ASSUME InTurn(c, S, W)
       PROVE  /\ InTurn(s, S, W) /\ InTurn(t, S, W)
              /\ ~(Unanswered(s, S, W) /\ Unprepared(t, S, W))
  <2>0. \A i, j \in 1 .. n + m : i < j /\ c[i] \in S /\ c[j] \in S
          => \E k \in 1 .. n + m : i < k /\ k < j /\ c[k] \in W
    BY <1>1, <1>12 DEF InTurn
  <2>1. InTurn(s, S, W)
    <3> SUFFICES ASSUME NEW i \in 1 .. n, NEW j \in 1 .. n, i < j, s[i] \in S, s[j] \in S
                 PROVE  \E k \in 1 .. n : i < k /\ k < j /\ s[k] \in W
      BY <1>1 DEF InTurn
    <3>1. PICK k \in 1 .. n + m : i < k /\ k < j /\ c[k] \in W
      BY <1>2, <2>0
    <3> QED
      BY <1>2, <1>4, <1>5, <3>1
  <2>2. InTurn(t, S, W)
    <3> SUFFICES ASSUME NEW i \in 1 .. m, NEW j \in 1 .. m, i < j, t[i] \in S, t[j] \in S
                 PROVE  \E k \in 1 .. m : i < k /\ k < j /\ t[k] \in W
      BY <1>1 DEF InTurn
    <3>1. PICK k \in 1 .. n + m : n + i < k /\ k < n + j /\ c[k] \in W
      BY <1>3, <1>5, <2>0
    <3> QED
      BY <1>3, <1>4, <1>5, <3>1
  <2>3. ASSUME Unanswered(s, S, W), Unprepared(t, S, W)
        PROVE  FALSE
    <3>1. PICK i \in 1 .. n : s[i] \in S /\ \A k \in 1 .. n : i < k => s[k] \notin W
      BY <1>1, <2>3 DEF Unanswered
    <3>2. PICK j \in 1 .. m : t[j] \in S /\ \A k \in 1 .. m : k < j => t[k] \notin W
      BY <1>1, <2>3 DEF Unprepared
    <3>3. PICK k \in 1 .. n + m : i < k /\ k < n + j /\ c[k] \in W
      BY <1>2, <1>3, <1>5, <2>0, <3>1, <3>2
    <3> QED
      BY <1>2, <1>3, <1>4, <1>5, <3>1, <3>2, <3>3
  <2> QED
    BY <2>1, <2>2, <2>3
<1>13. ASSUME InTurn(s, S, W), InTurn(t, S, W), ~(Unanswered(s, S, W) /\ Unprepared(t, S, W))
       PROVE  InTurn(c, S, W)
  <2> SUFFICES ASSUME NEW i \in 1 .. n + m, NEW j \in 1 .. n + m, i < j, c[i] \in S, c[j] \in S
               PROVE  \E k \in 1 .. n + m : i < k /\ k < j /\ c[k] \in W
    BY <1>1 DEF InTurn
  <2>1. CASE i \in 1 .. n /\ j \in 1 .. n
    <3>1. \E k \in 1 .. n : i < k /\ k < j /\ s[k] \in W
      BY <1>1, <1>2, <1>13, <2>1 DEF InTurn
    <3> QED
      BY <1>2, <3>1
  <2>2. CASE i \in 1 .. n /\ \E b \in 1 .. m : j = n + b
    <3>1. PICK b \in 1 .. m : j = n + b
      BY <2>2
    <3>2. s[i] \in S /\ t[b] \in S
      BY <1>2, <1>3, <2>2, <3>1
    <3>3. \/ \E k \in 1 .. n : i < k /\ s[k] \in W
          \/ \E k \in 1 .. m : k < b /\ t[k] \in W
      BY <1>1, <1>13, <2>2, <3>2 DEF Unanswered, Unprepared
    <3> QED
      BY <1>2, <1>3, <1>5, <2>2, <3>1, <3>3
  <2>3. CASE (\E a \in 1 .. m : i = n + a) /\ (\E b \in 1 .. m : j = n + b)
    <3>1. PICK a \in 1 .. m : i = n + a
      BY <2>3
    <3>2. PICK b \in 1 .. m : j = n + b
      BY <2>3
    <3>3. \E k \in 1 .. m : a < k /\ k < b /\ t[k] \in W
      BY <1>1, <1>3, <1>5, <1>13, <3>1, <3>2 DEF InTurn
    <3> QED
      BY <1>3, <1>5, <3>1, <3>2, <3>3
  <2> QED
    BY <1>4, <1>5, <2>1, <2>2, <2>3
<1> QED
  BY <1>6, <1>7, <1>8, <1>9, <1>10, <1>11, <1>12, <1>13 DEF c

(* Queues of at most one event, and queues without any of either.          *)
LEMMA TurnsSmall ==
  ASSUME NEW e, NEW S, NEW W
  PROVE  /\ Unanswered(<<e>>, S, W) <=> e \in S
         /\ Unprepared(<<e>>, S, W) <=> e \in S
         /\ InTurn(<<e>>, S, W)
<1>1. DOMAIN <<e>> = {1} /\ <<e>>[1] = e
  OBVIOUS
<1>2. \A i, j \in {1} : ~(i < j)
  OBVIOUS
<1> QED
  BY <1>1, <1>2 DEF Unanswered, Unprepared, InTurn

(* Nothing of S, nothing out of turn.                                      *)
LEMMA TurnsNone ==
  ASSUME NEW s, NEW S, NEW W, ~Occurs(s, S)
  PROVE  ~Unanswered(s, S, W) /\ ~Unprepared(s, S, W) /\ InTurn(s, S, W)
BY DEF Occurs, Unanswered, Unprepared, InTurn

(* Whether the last event is of S or of W.                                 *)
LEMMA TurnsLast ==
  ASSUME NEW T, NEW s \in Seq(T), s # << >>, NEW S, NEW W, S \cap W = {}
  PROVE  /\ s[Len(s)] \in S => Unanswered(s, S, W)
         /\ s[Len(s)] \in W => ~Unanswered(s, S, W) /\ Occurs(s, W)
<1>1. Len(s) \in Nat /\ DOMAIN s = 1 .. Len(s) /\ Len(s) # 0
  BY LenProperties, EmptySeq
<1>2. Len(s) \in DOMAIN s /\ \A i \in DOMAIN s : ~(Len(s) < i) /\ (i # Len(s) => i < Len(s))
  BY <1>1
<1> QED
  BY <1>2 DEF Unanswered, Occurs

(* The first event of a queue, and one more at its end.                    *)
LEMMA TurnsHead ==
  ASSUME NEW T, NEW h \in T, NEW r \in Seq(T), NEW S, NEW W
  PROVE  LET s == <<h>> \o r IN
         /\ Occurs(s, S) <=> h \in S \/ Occurs(r, S)
         /\ Occurs(s, W) <=> h \in W \/ Occurs(r, W)
         /\ Unanswered(s, S, W) <=> Unanswered(r, S, W) \/ (h \in S /\ ~Occurs(r, W))
         /\ Unprepared(s, S, W) <=> h \in S \/ (h \notin W /\ Unprepared(r, S, W))
         /\ InTurn(s, S, W) <=> InTurn(r, S, W) /\ ~(h \in S /\ Unprepared(r, S, W))
<1> DEFINE p == <<h>>
<1>1. p \in Seq(T)
  OBVIOUS
<1>2. /\ \A X : Occurs(p, X) <=> h \in X
      /\ Unanswered(p, S, W) <=> h \in S
      /\ Unprepared(p, S, W) <=> h \in S
      /\ InTurn(p, S, W)
  BY OccursSmall, TurnsSmall
<1> HIDE DEF p
<1>3. \A X : Occurs(p \o r, X) <=> Occurs(p, X) \/ Occurs(r, X)
  BY <1>1, OccursJoin
<1>4. /\ Unanswered(p \o r, S, W) <=>
           Unanswered(r, S, W) \/ (Unanswered(p, S, W) /\ ~Occurs(r, W))
      /\ Unprepared(p \o r, S, W) <=>
           Unprepared(p, S, W) \/ (~Occurs(p, W) /\ Unprepared(r, S, W))
      /\ InTurn(p \o r, S, W) <=>
           /\ InTurn(p, S, W) /\ InTurn(r, S, W)
           /\ ~(Unanswered(p, S, W) /\ Unprepared(r, S, W))
  BY <1>1, TurnsJoin
<1> QED
  BY <1>2, <1>3, <1>4 DEF p

(* One more event at the end of a queue.                                   *)
LEMMA TurnsAppend ==
  ASSUME NEW T, NEW s \in Seq(T), NEW e \in T, NEW S, NEW W
  PROVE  LET a == Append(s, e) IN
         /\ Occurs(a, S) <=> Occurs(s, S) \/ e \in S
         /\ Occurs(a, W) <=> Occurs(s, W) \/ e \in W
         /\ Unanswered(a, S, W) <=> e \in S \/ (Unanswered(s, S, W) /\ e \notin W)
         /\ Unprepared(a, S, W) <=> Unprepared(s, S, W) \/ (~Occurs(s, W) /\ e \in S)
         /\ InTurn(a, S, W) <=> InTurn(s, S, W) /\ ~(Unanswered(s, S, W) /\ e \in S)
<1> DEFINE p == <<e>>
<1>1. p \in Seq(T) /\ Append(s, e) = s \o p
  BY AppendIsConcat
<1>2. /\ \A X : Occurs(p, X) <=> e \in X
      /\ Unanswered(p, S, W) <=> e \in S
      /\ Unprepared(p, S, W) <=> e \in S
      /\ InTurn(p, S, W)
  BY OccursSmall, TurnsSmall
<1> HIDE DEF p
<1>3. \A X : Occurs(s \o p, X) <=> Occurs(s, X) \/ Occurs(p, X)
  BY <1>1, OccursJoin
<1>4. /\ Unanswered(s \o p, S, W) <=>
           Unanswered(p, S, W) \/ (Unanswered(s, S, W) /\ ~Occurs(p, W))
      /\ Unprepared(s \o p, S, W) <=>
           Unprepared(s, S, W) \/ (~Occurs(s, W) /\ Unprepared(p, S, W))
      /\ InTurn(s \o p, S, W) <=>
           /\ InTurn(s, S, W) /\ InTurn(p, S, W)
           /\ ~(Unanswered(s, S, W) /\ Unprepared(p, S, W))
  BY <1>1, TurnsJoin
<1> QED
  BY <1>1, <1>2, <1>3, <1>4

(* Two queues that hold the same turns.                                    *)
SameTurns(s, t, S, W) ==
  /\ Occurs(s, S) <=> Occurs(t, S)
  /\ Occurs(s, W) <=> Occurs(t, W)
  /\ Unanswered(s, S, W) <=> Unanswered(t, S, W)
  /\ Unprepared(s, S, W) <=> Unprepared(t, S, W)
  /\ InTurn(s, S, W) <=> InTurn(t, S, W)

(* Events that are neither make no difference, wherever they stand.        *)
LEMMA TurnsAround ==
  ASSUME NEW T, NEW s \in Seq(T), NEW t \in Seq(T), NEW S, NEW W,
         ~Occurs(s, S), ~Occurs(s, W)
  PROVE  SameTurns(s \o t, t, S, W) /\ SameTurns(t \o s, t, S, W)
<1>1. ~Unanswered(s, S, W) /\ ~Unprepared(s, S, W) /\ InTurn(s, S, W)
  BY TurnsNone
<1>2. \A X : /\ Occurs(s \o t, X) <=> Occurs(s, X) \/ Occurs(t, X)
             /\ Occurs(t \o s, X) <=> Occurs(t, X) \/ Occurs(s, X)
  BY OccursJoin
<1>3. /\ Unanswered(s \o t, S, W) <=>
           Unanswered(t, S, W) \/ (Unanswered(s, S, W) /\ ~Occurs(t, W))
      /\ Unprepared(s \o t, S, W) <=>
           Unprepared(s, S, W) \/ (~Occurs(s, W) /\ Unprepared(t, S, W))
      /\ InTurn(s \o t, S, W) <=>
           /\ InTurn(s, S, W) /\ InTurn(t, S, W)
           /\ ~(Unanswered(s, S, W) /\ Unprepared(t, S, W))
  BY TurnsJoin
<1>4. /\ Unanswered(t \o s, S, W) <=>
           Unanswered(s, S, W) \/ (Unanswered(t, S, W) /\ ~Occurs(s, W))
      /\ Unprepared(t \o s, S, W) <=>
           Unprepared(t, S, W) \/ (~Occurs(t, W) /\ Unprepared(s, S, W))
      /\ InTurn(t \o s, S, W) <=>
           /\ InTurn(t, S, W) /\ InTurn(s, S, W)
           /\ ~(Unanswered(t, S, W) /\ Unprepared(s, S, W))
  BY TurnsJoin
<1> QED
  BY <1>1, <1>2, <1>3, <1>4 DEF SameTurns

-----------------------------------------------------------------------------
(* What is on its way from logind to PowerLifecycle: the requests it has   *)
(* accepted, the current one first; the calls and closures of the main     *)
(* thread; the messages on the bus.                                        *)

Current(lc) ==
  IF lc.phase = "Idle" THEN << >>
  ELSE <<[kind |-> IF lc.phase = "Suspending" THEN "Suspend" ELSE "Resume",
          source |-> lc.phaseSource]>>
Accepted(lc) == Current(lc) \o lc.pending
Called == calls \o work

SleepRequest == {[kind |-> "Suspend", source |-> "DBus"]}
WakeRequest == {[kind |-> "Resume", source |-> "DBus"]}
SleepCall == FramesOf({"suspendDBus"})
WakeCall == FramesOf({"resumeDBus"})
SleepSignal == {"sleep"}
WakeSignal == {"wake"}

(* What a handler leaves to be run once its own call is off the list.      *)
Rest == Tail(calls) \o work

(* Which records the sets of requests, calls and signals hold.             *)
LEMMA TurnSets ==
  /\ SleepRequest \cap WakeRequest = {}
  /\ SleepCall \cap WakeCall = {}
  /\ \A f \in Frame : /\ f \in SleepCall <=> f.fn = "suspendDBus"
                      /\ f \in WakeCall <=> f.fn = "resumeDBus"
  /\ \A fn \in Handler : Call(fn) \in Frame /\ Call(fn).fn = fn
BY DEF SleepRequest, WakeRequest, SleepCall, WakeCall, FramesOf, Frame, Call

(* The calls and closures, one after the other, and a handler's own call.  *)
LEMMA CalledType ==
  ASSUME TypeOK
  PROVE  /\ work \in Seq(Frame) /\ calls \in Seq(Frame) /\ Called \in Seq(Frame)
         /\ calls # << >> =>
              /\ Head(calls) \in Frame /\ Tail(calls) \in Seq(Frame) /\ Rest \in Seq(Frame)
              /\ Called = <<Head(calls)>> \o Rest
<1>1. work \in Seq(Frame) /\ calls \in Seq(Frame)
  BY TokensType
<1>2. Called \in Seq(Frame)
  BY <1>1, ConcatProperties DEF Called
<1>3. ASSUME calls # << >>
      PROVE  /\ Head(calls) \in Frame /\ Tail(calls) \in Seq(Frame) /\ Rest \in Seq(Frame)
             /\ Called = <<Head(calls)>> \o Rest
  <2>1. /\ Head(calls) \in Frame /\ Tail(calls) \in Seq(Frame)
        /\ calls = <<Head(calls)>> \o Tail(calls)
    BY <1>1, <1>3, HeadTailProperties
  <2>2. Rest \in Seq(Frame)
    BY <1>1, <2>1, ConcatProperties DEF Rest
  <2> DEFINE p == <<Head(calls)>>
  <2>3. p \in Seq(Frame) /\ calls = p \o Tail(calls)
    BY <2>1
  <2> HIDE DEF p
  <2>4. (p \o Tail(calls)) \o work = p \o (Tail(calls) \o work)
    BY <1>1, <2>1, <2>3, ConcatAssociative
  <2> QED
    BY <2>1, <2>2, <2>3, <2>4 DEF Called, Rest, p
<1> QED
  BY <1>1, <1>2, <1>3

(* A handler replaces its own call by calls that are neither.              *)
LEMMA HandlerCalled ==
  ASSUME TypeOK, SupervisorStep
  PROVE  /\ calls # << >>
         /\ SameTurns(calls' \o work', Rest, SleepCall, WakeCall)
<1>1. HandlerMoves /\ UNCHANGED work
  BY SupervisorMoves
<1>2. ASSUME NEW fn, NEW ins \in Seq(Frame), NEW add, Moves(fn, ins, add),
             ~Occurs(ins, SleepCall), ~Occurs(ins, WakeCall)
      PROVE  /\ calls # << >>
             /\ SameTurns(calls' \o work', Rest, SleepCall, WakeCall)
  <2>1. calls # << >> /\ calls' = ins \o Tail(calls) /\ work' = work
    BY <1>1, <1>2 DEF Moves, Running
  <2>2. Tail(calls) \in Seq(Frame) /\ work \in Seq(Frame) /\ Rest \in Seq(Frame)
    BY <2>1, CalledType
  <2>3. (ins \o Tail(calls)) \o work = ins \o Rest
    BY <2>2, ConcatAssociative DEF Rest
  <2>4. SameTurns(ins \o Rest, Rest, SleepCall, WakeCall)
    BY <1>2, <2>2, TurnsAround
  <2> QED
    BY <2>1, <2>3, <2>4
<1>3. /\ << >> \in Seq(Frame)
      /\ ~Occurs(<< >>, SleepCall) /\ ~Occurs(<< >>, WakeCall)
  BY EmptySeq, OccursSmall
<1>4. ASSUME NEW fn \in Handler \ {"suspendDBus", "resumeDBus"}
      PROVE  /\ <<Call(fn)>> \in Seq(Frame)
             /\ ~Occurs(<<Call(fn)>>, SleepCall) /\ ~Occurs(<<Call(fn)>>, WakeCall)
  <2>1. Call(fn) \in Frame /\ Call(fn).fn = fn
    BY TurnSets
  <2>2. Call(fn) \notin SleepCall /\ Call(fn) \notin WakeCall
    BY <2>1, TurnSets
  <2> QED
    BY <2>1, <2>2, OccursSmall
<1>5. /\ <<Call("pumpQueue"), Call("seedCycle")>> \in Seq(Frame)
      /\ ~Occurs(<<Call("pumpQueue"), Call("seedCycle")>>, SleepCall)
      /\ ~Occurs(<<Call("pumpQueue"), Call("seedCycle")>>, WakeCall)
  <2> DEFINE a == Call("pumpQueue")
             b == Call("seedCycle")
  <2>1. "pumpQueue" \in Handler /\ "seedCycle" \in Handler
    BY DEF Handler
  <2>2. a \in Frame /\ b \in Frame /\ a.fn = "pumpQueue" /\ b.fn = "seedCycle"
    BY <2>1, TurnSets
  <2>3. a \notin SleepCall /\ a \notin WakeCall /\ b \notin SleepCall /\ b \notin WakeCall
    BY <2>2, TurnSets
  <2> HIDE DEF a, b
  <2>4. <<a, b>> \in Seq(Frame) /\ \A i \in DOMAIN <<a, b>> : <<a, b>>[i] \in {a, b}
    BY <2>2
  <2> QED
    BY <2>3, <2>4 DEF Occurs, a, b
<1>6. {"pumpQueue", "seedCycle", "suspendCompleted", "resumeValid", "resumeInvalid",
       "attemptSucceeded", "attemptFailed"} \subseteq Handler \ {"suspendDBus", "resumeDBus"}
  BY DEF Handler, Closure
<1>7. CASE RequestNoted \/ NothingPumped \/ SuspendStarts \/ ResumeStarts
  BY <1>2, <1>3, <1>4, <1>6, <1>7 DEF RequestNoted, NothingPumped, SuspendStarts, ResumeStarts
<1>8. CASE SuspendEnds \/ GateOpens \/ ResumeEnds \/ SafetyFires
  BY <1>2, <1>3, <1>4, <1>5, <1>6, <1>8 DEF SuspendEnds, GateOpens, ResumeEnds, SafetyFires
<1>9. CASE ReconnectMoves
  BY <1>2, <1>3, <1>4, <1>6, <1>9 DEF ReconnectMoves
<1> QED
  BY <1>1, <1>7, <1>8, <1>9 DEF HandlerMoves

(* The steps that have nothing to do with logind, the lock or the arbiter. *)
Aside ==
  \/ LoopStep \/ Reply \/ Stop \/ TimerStep \/ AdapterStep \/ ConnectionLost \/ AlertStep
  \/ ClientStep \/ Terminate \/ Done \/ UNCHANGED vars

(* Such a step moves calls about but makes none of logind's.               *)
LEMMA AsideCalled ==
  ASSUME TypeOK, Aside
  PROVE  SameTurns(calls' \o work', Called, SleepCall, WakeCall)
<1>1. work \in Seq(Frame) /\ calls \in Seq(Frame) /\ Called \in Seq(Frame)
  BY CalledType
<1>2. ASSUME calls' \o work' = Called
      PROVE  SameTurns(calls' \o work', Called, SleepCall, WakeCall)
  BY <1>2 DEF SameTurns
<1>3. ASSUME UNCHANGED <<calls, work>>
      PROVE  SameTurns(calls' \o work', Called, SleepCall, WakeCall)
  BY <1>2, <1>3 DEF Called
<1>4. ASSUME NEW fn \in Handler \ {"suspendDBus", "resumeDBus"}, NEW id \in Nat
      PROVE  LET p == <<[fn |-> fn, id |-> id]>> IN
             p \in Seq(Frame) /\ ~Occurs(p, SleepCall) /\ ~Occurs(p, WakeCall)
  <2> DEFINE f == [fn |-> fn, id |-> id]
  <2>1. f \in Frame /\ f.fn = fn
    BY DEF Frame
  <2>2. f \notin SleepCall /\ f \notin WakeCall
    BY <2>1, TurnSets
  <2> HIDE DEF f
  <2>3. <<f>> \in Seq(Frame) /\ ~Occurs(<<f>>, SleepCall) /\ ~Occurs(<<f>>, WakeCall)
    BY <2>1, <2>2, OccursSmall
  <2> QED
    BY <2>3 DEF f
<1>5. ASSUME UNCHANGED calls, NEW fn \in Handler \ {"suspendDBus", "resumeDBus"}, NEW id \in Nat,
             Post(fn, id)
      PROVE  SameTurns(calls' \o work', Called, SleepCall, WakeCall)
  <2> DEFINE f == [fn |-> fn, id |-> id]
             p == <<f>>
  <2>1. p \in Seq(Frame) /\ ~Occurs(p, SleepCall) /\ ~Occurs(p, WakeCall)
    BY <1>4
  <2>2. f \in Frame /\ work' = Append(work, f)
    BY <1>5 DEF Post, Frame
  <2> HIDE DEF f
  <2>3. work' = work \o p
    BY <1>1, <2>2, AppendIsConcat
  <2> HIDE DEF p
  <2>4. calls' \o work' = Called \o p
    BY <1>1, <1>5, <2>1, <2>3, ConcatAssociative DEF Called
  <2> QED
    BY <1>1, <2>1, <2>4, TurnsAround
<1>6. ASSUME calls = << >>, UNCHANGED work, NEW fn \in Handler \ {"suspendDBus", "resumeDBus"},
             calls' = <<Call(fn)>>
      PROVE  SameTurns(calls' \o work', Called, SleepCall, WakeCall)
  <2> DEFINE p == <<Call(fn)>>
  <2>1. p \in Seq(Frame) /\ ~Occurs(p, SleepCall) /\ ~Occurs(p, WakeCall)
    BY <1>4 DEF Call
  <2>2. calls' = p
    BY <1>6
  <2> HIDE DEF p
  <2>3. Called = work
    BY <1>1, <1>6, ConcatEmptySeq DEF Called
  <2> QED
    BY <1>1, <1>6, <2>1, <2>2, <2>3, TurnsAround
<1>7. CASE LoopStep
  <2>1. CASE Poll \/ Drain
    BY <1>3, <2>1 DEF Poll, Drain
  <2>2. CASE RunClosure
    <3>1. work # << >> /\ calls = << >> /\ calls' = <<Head(work)>> /\ work' = Tail(work)
      BY <2>2 DEF RunClosure, TypeOK, LoopTypeOK
    <3>2. work = <<Head(work)>> \o Tail(work)
      BY <1>1, <3>1, HeadTailProperties
    <3>3. Called = work
      BY <1>1, <3>1, ConcatEmptySeq DEF Called
    <3> QED
      BY <1>2, <3>1, <3>2, <3>3
  <2>3. CASE DispatchSafetyTimer \/ DispatchRetryTimer
    <3>1. {"safetyTimerFired", "retryTimerFired"} \subseteq Handler \ {"suspendDBus", "resumeDBus"}
      BY DEF Handler
    <3> QED
      BY <1>6, <2>3, <3>1
         DEF DispatchSafetyTimer, DispatchRetryTimer, DispatchTimer, AtDispatchPoint
  <2> QED
    BY <1>7, <2>1, <2>2, <2>3 DEF LoopStep, MainLoopStep
<1>8. CASE Reply
  <2>1. calls # << >> /\ Head(calls).fn = "reply" /\ calls' = Tail(calls) /\ work' = work
    BY <1>8 DEF Reply, Running
  <2>2. /\ Head(calls) \in Frame /\ Rest \in Seq(Frame)
        /\ Called = <<Head(calls)>> \o Rest /\ calls' \o work' = Rest
    BY <2>1, CalledType DEF Rest
  <2> DEFINE p == <<Head(calls)>>
  <2>3. p \in Seq(Frame) /\ ~Occurs(p, SleepCall) /\ ~Occurs(p, WakeCall)
    BY <2>1, <2>2, TurnSets, OccursSmall
  <2>4. Called = p \o Rest
    BY <2>2
  <2> HIDE DEF p
  <2>5. SameTurns(p \o Rest, Rest, SleepCall, WakeCall)
    BY <2>2, <2>3, TurnsAround
  <2> QED
    BY <2>2, <2>4, <2>5 DEF SameTurns
<1>9. CASE AdapterStep
  <2>1. UNCHANGED calls
    BY <1>9 DEF AdapterStep, workerRest
  <2>2. \/ UNCHANGED work
        \/ FinishJob /\ Post(Report(job.kind, wok), job.id)
    BY <1>9 DEF AdapterStep, WorkerStep, TakeJob, CloseConnection, LibcecClose, ReopenConnection,
                LibcecDestroy, OpenFails, OpenSucceeds, MarkConnected, CheckConnected,
                FinishJob, WorkerExit
  <2>3. Report(job.kind, wok) \in Handler \ {"suspendDBus", "resumeDBus"}
    BY DEF Report, Handler, Closure
  <2>4. job.id \in Nat
    BY DEF TypeOK, WorkerTypeOK, Job, NoJob
  <2> QED
    BY <1>3, <1>5, <2>1, <2>2, <2>3, <2>4
<1>10. CASE ConnectionLost \/ AlertStep
  <2>1. UNCHANGED calls /\ (UNCHANGED work \/ Post("connectionLost", 0))
    BY <1>10 DEF ConnectionLost, AlertStep, AlertClearsFlag, AlertPosts, workerRest
  <2>2. "connectionLost" \in Handler \ {"suspendDBus", "resumeDBus"} /\ 0 \in Nat
    BY DEF Handler, Closure
  <2> QED
    BY <1>3, <1>5, <2>1, <2>2
<1>11. CASE WireSuspend \/ WireResume
  <2>1. {"suspendWire", "resumeWire"} \subseteq Handler \ {"suspendDBus", "resumeDBus"}
    BY DEF Handler
  <2> QED
    BY <1>6, <1>11, <2>1 DEF WireSuspend, WireResume, WireRequest, AtDispatchPoint
<1>12. CASE \/ Stop \/ TimerStep \/ DispatchCommand \/ RestartAdapter \/ EnqueueCommand
            \/ RefuseCommand \/ Terminate \/ Done \/ UNCHANGED vars
  BY <1>3, <1>12
     DEF Stop, TimerStep, SafetyTimerExpires, RetryTimerExpires, DispatchCommand, RestartAdapter,
         DispatchToWorker, EnqueueCommand, RefuseCommand, Terminate, Done, vars, loopVars
<1> QED
  BY <1>7, <1>8, <1>9, <1>10, <1>11, <1>12 DEF Aside, ClientStep

(* Such a step leaves the lock, logind and the arbiter alone.              *)
LEMMA AsideLock ==
  ASSUME TypeOK, Aside
  PROVE  /\ UNCHANGED <<held, slot, request, bus, sleep, lifecycle>>
         /\ spent'["sleep"] = spent["sleep"]
         /\ loop' = "stopped" <=> loop = "stopped"
<1>1. ASSUME NEW input \in Input \ {"sleep"}, Spend(input)
      PROVE  spent'["sleep"] = spent["sleep"]
  BY <1>1 DEF Spend, TypeOK, InputTypeOK, Input
<1>2. {"suspend", "resume", "lost", "command", "restart"} \subseteq Input \ {"sleep"}
  BY DEF Input
<1>3. CASE LoopStep
  BY <1>3 DEF LoopStep, MainLoopStep, Poll, Drain, RunClosure, DispatchSafetyTimer,
              DispatchRetryTimer, DispatchTimer, busVars, supervisorVars, clientVars
<1>4. CASE TimerStep
  BY <1>4 DEF TimerStep, SafetyTimerExpires, RetryTimerExpires, busVars, supervisorVars, clientVars
<1>5. CASE Reply \/ Stop \/ Terminate
  BY <1>5 DEF Reply, Stop, Terminate, AtDispatchPoint, busVars, supervisorVars, clientVars
<1>6. CASE AdapterStep \/ ConnectionLost \/ AlertStep
  BY <1>1, <1>2, <1>6 DEF AdapterStep, ConnectionLost, AlertStep, workerRest
<1>7. CASE ClientStep
  BY <1>1, <1>2, <1>7
     DEF ClientStep, WireSuspend, WireResume, WireRequest, DispatchCommand, RestartAdapter,
         DispatchToWorker, EnqueueCommand, RefuseCommand, loopVars, busVars, supervisorVars
<1>8. CASE Done \/ UNCHANGED vars
  BY <1>8 DEF Done, vars
<1> QED
  BY <1>3, <1>4, <1>5, <1>6, <1>7, <1>8 DEF Aside

-----------------------------------------------------------------------------
(* What the arbiter does to the requests it has accepted. *)

(* What the arbiter has accepted is a sequence of requests.                *)
LEMMA AcceptedType ==
  ASSUME NEW lc \in PowerLifecycleState
  PROVE  /\ lc.pending \in Seq(Pending) /\ Current(lc) \in Seq(Pending)
         /\ Accepted(lc) \in Seq(Pending)
         /\ lc.phase = "Idle" => Accepted(lc) = lc.pending
<1>1. lc.pending \in Seq(Pending)
  BY DEF PowerLifecycleState
<1>2. Current(lc) \in Seq(Pending)
  <2>1. CASE lc.phase = "Idle"
    BY <2>1, EmptySeq DEF Current
  <2>2. CASE lc.phase # "Idle"
    <3> DEFINE e == [kind |-> IF lc.phase = "Suspending" THEN "Suspend" ELSE "Resume",
                     source |-> lc.phaseSource]
    <3>1. e \in Pending
      BY DEF Pending, EventKind, PowerLifecycleState
    <3>2. Current(lc) = <<e>>
      BY <2>2 DEF Current
    <3> HIDE DEF e
    <3> QED
      BY <3>1, <3>2
  <2> QED
    BY <2>1, <2>2
<1>3. Accepted(lc) \in Seq(Pending)
  BY <1>1, <1>2, ConcatProperties DEF Accepted
<1>4. lc.phase = "Idle" => Accepted(lc) = lc.pending
  BY <1>1, ConcatEmptySeq DEF Accepted, Current
<1> QED
  BY <1>1, <1>2, <1>3, <1>4

(* A request is put at the end, or is the last one already.                *)
LEMMA RequestAccepted ==
  ASSUME NEW lc \in PowerLifecycleState, NEW kind \in EventKind, NEW source \in Source
  PROVE  LET e == [kind |-> kind, source |-> source]
             r == onRequested(lc, kind, source).lc
         IN  /\ e \in Pending /\ r.phase = lc.phase /\ r.phaseSource = lc.phaseSource
             /\ r.safetyFiredFirst = lc.safetyFiredFirst
             /\ onRequested(lc, kind, source).out = Inert
             /\ \/ /\ r.pending = Append(lc.pending, e)
                   /\ Accepted(r) = Append(Accepted(lc), e)
                \/ /\ r = lc /\ Accepted(lc) # << >>
                   /\ Accepted(lc)[Len(Accepted(lc))] = e
<1> DEFINE e == [kind |-> kind, source |-> source]
           r == onRequested(lc, kind, source).lc
<1>1. e \in Pending
  BY DEF Pending
<1>2. /\ lc.pending \in Seq(Pending) /\ Current(lc) \in Seq(Pending)
      /\ Accepted(lc) \in Seq(Pending)
  BY AcceptedType
<1>3. /\ r.phase = lc.phase /\ r.phaseSource = lc.phaseSource
      /\ r.safetyFiredFirst = lc.safetyFiredFirst
      /\ onRequested(lc, kind, source).out = Inert
  BY DEF onRequested, Transition, PowerLifecycleState
<1>4. CASE coalescesWithEffectiveTail(lc, kind, source)
  <2>1. r = lc
    BY <1>4 DEF onRequested, Transition
  <2>2. CASE lc.pending # << >>
    <3>1. lc.pending[Len(lc.pending)] = e
      BY <1>4, <2>2 DEF coalescesWithEffectiveTail
    <3> HIDE DEF e
    <3> DEFINE n == Len(Current(lc))
               m == Len(lc.pending)
    <3>2. /\ n \in Nat /\ m \in Nat /\ m # 0
          /\ Len(Accepted(lc)) = n + m
          /\ \A i \in 1 .. n + m :
               Accepted(lc)[i] = IF i <= n THEN Current(lc)[i] ELSE lc.pending[i - n]
      BY <1>2, <2>2, ConcatProperties, LenProperties, EmptySeq DEF Accepted
    <3> HIDE DEF n, m
    <3>3. n + m \in 1 .. n + m /\ ~(n + m <= n) /\ (n + m) - n = m /\ n + m # 0
      BY <3>2
    <3>4. Accepted(lc)[n + m] = lc.pending[m]
      BY <3>2, <3>3
    <3>5. Accepted(lc) # << >>
      BY <1>2, <3>2, <3>3, EmptySeq
    <3> QED
      BY <1>1, <1>3, <2>1, <3>1, <3>2, <3>4, <3>5 DEF e, m
  <2>3. CASE lc.pending = << >>
    <3>1. /\ lc.phase = (IF kind = "Suspend" THEN "Suspending" ELSE "Resuming")
          /\ lc.phaseSource = source
      BY <1>4, <2>3 DEF coalescesWithEffectiveTail
    <3>2. kind = IF lc.phase = "Suspending" THEN "Suspend" ELSE "Resume"
      BY <3>1 DEF EventKind
    <3>3. Current(lc) = <<e>>
      BY <3>1, <3>2 DEF Current
    <3>4. Accepted(lc) = Current(lc)
      BY <1>2, <2>3, ConcatEmptySeq DEF Accepted
    <3> HIDE DEF e
    <3>5. Len(<<e>>) = 1 /\ <<e>>[1] = e /\ <<e>> # << >>
      OBVIOUS
    <3> QED
      BY <1>1, <1>3, <2>1, <3>3, <3>4, <3>5 DEF e
  <2> QED
    BY <2>2, <2>3
<1>5. CASE ~coalescesWithEffectiveTail(lc, kind, source)
  <2>1. r = [lc EXCEPT !.pending = Append(@, e)]
    BY <1>5 DEF onRequested, Transition
  <2>2. r.pending = Append(lc.pending, e)
    BY <2>1 DEF PowerLifecycleState
  <2>3. Current(r) = Current(lc)
    BY <1>3 DEF Current
  <2> HIDE DEF e, r
  <2>4. Accepted(r) = Append(Accepted(lc), e)
    <3> DEFINE p == <<e>>
    <3>1. p \in Seq(Pending)
      BY <1>1
    <3>2. Append(lc.pending, e) = lc.pending \o p
      BY <1>1, <1>2, AppendIsConcat
    <3>3. Append(Accepted(lc), e) = Accepted(lc) \o p
      BY <1>1, <1>2, AppendIsConcat
    <3> HIDE DEF p
    <3>4. Current(lc) \o (lc.pending \o p) = (Current(lc) \o lc.pending) \o p
      <4>1. \A x, y, z \in Seq(Pending) : (x \o y) \o z = x \o (y \o z)
        BY ConcatAssociative
      <4> QED
        BY <1>2, <3>1, <4>1, Zenon
    <3> QED
      BY <2>2, <2>3, <3>2, <3>3, <3>4 DEF Accepted
  <2> QED
    BY <1>1, <1>3, <2>2, <2>4 DEF e, r
<1> QED
  BY <1>4, <1>5

(* The pump makes the first request the current one.                       *)
LEMMA PumpAccepted ==
  ASSUME NEW lc \in PowerLifecycleState
  PROVE  LET r == pumpQueue(lc).lc
         IN  /\ pumpQueue(lc).out.lock = "None"
             /\ Accepted(r) = Accepted(lc)
             /\ \/ r = lc
                \/ /\ lc.phase = "Idle"
                   /\ Occurs(lc.pending, SleepRequest) =>
                        \/ Occurs(r.pending, SleepRequest)
                        \/ /\ r.phase = "Suspending" /\ r.phaseSource = "DBus"
                           /\ ~r.safetyFiredFirst
<1> DEFINE r == pumpQueue(lc).lc
<1>1. CASE lc.phase # "Idle" \/ lc.pending = << >>
  BY <1>1 DEF pumpQueue, Transition, Inert
<1>2. CASE lc.phase = "Idle" /\ lc.pending # << >>
  <2> DEFINE next == Head(lc.pending)
             rest == Tail(lc.pending)
  <2>1. /\ lc.pending \in Seq(Pending) /\ next \in Pending /\ rest \in Seq(Pending)
        /\ lc.pending = <<next>> \o rest /\ Accepted(lc) = lc.pending
    BY <1>2, AcceptedType, HeadTailProperties
  <2>2. /\ r.pending = rest /\ r.phaseSource = next.source
        /\ r.phase = IF next.kind = "Suspend" THEN "Suspending" ELSE "Resuming"
        /\ next.kind = "Suspend" => ~r.safetyFiredFirst
        /\ pumpQueue(lc).out.lock = "None"
    BY <1>2 DEF pumpQueue, makeSuspendEntry, makeResumeEntry, Transition, Inert,
                PowerLifecycleState
  <2>3. next = [kind |-> next.kind, source |-> next.source] /\ next.kind \in {"Suspend", "Resume"}
    BY <2>1 DEF Pending, EventKind
  <2> HIDE DEF r, next, rest
  <2>4. Current(r) = <<next>>
    BY <2>2, <2>3 DEF Current
  <2>5. Accepted(r) = Accepted(lc)
    BY <2>1, <2>2, <2>4 DEF Accepted
  <2>6. next \in SleepRequest => next.kind = "Suspend" /\ next.source = "DBus"
    BY DEF SleepRequest
  <2>7. Occurs(<<next>> \o rest, SleepRequest) <=> next \in SleepRequest \/ Occurs(rest, SleepRequest)
    <3>1. <<next>> \in Seq(Pending)
      BY <2>1
    <3>2. Occurs(<<next>>, SleepRequest) <=> next \in SleepRequest
      BY OccursSmall
    <3> QED
      BY <2>1, <3>1, <3>2, OccursJoin
  <2> QED
    BY <1>2, <2>1, <2>2, <2>5, <2>6, <2>7 DEF r
<1> QED
  BY <1>1, <1>2

(* A completion takes the current request off.                             *)
LEMMA EndAccepted ==
  ASSUME NEW lc \in PowerLifecycleState, NEW r \in PowerLifecycleState,
         lc.phase # "Idle", r.phase = "Idle", r.pending = lc.pending
  PROVE  LET e == [kind |-> IF lc.phase = "Suspending" THEN "Suspend" ELSE "Resume",
                   source |-> lc.phaseSource]
         IN  /\ e \in Pending /\ Accepted(r) = lc.pending
             /\ Accepted(lc) = <<e>> \o lc.pending
<1> DEFINE e == [kind |-> IF lc.phase = "Suspending" THEN "Suspend" ELSE "Resume",
                 source |-> lc.phaseSource]
<1>1. e \in Pending
  BY DEF Pending, EventKind, PowerLifecycleState
<1>2. Accepted(r) = lc.pending
  BY AcceptedType
<1>3. Accepted(lc) = <<e>> \o lc.pending
  BY DEF Accepted, Current
<1> QED
  BY <1>1, <1>2, <1>3

-----------------------------------------------------------------------------
(* The inductive invariant. *)

(* Sleeps and wake-ups take turns all the way from the bus to the arbiter. *)
Orderly(A, C, B) ==
  /\ InTurn(A, SleepRequest, WakeRequest)
  /\ InTurn(C, SleepCall, WakeCall)
  /\ InTurn(B, SleepSignal, WakeSignal)
  /\ ~(Unanswered(A, SleepRequest, WakeRequest) /\ Unprepared(C, SleepCall, WakeCall))
  /\ ~(/\ Unanswered(A, SleepRequest, WakeRequest) /\ ~Occurs(C, WakeCall)
       /\ Unprepared(B, SleepSignal, WakeSignal))
  /\ ~(Unanswered(C, SleepCall, WakeCall) /\ Unprepared(B, SleepSignal, WakeSignal))

(* Every sleep on its way has its wake-up behind it.                       *)
Answered(A, C, B) ==
  /\ ~Unanswered(B, SleepSignal, WakeSignal)
  /\ Unanswered(C, SleepCall, WakeCall) => Occurs(B, WakeSignal)
  /\ Unanswered(A, SleepRequest, WakeRequest) => Occurs(C, WakeCall) \/ Occurs(B, WakeSignal)

SleepDue(lc, C, B) ==
  Occurs(B, SleepSignal) \/ Occurs(C, SleepCall) \/ Occurs(lc.pending, SleepRequest)
SuspendRuns(lc) == lc.phase = "Suspending" /\ lc.phaseSource = "DBus" /\ ~lc.safetyFiredFirst
WakeDue(lc, C, B) ==
  Occurs(B, WakeSignal) \/ Occurs(C, WakeCall) \/ Occurs(Accepted(lc), WakeRequest)

TurnsInv ==
  /\ Orderly(Accepted(lifecycle), Called, bus)
  /\ sleep = "awake" => Answered(Accepted(lifecycle), Called, bus)

(* While logind prepares a sleep, what will release the lock is due.       *)
ReleaseInv ==
  sleep = "preparing" =>
    /\ ~Unanswered(bus, {"granted"}, SleepSignal)
    /\ SleepDue(lifecycle, Called, bus) \/ SuspendRuns(lifecycle) \/ ~held

(* Once it is awake again, what will take the lock is due.                 *)
TakeInv ==
  loop # "stopped" =>
    /\ slot => request \/ Occurs(bus, {"granted"}) \/ Occurs(bus, {"refused"})
    /\ sleep = "awake" /\ spent["sleep"] > 0 =>
         /\ ~Unanswered(bus, {"refused"}, WakeSignal)
         /\ WakeDue(lifecycle, Called, bus) \/ held \/ request \/ Occurs(bus, {"granted"})

LockInv == TurnsInv /\ ReleaseInv /\ TakeInv

(* Calls that hold the same turns are as good.                             *)
LEMMA SameCalled ==
  ASSUME NEW A, NEW B, NEW C, NEW D, NEW lc, SameTurns(C, D, SleepCall, WakeCall)
  PROVE  /\ Orderly(A, C, B) <=> Orderly(A, D, B)
         /\ Answered(A, C, B) <=> Answered(A, D, B)
         /\ SleepDue(lc, C, B) <=> SleepDue(lc, D, B)
         /\ WakeDue(lc, C, B) <=> WakeDue(lc, D, B)
BY DEF SameTurns, Orderly, Answered, SleepDue, WakeDue

(* The new values of the parts give the invariant after the step.          *)
LEMMA LockParts ==
  ASSUME Orderly(Accepted(lifecycle'), calls' \o work', bus'),
         sleep' = "awake" => Answered(Accepted(lifecycle'), calls' \o work', bus'),
         sleep' = "preparing" =>
           /\ ~Unanswered(bus', {"granted"}, SleepSignal)
           /\ SleepDue(lifecycle', calls' \o work', bus') \/ SuspendRuns(lifecycle') \/ ~held',
         loop' # "stopped" =>
           /\ slot' => request' \/ Occurs(bus', {"granted"}) \/ Occurs(bus', {"refused"})
           /\ sleep' = "awake" /\ spent'["sleep"] > 0 =>
                /\ ~Unanswered(bus', {"refused"}, WakeSignal)
                /\ \/ WakeDue(lifecycle', calls' \o work', bus')
                   \/ held' \/ request' \/ Occurs(bus', {"granted"})
  PROVE  LockInv'
BY DEF LockInv, TurnsInv, ReleaseInv, TakeInv, Called

(* Such a step keeps the invariant.                                        *)
LEMMA AsideKeepsLock ==
  ASSUME TypeOK, Aside, LockInv
  PROVE  LockInv'
<1>1. SameTurns(calls' \o work', Called, SleepCall, WakeCall)
  BY AsideCalled
<1>2. /\ UNCHANGED <<held, slot, request, bus, sleep, lifecycle>>
      /\ spent'["sleep"] = spent["sleep"]
      /\ loop' = "stopped" <=> loop = "stopped"
  BY AsideLock
<1>3. \A A, B, lc :
        /\ Orderly(A, calls' \o work', B) <=> Orderly(A, Called, B)
        /\ Answered(A, calls' \o work', B) <=> Answered(A, Called, B)
        /\ SleepDue(lc, calls' \o work', B) <=> SleepDue(lc, Called, B)
        /\ WakeDue(lc, calls' \o work', B) <=> WakeDue(lc, Called, B)
  BY <1>1, SameCalled
<1> QED
  BY <1>2, <1>3, LockParts DEF LockInv, TurnsInv, ReleaseInv, TakeInv

(* The daemon reads a signal of logind: it is a closure now.               *)
LEMMA SignalKeepsLock ==
  ASSUME TypeOK, LockInv, BusStep, OnPrepareForSleep
  PROVE  LockInv'
<1> DEFINE h == Head(bus)
           r == Tail(bus)
           fn == IF h = "sleep" THEN "suspendDBus" ELSE "resumeDBus"
           f == [fn |-> fn, id |-> 0]
<1>1. /\ h \in SleepSignal \cup WakeSignal /\ bus' = r /\ work' = Append(work, f)
      /\ UNCHANGED <<held, slot, request, sleep, calls, loop, lifecycle, spent>>
  BY DEF OnPrepareForSleep, BusStep, Post, supervisorVars, clientVars, SleepSignal, WakeSignal
<1>2. h \in BusMessage /\ r \in Seq(BusMessage) /\ bus = <<h>> \o r
  BY HeadTailProperties DEF OnPrepareForSleep, TypeOK, LockTypeOK
<1>3. f \in Frame /\ f.fn = fn
  BY DEF Frame, Handler, Closure
<1>4. /\ f \in SleepCall <=> h \in SleepSignal
      /\ f \in WakeCall <=> h \in WakeSignal
  BY <1>1, <1>3, TurnSets DEF SleepSignal, WakeSignal
<1>5. h \notin {"granted"} /\ h \notin {"refused"} /\ ~(h \in SleepSignal /\ h \in WakeSignal)
  BY <1>1 DEF SleepSignal, WakeSignal
<1> HIDE DEF h, r, fn, f
<1>6. calls' \o work' = Append(Called, f) /\ Called \in Seq(Frame)
  <2>1. work \in Seq(Frame) /\ calls \in Seq(Frame) /\ Called \in Seq(Frame)
    BY CalledType
  <2> DEFINE p == <<f>>
  <2>2. p \in Seq(Frame) /\ Append(work, f) = work \o p /\ Append(Called, f) = Called \o p
    BY <1>3, <2>1, AppendIsConcat
  <2> HIDE DEF p
  <2>3. calls \o (work \o p) = (calls \o work) \o p
    BY <2>1, <2>2, ConcatAssociative
  <2> QED
    BY <1>1, <2>1, <2>2, <2>3 DEF Called
<1> DEFINE C == Append(Called, f)
<1>7. /\ Occurs(C, SleepCall) <=> Occurs(Called, SleepCall) \/ f \in SleepCall
      /\ Occurs(C, WakeCall) <=> Occurs(Called, WakeCall) \/ f \in WakeCall
      /\ Unanswered(C, SleepCall, WakeCall) <=>
           f \in SleepCall \/ (Unanswered(Called, SleepCall, WakeCall) /\ f \notin WakeCall)
      /\ Unprepared(C, SleepCall, WakeCall) <=>
           Unprepared(Called, SleepCall, WakeCall) \/ (~Occurs(Called, WakeCall) /\ f \in SleepCall)
      /\ InTurn(C, SleepCall, WakeCall) <=>
           /\ InTurn(Called, SleepCall, WakeCall)
           /\ ~(Unanswered(Called, SleepCall, WakeCall) /\ f \in SleepCall)
  BY <1>3, <1>6, TurnsAppend
<1>8. /\ Occurs(bus, SleepSignal) <=> h \in SleepSignal \/ Occurs(r, SleepSignal)
      /\ Occurs(bus, WakeSignal) <=> h \in WakeSignal \/ Occurs(r, WakeSignal)
      /\ Unanswered(bus, SleepSignal, WakeSignal) <=>
           \/ Unanswered(r, SleepSignal, WakeSignal)
           \/ h \in SleepSignal /\ ~Occurs(r, WakeSignal)
      /\ Unprepared(bus, SleepSignal, WakeSignal) <=>
           h \in SleepSignal \/ (h \notin WakeSignal /\ Unprepared(r, SleepSignal, WakeSignal))
      /\ InTurn(bus, SleepSignal, WakeSignal) <=>
           /\ InTurn(r, SleepSignal, WakeSignal)
           /\ ~(h \in SleepSignal /\ Unprepared(r, SleepSignal, WakeSignal))
  BY <1>2, TurnsHead
<1>9. /\ Occurs(bus, {"granted"}) <=> Occurs(r, {"granted"})
      /\ Occurs(bus, {"refused"}) <=> Occurs(r, {"refused"})
      /\ Unanswered(r, {"granted"}, SleepSignal) => Unanswered(bus, {"granted"}, SleepSignal)
      /\ Unanswered(r, {"refused"}, WakeSignal) => Unanswered(bus, {"refused"}, WakeSignal)
  BY <1>2, <1>5, TurnsHead
<1>10. Unanswered(Called, SleepCall, WakeCall) => Occurs(Called, SleepCall)
  BY DEF Unanswered, Occurs
<1> HIDE DEF C
<1>11. Orderly(Accepted(lifecycle), C, r)
  BY <1>1, <1>4, <1>5, <1>7, <1>8 DEF LockInv, TurnsInv, Orderly
<1>12. sleep = "awake" => Answered(Accepted(lifecycle), C, r)
  BY <1>1, <1>4, <1>5, <1>7, <1>8 DEF LockInv, TurnsInv, Answered
<1>13. SleepDue(lifecycle, Called, bus) => SleepDue(lifecycle, C, r)
  BY <1>4, <1>7, <1>8 DEF SleepDue
<1>14. WakeDue(lifecycle, Called, bus) => WakeDue(lifecycle, C, r)
  BY <1>4, <1>7, <1>8 DEF WakeDue
<1>15. calls' \o work' = C
  BY <1>6 DEF C
<1> QED
  BY <1>1, <1>9, <1>11, <1>12, <1>13, <1>14, <1>15, LockParts DEF LockInv, ReleaseInv, TakeInv

(* The daemon reads logind's answer to an Inhibit call.                    *)
LEMMA ReplyKeepsLock ==
  ASSUME TypeOK, LockInv, BusStep, OnInhibitReply
  PROVE  LockInv'
<1> DEFINE h == Head(bus)
           r == Tail(bus)
<1>1. /\ h \in {"granted", "refused"} /\ bus' = r /\ slot' = FALSE /\ held' = (held \/ h = "granted")
      /\ UNCHANGED <<request, sleep, calls, work, loop, lifecycle, spent>>
  BY DEF OnInhibitReply, BusStep, loopVars, supervisorVars, clientVars
<1>2. h \in BusMessage /\ r \in Seq(BusMessage) /\ bus = <<h>> \o r
  BY HeadTailProperties DEF OnInhibitReply, TypeOK, LockTypeOK
<1>3. h \notin SleepSignal /\ h \notin WakeSignal
  BY <1>1 DEF SleepSignal, WakeSignal
<1> HIDE DEF h, r
<1>4. SameTurns(bus, r, SleepSignal, WakeSignal)
  <2> DEFINE p == <<h>>
  <2>1. p \in Seq(BusMessage) /\ ~Occurs(p, SleepSignal) /\ ~Occurs(p, WakeSignal)
    BY <1>2, <1>3, OccursSmall
  <2>2. bus = p \o r
    BY <1>2
  <2> HIDE DEF p
  <2> QED
    BY <1>2, <2>1, <2>2, TurnsAround
<1>5. /\ Occurs(bus, {"granted"}) <=> h \in {"granted"} \/ Occurs(r, {"granted"})
      /\ Unanswered(bus, {"granted"}, SleepSignal) <=>
           \/ Unanswered(r, {"granted"}, SleepSignal)
           \/ h \in {"granted"} /\ ~Occurs(r, SleepSignal)
      /\ Unanswered(bus, {"refused"}, WakeSignal) <=>
           \/ Unanswered(r, {"refused"}, WakeSignal)
           \/ h \in {"refused"} /\ ~Occurs(r, WakeSignal)
  BY <1>2, TurnsHead
<1>6. Orderly(Accepted(lifecycle), Called, r)
  BY <1>4 DEF LockInv, TurnsInv, Orderly, SameTurns
<1>7. sleep = "awake" => Answered(Accepted(lifecycle), Called, r)
  BY <1>4 DEF LockInv, TurnsInv, Answered, SameTurns
<1>8. sleep = "preparing" =>
        /\ ~Unanswered(r, {"granted"}, SleepSignal)
        /\ SleepDue(lifecycle, Called, r) \/ SuspendRuns(lifecycle) \/ ~held'
  BY <1>1, <1>4, <1>5 DEF LockInv, ReleaseInv, SleepDue, SameTurns
<1>9. loop # "stopped" /\ sleep = "awake" /\ spent["sleep"] > 0 =>
        /\ ~Unanswered(r, {"refused"}, WakeSignal)
        /\ WakeDue(lifecycle, Called, r) \/ held' \/ request \/ Occurs(r, {"granted"})
  BY <1>1, <1>4, <1>5 DEF LockInv, TakeInv, WakeDue, SameTurns
<1>10. calls' \o work' = Called
  BY <1>1 DEF Called
<1> QED
  BY <1>1, <1>6, <1>7, <1>8, <1>9, <1>10, LockParts

(* logind announces a sleep or a wake-up, or answers an Inhibit call.      *)
LEMMA LogindKeepsLock ==
  ASSUME TypeOK, LockInv, LogindSleeps \/ LogindWakes \/ LogindAnswers
  PROVE  LockInv'
<1>1. /\ UNCHANGED <<held, slot, calls, work, loop, lifecycle>> /\ bus \in Seq(BusMessage)
      /\ calls' \o work' = Called
  BY DEF LogindSleeps, LogindWakes, LogindAnswers, PrepareForSleep, WakeUp, AnswerInhibit,
         logindRest, loopVars, supervisorVars, lockVars, TypeOK, LockTypeOK, Called
<1>2. ASSUME NEW e \in BusMessage
      PROVE  LET b == Append(bus, e) IN
             /\ Occurs(b, SleepSignal) <=> Occurs(bus, SleepSignal) \/ e \in SleepSignal
             /\ Occurs(b, WakeSignal) <=> Occurs(bus, WakeSignal) \/ e \in WakeSignal
             /\ Unanswered(b, SleepSignal, WakeSignal) <=>
                  e \in SleepSignal \/ (Unanswered(bus, SleepSignal, WakeSignal) /\ e \notin WakeSignal)
             /\ Unprepared(b, SleepSignal, WakeSignal) <=>
                  \/ Unprepared(bus, SleepSignal, WakeSignal)
                  \/ ~Occurs(bus, WakeSignal) /\ e \in SleepSignal
             /\ InTurn(b, SleepSignal, WakeSignal) <=>
                  /\ InTurn(bus, SleepSignal, WakeSignal)
                  /\ ~(Unanswered(bus, SleepSignal, WakeSignal) /\ e \in SleepSignal)
  BY <1>1, TurnsAppend
<1>3. ASSUME NEW e \in BusMessage
      PROVE  LET b == Append(bus, e) IN
             /\ Occurs(b, {"granted"}) <=> Occurs(bus, {"granted"}) \/ e \in {"granted"}
             /\ Occurs(b, {"refused"}) <=> Occurs(bus, {"refused"}) \/ e \in {"refused"}
             /\ Unanswered(b, {"granted"}, SleepSignal) <=>
                  e \in {"granted"} \/ (Unanswered(bus, {"granted"}, SleepSignal) /\ e \notin SleepSignal)
             /\ Unanswered(b, {"refused"}, WakeSignal) <=>
                  e \in {"refused"} \/ (Unanswered(bus, {"refused"}, WakeSignal) /\ e \notin WakeSignal)
  BY <1>1, TurnsAppend
<1>4. CASE LogindSleeps
  <2> DEFINE e == "sleep"
             b == Append(bus, e)
  <2>1. /\ sleep = "awake" /\ sleep' = "preparing" /\ bus' = b /\ UNCHANGED request
        /\ e \in BusMessage /\ e \in SleepSignal /\ e \notin WakeSignal
        /\ e \notin {"granted"} /\ e \notin {"refused"}
    BY <1>4 DEF LogindSleeps, PrepareForSleep, lockVars, BusMessage, SleepSignal, WakeSignal
  <2>2. Answered(Accepted(lifecycle), Called, bus)
    BY <2>1 DEF LockInv, TurnsInv
  <2> HIDE DEF e, b
  <2>3. Orderly(Accepted(lifecycle), Called, b)
    BY <1>2, <2>1, <2>2 DEF LockInv, TurnsInv, Orderly, Answered, b
  <2>4. ~Unanswered(b, {"granted"}, SleepSignal) /\ SleepDue(lifecycle, Called, b)
    BY <1>2, <1>3, <2>1 DEF SleepDue, b
  <2>5. /\ Occurs(bus, {"granted"}) <=> Occurs(b, {"granted"})
        /\ Occurs(bus, {"refused"}) <=> Occurs(b, {"refused"})
    BY <1>3, <2>1 DEF b
  <2> QED
    BY <1>1, <2>1, <2>3, <2>4, <2>5, LockParts DEF LockInv, TakeInv
<1>5. CASE LogindWakes
  <2> DEFINE e == "wake"
             b == Append(bus, e)
  <2>1. /\ sleep = "preparing" /\ sleep' = "awake" /\ bus' = b /\ UNCHANGED <<request, spent>>
        /\ e \in BusMessage /\ e \notin SleepSignal /\ e \in WakeSignal
        /\ e \notin {"granted"} /\ e \notin {"refused"}
    BY <1>5 DEF LogindWakes, WakeUp, lockVars, BusMessage, SleepSignal, WakeSignal
  <2> HIDE DEF e, b
  <2>3. Orderly(Accepted(lifecycle), Called, b)
    BY <1>2, <2>1 DEF LockInv, TurnsInv, Orderly, b
  <2>4. Answered(Accepted(lifecycle), Called, b)
    BY <1>2, <2>1 DEF Answered, b
  <2>5. /\ Occurs(bus, {"granted"}) <=> Occurs(b, {"granted"})
        /\ Occurs(bus, {"refused"}) <=> Occurs(b, {"refused"})
        /\ ~Unanswered(b, {"refused"}, WakeSignal)
        /\ WakeDue(lifecycle, Called, b)
    BY <1>2, <1>3, <2>1 DEF WakeDue, b
  <2> QED
    BY <1>1, <2>1, <2>3, <2>4, <2>5, LockParts DEF LockInv, TakeInv
<1>6. CASE LogindAnswers
  <2> DEFINE e == IF sleep = "awake" THEN "granted" ELSE "refused"
             b == Append(bus, e)
  <2>1. /\ request /\ request' = FALSE /\ bus' = b /\ UNCHANGED <<sleep, spent>>
        /\ e \in BusMessage /\ e \notin SleepSignal /\ e \notin WakeSignal
        /\ sleep = "awake" => e \in {"granted"} /\ e \notin {"refused"}
        /\ sleep # "awake" => e \notin {"granted"} /\ e \in {"refused"}
    BY <1>6 DEF LogindAnswers, AnswerInhibit, BusMessage, SleepSignal, WakeSignal
  <2> HIDE DEF e, b
  <2>2. SameTurns(b, bus, SleepSignal, WakeSignal)
    BY <1>2, <2>1 DEF SameTurns, b
  <2>3. Orderly(Accepted(lifecycle), Called, b)
    BY <2>2 DEF LockInv, TurnsInv, Orderly, SameTurns
  <2>4. sleep = "awake" => Answered(Accepted(lifecycle), Called, b)
    BY <2>2 DEF LockInv, TurnsInv, Answered, SameTurns
  <2>5. sleep = "preparing" =>
          /\ ~Unanswered(b, {"granted"}, SleepSignal)
          /\ SleepDue(lifecycle, Called, b) \/ SuspendRuns(lifecycle) \/ ~held
    BY <1>3, <2>1, <2>2 DEF LockInv, ReleaseInv, SleepDue, SameTurns, b
  <2>6. /\ Occurs(b, {"granted"}) \/ Occurs(b, {"refused"})
        /\ sleep = "awake" =>
             /\ Unanswered(b, {"refused"}, WakeSignal) => Unanswered(bus, {"refused"}, WakeSignal)
             /\ Occurs(b, {"granted"})
    BY <1>3, <2>1 DEF b
  <2> QED
    BY <1>1, <2>1, <2>3, <2>4, <2>5, <2>6, LockParts DEF LockInv, TakeInv
<1> QED
  BY <1>4, <1>5, <1>6

(* stop() closes the lock's descriptor when all is over.                   *)
LEMMA StoppedKeepsLock ==
  ASSUME LockInv, Stopped
  PROVE  LockInv'
<1>1. /\ UNCHANGED <<calls, work, bus, sleep, lifecycle>>
      /\ held' = FALSE /\ loop' = "stopped" /\ calls' \o work' = Called
  BY DEF Stopped, supervisorVars, Called
<1> QED
  BY <1>1, LockParts DEF LockInv, TurnsInv, ReleaseInv

-----------------------------------------------------------------------------
(* The handlers of the supervisor. *)

(* The turns of the calls before a handler, by its own call and the rest.  *)
LEMMA CalledHead ==
  ASSUME TypeOK, calls # << >>
  PROVE  LET h == Head(calls) IN
         /\ h \in SleepCall <=> h.fn = "suspendDBus"
         /\ h \in WakeCall <=> h.fn = "resumeDBus"
         /\ Occurs(Called, SleepCall) <=> h \in SleepCall \/ Occurs(Rest, SleepCall)
         /\ Occurs(Called, WakeCall) <=> h \in WakeCall \/ Occurs(Rest, WakeCall)
         /\ Unanswered(Called, SleepCall, WakeCall) <=>
              \/ Unanswered(Rest, SleepCall, WakeCall)
              \/ h \in SleepCall /\ ~Occurs(Rest, WakeCall)
         /\ Unprepared(Called, SleepCall, WakeCall) <=>
              h \in SleepCall \/ (h \notin WakeCall /\ Unprepared(Rest, SleepCall, WakeCall))
         /\ InTurn(Called, SleepCall, WakeCall) <=>
              /\ InTurn(Rest, SleepCall, WakeCall)
              /\ ~(h \in SleepCall /\ Unprepared(Rest, SleepCall, WakeCall))
<1> DEFINE h == Head(calls)
<1>1. h \in Frame /\ Rest \in Seq(Frame) /\ Called = <<h>> \o Rest
  BY CalledType
<1>2. (h \in SleepCall <=> h.fn = "suspendDBus") /\ (h \in WakeCall <=> h.fn = "resumeDBus")
  BY <1>1, TurnSets
<1> HIDE DEF h
<1> QED
  BY <1>1, <1>2, TurnsHead DEF h

(* A call that is neither leaves the turns of the calls as they are.       *)
LEMMA NeutralCalled ==
  ASSUME TypeOK, SupervisorStep, Head(calls).fn \notin {"suspendDBus", "resumeDBus"}
  PROVE  SameTurns(calls' \o work', Called, SleepCall, WakeCall)
<1>1. calls # << >> /\ SameTurns(calls' \o work', Rest, SleepCall, WakeCall)
  BY HandlerCalled
<1>2. Head(calls) \notin SleepCall /\ Head(calls) \notin WakeCall
  BY <1>1, CalledHead
<1> QED
  BY <1>1, <1>2, CalledHead DEF SameTurns

(* A handler that gives the arbiter r in place of lifecycle, with the same *)
(* requests accepted and the lock left alone.                              *)
LEMMA CalmKeepsLock ==
  ASSUME TypeOK, LockInv, SupervisorStep, Head(calls).fn \notin {"suspendDBus", "resumeDBus"},
         UNCHANGED <<held, slot, request, bus, sleep, spent>>, loop # "stopped",
         SameTurns(Accepted(lifecycle'), Accepted(lifecycle), SleepRequest, WakeRequest),
         Occurs(lifecycle.pending, SleepRequest) \/ SuspendRuns(lifecycle) =>
           Occurs(lifecycle'.pending, SleepRequest) \/ SuspendRuns(lifecycle')
  PROVE  LockInv'
<1> DEFINE C == calls' \o work'
<1>1. SameTurns(C, Called, SleepCall, WakeCall)
  BY NeutralCalled
<1> HIDE DEF C
<1>2. Orderly(Accepted(lifecycle'), C, bus)
  BY <1>1 DEF LockInv, TurnsInv, Orderly, SameTurns
<1>3. sleep = "awake" => Answered(Accepted(lifecycle'), C, bus)
  BY <1>1 DEF LockInv, TurnsInv, Answered, SameTurns
<1>4. SleepDue(lifecycle, Called, bus) \/ SuspendRuns(lifecycle) =>
        SleepDue(lifecycle', C, bus) \/ SuspendRuns(lifecycle')
  BY <1>1 DEF SleepDue, SameTurns
<1>5. WakeDue(lifecycle, Called, bus) => WakeDue(lifecycle', C, bus)
  BY <1>1 DEF WakeDue, SameTurns
<1> QED
  BY <1>2, <1>3, <1>4, <1>5, LockParts DEF C, LockInv, ReleaseInv, TakeInv

(* A suspend or resume is requested.  A sleep that logind announces is     *)
(* never taken for one that was accepted before.                           *)
LEMMA RequestKeepsLock ==
  ASSUME TypeOK, LockInv, SupervisorStep, UNCHANGED spent, loop # "stopped",
         NEW fn \in Requests, NEW kind \in EventKind, NEW source \in Source, Running(fn),
         fn = "suspendDBus" <=> kind = "Suspend" /\ source = "DBus",
         fn = "resumeDBus" <=> kind = "Resume" /\ source = "DBus",
         ApplyLifecycle(onRequested(lifecycle, kind, source), Tail(calls))
  PROVE  LockInv'
<1> DEFINE A == Accepted(lifecycle)
           e == [kind |-> kind, source |-> source]
           r == onRequested(lifecycle, kind, source).lc
           h == Head(calls)
           C == calls' \o work'
<1>1. lifecycle \in PowerLifecycleState
  BY DEF TypeOK, SupervisorTypeOK
<1>2. /\ e \in Pending /\ r.phase = lifecycle.phase /\ r.phaseSource = lifecycle.phaseSource
      /\ r.safetyFiredFirst = lifecycle.safetyFiredFirst
      /\ onRequested(lifecycle, kind, source).out = Inert
      /\ \/ /\ r.pending = Append(lifecycle.pending, e)
            /\ Accepted(r) = Append(A, e)
         \/ r = lifecycle /\ A # << >> /\ A[Len(A)] = e
  BY <1>1, RequestAccepted
<1>3. lifecycle' = r /\ UNCHANGED <<held, slot, request, bus, sleep>>
  <2>1. lifecycle' = r /\ LockOp(Inert.lock) /\ UNCHANGED <<bus, sleep>>
    BY <1>2 DEF ApplyLifecycle, ExecuteEffects, supervisorRest
  <2>2. Inert.lock = "None"
    BY DEF Inert
  <2> QED
    BY <2>1, <2>2 DEF LockOp, lockVars
<1>4. calls # << >> /\ h.fn = fn
  BY DEF Running
<1>5. SameTurns(C, Rest, SleepCall, WakeCall)
  BY HandlerCalled
<1>6. /\ h \in SleepCall <=> e \in SleepRequest
      /\ h \in WakeCall <=> e \in WakeRequest
      /\ ~(e \in SleepRequest /\ e \in WakeRequest)
  <2>1. (h \in SleepCall <=> fn = "suspendDBus") /\ (h \in WakeCall <=> fn = "resumeDBus")
    BY <1>4, CalledHead
  <2>2. /\ e \in SleepRequest <=> kind = "Suspend" /\ source = "DBus"
        /\ e \in WakeRequest <=> kind = "Resume" /\ source = "DBus"
    BY DEF SleepRequest, WakeRequest
  <2> QED
    BY <2>1, <2>2
<1>7. A \in Seq(Pending) /\ lifecycle.pending \in Seq(Pending)
  BY <1>1, AcceptedType
<1>8. /\ Occurs(Called, SleepCall) <=> h \in SleepCall \/ Occurs(Rest, SleepCall)
      /\ Occurs(Called, WakeCall) <=> h \in WakeCall \/ Occurs(Rest, WakeCall)
      /\ Unanswered(Called, SleepCall, WakeCall) <=>
           \/ Unanswered(Rest, SleepCall, WakeCall)
           \/ h \in SleepCall /\ ~Occurs(Rest, WakeCall)
      /\ Unprepared(Called, SleepCall, WakeCall) <=>
           h \in SleepCall \/ (h \notin WakeCall /\ Unprepared(Rest, SleepCall, WakeCall))
      /\ InTurn(Called, SleepCall, WakeCall) <=>
           /\ InTurn(Rest, SleepCall, WakeCall)
           /\ ~(h \in SleepCall /\ Unprepared(Rest, SleepCall, WakeCall))
  BY <1>4, CalledHead
<1>9. CASE /\ r.pending = Append(lifecycle.pending, e) /\ Accepted(r) = Append(A, e)
  <2> DEFINE D == Append(A, e)
  <2>1. /\ Occurs(D, WakeRequest) <=> Occurs(A, WakeRequest) \/ e \in WakeRequest
        /\ Unanswered(D, SleepRequest, WakeRequest) <=>
             \/ e \in SleepRequest
             \/ Unanswered(A, SleepRequest, WakeRequest) /\ e \notin WakeRequest
        /\ InTurn(D, SleepRequest, WakeRequest) <=>
             /\ InTurn(A, SleepRequest, WakeRequest)
             /\ ~(Unanswered(A, SleepRequest, WakeRequest) /\ e \in SleepRequest)
    BY <1>2, <1>7, TurnsAppend
  <2>2. Occurs(r.pending, SleepRequest) <=> Occurs(lifecycle.pending, SleepRequest) \/ e \in SleepRequest
    BY <1>2, <1>7, <1>9, OccursAppend
  <2>3. Accepted(lifecycle') = D
    BY <1>3, <1>9
  <2> HIDE DEF A, e, r, h, C, D
  <2>4. Orderly(D, C, bus)
    BY <1>5, <1>6, <1>8, <2>1 DEF LockInv, TurnsInv, Orderly, SameTurns, A
  <2>5. sleep = "awake" => Answered(D, C, bus)
    BY <1>5, <1>6, <1>8, <2>1 DEF LockInv, TurnsInv, Answered, SameTurns, A
  <2>6. SleepDue(lifecycle, Called, bus) => SleepDue(r, C, bus)
    BY <1>5, <1>6, <1>8, <2>2 DEF SleepDue, SameTurns
  <2>7. SuspendRuns(lifecycle) => SuspendRuns(r)
    BY <1>2 DEF SuspendRuns
  <2>8. WakeDue(lifecycle, Called, bus) => WakeDue(r, C, bus)
    BY <1>5, <1>6, <1>8, <1>9, <2>1 DEF WakeDue, SameTurns, A, D
  <2> QED
    BY <1>3, <2>3, <2>4, <2>5, <2>6, <2>7, <2>8, LockParts DEF C, LockInv, ReleaseInv, TakeInv
<1>10. CASE r = lifecycle /\ A # << >> /\ A[Len(A)] = e
  <2>1. /\ e \in SleepRequest => Unanswered(A, SleepRequest, WakeRequest)
        /\ e \in WakeRequest => ~Unanswered(A, SleepRequest, WakeRequest) /\ Occurs(A, WakeRequest)
    <3>1. /\ A[Len(A)] \in SleepRequest => Unanswered(A, SleepRequest, WakeRequest)
          /\ A[Len(A)] \in WakeRequest =>
               ~Unanswered(A, SleepRequest, WakeRequest) /\ Occurs(A, WakeRequest)
      <4> HIDE DEF A, e, r
      <4>1. A \in Seq(Pending) /\ A # << >>
        BY <1>7, <1>10
      <4>2. SleepRequest \cap WakeRequest = {}
        BY TurnSets
      <4> QED
        BY <4>1, <4>2, TurnsLast
    <3> HIDE DEF A, e, r
    <3> QED
      BY <1>10, <3>1
  <2> HIDE DEF A, e, r, h, C
  <2>2. ~Unanswered(A, SleepRequest, WakeRequest) \/ ~Unprepared(Called, SleepCall, WakeCall)
    BY DEF LockInv, TurnsInv, Orderly, A
  <2>3. e \notin SleepRequest
    BY <1>6, <1>8, <2>1, <2>2
  <2>4. Orderly(A, C, bus)
    BY <1>5, <1>6, <1>8, <2>1, <2>3 DEF LockInv, TurnsInv, Orderly, SameTurns, A
  <2>5. sleep = "awake" => Answered(A, C, bus)
    BY <1>5, <1>6, <1>8, <2>1, <2>3 DEF LockInv, TurnsInv, Answered, SameTurns, A
  <2>6. SleepDue(lifecycle, Called, bus) => SleepDue(lifecycle, C, bus)
    BY <1>5, <1>6, <1>8, <2>3 DEF SleepDue, SameTurns
  <2>7. WakeDue(lifecycle, Called, bus) => WakeDue(lifecycle, C, bus)
    BY <1>5, <1>6, <1>8, <2>1 DEF WakeDue, SameTurns, A
  <2> QED
    BY <1>3, <1>10, <2>4, <2>5, <2>6, <2>7, LockParts DEF A, C, LockInv, ReleaseInv, TakeInv
<1> QED
  BY <1>2, <1>9, <1>10

(* A suspend or a resume has ended: a suspend that logind asked for leaves *)
(* no lock, unless the safety timer has released it before; a resume that  *)
(* logind asked for leaves the lock held, asked for or due.                *)
LEMMA EndKeepsLock ==
  ASSUME TypeOK, LockInv, SupervisorStep, UNCHANGED <<bus, sleep, spent>>, loop # "stopped",
         Head(calls).fn \notin {"suspendDBus", "resumeDBus"},
         NEW op \in {"None", "Release", "Take"}, LockOp(op),
         lifecycle.phase # "Idle", lifecycle' \in PowerLifecycleState,
         lifecycle'.phase = "Idle", lifecycle'.pending = lifecycle.pending,
         SuspendRuns(lifecycle) => op = "Release",
         op = "Release" => lifecycle.phase = "Suspending" /\ lifecycle.phaseSource = "DBus",
         op = "Take" <=> lifecycle.phase = "Resuming" /\ lifecycle.phaseSource = "DBus"
  PROVE  LockInv'
<1> DEFINE C == calls' \o work'
           A == Accepted(lifecycle)
           P == lifecycle.pending
           e == [kind |-> IF lifecycle.phase = "Suspending" THEN "Suspend" ELSE "Resume",
                 source |-> lifecycle.phaseSource]
<1>1. lifecycle \in PowerLifecycleState
  BY DEF TypeOK, SupervisorTypeOK
<1>2. e \in Pending /\ Accepted(lifecycle') = P /\ A = <<e>> \o P /\ P \in Seq(Pending)
  BY <1>1, EndAccepted, AcceptedType
<1>3. /\ e \in SleepRequest <=> lifecycle.phase = "Suspending" /\ lifecycle.phaseSource = "DBus"
      /\ e \in WakeRequest <=> lifecycle.phase = "Resuming" /\ lifecycle.phaseSource = "DBus"
  BY <1>1 DEF SleepRequest, WakeRequest, PowerLifecycleState, Phase
<1>4. SameTurns(C, Called, SleepCall, WakeCall)
  BY NeutralCalled
<1> HIDE DEF C, A, P, e
<1>5. /\ Occurs(A, WakeRequest) <=> e \in WakeRequest \/ Occurs(P, WakeRequest)
      /\ Unanswered(A, SleepRequest, WakeRequest) <=>
           \/ Unanswered(P, SleepRequest, WakeRequest)
           \/ e \in SleepRequest /\ ~Occurs(P, WakeRequest)
      /\ InTurn(A, SleepRequest, WakeRequest) <=>
           /\ InTurn(P, SleepRequest, WakeRequest)
           /\ ~(e \in SleepRequest /\ Unprepared(P, SleepRequest, WakeRequest))
  BY <1>2, TurnsHead
<1>6. Orderly(P, C, bus)
  BY <1>4, <1>5 DEF LockInv, TurnsInv, Orderly, SameTurns, A
<1>7. sleep = "awake" => Answered(P, C, bus)
  BY <1>4, <1>5 DEF LockInv, TurnsInv, Answered, SameTurns, A
<1>8. /\ held' => held /\ op # "Release"
      /\ op # "Release" => held' = held
      /\ op # "Take" => UNCHANGED <<slot, request>>
      /\ op = "Take" =>
           \/ (held \/ slot) /\ UNCHANGED <<slot, request>>
           \/ slot' = TRUE /\ request' = TRUE
  BY DEF LockOp, releaseInhibitLock, takeInhibitLock, lockVars
<1>9. sleep = "preparing" =>
        /\ ~Unanswered(bus, {"granted"}, SleepSignal)
        /\ SleepDue(lifecycle', C, bus) \/ ~held'
  <2>1. SleepDue(lifecycle, Called, bus) => SleepDue(lifecycle', C, bus)
    BY <1>4 DEF SleepDue, SameTurns
  <2>2. ~held => ~held'
    BY <1>8
  <2>3. SuspendRuns(lifecycle) => ~held'
    BY <1>8
  <2> QED
    BY <2>1, <2>2, <2>3 DEF LockInv, ReleaseInv
<1>10. slot' => request' \/ Occurs(bus, {"granted"}) \/ Occurs(bus, {"refused"})
  <2>1. slot => request \/ Occurs(bus, {"granted"}) \/ Occurs(bus, {"refused"})
    BY DEF LockInv, TakeInv
  <2>2. (slot' = slot /\ request' = request) \/ request' = TRUE
    BY <1>8
  <2> QED
    BY <2>1, <2>2
<1>11. ASSUME sleep = "awake", spent["sleep"] > 0
       PROVE  /\ ~Unanswered(bus, {"refused"}, WakeSignal)
              /\ \/ WakeDue(lifecycle', C, bus)
                 \/ held' \/ request' \/ Occurs(bus, {"granted"})
  <2>1. /\ ~Unanswered(bus, {"refused"}, WakeSignal)
        /\ slot => request \/ Occurs(bus, {"granted"}) \/ Occurs(bus, {"refused"})
        /\ WakeDue(lifecycle, Called, bus) \/ held \/ request \/ Occurs(bus, {"granted"})
    BY <1>11 DEF LockInv, TakeInv
  <2>2. WakeDue(lifecycle', C, bus) <=>
          Occurs(bus, WakeSignal) \/ Occurs(Called, WakeCall) \/ Occurs(P, WakeRequest)
    BY <1>2, <1>4 DEF WakeDue, SameTurns
  <2>3. WakeDue(lifecycle, Called, bus) =>
          Occurs(bus, WakeSignal) \/ Occurs(Called, WakeCall) \/ Occurs(P, WakeRequest) \/ e \in WakeRequest
    BY <1>5 DEF WakeDue, A
  <2>4. CASE op = "Take"
    <3>1. Occurs(bus, {"refused"}) => Occurs(bus, WakeSignal)
      BY <2>1 DEF Unanswered, Occurs
    <3> QED
      BY <1>8, <2>1, <2>2, <2>4, <3>1
  <2>5. CASE op = "Release"
    <3>1. Unanswered(A, SleepRequest, WakeRequest) \/ Occurs(P, WakeRequest)
      BY <1>3, <1>5, <2>5
    <3>2. Unanswered(A, SleepRequest, WakeRequest) => Occurs(Called, WakeCall) \/ Occurs(bus, WakeSignal)
      BY <1>11 DEF LockInv, TurnsInv, Answered, A
    <3> QED
      BY <2>1, <2>2, <3>1, <3>2
  <2>6. CASE op = "None"
    <3>1. e \notin WakeRequest
      BY <1>3, <2>6
    <3> QED
      BY <1>8, <2>1, <2>2, <2>3, <2>6, <3>1
  <2> QED
    BY <2>4, <2>5, <2>6
<1> QED
  BY <1>2, <1>6, <1>7, <1>9, <1>10, <1>11, LockParts DEF C


(* The safety timer fires.  It releases the lock only during a suspend     *)
(* that logind asked for; a wake-up is due behind that one, or the machine *)
(* is not awake.                                                           *)
LEMMA SafetyKeepsLock ==
  ASSUME TypeOK, LockInv, SupervisorStep, OnSafetyTimerFired, UNCHANGED spent, loop # "stopped"
  PROVE  LockInv'
<1> DEFINE op == onSafetyTimerFired(lifecycle).out.lock
           C == calls' \o work'
           A == Accepted(lifecycle)
           P == lifecycle.pending
           e == [kind |-> "Suspend", source |-> "DBus"]
<1>1. lifecycle \in PowerLifecycleState
  BY DEF TypeOK, SupervisorTypeOK
<1>2. /\ calls # << >> /\ Head(calls).fn \notin {"suspendDBus", "resumeDBus"}
      /\ LockOp(op) /\ UNCHANGED <<bus, sleep>>
      /\ lifecycle' = onSafetyTimerFired(lifecycle).lc
  BY DEF OnSafetyTimerFired, Running, supervisorRest
<1>3. CASE lifecycle.phase # "Suspending" \/ lifecycle.safetyFiredFirst
  <2>1. lifecycle' = lifecycle /\ op = "None"
    BY <1>2, <1>3 DEF onSafetyTimerFired, Transition, Inert
  <2>2. UNCHANGED <<held, slot, request>>
    BY <1>2, <2>1 DEF LockOp, lockVars
  <2>3. SameTurns(Accepted(lifecycle'), Accepted(lifecycle), SleepRequest, WakeRequest)
    BY <2>1 DEF SameTurns
  <2> HIDE DEF op
  <2> QED
    BY <1>2, <2>1, <2>2, <2>3, CalmKeepsLock
<1>4. CASE lifecycle.phase = "Suspending" /\ ~lifecycle.safetyFiredFirst
  <2>1. /\ lifecycle'.phase = lifecycle.phase /\ lifecycle'.phaseSource = lifecycle.phaseSource
        /\ lifecycle'.pending = lifecycle.pending
        /\ op = IF lifecycle.phaseSource = "DBus" THEN "Release" ELSE "None"
    BY <1>1, <1>2, <1>4 DEF onSafetyTimerFired, Transition, Inert, PowerLifecycleState
  <2>2. Accepted(lifecycle') = A
    BY <2>1 DEF Accepted, Current
  <2> HIDE DEF op, C, A, P, e
  <2>3. CASE lifecycle.phaseSource # "DBus"
    <3>1. UNCHANGED <<held, slot, request>>
      BY <1>2, <2>1, <2>3 DEF LockOp, lockVars
    <3>2. SameTurns(Accepted(lifecycle'), Accepted(lifecycle), SleepRequest, WakeRequest)
      BY <2>2 DEF SameTurns, A
    <3>3. ~SuspendRuns(lifecycle)
      BY <2>3 DEF SuspendRuns
    <3> QED
      BY <1>2, <2>1, <3>1, <3>2, <3>3, CalmKeepsLock
  <2>4. CASE lifecycle.phaseSource = "DBus"
    <3>1. held' = FALSE /\ UNCHANGED <<slot, request>>
      BY <1>2, <2>1, <2>4 DEF LockOp, releaseInhibitLock
    <3>2. SameTurns(C, Called, SleepCall, WakeCall)
      BY <1>2, NeutralCalled DEF C
    <3>3. e \in Pending /\ e \in SleepRequest /\ P \in Seq(Pending)
      BY <1>1, AcceptedType DEF e, P, Pending, EventKind, Source, SleepRequest
    <3>4. A = <<e>> \o P
      BY <1>4, <2>4 DEF A, P, e, Accepted, Current
    <3>5. Unanswered(A, SleepRequest, WakeRequest) \/ Occurs(A, WakeRequest)
      BY <3>3, <3>4, TurnsHead
    <3>6. Orderly(A, C, bus)
      BY <3>2 DEF LockInv, TurnsInv, Orderly, SameTurns, A
    <3>7. sleep = "awake" => Answered(A, C, bus)
      BY <3>2 DEF LockInv, TurnsInv, Answered, SameTurns, A
    <3>8. sleep = "awake" => WakeDue(lifecycle', C, bus)
      BY <2>2, <3>5, <3>7 DEF Answered, WakeDue
    <3>9. /\ sleep = "preparing" => ~Unanswered(bus, {"granted"}, SleepSignal)
          /\ slot => request \/ Occurs(bus, {"granted"}) \/ Occurs(bus, {"refused"})
          /\ sleep = "awake" /\ spent["sleep"] > 0 => ~Unanswered(bus, {"refused"}, WakeSignal)
      BY DEF LockInv, ReleaseInv, TakeInv
    <3> QED
      BY <1>2, <2>2, <3>1, <3>6, <3>7, <3>8, <3>9, LockParts DEF C
  <2> QED
    BY <2>3, <2>4
<1> QED
  BY <1>3, <1>4

(* Every handler of the supervisor.                                        *)
LEMMA HandlerKeepsLock ==
  ASSUME TypeOK, TypeOK', HandlersEnd, LockInv, HandlerStep
  PROVE  LockInv'
<1>1. /\ lifecycle \in PowerLifecycleState /\ lifecycle' \in PowerLifecycleState
      /\ SupervisorStep /\ UNCHANGED spent
  BY DEF TypeOK, SupervisorTypeOK, HandlerStep, clientVars
<1>2. loop # "stopped"
  <2>1. calls # << >>
    BY <1>1, HandlerCalled
  <2> QED
    BY <2>1 DEF HandlersEnd, Live
<1>3. ASSUME UNCHANGED <<lifecycle, held, slot, request, bus, sleep>>,
             Head(calls).fn \notin {"suspendDBus", "resumeDBus"}
      PROVE  LockInv'
  <2>1. SameTurns(Accepted(lifecycle'), Accepted(lifecycle), SleepRequest, WakeRequest)
    BY <1>3 DEF SameTurns
  <2> QED
    BY <1>1, <1>2, <1>3, <2>1, CalmKeepsLock
<1>4. CASE \/ OnSuspendRequested("suspendDBus", "DBus")
           \/ OnSuspendRequested("suspendWire", "Wire")
           \/ OnResumeRequested("resumeDBus", "DBus")
           \/ OnResumeRequested("resumeWire", "Wire")
  <2>1. /\ {"suspendDBus", "suspendWire", "resumeDBus", "resumeWire"} \subseteq Requests
        /\ {"Suspend", "Resume"} \subseteq EventKind /\ {"DBus", "Wire"} \subseteq Source
    BY DEF Requests, EventKind, Source
  <2>2. PICK fn \in {"suspendDBus", "suspendWire", "resumeDBus", "resumeWire"},
             kind \in {"Suspend", "Resume"}, source \in {"DBus", "Wire"} :
          /\ Running(fn) /\ ApplyLifecycle(onRequested(lifecycle, kind, source), Tail(calls))
          /\ fn = "suspendDBus" <=> kind = "Suspend" /\ source = "DBus"
          /\ fn = "resumeDBus" <=> kind = "Resume" /\ source = "DBus"
    BY <1>4 DEF OnSuspendRequested, OnResumeRequested, onSuspendRequested, onResumeRequested
  <2> QED
    BY <1>1, <1>2, <2>1, <2>2, RequestKeepsLock
<1>5. CASE PumpQueue
  <2> DEFINE r == pumpQueue(lifecycle).lc
  <2>1. /\ Head(calls).fn = "pumpQueue" /\ lifecycle' = r /\ UNCHANGED <<bus, sleep>>
        /\ LockOp(pumpQueue(lifecycle).out.lock)
    BY <1>5 DEF PumpQueue, Running, ExecuteEffects, supervisorRest
  <2>2. /\ pumpQueue(lifecycle).out.lock = "None" /\ Accepted(r) = Accepted(lifecycle)
        /\ \/ r = lifecycle
           \/ /\ lifecycle.phase = "Idle"
              /\ Occurs(lifecycle.pending, SleepRequest) =>
                   \/ Occurs(r.pending, SleepRequest)
                   \/ r.phase = "Suspending" /\ r.phaseSource = "DBus" /\ ~r.safetyFiredFirst
    BY <1>1, PumpAccepted
  <2>3. UNCHANGED <<held, slot, request>>
    BY <2>1, <2>2 DEF LockOp, lockVars
  <2> HIDE DEF r
  <2>4. SameTurns(Accepted(lifecycle'), Accepted(lifecycle), SleepRequest, WakeRequest)
    BY <2>1, <2>2 DEF SameTurns
  <2>5. Occurs(lifecycle.pending, SleepRequest) \/ SuspendRuns(lifecycle) =>
          Occurs(lifecycle'.pending, SleepRequest) \/ SuspendRuns(lifecycle')
    BY <2>1, <2>2 DEF SuspendRuns
  <2> QED
    BY <1>1, <1>2, <2>1, <2>3, <2>4, <2>5, CalmKeepsLock
<1>6. CASE OnSuspendCompleted
  <2> DEFINE op == onSuspendCompleted(lifecycle).out.lock
  <2>1. /\ Head(calls).fn = "suspendCompleted" /\ lifecycle' = onSuspendCompleted(lifecycle).lc
        /\ LockOp(op) /\ UNCHANGED <<bus, sleep>>
    BY <1>6 DEF OnSuspendCompleted, ApplyLifecycle, Running, ExecuteEffects, supervisorRest
  <2>2. CASE lifecycle.phase # "Suspending"
    <3>1. lifecycle' = lifecycle /\ op = "None"
      BY <2>1, <2>2 DEF onSuspendCompleted, Transition, Inert
    <3>2. UNCHANGED <<held, slot, request>>
      BY <2>1, <3>1 DEF LockOp, lockVars
    <3> QED
      BY <1>3, <2>1, <3>1, <3>2
  <2>3. CASE lifecycle.phase = "Suspending"
    <3>1. /\ lifecycle'.phase = "Idle" /\ lifecycle'.pending = lifecycle.pending
          /\ op = IF ~lifecycle.safetyFiredFirst /\ lifecycle.phaseSource = "DBus"
                  THEN "Release" ELSE "None"
      BY <1>1, <2>1, <2>3 DEF onSuspendCompleted, Transition, Inert, PowerLifecycleState
    <3> HIDE DEF op
    <3>2. op \in {"None", "Release", "Take"} /\ op # "Take" /\ (SuspendRuns(lifecycle) => op = "Release")
      BY <3>1 DEF SuspendRuns
    <3> QED
      BY <1>1, <1>2, <2>1, <2>3, <3>1, <3>2, EndKeepsLock
  <2> QED
    BY <2>2, <2>3
<1>7. CASE OnResumeCompleted("resumeValid", TRUE) \/ OnResumeCompleted("resumeInvalid", FALSE)
  <2> DEFINE op == onResumeCompleted(lifecycle).out.lock
  <2>1. /\ Head(calls).fn \in {"resumeValid", "resumeInvalid"}
        /\ lifecycle' = onResumeCompleted(lifecycle).lc
        /\ LockOp(op) /\ UNCHANGED <<bus, sleep>>
    BY <1>7 DEF OnResumeCompleted, ApplyLifecycle, Running, ExecuteEffects, supervisorRest
  <2>2. CASE lifecycle.phase # "Resuming"
    <3>1. lifecycle' = lifecycle /\ op = "None"
      BY <2>1, <2>2 DEF onResumeCompleted, Transition, Inert
    <3>2. UNCHANGED <<held, slot, request>>
      BY <2>1, <3>1 DEF LockOp, lockVars
    <3> QED
      BY <1>3, <2>1, <3>1, <3>2
  <2>3. CASE lifecycle.phase = "Resuming"
    <3>1. /\ lifecycle'.phase = "Idle" /\ lifecycle'.pending = lifecycle.pending
          /\ op = IF lifecycle.phaseSource = "DBus" THEN "Take" ELSE "None"
      BY <1>1, <2>1, <2>3 DEF onResumeCompleted, Transition, Inert, PowerLifecycleState
    <3> HIDE DEF op
    <3>2. op \in {"None", "Release", "Take"} /\ op # "Release" /\ ~SuspendRuns(lifecycle)
      BY <2>3, <3>1 DEF SuspendRuns
    <3> QED
      BY <1>1, <1>2, <2>1, <2>3, <3>1, <3>2, EndKeepsLock
  <2> QED
    BY <2>2, <2>3
<1>8. CASE OnSafetyTimerFired
  BY <1>1, <1>2, <1>8, SafetyKeepsLock
<1>9. CASE \/ OnResumeWorkerComplete("resumeWorkerValid", TRUE)
           \/ OnResumeWorkerComplete("resumeWorkerInvalid", FALSE)
  BY <1>3, <1>9 DEF OnResumeWorkerComplete, Running
<1>10. CASE \/ SeedCycle \/ OnConnectionLost
            \/ OnReconnectResult("attemptSucceeded", "AttemptSucceeded")
            \/ OnReconnectResult("attemptFailed", "AttemptFailed")
            \/ OnReconnectRetryTimerFired
  BY <1>3, <1>10 DEF SeedCycle, OnConnectionLost, OnReconnectResult, OnReconnectRetryTimerFired,
                     Running, reconnectRest
<1> QED
  BY <1>1, <1>4, <1>5, <1>6, <1>7, <1>8, <1>9, <1>10 DEF SupervisorStep

(* Every step of the daemon.                                               *)
LEMMA NextKeepsLock ==
  ASSUME TypeOK, TypeOK', HandlersEnd, LockInv, [Next]_vars
  PROVE  LockInv'
<1>1. CASE HandlerStep
  BY <1>1, HandlerKeepsLock
<1>2. CASE BusStep
  BY <1>2, SignalKeepsLock, ReplyKeepsLock DEF BusStep
<1>3. CASE Aside
  BY <1>3, AsideKeepsLock
<1>4. CASE LogindSleeps \/ LogindWakes \/ LogindAnswers
  BY <1>4, LogindKeepsLock
<1>5. CASE Stopped
  BY <1>5, StoppedKeepsLock
<1> QED
  BY <1>1, <1>2, <1>3, <1>4, <1>5 DEF Next, MainStep, Aside

(* At the start nothing is on its way.                                     *)
LEMMA LockInvInit ==
  ASSUME Init
  PROVE  LockInv
<1>1. /\ calls = << >> /\ work = << >> /\ bus = << >> /\ slot = FALSE /\ sleep = "awake"
      /\ lifecycle.pending = << >> /\ lifecycle.phase = "Idle" /\ spent["sleep"] = 0
  BY DEF Init, LoopInit, LockInit, SupervisorInit, PowerLifecycleInit, Input
<1>2. Accepted(lifecycle) = << >> /\ Called = << >>
  <2>1. << >> \o << >> = << >>
    OBVIOUS
  <2>2. Current(lifecycle) = << >>
    BY <1>1 DEF Current
  <2> QED
    BY <1>1, <2>1, <2>2 DEF Accepted, Called
<1>3. \A S, W : /\ ~Occurs(<< >>, S) /\ ~Unanswered(<< >>, S, W) /\ ~Unprepared(<< >>, S, W)
                /\ InTurn(<< >>, S, W)
  BY OccursSmall, TurnsNone
<1>4. Orderly(<< >>, << >>, << >>) /\ Answered(<< >>, << >>, << >>)
  BY <1>3 DEF Orderly, Answered
<1> QED
  BY <1>1, <1>2, <1>4 DEF LockInv, TurnsInv, ReleaseInv, TakeInv

(* The inductive invariant of the lock holds throughout.                   *)
LEMMA LockHolds == Spec => [](TypeOK /\ HandlersEnd /\ LockInv)
<1>1. Init => LockInv
  BY LockInvInit
<1>2. /\ TypeOK /\ TypeOK' /\ HandlersEnd /\ LockInv /\ [Next]_vars => LockInv'
  BY NextKeepsLock
<1> QED
  BY <1>1, <1>2, CycleHolds, PTL DEF Spec

(* A sleep that the arbiter or the main thread has still to act upon is    *)
(* one that SleepRequestPending sees.                                      *)
LEMMA SleepDueMeaning ==
  ASSUME TypeOK, SleepDue(lifecycle, Called, bus)
  PROVE  SleepRequestPending
<1> DEFINE S == FramesOf({"suspendDBus"})
<1>1. work \in Seq(Frame) /\ calls \in Seq(Frame)
  BY CalledType
<1>2. CountCalls({"suspendDBus"}) = Count(work, S) + Count(calls, S)
  <2>1. \A i \in DOMAIN work : work[i] \in Frame
    BY <1>1, ElementOfSeq, LenProperties
  <2>2. \A i \in DOMAIN calls : calls[i] \in Frame
    BY <1>1, ElementOfSeq, LenProperties
  <2>3. {i \in DOMAIN work : work[i].fn \in {"suspendDBus"}} = {i \in DOMAIN work : work[i] \in S}
    BY <2>1, Members
  <2>4. {i \in DOMAIN calls : calls[i].fn \in {"suspendDBus"}} = {i \in DOMAIN calls : calls[i] \in S}
    BY <2>2, Members
  <2> QED
    BY <2>3, <2>4 DEF CountCalls, Count
<1>3. SleepCall = S
  BY DEF SleepCall
<1> HIDE DEF S
<1>4. /\ Count(work, S) \in Nat /\ Count(calls, S) \in Nat
      /\ Count(work, S) = 0 <=> ~Occurs(work, S)
      /\ Count(calls, S) = 0 <=> ~Occurs(calls, S)
  BY <1>1, CountFinite
<1>5. Occurs(Called, SleepCall) => CountCalls({"suspendDBus"}) > 0
  <2>1. Occurs(Called, S) <=> Occurs(calls, S) \/ Occurs(work, S)
    BY <1>1, OccursJoin DEF Called
  <2> QED
    BY <1>2, <1>3, <1>4, <2>1
<1>6. Occurs(bus, SleepSignal) => \E i \in DOMAIN bus : bus[i] = "sleep"
  BY DEF Occurs, SleepSignal
<1>7. Occurs(lifecycle.pending, SleepRequest) =>
        \E i \in DOMAIN lifecycle.pending : lifecycle.pending[i] = [kind |-> "Suspend", source |-> "DBus"]
  BY DEF Occurs, SleepRequest
<1> QED
  BY <1>5, <1>6, <1>7 DEF SleepDue, SleepRequestPending

(* While logind prepares a sleep the delay lock is held only as long as    *)
(* the suspend that it announced is on its way or runs: completions, the   *)
(* safety timer, late replies to Inhibit and the requests of clients, in   *)
(* any order and number, never leave the machine waiting for this daemon.  *)
THEOREM LockFreeForSleep == Spec => []LockFreeOncePrepared
<1>1. TypeOK /\ HandlersEnd /\ LockInv => LockFreeOncePrepared
  <2> SUFFICES ASSUME TypeOK, LockInv, sleep = "preparing", lifecycle.phase = "Idle",
                      ~SleepRequestPending
               PROVE  ~held
    BY DEF LockFreeOncePrepared
  <2>1. ~SleepDue(lifecycle, Called, bus)
    BY SleepDueMeaning
  <2>2. ~SuspendRuns(lifecycle)
    BY DEF SuspendRuns
  <2> QED
    BY <2>1, <2>2 DEF LockInv, ReleaseInv
<1> QED
  BY <1>1, LockHolds, PTL

(* When everything has come to rest with the machine awake after a sleep,  *)
(* the daemon holds the delay lock again, so the next sleep waits for its  *)
(* suspend as well: no refused or late Inhibit reply and no overlap of one *)
(* sleep with the next loses the lock for good.                            *)
THEOREM LockHeldAgain == Spec => []LockHeldWhenSettled
<1>1. TypeOK /\ HandlersEnd /\ LockInv => LockHeldWhenSettled
  <2> SUFFICES ASSUME LockInv, Quiescent, lifecycle.phase = "Idle", lifecycle.pending = << >>,
                      sleep = "awake", spent["sleep"] > 0
               PROVE  held
    BY DEF LockHeldWhenSettled
  <2>1. loop # "stopped" /\ calls = << >> /\ work = << >> /\ bus = << >> /\ ~request
    BY DEF Quiescent
  <2>2. Accepted(lifecycle) = << >> /\ Called = << >>
    <3>1. << >> \o << >> = << >>
      OBVIOUS
    <3>2. Current(lifecycle) = << >>
      BY DEF Current
    <3> QED
      BY <2>1, <3>1, <3>2 DEF Accepted, Called
  <2>3. \A S : ~Occurs(<< >>, S)
    BY OccursSmall
  <2>4. ~WakeDue(lifecycle, Called, bus) /\ ~Occurs(bus, {"granted"})
    BY <2>1, <2>2, <2>3 DEF WakeDue
  <2> QED
    BY <2>1, <2>4 DEF LockInv, TakeInv
<1> QED
  BY <1>1, LockHolds, PTL
=============================================================================
