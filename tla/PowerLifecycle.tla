--------------------------- MODULE PowerLifecycle ---------------------------
(***************************************************************************)
(* The suspend / resume arbiter of the daemon, class PowerLifecycle: a     *)
(* pure decision type.  Every handler takes the state lc of the arbiter    *)
(* and yields its next state together with the Output that the             *)
(* PowerSupervisor carries out.  Names are those of the C++ members.       *)
(***************************************************************************)
EXTENDS Sequences

Source == {"DBus", "Wire"}
Phase == {"Idle", "Suspending", "Resuming"}
EventKind == {"Suspend", "Resume"}
Pending == [kind : EventKind, source : Source]

PowerLifecycleState ==
  [phase : Phase, phaseSource : Source, safetyFiredFirst : BOOLEAN,
   pending : Seq(Pending)]

PowerLifecycleInit ==
  [phase |-> "Idle", phaseSource |-> "DBus", safetyFiredFirst |-> FALSE,
   pending |-> << >>]

LifecycleOutput ==
  [work   : {"None", "StartSuspend", "StartResume"},
   lock   : {"None", "Release", "Take"},
   timer  : {"None", "Arm", "Disarm"},
   notify : {"None", "SystemSuspend", "SystemResume"},
   safety : {"Inert", "Fired", "Overrun"}]

Inert == [work |-> "None", lock |-> "None", timer |-> "None",
          notify |-> "None", safety |-> "Inert"]

Transition(lc, out) == [lc |-> lc, out |-> out]

-----------------------------------------------------------------------------
(* Mutant: coalesce with any accepted request, not only the latest.        *)
CoalescesWithAny(lc, kind, source) ==
  \/ \E i \in DOMAIN lc.pending :
        lc.pending[i] = [kind |-> kind, source |-> source]
  \/ /\ lc.phase = (IF kind = "Suspend" THEN "Suspending" ELSE "Resuming")
     /\ lc.phaseSource = source

(* The last request the arbiter has accepted: the back of the deque, else  *)
(* the cycle in progress.                                                  *)
coalescesWithEffectiveTail(lc, kind, source) ==
  IF lc.pending # << >>
  THEN lc.pending[Len(lc.pending)] = [kind |-> kind, source |-> source]
  ELSE /\ lc.phase = (IF kind = "Suspend" THEN "Suspending" ELSE "Resuming")
       /\ lc.phaseSource = source

onRequested(lc, kind, source) ==
  Transition(IF coalescesWithEffectiveTail(lc, kind, source) THEN lc
             ELSE [lc EXCEPT !.pending =
                     Append(@, [kind |-> kind, source |-> source])],
             Inert)

onSuspendRequested(lc, source) == onRequested(lc, "Suspend", source)

onResumeRequested(lc, source) == onRequested(lc, "Resume", source)

-----------------------------------------------------------------------------
makeSuspendEntry(lc) ==
  Transition([lc EXCEPT !.phase = "Suspending", !.safetyFiredFirst = FALSE],
             [Inert EXCEPT !.work = "StartSuspend", !.timer = "Arm",
                           !.notify = "SystemSuspend"])

makeResumeEntry(lc) ==
  Transition([lc EXCEPT !.phase = "Resuming"],
             [Inert EXCEPT !.work = "StartResume", !.notify = "SystemResume"])

pumpQueue(lc) ==
  IF lc.phase # "Idle" \/ lc.pending = << >> THEN Transition(lc, Inert)
  ELSE LET next   == Head(lc.pending)
           popped == [lc EXCEPT !.pending = Tail(@), !.phaseSource = next.source]
       IN  IF next.kind = "Suspend" THEN makeSuspendEntry(popped)
                                    ELSE makeResumeEntry(popped)

-----------------------------------------------------------------------------
(* Mutants: the timer keeps running, or only the safety timer releases.    *)
SuspendCompletedKeepsTimer(lc) ==
  IF lc.phase # "Suspending" THEN Transition(lc, Inert)
  ELSE Transition([lc EXCEPT !.phase = "Idle", !.safetyFiredFirst = FALSE],
                  [Inert EXCEPT !.lock = "Release"])

SuspendCompletedKeepsLock(lc) ==
  IF lc.phase # "Suspending" THEN Transition(lc, Inert)
  ELSE Transition([lc EXCEPT !.phase = "Idle", !.safetyFiredFirst = FALSE],
                  [Inert EXCEPT !.timer = "Disarm"])

onSuspendCompleted(lc) ==
  IF lc.phase # "Suspending" THEN Transition(lc, Inert)
  ELSE Transition(
         [lc EXCEPT !.phase = "Idle", !.safetyFiredFirst = FALSE],
         [Inert EXCEPT
            !.timer  = "Disarm",
            !.safety = IF lc.safetyFiredFirst THEN "Overrun" ELSE "Inert",
            !.lock   = IF ~lc.safetyFiredFirst /\ lc.phaseSource = "DBus"
                       THEN "Release" ELSE "None"])

onResumeCompleted(lc) ==
  IF lc.phase # "Resuming" THEN Transition(lc, Inert)
  ELSE Transition(
         [lc EXCEPT !.phase = "Idle"],
         [Inert EXCEPT !.lock = IF lc.phaseSource = "DBus" THEN "Take"
                                                           ELSE "None"])

(* Mutant: the timer is noted and the lock left to the completion.         *)
SafetyTimerKeepsLock(lc) ==
  IF lc.phase # "Suspending" \/ lc.safetyFiredFirst THEN Transition(lc, Inert)
  ELSE Transition([lc EXCEPT !.safetyFiredFirst = TRUE],
                  [Inert EXCEPT !.safety = "Fired"])

onSafetyTimerFired(lc) ==
  IF lc.phase # "Suspending" \/ lc.safetyFiredFirst THEN Transition(lc, Inert)
  ELSE Transition(
         [lc EXCEPT !.safetyFiredFirst = TRUE],
         [Inert EXCEPT !.safety = "Fired",
                       !.lock = IF lc.phaseSource = "DBus" THEN "Release"
                                                           ELSE "None"])
=============================================================================
