------------------------------ MODULE Observers ------------------------------
(***************************************************************************)
(* What happens to a frame seen on the CEC bus: libcec's threads post an   *)
(* observation to the main thread, where StandbyPolicy may ask for a       *)
(* suspend and CecHookSubsystem may fire a hook; HookExecutor spawns the   *)
(* hook's script on its own thread, and SIGCHLD has it reaped.             *)
(*                                                                         *)
(* fired and spawned are histories.  An observation remembers whether it   *)
(* was posted before start() ended, before the first drain, or later.      *)
(***************************************************************************)
EXTENDS Naturals, Sequences, FiniteSets

CONSTANTS
  Addresses,       \* physical addresses
  Configured,      \* the hooks that have a script
  MaxObservations,
  MaxFaults        \* timerfd and posix_spawn failures

ASSUME ObserversAssumption == MaxObservations \in Nat /\ MaxFaults \in Nat

VARIABLES
  daemon,        \* "starting", "started", "running", "stopping" or "stopped"
  work,          \* closures of MainThreadWork
  batch,         \* closures left in the batch being drained
  ready,         \* events of the last epoll_wait not dispatched yet
  enabled,       \* StandbyPolicy::m_enabled
  armed,         \* StandbyPolicy::m_armed
  suspends,      \* when the observations behind suspendSystem calls were posted
  tvPower,       \* m_lastTvPower
  pending,       \* m_pendingPhysical
  lastFired,     \* m_lastFiredPhysical
  debounce,      \* m_debounceTimer: "off", "armed" or "expired"
  fired,         \* every hook fired, with what its script is told
  jobs,          \* HookExecutor::m_jobs
  executor,      \* "waiting", "spawning" or "ended"
  children,      \* scripts running
  zombies,       \* scripts that have exited and are not reaped
  sigchld,       \* is SIGCHLD pending on the signalfd?
  seen,          \* the last active source handed to the hooks
  observed,      \* observations posted
  faults

policyVars == <<enabled, armed, suspends>>
hookVars == <<tvPower, pending, lastFired, debounce, fired, jobs, seen>>
childVars == <<executor, children, zombies, sigchld>>
loopVars == <<work, batch, ready>>
vars == <<daemon, loopVars, policyVars, hookVars, childVars, observed, faults>>

Observation ==
  [kind : {"TvStandby", "HostActivated", "HostDeactivated"}, value : {"none"}]
    \cup [kind : {"TvPowerReport"}, value : {"on", "other"}]
    \cup [kind : {"ActiveSource"}, value : Addresses]
When == {"starting", "started", "later"}
Closure ==
  [fn : {"observe"}, obs : Observation, when : When]
    \cup [fn : {"arm"}] \cup [fn : {"suspend"}, when : When]

HookEvent == {"TVStandby", "TVWake", "InputSwitch", "HostActivated", "HostDeactivated"}
Power == {"Unknown", "On", "Standby"}

Init ==
  /\ daemon = "starting"
  /\ work = << >> /\ batch = 0 /\ ready = {}
  /\ enabled \in BOOLEAN /\ armed = FALSE /\ suspends = {}
  /\ tvPower = "Unknown" /\ pending = "none" /\ lastFired = "none"
  /\ debounce = "off" /\ fired = << >> /\ jobs = << >> /\ seen = "none"
  /\ executor = "waiting" /\ children = 0 /\ zombies = 0 /\ sigchld = FALSE
  /\ observed = 0
  /\ faults = MaxFaults

-----------------------------------------------------------------------------
(* libcec's threads, and the main loop.                                    *)

Phase == IF daemon \in {"starting", "started"} THEN daemon ELSE "later"

(* cecCommandCallback and cecSourceActivatedCallback pick the frames that  *)
(* matter; onAdapterObservation posts them.                                *)
onAdapterObservation(obs) ==
  /\ daemon # "stopped"
  /\ observed < MaxObservations
  /\ observed' = observed + 1
  /\ work' = Append(work, [fn |-> "observe", obs |-> obs, when |-> Phase])
  /\ UNCHANGED <<daemon, batch, ready, policyVars, hookVars, childVars, faults>>

(* The end of start(): from here the policy is to be armed.                *)
StartEnds ==
  /\ daemon = "starting"
  /\ daemon' = "started"
  /\ work' = Append(work, [fn |-> "arm"])
  /\ UNCHANGED <<batch, ready, policyVars, hookVars, childVars, observed, faults>>

AtDispatchPoint == daemon \in {"started", "running"} /\ batch = 0

Readable ==
  {e \in {"work", "debounce", "signal"} :
     \/ e = "work" /\ work # << >>
     \/ e = "debounce" /\ debounce = "expired"
     \/ e = "signal" /\ sigchld}

Poll ==
  /\ AtDispatchPoint
  /\ ready = {} /\ Readable # {}
  /\ ready' = Readable
  /\ UNCHANGED <<daemon, work, batch, policyVars, hookVars, childVars, observed, faults>>

Drain ==
  /\ AtDispatchPoint
  /\ "work" \in ready
  /\ ready' = ready \ {"work"}
  /\ daemon' = "running"
  /\ batch' = Len(work)
  /\ UNCHANGED <<work, policyVars, hookVars, childVars, observed, faults>>

-----------------------------------------------------------------------------
(* StandbyPolicy.                                                          *)

(* What observe() posts: the sd-bus call is left to the next drain.        *)
PolicyPosts(c) ==
  IF c.obs.kind = "TvStandby" /\ armed /\ enabled
  THEN << [fn |-> "suspend", when |-> c.when] >> ELSE << >>

arm == armed' = TRUE

(* CMD_AUTO_STANDBY, handled inline between two closures' batches.         *)
apply(value) ==
  /\ AtDispatchPoint /\ daemon = "running"
  /\ enabled' = value
  /\ UNCHANGED <<daemon, loopVars, armed, suspends, hookVars, childVars, observed, faults>>

-----------------------------------------------------------------------------
(* CecHookSubsystem.                                                       *)

Fire(event, new, prev) ==
  /\ fired' = Append(fired, [event |-> event, new |-> new, prev |-> prev])
  /\ jobs' = IF event \in Configured THEN Append(jobs, event) ELSE jobs

FireNothing == UNCHANGED <<fired, jobs>>

(* Mutant: the cache moves before the hook is fired.                       *)
CommitCacheFirst(address) ==
  /\ pending' = "none"
  /\ lastFired' = address
  /\ \/ address = lastFired /\ FireNothing
     \/ address # lastFired /\ Fire("InputSwitch", address, lastFired')

(* The caches move after the hook is fired: scripts are told the old value.*)
commitPending(address) ==
  /\ pending' = "none"
  /\ \/ address = lastFired /\ FireNothing /\ UNCHANGED lastFired
     \/ address # lastFired /\ Fire("InputSwitch", address, lastFired) /\ lastFired' = address

observePower(kind, value) ==
  LET new == IF kind = "TvStandby" THEN "Standby" ELSE "On"
      event == IF kind = "TvStandby" THEN "TVStandby" ELSE "TVWake"
  IN  \/ /\ tvPower # new /\ value # "other"
         /\ Fire(event, new, tvPower)
         /\ tvPower' = new
      \/ /\ tvPower = new \/ value = "other"
         /\ FireNothing /\ UNCHANGED tvPower

(* Mutant: an arm that fails is only logged.                               *)
ArmFailureIgnored(address) ==
  /\ pending' = address
  /\ \/ debounce' = "armed" /\ UNCHANGED faults
     \/ faults > 0 /\ faults' = faults - 1 /\ UNCHANGED debounce
  /\ FireNothing
  /\ UNCHANGED lastFired

(* An arm that fails commits at once, and leaves the timer as it was.      *)
observeActiveSource(address) ==
  \/ /\ debounce' = "armed"
     /\ pending' = address
     /\ FireNothing
     /\ UNCHANGED <<lastFired, faults>>
  \/ /\ faults > 0 /\ faults' = faults - 1
     /\ commitPending(address)
     /\ UNCHANGED debounce

observe(obs) ==
  \/ /\ obs.kind \in {"TvStandby", "TvPowerReport"}
     /\ observePower(obs.kind, obs.value)
     /\ UNCHANGED <<pending, lastFired, debounce, seen, faults>>
  \/ /\ obs.kind = "ActiveSource"
     /\ observeActiveSource(obs.value)
     /\ seen' = obs.value
     /\ UNCHANGED tvPower
  \/ /\ obs.kind \in {"HostActivated", "HostDeactivated"}
     /\ Fire(obs.kind, "none", "none")
     /\ UNCHANGED <<tvPower, pending, lastFired, debounce, seen, faults>>

(* Mutant: the count of expirations is not looked at.                      *)
DebounceCountIgnored ==
  /\ AtDispatchPoint
  /\ "debounce" \in ready
  /\ ready' = ready \ {"debounce"}
  /\ debounce' = IF debounce = "expired" THEN "off" ELSE debounce
  /\ \/ pending = "none" /\ FireNothing /\ UNCHANGED <<pending, lastFired>>
     \/ pending # "none" /\ commitPending(pending)
  /\ UNCHANGED <<daemon, work, batch, policyVars, tvPower, seen, childVars, observed, faults>>

(* A count of zero: the timer was armed again after epoll_wait returned.   *)
onDebounceTimerFired ==
  /\ AtDispatchPoint
  /\ "debounce" \in ready
  /\ ready' = ready \ {"debounce"}
  /\ \/ /\ debounce = "armed"
        /\ FireNothing /\ UNCHANGED <<pending, lastFired, debounce>>
     \/ /\ debounce = "expired"
        /\ debounce' = "off"
        /\ \/ pending = "none" /\ FireNothing /\ UNCHANGED <<pending, lastFired>>
           \/ pending # "none" /\ commitPending(pending)
  /\ UNCHANGED <<daemon, work, batch, policyVars, tvPower, seen, childVars, observed, faults>>

DebounceExpires ==
  /\ debounce = "armed"
  /\ debounce' = "expired"
  /\ UNCHANGED <<daemon, loopVars, policyVars, tvPower, pending, lastFired, fired, jobs, seen,
                 childVars, observed, faults>>

-----------------------------------------------------------------------------
(* One closure of the batch.  Both subscribers see every observation.      *)
RunClosure ==
  /\ batch > 0
  /\ batch' = batch - 1
  /\ LET c == Head(work) IN
     \/ /\ c.fn = "observe"
        /\ work' = Tail(work) \o PolicyPosts(c)
        /\ observe(c.obs)
        /\ UNCHANGED <<armed, suspends>>
     \/ /\ c.fn = "arm"
        /\ work' = Tail(work)
        /\ arm
        /\ UNCHANGED <<suspends, hookVars, faults>>
     \/ /\ c.fn = "suspend"
        /\ work' = Tail(work)
        /\ suspends' = suspends \cup {c.when}
        /\ UNCHANGED <<armed, hookVars, faults>>
  /\ UNCHANGED <<daemon, ready, enabled, childVars, observed>>

-----------------------------------------------------------------------------
(* HookExecutor and its children.                                          *)

TakeJob ==
  /\ executor = "waiting" /\ jobs # << >>
  /\ executor' = "spawning"
  /\ jobs' = Tail(jobs)
  /\ UNCHANGED <<daemon, loopVars, policyVars, tvPower, pending, lastFired, debounce, fired, seen,
                 children, zombies, sigchld, observed, faults>>

spawnOne ==
  /\ executor = "spawning"
  /\ executor' = "waiting"
  /\ \/ children' = children + 1 /\ UNCHANGED faults
     \/ faults > 0 /\ faults' = faults - 1 /\ UNCHANGED children
  /\ UNCHANGED <<daemon, loopVars, policyVars, hookVars, zombies, sigchld, observed>>

(* Signals of the same number are not queued: one is pending or none.      *)
ChildExits ==
  /\ children > 0
  /\ children' = children - 1
  /\ zombies' = zombies + 1
  /\ sigchld' = TRUE
  /\ UNCHANGED <<daemon, loopVars, policyVars, hookVars, executor, observed, faults>>

(* Mutant: one waitpid per signal.                                         *)
ReapOne == IF zombies > 0 THEN 1 ELSE 0

Reaped == zombies

onSignalReadable ==
  /\ AtDispatchPoint
  /\ "signal" \in ready
  /\ ready' = ready \ {"signal"}
  /\ sigchld' = FALSE
  /\ zombies' = zombies - Reaped
  /\ UNCHANGED <<daemon, work, batch, policyVars, hookVars, executor, children, observed, faults>>

(* stop(): the loop has ended; the executor, which still takes jobs, is    *)
(* told to stop last, drops its queue and is joined.                       *)
StopBegins ==
  /\ AtDispatchPoint
  /\ daemon' = "stopping"
  /\ ready' = {}
  /\ UNCHANGED <<work, batch, policyVars, hookVars, childVars, observed, faults>>

ExecutorEnds ==
  /\ daemon = "stopping"
  /\ executor = "waiting"
  /\ executor' = "ended"
  /\ jobs' = << >>
  /\ daemon' = "stopped"
  /\ UNCHANGED <<loopVars, policyVars, tvPower, pending, lastFired, debounce, fired, seen,
                 children, zombies, sigchld, observed, faults>>

-----------------------------------------------------------------------------
MainStep ==
  \/ Poll \/ Drain \/ RunClosure \/ onDebounceTimerFired \/ onSignalReadable

ExecutorStep == TakeJob \/ spawnOne \/ ExecutorEnds

Next ==
  \/ \E obs \in Observation : onAdapterObservation(obs)
  \/ StartEnds
  \/ MainStep
  \/ \E value \in BOOLEAN : apply(value)
  \/ DebounceExpires
  \/ ExecutorStep
  \/ ChildExits
  \/ StopBegins

Spec == Init /\ [][Next]_vars

(* The loop runs while anything is readable and the timer expires.         *)
FairSpec == Spec /\ WF_vars(MainStep) /\ WF_vars(StartEnds) /\ WF_vars(DebounceExpires)

TypeOK ==
  /\ daemon \in {"starting", "started", "running", "stopping", "stopped"}
  /\ work \in Seq(Closure)
  /\ batch \in 0 .. Len(work)
  /\ ready \subseteq {"work", "debounce", "signal"}
  /\ enabled \in BOOLEAN /\ armed \in BOOLEAN /\ suspends \subseteq When
  /\ tvPower \in Power
  /\ {pending, lastFired, seen} \subseteq Addresses \cup {"none"}
  /\ debounce \in {"off", "armed", "expired"}
  /\ \A i \in 1 .. Len(fired) : fired[i].event \in HookEvent
  /\ jobs \in Seq(Configured)
  /\ executor \in {"waiting", "spawning", "ended"}
  /\ {children, zombies, observed} \subseteq Nat
  /\ sigchld \in BOOLEAN
  /\ faults \in 0 .. MaxFaults

-----------------------------------------------------------------------------
(* The hooks before the i-th that announce the same thing as it does.      *)
ToldBefore(i, events) == {j \in 1 .. i - 1 : fired[j].event \in events}

IsChain(events, first) ==
  \A i \in DOMAIN fired : fired[i].event \in events =>
    /\ ToldBefore(i, events) = {} => fired[i].prev = first
    /\ \A j \in ToldBefore(i, events) :
         (\A k \in ToldBefore(i, events) : k <= j) => fired[i].prev = fired[j].new
    /\ fired[i].new # fired[i].prev

(* What scripts are told forms a chain: each InputSwitch, and each TVWake  *)
(* or TVStandby, names as previous value the one the hook before it        *)
(* announced, and announces a different one, whatever bursts, debounced    *)
(* commits and immediate commits it took.                                  *)
ScriptsSeeAChain ==
  /\ IsChain({"InputSwitch"}, "none")
  /\ IsChain({"TVWake", "TVStandby"}, "Unknown")

(* InputSwitch fires only when the bus has been quiet for the whole        *)
(* debounce window after the last active source, or when the timer could   *)
(* not be armed: never on an expiry that a newer observation superseded.   *)
CommitsOnlySettled ==
  [][(\E i \in DOMAIN fired' \ DOMAIN fired : fired'[i].event = "InputSwitch")
       => debounce = "expired" \/ faults' # faults]_vars

(* A TV standby seen while the daemon starts is absorbed: it never turns   *)
(* into a suspend of the machine.                                          *)
StartupAbsorbed == "starting" \notin suspends

(* While the loop runs, a script that has exited has a SIGCHLD on its way: *)
(* coalesced signals leave no zombie behind.                               *)
ZombiesSignalled == zombies > 0 => sigchld

(* Every exited script is signalled (reapChildren takes all there are,     *)
(* however many exits one SIGCHLD stands for), and no standby seen before  *)
(* the policy was armed suspends the machine.                              *)
HookInv == TypeOK /\ ZombiesSignalled /\ StartupAbsorbed

(* The last active source the hooks were handed is reported, unless a      *)
(* newer one replaces it or the daemon stops: no transition is lost.       *)
SettledSourceReported ==
  \A a \in Addresses : seen = a ~> lastFired = a \/ seen # a \/ daemon \in {"stopping", "stopped"}

(* standby_policy.h: "any TvStandby observation libcec emitted between     *)
(* Open() returning and the loop's first drain" is absorbed.               *)
PreDrainAbsorbed == {"starting", "started"} \cap suspends = {}
=============================================================================
