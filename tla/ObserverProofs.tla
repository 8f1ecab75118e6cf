--------------------------- MODULE ObserverProofs ---------------------------
(***************************************************************************)
(* Proofs about Observers for any number of observations and of failures:  *)
(* what scripts are told forms a chain, an input switch is announced only  *)
(* when it has settled, exited scripts are signalled, and a standby of the *)
(* TV seen while the daemon starts never suspends the machine.             *)
(***************************************************************************)
EXTENDS Observers, SequenceTheorems, TLAPS

-----------------------------------------------------------------------------
(* Chains.  Told(F, E, i) are the hooks of E among those before the i-th,  *)
(* and v links to them if it is what the last of them announced.           *)

Told(F, E, i) == {j \in 1 .. i - 1 : F[j].event \in E}

Link(F, E, first, i, v) ==
  /\ Told(F, E, i) = {} => v = first
  /\ \A j \in Told(F, E, i) : (\A k \in Told(F, E, i) : k <= j) => v = F[j].new

ChainOf(F, E, first) ==
  \A i \in DOMAIN F : F[i].event \in E =>
    /\ Link(F, E, first, i, F[i].prev)
    /\ F[i].new # F[i].prev

(* The chain ends in v.                                                    *)
EndsIn(F, E, first, v) == Link(F, E, first, Len(F) + 1, v)

(* One more hook leaves those before it as they are.                       *)
LEMMA LinkKept ==
  ASSUME NEW T, NEW F \in Seq(T), NEW f \in T, NEW E, NEW first, NEW v,
         NEW i \in 1 .. Len(F) + 1
  PROVE  /\ Told(Append(F, f), E, i) = Told(F, E, i)
         /\ Link(Append(F, f), E, first, i, v) <=> Link(F, E, first, i, v)
<1> DEFINE G == Append(F, f)
<1>1. Len(F) \in Nat /\ \A j \in 1 .. Len(F) : G[j] = F[j]
  BY AppendProperties, LenProperties
<1>2. \A j \in 1 .. i - 1 : j \in 1 .. Len(F)
  BY <1>1
<1> HIDE DEF G
<1>3. Told(G, E, i) = Told(F, E, i)
  BY <1>1, <1>2 DEF Told
<1>4. \A j \in Told(F, E, i) : G[j] = F[j]
  BY <1>1, <1>2 DEF Told
<1>5. Link(G, E, first, i, v) <=> Link(F, E, first, i, v)
  BY <1>3, <1>4 DEF Link
<1> QED
  BY <1>3, <1>5 DEF G

(* A hook that names the end of the chain as previous value and announces  *)
(* another one prolongs it; a hook of another kind leaves it alone.        *)
LEMMA ChainGrows ==
  ASSUME NEW T, NEW F \in Seq(T), NEW f \in T, NEW E, NEW first, NEW v,
         ChainOf(F, E, first), EndsIn(F, E, first, v)
  PROVE  LET G == Append(F, f) IN
         /\ f.event \in E /\ f.prev = v /\ f.new # v =>
              ChainOf(G, E, first) /\ EndsIn(G, E, first, f.new)
         /\ f.event \notin E =>
              ChainOf(G, E, first) /\ EndsIn(G, E, first, v)
<1> DEFINE G == Append(F, f)
           n == Len(F)
<1>1. /\ n \in Nat /\ Len(G) = n + 1 /\ DOMAIN F = 1 .. n /\ DOMAIN G = 1 .. n + 1
      /\ \A j \in 1 .. n : G[j] = F[j]
      /\ G[n + 1] = f
  BY AppendProperties, LenProperties
<1>2. \A i \in 1 .. n + 1 : \A w :
        /\ Told(G, E, i) = Told(F, E, i)
        /\ Link(G, E, first, i, w) <=> Link(F, E, first, i, w)
  BY LinkKept
<1>a. n + 1 \in 1 .. n + 1 /\ \A i \in 1 .. n : i \in 1 .. n + 1
  BY <1>1
<1>b. \A i \in 1 .. n + 1 : i \in 1 .. n \/ i = n + 1
  BY <1>1
<1> HIDE DEF G
<1>3. ASSUME NEW i \in 1 .. n, G[i].event \in E
      PROVE  Link(G, E, first, i, G[i].prev) /\ G[i].new # G[i].prev
  <2>1. G[i] = F[i] /\ i \in DOMAIN F
    BY <1>1
  <2>2. Link(F, E, first, i, F[i].prev) /\ F[i].new # F[i].prev
    BY <1>3, <2>1 DEF ChainOf
  <2> QED
    BY <1>2, <1>a, <2>1, <2>2
<1>4. Link(G, E, first, n + 1, v)
  BY <1>2, <1>a DEF EndsIn
<1>5. Told(G, E, n + 2) = Told(G, E, n + 1) \cup (IF f.event \in E THEN {n + 1} ELSE {})
  <2>1. (n + 2) - 1 = n + 1 /\ (n + 1) - 1 = n
    BY <1>1
  <2>2. Told(G, E, n + 2) = {j \in 1 .. n + 1 : G[j].event \in E}
    BY <2>1 DEF Told
  <2>3. Told(G, E, n + 1) = {j \in 1 .. n : G[j].event \in E}
    BY <2>1 DEF Told
  <2> QED
    BY <1>1, <1>a, <1>b, <2>2, <2>3
<1>6. ASSUME f.event \in E, f.prev = v, f.new # v
      PROVE  ChainOf(G, E, first) /\ EndsIn(G, E, first, f.new)
  <2>1. ChainOf(G, E, first)
    BY <1>1, <1>3, <1>4, <1>6, <1>b DEF ChainOf
  <2>2. n + 1 \in Told(G, E, n + 2)
    BY <1>5, <1>6
  <2>3. \A j \in Told(G, E, n + 2) : j \in 1 .. n + 1
    <3>1. (n + 2) - 1 = n + 1
      BY <1>1
    <3> QED
      BY <3>1 DEF Told
  <2>4. \A j \in Told(G, E, n + 2) : (\A k \in Told(G, E, n + 2) : k <= j) => j = n + 1
    BY <1>1, <2>2, <2>3
  <2>5. Link(G, E, first, n + 2, f.new)
    BY <1>1, <2>2, <2>4 DEF Link
  <2>6. Len(G) + 1 = n + 2
    BY <1>1
  <2> QED
    BY <2>1, <2>5, <2>6 DEF EndsIn
<1>7. ASSUME f.event \notin E
      PROVE  ChainOf(G, E, first) /\ EndsIn(G, E, first, v)
  <2>1. ChainOf(G, E, first)
    BY <1>1, <1>3, <1>7, <1>b DEF ChainOf
  <2>2. Told(G, E, n + 2) = Told(G, E, n + 1)
    BY <1>5, <1>7
  <2>3. Link(G, E, first, n + 2, v)
    BY <1>4, <2>2 DEF Link
  <2>4. Len(G) + 1 = n + 2
    BY <1>1
  <2> QED
    BY <2>1, <2>3, <2>4 DEF EndsIn
<1> QED
  BY <1>6, <1>7 DEF G

(* The chains of the model.                                                *)
LEMMA ChainMeaning ==
  ASSUME NEW E, NEW first
  PROVE  ChainOf(fired, E, first) => IsChain(E, first)
BY DEF ChainOf, IsChain, Link, Told, ToldBefore

-----------------------------------------------------------------------------
(* The queue.  Early are the observations posted while the daemon starts.  *)

Early(c) == c.fn = "observe" /\ c.when = "starting"
EarlySuspend(c) == c.fn = "suspend" /\ c.when = "starting"
Arms(c) == c.fn = "arm"

(* Every early observation runs before the policy is armed, and nothing    *)
(* suspends the machine for one.                                           *)
QueueOK(W) ==
  /\ \A i, j \in DOMAIN W : Early(W[i]) /\ Arms(W[j]) => i < j
  /\ \A i \in DOMAIN W : ~EarlySuspend(W[i])

(* A closure posted behind the others keeps the order of the queue, if no  *)
(* early observation comes after the arm.                                  *)
LEMMA QueueAppend ==
  ASSUME NEW W \in Seq(Closure), NEW c \in Closure, QueueOK(W),
         ~EarlySuspend(c),
         Early(c) => \A i \in DOMAIN W : ~Arms(W[i])
  PROVE  /\ Append(W, c) \in Seq(Closure)
         /\ Len(Append(W, c)) = Len(W) + 1 /\ Len(W) \in Nat
         /\ QueueOK(Append(W, c))
         /\ \A i \in DOMAIN Append(W, c) : (\E j \in DOMAIN W : Append(W, c)[i] = W[j]) \/ Append(W, c)[i] = c
<1> DEFINE V == Append(W, c)
           n == Len(W)
<1>1. /\ n \in Nat /\ V \in Seq(Closure) /\ Len(V) = n + 1
      /\ DOMAIN W = 1 .. n /\ DOMAIN V = 1 .. n + 1
      /\ \A i \in 1 .. n : V[i] = W[i]
      /\ V[n + 1] = c
  BY AppendProperties, LenProperties
<1>2. \A i \in DOMAIN V : (i \in DOMAIN W /\ V[i] = W[i] /\ i < n + 1) \/ (i = n + 1 /\ V[i] = c)
  BY <1>1
<1>3. Early(c) => ~Arms(c)
  BY DEF Early, Arms
<1> HIDE DEF V
<1>4. ASSUME NEW i \in DOMAIN V, NEW j \in DOMAIN V, Early(V[i]), Arms(V[j])
      PROVE  i < j
  <2>1. CASE i \in DOMAIN W /\ V[i] = W[i]
    BY <1>2, <1>4, <2>1 DEF QueueOK
  <2>2. CASE i = n + 1 /\ V[i] = c
    BY <1>2, <1>3, <1>4, <2>2
  <2> QED
    BY <1>2, <2>1, <2>2
<1>5. \A i \in DOMAIN V : ~EarlySuspend(V[i])
  BY <1>2 DEF QueueOK
<1> QED
  BY <1>1, <1>2, <1>4, <1>5 DEF QueueOK, V

(* Taking the first closure off keeps it, and the arm leaves no early      *)
(* observation behind.                                                     *)
LEMMA QueueTail ==
  ASSUME NEW W \in Seq(Closure), Len(W) > 0, QueueOK(W)
  PROVE  /\ Head(W) \in Closure /\ Tail(W) \in Seq(Closure)
         /\ Len(Tail(W)) = Len(W) - 1 /\ Len(W) \in Nat
         /\ QueueOK(Tail(W))
         /\ \A i \in DOMAIN Tail(W) : \E j \in DOMAIN W : Tail(W)[i] = W[j]
         /\ \E j \in DOMAIN W : Head(W) = W[j]
         /\ Arms(Head(W)) => \A i \in DOMAIN W : ~Early(W[i])
         /\ ~EarlySuspend(Head(W))
<1> DEFINE V == Tail(W)
           n == Len(W)
<1>0. W # << >>
  BY EmptySeq
<1>1. /\ n \in Nat /\ V \in Seq(Closure) /\ Len(V) = n - 1
      /\ DOMAIN W = 1 .. n /\ DOMAIN V = 1 .. n - 1
      /\ \A i \in 1 .. n - 1 : V[i] = W[i + 1]
      /\ Head(W) = W[1] /\ Head(W) \in Closure
  BY <1>0, HeadTailProperties, LenProperties
<1>2. \A i \in DOMAIN V : i + 1 \in DOMAIN W /\ V[i] = W[i + 1] /\ i \in Nat
  BY <1>1
<1>3. 1 \in DOMAIN W /\ \A i \in DOMAIN W : i \in Nat /\ ~(i < 1)
  BY <1>1
<1> HIDE DEF V
<1>4. ASSUME NEW i \in DOMAIN V, NEW j \in DOMAIN V, Early(V[i]), Arms(V[j])
      PROVE  i < j
  <2>1. i + 1 < j + 1
    BY <1>2, <1>4 DEF QueueOK
  <2> QED
    BY <1>2, <2>1
<1>5. \A i \in DOMAIN V : ~EarlySuspend(V[i])
  BY <1>2 DEF QueueOK
<1>6. Arms(Head(W)) => \A i \in DOMAIN W : ~Early(W[i])
  BY <1>1, <1>3 DEF QueueOK
<1>7. ~EarlySuspend(Head(W))
  BY <1>1, <1>3 DEF QueueOK
<1> QED
  BY <1>1, <1>2, <1>3, <1>4, <1>5, <1>6, <1>7 DEF QueueOK, V

-----------------------------------------------------------------------------
(* The strengthening.                                                      *)

Announced == Addresses \cup {"none"} \cup Power
Hook == [event : HookEvent, new : Announced, prev : Announced]

Switch == {"InputSwitch"}
TvPower == {"TVWake", "TVStandby"}

(* The caches hold what was last announced.                                *)
ChainInv ==
  /\ fired \in Seq(Hook)
  /\ ChainOf(fired, Switch, "none") /\ EndsIn(fired, Switch, "none", lastFired)
  /\ ChainOf(fired, TvPower, "Unknown") /\ EndsIn(fired, TvPower, "Unknown", tvPower)

StartupInv ==
  /\ QueueOK(work)
  /\ daemon = "starting" => batch = 0 /\ ~armed /\ \A i \in DOMAIN work : ~Arms(work[i])
  /\ armed => \A i \in DOMAIN work : ~Early(work[i])
  /\ StartupAbsorbed

IInv == TypeOK /\ ZombiesSignalled /\ ChainInv /\ StartupInv

(* The part of TypeOK about what the hooks keep.                           *)
HookTypes ==
  /\ tvPower \in Power
  /\ {pending, lastFired, seen} \subseteq Addresses \cup {"none"}
  /\ debounce \in {"off", "armed", "expired"}
  /\ jobs \in Seq(Configured)
  /\ faults \in 0 .. MaxFaults

(* The part of TypeOK about the loop, the policy and the children.         *)
OtherTypes ==
  /\ daemon \in {"starting", "started", "running", "stopping", "stopped"}
  /\ work \in Seq(Closure)
  /\ batch \in 0 .. Len(work)
  /\ ready \subseteq {"work", "debounce", "signal"}
  /\ enabled \in BOOLEAN /\ armed \in BOOLEAN /\ suspends \subseteq When
  /\ executor \in {"waiting", "spawning", "ended"}
  /\ {children, zombies, observed} \subseteq Nat
  /\ sigchld \in BOOLEAN

(* The parts of the inductive invariant.                                   *)
LEMMA Parts ==
  IInv => HookTypes /\ OtherTypes /\ ZombiesSignalled /\ ChainInv /\ StartupInv
BY DEF IInv, TypeOK, HookTypes, OtherTypes

(* Every hook fired is of a known kind.                                    *)
LEMMA FiredTyped ==
  ASSUME NEW F \in Seq(Hook)
  PROVE  \A i \in 1 .. Len(F) : F[i].event \in HookEvent
<1>1. \A i \in 1 .. Len(F) : F[i] \in Hook
  BY ElementOfSeq
<1> QED
  BY <1>1 DEF Hook

(* And the invariant from its parts, in the next state.                    *)
LEMMA Assembled ==
  ASSUME HookTypes', OtherTypes', ZombiesSignalled', ChainInv', StartupInv'
  PROVE  IInv'
<1>1. fired' \in Seq(Hook)
  BY DEF ChainInv
<1>2. \A i \in 1 .. Len(fired') : fired'[i].event \in HookEvent
  BY <1>1, FiredTyped
<1> QED
  BY <1>2 DEF IInv, TypeOK, HookTypes, OtherTypes

-----------------------------------------------------------------------------
(* The hooks.                                                              *)

(* A step that fires nothing and moves no cache keeps the chains.          *)
LEMMA ChainsStand ==
  ASSUME ChainInv, UNCHANGED <<fired, lastFired, tvPower>>
  PROVE  ChainInv'
<1>1. fired' = fired /\ lastFired' = lastFired /\ tvPower' = tvPower
  OBVIOUS
<1> QED
  BY <1>1 DEF ChainInv

(* Firing a hook whose previous value is the cache, and moving the cache   *)
(* to what it announces, keeps both chains.                                *)
LEMMA FireKeeps ==
  ASSUME ChainInv, jobs \in Seq(Configured),
         NEW event \in HookEvent, NEW new \in Announced, NEW prev \in Announced,
         Fire(event, new, prev),
         event \in Switch => prev = lastFired /\ new # lastFired /\ lastFired' = new,
         event \notin Switch => lastFired' = lastFired,
         event \in TvPower => prev = tvPower /\ new # tvPower /\ tvPower' = new,
         event \notin TvPower => tvPower' = tvPower
  PROVE  ChainInv' /\ jobs' \in Seq(Configured)
<1> DEFINE f == [event |-> event, new |-> new, prev |-> prev]
<1>1. f \in Hook /\ f.event = event /\ f.new = new /\ f.prev = prev
  BY DEF Hook
<1>2. fired \in Seq(Hook) /\ fired' = Append(fired, f)
  BY DEF ChainInv, Fire
<1>3. jobs' \in Seq(Configured)
  BY AppendProperties DEF Fire
<1> HIDE DEF f
<1>4. fired' \in Seq(Hook)
  BY <1>1, <1>2, AppendProperties
<1>5. ChainOf(fired', Switch, "none") /\ EndsIn(fired', Switch, "none", lastFired')
  <2>1. ChainOf(fired, Switch, "none") /\ EndsIn(fired, Switch, "none", lastFired)
    BY DEF ChainInv
  <2>2. CASE event \in Switch
    <3>1. /\ ChainOf(Append(fired, f), Switch, "none")
          /\ EndsIn(Append(fired, f), Switch, "none", f.new)
      BY <1>1, <1>2, <2>1, <2>2, ChainGrows
    <3> QED
      BY <1>1, <1>2, <2>2, <3>1
  <2>3. CASE event \notin Switch
    <3>1. /\ ChainOf(Append(fired, f), Switch, "none")
          /\ EndsIn(Append(fired, f), Switch, "none", lastFired)
      BY <1>1, <1>2, <2>1, <2>3, ChainGrows
    <3> QED
      BY <1>2, <2>3, <3>1
  <2> QED
    BY <2>2, <2>3
<1>6. ChainOf(fired', TvPower, "Unknown") /\ EndsIn(fired', TvPower, "Unknown", tvPower')
  <2>1. ChainOf(fired, TvPower, "Unknown") /\ EndsIn(fired, TvPower, "Unknown", tvPower)
    BY DEF ChainInv
  <2>2. CASE event \in TvPower
    <3>1. /\ ChainOf(Append(fired, f), TvPower, "Unknown")
          /\ EndsIn(Append(fired, f), TvPower, "Unknown", f.new)
      BY <1>1, <1>2, <2>1, <2>2, ChainGrows
    <3> QED
      BY <1>1, <1>2, <2>2, <3>1
  <2>3. CASE event \notin TvPower
    <3>1. /\ ChainOf(Append(fired, f), TvPower, "Unknown")
          /\ EndsIn(Append(fired, f), TvPower, "Unknown", tvPower)
      BY <1>1, <1>2, <2>1, <2>3, ChainGrows
    <3> QED
      BY <1>2, <2>3, <3>1
  <2> QED
    BY <2>2, <2>3
<1> QED
  BY <1>3, <1>4, <1>5, <1>6 DEF ChainInv

(* commitPending hands one script the switch from the last address fired.  *)
LEMMA CommitKeeps ==
  ASSUME HookTypes, ChainInv, NEW address \in Addresses \cup {"none"},
         commitPending(address), UNCHANGED tvPower
  PROVE  /\ ChainInv'
         /\ jobs' \in Seq(Configured)
         /\ {pending', lastFired'} \subseteq Addresses \cup {"none"}
<1>1. {pending', lastFired'} \subseteq Addresses \cup {"none"}
  BY DEF HookTypes, commitPending
<1>2. CASE address = lastFired /\ FireNothing /\ UNCHANGED lastFired
  <2>1. ChainInv'
    BY <1>2, ChainsStand DEF FireNothing
  <2>2. jobs' \in Seq(Configured)
    BY <1>2 DEF FireNothing, HookTypes
  <2> QED
    BY <1>1, <2>1, <2>2
<1>3. CASE address # lastFired /\ Fire("InputSwitch", address, lastFired) /\ lastFired' = address
  <2>1. "InputSwitch" \in HookEvent /\ "InputSwitch" \in Switch /\ "InputSwitch" \notin TvPower
    BY DEF HookEvent, Switch, TvPower
  <2>2. address \in Announced /\ lastFired \in Announced /\ jobs \in Seq(Configured)
    BY DEF Announced, HookTypes
  <2>3. ChainInv' /\ jobs' \in Seq(Configured)
    BY <1>3, <2>1, <2>2, FireKeeps
  <2> QED
    BY <1>1, <2>3
<1> QED
  BY <1>2, <1>3 DEF commitPending

(* observePower hands one script the change from the last power seen.      *)
LEMMA PowerKeeps ==
  ASSUME HookTypes, ChainInv, NEW kind \in {"TvStandby", "TvPowerReport"}, NEW value,
         observePower(kind, value), UNCHANGED lastFired
  PROVE  ChainInv' /\ jobs' \in Seq(Configured) /\ tvPower' \in Power
<1> DEFINE new == IF kind = "TvStandby" THEN "Standby" ELSE "On"
           event == IF kind = "TvStandby" THEN "TVStandby" ELSE "TVWake"
<1>1. event \in HookEvent /\ event \notin Switch /\ event \in TvPower /\ new \in Power
  BY DEF HookEvent, Switch, TvPower, Power
<1>2. new \in Announced /\ tvPower \in Announced /\ jobs \in Seq(Configured)
  BY DEF Announced, HookTypes, Power
<1>3. \/ tvPower # new /\ Fire(event, new, tvPower) /\ tvPower' = new
      \/ FireNothing /\ UNCHANGED tvPower
  BY Zenon DEF observePower
<1> HIDE DEF new, event
<1>4. CASE tvPower # new /\ Fire(event, new, tvPower) /\ tvPower' = new
  <2>1. ChainInv' /\ jobs' \in Seq(Configured)
    BY <1>1, <1>2, <1>4, FireKeeps
  <2> QED
    BY <1>1, <1>4, <2>1
<1>5. CASE FireNothing /\ UNCHANGED tvPower
  <2>1. ChainInv'
    BY <1>5, ChainsStand DEF FireNothing
  <2> QED
    BY <1>5, <2>1 DEF FireNothing, HookTypes
<1> QED
  BY <1>3, <1>4, <1>5

(* So every observation extends the chain or leaves it alone.              *)
LEMMA ObserveKeeps ==
  ASSUME HookTypes, ChainInv, NEW obs \in Observation, observe(obs)
  PROVE  HookTypes' /\ ChainInv'
<1>0. faults \in Nat /\ MaxFaults \in Nat
  BY ObserversAssumption DEF HookTypes
<1>1. CASE /\ obs.kind \in {"TvStandby", "TvPowerReport"}
           /\ observePower(obs.kind, obs.value)
           /\ UNCHANGED <<pending, lastFired, debounce, seen, faults>>
  <2>1. ChainInv' /\ jobs' \in Seq(Configured) /\ tvPower' \in Power
    BY <1>1, PowerKeeps
  <2> QED
    BY <1>1, <2>1 DEF HookTypes
<1>2. CASE /\ obs.kind = "ActiveSource"
           /\ observeActiveSource(obs.value)
           /\ seen' = obs.value
           /\ UNCHANGED tvPower
  <2>1. obs.value \in Addresses
    BY <1>2 DEF Observation
  <2>2. CASE /\ debounce' = "armed" /\ pending' = obs.value /\ FireNothing
             /\ UNCHANGED <<lastFired, faults>>
    <3>1. ChainInv'
      BY <1>2, <2>2, ChainsStand DEF FireNothing
    <3> QED
      BY <1>2, <2>1, <2>2, <3>1 DEF HookTypes, FireNothing
  <2>3. CASE /\ faults > 0 /\ faults' = faults - 1
             /\ commitPending(obs.value)
             /\ UNCHANGED debounce
    <3>1. /\ ChainInv' /\ jobs' \in Seq(Configured)
          /\ {pending', lastFired'} \subseteq Addresses \cup {"none"}
      BY <1>2, <2>1, <2>3, CommitKeeps
    <3>2. faults' \in 0 .. MaxFaults
      BY <1>0, <2>3 DEF HookTypes
    <3> QED
      BY <1>2, <2>1, <2>3, <3>1, <3>2 DEF HookTypes
  <2> QED
    BY <1>2, <2>2, <2>3 DEF observeActiveSource
<1>3. CASE /\ obs.kind \in {"HostActivated", "HostDeactivated"}
           /\ Fire(obs.kind, "none", "none")
           /\ UNCHANGED <<tvPower, pending, lastFired, debounce, seen, faults>>
  <2>1. obs.kind \in HookEvent /\ obs.kind \notin Switch /\ obs.kind \notin TvPower
    BY <1>3 DEF HookEvent, Switch, TvPower
  <2>2. "none" \in Announced /\ jobs \in Seq(Configured)
    BY DEF Announced, HookTypes
  <2>3. ChainInv' /\ jobs' \in Seq(Configured)
    BY <1>3, <2>1, <2>2, FireKeeps
  <2> QED
    BY <1>3, <2>3 DEF HookTypes
<1> QED
  BY <1>1, <1>2, <1>3 DEF observe

-----------------------------------------------------------------------------
(* The actions.                                                            *)

(* A step that leaves the hooks alone keeps their part of the invariant.   *)
LEMMA HooksStand ==
  ASSUME IInv, UNCHANGED hookVars, UNCHANGED faults
  PROVE  HookTypes' /\ ChainInv'
<1>1. HookTypes /\ ChainInv
  BY Parts
<1>2. ChainInv'
  BY <1>1, ChainsStand DEF hookVars
<1> QED
  BY <1>1, <1>2 DEF HookTypes, hookVars

(* A step that leaves the queue, the policy and the daemon alone keeps the *)
(* part about the start of the daemon.                                     *)
LEMMA StartupStands ==
  ASSUME StartupInv, UNCHANGED <<work, armed, suspends>>,
         daemon' = "starting" => daemon = "starting" /\ batch' = batch
  PROVE  StartupInv'
BY DEF StartupInv, StartupAbsorbed

(* onAdapterObservation, with the hooks and the standby policy behind it.  *)
LEMMA ObservationKeeps ==
  ASSUME IInv, NEW obs \in Observation, onAdapterObservation(obs)
  PROVE  IInv'
<1> DEFINE c == [fn |-> "observe", obs |-> obs, when |-> Phase]
<1>1. HookTypes /\ OtherTypes /\ ZombiesSignalled /\ ChainInv /\ StartupInv
  BY Parts
<1>2. c \in Closure
  BY DEF Closure, When, Phase
<1>3. ~EarlySuspend(c) /\ ~Arms(c) /\ (Early(c) => daemon = "starting")
  BY DEF EarlySuspend, Arms, Early, Phase
<1>4. work' = Append(work, c) /\ UNCHANGED <<daemon, batch, armed, suspends, policyVars, hookVars, childVars, faults>>
  BY DEF onAdapterObservation, policyVars
<1> HIDE DEF c
<1>5. work \in Seq(Closure) /\ QueueOK(work)
  BY <1>1 DEF OtherTypes, StartupInv
<1>6. Early(c) => \A i \in DOMAIN work : ~Arms(work[i])
  BY <1>1, <1>3 DEF StartupInv
<1>7. /\ Append(work, c) \in Seq(Closure)
      /\ Len(Append(work, c)) = Len(work) + 1 /\ Len(work) \in Nat
      /\ QueueOK(Append(work, c))
      /\ \A i \in DOMAIN Append(work, c) :
           (\E j \in DOMAIN work : Append(work, c)[i] = work[j]) \/ Append(work, c)[i] = c
  BY <1>2, <1>3, <1>5, <1>6, QueueAppend
<1>8. HookTypes' /\ ChainInv'
  BY <1>4, HooksStand
<1>9. StartupInv'
  <2>1. armed => daemon # "starting"
    BY <1>1 DEF StartupInv
  <2> QED
    BY <1>1, <1>3, <1>4, <1>7, <2>1 DEF StartupInv, StartupAbsorbed
<1>10. OtherTypes' /\ ZombiesSignalled'
  <2>1. batch \in 0 .. Len(work) + 1
    BY <1>1, <1>7 DEF OtherTypes
  <2> QED
    BY <1>1, <1>4, <1>7, <2>1
       DEF OtherTypes, ZombiesSignalled, onAdapterObservation, policyVars, childVars
<1> QED
  BY <1>8, <1>9, <1>10, Assembled

(* start() returns: the arm is queued behind the early observations.       *)
LEMMA StartEndsKeeps ==
  ASSUME IInv, StartEnds
  PROVE  IInv'
<1> DEFINE c == [fn |-> "arm"]
<1>1. HookTypes /\ OtherTypes /\ ZombiesSignalled /\ ChainInv /\ StartupInv
  BY Parts
<1>2. c \in Closure /\ ~EarlySuspend(c) /\ ~Early(c)
  BY DEF Closure, EarlySuspend, Early
<1>4. work' = Append(work, c) /\ UNCHANGED <<batch, armed, suspends>>
  BY DEF StartEnds, policyVars
<1> HIDE DEF c
<1>5. work \in Seq(Closure) /\ QueueOK(work) /\ ~armed
  BY <1>1 DEF OtherTypes, StartupInv, StartEnds
<1>7. /\ Append(work, c) \in Seq(Closure)
      /\ Len(Append(work, c)) = Len(work) + 1 /\ Len(work) \in Nat
      /\ QueueOK(Append(work, c))
  BY <1>2, <1>5, QueueAppend
<1>8. HookTypes' /\ ChainInv'
  BY HooksStand DEF StartEnds
<1>9. StartupInv'
  BY <1>1, <1>4, <1>5, <1>7 DEF StartupInv, StartupAbsorbed, StartEnds
<1>10. OtherTypes' /\ ZombiesSignalled'
  <2>1. batch \in 0 .. Len(work) + 1
    BY <1>1, <1>7 DEF OtherTypes
  <2> QED
    BY <1>1, <1>4, <1>7, <2>1
       DEF OtherTypes, ZombiesSignalled, StartEnds, policyVars, childVars
<1> QED
  BY <1>8, <1>9, <1>10, Assembled

(* One closure: what the policy posts is later than any early observation, *)
(* and none is left when the policy is armed.                              *)
LEMMA RunClosureKeeps ==
  ASSUME IInv, RunClosure
  PROVE  IInv'
<1> DEFINE c == Head(work)
           V == Tail(work)
<1>1. HookTypes /\ OtherTypes /\ ZombiesSignalled /\ ChainInv /\ StartupInv
  BY Parts
<1>2. work \in Seq(Closure) /\ QueueOK(work) /\ Len(work) \in Nat /\ Len(work) > 0
      /\ batch \in Nat /\ batch > 0 /\ batch <= Len(work) /\ batch' = batch - 1
  BY <1>1, LenProperties DEF OtherTypes, StartupInv, RunClosure
<1>3. /\ c \in Closure /\ V \in Seq(Closure)
      /\ Len(V) = Len(work) - 1
      /\ QueueOK(V)
      /\ \A i \in DOMAIN V : \E j \in DOMAIN work : V[i] = work[j]
      /\ \E j \in DOMAIN work : c = work[j]
      /\ Arms(c) => \A i \in DOMAIN work : ~Early(work[i])
      /\ ~EarlySuspend(c)
  BY <1>2, QueueTail
<1>4. daemon # "starting" /\ daemon' = daemon /\ UNCHANGED <<ready, enabled, childVars, observed>>
  BY <1>1 DEF StartupInv, RunClosure
<1>5. armed => /\ ~Early(c)
               /\ \A i \in DOMAIN V : ~Early(V[i])
  BY <1>1, <1>3 DEF StartupInv
<1>b. batch' \in 0 .. Len(V) /\ batch' \in 0 .. Len(V) + 1
  <2>1. \A b, n, m \in Nat : b > 0 /\ b <= n /\ m = n - 1 => b - 1 \in 0 .. m /\ b - 1 \in 0 .. m + 1
    OBVIOUS
  <2>2. Len(V) \in Nat
    BY <1>3, LenProperties
  <2> QED
    BY <1>2, <1>3, <2>1, <2>2
<1>6. CASE c.fn = "observe" /\ work' = V \o PolicyPosts(c) /\ observe(c.obs) /\ UNCHANGED <<armed, suspends>>
  <2>1. c.obs \in Observation /\ c.when \in When
    BY <1>3, <1>6 DEF Closure
  <2>2. HookTypes' /\ ChainInv'
    BY <1>1, <1>6, <2>1, ObserveKeeps
  <2>3. CASE work' = V
    <3>1. StartupInv'
      BY <1>1, <1>3, <1>4, <1>5, <1>6, <2>3 DEF StartupInv, StartupAbsorbed
    <3>2. OtherTypes' /\ ZombiesSignalled'
      BY <1>1, <1>3, <1>4, <1>6, <1>b, <2>3 DEF OtherTypes, ZombiesSignalled, childVars
    <3> QED
      BY <2>2, <3>1, <3>2, Assembled
  <2>4. CASE armed /\ work' = Append(V, [fn |-> "suspend", when |-> c.when])
    <3> DEFINE d == [fn |-> "suspend", when |-> c.when]
    <3>1. d \in Closure /\ ~Early(d) /\ ~Arms(d)
      BY <2>1 DEF Closure, Early, Arms
    <3>2. ~EarlySuspend(d)
      BY <1>5, <1>6, <2>4 DEF Early, EarlySuspend
    <3>3. work' = Append(V, d)
      BY <2>4
    <3> HIDE DEF d, V
    <3>4. /\ Append(V, d) \in Seq(Closure)
          /\ Len(Append(V, d)) = Len(V) + 1
          /\ QueueOK(Append(V, d))
          /\ \A i \in DOMAIN Append(V, d) :
               (\E j \in DOMAIN V : Append(V, d)[i] = V[j]) \/ Append(V, d)[i] = d
      BY <1>3, <3>1, <3>2, QueueAppend
    <3>5. StartupInv'
      BY <1>1, <1>4, <1>5, <1>6, <2>4, <3>1, <3>3, <3>4 DEF StartupInv, StartupAbsorbed
    <3>6. OtherTypes' /\ ZombiesSignalled'
      BY <1>1, <1>4, <1>6, <1>b, <3>3, <3>4 DEF OtherTypes, ZombiesSignalled, childVars
    <3> QED
      BY <2>2, <3>5, <3>6, Assembled
  <2>5. work' = V \/ (armed /\ work' = Append(V, [fn |-> "suspend", when |-> c.when]))
    <3>1. CASE c.obs.kind = "TvStandby" /\ armed /\ enabled
      <4> DEFINE d == [fn |-> "suspend", when |-> c.when]
      <4>1. PolicyPosts(c) = << d >>
        BY <3>1 DEF PolicyPosts
      <4>2. d \in Closure
        BY <2>1 DEF Closure
      <4> HIDE DEF d, V
      <4>3. V \o << d >> = Append(V, d)
        BY <1>3, <4>2, AppendIsConcat
      <4> QED
        BY <1>6, <3>1, <4>1, <4>3 DEF d
    <3>2. CASE ~(c.obs.kind = "TvStandby" /\ armed /\ enabled)
      <4>1. PolicyPosts(c) = << >>
        BY <3>2 DEF PolicyPosts
      <4> HIDE DEF V
      <4>2. V \o << >> = V
        BY <1>3, ConcatEmptySeq
      <4> QED
        BY <1>6, <4>1, <4>2
    <3> QED
      BY <3>1, <3>2
  <2> QED
    BY <2>3, <2>4, <2>5
<1>7. CASE c.fn = "arm" /\ work' = V /\ arm /\ UNCHANGED <<suspends, hookVars, faults>>
  <2>1. HookTypes' /\ ChainInv'
    BY <1>7, HooksStand
  <2>2. \A i \in DOMAIN V : ~Early(V[i])
    BY <1>3, <1>7 DEF Arms
  <2>3. StartupInv'
    BY <1>1, <1>3, <1>4, <1>7, <2>2 DEF StartupInv, StartupAbsorbed
  <2>4. OtherTypes' /\ ZombiesSignalled'
    BY <1>1, <1>3, <1>4, <1>7, <1>b DEF OtherTypes, ZombiesSignalled, childVars, arm
  <2> QED
    BY <2>1, <2>3, <2>4, Assembled
<1>8. CASE c.fn = "suspend" /\ work' = V /\ suspends' = suspends \cup {c.when}
           /\ UNCHANGED <<armed, hookVars, faults>>
  <2>1. HookTypes' /\ ChainInv'
    BY <1>8, HooksStand
  <2>2. c.when \in When /\ c.when # "starting"
    BY <1>3, <1>8 DEF Closure, EarlySuspend
  <2>3. StartupInv'
    BY <1>1, <1>3, <1>4, <1>5, <1>8, <2>2 DEF StartupInv, StartupAbsorbed
  <2>4. OtherTypes' /\ ZombiesSignalled'
    BY <1>1, <1>3, <1>4, <1>8, <1>b, <2>2 DEF OtherTypes, ZombiesSignalled, childVars
  <2> QED
    BY <2>1, <2>3, <2>4, Assembled
<1> QED
  BY <1>6, <1>7, <1>8 DEF RunClosure

(* The debounce timer fires a hook for the pending address, or nothing.    *)
LEMMA DebounceFiredKeeps ==
  ASSUME IInv, onDebounceTimerFired
  PROVE  IInv'
<1>1. HookTypes /\ OtherTypes /\ ZombiesSignalled /\ ChainInv /\ StartupInv
  BY Parts
<1>2. StartupInv'
  BY <1>1, StartupStands DEF onDebounceTimerFired, policyVars
<1>3. OtherTypes' /\ ZombiesSignalled'
  BY <1>1 DEF OtherTypes, ZombiesSignalled, onDebounceTimerFired, policyVars, childVars
<1>4. HookTypes' /\ ChainInv'
  <2>1. UNCHANGED <<tvPower, seen, faults>>
    BY DEF onDebounceTimerFired
  <2>2. CASE FireNothing /\ UNCHANGED <<pending, lastFired>> /\ debounce' \in {debounce, "off"}
    <3>1. ChainInv'
      BY <1>1, <2>1, <2>2, ChainsStand DEF FireNothing
    <3> QED
      BY <1>1, <2>1, <2>2, <3>1 DEF HookTypes, FireNothing
  <2>3. CASE commitPending(pending) /\ debounce' = "off"
    <3>1. pending \in Addresses \cup {"none"}
      BY <1>1 DEF HookTypes
    <3>2. /\ ChainInv' /\ jobs' \in Seq(Configured)
          /\ {pending', lastFired'} \subseteq Addresses \cup {"none"}
      BY <1>1, <2>1, <2>3, <3>1, CommitKeeps
    <3> QED
      BY <1>1, <2>1, <2>3, <3>2 DEF HookTypes
  <2> QED
    BY <2>2, <2>3 DEF onDebounceTimerFired
<1> QED
  BY <1>2, <1>3, <1>4, Assembled

(* The steps of the loop that run no closure and commit nothing, and the   *)
(* steps of the executor and of the scripts.                               *)
LEMMA OtherStepsKeep ==
  ASSUME IInv,
         \/ Poll \/ Drain \/ onSignalReadable \/ DebounceExpires \/ ChildExits
         \/ StopBegins \/ TakeJob \/ spawnOne \/ ExecutorEnds
         \/ \E value \in BOOLEAN : apply(value)
  PROVE  IInv'
<1>1. HookTypes /\ OtherTypes /\ ZombiesSignalled /\ ChainInv /\ StartupInv
  BY Parts
<1>2. Len(work) \in Nat
  BY <1>1, LenProperties DEF OtherTypes
<1>3. UNCHANGED <<fired, lastFired, tvPower>>
  BY DEF Poll, Drain, onSignalReadable, DebounceExpires, ChildExits, StopBegins, TakeJob,
         spawnOne, ExecutorEnds, apply, hookVars
<1>4. ChainInv'
  BY <1>1, <1>3, ChainsStand
<1>5. StartupInv'
  BY <1>1, StartupStands
     DEF Poll, Drain, onSignalReadable, DebounceExpires, ChildExits, StopBegins, TakeJob,
         spawnOne, ExecutorEnds, apply, AtDispatchPoint, policyVars, loopVars
<1>6. OtherTypes' /\ ZombiesSignalled'
  <2>1. CASE Poll \/ StopBegins \/ \E value \in BOOLEAN : apply(value)
    BY <1>1, <2>1 DEF Poll, StopBegins, apply, Readable, OtherTypes, ZombiesSignalled,
         policyVars, childVars, loopVars
  <2>2. CASE Drain
    BY <1>1, <1>2, <2>2 DEF Drain, OtherTypes, ZombiesSignalled, policyVars, childVars
  <2>3. CASE onSignalReadable
    <3>1. zombies \in Nat /\ children \in Nat /\ observed \in Nat
      BY <1>1 DEF OtherTypes
    <3>2. zombies' = 0 /\ sigchld' = FALSE
      BY <2>3, <3>1 DEF onSignalReadable, Reaped
    <3>3. ZombiesSignalled' /\ {children', zombies', observed'} \subseteq Nat
      BY <2>3, <3>1, <3>2 DEF onSignalReadable, ZombiesSignalled
    <3>4. ready' \subseteq {"work", "debounce", "signal"} /\ sigchld' \in BOOLEAN
      BY <1>1, <2>3, <3>2 DEF onSignalReadable, OtherTypes
    <3> QED
      BY <1>1, <2>3, <3>3, <3>4 DEF onSignalReadable, OtherTypes, policyVars
  <2>4. CASE DebounceExpires \/ TakeJob \/ ExecutorEnds
    BY <1>1, <2>4 DEF DebounceExpires, TakeJob, ExecutorEnds, OtherTypes, ZombiesSignalled,
         policyVars, childVars, loopVars
  <2>5. CASE spawnOne \/ ChildExits
    <3>1. zombies \in Nat /\ children \in Nat /\ observed \in Nat
      BY <1>1 DEF OtherTypes
    <3>2. zombies' \in Nat /\ children' \in Nat /\ observed' = observed
      BY <2>5, <3>1 DEF spawnOne, ChildExits
    <3>3. ZombiesSignalled' /\ executor' \in {"waiting", "spawning", "ended"} /\ sigchld' \in BOOLEAN
      BY <1>1, <2>5 DEF spawnOne, ChildExits, OtherTypes, ZombiesSignalled
    <3> QED
      BY <1>1, <2>5, <3>1, <3>2, <3>3 DEF spawnOne, ChildExits, OtherTypes, policyVars, loopVars
  <2> QED
    BY <2>1, <2>2, <2>3, <2>4, <2>5
<1>7. HookTypes'
  <2>1. CASE TakeJob \/ ExecutorEnds
    <3>1. jobs \in Seq(Configured)
      BY <1>1 DEF HookTypes
    <3>2. << >> \in Seq(Configured)
      OBVIOUS
    <3>3. jobs' \in Seq(Configured)
      BY <2>1, <3>1, <3>2, HeadTailProperties DEF TakeJob, ExecutorEnds
    <3> QED
      BY <1>1, <2>1, <3>3 DEF HookTypes, TakeJob, ExecutorEnds
  <2>2. CASE DebounceExpires
    BY <1>1, <2>2 DEF HookTypes, DebounceExpires
  <2>3. CASE spawnOne
    <3>1. faults' \in 0 .. MaxFaults
      BY <1>1, <2>3, ObserversAssumption DEF HookTypes, spawnOne
    <3> QED
      BY <1>1, <2>3, <3>1 DEF HookTypes, spawnOne, hookVars
  <2>4. CASE \/ Poll \/ Drain \/ onSignalReadable \/ ChildExits \/ StopBegins
             \/ \E value \in BOOLEAN : apply(value)
    BY <1>1, <2>4 DEF HookTypes, hookVars, Poll, Drain, onSignalReadable, ChildExits,
         StopBegins, apply
  <2> QED
    BY <2>1, <2>2, <2>3, <2>4
<1> QED
  BY <1>4, <1>5, <1>6, <1>7, Assembled

-----------------------------------------------------------------------------
(* The theorems.                                                           *)

(* The three facts that make the invariant one of the specification.       *)
LEMMA IInvInit ==
  Init => IInv
<1> SUFFICES ASSUME Init PROVE IInv
  OBVIOUS
<1>1. \A T : << >> \in Seq(T)
  OBVIOUS
<1>2. Len(<< >>) = 0 /\ DOMAIN << >> = {}
  OBVIOUS
<1>3. work = << >> /\ fired = << >> /\ jobs = << >>
  BY DEF Init
<1>4. TypeOK /\ ZombiesSignalled
  <2>1. work \in Seq(Closure) /\ jobs \in Seq(Configured) /\ batch \in 0 .. Len(work)
    BY <1>1, <1>2, <1>3 DEF Init
  <2>2. \A i \in 1 .. Len(fired) : fired[i].event \in HookEvent
    BY <1>2, <1>3
  <2>3. faults \in 0 .. MaxFaults
    BY ObserversAssumption DEF Init
  <2>4. {children, zombies, observed} \subseteq Nat /\ ZombiesSignalled
    BY DEF Init, ZombiesSignalled
  <2> QED
    BY <2>1, <2>2, <2>3, <2>4 DEF Init, TypeOK, Power
<1>5. \A E : Told(fired, E, 1) = {}
  BY DEF Told
<1>6. ChainInv
  BY <1>1, <1>2, <1>3, <1>5 DEF Init, ChainInv, ChainOf, EndsIn, Link
<1>7. StartupInv
  BY <1>2, <1>3 DEF Init, StartupInv, QueueOK, StartupAbsorbed
<1> QED
  BY <1>4, <1>6, <1>7 DEF IInv

(* It survives every step.                                                 *)
LEMMA IInvNext ==
  IInv /\ [Next]_vars => IInv'
<1> SUFFICES ASSUME IInv, [Next]_vars PROVE IInv'
  OBVIOUS
<1>1. CASE \E obs \in Observation : onAdapterObservation(obs)
  BY <1>1, ObservationKeeps
<1>2. CASE StartEnds
  BY <1>2, StartEndsKeeps
<1>3. CASE MainStep
  BY <1>3, OtherStepsKeep, RunClosureKeeps, DebounceFiredKeeps DEF MainStep
<1>4. CASE ExecutorStep
  BY <1>4, OtherStepsKeep DEF ExecutorStep
<1>5. CASE DebounceExpires \/ ChildExits \/ StopBegins \/ \E value \in BOOLEAN : apply(value)
  BY <1>5, OtherStepsKeep
<1>6. CASE UNCHANGED vars
  BY <1>6 DEF vars, loopVars, policyVars, hookVars, childVars, IInv, TypeOK, ZombiesSignalled,
       ChainInv, StartupInv, StartupAbsorbed
<1> QED
  BY <1>1, <1>2, <1>3, <1>4, <1>5, <1>6 DEF Next

(* So it always holds.                                                     *)
LEMMA IInvHolds ==
  Spec => []IInv
BY IInvInit, IInvNext, PTL DEF Spec

(* What scripts are told by CecHookSubsystem forms a chain: the hook that  *)
(* fires names as previous value what the one before it announced, and     *)
(* announces another one.                                                  *)
THEOREM ScriptsAlwaysSeeAChain ==
  Spec => []ScriptsSeeAChain
<1>1. IInv => ScriptsSeeAChain
  BY ChainMeaning DEF IInv, ChainInv, ScriptsSeeAChain, Switch, TvPower
<1> QED
  BY <1>1, IInvHolds, PTL

(* Exited scripts are signalled, and StandbyPolicy suspends the machine    *)
(* for no standby of the TV that was seen before start() ended.            *)
THEOREM StartupStandbysAbsorbed ==
  Spec => []HookInv
<1>1. IInv => HookInv
  BY DEF IInv, HookInv, StartupInv
<1> QED
  BY <1>1, IInvHolds, PTL

(* onDebounceTimerFired announces an input switch only on an expiry that   *)
(* no newer active source superseded, and observeActiveSource only when    *)
(* the timer could not be armed.                                           *)
THEOREM SwitchesSettleFirst ==
  Spec => CommitsOnlySettled
<1> DEFINE Switched == \E i \in DOMAIN fired' \ DOMAIN fired : fired'[i].event = "InputSwitch"
<1>1. ASSUME IInv, [Next]_vars, Switched
      PROVE  debounce = "expired" \/ faults' # faults
  <2>1. fired' # fired
    BY <1>1
  <2>2. fired \in Seq(Hook) /\ faults \in Nat
    BY <1>1, ObserversAssumption DEF IInv, ChainInv, TypeOK
  <2>3. CASE onDebounceTimerFired
    BY <2>1, <2>3 DEF onDebounceTimerFired, FireNothing
  <2>4. CASE RunClosure
    <3> DEFINE c == Head(work)
    <3>1. c.fn = "observe" /\ observe(c.obs)
      BY <2>1, <2>4 DEF RunClosure, hookVars
    <3>2. ASSUME NEW event, NEW new, NEW prev, event # "InputSwitch", Fire(event, new, prev)
          PROVE  FALSE
      <4> DEFINE f == [event |-> event, new |-> new, prev |-> prev]
      <4>1. fired' = Append(fired, f) /\ f.event # "InputSwitch"
        BY <3>2 DEF Fire
      <4> HIDE DEF f
      <4>2. \A i \in DOMAIN fired' \ DOMAIN fired : fired'[i] = f
        BY <2>2, <4>1
      <4> QED
        BY <1>1, <4>1, <4>2
    <3>3. CASE c.obs.kind \in {"TvStandby", "TvPowerReport"} /\ observePower(c.obs.kind, c.obs.value)
      <4>1. observePower(c.obs.kind, c.obs.value) => FireNothing
        <5> DEFINE event == IF c.obs.kind = "TvStandby" THEN "TVStandby" ELSE "TVWake"
                   new == IF c.obs.kind = "TvStandby" THEN "Standby" ELSE "On"
        <5>1. event # "InputSwitch"
          OBVIOUS
        <5>2. observePower(c.obs.kind, c.obs.value) => Fire(event, new, tvPower) \/ FireNothing
          BY Zenon DEF observePower
        <5> HIDE DEF event, new
        <5> QED
          BY <3>2, <5>1, <5>2
      <4> QED
        BY <2>1, <3>3, <4>1 DEF FireNothing
    <3>4. CASE c.obs.kind = "ActiveSource" /\ observeActiveSource(c.obs.value)
      <4>1. faults' = faults - 1
        BY <2>1, <3>4 DEF observeActiveSource, FireNothing
      <4> QED
        BY <2>2, <4>1
    <3>5. CASE c.obs.kind \in {"HostActivated", "HostDeactivated"} /\ Fire(c.obs.kind, "none", "none")
      BY <3>2, <3>5
    <3> QED
      BY <3>1, <3>3, <3>4, <3>5 DEF observe
  <2>5. CASE ~onDebounceTimerFired /\ ~RunClosure
    BY <1>1, <2>1, <2>5
       DEF Next, MainStep, ExecutorStep, onAdapterObservation, StartEnds, Poll, Drain,
           onSignalReadable, DebounceExpires, ChildExits, StopBegins, TakeJob, spawnOne,
           ExecutorEnds, apply, hookVars, vars
  <2> QED
    BY <2>3, <2>4, <2>5
<1>2. IInv /\ [Next]_vars => [Switched => debounce = "expired" \/ faults' # faults]_vars
  BY <1>1
<1> QED
  BY <1>2, IInvHolds, PTL DEF Spec, CommitsOnlySettled
=============================================================================
