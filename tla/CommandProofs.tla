--------------------------- MODULE CommandProofs ---------------------------
(***************************************************************************)
(* What reaches the CEC bus, what a client is told and how far apart the   *)
(* attempts are, for any number of clients, any command lines, any bytes,  *)
(* any interval and any number of retries, faults and suspends.            *)
(*                                                                         *)
(* The argument follows a command.  Codec shows that what the client wrote *)
(* is what the daemon reads, Plan which calls an attempt can make for a    *)
(* message, and PathInv that a job, wherever it is, still carries the      *)
(* message its client sent.  OnceInv adds that the command is in one place *)
(* at a time and is not tried again once libcec has acknowledged it.       *)
(***************************************************************************)
EXTENDS CommandPath, SequenceTheorems, FiniteSetTheorems, TLAPS

AdapterTypes ==
  {"CMD_POWER_ON", "CMD_POWER_OFF", "CMD_VOLUME_UP", "CMD_VOLUME_DOWN", "CMD_VOLUME_MUTE",
   "CMD_CHANGE_SOURCE", "CMD_KEY", "CMD_RESTART_ADAPTER"}

AnyMessage == [type : DOMAIN MessageType \cup {"none"}, deviceId : Int, data : Seq(Int)]

AnyCall ==
  [op : {"powerOn", "standby", "volumeUp", "volumeDown", "toggleMute", "press", "release",
         "setStreamPath", "reopen", "succeeded", "failed"},
   device : Int, arg : Int]

HdmiSources == kFirstHdmiSource .. kLastHdmiSource

(* The calls that an attempt at a message can make.                        *)
Plan(m) ==
  CASE m.type = "CMD_CHANGE_SOURCE" ->
         IF m.data[1] \in HdmiSources
           THEN {SourceCall(m.data[1]), Press(TV, INPUT_SELECT),
                 Press(TV, hdmiNumberKey(m.data[1])), Release(TV)}
           ELSE IF m.data[1] \in {0, 1} THEN {SourceCall(m.data[1]), Release(TV)} ELSE {}
    [] m.type = "CMD_KEY" -> {FirstCall(m), Release(m.deviceId)}
    [] OTHER -> {FirstCall(m)}

-----------------------------------------------------------------------------
(* The inductive invariant. *)

(* The message is the one the client typed, or it came as bytes.           *)
SentBy(c, m) ==
  \/ said[c].name = "bytes"
  \/ said[c] \in CommandLine /\ m = parse(said[c]) /\ m # NoMessage

JobKinds == {"none", "command", "suspend", "resume", "reconnect"}

Jobs == [kind : JobKinds, client : Clients \cup {None}, msg : AnyMessage, replay : BOOLEAN]

CommandJob(j) ==
  /\ j.client \in Clients
  /\ j.msg.type \in AdapterTypes
  /\ SentBy(j.client, j.msg)

TrueJobs == {j \in Jobs : j.kind = "command" => CommandJob(j)}

(* Nothing is left to show before the client may be told of success.       *)
Acknowledged(c) == \E i \in DOMAIN calls[c] : calls[c][i].ok /\ calls[c][i].call \in Doable(said[c])

Settled(c) ==
  /\ said[c].name # None
  /\ c \in accepted \/ Doable(said[c]) = {} \/ Acknowledged(c)

Closures ==
  [fn : {"reply", "suspendCompleted", "resumeWorkerComplete"}, client : Clients \cup {None},
   response : {"RESP_SUCCESS", "RESP_ERROR"}]

TrueClosures ==
  {w \in Closures :
     w.fn = "reply" => w.client \in Clients /\ (w.response = "RESP_SUCCESS" => Settled(w.client))}

(* A request on its way is what was typed, and only one who has spoken has *)
(* sent something, knows something or caused a call.                       *)
WireInv ==
  \A c \in Clients :
    /\ wire[c] # << >> =>
         \/ said[c].name = "bytes" /\ wire[c] \in Seq(0 .. 255)
         \/ said[c] \in CommandLine /\ parse(said[c]) # NoMessage /\ wire[c] = serialize(parse(said[c]))
    /\ said[c].name = None => calls[c] = << >>
    /\ outcome[c] = "success" => Settled(c)

(* The worker carries out the message of its job.                          *)
WorkerInv ==
  worker.pc # "idle" =>
    /\ worker.job \in TrueJobs /\ worker.job.kind = "command"
    /\ Vetted(worker.job.msg)
    /\ worker.pc = "call" =>
         /\ worker.call \in Plan(worker.job.msg) \cup {Succeeded, Failed}
         /\ worker.call = Succeeded \/ worker.call.op = "release" => Settled(worker.job.client)

Made == [call : AnyCall, ok : BOOLEAN, delivered : BOOLEAN]

PathTypeOK ==
  /\ DOMAIN said = Clients /\ DOMAIN wire = Clients /\ DOMAIN outcome = Clients
  /\ worker = [pc |-> worker.pc, job |-> worker.job, call |-> worker.call,
               attempt |-> worker.attempt, wait |-> worker.wait]
  /\ worker.job \in Jobs /\ worker.call \in AnyCall
  /\ calls \in [Clients -> Seq(Made)]

PathInv ==
  /\ PathTypeOK
  /\ jobs \in Seq(TrueJobs) /\ queued \in Seq(TrueJobs)
  /\ \A i \in DOMAIN queued : queued[i].kind = "command"
  /\ work \in Seq(TrueClosures)
  /\ WireInv /\ WorkerInv
  /\ OnlyWhatWasSaid

(* The slot of the next attempt is an interval after the last one.         *)
ThrottleInv ==
  /\ untilFree \in Nat /\ failures \in Nat
  /\ slot \in [ago : Int, interval : baseInterval .. LongestInterval]
  /\ slot.ago + untilFree >= slot.interval

-----------------------------------------------------------------------------
(* The throttler. *)

(* FiniteSetsExt's Max and Min of two integers.                            *)
LEMMA MaxOfTwo ==
  ASSUME NEW a \in Int, NEW b \in Int
  PROVE  Max({a, b}) \in {a, b} /\ Max({a, b}) >= a /\ Max({a, b}) >= b
<1>1. \E x \in {a, b} : \A y \in {a, b} : x >= y
  BY a >= b \/ b >= a
<1> QED
  BY <1>1 DEF Max

(* See MaxOfTwo.                                                           *)
LEMMA MinOfTwo ==
  ASSUME NEW a \in Int, NEW b \in Int
  PROVE  Min({a, b}) \in {a, b} /\ Min({a, b}) <= a /\ Min({a, b}) <= b
<1>1. \E x \in {a, b} : \A y \in {a, b} : x <= y
  BY a >= b \/ b >= a
<1> QED
  BY <1>1 DEF Min

(* The longest interval is a number, and no shorter than the configured.   *)
LEMMA LongestIs ==
  /\ LongestInterval \in Nat /\ baseInterval \in Nat \ {0} /\ maxInterval \in Nat
  /\ LongestInterval >= baseInterval /\ LongestInterval >= maxInterval
<1>1. baseInterval \in Int /\ maxInterval \in Int
  BY ThrottlerAssumption
<1>2. /\ LongestInterval \in {baseInterval, maxInterval}
      /\ LongestInterval >= baseInterval /\ LongestInterval >= maxInterval
  BY <1>1, MaxOfTwo DEF LongestInterval
<1> QED
  BY <1>2, ThrottlerAssumption

(* CommandThrottler::currentInterval stays between the base and the        *)
(* longest interval, however many failures there were.                     *)
LEMMA IntervalBounded ==
  ASSUME NEW f \in Nat
  PROVE  currentInterval(f) \in baseInterval .. LongestInterval
<1> DEFINE span == IF maxInterval > baseInterval THEN maxInterval - baseInterval ELSE 0
           k == Min({f, 5})
           extra == 2 ^ k
<1>1. span \in Nat /\ baseInterval + span <= LongestInterval
  BY LongestIs
<1>2. k \in {0, 1, 2, 3, 4, 5}
  <2>1. f \in Int /\ 5 \in Int
    OBVIOUS
  <2>2. k \in {f, 5} /\ k <= 5
    BY <2>1, MinOfTwo
  <2> HIDE DEF k
  <2> QED
    BY <2>2
<1>3. extra \in Int /\ extra >= 0
  <2>1. 2 ^ 0 = 1 /\ 2 ^ 1 = 2 /\ 2 ^ 2 = 4 /\ 2 ^ 3 = 8 /\ 2 ^ 4 = 16 /\ 2 ^ 5 = 32
    OBVIOUS
  <2>2. ASSUME NEW n \in {0, 1, 2, 3, 4, 5} PROVE 2 ^ n \in {1, 2, 4, 8, 16, 32}
    BY <2>1, n = 0 \/ n = 1 \/ n = 2 \/ n = 3 \/ n = 4 \/ n = 5, Zenon
  <2>3. extra \in {1, 2, 4, 8, 16, 32}
    BY <1>2, <2>2, Zenon
  <2> HIDE DEF extra
  <2> QED
    BY <2>3
<1>4. currentInterval(f) = IF f = 0 THEN baseInterval ELSE baseInterval + Min({extra, span})
  BY DEF currentInterval
<1> HIDE DEF extra, span
<1>5. Min({extra, span}) \in Int /\ Min({extra, span}) >= 0 /\ Min({extra, span}) <= span
  BY <1>1, <1>3, MinOfTwo
<1> QED
  BY <1>1, <1>4, <1>5, LongestIs

(* Whatever the worker does, the next slot stays an interval away from the *)
(* last one; time only brings it nearer, and only from the present.        *)
LEMMA ThrottleKept ==
  ASSUME ThrottleInv, [Next]_vars
  PROVE  ThrottleInv'
<1> USE LongestIs
<1>1. CASE ReserveSlot
  <2>1. currentInterval(failures) \in baseInterval .. LongestInterval
    BY IntervalBounded DEF ThrottleInv
  <2> QED
    BY <1>1, <2>1 DEF ReserveSlot, ThrottleInv
<1>2. CASE AttemptSucceeded \/ AttemptFailed \/ RetriesExhausted \/ UNCHANGED throttlerVars
  BY <1>2 DEF AttemptSucceeded, AttemptFailed, RetriesExhausted, Softened, throttlerVars,
              ThrottleInv
<1>3. CASE TimePasses
  <2>1. /\ untilFree' \in {untilFree - 1, 0} /\ untilFree' >= untilFree - 1 /\ untilFree' >= 0
    <3>1. untilFree - 1 \in Int /\ 0 \in Int /\ untilFree' = Max({untilFree - 1, 0})
      BY <1>3 DEF TimePasses, ThrottleInv
    <3>2. \A a, b \in Int : Max({a, b}) \in {a, b} /\ Max({a, b}) >= a /\ Max({a, b}) >= b
      BY MaxOfTwo
    <3> QED
      BY <3>1, <3>2
  <2>2. /\ slot.ago + 1 \in Int
        /\ slot' = [slot EXCEPT !.ago = Min({slot.ago + 1, LongestInterval})]
    BY <1>3 DEF TimePasses, ThrottleInv
  <2>3. /\ slot'.ago \in {slot.ago + 1, LongestInterval} /\ slot'.interval = slot.interval
        /\ slot' \in [ago : Int, interval : baseInterval .. LongestInterval]
    <3>1. Min({slot.ago + 1, LongestInterval}) \in {slot.ago + 1, LongestInterval}
      <4>1. \A a, b \in Int : Min({a, b}) \in {a, b}
        BY MinOfTwo
      <4>2. LongestInterval \in Int
        OBVIOUS
      <4> QED
        BY <2>2, <4>1, <4>2, Zenon
    <3> QED
      BY <2>2, <3>1 DEF ThrottleInv
  <2> QED
    BY <1>3, <2>1, <2>3 DEF TimePasses, ThrottleInv
<1> QED
  BY <1>1, <1>2, <1>3
     DEF Next, vars, ClientStep, RunClient, SendBytes, ResponseTimeout, HandleRequest,
         SuspendAsync, ResumeAsync, ReconnectAsync, SubmitLifecycle, RunClosure, WorkerStep,
         TakeCommand, TakeLifecycleJob, ReserveAttempt, CallNotConnected, CallLibcec,
         CallThrows, Reopen, EndOfRestart, CommandSucceeded, AttemptFails, Retry, GiveUp,
         ConnectionLost, Tick

-----------------------------------------------------------------------------
(* Bytes and words. *)

(* No two types share a code.                                              *)
LEMMA CodesDiffer ==
  /\ DOMAIN MessageType = {"CMD_VOLUME_UP", "CMD_VOLUME_DOWN", "CMD_VOLUME_MUTE",
                           "CMD_POWER_ON", "CMD_POWER_OFF", "CMD_CHANGE_SOURCE",
                           "CMD_RESTART_ADAPTER", "CMD_SUSPEND", "CMD_RESUME",
                           "CMD_AUTO_STANDBY", "CMD_KEY", "RESP_SUCCESS", "RESP_ERROR"}
  /\ \A t \in DOMAIN MessageType : MessageType[t] \in Int
  /\ \A t, u \in DOMAIN MessageType : MessageType[t] = MessageType[u] => t = u
BY DEF MessageType

(* What serialize writes deserialize reads, for every message that fits    *)
(* into the protocol's buffer.                                             *)
LEMMA RoundTrip ==
  ASSUME NEW t \in DOMAIN MessageType, NEW d \in Int, NEW data \in Seq(Int),
         Len(data) + 2 <= MAX_MESSAGE_SIZE
  PROVE  /\ deserialize(serialize(Message(t, d, data))) = Message(t, d, data)
         /\ serialize(Message(t, d, data)) # << >>
<1> DEFINE head == <<MessageType[t], d>>
           bytes == head \o data
<1>1. serialize(Message(t, d, data)) = bytes
  BY DEF serialize, Message
<1>2. head \in Seq(Int) /\ Len(head) = 2 /\ head[1] = MessageType[t] /\ head[2] = d
  BY CodesDiffer
<1>3. /\ bytes \in Seq(Int) /\ Len(bytes) = 2 + Len(data)
      /\ \A i \in 1 .. Len(bytes) : bytes[i] = IF i <= 2 THEN head[i] ELSE data[i - 2]
  <2> HIDE DEF head
  <2>1. /\ bytes \in Seq(Int) /\ Len(bytes) = Len(head) + Len(data)
        /\ \A i \in 1 .. Len(head) + Len(data) :
             bytes[i] = IF i <= Len(head) THEN head[i] ELSE data[i - Len(head)]
    BY <1>2, ConcatProperties
  <2> HIDE DEF bytes
  <2> QED
    BY <1>2, <2>1
<1>4. Len(data) \in Nat
  BY LenProperties
<1>5. Len(bytes) \in 2 .. MAX_MESSAGE_SIZE /\ bytes[1] = MessageType[t] /\ bytes[2] = d
  <2> HIDE DEF head, bytes
  <2>1. 1 \in 1 .. Len(bytes) /\ 2 \in 1 .. Len(bytes)
    BY <1>3, <1>4
  <2>2. bytes[1] = head[1] /\ bytes[2] = head[2]
    BY <1>3, <2>1
  <2>3. Len(bytes) \in 2 .. MAX_MESSAGE_SIZE
    <3> DEFINE n == Len(bytes)
               m == Len(data)
    <3>1. m \in Nat /\ n = 2 + m /\ m + 2 <= MAX_MESSAGE_SIZE /\ MAX_MESSAGE_SIZE = 1024
      BY <1>3, <1>4 DEF MAX_MESSAGE_SIZE
    <3> HIDE DEF n, m
    <3>2. n \in 2 .. MAX_MESSAGE_SIZE
      BY <3>1
    <3> QED
      BY <3>2 DEF n
  <2> QED
    BY <1>2, <2>2, <2>3
<1>6. SubSeq(bytes, 3, Len(bytes)) = data
  <2> DEFINE rest == SubSeq(bytes, 3, Len(bytes))
  <2> HIDE DEF head, bytes
  <2>1. /\ rest \in Seq(Int) /\ Len(rest) = Len(data)
        /\ \A i \in 1 .. Len(data) : rest[i] = bytes[i + 2]
    BY <1>3, <1>4
  <2>2. \A i \in 1 .. Len(data) : rest[i] = data[i]
    BY <1>3, <1>4, <2>1
  <2> HIDE DEF rest
  <2>3. rest = data
    BY <2>1, <2>2, SeqEqual
  <2> QED
    BY <2>3 DEF rest
<1>7. (CHOOSE u \in DOMAIN MessageType : MessageType[u] = bytes[1]) = t
  <2> HIDE DEF bytes
  <2> QED
    BY <1>5, CodesDiffer
<1>8. isKnownMessageType(bytes[1])
  BY <1>5 DEF isKnownMessageType
<1>9. deserialize(bytes) = Message(t, d, data)
  <2> HIDE DEF bytes
  <2> QED
    BY <1>5, <1>6, <1>7, <1>8 DEF deserialize
<1>10. bytes # << >>
  <2> HIDE DEF bytes
  <2>1. Len(<< >>) = 0
    OBVIOUS
  <2> QED
    BY <1>3, <1>4, <2>1
<1> QED
  BY <1>1, <1>9, <1>10

(* A command line that parse accepts is one of these, and becomes the      *)
(* message beside it.                                                      *)
LEMMA Parsed ==
  ASSUME NEW line \in CommandLine, parse(line) # NoMessage
  PROVE  LET a == line.args
             m == parse(line)
         IN  \/ /\ line.name = "power" /\ a[1].text \in {"on", "off"} /\ a[2].number \in 0 .. 15
                /\ m = Message(IF a[1].text = "on" THEN "CMD_POWER_ON" ELSE "CMD_POWER_OFF",
                               a[2].number, << >>)
             \/ /\ line.name = "volume" /\ a[1].text \in {"up", "down", "mute"}
                /\ a[2].number \in 0 .. 15
                /\ m = Message(IF a[1].text = "up" THEN "CMD_VOLUME_UP"
                               ELSE IF a[1].text = "down" THEN "CMD_VOLUME_DOWN"
                               ELSE "CMD_VOLUME_MUTE", a[2].number, << >>)
             \/ /\ line.name = "source" /\ a[1].number \in 0 .. 15 /\ a[2].number \in 0 .. 255
                /\ m = Message("CMD_CHANGE_SOURCE", a[1].number, <<a[2].number>>)
             \/ /\ line.name = "key" /\ a[1].text \in DOMAIN kKeyCodes
                /\ Len(a) = 2 => a[2].number \in 0 .. 15
                /\ m = Message("CMD_KEY", IF Len(a) = 2 THEN a[2].number ELSE 0,
                               <<kKeyCodes[a[1].text]>>)
             \/ /\ line.name = "standby" /\ a[1].text \in DOMAIN StandbyFlags
                /\ m = Message("CMD_AUTO_STANDBY", 0, <<StandbyFlags[a[1].text]>>)
             \/ line.name = "restart" /\ m = Message("CMD_RESTART_ADAPTER", 0, << >>)
             \/ line.name = "suspend" /\ m = Message("CMD_SUSPEND", 0, << >>)
             \/ line.name = "resume" /\ m = Message("CMD_RESUME", 0, << >>)
<1> DEFINE a == line.args
<1>1. CASE line.name = "power"
  <2>1. parse(line) = parseAction(a, PowerActions)
    BY <1>1 DEF parse, parsePower
  <2>2. /\ a[1].text \in DOMAIN PowerActions /\ a[2].number \in 0 .. 15
        /\ parse(line) = Message(PowerActions[a[1].text], a[2].number, << >>)
    BY <2>1 DEF parseAction, parseDeviceId, parseBoundedUint8
  <2>3. DOMAIN PowerActions = {"on", "off"} /\ PowerActions["on"] = "CMD_POWER_ON"
        /\ PowerActions["off"] = "CMD_POWER_OFF"
    BY DEF PowerActions
  <2> QED
    BY <1>1, <2>2, <2>3
<1>2. CASE line.name = "volume"
  <2>1. parse(line) = parseAction(a, VolumeActions)
    BY <1>2 DEF parse, parseVolume
  <2>2. /\ a[1].text \in DOMAIN VolumeActions /\ a[2].number \in 0 .. 15
        /\ parse(line) = Message(VolumeActions[a[1].text], a[2].number, << >>)
    BY <2>1 DEF parseAction, parseDeviceId, parseBoundedUint8
  <2>3. /\ DOMAIN VolumeActions = {"up", "down", "mute"}
        /\ VolumeActions["up"] = "CMD_VOLUME_UP" /\ VolumeActions["down"] = "CMD_VOLUME_DOWN"
        /\ VolumeActions["mute"] = "CMD_VOLUME_MUTE"
    BY DEF VolumeActions
  <2> QED
    BY <1>2, <2>2, <2>3
<1>3. CASE line.name = "source"
  BY <1>3 DEF parse, parseSource, parseDeviceId, parseBoundedUint8
<1>4. CASE line.name = "key"
  <2>1. parse(line) = parseKey(a)
    BY <1>4 DEF parse
  <2>2. /\ a[1].text \in DOMAIN kKeyCodes /\ (Len(a) = 2 => parseDeviceId(a[2]))
        /\ parse(line) = Message("CMD_KEY", IF Len(a) = 2 THEN a[2].number ELSE 0,
                                 <<kKeyCodes[a[1].text]>>)
    BY <2>1, Zenon DEF parseKey
  <2>3. Len(a) = 2 => a[2].number \in 0 .. 15
    BY <2>2 DEF parseDeviceId, parseBoundedUint8
  <2> QED
    BY <1>4, <2>2, <2>3, Zenon
<1>5. CASE line.name = "standby"
  BY <1>5 DEF parse, parseAutoStandby
<1>6. CASE line.name \in {"restart", "suspend", "resume"}
  BY <1>6 DEF parse, parseNoArgs
<1>7. CASE line.name \notin {"power", "volume", "source", "key", "standby", "restart",
                             "suspend", "resume"}
  BY <1>7 DEF parse
<1> QED
  BY <1>1, <1>2, <1>3, <1>4, <1>5, <1>6, <1>7

(* The codes of the keys.                                                  *)
LEMMA KeyCodesAre ==
  /\ DOMAIN kKeyCodes = {"blue", "red", "green", "yellow"}
  /\ kKeyCodes["blue"] = 113 /\ kKeyCodes["red"] = 114 /\ kKeyCodes["green"] = 115
  /\ kKeyCodes["yellow"] = 116
  /\ KeyCodes = {113, 114, 115, 116}
BY DEF kKeyCodes, KeyCodes

(* What the client writes is a message of the protocol, and the daemon     *)
(* reads the same message back.                                            *)
LEMMA SentIsRead ==
  ASSUME NEW line \in CommandLine, parse(line) # NoMessage
  PROVE  /\ parse(line) \in AnyMessage /\ parse(line).type \in DOMAIN MessageType
         /\ deserialize(serialize(parse(line))) = parse(line)
         /\ serialize(parse(line)) # << >>
         /\ line.name \notin {None, "bytes"}
<1> DEFINE m == parse(line)
<1>1. \E t \in DOMAIN MessageType, d \in Int :
        m = Message(t, d, << >>) \/ \E x \in Int : m = Message(t, d, <<x>>)
  <2> DEFINE a == line.args
  <2>1. {"CMD_POWER_ON", "CMD_POWER_OFF", "CMD_VOLUME_UP", "CMD_VOLUME_DOWN", "CMD_VOLUME_MUTE",
         "CMD_CHANGE_SOURCE", "CMD_KEY", "CMD_AUTO_STANDBY", "CMD_RESTART_ADAPTER",
         "CMD_SUSPEND", "CMD_RESUME"} \subseteq DOMAIN MessageType
    BY CodesDiffer
  <2>2. \A key \in DOMAIN kKeyCodes : kKeyCodes[key] \in Int
    BY KeyCodesAre
  <2>3. \A flag \in DOMAIN StandbyFlags : StandbyFlags[flag] \in Int
    BY DEF StandbyFlags
  <2>4. \A n \in 0 .. 15 : n \in Int
    OBVIOUS
  <2>5. \A n \in 0 .. 255 : n \in Int
    OBVIOUS
  <2>6. 0 \in Int
    OBVIOUS
  <2> QED
    BY <2>1, <2>2, <2>3, <2>4, <2>5, <2>6, Parsed, Zenon
<1>2. PICK t \in DOMAIN MessageType, d \in Int, data \in Seq(Int) :
        m = Message(t, d, data) /\ Len(data) + 2 <= MAX_MESSAGE_SIZE
  <2>1. << >> \in Seq(Int) /\ Len(<< >>) = 0
    OBVIOUS
  <2>2. \A x \in Int : <<x>> \in Seq(Int) /\ Len(<<x>>) = 1
    OBVIOUS
  <2>3. 0 + 2 <= MAX_MESSAGE_SIZE /\ 1 + 2 <= MAX_MESSAGE_SIZE
    BY DEF MAX_MESSAGE_SIZE
  <2> QED
    BY <1>1, <2>1, <2>2, <2>3, Zenon
<1>3. deserialize(serialize(m)) = m /\ serialize(m) # << >>
  BY <1>2, RoundTrip
<1>4. m \in AnyMessage /\ m.type \in DOMAIN MessageType
  BY <1>2 DEF Message, AnyMessage
<1>5. line.name \notin {None, "bytes"}
  <2>1. line.name \in {"power", "volume", "source", "key", "standby", "restart", "suspend",
                       "resume"}
    BY Parsed, Zenon
  <2> QED
    BY <2>1 DEF None
<1> QED
  BY <1>3, <1>4, <1>5

(* Whatever bytes a request has, it is read as a message or as none.       *)
LEMMA ReadIsMessage ==
  ASSUME NEW bytes \in Seq(0 .. 255)
  PROVE  deserialize(bytes) \in AnyMessage
<1>1. CASE Len(bytes) \in 2 .. MAX_MESSAGE_SIZE /\ isKnownMessageType(bytes[1])
  <2> DEFINE t == CHOOSE u \in DOMAIN MessageType : MessageType[u] = bytes[1]
             rest == SubSeq(bytes, 3, Len(bytes))
  <2>0. \A x \in 0 .. 255 : x \in Int
    OBVIOUS
  <2>1. t \in DOMAIN MessageType
    BY <1>1 DEF isKnownMessageType
  <2>2. bytes[2] \in Int
    <3>1. 2 \in 1 .. Len(bytes)
      BY <1>1
    <3>2. bytes[2] \in 0 .. 255
      BY <3>1, ElementOfSeq
    <3> QED
      BY <2>0, <3>2, Zenon
  <2>3. rest \in Seq(Int)
    <3>1. Len(bytes) \in Int /\ 3 \in Int
      BY LenProperties
    <3>2. \A i \in 3 .. Len(bytes) : i \in 1 .. Len(bytes)
      BY <3>1
    <3>3. \A i \in 3 .. Len(bytes) : bytes[i] \in Int
      BY <2>0, <3>2, ElementOfSeq, Zenon
    <3> QED
      BY <3>1, <3>3, SubSeqProperties, Zenon
  <2>4. deserialize(bytes) = Message(t, bytes[2], rest)
    BY <1>1 DEF deserialize
  <2> HIDE DEF t, rest
  <2> QED
    BY <2>1, <2>2, <2>3, <2>4 DEF Message, AnyMessage
<1>2. CASE ~(Len(bytes) \in 2 .. MAX_MESSAGE_SIZE /\ isKnownMessageType(bytes[1]))
  <2>1. deserialize(bytes) = NoMessage
    BY <1>2 DEF deserialize
  <2>2. << >> \in Seq(Int)
    OBVIOUS
  <2> QED
    BY <2>1, <2>2 DEF NoMessage, Message, AnyMessage
<1> QED
  BY <1>1, <1>2

-----------------------------------------------------------------------------
(* The calls of an attempt. *)

(* The inputs that are not HDMI.                                           *)
LEMMA SourceCalls ==
  /\ SourceCall(0) = Press(TV, SELECT_AV_INPUT)
  /\ SourceCall(1) = Press(TV, SELECT_AUDIO_INPUT)
BY DEF SourceCall, kFirstHdmiSource, kLastHdmiSource

(* An attempt begins with a call of its plan, or fails at once.            *)
LEMMA PlanBegins ==
  ASSUME NEW m \in AnyMessage, m.type \in AdapterTypes
  PROVE  /\ FirstCall(m) \in Plan(m) \cup {Failed}
         /\ FirstCall(m) # Succeeded /\ FirstCall(m).op # "release"
<1>1. CASE m.type = "CMD_CHANGE_SOURCE"
  <2>1. FirstCall(m) = SourceCall(m.data[1])
    BY <1>1 DEF FirstCall
  <2>2. CASE m.data[1] \in HdmiSources
    <3>1. SourceCall(m.data[1]) = CallTo("setStreamPath", TV, hdmiPhysicalAddress(m.data[1]))
      BY <2>2 DEF SourceCall, HdmiSources, kFirstHdmiSource, kLastHdmiSource
    <3> QED
      BY <1>1, <2>1, <2>2, <3>1 DEF Plan, CallTo, Succeeded
  <2>3. CASE m.data[1] \in {0, 1}
    <3>1. SourceCall(m.data[1]) \in {Press(TV, SELECT_AV_INPUT), Press(TV, SELECT_AUDIO_INPUT)}
      BY <2>3, SourceCalls
    <3>2. m.data[1] \notin HdmiSources
      BY <2>3 DEF HdmiSources, kFirstHdmiSource, kLastHdmiSource
    <3> QED
      BY <1>1, <2>1, <2>3, <3>1, <3>2 DEF Plan, CallTo, Press, Succeeded
  <2>4. CASE m.data[1] \notin HdmiSources \cup {0, 1}
    <3>1. m.data[1] # 0 /\ m.data[1] # 1 /\ m.data[1] \notin kFirstHdmiSource .. kLastHdmiSource
      BY <2>4 DEF HdmiSources
    <3>2. SourceCall(m.data[1]) = Failed
      BY <3>1, Zenon DEF SourceCall
    <3> QED
      BY <2>1, <3>2 DEF Failed, Succeeded, CallTo
  <2> QED
    BY <2>2, <2>3, <2>4
<1>2. CASE m.type # "CMD_CHANGE_SOURCE"
  <2>1. FirstCall(m) \in Plan(m)
    BY <1>2 DEF Plan
  <2>2. FirstCall(m).op \in {"powerOn", "standby", "volumeUp", "volumeDown", "toggleMute",
                             "press", "reopen"}
    BY <1>2 DEF AdapterTypes, FirstCall, Press, CallTo
  <2> QED
    BY <2>1, <2>2 DEF Succeeded, CallTo
<1> QED
  BY <1>1, <1>2

(* The calls of a plan, spelled out.                                       *)
LEMMA PlanIs ==
  ASSUME NEW m \in AnyMessage, m.type \in AdapterTypes, NEW call \in Plan(m)
  PROVE  \/ m.type = "CMD_POWER_ON" /\ call = CallTo("powerOn", m.deviceId, 0)
         \/ m.type = "CMD_POWER_OFF" /\ call = CallTo("standby", m.deviceId, 0)
         \/ m.type = "CMD_VOLUME_UP" /\ call = CallTo("volumeUp", AudioSystem, 0)
         \/ m.type = "CMD_VOLUME_DOWN" /\ call = CallTo("volumeDown", AudioSystem, 0)
         \/ m.type = "CMD_VOLUME_MUTE" /\ call = CallTo("toggleMute", AudioSystem, 0)
         \/ m.type = "CMD_RESTART_ADAPTER" /\ call = CallTo("reopen", 0, 0)
         \/ m.type = "CMD_KEY" /\ call \in {Press(m.deviceId, m.data[1]), Release(m.deviceId)}
         \/ /\ m.type = "CMD_CHANGE_SOURCE" /\ m.data[1] \in {0, 1}
            /\ call \in {Press(TV, IF m.data[1] = 0 THEN 105 ELSE 106), Release(TV)}
         \/ /\ m.type = "CMD_CHANGE_SOURCE" /\ m.data[1] \in 2 .. 5
            /\ call \in {CallTo("setStreamPath", TV, (m.data[1] - 1) * 4096), Press(TV, 52),
                         Press(TV, 31 + m.data[1]), Release(TV)}
<1>1. CASE m.type \in AdapterTypes \ {"CMD_CHANGE_SOURCE", "CMD_KEY"}
  BY <1>1 DEF AdapterTypes, Plan, FirstCall
<1>2. CASE m.type = "CMD_KEY"
  BY <1>2 DEF Plan, FirstCall
<1>3. CASE m.type = "CMD_CHANGE_SOURCE"
  <2>1. CASE m.data[1] \in 2 .. 5
    <3>1. m.data[1] \in HdmiSources /\ hdmiNumberKey(m.data[1]) = 31 + m.data[1]
          /\ hdmiPhysicalAddress(m.data[1]) = (m.data[1] - 1) * 4096
      BY <2>1 DEF HdmiSources, kFirstHdmiSource, kLastHdmiSource, hdmiNumberKey, NUMBER0,
                  hdmiPhysicalAddress
    <3>2. SourceCall(m.data[1]) = CallTo("setStreamPath", TV, hdmiPhysicalAddress(m.data[1]))
      BY <3>1 DEF SourceCall, HdmiSources, kFirstHdmiSource, kLastHdmiSource
    <3>3. call \in {SourceCall(m.data[1]), Press(TV, INPUT_SELECT),
                    Press(TV, hdmiNumberKey(m.data[1])), Release(TV)}
      BY <1>3, <3>1 DEF Plan
    <3> QED
      BY <1>3, <2>1, <3>1, <3>2, <3>3 DEF INPUT_SELECT
  <2>2. CASE m.data[1] \notin 2 .. 5
    <3>1. m.data[1] \notin HdmiSources
      BY <2>2 DEF HdmiSources, kFirstHdmiSource, kLastHdmiSource
    <3>2. m.data[1] \in {0, 1} /\ call \in {SourceCall(m.data[1]), Release(TV)}
      BY <1>3, <3>1 DEF Plan
    <3> QED
      BY <1>3, <3>2, SourceCalls DEF SELECT_AV_INPUT, SELECT_AUDIO_INPUT
  <2> QED
    BY <2>1, <2>2
<1> QED
  BY <1>1, <1>2, <1>3

(* An attempt stays within its plan, and it comes to its release or to its *)
(* success only by a call that libcec acknowledged.                        *)
LEMMA PlanGoesOn ==
  ASSUME NEW m \in AnyMessage, m.type \in AdapterTypes, Vetted(m), NEW call \in Plan(m),
         NEW ok \in BOOLEAN
  PROVE  LET next == NextCall(m, call, ok) IN
         /\ next \in Plan(m) \cup {Succeeded, Failed}
         /\ (next = Succeeded \/ next.op = "release") /\ call.op # "release"
              => ok /\ ~Auxiliary(call)
<1> DEFINE next == NextCall(m, call, ok)
<1> USE DEF CallTo, Press, Release, TV, INPUT_SELECT, Auxiliary
<1>1. CASE call.op \notin {"press", "release", "setStreamPath"}
  BY <1>1 DEF NextCall, Succeeded, Failed
<1>2. CASE call.op = "release"
  BY <1>2 DEF NextCall
<1>3. CASE call.op = "setStreamPath"
  <2>1. m.type = "CMD_CHANGE_SOURCE" /\ m.data[1] \in 2 .. 5
    BY <1>3, PlanIs
  <2>2. Press(TV, INPUT_SELECT) \in Plan(m)
    BY <2>1 DEF Plan, HdmiSources, kFirstHdmiSource, kLastHdmiSource
  <2> QED
    BY <1>3, <2>2 DEF NextCall, Succeeded, Failed
<1>4. CASE call = Press(TV, INPUT_SELECT)
  <2>1. CASE m.type = "CMD_CHANGE_SOURCE"
    <3>1. m.data[1] \in 2 .. 5
      BY <1>4, <2>1, PlanIs
    <3>2. Press(TV, hdmiNumberKey(m.data[1])) \in Plan(m)
      BY <2>1, <3>1 DEF Plan, HdmiSources, kFirstHdmiSource, kLastHdmiSource
    <3> QED
      BY <1>4, <3>2 DEF NextCall, Succeeded, Failed
  <2>2. m.type = "CMD_CHANGE_SOURCE"
    <3>1. m.type = "CMD_KEY" => m.data[1] # INPUT_SELECT
      BY KeyCodesAre DEF Vetted
    <3> QED
      BY <1>4, <3>1, PlanIs
  <2> QED
    BY <2>1, <2>2
<1>5. CASE call.op = "press" /\ call # Press(TV, INPUT_SELECT)
  <2>1. Release(call.device) \in Plan(m)
    <3>1. CASE m.type = "CMD_KEY"
      BY <1>5, <3>1, PlanIs DEF Plan
    <3>2. CASE m.type = "CMD_CHANGE_SOURCE"
      BY <1>5, <3>2, PlanIs DEF Plan, HdmiSources, kFirstHdmiSource, kLastHdmiSource
    <3> QED
      BY <1>5, <3>1, <3>2, PlanIs
  <2> QED
    BY <1>5, <2>1 DEF NextCall, Succeeded, Failed
<1> QED
  BY <1>1, <1>2, <1>3, <1>4, <1>5

(* The key of each input.                                                  *)
LEMMA InputKeysAre ==
  /\ InputKeys[0] = 105 /\ InputKeys[1] = 106
  /\ \A s \in 2 .. 5 : InputKeys[s] = 31 + s
BY DEF InputKeys

(* The plan of a message that a client made of its words does what the     *)
(* words mean, on the device that the operations address.                  *)
LEMMA PlanIsDoable ==
  ASSUME NEW line \in CommandLine, parse(line) # NoMessage,
         parse(line).type \in AdapterTypes, NEW call \in Plan(parse(line))
  PROVE  Auxiliary(call) \/ call \in Doable(line)
<1> DEFINE a == line.args
           m == parse(line)
<1>1. m \in AnyMessage
  BY SentIsRead
<1>2. CASE line.name = "power"
  <2>1. /\ a[1].text \in {"on", "off"}
        /\ m = Message(IF a[1].text = "on" THEN "CMD_POWER_ON" ELSE "CMD_POWER_OFF",
                       a[2].number, << >>)
    BY <1>2, Parsed
  <2>2. call = CallTo(IF a[1].text = "on" THEN "powerOn" ELSE "standby", a[2].number, 0)
    BY <1>1, <2>1, PlanIs DEF Message
  <2>3. Doable(line) = {CallTo(IF a[1].text = "on" THEN "powerOn" ELSE "standby", a[2].number, 0)}
    BY <1>2 DEF Doable, CallsFor, AddressedDevice, TypedDevice
  <2> QED
    BY <2>2, <2>3
<1>3. CASE line.name = "volume"
  <2>1. /\ a[1].text \in {"up", "down", "mute"}
        /\ m = Message(IF a[1].text = "up" THEN "CMD_VOLUME_UP"
                       ELSE IF a[1].text = "down" THEN "CMD_VOLUME_DOWN"
                       ELSE "CMD_VOLUME_MUTE", a[2].number, << >>)
    BY <1>3, Parsed
  <2>2. call = CallTo(IF a[1].text = "up" THEN "volumeUp"
                      ELSE IF a[1].text = "down" THEN "volumeDown" ELSE "toggleMute",
                AudioSystem, 0)
    BY <1>1, <2>1, PlanIs DEF Message
  <2>3. Doable(line) = {CallTo([up |-> "volumeUp", down |-> "volumeDown",
                               mute |-> "toggleMute"][a[1].text], AudioSystem, 0)}
    BY <1>3 DEF Doable, CallsFor, AddressedDevice, TypedDevice
  <2>4. [up |-> "volumeUp", down |-> "volumeDown", mute |-> "toggleMute"][a[1].text] =
          IF a[1].text = "up" THEN "volumeUp"
          ELSE IF a[1].text = "down" THEN "volumeDown" ELSE "toggleMute"
    BY <2>1
  <2> QED
    BY <2>2, <2>3, <2>4
<1>4. CASE line.name = "source"
  <2> DEFINE n == a[2].number
  <2>1. n \in 0 .. 255 /\ m = Message("CMD_CHANGE_SOURCE", a[1].number, <<n>>)
    BY <1>4, Parsed
  <2>2. m.type = "CMD_CHANGE_SOURCE" /\ m.data[1] = n
    BY <2>1 DEF Message
  <2>3. Doable(line) = IF n \notin 0 .. 5 THEN {}
                      ELSE {Press(0, InputKeys[n])}
                        \cup (IF n > 1 THEN {CallTo("setStreamPath", 0, (n - 1) * 4096)} ELSE {})
    <3>1. AddressedDevice(line) = 0
      BY <1>4 DEF AddressedDevice, TV
    <3> QED
      BY <1>4, <3>1 DEF Doable, CallsFor
  <2> HIDE DEF n
  <2>4. CASE n \in {0, 1}
    <3>1. call \in {Press(TV, IF n = 0 THEN 105 ELSE 106), Release(TV)}
      BY <1>1, <2>2, <2>4, PlanIs
    <3>2. Press(TV, IF n = 0 THEN 105 ELSE 106) \in Doable(line)
      BY <2>3, <2>4, InputKeysAre DEF TV
    <3>3. Auxiliary(Release(TV))
      BY DEF Auxiliary, Release, CallTo
    <3> QED
      BY <3>1, <3>2, <3>3
  <2>5. CASE n \in 2 .. 5
    <3>1. call \in {CallTo("setStreamPath", TV, (n - 1) * 4096), Press(TV, 52),
                    Press(TV, 31 + n), Release(TV)}
      BY <1>1, <2>2, <2>5, PlanIs
    <3>2. Press(TV, 31 + n) \in Doable(line)
      BY <2>3, <2>5, InputKeysAre DEF TV
    <3>3. CallTo("setStreamPath", TV, (n - 1) * 4096) \in Doable(line)
      BY <2>3, <2>5 DEF TV
    <3>4. Auxiliary(Release(TV)) /\ Auxiliary(Press(TV, 52))
      BY DEF Auxiliary, Release, Press, CallTo, TV
    <3> QED
      BY <3>1, <3>2, <3>3, <3>4
  <2> QED
    BY <1>1, <2>2, <2>4, <2>5, PlanIs
<1>5. CASE line.name = "key"
  <2> DEFINE d == IF Len(a) = 2 THEN a[2].number ELSE 0
             k == kKeyCodes[a[1].text]
  <2>1. a[1].text \in DOMAIN kKeyCodes /\ m = Message("CMD_KEY", d, <<k>>)
    BY <1>5, Parsed, Zenon
  <2>2. [blue |-> 113, red |-> 114, green |-> 115, yellow |-> 116][a[1].text] = k
    BY DEF kKeyCodes
  <2>3. Doable(line) = {Press(d, k)}
    <3>1. AddressedDevice(line) = d
      BY <1>5 DEF AddressedDevice, TypedDevice, TV
    <3> QED
      BY <1>5, <2>2, <3>1 DEF Doable, CallsFor
  <2> HIDE DEF d, k
  <2>4. m.type = "CMD_KEY" /\ m.deviceId = d /\ m.data[1] = k
    BY <2>1 DEF Message
  <2>5. call \in {Press(d, k), Release(d)}
    BY <1>1, <2>4, PlanIs
  <2>6. Auxiliary(Release(d))
    BY DEF Auxiliary, Release, CallTo
  <2> QED
    BY <2>3, <2>5, <2>6
<1>6. CASE line.name = "restart"
  <2>1. m.type = "CMD_RESTART_ADAPTER"
    BY <1>6, Parsed DEF Message
  <2> QED
    BY <1>1, <1>6, <2>1, PlanIs DEF Doable, CallsFor, AddressedDevice, TypedDevice
<1>7. CASE line.name \in {"standby", "suspend", "resume"}
  <2>1. m.type \in {"CMD_AUTO_STANDBY", "CMD_SUSPEND", "CMD_RESUME"}
    BY <1>7, Parsed DEF Message
  <2> QED
    BY <2>1 DEF AdapterTypes
<1> QED
  BY <1>2, <1>3, <1>4, <1>5, <1>6, <1>7, Parsed

(* Any message, wherever it comes from, that handleKey and                 *)
(* handleChangeSource let through.                                         *)
LEMMA PlanIsVettable ==
  ASSUME NEW m \in AnyMessage, m.type \in AdapterTypes, Vetted(m), NEW call \in Plan(m)
  PROVE  Auxiliary(call) \/ Vettable(call)
<1>1. CASE m.type \notin {"CMD_KEY", "CMD_CHANGE_SOURCE"}
  <2>1. call.op \notin {"press", "setStreamPath"}
    BY <1>1, PlanIs DEF CallTo
  <2> QED
    BY <2>1 DEF Vettable
<1>2. CASE m.type = "CMD_KEY"
  <2>1. call \in {Press(m.deviceId, m.data[1]), Release(m.deviceId)} /\ m.data[1] \in KeyCodes
    BY <1>2, PlanIs DEF Vetted
  <2> QED
    BY <2>1 DEF Press, Release, CallTo, Vettable, Auxiliary
<1>3. CASE m.type = "CMD_CHANGE_SOURCE" /\ m.data[1] \in {0, 1}
  <2>1. call \in {Press(TV, 105), Press(TV, 106), Release(TV)}
    BY <1>3, PlanIs
  <2>2. {105, 106} \subseteq {InputKeys[s] : s \in 0 .. 5}
    BY InputKeysAre
  <2> HIDE DEF InputKeys
  <2> QED
    BY <2>1, <2>2 DEF Press, Release, CallTo, TV, Vettable, Auxiliary
<1>4. CASE m.type = "CMD_CHANGE_SOURCE" /\ m.data[1] \in 2 .. 5
  <2> DEFINE n == m.data[1]
  <2>1. call \in {CallTo("setStreamPath", TV, (n - 1) * 4096), Press(TV, 52),
                  Press(TV, 31 + n), Release(TV)}
    BY <1>4, PlanIs
  <2>2. 31 + n \in {InputKeys[s] : s \in 0 .. 5}
    BY <1>4, InputKeysAre
  <2>3. (n - 1) * 4096 \in {k * 4096 : k \in 1 .. 4}
    <3>1. n - 1 \in 1 .. 4
      BY <1>4
    <3> QED
      BY <3>1
  <2> HIDE DEF n
  <2>4. call.op = "press" => Auxiliary(call) \/ (call.device = 0 /\ call.arg = 31 + n)
    BY <2>1 DEF Press, Release, CallTo, TV, Auxiliary
  <2>5. call.op = "setStreamPath" => call.arg = (n - 1) * 4096
    BY <2>1 DEF Press, Release, CallTo, TV
  <2> QED
    BY <2>2, <2>3, <2>4, <2>5 DEF Vettable
<1> QED
  BY <1>1, <1>2, <1>3, <1>4, PlanIs

(* What is not for the adapter asks for no call.                           *)
LEMMA OthersMeanNothing ==
  ASSUME NEW line \in CommandLine, parse(line) # NoMessage, parse(line).type \notin AdapterTypes
  PROVE  Doable(line) = {}
<1>1. line.name \in {"standby", "suspend", "resume"}
  BY Parsed DEF Message, AdapterTypes
<1> QED
  BY <1>1 DEF Doable, CallsFor, AddressedDevice, TypedDevice

(* Nor do bytes, whose sender said nothing.                                *)
LEMMA BytesMeanNothing ==
  ASSUME NEW line, line.name \in {"bytes", None}
  PROVE  Doable(line) = {}
BY DEF Doable, CallsFor, AddressedDevice, TypedDevice, None

-----------------------------------------------------------------------------
(* What stays true. *)

(* Every step leaves a client's words alone once spoken, and its calls and *)
(* the acceptance of its command once made.                                *)
Grows ==
  /\ \A c \in Clients : said[c].name # None => said'[c] = said[c]
  /\ \A c \in Clients : \A i \in DOMAIN calls[c] :
       i \in DOMAIN calls'[c] /\ calls'[c][i] = calls[c][i]
  /\ accepted \subseteq accepted'

(* So what a job or a closure says about its client stays true.            *)
LEMMA TruthKept ==
  ASSUME Grows
  PROVE  /\ \A c \in Clients : \A m : SentBy(c, m) => SentBy(c, m)' /\ said[c].name # None
         /\ \A c \in Clients : Settled(c) => Settled(c)'
         /\ TrueJobs \subseteq TrueJobs' /\ Seq(TrueJobs) \subseteq Seq(TrueJobs')
         /\ TrueClosures \subseteq TrueClosures' /\ Seq(TrueClosures) \subseteq Seq(TrueClosures')
<1>1. ASSUME NEW c \in Clients, NEW m, SentBy(c, m)
      PROVE  SentBy(c, m)' /\ said[c].name # None
  <2>1. said[c].name # None
    <3>1. CASE said[c].name = "bytes"
      BY <3>1 DEF None
    <3>2. CASE said[c] \in CommandLine /\ m = parse(said[c]) /\ m # NoMessage
      BY <3>2, SentIsRead
    <3> QED
      BY <1>1, <3>1, <3>2 DEF SentBy
  <2>2. said'[c] = said[c]
    BY <2>1 DEF Grows
  <2> QED
    BY <1>1, <2>1, <2>2 DEF SentBy
<1>2. ASSUME NEW c \in Clients, Settled(c)
      PROVE  Settled(c)'
  <2>1. said'[c] = said[c] /\ said[c].name # None
    BY <1>2 DEF Settled, Grows
  <2>2. Doable(said[c])' = Doable(said[c])
    BY <2>1 DEF Doable, CallsFor, AddressedDevice, TypedDevice, InputKeys
  <2>3. Acknowledged(c) => Acknowledged(c)'
    BY <2>2 DEF Acknowledged, Grows
  <2> QED
    BY <1>2, <2>1, <2>2, <2>3 DEF Settled, Grows
<1>3. TrueJobs \subseteq TrueJobs'
  <2> SUFFICES ASSUME NEW j \in TrueJobs PROVE j \in TrueJobs'
    OBVIOUS
  <2>1. Jobs' = Jobs /\ j \in Jobs
    BY DEF Jobs, TrueJobs
  <2>2. CASE j.kind = "command"
    <3>1. CommandJob(j)
      BY <2>2 DEF TrueJobs
    <3>2. SentBy(j.client, j.msg)'
      BY <1>1, <3>1 DEF CommandJob
    <3>3. CommandJob(j)'
      BY <3>1, <3>2 DEF CommandJob
    <3> QED
      BY <2>1, <3>3 DEF TrueJobs
  <2> QED
    BY <2>1, <2>2 DEF TrueJobs
<1>4. TrueClosures \subseteq TrueClosures'
  <2> SUFFICES ASSUME NEW w \in TrueClosures PROVE w \in TrueClosures'
    OBVIOUS
  <2>1. Closures' = Closures /\ w \in Closures
    BY DEF Closures, TrueClosures
  <2>2. w.fn = "reply" => w.client \in Clients
                          /\ (w.response = "RESP_SUCCESS" => Settled(w.client)')
    BY <1>2 DEF TrueClosures
  <2> QED
    BY <2>1, <2>2 DEF TrueClosures
<1>5. Seq(TrueJobs) \subseteq Seq(TrueJobs') /\ Seq(TrueClosures) \subseteq Seq(TrueClosures')
  BY <1>3, <1>4, SeqMonotonic
<1> QED
  BY <1>1, <1>2, <1>3, <1>4, <1>5

(* The history of calls grows by a call at a time.                         *)
LEMMA CallsGrow ==
  ASSUME PathTypeOK, worker.job.client \in Clients, NEW ok \in BOOLEAN, NEW delivered \in BOOLEAN,
         Called(ok, delivered)
  PROVE  LET c == worker.job.client IN
         /\ calls' \in [Clients -> Seq(Made)]
         /\ \A d \in Clients \ {c} : calls'[d] = calls[d]
         /\ Len(calls'[c]) = Len(calls[c]) + 1
         /\ \A i \in DOMAIN calls[c] : i \in DOMAIN calls'[c] /\ calls'[c][i] = calls[c][i]
         /\ Len(calls'[c]) \in DOMAIN calls'[c]
         /\ calls'[c][Len(calls'[c])] = [call |-> worker.call, ok |-> ok, delivered |-> delivered]
         /\ \A i \in DOMAIN calls'[c] : i \in DOMAIN calls[c] \/ i = Len(calls'[c])
<1> DEFINE c == worker.job.client
           r == [call |-> worker.call, ok |-> ok, delivered |-> delivered]
           s == calls[c]
           q == Append(s, r)
<1>1. calls' = [calls EXCEPT ![c] = q]
  BY DEF Called
<1>2. calls \in [Clients -> Seq(Made)] /\ s \in Seq(Made) /\ r \in Made
  BY DEF PathTypeOK, Made
<1>3. calls'[c] = q /\ \A d \in Clients \ {c} : calls'[d] = calls[d]
  BY <1>1, <1>2
<1> HIDE DEF r, s
<1>4. /\ q \in Seq(Made) /\ Len(q) = Len(s) + 1 /\ q[Len(s) + 1] = r
      /\ \A i \in 1 .. Len(s) : q[i] = s[i]
  BY <1>2, AppendProperties
<1>5. Len(s) \in Nat /\ DOMAIN s = 1 .. Len(s) /\ DOMAIN q = 1 .. Len(q)
  BY <1>2, <1>4, LenProperties
<1>6. calls' \in [Clients -> Seq(Made)]
  <2> HIDE DEF q
  <2> QED
    BY <1>1, <1>2, <1>4
<1> HIDE DEF q
<1>7. /\ Len(q) \in DOMAIN q
      /\ \A i \in DOMAIN q : i \in DOMAIN s \/ i = Len(q)
      /\ \A i \in DOMAIN s : i \in DOMAIN q /\ q[i] = s[i]
      /\ q[Len(q)] = r
  BY <1>4, <1>5
<1> QED
  BY <1>3, <1>4, <1>6, <1>7 DEF r, s

(* The worker's job is as true as it was.                                  *)
LEMMA WorkerKept ==
  ASSUME WorkerInv, Grows,
         UNCHANGED <<worker.pc, worker.job, worker.call>>
  PROVE  WorkerInv'
<1> SUFFICES ASSUME worker'.pc # "idle" PROVE WorkerInv'
  BY DEF WorkerInv
<1>1. /\ worker.job \in TrueJobs /\ worker.job.kind = "command" /\ Vetted(worker.job.msg)
      /\ worker.pc = "call" =>
           /\ worker.call \in Plan(worker.job.msg) \cup {Succeeded, Failed}
           /\ worker.call = Succeeded \/ worker.call.op = "release" => Settled(worker.job.client)
  BY DEF WorkerInv
<1>2. worker.job.client \in Clients
  BY <1>1 DEF TrueJobs, CommandJob
<1>3. worker'.job \in TrueJobs'
  BY <1>1, TruthKept
<1>4. PICK c \in Clients : c = worker.job.client /\ c = worker'.job.client
  BY <1>2
<1>5. Settled(worker.job.client) => Settled(c)'
  BY <1>4, TruthKept
<1>6. Settled(c)' => Settled(worker.job.client)'
  BY <1>4 DEF Settled, Acknowledged
<1> QED
  BY <1>1, <1>3, <1>5, <1>6 DEF WorkerInv

(* Nothing was said and no call made; a client is told of success only     *)
(* when that is true.                                                      *)
LEMMA WordsKept ==
  ASSUME OnlyWhatWasSaid, WireInv, Grows, UNCHANGED <<said, calls>>,
         \A c \in Clients : wire'[c] \in {wire[c], << >>},
         \A c \in Clients : outcome'[c] = "success" => outcome[c] = "success" \/ Settled(c)'
  PROVE  OnlyWhatWasSaid' /\ WireInv'
<1>1. OnlyWhatWasSaid'
  BY Zenon DEF OnlyWhatWasSaid
<1>2. ASSUME NEW c \in Clients
      PROVE  outcome'[c] = "success" => Settled(c)'
  BY TruthKept DEF WireInv
<1>3. ASSUME NEW c \in Clients
      PROVE  /\ wire'[c] # << >> =>
                  \/ said'[c].name = "bytes" /\ wire'[c] \in Seq(0 .. 255)
                  \/ /\ said'[c] \in CommandLine /\ parse(said'[c]) # NoMessage
                     /\ wire'[c] = serialize(parse(said'[c]))
             /\ said'[c].name = None => calls'[c] = << >>
  <2>1. /\ wire[c] # << >> =>
             \/ said[c].name = "bytes" /\ wire[c] \in Seq(0 .. 255)
             \/ /\ said[c] \in CommandLine /\ parse(said[c]) # NoMessage
                /\ wire[c] = serialize(parse(said[c]))
        /\ said[c].name = None => calls[c] = << >>
    BY DEF WireInv
  <2>2. said'[c] = said[c] /\ calls'[c] = calls[c] /\ wire'[c] \in {wire[c], << >>}
    OBVIOUS
  <2> QED
    BY <2>1, <2>2, Zenon
<1>4. WireInv'
  BY <1>2, <1>3, Zenon DEF WireInv
<1> QED
  BY <1>1, <1>4

(* The queues stay queues of true jobs and closures.                       *)
LEMMA QueuesKept ==
  ASSUME Grows, NEW s \in Seq(TrueJobs), NEW t \in Seq(TrueClosures)
  PROVE  /\ s \in Seq(TrueJobs') /\ (s # << >> => Tail(s) \in Seq(TrueJobs') /\ Head(s) \in TrueJobs)
         /\ \A j \in TrueJobs' : Append(s, j) \in Seq(TrueJobs')
         /\ \A u \in Seq(TrueJobs) : s \o u \in Seq(TrueJobs')
         /\ t \in Seq(TrueClosures')
         /\ (t # << >> => Tail(t) \in Seq(TrueClosures') /\ Head(t) \in TrueClosures)
         /\ \A w \in TrueClosures' : Append(t, w) \in Seq(TrueClosures')
<1> DEFINE J == TrueJobs'
           W == TrueClosures'
<1>1. /\ s \in Seq(J) /\ t \in Seq(W) /\ \A u \in Seq(TrueJobs) : u \in Seq(J)
  BY TruthKept
<1>2. (s # << >> => Head(s) \in TrueJobs) /\ (t # << >> => Head(t) \in TrueClosures)
  BY HeadTailProperties
<1> HIDE DEF J, W
<1>3. /\ s # << >> => Tail(s) \in Seq(J)
      /\ t # << >> => Tail(t) \in Seq(W)
  BY <1>1, HeadTailProperties
<1>4. /\ \A j \in J : Append(s, j) \in Seq(J)
      /\ \A w \in W : Append(t, w) \in Seq(W)
  BY <1>1, AppendProperties
<1>5. \A u \in Seq(TrueJobs) : s \o u \in Seq(J)
  BY <1>1, ConcatProperties
<1> QED
  BY <1>1, <1>2, <1>3, <1>4, <1>5 DEF J, W

-----------------------------------------------------------------------------
(* The clients. *)

(* A client speaks for the first time: nothing is known of it.             *)
LEMMA SpeakingKeeps ==
  ASSUME PathInv, NEW c \in Clients, said[c].name = None,
         NEW line, said' = [said EXCEPT ![c] = line],
         UNCHANGED <<mainVars, workerVars>>,
         NEW bytes,
         wire' = [wire EXCEPT ![c] = bytes] \/ (UNCHANGED wire /\ bytes = wire[c]),
         bytes # << >> =>
           \/ line.name = "bytes" /\ bytes \in Seq(0 .. 255)
           \/ line \in CommandLine /\ parse(line) # NoMessage /\ bytes = serialize(parse(line)),
         UNCHANGED outcome \/ outcome' = [outcome EXCEPT ![c] = "usage"]
  PROVE  PathInv'
<1> USE DEF PathInv
<1>1. Grows
  <2>1. \A d \in Clients : said[d].name # None => said'[d] = said[d]
    BY DEF PathTypeOK
  <2> QED
    BY <2>1 DEF Grows, mainVars, workerVars
<1>2. PathTypeOK'
  BY DEF PathTypeOK, workerVars, Jobs, AnyMessage, MessageType, AnyCall, Made, JobKinds, None
<1>3. jobs' \in Seq(TrueJobs') /\ queued' \in Seq(TrueJobs') /\ work' \in Seq(TrueClosures')
  BY <1>1, QueuesKept DEF mainVars, workerVars
<1>4. \A i \in DOMAIN queued' : queued'[i].kind = "command"
  BY DEF mainVars
<1>5. WorkerInv'
  BY <1>1, WorkerKept DEF workerVars
<1>6. ASSUME NEW d \in Clients, d # c
      PROVE  said'[d] = said[d] /\ wire'[d] = wire[d] /\ outcome'[d] = outcome[d]
             /\ calls'[d] = calls[d]
  BY <1>6 DEF PathTypeOK, workerVars
<1>7. /\ said'[c] = line /\ wire'[c] = bytes /\ calls'[c] = << >>
      /\ outcome'[c] # "success"
  <2>1. ~Settled(c) /\ calls[c] = << >>
    BY DEF Settled, WireInv
  <2> QED
    BY <2>1 DEF PathTypeOK, workerVars, WireInv
<1>8. WireInv'
  <2> SUFFICES ASSUME NEW d \in Clients
               PROVE  /\ wire'[d] # << >> =>
                           \/ said'[d].name = "bytes" /\ wire'[d] \in Seq(0 .. 255)
                           \/ /\ said'[d] \in CommandLine /\ parse(said'[d]) # NoMessage
                              /\ wire'[d] = serialize(parse(said'[d]))
                      /\ said'[d].name = None => calls'[d] = << >>
                      /\ outcome'[d] = "success" => Settled(d)'
    BY Zenon DEF WireInv
  <2>1. CASE d = c
    BY <1>7, <2>1, Zenon
  <2>2. CASE d # c
    <3>1. outcome'[d] = "success" => Settled(d)'
      BY <1>1, <1>6, <2>2, TruthKept DEF WireInv
    <3>2. /\ wire[d] # << >> =>
                           \/ said[d].name = "bytes" /\ wire[d] \in Seq(0 .. 255)
                           \/ /\ said[d] \in CommandLine /\ parse(said[d]) # NoMessage
                              /\ wire[d] = serialize(parse(said[d]))
          /\ said[d].name = None => calls[d] = << >>
      BY DEF WireInv
    <3> QED
      BY <1>6, <2>2, <3>1, <3>2, Zenon
  <2> QED
    BY <2>1, <2>2
<1>9. OnlyWhatWasSaid'
  <2> SUFFICES ASSUME NEW d \in Clients, NEW i \in DOMAIN calls'[d]
               PROVE  \/ Auxiliary(calls'[d][i].call)
                      \/ IF said'[d].name = "bytes" THEN Vettable(calls'[d][i].call)
                         ELSE calls'[d][i].call \in Doable(said'[d])
    BY Zenon DEF OnlyWhatWasSaid
  <2>1. d # c
    <3>1. DOMAIN << >> = {}
      OBVIOUS
    <3> QED
      BY <1>7, <3>1
  <2>2. said'[d] = said[d] /\ calls'[d] = calls[d] /\ i \in DOMAIN calls[d]
    BY <1>6, <2>1
  <2>3. \/ Auxiliary(calls[d][i].call)
        \/ IF said[d].name = "bytes" THEN Vettable(calls[d][i].call)
           ELSE calls[d][i].call \in Doable(said[d])
    BY <2>2 DEF OnlyWhatWasSaid
  <2> QED
    BY <2>2, <2>3, Zenon
<1> QED
  BY <1>2, <1>3, <1>4, <1>5, <1>8, <1>9

(* A client types a line, or a program of somebody else's sends bytes.     *)
LEMMA ClientSpeaks ==
  ASSUME PathInv, NEW c \in Clients,
         (\E line \in Lines : RunClient(c, line)) \/ (\E bytes \in HandRolled : SendBytes(c, bytes))
  PROVE  PathInv'
<1>1. ASSUME NEW line \in Lines, RunClient(c, line)
      PROVE  PathInv'
  <2>1. /\ said[c].name = None /\ said' = [said EXCEPT ![c] = line]
        /\ UNCHANGED <<mainVars, workerVars>>
    BY <1>1 DEF RunClient
  <2>2. line \in CommandLine
    BY PathAssumption
  <2>3. CASE /\ parse(line) # NoMessage /\ UNCHANGED outcome
             /\ wire' = [wire EXCEPT ![c] = serialize(parse(line))]
    BY <2>1, <2>2, <2>3, SpeakingKeeps
  <2>4. CASE outcome' = [outcome EXCEPT ![c] = "usage"] /\ UNCHANGED wire
    <3>1. wire[c] = << >>
      <4>1. said[c].name # "bytes"
        BY <2>1 DEF None
      <4>2. ~(said[c] \in CommandLine /\ parse(said[c]) # NoMessage)
        BY <2>1, SentIsRead
      <4> QED
        BY <4>1, <4>2 DEF PathInv, WireInv
    <3> QED
      BY <2>1, <2>4, <3>1, SpeakingKeeps
  <2> QED
    BY <1>1, <2>3, <2>4 DEF RunClient
<1>2. ASSUME NEW bytes \in HandRolled, SendBytes(c, bytes)
      PROVE  PathInv'
  <2> DEFINE line == Line("bytes", << >>)
  <2>1. /\ said[c].name = None /\ said' = [said EXCEPT ![c] = line]
        /\ wire' = [wire EXCEPT ![c] = bytes]
        /\ UNCHANGED <<mainVars, workerVars, outcome>>
    BY <1>2 DEF SendBytes
  <2>2. line.name = "bytes" /\ bytes \in Seq(0 .. 255)
    BY PathAssumption DEF Line
  <2> HIDE DEF line
  <2> QED
    BY <2>1, <2>2, SpeakingKeeps
<1> QED
  BY <1>1, <1>2

-----------------------------------------------------------------------------
(* The main thread. *)

(* A step that leaves the worker and the calls alone.                      *)
LEMMA MainKeeps ==
  ASSUME PathInv, UNCHANGED <<said, calls, worker>>, accepted \subseteq accepted',
         DOMAIN wire' = Clients, DOMAIN outcome' = Clients,
         \A c \in Clients : wire'[c] \in {wire[c], << >>},
         \A c \in Clients : outcome'[c] = "success" => outcome[c] = "success" \/ Settled(c)',
         jobs' \in Seq(TrueJobs'), queued' \in Seq(TrueJobs'), work' \in Seq(TrueClosures'),
         \A i \in DOMAIN queued' : queued'[i].kind = "command"
  PROVE  PathInv'
<1>1. Grows
  BY DEF Grows
<1>2. PathTypeOK'
  BY DEF PathInv, PathTypeOK, Jobs, AnyMessage, MessageType, AnyCall, Made, JobKinds, None
<1>3. WorkerInv'
  BY <1>1, WorkerKept DEF PathInv
<1>4. OnlyWhatWasSaid' /\ WireInv'
  BY <1>1, WordsKept DEF PathInv
<1> QED
  BY <1>2, <1>3, <1>4 DEF PathInv

(* The rows of the dispatch table.                                         *)
LEMMA TableIs ==
  /\ DOMAIN kDispatchTable = AdapterTypes \cup {"CMD_AUTO_STANDBY", "CMD_SUSPEND", "CMD_RESUME"}
  /\ \A t \in AdapterTypes : kDispatchTable[t].dispatch = "AdapterCall"
  /\ kDispatchTable["CMD_AUTO_STANDBY"].dispatch = "StateOnly"
  /\ \A t \in {"CMD_SUSPEND", "CMD_RESUME"} :
       kDispatchTable[t].dispatch = "SupervisorIntercepted"
  /\ \A t \in DOMAIN kDispatchTable :
       kDispatchTable[t].queueableWhileSuspended => t \in AdapterTypes
BY DEF kDispatchTable, Row, AdapterTypes

(* The request that is read is the one its client made.                    *)
LEMMA RequestIs ==
  ASSUME PathInv, NEW c \in Clients, wire[c] # << >>, deserialize(wire[c]) # NoMessage
  PROVE  deserialize(wire[c]) \in AnyMessage /\ SentBy(c, deserialize(wire[c]))
<1>1. CASE said[c].name = "bytes" /\ wire[c] \in Seq(0 .. 255)
  BY <1>1, ReadIsMessage DEF SentBy
<1>2. CASE said[c] \in CommandLine /\ parse(said[c]) # NoMessage
           /\ wire[c] = serialize(parse(said[c]))
  <2>1. deserialize(wire[c]) = parse(said[c]) /\ parse(said[c]) \in AnyMessage
    BY <1>2, SentIsRead
  <2> QED
    BY <1>2, <2>1 DEF SentBy
<1> QED
  BY <1>1, <1>2 DEF PathInv, WireInv

(* A command that needs no call has nothing left to show.                  *)
LEMMA NothingToShow ==
  ASSUME PathInv, NEW c \in Clients, NEW m, SentBy(c, m), m.type \notin AdapterTypes,
         UNCHANGED <<said, calls, accepted>>
  PROVE  Settled(c)'
<1>1. Grows
  BY DEF Grows
<1>2. said[c].name # None
  BY <1>1, TruthKept
<1>3. Doable(said[c]) = {}
  BY BytesMeanNothing, OthersMeanNothing DEF SentBy
<1>4. Settled(c)
  BY <1>2, <1>3 DEF Settled
<1> QED
  BY <1>1, <1>4, TruthKept

(* Every branch of handleCommand and dispatch.                             *)
LEMMA HandleRequestKeeps ==
  ASSUME PathInv, NEW c \in Clients, HandleRequest(c)
  PROVE  PathInv'
<1> DEFINE m == deserialize(wire[c])
<1>1. /\ wire[c] # << >> /\ wire' = [wire EXCEPT ![c] = << >>]
      /\ UNCHANGED <<said, work, worker, calls>>
  BY DEF HandleRequest
<1>2. /\ DOMAIN wire' = Clients /\ \A d \in Clients : wire'[d] \in {wire[d], << >>}
      /\ DOMAIN outcome = Clients
      /\ jobs \in Seq(TrueJobs) /\ queued \in Seq(TrueJobs) /\ work \in Seq(TrueClosures)
      /\ \A i \in DOMAIN queued : queued[i].kind = "command"
  BY <1>1 DEF PathInv, PathTypeOK
<1>3. ASSUME accepted \subseteq accepted'
      PROVE  /\ Grows
             /\ jobs \in Seq(TrueJobs') /\ queued \in Seq(TrueJobs') /\ work' \in Seq(TrueClosures')
             /\ \A j \in TrueJobs' :
                  Append(jobs, j) \in Seq(TrueJobs') /\ Append(queued, j) \in Seq(TrueJobs')
  <2>1. Grows
    BY <1>1, <1>3 DEF Grows
  <2>2. jobs \in Seq(TrueJobs') /\ \A j \in TrueJobs' : Append(jobs, j) \in Seq(TrueJobs')
    BY <1>2, <2>1, QueuesKept
  <2>3. queued \in Seq(TrueJobs') /\ \A j \in TrueJobs' : Append(queued, j) \in Seq(TrueJobs')
    BY <1>2, <2>1, QueuesKept
  <2>4. work' \in Seq(TrueClosures')
    BY <1>1, <1>2, <2>1, QueuesKept
  <2> QED
    BY <2>1, <2>2, <2>3, <2>4
<1>4. ASSUME UNCHANGED <<jobs, queued, accepted>>, DOMAIN outcome' = Clients,
             \A d \in Clients : outcome'[d] = "success" => outcome[d] = "success" \/ Settled(d)'
      PROVE  PathInv'
  <2>1. /\ jobs' \in Seq(TrueJobs') /\ queued' \in Seq(TrueJobs') /\ work' \in Seq(TrueClosures')
        /\ \A i \in DOMAIN queued' : queued'[i].kind = "command"
    BY <1>2, <1>3, <1>4
  <2> QED
    BY <1>1, <1>2, <1>4, <2>1, MainKeeps
<1>5. ASSUME NEW response \in {"RESP_SUCCESS", "RESP_ERROR"}, Answer(c, response),
             response = "RESP_SUCCESS" => Settled(c)'
      PROVE  /\ DOMAIN outcome' = Clients
             /\ \A d \in Clients : outcome'[d] = "success" => outcome[d] = "success" \/ Settled(d)'
  BY <1>2, <1>5 DEF Answer
<1>6. CASE m = NoMessage
  <2>1. /\ outcome' = [outcome EXCEPT ![c] = IF @ = None THEN "closed" ELSE @]
        /\ UNCHANGED <<jobs, queued, accepted>>
    BY <1>6 DEF HandleRequest
  <2>2. /\ DOMAIN outcome' = Clients
        /\ \A d \in Clients : outcome'[d] = "success" => outcome[d] = "success"
    BY <1>2, <2>1
  <2> QED
    BY <1>4, <2>1, <2>2
<1>7. CASE m # NoMessage
  <2>1. PICK r \in AnyMessage : r = m /\ dispatch(c, r) /\ SentBy(c, r)
    BY <1>1, <1>7, RequestIs DEF HandleRequest
  <2>2. CASE Rejected(c)
    BY <1>4, <1>5, <2>2 DEF Rejected, Inline
  <2>3. ASSUME r.type \notin AdapterTypes, Answer(c, "RESP_SUCCESS"),
               UNCHANGED <<jobs, queued, accepted>>
        PROVE  PathInv'
    <3>1. Settled(c)'
      BY <1>1, <2>1, <2>3, NothingToShow
    <3> QED
      BY <1>4, <1>5, <2>3, <3>1
  <2>4. CASE r.type \in DOMAIN kDispatchTable
             /\ kDispatchTable[r.type].queueableWhileSuspended
             /\ handleSuspendedInline(c, r) /\ ~Rejected(c)
    <3> DEFINE j == Job("command", c, r, TRUE)
    <3>1. /\ queued' = Append(queued, j) /\ accepted' = accepted \cup {c}
          /\ Answer(c, "RESP_SUCCESS") /\ UNCHANGED jobs
      BY <2>4 DEF handleSuspendedInline, Inline
    <3>2. accepted \subseteq accepted'
      BY <3>1
    <3>3. SentBy(c, r)' /\ said[c].name # None
      BY <1>3, <2>1, <3>2, TruthKept
    <3>4. Settled(c)'
      BY <1>1, <3>1, <3>3 DEF Settled
    <3>5. j \in TrueJobs' /\ j.kind = "command"
      <4>1. j.client = c /\ j.msg = r /\ j.kind = "command" /\ j \in Jobs
        BY <2>1 DEF Job, Jobs, JobKinds
      <4>2. r.type \in AdapterTypes
        BY <2>4, TableIs
      <4>3. CommandJob(j)'
        BY <3>3, <4>1, <4>2 DEF CommandJob, SentBy
      <4> QED
        BY <4>1, <4>3 DEF TrueJobs, Jobs, AnyMessage, MessageType, JobKinds, None
    <3> HIDE DEF j
    <3>6. queued' \in Seq(TrueJobs') /\ jobs' \in Seq(TrueJobs') /\ work' \in Seq(TrueClosures')
      BY <1>3, <3>1, <3>2, <3>5
    <3>7. \A i \in DOMAIN queued' : queued'[i].kind = "command"
      <4>1. queued \in Seq(TrueJobs \cup {j}) /\ j \in TrueJobs \cup {j}
        BY <1>2, SeqMonotonic
      <4>2. /\ Len(queued') = Len(queued) + 1 /\ queued'[Len(queued) + 1] = j
            /\ \A i \in 1 .. Len(queued) : queued'[i] = queued[i]
            /\ queued' \in Seq(TrueJobs \cup {j})
        BY <3>1, <4>1, AppendProperties
      <4>3. DOMAIN queued' = 1 .. Len(queued') /\ DOMAIN queued = 1 .. Len(queued)
            /\ Len(queued) \in Nat
        BY <4>1, <4>2, LenProperties
      <4> QED
        BY <1>2, <3>5, <4>2, <4>3
    <3>8. /\ DOMAIN outcome' = Clients
          /\ \A d \in Clients : outcome'[d] = "success" => outcome[d] = "success" \/ Settled(d)'
      BY <1>5, <3>1, <3>4
    <3> QED
      BY <1>1, <1>2, <3>2, <3>6, <3>7, <3>8, MainKeeps
  <2>5. CASE r.type \in AdapterTypes /\ submitAdapterWork(c, r)
    <3> DEFINE j == Job("command", c, r, FALSE)
    <3>1. jobs' = Append(jobs, j) /\ UNCHANGED <<outcome, queued, accepted>>
      BY <2>5 DEF submitAdapterWork
    <3>2. SentBy(c, r)'
      BY <1>3, <2>1, <3>1, TruthKept
    <3>3. j \in TrueJobs'
      <4>1. j.client = c /\ j.msg = r /\ j \in Jobs
        BY <2>1 DEF Job, Jobs, JobKinds
      <4>2. CommandJob(j)'
        BY <2>5, <3>2, <4>1 DEF CommandJob, SentBy
      <4> QED
        BY <4>1, <4>2 DEF TrueJobs, Jobs, AnyMessage, MessageType, JobKinds, None
    <3> HIDE DEF j
    <3>4. jobs' \in Seq(TrueJobs') /\ queued' \in Seq(TrueJobs') /\ work' \in Seq(TrueClosures')
      BY <1>3, <3>1, <3>3
    <3> QED
      BY <1>1, <1>2, <3>1, <3>4, MainKeeps
  <2>6. CASE r.type \notin DOMAIN kDispatchTable
    BY <2>1, <2>2, <2>6 DEF dispatch
  <2>7. CASE r.type \in DOMAIN kDispatchTable /\ suspended
             /\ kDispatchTable[r.type].dispatch # "SupervisorIntercepted"
    <3>1. handleSuspendedInline(c, r)
      BY <2>1, <2>7 DEF dispatch
    <3>2. Rejected(c) \/ kDispatchTable[r.type].queueableWhileSuspended
      BY <3>1 DEF handleSuspendedInline
    <3> QED
      BY <2>2, <2>4, <2>7, <3>1, <3>2
  <2>8. CASE r.type \in {"CMD_SUSPEND", "CMD_RESUME"}
    <3>1. kDispatchTable[r.type].dispatch = "SupervisorIntercepted"
          /\ r.type \in DOMAIN kDispatchTable /\ r.type \notin AdapterTypes
      BY <2>8, TableIs DEF AdapterTypes
    <3>2. Intercepted(c)
      BY <2>1, <3>1 DEF dispatch
    <3> QED
      BY <2>3, <3>1, <3>2 DEF Intercepted, Inline
  <2>9. CASE r.type = "CMD_AUTO_STANDBY" /\ ~suspended
    <3>1. kDispatchTable[r.type].dispatch = "StateOnly"
          /\ r.type \in DOMAIN kDispatchTable /\ r.type \notin AdapterTypes
      BY <2>9, TableIs DEF AdapterTypes
    <3>2. apply(c, r)
      BY <2>1, <2>9, <3>1 DEF dispatch
    <3> QED
      BY <2>2, <2>3, <3>1, <3>2 DEF apply, Inline
  <2>10. CASE r.type \in AdapterTypes /\ ~suspended
    <3>1. kDispatchTable[r.type].dispatch = "AdapterCall" /\ r.type \in DOMAIN kDispatchTable
      BY <2>10, TableIs
    <3>2. submitAdapterWork(c, r)
      BY <2>1, <2>10, <3>1 DEF dispatch
    <3> QED
      BY <2>5, <2>10, <3>2
  <2>11. /\ kDispatchTable["CMD_AUTO_STANDBY"].dispatch = "StateOnly"
         /\ \A t \in AdapterTypes : kDispatchTable[t].dispatch = "AdapterCall"
         /\ DOMAIN kDispatchTable = AdapterTypes \cup {"CMD_AUTO_STANDBY", "CMD_SUSPEND", "CMD_RESUME"}
    BY TableIs
  <2>12. CASE r.type = "CMD_AUTO_STANDBY"
    BY <2>7, <2>9, <2>11, <2>12
  <2>13. CASE r.type \in AdapterTypes
    BY <2>7, <2>10, <2>11, <2>13
  <2> QED
    BY <2>6, <2>8, <2>11, <2>12, <2>13
<1> QED
  BY <1>6, <1>7

(* A job of AdapterLifecycle says nothing about a client.                  *)
LEMMA LifecycleKeeps ==
  ASSUME PathInv, NEW kind \in {"suspend", "resume", "reconnect"}, SubmitLifecycle(kind)
  PROVE  PathInv'
<1> DEFINE j == Job(kind, None, NoMessage, FALSE)
<1>1. /\ jobs' = Append(jobs, j)
      /\ UNCHANGED <<said, wire, outcome, queued, work, accepted, worker, calls>>
  BY DEF SubmitLifecycle, clientVars
<1>2. Grows /\ jobs \in Seq(TrueJobs) /\ queued \in Seq(TrueJobs) /\ work \in Seq(TrueClosures)
  BY <1>1 DEF Grows, PathInv
<1>3. j \in TrueJobs
  <2>1. NoMessage \in AnyMessage
    <3>1. << >> \in Seq(Int)
      OBVIOUS
    <3> QED
      BY <3>1 DEF NoMessage, Message, AnyMessage
  <2>2. j \in Jobs /\ j.kind # "command"
    BY <2>1 DEF Job, Jobs, JobKinds
  <2> QED
    BY <2>2 DEF TrueJobs
<1>4. j \in TrueJobs'
  BY <1>2, <1>3, TruthKept
<1> HIDE DEF j
<1>5. jobs' \in Seq(TrueJobs') /\ work' \in Seq(TrueClosures')
  BY <1>1, <1>2, <1>4, QueuesKept
<1>6. queued' \in Seq(TrueJobs')
  BY <1>1, <1>2, QueuesKept
<1>7. /\ DOMAIN wire' = Clients /\ DOMAIN outcome' = Clients
      /\ \A i \in DOMAIN queued' : queued'[i].kind = "command"
  BY <1>1 DEF PathInv, PathTypeOK
<1> QED
  BY <1>1, <1>5, <1>6, <1>7, MainKeeps

(* A closure: a reply is as true when it is read as when it was posted.    *)
LEMMA RunClosureKeeps ==
  ASSUME PathInv, RunClosure
  PROVE  PathInv'
<1> DEFINE w == Head(work)
<1>1. /\ work # << >> /\ work' = Tail(work)
      /\ UNCHANGED <<said, wire, accepted, worker, calls>>
  BY DEF RunClosure
<1>2. /\ jobs \in Seq(TrueJobs) /\ queued \in Seq(TrueJobs) /\ work \in Seq(TrueClosures)
      /\ DOMAIN wire = Clients /\ DOMAIN outcome = Clients
      /\ \A i \in DOMAIN queued : queued[i].kind = "command"
  BY DEF PathInv, PathTypeOK
<1>3. Grows
  BY <1>1 DEF Grows
<1>4. w \in TrueClosures /\ work' \in Seq(TrueClosures')
  BY <1>1, <1>2, <1>3, QueuesKept
<1>5. /\ jobs \in Seq(TrueJobs') /\ jobs \o queued \in Seq(TrueJobs')
  BY <1>2, <1>3, QueuesKept
<1>6. queued \in Seq(TrueJobs')
  BY <1>2, <1>3, QueuesKept
<1>7. DOMAIN wire' = Clients /\ \A c \in Clients : wire'[c] \in {wire[c], << >>}
  BY <1>1, <1>2
<1>8. CASE w.fn = "reply" /\ Answer(w.client, w.response) /\ UNCHANGED <<queued, jobs>>
  <2>1. w.client \in Clients /\ (w.response = "RESP_SUCCESS" => Settled(w.client))
    BY <1>4, <1>8 DEF TrueClosures
  <2>2. DOMAIN outcome' = Clients
    BY <1>2, <1>8 DEF Answer
  <2>3. ASSUME NEW c \in Clients, outcome'[c] = "success"
        PROVE  outcome[c] = "success" \/ Settled(c)'
    <3>1. CASE c = w.client
      <4>1. outcome[c] = "success" \/ w.response = "RESP_SUCCESS"
        BY <1>2, <1>8, <2>1, <2>3, <3>1 DEF Answer
      <4> QED
        BY <1>3, <2>1, <3>1, <4>1, TruthKept
    <3>2. CASE c # w.client
      BY <1>2, <1>8, <2>3, <3>2 DEF Answer
    <3> QED
      BY <3>1, <3>2
  <2> QED
    BY <1>1, <1>2, <1>4, <1>5, <1>6, <1>7, <1>8, <2>2, <2>3, MainKeeps
<1>9. CASE UNCHANGED <<outcome, queued, jobs>>
  BY <1>1, <1>2, <1>4, <1>5, <1>6, <1>7, <1>9, MainKeeps
<1>10. CASE UNCHANGED outcome /\ queued' = << >> /\ jobs' \in {jobs, jobs \o queued}
  <2>1. << >> \in Seq(TrueJobs') /\ DOMAIN << >> = {}
    OBVIOUS
  <2>2. jobs' \in Seq(TrueJobs') /\ queued' \in Seq(TrueJobs')
    BY <1>5, <1>10, <2>1
  <2>3. \A i \in DOMAIN queued' : queued'[i].kind = "command"
    BY <1>10, <2>1
  <2> QED
    BY <1>1, <1>2, <1>4, <1>7, <1>10, <2>2, <2>3, MainKeeps
<1> QED
  BY <1>8, <1>9, <1>10 DEF RunClosure

(* A client that does not wait any longer knows no success.                *)
LEMMA TimeoutKeeps ==
  ASSUME PathInv, NEW c \in Clients, ResponseTimeout(c)
  PROVE  PathInv'
<1>1. /\ outcome' = [outcome EXCEPT ![c] = "timedOut"]
      /\ UNCHANGED <<said, wire, accepted, queued, jobs, work, worker, calls>>
  BY DEF ResponseTimeout, mainVars, workerVars
<1>2. /\ jobs \in Seq(TrueJobs) /\ queued \in Seq(TrueJobs) /\ work \in Seq(TrueClosures)
      /\ DOMAIN wire = Clients /\ DOMAIN outcome = Clients
      /\ \A i \in DOMAIN queued : queued[i].kind = "command"
  BY DEF PathInv, PathTypeOK
<1>3. Grows
  BY <1>1 DEF Grows
<1>4. jobs' \in Seq(TrueJobs') /\ work' \in Seq(TrueClosures')
  BY <1>1, <1>2, <1>3, QueuesKept
<1>5. queued' \in Seq(TrueJobs')
  BY <1>1, <1>2, <1>3, QueuesKept
<1>6. /\ DOMAIN outcome' = Clients
      /\ \A d \in Clients : outcome'[d] = "success" => outcome[d] = "success"
  BY <1>1, <1>2
<1> QED
  BY <1>1, <1>2, <1>4, <1>5, <1>6, MainKeeps

-----------------------------------------------------------------------------
(* The worker. *)

(* The calls of a plan are calls.                                          *)
LEMMA PlanIsCalls ==
  ASSUME NEW m \in AnyMessage, m.type \in AdapterTypes, Vetted(m)
  PROVE  Plan(m) \cup {FirstCall(m), Succeeded, Failed} \subseteq AnyCall
<1>1. m.deviceId \in Int /\ m.data \in Seq(Int)
  BY DEF AnyMessage
<1>2. m.type \in {"CMD_CHANGE_SOURCE", "CMD_KEY"} => m.data[1] \in Int
  <2>1. m.data # << >> => m.data[1] \in Int
    BY <1>1, ElementOfSeq, EmptySeq
  <2> QED
    BY <2>1 DEF Vetted
<1>3. Succeeded \in AnyCall /\ Failed \in AnyCall
  BY DEF Succeeded, Failed, CallTo, AnyCall
<1>4. ASSUME NEW call \in Plan(m) PROVE call \in AnyCall
  BY <1>1, <1>2, PlanIs DEF AnyCall, CallTo, Press, Release, TV, AudioSystem
<1> QED
  BY <1>3, <1>4, PlanBegins

(* A step of the worker that makes no call.                                *)
LEMMA QuietStepKeeps ==
  ASSUME PathInv, UNCHANGED <<said, wire, outcome, queued, accepted, calls>>,
         jobs' = jobs \/ (jobs # << >> /\ jobs' = Tail(jobs)),
         work' \in Seq(TrueClosures'), WorkerInv',
         worker' = [pc |-> worker'.pc, job |-> worker'.job, call |-> worker'.call,
                    attempt |-> worker'.attempt, wait |-> worker'.wait],
         worker'.job \in Jobs, worker'.call \in AnyCall
  PROVE  PathInv'
<1>1. Grows
  BY DEF Grows
<1>2. PathTypeOK'
  BY DEF PathInv, PathTypeOK, Jobs, AnyMessage, MessageType, AnyCall, Made, JobKinds, None
<1>3. OnlyWhatWasSaid' /\ WireInv'
  BY <1>1, WordsKept DEF PathInv
<1>4. jobs' \in Seq(TrueJobs') /\ queued' \in Seq(TrueJobs')
  BY <1>1, QueuesKept DEF PathInv
<1>5. \A i \in DOMAIN queued' : queued'[i].kind = "command"
  BY DEF PathInv
<1> QED
  BY <1>2, <1>3, <1>4, <1>5 DEF PathInv

(* The end of a command, with a response that is true.                     *)
LEMMA FinishKeeps ==
  ASSUME PathInv, UNCHANGED <<said, wire, outcome, queued, accepted, calls>>,
         jobs' = jobs \/ (jobs # << >> /\ jobs' = Tail(jobs)),
         NEW job \in TrueJobs, job.kind = "command",
         NEW response \in {"RESP_SUCCESS", "RESP_ERROR"},
         response = "RESP_SUCCESS" => Settled(job.client),
         Finish(job, response)
  PROVE  PathInv'
<1> DEFINE w == [fn |-> "reply", client |-> job.client, response |-> response]
<1>1. Grows
  BY DEF Grows
<1>2. worker' = Idle /\ (work' = work \/ work' = Append(work, w))
  BY DEF Finish, Post
<1>3. job.client \in Clients
  BY DEF TrueJobs, CommandJob
<1>4. w \in TrueClosures
  BY <1>3 DEF TrueClosures, Closures
<1>5. w \in TrueClosures'
  BY <1>1, <1>4, TruthKept
<1> HIDE DEF w
<1>6. work' \in Seq(TrueClosures')
  BY <1>1, <1>2, <1>5, QueuesKept DEF PathInv
<1>7. worker'.pc = "idle" /\ worker'.job = Nobody /\ worker'.call = Failed
  BY <1>2 DEF Idle
<1>8. Nobody \in Jobs
  <2>1. << >> \in Seq(Int)
    OBVIOUS
  <2>2. NoMessage \in AnyMessage
    BY <2>1 DEF NoMessage, Message, AnyMessage
  <2> QED
    BY <2>2 DEF Nobody, Jobs, JobKinds, None
<1>9. Failed \in AnyCall
  BY DEF Failed, CallTo, AnyCall
<1>10. worker' = [pc |-> worker'.pc, job |-> worker'.job, call |-> worker'.call,
                  attempt |-> worker'.attempt, wait |-> worker'.wait]
  BY <1>2 DEF Idle
<1>11. WorkerInv'
  BY <1>7 DEF WorkerInv
<1> QED
  BY <1>6, <1>7, <1>8, <1>9, <1>10, <1>11, QuietStepKeeps

(* What the worker is busy with.                                           *)
LEMMA BusyWith ==
  ASSUME PathInv, worker.pc # "idle"
  PROVE  /\ worker.job \in TrueJobs /\ worker.job.kind = "command"
         /\ worker.job.client \in Clients
         /\ worker.job.msg \in AnyMessage /\ worker.job.msg.type \in AdapterTypes
         /\ Vetted(worker.job.msg) /\ SentBy(worker.job.client, worker.job.msg)
         /\ worker.pc = "call" =>
              /\ worker.call \in Plan(worker.job.msg) \cup {Succeeded, Failed}
              /\ worker.call = Succeeded \/ worker.call.op = "release" => Settled(worker.job.client)
<1>1. /\ worker.job \in TrueJobs /\ worker.job.kind = "command" /\ Vetted(worker.job.msg)
      /\ worker.pc = "call" =>
           /\ worker.call \in Plan(worker.job.msg) \cup {Succeeded, Failed}
           /\ worker.call = Succeeded \/ worker.call.op = "release" => Settled(worker.job.client)
  BY DEF PathInv, WorkerInv
<1>2. CommandJob(worker.job) /\ worker.job \in Jobs
  BY <1>1 DEF TrueJobs
<1> QED
  BY <1>1, <1>2 DEF CommandJob, Jobs

(* The worker goes on with its job, at a call it may have come to.         *)
LEMMA BusyStepKeeps ==
  ASSUME PathInv, UNCHANGED <<said, wire, outcome, queued, accepted, calls, work>>,
         jobs' = jobs \/ (jobs # << >> /\ jobs' = Tail(jobs)),
         NEW job \in TrueJobs, job.kind = "command", Vetted(job.msg),
         NEW pc \in {"reserve", "call", "backoff"}, NEW call \in AnyCall,
         NEW attempt, NEW wait,
         worker' = [pc |-> pc, job |-> job, call |-> call, attempt |-> attempt, wait |-> wait],
         pc = "call" =>
           /\ call \in Plan(job.msg) \cup {Succeeded, Failed}
           /\ call = Succeeded \/ call.op = "release" => Settled(job.client)
  PROVE  PathInv'
<1>1. Grows
  BY DEF Grows
<1>2. work' \in Seq(TrueClosures')
  BY <1>1, QueuesKept DEF PathInv
<1>3. worker'.pc = pc /\ worker'.job = job /\ worker'.call = call
  OBVIOUS
<1>4. job \in Jobs /\ job.client \in Clients
  BY DEF TrueJobs, CommandJob
<1>5. PICK c \in Clients : c = job.client
  BY <1>4
<1>6. Settled(job.client) => Settled(c)'
  BY <1>1, <1>5, TruthKept
<1>7. job \in TrueJobs'
  BY <1>1, TruthKept
<1>8. WorkerInv'
  <2>1. worker'.job \in TrueJobs' /\ worker'.job.kind = "command" /\ Vetted(worker'.job.msg)
    BY <1>3, <1>7
  <2>2. Settled(c)' => Settled(worker.job.client)'
    BY <1>3, <1>5 DEF Settled, Acknowledged
  <2>3. worker'.pc = "call" =>
           /\ worker'.call \in Plan(worker'.job.msg) \cup {Succeeded, Failed}
           /\ worker'.call = Succeeded \/ worker'.call.op = "release" => Settled(worker.job.client)'
    BY <1>3, <1>6, <2>2
  <2> QED
    BY <2>1, <2>3 DEF WorkerInv
<1> QED
  BY <1>2, <1>3, <1>4, <1>8, QuietStepKeeps

(* A call returns: it is one its client's words allow, and the attempt     *)
(* is at its release or its success only when libcec acknowledged it.      *)
LEMMA CalledKeeps ==
  ASSUME PathInv, Calling, NEW ok \in BOOLEAN, NEW delivered \in BOOLEAN, Called(ok, delivered),
         UNCHANGED <<said, wire, outcome, queued, accepted, jobs, work>>
  PROVE  PathInv'
<1>1. worker.pc = "call" /\ worker.pc # "idle" /\ worker.call \notin {Succeeded, Failed}
  BY DEF Calling
<1>2. PICK c \in Clients, m \in AnyMessage, call \in AnyCall :
        c = worker.job.client /\ m = worker.job.msg /\ call = worker.call
  BY <1>1, BusyWith DEF PathInv, PathTypeOK
<1>3. /\ worker.job \in TrueJobs /\ worker.job.kind = "command" /\ call \in Plan(m)
      /\ m.type \in AdapterTypes /\ Vetted(m) /\ SentBy(c, m)
      /\ call.op = "release" => Settled(c)
  BY <1>1, <1>2, BusyWith
<1> DEFINE made == [call |-> call, ok |-> ok, delivered |-> delivered]
           next == NextCall(m, call, ok)
<1>4. /\ calls' \in [Clients -> Seq(Made)]
      /\ \A d \in Clients \ {c} : calls'[d] = calls[d]
      /\ \A i \in DOMAIN calls[c] : i \in DOMAIN calls'[c] /\ calls'[c][i] = calls[c][i]
      /\ Len(calls'[c]) \in DOMAIN calls'[c]
      /\ calls'[c][Len(calls'[c])] = made
      /\ \A i \in DOMAIN calls'[c] : i \in DOMAIN calls[c] \/ i = Len(calls'[c])
  BY <1>2, CallsGrow DEF PathInv
<1>5. Grows
  BY <1>4 DEF Grows
<1>6. \/ Auxiliary(call)
      \/ IF said[c].name = "bytes" THEN Vettable(call) ELSE call \in Doable(said[c])
  <2>1. CASE said[c].name = "bytes"
    BY <1>3, <2>1, PlanIsVettable
  <2>2. CASE said[c].name # "bytes"
    <3>1. said[c] \in CommandLine /\ m = parse(said[c]) /\ m # NoMessage
      BY <1>3, <2>2 DEF SentBy
    <3> QED
      BY <1>3, <2>2, <3>1, PlanIsDoable
  <2> QED
    BY <2>1, <2>2
<1>7. OnlyWhatWasSaid'
  <2> SUFFICES ASSUME NEW d \in Clients, NEW i \in DOMAIN calls'[d]
               PROVE  \/ Auxiliary(calls'[d][i].call)
                      \/ IF said'[d].name = "bytes" THEN Vettable(calls'[d][i].call)
                         ELSE calls'[d][i].call \in Doable(said'[d])
    BY Zenon DEF OnlyWhatWasSaid
  <2>1. said'[d] = said[d]
    OBVIOUS
  <2>2. CASE d = c /\ i = Len(calls'[c])
    <3>1. calls'[d][i].call = call
      BY <1>4, <2>2
    <3> QED
      BY <1>6, <2>1, <2>2, <3>1, Zenon
  <2>3. CASE i \in DOMAIN calls[d] /\ calls'[d][i] = calls[d][i]
    <3>1. \/ Auxiliary(calls[d][i].call)
          \/ IF said[d].name = "bytes" THEN Vettable(calls[d][i].call)
             ELSE calls[d][i].call \in Doable(said[d])
      BY <2>3 DEF PathInv, OnlyWhatWasSaid
    <3> QED
      BY <2>1, <2>3, <3>1, Zenon
  <2> QED
    BY <1>4, <2>2, <2>3
<1>8. said[c].name # None
  BY <1>3, <1>5, TruthKept
<1>9. WireInv'
  <2> SUFFICES ASSUME NEW d \in Clients
               PROVE  /\ wire'[d] # << >> =>
                           \/ said'[d].name = "bytes" /\ wire'[d] \in Seq(0 .. 255)
                           \/ /\ said'[d] \in CommandLine /\ parse(said'[d]) # NoMessage
                              /\ wire'[d] = serialize(parse(said'[d]))
                      /\ said'[d].name = None => calls'[d] = << >>
                      /\ outcome'[d] = "success" => Settled(d)'
    BY Zenon DEF WireInv
  <2>1. /\ wire[d] # << >> =>
                           \/ said[d].name = "bytes" /\ wire[d] \in Seq(0 .. 255)
                           \/ /\ said[d] \in CommandLine /\ parse(said[d]) # NoMessage
                              /\ wire[d] = serialize(parse(said[d]))
        /\ said[d].name = None => calls[d] = << >>
        /\ outcome[d] = "success" => Settled(d)
    BY DEF PathInv, WireInv
  <2>2. said'[d] = said[d] /\ wire'[d] = wire[d] /\ outcome'[d] = outcome[d]
    OBVIOUS
  <2>3. outcome'[d] = "success" => Settled(d)'
    BY <1>5, <2>1, <2>2, TruthKept
  <2>4. said'[d].name = None => calls'[d] = << >>
    BY <1>4, <1>8, <2>1, <2>2
  <2> QED
    BY <2>1, <2>2, <2>3, <2>4, Zenon
<1>10. /\ next \in Plan(m) \cup {Succeeded, Failed} /\ next \in AnyCall
       /\ (next = Succeeded \/ next.op = "release") /\ call.op # "release"
              => ok /\ ~Auxiliary(call)
  BY <1>3, PlanGoesOn, PlanIsCalls
<1>11. (next = Succeeded \/ next.op = "release") => Settled(c)'
  <2>1. CASE call.op = "release"
    BY <1>3, <1>5, <2>1, TruthKept
  <2>2. CASE ok /\ ~Auxiliary(call)
    <3>1. Doable(said[c]) = {} \/ call \in Doable(said[c])
      BY <1>6, <2>2, BytesMeanNothing
    <3>2. said'[c] = said[c]
      OBVIOUS
    <3>3. Doable(said[c])' = Doable(said[c])
      BY <3>2 DEF Doable, CallsFor, AddressedDevice, TypedDevice, InputKeys
    <3>4. calls'[c][Len(calls'[c])].ok /\ calls'[c][Len(calls'[c])].call = call
      BY <1>4, <2>2
    <3>5. Doable(said[c])' = {} \/ Acknowledged(c)'
      BY <1>4, <3>1, <3>3, <3>4 DEF Acknowledged
    <3> QED
      BY <1>8, <3>2, <3>5 DEF Settled
  <2> QED
    BY <1>10, <2>1, <2>2
<1> HIDE DEF next
<1>12. /\ worker' = [pc |-> "call", job |-> worker.job, call |-> next,
                     attempt |-> worker.attempt, wait |-> worker.wait]
  <2>1. worker' = [worker EXCEPT !.call = next]
    BY <1>2 DEF Called, next
  <2> QED
    BY <1>1, <2>1 DEF PathInv, PathTypeOK
<1>13. worker'.pc = "call" /\ worker'.job = worker.job /\ worker'.call = next
  BY <1>12
<1>14. PathTypeOK'
  <2>1. worker' = [pc |-> worker'.pc, job |-> worker'.job, call |-> worker'.call,
                   attempt |-> worker'.attempt, wait |-> worker'.wait]
    BY <1>12
  <2> QED
    BY <1>4, <1>10, <1>13, <2>1
       DEF PathInv, PathTypeOK, Jobs, AnyMessage, MessageType, AnyCall, Made, JobKinds, None
<1>15. WorkerInv'
  <2>1. worker'.job \in TrueJobs' /\ worker'.job.kind = "command" /\ Vetted(worker'.job.msg)
    BY <1>2, <1>3, <1>5, <1>13, TruthKept
  <2>2. Settled(c)' => Settled(worker.job.client)'
    BY <1>2, <1>13 DEF Settled, Acknowledged
  <2>3. /\ worker'.call \in Plan(worker'.job.msg) \cup {Succeeded, Failed}
        /\ worker'.call = Succeeded \/ worker'.call.op = "release" => Settled(worker.job.client)'
    BY <1>2, <1>10, <1>11, <1>13, <2>2
  <2> QED
    BY <2>1, <2>3 DEF WorkerInv
<1>16. /\ jobs' \in Seq(TrueJobs') /\ queued' \in Seq(TrueJobs') /\ work' \in Seq(TrueClosures')
       /\ \A i \in DOMAIN queued' : queued'[i].kind = "command"
  BY <1>5, QueuesKept DEF PathInv
<1> QED
  BY <1>7, <1>9, <1>14, <1>15, <1>16 DEF PathInv

(* executeOnAdapter.                                                       *)
LEMMA TakeCommandKeeps ==
  ASSUME PathInv, TakeCommand
  PROVE  PathInv'
<1> DEFINE job == Head(jobs)
<1>1. /\ jobs # << >> /\ jobs' = Tail(jobs) /\ job.kind = "command" /\ executeOnAdapter(job)
      /\ UNCHANGED <<said, wire, outcome, queued, accepted, calls>>
  BY DEF TakeCommand, workerRest, clientVars
<1>2. job \in TrueJobs
  BY <1>1, HeadTailProperties DEF PathInv
<1>3. job.msg \in AnyMessage /\ job.msg.type \in AdapterTypes
  BY <1>1, <1>2 DEF TrueJobs, CommandJob, Jobs
<1> HIDE DEF job
<1>4. CASE Finish(job, "RESP_ERROR")
  BY <1>1, <1>2, <1>4, FinishKeeps
<1>5. CASE worker' = Begin(job) /\ UNCHANGED work /\ Vetted(job.msg)
  <2>1. Failed \in AnyCall
    BY DEF Failed, CallTo, AnyCall
  <2> QED
    BY <1>1, <1>2, <1>5, <2>1, BusyStepKeeps DEF Begin
<1>6. CASE /\ job.msg.type = "CMD_RESTART_ADAPTER" /\ UNCHANGED work
           /\ worker' = [Begin(job) EXCEPT !.pc = "call", !.call = FirstCall(job.msg)]
  <2>1. Vetted(job.msg)
    BY <1>6 DEF Vetted
  <2>2. FirstCall(job.msg) \in AnyCall
    BY <1>3, <2>1, PlanIsCalls
  <2>3. worker' = [pc |-> "call", job |-> job, call |-> FirstCall(job.msg),
                   attempt |-> 0, wait |-> 0]
    BY <1>6 DEF Begin
  <2>4. /\ FirstCall(job.msg) \in Plan(job.msg) \cup {Succeeded, Failed}
        /\ FirstCall(job.msg) # Succeeded /\ FirstCall(job.msg).op # "release"
    BY <1>3, PlanBegins
  <2>5. UNCHANGED work
    BY <1>6
  <2> QED
    BY <1>1, <1>2, <2>1, <2>2, <2>3, <2>4, <2>5, BusyStepKeeps
<1> QED
  BY <1>1, <1>4, <1>5, <1>6 DEF executeOnAdapter

(* suspendAsync, resumeAsync and reconnectAsync on the worker.             *)
LEMMA TakeLifecycleJobKeeps ==
  ASSUME PathInv, TakeLifecycleJob
  PROVE  PathInv'
<1>1. /\ jobs # << >> /\ jobs' = Tail(jobs)
      /\ UNCHANGED <<said, wire, outcome, queued, accepted, calls, worker>>
  BY DEF TakeLifecycleJob, workerRest, clientVars
<1>2. Grows
  BY <1>1 DEF Grows
<1>3. \/ work' = work
      \/ \E fn \in {"suspendCompleted", "resumeWorkerComplete"},
            response \in {"RESP_SUCCESS", "RESP_ERROR"} :
              work' = Append(work, [fn |-> fn, client |-> None, response |-> response])
  BY DEF TakeLifecycleJob, Post
<1>4. \A fn \in {"suspendCompleted", "resumeWorkerComplete"},
         response \in {"RESP_SUCCESS", "RESP_ERROR"} :
           [fn |-> fn, client |-> None, response |-> response] \in TrueClosures
  BY DEF TrueClosures, Closures
<1>5. work' \in Seq(TrueClosures')
  BY <1>2, <1>3, <1>4, QueuesKept, TruthKept DEF PathInv
<1>6. WorkerInv'
  BY <1>1, <1>2, WorkerKept DEF PathInv
<1> QED
  BY <1>1, <1>5, <1>6, QuietStepKeeps DEF PathInv, PathTypeOK

(* The worker reserves, waits, backs off and begins again.                 *)
LEMMA ThrottlingKeeps ==
  ASSUME PathInv, ReserveAttempt \/ AttemptFails \/ Retry \/ Tick
  PROVE  PathInv'
<1>1. UNCHANGED <<said, wire, outcome, queued, accepted, calls, work, jobs>>
  BY DEF ReserveAttempt, AttemptFails, Retry, Tick, workerRest, clientVars
<1>2. /\ worker = [pc |-> worker.pc, job |-> worker.job, call |-> worker.call,
                   attempt |-> worker.attempt, wait |-> worker.wait]
      /\ worker.call \in AnyCall /\ worker.job \in Jobs
  BY DEF PathInv, PathTypeOK
<1>3. Grows
  BY <1>1 DEF Grows
<1>4. CASE ReserveAttempt
  <2>1. worker.pc # "idle" /\ worker' = [pc |-> "call", job |-> worker.job,
          call |-> FirstCall(worker.job.msg), attempt |-> worker.attempt, wait |-> untilFree]
    BY <1>2, <1>4 DEF ReserveAttempt
  <2>2. FirstCall(worker.job.msg) \in AnyCall
    BY <2>1, BusyWith, PlanIsCalls
  <2>3. /\ FirstCall(worker.job.msg) \in Plan(worker.job.msg) \cup {Succeeded, Failed}
        /\ FirstCall(worker.job.msg) # Succeeded /\ FirstCall(worker.job.msg).op # "release"
    BY <2>1, BusyWith, PlanBegins
  <2> QED
    BY <1>1, <2>1, <2>2, <2>3, BusyWith, BusyStepKeeps
<1>5. CASE AttemptFails
  <2>1. worker.pc # "idle" /\ worker' = [pc |-> "backoff", job |-> worker.job,
          call |-> worker.call, attempt |-> worker.attempt, wait |-> RetryDelay(worker.attempt)]
    BY <1>2, <1>5 DEF AttemptFails
  <2> QED
    BY <1>1, <1>2, <2>1, BusyWith, BusyStepKeeps
<1>6. CASE Retry
  <2>1. worker.pc # "idle" /\ worker' = [pc |-> "reserve", job |-> worker.job,
          call |-> worker.call, attempt |-> worker.attempt + 1, wait |-> worker.wait]
    BY <1>2, <1>6 DEF Retry
  <2> QED
    BY <1>1, <1>2, <2>1, BusyWith, BusyStepKeeps
<1>7. CASE Tick
  <2> DEFINE wait == Max({worker.wait - 1, 0})
  <2>1. worker' = [worker EXCEPT !.wait = wait]
    BY <1>7 DEF Tick
  <2> HIDE DEF wait
  <2>2. worker' = [pc |-> worker.pc, job |-> worker.job,
                   call |-> worker.call, attempt |-> worker.attempt, wait |-> wait]
    BY <1>2, <2>1
  <2>3. /\ worker'.pc = worker.pc /\ worker'.job = worker.job /\ worker'.call = worker.call
        /\ worker'.attempt = worker.attempt /\ worker'.wait = wait
    BY <2>2
  <2>4. WorkerInv'
    BY <1>3, <2>3, WorkerKept DEF PathInv
  <2>5. work' \in Seq(TrueClosures')
    BY <1>1, <1>3, QueuesKept DEF PathInv
  <2> QED
    BY <1>1, <1>2, <2>2, <2>3, <2>4, <2>5, QuietStepKeeps
<1> QED
  BY <1>4, <1>5, <1>6, <1>7

(* The ends of a command: an exception, the last retry, the restart of the *)
(* adapter, and success, which the worker knows to be true.                *)
LEMMA EndingKeeps ==
  ASSUME PathInv, CallThrows \/ GiveUp \/ EndOfRestart \/ CommandSucceeded
  PROVE  PathInv'
<1>1. /\ UNCHANGED <<said, wire, outcome, queued, accepted, calls, jobs>>
      /\ worker.pc # "idle"
  BY DEF CallThrows, GiveUp, EndOfRestart, CommandSucceeded, workerRest, clientVars, Calling
<1>2. CASE Finish(worker.job, "RESP_ERROR")
  BY <1>1, <1>2, BusyWith, FinishKeeps
<1>3. CASE worker.pc = "call" /\ worker.call = Succeeded /\ Finish(worker.job, "RESP_SUCCESS")
  BY <1>1, <1>3, BusyWith, FinishKeeps
<1> QED
  BY <1>2, <1>3 DEF CallThrows, GiveUp, EndOfRestart, CommandSucceeded

-----------------------------------------------------------------------------
(* The theorems. *)

(* Before anybody has spoken.                                              *)
LEMMA PathStarts ==
  ASSUME Init
  PROVE  PathInv /\ ThrottleInv
<1>1. DOMAIN << >> = {} /\ << >> \in Seq(TrueJobs) /\ << >> \in Seq(TrueClosures)
      /\ << >> \in Seq(Made) /\ << >> \in Seq(Int)
  OBVIOUS
<1>2. PathTypeOK
  <2>1. NoMessage \in AnyMessage
    BY <1>1 DEF NoMessage, Message, AnyMessage
  <2>2. Nobody \in Jobs
    BY <2>1 DEF Nobody, Jobs, JobKinds, None
  <2>3. Failed \in AnyCall
    BY DEF Failed, CallTo, AnyCall
  <2>4. worker.job = Nobody /\ worker.call = Failed
    BY DEF Init, Idle
  <2>5. worker = [pc |-> worker.pc, job |-> worker.job, call |-> worker.call,
                  attempt |-> worker.attempt, wait |-> worker.wait]
    BY DEF Init, Idle
  <2>6. calls \in [Clients -> Seq(Made)]
    BY <1>1 DEF Init
  <2> QED
    BY <2>2, <2>3, <2>4, <2>5, <2>6 DEF Init, PathTypeOK
<1>3. WireInv
  BY DEF Init, WireInv, None
<1>4. WorkerInv
  BY DEF Init, Idle, WorkerInv
<1>5. OnlyWhatWasSaid
  <2>1. \A c \in Clients : calls[c] = << >>
    BY DEF Init
  <2> QED
    BY <1>1, <2>1, Zenon DEF OnlyWhatWasSaid
<1>6. jobs = << >> /\ queued = << >> /\ work = << >>
  BY DEF Init
<1>7. ThrottleInv
  BY LongestIs DEF Init, ThrottlerInit, ThrottleInv
<1> QED
  BY <1>1, <1>2, <1>3, <1>4, <1>5, <1>6, <1>7 DEF PathInv

(* Every step keeps PathInv.                                               *)
LEMMA PathKept ==
  ASSUME PathInv, [Next]_vars
  PROVE  PathInv'
<1>1. CASE \E c \in Clients : ClientStep(c)
  BY <1>1, ClientSpeaks, TimeoutKeeps, HandleRequestKeeps DEF ClientStep
<1>2. CASE SuspendAsync \/ ResumeAsync \/ ReconnectAsync
  BY <1>2, LifecycleKeeps DEF SuspendAsync, ResumeAsync, ReconnectAsync
<1>3. CASE RunClosure
  BY <1>3, RunClosureKeeps
<1>4. CASE CallNotConnected \/ CallLibcec \/ Reopen
  <2>1. /\ Calling /\ \E ok, delivered \in BOOLEAN : Called(ok, delivered)
        /\ UNCHANGED <<said, wire, outcome, queued, accepted, jobs, work>>
    BY <1>4 DEF CallNotConnected, CallLibcec, Reopen, workerRest, clientVars
  <2> QED
    BY <2>1, CalledKeeps
<1>5. CASE WorkerStep
  BY <1>4, <1>5, TakeCommandKeeps, TakeLifecycleJobKeeps, ThrottlingKeeps, EndingKeeps
     DEF WorkerStep
<1>6. CASE UNCHANGED <<said, wire, outcome, queued, accepted, calls, jobs, work, worker>>
  <2>1. Grows
    BY <1>6 DEF Grows
  <2>2. WorkerInv'
    BY <1>6, <2>1, WorkerKept DEF PathInv
  <2>3. work' \in Seq(TrueClosures')
    BY <1>6, <2>1, QueuesKept DEF PathInv
  <2> QED
    BY <1>6, <2>2, <2>3, QuietStepKeeps DEF PathInv, PathTypeOK
<1>7. CASE ConnectionLost \/ UNCHANGED vars
  BY <1>6, <1>7 DEF ConnectionLost, workerRest, vars, clientVars, mainVars, workerVars
<1> QED
  BY <1>1, <1>2, <1>3, <1>5, <1>7, ThrottlingKeeps DEF Next

(* PathInv and ThrottleInv hold in every state that can be reached.        *)
LEMMA PathHolds == Spec => [](PathInv /\ ThrottleInv)
<1>1. Init => PathInv /\ ThrottleInv
  BY PathStarts
<1>2. (PathInv /\ ThrottleInv) /\ [Next]_vars => (PathInv /\ ThrottleInv)'
  BY PathKept, ThrottleKept
<1> QED
  BY <1>1, <1>2, PTL DEF Spec

(* From the words typed to the bus, through message, bytes, dispatch table,*)
(* queue, replay and retries: every call that the daemon makes for a       *)
(* client is one its words mean, made to the device typed for power, key   *)
(* and restart and to AddressedDevice for volume and source; and bytes     *)
(* that another program wrote cause only vetted calls, whatever they are   *)
(* (handleKey and handleChangeSource in command_dispatch, operations.cpp). *)
THEOREM BusCarriesWhatWasSaid == Spec => []OnlyWhatWasSaid
<1>1. PathInv /\ ThrottleInv => OnlyWhatWasSaid
  BY DEF PathInv
<1> QED
  BY <1>1, PathHolds, PTL

(* A client exits with success only when libcec acknowledged a call that   *)
(* does what it typed, on the device of Doable, or when its command waits  *)
(* for the resume (executeOnAdapter's response, renderResponse).           *)
THEOREM SuccessMeansDone == Spec => []SuccessIsTrue
<1>1. PathInv => SuccessIsTrue
  <2> SUFFICES ASSUME PathInv, NEW c \in Clients, outcome[c] = "success", c \notin accepted,
                      Doable(said[c]) # {}
               PROVE  \E i \in DOMAIN calls[c] :
                        calls[c][i].ok /\ calls[c][i].call \in Doable(said[c])
    BY Zenon DEF SuccessIsTrue
  <2>1. Settled(c)
    BY DEF PathInv, WireInv
  <2> QED
    BY <2>1 DEF Settled, Acknowledged
<1> QED
  BY <1>1, PathHolds, PTL

(* Two attempts are never closer than the interval of the earlier one, and *)
(* no number of failures takes the interval out of its configured range    *)
(* (CommandThrottler::reserveSlotAndSleep, currentInterval).               *)
THEOREM AttemptsAreSpaced == Spec => SlotsSpaced
<1>1. ASSUME PathInv, ThrottleInv, [Next]_vars, worker.pc = "reserve", worker'.pc = "call"
      PROVE  /\ slot.ago + worker'.wait >= slot.interval
             /\ slot'.interval \in baseInterval .. LongestInterval
  <2>1. worker = [pc |-> worker.pc, job |-> worker.job, call |-> worker.call,
                  attempt |-> worker.attempt, wait |-> worker.wait]
    BY <1>1 DEF PathInv, PathTypeOK
  <2>2. worker' # worker
    BY <1>1
  <2>3. ~Tick
    <3> SUFFICES ASSUME Tick PROVE FALSE
      OBVIOUS
    <3>1. worker'.pc = worker.pc
      BY <2>1 DEF Tick
    <3> QED
      BY <1>1, <3>1
  <2>4. ReserveAttempt
    BY <1>1, <2>2, <2>3
       DEF Next, vars, ClientStep, RunClient, SendBytes, ResponseTimeout, HandleRequest,
           SuspendAsync, ResumeAsync, ReconnectAsync, SubmitLifecycle, RunClosure, WorkerStep,
           TakeCommand, TakeLifecycleJob, CallNotConnected, CallLibcec,
           CallThrows, Reopen, EndOfRestart, CommandSucceeded, AttemptFails, Retry, GiveUp,
           ConnectionLost, Calling, mainVars, workerVars
  <2>5. worker'.wait = untilFree
    BY <2>1, <2>4 DEF ReserveAttempt
  <2>6. slot'.interval = currentInterval(failures)
    BY <2>4 DEF ReserveAttempt, ReserveSlot
  <2> QED
    BY <1>1, <2>5, <2>6, IntervalBounded DEF ThrottleInv
<1>2. PathInv /\ ThrottleInv /\ [Next]_vars =>
        [worker.pc = "reserve" /\ worker'.pc = "call" =>
           /\ slot.ago + worker'.wait >= slot.interval
           /\ slot'.interval \in baseInterval .. LongestInterval]_vars
  BY <1>1
<1> QED
  BY <1>2, PathHolds, PTL DEF Spec, SlotsSpaced

-----------------------------------------------------------------------------
(* A command takes effect once.  A client sends one request, and the       *)
(* command in it is in one place at a time: on the wire, in the worker's   *)
(* queue, in the suspend queue, with the worker, or answered.              *)

Of(j, c) == j.kind = "command" /\ j.client = c
Holds(s, c) == \E i \in DOMAIN s : Of(s[i], c)
Single(s, c) == \A i, j \in DOMAIN s : Of(s[i], c) /\ Of(s[j], c) => i = j

Refusal(w, c) == w.fn = "reply" /\ w.client = c /\ w.response = "RESP_ERROR"
Refuses(s, c) == \E i \in DOMAIN s : Refusal(s[i], c)

Plain(c) == said[c].name \in {"power", "volume"}
Waits(c) == said[c].name = None \/ wire[c] # << >>
OnWorker(c) == worker.pc # "idle" /\ worker.job.client = c
Refused(c) == outcome[c] = "refused" \/ Refuses(work, c)

Acked == worker.pc = "call" /\ worker.call = Succeeded
NoOk(s) == \A i \in DOMAIN s : ~s[i].ok
OneOk(s) == \A i, j \in DOMAIN s : s[i].ok /\ s[j].ok => i = j
OkIsDelivered(s) == \A i \in DOMAIN s : s[i].ok => s[i].delivered

(* Nothing was called for a command before the worker took it, and a power *)
(* or volume command is not repeated once libcec has acknowledged it.      *)
ClientOnce(c) ==
  /\ said[c].name = None => wire[c] = << >>
  /\ Waits(c) => ~Holds(jobs, c) /\ ~Holds(queued, c) /\ ~OnWorker(c) /\ ~Refused(c)
  /\ Holds(jobs, c) => ~Holds(queued, c) /\ ~OnWorker(c) /\ ~Refused(c)
  /\ Holds(queued, c) => ~OnWorker(c) /\ ~Refused(c)
  /\ OnWorker(c) => ~Refused(c)
  /\ Single(jobs, c) /\ Single(queued, c)
  /\ Waits(c) \/ Holds(jobs, c) \/ Holds(queued, c) => calls[c] = << >>
  /\ OkIsDelivered(calls[c])
  /\ Plain(c) => /\ OneOk(calls[c])
                 /\ Refused(c) => NoOk(calls[c])
                 /\ OnWorker(c) /\ ~Acked => NoOk(calls[c])

OnceInv == \A c \in Clients : ClientOnce(c)

(* No calls, no acknowledgement.                                           *)
LEMMA NoCalls == OneOk(<< >>) /\ NoOk(<< >>) /\ OkIsDelivered(<< >>)
<1>1. DOMAIN << >> = {}
  OBVIOUS
<1> QED
  BY <1>1 DEF OneOk, NoOk, OkIsDelivered

(* A job, or a reply, behind the others.                                   *)
LEMMA HoldsAppend ==
  ASSUME NEW T, NEW s \in Seq(T), NEW e \in T, NEW c
  PROVE  /\ Holds(Append(s, e), c) <=> Holds(s, c) \/ Of(e, c)
         /\ Single(s, c) /\ ~(Holds(s, c) /\ Of(e, c)) => Single(Append(s, e), c)
         /\ Refuses(Append(s, e), c) <=> Refuses(s, c) \/ Refusal(e, c)
<1> DEFINE t == Append(s, e)
           n == Len(s)
<1>1. /\ n \in Nat /\ DOMAIN s = 1 .. n /\ DOMAIN t = 1 .. n + 1
      /\ t[n + 1] = e /\ \A i \in 1 .. n : t[i] = s[i]
  BY AppendProperties, LenProperties
<1> HIDE DEF t, n
<1>2. /\ n + 1 \in 1 .. n + 1 /\ 1 .. n \subseteq 1 .. n + 1
      /\ \A i \in 1 .. n + 1 : i # n + 1 => i \in 1 .. n
  BY <1>1
<1>3. Holds(t, c) <=> Holds(s, c) \/ Of(e, c)
  BY <1>1, <1>2, Zenon DEF Holds
<1>4. Refuses(t, c) <=> Refuses(s, c) \/ Refusal(e, c)
  BY <1>1, <1>2, Zenon DEF Refuses
<1>5. ASSUME Single(s, c), ~(Holds(s, c) /\ Of(e, c)) PROVE Single(t, c)
  <2> SUFFICES ASSUME NEW i \in 1 .. n + 1, NEW j \in 1 .. n + 1, Of(t[i], c), Of(t[j], c)
               PROVE  i = j
    BY <1>1 DEF Single
  <2>1. CASE i \in 1 .. n /\ j \in 1 .. n
    BY <1>1, <1>5, <2>1 DEF Single
  <2>2. CASE Of(e, c)
    BY <1>1, <1>2, <1>5, <2>2 DEF Holds
  <2>3. CASE ~Of(e, c)
    BY <1>1, <1>2, <2>1, <2>3
  <2> QED
    BY <2>2, <2>3
<1> QED
  BY <1>3, <1>4, <1>5 DEF t

(* The first one taken off.                                                *)
LEMMA HoldsTail ==
  ASSUME NEW T, NEW s \in Seq(T), s # << >>, NEW c
  PROVE  /\ Holds(s, c) <=> Of(Head(s), c) \/ Holds(Tail(s), c)
         /\ Single(s, c) => Single(Tail(s), c) /\ ~(Of(Head(s), c) /\ Holds(Tail(s), c))
         /\ Refuses(s, c) <=> Refusal(Head(s), c) \/ Refuses(Tail(s), c)
<1> DEFINE h == Head(s)
           r == Tail(s)
           n == Len(s)
<1>1. /\ n \in Nat /\ n # 0 /\ DOMAIN s = 1 .. n
      /\ DOMAIN r = 1 .. n - 1 /\ s[1] = h /\ \A i \in 1 .. n - 1 : r[i] = s[i + 1]
  BY HeadTailProperties, LenProperties, EmptySeq
<1> HIDE DEF h, r, n
<1>2. /\ 1 \in 1 .. n
      /\ \A i \in 1 .. n - 1 : i + 1 \in 1 .. n /\ i + 1 # 1
      /\ \A i \in 1 .. n : i # 1 => i - 1 \in 1 .. n - 1
      /\ \A i, j \in 1 .. n - 1 : i + 1 = j + 1 => i = j
  BY <1>1
<1>3. \A i \in 1 .. n : i # 1 => r[i - 1] = s[i]
  BY <1>1, <1>2
<1>4. Holds(s, c) <=> Of(h, c) \/ Holds(r, c)
  <2>1. ASSUME Holds(s, c) PROVE Of(h, c) \/ Holds(r, c)
    <3>1. PICK i \in 1 .. n : Of(s[i], c)
      BY <1>1, <2>1 DEF Holds
    <3> QED
      BY <1>1, <1>2, <1>3, <3>1 DEF Holds
  <2>2. ASSUME Of(h, c) \/ Holds(r, c) PROVE Holds(s, c)
    BY <1>1, <1>2, <2>2 DEF Holds
  <2> QED
    BY <2>1, <2>2
<1>5. Refuses(s, c) <=> Refusal(h, c) \/ Refuses(r, c)
  <2>1. ASSUME Refuses(s, c) PROVE Refusal(h, c) \/ Refuses(r, c)
    <3>1. PICK i \in 1 .. n : Refusal(s[i], c)
      BY <1>1, <2>1 DEF Refuses
    <3> QED
      BY <1>1, <1>2, <1>3, <3>1 DEF Refuses
  <2>2. ASSUME Refusal(h, c) \/ Refuses(r, c) PROVE Refuses(s, c)
    BY <1>1, <1>2, <2>2 DEF Refuses
  <2> QED
    BY <2>1, <2>2
<1>6. ASSUME Single(s, c) PROVE Single(r, c) /\ ~(Of(h, c) /\ Holds(r, c))
  <2>1. Single(r, c)
    BY <1>1, <1>2, <1>6 DEF Single
  <2>2. ~(Of(h, c) /\ Holds(r, c))
    BY <1>1, <1>2, <1>6 DEF Single, Holds
  <2> QED
    BY <2>1, <2>2
<1> QED
  BY <1>4, <1>5, <1>6 DEF h, r

(* The suspend queue behind the worker's.                                  *)
LEMMA HoldsConcat ==
  ASSUME NEW T, NEW s \in Seq(T), NEW t \in Seq(T), NEW c
  PROVE  /\ Holds(s \o t, c) <=> Holds(s, c) \/ Holds(t, c)
         /\ Single(s, c) /\ Single(t, c) /\ ~(Holds(s, c) /\ Holds(t, c)) => Single(s \o t, c)
<1> DEFINE u == s \o t
           n == Len(s)
           m == Len(t)
<1>1. /\ n \in Nat /\ m \in Nat /\ DOMAIN s = 1 .. n /\ DOMAIN t = 1 .. m
      /\ DOMAIN u = 1 .. n + m
      /\ \A i \in 1 .. n + m : u[i] = IF i <= n THEN s[i] ELSE t[i - n]
  BY ConcatProperties, LenProperties
<1> HIDE DEF u, n, m
<1>2. /\ \A i \in 1 .. n : i \in 1 .. n + m /\ u[i] = s[i]
      /\ \A j \in 1 .. m : n + j \in 1 .. n + m /\ u[n + j] = t[j]
  <2>1. \A i \in 1 .. n : i \in 1 .. n + m /\ u[i] = s[i]
    BY <1>1
  <2>2. ASSUME NEW j \in 1 .. m PROVE n + j \in 1 .. n + m /\ u[n + j] = t[j]
    <3>1. n + j \in 1 .. n + m /\ ~(n + j <= n) /\ (n + j) - n = j
      BY <1>1
    <3> QED
      BY <1>1, <3>1
  <2> QED
    BY <2>1, <2>2
<1>3. \A i \in 1 .. n + m : i \in 1 .. n \/ (i - n \in 1 .. m /\ n + (i - n) = i)
  BY <1>1
<1>4. Holds(u, c) <=> Holds(s, c) \/ Holds(t, c)
  <2>1. ASSUME Holds(u, c) PROVE Holds(s, c) \/ Holds(t, c)
    <3>1. PICK i \in 1 .. n + m : Of(u[i], c)
      BY <1>1, <2>1 DEF Holds
    <3> QED
      BY <1>1, <1>2, <1>3, <3>1 DEF Holds
  <2>2. ASSUME Holds(s, c) PROVE Holds(u, c)
    BY <1>1, <1>2, <2>2 DEF Holds
  <2>3. ASSUME Holds(t, c) PROVE Holds(u, c)
    BY <1>1, <1>2, <2>3 DEF Holds
  <2> QED
    BY <2>1, <2>2, <2>3
<1>5. ASSUME Single(s, c), Single(t, c), ~(Holds(s, c) /\ Holds(t, c)) PROVE Single(u, c)
  <2> SUFFICES ASSUME NEW i \in 1 .. n + m, NEW j \in 1 .. n + m, Of(u[i], c), Of(u[j], c)
               PROVE  i = j
    BY <1>1 DEF Single
  <2>1. CASE i \in 1 .. n /\ j \in 1 .. n
    BY <1>1, <1>2, <1>5, <2>1 DEF Single
  <2>2. CASE i - n \in 1 .. m /\ n + (i - n) = i /\ j - n \in 1 .. m /\ n + (j - n) = j
    <3>1. Of(t[i - n], c) /\ Of(t[j - n], c)
      BY <1>2, <2>2
    <3>2. i - n = j - n
      BY <1>1, <1>5, <2>2, <3>1 DEF Single
    <3> QED
      BY <2>2, <3>2
  <2>3. ASSUME NEW k \in 1 .. n + m, NEW l \in 1 .. n + m, Of(u[k], c), Of(u[l], c),
               k \in 1 .. n, l - n \in 1 .. m, n + (l - n) = l
        PROVE  FALSE
    <3>1. Of(s[k], c) /\ Of(t[l - n], c)
      BY <1>2, <2>3
    <3> QED
      BY <1>1, <1>5, <2>3, <3>1 DEF Holds
  <2> QED
    BY <1>3, <2>1, <2>2, <2>3
<1> QED
  BY <1>4, <1>5 DEF u

(* What the queues hold.                                                   *)
LEMMA QueueTypes ==
  ASSUME PathInv
  PROVE  jobs \in Seq(Jobs) /\ queued \in Seq(Jobs) /\ work \in Seq(Closures)
<1>1. TrueJobs \subseteq Jobs /\ TrueClosures \subseteq Closures
  BY DEF TrueJobs, TrueClosures
<1>2. Seq(TrueJobs) \subseteq Seq(Jobs) /\ Seq(TrueClosures) \subseteq Seq(Closures)
  BY <1>1, SeqMonotonic
<1> QED
  BY <1>2 DEF PathInv

(* Most steps move a command forward at most: from the queue to the worker *)
(* or to a refusal, or from the worker to a refusal of what libcec never   *)
(* acknowledged.                                                           *)
LEMMA OnceFramed ==
  ASSUME NEW c \in Clients, ClientOnce(c),
         said'[c] = said[c], wire'[c] = wire[c], calls'[c] = calls[c],
         Holds(jobs', c) => Holds(jobs, c), Holds(queued', c) => Holds(queued, c),
         Single(jobs', c), Single(queued', c),
         OnWorker(c)' => OnWorker(c) \/ (Holds(jobs, c) /\ ~Holds(jobs', c)),
         Refused(c)' => \/ Refused(c)
                        \/ OnWorker(c) /\ ~OnWorker(c)' /\ ~Acked
                        \/ Holds(jobs, c) /\ ~Holds(jobs', c) /\ ~OnWorker(c)',
         OnWorker(c)' /\ OnWorker(c) /\ Acked => Acked'
  PROVE  ClientOnce(c)'
<1>1. (Waits(c)' <=> Waits(c)) /\ (Plain(c)' <=> Plain(c))
  BY DEF Waits, Plain
<1>2. calls[c] = << >> => NoOk(calls[c])
  BY NoCalls
<1> QED
  BY <1>1, <1>2 DEF ClientOnce

(* A step that leaves queues, worker and replies alone.                    *)
LEMMA OnceUntouched ==
  ASSUME NEW c \in Clients, ClientOnce(c), UNCHANGED <<jobs, queued, worker, work>>,
         said'[c] = said[c], wire'[c] = wire[c], calls'[c] = calls[c],
         outcome'[c] = "refused" => outcome[c] = "refused"
  PROVE  ClientOnce(c)'
<1>1. /\ OnWorker(c)' <=> OnWorker(c)
      /\ Refused(c)' => Refused(c)
      /\ Acked' <=> Acked
  BY DEF OnWorker, Refused, Acked
<1>2. Single(jobs', c) /\ Single(queued', c)
  BY DEF ClientOnce
<1> QED
  BY <1>1, <1>2, OnceFramed

(* A client speaks: nobody has heard of it before.                         *)
LEMMA SpeakingOnce ==
  ASSUME PathInv, OnceInv, NEW c \in Clients,
         (\E line \in Lines : RunClient(c, line)) \/ (\E bytes \in HandRolled : SendBytes(c, bytes))
  PROVE  OnceInv'
<1>1. /\ said[c].name = None /\ UNCHANGED <<jobs, queued, worker, work, calls>>
      /\ DOMAIN said = Clients /\ DOMAIN wire = Clients /\ DOMAIN outcome = Clients
  BY DEF RunClient, SendBytes, mainVars, workerVars, PathInv, PathTypeOK
<1>2. \A b \in Clients \ {c} : said'[b] = said[b] /\ wire'[b] = wire[b] /\ outcome'[b] = outcome[b]
  BY <1>1 DEF RunClient, SendBytes
<1>3. outcome'[c] = "refused" => outcome[c] = "refused"
  BY <1>1 DEF RunClient, SendBytes
<1>4. ASSUME NEW b \in Clients \ {c} PROVE ClientOnce(b)'
  BY <1>1, <1>2, <1>4, OnceUntouched DEF OnceInv
<1>5. ClientOnce(c)'
  <2>1. /\ ~Holds(jobs, c) /\ ~Holds(queued, c) /\ ~OnWorker(c) /\ ~Refused(c)
        /\ Single(jobs, c) /\ Single(queued, c) /\ calls[c] = << >> /\ wire[c] = << >>
    BY <1>1 DEF OnceInv, ClientOnce, Waits
  <2>2. ~OnWorker(c)' /\ ~Refused(c)'
    BY <1>1, <1>3, <2>1 DEF OnWorker, Refused
  <2>3. said'[c].name = None => wire'[c] = << >>
    <3>1. ASSUME NEW line \in Lines, RunClient(c, line), said'[c].name = None
          PROVE  wire'[c] = << >>
      <4>1. line \in CommandLine /\ line.name = None
        BY <1>1, <3>1, PathAssumption DEF RunClient
      <4>2. parse(line) = NoMessage
        BY <4>1, SentIsRead
      <4> QED
        BY <2>1, <3>1, <4>2 DEF RunClient
    <3>2. ASSUME NEW bytes \in HandRolled, SendBytes(c, bytes) PROVE said'[c].name # None
      BY <1>1, <3>2 DEF SendBytes, Line, None
    <3> QED
      BY <3>1, <3>2
  <2> QED
    BY <1>1, <2>1, <2>2, <2>3, NoCalls DEF ClientOnce
<1> QED
  BY <1>4, <1>5 DEF OnceInv

(* onSessionReadable: the request leaves the wire, for one place.          *)
LEMMA RequestOnce ==
  ASSUME PathInv, OnceInv, NEW c \in Clients, HandleRequest(c)
  PROVE  OnceInv'
<1> DEFINE m == deserialize(wire[c])
<1>1. /\ wire[c] # << >> /\ wire' = [wire EXCEPT ![c] = << >>]
      /\ UNCHANGED <<said, work, worker, calls>>
      /\ DOMAIN wire = Clients /\ DOMAIN outcome = Clients
  BY DEF HandleRequest, PathInv, PathTypeOK
<1>2. /\ \A b \in Clients \ {c} : outcome'[b] = outcome[b]
      /\ \/ UNCHANGED <<jobs, queued>>
         \/ /\ m # NoMessage /\ queued' = Append(queued, Job("command", c, m, TRUE))
            /\ UNCHANGED jobs /\ (outcome'[c] = "refused" => outcome[c] = "refused")
         \/ /\ m # NoMessage /\ jobs' = Append(jobs, Job("command", c, m, FALSE))
            /\ UNCHANGED <<queued, outcome>>
  <2>1. CASE m = NoMessage
    BY <1>1, <2>1 DEF HandleRequest
  <2>2. CASE m # NoMessage /\ dispatch(c, m)
    <3>1. CASE Rejected(c) \/ Intercepted(c) \/ apply(c, m)
      BY <1>1, <3>1 DEF Rejected, Intercepted, apply, Answer, Inline
    <3>2. CASE submitAdapterWork(c, m)
      BY <2>2, <3>2 DEF submitAdapterWork
    <3>3. CASE handleSuspendedInline(c, m)
      <4>1. CASE Rejected(c)
        BY <3>1, <4>1
      <4>2. CASE ~Rejected(c)
        <5>1. queued' = Append(queued, Job("command", c, m, TRUE)) /\ UNCHANGED jobs
              /\ Answer(c, "RESP_SUCCESS")
          BY <3>3, <4>2 DEF handleSuspendedInline, Inline
        <5>2. /\ \A b \in Clients \ {c} : outcome'[b] = outcome[b]
              /\ outcome'[c] = "refused" => outcome[c] = "refused"
          BY <1>1, <5>1 DEF Answer
        <5> QED
          BY <2>2, <5>1, <5>2
      <4> QED
        BY <4>1, <4>2
    <3> HIDE DEF m
    <3>4. CASE m.type \notin DOMAIN kDispatchTable
      BY <2>2, <3>1, <3>4 DEF dispatch
    <3>5. CASE m.type \in DOMAIN kDispatchTable
      <4>1. kDispatchTable[m.type].dispatch \in {"AdapterCall", "StateOnly", "SupervisorIntercepted"}
        BY <3>5, TableIs
      <4> QED
        BY <2>2, <3>1, <3>2, <3>3, <3>5, <4>1 DEF dispatch
    <3> QED
      BY <3>4, <3>5
  <2> QED
    BY <2>1, <2>2 DEF HandleRequest
<1>3. m # NoMessage => Job("command", c, m, TRUE) \in Jobs /\ Job("command", c, m, FALSE) \in Jobs
  <2>1. m # NoMessage => m \in AnyMessage
    BY <1>1, RequestIs
  <2> HIDE DEF m
  <2> QED
    BY <2>1 DEF Job, Jobs, JobKinds
<1>4. \A b, r : Of(Job("command", c, m, r), b) <=> b = c
  BY DEF Of, Job
<1>5. jobs \in Seq(Jobs) /\ queued \in Seq(Jobs)
  BY QueueTypes
<1> HIDE DEF m
<1>6. ASSUME NEW b \in Clients
      PROVE  /\ Holds(jobs', b) <=> Holds(jobs, b) \/ (b = c /\ jobs' # jobs)
             /\ Holds(queued', b) <=> Holds(queued, b) \/ (b = c /\ queued' # queued)
             /\ Single(jobs, b) /\ (b = c => ~Holds(jobs, b)) => Single(jobs', b)
             /\ Single(queued, b) /\ (b = c => ~Holds(queued, b)) => Single(queued', b)
  <2>1. CASE UNCHANGED <<jobs, queued>>
    BY <2>1
  <2>2. ASSUME NEW s \in Seq(Jobs), NEW t, NEW r \in BOOLEAN, m # NoMessage,
               t = Append(s, Job("command", c, m, r))
        PROVE  /\ t # s
               /\ Holds(t, b) <=> Holds(s, b) \/ b = c
               /\ Single(s, b) /\ (b = c => ~Holds(s, b)) => Single(t, b)
    <3>1. Job("command", c, m, r) \in Jobs
      BY <1>3, <2>2
    <3>2. t # s
      BY <2>2, <3>1, AppendProperties
    <3> QED
      BY <1>4, <2>2, <3>1, <3>2, HoldsAppend
  <2>3. CASE jobs' # jobs \/ queued' # queued
    BY <1>2, <1>5, <2>2, <2>3
  <2> QED
    BY <2>1, <2>3
<1>7. ASSUME NEW b \in Clients \ {c} PROVE ClientOnce(b)'
  <2>1. /\ OnWorker(b)' <=> OnWorker(b)
        /\ Refused(b)' <=> Refused(b)
        /\ Acked' <=> Acked
    BY <1>1, <1>2 DEF OnWorker, Refused, Acked
  <2>2. ClientOnce(b) /\ Single(jobs, b) /\ Single(queued, b)
    BY DEF OnceInv, ClientOnce
  <2>3. Single(jobs', b) /\ Single(queued', b)
        /\ (Holds(jobs', b) <=> Holds(jobs, b)) /\ (Holds(queued', b) <=> Holds(queued, b))
    BY <1>6, <2>2
  <2>4. said'[b] = said[b] /\ wire'[b] = wire[b] /\ calls'[b] = calls[b]
    BY <1>1
  <2> QED
    BY <2>1, <2>2, <2>3, <2>4, OnceFramed
<1>8. ClientOnce(c)'
  <2>1. /\ ~Holds(jobs, c) /\ ~Holds(queued, c) /\ ~OnWorker(c) /\ ~Refused(c)
        /\ Single(jobs, c) /\ Single(queued, c) /\ calls[c] = << >> /\ said[c].name # None
    BY <1>1 DEF OnceInv, ClientOnce, Waits
  <2>2. ~OnWorker(c)' /\ ~Waits(c)' /\ calls'[c] = << >> /\ said'[c].name # None
    BY <1>1, <2>1 DEF OnWorker, Waits
  <2>3. Single(jobs', c) /\ Single(queued', c)
        /\ (Holds(jobs', c) <=> jobs' # jobs) /\ (Holds(queued', c) <=> queued' # queued)
    BY <1>6, <2>1
  <2>4. /\ jobs' = jobs \/ queued' = queued
        /\ jobs' # jobs \/ queued' # queued => ~Refused(c)'
    BY <1>1, <1>2, <2>1 DEF Refused
  <2> QED
    BY <2>1, <2>2, <2>3, <2>4, NoCalls DEF ClientOnce
<1> QED
  BY <1>7, <1>8 DEF OnceInv

(* A job of the power pipeline is no command.                              *)
LEMMA LifecycleOnce ==
  ASSUME PathInv, OnceInv, NEW kind \in {"suspend", "resume", "reconnect"}, SubmitLifecycle(kind)
  PROVE  OnceInv'
<1> DEFINE j == Job(kind, None, NoMessage, FALSE)
<1>1. /\ jobs' = Append(jobs, j)
      /\ UNCHANGED <<said, wire, outcome, queued, work, worker, calls>>
  BY DEF SubmitLifecycle, clientVars
<1>2. j \in Jobs /\ \A c : ~Of(j, c)
  <2>1. NoMessage \in AnyMessage
    <3>1. << >> \in Seq(Int)
      OBVIOUS
    <3> QED
      BY <3>1 DEF NoMessage, Message, AnyMessage
  <2> QED
    BY <2>1 DEF Job, Jobs, JobKinds, Of
<1> HIDE DEF j
<1>3. jobs \in Seq(Jobs)
  BY QueueTypes
<1> SUFFICES ASSUME NEW c \in Clients PROVE ClientOnce(c)'
  BY DEF OnceInv
<1>4. ClientOnce(c) /\ Single(jobs, c) /\ Single(queued, c)
  BY DEF OnceInv, ClientOnce
<1>5. (Holds(jobs', c) <=> Holds(jobs, c)) /\ Single(jobs', c)
  BY <1>1, <1>2, <1>3, <1>4, HoldsAppend
<1>6. (OnWorker(c)' <=> OnWorker(c)) /\ (Refused(c)' <=> Refused(c)) /\ (Acked' <=> Acked)
  BY <1>1 DEF OnWorker, Refused, Acked
<1> QED
  BY <1>1, <1>4, <1>5, <1>6, OnceFramed

(* A closure: a refusal reaches its client, or the suspend queue goes      *)
(* behind the worker's or is dropped.                                      *)
LEMMA ClosureOnce ==
  ASSUME PathInv, OnceInv, RunClosure
  PROVE  OnceInv'
<1> DEFINE w == Head(work)
<1>1. /\ work # << >> /\ work' = Tail(work)
      /\ UNCHANGED <<said, wire, worker, calls>>
      /\ DOMAIN outcome = Clients
  BY DEF RunClosure, PathInv, PathTypeOK
<1>2. jobs \in Seq(Jobs) /\ queued \in Seq(Jobs) /\ work \in Seq(Closures)
  BY QueueTypes
<1>3. /\ w \in Closures
  BY <1>1, <1>2, HeadTailProperties
<1>4. \/ w.fn = "reply" /\ Answer(w.client, w.response) /\ UNCHANGED <<queued, jobs>>
      \/ UNCHANGED <<outcome, queued, jobs>>
      \/ UNCHANGED outcome /\ queued' = << >> /\ jobs' \in {jobs, jobs \o queued}
  BY DEF RunClosure
<1> SUFFICES ASSUME NEW c \in Clients PROVE ClientOnce(c)'
  BY DEF OnceInv
<1>5. Refuses(work, c) <=> Refusal(w, c) \/ Refuses(work', c)
  BY <1>1, <1>2, HoldsTail
<1>6. Refused(c)' => Refused(c)
  <2>1. outcome'[c] = "refused" => outcome[c] = "refused" \/ Refusal(w, c)
    <3> HIDE DEF w
    <3>1. CASE w.fn = "reply" /\ Answer(w.client, w.response)
      <4>1. w.response \in {"RESP_SUCCESS", "RESP_ERROR"}
        BY <1>3 DEF Closures
      <4>2. "refused" # "success"
        OBVIOUS
      <4> QED
        BY <1>1, <3>1, <4>1, <4>2 DEF Answer, Refusal
    <3> QED
      BY <1>4, <3>1
  <2> QED
    BY <1>5, <2>1 DEF Refused
<1>7. (OnWorker(c)' <=> OnWorker(c)) /\ (Acked' <=> Acked)
  BY <1>1 DEF OnWorker, Acked
<1>8. ClientOnce(c) /\ Single(jobs, c) /\ Single(queued, c)
      /\ said'[c] = said[c] /\ wire'[c] = wire[c] /\ calls'[c] = calls[c]
  BY <1>1 DEF OnceInv, ClientOnce
<1>9. CASE UNCHANGED <<queued, jobs>>
  BY <1>6, <1>7, <1>8, <1>9, OnceFramed
<1>10. CASE queued' = << >> /\ jobs' \in {jobs, jobs \o queued}
  <2>1. ~Holds(queued', c) /\ Single(queued', c)
    <3>1. DOMAIN << >> = {}
      OBVIOUS
    <3> QED
      BY <1>10, <3>1 DEF Holds, Single
  <2>2. (Holds(jobs', c) => Holds(jobs, c) \/ Holds(queued, c)) /\ Single(jobs', c)
    <3>1. ~(Holds(jobs, c) /\ Holds(queued, c))
      BY <1>8 DEF ClientOnce
    <3>2. /\ Holds(jobs \o queued, c) <=> Holds(jobs, c) \/ Holds(queued, c)
          /\ Single(jobs \o queued, c)
      BY <1>2, <1>8, <3>1, HoldsConcat
    <3> QED
      BY <1>8, <1>10, <3>2
  <2>3. (Waits(c)' <=> Waits(c)) /\ (Plain(c)' <=> Plain(c))
    BY <1>8 DEF Waits, Plain
  <2> QED
    BY <1>6, <1>7, <1>8, <2>1, <2>2, <2>3 DEF ClientOnce
<1> QED
  BY <1>4, <1>9, <1>10

(* The worker takes the next command, or refuses it without a call.        *)
LEMMA TakeCommandOnce ==
  ASSUME PathInv, OnceInv, TakeCommand
  PROVE  OnceInv'
<1> DEFINE job == Head(jobs)
<1>1. /\ jobs # << >> /\ jobs' = Tail(jobs) /\ job.kind = "command" /\ executeOnAdapter(job)
      /\ worker.pc = "idle"
      /\ UNCHANGED <<said, wire, outcome, queued, calls>>
  BY DEF TakeCommand, workerRest, clientVars
<1>2. jobs \in Seq(Jobs) /\ work \in Seq(Closures) /\ job \in Jobs
  BY <1>1, QueueTypes, HeadTailProperties
<1> HIDE DEF job
<1>3. /\ worker'.pc # "idle" => worker'.job = job
      /\ \/ UNCHANGED work
         \/ worker' = Idle /\ work' = Append(work, [fn |-> "reply", client |-> job.client,
                                                     response |-> "RESP_ERROR"])
  <2>1. CASE Finish(job, "RESP_ERROR")
    BY <2>1 DEF Finish, Post, Idle
  <2>2. CASE worker' = Begin(job) /\ UNCHANGED work
    BY <2>2 DEF Begin
  <2>3. CASE UNCHANGED work
             /\ worker' = [Begin(job) EXCEPT !.pc = "call", !.call = FirstCall(job.msg)]
    BY <2>3 DEF Begin
  <2> QED
    BY <1>1, <2>1, <2>2, <2>3 DEF executeOnAdapter
<1> SUFFICES ASSUME NEW c \in Clients PROVE ClientOnce(c)'
  BY DEF OnceInv
<1>4. ClientOnce(c) /\ Single(jobs, c) /\ Single(queued, c)
  BY DEF OnceInv, ClientOnce
<1>5. ~OnWorker(c)
  BY <1>1 DEF OnWorker
<1>6. /\ Holds(jobs, c) <=> Of(job, c) \/ Holds(jobs', c)
      /\ Single(jobs', c) /\ ~(Of(job, c) /\ Holds(jobs', c))
  BY <1>1, <1>2, <1>4, HoldsTail DEF job
<1>7. OnWorker(c)' => Holds(jobs, c) /\ ~Holds(jobs', c)
  BY <1>1, <1>3, <1>6 DEF OnWorker, Of
<1>8. Refused(c)' => Refused(c) \/ (Holds(jobs, c) /\ ~Holds(jobs', c) /\ ~OnWorker(c)')
  <2>1. CASE UNCHANGED work
    BY <1>1, <2>1 DEF Refused
  <2>2. CASE worker' = Idle /\ work' = Append(work, [fn |-> "reply", client |-> job.client,
                                                      response |-> "RESP_ERROR"])
    <3> DEFINE r == [fn |-> "reply", client |-> job.client, response |-> "RESP_ERROR"]
    <3>1. r \in Closures /\ (Refusal(r, c) => job.client = c)
      BY <1>2 DEF Closures, Jobs, Refusal
    <3> HIDE DEF r
    <3>2. Refuses(work', c) <=> Refuses(work, c) \/ Refusal(r, c)
      BY <1>2, <2>2, <3>1, HoldsAppend DEF r
    <3>3. Refusal(r, c) => Of(job, c)
      BY <1>1, <3>1 DEF Of
    <3>4. ~OnWorker(c)'
      BY <2>2 DEF OnWorker, Idle
    <3> QED
      BY <1>1, <1>6, <3>2, <3>3, <3>4 DEF Refused
  <2> QED
    BY <1>3, <2>1, <2>2
<1> QED
  BY <1>1, <1>4, <1>5, <1>6, <1>7, <1>8, OnceFramed

(* The worker takes a job of the power pipeline.                           *)
LEMMA TakeLifecycleOnce ==
  ASSUME PathInv, OnceInv, TakeLifecycleJob
  PROVE  OnceInv'
<1> DEFINE job == Head(jobs)
<1>1. /\ jobs # << >> /\ jobs' = Tail(jobs) /\ job.kind # "command"
      /\ UNCHANGED <<said, wire, outcome, queued, calls, worker>>
  BY DEF TakeLifecycleJob, workerRest, clientVars
<1>2. \/ work' = work
      \/ \E fn \in {"suspendCompleted", "resumeWorkerComplete"},
            response \in {"RESP_SUCCESS", "RESP_ERROR"} :
              work' = Append(work, [fn |-> fn, client |-> None, response |-> response])
  BY DEF TakeLifecycleJob, Post
<1>3. jobs \in Seq(Jobs) /\ work \in Seq(Closures)
  BY QueueTypes
<1> SUFFICES ASSUME NEW c \in Clients PROVE ClientOnce(c)'
  BY DEF OnceInv
<1>4. ClientOnce(c) /\ Single(jobs, c) /\ Single(queued, c)
  BY DEF OnceInv, ClientOnce
<1>5. (Holds(jobs', c) => Holds(jobs, c)) /\ Single(jobs', c)
  BY <1>1, <1>3, <1>4, HoldsTail
<1>6. (OnWorker(c)' <=> OnWorker(c)) /\ (Acked' <=> Acked)
  BY <1>1 DEF OnWorker, Acked
<1>7. Refused(c)' => Refused(c)
  <2>1. ASSUME NEW fn \in {"suspendCompleted", "resumeWorkerComplete"},
               NEW response \in {"RESP_SUCCESS", "RESP_ERROR"},
               work' = Append(work, [fn |-> fn, client |-> None, response |-> response])
        PROVE  Refuses(work', c) => Refuses(work, c)
    <3> DEFINE r == [fn |-> fn, client |-> None, response |-> response]
    <3>1. r \in Closures /\ ~Refusal(r, c)
      BY DEF Closures, Refusal
    <3> HIDE DEF r
    <3> QED
      BY <1>3, <2>1, <3>1, HoldsAppend DEF r
  <2> QED
    BY <1>1, <1>2, <2>1 DEF Refused
<1> QED
  BY <1>1, <1>4, <1>5, <1>6, <1>7, OnceFramed

(* Waiting and backing off: what libcec acknowledged is not tried again.   *)
LEMMA ThrottlingOnce ==
  ASSUME PathInv, OnceInv, ReserveAttempt \/ AttemptFails \/ Retry \/ Tick
  PROVE  OnceInv'
<1>1. UNCHANGED <<said, wire, outcome, queued, calls, work, jobs>>
  BY DEF ReserveAttempt, AttemptFails, Retry, Tick, workerRest, clientVars
<1>2. /\ worker = [pc |-> worker.pc, job |-> worker.job, call |-> worker.call,
                   attempt |-> worker.attempt, wait |-> worker.wait]
  BY DEF PathInv, PathTypeOK
<1>3. /\ worker'.job = worker.job /\ (worker'.pc = "idle" <=> worker.pc = "idle")
      /\ Acked => Acked'
  <2>1. CASE ReserveAttempt \/ AttemptFails \/ Retry
    <3>1. Succeeded # Failed
      BY DEF Succeeded, Failed, CallTo
    <3> QED
      BY <1>2, <2>1, <3>1 DEF ReserveAttempt, AttemptFails, Retry, Acked
  <2>2. CASE Tick
    <3> DEFINE wait == Max({worker.wait - 1, 0})
    <3>1. worker' = [worker EXCEPT !.wait = wait]
      BY <2>2 DEF Tick
    <3> HIDE DEF wait
    <3> QED
      BY <1>2, <3>1 DEF Acked
  <2> QED
    BY <2>1, <2>2
<1> SUFFICES ASSUME NEW c \in Clients PROVE ClientOnce(c)'
  BY DEF OnceInv
<1>4. ClientOnce(c) /\ Single(jobs', c) /\ Single(queued', c)
  BY <1>1 DEF OnceInv, ClientOnce
<1>5. (OnWorker(c)' <=> OnWorker(c)) /\ (Refused(c)' <=> Refused(c))
  BY <1>1, <1>3 DEF OnWorker, Refused
<1> QED
  BY <1>1, <1>3, <1>4, <1>5, OnceFramed

(* A command ends with a refusal only if libcec never acknowledged it.     *)
LEMMA EndingOnce ==
  ASSUME PathInv, OnceInv, CallThrows \/ GiveUp \/ EndOfRestart \/ CommandSucceeded
  PROVE  OnceInv'
<1>1. /\ UNCHANGED <<said, wire, outcome, queued, calls, jobs>> /\ worker.pc # "idle"
  BY DEF CallThrows, GiveUp, EndOfRestart, CommandSucceeded, workerRest, clientVars, Calling
<1>2. PICK response \in {"RESP_SUCCESS", "RESP_ERROR"} :
        Finish(worker.job, response) /\ (response = "RESP_ERROR" => ~Acked)
  BY DEF CallThrows, GiveUp, EndOfRestart, CommandSucceeded, Calling, Acked
<1>3. worker.job \in Jobs /\ work \in Seq(Closures)
  BY QueueTypes DEF PathInv, PathTypeOK
<1> SUFFICES ASSUME NEW c \in Clients PROVE ClientOnce(c)'
  BY DEF OnceInv
<1>4. ClientOnce(c) /\ Single(jobs', c) /\ Single(queued', c)
  BY <1>1 DEF OnceInv, ClientOnce
<1>5. ~OnWorker(c)'
  BY <1>2 DEF OnWorker, Finish, Idle
<1>6. Refused(c)' => Refused(c) \/ (OnWorker(c) /\ ~Acked)
  <2>1. CASE UNCHANGED work
    BY <1>1, <2>1 DEF Refused
  <2>2. CASE work' = Append(work, [fn |-> "reply", client |-> worker.job.client, response |-> response])
    <3> DEFINE r == [fn |-> "reply", client |-> worker.job.client, response |-> response]
    <3>1. r \in Closures /\ (Refusal(r, c) => worker.job.client = c /\ response = "RESP_ERROR")
      BY <1>3 DEF Closures, Jobs, Refusal
    <3> HIDE DEF r
    <3>2. Refuses(work', c) <=> Refuses(work, c) \/ Refusal(r, c)
      BY <1>3, <2>2, <3>1, HoldsAppend DEF r
    <3> QED
      BY <1>1, <1>2, <3>1, <3>2 DEF Refused, OnWorker
  <2> QED
    BY <1>2, <2>1, <2>2 DEF Finish, Post
<1> QED
  BY <1>1, <1>4, <1>5, <1>6, OnceFramed

(* A power or volume command is a single call.                             *)
LEMMA PlainCall ==
  ASSUME PathInv, Calling, NEW ok \in BOOLEAN, Plain(worker.job.client)
  PROVE  NextCall(worker.job.msg, worker.call, ok) = IF ok THEN Succeeded ELSE Failed
<1> DEFINE m == worker.job.msg
           c == worker.job.client
<1>1. /\ m \in AnyMessage /\ m.type \in AdapterTypes /\ SentBy(c, m)
      /\ worker.call \in Plan(m)
  BY BusyWith DEF Calling
<1>2. said[c] \in CommandLine /\ m = parse(said[c]) /\ parse(said[c]) # NoMessage
  BY <1>1 DEF SentBy, Plain
<1>3. m.type \in {"CMD_POWER_ON", "CMD_POWER_OFF", "CMD_VOLUME_UP", "CMD_VOLUME_DOWN", "CMD_VOLUME_MUTE"}
  <2> DEFINE line == said[c]
  <2>1. line.name \in {"power", "volume"}
    BY DEF Plain
  <2> HIDE DEF line, m
  <2>2. \E x, y : /\ m = Message(x, y, << >>)
                  /\ x \in {"CMD_POWER_ON", "CMD_POWER_OFF", "CMD_VOLUME_UP",
                            "CMD_VOLUME_DOWN", "CMD_VOLUME_MUTE"}
    BY <1>2, <2>1, Parsed DEF line
  <2> QED
    BY <2>2 DEF Message
<1> HIDE DEF m, c
<1>4. worker.call.op \in {"powerOn", "standby", "volumeUp", "volumeDown", "toggleMute"}
  BY <1>1, <1>3, PlanIs DEF CallTo
<1>5. /\ worker.call.op # "release" /\ worker.call.op # "setStreamPath"
      /\ worker.call.op # "press" /\ worker.call # Press(TV, INPUT_SELECT)
  BY <1>4 DEF Press, CallTo
<1> QED
  BY <1>5 DEF NextCall, m

(* One more call, the first that libcec acknowledges.                      *)
LEMMA CalledOnce ==
  ASSUME PathInv, OnceInv, Calling, NEW ok \in BOOLEAN, NEW delivered \in BOOLEAN,
         ok => delivered, Called(ok, delivered),
         UNCHANGED <<said, wire, outcome, queued, jobs, work>>
  PROVE  OnceInv'
<1>1. worker.job.client \in Clients
  BY BusyWith DEF Calling
<1>2. PICK c \in Clients : c = worker.job.client
  BY <1>1
<1>3. worker.pc = "call" /\ worker.call # Succeeded
  BY DEF Calling
<1> DEFINE n == Len(calls'[c])
<1>4. /\ \A d \in Clients \ {c} : calls'[d] = calls[d]
      /\ \A i \in DOMAIN calls[c] : i \in DOMAIN calls'[c] /\ calls'[c][i] = calls[c][i]
      /\ n \in DOMAIN calls'[c] /\ calls'[c][n].ok = ok /\ calls'[c][n].delivered = delivered
      /\ \A i \in DOMAIN calls'[c] : i \in DOMAIN calls[c] \/ i = n
  <2>1. calls'[c][n] = [call |-> worker.call, ok |-> ok, delivered |-> delivered]
    BY <1>1, <1>2, CallsGrow DEF PathInv
  <2>2. calls'[c][n].ok = ok /\ calls'[c][n].delivered = delivered
    BY <2>1
  <2> QED
    BY <1>1, <1>2, <2>2, CallsGrow DEF PathInv
<1>5. /\ worker'.pc = "call" /\ worker'.job = worker.job
      /\ worker'.call = NextCall(worker.job.msg, worker.call, ok)
  BY <1>3 DEF Called, PathInv, PathTypeOK
<1> HIDE DEF n
<1>6. ASSUME NEW d \in Clients
      PROVE  (OnWorker(d)' <=> OnWorker(d)) /\ (OnWorker(d) <=> d = c) /\ (Refused(d)' <=> Refused(d))
  BY <1>2, <1>3, <1>5 DEF OnWorker, Refused
<1>7. ~Acked
  BY <1>3 DEF Acked
<1>8. ASSUME NEW d \in Clients \ {c} PROVE ClientOnce(d)'
  <2>1. ClientOnce(d) /\ Single(jobs', d) /\ Single(queued', d)
    BY DEF OnceInv, ClientOnce
  <2> QED
    BY <1>4, <1>6, <2>1, OnceFramed
<1>9. ClientOnce(c)'
  <2>1. ClientOnce(c) /\ OnWorker(c) /\ OnWorker(c)' /\ (Refused(c)' <=> Refused(c))
    BY <1>2, <1>6 DEF OnceInv
  <2>2. ~Holds(jobs', c) /\ ~Holds(queued', c) /\ ~Waits(c)' /\ ~Refused(c)'
    BY <2>1 DEF ClientOnce, Waits
  <2>3. OkIsDelivered(calls'[c])
    BY <1>4, <2>1 DEF ClientOnce, OkIsDelivered
  <2>4. ASSUME Plain(c) PROVE OneOk(calls'[c]) /\ (~Acked' => NoOk(calls'[c]))
    <3>1. NoOk(calls[c])
      BY <1>7, <2>1, <2>4 DEF ClientOnce
    <3>2. OneOk(calls'[c]) /\ (~ok => NoOk(calls'[c]))
      BY <1>4, <3>1 DEF OneOk, NoOk
    <3>3. ok => Acked'
      BY <1>2, <1>5, <2>4, PlainCall DEF Acked
    <3> QED
      BY <3>2, <3>3
  <2>5. Plain(c)' <=> Plain(c)
    BY DEF Plain
  <2>6. said[c].name = None => wire[c] = << >>
    BY <2>1 DEF ClientOnce
  <2>7. Single(jobs', c) /\ Single(queued', c)
    BY <2>1 DEF ClientOnce
  <2> QED
    BY <2>1, <2>2, <2>3, <2>4, <2>5, <2>6, <2>7 DEF ClientOnce
<1> QED
  BY <1>8, <1>9 DEF OnceInv


(* A client that waits no longer changes nothing in the daemon.            *)
LEMMA TimeoutOnce ==
  ASSUME PathInv, OnceInv, NEW c \in Clients, ResponseTimeout(c)
  PROVE  OnceInv'
<1>1. /\ UNCHANGED <<jobs, queued, worker, work, said, wire, calls>>
      /\ outcome' = [outcome EXCEPT ![c] = "timedOut"] /\ DOMAIN outcome = Clients
  BY DEF ResponseTimeout, mainVars, workerVars, PathInv, PathTypeOK
<1> SUFFICES ASSUME NEW d \in Clients PROVE ClientOnce(d)'
  BY DEF OnceInv
<1>2. outcome'[d] = "refused" => outcome[d] = "refused"
  <2>1. "timedOut" # "refused"
    OBVIOUS
  <2> QED
    BY <1>1, <2>1
<1>3. ClientOnce(d)
  BY DEF OnceInv
<1> QED
  BY <1>1, <1>2, <1>3, OnceUntouched

(* Before anybody has spoken.                                              *)
LEMMA OnceStarts ==
  ASSUME Init
  PROVE  OnceInv
<1>1. DOMAIN << >> = {}
  OBVIOUS
<1>2. /\ jobs = << >> /\ queued = << >> /\ work = << >>
      /\ worker.pc = "idle"
      /\ \A c \in Clients : /\ said[c].name = None /\ wire[c] = << >>
                            /\ outcome[c] = None /\ calls[c] = << >>
  BY DEF Init, Idle, Line
<1> SUFFICES ASSUME NEW c \in Clients PROVE ClientOnce(c)
  BY DEF OnceInv
<1>3. /\ ~Holds(jobs, c) /\ ~Holds(queued, c) /\ ~Refuses(work, c)
      /\ Single(jobs, c) /\ Single(queued, c)
  BY <1>1, <1>2 DEF Holds, Single, Refuses
<1>4. ~OnWorker(c) /\ ~Refused(c) /\ ~Plain(c)
  BY <1>2, <1>3 DEF OnWorker, Refused, Plain, None
<1>5. OkIsDelivered(calls[c])
  BY <1>2, NoCalls
<1> QED
  BY <1>2, <1>3, <1>4, <1>5 DEF ClientOnce

(* Every step keeps OnceInv.                                               *)
LEMMA OnceKept ==
  ASSUME PathInv, OnceInv, [Next]_vars
  PROVE  OnceInv'
<1>1. CASE \E c \in Clients : ClientStep(c)
  BY <1>1, SpeakingOnce, TimeoutOnce, RequestOnce DEF ClientStep
<1>2. CASE SuspendAsync \/ ResumeAsync \/ ReconnectAsync
  BY <1>2, LifecycleOnce DEF SuspendAsync, ResumeAsync, ReconnectAsync
<1>3. CASE RunClosure
  BY <1>3, ClosureOnce
<1>4. CASE CallNotConnected \/ CallLibcec \/ Reopen
  <2>1. PICK ok \in BOOLEAN, delivered \in BOOLEAN : (ok => delivered) /\ Called(ok, delivered)
    BY <1>4 DEF CallNotConnected, CallLibcec, Reopen
  <2>2. Calling /\ UNCHANGED <<said, wire, outcome, queued, jobs, work>>
    BY <1>4 DEF CallNotConnected, CallLibcec, Reopen, workerRest, clientVars
  <2> QED
    BY <2>1, <2>2, CalledOnce
<1>5. CASE WorkerStep
  BY <1>4, <1>5, TakeCommandOnce, TakeLifecycleOnce, ThrottlingOnce, EndingOnce DEF WorkerStep
<1>6. CASE ConnectionLost \/ UNCHANGED vars
  <2>1. UNCHANGED <<jobs, queued, worker, work, said, wire, calls, outcome>>
    BY <1>6 DEF ConnectionLost, workerRest, vars, clientVars, mainVars, workerVars
  <2> QED
    BY <2>1, OnceUntouched DEF OnceInv
<1> QED
  BY <1>1, <1>2, <1>3, <1>5, <1>6, ThrottlingOnce DEF Next

(* OnceInv holds in every state that can be reached.                       *)
LEMMA OnceHolds == Spec => [](PathInv /\ OnceInv)
<1>1. Init => PathInv /\ OnceInv
  BY PathStarts, OnceStarts
<1>2. (PathInv /\ OnceInv) /\ [Next]_vars => (PathInv /\ OnceInv)'
  BY PathKept, OnceKept
<1> QED
  BY <1>1, <1>2, PTL DEF Spec

(* What was delivered is what libcec reported as failed and what it        *)
(* acknowledged, which is at most one call.                                *)
LEMMA DeliveredCounts ==
  ASSUME NEW s \in Seq(Made), OkIsDelivered(s), OneOk(s)
  PROVE  LET done  == {i \in DOMAIN s : s[i].delivered}
             false == {i \in DOMAIN s : s[i].delivered /\ ~s[i].ok}
         IN  /\ Cardinality(done) \in Nat /\ Cardinality(false) \in Nat
             /\ NoOk(s) => Cardinality(done) = Cardinality(false)
             /\ ~NoOk(s) => Cardinality(done) = Cardinality(false) + 1
<1> DEFINE done  == {i \in DOMAIN s : s[i].delivered}
           false == {i \in DOMAIN s : s[i].delivered /\ ~s[i].ok}
<1>1. IsFiniteSet(DOMAIN s)
  BY FS_Interval, LenProperties
<1>2. IsFiniteSet(done) /\ IsFiniteSet(false)
  BY <1>1, FS_Subset
<1>3. Cardinality(done) \in Nat /\ Cardinality(false) \in Nat
  BY <1>2, FS_CardinalityType
<1>4. ASSUME NoOk(s) PROVE Cardinality(done) = Cardinality(false)
  <2>1. done = false
    BY <1>4, Zenon DEF NoOk
  <2> QED
    BY <2>1
<1>5. ASSUME ~NoOk(s) PROVE Cardinality(done) = Cardinality(false) + 1
  <2>1. PICK k \in DOMAIN s : s[k].ok
    BY <1>5 DEF NoOk
  <2>2. k \notin false /\ done = false \cup {k}
    <3>1. k \in done /\ k \notin false
      BY <2>1 DEF OkIsDelivered
    <3>2. \A i \in done : i \in false \/ i = k
      BY <2>1 DEF OneOk
    <3> QED
      BY <3>1, <3>2
  <2> HIDE DEF done, false
  <2> QED
    BY <1>2, <2>2, FS_AddElement
<1> QED
  BY <1>3, <1>4, <1>5

(* However often the throttler repeats it, wherever it waited and whoever  *)
(* gave up on it, a power or volume command reaches the bus at most once   *)
(* more than libcec misreported it; without a misreport it took effect     *)
(* exactly once if its client was told of success, and not at all if it    *)
(* was refused (CommandThrottler::executeWithThrottle, executeOnAdapter,   *)
(* SuspendQueue).                                                          *)
THEOREM CommandsTakeEffectOnce == Spec => []OnceUnlessMisreported
<1>1. PathInv /\ OnceInv => OnceUnlessMisreported
  <2> SUFFICES ASSUME PathInv, OnceInv, NEW c \in Clients, said[c].name \in {"power", "volume"}
               PROVE  /\ Delivered(c) <= 1 + FalseFailures(c)
                      /\ FalseFailures(c) = 0 =>
                           /\ outcome[c] = "refused" => Delivered(c) = 0
                           /\ outcome[c] = "success" /\ c \notin accepted => Delivered(c) = 1
    BY Zenon DEF OnceUnlessMisreported
  <2>1. /\ calls[c] \in Seq(Made) /\ OkIsDelivered(calls[c]) /\ OneOk(calls[c])
        /\ outcome[c] = "refused" => NoOk(calls[c])
    BY DEF PathInv, PathTypeOK, OnceInv, ClientOnce, Plain, Refused
  <2>2. /\ Delivered(c) \in Nat /\ FalseFailures(c) \in Nat
        /\ NoOk(calls[c]) => Delivered(c) = FalseFailures(c)
        /\ ~NoOk(calls[c]) => Delivered(c) = FalseFailures(c) + 1
    BY <2>1, DeliveredCounts, Zenon DEF Delivered, FalseFailures
  <2>3. outcome[c] = "success" /\ c \notin accepted => ~NoOk(calls[c])
    <3>1. Doable(said[c]) # {}
      BY DEF Doable, CallsFor, AddressedDevice, TypedDevice
    <3>2. outcome[c] = "success" => Settled(c)
      BY DEF PathInv, WireInv
    <3> QED
      BY <3>1, <3>2 DEF Settled, Acknowledged, NoOk
  <2> HIDE DEF Delivered, FalseFailures
  <2> QED
    BY <2>1, <2>2, <2>3
<1> QED
  BY <1>1, OnceHolds, PTL
=============================================================================
