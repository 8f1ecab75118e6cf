----------------------------- MODULE CommandPath -----------------------------
(***************************************************************************)
(* A command from the shell to the CEC bus and back: the client process,   *)
(* CECDaemon::handleCommand and CommandDispatcher on the main thread,      *)
(* executeOnAdapter, the throttler and the operations on the worker, and   *)
(* the client's exit status.                                               *)
(*                                                                         *)
(* The power pipeline is reduced to the gate it puts before commands: its  *)
(* jobs may be submitted whenever AdapterLifecycle accepts them (CecDaemon *)
(* says when they are).  Sessions are those of SocketServer: a client      *)
(* sends one request, and a response to one who has gone is dropped.       *)
(***************************************************************************)
EXTENDS Commands, CommandThrottler

CONSTANTS
  Clients,
  Lines,             \* what clients type
  HandRolled,        \* what programs other than the client send, as bytes
  RetryLimits,       \* values of maxRetryAttempts
  QueueCommands,     \* m_queueCommandsDuringSuspend
  MaxFaults,         \* calls libcec fails, links lost
  MaxSuspends        \* suspends in a run

ASSUME PathAssumption ==
  /\ Lines \subseteq CommandLine /\ HandRolled \subseteq Seq(0 .. 255)
  /\ RetryLimits \subseteq Nat /\ QueueCommands \in BOOLEAN
  /\ MaxFaults \in Nat /\ MaxSuspends \in Nat

VARIABLES
  said,              \* what each client typed or sent
  wire,              \* its request, until the daemon reads it
  outcome,           \* what it knows: none, usage, success, refused, closed, timedOut
  phase,             \* of the power pipeline: awake, suspending, asleep, resuming
  queued,            \* SuspendQueue
  autoStandby,       \* StandbyPolicy::m_enabled
  jobs,              \* AdapterWorker's queue
  worker,            \* what the worker is doing
  connected,         \* LibCecAdapter::m_connected
  work,              \* closures posted to the main thread
  maxRetryAttempts,
  calls,             \* history: the libcec calls made for each client
  accepted,          \* history: clients whose command went into the suspend queue
  faults, suspends

clientVars == <<said, wire, outcome>>
mainVars == <<phase, queued, autoStandby, work, accepted>>
workerVars == <<jobs, worker, connected, calls>>

vars == <<clientVars, mainVars, workerVars, throttlerVars, maxRetryAttempts, faults, suspends>>

None == "none"
Nobody == [kind |-> None, client |-> None, msg |-> NoMessage, replay |-> FALSE]
Idle == [pc |-> "idle", job |-> Nobody, call |-> Failed, attempt |-> 0, wait |-> 0]

Job(kind, c, msg, replay) == [kind |-> kind, client |-> c, msg |-> msg, replay |-> replay]

Init ==
  /\ ThrottlerInit
  /\ maxRetryAttempts \in RetryLimits
  /\ said = [c \in Clients |-> Line(None, << >>)]
  /\ wire = [c \in Clients |-> << >>]
  /\ outcome = [c \in Clients |-> None]
  /\ phase = "awake" /\ queued = << >> /\ autoStandby = FALSE /\ accepted = {}
  /\ jobs = << >> /\ worker = Idle /\ connected = TRUE
  /\ work = << >>
  /\ calls = [c \in Clients |-> << >>]
  /\ faults = 0 /\ suspends = 0

Fault == faults < MaxFaults /\ faults' = faults + 1

suspended == phase # "awake"

-----------------------------------------------------------------------------
(* Clients. *)

(* ArgumentParser::parse, then SocketClient::sendCommand.                  *)
RunClient(c, line) ==
  /\ said[c].name = None
  /\ said' = [said EXCEPT ![c] = line]
  /\ LET m == parse(line) IN
     IF m = NoMessage
       THEN outcome' = [outcome EXCEPT ![c] = "usage"] /\ UNCHANGED wire
       ELSE wire' = [wire EXCEPT ![c] = serialize(m)] /\ UNCHANGED outcome
  /\ UNCHANGED <<mainVars, workerVars, throttlerVars, maxRetryAttempts, faults, suspends>>

SendBytes(c, bytes) ==
  /\ said[c].name = None
  /\ said' = [said EXCEPT ![c] = Line("bytes", << >>)]
  /\ wire' = [wire EXCEPT ![c] = bytes]
  /\ UNCHANGED <<outcome, mainVars, workerVars, throttlerVars, maxRetryAttempts, faults, suspends>>

(* recv returns nothing for IO_TIMEOUT: the client exits with failure.     *)
ResponseTimeout(c) ==
  /\ said[c].name # None /\ outcome[c] = None
  /\ outcome' = [outcome EXCEPT ![c] = "timedOut"]
  /\ UNCHANGED <<said, wire, mainVars, workerVars, throttlerVars, maxRetryAttempts, faults, suspends>>

(* sendResponse, and renderResponse in a client that still waits.          *)
Answer(c, response) ==
  outcome' = [outcome EXCEPT ![c] =
    IF @ # None THEN @ ELSE IF response = "RESP_SUCCESS" THEN "success" ELSE "refused"]

-----------------------------------------------------------------------------
(* The main thread: one request, or one closure, at a time. *)

(* What each branch of handleCommand and dispatch leaves alone.            *)
Inline == UNCHANGED jobs

Rejected(c) == Answer(c, "RESP_ERROR") /\ Inline /\ UNCHANGED <<queued, autoStandby, accepted>>

(* A request to the supervisor is acknowledged at once.                    *)
Intercepted(c) == Answer(c, "RESP_SUCCESS") /\ Inline /\ UNCHANGED <<queued, autoStandby, accepted>>

handleSuspendedInline(c, m) ==
  IF QueueCommands /\ kDispatchTable[m.type].queueableWhileSuspended
    THEN /\ queued' = Append(queued, Job("command", c, m, TRUE))
         /\ accepted' = accepted \cup {c}
         /\ Answer(c, "RESP_SUCCESS") /\ Inline /\ UNCHANGED autoStandby
    ELSE Rejected(c)

(* StandbyPolicy::apply.                                                   *)
apply(c, m) ==
  IF m.data = << >>
    THEN Rejected(c)
    ELSE /\ autoStandby' = (m.data[1] > 0)
         /\ Answer(c, "RESP_SUCCESS") /\ Inline /\ UNCHANGED <<queued, accepted>>

submitAdapterWork(c, m) ==
  /\ jobs' = Append(jobs, Job("command", c, m, FALSE))
  /\ UNCHANGED <<outcome, queued, autoStandby, accepted>>

dispatch(c, m) ==
  CASE m.type \notin DOMAIN kDispatchTable -> Rejected(c)
    [] m.type \in DOMAIN kDispatchTable ->
         LET row == kDispatchTable[m.type] IN
         CASE row.dispatch = "SupervisorIntercepted" -> Intercepted(c)
           [] row.dispatch # "SupervisorIntercepted" /\ suspended -> handleSuspendedInline(c, m)
           [] row.dispatch = "StateOnly" /\ ~suspended -> apply(c, m)
           [] row.dispatch = "AdapterCall" /\ ~suspended -> submitAdapterWork(c, m)

(* onSessionReadable: a request that cannot be read ends the session.      *)
HandleRequest(c) ==
  /\ wire[c] # << >>
  /\ wire' = [wire EXCEPT ![c] = << >>]
  /\ LET m == deserialize(wire[c]) IN
     IF m = NoMessage
       THEN /\ outcome' = [outcome EXCEPT ![c] = IF @ = None THEN "closed" ELSE @]
            /\ UNCHANGED <<jobs, queued, autoStandby, accepted>>
       ELSE dispatch(c, m)
  /\ UNCHANGED <<said, phase, work, worker, connected, calls,
                 throttlerVars, maxRetryAttempts, faults, suspends>>

(* AdapterLifecycle's three jobs.                                          *)
SubmitLifecycle(kind) ==
  /\ jobs' = Append(jobs, Job(kind, None, NoMessage, FALSE))
  /\ UNCHANGED <<clientVars, queued, autoStandby, work, accepted, worker, connected, calls>>
  /\ UNCHANGED <<throttlerVars, maxRetryAttempts, faults>>

SuspendAsync ==
  /\ phase = "awake" /\ suspends < MaxSuspends
  /\ phase' = "suspending" /\ suspends' = suspends + 1
  /\ SubmitLifecycle("suspend")

ResumeAsync == phase = "asleep" /\ phase' = "resuming" /\ UNCHANGED suspends /\ SubmitLifecycle("resume")

(* One attempt is in flight at a time (AdapterReconnect).                  *)
ReconnectAsync ==
  /\ phase = "awake" /\ ~connected
  /\ worker.job.kind # "reconnect" /\ \A i \in DOMAIN jobs : jobs[i].kind # "reconnect"
  /\ UNCHANGED <<phase, suspends>> /\ SubmitLifecycle("reconnect")

(* A closure of the worker: a reply, or the end of a suspend or resume.    *)
(* Queued commands are replayed when the resume found the adapter and      *)
(* discarded when it did not.                                              *)
RunClosure ==
  /\ work # << >>
  /\ work' = Tail(work)
  /\ LET w == Head(work) IN
     \/ /\ w.fn = "reply"
        /\ Answer(w.client, w.response)
        /\ UNCHANGED <<phase, queued, jobs>>
     \/ /\ w.fn = "suspendCompleted"
        /\ phase' = "asleep"
        /\ UNCHANGED <<outcome, queued, jobs>>
     \/ /\ w.fn = "resumeWorkerComplete"
        /\ phase' = "awake"
        /\ queued' = << >>
        /\ jobs' = IF w.response = "RESP_SUCCESS" THEN jobs \o queued ELSE jobs
        /\ UNCHANGED outcome
  /\ UNCHANGED <<said, wire, autoStandby, accepted, worker, connected, calls>>
  /\ UNCHANGED <<throttlerVars, maxRetryAttempts, faults, suspends>>

-----------------------------------------------------------------------------
(* The worker. *)

workerRest == <<clientVars, phase, queued, autoStandby, accepted, maxRetryAttempts, suspends>>

Post(fn, c, response) == work' = Append(work, [fn |-> fn, client |-> c, response |-> response])

(* The job is over; a command that a client waits for posts its response.  *)
Finish(job, response) ==
  /\ worker' = Idle
  /\ IF job.replay THEN UNCHANGED work ELSE Post("reply", job.client, response)

Begin(job) == [pc |-> "reserve", job |-> job, call |-> Failed, attempt |-> 0, wait |-> 0]

(* executeOnAdapter, the handler of the row and the gate of the operation, *)
(* up to the first attempt.                                                *)
executeOnAdapter(job) ==
  IF job.msg.type = "CMD_RESTART_ADAPTER"
    THEN worker' = [Begin(job) EXCEPT !.pc = "call", !.call = FirstCall(job.msg)] /\ UNCHANGED work
    ELSE IF ~connected \/ ~Vetted(job.msg) \/ maxRetryAttempts = 0
      THEN Finish(job, "RESP_ERROR")
      ELSE worker' = Begin(job) /\ UNCHANGED work

TakeCommand ==
  /\ worker.pc = "idle" /\ jobs # << >> /\ Head(jobs).kind = "command"
  /\ jobs' = Tail(jobs)
  /\ executeOnAdapter(Head(jobs))
  /\ UNCHANGED <<workerRest, connected, calls, throttlerVars, faults>>

(* suspendAsync closes the adapter; resumeAsync and reconnectAsync open it *)
(* again, or fail to.                                                      *)
TakeLifecycleJob ==
  /\ worker.pc = "idle" /\ jobs # << >> /\ Head(jobs).kind # "command"
  /\ jobs' = Tail(jobs)
  /\ \/ /\ Head(jobs).kind = "suspend"
        /\ connected' = FALSE
        /\ Post("suspendCompleted", None, "RESP_SUCCESS") /\ UNCHANGED faults
     \/ /\ Head(jobs).kind \in {"resume", "reconnect"}
        /\ \/ connected' = TRUE /\ UNCHANGED faults
           \/ connected' = FALSE /\ Fault
        /\ IF Head(jobs).kind = "resume"
             THEN Post("resumeWorkerComplete", None, IF connected' THEN "RESP_SUCCESS" ELSE "RESP_ERROR")
             ELSE UNCHANGED work
  /\ UNCHANGED <<workerRest, worker, calls, throttlerVars>>

(* The next attempt takes its slot and sleeps until it comes.              *)
ReserveAttempt ==
  /\ worker.pc = "reserve"
  /\ worker' = [worker EXCEPT !.pc = "call", !.call = FirstCall(worker.job.msg), !.wait = untilFree]
  /\ ReserveSlot
  /\ UNCHANGED <<workerRest, jobs, connected, calls, work, faults>>

Calling == worker.pc = "call" /\ worker.wait = 0 /\ worker.call \notin {Succeeded, Failed}

(* The call returned ok.  The history keeps what reached the bus, and      *)
(* whether libcec said so.                                                 *)
Called(ok, delivered) ==
  /\ worker' = [worker EXCEPT !.call = NextCall(worker.job.msg, worker.call, ok)]
  /\ calls' = [calls EXCEPT ![worker.job.client] =
                 Append(@, [call |-> worker.call, ok |-> ok, delivered |-> delivered])]

(* callIfConnected without a connection.                                   *)
CallNotConnected ==
  /\ Calling /\ worker.call.op # "reopen" /\ ~connected
  /\ Called(FALSE, FALSE)
  /\ UNCHANGED <<workerRest, jobs, connected, work, throttlerVars, faults>>

(* libcec: acknowledged; lost; delivered with the acknowledgement lost.    *)
CallLibcec ==
  /\ Calling /\ worker.call.op # "reopen" /\ connected
  /\ \/ Called(TRUE, TRUE) /\ UNCHANGED faults
     \/ Called(FALSE, FALSE) /\ Fault
     \/ Called(FALSE, TRUE) /\ Fault
  /\ UNCHANGED <<workerRest, jobs, connected, work, throttlerVars>>

(* An exception of libcec ends the command in executeOnAdapter.            *)
CallThrows ==
  /\ Calling /\ worker.call.op # "reopen" /\ connected
  /\ Fault
  /\ Finish(worker.job, "RESP_ERROR")
  /\ UNCHANGED <<workerRest, jobs, connected, calls, throttlerVars>>

(* handleRestartAdapter: reopenConnection.                                 *)
Reopen ==
  /\ Calling /\ worker.call.op = "reopen"
  /\ \/ Called(TRUE, TRUE) /\ connected' = TRUE /\ UNCHANGED faults
     \/ Called(FALSE, FALSE) /\ connected' = FALSE /\ Fault
  /\ UNCHANGED <<workerRest, jobs, work, throttlerVars>>

Throttled == worker.job.msg.type # "CMD_RESTART_ADAPTER"

EndOfRestart ==
  /\ worker.pc = "call" /\ worker.call \in {Succeeded, Failed} /\ ~Throttled
  /\ Finish(worker.job, IF worker.call = Succeeded THEN "RESP_SUCCESS" ELSE "RESP_ERROR")
  /\ UNCHANGED <<workerRest, jobs, connected, calls, throttlerVars, faults>>

CommandSucceeded ==
  /\ worker.pc = "call" /\ worker.call = Succeeded /\ Throttled
  /\ AttemptSucceeded
  /\ Finish(worker.job, "RESP_SUCCESS")
  /\ UNCHANGED <<workerRest, jobs, connected, calls, faults>>

(* Mutant: an attempt that succeeded is taken for one that failed.         *)
RetryAnyway ==
  /\ worker.pc = "call" /\ worker.wait = 0 /\ worker.call \in {Succeeded, Failed} /\ Throttled
  /\ AttemptFailed
  /\ worker' = [worker EXCEPT !.pc = "backoff", !.wait = RetryDelay(worker.attempt)]
  /\ UNCHANGED <<workerRest, jobs, connected, calls, work, faults>>

AttemptFails ==
  /\ worker.pc = "call" /\ worker.wait = 0 /\ worker.call = Failed /\ Throttled
  /\ AttemptFailed
  /\ worker' = [worker EXCEPT !.pc = "backoff", !.wait = RetryDelay(worker.attempt)]
  /\ UNCHANGED <<workerRest, jobs, connected, calls, work, faults>>

Retry ==
  /\ worker.pc = "backoff" /\ worker.wait = 0
  /\ worker.attempt + 1 < maxRetryAttempts
  /\ worker' = [worker EXCEPT !.pc = "reserve", !.attempt = @ + 1]
  /\ UNCHANGED <<workerRest, jobs, connected, calls, work, throttlerVars, faults>>

GiveUp ==
  /\ worker.pc = "backoff" /\ worker.wait = 0
  /\ worker.attempt + 1 >= maxRetryAttempts
  /\ RetriesExhausted
  /\ Finish(worker.job, "RESP_ERROR")
  /\ UNCHANGED <<workerRest, jobs, connected, calls, faults>>

(* cecAlertCallback, on libcec's thread.                                   *)
ConnectionLost ==
  /\ connected
  /\ connected' = FALSE
  /\ Fault
  /\ UNCHANGED <<workerRest, jobs, worker, calls, work, throttlerVars>>

Tick ==
  /\ untilFree > 0 \/ worker.wait > 0
  /\ TimePasses
  /\ worker' = [worker EXCEPT !.wait = Max({@ - 1, 0})]
  /\ UNCHANGED <<workerRest, jobs, connected, calls, work, faults>>

-----------------------------------------------------------------------------
ClientStep(c) ==
  \/ \E line \in Lines : RunClient(c, line)
  \/ \E bytes \in HandRolled : SendBytes(c, bytes)
  \/ ResponseTimeout(c)
  \/ HandleRequest(c)

WorkerStep ==
  \/ TakeCommand \/ TakeLifecycleJob \/ ReserveAttempt
  \/ CallNotConnected \/ CallLibcec \/ CallThrows \/ Reopen
  \/ EndOfRestart \/ CommandSucceeded \/ AttemptFails \/ Retry \/ GiveUp

Next ==
  \/ \E c \in Clients : ClientStep(c)
  \/ SuspendAsync \/ ResumeAsync \/ ReconnectAsync \/ RunClosure
  \/ WorkerStep \/ ConnectionLost \/ Tick

Spec == Init /\ [][Next]_vars

-----------------------------------------------------------------------------
(* Properties *)

InputKeys == [s \in 0 .. 5 |-> <<105, 106, 33, 34, 35, 36>>[s + 1]]

(* The DEVICE_ID of a line: the television when a key has none.            *)
TypedDevice(line) ==
  LET a == line.args IN
  CASE line.name \in {"power", "volume"}    -> a[2].number
    [] line.name = "source"                 -> a[1].number
    [] line.name = "key" /\ Len(a) = 2      -> a[2].number
    [] OTHER                                -> TV

(* Where the operations send it: setVolume and setMute do not use the      *)
(* device of the message and setSource is not given it.                    *)
AddressedDevice(line) ==
  CASE line.name = "volume" -> AudioSystem
    [] line.name = "source" -> TV
    [] OTHER                -> TypedDevice(line)

(* The calls the user's guide promises for a line, made to a device.       *)
CallsFor(line, device) ==
  LET a == line.args IN
  CASE line.name = "power"   -> {CallTo(IF a[1].text = "on" THEN "powerOn" ELSE "standby", device, 0)}
    [] line.name = "volume"  ->
         {CallTo([up |-> "volumeUp", down |-> "volumeDown", mute |-> "toggleMute"][a[1].text], device, 0)}
    [] line.name = "source"  ->
         IF a[2].number \notin 0 .. 5 THEN {}
         ELSE {Press(device, InputKeys[a[2].number])}
                \cup (IF a[2].number > 1 THEN {CallTo("setStreamPath", device, (a[2].number - 1) * 4096)} ELSE {})
    [] line.name = "key"     ->
         {Press(device, [blue |-> 113, red |-> 114, green |-> 115, yellow |-> 116][a[1].text])}
    [] line.name = "restart" -> {CallTo("reopen", 0, 0)}
    [] OTHER                 -> {}

(* What the words mean, and what of it the daemon can do: the same but for *)
(* a volume or source command that names another device.                   *)
Meant(line) == CallsFor(line, TypedDevice(line))
Doable(line) == CallsFor(line, AddressedDevice(line))

(* Calls that go with another one and do nothing by themselves.            *)
Auxiliary(call) == call.op = "release" \/ call = Press(0, 52)

(* What any bytes whatever may cause (the comment in handleKey: "so an     *)
(* arbitrary byte cannot drive an unvetted libcec user-control code onto   *)
(* the bus").                                                              *)
Vettable(call) ==
  CASE call.op = "press" -> \/ call.arg \in KeyCodes
                            \/ call.device = 0 /\ call.arg \in {InputKeys[s] : s \in 0 .. 5}
    [] call.op = "setStreamPath" -> call.arg \in {n * 4096 : n \in 1 .. 4}
    [] OTHER -> TRUE

(* From the words typed, through message, bytes, table and handler, over   *)
(* two threads and any number of retries and replays: every call made for  *)
(* a client is one its words mean, and bytes that no client of this        *)
(* repository wrote cause only vetted calls.  The DEVICE_ID of a power or  *)
(* key command is part of that; a volume or source command goes to the     *)
(* audio system or the television, as typed or not (DeviceAsTyped below).  *)
OnlyWhatWasSaid ==
  \A c \in Clients : \A i \in DOMAIN calls[c] :
    LET call == calls[c][i].call IN
    \/ Auxiliary(call)
    \/ IF said[c].name = "bytes" THEN Vettable(call) ELSE call \in Doable(said[c])

(* "Command executed successfully" and exit status 0: libcec acknowledged  *)
(* a call that does what was typed, by the device of Doable, unless the    *)
(* command was accepted for after the resume.  A timeout, a retry or a     *)
(* lost link never turns into a success.                                   *)
SuccessIsTrue ==
  \A c \in Clients :
    outcome[c] = "success" /\ c \notin accepted /\ Doable(said[c]) # {} =>
      \E i \in DOMAIN calls[c] : calls[c][i].ok /\ calls[c][i].call \in Doable(said[c])

Delivered(c) == Cardinality({i \in DOMAIN calls[c] : calls[c][i].delivered})
FalseFailures(c) == Cardinality({i \in DOMAIN calls[c] : calls[c][i].delivered /\ ~calls[c][i].ok})

(* Volume steps and the mute toggle are not idempotent, and the throttler  *)
(* repeats what libcec reports as failed.  Each report of a failure that   *)
(* was none costs at most one repetition; without one, a command takes     *)
(* effect once when its client is told of success, never when it is        *)
(* refused, and at most once when the client gave up waiting.              *)
OnceUnlessMisreported ==
  \A c \in Clients : said[c].name \in {"power", "volume"} =>
    /\ Delivered(c) <= 1 + FalseFailures(c)
    /\ FalseFailures(c) = 0 =>
         /\ outcome[c] = "refused" => Delivered(c) = 0
         /\ outcome[c] = "success" /\ c \notin accepted => Delivered(c) = 1

(* Attempts, of one command or of several, have slots at least the         *)
(* interval of the earlier one apart, and the interval stays between the   *)
(* configured base and maximum however many failures came before           *)
(* (CommandThrottler::currentInterval, reserveSlotAndSleep).               *)
SlotsSpaced ==
  [][worker.pc = "reserve" /\ worker'.pc = "call" =>
       /\ slot.ago + worker'.wait >= slot.interval
       /\ slot'.interval \in baseInterval .. LongestInterval]_vars

-----------------------------------------------------------------------------
(* What the code does not keep.  "volume up 5  Increase volume on device   *)
(* 5" (help_printer.cpp:121), and "Change inputs on TVs and receivers"     *)
(* (README.md:9) with DEVICE_ID in both lines of its command reference:    *)
(* the calls of a client go to the device it typed.  `volume up 0` turns   *)
(* up the audio system, `source 5 2` switches the television, and both     *)
(* are reported as done.                                                   *)
DeviceAsTyped ==
  \A c \in Clients : \A i \in DOMAIN calls[c] :
    LET call == calls[c][i].call IN
    said[c].name # "bytes" /\ ~Auxiliary(call) => call \in Meant(said[c])
=============================================================================
