------------------------------ MODULE Commands ------------------------------
(***************************************************************************)
(* What a command is on its way from the command line to the CEC bus: the  *)
(* words typed (command_registry), the message and its bytes (messages),   *)
(* the row of the daemon's dispatch table (command_dispatch) and the calls *)
(* to libcec that carry it out (operations).                               *)
(***************************************************************************)
EXTENDS Integers, Sequences

(* An argument of the command line: its text, and the number std::stoi     *)
(* reads in all of it (below zero when there is none).                     *)
Text(s) == [text |-> s, number |-> -1]
Number(n) == [text |-> "", number |-> n]

Line(name, args) == [name |-> name, args |-> args]

CommandLine == [name : STRING, args : Seq([text : STRING, number : Int])]

Message(type, id, data) == [type |-> type, deviceId |-> id, data |-> data]

NoMessage == Message("none", 0, << >>)

-----------------------------------------------------------------------------
(* command_registry.cpp, key_codes.cpp *)

kKeyCodes == [blue |-> 113, red |-> 114, green |-> 115, yellow |-> 116]
KeyCodes == {kKeyCodes[name] : name \in DOMAIN kKeyCodes}

parseBoundedUint8(arg, max) == arg.number \in 0 .. max

parseDeviceId(arg) == parseBoundedUint8(arg, 15)

VolumeActions == [up |-> "CMD_VOLUME_UP", down |-> "CMD_VOLUME_DOWN", mute |-> "CMD_VOLUME_MUTE"]
PowerActions == [on |-> "CMD_POWER_ON", off |-> "CMD_POWER_OFF"]
StandbyFlags == [on |-> 1, off |-> 0]

parseAction(args, actions) ==
  IF Len(args) = 2 /\ args[1].text \in DOMAIN actions /\ parseDeviceId(args[2])
    THEN Message(actions[args[1].text], args[2].number, << >>)
    ELSE NoMessage

parseVolume(args) == parseAction(args, VolumeActions)

parsePower(args) == parseAction(args, PowerActions)

parseSource(args) ==
  IF Len(args) = 2 /\ parseDeviceId(args[1]) /\ parseBoundedUint8(args[2], 255)
    THEN Message("CMD_CHANGE_SOURCE", args[1].number, <<args[2].number>>)
    ELSE NoMessage

(* The device may be left out: the television, then.                       *)
parseKey(args) ==
  IF /\ Len(args) \in 1 .. 2
     /\ args[1].text \in DOMAIN kKeyCodes
     /\ Len(args) = 2 => parseDeviceId(args[2])
    THEN Message("CMD_KEY", IF Len(args) = 2 THEN args[2].number ELSE 0,
                 <<kKeyCodes[args[1].text]>>)
    ELSE NoMessage

parseAutoStandby(args) ==
  IF Len(args) = 1 /\ args[1].text \in DOMAIN StandbyFlags
    THEN Message("CMD_AUTO_STANDBY", 0, <<StandbyFlags[args[1].text]>>)
    ELSE NoMessage

parseNoArgs(args, type) == IF args = << >> THEN Message(type, 0, << >>) ELSE NoMessage

kCommands ==
  [power   |-> {"CMD_POWER_ON", "CMD_POWER_OFF"},
   volume  |-> {"CMD_VOLUME_UP", "CMD_VOLUME_DOWN", "CMD_VOLUME_MUTE"},
   source  |-> {"CMD_CHANGE_SOURCE"},
   key     |-> {"CMD_KEY"},
   standby |-> {"CMD_AUTO_STANDBY"},     \* "auto-standby"
   restart |-> {"CMD_RESTART_ADAPTER"},
   suspend |-> {"CMD_SUSPEND"},
   resume  |-> {"CMD_RESUME"}]

(* ArgumentParser::parse for a client command: NoMessage is a ParseError.  *)
parse(line) ==
  CASE line.name = "power"   -> parsePower(line.args)
    [] line.name = "volume"  -> parseVolume(line.args)
    [] line.name = "source"  -> parseSource(line.args)
    [] line.name = "key"     -> parseKey(line.args)
    [] line.name = "standby" -> parseAutoStandby(line.args)
    [] line.name = "restart" -> parseNoArgs(line.args, "CMD_RESTART_ADAPTER")
    [] line.name = "suspend" -> parseNoArgs(line.args, "CMD_SUSPEND")
    [] line.name = "resume"  -> parseNoArgs(line.args, "CMD_RESUME")
    [] OTHER                 -> NoMessage

-----------------------------------------------------------------------------
(* messages.h, messages.cpp *)

MessageType ==
  [CMD_VOLUME_UP |-> 1, CMD_VOLUME_DOWN |-> 2, CMD_VOLUME_MUTE |-> 3,
   CMD_POWER_ON |-> 4, CMD_POWER_OFF |-> 5, CMD_CHANGE_SOURCE |-> 6,
   CMD_RESTART_ADAPTER |-> 7, CMD_SUSPEND |-> 8, CMD_RESUME |-> 9,
   CMD_AUTO_STANDBY |-> 10, CMD_KEY |-> 11,
   RESP_SUCCESS |-> 100, RESP_ERROR |-> 101]

MAX_MESSAGE_SIZE == 1024

isKnownMessageType(byte) == \E t \in DOMAIN MessageType : MessageType[t] = byte

serialize(m) == <<MessageType[m.type], m.deviceId>> \o m.data

deserialize(bytes) ==
  IF Len(bytes) \in 2 .. MAX_MESSAGE_SIZE /\ isKnownMessageType(bytes[1])
    THEN Message(CHOOSE t \in DOMAIN MessageType : MessageType[t] = bytes[1],
                 bytes[2], SubSeq(bytes, 3, Len(bytes)))
    ELSE NoMessage

-----------------------------------------------------------------------------
(* command_dispatch.cpp *)

Row(dispatch, queueable, connection) ==
  [dispatch |-> dispatch, queueableWhileSuspended |-> queueable,
   requiresAdapterConnection |-> connection]

kDispatchTable ==
  [CMD_POWER_ON        |-> Row("AdapterCall", TRUE, TRUE),
   CMD_POWER_OFF       |-> Row("AdapterCall", TRUE, TRUE),
   CMD_VOLUME_UP       |-> Row("AdapterCall", TRUE, TRUE),
   CMD_VOLUME_DOWN     |-> Row("AdapterCall", TRUE, TRUE),
   CMD_VOLUME_MUTE     |-> Row("AdapterCall", TRUE, TRUE),
   CMD_CHANGE_SOURCE   |-> Row("AdapterCall", FALSE, TRUE),
   CMD_KEY             |-> Row("AdapterCall", FALSE, TRUE),
   CMD_RESTART_ADAPTER |-> Row("AdapterCall", FALSE, FALSE),
   CMD_AUTO_STANDBY    |-> Row("StateOnly", FALSE, FALSE),
   CMD_SUSPEND         |-> Row("SupervisorIntercepted", FALSE, FALSE),
   CMD_RESUME          |-> Row("SupervisorIntercepted", FALSE, FALSE)]

(* start() refuses to run on a table that does not match the registry.     *)
validateDispatchTable == DOMAIN kDispatchTable = UNION {kCommands[c] : c \in DOMAIN kCommands}

ASSUME DispatchTableIsValid == validateDispatchTable

(* Mutant: any code is a key.                                              *)
VettedAnyKey(m) == m.type \in {"CMD_CHANGE_SOURCE", "CMD_KEY"} => m.data # << >>

(* handleChangeSource and handleKey: a payload has to be there, and a key  *)
(* has to be one of kKeyCodes.                                             *)
Vetted(m) ==
  /\ m.type \in {"CMD_CHANGE_SOURCE", "CMD_KEY"} => m.data # << >>
  /\ m.type = "CMD_KEY" => m.data[1] \in KeyCodes

-----------------------------------------------------------------------------
(* operations.cpp: the calls an attempt makes, one after the other.        *)

CallTo(op, device, arg) == [op |-> op, device |-> device, arg |-> arg]

TV == 0

(* libcec's volume calls take no device: they go to the audio system.      *)
AudioSystem == 5

Press(device, key) == CallTo("press", device, key)
Release(device) == CallTo("release", device, 0)

Succeeded == CallTo("succeeded", 0, 0)
Failed == CallTo("failed", 0, 0)

SELECT_AV_INPUT == 105
SELECT_AUDIO_INPUT == 106
INPUT_SELECT == 52
NUMBER0 == 32

kFirstHdmiSource == 2
kLastHdmiSource == 5

hdmiPhysicalAddress(source) == (source - kFirstHdmiSource + 1) * 4096
hdmiNumberKey(source) == NUMBER0 + source - kFirstHdmiSource + 1

SourceCall(source) ==
  CASE source = 0 -> Press(TV, SELECT_AV_INPUT)
    [] source = 1 -> Press(TV, SELECT_AUDIO_INPUT)
    [] source \in kFirstHdmiSource .. kLastHdmiSource ->
         CallTo("setStreamPath", TV, hdmiPhysicalAddress(source))
    [] OTHER -> Failed

FirstCall(m) ==
  CASE m.type = "CMD_POWER_ON"        -> CallTo("powerOn", m.deviceId, 0)
    [] m.type = "CMD_POWER_OFF"       -> CallTo("standby", m.deviceId, 0)
    [] m.type = "CMD_VOLUME_UP"       -> CallTo("volumeUp", AudioSystem, 0)
    [] m.type = "CMD_VOLUME_DOWN"     -> CallTo("volumeDown", AudioSystem, 0)
    [] m.type = "CMD_VOLUME_MUTE"     -> CallTo("toggleMute", AudioSystem, 0)
    [] m.type = "CMD_CHANGE_SOURCE"   -> SourceCall(m.data[1])
    [] m.type = "CMD_KEY"             -> Press(m.deviceId, m.data[1])
    [] m.type = "CMD_RESTART_ADAPTER" -> CallTo("reopen", 0, 0)

(* Mutant: the result of a key press is not looked at.                     *)
NextCallPressUnchecked(m, call, ok) ==
  CASE call.op = "release" -> Succeeded
    [] call.op = "setStreamPath" /\ ~ok -> Press(TV, INPUT_SELECT)
    [] call = Press(TV, INPUT_SELECT) -> Press(TV, hdmiNumberKey(m.data[1]))
    [] call.op = "press" /\ call # Press(TV, INPUT_SELECT) -> Release(call.device)
    [] OTHER -> IF ok THEN Succeeded ELSE Failed

(* A key is pressed and released, whatever becomes of the release; a       *)
(* refused stream path is tried again with INPUT_SELECT and a number key.  *)
NextCall(m, call, ok) ==
  CASE call.op = "release" -> Succeeded
    [] call.op = "setStreamPath" /\ ~ok -> Press(TV, INPUT_SELECT)
    [] call = Press(TV, INPUT_SELECT) /\ ok -> Press(TV, hdmiNumberKey(m.data[1]))
    [] call.op = "press" /\ call # Press(TV, INPUT_SELECT) /\ ok -> Release(call.device)
    [] OTHER -> IF ok THEN Succeeded ELSE Failed
=============================================================================
