----------------------------- MODULE MCCecDaemon -----------------------------
(***************************************************************************)
(* Instances of CecDaemon for TLC: a budget says how often each input of   *)
(* the environment may happen, and a run explores all budgets of its set.  *)
(***************************************************************************)
EXTENDS CecDaemon

NoInput == [i \in Input |-> 0]

(* Two sleeps of logind around a suspend and a resume asked by a client.   *)
SuspendBudget == [NoInput EXCEPT !["sleep"] = 2, !["suspend"] = 1, !["resume"] = 1]

(* The link is lost twice, with a sleep and a resume asked by a client.    *)
ReconnectBudget == [NoInput EXCEPT !["sleep"] = 1, !["lost"] = 2, !["resume"] = 1]

(* Commands around a suspend and a resume asked by a client.               *)
CommandBudget == [NoInput EXCEPT !["suspend"] = 1, !["resume"] = 1,
                                 !["command"] = 3, !["restart"] = 1]

DaemonBudgets == {SuspendBudget, ReconnectBudget, CommandBudget}

(* Two sleeps and a suspend asked by a client, a sleep among a suspend and *)
(* a resume of clients, or a little of everything else.                    *)
LivenessBudgets ==
  {[NoInput EXCEPT !["sleep"] = 2, !["suspend"] = 1],
   [NoInput EXCEPT !["sleep"] = 1, !["suspend"] = 1, !["resume"] = 1],
   [NoInput EXCEPT !["sleep"] = 1, !["lost"] = 1, !["command"] = 1]}

LostTwice == {[NoInput EXCEPT !["lost"] = 2]}

LostWhileSuspended == {[NoInput EXCEPT !["lost"] = 1, !["suspend"] = 1]}
=============================================================================
