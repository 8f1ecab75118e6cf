---------------------------- MODULE AdapterWorker ----------------------------
(***************************************************************************)
(* The adapter's own thread (class AdapterWorker), the part of             *)
(* LibCecAdapter that opens and closes the connection, and libcec's alert  *)
(* thread.  Jobs run one at a time, in the order they were submitted; the  *)
(* result of a job is posted to the main thread.                           *)
(*                                                                         *)
(* A libcec call may take any time, so a job is several steps:             *)
(*   suspend             close, closing, report                            *)
(*   resume              reopen, destroy, open, mark, check, report        *)
(*   reconnect, restart  reopen, destroy, open, mark, report               *)
(*   command, replay     report                                            *)
(* libcec is external: Open succeeds or fails, Close and CECDestroy return *)
(* when the alert thread is quiet, an open link may be lost at any time.   *)
(***************************************************************************)
EXTENDS MainLoop

VARIABLES
  jobs,      \* m_jobs
  job,       \* the job run() has popped, or NoJob
  wpc,       \* where in that job the worker is
  wok,       \* what the job will report: opened, or still connected
  connected, \* LibCecAdapter::m_connected, the atomic flag
  link,      \* libcec: "none", "open", or "lost" (open, but the wire is gone)
  alerting   \* the alert callback has cleared m_connected, not yet posted

workerVars == <<jobs, job, wpc, wok>>
adapterVars == <<connected, link, alerting>>

JobKind == {"suspend", "resume", "reconnect", "restart", "command", "replay"}
Job == [kind : JobKind, id : Nat]
NoJob == [kind |-> "none", id |-> 0]
WorkerPc == {"idle", "close", "closing", "reopen", "destroy", "open", "mark",
             "check", "report", "exited"}

WorkerInit ==
  /\ jobs = << >>
  /\ job = NoJob
  /\ wpc = "idle"
  /\ wok = FALSE
  /\ connected = TRUE
  /\ link = "open"
  /\ alerting = FALSE

FirstStep(kind) ==
  CASE kind = "suspend" -> "close"
    [] kind \in {"resume", "reconnect", "restart"} -> "reopen"
    [] OTHER -> "report"

-----------------------------------------------------------------------------
(* AdapterWorker::run, top of the loop.                                    *)
TakeJob ==
  /\ wpc = "idle"
  /\ loop \in {"running", "stopRequested"}
  /\ jobs # << >>
  /\ job' = Head(jobs)
  /\ jobs' = Tail(jobs)
  /\ wpc' = FirstStep(Head(jobs).kind)
  /\ UNCHANGED <<wok, connected, link, alerting, work>>

(* LibCecAdapter::closeConnection: nothing to close when the alert thread  *)
(* has already cleared the flag.                                           *)
CloseConnection ==
  /\ wpc = "close"
  /\ connected' = FALSE
  /\ wpc' = IF connected THEN "closing" ELSE "report"
  /\ UNCHANGED <<jobs, job, wok, link, alerting, work>>

LibcecClose ==
  /\ wpc = "closing"
  /\ ~alerting
  /\ link' = "none"
  /\ wpc' = "report"
  /\ UNCHANGED <<jobs, job, wok, connected, alerting, work>>

(* LibCecAdapter::reopenConnection.                                        *)
ReopenConnection ==
  /\ wpc = "reopen"
  /\ connected' = FALSE
  /\ wpc' = "destroy"
  /\ UNCHANGED <<jobs, job, wok, link, alerting, work>>

LibcecDestroy ==
  /\ wpc = "destroy"
  /\ ~alerting
  /\ link' = "none"
  /\ wpc' = "open"
  /\ UNCHANGED <<jobs, job, wok, connected, alerting, work>>

AfterOpen == IF job.kind = "resume" THEN "check" ELSE "report"

(* CECInitialise, detectAdapter or Open failed.                            *)
OpenFails ==
  /\ wpc = "open"
  /\ wok' = FALSE
  /\ wpc' = AfterOpen
  /\ UNCHANGED <<jobs, job, connected, link, alerting, work>>

OpenSucceeds ==
  /\ wpc = "open"
  /\ link' = "open"
  /\ wpc' = "mark"
  /\ UNCHANGED <<jobs, job, wok, connected, alerting, work>>

(* openConnection stores m_connected after Open has returned, when the     *)
(* alert thread of the new connection is already running.                  *)
MarkConnected ==
  /\ wpc = "mark"
  /\ connected' = TRUE
  /\ wok' = TRUE
  /\ wpc' = AfterOpen
  /\ UNCHANGED <<jobs, job, link, alerting, work>>

(* resumeAsync reads isConnected() again after the power-on broadcast.     *)
CheckConnected ==
  /\ wpc = "check"
  /\ wok' = connected
  /\ wpc' = "report"
  /\ UNCHANGED <<jobs, job, connected, link, alerting, work>>

Report(kind, ok) ==
  CASE kind = "suspend"   -> "suspendCompleted"
    [] kind = "resume"    -> IF ok THEN "resumeWorkerValid" ELSE "resumeWorkerInvalid"
    [] kind = "reconnect" -> IF ok THEN "attemptSucceeded" ELSE "attemptFailed"
    [] OTHER              -> "reply"

(* Mutants: a replayed command is answered again; a command that finds the *)
(* adapter disconnected is not answered.                                   *)
FinishJobAnswersReplay ==
  /\ wpc = "report"
  /\ Post(Report(job.kind, wok), job.id)
  /\ job' = NoJob
  /\ wpc' = "idle"
  /\ UNCHANGED <<jobs, wok, connected, link, alerting>>

FinishJobDropsError ==
  /\ wpc = "report"
  /\ IF job.kind = "replay" \/ (job.kind = "command" /\ ~connected)
     THEN UNCHANGED work ELSE Post(Report(job.kind, wok), job.id)
  /\ job' = NoJob
  /\ wpc' = "idle"
  /\ UNCHANGED <<jobs, wok, connected, link, alerting>>

(* The last thing a job does is to post its result; a replayed command was *)
(* answered when it was queued, nobody waits for it.                       *)
FinishJob ==
  /\ wpc = "report"
  /\ IF job.kind = "replay" THEN UNCHANGED work
                            ELSE Post(Report(job.kind, wok), job.id)
  /\ job' = NoJob
  /\ wpc' = "idle"
  /\ UNCHANGED <<jobs, wok, connected, link, alerting>>

(* AdapterWorker::run after stop(): pending jobs are dropped, the adapter  *)
(* is closed.  Stopped in CecDaemon is the rest of that close.            *)
WorkerExit ==
  /\ loop = "stopping"
  /\ wpc = "idle"
  /\ jobs' = << >>
  /\ connected' = FALSE
  /\ wpc' = "exited"
  /\ UNCHANGED <<job, wok, link, alerting, work>>

WorkerStep ==
  \/ TakeJob \/ CloseConnection \/ LibcecClose
  \/ ReopenConnection \/ LibcecDestroy \/ OpenFails \/ OpenSucceeds
  \/ MarkConnected \/ CheckConnected \/ FinishJob \/ WorkerExit

-----------------------------------------------------------------------------
(* cecAlertCallback(CEC_ALERT_CONNECTION_LOST), on libcec's alert thread.  *)
AlertClearsFlag ==
  /\ link = "open"
  /\ ~alerting
  /\ link' = "lost"
  /\ connected' = FALSE
  /\ alerting' = TRUE
  /\ UNCHANGED <<jobs, job, wpc, wok, work>>

AlertPosts ==
  /\ alerting
  /\ alerting' = FALSE
  /\ Post("connectionLost", 0)
  /\ UNCHANGED <<jobs, job, wpc, wok, connected, link>>

-----------------------------------------------------------------------------
(* AdapterWorker::submit.                                                  *)
Submit(kind, id) == jobs' = Append(jobs, [kind |-> kind, id |-> id])

WorkerTypeOK ==
  /\ jobs \in Seq(Job)
  /\ job \in Job \cup {NoJob}
  /\ wpc \in WorkerPc
  /\ job = NoJob <=> wpc \in {"idle", "exited"}
  /\ wok \in BOOLEAN
  /\ connected \in BOOLEAN
  /\ link \in {"none", "open", "lost"}
  /\ alerting \in BOOLEAN
=============================================================================
