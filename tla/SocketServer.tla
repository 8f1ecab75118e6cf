---------------------------- MODULE SocketServer ----------------------------
(***************************************************************************)
(* SocketServer: the listener and the client sessions, all on the main     *)
(* thread, and the part of EventLoop and epoll they rest on.               *)
(*                                                                         *)
(* Handlers are found by file descriptor, sessions by a number that is     *)
(* never used twice.  The kernel gives a new connection the lowest free    *)
(* descriptor, and the events of one epoll_wait are dispatched one by one, *)
(* so an event may be dispatched after its descriptor changed hands.       *)
(*                                                                         *)
(* A client connects once, may send several requests without waiting, and  *)
(* may leave at any time.  A request is the pair of its client and its     *)
(* place among that client's requests.                                     *)
(***************************************************************************)
EXTENDS Naturals, Sequences, FiniteSets, FiniteSetsExt, SequencesExt

CONSTANTS
  Clients,
  kMaxConnections,
  MaxRequests,     \* requests one client sends
  MaxUnread,       \* responses the kernel holds for a client before EAGAIN
  MaxFaults,       \* epoll_ctl, timerfd and accept failures in a run
  Kinds            \* what clients send: a subset of {"valid", "bad"}

ASSUME SocketServerAssumption ==
  /\ kMaxConnections \in Nat \ {0}
  /\ MaxRequests \in Nat
  /\ MaxUnread \in Nat \ {0}
  /\ MaxFaults \in Nat
  /\ Kinds \subseteq {"valid", "bad"}

VARIABLES
  peer,        \* a client's end: "none", "open", "closed", or "reset" when it
               \* closed with responses unread
  requests,    \* datagrams of a client the server has not read
  sent,        \* how many requests a client has sent
  unread,      \* responses a client has not read
  answered,    \* every response a client was sent
  backlog,     \* connections not accepted yet
  server,      \* "created", "listening" or "stopped"
  sessions,    \* m_sessions, by session number
  nextId,      \* m_nextId
  registered,  \* m_handlers and the epoll masks of session descriptors, by fd
  idleTimer,   \* m_idleTimer: "off", "armed" or "expired"
  ready,       \* events of the last epoll_wait not dispatched yet
  handler,     \* what the main thread runs: "none", "accept" or "drain"
  batch,       \* closures left in the batch that drain() swapped out
  work,        \* replies posted to MainThreadWork
  deferred,    \* requests the worker has still to complete
  faults       \* failures the environment may still inject

clientVars == <<peer, requests, sent, unread, answered, backlog>>
serverVars == <<server, sessions, nextId, registered, idleTimer>>
loopVars == <<ready, handler, batch, work>>
vars == <<clientVars, serverVars, loopVars, deferred, faults>>

Request == [client : Clients, n : 1 .. MaxRequests]
None == [client |-> "none", n |-> 0]
(* Descriptors: the main loop's own, then those of sessions.               *)
ListenerFd == 1
TimerFd == 2
WorkFd == 3
SessionFds == 4 .. 3 + kMaxConnections
Bits == {"READ", "WRITE", "HANGUP"}

Session(fd, client) ==
  [fd |-> fd, client |-> client, pendingResponse |-> None,
   requestInFlight |-> FALSE, idle |-> FALSE]

Empty == [x \in {} |-> x]

Init ==
  /\ peer = [c \in Clients |-> "none"]
  /\ requests = [c \in Clients |-> << >>]
  /\ sent = [c \in Clients |-> 0]
  /\ unread = [c \in Clients |-> << >>]
  /\ answered = [c \in Clients |-> << >>]
  /\ backlog = << >>
  /\ server = "created"
  /\ sessions = Empty
  /\ nextId = 1
  /\ registered = Empty
  /\ idleTimer = "off"
  /\ ready = {}
  /\ handler = "none"
  /\ batch = 0
  /\ work = << >>
  /\ deferred = {}
  /\ faults = MaxFaults

-----------------------------------------------------------------------------
(* Helpers: maps without one key or with one more, and failures.           *)

Without(f, x) == [y \in DOMAIN f \ {x} |-> f[y]]
With(f, x, v) == [y \in DOMAIN f \cup {x} |-> IF y = x THEN v ELSE f[y]]

Succeeds == UNCHANGED faults
Fails == faults > 0 /\ faults' = faults - 1

AtDispatchPoint == server = "listening" /\ handler = "none"

Gone(c) == peer[c] \in {"closed", "reset"}

ServerEndOpen(c) ==
  c \in Range(backlog) \/ \E id \in DOMAIN sessions : sessions[id].client = c

-----------------------------------------------------------------------------
(* EventLoop and epoll.                                                    *)

(* eventsToEpoll, the kernel's view of the socket, and epollToEvents: a    *)
(* hang-up is reported whatever the mask.                                  *)
EventsOf(fd) ==
  LET c == sessions[registered[fd].id].client
      readable == requests[c] # << >> \/ Gone(c)
      writable == Len(unread[c]) < MaxUnread \/ Gone(c)
  IN  {b \in Bits : \/ b = "READ" /\ readable /\ "READ" \in registered[fd].mask
                    \/ b = "WRITE" /\ writable /\ "WRITE" \in registered[fd].mask
                    \/ b = "HANGUP" /\ Gone(c)}

Ready(fd, isReady) == {e \in {[fd |-> fd, events |-> {"READ"}]} : isReady}

Readable ==
  {[fd |-> f, events |-> EventsOf(f)] : f \in {g \in DOMAIN registered : EventsOf(g) # {}}}
    \cup Ready(ListenerFd, backlog # << >>)
    \cup Ready(TimerFd, idleTimer = "expired")
    \cup Ready(WorkFd, work # << >>)

Poll ==
  /\ AtDispatchPoint
  /\ ready = {}
  /\ Readable # {}
  /\ ready' = Readable
  /\ UNCHANGED <<clientVars, serverVars, handler, batch, work, deferred, faults>>

(* EventLoop::add refuses a descriptor that has a handler.                 *)
LoopAdd(fd, id, mask) ==
  /\ fd \notin DOMAIN registered
  /\ registered' = With(registered, fd, [id |-> id, mask |-> mask])

LoopModify(fd, mask) ==
  /\ fd \in DOMAIN registered
  /\ registered' = [registered EXCEPT ![fd].mask = mask]

LoopRemove(fd) == registered' = Without(registered, fd)

-----------------------------------------------------------------------------
(* Sessions.                                                               *)

(* Mutant: the handler stays in the loop.                                  *)
CloseKeepsHandler(id) ==
  /\ sessions' = Without(sessions, id)
  /\ UNCHANGED registered

closeSession(id) ==
  /\ LoopRemove(sessions[id].fd)
  /\ sessions' = Without(sessions, id)

Deliver(c, r) ==
  /\ unread' = [unread EXCEPT ![c] = Append(@, r)]
  /\ answered' = [answered EXCEPT ![c] = Append(@, r)]

(* The datagram r is out on session s: back to reading.                    *)
SendSucceeded(id, s, r) ==
  /\ Deliver(s.client, r)
  /\ \/ /\ Succeeds
        /\ LoopModify(s.fd, {"READ"})
        /\ sessions' = [sessions EXCEPT ![id] =
             [s EXCEPT !.pendingResponse = None, !.requestInFlight = FALSE, !.idle = FALSE]]
     \/ Fails /\ closeSession(id)

(* send on a descriptor: all of the datagram, EAGAIN or EPIPE.             *)
SendOutcome(c) ==
  IF Gone(c) THEN "EPIPE" ELSE IF Len(unread[c]) < MaxUnread THEN "sent" ELSE "EAGAIN"

(* Mutant: a response that does not fit is queued and WRITE not armed.     *)
SendResponseNoWrite(id, s, r) ==
  \/ SendOutcome(s.client) = "sent" /\ SendSucceeded(id, s, r)
  \/ /\ SendOutcome(s.client) = "EAGAIN"
     /\ Succeeds
     /\ LoopModify(s.fd, {})
     /\ sessions' = [sessions EXCEPT ![id] = [s EXCEPT !.pendingResponse = r]]
     /\ UNCHANGED <<unread, answered>>
  \/ /\ SendOutcome(s.client) = "EPIPE"
     /\ Succeeds
     /\ closeSession(id)
     /\ UNCHANGED <<unread, answered>>

(* sendResponse on a session that is open, s being its state at the call.  *)
SendResponse(id, s, r) ==
  \/ /\ SendOutcome(s.client) = "sent"
     /\ SendSucceeded(id, s, r)
  \/ /\ SendOutcome(s.client) = "EAGAIN"
     /\ \/ /\ Succeeds
           /\ LoopModify(s.fd, {"WRITE"})
           /\ sessions' = [sessions EXCEPT ![id] = [s EXCEPT !.pendingResponse = r]]
        \/ Fails /\ closeSession(id)
     /\ UNCHANGED <<unread, answered>>
  \/ /\ SendOutcome(s.client) = "EPIPE"
     /\ Succeeds
     /\ closeSession(id)
     /\ UNCHANGED <<unread, answered>>

(* drainPendingSend, on a WRITE event.  When the peer has hung up as well  *)
(* the send fails, so nothing is left for the checks that follow it.       *)
drainPendingSend(id) ==
  LET s == sessions[id] IN
  \/ SendOutcome(s.client) = "sent" /\ SendSucceeded(id, s, s.pendingResponse)
  \/ SendOutcome(s.client) = "sent" /\ Fails /\ UNCHANGED <<unread, answered, sessions, registered>>
  \/ /\ SendOutcome(s.client) = "EPIPE"
     /\ Succeeds
     /\ closeSession(id)
     /\ UNCHANGED <<unread, answered>>

(* The command handler either replies before it returns (an answer, a      *)
(* refusal, or RESP_ERROR after an exception) or keeps the sink for later. *)
Handle(id, s, r) ==
  \/ /\ SendResponse(id, s, r)
     /\ UNCHANGED deferred
  \/ /\ Succeeds
     /\ LoopModify(s.fd, {})
     /\ sessions' = [sessions EXCEPT ![id] = s]
     /\ deferred' = deferred \cup {[id |-> id, request |-> r]}
     /\ UNCHANGED <<unread, answered>>

processRequest(id) ==
  LET s == sessions[id]
      c == s.client
      took == [s EXCEPT !.requestInFlight = TRUE, !.idle = FALSE]
      closes == closeSession(id) /\ UNCHANGED <<unread, answered, deferred>>
  IN
  \/ /\ requests[c] # << >> /\ peer[c] # "reset"
     /\ requests' = [requests EXCEPT ![c] = Tail(@)]
     /\ \/ Head(requests[c]).kind = "valid" /\ Handle(id, took, [client |-> c, n |-> Head(requests[c]).n])
        \/ Head(requests[c]).kind = "valid" /\ Fails /\ closes
        \/ Head(requests[c]).kind = "bad" /\ Succeeds /\ closes
  \/ /\ peer[c] = "reset" \/ (peer[c] = "closed" /\ requests[c] = << >>)
     /\ closes
     /\ UNCHANGED <<requests, faults>>
  \/ /\ peer[c] = "open" /\ requests[c] = << >>
     /\ UNCHANGED <<requests, unread, answered, sessions, registered, deferred, faults>>

(* EventLoop::run finds the handler by descriptor: it is the handler of    *)
(* whichever session has the descriptor now.                               *)
onSessionEvent(e) ==
  /\ AtDispatchPoint
  /\ e.fd \in DOMAIN registered
  /\ ready' = ready \ {e}
  /\ LET id == registered[e.fd].id IN
     \/ /\ "WRITE" \in e.events
        /\ drainPendingSend(id)
        /\ UNCHANGED <<requests, deferred>>
     \/ /\ "READ" \in e.events /\ ~sessions[id].requestInFlight
        /\ processRequest(id)
     \/ /\ "WRITE" \notin e.events
        /\ "READ" \in e.events => sessions[id].requestInFlight
        /\ "HANGUP" \in e.events
        /\ closeSession(id)
        /\ UNCHANGED <<requests, unread, answered, deferred, faults>>
  /\ UNCHANGED <<peer, sent, backlog, server, nextId, idleTimer, handler, batch, work>>

(* The handler was removed by an earlier dispatch of the same batch.       *)
SkipStaleEvent(e) ==
  /\ AtDispatchPoint
  /\ e.fd \notin DOMAIN registered \cup {ListenerFd, TimerFd, WorkFd}
  /\ ready' = ready \ {e}
  /\ UNCHANGED <<clientVars, serverVars, handler, batch, work, deferred, faults>>

-----------------------------------------------------------------------------
(* The listener.  accept runs until the queue is empty.                    *)

onAcceptReady ==
  /\ AtDispatchPoint
  /\ \E e \in ready : e.fd = ListenerFd /\ ready' = ready \ {e}
  /\ handler' = "accept"
  /\ UNCHANGED <<clientVars, serverVars, batch, work, deferred, faults>>

(* The kernel gives the lowest free descriptor.                            *)
FreeFd == Min(SessionFds \ {sessions[id].fd : id \in DOMAIN sessions})

(* Mutant: the number of a closed session is used again.                   *)
ReusedId == 1 + Cardinality(DOMAIN sessions)

(* m_nextId++: a session number is never used twice.                       *)
NewId == nextId

AcceptOne ==
  /\ handler = "accept"
  /\ backlog # << >>
  /\ backlog' = Tail(backlog)
  /\ \/ /\ Cardinality(DOMAIN sessions) >= kMaxConnections
        /\ UNCHANGED <<sessions, nextId, registered, faults>>
     \/ /\ Cardinality(DOMAIN sessions) < kMaxConnections
        /\ nextId' = nextId + 1
        /\ \/ /\ Succeeds
              /\ LoopAdd(FreeFd, NewId, {"READ"})
              /\ sessions' = With(sessions, NewId, Session(FreeFd, Head(backlog)))
           \/ Fails /\ UNCHANGED <<sessions, registered>>
  /\ UNCHANGED <<peer, requests, sent, unread, answered, server, idleTimer,
                 ready, handler, batch, work, deferred>>

(* EAGAIN, or an accept that fails and leaves the rest for the next event. *)
AcceptReturns ==
  /\ handler = "accept"
  /\ handler' = "none"
  /\ (backlog = << >> /\ Succeeds) \/ Fails
  /\ UNCHANGED <<clientVars, serverVars, ready, batch, work, deferred>>

-----------------------------------------------------------------------------
(* Replies that come later: the worker posts them, MainThreadWork::drain   *)
(* runs the ones that were there when it started.                          *)

WorkerCompletes(d) ==
  /\ deferred' = deferred \ {d}
  /\ work' = Append(work, d)
  /\ UNCHANGED <<clientVars, serverVars, ready, handler, batch, faults>>

Drain ==
  /\ AtDispatchPoint
  /\ \E e \in ready : e.fd = WorkFd /\ ready' = ready \ {e}
  /\ handler' = "drain"
  /\ batch' = Len(work)
  /\ UNCHANGED <<clientVars, serverVars, work, deferred, faults>>

(* The sink of makeSink: sendResponse finds the session by its number.     *)
SinkTarget(d) == IF d.id \in DOMAIN sessions THEN {d.id} ELSE {}

RunReply ==
  /\ handler = "drain"
  /\ batch' = batch - 1
  /\ handler' = IF batch = 1 THEN "none" ELSE "drain"
  /\ work' = Tail(work)
  /\ \/ /\ SinkTarget(Head(work)) = {}
        /\ UNCHANGED <<unread, answered, sessions, registered, faults>>
     \/ \E id \in SinkTarget(Head(work)) : SendResponse(id, sessions[id], Head(work).request)
  /\ UNCHANGED <<peer, requests, sent, backlog, server, nextId, idleTimer, ready, deferred>>

-----------------------------------------------------------------------------
(* The idle sweep.                                                         *)

Expired == {id \in DOMAIN sessions : sessions[id].idle /\ ~sessions[id].requestInFlight}

(* Mutant: the one-shot timer is not armed again.                          *)
SweepOnce ==
  /\ AtDispatchPoint
  /\ \E e \in ready : e.fd = TimerFd /\ ready' = ready \ {e}
  /\ sessions' = [id \in DOMAIN sessions \ Expired |-> sessions[id]]
  /\ registered' = [fd \in {f \in DOMAIN registered : registered[f].id \notin Expired} |-> registered[fd]]
  /\ Succeeds /\ idleTimer' = "off"
  /\ UNCHANGED <<clientVars, server, nextId, handler, batch, work, deferred>>

onIdleSweep ==
  /\ AtDispatchPoint
  /\ \E e \in ready : e.fd = TimerFd /\ ready' = ready \ {e}
  /\ sessions' = [id \in DOMAIN sessions \ Expired |-> sessions[id]]
  /\ registered' = [fd \in {f \in DOMAIN registered : registered[f].id \notin Expired} |-> registered[fd]]
  /\ \/ Succeeds /\ idleTimer' = "armed"
     \/ Fails /\ idleTimer' = "off"
  /\ UNCHANGED <<clientVars, server, nextId, handler, batch, work, deferred>>

IdleTimerExpires ==
  /\ idleTimer = "armed"
  /\ idleTimer' = "expired"
  /\ UNCHANGED <<clientVars, server, sessions, nextId, registered, loopVars, deferred, faults>>

(* kClientIdleTimeout has passed since lastActivity.                       *)
TimePasses(id) ==
  /\ ~sessions[id].idle
  /\ sessions' = [sessions EXCEPT ![id].idle = TRUE]
  /\ UNCHANGED <<clientVars, server, nextId, registered, idleTimer, loopVars, deferred, faults>>

-----------------------------------------------------------------------------
(* start and stop.  A step of start that fails unwinds through stop.       *)

start ==
  /\ server = "created"
  /\ \/ Succeeds /\ server' = "listening" /\ idleTimer' = "armed"
     \/ Fails /\ server' = "stopped" /\ UNCHANGED idleTimer
  /\ UNCHANGED <<clientVars, sessions, nextId, registered, loopVars, deferred>>

stop ==
  /\ AtDispatchPoint
  /\ server' = "stopped"
  /\ idleTimer' = "off"
  /\ registered' = [fd \in DOMAIN registered \ {sessions[id].fd : id \in DOMAIN sessions} |-> registered[fd]]
  /\ sessions' = Empty
  /\ backlog' = << >>
  /\ ready' = {}
  /\ UNCHANGED <<peer, requests, sent, unread, answered, nextId, handler, batch, work, deferred, faults>>

-----------------------------------------------------------------------------
(* Clients.                                                                *)

Connect(c) ==
  /\ peer[c] = "none"
  /\ server = "listening"
  /\ peer' = [peer EXCEPT ![c] = "open"]
  /\ backlog' = Append(backlog, c)
  /\ UNCHANGED <<requests, sent, unread, answered, serverVars, loopVars, deferred, faults>>

ClientSends(c, kind) ==
  /\ peer[c] = "open" /\ ServerEndOpen(c)
  /\ sent[c] < MaxRequests
  /\ sent' = [sent EXCEPT ![c] = @ + 1]
  /\ requests' = [requests EXCEPT ![c] = Append(@, [n |-> sent[c] + 1, kind |-> kind])]
  /\ UNCHANGED <<peer, unread, answered, backlog, serverVars, loopVars, deferred, faults>>

ClientReceives(c) ==
  /\ peer[c] = "open"
  /\ unread[c] # << >>
  /\ unread' = [unread EXCEPT ![c] = Tail(@)]
  /\ UNCHANGED <<peer, requests, sent, answered, backlog, serverVars, loopVars, deferred, faults>>

(* After the answer, after a timeout, or killed.                           *)
ClientCloses(c) ==
  /\ peer[c] = "open"
  /\ peer' = [peer EXCEPT ![c] = IF unread[c] = << >> THEN "closed" ELSE "reset"]
  /\ UNCHANGED <<requests, sent, unread, answered, backlog, serverVars, loopVars, deferred, faults>>

-----------------------------------------------------------------------------
MainStep ==
  \/ Poll \/ onAcceptReady \/ AcceptOne \/ AcceptReturns
  \/ Drain \/ RunReply \/ onIdleSweep
  \/ \E e \in ready : onSessionEvent(e) \/ SkipStaleEvent(e)

ClientStep(c) ==
  \/ Connect(c)
  \/ \E kind \in Kinds : ClientSends(c, kind)
  \/ ClientReceives(c)
  \/ ClientCloses(c)

Next ==
  \/ start
  \/ stop
  \/ MainStep
  \/ \E d \in deferred : WorkerCompletes(d)
  \/ IdleTimerExpires
  \/ \E id \in DOMAIN sessions : TimePasses(id)
  \/ \E c \in Clients : ClientStep(c)

Spec == Init /\ [][Next]_vars

(* Fairness: the loop runs while anything is readable, timers expire, the  *)
(* worker ends its jobs.  A client that waits for its answer reads it.     *)
ServerFairness ==
  /\ WF_vars(MainStep)
  /\ WF_vars(IdleTimerExpires)
  /\ WF_vars(\E d \in deferred : WorkerCompletes(d))

FairSpec == Spec /\ ServerFairness

FairClientSpec == FairSpec /\ \A c \in Clients : WF_vars(ClientReceives(c))

-----------------------------------------------------------------------------
TypeOK ==
  /\ peer \in [Clients -> {"none", "open", "closed", "reset"}]
  /\ requests \in [Clients -> Seq([n : 1 .. MaxRequests, kind : Kinds])]
  /\ sent \in [Clients -> 0 .. MaxRequests]
  /\ unread \in [Clients -> Seq(Request)]
  /\ answered \in [Clients -> Seq(Request)]
  /\ backlog \in Seq(Clients)
  /\ server \in {"created", "listening", "stopped"}
  /\ nextId \in Nat \ {0}
  /\ DOMAIN sessions \subseteq 1 .. nextId - 1
  /\ \A id \in DOMAIN sessions :
       sessions[id] \in [fd : SessionFds, client : Clients, pendingResponse : Request \cup {None},
                         requestInFlight : BOOLEAN, idle : BOOLEAN]
  /\ DOMAIN registered \subseteq SessionFds
  /\ \A fd \in DOMAIN registered : registered[fd] \in [id : Nat, mask : SUBSET Bits]
  /\ idleTimer \in {"off", "armed", "expired"}
  /\ ready \subseteq [fd : {ListenerFd, TimerFd, WorkFd} \cup SessionFds, events : SUBSET Bits]
  /\ handler \in {"none", "accept", "drain"}
  /\ batch \in 0 .. Len(work)
  /\ work \in Seq([id : Nat, request : Request])
  /\ deferred \subseteq [id : Nat, request : Request]
  /\ faults \in 0 .. MaxFaults

(* Every response goes to the client that asked, answers its requests in   *)
(* the order it sent them, each once, however late the reply comes and     *)
(* whoever has the descriptor by then (socket_server.h: a late response is *)
(* "quietly dropped rather than misrouted to a reused fd").                *)
AnswersInOrder ==
  \A c \in Clients :
    answered[c] = [i \in 1 .. Len(answered[c]) |-> [client |-> c, n |-> i]]

Sinks(id) ==
  Cardinality({d \in deferred : d.id = id}) + Cardinality({i \in DOMAIN work : work[i].id = id})

(* A session is always waiting for exactly one thing: a request (READ      *)
(* armed), a reply that one sink will bring (nothing armed), or room for a *)
(* queued reply (WRITE armed).  A session waiting for none of them would   *)
(* hold one of the kMaxConnections places for ever, as the sweep skips it. *)
OneDriverPerSession ==
  \A id \in DOMAIN sessions :
    LET s == sessions[id] IN
    /\ s.fd \in DOMAIN registered /\ registered[s.fd].id = id
    /\ \/ /\ ~s.requestInFlight /\ s.pendingResponse = None
          /\ registered[s.fd].mask = {"READ"} /\ Sinks(id) = 0
       \/ /\ s.requestInFlight /\ s.pendingResponse = None
          /\ registered[s.fd].mask = {} /\ Sinks(id) = 1
       \/ /\ s.requestInFlight /\ s.pendingResponse # None
          /\ registered[s.fd].mask = {"WRITE"} /\ Sinks(id) = 0

(* EventLoop has handlers for the sessions that exist and no others: a     *)
(* handler left behind would refuse the next session on its descriptor     *)
(* (the comment in stop: "a stale epoll registration").                    *)
NoStaleRegistration ==
  DOMAIN registered = {sessions[id].fd : id \in DOMAIN sessions}

(* What SocketServer keeps over every interleaving of requests, late       *)
(* replies, sweeps and closes: a session waits for exactly one thing, and  *)
(* closing it, on whatever path, leaves nothing of it in EventLoop.        *)
SessionInv == TypeOK /\ OneDriverPerSession /\ NoStaleRegistration

(* A client that stays, and whose session stays, gets an answer to every   *)
(* request it sends.                                                       *)
RequestsAnswered ==
  \A c \in Clients, n \in 1 .. MaxRequests :
    sent[c] >= n ~> Len(answered[c]) >= n \/ Gone(c) \/ ~ServerEndOpen(c)

(* A session with no request in hand that has been idle for                *)
(* kClientIdleTimeout is closed, or its client speaks again.               *)
IdleSessionsSwept ==
  \A id \in 1 .. Cardinality(Clients) :
    id \in Expired ~> id \notin Expired

-----------------------------------------------------------------------------
(* Statements of the repository that the code does not keep.               *)

(* The comment on Session: "At most one of the two is truthy at any        *)
(* moment", the two being requestInFlight and a pending response.          *)
AtMostOneTruthy ==
  \A id \in DOMAIN sessions :
    ~(sessions[id].requestInFlight /\ sessions[id].pendingResponse # None)

(* The comment in onSessionEvent: "Hang-up or error with nothing to        *)
(* read/write: the peer is gone", so a session whose peer is there is      *)
(* closed only for what it sent, for being idle, after a system call that  *)
(* failed, or by stop.                                                     *)
HangupMeansPeerGone ==
  [][\A id \in DOMAIN sessions \ DOMAIN sessions' :
       \/ Gone(sessions[id].client)
       \/ requests' # requests
       \/ id \in Expired
       \/ faults' # faults
       \/ server' = "stopped"]_vars

(* The comment in onIdleSweep: " 'idle' is about the peer, not about       *)
(* whatever the daemon is currently doing": a peer that does not take its  *)
(* response for kClientIdleTimeout is closed like any idle one.            *)
StalledPeerSwept ==
  \A id \in 1 .. Cardinality(Clients) :
    LET stalled == id \in DOMAIN sessions /\ sessions[id].idle /\ sessions[id].pendingResponse # None
    IN  stalled ~> ~stalled

-----------------------------------------------------------------------------
=============================================================================
