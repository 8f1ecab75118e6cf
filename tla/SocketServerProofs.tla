------------------------- MODULE SocketServerProofs -------------------------
(***************************************************************************)
(* Proofs about SocketServer for any number of clients, of places and of   *)
(* requests: a session waits for exactly one thing, closing it leaves      *)
(* nothing behind, and every client gets the answers to its own requests,  *)
(* in order and each once.                                                 *)
(*                                                                         *)
(* The strengthening relates what a client has sent, what of it the server *)
(* has read and what was answered to the state its session is in, and says *)
(* of the events still to be dispatched what they can count on.            *)
(***************************************************************************)
EXTENDS SocketServer, SequenceTheorems, FiniteSetTheorems, WellFoundedInduction, TLAPS

(* Nobody is going to reply to session id; exactly one sink is, with r.    *)
NoSink(D, W, id) ==
  /\ \A d \in D : d.id # id
  /\ \A i \in DOMAIN W : W[i].id # id

Sink(id, r) == [id |-> id, request |-> r]

OneSink(D, W, id, r) ==
  \/ /\ Sink(id, r) \in D
     /\ \A d \in D : d.id = id => d = Sink(id, r)
     /\ \A i \in DOMAIN W : W[i].id # id
  \/ /\ \A d \in D : d.id # id
     /\ \E i \in DOMAIN W : W[i] = Sink(id, r) /\ \A j \in DOMAIN W : W[j].id = id => j = i

Answer(c, n) == [client |-> c, n |-> n]

(* A session s with mask m that has taken t requests of its client and     *)
(* answered k of them.                                                     *)
Waiting(id, s, m, D, W, k, t) ==
  /\ ~s.requestInFlight /\ s.pendingResponse = None /\ m = {"READ"}
  /\ NoSink(D, W, id) /\ t = k

Working(id, s, m, D, W, k, t) ==
  /\ s.requestInFlight /\ s.pendingResponse = None /\ m = {}
  /\ OneSink(D, W, id, Answer(s.client, k + 1)) /\ t = k + 1

Queued(id, s, m, D, W, k, t) ==
  /\ s.requestInFlight /\ s.pendingResponse = Answer(s.client, k + 1) /\ m = {"WRITE"}
  /\ NoSink(D, W, id) /\ t = k + 1

Progress(id, s, m, D, W, k, t) ==
  \/ Waiting(id, s, m, D, W, k, t)
  \/ Working(id, s, m, D, W, k, t)
  \/ Queued(id, s, m, D, W, k, t)

Taken(c) == sent[c] - Len(requests[c])

SessionOK(id) ==
  /\ sessions[id].fd \in DOMAIN registered
  /\ registered[sessions[id].fd].id = id
  /\ Progress(id, sessions[id], registered[sessions[id].fd].mask, deferred, work,
              Len(answered[sessions[id].client]), Taken(sessions[id].client))

SessionsOK == \A id \in DOMAIN sessions : SessionOK(id)

(* The requests not read yet are the last ones sent.                       *)
Numbered ==
  \A c \in Clients :
    /\ Len(requests[c]) <= sent[c]
    /\ \A i \in DOMAIN requests[c] : requests[c][i].n = Taken(c) + i

(* A client has one connection: it is not made yet, in the backlog, or the *)
(* client of one session.                                                  *)
Fresh(c) == peer[c] = "none" \/ \E i \in DOMAIN backlog : backlog[i] = c

OneEnd ==
  /\ \A c \in Clients : Fresh(c) =>
       /\ Taken(c) = Len(answered[c])
       /\ \A id \in DOMAIN sessions : sessions[id].client # c
  /\ \A i \in DOMAIN backlog : peer[backlog[i]] # "none"
  /\ \A i, j \in DOMAIN backlog : backlog[i] = backlog[j] => i = j
  /\ \A id, jd \in DOMAIN sessions : sessions[id].client = sessions[jd].client => id = jd

(* Late replies are for sessions that exist or existed.                    *)
SinksOld ==
  /\ \A d \in deferred : d.id < nextId
  /\ \A i \in DOMAIN work : work[i].id < nextId

(* What the events still to be dispatched count on: there is one for a     *)
(* descriptor, a WRITE event finds its response still queued, and the      *)
(* closures it was for are still there when the drain begins.              *)
EventsOK ==
  /\ \A e, f \in ready : e.fd = f.fd => e = f
  /\ \A e \in ready : "WRITE" \in e.events =>
       \E id \in DOMAIN sessions : sessions[id].fd = e.fd /\ sessions[id].pendingResponse # None
  /\ \A e \in ready : e.fd = WorkFd => work # << >> /\ handler # "drain"
  /\ handler = "drain" => batch > 0

IInv ==
  /\ TypeOK
  /\ SessionsOK
  /\ NoStaleRegistration
  /\ Numbered
  /\ OneEnd
  /\ SinksOld
  /\ EventsOK
  /\ AnswersInOrder

-----------------------------------------------------------------------------
(* Sinks, as the worker hands them on.                                     *)

SinkSet == [id : Nat, request : Request]

(* Counting sinks: none, or one, however many other sessions have some.    *)
LEMMA SinksCounted ==
  ASSUME TypeOK, NEW id, NEW r
  PROVE  /\ NoSink(deferred, work, id) => Sinks(id) = 0
         /\ OneSink(deferred, work, id, r) => Sinks(id) = 1
<1> DEFINE A == {d \in deferred : d.id = id}
           B == {i \in DOMAIN work : work[i].id = id}
<1>0. Cardinality({}) = 0 /\ \A x : Cardinality({x}) = 1
  BY FS_EmptySet, FS_Singleton
<1>1. ASSUME NoSink(deferred, work, id) PROVE Sinks(id) = 0
  <2>1. A = {} /\ B = {}
    BY <1>1 DEF NoSink
  <2>2. Sinks(id) = 0 + 0
    BY <2>1, <1>0, Zenon DEF Sinks
  <2> QED
    BY <2>2
<1>2. ASSUME OneSink(deferred, work, id, r) PROVE Sinks(id) = 1
  <2>1. CASE /\ Sink(id, r) \in deferred
             /\ \A d \in deferred : d.id = id => d = Sink(id, r)
             /\ \A i \in DOMAIN work : work[i].id # id
    <3>1. A = {Sink(id, r)} /\ B = {}
      BY <2>1 DEF Sink
    <3>2. Sinks(id) = 1 + 0
      BY <3>1, <1>0, Zenon DEF Sinks
    <3> QED
      BY <3>2
  <2>2. CASE /\ \A d \in deferred : d.id # id
             /\ \E i \in DOMAIN work : /\ work[i] = Sink(id, r)
                                       /\ \A j \in DOMAIN work : work[j].id = id => j = i
    <3>1. PICK i \in DOMAIN work : /\ work[i] = Sink(id, r)
                                   /\ \A j \in DOMAIN work : work[j].id = id => j = i
      BY <2>2
    <3>2. A = {} /\ B = {i}
      BY <2>2, <3>1 DEF Sink
    <3>3. Sinks(id) = 0 + 1
      BY <3>2, <1>0, Zenon DEF Sinks
    <3> QED
      BY <3>3
  <2> QED
    BY <1>2, <2>1, <2>2 DEF OneSink
<1> QED
  BY <1>1, <1>2

(* The worker hands a sink to the main thread: WorkerCompletes.            *)
LEMMA SinkPosted ==
  ASSUME NEW D \in SUBSET SinkSet, NEW W \in Seq(SinkSet), NEW d \in D, NEW id, NEW r
  PROVE  /\ NoSink(D, W, id) => NoSink(D \ {d}, Append(W, d), id)
         /\ OneSink(D, W, id, r) => OneSink(D \ {d}, Append(W, d), id, r)
<1> DEFINE V == Append(W, d)
<1>1. /\ DOMAIN W = 1 .. Len(W) /\ Len(W) \in Nat
      /\ DOMAIN V = 1 .. Len(W) + 1
      /\ \A i \in 1 .. Len(W) : V[i] = W[i]
      /\ V[Len(W) + 1] = d
  BY AppendProperties, LenProperties
<1>2. \A i \in DOMAIN V : i \in DOMAIN W \/ i = Len(W) + 1
  BY <1>1
<1>3. \A i \in DOMAIN W : i \in DOMAIN V /\ i # Len(W) + 1
  BY <1>1
<1>4. Len(W) + 1 \in DOMAIN V
  BY <1>1
<1> HIDE DEF V
<1>5. NoSink(D, W, id) => NoSink(D \ {d}, V, id)
  BY <1>1, <1>2 DEF NoSink
<1>6. ASSUME OneSink(D, W, id, r) PROVE OneSink(D \ {d}, V, id, r)
  <2>1. CASE d.id = id /\ \A j \in DOMAIN W : W[j].id # id
    <3>1. d = Sink(id, r) /\ \A e \in D \ {d} : e.id # id
      BY <2>1, <1>6 DEF OneSink
    <3>2. \A j \in DOMAIN V : V[j].id = id => j = Len(W) + 1
      BY <1>1, <1>2, <2>1
    <3> QED
      BY <3>1, <3>2, <1>1, <1>4 DEF OneSink
  <2>2. CASE d.id # id
    <3>1. CASE /\ Sink(id, r) \in D
               /\ \A e \in D : e.id = id => e = Sink(id, r)
               /\ \A i \in DOMAIN W : W[i].id # id
      <4>1. Sink(id, r) # d
        BY <2>2 DEF Sink
      <4>2. \A i \in DOMAIN V : V[i].id # id
        BY <1>1, <1>2, <2>2, <3>1
      <4> QED
        BY <3>1, <4>1, <4>2 DEF OneSink
    <3>2. CASE /\ \A e \in D : e.id # id
               /\ \E i \in DOMAIN W : W[i] = Sink(id, r) /\ \A j \in DOMAIN W : W[j].id = id => j = i
      <4>1. PICK i \in DOMAIN W : W[i] = Sink(id, r) /\ \A j \in DOMAIN W : W[j].id = id => j = i
        BY <3>2
      <4>2. V[i] = Sink(id, r) /\ i \in DOMAIN V
        BY <1>1, <1>3, <4>1
      <4>3. \A j \in DOMAIN V : V[j].id = id => j = i
        BY <1>1, <1>2, <2>2, <4>1
      <4> QED
        BY <3>2, <4>2, <4>3 DEF OneSink
    <3> QED
      BY <1>6, <3>1, <3>2 DEF OneSink
  <2>3. d.id = id => \A j \in DOMAIN W : W[j].id # id
    BY <1>6 DEF OneSink
  <2> QED
    BY <2>1, <2>2, <2>3
<1> QED
  BY <1>5, <1>6 DEF V

(* The main thread takes the first sink: RunReply.                         *)
LEMMA SinkTaken ==
  ASSUME NEW D \in SUBSET SinkSet, NEW W \in Seq(SinkSet), W # << >>, NEW id, NEW r
  PROVE  /\ NoSink(D, W, id) => Head(W).id # id /\ NoSink(D, Tail(W), id)
         /\ OneSink(D, W, id, r) /\ Head(W).id # id => OneSink(D, Tail(W), id, r)
         /\ OneSink(D, W, id, r) /\ Head(W).id = id => Head(W) = Sink(id, r) /\ NoSink(D, Tail(W), id)
<1> DEFINE V == Tail(W)
<1>1. /\ DOMAIN W = 1 .. Len(W) /\ Len(W) \in Nat
      /\ DOMAIN V = 1 .. Len(W) - 1 /\ Len(W) > 0
      /\ \A i \in 1 .. Len(W) - 1 : V[i] = W[i + 1]
      /\ Head(W) = W[1]
  BY HeadTailProperties, LenProperties, EmptySeq
<1>2. \A i \in DOMAIN V : i + 1 \in DOMAIN W /\ V[i] = W[i + 1]
  BY <1>1
<1>3. 1 \in DOMAIN W
  BY <1>1
<1>4. \A j \in DOMAIN W : j = 1 \/ (j - 1 \in DOMAIN V /\ V[j - 1] = W[j])
  BY <1>1
<1>0. DOMAIN V \subseteq Nat /\ \A i \in DOMAIN V : i + 1 # 1
  BY <1>1
<1> HIDE DEF V
<1>5. NoSink(D, W, id) => Head(W).id # id /\ NoSink(D, V, id)
  BY <1>1, <1>2, <1>3 DEF NoSink
<1>6. ASSUME OneSink(D, W, id, r), Head(W).id # id PROVE OneSink(D, V, id, r)
  <2>1. CASE /\ Sink(id, r) \in D
             /\ \A d \in D : d.id = id => d = Sink(id, r)
             /\ \A i \in DOMAIN W : W[i].id # id
    BY <2>1, <1>2 DEF OneSink
  <2>2. CASE /\ \A d \in D : d.id # id
             /\ \E i \in DOMAIN W : W[i] = Sink(id, r) /\ \A j \in DOMAIN W : W[j].id = id => j = i
    <3>1. PICK i \in DOMAIN W : W[i] = Sink(id, r) /\ \A j \in DOMAIN W : W[j].id = id => j = i
      BY <2>2
    <3>2. i # 1
      BY <3>1, <1>1, <1>6 DEF Sink
    <3>3. i - 1 \in DOMAIN V /\ V[i - 1] = Sink(id, r)
      BY <3>1, <3>2, <1>4
    <3>4. ASSUME NEW j \in DOMAIN V, V[j].id = id PROVE j = i - 1
      <4>1. j + 1 = i
        BY <3>1, <3>4, <1>2
      <4> QED
        BY <4>1, <1>0
    <3> QED
      BY <2>2, <3>3, <3>4 DEF OneSink
  <2> QED
    BY <1>6, <2>1, <2>2 DEF OneSink
<1>7. ASSUME OneSink(D, W, id, r), Head(W).id = id
      PROVE  Head(W) = Sink(id, r) /\ NoSink(D, V, id)
  <2>1. \A d \in D : d.id # id
    BY <1>7, <1>1, <1>3 DEF OneSink
  <2>2. PICK i \in DOMAIN W : W[i] = Sink(id, r) /\ \A j \in DOMAIN W : W[j].id = id => j = i
    BY <1>7, <1>1, <1>3 DEF OneSink
  <2>3. i = 1
    BY <2>2, <1>7, <1>1, <1>3
  <2>4. \A j \in DOMAIN V : V[j].id # id
    BY <2>2, <2>3, <1>0, <1>2
  <2> QED
    BY <2>1, <2>2, <2>3, <2>4, <1>1 DEF NoSink
<1> QED
  BY <1>5, <1>6, <1>7 DEF V

(* A command handler keeps the sink of session jd: Handle.                 *)
LEMMA SinkKept ==
  ASSUME NEW D \in SUBSET SinkSet, NEW W \in Seq(SinkSet), NEW id, NEW r, NEW jd, NEW q
  PROVE  /\ id # jd /\ NoSink(D, W, id) => NoSink(D \cup {Sink(jd, q)}, W, id)
         /\ id # jd /\ OneSink(D, W, id, r) => OneSink(D \cup {Sink(jd, q)}, W, id, r)
         /\ NoSink(D, W, jd) => OneSink(D \cup {Sink(jd, q)}, W, jd, q)
<1>1. Sink(jd, q).id = jd
  BY DEF Sink
<1> HIDE DEF Sink
<1>2. id # jd /\ NoSink(D, W, id) => NoSink(D \cup {Sink(jd, q)}, W, id)
  BY <1>1 DEF NoSink
<1>3. id # jd /\ OneSink(D, W, id, r) => OneSink(D \cup {Sink(jd, q)}, W, id, r)
  BY <1>1 DEF OneSink
<1>4. NoSink(D, W, jd) => OneSink(D \cup {Sink(jd, q)}, W, jd, q)
  BY <1>1 DEF NoSink, OneSink
<1> QED
  BY <1>2, <1>3, <1>4

-----------------------------------------------------------------------------
(* What a step does to one session and to its client, and what is left of  *)
(* the invariant to show after it.                                         *)

SessionType ==
  [fd : SessionFds, client : Clients, pendingResponse : Request \cup {None},
   requestInFlight : BOOLEAN, idle : BOOLEAN]

ClientTypeOK ==
  /\ peer \in [Clients -> {"none", "open", "closed", "reset"}]
  /\ requests \in [Clients -> Seq([n : 1 .. MaxRequests, kind : Kinds])]
  /\ sent \in [Clients -> 0 .. MaxRequests]
  /\ unread \in [Clients -> Seq(Request)]
  /\ answered \in [Clients -> Seq(Request)]
  /\ backlog \in Seq(Clients)

SessionTypeOK ==
  /\ nextId \in Nat \ {0}
  /\ DOMAIN sessions \subseteq 1 .. nextId - 1
  /\ \A id \in DOMAIN sessions : sessions[id] \in SessionType
  /\ DOMAIN registered \subseteq SessionFds
  /\ \A fd \in DOMAIN registered : registered[fd] \in [id : Nat, mask : SUBSET Bits]

LoopTypeOK ==
  /\ server \in {"created", "listening", "stopped"}
  /\ idleTimer \in {"off", "armed", "expired"}
  /\ ready \subseteq [fd : {ListenerFd, TimerFd, WorkFd} \cup SessionFds, events : SUBSET Bits]
  /\ handler \in {"none", "accept", "drain"}
  /\ batch \in 0 .. Len(work)
  /\ work \in Seq(SinkSet)
  /\ deferred \subseteq SinkSet
  /\ faults \in 0 .. MaxFaults

(* The type invariant by component.                                        *)
LEMMA TypeParts ==
  TypeOK <=> ClientTypeOK /\ SessionTypeOK /\ LoopTypeOK
BY DEF TypeOK, ClientTypeOK, SessionTypeOK, LoopTypeOK, SessionType, SinkSet

(* The type invariant from its parts, in the next state.                   *)
LEMMA TypePartsNext ==
  ClientTypeOK' /\ SessionTypeOK' /\ LoopTypeOK' => TypeOK'
BY DEF TypeOK, ClientTypeOK, SessionTypeOK, LoopTypeOK, SessionType, SinkSet

(* Of the requests of client c one may be taken, and one answer, the next  *)
(* one, may be sent.                                                       *)
ClientMoves(c) ==
  /\ UNCHANGED <<peer, sent, backlog>>
  /\ \/ UNCHANGED requests
     \/ requests[c] # << >> /\ requests' = [requests EXCEPT ![c] = Tail(@)]
  /\ \/ UNCHANGED <<unread, answered>>
     \/ /\ Deliver(c, Answer(c, Len(answered[c]) + 1))
        /\ sent[c] - Len(requests'[c]) = Len(answered[c]) + 1

ClientInv == ClientTypeOK /\ Numbered /\ AnswersInOrder

(* A sequence of answers in order, and one more.                           *)
LEMMA OneMoreAnswer ==
  ASSUME NEW c \in Clients, NEW s \in Seq(Request),
         s = [i \in 1 .. Len(s) |-> Answer(c, i)],
         Len(s) + 1 \in 1 .. MaxRequests
  PROVE  LET t == Append(s, Answer(c, Len(s) + 1)) IN
         /\ t \in Seq(Request)
         /\ Len(t) = Len(s) + 1
         /\ t = [i \in 1 .. Len(t) |-> Answer(c, i)]
<1> DEFINE a == Answer(c, Len(s) + 1)
           t == Append(s, a)
<1>1. a \in Request
  BY DEF Request, Answer
<1>2. /\ Len(s) \in Nat /\ t \in Seq(Request) /\ Len(t) = Len(s) + 1
      /\ \A i \in 1 .. Len(s) : t[i] = s[i]
      /\ t[Len(s) + 1] = a
      /\ DOMAIN t = 1 .. Len(s) + 1
      /\ t = [i \in 1 .. Len(t) |-> t[i]]
  BY <1>1, AppendProperties, LenProperties
<1>3. ASSUME NEW i \in 1 .. Len(t) PROVE t[i] = Answer(c, i)
  <2>1. CASE i = Len(s) + 1
    BY <2>1, <1>2
  <2>2. CASE i # Len(s) + 1
    <3>1. i \in 1 .. Len(s)
      BY <2>2, <1>2
    <3> QED
      BY <3>1, <1>2
  <2> QED
    BY <2>1, <2>2
<1> HIDE DEF t
<1> QED
  BY <1>2, <1>3 DEF t

(* A session takes a request of its client, or gives it the next answer.   *)
LEMMA ClientMovesKeep ==
  ASSUME ClientInv, NEW c \in Clients, ClientMoves(c)
  PROVE  /\ ClientInv'
         /\ \A b \in Clients \ {c} : requests'[b] = requests[b] /\ answered'[b] = answered[b]
<1> USE DEF ClientInv
<1> DEFINE R == [n : 1 .. MaxRequests, kind : Kinds]
<1>0. /\ requests \in [Clients -> Seq(R)] /\ sent \in [Clients -> 0 .. MaxRequests]
      /\ unread \in [Clients -> Seq(Request)] /\ answered \in [Clients -> Seq(Request)]
      /\ MaxRequests \in Nat
  BY SocketServerAssumption DEF ClientTypeOK
<1> HIDE DEF R
<1>a. requests[c] \in Seq(R) /\ (requests[c] # << >> => Tail(requests[c]) \in Seq(R))
  BY <1>0, HeadTailProperties
<1>1. /\ requests' \in [Clients -> Seq(R)]
      /\ \A b \in Clients \ {c} : requests'[b] = requests[b]
      /\ \/ requests'[c] = requests[c]
         \/ requests[c] # << >> /\ requests'[c] = Tail(requests[c])
  <2>1. CASE UNCHANGED requests
    BY <2>1, <1>0
  <2>2. CASE requests[c] # << >> /\ requests' = [requests EXCEPT ![c] = Tail(@)]
    BY <2>2, <1>0, <1>a
  <2> QED
    BY <2>1, <2>2 DEF ClientMoves
<1>2. /\ Len(requests'[c]) \in Nat /\ Len(requests[c]) \in Nat
      /\ Len(requests'[c]) <= sent[c]
      /\ \A i \in DOMAIN requests'[c] : requests'[c][i].n = sent[c] - Len(requests'[c]) + i
  <2>1. CASE requests'[c] = requests[c]
    BY <2>1, <1>0, LenProperties DEF Numbered, Taken
  <2>2. CASE requests[c] # << >> /\ requests'[c] = Tail(requests[c])
    <3> DEFINE q == requests[c]
               p == Tail(q)
    <3>1. /\ q \in Seq(R) /\ q # << >>
          /\ \A i \in DOMAIN q : q[i].n = sent[c] - Len(q) + i
          /\ Len(q) <= sent[c] /\ sent[c] \in Nat
      <4>1. /\ \A i \in DOMAIN requests[c] : requests[c][i].n = sent[c] - Len(requests[c]) + i
            /\ Len(requests[c]) <= sent[c] /\ sent[c] \in 0 .. MaxRequests
        BY <1>0 DEF Numbered, Taken
      <4> QED
        BY <4>1, <2>2, <1>0
    <3>2. /\ DOMAIN q = 1 .. Len(q) /\ Len(q) \in Nat /\ Len(q) > 0
          /\ Len(p) = Len(q) - 1 /\ DOMAIN p = 1 .. Len(q) - 1
          /\ \A i \in 1 .. Len(q) - 1 : p[i] = q[i + 1]
      BY <3>1, HeadTailProperties, LenProperties, EmptySeq
    <3> HIDE DEF p, q
    <3>3. ASSUME NEW i \in DOMAIN p PROVE p[i].n = sent[c] - Len(p) + i
      <4>1. i + 1 \in DOMAIN q /\ p[i] = q[i + 1]
        BY <3>2
      <4>2. p[i].n = sent[c] - Len(q) + (i + 1)
        BY <3>1, <4>1
      <4>3. i \in Nat
        BY <3>2
      <4> QED
        <5>1. \A x, y, z \in Nat : x - y + (z + 1) = x - (y - 1) + z
          OBVIOUS
        <5>2. sent[c] \in Nat /\ Len(q) \in Nat /\ Len(p) = Len(q) - 1
          BY <3>1, <3>2
        <5>3. sent[c] - Len(q) + (i + 1) = sent[c] - (Len(q) - 1) + i
          BY <5>1, <5>2, <4>3
        <5> QED
          BY <5>2, <5>3, <4>2
    <3>4. Len(p) \in Nat /\ Len(p) <= sent[c]
      BY <3>1, <3>2
    <3> QED
      BY <3>2, <3>3, <3>4, <2>2 DEF p, q
  <2> QED
    BY <1>1, <2>1, <2>2
<1>3. Numbered'
  <2>1. ASSUME NEW b \in Clients
        PROVE  /\ Len(requests'[b]) <= sent[b]
               /\ \A i \in DOMAIN requests'[b] : requests'[b][i].n = sent[b] - Len(requests'[b]) + i
    <3>1. CASE b = c
      BY <3>1, <1>2
    <3>2. CASE b # c
      BY <3>2, <1>1 DEF Numbered, Taken
    <3> QED
      BY <3>1, <3>2
  <2>2. sent' = sent
    BY DEF ClientMoves
  <2> QED
    BY <2>1, <2>2 DEF Numbered, Taken
<1>4. /\ unread' \in [Clients -> Seq(Request)]
      /\ answered' \in [Clients -> Seq(Request)]
      /\ \A b \in Clients \ {c} : answered'[b] = answered[b]
      /\ answered'[c] = [i \in 1 .. Len(answered'[c]) |-> Answer(c, i)]
  <2>1. CASE UNCHANGED <<unread, answered>>
    BY <2>1, <1>0 DEF AnswersInOrder, Answer
  <2>2. CASE /\ Deliver(c, Answer(c, Len(answered[c]) + 1))
             /\ sent[c] - Len(requests'[c]) = Len(answered[c]) + 1
    <3> DEFINE k == Len(answered[c])
    <3>1. k \in Nat /\ k + 1 \in 1 .. MaxRequests
      BY <2>2, <1>0, <1>2, LenProperties
    <3>2. Answer(c, k + 1) \in Request
      BY <3>1 DEF Request, Answer
    <3>3. /\ unread' = [unread EXCEPT ![c] = Append(@, Answer(c, k + 1))]
          /\ answered' = [answered EXCEPT ![c] = Append(@, Answer(c, k + 1))]
      BY <2>2 DEF Deliver
    <3>4. answered[c] \in Seq(Request) /\ answered[c] = [i \in 1 .. k |-> Answer(c, i)]
      BY <1>0 DEF AnswersInOrder, Answer
    <3>5. answered'[c] = [i \in 1 .. Len(answered'[c]) |-> Answer(c, i)]
      BY <3>1, <3>3, <3>4, <1>0, OneMoreAnswer
    <3> QED
      BY <3>2, <3>3, <3>5, <1>0, AppendProperties
  <2> QED
    BY <2>1, <2>2 DEF ClientMoves
<1>5. AnswersInOrder'
  BY <1>4, <1>0 DEF AnswersInOrder, Answer
<1>6. ClientTypeOK'
  BY <1>1, <1>4 DEF ClientTypeOK, ClientMoves, R
<1> QED
  BY <1>1, <1>3, <1>4, <1>5, <1>6

-----------------------------------------------------------------------------
(* Of the sinks, only those of session id may come or go.                  *)
SinksMove(id) ==
  /\ deferred' \subseteq SinkSet /\ work' \in Seq(SinkSet)
  /\ SinksOld'
  /\ \A j \in Nat \ {id} :
       /\ NoSink(deferred, work, j) => NoSink(deferred', work', j)
       /\ \A r : OneSink(deferred, work, j, r) => OneSink(deferred', work', j, r)

(* Session id is closed, or goes on as s with mask m.                      *)
Closes(id) ==
  /\ sessions' = Without(sessions, id)
  /\ registered' = Without(registered, sessions[id].fd)

GoesOn(id, s, m) ==
  /\ sessions' = [sessions EXCEPT ![id] = s]
  /\ registered' = [registered EXCEPT ![sessions[id].fd].mask = m]

SessionMoves(id) ==
  \/ Closes(id)
  \/ \E s \in SessionType, m \in SUBSET Bits :
       /\ GoesOn(id, s, m)
       /\ s.fd = sessions[id].fd /\ s.client = sessions[id].client
       /\ Progress(id, s, m, deferred', work', Len(answered'[s.client]),
                   sent[s.client] - Len(requests'[s.client]))

(* A session goes on as before while the sinks of its request do.          *)
LEMMA ProgressFramed ==
  ASSUME NEW id, NEW s, NEW m, NEW k, NEW t, NEW D, NEW W, NEW E, NEW V,
         NoSink(D, W, id) => NoSink(E, V, id),
         \A r : OneSink(D, W, id, r) => OneSink(E, V, id, r),
         Progress(id, s, m, D, W, k, t)
  PROVE  Progress(id, s, m, E, V, k, t)
BY Zenon DEF Progress, Waiting, Working, Queued

(* Sessions have different descriptors and different clients.              *)
LEMMA SessionsDiffer ==
  ASSUME IInv, NEW id \in DOMAIN sessions, NEW j \in DOMAIN sessions, j # id
  PROVE  sessions[j].fd # sessions[id].fd /\ sessions[j].client # sessions[id].client
<1>1. registered[sessions[j].fd].id = j /\ registered[sessions[id].fd].id = id
  BY DEF IInv, SessionsOK, SessionOK
<1>2. sessions[j].client # sessions[id].client
  BY DEF IInv, OneEnd
<1> QED
  BY <1>1, <1>2

(* The other sessions: their registration, their client and their sinks    *)
(* are left alone.                                                         *)
LEMMA OthersKept ==
  ASSUME IInv, NEW id \in DOMAIN sessions, SinksMove(id), UNCHANGED sent,
         \A b \in Clients \ {sessions[id].client} :
           requests'[b] = requests[b] /\ answered'[b] = answered[b],
         NEW j \in DOMAIN sessions, j # id,
         sessions'[j] = sessions[j],
         sessions[j].fd \in DOMAIN registered => sessions[j].fd \in DOMAIN registered',
         registered'[sessions[j].fd] = registered[sessions[j].fd]
  PROVE  SessionOK(j)'
<1> DEFINE s == sessions[j]
<1>1. j \in Nat /\ s.client \in Clients \ {sessions[id].client}
  BY SessionsDiffer, TypeParts DEF IInv, SessionTypeOK, SessionType
<1>2. requests'[s.client] = requests[s.client] /\ answered'[s.client] = answered[s.client]
  BY <1>1
<1>3. /\ s.fd \in DOMAIN registered /\ registered[s.fd].id = j
      /\ Progress(j, s, registered[s.fd].mask, deferred, work, Len(answered[s.client]), Taken(s.client))
  BY DEF IInv, SessionsOK, SessionOK
<1>4. Progress(j, s, registered[s.fd].mask, deferred', work', Len(answered[s.client]), Taken(s.client))
  BY <1>1, <1>3, ProgressFramed, Zenon DEF SinksMove
<1>5. Progress(j, s, registered[s.fd].mask, deferred', work', Len(answered'[s.client]),
               sent'[s.client] - Len(requests'[s.client]))
  BY <1>2, <1>4 DEF Taken
<1> QED
  BY <1>3, <1>5, Zenon DEF SessionOK, Taken

(* A step of one session leaves the others, and their clients, alone.      *)
LEMMA SessionMovesKeep ==
  ASSUME IInv, NEW id \in DOMAIN sessions, SessionMoves(id), SinksMove(id),
         ClientMoves(sessions[id].client), UNCHANGED nextId
  PROVE  /\ SessionTypeOK' /\ SessionsOK' /\ NoStaleRegistration' /\ OneEnd' /\ ClientInv'
         /\ DOMAIN sessions' \subseteq DOMAIN sessions
         /\ \A j \in DOMAIN sessions \ {id} : j \in DOMAIN sessions' /\ sessions'[j] = sessions[j]
<1> DEFINE c == sessions[id].client
           f == sessions[id].fd
<1>1. /\ SessionTypeOK /\ ClientInv /\ SessionsOK /\ NoStaleRegistration
      /\ c \in Clients /\ f \in SessionFds /\ id \in Nat
  BY TypeParts DEF IInv, SessionTypeOK, SessionType, ClientInv
<1>2. ClientInv' /\ \A b \in Clients \ {c} : requests'[b] = requests[b] /\ answered'[b] = answered[b]
  BY <1>1, ClientMovesKeep
<1>3. UNCHANGED <<sent, peer, backlog>>
  BY DEF ClientMoves
<1>4. \A j \in DOMAIN sessions \ {id} :
        /\ sessions[j].fd # f /\ sessions[j].fd \in DOMAIN registered
  BY <1>1, SessionsDiffer DEF SessionsOK, SessionOK
<1>d. /\ f \in DOMAIN registered /\ registered[f].id = id
      /\ registered[f] \in [id : Nat, mask : SUBSET Bits]
  BY <1>1 DEF SessionsOK, SessionOK, SessionTypeOK
<1>5. /\ SessionTypeOK' /\ SessionsOK' /\ NoStaleRegistration'
      /\ DOMAIN sessions' \subseteq DOMAIN sessions
      /\ \A j \in DOMAIN sessions \ {id} : j \in DOMAIN sessions' /\ sessions'[j] = sessions[j]
      /\ id \in DOMAIN sessions' => sessions'[id].client = c
  <2>1. CASE Closes(id)
    <3>1. /\ DOMAIN sessions' = DOMAIN sessions \ {id}
          /\ \A j \in DOMAIN sessions \ {id} : sessions'[j] = sessions[j]
          /\ DOMAIN registered' = DOMAIN registered \ {f}
          /\ \A g \in DOMAIN registered \ {f} : registered'[g] = registered[g]
      BY <2>1 DEF Closes, Without
    <3>2. SessionTypeOK'
      BY <1>1, <3>1 DEF SessionTypeOK
    <3>3. ASSUME NEW j \in DOMAIN sessions' PROVE SessionOK(j)'
      BY <3>1, <1>2, <1>3, <1>4, OthersKept
    <3>4. NoStaleRegistration'
      <4>1. DOMAIN registered = {sessions[j].fd : j \in DOMAIN sessions}
        BY <1>1 DEF NoStaleRegistration
      <4>2. DOMAIN registered \ {f} = {sessions[j].fd : j \in DOMAIN sessions \ {id}}
        BY <4>1, <1>4
      <4>3. {sessions'[j].fd : j \in DOMAIN sessions'} = {sessions[j].fd : j \in DOMAIN sessions \ {id}}
        BY <3>1
      <4> QED
        BY <3>1, <4>2, <4>3 DEF NoStaleRegistration
    <3> QED
      BY <3>1, <3>2, <3>3, <3>4 DEF SessionsOK
  <2>2. CASE \E s \in SessionType, m \in SUBSET Bits :
               /\ GoesOn(id, s, m)
               /\ s.fd = f /\ s.client = c
               /\ Progress(id, s, m, deferred', work', Len(answered'[s.client]),
                           sent[s.client] - Len(requests'[s.client]))
    <3>0. PICK s \in SessionType, m \in SUBSET Bits :
               /\ GoesOn(id, s, m)
               /\ s.fd = f /\ s.client = c
               /\ Progress(id, s, m, deferred', work', Len(answered'[s.client]),
                           sent[s.client] - Len(requests'[s.client]))
      BY <2>2
    <3>1. /\ DOMAIN sessions' = DOMAIN sessions
          /\ sessions'[id] = s
          /\ \A j \in DOMAIN sessions \ {id} : sessions'[j] = sessions[j]
          /\ DOMAIN registered' = DOMAIN registered
          /\ registered'[f] = [registered[f] EXCEPT !.mask = m]
          /\ \A g \in DOMAIN registered \ {f} : registered'[g] = registered[g]
      BY <3>0, <1>d DEF GoesOn
    <3>a. registered'[f] \in [id : Nat, mask : SUBSET Bits] /\ registered'[f].id = id /\ registered'[f].mask = m
      BY <3>1, <1>d
    <3>2. SessionTypeOK'
      BY <1>1, <3>1, <3>a DEF SessionTypeOK
    <3>3. ASSUME NEW j \in DOMAIN sessions' PROVE SessionOK(j)'
      <4>1. CASE j # id
        BY <4>1, <3>1, <1>2, <1>3, <1>4, OthersKept
      <4>2. CASE j = id
        <5>1. /\ sessions'[id].fd \in DOMAIN registered'
              /\ registered'[sessions'[id].fd].id = id
              /\ registered'[sessions'[id].fd].mask = m
          BY <3>0, <3>1, <3>a, <1>d
        <5>2. Progress(id, sessions'[id], registered'[sessions'[id].fd].mask, deferred', work',
                       Len(answered'[sessions'[id].client]),
                       sent'[sessions'[id].client] - Len(requests'[sessions'[id].client]))
          BY <3>0, <3>1, <5>1, <1>3
        <5> QED
          BY <4>2, <5>1, <5>2, Zenon DEF SessionOK, Taken
      <4> QED
        BY <4>1, <4>2
    <3>4. NoStaleRegistration'
      <4>1. DOMAIN registered = {sessions[j].fd : j \in DOMAIN sessions}
        BY <1>1 DEF NoStaleRegistration
      <4>2. \A j \in DOMAIN sessions : sessions'[j].fd = sessions[j].fd
        BY <3>0, <3>1
      <4> QED
        BY <3>1, <4>1, <4>2 DEF NoStaleRegistration
    <3> QED
      BY <3>0, <3>1, <3>2, <3>3, <3>4 DEF SessionsOK
  <2> QED
    BY <2>1, <2>2 DEF SessionMoves
<1>6. \A j \in DOMAIN sessions' : sessions'[j].client = sessions[j].client
  BY <1>5
<1>7. \A b \in Clients : Fresh(b)' <=> Fresh(b)
  BY <1>3 DEF Fresh
<1>8. \A b \in Clients : Fresh(b) => b # c /\ Taken(b)' = Taken(b) /\ answered'[b] = answered[b]
  <2>1. \A b \in Clients : Fresh(b) => b # c
    BY DEF IInv, OneEnd
  <2> QED
    BY <2>1, <1>2, <1>3 DEF Taken
<1>9. OneEnd'
  BY <1>3, <1>5, <1>6, <1>7, <1>8 DEF IInv, OneEnd
<1> QED
  BY <1>2, <1>5, <1>9

-----------------------------------------------------------------------------
(* The operations on one session.                                          *)

SessionTail(c) ==
  \/ UNCHANGED requests
  \/ requests[c] # << >> /\ requests' = [requests EXCEPT ![c] = Tail(@)]

FaultsOK == faults' \in 0 .. MaxFaults

(* A call that succeeds or fails keeps the count of faults.                *)
LEMMA FaultsKept ==
  ASSUME IInv, Succeeds \/ Fails
  PROVE  FaultsOK
<1>1. faults \in 0 .. MaxFaults /\ MaxFaults \in Nat
  BY SocketServerAssumption, TypeParts DEF IInv, LoopTypeOK
<1> QED
  BY <1>1 DEF Succeeds, Fails, FaultsOK

(* A session ready to send the next answer r, as s: it is sent and the     *)
(* session reads again, or the modified mask is refused and it closes.     *)
LEMMA SendSucceededMoves ==
  ASSUME IInv, NEW id \in DOMAIN sessions, NEW s \in SessionType,
         s.fd = sessions[id].fd, s.client = sessions[id].client,
         NoSink(deferred', work', id),
         UNCHANGED <<peer, sent, backlog>>, SessionTail(s.client),
         sent[s.client] - Len(requests'[s.client]) = Len(answered[s.client]) + 1,
         SendSucceeded(id, s, Answer(s.client, Len(answered[s.client]) + 1))
  PROVE  SessionMoves(id) /\ ClientMoves(s.client) /\ FaultsOK
<1> DEFINE c == s.client
           k == Len(answered[c])
           a == Answer(c, k + 1)
           u == [s EXCEPT !.pendingResponse = None, !.requestInFlight = FALSE, !.idle = FALSE]
<1>1. c \in Clients /\ k \in Nat /\ answered \in [Clients -> Seq(Request)]
  BY TypeParts, LenProperties DEF IInv, ClientTypeOK, SessionType
<1>2. ClientMoves(c)
  BY DEF ClientMoves, SessionTail, SendSucceeded
<1>3. Len(answered'[c]) = k + 1
  <2>1. answered'[c] = Append(answered[c], a)
    BY <1>1 DEF SendSucceeded, Deliver
  <2>2. a \in Request
    <3>1. MaxRequests \in Nat /\ sent[c] \in 0 .. MaxRequests /\ Len(requests'[c]) \in Nat
      <4>1. ClientInv
        BY TypeParts DEF IInv, ClientInv
      <4>2. ClientInv'
        BY <1>1, <1>2, <4>1, ClientMovesKeep
      <4> QED
        BY <1>1, <4>1, <4>2, LenProperties, SocketServerAssumption DEF ClientInv, ClientTypeOK
    <3>2. k + 1 \in 1 .. MaxRequests
      BY <1>1, <3>1
    <3> QED
      BY <1>1, <3>2 DEF Request, Answer
  <2> QED
    BY <1>1, <2>1, <2>2, AppendProperties
<1>4. CASE /\ Succeeds
           /\ LoopModify(s.fd, {"READ"})
           /\ sessions' = [sessions EXCEPT ![id] = u]
  <2>1. u \in SessionType /\ u.fd = s.fd /\ u.client = c /\ ~u.requestInFlight /\ u.pendingResponse = None
    BY DEF SessionType
  <2>2. GoesOn(id, u, {"READ"})
    BY <1>4 DEF GoesOn, LoopModify
  <2>3. Progress(id, u, {"READ"}, deferred', work', Len(answered'[c]), sent[c] - Len(requests'[c]))
    BY <1>3, <2>1 DEF Progress, Waiting
  <2>4. {"READ"} \in SUBSET Bits
    BY DEF Bits
  <2> HIDE DEF u
  <2>5. SessionMoves(id)
    BY <2>1, <2>2, <2>3, <2>4 DEF SessionMoves
  <2> QED
    BY <1>2, <1>4, <2>5, FaultsKept
<1>5. CASE Fails /\ closeSession(id)
  BY <1>2, <1>5, FaultsKept DEF SessionMoves, Closes, closeSession, LoopRemove
<1> QED
  BY <1>4, <1>5 DEF SendSucceeded

(* sendResponse writes the next answer that its client waits for.          *)
LEMMA SendResponseMoves ==
  ASSUME IInv, NEW id \in DOMAIN sessions, NEW s \in SessionType,
         s.fd = sessions[id].fd, s.client = sessions[id].client, s.requestInFlight,
         NoSink(deferred', work', id),
         UNCHANGED <<peer, sent, backlog>>, SessionTail(s.client),
         sent[s.client] - Len(requests'[s.client]) = Len(answered[s.client]) + 1,
         SendResponse(id, s, Answer(s.client, Len(answered[s.client]) + 1))
  PROVE  SessionMoves(id) /\ ClientMoves(s.client) /\ FaultsOK
<1> DEFINE c == s.client
           k == Len(answered[c])
           a == Answer(c, k + 1)
           u == [s EXCEPT !.pendingResponse = a]
<1>1. CASE SendSucceeded(id, s, a)
  BY <1>1, SendSucceededMoves
<1>2. CASE closeSession(id) /\ UNCHANGED <<unread, answered>> /\ (Succeeds \/ Fails)
  BY <1>2, FaultsKept DEF ClientMoves, SessionTail, SessionMoves, Closes, closeSession, LoopRemove
<1>3. CASE /\ Succeeds
           /\ LoopModify(s.fd, {"WRITE"})
           /\ sessions' = [sessions EXCEPT ![id] = u]
           /\ UNCHANGED <<unread, answered>>
  <2>0. ClientMoves(c)
    BY <1>3 DEF ClientMoves, SessionTail
  <2>1. a \in Request
    <3>1. c \in Clients /\ ClientInv
      BY TypeParts DEF IInv, ClientInv, SessionType
    <3>2. ClientInv'
      BY <3>1, <2>0, ClientMovesKeep
    <3>3. /\ MaxRequests \in Nat /\ sent[c] \in 0 .. MaxRequests /\ Len(requests'[c]) \in Nat
          /\ k \in Nat
      BY <3>1, <3>2, LenProperties, SocketServerAssumption DEF ClientInv, ClientTypeOK
    <3>4. k + 1 \in 1 .. MaxRequests
      BY <3>3
    <3> QED
      BY <3>1, <3>4 DEF Request, Answer
  <2>2. /\ u \in SessionType /\ u.fd = s.fd /\ u.client = c
        /\ u.requestInFlight /\ u.pendingResponse = a
    BY <2>1 DEF SessionType
  <2>3. GoesOn(id, u, {"WRITE"})
    BY <1>3 DEF GoesOn, LoopModify
  <2>4. {"WRITE"} \in SUBSET Bits
    BY DEF Bits
  <2>5. answered'[c] = answered[c]
    BY <1>3
  <2>6. Progress(id, u, {"WRITE"}, deferred', work', Len(answered'[c]), sent[c] - Len(requests'[c]))
    BY <2>2, <2>5 DEF Progress, Queued
  <2> HIDE DEF u
  <2>7. SessionMoves(id)
    BY <2>2, <2>3, <2>4, <2>6 DEF SessionMoves
  <2> QED
    BY <1>3, <2>0, <2>7, FaultsKept
<1> QED
  BY <1>1, <1>2, <1>3 DEF SendResponse


(* Nothing of the sessions, of their clients or of the sinks changes.      *)
LEMMA UntouchedKept ==
  ASSUME IInv, UNCHANGED <<clientVars, sessions, nextId, registered, work, deferred>>
  PROVE  /\ ClientInv' /\ SessionTypeOK' /\ SessionsOK' /\ NoStaleRegistration' /\ OneEnd'
         /\ SinksOld' /\ work' \in Seq(SinkSet) /\ deferred' \subseteq SinkSet
<1>0. UNCHANGED <<peer, requests, sent, unread, answered, backlog>>
  BY DEF clientVars
<1>1. ClientInv /\ SessionTypeOK /\ LoopTypeOK
  BY TypeParts DEF IInv, ClientInv
<1>2. ClientInv'
  BY <1>0, <1>1 DEF ClientInv, ClientTypeOK, Numbered, Taken, AnswersInOrder
<1>3. SessionTypeOK' /\ NoStaleRegistration' /\ SinksOld' /\ work' \in Seq(SinkSet) /\ deferred' \subseteq SinkSet
  BY <1>1 DEF IInv, SessionTypeOK, LoopTypeOK, NoStaleRegistration, SinksOld
<1>4. SessionsOK'
  BY <1>0 DEF IInv, SessionsOK, SessionOK, Taken
<1>5. OneEnd'
  BY <1>0 DEF IInv, OneEnd, Fresh, Taken
<1> QED
  BY <1>2, <1>3, <1>4, <1>5

(* The state a session is in can be told from its flags.                   *)
LEMMA SessionStates ==
  ASSUME IInv, NEW id \in DOMAIN sessions
  PROVE  LET s == sessions[id]
             k == Len(answered[s.client])
         IN  /\ s \in SessionType /\ k \in Nat /\ id \in Nat
             /\ ~s.requestInFlight =>
                  /\ s.pendingResponse = None
                  /\ NoSink(deferred, work, id)
                  /\ Taken(s.client) = k
             /\ s.pendingResponse # None =>
                  /\ s.requestInFlight
                  /\ s.pendingResponse = Answer(s.client, k + 1)
                  /\ NoSink(deferred, work, id)
                  /\ Taken(s.client) = k + 1
             /\ ~NoSink(deferred, work, id) =>
                  /\ s.requestInFlight /\ s.pendingResponse = None
                  /\ OneSink(deferred, work, id, Answer(s.client, k + 1))
                  /\ Taken(s.client) = k + 1
<1> DEFINE s == sessions[id]
           k == Len(answered[s.client])
<1>1. s \in SessionType /\ k \in Nat /\ id \in Nat
  BY TypeParts, LenProperties DEF IInv, SessionTypeOK, ClientTypeOK, SessionType
<1>2. Progress(id, s, registered[s.fd].mask, deferred, work, k, Taken(s.client))
  BY DEF IInv, SessionsOK, SessionOK
<1> QED
  BY <1>1, <1>2 DEF Progress, Waiting, Working, Queued

(* A handler finds the session that has the descriptor now.                *)
LEMMA HandlerFound ==
  ASSUME IInv, NEW fd \in DOMAIN registered
  PROVE  registered[fd].id \in DOMAIN sessions /\ sessions[registered[fd].id].fd = fd
<1>1. PICK id \in DOMAIN sessions : sessions[id].fd = fd
  BY DEF IInv, NoStaleRegistration
<1> QED
  BY <1>1 DEF IInv, SessionsOK, SessionOK

(* The sinks when none of them moves.                                      *)
LEMMA SinksStill ==
  ASSUME IInv, UNCHANGED <<work, deferred, nextId>>
  PROVE  \A id : SinksMove(id)
BY TypeParts DEF IInv, SinksMove, SinksOld, LoopTypeOK

(* drainPendingSend, on a session whose response is queued.                *)
LEMMA DrainPendingMoves ==
  ASSUME IInv, NEW id \in DOMAIN sessions, sessions[id].pendingResponse # None,
         UNCHANGED <<peer, sent, backlog, requests, work, deferred>>,
         drainPendingSend(id)
  PROVE  /\ FaultsOK
         /\ \/ SessionMoves(id) /\ ClientMoves(sessions[id].client)
            \/ UNCHANGED <<unread, answered, sessions, registered>>
<1> DEFINE s == sessions[id]
           c == s.client
           k == Len(answered[c])
<1>1. /\ s \in SessionType /\ s.pendingResponse = Answer(c, k + 1)
      /\ NoSink(deferred, work, id) /\ Taken(c) = k + 1
  BY SessionStates
<1>2. sent[c] - Len(requests'[c]) = k + 1 /\ SessionTail(c) /\ NoSink(deferred', work', id)
  BY <1>1 DEF Taken, SessionTail
<1>3. CASE SendSucceeded(id, s, s.pendingResponse)
  <2>1. SendSucceeded(id, s, Answer(c, k + 1))
    BY <1>1, <1>3
  <2> QED
    BY <1>1, <1>2, <2>1, SendSucceededMoves
<1>4. CASE Fails /\ UNCHANGED <<unread, answered, sessions, registered>>
  BY <1>4, FaultsKept
<1>5. CASE Succeeds /\ closeSession(id) /\ UNCHANGED <<unread, answered>>
  BY <1>5, <1>2, FaultsKept DEF ClientMoves, SessionTail, SessionMoves, Closes, closeSession, LoopRemove
<1> QED
  BY <1>3, <1>4, <1>5 DEF drainPendingSend

(* The first request not read is the next one to be answered.              *)
LEMMA NextRequest ==
  ASSUME IInv, NEW c \in Clients, requests[c] # << >>,
         requests' = [requests EXCEPT ![c] = Tail(@)]
  PROVE  /\ Head(requests[c]).n = Taken(c) + 1
         /\ sent[c] - Len(requests'[c]) = Taken(c) + 1
<1> DEFINE q == requests[c]
<1>0. /\ requests \in [Clients -> Seq([n : 1 .. MaxRequests, kind : Kinds])]
      /\ sent \in [Clients -> 0 .. MaxRequests]
  BY TypeParts DEF IInv, ClientTypeOK
<1>a. sent[c] \in Nat
  BY <1>0, SocketServerAssumption
<1>b. requests'[c] = Tail(q)
  BY <1>0
<1>1. q \in Seq([n : 1 .. MaxRequests, kind : Kinds])
  BY <1>0
<1>2. /\ DOMAIN q = 1 .. Len(q) /\ Len(q) \in Nat /\ Len(q) > 0
      /\ Head(q) = q[1] /\ Len(Tail(q)) = Len(q) - 1
  BY <1>1, HeadTailProperties, LenProperties, EmptySeq
<1>3. 1 \in DOMAIN q /\ \A i \in DOMAIN q : q[i].n = sent[c] - Len(q) + i
  BY <1>2 DEF IInv, Numbered, Taken
<1>4. Head(q).n = sent[c] - Len(q) + 1
  BY <1>2, <1>3
<1>5. sent[c] - Len(requests'[c]) = sent[c] - Len(q) + 1
  <2>1. \A x, y \in Nat : x - (y - 1) = x - y + 1
    OBVIOUS
  <2>2. sent[c] - (Len(q) - 1) = sent[c] - Len(q) + 1
    BY <2>1, <1>a, <1>2
  <2> QED
    BY <2>2, <1>b, <1>2
<1> QED
  BY <1>4, <1>5 DEF Taken

(* processRequest, on a session that has no request in hand.               *)
LEMMA ProcessRequestMoves ==
  ASSUME IInv, NEW id \in DOMAIN sessions, ~sessions[id].requestInFlight,
         UNCHANGED <<peer, sent, backlog, work, nextId>>,
         processRequest(id)
  PROVE  /\ FaultsOK
         /\ \/ SessionMoves(id) /\ ClientMoves(sessions[id].client) /\ SinksMove(id)
            \/ UNCHANGED <<requests, unread, answered, sessions, registered, deferred>>
<1> DEFINE s == sessions[id]
           c == s.client
           k == Len(answered[c])
           a == Answer(c, k + 1)
           took == [s EXCEPT !.requestInFlight = TRUE, !.idle = FALSE]
<1>1. /\ s \in SessionType /\ s.pendingResponse = None /\ k \in Nat /\ id \in Nat
      /\ NoSink(deferred, work, id) /\ Taken(c) = k /\ c \in Clients
  BY SessionStates DEF SessionType
<1>2. /\ took \in SessionType /\ took.fd = s.fd /\ took.client = c
      /\ took.requestInFlight /\ took.pendingResponse = None
  BY <1>1 DEF SessionType
<1>c. ASSUME closeSession(id), UNCHANGED <<unread, answered, deferred>>, SessionTail(c)
      PROVE  SessionMoves(id) /\ ClientMoves(c) /\ SinksMove(id)
  BY <1>c, SinksStill DEF ClientMoves, SessionTail, SessionMoves, Closes, closeSession, LoopRemove
<1>3. CASE /\ requests[c] # << >>
           /\ requests' = [requests EXCEPT ![c] = Tail(@)]
           /\ Handle(id, took, [client |-> c, n |-> Head(requests[c]).n])
  <2>1. Head(requests[c]).n = k + 1 /\ sent[c] - Len(requests'[c]) = k + 1
    BY <1>1, <1>3, NextRequest
  <2>2. Handle(id, took, a) /\ SessionTail(c)
    BY <1>3, <2>1 DEF Answer, SessionTail
  <2> HIDE DEF took, a
  <2>3. CASE SendResponse(id, took, a) /\ UNCHANGED deferred
    <3>1. NoSink(deferred', work', id) /\ SinksMove(id)
      BY <1>1, <2>3, SinksStill
    <3> QED
      BY <1>2, <2>1, <2>2, <2>3, <3>1, SendResponseMoves DEF a
  <2>4. CASE /\ Succeeds
             /\ LoopModify(took.fd, {})
             /\ sessions' = [sessions EXCEPT ![id] = took]
             /\ deferred' = deferred \cup {[id |-> id, request |-> a]}
             /\ UNCHANGED <<unread, answered>>
    <3>1. ClientMoves(c)
      BY <2>2, <2>4 DEF ClientMoves, SessionTail
    <3>2. a \in Request
      <4>1. ClientInv
        BY TypeParts DEF IInv, ClientInv
      <4>2. ClientInv'
        BY <1>1, <3>1, <4>1, ClientMovesKeep
      <4>3. MaxRequests \in Nat /\ sent[c] \in 0 .. MaxRequests /\ Len(requests'[c]) \in Nat
        BY <1>1, <4>1, <4>2, LenProperties, SocketServerAssumption DEF ClientInv, ClientTypeOK
      <4>4. k + 1 \in 1 .. MaxRequests
        BY <1>1, <2>1, <4>3
      <4> QED
        BY <1>1, <4>4 DEF Request, Answer, a
    <3>3. /\ deferred \in SUBSET SinkSet /\ work \in Seq(SinkSet) /\ id < nextId
          /\ deferred' = deferred \cup {Sink(id, a)} /\ Sink(id, a) \in SinkSet /\ Sink(id, a).id = id
          /\ nextId \in Nat
      BY <1>1, <2>4, <3>2, TypeParts DEF IInv, LoopTypeOK, SessionTypeOK, Sink, SinkSet
    <3>4. OneSink(deferred', work', id, a)
      BY <1>1, <3>3, SinkKept
    <3>5. SinksMove(id)
      <4>1. SinksOld'
        BY <3>3 DEF IInv, SinksOld
      <4>2. \A j \in Nat \ {id} :
              /\ NoSink(deferred, work, j) => NoSink(deferred', work', j)
              /\ \A r : OneSink(deferred, work, j, r) => OneSink(deferred', work', j, r)
        BY <3>3, SinkKept
      <4> QED
        BY <3>3, <4>1, <4>2 DEF SinksMove
    <3>6. Len(answered'[c]) = k
      BY <2>4
    <3>7. Progress(id, took, {}, deferred', work', Len(answered'[c]), sent[c] - Len(requests'[c]))
      BY <1>2, <2>1, <3>4, <3>6 DEF Progress, Working, a
    <3>8. GoesOn(id, took, {})
      BY <1>2, <2>4 DEF GoesOn, LoopModify
    <3>9. SessionMoves(id)
      BY <1>2, <3>7, <3>8 DEF SessionMoves
    <3> QED
      BY <2>4, <3>1, <3>5, <3>9, FaultsKept
  <2> QED
    BY <2>2, <2>3, <2>4 DEF Handle
<1>4. CASE /\ requests[c] # << >> /\ requests' = [requests EXCEPT ![c] = Tail(@)]
           /\ Succeeds \/ Fails
           /\ closeSession(id) /\ UNCHANGED <<unread, answered, deferred>>
  BY <1>4, <1>c, FaultsKept DEF SessionTail
<1>5. CASE /\ closeSession(id) /\ UNCHANGED <<unread, answered, deferred>>
           /\ UNCHANGED <<requests, faults>>
  BY <1>5, <1>c, FaultsKept DEF SessionTail, Succeeds
<1>6. CASE UNCHANGED <<requests, unread, answered, sessions, registered, deferred, faults>>
  BY <1>6, FaultsKept DEF Succeeds
<1> QED
  BY <1>3, <1>4, <1>5, <1>6 DEF processRequest

-----------------------------------------------------------------------------
(* The steps.                                                              *)

(* The inductive invariant from its parts, in the next state.              *)
LEMMA Assembled ==
  ASSUME ClientInv', SessionTypeOK', LoopTypeOK', SessionsOK', NoStaleRegistration', OneEnd',
         SinksOld', EventsOK'
  PROVE  IInv'
BY TypePartsNext DEF IInv, ClientInv

(* A readable, writable or broken connection (onSessionEvent).             *)
LEMMA OnSessionEventKeeps ==
  ASSUME IInv, NEW e \in ready, onSessionEvent(e)
  PROVE  IInv'
<1> DEFINE id == registered[e.fd].id
           c == sessions[id].client
<1>1. id \in DOMAIN sessions /\ sessions[id].fd = e.fd
  BY HandlerFound DEF onSessionEvent
<1>2. /\ UNCHANGED <<peer, sent, backlog, server, nextId, idleTimer, handler, batch, work>>
      /\ ready' = ready \ {e}
  BY DEF onSessionEvent
<1>3. /\ FaultsOK
      /\ \/ SessionMoves(id) /\ ClientMoves(c) /\ SinksMove(id)
         \/ UNCHANGED <<requests, unread, answered, sessions, registered, deferred>>
  <2>1. CASE /\ "WRITE" \in e.events
             /\ drainPendingSend(id)
             /\ UNCHANGED <<requests, deferred>>
    <3>1. PICK j \in DOMAIN sessions : sessions[j].fd = e.fd /\ sessions[j].pendingResponse # None
      BY <2>1 DEF IInv, EventsOK
    <3>2. j = id
      BY <1>1, <3>1, SessionsDiffer
    <3> QED
      BY <1>1, <1>2, <2>1, <3>1, <3>2, DrainPendingMoves, SinksStill
  <2>2. CASE ~sessions[id].requestInFlight /\ processRequest(id)
    BY <1>1, <1>2, <2>2, ProcessRequestMoves
  <2>3. CASE closeSession(id) /\ UNCHANGED <<requests, unread, answered, deferred, faults>>
    <3>1. SinksMove(id)
      BY <1>2, <2>3, SinksStill
    <3> QED
      BY <1>2, <2>3, <3>1, FaultsKept
      DEF ClientMoves, SessionMoves, Closes, closeSession, LoopRemove, Succeeds
  <2> QED
    BY <2>1, <2>2, <2>3 DEF onSessionEvent
<1>4. /\ ClientInv' /\ SessionTypeOK' /\ SessionsOK' /\ NoStaleRegistration' /\ OneEnd'
      /\ SinksOld' /\ work' \in Seq(SinkSet) /\ deferred' \subseteq SinkSet
      /\ \A j \in DOMAIN sessions \ {id} : j \in DOMAIN sessions' /\ sessions'[j] = sessions[j]
  <2>1. CASE SessionMoves(id) /\ ClientMoves(c) /\ SinksMove(id)
    BY <1>1, <1>2, <2>1, SessionMovesKeep DEF SinksMove
  <2>2. CASE UNCHANGED <<requests, unread, answered, sessions, registered, deferred>>
    BY <1>2, <2>2, UntouchedKept DEF clientVars
  <2> QED
    BY <1>3, <2>1, <2>2
<1>5. LoopTypeOK'
  BY <1>2, <1>3, <1>4, TypeParts DEF IInv, LoopTypeOK, FaultsOK
<1>6. EventsOK'
  <2>1. ASSUME NEW f \in ready', "WRITE" \in f.events
        PROVE  \E j \in DOMAIN sessions' : sessions'[j].fd = f.fd /\ sessions'[j].pendingResponse # None
    <3>1. f \in ready /\ f.fd # e.fd
      BY <1>2, <2>1 DEF IInv, EventsOK
    <3>2. PICK j \in DOMAIN sessions : sessions[j].fd = f.fd /\ sessions[j].pendingResponse # None
      BY <2>1, <3>1 DEF IInv, EventsOK
    <3>3. j # id
      BY <1>1, <3>1, <3>2
    <3> QED
      BY <1>4, <3>2, <3>3
  <2> QED
    BY <1>2, <2>1 DEF IInv, EventsOK
<1> QED
  BY <1>4, <1>5, <1>6, Assembled

(* A reply posted by the worker runs, for a session that may be gone.      *)
LEMMA RunReplyKeeps ==
  ASSUME IInv, RunReply
  PROVE  IInv'
<1> DEFINE d == Head(work)
<1>1. /\ handler = "drain" /\ batch' = batch - 1
      /\ handler' = IF batch = 1 THEN "none" ELSE "drain"
      /\ work' = Tail(work)
      /\ UNCHANGED <<peer, requests, sent, backlog, server, nextId, idleTimer, ready, deferred>>
  BY DEF RunReply
<1>2. batch \in 1 .. Len(work) /\ work \in Seq(SinkSet) /\ deferred \in SUBSET SinkSet
  BY <1>1, TypeParts DEF IInv, LoopTypeOK, EventsOK
<1>3. /\ work # << >> /\ Len(work) \in Nat /\ Tail(work) \in Seq(SinkSet)
      /\ Len(Tail(work)) = Len(work) - 1 /\ d \in SinkSet
      /\ DOMAIN Tail(work) = 1 .. Len(work) - 1 /\ DOMAIN work = 1 .. Len(work)
      /\ \A i \in 1 .. Len(work) - 1 : Tail(work)[i] = work[i + 1]
  <2>1. Len(work) \in Nat /\ Len(work) > 0
    BY <1>2, LenProperties
  <2>2. work # << >>
    BY <1>2, <2>1, EmptySeq
  <2> QED
    BY <1>2, <2>1, <2>2, HeadTailProperties, LenProperties
<1>4. SinksMove(d.id)
  <2>1. SinksOld'
    <3>1. \A i \in DOMAIN Tail(work) : Tail(work)[i].id < nextId
      <4>1. ASSUME NEW i \in DOMAIN Tail(work) PROVE Tail(work)[i].id < nextId
        <5>1. i + 1 \in DOMAIN work /\ Tail(work)[i] = work[i + 1]
          BY <1>3
        <5> QED
          BY <5>1 DEF IInv, SinksOld
      <4> QED
        BY <4>1
    <3> QED
      BY <1>1, <3>1 DEF IInv, SinksOld
  <2>2. \A j \in Nat \ {d.id} :
          /\ NoSink(deferred, work, j) => NoSink(deferred', work', j)
          /\ \A r : OneSink(deferred, work, j, r) => OneSink(deferred', work', j, r)
    BY <1>1, <1>2, <1>3, SinkTaken
  <2> QED
    BY <1>1, <1>2, <1>3, <2>1, <2>2 DEF SinksMove
<1>6. /\ FaultsOK => LoopTypeOK'
      /\ handler' = "drain" => batch' > 0
      /\ \A f \in ready : f.fd # WorkFd
  <2>1. batch' \in 0 .. Len(work')
    BY <1>1, <1>2, <1>3
  <2>2. handler' = "drain" => batch' > 0
    BY <1>1, <1>2
  <2>3. \A f \in ready : f.fd # WorkFd
    BY <1>1 DEF IInv, EventsOK
  <2>4. LoopTypeOK
    BY TypeParts DEF IInv
  <2> QED
    BY <1>1, <1>2, <1>3, <2>1, <2>2, <2>3, <2>4 DEF LoopTypeOK, FaultsOK
<1>7. CASE d.id \notin DOMAIN sessions
  <2>1. UNCHANGED <<unread, answered, sessions, registered, faults>>
    BY <1>7 DEF RunReply, SinkTarget
  <2>2. ClientInv' /\ NoStaleRegistration' /\ OneEnd' /\ SessionTypeOK'
    <3>1. ClientInv /\ SessionTypeOK /\ NoStaleRegistration
      BY TypeParts DEF IInv, ClientInv
    <3>2. ClientInv'
      BY <1>1, <2>1, <3>1 DEF ClientInv, ClientTypeOK, Numbered, Taken, AnswersInOrder
    <3>3. SessionTypeOK' /\ NoStaleRegistration'
      BY <1>1, <2>1, <3>1 DEF SessionTypeOK, NoStaleRegistration
    <3>4. OneEnd'
      BY <1>1, <2>1 DEF IInv, OneEnd, Fresh, Taken
    <3> QED
      BY <3>2, <3>3, <3>4
  <2>3. SessionsOK'
    <3>1. ASSUME NEW j \in DOMAIN sessions PROVE SessionOK(j)'
      <4> DEFINE s == sessions[j]
      <4>1. j \in Nat \ {d.id}
        BY <1>7, SessionStates
      <4>2. /\ s.fd \in DOMAIN registered /\ registered[s.fd].id = j
            /\ Progress(j, s, registered[s.fd].mask, deferred, work, Len(answered[s.client]), Taken(s.client))
        BY DEF IInv, SessionsOK, SessionOK
      <4>3. Progress(j, s, registered[s.fd].mask, deferred', work', Len(answered[s.client]), Taken(s.client))
        BY <1>4, <4>1, <4>2, ProgressFramed, Zenon DEF SinksMove
      <4> QED
        BY <1>1, <2>1, <4>2, <4>3 DEF SessionOK, Taken
    <3> QED
      BY <2>1, <3>1 DEF SessionsOK
  <2>4. FaultsOK
    BY <2>1, FaultsKept DEF Succeeds
  <2>5. EventsOK'
    BY <1>1, <1>6, <2>1 DEF IInv, EventsOK
  <2> QED
    BY <1>4, <1>6, <2>2, <2>3, <2>4, <2>5, Assembled DEF SinksMove
<1>8. CASE d.id \in DOMAIN sessions
  <2> DEFINE id == d.id
             s == sessions[id]
             k == Len(answered[s.client])
  <2>1. SendResponse(id, s, d.request)
    BY <1>8 DEF RunReply, SinkTarget
  <2>2. /\ s \in SessionType /\ s.requestInFlight /\ s.pendingResponse = None
        /\ OneSink(deferred, work, id, Answer(s.client, k + 1))
        /\ Taken(s.client) = k + 1
    <3>1. ~NoSink(deferred, work, id)
      BY <1>2, <1>3, SinkTaken
    <3> QED
      BY <1>8, <3>1, SessionStates
  <2>3. d = Sink(id, Answer(s.client, k + 1)) /\ NoSink(deferred', work', id)
    BY <1>1, <1>2, <1>3, <2>2, SinkTaken
  <2>4. SendResponse(id, s, Answer(s.client, k + 1))
    BY <2>1, <2>3 DEF Sink
  <2>5. SessionTail(s.client) /\ sent[s.client] - Len(requests'[s.client]) = k + 1
    BY <1>1, <2>2 DEF SessionTail, Taken
  <2>6. SessionMoves(id) /\ ClientMoves(s.client) /\ FaultsOK
    BY <1>1, <1>8, <2>2, <2>3, <2>4, <2>5, SendResponseMoves
  <2>7. /\ SessionTypeOK' /\ SessionsOK' /\ NoStaleRegistration' /\ OneEnd' /\ ClientInv'
        /\ \A j \in DOMAIN sessions \ {id} : j \in DOMAIN sessions' /\ sessions'[j] = sessions[j]
    BY <1>1, <1>4, <1>8, <2>6, SessionMovesKeep
  <2>8. EventsOK'
    <3>1. ASSUME NEW f \in ready, "WRITE" \in f.events
          PROVE  \E j \in DOMAIN sessions' : sessions'[j].fd = f.fd /\ sessions'[j].pendingResponse # None
      <4>1. PICK j \in DOMAIN sessions : sessions[j].fd = f.fd /\ sessions[j].pendingResponse # None
        BY <3>1 DEF IInv, EventsOK
      <4>2. j # id
        BY <2>2, <4>1
      <4> QED
        BY <2>7, <4>1, <4>2
    <3> QED
      BY <1>1, <1>6, <3>1 DEF IInv, EventsOK
  <2> QED
    BY <1>4, <1>6, <2>6, <2>7, <2>8, Assembled DEF SinksMove
<1> QED
  BY <1>7, <1>8


(* While there is a place left, there is a free descriptor for it.         *)
LEMMA FreeFdFound ==
  ASSUME IInv, Cardinality(DOMAIN sessions) < kMaxConnections
  PROVE  FreeFd \in SessionFds /\ FreeFd \notin DOMAIN registered
<1> DEFINE I == DOMAIN sessions
           used == {sessions[id].fd : id \in I}
           free == SessionFds \ used
           g == [id \in I |-> sessions[id].fd]
<1>1. kMaxConnections \in Nat /\ nextId \in Nat /\ I \subseteq 1 .. nextId - 1
  BY SocketServerAssumption, TypeParts DEF IInv, SessionTypeOK
<1>2. IsFiniteSet(I) /\ Cardinality(I) \in Nat
  <2>1. nextId - 1 \in Int
    BY <1>1
  <2>2. IsFiniteSet(1 .. nextId - 1)
    BY <2>1, FS_Interval
  <2> QED
    BY <1>1, <2>2, FS_Subset, FS_CardinalityType
<1>3. IsFiniteSet(used) /\ Cardinality(used) <= Cardinality(I) /\ Cardinality(used) \in Nat
  <2>1. g \in Surjection(I, used)
    BY DEF Surjection
  <2> QED
    BY <1>2, <2>1, FS_Surjection, FS_CardinalityType
<1>4. Cardinality(SessionFds) = kMaxConnections
  <2>1. 3 + kMaxConnections \in Int
    BY <1>1
  <2>2. Cardinality(4 .. 3 + kMaxConnections) = IF 4 > 3 + kMaxConnections THEN 0 ELSE (3 + kMaxConnections) - 4 + 1
    BY <2>1, FS_Interval
  <2>3. Cardinality(4 .. 3 + kMaxConnections) = kMaxConnections
    BY <1>1, <2>2
  <2> QED
    BY <2>3 DEF SessionFds
<1>5. free # {}
  <2>1. SUFFICES ASSUME free = {} PROVE FALSE
    OBVIOUS
  <2>2. SessionFds \in SUBSET used
    BY <2>1
  <2>3. Cardinality(SessionFds) <= Cardinality(used)
    BY <1>3, <2>2, FS_Subset
  <2> QED
    BY <1>1, <1>2, <1>3, <1>4, <2>3
<1>6. free \subseteq Nat
  BY <1>1 DEF SessionFds
<1> HIDE DEF free
<1>7. \E x \in free : \A y \in free : x =< y
  <2> DEFINE R == OpToRel(<, Nat)
  <2>a. R = {ss \in Nat \X Nat : ss[1] < ss[2]}
    BY Zenon DEF OpToRel
  <2>b. IsWellFoundedOn(R, Nat)
    BY NatLessThanWellFounded, Zenon
  <2> HIDE DEF R
  <2>c. \A a, b \in Nat : a < b => <<a, b>> \in R
    BY <2>a
  <2>1. PICK x \in free : \A y \in free : ~(<<y, x>> \in R)
    BY <1>5, <1>6, <2>b, WFMin
  <2>2. \A y \in free : ~(y < x) /\ x \in Nat /\ y \in Nat
    BY <1>6, <2>1, <2>c
  <2>3. \A y \in free : x =< y
    BY <2>2
  <2> QED
    BY <2>3
<1>8. FreeFd \in free
  BY <1>7, Zenon DEF FreeFd, Min, free
<1>9. DOMAIN registered = used
  BY DEF IInv, NoStaleRegistration
<1> QED
  BY <1>8, <1>9 DEF free

(* What is left of the backlog when its first connection is taken.         *)
LEMMA BacklogTail ==
  ASSUME IInv, backlog # << >>, backlog' = Tail(backlog)
  PROVE  /\ backlog' \in Seq(Clients) /\ Head(backlog) \in Clients
         /\ \A i \in DOMAIN backlog' : i + 1 \in DOMAIN backlog /\ backlog'[i] = backlog[i + 1] /\ i \in Nat
         /\ \A i \in DOMAIN backlog' : backlog'[i] # Head(backlog)
         /\ Fresh(Head(backlog)) /\ peer[Head(backlog)] # "none"
<1>1. backlog \in Seq(Clients)
  BY TypeParts DEF IInv, ClientTypeOK
<1>2. /\ DOMAIN backlog = 1 .. Len(backlog) /\ Len(backlog) \in Nat /\ Len(backlog) > 0
      /\ DOMAIN backlog' = 1 .. Len(backlog) - 1
      /\ \A i \in 1 .. Len(backlog) - 1 : backlog'[i] = backlog[i + 1]
      /\ Head(backlog) = backlog[1] /\ backlog' \in Seq(Clients) /\ Head(backlog) \in Clients
  BY <1>1, HeadTailProperties, LenProperties, EmptySeq
<1>3. \A i \in DOMAIN backlog' : i + 1 \in DOMAIN backlog /\ backlog'[i] = backlog[i + 1] /\ i \in Nat /\ i + 1 # 1
  BY <1>2
<1>4. 1 \in DOMAIN backlog
  BY <1>2
<1>5. \A i \in DOMAIN backlog' : backlog'[i] # Head(backlog)
  BY <1>2, <1>3, <1>4 DEF IInv, OneEnd
<1> QED
  BY <1>2, <1>3, <1>4, <1>5 DEF IInv, OneEnd, Fresh

(* A new connection, or one too many.                                      *)
LEMMA AcceptOneKeeps ==
  ASSUME IInv, AcceptOne
  PROVE  IInv'
<1> DEFINE c == Head(backlog)
<1>1. /\ backlog # << >> /\ backlog' = Tail(backlog)
      /\ UNCHANGED <<peer, requests, sent, unread, answered, server, idleTimer,
                     ready, handler, batch, work, deferred>>
  BY DEF AcceptOne
<1>2. /\ backlog' \in Seq(Clients) /\ c \in Clients
      /\ \A i \in DOMAIN backlog' : i + 1 \in DOMAIN backlog /\ backlog'[i] = backlog[i + 1] /\ i \in Nat
      /\ \A i \in DOMAIN backlog' : backlog'[i] # c
      /\ Fresh(c) /\ peer[c] # "none"
  BY <1>1, BacklogTail
<1>3. /\ \A b \in Clients : Fresh(b)' => Fresh(b) /\ b # c
      /\ \A i \in DOMAIN backlog' : peer'[backlog'[i]] # "none"
  BY <1>1, <1>2 DEF IInv, OneEnd, Fresh
<1>4. \A i, j \in DOMAIN backlog' : backlog'[i] = backlog'[j] => i = j
  <2>1. ASSUME NEW i \in DOMAIN backlog', NEW j \in DOMAIN backlog', backlog'[i] = backlog'[j]
        PROVE  i = j
    <3>1. i + 1 = j + 1
      BY <1>2, <2>1 DEF IInv, OneEnd
    <3> QED
      BY <1>2, <3>1
  <2> QED
    BY <2>1
<1>5. ClientInv'
  <2>1. ClientInv
    BY TypeParts DEF IInv, ClientInv
  <2> QED
    BY <1>1, <1>2, <2>1 DEF ClientInv, ClientTypeOK, Numbered, Taken, AnswersInOrder
<1>6. FaultsOK
  BY FaultsKept DEF AcceptOne, Succeeds
<1>7. LoopTypeOK'
  BY <1>1, <1>6, TypeParts DEF IInv, LoopTypeOK, FaultsOK
<1>8. nextId' = nextId \/ nextId' = nextId + 1
  BY DEF AcceptOne
<1>9. nextId \in Nat \ {0} /\ SessionTypeOK
  BY TypeParts DEF IInv, SessionTypeOK
<1>10. SinksOld'
  <2>1. /\ \A d \in deferred : d.id \in Nat
        /\ \A i \in DOMAIN work : work[i].id \in Nat
    <3>1. work \in Seq(SinkSet) /\ deferred \subseteq SinkSet
      BY TypeParts DEF IInv, LoopTypeOK
    <3>2. \A i \in DOMAIN work : work[i] \in SinkSet
      BY <3>1, ElementOfSeq, LenProperties
    <3> QED
      BY <3>1, <3>2 DEF SinkSet
  <2> QED
    BY <1>1, <1>8, <1>9, <2>1 DEF IInv, SinksOld
<1>11. CASE UNCHANGED <<sessions, registered>>
  <2>1. SessionTypeOK' /\ NoStaleRegistration'
    BY <1>8, <1>9, <1>11 DEF IInv, SessionTypeOK, NoStaleRegistration
  <2>2. SessionsOK'
    BY <1>1, <1>11 DEF IInv, SessionsOK, SessionOK, Taken
  <2>3. OneEnd'
    BY <1>1, <1>3, <1>4, <1>11 DEF IInv, OneEnd, Taken
  <2>4. EventsOK'
    BY <1>1, <1>11 DEF IInv, EventsOK
  <2> QED
    BY <1>5, <1>7, <1>10, <2>1, <2>2, <2>3, <2>4, Assembled
<1>12. CASE /\ Cardinality(DOMAIN sessions) < kMaxConnections
            /\ nextId' = nextId + 1
            /\ LoopAdd(FreeFd, NewId, {"READ"})
            /\ sessions' = With(sessions, NewId, Session(FreeFd, c))
  <2> DEFINE s == Session(FreeFd, c)
             f == FreeFd
  <2>1. f \in SessionFds /\ f \notin DOMAIN registered
    BY <1>12, FreeFdFound
  <2>2. nextId \notin DOMAIN sessions
    BY <1>9 DEF SessionTypeOK
  <2> HIDE DEF f
  <2>3. /\ DOMAIN sessions' = DOMAIN sessions \cup {nextId}
        /\ sessions'[nextId] = s
        /\ \A j \in DOMAIN sessions : sessions'[j] = sessions[j]
    BY <1>12, <2>2 DEF With, NewId
  <2>4. /\ DOMAIN registered' = DOMAIN registered \cup {f}
        /\ registered'[f] = [id |-> nextId, mask |-> {"READ"}]
        /\ \A g \in DOMAIN registered : registered'[g] = registered[g]
    BY <1>12, <2>1 DEF LoopAdd, With, NewId, f
  <2>5. /\ s \in SessionType /\ s.fd = f /\ s.client = c
        /\ ~s.requestInFlight /\ s.pendingResponse = None
    BY <1>2, <2>1 DEF Session, SessionType, f
  <2> HIDE DEF s
  <2>6. SessionTypeOK'
    <3>1. {"READ"} \in SUBSET Bits
      BY DEF Bits
    <3>2. DOMAIN sessions' \subseteq 1 .. nextId' - 1
      BY <1>9, <1>12, <2>3 DEF SessionTypeOK
    <3>3. \A g \in DOMAIN registered' : registered'[g] \in [id : Nat, mask : SUBSET Bits]
      BY <1>9, <2>4, <3>1 DEF SessionTypeOK
    <3> QED
      BY <1>9, <1>12, <2>1, <2>3, <2>4, <2>5, <3>2, <3>3 DEF SessionTypeOK
  <2>7. NoStaleRegistration'
    <3>1. {sessions'[j].fd : j \in DOMAIN sessions'} = {sessions[j].fd : j \in DOMAIN sessions} \cup {f}
      BY <2>3, <2>5
    <3> QED
      BY <2>4, <3>1 DEF IInv, NoStaleRegistration
  <2>8. ASSUME NEW j \in DOMAIN sessions' PROVE SessionOK(j)'
    <3>1. CASE j = nextId
      <4>1. NoSink(deferred, work, nextId)
        BY <1>9 DEF IInv, SinksOld, NoSink
      <4>2. Taken(c) = Len(answered[c])
        BY <1>2 DEF IInv, OneEnd
      <4>3. Progress(j, s, {"READ"}, deferred, work, Len(answered[c]), Taken(c))
        BY <2>5, <3>1, <4>1, <4>2 DEF Progress, Waiting
      <4>4. /\ sessions'[j].fd \in DOMAIN registered'
            /\ registered'[sessions'[j].fd].id = j
            /\ registered'[sessions'[j].fd].mask = {"READ"}
        BY <2>3, <2>4, <2>5, <3>1
      <4>5. Progress(j, sessions'[j], registered'[sessions'[j].fd].mask, deferred', work',
                     Len(answered'[sessions'[j].client]),
                     sent'[sessions'[j].client] - Len(requests'[sessions'[j].client]))
        BY <1>1, <2>3, <2>5, <3>1, <4>3, <4>4 DEF Taken
      <4> QED
        BY <4>4, <4>5, Zenon DEF SessionOK, Taken
    <3>2. CASE j \in DOMAIN sessions
      <4>1. SessionOK(j)
        BY <3>2 DEF IInv, SessionsOK
      <4> QED
        BY <1>1, <2>3, <2>4, <3>2, <4>1 DEF SessionOK, Taken
    <3> QED
      BY <2>3, <3>1, <3>2
  <2>9. OneEnd'
    <3>1. \A j \in DOMAIN sessions : sessions[j].client # c
      BY <1>2 DEF IInv, OneEnd
    <3> QED
      BY <1>1, <1>3, <1>4, <2>3, <2>5, <3>1 DEF IInv, OneEnd, Taken
  <2>10. EventsOK'
    BY <1>1, <2>3 DEF IInv, EventsOK
  <2> QED
    BY <1>5, <1>7, <1>10, <2>6, <2>7, <2>8, <2>9, <2>10, Assembled DEF SessionsOK
<1> QED
  BY <1>11, <1>12 DEF AcceptOne


(* The idle sweep closes what has been silent too long.                    *)
LEMMA OnIdleSweepKeeps ==
  ASSUME IInv, onIdleSweep
  PROVE  IInv'
<1>1. /\ UNCHANGED <<peer, requests, sent, unread, answered, backlog, server, nextId, handler, batch, work, deferred>>
      /\ ready' \subseteq ready
      /\ idleTimer' \in {"off", "armed"}
  BY DEF onIdleSweep, clientVars
<1>2. /\ DOMAIN sessions' = DOMAIN sessions \ Expired
      /\ \A j \in DOMAIN sessions' : sessions'[j] = sessions[j]
      /\ DOMAIN registered' = {f \in DOMAIN registered : registered[f].id \notin Expired}
      /\ \A f \in DOMAIN registered' : registered'[f] = registered[f]
  BY DEF onIdleSweep
<1>3. ClientInv'
  <2>1. ClientInv
    BY TypeParts DEF IInv, ClientInv
  <2> QED
    BY <1>1, <2>1 DEF ClientInv, ClientTypeOK, Numbered, Taken, AnswersInOrder
<1>4. FaultsOK
  BY FaultsKept DEF onIdleSweep
<1>5. LoopTypeOK'
  BY <1>1, <1>4, TypeParts DEF IInv, LoopTypeOK, FaultsOK
<1>6. SessionTypeOK'
  BY <1>1, <1>2, TypeParts DEF IInv, SessionTypeOK
<1>7. ASSUME NEW j \in DOMAIN sessions' PROVE SessionOK(j)'
  <2>1. j \in DOMAIN sessions /\ j \notin Expired /\ sessions'[j] = sessions[j]
    BY <1>2
  <2>2. SessionOK(j)
    BY <2>1 DEF IInv, SessionsOK
  <2>3. sessions[j].fd \in DOMAIN registered' /\ registered'[sessions[j].fd] = registered[sessions[j].fd]
    BY <1>2, <2>1, <2>2 DEF SessionOK
  <2> QED
    BY <1>1, <2>1, <2>2, <2>3 DEF SessionOK, Taken
<1>8. NoStaleRegistration'
  <2>1. ASSUME NEW f \in DOMAIN registered'
        PROVE  f \in {sessions'[j].fd : j \in DOMAIN sessions'}
    <3>1. f \in DOMAIN registered /\ registered[f].id \notin Expired
      BY <1>2
    <3>2. registered[f].id \in DOMAIN sessions' /\ sessions[registered[f].id].fd = f
      BY <1>2, <3>1, HandlerFound
    <3> QED
      BY <1>2, <3>2
  <2>2. \A j \in DOMAIN sessions' : sessions'[j].fd \in DOMAIN registered'
    BY <1>7 DEF SessionOK
  <2> QED
    BY <2>1, <2>2 DEF NoStaleRegistration
<1>9. OneEnd'
  BY <1>1, <1>2 DEF IInv, OneEnd, Fresh, Taken
<1>10. SinksOld'
  BY <1>1 DEF IInv, SinksOld
<1>11. EventsOK'
  <2>1. ASSUME NEW e \in ready', "WRITE" \in e.events
        PROVE  \E j \in DOMAIN sessions' : sessions'[j].fd = e.fd /\ sessions'[j].pendingResponse # None
    <3>1. PICK j \in DOMAIN sessions : sessions[j].fd = e.fd /\ sessions[j].pendingResponse # None
      BY <1>1, <2>1 DEF IInv, EventsOK
    <3>2. j \notin Expired
      BY <3>1, SessionStates DEF Expired
    <3> QED
      BY <1>2, <3>1, <3>2
  <2> QED
    BY <1>1, <2>1 DEF IInv, EventsOK
<1> QED
  BY <1>3, <1>5, <1>6, <1>7, <1>8, <1>9, <1>10, <1>11, Assembled DEF SessionsOK

(* The poller collects the events of one round.                            *)
LEMMA PollKeeps ==
  ASSUME IInv, Poll
  PROVE  IInv'
<1>1. /\ UNCHANGED <<clientVars, server, sessions, nextId, registered, idleTimer, handler, batch, work, deferred, faults>>
      /\ ready' = Readable /\ handler = "none"
  BY DEF Poll, serverVars, AtDispatchPoint
<1>2. DOMAIN registered \subseteq SessionFds /\ kMaxConnections \in Nat /\ LoopTypeOK
  BY TypeParts, SocketServerAssumption DEF IInv, SessionTypeOK
<1>3. ASSUME NEW e \in Readable
      PROVE  \/ e.fd \in DOMAIN registered /\ e = [fd |-> e.fd, events |-> EventsOf(e.fd)]
             \/ e = [fd |-> ListenerFd, events |-> {"READ"}]
             \/ e = [fd |-> TimerFd, events |-> {"READ"}]
             \/ e = [fd |-> WorkFd, events |-> {"READ"}] /\ work # << >>
  BY <1>3 DEF Readable, Ready
<1>4. \A f : EventsOf(f) \subseteq Bits
  BY DEF EventsOf
<1>5. {"READ"} \subseteq Bits /\ "WRITE" \notin {"READ"}
  BY DEF Bits
<1>6. \A f \in SessionFds : f # ListenerFd /\ f # TimerFd /\ f # WorkFd
  BY <1>2 DEF SessionFds, ListenerFd, TimerFd, WorkFd
<1>7. ListenerFd # TimerFd /\ ListenerFd # WorkFd /\ TimerFd # WorkFd
  BY DEF ListenerFd, TimerFd, WorkFd
<1>8. LoopTypeOK'
  <2>1. \A e \in Readable : e \in [fd : {ListenerFd, TimerFd, WorkFd} \cup SessionFds, events : SUBSET Bits]
    BY <1>2, <1>3, <1>4, <1>5
  <2> QED
    BY <1>1, <1>2, <2>1 DEF LoopTypeOK
<1>9. EventsOK'
  <2>1. ASSUME NEW e \in Readable, NEW f \in Readable, e.fd = f.fd
        PROVE  e = f
    <3>1. CASE e.fd \in DOMAIN registered
      <4>1. e.fd # ListenerFd /\ e.fd # TimerFd /\ e.fd # WorkFd
        BY <1>2, <1>6, <3>1
      <4>2. e = [fd |-> e.fd, events |-> EventsOf(e.fd)]
        BY <1>3, <4>1
      <4>3. f = [fd |-> f.fd, events |-> EventsOf(f.fd)]
        BY <1>3, <4>1, <2>1
      <4> DEFINE v(x) == [fd |-> x, events |-> EventsOf(x)]
      <4>4. e = v(e.fd) /\ f = v(f.fd)
        BY <4>2, <4>3
      <4> HIDE DEF v
      <4> QED
        BY <4>4, <2>1
    <3>2. CASE e.fd \notin DOMAIN registered
      <4> DEFINE v(x) == [fd |-> x, events |-> {"READ"}]
      <4>1. e = v(e.fd)
        BY <1>3, <3>2
      <4>2. f = v(f.fd)
        BY <1>3, <2>1, <3>2
      <4> HIDE DEF v
      <4> QED
        BY <4>1, <4>2, <2>1
    <3> QED
      BY <3>1, <3>2
  <2>2. ASSUME NEW e \in Readable, "WRITE" \in e.events
        PROVE  \E id \in DOMAIN sessions : sessions[id].fd = e.fd /\ sessions[id].pendingResponse # None
    <3>1. e.fd \in DOMAIN registered /\ e.events = EventsOf(e.fd)
      BY <1>3, <1>5, <2>2
    <3> DEFINE id == registered[e.fd].id
               s == sessions[id]
    <3>2. "WRITE" \in registered[e.fd].mask
      BY <2>2, <3>1 DEF EventsOf
    <3>3. id \in DOMAIN sessions /\ s.fd = e.fd
      BY <3>1, HandlerFound
    <3>4. Progress(id, s, registered[s.fd].mask, deferred, work, Len(answered[s.client]), Taken(s.client))
      BY <3>3 DEF IInv, SessionsOK, SessionOK
    <3>5. s.pendingResponse = Answer(s.client, Len(answered[s.client]) + 1)
      BY <3>2, <3>3, <3>4 DEF Progress, Waiting, Working, Queued
    <3>6. Len(answered[s.client]) \in Nat
      BY <3>3, SessionStates
    <3>7. s.pendingResponse # None
      BY <3>5, <3>6 DEF Answer, None
    <3> QED
      BY <3>3, <3>7
  <2>3. \A e \in Readable : e.fd = WorkFd => work # << >>
    BY <1>2, <1>3, <1>6, <1>7
  <2> QED
    BY <1>1, <2>1, <2>2, <2>3 DEF EventsOK
<1>10. /\ ClientInv' /\ SessionTypeOK' /\ SessionsOK' /\ NoStaleRegistration' /\ OneEnd' /\ SinksOld'
  BY <1>1, UntouchedKept
<1> QED
  BY <1>8, <1>9, <1>10, Assembled

(* The other steps of the loop and of the timer, start included: sessions, *)
(* clients and sinks stay.                                                 *)
LEMMA LoopStepsKeep ==
  ASSUME IInv,
         onAcceptReady \/ AcceptReturns \/ Drain \/ IdleTimerExpires \/ start
           \/ \E e \in ready : SkipStaleEvent(e)
  PROVE  IInv'
<1>1. UNCHANGED <<clientVars, sessions, nextId, registered, work, deferred>>
  BY DEF onAcceptReady, AcceptReturns, Drain, IdleTimerExpires, start, SkipStaleEvent, serverVars, loopVars
<1>2. /\ ClientInv' /\ SessionTypeOK' /\ SessionsOK' /\ NoStaleRegistration' /\ OneEnd' /\ SinksOld'
  BY <1>1, UntouchedKept
<1>3. FaultsOK
  BY FaultsKept DEF onAcceptReady, AcceptReturns, Drain, IdleTimerExpires, start, SkipStaleEvent, Succeeds
<1>4. LoopTypeOK /\ Len(work) \in Nat /\ EventsOK
  BY TypeParts, LenProperties DEF IInv, LoopTypeOK
<1>5. LoopTypeOK' /\ EventsOK'
  <2>1. CASE Drain
    <3>1. PICK e \in ready : e.fd = WorkFd /\ ready' = ready \ {e}
      BY <2>1 DEF Drain
    <3>2. work # << >> /\ \A f \in ready' : f.fd # WorkFd
      BY <1>4, <3>1 DEF EventsOK
    <3>3. Len(work) > 0
      BY <1>4, <3>2, EmptySeq DEF LoopTypeOK
    <3>4. handler' = "drain" /\ batch' = Len(work) /\ UNCHANGED <<server, idleTimer, faults>>
      BY <2>1 DEF Drain, serverVars
    <3>5. LoopTypeOK'
      BY <1>1, <1>4, <3>1, <3>4 DEF LoopTypeOK
    <3>6. EventsOK'
      BY <1>1, <1>4, <3>1, <3>2, <3>3, <3>4 DEF EventsOK
    <3> QED
      BY <3>5, <3>6
  <2>2. CASE onAcceptReady \/ AcceptReturns \/ IdleTimerExpires \/ start \/ \E e \in ready : SkipStaleEvent(e)
    <3>1. /\ ready' \subseteq ready /\ UNCHANGED batch
          /\ handler' \in {"none", "accept", "drain"} /\ (handler' = "drain" => handler = "drain")
          /\ (handler = "drain" => handler' = "drain")
          /\ server' \in {"created", "listening", "stopped"} /\ idleTimer' \in {"off", "armed", "expired"}
      BY <1>4, <2>2
      DEF onAcceptReady, AcceptReturns, IdleTimerExpires, start, SkipStaleEvent, serverVars, loopVars,
          LoopTypeOK, AtDispatchPoint
    <3>2. LoopTypeOK'
      BY <1>1, <1>3, <1>4, <3>1 DEF LoopTypeOK, FaultsOK
    <3>3. EventsOK'
      BY <1>1, <1>4, <3>1 DEF EventsOK
    <3> QED
      BY <3>2, <3>3
  <2> QED
    BY <2>1, <2>2
<1> QED
  BY <1>2, <1>5, Assembled


(* stop() closes every session.                                            *)
LEMMA StopKeeps ==
  ASSUME IInv, stop
  PROVE  IInv'
<1>1. /\ UNCHANGED <<peer, requests, sent, unread, answered, nextId, handler, batch, work, deferred, faults>>
      /\ server' = "stopped" /\ idleTimer' = "off" /\ backlog' = << >> /\ ready' = {}
  BY DEF stop
<1>2. DOMAIN sessions' = {}
  BY DEF stop, Empty
<1>3. DOMAIN registered' = {}
  BY DEF stop, IInv, NoStaleRegistration
<1>4. ClientInv /\ SessionTypeOK /\ LoopTypeOK
  BY TypeParts DEF IInv, ClientInv
<1>5. ClientInv'
  <2>1. << >> \in Seq(Clients)
    OBVIOUS
  <2>2. ClientTypeOK'
    BY <1>1, <1>4, <2>1 DEF ClientInv, ClientTypeOK
  <2>3. Numbered' /\ AnswersInOrder'
    BY <1>1, <1>4 DEF ClientInv, Numbered, Taken, AnswersInOrder
  <2> QED
    BY <2>2, <2>3 DEF ClientInv
<1>6. SessionTypeOK' /\ LoopTypeOK'
  BY <1>1, <1>2, <1>3, <1>4 DEF SessionTypeOK, LoopTypeOK
<1>7. SessionsOK' /\ SinksOld' /\ EventsOK'
  BY <1>1, <1>2 DEF IInv, SessionsOK, SinksOld, EventsOK
<1>8. NoStaleRegistration'
  BY <1>2, <1>3 DEF NoStaleRegistration
<1>9. OneEnd'
  <2>1. DOMAIN backlog' = {}
    BY <1>1
  <2>2. \A c \in Clients : Fresh(c)' => Fresh(c) /\ Taken(c)' = Taken(c)
    BY <1>1, <2>1 DEF Fresh, Taken
  <2> QED
    BY <1>1, <1>2, <2>1, <2>2 DEF IInv, OneEnd
<1> QED
  BY <1>5, <1>6, <1>7, <1>8, <1>9, Assembled

(* The worker completes a deferred request, in any order.                  *)
LEMMA WorkerCompletesKeeps ==
  ASSUME IInv, NEW d \in deferred, WorkerCompletes(d)
  PROVE  IInv'
<1>1. /\ UNCHANGED <<clientVars, server, sessions, nextId, registered, idleTimer, ready, handler, batch, faults>>
      /\ deferred' = deferred \ {d} /\ work' = Append(work, d)
  BY DEF WorkerCompletes, serverVars
<1>0. UNCHANGED <<peer, requests, sent, unread, answered, backlog>>
  BY <1>1 DEF clientVars
<1>2. ClientInv /\ SessionTypeOK /\ LoopTypeOK /\ SinksOld
  BY TypeParts DEF IInv, ClientInv
<1>3. work \in Seq(SinkSet) /\ deferred \in SUBSET SinkSet /\ d \in SinkSet
  BY <1>2 DEF LoopTypeOK
<1>4. /\ Len(work) \in Nat /\ work' \in Seq(SinkSet) /\ Len(work') = Len(work) + 1
      /\ DOMAIN work = 1 .. Len(work) /\ DOMAIN work' = 1 .. Len(work) + 1
      /\ \A i \in 1 .. Len(work) : work'[i] = work[i]
      /\ work'[Len(work) + 1] = d
  BY <1>1, <1>3, AppendProperties, LenProperties
<1>5. \A i \in DOMAIN work' : i \in DOMAIN work \/ i = Len(work) + 1
  BY <1>4
<1>6. SinksOld'
  BY <1>1, <1>2, <1>4, <1>5 DEF SinksOld
<1>7. ClientInv' /\ SessionTypeOK'
  BY <1>0, <1>1, <1>2 DEF ClientInv, ClientTypeOK, Numbered, Taken, AnswersInOrder, SessionTypeOK
<1>8. LoopTypeOK'
  BY <1>1, <1>2, <1>3, <1>4 DEF LoopTypeOK
<1>9. OneEnd' /\ NoStaleRegistration'
  BY <1>0, <1>1 DEF IInv, OneEnd, Fresh, Taken, NoStaleRegistration
<1>10. EventsOK'
  <2>1. work' # << >>
    BY <1>4, EmptySeq
  <2> QED
    BY <1>1, <2>1 DEF IInv, EventsOK
<1>11. ASSUME NEW j \in DOMAIN sessions PROVE SessionOK(j)'
  <2> DEFINE s == sessions[j]
  <2>1. /\ s.fd \in DOMAIN registered /\ registered[s.fd].id = j
        /\ Progress(j, s, registered[s.fd].mask, deferred, work, Len(answered[s.client]), Taken(s.client))
    BY DEF IInv, SessionsOK, SessionOK
  <2>2. /\ NoSink(deferred, work, j) => NoSink(deferred', work', j)
        /\ \A r : OneSink(deferred, work, j, r) => OneSink(deferred', work', j, r)
    BY <1>1, <1>3, SinkPosted
  <2>3. Progress(j, s, registered[s.fd].mask, deferred', work', Len(answered[s.client]), Taken(s.client))
    BY <2>1, <2>2, ProgressFramed, Zenon
  <2> QED
    BY <1>0, <1>1, <2>1, <2>3 DEF SessionOK, Taken
<1>12. SessionsOK'
  BY <1>1, <1>11 DEF SessionsOK
<1> QED
  BY <1>6, <1>7, <1>8, <1>9, <1>10, <1>12, Assembled

(* A session grows old.                                                    *)
LEMMA TimePassesKeeps ==
  ASSUME IInv, NEW id \in DOMAIN sessions, TimePasses(id)
  PROVE  IInv'
<1> DEFINE u == [sessions[id] EXCEPT !.idle = TRUE]
<1>1. /\ UNCHANGED <<peer, requests, sent, unread, answered, backlog, server, nextId, registered, idleTimer,
                     ready, handler, batch, work, deferred, faults>>
      /\ sessions' = [sessions EXCEPT ![id] = u]
  BY DEF TimePasses, clientVars, loopVars
<1>2. ClientInv /\ SessionTypeOK /\ LoopTypeOK
  BY TypeParts DEF IInv, ClientInv
<1>3. sessions[id] \in SessionType
  BY <1>2 DEF SessionTypeOK
<1>4. /\ u \in SessionType /\ u.fd = sessions[id].fd /\ u.client = sessions[id].client
      /\ u.requestInFlight = sessions[id].requestInFlight
      /\ u.pendingResponse = sessions[id].pendingResponse
  BY <1>3 DEF SessionType
<1> HIDE DEF u
<1>5. /\ DOMAIN sessions' = DOMAIN sessions /\ sessions'[id] = u
      /\ \A j \in DOMAIN sessions \ {id} : sessions'[j] = sessions[j]
  BY <1>1
<1>6. \A j \in DOMAIN sessions :
        /\ sessions'[j].fd = sessions[j].fd /\ sessions'[j].client = sessions[j].client
        /\ sessions'[j].requestInFlight = sessions[j].requestInFlight
        /\ sessions'[j].pendingResponse = sessions[j].pendingResponse
        /\ sessions'[j] \in SessionType
  BY <1>2, <1>4, <1>5 DEF SessionTypeOK
<1>7. ClientInv' /\ LoopTypeOK'
  BY <1>1, <1>2 DEF ClientInv, ClientTypeOK, Numbered, Taken, AnswersInOrder, LoopTypeOK
<1>8. SessionTypeOK'
  BY <1>1, <1>2, <1>5, <1>6 DEF SessionTypeOK
<1>9. NoStaleRegistration'
  BY <1>1, <1>5, <1>6 DEF IInv, NoStaleRegistration
<1>10. OneEnd' /\ SinksOld' /\ EventsOK'
  BY <1>1, <1>5, <1>6 DEF IInv, OneEnd, Fresh, Taken, SinksOld, EventsOK
<1>11. ASSUME NEW j \in DOMAIN sessions PROVE SessionOK(j)'
  <2> DEFINE s == sessions[j]
  <2>1. /\ s.fd \in DOMAIN registered /\ registered[s.fd].id = j
        /\ Progress(j, s, registered[s.fd].mask, deferred, work, Len(answered[s.client]), Taken(s.client))
    BY DEF IInv, SessionsOK, SessionOK
  <2>2. Progress(j, sessions'[j], registered[s.fd].mask, deferred, work, Len(answered[s.client]), Taken(s.client))
    BY <1>6, <2>1 DEF Progress, Waiting, Working, Queued
  <2> QED
    BY <1>1, <1>6, <2>1, <2>2 DEF SessionOK, Taken
<1>12. SessionsOK'
  BY <1>5, <1>11 DEF SessionsOK
<1> QED
  BY <1>7, <1>8, <1>9, <1>10, <1>12, Assembled

(* A client sends, reads, hangs up or connects.                            *)
LEMMA ClientStepKeeps ==
  ASSUME IInv, NEW c \in Clients, ClientStep(c)
  PROVE  IInv'
<1>1. /\ UNCHANGED <<server, sessions, nextId, registered, idleTimer, ready, handler, batch, work, deferred, faults>>
      /\ UNCHANGED answered
  BY DEF ClientStep, Connect, ClientSends, ClientReceives, ClientCloses, serverVars, loopVars
<1>2. ClientTypeOK /\ Numbered /\ AnswersInOrder /\ SessionTypeOK /\ LoopTypeOK
  BY TypeParts DEF IInv
<1>3. SessionTypeOK' /\ LoopTypeOK' /\ NoStaleRegistration' /\ SinksOld' /\ EventsOK' /\ AnswersInOrder'
  BY <1>1, <1>2 DEF IInv, SessionTypeOK, LoopTypeOK, NoStaleRegistration, SinksOld, EventsOK, AnswersInOrder
<1>4. ASSUME ClientTypeOK', Numbered', \A b \in Clients : Taken(b)' = Taken(b), OneEnd'
      PROVE  IInv'
  <2>1. \A id \in DOMAIN sessions : sessions[id].client \in Clients
    BY <1>2 DEF SessionTypeOK, SessionType
  <2>2. SessionsOK'
    BY <1>1, <1>4, <2>1 DEF IInv, SessionsOK, SessionOK
  <2> QED
    BY <1>3, <1>4, <2>2, Assembled DEF ClientInv
<1>5. CASE Connect(c)
  <2>1. /\ peer[c] = "none" /\ peer' = [peer EXCEPT ![c] = "open"] /\ backlog' = Append(backlog, c)
        /\ UNCHANGED <<requests, sent, unread>>
    BY <1>5 DEF Connect
  <2>2. /\ backlog \in Seq(Clients) /\ backlog' \in Seq(Clients)
        /\ Len(backlog) \in Nat /\ DOMAIN backlog = 1 .. Len(backlog)
        /\ DOMAIN backlog' = 1 .. Len(backlog) + 1
        /\ \A i \in 1 .. Len(backlog) : backlog'[i] = backlog[i]
        /\ backlog'[Len(backlog) + 1] = c
    BY <1>2, <2>1, AppendProperties, LenProperties DEF ClientTypeOK
  <2>3. \A i \in DOMAIN backlog' : (i \in DOMAIN backlog /\ backlog'[i] = backlog[i]) \/ (i = Len(backlog) + 1 /\ backlog'[i] = c)
    BY <2>2
  <2>4. peer'[c] = "open" /\ \A b \in Clients \ {c} : peer'[b] = peer[b]
    BY <1>2, <2>1 DEF ClientTypeOK
  <2>5. \A i \in DOMAIN backlog : backlog[i] # c /\ backlog[i] \in Clients
    <3>1. \A i \in DOMAIN backlog : backlog[i] \in Clients
      BY <2>2, ElementOfSeq
    <3> QED
      BY <2>1, <3>1 DEF IInv, OneEnd
  <2>6. ClientTypeOK' /\ Numbered'
    BY <1>1, <1>2, <2>1, <2>2 DEF ClientTypeOK, Numbered, Taken
  <2>7. \A b \in Clients : Taken(b)' = Taken(b)
    BY <2>1 DEF Taken
  <2>8. Fresh(c) /\ \A b \in Clients : Fresh(b)' => Fresh(b)
    BY <2>1, <2>3, <2>4, <2>5 DEF Fresh
  <2>9. /\ \A i \in DOMAIN backlog' : peer'[backlog'[i]] # "none"
        /\ \A i, j \in DOMAIN backlog' : backlog'[i] = backlog'[j] => i = j
    BY <2>3, <2>4, <2>5 DEF IInv, OneEnd
  <2>10. OneEnd'
    BY <1>1, <2>7, <2>8, <2>9 DEF IInv, OneEnd
  <2> QED
    BY <1>4, <2>6, <2>7, <2>10
<1>6. ASSUME UNCHANGED <<peer, backlog>>, \A b \in Clients : Taken(b)' = Taken(b)
      PROVE  OneEnd'
  BY <1>1, <1>6 DEF IInv, OneEnd, Fresh
<1>7. CASE \E kind \in Kinds : ClientSends(c, kind)
  <2>0. PICK kind \in Kinds : ClientSends(c, kind)
    BY <1>7
  <2> DEFINE e == [n |-> sent[c] + 1, kind |-> kind]
             R == [n : 1 .. MaxRequests, kind : Kinds]
             q == requests[c]
             p == Append(q, e)
  <2>1. /\ sent[c] < MaxRequests /\ sent' = [sent EXCEPT ![c] = @ + 1]
        /\ requests' = [requests EXCEPT ![c] = Append(@, e)]
        /\ UNCHANGED <<peer, backlog, unread>>
    BY <2>0 DEF ClientSends
  <2>2. /\ sent[c] \in Nat /\ MaxRequests \in Nat /\ sent[c] + 1 \in 1 .. MaxRequests
        /\ sent'[c] = sent[c] + 1
        /\ \A b \in Clients \ {c} : sent'[b] = sent[b]
        /\ sent' \in [Clients -> 0 .. MaxRequests]
    BY <1>2, <2>1, SocketServerAssumption DEF ClientTypeOK
  <2>3. e \in R /\ e.n = sent[c] + 1
    BY <2>2
  <2> HIDE DEF e, R
  <2>4. /\ requests \in [Clients -> Seq(R)] /\ q \in Seq(R)
    BY <1>2 DEF ClientTypeOK, R
  <2>5. /\ p \in Seq(R) /\ Len(q) \in Nat /\ Len(p) = Len(q) + 1
        /\ DOMAIN q = 1 .. Len(q) /\ DOMAIN p = 1 .. Len(q) + 1
        /\ \A i \in 1 .. Len(q) : p[i] = q[i]
        /\ p[Len(q) + 1] = e
    BY <2>3, <2>4, AppendProperties, LenProperties
  <2>6. /\ requests' \in [Clients -> Seq(R)] /\ requests'[c] = p
        /\ \A b \in Clients \ {c} : requests'[b] = requests[b]
    BY <2>1, <2>4, <2>5
  <2> HIDE DEF p
  <2>7. sent'[c] - Len(requests'[c]) = sent[c] - Len(q)
    <3>1. \A x, y \in Nat : (x + 1) - (y + 1) = x - y
      OBVIOUS
    <3>2. (sent[c] + 1) - (Len(q) + 1) = sent[c] - Len(q)
      BY <3>1, <2>2, <2>5
    <3> QED
      BY <3>2, <2>2, <2>5, <2>6
  <2>8. \A b \in Clients : Taken(b)' = Taken(b)
    BY <2>2, <2>6, <2>7 DEF Taken
  <2>9. Len(q) <= sent[c] /\ \A i \in DOMAIN q : q[i].n = sent[c] - Len(q) + i
    BY <1>2 DEF Numbered, Taken
  <2>10. ASSUME NEW i \in DOMAIN p PROVE p[i].n = sent[c] - Len(q) + i
    <3>1. CASE i \in 1 .. Len(q)
      BY <3>1, <2>5, <2>9
    <3>2. CASE i = Len(q) + 1
      <4>1. p[i].n = sent[c] + 1
        BY <3>2, <2>3, <2>5
      <4>2. \A x, y \in Nat : x + 1 = x - y + (y + 1)
        OBVIOUS
      <4>3. sent[c] + 1 = sent[c] - Len(q) + (Len(q) + 1)
        BY <4>2, <2>2, <2>5
      <4> QED
        BY <4>1, <4>3, <3>2
    <3> QED
      BY <3>1, <3>2, <2>5
  <2>11. Len(p) <= sent'[c]
    BY <2>2, <2>5, <2>9
  <2>12. ASSUME NEW b \in Clients
         PROVE  /\ Len(requests'[b]) <= sent'[b]
                /\ \A i \in DOMAIN requests'[b] : requests'[b][i].n = sent'[b] - Len(requests'[b]) + i
    <3>1. CASE b = c
      BY <3>1, <2>6, <2>7, <2>10, <2>11
    <3>2. CASE b # c
      BY <3>2, <2>2, <2>6, <1>2 DEF Numbered, Taken
    <3> QED
      BY <3>1, <3>2
  <2>13. Numbered'
    BY <2>12 DEF Numbered, Taken
  <2>14. ClientTypeOK'
    BY <1>1, <1>2, <2>1, <2>2, <2>6 DEF ClientTypeOK, R
  <2> QED
    BY <1>4, <1>6, <2>1, <2>8, <2>13, <2>14
<1>8. CASE ClientReceives(c)
  <2>1. /\ UNCHANGED <<peer, requests, sent, backlog>> /\ unread[c] # << >>
        /\ unread' = [unread EXCEPT ![c] = Tail(@)]
    BY <1>8 DEF ClientReceives
  <2>2. Tail(unread[c]) \in Seq(Request)
    BY <1>2, <2>1, HeadTailProperties DEF ClientTypeOK
  <2>3. ClientTypeOK' /\ Numbered'
    BY <1>1, <1>2, <2>1, <2>2 DEF ClientTypeOK, Numbered, Taken
  <2>4. \A b \in Clients : Taken(b)' = Taken(b)
    BY <2>1 DEF Taken
  <2> QED
    BY <1>4, <1>6, <2>1, <2>3, <2>4
<1>9. CASE ClientCloses(c)
  <2>1. /\ UNCHANGED <<requests, sent, unread, backlog>> /\ peer[c] = "open"
        /\ peer' = [peer EXCEPT ![c] = IF unread[c] = << >> THEN "closed" ELSE "reset"]
    BY <1>9 DEF ClientCloses
  <2>2. /\ peer' \in [Clients -> {"none", "open", "closed", "reset"}]
        /\ \A b \in Clients : peer'[b] = "none" <=> peer[b] = "none"
    BY <1>2, <2>1 DEF ClientTypeOK
  <2>3. ClientTypeOK' /\ Numbered'
    BY <1>1, <1>2, <2>1, <2>2 DEF ClientTypeOK, Numbered, Taken
  <2>4. \A b \in Clients : Taken(b)' = Taken(b)
    BY <2>1 DEF Taken
  <2>5. \A b \in Clients : Fresh(b)' => Fresh(b)
    BY <2>1, <2>2 DEF Fresh
  <2>6. \A i \in DOMAIN backlog : backlog[i] \in Clients
    BY <1>2, ElementOfSeq, LenProperties DEF ClientTypeOK
  <2>7. OneEnd'
    BY <1>1, <2>1, <2>2, <2>4, <2>5, <2>6 DEF IInv, OneEnd
  <2> QED
    BY <1>4, <2>3, <2>4, <2>7
<1> QED
  BY <1>5, <1>7, <1>8, <1>9 DEF ClientStep


-----------------------------------------------------------------------------
(* The three facts that make the invariant one of the specification.       *)
LEMMA IInvInit == Init => IInv
<1> SUFFICES ASSUME Init PROVE IInv
  OBVIOUS
<1>1. DOMAIN sessions = {} /\ DOMAIN registered = {}
  BY DEF Init, Empty
<1>2. \A T : << >> \in Seq(T)
  OBVIOUS
<1>3. Len(<< >>) = 0 /\ DOMAIN << >> = {}
  OBVIOUS
<1>4. ClientTypeOK
  BY <1>2, SocketServerAssumption DEF Init, ClientTypeOK
<1>5. SessionTypeOK
  BY <1>1 DEF Init, SessionTypeOK
<1>6. LoopTypeOK
  BY <1>2, <1>3, SocketServerAssumption DEF Init, LoopTypeOK
<1>7. \A c \in Clients : requests[c] = << >> /\ answered[c] = << >> /\ sent[c] = 0
  BY DEF Init
<1>8. Numbered
  BY <1>3, <1>7 DEF Numbered
<1>9. AnswersInOrder
  <2>2. ASSUME NEW c \in Clients
        PROVE  answered[c] = [i \in 1 .. Len(answered[c]) |-> [client |-> c, n |-> i]]
    <3>1. 1 .. Len(answered[c]) = {}
      BY <1>3, <1>7
    <3>2. << >> = [i \in {} |-> [client |-> c, n |-> i]]
      OBVIOUS
    <3> QED
      BY <1>7, <3>1, <3>2
  <2> QED
    BY <2>2 DEF AnswersInOrder
<1>10. OneEnd
  <2>1. DOMAIN backlog = {}
    BY <1>3 DEF Init
  <2>2. \A c \in Clients : Taken(c) = Len(answered[c])
    BY <1>3, <1>7 DEF Taken
  <2> QED
    BY <1>1, <2>1, <2>2 DEF OneEnd
<1>11. SinksOld /\ SessionsOK /\ NoStaleRegistration /\ EventsOK
  BY <1>1, <1>3 DEF Init, SinksOld, SessionsOK, NoStaleRegistration, EventsOK
<1> QED
  BY <1>4, <1>5, <1>6, <1>8, <1>9, <1>10, <1>11, TypeParts DEF IInv

(* It survives every step.                                                 *)
LEMMA IInvNext == IInv /\ [Next]_vars => IInv'
<1> SUFFICES ASSUME IInv, [Next]_vars PROVE IInv'
  OBVIOUS
<1>1. CASE start
  BY <1>1, LoopStepsKeep
<1>2. CASE stop
  BY <1>2, StopKeeps
<1>3. CASE MainStep
  <2>1. CASE Poll
    BY <2>1, PollKeeps
  <2>2. CASE onAcceptReady \/ AcceptReturns \/ Drain \/ \E e \in ready : SkipStaleEvent(e)
    BY <2>2, LoopStepsKeep
  <2>3. CASE AcceptOne
    BY <2>3, AcceptOneKeeps
  <2>4. CASE RunReply
    BY <2>4, RunReplyKeeps
  <2>5. CASE onIdleSweep
    BY <2>5, OnIdleSweepKeeps
  <2>6. CASE \E e \in ready : onSessionEvent(e)
    BY <2>6, OnSessionEventKeeps
  <2> QED
    BY <1>3, <2>1, <2>2, <2>3, <2>4, <2>5, <2>6 DEF MainStep
<1>4. CASE \E d \in deferred : WorkerCompletes(d)
  BY <1>4, WorkerCompletesKeeps
<1>5. CASE IdleTimerExpires
  BY <1>5, LoopStepsKeep
<1>6. CASE \E id \in DOMAIN sessions : TimePasses(id)
  BY <1>6, TimePassesKeeps
<1>7. CASE \E c \in Clients : ClientStep(c)
  BY <1>7, ClientStepKeeps
<1>8. CASE UNCHANGED vars
  <2>1. UNCHANGED <<clientVars, sessions, nextId, registered, work, deferred, server, idleTimer, ready, handler, batch, faults>>
    BY <1>8 DEF vars, serverVars, loopVars
  <2>2. /\ ClientInv' /\ SessionTypeOK' /\ SessionsOK' /\ NoStaleRegistration' /\ OneEnd' /\ SinksOld'
    BY <2>1, UntouchedKept
  <2>3. LoopTypeOK' /\ EventsOK'
    BY <2>1, TypeParts DEF IInv, LoopTypeOK, EventsOK
  <2> QED
    BY <2>2, <2>3, Assembled
<1> QED
  BY <1>1, <1>2, <1>3, <1>4, <1>5, <1>6, <1>7, <1>8 DEF Next

(* So it always holds.                                                     *)
LEMMA IInvHolds == Spec => []IInv
<1> QED
  BY IInvInit, IInvNext, PTL DEF Spec

(* Every response goes to the client that asked, in the order of its       *)
(* requests and each once, whatever closes, sweeps, hang-ups and reuse of  *)
(* descriptors come between a request and its late reply (sendResponse     *)
(* finds the session by a number that is never used twice).                *)
THEOREM ResponsesNeverMisrouted == Spec => []AnswersInOrder
<1>1. IInv => AnswersInOrder
  BY DEF IInv
<1> QED
  BY <1>1, IInvHolds, PTL

(* A session always waits for exactly one thing, a request, its one sink   *)
(* or room for a queued response, and closing it, on whatever path, leaves *)
(* no handler in EventLoop: no place among kMaxConnections is lost and no  *)
(* descriptor is refused to the next session.                              *)
THEOREM SessionsAlwaysDriven == Spec => []SessionInv
<1>1. IInv => SessionInv
  <2> SUFFICES ASSUME IInv PROVE SessionInv
    OBVIOUS
  <2>1. ASSUME NEW id \in DOMAIN sessions
        PROVE  LET s == sessions[id] IN
               /\ s.fd \in DOMAIN registered /\ registered[s.fd].id = id
               /\ \/ /\ ~s.requestInFlight /\ s.pendingResponse = None
                     /\ registered[s.fd].mask = {"READ"} /\ Sinks(id) = 0
                  \/ /\ s.requestInFlight /\ s.pendingResponse = None
                     /\ registered[s.fd].mask = {} /\ Sinks(id) = 1
                  \/ /\ s.requestInFlight /\ s.pendingResponse # None
                     /\ registered[s.fd].mask = {"WRITE"} /\ Sinks(id) = 0
    <3> DEFINE s == sessions[id]
               k == Len(answered[s.client])
               a == Answer(s.client, k + 1)
    <3>1. /\ s.fd \in DOMAIN registered /\ registered[s.fd].id = id
          /\ Progress(id, s, registered[s.fd].mask, deferred, work, k, Taken(s.client))
      BY DEF IInv, SessionsOK, SessionOK
    <3>2. /\ NoSink(deferred, work, id) => Sinks(id) = 0
          /\ OneSink(deferred, work, id, a) => Sinks(id) = 1
      BY SinksCounted DEF IInv
    <3>3. k \in Nat
      BY SessionStates
    <3>4. a # None
      BY <3>3 DEF Answer, None
    <3> HIDE DEF a
    <3>5. \/ Waiting(id, s, registered[s.fd].mask, deferred, work, k, Taken(s.client))
          \/ Working(id, s, registered[s.fd].mask, deferred, work, k, Taken(s.client))
          \/ Queued(id, s, registered[s.fd].mask, deferred, work, k, Taken(s.client))
      BY <3>1 DEF Progress
    <3>6. CASE Waiting(id, s, registered[s.fd].mask, deferred, work, k, Taken(s.client))
      BY <3>1, <3>2, <3>6, Zenon DEF Waiting
    <3>7. CASE Working(id, s, registered[s.fd].mask, deferred, work, k, Taken(s.client))
      BY <3>1, <3>2, <3>7, Zenon DEF Working, a
    <3>8. CASE Queued(id, s, registered[s.fd].mask, deferred, work, k, Taken(s.client))
      <4>1. s.pendingResponse = a
        BY <3>8, Zenon DEF Queued, a
      <4> QED
        BY <3>1, <3>2, <3>4, <3>8, <4>1, Zenon DEF Queued
    <3> QED
      BY <3>5, <3>6, <3>7, <3>8
  <2>2. OneDriverPerSession
    BY <2>1, Zenon DEF OneDriverPerSession
  <2> QED
    BY <2>2 DEF IInv, SessionInv
<1> QED
  BY <1>1, IInvHolds, PTL
=============================================================================
