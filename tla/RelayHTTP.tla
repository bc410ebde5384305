---------------------------- MODULE RelayHTTP ----------------------------
(* The HTTP path of GoTunnel: public requests at the relay, breakpoints and *)
(* paused requests, the queue and the QUIC session of a client daemon, the  *)
(* daemon's forwarding to the local service, and replays.                   *)
(*                                                                          *)
(* StartTunnel opens a session with the broker, which makes a fresh lease,  *)
(* and registers that lease with the relay once, so a tunnel stands for its *)
(* lease and for the client state the relay creates for it.  Every call     *)
(* under s.mu or p2.mu is one step.                                         *)
EXTENDS Naturals, Sequences, FiniteSets

CONSTANTS
    Tunnels,     \* tunnels that daemons start
    Hosts,       \* host names the public uses
    HostsOf,     \* HostsOf[t]: subdomain and custom domain of the lease
    Reqs,        \* public requests, which are also their request IDs
    Replays,     \* request IDs of replayed requests
    Filters,     \* breakpoints, as the sets of requests they match
    Debuggers,   \* callers of /v1/paused/action
    QueueCap,    \* capacity of clientState.Queue
    QUICCap,     \* capacity of clientState.QUICSend
    LogCap,      \* length of requestLog
    Transports,  \* Transports[t]: what the daemon can use, of {"poll", "quic"}
    Faults       \* what may fail: a subset of {"crash", "lose"}

IDs == Reqs \cup Replays
None == "none"

ASSUME RelayHTTPAssumption ==
    /\ HostsOf \in [Tunnels -> SUBSET Hosts]
    /\ Reqs \cap Replays = {}
    /\ None \notin Tunnels \cup IDs
    /\ Filters \subseteq SUBSET Reqs
    /\ QueueCap \in Nat \ {0} /\ QUICCap \in Nat \ {0} /\ LogCap \in Nat \ {0}
    /\ Transports \in [Tunnels -> SUBSET {"poll", "quic"}] /\ Faults \subseteq {"crash", "lose"}

VARIABLES
    tunnels,     \* s.tunnels: host -> tunnel
    clients,     \* keys of s.clients
    requests,    \* keys of s.requests, which are never deleted
    requestLog,  \* s.requestLog, newest first
    pc, tunnel,  \* handleTunnelRequest of each request: next step, tunnel found
    answer,      \* what the public got
    ResponseC,   \* ResponseC of each request: the response it holds, if any
    breakpoints, \* breakpoints of each tunnel
    paused,      \* keys of p2.paused
    ActionC,     \* ActionC of each paused request
    debugger,    \* resolvePausedRequest of each debugger: what it is to send
    replayOf,    \* history: the request that a replay repeats
    queue, send, \* Queue and QUICSend of each client
    up,          \* QUICUp of each client
    session,     \* the QUIC session of each client, as the relay sees it
    wire,        \* requests on the QUIC stream to each client
    daemon,      \* the daemon of each tunnel
    work,        \* the request it forwards to the local service
    reply,       \* responses on their way from the daemon to the relay
    forwarded,   \* history: calls of forwardToLocal for each ID
    server       \* history: the tunnel whose daemon made the last of them

relayVars == <<tunnels, clients, breakpoints>>
handlerVars == <<requests, requestLog, pc, tunnel, answer>>
pauseVars == <<paused, ActionC, debugger>>
channelVars == <<queue, send, up>>
quicVars == <<session, wire>>
daemonVars == <<daemon, work, reply, forwarded, server>>
vars == <<relayVars, handlerVars, ResponseC, pauseVars, replayOf, channelVars, quicVars,
          daemonVars>>

Actions == {"release", "discard"}
\* What the public can get: the response of the local service or an error.
Answers == {"refused", "notfound", "bad", "discarded", "expired", "full", "response", "timeout"}
Steps == {"idle", "find", "store", "match", "pause", "paused", "release", "discard", "expire",
          "cancel", "discarded", "send", "wait", "record", "done"}
\* Relay's view of a QUIC session: session_open on its way; both goroutines of
\* handleQUICConn run; the stream is dead and the reader waits for the writer;
\* the writer has ended; QUICUp is reset.
Sessions == {"none", "hello", "up", "broken", "drained", "down"}

TypeOK ==
    /\ tunnels \in [Hosts -> Tunnels \cup {None}] /\ clients \subseteq Tunnels
    /\ requests \subseteq Reqs /\ requestLog \in Seq(Reqs) /\ Len(requestLog) <= LogCap
    /\ pc \in [Reqs -> Steps] /\ tunnel \in [Reqs -> Tunnels \cup {None}]
    /\ answer \in [Reqs -> Answers \cup {None}]
    /\ ResponseC \in [Reqs -> {None, "response"}]
    /\ breakpoints \in [Tunnels -> SUBSET Filters]
    /\ paused \subseteq Reqs /\ ActionC \in [Reqs -> Actions \cup {None}]
    /\ debugger \in [Debuggers -> (Reqs \X Actions) \cup {<<>>}]
    /\ replayOf \in [Replays -> Reqs \cup {None}]
    /\ queue \in [Tunnels -> Seq(IDs)] /\ send \in [Tunnels -> Seq(Reqs)]
    /\ wire \in [Tunnels -> Seq(Reqs)]
    /\ \A t \in Tunnels : Len(queue[t]) <= QueueCap /\ Len(send[t]) <= QUICCap
    /\ up \in [Tunnels -> BOOLEAN] /\ session \in [Tunnels -> Sessions]
    /\ daemon \in [Tunnels -> {"off", "registered", "poll", "quic", "dead"}]
    /\ work \in [Tunnels -> IDs \cup {None}] /\ reply \in [Tunnels -> SUBSET IDs]
    /\ forwarded \in [IDs -> Nat] /\ server \in [IDs -> Tunnels \cup {None}]

Init ==
    /\ tunnels = [h \in Hosts |-> None] /\ clients = {}
    /\ requests = {} /\ requestLog = <<>>
    /\ pc = [r \in Reqs |-> "idle"] /\ tunnel = [r \in Reqs |-> None]
    /\ answer = [r \in Reqs |-> None] /\ ResponseC = [r \in Reqs |-> None]
    /\ breakpoints = [t \in Tunnels |-> {}]
    /\ paused = {} /\ ActionC = [r \in Reqs |-> None]
    /\ debugger = [d \in Debuggers |-> <<>>]
    /\ replayOf = [i \in Replays |-> None]
    /\ queue = [t \in Tunnels |-> <<>>] /\ send = [t \in Tunnels |-> <<>>]
    /\ up = [t \in Tunnels |-> FALSE] /\ session = [t \in Tunnels |-> "none"]
    /\ wire = [t \in Tunnels |-> <<>>]
    /\ daemon = [t \in Tunnels |-> "off"] /\ work = [t \in Tunnels |-> None]
    /\ reply = [t \in Tunnels |-> {}]
    /\ forwarded = [i \in IDs |-> 0] /\ server = [i \in IDs |-> None]

---------------------------------------------------------------------------
(* Starting a tunnel. *)

\* Mutant: the clients of the tunnels that lose their hosts are deleted.
RegisterReplaces(t) ==
    /\ daemon[t] = "off"
    /\ clients' = {c \in clients : HostsOf[c] \cap HostsOf[t] = {}} \cup {t}
    /\ tunnels' = [h \in Hosts |-> IF h \in HostsOf[t] THEN t ELSE tunnels[h]]
    /\ daemon' = [daemon EXCEPT ![t] = "registered"]
    /\ UNCHANGED <<breakpoints, handlerVars, ResponseC, pauseVars, replayOf, channelVars,
                   quicVars, work, reply, forwarded, server>>

\* registerWithRelay and handleRegisterClient; a lost reply ends StartTunnel.
Register(t) ==
    /\ daemon[t] = "off"
    /\ clients' = clients \cup {t}
    /\ tunnels' = [h \in Hosts |-> IF h \in HostsOf[t] THEN t ELSE tunnels[h]]
    /\ \/ daemon' = [daemon EXCEPT ![t] = "registered"]
       \/ "lose" \in Faults /\ daemon' = [daemon EXCEPT ![t] = "dead"]
    /\ UNCHANGED <<breakpoints, handlerVars, ResponseC, pauseVars, replayOf, channelVars,
                   quicVars, work, reply, forwarded, server>>

\* startQUICSession sends session_open and the daemon never polls.
OpenQUIC(t) ==
    /\ daemon[t] = "registered" /\ "quic" \in Transports[t]
    /\ daemon' = [daemon EXCEPT ![t] = "quic"]
    /\ session' = [session EXCEPT ![t] = "hello"]
    /\ UNCHANGED <<relayVars, handlerVars, ResponseC, pauseVars, replayOf, channelVars, wire,
                   work, reply, forwarded, server>>

\* No QUIC address, or the dial fails: the daemon polls.
OpenPoll(t) ==
    /\ daemon[t] = "registered" /\ "poll" \in Transports[t]
    /\ daemon' = [daemon EXCEPT ![t] = "poll"]
    /\ UNCHANGED <<relayVars, handlerVars, ResponseC, pauseVars, replayOf, channelVars, quicVars,
                   work, reply, forwarded, server>>

---------------------------------------------------------------------------
(* handleTunnelRequest. *)

Goto(r, step) == pc' = [pc EXCEPT ![r] = step]
Finish(r, a) == Goto(r, "done") /\ answer' = [answer EXCEPT ![r] = a]

\* The host is looked up; the policies may refuse the request before that.
Ingress(r, h) ==
    /\ pc[r] = "idle"
    /\ \/ Finish(r, "refused") /\ UNCHANGED tunnel
       \/ tunnels[h] = None /\ Finish(r, "notfound") /\ UNCHANGED tunnel
       \/ /\ tunnels[h] # None
          /\ tunnel' = [tunnel EXCEPT ![r] = tunnels[h]]
          /\ Goto(r, "find") /\ UNCHANGED answer
    /\ UNCHANGED <<relayVars, requests, requestLog, ResponseC, pauseVars, replayOf, channelVars,
                   quicVars, daemonVars>>

\* findClientByTunnelID; TunnelHasClient says why it always finds one.
FindClient(r) ==
    /\ pc[r] = "find" /\ tunnel[r] \in clients
    /\ \/ Goto(r, "store") /\ UNCHANGED answer
       \/ Finish(r, "bad")   \* reading the body fails
    /\ UNCHANGED <<relayVars, requests, requestLog, tunnel, ResponseC, pauseVars, replayOf,
                   channelVars, quicVars, daemonVars>>

StoreRequest(r) ==
    /\ pc[r] = "store"
    /\ requests' = requests \cup {r}
    /\ Goto(r, "match")
    /\ UNCHANGED <<relayVars, requestLog, tunnel, answer, ResponseC, pauseVars, replayOf,
                   channelVars, quicVars, daemonVars>>

matchBreakpoint(r) ==
    /\ pc[r] = "match"
    /\ Goto(r, IF \E f \in breakpoints[tunnel[r]] : r \in f THEN "pause" ELSE "send")
    /\ UNCHANGED <<relayVars, requests, requestLog, tunnel, answer, ResponseC, pauseVars,
                   replayOf, channelVars, quicVars, daemonVars>>

storePausedRequest(r) ==
    /\ pc[r] = "pause"
    /\ paused' = paused \cup {r}
    /\ Goto(r, "paused")
    /\ UNCHANGED <<relayVars, requests, requestLog, tunnel, answer, ResponseC, ActionC, debugger,
                   replayOf, channelVars, quicVars, daemonVars>>

\* The select over ActionC, the timer of a minute and the public's connection.
PausedSelect(r) ==
    /\ pc[r] = "paused"
    /\ \/ /\ ActionC[r] # None
          /\ Goto(r, ActionC[r])
          /\ ActionC' = [ActionC EXCEPT ![r] = None]
       \/ Goto(r, "expire") /\ UNCHANGED ActionC
       \/ Goto(r, "cancel") /\ UNCHANGED ActionC
    /\ UNCHANGED <<relayVars, requests, requestLog, tunnel, answer, ResponseC, paused, debugger,
                   replayOf, channelVars, quicVars, daemonVars>>

\* Mutant: no return after a pause that expired.
deletePausedRequestContinues(r) ==
    /\ pc[r] \in Actions \cup {"expire", "cancel"}
    /\ paused' = paused \ {r}
    /\ \/ pc[r] = "release" /\ Goto(r, "send") /\ UNCHANGED answer
       \/ pc[r] = "discard" /\ Goto(r, "discarded") /\ UNCHANGED answer
       \/ /\ pc[r] = "expire" /\ Goto(r, "send")
          /\ answer' = [answer EXCEPT ![r] = "expired"]
       \/ pc[r] = "cancel" /\ Finish(r, None)
    /\ UNCHANGED <<relayVars, requests, requestLog, tunnel, ResponseC, ActionC, debugger,
                   replayOf, channelVars, quicVars, daemonVars>>

\* Every branch deletes the entry first; only a release goes on.
deletePausedRequest(r) ==
    /\ pc[r] \in Actions \cup {"expire", "cancel"}
    /\ paused' = paused \ {r}
    /\ \/ pc[r] = "release" /\ Goto(r, "send") /\ UNCHANGED answer
       \/ pc[r] = "discard" /\ Goto(r, "discarded") /\ UNCHANGED answer
       \/ pc[r] = "expire" /\ Finish(r, "expired")
       \/ pc[r] = "cancel" /\ Finish(r, None)
    /\ UNCHANGED <<relayVars, requests, requestLog, tunnel, ResponseC, ActionC, debugger,
                   replayOf, channelVars, quicVars, daemonVars>>

enqueueRequestToClient(t, i) ==
    /\ Len(queue[t]) < QueueCap
    /\ queue' = [queue EXCEPT ![t] = Append(queue[t], i)]

\* Mutant: the request goes to the queue after it went to the QUIC session.
sendHTTPToClientTwice(r) ==
    /\ pc[r] = "send"
    /\ LET t == tunnel[r] IN
       \/ /\ up[t] /\ Len(send[t]) < QUICCap
          /\ send' = [send EXCEPT ![t] = Append(send[t], r)]
          /\ enqueueRequestToClient(t, r)
          /\ Goto(r, "wait") /\ UNCHANGED answer
       \/ ~up[t] /\ enqueueRequestToClient(t, r) /\ Goto(r, "wait") /\ UNCHANGED <<send, answer>>
       \/ Len(queue[t]) = QueueCap /\ Finish(r, "full") /\ UNCHANGED <<send, queue>>
    /\ UNCHANGED <<relayVars, requests, requestLog, tunnel, ResponseC, pauseVars, replayOf, up,
                   quicVars, daemonVars>>

\* Mutant: the host is looked up again when the request is sent.
sendHTTPToClientAgain(r) ==
    /\ pc[r] = "send"
    /\ \E h \in HostsOf[tunnel[r]] : enqueueRequestToClient(tunnels[h], r)
    /\ Goto(r, "wait")
    /\ UNCHANGED <<relayVars, requests, requestLog, tunnel, answer, ResponseC, pauseVars,
                   replayOf, send, up, quicVars, daemonVars>>

\* QUICSend while QUICUp is set and it has room, else Queue, else 503.
sendHTTPToClient(r) ==
    /\ pc[r] = "send"
    /\ LET t == tunnel[r]
           quic == up[t] /\ Len(send[t]) < QUICCap
       IN
       \/ /\ quic
          /\ send' = [send EXCEPT ![t] = Append(send[t], r)]
          /\ Goto(r, "wait") /\ UNCHANGED <<queue, answer>>
       \/ /\ ~quic /\ enqueueRequestToClient(t, r)
          /\ Goto(r, "wait") /\ UNCHANGED <<send, answer>>
       \/ /\ ~quic /\ Len(queue[t]) = QueueCap
          /\ Finish(r, "full") /\ UNCHANGED <<send, queue>>
    /\ UNCHANGED <<relayVars, requests, requestLog, tunnel, ResponseC, pauseVars, replayOf, up,
                   quicVars, daemonVars>>

\* Mutant: a wait without the timer.
WaitResponseForever(r) ==
    /\ pc[r] = "wait"
    /\ ResponseC[r] # None
    /\ ResponseC' = [ResponseC EXCEPT ![r] = None]
    /\ answer' = [answer EXCEPT ![r] = "response"]
    /\ Goto(r, "record")
    /\ UNCHANGED <<relayVars, requests, requestLog, tunnel, pauseVars, replayOf, channelVars,
                   quicVars, daemonVars>>

\* The select over the response and the timer of thirty seconds.
WaitResponse(r) ==
    /\ pc[r] = "wait"
    /\ \/ /\ ResponseC[r] # None
          /\ ResponseC' = [ResponseC EXCEPT ![r] = None]
          /\ answer' = [answer EXCEPT ![r] = "response"]
       \/ answer' = [answer EXCEPT ![r] = "timeout"] /\ UNCHANGED ResponseC
    /\ Goto(r, "record")
    /\ UNCHANGED <<relayVars, requests, requestLog, tunnel, pauseVars, replayOf, channelVars,
                   quicVars, daemonVars>>

Discarded(r) ==
    IF pc[r] = "discarded" THEN [answer EXCEPT ![r] = "discarded"] ELSE answer

\* The newest entries; a discarded request is answered after it is logged.
recordRequest(r) ==
    /\ pc[r] \in {"record", "discarded"}
    /\ requestLog' = SubSeq(<<r>> \o requestLog, 1,
                            IF Len(requestLog) < LogCap THEN Len(requestLog) + 1 ELSE LogCap)
    /\ answer' = Discarded(r)
    /\ Goto(r, "done")
    /\ UNCHANGED <<relayVars, requests, tunnel, ResponseC, pauseVars, replayOf, channelVars,
                   quicVars, daemonVars>>

---------------------------------------------------------------------------
(* Debuggers and replays. *)

addBreakpoint(t, f) ==
    /\ f \notin breakpoints[t]
    /\ breakpoints' = [breakpoints EXCEPT ![t] = breakpoints[t] \cup {f}]
    /\ UNCHANGED <<tunnels, clients, handlerVars, ResponseC, pauseVars, replayOf, channelVars,
                   quicVars, daemonVars>>

\* resolvePausedRequest looks the request up under the lock ...
ResolveBegin(d, r, a) ==
    /\ debugger[d] = <<>> /\ r \in paused
    /\ debugger' = [debugger EXCEPT ![d] = <<r, a>>]
    /\ UNCHANGED <<relayVars, handlerVars, ResponseC, paused, ActionC, replayOf,
                   channelVars, quicVars, daemonVars>>

\* ... and sends without it: "applied" if ActionC has room, else refused.
ResolveEnd(d) ==
    /\ debugger[d] # <<>>
    /\ LET r == debugger[d][1] a == debugger[d][2] IN
       ActionC' = IF ActionC[r] = None THEN [ActionC EXCEPT ![r] = a] ELSE ActionC
    /\ debugger' = [debugger EXCEPT ![d] = <<>>]
    /\ UNCHANGED <<relayVars, handlerVars, ResponseC, paused, replayOf, channelVars, quicVars,
                   daemonVars>>

\* replayRequest: the request under a new ID, always through Queue.
replayRequest(i, r) ==
    /\ replayOf[i] = None /\ r \in requests
    /\ enqueueRequestToClient(tunnel[r], i)
    /\ replayOf' = [replayOf EXCEPT ![i] = r]
    /\ UNCHANGED <<relayVars, handlerVars, ResponseC, pauseVars, send, up, quicVars, daemonVars>>

---------------------------------------------------------------------------
(* The QUIC session at the relay: handleQUICConn. *)

QUICAccept(t) ==
    /\ session[t] = "hello"
    /\ session' = [session EXCEPT ![t] = "up"]
    /\ up' = [up EXCEPT ![t] = TRUE]
    /\ UNCHANGED <<relayVars, handlerVars, ResponseC, pauseVars, replayOf, queue, send, wire,
                   daemonVars>>

\* The writer goroutine encodes a message; on a dead stream the message is lost,
\* and the writer ends once it gets an error.
QUICWrite(t) ==
    /\ send[t] # <<>>
    /\ send' = [send EXCEPT ![t] = Tail(send[t])]
    /\ \/ /\ session[t] = "up"
          /\ wire' = [wire EXCEPT ![t] = Append(wire[t], Head(send[t]))]
          /\ UNCHANGED session
       \/ /\ session[t] = "broken"
          /\ \E st \in {"broken", "drained"} : session' = [session EXCEPT ![t] = st]
          /\ UNCHANGED wire
    /\ UNCHANGED <<relayVars, handlerVars, ResponseC, pauseVars, replayOf, queue, up, daemonVars>>

\* The reader, which has waited for the writer, returns.
QUICDown(t) ==
    /\ session[t] = "drained"
    /\ session' = [session EXCEPT ![t] = "down"]
    /\ up' = [up EXCEPT ![t] = FALSE]
    /\ UNCHANGED <<relayVars, handlerVars, ResponseC, pauseVars, replayOf, queue, send, wire,
                   daemonVars>>

Disconnected(t) ==
    CASE session[t] = "hello" -> "down"
      [] session[t] = "up"    -> "broken"
      [] OTHER                -> session[t]

\* The connection breaks; neither side opens another one.
QUICLost(t) ==
    /\ "lose" \in Faults /\ session[t] \in {"hello", "up"}
    /\ session' = [session EXCEPT ![t] = Disconnected(t)]
    /\ wire' = [wire EXCEPT ![t] = <<>>]
    /\ reply' = [reply EXCEPT ![t] = {}]
    /\ UNCHANGED <<relayVars, handlerVars, ResponseC, pauseVars, replayOf, channelVars, daemon,
                   work, forwarded, server>>

---------------------------------------------------------------------------
(* The daemon. *)

\* Mutant: an ID that is not in s.requests is skipped.
PollKnown(t) ==
    /\ daemon[t] = "poll" /\ work[t] = None /\ queue[t] # <<>>
    /\ queue' = [queue EXCEPT ![t] = Tail(queue[t])]
    /\ work' = IF Head(queue[t]) \in requests THEN [work EXCEPT ![t] = Head(queue[t])]
               ELSE work
    /\ UNCHANGED <<relayVars, handlerVars, ResponseC, pauseVars, replayOf, send, up, quicVars,
                   daemon, reply, forwarded, server>>

\* nextRequest and handleNextRequest: the head of Queue, which is lost when the
\* reply does not arrive.
Poll(t) ==
    /\ daemon[t] = "poll" /\ work[t] = None /\ queue[t] # <<>>
    /\ queue' = [queue EXCEPT ![t] = Tail(queue[t])]
    /\ \/ work' = [work EXCEPT ![t] = Head(queue[t])]
       \/ "lose" \in Faults /\ UNCHANGED work
    /\ UNCHANGED <<relayVars, handlerVars, ResponseC, pauseVars, replayOf, send, up, quicVars,
                   daemon, reply, forwarded, server>>

\* handleQUICControl decodes the next request of the stream.
QUICRead(t) ==
    /\ daemon[t] = "quic" /\ work[t] = None /\ wire[t] # <<>>
    /\ work' = [work EXCEPT ![t] = Head(wire[t])]
    /\ wire' = [wire EXCEPT ![t] = Tail(wire[t])]
    /\ UNCHANGED <<relayVars, handlerVars, ResponseC, pauseVars, replayOf, channelVars, session,
                   daemon, reply, forwarded, server>>

\* forwardToLocal, then submitResponse or the sender goroutine of the session:
\* an error of the local service is a response too.
forwardToLocal(t) ==
    /\ work[t] # None
    /\ forwarded' = [forwarded EXCEPT ![work[t]] = forwarded[work[t]] + 1]
    /\ server' = [server EXCEPT ![work[t]] = t]
    /\ reply' = IF daemon[t] = "quic" /\ session[t] \notin {"hello", "up"} THEN reply
                ELSE [reply EXCEPT ![t] = reply[t] \cup {work[t]}]
    /\ work' = [work EXCEPT ![t] = None]
    /\ UNCHANGED <<relayVars, handlerVars, ResponseC, pauseVars, replayOf, channelVars, quicVars,
                   daemon>>

\* Mutant: a response goes to some request of the tunnel.
SubmitResponseAny(t, i) ==
    /\ i \in reply[t]
    /\ reply' = [reply EXCEPT ![t] = reply[t] \ {i}]
    /\ \E r \in requests :
        tunnel[r] = t /\ ResponseC' = [ResponseC EXCEPT ![r] = "response"]
    /\ UNCHANGED <<relayVars, handlerVars, pauseVars, replayOf, channelVars, quicVars, daemon,
                   work, forwarded, server>>

\* handleSubmitResponse and handleQUICMessage: offered to ResponseC of the request
\* with that ID, if there is one and it has room.  Daemons ignore the outcome.
SubmitResponse(t, i) ==
    /\ i \in reply[t]
    /\ reply' = [reply EXCEPT ![t] = reply[t] \ {i}]
    /\ ResponseC' = IF i \in requests THEN [ResponseC EXCEPT ![i] = "response"] ELSE ResponseC
    /\ UNCHANGED <<relayVars, handlerVars, pauseVars, replayOf, channelVars, quicVars, daemon,
                   work, forwarded, server>>

LoseResponse(t, i) ==
    /\ "lose" \in Faults /\ i \in reply[t]
    /\ reply' = [reply EXCEPT ![t] = reply[t] \ {i}]
    /\ UNCHANGED <<relayVars, handlerVars, ResponseC, pauseVars, replayOf, channelVars, quicVars,
                   daemon, work, forwarded, server>>

Crash(t) ==
    /\ "crash" \in Faults /\ daemon[t] \in {"registered", "poll", "quic"}
    /\ daemon' = [daemon EXCEPT ![t] = "dead"]
    /\ work' = [work EXCEPT ![t] = None]
    /\ wire' = [wire EXCEPT ![t] = <<>>]
    /\ session' = [session EXCEPT ![t] = Disconnected(t)]
    /\ UNCHANGED <<relayVars, handlerVars, ResponseC, pauseVars, replayOf, channelVars, reply,
                   forwarded, server>>

---------------------------------------------------------------------------
Handler(r) ==
    \/ FindClient(r) \/ StoreRequest(r) \/ matchBreakpoint(r) \/ storePausedRequest(r)
    \/ PausedSelect(r) \/ deletePausedRequest(r) \/ sendHTTPToClient(r) \/ WaitResponse(r)
    \/ recordRequest(r)

Session(t) == QUICAccept(t) \/ QUICWrite(t) \/ QUICDown(t)

Daemon(t) ==
    \/ OpenQUIC(t) \/ OpenPoll(t) \/ Poll(t) \/ QUICRead(t) \/ forwardToLocal(t)
    \/ \E i \in IDs : SubmitResponse(t, i)

Fault(t) == QUICLost(t) \/ Crash(t) \/ \E i \in IDs : LoseResponse(t, i)

Debug ==
    \/ \E t \in Tunnels, f \in Filters : addBreakpoint(t, f)
    \/ \E d \in Debuggers : ResolveEnd(d) \/ \E r \in Reqs, a \in Actions : ResolveBegin(d, r, a)
    \/ \E i \in Replays, r \in Reqs : replayRequest(i, r)

Next ==
    \/ \E r \in Reqs : Handler(r) \/ \E h \in Hosts : Ingress(r, h)
    \/ \E t \in Tunnels : Register(t) \/ Session(t) \/ Daemon(t) \/ Fault(t)
    \/ Debug

Spec == Init /\ [][Next]_vars

\* Goroutines of the relay and of a running daemon go on, timers go off and
\* the messages that are not lost arrive.
FairSpec ==
    /\ Spec
    /\ \A r \in Reqs : WF_vars(Handler(r))
    /\ \A t \in Tunnels : WF_vars(Session(t)) /\ WF_vars(Daemon(t))

---------------------------------------------------------------------------
\* Where a request is on its way to the local service.
At(s, i) == {k \in DOMAIN s : s[k] = i}
Places(i) == UNION {
    ({"queue"} \X {t} \X At(queue[t], i)) \cup ({"send"} \X {t} \X At(send[t], i))
    \cup ({"wire"} \X {t} \X At(wire[t], i)) \cup ({"work"} \X {t} \X At(<<work[t]>>, i))
    : t \in Tunnels}

\* The local service is asked at most once for a request, although the relay
\* falls back from QUICSend to Queue and sessions break (sendHTTPToClient,
\* handleNextRequest, handleQUICConn): no copy is left behind in a channel.
ForwardedOnce ==
    \A i \in IDs :
        /\ \A p, q \in Places(i) : p = q
        /\ Places(i) # {} => forwarded[i] = 0
        /\ forwarded[i] <= 1

TunnelOf(i) == IF i \in Reqs THEN tunnel[i] ELSE tunnel[replayOf[i]]

\* A request is sent to, and served by, the tunnel it was admitted to, whose
\* breakpoints were asked, although another registration may take the host in
\* the meantime; a replay goes to the tunnel of the request it repeats
\* (handleTunnelRequest, replayRequest).
OwnTunnel ==
    \A i \in IDs :
        /\ \A p \in Places(i) : p[2] = TunnelOf(i)
        /\ server[i] # None => server[i] = TunnelOf(i)

Sent(r) == (pc[r] = "wait" /\ answer[r] = None) \/ answer[r] \in {"response", "timeout"}

\* Until the handler sends it, and for ever when it refuses, discards or expires
\* it, a request is in no channel and the local service does not see it
\* (handleTunnelRequest): a debugger's discard is never overtaken.
HeldBack == \A r \in Reqs : ~Sent(r) => Places(r) = {} /\ forwarded[r] = 0

\* What the public gets as the local service's response is one: a response is
\* handed to a request only after the service was asked for this very request.
AnsweredByLocal ==
    \A r \in Reqs : answer[r] = "response" \/ ResponseC[r] # None => forwarded[r] = 1

\* "tunnel client is offline" is never answered: a host in s.tunnels has a
\* client, because both are written under one lock and neither is ever deleted.
TunnelHasClient ==
    /\ \A h \in Hosts : tunnels[h] # None => tunnels[h] \in clients
    /\ \A r \in Reqs : pc[r] \notin {"idle", "done"} => tunnel[r] \in clients

\* Every request that enters is answered, whatever the daemon does: each wait of
\* the handler has a timer.
Answered == \A r \in Reqs : pc[r] # "idle" ~> pc[r] = "done"

ReplayedTo(i, t) == \E r \in Reqs : replayOf[i] = r /\ tunnel[r] = t

\* A replay queued for a daemon that polls reaches the local service, unless the
\* daemon dies (replayRequest, enqueueRequest, pollLoop).
ReplayPolled ==
    \A i \in Replays, t \in Tunnels :
        ReplayedTo(i, t) /\ daemon[t] = "poll" ~>
            forwarded[i] = 1 \/ daemon[t] = "dead"

\* "allow replay to the current local service target" (PRD.md): a queued replay
\* reaches the local service while the daemon runs.
ReplayForwarded ==
    \A i \in Replays, t \in Tunnels :
        ReplayedTo(i, t) ~> forwarded[i] = 1 \/ daemon[t] = "dead"
==========================================================================
