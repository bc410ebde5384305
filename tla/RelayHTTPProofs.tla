--------------------------- MODULE RelayHTTPProofs ---------------------------
(***************************************************************************)
(* Proofs about the requests of a relay: RelayHTTP carries each to its own *)
(* tunnel and back, and the limiters of Gate, which share no state with    *)
(* it, admit neither more nor less than the rate.                          *)
(***************************************************************************)
EXTENDS RelayHTTP, Gate, SequenceTheorems, FiniteSetTheorems, TLAPS

(***************************************************************************)
(* Requests.                                                               *)
(***************************************************************************)
USE DEF None

\* TypeOK, in the groups of variables that actions leave alone together.
RelayTypes == tunnels \in [Hosts -> Tunnels \cup {None}] /\ clients \subseteq Tunnels
              /\ breakpoints \in [Tunnels -> SUBSET Filters]
HandlerTypes ==
    /\ requests \subseteq Reqs /\ requestLog \in Seq(Reqs) /\ Len(requestLog) <= LogCap
    /\ pc \in [Reqs -> Steps] /\ tunnel \in [Reqs -> Tunnels \cup {None}]
    /\ answer \in [Reqs -> Answers \cup {None}]
PauseTypes == 
    /\ paused \subseteq Reqs /\ ActionC \in [Reqs -> Actions \cup {None}]
    /\ debugger \in [Debuggers -> (Reqs \X Actions) \cup {<<>>}]
ChannelTypes ==
    /\ queue \in [Tunnels -> Seq(IDs)] /\ send \in [Tunnels -> Seq(Reqs)]
    /\ \A t \in Tunnels : Len(queue[t]) <= QueueCap /\ Len(send[t]) <= QUICCap
    /\ up \in [Tunnels -> BOOLEAN]
QUICTypes == session \in [Tunnels -> Sessions] /\ wire \in [Tunnels -> Seq(Reqs)]
DaemonTypes ==
    /\ daemon \in [Tunnels -> {"off", "registered", "poll", "quic", "dead"}]
    /\ work \in [Tunnels -> IDs \cup {None}] /\ reply \in [Tunnels -> SUBSET IDs]
    /\ forwarded \in [IDs -> Nat] /\ server \in [IDs -> Tunnels \cup {None}]
OtherTypes == ResponseC \in [Reqs -> {None, "response"}] /\ replayOf \in [Replays -> Reqs \cup {None}]

Types == RelayTypes /\ HandlerTypes /\ PauseTypes /\ ChannelTypes /\ QUICTypes /\ DaemonTypes
         /\ OtherTypes

LEMMA TypesOK == TypeOK <=> Types
  BY Zenon DEF TypeOK, Types, RelayTypes, HandlerTypes, PauseTypes, ChannelTypes, QUICTypes, DaemonTypes,
         OtherTypes

---------------------------------------------------------------------------
\* A queue that has room takes one more element; one that is not empty loses its head.
LEMMA AppendType ==
    ASSUME NEW S, NEW s \in Seq(S), NEW x \in S
    PROVE  Append(s, x) \in Seq(S) /\ Len(Append(s, x)) = Len(s) + 1 /\ Len(s) \in Nat
  BY AppendProperties, LenProperties, Zenon

LEMMA TailType ==
    ASSUME NEW S, NEW s \in Seq(S), s # <<>>
    PROVE  Head(s) \in S /\ Tail(s) \in Seq(S) /\ Len(Tail(s)) = Len(s) - 1 /\ Len(s) \in Nat
  BY HeadTailProperties, LenProperties, Zenon

\* A new entry of requestLog at the front of its newest LogCap - 1 entries.
LEMMA LogType ==
    ASSUME NEW s \in Seq(Reqs), Len(s) <= LogCap, NEW r \in Reqs
    PROVE  LET n == IF Len(s) < LogCap THEN Len(s) + 1 ELSE LogCap
               l == SubSeq(<<r>> \o s, 1, n)
           IN  l \in Seq(Reqs) /\ Len(l) <= LogCap
  <1> DEFINE n == IF Len(s) < LogCap THEN Len(s) + 1 ELSE LogCap
             b == <<r>> \o s
  <1>1. LogCap \in Nat \ {0} /\ Len(s) \in Nat
    BY RelayHTTPAssumption, LenProperties, Zenon
  <1>2. n \in Nat \ {0} /\ n <= LogCap /\ n <= Len(s) + 1
    BY <1>1
  <1>3. <<r>> \in Seq(Reqs) /\ Len(<<r>>) = 1
    OBVIOUS
  <1>4. b \in Seq(Reqs) /\ Len(b) = 1 + Len(s)
    BY <1>3, ConcatProperties, Zenon
  <1> HIDE DEF n, b
  <1>5. \A k \in 1 .. n : b[k] \in Reqs
    BY <1>1, <1>2, <1>4, ElementOfSeq
  <1>6. SubSeq(b, 1, n) \in Seq(Reqs) /\ Len(SubSeq(b, 1, n)) = n
    BY <1>2, <1>5, SubSeqProperties
  <1> QED
    BY <1>2, <1>6, Zenon DEF n, b

LEMMA InitTypes == Init => Types
  <1> SUFFICES ASSUME Init PROVE Types
    BY Zenon
  <1>1. <<>> \in Seq(Reqs) /\ <<>> \in Seq(IDs) /\ Len(<<>>) = 0
    OBVIOUS
  <1>2. RelayTypes /\ PauseTypes /\ OtherTypes
    BY Zenon DEF Init, RelayTypes, PauseTypes, OtherTypes
  <1>3. HandlerTypes
    BY <1>1, RelayHTTPAssumption DEF Init, HandlerTypes, Steps
  <1>4. ChannelTypes /\ QUICTypes
    BY <1>1, RelayHTTPAssumption DEF Init, ChannelTypes, QUICTypes, Sessions
  <1>5. DaemonTypes
    BY Zenon DEF Init, DaemonTypes
  <1> QED
    BY <1>2, <1>3, <1>4, <1>5, Zenon DEF Types

---------------------------------------------------------------------------
(* The types under each action. *)

\* Groups of variables that an action leaves alone.
LEMMA Frame ==
    ASSUME Types
    PROVE  /\ UNCHANGED relayVars => RelayTypes'
           /\ UNCHANGED handlerVars => HandlerTypes'
           /\ UNCHANGED pauseVars => PauseTypes'
           /\ UNCHANGED channelVars => ChannelTypes'
           /\ UNCHANGED quicVars => QUICTypes'
           /\ UNCHANGED daemonVars => DaemonTypes'
           /\ UNCHANGED <<ResponseC, replayOf>> => OtherTypes'
  BY DEF Types, RelayTypes, HandlerTypes, PauseTypes, ChannelTypes, QUICTypes, DaemonTypes,
         OtherTypes, relayVars, handlerVars, pauseVars, channelVars, quicVars, daemonVars

\* enqueueRequestToClient keeps the types of Queue.
LEMMA QueuePut ==
    ASSUME ChannelTypes, NEW t, NEW i \in IDs, enqueueRequestToClient(t, i)
    PROVE  queue' \in [Tunnels -> Seq(IDs)] /\ \A u \in Tunnels : Len(queue'[u]) <= QueueCap
  <1>1. QueueCap \in Nat /\ queue \in [Tunnels -> Seq(IDs)]
        /\ \A u \in Tunnels : Len(queue[u]) <= QueueCap
    BY RelayHTTPAssumption, Zenon DEF ChannelTypes
  <1>2. queue' = [queue EXCEPT ![t] = Append(queue[t], i)]
    BY Zenon DEF enqueueRequestToClient
  <1>3. t \in Tunnels => Append(queue[t], i) \in Seq(IDs) /\ Len(Append(queue[t], i)) <= QueueCap
    BY <1>1, AppendType DEF enqueueRequestToClient
  <1> QED
    BY <1>1, <1>2, <1>3, Zenon

\* A message put into QUICSend.
LEMMA SendPut ==
    ASSUME ChannelTypes, NEW t, NEW r \in Reqs, Len(send[t]) < QUICCap,
           send' = [send EXCEPT ![t] = Append(send[t], r)]
    PROVE  send' \in [Tunnels -> Seq(Reqs)] /\ \A u \in Tunnels : Len(send'[u]) <= QUICCap
  <1>1. QUICCap \in Nat /\ send \in [Tunnels -> Seq(Reqs)]
        /\ \A u \in Tunnels : Len(send[u]) <= QUICCap
    BY RelayHTTPAssumption, Zenon DEF ChannelTypes
  <1>2. send' = [send EXCEPT ![t] = Append(send[t], r)]
    BY Zenon
  <1>3. t \in Tunnels => Append(send[t], r) \in Seq(Reqs) /\ Len(Append(send[t], r)) <= QUICCap
    BY <1>1, AppendType
  <1> QED
    BY <1>1, <1>2, <1>3, Zenon

\* handleNextRequest takes the head of Queue.
LEMMA QueueTake ==
    ASSUME ChannelTypes, NEW t, queue[t] # <<>>, queue' = [queue EXCEPT ![t] = Tail(queue[t])]
    PROVE  queue' \in [Tunnels -> Seq(IDs)] /\ \A u \in Tunnels : Len(queue'[u]) <= QueueCap
  <1>1. QueueCap \in Nat /\ queue \in [Tunnels -> Seq(IDs)]
        /\ \A u \in Tunnels : Len(queue[u]) <= QueueCap
    BY RelayHTTPAssumption, Zenon DEF ChannelTypes
  <1>2. queue' = [queue EXCEPT ![t] = Tail(queue[t])]
    BY Zenon
  <1>3. t \in Tunnels => Tail(queue[t]) \in Seq(IDs) /\ Len(Tail(queue[t])) <= QueueCap
    BY <1>1, TailType
  <1> QED
    BY <1>1, <1>2, <1>3, Zenon

\* The writer of handleQUICConn takes the head of QUICSend.
LEMMA SendTake ==
    ASSUME ChannelTypes, NEW t, send[t] # <<>>, send' = [send EXCEPT ![t] = Tail(send[t])]
    PROVE  send' \in [Tunnels -> Seq(Reqs)] /\ \A u \in Tunnels : Len(send'[u]) <= QUICCap
  <1>1. QUICCap \in Nat /\ send \in [Tunnels -> Seq(Reqs)]
        /\ \A u \in Tunnels : Len(send[u]) <= QUICCap
    BY RelayHTTPAssumption, Zenon DEF ChannelTypes
  <1>2. send' = [send EXCEPT ![t] = Tail(send[t])]
    BY Zenon
  <1>3. t \in Tunnels => Tail(send[t]) \in Seq(Reqs) /\ Len(Tail(send[t])) <= QUICCap
    BY <1>1, TailType
  <1> QED
    BY <1>1, <1>2, <1>3, Zenon

\* Steps of handleTunnelRequest change handlerVars, and some of them one more variable.
LEMMA HandlerStepTypes ==
    ASSUME Types, NEW r \in Reqs, Handler(r) \/ \E h \in Hosts : Ingress(r, h)
    PROVE  Types'
  <1> USE DEF Types
  <1>1. ASSUME NEW h \in Hosts, Ingress(r, h) PROVE Types'
    <2>1. HandlerTypes'
      BY <1>1 DEF Ingress, HandlerTypes, RelayTypes, Goto, Finish, Steps, Answers
    <2> QED
      BY <1>1, <2>1, Frame, Zenon DEF Ingress
  <1>2. CASE FindClient(r)
    <2>1. HandlerTypes'
      BY <1>2, Zenon DEF FindClient, HandlerTypes, Goto, Finish, Steps, Answers
    <2> QED
      BY <1>2, <2>1, Frame, Zenon DEF FindClient
  <1>3. CASE StoreRequest(r)
    <2>1. HandlerTypes'
      BY <1>3, Zenon DEF StoreRequest, HandlerTypes, Goto, Steps
    <2> QED
      BY <1>3, <2>1, Frame, Zenon DEF StoreRequest
  <1>4. CASE matchBreakpoint(r)
    <2>1. HandlerTypes'
      BY <1>4, Zenon DEF matchBreakpoint, HandlerTypes, Goto, Steps
    <2> QED
      BY <1>4, <2>1, Frame, Zenon DEF matchBreakpoint
  <1>5. CASE storePausedRequest(r)
    <2>1. HandlerTypes' /\ PauseTypes'
      BY <1>5, Zenon DEF storePausedRequest, HandlerTypes, PauseTypes, Goto, Steps
    <2> QED
      BY <1>5, <2>1, Frame, Zenon DEF storePausedRequest
  <1>6. CASE PausedSelect(r)
    <2>1. HandlerTypes' /\ PauseTypes'
      BY <1>6 DEF PausedSelect, HandlerTypes, PauseTypes, Goto, Steps, Actions
    <2> QED
      BY <1>6, <2>1, Frame, Zenon DEF PausedSelect
  <1>7. CASE deletePausedRequest(r)
    <2>1. HandlerTypes' /\ PauseTypes'
      BY <1>7, Zenon DEF deletePausedRequest, HandlerTypes, PauseTypes, Goto, Finish, Steps, Answers
    <2> QED
      BY <1>7, <2>1, Frame, Zenon DEF deletePausedRequest
  <1>8. CASE sendHTTPToClient(r)
    <2>1. HandlerTypes'
      BY <1>8, Zenon DEF sendHTTPToClient, HandlerTypes, Goto, Finish, Steps, Answers
    <2>2. ChannelTypes'
      <3> DEFINE t == tunnel[r]
      <3>1. CASE /\ send' = [send EXCEPT ![t] = Append(send[t], r)]
                 /\ Len(send[t]) < QUICCap /\ UNCHANGED <<queue, up>>
        <4>1. /\ send' \in [Tunnels -> Seq(Reqs)]
              /\ \A u \in Tunnels : Len(send'[u]) <= QUICCap
          BY <3>1, SendPut, Zenon
        <4> QED
          BY <3>1, <4>1, Zenon DEF ChannelTypes
      <3>2. CASE enqueueRequestToClient(t, r) /\ UNCHANGED <<send, up>>
        <4>1. r \in IDs
          BY Zenon DEF IDs
        <4>2. /\ queue' \in [Tunnels -> Seq(IDs)]
              /\ \A u \in Tunnels : Len(queue'[u]) <= QueueCap
          BY <3>2, <4>1, QueuePut, Zenon
        <4> QED
          BY <3>2, <4>2, Zenon DEF ChannelTypes
      <3>3. CASE UNCHANGED <<queue, send, up>>
        BY <3>3, Zenon DEF ChannelTypes
      <3> QED
        BY <1>8, <3>1, <3>2, <3>3, Zenon DEF sendHTTPToClient
    <2> QED
      BY <1>8, <2>1, <2>2, Frame, Zenon DEF sendHTTPToClient
  <1>9. CASE WaitResponse(r)
    <2>1. HandlerTypes' /\ OtherTypes'
      BY <1>9, Zenon DEF WaitResponse, HandlerTypes, OtherTypes, Goto, Steps, Answers
    <2> QED
      BY <1>9, <2>1, Frame, Zenon DEF WaitResponse
  <1>10. CASE recordRequest(r)
    <2>1. requestLog' \in Seq(Reqs) /\ Len(requestLog') <= LogCap
      BY <1>10, LogType, Zenon DEF recordRequest, HandlerTypes
    <2>2. HandlerTypes'
      BY <1>10, <2>1, Zenon DEF recordRequest, HandlerTypes, Discarded, Goto, Steps, Answers
    <2> QED
      BY <1>10, <2>2, Frame, Zenon DEF recordRequest
  <1> QED
    BY <1>1, <1>2, <1>3, <1>4, <1>5, <1>6, <1>7, <1>8, <1>9, <1>10, Zenon DEF Handler

\* Debuggers change pauseVars and breakpoints, replays the queue.
LEMMA DebugTypes == ASSUME Types, Debug PROVE Types'
  <1> USE DEF Types
  <1>1. ASSUME NEW t \in Tunnels, NEW f \in Filters, addBreakpoint(t, f) PROVE Types'
    <2>1. RelayTypes'
      BY <1>1, Zenon DEF addBreakpoint, RelayTypes
    <2> QED
      BY <1>1, <2>1, Frame, Zenon DEF addBreakpoint
  <1>2. ASSUME NEW d \in Debuggers, NEW r \in Reqs, NEW a \in Actions, ResolveBegin(d, r, a)
        PROVE Types'
    <2>1. PauseTypes'
      BY <1>2, Zenon DEF ResolveBegin, PauseTypes
    <2> QED
      BY <1>2, <2>1, Frame, Zenon DEF ResolveBegin
  <1>3. ASSUME NEW d \in Debuggers, ResolveEnd(d) PROVE Types'
    <2>1. PauseTypes'
      BY <1>3, Zenon DEF ResolveEnd, PauseTypes
    <2> QED
      BY <1>3, <2>1, Frame, Zenon DEF ResolveEnd
  <1>4. ASSUME NEW i \in Replays, NEW r \in Reqs, replayRequest(i, r) PROVE Types'
    <2>1. ChannelTypes'
      <3>1. i \in IDs
        BY Zenon DEF IDs
      <3>2. /\ queue' \in [Tunnels -> Seq(IDs)]
            /\ \A u \in Tunnels : Len(queue'[u]) <= QueueCap
        BY <1>4, <3>1, QueuePut, Zenon DEF replayRequest
      <3> QED
        BY <1>4, <3>2, Zenon DEF ChannelTypes, replayRequest
    <2>2. OtherTypes'
      BY <1>4, Zenon DEF replayRequest, OtherTypes
    <2> QED
      BY <1>4, <2>1, <2>2, Frame, Zenon DEF replayRequest
  <1> QED
    BY <1>1, <1>2, <1>3, <1>4, Zenon DEF Debug
\* Registration, the QUIC session, the daemon and the faults.
LEMMA TunnelTypes ==
    ASSUME Types, NEW t \in Tunnels, Register(t) \/ Session(t) \/ Daemon(t) \/ Fault(t)
    PROVE  Types'
  <1> USE DEF Types
  <1>1. CASE Register(t)
    <2>1. RelayTypes'
      BY <1>1, Zenon DEF Register, RelayTypes
    <2>2. DaemonTypes'
      BY <1>1, Zenon DEF Register, DaemonTypes
    <2> QED
      BY <1>1, <2>1, <2>2, Frame, Zenon DEF Register
  <1>2. CASE OpenQUIC(t)
    <2>1. QUICTypes'
      BY <1>2, Zenon DEF OpenQUIC, QUICTypes, Sessions
    <2>2. DaemonTypes'
      BY <1>2, Zenon DEF OpenQUIC, DaemonTypes, Sessions
    <2> QED
      BY <1>2, <2>1, <2>2, Frame, Zenon DEF OpenQUIC
  <1>3. CASE OpenPoll(t)
    <2>1. DaemonTypes'
      BY <1>3, Zenon DEF OpenPoll, DaemonTypes
    <2> QED
      BY <1>3, <2>1, Frame, Zenon DEF OpenPoll
  <1>4. CASE QUICAccept(t)
    <2>1. ChannelTypes'
      BY <1>4, Zenon DEF QUICAccept, ChannelTypes, Sessions
    <2>2. QUICTypes'
      BY <1>4, Zenon DEF QUICAccept, QUICTypes, Sessions
    <2> QED
      BY <1>4, <2>1, <2>2, Frame, Zenon DEF QUICAccept
  <1>5. CASE QUICWrite(t)
    <2>1. ChannelTypes'
      BY <1>5, SendTake, Zenon DEF QUICWrite, ChannelTypes
    <2>2. Head(send[t]) \in Reqs
      BY <1>5, TailType, Zenon DEF QUICWrite, ChannelTypes
    <2>3. Append(wire[t], Head(send[t])) \in Seq(Reqs)
      BY <2>2, AppendType, Zenon DEF QUICTypes
    <2>4. QUICTypes'
      BY <1>5, <2>3, Zenon DEF QUICWrite, QUICTypes, Sessions
    <2> QED
      BY <1>5, <2>1, <2>4, Frame, Zenon DEF QUICWrite
  <1>6. CASE QUICDown(t)
    <2>1. ChannelTypes'
      BY <1>6, Zenon DEF QUICDown, ChannelTypes, Sessions
    <2>2. QUICTypes'
      BY <1>6, Zenon DEF QUICDown, QUICTypes, Sessions
    <2> QED
      BY <1>6, <2>1, <2>2, Frame, Zenon DEF QUICDown
  <1>7. CASE Poll(t)
    <2>1. ChannelTypes'
      BY <1>7, QueueTake, Zenon DEF Poll, ChannelTypes
    <2>2. Head(queue[t]) \in IDs
      BY <1>7, TailType, Zenon DEF Poll, ChannelTypes
    <2>3. DaemonTypes'
      BY <1>7, <2>2, Zenon DEF Poll, DaemonTypes
    <2> QED
      BY <1>7, <2>1, <2>3, Frame, Zenon DEF Poll
  <1>8. CASE QUICRead(t)
    <2>1. Head(wire[t]) \in Reqs /\ Tail(wire[t]) \in Seq(Reqs)
      BY <1>8, TailType, Zenon DEF QUICRead, QUICTypes
    <2>2. QUICTypes'
      BY <1>8, <2>1, Zenon DEF QUICRead, QUICTypes
    <2>3. DaemonTypes'
      BY <1>8, <2>1, Zenon DEF QUICRead, DaemonTypes, IDs
    <2> QED
      BY <1>8, <2>2, <2>3, Frame, Zenon DEF QUICRead
  <1>9. CASE forwardToLocal(t)
    <2>1. DaemonTypes'
      BY <1>9 DEF forwardToLocal, DaemonTypes, IDs
    <2> QED
      BY <1>9, <2>1, Frame, Zenon DEF forwardToLocal
  <1>10. CASE QUICLost(t)
    <2>1. QUICTypes'
      BY <1>10 DEF QUICLost, QUICTypes, Disconnected, Sessions
    <2>2. DaemonTypes'
      BY <1>10, Zenon DEF QUICLost, DaemonTypes, Disconnected, Sessions
    <2> QED
      BY <1>10, <2>1, <2>2, Frame, Zenon DEF QUICLost
  <1>11. CASE Crash(t)
    <2>1. QUICTypes'
      BY <1>11 DEF Crash, QUICTypes, Disconnected, Sessions
    <2>2. DaemonTypes'
      BY <1>11, Zenon DEF Crash, DaemonTypes, Disconnected, Sessions
    <2> QED
      BY <1>11, <2>1, <2>2, Frame, Zenon DEF Crash
  <1>12. ASSUME NEW i \in IDs, SubmitResponse(t, i) PROVE Types'
    <2>1. DaemonTypes'
      BY <1>12, Zenon DEF SubmitResponse, DaemonTypes
    <2>2. OtherTypes'
      BY <1>12, Zenon DEF SubmitResponse, OtherTypes
    <2> QED
      BY <1>12, <2>1, <2>2, Frame, Zenon DEF SubmitResponse
  <1>13. ASSUME NEW i \in IDs, LoseResponse(t, i) PROVE Types'
    <2>1. DaemonTypes'
      BY <1>13, Zenon DEF LoseResponse, DaemonTypes
    <2> QED
      BY <1>13, <2>1, Frame, Zenon DEF LoseResponse
  <1> QED
    BY <1>1, <1>2, <1>3, <1>4, <1>5, <1>6, <1>7, <1>8, <1>9, <1>10, <1>11, <1>12, <1>13, Zenon
    DEF Session, Daemon, Fault

LEMMA NextTypes == Types /\ [Next]_vars => Types'
  <1> SUFFICES ASSUME Types, [Next]_vars PROVE Types'
    BY Zenon
  <1>1. CASE Next
    BY <1>1, HandlerStepTypes, DebugTypes, TunnelTypes, Zenon DEF Next
  <1>2. CASE UNCHANGED vars
    BY <1>2, Frame, Zenon DEF vars, Types
  <1> QED
    BY <1>1, <1>2, Zenon

\* Every variable keeps its type, Queue and QUICSend their capacity and the
\* request log its length, for any number of tunnels, requests and debuggers.
THEOREM TypeCorrect == Spec => []TypeOK
  <1>1. Init => Types
    BY InitTypes, Zenon
  <1>2. Types /\ [Next]_vars => Types'
    BY NextTypes, Zenon
  <1> QED
    BY <1>1, <1>2, TypesOK, PTL DEF Spec

---------------------------------------------------------------------------
(* What a tunnel's channels hold: no ID is twice in them. *)

Elems(s) == {s[k] : k \in DOMAIN s}
Distinct(s) == \A k, l \in DOMAIN s : s[k] = s[l] => k = l

\* Queue, QUICSend, the stream and the request that is being forwarded.
Line(q, s, w, x) ==
    /\ Distinct(q) /\ Distinct(s) /\ Distinct(w)
    /\ Elems(q) \cap Elems(s) = {} /\ Elems(q) \cap Elems(w) = {} /\ Elems(s) \cap Elems(w) = {}
    /\ x \notin Elems(q) /\ x \notin Elems(s) /\ x \notin Elems(w)

HeldIn(q, s, w, x) == Elems(q) \cup Elems(s) \cup Elems(w) \cup ({x} \ {None})

LEMMA EmptyElems == Elems(<<>>) = {} /\ Distinct(<<>>)
  BY DEF Elems, Distinct

LEMMA AppendElems ==
    ASSUME NEW S, NEW s \in Seq(S), NEW x \in S
    PROVE  /\ Elems(Append(s, x)) = Elems(s) \cup {x}
           /\ Distinct(s) /\ x \notin Elems(s) => Distinct(Append(s, x))
  <1> DEFINE a == Append(s, x)
  <1>1. /\ a \in Seq(S) /\ Len(a) = Len(s) + 1 /\ Len(s) \in Nat
        /\ DOMAIN a = 1 .. Len(s) + 1 /\ DOMAIN s = 1 .. Len(s)
        /\ \A k \in 1 .. Len(s) : a[k] = s[k]
        /\ a[Len(s) + 1] = x
    BY AppendProperties, LenProperties
  <1> HIDE DEF a
  <1>2. Elems(a) = Elems(s) \cup {x}
    BY <1>1 DEF Elems
  <1>3. ASSUME Distinct(s), x \notin Elems(s) PROVE Distinct(a)
    BY <1>1, <1>3 DEF Elems, Distinct
  <1> QED
    BY <1>2, <1>3, Zenon DEF a

LEMMA TailElems ==
    ASSUME NEW S, NEW s \in Seq(S), s # <<>>
    PROVE  /\ Head(s) \in Elems(s) /\ Elems(Tail(s)) \subseteq Elems(s)
           /\ Distinct(s) => Distinct(Tail(s)) /\ Head(s) \notin Elems(Tail(s))
  <1> DEFINE a == Tail(s)
  <1>1. /\ a \in Seq(S) /\ Len(s) \in Nat \ {0}
        /\ DOMAIN a = 1 .. Len(s) - 1 /\ DOMAIN s = 1 .. Len(s)
        /\ \A k \in 1 .. Len(s) - 1 : a[k] = s[k + 1]
        /\ Head(s) = s[1]
    BY HeadTailProperties, LenProperties, EmptySeq
  <1> HIDE DEF a
  <1>2. Head(s) \in Elems(s)
    BY <1>1 DEF Elems
  <1>3. Elems(a) \subseteq Elems(s)
    BY <1>1 DEF Elems
  <1>4. ASSUME Distinct(s) PROVE Distinct(a) /\ Head(s) \notin Elems(a)
    <2>1. Distinct(a)
      <3> SUFFICES ASSUME NEW k \in DOMAIN a, NEW l \in DOMAIN a, a[k] = a[l] PROVE k = l
        BY Zenon DEF Distinct
      <3>1. k + 1 \in DOMAIN s /\ l + 1 \in DOMAIN s /\ s[k + 1] = s[l + 1]
        BY <1>1
      <3> QED
        BY <1>1, <1>4, <3>1 DEF Distinct
    <2>2. ASSUME NEW k \in DOMAIN a, a[k] = Head(s) PROVE FALSE
      <3>1. k + 1 \in DOMAIN s /\ 1 \in DOMAIN s /\ s[k + 1] = s[1] /\ k \in Nat \ {0}
        BY <1>1, <2>2
      <3> QED
        BY <1>4, <3>1 DEF Distinct
    <2> QED
      BY <2>1, <2>2, Zenon DEF Elems
  <1> QED
    BY <1>2, <1>3, <1>4, Zenon DEF a

\* A new ID enters Queue or QUICSend.
LEMMA LinePut ==
    ASSUME NEW q \in Seq(IDs), NEW s \in Seq(IDs), NEW w, NEW x, NEW i \in IDs,
           Line(q, s, w, x), i \notin HeldIn(q, s, w, x)
    PROVE  /\ Line(Append(q, i), s, w, x)
           /\ HeldIn(Append(q, i), s, w, x) \subseteq HeldIn(q, s, w, x) \cup {i}
           /\ Line(q, Append(s, i), w, x)
           /\ HeldIn(q, Append(s, i), w, x) \subseteq HeldIn(q, s, w, x) \cup {i}
  <1>1. i # None
    BY RelayHTTPAssumption, Zenon
  <1>2. i \notin Elems(q) /\ i \notin Elems(s) /\ i \notin Elems(w) /\ i # x
    BY <1>1, Zenon DEF HeldIn
  <1>3. /\ Elems(Append(q, i)) = Elems(q) \cup {i} /\ Elems(Append(s, i)) = Elems(s) \cup {i}
        /\ Distinct(q) => Distinct(Append(q, i))
        /\ Distinct(s) => Distinct(Append(s, i))
    BY <1>2, AppendElems
  <1> QED
    BY <1>2, <1>3, Zenon DEF Line, HeldIn

\* The head of Queue leaves it, for the daemon or for nowhere.
LEMMA LinePoll ==
    ASSUME NEW q \in Seq(IDs), NEW s, NEW w, q # <<>>, Line(q, s, w, None)
    PROVE  /\ Line(Tail(q), s, w, Head(q)) /\ Line(Tail(q), s, w, None)
           /\ HeldIn(Tail(q), s, w, Head(q)) \subseteq HeldIn(q, s, w, None)
           /\ HeldIn(Tail(q), s, w, None) \subseteq HeldIn(q, s, w, None)
  <1>1. /\ Head(q) \in Elems(q) /\ Elems(Tail(q)) \subseteq Elems(q)
        /\ Distinct(Tail(q)) /\ Head(q) \notin Elems(Tail(q))
    BY TailElems, Zenon DEF Line
  <1> QED
    BY <1>1, Zenon DEF Line, HeldIn

\* The head of QUICSend leaves it, for the stream or for nowhere.
LEMMA LineWrite ==
    ASSUME NEW q, NEW s \in Seq(IDs), NEW w \in Seq(IDs), NEW x, s # <<>>, Line(q, s, w, x)
    PROVE  /\ Line(q, Tail(s), Append(w, Head(s)), x) /\ Line(q, Tail(s), w, x)
           /\ HeldIn(q, Tail(s), Append(w, Head(s)), x) \subseteq HeldIn(q, s, w, x)
           /\ HeldIn(q, Tail(s), w, x) \subseteq HeldIn(q, s, w, x)
  <1>1. /\ Head(s) \in Elems(s) /\ Elems(Tail(s)) \subseteq Elems(s)
        /\ Distinct(Tail(s)) /\ Head(s) \notin Elems(Tail(s)) /\ Head(s) \in IDs
    BY TailElems, TailType, Zenon DEF Line
  <1>2. Head(s) \notin Elems(w)
    BY <1>1, Zenon DEF Line
  <1>3. Elems(Append(w, Head(s))) = Elems(w) \cup {Head(s)} /\ Distinct(Append(w, Head(s)))
    BY <1>1, <1>2, AppendElems DEF Line
  <1> QED
    BY <1>1, <1>2, <1>3, Zenon DEF Line, HeldIn

\* The daemon reads the stream.
LEMMA LineRead ==
    ASSUME NEW q, NEW s, NEW w \in Seq(IDs), w # <<>>, Line(q, s, w, None)
    PROVE  /\ Line(q, s, Tail(w), Head(w))
           /\ HeldIn(q, s, Tail(w), Head(w)) \subseteq HeldIn(q, s, w, None)
  <1>1. /\ Head(w) \in Elems(w) /\ Elems(Tail(w)) \subseteq Elems(w)
        /\ Distinct(Tail(w)) /\ Head(w) \notin Elems(Tail(w))
    BY TailElems, Zenon DEF Line
  <1> QED
    BY <1>1, Zenon DEF Line, HeldIn

\* What the stream holds, or the daemon works on, is lost or done.
LEMMA LineDrop ==
    ASSUME NEW q \in Seq(IDs), NEW s \in Seq(IDs), NEW w \in Seq(IDs), NEW x, Line(q, s, w, x)
    PROVE  /\ Line(q, s, <<>>, x) /\ Line(q, s, <<>>, None) /\ Line(q, s, w, None)
           /\ HeldIn(q, s, <<>>, x) \subseteq HeldIn(q, s, w, x)
           /\ HeldIn(q, s, <<>>, None) \subseteq HeldIn(q, s, w, x)
           /\ HeldIn(q, s, w, None) \subseteq HeldIn(q, s, w, x) \ {x}
  <1>1. ASSUME NEW z \in Seq(IDs)
        PROVE  None \notin Elems(z)
    <2>1. \A i \in DOMAIN z : z[i] \in IDs
      BY LenProperties, ElementOfSeq, Zenon
    <2> QED
      BY <2>1, RelayHTTPAssumption, Zenon DEF Elems
  <1>2. None \notin Elems(q) /\ None \notin Elems(s) /\ None \notin Elems(w)
    BY <1>1, Zenon
  <1> QED
    BY <1>2, EmptyElems, Zenon DEF Line, HeldIn

---------------------------------------------------------------------------
(* The control of the handler: answers come last, tunnels have clients. *)

Control ==
    /\ \A r \in Reqs : pc[r] \notin {"record", "done"} => answer[r] = None
    /\ \A r \in Reqs : pc[r] = "record" => answer[r] \in {"response", "timeout"}
    /\ \A r \in Reqs : pc[r] \notin {"idle", "done"} => tunnel[r] \in clients
    /\ \A r \in requests : pc[r] \notin {"idle", "find", "store"} /\ tunnel[r] \in clients
    /\ \A h \in Hosts : tunnels[h] # None => tunnels[h] \in clients
    /\ \A i \in Replays : replayOf[i] # None => replayOf[i] \in requests

LEMMA InitControl == Init => Control
  BY DEF Init, Control

LEMMA NextControl == Types /\ Control /\ [Next]_vars => Control'
  <1> SUFFICES ASSUME Types, Control, [Next]_vars PROVE Control'
    BY Zenon
  <1> USE DEF Control, Types
  <1>1. CASE UNCHANGED <<relayVars, handlerVars, replayOf>>
    BY <1>1, Zenon DEF relayVars, handlerVars
  <1>2. ASSUME NEW r \in Reqs, NEW h \in Hosts, Ingress(r, h) PROVE Control'
    BY <1>2 DEF Ingress, Goto, Finish, HandlerTypes, RelayTypes, relayVars
  <1>3. ASSUME NEW r \in Reqs, FindClient(r) PROVE Control'
    BY <1>3 DEF FindClient, Goto, HandlerTypes, relayVars, Finish
  <1>4. ASSUME NEW r \in Reqs, StoreRequest(r) PROVE Control'
    BY <1>4, Zenon DEF StoreRequest, Goto, HandlerTypes, relayVars
  <1>5. ASSUME NEW r \in Reqs, matchBreakpoint(r) PROVE Control'
    BY <1>5, Zenon DEF matchBreakpoint, Goto, HandlerTypes, relayVars
  <1>6. ASSUME NEW r \in Reqs, storePausedRequest(r) PROVE Control'
    BY <1>6, Zenon DEF storePausedRequest, Goto, HandlerTypes, relayVars
  <1>7. ASSUME NEW r \in Reqs, PausedSelect(r) PROVE Control'
    BY <1>7 DEF PausedSelect, Goto, HandlerTypes, relayVars, Actions, PauseTypes
  <1>8. ASSUME NEW r \in Reqs, deletePausedRequest(r) PROVE Control'
    BY <1>8 DEF deletePausedRequest, Goto, HandlerTypes, relayVars, Finish, Actions
  <1>9. ASSUME NEW r \in Reqs, sendHTTPToClient(r) PROVE Control'
    BY <1>9 DEF sendHTTPToClient, Goto, HandlerTypes, relayVars, Finish
  <1>10. ASSUME NEW r \in Reqs, WaitResponse(r) PROVE Control'
    BY <1>10 DEF WaitResponse, Goto, HandlerTypes, relayVars
  <1>11. ASSUME NEW r \in Reqs, recordRequest(r) PROVE Control'
    BY <1>11, Zenon DEF recordRequest, Goto, HandlerTypes, relayVars, Discarded
  <1>12. ASSUME NEW t \in Tunnels, Register(t) PROVE Control'
    BY <1>12, Zenon DEF Register, RelayTypes, handlerVars
  <1>13. ASSUME NEW i \in Replays, NEW r \in Reqs, replayRequest(i, r) PROVE Control'
    BY <1>13, Zenon DEF replayRequest, OtherTypes, relayVars, handlerVars
  <1>14. ASSUME NEW t \in Tunnels, NEW f \in Filters, addBreakpoint(t, f) PROVE Control'
    BY <1>14, Zenon DEF addBreakpoint, handlerVars
  <1>15. ASSUME NEW d \in Debuggers,
                ResolveEnd(d) \/ \E r \in Reqs, a \in Actions : ResolveBegin(d, r, a)
         PROVE  Control'
    BY <1>1, <1>15, Zenon DEF ResolveEnd, ResolveBegin
  <1>16. ASSUME NEW t \in Tunnels, Session(t) \/ Daemon(t) \/ Fault(t) PROVE Control'
    BY <1>1, <1>16
   , Zenon DEF Session, QUICAccept, QUICWrite, QUICDown, Daemon, OpenQUIC, OpenPoll, Poll, QUICRead,
        forwardToLocal, SubmitResponse, Fault, QUICLost, Crash, LoseResponse
  <1>17. CASE UNCHANGED vars
    BY <1>1, <1>17, Zenon DEF vars
  <1> QED
    BY <1>2, <1>3, <1>4, <1>5, <1>6, <1>7, <1>8, <1>9, <1>10, <1>11, <1>12, <1>13, <1>14, <1>15,
       <1>16, <1>17, Zenon DEF Next, Handler, Debug

\* "tunnel client is offline" is never answered, for any number of tunnels.
THEOREM ClientFound == Spec => []TunnelHasClient
  <1>1. Init => Types /\ Control
    BY InitTypes, InitControl, Zenon
  <1>2. Types /\ Control /\ [Next]_vars => Types' /\ Control'
    BY NextTypes, NextControl, Zenon
  <1>3. Control => TunnelHasClient
    BY Zenon DEF Control, TunnelHasClient
  <1> QED
    BY <1>1, <1>2, <1>3, PTL DEF Spec

---------------------------------------------------------------------------
(* The delivery of requests. *)

\* Tunnel t is where i was sent.
Own(i, t) ==
    IF i \in Reqs THEN Sent(i) /\ tunnel[i] = t
    ELSE replayOf[i] # None /\ tunnel[replayOf[i]] = t

LineOf(t) == Line(queue[t], send[t], wire[t], work[t])
HeldAt(t) == HeldIn(queue[t], send[t], wire[t], work[t])

Lines == \A t \in Tunnels : LineOf(t)
Owned == \A t \in Tunnels : \A i \in HeldAt(t) : i \in IDs /\ Own(i, t) /\ forwarded[i] = 0
Served ==
    \A i \in IDs :
        /\ forwarded[i] # 0 => forwarded[i] = 1 /\ server[i] \in Tunnels /\ Own(i, server[i])
        /\ forwarded[i] = 0 => server[i] = None
Replied ==
    /\ \A t \in Tunnels : \A i \in reply[t] : forwarded[i] = 1
    /\ \A r \in Reqs : ResponseC[r] # None \/ answer[r] = "response" => forwarded[r] = 1

\* The inductive invariant.
IInv == Types /\ Control /\ Lines /\ Owned /\ Served /\ Replied

LEMMA InitDelivery == Init => Lines /\ Owned /\ Served /\ Replied
  <1> SUFFICES ASSUME Init PROVE Lines /\ Owned /\ Served /\ Replied
    BY Zenon
  <1>1. Lines
    BY EmptyElems, Zenon DEF Init, Lines, LineOf, Line
  <1>2. Owned
    BY EmptyElems, Zenon DEF Init, Owned, HeldAt, HeldIn
  <1>3. Served /\ Replied
    BY Zenon DEF Init, Served, Replied
  <1> QED
    BY <1>1, <1>2, <1>3, Zenon

\* Once sent, a request keeps its tunnel.
LEMMA OwnKept ==
    ASSUME Types, Control, Next \/ UNCHANGED vars, NEW i \in IDs, NEW t \in Tunnels, Own(i, t)
    PROVE  Own(i, t)'
  <1>1. CASE UNCHANGED <<handlerVars, replayOf>>
    BY <1>1, Zenon DEF handlerVars, Own, Sent
  <1>2. ASSUME NEW r \in Reqs, Handler(r) \/ \E h \in Hosts : Ingress(r, h) PROVE Own(i, t)'
    <2>1. /\ UNCHANGED replayOf
          /\ \A q \in Reqs \ {r} : pc'[q] = pc[q] /\ answer'[q] = answer[q]
          /\ \A q \in Reqs : q # r \/ pc[r] # "idle" => tunnel'[q] = tunnel[q]
      BY <1>2, Zenon DEF Handler, Ingress, FindClient, StoreRequest, matchBreakpoint, storePausedRequest,
         PausedSelect, deletePausedRequest, sendHTTPToClient, WaitResponse, recordRequest,
         Discarded, Goto, Finish, Types, HandlerTypes
    <2>2. Sent(r) => pc[r] # "idle" /\ Sent(r)'
      BY <1>2, Zenon DEF Handler, Ingress, FindClient, StoreRequest, matchBreakpoint, storePausedRequest,
         PausedSelect, deletePausedRequest, sendHTTPToClient, WaitResponse, recordRequest,
         Discarded, Goto, Finish, Actions, Types, HandlerTypes, Control, Sent
    <2>3. CASE i \in Reqs
      BY <2>1, <2>2, <2>3, Zenon DEF Own, Sent
    <2>4. CASE i \notin Reqs
      <3>1. replayOf[i] \in Reqs /\ pc[replayOf[i]] # "idle" /\ tunnel[replayOf[i]] = t
        BY <2>4, Zenon DEF Own, IDs, Types, OtherTypes, HandlerTypes, Control
      <3> QED
        BY <2>1, <2>4, <3>1, Zenon DEF Own
    <2> QED
      BY <2>3, <2>4, Zenon
  <1>3. ASSUME NEW j \in Replays, NEW r \in Reqs, replayRequest(j, r) PROVE Own(i, t)'
    BY <1>3, Zenon DEF replayRequest, handlerVars, Own, Sent, IDs, Types, OtherTypes
  <1>4. ASSUME NEW u \in Tunnels, Register(u) \/ Session(u) \/ Daemon(u) \/ Fault(u)
        PROVE  Own(i, t)'
    BY <1>1, <1>4
   , Zenon DEF Register, Session, QUICAccept, QUICWrite, QUICDown, Daemon, OpenQUIC, OpenPoll, Poll,
        QUICRead, forwardToLocal, SubmitResponse, Fault, QUICLost, Crash, LoseResponse
  <1>5. CASE Debug /\ UNCHANGED replayOf
    BY <1>1, <1>5, Zenon DEF Debug, addBreakpoint, ResolveBegin, ResolveEnd, replayRequest
  <1>6. CASE UNCHANGED vars
    BY <1>1, <1>6, Zenon DEF vars
  <1> QED
    BY <1>1, <1>2, <1>3, <1>4, <1>5, <1>6, Zenon
    DEF Next, Debug, addBreakpoint, ResolveBegin, ResolveEnd

\* The channels of a tunnel, as sequences of IDs.
LEMMA ChannelsAreIDs ==
    ASSUME Types, NEW t \in Tunnels
    PROVE  queue[t] \in Seq(IDs) /\ send[t] \in Seq(IDs) /\ wire[t] \in Seq(IDs)
  <1>1. Reqs \subseteq IDs
    BY Zenon DEF IDs
  <1>2. send[t] \in Seq(Reqs) /\ wire[t] \in Seq(Reqs) /\ queue[t] \in Seq(IDs)
    BY Zenon DEF Types, ChannelTypes, QUICTypes
  <1> QED
    BY <1>1, <1>2, SeqMonotonic, Zenon

\* It is enough to look at the tunnel whose channels change.
LEMMA OneTunnel ==
    ASSUME IInv, Next \/ UNCHANGED vars, NEW t \in Tunnels, LineOf(t)',
           \A u \in Tunnels \ {t} : /\ queue'[u] = queue[u] /\ send'[u] = send[u]
                                    /\ wire'[u] = wire[u] /\ work'[u] = work[u],
           \A i \in HeldAt(t)' : i \in HeldAt(t) \/ (i \in IDs /\ Own(i, t)' /\ forwarded[i] = 0),
           forwarded' = forwarded
    PROVE  Lines' /\ Owned'
  <1>1. Lines'
    BY Zenon DEF IInv, Lines, LineOf
  <1>2. ASSUME NEW u \in Tunnels, NEW i \in HeldAt(u)'
        PROVE  i \in IDs /\ Own(i, u)' /\ forwarded'[i] = 0
    <2>1. CASE i \in HeldAt(u)
      BY <2>1, OwnKept, Zenon DEF IInv, Owned
    <2>2. CASE i \notin HeldAt(u)
      <3>1. u = t
        BY <1>2, <2>2, Zenon DEF HeldAt
      <3> QED
        BY <1>2, <2>2, <3>1, Zenon
    <2> QED
      BY <2>1, <2>2, Zenon
  <1>3. Owned'
    BY <1>2, Zenon DEF Owned
  <1> QED
    BY <1>1, <1>3, Zenon

\* Steps that leave the channels and the daemons' work alone.
LEMMA NoMove ==
    ASSUME IInv, Next \/ UNCHANGED vars, UNCHANGED <<queue, send, wire, work, forwarded>>
    PROVE  Lines' /\ Owned'
  <1>1. Lines'
    BY Zenon DEF IInv, Lines, LineOf
  <1>2. \A u \in Tunnels : HeldAt(u)' = HeldAt(u)
    BY Zenon DEF HeldAt
  <1>3. Owned'
    BY <1>2, OwnKept, Zenon DEF IInv, Owned
  <1> QED
    BY <1>1, <1>3, Zenon

\* A request that has not been sent is in no channel and was not forwarded.
LEMMA Unsent ==
    ASSUME IInv, NEW i \in IDs, \A t \in Tunnels : ~Own(i, t)
    PROVE  forwarded[i] = 0 /\ \A t \in Tunnels : i \notin HeldAt(t)
  BY Zenon DEF IInv, Owned, Served

LEMMA SendDelivery ==
    ASSUME IInv, NEW r \in Reqs, sendHTTPToClient(r), Next
    PROVE  Lines' /\ Owned'
  <1> DEFINE t == tunnel[r]
  <1>1. t \in Tunnels /\ r \in IDs /\ answer[r] = None
    BY Zenon DEF IInv, Control, Types, RelayTypes, sendHTTPToClient, IDs
  <1>2. forwarded[r] = 0 /\ r \notin HeldAt(t)
    <2>1. \A u \in Tunnels : ~Own(r, u)
      BY <1>1, Zenon DEF Own, Sent, sendHTTPToClient
    <2> QED
      BY <1>1, <2>1, Unsent, Zenon
  <1>3. queue[t] \in Seq(IDs) /\ send[t] \in Seq(IDs) /\ LineOf(t)
    BY <1>1, ChannelsAreIDs, Zenon DEF IInv, Lines
  <1>4. UNCHANGED <<wire, work, forwarded, tunnel>>
    BY Zenon DEF sendHTTPToClient, quicVars, daemonVars
  <1>5. CASE UNCHANGED <<queue, send>>
    BY <1>4, <1>5, NoMove, Zenon
  <1>6. ASSUME Goto(r, "wait"), UNCHANGED answer PROVE Own(r, t)'
    BY <1>1, <1>4, <1>6, Zenon DEF Own, Sent, Goto, IInv, Types, HandlerTypes
  <1>7. CASE /\ send' = [send EXCEPT ![t] = Append(send[t], r)]
             /\ UNCHANGED queue /\ Goto(r, "wait") /\ UNCHANGED answer
    <2>1. send'[t] = Append(send[t], r) /\ \A u \in Tunnels \ {t} : send'[u] = send[u]
      BY <1>1, <1>7, Zenon DEF IInv, Types, ChannelTypes
    <2>2. /\ Line(queue[t], Append(send[t], r), wire[t], work[t])
          /\ HeldIn(queue[t], Append(send[t], r), wire[t], work[t])
                \subseteq HeldIn(queue[t], send[t], wire[t], work[t]) \cup {r}
      BY <1>1, <1>2, <1>3, LinePut, Zenon DEF LineOf, HeldAt
    <2>3. LineOf(t)' /\ HeldAt(t)' \subseteq HeldAt(t) \cup {r}
      BY <1>4, <1>7, <2>1, <2>2, Zenon DEF LineOf, HeldAt
    <2> QED
      BY <1>1, <1>2, <1>4, <1>6, <1>7, <2>1, <2>3, OneTunnel, Zenon
  <1>8. CASE enqueueRequestToClient(t, r) /\ UNCHANGED send /\ Goto(r, "wait") /\ UNCHANGED answer
    <2>1. queue'[t] = Append(queue[t], r) /\ \A u \in Tunnels \ {t} : queue'[u] = queue[u]
      BY <1>1, <1>8, Zenon DEF IInv, Types, ChannelTypes, enqueueRequestToClient
    <2>2. /\ Line(Append(queue[t], r), send[t], wire[t], work[t])
          /\ HeldIn(Append(queue[t], r), send[t], wire[t], work[t])
                \subseteq HeldIn(queue[t], send[t], wire[t], work[t]) \cup {r}
      BY <1>1, <1>2, <1>3, LinePut, Zenon DEF LineOf, HeldAt
    <2>3. LineOf(t)' /\ HeldAt(t)' \subseteq HeldAt(t) \cup {r}
      BY <1>4, <1>8, <2>1, <2>2, Zenon DEF LineOf, HeldAt
    <2> QED
      BY <1>1, <1>2, <1>4, <1>6, <1>8, <2>1, <2>3, OneTunnel, Zenon
  <1> QED
    BY <1>5, <1>7, <1>8, Zenon DEF sendHTTPToClient

LEMMA ReplayDelivery ==
    ASSUME IInv, NEW i \in Replays, NEW r \in Reqs, replayRequest(i, r), Next
    PROVE  Lines' /\ Owned'
  <1> DEFINE t == tunnel[r]
  <1>1. t \in Tunnels /\ i \in IDs /\ i \notin Reqs /\ r # None
    BY RelayHTTPAssumption, Zenon DEF IInv, Control, Types, RelayTypes, replayRequest, IDs
  <1>2. forwarded[i] = 0 /\ i \notin HeldAt(t)
    <2>1. \A u \in Tunnels : ~Own(i, u)
      BY <1>1, Zenon DEF Own, replayRequest
    <2> QED
      BY <1>1, <2>1, Unsent, Zenon
  <1>3. queue[t] \in Seq(IDs) /\ send[t] \in Seq(IDs) /\ LineOf(t)
    BY <1>1, ChannelsAreIDs, Zenon DEF IInv, Lines
  <1>4. UNCHANGED <<send, wire, work, forwarded, tunnel>>
    BY Zenon DEF replayRequest, quicVars, daemonVars, handlerVars
  <1>5. Own(i, t)'
    BY <1>1, <1>4, Zenon DEF Own, replayRequest, IInv, Types, OtherTypes
  <1>6. queue'[t] = Append(queue[t], i) /\ \A u \in Tunnels \ {t} : queue'[u] = queue[u]
    BY <1>1, Zenon DEF IInv, Types, ChannelTypes, enqueueRequestToClient, replayRequest
  <1>7. /\ Line(Append(queue[t], i), send[t], wire[t], work[t])
        /\ HeldIn(Append(queue[t], i), send[t], wire[t], work[t])
              \subseteq HeldIn(queue[t], send[t], wire[t], work[t]) \cup {i}
    BY <1>1, <1>2, <1>3, LinePut, Zenon DEF LineOf, HeldAt
  <1>8. LineOf(t)' /\ HeldAt(t)' \subseteq HeldAt(t) \cup {i}
    BY <1>4, <1>6, <1>7, Zenon DEF LineOf, HeldAt
  <1> QED
    BY <1>1, <1>2, <1>4, <1>5, <1>6, <1>8, OneTunnel, Zenon

\* Steps that move a request from one channel to the next, or lose it.
LEMMA MoveDelivery ==
    ASSUME IInv, Next, NEW t \in Tunnels,
           QUICWrite(t) \/ QUICLost(t) \/ Poll(t) \/ QUICRead(t) \/ Crash(t)
    PROVE  Lines' /\ Owned'
  <1>1. /\ queue[t] \in Seq(IDs) /\ send[t] \in Seq(IDs) /\ wire[t] \in Seq(IDs)
        /\ Line(queue[t], send[t], wire[t], work[t])
    BY ChannelsAreIDs, Zenon DEF IInv, Lines, LineOf
  <1> USE DEF IInv, Types, ChannelTypes, QUICTypes, DaemonTypes
  <1>2. \A u \in Tunnels \ {t} : /\ queue'[u] = queue[u] /\ send'[u] = send[u]
                                 /\ wire'[u] = wire[u] /\ work'[u] = work[u]
    BY Zenon DEF QUICWrite, QUICLost, Poll, QUICRead, Crash, daemonVars, quicVars, channelVars
  <1>3. forwarded' = forwarded
    BY Zenon DEF QUICWrite, QUICLost, Poll, QUICRead, Crash, daemonVars
  <1> SUFFICES LineOf(t)' /\ HeldAt(t)' \subseteq HeldAt(t)
    BY <1>2, <1>3, OneTunnel, Zenon
  <1>4. CASE QUICWrite(t)
    <2>1. /\ send[t] # <<>> /\ send'[t] = Tail(send[t]) /\ queue'[t] = queue[t] /\ work'[t] = work[t]
          /\ wire'[t] = Append(wire[t], Head(send[t])) \/ wire'[t] = wire[t]
      BY <1>4, Zenon DEF QUICWrite, daemonVars
    <2>2. /\ Line(queue[t], Tail(send[t]), wire'[t], work[t])
          /\ HeldIn(queue[t], Tail(send[t]), wire'[t], work[t])
                \subseteq HeldIn(queue[t], send[t], wire[t], work[t])
      BY <1>1, <2>1, LineWrite, Zenon
    <2> QED
      BY <2>1, <2>2, Zenon DEF LineOf, HeldAt
  <1>5. CASE QUICLost(t)
    <2>1. wire'[t] = <<>> /\ queue'[t] = queue[t] /\ send'[t] = send[t] /\ work'[t] = work[t]
      BY <1>5, Zenon DEF QUICLost, channelVars
    <2>2. /\ Line(queue[t], send[t], <<>>, work[t])
          /\ HeldIn(queue[t], send[t], <<>>, work[t])
                \subseteq HeldIn(queue[t], send[t], wire[t], work[t])
      BY <1>1, LineDrop
    <2> QED
      BY <2>1, <2>2, Zenon DEF LineOf, HeldAt
  <1>6. CASE Poll(t)
    <2>1. /\ queue[t] # <<>> /\ queue'[t] = Tail(queue[t]) /\ send'[t] = send[t] /\ wire'[t] = wire[t]
          /\ work[t] = None /\ work'[t] \in {Head(queue[t]), None}
      BY <1>6, Zenon DEF Poll, quicVars
    <2>2. Line(queue[t], send[t], wire[t], None)
      BY <1>1, <2>1, Zenon
    <2>3. /\ Line(Tail(queue[t]), send[t], wire[t], work'[t])
          /\ HeldIn(Tail(queue[t]), send[t], wire[t], work'[t])
                \subseteq HeldIn(queue[t], send[t], wire[t], None)
      BY <1>1, <2>1, <2>2, LinePoll, Zenon
    <2> QED
      BY <2>1, <2>3, Zenon DEF LineOf, HeldAt
  <1>7. CASE QUICRead(t)
    <2>1. /\ wire[t] # <<>> /\ wire'[t] = Tail(wire[t]) /\ send'[t] = send[t]
          /\ queue'[t] = queue[t] /\ work[t] = None /\ work'[t] = Head(wire[t])
      BY <1>7, Zenon DEF QUICRead, channelVars
    <2>2. Line(queue[t], send[t], wire[t], None)
      BY <1>1, <2>1, Zenon
    <2>3. /\ Line(queue[t], send[t], Tail(wire[t]), Head(wire[t]))
          /\ HeldIn(queue[t], send[t], Tail(wire[t]), Head(wire[t]))
                \subseteq HeldIn(queue[t], send[t], wire[t], None)
      BY <1>1, <2>1, <2>2, LineRead, Zenon
    <2> QED
      BY <2>1, <2>3, Zenon DEF LineOf, HeldAt
  <1>8. CASE Crash(t)
    <2>1. wire'[t] = <<>> /\ queue'[t] = queue[t] /\ send'[t] = send[t] /\ work'[t] = None
      BY <1>8, Zenon DEF Crash, channelVars
    <2>2. /\ Line(queue[t], send[t], <<>>, None)
          /\ HeldIn(queue[t], send[t], <<>>, None)
                \subseteq HeldIn(queue[t], send[t], wire[t], work[t])
      BY <1>1, LineDrop
    <2> QED
      BY <2>1, <2>2, Zenon DEF LineOf, HeldAt
  <1> QED
    BY <1>4, <1>5, <1>6, <1>7, <1>8, Zenon

\* The daemon forwards its request: no copy of it is left anywhere.
LEMMA ForwardDelivery ==
    ASSUME IInv, Next, NEW t \in Tunnels, forwardToLocal(t)
    PROVE  Lines' /\ Owned' /\ Served' /\ Replied'
  <1> DEFINE x == work[t]
  <1> USE DEF IInv, Types, DaemonTypes
  <1>1. /\ x \in IDs /\ x # None /\ x \in HeldAt(t) /\ LineOf(t)
        /\ queue[t] \in Seq(IDs) /\ send[t] \in Seq(IDs) /\ wire[t] \in Seq(IDs)
    BY ChannelsAreIDs, Zenon DEF forwardToLocal, HeldAt, HeldIn, Lines
  <1>2. Own(x, t) /\ forwarded[x] = 0
    BY <1>1, Zenon DEF Owned
  <1>3. /\ UNCHANGED <<queue, send, wire, replayOf, ResponseC>> /\ UNCHANGED handlerVars
        /\ work'[t] = None /\ \A u \in Tunnels \ {t} : work'[u] = work[u]
        /\ forwarded'[x] = 1 /\ \A i \in IDs \ {x} : forwarded'[i] = forwarded[i]
        /\ server'[x] = t /\ \A i \in IDs \ {x} : server'[i] = server[i]
        /\ \A u \in Tunnels : reply'[u] \subseteq reply[u] \cup {x}
    BY <1>1, <1>2 DEF forwardToLocal, channelVars, quicVars
  <1> HIDE DEF x
  <1>4. LineOf(t)' /\ HeldAt(t)' \subseteq HeldAt(t) \ {x}
    <2> HIDE DEF IInv, Types, DaemonTypes
    <2>1. Line(queue[t], send[t], wire[t], x)
      BY <1>1, Zenon DEF LineOf, x
    <2>2. /\ Line(queue[t], send[t], wire[t], None)
          /\ HeldIn(queue[t], send[t], wire[t], None)
                \subseteq HeldIn(queue[t], send[t], wire[t], x) \ {x}
      BY <1>1, <2>1, LineDrop, Zenon
    <2> QED
      BY <1>3, <2>2, Zenon DEF LineOf, HeldAt, x
  <1>5. Lines'
    BY <1>3, <1>4, Zenon DEF Lines, LineOf
  <1>6. Owned'
    <2> SUFFICES ASSUME NEW u \in Tunnels, NEW i \in HeldAt(u)'
                 PROVE  i \in IDs /\ Own(i, u)' /\ forwarded'[i] = 0
      BY Zenon DEF Owned
    <2>1. i \in HeldAt(u)
      BY <1>3, <1>4, Zenon DEF HeldAt
    <2>2. i \in IDs /\ Own(i, u) /\ forwarded[i] = 0
      BY <2>1, Zenon DEF Owned
    <2>3. i # x
      <3>1. CASE u = t
        BY <1>4, <3>1, Zenon
      <3>2. CASE u # t
        BY <1>2, <2>2, <3>2 DEF Own
      <3> QED
        BY <3>1, <3>2, Zenon
    <2> QED
      BY <1>3, <2>2, <2>3, OwnKept, Zenon
  <1>7. Served'
    <2> SUFFICES ASSUME NEW i \in IDs
                 PROVE  /\ forwarded'[i] # 0 => /\ forwarded'[i] = 1 /\ server'[i] \in Tunnels
                                               /\ Own(i, server[i])'
                        /\ forwarded'[i] = 0 => server'[i] = None
      BY Zenon DEF Served
    <2>1. CASE i = x
      <3>1. Own(i, t)'
        BY <1>2, <2>1, OwnKept, Zenon
      <3>2. server'[i] = t /\ Own(i, server[i])'
        BY <1>3, <2>1, <3>1, Zenon DEF Own
      <3> QED
        BY <1>3, <2>1, <3>2
    <2>2. CASE i # x
      <3>1. forwarded'[i] = forwarded[i] /\ server'[i] = server[i]
        BY <1>3, <2>2, Zenon
      <3>2. forwarded[i] # 0 => Own(i, server[i])'
        BY <1>3, <3>1, Zenon DEF Served, Own, Sent, handlerVars
      <3> QED
        BY <3>1, <3>2, Zenon DEF Served
    <2> QED
      BY <2>1, <2>2, Zenon
  <1>8. Replied'
    BY <1>2, <1>3, Zenon DEF Replied, handlerVars, IDs
  <1> QED
    BY <1>5, <1>6, <1>7, <1>8, Zenon

\* Only forwardToLocal changes what was forwarded.
LEMMA ServedKept ==
    ASSUME IInv, Next \/ UNCHANGED vars, UNCHANGED <<forwarded, server>>
    PROVE  Served'
  <1> SUFFICES ASSUME NEW i \in IDs, forwarded[i] # 0 PROVE Own(i, server[i])'
    BY Zenon DEF IInv, Served
  <1>1. server[i] \in Tunnels /\ Own(i, server[i])
    BY Zenon DEF IInv, Served
  <1>2. \A t \in Tunnels : Own(i, t) => Own(i, t)'
    BY OwnKept, Zenon DEF IInv
  <1> QED
    BY <1>1, <1>2, Zenon DEF Own

\* Responses on their way, or taken, are of requests that were forwarded.
LEMMA RepliedKept ==
    ASSUME IInv, UNCHANGED forwarded,
           \A t \in Tunnels : reply'[t] \subseteq reply[t],
           \A r \in Reqs : ResponseC'[r] # None => \/ ResponseC[r] # None
                                                 \/ \E t \in Tunnels : r \in reply[t],
           \A r \in Reqs : answer'[r] = "response" => answer[r] = "response" \/ ResponseC[r] # None
    PROVE  Replied'
  BY Zenon DEF IInv, Replied

LEMMA NextDelivery == IInv /\ [Next]_vars => Lines' /\ Owned' /\ Served' /\ Replied'
  <1> SUFFICES ASSUME IInv, [Next]_vars PROVE Lines' /\ Owned' /\ Served' /\ Replied'
    BY Zenon
  <1> DEFINE Goal == Lines' /\ Owned' /\ Served' /\ Replied'
  <1>1. ASSUME UNCHANGED <<queue, send, wire, work, forwarded, server, reply, ResponseC, answer>>
        PROVE  Goal
    BY <1>1, NoMove, ServedKept, RepliedKept, Zenon
  <1>2. ASSUME NEW r \in Reqs, Handler(r) \/ \E h \in Hosts : Ingress(r, h), Next PROVE Goal
    <2>1. UNCHANGED <<forwarded, server, reply>>
      BY <1>2, Zenon DEF Handler, Ingress, FindClient, StoreRequest, matchBreakpoint, storePausedRequest,
         PausedSelect, deletePausedRequest, sendHTTPToClient, WaitResponse, recordRequest, daemonVars
    <2>2. Lines' /\ Owned'
      <3>1. CASE sendHTTPToClient(r)
        BY <1>2, <3>1, SendDelivery, Zenon
      <3>2. CASE ~sendHTTPToClient(r)
        <4>1. UNCHANGED <<queue, send, wire, work, forwarded>>
          BY <1>2, <3>2, Zenon DEF Handler, Ingress, FindClient, StoreRequest, matchBreakpoint,
             storePausedRequest, PausedSelect, deletePausedRequest, WaitResponse, recordRequest,
             daemonVars, channelVars, quicVars
        <4> QED
          BY <1>2, <4>1, NoMove, Zenon
      <3> QED
        BY <3>1, <3>2, Zenon
    <2>3. /\ \A q \in Reqs : ResponseC'[q] # None => ResponseC[q] # None
          /\ \A q \in Reqs : answer'[q] = "response" => answer[q] = "response" \/ ResponseC[q] # None
      BY <1>2, Zenon DEF Handler, Ingress, FindClient, StoreRequest, matchBreakpoint, storePausedRequest,
         PausedSelect, deletePausedRequest, sendHTTPToClient, WaitResponse, recordRequest,
         Discarded, Finish, IInv, Types, HandlerTypes, OtherTypes
    <2> QED
      BY <1>2, <2>1, <2>2, <2>3, ServedKept, RepliedKept, Zenon
  <1>3. ASSUME NEW i \in Replays, NEW r \in Reqs, replayRequest(i, r), Next PROVE Goal
    <2>1. UNCHANGED <<forwarded, server, reply, ResponseC, answer>>
      BY <1>3, Zenon DEF replayRequest, daemonVars, handlerVars
    <2> QED
      BY <1>3, <2>1, ReplayDelivery, ServedKept, RepliedKept, Zenon
  <1>4. ASSUME Debug, UNCHANGED replayOf, Next PROVE Goal
    <2>1. ASSUME NEW i \in Replays, NEW r \in Reqs, replayRequest(i, r) PROVE Goal
      BY <1>3, <1>4, <2>1, Zenon
    <2>2. ASSUME NEW t \in Tunnels, NEW f \in Filters, addBreakpoint(t, f) PROVE Goal
      BY <1>1, <2>2, Zenon DEF addBreakpoint, daemonVars, handlerVars, channelVars, quicVars
    <2>3. ASSUME NEW d \in Debuggers,
                 ResolveEnd(d) \/ \E r \in Reqs, a \in Actions : ResolveBegin(d, r, a)
          PROVE  Goal
      BY <1>1, <2>3,
       Zenon DEF ResolveEnd, ResolveBegin, daemonVars, handlerVars, channelVars, quicVars
    <2> QED
      BY <1>4, <2>1, <2>2, <2>3, Zenon DEF Debug
  <1>5. ASSUME NEW t \in Tunnels, Next,
               QUICWrite(t) \/ QUICLost(t) \/ Poll(t) \/ QUICRead(t) \/ Crash(t)
        PROVE  Goal
    <2>1. /\ UNCHANGED <<forwarded, server, ResponseC, answer>>
          /\ \A u \in Tunnels : reply'[u] \subseteq reply[u]
      BY <1>5, Zenon DEF QUICWrite, QUICLost, Poll, QUICRead, Crash, daemonVars, handlerVars, IInv, Types,
         DaemonTypes
    <2> QED
      BY <1>5, <2>1, MoveDelivery, ServedKept, RepliedKept, Zenon
  <1>6. ASSUME NEW t \in Tunnels, forwardToLocal(t), Next PROVE Goal
    BY <1>6, ForwardDelivery, Zenon
  <1>7. ASSUME NEW t \in Tunnels, Next,
               Register(t) \/ OpenQUIC(t) \/ OpenPoll(t) \/ QUICAccept(t) \/ QUICDown(t)
        PROVE  Goal
    BY <1>1, <1>7, Zenon DEF Register, OpenQUIC, OpenPoll, QUICAccept, QUICDown, daemonVars, handlerVars,
       channelVars, quicVars
  <1>8. ASSUME NEW t \in Tunnels, NEW i \in IDs, SubmitResponse(t, i) \/ LoseResponse(t, i), Next
        PROVE  Goal
    <2>1. /\ UNCHANGED <<queue, send, wire, work, forwarded, server, answer>>
          /\ \A u \in Tunnels : reply'[u] \subseteq reply[u]
          /\ \A r \in Reqs : ResponseC'[r] # None => ResponseC[r] # None \/ r \in reply[t]
      BY <1>8, Zenon DEF SubmitResponse, LoseResponse, channelVars, quicVars, handlerVars, IInv, Types,
         DaemonTypes, OtherTypes
    <2> QED
      BY <1>8, <2>1, NoMove, ServedKept, RepliedKept, Zenon
  <1>9. CASE UNCHANGED vars
    BY <1>1, <1>9, Zenon DEF vars, daemonVars, handlerVars, channelVars, quicVars
  <1> HIDE DEF Goal
  <1>10. CASE Next
    <2>1. ASSUME Debug PROVE Goal
      BY <1>3, <1>4, <1>10, <2>1, Zenon DEF Debug, addBreakpoint, ResolveBegin, ResolveEnd
    <2>2. ASSUME NEW t \in Tunnels, Register(t) \/ Session(t) PROVE Goal
      BY <1>5, <1>7, <1>10, <2>2, Zenon DEF Session
    <2>3. ASSUME NEW t \in Tunnels, Daemon(t) PROVE Goal
      <3>1. ASSUME NEW i \in IDs, SubmitResponse(t, i) PROVE Goal
        BY <1>8, <1>10, <3>1, Zenon
      <3> QED
        BY <1>5, <1>6, <1>7, <1>10, <2>3, <3>1, Zenon DEF Daemon
    <2>4. ASSUME NEW t \in Tunnels, Fault(t) PROVE Goal
      <3>1. ASSUME NEW i \in IDs, LoseResponse(t, i) PROVE Goal
        BY <1>8, <1>10, <3>1, Zenon
      <3> QED
        BY <1>5, <1>10, <2>4, <3>1, Zenon DEF Fault
    <2>5. ASSUME NEW r \in Reqs, Handler(r) \/ \E h \in Hosts : Ingress(r, h) PROVE Goal
      BY <1>2, <1>10, <2>5, Zenon
    <2> QED
      BY <1>10, <2>1, <2>2, <2>3, <2>4, <2>5, Zenon DEF Next, Goal
  <1> QED
    BY <1>9, <1>10, Zenon DEF Goal

LEMMA Invariance == Spec => []IInv
  <1>1. Init => IInv
    BY InitTypes, InitControl, InitDelivery, Zenon DEF IInv
  <1>2. IInv /\ [Next]_vars => IInv'
    BY NextTypes, NextControl, NextDelivery, Zenon DEF IInv
  <1> QED
    BY <1>1, <1>2, PTL DEF Spec

---------------------------------------------------------------------------
(* The safety properties. *)

\* p is the k-th entry of channel s of tunnel t, which is i.
Entry(p, c, t, s, i) == \E k \in DOMAIN s : s[k] = i /\ p = <<c, t, k>>

LEMMA PlacesDef ==
    ASSUME NEW i \in IDs, NEW p \in Places(i)
    PROVE  \E t \in Tunnels :
               \/ Entry(p, "queue", t, queue[t], i) \/ Entry(p, "send", t, send[t], i)
               \/ Entry(p, "wire", t, wire[t], i)
               \/ work[t] = i /\ p = <<"work", t, 1>>
  <1>1. PICK t \in Tunnels :
            \/ p \in {"queue"} \X {t} \X At(queue[t], i) \/ p \in {"send"} \X {t} \X At(send[t], i)
            \/ p \in {"wire"} \X {t} \X At(wire[t], i)
            \/ p \in {"work"} \X {t} \X At(<<work[t]>>, i)
    BY Zenon DEF Places
  <1>2. ASSUME NEW c, NEW s, p \in {c} \X {t} \X At(s, i) PROVE Entry(p, c, t, s, i)
    BY <1>2 DEF Entry, At
  <1>3. ASSUME p \in {"work"} \X {t} \X At(<<work[t]>>, i)
        PROVE  work[t] = i /\ p = <<"work", t, 1>>
    <2>1. PICK k \in DOMAIN <<work[t]>> : <<work[t]>>[k] = i /\ p = <<"work", t, k>>
      BY <1>2, <1>3, Zenon DEF Entry
    <2>2. k = 1
      BY <2>1
    <2> QED
      BY <2>1, <2>2, Zenon
  <1> QED
    BY <1>1, <1>2, <1>3, Zenon

\* Where a request can be found, its tunnel's channels hold it.
LEMMA PlaceHeld ==
    ASSUME IInv, NEW i \in IDs, NEW p \in Places(i)
    PROVE  \E t \in Tunnels : p[2] = t /\ i \in HeldAt(t)
  <1>1. i # None
    BY RelayHTTPAssumption, Zenon
  <1> QED
    BY <1>1, PlacesDef, SMTT(20) DEF Entry, HeldAt, HeldIn, Elems

LEMMA OnePlace == IInv => ForwardedOnce
  <1> SUFFICES ASSUME IInv, NEW i \in IDs
               PROVE  /\ \A p, q \in Places(i) : p = q
                      /\ Places(i) # {} => forwarded[i] = 0
                      /\ forwarded[i] <= 1
    BY Zenon DEF ForwardedOnce
  <1>1. Places(i) # {} => forwarded[i] = 0
    BY PlaceHeld, Zenon DEF IInv, Owned
  <1>2. forwarded[i] <= 1
    BY DEF IInv, Served, Types, DaemonTypes
  <1>3. ASSUME NEW p \in Places(i), NEW q \in Places(i) PROVE p = q
    <2>1. PICK t \in Tunnels :
            \/ Entry(p, "queue", t, queue[t], i) \/ Entry(p, "send", t, send[t], i)
            \/ Entry(p, "wire", t, wire[t], i)
            \/ work[t] = i /\ p = <<"work", t, 1>>
      BY <1>3, PlacesDef, Zenon
    <2>2. PICK u \in Tunnels :
            \/ Entry(q, "queue", u, queue[u], i) \/ Entry(q, "send", u, send[u], i)
            \/ Entry(q, "wire", u, wire[u], i)
            \/ work[u] = i /\ q = <<"work", u, 1>>
      BY <1>3, PlacesDef, Zenon
    <2>3. i \in HeldAt(t) /\ i \in HeldAt(u)
      BY <2>1, <2>2, RelayHTTPAssumption, Zenon DEF Entry, HeldAt, HeldIn, Elems
    <2>4. t = u
      BY <2>3 DEF IInv, Owned, Own
    <2>5. Line(queue[t], send[t], wire[t], work[t])
      BY Zenon DEF IInv, Lines, LineOf
    <2>6. ASSUME NEW c, NEW s, Distinct(s), Entry(p, c, t, s, i), Entry(q, c, t, s, i) PROVE p = q
      BY <2>6, Zenon DEF Entry, Distinct
    <2>7. \A c, s, x : Entry(x, c, t, s, i) => i \in Elems(s)
      BY Zenon DEF Entry, Elems
    <2> QED
      BY <2>1, <2>2, <2>4, <2>5, <2>6, <2>7, Zenon DEF Line
  <1> QED
    BY <1>1, <1>2, <1>3, Zenon

\* The local service is asked at most once for each request and each replay,
\* whatever breaks, for any number of tunnels, requests and channel capacities.
THEOREM AtMostOnce == Spec => []ForwardedOnce
  BY Invariance, OnePlace, PTL

\* A request, or a replay of it, goes only to the tunnel the request was admitted to.
THEOREM OnlyOwnTunnel == Spec => []OwnTunnel
  <1>1. IInv => OwnTunnel
    <2> SUFFICES ASSUME IInv, NEW i \in IDs
                 PROVE  /\ \A p \in Places(i) : p[2] = TunnelOf(i)
                        /\ server[i] # None => server[i] = TunnelOf(i)
      BY Zenon DEF OwnTunnel
    <2>1. \A t \in Tunnels : Own(i, t) => t = TunnelOf(i)
      BY Zenon DEF Own, TunnelOf
    <2>2. \A p \in Places(i) : p[2] = TunnelOf(i)
      BY <2>1, PlaceHeld, Zenon DEF IInv, Owned
    <2>3. server[i] # None => server[i] = TunnelOf(i)
      BY <2>1, Zenon DEF IInv, Served, Types, DaemonTypes
    <2> QED
      BY <2>2, <2>3, Zenon
  <1> QED
    BY <1>1, Invariance, PTL

\* A request that is held, refused, discarded or expired never reaches a channel
\* or the local service.
THEOREM NeverOvertaken == Spec => []HeldBack
  <1>1. IInv => HeldBack
    <2> SUFFICES ASSUME IInv, NEW r \in Reqs, ~Sent(r)
                 PROVE  Places(r) = {} /\ forwarded[r] = 0
      BY Zenon DEF HeldBack
    <2>1. r \in IDs /\ \A t \in Tunnels : ~Own(r, t)
      BY Zenon DEF Own, IDs
    <2>2. forwarded[r] = 0 /\ \A t \in Tunnels : r \notin HeldAt(t)
      BY <2>1, Unsent, Zenon
    <2> QED
      BY <2>1, <2>2, PlaceHeld, Zenon
  <1> QED
    BY <1>1, Invariance, PTL

\* The public gets a response only from a local service that was asked for that
\* very request.
THEOREM OwnResponse == Spec => []AnsweredByLocal
  <1>1. IInv => AnsweredByLocal
    BY Zenon DEF IInv, Replied, AnsweredByLocal
  <1> QED
    BY <1>1, Invariance, PTL


(***************************************************************************)
(* Rate limits.                                                            *)
(***************************************************************************)
Limiter == [tokens : 0..Burst, age : Nat]
GateCall == [pc : {"idle", "limit", "allow", "log"}, addr : Addr \cup {"none"},
             obj : Obj \cup {0}, event : Event \cup {"none"}]

\* The types of what the limiters are made of, and that only a request between
\* the Unlock of EnforceRateLimit and Allow remembers a limiter.
GaShape ==
    /\ gaObj \in [Obj -> Limiter]
    /\ gaMap \in [Addr -> Obj \cup {0}]
    /\ gaCall \in [GaCall -> GateCall]
    /\ gaIdeal \in [Addr -> Int]
    /\ gaSince \in [Addr -> Nat]
    /\ \A c \in GaCall : /\ gaCall[c].pc = "limit" => gaCall[c].addr \in Addr
                         /\ gaCall[c].pc = "allow" => gaCall[c].addr \in Addr /\ gaCall[c].obj # 0
                         /\ gaCall[c].pc # "allow" => gaCall[c].obj = 0

\* A limiter is held for address a, by the map or by a request.
HeldFor(i, a) == gaMap[a] = i \/ \E c \in GaCall : gaCall[c].obj = i /\ gaCall[c].addr = a

\* Nobody's limiter is another address's.
OneAddress == \A i \in Obj, a, b \in Addr : HeldFor(i, a) /\ HeldFor(i, b) => a = b

\* What a limiter is worth, in parts of a token.
Worth(l) == l.tokens * RateQ + l.age * RateP

\* The envelope admits at least what the registered limiter is worth.
EnvelopeCovers ==
    \A a \in Addr :
        /\ gaMap[a] = 0 => gaIdeal[a] >= Envelope
        /\ gaMap[a] # 0 => gaIdeal[a] >= Envelope \/ gaIdeal[a] >= Worth(gaObj[gaMap[a]])

\* A limiter that is not full was refilled no later than its address was last
\* admitted.
SinceRefill ==
    \A i \in Obj, a \in Addr : HeldFor(i, a) => gaObj[i].tokens = Burst \/ gaSince[a] =< gaObj[i].age

-----------------------------------------------------------------------------
\* Products are monotone and distribute over sums.
LEMMA TimesMonotone ==
    ASSUME NEW x \in Nat, NEW y \in Nat, NEW q \in Nat, x =< y
    PROVE  x * q \in Nat /\ y * q \in Nat /\ x * q =< y * q
<1>1. PICK d \in Nat : y = x + d
  <2>1. y - x \in Nat /\ y = x + (y - x)
    OBVIOUS
  <2> QED
    BY <2>1, Zenon
<1>2. x * q \in Nat /\ d * q \in Nat
  OBVIOUS
<1>3. (x + d) * q = x * q + d * q
  OBVIOUS
<1> QED
  BY <1>1, <1>2, <1>3

\* What a refill of whole tokens is worth.
LEMMA RefillWorth ==
    ASSUME NEW x \in Nat, NEW q \in Nat \ {0}
    PROVE  /\ x \div q \in Nat
           /\ (x \div q) * q =< x
           /\ x \div q = 0 => x < q
<1> DEFINE d == x \div q
           m == x % q
<1>1. d \in Int /\ m \in 0..(q - 1) /\ x = q * d + m
  OBVIOUS
<1> QED
  BY <1>1


LEMMA GaConstants ==
    /\ RateP \in Nat \ {0} /\ RateQ \in Nat \ {0} /\ Burst \in Nat \ {0} /\ StaleAge \in Nat \ {0}
    /\ MaxAge \in Nat
    /\ Envelope \in Nat /\ Burst * RateQ \in Nat /\ Envelope = Burst * RateQ + RateQ - 1
    /\ Cardinality(Addr) \in Nat /\ Cardinality(GaCall) \in Nat
<1>1. RateP \in Nat \ {0} /\ RateQ \in Nat \ {0} /\ Burst \in Nat \ {0} /\ StaleAge \in Nat \ {0}
  BY GaAssumption, Zenon
<1>2. Burst * RateQ \in Nat
  BY <1>1
<1>3. Cardinality(Addr) \in Nat /\ Cardinality(GaCall) \in Nat
  BY GaAssumption, FS_CardinalityType, Zenon
<1> QED
  BY <1>1, <1>2, <1>3 DEF MaxAge, Envelope

LEMMA WorthType ==
    ASSUME NEW l \in Limiter
    PROVE  /\ l.tokens \in Nat /\ l.tokens =< Burst /\ l.age \in Nat
           /\ l.tokens * RateQ \in Nat /\ l.age * RateP \in Nat /\ l.tokens * RateQ =< Burst * RateQ
           /\ Worth(l) \in Nat /\ Worth(l) = l.tokens * RateQ + l.age * RateP
<1>1. l.tokens \in Nat /\ l.tokens =< Burst /\ l.age \in Nat
  BY GaConstants DEF Limiter
<1>2. l.tokens * RateQ \in Nat /\ l.tokens * RateQ =< Burst * RateQ /\ l.age * RateP \in Nat
  BY <1>1, GaConstants, TimesMonotone
<1> QED
  BY <1>1, <1>2 DEF Worth

\* A limiter that is stale is worth a full one.
LEMMA StaleIsFull ==
    ASSUME NEW l \in Limiter, l.age > StaleAge
    PROVE  Worth(l) >= Envelope
<1>1. l.age \in Nat /\ StaleAge =< l.age /\ l.tokens * RateQ \in Nat
  BY GaConstants, WorthType
<1>2. StaleAge * RateP =< l.age * RateP /\ StaleAge * RateP \in Nat /\ l.age * RateP \in Nat
  BY <1>1, GaConstants, TimesMonotone, Zenon
<1>3. (Burst + 1) * RateQ = Burst * RateQ + RateQ
  BY GaConstants
<1>4. (Burst + 1) * RateQ =< StaleAge * RateP
  BY GaAssumption, Zenon
<1> QED
  BY <1>1, <1>2, <1>3, <1>4, GaConstants, WorthType

\* The refill of Allow adds nothing, and leaves no more than the envelope; a
\* bucket that is empty after it was so before, and for less than a token's time.
LEMMA RefilledEffect ==
    ASSUME NEW l \in Limiter
    PROVE  /\ Refilled(l) \in Limiter
           /\ Worth(Refilled(l)) =< Worth(l) /\ Worth(Refilled(l)) =< Envelope
           /\ Refilled(l).tokens = 0 => Refilled(l) = l /\ l.tokens = 0 /\ l.age * RateP < RateQ
<1> DEFINE x == l.age * RateP
           d == Refill(l)
           t == Lesser(Burst, l.tokens + d)
<1>1. x \in Nat /\ l.tokens \in Nat /\ l.tokens =< Burst
  BY WorthType, Zenon
<1>2. d \in Nat /\ d * RateQ =< x /\ (d = 0 => x < RateQ)
  BY <1>1, GaConstants, RefillWorth, Zenon DEF Refill
<1>3. CASE d = 0
  <2>1. Refilled(l) = l
    BY <1>3 DEF Refilled
  <2> QED
    BY <1>2, <1>3, <2>1, WorthType, GaConstants
<1>4. CASE d > 0
  <2>1. Refilled(l) = [tokens |-> t, age |-> 0]
    BY <1>4, Zenon DEF Refilled
  <2>2. t \in Nat /\ t =< Burst /\ t =< l.tokens + d /\ t > 0
    BY <1>1, <1>2, <1>4, GaConstants DEF Lesser
  <2> HIDE DEF t, d
  <2>3. Refilled(l) \in Limiter /\ Refilled(l).tokens = t /\ Refilled(l).age = 0
    BY <2>1, <2>2 DEF Limiter
  <2>4. Worth(Refilled(l)) = t * RateQ
    BY <2>2, <2>3, GaConstants, WorthType
  <2>5. t * RateQ =< (l.tokens + d) * RateQ
    BY <1>1, <1>2, <2>2, GaConstants, TimesMonotone
  <2>6. (l.tokens + d) * RateQ = l.tokens * RateQ + d * RateQ /\ d * RateQ \in Nat
    BY <1>1, <1>2, GaConstants
  <2>7. t * RateQ =< Burst * RateQ
    BY <2>2, GaConstants, TimesMonotone, Zenon
  <2>8. Worth(l) = l.tokens * RateQ + x /\ l.tokens * RateQ \in Nat
    BY WorthType, Zenon
  <2>9. Worth(Refilled(l)) \in Nat /\ Worth(l) \in Nat
    BY <2>3, WorthType, Zenon
  <2> HIDE DEF x
  <2>10. Worth(Refilled(l)) =< Worth(l)
    BY <1>1, <1>2, <2>4, <2>5, <2>6, <2>8, <2>9
  <2>11. Worth(Refilled(l)) =< Envelope
    BY <2>4, <2>7, <2>9, GaConstants
  <2> QED
    BY <2>2, <2>3, <2>10, <2>11
<1> QED
  BY <1>2, <1>3, <1>4

\* A token taken is worth RateQ.
LEMMA TakeWorth ==
    ASSUME NEW l \in Limiter, l.tokens > 0
    PROVE  /\ [l EXCEPT !.tokens = @ - 1] \in Limiter
           /\ Worth([l EXCEPT !.tokens = @ - 1]) = Worth(l) - RateQ
<1> DEFINE m == [l EXCEPT !.tokens = @ - 1]
<1>1. m \in Limiter /\ m.tokens = l.tokens - 1 /\ m.age = l.age
  BY GaConstants DEF Limiter
<1> HIDE DEF m
<1>2. (l.tokens - 1) * RateQ = l.tokens * RateQ - RateQ
  BY GaConstants, WorthType
<1>3. Worth(m) = (l.tokens - 1) * RateQ + l.age * RateP /\ Worth(l) = l.tokens * RateQ + l.age * RateP
  BY <1>1, Zenon DEF Worth
<1>4. Worth(m) = Worth(l) - RateQ
  BY <1>2, <1>3, GaConstants, WorthType
<1> QED
  BY <1>1, <1>4, Zenon DEF m

\* The clock is worth RateP.
LEMMA TickWorth ==
    ASSUME NEW l \in Limiter
    PROVE  LET m == [l EXCEPT !.age = Lesser(MaxAge, @ + 1)]
           IN  /\ m \in Limiter /\ m.tokens = l.tokens /\ m.age = Lesser(MaxAge, l.age + 1)
               /\ Worth(m) =< Worth(l) + RateP
<1> DEFINE m == [l EXCEPT !.age = Lesser(MaxAge, @ + 1)]
<1>1. m \in Limiter /\ m.tokens = l.tokens /\ m.age = Lesser(MaxAge, l.age + 1)
  BY GaConstants DEF Limiter, Lesser
<1>2. m.age \in Nat /\ m.age =< l.age + 1 /\ l.age \in Nat
  BY <1>1, GaConstants, WorthType DEF Lesser
<1> HIDE DEF m
<1>3. m.age * RateP =< (l.age + 1) * RateP
  BY <1>2, GaConstants, TimesMonotone
<1>4. (l.age + 1) * RateP = l.age * RateP + RateP
  BY <1>2, GaConstants
<1>5. Worth(m) =< Worth(l) + RateP
  BY <1>1, <1>3, <1>4, GaConstants, WorthType
<1> QED
  BY <1>1, <1>5, Zenon DEF m

\* There is always a limiter nobody holds for the next address.
LEMMA UnusedExists ==
    ASSUME GaShape, NEW c \in GaCall, gaCall[c].pc = "limit", gaMap[gaCall[c].addr] = 0
    PROVE  Unused \in Obj /\ ~Held(Unused)
<1> DEFINE N == Cardinality(Addr) + Cardinality(GaCall)
           M == {gaMap[b] : b \in Addr}
           K == {gaCall[d].obj : d \in GaCall}
           f == [b \in Addr |-> gaMap[b]]
           g == [d \in GaCall |-> gaCall[d].obj]
<1>1. IsFiniteSet(M) /\ Cardinality(M) =< Cardinality(Addr) /\ Cardinality(M) \in Nat
  <2>1. f \in Surjection(Addr, M)
    BY Zenon DEF Surjection
  <2> QED
    BY <2>1, GaAssumption, FS_Surjection, FS_CardinalityType, Zenon
<1>2. IsFiniteSet(K) /\ Cardinality(K) =< Cardinality(GaCall) /\ Cardinality(K) \in Nat
  <2>1. g \in Surjection(GaCall, K)
    BY Zenon DEF Surjection
  <2> QED
    BY <2>1, GaAssumption, FS_Surjection, FS_CardinalityType, Zenon
<1>3. 0 \in M /\ 0 \in K
  BY Zenon DEF GaShape
<1>4. SUFFICES ASSUME \A i \in Obj : Held(i) PROVE FALSE
  BY Zenon DEF Unused
<1>5. Obj \subseteq M \cup K
  BY <1>4, Zenon DEF Held
<1>6. Obj = 1..N /\ N \in Nat
  BY GaConstants DEF Obj
<1> HIDE DEF M, K, N
<1>7. IsFiniteSet(M \cup K) /\ Cardinality(M \cup K) = Cardinality(M) + Cardinality(K) - Cardinality(M \cap K)
  BY <1>1, <1>2, FS_Union, Zenon
<1>8. Cardinality(M \cap K) >= 1
  <2>1. IsFiniteSet(M \cap K)
    BY <1>1, FS_Intersection, Zenon
  <2>2. M \cap K # {}
    BY <1>3, Zenon
  <2> QED
    BY <2>1, <2>2, FS_EmptySet, FS_CardinalityType
<1>9. Cardinality(Obj) = N
  BY <1>6, FS_Interval
<1>10. Cardinality(Obj) =< Cardinality(M \cup K)
  BY <1>5, <1>7, FS_Subset, Zenon
<1>11. Cardinality(M \cap K) \in Nat
  BY <1>1, FS_Intersection, FS_CardinalityType, Zenon
<1> QED
  BY <1>1, <1>2, <1>7, <1>8, <1>9, <1>10, <1>11, GaConstants DEF N


GaInv == GaShape /\ OneAddress /\ EnvelopeCovers /\ SinceRefill /\ ~gaStarved

LEMMA ObjType == Obj \subseteq Nat \ {0}
BY GaConstants DEF Obj

LEMMA GateInit == GaInit => GaInv
<1> SUFFICES ASSUME GaInit PROVE GaInv
  BY Zenon
<1>1. GaShape
  <2>1. NoGate \in GateCall /\ NoGate.pc = "idle" /\ NoGate.obj = 0
    BY Zenon DEF NoGate, GateCall
  <2>2. [tokens |-> 0, age |-> 0] \in Limiter
    BY GaConstants DEF Limiter
  <2> QED
    BY <2>1, <2>2, GaConstants DEF GaInit, GaShape
<1>2. \A i \in Obj, a \in Addr : ~HeldFor(i, a)
  BY ObjType, Zenon DEF GaInit, HeldFor, NoGate
<1> QED
  BY <1>1, <1>2, GaConstants DEF GaInv, GaInit, OneAddress, EnvelopeCovers, SinceRefill

\* A step of one request.
LEMMA CallMoves ==
    ASSUME GaShape, NEW c \in GaCall, NEW r \in GateCall, gaCall' = [gaCall EXCEPT ![c] = r],
           r.pc \in {"limit", "allow"} => r.addr \in Addr, r.pc = "allow" <=> r.obj # 0
    PROVE  /\ gaCall' \in [GaCall -> GateCall]
           /\ gaCall'[c] = r /\ \A d \in GaCall \ {c} : gaCall'[d] = gaCall[d]
           /\ \A d \in GaCall : /\ gaCall'[d].pc = "limit" => gaCall'[d].addr \in Addr
                                /\ gaCall'[d].pc = "allow" => gaCall'[d].addr \in Addr /\ gaCall'[d].obj # 0
                                /\ gaCall'[d].pc # "allow" => gaCall'[d].obj = 0
BY Zenon DEF GaShape

\* A request that forgets its limiter, or has none.
LEMMA CallForgets ==
    ASSUME GaShape, NEW c \in GaCall, NEW r \in GateCall, gaCall' = [gaCall EXCEPT ![c] = r],
           r.pc = "limit" => r.addr \in Addr, r.pc # "allow", r.obj = 0,
           \A a \in Addr : gaMap'[a] = gaMap[a]
    PROVE  \A i \in Obj, a \in Addr : HeldFor(i, a)' => HeldFor(i, a)
<1>1. gaCall'[c] = r /\ \A d \in GaCall \ {c} : gaCall'[d] = gaCall[d]
  BY Zenon DEF GaShape
<1> QED
  BY <1>1, ObjType DEF HeldFor

LEMMA GateStep == GaInv /\ [GaNext]_gaVars => GaInv'
<1> SUFFICES ASSUME GaInv, [GaNext]_gaVars PROVE GaInv'
  BY Zenon
<1>s. GaShape /\ OneAddress /\ EnvelopeCovers /\ SinceRefill /\ ~gaStarved
  BY Zenon DEF GaInv
<1>n. NoGate \in GateCall /\ NoGate.pc = "idle" /\ NoGate.obj = 0
  BY Zenon DEF NoGate, GateCall
\* A step that changes no limiter and takes none.
<1>f. ASSUME NEW c \in GaCall, NEW r \in GateCall, gaCall' = [gaCall EXCEPT ![c] = r],
             r.pc = "limit" => r.addr \in Addr, r.pc # "allow", r.obj = 0,
             UNCHANGED <<gaObj, gaMap, gaIdeal, gaSince, gaStarved>>
      PROVE  GaInv'
  <2>1. \A i \in Obj, a \in Addr : HeldFor(i, a)' => HeldFor(i, a)
    BY <1>f, <1>s, CallForgets, Zenon
  <2>2. GaShape'
    BY <1>f, <1>s, CallMoves, Zenon DEF GaShape
  <2>3. OneAddress'
    BY <1>s, <2>1, Zenon DEF OneAddress
  <2>4. EnvelopeCovers'
    BY <1>f, <1>s, Zenon DEF EnvelopeCovers
  <2>5. SinceRefill'
    BY <1>f, <1>s, <2>1, Zenon DEF SinceRefill
  <2> QED
    BY <1>f, <1>s, <2>2, <2>3, <2>4, <2>5, Zenon DEF GaInv
<1>d. ASSUME NEW c \in GaCall, NEW a \in Addr \cup {"none"}, NEW e \in Event, Denied(c, a, e),
             UNCHANGED <<gaObj, gaMap, gaIdeal, gaSince, gaStarved>>
      PROVE  GaInv'
  <2> DEFINE r == [NoGate EXCEPT !.pc = "log", !.addr = a, !.event = e]
  <2>1. r \in GateCall /\ r.pc = "log" /\ r.obj = 0
    BY Zenon DEF NoGate, GateCall
  <2>2. gaCall' = [gaCall EXCEPT ![c] = r]
    BY <1>d, Zenon DEF Denied
  <2> HIDE DEF r
  <2> QED
    BY <1>d, <1>f, <2>1, <2>2, Zenon
<1>1. ASSUME NEW c \in GaCall, NEW a \in Addr, NEW t \in Conn, WrapSecurity(c, a, t) PROVE GaInv'
  <2>1. UNCHANGED <<gaObj, gaMap, gaIdeal, gaSince, gaStarved>>
    BY <1>1, Zenon DEF WrapSecurity
  <2> DEFINE r == [NoGate EXCEPT !.pc = "limit", !.addr = a]
  <2>2. \/ Denied(c, a, "network_blocked") \/ Denied(c, a, "tls_violation")
        \/ gaCall' = [gaCall EXCEPT ![c] = r]
    BY <1>1, Zenon DEF WrapSecurity
  <2>3. r \in GateCall /\ r.pc = "limit" /\ r.obj = 0 /\ r.addr = a
    BY Zenon DEF NoGate, GateCall
  <2> HIDE DEF r
  <2>4. CASE gaCall' = [gaCall EXCEPT ![c] = r]
    BY <2>1, <2>3, <2>4, <1>f, Zenon
  <2> QED
    BY <2>1, <2>2, <2>4, <1>d, Zenon DEF Event
<1>2. ASSUME NEW c \in GaCall, LogEvent(c) PROVE GaInv'
  BY <1>2, <1>f, <1>n, Zenon DEF LogEvent
<1>3. ASSUME NEW c \in GaCall, NEW p \in Policy, EnforcePolicy(c, p) PROVE GaInv'
  BY <1>3, <1>d, Zenon DEF EnforcePolicy, Event
<1>4. ASSUME UNCHANGED <<gaObj, gaMap, gaCall, gaIdeal, gaSince, gaStarved>> PROVE GaInv'
  <2>1. \A i, a : HeldFor(i, a)' <=> HeldFor(i, a)
    BY <1>4, Zenon DEF HeldFor
  <2> QED
    BY <1>4, <1>s, <2>1, Zenon DEF GaInv, GaShape, OneAddress, EnvelopeCovers, SinceRefill
<1>5. ASSUME NEW p \in Policy, NEW act \in Action \cup {"none"}, SetPolicy(p, act) PROVE GaInv'
  BY <1>4, <1>5, Zenon DEF SetPolicy
<1>6. ASSUME NEW c \in GaCall, TakeLimiter(c) PROVE GaInv'
  <2> DEFINE a == gaCall[c].addr
             i == IF gaMap[a] = 0 THEN Unused ELSE gaMap[a]
             r == [gaCall[c] EXCEPT !.pc = "allow", !.obj = i]
  <2>1. /\ gaCall[c].pc = "limit" /\ gaCall' = [gaCall EXCEPT ![c] = r]
        /\ gaMap' = [gaMap EXCEPT ![a] = i]
        /\ gaObj' = IF gaMap[a] = 0 THEN [gaObj EXCEPT ![i] = NewRateLimiter] ELSE gaObj
        /\ UNCHANGED <<gaIdeal, gaSince, gaStarved>>
    BY <1>6, Zenon DEF TakeLimiter
  <2>2. PICK b \in Addr : b = a
    BY <1>s, <2>1, Zenon DEF GaShape
  <2>3. PICK j \in Obj : j = i
    BY <1>s, <2>1, <2>2, UnusedExists, Zenon DEF GaShape
  <2>4. gaMap[b] = 0 => ~Held(j)
    BY <1>s, <2>1, <2>2, <2>3, UnusedExists, Zenon
  <2>5. gaMap[b] # 0 => j = gaMap[b]
    BY <2>2, <2>3, Zenon
  <2>6. PICK s \in GateCall : s = r /\ s.pc = "allow" /\ s.obj = j /\ s.addr = b
    <3>1. gaCall[c] \in GateCall
      BY <1>s, Zenon DEF GaShape
    <3> DEFINE r1 == [gaCall[c] EXCEPT !.pc = "allow"]
               r2 == [r1 EXCEPT !.obj = j]
    <3>2. r1 \in GateCall /\ r1.pc = "allow" /\ r1.addr = b
      BY <3>1, <2>2, Zenon DEF GateCall
    <3>3. r2 = r
      BY <2>3, Zenon
    <3> HIDE DEF r1, r
    <3>4. r2 \in GateCall /\ r2.pc = "allow" /\ r2.obj = j /\ r2.addr = b
      BY <3>2, Zenon DEF GateCall
    <3> QED
      BY <3>3, <3>4, Zenon
  <2>7. /\ gaCall' = [gaCall EXCEPT ![c] = s] /\ gaMap' = [gaMap EXCEPT ![b] = j]
        /\ gaObj' = IF gaMap[b] = 0 THEN [gaObj EXCEPT ![j] = NewRateLimiter] ELSE gaObj
    BY <2>1, <2>2, <2>3, <2>6, Zenon
  <2> HIDE DEF a, i, r
  <2>8. j # 0 /\ NewRateLimiter \in Limiter /\ NewRateLimiter.tokens = Burst
    BY ObjType, GaConstants DEF NewRateLimiter, Limiter
  <2>9. /\ gaCall' \in [GaCall -> GateCall]
        /\ gaCall'[c] = s /\ \A d \in GaCall \ {c} : gaCall'[d] = gaCall[d]
        /\ \A d \in GaCall : /\ gaCall'[d].pc = "limit" => gaCall'[d].addr \in Addr
                             /\ gaCall'[d].pc = "allow" => gaCall'[d].addr \in Addr /\ gaCall'[d].obj # 0
                             /\ gaCall'[d].pc # "allow" => gaCall'[d].obj = 0
    BY <1>s, <2>6, <2>7, <2>8, CallMoves, Zenon
  <2>10. /\ gaMap' \in [Addr -> Obj \cup {0}] /\ gaMap'[b] = j
         /\ \A x \in Addr \ {b} : gaMap'[x] = gaMap[x]
    BY <1>s, <2>7, Zenon DEF GaShape
  <2>11. /\ gaObj' \in [Obj -> Limiter] /\ (gaMap[b] = 0 => gaObj'[j] = NewRateLimiter)
         /\ \A k \in Obj : k # j \/ gaMap[b] # 0 => gaObj'[k] = gaObj[k]
    BY <1>s, <2>7, <2>8, Zenon DEF GaShape
  <2>12. GaShape'
    BY <1>s, <2>1, <2>9, <2>10, <2>11, Zenon DEF GaShape
  <2>13. \A k \in Obj, x \in Addr : HeldFor(k, x)' => HeldFor(k, x) \/ (k = j /\ x = b)
    BY <2>6, <2>9, <2>10, Zenon DEF HeldFor
  <2>14. CASE gaMap[b] # 0
    <3>1. HeldFor(j, b)
      BY <2>5, <2>14, Zenon DEF HeldFor
    <3>2. \A k \in Obj, x \in Addr : HeldFor(k, x)' => HeldFor(k, x)
      BY <2>13, <3>1, Zenon
    <3>3. gaObj' = gaObj /\ \A x \in Addr : gaMap'[x] = gaMap[x]
      BY <2>5, <2>7, <2>10, <2>14, Zenon
    <3>4. OneAddress'
      BY <1>s, <3>2, Zenon DEF OneAddress
    <3>5. EnvelopeCovers'
      BY <1>s, <2>1, <3>3, Zenon DEF EnvelopeCovers
    <3>6. SinceRefill'
      BY <1>s, <2>1, <3>2, <3>3, Zenon DEF SinceRefill
    <3> QED
      BY <1>s, <2>1, <2>12, <3>4, <3>5, <3>6, Zenon DEF GaInv
  <2>15. CASE gaMap[b] = 0
    <3>1. \A x \in Addr : ~HeldFor(j, x) /\ gaMap[x] # j
      BY <2>4, <2>15, Zenon DEF Held, HeldFor
    <3>2. OneAddress'
      <4>1. ASSUME NEW k \in Obj, NEW x \in Addr, NEW y \in Addr, HeldFor(k, x)', HeldFor(k, y)'
            PROVE  x = y
        BY <1>s, <2>13, <3>1, <4>1, Zenon DEF OneAddress
      <4> QED
        BY <4>1, Zenon DEF OneAddress
    <3>3. EnvelopeCovers'
      <4>1. ASSUME NEW x \in Addr, x # b
            PROVE  /\ gaMap'[x] = 0 => gaIdeal'[x] >= Envelope
                   /\ gaMap'[x] # 0 => gaIdeal'[x] >= Envelope \/ gaIdeal'[x] >= Worth(gaObj'[gaMap'[x]])
        <5>1. gaMap'[x] = gaMap[x] /\ (gaMap[x] # 0 => gaObj'[gaMap[x]] = gaObj[gaMap[x]])
          BY <1>s, <2>10, <2>11, <3>1, <4>1, Zenon DEF GaShape
        <5> QED
          BY <1>s, <2>1, <5>1, Zenon DEF EnvelopeCovers
      <4>2. gaIdeal'[b] >= Envelope /\ gaMap'[b] # 0
        BY <1>s, <2>1, <2>8, <2>10, <2>15, Zenon DEF EnvelopeCovers
      <4> QED
        BY <4>1, <4>2, Zenon DEF EnvelopeCovers, Worth
    <3>4. SinceRefill'
      <4>1. ASSUME NEW k \in Obj, NEW x \in Addr, HeldFor(k, x)'
            PROVE  gaObj'[k].tokens = Burst \/ gaSince'[x] =< gaObj'[k].age
        <5>1. CASE k = j
          BY <2>8, <2>11, <2>15, <5>1, Zenon
        <5>2. CASE k # j
          BY <1>s, <2>1, <2>11, <2>13, <4>1, <5>2, Zenon DEF SinceRefill
        <5> QED
          BY <5>1, <5>2, Zenon
      <4> QED
        BY <4>1, Zenon DEF SinceRefill
    <3> QED
      BY <1>s, <2>1, <2>12, <3>2, <3>3, <3>4, Zenon DEF GaInv
  <2> QED
    BY <2>14, <2>15, Zenon
<1>7. ASSUME NEW c \in GaCall, Allow(c) PROVE GaInv'
  <2>1. gaCall[c].pc = "allow" /\ gaMap' = gaMap
    BY <1>7, Zenon DEF Allow
  <2>2. PICK a \in Addr, i \in Obj : a = gaCall[c].addr /\ i = gaCall[c].obj
    <3>1. gaCall[c] \in GateCall
      BY <1>s, Zenon DEF GaShape
    <3> QED
      BY <1>s, <2>1, <3>1, Zenon DEF GaShape, GateCall
  <2>3. HeldFor(i, a) /\ i # 0
    BY <2>2, ObjType, Zenon DEF HeldFor
  <2>4. PICK l \in Limiter : l = Refilled(gaObj[i])
    BY <1>s, RefilledEffect, Zenon DEF GaShape
  <2>5. /\ Worth(l) =< Worth(gaObj[i]) /\ Worth(l) =< Envelope
        /\ l.tokens = 0 => l = gaObj[i] /\ gaObj[i].tokens = 0 /\ gaObj[i].age * RateP < RateQ
        /\ gaObj[i] \in Limiter
    BY <1>s, <2>4, RefilledEffect, Zenon DEF GaShape
  <2>6. l.tokens \in Nat
    BY WorthType, Zenon
  <2>7. CASE l.tokens > 0
    <3> DEFINE m == [l EXCEPT !.tokens = @ - 1]
    <3>1. /\ gaObj' = [gaObj EXCEPT ![i] = m] /\ gaCall' = [gaCall EXCEPT ![c] = NoGate]
          /\ gaIdeal' = IF gaMap[a] = i THEN [gaIdeal EXCEPT ![a] = @ - RateQ] ELSE gaIdeal
          /\ gaSince' = [gaSince EXCEPT ![a] = 0]
          /\ UNCHANGED gaStarved
      BY <1>7, <2>2, <2>4, <2>7, Zenon DEF Allow
    <3>2. m \in Limiter /\ Worth(m) = Worth(l) - RateQ
      BY <2>7, TakeWorth, Zenon
    <3> HIDE DEF m
    <3>3. /\ gaObj' \in [Obj -> Limiter] /\ gaObj'[i] = m
          /\ \A k \in Obj \ {i} : gaObj'[k] = gaObj[k]
      BY <1>s, <3>1, <3>2, Zenon DEF GaShape
    <3>4. /\ gaIdeal' \in [Addr -> Int]
          /\ \A b \in Addr : b # a \/ gaMap[a] # i => gaIdeal'[b] = gaIdeal[b]
          /\ gaMap[a] = i => gaIdeal'[a] = gaIdeal[a] - RateQ
      BY <1>s, <3>1, GaConstants DEF GaShape
    <3>5. /\ gaSince' \in [Addr -> Nat] /\ gaSince'[a] = 0
          /\ \A b \in Addr \ {a} : gaSince'[b] = gaSince[b]
      BY <1>s, <3>1, Zenon DEF GaShape
    <3>6. \A k \in Obj, b \in Addr : HeldFor(k, b)' => HeldFor(k, b)
      BY <1>s, <1>n, <2>1, <3>1, CallForgets, Zenon
    <3>7. GaShape'
      BY <1>s, <1>n, <2>1, <3>1, <3>3, <3>4, <3>5, CallMoves, Zenon DEF GaShape
    <3>8. OneAddress'
      BY <1>s, <3>6, Zenon DEF OneAddress
    <3>9. EnvelopeCovers'
      <4>1. ASSUME NEW b \in Addr, gaMap[b] = 0 PROVE gaIdeal'[b] >= Envelope
        BY <1>s, <2>3, <3>4, <4>1, Zenon DEF EnvelopeCovers
      <4>2. ASSUME NEW b \in Addr, gaMap[b] # 0, gaMap[b] # i
            PROVE  gaIdeal'[b] >= Envelope \/ gaIdeal'[b] >= Worth(gaObj'[gaMap[b]])
        <5>1. gaIdeal'[b] = gaIdeal[b] /\ gaObj'[gaMap[b]] = gaObj[gaMap[b]]
          BY <1>s, <3>3, <3>4, <4>2, Zenon DEF GaShape
        <5> QED
          BY <1>s, <4>2, <5>1, Zenon DEF EnvelopeCovers
      <4>3. ASSUME NEW b \in Addr, gaMap[b] = i PROVE gaIdeal'[b] >= Worth(gaObj'[gaMap[b]])
        <5>1. b = a
          BY <1>s, <2>3, <4>3, Zenon DEF OneAddress, HeldFor
        <5>2. gaIdeal'[b] = gaIdeal[b] - RateQ /\ gaIdeal[b] \in Int
          BY <1>s, <3>4, <4>3, <5>1, Zenon DEF GaShape
        <5>3. gaIdeal[b] >= Envelope \/ gaIdeal[b] >= Worth(gaObj[i])
          BY <1>s, <2>3, <4>3, Zenon DEF EnvelopeCovers
        <5>4. Worth(l) \in Nat /\ Worth(gaObj[i]) \in Nat
          BY <2>5, WorthType, Zenon
        <5> QED
          BY <2>5, <3>2, <3>3, <4>3, <5>2, <5>3, <5>4, GaConstants
      <4> QED
        BY <2>1, <4>1, <4>2, <4>3, Zenon DEF EnvelopeCovers
    <3>10. SinceRefill'
      <4>1. ASSUME NEW k \in Obj, NEW b \in Addr, HeldFor(k, b)'
            PROVE  gaObj'[k].tokens = Burst \/ gaSince'[b] =< gaObj'[k].age
        <5>1. CASE b = a
          <6>1. gaObj'[k].age \in Nat
            BY <3>3, WorthType, Zenon
          <6> QED
            BY <3>5, <5>1, <6>1
        <5>2. CASE b # a
          <6>1. k # i
            BY <1>s, <2>3, <3>6, <4>1, <5>2, Zenon DEF OneAddress
          <6> QED
            BY <1>s, <3>3, <3>5, <3>6, <4>1, <5>2, <6>1, Zenon DEF SinceRefill
        <5> QED
          BY <5>1, <5>2, Zenon
      <4> QED
        BY <4>1, Zenon DEF SinceRefill
    <3> QED
      BY <1>s, <3>1, <3>7, <3>8, <3>9, <3>10, Zenon DEF GaInv
  <2>8. CASE l.tokens = 0
    <3>1. /\ gaObj' = [gaObj EXCEPT ![i] = l] /\ Denied(c, a, "rate_limit_exceeded")
          /\ gaStarved' = (gaStarved \/ gaSince[a] * RateP >= RateQ)
          /\ UNCHANGED <<gaIdeal, gaSince>>
      BY <1>7, <2>2, <2>4, <2>8 DEF Allow
    <3>2. gaObj' = gaObj
      BY <1>s, <2>5, <2>8, <3>1, Zenon DEF GaShape
    <3>3. gaSince[a] =< gaObj[i].age /\ gaSince[a] \in Nat /\ gaObj[i].age \in Nat
      BY <1>s, <2>3, <2>5, <2>8, GaConstants, WorthType, Zenon DEF SinceRefill, GaShape
    <3>4. gaSince[a] * RateP =< gaObj[i].age * RateP /\ gaSince[a] * RateP \in Nat /\ gaObj[i].age * RateP \in Nat
      BY <3>3, GaConstants, TimesMonotone, Zenon
    <3>5. ~(gaSince[a] * RateP >= RateQ)
      BY <2>5, <2>8, <3>4, GaConstants
    <3>6. ~gaStarved'
      BY <1>s, <3>1, <3>5, Zenon
    <3>7. UNCHANGED <<gaObj, gaMap, gaIdeal, gaSince>>
      BY <2>1, <3>1, <3>2, Zenon
    <3> DEFINE r == [NoGate EXCEPT !.pc = "log", !.addr = a, !.event = "rate_limit_exceeded"]
    <3>8. r \in GateCall /\ r.pc = "log" /\ r.obj = 0
      BY Zenon DEF NoGate, GateCall, Event
    <3>9. gaCall' = [gaCall EXCEPT ![c] = r]
      BY <3>1, Zenon DEF Denied
    <3> HIDE DEF r
    <3>10. \A k \in Obj, b \in Addr : HeldFor(k, b)' => HeldFor(k, b)
      BY <1>s, <3>7, <3>8, <3>9, CallForgets, Zenon
    <3>11. GaShape'
      BY <1>s, <3>7, <3>8, <3>9, CallMoves, Zenon DEF GaShape
    <3>12. OneAddress'
      BY <1>s, <3>10, Zenon DEF OneAddress
    <3>13. EnvelopeCovers'
      BY <1>s, <3>7, Zenon DEF EnvelopeCovers
    <3>14. SinceRefill'
      BY <1>s, <3>7, <3>10, Zenon DEF SinceRefill
    <3> QED
      BY <3>6, <3>11, <3>12, <3>13, <3>14, Zenon DEF GaInv
  <2> QED
    BY <2>6, <2>7, <2>8
<1>8. CASE CleanupRateLimiters
  <2>1. /\ gaMap' = [a \in Addr |-> IF gaMap[a] # 0 /\ Stale(gaObj[gaMap[a]]) THEN 0 ELSE gaMap[a]]
        /\ UNCHANGED <<gaObj, gaCall, gaIdeal, gaSince, gaStarved>>
    BY <1>8, Zenon DEF CleanupRateLimiters
  <2>2. \A a \in Addr : gaMap'[a] \in {gaMap[a], 0}
    BY <2>1, Zenon
  <2>3. \A k \in Obj, b \in Addr : HeldFor(k, b)' => HeldFor(k, b)
    BY <2>1, <2>2, ObjType, Zenon DEF HeldFor
  <2>4. GaShape'
    BY <1>s, <2>1, Zenon DEF GaShape
  <2>5. OneAddress'
    BY <1>s, <2>3, Zenon DEF OneAddress
  <2>6. EnvelopeCovers'
    <3>1. ASSUME NEW a \in Addr, gaMap'[a] = 0 PROVE gaIdeal[a] >= Envelope
      <4>1. CASE gaMap[a] = 0
        BY <1>s, <4>1, Zenon DEF EnvelopeCovers
      <4>2. CASE gaMap[a] # 0
        <5>1. gaMap[a] \in Obj /\ gaObj[gaMap[a]] \in Limiter
          BY <1>s, <4>2, Zenon DEF GaShape
        <5>2. gaObj[gaMap[a]].age > StaleAge
          BY <2>1, <3>1, <4>2, Zenon DEF Stale
        <5>3. Worth(gaObj[gaMap[a]]) >= Envelope
          BY <5>1, <5>2, StaleIsFull, Zenon
        <5>4. Worth(gaObj[gaMap[a]]) \in Nat /\ gaIdeal[a] \in Int
          BY <1>s, <5>1, WorthType, Zenon DEF GaShape
        <5> QED
          BY <1>s, <4>2, <5>3, <5>4, GaConstants DEF EnvelopeCovers
      <4> QED
        BY <4>1, <4>2, Zenon
    <3> QED
      BY <1>s, <2>1, <2>2, <3>1, Zenon DEF EnvelopeCovers
  <2>7. SinceRefill'
    BY <1>s, <2>1, <2>3, Zenon DEF SinceRefill
  <2> QED
    BY <1>s, <2>1, <2>4, <2>5, <2>6, <2>7, Zenon DEF GaInv
<1>9. CASE GaTick
  <2>1. /\ gaObj' = [i \in Obj |-> IF Held(i) THEN [gaObj[i] EXCEPT !.age = Lesser(MaxAge, @ + 1)]
                                   ELSE [tokens |-> 0, age |-> 0]]
        /\ gaIdeal' = [a \in Addr |-> Lesser(Envelope, gaIdeal[a] + RateP)]
        /\ gaSince' = [a \in Addr |-> Lesser(MaxAge, gaSince[a] + 1)]
        /\ UNCHANGED <<gaMap, gaCall, gaStarved>>
    BY <1>9, Zenon DEF GaTick
  <2>2. \A k \in Obj, b \in Addr : HeldFor(k, b)' => HeldFor(k, b) /\ Held(k)
    BY <2>1, Zenon DEF HeldFor, Held
  <2>3. ASSUME NEW i \in Obj, Held(i)
        PROVE  /\ gaObj'[i] \in Limiter /\ gaObj'[i].tokens = gaObj[i].tokens
               /\ gaObj'[i].age = Lesser(MaxAge, gaObj[i].age + 1)
               /\ Worth(gaObj'[i]) =< Worth(gaObj[i]) + RateP
    <3>1. gaObj[i] \in Limiter
      BY <1>s, Zenon DEF GaShape
    <3>2. gaObj'[i] = [gaObj[i] EXCEPT !.age = Lesser(MaxAge, @ + 1)]
      BY <2>1, <2>3, Zenon
    <3> QED
      BY <3>1, <3>2, TickWorth, Zenon
  <2>4. gaObj' \in [Obj -> Limiter]
    <3>1. [tokens |-> 0, age |-> 0] \in Limiter
      BY GaConstants DEF Limiter
    <3>2. \A i \in Obj : gaObj'[i] \in Limiter
      BY <2>1, <2>3, <3>1, Zenon
    <3> QED
      BY <2>1, <3>2, Zenon
  <2>5. gaIdeal' \in [Addr -> Int] /\ gaSince' \in [Addr -> Nat]
    BY <1>s, <2>1, GaConstants DEF GaShape, Lesser
  <2>6. GaShape'
    BY <1>s, <2>1, <2>4, <2>5, Zenon DEF GaShape
  <2>7. OneAddress'
    BY <1>s, <2>2, Zenon DEF OneAddress
  <2>8. EnvelopeCovers'
    <3>1. ASSUME NEW a \in Addr, gaIdeal[a] >= Envelope PROVE gaIdeal'[a] >= Envelope
      BY <1>s, <2>1, <3>1, GaConstants DEF GaShape, Lesser
    <3>2. ASSUME NEW a \in Addr, gaMap[a] # 0, gaIdeal[a] >= Worth(gaObj[gaMap[a]])
          PROVE  gaIdeal'[a] >= Envelope \/ gaIdeal'[a] >= Worth(gaObj'[gaMap[a]])
      <4>1. gaMap[a] \in Obj /\ Held(gaMap[a]) /\ gaIdeal[a] \in Int
        BY <1>s, <3>2, Zenon DEF GaShape, Held
      <4>2. Worth(gaObj[gaMap[a]]) \in Nat /\ Worth(gaObj'[gaMap[a]]) \in Nat
        BY <1>s, <2>4, <4>1, WorthType, Zenon DEF GaShape
      <4>3. Worth(gaObj'[gaMap[a]]) =< Worth(gaObj[gaMap[a]]) + RateP
        BY <2>3, <4>1, Zenon
      <4>4. gaIdeal'[a] = Envelope \/ gaIdeal'[a] = gaIdeal[a] + RateP
        BY <2>1, Zenon DEF Lesser
      <4> QED
        BY <3>2, <4>1, <4>2, <4>3, <4>4, GaConstants
    <3> QED
      BY <1>s, <2>1, <3>1, <3>2, Zenon DEF EnvelopeCovers
  <2>9. SinceRefill'
    <3>1. ASSUME NEW k \in Obj, NEW b \in Addr, HeldFor(k, b)'
          PROVE  gaObj'[k].tokens = Burst \/ gaSince'[b] =< gaObj'[k].age
      <4>1. gaObj'[k].tokens = gaObj[k].tokens /\ gaObj'[k].age = Lesser(MaxAge, gaObj[k].age + 1)
        BY <2>2, <2>3, <3>1, Zenon
      <4>2. gaSince'[b] = Lesser(MaxAge, gaSince[b] + 1)
        BY <2>1, Zenon
      <4>3. gaObj[k].age \in Nat /\ gaSince[b] \in Nat
        BY <1>s, WorthType, Zenon DEF GaShape
      <4>4. gaObj[k].tokens = Burst \/ gaSince[b] =< gaObj[k].age
        BY <1>s, <2>2, <3>1, Zenon DEF SinceRefill
      <4> QED
        BY <4>1, <4>2, <4>3, <4>4, GaConstants DEF Lesser
    <3> QED
      BY <3>1, Zenon DEF SinceRefill
  <2> QED
    BY <1>s, <2>1, <2>6, <2>7, <2>8, <2>9, Zenon DEF GaInv
<1>10. CASE UNCHANGED gaVars
  BY <1>4, <1>10, Zenon DEF gaVars
<1> QED
  BY <1>1, <1>2, <1>3, <1>5, <1>6, <1>7, <1>8, <1>9, <1>10, Zenon DEF GaNext

\* Allow admits no more than the rate and the burst, however requests, cleanups
\* and new limiters interleave, and never refuses an address that has waited the
\* time of a token since it was last admitted.
THEOREM RateLimitExact == GaSpec => []RateExact
<1>1. GaInit => GaInv
  BY GateInit, Zenon
<1>2. GaInv /\ [GaNext]_gaVars => GaInv'
  BY GateStep, Zenon
<1>3. GaInv => RateExact
  <2> SUFFICES ASSUME GaInv, NEW a \in Addr PROVE gaIdeal[a] >= 0
    BY Zenon DEF RateExact, RateBounded, NeverStarved, GaInv
  <2>1. gaIdeal[a] \in Int /\ (gaMap[a] # 0 => gaMap[a] \in Obj /\ gaObj[gaMap[a]] \in Limiter)
    BY Zenon DEF GaInv, GaShape
  <2>2. gaMap[a] # 0 => Worth(gaObj[gaMap[a]]) \in Nat
    BY <2>1, WorthType, Zenon
  <2> QED
    BY <2>1, <2>2, GaConstants DEF GaInv, EnvelopeCovers
<1> QED
  BY <1>1, <1>2, <1>3, PTL DEF GaSpec
=============================================================================
