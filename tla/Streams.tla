------------------------------ MODULE Streams ------------------------------
(***************************************************************************)
(* Raw TCP and UDP tunnels: src/GoTunnel/internal/relay/tcp.go and udp.go  *)
(* at the relay, internal/client/tcp.go, udp.go and quic.go at the daemon. *)
(* One TCP tunnel with several public connections, one UDP tunnel with     *)
(* several datagrams.                                                      *)
(*                                                                         *)
(* The relay turns a public connection into events (open, data, close) for *)
(* the client that registered the tunnel first.  A daemon either polls the *)
(* queue of events, one reply at a time, or has a QUIC stream; with QUIC   *)
(* an event that finds QUICSend full goes to the queue, which that daemon  *)
(* never polls.  The daemon answers with chunks.  stTaint holds the        *)
(* connections of which something was lost on the way.                     *)
(***************************************************************************)
EXTENDS Naturals, Sequences, FiniteSets

CONSTANTS TcpConn,      \* public TCP connections
          MaxData,      \* data read from each end of a connection
          QueueCap,     \* capacity of the queues of events
          QuicCap,      \* capacity of QUICSend
          MaxTcpLoss,   \* bound on polls and posts that are lost
          MayRestart,   \* whether the daemon is restarted once
          Datagram,     \* public datagrams, 1..n in the order they arrive
          PeerOf        \* PeerOf[k]: who sent datagram k

ASSUME StAssumption == /\ {MaxData, MaxTcpLoss} \subseteq Nat /\ MayRestart \in BOOLEAN
                       /\ {QueueCap, QuicCap} \subseteq Nat \ {0}
                       /\ Datagram \subseteq Nat \ {0}

VARIABLES stQuic,       \* the daemon has a QUIC session
          stPub,        \* stPub[c]: the public connection and its reader
          stQueue,      \* queues[clientID] of the tunnel
          stSend,       \* QUICSend and the stream it feeds
          stHand,       \* the event the daemon's loop works on
          stLocal,      \* stLocal[c]: the local connection and its reader
          stBack,       \* chunks on the QUIC stream to the relay
          stGot,        \* stGot[c]: data written to the local connection
          stRecv,       \* stRecv[c]: data written to the public connection
          stTaint, stLoss,
          stGone,       \* the daemon was restarted: its client has no queue
          udQueue,      \* queue of datagrams
          udHand,       \* datagram the daemon waits for an answer to, 0: none
          udAsked,      \* datagrams the backend has not answered
          udSock,       \* answers in the daemon's socket
          udOut,        \* answers sent to the public
          udNext,       \* datagrams that have arrived
          udLate        \* an answer came after its time

tcpVars == <<stQuic, stPub, stQueue, stSend, stHand, stLocal, stBack, stGot, stRecv, stTaint, stLoss, stGone>>
udpVars == <<udQueue, udHand, udAsked, udSock, udOut, udNext, udLate>>
stVars == <<stQuic, stPub, stQueue, stSend, stHand, stLocal, stBack, stGot, stRecv, stTaint, stLoss, stGone,
            udQueue, udHand, udAsked, udSock, udOut, udNext, udLate>>

TcpEvent == [type : {"open", "close"}, conn : TcpConn, n : {0}]
            \cup [type : {"data"}, conn : TcpConn, n : 1..MaxData]
NoTcp == [type |-> "none", n |-> 0]

StTypeOK ==
    /\ stPub \in [TcpConn -> [state : {"none", "open", "closed"}, n : 0..MaxData,
                              reader : {"off", "announce", "read", "closing", "done"}]]
    /\ stLocal \in [TcpConn -> [state : {"none", "open", "closed"}, n : 0..MaxData,
                                reader : {"off", "read", "closing", "done"}]]
    /\ stQueue \in Seq(TcpEvent) /\ Len(stQueue) =< QueueCap
    /\ stSend \in Seq(TcpEvent) /\ Len(stSend) =< QuicCap
    /\ stHand = NoTcp \/ stHand \in TcpEvent
    /\ udHand \in Datagram \cup {0} /\ Len(udQueue) =< QueueCap

Endpoint == [state |-> "none", n |-> 0, reader |-> "off"]

\* ensureTCPTunnelListener of a tunnel that is registered.
TcpInit ==
    /\ stQuic \in BOOLEAN
    /\ stPub = [c \in TcpConn |-> Endpoint] /\ stLocal = [c \in TcpConn |-> Endpoint]
    /\ stQueue = <<>> /\ stSend = <<>> /\ stHand = NoTcp /\ stBack = <<>>
    /\ stGot = [c \in TcpConn |-> <<>>] /\ stRecv = [c \in TcpConn |-> <<>>]
    /\ stTaint = {} /\ stLoss = 0 /\ stGone = FALSE

\* ensureUDPTunnelListener.
UdpInit ==
    /\ udQueue = <<>> /\ udHand = 0 /\ udAsked = {} /\ udSock = <<>> /\ udOut = {} /\ udNext = 0
    /\ udLate = FALSE

StInit == TcpInit /\ UdpInit

Ev(type, c, n) == [type |-> type, conn |-> c, n |-> n]

-----------------------------------------------------------------------------
(***************************************************************************)
(* TCP at the relay.                                                       *)
(***************************************************************************)
\* sendTCPEventToClient; it blocks while the queue is full.  What a QUIC daemon
\* would have to poll is lost to it.
SendTCPEvent(e) ==
    IF stQuic /\ Len(stSend) < QuicCap
    THEN stSend' = Append(stSend, e) /\ UNCHANGED <<stQueue, stTaint>>
    ELSE /\ Len(stQueue) < QueueCap
         /\ stQueue' = Append(stQueue, e)
         /\ stTaint' = IF stQuic THEN stTaint \cup {e.conn} ELSE stTaint
         /\ UNCHANGED stSend

\* acceptTCPConnections: Accept and the entry of conns.  One goroutine accepts,
\* so the next connection waits until the open event of this one is sent.
AcceptTCP(c) ==
    /\ stPub[c] = Endpoint
    /\ \A d \in TcpConn : stPub[d].reader # "announce"
    /\ stPub' = [stPub EXCEPT ![c].state = "open", ![c].reader = "announce"]
    /\ UNCHANGED <<stQuic, stQueue, stSend, stHand, stLocal, stBack, stGot, stRecv, stTaint, stLoss, stGone, udpVars>>

\* ... its open event, and the start of its reader.
AnnounceTCP(c) ==
    /\ stPub[c].reader = "announce"
    /\ SendTCPEvent(Ev("open", c, 0))
    /\ stPub' = [stPub EXCEPT ![c].reader = "read"]
    /\ UNCHANGED <<stQuic, stHand, stLocal, stBack, stGot, stRecv, stLoss, stGone, udpVars>>

\* The reader runs before the open event is sent.
ReadPublicTCPEarly(c) ==
    /\ stPub[c].reader \in {"announce", "read"} /\ stPub[c].state = "open" /\ stPub[c].n < MaxData
    /\ SendTCPEvent(Ev("data", c, stPub[c].n + 1))
    /\ stPub' = [stPub EXCEPT ![c].n = @ + 1]
    /\ UNCHANGED <<stQuic, stHand, stLocal, stBack, stGot, stRecv, stLoss, stGone, udpVars>>

\* readPublicTCP: data of the public side.
ReadPublicTCP(c) ==
    /\ stPub[c].reader = "read" /\ stPub[c].state = "open" /\ stPub[c].n < MaxData
    /\ SendTCPEvent(Ev("data", c, stPub[c].n + 1))
    /\ stPub' = [stPub EXCEPT ![c].n = @ + 1]
    /\ UNCHANGED <<stQuic, stHand, stLocal, stBack, stGot, stRecv, stLoss, stGone, udpVars>>

\* readPublicTCP: Read fails, because the public side or handleTCPChunk closed
\* the connection.  The close event is sent, then closeTCPPublicConn runs.
EndPublicTCP(c) ==
    \/ /\ stPub[c].reader = "read"
       /\ SendTCPEvent(Ev("close", c, 0))
       /\ stPub' = [stPub EXCEPT ![c].reader = "closing"]
       /\ UNCHANGED <<stQuic, stHand, stLocal, stBack, stGot, stRecv, stLoss, stGone, udpVars>>
    \/ /\ stPub[c].reader = "closing"
       /\ stPub' = [stPub EXCEPT ![c].reader = "done", ![c].state = "closed"]
       /\ UNCHANGED <<stQuic, stQueue, stSend, stHand, stLocal, stBack, stGot, stRecv, stTaint, stLoss, stGone, udpVars>>

\* handleTCPChunk and writeTCPChunkToPublic: nothing for a connection that is
\* no longer in conns.
TakeChunk(k) ==
    IF stPub[k.conn].state # "open" THEN UNCHANGED <<stPub, stRecv>>
    ELSE /\ stRecv' = IF k.type = "data" THEN [stRecv EXCEPT ![k.conn] = Append(@, k.n)] ELSE stRecv
         /\ stPub' = IF k.type = "close" THEN [stPub EXCEPT ![k.conn].state = "closed"] ELSE stPub

\* handleQUICMessage of a tcp_chunk.
QuicChunk ==
    /\ stBack # <<>>
    /\ TakeChunk(Head(stBack))
    /\ stBack' = Tail(stBack)
    /\ UNCHANGED <<stQuic, stQueue, stSend, stHand, stLocal, stGot, stTaint, stLoss, stGone, udpVars>>

-----------------------------------------------------------------------------
(***************************************************************************)
(* TCP at the daemon.                                                      *)
(***************************************************************************)
\* A chunk to the relay: over QUIC, or a POST whose loss nobody notices.
PostChunk(k) ==
    \/ /\ stQuic
       /\ stBack' = Append(stBack, k)
       /\ UNCHANGED <<stPub, stRecv, stTaint, stLoss>>
    \/ /\ ~stQuic
       /\ TakeChunk(k)
       /\ UNCHANGED <<stBack, stTaint, stLoss>>
    \/ /\ ~stQuic /\ stLoss < MaxTcpLoss
       /\ stLoss' = stLoss + 1
       /\ stTaint' = stTaint \cup {k.conn}
       /\ UNCHANGED <<stBack, stPub, stRecv>>

\* handleNextTCPEvent and nextTCPEvent, or the decoder of handleQUICControl.
NextTCPEvent ==
    /\ stHand = NoTcp /\ ~stGone
    /\ \/ /\ stQuic /\ stSend # <<>>
          /\ stHand' = Head(stSend) /\ stSend' = Tail(stSend)
          /\ UNCHANGED stQueue
       \/ /\ ~stQuic /\ stQueue # <<>>
          /\ stHand' = Head(stQueue) /\ stQueue' = Tail(stQueue)
          /\ UNCHANGED stSend
    /\ UNCHANGED <<stQuic, stPub, stLocal, stBack, stGot, stRecv, stTaint, stLoss, stGone, udpVars>>

\* The reply to the poll is lost, and with it the event it took from the queue.
LoseTCPEvent ==
    /\ ~stQuic /\ ~stGone /\ stHand = NoTcp /\ stQueue # <<>> /\ stLoss < MaxTcpLoss
    /\ stQueue' = Tail(stQueue)
    /\ stTaint' = stTaint \cup {Head(stQueue).conn}
    /\ stLoss' = stLoss + 1
    /\ UNCHANGED <<stQuic, stPub, stSend, stHand, stLocal, stBack, stGot, stRecv, stGone, udpVars>>

\* handleTCPEvent; dialled says whether net.Dial succeeds.
HandleTCPEvent(dialled) ==
    LET e == stHand
        c == stHand.conn
    IN  /\ e # NoTcp
        /\ stHand' = NoTcp
        /\ CASE e.type = "open" /\ dialled ->
                   /\ stLocal' = [stLocal EXCEPT ![c].state = "open", ![c].reader = "read"]
                   /\ UNCHANGED <<stGot, stBack, stPub, stRecv, stTaint, stLoss>>
             [] e.type = "open" /\ ~dialled ->
                   /\ stLocal' = [stLocal EXCEPT ![c].state = "closed", ![c].reader = "done"]
                   /\ PostChunk(Ev("close", c, 0))
                   /\ UNCHANGED stGot
             [] e.type = "data" ->
                   /\ stGot' = IF stLocal[c].state = "open" THEN [stGot EXCEPT ![c] = Append(@, e.n)] ELSE stGot
                   /\ UNCHANGED <<stLocal, stBack, stPub, stRecv, stTaint, stLoss>>
             [] OTHER ->
                   /\ stLocal' = [stLocal EXCEPT ![c].state = IF @ = "open" THEN "closed" ELSE @]
                   /\ UNCHANGED <<stGot, stBack, stPub, stRecv, stTaint, stLoss>>
        /\ UNCHANGED <<stQuic, stQueue, stSend, stGone, udpVars>>

\* readLocalTCP: data of the local side, ...
ReadLocalTCP(c) ==
    /\ stLocal[c].reader = "read" /\ stLocal[c].state = "open" /\ stLocal[c].n < MaxData
    /\ PostChunk(Ev("data", c, stLocal[c].n + 1))
    /\ stLocal' = [stLocal EXCEPT ![c].n = @ + 1]
    /\ UNCHANGED <<stQuic, stQueue, stSend, stHand, stGot, stGone, udpVars>>

\* ... and its end, by the local service or by closeTCPConn: the close chunk,
\* then closeTCPConn.
EndLocalTCP(c) ==
    \/ /\ stLocal[c].reader = "read"
       /\ PostChunk(Ev("close", c, 0))
       /\ stLocal' = [stLocal EXCEPT ![c].reader = "closing"]
       /\ UNCHANGED <<stQuic, stQueue, stSend, stHand, stGot, stGone, udpVars>>
    \/ /\ stLocal[c].reader = "closing"
       /\ stLocal' = [stLocal EXCEPT ![c].reader = "done", ![c].state = "closed"]
       /\ UNCHANGED <<stQuic, stPub, stQueue, stSend, stHand, stBack, stGot, stRecv, stTaint, stLoss, stGone, udpVars>>

\* The daemon is restarted and registers again.  ensureTCPTunnelListener finds
\* the listener of the lease, so the events stay with the client before, whose
\* queue nobody polls.
RestartDaemon ==
    /\ ~stGone /\ MayRestart
    /\ stGone' = TRUE
    /\ stHand' = NoTcp /\ stBack' = <<>>
    /\ stLocal' = [c \in TcpConn |-> IF stLocal[c].state = "none" THEN Endpoint
                                     ELSE [stLocal[c] EXCEPT !.state = "closed", !.reader = "done"]]
    /\ stTaint' = TcpConn
    /\ UNCHANGED <<stQuic, stPub, stQueue, stSend, stGot, stRecv, stLoss, udpVars>>

-----------------------------------------------------------------------------
(***************************************************************************)
(* UDP.                                                                    *)
(***************************************************************************)
\* readPublicUDP: a datagram, its peer in peers, and the event.  Every datagram
\* has a connection identifier of its own.
ReadPublicUDP ==
    /\ udNext + 1 \in Datagram /\ Len(udQueue) < QueueCap
    /\ udNext' = udNext + 1
    /\ udQueue' = Append(udQueue, udNext + 1)
    /\ UNCHANGED <<tcpVars, udHand, udAsked, udSock, udOut, udLate>>

\* handleNextUDPEvent, nextUDPEvent and the first half of handleUDPEvent: the
\* payload goes to the backend.
NextUDPEvent ==
    /\ udHand = 0 /\ udQueue # <<>>
    /\ udHand' = Head(udQueue) /\ udQueue' = Tail(udQueue)
    /\ udAsked' = udAsked \cup {Head(udQueue)}
    /\ UNCHANGED <<tcpVars, udSock, udOut, udNext, udLate>>

\* The reply to the poll is lost, and the datagram with it.
LoseUDPEvent ==
    /\ udHand = 0 /\ udQueue # <<>>
    /\ udQueue' = Tail(udQueue)
    /\ UNCHANGED <<tcpVars, udHand, udAsked, udSock, udOut, udNext, udLate>>

\* The backend answers when it likes.
BackendAnswers(k) ==
    /\ k \in udAsked
    /\ udAsked' = udAsked \ {k}
    /\ udSock' = Append(udSock, k)
    /\ udLate' = (udLate \/ udHand # k)
    /\ UNCHANGED <<tcpVars, udQueue, udHand, udOut, udNext>>

\* handleUDPChunk and writeUDPChunkToPublic: the payload goes to the peer that
\* sent datagram k.
HandleUDPChunk(k, payload) == udOut' = udOut \cup {[to |-> k, answers |-> payload]}

\* sendUDPChunk: a post that is lost loses the answer.
SendUDPChunk(k, payload) == HandleUDPChunk(k, payload) \/ UNCHANGED udOut

\* The daemon sends the answer on to the peer of the newest datagram.
ReadAnswerNewest ==
    /\ udHand # 0 /\ udSock # <<>>
    /\ udHand' = 0 /\ udSock' = Tail(udSock)
    /\ SendUDPChunk(udNext, Head(udSock))
    /\ UNCHANGED <<tcpVars, udQueue, udAsked, udNext, udLate>>

\* The second half of handleUDPEvent: whatever the socket has is sent as the
\* answer to the datagram at hand.
ReadAnswer ==
    /\ udHand # 0 /\ udSock # <<>>
    /\ udHand' = 0 /\ udSock' = Tail(udSock)
    /\ SendUDPChunk(udHand, Head(udSock))
    /\ UNCHANGED <<tcpVars, udQueue, udAsked, udNext, udLate>>

\* The read deadline of two seconds passes.
AnswerTimeout ==
    /\ udHand # 0 /\ udSock = <<>>
    /\ udHand' = 0
    /\ UNCHANGED <<tcpVars, udQueue, udAsked, udSock, udOut, udNext, udLate>>

TcpNext ==
    \/ \E c \in TcpConn : AcceptTCP(c) \/ AnnounceTCP(c) \/ ReadPublicTCP(c) \/ EndPublicTCP(c)
                          \/ ReadLocalTCP(c) \/ EndLocalTCP(c)
    \/ QuicChunk \/ NextTCPEvent \/ LoseTCPEvent \/ RestartDaemon
    \/ \E dialled \in BOOLEAN : HandleTCPEvent(dialled)

UdpNext ==
    \/ ReadPublicUDP \/ NextUDPEvent \/ LoseUDPEvent \/ ReadAnswer \/ AnswerTimeout
    \/ \E k \in Datagram : BackendAnswers(k)

StNext == TcpNext \/ UdpNext

StSpec == StInit /\ [][StNext]_stVars
TcpSpec == StInit /\ [][TcpNext]_stVars
UdpSpec == StInit /\ [][UdpNext]_stVars

-----------------------------------------------------------------------------
(***************************************************************************)
(* Properties.                                                             *)
(***************************************************************************)
Ascending(s) == \A i, j \in DOMAIN s : i < j => s[i] < s[j]
Prefix1(s) == \A i \in DOMAIN s : s[i] = i

\* Whatever polls, posts and overflowing queues lose, both ends of a connection
\* get the data of the other end in the order it was sent and none twice.
TcpInOrder == \A c \in TcpConn : Ascending(stGot[c]) /\ Ascending(stRecv[c])

\* A connection of which no event or chunk was lost on the way has no gap: no
\* data overtakes the open event, and none is dropped before the connection ends.
TcpNoGap == \A c \in TcpConn \ stTaint : Prefix1(stGot[c]) /\ Prefix1(stRecv[c])

\* The reader of one end has finished and no event of the connection is on the way.
Settled(c) ==
    /\ stPub[c].reader = "done" \/ stLocal[c].reader = "done"
    /\ stPub[c].reader \notin {"announce", "closing"} /\ stLocal[c].reader # "closing"
    /\ stHand = NoTcp
    /\ \A s \in {stQueue, stSend, stBack} : \A i \in DOMAIN s : s[i].conn # c

\* A connection that is settled, and of which nothing was lost, is closed at both
\* ends: none is left open for a peer that is gone.
TcpClosedTogether ==
    \A c \in TcpConn \ stTaint : Settled(c) => stPub[c].state # "open" /\ stLocal[c].state # "open"

\* As long as the backend answers each datagram while the daemon waits for it,
\* every answer goes to the peer that asked.
UdpAnswersAsker == ~udLate => \A o \in udOut : PeerOf[o.to] = PeerOf[o.answers]

\* A TCP tunnel carries what a connection would: in order, none twice, without gaps
\* when nothing was lost, and both ends close.
TcpFaithful == TcpInOrder /\ TcpNoGap /\ TcpClosedTogether
=============================================================================
