--------------------------- MODULE StreamsProofs ---------------------------
(***************************************************************************)
(* Proofs about the UDP and TCP tunnels of Streams, for any number of      *)
(* connections, bytes and datagrams.                                       *)
(***************************************************************************)
EXTENDS Streams, SequenceTheorems, TLAPS

(***************************************************************************)
(* UDP tunnels.                                                            *)
(***************************************************************************)
\* As long as no answer was late, the socket has at most the answer to the
\* datagram at hand, and nothing between two datagrams.
UdpInv ==
    /\ udHand \in Datagram \cup {0}
    /\ udQueue \in Seq(Datagram) /\ udSock \in Seq(Datagram)
    /\ udAsked \subseteq Datagram
    /\ udNext \in Nat
    /\ udLate \in BOOLEAN
    /\ ~udLate => /\ udHand = 0 => udSock = <<>>
                  /\ udSock = <<>> \/ (udSock = <<udHand>> /\ udHand \notin udAsked)
    /\ UdpAnswersAsker

LEMMA TcpLeavesUdp == TcpNext => UNCHANGED udpVars
<1>1. ASSUME NEW c \in TcpConn,
             \/ AcceptTCP(c) \/ AnnounceTCP(c) \/ ReadPublicTCP(c) \/ EndPublicTCP(c)
             \/ ReadLocalTCP(c) \/ EndLocalTCP(c)
      PROVE  UNCHANGED udpVars
  BY <1>1, Zenon DEF AcceptTCP, AnnounceTCP, ReadPublicTCP, EndPublicTCP, ReadLocalTCP, EndLocalTCP
<1>2. QuicChunk \/ NextTCPEvent \/ LoseTCPEvent \/ RestartDaemon => UNCHANGED udpVars
  BY Zenon DEF QuicChunk, NextTCPEvent, LoseTCPEvent, RestartDaemon
<1>3. ASSUME NEW dialled \in BOOLEAN, HandleTCPEvent(dialled) PROVE UNCHANGED udpVars
  BY <1>3, Zenon DEF HandleTCPEvent
<1> QED
  BY <1>1, <1>2, <1>3, Zenon DEF TcpNext

LEMMA UdpStep == UdpInv /\ [StNext]_stVars => UdpInv'
<1> SUFFICES ASSUME UdpInv, [StNext]_stVars PROVE UdpInv'
  BY Zenon
<1>0. 0 \notin Datagram
  BY StAssumption, Zenon
<1>1. CASE UNCHANGED udpVars
  BY <1>1, Zenon DEF UdpInv, udpVars, UdpAnswersAsker
<1>2. CASE ReadPublicUDP
  BY <1>2 DEF ReadPublicUDP, UdpInv, UdpAnswersAsker
<1>3. CASE NextUDPEvent
  <2>1. Head(udQueue) \in Datagram /\ Tail(udQueue) \in Seq(Datagram)
    BY <1>3 DEF NextUDPEvent, UdpInv
  <2> QED
    BY <1>3, <2>1, Zenon DEF NextUDPEvent, UdpInv, UdpAnswersAsker
<1>4. CASE LoseUDPEvent
  <2>1. Tail(udQueue) \in Seq(Datagram)
    BY <1>4 DEF LoseUDPEvent, UdpInv
  <2> QED
    BY <1>4, <2>1, Zenon DEF LoseUDPEvent, UdpInv, UdpAnswersAsker
<1>5. CASE ReadAnswer
  <2>1. udSock # <<>> /\ udHand # 0 /\ udHand' = 0 /\ udSock' = Tail(udSock)
        /\ UNCHANGED <<udQueue, udAsked, udNext, udLate>>
    BY <1>5, Zenon DEF ReadAnswer
  <2>2. udOut' \in {udOut, udOut \cup {[to |-> udHand, answers |-> Head(udSock)]}}
    BY <1>5, Zenon DEF ReadAnswer, SendUDPChunk, HandleUDPChunk
  <2>3. udSock' \in Seq(Datagram)
    BY <2>1 DEF UdpInv
  <2>4. ~udLate => Head(udSock) = udHand /\ Tail(udSock) = <<>>
    BY <2>1 DEF UdpInv
  <2>5. UdpAnswersAsker'
    BY <2>1, <2>2, <2>4 DEF UdpInv, UdpAnswersAsker
  <2> QED
    BY <2>1, <2>3, <2>4, <2>5, Zenon DEF UdpInv
<1>6. CASE AnswerTimeout
  BY <1>6, Zenon DEF AnswerTimeout, UdpInv, UdpAnswersAsker
<1>7. ASSUME NEW k \in Datagram, BackendAnswers(k) PROVE UdpInv'
  <2>1. /\ k \in udAsked /\ udAsked' = udAsked \ {k} /\ udSock' = Append(udSock, k)
        /\ udLate' = (udLate \/ udHand # k)
        /\ UNCHANGED <<udQueue, udHand, udOut, udNext>>
    BY <1>7, Zenon DEF BackendAnswers
  <2>2. udSock' \in Seq(Datagram) /\ udAsked' \subseteq Datagram /\ udLate' \in BOOLEAN
    BY <2>1 DEF UdpInv
  <2>3. ~udLate' => udHand = k /\ ~udLate /\ udSock = <<>>
    BY <2>1, Zenon DEF UdpInv
  <2>4. ~udLate' => udSock' = <<k>>
    BY <2>1, <2>3
  <2>5. UdpAnswersAsker'
    BY <2>1, Zenon DEF UdpInv, UdpAnswersAsker
  <2> QED
    BY <1>0, <2>1, <2>2, <2>3, <2>4, <2>5, Zenon DEF UdpInv
<1>8. TcpNext \/ UNCHANGED stVars => UNCHANGED udpVars
  BY TcpLeavesUdp, Zenon DEF stVars, udpVars
<1> QED
  BY <1>1, <1>2, <1>3, <1>4, <1>5, <1>6, <1>7, <1>8, Zenon DEF StNext, UdpNext

\* As long as the backend answers each datagram while the daemon waits for it,
\* every answer goes to the peer that asked: between two datagrams the daemon's
\* socket is empty, so handleUDPEvent reads no answer to an earlier one.
THEOREM UdpAnswered == StSpec => []UdpAnswersAsker
<1>1. StInit => UdpInv
  <2> SUFFICES ASSUME StInit PROVE UdpInv
    BY Zenon
  <2>1. /\ udQueue = <<>> /\ udHand = 0 /\ udAsked = {} /\ udSock = <<>> /\ udOut = {}
        /\ udNext = 0 /\ udLate = FALSE
    BY Zenon DEF StInit, UdpInit
  <2>2. UdpAnswersAsker
    BY <2>1, Zenon DEF UdpAnswersAsker
  <2>3. udQueue \in Seq(Datagram) /\ udSock \in Seq(Datagram) /\ udNext \in Nat
    BY <2>1
  <2> QED
    BY <2>1, <2>2, <2>3, Zenon DEF UdpInv
<1>2. UdpInv => UdpAnswersAsker
  BY Zenon DEF UdpInv
<1> QED
  BY <1>1, <1>2, UdpStep, PTL DEF StSpec


(***************************************************************************)
(* TCP tunnels.                                                            *)
(***************************************************************************)
\* What is on the way to the daemon, the event it works on first.
StFlow == LET p == IF stQuic THEN stSend ELSE stQueue
          IN  IF stHand = NoTcp THEN p ELSE <<stHand>> \o p

Pubs == [state : {"none", "open", "closed"}, n : Nat, reader : {"off", "announce", "read", "closing", "done"}]
Locals == [state : {"none", "open", "closed"}, n : Nat, reader : {"off", "read", "closing", "done"}]

TcpShape ==
    /\ stQuic \in BOOLEAN
    /\ stPub \in [TcpConn -> Pubs] /\ stLocal \in [TcpConn -> Locals]
    /\ stQueue \in Seq(TcpEvent) /\ stSend \in Seq(TcpEvent) /\ stBack \in Seq(TcpEvent)
    /\ stHand = NoTcp \/ stHand \in TcpEvent
    /\ stGot \in [TcpConn -> Seq(Nat)] /\ stRecv \in [TcpConn -> Seq(Nat)]
    /\ ~stQuic => stBack = <<>>

\* The data of connection c in q comes after what was taken, ascends and goes no
\* further than num, the chunks that were read.
Follows(q, c, took, num) ==
    /\ Ascending(took)
    /\ \A i \in DOMAIN took : took[i] =< num
    /\ \A k \in DOMAIN q : q[k].type = "data" /\ q[k].conn = c =>
           /\ q[k].n =< num
           /\ \A i \in DOMAIN took : took[i] < q[k].n
           /\ \A m \in DOMAIN q : q[m].type = "data" /\ q[m].conn = c /\ k < m => q[k].n < q[m].n

\* Everything read and not yet taken is in q.
Complete(q, c, took, num) ==
    Prefix1(took) /\ \A m \in (Len(took) + 1)..num : \E k \in DOMAIN q : q[k] = Ev("data", c, m)

\* There is one open event, before everything else of its connection.
OpenOnce(q, c) == \A j, k \in DOMAIN q : q[j] = Ev("open", c, 0) /\ q[k] = Ev("open", c, 0) => j = k
OpenFirst(q, c) == \A j \in DOMAIN q : q[j].conn = c => \E k \in DOMAIN q : k =< j /\ q[k] = Ev("open", c, 0)
NoneOf(q, c) == \A k \in DOMAIN q : q[k].conn # c
Without(q, e) == \A k \in DOMAIN q : q[k] # e

\* What holds of every connection c with f on the way to the daemon, b on the
\* way back, got and recv written at the two ends and the endpoints p and l, ...
TcpAlways(c, f, b, got, recv, p, l) ==
    /\ Follows(f, c, got, p.n) /\ Follows(b, c, recv, l.n)
    /\ OpenOnce(f, c)
    /\ l.state # "none" => Without(f, Ev("open", c, 0))
    /\ p.reader \in {"off", "announce"} => NoneOf(f, c) /\ l.state = "none"
    /\ l.state = "none" => l.n = 0 /\ l.reader = "off" /\ got = <<>>
    /\ p.reader = "done" => p.state = "closed"
    /\ l.reader = "done" => l.state = "closed"

\* ... and of one of which nothing was lost.
TcpUntainted(c, f, b, got, recv, p, l) ==
    /\ Prefix1(got) /\ Prefix1(recv)
    /\ l.state # "closed" => Complete(f, c, got, p.n)
    /\ l.state = "none" => /\ OpenFirst(f, c)
                           /\ p.reader \notin {"off", "announce"} => ~Without(f, Ev("open", c, 0))
    /\ p.state = "open" => Complete(b, c, recv, l.n)
    /\ p.reader \in {"closing", "done"} => l.state = "closed" \/ ~Without(f, Ev("close", c, 0))
    /\ l.reader \in {"closing", "done"} => p.state # "open" \/ ~Without(b, Ev("close", c, 0))

TcpInv ==
    /\ TcpShape
    /\ \A c \in TcpConn : TcpAlways(c, StFlow, stBack, stGot[c], stRecv[c], stPub[c], stLocal[c])
    /\ \A c \in TcpConn \ stTaint : TcpUntainted(c, StFlow, stBack, stGot[c], stRecv[c], stPub[c], stLocal[c])

LEMMA FlowOfOne ==
    ASSUME NEW S, NEW h \in S, NEW p \in Seq(S), NEW e \in S
    PROVE  /\ <<h>> \o p \in Seq(S) /\ <<h>> \o p # <<>>
           /\ Head(<<h>> \o p) = h /\ Tail(<<h>> \o p) = p
           /\ Append(<<h>> \o p, e) = <<h>> \o Append(p, e)
<1>1. /\ <<h>> \o p \in Seq(S) /\ Len(<<h>> \o p) = Len(p) + 1 /\ Len(p) \in Nat
      /\ (<<h>> \o p)[1] = h
      /\ \A i \in 1..Len(p) : (<<h>> \o p)[i + 1] = p[i]
  OBVIOUS
<1>2. <<h>> \o p # <<>> /\ Head(<<h>> \o p) = h
  BY <1>1
<1>3. Tail(<<h>> \o p) = p
  <2>1. Tail(<<h>> \o p) \in Seq(S) /\ Len(Tail(<<h>> \o p)) = Len(p)
    BY <1>1, <1>2
  <2>2. \A i \in 1..Len(p) : Tail(<<h>> \o p)[i] = p[i]
    BY <1>1, <1>2
  <2> QED
    BY <2>1, <2>2
<1>4. Append(<<h>> \o p, e) = <<h>> \o Append(p, e)
  <2>1. /\ Append(<<h>> \o p, e) \in Seq(S) /\ Len(Append(<<h>> \o p, e)) = Len(p) + 2
        /\ <<h>> \o Append(p, e) \in Seq(S) /\ Len(<<h>> \o Append(p, e)) = Len(p) + 2
    BY <1>1
  <2>2. ASSUME NEW i \in 1..(Len(p) + 2) PROVE Append(<<h>> \o p, e)[i] = (<<h>> \o Append(p, e))[i]
    BY <1>1, <2>1
  <2> QED
    BY <2>1, <2>2
<1> QED
  BY <1>1, <1>2, <1>3, <1>4, Zenon

\* What a queue keeps when something is added at its end or taken from its front.
LEMMA Added ==
    ASSUME NEW q \in Seq(TcpEvent), NEW e \in TcpEvent, NEW r, r = Append(q, e)
    PROVE  /\ r \in Seq(TcpEvent) /\ Len(q) \in Nat
           /\ DOMAIN q = 1..Len(q) /\ DOMAIN r = 1..(Len(q) + 1)
           /\ \A k \in 1..Len(q) : r[k] = q[k]
           /\ r[Len(q) + 1] = e
  OBVIOUS

LEMMA Removed ==
    ASSUME NEW q \in Seq(TcpEvent), q # <<>>, NEW r, r = Tail(q)
    PROVE  /\ r \in Seq(TcpEvent) /\ Len(q) \in Nat \ {0} /\ Head(q) \in TcpEvent
           /\ DOMAIN q = 1..Len(q) /\ DOMAIN r = 1..(Len(q) - 1)
           /\ \A k \in 1..(Len(q) - 1) : r[k] = q[k + 1]
           /\ q[1] = Head(q)
  OBVIOUS

LEMMA EventType ==
    ASSUME NEW e \in TcpEvent
    PROVE  /\ e.type \in {"open", "close", "data"} /\ e.conn \in TcpConn /\ e.n \in Nat
           /\ e = Ev(e.type, e.conn, e.n)
           /\ e.type # "data" => e.n = 0
           /\ e # NoTcp
<1>1. CASE e \in [type : {"open", "close"}, conn : TcpConn, n : {0}]
  BY <1>1 DEF Ev, NoTcp
<1>2. CASE e \in [type : {"data"}, conn : TcpConn, n : 1..MaxData]
  BY <1>2, StAssumption DEF Ev, NoTcp
<1> QED
  BY <1>1, <1>2, Zenon DEF TcpEvent

LEMMA EvFields == \A t, c, num : Ev(t, c, num).type = t /\ Ev(t, c, num).conn = c /\ Ev(t, c, num).n = num
  BY Zenon DEF Ev


LEMMA AddFollows ==
    ASSUME NEW q \in Seq(TcpEvent), NEW e \in TcpEvent, NEW c \in TcpConn, NEW took \in Seq(Nat),
           NEW num \in Nat, NEW m \in Nat, Follows(q, c, took, num),
           IF e.type = "data" /\ e.conn = c THEN m = num + 1 /\ e.n = m ELSE m = num
    PROVE  Follows(Append(q, e), c, took, m)
<1>1. PICK r : r = Append(q, e)
  BY Zenon
<1>2. /\ DOMAIN q = 1..Len(q) /\ DOMAIN r = 1..(Len(q) + 1) /\ Len(q) \in Nat
      /\ \A k \in 1..Len(q) : r[k] = q[k] /\ q[k].n \in Nat
      /\ r[Len(q) + 1] = e
  BY <1>1, Added, EventType
<1>3. DOMAIN took = 1..Len(took) /\ \A i \in DOMAIN took : took[i] \in Nat /\ took[i] =< num
  BY DEF Follows
<1>4. m >= num
  OBVIOUS
<1>5. ASSUME NEW k \in DOMAIN r, r[k].type = "data", r[k].conn = c
      PROVE  /\ r[k].n =< m
             /\ \A i \in DOMAIN took : took[i] < r[k].n
             /\ \A l \in DOMAIN r : r[l].type = "data" /\ r[l].conn = c /\ k < l => r[k].n < r[l].n
  <2>1. CASE k \in DOMAIN q
    <3>1. r[k] = q[k] /\ q[k].n =< num /\ (\A i \in DOMAIN took : took[i] < q[k].n) /\ q[k].n \in Nat
      BY <1>2, <1>5, <2>1, Zenon DEF Follows
    <3>2. ASSUME NEW l \in DOMAIN r, r[l].type = "data", r[l].conn = c, k < l PROVE r[k].n < r[l].n
      <4>1. CASE l \in DOMAIN q
        BY <1>2, <1>5, <2>1, <3>2, <4>1, Zenon DEF Follows
      <4>2. CASE l = Len(q) + 1
        BY <1>2, <3>1, <3>2, <4>2
      <4> QED
        BY <1>2, <4>1, <4>2
    <3> QED
      BY <1>4, <3>1, <3>2
  <2>2. CASE k = Len(q) + 1
    BY <1>2, <1>3, <1>5, <2>2
  <2> QED
    BY <1>2, <2>1, <2>2
<1>6. Ascending(took) /\ \A i \in DOMAIN took : took[i] =< m
  BY <1>3, <1>4 DEF Follows
<1> QED
  BY <1>1, <1>5, <1>6, Zenon DEF Follows

LEMMA DropFollows ==
    ASSUME NEW q \in Seq(TcpEvent), q # <<>>, NEW c, NEW took, NEW num, Follows(q, c, took, num)
    PROVE  Follows(Tail(q), c, took, num)
<1>1. PICK r : r = Tail(q)
  BY Zenon
<1>2. /\ DOMAIN q = 1..Len(q) /\ DOMAIN r = 1..(Len(q) - 1) /\ Len(q) \in Nat
      /\ \A k \in 1..(Len(q) - 1) : r[k] = q[k + 1]
  BY <1>1, Removed, Zenon
<1>3. \A k \in DOMAIN r : k + 1 \in DOMAIN q /\ r[k] = q[k + 1] /\ \A l \in DOMAIN r : k < l => k + 1 < l + 1
  BY <1>2
<1>4. Ascending(took) /\ \A i \in DOMAIN took : took[i] =< num
  BY Zenon DEF Follows
<1>5. \A k \in DOMAIN r : r[k].type = "data" /\ r[k].conn = c =>
           /\ r[k].n =< num
           /\ \A i \in DOMAIN took : took[i] < r[k].n
           /\ \A m \in DOMAIN r : r[m].type = "data" /\ r[m].conn = c /\ k < m => r[k].n < r[m].n
  BY <1>3, Zenon DEF Follows
<1> QED
  BY <1>1, <1>4, <1>5, Zenon DEF Follows

LEMMA TakeFollows ==
    ASSUME NEW q \in Seq(TcpEvent), q # <<>>, NEW c \in TcpConn, NEW took \in Seq(Nat), NEW num \in Nat,
           Follows(q, c, took, num), Head(q).type = "data", Head(q).conn = c
    PROVE  Follows(Tail(q), c, Append(took, Head(q).n), num)
<1>1. PICK r : r = Tail(q)
  BY Zenon
<1>2. /\ DOMAIN q = 1..Len(q) /\ DOMAIN r = 1..(Len(q) - 1) /\ Len(q) \in Nat \ {0}
      /\ \A k \in 1..(Len(q) - 1) : r[k] = q[k + 1]
      /\ q[1] = Head(q) /\ Head(q) \in TcpEvent
  BY <1>1, Removed, Zenon
<1>3. PICK h \in Nat : h = Head(q).n
  BY <1>2, EventType, Zenon
<1>4. PICK t : t = Append(took, h)
  BY Zenon
<1>5. /\ DOMAIN took = 1..Len(took) /\ DOMAIN t = 1..(Len(took) + 1) /\ Len(took) \in Nat
      /\ \A i \in DOMAIN took : t[i] = took[i] /\ t[i] \in Nat
      /\ t[Len(took) + 1] = h
  BY <1>4
<1>6. /\ h =< num /\ \A i \in DOMAIN took : took[i] < h /\ took[i] =< num
      /\ \A m \in DOMAIN q : q[m].type = "data" /\ q[m].conn = c /\ 1 < m => h < q[m].n
  <2>1. 1 \in DOMAIN q /\ q[1].type = "data" /\ q[1].conn = c /\ q[1].n = h
    BY <1>2, <1>3
  <2> QED
    BY <2>1, Zenon DEF Follows
<1>7. Follows(r, c, took, num)
  BY <1>1, DropFollows, Zenon
<1>8. Ascending(t)
  <2>1. ASSUME NEW i \in DOMAIN t, NEW j \in DOMAIN t, i < j PROVE t[i] < t[j]
    <3>1. i \in DOMAIN took
      BY <1>5, <2>1
    <3>2. CASE j \in DOMAIN took
      BY <1>5, <1>7, <2>1, <3>1, <3>2, Zenon DEF Follows, Ascending
    <3>3. CASE j = Len(took) + 1
      BY <1>5, <1>6, <3>1, <3>3, Zenon
    <3> QED
      BY <1>5, <3>2, <3>3
  <2> QED
    BY <2>1, Zenon DEF Ascending
<1>9. \A i \in DOMAIN t : t[i] =< num
  BY <1>5, <1>6
<1>10. ASSUME NEW k \in DOMAIN r, r[k].type = "data", r[k].conn = c PROVE \A i \in DOMAIN t : t[i] < r[k].n
  <2>1. k + 1 \in DOMAIN q /\ r[k] = q[k + 1] /\ 1 < k + 1
    BY <1>2
  <2>2. h < r[k].n
    BY <1>6, <1>10, <2>1, Zenon
  <2>3. \A i \in DOMAIN took : took[i] < r[k].n
    BY <1>7, <1>10, Zenon DEF Follows
  <2> QED
    BY <1>5, <2>2, <2>3
<1>11. Follows(r, c, t, num)
  BY <1>7, <1>8, <1>9, <1>10, Zenon DEF Follows
<1> QED
  BY <1>1, <1>3, <1>4, <1>11, Zenon

LEMMA AddComplete ==
    ASSUME NEW q \in Seq(TcpEvent), NEW e \in TcpEvent, NEW c \in TcpConn, NEW took \in Seq(Nat),
           NEW num \in Nat, NEW m \in Nat, Complete(q, c, took, num),
           IF e.type = "data" /\ e.conn = c THEN m = num + 1 /\ e.n = m ELSE m = num
    PROVE  Complete(Append(q, e), c, took, m)
<1>1. PICK r : r = Append(q, e)
  BY Zenon
<1>2. /\ DOMAIN q = 1..Len(q) /\ DOMAIN r = 1..(Len(q) + 1) /\ Len(q) \in Nat
      /\ \A k \in 1..Len(q) : r[k] = q[k]
      /\ r[Len(q) + 1] = e
  BY <1>1, Added
<1>3. ASSUME NEW i \in (Len(took) + 1)..m PROVE \E k \in DOMAIN r : r[k] = Ev("data", c, i)
  <2>1. CASE i =< num
    <3>1. i \in (Len(took) + 1)..num
      BY <2>1
    <3>2. PICK k \in DOMAIN q : q[k] = Ev("data", c, i)
      BY <3>1, Zenon DEF Complete
    <3> QED
      BY <1>2, <3>2
  <2>2. CASE ~(i =< num)
    <3>1. e.type = "data" /\ e.conn = c /\ e.n = i
      BY <2>2
    <3>2. e = Ev("data", c, i)
      BY <3>1, EventType, Zenon
    <3> QED
      BY <1>2, <3>2
  <2> QED
    BY <2>1, <2>2, Zenon
<1> QED
  BY <1>1, <1>3, Zenon DEF Complete

LEMMA DropComplete ==
    ASSUME NEW q \in Seq(TcpEvent), q # <<>>, NEW c, NEW took, NEW num, Complete(q, c, took, num),
           ~(Head(q).type = "data" /\ Head(q).conn = c)
    PROVE  Complete(Tail(q), c, took, num)
<1>1. PICK r : r = Tail(q)
  BY Zenon
<1>2. /\ DOMAIN q = 1..Len(q) /\ DOMAIN r = 1..(Len(q) - 1) /\ Len(q) \in Nat \ {0}
      /\ \A k \in 1..(Len(q) - 1) : r[k] = q[k + 1]
      /\ q[1] = Head(q)
  BY <1>1, Removed, Zenon
<1>3. ASSUME NEW i \in (Len(took) + 1)..num PROVE \E k \in DOMAIN r : r[k] = Ev("data", c, i)
  <2>1. PICK k \in DOMAIN q : q[k] = Ev("data", c, i)
    BY Zenon DEF Complete
  <2>2. k # 1
    BY <1>2, <2>1, EvFields
  <2>3. k - 1 \in DOMAIN r /\ r[k - 1] = q[k]
    BY <1>2, <2>2
  <2> QED
    BY <2>1, <2>3, Zenon
<1> QED
  BY <1>1, <1>3, Zenon DEF Complete

LEMMA TakeComplete ==
    ASSUME NEW q \in Seq(TcpEvent), q # <<>>, NEW c \in TcpConn, NEW took \in Seq(Nat), NEW num \in Nat,
           Follows(q, c, took, num), Complete(q, c, took, num), Head(q).type = "data", Head(q).conn = c
    PROVE  Complete(Tail(q), c, Append(took, Head(q).n), num)
<1>1. PICK r : r = Tail(q)
  BY Zenon
<1>2. /\ DOMAIN q = 1..Len(q) /\ DOMAIN r = 1..(Len(q) - 1) /\ Len(q) \in Nat \ {0}
      /\ \A k \in 1..(Len(q) - 1) : r[k] = q[k + 1]
      /\ q[1] = Head(q) /\ Head(q) \in TcpEvent
  BY <1>1, Removed, Zenon
<1>3. PICK h \in Nat : h = Head(q).n
  BY <1>2, EventType, Zenon
<1>4. PICK t : t = Append(took, h)
  BY Zenon
<1>5. /\ DOMAIN took = 1..Len(took) /\ DOMAIN t = 1..(Len(took) + 1) /\ Len(took) \in Nat /\ Len(t) = Len(took) + 1
      /\ \A i \in DOMAIN took : t[i] = took[i]
      /\ t[Len(took) + 1] = h
  BY <1>4
<1>6. /\ h =< num /\ \A i \in DOMAIN took : took[i] < h /\ took[i] = i
      /\ \A m \in DOMAIN q : q[m].type = "data" /\ q[m].conn = c /\ 1 < m => h < q[m].n
  <2>1. 1 \in DOMAIN q /\ q[1].type = "data" /\ q[1].conn = c /\ q[1].n = h
    BY <1>2, <1>3
  <2> QED
    BY <2>1, Zenon DEF Follows, Complete, Prefix1
<1>7. h >= 1
  <2>1. Head(q) \in [type : {"data"}, conn : TcpConn, n : 1..MaxData]
    BY <1>2, Zenon DEF TcpEvent
  <2> QED
    BY <1>3, <2>1, StAssumption
<1>8. h >= Len(took) + 1
  <2>1. CASE Len(took) = 0
    BY <1>7, <2>1
  <2>2. CASE Len(took) # 0
    <3>1. Len(took) \in DOMAIN took
      BY <1>5, <2>2
    <3>2. Len(took) < h
      BY <1>6, <3>1, Zenon
    <3> QED
      BY <1>5, <3>2
  <2> QED
    BY <2>1, <2>2, Zenon
<1>9. h = Len(took) + 1
  <2>1. Len(took) + 1 \in (Len(took) + 1)..num
    BY <1>5, <1>6, <1>8
  <2>2. PICK k \in DOMAIN q : q[k] = Ev("data", c, Len(took) + 1)
    BY <2>1, Zenon DEF Complete
  <2>3. q[k].type = "data" /\ q[k].conn = c /\ q[k].n = Len(took) + 1
    BY <2>2 DEF Ev
  <2>4. CASE k = 1
    BY <1>2, <1>3, <2>3, <2>4, Zenon
  <2>5. CASE 1 < k
    BY <1>5, <1>6, <1>8, <2>3, <2>5
  <2> QED
    BY <1>2, <2>4, <2>5
<1>10. Prefix1(t)
  BY <1>5, <1>6, <1>9 DEF Prefix1
<1>11. ASSUME NEW i \in (Len(t) + 1)..num PROVE \E k \in DOMAIN r : r[k] = Ev("data", c, i)
  <2>1. i \in (Len(took) + 1)..num /\ i # h
    BY <1>5, <1>9
  <2>2. PICK k \in DOMAIN q : q[k] = Ev("data", c, i)
    BY <2>1, Zenon DEF Complete
  <2>3. k # 1
    BY <1>2, <1>3, <2>1, <2>2, EvFields
  <2>4. k - 1 \in DOMAIN r /\ r[k - 1] = q[k]
    BY <1>2, <2>3
  <2> QED
    BY <2>2, <2>4, Zenon
<1>12. Complete(r, c, t, num)
  BY <1>10, <1>11, Zenon DEF Complete
<1> QED
  BY <1>1, <1>3, <1>4, <1>12, Zenon


LEMMA AddOthers ==
    ASSUME NEW q \in Seq(TcpEvent), NEW e \in TcpEvent, NEW c \in TcpConn
    PROVE  /\ OpenOnce(q, c) /\ (e # Ev("open", c, 0) \/ Without(q, Ev("open", c, 0))) => OpenOnce(Append(q, e), c)
           /\ \A x : /\ Without(q, x) /\ e # x => Without(Append(q, e), x)
                     /\ ~Without(q, x) \/ e = x => ~Without(Append(q, e), x)
           /\ NoneOf(q, c) /\ e.conn # c => NoneOf(Append(q, e), c)
           /\ OpenFirst(q, c) /\ (e.conn = c => e = Ev("open", c, 0) \/ ~Without(q, Ev("open", c, 0)))
                => OpenFirst(Append(q, e), c)
<1>1. PICK r : r = Append(q, e)
  BY Zenon
<1>2. /\ DOMAIN q = 1..Len(q) /\ DOMAIN r = 1..(Len(q) + 1) /\ Len(q) \in Nat
      /\ \A k \in 1..Len(q) : r[k] = q[k]
      /\ r[Len(q) + 1] = e
  BY <1>1, Added
<1>3. /\ Len(q) + 1 \in DOMAIN r
      /\ \A k \in DOMAIN q : k \in DOMAIN r /\ r[k] = q[k] /\ k =< Len(q) + 1
      /\ \A k \in DOMAIN r : k \in DOMAIN q \/ k = Len(q) + 1
  BY <1>2
<1>4. OpenOnce(q, c) /\ (e # Ev("open", c, 0) \/ Without(q, Ev("open", c, 0))) => OpenOnce(r, c)
  BY <1>2, <1>3, Zenon DEF OpenOnce, Without
<1>5. \A x : /\ Without(q, x) /\ e # x => Without(r, x)
             /\ ~Without(q, x) \/ e = x => ~Without(r, x)
  BY <1>2, <1>3, Zenon DEF Without
<1>6. NoneOf(q, c) /\ e.conn # c => NoneOf(r, c)
  BY <1>2, <1>3, Zenon DEF NoneOf
<1>7. ASSUME OpenFirst(q, c), e.conn = c => e = Ev("open", c, 0) \/ ~Without(q, Ev("open", c, 0))
      PROVE  OpenFirst(r, c)
  <2>1. ASSUME NEW j \in DOMAIN r, r[j].conn = c PROVE \E k \in DOMAIN r : k =< j /\ r[k] = Ev("open", c, 0)
    <3>1. CASE j \in DOMAIN q
      <4>1. PICK k \in DOMAIN q : k =< j /\ q[k] = Ev("open", c, 0)
        BY <1>3, <1>7, <2>1, <3>1, Zenon DEF OpenFirst
      <4> QED
        BY <1>3, <4>1, Zenon
    <3>2. CASE j = Len(q) + 1 /\ e = Ev("open", c, 0)
      BY <1>2, <1>3, <3>2
    <3>3. CASE j = Len(q) + 1 /\ e # Ev("open", c, 0)
      <4>1. PICK k \in DOMAIN q : q[k] = Ev("open", c, 0)
        BY <1>2, <1>7, <2>1, <3>3, Zenon DEF Without
      <4> QED
        BY <1>3, <3>3, <4>1, Zenon
    <3> QED
      BY <1>3, <3>1, <3>2, <3>3, Zenon
  <2> QED
    BY <2>1, Zenon DEF OpenFirst
<1> QED
  BY <1>1, <1>4, <1>5, <1>6, <1>7, Zenon

LEMMA DropOthers ==
    ASSUME NEW q \in Seq(TcpEvent), q # <<>>, NEW c \in TcpConn
    PROVE  /\ OpenOnce(q, c) => OpenOnce(Tail(q), c)
           /\ OpenOnce(q, c) /\ Head(q) = Ev("open", c, 0) => Without(Tail(q), Ev("open", c, 0))
           /\ \A x : /\ Without(q, x) => Without(Tail(q), x)
                     /\ ~Without(q, x) /\ Head(q) # x => ~Without(Tail(q), x)
           /\ NoneOf(q, c) => NoneOf(Tail(q), c) /\ Head(q).conn # c
           /\ OpenFirst(q, c) /\ Head(q).conn # c => OpenFirst(Tail(q), c)
           /\ OpenFirst(q, c) /\ Head(q).conn = c => Head(q) = Ev("open", c, 0)
           /\ \A x : Without(q, x) => Head(q) # x
<1>1. PICK r : r = Tail(q)
  BY Zenon
<1>2. /\ DOMAIN q = 1..Len(q) /\ DOMAIN r = 1..(Len(q) - 1) /\ Len(q) \in Nat \ {0}
      /\ \A k \in 1..(Len(q) - 1) : r[k] = q[k + 1]
      /\ q[1] = Head(q)
  BY <1>1, Removed, Zenon
<1>3. /\ 1 \in DOMAIN q
      /\ \A k \in DOMAIN r : k + 1 \in DOMAIN q /\ r[k] = q[k + 1] /\ k + 1 # 1 /\ k \in Nat
      /\ \A k \in DOMAIN q : k = 1 \/ (k - 1 \in DOMAIN r /\ r[k - 1] = q[k])
      /\ \A k \in DOMAIN q : k =< 1 => k = 1
      /\ \A j, k \in DOMAIN r : j + 1 = k + 1 => j = k
      /\ \A j \in DOMAIN r, k \in DOMAIN q : k =< j + 1 => k - 1 =< j
  BY <1>2
<1>4. OpenOnce(q, c) => OpenOnce(r, c)
  <2>1. ASSUME OpenOnce(q, c), NEW j \in DOMAIN r, NEW k \in DOMAIN r,
               r[j] = Ev("open", c, 0), r[k] = Ev("open", c, 0)
        PROVE  j = k
    <3>1. j + 1 \in DOMAIN q /\ k + 1 \in DOMAIN q /\ q[j + 1] = Ev("open", c, 0) /\ q[k + 1] = Ev("open", c, 0)
      BY <1>3, <2>1, Zenon
    <3>2. j + 1 = k + 1
      BY <2>1, <3>1, Zenon DEF OpenOnce
    <3> QED
      BY <1>3, <3>2, Zenon
  <2> QED
    BY <2>1, Zenon DEF OpenOnce
<1>5. OpenOnce(q, c) /\ Head(q) = Ev("open", c, 0) => Without(r, Ev("open", c, 0))
  BY <1>2, <1>3, Zenon DEF OpenOnce, Without
<1>6. \A x : /\ Without(q, x) => Without(r, x)
             /\ ~Without(q, x) /\ Head(q) # x => ~Without(r, x)
  <2>1. ASSUME NEW x, Without(q, x) PROVE Without(r, x)
    BY <1>3, <2>1, Zenon DEF Without
  <2>2. ASSUME NEW x, ~Without(q, x), Head(q) # x PROVE ~Without(r, x)
    <3>1. PICK k \in DOMAIN q : q[k] = x
      BY <2>2, Zenon DEF Without
    <3>2. k # 1
      BY <1>2, <2>2, <3>1, Zenon
    <3> QED
      BY <1>3, <3>1, <3>2, Zenon DEF Without
  <2> QED
    BY <2>1, <2>2, Zenon
<1>7. NoneOf(q, c) => NoneOf(r, c) /\ Head(q).conn # c
  <2>1. ASSUME NoneOf(q, c), NEW k \in DOMAIN r PROVE r[k].conn # c
    <3>1. k + 1 \in DOMAIN q /\ r[k] = q[k + 1]
      BY <1>3, Zenon
    <3>2. q[k + 1].conn # c
      BY <2>1, <3>1, Zenon DEF NoneOf
    <3> QED
      BY <3>1, <3>2, Zenon
  <2>2. NoneOf(q, c) => q[1].conn # c
    BY <1>3, Zenon DEF NoneOf
  <2> QED
    BY <1>2, <2>1, <2>2, Zenon DEF NoneOf
<1>8. ASSUME OpenFirst(q, c), Head(q).conn # c PROVE OpenFirst(r, c)
  <2>1. ASSUME NEW j \in DOMAIN r, r[j].conn = c PROVE \E k \in DOMAIN r : k =< j /\ r[k] = Ev("open", c, 0)
    <3>1. PICK k \in DOMAIN q : k =< j + 1 /\ q[k] = Ev("open", c, 0)
      BY <1>3, <1>8, <2>1, Zenon DEF OpenFirst
    <3>2. k # 1
      BY <1>2, <1>8, <3>1, EvFields
    <3> QED
      BY <1>3, <3>1, <3>2, Zenon
  <2> QED
    BY <2>1, Zenon DEF OpenFirst
<1>9. OpenFirst(q, c) /\ Head(q).conn = c => Head(q) = Ev("open", c, 0)
  <2>1. ASSUME OpenFirst(q, c), Head(q).conn = c PROVE Head(q) = Ev("open", c, 0)
    <3>1. PICK k \in DOMAIN q : k =< 1 /\ q[k] = Ev("open", c, 0)
      BY <1>2, <1>3, <2>1, Zenon DEF OpenFirst
    <3> QED
      BY <1>2, <1>3, <3>1, Zenon
  <2> QED
    BY <2>1, Zenon
<1>10. \A x : Without(q, x) => Head(q) # x
  BY <1>2, <1>3, Zenon DEF Without
<1> QED
  BY <1>1, <1>4, <1>5, <1>6, <1>7, <1>8, <1>9, <1>10, Zenon


\* The moves of one connection.  Events and chunks of another change nothing.
ChanType(f, b, got, recv, p, l) ==
    /\ f \in Seq(TcpEvent) /\ b \in Seq(TcpEvent) /\ got \in Seq(Nat) /\ recv \in Seq(Nat)
    /\ p \in Pubs /\ l \in Locals

LEMMA FlowOther ==
    ASSUME NEW c \in TcpConn, NEW f, NEW b, NEW got, NEW recv, NEW p, NEW l, ChanType(f, b, got, recv, p, l),
           NEW g, \/ \E e \in TcpEvent : e.conn # c /\ g = Append(f, e)
                  \/ f # <<>> /\ Head(f).conn # c /\ g = Tail(f),
           TcpAlways(c, f, b, got, recv, p, l)
    PROVE  /\ TcpAlways(c, g, b, got, recv, p, l)
           /\ TcpUntainted(c, f, b, got, recv, p, l) => TcpUntainted(c, g, b, got, recv, p, l)
<1>t. f \in Seq(TcpEvent) /\ got \in Seq(Nat) /\ p.n \in Nat
  BY Zenon DEF ChanType, Pubs
<1>1. /\ Follows(f, c, got, p.n) => Follows(g, c, got, p.n)
      /\ Complete(f, c, got, p.n) => Complete(g, c, got, p.n)
      /\ OpenOnce(f, c) => OpenOnce(g, c)
      /\ \A t : Without(f, Ev(t, c, 0)) <=> Without(g, Ev(t, c, 0))
      /\ NoneOf(f, c) => NoneOf(g, c)
      /\ OpenFirst(f, c) => OpenFirst(g, c)
  <2>1. CASE \E e \in TcpEvent : e.conn # c /\ g = Append(f, e)
    <3>1. PICK e \in TcpEvent : e.conn # c /\ g = Append(f, e)
      BY <2>1, Zenon
    <3>2. \A t : e # Ev(t, c, 0)
      BY <3>1, EvFields
    <3>3. Follows(f, c, got, p.n) => Follows(g, c, got, p.n)
      BY <1>t, <3>1, AddFollows, Zenon
    <3>4. Complete(f, c, got, p.n) => Complete(g, c, got, p.n)
      BY <1>t, <3>1, AddComplete, Zenon
    <3>5. /\ OpenOnce(f, c) /\ e # Ev("open", c, 0) => OpenOnce(g, c)
          /\ \A x : e # x => (Without(f, x) <=> Without(g, x))
          /\ NoneOf(f, c) => NoneOf(g, c)
          /\ OpenFirst(f, c) => OpenFirst(g, c)
      BY <1>t, <3>1, AddOthers, Zenon
    <3> QED
      BY <3>2, <3>3, <3>4, <3>5, Zenon
  <2>2. CASE f # <<>> /\ Head(f).conn # c /\ g = Tail(f)
    <3>2. \A t : Head(f) # Ev(t, c, 0)
      BY <2>2, EvFields
    <3>3. Follows(f, c, got, p.n) => Follows(g, c, got, p.n)
      BY <1>t, <2>2, DropFollows, Zenon
    <3>4. Complete(f, c, got, p.n) => Complete(g, c, got, p.n)
      BY <1>t, <2>2, DropComplete, Zenon
    <3> QED
      BY <1>t, <2>2, <3>2, <3>3, <3>4, DropOthers, Zenon
  <2> QED
    BY <2>1, <2>2, Zenon
<1> QED
  BY <1>1, Zenon DEF TcpAlways, TcpUntainted

LEMMA BackOther ==
    ASSUME NEW c \in TcpConn, NEW f, NEW b, NEW got, NEW recv, NEW p, NEW l, ChanType(f, b, got, recv, p, l),
           NEW g, \/ \E e \in TcpEvent : e.conn # c /\ g = Append(b, e)
                  \/ b # <<>> /\ Head(b).conn # c /\ g = Tail(b),
           TcpAlways(c, f, b, got, recv, p, l)
    PROVE  /\ TcpAlways(c, f, g, got, recv, p, l)
           /\ TcpUntainted(c, f, b, got, recv, p, l) => TcpUntainted(c, f, g, got, recv, p, l)
<1>t. b \in Seq(TcpEvent) /\ recv \in Seq(Nat) /\ l.n \in Nat
  BY Zenon DEF ChanType, Locals
<1>1. /\ Follows(b, c, recv, l.n) => Follows(g, c, recv, l.n)
      /\ Complete(b, c, recv, l.n) => Complete(g, c, recv, l.n)
      /\ \A t : Without(b, Ev(t, c, 0)) <=> Without(g, Ev(t, c, 0))
  <2>1. CASE \E e \in TcpEvent : e.conn # c /\ g = Append(b, e)
    <3>1. PICK e \in TcpEvent : e.conn # c /\ g = Append(b, e)
      BY <2>1, Zenon
    <3>2. \A t : e # Ev(t, c, 0)
      BY <3>1, EvFields
    <3>3. Follows(b, c, recv, l.n) => Follows(g, c, recv, l.n)
      BY <1>t, <3>1, AddFollows, Zenon
    <3>4. Complete(b, c, recv, l.n) => Complete(g, c, recv, l.n)
      BY <1>t, <3>1, AddComplete, Zenon
    <3>5. \A x : e # x => (Without(b, x) <=> Without(g, x))
      BY <1>t, <3>1, AddOthers, Zenon
    <3> QED
      BY <3>2, <3>3, <3>4, <3>5, Zenon
  <2>2. CASE b # <<>> /\ Head(b).conn # c /\ g = Tail(b)
    <3>2. \A t : Head(b) # Ev(t, c, 0)
      BY <2>2, EvFields
    <3>3. Follows(b, c, recv, l.n) => Follows(g, c, recv, l.n)
      BY <1>t, <2>2, DropFollows, Zenon
    <3>4. Complete(b, c, recv, l.n) => Complete(g, c, recv, l.n)
      BY <1>t, <2>2, DropComplete, Zenon
    <3> QED
      BY <1>t, <2>2, <3>2, <3>3, <3>4, DropOthers, Zenon
  <2> QED
    BY <2>1, <2>2, Zenon
<1> QED
  BY <1>1, Zenon DEF TcpAlways, TcpUntainted

LEMMA FollowsMore ==
    ASSUME NEW q \in Seq(TcpEvent), NEW c, NEW took \in Seq(Nat), NEW num \in Nat, Follows(q, c, took, num)
    PROVE  Follows(q, c, took, num + 1)
<1>1. \A k \in DOMAIN q : q[k].n \in Nat
  BY EventType
<1>2. \A i \in DOMAIN took : took[i] \in Nat
  OBVIOUS
<1> QED
  BY <1>1, <1>2 DEF Follows


\* readPublicTCP and acceptTCPConnections send an event of c ...
LEMMA FlowSend ==
    ASSUME NEW c \in TcpConn, NEW f, NEW b, NEW got, NEW recv, NEW p, NEW l, ChanType(f, b, got, recv, p, l),
           NEW e \in TcpEvent, e.conn = c, NEW p2 \in Pubs, p2.state = p.state,
           \/ e.type = "open" /\ p.reader = "announce" /\ p2.reader = "read" /\ p2.n = p.n
           \/ e.type = "data" /\ p.reader = "read" /\ p2.reader = "read" /\ p2.n = p.n + 1 /\ e.n = p2.n
           \/ e.type = "close" /\ p.reader = "read" /\ p2.reader = "closing" /\ p2.n = p.n,
           TcpAlways(c, f, b, got, recv, p, l)
    PROVE  /\ TcpAlways(c, Append(f, e), b, got, recv, p2, l)
           /\ TcpUntainted(c, f, b, got, recv, p, l) => TcpUntainted(c, Append(f, e), b, got, recv, p2, l)
<1>1. PICK g : g = Append(f, e)
  BY Zenon
<1>t. f \in Seq(TcpEvent) /\ got \in Seq(Nat) /\ p.n \in Nat /\ p2.n \in Nat
  BY Zenon DEF ChanType, Pubs
<1>2. IF e.type = "data" /\ e.conn = c THEN p2.n = p.n + 1 /\ e.n = p2.n ELSE p2.n = p.n
  BY Zenon
<1>3. Follows(g, c, got, p2.n)
  BY <1>1, <1>t, <1>2, AddFollows, Zenon DEF TcpAlways
<1>4. Complete(f, c, got, p.n) => Complete(g, c, got, p2.n)
  BY <1>1, <1>t, <1>2, AddComplete, Zenon
<1>5. e = Ev(e.type, c, e.n) /\ (e.type # "data" => e.n = 0)
  BY EventType, Zenon
<1>6. e.type # "open" => e # Ev("open", c, 0)
  BY EvFields
<1>7. e.type = "open" => l.state = "none" /\ NoneOf(f, c) /\ Without(f, Ev("open", c, 0)) /\ e = Ev("open", c, 0)
  <2>1. e.type = "open" => l.state = "none" /\ NoneOf(f, c)
    BY Zenon DEF TcpAlways
  <2>2. NoneOf(f, c) => Without(f, Ev("open", c, 0))
    BY EvFields DEF NoneOf, Without
  <2> QED
    BY <1>5, <2>1, <2>2, Zenon
<1>8. OpenOnce(g, c)
  BY <1>1, <1>t, <1>6, <1>7, AddOthers, Zenon DEF TcpAlways
<1>9. l.state # "none" => Without(g, Ev("open", c, 0))
  <2>1. l.state # "none" => Without(f, Ev("open", c, 0)) /\ e # Ev("open", c, 0)
    BY <1>6, <1>7, Zenon DEF TcpAlways
  <2> QED
    BY <1>1, <1>t, <2>1, AddOthers, Zenon
<1>10. p2.reader \in {"read", "closing"}
  BY Zenon
<1>11. TcpAlways(c, g, b, got, recv, p2, l)
  BY <1>3, <1>8, <1>9, <1>10, Zenon DEF TcpAlways
<1>12. ASSUME TcpUntainted(c, f, b, got, recv, p, l) PROVE TcpUntainted(c, g, b, got, recv, p2, l)
  <2>1. l.state # "closed" => Complete(g, c, got, p2.n)
    BY <1>4, <1>12, Zenon DEF TcpUntainted
  <2>2. l.state = "none" => OpenFirst(g, c) /\ ~Without(g, Ev("open", c, 0))
    <3>1. CASE e.type = "open"
      BY <1>1, <1>t, <1>7, <1>12, <3>1, AddOthers DEF TcpUntainted
    <3>2. CASE e.type # "open"
      <4>1. l.state = "none" => OpenFirst(f, c) /\ ~Without(f, Ev("open", c, 0))
        BY <1>12, <3>2, Zenon DEF TcpUntainted
      <4> QED
        BY <1>1, <1>t, <4>1, AddOthers, Zenon
    <3> QED
      BY <3>1, <3>2, Zenon
  <2>3. p2.reader \in {"closing", "done"} => ~Without(g, Ev("close", c, 0))
    <3>1. p2.reader \in {"closing", "done"} => e = Ev("close", c, 0)
      BY <1>5, Zenon
    <3> QED
      BY <1>1, <1>t, <3>1, AddOthers, Zenon
  <2> QED
    BY <1>12, <2>1, <2>2, <2>3, Zenon DEF TcpUntainted
<1> QED
  BY <1>1, <1>11, <1>12, Zenon

\* ... which a QUIC daemon does not see when QUICSend is full.
LEMMA FlowSkip ==
    ASSUME NEW c \in TcpConn, NEW f, NEW b, NEW got, NEW recv, NEW p, NEW l, ChanType(f, b, got, recv, p, l),
           NEW p2 \in Pubs, p2.state = p.state, p2.reader \in {"read", "closing"}, p2.n \in {p.n, p.n + 1},
           TcpAlways(c, f, b, got, recv, p, l)
    PROVE  TcpAlways(c, f, b, got, recv, p2, l)
<1>t. f \in Seq(TcpEvent) /\ got \in Seq(Nat) /\ p.n \in Nat
  BY Zenon DEF ChanType, Pubs
<1>1. Follows(f, c, got, p2.n)
  BY <1>t, FollowsMore, Zenon DEF TcpAlways
<1> QED
  BY <1>1, Zenon DEF TcpAlways

\* closeTCPPublicConn and Accept: the public connection alone.
LEMMA PubMove ==
    ASSUME NEW c \in TcpConn, NEW f, NEW b, NEW got, NEW recv, NEW p, NEW l, ChanType(f, b, got, recv, p, l),
           NEW p2 \in Pubs, p2.n = p.n,
           \/ p.reader = "off" /\ p2.reader = "announce"
           \/ p.reader = "closing" /\ p2.reader = "done" /\ p2.state = "closed",
           TcpAlways(c, f, b, got, recv, p, l)
    PROVE  /\ TcpAlways(c, f, b, got, recv, p2, l)
           /\ TcpUntainted(c, f, b, got, recv, p, l) => TcpUntainted(c, f, b, got, recv, p2, l)
<1>1. TcpAlways(c, f, b, got, recv, p2, l)
  BY Zenon DEF TcpAlways
<1>2. ASSUME TcpUntainted(c, f, b, got, recv, p, l), p.reader = "closing" PROVE TcpUntainted(c, f, b, got, recv, p2, l)
  BY <1>2, Zenon DEF TcpUntainted
<1>3. ASSUME TcpUntainted(c, f, b, got, recv, p, l), p.reader = "off" PROVE TcpUntainted(c, f, b, got, recv, p2, l)
  <2>1. l.state = "none" /\ l.n = 0 /\ l.reader = "off"
    BY <1>3, Zenon DEF TcpAlways
  <2>2. Complete(b, c, recv, l.n)
    <3>1. recv \in Seq(Nat)
      BY Zenon DEF ChanType
    <3> QED
      BY <2>1, <1>3, <3>1 DEF Complete, TcpUntainted
  <2> QED
    BY <1>3, <2>1, <2>2, Zenon DEF TcpUntainted
<1> QED
  BY <1>1, <1>2, <1>3, Zenon


\* handleTCPEvent of an event of c.  An open event makes the local connection,
\* or tells the relay that there is none.
LEMMA FlowOpen ==
    ASSUME NEW c \in TcpConn, NEW f, NEW b, NEW got, NEW recv, NEW p, NEW l, ChanType(f, b, got, recv, p, l),
           f # <<>>, Head(f) = Ev("open", c, 0), NEW l2 \in Locals, l2.n = l.n,
           \/ l2.state = "open" /\ l2.reader = "read"
           \/ l2.state = "closed" /\ l2.reader = "done",
           TcpAlways(c, f, b, got, recv, p, l)
    PROVE  /\ TcpAlways(c, Tail(f), b, got, recv, p, l2)
           /\ /\ TcpUntainted(c, f, b, got, recv, p, l)
              /\ l2.reader = "done" => p.state # "open" \/ ~Without(b, Ev("close", c, 0))
              => TcpUntainted(c, Tail(f), b, got, recv, p, l2)
<1>1. PICK g : g = Tail(f)
  BY Zenon
<1>t. f \in Seq(TcpEvent)
  BY Zenon DEF ChanType
<1>2. Head(f).type = "open" /\ Head(f).conn = c /\ Head(f) # Ev("close", c, 0)
  BY EvFields
<1>3. Follows(g, c, got, p.n)
  BY <1>1, <1>t, DropFollows, Zenon DEF TcpAlways
<1>4. Without(g, Ev("open", c, 0)) /\ OpenOnce(g, c)
  BY <1>1, <1>t, DropOthers, Zenon DEF TcpAlways
<1>5. p.reader \notin {"off", "announce"} /\ l.state = "none"
  <2>1. ~NoneOf(f, c)
    BY <1>t, <1>2, DropOthers, Zenon
  <2>2. ~Without(f, Ev("open", c, 0))
    BY <1>t, DropOthers, Zenon
  <2> QED
    BY <2>1, <2>2, Zenon DEF TcpAlways
<1>6. TcpAlways(c, g, b, got, recv, p, l2)
  BY <1>3, <1>4, <1>5, Zenon DEF TcpAlways
<1>7. ASSUME TcpUntainted(c, f, b, got, recv, p, l),
             l2.reader = "done" => p.state # "open" \/ ~Without(b, Ev("close", c, 0))
      PROVE  TcpUntainted(c, g, b, got, recv, p, l2)
  <2>1. Complete(f, c, got, p.n)
    BY <1>5, <1>7, Zenon DEF TcpUntainted
  <2>2. Complete(g, c, got, p.n)
    BY <1>1, <1>t, <1>2, <2>1, DropComplete, Zenon
  <2>3. p.reader \in {"closing", "done"} => ~Without(g, Ev("close", c, 0))
    <3>1. p.reader \in {"closing", "done"} => ~Without(f, Ev("close", c, 0))
      BY <1>5, <1>7, Zenon DEF TcpUntainted
    <3> QED
      BY <1>1, <1>t, <1>2, <3>1, DropOthers, Zenon
  <2> QED
    BY <1>7, <2>2, <2>3, Zenon DEF TcpUntainted
<1> QED
  BY <1>1, <1>6, <1>7, Zenon

\* Data goes to the local connection, if that is open.
LEMMA FlowData ==
    ASSUME NEW c \in TcpConn, NEW f, NEW b, NEW got, NEW recv, NEW p, NEW l, ChanType(f, b, got, recv, p, l),
           f # <<>>, Head(f).type = "data", Head(f).conn = c,
           NEW got2, got2 = IF l.state = "open" THEN Append(got, Head(f).n) ELSE got,
           TcpAlways(c, f, b, got, recv, p, l)
    PROVE  /\ TcpAlways(c, Tail(f), b, got2, recv, p, l)
           /\ TcpUntainted(c, f, b, got, recv, p, l) => TcpUntainted(c, Tail(f), b, got2, recv, p, l)
<1>1. PICK g : g = Tail(f)
  BY Zenon
<1>t. f \in Seq(TcpEvent) /\ got \in Seq(Nat) /\ p.n \in Nat
  BY Zenon DEF ChanType, Pubs
<1>2. Head(f) # Ev("close", c, 0) /\ Head(f) # Ev("open", c, 0)
  BY EvFields
<1>3. Follows(g, c, got2, p.n)
  BY <1>1, <1>t, DropFollows, TakeFollows, Zenon DEF TcpAlways
<1>4. /\ Without(f, Ev("open", c, 0)) => Without(g, Ev("open", c, 0))
      /\ OpenOnce(g, c)
      /\ ~NoneOf(f, c)
      /\ ~Without(f, Ev("close", c, 0)) => ~Without(g, Ev("close", c, 0))
      /\ OpenFirst(f, c) => FALSE
  BY <1>1, <1>t, <1>2, DropOthers, Zenon DEF TcpAlways
<1>6. TcpAlways(c, g, b, got2, recv, p, l)
  BY <1>3, <1>4, Zenon DEF TcpAlways
<1>7. ASSUME TcpUntainted(c, f, b, got, recv, p, l) PROVE TcpUntainted(c, g, b, got2, recv, p, l)
  <2>1. l.state # "none"
    BY <1>4, <1>7, Zenon DEF TcpUntainted
  <2>2. CASE l.state = "open"
    <3>1. Complete(g, c, got2, p.n)
      BY <1>1, <1>t, <1>7, <2>2, TakeComplete, Zenon DEF TcpUntainted, TcpAlways
    <3> QED
      BY <1>4, <1>7, <2>2, <3>1, Zenon DEF TcpUntainted, Complete
  <2>3. CASE l.state = "closed"
    BY <1>7, <2>3, Zenon DEF TcpUntainted
  <2> QED
    BY <2>1, <2>2, <2>3, Zenon DEF ChanType, Locals
<1> QED
  BY <1>1, <1>6, <1>7, Zenon

\* A close event closes the local connection.
LEMMA FlowClose ==
    ASSUME NEW c \in TcpConn, NEW f, NEW b, NEW got, NEW recv, NEW p, NEW l, ChanType(f, b, got, recv, p, l),
           f # <<>>, Head(f) = Ev("close", c, 0), NEW l2 \in Locals, l2.n = l.n, l2.reader = l.reader,
           l2.state = (IF l.state = "open" THEN "closed" ELSE l.state),
           TcpAlways(c, f, b, got, recv, p, l)
    PROVE  /\ TcpAlways(c, Tail(f), b, got, recv, p, l2)
           /\ TcpUntainted(c, f, b, got, recv, p, l) => TcpUntainted(c, Tail(f), b, got, recv, p, l2)
<1>1. PICK g : g = Tail(f)
  BY Zenon
<1>t. f \in Seq(TcpEvent) /\ l.state \in {"none", "open", "closed"}
  BY Zenon DEF ChanType, Locals
<1>2. Head(f).type = "close" /\ Head(f).conn = c /\ Head(f) # Ev("open", c, 0)
  BY EvFields
<1>3. Follows(g, c, got, p.n)
  BY <1>1, <1>t, DropFollows, Zenon DEF TcpAlways
<1>4. /\ Without(f, Ev("open", c, 0)) => Without(g, Ev("open", c, 0))
      /\ OpenOnce(g, c)
      /\ ~NoneOf(f, c)
      /\ OpenFirst(f, c) => FALSE
  BY <1>1, <1>t, <1>2, DropOthers, Zenon DEF TcpAlways
<1>6. TcpAlways(c, g, b, got, recv, p, l2)
  BY <1>3, <1>4, Zenon DEF TcpAlways
<1>7. ASSUME TcpUntainted(c, f, b, got, recv, p, l) PROVE TcpUntainted(c, g, b, got, recv, p, l2)
  <2>1. l2.state = "closed"
    BY <1>t, <1>4, <1>7, Zenon DEF TcpUntainted
  <2> QED
    BY <1>7, <2>1, Zenon DEF TcpUntainted
<1> QED
  BY <1>1, <1>6, <1>7, Zenon

\* An event of c, or of another connection, that is lost on the way.
LEMMA FlowLost ==
    ASSUME NEW c \in TcpConn, NEW f, NEW b, NEW got, NEW recv, NEW p, NEW l, ChanType(f, b, got, recv, p, l),
           f # <<>>, TcpAlways(c, f, b, got, recv, p, l)
    PROVE  TcpAlways(c, Tail(f), b, got, recv, p, l)
<1>1. PICK g : g = Tail(f)
  BY Zenon
<1>t. f \in Seq(TcpEvent)
  BY Zenon DEF ChanType
<1>3. Follows(g, c, got, p.n)
  BY <1>1, <1>t, DropFollows, Zenon DEF TcpAlways
<1>4. /\ Without(f, Ev("open", c, 0)) => Without(g, Ev("open", c, 0))
      /\ OpenOnce(g, c)
      /\ NoneOf(f, c) => NoneOf(g, c)
  BY <1>1, <1>t, DropOthers, Zenon DEF TcpAlways
<1> QED
  BY <1>1, <1>3, <1>4, Zenon DEF TcpAlways


\* readLocalTCP posts data of c, ...
LEMMA BackData ==
    ASSUME NEW c \in TcpConn, NEW f, NEW b, NEW got, NEW recv, NEW p, NEW l, ChanType(f, b, got, recv, p, l),
           l.state = "open", NEW l2 \in Locals, l2.state = l.state, l2.reader = l.reader, l2.n = l.n + 1,
           NEW e \in TcpEvent, e = Ev("data", c, l2.n),
           TcpAlways(c, f, b, got, recv, p, l)
    PROVE  /\ TcpAlways(c, f, Append(b, e), got, recv, p, l2)
           /\ TcpUntainted(c, f, b, got, recv, p, l) => TcpUntainted(c, f, Append(b, e), got, recv, p, l2)
<1>1. PICK g : g = Append(b, e)
  BY Zenon
<1>t. b \in Seq(TcpEvent) /\ recv \in Seq(Nat) /\ l.n \in Nat /\ l2.n \in Nat
  BY Zenon DEF ChanType, Locals
<1>2. e.type = "data" /\ e.conn = c /\ e.n = l2.n
  BY EvFields
<1>3. Follows(g, c, recv, l2.n)
  BY <1>1, <1>t, <1>2, AddFollows, Zenon DEF TcpAlways
<1>4. Complete(b, c, recv, l.n) => Complete(g, c, recv, l2.n)
  BY <1>1, <1>t, <1>2, AddComplete, Zenon
<1>5. ~Without(b, Ev("close", c, 0)) => ~Without(g, Ev("close", c, 0))
  BY <1>1, <1>t, AddOthers
<1>6. TcpAlways(c, f, g, got, recv, p, l2)
  BY <1>3, Zenon DEF TcpAlways
<1>7. TcpUntainted(c, f, b, got, recv, p, l) => TcpUntainted(c, f, g, got, recv, p, l2)
  BY <1>4, <1>5, Zenon DEF TcpUntainted
<1> QED
  BY <1>1, <1>6, <1>7, Zenon

\* ... which may be lost, ...
LEMMA BackLost ==
    ASSUME NEW c \in TcpConn, NEW f, NEW b, NEW got, NEW recv, NEW p, NEW l, ChanType(f, b, got, recv, p, l),
           l.state = "open", NEW l2 \in Locals, l2.state = l.state, l2.reader = l.reader, l2.n = l.n + 1,
           TcpAlways(c, f, b, got, recv, p, l)
    PROVE  TcpAlways(c, f, b, got, recv, p, l2)
<1>t. b \in Seq(TcpEvent) /\ recv \in Seq(Nat) /\ l.n \in Nat
  BY Zenon DEF ChanType, Locals
<1>1. Follows(b, c, recv, l2.n)
  BY <1>t, FollowsMore, Zenon DEF TcpAlways
<1> QED
  BY <1>1, Zenon DEF TcpAlways

\* ... or the end of it.
LEMMA BackClose ==
    ASSUME NEW c \in TcpConn, NEW f, NEW b, NEW got, NEW recv, NEW p, NEW l, ChanType(f, b, got, recv, p, l),
           NEW e \in TcpEvent, e = Ev("close", c, 0),
           TcpAlways(c, f, b, got, recv, p, l)
    PROVE  /\ TcpAlways(c, f, Append(b, e), got, recv, p, l) /\ ~Without(Append(b, e), Ev("close", c, 0))
           /\ TcpUntainted(c, f, b, got, recv, p, l) => TcpUntainted(c, f, Append(b, e), got, recv, p, l)
<1>1. PICK g : g = Append(b, e)
  BY Zenon
<1>t. b \in Seq(TcpEvent) /\ recv \in Seq(Nat) /\ l.n \in Nat
  BY Zenon DEF ChanType, Locals
<1>2. e.type = "close" /\ e.conn = c
  BY EvFields
<1>3. Follows(g, c, recv, l.n)
  BY <1>1, <1>t, <1>2, AddFollows, Zenon DEF TcpAlways
<1>4. Complete(b, c, recv, l.n) => Complete(g, c, recv, l.n)
  BY <1>1, <1>t, <1>2, AddComplete, Zenon
<1>5. ~Without(g, Ev("close", c, 0))
  BY <1>1, <1>t, AddOthers, Zenon
<1>6. TcpAlways(c, f, g, got, recv, p, l)
  BY <1>3, Zenon DEF TcpAlways
<1>7. TcpUntainted(c, f, b, got, recv, p, l) => TcpUntainted(c, f, g, got, recv, p, l)
  BY <1>4, <1>5, Zenon DEF TcpUntainted
<1> QED
  BY <1>1, <1>5, <1>6, <1>7, Zenon

\* handleTCPChunk takes a chunk of c.
LEMMA BackTake ==
    ASSUME NEW c \in TcpConn, NEW f, NEW b, NEW got, NEW recv, NEW p, NEW l, ChanType(f, b, got, recv, p, l),
           b # <<>>, Head(b).conn = c, NEW p2 \in Pubs, p2.n = p.n, p2.reader = p.reader,
           p2.state = (IF p.state = "open" /\ Head(b).type = "close" THEN "closed" ELSE p.state),
           NEW recv2, recv2 = (IF p.state = "open" /\ Head(b).type = "data" THEN Append(recv, Head(b).n) ELSE recv),
           TcpAlways(c, f, b, got, recv, p, l)
    PROVE  /\ TcpAlways(c, f, Tail(b), got, recv2, p2, l)
           /\ TcpUntainted(c, f, b, got, recv, p, l) => TcpUntainted(c, f, Tail(b), got, recv2, p2, l)
<1>1. PICK g : g = Tail(b)
  BY Zenon
<1>t. b \in Seq(TcpEvent) /\ recv \in Seq(Nat) /\ l.n \in Nat
  BY Zenon DEF ChanType, Locals
<1>2. Follows(g, c, recv2, l.n)
  BY <1>1, <1>t, DropFollows, TakeFollows, Zenon DEF TcpAlways
<1>3. TcpAlways(c, f, g, got, recv2, p2, l)
  BY <1>2, Zenon DEF TcpAlways
<1>4. ASSUME TcpUntainted(c, f, b, got, recv, p, l) PROVE TcpUntainted(c, f, g, got, recv2, p2, l)
  <2>1. CASE p.state # "open"
    BY <1>4, <2>1, Zenon DEF TcpUntainted
  <2>2. CASE p.state = "open" /\ Head(b).type = "close"
    BY <1>4, <2>2, Zenon DEF TcpUntainted
  <2>3. CASE p.state = "open" /\ Head(b).type # "close"
    <3>1. Complete(b, c, recv, l.n) /\ Follows(b, c, recv, l.n)
      BY <1>4, <2>3, Zenon DEF TcpUntainted, TcpAlways
    <3>4. Complete(g, c, recv2, l.n)
      <4>1. CASE Head(b).type = "data"
        BY <1>1, <1>t, <2>3, <3>1, <4>1, TakeComplete, Zenon
      <4>2. CASE Head(b).type # "data"
        BY <1>1, <1>t, <2>3, <3>1, <4>2, DropComplete, Zenon
      <4> QED
        BY <4>1, <4>2, Zenon
    <3>5. Head(b) # Ev("close", c, 0)
      BY <2>3, EvFields
    <3>6. ~Without(b, Ev("close", c, 0)) => ~Without(g, Ev("close", c, 0))
      BY <1>1, <1>t, <3>5, DropOthers, Zenon
    <3> QED
      BY <1>4, <2>3, <3>4, <3>6, Zenon DEF TcpUntainted, Complete
  <2> QED
    BY <2>1, <2>2, <2>3, Zenon
<1> QED
  BY <1>1, <1>3, <1>4, Zenon

\* The reader of the local connection ends, once the close chunk is posted.
LEMMA LocalMove ==
    ASSUME NEW c \in TcpConn, NEW f, NEW b, NEW got, NEW recv, NEW p, NEW l, ChanType(f, b, got, recv, p, l),
           NEW l2 \in Locals, l2.n = l.n,
           \/ l.reader = "read" /\ l2.reader = "closing" /\ l2.state = l.state
           \/ l.reader = "closing" /\ l2.reader = "done" /\ l2.state = "closed",
           TcpAlways(c, f, b, got, recv, p, l)
    PROVE  /\ TcpAlways(c, f, b, got, recv, p, l2)
           /\ /\ TcpUntainted(c, f, b, got, recv, p, l)
              /\ l.reader = "read" => p.state # "open" \/ ~Without(b, Ev("close", c, 0))
              => TcpUntainted(c, f, b, got, recv, p, l2)
<1>1. l.state # "none" /\ l2.state # "none"
  BY Zenon DEF TcpAlways
<1>2. TcpAlways(c, f, b, got, recv, p, l2)
  BY <1>1, Zenon DEF TcpAlways
<1>3. ASSUME TcpUntainted(c, f, b, got, recv, p, l),
             l.reader = "read" => p.state # "open" \/ ~Without(b, Ev("close", c, 0))
      PROVE  TcpUntainted(c, f, b, got, recv, p, l2)
  BY <1>1, <1>3, Zenon DEF TcpUntainted
<1> QED
  BY <1>2, <1>3, Zenon

\* The daemon is restarted.
LEMMA Restarted ==
    ASSUME NEW c \in TcpConn, NEW f, NEW b, NEW got, NEW recv, NEW p, NEW l, ChanType(f, b, got, recv, p, l),
           NEW l2 \in Locals,
           IF l.state = "none" THEN l2.state = "none" /\ l2.n = 0 /\ l2.reader = "off"
                               ELSE l2.state = "closed" /\ l2.reader = "done" /\ l2.n = l.n,
           TcpAlways(c, f, b, got, recv, p, l)
    PROVE  TcpAlways(c, f, <<>>, got, recv, p, l2)
<1>1. l2.n = l.n
  BY Zenon DEF TcpAlways
<1>2. Follows(<<>>, c, recv, l2.n)
  <2>1. Follows(b, c, recv, l2.n)
    BY <1>1, Zenon DEF TcpAlways
  <2>2. DOMAIN <<>> = {}
    OBVIOUS
  <2> QED
    BY <2>1, <2>2, Zenon DEF Follows
<1> QED
  BY <1>2, Zenon DEF TcpAlways


\* What the actions do to the events on the way to the daemon.
LEMMA FlowType == TcpShape => StFlow \in Seq(TcpEvent)
  BY FlowOfOne, Zenon DEF TcpShape, StFlow

LEMMA FlowSent ==
    ASSUME TcpShape, NEW e \in TcpEvent, SendTCPEvent(e), UNCHANGED <<stQuic, stHand>>
    PROVE  /\ stQueue' \in Seq(TcpEvent) /\ stSend' \in Seq(TcpEvent)
           /\ \/ StFlow' = Append(StFlow, e) /\ stTaint' = stTaint
              \/ StFlow' = StFlow /\ stTaint' = stTaint \cup {e.conn}
<1>t. stQueue \in Seq(TcpEvent) /\ stSend \in Seq(TcpEvent) /\ (stHand = NoTcp \/ stHand \in TcpEvent)
  BY Zenon DEF TcpShape
<1>1. /\ StFlow = IF stHand = NoTcp THEN (IF stQuic THEN stSend ELSE stQueue)
                                    ELSE <<stHand>> \o (IF stQuic THEN stSend ELSE stQueue)
      /\ StFlow' = IF stHand = NoTcp THEN (IF stQuic THEN stSend' ELSE stQueue')
                                     ELSE <<stHand>> \o (IF stQuic THEN stSend' ELSE stQueue')
  BY Zenon DEF StFlow
<1>2. CASE stQuic /\ stSend' = Append(stSend, e) /\ UNCHANGED <<stQueue, stTaint>>
  <2>1. StFlow' = Append(StFlow, e)
    <3>1. CASE stHand = NoTcp
      BY <1>1, <1>2, <3>1, Zenon
    <3>2. CASE stHand # NoTcp
      BY <1>1, <1>t, <1>2, <3>2, FlowOfOne
    <3> QED
      BY <3>1, <3>2, Zenon
  <2> QED
    BY <1>t, <1>2, <2>1
<1>3. CASE stQuic /\ stQueue' = Append(stQueue, e) /\ stSend' = stSend /\ stTaint' = stTaint \cup {e.conn}
  <2>1. StFlow' = StFlow
    BY <1>1, <1>3, Zenon
  <2> QED
    BY <1>t, <1>3, <2>1
<1>4. CASE ~stQuic /\ stQueue' = Append(stQueue, e) /\ stSend' = stSend /\ stTaint' = stTaint
  <2>1. StFlow' = Append(StFlow, e)
    <3>1. CASE stHand = NoTcp
      BY <1>1, <1>4, <3>1, Zenon
    <3>2. CASE stHand # NoTcp
      BY <1>1, <1>t, <1>4, <3>2, FlowOfOne
    <3> QED
      BY <3>1, <3>2, Zenon
  <2> QED
    BY <1>t, <1>4, <2>1
<1> QED
  BY <1>2, <1>3, <1>4, Zenon DEF SendTCPEvent

LEMMA FlowKept == UNCHANGED <<stQuic, stHand, stQueue, stSend>> => StFlow' = StFlow
  BY DEF StFlow

LEMMA FlowNext ==
    ASSUME TcpShape, NextTCPEvent
    PROVE  /\ StFlow' = StFlow /\ stHand' \in TcpEvent
           /\ stQueue' \in Seq(TcpEvent) /\ stSend' \in Seq(TcpEvent)
<1>t. stQueue \in Seq(TcpEvent) /\ stSend \in Seq(TcpEvent)
  BY Zenon DEF TcpShape
<1>1. PICK q \in Seq(TcpEvent) : q = IF stQuic THEN stSend ELSE stQueue
  BY <1>t, Zenon
<1>2. stHand = NoTcp /\ stQuic' = stQuic /\ q # <<>> /\ stHand' = Head(q)
      /\ (IF stQuic' THEN stSend' ELSE stQueue') = Tail(q)
      /\ stQueue' \in {stQueue, Tail(q)} /\ stSend' \in {stSend, Tail(q)}
  BY <1>1, Zenon DEF NextTCPEvent
<1>3. Tail(q) \in Seq(TcpEvent) /\ Head(q) \in TcpEvent /\ Head(q) # NoTcp
  BY <1>2, Removed, EventType, Zenon
<1>4. StFlow = q /\ StFlow' = <<Head(q)>> \o Tail(q)
  BY <1>1, <1>2, <1>3, Zenon DEF StFlow
<1>5. <<Head(q)>> \o Tail(q) = q
  <2>1. /\ <<Head(q)>> \o Tail(q) \in Seq(TcpEvent) /\ Len(<<Head(q)>> \o Tail(q)) = Len(q)
        /\ Len(q) \in Nat
    BY <1>2, <1>3
  <2>2. \A i \in 1..Len(q) : (<<Head(q)>> \o Tail(q))[i] = q[i]
    BY <1>2, <1>3
  <2> QED
    BY <2>1, <2>2
<1> QED
  BY <1>t, <1>2, <1>3, <1>4, <1>5, Zenon

LEMMA FlowDropped ==
    ASSUME TcpShape, LoseTCPEvent
    PROVE  /\ StFlow # <<>> /\ StFlow' = Tail(StFlow) /\ stTaint' = stTaint \cup {Head(StFlow).conn}
           /\ stQueue' \in Seq(TcpEvent)
<1>1. ~stQuic /\ stHand = NoTcp /\ stQueue # <<>> /\ stQueue' = Tail(stQueue) /\ stTaint' = stTaint \cup {Head(stQueue).conn}
      /\ stQuic' = stQuic /\ stHand' = stHand
  BY Zenon DEF LoseTCPEvent
<1>2. StFlow = stQueue /\ StFlow' = stQueue'
  BY <1>1, Zenon DEF StFlow
<1>3. stQueue' \in Seq(TcpEvent)
  BY <1>1 DEF TcpShape
<1> QED
  BY <1>1, <1>2, <1>3, Zenon

LEMMA FlowHandled ==
    ASSUME TcpShape, stHand # NoTcp, stHand' = NoTcp, UNCHANGED <<stQuic, stQueue, stSend>>
    PROVE  StFlow # <<>> /\ Head(StFlow) = stHand /\ StFlow' = Tail(StFlow) /\ stHand \in TcpEvent
<1>1. PICK q \in Seq(TcpEvent) : q = IF stQuic THEN stSend ELSE stQueue
  BY Zenon DEF TcpShape
<1>2. stHand \in TcpEvent
  BY Zenon DEF TcpShape
<1>3. StFlow = <<stHand>> \o q /\ StFlow' = q
  BY <1>1, Zenon DEF StFlow
<1> QED
  BY <1>2, <1>3, FlowOfOne


LEMMA ChanTypes ==
    ASSUME TcpShape, NEW c \in TcpConn
    PROVE  ChanType(StFlow, stBack, stGot[c], stRecv[c], stPub[c], stLocal[c])
  BY FlowType, Zenon DEF TcpShape, ChanType

LEMMA CountFields ==
    ASSUME NEW P \in {Pubs, Locals}, NEW f \in [TcpConn -> P], NEW c \in TcpConn, NEW g, g = [f EXCEPT ![c].n = @ + 1]
    PROVE  /\ g \in [TcpConn -> P] /\ \A d \in TcpConn : d # c => g[d] = f[d]
           /\ g[c].n = f[c].n + 1 /\ g[c].state = f[c].state /\ g[c].reader = f[c].reader
<1>1. CASE P = Pubs
  <2>1. f[c] \in Pubs
    BY <1>1, Zenon
  <2> QED
    BY <1>1, <2>1 DEF Pubs
<1>2. CASE P = Locals
  <2>1. f[c] \in Locals
    BY <1>2, Zenon
  <2> QED
    BY <1>2, <2>1 DEF Locals
<1> QED
  BY <1>1, <1>2, Zenon


\* handleTCPChunk changes the connection of the chunk only.
LEMMA TakeEffect ==
    ASSUME TcpShape, NEW k \in TcpEvent, NEW c, c = k.conn, TakeChunk(k)
    PROVE  /\ stPub' \in [TcpConn -> Pubs] /\ stRecv' \in [TcpConn -> Seq(Nat)]
           /\ \A d \in TcpConn : d # c => stPub'[d] = stPub[d] /\ stRecv'[d] = stRecv[d]
           /\ stPub'[c].n = stPub[c].n /\ stPub'[c].reader = stPub[c].reader
           /\ stPub'[c].state = IF stPub[c].state = "open" /\ k.type = "close" THEN "closed" ELSE stPub[c].state
           /\ stRecv'[c] = IF stPub[c].state = "open" /\ k.type = "data" THEN Append(stRecv[c], k.n) ELSE stRecv[c]
<1>t. /\ stPub \in [TcpConn -> Pubs] /\ stRecv \in [TcpConn -> Seq(Nat)] /\ c \in TcpConn /\ k.n \in Nat
      /\ k.type \in {"open", "close", "data"}
  BY EventType, Zenon DEF TcpShape
<1>1. CASE stPub[c].state # "open"
  <2>1. stPub' = stPub /\ stRecv' = stRecv
    BY <1>1, Zenon DEF TakeChunk
  <2> QED
    BY <1>t, <1>1, <2>1, Zenon
<1>2. CASE stPub[c].state = "open" /\ k.type = "data"
  <2>1. stRecv' = [stRecv EXCEPT ![c] = Append(@, k.n)] /\ stPub' = stPub
    BY <1>2, Zenon DEF TakeChunk
  <2>2. Append(stRecv[c], k.n) \in Seq(Nat)
    BY <1>t
  <2> QED
    BY <1>t, <1>2, <2>1, <2>2, Zenon
<1>3. CASE stPub[c].state = "open" /\ k.type = "close"
  <2>1. stRecv' = stRecv /\ stPub' = [stPub EXCEPT ![c].state = "closed"]
    BY <1>3, Zenon DEF TakeChunk
  <2>2. PICK r \in {"off", "announce", "read", "closing", "done"} : r = stPub[c].reader
    BY <1>t, Zenon DEF Pubs
  <2>3. /\ stPub' \in [TcpConn -> Pubs] /\ \A d \in TcpConn : d # c => stPub'[d] = stPub[d]
        /\ stPub'[c].n = stPub[c].n /\ stPub'[c].state = "closed" /\ stPub'[c].reader = r
    <3>1. stPub[c] \in Pubs
      BY <1>t, Zenon
    <3> QED
      BY <1>t, <2>1, <2>2, <3>1, Zenon DEF Pubs
  <2> QED
    BY <1>t, <1>3, <2>1, <2>2, <2>3, Zenon
<1>4. CASE stPub[c].state = "open" /\ k.type = "open"
  <2>1. stPub' = stPub /\ stRecv' = stRecv
    BY <1>4, Zenon DEF TakeChunk
  <2> QED
    BY <1>t, <1>4, <2>1, Zenon
<1> QED
  BY <1>t, <1>1, <1>2, <1>3, <1>4, Zenon

LEMMA PostEffect ==
    ASSUME TcpShape, NEW k \in TcpEvent, NEW c, c = k.conn, PostChunk(k)
    PROVE  /\ stPub' \in [TcpConn -> Pubs] /\ stRecv' \in [TcpConn -> Seq(Nat)] /\ stBack' \in Seq(TcpEvent)
           /\ ~stQuic => stBack' = <<>>
           /\ stTaint \subseteq stTaint'
           /\ \A d \in TcpConn : d # c => stPub'[d] = stPub[d] /\ stRecv'[d] = stRecv[d]
           /\ stBack' = stBack \/ stBack' = Append(stBack, k)
           /\ \/ stBack' = Append(stBack, k) /\ stPub'[c] = stPub[c] /\ stRecv'[c] = stRecv[c]
              \/ stBack' = stBack /\ c \in stTaint' /\ stPub'[c] = stPub[c] /\ stRecv'[c] = stRecv[c]
              \/ stBack = <<>> /\ stBack' = <<>> /\ TakeChunk(k)
<1>t. /\ stPub \in [TcpConn -> Pubs] /\ stRecv \in [TcpConn -> Seq(Nat)] /\ stBack \in Seq(TcpEvent)
      /\ ~stQuic => stBack = <<>>
  BY Zenon DEF TcpShape
<1>1. CASE stQuic /\ stBack' = Append(stBack, k) /\ UNCHANGED <<stPub, stRecv, stTaint, stLoss>>
  <2>1. Append(stBack, k) \in Seq(TcpEvent)
    BY <1>t
  <2> QED
    BY <1>t, <1>1, <2>1, Zenon
<1>2. CASE ~stQuic /\ TakeChunk(k) /\ UNCHANGED <<stBack, stTaint, stLoss>>
  BY <1>t, <1>2, TakeEffect
<1>3. CASE ~stQuic /\ stTaint' = stTaint \cup {k.conn} /\ UNCHANGED <<stBack, stPub, stRecv>>
  BY <1>t, <1>3, Zenon
<1> QED
  BY <1>1, <1>2, <1>3, Zenon DEF PostChunk

\* The connections other than the one of the chunk.
LEMMA PostOther ==
    ASSUME TcpShape, NEW k \in TcpEvent, PostChunk(k), NEW d \in TcpConn, d # k.conn, NEW f \in Seq(TcpEvent),
           TcpAlways(d, f, stBack, stGot[d], stRecv[d], stPub[d], stLocal[d])
    PROVE  /\ TcpAlways(d, f, stBack', stGot[d], stRecv'[d], stPub'[d], stLocal[d])
           /\ TcpUntainted(d, f, stBack, stGot[d], stRecv[d], stPub[d], stLocal[d])
                => TcpUntainted(d, f, stBack', stGot[d], stRecv'[d], stPub'[d], stLocal[d])
<1>1. /\ stPub'[d] = stPub[d] /\ stRecv'[d] = stRecv[d]
      /\ stBack' = stBack \/ stBack' = Append(stBack, k)
  BY PostEffect
<1>2. ChanType(f, stBack, stGot[d], stRecv[d], stPub[d], stLocal[d])
  BY ChanTypes, Zenon DEF ChanType
<1>3. CASE stBack' = stBack
  BY <1>1, <1>3, Zenon
<1>4. CASE stBack' = Append(stBack, k)
  <2>1. /\ TcpAlways(d, f, stBack', stGot[d], stRecv[d], stPub[d], stLocal[d])
        /\ TcpUntainted(d, f, stBack, stGot[d], stRecv[d], stPub[d], stLocal[d])
                => TcpUntainted(d, f, stBack', stGot[d], stRecv[d], stPub[d], stLocal[d])
    BY <1>2, <1>4, BackOther, Zenon
  <2> QED
    BY <1>1, <2>1, Zenon
<1> QED
  BY <1>1, <1>3, <1>4, Zenon

\* A post over HTTP: the chunk is taken at once.
LEMMA PostedAndTaken ==
    ASSUME TcpShape, NEW k \in TcpEvent, NEW c, c = k.conn, TakeChunk(k), stBack = <<>>,
           NEW f \in Seq(TcpEvent), NEW l \in Locals,
           TcpAlways(c, f, Append(<<>>, k), stGot[c], stRecv[c], stPub[c], l)
    PROVE  /\ TcpAlways(c, f, <<>>, stGot[c], stRecv'[c], stPub'[c], l)
           /\ TcpUntainted(c, f, Append(<<>>, k), stGot[c], stRecv[c], stPub[c], l)
                => TcpUntainted(c, f, <<>>, stGot[c], stRecv'[c], stPub'[c], l)
<1>1. PICK b : b = Append(<<>>, k)
  BY Zenon
<1>2. b \in Seq(TcpEvent) /\ b # <<>> /\ Head(b) = k /\ Tail(b) = <<>>
  BY <1>1
<1>3. c \in TcpConn /\ ChanType(f, b, stGot[c], stRecv[c], stPub[c], l)
  BY <1>2, EventType, Zenon DEF ChanType, TcpShape
<1>4. /\ stPub'[c] \in Pubs /\ stPub'[c].n = stPub[c].n /\ stPub'[c].reader = stPub[c].reader
      /\ stPub'[c].state = IF stPub[c].state = "open" /\ k.type = "close" THEN "closed" ELSE stPub[c].state
      /\ stRecv'[c] = IF stPub[c].state = "open" /\ k.type = "data" THEN Append(stRecv[c], k.n) ELSE stRecv[c]
  BY <1>3, TakeEffect
<1>5. /\ TcpAlways(c, f, Tail(b), stGot[c], stRecv'[c], stPub'[c], l)
      /\ TcpUntainted(c, f, b, stGot[c], stRecv[c], stPub[c], l)
            => TcpUntainted(c, f, Tail(b), stGot[c], stRecv'[c], stPub'[c], l)
  BY <1>1, <1>2, <1>3, <1>4, BackTake
<1> QED
  BY <1>1, <1>2, <1>5, Zenon


LEMMA TcpHere ==
    ASSUME TcpInv, NEW c \in TcpConn
    PROVE  /\ TcpShape
           /\ ChanType(StFlow, stBack, stGot[c], stRecv[c], stPub[c], stLocal[c])
           /\ TcpAlways(c, StFlow, stBack, stGot[c], stRecv[c], stPub[c], stLocal[c])
           /\ c \notin stTaint => TcpUntainted(c, StFlow, stBack, stGot[c], stRecv[c], stPub[c], stLocal[c])
  BY ChanTypes, Zenon DEF TcpInv

LEMMA TcpThere ==
    ASSUME TcpShape',
           \A d \in TcpConn :
               /\ TcpAlways(d, StFlow', stBack', stGot'[d], stRecv'[d], stPub'[d], stLocal'[d])
               /\ d \notin stTaint' => TcpUntainted(d, StFlow', stBack', stGot'[d], stRecv'[d], stPub'[d], stLocal'[d])
    PROVE  TcpInv'
<1>1. \A d \in TcpConn : TcpAlways(d, StFlow, stBack, stGot[d], stRecv[d], stPub[d], stLocal[d])'
  BY Zenon
<1>2. \A d \in TcpConn \ stTaint' : TcpUntainted(d, StFlow, stBack, stGot[d], stRecv[d], stPub[d], stLocal[d])'
  BY Zenon
<1> QED
  BY <1>1, <1>2, Zenon DEF TcpInv

LEMMA PubStep ==
    ASSUME TcpInv, NEW c \in TcpConn, stPub' \in [TcpConn -> Pubs], \A d \in TcpConn : d # c => stPub'[d] = stPub[d],
           stPub'[c].n = stPub[c].n,
           \/ stPub[c].reader = "off" /\ stPub'[c].reader = "announce"
           \/ stPub[c].reader = "closing" /\ stPub'[c].reader = "done" /\ stPub'[c].state = "closed",
           UNCHANGED <<stQuic, stQueue, stSend, stHand, stLocal, stBack, stGot, stRecv, stTaint>>
    PROVE  TcpInv'
<1>1. TcpShape'
  BY TcpHere, Zenon DEF TcpShape
<1>2. StFlow' = StFlow
  BY FlowKept, Zenon
<1>3. ASSUME NEW d \in TcpConn
      PROVE  /\ TcpAlways(d, StFlow, stBack, stGot[d], stRecv[d], stPub'[d], stLocal[d])
             /\ d \notin stTaint => TcpUntainted(d, StFlow, stBack, stGot[d], stRecv[d], stPub'[d], stLocal[d])
  <2>1. CASE d = c
    <3>1. stPub'[c] \in Pubs
      BY Zenon
    <3>2. /\ TcpAlways(c, StFlow, stBack, stGot[c], stRecv[c], stPub'[c], stLocal[c])
          /\ TcpUntainted(c, StFlow, stBack, stGot[c], stRecv[c], stPub[c], stLocal[c])
               => TcpUntainted(c, StFlow, stBack, stGot[c], stRecv[c], stPub'[c], stLocal[c])
      BY <3>1, TcpHere, PubMove, Zenon
    <3> QED
      BY <2>1, <3>2, TcpHere, Zenon
  <2>2. CASE d # c
    BY <2>2, TcpHere, Zenon
  <2> QED
    BY <2>1, <2>2, Zenon
<1> QED
  BY <1>1, <1>2, <1>3, TcpThere, Zenon

LEMMA SendStep ==
    ASSUME TcpInv, NEW c \in TcpConn, NEW e \in TcpEvent, e.conn = c, SendTCPEvent(e),
           stPub' \in [TcpConn -> Pubs], \A d \in TcpConn : d # c => stPub'[d] = stPub[d],
           stPub'[c].state = stPub[c].state,
           \/ e.type = "open" /\ stPub[c].reader = "announce" /\ stPub'[c].reader = "read" /\ stPub'[c].n = stPub[c].n
           \/ /\ e.type = "data" /\ stPub[c].reader = "read" /\ stPub'[c].reader = "read"
              /\ stPub'[c].n = stPub[c].n + 1 /\ e.n = stPub'[c].n
           \/ e.type = "close" /\ stPub[c].reader = "read" /\ stPub'[c].reader = "closing" /\ stPub'[c].n = stPub[c].n,
           UNCHANGED <<stQuic, stHand, stLocal, stBack, stGot, stRecv>>
    PROVE  TcpInv'
<1>0. TcpShape
  BY TcpHere, Zenon
<1>1. /\ stQueue' \in Seq(TcpEvent) /\ stSend' \in Seq(TcpEvent)
      /\ \/ StFlow' = Append(StFlow, e) /\ stTaint' = stTaint
         \/ StFlow' = StFlow /\ stTaint' = stTaint \cup {c}
  BY <1>0, FlowSent, Zenon
<1>2. TcpShape'
  BY <1>0, <1>1, Zenon DEF TcpShape
<1>3. stPub'[c] \in Pubs
  BY Zenon
<1>4. CASE StFlow' = Append(StFlow, e) /\ stTaint' = stTaint
  <2>1. /\ TcpAlways(c, StFlow', stBack, stGot[c], stRecv[c], stPub'[c], stLocal[c])
        /\ TcpUntainted(c, StFlow, stBack, stGot[c], stRecv[c], stPub[c], stLocal[c])
             => TcpUntainted(c, StFlow', stBack, stGot[c], stRecv[c], stPub'[c], stLocal[c])
    BY <1>3, <1>4, TcpHere, FlowSend
  <2>2. ASSUME NEW d \in TcpConn, d # c
        PROVE  /\ TcpAlways(d, StFlow', stBack, stGot[d], stRecv[d], stPub[d], stLocal[d])
               /\ TcpUntainted(d, StFlow, stBack, stGot[d], stRecv[d], stPub[d], stLocal[d])
                    => TcpUntainted(d, StFlow', stBack, stGot[d], stRecv[d], stPub[d], stLocal[d])
    <3>1. \E x \in TcpEvent : x.conn # d /\ StFlow' = Append(StFlow, x)
      BY <1>4, <2>2, Zenon
    <3> QED
      BY <3>1, TcpHere, FlowOther, Zenon
  <2> QED
    BY <1>2, <1>4, <2>1, <2>2, TcpHere, TcpThere, Zenon
<1>5. CASE StFlow' = StFlow /\ stTaint' = stTaint \cup {c}
  <2>1. TcpAlways(c, StFlow, stBack, stGot[c], stRecv[c], stPub'[c], stLocal[c])
    BY <1>3, TcpHere, FlowSkip
  <2> QED
    BY <1>2, <1>5, <2>1, TcpHere, TcpThere, Zenon
<1> QED
  BY <1>1, <1>4, <1>5, Zenon


LEMMA PlainEvents == \A c \in TcpConn : Ev("open", c, 0) \in TcpEvent /\ Ev("close", c, 0) \in TcpEvent
  BY Zenon DEF TcpEvent, Ev

\* The close chunk of c is posted; the local connection has not changed yet.
LEMMA ClosePosted ==
    ASSUME TcpInv, NEW c \in TcpConn, PostChunk(Ev("close", c, 0))
    PROVE  /\ ChanType(StFlow, stBack', stGot[c], stRecv'[c], stPub'[c], stLocal[c])
           /\ TcpAlways(c, StFlow, stBack', stGot[c], stRecv'[c], stPub'[c], stLocal[c])
           /\ c \notin stTaint' =>
                 /\ TcpUntainted(c, StFlow, stBack', stGot[c], stRecv'[c], stPub'[c], stLocal[c])
                 /\ stPub'[c].state # "open" \/ ~Without(stBack', Ev("close", c, 0))
<1>0. /\ TcpShape
      /\ ChanType(StFlow, stBack, stGot[c], stRecv[c], stPub[c], stLocal[c])
      /\ TcpAlways(c, StFlow, stBack, stGot[c], stRecv[c], stPub[c], stLocal[c])
      /\ c \notin stTaint => TcpUntainted(c, StFlow, stBack, stGot[c], stRecv[c], stPub[c], stLocal[c])
  BY TcpHere, Zenon
<1>k. PICK k \in TcpEvent : k = Ev("close", c, 0) /\ k.conn = c /\ k.type = "close"
  BY PlainEvents, EvFields
<1>1. /\ stPub' \in [TcpConn -> Pubs] /\ stRecv' \in [TcpConn -> Seq(Nat)] /\ stBack' \in Seq(TcpEvent)
      /\ stTaint \subseteq stTaint'
      /\ \/ stBack' = Append(stBack, k) /\ stPub'[c] = stPub[c] /\ stRecv'[c] = stRecv[c]
         \/ stBack' = stBack /\ c \in stTaint' /\ stPub'[c] = stPub[c] /\ stRecv'[c] = stRecv[c]
         \/ stBack = <<>> /\ stBack' = <<>> /\ TakeChunk(k)
  BY <1>0, <1>k, PostEffect, Zenon
<1>2. ChanType(StFlow, stBack', stGot[c], stRecv'[c], stPub'[c], stLocal[c])
  BY <1>0, <1>1, Zenon DEF ChanType
<1>3. /\ TcpAlways(c, StFlow, Append(stBack, k), stGot[c], stRecv[c], stPub[c], stLocal[c])
      /\ ~Without(Append(stBack, k), Ev("close", c, 0))
      /\ TcpUntainted(c, StFlow, stBack, stGot[c], stRecv[c], stPub[c], stLocal[c])
           => TcpUntainted(c, StFlow, Append(stBack, k), stGot[c], stRecv[c], stPub[c], stLocal[c])
  BY <1>0, <1>k, BackClose, Zenon
<1>4. CASE stBack' = Append(stBack, k) /\ stPub'[c] = stPub[c] /\ stRecv'[c] = stRecv[c]
  BY <1>0, <1>1, <1>2, <1>3, <1>4, Zenon
<1>5. CASE stBack' = stBack /\ c \in stTaint' /\ stPub'[c] = stPub[c] /\ stRecv'[c] = stRecv[c]
  BY <1>0, <1>2, <1>5, Zenon
<1>6. CASE stBack = <<>> /\ stBack' = <<>> /\ TakeChunk(k)
  <2>1. TcpAlways(c, StFlow, Append(<<>>, k), stGot[c], stRecv[c], stPub[c], stLocal[c])
    BY <1>3, <1>6, Zenon
  <2>2. StFlow \in Seq(TcpEvent) /\ stLocal[c] \in Locals
    BY <1>0, Zenon DEF ChanType
  <2>3. /\ TcpAlways(c, StFlow, <<>>, stGot[c], stRecv'[c], stPub'[c], stLocal[c])
        /\ TcpUntainted(c, StFlow, Append(<<>>, k), stGot[c], stRecv[c], stPub[c], stLocal[c])
             => TcpUntainted(c, StFlow, <<>>, stGot[c], stRecv'[c], stPub'[c], stLocal[c])
    BY <1>0, <1>k, <1>6, <2>1, <2>2, PostedAndTaken, Zenon
  <2>4. stPub'[c].state # "open"
    BY <1>0, <1>k, <1>6, TakeEffect
  <2> QED
    BY <1>0, <1>1, <1>2, <1>3, <1>6, <2>3, <2>4, Zenon
<1> QED
  BY <1>1, <1>4, <1>5, <1>6, Zenon

LEMMA EndLocalStep ==
    ASSUME TcpInv, NEW c \in TcpConn, EndLocalTCP(c)
    PROVE  TcpInv'
<1>0. /\ TcpShape
      /\ ChanType(StFlow, stBack, stGot[c], stRecv[c], stPub[c], stLocal[c])
      /\ TcpAlways(c, StFlow, stBack, stGot[c], stRecv[c], stPub[c], stLocal[c])
      /\ c \notin stTaint => TcpUntainted(c, StFlow, stBack, stGot[c], stRecv[c], stPub[c], stLocal[c])
  BY TcpHere, Zenon
<1>t. stLocal \in [TcpConn -> Locals] /\ stLocal[c] \in Locals
  BY <1>0, Zenon DEF TcpShape
<1>f. UNCHANGED <<stQuic, stQueue, stSend, stHand, stGot>> /\ StFlow' = StFlow
  BY FlowKept, Zenon DEF EndLocalTCP
<1>1. CASE /\ stLocal[c].reader = "read" /\ PostChunk(Ev("close", c, 0))
           /\ stLocal' = [stLocal EXCEPT ![c].reader = "closing"]
  <2>1. /\ stLocal' \in [TcpConn -> Locals] /\ \A d \in TcpConn : d # c => stLocal'[d] = stLocal[d]
        /\ stLocal'[c].n = stLocal[c].n /\ stLocal'[c].state = stLocal[c].state /\ stLocal'[c].reader = "closing"
        /\ stLocal'[c] \in Locals
    BY <1>t, <1>1, Zenon DEF Locals
  <2>k. PICK k \in TcpEvent : k = Ev("close", c, 0) /\ k.conn = c
    BY PlainEvents, EvFields
  <2>2. /\ stPub' \in [TcpConn -> Pubs] /\ stRecv' \in [TcpConn -> Seq(Nat)] /\ stBack' \in Seq(TcpEvent)
        /\ (~stQuic => stBack' = <<>>) /\ stTaint \subseteq stTaint'
    BY <1>0, <1>1, <2>k, PostEffect, Zenon
  <2>3. TcpShape'
    BY <1>0, <1>f, <2>1, <2>2, Zenon DEF TcpShape
  <2>4. /\ TcpAlways(c, StFlow, stBack', stGot[c], stRecv'[c], stPub'[c], stLocal'[c])
        /\ c \notin stTaint' => TcpUntainted(c, StFlow, stBack', stGot[c], stRecv'[c], stPub'[c], stLocal'[c])
    BY <1>1, <2>1, ClosePosted, LocalMove, Zenon
  <2>5. ASSUME NEW d \in TcpConn, d # c
        PROVE  /\ TcpAlways(d, StFlow, stBack', stGot[d], stRecv'[d], stPub'[d], stLocal[d])
               /\ d \notin stTaint' => TcpUntainted(d, StFlow, stBack', stGot[d], stRecv'[d], stPub'[d], stLocal[d])
    <3>1. /\ TcpAlways(d, StFlow, stBack, stGot[d], stRecv[d], stPub[d], stLocal[d])
          /\ d \notin stTaint => TcpUntainted(d, StFlow, stBack, stGot[d], stRecv[d], stPub[d], stLocal[d])
      BY TcpHere, Zenon
    <3>2. StFlow \in Seq(TcpEvent) /\ d # k.conn /\ PostChunk(k)
      BY <1>0, <1>1, <2>k, <2>5, FlowType, Zenon
    <3>3. /\ TcpAlways(d, StFlow, stBack', stGot[d], stRecv'[d], stPub'[d], stLocal[d])
          /\ TcpUntainted(d, StFlow, stBack, stGot[d], stRecv[d], stPub[d], stLocal[d])
               => TcpUntainted(d, StFlow, stBack', stGot[d], stRecv'[d], stPub'[d], stLocal[d])
      BY <1>0, <3>1, <3>2, PostOther, Zenon
    <3> QED
      BY <2>2, <3>1, <3>3, Zenon
  <2> QED
    BY <1>f, <2>1, <2>3, <2>4, <2>5, TcpThere, Zenon
<1>2. CASE /\ stLocal[c].reader = "closing"
           /\ stLocal' = [stLocal EXCEPT ![c].reader = "done", ![c].state = "closed"]
           /\ UNCHANGED <<stPub, stBack, stRecv, stTaint>>
  <2>1. /\ stLocal' \in [TcpConn -> Locals] /\ \A d \in TcpConn : d # c => stLocal'[d] = stLocal[d]
        /\ stLocal'[c].n = stLocal[c].n /\ stLocal'[c].state = "closed" /\ stLocal'[c].reader = "done"
    <3>1. PICK h : h = [stLocal EXCEPT ![c].reader = "done"]
      BY Zenon
    <3>2. stLocal' = [h EXCEPT ![c].state = "closed"]
      BY <1>2, <3>1, Zenon
    <3>3. /\ h \in [TcpConn -> Locals] /\ (\A d \in TcpConn : d # c => h[d] = stLocal[d])
          /\ h[c] \in Locals /\ h[c].n = stLocal[c].n /\ h[c].reader = "done"
      BY <1>t, <3>1, Zenon DEF Locals
    <3> QED
      BY <3>2, <3>3, Zenon DEF Locals
  <2>2. stLocal'[c] \in Locals
    BY <2>1, Zenon
  <2>3. TcpShape'
    BY <1>0, <1>f, <1>2, <2>1, Zenon DEF TcpShape
  <2>4. /\ TcpAlways(c, StFlow, stBack, stGot[c], stRecv[c], stPub[c], stLocal'[c])
        /\ TcpUntainted(c, StFlow, stBack, stGot[c], stRecv[c], stPub[c], stLocal[c])
             => TcpUntainted(c, StFlow, stBack, stGot[c], stRecv[c], stPub[c], stLocal'[c])
    BY <1>0, <1>2, <2>1, <2>2, LocalMove, Zenon
  <2> QED
    BY <1>0, <1>f, <1>2, <2>1, <2>3, <2>4, TcpHere, TcpThere, Zenon
<1> QED
  BY <1>1, <1>2, Zenon DEF EndLocalTCP

LEMMA ReadLocalStep ==
    ASSUME TcpInv, NEW c \in TcpConn, ReadLocalTCP(c)
    PROVE  TcpInv'
<1>0. /\ TcpShape
      /\ ChanType(StFlow, stBack, stGot[c], stRecv[c], stPub[c], stLocal[c])
      /\ TcpAlways(c, StFlow, stBack, stGot[c], stRecv[c], stPub[c], stLocal[c])
      /\ c \notin stTaint => TcpUntainted(c, StFlow, stBack, stGot[c], stRecv[c], stPub[c], stLocal[c])
  BY TcpHere, Zenon
<1>t. stLocal \in [TcpConn -> Locals] /\ stLocal[c].n \in Nat
  BY <1>0, Zenon DEF TcpShape, Locals
<1>f. UNCHANGED <<stQuic, stQueue, stSend, stHand, stGot>> /\ StFlow' = StFlow
  BY FlowKept, Zenon DEF ReadLocalTCP
<1>1. /\ stLocal[c].state = "open" /\ stLocal[c].n < MaxData /\ PostChunk(Ev("data", c, stLocal[c].n + 1))
      /\ stLocal' = [stLocal EXCEPT ![c].n = @ + 1]
  BY Zenon DEF ReadLocalTCP
<1>2. /\ stLocal' \in [TcpConn -> Locals] /\ \A d \in TcpConn : d # c => stLocal'[d] = stLocal[d]
      /\ stLocal'[c].n = stLocal[c].n + 1 /\ stLocal'[c].state = stLocal[c].state
      /\ stLocal'[c].reader = stLocal[c].reader
  BY <1>t, <1>1, CountFields
<1>l. stLocal'[c] \in Locals
  BY <1>2, Zenon
<1>k. PICK k \in TcpEvent : /\ k = Ev("data", c, stLocal[c].n + 1) /\ k.conn = c /\ k.type = "data" /\ PostChunk(k)
                            /\ k = Ev("data", c, stLocal'[c].n)
  <2>1. stLocal[c].n + 1 \in 1..MaxData
    BY <1>t, <1>1, StAssumption
  <2>2. Ev("data", c, stLocal[c].n + 1) \in TcpEvent
    BY <2>1, Zenon DEF TcpEvent, Ev
  <2> QED
    BY <1>1, <1>2, <2>2, EvFields
<1>3. /\ stPub' \in [TcpConn -> Pubs] /\ stRecv' \in [TcpConn -> Seq(Nat)] /\ stBack' \in Seq(TcpEvent)
      /\ (~stQuic => stBack' = <<>>) /\ stTaint \subseteq stTaint'
      /\ \/ stBack' = Append(stBack, k) /\ stPub'[c] = stPub[c] /\ stRecv'[c] = stRecv[c]
         \/ stBack' = stBack /\ c \in stTaint' /\ stPub'[c] = stPub[c] /\ stRecv'[c] = stRecv[c]
         \/ stBack = <<>> /\ stBack' = <<>> /\ TakeChunk(k)
  BY <1>0, <1>k, PostEffect, Zenon
<1>4. TcpShape'
  BY <1>0, <1>f, <1>2, <1>3, Zenon DEF TcpShape
<1>5. /\ TcpAlways(c, StFlow, Append(stBack, k), stGot[c], stRecv[c], stPub[c], stLocal'[c])
      /\ TcpUntainted(c, StFlow, stBack, stGot[c], stRecv[c], stPub[c], stLocal[c])
           => TcpUntainted(c, StFlow, Append(stBack, k), stGot[c], stRecv[c], stPub[c], stLocal'[c])
  BY <1>0, <1>1, <1>2, <1>l, <1>k, BackData, Zenon
<1>6. /\ TcpAlways(c, StFlow, stBack', stGot[c], stRecv'[c], stPub'[c], stLocal'[c])
      /\ c \notin stTaint' => TcpUntainted(c, StFlow, stBack', stGot[c], stRecv'[c], stPub'[c], stLocal'[c])
  <2>1. CASE stBack' = Append(stBack, k) /\ stPub'[c] = stPub[c] /\ stRecv'[c] = stRecv[c]
    BY <1>0, <1>3, <1>5, <2>1, Zenon
  <2>2. CASE stBack' = stBack /\ c \in stTaint' /\ stPub'[c] = stPub[c] /\ stRecv'[c] = stRecv[c]
    <3>1. TcpAlways(c, StFlow, stBack, stGot[c], stRecv[c], stPub[c], stLocal'[c])
      BY <1>0, <1>1, <1>2, <1>l, BackLost, Zenon
    <3> QED
      BY <2>2, <3>1, Zenon
  <2>3. CASE stBack = <<>> /\ stBack' = <<>> /\ TakeChunk(k)
    <3>1. TcpAlways(c, StFlow, Append(<<>>, k), stGot[c], stRecv[c], stPub[c], stLocal'[c])
      BY <1>5, <2>3, Zenon
    <3>2. StFlow \in Seq(TcpEvent)
      BY <1>0, Zenon DEF ChanType
    <3>3. /\ TcpAlways(c, StFlow, <<>>, stGot[c], stRecv'[c], stPub'[c], stLocal'[c])
          /\ TcpUntainted(c, StFlow, Append(<<>>, k), stGot[c], stRecv[c], stPub[c], stLocal'[c])
               => TcpUntainted(c, StFlow, <<>>, stGot[c], stRecv'[c], stPub'[c], stLocal'[c])
      BY <1>0, <1>k, <1>l, <2>3, <3>1, <3>2, PostedAndTaken, Zenon
    <3> QED
      BY <1>0, <1>3, <1>5, <2>3, <3>3, Zenon
  <2> QED
    BY <1>3, <2>1, <2>2, <2>3, Zenon
<1>7. ASSUME NEW d \in TcpConn, d # c
      PROVE  /\ TcpAlways(d, StFlow, stBack', stGot[d], stRecv'[d], stPub'[d], stLocal[d])
             /\ d \notin stTaint' => TcpUntainted(d, StFlow, stBack', stGot[d], stRecv'[d], stPub'[d], stLocal[d])
  <2>1. /\ TcpAlways(d, StFlow, stBack, stGot[d], stRecv[d], stPub[d], stLocal[d])
        /\ d \notin stTaint => TcpUntainted(d, StFlow, stBack, stGot[d], stRecv[d], stPub[d], stLocal[d])
    BY TcpHere, Zenon
  <2>2. StFlow \in Seq(TcpEvent) /\ d # k.conn
    BY <1>0, <1>k, <1>7, FlowType, Zenon
  <2>3. /\ TcpAlways(d, StFlow, stBack', stGot[d], stRecv'[d], stPub'[d], stLocal[d])
        /\ TcpUntainted(d, StFlow, stBack, stGot[d], stRecv[d], stPub[d], stLocal[d])
             => TcpUntainted(d, StFlow, stBack', stGot[d], stRecv'[d], stPub'[d], stLocal[d])
    BY <1>0, <1>k, <2>1, <2>2, PostOther, Zenon
  <2> QED
    BY <1>3, <2>1, <2>3, Zenon
<1> QED
  BY <1>f, <1>2, <1>4, <1>6, <1>7, TcpThere, Zenon


LEMMA PublicStep ==
    ASSUME TcpInv, NEW c \in TcpConn, AcceptTCP(c) \/ AnnounceTCP(c) \/ ReadPublicTCP(c) \/ EndPublicTCP(c)
    PROVE  TcpInv'
<1>t. stPub \in [TcpConn -> Pubs] /\ stPub[c] \in Pubs
  BY Zenon DEF TcpInv, TcpShape
<1>1. CASE AcceptTCP(c)
  <2>1. /\ stPub[c] = Endpoint
        /\ stPub' = [stPub EXCEPT ![c].state = "open", ![c].reader = "announce"]
        /\ UNCHANGED <<stQuic, stQueue, stSend, stHand, stLocal, stBack, stGot, stRecv, stTaint>>
    BY <1>1, Zenon DEF AcceptTCP
  <2>2. PICK h : h = [stPub EXCEPT ![c].state = "open"]
    BY Zenon
  <2>3. stPub' = [h EXCEPT ![c].reader = "announce"]
    BY <2>1, <2>2, Zenon
  <2>4. /\ h \in [TcpConn -> Pubs] /\ (\A d \in TcpConn : d # c => h[d] = stPub[d])
        /\ h[c] \in Pubs /\ h[c].n = stPub[c].n
    BY <1>t, <2>2, Zenon DEF Pubs
  <2>5. /\ stPub' \in [TcpConn -> Pubs] /\ (\A d \in TcpConn : d # c => stPub'[d] = stPub[d])
        /\ stPub'[c].n = stPub[c].n /\ stPub'[c].reader = "announce"
    BY <2>3, <2>4, Zenon DEF Pubs
  <2>6. stPub[c].reader = "off"
    BY <2>1 DEF Endpoint
  <2> QED
    BY <2>1, <2>5, <2>6, PubStep, Zenon
<1>2. CASE AnnounceTCP(c)
  <2>1. /\ stPub[c].reader = "announce" /\ SendTCPEvent(Ev("open", c, 0))
        /\ stPub' = [stPub EXCEPT ![c].reader = "read"]
        /\ UNCHANGED <<stQuic, stHand, stLocal, stBack, stGot, stRecv>>
    BY <1>2, Zenon DEF AnnounceTCP
  <2>2. /\ stPub' \in [TcpConn -> Pubs] /\ (\A d \in TcpConn : d # c => stPub'[d] = stPub[d])
        /\ stPub'[c].n = stPub[c].n /\ stPub'[c].state = stPub[c].state /\ stPub'[c].reader = "read"
    BY <1>t, <2>1, Zenon DEF Pubs
  <2>3. PICK e \in TcpEvent : e = Ev("open", c, 0) /\ e.conn = c /\ e.type = "open"
    BY PlainEvents, EvFields
  <2> QED
    BY <2>1, <2>2, <2>3, SendStep, Zenon
<1>3. CASE ReadPublicTCP(c)
  <2>1. /\ stPub[c].reader = "read" /\ stPub[c].n < MaxData /\ SendTCPEvent(Ev("data", c, stPub[c].n + 1))
        /\ stPub' = [stPub EXCEPT ![c].n = @ + 1]
        /\ UNCHANGED <<stQuic, stHand, stLocal, stBack, stGot, stRecv>>
    BY <1>3, Zenon DEF ReadPublicTCP
  <2>2. /\ stPub' \in [TcpConn -> Pubs] /\ (\A d \in TcpConn : d # c => stPub'[d] = stPub[d])
        /\ stPub'[c].n = stPub[c].n + 1 /\ stPub'[c].state = stPub[c].state /\ stPub'[c].reader = "read"
    BY <1>t, <2>1, CountFields
  <2>3. stPub[c].n + 1 \in 1..MaxData
    BY <1>t, <2>1, StAssumption DEF Pubs
  <2>4. Ev("data", c, stPub[c].n + 1) \in TcpEvent
    BY <2>3, Zenon DEF TcpEvent, Ev
  <2>5. PICK e \in TcpEvent : /\ e = Ev("data", c, stPub[c].n + 1)
                              /\ e.conn = c /\ e.type = "data" /\ e.n = stPub'[c].n
    BY <2>2, <2>4, EvFields
  <2> QED
    BY <2>1, <2>2, <2>5, SendStep, Zenon
<1>4. CASE EndPublicTCP(c) /\ stPub[c].reader = "read"
  <2>1. /\ SendTCPEvent(Ev("close", c, 0))
        /\ stPub' = [stPub EXCEPT ![c].reader = "closing"]
        /\ UNCHANGED <<stQuic, stHand, stLocal, stBack, stGot, stRecv>>
    BY <1>4, Zenon DEF EndPublicTCP
  <2>2. /\ stPub' \in [TcpConn -> Pubs] /\ (\A d \in TcpConn : d # c => stPub'[d] = stPub[d])
        /\ stPub'[c].n = stPub[c].n /\ stPub'[c].state = stPub[c].state /\ stPub'[c].reader = "closing"
    BY <1>t, <2>1, Zenon DEF Pubs
  <2>3. PICK e \in TcpEvent : e = Ev("close", c, 0) /\ e.conn = c /\ e.type = "close"
    BY PlainEvents, EvFields
  <2> QED
    BY <1>4, <2>1, <2>2, <2>3, SendStep, Zenon
<1>5. CASE EndPublicTCP(c) /\ stPub[c].reader # "read"
  <2>1. /\ stPub[c].reader = "closing"
        /\ stPub' = [stPub EXCEPT ![c].reader = "done", ![c].state = "closed"]
        /\ UNCHANGED <<stQuic, stQueue, stSend, stHand, stLocal, stBack, stGot, stRecv, stTaint>>
    BY <1>5, Zenon DEF EndPublicTCP
  <2>2. PICK h : h = [stPub EXCEPT ![c].reader = "done"]
    BY Zenon
  <2>3. stPub' = [h EXCEPT ![c].state = "closed"]
    BY <2>1, <2>2, Zenon
  <2>4. /\ h \in [TcpConn -> Pubs] /\ (\A d \in TcpConn : d # c => h[d] = stPub[d])
        /\ h[c] \in Pubs /\ h[c].n = stPub[c].n /\ h[c].reader = "done"
    BY <1>t, <2>2, Zenon DEF Pubs
  <2>5. /\ stPub' \in [TcpConn -> Pubs] /\ (\A d \in TcpConn : d # c => stPub'[d] = stPub[d])
        /\ stPub'[c].n = stPub[c].n /\ stPub'[c].reader = "done" /\ stPub'[c].state = "closed"
    BY <2>3, <2>4, Zenon DEF Pubs
  <2> QED
    BY <2>1, <2>5, PubStep, Zenon
<1> QED
  BY <1>1, <1>2, <1>3, <1>4, <1>5, Zenon

LEMMA QuicChunkStep == ASSUME TcpInv, QuicChunk PROVE TcpInv'
<1>0. TcpShape /\ stBack \in Seq(TcpEvent)
  BY Zenon DEF TcpInv, TcpShape
<1>1. /\ stBack # <<>> /\ TakeChunk(Head(stBack)) /\ stBack' = Tail(stBack)
      /\ UNCHANGED <<stQuic, stQueue, stSend, stHand, stLocal, stGot, stTaint>>
  BY Zenon DEF QuicChunk
<1>2. PICK k \in TcpEvent : k = Head(stBack)
  BY <1>0, <1>1
<1>3. PICK c \in TcpConn : c = k.conn
  BY EventType, Zenon
<1>4. /\ stPub' \in [TcpConn -> Pubs] /\ stRecv' \in [TcpConn -> Seq(Nat)]
      /\ \A d \in TcpConn : d # c => stPub'[d] = stPub[d] /\ stRecv'[d] = stRecv[d]
      /\ stPub'[c].n = stPub[c].n /\ stPub'[c].reader = stPub[c].reader
      /\ stPub'[c].state = IF stPub[c].state = "open" /\ k.type = "close" THEN "closed" ELSE stPub[c].state
      /\ stRecv'[c] = IF stPub[c].state = "open" /\ k.type = "data" THEN Append(stRecv[c], k.n) ELSE stRecv[c]
  BY <1>0, <1>1, <1>2, <1>3, TakeEffect
<1>5. TcpShape'
  BY <1>0, <1>1, <1>4 DEF TcpShape
<1>6. StFlow' = StFlow
  BY <1>1, FlowKept, Zenon
<1>7. /\ TcpAlways(c, StFlow, stBack', stGot[c], stRecv'[c], stPub'[c], stLocal[c])
      /\ TcpUntainted(c, StFlow, stBack, stGot[c], stRecv[c], stPub[c], stLocal[c])
           => TcpUntainted(c, StFlow, stBack', stGot[c], stRecv'[c], stPub'[c], stLocal[c])
  <2>1. stPub'[c] \in Pubs
    BY <1>4, Zenon
  <2> QED
    BY <1>1, <1>2, <1>3, <1>4, <2>1, TcpHere, BackTake
<1>8. ASSUME NEW d \in TcpConn, d # c
      PROVE  /\ TcpAlways(d, StFlow, stBack', stGot[d], stRecv[d], stPub[d], stLocal[d])
             /\ TcpUntainted(d, StFlow, stBack, stGot[d], stRecv[d], stPub[d], stLocal[d])
                  => TcpUntainted(d, StFlow, stBack', stGot[d], stRecv[d], stPub[d], stLocal[d])
  <2>1. stBack # <<>> /\ Head(stBack).conn # d /\ stBack' = Tail(stBack)
    BY <1>1, <1>2, <1>3, <1>8, Zenon
  <2> QED
    BY <2>1, TcpHere, BackOther, Zenon
<1> QED
  BY <1>1, <1>4, <1>5, <1>6, <1>7, <1>8, TcpHere, TcpThere, Zenon

LEMMA OnTheWayStep == ASSUME TcpInv, NextTCPEvent \/ LoseTCPEvent PROVE TcpInv'
<1>0. TcpShape
  BY Zenon DEF TcpInv
<1>1. CASE NextTCPEvent
  <2>1. /\ StFlow' = StFlow /\ stHand' \in TcpEvent
        /\ stQueue' \in Seq(TcpEvent) /\ stSend' \in Seq(TcpEvent)
    BY <1>0, <1>1, FlowNext, Zenon
  <2>2. UNCHANGED <<stQuic, stPub, stLocal, stBack, stGot, stRecv, stTaint>>
    BY <1>1, Zenon DEF NextTCPEvent
  <2>3. TcpShape'
    BY <1>0, <2>1, <2>2, Zenon DEF TcpShape
  <2> QED
    BY <2>1, <2>2, <2>3, TcpHere, TcpThere, Zenon
<1>2. CASE LoseTCPEvent
  <2>1. /\ StFlow # <<>> /\ StFlow' = Tail(StFlow) /\ stTaint' = stTaint \cup {Head(StFlow).conn}
        /\ stQueue' \in Seq(TcpEvent)
    BY <1>0, <1>2, FlowDropped, Zenon
  <2>2. UNCHANGED <<stQuic, stPub, stSend, stHand, stLocal, stBack, stGot, stRecv>>
    BY <1>2, Zenon DEF LoseTCPEvent
  <2>3. TcpShape'
    BY <1>0, <2>1, <2>2, Zenon DEF TcpShape
  <2>4. ASSUME NEW d \in TcpConn
        PROVE  TcpAlways(d, StFlow', stBack, stGot[d], stRecv[d], stPub[d], stLocal[d])
    BY <2>1, TcpHere, FlowLost, Zenon
  <2>5. ASSUME NEW d \in TcpConn, d \notin stTaint'
        PROVE  TcpUntainted(d, StFlow', stBack, stGot[d], stRecv[d], stPub[d], stLocal[d])
    <3>1. d \notin stTaint /\ Head(StFlow).conn # d
      BY <2>1, <2>5, Zenon
    <3> QED
      BY <2>1, <3>1, TcpHere, FlowOther, Zenon
  <2> QED
    BY <2>2, <2>3, <2>4, <2>5, TcpThere, Zenon
<1> QED
  BY <1>1, <1>2, Zenon

LEMMA RestartStep == ASSUME TcpInv, RestartDaemon PROVE TcpInv'
<1>0. TcpShape
  BY Zenon DEF TcpInv
<1>1. /\ stHand' = NoTcp /\ stBack' = <<>> /\ stTaint' = TcpConn
      /\ stLocal' = [c \in TcpConn |-> IF stLocal[c].state = "none" THEN Endpoint
                                       ELSE [stLocal[c] EXCEPT !.state = "closed", !.reader = "done"]]
      /\ UNCHANGED <<stQuic, stPub, stQueue, stSend, stGot, stRecv>>
  BY Zenon DEF RestartDaemon
<1>2. ASSUME NEW d \in TcpConn
      PROVE  /\ stLocal'[d] \in Locals
             /\ IF stLocal[d].state = "none"
                THEN stLocal'[d].state = "none" /\ stLocal'[d].n = 0 /\ stLocal'[d].reader = "off"
                ELSE stLocal'[d].state = "closed" /\ stLocal'[d].reader = "done" /\ stLocal'[d].n = stLocal[d].n
  <2>t. PICK l \in Locals : l = stLocal[d]
    BY <1>0, Zenon DEF TcpShape
  <2>1. CASE l.state = "none"
    <3>1. stLocal'[d] = Endpoint
      BY <1>1, <2>t, <2>1, Zenon
    <3> QED
      BY <2>t, <2>1, <3>1 DEF Endpoint, Locals
  <2>2. CASE l.state # "none"
    <3>1. PICK h : h = [l EXCEPT !.state = "closed"]
      BY Zenon
    <3>2. stLocal'[d] = [l EXCEPT !.state = "closed", !.reader = "done"]
      BY <1>1, <2>t, <2>2, Zenon
    <3>3. stLocal'[d] = [h EXCEPT !.reader = "done"]
      BY <3>1, <3>2, Zenon
    <3>4. h \in Locals /\ h.n = l.n /\ h.state = "closed"
      BY <3>1, Zenon DEF Locals
    <3> QED
      BY <2>t, <2>2, <3>3, <3>4, Zenon DEF Locals
  <2> QED
    BY <2>1, <2>2, Zenon
<1>3. stLocal' \in [TcpConn -> Locals]
  <2>1. stLocal' = [c \in TcpConn |-> stLocal'[c]]
    BY <1>1, Zenon
  <2> QED
    BY <1>2, <2>1, Zenon
<1>4. TcpShape'
  <2>1. stBack' \in Seq(TcpEvent) /\ (~stQuic' => stBack' = <<>>)
    <3>1. stBack' = <<>>
      BY <1>1, Zenon
    <3> QED
      BY <3>1
  <2>2. /\ stQuic' \in BOOLEAN /\ stPub' \in [TcpConn -> Pubs] /\ stLocal' \in [TcpConn -> Locals]
        /\ stQueue' \in Seq(TcpEvent) /\ stSend' \in Seq(TcpEvent) /\ stHand' = NoTcp
        /\ stGot' \in [TcpConn -> Seq(Nat)] /\ stRecv' \in [TcpConn -> Seq(Nat)]
    BY <1>0, <1>1, <1>3, Zenon DEF TcpShape
  <2> QED
    BY <2>1, <2>2, Zenon DEF TcpShape
<1>5. StFlow' = StFlow \/ (StFlow # <<>> /\ StFlow' = Tail(StFlow))
  <2>1. CASE stHand = NoTcp
    BY <1>1, <2>1, FlowKept, Zenon
  <2>2. CASE stHand # NoTcp
    BY <1>0, <1>1, <2>2, FlowHandled, Zenon
  <2> QED
    BY <2>1, <2>2, Zenon
<1>6. ASSUME NEW d \in TcpConn
      PROVE  TcpAlways(d, StFlow', <<>>, stGot[d], stRecv[d], stPub[d], stLocal'[d])
  <2>1. TcpAlways(d, StFlow', stBack, stGot[d], stRecv[d], stPub[d], stLocal[d])
    BY <1>5, TcpHere, FlowLost, Zenon
  <2>2. StFlow' \in Seq(TcpEvent)
    BY <1>0, <1>5, FlowType
  <2>3. ChanType(StFlow', stBack, stGot[d], stRecv[d], stPub[d], stLocal[d])
    BY <2>2, TcpHere, Zenon DEF ChanType
  <2> QED
    BY <1>2, <2>1, <2>3, Restarted, Zenon
<1> QED
  BY <1>1, <1>4, <1>6, TcpThere, Zenon


\* The daemon takes an event that only its own connection c notices.
LEMMA HandledStep ==
    ASSUME TcpInv, stHand # NoTcp, stHand' = NoTcp, NEW c \in TcpConn, c = stHand.conn,
           UNCHANGED <<stQuic, stQueue, stSend, stBack, stPub, stRecv, stTaint>>,
           stLocal' \in [TcpConn -> Locals], stGot' \in [TcpConn -> Seq(Nat)],
           \A d \in TcpConn : d # c => stLocal'[d] = stLocal[d] /\ stGot'[d] = stGot[d],
           TcpAlways(c, Tail(StFlow), stBack, stGot'[c], stRecv[c], stPub[c], stLocal'[c]),
           TcpUntainted(c, StFlow, stBack, stGot[c], stRecv[c], stPub[c], stLocal[c])
             => TcpUntainted(c, Tail(StFlow), stBack, stGot'[c], stRecv[c], stPub[c], stLocal'[c])
    PROVE  TcpInv'
<1>0. TcpShape
  BY Zenon DEF TcpInv
<1>1. StFlow # <<>> /\ Head(StFlow).conn = c /\ StFlow' = Tail(StFlow)
  BY <1>0, FlowHandled, Zenon
<1>2. TcpShape'
  BY <1>0, Zenon DEF TcpShape
<1>3. ASSUME NEW d \in TcpConn, d # c
      PROVE  /\ TcpAlways(d, StFlow', stBack, stGot[d], stRecv[d], stPub[d], stLocal[d])
             /\ TcpUntainted(d, StFlow, stBack, stGot[d], stRecv[d], stPub[d], stLocal[d])
                  => TcpUntainted(d, StFlow', stBack, stGot[d], stRecv[d], stPub[d], stLocal[d])
  <2>1. Head(StFlow).conn # d
    BY <1>1, <1>3, Zenon
  <2> QED
    BY <1>1, <2>1, TcpHere, FlowOther, Zenon
<1> QED
  BY <1>1, <1>2, <1>3, TcpHere, TcpThere, Zenon

\* handleTCPEvent of an open whose dial fails.
LEMMA RefusedStep ==
    ASSUME TcpInv, stHand # NoTcp, stHand' = NoTcp, NEW c \in TcpConn, stHand = Ev("open", c, 0),
           PostChunk(Ev("close", c, 0)), UNCHANGED <<stQuic, stQueue, stSend, stGot>>,
           stLocal' \in [TcpConn -> Locals], \A d \in TcpConn : d # c => stLocal'[d] = stLocal[d],
           stLocal'[c].n = stLocal[c].n, stLocal'[c].state = "closed", stLocal'[c].reader = "done"
    PROVE  TcpInv'
<1>0. TcpShape /\ StFlow \in Seq(TcpEvent)
  BY FlowType, Zenon DEF TcpInv
<1>1. /\ StFlow # <<>> /\ Head(StFlow) = Ev("open", c, 0) /\ StFlow' = Tail(StFlow)
      /\ StFlow' \in Seq(TcpEvent)
  BY <1>0, FlowHandled
<1>2. PICK k \in TcpEvent : k = Ev("close", c, 0) /\ k.conn = c
  BY PlainEvents, EvFields
<1>3. /\ stPub' \in [TcpConn -> Pubs] /\ stRecv' \in [TcpConn -> Seq(Nat)] /\ stBack' \in Seq(TcpEvent)
      /\ ~stQuic => stBack' = <<>>
      /\ stTaint \subseteq stTaint'
  BY <1>0, <1>2, PostEffect, Zenon
<1>4. TcpShape'
  BY <1>0, <1>3, Zenon DEF TcpShape
<1>5. /\ TcpAlways(c, StFlow', stBack', stGot[c], stRecv'[c], stPub'[c], stLocal'[c])
      /\ c \notin stTaint' => TcpUntainted(c, StFlow', stBack', stGot[c], stRecv'[c], stPub'[c], stLocal'[c])
  <2>1. /\ ChanType(StFlow, stBack', stGot[c], stRecv'[c], stPub'[c], stLocal[c])
        /\ TcpAlways(c, StFlow, stBack', stGot[c], stRecv'[c], stPub'[c], stLocal[c])
        /\ c \notin stTaint' =>
              /\ TcpUntainted(c, StFlow, stBack', stGot[c], stRecv'[c], stPub'[c], stLocal[c])
              /\ stPub'[c].state # "open" \/ ~Without(stBack', Ev("close", c, 0))
    BY ClosePosted, Zenon
  <2>2. stLocal'[c] \in Locals
    BY Zenon
  <2> QED
    BY <1>1, <2>1, <2>2, FlowOpen, Zenon
<1>6. ASSUME NEW d \in TcpConn, d # c
      PROVE  /\ TcpAlways(d, StFlow', stBack', stGot[d], stRecv'[d], stPub'[d], stLocal[d])
             /\ TcpUntainted(d, StFlow, stBack, stGot[d], stRecv[d], stPub[d], stLocal[d])
                  => TcpUntainted(d, StFlow', stBack', stGot[d], stRecv'[d], stPub'[d], stLocal[d])
  <2>1. Head(StFlow).conn # d
    BY <1>1, <1>6, EvFields
  <2>2. /\ TcpAlways(d, StFlow', stBack, stGot[d], stRecv[d], stPub[d], stLocal[d])
        /\ TcpUntainted(d, StFlow, stBack, stGot[d], stRecv[d], stPub[d], stLocal[d])
             => TcpUntainted(d, StFlow', stBack, stGot[d], stRecv[d], stPub[d], stLocal[d])
    BY <1>1, <2>1, TcpHere, FlowOther, Zenon
  <2>3. PostChunk(k) /\ d # k.conn
    BY <1>2, <1>6, Zenon
  <2> QED
    BY <1>0, <1>1, <1>2, <2>2, <2>3, PostOther, Zenon
<1> QED
  BY <1>3, <1>4, <1>5, <1>6, TcpHere, TcpThere, Zenon

LEMMA HandleStep == ASSUME TcpInv, NEW dialled \in BOOLEAN, HandleTCPEvent(dialled) PROVE TcpInv'
<1>0. TcpShape /\ stLocal \in [TcpConn -> Locals] /\ stGot \in [TcpConn -> Seq(Nat)]
  BY Zenon DEF TcpInv, TcpShape
<1>1. stHand # NoTcp /\ stHand' = NoTcp /\ UNCHANGED <<stQuic, stQueue, stSend>>
  BY Zenon DEF HandleTCPEvent
<1>2. PICK e \in TcpEvent : e = stHand
  BY <1>0, <1>1, FlowHandled, Zenon
<1>3. PICK c \in TcpConn : c = stHand.conn /\ e.conn = c
  BY <1>2, EventType, Zenon
<1>4. e.type \in {"open", "close", "data"} /\ e = Ev(e.type, c, e.n) /\ (e.type # "data" => e.n = 0) /\ e.n \in Nat
  BY <1>3, EventType, Zenon
<1>5. StFlow # <<>> /\ Head(StFlow) = e
  BY <1>0, <1>1, <1>2, FlowHandled, Zenon
<1>t. stLocal[c] \in Locals /\ stGot[c] \in Seq(Nat)
  BY <1>0, Zenon
<1>6. CASE e.type = "open"
  <2>0. stHand = Ev("open", c, 0) /\ Head(StFlow) = Ev("open", c, 0)
    BY <1>2, <1>4, <1>5, <1>6, Zenon
  <2>1. CASE dialled
    <3>1. /\ stLocal' = [stLocal EXCEPT ![c].state = "open", ![c].reader = "read"]
          /\ UNCHANGED <<stGot, stBack, stPub, stRecv, stTaint>>
      BY <1>2, <1>3, <1>6, <2>1, Zenon DEF HandleTCPEvent
    <3>2. PICK h : h = [stLocal EXCEPT ![c].state = "open"]
      BY Zenon
    <3>3. stLocal' = [h EXCEPT ![c].reader = "read"]
      BY <3>1, <3>2, Zenon
    <3>4. /\ h \in [TcpConn -> Locals] /\ (\A d \in TcpConn : d # c => h[d] = stLocal[d])
          /\ h[c] \in Locals /\ h[c].n = stLocal[c].n /\ h[c].state = "open"
      BY <1>0, <1>t, <3>2, Zenon DEF Locals
    <3>5. /\ stLocal' \in [TcpConn -> Locals] /\ (\A d \in TcpConn : d # c => stLocal'[d] = stLocal[d])
          /\ stLocal'[c] \in Locals
          /\ stLocal'[c].n = stLocal[c].n /\ stLocal'[c].state = "open" /\ stLocal'[c].reader = "read"
      BY <3>3, <3>4, Zenon DEF Locals
    <3>6. stLocal'[c].reader # "done"
      BY <3>5, Zenon
    <3>7. /\ TcpAlways(c, Tail(StFlow), stBack, stGot[c], stRecv[c], stPub[c], stLocal'[c])
          /\ TcpUntainted(c, StFlow, stBack, stGot[c], stRecv[c], stPub[c], stLocal[c])
               => TcpUntainted(c, Tail(StFlow), stBack, stGot[c], stRecv[c], stPub[c], stLocal'[c])
      BY <1>5, <2>0, <3>5, <3>6, TcpHere, FlowOpen, Zenon
    <3> QED
      BY <1>0, <1>1, <1>3, <3>1, <3>5, <3>7, HandledStep, Zenon
  <2>2. CASE ~dialled
    <3>1. /\ stLocal' = [stLocal EXCEPT ![c].state = "closed", ![c].reader = "done"]
          /\ PostChunk(Ev("close", c, 0))
          /\ UNCHANGED stGot
      BY <1>2, <1>3, <1>6, <2>2, Zenon DEF HandleTCPEvent
    <3>2. PICK h : h = [stLocal EXCEPT ![c].state = "closed"]
      BY Zenon
    <3>3. stLocal' = [h EXCEPT ![c].reader = "done"]
      BY <3>1, <3>2, Zenon
    <3>4. /\ h \in [TcpConn -> Locals] /\ (\A d \in TcpConn : d # c => h[d] = stLocal[d])
          /\ h[c] \in Locals /\ h[c].n = stLocal[c].n /\ h[c].state = "closed"
      BY <1>0, <1>t, <3>2, Zenon DEF Locals
    <3>5. /\ stLocal' \in [TcpConn -> Locals] /\ (\A d \in TcpConn : d # c => stLocal'[d] = stLocal[d])
          /\ stLocal'[c].n = stLocal[c].n /\ stLocal'[c].state = "closed" /\ stLocal'[c].reader = "done"
      BY <3>3, <3>4, Zenon DEF Locals
    <3> QED
      BY <1>1, <2>0, <3>1, <3>5, RefusedStep, Zenon
  <2> QED
    BY <2>1, <2>2, Zenon
<1>7. CASE e.type = "data"
  <2>1. /\ stGot' = IF stLocal[c].state = "open" THEN [stGot EXCEPT ![c] = Append(@, e.n)] ELSE stGot
        /\ UNCHANGED <<stLocal, stBack, stPub, stRecv, stTaint>>
    BY <1>2, <1>3, <1>7, Zenon DEF HandleTCPEvent
  <2>2. /\ stGot' \in [TcpConn -> Seq(Nat)] /\ (\A d \in TcpConn : d # c => stGot'[d] = stGot[d])
        /\ stGot'[c] = IF stLocal[c].state = "open" THEN Append(stGot[c], Head(StFlow).n) ELSE stGot[c]
    BY <1>0, <1>4, <1>5, <1>t, <2>1
  <2>3. Head(StFlow).type = "data" /\ Head(StFlow).conn = c
    BY <1>3, <1>5, <1>7, Zenon
  <2>4. /\ TcpAlways(c, Tail(StFlow), stBack, stGot'[c], stRecv[c], stPub[c], stLocal[c])
        /\ TcpUntainted(c, StFlow, stBack, stGot[c], stRecv[c], stPub[c], stLocal[c])
             => TcpUntainted(c, Tail(StFlow), stBack, stGot'[c], stRecv[c], stPub[c], stLocal[c])
    BY <1>5, <2>2, <2>3, TcpHere, FlowData, Zenon
  <2> QED
    BY <1>0, <1>1, <1>3, <2>1, <2>2, <2>4, HandledStep, Zenon
<1>8. CASE e.type = "close"
  <2>0. Head(StFlow) = Ev("close", c, 0)
    BY <1>4, <1>5, <1>8, Zenon
  <2>1. /\ stLocal' = [stLocal EXCEPT ![c].state = IF @ = "open" THEN "closed" ELSE @]
        /\ UNCHANGED <<stGot, stBack, stPub, stRecv, stTaint>>
    BY <1>2, <1>3, <1>8, Zenon DEF HandleTCPEvent
  <2>2. /\ stLocal' \in [TcpConn -> Locals] /\ (\A d \in TcpConn : d # c => stLocal'[d] = stLocal[d])
        /\ stLocal'[c] \in Locals
        /\ stLocal'[c].n = stLocal[c].n /\ stLocal'[c].reader = stLocal[c].reader
        /\ stLocal'[c].state = IF stLocal[c].state = "open" THEN "closed" ELSE stLocal[c].state
    BY <1>0, <1>t, <2>1, Zenon DEF Locals
  <2>3. /\ TcpAlways(c, Tail(StFlow), stBack, stGot[c], stRecv[c], stPub[c], stLocal'[c])
        /\ TcpUntainted(c, StFlow, stBack, stGot[c], stRecv[c], stPub[c], stLocal[c])
             => TcpUntainted(c, Tail(StFlow), stBack, stGot[c], stRecv[c], stPub[c], stLocal'[c])
    BY <1>5, <2>0, <2>2, TcpHere, FlowClose, Zenon
  <2> QED
    BY <1>0, <1>1, <1>3, <2>1, <2>2, <2>3, HandledStep, Zenon
<1> QED
  BY <1>4, <1>6, <1>7, <1>8, Zenon


LEMMA TcpStart == StInit => TcpInv
<1> SUFFICES ASSUME StInit PROVE TcpInv
  BY Zenon
<1>1. /\ stQuic \in BOOLEAN
      /\ stPub = [c \in TcpConn |-> Endpoint] /\ stLocal = [c \in TcpConn |-> Endpoint]
      /\ stQueue = <<>> /\ stSend = <<>> /\ stHand = NoTcp /\ stBack = <<>>
      /\ stGot = [c \in TcpConn |-> <<>>] /\ stRecv = [c \in TcpConn |-> <<>>]
  BY Zenon DEF StInit, TcpInit
<1>2. TcpShape
  <2>1. Endpoint \in Pubs /\ Endpoint \in Locals
    BY Zenon DEF Endpoint, Pubs, Locals
  <2>2. stPub \in [TcpConn -> Pubs] /\ stLocal \in [TcpConn -> Locals]
    BY <1>1, <2>1, Zenon
  <2>3. <<>> \in Seq(TcpEvent) /\ <<>> \in Seq(Nat)
    OBVIOUS
  <2> QED
    BY <1>1, <2>2, <2>3, Zenon DEF TcpShape
<1>3. StFlow = <<>>
  BY <1>1, Zenon DEF StFlow
<1>4. ASSUME NEW c \in TcpConn
      PROVE  /\ TcpAlways(c, <<>>, <<>>, <<>>, <<>>, Endpoint, Endpoint)
             /\ TcpUntainted(c, <<>>, <<>>, <<>>, <<>>, Endpoint, Endpoint)
  <2>1. Endpoint.state = "none" /\ Endpoint.n = 0 /\ Endpoint.reader = "off"
    BY Zenon DEF Endpoint
  <2>2. DOMAIN <<>> = {} /\ Len(<<>>) + 1 = 1 /\ 1..0 = {}
    OBVIOUS
  <2>3. Follows(<<>>, c, <<>>, 0) /\ OpenOnce(<<>>, c) /\ NoneOf(<<>>, c) /\ Prefix1(<<>>)
    BY <2>2, Zenon DEF Follows, OpenOnce, NoneOf, Ascending, Prefix1
  <2>4. Complete(<<>>, c, <<>>, 0) /\ OpenFirst(<<>>, c)
    BY <2>2, <2>3, Zenon DEF Complete, OpenFirst
  <2>5. TcpAlways(c, <<>>, <<>>, <<>>, <<>>, Endpoint, Endpoint)
    BY <2>1, <2>3, Zenon DEF TcpAlways
  <2> QED
    BY <2>1, <2>3, <2>4, <2>5, Zenon DEF TcpUntainted
<1>5. \A c \in TcpConn : /\ stGot[c] = <<>> /\ stRecv[c] = <<>>
                         /\ stPub[c] = Endpoint /\ stLocal[c] = Endpoint
  BY <1>1, Zenon
<1> QED
  BY <1>1, <1>2, <1>3, <1>4, <1>5, Zenon DEF TcpInv

LEMMA TcpStep == TcpInv /\ [StNext]_stVars => TcpInv'
<1> SUFFICES ASSUME TcpInv, [StNext]_stVars PROVE TcpInv'
  BY Zenon
<1>1. CASE UNCHANGED tcpVars
  <2>1. UNCHANGED <<stQuic, stPub, stQueue, stSend, stHand, stLocal, stBack, stGot, stRecv, stTaint>>
    BY <1>1, Zenon DEF tcpVars
  <2>2. StFlow' = StFlow
    BY <2>1, FlowKept, Zenon
  <2>3. TcpShape'
    BY <2>1, Zenon DEF TcpInv, TcpShape
  <2> QED
    BY <2>1, <2>2, <2>3, TcpHere, TcpThere, Zenon
<1>2. CASE TcpNext
  <2>1. ASSUME NEW c \in TcpConn,
               \/ AcceptTCP(c) \/ AnnounceTCP(c) \/ ReadPublicTCP(c) \/ EndPublicTCP(c)
               \/ ReadLocalTCP(c) \/ EndLocalTCP(c)
        PROVE  TcpInv'
    BY <2>1, PublicStep, ReadLocalStep, EndLocalStep, Zenon
  <2> QED
    BY <1>2, <2>1, QuicChunkStep, OnTheWayStep, RestartStep, HandleStep, Zenon DEF TcpNext
<1>3. CASE UdpNext
  <2>1. UNCHANGED tcpVars
    BY <1>3, Zenon DEF UdpNext, ReadPublicUDP, NextUDPEvent, LoseUDPEvent, ReadAnswer, AnswerTimeout, BackendAnswers
  <2> QED
    BY <1>1, <2>1, Zenon
<1>4. CASE UNCHANGED stVars
  <2>1. UNCHANGED tcpVars
    BY <1>4, Zenon DEF stVars, tcpVars
  <2> QED
    BY <1>1, <2>1, Zenon
<1> QED
  BY <1>2, <1>3, <1>4, Zenon DEF StNext

LEMMA TcpSound == TcpInv => TcpFaithful
<1> SUFFICES ASSUME TcpInv PROVE TcpFaithful
  BY Zenon
<1>1. ASSUME NEW c \in TcpConn PROVE Ascending(stGot[c]) /\ Ascending(stRecv[c])
  BY TcpHere, Zenon DEF TcpAlways, Follows
<1>2. ASSUME NEW c \in TcpConn \ stTaint PROVE Prefix1(stGot[c]) /\ Prefix1(stRecv[c])
  BY TcpHere, Zenon DEF TcpUntainted
<1>3. ASSUME NEW c \in TcpConn \ stTaint, Settled(c) PROVE stPub[c].state # "open" /\ stLocal[c].state # "open"
  <2>1. /\ TcpAlways(c, StFlow, stBack, stGot[c], stRecv[c], stPub[c], stLocal[c])
        /\ TcpUntainted(c, StFlow, stBack, stGot[c], stRecv[c], stPub[c], stLocal[c])
    BY TcpHere, Zenon
  <2>2. StFlow = stQueue \/ StFlow = stSend
    BY <1>3, Zenon DEF Settled, StFlow
  <2>3. NoneOf(StFlow, c) /\ NoneOf(stBack, c)
    BY <1>3, <2>2, Zenon DEF Settled, NoneOf
  <2>4. \A q : NoneOf(q, c) => Without(q, Ev("close", c, 0)) /\ Without(q, Ev("open", c, 0))
    BY EvFields DEF NoneOf, Without
  <2>5. Without(StFlow, Ev("close", c, 0)) /\ Without(stBack, Ev("close", c, 0)) /\ Without(StFlow, Ev("open", c, 0))
    BY <2>3, <2>4, Zenon
  <2>6. CASE stPub[c].reader = "done"
    BY <2>1, <2>5, <2>6, Zenon DEF TcpAlways, TcpUntainted
  <2>7. CASE stLocal[c].reader = "done"
    BY <2>1, <2>5, <2>7, Zenon DEF TcpAlways, TcpUntainted
  <2> QED
    BY <1>3, <2>6, <2>7, Zenon DEF Settled
<1> QED
  BY <1>1, <1>2, <1>3, Zenon DEF TcpFaithful, TcpInOrder, TcpNoGap, TcpClosedTogether

\* Raw TCP tunnels (relay/tcp.go, client/tcp.go): for any number of connections, any
\* capacities and any number of lost polls and posts, both ends get the data of the
\* other in order and none twice, a connection of which nothing was lost has no gap,
\* and when one of its ends is done and nothing is on the way neither end is open.
THEOREM TcpIsFaithful == StSpec => []TcpFaithful
<1> QED
  BY TcpStart, TcpStep, TcpSound, PTL DEF StSpec
=============================================================================
