-------------------------- MODULE MuxStreamProofs --------------------------
(***************************************************************************)
(* Proofs about the multiplexed connection: MuxStream for every window,    *)
(* modulus, capacity and bound, and the two tables of streams of a         *)
(* MuxConnection, which share no state with it.                            *)
(***************************************************************************)
EXTENDS MuxStream, MuxConnection, SequenceTheorems, TLAPS

(***************************************************************************)
(* One stream.                                                             *)
(***************************************************************************)
\* There are two ends and Peer swaps them.
LEMMA PeerFacts ==
    \A e \in End : Peer(e) \in End /\ Peer(e) # e /\ Peer(Peer(e)) = e
<1>1. PICK a \in End, b \in End : a # b /\ End = {a, b}
  BY MuxStreamAssumption, Zenon
<1>2. ASSUME NEW e \in End, NEW f \in End, e # f
      PROVE  Peer(e) = f
  BY <1>1, <1>2, Zenon DEF Peer
<1>3. Peer(a) = b /\ Peer(b) = a
  BY <1>1, <1>2, Zenon
<1> QED
  BY <1>1, <1>3, Zenon

\* The constants are numbers.
LEMMA Numbers ==
    /\ MaxSeq \in Nat /\ MaxLoss \in Nat /\ Capacity \in Nat
    /\ Modulus \in Nat /\ Modulus > 0 /\ Window \in Nat /\ Window > 0 /\ Window < Modulus
  BY MuxStreamAssumption

\* The numbers that one end keeps.
LEMMA EndNumbers ==
    ASSUME TypeOK, NEW e \in End
    PROVE  /\ seq[e] \in 0..MaxSeq /\ ack[e] \in 0..MaxSeq
           /\ used[e] \in 0..(Modulus - 1) /\ win[e] \in 0..(Modulus - 1)
           /\ tick[e] \in {NoTick} \cup 0..(Modulus - 1)
  BY Zenon DEF TypeOK

\* A remainder by the modulus is a uint32.
LEMMA UintRange ==
    ASSUME NEW x \in Int
    PROVE  x % Modulus \in 0..(Modulus - 1)
  BY MuxStreamAssumption, SMT

\* Dropping the oldest entries leaves a sequence of at most Window entries.
LEMMA NewestType ==
    ASSUME NEW S, NEW s \in Seq(S)
    PROVE  Newest(s) \in Seq(S) /\ Len(Newest(s)) <= Window
<1>1. CASE Len(s) <= Window
  BY <1>1, Zenon DEF Newest
<1>2. CASE Len(s) > Window
  <2>1. /\ Len(s) - Window + 1 \in 1..Len(s) /\ Len(s) \in Nat
        /\ \A i \in (Len(s) - Window + 1)..Len(s) : s[i] \in S
    BY <1>2, MuxStreamAssumption
  <2>2. /\ SubSeq(s, Len(s) - Window + 1, Len(s)) \in Seq(S)
        /\ Len(SubSeq(s, Len(s) - Window + 1, Len(s))) = Window
    BY <2>1, SubSeqProperties, MuxStreamAssumption
  <2> QED
    BY <1>2, <2>2, MuxStreamAssumption DEF Newest
<1> QED
  BY <1>1, <1>2, LenProperties, MuxStreamAssumption

\* The type facts about one frame taken from the connection.
LEMMA HeadType ==
    ASSUME TypeOK, NEW e \in End, net[e] # <<>>
    PROVE  /\ Head(net[e]) \in Frames
           /\ Tail(net[e]) \in Seq(Frames)
           /\ Head(net[e]).num \in Nat
           /\ Head(net[e]).type = "data" => Head(net[e]).num \in 1..MaxSeq
<1>1. net[e] \in Seq(Frames)
  BY Zenon DEF TypeOK
<1>2. Head(net[e]) \in Frames /\ Tail(net[e]) \in Seq(Frames)
  BY <1>1, HeadTailProperties, Zenon
<1> QED
  BY <1>2, MuxStreamAssumption DEF Frames

LEMMA PutType ==
    ASSUME TypeOK, NEW e \in End, NEW f \in Frames, Put(e, f)
    PROVE  net' \in [End -> Seq(Frames)]
<1>1. Append(net[Peer(e)], f) \in Seq(Frames)
  BY PeerFacts, AppendProperties, Zenon DEF TypeOK
<1> QED
  BY <1>1, PeerFacts, Zenon DEF TypeOK, Put

LEMMA ArrivesType ==
    ASSUME TypeOK, NEW e \in End, NEW type, Arrives(e, type)
    PROVE  net' \in [End -> Seq(Frames)]
<1>1. Tail(net[e]) \in Seq(Frames)
  BY HeadType, Zenon DEF Arrives
<1> QED
  BY <1>1, Zenon DEF TypeOK, Arrives

LEMMA ArrivedType ==
    ASSUME TypeOK, NEW e \in End, NEW p \in 1..MaxSeq, Arrived(e, p)
    PROVE  /\ used' \in [End -> 0..(Modulus - 1)]
           /\ called' \in [End -> Seq(1..MaxSeq)]
<1>1. (IF used[e] <= 1 THEN 0 ELSE used[e] - 1) \in 0..(Modulus - 1)
  <2>1. used[e] \in 0..(Modulus - 1) /\ Modulus \in Nat
    BY MuxStreamAssumption, Zenon DEF TypeOK
  <2> QED
    BY <2>1
<1>2. Append(called[e], p) \in Seq(1..MaxSeq)
  BY AppendProperties, Zenon DEF TypeOK
<1> QED
  BY <1>1, <1>2, Zenon DEF TypeOK, Arrived

\* A one-frame sequence, which held may become.
LEMMA HeldType ==
    ASSUME TypeOK, NEW e \in End, NEW h, h = <<>> \/ \E f \in Frames : h = <<f>>,
           held' = [held EXCEPT ![e] = h]
    PROVE  held' \in [End -> Seq(Frames)] /\ \A x \in End : Len(held'[x]) <= 1
<1>1. h \in Seq(Frames) /\ Len(h) <= 1
  <2>1. CASE h = <<>>
    BY <2>1
  <2>2. ASSUME NEW f \in Frames, h = <<f>>
        PROVE  h \in Seq(Frames) /\ Len(h) <= 1
    BY <2>2
  <2> QED
    BY <2>1, <2>2, Zenon
<1> QED
  BY <1>1, Zenon DEF TypeOK

\* rbuf may become any sequence of payloads cut to the window.
LEMMA RbufType ==
    ASSUME TypeOK, NEW e \in End, NEW s \in Seq(1..MaxSeq),
           rbuf' = [rbuf EXCEPT ![e] = Newest(s)]
    PROVE  rbuf' \in [End -> Seq(1..MaxSeq)] /\ \A x \in End : Len(rbuf'[x]) <= Window
<1>1. Newest(s) \in Seq(1..MaxSeq) /\ Len(Newest(s)) <= Window
  BY NewestType, Zenon
<1> QED
  BY <1>1, Zenon DEF TypeOK

---------------------------------------------------------------------------
(* Type correctness, one lemma for each group of actions. *)

LEMMA InitType == Init => TypeOK
<1> SUFFICES ASSUME Init PROVE TypeOK
  BY Zenon
<1>1. <<>> \in Seq(Frames) /\ <<>> \in Seq(1..MaxSeq) /\ Len(<<>>) = 0
  OBVIOUS
<1> QED
  BY <1>1, MuxStreamAssumption DEF Init, TypeOK

LEMMA FlushType == ASSUME TypeOK, NEW e \in End, Flush(e) PROVE TypeOK'
<1>1. Head(held[e]) \in Frames
  BY HeadTailProperties, Zenon DEF TypeOK, Flush, Unlocked
<1>2. net' \in [End -> Seq(Frames)]
  BY <1>1, PutType, Zenon DEF Flush
<1>3. held' \in [End -> Seq(Frames)] /\ \A x \in End : Len(held'[x]) <= 1
  BY HeldType, Zenon DEF Flush
<1> QED
  BY <1>2, <1>3, Zenon DEF TypeOK, Flush, sending, receiving

LEMMA WriteType == ASSUME TypeOK, NEW e \in End, Write(e) PROVE TypeOK'
<1>1. seq[e] \in 0..MaxSeq /\ seq[e] + 1 \in 1..MaxSeq
  BY EndNumbers, Numbers DEF Write
<1>2. (used[e] + 1) % Modulus \in 0..(Modulus - 1)
  <2>1. used[e] + 1 \in Int
    BY EndNumbers, Numbers
  <2> QED
    BY <2>1, UintRange, Zenon
<1>3. Frame("data", seq[e] + 1) \in Frames
  BY <1>1, Zenon DEF Frame, Frames
<1>4. held' \in [End -> Seq(Frames)] /\ \A x \in End : Len(held'[x]) <= 1
  BY <1>3, HeldType, Zenon DEF Write
<1> QED
  <2>1. used' \in [End -> 0..(Modulus - 1)]
    BY <1>2, Zenon DEF TypeOK, Write
  <2>2. sent' \in [End -> SUBSET (1..MaxSeq)]
    BY <1>1, Zenon DEF TypeOK, Write
  <2>3. seq[e] + 1 \in 0..MaxSeq
    BY <1>1
  <2>4. seq' \in [End -> 0..MaxSeq]
    BY <2>3, Zenon DEF TypeOK, Write
  <2> QED
    BY <1>4, <2>1, <2>2, <2>4, Zenon DEF TypeOK, Write, receiving

LEMMA ReadType == ASSUME TypeOK, NEW e \in End, Read(e) PROVE TypeOK'
<1>1. /\ Head(rbuf[e]) \in 1..MaxSeq /\ Tail(rbuf[e]) \in Seq(1..MaxSeq)
      /\ Len(Tail(rbuf[e])) <= Window
  <2>1. rbuf[e] \in Seq(1..MaxSeq) /\ Len(rbuf[e]) <= Window /\ rbuf[e] # <<>>
    BY Zenon DEF TypeOK, Read
  <2>2. /\ Head(rbuf[e]) \in 1..MaxSeq /\ Tail(rbuf[e]) \in Seq(1..MaxSeq)
        /\ Len(Tail(rbuf[e])) = Len(rbuf[e]) - 1
    BY <2>1, HeadTailProperties, Zenon
  <2> QED
    BY <2>1, <2>2, LenProperties, Numbers
<1>2. Append(app[e], Head(rbuf[e])) \in Seq(1..MaxSeq)
  BY <1>1, AppendProperties, Zenon DEF TypeOK
<1> QED
  BY <1>1, <1>2, Zenon DEF TypeOK, Read, sending

LEMMA DataUnorderedType == ASSUME TypeOK, NEW e \in End, DataUnordered(e) PROVE TypeOK'
<1> DEFINE p == Head(net[e]).num
<1>1. net' \in [End -> Seq(Frames)] /\ p \in 1..MaxSeq
  BY HeadType, ArrivesType, Zenon DEF DataUnordered, Arrives
<1>2. Frame("ack", p) \in Frames
  BY <1>1, MuxStreamAssumption DEF Frame, Frames
<1>3. held' \in [End -> Seq(Frames)] /\ \A x \in End : Len(held'[x]) <= 1
  BY <1>2, HeldType, Zenon DEF DataUnordered
<1>4. Append(rbuf[e], p) \in Seq(1..MaxSeq)
  BY <1>1, AppendProperties, Zenon DEF TypeOK
<1>5. rbuf' \in [End -> Seq(1..MaxSeq)] /\ \A x \in End : Len(rbuf'[x]) <= Window
  BY <1>4, RbufType, Zenon DEF DataUnordered
<1>6. used' \in [End -> 0..(Modulus - 1)] /\ called' \in [End -> Seq(1..MaxSeq)]
  BY <1>1, ArrivedType, Zenon DEF DataUnordered
<1> QED
  BY <1>1, <1>3, <1>5, <1>6, Zenon DEF TypeOK, DataUnordered

LEMMA DataSeenType == ASSUME TypeOK, NEW e \in End, DataSeen(e) PROVE TypeOK'
<1> DEFINE p == Head(net[e]).num
<1>1. net' \in [End -> Seq(Frames)] /\ p \in Nat
  BY HeadType, ArrivesType, Zenon DEF DataSeen, Arrives
<1>2. Frame("ack", p) \in Frames
  BY <1>1, Zenon DEF Frame, Frames
<1>3. held' \in [End -> Seq(Frames)] /\ \A x \in End : Len(held'[x]) <= 1
  BY <1>2, HeldType, Zenon DEF DataSeen
<1> QED
  BY <1>1, <1>3, Zenon DEF TypeOK, DataSeen, sending, receiving

LEMMA DataGapType == ASSUME TypeOK, NEW e \in End, DataGap(e) PROVE TypeOK'
<1> DEFINE p == Head(net[e]).num
<1>1. net' \in [End -> Seq(Frames)] /\ p \in 1..MaxSeq
  BY HeadType, ArrivesType, Zenon DEF DataGap, Arrives
<1>2. Frame("nack", ack[e] + 1) \in Frames
  BY EndNumbers, Numbers DEF Frame, Frames
<1>3. held' \in [End -> Seq(Frames)] /\ \A x \in End : Len(held'[x]) <= 1
  BY <1>2, HeldType, Zenon DEF DataGap
<1> QED
  BY <1>1, <1>3, Zenon DEF TypeOK, DataGap, sending

\* The payloads that DataNext delivers.
Block(e, last) == [i \in 1..(last - ack[e]) |-> ack[e] + i]

LEMMA BlockType ==
    ASSUME TypeOK, NEW e \in End, NEW last \in 1..MaxSeq, last > ack[e]
    PROVE  Block(e, last) \in Seq(1..MaxSeq) /\ Len(Block(e, last)) = last - ack[e]
<1>1. ack[e] \in Nat /\ last - ack[e] \in Nat /\ last <= MaxSeq /\ MaxSeq \in Nat
  BY EndNumbers, Numbers
<1> QED
  BY <1>1 DEF Block

LEMMA DataNextType ==
    ASSUME TypeOK, NEW e \in End, NEW last \in 1..MaxSeq, DataNext(e, last)
    PROVE  TypeOK'
<1> DEFINE p == Head(net[e]).num
<1>1. net' \in [End -> Seq(Frames)] /\ p \in 1..MaxSeq
  BY HeadType, ArrivesType, Zenon DEF DataNext, Arrives
<1>2. Frame("ack", last) \in Frames
  BY MuxStreamAssumption DEF Frame, Frames
<1>3. held' \in [End -> Seq(Frames)] /\ \A x \in End : Len(held'[x]) <= 1
  BY <1>2, HeldType, Zenon DEF DataNext
<1>4. rbuf[e] \o Block(e, last) \in Seq(1..MaxSeq)
  <2>1. last > ack[e]
    BY <1>1, EndNumbers, Numbers DEF DataNext
  <2> QED
    BY <2>1, BlockType, ConcatProperties, Zenon DEF TypeOK
<1>5. rbuf' \in [End -> Seq(1..MaxSeq)] /\ \A x \in End : Len(rbuf'[x]) <= Window
  BY <1>4, RbufType, Zenon DEF DataNext, Block
<1>6. used' \in [End -> 0..(Modulus - 1)] /\ called' \in [End -> Seq(1..MaxSeq)]
  BY <1>1, ArrivedType, Zenon DEF DataNext
<1> QED
  <2>1. last \in 0..MaxSeq
    BY Numbers
  <2>2. ack' \in [End -> 0..MaxSeq]
    BY <2>1, Zenon DEF TypeOK, DataNext
  <2>3. pending' \in [End -> SUBSET (1..MaxSeq)]
    BY Zenon DEF TypeOK, DataNext
  <2> QED
    BY <1>1, <1>3, <1>5, <1>6, <2>2, <2>3, Zenon DEF TypeOK, DataNext

LEMMA AckFrameType == ASSUME TypeOK, NEW e \in End, AckFrame(e) PROVE TypeOK'
<1>1. net' \in [End -> Seq(Frames)]
  BY ArrivesType, Zenon DEF AckFrame
<1>2. sent' \in [End -> SUBSET (1..MaxSeq)]
  BY Zenon DEF TypeOK, AckFrame
<1> QED
  BY <1>1, <1>2, Zenon DEF TypeOK, AckFrame, receiving

LEMMA NackFrameType == ASSUME TypeOK, NEW e \in End, NackFrame(e) PROVE TypeOK'
<1>1. net' \in [End -> Seq(Frames)]
  BY ArrivesType, Zenon DEF NackFrame
<1>2. resend' \in [End -> SUBSET (1..MaxSeq)]
  BY Zenon DEF TypeOK, NackFrame
<1> QED
  BY <1>1, <1>2, Zenon DEF TypeOK, NackFrame, sending, receiving

LEMMA ResendType == ASSUME TypeOK, NEW e \in End, Resend(e) PROVE TypeOK'
<1>1. PICK s \in resend[e] :
        /\ Put(e, Frame("data", s))
        /\ resend' = [resend EXCEPT ![e] = resend[e] \ {s}]
        /\ UNCHANGED <<sending, receiving, held, tick, app, lost>>
  BY Zenon DEF Resend
<1>2. s \in 1..MaxSeq
  BY Zenon DEF TypeOK
<1>3. Frame("data", s) \in Frames
  BY <1>2, Zenon DEF Frame, Frames
<1>4. net' \in [End -> Seq(Frames)]
  BY <1>1, <1>3, PutType, Zenon
<1>5. resend' \in [End -> SUBSET (1..MaxSeq)]
  BY <1>1, Zenon DEF TypeOK
<1> QED
  BY <1>1, <1>4, <1>5, Zenon DEF TypeOK, sending, receiving

LEMMA WindowFrameType == ASSUME TypeOK, NEW e \in End, WindowFrame(e) PROVE TypeOK'
<1> DEFINE n == Head(net[e]).num
<1>1. net' \in [End -> Seq(Frames)] /\ n \in Nat
  BY HeadType, ArrivesType, Zenon DEF WindowFrame, Arrives
<1>2. (win[e] + n) % Modulus \in 0..(Modulus - 1)
  <2>1. win[e] + n \in Int
    BY <1>1, EndNumbers, Numbers
  <2> QED
    BY <2>1, UintRange, Zenon
<1>3. win' \in [End -> 0..(Modulus - 1)]
  BY <1>2, Zenon DEF TypeOK, WindowFrame
<1> QED
  BY <1>1, <1>3, Zenon DEF TypeOK, WindowFrame, receiving

LEMMA WriteLoopType == ASSUME TypeOK, NEW e \in End, WriteLoop(e) PROVE TypeOK'
<1>1. CASE TickRead(e)
  <2>1. (win[e] - used[e]) % Modulus \in 0..(Modulus - 1)
    <3>1. win[e] - used[e] \in Int
      BY EndNumbers, Numbers
    <3> QED
      BY <3>1, UintRange, Zenon
  <2>2. tick' \in [End -> {NoTick} \cup 0..(Modulus - 1)]
    BY <1>1, <2>1, Zenon DEF TypeOK, TickRead
  <2> QED
    BY <1>1, <2>2, Zenon DEF TypeOK, TickRead, sending, receiving
<1>2. CASE TickSend(e)
  <2>1. tick' \in [End -> {NoTick} \cup 0..(Modulus - 1)]
    BY <1>2, Zenon DEF TypeOK, TickSend
  <2>2. net' \in [End -> Seq(Frames)]
    <3>1. CASE UNCHANGED net
      BY <3>1, Zenon DEF TypeOK
    <3>2. CASE Put(e, Frame("window", (win[e] - tick[e]) % Modulus))
      <4>1. win[e] - tick[e] \in Int
        BY <1>2, EndNumbers, Numbers DEF TickSend
      <4>2. (win[e] - tick[e]) % Modulus \in Nat
        BY <4>1, UintRange, Numbers
      <4>3. Frame("window", (win[e] - tick[e]) % Modulus) \in Frames
        BY <4>2, Zenon DEF Frame, Frames
      <4> QED
        BY <3>2, <4>3, PutType, Zenon
    <3> QED
      BY <1>2, <3>1, <3>2, Zenon DEF TickSend
  <2> QED
    BY <1>2, <2>1, <2>2, Zenon DEF TypeOK, TickSend, sending, receiving
<1> QED
  BY <1>1, <1>2, Zenon DEF WriteLoop

LEMMA LoseType == ASSUME TypeOK, NEW e \in End, Lose(e) PROVE TypeOK'
<1>1. net' \in [End -> Seq(Frames)]
  BY HeadType, Zenon DEF TypeOK, Lose
<1>2. lost' \in 0..MaxLoss
  BY Numbers DEF TypeOK, Lose
<1> QED
  BY <1>1, <1>2, Zenon DEF TypeOK, Lose, sending, receiving

LEMMA TypeStep == ASSUME TypeOK, [Next]_vars PROVE TypeOK'
<1>1. CASE UNCHANGED vars
  BY <1>1, Zenon DEF TypeOK, vars
<1>2. ASSUME NEW e \in End, ReadLoop(e) PROVE TypeOK'
  BY <1>2, DataUnorderedType, DataSeenType, DataGapType, DataNextType, AckFrameType,
     NackFrameType, ResendType, WindowFrameType, Zenon DEF ReadLoop
<1> QED
  BY <1>1, <1>2, WriteType, ReadType, FlushType, WriteLoopType, LoseType, Zenon DEF Next

\* Types, and the bounds they carry: the window counters stay unsigned, the read
\* buffer never exceeds the window and at most one frame is written under
\* stream.mu (handleDataFrame, Write and sendWindowUpdates).
THEOREM TypeCorrect == Spec => []TypeOK
  BY InitType, TypeStep, PTL DEF Spec
---------------------------------------------------------------------------
(* Order of delivery.  What has been read, a, and what waits, b, are increasing,
   a lies before b, and nothing exceeds n. *)
Sorted(a, b, n) ==
    /\ Increasing(a) /\ Increasing(b)
    /\ \A i \in DOMAIN a : a[i] <= n /\ \A j \in DOMAIN b : a[i] < b[j]
    /\ \A j \in DOMAIN b : b[j] <= n

LEMMA SortedRead ==
    ASSUME NEW a \in Seq(Nat), NEW b \in Seq(Nat), NEW n \in Nat, Sorted(a, b, n), b # <<>>
    PROVE  Sorted(Append(a, Head(b)), Tail(b), n)
<1>1. /\ Tail(b) \in Seq(Nat) /\ Len(Tail(b)) = Len(b) - 1 /\ Len(b) \in Nat \ {0}
      /\ \A i \in 1..Len(Tail(b)) : Tail(b)[i] = b[i + 1]
      /\ Head(b) = b[1] /\ Head(b) \in Nat
  BY HeadTailProperties, EmptySeq
<1>2. /\ Append(a, Head(b)) \in Seq(Nat) /\ Len(Append(a, Head(b))) = Len(a) + 1
      /\ \A i \in 1..Len(a) : Append(a, Head(b))[i] = a[i]
      /\ Append(a, Head(b))[Len(a) + 1] = b[1]
  BY <1>1, AppendProperties
<1>3. DOMAIN a = 1..Len(a) /\ DOMAIN b = 1..Len(b) /\ Len(a) \in Nat
  OBVIOUS
<1>4. DOMAIN Tail(b) = 1..(Len(b) - 1) /\ DOMAIN Append(a, Head(b)) = 1..(Len(a) + 1)
  BY <1>1, <1>2, LenProperties, Zenon
<1>5. Increasing(Tail(b))
  <2> SUFFICES ASSUME NEW i \in 1..(Len(b) - 1), NEW j \in 1..(Len(b) - 1), i < j
               PROVE  Tail(b)[i] < Tail(b)[j]
    BY <1>4, Zenon DEF Increasing
  <2>1. i + 1 \in DOMAIN b /\ j + 1 \in DOMAIN b /\ i + 1 < j + 1
    BY <1>1, <1>3
  <2>2. b[i + 1] < b[j + 1]
    BY <2>1, Zenon DEF Sorted, Increasing
  <2> QED
    BY <1>1, <2>2, Zenon
<1>6. Increasing(Append(a, Head(b)))
  BY <1>1, <1>2, <1>3, <1>4 DEF Sorted, Increasing
<1>7. ASSUME NEW i \in DOMAIN Append(a, Head(b))
      PROVE  /\ Append(a, Head(b))[i] <= n
             /\ \A j \in DOMAIN Tail(b) : Append(a, Head(b))[i] < Tail(b)[j]
  <2>1. \A j \in DOMAIN Tail(b) : j + 1 \in DOMAIN b /\ 1 < j + 1 /\ Tail(b)[j] = b[j + 1]
    BY <1>1, <1>3, <1>4
  <2>2. 1 \in DOMAIN b
    BY <1>1, <1>3
  <2>3. CASE i = Len(a) + 1
    BY <1>2, <2>1, <2>2, <2>3, Zenon DEF Sorted, Increasing
  <2>4. CASE i # Len(a) + 1
    <3>1. i \in DOMAIN a
      BY <1>3, <1>4, <2>4
    <3>2. Append(a, Head(b))[i] = a[i]
      BY <1>2, <1>3, <3>1, Zenon
    <3> QED
      BY <2>1, <3>1, <3>2, Zenon DEF Sorted
  <2> QED
    BY <2>3, <2>4, Zenon
<1>8. \A j \in DOMAIN Tail(b) : Tail(b)[j] <= n
  BY <1>1, <1>3, <1>4 DEF Sorted
<1> QED
  BY <1>5, <1>6, <1>7, <1>8, Zenon DEF Sorted

\* What remains of a sequence without its first d entries.
LEMMA Suffix ==
    ASSUME NEW S, NEW s \in Seq(S), NEW d \in 0..Len(s)
    PROVE  /\ SubSeq(s, d + 1, Len(s)) \in Seq(S)
           /\ Len(SubSeq(s, d + 1, Len(s))) = Len(s) - d
           /\ \A i \in 1..(Len(s) - d) : SubSeq(s, d + 1, Len(s))[i] = s[d + i]
  OBVIOUS

LEMMA SortedNewest ==
    ASSUME NEW a \in Seq(Nat), NEW s \in Seq(Nat), NEW n \in Nat, Sorted(a, s, n)
    PROVE  Sorted(a, Newest(s), n)
<1>1. CASE Len(s) <= Window
  BY <1>1, Zenon DEF Newest
<1>2. CASE ~(Len(s) <= Window)
  <2> DEFINE d == Len(s) - Window
             t == SubSeq(s, d + 1, Len(s))
  <2>1. Len(s) \in Nat /\ d \in 1..Len(s) /\ Len(s) - d = Window /\ DOMAIN s = 1..Len(s)
    BY <1>2, Numbers
  <2>2. Newest(s) = t
    BY <1>2, Zenon DEF Newest
  <2>3. /\ t \in Seq(Nat) /\ Len(t) = Window
        /\ \A i \in 1..Window : t[i] = s[d + i]
    <3>1. d \in 0..Len(s)
      BY <2>1
    <3>2. /\ t \in Seq(Nat) /\ Len(t) = Len(s) - d
          /\ \A i \in 1..(Len(s) - d) : t[i] = s[d + i]
      BY <3>1, Suffix, Zenon
    <3> QED
      BY <2>1, <3>2, Zenon
  <2>4. DOMAIN t = 1..Window
    BY <2>3, LenProperties, Zenon
  <2>5. \A i \in 1..Window : d + i \in 1..Len(s)
    BY <2>1, Numbers
  <2> HIDE DEF d, t
  <2>6. Increasing(t)
    <3> SUFFICES ASSUME NEW i \in 1..Window, NEW j \in 1..Window, i < j
                 PROVE  t[i] < t[j]
      BY <2>4, Zenon DEF Increasing
    <3>1. d + i \in DOMAIN s /\ d + j \in DOMAIN s /\ d + i < d + j
      BY <2>1, <2>5, Numbers
    <3>2. s[d + i] < s[d + j]
      BY <3>1, Zenon DEF Sorted, Increasing
    <3> QED
      BY <2>3, <3>2, Zenon
  <2>7. \A j \in DOMAIN t : t[j] <= n /\ \A i \in DOMAIN a : a[i] < t[j]
    BY <2>1, <2>3, <2>4, <2>5, Zenon DEF Sorted
  <2> QED
    BY <2>2, <2>6, <2>7, Zenon DEF Sorted
<1> QED
  BY <1>1, <1>2, Zenon

LEMMA SortedBlock ==
    ASSUME NEW a \in Seq(Nat), NEW b \in Seq(Nat), NEW n \in Nat, NEW m \in Nat, m > n,
           Sorted(a, b, n)
    PROVE  Sorted(a, b \o [i \in 1..(m - n) |-> n + i], m)
<1> DEFINE k == m - n
           blk == [i \in 1..k |-> n + i]
           c == b \o blk
<1>1. k \in Nat /\ blk \in Seq(Nat) /\ Len(blk) = k
  OBVIOUS
<1>2. /\ c \in Seq(Nat) /\ Len(c) = Len(b) + k
      /\ \A i \in 1..(Len(b) + k) : c[i] = IF i <= Len(b) THEN b[i] ELSE blk[i - Len(b)]
  BY <1>1, ConcatProperties
<1>3. /\ DOMAIN a = 1..Len(a) /\ DOMAIN b = 1..Len(b) /\ DOMAIN c = 1..(Len(b) + k)
      /\ Len(a) \in Nat /\ Len(b) \in Nat
  BY <1>2, LenProperties, Zenon
<1>4. \A i \in 1..Len(b) : c[i] = b[i] /\ c[i] \in Nat /\ c[i] <= n
  <2> SUFFICES ASSUME NEW i \in 1..Len(b)
               PROVE  c[i] = b[i] /\ c[i] \in Nat /\ c[i] <= n
    BY Zenon
  <2> HIDE DEF c, blk, k
  <2>1. i \in 1..(Len(b) + k) /\ i <= Len(b)
    BY <1>1, <1>3
  <2>2. c[i] = b[i]
    BY <1>2, <2>1, Zenon
  <2>3. b[i] \in Nat /\ b[i] <= n
    BY <1>3 DEF Sorted
  <2> QED
    BY <2>2, <2>3, Zenon
<1>5. \A i \in (Len(b) + 1)..(Len(b) + k) : c[i] = n + (i - Len(b))
  <2> SUFFICES ASSUME NEW i \in (Len(b) + 1)..(Len(b) + k)
               PROVE  c[i] = n + (i - Len(b))
    BY Zenon
  <2>1. i \in 1..(Len(b) + k) /\ ~(i <= Len(b)) /\ i - Len(b) \in 1..k
    BY <1>1, <1>3
  <2>2. c[i] = blk[i - Len(b)]
    BY <1>2, <2>1, Zenon
  <2> QED
    BY <2>1, <2>2, Zenon
<1> HIDE DEF c, blk, k
<1>6. Increasing(c)
  <2> SUFFICES ASSUME NEW i \in 1..(Len(b) + k), NEW j \in 1..(Len(b) + k), i < j
               PROVE  c[i] < c[j]
    BY <1>3, Zenon DEF Increasing
  <2>1. CASE j <= Len(b)
    <3>1. i \in DOMAIN b /\ j \in DOMAIN b
      BY <1>3, <2>1
    <3>2. b[i] < b[j]
      BY <3>1, Zenon DEF Sorted, Increasing
    <3> QED
      BY <1>3, <1>4, <3>1, <3>2
  <2>2. CASE i <= Len(b) /\ ~(j <= Len(b))
    <3>1. i \in 1..Len(b) /\ j \in (Len(b) + 1)..(Len(b) + k)
      BY <1>1, <1>3, <2>2
    <3> QED
      BY <1>3, <1>4, <1>5, <3>1
  <2>3. CASE ~(i <= Len(b))
    <3>1. i \in (Len(b) + 1)..(Len(b) + k) /\ j \in (Len(b) + 1)..(Len(b) + k)
      BY <1>1, <1>3, <2>3
    <3> QED
      BY <1>3, <1>5, <3>1
  <2> QED
    BY <1>3, <2>1, <2>2, <2>3, Zenon
<1>7. \A j \in DOMAIN c : c[j] <= m /\ \A i \in DOMAIN a : a[i] < c[j]
  <2> SUFFICES ASSUME NEW j \in 1..(Len(b) + k)
               PROVE  c[j] <= m /\ \A i \in DOMAIN a : a[i] < c[j]
    BY <1>3, Zenon
  <2>1. \A i \in DOMAIN a : a[i] \in Nat /\ a[i] <= n
    BY <1>3 DEF Sorted
  <2>2. CASE j <= Len(b)
    <3>1. j \in DOMAIN b /\ j \in 1..Len(b)
      BY <1>3, <2>2
    <3>2. \A i \in DOMAIN a : a[i] < b[j]
      BY <3>1, Zenon DEF Sorted
    <3> QED
      BY <1>4, <3>1, <3>2
  <2>3. CASE ~(j <= Len(b))
    <3>1. j \in (Len(b) + 1)..(Len(b) + k) /\ j - Len(b) \in 1..k /\ n + k = m
      BY <1>1, <1>3, <2>3 DEF k
    <3>2. c[j] = n + (j - Len(b))
      BY <1>5, <3>1, Zenon
    <3> QED
      BY <1>1, <2>1, <3>1, <3>2
  <2> QED
    BY <2>2, <2>3, Zenon
<1>8. \A i \in DOMAIN a : a[i] <= m
  BY <1>3 DEF Sorted
<1>9. Sorted(a, c, m)
  BY <1>6, <1>7, <1>8, Zenon DEF Sorted
<1> QED
  BY <1>9, Zenon DEF c, blk, k

LEMMA SortedIncreasing ==
    ASSUME NEW a \in Seq(Nat), NEW b \in Seq(Nat), NEW n \in Nat, Sorted(a, b, n)
    PROVE  Increasing(a \o b)
<1> DEFINE c == a \o b
<1>1. /\ c \in Seq(Nat) /\ Len(c) = Len(a) + Len(b)
      /\ \A i \in 1..(Len(a) + Len(b)) : c[i] = IF i <= Len(a) THEN a[i] ELSE b[i - Len(a)]
  BY ConcatProperties, Zenon
<1>2. /\ DOMAIN a = 1..Len(a) /\ DOMAIN b = 1..Len(b) /\ DOMAIN c = 1..(Len(a) + Len(b))
      /\ Len(a) \in Nat /\ Len(b) \in Nat
  BY <1>1, LenProperties, Zenon
<1> HIDE DEF c
<1>3. Increasing(c)
  <2> SUFFICES ASSUME NEW i \in 1..(Len(a) + Len(b)), NEW j \in 1..(Len(a) + Len(b)), i < j
               PROVE  c[i] < c[j]
    BY <1>2, Zenon DEF Increasing
  <2>1. CASE j <= Len(a)
    <3>1. i \in DOMAIN a /\ j \in DOMAIN a /\ i <= Len(a)
      BY <1>2, <2>1
    <3>2. a[i] < a[j]
      BY <3>1, Zenon DEF Sorted, Increasing
    <3> QED
      BY <1>1, <2>1, <3>1, <3>2, Zenon
  <2>2. CASE i <= Len(a) /\ ~(j <= Len(a))
    <3>1. i \in DOMAIN a /\ j - Len(a) \in DOMAIN b
      BY <1>2, <2>2
    <3>2. a[i] < b[j - Len(a)]
      BY <3>1, Zenon DEF Sorted
    <3> QED
      BY <1>1, <2>2, <3>2, Zenon
  <2>3. CASE ~(i <= Len(a))
    <3>1. i - Len(a) \in DOMAIN b /\ j - Len(a) \in DOMAIN b /\ i - Len(a) < j - Len(a)
      BY <1>2, <2>3
    <3>2. b[i - Len(a)] < b[j - Len(a)]
      BY <3>1, Zenon DEF Sorted, Increasing
    <3>3. ~(j <= Len(a))
      BY <1>2, <2>3
    <3> QED
      BY <1>1, <2>3, <3>2, <3>3, Zenon
  <2> QED
    BY <1>2, <2>1, <2>2, <2>3, Zenon
<1> QED
  BY <1>3, Zenon DEF c

\* The inductive invariant behind InOrderOnce.
OrderInv == TypeOK /\ \A e \in End : Sorted(app[e], rbuf[e], ack[e])

LEMMA EndSeqs ==
    ASSUME TypeOK, NEW e \in End
    PROVE  app[e] \in Seq(Nat) /\ rbuf[e] \in Seq(Nat) /\ ack[e] \in Nat
<1>1. 1..MaxSeq \subseteq Nat
  BY Numbers
<1>2. app[e] \in Seq(1..MaxSeq) /\ rbuf[e] \in Seq(1..MaxSeq)
  BY Zenon DEF TypeOK
<1>3. app[e] \in Seq(Nat) /\ rbuf[e] \in Seq(Nat)
  BY <1>1, <1>2, SeqMonotonic, Zenon
<1> QED
  BY <1>3, EndNumbers, Numbers

LEMMA OrderInit == Init => OrderInv
<1> SUFFICES ASSUME Init PROVE OrderInv
  BY Zenon
<1>1. ASSUME NEW e \in End PROVE Sorted(app[e], rbuf[e], ack[e])
  <2>1. app[e] = <<>> /\ rbuf[e] = <<>>
    BY Zenon DEF Init
  <2>2. DOMAIN <<>> = {}
    OBVIOUS
  <2> QED
    BY <2>1, <2>2, Zenon DEF Sorted, Increasing
<1> QED
  BY <1>1, InitType, Zenon DEF OrderInv

LEMMA OrderRead ==
    ASSUME OrderInv, NEW e \in End, Read(e), NEW x \in End
    PROVE  Sorted(app'[x], rbuf'[x], ack'[x])
<1>1. CASE x = e
  <2>1. /\ app'[e] = Append(app[e], Head(rbuf[e])) /\ rbuf'[e] = Tail(rbuf[e])
        /\ ack' = ack /\ rbuf[e] # <<>>
    BY Zenon DEF OrderInv, TypeOK, Read
  <2> QED
    BY <1>1, <2>1, EndSeqs, SortedRead, Zenon DEF OrderInv
<1>2. CASE x # e
  <2>1. app'[x] = app[x] /\ rbuf'[x] = rbuf[x] /\ ack' = ack
    BY <1>2, Zenon DEF OrderInv, TypeOK, Read
  <2> QED
    BY <2>1, Zenon DEF OrderInv
<1> QED
  BY <1>1, <1>2, Zenon

LEMMA NumbersAfter ==
    ASSUME NEW n \in Nat, NEW k \in Nat
    PROVE  [i \in 1..k |-> n + i] \in Seq(Nat)
  OBVIOUS

LEMMA OrderDataNext ==
    ASSUME OrderInv, NEW e \in End, NEW last \in 1..MaxSeq, DataNext(e, last), NEW x \in End
    PROVE  Sorted(app'[x], rbuf'[x], ack'[x])
<1>1. CASE x = e
  <2> DEFINE s == rbuf[e] \o [i \in 1..(last - ack[e]) |-> ack[e] + i]
  <2>1. app' = app /\ rbuf'[e] = Newest(s) /\ ack'[e] = last
    BY Zenon DEF OrderInv, TypeOK, DataNext
  <2>2. last \in Nat /\ last > ack[e]
    BY EndNumbers, Numbers DEF OrderInv, DataNext
  <2>3. Sorted(app[e], s, last)
    BY <2>2, EndSeqs, SortedBlock, Zenon DEF OrderInv
  <2>4. s \in Seq(Nat)
    <3>1. ack[e] \in Nat /\ last - ack[e] \in Nat
      BY <2>2, EndSeqs DEF OrderInv
    <3>2. [i \in 1..(last - ack[e]) |-> ack[e] + i] \in Seq(Nat)
      BY <3>1, NumbersAfter, Zenon
    <3> QED
      BY <3>2, EndSeqs, ConcatProperties, Zenon DEF OrderInv
  <2>5. Sorted(app[e], Newest(s), last)
    BY <2>2, <2>3, <2>4, EndSeqs, SortedNewest, Zenon DEF OrderInv
  <2> QED
    BY <1>1, <2>1, <2>5, Zenon
<1>2. CASE x # e
  <2>1. app'[x] = app[x] /\ rbuf'[x] = rbuf[x] /\ ack'[x] = ack[x]
    BY <1>2, Zenon DEF OrderInv, TypeOK, DataNext
  <2> QED
    BY <2>1, Zenon DEF OrderInv
<1> QED
  BY <1>1, <1>2, Zenon

LEMMA OrderStep ==
    ASSUME Mode = "exactly_once", OrderInv, [Next]_vars
    PROVE  OrderInv'
<1>1. TypeOK'
  BY TypeStep, Zenon DEF OrderInv
<1>2. CASE UNCHANGED <<app, rbuf, ack>>
  BY <1>1, <1>2, Zenon DEF OrderInv
<1>3. ASSUME NEW e \in End, Read(e) PROVE OrderInv'
  BY <1>1, <1>3, OrderRead, Zenon DEF OrderInv
<1>4. ASSUME NEW e \in End, NEW last \in 1..MaxSeq, DataNext(e, last) PROVE OrderInv'
  BY <1>1, <1>4, OrderDataNext, Zenon DEF OrderInv
<1>5. ASSUME NEW e \in End, ReadLoop(e) PROVE OrderInv'
  <2>1. CASE DataUnordered(e)
    BY <2>1, Zenon DEF DataUnordered
  <2>2. CASE DataSeen(e) \/ DataGap(e) \/ AckFrame(e) \/ NackFrame(e) \/ Resend(e)
             \/ WindowFrame(e)
    <3>1. UNCHANGED <<app, rbuf, ack>>
      BY <2>2, Zenon DEF DataSeen, DataGap, AckFrame, NackFrame, Resend, WindowFrame, receiving
    <3> QED
      BY <1>2, <3>1, Zenon
  <2> QED
    BY <1>4, <1>5, <2>1, <2>2, Zenon DEF ReadLoop
<1>6. ASSUME NEW e \in End, Write(e) \/ Flush(e) \/ WriteLoop(e) \/ Lose(e)
      PROVE  OrderInv'
  <2>1. UNCHANGED <<app, rbuf, ack>>
    BY <1>6, Zenon DEF Write, Flush, WriteLoop, TickRead, TickSend, Lose, receiving
  <2> QED
    BY <1>2, <2>1, Zenon
<1>7. CASE UNCHANGED vars
  <2>1. UNCHANGED <<app, rbuf, ack>>
    BY <1>7, Zenon DEF vars
  <2> QED
    BY <1>2, <2>1, Zenon
<1> QED
  BY <1>3, <1>5, <1>6, <1>7, Zenon DEF Next

\* With sequencing, what the application has read followed by what waits for it
\* is in the order of writing and repeats nothing (handleDataFrame), for any
\* losses, any number of ends that write and any size of the window.
THEOREM DeliversInOrderOnce ==
    ASSUME Mode = "exactly_once"
    PROVE  Spec => []InOrderOnce
<1>1. OrderInv => InOrderOnce
  <2> SUFFICES ASSUME OrderInv, NEW e \in End PROVE Increasing(app[e] \o rbuf[e])
    BY Zenon DEF InOrderOnce
  <2> QED
    BY EndSeqs, SortedIncreasing, Zenon DEF OrderInv
<1>2. OrderInv /\ [Next]_vars => OrderInv'
  BY OrderStep, Zenon
<1> QED
  BY <1>1, <1>2, OrderInit, PTL DEF Spec

-----------------------------------------------------------------------------
(***************************************************************************)
(* exactly_once keeps every payload until the peer delivered it.           *)
(***************************************************************************)
(* Nothing is forgotten too early.  The frames that may be on their way to e:
   an acknowledgement covers only what the peer has delivered. *)
SoundFor(e) == {f \in Frames : f.type = "ack" => f.num <= ack[Peer(e)]}

KeepInv ==
    /\ TypeOK
    /\ UndeliveredKept
    /\ \A e \in End : net[e] \in Seq(SoundFor(e)) /\ held[Peer(e)] \in Seq(SoundFor(e))

LEMMA KeepInit == Init => KeepInv
<1> SUFFICES ASSUME Init PROVE KeepInv
  BY Zenon
<1>1. UndeliveredKept
  BY Numbers DEF Init, UndeliveredKept
<1>2. ASSUME NEW e \in End
      PROVE  net[e] \in Seq(SoundFor(e)) /\ held[Peer(e)] \in Seq(SoundFor(e))
  <2>1. net[e] = <<>> /\ held[Peer(e)] = <<>>
    BY PeerFacts, Zenon DEF Init
  <2> QED
    BY <2>1
<1> QED
  BY <1>1, <1>2, InitType, Zenon DEF KeepInv

\* Sound sequences stay sound while the acknowledged numbers only grow.
LEMMA SoundGrows ==
    ASSUME KeepInv, TypeOK', NEW e \in End, \A x \in End : ack[x] <= ack'[x]
    PROVE  /\ Seq(SoundFor(e)) \subseteq Seq(SoundFor(e)')
<1>1. ASSUME NEW f \in SoundFor(e) PROVE f \in SoundFor(e)'
  <2>1. f \in Frames /\ (f.type = "ack" => f.num <= ack[Peer(e)])
    BY Zenon DEF SoundFor
  <2>2. ack[Peer(e)] <= ack'[Peer(e)] /\ ack[Peer(e)] \in Nat /\ ack'[Peer(e)] \in Nat
    BY PeerFacts, Numbers DEF KeepInv, TypeOK
  <2>3. f.num \in Nat
    BY <2>1, Numbers DEF Frames
  <2> QED
    BY <2>1, <2>2, <2>3 DEF SoundFor
<1> QED
  BY <1>1, SeqMonotonic, Zenon

\* The frame at the front is sound, and so is the rest.
LEMMA SoundTail ==
    ASSUME KeepInv, NEW e \in End, net[e] # <<>>
    PROVE  Head(net[e]) \in SoundFor(e) /\ Tail(net[e]) \in Seq(SoundFor(e))
  BY HeadTailProperties, Zenon DEF KeepInv

\* A step that writes a sound frame keeps the connection sound.
LEMMA SoundPut ==
    ASSUME KeepInv, NEW e \in End, NEW f \in SoundFor(Peer(e)), Put(e, f), ack' = ack, NEW x \in End
    PROVE  net'[x] \in Seq(SoundFor(x))
<1>1. CASE x = Peer(e)
  <2>1. net'[x] = Append(net[x], f)
    BY <1>1, Zenon DEF Put, KeepInv, TypeOK
  <2> QED
    BY <1>1, <2>1, AppendProperties DEF KeepInv
<1>2. CASE x # Peer(e)
  <2>1. net'[x] = net[x]
    BY <1>2, Zenon DEF Put, KeepInv, TypeOK
  <2> QED
    BY <2>1, Zenon DEF KeepInv
<1> QED
  BY <1>1, <1>2, Zenon

\* So does a step that takes a frame out.
LEMMA SoundTake ==
    ASSUME KeepInv, NEW e \in End, net[e] # <<>>, net' = [net EXCEPT ![e] = Tail(net[e])],
           NEW x \in End
    PROVE  net'[x] \in Seq(SoundFor(x))
<1>1. CASE x = e
  <2>1. net'[x] = Tail(net[x])
    BY <1>1, Zenon DEF KeepInv, TypeOK
  <2> QED
    BY <1>1, <2>1, SoundTail, Zenon
<1>2. CASE x # e
  <2>1. net'[x] = net[x]
    BY <1>2, Zenon DEF KeepInv, TypeOK
  <2> QED
    BY <2>1, Zenon DEF KeepInv
<1> QED
  BY <1>1, <1>2, Zenon

\* And one after which e, holding the lock, has a sound frame or none to write.
LEMMA SoundHold ==
    ASSUME KeepInv, NEW e \in End, NEW h \in Seq(SoundFor(Peer(e))),
           held' = [held EXCEPT ![e] = h], NEW x \in End
    PROVE  held'[Peer(x)] \in Seq(SoundFor(x))
<1>1. CASE Peer(x) = e
  <2>1. x = Peer(e) /\ held'[Peer(x)] = h
    BY <1>1, PeerFacts, Zenon DEF KeepInv, TypeOK
  <2> QED
    BY <2>1, Zenon
<1>2. CASE Peer(x) # e
  <2>1. held'[Peer(x)] = held[Peer(x)]
    BY <1>2, PeerFacts, Zenon DEF KeepInv, TypeOK
  <2> QED
    BY <2>1, Zenon DEF KeepInv
<1> QED
  BY <1>1, <1>2, Zenon

\* What a step with the same acknowledged numbers has to show.
LEMMA KeepSame ==
    ASSUME KeepInv, TypeOK', ack' = ack, UndeliveredKept',
           \A x \in End : net'[x] \in Seq(SoundFor(x)),
           \A x \in End : held'[Peer(x)] \in Seq(SoundFor(x))
    PROVE  KeepInv'
<1>1. \A x \in End : SoundFor(x)' = SoundFor(x)
  BY Zenon DEF SoundFor
<1> QED
  BY <1>1, Zenon DEF KeepInv

LEMMA KeptSame ==
    ASSUME KeepInv, UNCHANGED <<seq, sent, ack>>
    PROVE  UndeliveredKept'
  BY Zenon DEF KeepInv, UndeliveredKept

LEMMA HeldSame ==
    ASSUME KeepInv, held' = held, NEW x \in End
    PROVE  held'[Peer(x)] \in Seq(SoundFor(x))
  BY Zenon DEF KeepInv

LEMMA NetSame ==
    ASSUME KeepInv, net' = net, NEW x \in End
    PROVE  net'[x] \in Seq(SoundFor(x))
  BY Zenon DEF KeepInv

LEMMA KeepFlush == ASSUME KeepInv, TypeOK', NEW e \in End, Flush(e) PROVE KeepInv'
<1>1. UNCHANGED <<seq, sent, ack>>
  BY Zenon DEF Flush, sending, receiving
<1>2. held[e] \in Seq(SoundFor(Peer(e))) /\ held[e] # <<>>
  BY PeerFacts, Zenon DEF KeepInv, Flush, Unlocked
<1>3. Head(held[e]) \in SoundFor(Peer(e))
  BY <1>2, HeadTailProperties, Zenon
<1>4. \A x \in End : net'[x] \in Seq(SoundFor(x))
  BY <1>1, <1>3, SoundPut, Zenon DEF Flush
<1>5. \A x \in End : held'[Peer(x)] \in Seq(SoundFor(x))
  <2>1. <<>> \in Seq(SoundFor(Peer(e)))
    OBVIOUS
  <2> QED
    BY <2>1, SoundHold, Zenon DEF Flush
<1> QED
  BY <1>1, <1>4, <1>5, KeptSame, KeepSame, Zenon

LEMMA KeepWrite == ASSUME KeepInv, TypeOK', NEW e \in End, Write(e) PROVE KeepInv'
<1>1. ack' = ack /\ net' = net
  BY Zenon DEF Write, receiving
<1>2. UndeliveredKept'
  <2> SUFFICES ASSUME NEW x \in End, NEW s \in 1..(seq'[x]), s > ack[Peer(x)]
               PROVE  s \in sent'[x]
    BY <1>1, Zenon DEF UndeliveredKept
  <2>1. CASE x = e
    <3>1. seq'[e] = seq[e] + 1 /\ sent'[e] = sent[e] \cup {seq[e] + 1} /\ seq[e] \in Nat
      BY EndNumbers, Numbers DEF KeepInv, TypeOK, Write
    <3>2. CASE s = seq[e] + 1
      BY <2>1, <3>1, <3>2, Zenon
    <3>3. CASE s # seq[e] + 1
      <4>1. s \in 1..seq[e]
        BY <2>1, <3>1, <3>3
      <4>2. s \in sent[e]
        BY <2>1, <4>1, Zenon DEF KeepInv, UndeliveredKept
      <4> QED
        BY <2>1, <3>1, <4>2, Zenon
    <3> QED
      BY <3>2, <3>3, Zenon
  <2>2. CASE x # e
    <3>1. seq'[x] = seq[x] /\ sent'[x] = sent[x]
      BY <2>2, Zenon DEF KeepInv, TypeOK, Write
    <3> QED
      BY <3>1, Zenon DEF KeepInv, UndeliveredKept
  <2> QED
    BY <2>1, <2>2, Zenon
<1>3. Frame("data", seq[e] + 1) \in SoundFor(Peer(e))
  <2>1. seq[e] + 1 \in 1..MaxSeq
    BY EndNumbers, Numbers DEF KeepInv, Write
  <2> QED
    BY <2>1, Zenon DEF SoundFor, Frame, Frames
<1>4. <<Frame("data", seq[e] + 1)>> \in Seq(SoundFor(Peer(e)))
  BY <1>3
<1>5. \A x \in End : held'[Peer(x)] \in Seq(SoundFor(x))
  BY <1>4, SoundHold, Zenon DEF Write
<1> QED
  BY <1>1, <1>2, <1>5, NetSame, KeepSame, Zenon

LEMMA KeepDataSeen == ASSUME KeepInv, TypeOK', NEW e \in End, DataSeen(e) PROVE KeepInv'
<1> DEFINE p == Head(net[e]).num
<1>1. UNCHANGED <<seq, sent, ack>>
  BY Zenon DEF DataSeen, sending, receiving
<1>2. p \in Nat /\ p <= ack[e] /\ Peer(Peer(e)) = e
  BY HeadType, PeerFacts, Zenon DEF KeepInv, DataSeen, Arrives
<1>3. Frame("ack", p) \in SoundFor(Peer(e))
  BY <1>2, Zenon DEF SoundFor, Frame, Frames
<1>4. <<Frame("ack", p)>> \in Seq(SoundFor(Peer(e)))
  BY <1>3
<1>5. \A x \in End : held'[Peer(x)] \in Seq(SoundFor(x))
  BY <1>4, SoundHold, Zenon DEF DataSeen
<1>6. \A x \in End : net'[x] \in Seq(SoundFor(x))
  BY SoundTake, Zenon DEF DataSeen, Arrives
<1> QED
  BY <1>1, <1>5, <1>6, KeptSame, KeepSame, Zenon

LEMMA KeepDataGap == ASSUME KeepInv, TypeOK', NEW e \in End, DataGap(e) PROVE KeepInv'
<1>1. UNCHANGED <<seq, sent, ack>>
  BY Zenon DEF DataGap, sending
<1>2. ack[e] + 1 \in Nat
  BY EndNumbers, Numbers DEF KeepInv
<1>3. Frame("nack", ack[e] + 1) \in SoundFor(Peer(e))
  BY <1>2, Zenon DEF SoundFor, Frame, Frames
<1>4. <<Frame("nack", ack[e] + 1)>> \in Seq(SoundFor(Peer(e)))
  BY <1>3
<1>5. \A x \in End : held'[Peer(x)] \in Seq(SoundFor(x))
  BY <1>4, SoundHold, Zenon DEF DataGap
<1>6. \A x \in End : net'[x] \in Seq(SoundFor(x))
  BY SoundTake, Zenon DEF DataGap, Arrives
<1> QED
  BY <1>1, <1>5, <1>6, KeptSame, KeepSame, Zenon

LEMMA KeepDataNext ==
    ASSUME KeepInv, TypeOK', NEW e \in End, NEW last \in 1..MaxSeq, DataNext(e, last)
    PROVE  KeepInv'
<1>1. /\ last \in Nat /\ last > ack[e] /\ ack' = [ack EXCEPT ![e] = last]
      /\ UNCHANGED <<seq, sent>>
  <2>1. ack[e] \in 0..MaxSeq
    BY EndNumbers, Zenon DEF KeepInv
  <2> QED
    BY <2>1, Numbers DEF DataNext
<1>2. \A x \in End : ack[x] \in Nat /\ ack'[x] \in Nat /\ ack[x] <= ack'[x]
  <2>1. ack \in [End -> 0..MaxSeq] /\ ack' \in [End -> 0..MaxSeq]
    BY Zenon DEF KeepInv, TypeOK
  <2>2. \A x \in End : ack'[x] = ack[x] \/ (x = e /\ ack'[x] = last)
    BY <1>1, <2>1, Zenon
  <2> QED
    BY <1>1, <2>1, <2>2, Numbers
<1>3. UndeliveredKept'
  <2> SUFFICES ASSUME NEW x \in End, NEW s \in 1..seq[x], s > ack'[Peer(x)]
               PROVE  s \in sent[x]
    BY <1>1, Zenon DEF UndeliveredKept
  <2>1. seq[x] \in Nat /\ s > ack[Peer(x)]
    BY <1>2, PeerFacts, EndNumbers, Numbers DEF KeepInv
  <2> QED
    BY <2>1, Zenon DEF KeepInv, UndeliveredKept
<1>4. \A x \in End : net'[x] \in Seq(SoundFor(x)')
  <2>1. \A x \in End : net'[x] \in Seq(SoundFor(x))
    BY SoundTake, Zenon DEF DataNext, Arrives
  <2> QED
    BY <1>2, <2>1, SoundGrows, Zenon
<1>5. ASSUME NEW x \in End PROVE held'[Peer(x)] \in Seq(SoundFor(x)')
  <2>1. CASE Peer(x) = e
    <3>1. ack'[Peer(x)] = last
      BY <1>1, <2>1, Zenon DEF KeepInv, TypeOK
    <3>2. Frame("ack", last) \in SoundFor(x)'
      BY <1>1, <3>1 DEF SoundFor, Frame, Frames
    <3>3. held'[Peer(x)] = <<Frame("ack", last)>>
      BY <2>1, Zenon DEF KeepInv, TypeOK, DataNext
    <3> QED
      BY <3>2, <3>3
  <2>2. CASE Peer(x) # e
    <3>1. held'[Peer(x)] = held[Peer(x)]
      BY <2>2, PeerFacts, Zenon DEF KeepInv, TypeOK, DataNext
    <3>2. held[Peer(x)] \in Seq(SoundFor(x))
      BY Zenon DEF KeepInv
    <3> QED
      BY <1>2, <3>1, <3>2, SoundGrows, Zenon
  <2> QED
    BY <2>1, <2>2, Zenon
<1> QED
  BY <1>3, <1>4, <1>5, Zenon DEF KeepInv

LEMMA KeepAckFrame == ASSUME KeepInv, TypeOK', NEW e \in End, AckFrame(e) PROVE KeepInv'
<1> DEFINE n == Head(net[e]).num
<1>1. ack' = ack /\ seq' = seq /\ held' = held
  BY Zenon DEF AckFrame, receiving
<1>2. n \in Nat /\ n <= ack[Peer(e)] /\ ack[Peer(e)] \in Nat
  <2>1. Head(net[e]) \in SoundFor(e) /\ Head(net[e]).type = "ack"
    BY SoundTail, Zenon DEF AckFrame, Arrives
  <2> QED
    BY <2>1, HeadType, PeerFacts, EndNumbers, Numbers DEF KeepInv, AckFrame, Arrives, SoundFor
<1>3. UndeliveredKept'
  <2> SUFFICES ASSUME NEW x \in End, NEW s \in 1..seq[x], s > ack[Peer(x)]
               PROVE  s \in sent'[x]
    BY <1>1, Zenon DEF UndeliveredKept
  <2>1. s \in sent[x] /\ s \in Nat
    BY EndNumbers, Numbers DEF KeepInv, UndeliveredKept
  <2>2. CASE x = e
    <3>1. sent'[e] = {t \in sent[e] : t > n}
      BY Zenon DEF KeepInv, TypeOK, AckFrame
    <3>2. s > n
      BY <1>2, <2>1, <2>2
    <3> QED
      BY <2>1, <2>2, <3>1, <3>2, Zenon
  <2>3. CASE x # e
    BY <2>1, <2>3, Zenon DEF KeepInv, TypeOK, AckFrame
  <2> QED
    BY <2>2, <2>3, Zenon
<1>4. \A x \in End : net'[x] \in Seq(SoundFor(x))
  BY SoundTake, Zenon DEF AckFrame, Arrives
<1> QED
  BY <1>1, <1>3, <1>4, HeldSame, KeepSame, Zenon

LEMMA KeepNackFrame == ASSUME KeepInv, TypeOK', NEW e \in End, NackFrame(e) PROVE KeepInv'
<1>1. UNCHANGED <<seq, sent, ack>> /\ held' = held
  BY Zenon DEF NackFrame, sending, receiving
<1>2. \A x \in End : net'[x] \in Seq(SoundFor(x))
  BY SoundTake, Zenon DEF NackFrame, Arrives
<1> QED
  BY <1>1, <1>2, KeptSame, HeldSame, KeepSame, Zenon

LEMMA KeepWindowFrame == ASSUME KeepInv, TypeOK', NEW e \in End, WindowFrame(e) PROVE KeepInv'
<1>1. UNCHANGED <<seq, sent, ack>> /\ held' = held
  BY Zenon DEF WindowFrame, receiving
<1>2. \A x \in End : net'[x] \in Seq(SoundFor(x))
  BY SoundTake, Zenon DEF WindowFrame, Arrives
<1> QED
  BY <1>1, <1>2, KeptSame, HeldSame, KeepSame, Zenon

LEMMA KeepResend == ASSUME KeepInv, TypeOK', NEW e \in End, Resend(e) PROVE KeepInv'
<1>1. PICK s \in resend[e] : Put(e, Frame("data", s))
  BY Zenon DEF Resend
<1>2. UNCHANGED <<seq, sent, ack>> /\ held' = held
  BY Zenon DEF Resend, sending, receiving
<1>3. Frame("data", s) \in SoundFor(Peer(e))
  <2>1. s \in 1..MaxSeq
    BY Zenon DEF KeepInv, TypeOK
  <2> QED
    BY <2>1, Zenon DEF SoundFor, Frame, Frames
<1>4. \A x \in End : net'[x] \in Seq(SoundFor(x))
  BY <1>1, <1>2, <1>3, SoundPut, Zenon
<1> QED
  BY <1>2, <1>4, KeptSame, HeldSame, KeepSame, Zenon

LEMMA KeepTickSend == ASSUME KeepInv, TypeOK', NEW e \in End, TickSend(e) PROVE KeepInv'
<1>1. UNCHANGED <<seq, sent, ack>> /\ held' = held
  BY Zenon DEF TickSend, sending, receiving
<1>2. \A x \in End : net'[x] \in Seq(SoundFor(x))
  <2>1. CASE UNCHANGED net
    BY <2>1, NetSame, Zenon
  <2>2. CASE Put(e, Frame("window", (win[e] - tick[e]) % Modulus))
    <3>1. win[e] - tick[e] \in Int
      BY EndNumbers, Numbers DEF KeepInv, TickSend
    <3>2. (win[e] - tick[e]) % Modulus \in Nat
      BY <3>1, UintRange, Numbers
    <3>3. Frame("window", (win[e] - tick[e]) % Modulus) \in SoundFor(Peer(e))
      BY <3>2, Zenon DEF SoundFor, Frame, Frames
    <3> QED
      BY <1>1, <2>2, <3>3, SoundPut, Zenon
  <2> QED
    BY <2>1, <2>2, Zenon DEF TickSend
<1> QED
  BY <1>1, <1>2, KeptSame, HeldSame, KeepSame, Zenon

LEMMA KeepLose == ASSUME KeepInv, TypeOK', NEW e \in End, Lose(e) PROVE KeepInv'
<1>1. UNCHANGED <<seq, sent, ack>> /\ held' = held
  BY Zenon DEF Lose, sending, receiving
<1>2. \A x \in End : net'[x] \in Seq(SoundFor(x))
  BY SoundTake, Zenon DEF Lose
<1> QED
  BY <1>1, <1>2, KeptSame, HeldSame, KeepSame, Zenon

LEMMA KeepStep ==
    ASSUME Mode = "exactly_once", KeepInv, [Next]_vars
    PROVE  KeepInv'
<1>1. TypeOK'
  BY TypeStep, Zenon DEF KeepInv
<1>2. CASE UNCHANGED <<net, seq, sent, ack, held>>
  BY <1>1, <1>2, KeptSame, HeldSame, NetSame, KeepSame, Zenon
<1>3. ASSUME NEW e \in End, ReadLoop(e) PROVE KeepInv'
  <2>1. ~DataUnordered(e)
    BY Zenon DEF DataUnordered
  <2> QED
    BY <1>1, <1>3, <2>1, KeepDataSeen, KeepDataGap, KeepDataNext, KeepAckFrame,
       KeepNackFrame, KeepResend, KeepWindowFrame, Zenon DEF ReadLoop
<1>4. ASSUME NEW e \in End, Read(e) \/ TickRead(e) PROVE KeepInv'
  <2>1. UNCHANGED <<net, seq, sent, ack, held>>
    <3>1. CASE Read(e)
      BY <3>1, Zenon DEF Read, sending
    <3>2. CASE TickRead(e)
      BY <3>2, Zenon DEF TickRead, sending, receiving
    <3> QED
      BY <1>4, <3>1, <3>2, Zenon
  <2> QED
    BY <1>2, <2>1, Zenon
<1>5. CASE UNCHANGED vars
  <2>1. UNCHANGED <<net, seq, sent, ack, held>>
    BY <1>5, Zenon DEF vars
  <2> QED
    BY <1>2, <2>1, Zenon
<1> QED
  BY <1>1, <1>3, <1>4, <1>5, KeepWrite, KeepFlush, KeepTickSend, KeepLose, Zenon DEF Next, WriteLoop

\* With sequencing, a payload that the peer has not delivered is in SentFrames, so
\* that a NACK can bring it back (handleAckFrame, handleDataFrame).  It rests on
\* the soundness of every acknowledgement under way.
THEOREM KeepsUndelivered ==
    ASSUME Mode = "exactly_once"
    PROVE  Spec => []UndeliveredKept
<1>1. KeepInv => UndeliveredKept
  BY Zenon DEF KeepInv
<1>2. KeepInv /\ [Next]_vars => KeepInv'
  BY KeepStep, Zenon
<1> QED
  BY <1>1, <1>2, KeepInit, PTL DEF Spec


-----------------------------------------------------------------------------
(***************************************************************************)
(* Without sequencing a payload is on its way until the peer has it.       *)
(***************************************************************************)
\* The peer of e got the payload s.
HandedOver(e, s) == \E i \in DOMAIN called[Peer(e)] : called[Peer(e)][i] = s

\* Whatever SentFrames holds: the frame is under way or was handed over.
HandInv == TypeOK /\ \A e \in End : \A s \in 1..seq[e] : InFlight(e, s) \/ HandedOver(e, s)

\* What holds of a sequence after its front is taken or a value is added.
LEMMA OccursTail ==
    ASSUME NEW S, NEW q \in Seq(S), q # <<>>, NEW v, NEW i \in DOMAIN q, q[i] = v
    PROVE  v = Head(q) \/ \E j \in DOMAIN Tail(q) : Tail(q)[j] = v
<1>1. /\ Len(q) \in Nat /\ DOMAIN q = 1..Len(q)
      /\ Tail(q) \in Seq(S) /\ Len(Tail(q)) = Len(q) - 1 /\ Head(q) = q[1]
      /\ \A j \in 1..(Len(q) - 1) : Tail(q)[j] = q[j + 1]
  BY HeadTailProperties, LenProperties
<1>2. CASE i = 1
  BY <1>1, <1>2, Zenon
<1>3. CASE i # 1
  <2>1. i - 1 \in 1..(Len(q) - 1) /\ Tail(q)[i - 1] = v
    BY <1>1, <1>3
  <2>2. DOMAIN Tail(q) = 1..(Len(q) - 1)
    BY <1>1, LenProperties, Zenon
  <2> QED
    BY <2>1, <2>2, Zenon
<1> QED
  BY <1>2, <1>3, Zenon

LEMMA OccursAppend ==
    ASSUME NEW S, NEW q \in Seq(S), NEW x \in S
    PROVE  /\ \E i \in DOMAIN Append(q, x) : Append(q, x)[i] = x
           /\ \A i \in DOMAIN q : i \in DOMAIN Append(q, x) /\ Append(q, x)[i] = q[i]
<1>1. /\ Append(q, x) \in Seq(S) /\ Len(Append(q, x)) = Len(q) + 1
      /\ \A i \in 1..Len(q) : Append(q, x)[i] = q[i]
      /\ Append(q, x)[Len(q) + 1] = x
  BY AppendProperties
<1>2. Len(q) \in Nat /\ DOMAIN q = 1..Len(q) /\ DOMAIN Append(q, x) = 1..(Len(q) + 1)
  BY <1>1, LenProperties, Zenon
<1> QED
  BY <1>1, <1>2

\* A frame that is written to the connection is added to what is on its way.
LEMMA HandPut ==
    ASSUME TypeOK, NEW e \in End, NEW f \in Frames, Put(e, f)
    PROVE  /\ \E i \in DOMAIN net'[Peer(e)] : net'[Peer(e)][i] = f
           /\ \A x \in End : \A i \in DOMAIN net[x] : i \in DOMAIN net'[x] /\ net'[x][i] = net[x][i]
<1>1. Peer(e) \in End /\ net[Peer(e)] \in Seq(Frames)
  BY PeerFacts, Zenon DEF TypeOK
<1>2. net'[Peer(e)] = Append(net[Peer(e)], f) /\ \A x \in End : x # Peer(e) => net'[x] = net[x]
  BY <1>1, Zenon DEF Put, TypeOK
<1> QED
  BY <1>1, <1>2, OccursAppend

\* A frame that is taken is the only one that leaves.
LEMMA HandTake ==
    ASSUME TypeOK, NEW x \in End, net[x] # <<>>, net' = [net EXCEPT ![x] = Tail(net[x])]
    PROVE  \A y \in End : \A i \in DOMAIN net[y] :
              \/ y = x /\ net[y][i] = Head(net[x])
              \/ \E j \in DOMAIN net'[y] : net'[y][j] = net[y][i]
<1> SUFFICES ASSUME NEW y \in End, NEW i \in DOMAIN net[y]
             PROVE  \/ y = x /\ net[y][i] = Head(net[x])
                    \/ \E j \in DOMAIN net'[y] : net'[y][j] = net[y][i]
  BY Zenon
<1>1. net[x] \in Seq(Frames) /\ net'[x] = Tail(net[x]) /\ (y # x => net'[y] = net[y])
  BY Zenon DEF TypeOK
<1>2. CASE y = x
  BY <1>1, <1>2, OccursTail
<1>3. CASE y # x
  BY <1>1, <1>3, Zenon
<1> QED
  BY <1>2, <1>3, Zenon

\* What a step that numbers no new payload has to show.
LEMMA HandSame ==
    ASSUME HandInv, TypeOK', seq' = seq,
           \A e \in End : \A s \in 1..seq[e] :
               /\ InFlight(e, s) => InFlight(e, s)' \/ HandedOver(e, s)'
               /\ HandedOver(e, s) => HandedOver(e, s)'
    PROVE  HandInv'
  BY Zenon DEF HandInv

\* A frame other than data leaves the connection, by its handler or by a loss.
LEMMA HandOther ==
    ASSUME HandInv, TypeOK', UNCHANGED <<seq, held, called>>, NEW x \in End, net[x] # <<>>,
           net' = [net EXCEPT ![x] = Tail(net[x])], Head(net[x]).type # "data"
    PROVE  HandInv'
<1>1. ASSUME NEW e \in End, NEW s \in 1..seq[e], InFlight(e, s) PROVE InFlight(e, s)'
  <2>1. CASE held[e] = <<Frame("data", s)>>
    BY <2>1, Zenon DEF InFlight
  <2>2. ASSUME \E i \in DOMAIN net[Peer(e)] : net[Peer(e)][i] = Frame("data", s)
        PROVE  InFlight(e, s)'
    <3>1. Frame("data", s) # Head(net[x])
      BY DEF Frame
    <3>2. TypeOK /\ Peer(e) \in End
      BY PeerFacts, Zenon DEF HandInv
    <3>3. \A y \in End : \A i \in DOMAIN net[y] :
            \/ y = x /\ net[y][i] = Head(net[x])
            \/ \E j \in DOMAIN net'[y] : net'[y][j] = net[y][i]
      BY <3>2, HandTake, Zenon
    <3>4. \E j \in DOMAIN net'[Peer(e)] : net'[Peer(e)][j] = Frame("data", s)
      BY <2>2, <3>1, <3>2, <3>3
    <3> QED
      BY <3>4, Zenon DEF InFlight
  <2> QED
    BY <1>1, <2>1, <2>2, Zenon DEF InFlight
<1>2. \A e \in End : \A s \in 1..seq[e] : HandedOver(e, s) => HandedOver(e, s)'
  BY Zenon DEF HandedOver
<1> QED
  BY <1>1, <1>2, HandSame, Zenon

\* A step that only adds to the connection.
LEMMA HandMore ==
    ASSUME HandInv, TypeOK', UNCHANGED <<seq, held, called>>,
           \A x \in End : \A i \in DOMAIN net[x] : i \in DOMAIN net'[x] /\ net'[x][i] = net[x][i]
    PROVE  HandInv'
<1>1. ASSUME NEW e \in End, NEW s \in 1..seq[e], InFlight(e, s) PROVE InFlight(e, s)'
  BY <1>1, PeerFacts, Zenon DEF InFlight
<1>2. \A e \in End : \A s \in 1..seq[e] : HandedOver(e, s) => HandedOver(e, s)'
  BY Zenon DEF HandedOver
<1> QED
  BY <1>1, <1>2, HandSame, Zenon

LEMMA HandWrite == ASSUME HandInv, TypeOK', NEW w \in End, Write(w) PROVE HandInv'
<1>1. /\ UNCHANGED <<net, called>> /\ held[w] = <<>>
      /\ seq'[w] = seq[w] + 1 /\ held'[w] = <<Frame("data", seq[w] + 1)>>
      /\ \A e \in End : e # w => seq'[e] = seq[e] /\ held'[e] = held[e]
  BY Zenon DEF HandInv, TypeOK, Write, receiving, Unlocked
<1>2. ASSUME NEW e \in End, NEW s \in 1..(seq'[e]) PROVE InFlight(e, s)' \/ HandedOver(e, s)'
  <2>1. CASE e = w /\ s = seq[w] + 1
    BY <1>1, <2>1, Zenon DEF InFlight
  <2>2. CASE ~(e = w /\ s = seq[w] + 1)
    <3>1. seq[e] \in Nat /\ s \in 1..seq[e]
      BY <1>1, <2>2, EndNumbers, Numbers DEF HandInv
    <3>2. InFlight(e, s) \/ HandedOver(e, s)
      BY <3>1, Zenon DEF HandInv
    <3>3. held[e] = <<Frame("data", s)>> => e # w
      BY <1>1
    <3>4. held[e] = <<Frame("data", s)>> => held'[e] = <<Frame("data", s)>>
      BY <1>1, <3>3, Zenon
    <3> QED
      BY <1>1, <3>2, <3>4, Zenon DEF InFlight, HandedOver
  <2> QED
    BY <2>1, <2>2, Zenon
<1> QED
  BY <1>2, Zenon DEF HandInv

LEMMA HandFlush == ASSUME HandInv, TypeOK', NEW w \in End, Flush(w) PROVE HandInv'
<1>1. /\ UNCHANGED <<seq, called>> /\ held[w] # <<>> /\ Put(w, Head(held[w]))
      /\ \A e \in End : e # w => held'[e] = held[e]
  BY Zenon DEF HandInv, TypeOK, Flush, sending, receiving, Unlocked
<1>2. TypeOK /\ Head(held[w]) \in Frames
  BY <1>1, HeadTailProperties, Zenon DEF HandInv, TypeOK
<1>3. /\ \E i \in DOMAIN net'[Peer(w)] : net'[Peer(w)][i] = Head(held[w])
      /\ \A x \in End : \A i \in DOMAIN net[x] : i \in DOMAIN net'[x] /\ net'[x][i] = net[x][i]
  BY <1>1, <1>2, HandPut, Zenon
<1>4. ASSUME NEW e \in End, NEW s \in 1..seq[e], InFlight(e, s) PROVE InFlight(e, s)'
  <2>1. CASE held[e] = <<Frame("data", s)>> /\ e = w
    <3>1. Head(held[w]) = Frame("data", s)
      BY <2>1
    <3> QED
      BY <1>3, <2>1, <3>1, Zenon DEF InFlight
  <2>2. CASE held[e] = <<Frame("data", s)>> /\ e # w
    BY <1>1, <2>2, Zenon DEF InFlight
  <2>3. CASE \E i \in DOMAIN net[Peer(e)] : net[Peer(e)][i] = Frame("data", s)
    BY <1>3, <2>3, PeerFacts, Zenon DEF InFlight
  <2> QED
    BY <1>4, <2>1, <2>2, <2>3, Zenon DEF InFlight
<1>5. \A e \in End : \A s \in 1..seq[e] : HandedOver(e, s) => HandedOver(e, s)'
  BY <1>1, Zenon DEF HandedOver
<1> QED
  BY <1>1, <1>4, <1>5, HandSame, Zenon

\* The reader r takes the frame of its peer and passes the payload to onData.
LEMMA HandData == ASSUME HandInv, TypeOK', NEW r \in End, DataUnordered(r) PROVE HandInv'
<1> DEFINE p == Head(net[r]).num
<1>1. /\ seq' = seq /\ held[r] = <<>> /\ net[r] # <<>> /\ Head(net[r]).type = "data"
      /\ net' = [net EXCEPT ![r] = Tail(net[r])]
      /\ called'[r] = Append(called[r], p)
      /\ \A e \in End : e # r => held'[e] = held[e] /\ called'[e] = called[e]
  BY Zenon DEF HandInv, TypeOK, DataUnordered, Arrives, Arrived, Unlocked
<1>2. TypeOK /\ p \in 1..MaxSeq /\ called[r] \in Seq(1..MaxSeq)
  BY <1>1, HeadType, Zenon DEF HandInv, TypeOK
<1> HIDE DEF p
<1>3. /\ \E i \in DOMAIN called'[r] : called'[r][i] = p
      /\ \A i \in DOMAIN called[r] : i \in DOMAIN called'[r] /\ called'[r][i] = called[r][i]
  <2>1. PICK q, S : q = called[r] /\ S = 1..MaxSeq /\ q \in Seq(S) /\ p \in S
    BY <1>2, Zenon
  <2>2. /\ \E i \in DOMAIN Append(q, p) : Append(q, p)[i] = p
        /\ \A i \in DOMAIN q : i \in DOMAIN Append(q, p) /\ Append(q, p)[i] = q[i]
    BY <2>1, OccursAppend
  <2> QED
    BY <1>1, <2>1, <2>2, Zenon
<1>4. ASSUME NEW e \in End, NEW s \in 1..seq[e], InFlight(e, s)
      PROVE  InFlight(e, s)' \/ HandedOver(e, s)'
  <2>1. CASE held[e] = <<Frame("data", s)>>
    <3>1. <<Frame("data", s)>> # <<>>
      BY Zenon
    <3> QED
      BY <1>1, <2>1, <3>1, Zenon DEF InFlight
  <2>2. ASSUME \E i \in DOMAIN net[Peer(e)] : net[Peer(e)][i] = Frame("data", s)
        PROVE  InFlight(e, s)' \/ HandedOver(e, s)'
    <3>1. \A y \in End : \A i \in DOMAIN net[y] :
            \/ y = r /\ net[y][i] = Head(net[r])
            \/ \E j \in DOMAIN net'[y] : net'[y][j] = net[y][i]
      BY <1>1, <1>2, HandTake, Zenon
    <3>2. \/ Peer(e) = r /\ Frame("data", s) = Head(net[r])
          \/ \E j \in DOMAIN net'[Peer(e)] : net'[Peer(e)][j] = Frame("data", s)
      BY <2>2, <3>1, PeerFacts
    <3>3. Frame("data", s) = Head(net[r]) => s = p
      BY DEF Frame, p
    <3> QED
      BY <1>3, <3>2, <3>3, Zenon DEF InFlight, HandedOver
  <2> QED
    BY <1>4, <2>1, <2>2, Zenon DEF InFlight
<1>5. \A e \in End : \A s \in 1..seq[e] : HandedOver(e, s) => HandedOver(e, s)'
  BY <1>1, <1>3, PeerFacts, Zenon DEF HandedOver
<1> QED
  BY <1>1, <1>4, <1>5, HandSame, Zenon

LEMMA HandReadLoop ==
    ASSUME Mode # "exactly_once", HandInv, TypeOK', NEW x \in End, ReadLoop(x)
    PROVE  HandInv'
<1>1. CASE AckFrame(x)
  BY <1>1, HandOther, Zenon DEF AckFrame, Arrives, receiving
<1>2. CASE NackFrame(x)
  BY <1>2, HandOther, Zenon DEF NackFrame, Arrives, sending, receiving
<1>3. CASE WindowFrame(x)
  BY <1>3, HandOther, Zenon DEF WindowFrame, Arrives, receiving
<1>4. CASE Resend(x)
  <2>1. PICK s \in resend[x] : Put(x, Frame("data", s))
    BY <1>4, Zenon DEF Resend
  <2>2. Frame("data", s) \in Frames /\ TypeOK
    BY Zenon DEF HandInv, TypeOK, Frame, Frames
  <2>3. UNCHANGED <<seq, held, called>>
    BY <1>4, Zenon DEF Resend, sending, receiving
  <2> QED
    BY <2>1, <2>2, <2>3, HandPut, HandMore, Zenon
<1> QED
  BY <1>1, <1>2, <1>3, <1>4, HandData, Zenon
  DEF ReadLoop, DataSeen, DataGap, DataNext

LEMMA HandTick == ASSUME HandInv, TypeOK', NEW x \in End, TickSend(x) PROVE HandInv'
<1>1. UNCHANGED <<seq, held, called>> /\ TypeOK
  BY Zenon DEF TickSend, sending, receiving, HandInv
<1>2. CASE net' = net
  BY <1>1, <1>2, HandMore, Zenon
<1>3. CASE Put(x, Frame("window", (win[x] - tick[x]) % Modulus)) /\ tick[x] # NoTick
  <2>1. win[x] \in Int /\ tick[x] \in Int
    BY <1>1, EndNumbers, Numbers DEF NoTick
  <2>2. (win[x] - tick[x]) % Modulus \in Nat
    BY <2>1, UintRange, Numbers
  <2>3. Frame("window", (win[x] - tick[x]) % Modulus) \in Frames
    BY <2>2, Zenon DEF Frame, Frames
  <2> QED
    BY <1>1, <1>3, <2>3, HandPut, HandMore, Zenon
<1> QED
  BY <1>2, <1>3, Zenon DEF TickSend

LEMMA HandStep ==
    ASSUME Mode # "exactly_once", "data" \notin Losable, HandInv, [Next]_vars
    PROVE  HandInv'
<1>1. TypeOK'
  BY TypeStep, Zenon DEF HandInv
<1>2. CASE UNCHANGED <<net, seq, held, called>>
  BY <1>1, <1>2, HandMore, Zenon
<1>3. ASSUME NEW x \in End, Read(x) \/ TickRead(x) PROVE HandInv'
  BY <1>2, <1>3, Zenon DEF Read, TickRead, sending, receiving
<1>4. ASSUME NEW x \in End, Lose(x) PROVE HandInv'
  BY <1>1, <1>4, HandOther, Zenon DEF Lose, sending, receiving
<1>5. CASE UNCHANGED vars
  BY <1>2, <1>5, Zenon DEF vars
<1> QED
  BY <1>1, <1>3, <1>4, <1>5, HandWrite, HandFlush, HandReadLoop, HandTick, Zenon DEF Next, WriteLoop

\* Without sequencing, over a connection that loses no data (it may lose the
\* other frames), a written payload can still reach the peer or has been handed
\* to its onData: handleDataFrame drops nothing, and what handleAckFrame forgets
\* has arrived.  With data lost it is false: an ACK covers every earlier number.
THEOREM KeepsUnhanded ==
    ASSUME Mode # "exactly_once", "data" \notin Losable
    PROVE  Spec => []UnhandedKept
<1>1. Init => HandInv
  <2>1. ASSUME Init, NEW e \in End PROVE 1..seq[e] = {}
    BY <2>1 DEF Init
  <2> QED
    BY <2>1, InitType, Zenon DEF HandInv
<1>2. HandInv => UnhandedKept
  BY Zenon DEF HandInv, HandedOver, UnhandedKept
<1>3. HandInv /\ [Next]_vars => HandInv'
  BY HandStep, Zenon
<1> QED
  BY <1>1, <1>2, <1>3, PTL DEF Spec


(***************************************************************************)
(* The table of streams.                                                   *)
(***************************************************************************)
\* Given[e] are the identifiers e gave out, which are odd and ascend; Wired[e]
\* are the frames on the way to e.
Given == [e \in Side |-> {i \in StreamId : i < 2 * cnOpened[e]}]
CnHeader(i) == [type |-> "header", id |-> i]
CnReset(i) == [type |-> "reset", id |-> i]
Wired == [e \in Side |-> {cnWire[e][k] : k \in DOMAIN cnWire[e]}]

CnShape ==
    /\ cnTab \in [Side -> [StreamId -> {"absent", "open", "closed"}]]
    /\ cnOpened \in [Side -> Nat]
    /\ cnWire \in [Side -> Seq(CnFrame)]
    /\ cnClosing \in [Side -> SUBSET StreamId]
    /\ cnRun \in [Side -> {"up", "stopping", "closed"}]
    /\ cnDone \in [Side -> SUBSET StreamId]

\* What holds of an end e and the other end o.  An identifier both gave out is
\* known to be one.
TwiceKnown(e, o) == \A i \in StreamId : i \in Given[e] /\ i \in Given[o] => i \in cnTwice

\* The header frame of a stream is written by the end that opens it, once.
HeaderByOpener(e, o) == \A i \in StreamId : CnHeader(i) \in Wired[e] => i \in Given[o]
HeaderOnce(e) ==
    \A i \in StreamId : \A j, k \in DOMAIN cnWire[e] :
        cnWire[e][j] = CnHeader(i) /\ cnWire[e][k] = CnHeader(i) => j = k

\* An end has, or had, a stream only if it opened it or read its header.
KnownFrom(e, o) ==
    \A i \in StreamId : cnTab[e][i] # "absent" \/ i \in cnDone[e] =>
                           i \in Given[e] \/ (i \in Given[o] /\ CnHeader(i) \notin Wired[e])

\* A reset frame comes from an end that closed the stream, ...
ResetByDone(e, o) ==
    \A i \in StreamId : i \in cnClosing[o] \/ CnReset(i) \in Wired[e] => i \in cnDone[o]

\* ... after the header, if the stream was opened at that end.
HeaderFirst(e) ==
    \A i \in StreamId \ cnTwice : \A j, k \in DOMAIN cnWire[e] :
        cnWire[e][j] = CnHeader(i) /\ cnWire[e][k] = CnReset(i) => j < k

\* What an end has open, or is about to learn of, the other end has open too,
\* or is about to learn of, or has closed with the reset still to arrive.
OpenAtBoth(e, o) ==
    cnRun[e] = "up" /\ cnRun[o] = "up" =>
        \A i \in StreamId \ cnTwice :
            cnTab[e][i] = "open" \/ CnHeader(i) \in Wired[e] =>
                \/ cnTab[o][i] = "open" \/ CnHeader(i) \in Wired[o]
                \/ CnReset(i) \in Wired[e] \/ i \in cnClosing[o]

\* What is closed is not open again.
ClosedStays(e) == \A i \in StreamId \ cnTwice : i \in cnDone[e] => cnTab[e][i] # "open"

CnPair(e, o) ==
    /\ TwiceKnown(e, o) /\ HeaderByOpener(e, o) /\ HeaderOnce(e) /\ KnownFrom(e, o)
    /\ ResetByDone(e, o) /\ HeaderFirst(e) /\ OpenAtBoth(e, o) /\ ClosedStays(e)

CnInv == CnShape /\ \A e \in Side : CnPair(e, OtherSide(e))

LEMMA TwoSides ==
    ASSUME NEW e \in Side
    PROVE  /\ OtherSide(e) \in Side /\ OtherSide(e) # e /\ OtherSide(OtherSide(e)) = e
           /\ \A x \in Side : x = e \/ x = OtherSide(e)
  BY CnAssumption DEF OtherSide

LEMMA FramesDiffer ==
    \A i, j \in StreamId : /\ CnHeader(i) \in CnFrame /\ CnReset(i) \in CnFrame
                           /\ CnHeader(i) # CnReset(j)
                           /\ CnHeader(i) = CnHeader(j) => i = j
                           /\ CnReset(i) = CnReset(j) => i = j
  BY Zenon DEF CnHeader, CnReset, CnFrame

LEMMA StreamIdOdd ==
    /\ \A i \in StreamId : i \in Nat /\ \E k \in Nat : i = 2 * k + 1
    /\ \A e \in Side, k \in Nat : k < MaxOpen[e] => 2 * k + 1 \in StreamId
<1>1. ASSUME NEW i \in StreamId PROVE i \in Nat /\ \E k \in Nat : i = 2 * k + 1
  <2>1. PICK e \in Side : i \in {2 * k - 1 : k \in 1..MaxOpen[e]}
    BY Zenon DEF StreamId
  <2>2. PICK k \in 1..MaxOpen[e] : i = 2 * k - 1
    BY <2>1, Zenon
  <2>3. MaxOpen[e] \in Nat
    BY CnAssumption, Zenon
  <2>4. k - 1 \in Nat /\ i = 2 * (k - 1) + 1
    BY <2>2, <2>3
  <2> QED
    BY <2>4
<1>2. ASSUME NEW e \in Side, NEW k \in Nat, k < MaxOpen[e] PROVE 2 * k + 1 \in StreamId
  <2>1. MaxOpen[e] \in Nat
    BY CnAssumption, Zenon
  <2>2. k + 1 \in 1..MaxOpen[e] /\ 2 * k + 1 = 2 * (k + 1) - 1
    BY <1>2, <2>1
  <2>3. 2 * k + 1 \in {2 * m - 1 : m \in 1..MaxOpen[e]}
    BY <2>2, Zenon
  <2> QED
    BY <2>3, Zenon DEF StreamId
<1> QED
  BY <1>1, <1>2, Zenon

\* WriteFrame puts the frame at the end of what is on the way, or drops it when
\* an end is closed.
LEMMA WriteEffect ==
    ASSUME CnShape, NEW e \in Side, NEW type \in {"header", "reset"}, NEW i \in StreamId,
           NEW o, o = OtherSide(e), NEW f, f = [type |-> type, id |-> i], WriteFrame(e, type, i)
    PROVE  /\ cnWire' \in [Side -> Seq(CnFrame)]
           /\ \A x \in Side : Wired[x] \subseteq Wired'[x]
           /\ Wired'[e] = Wired[e]
           /\ Wired'[o] \subseteq Wired[o] \cup {f}
           /\ (\A x \in Side : cnRun[x] = "up") => f \in Wired'[o]
           /\ cnWire'[e] = cnWire[e]
           /\ \A j \in DOMAIN cnWire'[o] :
                  \/ j \in DOMAIN cnWire[o] /\ cnWire'[o][j] = cnWire[o][j]
                  \/ /\ cnWire'[o][j] = f
                     /\ j = Len(cnWire[o]) + 1
<1>1. f \in CnFrame /\ e # o /\ o \in Side /\ \A x \in Side : x = e \/ x = o
  BY TwoSides, Zenon DEF CnFrame
<1>2. cnWire \in [Side -> Seq(CnFrame)] /\ cnRun \in [Side -> {"up", "stopping", "closed"}]
  BY Zenon DEF CnShape
<1>w. Wired = [x \in Side |-> {cnWire[x][k] : k \in DOMAIN cnWire[x]}]
      /\ Wired' = [x \in Side |-> {cnWire'[x][k] : k \in DOMAIN cnWire'[x]}]
  BY Zenon DEF Wired
<1>3. CASE cnWire' = cnWire /\ ~(\A x \in Side : cnRun[x] = "up")
  <2>1. Wired' = Wired
    BY <1>3, <1>w, Zenon
  <2> QED
    BY <1>1, <1>2, <1>3, <2>1, Zenon
<1>4. CASE cnWire' = [cnWire EXCEPT ![o] = Append(@, f)]
  <2>1. cnWire[o] \in Seq(CnFrame) /\ Append(cnWire[o], f) \in Seq(CnFrame)
    BY <1>1, <1>2
  <2>2. cnWire' \in [Side -> Seq(CnFrame)] /\ cnWire'[e] = cnWire[e] /\ cnWire'[o] = Append(cnWire[o], f)
    BY <1>1, <1>2, <1>4, <2>1, Zenon
  <2>3. /\ DOMAIN cnWire[o] = 1..Len(cnWire[o]) /\ DOMAIN cnWire'[o] = 1..(Len(cnWire[o]) + 1)
        /\ Len(cnWire[o]) \in Nat
        /\ \A j \in 1..Len(cnWire[o]) : cnWire'[o][j] = cnWire[o][j]
        /\ cnWire'[o][Len(cnWire[o]) + 1] = f
    BY <2>1, <2>2, <1>1
  <2>4. Wired'[e] = Wired[e]
    BY <1>w, <1>1, <2>2, Zenon
  <2>5. Wired[o] = {cnWire[o][k] : k \in DOMAIN cnWire[o]} /\ Wired'[o] = {cnWire'[o][k] : k \in DOMAIN cnWire'[o]}
    BY <1>w, <1>1, Zenon
  <2>6. Wired'[o] = Wired[o] \cup {f}
    BY <2>3, <2>5
  <2>7. \A j \in DOMAIN cnWire'[o] : \/ j \in DOMAIN cnWire[o] /\ cnWire'[o][j] = cnWire[o][j]
                                     \/ cnWire'[o][j] = f /\ j = Len(cnWire[o]) + 1
    BY <2>3
  <2>8. \A x \in Side : Wired[x] \subseteq Wired'[x]
    BY <1>1, <2>4, <2>6, Zenon
  <2> QED
    BY <2>2, <2>4, <2>6, <2>7, <2>8, Zenon
<1> QED
  BY <1>1, <1>2, <1>3, <1>4, Zenon DEF WriteFrame

\* Reading takes the first frame.
LEMMA ReadEffect ==
    ASSUME CnShape, NEW e \in Side, NEW o, o = OtherSide(e), NEW f, f = Head(cnWire[e]),
           cnWire[e] # <<>>, Reading(e)
    PROVE  /\ cnWire' \in [Side -> Seq(CnFrame)]
           /\ f \in CnFrame /\ f \in Wired[e]
           /\ \A x \in Side : Wired'[x] \subseteq Wired[x]
           /\ Wired'[o] = Wired[o]
           /\ Wired[e] \subseteq Wired'[e] \cup {f}
           /\ cnWire'[o] = cnWire[o]
           /\ 1 \in DOMAIN cnWire[e] /\ cnWire[e][1] = f
           /\ DOMAIN cnWire[e] \subseteq Nat \ {0} /\ DOMAIN cnWire'[e] \subseteq Nat \ {0}
           /\ \A j \in DOMAIN cnWire'[e] :
                  j + 1 \in DOMAIN cnWire[e] /\ cnWire'[e][j] = cnWire[e][j + 1]
<1>1. e # o /\ o \in Side /\ \A x \in Side : x = e \/ x = o
  BY TwoSides, Zenon
<1>2. cnWire \in [Side -> Seq(CnFrame)]
  BY Zenon DEF CnShape
<1>w. Wired = [x \in Side |-> {cnWire[x][k] : k \in DOMAIN cnWire[x]}]
      /\ Wired' = [x \in Side |-> {cnWire'[x][k] : k \in DOMAIN cnWire'[x]}]
  BY Zenon DEF Wired
<1>3. PICK s \in Seq(CnFrame) : s = cnWire[e]
  BY <1>2, Zenon
<1>4. /\ s # <<>> /\ Tail(s) \in Seq(CnFrame) /\ Head(s) \in CnFrame /\ Head(s) = s[1]
      /\ Len(s) \in Nat /\ 1 \in 1..Len(s) /\ DOMAIN s = 1..Len(s) /\ DOMAIN Tail(s) = 1..(Len(s) - 1)
      /\ \A j \in 1..(Len(s) - 1) : Tail(s)[j] = s[j + 1]
  BY <1>3
<1>5. cnWire' = [cnWire EXCEPT ![e] = Tail(s)]
  BY <1>3, Zenon DEF Reading
<1>6. cnWire' \in [Side -> Seq(CnFrame)] /\ cnWire'[e] = Tail(s) /\ cnWire'[o] = cnWire[o]
  BY <1>1, <1>2, <1>4, <1>5, Zenon
<1>7. Wired'[o] = Wired[o]
  BY <1>w, <1>1, <1>6, Zenon
<1>8. Wired[e] = {s[k] : k \in 1..Len(s)} /\ Wired'[e] = {Tail(s)[k] : k \in 1..(Len(s) - 1)}
  <2>1. Wired[e] = {cnWire[e][k] : k \in DOMAIN cnWire[e]} /\ Wired'[e] = {cnWire'[e][k] : k \in DOMAIN cnWire'[e]}
    BY <1>w, Zenon
  <2>2. cnWire[e] = s /\ cnWire'[e] = Tail(s) /\ DOMAIN s = 1..Len(s) /\ DOMAIN Tail(s) = 1..(Len(s) - 1)
    BY <1>3, <1>4, <1>6, Zenon
  <2> QED
    BY <2>1, <2>2, Zenon
<1>9. Wired'[e] \subseteq Wired[e] /\ Wired[e] \subseteq Wired'[e] \cup {Head(s)} /\ Head(s) \in Wired[e]
  <2>1. ASSUME NEW k \in 1..(Len(s) - 1) PROVE Tail(s)[k] \in Wired[e]
    <3>1. k + 1 \in 1..Len(s) /\ Tail(s)[k] = s[k + 1]
      BY <1>4
    <3> QED
      BY <1>8, <3>1, Zenon
  <2>2. ASSUME NEW k \in 1..Len(s) PROVE s[k] \in Wired'[e] \cup {Head(s)}
    <3>1. CASE k = 1
      BY <1>4, <3>1, Zenon
    <3>2. CASE k # 1
      <4>1. k - 1 \in 1..(Len(s) - 1) /\ k - 1 + 1 = k
        BY <1>4, <3>2
      <4>2. Tail(s)[k - 1] = s[k]
        BY <1>4, <4>1, Zenon
      <4> QED
        BY <1>8, <4>1, <4>2, Zenon
    <3> QED
      BY <3>1, <3>2, Zenon
  <2>3. Wired'[e] \subseteq Wired[e]
    BY <1>8, <2>1, Zenon
  <2>4. Wired[e] \subseteq Wired'[e] \cup {Head(s)}
    BY <1>8, <2>2, Zenon
  <2>5. s[1] = Head(s) /\ s[1] \in Wired[e]
    BY <1>4, <1>8, Zenon
  <2> QED
    BY <2>3, <2>4, <2>5, Zenon
<1>10. \A x \in Side : Wired'[x] \subseteq Wired[x]
  BY <1>1, <1>7, <1>9, Zenon
<1>11. \A j \in DOMAIN cnWire'[e] : j + 1 \in DOMAIN cnWire[e] /\ cnWire'[e][j] = cnWire[e][j + 1]
  BY <1>3, <1>4, <1>6
<1>12. DOMAIN cnWire[e] \subseteq Nat \ {0} /\ DOMAIN cnWire'[e] \subseteq Nat \ {0}
  BY <1>3, <1>4, <1>6
<1> QED
  BY <1>3, <1>4, <1>6, <1>7, <1>9, <1>10, <1>11, <1>12, Zenon


\* OpenStream gives out the next identifier.
LEMMA OpenEffect ==
    ASSUME CnShape, NEW e \in Side, OpenStream(e)
    PROVE  \E i \in StreamId :
               /\ i \notin Given[e] /\ Given'[e] = Given[e] \cup {i} /\ Given'[OtherSide(e)] = Given[OtherSide(e)]
               /\ cnTab' = [cnTab EXCEPT ![e][i] = "open"]
               /\ cnOpened' \in [Side -> Nat]
               /\ WriteFrame(e, "header", i)
               /\ cnTwice \subseteq cnTwice' /\ (i \in Given[OtherSide(e)] => i \in cnTwice')
               /\ UNCHANGED <<cnClosing, cnRun, cnLoops, cnDone>>
<1> DEFINE o == OtherSide(e)
<1>1. e # o /\ o \in Side
  BY TwoSides, Zenon
<1>2. PICK m \in Nat : m = cnOpened[e]
  BY Zenon DEF CnShape
<1>3. PICK i : i = 2 * m + 1
  BY Zenon
<1>4. m < MaxOpen[e] /\ i \in StreamId
  BY <1>2, <1>3, StreamIdOdd, Zenon DEF OpenStream
<1>5. /\ cnTab' = [cnTab EXCEPT ![e][i] = "open"]
      /\ cnOpened' = [cnOpened EXCEPT ![e] = @ + 1]
      /\ WriteFrame(e, "header", i)
      /\ cnTwice' = IF cnOpened[o] > cnOpened[e] THEN cnTwice \cup {i} ELSE cnTwice
      /\ UNCHANGED <<cnClosing, cnRun, cnLoops, cnDone>>
  BY <1>2, <1>3, Zenon DEF OpenStream
<1> HIDE DEF o
<1>6. cnOpened' \in [Side -> Nat] /\ cnOpened'[e] = m + 1 /\ cnOpened'[o] = cnOpened[o] /\ cnOpened[o] \in Nat
  BY <1>1, <1>2, <1>5 DEF CnShape
<1>7. /\ Given = [x \in Side |-> {k \in StreamId : k < 2 * cnOpened[x]}]
      /\ Given' = [x \in Side |-> {k \in StreamId : k < 2 * cnOpened'[x]}]
  BY Zenon DEF Given
<1>8. /\ Given[e] = {k \in StreamId : k < 2 * m} /\ Given'[e] = {k \in StreamId : k < 2 * (m + 1)}
      /\ Given[o] = {k \in StreamId : k < 2 * cnOpened[o]} /\ Given'[o] = Given[o]
  BY <1>1, <1>2, <1>6, <1>7, Zenon
<1>9. \A k \in StreamId : k \in Nat /\ (k < 2 * (m + 1) <=> k < 2 * m \/ k = i)
  BY <1>3, StreamIdOdd
<1>10. i \notin Given[e] /\ Given'[e] = Given[e] \cup {i}
  <2>1. ~(i < 2 * m)
    BY <1>2, <1>3
  <2>2. \A k : k \in Given'[e] <=> k \in Given[e] \/ k = i
    BY <1>4, <1>8, <1>9, Zenon
  <2>3. i \notin Given[e]
    BY <1>8, <2>1, Zenon
  <2> QED
    BY <2>2, <2>3, Zenon
<1>11. i \in Given[o] => i \in cnTwice'
  BY <1>2, <1>3, <1>4, <1>5, <1>6, <1>8
<1>12. cnTwice \subseteq cnTwice'
  BY <1>5, Zenon
<1> QED
  BY <1>4, <1>5, <1>6, <1>8, <1>10, <1>11, <1>12, Zenon DEF o

\* It is enough to show what holds of both ends for the two of them.
LEMMA BothPairs ==
    ASSUME NEW e \in Side
    PROVE  CnInv <=> CnShape /\ CnPair(e, OtherSide(e)) /\ CnPair(OtherSide(e), e)
  BY TwoSides, Zenon DEF CnInv

LEMMA BothPairsNext ==
    ASSUME NEW e \in Side, CnShape', CnPair(e, OtherSide(e))', CnPair(OtherSide(e), e)'
    PROVE  CnInv'
<1>1. \A x \in Side : CnPair(x, OtherSide(x))'
  BY TwoSides, Zenon
<1> QED
  BY <1>1, Zenon DEF CnInv

LEMMA OpenStep == ASSUME CnInv, NEW e \in Side, OpenStream(e) PROVE CnInv'
<1>1. PICK o \in Side : o = OtherSide(e)
  BY TwoSides, Zenon
<1>o. e # o /\ \A x \in Side : x = e \/ x = o
  BY <1>1, TwoSides, Zenon
<1>s. CnShape /\ CnPair(e, o) /\ CnPair(o, e)
  BY <1>1, BothPairs, Zenon
<1>2. PICK i \in StreamId :
         /\ i \notin Given[e] /\ Given'[e] = Given[e] \cup {i} /\ Given'[o] = Given[o]
         /\ cnTab' = [cnTab EXCEPT ![e][i] = "open"]
         /\ cnOpened' \in [Side -> Nat]
         /\ WriteFrame(e, "header", i)
         /\ cnTwice \subseteq cnTwice' /\ (i \in Given[o] => i \in cnTwice')
         /\ UNCHANGED <<cnClosing, cnRun, cnLoops, cnDone>>
  BY OpenEffect, <1>1, <1>s, Zenon
<1>3. /\ cnWire' \in [Side -> Seq(CnFrame)]
      /\ \A x \in Side : Wired[x] \subseteq Wired'[x]
      /\ Wired'[e] = Wired[e]
      /\ Wired'[o] \subseteq Wired[o] \cup {CnHeader(i)}
      /\ (\A x \in Side : cnRun[x] = "up") => CnHeader(i) \in Wired'[o]
      /\ cnWire'[e] = cnWire[e]
      /\ \A j \in DOMAIN cnWire'[o] : \/ j \in DOMAIN cnWire[o] /\ cnWire'[o][j] = cnWire[o][j]
                                      \/ cnWire'[o][j] = CnHeader(i) /\ j = Len(cnWire[o]) + 1
  BY <1>1, <1>s, <1>2, WriteEffect DEF CnHeader
<1>4. /\ cnTab' \in [Side -> [StreamId -> {"absent", "open", "closed"}]]
      /\ cnTab'[e][i] = "open" /\ cnTab'[o] = cnTab[o]
      /\ \A j \in StreamId : j # i => cnTab'[e][j] = cnTab[e][j]
  BY <1>o, <1>2, <1>s, Zenon DEF CnShape
<1>5. CnShape'
  BY <1>2, <1>3, <1>4, <1>s, Zenon DEF CnShape
<1>7. CnHeader(i) \notin Wired[o]
  BY <1>s, <1>2, Zenon DEF CnPair, HeaderByOpener
<1>8. i \notin cnTwice' => i \notin cnDone[e] /\ i \notin Given[o] /\ CnHeader(i) \notin Wired[e]
                           /\ CnReset(i) \notin Wired[o]
  BY <1>s, <1>2, Zenon DEF CnPair, KnownFrom, HeaderByOpener, ResetByDone
<1>9. TwiceKnown(e, o)' /\ TwiceKnown(o, e)'
  BY <1>s, <1>2, Zenon DEF CnPair, TwiceKnown
<1>10. HeaderByOpener(e, o)' /\ HeaderByOpener(o, e)'
  BY <1>s, <1>2, <1>3, FramesDiffer, Zenon DEF CnPair, HeaderByOpener
<1>11. \A j \in DOMAIN cnWire[o] : cnWire[o][j] \in Wired[o] /\ j < Len(cnWire[o]) + 1
  BY <1>s DEF Wired, CnShape
<1>12. HeaderOnce(e)' /\ HeaderOnce(o)'
  BY <1>s, <1>3, <1>7, <1>11, FramesDiffer DEF CnPair, HeaderOnce
<1>13. KnownFrom(e, o)' /\ KnownFrom(o, e)'
  BY <1>s, <1>2, <1>3, <1>4, FramesDiffer DEF CnPair, KnownFrom
<1>14. ResetByDone(e, o)' /\ ResetByDone(o, e)'
  BY <1>s, <1>2, <1>3, FramesDiffer, Zenon DEF CnPair, ResetByDone
<1>15. HeaderFirst(e)' /\ HeaderFirst(o)'
  <2>1. HeaderFirst(e) /\ HeaderFirst(o)
    BY <1>s, Zenon DEF CnPair
  <2>2. HeaderFirst(e)'
    BY <2>1, <1>2, <1>3, Zenon DEF HeaderFirst
  <2>3. ASSUME NEW m \in StreamId \ cnTwice', NEW j \in DOMAIN cnWire'[o], NEW k \in DOMAIN cnWire'[o],
               cnWire'[o][j] = CnHeader(m), cnWire'[o][k] = CnReset(m)
        PROVE  j < k
    <3>1. k \in DOMAIN cnWire[o] /\ cnWire[o][k] = CnReset(m) /\ m \notin cnTwice
      BY <1>2, <1>3, <2>3, FramesDiffer, Zenon
    <3>2. m # i
      BY <1>8, <1>11, <3>1, Zenon
    <3>3. j \in DOMAIN cnWire[o] /\ cnWire[o][j] = CnHeader(m)
      BY <1>3, <2>3, <3>2, FramesDiffer, Zenon
    <3> QED
      BY <2>1, <3>1, <3>3, Zenon DEF HeaderFirst
  <2> QED
    BY <2>2, <2>3, Zenon DEF HeaderFirst
<1>16. OpenAtBoth(e, o)' /\ OpenAtBoth(o, e)'
  BY <1>s, <1>o, <1>2, <1>3, <1>4, <1>8, FramesDiffer DEF CnPair, OpenAtBoth
<1>17. ClosedStays(e)' /\ ClosedStays(o)'
  BY <1>s, <1>2, <1>4, <1>8, Zenon DEF CnPair, ClosedStays
<1>18. CnPair(e, o)' /\ CnPair(o, e)'
  BY <1>9, <1>10, <1>12, <1>13, <1>14, <1>15, <1>16, <1>17, Zenon DEF CnPair
<1> QED
  BY <1>1, <1>5, <1>18, BothPairsNext, Zenon


LEMMA SendResetStep == ASSUME CnInv, NEW e \in Side, NEW i \in StreamId, SendReset(e, i) PROVE CnInv'
<1>1. PICK o \in Side : o = OtherSide(e)
  BY TwoSides, Zenon
<1>o. e # o /\ \A x \in Side : x = e \/ x = o
  BY <1>1, TwoSides, Zenon
<1>s. CnShape /\ CnPair(e, o) /\ CnPair(o, e)
  BY <1>1, BothPairs, Zenon
<1>2. /\ i \in cnClosing[e] /\ cnClosing' = [cnClosing EXCEPT ![e] = @ \ {i}]
      /\ WriteFrame(e, "reset", i)
      /\ UNCHANGED <<cnTab, cnOpened, cnRun, cnTwice, cnDone>>
  BY Zenon DEF SendReset
<1>3. /\ cnWire' \in [Side -> Seq(CnFrame)]
      /\ \A x \in Side : Wired[x] \subseteq Wired'[x]
      /\ Wired'[e] = Wired[e]
      /\ Wired'[o] \subseteq Wired[o] \cup {CnReset(i)}
      /\ (\A x \in Side : cnRun[x] = "up") => CnReset(i) \in Wired'[o]
      /\ cnWire'[e] = cnWire[e]
      /\ \A j \in DOMAIN cnWire'[o] : \/ j \in DOMAIN cnWire[o] /\ cnWire'[o][j] = cnWire[o][j]
                                      \/ cnWire'[o][j] = CnReset(i) /\ j = Len(cnWire[o]) + 1
  BY <1>1, <1>s, <1>2, WriteEffect DEF CnReset
<1>4. /\ cnClosing' \in [Side -> SUBSET StreamId] /\ cnClosing'[e] = cnClosing[e] \ {i}
      /\ cnClosing'[o] = cnClosing[o]
  BY <1>o, <1>2, <1>s, Zenon DEF CnShape
<1>5. CnShape'
  BY <1>2, <1>3, <1>4, <1>s, Zenon DEF CnShape
<1>6. Given' = Given
  BY <1>2, Zenon DEF Given
<1>7. \A m \in StreamId : CnHeader(m) \in Wired'[e] <=> CnHeader(m) \in Wired[e]
  BY <1>3, Zenon
<1>8. \A m \in StreamId : CnHeader(m) \in Wired'[o] <=> CnHeader(m) \in Wired[o]
  BY <1>3, FramesDiffer, Zenon
<1>9. TwiceKnown(e, o)' /\ TwiceKnown(o, e)'
  BY <1>s, <1>2, <1>6, Zenon DEF CnPair, TwiceKnown
<1>10. HeaderByOpener(e, o)' /\ HeaderByOpener(o, e)'
  BY <1>s, <1>6, <1>7, <1>8, Zenon DEF CnPair, HeaderByOpener
<1>11. \A j \in DOMAIN cnWire[o] : cnWire[o][j] \in Wired[o] /\ j < Len(cnWire[o]) + 1
  BY <1>s DEF Wired, CnShape
<1>12. HeaderOnce(e)' /\ HeaderOnce(o)'
  BY <1>s, <1>3, FramesDiffer, Zenon DEF CnPair, HeaderOnce
<1>13. KnownFrom(e, o)' /\ KnownFrom(o, e)'
  BY <1>s, <1>2, <1>6, <1>7, <1>8, Zenon DEF CnPair, KnownFrom
<1>14. ResetByDone(e, o)' /\ ResetByDone(o, e)'
  BY <1>s, <1>2, <1>3, <1>4, FramesDiffer, Zenon DEF CnPair, ResetByDone
<1>15. HeaderFirst(e)' /\ HeaderFirst(o)'
  <2>1. HeaderFirst(e) /\ HeaderFirst(o)
    BY <1>s, Zenon DEF CnPair
  <2>2. HeaderFirst(e)'
    BY <2>1, <1>2, <1>3, Zenon DEF HeaderFirst
  <2>3. ASSUME NEW m \in StreamId \ cnTwice', NEW j \in DOMAIN cnWire'[o], NEW k \in DOMAIN cnWire'[o],
               cnWire'[o][j] = CnHeader(m), cnWire'[o][k] = CnReset(m)
        PROVE  j < k
    <3>1. j \in DOMAIN cnWire[o] /\ cnWire[o][j] = CnHeader(m) /\ m \notin cnTwice
      BY <1>2, <1>3, <2>3, FramesDiffer, Zenon
    <3>2. CASE k \in DOMAIN cnWire[o] /\ cnWire'[o][k] = cnWire[o][k]
      BY <2>1, <2>3, <3>1, <3>2, Zenon DEF HeaderFirst
    <3>3. CASE k = Len(cnWire[o]) + 1
      BY <1>11, <3>1, <3>3, Zenon
    <3> QED
      BY <1>3, <3>2, <3>3, Zenon
  <2> QED
    BY <2>2, <2>3, Zenon DEF HeaderFirst
<1>16. OpenAtBoth(e, o)' /\ OpenAtBoth(o, e)'
  BY <1>s, <1>o, <1>2, <1>3, <1>4, <1>7, <1>8, Zenon DEF CnPair, OpenAtBoth
<1>17. ClosedStays(e)' /\ ClosedStays(o)'
  BY <1>s, <1>2, Zenon DEF CnPair, ClosedStays
<1>18. CnPair(e, o)' /\ CnPair(o, e)'
  BY <1>9, <1>10, <1>12, <1>13, <1>14, <1>15, <1>16, <1>17, Zenon DEF CnPair
<1> QED
  BY <1>1, <1>5, <1>18, BothPairsNext, Zenon

\* What a read loop that takes a frame does to what is on the way.
LEMMA ReadKeeps ==
    ASSUME CnInv, NEW e \in Side, NEW o \in Side, o = OtherSide(e), cnWire[e] # <<>>, Reading(e), cnTwice' = cnTwice
    PROVE  HeaderOnce(e)' /\ HeaderOnce(o)' /\ HeaderFirst(e)' /\ HeaderFirst(o)'
<1>s. CnShape /\ CnPair(e, o) /\ CnPair(o, e)
  BY BothPairs, Zenon
<1>1. /\ cnWire'[o] = cnWire[o]
      /\ DOMAIN cnWire'[e] \subseteq Nat \ {0}
      /\ \A j \in DOMAIN cnWire'[e] : j + 1 \in DOMAIN cnWire[e] /\ cnWire'[e][j] = cnWire[e][j + 1]
  BY <1>s, ReadEffect, Zenon
<1>2. HeaderOnce(o)' /\ HeaderFirst(o)'
  BY <1>s, <1>1 DEF CnPair, HeaderOnce, HeaderFirst
<1>3. HeaderOnce(e)'
  BY <1>s, <1>1 DEF CnPair, HeaderOnce
<1>4. HeaderFirst(e)'
  BY <1>s, <1>1 DEF CnPair, HeaderFirst
<1> QED
  BY <1>2, <1>3, <1>4, Zenon

LEMMA HeaderFrameStep == ASSUME CnInv, NEW e \in Side, HeaderFrame(e) PROVE CnInv'
<1>1. PICK o \in Side : o = OtherSide(e)
  BY TwoSides, Zenon
<1>o. e # o /\ \A x \in Side : x = e \/ x = o
  BY <1>1, TwoSides, Zenon
<1>s. CnShape /\ CnPair(e, o) /\ CnPair(o, e)
  BY <1>1, BothPairs, Zenon
<1>w. cnWire[e] # <<>> /\ Reading(e) /\ Head(cnWire[e]).type = "header"
  BY Zenon DEF HeaderFrame, NextFrameIs
<1>f. PICK f : f = Head(cnWire[e])
  BY Zenon
<1>3. /\ cnWire' \in [Side -> Seq(CnFrame)] /\ f \in CnFrame /\ f \in Wired[e]
      /\ \A x \in Side : Wired'[x] \subseteq Wired[x]
      /\ Wired'[o] = Wired[o] /\ Wired[e] \subseteq Wired'[e] \cup {f}
      /\ 1 \in DOMAIN cnWire[e] /\ cnWire[e][1] = f
      /\ DOMAIN cnWire'[e] \subseteq Nat \ {0}
      /\ \A j \in DOMAIN cnWire'[e] : j + 1 \in DOMAIN cnWire[e] /\ cnWire'[e][j] = cnWire[e][j + 1]
  BY <1>1, <1>s, <1>w, <1>f, ReadEffect, Zenon
<1>i. PICK i \in StreamId : i = f.id /\ f = CnHeader(i)
  BY <1>w, <1>f, <1>3, Zenon DEF CnFrame, CnHeader
<1>2. /\ cnTab' = IF cnTab[e][i] = "absent" THEN [cnTab EXCEPT ![e][i] = "open"] ELSE cnTab
      /\ UNCHANGED <<cnOpened, cnClosing, cnRun, cnTwice, cnDone>>
  BY <1>f, <1>i, Zenon DEF HeaderFrame
<1>4. /\ cnTab' \in [Side -> [StreamId -> {"absent", "open", "closed"}]]
      /\ cnTab'[e][i] = (IF cnTab[e][i] = "absent" THEN "open" ELSE cnTab[e][i]) /\ cnTab'[o] = cnTab[o]
      /\ \A j \in StreamId : j # i => cnTab'[e][j] = cnTab[e][j]
  BY <1>o, <1>2, <1>s, Zenon DEF CnShape
<1>5. CnShape'
  BY <1>2, <1>3, <1>4, <1>s, Zenon DEF CnShape
<1>6. Given' = Given
  BY <1>2, Zenon DEF Given
<1>7. CnHeader(i) \notin Wired'[e]
  <2>1. ASSUME NEW j \in DOMAIN cnWire'[e], cnWire'[e][j] = CnHeader(i) PROVE FALSE
    <3>1. j \in Nat \ {0} /\ j + 1 \in DOMAIN cnWire[e] /\ cnWire[e][j + 1] = CnHeader(i)
      BY <1>3, <2>1, Zenon
    <3>2. j + 1 = 1
      BY <1>s, <1>3, <1>i, <3>1, Zenon DEF CnPair, HeaderOnce
    <3> QED
      BY <3>1, <3>2
  <2> QED
    BY <2>1, Zenon DEF Wired
<1>8. \A m \in StreamId : m # i => (CnHeader(m) \in Wired'[e] <=> CnHeader(m) \in Wired[e])
  BY <1>3, <1>i, FramesDiffer
<1>9. \A m \in StreamId : CnReset(m) \in Wired'[e] <=> CnReset(m) \in Wired[e]
  BY <1>3, <1>i, FramesDiffer
<1>10. i \in Given[o] /\ (i \notin cnTwice => cnTab[e][i] = "absent" /\ i \notin cnDone[e])
  BY <1>s, <1>3, <1>i, Zenon DEF CnPair, HeaderByOpener, KnownFrom, TwiceKnown
<1>11. TwiceKnown(e, o)' /\ TwiceKnown(o, e)'
  BY <1>s, <1>2, <1>6, Zenon DEF CnPair, TwiceKnown
<1>12. HeaderByOpener(e, o)' /\ HeaderByOpener(o, e)'
  BY <1>s, <1>3, <1>6, Zenon DEF CnPair, HeaderByOpener
<1>13. KnownFrom(e, o)' /\ KnownFrom(o, e)'
  BY <1>s, <1>2, <1>3, <1>4, <1>6, <1>7, <1>8, <1>10 DEF CnPair, KnownFrom
<1>14. ResetByDone(e, o)' /\ ResetByDone(o, e)'
  BY <1>s, <1>2, <1>3, Zenon DEF CnPair, ResetByDone
<1>15. HeaderOnce(e)' /\ HeaderOnce(o)' /\ HeaderFirst(e)' /\ HeaderFirst(o)'
  BY <1>1, <1>2, <1>w, ReadKeeps, Zenon
<1>16. OpenAtBoth(e, o)' /\ OpenAtBoth(o, e)'
  <2>1. OpenAtBoth(e, o) /\ OpenAtBoth(o, e)
    BY <1>s, Zenon DEF CnPair
  <2>2. OpenAtBoth(e, o)'
    BY <2>1, <1>2, <1>3, <1>4, <1>9, <1>i DEF OpenAtBoth
  <2>3. OpenAtBoth(o, e)'
    BY <2>1, <1>2, <1>3, <1>4, <1>8, <1>10 DEF OpenAtBoth
  <2> QED
    BY <2>2, <2>3, Zenon
<1>17. ClosedStays(e)' /\ ClosedStays(o)'
  BY <1>s, <1>2, <1>4, <1>10 DEF CnPair, ClosedStays
<1>18. CnPair(e, o)' /\ CnPair(o, e)'
  BY <1>11, <1>12, <1>13, <1>14, <1>15, <1>16, <1>17, Zenon DEF CnPair
<1> QED
  BY <1>1, <1>5, <1>18, BothPairsNext, Zenon


LEMMA ResetFrameStep == ASSUME CnInv, NEW e \in Side, ResetFrame(e) PROVE CnInv'
<1>1. PICK o \in Side : o = OtherSide(e)
  BY TwoSides, Zenon
<1>o. e # o /\ \A x \in Side : x = e \/ x = o
  BY <1>1, TwoSides, Zenon
<1>s. CnShape /\ CnPair(e, o) /\ CnPair(o, e)
  BY <1>1, BothPairs, Zenon
<1>w. cnWire[e] # <<>> /\ Reading(e) /\ Head(cnWire[e]).type = "reset"
  BY Zenon DEF ResetFrame, NextFrameIs
<1>f. PICK f : f = Head(cnWire[e])
  BY Zenon
<1>3. /\ cnWire' \in [Side -> Seq(CnFrame)] /\ f \in CnFrame /\ f \in Wired[e]
      /\ \A x \in Side : Wired'[x] \subseteq Wired[x]
      /\ Wired'[o] = Wired[o] /\ Wired[e] \subseteq Wired'[e] \cup {f}
      /\ 1 \in DOMAIN cnWire[e] /\ cnWire[e][1] = f
      /\ DOMAIN cnWire[e] \subseteq Nat \ {0}
  BY <1>1, <1>s, <1>w, <1>f, ReadEffect, Zenon
<1>i. PICK i \in StreamId : i = f.id /\ f = CnReset(i)
  BY <1>w, <1>f, <1>3, Zenon DEF CnFrame, CnReset
<1>2. /\ cnTab' = [cnTab EXCEPT ![e][i] = IF @ = "absent" THEN "absent" ELSE "closed"]
      /\ cnDone' = IF cnTab[e][i] = "absent" THEN cnDone ELSE [cnDone EXCEPT ![e] = @ \cup {i}]
      /\ UNCHANGED <<cnOpened, cnClosing, cnRun, cnTwice>>
  BY <1>f, <1>i, Zenon DEF ResetFrame
<1>4. /\ cnTab' \in [Side -> [StreamId -> {"absent", "open", "closed"}]]
      /\ cnTab'[e][i] = (IF cnTab[e][i] = "absent" THEN "absent" ELSE "closed") /\ cnTab'[o] = cnTab[o]
      /\ \A j \in StreamId : j # i => cnTab'[e][j] = cnTab[e][j]
  BY <1>o, <1>2, <1>s, Zenon DEF CnShape
<1>d. /\ cnDone' \in [Side -> SUBSET StreamId] /\ cnDone'[o] = cnDone[o]
      /\ cnDone'[e] = IF cnTab[e][i] = "absent" THEN cnDone[e] ELSE cnDone[e] \cup {i}
  BY <1>o, <1>2, <1>s, Zenon DEF CnShape
<1>5. CnShape'
  BY <1>2, <1>3, <1>4, <1>d, <1>s, Zenon DEF CnShape
<1>6. Given' = Given
  BY <1>2, Zenon DEF Given
<1>7. i \notin cnTwice => CnHeader(i) \notin Wired[e]
  <2>1. ASSUME i \notin cnTwice, NEW j \in DOMAIN cnWire[e], cnWire[e][j] = CnHeader(i) PROVE FALSE
    <3>1. j \in Nat \ {0}
      BY <1>3, Zenon
    <3>2. j < 1
      BY <1>s, <1>3, <1>i, <2>1, Zenon DEF CnPair, HeaderFirst
    <3> QED
      BY <3>1, <3>2
  <2> QED
    BY <2>1, Zenon DEF Wired
<1>8. \A m \in StreamId : CnHeader(m) \in Wired'[e] <=> CnHeader(m) \in Wired[e]
  BY <1>3, <1>i, FramesDiffer
<1>9. \A m \in StreamId : m # i => (CnReset(m) \in Wired'[e] <=> CnReset(m) \in Wired[e])
  BY <1>3, <1>i, FramesDiffer, Zenon
<1>10. i \in cnDone[o] /\ (i \notin cnTwice => cnTab[o][i] # "open" /\ CnHeader(i) \notin Wired[o])
  <2>1. i \in cnDone[o]
    BY <1>s, <1>3, <1>i, Zenon DEF CnPair, ResetByDone
  <2>2. i \notin cnTwice => cnTab[o][i] # "open"
    BY <1>s, <2>1, Zenon DEF CnPair, ClosedStays
  <2>3. i \notin cnTwice => CnHeader(i) \notin Wired[o]
    BY <1>s, <2>1, Zenon DEF CnPair, KnownFrom, HeaderByOpener, TwiceKnown
  <2> QED
    BY <2>1, <2>2, <2>3, Zenon
<1>11. TwiceKnown(e, o)' /\ TwiceKnown(o, e)'
  BY <1>s, <1>2, <1>6, Zenon DEF CnPair, TwiceKnown
<1>12. HeaderByOpener(e, o)' /\ HeaderByOpener(o, e)'
  BY <1>s, <1>3, <1>6, Zenon DEF CnPair, HeaderByOpener
<1>13. KnownFrom(e, o)' /\ KnownFrom(o, e)'
  BY <1>s, <1>3, <1>4, <1>d, <1>6, <1>8 DEF CnPair, KnownFrom
<1>14. ResetByDone(e, o)' /\ ResetByDone(o, e)'
  BY <1>s, <1>2, <1>3, <1>d, Zenon DEF CnPair, ResetByDone
<1>15. HeaderOnce(e)' /\ HeaderOnce(o)' /\ HeaderFirst(e)' /\ HeaderFirst(o)'
  BY <1>1, <1>2, <1>w, ReadKeeps, Zenon
<1>16. OpenAtBoth(e, o)' /\ OpenAtBoth(o, e)'
  <2>1. OpenAtBoth(e, o) /\ OpenAtBoth(o, e)
    BY <1>s, Zenon DEF CnPair
  <2>2. OpenAtBoth(e, o)'
    BY <2>1, <1>2, <1>3, <1>4, <1>7, <1>8, <1>9 DEF OpenAtBoth
  <2>3. OpenAtBoth(o, e)'
    BY <2>1, <1>2, <1>3, <1>4, <1>8, <1>10 DEF OpenAtBoth
  <2> QED
    BY <2>2, <2>3, Zenon
<1>17. ClosedStays(e)' /\ ClosedStays(o)'
  BY <1>s, <1>2, <1>4, <1>d DEF CnPair, ClosedStays
<1>18. CnPair(e, o)' /\ CnPair(o, e)'
  BY <1>11, <1>12, <1>13, <1>14, <1>15, <1>16, <1>17, Zenon DEF CnPair
<1> QED
  BY <1>1, <1>5, <1>18, BothPairsNext, Zenon

\* What does not touch the frames on the way, and opens no stream.
LEMMA WiresKept ==
    ASSUME CnInv, NEW e \in Side, NEW o \in Side, o = OtherSide(e), UNCHANGED <<cnOpened, cnWire, cnTwice>>
    PROVE  /\ Given' = Given /\ Wired' = Wired
           /\ HeaderOnce(e)' /\ HeaderOnce(o)' /\ HeaderFirst(e)' /\ HeaderFirst(o)'
           /\ TwiceKnown(e, o)' /\ TwiceKnown(o, e)' /\ HeaderByOpener(e, o)' /\ HeaderByOpener(o, e)'
<1>s. CnPair(e, o) /\ CnPair(o, e)
  BY BothPairs, Zenon
<1>1. Given' = Given /\ Wired' = Wired
  BY Zenon DEF Given, Wired
<1>2. HeaderOnce(e)' /\ HeaderOnce(o)' /\ HeaderFirst(e)' /\ HeaderFirst(o)'
  BY <1>s DEF CnPair, HeaderOnce, HeaderFirst
<1>3. TwiceKnown(e, o)' /\ TwiceKnown(o, e)' /\ HeaderByOpener(e, o)' /\ HeaderByOpener(o, e)'
  BY <1>s, <1>1, Zenon DEF CnPair, TwiceKnown, HeaderByOpener
<1> QED
  BY <1>1, <1>2, <1>3, Zenon

LEMMA CloseStreamStep == ASSUME CnInv, NEW e \in Side, NEW i \in StreamId, CloseStream(e, i) PROVE CnInv'
<1>1. PICK o \in Side : o = OtherSide(e)
  BY TwoSides, Zenon
<1>o. e # o /\ \A x \in Side : x = e \/ x = o
  BY <1>1, TwoSides, Zenon
<1>s. CnShape /\ CnPair(e, o) /\ CnPair(o, e)
  BY <1>1, BothPairs, Zenon
<1>2. /\ cnTab[e][i] # "absent" /\ cnTab' = [cnTab EXCEPT ![e][i] = "absent"]
      /\ cnClosing' = [cnClosing EXCEPT ![e] = @ \cup {i}]
      /\ cnDone' = [cnDone EXCEPT ![e] = @ \cup {i}]
      /\ UNCHANGED <<cnOpened, cnWire, cnRun, cnTwice>>
  BY Zenon DEF CloseStream
<1>k. /\ Given' = Given /\ Wired' = Wired
      /\ HeaderOnce(e)' /\ HeaderOnce(o)' /\ HeaderFirst(e)' /\ HeaderFirst(o)'
      /\ TwiceKnown(e, o)' /\ TwiceKnown(o, e)' /\ HeaderByOpener(e, o)' /\ HeaderByOpener(o, e)'
  BY <1>1, <1>2, WiresKept, Zenon
<1>4. /\ cnTab' \in [Side -> [StreamId -> {"absent", "open", "closed"}]]
      /\ cnTab'[e][i] = "absent" /\ cnTab'[o] = cnTab[o]
      /\ \A j \in StreamId : j # i => cnTab'[e][j] = cnTab[e][j]
  BY <1>o, <1>2, <1>s, Zenon DEF CnShape
<1>d. /\ cnDone' \in [Side -> SUBSET StreamId] /\ cnDone'[o] = cnDone[o] /\ cnDone'[e] = cnDone[e] \cup {i}
      /\ cnClosing' \in [Side -> SUBSET StreamId] /\ cnClosing'[o] = cnClosing[o]
      /\ cnClosing'[e] = cnClosing[e] \cup {i}
  BY <1>o, <1>2, <1>s, Zenon DEF CnShape
<1>5. CnShape'
  BY <1>2, <1>4, <1>d, <1>s, Zenon DEF CnShape
<1>13. KnownFrom(e, o)' /\ KnownFrom(o, e)'
  BY <1>s, <1>2, <1>4, <1>d, <1>k DEF CnPair, KnownFrom
<1>14. ResetByDone(e, o)' /\ ResetByDone(o, e)'
  BY <1>s, <1>d, <1>k, Zenon DEF CnPair, ResetByDone
<1>16. OpenAtBoth(e, o)' /\ OpenAtBoth(o, e)'
  BY <1>s, <1>2, <1>4, <1>d, <1>k DEF CnPair, OpenAtBoth
<1>17. ClosedStays(e)' /\ ClosedStays(o)'
  BY <1>s, <1>2, <1>4, <1>d DEF CnPair, ClosedStays
<1>18. CnPair(e, o)' /\ CnPair(o, e)'
  BY <1>k, <1>13, <1>14, <1>16, <1>17, Zenon DEF CnPair
<1> QED
  BY <1>1, <1>5, <1>18, BothPairsNext, Zenon


LEMMA CloseConnectionStep == ASSUME CnInv, NEW e \in Side, CloseConnection(e) PROVE CnInv'
<1>1. PICK o \in Side : o = OtherSide(e)
  BY TwoSides, Zenon
<1>o. e # o /\ \A x \in Side : x = e \/ x = o
  BY <1>1, TwoSides, Zenon
<1>s. CnShape /\ CnPair(e, o) /\ CnPair(o, e)
  BY <1>1, BothPairs, Zenon
<1>2. /\ cnRun' = [cnRun EXCEPT ![e] = "closed"]
      /\ cnTab' = [cnTab EXCEPT ![e] = [i \in StreamId |-> IF @[i] = "absent" THEN "absent" ELSE "closed"]]
      /\ cnDone' = [cnDone EXCEPT ![e] = @ \cup {i \in StreamId : cnTab[e][i] # "absent"}]
      /\ UNCHANGED <<cnOpened, cnWire, cnClosing, cnTwice>>
  BY Zenon DEF CloseConnection
<1>k. /\ Given' = Given /\ Wired' = Wired
      /\ HeaderOnce(e)' /\ HeaderOnce(o)' /\ HeaderFirst(e)' /\ HeaderFirst(o)'
      /\ TwiceKnown(e, o)' /\ TwiceKnown(o, e)' /\ HeaderByOpener(e, o)' /\ HeaderByOpener(o, e)'
  BY <1>1, <1>2, WiresKept, Zenon
<1>4. /\ cnTab' \in [Side -> [StreamId -> {"absent", "open", "closed"}]]
      /\ cnTab'[o] = cnTab[o]
      /\ \A j \in StreamId : cnTab'[e][j] = IF cnTab[e][j] = "absent" THEN "absent" ELSE "closed"
  BY <1>o, <1>2, <1>s, Zenon DEF CnShape
<1>d. /\ cnDone' \in [Side -> SUBSET StreamId] /\ cnDone'[o] = cnDone[o]
      /\ cnDone'[e] = cnDone[e] \cup {j \in StreamId : cnTab[e][j] # "absent"}
      /\ cnRun' \in [Side -> {"up", "stopping", "closed"}] /\ cnRun'[e] = "closed"
  BY <1>o, <1>2, <1>s, Zenon DEF CnShape
<1>5. CnShape'
  BY <1>2, <1>4, <1>d, <1>s, Zenon DEF CnShape
<1>13. KnownFrom(e, o)' /\ KnownFrom(o, e)'
  BY <1>s, <1>2, <1>4, <1>d, <1>k, Zenon DEF CnPair, KnownFrom
<1>14. ResetByDone(e, o)' /\ ResetByDone(o, e)'
  BY <1>s, <1>2, <1>d, <1>k, Zenon DEF CnPair, ResetByDone
<1>16. OpenAtBoth(e, o)' /\ OpenAtBoth(o, e)'
  BY <1>d, Zenon DEF OpenAtBoth
<1>17. ClosedStays(e)' /\ ClosedStays(o)'
  BY <1>s, <1>2, <1>4, <1>d, Zenon DEF CnPair, ClosedStays
<1>18. CnPair(e, o)' /\ CnPair(o, e)'
  BY <1>k, <1>13, <1>14, <1>16, <1>17, Zenon DEF CnPair
<1> QED
  BY <1>1, <1>5, <1>18, BothPairsNext, Zenon

\* The end of a loop and the stop that precedes the close change no table.
LEMMA RunStep ==
    ASSUME CnInv, NEW e \in Side, cnRun' \in [Side -> {"up", "stopping", "closed"}],
           \A x \in Side : cnRun'[x] = "up" => cnRun[x] = "up",
           UNCHANGED <<cnTab, cnOpened, cnWire, cnClosing, cnTwice, cnDone>>
    PROVE  CnInv'
<1>1. PICK o \in Side : o = OtherSide(e)
  BY TwoSides, Zenon
<1>s. CnShape /\ CnPair(e, o) /\ CnPair(o, e)
  BY <1>1, BothPairs, Zenon
<1>k. /\ Given' = Given /\ Wired' = Wired
      /\ HeaderOnce(e)' /\ HeaderOnce(o)' /\ HeaderFirst(e)' /\ HeaderFirst(o)'
      /\ TwiceKnown(e, o)' /\ TwiceKnown(o, e)' /\ HeaderByOpener(e, o)' /\ HeaderByOpener(o, e)'
  BY <1>1, WiresKept, Zenon
<1>5. CnShape'
  BY <1>s, Zenon DEF CnShape
<1>13. KnownFrom(e, o)' /\ KnownFrom(o, e)' /\ ResetByDone(e, o)' /\ ResetByDone(o, e)'
  BY <1>s, <1>k, Zenon DEF CnPair, KnownFrom, ResetByDone
<1>16. OpenAtBoth(e, o)' /\ OpenAtBoth(o, e)'
  BY <1>s, <1>k, Zenon DEF CnPair, OpenAtBoth
<1>17. ClosedStays(e)' /\ ClosedStays(o)'
  BY <1>s, Zenon DEF CnPair, ClosedStays
<1>18. CnPair(e, o)' /\ CnPair(o, e)'
  BY <1>k, <1>13, <1>16, <1>17, Zenon DEF CnPair
<1> QED
  BY <1>1, <1>5, <1>18, BothPairsNext, Zenon

LEMMA CnInitInv == CnInit => CnInv
<1> SUFFICES ASSUME CnInit PROVE CnInv
  BY Zenon
<1>1. CnShape
  BY DEF CnInit, CnShape
<1>2. \A x \in Side : cnWire[x] = <<>> /\ cnOpened[x] = 0 /\ cnClosing[x] = {} /\ cnDone[x] = {}
                      /\ \A i \in StreamId : cnTab[x][i] = "absent"
  BY Zenon DEF CnInit
<1>3. \A x \in Side : Wired[x] = {} /\ Given[x] = {}
  BY <1>2, StreamIdOdd DEF Wired, Given
<1>4. ASSUME NEW e \in Side, NEW o \in Side PROVE CnPair(e, o)
  BY <1>2, <1>3 DEF CnPair, TwiceKnown, HeaderByOpener, HeaderOnce, KnownFrom, ResetByDone, HeaderFirst,
                    OpenAtBoth, ClosedStays
<1> QED
  BY <1>1, <1>4, TwoSides, Zenon DEF CnInv

LEMMA CnStep == CnInv /\ [CnNext]_cnVars => CnInv'
<1> SUFFICES ASSUME CnInv, [CnNext]_cnVars PROVE CnInv'
  BY Zenon
<1>0. PICK e0 \in Side : TRUE
  BY CnAssumption, Zenon
<1>r. cnRun \in [Side -> {"up", "stopping", "closed"}]
  BY Zenon DEF CnInv, CnShape
<1>1. CASE UNCHANGED cnVars
  BY <1>0, <1>1, <1>r, RunStep, Zenon DEF cnVars
<1>2. ASSUME NEW e \in Side, LoopEnds(e) PROVE CnInv'
  BY <1>2, <1>r, RunStep, Zenon DEF LoopEnds
<1>3. ASSUME NEW e \in Side, StopConnection(e) PROVE CnInv'
  <2>1. /\ cnRun' = [cnRun EXCEPT ![e] = "stopping"]
        /\ UNCHANGED <<cnTab, cnOpened, cnWire, cnClosing, cnTwice, cnDone>>
    BY <1>3, Zenon DEF StopConnection
  <2>2. cnRun' \in [Side -> {"up", "stopping", "closed"}] /\ \A x \in Side : cnRun'[x] = "up" => cnRun[x] = "up"
    BY <2>1, <1>r, Zenon
  <2> QED
    BY <2>1, <2>2, RunStep, Zenon
<1> QED
  BY <1>1, <1>2, <1>3, OpenStep, HeaderFrameStep, ResetFrameStep, CloseConnectionStep, CloseStreamStep,
     SendResetStep, Zenon DEF CnNext

\* The streams of a multiplexed connection: when nothing is on the way a stream
\* is open at both ends or at neither, and one that CloseStream, a reset frame or
\* Close ended is not open again, for any number of streams and any limit on
\* them.  The identifiers both ends gave out are left out, as in the property.
THEOREM StreamsAreSound == CnSpec => []StreamsSound
<1>1. CnInv => StreamsSound
  <2> SUFFICES ASSUME CnInv PROVE StreamsSound
    BY Zenon
  <2>1. ASSUME NEW e \in Side, NEW i \in StreamId \ cnTwice, i \in cnDone[e] PROVE cnTab[e][i] # "open"
    BY <2>1, Zenon DEF CnInv, CnPair, ClosedStays
  <2>2. ASSUME Quiet, NEW e \in Side, NEW i \in StreamId \ cnTwice, cnTab[e][i] = "open"
        PROVE  cnTab[OtherSide(e)][i] = "open"
    <3>1. PICK o \in Side : o = OtherSide(e)
      BY TwoSides, Zenon
    <3>2. Wired[e] = {} /\ Wired[o] = {}
      BY <2>2 DEF Quiet, Wired
    <3>3. cnRun[e] = "up" /\ cnRun[o] = "up" /\ cnClosing[o] = {}
      BY <2>2, Zenon DEF Quiet
    <3>4. OpenAtBoth(e, o)
      BY <3>1, Zenon DEF CnInv, CnPair
    <3> QED
      BY <2>2, <3>1, <3>2, <3>3, <3>4, Zenon DEF OpenAtBoth
  <2> QED
    BY <2>1, <2>2, Zenon DEF StreamsSound, StreamsAgree, NotReopened
<1> QED
  BY <1>1, CnInitInv, CnStep, PTL DEF CnSpec
=============================================================================
