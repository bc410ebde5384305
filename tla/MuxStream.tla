---------------------------- MODULE MuxStream ----------------------------
(* One open stream of GoTunnel/internal/multiplexer between its two ends:    *)
(* sequence numbers, the three delivery modes, ACK and NACK frames and the   *)
(* flow-control window.  A payload is one unit of the window and is known    *)
(* by its sequence number.  The read buffer is the queue that RingBuffer     *)
(* implements.  A frame is written to the connection as a whole.             *)
EXTENDS Integers, Sequences

CONSTANTS
    End,        \* the two ends
    Writers,    \* ends whose application writes
    Mode,       \* c.deliveryMode
    Window,     \* c.windowSize
    Modulus,    \* number of uint32 values
    Capacity,   \* frames the connection holds before conn.Write blocks
    MaxSeq,     \* bound on the frames an end writes
    Losable,    \* types of the frames the connection may lose
    MaxLoss     \* bound on the frames lost

Modes == {"at_most_once", "at_least_once", "exactly_once"}
FrameTypes == {"data", "ack", "nack", "window"}

ASSUME MuxStreamAssumption ==
    /\ \E a, b \in End : a # b /\ End = {a, b}
    /\ Writers \subseteq End
    /\ Mode \in Modes
    /\ Window \in Nat \ {0} /\ Modulus \in Nat /\ Window < Modulus
    /\ Capacity \in Nat \ {0} /\ MaxSeq \in Nat /\ MaxLoss \in Nat
    /\ Losable \subseteq FrameTypes

Peer(e) == CHOOSE x \in End : x # e

VARIABLES
    net,        \* net[e]: the frames on their way to e, oldest first
    seq,        \* SequenceNum of the writing half
    sent,       \* keys of SentFrames
    used,       \* UsedWindow
    win,        \* WindowSize
    ack,        \* AckNum of the reading half; Delivered holds 1..AckNum
    pending,    \* keys of Pending
    rbuf,       \* contents of ReadBuffer
    held,       \* the frame that the holder of stream.mu is writing, if any
    resend,     \* frames that handleNackFrame has yet to write
    tick,       \* what sendWindowUpdates read under the lock, or NoTick
    app,        \* history: payloads the application has read
    called,     \* history: payloads passed to onData
    lost        \* history: number of frames lost

NoTick == -1

sending == <<seq, sent, used, win>>
receiving == <<ack, pending, rbuf, called>>
vars == <<net, seq, sent, used, win, ack, pending, rbuf, held, resend, tick, app, called, lost>>

\* A data frame carries its sequence number, the others a number as payload.
Frames == [type : {"data"}, num : 1..MaxSeq] \cup [type : {"ack", "nack", "window"}, num : Nat]
Frame(type, num) == [type |-> type, num |-> num]

TypeOK ==
    /\ net \in [End -> Seq(Frames)]
    /\ seq \in [End -> 0..MaxSeq]
    /\ sent \in [End -> SUBSET (1..MaxSeq)]
    /\ used \in [End -> 0..(Modulus - 1)] /\ win \in [End -> 0..(Modulus - 1)]
    /\ ack \in [End -> 0..MaxSeq]
    /\ pending \in [End -> SUBSET (1..MaxSeq)]
    /\ rbuf \in [End -> Seq(1..MaxSeq)]
    /\ \A e \in End : Len(rbuf[e]) <= Window
    /\ held \in [End -> Seq(Frames)]
    /\ \A e \in End : Len(held[e]) <= 1
    /\ resend \in [End -> SUBSET (1..MaxSeq)]
    /\ tick \in [End -> {NoTick} \cup 0..(Modulus - 1)]
    /\ app \in [End -> Seq(1..MaxSeq)] /\ called \in [End -> Seq(1..MaxSeq)]
    /\ lost \in 0..MaxLoss

Init ==
    /\ net = [e \in End |-> <<>>]
    /\ seq = [e \in End |-> 0] /\ sent = [e \in End |-> {}]
    /\ used = [e \in End |-> 0] /\ win = [e \in End |-> Window]
    /\ ack = [e \in End |-> 0] /\ pending = [e \in End |-> {}]
    /\ rbuf = [e \in End |-> <<>>] /\ held = [e \in End |-> <<>>]
    /\ resend = [e \in End |-> {}] /\ tick = [e \in End |-> NoTick]
    /\ app = [e \in End |-> <<>>] /\ called = [e \in End |-> <<>>]
    /\ lost = 0

---------------------------------------------------------------------------
(* conn.Write blocks while the connection is full.  Write and the handlers of
   data frames hold stream.mu while they write their frame. *)

Put(e, f) ==
    /\ Len(net[Peer(e)]) < Capacity
    /\ net' = [net EXCEPT ![Peer(e)] = Append(net[Peer(e)], f)]

Unlocked(e) == held[e] = <<>>

\* The end of writeFrame under stream.mu, and the unlock.
Flush(e) ==
    /\ ~Unlocked(e)
    /\ Put(e, Head(held[e]))
    /\ held' = [held EXCEPT ![e] = <<>>]
    /\ UNCHANGED <<sending, receiving, resend, tick, app, lost>>

---------------------------------------------------------------------------
(* The application. *)

\* Write: refused when the window is used up, else numbered, kept and sent.
Write(e) ==
    /\ e \in Writers /\ seq[e] < MaxSeq /\ Unlocked(e)
    /\ (used[e] + 1) % Modulus <= win[e]
    /\ used' = [used EXCEPT ![e] = (used[e] + 1) % Modulus]
    /\ seq' = [seq EXCEPT ![e] = seq[e] + 1]
    /\ sent' = [sent EXCEPT ![e] = sent[e] \cup {seq[e] + 1}]
    /\ held' = [held EXCEPT ![e] = <<Frame("data", seq[e] + 1)>>]
    /\ UNCHANGED <<net, win, receiving, resend, tick, app, lost>>

\* Read: takes a payload from the read buffer, which has a lock of its own.
Read(e) ==
    /\ rbuf[e] # <<>>
    /\ app' = [app EXCEPT ![e] = Append(app[e], Head(rbuf[e]))]
    /\ rbuf' = [rbuf EXCEPT ![e] = Tail(rbuf[e])]
    /\ UNCHANGED <<net, sending, ack, pending, called, held, resend, tick, lost>>

---------------------------------------------------------------------------
(* The read loop handles one frame at a time; every handler locks stream.mu. *)

Arrives(e, type) ==
    /\ Unlocked(e) /\ resend[e] = {}
    /\ net[e] # <<>> /\ Head(net[e]).type = type
    /\ net' = [net EXCEPT ![e] = Tail(net[e])]

Newest(s) == IF Len(s) <= Window THEN s ELSE SubSeq(s, Len(s) - Window + 1, Len(s))

\* Mutant of Arrived: no test against a payload larger than the used window.
ArrivedUnderflows(e, p) ==
    /\ used' = [used EXCEPT ![e] = used[e] - 1]
    /\ called' = [called EXCEPT ![e] = Append(called[e], p)]

\* The end of handleDataFrame: the window of the receiver's own writes shrinks
\* and the callback gets the payload of the frame that arrived.
Arrived(e, p) ==
    /\ used' = [used EXCEPT ![e] = IF used[e] <= 1 THEN 0 ELSE used[e] - 1]
    /\ called' = [called EXCEPT ![e] = Append(called[e], p)]

\* Mutant of DataUnordered: a payload that does not fit is dropped, yet acknowledged.
DataUnorderedDrops(e) ==
    LET p == Head(net[e]).num IN
    /\ Mode # "exactly_once" /\ Arrives(e, "data")
    /\ held' = [held EXCEPT ![e] = <<Frame("ack", p)>>]
    /\ IF Len(rbuf[e]) < Window
       THEN rbuf' = [rbuf EXCEPT ![e] = Append(rbuf[e], p)] /\ Arrived(e, p)
       ELSE UNCHANGED <<rbuf, used, called>>
    /\ UNCHANGED <<seq, sent, win, ack, pending, resend, tick, app, lost>>

\* handleDataFrame without sequencing: write to the buffer, acknowledge the
\* frame when the mode is at_least_once.
DataUnordered(e) ==
    LET p == Head(net[e]).num IN
    /\ Mode \in {"at_most_once", "at_least_once"} /\ Arrives(e, "data")
    /\ rbuf' = [rbuf EXCEPT ![e] = Newest(Append(rbuf[e], p))]
    /\ held' = [held EXCEPT ![e] =
                   IF Mode = "at_least_once" THEN <<Frame("ack", p)>> ELSE <<>>]
    /\ Arrived(e, p)
    /\ UNCHANGED <<seq, sent, win, ack, pending, resend, tick, app, lost>>

\* Mutant of DataSeen: Delivered is not consulted before the buffer is written.
DataSeenWrites(e) ==
    LET p == Head(net[e]).num IN
    /\ Mode = "exactly_once" /\ Arrives(e, "data")
    /\ p <= ack[e]
    /\ rbuf' = [rbuf EXCEPT ![e] = Newest(Append(rbuf[e], p))]
    /\ held' = [held EXCEPT ![e] = <<Frame("ack", p)>>]
    /\ UNCHANGED <<sending, ack, pending, called, resend, tick, app, lost>>

\* exactly_once: a frame delivered before is acknowledged again.
DataSeen(e) ==
    LET p == Head(net[e]).num IN
    /\ Mode = "exactly_once" /\ Arrives(e, "data")
    /\ p <= ack[e]
    /\ held' = [held EXCEPT ![e] = <<Frame("ack", p)>>]
    /\ UNCHANGED <<sending, receiving, resend, tick, app, lost>>

\* Mutant of DataGap: what is kept is acknowledged.
DataGapAcks(e) ==
    LET p == Head(net[e]).num IN
    /\ Mode = "exactly_once" /\ Arrives(e, "data")
    /\ p > ack[e] + 1
    /\ pending' = [pending EXCEPT ![e] = pending[e] \cup {p}]
    /\ held' = [held EXCEPT ![e] = <<Frame("ack", p)>>]
    /\ UNCHANGED <<sending, ack, rbuf, called, resend, tick, app, lost>>

\* exactly_once: a frame after a gap is kept and the gap is reported.
DataGap(e) ==
    LET p == Head(net[e]).num IN
    /\ Mode = "exactly_once" /\ Arrives(e, "data")
    /\ p > ack[e] + 1
    /\ pending' = [pending EXCEPT ![e] = pending[e] \cup {p}]
    /\ held' = [held EXCEPT ![e] = <<Frame("nack", ack[e] + 1)>>]
    /\ UNCHANGED <<sending, ack, rbuf, called, resend, tick, app, lost>>

\* exactly_once: the next frame is delivered with the kept ones that follow it
\* without a gap, up to number last.
DataNext(e, last) ==
    LET p == Head(net[e]).num IN
    /\ Mode = "exactly_once" /\ Arrives(e, "data")
    /\ p = ack[e] + 1 /\ last >= p
    /\ (p + 1)..last \subseteq pending[e] /\ last + 1 \notin pending[e]
    /\ rbuf' = [rbuf EXCEPT ![e] =
                   Newest(rbuf[e] \o [i \in 1..(last - ack[e]) |-> ack[e] + i])]
    /\ pending' = [pending EXCEPT ![e] = pending[e] \ (p..last)]
    /\ ack' = [ack EXCEPT ![e] = last]
    /\ held' = [held EXCEPT ![e] = <<Frame("ack", last)>>]
    /\ Arrived(e, p)
    /\ UNCHANGED <<seq, sent, win, resend, tick, app, lost>>

\* handleAckFrame: every frame up to the number is forgotten.
AckFrame(e) ==
    LET n == Head(net[e]).num IN
    /\ Arrives(e, "ack")
    /\ sent' = [sent EXCEPT ![e] = {s \in sent[e] : s > n}]
    /\ UNCHANGED <<seq, used, win, receiving, held, resend, tick, app, lost>>

\* Mutant of NackFrame: the requested frame itself is left out.
NackFrameSkips(e) ==
    LET n == Head(net[e]).num IN
    /\ Arrives(e, "nack")
    /\ resend' = [resend EXCEPT ![e] = {s \in sent[e] : s > n}]
    /\ UNCHANGED <<sending, receiving, held, tick, app, lost>>

\* handleNackFrame: the frames from the number on are written one by one after
\* the unlock, in order; the read loop handles nothing else meanwhile.
NackFrame(e) ==
    LET n == Head(net[e]).num IN
    /\ Arrives(e, "nack")
    /\ resend' = [resend EXCEPT ![e] = {s \in sent[e] : s >= n}]
    /\ UNCHANGED <<sending, receiving, held, tick, app, lost>>

Resend(e) ==
    \E s \in resend[e] :
        /\ \A r \in resend[e] : s <= r
        /\ Put(e, Frame("data", s))
        /\ resend' = [resend EXCEPT ![e] = resend[e] \ {s}]
        /\ UNCHANGED <<sending, receiving, held, tick, app, lost>>

\* handleWindowUpdateFrame.
WindowFrame(e) ==
    LET n == Head(net[e]).num IN
    /\ Arrives(e, "window")
    /\ win' = [win EXCEPT ![e] = (win[e] + n) % Modulus]
    /\ UNCHANGED <<seq, sent, used, receiving, held, resend, tick, app, lost>>

---------------------------------------------------------------------------
(* The write loop.  sendWindowUpdates reads the free part of the window under
   the stream's lock and compares and subtracts it after the unlock. *)
TickRead(e) ==
    /\ tick[e] = NoTick /\ Unlocked(e)
    /\ tick' = [tick EXCEPT ![e] = (win[e] - used[e]) % Modulus]
    /\ UNCHANGED <<net, sending, receiving, held, resend, app, lost>>

TickSend(e) ==
    /\ tick[e] # NoTick
    /\ \/ tick[e] >= win[e] \div 2 /\ UNCHANGED net
       \/ /\ tick[e] < win[e] \div 2
          /\ Put(e, Frame("window", (win[e] - tick[e]) % Modulus))
    /\ tick' = [tick EXCEPT ![e] = NoTick]
    /\ UNCHANGED <<sending, receiving, held, resend, app, lost>>

---------------------------------------------------------------------------
\* The connection loses a frame.
Lose(e) ==
    /\ lost < MaxLoss /\ net[e] # <<>> /\ Head(net[e]).type \in Losable
    /\ net' = [net EXCEPT ![e] = Tail(net[e])]
    /\ lost' = lost + 1
    /\ UNCHANGED <<sending, receiving, held, resend, tick, app>>

ReadLoop(e) ==
    \/ DataUnordered(e) \/ DataSeen(e) \/ DataGap(e)
    \/ \E last \in 1..MaxSeq : DataNext(e, last)
    \/ AckFrame(e) \/ NackFrame(e) \/ Resend(e) \/ WindowFrame(e)

WriteLoop(e) == TickRead(e) \/ TickSend(e)

Next == \E e \in End :
    Write(e) \/ Read(e) \/ Flush(e) \/ ReadLoop(e) \/ WriteLoop(e) \/ Lose(e)

Spec == Init /\ [][Next]_vars

\* Go's mutexes and the connection serve those who wait in turn, so a goroutine
\* that waits for the lock or for room is not starved by the others.
FairSpec ==
    /\ Spec
    /\ \A e \in End : /\ SF_vars(Flush(e)) /\ SF_vars(ReadLoop(e))
                      /\ SF_vars(WriteLoop(e)) /\ WF_vars(Read(e))

---------------------------------------------------------------------------
Increasing(s) == \A i, j \in DOMAIN s : i < j => s[i] < s[j]

\* What the application has read, followed by what waits for it, is in the order
\* of writing and repeats nothing, whatever the connection loses and the sender
\* sends again (Delivered, Pending and AckNum in handleDataFrame).
InOrderOnce == \A e \in End : Increasing(app[e] \o rbuf[e])

\* exactly_once: a written payload that has not reached the peer's buffer can
\* still be sent again: handleAckFrame forgets only what the peer delivered.
UndeliveredKept == \A e \in End : \A s \in 1..seq[e] : s > ack[Peer(e)] => s \in sent[e]

\* at_least_once: a written payload is kept for sending again until it has been
\* handed to the peer (the ACK of handleDataFrame, SentFrames).
InFlight(e, s) ==
    \/ \E i \in DOMAIN net[Peer(e)] : net[Peer(e)][i] = Frame("data", s)
    \/ held[e] = <<Frame("data", s)>>
UnhandedKept ==
    \A e \in End : \A s \in 1..seq[e] :
        \/ s \in sent[e] \/ InFlight(e, s)
        \/ \E i \in DOMAIN called[Peer(e)] : called[Peer(e)][i] = s

\* Without sequencing: flow control keeps a writer from overwriting what its
\* reader has not read.
NothingOverwritten == \A e \in End : Len(app[e]) + Len(rbuf[e]) = Len(called[e])

\* exactly_once: a gap that the receiver noticed is filled: the NACK makes the
\* sender repeat everything from the gap on.
GapRepaired == \A e \in End : pending[e] # {} ~> pending[e] = {}

\* Write and handleDataFrame return: neither keeps stream.mu for ever.
LockReleased == \A e \in End : held[e] # <<>> ~> held[e] = <<>>
==========================================================================
