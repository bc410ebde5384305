---------------------------- MODULE RingBuffer ----------------------------
(* The circular buffer of GoTunnel/internal/multiplexer/ringbuffer.go.      *)
(* A call holds the mutex from its first step to its last, so one call runs *)
(* at a time; each iteration of its loop is a step.                         *)
EXTENDS Integers, Sequences

CONSTANTS
    Byte,       \* byte values
    Zero,       \* the byte a new slice is filled with
    Size,       \* rb.size
    Chunks,     \* slices that callers write
    Lens        \* lengths of slices that callers read into

ASSUME RingBufferAssumption ==
    /\ Zero \in Byte
    /\ Size \in Nat \ {0}
    /\ Chunks \subseteq Seq(Byte)
    /\ Lens \subseteq Nat

VARIABLES
    buf, head, tail, count, closed,
    pc,         \* the call that holds the mutex
    rest,       \* what Write has yet to store
    room,       \* the places left in the slice of Read or Peek
    at,         \* the index head that is local to Peek
    n, err, out \* results of the latest call, growing while its loop runs

indices == <<head, tail, count>>

vars == <<buf, head, tail, count, closed, pc, rest, room, at, n, err, out>>

Slot == 0..(Size - 1)

TypeOK ==
    /\ buf \in [Slot -> Byte]
    /\ head \in Slot /\ tail \in Slot /\ at \in Slot
    /\ count \in 0..Size
    /\ closed \in BOOLEAN
    /\ pc \in {"idle", "write", "read", "peek"}
    /\ rest \in Seq(Byte) /\ out \in Seq(Byte)
    /\ room \in Nat /\ n \in Nat
    /\ err \in {"nil", "closed", "EOF"}

Init ==
    /\ buf = [i \in Slot |-> Zero]
    /\ head = 0 /\ tail = 0 /\ count = 0
    /\ closed = FALSE
    /\ pc = "idle" /\ rest = <<>> /\ room = 0 /\ at = 0
    /\ n = 0 /\ err = "nil" /\ out = <<>>

WriteBegin(data) ==
    /\ pc = "idle"
    /\ n' = 0 /\ out' = <<>>
    /\ err' = IF closed THEN "closed" ELSE "nil"
    /\ pc' = IF closed THEN "idle" ELSE "write"
    /\ rest' = IF closed THEN rest ELSE data
    /\ UNCHANGED <<buf, indices, closed, room, at>>

\* A full buffer loses its oldest byte.
WriteByte ==
    /\ pc = "write" /\ rest # <<>>
    /\ head' = IF count = Size THEN (head + 1) % Size ELSE head
    /\ count' = IF count = Size THEN count ELSE count + 1
    /\ buf' = [buf EXCEPT ![tail] = Head(rest)]
    /\ tail' = (tail + 1) % Size
    /\ rest' = Tail(rest)
    /\ n' = n + 1
    /\ UNCHANGED <<closed, pc, room, at, err, out>>

ReadBegin(len) ==
    /\ pc = "idle"
    /\ n' = 0 /\ out' = <<>>
    /\ err' = IF count = 0 /\ closed THEN "EOF" ELSE "nil"
    /\ pc' = IF count = 0 THEN "idle" ELSE "read"
    /\ room' = IF count = 0 THEN room ELSE len
    /\ UNCHANGED <<buf, indices, closed, rest, at>>

ReadByte ==
    /\ pc = "read" /\ room > 0 /\ count > 0
    /\ out' = Append(out, buf[head])
    /\ head' = (head + 1) % Size
    /\ count' = count - 1
    /\ n' = n + 1
    /\ room' = room - 1
    /\ UNCHANGED <<buf, tail, closed, pc, rest, at, err>>

\* Mutant: Peek starts at the first slot instead of the oldest byte.
PeekBeginAtZero(len) ==
    /\ pc = "idle"
    /\ n' = 0 /\ out' = <<>> /\ err' = "nil"
    /\ pc' = IF count = 0 THEN "idle" ELSE "peek"
    /\ room' = IF count = 0 THEN room ELSE len
    /\ at' = 0
    /\ UNCHANGED <<buf, indices, closed, rest>>

\* Peek never reports the end of a closed buffer.
PeekBegin(len) ==
    /\ pc = "idle"
    /\ n' = 0 /\ out' = <<>> /\ err' = "nil"
    /\ pc' = IF count = 0 THEN "idle" ELSE "peek"
    /\ room' = IF count = 0 THEN room ELSE len
    /\ at' = IF count = 0 THEN at ELSE head
    /\ UNCHANGED <<buf, indices, closed, rest>>

PeekByte ==
    /\ pc = "peek" /\ room > 0 /\ n < count
    /\ out' = Append(out, buf[at])
    /\ at' = (at + 1) % Size
    /\ n' = n + 1
    /\ room' = room - 1
    /\ UNCHANGED <<buf, indices, closed, pc, rest, err>>

\* The loop of the call ends and the deferred unlock runs.
WriteEnd == pc = "write" /\ rest = <<>>
ReadEnd == pc = "read" /\ (room = 0 \/ count = 0)
PeekEnd == pc = "peek" /\ (room = 0 \/ n >= count)

Unlock ==
    /\ WriteEnd \/ ReadEnd \/ PeekEnd
    /\ pc' = "idle" /\ rest' = <<>> /\ room' = 0 /\ at' = 0
    /\ UNCHANGED <<buf, indices, closed, n, err, out>>

Close ==
    /\ pc = "idle"
    /\ closed' = TRUE
    /\ UNCHANGED <<buf, indices, pc, rest, room, at, n, err, out>>

Reset ==
    /\ pc = "idle"
    /\ head' = 0 /\ tail' = 0 /\ count' = 0
    /\ closed' = FALSE
    /\ UNCHANGED <<buf, pc, rest, room, at, n, err, out>>

Next ==
    \/ \E data \in Chunks : WriteBegin(data)
    \/ \E len \in Lens : ReadBegin(len) \/ PeekBegin(len)
    \/ WriteByte \/ ReadByte \/ PeekByte \/ Unlock
    \/ Close \/ Reset

Spec == Init /\ [][Next]_vars

---------------------------------------------------------------------------
\* The unread bytes, oldest first.
Content == [i \in 1..count |-> buf[(head + i - 1) % Size]]

\* The bytes that the running Read or Peek has yet to copy.
Share(s, len) == IF len <= Len(s) THEN len ELSE Len(s)
Source == IF pc = "peek" THEN SubSeq(Content, n + 1, count) ELSE Content
ToCopy == IF pc \in {"read", "peek"} THEN Share(Source, room) ELSE 0

\* A call takes effect on the queue when it acquires the mutex: bytes still to
\* be written count as written, bytes still to be read as gone and returned.
Newest(s) == IF Len(s) <= Size THEN s ELSE SubSeq(s, Len(s) - Size + 1, Len(s))
AbsQueue ==
    CASE pc = "write" -> Newest(Content \o rest)
      [] pc = "read"  -> SubSeq(Content, ToCopy + 1, count)
      [] OTHER        -> Content

AbsN == IF pc = "write" THEN n + Len(rest) ELSE n + ToCopy

AbsOut == out \o SubSeq(Source, 1, ToCopy)

Queue == INSTANCE ByteQueue WITH queue <- AbsQueue, n <- AbsN, out <- AbsOut

\* Write, Read, Peek, Close and Reset behave like a first-in first-out queue of
\* the newest Size bytes, whatever the position of the two indices and however
\* often a write laps the buffer (the modulo arithmetic of ringbuffer.go).
QueueSpec == Queue!AbsSpec

\* The three redundant fields agree: the next byte is written count places
\* after the oldest one.  Write keeps this when it drops a byte of a full
\* buffer, Read when it empties the buffer.
IndicesAgree == tail = (head + count) % Size
==========================================================================
