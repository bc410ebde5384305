---------------------------- MODULE ByteQueue ----------------------------
(* What a ring buffer promises its callers: a queue of bytes that keeps the *)
(* newest Size bytes.  Every call takes effect at once and returns n, the   *)
(* error err and, in the slice it was given, the bytes out.                 *)
EXTENDS Integers, Sequences

CONSTANTS Byte, Size, Chunks, Lens

VARIABLES queue, closed, n, err, out

aVars == <<queue, closed, n, err, out>>

\* The newest Size bytes of s.
Newest(s) == IF Len(s) <= Size THEN s ELSE SubSeq(s, Len(s) - Size + 1, Len(s))

\* How many bytes of s fit into a slice of the given length.
Share(s, len) == IF len <= Len(s) THEN len ELSE Len(s)

AbsInit ==
    /\ queue = <<>> /\ closed = FALSE
    /\ n = 0 /\ err = "nil" /\ out = <<>>

AbsWrite(data) ==
    /\ queue' = IF closed THEN queue ELSE Newest(queue \o data)
    /\ n' = IF closed THEN 0 ELSE Len(data)
    /\ err' = IF closed THEN "closed" ELSE "nil"
    /\ out' = <<>>
    /\ UNCHANGED closed

AbsRead(len) ==
    /\ n' = Share(queue, len)
    /\ out' = SubSeq(queue, 1, Share(queue, len))
    /\ queue' = SubSeq(queue, Share(queue, len) + 1, Len(queue))
    /\ err' = IF closed /\ queue = <<>> THEN "EOF" ELSE "nil"
    /\ UNCHANGED closed

AbsPeek(len) ==
    /\ n' = Share(queue, len)
    /\ out' = SubSeq(queue, 1, Share(queue, len))
    /\ err' = "nil"
    /\ UNCHANGED <<queue, closed>>

AbsClose ==
    /\ closed' = TRUE
    /\ UNCHANGED <<queue, n, err, out>>

AbsReset ==
    /\ queue' = <<>> /\ closed' = FALSE
    /\ UNCHANGED <<n, err, out>>

AbsNext ==
    \/ \E data \in Chunks : AbsWrite(data)
    \/ \E len \in Lens : AbsRead(len) \/ AbsPeek(len)
    \/ AbsClose \/ AbsReset

AbsSpec == AbsInit /\ [][AbsNext]_aVars
==========================================================================
