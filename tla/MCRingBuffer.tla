--------------------------- MODULE MCRingBuffer ---------------------------
(* Instances of RingBuffer for TLC. *)
EXTENDS RingBuffer, SequencesExt

\* Slices from empty to longer than the buffer.
MCChunks == BoundedSeq(Byte, Size + 1)

MCLens == 0..(Size + 1)
==========================================================================
