--------------------------- MODULE MCMuxStream ---------------------------
(* Instances of MuxStream for TLC: a client and a server endpoint. *)
EXTENDS MuxStream
==========================================================================
