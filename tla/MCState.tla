------------------------------ MODULE MCState ------------------------------
(***************************************************************************)
(* The ring buffer and the replicated state of the brokers.  They share no *)
(* state: a behaviour is one of either, and active says of which.          *)
(***************************************************************************)
EXTENDS MCRingBuffer, Replication

VARIABLE active

\* Broker 1 leads, broker 2 follows it.
MCFollows == {<<2, 1>>}

MCInit == /\ active \in {"buffer", "replication"}
          /\ Init /\ RpInit

MCNext == \/ active = "buffer" /\ Next /\ UNCHANGED <<active, rpVars>>
          \/ active = "replication" /\ RpNext /\ UNCHANGED <<active, vars>>

MCSpec == MCInit /\ [][MCNext]_<<active, vars, rpVars>>

\* The type invariants of the components.
StateTypeOK == TypeOK /\ RpTypeOK
=============================================================================
