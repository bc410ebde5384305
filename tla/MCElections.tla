---------------------------- MODULE MCElections ----------------------------
(***************************************************************************)
(* A stream of the multiplexer and the elections of the brokers, with the  *)
(* fairness of each.  They share no state: a behaviour is one of either,   *)
(* and active says of which.                                               *)
(***************************************************************************)
EXTENDS MCMuxStream, Election

VARIABLE active

MCInit == /\ active \in {"stream", "election"}
          /\ Init /\ ElInit
          /\ active = "election" <=> elUp # {}

MCNext == \/ active = "stream" /\ Next /\ UNCHANGED <<active, elVars>>
          \/ active = "election" /\ ElNext /\ UNCHANGED <<active, vars>>

\* The fairness of FairSpec for the stream and of ElFairSpec for the brokers.
MCFairness ==
    /\ \A e \in End :
          /\ SF_vars(active = "stream" /\ Flush(e))
          /\ SF_vars(active = "stream" /\ ReadLoop(e))
          /\ SF_vars(active = "stream" /\ WriteLoop(e))
          /\ WF_vars(active = "stream" /\ Read(e))
    /\ \A n \in Node :
          /\ WF_elVars(active = "election" /\ ElectionTick(n))
          /\ WF_elVars(active = "election" /\ TriggerElection(n))

MCFairSpec == MCInit /\ [][MCNext]_<<active, vars, elVars>> /\ MCFairness
=============================================================================
