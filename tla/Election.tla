----------------------------- MODULE Election -----------------------------
(***************************************************************************)
(* The node tables, heartbeats and leader election of the replicators of a *)
(* broker cluster (src/GoTunnel/internal/state/replication.go).            *)
(*                                                                         *)
(* Every replicator keeps a table of the nodes it knows, under its mutex,  *)
(* and a leaderID.  Each method that takes the mutex is one step.  A       *)
(* heartbeat is copied under the mutex and posted after it is released, so *)
(* it is on the wire as a message of its own, to be applied late, or lost; *)
(* the worker that posts it waits for the end of its posts.                *)
(* An election is asked for in one step (the ticker's unlocked read of     *)
(* leaderID, or "go r.triggerElection()") and held in another.             *)
(*                                                                         *)
(* Time is one bit per table entry: whether the last heartbeat is older    *)
(* than ElectionTimeout.  Node identifiers are numbers, which are ordered  *)
(* as the code orders its strings.                                         *)
(***************************************************************************)
EXTENDS Naturals, FiniteSets, FiniteSetsExt

CONSTANTS Node,         \* the brokers of the cluster
          NoLeader,     \* the empty leaderID
          Removable,    \* nodes that RemoveNode is called for
          MaxElect,     \* bound on elections asked for and not yet held
          MaxCrash,     \* bound on crashes
          MaxRestart    \* bound on restarts

ASSUME ElAssumption == /\ Node \subseteq Nat
                       /\ NoLeader \notin Node
                       /\ Removable \subseteq Node
                       /\ MaxElect \in Nat \ {0}
                       /\ MaxCrash \in Nat
                       /\ MaxRestart \in Nat

VARIABLES elUp,         \* the brokers that run
          elNodes,      \* elNodes[n][m]: what n's table says of m
          elLeader,     \* elLeader[n]: leaderID of n
          elElect,      \* elElect[n]: elections asked for at n
          elWire,       \* heartbeats posted and not yet applied
          elDown,       \* crashes so far
          elBack        \* restarts so far

elVars == <<elUp, elNodes, elLeader, elElect, elWire, elDown, elBack>>

Status == {"absent", "active", "standby", "syncing", "failed"}

Heartbeat == [from : Node, to : Node, isLeader : BOOLEAN]

ElTypeOK ==
    /\ elUp \subseteq Node
    /\ elNodes \in [Node -> [Node -> [status : Status, isLeader : BOOLEAN, late : BOOLEAN]]]
    /\ elLeader \in [Node -> Node \cup {NoLeader}]
    /\ elElect \in [Node -> 0..MaxElect]
    /\ elWire \subseteq Heartbeat
    /\ elDown \in 0..MaxCrash
    /\ elBack \in 0..MaxRestart

-----------------------------------------------------------------------------
\* NewReplicator: itself active, the configured peers syncing.
NewTable(n) ==
    [m \in Node |-> [status |-> IF m = n THEN "active" ELSE "syncing",
                     isLeader |-> FALSE, late |-> FALSE]]

\* Start: leaderElectionWorker holds an election before its first tick.  Some
\* brokers run, ElRestart starts the others.
ElInit ==
    /\ elUp \in SUBSET Node
    /\ elNodes = [n \in Node |-> NewTable(n)]
    /\ elLeader = [n \in Node |-> NoLeader]
    /\ elElect = [n \in Node |-> 1]
    /\ elWire = {}
    /\ elDown = 0
    /\ elBack = 0

\* heartbeatWorker is not in the middle of its posts.
Posted(n) == \A h \in elWire : h.from # n

\* sendHeartbeat and BroadcastHeartbeat: the table's own entry is brought up
\* to date and a copy of it goes to every peer.
SendHeartbeat(n) ==
    LET claim == elLeader[n] = n
    IN  /\ n \in elUp
        /\ Posted(n)
        /\ elNodes' = [elNodes EXCEPT ![n][n].isLeader = claim]
        /\ elWire' = elWire \cup {[from |-> n, to |-> m, isLeader |-> claim] : m \in Node \ {n}}
        /\ UNCHANGED <<elUp, elLeader, elElect, elDown, elBack>>

\* ApplyHeartbeat: the sender is active, known if it was not, and whoever
\* claims to lead is taken to lead.
ApplyHeartbeat(h) ==
    /\ elNodes' = [elNodes EXCEPT ![h.to][h.from] =
                     [status |-> "active", isLeader |-> h.isLeader, late |-> FALSE]]
    /\ elLeader' = [elLeader EXCEPT ![h.to] = IF h.isLeader THEN h.from ELSE @]

\* handlePeerHeartbeat at the broker that the heartbeat was posted to.
HandlePeerHeartbeat(h) ==
    /\ h.to \in elUp
    /\ elWire' = elWire \ {h}
    /\ ApplyHeartbeat(h)
    /\ UNCHANGED <<elUp, elElect, elDown, elBack>>

\* A post that fails: its error is dropped.
LoseHeartbeat(h) ==
    /\ elWire' = elWire \ {h}
    /\ UNCHANGED <<elUp, elNodes, elLeader, elElect, elDown, elBack>>

\* Time passes: n has not heard of m for ElectionTimeout.
HeartbeatLate(n, m) ==
    /\ n \in elUp
    /\ m # n
    /\ elNodes[n][m].status # "absent"
    /\ ~elNodes[n][m].late
    /\ elNodes' = [elNodes EXCEPT ![n][m].late = TRUE]
    /\ UNCHANGED <<elUp, elLeader, elElect, elWire, elDown, elBack>>

Overdue(n) == {m \in Node \ {n} : elNodes[n][m].status # "absent" /\ elNodes[n][m].late}

\* checkNodeHealth, after the posts of the tick: who is overdue has failed; if
\* its entry says it leads, there is no leader any more and an election is
\* started.
CheckNodeHealth(n) ==
    LET leads == \E m \in Overdue(n) : elNodes[n][m].isLeader
    IN  /\ n \in elUp
        /\ Posted(n)
        /\ Overdue(n) # {}
        /\ leads => elElect[n] < MaxElect
        /\ elNodes' = [elNodes EXCEPT ![n] =
                         [m \in Node |-> IF m \in Overdue(n) THEN [@[m] EXCEPT !.status = "failed"] ELSE @[m]]]
        /\ elLeader' = [elLeader EXCEPT ![n] = IF leads THEN NoLeader ELSE @]
        /\ elElect' = [elElect EXCEPT ![n] = IF leads THEN @ + 1 ELSE @]
        /\ UNCHANGED <<elUp, elWire, elDown, elBack>>

\* The tick asks only when there is a leader.
ElectionTickInverted(n) ==
    /\ n \in elUp
    /\ elLeader[n] # NoLeader
    /\ elElect[n] < MaxElect
    /\ elElect' = [elElect EXCEPT ![n] = @ + 1]
    /\ UNCHANGED <<elUp, elNodes, elLeader, elWire, elDown, elBack>>

\* leaderElectionWorker: the tick reads leaderID without the mutex.
ElectionTick(n) ==
    /\ n \in elUp
    /\ elLeader[n] = NoLeader
    /\ elElect[n] < MaxElect
    /\ elElect' = [elElect EXCEPT ![n] = @ + 1]
    /\ UNCHANGED <<elUp, elNodes, elLeader, elWire, elDown, elBack>>

Candidates(n) == {m \in Node : elNodes[n][m].status = "active"}

Elected(n, m, winner) ==
    IF elNodes[n][m].status = "absent" THEN elNodes[n][m]
    ELSE [elNodes[n][m] EXCEPT !.isLeader = (m = winner),
                               !.status = IF m = winner THEN "active" ELSE "standby"]

\* triggerElection: the lowest active node wins.  When that changes the leader
\* every other node of the table, this one included, becomes standby.
TriggerElection(n) ==
    /\ n \in elUp
    /\ elElect[n] > 0
    /\ elElect' = [elElect EXCEPT ![n] = @ - 1]
    /\ IF Candidates(n) = {} \/ elLeader[n] = Min(Candidates(n))
       THEN UNCHANGED <<elNodes, elLeader>>
       ELSE LET winner == Min(Candidates(n))
            IN  /\ elLeader' = [elLeader EXCEPT ![n] = winner]
                /\ elNodes' = [elNodes EXCEPT ![n] = [m \in Node |-> Elected(n, m, winner)]]
    /\ UNCHANGED <<elUp, elWire, elDown, elBack>>

\* RegisterNode: a node that is not in the table yet.
RegisterNode(n, m) ==
    /\ n \in elUp
    /\ elNodes[n][m].status = "absent"
    /\ elNodes' = [elNodes EXCEPT ![n][m] = [status |-> "syncing", isLeader |-> FALSE, late |-> FALSE]]
    /\ UNCHANGED <<elUp, elLeader, elElect, elWire, elDown, elBack>>

RemoveNodeKeepsLeader(n, m) ==
    /\ n \in elUp
    /\ m \in Removable \ {n}
    /\ elNodes[n][m].status # "absent"
    /\ elNodes' = [elNodes EXCEPT ![n][m] = [status |-> "absent", isLeader |-> FALSE, late |-> FALSE]]
    /\ UNCHANGED <<elUp, elLeader, elElect, elWire, elDown, elBack>>

\* RemoveNode, for a peer.
RemoveNode(n, m) ==
    /\ n \in elUp
    /\ m \in Removable \ {n}
    /\ elNodes[n][m].status # "absent"
    /\ elNodes' = [elNodes EXCEPT ![n][m] = [status |-> "absent", isLeader |-> FALSE, late |-> FALSE]]
    /\ elLeader' = [elLeader EXCEPT ![n] = IF @ = m THEN NoLeader ELSE @]
    /\ UNCHANGED <<elUp, elElect, elWire, elDown, elBack>>

\* The broker's process dies; what it posted stays on the wire.
ElCrash(n) ==
    /\ n \in elUp
    /\ elDown < MaxCrash
    /\ elDown' = elDown + 1
    /\ elUp' = elUp \ {n}
    /\ UNCHANGED <<elNodes, elLeader, elElect, elWire, elBack>>

\* New and Start again: nothing of the table survives.
ElRestart(n) ==
    /\ n \notin elUp
    /\ elBack < MaxRestart
    /\ elBack' = elBack + 1
    /\ elUp' = elUp \cup {n}
    /\ elNodes' = [elNodes EXCEPT ![n] = NewTable(n)]
    /\ elLeader' = [elLeader EXCEPT ![n] = NoLeader]
    /\ elElect' = [elElect EXCEPT ![n] = 1]
    /\ UNCHANGED <<elWire, elDown>>

ElNext ==
    \/ \E n \in Node : \/ SendHeartbeat(n)
                       \/ CheckNodeHealth(n)
                       \/ ElectionTick(n)
                       \/ TriggerElection(n)
                       \/ ElCrash(n)
                       \/ ElRestart(n)
    \/ \E n, m \in Node : \/ HeartbeatLate(n, m)
                          \/ RegisterNode(n, m)
                          \/ RemoveNode(n, m)
    \/ \E h \in elWire : HandlePeerHeartbeat(h) \/ LoseHeartbeat(h)

ElSpec == ElInit /\ [][ElNext]_elVars

\* The ticker of leaderElectionWorker keeps ticking, and an election that was
\* asked for is held.
ElFairness == \A n \in Node : WF_elVars(ElectionTick(n)) /\ WF_elVars(TriggerElection(n))

ElFairSpec == ElSpec /\ ElFairness

-----------------------------------------------------------------------------
\* The leader a broker names is in its table: heartbeats add whom they name,
\* elections choose from the table, and RemoveNode takes back the leadership of
\* the node it removes (replication.go:545-561, 409-453, 602-611).
LeaderListed ==
    \A n \in Node : elLeader[n] # NoLeader => elNodes[n][elLeader[n]].status # "absent"

\* A broker without a leader finds one as long as its table has an active node,
\* whatever heartbeats are lost and whoever is found dead or removed meanwhile
\* (leaderElectionWorker's tick, replication.go:402).
LeaderFound ==
    \A n \in Node : (n \in elUp /\ elLeader[n] = NoLeader)
                       ~> (n \notin elUp \/ elLeader[n] # NoLeader \/ Candidates(n) = {})

\* The types, and a table that has the leader it names.
ElInv == ElTypeOK /\ LeaderListed
=============================================================================
