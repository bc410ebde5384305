------------------------------ MODULE Broker ------------------------------
(***************************************************************************)
(* One broker, its relays and its clients: opening sessions, registering   *)
(* relays and their heartbeats (src/GoTunnel/internal/broker/server.go),   *)
(* the relays' registration loop (relay/phase3.go), the replicated state   *)
(* behind the broker and the optional Postgres store (broker/store.go).    *)
(*                                                                         *)
(* A handler changes the maps under the broker's mutex, releases it, saves *)
(* to Postgres and then calls replicator.Set, whose callback               *)
(* applyReplicatedStateChange writes the value captured before back into   *)
(* the maps.  Each of these is a step, so handlers overtake each other     *)
(* between them.  Set is one step here; the module Replication has its     *)
(* parts.  A relay may stop waiting for an answer; the handler goes on.    *)
(*                                                                         *)
(* LastHeartbeat is the number of the call that wrote it; brOld is the     *)
(* last number that is more than 45 seconds ago.                           *)
(***************************************************************************)
EXTENDS Naturals, FiniteSets

CONSTANTS Relay,        \* relay processes
          RelayId,      \* identifiers the broker can give a registration
          Region,
          RegionOf,     \* RegionOf[r]: the region of relay r
          Session,      \* calls of /v1/sessions/open, each with its lease
          Slot,         \* concurrent calls of the relay endpoints
          NoId,
          MaxBeat,      \* bound on calls of the relay endpoints
          MaxStop       \* bound on broker crashes

ASSUME BrAssumption == /\ RegionOf \in [Relay -> Region]
                       /\ NoId \notin RelayId \cup Relay \cup Slot
                       /\ IsFiniteSet(Session)
                       /\ MaxBeat \in Nat /\ MaxStop \in Nat

VARIABLES brUp,         \* the broker runs
          brFile,       \* a state directory is configured
          brPg,         \* Postgres is configured
          brLeases,     \* the map leases
          brRelays,     \* the map relays
          brEntries,    \* the entries of the replicator's store
          brDb,         \* the rows of Postgres
          brOpen,       \* brOpen[s]: the handler of session s
          brCall,       \* brCall[c]: a register or heartbeat handler
          brBeat, brOld,
          brStops,      \* crashes so far
          rlId,         \* rlId[r]: relayID of relay r
          rlWaits,      \* rlWaits[r]: the call relay r waits for
          brOwner       \* brOwner[i]: whose registration i was first

brVars == <<brUp, brFile, brPg, brLeases, brRelays, brEntries, brDb, brOpen, brCall,
            brBeat, brOld, brStops, rlId, rlWaits, brOwner>>

Reg == [region : Region, assigned : 0..Cardinality(Session), beat : 1..MaxBeat]
NoReg == [region |-> "none", assigned |-> 0, beat |-> 0]
NoRegs == [i \in RelayId |-> NoReg]
NoState == [leases |-> {}, relays |-> NoRegs]

Closed == [pc |-> "idle", relay |-> NoId]
Free == [pc |-> "idle"]

BrTypeOK ==
    /\ brLeases \subseteq Session
    /\ brRelays \in [RelayId -> Reg \cup {NoReg}]
    /\ brEntries \in [leases : SUBSET Session, relays : [RelayId -> Reg \cup {NoReg}]]
    /\ brDb \in [leases : SUBSET Session, relays : [RelayId -> Reg \cup {NoReg}]]
    /\ brOpen \in [Session -> [pc : {"idle", "lease", "save", "set", "done", "gone"}, relay : RelayId \cup {NoId}]]
    /\ \A c \in Slot : brCall[c].pc \in {"idle", "save", "set"}
    /\ rlId \in [Relay -> RelayId \cup {NoId}]
    /\ rlWaits \in [Relay -> Slot \cup {NoId}]

-----------------------------------------------------------------------------
\* New and ListenAndServe, over empty stores.
BrInit ==
    /\ brUp = TRUE
    /\ brFile \in BOOLEAN
    /\ brPg \in BOOLEAN
    /\ brLeases = {}
    /\ brRelays = NoRegs
    /\ brEntries = NoState
    /\ brDb = NoState
    /\ brOpen = [s \in Session |-> Closed]
    /\ brCall = [c \in Slot |-> Free]
    /\ brBeat = 0
    /\ brOld = 0
    /\ brStops = 0
    /\ rlId = [r \in Relay |-> NoId]
    /\ rlWaits = [r \in Relay |-> NoId]
    /\ brOwner = [i \in RelayId |-> NoId]

Fresh == {i \in RelayId : brRelays[i] # NoReg /\ brRelays[i].beat > brOld}

Least(ids) == {i \in ids : \A j \in ids : brRelays[i].assigned <= brRelays[j].assigned}

\* selectRelay: among the fresh relays of the region, or of any region when the
\* region has none, one with the fewest tunnels.
Selectable(region) ==
    LET here == {i \in Fresh : brRelays[i].region = region}
    IN  Least(IF here = {} THEN Fresh ELSE here)

\* handleOpenSession up to the choice of the relay, a copy made under the
\* read lock; with no fresh relay the lease is for the default relay.
SelectRelay(s, region) ==
    /\ brUp
    /\ brOpen[s].pc = "idle"
    /\ \E i \in IF Selectable(region) = {} THEN {NoId} ELSE Selectable(region) :
          brOpen' = [brOpen EXCEPT ![s] = [pc |-> "lease", relay |-> i]]
    /\ UNCHANGED <<brUp, brFile, brPg, brLeases, brRelays, brEntries, brDb, brCall,
                   brBeat, brOld, brStops, rlId, rlWaits, brOwner>>

\* The locked part of handleOpenSession: the lease, and one more tunnel for the
\* relay's registration as it is now.
WriteLease(s) ==
    /\ brUp
    /\ brOpen[s].pc = "lease"
    /\ brLeases' = brLeases \cup {s}
    /\ brRelays' = [i \in RelayId |-> IF i = brOpen[s].relay
                                      THEN [brRelays[i] EXCEPT !.assigned = @ + 1]
                                      ELSE brRelays[i]]
    /\ brOpen' = [brOpen EXCEPT ![s].pc = "save"]
    /\ UNCHANGED <<brUp, brFile, brPg, brEntries, brDb, brCall,
                   brBeat, brOld, brStops, rlId, rlWaits, brOwner>>

\* SaveLease: the memory store does nothing, an error is dropped.
SaveLease(s) ==
    /\ brUp
    /\ brOpen[s].pc = "save"
    /\ brDb' = [brDb EXCEPT !.leases = IF brPg THEN @ \cup {s} ELSE @]
    /\ brOpen' = [brOpen EXCEPT ![s].pc = "set"]
    /\ UNCHANGED <<brUp, brFile, brPg, brLeases, brRelays, brEntries, brCall,
                   brBeat, brOld, brStops, rlId, rlWaits, brOwner>>

\* replicator.Set of the lease, with its callback; then the answer 201.
SetLease(s) ==
    /\ brUp
    /\ brOpen[s].pc = "set"
    /\ brEntries' = [brEntries EXCEPT !.leases = @ \cup {s}]
    /\ brLeases' = brLeases \cup {s}
    /\ brOpen' = [brOpen EXCEPT ![s].pc = "done"]
    /\ UNCHANGED <<brUp, brFile, brPg, brRelays, brDb, brCall,
                   brBeat, brOld, brStops, rlId, rlWaits, brOwner>>

-----------------------------------------------------------------------------
\* Either handler of the relay endpoints up to its unlock: a registration with a
\* new time, of which the handler keeps a copy.
Register(c, i, reg) ==
    LET now == [reg EXCEPT !.beat = brBeat + 1]
    IN  /\ brUp
        /\ brCall[c].pc = "idle"
        /\ brBeat < MaxBeat
        /\ brBeat' = brBeat + 1
        /\ brRelays' = [brRelays EXCEPT ![i] = now]
        /\ brCall' = [brCall EXCEPT ![c] = [pc |-> "save", id |-> i, reg |-> now]]
        /\ UNCHANGED <<brUp, brFile, brPg, brLeases, brEntries, brDb, brOpen, brOld, brStops, rlId>>

\* handleRelayRegister: what the broker has counted for the identifier stays.
HandleRelayRegister(c, i, region) == Register(c, i, [brRelays[i] EXCEPT !.region = region])

\* registerRelay calls the broker.  A relay that has no identifier yet is given
\* a new one.
RegisterRelay(r, c, i) ==
    /\ rlWaits[r] = NoId
    /\ IF rlId[r] = NoId THEN brOwner[i] = NoId ELSE i = rlId[r]
    /\ HandleRelayRegister(c, i, RegionOf[r])
    /\ brOwner' = [brOwner EXCEPT ![i] = r]
    /\ rlWaits' = [rlWaits EXCEPT ![r] = c]

\* The leases that relay r was given, under any identifier.
LeasesOf(r) == {s \in Session : /\ brOpen[s].pc \notin {"idle", "lease"}
                                /\ brOpen[s].relay # NoId
                                /\ brOwner[brOpen[s].relay] = r}

\* handleRelayHeartbeat: an unknown relay is refused.
HandleRelayHeartbeat(c, i, tunnels) ==
    /\ brRelays[i] # NoReg
    /\ Register(c, i, [brRelays[i] EXCEPT !.assigned = tunnels])

\* sendHeartbeat of the relay, with the number of tunnels it has.
RelayHeartbeat(r, c, tunnels) ==
    /\ rlWaits[r] = NoId
    /\ rlId[r] # NoId
    /\ tunnels <= Cardinality(LeasesOf(r))
    /\ HandleRelayHeartbeat(c, rlId[r], tunnels)
    /\ rlWaits' = [rlWaits EXCEPT ![r] = c]
    /\ UNCHANGED brOwner

\* SaveRelay.
SaveRelay(c) ==
    /\ brUp
    /\ brCall[c].pc = "save"
    /\ brDb' = [brDb EXCEPT !.relays[brCall[c].id] = IF brPg THEN brCall[c].reg ELSE @]
    /\ brCall' = [brCall EXCEPT ![c].pc = "set"]
    /\ UNCHANGED <<brUp, brFile, brPg, brLeases, brRelays, brEntries, brOpen,
                   brBeat, brOld, brStops, rlId, rlWaits, brOwner>>

SetRelayNoCallback(c) ==
    /\ brUp
    /\ brCall[c].pc = "set"
    /\ brEntries' = [brEntries EXCEPT !.relays[brCall[c].id] = brCall[c].reg]
    /\ rlId' = [r \in Relay |-> IF rlWaits[r] = c THEN brCall[c].id ELSE rlId[r]]
    /\ rlWaits' = [r \in Relay |-> IF rlWaits[r] = c THEN NoId ELSE rlWaits[r]]
    /\ brCall' = [brCall EXCEPT ![c] = Free]
    /\ UNCHANGED <<brUp, brFile, brPg, brLeases, brRelays, brDb, brOpen, brBeat, brOld, brStops, brOwner>>

\* applyReplicatedStateChange of a registration.
Applied(i, reg) == [brRelays EXCEPT ![i] = reg]

\* replicator.Set of the registration captured before: its callback puts that
\* registration back into the map.  Then the answer, which a relay that still
\* waits takes its identifier from.
SetRelay(c) ==
    /\ brUp
    /\ brCall[c].pc = "set"
    /\ brEntries' = [brEntries EXCEPT !.relays[brCall[c].id] = brCall[c].reg]
    /\ brRelays' = Applied(brCall[c].id, brCall[c].reg)
    /\ rlId' = [r \in Relay |-> IF rlWaits[r] = c THEN brCall[c].id ELSE rlId[r]]
    /\ rlWaits' = [r \in Relay |-> IF rlWaits[r] = c THEN NoId ELSE rlWaits[r]]
    /\ brCall' = [brCall EXCEPT ![c] = Free]
    /\ UNCHANGED <<brUp, brFile, brPg, brLeases, brDb, brOpen, brBeat, brOld, brStops, brOwner>>

\* The relay's client gives up, or the answer is lost.
RelayGivesUp(r) ==
    /\ rlWaits[r] # NoId
    /\ rlWaits' = [rlWaits EXCEPT ![r] = NoId]
    /\ UNCHANGED <<brUp, brFile, brPg, brLeases, brRelays, brEntries, brDb, brOpen, brCall,
                   brBeat, brOld, brStops, rlId, brOwner>>

\* 45 seconds pass without a call.
GetOld ==
    /\ brOld < brBeat
    /\ brOld' = brBeat
    /\ UNCHANGED <<brUp, brFile, brPg, brLeases, brRelays, brEntries, brDb, brOpen, brCall,
                   brBeat, brStops, rlId, rlWaits, brOwner>>

-----------------------------------------------------------------------------
BrCrash ==
    /\ brUp
    /\ brStops < MaxStop
    /\ brStops' = brStops + 1
    /\ brUp' = FALSE
    /\ brOpen' = [s \in Session |-> IF brOpen[s].pc \in {"lease", "save", "set"}
                                    THEN [brOpen[s] EXCEPT !.pc = "gone"] ELSE brOpen[s]]
    /\ brCall' = [c \in Slot |-> Free]
    /\ rlWaits' = [r \in Relay |-> NoId]
    /\ UNCHANGED <<brFile, brPg, brLeases, brRelays, brEntries, brDb, brBeat, brOld, rlId, brOwner>>

\* What the replicator's store has after NewFileStore or NewMemoryStore.
Loaded == IF brFile THEN brEntries ELSE NoState

RestartCold ==
    /\ ~brUp
    /\ brUp' = TRUE
    /\ brEntries' = Loaded
    /\ brLeases' = {}
    /\ brRelays' = NoRegs
    /\ UNCHANGED <<brFile, brPg, brDb, brOpen, brCall, brBeat, brOld, brStops, rlId, rlWaits, brOwner>>

\* New, Start and hydrateFromReplicatedState.
BrRestart ==
    /\ ~brUp
    /\ brUp' = TRUE
    /\ brEntries' = Loaded
    /\ brLeases' = Loaded.leases
    /\ brRelays' = Loaded.relays
    /\ UNCHANGED <<brFile, brPg, brDb, brOpen, brCall, brBeat, brOld, brStops, rlId, rlWaits, brOwner>>

BrNext ==
    \/ \E s \in Session : \/ \E region \in Region : SelectRelay(s, region)
                          \/ WriteLease(s) \/ SaveLease(s) \/ SetLease(s)
    \/ \E r \in Relay, c \in Slot : \/ \E i \in RelayId : RegisterRelay(r, c, i)
                                    \/ \E t \in 0..Cardinality(Session) : RelayHeartbeat(r, c, t)
    \/ \E c \in Slot : SaveRelay(c) \/ SetRelay(c)
    \/ \E r \in Relay : RelayGivesUp(r)
    \/ GetOld
    \/ BrCrash \/ BrRestart

BrSpec == BrInit /\ [][BrNext]_brVars

-----------------------------------------------------------------------------
\* handleGetLease finds the lease, in the map or in Postgres.
Served(s) == s \in brLeases \/ (brPg /\ s \in brDb.leases)

\* A lease that was answered with 201 is found by every later call of
\* handleGetLease, also after a crash when the broker has a state directory or
\* Postgres; a relay asks for it when the client registers (server.go:188-327).
LeaseServed ==
    \A s \in Session : (brUp /\ brOpen[s].pc = "done" /\ (brFile \/ brPg \/ brStops = 0)) => Served(s)

\* When no handler is on its way, the registration that selectRelay reads and
\* the replicated one are of the same call: handlers that overtake each other
\* end with the same winner in both (server.go:382-420, 649-662).
RegistryAgrees ==
    \A i \in RelayId : (brUp /\ \A c \in Slot : brCall[c].pc # "idle" => brCall[c].id # i) =>
        /\ brRelays[i].beat = brEntries.relays[i].beat
        /\ brRelays[i].region = brEntries.relays[i].region

\* The count that selectRelay balances on never exceeds the leases the relay was
\* given, whatever the order in which sessions, heartbeats and the callbacks of
\* earlier registrations write it (server.go:277-281, 383-387, 413-419).
AssignedBounded ==
    \A i \in RelayId : brRelays[i] # NoReg => brRelays[i].assigned <= Cardinality(LeasesOf(brOwner[i]))

\* What selectRelay reads is right: the registration is of the call that won in
\* the replicated state too, and its count is not above the leases handed out.
RegistrySound == RegistryAgrees /\ AssignedBounded
=============================================================================
