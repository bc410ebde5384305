---------------------------- MODULE BrokerProofs ----------------------------
(***************************************************************************)
(* Proofs about the leases and registrations that the broker keeps         *)
(* (Broker), and the leader election of its replicators (Election), which  *)
(* share no state.                                                         *)
(***************************************************************************)
EXTENDS Broker, Election, FiniteSetTheorems, WellFoundedInduction, TLAPS

(***************************************************************************)
(* The broker.                                                             *)
(***************************************************************************)
RegOK == [region : Region \cup {"none"}, assigned : Nat, beat : Nat]
StateOK == [leases : SUBSET Session, relays : [RelayId -> RegOK]]
Handling == [pc : {"save", "set"}, id : RelayId, reg : RegOK]
OpenPc == {"idle", "lease", "save", "set", "done", "gone"}

\* The types of what the broker and its relays write; the counts are bounded
\* by the theorem, not by the type.
BrShape ==
    /\ brUp \in BOOLEAN /\ brFile \in BOOLEAN /\ brPg \in BOOLEAN
    /\ brLeases \subseteq Session
    /\ brRelays \in [RelayId -> RegOK]
    /\ brEntries \in StateOK /\ brDb \in StateOK
    /\ brOpen \in [Session -> [pc : OpenPc, relay : RelayId \cup {NoId}]]
    /\ brCall \in [Slot -> {Free} \cup Handling]
    /\ brBeat \in Nat /\ brStops \in Nat
    /\ rlId \in [Relay -> RelayId \cup {NoId}]
    /\ rlWaits \in [Relay -> Slot \cup {NoId}]
    /\ brOwner \in [RelayId -> Relay \cup {NoId}]

\* Where the lease of an answered session is: in the replicated entries unless
\* a crash has emptied a store that is only in memory, and in Postgres before
\* replicator.Set.
LeaseKept ==
    /\ brStops = 0 => brUp
    /\ brUp => brEntries.leases \subseteq brLeases
    /\ \A s \in Session :
          /\ brOpen[s].pc = "done" /\ (brFile \/ brStops = 0) => s \in brEntries.leases
          /\ brPg /\ brOpen[s].pc \in {"set", "done"} => s \in brDb.leases

\* A relay knows only its own identifiers, and a session that chose a relay
\* still finds its registration.
OwnIds ==
    /\ \A r \in Relay : rlId[r] # NoId => brOwner[rlId[r]] = r
    /\ \A r \in Relay : rlWaits[r] # NoId =>
          brCall[rlWaits[r]].pc # "idle" /\ brOwner[brCall[rlWaits[r]].id] = r
    /\ \A s \in Session : brOpen[s].pc = "lease" /\ brOpen[s].relay # NoId =>
          brRelays[brOpen[s].relay] # NoReg
    /\ ~brUp => \A s \in Session : brOpen[s].pc # "lease"
    /\ \A c \in Slot : brCall[c].pc # "idle" => brCall[c].reg # NoReg

\* How many leases each relay was given.
Leased == [r \in Relay |-> Cardinality(LeasesOf(r))]

Counted(i, reg) == reg # NoReg => brOwner[i] \in Relay /\ reg.assigned <= Leased[brOwner[i]]

\* Every copy of a registration, also one that a handler captured earlier, counts
\* no more than the leases its relay has.
CopiesCounted ==
    /\ \A i \in RelayId : Counted(i, brRelays[i]) /\ Counted(i, brEntries.relays[i])
    /\ \A c \in Slot : brCall[c].pc # "idle" => Counted(brCall[c].id, brCall[c].reg)

BrInv == BrShape /\ LeaseKept /\ OwnIds /\ CopiesCounted /\ RegistryAgrees

LEMMA BrokerInit == BrInit => BrInv
<1> SUFFICES ASSUME BrInit PROVE BrInv
  BY Zenon
<1>0. NoReg \in RegOK /\ NoRegs \in [RelayId -> RegOK] /\ NoState \in StateOK
  BY Zenon DEF NoReg, RegOK, NoRegs, NoState, StateOK
<1>1. BrShape
  BY <1>0, Zenon DEF BrInit, BrShape, Closed, OpenPc
<1>2. LeaseKept
  BY Zenon DEF BrInit, LeaseKept, NoState, Closed
<1>3. OwnIds
  BY Zenon DEF BrInit, OwnIds, Closed, Free
<1>4. CopiesCounted
  BY Zenon DEF BrInit, CopiesCounted, Counted, NoState, NoRegs, Free
<1>5. RegistryAgrees
  BY Zenon DEF BrInit, RegistryAgrees, NoState
<1> QED
  BY <1>1, <1>2, <1>3, <1>4, <1>5, Zenon DEF BrInv

\* The locked part of a relay endpoint: the registration with a new time is in
\* the map and in the handler's copy.
Registered(c, i, now) ==
    /\ now \in RegOK /\ now # NoReg
    /\ brRelays' \in [RelayId -> RegOK] /\ brRelays'[i] = now
    /\ \A j \in RelayId \ {i} : brRelays'[j] = brRelays[j]
    /\ brCall' \in [Slot -> {Free} \cup Handling]
    /\ brCall[c].pc = "idle"
    /\ brCall'[c].pc = "save" /\ brCall'[c].id = i /\ brCall'[c].reg = now
    /\ \A d \in Slot \ {c} : brCall'[d] = brCall[d]
    /\ brBeat' \in Nat
    /\ brUp
    /\ UNCHANGED <<brUp, brFile, brPg, brLeases, brEntries, brDb, brOpen, brOld, brStops, rlId>>

LEMMA RegisterEffect ==
    ASSUME BrShape, NEW c \in Slot, NEW i \in RelayId, NEW reg \in RegOK, Register(c, i, reg)
    PROVE  \E now : Registered(c, i, now) /\ now.assigned = reg.assigned
<1> DEFINE now == [reg EXCEPT !.beat = brBeat + 1]
           h == [pc |-> "save", id |-> i, reg |-> now]
<1>1. now \in RegOK /\ now.assigned = reg.assigned /\ now.beat = brBeat + 1
  BY DEF RegOK, BrShape
<1>2. now # NoReg
  BY <1>1 DEF NoReg, BrShape
<1>3. /\ brRelays' = [brRelays EXCEPT ![i] = now] /\ brCall' = [brCall EXCEPT ![c] = h]
      /\ brBeat' = brBeat + 1 /\ brUp /\ brCall[c].pc = "idle"
      /\ UNCHANGED <<brUp, brFile, brPg, brLeases, brEntries, brDb, brOpen, brOld, brStops, rlId>>
  BY Zenon DEF Register
<1> HIDE DEF now
<1>4. h \in Handling /\ h.pc = "save" /\ h.id = i /\ h.reg = now
  BY <1>1, Zenon DEF Handling
<1> HIDE DEF h
<1>5. Registered(c, i, now)
  BY <1>1, <1>2, <1>3, <1>4 DEF Registered, BrShape
<1> QED
  BY <1>1, <1>5, Zenon

\* registerRelay: the relay keeps its identifier or takes one that nobody has.
LEMMA RegisterRelayEffect ==
    ASSUME BrShape, NEW r \in Relay, NEW c \in Slot, NEW i \in RelayId, RegisterRelay(r, c, i)
    PROVE  /\ \E now : Registered(c, i, now) /\ now.assigned = brRelays[i].assigned
           /\ IF rlId[r] = NoId THEN brOwner[i] = NoId ELSE i = rlId[r]
           /\ brOwner' = [brOwner EXCEPT ![i] = r]
           /\ rlWaits' = [rlWaits EXCEPT ![r] = c]
<1> DEFINE reg == [brRelays[i] EXCEPT !.region = RegionOf[r]]
<1>1. RegionOf[r] \in Region
  BY BrAssumption, Zenon
<1>2. brRelays[i] \in RegOK
  BY Zenon DEF BrShape
<1>3. reg \in RegOK /\ reg.assigned = brRelays[i].assigned
  BY <1>1, <1>2, Zenon DEF RegOK
<1>4. Register(c, i, reg)
  BY Zenon DEF RegisterRelay, HandleRelayRegister
<1> HIDE DEF reg
<1>5. \E now : Registered(c, i, now) /\ now.assigned = brRelays[i].assigned
  BY <1>3, <1>4, RegisterEffect
<1> QED
  BY <1>5, Zenon DEF RegisterRelay

\* sendHeartbeat: the registration of the relay's identifier has its count.
LEMMA RelayHeartbeatEffect ==
    ASSUME BrShape, NEW r \in Relay, NEW c \in Slot, NEW t \in 0..Cardinality(Session),
           RelayHeartbeat(r, c, t)
    PROVE  /\ rlId[r] \in RelayId
           /\ \E now : Registered(c, rlId[r], now) /\ now.assigned = t
           /\ t \in Nat /\ t <= Leased[r]
           /\ rlWaits' = [rlWaits EXCEPT ![r] = c]
           /\ UNCHANGED brOwner
<1> DEFINE i == rlId[r]
           reg == [brRelays[i] EXCEPT !.assigned = t]
<1>1. i \in RelayId
  BY Zenon DEF RelayHeartbeat, BrShape
<1>2. t \in Nat
  BY FS_CardinalityType, BrAssumption
<1>3. brRelays[i] \in RegOK
  BY <1>1, Zenon DEF BrShape
<1>4. reg \in RegOK /\ reg.assigned = t
  BY <1>2, <1>3, Zenon DEF RegOK
<1>5. Register(c, i, reg)
  BY Zenon DEF RelayHeartbeat, HandleRelayHeartbeat
<1> HIDE DEF reg
<1>6. \E now : Registered(c, i, now) /\ now.assigned = t
  BY <1>1, <1>4, <1>5, RegisterEffect
<1>7. t <= Leased[r]
  BY Zenon DEF RelayHeartbeat, Leased
<1> QED
  BY <1>1, <1>2, <1>6, <1>7, Zenon DEF RelayHeartbeat

\* The effects of the two ends of a relay endpoint.
LEMMA SaveRelayEffect ==
    ASSUME BrShape, NEW c \in Slot, SaveRelay(c)
    PROVE  /\ brDb' \in StateOK /\ brDb'.leases = brDb.leases
           /\ brCall' \in [Slot -> {Free} \cup Handling]
           /\ brCall[c].pc = "save" /\ brCall'[c].pc = "set" /\ brCall'[c].id = brCall[c].id
           /\ brCall'[c].reg = brCall[c].reg
           /\ \A d \in Slot \ {c} : brCall'[d] = brCall[d]
<1>1. brCall[c].pc = "save" /\ brCall[c] \in {Free} \cup Handling
  BY Zenon DEF SaveRelay, BrShape
<1>2. brCall[c] \in Handling
  BY <1>1 DEF Free
<1>3. brCall[c].id \in RelayId /\ brCall[c].reg \in RegOK
  BY <1>2, Zenon DEF Handling
<1> DEFINE i == brCall[c].id
           h == [brCall[c] EXCEPT !.pc = "set"]
<1>4. h \in Handling /\ h.pc = "set" /\ h.id = brCall[c].id /\ h.reg = brCall[c].reg
  BY <1>2, Zenon DEF Handling
<1>5. brCall' = [brCall EXCEPT ![c] = h]
  BY Zenon DEF SaveRelay
<1> HIDE DEF h
<1>6. PICK x \in RegOK : brDb' = [brDb EXCEPT !.relays[i] = x]
  <2>1. brDb.relays[i] \in RegOK
    BY <1>3, Zenon DEF BrShape, StateOK
  <2>2. CASE brPg
    BY <1>3, <2>2, Zenon DEF SaveRelay
  <2>3. CASE ~brPg
    BY <2>1, <2>3, Zenon DEF SaveRelay
  <2> QED
    BY <2>2, <2>3, Zenon
<1>7. brDb \in StateOK
  BY Zenon DEF BrShape
<1>8. brDb' \in StateOK /\ brDb'.leases = brDb.leases
  BY <1>3, <1>6, <1>7, Zenon DEF StateOK
<1> QED
  BY <1>1, <1>4, <1>5, <1>8, Zenon DEF BrShape

LEMMA SetRelayEffect ==
    ASSUME BrShape, NEW c \in Slot, SetRelay(c)
    PROVE  /\ brCall[c] \in Handling
           /\ brEntries' \in StateOK /\ brEntries'.leases = brEntries.leases
           /\ brEntries'.relays[brCall[c].id] = brCall[c].reg
           /\ brRelays' \in [RelayId -> RegOK] /\ brRelays'[brCall[c].id] = brCall[c].reg
           /\ \A j \in RelayId \ {brCall[c].id} : /\ brEntries'.relays[j] = brEntries.relays[j]
                                                 /\ brRelays'[j] = brRelays[j]
           /\ brCall' \in [Slot -> {Free} \cup Handling] /\ brCall'[c] = Free
           /\ \A d \in Slot \ {c} : brCall'[d] = brCall[d]
<1>1. brCall[c].pc = "set" /\ brCall[c] \in {Free} \cup Handling
  BY Zenon DEF SetRelay, BrShape
<1>2. brCall[c] \in Handling
  BY <1>1 DEF Free
<1> DEFINE i == brCall[c].id
           x == brCall[c].reg
<1>3. i \in RelayId /\ x \in RegOK
  BY <1>2, Zenon DEF Handling
<1>4. /\ brEntries' = [brEntries EXCEPT !.relays[i] = x] /\ brRelays' = [brRelays EXCEPT ![i] = x]
      /\ brCall' = [brCall EXCEPT ![c] = Free]
  BY Zenon DEF SetRelay, Applied
<1>5. brEntries \in StateOK /\ brRelays \in [RelayId -> RegOK]
  BY Zenon DEF BrShape
<1> HIDE DEF i, x
<1>6. /\ brEntries' \in StateOK /\ brEntries'.leases = brEntries.leases /\ brEntries'.relays[i] = x
      /\ \A j \in RelayId \ {i} : brEntries'.relays[j] = brEntries.relays[j]
  BY <1>3, <1>4, <1>5, Zenon DEF StateOK
<1>7. /\ brRelays' \in [RelayId -> RegOK] /\ brRelays'[i] = x
      /\ \A j \in RelayId \ {i} : brRelays'[j] = brRelays[j]
  BY <1>3, <1>4, <1>5, Zenon
<1>8. /\ brCall' \in [Slot -> {Free} \cup Handling] /\ brCall'[c] = Free
      /\ \A d \in Slot \ {c} : brCall'[d] = brCall[d]
  BY <1>4, Zenon DEF BrShape
<1> QED
  BY <1>2, <1>6, <1>7, <1>8, Zenon DEF i, x


\* Steps of a session.
LEMMA OpenEffect ==
    ASSUME BrShape, NEW s \in Session, NEW q \in OpenPc, brOpen' = [brOpen EXCEPT ![s].pc = q]
    PROVE  /\ brOpen' \in [Session -> [pc : OpenPc, relay : RelayId \cup {NoId}]]
           /\ brOpen'[s].pc = q /\ brOpen'[s].relay = brOpen[s].relay
           /\ \A u \in Session \ {s} : brOpen'[u] = brOpen[u]
BY Zenon DEF BrShape

\* selectRelay returns a relay of the map, or the default relay.
LEMMA SelectEffect ==
    ASSUME BrShape, NEW s \in Session, NEW region \in Region, SelectRelay(s, region)
    PROVE  /\ brOpen' \in [Session -> [pc : OpenPc, relay : RelayId \cup {NoId}]]
           /\ brOpen[s].pc = "idle" /\ brOpen'[s].pc = "lease"
           /\ brOpen'[s].relay # NoId => brRelays[brOpen'[s].relay] # NoReg
           /\ \A u \in Session \ {s} : brOpen'[u] = brOpen[u]
<1>1. PICK i \in IF Selectable(region) = {} THEN {NoId} ELSE Selectable(region) :
         brOpen' = [brOpen EXCEPT ![s] = [pc |-> "lease", relay |-> i]]
  BY Zenon DEF SelectRelay
<1>2. Selectable(region) \subseteq Fresh
  BY Zenon DEF Selectable, Least
<1>3. i \in RelayId \cup {NoId} /\ (i # NoId => brRelays[i] # NoReg)
  BY <1>2, Zenon DEF Fresh
<1>4. brOpen[s].pc = "idle"
  BY Zenon DEF SelectRelay
<1> QED
  BY <1>1, <1>3, <1>4, Zenon DEF BrShape, OpenPc

\* The locked part of handleOpenSession counts one more tunnel.
LEMMA WriteLeaseEffect ==
    ASSUME BrShape, NEW s \in Session, WriteLease(s)
    PROVE  /\ brRelays' \in [RelayId -> RegOK]
           /\ \A i \in RelayId : /\ brRelays'[i].beat = brRelays[i].beat
                                 /\ brRelays'[i].region = brRelays[i].region
                                 /\ i # brOpen[s].relay => brRelays'[i] = brRelays[i]
                                 /\ i = brOpen[s].relay => /\ brRelays'[i].assigned = brRelays[i].assigned + 1
                                                           /\ brRelays'[i] # NoReg
<1>1. ASSUME NEW i \in RelayId
      PROVE  /\ brRelays'[i] \in RegOK /\ brRelays'[i].beat = brRelays[i].beat
             /\ brRelays'[i].region = brRelays[i].region
             /\ i # brOpen[s].relay => brRelays'[i] = brRelays[i]
             /\ i = brOpen[s].relay => /\ brRelays'[i].assigned = brRelays[i].assigned + 1
                                       /\ brRelays'[i] # NoReg
  <2>1. brRelays[i] \in RegOK
    BY Zenon DEF BrShape
  <2>2. CASE i = brOpen[s].relay
    <3>1. brRelays'[i] = [brRelays[i] EXCEPT !.assigned = @ + 1]
      BY <2>2, Zenon DEF WriteLease
    <3>2. /\ brRelays'[i] \in RegOK /\ brRelays'[i].assigned = brRelays[i].assigned + 1
          /\ brRelays'[i].beat = brRelays[i].beat /\ brRelays'[i].region = brRelays[i].region
          /\ brRelays[i].assigned \in Nat
      BY <2>1, <3>1 DEF RegOK
    <3> QED
      BY <2>2, <3>2 DEF NoReg
  <2>3. CASE i # brOpen[s].relay
    BY <2>1, <2>3, Zenon DEF WriteLease
  <2> QED
    BY <2>2, <2>3, Zenon
<1> QED
  BY <1>1, Zenon DEF WriteLease

LEMMA BrShapeStep == BrShape /\ [BrNext]_brVars => BrShape'
<1> SUFFICES ASSUME BrShape, [BrNext]_brVars PROVE BrShape'
  BY Zenon
<1>1. ASSUME NEW s \in Session, NEW region \in Region, SelectRelay(s, region) PROVE BrShape'
  <2>1. UNCHANGED <<brUp, brFile, brPg, brLeases, brRelays, brEntries, brDb, brCall, brBeat, brStops,
                    rlId, rlWaits, brOwner>>
    BY <1>1, Zenon DEF SelectRelay
  <2> QED
    BY <1>1, <2>1, SelectEffect, Zenon DEF BrShape
<1>2. ASSUME NEW s \in Session, WriteLease(s) PROVE BrShape'
  <2>1. brRelays' \in [RelayId -> RegOK]
    BY <1>2, WriteLeaseEffect, Zenon
  <2>2. brOpen' \in [Session -> [pc : OpenPc, relay : RelayId \cup {NoId}]]
    BY <1>2, OpenEffect, Zenon DEF WriteLease, OpenPc
  <2>3. brLeases' \subseteq Session
    BY <1>2, Zenon DEF WriteLease, BrShape
  <2>4. UNCHANGED <<brUp, brFile, brPg, brEntries, brDb, brCall, brBeat, brStops, rlId, rlWaits, brOwner>>
    BY <1>2, Zenon DEF WriteLease
  <2> QED
    BY <2>1, <2>2, <2>3, <2>4, Zenon DEF BrShape
<1>3. ASSUME NEW s \in Session, SaveLease(s) PROVE BrShape'
  <2>1. brOpen' \in [Session -> [pc : OpenPc, relay : RelayId \cup {NoId}]]
    BY <1>3, OpenEffect, Zenon DEF SaveLease, OpenPc
  <2>2. brDb' \in StateOK
    BY <1>3, Zenon DEF SaveLease, BrShape, StateOK
  <2>3. UNCHANGED <<brUp, brFile, brPg, brLeases, brRelays, brEntries, brCall, brBeat, brStops,
                    rlId, rlWaits, brOwner>>
    BY <1>3, Zenon DEF SaveLease
  <2> QED
    BY <2>1, <2>2, <2>3, Zenon DEF BrShape
<1>4. ASSUME NEW s \in Session, SetLease(s) PROVE BrShape'
  <2>1. brOpen' \in [Session -> [pc : OpenPc, relay : RelayId \cup {NoId}]]
    BY <1>4, OpenEffect, Zenon DEF SetLease, OpenPc
  <2>2. brEntries' \in StateOK /\ brLeases' \subseteq Session
    BY <1>4, Zenon DEF SetLease, BrShape, StateOK
  <2>3. UNCHANGED <<brUp, brFile, brPg, brRelays, brDb, brCall, brBeat, brStops, rlId, rlWaits, brOwner>>
    BY <1>4, Zenon DEF SetLease
  <2> QED
    BY <2>1, <2>2, <2>3, Zenon DEF BrShape
<1>5. ASSUME NEW c \in Slot, NEW i \in RelayId, NEW r \in Relay, NEW now, Registered(c, i, now),
             rlWaits' = [rlWaits EXCEPT ![r] = c], brOwner' \in [RelayId -> Relay \cup {NoId}]
      PROVE  BrShape'
  BY <1>5, Zenon DEF Registered, BrShape
<1>6. ASSUME NEW r \in Relay, NEW c \in Slot, NEW i \in RelayId, RegisterRelay(r, c, i) PROVE BrShape'
  <2>1. PICK now : Registered(c, i, now)
    BY <1>6, RegisterRelayEffect, Zenon
  <2>2. brOwner' \in [RelayId -> Relay \cup {NoId}] /\ rlWaits' = [rlWaits EXCEPT ![r] = c]
    BY <1>6, Zenon DEF RegisterRelay, BrShape
  <2> QED
    BY <2>1, <2>2, <1>5, Zenon
<1>7. ASSUME NEW r \in Relay, NEW c \in Slot, NEW t \in 0..Cardinality(Session), RelayHeartbeat(r, c, t)
      PROVE  BrShape'
  <2>1. rlId[r] \in RelayId /\ \E now : Registered(c, rlId[r], now)
    BY <1>7, RelayHeartbeatEffect, Zenon
  <2>2. brOwner' \in [RelayId -> Relay \cup {NoId}] /\ rlWaits' = [rlWaits EXCEPT ![r] = c]
    BY <1>7, Zenon DEF RelayHeartbeat, BrShape
  <2> QED
    BY <2>1, <2>2, <1>5, Zenon
<1>8. ASSUME NEW c \in Slot, SaveRelay(c) PROVE BrShape'
  <2>1. UNCHANGED <<brUp, brFile, brPg, brLeases, brRelays, brEntries, brOpen, brBeat, brStops,
                    rlId, rlWaits, brOwner>>
    BY <1>8, Zenon DEF SaveRelay
  <2> QED
    BY <1>8, <2>1, SaveRelayEffect, Zenon DEF BrShape
<1>9. ASSUME NEW c \in Slot, SetRelay(c) PROVE BrShape'
  <2>1. UNCHANGED <<brUp, brFile, brPg, brLeases, brDb, brOpen, brBeat, brStops, brOwner>>
    BY <1>9, Zenon DEF SetRelay
  <2>2. brCall[c].id \in RelayId
    BY <1>9, SetRelayEffect, Zenon DEF Handling
  <2>3. rlId' \in [Relay -> RelayId \cup {NoId}] /\ rlWaits' \in [Relay -> Slot \cup {NoId}]
    BY <1>9, <2>2, Zenon DEF SetRelay, BrShape
  <2> QED
    BY <1>9, <2>1, <2>3, SetRelayEffect, Zenon DEF BrShape
<1>10. ASSUME NEW r \in Relay, RelayGivesUp(r) PROVE BrShape'
  BY <1>10, Zenon DEF RelayGivesUp, BrShape
<1>11. CASE GetOld
  BY <1>11, Zenon DEF GetOld, BrShape
<1>12. CASE BrCrash
  <2>1. \A s \in Session : brOpen'[s] \in [pc : OpenPc, relay : RelayId \cup {NoId}]
    BY <1>12 DEF BrCrash, BrShape, OpenPc
  <2>2. brOpen' \in [Session -> [pc : OpenPc, relay : RelayId \cup {NoId}]]
    BY <1>12, <2>1, Zenon DEF BrCrash
  <2>3. /\ brCall' \in [Slot -> {Free} \cup Handling] /\ rlWaits' \in [Relay -> Slot \cup {NoId}]
        /\ brUp' = FALSE /\ brStops' \in Nat
    BY <1>12 DEF BrCrash, BrShape
  <2>4. UNCHANGED <<brFile, brPg, brLeases, brRelays, brEntries, brDb, brBeat, brOld, rlId, brOwner>>
    BY <1>12, Zenon DEF BrCrash
  <2> QED
    BY <2>2, <2>3, <2>4, Zenon DEF BrShape
<1>13. CASE BrRestart
  <2>1. Loaded \in StateOK
    BY Zenon DEF Loaded, BrShape, NoState, NoRegs, NoReg, StateOK, RegOK
  <2>2. Loaded.leases \subseteq Session /\ Loaded.relays \in [RelayId -> RegOK]
    BY <2>1, Zenon DEF StateOK
  <2> QED
    BY <1>13, <2>1, <2>2, Zenon DEF BrRestart, BrShape
<1>14. CASE UNCHANGED brVars
  BY <1>14, Zenon DEF brVars, BrShape
<1> QED
  BY <1>1, <1>2, <1>3, <1>4, <1>6, <1>7, <1>8, <1>9, <1>10, <1>11, <1>12, <1>13, <1>14, Zenon DEF BrNext

LEMMA LeaseStep == BrShape /\ LeaseKept /\ [BrNext]_brVars => LeaseKept'
<1> SUFFICES ASSUME BrShape, LeaseKept, [BrNext]_brVars PROVE LeaseKept'
  BY Zenon
<1>1. CASE UNCHANGED <<brUp, brFile, brPg, brLeases, brEntries, brDb, brOpen, brStops>>
  BY <1>1, Zenon DEF LeaseKept
<1>2. ASSUME NEW s \in Session, NEW region \in Region, SelectRelay(s, region) PROVE LeaseKept'
  <2>1. UNCHANGED <<brUp, brFile, brPg, brLeases, brEntries, brDb, brStops>>
    BY <1>2, Zenon DEF SelectRelay
  <2> QED
    BY <1>2, <2>1, SelectEffect, Zenon DEF LeaseKept
<1>3. ASSUME NEW s \in Session, WriteLease(s) PROVE LeaseKept'
  <2>1. /\ UNCHANGED <<brUp, brFile, brPg, brEntries, brDb, brStops>> /\ brLeases \subseteq brLeases'
        /\ brOpen' = [brOpen EXCEPT ![s].pc = "save"]
    BY <1>3, Zenon DEF WriteLease
  <2> QED
    BY <2>1, OpenEffect, Zenon DEF LeaseKept, OpenPc
<1>4. ASSUME NEW s \in Session, SaveLease(s) PROVE LeaseKept'
  <2>1. /\ UNCHANGED <<brUp, brFile, brPg, brLeases, brEntries, brStops>>
        /\ brOpen' = [brOpen EXCEPT ![s].pc = "set"]
    BY <1>4, Zenon DEF SaveLease
  <2>2. brDb.leases \subseteq brDb'.leases /\ (brPg => s \in brDb'.leases)
    BY <1>4, Zenon DEF SaveLease, BrShape, StateOK
  <2> QED
    BY <2>1, <2>2, OpenEffect DEF LeaseKept, OpenPc
<1>5. ASSUME NEW s \in Session, SetLease(s) PROVE LeaseKept'
  <2>1. /\ UNCHANGED <<brUp, brFile, brPg, brDb, brStops>> /\ brLeases' = brLeases \cup {s}
        /\ brOpen' = [brOpen EXCEPT ![s].pc = "done"] /\ brOpen[s].pc = "set"
    BY <1>5, Zenon DEF SetLease
  <2>2. brEntries'.leases = brEntries.leases \cup {s}
    BY <1>5, Zenon DEF SetLease, BrShape, StateOK
  <2> QED
    BY <2>1, <2>2, OpenEffect DEF LeaseKept, OpenPc
<1>6. ASSUME NEW c \in Slot, SaveRelay(c) PROVE LeaseKept'
  <2>1. UNCHANGED <<brUp, brFile, brPg, brLeases, brEntries, brOpen, brStops>>
    BY <1>6, Zenon DEF SaveRelay
  <2>2. brDb'.leases = brDb.leases
    BY <1>6, SaveRelayEffect, Zenon
  <2> QED
    BY <2>1, <2>2, Zenon DEF LeaseKept
<1>7. ASSUME NEW c \in Slot, SetRelay(c) PROVE LeaseKept'
  <2>1. UNCHANGED <<brUp, brFile, brPg, brLeases, brDb, brOpen, brStops>>
    BY <1>7, Zenon DEF SetRelay
  <2>2. brEntries'.leases = brEntries.leases
    BY <1>7, SetRelayEffect, Zenon
  <2> QED
    BY <2>1, <2>2, Zenon DEF LeaseKept
<1>8. CASE BrCrash
  <2>1. brStops' # 0 /\ ~brUp' /\ UNCHANGED <<brFile, brPg, brEntries, brDb>>
    BY <1>8 DEF BrCrash, BrShape
  <2>2. \A s \in Session : brOpen'[s].pc \in {brOpen[s].pc, "gone"}
                           /\ (brOpen'[s].pc = "set" => brOpen[s].pc = "set")
    BY <1>8, Zenon DEF BrCrash, BrShape
  <2> QED
    BY <2>1, <2>2, Zenon DEF LeaseKept
<1>9. CASE BrRestart
  <2>1. brStops # 0
    BY <1>9, Zenon DEF BrRestart, LeaseKept
  <2>2. /\ brEntries' = Loaded /\ brLeases' = Loaded.leases
        /\ UNCHANGED <<brFile, brPg, brDb, brOpen, brStops>>
    BY <1>9, Zenon DEF BrRestart
  <2> QED
    BY <2>1, <2>2, Zenon DEF LeaseKept, Loaded
<1>10. ASSUME NEW r \in Relay, NEW c \in Slot,
              \/ \E i \in RelayId : RegisterRelay(r, c, i)
              \/ \E t \in 0..Cardinality(Session) : RelayHeartbeat(r, c, t)
       PROVE  LeaseKept'
  BY <1>1, <1>10, RegisterRelayEffect, RelayHeartbeatEffect, Zenon DEF Registered
<1>11. ASSUME NEW r \in Relay, RelayGivesUp(r) PROVE LeaseKept'
  BY <1>1, <1>11, Zenon DEF RelayGivesUp
<1>12. GetOld \/ UNCHANGED brVars => LeaseKept'
  BY <1>1, Zenon DEF GetOld, brVars
<1> QED
  BY <1>2, <1>3, <1>4, <1>5, <1>6, <1>7, <1>8, <1>9, <1>10, <1>11, <1>12, Zenon DEF BrNext

\* A lease that was answered with 201 is found by every later handleGetLease, also
\* after crashes when the broker has a state directory or Postgres: the answer
\* comes after SaveLease and after the replicated write, and a restart reads both.
THEOREM LeasesServed == BrSpec => []LeaseServed
<1>1. BrInit => BrShape /\ LeaseKept
  BY BrokerInit, Zenon DEF BrInv
<1>2. BrShape /\ LeaseKept /\ [BrNext]_brVars => (BrShape /\ LeaseKept)'
  BY BrShapeStep, LeaseStep, Zenon
<1>3. BrShape /\ LeaseKept => LeaseServed
  BY Zenon DEF LeaseKept, LeaseServed, Served
<1> QED
  BY <1>1, <1>2, <1>3, PTL DEF BrSpec


\* An identifier never changes its owner, and a lease stays with its relay.
Grows ==
    /\ \A i \in RelayId : brOwner[i] \in Relay => brOwner'[i] = brOwner[i]
    /\ \A s \in Session : brOpen[s].pc \notin {"idle", "lease"} =>
          brOpen'[s].pc \notin {"idle", "lease"} /\ brOpen'[s].relay = brOpen[s].relay

LEMMA LeasedType == BrShape => Leased \in [Relay -> Nat]
<1> SUFFICES ASSUME BrShape PROVE Leased \in [Relay -> Nat]
  BY Zenon
<1>1. \A r \in Relay : LeasesOf(r) \subseteq Session
  BY Zenon DEF LeasesOf
<1>2. \A r \in Relay : Cardinality(LeasesOf(r)) \in Nat
  BY <1>1, FS_Subset, FS_CardinalityType, BrAssumption, Zenon
<1> QED
  BY <1>2, Zenon DEF Leased

LEMMA LeasedGrows ==
    ASSUME BrShape, BrShape', Grows
    PROVE  /\ Leased \in [Relay -> Nat] /\ Leased' \in [Relay -> Nat]
           /\ \A r \in Relay : Leased[r] <= Leased'[r]
<1>1. ASSUME NEW r \in Relay PROVE Leased[r] <= Leased'[r]
  <2> DEFINE A == LeasesOf(r)
             B == LeasesOf(r)'
  <2>1. A \subseteq B
    BY BrAssumption DEF LeasesOf, Grows, BrShape
  <2>2. B \subseteq Session
    BY Zenon DEF LeasesOf
  <2>3. IsFiniteSet(B)
    BY <2>2, FS_Subset, BrAssumption, Zenon
  <2>4. Leased[r] = Cardinality(A) /\ Leased'[r] = Cardinality(B)
    BY Zenon DEF Leased
  <2> HIDE DEF A, B
  <2> QED
    BY <2>1, <2>3, <2>4, FS_Subset, Zenon
<1>2. Leased \in [Relay -> Nat]
  BY LeasedType, Zenon
<1>3. Leased' \in [Relay -> Nat]
  <2>1. \A r \in Relay : LeasesOf(r)' \subseteq Session
    BY Zenon DEF LeasesOf
  <2>2. \A r \in Relay : Cardinality(LeasesOf(r)') \in Nat
    BY <2>1, FS_Subset, FS_CardinalityType, BrAssumption, Zenon
  <2> QED
    BY <2>2, Zenon DEF Leased
<1> QED
  BY <1>1, <1>2, <1>3, Zenon

\* A copy that does not change stays counted.
LEMMA CountedKept ==
    ASSUME BrShape, BrShape', Grows, NEW i \in RelayId, NEW reg \in RegOK, Counted(i, reg)
    PROVE  reg # NoReg => brOwner'[i] \in Relay /\ reg.assigned <= Leased'[brOwner'[i]]
<1> SUFFICES ASSUME reg # NoReg PROVE brOwner'[i] \in Relay /\ reg.assigned <= Leased'[brOwner'[i]]
  BY Zenon
<1>1. brOwner[i] \in Relay /\ brOwner'[i] = brOwner[i] /\ reg.assigned <= Leased[brOwner[i]]
  BY Zenon DEF Counted, Grows
<1>2. Leased[brOwner[i]] <= Leased'[brOwner[i]] /\ Leased[brOwner[i]] \in Nat /\ Leased'[brOwner[i]] \in Nat
  BY <1>1, LeasedGrows, Zenon
<1>3. reg.assigned \in Nat
  BY Zenon DEF RegOK
<1> QED
  BY <1>1, <1>2, <1>3

\* A relay that registers takes an identifier of its own.
LEMMA OwnerEffect ==
    ASSUME BrShape, OwnIds, NEW r \in Relay, NEW c \in Slot, NEW i \in RelayId, RegisterRelay(r, c, i)
    PROVE  /\ brOwner[i] \in {NoId, r} /\ brOwner'[i] = r
           /\ \A j \in RelayId \ {i} : brOwner'[j] = brOwner[j]
           /\ \A j \in RelayId : brOwner[j] \in Relay => brOwner'[j] = brOwner[j]
<1>1. brOwner[i] \in {NoId, r}
  BY RegisterRelayEffect DEF OwnIds
<1>2. brOwner' = [brOwner EXCEPT ![i] = r]
  BY RegisterRelayEffect, Zenon
<1> QED
  BY <1>1, <1>2, BrAssumption, Zenon DEF BrShape

LEMMA OwnStep == BrShape /\ OwnIds /\ [BrNext]_brVars => OwnIds'
<1> SUFFICES ASSUME BrShape, OwnIds, [BrNext]_brVars PROVE OwnIds'
  BY Zenon
<1>1. ASSUME NEW s \in Session, NEW region \in Region, SelectRelay(s, region) PROVE OwnIds'
  <2>1. UNCHANGED <<brUp, brRelays, brCall, rlId, rlWaits, brOwner>> /\ brUp
    BY <1>1, Zenon DEF SelectRelay
  <2> QED
    BY <1>1, <2>1, SelectEffect DEF OwnIds
<1>2. ASSUME NEW s \in Session, WriteLease(s) PROVE OwnIds'
  <2>1. UNCHANGED <<brUp, brCall, rlId, rlWaits, brOwner>> /\ brUp /\ brOpen' = [brOpen EXCEPT ![s].pc = "save"]
    BY <1>2, Zenon DEF WriteLease
  <2>2. \A i \in RelayId : brRelays[i] # NoReg => brRelays'[i] # NoReg
    BY <1>2, WriteLeaseEffect, Zenon
  <2>3. \A u \in Session : brOpen'[u].pc = "lease" => u # s /\ brOpen'[u] = brOpen[u]
    BY <2>1, OpenEffect, Zenon DEF OpenPc
  <2>4. \A u \in Session : brOpen[u].relay # NoId => brOpen[u].relay \in RelayId
    BY Zenon DEF BrShape
  <2> QED
    BY <2>1, <2>2, <2>3, <2>4 DEF OwnIds
<1>3. ASSUME NEW s \in Session, NEW q \in {"set", "done"}, brOpen' = [brOpen EXCEPT ![s].pc = q],
             UNCHANGED <<brUp, brRelays, brCall, rlId, rlWaits, brOwner>>, brUp
      PROVE  OwnIds'
  BY <1>3, OpenEffect, Zenon DEF OwnIds, OpenPc
<1>4. ASSUME NEW s \in Session, SaveLease(s) \/ SetLease(s) PROVE OwnIds'
  BY <1>3, <1>4, Zenon DEF SaveLease, SetLease
<1>5. ASSUME NEW r \in Relay, NEW c \in Slot, NEW i \in RelayId, RegisterRelay(r, c, i) PROVE OwnIds'
  <2>1. PICK now : Registered(c, i, now)
    BY <1>5, RegisterRelayEffect, Zenon
  <2>2. rlWaits' = [rlWaits EXCEPT ![r] = c]
    BY <1>5, RegisterRelayEffect, Zenon
  <2>3. ASSUME NEW u \in Relay, rlId'[u] # NoId PROVE brOwner'[rlId'[u]] = u
    <3>1. rlId'[u] = rlId[u] /\ rlId[u] \in RelayId /\ brOwner[rlId[u]] = u
      BY <2>1, <2>3 DEF Registered, OwnIds, BrShape
    <3> QED
      BY <3>1, <1>5, OwnerEffect, Zenon
  <2>4. ASSUME NEW u \in Relay, rlWaits'[u] # NoId
        PROVE  brCall'[rlWaits'[u]].pc # "idle" /\ brOwner'[brCall'[rlWaits'[u]].id] = u
    <3>1. CASE u = r
      <4>1. rlWaits'[u] = c
        BY <2>2, <3>1, Zenon DEF BrShape
      <4> QED
        BY <2>1, <3>1, <4>1, <1>5, OwnerEffect DEF Registered
    <3>2. CASE u # r
      <4> DEFINE d == rlWaits[u]
      <4>1. rlWaits'[u] = d /\ d \in Slot /\ brCall[d].pc # "idle" /\ brOwner[brCall[d].id] = u
        BY <2>2, <2>4, <3>2 DEF BrShape, OwnIds
      <4>2. brCall'[d] = brCall[d]
        BY <2>1, <4>1, Zenon DEF Registered
      <4>3. brCall[d].id \in RelayId
        BY <4>1 DEF BrShape, Free, Handling
      <4> QED
        BY <4>1, <4>2, <4>3, <1>5, OwnerEffect
    <3> QED
      BY <3>1, <3>2, Zenon
  <2>5. ASSUME NEW s \in Session, brOpen'[s].pc = "lease", brOpen'[s].relay # NoId
        PROVE  brRelays'[brOpen'[s].relay] # NoReg
    <3>1. brOpen'[s] = brOpen[s] /\ brOpen[s].relay \in RelayId /\ brRelays[brOpen[s].relay] # NoReg
      BY <2>1, <2>5, Zenon DEF Registered, OwnIds, BrShape
    <3> QED
      BY <2>1, <3>1, Zenon DEF Registered
  <2>6. brUp' /\ \A d \in Slot : brCall'[d].pc # "idle" => brCall'[d].reg # NoReg
    BY <2>1 DEF Registered, OwnIds
  <2> QED
    BY <2>3, <2>4, <2>5, <2>6, Zenon DEF OwnIds
<1>6. ASSUME NEW r \in Relay, NEW c \in Slot, NEW t \in 0..Cardinality(Session), RelayHeartbeat(r, c, t)
      PROVE  OwnIds'
  <2> DEFINE i == rlId[r]
  <2>1. PICK now : Registered(c, i, now)
    BY <1>6, RelayHeartbeatEffect, Zenon
  <2>2. rlWaits' = [rlWaits EXCEPT ![r] = c] /\ brOwner' = brOwner /\ i \in RelayId
    BY <1>6, RelayHeartbeatEffect, Zenon
  <2>3. brOwner[i] = r
    BY <2>2, BrAssumption, Zenon DEF OwnIds
  <2>4. ASSUME NEW u \in Relay, rlWaits'[u] # NoId
        PROVE  brCall'[rlWaits'[u]].pc # "idle" /\ brOwner'[brCall'[rlWaits'[u]].id] = u
    <3>1. CASE u = r
      <4>1. rlWaits'[u] = c
        BY <2>2, <3>1, Zenon DEF BrShape
      <4> QED
        BY <2>1, <2>2, <2>3, <3>1, <4>1, Zenon DEF Registered
    <3>2. CASE u # r
      <4> DEFINE d == rlWaits[u]
      <4>1. rlWaits'[u] = d /\ d \in Slot /\ brCall[d].pc # "idle" /\ brOwner[brCall[d].id] = u
        BY <2>2, <2>4, <3>2 DEF BrShape, OwnIds
      <4>2. brCall'[d] = brCall[d]
        BY <2>1, <4>1, Zenon DEF Registered
      <4> QED
        BY <2>2, <4>1, <4>2, Zenon
    <3> QED
      BY <3>1, <3>2, Zenon
  <2>5. ASSUME NEW s \in Session, brOpen'[s].pc = "lease", brOpen'[s].relay # NoId
        PROVE  brRelays'[brOpen'[s].relay] # NoReg
    <3>1. brOpen'[s] = brOpen[s] /\ brOpen[s].relay \in RelayId /\ brRelays[brOpen[s].relay] # NoReg
      BY <2>1, <2>5, Zenon DEF Registered, OwnIds, BrShape
    <3> QED
      BY <2>1, <3>1, Zenon DEF Registered
  <2>6. brUp' /\ rlId' = rlId /\ \A d \in Slot : brCall'[d].pc # "idle" => brCall'[d].reg # NoReg
    BY <2>1 DEF Registered, OwnIds
  <2> QED
    BY <2>2, <2>4, <2>5, <2>6, Zenon DEF OwnIds
<1>7. ASSUME NEW c \in Slot, SaveRelay(c) PROVE OwnIds'
  <2>1. UNCHANGED <<brUp, brRelays, brOpen, rlId, rlWaits, brOwner>>
    BY <1>7, Zenon DEF SaveRelay
  <2>2. \A d \in Slot : /\ brCall'[d].id = brCall[d].id /\ brCall'[d].reg = brCall[d].reg
                        /\ brCall'[d].pc # "idle" <=> brCall[d].pc # "idle"
    BY <1>7, SaveRelayEffect, Zenon
  <2>3. \A r \in Relay : rlWaits[r] # NoId => rlWaits[r] \in Slot
    BY Zenon DEF BrShape
  <2> QED
    BY <2>1, <2>2, <2>3, Zenon DEF OwnIds
<1>8. ASSUME NEW c \in Slot, SetRelay(c) PROVE OwnIds'
  <2>1. /\ UNCHANGED <<brUp, brOpen, brOwner>> /\ brUp
        /\ rlId' = [r \in Relay |-> IF rlWaits[r] = c THEN brCall[c].id ELSE rlId[r]]
        /\ rlWaits' = [r \in Relay |-> IF rlWaits[r] = c THEN NoId ELSE rlWaits[r]]
    BY <1>8, Zenon DEF SetRelay
  <2>2. c # NoId
    BY BrAssumption, Zenon
  <2>3. \A r \in Relay : rlId'[r] # NoId => brOwner'[rlId'[r]] = r
    BY <2>1, <2>2, Zenon DEF OwnIds
  <2>4. \A r \in Relay : rlWaits'[r] # NoId => rlWaits'[r] = rlWaits[r] /\ rlWaits[r] \in Slot \ {c}
    BY <2>1, Zenon DEF BrShape
  <2>5. \A d \in Slot \ {c} : brCall'[d] = brCall[d]
    BY <1>8, SetRelayEffect, Zenon
  <2>6. \A r \in Relay : rlWaits'[r] # NoId =>
           brCall'[rlWaits'[r]].pc # "idle" /\ brOwner'[brCall'[rlWaits'[r]].id] = r
    BY <2>1, <2>4, <2>5 DEF OwnIds
  <2>7. \A i \in RelayId : brRelays[i] # NoReg => brRelays'[i] # NoReg
    <3>1. brCall[c].reg # NoReg
      BY <1>8, Zenon DEF SetRelay, OwnIds
    <3> QED
      BY <3>1, <1>8, SetRelayEffect, Zenon
  <2>8. \A s \in Session : brOpen[s].relay # NoId => brOpen[s].relay \in RelayId
    BY Zenon DEF BrShape
  <2>9. \A d \in Slot : brCall'[d].pc # "idle" => brCall'[d].reg # NoReg
    BY <1>8, SetRelayEffect DEF OwnIds, Free
  <2> QED
    BY <2>1, <2>3, <2>6, <2>7, <2>8, <2>9, Zenon DEF OwnIds
<1>9. ASSUME NEW r \in Relay, RelayGivesUp(r) PROVE OwnIds'
  <2>1. /\ UNCHANGED <<brUp, brRelays, brOpen, brCall, rlId, brOwner>>
        /\ \A u \in Relay : rlWaits'[u] # NoId => rlWaits'[u] = rlWaits[u]
    BY <1>9, Zenon DEF RelayGivesUp, BrShape
  <2> QED
    BY <2>1, Zenon DEF OwnIds
<1>10. CASE BrCrash
  <2>1. /\ UNCHANGED <<brRelays, rlId, brOwner>> /\ \A r \in Relay : rlWaits'[r] = NoId
        /\ \A s \in Session : brOpen'[s].pc # "lease"
        /\ \A c \in Slot : brCall'[c].pc = "idle"
    BY <1>10, Zenon DEF BrCrash, BrShape, Free
  <2> QED
    BY <2>1, Zenon DEF OwnIds
<1>11. CASE BrRestart
  <2>1. /\ UNCHANGED <<brOpen, brCall, rlId, rlWaits, brOwner>>
        /\ \A s \in Session : brOpen[s].pc # "lease"
        /\ brUp' = TRUE
    BY <1>11, Zenon DEF BrRestart, OwnIds
  <2> QED
    BY <2>1, Zenon DEF OwnIds
<1>12. CASE GetOld \/ UNCHANGED brVars
  <2>1. UNCHANGED <<brUp, brRelays, brOpen, brCall, rlId, rlWaits, brOwner>>
    BY <1>12, Zenon DEF GetOld, brVars
  <2> QED
    BY <2>1, Zenon DEF OwnIds
<1> QED
  BY <1>1, <1>2, <1>4, <1>5, <1>6, <1>7, <1>8, <1>9, <1>10, <1>11, <1>12, Zenon DEF BrNext


LEMMA CountStep == BrShape /\ BrShape' /\ OwnIds /\ CopiesCounted /\ [BrNext]_brVars => CopiesCounted'
<1> SUFFICES ASSUME BrShape, BrShape', OwnIds, CopiesCounted, [BrNext]_brVars PROVE CopiesCounted'
  BY Zenon
<1> DEFINE Ok(i, reg) == reg # NoReg => brOwner'[i] \in Relay /\ reg.assigned <= Leased'[brOwner'[i]]
<1>0. ASSUME \A i \in RelayId : Ok(i, brRelays'[i]) /\ Ok(i, brEntries'.relays[i]),
             \A c \in Slot : brCall'[c].pc # "idle" => Ok(brCall'[c].id, brCall'[c].reg)
      PROVE  CopiesCounted'
  BY <1>0, Zenon DEF CopiesCounted, Counted
<1>a. ASSUME Grows PROVE \A i \in RelayId : Ok(i, brRelays[i]) /\ Ok(i, brEntries.relays[i])
  <2>1. \A i \in RelayId : brRelays[i] \in RegOK /\ brEntries.relays[i] \in RegOK
    BY Zenon DEF BrShape, StateOK
  <2> QED
    BY <1>a, <2>1, CountedKept, Zenon DEF CopiesCounted
<1>b. ASSUME Grows PROVE \A c \in Slot : brCall[c].pc # "idle" => Ok(brCall[c].id, brCall[c].reg)
  <2>1. \A c \in Slot : brCall[c].pc # "idle" => brCall[c].id \in RelayId /\ brCall[c].reg \in RegOK
    BY DEF BrShape, Free, Handling
  <2> QED
    BY <1>b, <2>1, CountedKept, Zenon DEF CopiesCounted
<1>c. \A i \in RelayId : Ok(i, NoReg)
  BY Zenon
<1> HIDE DEF Ok
<1>1. ASSUME Grows, UNCHANGED <<brRelays, brEntries, brCall>> PROVE CopiesCounted'
  BY <1>0, <1>1, <1>a, <1>b, Zenon
<1>2. ASSUME NEW s \in Session, NEW region \in Region, SelectRelay(s, region) PROVE CopiesCounted'
  <2>1. UNCHANGED <<brRelays, brEntries, brCall, brOwner>>
    BY <1>2, Zenon DEF SelectRelay
  <2>2. Grows
    BY <1>2, <2>1, SelectEffect, Zenon DEF Grows
  <2> QED
    BY <1>1, <2>1, <2>2, Zenon
<1>3. ASSUME NEW s \in Session, WriteLease(s) PROVE CopiesCounted'
  <2>1. /\ UNCHANGED <<brEntries, brCall, brOwner>> /\ brOpen[s].pc = "lease"
        /\ brOpen' = [brOpen EXCEPT ![s].pc = "save"]
    BY <1>3, Zenon DEF WriteLease
  <2>2. /\ brOpen'[s].pc = "save" /\ brOpen'[s].relay = brOpen[s].relay
        /\ \A u \in Session \ {s} : brOpen'[u] = brOpen[u]
    BY <2>1, OpenEffect, Zenon DEF OpenPc
  <2>3. Grows
    BY <2>1, <2>2, Zenon DEF Grows
  <2>4. ASSUME NEW i \in RelayId, i = brOpen[s].relay PROVE Ok(i, brRelays'[i])
    <3>1. brRelays[i] # NoReg /\ i # NoId
      BY <2>1, <2>4, BrAssumption, Zenon DEF OwnIds
    <3>2. PICK r \in Relay : r = brOwner[i] /\ brRelays[i].assigned <= Leased[r]
      BY <3>1, Zenon DEF CopiesCounted, Counted
    <3> DEFINE A == LeasesOf(r)
               B == LeasesOf(r)'
    <3>3. s \notin A
      BY <2>1, Zenon DEF LeasesOf
    <3>4. A \cup {s} \subseteq B
      BY <2>1, <2>2, <2>4, <3>1, <3>2 DEF LeasesOf
    <3>5. A \subseteq Session /\ B \subseteq Session
      BY Zenon DEF LeasesOf
    <3>6. IsFiniteSet(A) /\ IsFiniteSet(B)
      BY <3>5, FS_Subset, BrAssumption, Zenon
    <3>7. Leased[r] = Cardinality(A) /\ Leased'[r] = Cardinality(B)
      BY <3>2, Zenon DEF Leased
    <3> HIDE DEF A, B
    <3>8. Cardinality(A \cup {s}) = Cardinality(A) + 1
      BY <3>3, <3>6, FS_AddElement, Zenon
    <3>9. Cardinality(A \cup {s}) <= Cardinality(B) /\ Cardinality(A) \in Nat /\ Cardinality(B) \in Nat
      BY <3>4, <3>6, FS_Subset, FS_CardinalityType, Zenon
    <3>10. brRelays'[i].assigned = brRelays[i].assigned + 1 /\ brRelays[i].assigned \in Nat
      <4>1. brRelays[i] \in RegOK
        BY Zenon DEF BrShape
      <4> QED
        BY <1>3, <2>4, <4>1, WriteLeaseEffect, Zenon DEF RegOK
    <3>11. brRelays'[i].assigned <= Leased'[r] /\ brOwner'[i] = r
      BY <2>1, <3>2, <3>7, <3>8, <3>9, <3>10
    <3> QED
      BY <3>2, <3>11, Zenon DEF Ok
  <2>5. ASSUME NEW i \in RelayId, i # brOpen[s].relay PROVE Ok(i, brRelays'[i])
    BY <1>3, <2>3, <2>5, <1>a, WriteLeaseEffect, Zenon
  <2> QED
    BY <1>0, <2>1, <2>3, <2>4, <2>5, <1>a, <1>b, Zenon
<1>4. ASSUME NEW s \in Session, SaveLease(s) PROVE CopiesCounted'
  <2>1. UNCHANGED <<brRelays, brEntries, brCall, brOwner>> /\ brOpen' = [brOpen EXCEPT ![s].pc = "set"]
    BY <1>4, Zenon DEF SaveLease
  <2>2. Grows
    BY <2>1, OpenEffect, Zenon DEF Grows, OpenPc
  <2> QED
    BY <1>1, <2>1, <2>2, Zenon
<1>5. ASSUME NEW s \in Session, SetLease(s) PROVE CopiesCounted'
  <2>1. UNCHANGED <<brRelays, brCall, brOwner>> /\ brOpen' = [brOpen EXCEPT ![s].pc = "done"]
    BY <1>5, Zenon DEF SetLease
  <2>2. Grows
    BY <2>1, OpenEffect, Zenon DEF Grows, OpenPc
  <2>3. brEntries'.relays = brEntries.relays
    BY <1>5, Zenon DEF SetLease, BrShape, StateOK
  <2> QED
    BY <1>0, <2>1, <2>2, <2>3, <1>a, <1>b, Zenon
<1>6. ASSUME NEW c \in Slot, NEW i \in RelayId, NEW now, Registered(c, i, now), Grows, Ok(i, now)
      PROVE  CopiesCounted'
  <2>1. brEntries' = brEntries
    BY <1>6, Zenon DEF Registered
  <2>2. \A j \in RelayId : Ok(j, brRelays'[j])
    BY <1>6, <1>a, Zenon DEF Registered
  <2>3. \A d \in Slot : brCall'[d].pc # "idle" => Ok(brCall'[d].id, brCall'[d].reg)
    BY <1>6, <1>b, Zenon DEF Registered
  <2> QED
    BY <1>0, <1>6, <1>a, <2>1, <2>2, <2>3, Zenon
<1>7. ASSUME NEW r \in Relay, NEW c \in Slot, NEW i \in RelayId, RegisterRelay(r, c, i) PROVE CopiesCounted'
  <2>1. PICK now : Registered(c, i, now) /\ now.assigned = brRelays[i].assigned
    BY <1>7, RegisterRelayEffect
  <2>2. Grows
    BY <1>7, <2>1, OwnerEffect, Zenon DEF Grows, Registered
  <2>3. Ok(i, now)
    <3>1. brOwner'[i] = r
      BY <1>7, OwnerEffect, Zenon
    <3>2. Leased'[r] \in Nat
      BY <2>2, LeasedGrows, Zenon
    <3>3. CASE brRelays[i] = NoReg
      BY <2>1, <3>1, <3>2, <3>3 DEF NoReg, Ok
    <3>4. CASE brRelays[i] # NoReg
      BY <2>1, <2>2, <3>4, <1>a, Zenon DEF Ok
    <3> QED
      BY <3>3, <3>4, Zenon
  <2> QED
    BY <1>6, <2>1, <2>2, <2>3, Zenon
<1>8. ASSUME NEW r \in Relay, NEW c \in Slot, NEW t \in 0..Cardinality(Session), RelayHeartbeat(r, c, t)
      PROVE  CopiesCounted'
  <2> DEFINE i == rlId[r]
  <2>1. PICK now : Registered(c, i, now) /\ now.assigned = t
    BY <1>8, RelayHeartbeatEffect, Zenon
  <2>2. i \in RelayId /\ brOwner' = brOwner /\ t \in Nat /\ t <= Leased[r]
    BY <1>8, RelayHeartbeatEffect, Zenon
  <2>3. brOwner[i] = r
    BY <2>2, BrAssumption, Zenon DEF OwnIds
  <2>4. Grows
    BY <2>1, <2>2, Zenon DEF Grows, Registered
  <2>5. Leased[r] <= Leased'[r] /\ Leased[r] \in Nat /\ Leased'[r] \in Nat
    BY <2>4, LeasedGrows, Zenon
  <2>6. Ok(i, now)
    BY <2>1, <2>2, <2>3, <2>5 DEF Ok
  <2> HIDE DEF i
  <2> QED
    BY <1>6, <2>1, <2>2, <2>4, <2>6, Zenon
<1>9. ASSUME NEW c \in Slot, SaveRelay(c) PROVE CopiesCounted'
  <2>1. UNCHANGED <<brRelays, brEntries, brOpen, brOwner>>
    BY <1>9, Zenon DEF SaveRelay
  <2>2. Grows
    BY <2>1, Zenon DEF Grows
  <2>3. \A d \in Slot : brCall'[d].pc # "idle" =>
           brCall[d].pc # "idle" /\ brCall'[d].id = brCall[d].id /\ brCall'[d].reg = brCall[d].reg
    BY <1>9, SaveRelayEffect, Zenon
  <2>4. \A d \in Slot : brCall'[d].pc # "idle" => Ok(brCall'[d].id, brCall'[d].reg)
    BY <2>2, <2>3, <1>b, Zenon
  <2> QED
    BY <1>0, <1>a, <2>1, <2>2, <2>4, Zenon
<1>10. ASSUME NEW c \in Slot, SetRelay(c) PROVE CopiesCounted'
  <2>1. UNCHANGED <<brOpen, brOwner>> /\ brCall[c].pc = "set"
    BY <1>10, Zenon DEF SetRelay
  <2>2. Grows
    BY <2>1, Zenon DEF Grows
  <2>3. Ok(brCall[c].id, brCall[c].reg)
    BY <2>1, <2>2, <1>b, Zenon
  <2>4. \A j \in RelayId : Ok(j, brRelays'[j]) /\ Ok(j, brEntries'.relays[j])
    BY <1>10, <2>2, <2>3, <1>a, SetRelayEffect
  <2>5. \A d \in Slot : brCall'[d].pc # "idle" => d # c /\ brCall'[d] = brCall[d]
    BY <1>10, SetRelayEffect DEF Free
  <2>6. \A d \in Slot : brCall'[d].pc # "idle" => Ok(brCall'[d].id, brCall'[d].reg)
    BY <2>2, <2>5, <1>b, Zenon
  <2> QED
    BY <1>0, <2>4, <2>6, Zenon
<1>11. CASE BrCrash
  <2>1. /\ UNCHANGED <<brRelays, brEntries, brOwner>>
        /\ \A c \in Slot : brCall'[c].pc = "idle"
        /\ \A s \in Session : /\ brOpen'[s].relay = brOpen[s].relay
                              /\ brOpen[s].pc # "idle" => brOpen'[s].pc \notin {"idle", "lease"}
    BY <1>11 DEF BrCrash, BrShape, Free
  <2>2. Grows
    BY <2>1, Zenon DEF Grows
  <2> QED
    BY <1>0, <1>a, <2>1, <2>2, Zenon
<1>12. CASE BrRestart
  <2>1. /\ UNCHANGED <<brOpen, brCall, brOwner>>
        /\ brEntries' = Loaded /\ brRelays' = Loaded.relays
    BY <1>12, Zenon DEF BrRestart
  <2>2. Grows
    BY <2>1, Zenon DEF Grows
  <2>3. \A i \in RelayId : Loaded.relays[i] \in {brEntries.relays[i], NoReg}
    BY Zenon DEF Loaded, NoState, NoRegs
  <2>4. \A i \in RelayId : Ok(i, Loaded.relays[i])
    BY <1>a, <1>c, <2>2, <2>3, Zenon
  <2> QED
    BY <1>0, <1>b, <2>1, <2>2, <2>4, Zenon
<1>13. ASSUME UNCHANGED <<brRelays, brEntries, brOpen, brCall, brOwner>> PROVE CopiesCounted'
  BY <1>1, <1>13, Zenon DEF Grows
<1>14. ASSUME NEW r \in Relay, RelayGivesUp(r) PROVE CopiesCounted'
  BY <1>13, <1>14, Zenon DEF RelayGivesUp
<1>15. GetOld \/ UNCHANGED brVars => CopiesCounted'
  BY <1>13, Zenon DEF GetOld, brVars
<1> QED
  BY <1>2, <1>3, <1>4, <1>5, <1>7, <1>8, <1>9, <1>10, <1>11, <1>12, <1>14, <1>15, Zenon DEF BrNext

LEMMA AgreesStep == BrShape /\ RegistryAgrees /\ [BrNext]_brVars => RegistryAgrees'
<1> SUFFICES ASSUME BrShape, RegistryAgrees, [BrNext]_brVars PROVE RegistryAgrees'
  BY Zenon
<1>1. ASSUME UNCHANGED <<brUp, brRelays, brEntries, brCall>> PROVE RegistryAgrees'
  BY <1>1, Zenon DEF RegistryAgrees
<1>2. ASSUME NEW s \in Session, (\E region \in Region : SelectRelay(s, region)) \/ SaveLease(s)
      PROVE  RegistryAgrees'
  BY <1>1, <1>2, Zenon DEF SelectRelay, SaveLease
<1>3. ASSUME NEW s \in Session, WriteLease(s) PROVE RegistryAgrees'
  <2>1. UNCHANGED <<brUp, brEntries, brCall>>
    BY <1>3, Zenon DEF WriteLease
  <2>2. \A i \in RelayId : brRelays'[i].beat = brRelays[i].beat /\ brRelays'[i].region = brRelays[i].region
    BY <1>3, WriteLeaseEffect, Zenon
  <2> QED
    BY <2>1, <2>2, Zenon DEF RegistryAgrees
<1>4. ASSUME NEW s \in Session, SetLease(s) PROVE RegistryAgrees'
  <2>1. UNCHANGED <<brUp, brRelays, brCall>>
    BY <1>4, Zenon DEF SetLease
  <2>2. brEntries'.relays = brEntries.relays
    BY <1>4, Zenon DEF SetLease, BrShape, StateOK
  <2> QED
    BY <2>1, <2>2, Zenon DEF RegistryAgrees
<1>5. ASSUME NEW c \in Slot, NEW i \in RelayId, NEW now, Registered(c, i, now) PROVE RegistryAgrees'
  BY <1>5 DEF Registered, RegistryAgrees
<1>6. ASSUME NEW r \in Relay, NEW c \in Slot,
             \/ \E i \in RelayId : RegisterRelay(r, c, i)
             \/ \E t \in 0..Cardinality(Session) : RelayHeartbeat(r, c, t)
      PROVE  RegistryAgrees'
  BY <1>5, <1>6, RegisterRelayEffect, RelayHeartbeatEffect
<1>7. ASSUME NEW c \in Slot, SaveRelay(c) PROVE RegistryAgrees'
  <2>1. UNCHANGED <<brUp, brRelays, brEntries>>
    BY <1>7, Zenon DEF SaveRelay
  <2>2. \A d \in Slot : brCall'[d].id = brCall[d].id /\ (brCall[d].pc # "idle" => brCall'[d].pc # "idle")
    BY <1>7, SaveRelayEffect, Zenon
  <2> QED
    BY <2>1, <2>2, Zenon DEF RegistryAgrees
<1>8. ASSUME NEW c \in Slot, SetRelay(c) PROVE RegistryAgrees'
  <2>1. UNCHANGED brUp /\ brCall[c].pc = "set"
    BY <1>8, Zenon DEF SetRelay
  <2>2. ASSUME NEW i \in RelayId, brUp', \A d \in Slot : brCall'[d].pc # "idle" => brCall'[d].id # i
        PROVE  brRelays'[i].beat = brEntries'.relays[i].beat /\ brRelays'[i].region = brEntries'.relays[i].region
    <3>1. CASE i = brCall[c].id
      BY <1>8, <3>1, SetRelayEffect, Zenon
    <3>2. CASE i # brCall[c].id
      <4>1. \A d \in Slot : brCall[d].pc # "idle" => brCall[d].id # i
        BY <1>8, <2>2, <3>2, SetRelayEffect
      <4>2. brRelays'[i] = brRelays[i] /\ brEntries'.relays[i] = brEntries.relays[i]
        BY <1>8, <3>2, SetRelayEffect, Zenon
      <4> QED
        BY <2>1, <2>2, <4>1, <4>2, Zenon DEF RegistryAgrees
    <3> QED
      BY <3>1, <3>2, Zenon
  <2> QED
    BY <2>2, Zenon DEF RegistryAgrees
<1>9. CASE BrCrash
  BY <1>9, Zenon DEF BrCrash, RegistryAgrees
<1>10. CASE BrRestart
  BY <1>10, Zenon DEF BrRestart, RegistryAgrees
<1>11. ASSUME NEW r \in Relay, RelayGivesUp(r) PROVE RegistryAgrees'
  BY <1>1, <1>11, Zenon DEF RelayGivesUp
<1>12. GetOld \/ UNCHANGED brVars => RegistryAgrees'
  BY <1>1, Zenon DEF GetOld, brVars
<1> QED
  BY <1>2, <1>3, <1>4, <1>6, <1>7, <1>8, <1>9, <1>10, <1>11, <1>12, Zenon DEF BrNext

\* What selectRelay reads is right, in whatever order the handlers and the
\* callbacks of earlier registrations write it: the map agrees with the
\* replicated entries once no handler is on its way, and no registration counts
\* more tunnels than the leases of its relay.
THEOREM RegistryIsSound == BrSpec => []RegistrySound
<1>1. BrInit => BrInv
  BY BrokerInit, Zenon
<1>2. BrInv /\ [BrNext]_brVars => BrInv'
  BY BrShapeStep, LeaseStep, OwnStep, CountStep, AgreesStep, Zenon DEF BrInv
<1>3. BrInv => RegistrySound
  <2> SUFFICES ASSUME BrInv PROVE AssignedBounded
    BY Zenon DEF BrInv, RegistrySound
  <2>1. ASSUME NEW i \in RelayId, brRelays[i] # NoReg
        PROVE  brRelays[i].assigned <= Cardinality(LeasesOf(brOwner[i]))
    BY <2>1, Zenon DEF BrInv, CopiesCounted, Counted, Leased
  <2> QED
    BY <2>1, Zenon DEF AssignedBounded
<1> QED
  BY <1>1, <1>2, <1>3, PTL DEF BrSpec


(***************************************************************************)
(* Election.                                                               *)
(***************************************************************************)
\* The lowest of a set of identifiers, triggerElection's winner, is in the set.
LEMMA MinIn ==
    ASSUME NEW S \in SUBSET Nat, S # {}
    PROVE  Min(S) \in S
<1> DEFINE R == OpToRel(<, Nat)
<1>1. \E x \in S : \A y \in S : ~ (<<y, x>> \in R)
  <2> HIDE DEF R
  <2> IsWellFoundedOn(R, Nat)
    BY NatLessThanWellFounded, Zenon DEF R
  <2> QED
    BY WFMin, Zenon
<1>2. \A x, y \in Nat : y < x => <<y, x>> \in R
  BY Zenon DEF OpToRel
<1>3. \E x \in S : \A y \in S : ~ (y < x)
  <2> HIDE DEF R
  <2> QED
    BY <1>1, <1>2, Zenon
<1>4. \E x \in S : \A y \in S : x =< y
  BY <1>3
<1> QED
  BY <1>4, Zenon DEF Min

EntryOK == [status : Status, isLeader : BOOLEAN, late : BOOLEAN]

LEMMA NewTableOK == \A n \in Node : NewTable(n) \in [Node -> EntryOK]
BY Zenon DEF NewTable, EntryOK, Status

LEMMA ElectionInit == ElInit => ElInv
<1> SUFFICES ASSUME ElInit PROVE ElInv
  BY Zenon
<1>1. elNodes \in [Node -> [Node -> EntryOK]]
  BY NewTableOK, Zenon DEF ElInit
<1>2. elElect \in [Node -> 0..MaxElect] /\ elDown \in 0..MaxCrash /\ elBack \in 0..MaxRestart
  BY ElAssumption DEF ElInit
<1>3. elUp \subseteq Node /\ elWire \subseteq Heartbeat /\ elLeader \in [Node -> Node \cup {NoLeader}]
  BY Zenon DEF ElInit
<1>4. LeaderListed
  BY Zenon DEF ElInit, LeaderListed
<1> QED
  BY <1>1, <1>2, <1>3, <1>4, Zenon DEF ElInv, ElTypeOK, EntryOK

\* Every method of the replicator keeps the leader it names in its table.
LEMMA ElectionStep == ElInv /\ [ElNext]_elVars => ElInv'
<1> SUFFICES ASSUME ElInv, [ElNext]_elVars PROVE ElInv'
  BY Zenon
<1>a. ElTypeOK /\ LeaderListed
  BY Zenon DEF ElInv
<1>n. elNodes \in [Node -> [Node -> EntryOK]]
  BY <1>a, Zenon DEF ElTypeOK, EntryOK
<1>s. "failed" \in Status /\ "active" \in Status /\ "standby" \in Status /\ TRUE \in BOOLEAN
  BY Zenon DEF Status
<1>b. ElTypeOK' /\ LeaderListed' => ElInv'
  BY Zenon DEF ElInv
<1>1. ASSUME NEW n \in Node, SendHeartbeat(n) PROVE ElInv'
  <2> DEFINE claim == elLeader[n] = n
             new == [elNodes[n][n] EXCEPT !.isLeader = claim]
  <2>1. claim \in BOOLEAN
    BY Zenon
  <2>2. /\ elNodes' = [elNodes EXCEPT ![n][n] = new]
        /\ elWire' = elWire \cup {[from |-> n, to |-> m, isLeader |-> claim] : m \in Node \ {n}}
        /\ UNCHANGED <<elUp, elLeader, elElect, elDown, elBack>>
    BY <1>1, <1>n, Zenon DEF SendHeartbeat
  <2> HIDE DEF claim
  <2>3. new \in EntryOK /\ new.status = elNodes[n][n].status
    <3> elNodes[n][n] \in EntryOK
      BY <1>n, Zenon
    <3> QED
      BY <2>1, Zenon DEF EntryOK
  <2>4. elWire' \subseteq Heartbeat
    BY <2>1, <2>2, <1>a DEF ElTypeOK, Heartbeat
  <2> HIDE DEF new
  <2>5. elNodes' \in [Node -> [Node -> EntryOK]]
    BY <2>2, <2>3, <1>n, Zenon
  <2>6. ElTypeOK'
    BY <2>2, <2>4, <2>5, <1>a, Zenon DEF ElTypeOK, EntryOK
  <2>7. LeaderListed'
    BY <2>2, <2>3, <1>n, <1>a, Zenon DEF ElTypeOK, LeaderListed
  <2> QED
    BY <2>6, <2>7, <1>b, Zenon
<1>2. ASSUME NEW n \in Node, CheckNodeHealth(n) PROVE ElInv'
  <2> DEFINE checked == [m \in Node |-> IF m \in Overdue(n)
                                       THEN [elNodes[n][m] EXCEPT !.status = "failed"] ELSE elNodes[n][m]]
  <2>1. /\ elNodes' = [elNodes EXCEPT ![n] = checked]
        /\ UNCHANGED <<elUp, elWire, elDown, elBack>>
    BY <1>a, <1>2, Zenon DEF CheckNodeHealth, ElTypeOK
  <2>e. ASSUME NEW m \in Node
        PROVE  /\ checked[m] \in EntryOK
               /\ elNodes[n][m].status # "absent" => checked[m].status # "absent"
    <3> elNodes[n][m] \in EntryOK
      BY <1>n, Zenon
    <3> QED
      BY <1>s, Zenon DEF EntryOK
  <2>2. checked \in [Node -> EntryOK]
    BY <2>e, Zenon
  <2>3. \A m \in Node : elNodes[n][m].status # "absent" => checked[m].status # "absent"
    BY <2>e, Zenon
  <2>4. elLeader' \in [Node -> Node \cup {NoLeader}] /\ elElect' \in [Node -> 0..MaxElect]
    BY <1>a, <1>2, ElAssumption DEF CheckNodeHealth, ElTypeOK
  <2>5. \A m \in Node : elLeader'[m] \in {elLeader[m], NoLeader}
    BY <1>a, <1>2, Zenon DEF CheckNodeHealth, ElTypeOK
  <2> HIDE DEF checked
  <2>6. ElTypeOK'
    <3>1. elNodes' \in [Node -> [Node -> EntryOK]]
      BY <2>1, <2>2, <1>n, Zenon
    <3> QED
      BY <1>a, <2>1, <2>4, <3>1, Zenon DEF ElTypeOK, EntryOK
  <2>7. LeaderListed'
    BY <1>a, <2>1, <2>3, <2>4, <2>5, Zenon DEF ElTypeOK, LeaderListed
  <2> QED
    BY <2>6, <2>7, <1>b, Zenon
<1>3. ASSUME NEW n \in Node, ElectionTick(n) PROVE ElInv'
  BY <1>a, <1>b, <1>3, ElAssumption DEF ElectionTick, ElTypeOK, LeaderListed
<1>4. ASSUME NEW n \in Node, TriggerElection(n) PROVE ElInv'
  <2>1. CASE UNCHANGED <<elNodes, elLeader>>
    BY <2>1, <1>a, <1>b, <1>4, ElAssumption DEF TriggerElection, ElTypeOK, LeaderListed
  <2>2. CASE ~ UNCHANGED <<elNodes, elLeader>>
    <3> DEFINE winner == Min(Candidates(n))
    <3>1. /\ Candidates(n) # {}
          /\ elLeader' = [elLeader EXCEPT ![n] = winner]
          /\ elNodes' = [elNodes EXCEPT ![n] = [m \in Node |-> Elected(n, m, winner)]]
          /\ UNCHANGED <<elUp, elWire, elDown, elBack>>
      BY <2>2, <1>4, Zenon DEF TriggerElection
    <3>2. winner \in Node /\ elNodes[n][winner].status = "active"
      <4>1. Candidates(n) \in SUBSET Nat
        BY ElAssumption, Zenon DEF Candidates
      <4> QED
        BY <4>1, <3>1, MinIn, Zenon DEF Candidates
    <3>3. elElect' \in [Node -> 0..MaxElect]
      BY <1>a, <1>4, ElAssumption DEF ElTypeOK, TriggerElection
    <3> HIDE DEF winner
    <3>4. ASSUME NEW m \in Node
          PROVE  /\ Elected(n, m, winner) \in EntryOK
                 /\ elNodes[n][m].status # "absent" => Elected(n, m, winner).status # "absent"
      <4> DEFINE lead == m = winner
                 st == IF lead THEN "active" ELSE "standby"
      <4>1. lead \in BOOLEAN /\ st \in Status /\ st # "absent"
        BY <1>s, Zenon
      <4>2. Elected(n, m, winner) = IF elNodes[n][m].status = "absent" THEN elNodes[n][m]
                                    ELSE [elNodes[n][m] EXCEPT !.isLeader = lead, !.status = st]
        BY Zenon DEF Elected
      <4> HIDE DEF lead, st
      <4> QED
        <5> elNodes[n][m] \in EntryOK
          BY <1>n, Zenon
        <5> QED
          BY <4>1, <4>2, Zenon DEF EntryOK
    <3>5. elNodes' \in [Node -> [Node -> EntryOK]]
      BY <1>n, <3>1, <3>4, Zenon
    <3>6. ElTypeOK'
      BY <1>a, <3>1, <3>2, <3>3, <3>5, Zenon DEF ElTypeOK, EntryOK
    <3>7. LeaderListed'
      BY <1>a, <1>n, <3>1, <3>2, <3>4, Zenon DEF ElTypeOK, LeaderListed
    <3> QED
      BY <3>6, <3>7, <1>b, Zenon
  <2> QED
    BY <2>1, <2>2, Zenon
<1>5. ASSUME NEW n \in Node, ElCrash(n) PROVE ElInv'
  BY <1>a, <1>b, <1>5, ElAssumption DEF ElCrash, ElTypeOK, LeaderListed
<1>6. ASSUME NEW n \in Node, ElRestart(n) PROVE ElInv'
  <2>1. ElTypeOK'
    BY <1>a, <1>6, NewTableOK, ElAssumption DEF ElRestart, ElTypeOK, EntryOK
  <2>2. LeaderListed'
    BY <1>a, <1>6, ElAssumption, Zenon DEF ElRestart, ElTypeOK, LeaderListed
  <2> QED
    BY <2>1, <2>2, <1>b, Zenon
<1>7. ASSUME NEW n \in Node, NEW m \in Node, HeartbeatLate(n, m) PROVE ElInv'
  <2> DEFINE new == [elNodes[n][m] EXCEPT !.late = TRUE]
  <2>1. /\ elNodes' = [elNodes EXCEPT ![n][m] = new]
        /\ UNCHANGED <<elUp, elLeader, elElect, elWire, elDown, elBack>>
    BY <1>7, <1>n, Zenon DEF HeartbeatLate
  <2>2. new \in EntryOK /\ new.status = elNodes[n][m].status
    <3> elNodes[n][m] \in EntryOK
      BY <1>n, Zenon
    <3> QED
      BY <1>s, Zenon DEF EntryOK
  <2> HIDE DEF new
  <2>3. elNodes' \in [Node -> [Node -> EntryOK]]
    BY <2>1, <2>2, <1>n, Zenon
  <2>4. ElTypeOK'
    BY <2>1, <2>3, <1>a, Zenon DEF ElTypeOK, EntryOK
  <2>5. LeaderListed'
    BY <2>1, <2>2, <1>n, <1>a, Zenon DEF ElTypeOK, LeaderListed
  <2> QED
    BY <2>4, <2>5, <1>b, Zenon
<1>8. ASSUME NEW n \in Node, NEW m \in Node, RegisterNode(n, m) PROVE ElInv'
  BY <1>a, <1>b, <1>8, Zenon DEF RegisterNode, ElTypeOK, LeaderListed, Status, EntryOK
<1>9. ASSUME NEW n \in Node, NEW m \in Node, RemoveNode(n, m) PROVE ElInv'
  BY <1>a, <1>b, <1>9, ElAssumption, Zenon DEF RemoveNode, ElTypeOK, LeaderListed, Status, EntryOK
<1>10. ASSUME NEW h \in elWire, HandlePeerHeartbeat(h) PROVE ElInv'
  BY <1>a, <1>b, <1>10, Zenon DEF HandlePeerHeartbeat, ApplyHeartbeat, ElTypeOK, LeaderListed, Status, Heartbeat, EntryOK
<1>11. ASSUME NEW h \in elWire, LoseHeartbeat(h) PROVE ElInv'
  BY <1>a, <1>b, <1>11, Zenon DEF LoseHeartbeat, ElTypeOK, LeaderListed
<1>12. CASE UNCHANGED elVars
  BY <1>a, <1>b, <1>12, Zenon DEF elVars, ElTypeOK, LeaderListed
<1> QED
  BY <1>1, <1>2, <1>3, <1>4, <1>5, <1>6, <1>7, <1>8, <1>9, <1>10, <1>11, <1>12, Zenon DEF ElNext

\* The leader a broker names is always in its own table of nodes, however
\* heartbeats, elections, removals, crashes and restarts interleave.
THEOREM ElectionSafe == ElSpec => []ElInv
BY ElectionInit, ElectionStep, PTL DEF ElSpec
=============================================================================
