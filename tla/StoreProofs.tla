---------------------------- MODULE StoreProofs ----------------------------
(***************************************************************************)
(* Proofs about the broker's replicated store (Replication), for any       *)
(* number of nodes, keys, writes, errors and crashes.                      *)
(***************************************************************************)
EXTENDS Replication, WellFoundedInduction, TLAPS

(***************************************************************************)
(* The replicated store.                                                   *)
(***************************************************************************)
\* A state file or the memory of a store: a record with one entry for every key.
IsFiles(f) == DOMAIN f = {"entries", "logs", "snap"} /\ DOMAIN f.entries = Key

Shapes ==
    /\ DOMAIN rpStore = Peer /\ DOMAIN rpDisk = Peer /\ DOMAIN rpLocal = Peer /\ DOMAIN rpMay = Peer
    /\ DOMAIN rpOp = Peer /\ DOMAIN rpSync = Peer /\ rpUp \subseteq Peer
    /\ \A n \in Peer : IsFiles(rpStore[n]) /\ IsFiles(rpDisk[n]) /\ DOMAIN rpMay[n] = Key
    /\ \A n \in Peer \ rpSpoilt : n \in rpUp /\ DOMAIN rpLocal[n] = Key

\* What the store and the file of n hold, they may hold.
Durable(n) ==
    \A k \in Key : rpDisk[n].entries[k] \in rpMay[n][k] /\ rpStore[n].entries[k] \in rpMay[n][k]

\* Between the two steps of Set and Delete the node runs, the store has the new
\* entry, and no synchronisation holds the mutex.
Pending(n) ==
    rpOp[n].pc = "log" =>
        /\ rpOp[n].key \in Key
        /\ rpStore[n].entries[rpOp[n].key] = rpOp[n].entry
        /\ rpSync[n].pc \notin {"apply", "load"}
        /\ n \in rpUp

\* localState is as old as the store but for the key that is being written.
Cached(n) ==
    n \notin rpSpoilt =>
        \A k \in Key : \/ rpLocal[n][k] = Nothing
                       \/ rpStore[n].entries[k] = rpLocal[n][k]
                       \/ rpOp[n].pc = "log" /\ rpOp[n].key = k

RpInv == Shapes /\ \A n \in Peer : Durable(n) /\ Pending(n) /\ Cached(n)

\* persist() in one node leaves the others alone.
LEMMA PersistFacts == ASSUME Shapes, NEW n \in Peer, NEW files, IsFiles(files), NEW outcome \in Outcome,
                             Persist(n, files, outcome)
                      PROVE  /\ DOMAIN rpStore' = Peer /\ DOMAIN rpDisk' = Peer
                             /\ rpStore'[n] = files
                             /\ rpDisk'[n] = IF outcome = "old" THEN rpDisk[n] ELSE files
                             /\ \A m \in Peer \ {n} : rpStore'[m] = rpStore[m] /\ rpDisk'[m] = rpDisk[m]
                             /\ \A m \in Peer : IsFiles(rpStore'[m]) /\ IsFiles(rpDisk'[m])
                             /\ rpSpoilt \subseteq rpSpoilt' /\ rpSpoilt' \subseteq rpSpoilt \cup {n}
                             /\ outcome # "ok" => n \in rpSpoilt'
<1>1. /\ DOMAIN rpStore' = Peer /\ DOMAIN rpDisk' = Peer
      /\ rpStore'[n] = files
      /\ rpDisk'[n] = IF outcome = "old" THEN rpDisk[n] ELSE files
      /\ \A m \in Peer \ {n} : rpStore'[m] = rpStore[m] /\ rpDisk'[m] = rpDisk[m]
  BY Zenon DEF Persist, Shapes
<1>2. \A m \in Peer : IsFiles(rpStore'[m]) /\ IsFiles(rpDisk'[m])
  BY <1>1 DEF Shapes, IsFiles
<1>3. /\ rpSpoilt \subseteq rpSpoilt' /\ rpSpoilt' \subseteq rpSpoilt \cup {n}
      /\ outcome # "ok" => n \in rpSpoilt'
  BY Zenon DEF Persist
<1> QED
  BY <1>1, <1>2, <1>3, Zenon

\* One entry of a store replaced.
LEMMA EntryFacts == ASSUME NEW f, IsFiles(f), NEW k, NEW e
                    PROVE  /\ IsFiles([f EXCEPT !.entries[k] = e])
                           /\ k \in Key => [f EXCEPT !.entries[k] = e].entries[k] = e
                           /\ \A j \in Key \ {k} : [f EXCEPT !.entries[k] = e].entries[j] = f.entries[j]
  BY Zenon DEF IsFiles

\* The logs or the snapshot of a store replaced: the entries stay.
LEMMA OtherFacts == ASSUME NEW f, IsFiles(f), NEW e
                    PROVE  /\ IsFiles([f EXCEPT !.logs = e]) /\ [f EXCEPT !.logs = e].entries = f.entries
                           /\ IsFiles([f EXCEPT !.snap = e]) /\ [f EXCEPT !.snap = e].entries = f.entries
  BY Zenon DEF IsFiles

\* A step of node n keeps the invariant if it does so for n and leaves the other
\* nodes alone.
Elsewhere(n) ==
    /\ DOMAIN rpStore' = Peer /\ DOMAIN rpDisk' = Peer /\ DOMAIN rpLocal' = Peer /\ DOMAIN rpMay' = Peer
    /\ DOMAIN rpOp' = Peer /\ DOMAIN rpSync' = Peer /\ rpUp' \subseteq rpUp \cup {n}
    /\ \A m \in Peer \ {n} : /\ rpStore'[m] = rpStore[m] /\ rpDisk'[m] = rpDisk[m] /\ rpLocal'[m] = rpLocal[m]
                             /\ rpMay'[m] = rpMay[m] /\ rpOp'[m] = rpOp[m] /\ rpSync'[m] = rpSync[m]
                             /\ (m \in rpUp' <=> m \in rpUp) /\ (m \in rpSpoilt' <=> m \in rpSpoilt)

\* What has to be shown for n only.
LEMMA NodeStep == ASSUME RpInv, NEW n \in Peer, Elsewhere(n),
                         IsFiles(rpStore'[n]), IsFiles(rpDisk'[n]), DOMAIN rpMay'[n] = Key,
                         n \notin rpSpoilt' => n \in rpUp' /\ DOMAIN rpLocal'[n] = Key,
                         Durable(n)', Pending(n)', Cached(n)'
                  PROVE  RpInv'
<1>1. Shapes'
  <2>1. \A m \in Peer : IsFiles(rpStore'[m]) /\ IsFiles(rpDisk'[m]) /\ DOMAIN rpMay'[m] = Key
    BY Zenon DEF Elsewhere, RpInv, Shapes
  <2>2. \A m \in Peer \ rpSpoilt' : m \in rpUp' /\ DOMAIN rpLocal'[m] = Key
    BY Zenon DEF Elsewhere, RpInv, Shapes
  <2>3. rpUp' \subseteq Peer
    BY Zenon DEF Elsewhere, RpInv, Shapes
  <2> QED
    BY <2>1, <2>2, <2>3, Zenon DEF Elsewhere, Shapes, IsFiles
<1>2. ASSUME NEW m \in Peer PROVE (Durable(m) /\ Pending(m) /\ Cached(m))'
  <2>1. CASE m = n
    BY <2>1, Zenon
  <2>2. CASE m # n
    BY <2>2 DEF Elsewhere, RpInv, Durable, Pending, Cached
  <2> QED
    BY <2>1, <2>2, Zenon
<1> QED
  BY <1>1, <1>2, Zenon DEF RpInv

\* Set and Delete up to the answer of the store.
LEMMA StoreWriteStep == ASSUME RpInv, NEW n \in Peer, NEW k \in Key, NEW val, NEW outcome \in Outcome,
                               StoreWrite(n, k, val, outcome)
                        PROVE  RpInv'
<1> DEFINE entry == IF val = 0 THEN Nothing ELSE [ver |-> rpSeq[n] + 1, val |-> val]
           files == [rpStore[n] EXCEPT !.entries[k] = entry]
           op == IF outcome = "ok" THEN [pc |-> "log", key |-> k, val |-> val, entry |-> entry] ELSE NoOp
<1>1. /\ Persist(n, files, outcome) /\ rpMay' = [rpMay EXCEPT ![n][k] = @ \cup {entry}]
      /\ rpOp' = [rpOp EXCEPT ![n] = op] /\ UNCHANGED <<rpUp, rpLocal, rpSync>>
      /\ n \in rpUp /\ MutexFree(n)
  BY Zenon DEF StoreWrite
<1>2. Shapes /\ Durable(n) /\ Cached(n) /\ IsFiles(rpStore[n]) /\ DOMAIN rpMay[n] = Key
  BY Zenon DEF RpInv, Shapes
<1> HIDE DEF entry
<1>3. IsFiles(files) /\ files.entries[k] = entry /\ \A j \in Key \ {k} : files.entries[j] = rpStore[n].entries[j]
  BY <1>2, EntryFacts
<1> HIDE DEF files
<1>4. /\ DOMAIN rpStore' = Peer /\ DOMAIN rpDisk' = Peer
      /\ rpStore'[n] = files
      /\ rpDisk'[n] = IF outcome = "old" THEN rpDisk[n] ELSE files
      /\ \A m \in Peer \ {n} : rpStore'[m] = rpStore[m] /\ rpDisk'[m] = rpDisk[m]
      /\ \A m \in Peer : IsFiles(rpStore'[m]) /\ IsFiles(rpDisk'[m])
      /\ rpSpoilt \subseteq rpSpoilt' /\ rpSpoilt' \subseteq rpSpoilt \cup {n}
      /\ outcome # "ok" => n \in rpSpoilt'
  BY <1>1, <1>2, <1>3, PersistFacts, Zenon
<1>5. /\ DOMAIN rpMay' = Peer /\ DOMAIN rpMay'[n] = Key /\ rpMay'[n][k] = rpMay[n][k] \cup {entry}
      /\ \A j \in Key \ {k} : rpMay'[n][j] = rpMay[n][j]
      /\ \A m \in Peer \ {n} : rpMay'[m] = rpMay[m]
  BY <1>1, <1>2, Zenon DEF Shapes
<1>6. DOMAIN rpOp' = Peer /\ rpOp'[n] = op /\ \A m \in Peer \ {n} : rpOp'[m] = rpOp[m]
  BY <1>1, <1>2, Zenon DEF Shapes
<1>7. Durable(n)'
  BY <1>2, <1>3, <1>4, <1>5 DEF Durable
<1>8. outcome = "ok" => rpOp'[n].pc = "log" /\ rpOp'[n].key = k /\ rpOp'[n].entry = entry
  BY <1>6
<1>9. outcome # "ok" => rpOp'[n].pc = "idle"
  BY <1>6 DEF NoOp
<1> HIDE DEF op
<1>10. Pending(n)'
  BY <1>1, <1>3, <1>4, <1>8, <1>9, Zenon DEF Pending, MutexFree
<1>11. Cached(n)'
  BY <1>1, <1>2, <1>3, <1>4, <1>8 DEF Cached, MutexFree
<1>12. Elsewhere(n)
  BY <1>1, <1>2, <1>4, <1>5, <1>6, Zenon DEF Elsewhere, Shapes
<1> QED
  BY <1>1, <1>2, <1>4, <1>5, <1>7, <1>10, <1>11, <1>12, NodeStep, Zenon DEF Shapes

\* SaveLog, localState and the return of Set and Delete.
LEMMA LogWriteStep == ASSUME RpInv, NEW n \in Peer, NEW outcome \in Outcome, LogWrite(n, outcome) PROVE RpInv'
<1> DEFINE k == rpOp[n].key
           entry == rpOp[n].entry
           log == [seq |-> rpSeq[n], key |-> rpOp[n].key, val |-> rpOp[n].val]
           files == [rpStore[n] EXCEPT !.logs = Append(rpStore[n].logs, log)]
<1>1. /\ Persist(n, files, outcome) /\ rpOp[n].pc = "log"
      /\ rpLocal' = [rpLocal EXCEPT ![n][k] = IF outcome = "ok" THEN entry ELSE @]
      /\ rpMay' = [rpMay EXCEPT ![n][k] = IF outcome = "ok" THEN {entry} ELSE @]
      /\ rpOp' = [rpOp EXCEPT ![n] = NoOp] /\ UNCHANGED <<rpUp, rpSync>>
  BY Zenon DEF LogWrite
<1>2. Shapes /\ Durable(n) /\ Cached(n) /\ Pending(n) /\ IsFiles(rpStore[n]) /\ DOMAIN rpMay[n] = Key
  BY Zenon DEF RpInv, Shapes
<1>3. k \in Key /\ rpStore[n].entries[k] = entry
  BY <1>1, <1>2, Zenon DEF Pending
<1>4. IsFiles(files) /\ files.entries = rpStore[n].entries
  BY <1>2, OtherFacts, Zenon
<1> HIDE DEF files
<1>5. /\ DOMAIN rpStore' = Peer /\ DOMAIN rpDisk' = Peer
      /\ rpStore'[n] = files
      /\ rpDisk'[n] = IF outcome = "old" THEN rpDisk[n] ELSE files
      /\ \A m \in Peer \ {n} : rpStore'[m] = rpStore[m] /\ rpDisk'[m] = rpDisk[m]
      /\ \A m \in Peer : IsFiles(rpStore'[m]) /\ IsFiles(rpDisk'[m])
      /\ rpSpoilt \subseteq rpSpoilt' /\ rpSpoilt' \subseteq rpSpoilt \cup {n}
      /\ outcome # "ok" => n \in rpSpoilt'
  BY <1>1, <1>2, <1>4, PersistFacts
<1>6. /\ DOMAIN rpMay' = Peer /\ DOMAIN rpMay'[n] = Key
      /\ rpMay'[n][k] = IF outcome = "ok" THEN {entry} ELSE rpMay[n][k]
      /\ \A j \in Key \ {k} : rpMay'[n][j] = rpMay[n][j]
      /\ \A m \in Peer \ {n} : rpMay'[m] = rpMay[m]
  BY <1>1, <1>2, <1>3, Zenon DEF Shapes
<1>7. /\ DOMAIN rpLocal' = Peer /\ \A m \in Peer \ {n} : rpLocal'[m] = rpLocal[m]
      /\ n \notin rpSpoilt => /\ DOMAIN rpLocal'[n] = Key
                              /\ outcome = "ok" => rpLocal'[n][k] = entry
                              /\ \A j \in Key \ {k} : rpLocal'[n][j] = rpLocal[n][j]
  BY <1>1, <1>2, <1>3, Zenon DEF Shapes
<1>8. DOMAIN rpOp' = Peer /\ rpOp'[n].pc = "idle" /\ \A m \in Peer \ {n} : rpOp'[m] = rpOp[m]
  BY <1>1, <1>2, Zenon DEF Shapes, NoOp
<1>9. Durable(n)'
  BY <1>2, <1>3, <1>4, <1>5, <1>6 DEF Durable, Outcome
<1>10. Pending(n)'
  BY <1>8, Zenon DEF Pending
<1>11. Cached(n)'
  <2> SUFFICES ASSUME n \notin rpSpoilt', NEW j \in Key
               PROVE  rpLocal'[n][j] = Nothing \/ rpStore'[n].entries[j] = rpLocal'[n][j]
    BY Zenon DEF Cached, Nothing
  <2>1. n \notin rpSpoilt /\ outcome = "ok"
    BY <1>5, Zenon
  <2>2. CASE j = k
    BY <1>3, <1>4, <1>5, <1>7, <2>1, <2>2, Zenon
  <2>3. CASE j # k
    <3>1. rpLocal[n][j] = Nothing \/ rpStore[n].entries[j] = rpLocal[n][j]
      BY <1>2, <2>1, <2>3, Zenon DEF Cached
    <3> QED
      BY <1>4, <1>5, <1>7, <2>1, <2>3, <3>1, Zenon
  <2> QED
    BY <2>2, <2>3, Zenon
<1>12. Elsewhere(n)
  BY <1>1, <1>2, <1>5, <1>6, <1>7, <1>8, Zenon DEF Elsewhere, Shapes
<1> QED
  BY <1>1, <1>2, <1>5, <1>6, <1>7, <1>9, <1>10, <1>11, <1>12, NodeStep, Zenon DEF Shapes

\* An entry that a synchronisation brings: the store, localState and rpMay get it.
Replaces(n, k, entry, outcome, sync) ==
    /\ rpSync[n].pc \in {"apply", "load"}
    /\ Persist(n, [rpStore[n] EXCEPT !.entries[k] = entry], outcome)
    /\ rpLocal' = [rpLocal EXCEPT ![n][k] = entry]
    /\ rpMay' = [rpMay EXCEPT ![n][k] = IF outcome = "old" THEN @ \cup {entry} ELSE {entry}]
    /\ rpSync' = [rpSync EXCEPT ![n] = sync]
    /\ UNCHANGED <<rpUp, rpOp>>

\* One log of ApplyLogs or one entry of applySnapshot.
LEMMA EntryStep == ASSUME RpInv, NEW n \in Peer, NEW k, NEW entry, NEW outcome \in Outcome, NEW sync,
                          Replaces(n, k, entry, outcome, sync)
                   PROVE  RpInv'
<1> USE DEF Replaces
<1> DEFINE files == [rpStore[n] EXCEPT !.entries[k] = entry]
<1>1. Shapes /\ Durable(n) /\ Cached(n) /\ Pending(n) /\ IsFiles(rpStore[n]) /\ DOMAIN rpMay[n] = Key
  BY Zenon DEF RpInv, Shapes
<1>2. rpOp[n].pc # "log"
  BY <1>1, Zenon DEF Pending
<1>3. /\ IsFiles(files)
      /\ k \in Key => files.entries[k] = entry
      /\ \A j \in Key \ {k} : files.entries[j] = rpStore[n].entries[j]
  BY <1>1, Zenon DEF IsFiles
<1>4. Persist(n, files, outcome)
  BY Zenon
<1> HIDE DEF files
<1>5. /\ DOMAIN rpStore' = Peer /\ DOMAIN rpDisk' = Peer
      /\ rpStore'[n] = files
      /\ rpDisk'[n] = IF outcome = "old" THEN rpDisk[n] ELSE files
      /\ \A m \in Peer \ {n} : rpStore'[m] = rpStore[m] /\ rpDisk'[m] = rpDisk[m]
      /\ \A m \in Peer : IsFiles(rpStore'[m]) /\ IsFiles(rpDisk'[m])
      /\ rpSpoilt \subseteq rpSpoilt' /\ rpSpoilt' \subseteq rpSpoilt \cup {n}
      /\ outcome # "ok" => n \in rpSpoilt'
  BY <1>1, <1>3, <1>4, PersistFacts
<1>6. /\ DOMAIN rpMay' = Peer /\ DOMAIN rpMay'[n] = Key
      /\ k \in Key => rpMay'[n][k] = IF outcome = "old" THEN rpMay[n][k] \cup {entry} ELSE {entry}
      /\ \A j \in Key \ {k} : rpMay'[n][j] = rpMay[n][j]
      /\ \A m \in Peer \ {n} : rpMay'[m] = rpMay[m]
  BY <1>1, Zenon DEF Shapes
<1>7. /\ DOMAIN rpLocal' = Peer /\ \A m \in Peer \ {n} : rpLocal'[m] = rpLocal[m]
      /\ n \notin rpSpoilt => /\ DOMAIN rpLocal'[n] = Key
                              /\ k \in Key => rpLocal'[n][k] = entry
                              /\ \A j \in Key \ {k} : rpLocal'[n][j] = rpLocal[n][j]
  BY <1>1, Zenon DEF Shapes
<1>8. DOMAIN rpSync' = Peer /\ \A m \in Peer \ {n} : rpSync'[m] = rpSync[m]
  BY <1>1, Zenon DEF Shapes
<1>9. Durable(n)'
  <2> SUFFICES ASSUME NEW j \in Key
               PROVE  rpDisk'[n].entries[j] \in rpMay'[n][j] /\ rpStore'[n].entries[j] \in rpMay'[n][j]
    BY Zenon DEF Durable
  <2>1. rpDisk[n].entries[j] \in rpMay[n][j] /\ rpStore[n].entries[j] \in rpMay[n][j]
    BY <1>1, Zenon DEF Durable
  <2>2. CASE j = k
    BY <1>3, <1>5, <1>6, <2>1, <2>2, Zenon
  <2>3. CASE j # k
    BY <1>3, <1>5, <1>6, <2>1, <2>3
  <2> QED
    BY <2>2, <2>3, Zenon
<1>10. Pending(n)'
  BY <1>2, Zenon DEF Pending
<1>11. Cached(n)'
  <2> SUFFICES ASSUME n \notin rpSpoilt', NEW j \in Key
               PROVE  rpLocal'[n][j] = Nothing \/ rpStore'[n].entries[j] = rpLocal'[n][j]
    BY Zenon DEF Cached, Nothing
  <2>1. n \notin rpSpoilt
    BY <1>5, Zenon
  <2>2. CASE j = k
    BY <1>3, <1>5, <1>7, <2>1, <2>2, Zenon
  <2>3. CASE j # k
    <3>1. rpLocal[n][j] = Nothing \/ rpStore[n].entries[j] = rpLocal[n][j]
      BY <1>1, <1>2, <2>1, Zenon DEF Cached
    <3> QED
      BY <1>3, <1>5, <1>7, <2>1, <2>3, <3>1, Zenon
  <2> QED
    BY <2>2, <2>3, Zenon
<1>12. Elsewhere(n)
  BY <1>1, <1>5, <1>6, <1>7, <1>8, Zenon DEF Elsewhere, Shapes
<1> QED
  BY <1>1, <1>5, <1>6, <1>7, <1>9, <1>10, <1>11, <1>12, NodeStep, Zenon DEF Shapes

\* applySnapshot forgets localState and saves the snapshot: the entries stay.
LEMMA SnapshotStep == ASSUME RpInv, NEW n \in Peer, NEW outcome \in Outcome, ApplySnapshot(n, outcome) PROVE RpInv'
<1> DEFINE files == [rpStore[n] EXCEPT !.snap = rpSync[n].entries]
<1>1. /\ Persist(n, files, outcome) /\ rpOp[n].pc = "idle" /\ rpLocal' = [rpLocal EXCEPT ![n] = Empty]
      /\ UNCHANGED <<rpUp, rpOp, rpMay>>
  BY Zenon DEF ApplySnapshot, MutexFree
<1>2. Shapes /\ Durable(n) /\ IsFiles(rpStore[n]) /\ DOMAIN rpMay[n] = Key
  BY Zenon DEF RpInv, Shapes
<1>3. DOMAIN rpSync' = Peer /\ \A m \in Peer \ {n} : rpSync'[m] = rpSync[m]
  BY <1>2, Zenon DEF ApplySnapshot, Shapes
<1>4. IsFiles(files) /\ files.entries = rpStore[n].entries
  BY <1>2, OtherFacts, Zenon
<1> HIDE DEF files
<1>5. /\ DOMAIN rpStore' = Peer /\ DOMAIN rpDisk' = Peer
      /\ rpStore'[n] = files
      /\ rpDisk'[n] = IF outcome = "old" THEN rpDisk[n] ELSE files
      /\ \A m \in Peer \ {n} : rpStore'[m] = rpStore[m] /\ rpDisk'[m] = rpDisk[m]
      /\ \A m \in Peer : IsFiles(rpStore'[m]) /\ IsFiles(rpDisk'[m])
      /\ rpSpoilt \subseteq rpSpoilt' /\ rpSpoilt' \subseteq rpSpoilt \cup {n}
      /\ outcome # "ok" => n \in rpSpoilt'
  BY <1>1, <1>2, <1>4, PersistFacts
<1>6. /\ DOMAIN rpLocal' = Peer /\ DOMAIN rpLocal'[n] = Key /\ \A k \in Key : rpLocal'[n][k] = Nothing
      /\ \A m \in Peer \ {n} : rpLocal'[m] = rpLocal[m]
  BY <1>1, <1>2, Zenon DEF Shapes, Empty
<1>7. Durable(n)' /\ Pending(n)' /\ Cached(n)'
  BY <1>1, <1>2, <1>4, <1>5, <1>6, Zenon DEF Durable, Pending, Cached, Nothing
<1>8. Elsewhere(n)
  BY <1>1, <1>2, <1>3, <1>5, <1>6, Zenon DEF Elsewhere, Shapes
<1> QED
  BY <1>1, <1>2, <1>5, <1>6, <1>7, <1>8, NodeStep, Zenon DEF Shapes

\* Requests, answers and the start of ApplyLogs change the worker only.
LEMMA SyncStep == ASSUME RpInv, NEW n \in Peer, NEW sync, rpSync' = [rpSync EXCEPT ![n] = sync],
                         rpOp[n].pc = "idle" \/ sync.pc \notin {"apply", "load"},
                         UNCHANGED <<rpUp, rpStore, rpDisk, rpLocal, rpOp, rpMay, rpSpoilt>>
                  PROVE  RpInv'
<1>1. Shapes /\ Durable(n) /\ Pending(n) /\ Cached(n)
  BY Zenon DEF RpInv
<1>2. DOMAIN rpSync' = Peer /\ rpSync'[n] = sync /\ \A m \in Peer \ {n} : rpSync'[m] = rpSync[m]
  BY <1>1, Zenon DEF Shapes
<1>3. Durable(n)' /\ Pending(n)' /\ Cached(n)'
  BY <1>1, <1>2, Zenon DEF Durable, Pending, Cached
<1>4. Elsewhere(n)
  BY <1>1, <1>2, Zenon DEF Elsewhere, Shapes
<1> QED
  BY <1>1, <1>3, <1>4, NodeStep, Zenon DEF Shapes

\* A crash spoils the node; a restart makes the state file its store.
LEMMA CrashStep == ASSUME RpInv, NEW n \in Peer, RpCrash(n) \/ RpRestart(n) PROVE RpInv'
<1>1. Shapes /\ Durable(n) /\ Pending(n) /\ Cached(n) /\ IsFiles(rpStore[n]) /\ IsFiles(rpDisk[n]) /\ DOMAIN rpMay[n] = Key
  BY Zenon DEF RpInv, Shapes
<1>2. CASE RpCrash(n)
  <2>1. /\ n \in rpSpoilt' /\ rpOp'[n].pc = "idle" /\ UNCHANGED <<rpStore, rpDisk, rpLocal, rpMay>>
        /\ DOMAIN rpOp' = Peer /\ DOMAIN rpSync' = Peer
        /\ \A m \in Peer \ {n} : rpOp'[m] = rpOp[m] /\ rpSync'[m] = rpSync[m]
    BY <1>1, <1>2, Zenon DEF RpCrash, NoOp, Shapes
  <2>2. rpUp' = rpUp \ {n} /\ rpSpoilt' = rpSpoilt \cup {n}
    BY <1>2, Zenon DEF RpCrash
  <2>3. Durable(n)' /\ Pending(n)' /\ Cached(n)'
    BY <1>1, <2>1, Zenon DEF Durable, Pending, Cached
  <2>4. Elsewhere(n)
    BY <1>1, <2>1, <2>2, Zenon DEF Elsewhere, Shapes
  <2> QED
    BY <1>1, <2>1, <2>3, <2>4, NodeStep, Zenon
<1>3. CASE RpRestart(n)
  <2>1. n \in rpSpoilt /\ rpSpoilt' = rpSpoilt
    BY <1>1, <1>3, Zenon DEF RpRestart, Shapes
  <2>2. /\ rpStore'[n] = rpDisk[n] /\ rpUp' = rpUp \cup {n} /\ UNCHANGED <<rpDisk, rpOp, rpSync, rpMay>>
        /\ DOMAIN rpStore' = Peer /\ DOMAIN rpLocal' = Peer
        /\ \A m \in Peer \ {n} : rpStore'[m] = rpStore[m] /\ rpLocal'[m] = rpLocal[m]
    BY <1>1, <1>3, Zenon DEF RpRestart, Shapes
  <2>3. rpOp[n].pc # "log"
    BY <1>1, <1>3, Zenon DEF RpRestart, Pending
  <2>4. Durable(n)' /\ Pending(n)' /\ Cached(n)'
    BY <1>1, <2>1, <2>2, <2>3, Zenon DEF Durable, Pending, Cached
  <2>5. Elsewhere(n)
    BY <1>1, <2>1, <2>2, Zenon DEF Elsewhere, Shapes
  <2> QED
    BY <1>1, <2>1, <2>2, <2>4, <2>5, NodeStep, Zenon
<1> QED
  BY <1>2, <1>3, Zenon

\* RpInv is inductive: one step for every action of the replicator.
LEMMA RpInduction == RpSpec => []RpInv
<1>1. RpInit => RpInv
  <2> SUFFICES ASSUME RpInit PROVE RpInv
    BY Zenon
  <2>1. IsFiles(NoFiles) /\ \A k \in Key : NoFiles.entries[k] = Nothing
    BY Zenon DEF IsFiles, NoFiles, Empty
  <2>2. Shapes
    BY <2>1, Zenon DEF RpInit, Shapes, Empty
  <2>3. \A n \in Peer : Durable(n) /\ Pending(n) /\ Cached(n)
    BY <2>1, Zenon DEF RpInit, Durable, Pending, Cached, NoOp, Empty
  <2> QED
    BY <2>2, <2>3, Zenon DEF RpInv
<1>2. RpInv /\ [RpNext]_rpVars => RpInv'
  <2> SUFFICES ASSUME RpInv, [RpNext]_rpVars PROVE RpInv'
    BY Zenon
  <2>1. ASSUME NEW n \in Peer, NEW k \in Key, NEW outcome \in Outcome, Set(n, k, outcome) \/ Delete(n, k, outcome)
        PROVE  RpInv'
    BY <2>1, StoreWriteStep, Zenon DEF Set, Delete
  <2>2. ASSUME NEW n \in Peer, NEW outcome \in Outcome, LogWrite(n, outcome) PROVE RpInv'
    BY <2>2, LogWriteStep, Zenon
  <2>3. ASSUME NEW n \in Peer, NEW outcome \in Outcome, ApplyLog(n, outcome) PROVE RpInv'
    <3> DEFINE log == Head(rpSync[n].logs)
               entry == IF log.val = 0 THEN Nothing ELSE [ver |-> log.seq, val |-> log.val]
               rest == Tail(rpSync[n].logs)
               sync == IF rest = <<>> THEN Idle ELSE [rpSync[n] EXCEPT !.logs = rest]
    <3>1. Replaces(n, log.key, entry, outcome, sync)
      BY <2>3, Zenon DEF ApplyLog, Replaces
    <3> QED
      BY <3>1, EntryStep, Zenon
  <2>4. ASSUME NEW n \in Peer, NEW outcome \in Outcome, ApplySnapshot(n, outcome) PROVE RpInv'
    BY <2>4, SnapshotStep, Zenon
  <2>5. ASSUME NEW n \in Peer, NEW k \in Key, NEW outcome \in Outcome, ApplyEntry(n, k, outcome) PROVE RpInv'
    <3> DEFINE entry == rpSync[n].entries[k]
               rest == rpSync[n].keys \ {k}
               sync == IF rest = {} THEN Idle ELSE [rpSync[n] EXCEPT !.keys = rest]
    <3>1. Replaces(n, k, entry, outcome, sync)
      BY <2>5, Zenon DEF ApplyEntry, Replaces
    <3> QED
      BY <3>1, EntryStep, Zenon
  <2>6. ASSUME NEW n \in Peer, NEW m \in Peer, SyncAsk(n, m) PROVE RpInv'
    BY <2>6, SyncStep, Zenon DEF SyncAsk
  <2>7. ASSUME NEW n \in Peer, ServeLogs(n) \/ FetchLogsFails(n) PROVE RpInv'
    BY <2>7, SyncStep, Zenon DEF ServeLogs, FetchLogsFails
  <2>8. ASSUME NEW n \in Peer, ServeSnapshot(n) \/ FetchSnapshotFails(n) PROVE RpInv'
    BY <2>8, SyncStep, Zenon DEF ServeSnapshot, FetchSnapshotFails, Idle
  <2>9. ASSUME NEW n \in Peer, ApplyLogs(n) PROVE RpInv'
    BY <2>9, SyncStep, Zenon DEF ApplyLogs, MutexFree
  <2>10. ASSUME NEW n \in Peer, RpCrash(n) \/ RpRestart(n) PROVE RpInv'
    BY <2>10, CrashStep, Zenon
  <2>11. CASE UNCHANGED rpVars
    BY <2>11 DEF rpVars, RpInv, Shapes, Durable, Pending, Cached, IsFiles
  <2> QED
    BY <2>1, <2>2, <2>3, <2>4, <2>5, <2>6, <2>7, <2>8, <2>9, <2>10, <2>11, Zenon DEF RpNext
<1> QED
  BY <1>1, <1>2, PTL DEF RpSpec

\* StoreSound for any number of nodes, keys, writes, errors and crashes: the state
\* file holds the last operation of Set and Delete that returned success or a later
\* one, and Get answers from localState what the store has.
THEOREM StoreSafe == RpSpec => []StoreSound
<1>1. RpInv => AckedDurable
  BY Zenon DEF RpInv, Durable, AckedDurable
<1>2. RpInv => CacheAgrees
  BY Zenon DEF RpInv, Shapes, Cached, CacheAgrees, MutexFree
<1> QED
  BY <1>1, <1>2, RpInduction, PTL DEF StoreSound

\* A nonempty set of natural numbers has a least element.
LEMMA LeastOf ==
    ASSUME NEW S \in SUBSET Nat, S # {}
    PROVE  \E x \in S : \A y \in S : x =< y
<1> DEFINE R == OpToRel(<, Nat)
<1>1. \E x \in S : \A y \in S : ~ (<<y, x>> \in R)
  <2> HIDE DEF R
  <2> IsWellFoundedOn(R, Nat)
    BY NatLessThanWellFounded, Zenon DEF R
  <2> QED
    BY WFMin, Zenon
<1>2. \A x, y \in Nat : y < x => <<y, x>> \in R
  BY Zenon DEF OpToRel
<1>3. \E x \in S : \A y \in S : ~ (y < x)
  <2> HIDE DEF R
  <2> QED
    BY <1>1, <1>2, Zenon
<1> QED
  BY <1>3

(***************************************************************************)
(* What a follower holds.                                                  *)
(***************************************************************************)
\* An entry, a replication log, and the entry that ApplyLogs makes of a log.
Ent == [ver : Nat, val : Nat]
Logged == [seq : Nat, key : Key, val : Nat]
EntryOf(log) == IF log.val = 0 THEN Nothing ELSE [ver |-> log.seq, val |-> log.val]

\* The states the writer went through, h: version i - 1 is the newest of state i.
HistOK(h) ==
    /\ h \in Seq([Key -> Ent]) /\ Len(h) >= 1 /\ h[1] = Empty
    /\ \A i \in 1..Len(h) : \A k \in Key : h[i][k].ver =< i - 1

\* Applying the logs from number a on turns the entry old of k into new.
Replay(logs, a, k, old, new) ==
    \/ (\A p \in a..Len(logs) : logs[p].key # k) /\ old = new
    \/ \E p \in a..Len(logs) : /\ logs[p].key = k /\ EntryOf(logs[p]) = new
                               /\ \A q \in (p + 1)..Len(logs) : logs[q].key # k

\* The writer's logs lead from each of its states to the last one logged.
LogsOK(h, logs) ==
    /\ logs \in Seq(Logged) /\ Len(logs) + 1 =< Len(h)
    /\ \A p \in 1..Len(logs) : logs[p].seq = p
    /\ \A a \in 1..(Len(logs) + 1) : \A k \in Key : Replay(logs, a, k, h[a][k], h[Len(logs) + 1][k])

\* Between the two steps of Set and Delete the last state is not logged yet.
OpOK(h, logs, op) ==
    \/ op.pc = "idle" /\ Len(h) = Len(logs) + 1
    \/ /\ op.pc = "log" /\ Len(h) = Len(logs) + 2
       /\ op.key \in Key /\ op.val \in Nat
       /\ op.entry = EntryOf([seq |-> Len(logs) + 1, key |-> op.key, val |-> op.val])
       /\ h[Len(h)] = [h[Len(h) - 1] EXCEPT ![op.key] = op.entry]

WriterOK(w) ==
    /\ w \in rpUp /\ rpSync[w].pc = "idle" /\ rpSeq[w] = Len(rpHist[w]) - 1
    /\ HistOK(rpHist[w]) /\ LogsOK(rpHist[w], rpStore[w].logs) /\ OpOK(rpHist[w], rpStore[w].logs, rpOp[w])
    /\ rpStore[w].entries = rpHist[w][Len(rpHist[w])]

\* localState is a state of the writer, and the sequenceID is not ahead of it.
At(h, local, seq) == \E i \in 1..Len(h) : local = h[i] /\ seq =< i - 1

\* The logs at hand turn localState into a state of the writer, however old the
\* ones among them that localState has already.
Replays(h, logs, local, seq) ==
    \E j \in 1..Len(h) :
        /\ seq =< j - 1
        /\ \A p \in 1..Len(logs) : logs[p].seq =< j - 1
        /\ \A k \in Key : Replay(logs, 1, k, local[k], h[j][k])

\* The snapshot at hand is a state of the writer, and localState has of it what
\* is not left to load.
Loads(h, entries, left, local, seq) ==
    \E j \in 1..Len(h) : /\ entries = h[j] /\ seq =< j - 1
                         /\ \A k \in Key \ left : local[k] = h[j][k]

\* What the sync worker of a follower of w has, with h the states of w.
SyncOK(w, h, sync, local, seq) ==
    /\ seq \in Nat /\ local \in [Key -> Ent]
    /\ sync.pc \in {"idle", "logs", "snapshot", "answered", "entries", "apply", "load"}
    /\ sync.pc \notin {"apply", "load"} => At(h, local, seq)
    /\ sync.pc = "logs" => sync.from = seq /\ sync.peer = w
    /\ sync.pc = "snapshot" => sync.peer = w
    /\ sync.pc \in {"answered", "apply"} => /\ DOMAIN sync = {"pc", "logs"} /\ sync.logs \in Seq(Logged)
                                           /\ Replays(h, sync.logs, local, seq)
    /\ sync.pc = "apply" => sync.logs # <<>>
    /\ sync.pc = "entries" => Loads(h, sync.entries, Key, local, seq)
    /\ sync.pc = "load" => /\ DOMAIN sync = {"pc", "entries", "keys"} /\ sync.keys \subseteq Key
                           /\ Loads(h, sync.entries, sync.keys, local, seq)

IsState(h, entries) == \E i \in 1..Len(h) : entries = h[i]

FollowerOK(w, n) ==
    /\ rpOp[n].pc = "idle"
    /\ IsState(rpHist[w], rpStore[n].snap) /\ IsState(rpHist[w], rpDisk[n].snap)
    /\ n \in rpUp => SyncOK(w, rpHist[w], rpSync[n], rpLocal[n], rpSeq[n])
    /\ n \notin rpUp => rpSync[n].pc = "idle"

\* The one writer and those that follow it.
Leads(w) == Writer = {w} /\ Follows = (Peer \ {w}) \X {w}

PrefixOf(w) == WriterOK(w) /\ \A n \in Peer \ {w} : FollowerOK(w, n)

PrefixInv ==
    /\ rpWrites \in Nat /\ DOMAIN rpSeq = Peer /\ DOMAIN rpHist = Peer
    /\ \A w \in Peer : (Leads(w) /\ w \notin rpSpoilt) => PrefixOf(w)

\* The greatest of a bounded set of natural numbers, as in LastVersion.
LEMMA MaxIn ==
    ASSUME NEW S \in SUBSET Nat, S # {}, NEW b \in Nat, \A x \in S : x =< b
    PROVE  Max(S) \in S /\ \A x \in S : x =< Max(S)
<1> DEFINE U == {u \in Nat : \A x \in S : x =< u}
<1>1. PICK u \in U : \A v \in U : u =< v
  <2>1. U \in SUBSET Nat /\ U # {}
    BY Zenon
  <2> HIDE DEF U
  <2> QED
    BY <2>1, LeastOf, Zenon
<1>2. u \in S
  <2> SUFFICES ASSUME u \notin S PROVE FALSE
    BY Zenon
  <2>1. u \in Nat /\ \A x \in S : x \in Nat /\ x =< u /\ x # u
    BY <1>1, Zenon
  <2>2. u # 0
    <3>1. PICK x : x \in S
      BY Zenon
    <3> QED
      BY <2>1, <3>1
  <2>3. u - 1 \in U
    BY <2>1, <2>2
  <2> QED
    BY <1>1, <2>1, <2>2, <2>3
<1>3. \E x \in S : \A y \in S : x >= y
  BY <1>1, <1>2, Zenon
<1>4. Max(S) \in S /\ \A y \in S : Max(S) >= y
  BY <1>3, Zenon DEF Max
<1> QED
  BY <1>4, Zenon

\* A loop over a sequence has a value after each element.
Loop(logs, from, f, m) ==
    f = [i \in 0..m |-> IF i = 0 THEN <<>>
                        ELSE IF logs[i].seq > from THEN Append(f[i - 1], logs[i])
                        ELSE f[i - 1]]

\* The recursive function that the loop defines exists.
LEMMA LoopRuns ==
    ASSUME NEW logs, NEW from, NEW L \in Nat
    PROVE  \E f : Loop(logs, from, f, L)
<1> DEFINE S == {m \in Nat : ~ \E f : Loop(logs, from, f, m)}
<1> SUFFICES ASSUME S # {} PROVE FALSE
  BY Zenon
<1>1. PICK m \in S : \A y \in S : m =< y
  BY LeastOf, Zenon
<1>2. CASE m = 0
  <2>1. Loop(logs, from, [i \in 0..0 |-> <<>>], 0)
    BY DEF Loop
  <2> QED
    BY <1>1, <1>2, <2>1, Zenon
<1>3. CASE m # 0
  <2>1. m - 1 \in Nat /\ ~(m =< m - 1)
    BY <1>1, <1>3
  <2>2. PICK f : Loop(logs, from, f, m - 1)
    BY <1>1, <2>1, Zenon
  <2> DEFINE x == IF logs[m].seq > from THEN Append(f[m - 1], logs[m]) ELSE f[m - 1]
             g == [i \in 0..m |-> IF i = m THEN x ELSE f[i]]
             Next(F, i) == IF i = 0 THEN <<>>
                           ELSE IF logs[i].seq > from THEN Append(F[i - 1], logs[i]) ELSE F[i - 1]
  <2>3. \A i \in 0..m : i = m \/ i \in 0..(m - 1)
    BY <2>1
  <2>4. \A i \in 0..(m - 1) : g[i] = f[i]
    BY <2>1
  <2>5. \A i \in 0..(m - 1) : f[i] = Next(f, i)
    BY <2>2, Zenon DEF Loop
  <2>6. ASSUME NEW i \in 0..m PROVE g[i] = Next(g, i)
    <3>1. CASE i = m
      <4>1. g[m] = x /\ g[m - 1] = f[m - 1] /\ m # 0
        BY <2>1, <1>3
      <4> QED
        BY <3>1, <4>1, Zenon
    <3>2. CASE i # m
      <4>1. i \in 0..(m - 1) /\ (i # 0 => i - 1 \in 0..(m - 1))
        BY <2>3, <3>2, <2>1
      <4>2. g[i] = f[i] /\ (i # 0 => g[i - 1] = f[i - 1])
        BY <2>4, <4>1, Zenon
      <4> HIDE DEF g
      <4> QED
        BY <2>5, <4>1, <4>2, Zenon
    <3> QED
      BY <3>1, <3>2, Zenon
  <2>7. DOMAIN g = 0..m /\ g = [i \in 0..m |-> g[i]]
    BY Zenon
  <2> HIDE DEF g
  <2>8. Loop(logs, from, g, m)
    BY <2>6, <2>7, Zenon DEF Loop
  <2> QED
    BY <1>1, <2>8, Zenon
<1> QED
  BY <1>2, <1>3, Zenon

\* The answer of GetLogs: the logs from the next number on.
Answer(logs, from, got) ==
    /\ got \in Seq(Logged) /\ Len(got) = IF Len(logs) > from THEN Len(logs) - from ELSE 0
    /\ \A p \in 1..Len(got) : got[p] = logs[from + p]


\* GetLogs of logs that are numbered in order: the ones after from.
LEMMA LogsAfterIs ==
    ASSUME NEW files, NEW logs, logs = files.logs, NEW h, LogsOK(h, logs), NEW from \in Nat
    PROVE  Answer(logs, from, LogsAfter(files, from))
<1> logs \in Seq(Logged) /\ \A p \in 1..Len(logs) : logs[p].seq = p
  BY Zenon DEF LogsOK
<1> DEFINE L == Len(logs)
<1>l. L \in Nat /\ \A p \in 1..L : logs[p].seq = p /\ logs[p] \in Logged
  OBVIOUS
<1>1. PICK f : Loop(logs, from, f, L)
  BY <1>l, LoopRuns, Zenon
<1>2. \E F : /\ F = [i \in 0..L |-> IF i = 0 THEN <<>>
                                     ELSE IF logs[i].seq > from THEN Append(F[i - 1], logs[i]) ELSE F[i - 1]]
             /\ LogsAfter(files, from) = F[L]
  BY <1>1, Zenon DEF LogsAfter, Loop
<1>3. PICK F : /\ F = [i \in 0..L |-> IF i = 0 THEN <<>>
                                       ELSE IF logs[i].seq > from THEN Append(F[i - 1], logs[i]) ELSE F[i - 1]]
               /\ LogsAfter(files, from) = F[L]
  BY <1>2, Zenon
<1>4. \A i \in 0..L : F[i] = IF i = 0 THEN <<>>
                             ELSE IF logs[i].seq > from THEN Append(F[i - 1], logs[i]) ELSE F[i - 1]
  BY <1>3, Zenon
<1> DEFINE P(i) == /\ F[i] \in Seq(Logged)
                   /\ Len(F[i]) = IF i > from THEN i - from ELSE 0
                   /\ \A p \in 1..Len(F[i]) : F[i][p] = logs[from + p]
           S == {i \in 0..L : ~P(i)}
<1>5. S = {}
  <2> SUFFICES ASSUME S # {} PROVE FALSE
    BY Zenon
  <2>1. S \in SUBSET Nat
    OBVIOUS
  <2>2. PICK m \in S : \A y \in S : m =< y
    BY <2>1, LeastOf, Zenon
  <2>p. ~P(m)
    BY <2>2, Zenon
  <2>3. CASE m = 0
    <3>1. F[m] = <<>>
      BY <1>4, <1>l, <2>3, Zenon
    <3>2. PICK e : e = <<>>
      BY Zenon
    <3>3. e \in Seq(Logged) /\ Len(e) = 0 /\ ~(m > from) /\ \A p \in 1..Len(e) : e[p] = logs[from + p]
      BY <2>3, <3>2
    <3>4. F[m] \in Seq(Logged) /\ Len(F[m]) = 0 /\ \A p \in 1..Len(F[m]) : F[m][p] = logs[from + p]
      BY <3>1, <3>2, <3>3, Zenon
    <3> QED
      BY <2>p, <3>3, <3>4, Zenon
  <2>4. CASE m # 0
    <3>0. m \in 0..L
      BY <2>2, Zenon
    <3>1. m \in 1..L /\ m \in 0..L /\ m - 1 \in 0..L /\ m - 1 \notin S
      <4> HIDE DEF S, P
      <4> QED
        BY <2>2, <2>4, <1>l, <3>0
    <3>2. P(m - 1)
      BY <3>1, Zenon
    <3>3. logs[m].seq = m /\ logs[m] \in Logged
      BY <3>1, <1>l, Zenon
    <3>4. F[m] = IF m > from THEN Append(F[m - 1], logs[m]) ELSE F[m - 1]
      BY <1>4, <2>4, <3>1, <3>3, Zenon
    <3>5. PICK s : s = F[m - 1]
      BY Zenon
    <3>6. PICK t : t = F[m]
      BY Zenon
    <3>7. /\ s \in Seq(Logged) /\ Len(s) = IF m - 1 > from THEN m - 1 - from ELSE 0
          /\ \A p \in 1..Len(s) : s[p] = logs[from + p]
      BY <3>2, <3>5, Zenon
    <3>8. t = IF m > from THEN Append(s, logs[m]) ELSE s
      BY <3>4, <3>5, <3>6, Zenon
    <3> HIDE DEF P, S, L
    <3>9. CASE m > from
      <4>1. t \in Seq(Logged) /\ Len(t) = Len(s) + 1 /\ t[Len(s) + 1] = logs[m] /\ \A p \in 1..Len(s) : t[p] = s[p]
        BY <3>7, <3>8, <3>9, <3>3
      <4>2. Len(s) = m - 1 - from
        BY <3>1, <3>7, <3>9, <1>l
      <4>3. from + (Len(s) + 1) = m /\ Len(t) = m - from
        BY <3>1, <4>1, <4>2, <1>l
      <4>4. ASSUME NEW p \in 1..Len(t) PROVE t[p] = logs[from + p]
        <5>1. p = Len(s) + 1 \/ p \in 1..Len(s)
          BY <4>1, <4>4, <3>7
        <5> QED
          BY <5>1, <4>1, <4>3, <3>7, Zenon
      <4> QED
        BY <4>1, <4>3, <4>4, <3>6, <3>9, <2>2, Zenon DEF P, S
    <3>10. CASE ~(m > from)
      <4>1. Len(s) = 0 /\ t = s
        BY <3>1, <3>7, <3>8, <3>10, <1>l
      <4>2. t \in Seq(Logged) /\ Len(t) = 0 /\ \A p \in 1..Len(t) : t[p] = logs[from + p]
        BY <4>1, <3>7, Zenon
      <4> QED
        BY <4>2, <3>6, <3>10, <2>2, Zenon DEF P, S
    <3> QED
      BY <3>9, <3>10, Zenon
  <2> QED
    BY <2>3, <2>4, Zenon
<1>6. P(L)
  <2>1. L \in 0..L
    BY <1>l
  <2> QED
    BY <1>5, <2>1, Zenon
<1> QED
  BY <1>3, <1>6, Zenon DEF Answer

\* What was a state stays one as the writer goes on.
Extends(h, g) == Len(h) =< Len(g) /\ \A i \in 1..Len(h) : g[i] = h[i]

\* What a follower holds of the first states, it holds of all.
LEMMA MoreStates ==
    ASSUME NEW h, NEW g, Len(h) \in Nat, Len(g) \in Nat, Extends(h, g)
    PROVE  /\ 1..Len(h) \subseteq 1..Len(g)
           /\ \A x : IsState(h, x) => IsState(g, x)
           /\ \A l, s : At(h, l, s) => At(g, l, s)
           /\ \A r, l, s : Replays(h, r, l, s) => Replays(g, r, l, s)
           /\ \A x, y, l, s : Loads(h, x, y, l, s) => Loads(g, x, y, l, s)
<1>1. 1..Len(h) \subseteq 1..Len(g) /\ \A i \in 1..Len(h) : g[i] = h[i]
  BY DEF Extends
<1>2. ASSUME NEW x, IsState(h, x) PROVE IsState(g, x)
  BY <1>1, <1>2, Zenon DEF IsState
<1>3. ASSUME NEW l, NEW s, At(h, l, s) PROVE At(g, l, s)
  BY <1>1, <1>3, Zenon DEF At
<1>4. ASSUME NEW r, NEW l, NEW s, Replays(h, r, l, s) PROVE Replays(g, r, l, s)
  BY <1>1, <1>4, Zenon DEF Replays
<1>5. ASSUME NEW x, NEW y, NEW l, NEW s, Loads(h, x, y, l, s) PROVE Loads(g, x, y, l, s)
  BY <1>1, <1>5, Zenon DEF Loads
<1> QED
  BY <1>1, <1>2, <1>3, <1>4, <1>5, Zenon

\* So the sync worker need not know that the writer goes on.
LEMMA SyncGrows ==
    ASSUME NEW w, NEW h, NEW g, Len(h) \in Nat, Len(g) \in Nat, Extends(h, g), NEW sync, NEW local, NEW seq,
           SyncOK(w, h, sync, local, seq)
    PROVE  SyncOK(w, g, sync, local, seq)
  BY MoreStates, Zenon DEF SyncOK

\* A state and a log more.
AddsState(h, k, val, entry, s, g) ==
    /\ entry = EntryOf([seq |-> Len(h), key |-> k, val |-> val])
    /\ s = [h[Len(h)] EXCEPT ![k] = entry] /\ g = Append(h, s)
OneStateMore(h, logs, s, g) ==
    /\ HistOK(g) /\ LogsOK(g, logs) /\ Extends(h, g) /\ Len(g) = Len(logs) + 2
    /\ g[Len(g)] = s /\ g[Len(g) - 1] = h[Len(h)]
AddsLog(logs, op, log, more) ==
    log = [seq |-> Len(logs) + 1, key |-> op.key, val |-> op.val] /\ more = Append(logs, log)

\* The writer's store writes: a state more.
LEMMA StateAdded ==
    ASSUME NEW h, NEW logs, HistOK(h), LogsOK(h, logs), NEW op, op.pc = "idle", OpOK(h, logs, op),
           NEW k \in Key, NEW val \in Nat,
           NEW entry, NEW s, NEW g, AddsState(h, k, val, entry, s, g)
    PROVE  OneStateMore(h, logs, s, g)
<1> USE DEF OneStateMore
<1> /\ entry = EntryOf([seq |-> Len(h), key |-> k, val |-> val])
    /\ s = [h[Len(h)] EXCEPT ![k] = entry] /\ g = Append(h, s)
  BY Zenon DEF AddsState
<1> Len(h) = Len(logs) + 1
  BY Zenon DEF OpOK
<1>1. h \in Seq([Key -> Ent]) /\ Len(h) \in Nat /\ Len(h) >= 1 /\ Len(logs) \in Nat
  BY DEF HistOK, LogsOK
<1>2. entry \in Ent /\ entry.ver =< Len(h)
  BY <1>1 DEF EntryOf, Ent, Nothing
<1>3. h[Len(h)] \in [Key -> Ent]
  BY <1>1
<1>4. /\ s \in [Key -> Ent] /\ s[k] = entry /\ \A j \in Key \ {k} : s[j] = h[Len(h)][j]
  BY <1>2, <1>3, Zenon
<1>5. /\ g \in Seq([Key -> Ent]) /\ Len(g) = Len(h) + 1 /\ g[Len(h) + 1] = s
      /\ \A i \in 1..Len(h) : g[i] = h[i]
  BY <1>1, <1>4
<1>6. ASSUME NEW i \in 1..Len(g), NEW j \in Key PROVE g[i][j].ver =< i - 1
  <2>1. CASE i \in 1..Len(h)
    BY <1>5, <2>1, Zenon DEF HistOK
  <2>2. CASE i = Len(h) + 1
    <3>0. h[Len(h)][j] \in Ent /\ Len(h) \in 1..Len(h)
      BY <1>1, <1>3
    <3>1. h[Len(h)][j].ver =< Len(h) - 1 /\ h[Len(h)][j].ver \in Nat
      BY <3>0, Zenon DEF HistOK, Ent
    <3>2. s[j].ver =< Len(h)
      BY <1>1, <1>2, <1>4, <3>1
    <3> QED
      BY <1>1, <1>5, <2>2, <3>2
  <2> QED
    BY <1>1, <1>5, <1>6, <2>1, <2>2
<1>7. g[1] = Empty /\ Len(g) >= 1
  BY <1>1, <1>5 DEF HistOK
<1>8. HistOK(g)
  BY <1>5, <1>6, <1>7, Zenon DEF HistOK
<1>9. \A a \in 1..(Len(logs) + 1) : g[a] = h[a]
  BY <1>1, <1>5, Zenon
<1>10. Len(logs) + 1 \in 1..(Len(logs) + 1) /\ Len(logs) + 1 =< Len(g)
  BY <1>1, <1>5
<1>11. LogsOK(g, logs)
  BY <1>9, <1>10, Zenon DEF LogsOK
<1>12. Extends(h, g) /\ Len(g) = Len(logs) + 2
  BY <1>1, <1>5 DEF Extends
<1>13. Len(g) - 1 = Len(h) /\ Len(h) \in 1..Len(h) /\ Len(g) = Len(h) + 1
  BY <1>1, <1>5
<1> QED
  BY <1>5, <1>8, <1>11, <1>12, <1>13, Zenon

\* The numbers up to M + 1 are those up to M, and M + 1.
LEMMA OneMore ==
    ASSUME NEW M \in Nat, NEW a \in 1..(M + 1), NEW p \in a..(M + 1), p # M + 1
    PROVE  p \in a..M /\ p \in 1..M
<1>1. a \in Nat /\ 1 =< a
  OBVIOUS
<1>2. p \in Nat /\ a =< p /\ p =< M
  BY <1>1
<1> QED
  BY <1>1, <1>2


\* The writer logs what it wrote.
LEMMA LogAdded ==
    ASSUME NEW h, NEW logs, HistOK(h), LogsOK(h, logs), NEW op, op.pc = "log", OpOK(h, logs, op),
           NEW log, NEW more, AddsLog(logs, op, log, more)
    PROVE  LogsOK(h, more) /\ Len(h) = Len(more) + 1
<1> log = [seq |-> Len(logs) + 1, key |-> op.key, val |-> op.val] /\ more = Append(logs, log)
  BY Zenon DEF AddsLog
<1> DEFINE M == Len(logs)
<1>1. /\ logs \in Seq(Logged) /\ M \in Nat /\ Len(h) = M + 2 /\ op.key \in Key /\ op.val \in Nat
      /\ op.entry = EntryOf(log) /\ h[M + 2] = [h[M + 1] EXCEPT ![op.key] = op.entry]
  BY DEF OpOK, LogsOK
<1>2. log \in Logged /\ log.seq = M + 1 /\ log.key = op.key
  BY <1>1 DEF Logged
<1>3. /\ more \in Seq(Logged) /\ Len(more) = M + 1 /\ more[M + 1] = log
      /\ \A p \in 1..M : more[p] = logs[p]
  BY <1>1, <1>2
<1> HIDE DEF M
<1>4. ASSUME NEW p \in 1..Len(more) PROVE more[p].seq = p
  <2>1. p \in 1..M \/ p = M + 1
    BY <1>1, <1>3
  <2>2. \A q \in 1..M : logs[q].seq = q
    BY Zenon DEF LogsOK, M
  <2> QED
    BY <1>2, <1>3, <2>1, <2>2, Zenon
<1>5. ASSUME NEW a \in 1..(Len(more) + 1), NEW k \in Key
      PROVE  Replay(more, a, k, h[a][k], h[Len(more) + 1][k])
  <2>0. Len(more) + 1 = M + 2 /\ a \in Nat
    BY <1>1, <1>3
  <2>1. CASE a = M + 2
    <3>1. a..Len(more) = {}
      BY <1>1, <1>3, <2>1
    <3> QED
      BY <2>0, <2>1, <3>1, Zenon DEF Replay
  <2>2. CASE a \in 1..(M + 1) /\ k = op.key
    <3>1. M + 1 \in a..Len(more) /\ ((M + 1) + 1)..Len(more) = {}
      BY <1>1, <1>3, <2>2
    <3>2. h[M + 1] \in [Key -> Ent]
      BY <1>1 DEF HistOK
    <3>3. h[M + 2][k] = op.entry
      BY <1>1, <2>2, <3>2, Zenon
    <3>4. more[M + 1].key = k /\ EntryOf(more[M + 1]) = h[Len(more) + 1][k]
      BY <1>1, <1>2, <1>3, <2>0, <2>2, <3>3, Zenon
    <3>5. \A q \in ((M + 1) + 1)..Len(more) : more[q].key # k
      BY <3>1, Zenon
    <3> QED
      BY <3>1, <3>4, <3>5, Zenon DEF Replay
  <2>3. CASE a \in 1..(M + 1) /\ k # op.key
    <3>1. h[M + 1] \in [Key -> Ent]
      BY <1>1 DEF HistOK
    <3>2. h[M + 2][k] = h[M + 1][k]
      BY <1>1, <2>3, <3>1, Zenon
    <3>3. Replay(logs, a, k, h[a][k], h[M + 1][k])
      BY <2>3, Zenon DEF LogsOK, M
    <3>r. M \in Nat /\ Len(more) = M + 1 /\ a \in 1..(M + 1)
      BY <1>1, <1>3, <2>3, Zenon
    <3>4. \A p \in a..Len(more) : p = M + 1 \/ (p \in a..M /\ p \in 1..M)
      <4> SUFFICES ASSUME NEW p \in a..Len(more), p # M + 1 PROVE p \in a..M /\ p \in 1..M
        BY Zenon
      <4> HIDE DEF M
      <4>1. p \in a..(M + 1) /\ a \in 1..(M + 1) /\ M \in Nat
        BY <3>r, Zenon
      <4> QED
        BY <4>1, OneMore, Zenon
    <3>5. \A p \in a..M : p \in 1..M /\ p \in a..Len(more)
      BY <3>r
    <3>6. CASE (\A p \in a..M : logs[p].key # k) /\ h[a][k] = h[M + 1][k]
      <4>1. \A p \in a..Len(more) : more[p].key # k
        BY <1>2, <1>3, <2>3, <3>4, <3>6, Zenon
      <4> QED
        BY <2>0, <3>2, <3>6, <4>1, Zenon DEF Replay
    <3>7. ASSUME NEW p \in a..M, logs[p].key = k, EntryOf(logs[p]) = h[M + 1][k],
                 \A q \in (p + 1)..M : logs[q].key # k
          PROVE  Replay(more, a, k, h[a][k], h[Len(more) + 1][k])
      <4>1. \A q \in (p + 1)..Len(more) : q = M + 1 \/ (q \in (p + 1)..M /\ q \in 1..M)
        <5> SUFFICES ASSUME NEW q \in (p + 1)..Len(more), q # M + 1 PROVE q \in (p + 1)..M /\ q \in 1..M
          BY Zenon
        <5> HIDE DEF M
        <5>1. p + 1 \in 1..(M + 1)
          BY <3>r
        <5>2. q \in (p + 1)..(M + 1) /\ M \in Nat
          BY <3>r, Zenon
        <5> QED
          BY <5>1, <5>2, OneMore, Zenon
      <4>2. \A q \in (p + 1)..Len(more) : more[q].key # k
        BY <1>2, <1>3, <2>3, <3>7, <4>1, Zenon
      <4>3. more[p] = logs[p] /\ p \in a..Len(more)
        BY <1>3, <3>5, <3>7, Zenon
      <4> QED
        BY <2>0, <3>2, <3>7, <4>2, <4>3, Zenon DEF Replay
    <3> QED
      BY <3>3, <3>6, <3>7, Zenon DEF Replay, M
  <2>4. a = M + 2 \/ a \in 1..(M + 1)
    BY <1>1, <1>3
  <2> QED
    BY <2>1, <2>2, <2>3, <2>4, Zenon
<1>6. Len(more) + 1 =< Len(h) /\ Len(h) = Len(more) + 1
  BY <1>1, <1>3
<1> QED
  BY <1>3, <1>4, <1>5, <1>6, Zenon DEF LogsOK

\* The logs that FetchLogs answers turn localState into a state of the writer:
\* the logs between the sequenceID and localState are applied again, and a
\* deletion that is not logged yet stays or is undone as a whole.
LEMMA AnswerReplays ==
    ASSUME NEW h, NEW logs, HistOK(h), LogsOK(h, logs), NEW op, OpOK(h, logs, op),
           NEW local, NEW seq \in Nat, At(h, local, seq), NEW got, Answer(logs, seq, got)
    PROVE  got \in Seq(Logged) /\ Replays(h, got, local, seq)
<1> SUFFICES Replays(h, got, local, seq)
  BY Zenon DEF Answer
<1> /\ got \in Seq(Logged) /\ Len(got) = (IF Len(logs) > seq THEN Len(logs) - seq ELSE 0)
    /\ \A p \in 1..Len(got) : got[p] = logs[seq + p]
  BY Zenon DEF Answer
<1> DEFINE M == Len(logs)
<1>1. PICK i \in 1..Len(h) : local = h[i] /\ seq =< i - 1
  BY Zenon DEF At
<1>2. M \in Nat /\ Len(h) \in Nat /\ (Len(h) = M + 1 \/ Len(h) = M + 2) /\ \A p \in 1..M : logs[p].seq = p
  BY DEF LogsOK, HistOK, OpOK
<1>3. CASE ~(M > seq)
  <2>1. 1..Len(got) = {}
    BY <1>2, <1>3
  <2> QED
    BY <1>1, <2>1, Zenon DEF Replays, Replay
<1>4. CASE M > seq
  <2> HIDE DEF M
  <2>1. Len(got) = M - seq /\ Len(got) \in Nat
    BY <1>2, <1>4 DEF M
  <2>2. \A p \in 1..Len(got) : seq + p \in 1..M /\ seq + p \in (seq + 1)..M /\ got[p].seq = seq + p
    <3>1. \A p \in 1..Len(got) : seq + p \in 1..M /\ seq + p \in (seq + 1)..M
      BY <1>2, <2>1
    <3> QED
      BY <1>2, <3>1, Zenon
  <2>3. \A q \in (seq + 1)..M : q - seq \in 1..Len(got) /\ seq + (q - seq) = q
    BY <1>2, <2>1
  <2>4. seq + 1 \in 1..(M + 1) /\ seq + 1 \in Nat /\ seq =< M
    BY <1>2, <1>4
  \* Replaying the answer is replaying the writer's logs from the next number on., Zenon
  <2>5. ASSUME NEW k, NEW x, NEW y, Replay(logs, seq + 1, k, x, y) PROVE Replay(got, 1, k, x, y)
    <3>1. CASE (\A p \in (seq + 1)..M : logs[p].key # k) /\ x = y
      BY <2>2, <3>1, Zenon DEF Replay
    <3>2. ASSUME NEW p \in (seq + 1)..M, logs[p].key = k, EntryOf(logs[p]) = y,
                 \A q \in (p + 1)..M : logs[q].key # k
          PROVE  Replay(got, 1, k, x, y)
      <4>1. PICK r : r = p - seq
        BY Zenon
      <4>2. r \in 1..Len(got) /\ seq + r = p
        BY <2>3, <3>2, <4>1, Zenon
      <4>3. \A q \in (r + 1)..Len(got) : q \in 1..Len(got) /\ seq + q \in (p + 1)..M
        BY <1>2, <2>1, <4>2
      <4>4. got[r] = logs[p] /\ \A q \in (r + 1)..Len(got) : got[q].key # k
        BY <3>2, <4>2, <4>3, Zenon
      <4> QED
        BY <3>2, <4>2, <4>4, Zenon DEF Replay
    <3> QED
      BY <2>5, <3>1, <3>2, Zenon DEF Replay, M
  \* The state at hand takes the place of an earlier one.
  <2>6. ASSUME NEW k \in Key, i =< M + 1 PROVE Replay(logs, seq + 1, k, h[i][k], h[M + 1][k])
    <3>1. i \in 1..(M + 1) /\ \A p \in i..M : p \in (seq + 1)..M
      BY <1>1, <1>2, <2>6
    <3>2. Replay(logs, i, k, h[i][k], h[M + 1][k])
      BY <3>1, Zenon DEF LogsOK, M
    <3>3. Replay(logs, seq + 1, k, h[seq + 1][k], h[M + 1][k])
      BY <2>4, Zenon DEF LogsOK, M
    <3> QED
      BY <3>1, <3>2, <3>3, Zenon DEF Replay, M
  <2>7. \A p \in 1..Len(got) : got[p].seq =< M
    <3>1. \A p \in 1..Len(got) : seq + p =< M
      BY <1>2, <2>1
    <3> QED
      BY <2>2, <3>1, Zenon
  <2>8. CASE i =< M + 1
    <3>1. M + 1 \in 1..Len(h) /\ seq =< (M + 1) - 1 /\ \A p \in 1..Len(got) : got[p].seq =< (M + 1) - 1
      BY <1>2, <2>4, <2>7
    <3> QED
      BY <1>1, <2>5, <2>6, <2>8, <3>1, Zenon DEF Replays
  <2>9. CASE i = M + 2
    <3>1. /\ Len(h) = M + 2 /\ op.key \in Key /\ op.pc = "log"
          /\ h[M + 2] = [h[M + 1] EXCEPT ![op.key] = op.entry]
      <4>1. Len(h) = M + 2 /\ Len(h) # M + 1 /\ Len(h) - 1 = M + 1
        BY <1>1, <1>2, <2>9
      <4> QED
        BY <4>1, Zenon DEF OpOK, M
    <3>2. h[M + 1] \in [Key -> Ent]
      BY <1>2, <3>1 DEF HistOK
    <3>3. \A k \in Key \ {op.key} : h[M + 2][k] = h[M + 1][k]
      BY <3>1, <3>2, Zenon
    <3>4. \A k \in Key : Replay(logs, seq + 1, k, h[seq + 1][k], h[M + 1][k])
      BY <2>4, Zenon DEF LogsOK, M
    <3>5. CASE \E p \in (seq + 1)..M : logs[p].key = op.key
      <4>1. ASSUME NEW k \in Key PROVE Replay(logs, seq + 1, k, h[i][k], h[M + 1][k])
        BY <2>9, <3>3, <3>4, <3>5, Zenon DEF Replay, M
      <4>2. M + 1 \in 1..Len(h) /\ seq =< (M + 1) - 1 /\ \A p \in 1..Len(got) : got[p].seq =< (M + 1) - 1
        BY <1>2, <2>4, <2>7
      <4> QED
        BY <1>1, <2>5, <4>1, <4>2, Zenon DEF Replays
    <3>6. CASE \A p \in (seq + 1)..M : logs[p].key # op.key
      <4>1. ASSUME NEW k \in Key PROVE Replay(logs, seq + 1, k, h[i][k], h[M + 2][k])
        BY <2>9, <3>3, <3>4, <3>6, Zenon DEF Replay, M
      <4>2. M + 2 \in 1..Len(h) /\ seq =< (M + 2) - 1 /\ \A p \in 1..Len(got) : got[p].seq =< (M + 2) - 1
        BY <1>2, <2>2, <2>4, <2>7, <3>1
      <4> QED
        BY <1>1, <2>5, <4>1, <4>2, Zenon DEF Replays
    <3> QED
      BY <3>5, <3>6, Zenon
  <2>10. i =< M + 1 \/ i = M + 2
    BY <1>1, <1>2
  <2> QED
    BY <2>8, <2>9, <2>10, Zenon
<1> QED
  BY <1>3, <1>4, Zenon

\* One log of ApplyLogs.
LEMMA LogReplayed ==
    ASSUME NEW h, NEW logs \in Seq(Logged), logs # <<>>, NEW local \in [Key -> Ent], NEW seq \in Nat,
           Replays(h, logs, local, seq), NEW log, log = Head(logs),
           NEW next, next = [local EXCEPT ![log.key] = EntryOf(log)]
    PROVE  /\ next \in [Key -> Ent] /\ MaxOf(seq, log.seq) \in Nat /\ Tail(logs) \in Seq(Logged)
           /\ Replays(h, Tail(logs), next, MaxOf(seq, log.seq))
<1>1. PICK rest : rest = Tail(logs)
  BY Zenon
<1>2. /\ log = logs[1] /\ log \in Logged /\ Len(logs) \in Nat /\ 1 \in 1..Len(logs)
      /\ rest \in Seq(Logged) /\ Len(rest) = Len(logs) - 1
      /\ \A p \in 1..Len(rest) : p + 1 \in 1..Len(logs) /\ rest[p] = logs[p + 1]
  BY <1>1
<1>3. log.seq \in Nat /\ log.key \in Key /\ EntryOf(log) \in Ent
  BY <1>2, Zenon DEF Logged, EntryOf, Ent, Nothing
<1>4. next \in [Key -> Ent] /\ next[log.key] = EntryOf(log) /\ \A k \in Key \ {log.key} : next[k] = local[k]
  BY <1>3, Zenon
<1>5. PICK j \in 1..Len(h) : /\ seq =< j - 1 /\ \A p \in 1..Len(logs) : logs[p].seq =< j - 1
                             /\ \A k \in Key : Replay(logs, 1, k, local[k], h[j][k])
  BY Zenon DEF Replays
<1>6. MaxOf(seq, log.seq) \in Nat /\ MaxOf(seq, log.seq) =< j - 1
  <2>1. log.seq =< j - 1
    BY <1>2, <1>5, Zenon
  <2> QED
    BY <1>3, <1>5, <2>1, Zenon DEF MaxOf
<1>7. \A p \in 1..Len(rest) : rest[p].seq =< j - 1
  BY <1>2, <1>5, Zenon
<1>8. ASSUME NEW k \in Key PROVE Replay(rest, 1, k, next[k], h[j][k])
  <2>1. Replay(logs, 1, k, local[k], h[j][k])
    BY <1>5, Zenon
  <2>2. CASE (\A p \in 1..Len(logs) : logs[p].key # k) /\ local[k] = h[j][k]
    <3>1. k # log.key /\ next[k] = h[j][k]
      BY <1>2, <1>4, <2>2, Zenon
    <3> QED
      BY <1>2, <2>2, <3>1, Zenon DEF Replay
  <2>3. ASSUME NEW p \in 1..Len(logs), logs[p].key = k, EntryOf(logs[p]) = h[j][k],
               \A q \in (p + 1)..Len(logs) : logs[q].key # k
        PROVE  Replay(rest, 1, k, next[k], h[j][k])
    <3>1. CASE p = 1
      <4>1. \A q \in 1..Len(rest) : q + 1 \in (p + 1)..Len(logs)
        BY <1>2, <3>1
      <4>2. \A q \in 1..Len(rest) : rest[q].key # k
        BY <1>2, <2>3, <4>1, Zenon
      <4>3. next[k] = h[j][k]
        BY <1>2, <1>4, <2>3, <3>1, Zenon
      <4> QED
        BY <4>2, <4>3, Zenon DEF Replay
    <3>2. CASE p # 1
      <4>1. PICK r : r = p - 1
        BY Zenon
      <4>2. /\ r \in 1..Len(rest) /\ r + 1 = p
            /\ \A q \in (r + 1)..Len(rest) : q \in 1..Len(rest) /\ q + 1 \in (p + 1)..Len(logs)
        BY <1>2, <2>3, <3>2, <4>1
      <4>3. rest[r] = logs[p] /\ \A q \in (r + 1)..Len(rest) : rest[q].key # k
        BY <1>2, <2>3, <4>2, Zenon
      <4> QED
        BY <2>3, <4>2, <4>3, Zenon DEF Replay
    <3> QED
      BY <3>1, <3>2, Zenon
  <2> QED
    BY <2>1, <2>2, <2>3, Zenon DEF Replay
<1> QED
  BY <1>1, <1>2, <1>4, <1>5, <1>6, <1>7, <1>8, Zenon DEF Replays

\* When no log is left, localState is a state of the writer.
LEMMA ReplayEnds ==
    ASSUME NEW h, HistOK(h), NEW local \in [Key -> Ent], NEW seq, Replays(h, <<>>, local, seq)
    PROVE  At(h, local, seq)
<1>1. PICK j \in 1..Len(h) : seq =< j - 1 /\ \A k \in Key : Replay(<<>>, 1, k, local[k], h[j][k])
  BY Zenon DEF Replays
<1>2. 1..Len(<<>>) = {}
  OBVIOUS
<1>3. \A k \in Key : local[k] = h[j][k]
  BY <1>1, <1>2, Zenon DEF Replay
<1>4. h[j] \in [Key -> Ent]
  BY <1>1 DEF HistOK
<1>5. local = h[j]
  BY <1>3, <1>4
<1> QED
  BY <1>1, <1>5, Zenon DEF At

\* applySnapshot: it starts from an empty localState, and ends with the snapshot.
LEMMA LoadBegins ==
    ASSUME NEW h, HistOK(h), NEW entries, NEW local, NEW seq, Loads(h, entries, Key, local, seq),
           NEW keys, keys = {k \in Key : entries[k] # Nothing}
    PROVE  Loads(h, entries, keys, Empty, seq) /\ Empty \in [Key -> Ent]
<1>1. Empty \in [Key -> Ent] /\ \A k \in Key : Empty[k] = Nothing
  BY Zenon DEF Empty, Nothing, Ent
<1>2. \A k \in Key \ keys : Empty[k] = entries[k]
  BY <1>1, Zenon
<1> QED
  BY <1>1, <1>2, Zenon DEF Loads

\* One entry of applySnapshot.
LEMMA EntryLoaded ==
    ASSUME NEW h, HistOK(h), NEW entries, NEW keys, NEW local \in [Key -> Ent], NEW seq \in Nat,
           Loads(h, entries, keys, local, seq), NEW k \in Key,
           NEW next, next = [local EXCEPT ![k] = entries[k]]
    PROVE  /\ next \in [Key -> Ent] /\ MaxOf(seq, entries[k].ver) \in Nat
           /\ Loads(h, entries, keys \ {k}, next, MaxOf(seq, entries[k].ver))
<1>1. PICK j \in 1..Len(h) : entries = h[j] /\ seq =< j - 1 /\ \A i \in Key \ keys : local[i] = h[j][i]
  BY Zenon DEF Loads
<1>2. entries \in [Key -> Ent] /\ j \in Nat
  BY <1>1 DEF HistOK
<1>3. entries[k] \in Ent /\ entries[k].ver \in Nat /\ entries[k].ver =< j - 1
  <2>1. entries[k] \in Ent /\ entries[k].ver =< j - 1
    BY <1>1, <1>2, Zenon DEF HistOK
  <2> QED
    BY <2>1, Zenon DEF Ent
<1>4. MaxOf(seq, entries[k].ver) \in Nat /\ MaxOf(seq, entries[k].ver) =< j - 1
  BY <1>1, <1>2, <1>3, Zenon DEF MaxOf
<1>5. next \in [Key -> Ent] /\ next[k] = entries[k] /\ \A i \in Key \ {k} : next[i] = local[i]
  BY <1>3, Zenon
<1>6. \A i \in Key \ (keys \ {k}) : next[i] = h[j][i]
  BY <1>1, <1>5, Zenon
<1> QED
  BY <1>1, <1>4, <1>5, <1>6, Zenon DEF Loads

\* When no entry is left, localState is the state that the snapshot was.
LEMMA LoadEnds ==
    ASSUME NEW h, HistOK(h), NEW entries, NEW local \in [Key -> Ent], NEW seq, Loads(h, entries, {}, local, seq)
    PROVE  At(h, local, seq)
<1>1. PICK j \in 1..Len(h) : seq =< j - 1 /\ \A k \in Key : local[k] = h[j][k]
  BY Zenon DEF Loads
<1>2. h[j] \in [Key -> Ent]
  BY <1>1 DEF HistOK
<1>3. local = h[j]
  BY <1>1, <1>2
<1> QED
  BY <1>1, <1>3, Zenon DEF At

\* Start takes the sequenceID from the snapshot: it is not ahead of it.
LEMMA SnapshotStarts ==
    ASSUME NEW h, HistOK(h), NEW snap, IsState(h, snap)
    PROVE  At(h, snap, LastVersion(snap)) /\ snap \in [Key -> Ent] /\ LastVersion(snap) \in Nat
<1>1. PICK i \in 1..Len(h) : snap = h[i]
  BY Zenon DEF IsState
<1>2. snap \in [Key -> Ent] /\ i - 1 \in Nat
  BY <1>1 DEF HistOK
<1>3. PICK S : S = {snap[k].ver : k \in Key} \cup {0}
  BY Zenon
<1>4. \A k \in Key : snap[k].ver \in Nat /\ snap[k].ver =< i - 1
  <2>1. \A k \in Key : snap[k] \in Ent /\ snap[k].ver =< i - 1
    BY <1>1, <1>2, Zenon DEF HistOK
  <2> QED
    BY <2>1, Zenon DEF Ent
<1>5. S \in SUBSET Nat /\ S # {} /\ \A x \in S : x =< i - 1
  BY <1>2, <1>3, <1>4
<1>6. Max(S) \in S
  BY <1>2, <1>5, MaxIn, Zenon
<1>7. LastVersion(snap) = Max(S)
  BY <1>3, Zenon DEF LastVersion
<1>8. LastVersion(snap) \in Nat /\ LastVersion(snap) =< i - 1
  BY <1>5, <1>6, <1>7, Zenon
<1> QED
  BY <1>1, <1>2, <1>8, Zenon DEF At

\* What a step of node n leaves alone.
Others(n) ==
    \A m \in Peer \ {n} :
        /\ rpStore'[m] = rpStore[m] /\ rpDisk'[m] = rpDisk[m] /\ rpLocal'[m] = rpLocal[m] /\ rpSeq'[m] = rpSeq[m]
        /\ rpOp'[m] = rpOp[m] /\ rpSync'[m] = rpSync[m] /\ rpHist'[m] = rpHist[m]
        /\ (m \in rpUp' <=> m \in rpUp) /\ (m \in rpSpoilt' <=> m \in rpSpoilt)

\* A follower that does nothing, while the writer may add a state.
LEMMA FollowerSame ==
    ASSUME NEW w, NEW n, FollowerOK(w, n), Len(rpHist[w]) \in Nat, Len(rpHist'[w]) \in Nat,
           Extends(rpHist[w], rpHist'[w]),
           rpStore'[n] = rpStore[n], rpDisk'[n] = rpDisk[n], rpLocal'[n] = rpLocal[n], rpSeq'[n] = rpSeq[n],
           rpOp'[n] = rpOp[n], rpSync'[n] = rpSync[n], n \in rpUp' <=> n \in rpUp
    PROVE  FollowerOK(w, n)'
<1>1. PICK h, g, sync, local, seq : /\ h = rpHist[w] /\ g = rpHist'[w] /\ sync = rpSync[n]
                                    /\ local = rpLocal[n] /\ seq = rpSeq[n]
  BY Zenon
<1>2. IsState(h, rpStore[n].snap) /\ IsState(h, rpDisk[n].snap) /\ (n \in rpUp => SyncOK(w, h, sync, local, seq))
  BY <1>1, Zenon DEF FollowerOK
<1>3. IsState(g, rpStore[n].snap) /\ IsState(g, rpDisk[n].snap) /\ (n \in rpUp => SyncOK(w, g, sync, local, seq))
  BY <1>1, <1>2, MoreStates, SyncGrows, Zenon
<1> QED
  BY <1>1, <1>3, Zenon DEF FollowerOK

\* What has to be shown of a step of n: for n as the writer, and as a follower.
LEMMA PrefixStep ==
    ASSUME PrefixInv, NEW n \in Peer, Others(n), n \in rpSpoilt => n \in rpSpoilt',
           rpWrites' \in Nat, DOMAIN rpSeq' = Peer, DOMAIN rpHist' = Peer,
           (Leads(n) /\ n \notin rpSpoilt' /\ WriterOK(n)) => WriterOK(n)' /\ Extends(rpHist[n], rpHist'[n]),
           \A w \in Peer \ {n} : (Leads(w) /\ WriterOK(w) /\ FollowerOK(w, n)) => FollowerOK(w, n)'
    PROVE  PrefixInv'
<1> SUFFICES ASSUME NEW w \in Peer, Leads(w), w \notin rpSpoilt' PROVE PrefixOf(w)'
  BY Zenon DEF PrefixInv, Leads
<1>1. w \notin rpSpoilt /\ WriterOK(w) /\ \A m \in Peer \ {w} : FollowerOK(w, m)
  BY Zenon DEF PrefixInv, PrefixOf, Others
<1>2. WriterOK(w)' /\ Extends(rpHist[w], rpHist'[w])
  <2>1. CASE w = n
    BY <1>1, <2>1, Zenon
  <2>2. CASE w # n
    <3>1. WriterOK(w)' /\ rpHist'[w] = rpHist[w]
      BY <1>1, <2>2, Zenon DEF Others, WriterOK
    <3>2. Len(rpHist[w]) \in Nat
      BY <1>1 DEF WriterOK, HistOK
    <3> QED
      BY <3>1, <3>2 DEF Extends
  <2> QED
    BY <2>1, <2>2, Zenon
<1>3. Len(rpHist[w]) \in Nat /\ Len(rpHist'[w]) \in Nat
  BY <1>1, <1>2 DEF WriterOK, HistOK
<1>4. ASSUME NEW m \in Peer \ {w} PROVE FollowerOK(w, m)'
  <2>1. CASE m = n
    BY <1>1, <1>4, <2>1, Zenon
  <2>2. CASE m # n
    BY <1>1, <1>2, <1>3, <1>4, <2>2, FollowerSame, Zenon DEF Others
  <2> QED
    BY <2>1, <2>2, Zenon
<1> QED
  BY <1>2, <1>4, Zenon DEF PrefixOf

\* The store's record with the snapshot replaced.
LEMMA SnapReplaced ==
    ASSUME NEW f, IsFiles(f), NEW e, NEW g, g = [f EXCEPT !.snap = e]
    PROVE  IsFiles(g) /\ g.snap = e
  BY Zenon DEF IsFiles

\* A step of the sync worker of n that changes nothing but its own state.
LEMMA SyncOnly ==
    ASSUME RpInv, PrefixInv, NEW n \in rpUp, NEW s, rpSync' = [rpSync EXCEPT ![n] = s],
           UNCHANGED <<rpUp, rpStore, rpDisk, rpLocal, rpSeq, rpOp, rpWrites, rpHist, rpSpoilt>>,
           \A w \in Peer : (Leads(w) /\ WriterOK(w)) => n # w,
           \A w \in Peer \ {n} : (Leads(w) /\ WriterOK(w) /\ SyncOK(w, rpHist[w], rpSync[n], rpLocal[n], rpSeq[n]))
                                    => SyncOK(w, rpHist[w], s, rpLocal[n], rpSeq[n])
    PROVE  PrefixInv'
<1>1. n \in Peer /\ DOMAIN rpSync = Peer
  BY Zenon DEF RpInv, Shapes
<1>2. rpSync'[n] = s /\ \A m \in Peer \ {n} : rpSync'[m] = rpSync[m]
  BY <1>1, Zenon
<1>3. Others(n)
  BY <1>2, Zenon DEF Others
<1>4. rpWrites' \in Nat /\ DOMAIN rpSeq' = Peer /\ DOMAIN rpHist' = Peer
  BY Zenon DEF PrefixInv
<1>5. ASSUME NEW w \in Peer \ {n}, Leads(w), WriterOK(w), FollowerOK(w, n) PROVE FollowerOK(w, n)'
  BY <1>2, <1>5, Zenon DEF FollowerOK
<1> QED
  BY <1>1, <1>3, <1>4, <1>5, PrefixStep, Zenon

\* syncState asks the writer.
LEMMA AskStep == ASSUME RpInv, PrefixInv, NEW n \in Peer, NEW m \in Peer, SyncAsk(n, m) PROVE PrefixInv'
<1> DEFINE s == [pc |-> "logs", from |-> rpSeq[n], peer |-> m]
<1>1. /\ n \in rpUp /\ <<n, m>> \in Follows /\ rpSync[n].pc = "idle" /\ rpSync' = [rpSync EXCEPT ![n] = s]
      /\ UNCHANGED <<rpUp, rpStore, rpDisk, rpLocal, rpSeq, rpOp, rpWrites, rpHist, rpSpoilt>>
  BY Zenon DEF SyncAsk
<1>2. s.pc = "logs" /\ s.from = rpSeq[n] /\ s.peer = m
  BY Zenon
<1> HIDE DEF s
<1>3. \A w \in Peer : Leads(w) => n # w /\ m = w
  BY <1>1 DEF Leads
<1>4. ASSUME NEW w \in Peer \ {n}, Leads(w), SyncOK(w, rpHist[w], rpSync[n], rpLocal[n], rpSeq[n])
      PROVE  SyncOK(w, rpHist[w], s, rpLocal[n], rpSeq[n])
  BY <1>1, <1>2, <1>3, <1>4, Zenon DEF SyncOK
<1> QED
  BY <1>1, <1>3, <1>4, SyncOnly, Zenon

\* FetchLogs at the writer.
LEMMA ServeLogsStep == ASSUME RpInv, PrefixInv, NEW n \in Peer, ServeLogs(n) PROVE PrefixInv'
<1>0. PICK got : got = LogsAfter(rpStore[rpSync[n].peer], rpSync[n].from)
  BY Zenon
<1> DEFINE s == [pc |-> "answered", logs |-> got]
<1>1. /\ n \in rpUp /\ rpSync[n].pc = "logs" /\ rpSync' = [rpSync EXCEPT ![n] = s]
      /\ UNCHANGED <<rpUp, rpStore, rpDisk, rpLocal, rpSeq, rpOp, rpWrites, rpHist, rpSpoilt>>
  BY <1>0, Zenon DEF ServeLogs
<1>2. s.pc = "answered" /\ s.logs = got /\ DOMAIN s = {"pc", "logs"}
  BY Zenon
<1> HIDE DEF s
<1>3. \A w \in Peer : (Leads(w) /\ WriterOK(w)) => n # w
  BY <1>1, Zenon DEF WriterOK
<1>4. ASSUME NEW w \in Peer \ {n}, WriterOK(w), SyncOK(w, rpHist[w], rpSync[n], rpLocal[n], rpSeq[n])
      PROVE  SyncOK(w, rpHist[w], s, rpLocal[n], rpSeq[n])
  <2>1. PICK h, logs, op, local, seq : /\ h = rpHist[w] /\ logs = rpStore[w].logs /\ op = rpOp[w]
                                       /\ local = rpLocal[n] /\ seq = rpSeq[n]
    BY Zenon
  <2>2. /\ seq \in Nat /\ local \in [Key -> Ent] /\ At(h, local, seq)
        /\ rpSync[n].from = seq /\ rpSync[n].peer = w
    BY <1>1, <1>4, <2>1, Zenon DEF SyncOK
  <2>3. HistOK(h) /\ LogsOK(h, logs) /\ OpOK(h, logs, op)
    BY <1>4, <2>1, Zenon DEF WriterOK
  <2>4. PICK files : files = rpStore[w] /\ logs = files.logs /\ got = LogsAfter(files, seq)
    BY <1>0, <2>1, <2>2, Zenon
  <2>5. Answer(logs, seq, got)
    BY <2>2, <2>3, <2>4, LogsAfterIs, Zenon
  <2>6. got \in Seq(Logged) /\ Replays(h, got, local, seq)
    BY <2>2, <2>3, <2>5, AnswerReplays, Zenon
  <2> QED
    BY <1>2, <2>1, <2>2, <2>6, Zenon DEF SyncOK
<1> QED
  BY <1>1, <1>3, <1>4, SyncOnly, Zenon

\* FetchSnapshot at the writer: the entries of its store are its last state.
LEMMA ServeSnapshotStep == ASSUME RpInv, PrefixInv, NEW n \in Peer, ServeSnapshot(n) PROVE PrefixInv'
<1>0. PICK got : got = rpStore[rpSync[n].peer].entries
  BY Zenon
<1> DEFINE s == [pc |-> "entries", entries |-> got]
<1>1. /\ n \in rpUp /\ rpSync[n].pc = "snapshot" /\ rpSync' = [rpSync EXCEPT ![n] = s]
      /\ UNCHANGED <<rpUp, rpStore, rpDisk, rpLocal, rpSeq, rpOp, rpWrites, rpHist, rpSpoilt>>
  BY <1>0, Zenon DEF ServeSnapshot
<1>2. s.pc = "entries" /\ s.entries = got
  BY Zenon
<1> HIDE DEF s
<1>3. \A w \in Peer : (Leads(w) /\ WriterOK(w)) => n # w
  BY <1>1, Zenon DEF WriterOK
<1>4. ASSUME NEW w \in Peer \ {n}, WriterOK(w), SyncOK(w, rpHist[w], rpSync[n], rpLocal[n], rpSeq[n])
      PROVE  SyncOK(w, rpHist[w], s, rpLocal[n], rpSeq[n])
  <2>1. PICK h, local, seq : h = rpHist[w] /\ local = rpLocal[n] /\ seq = rpSeq[n]
    BY Zenon
  <2>2. seq \in Nat /\ local \in [Key -> Ent] /\ At(h, local, seq) /\ rpSync[n].peer = w
    BY <1>1, <1>4, <2>1, Zenon DEF SyncOK
  <2>3. HistOK(h) /\ got = h[Len(h)]
    BY <1>0, <1>4, <2>1, <2>2, Zenon DEF WriterOK
  <2>4. Len(h) \in 1..Len(h) /\ seq =< Len(h) - 1
    BY <2>2, <2>3 DEF HistOK, At
  <2>5. Loads(h, got, Key, local, seq)
    BY <2>3, <2>4, Zenon DEF Loads
  <2> QED
    BY <1>2, <2>1, <2>2, <2>5, Zenon DEF SyncOK
<1> QED
  BY <1>1, <1>3, <1>4, SyncOnly, Zenon

\* A fetch that fails.
LEMMA FetchFailsStep ==
    ASSUME RpInv, PrefixInv, NEW n \in Peer, FetchLogsFails(n) \/ FetchSnapshotFails(n)
    PROVE  PrefixInv'
<1>1. PICK s : /\ n \in rpUp /\ rpSync[n].pc \in {"logs", "snapshot"} /\ rpSync' = [rpSync EXCEPT ![n] = s]
               /\ s.pc = "idle" \/ (s.pc = "snapshot" /\ rpSync[n].pc = "logs" /\ s.peer = rpSync[n].peer)
               /\ UNCHANGED <<rpUp, rpStore, rpDisk, rpLocal, rpSeq, rpOp, rpWrites, rpHist, rpSpoilt>>
  <2>1. CASE FetchLogsFails(n)
    <3> DEFINE s == [pc |-> "snapshot", peer |-> rpSync[n].peer]
    <3>1. s.pc = "snapshot" /\ s.peer = rpSync[n].peer
      BY Zenon
    <3>2. /\ n \in rpUp /\ rpSync[n].pc = "logs" /\ rpSync' = [rpSync EXCEPT ![n] = s]
          /\ UNCHANGED <<rpUp, rpStore, rpDisk, rpLocal, rpSeq, rpOp, rpWrites, rpHist, rpSpoilt>>
      BY <2>1, Zenon DEF FetchLogsFails
    <3> HIDE DEF s
    <3> QED
      BY <3>1, <3>2, Zenon
  <2>2. CASE FetchSnapshotFails(n)
    BY <2>2, Zenon DEF FetchSnapshotFails, Idle
  <2> QED
    BY <2>1, <2>2, Zenon
<1>2. \A w \in Peer : (Leads(w) /\ WriterOK(w)) => n # w
  BY <1>1, Zenon DEF WriterOK
<1>3. ASSUME NEW w \in Peer \ {n}, SyncOK(w, rpHist[w], rpSync[n], rpLocal[n], rpSeq[n])
      PROVE  SyncOK(w, rpHist[w], s, rpLocal[n], rpSeq[n])
  BY <1>1, <1>3, Zenon DEF SyncOK
<1> QED
  BY <1>1, <1>2, <1>3, SyncOnly, Zenon

\* ApplyLogs takes the mutex.
LEMMA ApplyLogsStep == ASSUME RpInv, PrefixInv, NEW n \in Peer, ApplyLogs(n) PROVE PrefixInv'
<1>1. PICK s, logs : /\ n \in rpUp /\ rpSync[n].pc = "answered" /\ logs = rpSync[n].logs
                     /\ rpSync' = [rpSync EXCEPT ![n] = s]
                     /\ s = IF logs = <<>> THEN Idle ELSE [rpSync[n] EXCEPT !.pc = "apply"]
                     /\ UNCHANGED <<rpUp, rpStore, rpDisk, rpLocal, rpSeq, rpOp, rpWrites, rpHist, rpSpoilt>>
  BY Zenon DEF ApplyLogs
<1>2. \A w \in Peer : (Leads(w) /\ WriterOK(w)) => n # w
  BY <1>1, Zenon DEF WriterOK
<1>3. ASSUME NEW w \in Peer \ {n}, WriterOK(w), SyncOK(w, rpHist[w], rpSync[n], rpLocal[n], rpSeq[n])
      PROVE  SyncOK(w, rpHist[w], s, rpLocal[n], rpSeq[n])
  <2>1. PICK h, local, seq : h = rpHist[w] /\ local = rpLocal[n] /\ seq = rpSeq[n]
    BY Zenon
  <2>2. /\ seq \in Nat /\ local \in [Key -> Ent] /\ DOMAIN rpSync[n] = {"pc", "logs"}
        /\ logs \in Seq(Logged) /\ Replays(h, logs, local, seq) /\ HistOK(h)
    BY <1>1, <1>3, <2>1, Zenon DEF SyncOK, WriterOK
  <2>3. CASE logs = <<>>
    <3>1. s.pc = "idle" /\ At(h, local, seq)
      BY <1>1, <2>2, <2>3, ReplayEnds, Zenon DEF Idle
    <3> QED
      BY <2>1, <2>2, <3>1, Zenon DEF SyncOK
  <2>4. CASE logs # <<>>
    <3>1. s.pc = "apply" /\ s.logs = logs /\ DOMAIN s = {"pc", "logs"}
      BY <1>1, <2>2, <2>4, Zenon
    <3> QED
      BY <2>1, <2>2, <2>4, <3>1, Zenon DEF SyncOK
  <2> QED
    BY <2>3, <2>4, Zenon
<1> QED
  BY <1>1, <1>2, <1>3, SyncOnly, Zenon

\* What a follower's FollowerOK takes after persist().
LEMMA Persisted ==
    ASSUME RpInv, PrefixInv, NEW n \in Peer, NEW files, IsFiles(files), NEW outcome \in Outcome,
           Persist(n, files, outcome), UNCHANGED <<rpUp, rpOp, rpWrites, rpHist>>,
           NEW s, rpSync' = [rpSync EXCEPT ![n] = s], NEW local, rpLocal' = [rpLocal EXCEPT ![n] = local],
           NEW seq, rpSeq' = [rpSeq EXCEPT ![n] = seq] \/ (rpSeq' = rpSeq /\ seq = rpSeq[n]), n \in rpUp,
           rpSync[n].pc # "idle",
           \A w \in Peer \ {n} : (/\ WriterOK(w) /\ IsState(rpHist[w], rpStore[n].snap)
                                  /\ SyncOK(w, rpHist[w], rpSync[n], rpLocal[n], rpSeq[n]))
                                 => IsState(rpHist[w], files.snap) /\ SyncOK(w, rpHist[w], s, local, seq)
    PROVE  PrefixInv'
<1>1. Shapes /\ DOMAIN rpSeq = Peer /\ DOMAIN rpHist = Peer /\ rpWrites \in Nat
  BY Zenon DEF RpInv, PrefixInv
<1>2. /\ rpStore'[n] = files /\ rpDisk'[n] = IF outcome = "old" THEN rpDisk[n] ELSE files
      /\ \A m \in Peer \ {n} : rpStore'[m] = rpStore[m] /\ rpDisk'[m] = rpDisk[m]
      /\ rpSpoilt \subseteq rpSpoilt' /\ rpSpoilt' \subseteq rpSpoilt \cup {n}
  BY <1>1, PersistFacts, Zenon
<1>3. /\ rpSync'[n] = s /\ rpLocal'[n] = local /\ rpSeq'[n] = seq /\ DOMAIN rpSeq' = Peer
      /\ \A m \in Peer \ {n} : rpSync'[m] = rpSync[m] /\ rpLocal'[m] = rpLocal[m] /\ rpSeq'[m] = rpSeq[m]
  BY <1>1, Zenon DEF Shapes
<1>4. Others(n)
  BY <1>2, <1>3, Zenon DEF Others
<1>5. ~WriterOK(n)
  BY Zenon DEF WriterOK
<1>6. ASSUME NEW w \in Peer \ {n}, WriterOK(w), FollowerOK(w, n) PROVE FollowerOK(w, n)'
  <2>1. IsState(rpHist[w], files.snap) /\ SyncOK(w, rpHist[w], s, local, seq)
    BY <1>6, Zenon DEF FollowerOK
  <2>2. IsState(rpHist[w], rpDisk'[n].snap)
    BY <1>2, <1>6, <2>1, Zenon DEF FollowerOK
  <2> QED
    BY <1>2, <1>3, <1>6, <2>1, <2>2, Zenon DEF FollowerOK
<1> QED
  BY <1>1, <1>2, <1>3, <1>4, <1>5, <1>6, PrefixStep, Zenon

\* One log of ApplyLogs.
LEMMA ApplyLogStep ==
    ASSUME RpInv, PrefixInv, NEW n \in Peer, NEW outcome \in Outcome, ApplyLog(n, outcome)
    PROVE  PrefixInv'
<1>1. PICK log, entry, rest, files, s, local, seq :
          /\ log = Head(rpSync[n].logs) /\ entry = EntryOf(log) /\ rest = Tail(rpSync[n].logs)
          /\ files = [rpStore[n] EXCEPT !.entries[log.key] = entry]
          /\ s = IF rest = <<>> THEN Idle ELSE [rpSync[n] EXCEPT !.logs = rest]
          /\ local = [rpLocal[n] EXCEPT ![log.key] = entry] /\ seq = MaxOf(rpSeq[n], log.seq)
  BY Zenon
<1>2. /\ n \in rpUp /\ rpSync[n].pc = "apply" /\ Persist(n, files, outcome)
      /\ rpSync' = [rpSync EXCEPT ![n] = s] /\ UNCHANGED <<rpUp, rpOp, rpWrites, rpHist>>
      /\ rpSeq' = [rpSeq EXCEPT ![n] = seq]
  BY <1>1, Zenon DEF ApplyLog, EntryOf
<1>3. rpLocal' = [rpLocal EXCEPT ![n] = local]
  BY <1>1, Zenon DEF ApplyLog, EntryOf
<1>4. IsFiles(rpStore[n]) /\ IsFiles(files) /\ files.snap = rpStore[n].snap
  <2>1. IsFiles(rpStore[n])
    BY Zenon DEF RpInv, Shapes
  <2> QED
    BY <1>1, <2>1, Zenon DEF IsFiles
<1>5. ASSUME NEW w \in Peer \ {n}, WriterOK(w), SyncOK(w, rpHist[w], rpSync[n], rpLocal[n], rpSeq[n])
      PROVE  SyncOK(w, rpHist[w], s, local, seq)
  <2>1. PICK h, logs, old, from : h = rpHist[w] /\ logs = rpSync[n].logs /\ old = rpLocal[n] /\ from = rpSeq[n]
    BY Zenon
  <2>2. /\ from \in Nat /\ old \in [Key -> Ent] /\ DOMAIN rpSync[n] = {"pc", "logs"} /\ logs # <<>>
        /\ logs \in Seq(Logged) /\ Replays(h, logs, old, from) /\ HistOK(h)
    BY <1>2, <1>5, <2>1, Zenon DEF SyncOK, WriterOK
  <2>3. /\ local \in [Key -> Ent] /\ seq \in Nat /\ rest \in Seq(Logged) /\ Replays(h, rest, local, seq)
    BY <1>1, <2>1, <2>2, LogReplayed, Zenon
  <2>4. CASE rest = <<>>
    <3>1. s.pc = "idle" /\ At(h, local, seq)
      BY <1>1, <2>2, <2>3, <2>4, ReplayEnds, Zenon DEF Idle
    <3> QED
      BY <2>1, <2>3, <3>1, Zenon DEF SyncOK
  <2>5. CASE rest # <<>>
    <3>1. s.pc = "apply" /\ s.logs = rest /\ DOMAIN s = {"pc", "logs"}
      BY <1>1, <1>2, <2>2, <2>5, Zenon
    <3> QED
      BY <2>1, <2>3, <2>5, <3>1, Zenon DEF SyncOK
  <2> QED
    BY <2>4, <2>5, Zenon
<1> QED
  BY <1>2, <1>3, <1>4, <1>5, Persisted, Zenon

\* applySnapshot forgets localState and saves the snapshot.
LEMMA ApplySnapshotStep ==
    ASSUME RpInv, PrefixInv, NEW n \in Peer, NEW outcome \in Outcome, ApplySnapshot(n, outcome)
    PROVE  PrefixInv'
<1>1. PICK entries, keys, files, s :
          /\ entries = rpSync[n].entries /\ keys = {k \in Key : entries[k] # Nothing}
          /\ files = [rpStore[n] EXCEPT !.snap = entries]
          /\ s = IF keys = {} THEN Idle ELSE [pc |-> "load", entries |-> entries, keys |-> keys]
  BY Zenon
<1>2. /\ n \in rpUp /\ rpSync[n].pc = "entries" /\ Persist(n, files, outcome)
      /\ rpSync' = [rpSync EXCEPT ![n] = s] /\ UNCHANGED <<rpUp, rpOp, rpWrites, rpHist, rpSeq>>
      /\ rpLocal' = [rpLocal EXCEPT ![n] = Empty]
  BY <1>1, Zenon DEF ApplySnapshot
<1>3. rpSeq' = rpSeq
  BY <1>2, Zenon
<1>4. IsFiles(rpStore[n]) /\ IsFiles(files) /\ files.snap = entries
  <2>1. IsFiles(rpStore[n])
    BY Zenon DEF RpInv, Shapes
  <2> QED
    BY <1>1, <2>1, SnapReplaced, Zenon
<1>5. ASSUME NEW w \in Peer \ {n}, WriterOK(w), SyncOK(w, rpHist[w], rpSync[n], rpLocal[n], rpSeq[n])
      PROVE  IsState(rpHist[w], files.snap) /\ SyncOK(w, rpHist[w], s, Empty, rpSeq[n])
  <2>1. PICK h, old, seq : h = rpHist[w] /\ old = rpLocal[n] /\ seq = rpSeq[n]
    BY Zenon
  <2>2. seq \in Nat /\ Loads(h, entries, Key, old, seq) /\ HistOK(h)
    BY <1>1, <1>2, <1>5, <2>1, Zenon DEF SyncOK, WriterOK
  <2>3. Loads(h, entries, keys, Empty, seq) /\ Empty \in [Key -> Ent] /\ keys \subseteq Key
    BY <1>1, <2>2, LoadBegins, Zenon
  <2>4. IsState(h, files.snap)
    BY <1>4, <2>2, Zenon DEF Loads, IsState
  <2>5. CASE keys = {}
    <3>1. s.pc = "idle" /\ At(h, Empty, seq)
      BY <1>1, <2>2, <2>3, <2>5, LoadEnds, Zenon DEF Idle
    <3> QED
      BY <2>1, <2>2, <2>3, <2>4, <3>1, Zenon DEF SyncOK
  <2>6. CASE keys # {}
    <3>1. s.pc = "load" /\ s.entries = entries /\ s.keys = keys /\ DOMAIN s = {"pc", "entries", "keys"}
      BY <1>1, <2>6, Zenon
    <3> QED
      BY <2>1, <2>2, <2>3, <2>4, <3>1, Zenon DEF SyncOK
  <2> QED
    BY <2>5, <2>6, Zenon
<1> QED
  BY <1>2, <1>3, <1>4, <1>5, Persisted, Zenon

\* One entry of applySnapshot.
LEMMA ApplyEntryStep ==
    ASSUME RpInv, PrefixInv, NEW n \in Peer, NEW k \in Key, NEW outcome \in Outcome, ApplyEntry(n, k, outcome)
    PROVE  PrefixInv'
<1>1. PICK entries, entry, rest, files, s, local, seq :
          /\ entries = rpSync[n].entries /\ entry = entries[k] /\ rest = rpSync[n].keys \ {k}
          /\ files = [rpStore[n] EXCEPT !.entries[k] = entry]
          /\ s = IF rest = {} THEN Idle ELSE [rpSync[n] EXCEPT !.keys = rest]
          /\ local = [rpLocal[n] EXCEPT ![k] = entry] /\ seq = MaxOf(rpSeq[n], entry.ver)
  BY Zenon
<1>2. /\ n \in rpUp /\ rpSync[n].pc = "load" /\ Persist(n, files, outcome)
      /\ rpSync' = [rpSync EXCEPT ![n] = s] /\ UNCHANGED <<rpUp, rpOp, rpWrites, rpHist>>
      /\ rpSeq' = [rpSeq EXCEPT ![n] = seq]
  BY <1>1, Zenon DEF ApplyEntry
<1>3. rpLocal' = [rpLocal EXCEPT ![n] = local]
  BY <1>1, Zenon DEF ApplyEntry
<1>4. IsFiles(rpStore[n]) /\ IsFiles(files) /\ files.snap = rpStore[n].snap
  <2>1. IsFiles(rpStore[n])
    BY Zenon DEF RpInv, Shapes
  <2> QED
    BY <1>1, <2>1, Zenon DEF IsFiles
<1>5. ASSUME NEW w \in Peer \ {n}, WriterOK(w), SyncOK(w, rpHist[w], rpSync[n], rpLocal[n], rpSeq[n])
      PROVE  SyncOK(w, rpHist[w], s, local, seq)
  <2>1. PICK h, keys, old, from : h = rpHist[w] /\ keys = rpSync[n].keys /\ old = rpLocal[n] /\ from = rpSeq[n]
    BY Zenon
  <2>2. /\ from \in Nat /\ old \in [Key -> Ent] /\ DOMAIN rpSync[n] = {"pc", "entries", "keys"}
        /\ keys \subseteq Key /\ Loads(h, entries, keys, old, from) /\ HistOK(h)
    BY <1>1, <1>2, <1>5, <2>1, Zenon DEF SyncOK, WriterOK
  <2>3. local \in [Key -> Ent] /\ seq \in Nat /\ Loads(h, entries, rest, local, seq) /\ rest \subseteq Key
    BY <1>1, <2>1, <2>2, EntryLoaded, Zenon
  <2>4. CASE rest = {}
    <3>0. Loads(h, entries, {}, local, seq)
      BY <2>3, <2>4, Zenon
    <3>1. s.pc = "idle" /\ At(h, local, seq)
      BY <1>1, <2>2, <2>3, <2>4, <3>0, LoadEnds, Zenon DEF Idle
    <3> QED
      BY <2>1, <2>3, <3>1, Zenon DEF SyncOK
  <2>5. CASE rest # {}
    <3>1. s.pc = "load" /\ s.entries = entries /\ s.keys = rest /\ DOMAIN s = {"pc", "entries", "keys"}
      BY <1>1, <1>2, <2>2, <2>5, Zenon
    <3> QED
      BY <2>1, <2>3, <3>1, Zenon DEF SyncOK
  <2> QED
    BY <2>4, <2>5, Zenon
<1> QED
  BY <1>2, <1>3, <1>4, <1>5, Persisted, Zenon

\* A crash, and Start of a follower.
LEMMA CrashedStep == ASSUME RpInv, PrefixInv, NEW n \in Peer, RpCrash(n) \/ RpRestart(n) PROVE PrefixInv'
<1>1. Shapes /\ DOMAIN rpSeq = Peer /\ DOMAIN rpHist = Peer /\ rpWrites \in Nat
  BY Zenon DEF RpInv, PrefixInv
<1>2. CASE RpCrash(n)
  <2>1. /\ rpUp' = rpUp \ {n} /\ rpSpoilt' = rpSpoilt \cup {n} /\ rpOp'[n].pc = "idle" /\ rpSync'[n].pc = "idle"
        /\ \A m \in Peer \ {n} : rpOp'[m] = rpOp[m] /\ rpSync'[m] = rpSync[m]
        /\ UNCHANGED <<rpStore, rpDisk, rpLocal, rpSeq, rpWrites, rpHist>>
    BY <1>1, <1>2, Zenon DEF RpCrash, Shapes, NoOp, Idle
  <2>2. Others(n)
    BY <2>1, Zenon DEF Others
  <2>3. \A w \in Peer \ {n} : FollowerOK(w, n) => FollowerOK(w, n)'
    BY <2>1, Zenon DEF FollowerOK
  <2> QED
    BY <1>1, <2>1, <2>2, <2>3, PrefixStep, Zenon
<1>3. CASE RpRestart(n)
  <2>1. /\ n \notin rpUp /\ rpUp' = rpUp \cup {n} /\ rpStore'[n] = rpDisk[n] /\ rpLocal'[n] = rpDisk[n].snap
        /\ rpSeq'[n] = LastVersion(rpDisk[n].snap) /\ DOMAIN rpSeq' = Peer
        /\ \A m \in Peer \ {n} : rpStore'[m] = rpStore[m] /\ rpLocal'[m] = rpLocal[m] /\ rpSeq'[m] = rpSeq[m]
        /\ UNCHANGED <<rpDisk, rpOp, rpSync, rpWrites, rpHist, rpSpoilt>>
    BY <1>1, <1>3, Zenon DEF RpRestart, Shapes
  <2>2. Others(n)
    BY <2>1, Zenon DEF Others
  <2>3. ~WriterOK(n)
    BY <2>1, Zenon DEF WriterOK
  <2>4. ASSUME NEW w \in Peer \ {n}, WriterOK(w), FollowerOK(w, n) PROVE FollowerOK(w, n)'
    <3>1. PICK h, snap, seq : h = rpHist[w] /\ snap = rpDisk[n].snap /\ seq = LastVersion(snap)
      BY Zenon
    <3>2. HistOK(h) /\ IsState(h, snap) /\ rpSync[n].pc = "idle"
      BY <2>1, <2>4, <3>1, Zenon DEF WriterOK, FollowerOK
    <3>3. At(h, snap, seq) /\ snap \in [Key -> Ent] /\ seq \in Nat
      BY <3>1, <3>2, SnapshotStarts, Zenon
    <3>4. SyncOK(w, h, rpSync[n], snap, seq)
      BY <3>2, <3>3, Zenon DEF SyncOK
    <3> QED
      BY <2>1, <2>4, <3>1, <3>2, <3>4, Zenon DEF FollowerOK
  <2> QED
    BY <1>1, <2>1, <2>2, <2>3, <2>4, PrefixStep, Zenon
<1> QED
  BY <1>2, <1>3, Zenon

\* Set and Delete of the writer, up to the store's answer.
LEMMA WriteStep ==
    ASSUME RpInv, PrefixInv, NEW n \in Writer, n \in Peer, NEW k \in Key, NEW val \in Nat, NEW outcome \in Outcome,
           StoreWrite(n, k, val, outcome)
    PROVE  PrefixInv'
<1>1. Shapes /\ DOMAIN rpSeq = Peer /\ DOMAIN rpHist = Peer /\ rpWrites \in Nat /\ IsFiles(rpStore[n])
  BY Zenon DEF RpInv, PrefixInv, Shapes
<1>2. PICK seq, entry, files, op, g :
          /\ seq = rpSeq[n] + 1 /\ entry = IF val = 0 THEN Nothing ELSE [ver |-> seq, val |-> val]
          /\ files = [rpStore[n] EXCEPT !.entries[k] = entry]
          /\ op = IF outcome = "ok" THEN [pc |-> "log", key |-> k, val |-> val, entry |-> entry] ELSE NoOp
          /\ g = Append(rpHist[n], files.entries)
  BY Zenon
<1>3. /\ n \in rpUp /\ MutexFree(n) /\ rpWrites' = rpWrites + 1 /\ Persist(n, files, outcome)
      /\ rpSeq' = [rpSeq EXCEPT ![n] = seq] /\ rpHist' = [rpHist EXCEPT ![n] = g]
      /\ rpOp' = [rpOp EXCEPT ![n] = op] /\ UNCHANGED <<rpUp, rpLocal, rpSync>>
  BY <1>2, Zenon DEF StoreWrite
<1>4. /\ IsFiles(files) /\ files.logs = rpStore[n].logs
      /\ files.entries = [rpStore[n].entries EXCEPT ![k] = entry]
  BY <1>1, <1>2, Zenon DEF IsFiles
<1>5. /\ rpStore'[n] = files /\ \A m \in Peer \ {n} : rpStore'[m] = rpStore[m] /\ rpDisk'[m] = rpDisk[m]
      /\ rpSpoilt \subseteq rpSpoilt' /\ rpSpoilt' \subseteq rpSpoilt \cup {n} /\ (outcome # "ok" => n \in rpSpoilt')
  BY <1>1, <1>3, <1>4, PersistFacts, Zenon
<1>6. /\ rpSeq'[n] = seq /\ rpHist'[n] = g /\ rpOp'[n] = op /\ DOMAIN rpSeq' = Peer /\ DOMAIN rpHist' = Peer
      /\ \A m \in Peer \ {n} : rpSeq'[m] = rpSeq[m] /\ rpHist'[m] = rpHist[m] /\ rpOp'[m] = rpOp[m]
  BY <1>1, <1>3, Zenon DEF Shapes
<1>7. Others(n)
  BY <1>3, <1>5, <1>6, Zenon DEF Others
<1>8. ASSUME n \notin rpSpoilt', WriterOK(n) PROVE WriterOK(n)' /\ Extends(rpHist[n], rpHist'[n])
  <2>1. PICK h, logs : h = rpHist[n] /\ logs = rpStore[n].logs
    BY Zenon
  <2>2. /\ HistOK(h) /\ LogsOK(h, logs) /\ OpOK(h, logs, rpOp[n]) /\ rpSeq[n] = Len(h) - 1
        /\ rpStore[n].entries = h[Len(h)] /\ rpOp[n].pc = "idle" /\ rpSync[n].pc = "idle" /\ outcome = "ok"
    BY <1>3, <1>5, <1>8, <2>1, Zenon DEF WriterOK, MutexFree
  <2>3. Len(h) = Len(logs) + 1
    BY <2>2, Zenon DEF OpOK
  <2>4. Len(h) \in Nat /\ seq = Len(h)
    BY <1>2, <2>2 DEF HistOK
  <2>5. entry = EntryOf([seq |-> Len(h), key |-> k, val |-> val])
    BY <1>2, <2>4, Zenon DEF EntryOf
  <2>6. files.entries = [h[Len(h)] EXCEPT ![k] = entry]
    BY <1>4, <2>2, Zenon
  <2>7. /\ HistOK(g) /\ LogsOK(g, logs) /\ Extends(h, g) /\ Len(g) = Len(logs) + 2
        /\ g[Len(g)] = files.entries /\ g[Len(g) - 1] = h[Len(h)]
    <3>1. PICK state : state = files.entries
      BY Zenon
    <3>2. AddsState(h, k, val, entry, state, g)
      BY <1>2, <2>1, <2>5, <2>6, <3>1, Zenon DEF AddsState
    <3>3. OneStateMore(h, logs, state, g)
      BY <2>2, <3>2, StateAdded, Zenon
    <3> QED
      BY <3>1, <3>3, Zenon DEF OneStateMore
  <2>8. op.pc = "log" /\ op.key = k /\ op.val = val /\ op.entry = entry
    BY <1>2, <2>2, Zenon
  <2>9. OpOK(g, logs, op)
    BY <2>3, <2>5, <2>6, <2>7, <2>8, Zenon DEF OpOK
  <2>10. seq = Len(g) - 1
    BY <2>3, <2>4, <2>7
  <2> QED
    BY <1>3, <1>4, <1>5, <1>6, <2>1, <2>2, <2>7, <2>9, <2>10, Zenon DEF WriterOK
<1>9. \A w \in Peer \ {n} : ~Leads(w)
  BY Zenon DEF Leads
<1>10. rpWrites' \in Nat
  BY <1>1, <1>3
<1> QED
  BY <1>5, <1>6, <1>7, <1>8, <1>9, <1>10, PrefixStep, Zenon

\* The rest of Set and Delete.
LEMMA LoggedStep ==
    ASSUME RpInv, PrefixInv, NEW n \in Peer, NEW outcome \in Outcome, LogWrite(n, outcome)
    PROVE  PrefixInv'
<1>1. Shapes /\ DOMAIN rpSeq = Peer /\ DOMAIN rpHist = Peer /\ rpWrites \in Nat /\ IsFiles(rpStore[n])
  BY Zenon DEF RpInv, PrefixInv, Shapes
<1>2. PICK op, log, more, files :
          /\ op = rpOp[n] /\ log = [seq |-> rpSeq[n], key |-> op.key, val |-> op.val]
          /\ more = Append(rpStore[n].logs, log) /\ files = [rpStore[n] EXCEPT !.logs = more]
  BY Zenon
<1>3. /\ n \in rpUp /\ op.pc = "log" /\ Persist(n, files, outcome) /\ rpOp' = [rpOp EXCEPT ![n] = NoOp]
      /\ UNCHANGED <<rpUp, rpSeq, rpSync, rpWrites, rpHist>>
  BY <1>2, Zenon DEF LogWrite
<1>4. IsFiles(files) /\ files.logs = more /\ files.entries = rpStore[n].entries
  BY <1>1, <1>2, Zenon DEF IsFiles
<1>5. /\ rpStore'[n] = files /\ \A m \in Peer \ {n} : rpStore'[m] = rpStore[m] /\ rpDisk'[m] = rpDisk[m]
      /\ rpSpoilt \subseteq rpSpoilt' /\ rpSpoilt' \subseteq rpSpoilt \cup {n}
  BY <1>1, <1>3, <1>4, PersistFacts, Zenon
<1>6. /\ rpOp'[n].pc = "idle"
      /\ \A m \in Peer \ {n} : rpOp'[m] = rpOp[m] /\ rpLocal'[m] = rpLocal[m]
  <2>1. \A m \in Peer \ {n} : rpLocal'[m] = rpLocal[m]
    <3>1. PICK y, x : rpLocal' = [rpLocal EXCEPT ![n][y] = x]
      BY Zenon DEF LogWrite
    <3> QED
      BY <1>1, <3>1, Zenon DEF Shapes
  <2> QED
    BY <1>1, <1>3, <2>1, Zenon DEF Shapes, NoOp
<1>7. Others(n)
  BY <1>3, <1>5, <1>6, Zenon DEF Others
<1>8. ASSUME WriterOK(n) PROVE WriterOK(n)' /\ Extends(rpHist[n], rpHist'[n])
  <2>1. PICK h, logs : h = rpHist[n] /\ logs = rpStore[n].logs
    BY Zenon
  <2>2. /\ HistOK(h) /\ LogsOK(h, logs) /\ OpOK(h, logs, op) /\ rpSeq[n] = Len(h) - 1
        /\ rpStore[n].entries = h[Len(h)]
    BY <1>2, <1>8, <2>1, Zenon DEF WriterOK
  <2>3. Len(h) \in Nat /\ Len(logs) \in Nat /\ Len(h) = Len(logs) + 2
    BY <1>3, <2>2 DEF HistOK, LogsOK, OpOK
  <2>4. rpSeq[n] = Len(logs) + 1
    BY <2>2, <2>3
  <2>5. LogsOK(h, more) /\ Len(h) = Len(more) + 1
    <3>1. AddsLog(logs, op, log, more)
      BY <1>2, <2>1, <2>4, Zenon DEF AddsLog
    <3> QED
      BY <1>3, <2>2, <3>1, LogAdded, Zenon
  <2>6. OpOK(h, more, rpOp'[n])
    BY <1>6, <2>5, Zenon DEF OpOK
  <2>7. Extends(h, h)
    BY <2>3 DEF Extends
  <2> QED
    BY <1>3, <1>4, <1>5, <1>8, <2>1, <2>2, <2>5, <2>6, <2>7, Zenon DEF WriterOK
<1>9. \A w \in Peer \ {n} : ~FollowerOK(w, n)
  BY <1>2, <1>3, Zenon DEF FollowerOK
<1> QED
  BY <1>1, <1>3, <1>5, <1>7, <1>8, <1>9, PrefixStep, Zenon

\* FollowerPrefix for any number of nodes, keys, writes, errors and crashes.
\* Logs that localState has already are harmless: they are applied again.
THEOREM FollowersPrefix == RpSpec => []FollowerPrefix
<1>1. RpInit => PrefixInv
  <2> SUFFICES ASSUME RpInit PROVE PrefixInv
    BY Zenon
  <2>1. DOMAIN rpSeq = Peer /\ DOMAIN rpHist = Peer /\ rpWrites \in Nat
    BY Zenon DEF RpInit
  <2>2. PICK h : h = <<Empty>>
    BY Zenon
  <2>3. Empty \in [Key -> Ent] /\ \A k \in Key : Empty[k].ver = 0
    BY Zenon DEF Empty, Nothing, Ent
  <2>4. HistOK(h) /\ Len(h) = 1 /\ h[1] = Empty
    BY <2>2, <2>3 DEF HistOK
  <2>5. LogsOK(h, <<>>)
    <3>1. <<>> \in Seq(Logged) /\ Len(<<>>) = 0 /\ Len(<<>>) + 1 =< Len(h) /\ 1..Len(<<>>) = {} /\ Len(<<>>) + 1 = 1
      BY <2>4
    <3>2. \A a \in 1..(Len(<<>>) + 1) : a = 1
      BY <3>1
    <3>3. \A k \in Key : Replay(<<>>, 1, k, h[1][k], h[1][k])
      BY <3>1, Zenon DEF Replay
    <3> QED
      BY <3>1, <3>2, <3>3, Zenon DEF LogsOK
  <2>6. OpOK(h, <<>>, NoOp)
    BY <2>4 DEF OpOK, NoOp
  <2>7. At(h, Empty, 0) /\ IsState(h, Empty)
    BY <2>4 DEF At, IsState
  <2>8. \A w : SyncOK(w, h, Idle, Empty, 0)
    BY <2>3, <2>7, Zenon DEF SyncOK, Idle
  <2>9. NoFiles.entries = Empty /\ NoFiles.logs = <<>> /\ NoFiles.snap = Empty
    BY Zenon DEF NoFiles
  <2>10. ASSUME NEW n \in Peer
         PROVE  /\ n \in rpUp /\ rpStore[n] = NoFiles /\ rpDisk[n] = NoFiles /\ rpLocal[n] = Empty /\ rpSeq[n] = 0
                /\ rpOp[n] = NoOp /\ rpSync[n] = Idle /\ rpHist[n] = h
    BY <2>2, <2>10, Zenon DEF RpInit
  <2>11. \A w \in Peer : WriterOK(w)
    <3>1. 0 = Len(h) - 1 /\ Idle.pc = "idle"
      BY <2>4 DEF Idle
    <3> QED
      BY <2>4, <2>5, <2>6, <2>9, <2>10, <3>1, Zenon DEF WriterOK
  <2>12. \A w, n \in Peer : FollowerOK(w, n)
    <3> SUFFICES ASSUME NEW w \in Peer, NEW n \in Peer PROVE FollowerOK(w, n)
      BY Zenon
    <3>1. /\ n \in rpUp /\ rpStore[n].snap = Empty /\ rpDisk[n].snap = Empty /\ rpLocal[n] = Empty /\ rpSeq[n] = 0
          /\ rpOp[n].pc = "idle" /\ rpSync[n] = Idle /\ rpHist[w] = h
      <4>1. NoOp.pc = "idle"
        BY Zenon DEF NoOp
      <4> QED
        BY <2>9, <2>10, <4>1, Zenon
    <3> QED
      BY <2>7, <2>8, <3>1, Zenon DEF FollowerOK
  <2> QED
    BY <2>1, <2>11, <2>12, Zenon DEF PrefixInv, PrefixOf
<1>2. RpInv /\ PrefixInv /\ [RpNext]_rpVars => PrefixInv'
  <2> SUFFICES ASSUME RpInv, PrefixInv, [RpNext]_rpVars PROVE PrefixInv'
    BY Zenon
  <2>1. ASSUME NEW n \in Peer, n \in Writer, NEW k \in Key, NEW outcome \in Outcome,
               Set(n, k, outcome) \/ Delete(n, k, outcome)
        PROVE  PrefixInv'
    <3>1. rpWrites + 1 \in Nat /\ 0 \in Nat
      BY DEF PrefixInv
    <3> QED
      BY <2>1, <3>1, WriteStep, Zenon DEF Set, Delete
  <2>2. ASSUME NEW n \in Peer, NEW outcome \in Outcome,
               LogWrite(n, outcome) \/ ApplyLog(n, outcome) \/ ApplySnapshot(n, outcome)
        PROVE  PrefixInv'
    BY <2>2, LoggedStep, ApplyLogStep, ApplySnapshotStep, Zenon
  <2>3. ASSUME NEW n \in Peer, NEW k \in Key, NEW outcome \in Outcome, ApplyEntry(n, k, outcome) PROVE PrefixInv'
    BY <2>3, ApplyEntryStep, Zenon
  <2>4. ASSUME NEW n \in Peer, NEW m \in Peer, SyncAsk(n, m) PROVE PrefixInv'
    BY <2>4, AskStep, Zenon
  <2>5. ASSUME NEW n \in Peer, ServeLogs(n) \/ FetchLogsFails(n) \/ ServeSnapshot(n) \/ FetchSnapshotFails(n)
        PROVE  PrefixInv'
    BY <2>5, ServeLogsStep, ServeSnapshotStep, FetchFailsStep, Zenon
  <2>6. ASSUME NEW n \in Peer, ApplyLogs(n) \/ RpCrash(n) \/ RpRestart(n) PROVE PrefixInv'
    BY <2>6, ApplyLogsStep, CrashedStep, Zenon
  <2>7. CASE UNCHANGED rpVars
    <3>1. \A w : (Leads(w)' <=> Leads(w)) /\ (WriterOK(w)' <=> WriterOK(w))
      BY <2>7, Zenon DEF rpVars, Leads, WriterOK
    <3>2. \A w, n : FollowerOK(w, n)' <=> FollowerOK(w, n)
      BY <2>7, Zenon DEF rpVars, FollowerOK
    <3> QED
      BY <2>7, <3>1, <3>2, Zenon DEF rpVars, PrefixInv, PrefixOf
  <2> QED
    BY <2>1, <2>2, <2>3, <2>4, <2>5, <2>6, <2>7, Zenon DEF RpNext
<1>3. PrefixInv => FollowerPrefix
  <2> SUFFICES ASSUME PrefixInv, NEW w \in Peer, NEW n \in Peer, Leads(w), w \notin rpSpoilt,
                      n # w, n \in rpUp, MutexFree(n)
               PROVE  At(rpHist[w], rpLocal[n], rpSeq[n])
    BY Zenon DEF FollowerPrefix, Leads, At
  <2>1. SyncOK(w, rpHist[w], rpSync[n], rpLocal[n], rpSeq[n])
    BY Zenon DEF PrefixInv, PrefixOf, FollowerOK
  <2> QED
    BY <2>1, Zenon DEF SyncOK, MutexFree
<1> QED
  BY <1>1, <1>2, <1>3, RpInduction, PTL DEF RpSpec
=============================================================================
