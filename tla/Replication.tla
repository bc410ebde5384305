---------------------------- MODULE Replication ----------------------------
(***************************************************************************)
(* The replicated key/value state of the brokers: Replicator.Set, Delete   *)
(* and Get, the followers' log and snapshot synchronisation, and the file  *)
(* store that survives a crash (src/GoTunnel/internal/state/replication.go,*)
(* store_file.go, http_transport.go).                                      *)
(*                                                                         *)
(* Set and Delete hold the replicator's mutex from the store's write to    *)
(* the update of localState; a peer's fetch takes only the store's mutex,  *)
(* so it may see what lies between.  They are two steps each: the store's  *)
(* write, then the log and localState.  A follower's synchronisation is a  *)
(* request, an answer and the application of the answer, one log or entry  *)
(* per step, all under the mutex.                                          *)
(*                                                                         *)
(* persist() replaces the state file by a rename, so for a crash it either *)
(* happened or did not; an error may leave the file old (the write or the  *)
(* rename failed) or new (the write of the log file failed).  The store's  *)
(* memory is changed in either case.                                       *)
(*                                                                         *)
(* Which peer is the leader is the matter of the module Election; here a   *)
(* constant says which peers a node may take for it.  Entries have no TTL: *)
(* the broker, the only caller, passes 0, and cleanupExpiredEntries then   *)
(* removes nothing.                                                        *)
(***************************************************************************)
EXTENDS Naturals, Sequences, FiniteSets, FiniteSetsExt

CONSTANTS Peer,       \* the nodes
          Writer,       \* the nodes whose Set and Delete are called
          Follows,      \* pairs <<n, m>>: n may take m for the leader
          Key,
          MaxWrite,     \* bound on calls of Set and Delete
          MaxFail,      \* bound on persist() errors
          MaxDeath      \* bound on crashes

ASSUME RpAssumption == /\ Writer \subseteq Peer
                       /\ Follows \subseteq Peer \X Peer
                       /\ MaxWrite \in Nat /\ MaxFail \in Nat /\ MaxDeath \in Nat

VARIABLES rpUp,         \* the brokers that run
          rpStore,      \* rpStore[n]: the FileStore's memory
          rpDisk,       \* rpDisk[n]: the state file
          rpLocal,      \* rpLocal[n]: localState
          rpSeq,        \* rpSeq[n]: sequenceID
          rpOp,         \* rpOp[n]: the Set or Delete that holds the mutex
          rpSync,       \* rpSync[n]: the sync worker
          rpWrites,     \* calls of Set and Delete so far
          rpFails,      \* persist() errors so far
          rpDeaths,     \* crashes so far
          rpMay,        \* history: what the state file may hold for a key
          rpHist,       \* history: rpHist[n][i]: n's entries after operation i - 1
          rpSpoilt      \* history: nodes that have crashed or failed to persist

rpVars == <<rpUp, rpStore, rpDisk, rpLocal, rpSeq, rpOp, rpSync,
            rpWrites, rpFails, rpDeaths, rpMay, rpHist, rpSpoilt>>

\* StateEntry: the version and which call wrote the value.  Nothing is [0, 0].
Entry == [ver : 0..MaxWrite, val : 0..MaxWrite]
Nothing == [ver |-> 0, val |-> 0]
Empty == [k \in Key |-> Nothing]

\* ReplicationLog: an entry of value 0 is a deletion.
Log == [seq : 1..MaxWrite, key : Key, val : 0..MaxWrite]

Files == [entries : [Key -> Entry], logs : Seq(Log), snap : [Key -> Entry]]
NoFiles == [entries |-> Empty, logs |-> <<>>, snap |-> Empty]

NoOp == [pc |-> "idle"]
Idle == [pc |-> "idle"]

LastVersion(entries) == Max({entries[k].ver : k \in Key} \cup {0})

MaxOf(a, b) == IF a > b THEN a ELSE b

RpTypeOK ==
    /\ rpUp \subseteq Peer
    /\ rpStore \in [Peer -> Files]
    /\ rpDisk \in [Peer -> Files]
    /\ rpLocal \in [Peer -> [Key -> Entry]]
    /\ rpSeq \in [Peer -> 0..MaxWrite]
    /\ \A n \in Peer : rpOp[n].pc \in {"idle", "log"}
    /\ \A n \in Peer : rpSync[n].pc \in {"idle", "logs", "snapshot", "answered", "entries", "apply", "load"}
    /\ rpMay \in [Peer -> [Key -> SUBSET Entry]]

-----------------------------------------------------------------------------
\* NewReplicator over an empty FileStore, and Start.
RpInit ==
    /\ rpUp = Peer
    /\ rpStore = [n \in Peer |-> NoFiles]
    /\ rpDisk = [n \in Peer |-> NoFiles]
    /\ rpLocal = [n \in Peer |-> Empty]
    /\ rpSeq = [n \in Peer |-> 0]
    /\ rpOp = [n \in Peer |-> NoOp]
    /\ rpSync = [n \in Peer |-> Idle]
    /\ rpWrites = 0
    /\ rpFails = 0
    /\ rpDeaths = 0
    /\ rpMay = [n \in Peer |-> [k \in Key |-> {Nothing}]]
    /\ rpHist = [n \in Peer |-> <<Empty>>]
    /\ rpSpoilt = {}

\* Nobody holds the replicator's mutex.
MutexFree(n) == rpOp[n].pc = "idle" /\ rpSync[n].pc \notin {"apply", "load"}

\* The outcomes of persist().
Outcome == {"ok", "old", "new"}

\* The state file is written before the memory is changed.
PersistBefore(n, files, outcome) ==
    /\ rpStore' = [rpStore EXCEPT ![n] = files]
    /\ rpDisk' = [rpDisk EXCEPT ![n] = IF outcome = "old" THEN @ ELSE rpStore[n]]
    /\ outcome # "ok" => rpFails < MaxFail
    /\ rpFails' = IF outcome = "ok" THEN rpFails ELSE rpFails + 1
    /\ rpSpoilt' = IF outcome = "ok" THEN rpSpoilt ELSE rpSpoilt \cup {n}

\* FileStore.Set, Delete, SaveLog and Snapshot: the memory is changed, then
\* the state file is replaced.
Persist(n, files, outcome) ==
    /\ rpStore' = [rpStore EXCEPT ![n] = files]
    /\ rpDisk' = [rpDisk EXCEPT ![n] = IF outcome = "old" THEN @ ELSE files]
    /\ outcome # "ok" => rpFails < MaxFail
    /\ rpFails' = IF outcome = "ok" THEN rpFails ELSE rpFails + 1
    /\ rpSpoilt' = IF outcome = "ok" THEN rpSpoilt ELSE rpSpoilt \cup {n}

\* Set and Delete up to the store's answer.  val 0 deletes.
StoreWrite(n, k, val, outcome) ==
    LET seq == rpSeq[n] + 1
        entry == IF val = 0 THEN Nothing ELSE [ver |-> seq, val |-> val]
        files == [rpStore[n] EXCEPT !.entries[k] = entry]
    IN  /\ n \in rpUp
        /\ MutexFree(n)
        /\ rpWrites < MaxWrite
        /\ seq <= MaxWrite
        /\ rpWrites' = rpWrites + 1
        /\ rpSeq' = [rpSeq EXCEPT ![n] = seq]
        /\ Persist(n, files, outcome)
        /\ rpMay' = [rpMay EXCEPT ![n][k] = @ \cup {entry}]
        /\ rpHist' = [rpHist EXCEPT ![n] = Append(@, files.entries)]
        /\ rpOp' = [rpOp EXCEPT ![n] = IF outcome = "ok"
                                       THEN [pc |-> "log", key |-> k, val |-> val, entry |-> entry]
                                       ELSE NoOp]
        /\ UNCHANGED <<rpUp, rpLocal, rpSync, rpDeaths>>

\* Replicator.Set of a new value.
Set(n, k, outcome) == StoreWrite(n, k, rpWrites + 1, outcome)

\* Replicator.Delete.
Delete(n, k, outcome) == StoreWrite(n, k, 0, outcome)

\* The rest of Set and Delete: SaveLog, localState, onStateChange, return.
LogWrite(n, outcome) ==
    LET op == rpOp[n]
        log == [seq |-> rpSeq[n], key |-> op.key, val |-> op.val]
    IN  /\ n \in rpUp
        /\ op.pc = "log"
        /\ Persist(n, [rpStore[n] EXCEPT !.logs = Append(@, log)], outcome)
        /\ rpLocal' = [rpLocal EXCEPT ![n][op.key] = IF outcome = "ok" THEN op.entry ELSE @]
        /\ rpMay' = [rpMay EXCEPT ![n][op.key] = IF outcome = "ok" THEN {op.entry} ELSE @]
        /\ rpOp' = [rpOp EXCEPT ![n] = NoOp]
        /\ UNCHANGED <<rpUp, rpSeq, rpSync, rpWrites, rpDeaths, rpHist>>

-----------------------------------------------------------------------------
\* syncState: a node that is not the leader asks the one it takes for it; the
\* sequenceID of the request is read without the mutex.
SyncAsk(n, m) ==
    /\ n \in rpUp
    /\ <<n, m>> \in Follows
    /\ rpSync[n].pc = "idle"
    /\ rpSync' = [rpSync EXCEPT ![n] = [pc |-> "logs", from |-> rpSeq[n], peer |-> m]]
    /\ UNCHANGED <<rpUp, rpStore, rpDisk, rpLocal, rpSeq, rpOp,
                   rpWrites, rpFails, rpDeaths, rpMay, rpHist, rpSpoilt>>

LogsAfterSkips(files, from) == SelectSeq(files.logs, LAMBDA log : log.seq > from + 1)

\* GetLogs: the logs after a sequence number, gathered in a loop over all.
LogsAfter(files, from) ==
    LET gathered[i \in 0..Len(files.logs)] ==
            IF i = 0 THEN <<>>
            ELSE IF files.logs[i].seq > from THEN Append(gathered[i - 1], files.logs[i])
            ELSE gathered[i - 1]
    IN  gathered[Len(files.logs)]

\* FetchLogs at the peer (handlePeerLogs, ExportLogs, GetLogs).
ServeLogs(n) ==
    LET sync == rpSync[n]
    IN  /\ n \in rpUp
        /\ sync.pc = "logs"
        /\ sync.peer \in rpUp
        /\ rpSync' = [rpSync EXCEPT ![n] = [pc |-> "answered", logs |-> LogsAfter(rpStore[sync.peer], sync.from)]]
        /\ UNCHANGED <<rpUp, rpStore, rpDisk, rpLocal, rpSeq, rpOp,
                       rpWrites, rpFails, rpDeaths, rpMay, rpHist, rpSpoilt>>

\* FetchLogs fails: the snapshot is asked for.
FetchLogsFails(n) ==
    /\ n \in rpUp
    /\ rpSync[n].pc = "logs"
    /\ rpSync' = [rpSync EXCEPT ![n] = [pc |-> "snapshot", peer |-> @.peer]]
    /\ UNCHANGED <<rpUp, rpStore, rpDisk, rpLocal, rpSeq, rpOp,
                   rpWrites, rpFails, rpDeaths, rpMay, rpHist, rpSpoilt>>

\* FetchSnapshot at the peer: ExportSnapshot lists the entries of the store.
ServeSnapshot(n) ==
    LET sync == rpSync[n]
    IN  /\ n \in rpUp
        /\ sync.pc = "snapshot"
        /\ sync.peer \in rpUp
        /\ rpSync' = [rpSync EXCEPT ![n] = [pc |-> "entries", entries |-> rpStore[sync.peer].entries]]
        /\ UNCHANGED <<rpUp, rpStore, rpDisk, rpLocal, rpSeq, rpOp,
                       rpWrites, rpFails, rpDeaths, rpMay, rpHist, rpSpoilt>>

FetchSnapshotFails(n) ==
    /\ n \in rpUp
    /\ rpSync[n].pc = "snapshot"
    /\ rpSync' = [rpSync EXCEPT ![n] = Idle]
    /\ UNCHANGED <<rpUp, rpStore, rpDisk, rpLocal, rpSeq, rpOp,
                   rpWrites, rpFails, rpDeaths, rpMay, rpHist, rpSpoilt>>

\* ApplyLogs takes the mutex and goes through the logs.
ApplyLogs(n) ==
    /\ n \in rpUp
    /\ rpSync[n].pc = "answered"
    /\ MutexFree(n)
    /\ rpSync' = [rpSync EXCEPT ![n] = IF @.logs = <<>> THEN Idle ELSE [@ EXCEPT !.pc = "apply"]]
    /\ UNCHANGED <<rpUp, rpStore, rpDisk, rpLocal, rpSeq, rpOp,
                   rpWrites, rpFails, rpDeaths, rpMay, rpHist, rpSpoilt>>

\* One log of ApplyLogs: the store's error is dropped, the log itself is not
\* saved, the listener is not told.
ApplyLog(n, outcome) ==
    LET log == Head(rpSync[n].logs)
        entry == IF log.val = 0 THEN Nothing ELSE [ver |-> log.seq, val |-> log.val]
        rest == Tail(rpSync[n].logs)
    IN  /\ n \in rpUp
        /\ rpSync[n].pc = "apply"
        /\ Persist(n, [rpStore[n] EXCEPT !.entries[log.key] = entry], outcome)
        /\ rpLocal' = [rpLocal EXCEPT ![n][log.key] = entry]
        /\ rpSeq' = [rpSeq EXCEPT ![n] = MaxOf(@, log.seq)]
        /\ rpMay' = [rpMay EXCEPT ![n][log.key] = IF outcome = "old" THEN @ \cup {entry} ELSE {entry}]
        /\ rpSync' = [rpSync EXCEPT ![n] = IF rest = <<>> THEN Idle ELSE [@ EXCEPT !.logs = rest]]
        /\ UNCHANGED <<rpUp, rpOp, rpWrites, rpDeaths, rpHist>>

\* applySnapshot takes the mutex, forgets localState and saves the snapshot.
ApplySnapshot(n, outcome) ==
    LET entries == rpSync[n].entries
        keys == {k \in Key : entries[k] # Nothing}
    IN  /\ n \in rpUp
        /\ rpSync[n].pc = "entries"
        /\ MutexFree(n)
        /\ rpLocal' = [rpLocal EXCEPT ![n] = Empty]
        /\ Persist(n, [rpStore[n] EXCEPT !.snap = entries], outcome)
        /\ rpSync' = [rpSync EXCEPT ![n] = IF keys = {} THEN Idle
                                           ELSE [pc |-> "load", entries |-> entries, keys |-> keys]]
        /\ UNCHANGED <<rpUp, rpSeq, rpOp, rpWrites, rpDeaths, rpMay, rpHist>>

\* One entry of applySnapshot.
ApplyEntry(n, k, outcome) ==
    LET entry == rpSync[n].entries[k]
        rest == rpSync[n].keys \ {k}
    IN  /\ n \in rpUp
        /\ rpSync[n].pc = "load"
        /\ k \in rpSync[n].keys
        /\ rpLocal' = [rpLocal EXCEPT ![n][k] = entry]
        /\ Persist(n, [rpStore[n] EXCEPT !.entries[k] = entry], outcome)
        /\ rpSeq' = [rpSeq EXCEPT ![n] = MaxOf(@, entry.ver)]
        /\ rpMay' = [rpMay EXCEPT ![n][k] = IF outcome = "old" THEN @ \cup {entry} ELSE {entry}]
        /\ rpSync' = [rpSync EXCEPT ![n] = IF rest = {} THEN Idle ELSE [@ EXCEPT !.keys = rest]]
        /\ UNCHANGED <<rpUp, rpOp, rpWrites, rpDeaths, rpHist>>

-----------------------------------------------------------------------------
\* The process dies: only the state file is left.
RpCrash(n) ==
    /\ n \in rpUp
    /\ rpDeaths < MaxDeath
    /\ rpDeaths' = rpDeaths + 1
    /\ rpUp' = rpUp \ {n}
    /\ rpSpoilt' = rpSpoilt \cup {n}
    /\ rpOp' = [rpOp EXCEPT ![n] = NoOp]
    /\ rpSync' = [rpSync EXCEPT ![n] = Idle]
    /\ UNCHANGED <<rpStore, rpDisk, rpLocal, rpSeq, rpWrites, rpFails, rpMay, rpHist>>

RpRestartNext(n) ==
    /\ n \notin rpUp
    /\ rpUp' = rpUp \cup {n}
    /\ rpStore' = [rpStore EXCEPT ![n] = rpDisk[n]]
    /\ rpLocal' = [rpLocal EXCEPT ![n] = rpDisk[n].snap]
    /\ rpSeq' = [rpSeq EXCEPT ![n] = LastVersion(rpDisk[n].snap) + 1]
    /\ UNCHANGED <<rpDisk, rpOp, rpSync, rpWrites, rpFails, rpDeaths, rpMay, rpHist, rpSpoilt>>

\* NewFileStore loads the state file; Start takes localState and sequenceID
\* from the snapshot in it, not from the entries.
RpRestart(n) ==
    /\ n \notin rpUp
    /\ rpUp' = rpUp \cup {n}
    /\ rpStore' = [rpStore EXCEPT ![n] = rpDisk[n]]
    /\ rpLocal' = [rpLocal EXCEPT ![n] = rpDisk[n].snap]
    /\ rpSeq' = [rpSeq EXCEPT ![n] = LastVersion(rpDisk[n].snap)]
    /\ UNCHANGED <<rpDisk, rpOp, rpSync, rpWrites, rpFails, rpDeaths, rpMay, rpHist, rpSpoilt>>

RpNext ==
    \E n \in Peer :
        \/ \E k \in Key, outcome \in Outcome : n \in Writer /\ (Set(n, k, outcome) \/ Delete(n, k, outcome))
        \/ \E outcome \in Outcome : \/ LogWrite(n, outcome)
                                    \/ ApplyLog(n, outcome)
                                    \/ ApplySnapshot(n, outcome)
                                    \/ \E k \in Key : ApplyEntry(n, k, outcome)
        \/ \E m \in Peer : SyncAsk(n, m)
        \/ ServeLogs(n) \/ FetchLogsFails(n)
        \/ ServeSnapshot(n) \/ FetchSnapshotFails(n)
        \/ ApplyLogs(n)
        \/ RpCrash(n) \/ RpRestart(n)

RpSpec == RpInit /\ [][RpNext]_rpVars

-----------------------------------------------------------------------------
\* What a broker has acknowledged is what a restart finds: the state file holds,
\* for every key, the last operation that returned success or one that came
\* after it (Set, Delete, persist and load: replication.go:203-286,
\* store_file.go:114-159).
AckedDurable == \A n \in Peer, k \in Key : rpDisk[n].entries[k] \in rpMay[n][k]

\* The value Get returns from localState is the one of the store, on a node that
\* has not crashed or failed to write, whenever the mutex is free
\* (replication.go:186-200 answers from localState first).
CacheAgrees ==
    \A n \in rpUp \ rpSpoilt : MutexFree(n) =>
        \A k \in Key : rpLocal[n][k] # Nothing => rpStore[n].entries[k] = rpLocal[n][k]

\* While the one writer leads and has not crashed or failed to write, a follower's
\* localState is the writer's state after some prefix of its operations, and
\* the prefix has at least the operations up to the node's sequenceID: asking
\* from there on leaves out nothing (replication.go:473-497, 563-591, 668-682).
FollowerPrefix ==
    \A w \in Peer, n \in Peer :
        (/\ Writer = {w} /\ Follows = (Peer \ {w}) \X {w}
         /\ w \notin rpSpoilt /\ n # w /\ n \in rpUp /\ MutexFree(n)) =>
            \E i \in 1..Len(rpHist[w]) : rpLocal[n] = rpHist[w][i] /\ rpSeq[n] <= i - 1

\* Set, Delete, persist and Get together: what was acknowledged is in the state
\* file, and what Get answers from localState is in the store.
StoreSound == AckedDurable /\ CacheAgrees
=============================================================================
