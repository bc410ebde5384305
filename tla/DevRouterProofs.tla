-------------------------- MODULE DevRouterProofs --------------------------
(* Proofs about DevRouter, for any domains, ports, commands and requests.  *)
EXTENDS DevRouter, TLAPS

StopperOK ==
    stopper \in [pc : {"off", "stopping", "stopped"}, names : SUBSET Names, late : SUBSET Cmds]

\* The part of the type invariant that the supervisor's calls touch.
CommandsOK ==
    /\ processes \in [Names -> Cmds \cup {NoCmd}]
    /\ cmd \in [Cmds -> CmdRecord]
    /\ \A c \in Cmds : IF cmd[c].st = "free" THEN cmd[c] = FreeCmd
                      ELSE cmd[c].name \in Names /\ cmd[c].port \in Ports

\* StartService registers a well-typed command.
LEMMA StartServiceTypes ==
    ASSUME TypeOK, NEW n \in Names, NEW p \in Ports, NEW c \in Cmds, StartService(n, p, c)
    PROVE  CommandsOK' /\ StopperOK'
<1> DEFINE new == [st |-> "running", name |-> n, port |-> p]
<1>1. new \in CmdRecord /\ new.st = "running" /\ new.name \in Names /\ new.port \in Ports
  BY Zenon DEF CmdRecord, CmdState
<1>2. cmd' = [cmd EXCEPT ![c] = new] /\ processes' = [processes EXCEPT ![n] = c]
  BY Zenon DEF StartService
<1> HIDE DEF new
<1>3. \A x \in Cmds : cmd'[x] = IF x = c THEN new ELSE cmd[x]
  BY <1>2, Zenon DEF TypeOK
<1>4. CommandsOK'
  BY <1>1, <1>2, <1>3, Zenon DEF TypeOK, CommandsOK
<1>5. StopperOK'
  BY Zenon DEF TypeOK, StopperOK, StartService
<1> QED
  BY <1>4, <1>5, Zenon

\* StopService only moves a running command to "signalled".
LEMMA StopServiceTypes ==
    ASSUME TypeOK, NEW n \in Names, StopService(n)
    PROVE  /\ CommandsOK'
           /\ UNCHANGED processes
           /\ \A c \in Cmds : /\ cmd'[c].name = cmd[c].name
                              /\ cmd'[c].port = cmd[c].port
                              /\ cmd'[c].st = IF c = processes[n] /\ cmd[c].st = "running"
                                              THEN "signalled" ELSE cmd[c].st
<1>1. CASE processes[n] # NoCmd /\ cmd[processes[n]].st = "running"
  <2> DEFINE x == processes[n]
  <2>1. x \in Cmds
    BY <1>1, Zenon DEF TypeOK
  <2>2. cmd' = [cmd EXCEPT ![x].st = "signalled"] /\ UNCHANGED processes
    BY <1>1, Zenon DEF StopService
  <2> HIDE DEF x
  <2>3. cmd[x] \in CmdRecord /\ cmd[x].st # "free"
    BY <1>1, <2>1, Zenon DEF TypeOK, x
  <2>4. \A c \in Cmds : cmd'[c] = IF c = x THEN [cmd[x] EXCEPT !.st = "signalled"] ELSE cmd[c]
    BY <2>1, <2>2, Zenon DEF TypeOK
  <2>5. [cmd[x] EXCEPT !.st = "signalled"] \in CmdRecord
    BY <2>3, Zenon DEF CmdRecord, CmdState
  <2>6. CommandsOK'
    BY <2>1, <2>2, <2>3, <2>4, <2>5, Zenon DEF TypeOK, CommandsOK, CmdRecord
  <2>7. \A c \in Cmds : /\ cmd'[c].name = cmd[c].name
                        /\ cmd'[c].port = cmd[c].port
                        /\ cmd'[c].st = IF c = x THEN "signalled" ELSE cmd[c].st
    BY <2>3, <2>4 DEF CmdRecord
  <2> QED
    BY <1>1, <2>2, <2>6, <2>7, Zenon DEF x
<1>2. CASE ~(processes[n] # NoCmd /\ cmd[processes[n]].st = "running")
  BY <1>2, DevRouterAssumption DEF StopService, TypeOK, CommandsOK
<1> QED
  BY <1>1, <1>2, Zenon

\* The values of the state variables keep their types.
THEOREM TypeCorrect == Spec => []TypeOK
<1>1. Init => TypeOK
  BY DevRouterAssumption
  DEF Init, TypeOK, FreeCmd, CmdRecord, CmdState, Reply, ReqRecord, ReqPc, Finished
<1>2. TypeOK /\ [Next]_vars => TypeOK'
  <2> SUFFICES ASSUME TypeOK, [Next]_vars PROVE TypeOK'
    BY Zenon
  <2> USE DevRouterAssumption DEF TypeOK
  <2>1. ASSUME NEW n \in ConfigNames, BootPort(n) PROVE TypeOK'
    BY <2>1 DEF BootPort, GetFreePort, GetFreePortFails
  <2>2. CASE BootRoute
    BY <2>2, Zenon DEF BootRoute, AddRoute, Target, Names
  <2>3. CASE BootStart
    <3>1. CommandsOK' /\ StopperOK'
      <4>1. boot.name \in Names /\ boot.port \in Ports
        BY <2>3, Zenon DEF BootStart, Names
      <4>2. ASSUME NEW c \in Cmds, StartService(boot.name, boot.port, c) PROVE CommandsOK' /\ StopperOK'
        BY <4>1, <4>2, StartServiceTypes, Zenon
      <4>3. CASE StartServiceFails
        BY <4>3, Zenon DEF StartServiceFails, CommandsOK, StopperOK
      <4> QED
        BY <2>3, <4>2, <4>3, Zenon DEF BootStart
    <3> QED
      BY <2>3, <3>1, Zenon DEF BootStart, CommandsOK, StopperOK
  <2>4. CASE BootDone
    BY <2>4, Zenon DEF BootDone
  <2>5. ASSUME NEW h \in Handlers, NEW d \in Domains, AddBegin(h, d) PROVE TypeOK'
    BY <2>5 DEF AddBegin, GetFreePort, GetFreePortFails, Reply, ReqRecord, ReqPc, Finished
  <2>6. ASSUME NEW h \in Handlers, AddStart(h) PROVE TypeOK'
    <3>1. CommandsOK' /\ StopperOK'
      <4>1. req[h].domain \in Names /\ req[h].port \in Ports
        BY <2>6, Zenon DEF AddStart, Names, Finished
      <4>2. ASSUME NEW c \in Cmds, StartService(req[h].domain, req[h].port, c)
            PROVE  CommandsOK' /\ StopperOK'
        BY <4>1, <4>2, StartServiceTypes, Zenon
      <4>3. CASE StartServiceFails
        BY <4>3, Zenon DEF StartServiceFails, CommandsOK, StopperOK
      <4> QED
        BY <2>6, <4>2, <4>3, Zenon DEF AddStart
    <3>2. \/ req' = [req EXCEPT ![h].pc = "route"]
          \/ req' = [req EXCEPT ![h].pc = "release"]
      BY <2>6, Zenon DEF AddStart
    <3>3. req' \in [Handlers -> ReqRecord]
      BY <3>2 DEF ReqRecord, ReqPc
    <3>4. ASSUME NEW k \in Handlers
          PROVE  /\ req'[k].pc \notin Finished => req'[k].domain \in Domains
                 /\ req'[k].pc \in {"start", "release", "route"} => req'[k].port \in Ports
                 /\ req'[k].pc \in {"stop", "free", "unroute"} => req'[k].target \in Target
      BY <2>6, <3>2, SMTT(20) DEF AddStart, ReqRecord, Finished
    <3> QED
      BY <2>6, <3>1, <3>3, <3>4, Zenon DEF AddStart, CommandsOK, StopperOK
  <2>7. ASSUME NEW h \in Handlers, AddRelease(h) PROVE TypeOK'
    BY <2>7 DEF AddRelease, ReleasePort, Reply, ReqRecord, ReqPc, Finished
  <2>8. ASSUME NEW h \in Handlers, AddFinish(h) PROVE TypeOK'
    BY <2>8 DEF AddFinish, AddRoute, Reply, ReqRecord, ReqPc, Finished, Target, Names
  <2>9. ASSUME NEW h \in Handlers, NEW d \in Domains, RemoveBegin(h, d) PROVE TypeOK'
    BY <2>9 DEF RemoveBegin, GetTarget, Reply, ReqRecord, ReqPc, Finished
  <2>10. ASSUME NEW h \in Handlers, RemoveStop(h) PROVE TypeOK'
    <3>1. CommandsOK'
      BY <2>10, StopServiceTypes, Zenon DEF RemoveStop, Target
    <3> QED
      BY <2>10, <3>1 DEF RemoveStop, CommandsOK, ReqRecord, ReqPc, Finished
  <2>11. ASSUME NEW h \in Handlers, RemoveRelease(h) PROVE TypeOK'
    BY <2>11 DEF RemoveRelease, ReleasePort, ReqRecord, ReqPc, Finished
  <2>12. ASSUME NEW h \in Handlers, RemoveFinish(h) PROVE TypeOK'
    BY <2>12 DEF RemoveFinish, RemoveRoute, Reply, ReqRecord, ReqPc, Finished
  <2>13. CASE StopAllBegin
    BY <2>13, Zenon DEF StopAllBegin
  <2>14. ASSUME NEW n \in Names, StopAllStep(n) PROVE TypeOK'
    <3>1. CommandsOK'
      BY <2>14, StopServiceTypes, Zenon DEF StopAllStep
    <3> QED
      BY <2>14, <3>1, Zenon DEF StopAllStep, CommandsOK
  <2>15. CASE StopAllEnd
    BY <2>15, Zenon DEF StopAllEnd
  <2>16. ASSUME NEW c \in Cmds, Bind(c) \/ Exit(c) \/ Waiter(c) PROVE TypeOK'
    <3>1. CASE Bind(c)
      BY <3>1, Zenon DEF Bind
    <3>2. CASE Exit(c)
      <4> DEFINE gone == [cmd[c] EXCEPT !.st = "exited"]
      <4>1. \A x \in Cmds : cmd'[x] = IF x = c THEN gone ELSE cmd[x]
        BY <3>2, Zenon DEF Exit
      <4>2. gone \in CmdRecord /\ gone.st = "exited" /\ gone.name = cmd[c].name
                               /\ gone.port = cmd[c].port
        BY DEF CmdRecord, CmdState
      <4>3. cmd' \in [Cmds -> CmdRecord]
        BY <3>2, <4>1, <4>2, Zenon DEF Exit
      <4> HIDE DEF gone
      <4> QED
        BY <3>2, <4>1, <4>2, <4>3 DEF Exit, Live
    <3>3. CASE Waiter(c)
      <4>1. cmd[c].name \in Names
        BY <3>3, Zenon DEF Waiter
      <4>2. FreeCmd \in CmdRecord /\ FreeCmd.st = "free"
        BY Zenon DEF FreeCmd, CmdRecord, CmdState
      <4> QED
        BY <3>3, <4>1, <4>2 DEF Waiter
    <3> QED
      BY <2>16, <3>1, <3>2, <3>3, Zenon
  <2>17. CASE UNCHANGED vars
    BY <2>17, Zenon DEF vars
  <2> QED
    BY <2>1, <2>2, <2>3, <2>4, <2>5, <2>6, <2>7, <2>8, <2>9, <2>10, <2>11, <2>12,
       <2>13, <2>14, <2>15, <2>16, <2>17, Zenon
    DEF Next, Boot, Add, Remove, StopAll, Child
<1> QED
  BY <1>1, <1>2, PTL DEF Spec
----------------------------------------------------------------------------
(* The supervisor: its map and its children agree, and StopAllServices     *)
(* misses none of them.                                                    *)

SupervisorInv == WaiterOwnsEntry /\ StopAllCovers

\* A start registers a free command under a free name.
LEMMA StartKeepsSupervisor ==
    ASSUME TypeOK, SupervisorInv,
           NEW n \in Names, NEW p \in Ports, NEW c \in Cmds, StartService(n, p, c)
    PROVE  SupervisorInv'
<1>1. processes[n] = NoCmd /\ cmd[c].st = "free"
  BY DEF StartService, FreeCmd
<1>2. \A x \in Cmds : cmd'[x] = IF x = c THEN [st |-> "running", name |-> n, port |-> p]
                                ELSE cmd[x]
  BY Zenon DEF StartService, TypeOK
<1>3. \A m \in Names : processes'[m] = IF m = n THEN c ELSE processes[m]
  BY Zenon DEF StartService, TypeOK
<1>4. WaiterOwnsEntry'
  <2>1. ASSUME NEW x \in Cmds, cmd'[x].st # "free" PROVE processes'[cmd'[x].name] = x
    <3>1. CASE x = c
      BY <1>2, <1>3, <3>1
    <3>2. CASE x # c
      <4>1. cmd[x].st # "free" /\ cmd[x].name \in Names
        BY <1>2, <2>1, <3>2, Zenon DEF TypeOK
      <4>2. processes[cmd[x].name] = x
        BY <4>1, Zenon DEF SupervisorInv, WaiterOwnsEntry
      <4>3. cmd[x].name # n
        BY <1>1, <4>2, DevRouterAssumption, Zenon
      <4> QED
        BY <1>2, <1>3, <3>2, <4>1, <4>2, <4>3, Zenon
    <3> QED
      BY <3>1, <3>2, Zenon
  <2>2. ASSUME NEW m \in Names, processes'[m] # NoCmd
        PROVE  cmd'[processes'[m]].st # "free" /\ cmd'[processes'[m]].name = m
    <3>1. CASE m = n
      BY <1>2, <1>3, <3>1
    <3>2. CASE m # n
      <4>1. /\ processes[m] \in Cmds
            /\ cmd[processes[m]].st # "free"
            /\ cmd[processes[m]].name = m
        BY <1>3, <2>2, <3>2 DEF TypeOK, SupervisorInv, WaiterOwnsEntry
      <4> QED
        BY <1>1, <1>2, <1>3, <3>2, <4>1
    <3> QED
      BY <3>1, <3>2, Zenon
  <2> QED
    BY <2>1, <2>2, Zenon DEF WaiterOwnsEntry
<1>5. StopAllCovers'
  <2>1. \/ stopper.pc = "off" /\ stopper' = stopper
        \/ /\ stopper.pc # "off"
           /\ stopper'.names = stopper.names
           /\ stopper'.late = stopper.late \cup {c}
    BY Zenon DEF StartService, TypeOK
  <2> QED
    BY <1>2, <2>1, Zenon DEF SupervisorInv, StopAllCovers
<1> QED
  BY <1>4, <1>5, Zenon DEF SupervisorInv

\* A stop changes neither the map nor the name of a command.
LEMMA StopKeepsEntries ==
    ASSUME TypeOK, SupervisorInv, NEW n \in Names, StopService(n)
    PROVE  WaiterOwnsEntry'
<1>1. UNCHANGED processes
  BY StopServiceTypes, Zenon
<1>2. \A c \in Cmds : /\ cmd'[c].name = cmd[c].name
                      /\ cmd'[c].st = "free" <=> cmd[c].st = "free"
  BY StopServiceTypes, Zenon
<1> QED
  BY <1>1, <1>2 DEF TypeOK, SupervisorInv, WaiterOwnsEntry

\* Every step keeps the supervisor's invariant.
LEMMA SupervisorStep ==
    ASSUME TypeOK, SupervisorInv, [Next]_vars
    PROVE  SupervisorInv'
<1>1. CASE UNCHANGED <<processes, cmd, stopper>>
  BY <1>1, Zenon DEF SupervisorInv, WaiterOwnsEntry, StopAllCovers
<1>2. CASE BootStart
  <2>1. boot.name \in Names /\ boot.port \in Ports
    BY <1>2, Zenon DEF BootStart, TypeOK, Names
  <2>2. CASE StartServiceFails
    BY <1>1, <2>2, Zenon DEF StartServiceFails
  <2> QED
    BY <1>2, <2>1, <2>2, StartKeepsSupervisor, Zenon DEF BootStart
<1>3. ASSUME NEW h \in Handlers, AddStart(h) PROVE SupervisorInv'
  <2>1. req[h].domain \in Names /\ req[h].port \in Ports
    BY <1>3, Zenon DEF AddStart, TypeOK, Names, Finished
  <2>2. CASE StartServiceFails
    BY <1>1, <2>2, Zenon DEF StartServiceFails
  <2> QED
    BY <1>3, <2>1, <2>2, StartKeepsSupervisor, Zenon DEF AddStart
<1>4. ASSUME NEW h \in Handlers, RemoveStop(h) PROVE SupervisorInv'
  <2>1. req[h].target.serviceName \in Names /\ StopService(req[h].target.serviceName)
    BY <1>4, Zenon DEF RemoveStop, TypeOK, Target
  <2>2. \A c \in Cmds : /\ cmd'[c].name = cmd[c].name
                        /\ cmd'[c].st = "running" => cmd[c].st = "running"
    BY <2>1, StopServiceTypes, Zenon
  <2>3. StopAllCovers'
    BY <1>4, <2>2, Zenon DEF RemoveStop, SupervisorInv, StopAllCovers
  <2> QED
    BY <2>1, <2>3, StopKeepsEntries, Zenon DEF SupervisorInv
<1>5. CASE StopAllBegin
  <2>1. WaiterOwnsEntry'
    BY <1>5, Zenon DEF StopAllBegin, SupervisorInv, WaiterOwnsEntry
  <2>2. ASSUME NEW c \in Cmds, cmd[c].st = "running" PROVE processes[cmd[c].name] # NoCmd
    BY <2>2, DevRouterAssumption DEF SupervisorInv, WaiterOwnsEntry
  <2>3. ASSUME NEW c \in Cmds, cmd[c].st = "running" PROVE cmd[c].name \in Names
    BY <2>3, Zenon DEF TypeOK
  <2> QED
    BY <1>5, <2>1, <2>2, <2>3, Zenon DEF StopAllBegin, SupervisorInv, StopAllCovers
<1>6. ASSUME NEW n \in Names, StopAllStep(n) PROVE SupervisorInv'
  <2>1. StopService(n)
    BY <1>6, Zenon DEF StopAllStep
  <2>2. stopper.pc = "stopping" /\ stopper'.late = stopper.late
                                /\ stopper'.names = stopper.names \ {n}
    BY <1>6, Zenon DEF StopAllStep, TypeOK
  <2>3. ASSUME NEW c \in Cmds, cmd'[c].st = "running", c \notin stopper.late
        PROVE  cmd'[c].name \in stopper.names \ {n}
    <3>1. cmd[c].st = "running" /\ cmd'[c].name = cmd[c].name /\ c # processes[n]
      BY <2>1, <2>3, StopServiceTypes, Zenon
    <3>2. processes[cmd[c].name] = c
      BY <3>1, Zenon DEF SupervisorInv, WaiterOwnsEntry
    <3>3. cmd[c].name \in stopper.names
      BY <2>2, <2>3, <3>1, Zenon DEF SupervisorInv, StopAllCovers
    <3> QED
      BY <3>1, <3>2, <3>3, Zenon
  <2>4. StopAllCovers'
    BY <2>2, <2>3, Zenon DEF StopAllCovers
  <2> QED
    BY <2>1, <2>4, StopKeepsEntries, Zenon DEF SupervisorInv
<1>7. CASE StopAllEnd
  <2>1. stopper.pc = "stopping" /\ stopper'.late = stopper.late
                                /\ stopper'.names = stopper.names
    BY <1>7, Zenon DEF StopAllEnd, TypeOK
  <2> QED
    BY <1>7, <2>1, Zenon DEF StopAllEnd, SupervisorInv, WaiterOwnsEntry, StopAllCovers
<1>8. ASSUME NEW c \in Cmds, Exit(c) PROVE SupervisorInv'
  <2>1. \A x \in Cmds : /\ cmd'[x].name = cmd[x].name
                        /\ cmd'[x].st = IF x = c THEN "exited" ELSE cmd[x].st
    BY <1>8, Zenon DEF Exit, TypeOK, CmdRecord
  <2>2. cmd[c].st # "free"
    BY <1>8, Zenon DEF Exit, Live
  <2>3. WaiterOwnsEntry'
    BY <1>8, <2>1, <2>2 DEF Exit, TypeOK, SupervisorInv, WaiterOwnsEntry
  <2>4. StopAllCovers'
    BY <1>8, <2>1 DEF Exit, SupervisorInv, StopAllCovers
  <2> QED
    BY <2>3, <2>4, Zenon DEF SupervisorInv
<1>9. ASSUME NEW c \in Cmds, Waiter(c) PROVE SupervisorInv'
  <2>1. cmd[c].st = "exited" /\ cmd[c].name \in Names /\ processes[cmd[c].name] = c
    BY <1>9, Zenon DEF Waiter, TypeOK, SupervisorInv, WaiterOwnsEntry
  <2>2. \A x \in Cmds : cmd'[x] = IF x = c THEN FreeCmd ELSE cmd[x]
    BY <1>9, Zenon DEF Waiter, TypeOK
  <2>3. \A n \in Names : processes'[n] = IF n = cmd[c].name THEN NoCmd ELSE processes[n]
    BY <1>9, Zenon DEF Waiter, TypeOK
  <2>4. ASSUME NEW x \in Cmds, cmd'[x].st # "free" PROVE processes'[cmd'[x].name] = x
    <3>1. x # c
      BY <2>2, <2>4 DEF FreeCmd
    <3>2. cmd[x].name \in Names /\ processes[cmd[x].name] = x
      BY <2>2, <2>4, <3>1, Zenon DEF TypeOK, SupervisorInv, WaiterOwnsEntry
    <3> QED
      BY <2>1, <2>2, <2>3, <3>1, <3>2, Zenon
  <2>5. ASSUME NEW n \in Names, processes'[n] # NoCmd
        PROVE  cmd'[processes'[n]].st # "free" /\ cmd'[processes'[n]].name = n
    <3>1. /\ n # cmd[c].name
          /\ processes'[n] = processes[n]
          /\ processes[n] \in Cmds
          /\ cmd[processes[n]].st # "free" /\ cmd[processes[n]].name = n
      BY <2>3, <2>5 DEF TypeOK, SupervisorInv, WaiterOwnsEntry
    <3> QED
      BY <2>2, <3>1, Zenon
  <2>6. stopper'.pc = stopper.pc /\ stopper'.names = stopper.names
                                 /\ stopper'.late = stopper.late \ {c}
    BY <1>9, Zenon DEF Waiter, TypeOK
  <2>7. StopAllCovers'
    BY <2>2, <2>6 DEF SupervisorInv, StopAllCovers, FreeCmd
  <2> QED
    BY <2>4, <2>5, <2>7, Zenon DEF SupervisorInv, WaiterOwnsEntry
<1> QED
  BY <1>1, <1>2, <1>3, <1>4, <1>5, <1>6, <1>7, <1>8, <1>9, Zenon
  DEF Next, Boot, Add, Remove, StopAll, Child, vars, BootPort, BootRoute, BootDone,
      AddBegin, AddRelease, AddFinish, RemoveBegin, RemoveRelease, RemoveFinish, Bind

\* The waiter goroutine of a command only ever deletes that command's entry,
\* and a name has at most one child, however many requests run at once.
THEOREM WaiterOwnsEntryHolds == Spec => []WaiterOwnsEntry
<1>1. Init => SupervisorInv
  BY DevRouterAssumption DEF Init, SupervisorInv, WaiterOwnsEntry, StopAllCovers, FreeCmd
<1>2. TypeOK /\ SupervisorInv /\ [Next]_vars => SupervisorInv'
  BY SupervisorStep, Zenon
<1>3. SupervisorInv => WaiterOwnsEntry
  BY Zenon DEF SupervisorInv
<1> QED
  BY <1>1, <1>2, <1>3, TypeCorrect, PTL DEF Spec

\* StopAllServices signals every child that was running when it began.
THEOREM StopAllCoversHolds == Spec => []StopAllCovers
<1>1. Init => SupervisorInv
  BY DevRouterAssumption DEF Init, SupervisorInv, WaiterOwnsEntry, StopAllCovers, FreeCmd
<1>2. TypeOK /\ SupervisorInv /\ [Next]_vars => SupervisorInv'
  BY SupervisorStep, Zenon
<1>3. SupervisorInv => StopAllCovers
  BY Zenon DEF SupervisorInv
<1> QED
  BY <1>1, <1>2, <1>3, TypeCorrect, PTL DEF Spec
----------------------------------------------------------------------------
(* One request at a time: the port of every route stays reserved.          *)

Routed(d) == routes[d] # NoTarget

\* No two requests are ever in progress together.
SerialRequests == \A h1, h2 \in Handlers : h1 = h2

SerialInv ==
    /\ boot.pc # "served" => \A h \in Handlers : req[h].pc \in Finished
    /\ boot.pc = "route" => /\ boot.port \in allocated
                            /\ \A d \in Domains : Routed(d) => routes[d].port # boot.port
    /\ \A d \in Domains : Routed(d) =>
          \/ routes[d].port \in allocated
          \/ \E h \in Handlers : req[h].pc = "unroute" /\ req[h].domain = d
    /\ \A d, e \in Domains : d # e /\ Routed(d) /\ Routed(e) => routes[d].port # routes[e].port
    /\ \A h \in Handlers :
          /\ req[h].pc \in {"start", "release", "route"} =>
                /\ req[h].port \in allocated
                /\ \A d \in Domains : Routed(d) => routes[d].port # req[h].port
          /\ req[h].pc \in {"stop", "free", "unroute"} => routes[req[h].domain] = req[h].target

\* A new route: the only change is at one domain.
LEMMA AddRouteEffect ==
    ASSUME TypeOK, NEW d \in Domains, NEW n \in Names, NEW p \in Ports, AddRoute(d, n, p)
    PROVE  /\ [serviceName |-> n, port |-> p] # NoTarget
           /\ \A e \in Domains : routes'[e] = IF e = d THEN [serviceName |-> n, port |-> p]
                                              ELSE routes[e]
BY DevRouterAssumption DEF AddRoute, TypeOK

\* The steps that leave the ports, the routes and the requests alone.
LEMMA SerialInvStutter ==
    ASSUME SerialInv, UNCHANGED <<allocated, routes, req>>,
           boot'.pc = "route" => boot' = boot,
           boot.pc = "served" => boot'.pc = "served",
           boot'.pc = "served" => boot.pc = "served" \/ \A h \in Handlers : req[h].pc \in Finished
    PROVE  SerialInv'
BY DEF SerialInv, Routed

LEMMA SerialStep ==
    ASSUME SerialRequests, TypeOK, SerialInv, [Next]_vars
    PROVE  SerialInv'
<1> USE DEF Finished
<1>1. ASSUME NEW n \in ConfigNames, BootPort(n) PROVE SerialInv'
  <2>1. boot.pc = "port" /\ \A h \in Handlers : req[h].pc \in Finished
    BY <1>1, Zenon DEF BootPort, SerialInv
  <2>2. ASSUME NEW p \in Ports, GetFreePort(p),
               boot' = [pc |-> "route", todo |-> boot.todo \ {n}, name |-> n, port |-> p]
        PROVE  SerialInv'
    <3>1. p \notin allocated /\ allocated' = allocated \cup {p}
      BY <2>2, Zenon DEF GetFreePort
    <3> QED
      BY <1>1, <2>1, <2>2, <3>1 DEF BootPort, SerialInv, Routed
  <2>3. CASE GetFreePortFails /\ boot' = [boot EXCEPT !.pc = "fatal"]
    BY <1>1, <2>1, <2>3 DEF BootPort, GetFreePortFails, TypeOK, SerialInv, Routed
  <2> QED
    BY <1>1, <2>2, <2>3, Zenon DEF BootPort
<1>2. CASE BootRoute
  <2>1. /\ ConfigDomain[boot.name] \in Domains /\ boot.name \in Names /\ boot.port \in Ports
        /\ \A h \in Handlers : req[h].pc \in Finished
        /\ boot.port \in allocated
        /\ \A d \in Domains : Routed(d) => routes[d].port # boot.port
    BY <1>2, DevRouterAssumption, Zenon DEF BootRoute, TypeOK, Names, SerialInv
  <2>2. boot'.pc = "start" /\ UNCHANGED <<allocated, req>>
    BY <1>2, Zenon DEF BootRoute, TypeOK
  <2>3. \A e \in Domains :
          routes'[e] = IF e = ConfigDomain[boot.name]
                       THEN [serviceName |-> boot.name, port |-> boot.port] ELSE routes[e]
    BY <1>2, <2>1, AddRouteEffect DEF BootRoute
  <2> QED
    BY <2>1, <2>2, <2>3 DEF SerialInv, Routed
<1>3. CASE BootStart
  BY <1>3, SerialInvStutter, Zenon DEF BootStart, SerialInv
<1>4. CASE BootDone
  <2>1. boot'.pc = "served" /\ \A h \in Handlers : req[h].pc \in Finished
    BY <1>4, Zenon DEF BootDone, TypeOK, SerialInv
  <2> QED
    BY <1>4, <2>1, SerialInvStutter, Zenon DEF BootDone
<1>5. ASSUME NEW h \in Handlers, NEW d \in Domains, AddBegin(h, d) PROVE SerialInv'
  <2>1. /\ boot.pc = "served" /\ UNCHANGED <<boot, routes>> /\ \A k \in Handlers : k = h
        /\ req[h].pc \in Finished
    BY <1>5, Zenon DEF AddBegin, Serving, SerialRequests
  <2>2. ASSUME NEW p \in Ports, GetFreePort(p),
               req' = [req EXCEPT ![h] = [pc |-> "start", domain |-> d,
                                          port |-> p, target |-> NoTarget]]
        PROVE  SerialInv'
    <3>1. p \notin allocated /\ allocated' = allocated \cup {p}
      BY <2>2, Zenon DEF GetFreePort
    <3>2. req'[h].pc = "start" /\ req'[h].port = p
      BY <2>2, Zenon DEF TypeOK
    <3>3. \A e \in Domains : Routed(e) => routes[e].port \in allocated
      BY <2>1, Zenon DEF SerialInv
    <3> QED
      BY <2>1, <3>1, <3>2, <3>3 DEF SerialInv, Routed
  <2>3. CASE GetFreePortFails /\ req' = [req EXCEPT ![h] = Reply("failed")]
    <3>1. req'[h].pc = "failed"
      BY <2>3, Zenon DEF TypeOK, Reply
    <3> QED
      BY <2>1, <2>3, <3>1 DEF GetFreePortFails, SerialInv, Routed
  <2> QED
    BY <1>5, <2>2, <2>3, Zenon DEF AddBegin
<1>6. ASSUME NEW h \in Handlers, AddStart(h) PROVE SerialInv'
  <2>1. /\ req[h].pc = "start" /\ UNCHANGED <<boot, routes, allocated>>
        /\ \A k \in Handlers : k = h
        /\ req'[h].pc \in {"route", "release"} /\ req'[h].port = req[h].port
    BY <1>6 DEF AddStart, SerialRequests, TypeOK, ReqRecord
  <2> QED
    BY <2>1 DEF SerialInv, Routed
<1>7. ASSUME NEW h \in Handlers, AddRelease(h) PROVE SerialInv'
  <2>1. /\ req[h].pc = "release" /\ UNCHANGED <<boot, routes>> /\ \A k \in Handlers : k = h
        /\ req'[h].pc = "failed" /\ allocated' = allocated \ {req[h].port}
    BY <1>7, Zenon DEF AddRelease, ReleasePort, SerialRequests, TypeOK, Reply
  <2> QED
    BY <2>1, Zenon DEF SerialInv, Routed
<1>8. ASSUME NEW h \in Handlers, AddFinish(h) PROVE SerialInv'
  <2>1. /\ req[h].pc = "route" /\ UNCHANGED <<boot, allocated>> /\ \A k \in Handlers : k = h
        /\ req'[h].pc = "created"
        /\ req[h].domain \in Domains /\ req[h].domain \in Names /\ req[h].port \in Ports
    BY <1>8, Zenon DEF AddFinish, SerialRequests, TypeOK, Reply, Names
  <2>2. \A e \in Domains :
          routes'[e] = IF e = req[h].domain
                       THEN [serviceName |-> req[h].domain, port |-> req[h].port] ELSE routes[e]
    BY <1>8, <2>1, AddRouteEffect DEF AddFinish
  <2>3. req[h].port \in allocated /\ \A e \in Domains : Routed(e) => routes[e].port # req[h].port
    BY <2>1, Zenon DEF SerialInv
  <2> QED
    BY <2>1, <2>2, <2>3 DEF SerialInv, Routed
<1>9. ASSUME NEW h \in Handlers, NEW d \in Domains, RemoveBegin(h, d) PROVE SerialInv'
  <2>1. /\ UNCHANGED <<boot, routes, allocated>> /\ \A k \in Handlers : k = h
        /\ req[h].pc \in Finished /\ boot.pc = "served"
        /\ \/ req'[h].pc = "removed"
           \/ req'[h].pc = "stop" /\ req'[h].domain = d /\ req'[h].target = routes[d]
    BY <1>9, Zenon DEF RemoveBegin, SerialRequests, TypeOK, Reply, GetTarget, Serving
  <2> QED
    BY <2>1 DEF SerialInv, Routed
<1>10. ASSUME NEW h \in Handlers, RemoveStop(h) PROVE SerialInv'
  <2>1. /\ UNCHANGED <<boot, routes, allocated>> /\ \A k \in Handlers : k = h
        /\ req[h].pc = "stop" /\ req'[h].pc = "free"
        /\ req'[h].domain = req[h].domain /\ req'[h].target = req[h].target
    BY <1>10 DEF RemoveStop, SerialRequests, TypeOK, ReqRecord
  <2> QED
    BY <2>1 DEF SerialInv, Routed
<1>11. ASSUME NEW h \in Handlers, RemoveRelease(h) PROVE SerialInv'
  <2>1. /\ UNCHANGED <<boot, routes>> /\ \A k \in Handlers : k = h
        /\ allocated' = allocated \ {req[h].target.port}
        /\ req[h].pc = "free" /\ req'[h].pc = "unroute"
        /\ req'[h].domain = req[h].domain /\ req'[h].target = req[h].target
        /\ req[h].domain \in Domains
        /\ req[h].target # NoTarget
    BY <1>11, DevRouterAssumption
    DEF RemoveRelease, ReleasePort, SerialRequests, TypeOK, ReqRecord, Target
  <2>2. routes[req[h].domain] = req[h].target /\ boot.pc = "served"
    BY <2>1, Zenon DEF SerialInv
  <2> QED
    BY <2>1, <2>2 DEF SerialInv, Routed
<1>12. ASSUME NEW h \in Handlers, RemoveFinish(h) PROVE SerialInv'
  <2>1. /\ UNCHANGED <<boot, allocated>> /\ \A k \in Handlers : k = h
        /\ req[h].pc = "unroute" /\ req'[h].pc = "removed"
        /\ \A e \in Domains : routes'[e] = IF e = req[h].domain THEN NoTarget ELSE routes[e]
    BY <1>12, Zenon DEF RemoveFinish, RemoveRoute, SerialRequests, TypeOK, Reply
  <2> QED
    BY <2>1 DEF SerialInv, Routed
<1>13. CASE StopAll \/ \E c \in Cmds : Child(c)
  BY <1>13, SerialInvStutter, Zenon
  DEF StopAll, StopAllBegin, StopAllStep, StopAllEnd, Child, Bind, Exit, Waiter
<1>14. CASE UNCHANGED vars
  BY <1>14, SerialInvStutter, Zenon DEF vars
<1> QED
  BY <1>1, <1>2, <1>3, <1>4, <1>5, <1>6, <1>7, <1>8, <1>9, <1>10, <1>11, <1>12, <1>13, <1>14, Zenon
  DEF Next, Boot, Add, Remove

\* When requests come one at a time the port of every route is reserved in
\* the port manager whenever no request is in progress, whatever crashes,
\* restarts and portless.yaml do.
THEOREM RoutedPortsReservedSerial ==
    ASSUME SerialRequests PROVE Spec => []RoutedPortsReserved
<1>1. Init => SerialInv
  BY DEF Init, SerialInv, Routed, Reply, Finished
<1>2. TypeOK /\ SerialInv /\ [Next]_vars => SerialInv'
  BY SerialStep, Zenon
<1>3. SerialInv => RoutedPortsReserved
  BY Zenon DEF SerialInv, RoutedPortsReserved, Routed, Quiet, Finished
<1> QED
  BY <1>1, <1>2, <1>3, TypeCorrect, PTL DEF Spec

-----------------------------------------------------------------------------
(***************************************************************************)
(* While clients only add services: neither the boot loop nor crashes nor  *)
(* concurrent adds ever make children share a port.                        *)
(***************************************************************************)
HoldsPort(h) == req[h].pc \in {"start", "release", "route"}

\* Nothing but the holder uses the port p: no route and no child.
Unused(p) ==
    /\ \A d \in Domains : Routed(d) => routes[d].port # p
    /\ \A c \in Cmds : Live(c) => cmd[c].port # p

\* Ports in use are reserved.
InUseReserved ==
    /\ \A d \in Domains : Routed(d) => routes[d].port \in allocated
    /\ \A c \in Cmds : Live(c) => cmd[c].port \in allocated
    /\ \A h \in Handlers : HoldsPort(h) => req[h].port \in allocated
    /\ boot.pc \in {"route", "start"} => boot.port \in allocated

\* A request that has not started its child is the only user of its port.
HeldPortsPrivate ==
    /\ \A h \in Handlers : req[h].pc \in {"start", "release"} =>
          /\ Unused(req[h].port)
          /\ \A k \in Handlers : k # h /\ HoldsPort(k) => req[k].port # req[h].port
    /\ boot.pc = "route" => Unused(boot.port)
    /\ boot.pc = "start" =>
          /\ \A c \in Cmds : Live(c) => cmd[c].port # boot.port
          /\ \A d \in Domains : Routed(d) /\ routes[d].port = boot.port
                                    => routes[d].serviceName = boot.name

\* Whoever uses the port of a route or of a request that is about to install
\* one is the service of that route.
PortsNameServices ==
    /\ \A d \in Domains : \A c \in Cmds :
          Routed(d) /\ Live(c) /\ cmd[c].port = routes[d].port
              => cmd[c].name = routes[d].serviceName
    /\ \A h \in Handlers : \A c \in Cmds :
          req[h].pc = "route" /\ Live(c) /\ cmd[c].port = req[h].port
              => cmd[c].name = req[h].domain

AddsInv ==
    /\ \A h \in Handlers : req[h].pc \notin {"stop", "free", "unroute"}
    /\ boot.pc # "served" => \A h \in Handlers : req[h].pc \in Finished
    /\ listening \subseteq {c \in Cmds : Live(c)}
    /\ InUseReserved
    /\ HeldPortsPrivate
    /\ PortsNameServices
    /\ NoPortOverlap

\* The invariant does not mind a child that exits, is waited for or signalled.
LEMMA AddsInvFewerLive ==
    ASSUME AddsInv, UNCHANGED <<allocated, routes, req, boot>>,
           \A c \in Cmds : Live(c)' => Live(c) /\ cmd'[c].name = cmd[c].name
                                               /\ cmd'[c].port = cmd[c].port,
           listening' \subseteq {c \in Cmds : Live(c)'}
    PROVE  AddsInv'
<1>1. InUseReserved'
  BY Zenon DEF AddsInv, InUseReserved, HoldsPort, Routed
<1>2. HeldPortsPrivate'
  BY DEF AddsInv, HeldPortsPrivate, HoldsPort, Routed, Unused
<1>3. PortsNameServices'
  BY DEF AddsInv, PortsNameServices, Routed
<1>4. NoPortOverlap'
  BY DEF AddsInv, NoPortOverlap
<1> QED
  BY <1>1, <1>2, <1>3, <1>4, Zenon DEF AddsInv

\* A child is started on a port that only its starter holds.
LEMMA StartEffect ==
    ASSUME TypeOK, NEW n \in Names, NEW p \in Ports, NEW c \in Cmds, StartService(n, p, c)
    PROVE  /\ ~Live(c) /\ Live(c)' /\ cmd'[c].name = n /\ cmd'[c].port = p
           /\ \A x \in Cmds \ {c} : cmd'[x] = cmd[x] /\ (Live(x)' <=> Live(x))
<1>1. \A x \in Cmds : cmd'[x] = IF x = c THEN [st |-> "running", name |-> n, port |-> p]
                                ELSE cmd[x]
  BY Zenon DEF StartService, TypeOK
<1>2. cmd[c].st = "free"
  BY DEF StartService, FreeCmd
<1> QED
  BY <1>1, <1>2 DEF Live

\* The boot loop takes a port that nothing uses.
LEMMA AddsBootPort ==
    ASSUME TypeOK, AddsInv, NEW n \in ConfigNames, BootPort(n)
    PROVE  AddsInv'
<1> USE DEF Finished
<1>a. InUseReserved
  BY Zenon DEF AddsInv
<1>b. HeldPortsPrivate
  BY Zenon DEF AddsInv
<1>c. PortsNameServices
  BY Zenon DEF AddsInv
<1>d. NoPortOverlap
  BY Zenon DEF AddsInv
<1>1. /\ boot.pc = "port" /\ (\A h \in Handlers : req[h].pc \in Finished)
      /\ UNCHANGED <<routes, cmd, listening, req>>
  BY Zenon DEF BootPort, AddsInv
<1>2. \A c \in Cmds : Live(c)' <=> Live(c)
  BY <1>1, Zenon DEF Live
<1>3. ASSUME NEW p \in Ports, GetFreePort(p), boot'.pc = "route", boot'.port = p
      PROVE  AddsInv'
  <2>1. p \notin allocated /\ allocated' = allocated \cup {p}
    BY <1>3, Zenon DEF GetFreePort
  <2>2. InUseReserved'
    BY <1>1, <1>2, <1>3, <2>1, <1>a, Zenon DEF InUseReserved, HoldsPort, Routed
  <2>3. HeldPortsPrivate'
    BY <1>1, <1>2, <1>3, <2>1, <1>a, <1>b, Zenon DEF InUseReserved, HeldPortsPrivate, Routed, Unused
  <2>4. PortsNameServices'
    BY <1>1, <1>2, <1>c, Zenon DEF PortsNameServices, Routed
  <2>5. NoPortOverlap'
    BY <1>1, <1>2, <1>d, Zenon DEF NoPortOverlap
  <2> QED
    BY <1>1, <1>2, <2>2, <2>3, <2>4, <2>5, Zenon DEF AddsInv
<1>4. CASE GetFreePortFails /\ boot' = [boot EXCEPT !.pc = "fatal"]
  <2>1. boot'.pc = "fatal" /\ allocated' = allocated
    BY <1>4, Zenon DEF GetFreePortFails, TypeOK
  <2>2. InUseReserved'
    BY <1>1, <1>2, <2>1, <1>a, Zenon DEF InUseReserved, HoldsPort, Routed
  <2>3. HeldPortsPrivate'
    BY <1>1, <2>1, Zenon DEF HeldPortsPrivate
  <2>4. PortsNameServices'
    BY <1>1, <1>2, <1>c, Zenon DEF PortsNameServices, Routed
  <2>5. NoPortOverlap'
    BY <1>1, <1>2, <1>d, Zenon DEF NoPortOverlap
  <2> QED
    BY <1>1, <1>2, <2>2, <2>3, <2>4, <2>5, Zenon DEF AddsInv
<1> QED
  BY <1>3, <1>4 DEF BootPort

\* The boot loop routes the domain before the child exists.
LEMMA AddsBootRoute ==
    ASSUME TypeOK, AddsInv, BootRoute
    PROVE  AddsInv'
<1> USE DEF Finished
<1>a. InUseReserved
  BY Zenon DEF AddsInv
<1>b. HeldPortsPrivate
  BY Zenon DEF AddsInv
<1>c. PortsNameServices
  BY Zenon DEF AddsInv
<1>d. NoPortOverlap
  BY Zenon DEF AddsInv
<1>1. /\ ConfigDomain[boot.name] \in Domains /\ boot.name \in Names /\ boot.port \in Ports
      /\ boot.pc = "route" /\ boot'.pc = "start"
      /\ boot'.name = boot.name /\ boot'.port = boot.port
      /\ (\A h \in Handlers : req[h].pc \in Finished)
      /\ UNCHANGED <<allocated, cmd, listening, req>>
  BY DevRouterAssumption, Zenon DEF BootRoute, TypeOK, Names, AddsInv
<1>2. \A e \in Domains :
        routes'[e] = IF e = ConfigDomain[boot.name]
                     THEN [serviceName |-> boot.name, port |-> boot.port] ELSE routes[e]
  BY <1>1, AddRouteEffect DEF BootRoute
<1>3. \A c \in Cmds : Live(c)' <=> Live(c)
  BY <1>1, Zenon DEF Live
<1>4. Unused(boot.port)
  BY <1>1, <1>b, Zenon DEF HeldPortsPrivate
<1>5. InUseReserved'
  BY <1>1, <1>2, <1>3, <1>a DEF InUseReserved, HoldsPort, Routed
<1>6. HeldPortsPrivate'
  <2>1. \A c \in Cmds : Live(c)' => cmd'[c].port # boot'.port
    BY <1>1, <1>3, <1>4, Zenon DEF Unused
  <2>2. ASSUME NEW d \in Domains, Routed(d)', routes'[d].port = boot'.port
        PROVE  routes'[d].serviceName = boot'.name
    BY <1>1, <1>2, <1>4, <2>2 DEF Routed, Unused
  <2> QED
    BY <1>1, <2>1, <2>2, Zenon DEF HeldPortsPrivate
<1>7. PortsNameServices'
  <2>1. ASSUME NEW d \in Domains, NEW c \in Cmds,
               Routed(d)', Live(c)', cmd'[c].port = routes'[d].port
        PROVE  cmd'[c].name = routes'[d].serviceName
    <3>1. Live(c) /\ cmd'[c] = cmd[c] /\ cmd[c].port # boot.port
      BY <1>1, <1>3, <1>4, <2>1, Zenon DEF Unused
    <3>2. routes'[d] = routes[d]
      BY <1>2, <2>1, <3>1
    <3> QED
      BY <2>1, <3>1, <3>2, <1>c, Zenon DEF PortsNameServices, Routed
  <2> QED
    BY <1>1, <2>1, Zenon DEF PortsNameServices
<1>8. NoPortOverlap'
  BY <1>1, <1>2, <1>3, <1>4, <1>d, Zenon DEF NoPortOverlap
<1> QED
  BY <1>1, <1>3, <1>5, <1>6, <1>7, <1>8, Zenon DEF AddsInv

\* The boot loop starts its child on a port that only its route has.
LEMMA AddsBootStart ==
    ASSUME TypeOK, AddsInv, BootStart
    PROVE  AddsInv'
<1> USE DEF Finished
<1>a. InUseReserved
  BY Zenon DEF AddsInv
<1>b. HeldPortsPrivate
  BY Zenon DEF AddsInv
<1>c. PortsNameServices
  BY Zenon DEF AddsInv
<1>d. NoPortOverlap
  BY Zenon DEF AddsInv
<1>1. /\ boot.name \in Names /\ boot.port \in Ports /\ boot.pc = "start" /\ boot'.pc = "port"
      /\ (\A h \in Handlers : req[h].pc \in Finished)
      /\ UNCHANGED <<allocated, routes, listening, req>>
  BY Zenon DEF BootStart, TypeOK, Names, AddsInv
<1>2. /\ \A c \in Cmds : Live(c) => cmd[c].port # boot.port
      /\ \A d \in Domains : Routed(d) /\ routes[d].port = boot.port
                                => routes[d].serviceName = boot.name
      /\ boot.port \in allocated
  BY <1>1, <1>a, <1>b, Zenon DEF HeldPortsPrivate, InUseReserved
<1>3. HeldPortsPrivate'
  BY <1>1, Zenon DEF HeldPortsPrivate
<1>4. ASSUME NEW c \in Cmds, StartService(boot.name, boot.port, c) PROVE AddsInv'
  <2>1. /\ ~Live(c) /\ Live(c)' /\ cmd'[c].name = boot.name /\ cmd'[c].port = boot.port
        /\ \A x \in Cmds \ {c} : cmd'[x] = cmd[x] /\ (Live(x)' <=> Live(x))
    BY <1>1, <1>4, StartEffect, Zenon
  <2>2. InUseReserved'
    BY <1>1, <1>2, <2>1, <1>a, Zenon DEF InUseReserved, HoldsPort, Routed
  <2>3. PortsNameServices'
    BY <1>1, <1>2, <2>1, <1>c DEF PortsNameServices, Routed
  <2>4. NoPortOverlap'
    BY <1>1, <1>2, <2>1, <1>d DEF NoPortOverlap
  <2> QED
    BY <1>1, <1>3, <2>1, <2>2, <2>3, <2>4, Zenon DEF AddsInv
<1>5. CASE StartServiceFails
  <2>1. UNCHANGED cmd /\ \A c \in Cmds : Live(c)' <=> Live(c)
    BY <1>5, Zenon DEF StartServiceFails, Live
  <2> QED
    <3>1. InUseReserved'
      BY <1>1, <2>1, <1>a, Zenon DEF InUseReserved, HoldsPort, Routed
    <3>2. PortsNameServices'
      BY <1>1, <2>1, <1>c, Zenon DEF PortsNameServices, Routed
    <3>3. NoPortOverlap'
      BY <2>1, <1>d, Zenon DEF NoPortOverlap
    <3> QED
      BY <1>1, <1>3, <2>1, <3>1, <3>2, <3>3, Zenon DEF AddsInv
<1> QED
  BY <1>4, <1>5, Zenon DEF BootStart

\* Serving begins with no request in progress.
LEMMA AddsBootDone ==
    ASSUME TypeOK, AddsInv, BootDone
    PROVE  AddsInv'
<1> USE DEF Finished
<1>a. InUseReserved
  BY Zenon DEF AddsInv
<1>c. PortsNameServices
  BY Zenon DEF AddsInv
<1>d. NoPortOverlap
  BY Zenon DEF AddsInv
<1>1. /\ boot'.pc = "served" /\ (\A h \in Handlers : req[h].pc \in Finished)
      /\ UNCHANGED <<allocated, routes, cmd, listening, req>>
      /\ \A c \in Cmds : Live(c)' <=> Live(c)
  BY Zenon DEF BootDone, TypeOK, AddsInv, Live
<1>2. InUseReserved'
  BY <1>1, <1>a, Zenon DEF InUseReserved, HoldsPort, Routed
<1>3. HeldPortsPrivate'
  BY <1>1, Zenon DEF HeldPortsPrivate
<1>4. PortsNameServices'
  BY <1>1, <1>c, Zenon DEF PortsNameServices, Routed
<1>5. NoPortOverlap'
  BY <1>1, <1>d, Zenon DEF NoPortOverlap
<1> QED
  BY <1>1, <1>2, <1>3, <1>4, <1>5, Zenon DEF AddsInv

\* An add takes a port that nothing uses.
LEMMA AddsAddBegin ==
    ASSUME TypeOK, AddsInv, NEW h \in Handlers, NEW d \in Domains, AddBegin(h, d)
    PROVE  AddsInv'
<1> USE DEF Finished
<1>a. InUseReserved
  BY Zenon DEF AddsInv
<1>b. HeldPortsPrivate
  BY Zenon DEF AddsInv
<1>c. PortsNameServices
  BY Zenon DEF AddsInv
<1>d. NoPortOverlap
  BY Zenon DEF AddsInv
<1>1. /\ boot.pc = "served" /\ UNCHANGED <<boot, routes, cmd, listening>>
      /\ \A c \in Cmds : Live(c)' <=> Live(c)
  BY Zenon DEF AddBegin, Serving, Live
<1>2. ASSUME NEW p \in Ports, GetFreePort(p),
             req' = [req EXCEPT ![h] = [pc |-> "start", domain |-> d,
                                        port |-> p, target |-> NoTarget]]
      PROVE  AddsInv'
  <2>1. p \notin allocated /\ allocated' = allocated \cup {p}
    BY <1>2, Zenon DEF GetFreePort
  <2>2. req'[h].pc = "start" /\ req'[h].port = p /\ \A k \in Handlers \ {h} : req'[k] = req[k]
    BY <1>2, Zenon DEF TypeOK
  <2>3. InUseReserved'
    BY <1>1, <2>1, <2>2, <1>a, Zenon DEF InUseReserved, HoldsPort, Routed
  <2>4. HeldPortsPrivate'
    <3>1. Unused(p)
      BY <2>1, <1>a, Zenon DEF InUseReserved, Unused
    <3>2. \A k \in Handlers : HoldsPort(k) => req[k].port # p
      BY <2>1, <1>a, Zenon DEF InUseReserved
    <3>3. ASSUME NEW k \in Handlers, req'[k].pc \in {"start", "release"}
          PROVE  /\ Unused(req'[k].port)
                 /\ \A g \in Handlers : g # k /\ HoldsPort(g)' => req'[g].port # req'[k].port
      BY <2>2, <3>1, <3>2, <3>3, <1>b DEF HeldPortsPrivate, HoldsPort
    <3> QED
      BY <1>1, <3>3, Zenon DEF HeldPortsPrivate, Unused, Routed
  <2>5. PortsNameServices'
    BY <1>1, <2>2, <1>c DEF PortsNameServices, Routed
  <2>6. NoPortOverlap'
    BY <1>1, <2>2, <1>d, Zenon DEF NoPortOverlap
  <2> QED
    BY <1>1, <2>2, <2>3, <2>4, <2>5, <2>6, Zenon DEF AddsInv
<1>3. CASE GetFreePortFails /\ req' = [req EXCEPT ![h] = Reply("failed")]
  <2>1. /\ req'[h].pc = "failed" /\ (\A k \in Handlers \ {h} : req'[k] = req[k])
        /\ allocated' = allocated
    BY <1>3, Zenon DEF TypeOK, Reply, GetFreePortFails
  <2>2. InUseReserved' /\ HeldPortsPrivate'
    BY <1>1, <2>1, <1>a, <1>b DEF InUseReserved, HeldPortsPrivate, HoldsPort, Unused, Routed
  <2>3. PortsNameServices'
    BY <1>1, <2>1, <1>c DEF PortsNameServices, Routed
  <2>4. NoPortOverlap'
    BY <1>1, <2>1, <1>d, Zenon DEF NoPortOverlap
  <2> QED
    BY <1>1, <2>1, <2>2, <2>3, <2>4, Zenon DEF AddsInv
<1> QED
  BY <1>2, <1>3, Zenon DEF AddBegin

\* An add starts its child on a port that only the add holds.
LEMMA AddsAddStart ==
    ASSUME TypeOK, AddsInv, NEW h \in Handlers, AddStart(h)
    PROVE  AddsInv'
<1> USE DEF Finished
<1>a. InUseReserved
  BY Zenon DEF AddsInv
<1>b. HeldPortsPrivate
  BY Zenon DEF AddsInv
<1>c. PortsNameServices
  BY Zenon DEF AddsInv
<1>d. NoPortOverlap
  BY Zenon DEF AddsInv
<1>1. /\ req[h].pc = "start" /\ UNCHANGED <<boot, routes, allocated, listening>>
      /\ req[h].domain \in Names /\ req[h].port \in Ports
      /\ req'[h].port = req[h].port /\ req'[h].domain = req[h].domain
      /\ \A k \in Handlers \ {h} : req'[k] = req[k]
  BY DEF AddStart, TypeOK, ReqRecord, Names
<1>2. boot.pc = "served"
  BY <1>1, Zenon DEF AddsInv
<1>3. /\ Unused(req[h].port) /\ req[h].port \in allocated
      /\ \A k \in Handlers : k # h /\ HoldsPort(k) => req[k].port # req[h].port
  BY <1>1, <1>a, <1>b, Zenon DEF HeldPortsPrivate, InUseReserved, HoldsPort
<1>4. ASSUME NEW c \in Cmds, StartService(req[h].domain, req[h].port, c), req'[h].pc = "route"
      PROVE  AddsInv'
  <2>1. /\ ~Live(c) /\ Live(c)' /\ cmd'[c].name = req[h].domain /\ cmd'[c].port = req[h].port
        /\ \A x \in Cmds \ {c} : cmd'[x] = cmd[x] /\ (Live(x)' <=> Live(x))
    BY <1>1, <1>4, StartEffect
  <2>2. InUseReserved'
    BY <1>1, <1>2, <1>3, <1>4, <2>1, <1>a DEF InUseReserved, HoldsPort, Routed
  <2>3. HeldPortsPrivate'
    <3>1. ASSUME NEW k \in Handlers, req'[k].pc \in {"start", "release"}
          PROVE  /\ Unused(req[k].port)'
                 /\ \A g \in Handlers : g # k /\ HoldsPort(g)' => req'[g].port # req'[k].port
      <4>1. k # h /\ req'[k] = req[k] /\ HoldsPort(k) /\ req[k].port # req[h].port
        BY <1>1, <1>3, <1>4, <3>1, Zenon DEF HoldsPort
      <4>2. Unused(req[k].port)'
        BY <1>1, <2>1, <3>1, <4>1, <1>b DEF HeldPortsPrivate, Unused, Routed
      <4>3. \A g \in Handlers : g # k /\ HoldsPort(g)' => req'[g].port # req[k].port
        BY <1>1, <3>1, <4>1, <1>b DEF HeldPortsPrivate, HoldsPort
      <4> QED
        BY <4>1, <4>2, <4>3, Zenon DEF Unused, Routed
    <3> QED
      BY <1>1, <1>2, <3>1, Zenon DEF HeldPortsPrivate
  <2>4. PortsNameServices'
    <3>1. ASSUME NEW d \in Domains, NEW x \in Cmds,
                 Routed(d)', Live(x)', cmd'[x].port = routes'[d].port
          PROVE  cmd'[x].name = routes'[d].serviceName
      <4>1. Routed(d) /\ routes'[d] = routes[d] /\ routes[d].port # req[h].port
        BY <1>1, <1>3, <3>1, Zenon DEF Routed, Unused
      <4>2. x # c
        BY <2>1, <3>1, <4>1, Zenon
      <4> QED
        BY <2>1, <3>1, <4>1, <4>2, <1>c DEF PortsNameServices
    <3>2. ASSUME NEW k \in Handlers, NEW x \in Cmds,
                 req'[k].pc = "route", Live(x)', cmd'[x].port = req'[k].port
          PROVE  cmd'[x].name = req'[k].domain
      <4>1. CASE k = h
        <5>1. x = c
          BY <1>1, <1>3, <2>1, <3>2, <4>1, Zenon DEF Unused
        <5> QED
          BY <1>1, <2>1, <4>1, <5>1, Zenon
      <4>2. CASE k # h
        <5>1. req'[k] = req[k] /\ req[k].port # req[h].port
          BY <1>1, <1>3, <3>2, <4>2, Zenon DEF HoldsPort
        <5>2. x # c
          BY <2>1, <3>2, <5>1, Zenon
        <5> QED
          BY <2>1, <3>2, <5>1, <5>2, <1>c DEF PortsNameServices
      <4> QED
        BY <4>1, <4>2, Zenon
    <3> QED
      BY <3>1, <3>2, Zenon DEF PortsNameServices
  <2>5. NoPortOverlap'
    BY <1>3, <2>1, <1>d DEF NoPortOverlap, Unused
  <2> QED
    BY <1>1, <1>2, <1>4, <2>1, <2>2, <2>3, <2>4, <2>5, Zenon DEF AddsInv
<1>5. CASE StartServiceFails /\ req'[h].pc = "release"
  <2>1. UNCHANGED cmd /\ \A c \in Cmds : Live(c)' <=> Live(c)
    BY <1>5, Zenon DEF StartServiceFails, Live
  <2>2. InUseReserved'
    BY <1>1, <1>2, <1>3, <1>5, <2>1, <1>a, Zenon DEF InUseReserved, HoldsPort, Routed
  <2>3. HeldPortsPrivate'
    BY <1>1, <1>2, <1>3, <1>5, <2>1, <1>b DEF HeldPortsPrivate, HoldsPort, Routed, Unused
  <2>4. PortsNameServices'
    BY <1>1, <1>5, <2>1, <1>c, Zenon DEF PortsNameServices, Routed
  <2>5. NoPortOverlap'
    BY <1>1, <1>5, <2>1, <1>d, Zenon DEF NoPortOverlap
  <2> QED
    BY <1>1, <1>2, <1>5, <2>1, <2>2, <2>3, <2>4, <2>5, Zenon DEF AddsInv
<1>6. /\ req' = [req EXCEPT ![h].pc = "route"] => req'[h].pc = "route"
      /\ req' = [req EXCEPT ![h].pc = "release"] => req'[h].pc = "release"
  BY DEF TypeOK, ReqRecord
<1> QED
  BY <1>4, <1>5, <1>6, Zenon DEF AddStart

\* A failed add gives back a port that only the add holds.
LEMMA AddsAddRelease ==
    ASSUME TypeOK, AddsInv, NEW h \in Handlers, AddRelease(h)
    PROVE  AddsInv'
<1> USE DEF Finished
<1>a. InUseReserved
  BY Zenon DEF AddsInv
<1>b. HeldPortsPrivate
  BY Zenon DEF AddsInv
<1>c. PortsNameServices
  BY Zenon DEF AddsInv
<1>d. NoPortOverlap
  BY Zenon DEF AddsInv
<1>1. /\ req[h].pc = "release" /\ UNCHANGED <<boot, routes, cmd, listening>>
      /\ req'[h].pc = "failed" /\ allocated' = allocated \ {req[h].port}
      /\ \A k \in Handlers \ {h} : req'[k] = req[k]
      /\ \A c \in Cmds : Live(c)' <=> Live(c)
  BY Zenon DEF AddRelease, ReleasePort, TypeOK, Reply, Live
<1>2. /\ Unused(req[h].port) /\ boot.pc = "served"
      /\ \A k \in Handlers : k # h /\ HoldsPort(k) => req[k].port # req[h].port
  BY <1>1, <1>b, Zenon DEF HeldPortsPrivate, AddsInv
<1>3. InUseReserved'
  BY <1>1, <1>2, <1>a, Zenon DEF InUseReserved, HoldsPort, Routed, Unused
<1>4. HeldPortsPrivate'
  BY <1>1, <1>2, <1>b DEF HeldPortsPrivate, HoldsPort, Routed, Unused
<1>5. PortsNameServices'
  BY <1>1, <1>c DEF PortsNameServices, Routed
<1>6. NoPortOverlap'
  BY <1>1, <1>d, Zenon DEF NoPortOverlap
<1> QED
  BY <1>1, <1>2, <1>3, <1>4, <1>5, <1>6, Zenon DEF AddsInv

\* An add routes its domain to the port of its own child.
LEMMA AddsAddFinish ==
    ASSUME TypeOK, AddsInv, NEW h \in Handlers, AddFinish(h)
    PROVE  AddsInv'
<1> USE DEF Finished
<1>a. InUseReserved
  BY Zenon DEF AddsInv
<1>b. HeldPortsPrivate
  BY Zenon DEF AddsInv
<1>c. PortsNameServices
  BY Zenon DEF AddsInv
<1>d. NoPortOverlap
  BY Zenon DEF AddsInv
<1> DEFINE dom == req[h].domain
           tgt == [serviceName |-> dom, port |-> req[h].port]
<1>1. /\ req[h].pc = "route" /\ UNCHANGED <<boot, allocated, cmd, listening>>
      /\ req'[h].pc = "created"
      /\ \A k \in Handlers \ {h} : req'[k] = req[k]
      /\ \A c \in Cmds : Live(c)' <=> Live(c)
  BY Zenon DEF AddFinish, TypeOK, Reply, Live
<1>2. \A e \in Domains : routes'[e] = IF e = dom THEN tgt ELSE routes[e]
  <2>1. dom \in Domains /\ dom \in Names /\ req[h].port \in Ports
    BY <1>1, Zenon DEF TypeOK, Names
  <2>2. AddRoute(dom, dom, req[h].port)
    BY Zenon DEF AddFinish
  <2> QED
    BY <2>1, <2>2, AddRouteEffect
<1>3. boot.pc = "served" /\ req[h].port \in allocated
  BY <1>1, <1>a, Zenon DEF InUseReserved, HoldsPort, AddsInv
<1>4. tgt.port = req[h].port /\ tgt.serviceName = dom
  BY Zenon
<1> HIDE DEF tgt
<1>5. InUseReserved'
  <2>1. ASSUME NEW e \in Domains, Routed(e)' PROVE routes'[e].port \in allocated'
    BY <1>1, <1>2, <1>3, <1>4, <2>1, <1>a, Zenon DEF InUseReserved, Routed
  <2> QED
    BY <1>1, <1>3, <2>1, <1>a, Zenon DEF InUseReserved, HoldsPort
<1>6. HeldPortsPrivate'
  <2>1. ASSUME NEW k \in Handlers, req'[k].pc \in {"start", "release"}
        PROVE  /\ Unused(req[k].port)'
               /\ \A g \in Handlers : g # k /\ HoldsPort(g)' => req'[g].port # req'[k].port
    <3>1. /\ k # h /\ req'[k] = req[k] /\ Unused(req[k].port)
          /\ \A g \in Handlers : g # k /\ HoldsPort(g) => req[g].port # req[k].port
      BY <1>1, <2>1, <1>b, Zenon DEF HeldPortsPrivate
    <3>2. req[k].port # req[h].port
      BY <1>1, <3>1, Zenon DEF HoldsPort
    <3>3. Unused(req[k].port)'
      BY <1>1, <1>2, <1>4, <3>1, <3>2 DEF Unused, Routed
    <3> QED
      BY <1>1, <3>1, <3>3, Zenon DEF HoldsPort
  <2> QED
    BY <1>1, <1>3, <2>1, Zenon DEF HeldPortsPrivate
<1>7. PortsNameServices'
  <2>1. ASSUME NEW e \in Domains, NEW c \in Cmds,
               Routed(e)', Live(c)', cmd'[c].port = routes'[e].port
        PROVE  cmd'[c].name = routes'[e].serviceName
    <3>1. CASE e = dom
      BY <1>1, <1>2, <1>4, <2>1, <3>1, <1>c DEF PortsNameServices
    <3>2. CASE e # dom
      BY <1>1, <1>2, <2>1, <3>2, <1>c DEF PortsNameServices, Routed
    <3> QED
      BY <3>1, <3>2, Zenon
  <2> QED
    BY <1>1, <2>1, <1>c DEF PortsNameServices
<1>8. NoPortOverlap'
  BY <1>1, <1>d, Zenon DEF NoPortOverlap
<1> QED
  BY <1>1, <1>3, <1>5, <1>6, <1>7, <1>8, Zenon DEF AddsInv

\* Signals change no port.
LEMMA AddsStopAll ==
    ASSUME TypeOK, AddsInv, StopAll
    PROVE  AddsInv'
<1> USE DEF Finished
<1>1. UNCHANGED <<allocated, routes, req, boot, listening>>
  BY Zenon DEF StopAll, StopAllBegin, StopAllStep, StopAllEnd
<1>2. \A c \in Cmds : (Live(c)' <=> Live(c)) /\ cmd'[c].name = cmd[c].name
                                             /\ cmd'[c].port = cmd[c].port
  <2>1. CASE UNCHANGED cmd
    BY <2>1, Zenon DEF Live
  <2>2. ASSUME NEW n \in Names, StopService(n)
        PROVE  \A c \in Cmds : (Live(c)' <=> Live(c)) /\ cmd'[c].name = cmd[c].name
                                                      /\ cmd'[c].port = cmd[c].port
    BY <2>2, StopServiceTypes, Zenon DEF Live
  <2> QED
    BY <2>1, <2>2, Zenon DEF StopAll, StopAllBegin, StopAllStep, StopAllEnd
<1>3. listening' \subseteq {c \in Cmds : Live(c)'}
  BY <1>1, <1>2, Zenon DEF AddsInv
<1> QED
  BY <1>1, <1>2, <1>3, AddsInvFewerLive, Zenon

\* A child binds, exits or is waited for.
LEMMA AddsChild ==
    ASSUME TypeOK, AddsInv, NEW c \in Cmds, Child(c)
    PROVE  AddsInv'
<1> USE DEF Finished
<1>1. UNCHANGED <<allocated, routes, req, boot>>
  BY Zenon DEF Child, Bind, Exit, Waiter
<1>2. CASE Bind(c)
  <2>1. \A x \in Cmds : Live(x)' <=> Live(x)
    BY <1>2, Zenon DEF Bind, Live
  <2>2. listening' \subseteq {x \in Cmds : Live(x)'}
    BY <1>2, <2>1, Zenon DEF Bind, AddsInv
  <2> QED
    BY <1>1, <1>2, <2>1, <2>2, AddsInvFewerLive, Zenon DEF Bind
<1>3. CASE Exit(c)
  <2>1. \A x \in Cmds : /\ cmd'[x].name = cmd[x].name /\ cmd'[x].port = cmd[x].port
                        /\ Live(x)' <=> (Live(x) /\ x # c)
    BY <1>3, Zenon DEF Exit, Live, TypeOK, CmdRecord
  <2>2. listening' \subseteq {x \in Cmds : Live(x)'}
    BY <1>3, <2>1, Zenon DEF Exit, AddsInv
  <2> QED
    BY <1>1, <2>1, <2>2, AddsInvFewerLive, Zenon
<1>4. CASE Waiter(c)
  <2>1. \A x \in Cmds : cmd'[x] = IF x = c THEN FreeCmd ELSE cmd[x]
    BY <1>4, Zenon DEF Waiter, TypeOK
  <2>2. ~Live(c) /\ ~Live(c)' /\ \A x \in Cmds \ {c} : cmd'[x] = cmd[x] /\ (Live(x)' <=> Live(x))
    BY <1>4, <2>1 DEF Waiter, Live, FreeCmd
  <2>3. listening' \subseteq {x \in Cmds : Live(x)'}
    BY <1>4, <2>2, Zenon DEF Waiter, AddsInv
  <2> QED
    BY <1>1, <2>2, <2>3, AddsInvFewerLive, Zenon
<1> QED
  BY <1>2, <1>3, <1>4, Zenon DEF Child

LEMMA AddsStep ==
    ASSUME "remove" \notin Ops, TypeOK, AddsInv, [Next]_vars
    PROVE  AddsInv'
<1>9. ASSUME NEW h \in Handlers PROVE ~Remove(h)
  BY Zenon DEF Remove, RemoveBegin, RemoveStop, RemoveRelease, RemoveFinish, AddsInv
<1>12. CASE UNCHANGED vars
  <2>1. listening' \subseteq {c \in Cmds : Live(c)'}
    BY <1>12, Zenon DEF vars, Live, AddsInv
  <2> QED
    BY <1>12, <2>1, AddsInvFewerLive, Zenon DEF vars, Live
<1> QED
  BY <1>9, <1>12, AddsBootPort, AddsBootRoute, AddsBootStart, AddsBootDone, AddsAddBegin,
     AddsAddStart, AddsAddRelease, AddsAddFinish, AddsStopAll, AddsChild, Zenon
  DEF Next, Boot, Add

LEMMA AddsInvHolds == ASSUME "remove" \notin Ops PROVE Spec => []AddsInv
<1>1. Init => AddsInv
  <2> SUFFICES ASSUME Init PROVE AddsInv
    BY Zenon
  <2>1. /\ \A h \in Handlers : req[h].pc = "idle"
        /\ \A d \in Domains : ~Routed(d)
        /\ \A c \in Cmds : ~Live(c)
        /\ boot.pc = "port" /\ listening = {}
    BY Zenon DEF Init, Reply, Routed, Live, FreeCmd
  <2> QED
    BY <2>1, Zenon DEF AddsInv, InUseReserved, HeldPortsPrivate, HoldsPort, PortsNameServices,
                NoPortOverlap, Finished
<1>2. TypeOK /\ AddsInv /\ [Next]_vars => AddsInv'
  BY AddsStep, Zenon
<1> QED
  BY <1>1, <1>2, TypeCorrect, PTL DEF Spec

\* While clients only add services, and children crash and restart at will,
\* no two live children ever have the same $PORT.
THEOREM NoPortOverlapAdds == ASSUME "remove" \notin Ops PROVE Spec => []NoPortOverlap
<1>1. AddsInv => NoPortOverlap
  BY Zenon DEF AddsInv
<1> QED
  BY <1>1, AddsInvHolds, PTL

\* Under the same condition the proxy never sends a domain's traffic to the
\* child of another service.
THEOREM RoutesReachOwnServiceAdds ==
    ASSUME "remove" \notin Ops PROVE Spec => []RoutesReachOwnService
<1>1. AddsInv => RoutesReachOwnService
  BY Zenon DEF AddsInv, PortsNameServices, RoutesReachOwnService, ServedBy, GetTarget, Routed
<1> QED
  BY <1>1, AddsInvHolds, PTL


-----------------------------------------------------------------------------
(***************************************************************************)
(* One request at a time and no services in portless.yaml: every running   *)
(* child is routed.                                                        *)
(***************************************************************************)
\* While a request is in progress: the child it has just started may have no
\* route yet, and the one it removes is stopped before its route goes.
RoutedInv ==
    /\ boot.pc \notin {"route", "start"}
    /\ \A d \in Domains : Routed(d) => routes[d].serviceName = d
    /\ \A h \in Handlers :
          /\ req[h].pc \in {"stop", "free", "unroute"} => req[h].target.serviceName = req[h].domain
          /\ \A c \in Cmds : cmd[c].st = "running" /\ cmd[c].name = req[h].domain =>
                /\ req[h].pc \notin {"free", "unroute"}
                /\ req[h].pc = "route" => cmd[c].port = req[h].port
    /\ \A c \in Cmds : cmd[c].st = "running" =>
          \/ routes[cmd[c].name] = [serviceName |-> cmd[c].name, port |-> cmd[c].port]
          \/ \E h \in Handlers : req[h].pc = "route" /\ req[h].domain = cmd[c].name

\* A step after which no other child runs, and routes and requests are the same.
LEMMA RoutedFewer ==
    ASSUME RoutedInv, UNCHANGED <<routes, req>>, boot'.pc \notin {"route", "start"},
           \A c \in Cmds : cmd'[c].st = "running" =>
               cmd[c].st = "running" /\ cmd'[c].name = cmd[c].name /\ cmd'[c].port = cmd[c].port
    PROVE  RoutedInv'
BY DEF RoutedInv, Routed

\* A step of the only request in progress that neither starts nor routes.
LEMMA RoutedRequest ==
    ASSUME SerialRequests, RoutedInv, UNCHANGED <<routes, cmd, boot>>, NEW h \in Handlers,
           req[h].pc # "route",
           \/ req'[h].pc \in Finished \cup {"start", "release"}
           \/ req'[h].pc = "stop" /\ req'[h].target.serviceName = req'[h].domain
           \/ /\ req[h].pc = "free" /\ req'[h].pc = "unroute"
              /\ req'[h].target = req[h].target /\ req'[h].domain = req[h].domain
    PROVE  RoutedInv'
<1>1. \A k \in Handlers : k = h
  BY Zenon DEF SerialRequests
<1> QED
  BY <1>1 DEF RoutedInv, Routed, Finished

LEMMA RoutedAddStart ==
    ASSUME SerialRequests, TypeOK, WaiterOwnsEntry, RoutedInv, NEW h \in Handlers, AddStart(h)
    PROVE  RoutedInv'
<1>1. /\ req[h].pc = "start" /\ UNCHANGED <<boot, routes>> /\ \A k \in Handlers : k = h
      /\ req[h].domain \in Names /\ req[h].port \in Ports
  BY Zenon DEF AddStart, SerialRequests, TypeOK, Names, Finished
<1>2. CASE StartServiceFails /\ req' = [req EXCEPT ![h].pc = "release"]
  <2>1. req'[h].pc = "release" /\ cmd' = cmd
    BY <1>2, Zenon DEF StartServiceFails, TypeOK, ReqRecord
  <2> QED
    BY <1>1, <2>1, RoutedRequest, Zenon
<1>3. ASSUME NEW c \in Cmds, StartService(req[h].domain, req[h].port, c),
             req' = [req EXCEPT ![h].pc = "route"]
      PROVE  RoutedInv'
  <2>1. req'[h].pc = "route" /\ req'[h].domain = req[h].domain /\ req'[h].port = req[h].port
    BY <1>3 DEF TypeOK, ReqRecord
  <2>2. \A x \in Cmds : cmd'[x] = IF x = c THEN [st |-> "running", name |-> req[h].domain,
                                                 port |-> req[h].port]
                                  ELSE cmd[x]
    BY <1>3, Zenon DEF StartService, TypeOK
  <2>3. ASSUME NEW x \in Cmds, cmd[x].st = "running" PROVE cmd[x].name # req[h].domain
    <3>1. processes[cmd[x].name] = x /\ processes[req[h].domain] = NoCmd
      BY <1>3, <2>3, Zenon DEF WaiterOwnsEntry, StartService
    <3> QED
      BY <3>1, DevRouterAssumption, Zenon
  <2>4. ASSUME NEW x \in Cmds, cmd'[x].st = "running", x # c
        PROVE  /\ routes'[cmd'[x].name] = [serviceName |-> cmd'[x].name, port |-> cmd'[x].port]
               /\ cmd'[x].name # req[h].domain
    BY <1>1, <2>2, <2>3, <2>4 DEF RoutedInv
  <2>5. cmd'[c].name = req[h].domain /\ cmd'[c].port = req[h].port
    BY <2>2
  <2>6. \A x \in Cmds : cmd'[x].st = "running" =>
          \/ routes'[cmd'[x].name] = [serviceName |-> cmd'[x].name, port |-> cmd'[x].port]
          \/ \E k \in Handlers : req'[k].pc = "route" /\ req'[k].domain = cmd'[x].name
    BY <2>1, <2>4, <2>5, Zenon
  <2>7. \A x \in Cmds : cmd'[x].st = "running" /\ cmd'[x].name = req'[h].domain =>
          cmd'[x].port = req'[h].port
    BY <2>1, <2>4, <2>5, Zenon
  <2> QED
    BY <1>1, <2>1, <2>6, <2>7 DEF RoutedInv, Routed
<1> QED
  BY <1>2, <1>3, Zenon DEF AddStart

LEMMA RoutedAddFinish ==
    ASSUME SerialRequests, ConfigNames = {}, TypeOK, RoutedInv, NEW h \in Handlers, AddFinish(h)
    PROVE  RoutedInv'
<1>1. /\ req[h].pc = "route" /\ UNCHANGED <<boot, cmd>> /\ \A k \in Handlers : k = h
      /\ req'[h].pc = "created"
      /\ req[h].domain \in Domains /\ req[h].domain \in Names /\ req[h].port \in Ports
  BY Zenon DEF AddFinish, SerialRequests, TypeOK, Reply, Names, Finished
<1>2. \A e \in Domains :
        routes'[e] = IF e = req[h].domain
                     THEN [serviceName |-> req[h].domain, port |-> req[h].port] ELSE routes[e]
  BY <1>1, AddRouteEffect DEF AddFinish
<1>3. ASSUME NEW c \in Cmds, cmd[c].st = "running", cmd[c].name \in Domains
      PROVE  routes'[cmd[c].name] = [serviceName |-> cmd[c].name, port |-> cmd[c].port]
  <2>1. CASE cmd[c].name = req[h].domain
    <3>1. cmd[c].port = req[h].port
      BY <1>1, <1>3, <2>1, Zenon DEF RoutedInv
    <3> QED
      BY <1>2, <1>3, <2>1, <3>1, Zenon
  <2>2. CASE cmd[c].name # req[h].domain
    BY <1>1, <1>2, <1>3, <2>2, Zenon DEF RoutedInv
  <2> QED
    BY <2>1, <2>2, Zenon
<1>4. \A d \in Domains : routes'[d] # NoTarget => routes'[d].serviceName = d
  BY <1>2 DEF RoutedInv, Routed
<1>5. \A c \in Cmds : cmd[c].st = "running" => cmd[c].name \in Domains
  BY Zenon DEF TypeOK, Names
<1> QED
  BY <1>1, <1>3, <1>4, <1>5, Zenon DEF RoutedInv, Routed

LEMMA RoutedRemoveStop ==
    ASSUME SerialRequests, TypeOK, WaiterOwnsEntry, RoutedInv, NEW h \in Handlers, RemoveStop(h)
    PROVE  RoutedInv'
<1>1. /\ req[h].pc = "stop" /\ UNCHANGED <<boot, routes>> /\ \A k \in Handlers : k = h
      /\ req'[h].pc = "free" /\ req'[h].domain = req[h].domain /\ req'[h].target = req[h].target
      /\ req[h].target.serviceName \in Names
  BY DEF RemoveStop, SerialRequests, TypeOK, ReqRecord, Target
<1>2. req[h].target.serviceName = req[h].domain
  BY <1>1, Zenon DEF RoutedInv
<1>3. \A c \in Cmds : /\ cmd'[c].name = cmd[c].name /\ cmd'[c].port = cmd[c].port
                      /\ cmd'[c].st = IF c = processes[req[h].domain] /\ cmd[c].st = "running"
                                      THEN "signalled" ELSE cmd[c].st
  BY <1>1, <1>2, StopServiceTypes, Zenon DEF RemoveStop
<1>4. ASSUME NEW c \in Cmds, cmd'[c].st = "running"
      PROVE  cmd[c].st = "running" /\ cmd'[c].name # req[h].domain
  <2>1. cmd[c].st = "running" /\ c # processes[req[h].domain]
    BY <1>3, <1>4, Zenon
  <2>2. processes[cmd[c].name] = c
    BY <2>1, Zenon DEF WaiterOwnsEntry
  <2> QED
    BY <1>3, <2>1, <2>2, Zenon
<1> QED
  BY <1>1, <1>2, <1>3, <1>4 DEF RoutedInv, Routed

LEMMA RoutedRemoveFinish ==
    ASSUME SerialRequests, ConfigNames = {}, TypeOK, RoutedInv, NEW h \in Handlers, RemoveFinish(h)
    PROVE  RoutedInv'
<1>1. /\ UNCHANGED <<boot, cmd>> /\ \A k \in Handlers : k = h
      /\ req[h].pc = "unroute" /\ req'[h].pc = "removed"
      /\ \A e \in Domains : routes'[e] = IF e = req[h].domain THEN NoTarget ELSE routes[e]
  BY DEF RemoveFinish, RemoveRoute, SerialRequests, TypeOK, Reply
<1>2. ASSUME NEW c \in Cmds, cmd[c].st = "running", cmd[c].name \in Domains
      PROVE  routes'[cmd[c].name] = [serviceName |-> cmd[c].name, port |-> cmd[c].port]
  BY <1>1, <1>2, Zenon DEF RoutedInv
<1>3. \A c \in Cmds : cmd[c].st = "running" => cmd[c].name \in Domains
  BY Zenon DEF TypeOK, Names
<1>4. \A d \in Domains : routes'[d] # NoTarget => routes'[d].serviceName = d
  BY <1>1, Zenon DEF RoutedInv, Routed
<1> QED
  BY <1>1, <1>2, <1>3, <1>4, Zenon DEF RoutedInv, Routed


LEMMA RoutedStep ==
    ASSUME SerialRequests, ConfigNames = {}, TypeOK, WaiterOwnsEntry, RoutedInv, [Next]_vars
    PROVE  RoutedInv'
<1>1. CASE Boot
  <2>1. boot.pc \notin {"route", "start"} /\ ~\E n \in ConfigNames : BootPort(n)
    BY Zenon DEF RoutedInv
  <2>2. BootDone
    BY <1>1, <2>1, Zenon DEF Boot, BootRoute, BootStart
  <2>3. UNCHANGED <<routes, req, cmd>> /\ boot'.pc = "served"
    BY <2>2, Zenon DEF BootDone, TypeOK
  <2> QED
    BY <2>3, RoutedFewer, Zenon
<1>2. ASSUME NEW h \in Handlers, NEW d \in Domains, AddBegin(h, d) PROVE RoutedInv'
  <2>1. /\ UNCHANGED <<routes, cmd, boot>> /\ req[h].pc # "route"
        /\ req'[h].pc \in {"start", "failed"}
    BY <1>2 DEF AddBegin, TypeOK, Finished, Reply
  <2> QED
    BY <2>1, RoutedRequest, Zenon DEF Finished
<1>3. ASSUME NEW h \in Handlers, AddRelease(h) PROVE RoutedInv'
  <2>1. /\ UNCHANGED <<routes, cmd, boot>> /\ req[h].pc # "route" /\ req'[h].pc = "failed"
    BY <1>3, Zenon DEF AddRelease, TypeOK, Reply
  <2> QED
    BY <2>1, RoutedRequest, Zenon DEF Finished
<1>4. ASSUME NEW h \in Handlers, NEW d \in Domains, RemoveBegin(h, d) PROVE RoutedInv'
  <2>1. /\ UNCHANGED <<routes, cmd, boot>> /\ req[h].pc # "route"
        /\ \/ req'[h].pc = "removed"
           \/ /\ req'[h].pc = "stop" /\ req'[h].domain = d
              /\ req'[h].target = routes[d] /\ Routed(d)
    BY <1>4, Zenon DEF RemoveBegin, TypeOK, Finished, Reply, GetTarget, Routed
  <2>2. Routed(d) => routes[d].serviceName = d
    BY Zenon DEF RoutedInv
  <2> QED
    BY <2>1, <2>2, RoutedRequest, Zenon DEF Finished
<1>5. ASSUME NEW h \in Handlers, RemoveRelease(h) PROVE RoutedInv'
  <2>1. /\ UNCHANGED <<routes, cmd, boot>> /\ req[h].pc = "free" /\ req'[h].pc = "unroute"
        /\ req'[h].domain = req[h].domain /\ req'[h].target = req[h].target
    BY <1>5 DEF RemoveRelease, TypeOK, ReqRecord
  <2> QED
    BY <2>1, RoutedRequest, Zenon
<1>6. CASE StopAll
  <2>1. ASSUME NEW n \in Names, StopAllStep(n) PROVE RoutedInv'
    <3>1. UNCHANGED <<routes, req, boot>> /\ StopService(n)
      BY <2>1, Zenon DEF StopAllStep
    <3>2. \A c \in Cmds : cmd'[c].st = "running" =>
            cmd[c].st = "running" /\ cmd'[c].name = cmd[c].name /\ cmd'[c].port = cmd[c].port
      BY <3>1, StopServiceTypes, Zenon
    <3> QED
      BY <3>1, <3>2, RoutedFewer, Zenon DEF RoutedInv
  <2>2. CASE StopAllBegin \/ StopAllEnd
    BY <2>2, RoutedFewer, Zenon DEF StopAllBegin, StopAllEnd, RoutedInv
  <2> QED
    BY <1>6, <2>1, <2>2, Zenon DEF StopAll
<1>7. ASSUME NEW c \in Cmds, Child(c) PROVE RoutedInv'
  <2>1. UNCHANGED <<routes, req, boot>>
    BY <1>7, Zenon DEF Child, Bind, Exit, Waiter
  <2>2. \A x \in Cmds : cmd'[x].st = "running" => cmd'[x] = cmd[x]
    <3>1. CASE Bind(c)
      BY <3>1, Zenon DEF Bind
    <3>2. CASE Exit(c)
      BY <3>2 DEF Exit, TypeOK, CmdRecord
    <3>3. CASE Waiter(c)
      BY <3>3, Zenon DEF Waiter, TypeOK, FreeCmd
    <3> QED
      BY <1>7, <3>1, <3>2, <3>3, Zenon DEF Child
  <2> QED
    BY <2>1, <2>2, RoutedFewer, Zenon DEF RoutedInv
<1>8. CASE UNCHANGED vars
  BY <1>8, RoutedFewer, Zenon DEF vars, RoutedInv
<1> QED
  BY <1>1, <1>2, <1>3, <1>4, <1>5, <1>6, <1>7, <1>8, RoutedAddStart, RoutedAddFinish,
     RoutedRemoveStop, RoutedRemoveFinish, Zenon
  DEF Next, Add, Remove

\* When requests come one at a time and portless.yaml names no services, every
\* child that runs between requests is where the proxy sends its domain, however
\* the children crash, restart and are stopped.  It is false with overlapping
\* requests (a late AddRoute names an older port) and with portless.yaml (its
\* services may share a domain with each other or with an added one).
THEOREM RunningServicesRoutedSerial ==
    ASSUME SerialRequests, ConfigNames = {} PROVE Spec => []RunningServicesRouted
<1>1. Init => RoutedInv
  BY DEF Init, RoutedInv, Routed, Reply, FreeCmd
<1>2. TypeOK /\ WaiterOwnsEntry /\ RoutedInv /\ [Next]_vars => RoutedInv'
  BY RoutedStep, Zenon
<1>3. TypeOK /\ RoutedInv => RunningServicesRouted
  <2> SUFFICES ASSUME TypeOK, RoutedInv, Quiet, NEW c \in Cmds, cmd[c].st = "running"
               PROVE  \E d \in Domains :
                        routes[d] = [serviceName |-> cmd[c].name, port |-> cmd[c].port]
    BY Zenon DEF RunningServicesRouted
  <2>1. cmd[c].name \in Domains
    BY Zenon DEF TypeOK, Names
  <2>2. \A h \in Handlers : req[h].pc # "route"
    BY Zenon DEF Quiet, Finished
  <2> QED
    BY <2>1, <2>2, Zenon DEF RoutedInv
<1> QED
  BY <1>1, <1>2, <1>3, TypeCorrect, WaiterOwnsEntryHolds, PTL DEF Spec
============================================================================
