----------------------------- MODULE DevRouter -----------------------------
(***************************************************************************)
(* The portless daemon: port manager, process supervisor, routing engine,  *)
(* the IPC handlers that add and remove services, the boot loop over       *)
(* portless.yaml and the stop-everything path of the signal goroutine.     *)
(*                                                                         *)
(* Each of the three stores has its own mutex and every call holds it for  *)
(* the whole call, so one call is one step.  A handler makes several such  *)
(* calls with nothing held in between: it is a small program whose steps   *)
(* interleave with other handlers, with the waiter goroutines and with the *)
(* child processes themselves.                                             *)
(***************************************************************************)
EXTENDS FiniteSets, Naturals

CONSTANTS
    Domains,       \* domain names the CLI may add or remove
    ConfigNames,   \* service names of portless.yaml (empty: no services)
    ConfigDomain,  \* the domain of each service of portless.yaml
    Ports,         \* ports the kernel can hand out
    Cmds,          \* identities of exec.Cmd values; reused once forgotten
    Handlers,      \* IPC requests that can be in progress at once
    Ops,           \* the requests clients send: a subset of {"add", "remove"}
    NoCmd, NoTarget, NoPort, NoName

\* An add uses the domain as the service name, the boot loop the YAML key.
Names == Domains \cup ConfigNames

ASSUME DevRouterAssumption ==
    /\ ConfigDomain \in [ConfigNames -> Domains]
    /\ Ops \subseteq {"add", "remove"}
    /\ NoCmd \notin Cmds
    /\ NoPort \notin Ports
    /\ NoName \notin Names
    /\ NoTarget \notin [serviceName : Names, port : Ports]

VARIABLES
    allocated,  \* portman.Manager.allocated, as the set of its keys
    routes,     \* router.Engine.routes
    processes,  \* process.Supervisor.processes
    cmd,        \* the exec.Cmd values and the OS processes behind them
    listening,  \* the children that listen on their port
    boot,       \* the boot loop of `portless start`
    stopper,    \* StopAllServices, run by the signal goroutine; its field
                \* late is history: the children started after it began
    req         \* the IPC requests in progress

vars == <<allocated, routes, processes, cmd, listening, boot, stopper, req>>
----------------------------------------------------------------------------
Target == [serviceName : Names, port : Ports]

\* The life of a child: started, asked to terminate, gone but not yet waited
\* for by its goroutine.
CmdState == {"free", "running", "signalled", "exited"}
CmdRecord == [st : CmdState, name : Names \cup {NoName}, port : Ports \cup {NoPort}]
FreeCmd == [st |-> "free", name |-> NoName, port |-> NoPort]

\* A request is finished when its reply has been written.
Finished == {"idle", "created", "failed", "removed"}
ReqPc == Finished \cup {"start", "release", "route", "stop", "free", "unroute"}
ReqRecord == [pc : ReqPc, domain : Domains \cup {NoName},
              port : Ports \cup {NoPort}, target : Target \cup {NoTarget}]
Reply(pc) == [pc |-> pc, domain |-> NoName, port |-> NoPort, target |-> NoTarget]

TypeOK ==
    /\ allocated \subseteq Ports
    /\ routes \in [Domains -> Target \cup {NoTarget}]
    /\ processes \in [Names -> Cmds \cup {NoCmd}]
    /\ cmd \in [Cmds -> CmdRecord]
    /\ listening \subseteq Cmds
    /\ boot \in [pc : {"port", "route", "start", "served", "fatal"},
                 todo : SUBSET ConfigNames,
                 name : ConfigNames \cup {NoName}, port : Ports \cup {NoPort}]
    /\ stopper \in [pc : {"off", "stopping", "stopped"}, names : SUBSET Names,
                    late : SUBSET Cmds]
    /\ req \in [Handlers -> ReqRecord]
    /\ boot.pc \in {"route", "start"} => boot.name \in ConfigNames /\ boot.port \in Ports
    /\ \A c \in Cmds : IF cmd[c].st = "free" THEN cmd[c] = FreeCmd
                      ELSE cmd[c].name \in Names /\ cmd[c].port \in Ports
    /\ \A h \in Handlers :
          /\ req[h].pc \notin Finished => req[h].domain \in Domains
          /\ req[h].pc \in {"start", "release", "route"} => req[h].port \in Ports
          /\ req[h].pc \in {"stop", "free", "unroute"} => req[h].target \in Target

Live(c) == cmd[c].st \in {"running", "signalled"}
Serving == boot.pc = "served"
----------------------------------------------------------------------------
(* portman.Manager *)

\* What `net.Listen("127.0.0.1:0")` can return: a port nobody listens on.
KernelFree == {p \in Ports : \A c \in listening : cmd[c].port # p}

\* Mutant: the reserved ports are not looked at.
GetFreePortUnchecked(p) ==
    /\ p \in KernelFree
    /\ allocated' = allocated \cup {p}

\* Up to five draws from the kernel, accepting one that is not reserved.
GetFreePort(p) ==
    /\ p \in KernelFree \ allocated
    /\ allocated' = allocated \cup {p}

\* A listen error, or five draws that are all reserved.
GetFreePortFails == UNCHANGED allocated

ReleasePort(p) == allocated' = allocated \ {p}
----------------------------------------------------------------------------
(* router.Engine *)

AddRoute(d, n, p) == routes' = [routes EXCEPT ![d] = [serviceName |-> n, port |-> p]]
RemoveRoute(d) == routes' = [routes EXCEPT ![d] = NoTarget]
GetTarget(d) == routes[d]

\* The children a proxied request for d can reach: those that listen on the
\* port of the route that ServeHTTP looks up.
ServedBy(d) ==
    IF GetTarget(d) = NoTarget THEN {}
    ELSE {c \in listening : cmd[c].port = GetTarget(d).port}
----------------------------------------------------------------------------
(* process.Supervisor *)

\* Mutant: no test for a service that is already running.
StartServiceTwice(n, p, c) ==
    /\ cmd[c] = FreeCmd
    /\ cmd' = [cmd EXCEPT ![c] = [st |-> "running", name |-> n, port |-> p]]
    /\ processes' = [processes EXCEPT ![n] = c]
    /\ stopper' = IF stopper.pc = "off" THEN stopper
                  ELSE [stopper EXCEPT !.late = @ \cup {c}]

\* StartService registers the new command under its name.
StartService(n, p, c) ==
    /\ processes[n] = NoCmd
    /\ cmd[c] = FreeCmd
    /\ cmd' = [cmd EXCEPT ![c] = [st |-> "running", name |-> n, port |-> p]]
    /\ processes' = [processes EXCEPT ![n] = c]
    /\ stopper' = IF stopper.pc = "off" THEN stopper
                  ELSE [stopper EXCEPT !.late = @ \cup {c}]

\* "already running", or a failure of the pipes or of exec: nothing changes.
\* A shell always starts, so the second kind needs the system's help and can
\* happen for every name.
StartServiceFails == UNCHANGED <<cmd, processes, stopper>>

\* SIGTERM to the group of the registered command; the entry stays until the
\* waiter removes it.  A command that already exited is not affected.
StopService(n) ==
    /\ UNCHANGED processes
    /\ cmd' = IF processes[n] # NoCmd /\ cmd[processes[n]].st = "running"
              THEN [cmd EXCEPT ![processes[n]].st = "signalled"]
              ELSE cmd

\* Mutant: the goroutine waits and does not delete the entry.
WaiterKeepsEntry(c) ==
    /\ boot.pc # "fatal"
    /\ cmd[c].st = "exited"
    /\ cmd' = [cmd EXCEPT ![c] = FreeCmd]
    /\ stopper' = [stopper EXCEPT !.late = @ \ {c}]
    /\ UNCHANGED <<allocated, routes, processes, listening, boot, req>>

\* The goroutine of StartService: Wait returned, delete the entry of the
\* service's NAME, whatever command it holds by now.
Waiter(c) ==
    /\ boot.pc # "fatal"
    /\ cmd[c].st = "exited"
    /\ processes' = [processes EXCEPT ![cmd[c].name] = NoCmd]
    /\ cmd' = [cmd EXCEPT ![c] = FreeCmd]
    /\ stopper' = [stopper EXCEPT !.late = @ \ {c}]
    /\ UNCHANGED <<allocated, routes, listening, boot, req>>
----------------------------------------------------------------------------
(* The children (external programs): they listen on $PORT, and exit by     *)
(* themselves or because they were told to.                                *)

Bind(c) ==
    /\ Live(c)
    /\ cmd[c].port \in KernelFree
    /\ listening' = listening \cup {c}
    /\ UNCHANGED <<allocated, routes, processes, cmd, boot, stopper, req>>

Exit(c) ==
    /\ Live(c)
    /\ cmd' = [cmd EXCEPT ![c].st = "exited"]
    /\ listening' = listening \ {c}
    /\ UNCHANGED <<allocated, routes, processes, boot, stopper, req>>
----------------------------------------------------------------------------
(* The boot loop of `portless start`, over portless.yaml in map order.     *)

BootPort(n) ==
    /\ boot.pc = "port"
    /\ n \in boot.todo
    /\ UNCHANGED <<routes, processes, cmd, listening, stopper, req>>
    /\ \/ \E p \in Ports :
            /\ GetFreePort(p)
            /\ boot' = [pc |-> "route", todo |-> boot.todo \ {n}, name |-> n, port |-> p]
       \/ /\ GetFreePortFails
          /\ boot' = [boot EXCEPT !.pc = "fatal"]

BootRoute ==
    /\ boot.pc = "route"
    /\ AddRoute(ConfigDomain[boot.name], boot.name, boot.port)
    /\ boot' = [boot EXCEPT !.pc = "start"]
    /\ UNCHANGED <<allocated, processes, cmd, listening, stopper, req>>

\* A service that does not start is only logged.
BootStart ==
    /\ boot.pc = "start"
    /\ (\E c \in Cmds : StartService(boot.name, boot.port, c)) \/ StartServiceFails
    /\ boot' = [pc |-> "port", todo |-> boot.todo, name |-> NoName, port |-> NoPort]
    /\ UNCHANGED <<allocated, routes, listening, req>>

BootDone ==
    /\ boot.pc = "port"
    /\ boot.todo = {}
    /\ boot' = [boot EXCEPT !.pc = "served"]
    /\ UNCHANGED <<allocated, routes, processes, cmd, listening, stopper, req>>
----------------------------------------------------------------------------
(* POST /services *)

\* The port is taken; without one the request fails.
AddBegin(h, d) ==
    /\ Serving
    /\ "add" \in Ops
    /\ req[h].pc \in Finished
    /\ UNCHANGED <<routes, processes, cmd, listening, boot, stopper>>
    /\ \/ \E p \in Ports :
            /\ GetFreePort(p)
            /\ req' = [req EXCEPT ![h] = [pc |-> "start", domain |-> d,
                                          port |-> p, target |-> NoTarget]]
       \/ /\ GetFreePortFails
          /\ req' = [req EXCEPT ![h] = Reply("failed")]

AddStart(h) ==
    /\ req[h].pc = "start"
    /\ UNCHANGED <<allocated, routes, listening, boot>>
    /\ \/ /\ \E c \in Cmds : StartService(req[h].domain, req[h].port, c)
          /\ req' = [req EXCEPT ![h].pc = "route"]
       \/ /\ StartServiceFails
          /\ req' = [req EXCEPT ![h].pc = "release"]

AddRelease(h) ==
    /\ req[h].pc = "release"
    /\ ReleasePort(req[h].port)
    /\ req' = [req EXCEPT ![h] = Reply("failed")]
    /\ UNCHANGED <<routes, processes, cmd, listening, boot, stopper>>

\* AddRoute fails only if "http://127.0.0.1:<port>" does not parse: never.
AddFinish(h) ==
    /\ req[h].pc = "route"
    /\ AddRoute(req[h].domain, req[h].domain, req[h].port)
    /\ req' = [req EXCEPT ![h] = Reply("created")]
    /\ UNCHANGED <<allocated, processes, cmd, listening, boot, stopper>>
----------------------------------------------------------------------------
(* DELETE /services?domain=d *)

RemoveBegin(h, d) ==
    /\ Serving
    /\ "remove" \in Ops
    /\ req[h].pc \in Finished
    /\ req' = [req EXCEPT ![h] =
                 IF GetTarget(d) = NoTarget THEN Reply("removed")
                 ELSE [pc |-> "stop", domain |-> d, port |-> NoPort,
                       target |-> GetTarget(d)]]
    /\ UNCHANGED <<allocated, routes, processes, cmd, listening, boot, stopper>>

\* Mutant: the route and the port go, the process stays.
RemoveWithoutStop(h) ==
    /\ req[h].pc = "stop"
    /\ req' = [req EXCEPT ![h].pc = "free"]
    /\ UNCHANGED <<allocated, routes, processes, cmd, listening, boot, stopper>>

RemoveStop(h) ==
    /\ req[h].pc = "stop"
    /\ StopService(req[h].target.serviceName)
    /\ req' = [req EXCEPT ![h].pc = "free"]
    /\ UNCHANGED <<allocated, routes, listening, boot, stopper>>

RemoveRelease(h) ==
    /\ req[h].pc = "free"
    /\ ReleasePort(req[h].target.port)
    /\ req' = [req EXCEPT ![h].pc = "unroute"]
    /\ UNCHANGED <<routes, processes, cmd, listening, boot, stopper>>

\* Mutant: the route is left behind.
RemoveKeepsRoute(h) ==
    /\ req[h].pc = "unroute"
    /\ req' = [req EXCEPT ![h] = Reply("removed")]
    /\ UNCHANGED <<allocated, routes, processes, cmd, listening, boot, stopper>>

RemoveFinish(h) ==
    /\ req[h].pc = "unroute"
    /\ RemoveRoute(req[h].domain)
    /\ req' = [req EXCEPT ![h] = Reply("removed")]
    /\ UNCHANGED <<allocated, processes, cmd, listening, boot, stopper>>
----------------------------------------------------------------------------
(* The signal goroutine: StopAllServices.  IPC requests are still served   *)
(* while it runs and after it.                                             *)

\* Mutant: the names come from the routing table.
StopAllRouted ==
    /\ Serving
    /\ stopper.pc = "off"
    /\ stopper' = [pc |-> "stopping",
                   names |-> {n \in Names : \E d \in Domains :
                                routes[d] # NoTarget /\ routes[d].serviceName = n},
                   late |-> {}]
    /\ UNCHANGED <<allocated, routes, processes, cmd, listening, boot, req>>

StopAllBegin ==
    /\ Serving
    /\ stopper.pc = "off"
    /\ stopper' = [pc |-> "stopping", names |-> {n \in Names : processes[n] # NoCmd},
                   late |-> {}]
    /\ UNCHANGED <<allocated, routes, processes, cmd, listening, boot, req>>

StopAllStep(n) ==
    /\ stopper.pc = "stopping"
    /\ n \in stopper.names
    /\ StopService(n)
    /\ stopper' = [stopper EXCEPT !.names = @ \ {n}]
    /\ UNCHANGED <<allocated, routes, listening, boot, req>>

StopAllEnd ==
    /\ stopper.pc = "stopping"
    /\ stopper.names = {}
    /\ stopper' = [stopper EXCEPT !.pc = "stopped"]
    /\ UNCHANGED <<allocated, routes, processes, cmd, listening, boot, req>>
----------------------------------------------------------------------------
Init ==
    /\ allocated = {}
    /\ routes = [d \in Domains |-> NoTarget]
    /\ processes = [n \in Names |-> NoCmd]
    /\ cmd = [c \in Cmds |-> FreeCmd]
    /\ listening = {}
    /\ boot = [pc |-> "port", todo |-> ConfigNames, name |-> NoName, port |-> NoPort]
    /\ stopper = [pc |-> "off", names |-> {}, late |-> {}]
    /\ req = [h \in Handlers |-> Reply("idle")]

Boot == (\E n \in ConfigNames : BootPort(n)) \/ BootRoute \/ BootStart \/ BootDone

Add(h) == (\E d \in Domains : AddBegin(h, d)) \/ AddStart(h) \/ AddRelease(h) \/ AddFinish(h)

Remove(h) ==
    \/ \E d \in Domains : RemoveBegin(h, d)
    \/ RemoveStop(h)
    \/ RemoveRelease(h)
    \/ RemoveFinish(h)

StopAll == StopAllBegin \/ (\E n \in Names : StopAllStep(n)) \/ StopAllEnd

Child(c) == Bind(c) \/ Exit(c) \/ Waiter(c)

Next ==
    \/ Boot
    \/ \E h \in Handlers : Add(h) \/ Remove(h)
    \/ StopAll
    \/ \E c \in Cmds : Child(c)

Spec == Init /\ [][Next]_vars

\* The Go scheduler runs a waiter goroutine whose child has exited.
FairSpec == Spec /\ \A c \in Cmds : WF_vars(Waiter(c))
----------------------------------------------------------------------------
(* Properties *)

\* No request is in progress.
Quiet == \A h \in Handlers : req[h].pc \in Finished

\* The waiter of StartService deletes the map entry of a NAME.  That entry is
\* always the waiter's own command: a name is registered from the start of its
\* command until that command's waiter runs, so no second command can be
\* registered under it meanwhile and no running child is ever forgotten.
WaiterOwnsEntry ==
    /\ \A c \in Cmds : cmd[c].st # "free" => processes[cmd[c].name] = c
    /\ \A n \in Names : processes[n] # NoCmd =>
          cmd[processes[n]].st # "free" /\ cmd[processes[n]].name = n

\* StopAllServices works from a copy of the names taken under the lock and
\* stops them one by one without it.  Whatever restarts meanwhile, a child it
\* has not signalled is still on its list or was started after the copy.
StopAllCovers ==
    stopper.pc # "off" =>
        \A c \in Cmds : cmd[c].st = "running" /\ c \notin stopper.late => cmd[c].name \in stopper.names

\* Between requests, the port of every route is reserved in the port manager,
\* so GetFreePort cannot give it to another service while the proxy still
\* sends the old domain's traffic there.
RoutedPortsReserved ==
    Quiet => \A d \in Domains : routes[d] # NoTarget => routes[d].port \in allocated

\* "Manager tracks allocated ports to prevent overlap within Portless"
\* (portman.go): two children that are alive never have the same $PORT.
NoPortOverlap ==
    \A c1, c2 \in Cmds : c1 # c2 /\ Live(c1) /\ Live(c2) => cmd[c1].port # cmd[c2].port

\* A proxied request reaches only the child of the service the route names.
RoutesReachOwnService ==
    \A d \in Domains : \A c \in ServedBy(d) : cmd[c].name = GetTarget(d).serviceName

\* "Success! Service is now routed and running." (add.go): between requests,
\* every child that was not told to stop is where some route sends traffic.
RunningServicesRouted ==
    Quiet /\ Serving =>
        \A c \in Cmds : cmd[c].st = "running" =>
            \E d \in Domains : routes[d] = [serviceName |-> cmd[c].name, port |-> cmd[c].port]

\* "clean up state if process crashes" (supervisor.go): the name of a child
\* that exited becomes free again, so the service can be started once more.
CrashedNameFreed ==
    \A n \in Names : \A c \in Cmds :
        (processes[n] = c /\ cmd[c].st = "exited") ~> (processes[n] # c \/ boot.pc = "fatal")
============================================================================
