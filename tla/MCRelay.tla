------------------------------ MODULE MCRelay ------------------------------
(***************************************************************************)
(* A stream and the stream table of the multiplexer, and the parts of a    *)
(* relay beside its HTTP requests: admission, operational guards, the      *)
(* event feed, the TCP tunnels and the UDP tunnels.  They share no state:  *)
(* a behaviour is one of them, and active says of which.                   *)
(***************************************************************************)
EXTENDS MCMuxStream, MuxConnection, Gate, Operations, RelayEvents, Streams

VARIABLE active

\* A connection that the TLS policy refuses and one that it accepts.
MCConn == {[version |-> 12, suite |-> 1, certificate |-> FALSE, cn |-> "none", sans |-> {}],
           [version |-> 13, suite |-> 1, certificate |-> TRUE, cn |-> "a", sans |-> {"x", "y"}]}

MCTlsPolicy == [minVersion |-> 13, suites |-> {1}, requireClientCert |-> TRUE, cns |-> {"a"}, sans |-> {"x"}]

MCTypeOf == [r \in Requirement |-> IF r = "lat" THEN "latency" ELSE "scalability"]

\* The client opens two streams, the server one.
MCMaxOpen == [e \in Side |-> IF e = "client" THEN 2 ELSE 1]

\* Two datagrams of two peers.
MCPeerOf == <<"p", "q">>

MCInit ==
    /\ active \in {"stream", "connection", "gate", "operations", "events", "tcp", "udp"}
    /\ Init /\ CnInit /\ GaInit /\ OpInit /\ EvInit /\ StInit
    /\ active # "tcp" => ~stQuic

MCNext ==
    \/ active = "stream" /\ Next /\ UNCHANGED <<active, cnVars, gaVars, opVars, evVars, stVars>>
    \/ active = "connection" /\ CnNext /\ UNCHANGED <<active, vars, gaVars, opVars, evVars, stVars>>
    \/ active = "gate" /\ GaNext /\ UNCHANGED <<active, vars, cnVars, opVars, evVars, stVars>>
    \/ active = "operations" /\ OpNext /\ UNCHANGED <<active, vars, cnVars, gaVars, evVars, stVars>>
    \/ active = "events" /\ EvNext /\ UNCHANGED <<active, vars, cnVars, gaVars, opVars, stVars>>
    \/ active = "tcp" /\ TcpNext /\ UNCHANGED <<active, vars, cnVars, gaVars, opVars, evVars>>
    \/ active = "udp" /\ UdpNext /\ UNCHANGED <<active, vars, cnVars, gaVars, opVars, evVars>>

MCSpec == MCInit /\ [][MCNext]_<<active, vars, cnVars, gaVars, opVars, evVars, stVars>>

\* The type invariants of the components.
RelayTypeOK == TypeOK /\ CnTypeOK /\ GaTypeOK /\ OpTypeOK /\ EvTypeOK /\ StTypeOK
=============================================================================
