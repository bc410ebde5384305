--------------------------- MODULE MCRelayHTTP ---------------------------
(* Instances of RelayHTTP for TLC. *)
EXTENDS RelayHTTP

\* A daemon that starts again asks for the same subdomain.
SameHosts == [t \in Tunnels |-> Hosts]

CONSTANTS First, Quic

\* A breakpoint that matches one of the requests.
FirstOnly == {{First}}

\* One daemon reaches the relay by QUIC, the others cannot.
OneQuic == [t \in Tunnels |-> IF t = Quic THEN {"quic"} ELSE {"poll"}]

AnyTransport == [t \in Tunnels |-> {"poll", "quic"}]
==========================================================================
