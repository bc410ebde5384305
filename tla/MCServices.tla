---------------------------- MODULE MCServices ----------------------------
(***************************************************************************)
(* A stream of the multiplexer, the broker, the certificates and the users *)
(* of a relay, and the DNS records of domains.  They share no state: a     *)
(* behaviour is one of them, and active says of which.                     *)
(***************************************************************************)
EXTENDS MCMuxStream, Broker, Certificates, Auth, Domains

VARIABLE active

\* Two backup codes.
MCCode == <<1, 2>>

MCRegionOf == [r \in Relay |-> "eu"]

\* A zone in a zone; a domain that is a zone, one two labels below it, and one
\* whose relative name ends in the name of the zone.
MCZone == {<<"z">>, <<"a", "z">>}
MCDomain == {<<"z">>, <<"b", "a", "z">>, <<"z", "z">>}

MCInit == /\ active \in {"stream", "broker", "certificates", "auth", "domains"}
          /\ Init /\ BrInit /\ CeInit /\ AuInit /\ DnInit
          /\ active # "broker" => ~brFile /\ ~brPg
          /\ active # "domains" => dnProvider = "memory" /\ dnZones = {}

MCNext ==
    \/ active = "stream" /\ Next /\ UNCHANGED <<active, brVars, ceVars, auVars, dnVars>>
    \/ active = "broker" /\ BrNext /\ UNCHANGED <<active, vars, ceVars, auVars, dnVars>>
    \/ active = "certificates" /\ CeNext /\ UNCHANGED <<active, vars, brVars, auVars, dnVars>>
    \/ active = "auth" /\ AuNext /\ UNCHANGED <<active, vars, brVars, ceVars, dnVars>>
    \/ active = "domains" /\ DnNext /\ UNCHANGED <<active, vars, brVars, ceVars, auVars>>

MCSpec == MCInit /\ [][MCNext]_<<active, vars, brVars, ceVars, auVars, dnVars>>

\* The type invariants of the components.
ServicesTypeOK == BrTypeOK /\ CeTypeOK /\ AuTypeOK /\ DnTypeOK
=============================================================================
