-------------------------------- MODULE Gate --------------------------------
(***************************************************************************)
(* What the relay asks of a request before it looks at it: Enforcer        *)
(* (src/GoTunnel/internal/security/policy.go) as wrapSecurity and          *)
(* handleTunnelRequest (relay/server.go) call it.                          *)
(*                                                                         *)
(* A request checks the network policy and the TLS policy, takes the       *)
(* limiter of its address under the mutex of the Enforcer, and asks that   *)
(* limiter after it has released the mutex; cleanupRateLimiters may delete *)
(* the limiter in between.  A limiter is therefore an object of its own,   *)
(* gaMap says which one an address has, and a request remembers the one    *)
(* it took.  Time is counted in ticks; a tick is worth RateP / RateQ of a  *)
(* token, so that the truncation of Allow is part of the model.            *)
(***************************************************************************)
EXTENDS Integers, Sequences, FiniteSets

CONSTANTS GaCall,               \* requests under way
          Addr,                 \* remote addresses
          BlockedAddr,          \* the addresses of BlockedCIDRs
          AllowedAddr,          \* the addresses of AllowedCIDRs; {}: not configured
          Conn,                 \* the TLS states of connections
          TlsPolicy,            \* the TLSPolicy
          Policy,               \* identifiers of policies
          RateP, RateQ, Burst,  \* RequestsPerSecond in tokens per tick, BurstSize
          StaleAge,             \* ticks after which a limiter is stale
          MaxAuditLog           \* maxAuditLog

\* A bucket fills up, the fraction that Allow truncates included, before it
\* is stale: 200 tokens at 100 per second against ten minutes in the relay.
ASSUME GaAssumption == /\ {RateP, RateQ, Burst, StaleAge, MaxAuditLog} \subseteq Nat \ {0}
                       /\ (Burst + 1) * RateQ =< StaleAge * RateP
                       /\ IsFiniteSet(Addr) /\ IsFiniteSet(GaCall)

VARIABLES gaObj,        \* gaObj[i]: a RateLimiter
          gaMap,        \* rateLimiters: the limiter of an address, 0 for none
          gaCall,       \* gaCall[c]: what request c works on
          gaLog,        \* auditLog
          gaPolicy,     \* policies: what a policy does, "none" without one
          gaIdeal,      \* gaIdeal[a]: what the envelope still admits from a,
                        \*   in parts of a token
          gaSince,      \* gaSince[a]: ticks since a request of a was admitted
          gaStarved     \* a refusal came long after the last admission

gaVars == <<gaObj, gaMap, gaCall, gaLog, gaPolicy, gaIdeal, gaSince, gaStarved>>

Obj == 1..(Cardinality(Addr) + Cardinality(GaCall))
MaxAge == StaleAge + 1
Envelope == Burst * RateQ + RateQ - 1
NoGate == [pc |-> "idle", addr |-> "none", obj |-> 0, event |-> "none"]
Action == {"deny", "log", "allow"}     \* a disabled policy allows
Event == {"network_blocked", "tls_violation", "rate_limit_exceeded", "policy_enforcement"}
Lesser(i, j) == IF i < j THEN i ELSE j

GaTypeOK ==
    /\ \A i \in Obj : gaObj[i].tokens \in 0..Burst /\ gaObj[i].age \in 0..MaxAge
    /\ gaMap \in [Addr -> Obj \cup {0}]
    /\ \A c \in GaCall : gaCall[c].pc \in {"idle", "limit", "allow", "log"}
    /\ gaLog \in Seq(Event) /\ Len(gaLog) =< MaxAuditLog
    /\ gaPolicy \in [Policy -> Action \cup {"none"}]

GaInit ==
    /\ gaObj = [i \in Obj |-> [tokens |-> 0, age |-> 0]]
    /\ gaMap = [a \in Addr |-> 0]
    /\ gaCall = [c \in GaCall |-> NoGate]
    /\ gaLog = <<>>
    /\ gaPolicy = [p \in Policy |-> "none"]
    /\ gaIdeal = [a \in Addr |-> Envelope]
    /\ gaSince = [a \in Addr |-> MaxAge]
    /\ gaStarved = FALSE

-----------------------------------------------------------------------------
\* EnforceNetworkPolicy: the blocked ranges, then the allowed ones.
EnforceNetworkPolicy(a) == a \notin BlockedAddr /\ (AllowedAddr # {} => a \in AllowedAddr)

\* EnforceTLSPolicy: version, cipher suite, client certificate, its name and
\* its alternative names.
EnforceTLSPolicy(t) ==
    /\ t.version >= TlsPolicy.minVersion
    /\ TlsPolicy.suites # {} => t.suite \in TlsPolicy.suites
    /\ TlsPolicy.requireClientCert =>
           /\ t.certificate
           /\ TlsPolicy.cns # {} => t.cn \in TlsPolicy.cns
           /\ TlsPolicy.sans # {} => TlsPolicy.sans \cap t.sans # {}

Denied(c, a, e) == gaCall' = [gaCall EXCEPT ![c] = [NoGate EXCEPT !.pc = "log", !.addr = a, !.event = e]]

\* wrapSecurity and the same two checks of handleTunnelRequest.  Neither
\* policy changes after NewEnforcer.
WrapSecurity(c, a, t) ==
    /\ gaCall[c].pc = "idle"
    /\ CASE ~EnforceNetworkPolicy(a) -> Denied(c, a, "network_blocked")
         [] EnforceNetworkPolicy(a) /\ ~EnforceTLSPolicy(t) -> Denied(c, a, "tls_violation")
         [] OTHER -> gaCall' = [gaCall EXCEPT ![c] = [NoGate EXCEPT !.pc = "limit", !.addr = a]]
    /\ UNCHANGED <<gaObj, gaMap, gaLog, gaPolicy, gaIdeal, gaSince, gaStarved>>

Held(i) == (\E a \in Addr : gaMap[a] = i) \/ (\E c \in GaCall : gaCall[c].obj = i)
Unused == CHOOSE i \in Obj : ~Held(i)
NewRateLimiter == [tokens |-> Burst, age |-> 0]

\* EnforceRateLimit up to its Unlock: the limiter of the address, a new one
\* when it has none.
TakeLimiter(c) ==
    LET a == gaCall[c].addr
        i == IF gaMap[a] = 0 THEN Unused ELSE gaMap[a]
    IN  /\ gaCall[c].pc = "limit"
        /\ gaCall' = [gaCall EXCEPT ![c] = [@ EXCEPT !.pc = "allow", !.obj = i]]
        /\ gaMap' = [gaMap EXCEPT ![a] = i]
        /\ gaObj' = IF gaMap[a] = 0 THEN [gaObj EXCEPT ![i] = NewRateLimiter] ELSE gaObj
        /\ UNCHANGED <<gaLog, gaPolicy, gaIdeal, gaSince, gaStarved>>

Refill(l) == (l.age * RateP) \div RateQ

\* The bucket keeps the time of its last refill.
RefilledKeepsTime(l) ==
    IF Refill(l) > 0 THEN [l EXCEPT !.tokens = Lesser(Burst, l.tokens + Refill(l))] ELSE l

\* The refill of Allow; lastRefill moves only when it is worth a token.
Refilled(l) ==
    IF Refill(l) > 0 THEN [tokens |-> Lesser(Burst, l.tokens + Refill(l)), age |-> 0] ELSE l

\* RateLimiter.Allow on the limiter the request took, and what EnforceRateLimit
\* does with its answer.  A request admitted by a limiter that cleanup has
\* deleted since is not charged to the envelope.
Allow(c) ==
    LET a == gaCall[c].addr
        i == gaCall[c].obj
        l == Refilled(gaObj[i])
    IN  /\ gaCall[c].pc = "allow"
        /\ IF l.tokens > 0
           THEN /\ gaObj' = [gaObj EXCEPT ![i] = [l EXCEPT !.tokens = @ - 1]]
                /\ gaCall' = [gaCall EXCEPT ![c] = NoGate]
                /\ gaIdeal' = IF gaMap[a] = i THEN [gaIdeal EXCEPT ![a] = @ - RateQ] ELSE gaIdeal
                /\ gaSince' = [gaSince EXCEPT ![a] = 0]
                /\ UNCHANGED gaStarved
           ELSE /\ gaObj' = [gaObj EXCEPT ![i] = l]
                /\ Denied(c, a, "rate_limit_exceeded")
                /\ gaStarved' = (gaStarved \/ gaSince[a] * RateP >= RateQ)
                /\ UNCHANGED <<gaIdeal, gaSince>>
        /\ UNCHANGED <<gaMap, gaLog, gaPolicy>>

\* The audit log keeps its newest entries.
Append1(log, e) == Append(IF Len(log) >= MaxAuditLog THEN Tail(log) ELSE log, e)

\* logEvent; the request is then answered.
LogEvent(c) ==
    /\ gaCall[c].pc = "log"
    /\ gaLog' = Append1(gaLog, gaCall[c].event)
    /\ gaCall' = [gaCall EXCEPT ![c] = NoGate]
    /\ UNCHANGED <<gaObj, gaMap, gaPolicy, gaIdeal, gaSince, gaStarved>>

\* AddPolicy and RemovePolicy (act = "none").
SetPolicy(p, act) ==
    /\ gaPolicy' = [gaPolicy EXCEPT ![p] = act]
    /\ UNCHANGED <<gaObj, gaMap, gaCall, gaLog, gaIdeal, gaSince, gaStarved>>

\* EnforcePolicy of a policy whose rules match; without a match, and for the
\* actions that are neither deny nor log, it changes nothing.
EnforcePolicy(c, p) ==
    /\ gaCall[c].pc = "idle"
    /\ gaPolicy[p] \in {"deny", "log"}
    /\ Denied(c, "none", "policy_enforcement")
    /\ UNCHANGED <<gaObj, gaMap, gaLog, gaPolicy, gaIdeal, gaSince, gaStarved>>

Stale(l) == l.age > StaleAge

\* cleanupRateLimiters, one locked pass of cleanupWorker.
CleanupRateLimiters ==
    /\ \E a \in Addr : gaMap[a] # 0 /\ Stale(gaObj[gaMap[a]])
    /\ gaMap' = [a \in Addr |-> IF gaMap[a] # 0 /\ Stale(gaObj[gaMap[a]]) THEN 0 ELSE gaMap[a]]
    /\ UNCHANGED <<gaObj, gaCall, gaLog, gaPolicy, gaIdeal, gaSince, gaStarved>>

\* A tick of the clock.  Ages stop at MaxAge: a limiter of that age is stale
\* and its next Allow fills it.
GaTick ==
    /\ gaObj' = [i \in Obj |-> IF Held(i) THEN [gaObj[i] EXCEPT !.age = Lesser(MaxAge, @ + 1)]
                               ELSE [tokens |-> 0, age |-> 0]]
    /\ gaIdeal' = [a \in Addr |-> Lesser(Envelope, gaIdeal[a] + RateP)]
    /\ gaSince' = [a \in Addr |-> Lesser(MaxAge, gaSince[a] + 1)]
    /\ UNCHANGED <<gaMap, gaCall, gaLog, gaPolicy, gaStarved>>

GaNext ==
    \/ \E c \in GaCall, a \in Addr, t \in Conn : WrapSecurity(c, a, t)
    \/ \E c \in GaCall : TakeLimiter(c) \/ Allow(c) \/ LogEvent(c)
    \/ \E p \in Policy, act \in Action \cup {"none"} : SetPolicy(p, act)
    \/ \E c \in GaCall, p \in Policy : EnforcePolicy(c, p)
    \/ CleanupRateLimiters
    \/ GaTick

GaSpec == GaInit /\ [][GaNext]_gaVars

-----------------------------------------------------------------------------
(***************************************************************************)
(* Properties.                                                             *)
(***************************************************************************)
\* However requests, cleanups and new limiters interleave, the requests of an
\* address that its registered limiter admits in any stretch of T ticks are
\* fewer than Burst + 1 + T * RateP / RateQ.  Allow truncates, a limiter is
\* deleted and made anew, full, only when its predecessor would have been full
\* too, and the one token over BurstSize is there: a full bucket keeps the time
\* of its last refill until a whole token is due.
RateBounded == \A a \in Addr : gaIdeal[a] >= 0

\* Allow refuses a request only when less than the time of one token has
\* passed since the last request of that address was admitted: asking too
\* often delays nobody for ever.
NeverStarved == ~gaStarved

\* Allow admits no more than the rate and the burst, and never refuses an address
\* that has waited for its token.
RateExact == RateBounded /\ NeverStarved
=============================================================================
