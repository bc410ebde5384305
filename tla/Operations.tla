----------------------------- MODULE Operations -----------------------------
(***************************************************************************)
(* Operational guards: CircuitBreaker of src/GoTunnel/internal/ops         *)
(* (hardening.go), and the Validator of non-functional requirements        *)
(* (internal/nfr/validator.go) that the relay feeds with each answered     *)
(* request.                                                                *)
(*                                                                         *)
(* Execute holds the mutex of the breaker before and after the call it     *)
(* guards, not during it, so a call can return to a breaker that other     *)
(* calls have opened, probed or closed meanwhile.                          *)
(***************************************************************************)
EXTENDS Naturals, Sequences

CONSTANTS OpCall,               \* calls under way
          FailureThreshold, SuccessThreshold,
          Requirement,          \* identifiers of requirements
          TypeOf,               \* TypeOf[r]: the NFRType of r
          Threshold, Value,     \* the threshold of all of them; measured values
          MaxHistory,           \* length of a metric history
          NfrStale              \* worker rounds after which a status is stale

ASSUME OpAssumption == {FailureThreshold, SuccessThreshold, MaxHistory, NfrStale} \subseteq Nat \ {0}

VARIABLES cbState, cbFailures, cbSuccesses,
          cbExpired,    \* the timeout has passed since lastFailure
          cbCall,       \* cbCall[c]: "idle", or "calling" while fn runs
          cbStreak,     \* failures that returned since the last success did
          nfReq,        \* requirements, status "absent" when not registered
          nfHist        \* metrics: the histories

opVars == <<cbState, cbFailures, cbSuccesses, cbExpired, cbCall, cbStreak, nfReq, nfHist>>

NoReq == [status |-> "absent", age |-> 0]
MaxNfrAge == NfrStale + 1

OpTypeOK ==
    /\ cbState \in {"closed", "open", "half-open"}
    /\ cbSuccesses \in 0..SuccessThreshold
    /\ cbCall \in [OpCall -> {"idle", "calling"}]
    /\ nfReq \in [Requirement -> [status : {"absent", "unknown", "passing", "failing"}, age : 0..MaxNfrAge]]
    /\ \A r \in Requirement : Len(nfHist[r]) =< MaxHistory

OpInit ==
    /\ cbState = "closed" /\ cbFailures = 0 /\ cbSuccesses = 0 /\ cbExpired = FALSE
    /\ cbCall = [c \in OpCall |-> "idle"]
    /\ cbStreak = 0
    /\ nfReq = [r \in Requirement |-> NoReq]
    /\ nfHist = [r \in Requirement |-> <<>>]

cbVars == <<cbState, cbFailures, cbSuccesses, cbExpired, cbCall, cbStreak>>
nfVars == <<nfReq, nfHist>>
CapStreak(n) == IF n > FailureThreshold THEN FailureThreshold ELSE n

-----------------------------------------------------------------------------
\* Execute up to the call of fn.  An open breaker answers at once until its
\* timeout has passed, and then lets every caller through.
ExecuteBegin(c) ==
    /\ cbCall[c] = "idle"
    /\ cbState = "open" => cbExpired
    /\ cbCall' = [cbCall EXCEPT ![c] = "calling"]
    /\ cbState' = IF cbState = "open" THEN "half-open" ELSE cbState
    /\ cbSuccesses' = IF cbState = "open" THEN 0 ELSE cbSuccesses
    /\ UNCHANGED <<cbFailures, cbExpired, cbStreak, nfVars>>

ExecuteFailsLate(c) ==
    /\ cbCall[c] = "calling"
    /\ cbCall' = [cbCall EXCEPT ![c] = "idle"]
    /\ cbFailures' = CapStreak(cbFailures + 1)
    /\ cbExpired' = FALSE
    /\ cbState' = IF cbFailures + 1 > FailureThreshold THEN "open" ELSE cbState
    /\ cbStreak' = CapStreak(cbStreak + 1)
    /\ UNCHANGED <<cbSuccesses, nfVars>>

\* fn failed.  failureCount is counted up to its threshold: only whether it has
\* reached the threshold is asked of it.
ExecuteFails(c) ==
    /\ cbCall[c] = "calling"
    /\ cbCall' = [cbCall EXCEPT ![c] = "idle"]
    /\ cbFailures' = CapStreak(cbFailures + 1)
    /\ cbExpired' = FALSE
    /\ cbState' = IF cbFailures + 1 >= FailureThreshold THEN "open" ELSE cbState
    /\ cbStreak' = CapStreak(cbStreak + 1)
    /\ UNCHANGED <<cbSuccesses, nfVars>>

\* fn succeeded.  In a half-open breaker the success is counted, also when the
\* call began before the breaker opened; otherwise failureCount is cleared,
\* also while the breaker is open.
ExecuteSucceeds(c) ==
    /\ cbCall[c] = "calling"
    /\ cbCall' = [cbCall EXCEPT ![c] = "idle"]
    /\ IF cbState = "half-open"
       THEN /\ cbSuccesses' = cbSuccesses + 1
            /\ cbState' = IF cbSuccesses + 1 >= SuccessThreshold THEN "closed" ELSE cbState
            /\ cbFailures' = IF cbSuccesses + 1 >= SuccessThreshold THEN 0 ELSE cbFailures
       ELSE /\ cbFailures' = 0
            /\ UNCHANGED <<cbState, cbSuccesses>>
    /\ cbStreak' = 0
    /\ UNCHANGED <<cbExpired, nfVars>>

TimeoutPasses ==
    /\ cbState = "open" /\ ~cbExpired
    /\ cbExpired' = TRUE
    /\ UNCHANGED <<cbState, cbFailures, cbSuccesses, cbCall, cbStreak, nfVars>>

-----------------------------------------------------------------------------
\* AddRequirement and RemoveRequirement; neither touches the history.
AddRequirement(r) ==
    /\ nfReq[r] = NoReq
    /\ nfReq' = [nfReq EXCEPT ![r] = [status |-> "unknown", age |-> MaxNfrAge]]
    /\ UNCHANGED <<cbVars, nfHist>>

RemoveRequirement(r) ==
    /\ nfReq' = [nfReq EXCEPT ![r] = NoReq]
    /\ UNCHANGED <<cbVars, nfHist>>

\* validateMetric: latency and recovery must stay at or below the threshold,
\* the others at or above it.
Passing(r, v) == IF TypeOf[r] \in {"latency", "recovery"} THEN v =< Threshold ELSE v >= Threshold
Verdict(r, v) == IF Passing(r, v) THEN "passing" ELSE "failing"

\* The history keeps its newest MaxHistory values.
Recorded(h, v) == Append(IF Len(h) >= MaxHistory THEN Tail(h) ELSE h, v)

\* RecordMetric, which ValidateLatency, ValidateScalability and the others call.
RecordMetric(r, v) ==
    /\ nfReq[r].status # "absent"
    /\ nfHist' = [nfHist EXCEPT ![r] = Recorded(@, v)]
    /\ nfReq' = [nfReq EXCEPT ![r] = [status |-> Verdict(r, v), age |-> 0]]
    /\ UNCHANGED cbVars

\* A round of validationWorker, every 30 seconds: checkRequirements.
CheckRequirements ==
    /\ nfReq' = [r \in Requirement |->
                    LET older == IF nfReq[r].age < MaxNfrAge THEN nfReq[r].age + 1 ELSE MaxNfrAge
                    IN  IF nfReq[r].status = "absent" THEN NoReq
                        ELSE [status |-> IF older > NfrStale THEN "unknown" ELSE nfReq[r].status,
                              age |-> older]]
    /\ UNCHANGED <<cbVars, nfHist>>

OpNext ==
    \/ \E c \in OpCall : ExecuteBegin(c) \/ ExecuteFails(c) \/ ExecuteSucceeds(c)
    \/ TimeoutPasses
    \/ \E r \in Requirement : AddRequirement(r) \/ RemoveRequirement(r)
    \/ \E r \in Requirement, v \in Value : RecordMetric(r, v)
    \/ CheckRequirements

OpSpec == OpInit /\ [][OpNext]_opVars

-----------------------------------------------------------------------------
(***************************************************************************)
(* Properties.                                                             *)
(***************************************************************************)
\* Once FailureThreshold guarded calls have failed with no success returning
\* in between, the breaker of Execute is not closed, whatever the order in
\* which calls that began in other states of the breaker return.
BreakerTrips == cbStreak >= FailureThreshold => cbState # "closed"

Latest(metrics) == metrics[Len(metrics)]

\* A requirement that Validate reports as passing or failing is backed by the
\* newest metric GetMetrics returns for it, also when the history is full and
\* when the requirement was removed and added again.
StatusBacked ==
    \A r \in Requirement : nfReq[r].status \in {"passing", "failing"} =>
        nfHist[r] # <<>> /\ Verdict(r, Latest(nfHist[r])) = nfReq[r].status
=============================================================================
