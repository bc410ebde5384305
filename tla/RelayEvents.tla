---------------------------- MODULE RelayEvents ----------------------------
(***************************************************************************)
(* Collaboration sessions and the event feed of the relay's dashboard      *)
(* (src/GoTunnel/internal/relay/phase2.go): createSession, joinSession,    *)
(* addAnnotation, emitEvent and handleDashboardEvents.                     *)
(*                                                                         *)
(* emitEvent stores an event and copies the subscribers under the mutex,   *)
(* and sends to the copies after it.  A dashboard that leaves removes its  *)
(* channel under the mutex and closes it after that; a send to a closed    *)
(* channel panics, which net/http recovers in a handler and nobody         *)
(* recovers in the goroutine joinSession starts.                           *)
(***************************************************************************)
EXTENDS Naturals, Sequences, Functions, FiniteSets

CONSTANTS Dash,         \* dashboards; one connects and leaves once
          CoSession,    \* sessions of collaboration, in the order of creation
          Person,       \* names of participants
          ChanCap,      \* capacity of a subscriber's channel
          MaxEvents,    \* length of the history of events
          MaxEvent      \* bound on events

ASSUME EvAssumption == {ChanCap, MaxEvents, MaxEvent} \subseteq Nat \ {0}

VARIABLES evLog,        \* events, newest first
          evEmit,       \* evEmit[k]: the call of emitEvent for event k
          evMade,       \* events made so far
          evDash,       \* evDash[d]: the handler of dashboard d
          evLost,       \* evLost[d]: events d's channel had no room for
          evSessions,   \* evSessions[x]: the participants; <<>>: no session
          evUp          \* the process runs

evVars == <<evLog, evEmit, evMade, evDash, evLost, evSessions, evUp>>

EventId == 1..MaxEvent
NoEmit == [pc |-> "none", left |-> {}, by |-> "none"]
Away == [pc |-> "away", old |-> <<>>, chan |-> <<>>, seen |-> <<>>]

EvTypeOK ==
    /\ evLog \in Seq(EventId) /\ Len(evLog) =< MaxEvents
    /\ \A k \in EventId : /\ evEmit[k].pc \in {"none", "emit", "send", "done", "panicked"}
                          /\ evEmit[k].left \subseteq Dash
    /\ \A d \in Dash : /\ evDash[d].pc \in {"away", "history", "live", "leaving", "closed"}
                       /\ Len(evDash[d].chan) =< ChanCap
    /\ evSessions \in [CoSession -> Seq(Person)]

EvInit ==
    /\ evLog = <<>>
    /\ evEmit = [k \in EventId |-> NoEmit]
    /\ evMade = 0
    /\ evDash = [d \in Dash |-> Away]
    /\ evLost = [d \in Dash |-> {}]
    /\ evSessions = [x \in CoSession |-> <<>>]
    /\ evUp = TRUE

-----------------------------------------------------------------------------
Emitting(by) ==
    /\ evMade < MaxEvent
    /\ evMade' = evMade + 1
    /\ evEmit' = [evEmit EXCEPT ![evMade + 1] = [NoEmit EXCEPT !.pc = "emit", !.by = by]]

\* createSession: the session and its invite, then emitEvent.  (The tunnel of
\* the request exists and may be shared; the invite of x is x.)
CreateSession(x, owner) ==
    /\ evUp /\ evSessions[x] = <<>>
    /\ evSessions' = [evSessions EXCEPT ![x] = <<owner>>]
    /\ Emitting("handler")
    /\ UNCHANGED <<evLog, evDash, evLost, evUp>>

\* joinSession of a name that has not joined yet, and `go emitEvent`; a name
\* that has is answered without an event.
JoinSession(x, name) ==
    /\ evUp /\ evSessions[x] # <<>>
    /\ name \notin Range(evSessions[x])
    /\ evSessions' = [evSessions EXCEPT ![x] = Append(@, name)]
    /\ Emitting("goroutine")
    /\ UNCHANGED <<evLog, evDash, evLost, evUp>>

\* addAnnotation, and every other handler whose work ends in emitEvent.
AddAnnotation ==
    /\ evUp
    /\ Emitting("handler")
    /\ UNCHANGED <<evLog, evDash, evLost, evSessions, evUp>>

Subscribers == {d \in Dash : evDash[d].pc \in {"history", "live"}}

\* emitEvent up to its Unlock.
StoreEvent(k) ==
    /\ evUp /\ evEmit[k].pc = "emit"
    /\ evLog' = SubSeq(<<k>> \o evLog, 1, IF Len(evLog) < MaxEvents THEN Len(evLog) + 1 ELSE MaxEvents)
    /\ evEmit' = [evEmit EXCEPT ![k].pc = IF Subscribers = {} THEN "done" ELSE "send", ![k].left = Subscribers]
    /\ UNCHANGED <<evMade, evDash, evLost, evSessions, evUp>>

Sent(k, d) == LET rest == evEmit[k].left \ {d}
              IN  [evEmit EXCEPT ![k].left = rest, ![k].pc = IF rest = {} THEN "done" ELSE "send"]

\* The loop stops at a subscriber that has no room.
SendEventStops(k, d) ==
    /\ evUp /\ evEmit[k].pc = "send" /\ d \in evEmit[k].left
    /\ CASE evDash[d].pc = "closed" ->
                /\ evEmit' = [evEmit EXCEPT ![k].pc = "panicked"]
                /\ evUp' = (evEmit[k].by = "handler")
                /\ UNCHANGED <<evDash, evLost>>
         [] evDash[d].pc # "closed" /\ Len(evDash[d].chan) < ChanCap ->
                /\ evDash' = [evDash EXCEPT ![d].chan = Append(@, k)]
                /\ evEmit' = Sent(k, d)
                /\ UNCHANGED <<evLost, evUp>>
         [] OTHER ->
                /\ evLost' = [evLost EXCEPT ![d] = @ \cup {k}]
                /\ evEmit' = [evEmit EXCEPT ![k].left = {}, ![k].pc = "done"]
                /\ UNCHANGED <<evDash, evUp>>
    /\ UNCHANGED <<evLog, evMade, evSessions>>

\* One round of emitEvent's loop over its copy of the subscribers, in the order
\* the map gave them: send, drop when the channel is full, panic when it is
\* closed.
SendEvent(k, d) ==
    /\ evUp /\ evEmit[k].pc = "send" /\ d \in evEmit[k].left
    /\ CASE evDash[d].pc = "closed" ->
                /\ evEmit' = [evEmit EXCEPT ![k].pc = "panicked"]
                /\ evUp' = (evEmit[k].by = "handler")
                /\ UNCHANGED <<evDash, evLost>>
         [] evDash[d].pc # "closed" /\ Len(evDash[d].chan) < ChanCap ->
                /\ evDash' = [evDash EXCEPT ![d].chan = Append(@, k)]
                /\ evEmit' = Sent(k, d)
                /\ UNCHANGED <<evLost, evUp>>
         [] OTHER ->
                /\ evLost' = [evLost EXCEPT ![d] = @ \cup {k}]
                /\ evEmit' = Sent(k, d)
                /\ UNCHANGED <<evDash, evUp>>
    /\ UNCHANGED <<evLog, evMade, evSessions>>

\* handleDashboardEvents up to its Unlock: the channel is registered and the
\* history copied in one locked section.
Subscribe(d) ==
    /\ evUp /\ evDash[d].pc = "away"
    /\ evDash' = [evDash EXCEPT ![d] = [Away EXCEPT !.pc = "history", !.old = evLog]]
    /\ UNCHANGED <<evLog, evEmit, evMade, evLost, evSessions, evUp>>

\* The loop over the history, which is kept newest first.
OldestFirst(history) == [i \in 1..Len(history) |-> history[Len(history) + 1 - i]]

\* The history, oldest event first.
WriteHistory(d) ==
    /\ evUp /\ evDash[d].pc = "history"
    /\ evDash' = [evDash EXCEPT ![d].pc = "live", ![d].seen = OldestFirst(evDash[d].old)]
    /\ UNCHANGED <<evLog, evEmit, evMade, evLost, evSessions, evUp>>

\* An event out of the channel.
WriteEvent(d) ==
    /\ evUp /\ evDash[d].pc = "live" /\ evDash[d].chan # <<>>
    /\ evDash' = [evDash EXCEPT ![d].chan = Tail(@), ![d].seen = Append(@, Head(evDash[d].chan))]
    /\ UNCHANGED <<evLog, evEmit, evMade, evLost, evSessions, evUp>>

\* The request ends: the deferred function removes the channel, ...
Unsubscribe(d) ==
    /\ evUp /\ evDash[d].pc = "live"
    /\ evDash' = [evDash EXCEPT ![d].pc = "leaving"]
    /\ UNCHANGED <<evLog, evEmit, evMade, evLost, evSessions, evUp>>

\* ... and closes it.
CloseChannel(d) ==
    /\ evUp /\ evDash[d].pc = "leaving"
    /\ evDash' = [evDash EXCEPT ![d] = [Away EXCEPT !.pc = "closed"]]
    /\ UNCHANGED <<evLog, evEmit, evMade, evLost, evSessions, evUp>>

EvNext ==
    \/ \E x \in CoSession, n \in Person : CreateSession(x, n) \/ JoinSession(x, n)
    \/ AddAnnotation
    \/ \E k \in EventId : StoreEvent(k)
    \/ \E k \in EventId, d \in Dash : SendEvent(k, d)
    \/ \E d \in Dash : Subscribe(d) \/ WriteHistory(d) \/ WriteEvent(d) \/ Unsubscribe(d) \/ CloseChannel(d)

EvSpec == EvInit /\ [][EvNext]_evVars

-----------------------------------------------------------------------------
(***************************************************************************)
(* Properties.                                                             *)
(***************************************************************************)
\* A connected dashboard misses no event: each one that emitEvent has stored
\* since the dashboard registered is in its channel or written out, or is still
\* to be sent, or found the channel full, or its emitter died on the closed
\* channel of another dashboard.
FeedComplete ==
    \A d \in Subscribers, k \in EventId :
        k \in Range(evLog) =>
            \/ k \in Range(evDash[d].old) \cup Range(evDash[d].seen) \cup Range(evDash[d].chan)
            \/ k \in evLost[d]
            \/ evEmit[k].pc = "panicked" \/ d \in evEmit[k].left

\* A dashboard is shown no event twice, although the history it starts with and
\* the events of its channel overlap in time.
SeenOnce == \A d \in Dash : IsInjective(evDash[d].seen \o evDash[d].chan)

\* A session lists every participant once, however often and concurrently a
\* name joins.
JoinedOnce == \A x \in CoSession : IsInjective(evSessions[x])

\* handleDashboardEvents shows a dashboard every event, and none twice.
FeedExact == FeedComplete /\ SeenOnce
=============================================================================
