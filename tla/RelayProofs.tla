----------------------------- MODULE RelayProofs -----------------------------
\* Proofs about three parts of the relay that share no state.  The dashboards' event
\* feed (RelayEvents): for any number of dashboards and events and any capacity of
\* the channels and of the log, an event that was stored is not lost without one of
\* the two causes the code has for it, and no dashboard is shown an event twice.
\* The circuit breaker and the requirements (Operations), for any thresholds.
\* The ring buffer (RingBuffer), which implements ByteQueue for every size and every
\* set of bytes.
EXTENDS RelayEvents, Operations, RingBuffer, SequenceTheorems, TLAPS

-----------------------------------------------------------------------------
\* The event feed.

\* What Append adds to the elements of a sequence (evLog, a channel, what a
\* dashboard has been shown).
LEMMA RangeAppend == ASSUME NEW S, NEW s \in Seq(S), NEW x \in S
                     PROVE  /\ Append(s, x) \in Seq(S)
                            /\ Range(Append(s, x)) = Range(s) \cup {x}
<1>1. /\ Append(s, x) \in Seq(S) /\ Len(Append(s, x)) = Len(s) + 1 /\ Append(s, x)[Len(s) + 1] = x
      /\ \A i \in 1..Len(s) : Append(s, x)[i] = s[i]
  OBVIOUS
<1>2. DOMAIN Append(s, x) = 1..(Len(s) + 1) /\ DOMAIN s = 1..Len(s) /\ Len(s) \in Nat
  BY <1>1
<1>3. ASSUME NEW y \in Range(Append(s, x)) PROVE y \in Range(s) \cup {x}
  <2>1. PICK i \in 1..(Len(s) + 1) : y = Append(s, x)[i]
    BY <1>2, Zenon DEF Range
  <2>2. CASE i = Len(s) + 1
    BY <1>1, <2>1, <2>2, Zenon
  <2>3. CASE i # Len(s) + 1
    <3>1. i \in 1..Len(s)
      BY <1>2, <2>3
    <3> QED
      BY <1>1, <1>2, <2>1, <3>1, Zenon DEF Range
  <2> QED
    BY <2>2, <2>3, Zenon
<1>4. Range(s) \subseteq Range(Append(s, x))
  <2> SUFFICES ASSUME NEW i \in 1..Len(s) PROVE s[i] \in Range(Append(s, x))
    BY <1>2, Zenon DEF Range
  <2>1. i \in DOMAIN Append(s, x) /\ Append(s, x)[i] = s[i]
    BY <1>1, <1>2
  <2> QED
    BY <2>1, Zenon DEF Range
<1>5. x \in Range(Append(s, x))
  <2>1. Len(s) + 1 \in DOMAIN Append(s, x)
    BY <1>2
  <2> QED
    BY <1>1, <2>1, Zenon DEF Range
<1> QED
  BY <1>1, <1>3, <1>4, <1>5, Zenon

\* A receive takes the first element and only it.
LEMMA RangeTail == ASSUME NEW S, NEW s \in Seq(S), s # <<>>
                   PROVE  /\ Tail(s) \in Seq(S) /\ Head(s) \in S
                          /\ Range(s) = {Head(s)} \cup Range(Tail(s))
<1>1. /\ Tail(s) \in Seq(S) /\ Head(s) \in S /\ Head(s) = s[1]
      /\ Len(Tail(s)) = Len(s) - 1 /\ \A i \in 1..(Len(s) - 1) : Tail(s)[i] = s[i + 1]
  OBVIOUS
<1>2. ASSUME NEW y \in Range(s) PROVE y \in {Head(s)} \cup Range(Tail(s))
  <2>1. PICK i \in 1..Len(s) : y = s[i]
    BY DEF Range
  <2>2. CASE i = 1
    BY <1>1, <2>1, <2>2, Zenon
  <2>3. CASE i # 1
    <3>1. i - 1 \in 1..(Len(s) - 1) /\ y = Tail(s)[i - 1]
      BY <1>1, <2>1, <2>3
    <3>2. DOMAIN Tail(s) = 1..(Len(s) - 1)
      BY <1>1
    <3> QED
      BY <3>1, <3>2, Zenon DEF Range
  <2> QED
    BY <2>2, <2>3, Zenon
<1>3. ASSUME NEW y \in Range(Tail(s)) PROVE y \in Range(s)
  <2>1. PICK i \in 1..(Len(s) - 1) : y = s[i + 1]
    BY <1>1 DEF Range
  <2> QED
    BY <2>1 DEF Range
<1>4. Head(s) \in Range(s)
  BY <1>1 DEF Range
<1> QED
  BY <1>1, <1>2, <1>3, <1>4, Zenon

\* A sequence without repetitions stays so when a new element is appended ...
LEMMA InjAppend == ASSUME NEW S, NEW s \in Seq(S), NEW x \in S, IsInjective(s), x \notin Range(s)
                   PROVE  IsInjective(Append(s, x))
  BY DEF IsInjective, Range

\* ... when its first element is taken ...
LEMMA InjTail == ASSUME NEW S, NEW s \in Seq(S), s # <<>>, IsInjective(s)
                 PROVE  IsInjective(Tail(s)) /\ Head(s) \notin Range(Tail(s))
<1>1. /\ Tail(s) \in Seq(S) /\ Head(s) = s[1]
      /\ Len(Tail(s)) = Len(s) - 1 /\ \A i \in 1..(Len(s) - 1) : Tail(s)[i] = s[i + 1]
  OBVIOUS
<1> QED
  BY <1>1 DEF IsInjective, Range

\* ... and when another one, with no element in common, is put behind it.
LEMMA InjConcat == ASSUME NEW S, NEW s \in Seq(S), NEW t \in Seq(S), IsInjective(s), IsInjective(t),
                          Range(s) \cap Range(t) = {}
                   PROVE  IsInjective(s \o t)
<1>1. /\ s \o t \in Seq(S) /\ Len(s \o t) = Len(s) + Len(t)
      /\ \A i \in 1..Len(s) : (s \o t)[i] = s[i] /\ s[i] \in Range(s)
      /\ \A i \in (Len(s) + 1)..(Len(s) + Len(t)) :
            i - Len(s) \in 1..Len(t) /\ (s \o t)[i] = t[i - Len(s)]
  BY DEF Range
<1>2. \A i \in 1..Len(t) : t[i] \in Range(t)
  BY DEF Range
<1> SUFFICES ASSUME NEW i \in 1..(Len(s) + Len(t)), NEW j \in 1..(Len(s) + Len(t)), (s \o t)[i] = (s \o t)[j]
             PROVE  i = j
  BY <1>1 DEF IsInjective
<1>3. CASE i <= Len(s) /\ j <= Len(s)
  <2>1. i \in DOMAIN s /\ j \in DOMAIN s /\ s[i] = s[j]
    BY <1>1, <1>3
  <2> QED
    BY <2>1, Zenon DEF IsInjective
<1>4. CASE i > Len(s) /\ j > Len(s)
  <2>1. i - Len(s) \in DOMAIN t /\ j - Len(s) \in DOMAIN t /\ t[i - Len(s)] = t[j - Len(s)]
    BY <1>1, <1>4
  <2>2. i - Len(s) = j - Len(s)
    BY <2>1, Zenon DEF IsInjective
  <2> QED
    BY <2>2
<1>5. CASE i <= Len(s) /\ j > Len(s)
  BY <1>1, <1>2, <1>5
<1>6. CASE i > Len(s) /\ j <= Len(s)
  BY <1>1, <1>2, <1>6
<1> QED
  BY <1>3, <1>4, <1>5, <1>6

\* OldestFirst keeps the elements, each once: the history goes out oldest first.
LEMMA OldestFirstFacts == ASSUME NEW S, NEW s \in Seq(S)
                      PROVE  /\ OldestFirst(s) \in Seq(S)
                             /\ Range(OldestFirst(s)) = Range(s)
                             /\ IsInjective(s) => IsInjective(OldestFirst(s))
<1>1. OldestFirst(s) \in Seq(S) /\ Len(OldestFirst(s)) = Len(s) /\ \A i \in 1..Len(s) : OldestFirst(s)[i] = s[Len(s) - i + 1]
  BY DEF OldestFirst
<1>2. Range(OldestFirst(s)) \subseteq Range(s)
  <2> SUFFICES ASSUME NEW i \in 1..Len(s) PROVE OldestFirst(s)[i] \in Range(s)
    BY Zenon DEF Range, OldestFirst
  <2>1. Len(s) - i + 1 \in DOMAIN s /\ OldestFirst(s)[i] = s[Len(s) - i + 1]
    BY <1>1
  <2> QED
    BY <2>1, Zenon DEF Range
<1>3. Range(s) \subseteq Range(OldestFirst(s))
  <2> SUFFICES ASSUME NEW i \in 1..Len(s) PROVE s[i] \in Range(OldestFirst(s))
    BY DEF Range
  <2>1. Len(s) - i + 1 \in 1..Len(s) /\ OldestFirst(s)[Len(s) - i + 1] = s[i]
    BY <1>1
  <2> QED
    BY <1>1, <2>1 DEF Range
<1>4. IsInjective(s) => IsInjective(OldestFirst(s))
  <2> SUFFICES ASSUME IsInjective(s), NEW i \in 1..Len(s), NEW j \in 1..Len(s), OldestFirst(s)[i] = OldestFirst(s)[j]
               PROVE  i = j
    BY <1>1 DEF IsInjective
  <2>1. /\ Len(s) - i + 1 \in DOMAIN s /\ Len(s) - j + 1 \in DOMAIN s
        /\ s[Len(s) - i + 1] = s[Len(s) - j + 1]
    BY <1>1
  <2>2. Len(s) - i + 1 = Len(s) - j + 1
    BY <2>1, Zenon DEF IsInjective
  <2> QED
    BY <2>2
<1> QED
  BY <1>1, <1>2, <1>3, <1>4, Zenon

\* The newest events of a history with one more.
LEMMA Pushed == ASSUME NEW S, NEW s \in Seq(S), NEW x \in S, NEW len \in 1..(Len(s) + 1)
                PROVE  LET t == SubSeq(<<x>> \o s, 1, len)
                       IN  /\ t \in Seq(S)
                           /\ Range(t) \subseteq Range(s) \cup {x}
                           /\ IsInjective(s) /\ x \notin Range(s) => IsInjective(t)
<1> DEFINE u == <<x>> \o s
           t == SubSeq(u, 1, len)
<1>1. /\ u \in Seq(S) /\ Len(u) = Len(s) + 1 /\ u[1] = x
      /\ \A i \in 1..Len(s) : u[i + 1] = s[i]
  OBVIOUS
<1>2. \A i \in 2..Len(u) : u[i] = s[i - 1] /\ i - 1 \in 1..Len(s)
  BY <1>1
<1> HIDE DEF u
<1>3. t \in Seq(S) /\ Len(t) = len /\ \A i \in 1..len : t[i] = u[i]
  BY <1>1
<1> HIDE DEF t
<1>4. Range(t) \subseteq Range(s) \cup {x}
  <2> SUFFICES ASSUME NEW i \in 1..len PROVE t[i] \in Range(s) \cup {x}
    BY <1>3 DEF Range
  <2>1. CASE i = 1
    BY <1>1, <1>3, <2>1, Zenon
  <2>2. CASE i # 1
    BY <1>1, <1>2, <1>3, <2>2 DEF Range
  <2> QED
    BY <2>1, <2>2, Zenon
<1>5. ASSUME IsInjective(s), x \notin Range(s) PROVE IsInjective(t)
  <2> SUFFICES ASSUME NEW i \in 1..len, NEW j \in 1..len, t[i] = t[j] PROVE i = j
    BY <1>3 DEF IsInjective
  <2>1. u[i] = u[j]
    BY <1>3, Zenon
  <2>2. \A a \in 1..Len(s) : s[a] # x
    BY <1>5 DEF Range
  <2>3. CASE i = 1 \/ j = 1
    BY <1>1, <1>2, <2>1, <2>2, <2>3
  <2>4. CASE i # 1 /\ j # 1
    <3>1. s[i - 1] = s[j - 1] /\ i - 1 \in 1..Len(s) /\ j - 1 \in 1..Len(s)
      BY <1>1, <1>2, <2>1, <2>4
    <3>2. i - 1 = j - 1
      BY <1>5, <3>1 DEF IsInjective
    <3> QED
      BY <3>2
  <2> QED
    BY <2>3, <2>4, Zenon
<1> QED
  BY <1>3, <1>4, <1>5, Zenon DEF t, u

-----------------------------------------------------------------------------
\* Types of the feed.
EmitCall == [pc : {"none", "emit", "send", "done", "panicked"}, left : SUBSET Dash,
             by : {"none", "handler", "goroutine"}]
Handler == [pc : {"away", "history", "live", "leaving", "closed"},
            old : Seq(EventId), chan : Seq(EventId), seen : Seq(EventId)]
FeedType ==
    /\ evLog \in Seq(EventId)
    /\ evMade \in Nat
    /\ evEmit \in [EventId -> EmitCall]
    /\ evDash \in [Dash -> Handler]
    /\ evLost \in [Dash -> SUBSET EventId]

\* What dashboard d has been given.
Given(d) == Range(evDash[d].old) \cup Range(evDash[d].seen) \cup Range(evDash[d].chan)

\* An event is stored once, by its emitter, and only then sent.
Fresh(k) ==
    /\ k > evMade => evEmit[k].pc = "none"
    /\ evEmit[k].pc \in {"none", "emit"} =>
          /\ k \notin Range(evLog)
          /\ evEmit[k].left = {}
          /\ \A d \in Dash : k \notin Given(d)

\* An event that is still to be sent to d has not been given to it; only a
\* dashboard that has registered is sent events.
Unsent(k, d) ==
    d \in evEmit[k].left =>
        /\ evDash[d].pc # "away"
        /\ evEmit[k].pc = "send" => k \notin Given(d)

\* Nothing is twice in what d was and will be shown.
ShownOnce(d) ==
    /\ IsInjective(evDash[d].old) /\ IsInjective(evDash[d].seen) /\ IsInjective(evDash[d].chan)
    /\ Range(evDash[d].seen) \cap Range(evDash[d].chan) = {}
    /\ evDash[d].pc = "history" => evDash[d].seen = <<>> /\ Range(evDash[d].old) \cap Range(evDash[d].chan) = {}

\* The clause of FeedComplete for one dashboard and one event.
Accounted(k, d) ==
    evDash[d].pc \in {"history", "live"} /\ k \in Range(evLog) =>
        \/ k \in Given(d) \/ k \in evLost[d]
        \/ evEmit[k].pc = "panicked" \/ d \in evEmit[k].left

FeedInv ==
    /\ FeedType
    /\ IsInjective(evLog)
    /\ \A k \in EventId : Fresh(k)
    /\ \A k \in EventId, d \in Dash : Unsent(k, d) /\ Accounted(k, d)
    /\ \A d \in Dash : ShownOnce(d)

\* What recentEvents returns: events of the log, each once.
LEMMA AwayFacts == ASSUME NEW log \in Seq(EventId)
                   PROVE  /\ Away \in Handler
                          /\ [Away EXCEPT !.pc = "history", !.old = log] \in Handler
                          /\ [Away EXCEPT !.pc = "closed"] \in Handler
<1>1. <<>> \in Seq(EventId)
  OBVIOUS
<1>2. Away \in Handler
  BY <1>1, Zenon DEF Away, Handler
<1> QED
  BY <1>2, Zenon DEF Handler

\* Every step keeps the types.
LEMMA FeedTypeStep == ASSUME FeedType, [EvNext]_evVars PROVE FeedType'
<1> USE EvAssumption DEF FeedType
<1>1. ASSUME NEW by \in {"handler", "goroutine"}, Emitting(by), UNCHANGED <<evLog, evDash, evLost>> PROVE FeedType'
  <2>1. evMade + 1 \in EventId /\ evMade' \in Nat
    BY <1>1 DEF Emitting, EventId
  <2>2. [NoEmit EXCEPT !.pc = "emit", !.by = by] \in EmitCall
    BY Zenon DEF NoEmit, EmitCall
  <2>3. evEmit' = [evEmit EXCEPT ![evMade + 1] = [NoEmit EXCEPT !.pc = "emit", !.by = by]]
    BY <1>1, Zenon DEF Emitting
  <2> QED
    BY <1>1, <2>1, <2>2, <2>3, Zenon
<1>2. ASSUME NEW k \in EventId, StoreEvent(k) PROVE FeedType'
  <2> DEFINE len == IF Len(evLog) < MaxEvents THEN Len(evLog) + 1 ELSE MaxEvents
  <2>1. len \in 1..(Len(evLog) + 1)
    OBVIOUS
  <2>2. SubSeq(<<k>> \o evLog, 1, len) \in Seq(EventId)
    BY <2>1, Pushed
  <2>3. evEmit' \in [EventId -> EmitCall]
    <3>1. evEmit' = [evEmit EXCEPT ![k] = [evEmit[k] EXCEPT !.pc = IF Subscribers = {} THEN "done" ELSE "send", !.left = Subscribers]]
      BY <1>2, Zenon DEF StoreEvent
    <3>2. [evEmit[k] EXCEPT !.pc = IF Subscribers = {} THEN "done" ELSE "send", !.left = Subscribers] \in EmitCall
      BY Zenon DEF EmitCall, Subscribers
    <3> QED
      BY <3>1, <3>2, Zenon
  <2> QED
    BY <1>2, <2>2, <2>3, Zenon DEF StoreEvent
<1>3. ASSUME NEW k \in EventId, NEW d \in Dash, SendEvent(k, d) PROVE FeedType'
  <2>1. Append(evDash[d].chan, k) \in Seq(EventId)
    BY RangeAppend, Zenon DEF Handler
  <2>2. evEmit[k] \in EmitCall /\ evDash[d] \in Handler
    BY Zenon
  <2>3. [evEmit[k] EXCEPT !.pc = "panicked"] \in EmitCall
    BY <2>2, Zenon DEF EmitCall
  <2>4. Sent(k, d) \in [EventId -> EmitCall]
    <3> DEFINE e == [evEmit[k] EXCEPT !.left = evEmit[k].left \ {d},
                                      !.pc = IF evEmit[k].left \ {d} = {} THEN "done" ELSE "send"]
    <3>1. Sent(k, d) = [evEmit EXCEPT ![k] = e]
      BY Zenon DEF Sent
    <3>2. e \in EmitCall
      BY <2>2, Zenon DEF EmitCall
    <3> QED
      BY <3>1, <3>2, Zenon
  <2>5. [evDash[d] EXCEPT !.chan = Append(evDash[d].chan, k)] \in Handler
    BY <2>1, <2>2, Zenon DEF Handler
  <2>6. [evLost EXCEPT ![d] = @ \cup {k}] \in [Dash -> SUBSET EventId]
    BY Zenon
  <2>7. CASE evDash[d].pc = "closed"
    BY <1>3, <2>3, <2>7, Zenon DEF SendEvent
  <2>8. CASE evDash[d].pc # "closed" /\ Len(evDash[d].chan) < ChanCap
    <3>1. evDash' = [evDash EXCEPT ![d] = [evDash[d] EXCEPT !.chan = Append(evDash[d].chan, k)]]
      BY <1>3, <2>8, Zenon DEF SendEvent
    <3> QED
      BY <1>3, <2>4, <2>5, <2>8, <3>1, Zenon DEF SendEvent
  <2>9. CASE evDash[d].pc # "closed" /\ ~(Len(evDash[d].chan) < ChanCap)
    BY <1>3, <2>4, <2>6, <2>9, Zenon DEF SendEvent
  <2> QED
    BY <2>7, <2>8, <2>9, Zenon
<1>4. ASSUME NEW d \in Dash, Subscribe(d) PROVE FeedType'
  <2>1. [Away EXCEPT !.pc = "history", !.old = evLog] \in Handler
    BY AwayFacts, Zenon
  <2> QED
    BY <1>4, <2>1, Zenon DEF Subscribe
<1>5. ASSUME NEW d \in Dash, WriteHistory(d) PROVE FeedType'
  <2>1. evDash[d].old \in Seq(EventId)
    BY Zenon DEF Handler
  <2>2. OldestFirst(evDash[d].old) \in Seq(EventId)
    BY <2>1, OldestFirstFacts, Zenon
  <2>3. [evDash[d] EXCEPT !.pc = "live", !.seen = OldestFirst(evDash[d].old)] \in Handler
    BY <2>2, Zenon DEF Handler
  <2>4. evDash' = [evDash EXCEPT ![d] = [evDash[d] EXCEPT !.pc = "live", !.seen = OldestFirst(evDash[d].old)]]
    BY <1>5, Zenon DEF WriteHistory
  <2> QED
    BY <1>5, <2>3, <2>4, Zenon DEF WriteHistory
<1>6. ASSUME NEW d \in Dash, WriteEvent(d) PROVE FeedType'
  <2>1. Tail(evDash[d].chan) \in Seq(EventId) /\ Head(evDash[d].chan) \in EventId
    BY <1>6, RangeTail, Zenon DEF WriteEvent, Handler
  <2>2. Append(evDash[d].seen, Head(evDash[d].chan)) \in Seq(EventId)
    BY <2>1, RangeAppend, Zenon DEF Handler
  <2>3. [evDash[d] EXCEPT !.chan = Tail(evDash[d].chan), !.seen = Append(evDash[d].seen, Head(evDash[d].chan))] \in Handler
    BY <2>1, <2>2, Zenon DEF Handler
  <2>4. evDash' = [evDash EXCEPT ![d] = [evDash[d] EXCEPT !.chan = Tail(evDash[d].chan), !.seen = Append(evDash[d].seen, Head(evDash[d].chan))]]
    BY <1>6, Zenon DEF WriteEvent
  <2> QED
    BY <1>6, <2>3, <2>4, Zenon DEF WriteEvent
<1>7. ASSUME NEW d \in Dash, Unsubscribe(d) PROVE FeedType'
  BY <1>7, Zenon DEF Unsubscribe, Handler
<1>8. ASSUME NEW d \in Dash, CloseChannel(d) PROVE FeedType'
  <2>1. [Away EXCEPT !.pc = "closed"] \in Handler
    BY AwayFacts, Zenon
  <2> QED
    BY <1>8, <2>1, Zenon DEF CloseChannel
<1>9. CASE UNCHANGED evVars
  BY <1>9, Zenon DEF evVars
<1> HIDE DEF FeedType
<1>10. ASSUME NEW x \in CoSession, NEW who \in Person, CreateSession(x, who) \/ JoinSession(x, who) PROVE FeedType'
  BY <1>1, <1>10, Zenon DEF CreateSession, JoinSession
<1>11. CASE AddAnnotation
  BY <1>1, <1>11, Zenon DEF AddAnnotation
<1> QED
  BY <1>2, <1>3, <1>4, <1>5, <1>6, <1>7, <1>8, <1>9, <1>10, <1>11, Zenon DEF EvNext

\* emitEvent takes a number: no dashboard knows it.
LEMMA FeedEmit == ASSUME FeedInv, FeedType', NEW by \in {"handler", "goroutine"}, Emitting(by), UNCHANGED <<evLog, evDash, evLost>>
                  PROVE  FeedInv'
<1> DEFINE m == evMade + 1
<1>1. m \in EventId /\ evMade \in Nat /\ evMade' = m /\ m > evMade
  BY DEF Emitting, EventId, FeedInv, FeedType
<1>2. /\ evEmit'[m].pc = "emit" /\ evEmit'[m].left = {}
      /\ \A k \in EventId \ {m} : evEmit'[k] = evEmit[k]
  BY <1>1, Zenon DEF Emitting, NoEmit, FeedInv, FeedType
<1>3. evEmit[m].pc = "none" /\ m \notin Range(evLog) /\ \A d \in Dash : m \notin Given(d)
  BY <1>1, Zenon DEF FeedInv, Fresh
<1>4. \A d \in Dash : Given(d)' = Given(d)
  BY Zenon DEF Given
<1>5. ASSUME NEW k \in EventId PROVE Fresh(k)'
  <2>1. CASE k = m
    BY <1>1, <1>2, <1>3, <1>4, <2>1 DEF Fresh
  <2>2. CASE k # m
    <3>1. k > m => k > evMade
      BY <1>1 DEF EventId
    <3> QED
      BY <1>1, <1>2, <1>4, <2>2, <3>1, Zenon DEF Fresh, FeedInv
  <2> QED
    BY <2>1, <2>2, Zenon
<1>6. ASSUME NEW k \in EventId, NEW d \in Dash PROVE (Unsent(k, d) /\ Accounted(k, d))'
  <2>1. CASE k = m
    BY <1>2, <1>3, <2>1, Zenon DEF Unsent, Accounted
  <2>2. CASE k # m
    BY <1>2, <1>4, <2>2, Zenon DEF Unsent, Accounted, FeedInv
  <2> QED
    BY <2>1, <2>2, Zenon
<1>7. \A d \in Dash : ShownOnce(d)'
  BY Zenon DEF FeedInv, ShownOnce
<1> QED
  BY <1>5, <1>6, <1>7, Zenon DEF FeedInv

\* emitEvent stores the event and takes its copy of the subscribers.
LEMMA FeedStore == ASSUME FeedInv, FeedType', NEW k \in EventId, StoreEvent(k) PROVE FeedInv'
<1> DEFINE len == IF Len(evLog) < MaxEvents THEN Len(evLog) + 1 ELSE MaxEvents
<1>1. evLog \in Seq(EventId) /\ len \in 1..(Len(evLog) + 1)
  BY EvAssumption DEF FeedInv, FeedType
<1>2. evEmit[k].pc = "emit" /\ k \notin Range(evLog) /\ \A d \in Dash : k \notin Given(d)
  BY Zenon DEF StoreEvent, FeedInv, Fresh
<1>3. evLog' = SubSeq(<<k>> \o evLog, 1, len)
  BY Zenon DEF StoreEvent
<1>4. Range(evLog') \subseteq Range(evLog) \cup {k} /\ IsInjective(evLog')
  BY <1>1, <1>2, <1>3, Pushed DEF FeedInv
<1>5. /\ evEmit'[k].pc \in {"send", "done"} /\ evEmit'[k].left = Subscribers
      /\ \A j \in EventId \ {k} : evEmit'[j] = evEmit[j]
  BY Zenon DEF StoreEvent, FeedInv, FeedType, EmitCall
<1>6. UNCHANGED <<evDash, evLost, evMade>> /\ \A d \in Dash : Given(d)' = Given(d)
  BY Zenon DEF StoreEvent, Given
<1>7. ASSUME NEW j \in EventId PROVE Fresh(j)'
  <2>1. CASE j = k
    <3>1. ~(k > evMade)
      BY <1>2, Zenon DEF FeedInv, Fresh
    <3> QED
      BY <1>5, <1>6, <2>1, <3>1, Zenon DEF Fresh
  <2>2. CASE j # k
    BY <1>4, <1>5, <1>6, <2>2, Zenon DEF Fresh, FeedInv
  <2> QED
    BY <2>1, <2>2, Zenon
<1>8. ASSUME NEW j \in EventId, NEW d \in Dash PROVE (Unsent(j, d) /\ Accounted(j, d))'
  <2>1. CASE j = k
    BY <1>2, <1>5, <1>6, <2>1, Zenon DEF Unsent, Accounted, Subscribers
  <2>2. CASE j # k
    BY <1>4, <1>5, <1>6, <2>2, Zenon DEF Unsent, Accounted, FeedInv
  <2> QED
    BY <2>1, <2>2, Zenon
<1>9. \A d \in Dash : ShownOnce(d)'
  BY <1>6, Zenon DEF FeedInv, ShownOnce
<1> QED
  BY <1>4, <1>7, <1>8, <1>9, Zenon DEF FeedInv

\* A step of one dashboard d0: what the others have and every emission stay.
LEMMA FeedDash == ASSUME FeedInv, FeedType', NEW d0 \in Dash,
                         UNCHANGED <<evLog, evEmit, evMade, evLost>>,
                         \A d \in Dash \ {d0} : evDash'[d] = evDash[d],
                         ShownOnce(d0)',
                         Given(d0)' \subseteq Given(d0) \cup (IF evDash[d0].pc = "away" THEN Range(evLog) ELSE {}),
                         evDash'[d0].pc = "away" => evDash[d0].pc = "away",
                         evDash'[d0].pc \in {"history", "live"} =>
                             \/ Range(evLog) \subseteq Given(d0)'
                             \/ evDash[d0].pc \in {"history", "live"} /\ Given(d0) \subseteq Given(d0)'
                  PROVE  FeedInv'
<1>1. \A d \in Dash \ {d0} : Given(d)' = Given(d)
  BY Zenon DEF Given
<1>2. ASSUME NEW k \in EventId PROVE Fresh(k)'
  BY <1>1, Zenon DEF FeedInv, Fresh
<1>3. ASSUME NEW k \in EventId, NEW d \in Dash PROVE (Unsent(k, d) /\ Accounted(k, d))'
  <2>1. CASE d = d0
    <3>1. Unsent(k, d)'
      BY <2>1, Zenon DEF FeedInv, Unsent
    <3>2. Accounted(k, d)'
      BY <2>1, Zenon DEF FeedInv, Accounted
    <3> QED
      BY <3>1, <3>2, Zenon
  <2>2. CASE d # d0
    BY <1>1, <2>2, Zenon DEF FeedInv, Unsent, Accounted
  <2> QED
    BY <2>1, <2>2, Zenon
<1>4. ASSUME NEW d \in Dash PROVE ShownOnce(d)'
  BY Zenon DEF FeedInv, ShownOnce
<1> QED
  BY <1>2, <1>3, <1>4, Zenon DEF FeedInv

\* The empty channel of a new subscription.
LEMMA EmptySeqFacts == Range(<<>>) = {} /\ IsInjective(<<>>)
  BY DEF Range, IsInjective

\* subscribeEvents keeps the invariant.
LEMMA FeedSubscribe == ASSUME FeedInv, FeedType', NEW d \in Dash, Subscribe(d) PROVE FeedInv'
<1>1. /\ evDash'[d].pc = "history" /\ evDash'[d].old = evLog
      /\ evDash'[d].seen = <<>> /\ evDash'[d].chan = <<>>
      /\ \A c \in Dash \ {d} : evDash'[c] = evDash[c]
  BY Zenon DEF Subscribe, Away, FeedInv, FeedType
<1>2. Given(d)' = Range(evLog)
  BY <1>1, EmptySeqFacts, Zenon DEF Given
<1>3. ShownOnce(d)'
  BY <1>1, EmptySeqFacts, Zenon DEF ShownOnce, FeedInv
<1>4. evDash[d].pc = "away" /\ UNCHANGED <<evLog, evEmit, evMade, evLost>>
  BY Zenon DEF Subscribe
<1> QED
  BY <1>1, <1>2, <1>3, <1>4, FeedDash, Zenon

\* The first write of handleDashboardEvents, the history, keeps it.
LEMMA FeedHistory == ASSUME FeedInv, FeedType', NEW d \in Dash, WriteHistory(d) PROVE FeedInv'
<1>1. evDash[d] \in Handler /\ evDash[d].pc = "history" /\ evDash[d].seen = <<>>
  BY Zenon DEF WriteHistory, FeedInv, FeedType, ShownOnce
<1>2. evDash' = [evDash EXCEPT ![d] = [evDash[d] EXCEPT !.pc = "live", !.seen = OldestFirst(evDash[d].old)]]
  BY Zenon DEF WriteHistory
<1>3. /\ evDash'[d].pc = "live" /\ evDash'[d].old = evDash[d].old
      /\ evDash'[d].seen = OldestFirst(evDash[d].old) /\ evDash'[d].chan = evDash[d].chan
      /\ \A c \in Dash \ {d} : evDash'[c] = evDash[c]
  BY <1>1, <1>2, Zenon DEF FeedInv, FeedType, Handler
<1>4. evDash[d].old \in Seq(EventId)
  BY <1>1, Zenon DEF Handler
<1>5. /\ Range(OldestFirst(evDash[d].old)) = Range(evDash[d].old)
      /\ IsInjective(evDash[d].old) => IsInjective(OldestFirst(evDash[d].old))
  BY <1>4, OldestFirstFacts, Zenon
<1>6. Given(d)' = Given(d)
  BY <1>1, <1>3, <1>5, EmptySeqFacts, Zenon DEF Given
<1>7. ShownOnce(d)
  BY Zenon DEF FeedInv
<1>8. ShownOnce(d)'
  BY <1>1, <1>3, <1>5, <1>7, Zenon DEF ShownOnce
<1>9. UNCHANGED <<evLog, evEmit, evMade, evLost>>
  BY Zenon DEF WriteHistory
<1> QED
  BY <1>1, <1>3, <1>6, <1>8, <1>9, FeedDash, Zenon

\* The write of one live event keeps it.
LEMMA FeedWrite == ASSUME FeedInv, FeedType', NEW d \in Dash, WriteEvent(d) PROVE FeedInv'
<1> DEFINE x == evDash[d]
<1>1. x \in Handler /\ x.pc = "live" /\ x.chan # <<>> /\ x.chan \in Seq(EventId) /\ x.seen \in Seq(EventId)
  BY Zenon DEF WriteEvent, FeedInv, FeedType, Handler
<1>2. evDash' = [evDash EXCEPT ![d] = [x EXCEPT !.chan = Tail(x.chan), !.seen = Append(x.seen, Head(x.chan))]]
  BY Zenon DEF WriteEvent
<1>3. /\ evDash'[d].pc = "live" /\ evDash'[d].old = x.old
      /\ evDash'[d].seen = Append(x.seen, Head(x.chan)) /\ evDash'[d].chan = Tail(x.chan)
      /\ \A c \in Dash \ {d} : evDash'[c] = evDash[c]
  BY <1>1, <1>2, Zenon DEF FeedInv, FeedType, Handler
<1>4. Head(x.chan) \in EventId /\ Range(x.chan) = {Head(x.chan)} \cup Range(Tail(x.chan))
  BY <1>1, RangeTail, Zenon
<1>5. Range(Append(x.seen, Head(x.chan))) = Range(x.seen) \cup {Head(x.chan)}
  BY <1>1, <1>4, RangeAppend
<1>6. Given(d)' = Given(d)
  BY <1>3, <1>4, <1>5, Zenon DEF Given
<1>7. ShownOnce(d)
  BY Zenon DEF FeedInv
<1>8. IsInjective(Tail(x.chan)) /\ Head(x.chan) \notin Range(Tail(x.chan))
  BY <1>1, <1>7, InjTail, Zenon DEF ShownOnce
<1>9. IsInjective(Append(x.seen, Head(x.chan)))
  BY <1>1, <1>4, <1>7, InjAppend, Zenon DEF ShownOnce
<1>10. ShownOnce(d)'
  BY <1>3, <1>4, <1>5, <1>7, <1>8, <1>9, SMTT(20) DEF ShownOnce
<1>11. UNCHANGED <<evLog, evEmit, evMade, evLost>>
  BY Zenon DEF WriteEvent
<1> QED
  BY <1>1, <1>3, <1>6, <1>10, <1>11, FeedDash, Zenon

\* The two halves of the unsubscribe function keep it.
LEMMA FeedLeave == ASSUME FeedInv, FeedType', NEW d \in Dash, Unsubscribe(d) \/ CloseChannel(d) PROVE FeedInv'
<1>1. UNCHANGED <<evLog, evEmit, evMade, evLost>> /\ evDash[d] \in Handler
  BY Zenon DEF Unsubscribe, CloseChannel, FeedInv, FeedType
<1>2. ShownOnce(d)
  BY Zenon DEF FeedInv
<1>3. CASE Unsubscribe(d)
  <2>1. /\ evDash'[d].pc = "leaving" /\ evDash'[d].old = evDash[d].old
        /\ evDash'[d].seen = evDash[d].seen /\ evDash'[d].chan = evDash[d].chan
        /\ \A c \in Dash \ {d} : evDash'[c] = evDash[c]
    BY <1>1, <1>3, Zenon DEF Unsubscribe, FeedInv, FeedType, Handler
  <2>2. Given(d)' = Given(d) /\ ShownOnce(d)'
    BY <1>2, <2>1, Zenon DEF Given, ShownOnce
  <2> QED
    BY <1>1, <2>1, <2>2, FeedDash, Zenon
<1>4. CASE CloseChannel(d)
  <2>1. /\ evDash'[d].pc = "closed" /\ evDash'[d].old = <<>>
        /\ evDash'[d].seen = <<>> /\ evDash'[d].chan = <<>>
        /\ \A c \in Dash \ {d} : evDash'[c] = evDash[c]
    BY <1>4, Zenon DEF CloseChannel, Away, FeedInv, FeedType
  <2>2. Given(d)' = {} /\ ShownOnce(d)'
    BY <2>1, EmptySeqFacts, Zenon DEF Given, ShownOnce
  <2> QED
    BY <1>1, <2>1, <2>2, FeedDash, Zenon
<1> QED
  BY <1>3, <1>4, Zenon

\* One round of the loop of emitEvent: only event k and dashboard d are touched.
LEMMA FeedSend == ASSUME FeedInv, FeedType', NEW k \in EventId, NEW d \in Dash, SendEvent(k, d) PROVE FeedInv'
<1>1. /\ evEmit[k].pc = "send" /\ d \in evEmit[k].left /\ evEmit[k] \in EmitCall /\ evDash[d] \in Handler
      /\ UNCHANGED <<evLog, evMade>>
  BY Zenon DEF SendEvent, FeedInv, FeedType
<1>2. k \notin Given(d) /\ ~(k > evMade) /\ ShownOnce(d)
  BY <1>1, Zenon DEF FeedInv, Unsent, Fresh
<1>3. /\ evEmit'[k].pc \in {"send", "done", "panicked"}
      /\ evEmit'[k].left \subseteq evEmit[k].left
      /\ evEmit'[k].pc = "panicked" \/ evEmit'[k].left = evEmit[k].left \ {d}
      /\ \A j \in EventId \ {k} : evEmit'[j] = evEmit[j]
  <2>1. CASE evEmit' = [evEmit EXCEPT ![k].pc = "panicked"]
    BY <1>1, <2>1, Zenon DEF FeedInv, FeedType, EmitCall
  <2>2. CASE evEmit' = Sent(k, d)
    <3> DEFINE e == [evEmit[k] EXCEPT !.left = evEmit[k].left \ {d},
                                      !.pc = IF evEmit[k].left \ {d} = {} THEN "done" ELSE "send"]
    <3>1. evEmit' = [evEmit EXCEPT ![k] = e]
      BY <2>2, Zenon DEF Sent
    <3>2. e.left = evEmit[k].left \ {d} /\ e.pc \in {"send", "done"}
      BY <1>1, Zenon DEF EmitCall
    <3> QED
      BY <3>1, <3>2, Zenon DEF FeedInv, FeedType
  <2> QED
    BY <2>1, <2>2, Zenon DEF SendEvent
<1>4. \/ UNCHANGED <<evDash, evLost>> /\ evEmit'[k].pc = "panicked"
      \/ /\ evDash' = [evDash EXCEPT ![d] = [evDash[d] EXCEPT !.chan = Append(evDash[d].chan, k)]]
         /\ evLost' = evLost
         /\ evEmit'[k].left = evEmit[k].left \ {d}
      \/ /\ evDash' = evDash
         /\ evLost' = [evLost EXCEPT ![d] = @ \cup {k}]
         /\ evEmit'[k].left = evEmit[k].left \ {d}
  <2>1. CASE evDash[d].pc = "closed"
    <3>1. evEmit' = [evEmit EXCEPT ![k].pc = "panicked"] /\ UNCHANGED <<evDash, evLost>>
      BY <2>1, Zenon DEF SendEvent
    <3> QED
      BY <1>1, <3>1 DEF FeedInv, FeedType, EmitCall
  <2>2. CASE evDash[d].pc # "closed"
    <3>1. evEmit' = Sent(k, d)
      BY <2>2, Zenon DEF SendEvent
    <3>2. evEmit'[k].left = evEmit[k].left \ {d}
      <4> DEFINE e == [evEmit[k] EXCEPT !.left = evEmit[k].left \ {d},
                                        !.pc = IF evEmit[k].left \ {d} = {} THEN "done" ELSE "send"]
      <4>1. evEmit' = [evEmit EXCEPT ![k] = e]
        BY <3>1, Zenon DEF Sent
      <4>2. e.left = evEmit[k].left \ {d}
        BY <1>1, Zenon DEF EmitCall
      <4> QED
        BY <4>1, <4>2, Zenon DEF FeedInv, FeedType
    <3> QED
      BY <2>2, <3>2, Zenon DEF SendEvent
  <2> QED
    BY <2>1, <2>2, Zenon
<1>5. /\ Given(d) \subseteq Given(d)' /\ Given(d)' \subseteq Given(d) \cup {k}
      /\ ShownOnce(d)' /\ evDash'[d].pc = evDash[d].pc
      /\ k \in Given(d)' \/ k \in evLost'[d] \/ evEmit'[k].pc = "panicked"
      /\ evLost[d] \subseteq evLost'[d]
      /\ \A c \in Dash \ {d} : evDash'[c] = evDash[c] /\ evLost'[c] = evLost[c]
  <2>1. CASE evDash' = evDash
    <3>1. Given(d)' = Given(d) /\ ShownOnce(d)'
      BY <1>2, <2>1, Zenon DEF Given, ShownOnce
    <3>2. \/ evLost' = evLost /\ evEmit'[k].pc = "panicked"
          \/ evLost' = [evLost EXCEPT ![d] = @ \cup {k}]
          \/ evDash' = [evDash EXCEPT ![d] = [evDash[d] EXCEPT !.chan = Append(evDash[d].chan, k)]] /\ evLost' = evLost
      BY <1>4, Zenon
    <3>3. evDash' # [evDash EXCEPT ![d] = [evDash[d] EXCEPT !.chan = Append(evDash[d].chan, k)]]
      <4>1. evDash[d].chan \in Seq(EventId)
        BY <1>1, Zenon DEF Handler
      <4>2. Append(evDash[d].chan, k) # evDash[d].chan
        BY <1>2, <4>1, RangeAppend DEF Given
      <4> QED
        BY <1>1, <2>1, <4>2 DEF FeedInv, FeedType, Handler
    <3> QED
      BY <2>1, <3>1, <3>2, <3>3, Zenon DEF FeedInv, FeedType
  <2>2. CASE /\ evDash' = [evDash EXCEPT ![d] = [evDash[d] EXCEPT !.chan = Append(evDash[d].chan, k)]]
             /\ evLost' = evLost
    <3>1. /\ evDash'[d].pc = evDash[d].pc /\ evDash'[d].old = evDash[d].old
          /\ evDash'[d].seen = evDash[d].seen /\ evDash'[d].chan = Append(evDash[d].chan, k)
          /\ \A c \in Dash \ {d} : evDash'[c] = evDash[c]
      BY <1>1, <2>2, Zenon DEF FeedInv, FeedType, Handler
    <3>2. evDash[d].chan \in Seq(EventId)
      BY <1>1, Zenon DEF Handler
    <3>3. Range(Append(evDash[d].chan, k)) = Range(evDash[d].chan) \cup {k}
      BY <3>2, RangeAppend
    <3>4. IsInjective(Append(evDash[d].chan, k))
      BY <1>2, <3>2, InjAppend, Zenon DEF ShownOnce, Given
    <3>5. Given(d)' = Given(d) \cup {k}
      BY <3>1, <3>3, Zenon DEF Given
    <3>6. ShownOnce(d)'
      BY <1>2, <3>1, <3>3, <3>4, Zenon DEF ShownOnce, Given
    <3> QED
      BY <2>2, <3>1, <3>5, <3>6, Zenon
  <2> QED
    BY <1>4, <2>1, <2>2, Zenon
<1>6. \A c \in Dash \ {d} : Given(c)' = Given(c)
  BY <1>5, Zenon DEF Given
<1>7. ASSUME NEW j \in EventId PROVE Fresh(j)'
  <2>1. CASE j = k
    BY <1>1, <1>2, <1>3, <2>1, Zenon DEF Fresh
  <2>2. CASE j # k
    <3>1. Fresh(j) /\ evEmit'[j] = evEmit[j] /\ Given(d)' \subseteq Given(d) \cup {k}
      BY <1>3, <1>5, <2>2, Zenon DEF FeedInv
    <3> QED
      BY <1>1, <1>6, <2>2, <3>1, Zenon DEF Fresh
  <2> QED
    BY <2>1, <2>2, Zenon
<1>8. ASSUME NEW j \in EventId, NEW c \in Dash PROVE Unsent(j, c)'
  <2>1. CASE j = k /\ c = d
    BY <1>1, <1>3, <1>5, <2>1, Zenon DEF Unsent, FeedInv
  <2>2. CASE j # k /\ c = d
    BY <1>3, <1>5, <2>2, Zenon DEF Unsent, FeedInv
  <2>3. CASE c # d
    <3>1. Unsent(j, c) /\ evDash'[c] = evDash[c] /\ Given(c)' = Given(c)
      BY <1>5, <1>6, <2>3, Zenon DEF FeedInv
    <3>2. evEmit'[j].left \subseteq evEmit[j].left /\ (evEmit'[j].pc = "send" => evEmit[j].pc = "send")
      BY <1>1, <1>3, Zenon
    <3> QED
      BY <3>1, <3>2, Zenon DEF Unsent
  <2> QED
    BY <2>1, <2>2, <2>3, Zenon
<1>9. ASSUME NEW j \in EventId, NEW c \in Dash PROVE Accounted(j, c)'
  <2>1. CASE j = k /\ c = d
    BY <1>5, <2>1, Zenon DEF Accounted
  <2>2. CASE j # k /\ c = d
    BY <1>1, <1>3, <1>5, <2>2, Zenon DEF Accounted, FeedInv
  <2>3. CASE c # d
    BY <1>1, <1>3, <1>5, <1>6, <2>3, Zenon DEF Accounted, FeedInv
  <2> QED
    BY <2>1, <2>2, <2>3, Zenon
<1>10. ASSUME NEW c \in Dash PROVE ShownOnce(c)'
  BY <1>5, Zenon DEF ShownOnce, FeedInv
<1> QED
  BY <1>1, <1>7, <1>8, <1>9, <1>10, Zenon DEF FeedInv

\* FeedInv is inductive: one step for every action of the relay.
LEMMA FeedInduction == EvSpec => []FeedInv
<1>1. EvInit => FeedInv
  <2> SUFFICES ASSUME EvInit PROVE FeedInv
    BY Zenon
  <2>1. <<>> \in Seq(EventId)
    OBVIOUS
  <2>2. NoEmit \in EmitCall /\ Away \in Handler
    BY <2>1, AwayFacts, Zenon DEF NoEmit, EmitCall
  <2>3. FeedType
    BY <2>1, <2>2, Zenon DEF EvInit, FeedType
  <2>4. /\ \A k \in EventId : evEmit[k].pc = "none" /\ evEmit[k].left = {}
        /\ \A d \in Dash : /\ evDash[d].pc = "away" /\ evDash[d].old = <<>>
                           /\ evDash[d].seen = <<>> /\ evDash[d].chan = <<>>
    BY Zenon DEF EvInit, NoEmit, Away
  <2>5. Range(evLog) = {} /\ IsInjective(evLog) /\ \A d \in Dash : Given(d) = {} /\ ShownOnce(d)
    BY <2>4, EmptySeqFacts, Zenon DEF EvInit, Given, ShownOnce
  <2> QED
    BY <2>3, <2>4, <2>5, Zenon DEF FeedInv, Fresh, Unsent, Accounted
<1>2. FeedInv /\ [EvNext]_evVars => FeedInv'
  <2> SUFFICES ASSUME FeedInv, [EvNext]_evVars PROVE FeedInv'
    BY Zenon
  <2>1. FeedType'
    BY FeedTypeStep, Zenon DEF FeedInv
  <2>2. ASSUME NEW x \in CoSession, NEW who \in Person, CreateSession(x, who) \/ JoinSession(x, who) PROVE FeedInv'
    BY <2>1, <2>2, FeedEmit, Zenon DEF CreateSession, JoinSession
  <2>3. CASE AddAnnotation
    BY <2>1, <2>3, FeedEmit, Zenon DEF AddAnnotation
  <2>4. ASSUME NEW k \in EventId, StoreEvent(k) PROVE FeedInv'
    BY <2>1, <2>4, FeedStore, Zenon
  <2>5. ASSUME NEW k \in EventId, NEW d \in Dash, SendEvent(k, d) PROVE FeedInv'
    BY <2>1, <2>5, FeedSend, Zenon
  <2>6. ASSUME NEW d \in Dash, Subscribe(d) \/ WriteHistory(d) \/ WriteEvent(d) \/ Unsubscribe(d) \/ CloseChannel(d)
        PROVE  FeedInv'
    BY <2>1, <2>6, FeedSubscribe, FeedHistory, FeedWrite, FeedLeave, Zenon
  <2>7. CASE UNCHANGED evVars
    <3>1. UNCHANGED <<evLog, evEmit, evMade, evDash, evLost>>
      BY <2>7, Zenon DEF evVars
    <3>2. \A d \in Dash : Given(d)' = Given(d)
      BY <3>1, Zenon DEF Given
    <3> QED
      BY <2>1, <3>1, <3>2, Zenon DEF FeedInv, Fresh, Unsent, Accounted, ShownOnce
  <2> QED
    BY <2>2, <2>3, <2>4, <2>5, <2>6, <2>7, Zenon DEF EvNext
<1> QED
  BY <1>1, <1>2, PTL DEF EvSpec

\* FeedExact for any number of dashboards, events and any capacities: an event
\* that emitEvent has stored reaches every dashboard registered then, or is still
\* to be sent, or found a full channel, or its emitter panicked; and
\* handleDashboardEvents shows no event twice.
THEOREM FeedSafe == EvSpec => []FeedExact
<1>1. FeedInv => FeedComplete
  <2> SUFFICES ASSUME FeedInv, NEW d \in Subscribers, NEW k \in EventId, k \in Range(evLog)
               PROVE  \/ k \in Given(d) \/ k \in evLost[d]
                      \/ evEmit[k].pc = "panicked" \/ d \in evEmit[k].left
    BY Zenon DEF FeedComplete, Given
  <2>1. d \in Dash /\ evDash[d].pc \in {"history", "live"}
    BY Zenon DEF Subscribers
  <2> QED
    BY <2>1, Zenon DEF FeedInv, Accounted
<1>2. FeedInv => SeenOnce
  <2> SUFFICES ASSUME FeedInv, NEW d \in Dash PROVE IsInjective(evDash[d].seen \o evDash[d].chan)
    BY Zenon DEF SeenOnce
  <2>1. evDash[d].seen \in Seq(EventId) /\ evDash[d].chan \in Seq(EventId)
    BY Zenon DEF FeedInv, FeedType, Handler
  <2> QED
    BY <2>1, InjConcat, Zenon DEF FeedInv, ShownOnce
<1> QED
  BY <1>1, <1>2, FeedInduction, PTL DEF FeedExact

\* JoinedOnce for any number of sessions and names: joinSession lists nobody twice.
THEOREM JoinedSafe == EvSpec => []JoinedOnce
<1> DEFINE Inv == evSessions \in [CoSession -> Seq(Person)] /\ JoinedOnce
<1>1. EvInit => Inv
  BY EmptySeqFacts DEF EvInit, JoinedOnce
<1>2. Inv /\ [EvNext]_evVars => Inv'
  <2> SUFFICES ASSUME Inv, [EvNext]_evVars PROVE Inv'
    BY Zenon
  <2>1. ASSUME NEW x \in CoSession, NEW who \in Person, CreateSession(x, who) PROVE Inv'
    <3>1. <<who>> \in Seq(Person) /\ IsInjective(<<who>>)
      BY DEF IsInjective
    <3> QED
      BY <2>1, <3>1, Zenon DEF CreateSession, JoinedOnce
  <2>2. ASSUME NEW x \in CoSession, NEW who \in Person, JoinSession(x, who) PROVE Inv'
    <3>1. evSessions[x] \in Seq(Person) /\ IsInjective(evSessions[x]) /\ who \notin Range(evSessions[x])
      BY <2>2, Zenon DEF JoinSession, JoinedOnce
    <3>2. Append(evSessions[x], who) \in Seq(Person) /\ IsInjective(Append(evSessions[x], who))
      BY <3>1, RangeAppend, InjAppend, Zenon
    <3> QED
      BY <2>2, <3>2, Zenon DEF JoinSession, JoinedOnce
  <2>3. CASE UNCHANGED evSessions
    BY <2>3, Zenon DEF JoinedOnce
  <2> QED
    BY <2>1, <2>2, <2>3, Zenon DEF EvNext, evVars, AddAnnotation, StoreEvent, SendEvent, Subscribe, WriteHistory,
                            WriteEvent, Unsubscribe, CloseChannel
<1> QED
  BY <1>1, <1>2, PTL DEF EvSpec

-----------------------------------------------------------------------------
\* The circuit breaker and the requirements.

\* The breaker's own count is never behind the run of failures that have
\* returned, and a closed breaker's count is below the threshold.
BreakerInv ==
    /\ cbFailures \in 0..FailureThreshold
    /\ cbStreak \in 0..cbFailures
    /\ cbState = "closed" => cbFailures < FailureThreshold

\* BreakerTrips for any thresholds and any number of concurrent Execute calls:
\* a run of failures as long as the threshold finds the breaker tripped.
THEOREM BreakerSafe == OpSpec => []BreakerTrips
<1> USE OpAssumption
<1>1. OpInit => BreakerInv
  BY DEF OpInit, BreakerInv
<1>2. BreakerInv /\ [OpNext]_opVars => BreakerInv'
  <2> SUFFICES ASSUME BreakerInv, [OpNext]_opVars PROVE BreakerInv'
    BY Zenon
  <2>1. ASSUME NEW c \in OpCall, ExecuteBegin(c) PROVE BreakerInv'
    BY <2>1, Zenon DEF ExecuteBegin, BreakerInv
  <2>2. ASSUME NEW c \in OpCall, ExecuteFails(c) PROVE BreakerInv'
    BY <2>2 DEF ExecuteFails, BreakerInv, CapStreak
  <2>3. ASSUME NEW c \in OpCall, ExecuteSucceeds(c) PROVE BreakerInv'
    BY <2>3 DEF ExecuteSucceeds, BreakerInv
  <2>4. CASE TimeoutPasses
    BY <2>4, Zenon DEF TimeoutPasses, BreakerInv
  <2>5. CASE UNCHANGED cbVars
    BY <2>5, Zenon DEF cbVars, BreakerInv
  <2>6. CASE UNCHANGED opVars
    BY <2>6, Zenon DEF opVars, BreakerInv
  <2> QED
    BY <2>1, <2>2, <2>3, <2>4, <2>5, <2>6, Zenon DEF OpNext, AddRequirement, RemoveRequirement, RecordMetric, CheckRequirements
<1>3. BreakerInv => BreakerTrips
  BY DEF BreakerInv, BreakerTrips
<1> QED
  BY <1>1, <1>2, <1>3, PTL DEF OpSpec

\* The history of a requirement, as a sequence of measured values.
HistoryInv ==
    /\ nfHist \in [Requirement -> Seq(Value)]
    /\ DOMAIN nfReq = Requirement

\* RecordMetric leaves the new value last, the bound on the history reached or not.
LEMMA RecordedLast == ASSUME NEW h \in Seq(Value), NEW v \in Value
                      PROVE /\ Recorded(h, v) \in Seq(Value)
                            /\ Recorded(h, v) # <<>>
                            /\ Latest(Recorded(h, v)) = v
<1> DEFINE g == IF Len(h) >= MaxHistory THEN Tail(h) ELSE h
<1>1. g \in Seq(Value)
  <2>1. CASE Len(h) >= MaxHistory
    <3>1. h # <<>>
      BY <2>1, OpAssumption
    <3> QED
      BY <3>1
  <2> QED
    BY <2>1, Zenon
<1> HIDE DEF g
<1>2. Append(g, v) \in Seq(Value) /\ Len(Append(g, v)) = Len(g) + 1 /\ Append(g, v)[Len(g) + 1] = v
  BY <1>1
<1>3. Append(g, v) # <<>>
  BY <1>1, <1>2
<1> QED
  BY <1>2, <1>3, Zenon DEF Recorded, Latest, g

\* StatusBacked for any requirements, values and bounds: a requirement that is
\* reported passing or failing has a value that says so.
THEOREM StatusSafe == OpSpec => []StatusBacked
<1> DEFINE Inv == HistoryInv /\ StatusBacked
<1>1. OpInit => Inv
  BY DEF OpInit, HistoryInv, StatusBacked, NoReq
<1>2. Inv /\ [OpNext]_opVars => Inv'
  <2> SUFFICES ASSUME HistoryInv, StatusBacked, [OpNext]_opVars PROVE HistoryInv' /\ StatusBacked'
    BY Zenon
  <2>1. CASE UNCHANGED nfVars
    BY <2>1, Zenon DEF nfVars, HistoryInv, StatusBacked, Verdict, Passing
  <2>2. ASSUME NEW r \in Requirement, AddRequirement(r) PROVE HistoryInv' /\ StatusBacked'
    BY <2>2, Zenon DEF AddRequirement, HistoryInv, StatusBacked, Verdict, Passing
  <2>3. ASSUME NEW r \in Requirement, RemoveRequirement(r) PROVE HistoryInv' /\ StatusBacked'
    BY <2>3, Zenon DEF RemoveRequirement, NoReq, HistoryInv, StatusBacked, Verdict, Passing
  <2>4. ASSUME NEW r \in Requirement, NEW v \in Value, RecordMetric(r, v) PROVE HistoryInv' /\ StatusBacked'
    <3>1. nfHist[r] \in Seq(Value)
      BY Zenon DEF HistoryInv
    <3>2. /\ Recorded(nfHist[r], v) \in Seq(Value)
          /\ Recorded(nfHist[r], v) # <<>>
          /\ Latest(Recorded(nfHist[r], v)) = v
      BY <3>1, RecordedLast, Zenon
    <3>3. HistoryInv'
      BY <2>4, <3>2, Zenon DEF RecordMetric, HistoryInv
    <3>4. ASSUME NEW q \in Requirement, nfReq'[q].status \in {"passing", "failing"}
          PROVE  nfHist'[q] # <<>> /\ Verdict(q, Latest(nfHist'[q])) = nfReq'[q].status
      <4>1. CASE q = r
        BY <2>4, <3>2, <4>1, Zenon DEF RecordMetric, HistoryInv
      <4>2. CASE q # r
        BY <2>4, <3>4, <4>2, Zenon DEF RecordMetric, HistoryInv, StatusBacked
      <4> QED
        BY <4>1, <4>2, Zenon
    <3> QED
      BY <3>3, <3>4, Zenon DEF StatusBacked, Verdict, Passing
  <2>5. CASE CheckRequirements
    BY <2>5, Zenon DEF CheckRequirements, NoReq, HistoryInv, StatusBacked, Verdict, Passing
  <2>6. CASE UNCHANGED opVars
    BY <2>6, <2>1, Zenon DEF opVars, nfVars
  <2> QED
    BY <2>1, <2>2, <2>3, <2>4, <2>5, <2>6, Zenon
       DEF OpNext, ExecuteBegin, ExecuteFails, ExecuteSucceeds, TimeoutPasses, nfVars
<1> QED
  BY <1>1, <1>2, PTL DEF OpSpec

(***************************************************************************)
(* The ring buffer.                                                        *)
(***************************************************************************)
TwoLaps == 0..(2 * Size - 1)
Lap(x) == IF x < Size THEN x ELSE x - Size

\* What the fields of a running call say: Peek is n places after head and
\* a call that got past its checks has no error to report.
CallInv ==
    /\ pc # "idle" => err = "nil"
    /\ pc = "write" => out = <<>>
    /\ pc = "peek" => n <= count /\ at = Lap(head + n)

\* The inductive invariant, with the modulo arithmetic in linear form.
Inv ==
    /\ TypeOK
    /\ tail = Lap(head + count)
    /\ CallInv

\* An index less than two laps ahead wraps at most once: the only modulo
\* arithmetic that ringbuffer.go needs.
LEMMA Wrap ==
    ASSUME NEW x \in TwoLaps
    PROVE  x % Size = Lap(x)
<1>1. CASE x < Size
  BY <1>1, RingBufferAssumption DEF TwoLaps, Lap
<1>2. CASE ~(x < Size)
  BY <1>2, RingBufferAssumption DEF TwoLaps, Lap
<1> QED
  BY <1>1, <1>2, Zenon

\* The next place after a place, as ringbuffer.go computes it.
LEMMA NextSlot ==
    ASSUME NEW x \in Slot
    PROVE  /\ (x + 1) % Size \in Slot
           /\ (x + 1) % Size = IF x + 1 < Size THEN x + 1 ELSE 0
<1>1. x + 1 \in TwoLaps
  BY RingBufferAssumption DEF Slot, TwoLaps
<1>2. (x + 1) % Size = Lap(x + 1)
  BY <1>1, Wrap, Zenon
<1>3. x \in Nat /\ Size \in Nat /\ x < Size
  BY RingBufferAssumption DEF Slot
<1> QED
  BY <1>2, <1>3 DEF Slot, Lap

\* There is at least one place.
LEMMA ZeroSlot == 0 \in Slot /\ Size \in Nat /\ Size > 0
  BY RingBufferAssumption DEF Slot

\* The types of all fields are kept by every call of ringbuffer.go.
THEOREM TypeCorrect == Spec => []TypeOK
<1>1. Init => TypeOK
  BY RingBufferAssumption, ZeroSlot DEF Init, TypeOK
<1>2. TypeOK /\ [Next]_vars => TypeOK'
  <2> SUFFICES ASSUME TypeOK, [Next]_vars PROVE TypeOK'
    BY Zenon
  <2>0. /\ (head + 1) % Size \in Slot /\ (tail + 1) % Size \in Slot
        /\ (at + 1) % Size \in Slot /\ 0 \in Slot
    BY NextSlot, ZeroSlot, Zenon DEF TypeOK
  <2>1. ASSUME NEW data \in Chunks, WriteBegin(data) PROVE TypeOK'
    BY <2>0, <2>1, RingBufferAssumption DEF TypeOK, Slot, indices, WriteBegin
  <2>2. CASE WriteByte
    BY <2>0, <2>2, RingBufferAssumption DEF TypeOK, Slot, indices, WriteByte
  <2>3. ASSUME NEW len \in Lens, ReadBegin(len) PROVE TypeOK'
    BY <2>0, <2>3, RingBufferAssumption DEF TypeOK, Slot, indices, ReadBegin
  <2>4. CASE ReadByte
    BY <2>0, <2>4, RingBufferAssumption DEF TypeOK, Slot, indices, ReadByte
  <2>5. ASSUME NEW len \in Lens, PeekBegin(len) PROVE TypeOK'
    BY <2>0, <2>5, RingBufferAssumption DEF TypeOK, Slot, indices, PeekBegin
  <2>6. CASE PeekByte
    BY <2>0, <2>6, RingBufferAssumption DEF TypeOK, Slot, indices, PeekByte
  <2>7. CASE Unlock
    BY <2>0, <2>7 DEF TypeOK, Slot, indices, Unlock
  <2>8. CASE Close
    BY <2>8, Zenon DEF TypeOK, Slot, indices, Close
  <2>9. CASE Reset
    <3>1. 0 \in 0..Size
      BY ZeroSlot
    <3> QED
      BY <2>9, <3>1, ZeroSlot, Zenon DEF TypeOK, Reset
  <2>10. CASE UNCHANGED vars
    BY <2>10, Zenon DEF TypeOK, vars
  <2> QED
    BY <2>1, <2>2, <2>3, <2>4, <2>5, <2>6, <2>7, <2>8, <2>9, <2>10, Zenon DEF Next
<1> QED
  BY <1>1, <1>2, PTL DEF Spec

\* The invariant holds in every state.
LEMMA InvHolds == Spec => []Inv
<1>1. Init => Inv
  <2>1. Init => TypeOK
    BY RingBufferAssumption, ZeroSlot DEF Init, TypeOK
  <2> QED
    BY <2>1, ZeroSlot DEF Init, Inv, Lap, CallInv
<1>2. TypeOK' /\ Inv /\ [Next]_vars => Inv'
  <2> SUFFICES ASSUME TypeOK, TypeOK', tail = Lap(head + count), CallInv, [Next]_vars
               PROVE  tail' = Lap(head' + count') /\ CallInv'
    BY Zenon DEF Inv, Lap
  <2>a. /\ head \in Nat /\ tail \in Nat /\ at \in Nat /\ Size \in Nat /\ count \in Nat
        /\ head < Size /\ tail < Size /\ at < Size /\ count <= Size /\ 0 < Size
        /\ n \in Nat
    BY ZeroSlot, SMTT(20) DEF TypeOK, Slot
  <2>b. /\ (head + 1) % Size = IF head + 1 < Size THEN head + 1 ELSE 0
        /\ (tail + 1) % Size = IF tail + 1 < Size THEN tail + 1 ELSE 0
        /\ (at + 1) % Size = IF at + 1 < Size THEN at + 1 ELSE 0
    BY NextSlot, Zenon DEF TypeOK
  <2> USE DEF Lap, CallInv
  <2>1. ASSUME NEW data \in Chunks, WriteBegin(data)
        PROVE  tail' = Lap(head' + count') /\ CallInv'
    BY <2>1, Zenon DEF indices, WriteBegin
  <2>2. CASE WriteByte
    BY <2>2, <2>a, <2>b DEF WriteByte
  <2>3. ASSUME NEW len \in Lens, ReadBegin(len)
        PROVE  tail' = Lap(head' + count') /\ CallInv'
    BY <2>3, <2>a, Zenon DEF indices, ReadBegin
  <2>4. CASE ReadByte
    BY <2>4, <2>a, <2>b DEF ReadByte
  <2>5. ASSUME NEW len \in Lens, PeekBegin(len)
        PROVE  tail' = Lap(head' + count') /\ CallInv'
    BY <2>5, <2>a DEF indices, PeekBegin
  <2>6. CASE PeekByte
    BY <2>6, <2>a, <2>b DEF indices, PeekByte
  <2>7. CASE Unlock
    BY <2>7, Zenon DEF indices, Unlock
  <2>8. CASE Close
    BY <2>8, Zenon DEF indices, Close
  <2>9. CASE Reset
    BY <2>9, <2>a DEF Reset
  <2>10. CASE UNCHANGED vars
    BY <2>10, Zenon DEF vars
  <2> QED
    BY <2>1, <2>2, <2>3, <2>4, <2>5, <2>6, <2>7, <2>8, <2>9, <2>10, Zenon DEF Next
<1> QED
  BY <1>1, <1>2, TypeCorrect, PTL DEF Spec

\* tail = (head + count) % Size in every state, for every size.
THEOREM IndicesAgreeHolds == Spec => []IndicesAgree
<1>1. Inv => IndicesAgree
  <2> SUFFICES ASSUME Inv PROVE IndicesAgree
    BY Zenon
  <2>1. head + count \in TwoLaps
    BY ZeroSlot DEF Inv, TypeOK, Slot, TwoLaps
  <2>2. (head + count) % Size = Lap(head + count)
    BY <2>1, Wrap, Zenon
  <2> QED
    BY <2>2, Zenon DEF Inv, IndicesAgree
<1> QED
  BY <1>1, InvHolds, PTL

---------------------------------------------------------------------------
(* Facts about sequences. *)

\* Moving the first element of t to the end of s keeps their concatenation.
LEMMA MoveElement ==
    ASSUME NEW B, NEW s \in Seq(B), NEW t \in Seq(B), t # <<>>
    PROVE  Append(s, Head(t)) \o Tail(t) = s \o t
  BY SMT

\* Dropping the first of more than Size elements keeps the newest Size.
LEMMA NewestTail ==
    ASSUME NEW B, NEW s \in Seq(B), Len(s) > Size
    PROVE  Newest(Tail(s)) = Newest(s)
<1>1. Newest(s) = SubSeq(s, Len(s) - Size + 1, Len(s))
  BY ZeroSlot DEF Newest
<1>2. Tail(s) \in Seq(B) /\ Len(Tail(s)) = Len(s) - 1
  BY ZeroSlot
<1>3. CASE Len(s) - 1 = Size
  <2>1. Len(Tail(s)) <= Size /\ Len(s) - Size + 1 = 2 /\ s # <<>>
    BY <1>2, <1>3, ZeroSlot
  <2>2. Newest(Tail(s)) = Tail(s)
    BY <2>1, Zenon DEF Newest
  <2>3. Tail(s) = SubSeq(s, 2, Len(s))
    BY <2>1, TailIsSubSeq, Zenon
  <2> QED
    BY <1>1, <2>1, <2>2, <2>3, Zenon
<1>4. CASE Len(s) - 1 > Size
  <2>1. Newest(Tail(s)) = SubSeq(Tail(s), Len(s) - Size, Len(s) - 1)
    BY <1>2, <1>4, ZeroSlot DEF Newest
  <2>2. SubSeq(Tail(s), Len(s) - Size, Len(s) - 1) = SubSeq(s, Len(s) - Size + 1, Len(s))
    BY <1>4, ZeroSlot
  <2> QED
    BY <1>1, <2>1, <2>2, Zenon
<1> QED
  BY <1>3, <1>4, ZeroSlot

\* A sequence that holds what follows the first element is the tail.
LEMMA IsTail ==
    ASSUME NEW B, NEW s \in Seq(B), NEW t \in Seq(B), s # <<>>, Len(t) = Len(s) - 1,
           \A i \in 1..Len(t) : t[i] = s[i + 1]
    PROVE  t = Tail(s)
<1>1. /\ Tail(s) \in Seq(B) /\ Len(Tail(s)) = Len(s) - 1
      /\ \A i \in 1..Len(Tail(s)) : Tail(s)[i] = s[i + 1]
  BY HeadTailProperties, Zenon
<1>2. Len(t) = Len(Tail(s)) /\ \A i \in 1..Len(t) : t[i] = Tail(s)[i]
  BY <1>1, Zenon
<1> QED
  BY <1>1, <1>2, SeqEqual, Zenon

\* The same, with one more element at the end.
LEMMA IsTailAppend ==
    ASSUME NEW B, NEW s \in Seq(B), NEW t \in Seq(B), NEW e \in B, s # <<>>,
           Len(t) = Len(s), t[Len(s)] = e,
           \A i \in 1..(Len(s) - 1) : t[i] = s[i + 1]
    PROVE  t = Append(Tail(s), e)
<1>1. /\ Tail(s) \in Seq(B) /\ Len(Tail(s)) = Len(s) - 1
      /\ \A i \in 1..Len(Tail(s)) : Tail(s)[i] = s[i + 1]
  BY HeadTailProperties, Zenon
<1>2. /\ Append(Tail(s), e) \in Seq(B) /\ Len(Append(Tail(s), e)) = Len(s)
      /\ Append(Tail(s), e)[Len(s)] = e
      /\ \A i \in 1..(Len(s) - 1) : Append(Tail(s), e)[i] = Tail(s)[i]
  BY <1>1
<1>3. \A i \in 1..Len(s) : i \in 1..(Len(s) - 1) \/ i = Len(s)
  OBVIOUS
<1>4. \A i \in 1..Len(t) : t[i] = Append(Tail(s), e)[i]
  BY <1>1, <1>2, <1>3, Zenon
<1> QED
  BY <1>2, <1>4, SeqEqual, Zenon

\* The tail of a concatenation.
LEMMA TailConcat ==
    ASSUME NEW B, NEW s \in Seq(B), NEW t \in Seq(B), s # <<>>
    PROVE  Tail(s) \o t = Tail(s \o t)
  BY SMT

\* Newest after each byte is newest after the whole slice.
LEMMA NewestStep ==
    ASSUME NEW B, NEW s \in Seq(B), NEW t \in Seq(B), t # <<>>, Len(s) = Size
    PROVE  Newest(Append(Tail(s), Head(t)) \o Tail(t)) = Newest(s \o t)
<1>1. s # <<>> /\ Tail(s) \in Seq(B)
  BY ZeroSlot
<1>2. Append(Tail(s), Head(t)) \o Tail(t) = Tail(s) \o t
  BY <1>1, MoveElement, Zenon
<1>3. Tail(s) \o t = Tail(s \o t)
  BY <1>1, TailConcat, Zenon
<1>4. s \o t \in Seq(B) /\ Len(s \o t) > Size
  BY ZeroSlot
<1> QED
  BY <1>2, <1>3, <1>4, NewestTail, Zenon

---------------------------------------------------------------------------
(* The contents of the buffer. *)

ContentFits ==
    /\ Content \in Seq(Byte) /\ Len(Content) = count
    /\ \A i \in 1..count : Content[i] = buf[Lap(head + i - 1)]

\* The contents are the count bytes from head on.
LEMMA ContentIs == Inv => ContentFits
<1> SUFFICES ASSUME Inv PROVE ContentFits
  BY Zenon
<1>1. \A i \in 1..count : head + i - 1 \in TwoLaps /\ Lap(head + i - 1) \in Slot
  BY ZeroSlot DEF Inv, TypeOK, Slot, TwoLaps, Lap
<1>2. \A i \in 1..count : (head + i - 1) % Size = Lap(head + i - 1)
  BY <1>1, Wrap, Zenon
<1>3. \A i \in 1..count : Content[i] = buf[Lap(head + i - 1)] /\ Content[i] \in Byte
  BY <1>1, <1>2, Zenon DEF Content, Inv, TypeOK
<1>4. count \in Nat
  BY ZeroSlot DEF Inv, TypeOK
<1> QED
  BY <1>3, <1>4 DEF Content, ContentFits

\* The same of the next state.
LEMMA ContentIsNext == Inv' => ContentFits'
  BY ContentIs, PTL

\* The numbers behind the types.
LEMMA Numbers ==
    ASSUME Inv
    PROVE  /\ head \in Nat /\ tail \in Nat /\ at \in Nat /\ Size \in Nat /\ count \in Nat
           /\ head < Size /\ tail < Size /\ at < Size /\ count <= Size /\ 0 < Size
           /\ n \in Nat /\ room \in Nat
  BY ZeroSlot DEF Inv, TypeOK, Slot

\* Write appends the byte, after dropping the oldest one of a full buffer.
LEMMA ContentWrite ==
    ASSUME Inv, Inv', WriteByte
    PROVE  Content' = IF count = Size THEN Append(Tail(Content), Head(rest))
                      ELSE Append(Content, Head(rest))
<1>0. /\ head \in Nat /\ tail \in Nat /\ Size \in Nat /\ count \in Nat
      /\ head < Size /\ tail < Size /\ count <= Size /\ 0 < Size
  BY Numbers, Zenon
<1>1. /\ Content \in Seq(Byte) /\ Len(Content) = count
      /\ \A i \in 1..count : Content[i] = buf[Lap(head + i - 1)]
      /\ Content' \in Seq(Byte) /\ Len(Content') = count'
      /\ \A i \in 1..(count') : Content'[i] = buf'[Lap(head' + i - 1)]
  BY ContentIs, ContentIsNext, Zenon DEF ContentFits, Lap
<1>2. buf \in [Slot -> Byte] /\ Head(rest) \in Byte /\ tail \in Slot
  BY Zenon DEF Inv, TypeOK, WriteByte
<1>3. CASE count = Size
  <2>1. count' = count /\ head' = IF head + 1 < Size THEN head + 1 ELSE 0
    BY <1>3, NextSlot, Zenon DEF WriteByte, Inv, TypeOK
  <2>2. tail = head
    BY <1>3, <1>0 DEF Inv, Lap
  <2>3. \A i \in 1..(count - 1) : /\ Lap(head' + i - 1) = Lap(head + (i + 1) - 1)
                                  /\ Lap(head + (i + 1) - 1) # tail
                                  /\ Lap(head + (i + 1) - 1) \in Slot
                                  /\ i + 1 \in 1..count
    BY <1>3, <2>1, <2>2, <1>0 DEF Lap, Slot
  <2>4. Lap(head' + count - 1) = tail
    BY <1>3, <2>1, <2>2, <1>0 DEF Lap
  <2>5. ASSUME NEW i \in 1..(count - 1) PROVE Content'[i] = Content[i + 1]
    <3>1. i \in 1..(count') /\ i + 1 \in 1..count
      BY <1>0, <2>1
    <3>2. PICK k : k = Lap(head + (i + 1) - 1) /\ k \in Slot /\ k # tail /\ k = Lap(head' + i - 1)
      BY <2>3, Zenon
    <3>3. buf'[k] = buf[k]
      BY <1>2, <3>2 DEF WriteByte
    <3>4. Content'[i] = buf'[k]
      BY <1>1, <3>1, <3>2, Zenon
    <3>5. Content[i + 1] = buf[k]
      BY <1>1, <3>1, <3>2, Zenon
    <3> QED
      BY <3>3, <3>4, <3>5, Zenon
  <2>6. Content'[count] = Head(rest)
    BY <1>1, <1>2, <2>1, <2>4, <1>0 DEF WriteByte
  <2>7. Content # <<>> /\ Len(Content') = Len(Content)
    BY <1>0, <1>1, <1>3, <2>1
  <2> QED
    BY <1>1, <1>2, <1>3, <2>5, <2>6, <2>7, IsTailAppend, Zenon
<1>4. CASE count # Size
  <2>1. count' = count + 1 /\ head' = head
    BY <1>4, Zenon DEF WriteByte
  <2>2. \A i \in 1..count : Lap(head + i - 1) # tail
    BY <1>4, <1>0 DEF Inv, Lap
  <2>3. \A i \in 1..count : Content'[i] = Content[i]
    BY <1>1, <1>2, <2>1, <2>2, <1>0, SMTT(20) DEF WriteByte
  <2>4. Content'[count + 1] = Head(rest)
    BY <1>1, <1>2, <2>1, <1>0 DEF WriteByte, Inv
  <2> QED
    BY <1>1, <1>2, <1>4, <2>1, <2>3, <2>4, <1>0
<1> QED
  BY <1>3, <1>4, Zenon

\* Read takes the oldest byte.
LEMMA ContentRead ==
    ASSUME Inv, Inv', ReadByte
    PROVE  Content # <<>> /\ Content' = Tail(Content) /\ buf[head] = Head(Content)
<1>0. /\ head \in Nat /\ tail \in Nat /\ Size \in Nat /\ count \in Nat
      /\ head < Size /\ tail < Size /\ count <= Size /\ 0 < Size
  BY Numbers, Zenon
<1>1. /\ Content \in Seq(Byte) /\ Len(Content) = count
      /\ \A i \in 1..count : Content[i] = buf[Lap(head + i - 1)]
      /\ Content' \in Seq(Byte) /\ Len(Content') = count'
      /\ \A i \in 1..(count') : Content'[i] = buf'[Lap(head' + i - 1)]
  BY ContentIs, ContentIsNext, Zenon DEF ContentFits, Lap
<1>2. count' = count - 1 /\ head' = (IF head + 1 < Size THEN head + 1 ELSE 0) /\ buf' = buf
  BY NextSlot, Zenon DEF ReadByte, Inv, TypeOK
<1>3. \A i \in 1..(count - 1) : Lap(head' + i - 1) = Lap(head + i)
  BY <1>0, <1>2 DEF Lap
<1>4. ASSUME NEW i \in 1..(count - 1) PROVE Content'[i] = Content[i + 1]
  <2>1. i \in 1..(count') /\ i + 1 \in 1..count /\ head + (i + 1) - 1 = head + i
    BY <1>0, <1>2
  <2>2. Content'[i] = buf[Lap(head + i)]
    BY <1>1, <1>2, <1>3, <2>1, Zenon
  <2>3. Content[i + 1] = buf[Lap(head + (i + 1) - 1)]
    BY <1>1, <2>1, Zenon
  <2> QED
    BY <2>1, <2>2, <2>3, Zenon
<1>5. Content[1] = buf[head] /\ count > 0
  BY <1>1, <1>0 DEF ReadByte, Lap
<1>6. Content # <<>> /\ Len(Content') = Len(Content) - 1 /\ Len(Content') = count - 1
  BY <1>0, <1>1, <1>2, <1>5
<1>7. Content' = Tail(Content)
  BY <1>1, <1>4, <1>6, IsTail, Zenon
<1> QED
  BY <1>1, <1>5, <1>6, <1>7

---------------------------------------------------------------------------
(* The queue that the callers see. *)

Left == SubSeq(Content, n + 1, count)

\* Between calls the queue is the contents and the results are final.  While
\* Write runs the queue already holds the whole slice; while Read runs it has
\* lost, and the results hold, the bytes that are still to be copied.
Views ==
    /\ pc = "idle" => AbsQueue = Content /\ AbsN = n /\ AbsOut = out
    /\ pc = "write" => /\ AbsQueue = Newest(Content \o rest)
                       /\ AbsN = n + Len(rest) /\ AbsOut = <<>>
    /\ pc = "read" => /\ AbsQueue = SubSeq(Content, Share(Content, room) + 1, count)
                      /\ AbsN = n + Share(Content, room)
                      /\ AbsOut = out \o SubSeq(Content, 1, Share(Content, room))
    /\ pc = "peek" => /\ AbsQueue = Content
                      /\ AbsN = n + Share(Left, room)
                      /\ AbsOut = out \o SubSeq(Left, 1, Share(Left, room))

\* What the refinement mapping is in each part of a call.
LEMMA ViewsHold == Inv => Views
<1> SUFFICES ASSUME Inv PROVE Views
  BY Zenon
<1>1. Content \in Seq(Byte) /\ out \in Seq(Byte) /\ n \in Nat
  BY ContentIs, Zenon DEF ContentFits, Inv, TypeOK
<1>2. SubSeq(Content, 1, 0) = <<>> /\ out \o <<>> = out /\ n + 0 = n
  BY <1>1, ConcatEmptySeq
<1>3. ASSUME pc = "idle" PROVE AbsQueue = Content /\ AbsN = n /\ AbsOut = out
  <2>1. AbsQueue = Content /\ ToCopy = 0 /\ Source = Content
    BY <1>3, Zenon DEF AbsQueue, ToCopy, Source
  <2>2. AbsN = n /\ AbsOut = out
    BY <1>2, <1>3, <2>1, Zenon DEF AbsN, AbsOut
  <2> QED
    BY <2>1, <2>2, Zenon
<1>4. ASSUME pc = "write"
      PROVE  AbsQueue = Newest(Content \o rest) /\ AbsN = n + Len(rest) /\ AbsOut = <<>>
  <2>1. /\ AbsQueue = Newest(Content \o rest) /\ AbsN = n + Len(rest)
        /\ ToCopy = 0 /\ Source = Content
    BY <1>4, Zenon DEF AbsQueue, AbsN, ToCopy, Source
  <2>2. out = <<>>
    BY <1>4, Zenon DEF Inv, CallInv
  <2> QED
    BY <1>2, <2>1, <2>2, Zenon DEF AbsOut
<1>5. ASSUME pc = "read"
      PROVE  /\ AbsQueue = SubSeq(Content, Share(Content, room) + 1, count)
             /\ AbsN = n + Share(Content, room)
             /\ AbsOut = out \o SubSeq(Content, 1, Share(Content, room))
  BY <1>5, Zenon DEF AbsQueue, AbsN, AbsOut, ToCopy, Source
<1>6. ASSUME pc = "peek"
      PROVE  /\ AbsQueue = Content
             /\ AbsN = n + Share(Left, room)
             /\ AbsOut = out \o SubSeq(Left, 1, Share(Left, room))
  BY <1>6, Zenon DEF AbsQueue, AbsN, AbsOut, ToCopy, Source, Left
<1> QED
  BY <1>3, <1>4, <1>5, <1>6, Zenon DEF Views

\* The same of the next state.
LEMMA ViewsNext == Inv' => Views'
  BY ViewsHold, PTL

\* A suffix loses its first element when it starts one place later.
LEMMA SuffixTail ==
    ASSUME NEW B, NEW s \in Seq(B), NEW m \in 0..(Len(s) - 1)
    PROVE  /\ SubSeq(s, m + 1, Len(s)) \in Seq(B)
           /\ SubSeq(s, m + 1, Len(s)) # <<>>
           /\ Tail(SubSeq(s, m + 1, Len(s))) = SubSeq(s, (m + 1) + 1, Len(s))
           /\ Head(SubSeq(s, m + 1, Len(s))) = s[m + 1]
<1> DEFINE t == SubSeq(s, m + 1, Len(s))
           u == SubSeq(s, (m + 1) + 1, Len(s))
<1>1. /\ t \in Seq(B) /\ Len(t) = Len(s) - m /\ m \in Nat /\ Len(s) \in Nat /\ m < Len(s)
      /\ \A i \in 1..(Len(s) - m) : t[i] = s[m + i]
  OBVIOUS
<1>2. /\ u \in Seq(B) /\ Len(u) = Len(s) - m - 1
      /\ \A i \in 1..(Len(s) - m - 1) : u[i] = s[m + (i + 1)]
  OBVIOUS
<1> HIDE DEF t, u
<1>3. t # <<>> /\ Head(t) = s[m + 1] /\ Len(u) = Len(t) - 1
  BY <1>1, <1>2
<1>4. \A i \in 1..Len(u) : u[i] = t[i + 1]
  BY <1>1, <1>2
<1>5. u = Tail(t)
  BY <1>1, <1>2, <1>3, <1>4, IsTail, Zenon
<1> QED
  BY <1>1, <1>3, <1>5, Zenon DEF t, u

\* One iteration of a copying loop: what was copied and what is still to be
\* copied make the same sequence before and after it.
LEMMA CopyElement ==
    ASSUME NEW B, NEW s \in Seq(B), NEW o \in Seq(B), NEW r \in Nat, s # <<>>, r > 0
    PROVE  /\ Share(Tail(s), r - 1) = Share(s, r) - 1
           /\ Share(s, r) \in 1..Len(s)
           /\ Append(o, Head(s)) \o SubSeq(Tail(s), 1, Share(s, r) - 1)
                = o \o SubSeq(s, 1, Share(s, r))
           /\ SubSeq(Tail(s), Share(s, r), Len(s) - 1) = SubSeq(s, Share(s, r) + 1, Len(s))
<1>1. Tail(s) \in Seq(B) /\ Len(Tail(s)) = Len(s) - 1 /\ Len(s) \in Nat /\ Len(s) > 0
  OBVIOUS
<1>2. Share(Tail(s), r - 1) = Share(s, r) - 1 /\ Share(s, r) \in 1..Len(s)
  BY <1>1 DEF Share
<1>3. ASSUME NEW k \in 1..Len(s)
      PROVE  /\ Append(o, Head(s)) \o SubSeq(Tail(s), 1, k - 1) = o \o SubSeq(s, 1, k)
             /\ SubSeq(Tail(s), k, Len(s) - 1) = SubSeq(s, k + 1, Len(s))
  <2>1. SubSeq(s, 1, k) \in Seq(B) /\ SubSeq(s, 1, k) # <<>>
    BY <1>1
  <2>2. Head(SubSeq(s, 1, k)) = Head(s) /\ Tail(SubSeq(s, 1, k)) = SubSeq(Tail(s), 1, k - 1)
    BY <1>1
  <2>3. Append(o, Head(SubSeq(s, 1, k))) \o Tail(SubSeq(s, 1, k)) = o \o SubSeq(s, 1, k)
    BY <2>1, MoveElement, Zenon
  <2>4. SubSeq(Tail(s), k, Len(s) - 1) = SubSeq(s, k + 1, Len(s))
    BY <1>1
  <2> QED
    BY <2>2, <2>3, <2>4, Zenon
<1> QED
  BY <1>2, <1>3, Zenon

---------------------------------------------------------------------------
(* Every step is a step of the queue or leaves it alone. *)

Kept == UNCHANGED <<AbsQueue, closed, AbsN, err, AbsOut>>

\* The contents depend on the indices and the slots only.
LEMMA SameContent == UNCHANGED <<buf, indices>> => UNCHANGED <<Content, count>>
  BY Zenon DEF indices, Content

\* Storing one byte leaves the queue that callers see alone: its Write has
\* taken effect when it acquired the mutex.
LEMMA WriteByteKeeps ==
    ASSUME Inv, Inv', WriteByte
    PROVE  Kept
<1>1. Views /\ Views' /\ Content \in Seq(Byte) /\ Len(Content) = count
  BY ViewsHold, ViewsNext, ContentIs, Zenon DEF ContentFits
<1>2. /\ pc = "write" /\ pc' = "write" /\ rest \in Seq(Byte) /\ rest # <<>>
      /\ rest' = Tail(rest) /\ n' = n + 1 /\ n \in Nat /\ UNCHANGED <<closed, err>>
  BY Zenon DEF Inv, TypeOK, WriteByte
<1>3. Newest(Content' \o rest') = Newest(Content \o rest)
  <2>1. CASE count = Size
    BY <1>1, <1>2, <2>1, ContentWrite, NewestStep, Zenon
  <2>2. CASE count # Size
    BY <1>1, <1>2, <2>2, ContentWrite, MoveElement, Zenon
  <2> QED
    BY <2>1, <2>2, Zenon
<1>4. n' + Len(rest') = n + Len(rest)
  BY <1>2
<1> QED
  BY <1>1, <1>2, <1>3, <1>4, Zenon DEF Kept, Views, Newest

\* Copying one byte out leaves the queue that callers see alone.
LEMMA ReadByteKeeps ==
    ASSUME Inv, Inv', ReadByte
    PROVE  Kept
<1> DEFINE k == Share(Content, room)
<1>1. Views /\ Views' /\ Content \in Seq(Byte) /\ Len(Content) = count
  BY ViewsHold, ViewsNext, ContentIs, Zenon DEF ContentFits
<1>2. /\ pc = "read" /\ pc' = "read" /\ room \in Nat /\ room > 0 /\ room' = room - 1
      /\ out' = Append(out, buf[head]) /\ out \in Seq(Byte)
      /\ n' = n + 1 /\ n \in Nat /\ count' = count - 1 /\ UNCHANGED <<closed, err>>
  BY Zenon DEF Inv, TypeOK, ReadByte
<1>3. Content # <<>> /\ Content' = Tail(Content) /\ buf[head] = Head(Content)
  BY ContentRead, Zenon
<1>4. /\ Share(Tail(Content), room - 1) = k - 1
      /\ k \in 1..Len(Content)
      /\ Append(out, Head(Content)) \o SubSeq(Tail(Content), 1, k - 1)
           = out \o SubSeq(Content, 1, k)
      /\ SubSeq(Tail(Content), k, Len(Content) - 1) = SubSeq(Content, k + 1, Len(Content))
  BY <1>1, <1>2, <1>3, CopyElement, Zenon
<1>5. Share(Content', room') = k - 1
  BY <1>2, <1>3, <1>4, Zenon
<1> HIDE DEF k
<1>6. n' + (k - 1) = n + k /\ k - 1 + 1 = k /\ k \in Nat
  BY <1>1, <1>2, <1>4
<1>7. AbsQueue' = SubSeq(Content', k, count - 1) /\ AbsN' = n + k
  BY <1>1, <1>2, <1>5, <1>6, Zenon DEF Views, Share
<1>8. AbsOut' = out' \o SubSeq(Content', 1, k - 1)
  BY <1>1, <1>2, <1>5, Zenon DEF Views, Share
<1>9. AbsQueue = SubSeq(Content, k + 1, count) /\ AbsN = n + k /\ AbsOut = out \o SubSeq(Content, 1, k)
  BY <1>1, <1>2, Zenon DEF Views, k
<1> QED
  BY <1>1, <1>2, <1>3, <1>4, <1>7, <1>8, <1>9, Zenon DEF Kept

\* Peeking at one byte leaves the queue that callers see alone.
LEMMA PeekByteKeeps ==
    ASSUME Inv, Inv', PeekByte
    PROVE  Kept
<1> DEFINE k == Share(Left, room)
<1>1. Views /\ Views' /\ Content \in Seq(Byte) /\ Len(Content) = count
      /\ \A i \in 1..count : Content[i] = buf[Lap(head + i - 1)]
  BY ViewsHold, ViewsNext, ContentIs, Zenon DEF ContentFits
<1>2. /\ pc = "peek" /\ pc' = "peek" /\ room \in Nat /\ room > 0 /\ room' = room - 1
      /\ out' = Append(out, buf[at]) /\ out \in Seq(Byte)
      /\ n' = n + 1 /\ n \in Nat /\ n < count /\ count \in Nat /\ UNCHANGED <<closed, err>>
  BY ZeroSlot DEF Inv, TypeOK, PeekByte
<1>3. UNCHANGED <<Content, count>>
  BY SameContent, Zenon DEF PeekByte
<1>4. Left \in Seq(Byte) /\ Left # <<>> /\ Left' = Tail(Left) /\ Head(Left) = Content[n + 1]
  <2>1. n \in 0..(Len(Content) - 1)
    BY <1>1, <1>2
  <2>2. /\ SubSeq(Content, n + 1, Len(Content)) \in Seq(Byte)
        /\ SubSeq(Content, n + 1, Len(Content)) # <<>>
        /\ Tail(SubSeq(Content, n + 1, Len(Content))) = SubSeq(Content, (n + 1) + 1, Len(Content))
        /\ Head(SubSeq(Content, n + 1, Len(Content))) = Content[n + 1]
    BY <1>1, <2>1, SuffixTail, Zenon
  <2> QED
    BY <1>1, <1>2, <1>3, <2>2, Zenon DEF Left
<1>5. buf[at] = Head(Left)
  <2>1. n + 1 \in 1..count /\ head + (n + 1) - 1 = head + n
    BY <1>2, Numbers
  <2>2. at = Lap(head + n)
    BY <1>2, Zenon DEF Inv, CallInv
  <2> QED
    BY <1>1, <1>4, <2>1, <2>2, Zenon
<1>6. /\ Share(Tail(Left), room - 1) = k - 1
      /\ k \in 1..Len(Left)
      /\ Append(out, Head(Left)) \o SubSeq(Tail(Left), 1, k - 1) = out \o SubSeq(Left, 1, k)
  BY <1>2, <1>4, CopyElement, Zenon
<1>7. Share(Left', room') = k - 1
  BY <1>2, <1>4, <1>6, Zenon
<1> HIDE DEF k
<1>8. n' + (k - 1) = n + k
  BY <1>2, <1>4, <1>6
<1>9. AbsQueue' = Content' /\ AbsN' = n + k /\ AbsOut' = out' \o SubSeq(Left', 1, k - 1)
  BY <1>1, <1>2, <1>7, <1>8, Zenon DEF Views, Share
<1>10. AbsQueue = Content /\ AbsN = n + k /\ AbsOut = out \o SubSeq(Left, 1, k)
  BY <1>1, <1>2, Zenon DEF Views, k
<1> QED
  BY <1>2, <1>3, <1>4, <1>5, <1>6, <1>9, <1>10, Zenon DEF Kept

\* When a loop ends, nothing is left to write or to copy.
LEMMA UnlockKeeps ==
    ASSUME Inv, Inv', Unlock
    PROVE  Kept
<1>1. /\ Views /\ Views' /\ Content \in Seq(Byte) /\ Len(Content) = count
      /\ count \in Nat /\ count <= Size /\ Size \in Nat /\ n \in Nat /\ room \in Nat
      /\ out \in Seq(Byte)
  BY ViewsHold, ViewsNext, ContentIs, Numbers, Zenon DEF ContentFits, Inv, TypeOK
<1>2. /\ UNCHANGED <<Content, count>> /\ pc' = "idle" /\ UNCHANGED <<closed, n, err, out>>
  BY SameContent, Zenon DEF Unlock
<1>3. AbsQueue' = Content /\ AbsN' = n /\ AbsOut' = out
  BY <1>1, <1>2, Zenon DEF Views
<1>4. SubSeq(Content, 1, count) = Content /\ SubSeq(Content, 1, 0) = <<>> /\ out \o <<>> = out
  BY <1>1, SubSeqFull, ConcatEmptySeq
<1>5. CASE WriteEnd
  <2>1. /\ pc = "write" /\ rest = <<>> /\ out = <<>>
    BY <1>5, Zenon DEF WriteEnd, Inv, CallInv
  <2>2. Content \o rest = Content /\ n + Len(rest) = n
    BY <1>1, <2>1
  <2>3. Newest(Content) = Content
    BY <1>1, Zenon DEF Newest
  <2> QED
    BY <1>1, <1>2, <1>3, <2>1, <2>2, <2>3, Zenon DEF Kept, Views
<1>6. CASE ReadEnd
  <2>1. pc = "read" /\ Share(Content, room) = 0 /\ 0 + 1 = 1 /\ n + 0 = n
    BY <1>1, <1>6 DEF ReadEnd, Share
  <2> QED
    BY <1>1, <1>2, <1>3, <1>4, <2>1, Zenon DEF Kept, Views
<1>7. CASE PeekEnd
  <2>1. pc = "peek" /\ n <= count /\ (room = 0 \/ n = count)
    BY <1>1, <1>7 DEF PeekEnd, Inv, CallInv
  <2>2. Left \in Seq(Byte) /\ (n = count => Left = <<>>)
    BY <1>1, <2>1 DEF Left
  <2>3. Share(Left, room) = 0 /\ SubSeq(Left, 1, 0) = <<>> /\ n + 0 = n
    BY <1>1, <2>1, <2>2 DEF Share
  <2> QED
    BY <1>1, <1>2, <1>3, <1>4, <2>1, <2>3, Zenon DEF Kept, Views
<1> QED
  BY <1>5, <1>6, <1>7, Zenon DEF Unlock

\* A Write that acquires the mutex is the Write of the queue.
LEMMA WriteBeginSteps ==
    ASSUME Inv, Inv', NEW data \in Chunks, WriteBegin(data)
    PROVE  Queue!AbsWrite(data)
<1>1. Views /\ Views' /\ data \in Seq(Byte)
  BY ViewsHold, ViewsNext, RingBufferAssumption, Zenon
<1>2. UNCHANGED <<Content, count>> /\ pc = "idle" /\ closed' = closed /\ n' = 0 /\ out' = <<>>
  BY SameContent, Zenon DEF WriteBegin
<1>3. CASE closed
  <2>1. pc' = "idle" /\ err' = "closed"
    BY <1>3, Zenon DEF WriteBegin
  <2> QED
    BY <1>1, <1>2, <1>3, <2>1, Zenon DEF Views, Queue!AbsWrite
<1>4. CASE ~closed
  <2>1. pc' = "write" /\ err' = "nil" /\ rest' = data
    BY <1>4, Zenon DEF WriteBegin
  <2>2. 0 + Len(data) = Len(data)
    BY <1>1
  <2> QED
    BY <1>1, <1>2, <1>4, <2>1, <2>2, Zenon DEF Views, Queue!AbsWrite, Queue!Newest, Newest
<1> QED
  BY <1>3, <1>4, Zenon

\* A Read that acquires the mutex is the Read of the queue.
LEMMA ReadBeginSteps ==
    ASSUME Inv, Inv', NEW len \in Lens, ReadBegin(len)
    PROVE  Queue!AbsRead(len)
<1>1. /\ Views /\ Views' /\ len \in Nat /\ Content \in Seq(Byte) /\ Len(Content) = count
  BY ViewsHold, ViewsNext, RingBufferAssumption, ContentIs, Zenon DEF ContentFits
<1>2. /\ UNCHANGED <<Content, count>> /\ pc = "idle" /\ closed' = closed
      /\ n' = 0 /\ out' = <<>>
  BY SameContent, Zenon DEF ReadBegin
<1>3. AbsQueue = Content
  BY <1>1, <1>2, Zenon DEF Views
<1>4. CASE count = 0
  <2>1. pc' = "idle" /\ err' = IF closed THEN "EOF" ELSE "nil"
    BY <1>4, Zenon DEF ReadBegin
  <2>2. Content = <<>> /\ Queue!Share(Content, len) = 0
    BY <1>1, <1>4 DEF Queue!Share
  <2>3. AbsQueue' = <<>> /\ AbsN' = 0 /\ AbsOut' = <<>>
    BY <1>1, <1>2, <2>1, <2>2, Zenon DEF Views
  <2>4. SubSeq(Content, 1, 0) = <<>> /\ SubSeq(Content, 0 + 1, Len(Content)) = <<>>
    BY <2>2
  <2> QED
    BY <1>2, <1>3, <2>1, <2>2, <2>3, <2>4, Zenon DEF Queue!AbsRead
<1>5. CASE count # 0
  <2>1. pc' = "read" /\ err' = "nil" /\ room' = len
    BY <1>5, Zenon DEF ReadBegin
  <2>2. /\ Content # <<>> /\ Queue!Share(Content, len) = Share(Content, len)
        /\ Share(Content, len) \in 0..Len(Content)
    BY <1>1, <1>5 DEF Queue!Share, Share
  <2>3. /\ 0 + Share(Content, len) = Share(Content, len)
        /\ <<>> \o SubSeq(Content, 1, Share(Content, len)) = SubSeq(Content, 1, Share(Content, len))
    BY <1>1, <2>2
  <2>4. /\ AbsQueue' = SubSeq(Content, Share(Content, len) + 1, count)
        /\ AbsN' = Share(Content, len)
        /\ AbsOut' = SubSeq(Content, 1, Share(Content, len))
    BY <1>1, <1>2, <2>1, <2>3, Zenon DEF Views, Share
  <2> QED
    BY <1>1, <1>2, <1>3, <2>1, <2>2, <2>4, Zenon DEF Queue!AbsRead
<1> QED
  BY <1>4, <1>5, Zenon

\* A Peek that acquires the mutex is the Peek of the queue.
LEMMA PeekBeginSteps ==
    ASSUME Inv, Inv', NEW len \in Lens, PeekBegin(len)
    PROVE  Queue!AbsPeek(len)
<1>1. /\ Views /\ Views' /\ len \in Nat /\ Content \in Seq(Byte) /\ Len(Content) = count
  BY ViewsHold, ViewsNext, RingBufferAssumption, ContentIs, Zenon DEF ContentFits
<1>2. /\ UNCHANGED <<Content, count>> /\ pc = "idle" /\ closed' = closed
      /\ n' = 0 /\ out' = <<>> /\ err' = "nil"
  BY SameContent, Zenon DEF PeekBegin
<1>3. AbsQueue = Content
  BY <1>1, <1>2, Zenon DEF Views
<1>4. CASE count = 0
  <2>1. pc' = "idle"
    BY <1>4, Zenon DEF PeekBegin
  <2>2. Content = <<>> /\ Queue!Share(Content, len) = 0
    BY <1>1, <1>4 DEF Queue!Share
  <2>3. AbsQueue' = Content /\ AbsN' = 0 /\ AbsOut' = <<>>
    BY <1>1, <1>2, <2>1, Zenon DEF Views
  <2>4. SubSeq(Content, 1, 0) = <<>>
    BY <2>2
  <2> QED
    BY <1>2, <1>3, <2>2, <2>3, <2>4, Zenon DEF Queue!AbsPeek
<1>5. CASE count # 0
  <2>1. pc' = "peek" /\ room' = len
    BY <1>5, Zenon DEF PeekBegin
  <2>2. /\ Queue!Share(Content, len) = Share(Content, len)
        /\ Share(Content, len) \in 0..Len(Content)
    BY <1>1 DEF Queue!Share, Share
  <2>3. Left' = Content
    <3>1. Left' = SubSeq(Content, 0 + 1, Len(Content))
      BY <1>1, <1>2, Zenon DEF Left
    <3> QED
      BY <1>1, <3>1, SubSeqFull
  <2>4. /\ 0 + Share(Content, len) = Share(Content, len)
        /\ <<>> \o SubSeq(Content, 1, Share(Content, len)) = SubSeq(Content, 1, Share(Content, len))
    BY <1>1, <2>2
  <2>5. /\ AbsQueue' = Content /\ AbsN' = Share(Content, len)
        /\ AbsOut' = SubSeq(Content, 1, Share(Content, len))
    BY <1>1, <1>2, <2>1, <2>3, <2>4, Zenon DEF Views, Share
  <2> QED
    BY <1>1, <1>2, <1>3, <2>2, <2>5, Zenon DEF Queue!AbsPeek
<1> QED
  BY <1>4, <1>5, Zenon

\* Close closes the queue.
LEMMA CloseSteps ==
    ASSUME Inv, Inv', Close
    PROVE  Queue!AbsClose
<1>1. Views /\ Views'
  BY ViewsHold, ViewsNext, Zenon
<1>2. /\ UNCHANGED <<Content, count>> /\ pc = "idle" /\ pc' = "idle" /\ closed' = TRUE
      /\ UNCHANGED <<n, err, out>>
  BY SameContent, Zenon DEF Close
<1> QED
  BY <1>1, <1>2, Zenon DEF Views, Queue!AbsClose

\* Reset empties and reopens the queue.
LEMMA ResetSteps ==
    ASSUME Inv, Inv', Reset
    PROVE  Queue!AbsReset
<1>1. Views /\ Views' /\ Content' \in Seq(Byte) /\ Len(Content') = count'
  BY ViewsHold, ViewsNext, ContentIsNext, Zenon DEF ContentFits
<1>2. /\ count' = 0 /\ pc = "idle" /\ pc' = "idle" /\ closed' = FALSE
      /\ UNCHANGED <<n, err, out>>
  BY Zenon DEF Reset
<1>3. Content' = <<>>
  BY <1>1, <1>2
<1> QED
  BY <1>1, <1>2, <1>3, Zenon DEF Views, Queue!AbsReset

\* ringbuffer.go implements the queue of the newest Size bytes, for every size,
\* every slice written and every slice read into.
THEOREM ImplementsQueue == Spec => QueueSpec
<1>1. Init => Queue!AbsInit
  <2> SUFFICES ASSUME Init PROVE Queue!AbsInit
    BY Zenon
  <2>1. /\ pc = "idle" /\ count = 0 /\ closed = FALSE /\ n = 0 /\ err = "nil" /\ out = <<>>
    BY Zenon DEF Init
  <2>2. Content = <<>> /\ ToCopy = 0 /\ Source = Content
    BY <2>1 DEF Content, ToCopy, Source
  <2>3. AbsQueue = <<>> /\ AbsN = 0 /\ AbsOut = <<>>
    BY <2>1, <2>2 DEF AbsQueue, AbsN, AbsOut
  <2> QED
    BY <2>1, <2>3, Zenon DEF Queue!AbsInit
<1>2. Inv /\ Inv' /\ [Next]_vars => [Queue!AbsNext]_Queue!aVars
  <2> SUFFICES ASSUME Inv, Inv', [Next]_vars PROVE Queue!AbsNext \/ UNCHANGED Queue!aVars
    BY Zenon
  <2>0. Kept => UNCHANGED Queue!aVars
    BY Zenon DEF Kept, Queue!aVars
  <2>1. ASSUME NEW data \in Chunks, WriteBegin(data) PROVE Queue!AbsNext
    BY <2>1, WriteBeginSteps, Zenon DEF Queue!AbsNext
  <2>2. ASSUME NEW len \in Lens, ReadBegin(len) PROVE Queue!AbsNext
    BY <2>2, ReadBeginSteps, Zenon DEF Queue!AbsNext
  <2>3. ASSUME NEW len \in Lens, PeekBegin(len) PROVE Queue!AbsNext
    BY <2>3, PeekBeginSteps, Zenon DEF Queue!AbsNext
  <2>4. ASSUME WriteByte \/ ReadByte \/ PeekByte \/ Unlock PROVE UNCHANGED Queue!aVars
    BY <2>0, <2>4, WriteByteKeeps, ReadByteKeeps, PeekByteKeeps, UnlockKeeps, Zenon
  <2>5. ASSUME Close PROVE Queue!AbsNext
    BY <2>5, CloseSteps, Zenon DEF Queue!AbsNext
  <2>6. ASSUME Reset PROVE Queue!AbsNext
    BY <2>6, ResetSteps, Zenon DEF Queue!AbsNext
  <2>7. ASSUME UNCHANGED vars PROVE UNCHANGED Queue!aVars
    BY <2>7, Zenon DEF vars, Queue!aVars, AbsQueue, AbsN, AbsOut, ToCopy, Source, Content, Share,
       Newest
  <2> QED
    BY <2>1, <2>2, <2>3, <2>4, <2>5, <2>6, <2>7, Zenon DEF Next
<1> QED
  BY <1>1, <1>2, InvHolds, PTL DEF Spec, QueueSpec, Queue!AbsSpec
=============================================================================
