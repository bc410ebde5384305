--------------------------- MODULE MuxConnection ---------------------------
(***************************************************************************)
(* The table of streams of a multiplexed connection and its loops:         *)
(* Connection in src/GoTunnel/internal/multiplexer/multiplexer.go without  *)
(* the data of the streams, which MuxStream models.                        *)
(*                                                                         *)
(* NewConnection gives both ends the first identifier 1, so that each end  *)
(* may open a stream the other end has opened under the same number;       *)
(* cnTwice holds those numbers.  CloseStream removes a stream before it    *)
(* writes the reset frame, and a reset frame marks a stream closed but     *)
(* leaves it in the table.  Close waits for the loops before it closes     *)
(* the transport, and readLoop looks at stopCh between frames only.        *)
(***************************************************************************)
EXTENDS Naturals, Sequences, FiniteSets

CONSTANTS Side,         \* the two ends
          MaxStreams,   \* maxStreams
          MaxOpen       \* MaxOpen[e]: bound on OpenStream at e

ASSUME CnAssumption == /\ MaxStreams \in Nat /\ MaxOpen \in [Side -> Nat]
                       /\ \E a, b \in Side : a # b /\ Side = {a, b}

VARIABLES cnTab,        \* cnTab[e][i]: stream i in the table of e
          cnOpened,     \* OpenStream calls of e: nextStreamID is 2 * cnOpened[e] + 1
          cnWire,       \* cnWire[e]: frames on the way to e
          cnClosing,    \* cnClosing[e]: streams removed, reset frame not written
          cnRun,        \* cnRun[e]: "up", "stopping" while Close waits, "closed"
          cnLoops,      \* cnLoops[e]: the loops that run
          cnTwice,      \* identifiers both ends opened
          cnDone        \* cnDone[e]: streams that were closed at e

cnVars == <<cnTab, cnOpened, cnWire, cnClosing, cnRun, cnLoops, cnTwice, cnDone>>

StreamId == UNION {{2 * n - 1 : n \in 1..MaxOpen[e]} : e \in Side}
OtherSide(e) == CHOOSE x \in Side : x # e
CnFrame == [type : {"header", "reset"}, id : StreamId]

CnTypeOK ==
    /\ cnTab \in [Side -> [StreamId -> {"absent", "open", "closed"}]]
    /\ \A e \in Side : cnOpened[e] \in 0..MaxOpen[e]
    /\ cnWire \in [Side -> Seq(CnFrame)]
    /\ cnRun \in [Side -> {"up", "stopping", "closed"}]
    /\ cnLoops \in [Side -> SUBSET {"read", "write"}]
    /\ \A e \in Side : cnRun[e] = "closed" => cnLoops[e] = {}

CnInit ==
    /\ cnTab = [e \in Side |-> [i \in StreamId |-> "absent"]]
    /\ cnOpened = [e \in Side |-> 0]
    /\ cnWire = [e \in Side |-> <<>>]
    /\ cnClosing = [e \in Side |-> {}]
    /\ cnRun = [e \in Side |-> "up"]
    /\ cnLoops = [e \in Side |-> {"read", "write"}]
    /\ cnTwice = {}
    /\ cnDone = [e \in Side |-> {}]

-----------------------------------------------------------------------------
\* writeFrame; the error of a closed transport is ignored by the callers here.
WriteFrame(e, type, i) ==
    cnWire' = IF cnRun[e] = "closed" \/ cnRun[OtherSide(e)] = "closed" THEN cnWire
              ELSE [cnWire EXCEPT ![OtherSide(e)] = Append(@, [type |-> type, id |-> i])]

StreamCount(e) == Cardinality({i \in StreamId : cnTab[e][i] # "absent"})

\* OpenStream, with the header frame it writes under the lock.
OpenStream(e) ==
    LET i == 2 * cnOpened[e] + 1
    IN  /\ cnRun[e] # "closed"
        /\ cnOpened[e] < MaxOpen[e] /\ StreamCount(e) < MaxStreams
        /\ cnTab' = [cnTab EXCEPT ![e][i] = "open"]
        /\ cnOpened' = [cnOpened EXCEPT ![e] = @ + 1]
        /\ WriteFrame(e, "header", i)
        /\ cnTwice' = IF cnOpened[OtherSide(e)] > cnOpened[e] THEN cnTwice \cup {i} ELSE cnTwice
        /\ UNCHANGED <<cnClosing, cnRun, cnLoops, cnDone>>

\* CloseStream: the stream leaves the table, ...
CloseStream(e, i) ==
    /\ cnTab[e][i] # "absent"
    /\ cnTab' = [cnTab EXCEPT ![e][i] = "absent"]
    /\ cnClosing' = [cnClosing EXCEPT ![e] = @ \cup {i}]
    /\ cnDone' = [cnDone EXCEPT ![e] = @ \cup {i}]
    /\ UNCHANGED <<cnOpened, cnWire, cnRun, cnLoops, cnTwice>>

SendResetSilent(e, i) ==
    /\ i \in cnClosing[e]
    /\ cnClosing' = [cnClosing EXCEPT ![e] = @ \ {i}]
    /\ UNCHANGED <<cnTab, cnOpened, cnWire, cnRun, cnLoops, cnTwice, cnDone>>

\* ... and the peer is told, after the lock is released.
SendReset(e, i) ==
    /\ i \in cnClosing[e]
    /\ cnClosing' = [cnClosing EXCEPT ![e] = @ \ {i}]
    /\ WriteFrame(e, "reset", i)
    /\ UNCHANGED <<cnTab, cnOpened, cnRun, cnLoops, cnTwice, cnDone>>

\* readLoop: readFrame and handleFrame.  A loop that was reading when Close
\* stopped the connection takes one more frame.
NextFrameIs(e, type) == "read" \in cnLoops[e] /\ cnWire[e] # <<>> /\ Head(cnWire[e]).type = type
Reading(e) == /\ cnWire' = [cnWire EXCEPT ![e] = Tail(@)]
              /\ cnLoops' = IF cnRun[e] = "up" THEN cnLoops ELSE [cnLoops EXCEPT ![e] = @ \ {"read"}]

HeaderFrame(e) ==
    LET i == Head(cnWire[e]).id
    IN  /\ NextFrameIs(e, "header") /\ Reading(e)
        /\ cnTab' = IF cnTab[e][i] = "absent" THEN [cnTab EXCEPT ![e][i] = "open"] ELSE cnTab
        /\ UNCHANGED <<cnOpened, cnClosing, cnRun, cnTwice, cnDone>>

\* A reset frame closes the stream, whoever opened it.
ResetFrame(e) ==
    LET i == Head(cnWire[e]).id
    IN  /\ NextFrameIs(e, "reset") /\ Reading(e)
        /\ cnTab' = [cnTab EXCEPT ![e][i] = IF @ = "absent" THEN "absent" ELSE "closed"]
        /\ cnDone' = IF cnTab[e][i] = "absent" THEN cnDone ELSE [cnDone EXCEPT ![e] = @ \cup {i}]
        /\ UNCHANGED <<cnOpened, cnClosing, cnRun, cnTwice>>

\* writeLoop sees stopCh; readLoop sees io.EOF once the peer has closed the
\* transport.
LoopEnds(e) ==
    /\ \/ "write" \in cnLoops[e] /\ cnRun[e] = "stopping" /\ cnLoops' = [cnLoops EXCEPT ![e] = @ \ {"write"}]
       \/ /\ "read" \in cnLoops[e] /\ cnWire[e] = <<>> /\ cnRun[OtherSide(e)] = "closed"
          /\ cnLoops' = [cnLoops EXCEPT ![e] = @ \ {"read"}]
    /\ UNCHANGED <<cnTab, cnOpened, cnWire, cnClosing, cnRun, cnTwice, cnDone>>

\* Close: stop, which may find readLoop between two frames, ...
StopConnection(e) ==
    /\ cnRun[e] = "up"
    /\ cnRun' = [cnRun EXCEPT ![e] = "stopping"]
    /\ cnLoops' \in {cnLoops, [cnLoops EXCEPT ![e] = @ \ {"read"}]}
    /\ UNCHANGED <<cnTab, cnOpened, cnWire, cnClosing, cnTwice, cnDone>>

\* ... and, once both loops have returned, every stream closed and the
\* transport with them.
CloseConnection(e) ==
    /\ cnRun[e] = "stopping" /\ cnLoops[e] = {}
    /\ cnRun' = [cnRun EXCEPT ![e] = "closed"]
    /\ cnTab' = [cnTab EXCEPT ![e] = [i \in StreamId |-> IF @[i] = "absent" THEN "absent" ELSE "closed"]]
    /\ cnDone' = [cnDone EXCEPT ![e] = @ \cup {i \in StreamId : cnTab[e][i] # "absent"}]
    /\ UNCHANGED <<cnOpened, cnWire, cnClosing, cnLoops, cnTwice>>

CnNext ==
    \E e \in Side : \/ OpenStream(e) \/ HeaderFrame(e) \/ ResetFrame(e)
                    \/ LoopEnds(e) \/ StopConnection(e) \/ CloseConnection(e)
                    \/ \E i \in StreamId : CloseStream(e, i) \/ SendReset(e, i)

CnSpec == CnInit /\ [][CnNext]_cnVars

-----------------------------------------------------------------------------
(***************************************************************************)
(* Properties.                                                             *)
(***************************************************************************)
\* When the frames of both ends have been handled, a stream that one end opened
\* is open at both ends or at neither, however OpenStream, CloseStream and the
\* read loops interleave.
Quiet == \A e \in Side : cnRun[e] = "up" /\ cnWire[e] = <<>> /\ cnClosing[e] = {}
StreamsAgree ==
    Quiet => \A e \in Side, i \in StreamId \ cnTwice :
                 cnTab[e][i] = "open" => cnTab[OtherSide(e)][i] = "open"

\* A stream that one end opened and that CloseStream, a reset frame or Close
\* closed is not open again at that end.
NotReopened == \A e \in Side, i \in StreamId \ cnTwice : i \in cnDone[e] => cnTab[e][i] # "open"

\* The tables of both ends: a stream ends at both, and for good.
StreamsSound == StreamsAgree /\ NotReopened
=============================================================================
