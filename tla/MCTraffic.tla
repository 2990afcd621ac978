------------------------------ MODULE MCTraffic ------------------------------
(***************************************************************************)
(* What the broker sends and how it is shown, for TLC: the messages on     *)
(* their way to the page and the hub they come by (TrafficIntake), the log *)
(* they are filed in (TrafficLog), what a reader's holds keep still of it  *)
(* (TrafficHolds), the filters they are asked for with (ConsoleFilters)    *)
(* and the tree they are unfolded in (TopicRows).  Each is checked over    *)
(* the others standing still: which one moves, and which of its hands act, *)
(* is the part chosen at the start.                                        *)
(***************************************************************************)
EXTENDS Naturals, Sequences, FiniteSets, TLC

CONSTANTS
  None, Sent, PerFrame, QueueCeiling, MaxMessages, MaxOutages, MaxPresses,
  Weights, Budgets, Depth, MinEntries, TopicBytes, LogCeiling, MaxBatch, MaxArrivals,
  TreeCeiling, Spare, MaxHeard, MaxHolds, MaxQueue, MaxClears,
  Filters, FilterTopics, Covers, System, Batch, MaxElse, MaxPicks,
  RowTopics, Looks, Broker, Limit, MaxTurns, MaxClicks, MaxOthers,
  Logged, Parts

VARIABLES
  net, loops, retrying, opened, status, stale, queue, frame, halted, paused, waiting, lost,
  landed, arrivals, goneBy, since, outages, presses,
  log, nextId,
  counts, runs, line, stopped, holds, nextOne, forgotten, fresh, cut, clears,
  held, link, list, fetch, box, untouched, picked, written, sub, drop, dial, tree,
  generation, watch, came, asks, else, picks,
  heard, openPaths, defaultOpen, brokerOpen, selected, look, openedRun, gesture,
  turns, clicks, others,
  part

I == INSTANCE TrafficIntake WITH Topics <- Sent, Ceiling <- QueueCeiling, held <- halted

G == INSTANCE TrafficLog WITH Topics <- Logged, Ceiling <- LogCeiling, Unbounded <- None

H == INSTANCE TrafficHolds WITH
  Topics <- {<<"a", "x">>, <<"a", "y">>, <<"b">>}, Ceiling <- TreeCeiling, MaxMessages <- MaxHeard,
  tree <- counts, log <- runs, queue <- line, paused <- stopped, held <- holds,
  nextId <- nextOne, since <- fresh

\* Two filters that meet on one topic, and the one the broker speaks of itself under.
MCCovers == [f \in {"#", "a", "$SYS"} |-> IF f = "$SYS" THEN {"sys"} ELSE {"a"}]

C == INSTANCE ConsoleFilters WITH Topics <- FilterTopics, presses <- asks

\* A branch of two levels, a topic that is a branch too, an empty level, and a leaf.
MCRowTopics == {<<0, 1>>, <<1>>, <<1, 1, 1>>, <<2>>}

R == INSTANCE TopicRows WITH Topics <- RowTopics, MaxElse <- MaxOthers

ASSUME TrafficAssumption ==
       /\ I!BoundsAssumption /\ G!LogAssumption /\ H!HoldsAssumption
       /\ C!FiltersAssumption /\ R!RowsAssumption /\ R!MarksAssumption

intakeVars == <<net, loops, retrying, opened, status, stale, queue, frame, halted, paused, waiting,
                lost, landed, arrivals, goneBy, since, outages, presses>>
logVars == <<log, nextId>>
holdVars == <<counts, runs, line, stopped, holds, nextOne, forgotten, fresh, cut, clears>>
filterVars == <<held, link, list, fetch, box, untouched, picked, written, sub, drop, dial, tree,
                generation, watch, came, asks, else, picks>>
rowVars == <<heard, openPaths, defaultOpen, brokerOpen, selected, look, openedRun, gesture,
             turns, clicks, others>>
-----------------------------------------------------------------------------
\* The hub's retries; or the queue of a hub that stays up.
QueueSteps == I!Next /\ outages' = 0 /\ loops' = 0
HubSteps == I!HubSteps

\* The filters: what this reader asks for and lets go of, or what others and the link do.
Arrivals == \E t \in FilterTopics : C!Arrives(t)
ReaderSteps == C!Lists \/ C!Subs \/ C!Drops \/ C!Box \/ Arrivals
OtherSteps == C!Lists \/ C!Drops \/ C!Dials \/ C!Others \/ Arrivals

\* Nothing is cleared behind the rail's Stop: a queue waits as long without it.
HoldSteps == H!Next /\ ~(stopped' /\ clears' = 1)

\* A reader folds or clicks, the other at most once among them, or clicks two pairs running.
RowSteps == R!Next /\ (turns' <= 1 \/ clicks' <= 1) /\ (turns' + clicks' <= 3 \/ turns' + others' = 0)

IntakeParts == {"queue", "hub"}
FilterParts == {"reader", "others"}

Init ==
  /\ I!Init /\ G!Init /\ H!Init /\ C!Init /\ R!Init /\ part \in Parts
  /\ part \in FilterParts => \A f \in Filters \ {"a"} : held[f] = {}

Next ==
  /\ UNCHANGED part
  /\ \/ /\ part = "queue" /\ QueueSteps
        /\ UNCHANGED <<logVars, holdVars, filterVars, rowVars>>
     \/ /\ part = "hub" /\ HubSteps
        /\ UNCHANGED <<logVars, holdVars, filterVars, rowVars>>
     \/ /\ part = "log" /\ G!Next
        /\ UNCHANGED <<intakeVars, holdVars, filterVars, rowVars>>
     \/ /\ part = "holds" /\ HoldSteps
        /\ UNCHANGED <<intakeVars, logVars, filterVars, rowVars>>
     \/ /\ part = "reader" /\ ReaderSteps
        /\ UNCHANGED <<intakeVars, logVars, holdVars, rowVars>>
     \/ /\ part = "others" /\ OtherSteps
        /\ UNCHANGED <<intakeVars, logVars, holdVars, rowVars>>
     \/ /\ part = "rows" /\ RowSteps
        /\ UNCHANGED <<intakeVars, logVars, holdVars, filterVars>>

vars == <<intakeVars, logVars, holdVars, filterVars, rowVars, part>>
Spec == Init /\ [][Next]_vars

\* What moves; the rest stands as it began.
View ==
  CASE part \in IntakeParts -> <<part, intakeVars>>
    [] part = "log" -> <<part, logVars>>
    [] part = "holds" -> <<part, holdVars>>
    [] part \in FilterParts -> <<part, filterVars>>
    [] part = "rows" -> <<part, rowVars>>
-----------------------------------------------------------------------------
\* Whatever arrives is in one place, in its order, and the hub it comes by is asked for by one
\* at a time; the log holds and weighs what it says it does, within its ceilings and under the
\* one bound it says it has (trafficBuffer, useHubBridge, logStore).
TrafficAddsUp ==
  /\ I!AllAccountedFor /\ I!LineIsTrue /\ I!NothingCrossesARestart /\ I!OneRetrier
  /\ G!LoadAddsUp /\ G!WithinCeilings /\ G!CapIsEveryRun

\* A topic leaves the log unasked only when the shortest runs would not have fitted either
\* (logStore's budget).
BreadthLast == G!BreadthLast

\* Taking a hold moves nothing, what is held stands still (but for a row whose topics the
\* ceiling forgot, which goes, and comes back when one of them speaks), and letting a hold go
\* brings what its control counts; until the ceiling takes its first topics a branch counts what
\* its rows add up to, and what was cleared stays gone (holds).
HeldStandsStill ==
  /\ H!TakingMovesNothing /\ H!HeldStandsStill /\ H!CountIsWhatComes
  /\ [](H!BranchAddsUp /\ H!ClearedStaysGone)

\* Letting a filter go takes nothing off the screen that is still listened to
\* (useUnsubscribe, clearTraffic).
PrunesTheDeaf == C!PrunesTheDeaf

\* Expand puts the whole of what it names on screen; the second click of a pair on a row that
\* stayed undoes what its first found open and leaves what it opened; and a first click folds
\* nothing.  What the second click of a run does to a row that slid under the pointer, or went
\* and came back, is not its pair's to promise: it turns it over (topicTreeStore, TreeNode).
RowsKeepTheirPromise == R!ExpandShowsIt /\ R!PairKeepsItsPromise /\ R!OneClickHidesNothing
=============================================================================
