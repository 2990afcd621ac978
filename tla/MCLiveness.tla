----------------------------- MODULE MCLiveness -----------------------------
(***************************************************************************)
(* What the console is sure to come to, for TLC: a test's buttons          *)
(* (FlowTests), the canvas's picks (FlowPicks) and routes (FlowRoutes), a  *)
(* queue that is not held and a hub that went (TrafficIntake), the beat a  *)
(* link has to hold (BrokerPanel), and the list after a filter was let go  *)
(* of (ConsoleFilters).  Each moves on its own, under its module's own     *)
(* fairness: which one is the part chosen at the start, and nothing is     *)
(* asked of the others.                                                    *)
(***************************************************************************)
EXTENDS Naturals, Sequences, FiniteSets, TLC

CONSTANTS
  None, StartId,
  MaxPushes, MaxWay, MaxTests,
  States, MaxPlace,
  PerFrame, Ceiling, MaxMessages, MaxOutages, MaxPresses,
  MaxEdits, MaxDials, MaxMoves,
  Batch, MaxAsks, MaxElse, MaxPicks,
  Parts

VARIABLES
  run, way, pushes, picture, starting, stopping, catching, adrift, letGo,
  present, picked, selected, wire, mounted, anew, drawn, ran,
  place, dragging, redrawn, plan, need,
  net, loops, retrying, opened, status, stale, queue, frame, halted, paused, waiting, lost,
  landed, arrivals, goneBy, since, outages, presses,
  form, box, said, leaving, saved, profiles, from, keeping, mutation, outcome,
  srv, shown, wasOnline, settling, openedByFault, open, chain, edits, moves,
  held, link, list, fetch, asked, untouched, chosen, written, sub, drop, dial, tree,
  generation, watch, came, asks, else, picks,
  part

T == INSTANCE FlowTests

P == INSTANCE FlowPicks WITH Nodes <- {StartId, "n"}, Wires <- {"v", "w"}

MCWires == {<<"a", "b">>, <<"a", "c">>, <<"b", "c">>}
O == INSTANCE FlowRoutes WITH
  Nodes <- {"a", "b", "c"}, Wires <- MCWires,
  Order <- <<<<"a", "b">>, <<"a", "c">>, <<"b", "c">>>>, Needs <- {2, 9}

I == INSTANCE TrafficIntake WITH Topics <- {"s", "t"}, held <- halted

B == INSTANCE BrokerPanel WITH
  Hosts <- {"a", "b"}, Home <- "a", OwnPort <- 9, Names <- {}, link <- shown,
  Texts <- {[scheme |-> None, host |-> "b", port |-> None]}

MCCovers == [f \in {"#", "a", "$SYS"} |-> IF f = "$SYS" THEN {"sys"} ELSE {"a"}]
C == INSTANCE ConsoleFilters WITH
  Filters <- DOMAIN MCCovers, Topics <- {"a", "sys"}, Covers <- MCCovers, System <- "$SYS",
  box <- asked, picked <- chosen, MaxPresses <- MaxAsks, presses <- asks

ASSUME P!FlowPicksAssumption /\ O!FlowRoutesAssumption

testVars == <<run, way, pushes, picture, starting, stopping, catching, adrift, letGo>>
pickVars == <<present, picked, selected, wire, mounted, anew, drawn, ran>>
routeVars == <<place, dragging, redrawn, plan, need>>
intakeVars == <<net, loops, retrying, opened, status, stale, queue, frame, halted, paused, waiting,
                lost, landed, arrivals, goneBy, since, outages, presses>>
panelVars == <<form, box, said, leaving, saved, profiles, from, keeping, mutation, outcome,
               srv, shown, wasOnline, settling, openedByFault, open, chain, edits, moves>>
filterVars == <<held, link, list, fetch, asked, untouched, chosen, written, sub, drop, dial, tree,
                generation, watch, came, asks, else, picks>>
vars == <<testVars, pickVars, routeVars, intakeVars, panelVars, filterVars, part>>
-----------------------------------------------------------------------------
\* The Broker panel as an attempt or a fault moves its link, and nobody edits the form.
BeatReasons == {"worked", "timeout", "tlsNotOffered", "aborted"}
BeatSteps == (B!Submit /\ Len(chain) < 2) \/ B!RetryOn \/ B!DialAnswered \/ B!LinkMoves
             \/ B!StateArrives \/ B!BeatEnds \/ (\E r \in BeatReasons : B!DialEnds(r))

\* Two nodes of the drawing, dragged one at a time.
RouteSteps == O!Next /\ Cardinality(dragging') <= 1 /\ "c" \notin dragging' /\ place'["c"] = 0

\* The filters with the box as the last pick left it.
FilterSteps == C!Lists \/ C!Subs \/ C!Drops \/ (\E f \in DOMAIN MCCovers : C!Pick(f))
               \/ C!Focus \/ C!LinkTurns \/ \E o \in C!Owners : C!ClaimElsewhere("a", o)

Init ==
  /\ T!Init /\ P!Init /\ O!Init /\ I!Init /\ B!Init /\ C!Init /\ part \in Parts
  /\ part # "picks" => present = {P!NodePick(StartId)}
  /\ part # "routes" => \A w \in MCWires : need[w] = 2
  /\ part # "beat" => openedByFault
  /\ \A f \in DOMAIN MCCovers : (part # "filters" \/ f # "a") => held[f] = {}
  /\ part # "filters" => dial = <<>>

Next ==
  /\ UNCHANGED part
  /\ \/ /\ part = "tests" /\ T!Next
        /\ UNCHANGED <<pickVars, routeVars, intakeVars, panelVars, filterVars>>
     \/ /\ part = "picks" /\ P!Next
        /\ UNCHANGED <<testVars, routeVars, intakeVars, panelVars, filterVars>>
     \/ /\ part = "routes" /\ RouteSteps
        /\ UNCHANGED <<testVars, pickVars, intakeVars, panelVars, filterVars>>
     \/ /\ part = "intake" /\ I!Next
        /\ UNCHANGED <<testVars, pickVars, routeVars, panelVars, filterVars>>
     \/ /\ part = "beat" /\ BeatSteps
        /\ UNCHANGED <<testVars, pickVars, routeVars, intakeVars, filterVars>>
     \/ /\ part = "filters" /\ FilterSteps
        /\ UNCHANGED <<testVars, pickVars, routeVars, intakeVars, panelVars>>

\* The fairness of each module, asked of it alone.
Fairness ==
  /\ WF_testVars(part = "tests" /\ T!TestMoves) /\ WF_testVars(part = "tests" /\ T!StopMoves)
  /\ WF_pickVars(part = "picks" /\ P!Render) /\ WF_pickVars(part = "picks" /\ P!Follow)
  /\ WF_routeVars(part = "routes" /\ O!Ask)
  /\ WF_intakeVars(part = "intake" /\ I!Frame) /\ WF_intakeVars(part = "intake" /\ I!Start)
  /\ WF_intakeVars(part = "intake" /\ (I!StartWorks \/ I!StartFails))
  /\ WF_intakeVars(part = "intake" /\ (I!AutoWorks \/ I!Closed)) /\ WF_intakeVars(part = "intake" /\ I!RetryWorks)
  /\ WF_panelVars(part = "beat" /\ B!StateArrives) /\ WF_panelVars(part = "beat" /\ B!BeatEnds)
  /\ WF_panelVars(part = "beat" /\ \E r \in BeatReasons : B!DialEnds(r))
  /\ WF_panelVars(part = "beat" /\ B!DialAnswered)
  /\ WF_filterVars(part = "filters" /\ C!ServeList) /\ WF_filterVars(part = "filters" /\ C!ListLands)
  /\ \A f \in DOMAIN MCCovers : WF_filterVars(part = "filters" /\ C!LetGoAnswered(f))

Spec == Init /\ [][Next]_vars /\ Fairness
-----------------------------------------------------------------------------
\* Neither Test nor Stop is held for good, whatever the hub does (useTest).
ButtonsComeBack == T!ButtonsComeBack

\* The picks of the canvas, the store and the palette come to one, and agree once they have; and
\* of the wires a drag moves, one whose way fits keeps being drawn on it, while the others run
\* as the drawing at rest had them (FlowCanvas, backWires).
CanvasSettles == P!PicksSettle /\ O!NoTurnKept /\ [](P!PicksAgree /\ O!RoutesAtRest)

\* A queue nobody holds comes in, and a hub that went is put back, said so, and what it missed
\* is fetched (trafficBuffer, useHubBridge).
IntakeGoesOn == I!QueueDrains /\ I!HubRecovers

\* The beat a link has to hold ends, and the list forgets a filter that was let go of, whatever
\* reads of it were out (BrokerPanel, useSubscriptions).
AnswersSettle == B!SettlingEnds /\ C!LetGoIsListed
=============================================================================
