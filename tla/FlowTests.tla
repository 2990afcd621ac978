------------------------------ MODULE FlowTests ------------------------------
(***************************************************************************)
(* One flow's test as a console sees it: the press of Test and of Stop,    *)
(* each of which holds its own button off, the numbers the hub pushes, and *)
(* the status read that catches up with them.                              *)
(*                                                                         *)
(* The numbers name no test: a picture says only whether a test of the     *)
(* flow is there, and whether it is going.                                 *)
(***************************************************************************)
EXTENDS Naturals, Sequences

CONSTANTS
  MaxPushes,   \* bound: what the hub has sent
  MaxWay,      \* bound: what is on the hub's way at once
  MaxTests     \* bound: tests started

FlowTestsAssumption ==
  /\ MaxPushes \in Nat /\ MaxWay \in Nat /\ MaxTests \in Nat

VARIABLES
  run,       \* the server's test of the flow: none, going or over, and which it is; ghost:
             \* whether a Stop ended it
  way,       \* what the hub has sent and the console not yet had, in order
  pushes,    \* how many messages the hub has sent: the time of a picture
  picture,   \* runs: what the console last took in, when the server made it
             \* and (ghost) of which test
  starting,  \* the hold on Test, and where its request is
  stopping,  \* the hold on Stop, and where its request is
  catching,  \* the status read that is out, and whether the picture is the one it was asked at
  adrift,    \* which requests the page gave up on before the server had them
  letGo      \* ghost: a hold was let go otherwise than by a push made of its test

vars == <<run, way, pushes, picture, starting, stopping, catching, adrift, letGo>>

Going == {"none", "going", "over"}

\* A hold is free; on, with its request out, answered or taken by the server; or waiting
\* for a push that is newer than the picture it was answered at.
Free == [stage |-> "free"]
-----------------------------------------------------------------------------
(* The picture and the holds.                                              *)

\* tested, stopped: what a push must show to free Test, and to free Stop.
Tested(test) == test # "none"
\* Mutant: any push frees Stop.
StoppedByAnything(test) == test # "unheard"

Stopped(test) == test # "going"

\* Every push builds a new picture, and frees the holds it is newer than and bears out.
Freed(hold, done) == IF hold.stage = "waiting" /\ done THEN Free ELSE hold

Took(test, made, of) ==
  /\ picture' = [test |-> test, made |-> made, of |-> of]
  /\ starting' = Freed(starting, Tested(test))
  /\ stopping' = Freed(stopping, Stopped(test))

\* A picture of the test before frees Test.
FreedEarly(of) == starting' # starting /\ of # run.number

\* Nothing of an earlier test is on its way, and the page shows none going.
Quiet == /\ way = <<>> /\ catching = Free /\ stopping = Free /\ adrift = {}
         /\ picture.test # "going"
-----------------------------------------------------------------------------
(* Test and Stop.                                                          *)

PressTest ==
  /\ picture.test # "going" /\ starting = Free /\ stopping.stage \notin {"out", "done"}
  /\ run.number < MaxTests
  /\ starting' = [stage |-> "out"]
  /\ UNCHANGED <<run, way, pushes, picture, stopping, catching, adrift, letGo>>

PressStop ==
  /\ picture.test = "going" /\ stopping = Free /\ starting.stage \notin {"out", "done"}
  /\ stopping' = [stage |-> "out"]
  /\ UNCHANGED <<run, way, pushes, picture, starting, catching, adrift, letGo>>

\* The server starts the test, over whatever test there was.
Starts ==
  /\ run.number < MaxTests
  /\ run' = [test |-> "going", number |-> run.number + 1, stopped |-> FALSE]

\* It stops a test that is going, throws away one that is not, and knows no other; all three
\* are an answer.
Stops ==
  run' = IF run.test = "going" THEN [run EXCEPT !.test = "over", !.stopped = TRUE]
         ELSE [run EXCEPT !.test = "none"]

\* A test taken with nothing of another about is a fresh start: what was let go before is past.
TestTaken ==
  /\ starting.stage = "out" /\ Starts
  /\ starting' = [stage |-> "done"]
  /\ letGo' = (letGo /\ ~Quiet)
  /\ UNCHANGED <<way, pushes, picture, stopping, catching, adrift>>

StopTaken ==
  /\ stopping.stage = "out" /\ Stops
  /\ stopping' = [stage |-> "done"]
  /\ UNCHANGED <<way, pushes, picture, starting, catching, adrift, letGo>>

\* Refused, or not reached: the button is free at once.
TestNotTaken ==
  /\ starting.stage = "out"
  /\ starting' = Free
  /\ UNCHANGED <<run, way, pushes, picture, stopping, catching, adrift, letGo>>

\* Mutant: a Stop that never arrived leaves the button off.
StopNotTakenHeld ==
  /\ stopping.stage = "out"
  /\ stopping' = [stage |-> "held"]
  /\ UNCHANGED <<run, way, pushes, picture, starting, catching, adrift, letGo>>

StopNotTaken ==
  /\ stopping.stage = "out"
  /\ stopping' = Free
  /\ UNCHANGED <<run, way, pushes, picture, starting, catching, adrift, letGo>>

\* From its answer, a push can free the button, and so will the time.
TestAnswered ==
  /\ starting.stage = "done"
  /\ starting' = [stage |-> "waiting"]
  /\ UNCHANGED <<run, way, pushes, picture, stopping, catching, adrift, letGo>>

StopAnswered ==
  /\ stopping.stage = "done"
  /\ stopping' = [stage |-> "waiting"]
  /\ UNCHANGED <<run, way, pushes, picture, starting, catching, adrift, letGo>>

\* PATIENCE_MS, or a connection cut: the button is free at once here too, though the server
\* has the press, or may have it yet.
TestGivenUp ==
  /\ \/ starting.stage = "done" /\ UNCHANGED adrift
     \/ starting.stage = "out" /\ adrift' = adrift \union {"test"}
  /\ starting' = Free /\ letGo' = TRUE
  /\ UNCHANGED <<run, way, pushes, picture, stopping, catching>>

StopGivenUp ==
  /\ \/ stopping.stage = "done" /\ UNCHANGED adrift
     \/ stopping.stage = "out" /\ adrift' = adrift \union {"stop"}
  /\ stopping' = Free /\ letGo' = TRUE
  /\ UNCHANGED <<run, way, pushes, picture, starting, catching>>

TestComesLate ==
  /\ "test" \in adrift /\ Starts
  /\ adrift' = adrift \ {"test"}
  /\ UNCHANGED <<way, pushes, picture, starting, stopping, catching, letGo>>

StopComesLate ==
  /\ "stop" \in adrift /\ Stops
  /\ adrift' = adrift \ {"stop"}
  /\ UNCHANGED <<way, pushes, picture, starting, stopping, catching, letGo>>

NeverComes ==
  /\ adrift # {} /\ \E r \in adrift : adrift' = adrift \ {r}
  /\ UNCHANGED <<run, way, pushes, picture, starting, stopping, catching, letGo>>

\* HOLD_MS after the answer, without a push that says so.
TestLapses ==
  /\ starting.stage = "waiting" /\ starting' = Free /\ letGo' = TRUE
  /\ UNCHANGED <<run, way, pushes, picture, stopping, catching, adrift>>

StopLapses ==
  /\ stopping.stage = "waiting" /\ stopping' = Free /\ letGo' = TRUE
  /\ UNCHANGED <<run, way, pushes, picture, starting, catching, adrift>>
-----------------------------------------------------------------------------
(* The server and the hub.                                                 *)

\* The test comes to its End, or another console stops it.
TestEnds ==
  /\ run.test = "going"
  /\ run' = [run EXCEPT !.test = "over"]
  /\ UNCHANGED <<way, pushes, picture, starting, stopping, catching, adrift, letGo>>

\* Another console starts one, under whatever this page holds.
OthersTest ==
  /\ Starts /\ letGo' = TRUE
  /\ UNCHANGED <<way, pushes, picture, starting, stopping, catching, adrift>>

\* The hub sends the numbers.
HubSends ==
  /\ pushes < MaxPushes /\ Len(way) < MaxWay
  /\ pushes' = pushes + 1
  /\ way' = Append(way, [test |-> run.test, made |-> pushes', of |-> run.number])
  /\ UNCHANGED <<run, picture, starting, stopping, catching, adrift, letGo>>

SetStatus ==
  /\ way # <<>>
  /\ Took(Head(way).test, Head(way).made, Head(way).of)
  /\ way' = Tail(way)
  /\ catching' = IF catching = Free THEN Free ELSE [catching EXCEPT !.same = FALSE]
  /\ letGo' = (letGo \/ FreedEarly(Head(way).of))
  /\ UNCHANGED <<run, pushes, adrift>>

\* The hub goes, with what it had sent.
HubLost ==
  /\ way # <<>> /\ way' = <<>>
  /\ UNCHANGED <<run, pushes, picture, starting, stopping, catching, adrift, letGo>>

\* catchUp: a hub just back asks, with nothing on the way, ...
CatchUp ==
  /\ catching = Free /\ way = <<>>
  /\ catching' = [stage |-> "out", same |-> TRUE]
  /\ UNCHANGED <<run, way, pushes, picture, starting, stopping, adrift, letGo>>

\* ... and so does a page just opened, which holds nothing and waits for nothing.
PageOpens ==
  /\ catching' = [stage |-> "out", same |-> TRUE]
  /\ starting' = Free /\ stopping' = Free
  /\ adrift' = adrift \union {r \in {"test"} : starting.stage = "out"}
                     \union {r \in {"stop"} : stopping.stage = "out"}
  /\ letGo' = (letGo \/ starting # Free \/ stopping # Free)
  /\ UNCHANGED <<run, way, pushes, picture>>

StatusServed ==
  /\ catching.stage = "out"
  /\ catching' = [stage |-> "back", same |-> catching.same, test |-> run.test, made |-> pushes,
               of |-> run.number]
  /\ UNCHANGED <<run, way, pushes, picture, starting, stopping, adrift, letGo>>

\* The answer counts only if no push came while it was out.
StatusLands ==
  /\ catching.stage = "back"
  /\ IF catching.same THEN Took(catching.test, catching.made, catching.of)
     ELSE UNCHANGED <<picture, starting, stopping>>
  /\ catching' = Free
  /\ letGo' = \/ letGo \/ stopping' # stopping \/ FreedEarly(catching.of)
              \/ way # <<>> /\ picture' # picture
  /\ UNCHANGED <<run, way, pushes, adrift>>
-----------------------------------------------------------------------------
Init ==
  /\ run = [test |-> "none", number |-> 0, stopped |-> FALSE]
  /\ way = <<>> /\ pushes = 0 /\ picture = [test |-> "none", made |-> 0, of |-> 0]
  /\ starting = Free /\ stopping = Free /\ catching = Free
  /\ adrift = {} /\ letGo = FALSE

TestMoves == TestTaken \/ TestNotTaken \/ TestAnswered \/ TestGivenUp \/ TestLapses
StopMoves == StopTaken \/ StopNotTaken \/ StopAnswered \/ StopGivenUp \/ StopLapses

Next ==
  \/ PressTest \/ PressStop \/ TestMoves \/ StopMoves
  \/ TestComesLate \/ StopComesLate \/ NeverComes
  \/ TestEnds \/ OthersTest \/ HubSends \/ SetStatus \/ HubLost
  \/ CatchUp \/ PageOpens \/ StatusServed \/ StatusLands

\* A request is answered, or fails, and a timer runs out.
Fairness == WF_vars(TestMoves) /\ WF_vars(StopMoves)

Spec == Init /\ [][Next]_vars /\ Fairness
-----------------------------------------------------------------------------
\* Every variable holds a value of its kind.
TypeOK ==
  /\ run \in [test : Going, number : 0..MaxTests, stopped : BOOLEAN]
  /\ pushes \in 0..MaxPushes /\ picture.test \in Going /\ picture.made \in 0..MaxPushes
  /\ {starting.stage, stopping.stage} \subseteq {"free", "out", "done", "waiting"}
  /\ catching.stage \in {"free", "out", "back"} /\ adrift \subseteq {"test", "stop"}

\* A Stop never reaches a test that an earlier Stop ended, which the server would throw away
\* with its counters, however slow the hub.  What the code lets through is named by letGo, and
\* passes with the next test this page starts over nothing of another: a press given up on,
\* which frees its button though the server may have it (useTest.ts 158, 179-181); a hold let go
\* by its time; the page opened anew; a status read ahead of the pushes; Test freed by a push of
\* the test before (106-111); another console starting a test.
StopsOnce ==
  [][(StopTaken \/ StopComesLate) /\ run.test = "over" /\ run.stopped => letGo]_vars

\* An answer to a status read never takes the numbers back behind a push that came first.
AnswersNeverGoBack == [][StatusLands => picture'.made >= picture.made]_vars

\* A button is not off for good, whatever the hub does.
ButtonsComeBack ==
  /\ starting.stage # "free" ~> starting.stage = "free"
  /\ stopping.stage # "free" ~> stopping.stage = "free"
=============================================================================
