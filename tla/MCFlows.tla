------------------------------- MODULE MCFlows -------------------------------
(***************************************************************************)
(* The flow page for TLC: the drafts of FlowDrafts, and the test of one    *)
(* flow of FlowTests. They share nothing, so they stand side by side here: *)
(* which one moves, and which of its hands act, is the part chosen at the  *)
(* start.                                                                  *)
(***************************************************************************)
EXTENDS Naturals, Sequences, FiniteSets, TLC

CONSTANTS
  Flows, Tabs, Drawings, None, Fresh, Unread, OfDraft, Whole, MaxHeard, MaxOthers,
  MaxPushes, MaxWay, MaxTests,
  MaxAdrift,  \* bound: requests the page gave up on, still on their way at once
  t1, t2, f1, Parts

VARIABLES
  server, kept, full, heard, page, read, save, test, del, others, crossed,
  run, way, pushes, picture, starting, stopping, catching, adrift, letGo,
  part

D == INSTANCE FlowDrafts
T == INSTANCE FlowTests

ASSUME FlowsAssumption == D!FlowDraftsAssumption /\ T!FlowTestsAssumption

drafts == <<server, kept, full, heard, page, read, save, test, del, others, crossed>>
tests == <<run, way, pushes, picture, starting, stopping, catching, adrift, letGo>>
vars == <<drafts, tests, part>>

Symmetry == Permutations(Drawings)
-----------------------------------------------------------------------------
\* The second tab takes in each write of the first before anything else happens.
Followed == \A f \in Flows : heard[t2][f] = <<>>
Follow == \E f \in Flows : D!Hear(t2, f)

AnEdit(t) == \E d \in Drawings : D!Edit(t, d)

\* One flow and one reader, who edits and saves beside other consoles.
Editing ==
  \/ AnEdit(t1) \/ D!Discard(t1) \/ D!Keep(t1) \/ D!Reload(t1)
  \/ D!OnPage(page[t1]) = {} /\ \E d \in Drawings : D!NewFlow(t1, d)
  \/ (\E k \in D!Kinds : D!Press(t1, k))
  \/ D!Reads(t1) \/ D!Saves(t1)
  \/ \E copy \in D!Copy : D!OtherChanges(f1, copy)

\* Two flows, of which one is drafted and two drawings are about: which is on screen, what is
\* picked, and what is refused or deleted; the other console changes one of them.
OneDraft == \A f \in Flows : page[t1].drafts[f] = None
About == {server'[f].says : f \in {g \in Flows : server'[g] # None}}
         \union {page'[t1].drafts[f].says : f \in {g \in Flows : page'[t1].drafts[g] # None}}

Paging ==
  /\ \/ OneDraft /\ (AnEdit(t1) \/ \E d \in Drawings : D!NewFlow(t1, d))
     \/ D!Discard(t1) \/ D!ShowFlow(t1) \/ D!Pick(t1)
     \/ D!PressTest(t1) \/ D!PressDelete(t1)
     \/ D!Reads(t1) \/ D!TestLands(t1) \/ D!DeleteServed(t1) \/ D!DeleteLands(t1)
     \/ \E copy \in {c \in D!Copy : c = None \/ c.on} : D!OtherChanges(f1, copy)
  /\ Cardinality(About) <= 2

\* Two tabs on one storage, which may fill up or be cleared, each at most one write behind and
\* each reading the list once; and one that saves, while the other lets go of what is saved.
Sharing ==
  /\ \/ \E t \in Tabs : AnEdit(t) \/ D!Discard(t) \/ D!Hear(t, f1)
     \/ \E t \in Tabs : page[t].list = Unread /\ D!Reads(t)
     \/ D!Reload(t2) \/ D!StorageFills \/ D!StorageCleared
  /\ save[t1] = D!Idle

Saving ==
  /\ Followed \/ save[t1] # D!Idle
  /\ ~full /\ read[t2] = D!Idle
  /\ \/ D!Press(t1, "update") \/ D!Saves(t1) \/ D!Discard(t2)
     \/ \E t \in Tabs : D!Hear(t, f1)

OneBehind == \A t \in Tabs, f \in Flows : Len(heard'[t][f]) <= 1

Drafts ==
  \/ part = "edit" /\ IF Followed THEN Editing ELSE Follow
  \/ part = "page" /\ IF Followed THEN Paging ELSE Follow
  \/ part = "tabs" /\ (Sharing \/ Saving) /\ OneBehind

Init ==
  /\ D!Init /\ T!Init /\ part \in Parts
  /\ part # "page" => \A f \in Flows \ {f1} : server[f] = None
  /\ part = "test" => server[f1] = None

Next ==
  /\ UNCHANGED part
  /\ \/ Drafts /\ UNCHANGED tests
     \/ part = "test" /\ T!Next /\ Cardinality(adrift') <= MaxAdrift /\ UNCHANGED drafts

Spec == Init /\ [][Next]_vars

\* What moves; the rest stands as it began.
View == IF part = "test" THEN <<part, tests>> ELSE <<part, drafts>>
-----------------------------------------------------------------------------
\* The pieces of a tab agree: a refusal has its subject on screen, what is picked is in the
\* flow shown, and two tabs that have heard each other hold the same drafts
\* (flowDraftStore, flowsStore, FlowsPage).
PagesAgree ==
  IF part = "test" THEN T!TypeOK
  ELSE D!TypeOK /\ D!RefusalsHaveTheirSubject /\ D!PickIsOnScreen /\ D!TabsAgree

\* What a reader has changed stays on screen through every save, read and refusal, until they
\* discard it or delete the flow (FlowsPage's settle, useSave).
ChangesStayOnScreen == D!ChangesStayOnScreen

\* A save replaces only the copy its drawing was made on, and only a flow switched as its
\* button said (useSave's weighing of a press).
NoBlindOverwrite == D!NoBlindOverwrite

\* Stop reaches a test once, but by the ways FlowTests names, a lost answer among them; and a
\* status read never takes the numbers back behind a push (useTest's holds, flowStatusStore's
\* catchUp).
TestsAreAnswered == T!StopsOnce /\ T!AnswersNeverGoBack
=============================================================================
