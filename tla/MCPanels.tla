------------------------------ MODULE MCPanels ------------------------------
(***************************************************************************)
(* What stands round the traffic, for TLC: the watch on the link and its   *)
(* notice (LinkWatch), the Broker panel (BrokerPanel), the Publish panel   *)
(* (PublishForm), the alarms on screen and their tone (Alerts,             *)
(* AlertSound), and the floating windows (FloatWindows).  Each keeps a     *)
(* state of its own, so they stand side by side here: which one moves, and *)
(* which of its hands act, is the part chosen at the start.                *)
(***************************************************************************)
EXTENDS FloatWindows, FiniteSets, Functions, TLC

CONSTANTS
  Brokers, MaxSessions, MaxLinkMoves,
  Hosts, Home, OwnPort, Texts, Names, MaxEdits, MaxDials, MaxPanelMoves,
  Topics, Places, Ways, Modes, Keep0, Typed0, Default, MaxMessages, MaxSheetMoves, MaxPresses,
  Alarms, Depth, MaxLoads, MaxOutages, MaxTotal, MaxMutes, MaxWire, MaxAsked,
  x, Parts

VARIABLES
  srv, ladder, peer, cache, status, reply, ran, watch, linkAt, sameTree, marked,
  rows, faded, sooner, dial, open, linkMoves, loose, met,
  form, box, said, leaving, saved, profiles, from, keeping, mutation, outcome,
  panelSrv, link, wasOnline, settling, openedByFault, panelOpen, chain, edits, panelMoves,
  heard, live, frozen, log, held, draft, way, sheet, sending, fault, aimed, sheetMoves, presses,
  engine, raisedEver, hub, wire, store, syncing, pending, generation, loads, landed,
  early, tainted, outages, mutes,
  on, context, armed, waiting, gesture, asked, pressing,
  part

L == INSTANCE LinkWatch WITH MaxMoves <- MaxLinkMoves, moves <- linkMoves

MCTexts ==
  {[scheme |-> None, host |-> "b", port |-> None], [scheme |-> "amqp", host |-> "b", port |-> None],
   [scheme |-> "wss", host |-> None, port |-> None], [scheme |-> "ssl", host |-> "b", port |-> None],
   [scheme |-> None, host |-> "a", port |-> 8883], [scheme |-> "http", host |-> "a", port |-> 9]}

B == INSTANCE BrokerPanel WITH
  MaxMoves <- MaxPanelMoves, srv <- panelSrv, open <- panelOpen, moves <- panelMoves

MCDefault == [topic |-> "sensors/temp", mode |-> "text", way |-> "q0"]

F == INSTANCE PublishForm WITH
  Keep <- Keep0, Typed <- Typed0, MaxMoves <- MaxSheetMoves,
  said <- heard, form <- sheet, pending <- sending, moves <- sheetMoves

A == INSTANCE Alerts
S == INSTANCE AlertSound

ASSUME PanelsAssumption ==
  /\ L!SessionsAssumption /\ F!FormAssumption /\ A!AlertsAssumption
  /\ B!HostsAssumption /\ B!PortAssumption /\ B!TextsAssumption

linkVars == <<srv, ladder, peer, cache, status, reply, ran, watch, linkAt, sameTree, marked,
              rows, faded, sooner, dial, open, linkMoves, loose, met>>
panelVars == <<form, box, said, leaving, saved, profiles, from, keeping, mutation, outcome,
               panelSrv, link, wasOnline, settling, openedByFault, panelOpen, chain, edits,
               panelMoves>>
sheetVars == <<heard, live, frozen, log, held, draft, way, sheet, sending, fault, aimed,
               sheetMoves, presses>>
alertVars == <<engine, raisedEver, hub, wire, store, syncing, pending, generation, loads, landed,
               early, tainted, outages, mutes>>
soundVars == <<on, context, armed, waiting, gesture, asked, pressing>>

MCViewports == {[w |-> 12, h |-> 12], [w |-> 7, h |-> 4]}
MCPulls == {<<-6, 5>>, <<5, -4>>}
-----------------------------------------------------------------------------
\* The link: what the tree keeps of it over three sessions, cleared in the first of them, or over
\* two, hung up between; the words of its notice, over two; and the panel it opens.  A ladder that
\* was stopped tells the tree nothing, and is left to the last two.
Fetches == L!Fetched \/ L!FetchLands
Connects == (\E b \in Brokers : L!Connect(b)) \/ L!ConnectAnswered

Climbs == ladder' # "stopped"
Stays == srv'.state # "Disconnected"
HungSteps == (L!Server /\ Climbs) \/ L!Pushed \/ L!Arrives \/ L!Render \/ Connects
TreeSteps == HungSteps \/ Fetches \/ (L!ClearsTraffic /\ srv.sess <= 1)
NoticeSteps == (L!Server /\ srv'.sess <= 2) \/ L!Pushed \/ L!StatusPushed \/ L!Render \/ Connects \/ L!Dismiss
OpenSteps == (L!Server /\ linkMoves' <= 1) \/ L!Pushed \/ L!StatusPushed \/ L!Render
             \/ (Connects /\ linkMoves' <= 1) \/ L!Dismiss \/ L!ClosesByHand \/ L!Rail

\* The Broker panel: the boxes and the offers, the brokers kept, the beat a link has to hold.
SubmitOf(n) == B!Submit /\ Len(chain) < n
BoxSteps == B!Edits \/ B!Dials
Boxed == B!TypeAddress \/ B!LeaveAddress \/ B!PasteAddress \/ B!FillCredentials
KeptSteps == (Boxed \/ B!Keeps \/ B!Fetches \/ SubmitOf(1) \/ B!DialAnswered \/ B!DialEnds("worked")
              \/ B!StateArrives) /\ edits' <= 1
BeatSteps == SubmitOf(2) \/ B!RetryOn \/ B!DialAnswered \/ B!LinkMoves \/ B!StateArrives \/ B!BeatEnds
             \/ (\E r \in {"worked", "timeout", "tlsNotOffered", "aborted"} : B!DialEnds(r))
             \/ B!PickWay("tcp", TRUE)

\* The alarms: two of them, the wire never more than one ahead and two snapshots out; or one, muted and let go of,
\* the wire two ahead.
RaisedSteps == A!Next /\ mutes' = 0 /\ engine'.dropped = 0 /\ Len(wire') <= 1 /\ Cardinality(loads') <= 2
MutedSteps == A!Next /\ raisedEver' \subseteq {x} /\ generation' <= 2

\* The windows: one of them or the chart, dragged, nudged and swollen; or a stack of fixed ones, raised and closed.
WindowSteps == Next /\ count' <= 1 /\ ~(zoom'.zoomed /\ windows' # <<>>)
StackSteps == Stack /\ \A i \in DOMAIN windows' : windows'[i].fixed

LinkNext == CASE part = "tree" -> TreeSteps /\ Stays [] part = "hung" -> HungSteps /\ srv'.sess <= 2
              [] part = "notice" -> NoticeSteps [] part = "opens" -> OpenSteps
PanelNext == CASE part = "boxes" -> BoxSteps [] part = "kept" -> KeptSteps [] part = "beat" -> BeatSteps
AlertNext == CASE part = "raised" -> RaisedSteps [] part = "muted" -> MutedSteps
WindowNext == CASE part = "window" -> WindowSteps [] part = "stack" -> StackSteps

LinkParts == {"tree", "hung", "notice", "opens"}
PanelParts == {"boxes", "kept", "beat"}
AlertParts == {"raised", "muted"}
WindowParts == {"window", "stack"}

Symmetry == Permutations(Brokers)

MCInit == Init /\ L!Init /\ B!Init /\ F!Init /\ A!Init /\ S!Init /\ part \in Parts

MCNext ==
  /\ UNCHANGED part
  /\ \/ /\ part \in LinkParts /\ LinkNext
        /\ UNCHANGED <<vars, panelVars, sheetVars, alertVars, soundVars>>
     \/ /\ part \in PanelParts /\ PanelNext
        /\ UNCHANGED <<vars, linkVars, sheetVars, alertVars, soundVars>>
     \/ /\ part = "publish" /\ F!Next
        /\ UNCHANGED <<vars, linkVars, panelVars, alertVars, soundVars>>
     \/ /\ part \in AlertParts /\ AlertNext
        /\ UNCHANGED <<vars, linkVars, panelVars, sheetVars, soundVars>>
     \/ /\ part = "sound" /\ S!Next
        /\ UNCHANGED <<vars, linkVars, panelVars, sheetVars, alertVars>>
     \/ /\ part \in WindowParts /\ WindowNext
        /\ UNCHANGED <<linkVars, panelVars, sheetVars, alertVars, soundVars>>

MCSpec == MCInit /\ [][MCNext]_<<vars, linkVars, panelVars, sheetVars, alertVars, soundVars, part>>

\* What moves; the rest stands as it began.
View ==
  CASE part \in LinkParts -> <<part, linkVars>>
    [] part \in PanelParts -> <<part, panelVars>>
    [] part = "publish" -> <<part, sheetVars>>
    [] part \in AlertParts -> <<part, alertVars>>
    [] part = "sound" -> <<part, soundVars>>
    [] part \in WindowParts -> <<part, vars>>
-----------------------------------------------------------------------------
\* Once the console has heard the newest, the tree holds no topic of another broker among the
\* sessions the watch met, those of an earlier session are drawn faded, and the notice tells
\* of the outage there is.  Two trees are left out: one the reader started again and heard
\* more on before the link moved, and one the link was hung up over and then made elsewhere,
\* which keeps the topics of the broker that is gone against useLinkWatch.ts:49-57
\* (useLinkWatch, linkWatchStore).
WatchIsTrue ==
  part \in LinkParts => L!OneBrokersTopics /\ L!ReturnsAreMarked /\ L!OutageIsTold

\* A port nobody said is the one its scheme is served on, and the offers under one failed
\* Connect never come round to what was dialled before (BrokerPanel, dialSuggestion).
PortFitsItsScheme ==
  part \in PanelParts => B!PortFitsItsScheme /\ B!OffersNeverCircle

\* A Connect or an offer goes to the host the box shows (BrokerPanel's submit).
DialsWhatTheBoxShows == B!DialsWhatTheBoxShows

\* PublishPanel.tsx:26 says a fold and a reopen keep the QoS and the retain flag as the topic
\* and the payload (useEffect of PublishPanel, which runs once more when the panel is mounted).
FoldKeepsTheWay == F!FoldKeepsTheWay

\* A form filled from a message and not edited since sends that one message, to its topic, in
\* its mode and the way it was sent.  Of one row the body is a newer message's: held on one
\* the tree had cut, with a newer behind the hold (TopicTree.tsx:136-138 takes the log's
\* newest, against 124-126) (composeStore, PublishPanel).
SentAsItWas == part = "publish" => F!TypeOK /\ F!SentAsItWas

\* Once a snapshot asked for under this connection has landed and nothing is on its way, the
\* console shows the alarms that stand (alertStore, useHubBridge).  Left out is a snapshot
\* that landed over events queued before an outage, which are put back on top of it and
\* may bring back what was cleared while the hub was away (useHubBridge.ts:206-209, 218-219).
CaughtUp == part \in AlertParts => A!TypeOK /\ A!CaughtUp

\* A tone that was missed is owed until the page can be heard or the sound is put off, and all
\* that while the line that says so stands: the sound is on and the page cannot be heard
\* (alertSound, SoundPrompt).
OwedUntilHeard == S!OwedUntilHeard /\ []S!WaitingIsUnarmed
=============================================================================
