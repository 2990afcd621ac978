------------------------------ MODULE MCEditors ------------------------------
(***************************************************************************)
(* What a reader draws and writes, for TLC: a flow's graph and where its   *)
(* nodes stand (FlowGraph, FlowPlace), the form of one rule (RuleDraft)    *)
(* and the list of rules beside its drafts (AlertRules). They share        *)
(* nothing, so they stand side by side here: which one moves is the part   *)
(* chosen at the start.                                                    *)
(***************************************************************************)
EXTENDS Integers, Sequences, SequencesExt, FiniteSets, TLC

CONSTANTS
  Nodes, StartId, Placed, Width, Gap, Room, MaxX, MaxY,
  MaxText, MaxPresses, MaxTyped, MaxPanels, MaxDrafts, MaxLost,
  Reads, Text(_), Junk, Ways, Names, Patterns, Lines, Filters, Addresses, Headers, Secrets, Topics,
  Prefix, PrefixesHeard, Widest, Rules, MaxEdits, Parts

VARIABLES
  kind, wires, pos,
  draft, rule, touched, edits,
  server, ids, shown, read, writes, drafts, count, panel, editing, leaving, opened,
  presses, typed, lost,
  part

\* Texts of a number box, in halves: below, at and above each range a box is held to.
MCReads == [t \in {"-0.5", "0", "0.5", "1.5", "3", "5", "60", "2001"} |->
              CASE t = "-0.5" -> -1 [] t = "0" -> 0 [] t = "0.5" -> 1 [] t = "1.5" -> 3
                [] t = "3" -> 6 [] t = "5" -> 10 [] t = "60" -> 120 [] t = "2001" -> 4002]

MCText(n) == CHOOSE t \in DOMAIN MCReads : MCReads[t] = n

\* A rule of every part; one of composites the form has no boxes for; and one with a list, and a
\* second channel the form does not draw.
Deep == [type |-> "any", of |-> <<[type |-> "silence", after |-> 120]>>]
ARule(filter, condition, clear, for, actions) ==
  [name |-> "n", filter |-> filter, condition |-> condition, clear |-> clear, for |-> for,
   actions |-> actions]
Hook(url) == [type |-> "webhook", url |-> url, names |-> <<"h">>]
Publication(topic) == [type |-> "publish", topic |-> topic, retain |-> TRUE]

MCRules ==
  {ARule(<<"q", "+">>, [type |-> "outlier", method |-> "sigma", k |-> 0, window |-> 0], <<>>, <<120>>,
         <<[type |-> "screen"], Hook("good"), Hook("other")>>),
   ARule(<<"q", "+">>, [type |-> "all", of |-> <<Deep, [type |-> "threshold", way |-> "lt", value |-> 6]>>],
         <<Deep>>, <<>>,
         <<Publication(<<"p", "a", "{topic}">>), [type |-> "screen"]>>),
   ARule(<<"q">>, [type |-> "oneOf", way |-> "gt", values |-> <<"a", "">>], <<>>, <<>>,
         <<Publication(<<"p", "a", "t">>), Publication(<<"p", "a", "t">>)>>)}

\* What the form picks from: of each box what it takes, what it refuses, and what it takes and
\* the server does not.
MCWays == {"gt", "lt"}
MCNames == {"", "n", "long"}
MCPatterns == {"", "good", "unclosed", "dialect"}
MCLines == {<<"">>, <<"a", "">>}
MCFilters == {<<"">>, <<"q">>, <<"#">>, <<"p", "#">>, <<"p", "a">>, <<"p", "+", "b">>, <<"#", "q">>,
              <<"#x">>, <<"uncarried">>}
MCAddresses == {"", "good", "user", "mended"}
MCHeaders == {"", "h", "long", "c1"}
MCSecrets == {"", "v", "control", "c1", "huge"}
MCTopics == {<<>>, <<"p", "a", "t">>, <<"p", "a", "{topic}">>, <<"{topic}", "t">>, <<"p", "a", "+">>,
             <<"m", "t">>}

\* Where this server publishes, and where the console thinks it does before it has asked.
MCPrefix == <<"p", "a">>
MCPrefixes == {MCPrefix, <<"m">>}

P == INSTANCE FlowPlace
A == INSTANCE AlertRules
F == INSTANCE RuleDraft

ASSUME EditorsAssumption ==
  P!FlowGraphAssumption /\ P!FlowPlaceAssumption /\ A!RulesAssumption /\ F!RuleDraftAssumption

drawing == <<kind, wires, pos>>
form == <<draft, rule, touched, edits>>
list == <<server, ids, shown, read, writes, drafts, count, panel, editing, leaving, opened,
          presses, typed, lost>>
vars == <<drawing, form, list, part>>

Symmetry == Permutations(Nodes \ {StartId})
-----------------------------------------------------------------------------
\* A drawing with a loop and a step is enough to crowd: the other types are the graph's.
LoopsAndSteps == \A n \in Nodes : kind'[n] = kind[n] \/ kind'[n] \in {"loop", "step"}

\* A drawing is crowded enough before its last node is in.
SomeOut == Cardinality(P!In) < Cardinality(Nodes)

\* Two writers at once, of whom the reader types once and stays; or one who presses once, and
\* whose panel opens and shuts.
Writers == opened' <= 2 /\ typed' <= 1 /\ panel' >= panel /\ lost' = 0
Drafts == presses' <= 1 /\ \A w \in writes' : w.who # "phone"

Init ==
  /\ P!PlaceInit /\ A!Init /\ F!Init /\ part \in Parts
  /\ part # "form" => rule = <<>>

Next ==
  /\ UNCHANGED part
  /\ \/ part = "graph" /\ P!Next /\ UNCHANGED <<pos, form, list>>
     \/ part = "place" /\ SomeOut /\ P!PlaceNext /\ LoopsAndSteps /\ UNCHANGED <<form, list>>
     \/ part = "form" /\ F!Next /\ UNCHANGED <<drawing, list>>
     \/ part = "writers" /\ A!Next /\ Writers /\ UNCHANGED <<drawing, form>>
     \/ part = "drafts" /\ A!Next /\ Drafts /\ UNCHANGED <<drawing, form>>

Spec == Init /\ [][Next]_vars

\* What moves; the rest stands as it began.
View ==
  CASE part \in {"graph", "place"} -> <<part, drawing>>
    [] part = "form" -> <<part, form>>
    [] part \in {"writers", "drafts"} -> <<part, list>>
-----------------------------------------------------------------------------
\* Whatever is drawn, inserted or joined over, the wires run between ports there are, no forward
\* circle closes and no return strays; a wire is judged by the loops it touches as by all of
\* them; a flow nothing of which is marked always leads to an End; and a click never stands one
\* node on another (flowDocument, flowPlacement).
DrawingsStayWhole ==
  /\ [](part = "graph" => P!WellWired /\ P!StaysWhole /\ P!JudgedAsWhole /\ P!UnmarkedFlowsEnd)
  /\ P!NothingLands

\* What the form was opened with is what it saves, except where it was edited; and what it lets
\* a reader save the server's own checks take, but for what the form carries unread, has no eyes
\* for, or judges by a prefix it has not read (ruleDraft, RuleEditor, AlertRuleDtoValidator).
FormsKeepTheRule ==
  part = "form" => F!TypeOK /\ F!OpenedIsKept /\ F!SavedIsTaken

\* One draft becomes one rule, however often Save is pressed (AlertsPanel's guarded writes).
OneDraftOneRule ==
  part \in {"writers", "drafts"} => A!TypeOK /\ A!OneDraftOneRule

\* A write changes its own rule, and of the others nothing but what was put between the read it
\* was built on and its own put, which it may undo (AlertsPanel.tsx:101-102 says it cannot); and
\* what was typed goes only with an answer to the question or with a save that took it, or was
\* out when it was typed (AlertsPanel, RuleEditor).
WritesTouchTheirOwn == A!OneRuleAtATime /\ A!NothingTypedIsLost
=============================================================================
