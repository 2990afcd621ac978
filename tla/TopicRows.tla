------------------------------ MODULE TopicRows ------------------------------
(***************************************************************************)
(* The rows of the topic tree: which branches stand open, which rows that  *)
(* puts on screen under a ceiling, what a search puts there instead, and   *)
(* the gestures that fold and unfold (features/topics/TopicTree.tsx and    *)
(* TreeNode.tsx, stores/topicTreeStore.ts, flattenTree and searchRows of   *)
(* lib/topicTree.ts).                                                      *)
(*                                                                         *)
(* A level of a topic is a number, in the order the tree keeps siblings    *)
(* in; 0 is the empty level a topic with a leading slash begins with.      *)
(***************************************************************************)
EXTENDS Naturals, Sequences, FiniteSets, SequencesExt

CONSTANTS
    Topics,     \* the topics the broker may send: sequences of levels
    Limit,      \* MAX_TREE_ROWS
    None,       \* nothing picked, nothing sought
    Broker,     \* the broker's own row, which is no topic
    Looks,      \* what may be typed in the search box: levels
    MaxTurns,   \* bound: folds and unfolds by the marks and the twisties
    MaxClicks,  \* bound: clicks on rows
    MaxElse     \* bound: forgotten topics, fresh trees and searches

RowsAssumption == /\ \A t \in Topics : t \in Seq(Nat) /\ t # <<>>
                  /\ Limit \in Nat \ {0}
                  /\ None \notin Looks

VARIABLES
    heard,        \* the topics with a message of their own: node.hits > 0
    openPaths,    \* the branches the reader has answered for
    defaultOpen,  \* what every other branch does
    brokerOpen,   \* whether the broker's row is unfolded
    selected,     \* the picked row
    look,         \* what the search box says, or None
    openedRun,    \* the rows whose click run began by opening them
    gesture,      \* the last click: its row, the browser's count, how the row stood, whether
                  \* it was the second of a pair; stayed is a ghost: the row has been on
                  \* screen ever since
    turns, clicks, others

fold == <<openPaths, defaultOpen, brokerOpen>>
vars == <<heard, openPaths, defaultOpen, brokerOpen, selected, look, openedRun,
          gesture, turns, clicks, others>>

----------------------------------------------------------------------------
(* The tree. *)

Above(p) == {SubSeq(p, 1, n) : n \in 1..(Len(p) - 1)}
Paths == UNION {Above(t) \cup {t} : t \in Topics}

MarksAssumption == {None, Broker} \cap Paths = {} /\ None # Broker

\* The nodes a set of topics makes, and those of them with something beneath.
Nodes(ts) == UNION {Above(t) \cup {t} : t \in ts}
Branches(ts) == UNION {Above(t) : t \in ts}
Under(ts, p) == {q \in Nodes(ts) : q = p \/ p \in Above(q)}

\* The order the walk meets the nodes in: a node before what is beneath it, and
\* siblings by their level.
Before(p, q) ==
    \/ p \in Above(q)
    \/ \E n \in 1..Len(p) :
          /\ n <= Len(q) /\ SubSeq(p, 1, n - 1) = SubSeq(q, 1, n - 1)
          /\ p[n] < q[n]

IsPathOpen(p) == IF p \in DOMAIN openPaths THEN openPaths[p] ELSE defaultOpen

\* The first of some nodes that the ceiling lets on screen.
Drawn(nodes) == {p \in nodes : Cardinality({q \in nodes : Before(q, p)}) < Limit}

\* The visible part of the tree: the nodes with every branch above them open.
InSight == {p \in Nodes(heard) : \A b \in Above(p) : IsPathOpen(b)}
Answers == {p \in Nodes(heard) : \E n \in 1..Len(p) : p[n] = look}

Rows == IF ~brokerOpen THEN {}
        ELSE IF look # None THEN Drawn(Answers)
        ELSE Drawn(InSight)

\* The broker's own row stands over them for as long as a topic has been heard.
OnScreen == IF heard = {} THEN {} ELSE Rows \cup {Broker}

\* Under a search a topic's row stands for itself, and folds nothing.
IsBranch(p) == p = Broker \/ (look = None /\ p \in Branches(heard))
IsOpen(p)   == IF p = Broker THEN brokerOpen ELSE IsPathOpen(p)

NoGesture == [row |-> None, count |-> 0, was |-> "leaf", pair |-> FALSE, stayed |-> FALSE]

\* A row taken off the screen forgets whether a click run began by opening it; the
\* browser's count goes on without it.
Remounted(runs, g) ==
    /\ openedRun' = runs \cap OnScreen'
    /\ gesture' = [g EXCEPT !.stayed = g.stayed /\ g.row \in OnScreen']

Init ==
    /\ heard = {} /\ openPaths = <<>> /\ defaultOpen = FALSE /\ brokerOpen = TRUE
    /\ selected = None /\ look = None /\ openedRun = {} /\ gesture = NoGesture
    /\ turns = 0 /\ clicks = 0 /\ others = 0

----------------------------------------------------------------------------
(* What the broker does to the rows. *)

Arrives ==
    /\ \E t \in Topics \ heard : heard' = heard \cup {t}
    /\ UNCHANGED <<fold, selected, look, turns, clicks, others>>
    /\ Remounted(openedRun, gesture)

\* The ceiling, an unsubscribe or Clear takes topics out of the tree; what the
\* reader said of their branches stays.
DropTopics ==
    /\ others < MaxElse /\ others' = others + 1
    /\ \E gone \in SUBSET heard \ {{}} : heard' = heard \ gone
    /\ UNCHANGED <<fold, selected, look, turns, clicks>>
    /\ Remounted(openedRun, gesture)

\* The tree is started again: the reader's answers go, the default stays.
Reset ==
    /\ others < MaxElse /\ others' = others + 1
    /\ heard' = {} /\ openPaths' = <<>> /\ brokerOpen' = TRUE
    /\ UNCHANGED <<defaultOpen, selected, look, turns, clicks>>
    /\ Remounted(openedRun, gesture)

----------------------------------------------------------------------------
(* Folding. *)

SetPath(p, open) == [q \in DOMAIN openPaths \cup {p} |->
                        IF q = p THEN open ELSE openPaths[q]]
Toggled(p) == SetPath(p, ~IsPathOpen(p))

Toggle ==
    /\ turns < MaxTurns /\ turns' = turns + 1
    /\ \E p \in Rows : IsBranch(p) /\ openPaths' = Toggled(p)
    /\ UNCHANGED <<heard, defaultOpen, brokerOpen, selected, look, clicks, others>>
    /\ Remounted(openedRun, gesture)

ToggleBroker ==
    /\ turns < MaxTurns /\ turns' = turns + 1 /\ heard # {}
    /\ brokerOpen' = ~brokerOpen
    /\ UNCHANGED <<heard, openPaths, defaultOpen, selected, look, clicks, others>>
    /\ Remounted(openedRun, gesture)

\* Only the absence of a branch means the whole tree.
Whole(under) == under = None

\* The branches a scoped press answers for: what is under the branch, and, to
\* open, the way down to it.
Reached(open, under) == Under(heard, under) \cup (IF open THEN Above(under) ELSE {})

SetAllOpen(open, under) ==
    \/ /\ Whole(under)
       /\ openPaths' = <<>> /\ defaultOpen' = open /\ brokerOpen' = open
    \/ /\ ~Whole(under) /\ under \notin Nodes(heard) /\ UNCHANGED fold
    \/ /\ ~Whole(under) /\ under \in Nodes(heard)
       /\ openPaths' = [p \in DOMAIN openPaths \cup Reached(open, under) |->
                           IF p \in Reached(open, under) THEN open ELSE openPaths[p]]
       /\ brokerOpen' = (open \/ brokerOpen)
       /\ UNCHANGED defaultOpen

\* The broker's row names no branch, and neither does nothing picked.
SelectedPath == IF selected = Broker THEN None ELSE selected

ExpandAll ==
    /\ turns < MaxTurns /\ turns' = turns + 1 /\ heard # {}
    /\ SetAllOpen(TRUE, SelectedPath)
    /\ UNCHANGED <<heard, selected, look, clicks, others>>
    /\ Remounted(openedRun, gesture)

CollapseAll ==
    /\ turns < MaxTurns /\ turns' = turns + 1 /\ heard # {}
    /\ SetAllOpen(FALSE, SelectedPath)
    /\ UNCHANGED <<heard, selected, look, clicks, others>>
    /\ Remounted(openedRun, gesture)

----------------------------------------------------------------------------
(* Picking. *)

\* The browser counts on while the pointer stays put, whatever row is under it by
\* then, starts again where it does not, and says nought for Enter on a focused row.
Counts == {0, 1, gesture.count + 1}
Pair(n) == n # 0 /\ n % 2 = 0

\* A row folded or unfolded, the broker's or a branch's.
Flip(p) == IF p = Broker THEN brokerOpen' = ~brokerOpen /\ UNCHANGED openPaths
                         ELSE openPaths' = Toggled(p) /\ UNCHANGED brokerOpen

\* An odd click picks, and opens a shut branch.
FirstClick(p, n) ==
    LET was == IF ~IsBranch(p) THEN "leaf" ELSE IF IsOpen(p) THEN "open" ELSE "shut" IN
    /\ ~Pair(n) /\ selected' = p
    /\ IF was = "shut" THEN Flip(p) ELSE UNCHANGED <<openPaths, brokerOpen>>
    /\ Remounted(CASE was = "leaf" -> openedRun [] was = "open" -> openedRun \ {p}
                   [] was = "shut" -> openedRun \cup {p},
                 [row |-> p, count |-> IF n = 0 THEN gesture.count ELSE n, was |-> was,
                  pair |-> FALSE, stayed |-> TRUE])

Paired(p, n) == [gesture EXCEPT !.row = p, !.count = n, !.pair = TRUE, !.stayed = TRUE]

\* Mutant: an even click folds whatever the one before it did.
SecondClickFolds(p, n) ==
    /\ Pair(n) /\ UNCHANGED selected
    /\ IF IsBranch(p) THEN Flip(p) ELSE UNCHANGED <<openPaths, brokerOpen>>
    /\ Remounted(openedRun, Paired(p, n))

\* An even one folds or unfolds, unless the last odd one on this row had opened it.
SecondClick(p, n) ==
    /\ Pair(n) /\ UNCHANGED selected
    /\ IF IsBranch(p) /\ p \notin openedRun THEN Flip(p) ELSE UNCHANGED <<openPaths, brokerOpen>>
    /\ Remounted(openedRun, Paired(p, n))

\* The broker's row is a row as any other, and names no topic.
Click(p, n) ==
    /\ clicks < MaxClicks /\ clicks' = clicks + 1
    /\ UNCHANGED <<heard, defaultOpen, look, turns, others>>
    /\ FirstClick(p, n) \/ SecondClick(p, n)

\* Typing in the box, emptying it, or shutting it, which empties it.
Search ==
    /\ others < MaxElse /\ others' = others + 1 /\ heard # {}
    /\ look' \in (Looks \cup {None}) \ {look}
    /\ UNCHANGED <<heard, fold, selected, turns, clicks>>
    /\ Remounted(openedRun, gesture)

Next == \/ Arrives \/ DropTopics \/ Reset
        \/ Toggle \/ ToggleBroker \/ ExpandAll \/ CollapseAll
        \/ Search
        \/ \E p \in OnScreen, n \in Counts : Click(p, n)

Spec == Init /\ [][Next]_vars

----------------------------------------------------------------------------
(* What is asked of it. *)

\* The state has its types, and the picked row, the answers and the click runs
\* are of paths a broker can send (topicTreeStore.ts, TreeState).
TypeOK ==
    /\ heard \subseteq Topics
    /\ DOMAIN openPaths \subseteq Paths /\ \A p \in DOMAIN openPaths : openPaths[p] \in BOOLEAN
    /\ defaultOpen \in BOOLEAN /\ brokerOpen \in BOOLEAN
    /\ selected \in Paths \cup {None, Broker} /\ look \in Looks \cup {None}
    /\ openedRun \subseteq OnScreen
    /\ gesture.row \in Paths \cup {None, Broker} /\ gesture.count \in Nat
    /\ gesture.was \in {"leaf", "shut", "open"}

\* Expand puts the whole of what it names on screen, as far as the ceiling goes:
\* no branch of it stays shut, none of it opens behind a shut door, and nothing
\* outside it unfolds (topicTreeStore.ts setAllOpen, 109-126).
ExpandShowsIt ==
    [][ExpandAll =>
         LET of == IF SelectedPath = None THEN Nodes(heard) ELSE Under(heard, SelectedPath)
         IN /\ brokerOpen' \/ of = {}
            /\ \A p \in of : p \in InSight'
            /\ \A p \in Branches(heard) :
                  p \in of \/ (\E q \in of : p \in Above(q)) \/ IsPathOpen(p)' = IsPathOpen(p)
      ]_vars

\* Of two clicks that follow one another on a row that stayed on screen, the second of a
\* pair that began on a shut branch folds nothing and unfolds nothing, whatever arrives, is
\* forgotten or is folded between them; and the second of one that began on an open branch
\* turns it over: folded, or, shut in between, open again (TreeNode.tsx 124-151).
PairKeepsItsPromise ==
    [][\A p \in Paths \cup {Broker} :
         /\ clicks' # clicks /\ gesture'.pair /\ gesture'.row = p
         /\ gesture.row = p /\ gesture.stayed /\ IsBranch(p)
         => /\ gesture.was = "shut" => UNCHANGED fold
            /\ gesture.was = "open" => IsOpen(p)' = ~IsOpen(p)
      ]_vars

\* A click that is not the second of a pair, or Enter, folds nothing: a row leaves the
\* screen by it only where it stays unfolded and the ceiling is full (TreeNode.tsx
\* 118-123).
OneClickHidesNothing ==
    [][clicks' # clicks /\ ~gesture'.pair =>
         \A p \in Rows : p \in Rows' \/ (p \in InSight' /\ Cardinality(Rows') = Limit)
      ]_vars
=============================================================================
