------------------------------ MODULE FlowPicks ------------------------------
(***************************************************************************)
(* What is picked on a flow's canvas, kept in three places: the canvas's   *)
(* own picks, and the node and the wire the store names for the inspector  *)
(* and the palette. The flow changes under all three, and the canvas comes *)
(* and goes while the store stays.                                         *)
(*                                                                         *)
(* A render takes what the page reads; the effect that brings the picks    *)
(* together runs after it, and the store may have changed in between.      *)
(***************************************************************************)
EXTENDS FiniteSets

CONSTANTS
  Nodes,     \* the nodes a flow may have
  StartId,   \* the one every flow has
  Wires,     \* the wires a flow may have
  None       \* no node, no wire, nothing run

FlowPicksAssumption ==
  StartId \in Nodes /\ None \notin Nodes \cup Wires

VARIABLES
  present,   \* the nodes and wires of the flow on screen
  picked,    \* the canvas's picks
  selected,  \* store: the node chosen
  wire,      \* store: the one wire picked
  mounted,   \* the canvas is on screen
  anew,      \* the flow is another object since the last render
  drawn,     \* what the last render read
  ran        \* what the effect last ran for

store == <<selected, wire>>
vars == <<present, anew, picked, store, mounted, drawn, ran>>

NodePick(n) == <<"node", n>>
WirePick(w) == <<"wire", w>>
Picks == {NodePick(n) : n \in Nodes} \cup {WirePick(w) : w \in Wires}
NodesOf(picks) == {p \in picks : p[1] = "node"}

Contents == {c \in SUBSET Picks : NodePick(StartId) \in c}

\* wireOnly: the wire picked, when it is the only pick.
WireOnly(picks) == IF \E w \in Wires : picks = {WirePick(w)} THEN (CHOOSE p \in picks : TRUE)[2] ELSE None

Reading == [present |-> present, selected |-> selected, wire |-> wire]
Drawn == mounted => drawn = Reading /\ ~anew
Settled == Drawn /\ (mounted => ran = drawn)
-----------------------------------------------------------------------------
(* The picks a hand makes. The store's select clears its wire.             *)

\* One batch React Flow reports: what it picks and lets go, and the two places told.
\* The inspector follows the node picked last, or one still picked.
Toggled(s, on, off) ==
  LET next == (s.picked \ off) \cup on
      chosen == IF NodesOf(on) # {} THEN NodesOf(on) ELSE NodesOf(next)
  IN  {[picked |-> next, selected |-> IF chosen = {} THEN None ELSE p[2],
        wire |-> IF chosen = {} THEN WireOnly(next) ELSE None] :
         p \in IF chosen = {} THEN {<<"none", None>>} ELSE chosen}

Here == [picked |-> picked, selected |-> selected, wire |-> wire]

Becomes(s) == picked' = s.picked /\ selected' = s.selected /\ wire' = s.wire

\* A click on a node, a wire or the ground: nodes and wires in two batches, in either order.
Click(p) ==
  LET on == {p} \cap present
      nodes(s) == Toggled(s, NodesOf(on), NodesOf(s.picked) \ on)
      edges(s) == Toggled(s, on \ NodesOf(on), (s.picked \ NodesOf(s.picked)) \ on)
  IN  /\ mounted /\ Settled
      /\ \/ \E s \in nodes(Here) : \E t \in edges(s) : Becomes(t)
         \/ \E s \in edges(Here) : \E t \in nodes(s) : Becomes(t)
      /\ UNCHANGED <<present, anew, mounted, drawn, ran>>

\* A click with the key that adds to what is picked.
ClickAlso(p) ==
  /\ mounted /\ Settled /\ p \in present \ picked
  /\ \E s \in Toggled(Here, {p}, {}) : Becomes(s)
  /\ UNCHANGED <<present, anew, mounted, drawn, ran>>

\* The palette puts a node down and chooses it; on the wire picked, that wire is another's.
PaletteAdds(n) ==
  /\ mounted /\ Settled /\ NodePick(n) \notin present
  /\ anew' = TRUE /\ present' = (present \ {WirePick(w) : w \in {wire} \cap Wires}) \cup {NodePick(n)}
  /\ selected' = n /\ wire' = None
  /\ UNCHANGED <<picked, mounted, drawn, ran>>

\* A node dragged from the palette onto the canvas.
Drop(n) ==
  /\ mounted /\ Settled /\ NodePick(n) \notin present
  /\ anew' = TRUE /\ present' = present \cup {NodePick(n)}
  /\ Becomes([picked |-> {NodePick(n)}, selected |-> n, wire |-> None])
  /\ UNCHANGED <<mounted, drawn, ran>>

\* Backspace: what is picked goes, but for the Start; a node takes wires with it or is joined over.
CutPicked ==
  LET cut == picked \ {NodePick(StartId)}
      left == picked \ cut
  IN  /\ mounted /\ Settled /\ cut # {}
      /\ \E loose \in SUBSET {p \in present : p[1] = "wire"} :
           /\ NodesOf(cut) = {} => loose = {}
           /\ present' = (present \ cut) \ loose
      /\ anew' = TRUE
      /\ picked' = left
      /\ \E s \in IF selected # None /\ NodePick(selected) \in cut
                  THEN IF NodesOf(left) = {} THEN {[node |-> None, wire |-> WireOnly(left)]}
                       ELSE {[node |-> p[2], wire |-> None] : p \in NodesOf(left)}
                  ELSE {[node |-> selected, wire |-> WireOnly(left)]} :
           selected' = s.node /\ wire' = s.wire
      /\ UNCHANGED <<mounted, drawn, ran>>

\* The inspector's Remove node.
InspectorRemoves ==
  /\ Settled /\ selected # None /\ selected # StartId /\ NodePick(selected) \in present
  /\ \E loose \in SUBSET {p \in present : p[1] = "wire"} :
       present' = (present \ {NodePick(selected)}) \ loose
  /\ anew' = TRUE
  /\ selected' = None
  /\ UNCHANGED <<picked, wire, mounted, drawn, ran>>
-----------------------------------------------------------------------------
(* What changes the flow or the store from elsewhere, at any moment.       *)

\* The flow's own tab, or Discard: nothing is chosen, and Discard brings back the saved drawing.
Clear(content) ==
  /\ Settled
  /\ anew' = TRUE /\ present' = content /\ selected' = None /\ wire' = None
  /\ UNCHANGED <<picked, mounted, drawn, ran>>

\* Another tab's edit is taken in, or another console's save.
ChangesElsewhere(content) ==
  /\ content # present /\ anew' = TRUE /\ present' = content
  /\ UNCHANGED <<picked, store, mounted, drawn, ran>>

\* The flow goes, and the page shows another: its canvas is drawn with what the store still
\* names, and only then is the store told.
Replaced(content) ==
  /\ mounted
  /\ anew' = FALSE /\ present' = content
  /\ drawn' = [Reading EXCEPT !.present = content]
  /\ picked' = {} /\ ran' = None
  /\ selected' = None /\ wire' = None
  /\ UNCHANGED mounted

\* Another panel takes the canvas away, and the page brings it back.
Shuts ==
  /\ mounted /\ Settled /\ mounted' = FALSE
  /\ picked' = {} /\ drawn' = None /\ ran' = None
  /\ UNCHANGED <<present, anew, store>>

Opens ==
  /\ ~mounted /\ mounted' = TRUE /\ drawn' = Reading /\ anew' = FALSE
  /\ UNCHANGED <<present, picked, store, ran>>
-----------------------------------------------------------------------------
(* The render, and the effect that brings the picks together.              *)

Render ==
  /\ mounted /\ ran = drawn /\ ~Drawn
  /\ drawn' = Reading /\ anew' = FALSE
  /\ ran' = IF anew THEN None ELSE ran
  /\ UNCHANGED <<present, picked, store, mounted>>

\* What the flow lost is let go, and every node when none is chosen; a node chosen elsewhere is
\* picked alone; then the wire, by the store's as it is now.
Kept == {p \in picked : p \in drawn.present /\ (drawn.selected # None \/ p[1] # "node")}

Chosen ==
  IF drawn.selected # None /\ NodePick(drawn.selected) \in drawn.present \ picked
  THEN {NodePick(drawn.selected)} ELSE Kept

Followed ==
  LET alone == WireOnly(picked)
  IN  IF alone # None /\ wire = None THEN Chosen \ {WirePick(alone)}
      ELSE IF wire # None /\ Chosen = {} /\ WirePick(wire) \in drawn.present THEN {WirePick(wire)}
      ELSE Chosen

Follow ==
  /\ mounted /\ ran # drawn
  /\ ran' = drawn
  /\ picked' = Followed /\ wire' = WireOnly(Followed)
  /\ UNCHANGED <<present, anew, selected, mounted, drawn>>
-----------------------------------------------------------------------------
Init ==
  /\ present \in Contents /\ picked = {}
  /\ selected = None /\ wire = None
  /\ mounted = FALSE /\ anew = FALSE /\ drawn = None /\ ran = None

Hands ==
  \/ \E p \in Picks \cup {<<"ground", None>>} : Click(p)
  \/ \E p \in Picks : ClickAlso(p)
  \/ \E n \in Nodes : PaletteAdds(n) \/ Drop(n)
  \/ CutPicked \/ InspectorRemoves

Elsewhere ==
  \/ \E content \in Contents : Clear(content) \/ ChangesElsewhere(content) \/ Replaced(content)
  \/ Shuts \/ Opens

Next == Hands \/ Elsewhere \/ Render \/ Follow

Fairness == WF_vars(Render) /\ WF_vars(Follow)

Spec == Init /\ [][Next]_vars /\ Fairness
-----------------------------------------------------------------------------
\* Every variable holds a value of its kind.
TypeOK ==
  /\ present \in Contents /\ picked \subseteq Picks
  /\ selected \in Nodes \cup {None} /\ wire \in Wires \cup {None} /\ {mounted, anew} \subseteq BOOLEAN

\* Once drawn and brought together, the three places agree: nothing the flow has lost is picked,
\* the palette's wire is the one drawn picked alone, and a node is picked exactly when the
\* inspector's is in the flow, or the pick it follows is.
PicksAgree ==
  mounted /\ Settled =>
    /\ picked \subseteq present
    /\ wire = WireOnly(picked)
    /\ selected = None => NodesOf(picked) = {}
    /\ selected # None /\ NodePick(selected) \in present => NodePick(selected) \in picked

\* Bringing them together ends: the effect never sets itself going for ever, and settles whenever
\* the flow and the store are let be.
PicksSettle == <>[][~(Hands \/ Elsewhere)]_vars => <>[]Settled
=============================================================================
