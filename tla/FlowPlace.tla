------------------------------ MODULE FlowPlace ------------------------------
(***************************************************************************)
(* Where the palette puts a node, and the nodes it moves along to make     *)
(* room: on a grid whose rows stand clear of each other, every node Width  *)
(* columns wide.                                                           *)
(*                                                                         *)
(* The names and the mouths of ports, which also crowd, are taken into     *)
(* Width: they stand out of a node's box as one more stretch of it.        *)
(***************************************************************************)
EXTENDS FlowGraph, Integers

CONSTANTS
  Width,    \* how many columns a node takes
  Gap,      \* how many stand between two nodes of a row
  Room,     \* how many a node put down free keeps clear
  MaxX,     \* bound: the columns the reader puts nodes in
  MaxY      \* bound: the rows

FlowPlaceAssumption ==
  {Width, Gap, Room, MaxX, MaxY} \subseteq Nat /\ Width > 0

VARIABLE pos   \* where each node of the flow stands

placeVars == <<vars, pos>>

Place == [x : Int, y : Int]
At(x, y) == [x |-> x, y |-> y]
Along == 3

\* apart, near: whether two boxes come within `room` of each other.
Near(a, b, room) == a.y = b.y /\ a.x < b.x + Width + room /\ b.x < a.x + Width + room
Crowds(a, b) == Near(a, b, 0)
-----------------------------------------------------------------------------
\* onwardFrom: what a run gets to, going on from a loop's done where a wire returns to its next.
OnwardFrom(seed) ==
  LET back == Returns(kind, wires)
      past == UNION {{Wire(r.from, r.port, d.to, d.into) :
                        d \in {w \in wires : w.from = r.to /\ w.port = "done" /\ w.to # r.to}} : r \in back}
  IN  Reached((wires \ back) \cup past, {seed})

Ahead(seed, x) == {n \in OnwardFrom(seed) : pos[n].x >= x}

\* freeSpot: the first place along from `first`, `across` to a row, that comes near no node.
FreeSpot(first, across) ==
  LET columns == IF across > 1 THEN across ELSE 1
      spot(i) == At(first.x + (i % columns) * (Width + Room), first.y + i \div columns)
      clear(i) == \A n \in In : ~Near(spot(i), pos[n], Room)
      tries == 3 * Cardinality(In)
      free == {i \in 0..tries : clear(i)}
  IN  IF free = {} THEN first ELSE spot(CHOOSE i \in free : \A j \in free : i <= j)

\* Beside the node, or from its foot to the row under.
Wanted(node, port) ==
  IF port \in {"no", "done"} THEN At(pos[node].x + (Width + Gap) \div 2, pos[node].y + 1)
  ELSE At(pos[node].x + Width + Gap, pos[node].y)

\* What stands in the way, and what it would move: what the wire led to, with all beyond it that
\* stands at the place or right of it.
InTheWay(node, at) == {n \in In \ {node} : Crowds(at, pos[n])}
FirstMoved(led, inWay, at) ==
  (UNION {Ahead(n, at.x) : n \in led}) \cup (UNION {{n} \cup Ahead(n, pos[n].x) : n \in led \cap inWay})

By(inWay, at) ==
  LET needs == {Width + Gap} \cup {at.x + Width + Gap - pos[n].x : n \in inWay}
  IN  CHOOSE d \in needs : \A e \in needs : e <= d

\* What moves never lands on what stays: whatever a moved node would crowd moves along too.
Landing(moving, by) ==
  LET hit(m) == {n \in In \ m : \E o \in m : Crowds(At(pos[o].x + by, pos[o].y), pos[n])}
      grown[i \in 0..Cardinality(Nodes)] ==
        IF i = 0 THEN moving
        ELSE LET m == grown[i - 1] IN m \cup (UNION {{n} \cup Ahead(n, pos[n].x) : n \in hit(m)})
  IN  grown[Cardinality(Nodes)]

PlaceAfter(node, port) ==
  LET at == Wanted(node, port)
      inWay == InTheWay(node, at)
      led == {w.to : w \in {v \in wires : v.from = node /\ v.port = port}}
      first == FirstMoved(led, inWay, at)
  IN  IF inWay = {} THEN [at |-> at, moved |-> {}, by |-> 0]
      ELSE IF ~(inWay \subseteq first)
        THEN [at |-> FreeSpot(at, IF port \in {"no", "done"} THEN Along ELSE 1), moved |-> {}, by |-> 0]
      ELSE LET by == By(inWay, at)
           IN  [at |-> at, moved |-> Landing(first, by), by |-> by]

\* moveNodes, and the new node at its place.
Stand(id, put) ==
  pos' = [n \in Nodes |-> IF n = id THEN put.at
                          ELSE IF n \in put.moved THEN At(pos[n].x + put.by, pos[n].y) ELSE pos[n]]
-----------------------------------------------------------------------------
(* The palette's click, and the reader's hand.                             *)

AddOnWire(w, id, type) == InsertOnWire(w, id, type) /\ Stand(id, PlaceAfter(w.from, w.port))

AddAfter(node, id, type) ==
  /\ Cardinality(Outs(kind[node])) = 1
  /\ InsertAfter(node, id, type)
  /\ \A p \in Outs(kind[node]) : Stand(id, PlaceAfter(node, p))

\* With neither a wire nor a node picked: from the middle of the view.
AddInView(middle, across, id, type) ==
  /\ AddNode(id, type)
  /\ Stand(id, [at |-> FreeSpot(middle, across), moved |-> {}, by |-> 0])

Drag(n, to) ==
  /\ n \in In /\ to # pos[n]
  /\ pos' = [pos EXCEPT ![n] = to]
  /\ UNCHANGED vars

Corner == At(0, 0)

PlaceInit == Init /\ pos = [n \in Nodes |-> IF n = StartId THEN Corner ELSE At(Width + Gap, 0)]

Spots == {At(x, y) : x \in 0..MaxX, y \in 0..MaxY}

Click ==
  \E id \in Nodes, type \in Placed :
    \/ \E w \in wires : AddOnWire(w, id, type)
    \/ \E node \in In : AddAfter(node, id, type)
    \/ \E across \in 1..2 : AddInView(Corner, across, id, type)

PlaceNext == Click \/ \E n \in Nodes, to \in Spots : Drag(n, to)

PlaceSpec == PlaceInit /\ [][PlaceNext]_placeVars
-----------------------------------------------------------------------------
\* A click never stands one node on another: not the new one on any but the one it follows, and
\* not a moved one on what stays, however the reader had laid the rest out.
NothingLands ==
  [][Click => \A a, b \in {n \in Nodes : kind'[n] # Absent} :
        a # b /\ Crowds(pos'[a], pos'[b]) => a \in In /\ b \in In /\ Crowds(pos[a], pos[b])]_placeVars
=============================================================================
