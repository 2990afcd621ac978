----------------------------- MODULE FlowRoutes -----------------------------
(***************************************************************************)
(* When the canvas works its wires' routes out, and from what: all of them *)
(* at rest, the dragged nodes' own on each frame of a drag, on a count of  *)
(* states that the wires of the frame share.                               *)
(*                                                                         *)
(* What a route is, is the drawing's: here it is the places it was worked  *)
(* out from. Whether a wire's way is found is what its trace needs of the  *)
(* count.                                                                  *)
(***************************************************************************)
EXTENDS Integers, Sequences, FiniteSets, SequencesExt

CONSTANTS
  Nodes,    \* the flow's nodes
  Wires,    \* its wires, each the pair of nodes it joins
  Order,    \* the order the wires are worked out in, a sequence of them all
  States,   \* how many states a frame's traces look past
  Needs,    \* what a trace may need
  MaxPlace, \* bound: the places a node is moved to
  None

FlowRoutesAssumption ==
  /\ Wires \subseteq Nodes \X Nodes /\ ToSet(Order) = Wires /\ Len(Order) = Cardinality(Wires)
  /\ States \in Nat /\ Needs \subseteq Nat /\ MaxPlace \in Nat

VARIABLES
  place,    \* where each node stands
  dragging, \* the nodes React Flow says are dragged
  redrawn,  \* React Flow's store holds other objects than the plan was made from
  plan,     \* the routes last worked out, and what from
  need      \* how many states each wire's trace needs: the drawing's, so fixed here

vars == <<place, dragging, redrawn, plan, need>>

Own(moving) == {w \in Wires : w[1] \in moving \/ w[2] \in moving}
-----------------------------------------------------------------------------
(* routes: working them out.                                               *)

Whole == [w \in Wires |-> [from |-> place, found |-> TRUE]]

\* The ones given up first.
LineSpentFirst(own, spent) ==
  SelectSeq(spent, LAMBDA w : w \in own) \o SelectSeq(Order, LAMBDA w : w \in own /\ w \notin ToSet(spent))

\* The wires of a frame in their order, those given up after the rest, the longest waiting first.
Line(own, spent) ==
  SelectSeq(Order, LAMBDA w : w \in own /\ w \notin ToSet(spent)) \o SelectSeq(spent, LAMBDA w : w \in own)

\* traced: a wire takes what it needs of the count. One that runs it out goes to the back of those
\* given up; one found is given up no more; one that comes to an empty count changes nothing.
Traced(s, w) ==
  IF s.left = 0 /\ need[w] > 0 THEN s
  ELSE IF need[w] <= s.left
    THEN [left |-> s.left - need[w], spent |-> SelectSeq(s.spent, LAMBDA v : v # w), found |-> s.found \cup {w}]
  ELSE [left |-> 0, spent |-> Append(SelectSeq(s.spent, LAMBDA v : v # w), w), found |-> s.found]

Frame(own, spent) ==
  FoldLeft(Traced, [left |-> States, spent |-> spent, found |-> {}], Line(own, spent))

\* While nodes are dragged the other wires keep the routes they had at rest.
Round(held, own, found) ==
  [w \in Wires |-> IF w \in own THEN [from |-> place, found |-> w \in found] ELSE held[w]]
-----------------------------------------------------------------------------
(* routesIn: what a wire reads of the plan.                                *)

Unmoved == plan # None /\ plan.place = place /\ plan.moving = dragging

\* Other objects made from the same keep the plan; a frame of the same drag goes on with it; the
\* first frame of one starts from the routes at rest; anything else works all of them out.
Ask ==
  /\ redrawn
  /\ redrawn' = FALSE
  /\ plan' =
       IF Unmoved THEN plan
       ELSE LET going == plan # None /\ plan.drag /\ plan.moving = dragging
                drag == going \/ (dragging # {} /\ plan # None)
                own == Own(dragging)
                frame == Frame(own, IF going THEN plan.spent ELSE <<>>)
                found == IF drag THEN Round(plan.rest, own, frame.found) ELSE Whole
            IN  [place |-> place, moving |-> dragging, routes |-> found,
                 rest |-> IF drag THEN plan.rest ELSE found,
                 drag |-> drag, spent |-> IF drag THEN frame.spent ELSE <<>>]
  /\ UNCHANGED <<place, dragging, need>>
-----------------------------------------------------------------------------
(* What changes under it.                                                  *)

\* A frame of a drag: the node moves, and is marked dragged.
DragTo(n, at) ==
  /\ ~redrawn /\ at # place[n]
  /\ place' = [place EXCEPT ![n] = at]
  /\ dragging' = dragging \cup {n} /\ redrawn' = TRUE
  /\ UNCHANGED <<plan, need>>

\* Let go, or broken off, from where the last frame left it.
LetGo(n) ==
  /\ ~redrawn /\ n \in dragging
  /\ dragging' = dragging \ {n} /\ redrawn' = TRUE
  /\ UNCHANGED <<place, plan, need>>

\* An edit from elsewhere moves a node, whatever is dragged.
MovedElsewhere(n, at) ==
  /\ ~redrawn /\ at # place[n]
  /\ place' = [place EXCEPT ![n] = at] /\ redrawn' = TRUE
  /\ UNCHANGED <<dragging, plan, need>>

\* A pick, a setting typed: other objects, made from the same.
Repicked ==
  /\ ~redrawn /\ redrawn' = TRUE
  /\ UNCHANGED <<place, dragging, plan, need>>
-----------------------------------------------------------------------------
Init ==
  /\ place = [n \in Nodes |-> 0] /\ dragging = {} /\ redrawn = TRUE
  /\ plan = None /\ need \in [Wires -> Needs]

AnyDrag == \E n \in dragging, at \in 0..MaxPlace : DragTo(n, at)

Next ==
  \/ Ask \/ Repicked
  \/ \E n \in Nodes : LetGo(n) \/ \E at \in 0..MaxPlace : DragTo(n, at) \/ MovedElsewhere(n, at)

\* Every wire asks of each state of the store.
Fairness == WF_vars(Ask)

Spec == Init /\ [][Next]_vars /\ Fairness
-----------------------------------------------------------------------------
\* Once every node is let go, each wire runs where a plan of the whole drawing puts it, and while
\* one is dragged every wire but its own runs where the drawing at rest last put it, not where an
\* earlier frame or another drag's did.
RoutesAtRest ==
  plan # None /\ ~redrawn =>
    /\ dragging = {} => plan.routes = Whole
    /\ plan.drag => \A w \in Wires \ Own(dragging) : plan.routes[w] = plan.rest[w]
    /\ \E p \in [Nodes -> 0..MaxPlace] : \A w \in Wires : plan.rest[w] = [from |-> p, found |-> TRUE]

\* A wire whose way fits in the count beside the others that do is drawn on it for as long as the
\* drag goes on, however many hopeless ones are dragged with it: none keeps another's turn.
Fits(w) ==
  LET able == {v \in Own(dragging) : need[v] <= States}
  IN  w \in able /\ FoldSet(LAMBDA v, sum : sum + need[v], 0, able) <= States

Dragged(w) == plan # None /\ plan.drag /\ w \in Own(dragging)

NoTurnKept ==
  \A w \in Wires :
    <>[](Dragged(w) /\ Fits(w)) /\ <>[][UNCHANGED dragging]_vars /\ []<><<AnyDrag>>_vars => []<>(plan # None /\ plan.routes[w].found)
=============================================================================
