------------------------------ MODULE FlowGraph ------------------------------
(***************************************************************************)
(* The edits the page makes to a flow's drawing, each a function from one  *)
(* flow to the next: nodes put down free, on a wire or after a node, wires *)
(* drawn and taken away, and nodes taken out of a chain.                   *)
(*                                                                         *)
(* A flow is its nodes' types and its wires. Where nodes stand is the      *)
(* business of FlowPlace, and their settings of FlowDrafts.                *)
(***************************************************************************)
EXTENDS Naturals, FiniteSets

CONSTANTS
  Nodes,    \* the ids a flow's nodes may have
  StartId,  \* the one the Start has
  Placed    \* bound: the types the reader puts down

VARIABLES
  kind,     \* each id's type, Absent when the flow has no such node
  wires     \* the flow's wires, from a way out to a way in

vars == <<kind, wires>>

Absent == "absent"
Types == {"start", "end", "step", "if", "loop", "unknown"}

FlowGraphAssumption ==
  StartId \in Nodes /\ IsFiniteSet(Nodes) /\ Placed \subseteq Types \ {"start", "unknown"}
-----------------------------------------------------------------------------
(* The nodes' ports.                                                       *)

\* NODE_SPECS: a step stands for every type with one way in and one way out, an if for every
\* decision, a loop for the two. specOf: a type this build does not know has no ports.
Outs(type) ==
  CASE type = "start" -> {"out"}  [] type = "step" -> {"out"}
    [] type = "if" -> {"yes", "no"}  [] type = "loop" -> {"body", "done"}
    [] OTHER -> {}

Ins(type) ==
  CASE type = "loop" -> {"in", "next"}
    [] type \in {"end", "step", "if"} -> {"in"}
    [] OTHER -> {}

In == {n \in Nodes : kind[n] # Absent}
Loops(k) == {n \in Nodes : k[n] = "loop"}

Wire(from, port, to, into) == [from |-> from, port |-> port, to |-> to, into |-> into]

\* Every wire that could be dragged between two ports there are.
Ports == {"out", "yes", "no", "body", "done"}
Candidates == {w \in [from : In, port : Ports, to : In, into : {"in", "next"}] :
                 w.port \in Outs(kind[w.from]) /\ w.into \in Ins(kind[w.to])}
-----------------------------------------------------------------------------
(* Walks along the wires.                                                  *)

\* walk: what a run gets to from the seeds by these wires.
Reached(ws, seeds) ==
  LET step[n \in 0..Cardinality(Nodes)] ==
        IF n = 0 THEN seeds
        ELSE LET at == step[n - 1] IN at \cup {w.to : w \in {v \in ws : v.from \in at}}
  IN  step[Cardinality(Nodes)]

\* A wire into a loop's next goes back; no circle counts it.
Returns(k, ws) == {w \in ws : w.into = "next" /\ w.to \in Loops(k)}
ClosesCircle(k, ws, w) == w.from \in Reached(ws \ Returns(k, ws), {w.to})
Circular(k, ws) == \E w \in ws \ Returns(k, ws) : ClosesCircle(k, ws, w)

\* region: what a way out of a loop leads to without going into the loop again.
Region(ws, loop, port) ==
  LET away == {w \in ws : w.to # loop}
  IN  Reached(away, {w.to : w \in {v \in away : v.from = loop /\ v.port = port}})

\* strays: returns from where a run gets to by the loop's done, or without the loop at all.
Strays(k, ws, loops) ==
  UNION {LET after == Region(ws, loop, "done")
             outside == Reached({w \in ws : w.from # loop}, {StartId} \cap {n \in Nodes : k[n] # Absent})
         IN  {w \in Returns(k, ws) : /\ w.to = loop
                                     /\ ~(w.from = loop /\ w.port = "body")
                                     /\ w.from \in after \cup outside}
         : loop \in loops}
-----------------------------------------------------------------------------
(* Drawing a wire.                                                         *)

\* A way out has one wire, so a new one takes its place.
Drawn(w) == {v \in wires : ~(v.from = w.from /\ v.port = w.port)} \cup {w}

\* Mutant: a wire is weighed by the loop it runs into alone.
TouchedByEnd(w) == Loops(kind) \cap {w.to}

\* The loops a wire could turn a return stray of: its own, and those returned to from beyond it.
Touched(w) ==
  LET onward == Reached(Drawn(w), {w.to})
  IN  {loop \in Loops(kind) : \E r \in Returns(kind, Drawn(w)) :
         r.to = loop /\ (loop = w.to \/ r.from \in onward)}

CanConnect(w) ==
  LET back == w.into = "next" /\ kind[w.to] = "loop"
  IN  IF w.from = w.to THEN back /\ w.port = "body"
      ELSE /\ back \/ ~ClosesCircle(kind, Drawn(w), w)
           /\ Strays(kind, Drawn(w), Touched(w)) \subseteq Strays(kind, wires, Loops(kind)) \ {w}

Connect(w) ==
  /\ w \notin wires /\ CanConnect(w)
  /\ wires' = Drawn(w)
  /\ UNCHANGED kind
-----------------------------------------------------------------------------
(* Putting a node down.                                                    *)

\* waysOut: a loop's body goes back to its own next; the rest go where `onward` led, if anywhere.
WaysOut(id, type, onward) ==
  {Wire(id, "body", id, "next") : p \in Outs(type) \cap {"body"}}
  \cup {Wire(id, p, w.to, w.into) : p \in Outs(type) \ {"body"}, w \in onward}

WithNode(id, type) == kind' = [kind EXCEPT ![id] = type]

AddNode(id, type) ==
  /\ kind[id] = Absent
  /\ WithNode(id, type)
  /\ wires' = wires \cup WaysOut(id, type, {})

\* On a wire: the wire runs into the node, and each way out of the node goes where it went.
InsertOnWire(w, id, type) ==
  /\ kind[id] = Absent
  /\ WithNode(id, type)
  /\ wires' = (wires \ {w}) \cup {Wire(w.from, w.port, id, "in")} \cup WaysOut(id, type, {w})

\* After a node with one way out: on its wire, or wired from it when it has none.
InsertAfter(node, id, type) ==
  /\ kind[id] = Absent
  /\ \E p \in Outs(kind[node]) :
       /\ Outs(kind[node]) = {p}
       /\ LET had == {w \in wires : w.from = node /\ w.port = p}
          IN  wires' = (wires \ had) \cup {Wire(node, p, id, "in")} \cup WaysOut(id, type, had)
  /\ WithNode(id, type)
-----------------------------------------------------------------------------
(* Taking away.                                                            *)

\* A node whose one way out was wired leaves what came into it joined to where that went.
Without(k, ws, id) ==
  LET onward == {w \in ws : w.from = id /\ Outs(k[id]) = {w.port} /\ w.to # id}
  IN  {w \in ws : w.from # id /\ w.to # id}
      \cup {Wire(w.from, w.port, o.to, o.into) : w \in {v \in ws : v.to = id /\ v.from # id}, o \in onward}

\* The canvas's key: the picked wires first, then the picked nodes, one after another, and
\* never the Start.
Cut(gone, ws) ==
  /\ gone \cap {n \in Nodes : kind[n] = "start"} = {}
  /\ gone # {} \/ ws # {}
  /\ \E order \in [1..Cardinality(gone) -> gone] :
       /\ \A n \in gone : \E i \in DOMAIN order : order[i] = n
       /\ LET left[i \in 0..Cardinality(gone)] ==
                IF i = 0 THEN wires \ ws ELSE Without(kind, left[i - 1], order[i])
          IN  wires' = left[Cardinality(gone)]
  /\ kind' = [n \in Nodes |-> IF n \in gone THEN Absent ELSE kind[n]]
-----------------------------------------------------------------------------
(* What the page marks as lacking.                                         *)

Unwired == UNION {{<<n, p>> : p \in {o \in Outs(kind[n]) : ~\E w \in wires : w.from = n /\ w.port = o}} : n \in In}
Unreached == {n \in In : kind[n] # "start" /\ n \notin Reached(wires, {m \in In : kind[m] = "start"})}
NoReturn == {n \in Loops(kind) : ~\E w \in wires : w.into = "next" /\ w.to = n}
-----------------------------------------------------------------------------
\* emptyFlow: a Start wired to an End.
Init ==
  \E end \in Nodes \ {StartId} :
    /\ kind = [n \in Nodes |-> CASE n = StartId -> "start" [] n = end -> "end" [] OTHER -> Absent]
    /\ wires = {Wire(StartId, "out", end, "in")}

Next ==
  \/ \E w \in Candidates : Connect(w)
  \/ \E id \in Nodes, type \in Placed :
       \/ AddNode(id, type)
       \/ \E w \in wires : InsertOnWire(w, id, type)
       \/ \E node \in In : InsertAfter(node, id, type)
  \/ \E w \in wires : Cut({}, {w})
  \/ \E n \in In : \E ws \in SUBSET {w \in wires : w.from = n} : Cut({n}, ws)
  \/ \E n, m \in In : n # m /\ Cut({n, m}, {})

Spec == Init /\ [][Next]_vars
-----------------------------------------------------------------------------
\* Wires run between ports there are, and no way out has two: what the server's compiler takes
\* for granted of a drawing, whatever was inserted, joined over or drawn anew.
WellWired ==
  /\ wires \subseteq Candidates
  /\ \A v, w \in wires : v.from = w.from /\ v.port = w.port => v = w

\* No edit closes a forward circle or turns a return stray: the server refuses both, and
\* inserts and joins are not asked about as a drawn wire is.
StaysWhole == ~Circular(kind, wires) /\ Strays(kind, wires, Loops(kind)) = {}

\* Judging only the loops a wire touches is judging them all: a wire is allowed exactly when it
\* closes no circle and makes no return stray that was not stray before.
JudgedAsWhole ==
  LET were == Strays(kind, wires, Loops(kind))
  IN  \A w \in Candidates : w.from # w.to =>
        (CanConnect(w) <=>
           /\ w \in Returns(kind, Drawn(w)) \/ ~ClosesCircle(kind, Drawn(w), w)
           /\ Strays(kind, Drawn(w), Loops(kind)) \subseteq were \ {w})

\* Nothing the reader does leaves a loop unreturned to without that being marked, and a flow the
\* page marks nothing of is one every run of which has somewhere to go: whatever the Start leads
\* to, an End can be reached from it.
UnmarkedFlowsEnd ==
  Unwired = {} /\ Unreached = {} /\ NoReturn = {} /\ ~Circular(kind, wires)
     /\ Strays(kind, wires, Loops(kind)) = {}
  => \A n \in In : \E m \in Reached(wires, {n}) : kind[m] = "end"
=============================================================================
