------------------------------- MODULE Alerts -------------------------------
(* The alarms a console shows: a snapshot the console asks for, and what the   *)
(* hub says while the answer is on its way.  A snapshot replaces everything;   *)
(* what was said behind it waits in a queue and is applied once it has landed. *)
(* The engine, its restarts and the hub connection are the server's; they are  *)
(* here as what the console hears of them.  An alarm is raised once, and its   *)
(* pair of rule and topic goes by its name.                                    *)
EXTENDS Naturals, Sequences, SequencesExt, FiniteSets, Sieve

CONSTANTS Alarms,
          Depth,        \* HISTORY_DEPTH
          MaxLoads, MaxOutages, MaxTotal, MaxMutes, MaxWire

AlertsAssumption == Depth \in Nat \ {0} /\ MaxLoads \in Nat \ {0} /\ MaxTotal \in Nat

VARIABLES
    engine,     \* what the server holds: [active, history, muted, dropped]
    raisedEver, \* alarms that have been raised
    hub,        \* "off" until the first start is answered, then "up" or "down"
    wire,       \* what the hub has said and the console has not heard, oldest first
    store,      \* the console's copy of the four
    syncing, pending, generation,
    loads,      \* snapshots asked for: [mine, asked, answer], the answer a sequence of at most one
    landed,     \* history: the last snapshot to land was asked for "under" this connection or
                \* "before" it, or "none" has since it came up
    early,      \* history: an event has waited in the queue since before the last outage
    tainted,    \* history: such an event was applied over the last snapshot to land
    outages, mutes

vars == <<engine, raisedEver, hub, wire, store, syncing, pending, generation, loads, landed, early,
          tainted, outages, mutes>>

server  == <<engine, raisedEver, mutes>>
console == <<store, syncing, pending, generation, loads>>
ghosts  == <<landed, early, tainted, outages>>

emptyAlerts == [active |-> <<>>, history |-> <<>>, muted |-> {}, dropped |-> 0]

-----------------------------------------------------------------------------
(* What an event does to a list of alarms.                                     *)

Without(list, a) == Sieved(list, ToSet(list) \ {a})

\* Replace or append: an alarm told twice stands once.
merged(active, a) == IF a \in ToSet(active) THEN active ELSE Append(active, a)

Headed(history, a) ==
    LET all == <<a>> \o Without(history, a) IN SubSeq(all, 1, IF Len(all) < Depth THEN Len(all) ELSE Depth)

Raised(s, e)   == [s EXCEPT !.active = merged(@, e.alarm)]
Resolved(s, e) == [s EXCEPT !.active = Without(@, e.alarm), !.history = Headed(@, e.alarm)]
Muted(s, e)    == [s EXCEPT !.muted = IF e.on THEN @ \cup {e.alarm} ELSE @ \ {e.alarm}]

\* Forward only: a figure that walked back would have un-dropped something.
DroppedTotal(s, e) == [s EXCEPT !.dropped = IF e.total > @ THEN e.total ELSE @]

Apply(s, e) == CASE e.kind = "raised"   -> Raised(s, e)
                 [] e.kind = "resolved" -> Resolved(s, e)
                 [] e.kind = "mute"     -> Muted(s, e)
                 [] e.kind = "dropped"  -> DroppedTotal(s, e)

\* The events that waited, applied one after another.
Drained(s) ==
    LET after[n \in 0..Len(pending)] == IF n = 0 THEN s ELSE Apply(after[n - 1], pending[n])
    IN  after[Len(pending)]

-----------------------------------------------------------------------------

\* The subscription comes first and the first snapshot is asked for with it, before the hub
\* is started.
Init ==
    /\ engine = emptyAlerts /\ raisedEver = {}
    /\ hub = "off" /\ wire = <<>>
    /\ store = emptyAlerts
    /\ generation = 1 /\ syncing = TRUE /\ pending = <<>>
    /\ loads = {[mine |-> 1, asked |-> hub, answer |-> <<>>]}
    /\ landed = "none" /\ early = FALSE /\ tainted = FALSE
    /\ outages = 0 /\ mutes = 0

-----------------------------------------------------------------------------
(* The server.  It says what it does to whoever is connected.                  *)

Says(e) == IF hub = "up" THEN Len(wire) + Len(pending) < MaxWire /\ wire' = Append(wire, e) ELSE UNCHANGED wire

Happens(e) == /\ engine' = Apply(engine, e) /\ Says(e)
              /\ UNCHANGED <<hub, console, ghosts>>

EngineRaises(a) ==
    /\ a \notin raisedEver /\ raisedEver' = raisedEver \cup {a}
    /\ Happens([kind |-> "raised", alarm |-> a]) /\ UNCHANGED mutes

EngineResolves(a) ==
    /\ a \in ToSet(engine.active)
    /\ Happens([kind |-> "resolved", alarm |-> a]) /\ UNCHANGED <<raisedEver, mutes>>

EngineMutes(a) ==
    /\ a \in raisedEver /\ mutes < MaxMutes /\ mutes' = mutes + 1
    /\ Happens([kind |-> "mute", alarm |-> a, on |-> a \notin engine.muted])
    /\ UNCHANGED raisedEver

EngineDrops ==
    /\ engine.dropped < MaxTotal
    /\ Happens([kind |-> "dropped", total |-> engine.dropped + 1])
    /\ UNCHANGED <<raisedEver, mutes>>

\* After a restart every standing alarm is announced again.
Reannounces(a) ==
    /\ a \in ToSet(engine.active) /\ hub = "up" /\ outages > 0
    /\ Says([kind |-> "raised", alarm |-> a])
    /\ UNCHANGED <<server, hub, console, ghosts>>

-----------------------------------------------------------------------------
(* The console.                                                                *)

\* load: a newer snapshot owns the answer and the queue both.
Load == /\ generation < MaxLoads
        /\ generation' = generation + 1 /\ syncing' = TRUE
        /\ loads' = loads \cup {[mine |-> generation + 1, asked |-> hub', answer |-> <<>>]}
        /\ UNCHANGED <<store, pending>>

\* The alerts panel reads again while it is open.
PanelTick == UNCHANGED hub /\ Load /\ UNCHANGED <<server, wire, ghosts>>

Served(l) ==
    /\ l.answer = <<>>
    /\ loads' = (loads \ {l}) \cup {[l EXCEPT !.answer = <<engine>>]}
    /\ UNCHANGED <<server, hub, wire, store, syncing, pending, generation, ghosts>>

taken(l) == l.answer[1]

\* The answer of the newest snapshot, or its failure: the queue is drained whether the
\* snapshot came or not.
Settles(l, base) ==
    /\ l.mine = generation
    /\ store' = Drained(base) /\ syncing' = FALSE /\ pending' = <<>>
    /\ early' = FALSE
    /\ UNCHANGED <<server, hub, wire, generation, outages>>

\* REPLACED, never merged.
Landed(l) == /\ l.answer # <<>> /\ loads' = loads \ {l}
             /\ Settles(l, taken(l))
             /\ landed' = (IF hub = "up" /\ l.asked = "up" THEN "under" ELSE "before")
             /\ tainted' = early

Failed(l) == /\ loads' = loads \ {l} /\ Settles(l, store)
             /\ tainted' = (tainted \/ early) /\ UNCHANGED landed

\* An older one, answered or not, does nothing at all.
Superseded(l) == /\ l.mine # generation /\ loads' = loads \ {l}
                 /\ UNCHANGED <<server, hub, wire, store, syncing, pending, generation, ghosts>>

\* Mutant: an event is taken in at once, under a snapshot that will replace it.
queuedNever == FALSE

\* Whether an event has to wait for the snapshot in flight.
queued == syncing

Hears ==
    /\ hub = "up" /\ wire # <<>> /\ wire' = Tail(wire)
    /\ IF queued THEN pending' = Append(pending, Head(wire)) /\ UNCHANGED store
                 ELSE store' = Apply(store, Head(wire)) /\ UNCHANGED pending
    /\ UNCHANGED <<server, hub, syncing, generation, loads, ghosts>>

-----------------------------------------------------------------------------
(* The connection.                                                             *)

HubStarts == /\ hub = "off" /\ hub' = "up"
             /\ UNCHANGED <<server, wire, console, ghosts>>

\* What was on the wire is lost.  A server that restarted counts from nothing, and what was
\* asked of it is never answered.
HubDrops ==
    /\ hub = "up" /\ outages < MaxOutages /\ outages' = outages + 1
    /\ hub' = "down" /\ wire' = <<>>
    /\ landed' = "none" /\ early' = (pending # <<>>)
    /\ \/ UNCHANGED engine
       \/ engine' = [engine EXCEPT !.dropped = 0, !.history = <<>>]
    /\ loads' = {[l EXCEPT !.asked = "down"] : l \in loads}
    /\ UNCHANGED <<raisedEver, mutes, store, syncing, pending, generation, tainted>>

\* reconnected: the alarms are fetched again rather than trusted.
HubReturns == /\ hub = "down" /\ hub' = "up" /\ Load
              /\ UNCHANGED <<server, wire, ghosts>>

Next ==
    \/ \E a \in Alarms : EngineRaises(a) \/ EngineResolves(a) \/ EngineMutes(a) \/ Reannounces(a)
    \/ EngineDrops \/ PanelTick \/ Hears
    \/ \E l \in loads : Served(l) \/ Landed(l) \/ Failed(l) \/ Superseded(l)
    \/ HubStarts \/ HubDrops \/ HubReturns

Spec == Init /\ [][Next]_vars

-----------------------------------------------------------------------------
(* Properties.                                                                 *)

TypeOK ==
    /\ engine.dropped \in 0..MaxTotal /\ store.dropped \in 0..MaxTotal
    /\ \A s \in {engine, store} :
         /\ IsInjective(s.active) /\ ToSet(s.active) \subseteq Alarms
         /\ IsInjective(s.history) /\ Len(s.history) <= Depth /\ s.muted \subseteq Alarms
    /\ hub \in {"off", "up", "down"} /\ generation \in 1..MaxLoads
    /\ \A l \in loads : l.mine \in 1..generation /\ l.asked \in {"off", "up", "down"}
    /\ (syncing <=> \E l \in loads : l.mine = generation)

\* Nothing on its way, and a snapshot has landed over which nothing has been lost.
Quiet == hub = "up" /\ wire = <<>> /\ ~syncing

Same == /\ ToSet(store.active) = ToSet(engine.active) /\ store.history = engine.history
        /\ store.muted = engine.muted /\ store.dropped = engine.dropped

\* Once a snapshot asked for under this connection has landed and nothing more is on its way,
\* the console shows the alarms that stand and no other, whatever was raised, resolved or
\* silenced while the snapshot was out, and in whatever order the answers came: unless what
\* waited behind it had waited since before an outage.
CaughtUp == (Quiet /\ landed = "under" /\ ~tainted) => Same

\* A phantom ends with the snapshot taken after the hub has come back.
PhantomsEnd == (Quiet /\ landed = "under") => ToSet(store.active) \subseteq ToSet(engine.active)

\* Nothing raised while the first snapshot is in flight falls between it and the hub.
NothingFallsBetween == (Quiet /\ outages = 0 /\ landed # "none") => Same
=============================================================================
