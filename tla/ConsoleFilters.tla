--------------------------- MODULE ConsoleFilters ---------------------------
(* The console's topic filters: the list it shows of what is up, the box new     *)
(* ones are written in, the batches it sends, the chip that lets one go and      *)
(* takes its topics off the screen, and what a Connect asks for by itself        *)
(* (features/subscribe, useConnectionActions.ts).                                *)
(*                                                                               *)
(* The list is a cache of the server's. Nothing pushes a change of it: it is     *)
(* read again when a command of this console answers, and when the reader comes  *)
(* back to the page. The server, which rules and other consoles also change, is  *)
(* the environment here; what it does with a claim is Subscriptions' matter.     *)
EXTENDS Integers, Sequences, FiniteSets, SequencesExt, FiniteSetsExt

CONSTANTS
    Filters, Topics,
    Covers,         \* the topics each filter matches
    System,         \* $SYS/#
    Batch,          \* how many filters go in one packet
    None,
    MaxPresses,     \* bound: Subscribes and unsubscribes
    MaxElse,        \* bound: changes made by others, clears, drops of the link
    MaxPicks        \* bound: picks and edits of the box

VARIABLES
    held,        \* the server: who holds each filter
    link,        \* the link, as the console was last told of it
    list, fetch, \* the list in hand; a read of it that is out, or its answer
    box, untouched, picked, written,   \* the box, and the pick last written in it
    sub,         \* the Subscribe in flight, or None
    drop,        \* the unsubscribe in flight for each filter
    dial,        \* what the Connect still has to ask for
    tree,        \* the topics on screen
    generation, watch,   \* the tree's generation, and the one $SYS is watched in
    came,        \* what arrived under $SYS since it was granted
    presses, else, picks

server == <<held, link>>
theBox == <<box, untouched, picked, written, picks>>
cache  == <<list, fetch>>
screen == <<tree, generation, watch, came>>
vars   == <<server, theBox, cache, screen, sub, drop, dial, presses, else>>

Owners == {"console", "rules"}

FiltersAssumption == /\ Covers \in [Filters -> SUBSET Topics] /\ System \in Filters
                     /\ Batch \in Nat \ {0}

Up(claims)    == {f \in Filters : claims[f] # {}}
Under(fs)     == UNION {Covers[f] : f \in fs}
Heard(claims) == Under(Up(claims))

Init == /\ held \in {[f \in Filters |-> IF f \in R THEN {"rules"} ELSE {}] : R \in SUBSET Filters}
        /\ link = TRUE
        /\ list = held /\ fetch = [stage |-> "none", answer |-> None]
        /\ box = {} /\ untouched = TRUE /\ picked = None /\ written = None
        /\ sub = None /\ drop = [f \in Filters |-> "no"]
        /\ dial \in {<<>>} \cup {<<f>> : f \in Filters} \cup {<<f, System>> : f \in Filters \ {System}}
        /\ tree = {} /\ generation = 0 /\ watch = None /\ came = {}
        /\ presses = 0 /\ else = 0 /\ picks = 0

\* A read that is out is waited for, and no other goes.
RefreshUnlessOut ==
  fetch' = IF fetch.stage = "none" THEN [stage |-> "out", answer |-> None] ELSE fetch

\* The query is invalidated: a read that is out is dropped, and another one goes.
Refresh == fetch' = [stage |-> "out", answer |-> None]

-----------------------------------------------------------------------------
(* The box.                                                                    *)

\* Typing makes the box the reader's. A read of it is a set: duplicates are dropped.
Type == \E S \in SUBSET Filters :
    /\ picks < MaxPicks /\ picks' = picks + 1
    /\ box' = S /\ untouched' = FALSE
    /\ UNCHANGED <<picked, written, server, cache, screen, sub, drop, dial, presses, else>>

\* A chip or a tree row picked. The first pick takes the place of the seed, later ones
\* are added; picking what is already picked announces nothing.
Pick(f) ==
    /\ picks < MaxPicks /\ picks' = picks + 1
    /\ picked' = f /\ written' = f
    /\ IF f = written THEN UNCHANGED <<box, untouched>>
       ELSE /\ box' = (IF untouched THEN {} ELSE box) \cup {f}
            /\ untouched' = FALSE
    /\ UNCHANGED <<server, cache, screen, sub, drop, dial, presses, else>>

-----------------------------------------------------------------------------
(* Subscribing.                                                                *)

\* The filters of the box that the list does not show up already.
Fresh == box \ Up(list)

\* The next packet's filters, out of the ones left.
Chunks(left) == kSubset(IF Cardinality(left) < Batch THEN Cardinality(left) ELSE Batch, left)

Subscribe ==
    /\ presses < MaxPresses /\ presses' = presses + 1
    /\ link /\ sub = None /\ Fresh # {}
    /\ \E chunk \in Chunks(Fresh) :
          sub' = [left |-> Fresh \ chunk, out |-> chunk, answer |-> None]
    /\ UNCHANGED <<server, theBox, cache, screen, drop, dial, else>>

\* The server has its SUBACK: what the broker granted of the packet is up, whatever it
\* did with the rest, and a refusal of any of it is the answer.
BrokerGrants(granted) ==
    /\ sub # None /\ sub.answer = None /\ granted \subseteq sub.out
    /\ link \/ granted = {}
    /\ held' = [f \in Filters |-> IF f \in granted THEN held[f] \cup {"console"} ELSE held[f]]
    /\ sub' = [sub EXCEPT !.answer = IF granted = sub.out THEN "granted" ELSE "refused"]
    /\ UNCHANGED <<link, theBox, cache, screen, drop, dial, presses, else>>

\* One packet after another: a refused one leaves the rest unsent, and the last one's
\* answer has the list read again.
SubscribeAnswered ==
    /\ sub # None /\ sub.answer # None
    /\ \/ /\ sub.answer = "granted" /\ sub.left # {}
          /\ \E chunk \in Chunks(sub.left) :
                sub' = [left |-> sub.left \ chunk, out |-> chunk, answer |-> None]
          /\ UNCHANGED cache
       \/ /\ sub.answer = "granted" /\ sub.left = {}
          /\ sub' = None /\ Refresh /\ UNCHANGED list
       \/ sub.answer = "refused" /\ sub' = None /\ UNCHANGED cache
    /\ UNCHANGED <<server, theBox, screen, drop, dial, presses, else>>

-----------------------------------------------------------------------------
(* Letting one go.                                                             *)

\* The x of a chip this console holds: one request at a time for each filter.
LetGo(f) ==
    /\ presses < MaxPresses /\ presses' = presses + 1
    /\ "console" \in list[f] /\ drop[f] = "no"
    /\ drop' = [drop EXCEPT ![f] = "out"]
    /\ UNCHANGED <<server, theBox, cache, screen, sub, dial, else>>

\* The server drops the console's claim; the broker may refuse, and then it stands.
ServerDrops(f, works) ==
    /\ drop[f] = "out"
    /\ works => link
    /\ held' = IF works THEN [held EXCEPT ![f] = @ \ {"console"}] ELSE held
    /\ drop' = [drop EXCEPT ![f] = IF works THEN "gone" ELSE "kept"]
    /\ UNCHANGED <<link, theBox, cache, screen, sub, dial, presses, else>>

\* All that the filter matches, whichever others match it too.
PrunedAll(f) == IF "rules" \in list[f] THEN {} ELSE Covers[f]

\* What an unsubscribe takes off the screen: the topics no filter still up covers, by the
\* list in hand, and nothing for a filter a rule also holds.
Pruned(f) == IF "rules" \in list[f] THEN {}
             ELSE Covers[f] \ Under(Up(list) \ {f})

LetGoAnswered(f) ==
    /\ drop[f] \in {"gone", "kept"}
    /\ drop' = [drop EXCEPT ![f] = "no"]
    /\ IF drop[f] = "gone"
       THEN tree' = tree \ Pruned(f) /\ Refresh
       ELSE UNCHANGED <<tree, fetch>>
    /\ UNCHANGED <<server, theBox, list, generation, watch, came, sub, dial, presses, else>>

-----------------------------------------------------------------------------
(* The list, read.                                                             *)

\* Without a link the server holds nothing.
ServeList == /\ fetch.stage = "out"
             /\ fetch' = [stage |-> "served",
                           answer |-> IF link THEN held ELSE [f \in Filters |-> {}]]
             /\ UNCHANGED <<server, theBox, list, screen, sub, drop, dial, presses, else>>

ListLands == /\ fetch.stage = "served" /\ list' = fetch.answer
             /\ fetch' = [stage |-> "none", answer |-> None]
             /\ UNCHANGED <<server, theBox, screen, sub, drop, dial, presses, else>>

-----------------------------------------------------------------------------
(* What a Connect listens to.                                                  *)

\* Its filters are asked for one after another, a refused one not stopping the rest; $SYS
\* granted is watched, and once the last has answered the list is read again.
DialAsks(granted) ==
    LET f == Head(dial) IN
    /\ dial # <<>> /\ dial' = Tail(dial)
    /\ granted => link
    /\ held' = IF granted THEN [held EXCEPT ![f] = @ \cup {"console"}] ELSE held
    /\ IF granted /\ f = System
       THEN watch' = generation /\ came' = tree \cap Covers[System]
       ELSE UNCHANGED <<watch, came>>
    /\ IF dial' = <<>> THEN Refresh ELSE UNCHANGED fetch
    /\ UNCHANGED <<link, theBox, list, tree, generation, sub, drop, presses, else>>

\* The watch is over, and says there are no statistics unless the tree started again, the
\* link is not up, or there is something under $SYS on screen.
SaysNoStatistics == /\ watch = generation /\ link /\ tree \cap Covers[System] = {}

WatchEnds == /\ watch # None /\ watch' = None
             /\ UNCHANGED <<server, theBox, cache, tree, generation, came, sub, drop, dial,
                            presses, else>>

-----------------------------------------------------------------------------
(* The world.                                                                  *)

\* A message on a filter that is up: its topic is on screen.
Arrives(t) ==
    /\ link /\ t \in Heard(held) \ tree
    /\ tree' = tree \cup {t}
    /\ came' = came \cup ({t} \cap Covers[System])
    /\ UNCHANGED <<server, theBox, cache, generation, watch, sub, drop, dial, presses, else>>

Elsewhere == else < MaxElse /\ else' = else + 1

\* A rule is enabled or disabled, or another console subscribes or lets go.
ClaimElsewhere(f, o) ==
    /\ Elsewhere /\ link
    /\ held' = [held EXCEPT ![f] = IF o \in @ THEN @ \ {o} ELSE @ \cup {o}]
    /\ UNCHANGED <<link, theBox, cache, screen, sub, drop, dial, presses>>

\* The reader comes back to the page, and the list is read again.
Focus == /\ Elsewhere /\ Refresh
         /\ UNCHANGED <<server, theBox, list, screen, sub, drop, dial, presses>>

\* The reader clears everything: the tree starts again.
ClearTraffic == /\ Elsewhere
                /\ tree' = {} /\ generation' = generation + 1
                /\ UNCHANGED <<server, theBox, cache, watch, came, sub, drop, dial, presses>>

\* The link drops, and comes back with what was up restored, of which the list is read again.
LinkTurns == /\ Elsewhere /\ link' = ~link
             /\ IF link' THEN Refresh /\ UNCHANGED list ELSE UNCHANGED cache
             /\ UNCHANGED <<held, theBox, screen, sub, drop, dial, presses>>

-----------------------------------------------------------------------------

Box    == Type \/ \E f \in Filters : Pick(f)
Lists  == ServeList \/ ListLands
Subs   == Subscribe \/ SubscribeAnswered \/ \E g \in SUBSET Filters : BrokerGrants(g)
Drops  == \E f \in Filters : LetGo(f) \/ LetGoAnswered(f) \/ \E w \in BOOLEAN : ServerDrops(f, w)
Dials  == (\E g \in BOOLEAN : DialAsks(g)) \/ WatchEnds
Others == \/ \E f \in Filters, o \in Owners : ClaimElsewhere(f, o)
          \/ Focus \/ ClearTraffic \/ LinkTurns

Next == Box \/ Lists \/ Subs \/ Drops \/ Dials \/ Others \/ \E t \in Topics : Arrives(t)

\* A request is answered and its answer handled.
Fairness == /\ WF_vars(ServeList) /\ WF_vars(ListLands)
            /\ \A f \in Filters : WF_vars(LetGoAnswered(f))

Spec == Init /\ [][Next]_vars /\ Fairness

-----------------------------------------------------------------------------
(* Properties.                                                                 *)

\* Letting a filter go takes nothing off the screen that is still listened to, as long as
\* the list in hand says what the server would.
ListIsTrue(f) == \A g \in Filters \ {f} : list[g] = held[g]
PrunesTheDeaf ==
    [][\A f \in Filters :
          (/\ drop[f] = "gone" /\ drop'[f] = "no" /\ ListIsTrue(f)
           /\ ("rules" \in list[f] <=> "rules" \in held[f]) /\ "console" \notin held[f])
             => (tree \ tree') \cap Heard(held) = {}]_vars

\* A filter this console has let go leaves the list, whatever reads of the list were out
\* when it went, unless it has been taken up again.
LetGoIsListed ==
    \A f \in Filters : drop[f] = "gone" ~> ("console" \notin list[f] \/ "console" \in held[f])

\* A topic the console still listens to never leaves the screen because another filter of
\* it was let go.
StillHeardStays ==
    [][(\E f \in Filters : drop[f] = "gone" /\ drop'[f] = "no")
          => (tree \ tree') \cap Heard(held) = {}]_vars

\* The console says the broker has no statistics only if none came.
SystemLineIsTrue ==
    [][(watch # None /\ watch' = None /\ SaysNoStatistics) => came = {}]_vars
=============================================================================
