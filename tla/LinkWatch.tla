------------------------------ MODULE LinkWatch ------------------------------
(* The console's memory of its link: what the server says of it, the answer    *)
(* the console holds, the watch store that turns states into an outage and a   *)
(* recovery, and the effects that mark the topic tree or start it again.       *)
(*                                                                             *)
(* The server's states come in as pushes that a render may take several of at  *)
(* once, and as fetches whose answer may land after a newer push.  A session   *)
(* is a number; `peer` is the broker it was made to.  A generation of the tree *)
(* is only ever compared with one kept earlier, so the model keeps whether     *)
(* they are the same.                                                          *)
EXTENDS Naturals, FiniteSets

CONSTANTS Brokers, None,
          MaxSessions,      \* sessions the server makes
          MaxMoves          \* faults of a live link and Connects, here or elsewhere

\* What the server says of its link, and the answers about it.
Links == [state : {"Disconnected", "Faulted", "Connecting", "Connected"},
          to : Brokers \cup {None}, sess : Nat]

\* What the ref keeps of the link last seen.
Refs == [to : Brokers, sess : Nat, same : BOOLEAN]

SessionsAssumption == MaxSessions \in Nat \ {0} /\ None \notin Brokers \cup Links \cup Refs

VARIABLES
    srv,        \* the server's link: [state, to, sess], `to` the broker it is about
    ladder,     \* the supervisor: "quiet", or an outage it dates and is "climbing" or not
    peer,       \* the broker each session was made to
    cache,      \* the last answer the console holds, or None
    status,     \* the supervisor's status the console holds
    reply,      \* a fetch: due, its answer on the way, or None
    ran,        \* the answer the effects last ran with, or None
    watch,      \* linkWatchStore
    linkAt,     \* the link the console last saw: [to, sess, same], or None
    sameTree,   \* the tree is the one that stood when the link dropped
    marked,     \* the session a return was last marked for (0: none)
    rows,       \* sessions the tree's rows were last heard in
    faded,      \* those of them drawn faded
    sooner,     \* rows already heard when the cache was last written
    dial,       \* this console's Connect: [stage, to]
    open,       \* the Broker panel is the one that is open
    moves,      \* the count behind MaxMoves
    loose,      \* history: rows may stand that the watch has not judged, for the reader started
                \* the tree again, or the link came up with no link remembered
    met         \* history: the sessions the effects have run with, none of them taken
                \* back by a fetch of an earlier one that landed late

vars == <<srv, ladder, peer, cache, status, reply, ran, watch, linkAt, sameTree,
          marked, rows, faded, sooner, dial, open, moves, loose, met>>

server  == <<srv, ladder, peer, moves>>
holding == <<cache, status, reply, sooner>>
effects == <<ran, linkAt, sameTree, marked, met>>
tree    == <<rows, faded>>

Rested == [failure |-> None, latest |-> None, dropped |-> FALSE, recovered |-> FALSE,
           byFault |-> FALSE, wasUp |-> FALSE, dialled |-> FALSE]
Due  == [state |-> "due", to |-> None, sess |-> 0]
Idle == [stage |-> "idle", to |-> None]

Init ==
    /\ srv \in {[state |-> "Disconnected", to |-> None, sess |-> 0]}
               \cup {[state |-> "Faulted", to |-> b, sess |-> 0] : b \in Brokers}
    /\ ladder = IF srv.state = "Faulted" THEN "climbing" ELSE "quiet"
    /\ peer = [s \in 1..MaxSessions |-> None]
    /\ cache = None /\ status = "quiet" /\ reply = Due
    /\ ran = None /\ watch = Rested
    /\ linkAt = None /\ sameTree = FALSE /\ marked = 0
    /\ rows = {} /\ faded = {} /\ sooner = {}
    /\ dial = Idle /\ open = TRUE
    /\ moves = 0 /\ loose = FALSE /\ met = {}

-----------------------------------------------------------------------------
(* The server's link, which any console may move.                             *)

Sessions == Cardinality({s \in DOMAIN peer : peer[s] # None})

Up(b) == /\ Sessions < MaxSessions
         /\ srv' = [state |-> "Connected", to |-> b, sess |-> Sessions + 1]
         /\ peer' = [peer EXCEPT ![Sessions + 1] = b]
         /\ ladder' = "quiet"

Stopped == IF ladder = "climbing" THEN "stopped" ELSE ladder

Dropped ==
    /\ srv.state = "Connected" /\ moves < MaxMoves
    /\ moves' = moves + 1
    /\ srv' = [srv EXCEPT !.state = "Faulted"]
    /\ ladder' \in {"climbing", "stopped"}
    /\ UNCHANGED <<peer, holding, effects, watch, tree, dial, open, loose>>

Rung == /\ srv.state = "Faulted" /\ ladder = "climbing"
        /\ srv' = [srv EXCEPT !.state = "Connecting"]
        /\ UNCHANGED <<ladder, peer, moves, holding, effects, watch, tree, dial, open,
                       loose>>

OtherDials(b) ==
    /\ moves < MaxMoves /\ srv.state # "Connecting"
    /\ moves' = moves + 1
    /\ srv' = [state |-> "Connecting", to |-> b, sess |-> srv.sess]
    /\ ladder' = Stopped
    /\ UNCHANGED <<peer, holding, effects, watch, tree, dial, open, loose>>

(* The server takes this console's Connect: a link to the same broker is left  *)
(* as it is, and a running rung is called off for it.                          *)
TakesDial ==
    /\ dial.stage = "asked"
    /\ IF srv.state = "Connected" /\ srv.to = dial.to
         THEN /\ dial' = [dial EXCEPT !.stage = "already"]
              /\ UNCHANGED <<srv, ladder>>
         ELSE /\ dial' = [dial EXCEPT !.stage = "running"]
              /\ srv' = [state |-> "Connecting", to |-> dial.to, sess |-> srv.sess]
              /\ ladder' = Stopped
    /\ UNCHANGED <<peer, moves, holding, effects, watch, tree, open, loose>>

Ended(stage) == dial' = IF dial.stage = "running" THEN [dial EXCEPT !.stage = stage] ELSE dial

DialWorks == /\ srv.state = "Connecting"
             /\ Up(srv.to) /\ Ended("worked")
             /\ UNCHANGED <<moves, holding, effects, watch, tree, open, loose>>

DialFails == /\ srv.state = "Connecting"
             /\ srv' = [srv EXCEPT !.state = "Faulted"]
             /\ Ended("failed")
             /\ UNCHANGED <<ladder, peer, moves, holding, effects, watch, tree, open,
                            loose>>

HungUp == /\ srv.state \in {"Connected", "Faulted"}
          /\ srv' = [state |-> "Disconnected", to |-> None, sess |-> 0]
          /\ ladder' = "quiet"
          /\ UNCHANGED <<peer, moves, holding, effects, watch, tree, dial, open,
                         loose>>

StopsTrying == /\ ladder = "climbing"
               /\ ladder' = Stopped
               /\ UNCHANGED <<srv, peer, moves, holding, effects, watch, tree, dial,
                              open, loose>>

Server == \/ Dropped \/ Rung \/ TakesDial \/ DialWorks \/ DialFails \/ HungUp \/ StopsTrying
          \/ \E b \in Brokers : OtherDials(b)

-----------------------------------------------------------------------------
(* How the answers reach the console.                                         *)

(* A hub push: the newest state, dated as it comes in.                        *)
Pushed == /\ cache # srv
          /\ cache' = srv /\ sooner' = rows
          /\ UNCHANGED <<server, status, reply, effects, watch, tree, dial, open, loose>>

StatusPushed == /\ status # ladder
                /\ status' = ladder
                /\ UNCHANGED <<server, cache, reply, sooner, effects, watch, tree, dial, open,
                               loose>>

(* A fetch, asked as the console opens, after a Connect and when the link is   *)
(* seen back, reads the server at one moment and lands at another.            *)
Fetched == /\ reply = Due /\ reply' = srv
           /\ UNCHANGED <<server, cache, status, sooner, effects, watch, tree, dial, open,
                          loose>>

FetchLands == /\ reply \notin {None, Due}
              /\ cache' = reply /\ reply' = None /\ sooner' = rows
              /\ UNCHANGED <<server, status, effects, watch, tree, dial, open, loose>>

(* Messages of the session that is up, taken into the tree.                   *)
Arrives == /\ srv.state = "Connected"
           /\ rows' = rows \cup {srv.sess} /\ faded' = faded \ {srv.sess}
           /\ <<rows', faded'>> # <<rows, faded>>
           /\ UNCHANGED <<server, holding, effects, watch, dial, open, loose>>

-----------------------------------------------------------------------------
(* The watch store.                                                           *)

InOutage(w) == w.dropped /\ ~w.recovered

SawFault(w, broker) ==
    CASE InOutage(w) -> [w EXCEPT !.latest = broker, !.dialled = FALSE,
                                  !.failure = IF @ = None THEN broker ELSE @]
      [] ~InOutage(w) /\ ~w.wasUp -> w
      [] OTHER -> [w EXCEPT !.failure = broker, !.latest = broker, !.dropped = TRUE,
                            !.recovered = FALSE, !.byFault = TRUE, !.wasUp = FALSE]

SawUp(w, broker) ==
    IF ~InOutage(w) THEN [w EXCEPT !.wasUp = TRUE]
    ELSE IF (w.failure # None /\ w.failure # broker) \/ w.dialled
           THEN [Rested EXCEPT !.wasUp = TRUE]
           ELSE [w EXCEPT !.wasUp = TRUE, !.recovered = TRUE]

Saw(w, c) ==
    CASE c.state = "Faulted"      -> SawFault(w, c.to)
      [] c.state = "Connected"    -> SawUp(w, c.to)
      [] c.state = "Connecting"   -> [w EXCEPT !.wasUp = w.wasUp /\ w.dropped]
      [] c.state = "Disconnected" -> Rested

Resume(w, broker) ==
    IF w.dropped THEN w
    ELSE [w EXCEPT !.failure = broker, !.dropped = TRUE, !.recovered = FALSE,
                   !.byFault = TRUE, !.wasUp = FALSE]

Dialling(w) == IF w.dropped THEN [w EXCEPT !.dialled = TRUE] ELSE w

-----------------------------------------------------------------------------
(* The effects of one render, in the order they are declared.                 *)

Seen == IF ran = None THEN "none" ELSE ran.state

(* What the state effect decides: the link came back by itself.               *)
CameBack(c) == /\ Seen \notin {"none", c.state} /\ c.state = "Connected"
               /\ InOutage(watch)
               /\ watch.failure = None \/ watch.failure = c.to

(* What the session effect decides, with the refs the state effect left.      *)
Judged(c, held) == /\ c.state = "Connected" /\ held # None
                   /\ <<held.to, held.sess>> # <<c.to, c.sess>> /\ held.same
\* Mutant: another broker's session is taken for one more of the same.
MovedNever(c, held) == FALSE

Moved(c, held)  == Judged(c, held) /\ held.to # c.to
Renewed(c, held, was) == Judged(c, held) /\ held.to = c.to /\ was # c.sess

(* The state effect runs when the answer changed; the session effect with it. *)
LinkEffects(c) ==
    LET held   == IF c.state = "Disconnected" /\ Seen = "Connected" THEN None ELSE linkAt
        marks  == CameBack(c) /\ sameTree
        was    == IF marks THEN c.sess ELSE marked
        resets == Moved(c, held)
        left   == IF resets THEN {} ELSE rows
    IN /\ sameTree' = CASE c.state = "Faulted" /\ Seen = "Connected" -> TRUE
                        [] CameBack(c) \/ resets -> FALSE
                        [] OTHER -> sameTree
       /\ marked' = IF Renewed(c, held, was) THEN c.sess ELSE was
       /\ reply' = IF CameBack(c) THEN Due ELSE reply          \* the link is asked about again
       /\ rows' = left
       /\ faded' = IF marks \/ Renewed(c, held, was) THEN left \cap (faded \cup sooner)
                   ELSE left \cap faded
       /\ linkAt' = IF c.state = "Connected" THEN [to |-> c.to, sess |-> c.sess, same |-> TRUE]
                    ELSE held
       /\ met' = IF c.state = "Connected" THEN {s \in met : s < c.sess} \cup {c.sess} ELSE met
       /\ loose' = IF c.state # "Connected" THEN loose
                   ELSE /\ \E s \in left : peer[s] # c.to \/ (s # c.sess /\ s \notin faded')
                        /\ loose \/ held = None

(* The outage the supervisor dates, taken over by its own effect.             *)
Resumed(w) == IF cache.state = "Faulted" /\ status # "quiet" THEN Resume(w, cache.to) ELSE w

Render ==
    /\ cache # None
    /\ ran # cache \/ Resumed(watch) # watch
    /\ ran' = cache
    /\ IF ran # cache THEN LinkEffects(cache)
                      ELSE UNCHANGED <<linkAt, sameTree, marked, met, reply, tree, loose>>
    /\ watch' = Resumed(IF ran # cache THEN Saw(watch, cache) ELSE watch)
    /\ open' = (open \/ (watch'.byFault /\ ~watch.byFault))
    /\ UNCHANGED <<server, cache, status, sooner, dial>>

-----------------------------------------------------------------------------
(* What the reader does.                                                      *)

(* The tree started again: what the refs kept of it is about another tree.    *)
Restarted == /\ rows' = {} /\ faded' = {}
             /\ sameTree' = FALSE
             /\ linkAt' = IF linkAt = None THEN None ELSE [linkAt EXCEPT !.same = FALSE]
             /\ loose' = (linkAt # None)

(* Connect, offered by the Broker panel while no link is up or being made.    *)
Connect(b) ==
    /\ open /\ dial = Idle /\ moves < MaxMoves
    /\ cache # None /\ cache.state \in {"Disconnected", "Faulted"}
    /\ moves' = moves + 1
    /\ watch' = Dialling(watch)
    /\ dial' = [stage |-> "asked", to |-> b]
    /\ UNCHANGED <<srv, ladder, peer, holding, effects, tree, open, loose>>

ConnectAnswered ==
    /\ dial.stage \in {"worked", "already", "failed"}
    /\ dial' = Idle
    /\ IF dial.stage = "worked" THEN Restarted
       ELSE UNCHANGED <<tree, sameTree, linkAt, loose>>
    /\ reply' = Due
    /\ UNCHANGED <<server, cache, status, sooner, ran, marked, met, watch, open>>

ClearsTraffic == /\ rows # {} /\ Restarted
                 /\ UNCHANGED <<server, holding, ran, marked, met, watch, dial, open>>

(* Dismiss stands on the notice's 'back' face.                                *)
Dismiss == /\ open /\ watch.recovered
           /\ watch' = [Rested EXCEPT !.wasUp = watch.wasUp]
           /\ UNCHANGED <<server, holding, effects, tree, dial, open, loose>>

(* The panel's own close lets go of the hold a fault had on it.               *)
ClosesByHand == /\ open /\ open' = FALSE
                /\ watch' = [watch EXCEPT !.byFault = FALSE]
                /\ UNCHANGED <<server, holding, effects, tree, dial, loose>>

(* The rail's rows open one panel, or shut the one that is open.               *)
Rail == /\ open' = ~open
        /\ UNCHANGED <<server, holding, effects, watch, tree, dial, loose>>

Reader == \/ \E b \in Brokers : Connect(b)
          \/ ConnectAnswered \/ ClearsTraffic \/ Dismiss \/ ClosesByHand
          \/ Rail

Next == Server \/ Pushed \/ StatusPushed \/ Fetched \/ FetchLands \/ Arrives \/ Render \/ Reader

Spec == Init /\ [][Next]_vars

-----------------------------------------------------------------------------
(* What the screen says of it.                                                *)

Face ==
    LET down == /\ cache # None /\ watch.dropped
                /\ cache.state = "Faulted" \/ (cache.state = "Connecting" /\ status = "climbing")
    IN CASE watch.recovered -> "back"
         [] ~watch.recovered /\ down /\ status = "climbing" -> "working"
         [] ~watch.recovered /\ down /\ status # "climbing" -> "stopped"
         [] OTHER -> "none"

(* The console has heard the newest and its effects have run.                 *)
Settled == cache = srv /\ status = ladder /\ ran = cache /\ Resumed(watch) = watch

-----------------------------------------------------------------------------
(* Whatever order pushes, fetches and renders came in, and whoever moved the   *)
(* link, dropped it or hung it up: the tree holds no row of a session the      *)
(* watch met that was to a broker other than the one the link is to.  One that *)
(* came and went between two renders, or behind a late answer about an earlier *)
(* one, was never met and its rows are never judged.  Two trees are loose, and *)
(* do keep them: one the reader started again and heard more on before the     *)
(* link moved, and one over which the link was hung up and then made           *)
(* elsewhere, for the link it was up to is no longer remembered.               *)
OneBrokersTopics ==
    Settled /\ srv.state = "Connected" /\ ~loose => \A s \in rows \cap met : peer[s] = srv.to

(* On a tree that is not loose every row last heard in an earlier session is   *)
(* drawn faded: a link that came back unseen marks what arrived before it.     *)
ReturnsAreMarked ==
    Settled /\ srv.state = "Connected" /\ ~loose => \A s \in rows : s # srv.sess => s \in faded

(* A link that is down with an outage the supervisor dates has the notice say  *)
(* so: never 'Reconnected' over it, and never nothing.                         *)
OutageIsTold ==
    Settled /\ srv.state = "Faulted" =>
        /\ Face # "back"
        /\ ladder # "quiet" => Face = IF ladder = "climbing" THEN "working" ELSE "stopped"

(* App's own sentence: a link that broke brings the reader to the panel.       *)
DropBringsTheReader == [][InOutage(watch') /\ ~InOutage(watch) => open']_vars
=============================================================================
