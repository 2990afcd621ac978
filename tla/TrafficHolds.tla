----------------------------- MODULE TrafficHolds -----------------------------
(***************************************************************************)
(* What a reader sees of the traffic while parts of it are held still:     *)
(* the topic tree (lib/topicTree.ts, stores/topicTreeStore.ts), the log's  *)
(* runs, the queue behind the rail's Stop, and the holds a reader takes on *)
(* rows of the tree (lib/holds.ts, stores/holdStore.ts).                   *)
(*                                                                         *)
(* The tree counts as messages land and recounts where it is pruned; a     *)
(* hold keeps the rows and the runs that were on screen when it was taken; *)
(* and the screen is worked out from the live tree, the live runs and the  *)
(* holds together.  Every store has to agree after every change that       *)
(* reaches more than one of them.                                          *)
(*                                                                         *)
(* A path is the sequence of its levels and Root, the empty one, stands    *)
(* for the broker's row.  The filters are those the rows select: `#` and   *)
(* `path/#`, each written as its path.  A message is its id, which only    *)
(* goes up and stands for the time it came as well; the log's own bounds   *)
(* are TrafficLog's, and its runs are unbounded here.                      *)
(***************************************************************************)
EXTENDS Integers, SequencesExt, FiniteSetsExt

CONSTANTS Topics,          \* the paths the broker speaks on
          Ceiling,         \* MAX_TREE_TOPICS: the topics the tree keeps
          Spare,           \* a tenth of it: how many more go when it is passed
          MaxMessages,     \* the messages the model follows
          MaxHolds,        \* the holds the model keeps at once
          MaxQueue,        \* the messages the model queues
          MaxClears        \* the clears, unsubscribes and resets it follows

Root == <<>>

Paths == UNION {{SubSeq(t, 1, n) : n \in 1..Len(t)} : t \in Topics}

AllPaths == Paths \cup {Root}

HoldsAssumption ==
  /\ Topics # {} /\ Root \notin Topics
  /\ {Ceiling, Spare, MaxMessages, MaxHolds, MaxQueue, MaxClears} \subseteq Nat

VARIABLES tree,      \* what the live tree counts, per path
          log,       \* the run of every topic, oldest first
          queue,     \* what has arrived and not landed
          paused,    \* whether the rail's Stop is down
          held,      \* the holds, by the filter each was taken on
          nextId,    \* the id of the next message
          forgotten, \* how many topics the tree's ceiling has taken
          since,     \* ghost: per topic, messages since it was last cleared
          cut,       \* ghost: per topic, the last id there was when it was
          clears     \* how many clears there have been

vars == <<tree, log, queue, paused, held, nextId, forgotten, since, cut, clears>>

-----------------------------------------------------------------------------
(* The tree: lib/topicTree.ts.                                              *)

\* The messages on exactly this path, the topics with a message at or
\* beneath it, and the messages at or beneath it.
NoRow == [hits |-> 0, subTopics |-> 0, subMessages |-> 0]

EmptyTree == [p \in AllPaths |-> NoRow]

InRegion(region, path) == IsPrefix(region, path)

Children(path) == {p \in Paths : Len(p) = Len(path) + 1 /\ IsPrefix(path, p)}

\* A message counted on its way down.
Insert(rows, topic) ==
  LET new == IF rows[topic].hits = 0 THEN 1 ELSE 0
  IN  [p \in AllPaths |->
         IF ~InRegion(p, topic) THEN rows[p]
         ELSE [hits        |-> rows[p].hits + (IF p = topic THEN 1 ELSE 0),
               subTopics   |-> rows[p].subTopics + new,
               subMessages |-> rows[p].subMessages + 1]]

\* The rows at or beneath `top` with the paths in `gone` taken out.  A row
\* with nothing of its own and nothing left under it goes, and every row
\* above a change is counted again from the rows left under it.
PruneTopics(rows, gone, top) ==
  LET Dropped(p) == p # Root /\ p \in gone
      Touched(p) == \E q \in Paths : InRegion(p, q) /\ rows[q] # NoRow /\ Dropped(q)
      left[p \in AllPaths] ==
        IF rows[p] = NoRow \/ ~InRegion(top, p) \/ ~Touched(p) THEN rows[p]
        ELSE LET under == {c \in Children(p) : left[c] # NoRow}
                 own   == IF Dropped(p) THEN 0 ELSE rows[p].hits
             IN  IF p # Root /\ under = {} /\ own = 0 THEN NoRow
                 ELSE [hits        |-> own,
                       subTopics   |-> MapThenSumSet(LAMBDA c : left[c].subTopics, under)
                                         + (IF own = 0 THEN 0 ELSE 1),
                       subMessages |-> MapThenSumSet(LAMBDA c : left[c].subMessages, under)
                                         + own]
  IN  left

\* When each topic was last heard from is the newest of its run: the two are
\* forgotten together, and the newest outlives every other way of cutting it.
QuietestTopics(rows, runs, count, keep) ==
  LET standing == {t \in Topics : rows[t].hits > 0 /\ t # keep}
      Older(t) == {u \in standing : Last(runs[u]) < Last(runs[t])}
  IN  {t \in standing : Cardinality(Older(t)) < count}

-----------------------------------------------------------------------------
(* What a hold covers, and the screen: lib/holds.ts.                        *)

Holds == DOMAIN held

\* The nearest of `some` of the holds over a path, and the holds no other
\* holds.
Over(some, path) == {h \in some : InRegion(h, path)}

Nearest(some, path) == CHOOSE h \in Over(some, path) :
                         \A g \in Over(some, path) : Len(g) <= Len(h)

Outermost == {h \in Holds : \A g \in Holds \ {h} : ~InRegion(g, h)}

\* What has come under a hold since, never less than nothing.
Less(live, frozen) == IF live > frozen THEN live - frozen ELSE 0

Behind(h) ==
  IF tree[h] = NoRow \/ held[h].nodes[h] = NoRow THEN [messages |-> 0, topics |-> 0]
  ELSE [messages |-> Less(tree[h].subMessages, held[h].nodes[h].subMessages),
        topics   |-> Less(tree[h].subTopics, held[h].nodes[h].subTopics)]

Discount(row, under) ==
  [row EXCEPT !.subTopics = @ - MapThenSumSet(LAMBDA h : Behind(h).topics, under),
              !.subMessages = @ - MapThenSumSet(LAMBDA h : Behind(h).messages, under)]

\* A row as it is drawn: from the nearest hold over it, or from the live tree
\* less what the outermost holds beneath it keep back.  A row the live tree
\* does not have is drawn by nobody.
Drawn(path) ==
  IF path = Root
  THEN IF Root \in Holds THEN held[Root].nodes[Root]
       ELSE Discount(tree[Root], Outermost)
  ELSE IF tree[path] = NoRow THEN NoRow
  ELSE IF Over(Holds, path) # {} THEN held[Nearest(Holds, path)].nodes[path]
  ELSE Discount(tree[path], {h \in Outermost : InRegion(path, h)})

\* The holds whose region has anything a filter shows.
Touching(filter) == {h \in Holds : InRegion(filter, h) \/ InRegion(h, filter)}

\* The run a topic shows under a filter: the nearest hold's, or the log's.
ShownRun(filter, topic) ==
  IF ~InRegion(filter, topic) THEN <<>>
  ELSE IF Over(Touching(filter), topic) = {} THEN log[topic]
  ELSE held[Nearest(Touching(filter), topic)].runs[topic]

Count(filter) == MapThenSumSet(LAMBDA t : Len(ShownRun(filter, t)), Topics)

Newest(run) == IF run = <<>> THEN 0 ELSE Last(run)

\* How many messages a filter's own hold says have come behind it.
ArrivedBehind(filter) ==
  LET mine == {t \in Topics : /\ InRegion(filter, t)
                              /\ Nearest(Touching(filter), t) = filter}
      Later(t) == {n \in Range(log[t]) : n > Newest(held[filter].runs[t])}
  IN  MapThenSumSet(LAMBDA t : Cardinality(Later(t)), mine)

\* A hold frozen from the live stores.
FreezeLive(filter) ==
  [runs  |-> [t \in Topics |-> IF InRegion(filter, t) THEN log[t] ELSE <<>>],
   nodes |-> [p \in AllPaths |-> IF InRegion(filter, p) THEN tree[p] ELSE NoRow]]

\* A hold frozen from what is shown, never from the live stores: the walk
\* goes down the rows that are drawn and stops at one that is not.
Freeze(filter) ==
  LET Walked(p) == \A q \in AllPaths : InRegion(filter, q) /\ InRegion(q, p)
                                         => q = Root \/ Drawn(q) # NoRow
  IN  [runs  |-> [t \in Topics |-> ShownRun(filter, t)],
       nodes |-> [p \in AllPaths |-> IF InRegion(filter, p) /\ Walked(p)
                                     THEN Drawn(p) ELSE NoRow]]

\* A hold with some topics taken out of it, and whether anything is left.
ForgetFrozen(h, gone) ==
  LET one     == held[h]
      touched == \E p \in gone : one.nodes[p] # NoRow \/ (p \in Topics /\ one.runs[p] # <<>>)
  IN  IF ~touched THEN one
      ELSE [runs  |-> [t \in Topics |-> IF t \in gone THEN <<>> ELSE one.runs[t]],
            nodes |-> PruneTopics(one.nodes, gone, h)]

StillHolds(h, left) ==
  (\E t \in Topics : left.runs[t] # <<>>) \/ left.nodes[h].subTopics # 0

-----------------------------------------------------------------------------
Init ==
  /\ tree = EmptyTree /\ log = [t \in Topics |-> <<>>] /\ queue = <<>>
  /\ paused = FALSE /\ held = [h \in {} |-> [runs |-> log, nodes |-> tree]]
  /\ nextId = 1 /\ forgotten = 0 /\ clears = 0
  /\ since = [t \in Topics |-> 0] /\ cut = [t \in Topics |-> 0]

\* A message off the hub, queued for the next frame.
Arrives(topic) ==
  /\ nextId <= MaxMessages /\ Len(queue) < MaxQueue
  /\ queue' = Append(queue, [topic |-> topic, id |-> nextId])
  /\ nextId' = nextId + 1
  /\ since' = [since EXCEPT ![topic] = @ + 1]
  /\ UNCHANGED <<tree, log, paused, held, forgotten, cut, clears>>

\* A frame takes in what is queued: the log first, then the tree, and what
\* the tree's ceiling gives up goes from the log with it.  The topic the
\* reader has selected is spared, whichever that is.
Frame(keep) ==
  LET landed == [t \in Topics |->
                   log[t] \o [n \in 1..Len(SelectSeq(queue, LAMBDA m : m.topic = t)) |->
                                SelectSeq(queue, LAMBDA m : m.topic = t)[n].id]]
      grown  == FoldLeft(LAMBDA rows, m : Insert(rows, m.topic), tree, queue)
      gone   == IF grown[Root].subTopics <= Ceiling THEN {}
                ELSE QuietestTopics(grown, landed,
                                    (grown[Root].subTopics - Ceiling) + Spare, keep)
  IN  /\ ~paused /\ queue # <<>>
      /\ tree' = PruneTopics(grown, gone, Root)
      /\ log' = [t \in Topics |-> IF t \in gone THEN <<>> ELSE landed[t]]
      /\ queue' = <<>> /\ forgotten' = forgotten + Cardinality(gone)
      /\ UNCHANGED <<paused, held, nextId, since, cut, clears>>

\* The rail's Stop.
Toggle ==
  /\ paused' = ~paused
  /\ UNCHANGED <<tree, log, queue, held, nextId, forgotten, since, cut, clears>>

\* A hold on the row a filter selects, taken where its control is: on a row
\* that is drawn.
Take(filter) ==
  /\ filter \notin Holds /\ Cardinality(Holds) < MaxHolds
  /\ filter = Root \/ Drawn(filter) # NoRow
  /\ held' = [h \in Holds \cup {filter} |-> IF h = filter THEN Freeze(filter) ELSE held[h]]
  /\ UNCHANGED <<tree, log, queue, paused, nextId, forgotten, since, cut, clears>>

Release(filter) ==
  /\ filter \in Holds
  /\ held' = [h \in Holds \ {filter} |-> held[h]]
  /\ UNCHANGED <<tree, log, queue, paused, nextId, forgotten, since, cut, clears>>

\* Topics gone from every place the console keeps one: the log's runs, the
\* tree, every hold, and the queue behind the Stop.
ForgetTopics(gone) ==
  LET left == [h \in Holds |-> ForgetFrozen(h, gone)]
  IN  /\ log' = [t \in Topics |-> IF t \in gone THEN <<>> ELSE log[t]]
      /\ tree' = PruneTopics(tree, gone, Root)
      /\ held' = [h \in {g \in Holds : left[g] = held[g] \/ StillHolds(g, left[g])} |-> left[h]]
      /\ queue' = SelectSeq(queue, LAMBDA m : m.topic \notin gone)
      /\ since' = [t \in Topics |-> IF t \in gone THEN 0 ELSE since[t]]
      /\ cut' = [t \in Topics |-> IF t \in gone THEN nextId - 1 ELSE cut[t]]
      /\ clears < MaxClears /\ clears' = clears + 1
      /\ UNCHANGED <<paused, nextId, forgotten>>

\* Clear on the pane: all of what the selection shows, offered while it shows
\* something.
ClearSelection(filter) ==
  /\ Count(filter) > 0
  /\ ForgetTopics({p \in Paths : InRegion(filter, p)})

\* An unsubscribe takes the topics no filter still up covers.
ForgetUnsubscribed(filter, kept) ==
  ForgetTopics({p \in Paths : InRegion(filter, p) /\ ~InRegion(kept, p)})

\* Or all but the newest: the rows and the queue stay as they are.
KeepNewest(filter) ==
  LET Cut(run) == IF run = <<>> THEN run ELSE <<Last(run)>>
      Under(runs) == [t \in Topics |-> IF InRegion(filter, t) THEN Cut(runs[t]) ELSE runs[t]]
  IN  /\ Count(filter) > 1
      /\ clears < MaxClears /\ clears' = clears + 1
      /\ log' = Under(log)
      /\ held' = [h \in Holds |-> [held[h] EXCEPT !.runs = Under(@)]]
      /\ UNCHANGED <<tree, queue, paused, nextId, forgotten, since, cut>>

\* A fresh tree - a connection, or Clear traffic - lets every hold go and
\* takes the log and the queue with it.
Reset ==
  /\ clears < MaxClears /\ clears' = clears + 1
  /\ tree' = EmptyTree /\ log' = [t \in Topics |-> <<>>] /\ queue' = <<>>
  /\ held' = [h \in {} |-> held[h]] /\ forgotten' = 0
  /\ since' = [t \in Topics |-> 0] /\ cut' = [t \in Topics |-> nextId - 1]
  /\ UNCHANGED <<paused, nextId>>

Next ==
  \/ \E t \in Topics : Arrives(t)
  \/ \E keep \in Topics \cup {Root} : Frame(keep)
  \/ Toggle
  \/ \E p \in AllPaths : Take(p)
  \/ \E p \in AllPaths : Release(p)
  \/ \E p \in AllPaths : ClearSelection(p)
  \/ \E p \in AllPaths : \E kept \in Paths \ {p} : InRegion(p, kept) /\ ForgetUnsubscribed(p, kept)
  \/ \E p \in AllPaths : KeepNewest(p)
  \/ Reset

Spec == Init /\ [][Next]_vars

-----------------------------------------------------------------------------
(* Properties.                                                              *)

Screen == [rows |-> [p \in AllPaths |-> Drawn(p)],
           runs |-> [p \in AllPaths |-> [t \in Topics |-> ShownRun(p, t)]]]

\* Pressing pause moves nothing: no row and no run of any pane is other after
\* a hold is taken than before it, whatever holds stand above it or beneath
\* it (holds.ts:329-335, useTraffic.ts:96-97).
TakingMovesNothing ==
  [][Holds \subseteq Holds' /\ Holds # Holds' => Screen' = Screen]_vars

\* What is held stands still.  As messages come and land, no run under a hold
\* changes, and no row under one does but to go when the tree's ceiling has
\* forgotten its topics (holds.ts:217-222) - and, which those lines do not say,
\* to come back when a topic so forgotten speaks again.
HeldStandsStill ==
  [][held' = held =>
       /\ \A t \in Topics : Over(Holds, t) # {} =>
            ShownRun(Root, t)' = ShownRun(Root, t)
       /\ \A p \in Paths : Over(Holds, p) # {} =>
            Drawn(p)' = Drawn(p) \/ tree'[p] = NoRow \/ tree[p] = NoRow]_vars

\* A branch counts what its rows add up to, the broker's row included, over
\* any mixture of held and live rows (holds.ts:219-224) - until the ceiling
\* first takes topics from the live tree and leaves them in a hold, from when
\* on nothing is said here.
BranchAddsUp ==
  forgotten = 0 =>
    \A p \in AllPaths : p = Root \/ Drawn(p) # NoRow =>
      /\ Drawn(p).subMessages = Drawn(p).hits
           + MapThenSumSet(LAMBDA c : Drawn(c).subMessages, Children(p))
      /\ Drawn(p).subTopics = (IF Drawn(p).hits = 0 THEN 0 ELSE 1)
           + MapThenSumSet(LAMBDA c : Drawn(c).subTopics, Children(p))

\* What a reader cleared, unsubscribed from or left behind with an old tree
\* never comes back: no run shown or held, nothing queued and no row counts a
\* message from before (clearTraffic.ts:31-42).
ClearedStaysGone ==
  \A t \in Topics :
    /\ \A n \in Range(log[t]) : n > cut[t]
    /\ \A h \in Holds : \A n \in Range(held[h].runs[t]) : n > cut[t]
    /\ \A m \in Range(queue) : m.topic = t => m.id > cut[t]
    /\ Drawn(t).hits <= since[t]

\* The count on a hold's control is what letting it go brings on screen, as
\* long as no hold above it keeps that back (holds.ts:299-304).
CountIsWhatComes ==
  [][\A h \in Holds \ Holds' :
       held' = [g \in Holds \ {h} |-> held[g]] /\ Over(Holds \ {h}, h) = {} /\ log' = log =>
         LET Seen == UNION {{<<t, n>> : n \in Range(ShownRun(h, t))} : t \in Topics}
         IN  Cardinality(Seen' \ Seen) = ArrivedBehind(h)]_vars

-----------------------------------------------------------------------------
\* holds.ts:222-223 says a branch never counts more than its rows add up to.
\* The tree's ceiling takes rows out from under a held branch that goes on
\* counting them.
NeverCountsMore ==
  \A p \in AllPaths : p = Root \/ Drawn(p) # NoRow =>
    Drawn(p).subMessages <= Drawn(p).hits
       + MapThenSumSet(LAMBDA c : Drawn(c).subMessages, Children(p))
=============================================================================
