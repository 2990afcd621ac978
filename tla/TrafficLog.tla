------------------------------ MODULE TrafficLog ------------------------------
(***************************************************************************)
(* The console's log of what the broker sent: src/web/src/stores/          *)
(* logStore.ts and topicRing.ts.                                           *)
(*                                                                         *)
(* One bounded run of arrivals per topic, and two ceilings over all of     *)
(* them together.  Over the count, every run is made shorter; over the     *)
(* weight, every run is put under a weight bound of its own; and only when *)
(* neither is enough do whole topics go, the quietest first.  What is held *)
(* and what it weighs are kept running rather than walked, so every pass   *)
(* that shortens a run has to answer for both.                             *)
(*                                                                         *)
(* An arrival is its id, which only goes up, and what its body weighs.     *)
(* The commands of the console (`push` of anything that is not an arrival) *)
(* are kept in a list of their own no ceiling here reaches, and are left   *)
(* out.                                                                    *)
(***************************************************************************)
EXTENDS Naturals, Sequences, SequencesExt, FiniteSets, FiniteSetsExt

CONSTANTS Topics,          \* the topics the broker speaks on
          Weights,         \* what a body may weigh
          Budgets,         \* what the reader may allow the console to hold
          Depth,           \* TOPIC_DEPTH: the longest a run may be
          MinEntries,      \* MIN_TOPIC_ENTRIES: the shortest a run is cut to
          TopicBytes,      \* TOPIC_BYTES: what one run may weigh once capped
          Unbounded,       \* POSITIVE_INFINITY, of a run with no weight bound
          Ceiling,         \* MAX_LOG_ENTRIES: the most held over every topic
          MaxBatch,        \* the longest batch the model files at once
          MaxArrivals      \* the arrivals the model follows

LogAssumption ==
  /\ Weights \subseteq Nat /\ Budgets \subseteq Nat /\ Budgets # {}
  /\ \E most \in Weights \cup {TopicBytes} : \A w \in Weights : w <= most
  /\ Depth \in Nat /\ TopicBytes \in Nat /\ MaxBatch \in Nat
  /\ Unbounded \notin Nat /\ MinEntries \in 1..Depth /\ Ceiling \in Nat /\ MaxArrivals \in Nat

VARIABLES log,      \* the runs, what they come to, and the budget
          nextId    \* the id of the next arrival

vars == <<log, nextId>>

-----------------------------------------------------------------------------
(* A topic's run: topicRing.ts.                                             *)

NoRun == [items |-> <<>>, maxItems |-> 0, maxBytes |-> 0]

\* What a run weighs, unit by unit of each of its messages.
Units(items) == UNION {{k} \X (1..items[k].weight) : k \in DOMAIN items}

Heft(items) == Cardinality(Units(items))

\* The newest of `items` that fit: the oldest are let go while there are too
\* many of them, or while they weigh too much and are more than one.
Fit(items, most, heaviest) ==
  LET n == Len(items)
      Fits(k) == LET kept == SubSeq(items, n - k + 1, n)
                 IN  /\ k <= most
                     /\ heaviest = Unbounded \/ k <= 1 \/ Heft(kept) <= heaviest
  IN  SubSeq(items, n - Max({k \in 0..n : Fits(k)}) + 1, n)

PushOn(ring, one) ==
  [ring EXCEPT !.items = Fit(Append(@, one), ring.maxItems, ring.maxBytes)]

CapBytesTo(ring, bytes) ==
  [ring EXCEPT !.maxBytes = bytes, !.items = Fit(@, Len(@), bytes)]

NarrowTo(ring, share) ==
  [ring EXCEPT !.maxItems = share, !.items = Fit(@, share, Unbounded)]

KeepNewest(ring) == [ring EXCEPT !.items = Fit(@, 1, Unbounded)]

NewestId(ring) == IF ring.items = <<>> THEN 0 ELSE Last(ring.items).id

-----------------------------------------------------------------------------
(* The log: the topics that have a run, and what the runs come to.          *)

HasRun(runs) == {t \in Topics : runs[t] # NoRun}

Each(runs, Op(_)) == [t \in Topics |-> IF runs[t] = NoRun THEN NoRun ELSE Op(runs[t])]

\* The runs of some of the topics.
Only(runs, kept) == [t \in Topics |-> IF t \in kept THEN runs[t] ELSE NoRun]

HeldOf(runs) == Cardinality(UNION {{t} \X DOMAIN runs[t].items : t \in Topics})

HeldWeight(runs) == Cardinality(UNION {{t} \X Units(runs[t].items) : t \in Topics})

\* Whole topics go, the one whose newest message is oldest first, and no more
\* of them than it takes for what is left to measure no more than `most`.
Quietest(runs, most, Measure(_)) ==
  LET Newer(t) == {u \in HasRun(runs) : NewestId(runs[u]) >= NewestId(runs[t])}
  IN  Only(runs, {t \in HasRun(runs) : Measure(Only(runs, Newer(t))) <= most})

\* Whole topics gone before any run is made shorter.
NarrowRunsByTopic(runs, held) ==
  IF held <= Ceiling \/ HasRun(runs) = {} THEN runs ELSE Quietest(runs, Ceiling, HeldOf)

\* Every run is shortened to an equal share of the ceiling, never below the
\* shortest a run is cut to, and only then do topics go.
NarrowRuns(runs, held) ==
  IF held <= Ceiling \/ HasRun(runs) = {} THEN runs
  ELSE LET even  == Ceiling \div Cardinality(HasRun(runs))
           share == IF even > MinEntries THEN even ELSE MinEntries
           cut   == Each(runs, LAMBDA r : NarrowTo(r, share))
       IN  Quietest(cut, Ceiling, HeldOf)

\* The weight bound comes on for every run at once; topics go only when that
\* is not enough.
CutBack(state, budget) ==
  LET cut  == Each(state.runs, LAMBDA r : CapBytesTo(r, TopicBytes))
      kept == Quietest(cut, budget, HeldWeight)
  IN  [state EXCEPT !.runs = kept, !.capped = TRUE,
                    !.held = HeldOf(kept), !.weight = HeldWeight(kept)]

\* One arrival put in its topic's run.  `state` carries the load of the
\* messages filed before it in the same batch.
File(state, topic, one) ==
  LET fresh  == [items |-> <<>>, maxItems |-> Depth,
                 maxBytes |-> IF state.capped THEN TopicBytes ELSE Unbounded]
      was    == IF state.runs[topic] = NoRun THEN fresh ELSE state.runs[topic]
      now    == PushOn(was, one)
      runs   == [state.runs EXCEPT ![topic] = now]
      held   == (state.held + Len(now.items)) - Len(was.items)
      weight == (state.weight + Heft(now.items)) - Heft(was.items)
      kept   == NarrowRuns(runs, held)
      filed  == IF held > Ceiling
                THEN [state EXCEPT !.runs = kept, !.held = HeldOf(kept),
                                   !.weight = HeldWeight(kept)]
                ELSE [state EXCEPT !.runs = runs, !.held = held, !.weight = weight]
  IN  IF filed.weight > state.budget THEN CutBack(filed, state.budget) ELSE filed

Init ==
  /\ nextId = 1
  /\ \E b \in Budgets :
       log = [runs |-> [t \in Topics |-> NoRun], held |-> 0, weight |-> 0,
              budget |-> b, capped |-> FALSE]

\* A batch off the stream, its messages filed one after another.
AppendReceived ==
  \E n \in 1..MaxBatch : \E said \in [1..n -> Topics \X Weights] :
    /\ nextId + n <= MaxArrivals + 1
    /\ LET one(k)  == [id |-> nextId + k - 1, weight |-> said[k][2]]
           filed[k \in 0..n] == IF k = 0 THEN log
                                ELSE LET before == filed[k - 1]
                                     IN  File(before, said[k][1], one(k))
       IN  log' = filed[n]
    /\ nextId' = nextId + n

\* The runs of topics the tree has given up go with their rows.
ForgetTopics ==
  \E gone \in SUBSET Topics :
    LET went == Only(log.runs, gone)
    IN  /\ gone # {}
        /\ log' = [log EXCEPT !.runs = Only(@, Topics \ gone),
                              !.held = @ - HeldOf(went), !.weight = @ - HeldWeight(went)]
        /\ UNCHANGED nextId

\* A reader clears a pane and keeps the value on it.
KeepNewestOn ==
  \E cut \in SUBSET Topics :
    LET runs == [t \in Topics |-> IF t \in cut /\ log.runs[t] # NoRun
                                  THEN KeepNewest(log.runs[t]) ELSE log.runs[t]]
        was  == Only(log.runs, cut)
        now  == Only(runs, cut)
    IN  /\ cut # {}
        /\ log' = [log EXCEPT !.runs = runs, !.held = @ - (HeldOf(was) - HeldOf(now)),
                              !.weight = @ - (HeldWeight(was) - HeldWeight(now))]
        /\ UNCHANGED nextId

\* The traffic of a link that has gone.  An empty console is not under
\* pressure, so the weight bound comes off with it.
Clear ==
  /\ log' = [log EXCEPT !.runs = [t \in Topics |-> NoRun], !.held = 0,
                        !.weight = 0, !.capped = FALSE]
  /\ UNCHANGED nextId

\* The reader says how much the console may hold.  More of it lets the runs
\* grow again; less of it cuts them back at once.
SetBudget ==
  \E bytes \in Budgets :
    /\ bytes # log.budget
    /\ log' = IF bytes > log.budget /\ log.capped /\ bytes > log.weight
              THEN [log EXCEPT !.budget = bytes, !.capped = FALSE,
                               !.runs = Each(@, LAMBDA r : CapBytesTo(r, Unbounded))]
              ELSE IF log.weight <= bytes THEN [log EXCEPT !.budget = bytes]
              ELSE [CutBack(log, bytes) EXCEPT !.budget = bytes]
    /\ UNCHANGED nextId

Next == AppendReceived \/ ForgetTopics \/ KeepNewestOn \/ Clear \/ SetBudget

Spec == Init /\ [][Next]_vars

-----------------------------------------------------------------------------
(* Properties.                                                              *)

\* What the log says it holds and weighs is what its runs hold and weigh,
\* whatever passes shortened them (logStore.ts:174-184, 346-355).
LoadAddsUp ==
  log.held = HeldOf(log.runs) /\ log.weight = HeldWeight(log.runs)

\* The log never comes to rest over either ceiling (logStore.ts:60, 98).
WithinCeilings == log.held <= Ceiling /\ log.weight <= log.budget

\* The weight bound is on for every run or for none, and which of the two is
\* what the log says (logStore.ts:187-191): no run is still cut short after
\* the reader gave it room, and none grows past the cap beside the others.
CapIsEveryRun ==
  \A t \in HasRun(log.runs) :
    /\ log.runs[t].maxBytes = IF log.capped THEN TopicBytes ELSE Unbounded
    /\ log.capped => Heft(log.runs[t].items) <= TopicBytes \/ Len(log.runs[t].items) = 1

\* Depth gives way before breadth (logStore.ts:394-397, 421-431): a topic is
\* taken from the log unasked - by an arrival or by a smaller budget - only
\* when the shortest run each, or the lightest run each, would still not have
\* fitted over the topics there were and those the batch brought.
BreadthLast ==
  [][(nextId' # nextId \/ log'.budget # log.budget)
       /\ ~(HasRun(log.runs) \subseteq HasRun(log'.runs)) =>
       LET breadth  == Cardinality(HasRun(log.runs)) + (nextId' - nextId)
           lightest == Max(Weights \cup {TopicBytes})
       IN  \/ MinEntries * breadth > Ceiling
           \/ log'.capped /\ lightest * breadth > log'.budget]_vars
=============================================================================
