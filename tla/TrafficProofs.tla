---------------------------- MODULE TrafficProofs ---------------------------
(***************************************************************************)
(* Proofs about the console's topics, for every value of the constants:    *)
(* what letting a filter go takes off the screen (ConsoleFilters), what    *)
(* the rows of the topic tree promise (TopicRows), where a message is on   *)
(* its way to the page (TrafficIntake) and what the log says it holds      *)
(* (TrafficLog).  The properties are the ones MCTraffic states, and each   *)
(* specification is the component's own, with none of the parts TLC runs   *)
(* it in.                                                                  *)
(***************************************************************************)
EXTENDS MCTraffic, SieveProofs

-----------------------------------------------------------------------------
(* Letting a filter go.                                                      *)

\* Who holds each filter, as the server says it.
Claims == [Filters -> SUBSET C!Owners]

\* What the server, the list in hand and the read that is out say of the claims.
ClaimTypes ==
  /\ held \in Claims /\ list \in Claims
  /\ fetch \in [stage : {"none", "out"}, answer : {None}] \cup [stage : {"served"}, answer : Claims]
  /\ drop \in [Filters -> {"no", "out", "gone", "kept"}]

\* The console or another reader takes or leaves a claim.
LEMMA OneClaimChanges ==
  ASSUME held \in Claims, NEW f \in Filters, NEW s \in SUBSET C!Owners
  PROVE  [held EXCEPT ![f] = s] \in Claims
  BY DEF Claims

\* A step of an unsubscribe keeps the types.
LEMMA DropsTyped ==
  ASSUME ClaimTypes, C!Drops
  PROVE  ClaimTypes'
  <1>1. PICK f \in Filters : C!LetGo(f) \/ C!LetGoAnswered(f) \/ \E w \in BOOLEAN : C!ServerDrops(f, w)
    BY DEF C!Drops
  <1>2. CASE C!LetGo(f)
    BY <1>2 DEF C!LetGo, C!cache, C!server, ClaimTypes
  <1>3. CASE C!LetGoAnswered(f)
    BY <1>3 DEF C!LetGoAnswered, C!Refresh, C!server, ClaimTypes
  <1>4. ASSUME NEW w \in BOOLEAN, C!ServerDrops(f, w)  PROVE ClaimTypes'
    <2>1. held[f] \ {"console"} \in SUBSET C!Owners
      BY DEF ClaimTypes, Claims
    <2>2. held' \in Claims
      BY <1>4, <2>1, OneClaimChanges DEF C!ServerDrops, ClaimTypes
    <2>. QED  BY <1>4, <2>2 DEF C!ServerDrops, C!cache, ClaimTypes
  <1>. QED  BY <1>1, <1>2, <1>3, <1>4

\* ... and so does every other step of the filters.
LEMMA ClaimsTyped ==
  ASSUME ClaimTypes, [C!Next]_(C!vars)
  PROVE  ClaimTypes'
  <1>0. "console" \in C!Owners /\ \A f \in Filters : held[f] \in SUBSET C!Owners
    BY DEF C!Owners, ClaimTypes, Claims
  <1>1. CASE C!Box
    BY <1>1 DEF C!Box, C!Type, C!Pick, C!server, C!cache, ClaimTypes
  <1>2. CASE C!Lists
    BY <1>2 DEF C!Lists, C!ServeList, C!ListLands, C!server, ClaimTypes, Claims
  <1>3. CASE C!Subs
    <2>1. CASE C!Subscribe \/ C!SubscribeAnswered
      BY <2>1 DEF C!Subscribe, C!SubscribeAnswered, C!Refresh, C!server, C!cache, ClaimTypes
    <2>2. ASSUME NEW g \in SUBSET Filters, C!BrokerGrants(g)  PROVE ClaimTypes'
      <3>1. held' \in Claims
        BY <1>0, <2>2 DEF C!BrokerGrants, Claims
      <3>. QED  BY <2>2, <3>1 DEF C!BrokerGrants, C!cache, ClaimTypes
    <2>. QED  BY <1>3, <2>1, <2>2 DEF C!Subs
  <1>4. CASE C!Drops
    BY <1>4, DropsTyped
  <1>5. CASE C!Dials
    <2>1. ASSUME NEW g \in BOOLEAN, C!DialAsks(g)  PROVE ClaimTypes'
      <3>1. held' \in Claims
        BY <1>0, <2>1 DEF C!DialAsks, ClaimTypes, Claims
      <3>. QED  BY <2>1, <3>1 DEF C!DialAsks, C!Refresh, ClaimTypes
    <2>2. CASE C!WatchEnds
      BY <2>2 DEF C!WatchEnds, C!server, C!cache, ClaimTypes
    <2>. QED  BY <1>5, <2>1, <2>2 DEF C!Dials
  <1>6. CASE C!Others
    <2>1. ASSUME NEW f \in Filters, NEW o \in C!Owners, C!ClaimElsewhere(f, o)  PROVE ClaimTypes'
      <3>1. held' \in Claims
        BY <1>0, <2>1 DEF C!ClaimElsewhere, ClaimTypes, Claims
      <3>. QED  BY <2>1, <3>1 DEF C!ClaimElsewhere, C!cache, ClaimTypes
    <2>2. CASE C!Focus \/ C!ClearTraffic \/ C!LinkTurns
      BY <2>2 DEF C!Focus, C!ClearTraffic, C!LinkTurns, C!Refresh, C!server, C!cache, ClaimTypes
    <2>. QED  BY <1>6, <2>1, <2>2 DEF C!Others
  <1>7. CASE \E t \in FilterTopics : C!Arrives(t)
    BY <1>7 DEF C!Arrives, C!server, C!cache, ClaimTypes
  <1>8. CASE UNCHANGED C!vars
    BY <1>8 DEF C!vars, C!server, C!cache, ClaimTypes
  <1>. QED  BY <1>1, <1>2, <1>3, <1>4, <1>5, <1>6, <1>7, <1>8 DEF C!Next

\* The one step that ends an unsubscribe is its answer's.
LEMMA OnlyItsAnswerEndsIt ==
  ASSUME [C!Next]_(C!vars), ClaimTypes, NEW f \in Filters, drop[f] = "gone", drop'[f] = "no"
  PROVE  C!LetGoAnswered(f)
  <1>1. drop' # drop
    OBVIOUS
  <1>2. C!Drops
    BY <1>1 DEF C!Next, C!vars, C!Box, C!Type, C!Pick, C!Lists, C!ServeList, C!ListLands, C!Subs,
      C!Subscribe, C!SubscribeAnswered, C!BrokerGrants, C!Dials, C!DialAsks, C!WatchEnds, C!Others,
      C!ClaimElsewhere, C!Focus, C!ClearTraffic, C!LinkTurns, C!Arrives
  <1>3. PICK g \in Filters : C!LetGo(g) \/ C!LetGoAnswered(g) \/ \E w \in BOOLEAN : C!ServerDrops(g, w)
    BY <1>2 DEF C!Drops
  <1>. QED  BY <1>3 DEF C!LetGo, C!LetGoAnswered, C!ServerDrops, ClaimTypes

\* What it takes off the screen is what nothing still up covers, where the list in hand says
\* of the others what the server would.
LEMMA OnlyTheDeafGoes ==
  ASSUME ClaimTypes, NEW f \in Filters, C!LetGoAnswered(f), C!ListIsTrue(f),
         "rules" \in list[f] <=> "rules" \in held[f], "console" \notin held[f]
  PROVE  (tree \ tree') \cap C!Heard(held) = {}
  <1>1. CASE "rules" \in list[f]
    BY <1>1 DEF C!LetGoAnswered, C!Pruned
  <1>2. CASE "rules" \notin list[f]
    <2>1. held[f] = {}
      BY <1>2 DEF ClaimTypes, Claims, C!Owners
    <2>2. C!Up(held) = C!Up(list) \ {f}
      BY <2>1 DEF C!Up, C!ListIsTrue
    <2>3. tree \ tree' \subseteq C!Pruned(f)
      BY DEF C!LetGoAnswered
    <2>. QED  BY <2>2, <2>3 DEF C!Pruned, C!Heard
  <1>. QED  BY <1>1, <1>2

\* For any filters, topics and covers: letting a filter go takes nothing off the screen that is
\* still listened to, as long as the list in hand says what the server would (useUnsubscribe
\* and clearTraffic's prune).
THEOREM LetGoPrunesTheDeaf == C!Spec => PrunesTheDeaf
  <1>1. C!Init => ClaimTypes
    BY DEF C!Init, C!Owners, ClaimTypes, Claims
  <1>2. ClaimTypes /\ [C!Next]_(C!vars) => ClaimTypes'
    BY ClaimsTyped
  <1>3. ClaimTypes /\ [C!Next]_(C!vars) =>
          [\A f \in Filters :
             (/\ drop[f] = "gone" /\ drop'[f] = "no" /\ C!ListIsTrue(f)
              /\ ("rules" \in list[f] <=> "rules" \in held[f]) /\ "console" \notin held[f])
                => (tree \ tree') \cap C!Heard(held) = {}]_(C!vars)
    BY OnlyItsAnswerEndsIt, OnlyTheDeafGoes
  <1>. QED  BY <1>1, <1>2, <1>3, PTL DEF C!Spec, PrunesTheDeaf, C!PrunesTheDeaf

-----------------------------------------------------------------------------
(* The order of the rows.                                                    *)

\* What names a node of the tree: a level at least.
Path == Seq(Nat) \ {<<>>}

\* A path is above another when it begins it.
LEMMA AboveBegins ==
  ASSUME NEW p \in Path, NEW b
  PROVE  b \in R!Above(p) <=> /\ b \in Path /\ Len(b) < Len(p)
                              /\ \A i \in 1..Len(b) : b[i] = p[i]
  <1>1. p \in Seq(Nat) /\ Len(p) \in Nat
    BY DEF Path
  <1>2. ASSUME NEW n \in 1..(Len(p) - 1)
        PROVE  /\ SubSeq(p, 1, n) \in Seq(Nat) /\ Len(SubSeq(p, 1, n)) = n
               /\ \A i \in 1..n : SubSeq(p, 1, n)[i] = p[i]
    <2>1. 1 \in Int /\ n \in Int /\ \A i \in 1..n : p[i] \in Nat
      BY <1>1
    <2>. QED  BY <2>1, SubSeqProperties
  <1>3. ASSUME b \in R!Above(p)
        PROVE  b \in Path /\ Len(b) < Len(p) /\ \A i \in 1..Len(b) : b[i] = p[i]
    <2>1. PICK n \in 1..(Len(p) - 1) : b = SubSeq(p, 1, n)
      BY <1>3 DEF R!Above
    <2>. QED  BY <1>1, <1>2, <2>1 DEF Path
  <1>4. ASSUME b \in Path, Len(b) < Len(p), \A i \in 1..Len(b) : b[i] = p[i]
        PROVE  b \in R!Above(p)
    <2>1. b \in Seq(Nat) /\ Len(b) \in Nat /\ Len(b) # 0
      BY <1>4 DEF Path
    <2>2. Len(b) \in 1..(Len(p) - 1)
      BY <1>1, <1>4, <2>1
    <2>3. b = SubSeq(p, 1, Len(b))
      BY <1>2, <1>4, <2>1, <2>2, SeqEqual
    <2>. QED  BY <2>2, <2>3 DEF R!Above
  <1>. QED  BY <1>3, <1>4

\* What is above what is above a path is above it; and of two that are, one is above the other.
LEMMA AboveAbove ==
  ASSUME NEW p \in Path
  PROVE  /\ R!Above(p) \subseteq Path /\ p \notin R!Above(p)
         /\ \A b \in R!Above(p) : R!Above(b) \subseteq R!Above(p)
         /\ \A b, c \in R!Above(p) : b = c \/ b \in R!Above(c) \/ c \in R!Above(b)
  <1>1. R!Above(p) \subseteq Path /\ p \notin R!Above(p)
    BY AboveBegins DEF Path
  <1>2. ASSUME NEW b \in R!Above(p), NEW c \in R!Above(b)  PROVE c \in R!Above(p)
    <2>1. b \in Path /\ c \in Path /\ Len(c) < Len(b) /\ Len(b) < Len(p)
      BY <1>2, AboveBegins
    <2>2. \A i \in 1..Len(c) : c[i] = b[i] /\ b[i] = p[i]
      <3>1. Len(b) \in Nat /\ Len(c) \in Nat
        BY <2>1 DEF Path
      <3>. QED  BY <1>2, <2>1, <3>1, AboveBegins
    <2>3. Len(c) < Len(p)
      BY <2>1 DEF Path
    <2>. QED  BY <2>1, <2>2, <2>3, AboveBegins
  <1>3. ASSUME NEW b \in R!Above(p), NEW c \in R!Above(p), Len(b) < Len(c)  PROVE b \in R!Above(c)
    <2>1. b \in Path /\ c \in Path /\ Len(b) \in Nat /\ Len(c) \in Nat
      BY <1>1 DEF Path
    <2>2. \A i \in 1..Len(b) : b[i] = c[i]
      BY <1>3, <2>1, AboveBegins
    <2>. QED  BY <1>3, <2>1, <2>2, AboveBegins
  <1>4. ASSUME NEW b \in R!Above(p), NEW c \in R!Above(p), Len(b) = Len(c)  PROVE b = c
    <2>1. b \in Seq(Nat) /\ c \in Seq(Nat)
      BY <1>1 DEF Path
    <2>2. \A i \in 1..Len(b) : b[i] = c[i]
      BY <1>4, AboveBegins
    <2>. QED  BY <1>4, <2>1, <2>2, SeqEqual
  <1>5. \A b, c \in R!Above(p) : Len(b) < Len(c) \/ Len(c) < Len(b) \/ Len(b) = Len(c)
    BY <1>1 DEF Path
  <1>. QED  BY <1>1, <1>2, <1>3, <1>4, <1>5

\* Two paths agree as far as one of them goes, or part at some level.
PartAt(p, q, n) == /\ n \in 1..Len(p) /\ n <= Len(q)
                  /\ \A i \in 1..(n - 1) : p[i] = q[i]

LEMMA BeforeParts ==
  ASSUME NEW p \in Path, NEW q \in Path
  PROVE  R!Before(p, q) <=> p \in R!Above(q) \/ \E n \in Nat : PartAt(p, q, n) /\ p[n] < q[n]
  <1>0. p \in Seq(Nat) /\ q \in Seq(Nat) /\ Len(p) \in Nat /\ Len(q) \in Nat
    BY DEF Path
  <1>1. ASSUME NEW n \in 1..Len(p), n <= Len(q)
        PROVE  SubSeq(p, 1, n - 1) = SubSeq(q, 1, n - 1) <=> \A i \in 1..(n - 1) : p[i] = q[i]
    <2>1. /\ n - 1 \in Int /\ 1 \in Int
          /\ \A i \in 1..(n - 1) : p[i] \in Nat /\ q[i] \in Nat
      BY <1>0, <1>1
    <2>2. \A s \in {p, q} : /\ SubSeq(s, 1, n - 1) \in Seq(Nat)
                            /\ Len(SubSeq(s, 1, n - 1)) = n - 1
                            /\ \A i \in 1..(n - 1) : SubSeq(s, 1, n - 1)[i] = s[i]
      BY <2>1, SubSeqProperties
    <2>. QED  BY <2>2, SeqEqual
  <1>. QED  BY <1>0, <1>1 DEF R!Before, PartAt

\* The walk's order is a strict one, and total.
LEMMA WalkOrder ==
  ASSUME NEW p \in Path, NEW q \in Path
  PROVE  /\ ~R!Before(p, p)
         /\ p = q \/ R!Before(p, q) \/ R!Before(q, p)
         /\ \A r \in Path : R!Before(p, q) /\ R!Before(q, r) => R!Before(p, r)
  <1>0. p \in Seq(Nat) /\ q \in Seq(Nat) /\ Len(p) \in Nat /\ Len(q) \in Nat
    BY DEF Path
  <1>1. ~R!Before(p, p)
    <2>1. \A n \in Nat : PartAt(p, p, n) => ~(p[n] < p[n])
      BY <1>0 DEF PartAt
    <2>. QED  BY <2>1, BeforeParts, AboveAbove
  <1>2. ASSUME p # q  PROVE R!Before(p, q) \/ R!Before(q, p)
    <2>. DEFINE Differ == {n \in Nat : n \in 1..Len(p) /\ n \in 1..Len(q) /\ p[n] # q[n]}
    <2>1. CASE Differ = {}
      <3>1. \A n \in 1..Len(p) : n <= Len(q) => p[n] = q[n]
        BY <1>0, <2>1
      <3>2. CASE Len(p) = Len(q)
        BY <1>0, <1>2, <3>1, <3>2, SeqEqual
      <3>3. CASE Len(p) < Len(q)
        BY <1>0, <3>1, <3>3, AboveBegins, BeforeParts
      <3>4. CASE Len(q) < Len(p)
        BY <1>0, <3>1, <3>4, AboveBegins, BeforeParts
      <3>. QED  BY <1>0, <3>2, <3>3, <3>4
    <2>2. CASE Differ # {}
      <3>1. Differ \subseteq Nat
        OBVIOUS
      <3>2. PICK n \in Differ : \A m \in Differ : ~(<<m, n>> \in OpToRel(<, Nat))
        <4>. HIDE DEF Differ
        <4>. QED  BY <2>2, <3>1, WFMin, NatLessThanWellFounded
      <3>3. \A m \in Differ : ~(m < n)
        BY <3>2 DEF OpToRel
      <3>4. ASSUME NEW i \in 1..(n - 1)  PROVE p[i] = q[i]
        <4>1. i \in Nat /\ i < n /\ i \in 1..Len(p) /\ i \in 1..Len(q)
          BY <1>0, <3>4
        <4>. QED  BY <3>3, <4>1
      <3>5. PartAt(p, q, n) /\ PartAt(q, p, n) /\ (p[n] < q[n] \/ q[n] < p[n])
        BY <1>0, <3>4 DEF PartAt
      <3>. QED  BY <3>5, BeforeParts
    <2>. QED  BY <2>1, <2>2
  <1>3. ASSUME NEW r \in Path, R!Before(p, q), R!Before(q, r)  PROVE R!Before(p, r)
    <2>0. r \in Seq(Nat) /\ Len(r) \in Nat
      BY DEF Path
    <2>1. CASE p \in R!Above(q) /\ q \in R!Above(r)
      BY <2>1, AboveAbove, BeforeParts
    <2>2. ASSUME p \in R!Above(q), NEW n \in Nat, PartAt(q, r, n), q[n] < r[n]
          PROVE  R!Before(p, r)
      <3>1. /\ Len(p) < Len(q) /\ \A i \in 1..Len(p) : p[i] = q[i]
        BY <2>2, AboveBegins
      <3>2. CASE n <= Len(p)
        <4>1. PartAt(p, r, n) /\ p[n] < r[n]
          BY <1>0, <2>0, <2>2, <3>1, <3>2 DEF PartAt
        <4>. QED  BY <4>1, BeforeParts
      <3>3. CASE Len(p) < n
        <4>1. Len(p) < Len(r) /\ \A i \in 1..Len(p) : p[i] = r[i]
          BY <1>0, <2>0, <2>2, <3>1, <3>3 DEF PartAt
        <4>. QED  BY <4>1, AboveBegins, BeforeParts
      <3>. QED  BY <1>0, <2>2, <3>2, <3>3
    <2>3. ASSUME NEW n \in Nat, PartAt(p, q, n), p[n] < q[n], q \in R!Above(r)
          PROVE  R!Before(p, r)
      <3>1. /\ Len(q) < Len(r) /\ \A i \in 1..Len(q) : q[i] = r[i]
        BY <2>3, AboveBegins
      <3>2. PartAt(p, r, n) /\ p[n] < r[n]
        BY <1>0, <2>0, <2>3, <3>1 DEF PartAt
      <3>. QED  BY <3>2, BeforeParts
    <2>4. ASSUME NEW n \in Nat, PartAt(p, q, n), p[n] < q[n],
                 NEW m \in Nat, PartAt(q, r, m), q[m] < r[m]
          PROVE  R!Before(p, r)
      <3>1. /\ n \in 1..Len(p) /\ n <= Len(q) /\ m \in 1..Len(q) /\ m <= Len(r)
            /\ \A i \in 1..(n - 1) : p[i] = q[i]
            /\ \A i \in 1..(m - 1) : q[i] = r[i]
        BY <2>4 DEF PartAt
      <3>2. ASSUME NEW k \in Nat \ {0}, k <= n, k <= m
            PROVE  /\ PartAt(p, r, k)
                   /\ p[k] \in Nat /\ q[k] \in Nat /\ r[k] \in Nat
        <4>1. k \in 1..Len(p) /\ k \in 1..Len(q) /\ k \in 1..Len(r) /\ k <= Len(r)
          BY <1>0, <2>0, <3>1, <3>2
        <4>2. \A i \in 1..(k - 1) : i \in 1..(n - 1) /\ i \in 1..(m - 1)
          BY <3>2
        <4>3. \A i \in 1..(k - 1) : p[i] = r[i]
          BY <3>1, <4>2
        <4>4. p[k] \in Nat /\ q[k] \in Nat /\ r[k] \in Nat
          BY <1>0, <2>0, <4>1
        <4>. QED  BY <4>1, <4>3, <4>4 DEF PartAt
      <3>3. n # 0 /\ m # 0
        BY <3>1
      <3>4. CASE n <= m
        <4>1. n = m \/ n \in 1..(m - 1)
          BY <3>4, <3>3
        <4>2. n = m \/ q[n] = r[n]
          BY <3>1, <4>1
        <4>3. p[n] < r[n]
          BY <2>4, <3>4, <3>2, <3>3, <4>2
        <4>. QED  BY <3>4, <3>2, <3>3, <4>3, BeforeParts
      <3>5. CASE m < n
        <4>1. m \in 1..(n - 1)
          BY <3>5, <3>3
        <4>2. p[m] = q[m]
          BY <3>1, <4>1
        <4>3. p[m] < r[m] /\ m <= n
          BY <2>4, <3>5, <4>2
        <4>. QED  BY <3>2, <3>3, <4>3, BeforeParts
      <3>. QED  BY <2>4, <3>4, <3>5
    <2>. QED  BY <1>3, <2>1, <2>2, <2>3, <2>4, BeforeParts
  <1>. QED  BY <1>1, <1>2, <1>3

\* A set that is not empty has one the least of what is said of its members.
LEMMA Least ==
  ASSUME NEW T, T # {}, NEW f, \A x \in T : f[x] \in Nat
  PROVE  \E x \in T : \A y \in T : f[x] <= f[y]
  <1>. DEFINE Said == {f[x] : x \in T}
  <1>1. Said \subseteq Nat /\ Said # {}
    OBVIOUS
  <1>2. PICK n \in Said : \A m \in Said : ~(<<m, n>> \in OpToRel(<, Nat))
    <2>. HIDE DEF Said
    <2>. QED  BY <1>1, WFMin, NatLessThanWellFounded
  <1>3. \A m \in Said : ~(m < n)
    BY <1>1, <1>2 DEF OpToRel
  <1>4. \A m \in Said : n <= m
    <2>. HIDE DEF Said
    <2>. QED  BY <1>1, <1>3
  <1>. QED  BY <1>4

\* The tree counts as everybody does.
LEMMA SameSize == \A S : R!Cardinality(S) = Cardinality(S)
  BY Zenon DEF R!Cardinality, Cardinality

\* What the ceiling lets on screen: all there is, or as much as there is room for.
LEMMA DrawnFills ==
  ASSUME NEW S \in SUBSET Path, IsFiniteSet(S)
  PROVE  /\ IsFiniteSet(R!Drawn(S)) /\ R!Drawn(S) \subseteq S
         /\ Cardinality(R!Drawn(S)) <= Limit
         /\ R!Drawn(S) = S \/ Cardinality(R!Drawn(S)) = Limit
  <1>. DEFINE First(x) == {q \in S : R!Before(q, x)}
              D == {x \in S : Cardinality(First(x)) < Limit}
              size == [x \in S |-> Cardinality(First(x))]
              room == [x \in D |-> Limit - Cardinality(First(x))]
  <1>0. Limit \in Nat /\ Limit # 0
    BY TrafficAssumption DEF R!RowsAssumption
  <1>1. ASSUME NEW x \in S
        PROVE  IsFiniteSet(First(x)) /\ Cardinality(First(x)) \in Nat
    BY FS_Subset, FS_CardinalityType
  <1>2. ASSUME NEW x \in S, NEW y \in First(x)
        PROVE  Cardinality(First(y)) < Cardinality(First(x))
    <2>1. First(y) \subseteq First(x) /\ y \notin First(y)
      BY <1>2, WalkOrder
    <2>2. First(y) # First(x)
      BY <2>1
    <2>. QED  BY <1>1, <2>1, <2>2, FS_Subset
  <1>3. R!Drawn(S) = D /\ D \subseteq S
    <2>1. R!Drawn(S) = {p \in S : R!Cardinality(First(p)) < Limit}
      BY Zenon DEF R!Drawn
    <2>. HIDE DEF First
    <2>. QED  BY <2>1, SameSize
  <1>4. IsFiniteSet(D) /\ Cardinality(D) \in Nat
    BY <1>3, FS_Subset, FS_CardinalityType
  <1>5. Cardinality(D) <= Limit
    <2>1. CASE D = {}
      <3>. HIDE DEF D
      <3>. QED  BY <1>0, <2>1, FS_EmptySet
    <2>2. CASE D # {}
      <3>0. \A x \in D : Cardinality(First(x)) < Limit /\ Cardinality(First(x)) \in Nat
        BY <1>1
      <3>1. \A x \in D : room[x] \in Nat /\ room[x] = Limit - Cardinality(First(x))
        <4>. HIDE DEF D, First
        <4>. QED  BY <1>0, <3>0
      <3>2. PICK m \in D : \A y \in D : room[m] <= room[y]
        <4>. HIDE DEF D, room
        <4>. QED  BY <2>2, <3>1, Least
      <3>3. \A y \in D : Cardinality(First(y)) <= Cardinality(First(m))
        <4>. HIDE DEF D, First, room
        <4>. QED  BY <1>0, <3>0, <3>1, <3>2
      <3>4. ASSUME NEW y \in D, y # m  PROVE y \in First(m)
        <4>1. CASE R!Before(m, y)
          <5>1. Cardinality(First(m)) < Cardinality(First(y))
            BY <1>2, <4>1
          <5>. QED  BY <1>1, <3>3, <5>1
        <4>. QED  BY <3>4, <4>1, WalkOrder
      <3>5. D \subseteq First(m) \cup {m}
        BY <3>4
      <3>6. /\ IsFiniteSet(First(m) \cup {m})
            /\ Cardinality(First(m) \cup {m}) = Cardinality(First(m)) + 1
        <4>1. m \notin First(m)
          BY WalkOrder
        <4>. HIDE DEF First
        <4>. QED  BY <1>1, <1>3, <4>1, FS_AddElement
      <3>7. Cardinality(D) <= Cardinality(First(m)) + 1
        <4>. HIDE DEF First, D
        <4>. QED  BY <3>5, <3>6, FS_Subset
      <3>. QED  BY <1>0, <1>1, <1>4, <3>7
    <2>. QED  BY <2>1, <2>2
  <1>6. ASSUME D # S  PROVE Cardinality(D) = Limit
    <2>1. S \ D # {} /\ \A x \in S \ D : size[x] \in Nat
      BY <1>1, <1>3, <1>6
    <2>2. PICK x \in S \ D : \A y \in S \ D : size[x] <= size[y]
      <3>. HIDE DEF D, size
      <3>. QED  BY <2>1, Least
    <2>3. ASSUME NEW y \in First(x)  PROVE y \in D
      <3>1. Cardinality(First(y)) < Cardinality(First(x))
        BY <1>2
      <3>2. CASE y \in S \ D
        BY <1>1, <2>2, <3>1, <3>2
      <3>. QED  BY <3>2
    <2>4. Cardinality(First(x)) <= Cardinality(D)
      <3>1. First(x) \subseteq D
        BY <2>3
      <3>. HIDE DEF First, D
      <3>. QED  BY <1>4, <3>1, FS_Subset
    <2>5. ~(Cardinality(First(x)) < Limit)
      BY <2>2
    <2>6. Cardinality(First(x)) \in Nat
      BY <1>1, <2>2
    <2>. HIDE DEF First, D
    <2>. QED  BY <1>0, <1>4, <1>5, <2>4, <2>5, <2>6
  <1>. HIDE DEF D
  <1>. QED  BY <1>3, <1>4, <1>5, <1>6

\* With more to show a row goes only where the ceiling is full.
LEMMA DrawnGrows ==
  ASSUME NEW S \in SUBSET Path, IsFiniteSet(S), NEW T \in SUBSET S, NEW p \in R!Drawn(T)
  PROVE  p \in R!Drawn(S) \/ (p \in S /\ Cardinality(R!Drawn(S)) = Limit)
  <1>1. IsFiniteSet(T) /\ T \in SUBSET Path
    BY FS_Subset
  <1>2. p \in S
    BY <1>1, DrawnFills
  <1>. QED  BY <1>2, DrawnFills

-----------------------------------------------------------------------------
(* The tree's nodes and rows.                                                *)

Gestures == [row : Path \cup {None, Broker}, count : Nat, was : {"leaf", "shut", "open"},
             pair : BOOLEAN, stayed : BOOLEAN]

\* What the last click and the rows it opened say of one another, while its row stays.
Agree(g, rows) ==
  /\ ~g.pair /\ g.stayed => (g.was = "shut" => g.row \in rows) /\ (g.was = "open" => g.row \notin rows)
  /\ g.pair => g.count % 2 = 0

\* What the reader says of branches is that they are open or shut.
Answered == (\A p \in DOMAIN openPaths : openPaths[p] \in BOOLEAN) /\ defaultOpen \in BOOLEAN

\* What holds of the rows: only what may be sent is heard, a branch is open or it is not, and
\* a row that has stayed since its first click knows whether that was what opened it.
RowsHold ==
  /\ heard \subseteq RowTopics /\ IsFiniteSet(R!Nodes(heard)) /\ Answered
  /\ gesture \in Gestures /\ Agree(gesture, openedRun)

\* Every node is a path, and so is every one above it.
LEMMA NodesArePaths ==
  ASSUME NEW ts \in SUBSET RowTopics
  PROVE  /\ R!Nodes(ts) \subseteq Path /\ R!Branches(ts) \subseteq R!Nodes(ts)
         /\ \A q \in R!Nodes(ts) : R!Above(q) \subseteq R!Branches(ts)
         /\ \A p \in R!Nodes(ts) : R!Under(ts, p) \subseteq R!Nodes(ts) /\ p \in R!Under(ts, p)
  <1>1. ts \subseteq Path
    BY TrafficAssumption DEF R!RowsAssumption, Path
  <1>2. R!Nodes(ts) = UNION {R!Above(t) \cup {t} : t \in ts}
    BY DEF R!Nodes
  <1>3. R!Branches(ts) = UNION {R!Above(t) : t \in ts}
    BY DEF R!Branches
  <1>4. \A q \in R!Nodes(ts) : q \in Path /\ R!Above(q) \subseteq R!Branches(ts)
    BY <1>1, <1>2, <1>3, AboveAbove
  <1>. QED  BY <1>2, <1>3, <1>4 DEF R!Under

\* What a path has above it can be counted.
LEMMA FewAbove ==
  ASSUME NEW p \in Path
  PROVE  IsFiniteSet(R!Above(p))
  <1>. DEFINE f == [n \in 1..(Len(p) - 1) |-> SubSeq(p, 1, n)]
  <1>1. Len(p) \in Nat
    BY DEF Path
  <1>2. f \in Surjection(1..(Len(p) - 1), R!Above(p))
    BY DEF Surjection, R!Above
  <1>3. IsFiniteSet(1..(Len(p) - 1))
    BY <1>1, FS_Interval
  <1>. QED  BY <1>2, <1>3, FS_Surjection

\* The branches above a node of the tree open or shut, the rest as they stood.
LEMMA FoldOf ==
  ASSUME NEW p, NEW open \in BOOLEAN, openPaths' = R!SetPath(p, open), defaultOpen' = defaultOpen
  PROVE  \A q : R!IsPathOpen(q)' = IF q = p THEN open ELSE R!IsPathOpen(q)
  BY DEF R!SetPath, R!IsPathOpen

\* What is in sight is part of the tree.
LEMMA SightIsFinite ==
  ASSUME RowsHold
  PROVE  /\ R!InSight \in SUBSET Path /\ IsFiniteSet(R!InSight)
         /\ R!Answers \in SUBSET Path /\ IsFiniteSet(R!Answers)
         /\ R!Rows \subseteq R!Nodes(heard) /\ R!Rows \subseteq Path
         /\ IsFiniteSet(R!Rows) /\ Cardinality(R!Rows) \in Nat
  <1>1. R!Nodes(heard) \subseteq Path /\ IsFiniteSet(R!Nodes(heard))
    BY NodesArePaths DEF RowsHold
  <1>2. R!InSight \subseteq R!Nodes(heard) /\ R!Answers \subseteq R!Nodes(heard)
    BY DEF R!InSight, R!Answers
  <1>3. R!InSight \in SUBSET Path /\ IsFiniteSet(R!InSight)
        /\ R!Answers \in SUBSET Path /\ IsFiniteSet(R!Answers)
    BY <1>1, <1>2, FS_Subset
  <1>4. R!Rows \subseteq R!Nodes(heard)
    BY <1>2, <1>3, DrawnFills DEF R!Rows
  <1>. QED  BY <1>1, <1>3, <1>4, FS_Subset, FS_CardinalityType

\* What stands on screen is the broker's row and rows of the tree.
LEMMA ScreenIsOfPaths ==
  ASSUME RowsHold
  PROVE  R!OnScreen \subseteq Path \cup {Broker}
  BY SightIsFinite DEF R!OnScreen

\* A row that stays on screen keeps its click run, and one that goes takes it along.
LEMMA RunsStay ==
  ASSUME NEW g \in Gestures, NEW rows, Agree(g, rows), R!Remounted(rows, g)
  PROVE  gesture' \in Gestures /\ Agree(gesture', openedRun')
  <1>. DEFINE stays == g.row \in R!OnScreen'
  <1>1. openedRun' = rows \cap R!OnScreen' /\ gesture' = [g EXCEPT !.stayed = g.stayed /\ stays]
    BY DEF R!Remounted
  <1>2. g.row \in openedRun' <=> g.row \in rows /\ stays
    BY <1>1
  <1>. HIDE DEF stays
  <1>3. /\ gesture'.row = g.row /\ gesture'.was = g.was /\ gesture'.pair = g.pair
        /\ gesture'.stayed = (g.stayed /\ stays) /\ gesture'.count = g.count
    BY <1>1 DEF Gestures
  <1>4. gesture' \in Gestures
    BY <1>1 DEF Gestures
  <1>. QED  BY <1>2, <1>3, <1>4 DEF Agree

\* A fold answers for one branch more, and a press on a mark for many.
LEMMA FoldsAnswer ==
  ASSUME Answered, NEW p
  PROVE  /\ R!IsPathOpen(p) \in BOOLEAN
         /\ openPaths' = R!Toggled(p) /\ defaultOpen' = defaultOpen => Answered'
  <1>1. R!IsPathOpen(p) \in BOOLEAN
    BY DEF Answered, R!IsPathOpen
  <1>2. ASSUME openPaths' = R!Toggled(p), defaultOpen' = defaultOpen  PROVE Answered'
    BY <1>1, <1>2 DEF Answered, R!Toggled, R!SetPath
  <1>. QED  BY <1>1, <1>2

LEMMA FlipAnswers ==
  ASSUME Answered, NEW p, R!Flip(p), defaultOpen' = defaultOpen
  PROVE  Answered' /\ R!IsOpen(p)' = ~R!IsOpen(p)
  <1>1. CASE p = Broker
    BY <1>1 DEF R!Flip, Answered, R!IsOpen
  <1>2. CASE p # Broker
    <2>1. openPaths' = R!SetPath(p, ~R!IsPathOpen(p))
      BY <1>2 DEF R!Flip, R!Toggled
    <2>2. R!IsPathOpen(p)' = ~R!IsPathOpen(p)
      BY <2>1 DEF R!SetPath, R!IsPathOpen
    <2>. QED  BY <1>2, <2>2, FoldsAnswer DEF R!Flip, R!IsOpen
  <1>. QED  BY <1>1, <1>2

LEMMA AllAnswer ==
  ASSUME Answered, NEW open \in BOOLEAN, NEW under, R!SetAllOpen(open, under)
  PROVE  Answered'
  <1>1. CASE R!Whole(under)
    BY <1>1 DEF R!SetAllOpen, Answered
  <1>2. CASE ~R!Whole(under) /\ under \notin R!Nodes(heard)
    BY <1>2 DEF R!SetAllOpen, R!fold, Answered
  <1>3. CASE ~R!Whole(under) /\ under \in R!Nodes(heard)
    <2>1. /\ openPaths' = [p \in DOMAIN openPaths \cup R!Reached(open, under) |->
                             IF p \in R!Reached(open, under) THEN open ELSE openPaths[p]]
          /\ defaultOpen' = defaultOpen
      BY <1>3 DEF R!SetAllOpen
    <2>. QED  BY <2>1 DEF Answered
  <1>. QED  BY <1>1, <1>2, <1>3

\* A topic more, or some topics fewer, make a tree that can be counted too.
LEMMA TreeStays ==
  ASSUME RowsHold, R!Arrives \/ R!DropTopics \/ R!Reset
  PROVE  heard' \subseteq RowTopics /\ IsFiniteSet(R!Nodes(heard)')
  <1>0. heard \subseteq RowTopics /\ IsFiniteSet(R!Nodes(heard))
    BY DEF RowsHold
  <1>1. CASE R!Arrives
    <2>1. PICK t \in RowTopics : heard' = heard \cup {t}
      BY <1>1 DEF R!Arrives
    <2>2. R!Nodes(heard)' = R!Nodes(heard) \cup (R!Above(t) \cup {t})
      BY <2>1 DEF R!Nodes
    <2>3. t \in Path
      BY TrafficAssumption DEF R!RowsAssumption, Path
    <2>4. IsFiniteSet(R!Above(t) \cup {t})
      BY <2>3, FewAbove, FS_AddElement
    <2>. QED  BY <1>0, <2>1, <2>2, <2>4, FS_Union
  <1>2. CASE R!DropTopics \/ R!Reset
    <2>1. heard' \subseteq heard
      BY <1>2 DEF R!DropTopics, R!Reset
    <2>2. R!Nodes(heard)' \subseteq R!Nodes(heard)
      BY <2>1 DEF R!Nodes
    <2>. QED  BY <1>0, <2>1, <2>2, FS_Subset
  <1>. QED  BY <1>1, <1>2

\* A click on a row of the screen.
LEMMA ClickHolds ==
  ASSUME RowsHold, NEW p \in R!OnScreen, NEW n \in R!Counts, R!Click(p, n)
  PROVE  Answered' /\ gesture' \in Gestures /\ Agree(gesture', openedRun')
  <1>1. /\ p \in Path \cup {None, Broker} /\ n \in Nat /\ Answered
        /\ gesture \in Gestures /\ Agree(gesture, openedRun) /\ defaultOpen' = defaultOpen
    BY ScreenIsOfPaths DEF RowsHold, R!Counts, R!Click, Gestures
  <1>2. CASE R!FirstClick(p, n)
    <2>. DEFINE was == IF ~R!IsBranch(p) THEN "leaf" ELSE IF R!IsOpen(p) THEN "open" ELSE "shut"
                c    == IF n = 0 THEN gesture.count ELSE n
                g    == [row |-> p, count |-> c, was |-> was, pair |-> FALSE, stayed |-> TRUE]
                openers == CASE was = "leaf" -> openedRun [] was = "open" -> openedRun \ {p}
                          [] was = "shut" -> openedRun \cup {p}
    <2>1. /\ R!Remounted(openers, g)
          /\ IF was = "shut" THEN R!Flip(p) ELSE UNCHANGED <<openPaths, brokerOpen>>
      BY <1>2 DEF R!FirstClick
    <2>2. was \in {"leaf", "shut", "open"} /\ c \in Nat
      BY <1>1 DEF Gestures
    <2>3. /\ was = "shut" => openers = openedRun \cup {p}
          /\ was = "open" => openers = openedRun \ {p}
      OBVIOUS
    <2>. HIDE DEF was, c, openers
    <2>4. g \in Gestures /\ g.row = p /\ g.was = was /\ g.pair = FALSE
      BY <1>1, <2>2 DEF Gestures
    <2>. HIDE DEF g
    <2>5. Agree(g, openers)
      BY <2>3, <2>4 DEF Agree
    <2>6. Answered'
      BY <1>1, <2>1, FlipAnswers DEF Answered
    <2>. QED  BY <2>1, <2>4, <2>5, <2>6, RunsStay
  <1>3. CASE R!SecondClick(p, n)
    <2>1. R!Paired(p, n) \in Gestures /\ R!Paired(p, n).pair = TRUE /\ R!Paired(p, n).count = n
      BY <1>1 DEF Gestures, R!Paired
    <2>2. Agree(R!Paired(p, n), openedRun) /\ R!Remounted(openedRun, R!Paired(p, n))
      BY <1>3, <2>1 DEF Agree, R!SecondClick, R!Pair
    <2>3. Answered'
      BY <1>1, <1>3, FlipAnswers DEF Answered, R!SecondClick
    <2>. QED  BY <2>1, <2>2, <2>3, RunsStay
  <1>. QED  BY <1>2, <1>3 DEF R!Click

\* Every step of the rows keeps what holds of them.
LEMMA RowsStep ==
  ASSUME RowsHold, [R!Next]_(R!vars)
  PROVE  RowsHold'
  <1>0. /\ heard \subseteq RowTopics /\ IsFiniteSet(R!Nodes(heard)) /\ Answered
        /\ gesture \in Gestures /\ Agree(gesture, openedRun)
    BY DEF RowsHold
  <1>1. ASSUME Answered', R!Remounted(openedRun, gesture), heard' = heard  PROVE RowsHold'
    BY <1>0, <1>1, RunsStay DEF RowsHold, R!Nodes
  <1>2. CASE R!Arrives \/ R!DropTopics \/ R!Reset
    <2>1. Answered' /\ R!Remounted(openedRun, gesture)
      BY <1>0, <1>2 DEF R!Arrives, R!DropTopics, R!Reset, R!fold, Answered
    <2>. QED  BY <1>0, <1>2, <2>1, TreeStays, RunsStay DEF RowsHold
  <1>3. CASE R!Toggle
    BY <1>0, <1>1, <1>3, FoldsAnswer DEF R!Toggle
  <1>4. CASE R!ToggleBroker \/ R!Search
    <2>1. Answered'
      BY <1>0, <1>4 DEF R!ToggleBroker, R!Search, R!fold, Answered
    <2>. QED  BY <1>1, <1>4, <2>1 DEF R!ToggleBroker, R!Search
  <1>5. CASE R!ExpandAll \/ R!CollapseAll
    <2>1. Answered'
      BY <1>0, <1>5, AllAnswer DEF R!ExpandAll, R!CollapseAll
    <2>. QED  BY <1>1, <1>5, <2>1 DEF R!ExpandAll, R!CollapseAll
  <1>7. ASSUME NEW p \in R!OnScreen, NEW n \in R!Counts, R!Click(p, n)  PROVE RowsHold'
    <2>1. heard' = heard
      BY <1>7 DEF R!Click
    <2>. QED  BY <1>0, <1>7, <2>1, ClickHolds DEF RowsHold, R!Nodes
  <1>8. CASE UNCHANGED R!vars
    BY <1>0, <1>8 DEF RowsHold, R!vars, R!Nodes, Answered
  <1>. QED  BY <1>2, <1>3, <1>4, <1>5, <1>7, <1>8 DEF R!Next

\* What Expand names is on screen when it has answered, as far as the ceiling goes.
Shown ==
  R!ExpandAll =>
    LET of == IF R!SelectedPath = None THEN R!Nodes(heard) ELSE R!Under(heard, R!SelectedPath)
    IN /\ brokerOpen' \/ of = {}
       /\ \A p \in of : p \in R!InSight'
       /\ \A p \in R!Branches(heard) :
             p \in of \/ (\E q \in of : p \in R!Above(q)) \/ R!IsPathOpen(p)' = R!IsPathOpen(p)

LEMMA ExpandShows ==
  ASSUME RowsHold
  PROVE  Shown
  <1>. DEFINE u  == R!SelectedPath
              of == IF u = None THEN R!Nodes(heard) ELSE R!Under(heard, u)
  <1>. SUFFICES ASSUME R!ExpandAll
                PROVE  /\ brokerOpen' \/ of = {}
                       /\ \A p \in of : p \in R!InSight'
                       /\ \A p \in R!Branches(heard) :
                             p \in of \/ (\E q \in of : p \in R!Above(q))
                             \/ R!IsPathOpen(p)' = R!IsPathOpen(p)
    BY DEF Shown
  <1>1. R!SetAllOpen(TRUE, u) /\ heard' = heard /\ heard \subseteq RowTopics
    BY DEF R!ExpandAll, RowsHold
  <1>2. /\ R!Nodes(heard)' = R!Nodes(heard) /\ R!Nodes(heard) \subseteq Path
        /\ R!Branches(heard) \subseteq R!Nodes(heard)
        /\ \A q \in R!Nodes(heard) : R!Above(q) \subseteq R!Nodes(heard)
    BY <1>1, NodesArePaths DEF R!Nodes
  <1>3. ASSUME NEW p \in R!Nodes(heard), \A b \in R!Above(p) : R!IsPathOpen(b)'
        PROVE  p \in R!InSight'
    BY <1>2, <1>3 DEF R!InSight
  <1>4. CASE u = None
    <2>1. openPaths' = <<>> /\ defaultOpen' = TRUE /\ brokerOpen'
      BY <1>1, <1>4 DEF R!SetAllOpen, R!Whole
    <2>2. \A b : R!IsPathOpen(b)'
      BY <2>1 DEF R!IsPathOpen
    <2>. QED  BY <1>2, <1>3, <1>4, <2>1, <2>2
  <1>5. CASE u # None /\ u \notin R!Nodes(heard)
    <2>1. of = {}
      BY <1>2, <1>5 DEF R!Under
    <2>2. \A p : R!IsPathOpen(p)' = R!IsPathOpen(p)
      BY <1>1, <1>5 DEF R!SetAllOpen, R!Whole, R!fold, R!IsPathOpen
    <2>. QED  BY <2>1, <2>2
  <1>6. CASE u # None /\ u \in R!Nodes(heard)
    <2>. DEFINE reached == R!Under(heard, u) \cup R!Above(u)
    <2>1. /\ of = R!Under(heard, u) /\ u \in of /\ of \subseteq R!Nodes(heard)
          /\ reached = R!Reached(TRUE, u)
      BY <1>1, <1>6, NodesArePaths DEF R!Reached
    <2>2. /\ openPaths' = [p \in DOMAIN openPaths \cup reached |->
                             IF p \in reached THEN TRUE ELSE openPaths[p]]
          /\ brokerOpen' /\ defaultOpen' = defaultOpen
      BY <1>1, <1>6, <2>1 DEF R!SetAllOpen, R!Whole
    <2>. HIDE DEF u, of, reached
    <2>3. \A p : R!IsPathOpen(p)' = IF p \in reached THEN TRUE ELSE R!IsPathOpen(p)
      BY <2>2 DEF R!IsPathOpen
    <2>4. ASSUME NEW p \in of, NEW b \in R!Above(p)  PROVE b \in reached
      <3>1. p = u \/ u \in R!Above(p)
        BY <2>1 DEF R!Under
      <3>2. b \in R!Nodes(heard) /\ p \in Path
        BY <1>2, <2>1, <2>4
      <3>3. b = u \/ b \in R!Above(u) \/ u \in R!Above(b)
        BY <2>4, <3>1, <3>2, AboveAbove
      <3>. QED  BY <3>2, <3>3 DEF reached, R!Under
    <2>5. \A p \in of : p \in R!InSight'
      BY <1>3, <2>1, <2>3, <2>4
    <2>. QED  BY <2>1, <2>2, <2>3, <2>5 DEF reached
  <1>. QED  BY <1>4, <1>5, <1>6

\* What a step counts as a click is one.
LEMMA ClicksAreClicks ==
  ASSUME [R!Next]_(R!vars), clicks' # clicks
  PROVE  \E p \in R!OnScreen, n \in R!Counts : R!Click(p, n)
  BY DEF R!Next, R!vars, R!Arrives, R!DropTopics, R!Reset, R!Toggle, R!ToggleBroker, R!ExpandAll,
         R!CollapseAll, R!Search

\* Which of the two a click is, the run says afterwards.
LEMMA ClicksSay ==
  ASSUME RowsHold, NEW p \in R!OnScreen, NEW n \in R!Counts, R!Click(p, n)
  PROVE  /\ gesture'.row = p
         /\ gesture'.pair => R!SecondClick(p, n)
         /\ ~gesture'.pair => R!FirstClick(p, n)
  <1>1. gesture \in Gestures
    BY DEF RowsHold
  <1>2. CASE R!FirstClick(p, n)
    BY <1>2 DEF R!FirstClick, R!Remounted
  <1>3. CASE R!SecondClick(p, n)
    BY <1>1, <1>3 DEF R!SecondClick, R!Remounted, R!Paired, Gestures
  <1>. QED  BY <1>2, <1>3 DEF R!Click

\* Two clicks that follow one another on a row that stayed: what the second of them does.
Promised ==
  \A p \in R!Paths \cup {Broker} :
    /\ clicks' # clicks /\ gesture'.pair /\ gesture'.row = p
    /\ gesture.row = p /\ gesture.stayed /\ R!IsBranch(p)
    => /\ gesture.was = "shut" => UNCHANGED R!fold
       /\ gesture.was = "open" => R!IsOpen(p)' = ~R!IsOpen(p)

LEMMA PairsKeep ==
  ASSUME RowsHold, [R!Next]_(R!vars)
  PROVE  Promised
  <1>. SUFFICES ASSUME NEW p, clicks' # clicks, gesture'.pair, gesture'.row = p,
                       gesture.row = p, gesture.stayed, R!IsBranch(p)
                PROVE  /\ gesture.was = "shut" => UNCHANGED R!fold
                       /\ gesture.was = "open" => R!IsOpen(p)' = ~R!IsOpen(p)
    BY DEF Promised
  <1>1. PICK q \in R!OnScreen, n \in R!Counts : R!Click(q, n)
    BY ClicksAreClicks
  <1>2. q = p /\ R!SecondClick(p, n)
    BY <1>1, ClicksSay
  <1>3. /\ IF p \notin openedRun THEN R!Flip(p) ELSE UNCHANGED <<openPaths, brokerOpen>>
        /\ R!Pair(n) /\ defaultOpen' = defaultOpen
    BY <1>1, <1>2 DEF R!Click, R!SecondClick
  <1>4. ~gesture.pair
    BY <1>3 DEF RowsHold, Agree, Gestures, R!Counts, R!Pair
  <1>5. Answered /\ Agree(gesture, openedRun)
    BY DEF RowsHold
  <1>. QED  BY <1>3, <1>4, <1>5, FlipAnswers DEF Agree, R!fold

\* What moves no branch and no topic leaves the rows as they are.
LEMMA RowsOfAFold ==
  ASSUME UNCHANGED <<heard, brokerOpen, look, openPaths, defaultOpen>>
  PROVE  R!Rows' = R!Rows
  BY DEF R!Rows, R!InSight, R!Answers, R!IsPathOpen, R!Nodes, R!Drawn, R!Before, R!Above

\* A click that is no second one folds nothing: a row goes only where the ceiling is full.
Spared ==
  clicks' # clicks /\ ~gesture'.pair =>
    \A p \in R!Rows : p \in R!Rows' \/ (p \in R!InSight' /\ R!Cardinality(R!Rows') = Limit)

LEMMA OneClickSpares ==
  ASSUME RowsHold, [R!Next]_(R!vars)
  PROVE  Spared
  <1>. SUFFICES ASSUME clicks' # clicks, ~gesture'.pair, NEW r \in R!Rows
                PROVE  r \in R!Rows' \/ (r \in R!InSight' /\ Cardinality(R!Rows') = Limit)
    BY SameSize DEF Spared
  <1>1. PICK p \in R!OnScreen, n \in R!Counts : R!Click(p, n)
    BY ClicksAreClicks
  <1>2. R!FirstClick(p, n)
    BY <1>1, ClicksSay
  <1>3. UNCHANGED <<heard, look, defaultOpen>> /\ brokerOpen
    BY <1>1 DEF R!Click, R!Rows
  <1>4. CASE UNCHANGED <<openPaths, brokerOpen>>
    BY <1>3, <1>4, RowsOfAFold
  <1>5. CASE ~UNCHANGED <<openPaths, brokerOpen>>
    <2>1. R!IsBranch(p) /\ ~R!IsOpen(p) /\ R!Flip(p)
      BY <1>2, <1>5 DEF R!FirstClick
    <2>2. p # Broker /\ look = None /\ brokerOpen' = brokerOpen
      BY <1>3, <2>1 DEF R!IsBranch, R!IsOpen, R!Flip
    <2>3. openPaths' = R!SetPath(p, TRUE)
      <3>1. openPaths' = R!SetPath(p, ~R!IsPathOpen(p)) /\ ~R!IsPathOpen(p)
        BY <2>1, <2>2 DEF R!Flip, R!Toggled, R!IsOpen
      <3>. QED  BY <3>1
    <2>4. \A q : R!IsPathOpen(q) => R!IsPathOpen(q)'
      BY <1>3, <2>3, FoldOf
    <2>5. R!InSight \subseteq R!InSight' /\ R!InSight' \subseteq R!Nodes(heard)
      BY <1>3, <2>4 DEF R!InSight, R!Nodes
    <2>6. R!InSight' \in SUBSET Path /\ IsFiniteSet(R!InSight')
      BY <2>5, NodesArePaths, FS_Subset DEF RowsHold
    <2>7. R!Rows = R!Drawn(R!InSight) /\ R!Rows' = R!Drawn(R!InSight')
      BY <1>3, <2>2 DEF R!Rows
    <2>. QED  BY <2>5, <2>6, <2>7, DrawnGrows
  <1>. QED  BY <1>4, <1>5

\* For any topics, searches and ceiling: Expand puts the whole of what it names on screen; the
\* second of two clicks on a row that stayed on screen leaves what the first opened and turns
\* over what it found open; and a first click, or Enter, folds nothing (topicTreeStore's
\* setAllOpen, TreeNode's click runs).
THEOREM RowsKeep == R!Spec => RowsKeepTheirPromise
  <1>1. R!Init => RowsHold
    <2>. SUFFICES ASSUME R!Init  PROVE RowsHold
      OBVIOUS
    <2>1. R!Nodes(heard) = {} /\ heard = {} /\ openPaths = <<>> /\ defaultOpen = FALSE
      BY DEF R!Init, R!Nodes
    <2>2. gesture \in Gestures /\ ~gesture.pair /\ ~gesture.stayed
      BY DEF R!Init, R!NoGesture, Gestures
    <2>3. Answered
      <3>1. openPaths \in Seq(BOOLEAN) /\ Len(openPaths) = 0
        BY <2>1
      <3>2. DOMAIN openPaths = {}
        BY <3>1
      <3>. QED  BY <2>1, <3>2 DEF Answered
    <2>4. IsFiniteSet(R!Nodes(heard)) /\ heard \subseteq RowTopics
      BY <2>1, FS_EmptySet
    <2>. QED  BY <2>2, <2>3, <2>4 DEF RowsHold, Agree
  <1>2. RowsHold /\ [R!Next]_(R!vars) => RowsHold'
    BY RowsStep
  <1>3. RowsHold /\ [R!Next]_(R!vars) => [Shown]_(R!vars) /\ [Promised]_(R!vars) /\ [Spared]_(R!vars)
    BY ExpandShows, PairsKeep, OneClickSpares
  <1>4. R!Spec => [][Shown]_(R!vars) /\ [][Promised]_(R!vars) /\ [][Spared]_(R!vars)
    BY <1>1, <1>2, <1>3, PTL DEF R!Spec
  <1>. QED  BY <1>4, PTL DEF RowsKeepTheirPromise, R!ExpandShowsIt, R!PairKeepsItsPromise,
               R!OneClickHidesNothing, Shown, Promised, Spared

-----------------------------------------------------------------------------
(* What arrives: the line of messages and the hub they come by.              *)

\* What stands in a queue or has landed: a topic and the place it arrived in.
Msgs == [topic : Sent, id : Nat]

\* A run of messages in the order they arrived in.
InOrder(q) == \A i, j \in DOMAIN q : i < j => q[i].id < q[j].id

\* Every message of one run arrived before every message of the other.
Before(p, q) == \A a \in I!Ids(p), b \in I!Ids(q) : a < b

\* What the line is made of.
IntakeTypes ==
  /\ queue \in Seq(Msgs) /\ landed \in Seq(Msgs)
  /\ arrivals \in Nat /\ since \in 0..arrivals

\* What stands and what has landed is in the order it arrived in, each message in one place
\* or behind the reader for good, and none from before the tree was last begun anew.
LineHolds ==
  /\ InOrder(landed) /\ InOrder(queue) /\ Before(landed, queue)
  /\ (I!Ids(landed) \cup I!Ids(queue)) \cap goneBy = {}
  /\ I!Ids(landed) \cup I!Ids(queue) \cup goneBy = 1..arrivals
  /\ \A n \in I!Ids(landed) \cup I!Ids(queue) : n > since
  /\ waiting = Len(queue)

\* One loop asks for the hub, as the flag says, and none while it is up or on its way.
HubHolds ==
  /\ loops \in {0, 1} /\ retrying \in BOOLEAN /\ (retrying <=> loops = 1)
  /\ opened = "due" => net = "off" /\ loops = 0
  /\ net \in {"off", "starting", "up", "auto"}
  /\ net # "off" => loops = 0
  /\ net = "starting" => opened = "out"

\* The inductive invariant of the intake.
IntakeInv == IntakeTypes /\ LineHolds /\ HubHolds

\* A slice of a run in order is in order, and holds the places it is cut from.
LEMMA SlicesKeepOrder ==
  ASSUME NEW q \in Seq(Msgs), InOrder(q), NEW a \in 1..(Len(q) + 1), NEW b \in 0..Len(q)
  PROVE  /\ SubSeq(q, a, b) \in Seq(Msgs) /\ InOrder(SubSeq(q, a, b))
         /\ I!Ids(SubSeq(q, a, b)) = {q[i].id : i \in a..b}
  <1>. DEFINE s == SubSeq(q, a, b)
  <1>1. /\ s \in Seq(Msgs) /\ Len(s) = IF a <= b THEN b - a + 1 ELSE 0
        /\ \A i \in 1..Len(s) : s[i] = q[a + i - 1]
    OBVIOUS
  <1>2. DOMAIN s = 1..Len(s) /\ Len(s) \in Nat /\ DOMAIN q = 1..Len(q) /\ Len(q) \in Nat
    BY <1>1
  <1>. HIDE DEF s
  <1>3. \A i \in 1..Len(s) : a + i - 1 \in a..b /\ a + i - 1 \in 1..Len(q)
    BY <1>1, <1>2
  <1>4. InOrder(s)
    <2>. SUFFICES ASSUME NEW i \in 1..Len(s), NEW j \in 1..Len(s), i < j  PROVE s[i].id < s[j].id
      BY <1>2 DEF InOrder
    <2>1. a + i - 1 \in DOMAIN q /\ a + j - 1 \in DOMAIN q /\ a + i - 1 < a + j - 1
      BY <1>2, <1>3
    <2>2. q[a + i - 1].id < q[a + j - 1].id
      BY <2>1 DEF InOrder
    <2>. QED  BY <1>1, <2>2
  <1>5. \A i \in a..b : i - a + 1 \in 1..Len(s) /\ s[i - a + 1] = q[i]
    BY <1>1, <1>2
  <1>6. I!Ids(s) = {q[i].id : i \in a..b}
    <2>1. I!Ids(s) = {s[i].id : i \in 1..Len(s)}
      BY <1>2 DEF I!Ids
    <2>2. \A i \in 1..Len(s) : s[i].id = q[a + i - 1].id /\ a + i - 1 \in a..b
      BY <1>1, <1>3
    <2>3. \A i \in a..b : \E k \in 1..Len(s) : s[k].id = q[i].id
      BY <1>5
    <2>4. \A i \in 1..Len(s) : \E k \in a..b : s[i].id = q[k].id
      BY <2>2
    <2>5. ASSUME NEW n \in I!Ids(s)  PROVE \E i \in a..b : q[i].id = n
      <3>1. PICK i \in 1..Len(s) : s[i].id = n
        BY <2>1, Zenon
      <3>. QED  BY <3>1, <2>4
    <2>6. ASSUME NEW i \in a..b  PROVE q[i].id \in I!Ids(s)
      <3>1. PICK k \in 1..Len(s) : s[k].id = q[i].id
        BY <2>3
      <3>. QED  BY <3>1, <2>1, Zenon
    <2>. QED  BY <2>5, <2>6, Zenon
  <1>. QED  BY <1>1, <1>4, <1>6 DEF s

\* So is what a sieve leaves of it.
LEMMA SievesKeepOrder ==
  ASSUME NEW q \in Seq(Msgs), InOrder(q), NEW gone
  PROVE  /\ I!Spared(q, gone) \in Seq(Msgs) /\ InOrder(I!Spared(q, gone))
         /\ I!Ids(I!Spared(q, gone)) = {q[i].id : i \in {k \in DOMAIN q : q[k].topic \notin gone}}
  <1>. DEFINE keep == {m \in I!ToSet(q) : m.topic \notin gone}
              s == Sieved(q, keep)
  <1>1. I!Spared(q, gone) = s
    BY DEF I!Spared, I!Sieved, Sieved
  <1>2. s \in Seq(Msgs) /\ \E at : Spots(at, q, Len(q), keep, s)
    <2>. HIDE DEF keep
    <2>. QED  BY SievedPlaces
  <1>3. \A k \in DOMAIN q : q[k] \in keep <=> q[k].topic \notin gone
    BY DEF I!ToSet
  <1>. HIDE DEF keep, s
  <1>4. PICK at : Spots(at, q, Len(q), keep, s)
    BY <1>2
  <1>5. DOMAIN s = 1..Len(s) /\ Len(s) \in Nat /\ DOMAIN q = 1..Len(q) /\ Len(q) \in Nat
    BY <1>2
  <1>6. \A i \in 1..Len(s) : at[i] \in 1..Len(q) /\ s[i] = q[at[i]] /\ q[at[i]].topic \notin gone
    BY <1>3, <1>4, <1>5 DEF Spots
  <1>7. InOrder(s)
    BY <1>4, <1>5, <1>6 DEF InOrder, Spots
  <1>8. \A k \in DOMAIN q : q[k].topic \notin gone => \E i \in 1..Len(s) : at[i] = k
    BY <1>3, <1>4, <1>5 DEF Spots
  <1>9. I!Ids(s) = {q[i].id : i \in {k \in DOMAIN q : q[k].topic \notin gone}}
    <2>1. I!Ids(s) = {s[i].id : i \in 1..Len(s)}
      BY <1>5 DEF I!Ids
    <2>2. \A i \in 1..Len(s) : s[i].id = q[at[i]].id /\ at[i] \in {k \in DOMAIN q : q[k].topic \notin gone}
      BY <1>5, <1>6
    <2>3. \A k \in {k \in DOMAIN q : q[k].topic \notin gone} : \E i \in 1..Len(s) : s[i].id = q[k].id
      BY <1>6, <1>8
    <2>. QED  BY <2>1, <2>2, <2>3
  <1>. QED  BY <1>1, <1>2, <1>7, <1>9

\* So are two runs joined, the one before the other.
LEMMA JoinsKeepOrder ==
  ASSUME NEW p \in Seq(Msgs), NEW q \in Seq(Msgs), InOrder(p), InOrder(q), Before(p, q)
  PROVE  p \o q \in Seq(Msgs) /\ InOrder(p \o q) /\ I!Ids(p \o q) = I!Ids(p) \cup I!Ids(q)
  <1>. DEFINE s == p \o q
  <1>1. /\ s \in Seq(Msgs) /\ Len(s) = Len(p) + Len(q)
        /\ \A i \in 1..Len(p) : s[i] = p[i]
        /\ \A i \in 1..Len(q) : s[Len(p) + i] = q[i]
    OBVIOUS
  <1>2. /\ Len(p) \in Nat /\ Len(q) \in Nat /\ DOMAIN s = 1..Len(s)
        /\ DOMAIN p = 1..Len(p) /\ DOMAIN q = 1..Len(q)
    BY <1>1
  <1>. HIDE DEF s
  <1>3. \A i \in 1..Len(s) : i \in 1..Len(p) \/ (i - Len(p) \in 1..Len(q) /\ s[i] = q[i - Len(p)] /\ i > Len(p))
    BY <1>1, <1>2
  <1>4. InOrder(s)
    <2>. SUFFICES ASSUME NEW i \in 1..Len(s), NEW j \in 1..Len(s), i < j  PROVE s[i].id < s[j].id
      BY <1>2 DEF InOrder
    <2>1. CASE j \in 1..Len(p)
      <3>1. i \in DOMAIN p /\ j \in DOMAIN p
        BY <2>1, <1>2
      <3>2. p[i].id < p[j].id
        BY <3>1 DEF InOrder
      <3>. QED  BY <1>1, <1>2, <3>1, <3>2
    <2>2. CASE j \notin 1..Len(p) /\ i \in 1..Len(p)
      <3>1. i \in DOMAIN p /\ j - Len(p) \in DOMAIN q
        BY <2>2, <1>2, <1>3
      <3>2. p[i].id < q[j - Len(p)].id
        BY <3>1 DEF Before, I!Ids
      <3>. QED  BY <2>2, <1>1, <1>3, <3>2
    <2>3. CASE j \notin 1..Len(p) /\ i \notin 1..Len(p)
      <3>1. i - Len(p) \in DOMAIN q /\ j - Len(p) \in DOMAIN q /\ i - Len(p) < j - Len(p)
        BY <2>3, <1>2, <1>3
      <3>2. q[i - Len(p)].id < q[j - Len(p)].id
        BY <3>1 DEF InOrder
      <3>. QED  BY <2>3, <1>3, <3>2
    <2>. QED  BY <2>1, <2>2, <2>3
  <1>5. I!Ids(s) = I!Ids(p) \cup I!Ids(q)
    <2>1. \A i \in 1..Len(q) : Len(p) + i \in 1..Len(s) /\ s[Len(p) + i].id = q[i].id
      BY <1>1, <1>2
    <2>2. \A i \in 1..Len(p) : i \in 1..Len(s) /\ s[i].id = p[i].id
      BY <1>1, <1>2
    <2>3. \A i \in 1..Len(s) : \/ i \in 1..Len(p) /\ s[i].id = p[i].id
                               \/ i - Len(p) \in 1..Len(q) /\ s[i].id = q[i - Len(p)].id
      BY <1>1, <1>3
    <2>4. /\ I!Ids(s) = {s[i].id : i \in 1..Len(s)}
          /\ I!Ids(p) = {p[i].id : i \in 1..Len(p)}
          /\ I!Ids(q) = {q[i].id : i \in 1..Len(q)}
      BY <1>2 DEF I!Ids
    <2>5. \A i \in 1..Len(q) : \E k \in 1..Len(s) : s[k].id = q[i].id
      BY <2>1
    <2>6. \A i \in 1..Len(s) : \/ \E k \in 1..Len(p) : s[i].id = p[k].id
                               \/ \E k \in 1..Len(q) : s[i].id = q[k].id
      BY <2>3
    <2>7. \A i \in 1..Len(p) : \E k \in 1..Len(s) : s[k].id = p[i].id
      BY <2>2
    <2>8. \A n : n \in I!Ids(s) <=> n \in I!Ids(p) \/ n \in I!Ids(q)
      BY <2>4, <2>5, <2>6, <2>7, Zenon
    <2>. QED  BY <2>8, Zenon
  <1>. QED  BY <1>1, <1>4, <1>5 DEF s

\* Whoever asks for the loop finds one or starts one.
LEMMA OneIsAsked ==
  ASSUME HubHolds, I!RetryUntilConnected
  PROVE  loops' = 1 /\ retrying'
  <1>1. CASE retrying
    BY <1>1 DEF HubHolds, I!RetryUntilConnected
  <1>2. CASE ~retrying
    BY <1>2 DEF HubHolds, I!RetryUntilConnected
  <1>. QED  BY <1>1, <1>2

\* The hub: one loop at most, and none over a connection that is up.
LEMMA HubStays ==
  ASSUME HubHolds, [I!Next]_(I!vars)
  PROVE  HubHolds'
  <1>1. CASE I!HubSteps
    <2>1. CASE I!Start
      BY <2>1 DEF I!Start, HubHolds
    <2>2. CASE I!StartWorks
      BY <2>2 DEF I!StartWorks, HubHolds
    <2>3. CASE I!StartFails
      BY <2>3, OneIsAsked DEF I!StartFails, I!RetryUntilConnected, HubHolds
    <2>4. CASE I!Closed
      BY <2>4, OneIsAsked DEF I!Closed, I!RetryUntilConnected, HubHolds
    <2>5. CASE I!Drops
      BY <2>5 DEF I!Drops, HubHolds
    <2>6. CASE I!AutoWorks
      BY <2>6 DEF I!AutoWorks, HubHolds
    <2>7. CASE I!RetryWorks
      <3>1. retrying' = FALSE /\ loops' = 0 /\ net' = "up" /\ opened' = opened
        BY <2>7 DEF I!RetryWorks, HubHolds
      <3>2. opened # "due"
        BY <2>7 DEF I!RetryWorks, HubHolds
      <3>3. ~retrying' /\ retrying' \in BOOLEAN
        BY <3>1
      <3>. QED  BY <3>1, <3>2, <3>3 DEF HubHolds
    <2>. QED  BY <1>1, <2>1, <2>2, <2>3, <2>4, <2>5, <2>6, <2>7 DEF I!HubSteps
  <1>2. CASE UNCHANGED I!connection
    BY <1>2 DEF I!connection, HubHolds
  <1>3. CASE ~I!HubSteps
    <2>1. UNCHANGED I!connection
      BY <1>3 DEF I!Next, I!MessagesReceived, I!Frame, I!Toggle, I!Restarted, I!ForgetTopics,
                  I!vars, I!connection
    <2>. QED  BY <2>1, <1>2
  <1>. QED  BY <1>1, <1>3

\* What the line is made of is what moves it.
LEMMA LineStays ==
  ASSUME IntakeTypes, LineHolds, UNCHANGED <<queue, waiting, landed, arrivals, goneBy, since>>
  PROVE  IntakeTypes' /\ LineHolds'
  BY DEF IntakeTypes, LineHolds, InOrder, Before, I!Ids

\* A batch goes on the end, and what the ceiling takes is from the front.
LEMMA BatchLines ==
  ASSUME I!BoundsAssumption, IntakeTypes, LineHolds, NEW t \in Sent, NEW n \in 1..2,
         I!MessagesReceived(t, n)
  PROVE  IntakeTypes' /\ LineHolds'
  <1>. DEFINE batch == [i \in 1..n |-> [topic |-> t, id |-> arrivals + i]]
              more == queue \o batch
  <1>1. arrivals \in Nat /\ since \in Nat /\ since <= arrivals /\ n \in Nat /\ QueueCeiling \in Nat
    BY DEF IntakeTypes, I!BoundsAssumption
  <1>2. batch \in Seq(Msgs) /\ Len(batch) = n /\ DOMAIN batch = 1..n
    BY <1>1 DEF Msgs
  <1>3. \A i \in 1..n : batch[i].id = arrivals + i
    OBVIOUS
  <1>. HIDE DEF batch
  <1>4. \A b \in I!Ids(batch) : b \in (arrivals + 1)..(arrivals + n)
    BY <1>1, <1>2, <1>3 DEF I!Ids
  <1>5. InOrder(batch)
    BY <1>1, <1>2, <1>3 DEF InOrder
  <1>6. \A a \in I!Ids(landed) \cup I!Ids(queue) : a \in 1..arrivals /\ a > since
    BY DEF LineHolds
  <1>7. Before(queue, batch) /\ Before(landed, batch)
    BY <1>1, <1>4, <1>6 DEF Before
  <1>8. more \in Seq(Msgs) /\ InOrder(more) /\ I!Ids(more) = I!Ids(queue) \cup I!Ids(batch)
    BY <1>2, <1>5, <1>7, JoinsKeepOrder DEF IntakeTypes, LineHolds
  <1>. HIDE DEF more
  <1>9. queue' \in Seq(Msgs) /\ InOrder(queue') /\ I!Ids(queue') \subseteq I!Ids(more)
    <2>1. queue' = I!Trimmed(more)
      BY DEF I!MessagesReceived, more, batch
    <2>2. CASE Len(more) > QueueCeiling
      <3>1. queue' = SubSeq(more, Len(more) - QueueCeiling + 1, Len(more))
        BY <2>1, <2>2 DEF I!Trimmed
      <3>2. Len(more) \in Nat /\ DOMAIN more = 1..Len(more)
        BY <1>8
      <3>3. Len(more) - QueueCeiling + 1 \in 1..(Len(more) + 1) /\ Len(more) \in 0..Len(more)
        BY <1>1, <2>2, <3>2
      <3>4. /\ queue' \in Seq(Msgs) /\ InOrder(queue')
            /\ I!Ids(queue') = {more[i].id : i \in (Len(more) - QueueCeiling + 1)..Len(more)}
        BY <1>8, <3>1, <3>3, SlicesKeepOrder
      <3>5. (Len(more) - QueueCeiling + 1)..Len(more) \subseteq DOMAIN more
        BY <1>1, <3>2, <3>3
      <3>. QED  BY <3>4, <3>5 DEF I!Ids
    <2>3. CASE ~(Len(more) > QueueCeiling)
      BY <1>8, <2>1, <2>3 DEF I!Trimmed
    <2>. QED  BY <2>2, <2>3
  <1>10. /\ arrivals' = arrivals + n /\ waiting' = Len(queue') /\ UNCHANGED <<landed, since>>
         /\ goneBy' = goneBy \cup (I!Ids(more) \ I!Ids(queue'))
    BY DEF I!MessagesReceived, more, batch
  <1>11. I!Ids(batch) = (arrivals + 1)..(arrivals + n)
    <2>1. \A b \in (arrivals + 1)..(arrivals + n) : b - arrivals \in 1..n /\ b = arrivals + (b - arrivals)
      BY <1>1
    <2>. QED  BY <1>2, <1>3, <1>4, <2>1 DEF I!Ids
  <1>12. IntakeTypes'
    BY <1>1, <1>9, <1>10 DEF IntakeTypes
  <1>13. LineHolds'
    <2>1. Before(landed, queue')
      BY <1>7, <1>8, <1>9 DEF Before, LineHolds
    <2>2. (I!Ids(landed) \cup I!Ids(queue')) \cap goneBy' = {}
      <3>1. goneBy \subseteq 1..arrivals
        BY DEF LineHolds
      <3>2. I!Ids(batch) \cap goneBy = {}
        BY <1>1, <1>4, <3>1
      <3>3. \A a \in I!Ids(landed), b \in I!Ids(more) : a # b
        <4>1. \A a \in I!Ids(landed), b \in I!Ids(queue) : a \in Nat /\ a < b /\ b \in Nat
          BY <1>6 DEF LineHolds, Before
        <4>2. \A a \in I!Ids(landed), b \in I!Ids(batch) : a \in Nat /\ a < b /\ b \in Nat
          BY <1>1, <1>4, <1>6
        <4>. QED  BY <1>8, <4>1, <4>2
      <3>. QED  BY <1>8, <1>9, <1>10, <3>2, <3>3 DEF LineHolds
    <2>3. I!Ids(landed) \cup I!Ids(queue') \cup goneBy' = 1..arrivals'
      <3>1. I!Ids(landed) \cup I!Ids(queue') \cup goneBy' = 1..arrivals \cup I!Ids(batch)
        BY <1>8, <1>9, <1>10 DEF LineHolds
      <3>2. 1..arrivals \cup (arrivals + 1)..(arrivals + n) = 1..(arrivals + n)
        BY <1>1
      <3>. QED  BY <1>10, <1>11, <3>1, <3>2
    <2>4. \A m \in I!Ids(landed) \cup I!Ids(queue') : m > since
      BY <1>1, <1>4, <1>6, <1>8, <1>9
    <2>5. I!Ids(landed)' = I!Ids(landed) /\ InOrder(landed)' /\ I!Ids(queue)' = I!Ids(queue')
          /\ InOrder(queue)' = InOrder(queue') /\ Before(landed, queue)' = Before(landed, queue')
      BY <1>10 DEF I!Ids, InOrder, Before, LineHolds
    <2>. QED  BY <1>9, <1>10, <2>1, <2>2, <2>3, <2>4, <2>5 DEF LineHolds
  <1>. QED  BY <1>12, <1>13

\* A frame carries the head of the queue to the end of what has landed.
LEMMA FrameLands ==
  ASSUME I!BoundsAssumption, IntakeTypes, LineHolds, I!Frame
  PROVE  IntakeTypes' /\ LineHolds'
  <1>. DEFINE n == IF Len(queue) < PerFrame THEN Len(queue) ELSE PerFrame
              head == SubSeq(queue, 1, n)
              rest == SubSeq(queue, n + 1, Len(queue))
  <1>1. Len(queue) \in Nat /\ DOMAIN queue = 1..Len(queue) /\ PerFrame \in Nat \ {0}
    BY DEF IntakeTypes, I!BoundsAssumption
  <1>2. n \in 0..Len(queue) /\ (n = 0 => Len(queue) = 0)
    BY <1>1
  <1>3. /\ landed' = landed \o head /\ queue' = rest
        /\ waiting' = IF n > 0 THEN Len(queue') ELSE waiting
        /\ UNCHANGED <<arrivals, goneBy, since>>
    BY DEF I!Frame
  <1>. HIDE DEF n
  <1>4. 1 \in 1..(Len(queue) + 1) /\ n + 1 \in 1..(Len(queue) + 1) /\ Len(queue) \in 0..Len(queue)
    BY <1>1, <1>2
  <1>5. /\ head \in Seq(Msgs) /\ InOrder(head) /\ I!Ids(head) = {queue[i].id : i \in 1..n}
        /\ rest \in Seq(Msgs) /\ InOrder(rest) /\ I!Ids(rest) = {queue[i].id : i \in (n + 1)..Len(queue)}
    BY <1>2, <1>4, SlicesKeepOrder DEF IntakeTypes, LineHolds
  <1>6. I!Ids(head) \cup I!Ids(rest) = I!Ids(queue)
    <2>1. 1..n \cup (n + 1)..Len(queue) = DOMAIN queue
      BY <1>1, <1>2
    <2>2. I!Ids(queue) = {queue[i].id : i \in DOMAIN queue}
      BY DEF I!Ids
    <2>. QED  BY <1>5, <2>1, <2>2
  <1>7. Before(head, rest)
    <2>1. \A i \in 1..n, j \in (n + 1)..Len(queue) : i \in DOMAIN queue /\ j \in DOMAIN queue /\ i < j
      BY <1>1, <1>2
    <2>2. \A i \in 1..n, j \in (n + 1)..Len(queue) : queue[i].id < queue[j].id
      BY <2>1 DEF LineHolds, InOrder
    <2>. QED  BY <1>5, <2>2 DEF Before
  <1>8. Before(landed, head) /\ Before(landed, rest)
    BY <1>6 DEF LineHolds, Before
  <1>. HIDE DEF head, rest
  <1>9. /\ landed' \in Seq(Msgs) /\ InOrder(landed') /\ I!Ids(landed') = I!Ids(landed) \cup I!Ids(head)
    BY <1>3, <1>5, <1>8, JoinsKeepOrder DEF IntakeTypes, LineHolds
  <1>10. Before(landed', queue')
    BY <1>3, <1>7, <1>8, <1>9 DEF Before
  <1>11. waiting' = Len(queue')
    <2>1. CASE n > 0
      BY <1>3, <2>1
    <2>2. CASE ~(n > 0)
      <3>1. n = 0 /\ Len(queue) = 0
        BY <1>1, <1>2, <2>2
      <3>2. Len(rest) = 0
        BY <3>1 DEF rest, IntakeTypes
      <3>. QED  BY <1>3, <2>2, <3>1, <3>2 DEF LineHolds
    <2>. QED  BY <2>1, <2>2
  <1>12. I!Ids(landed') \cup I!Ids(queue') = I!Ids(landed) \cup I!Ids(queue)
    BY <1>3, <1>6, <1>9
  <1>13. I!Ids(landed)' = I!Ids(landed') /\ InOrder(landed)' = InOrder(landed')
         /\ I!Ids(queue)' = I!Ids(queue') /\ InOrder(queue)' = InOrder(queue')
         /\ Before(landed, queue)' = Before(landed', queue')
    BY DEF I!Ids, InOrder, Before
  <1>14. IntakeTypes'
    BY <1>3, <1>5, <1>9 DEF IntakeTypes
  <1>. QED  BY <1>3, <1>5, <1>9, <1>10, <1>11, <1>12, <1>13, <1>14 DEF LineHolds

\* Topics cleared: what is on them leaves the line, what is not stays as it stood.
LEMMA ClearLines ==
  ASSUME IntakeTypes, LineHolds, NEW gone, I!ForgetTopics(gone)
  PROVE  IntakeTypes' /\ LineHolds'
  <1>. DEFINE On(q) == {q[i].id : i \in {k \in DOMAIN q : q[k].topic \in gone}}
              Off(q) == {q[i].id : i \in {k \in DOMAIN q : q[k].topic \notin gone}}
              taken == {m.id : m \in {x \in I!ToSet(queue) \cup I!ToSet(landed) : x.topic \in gone}}
  <1>1. /\ queue' = I!Spared(queue, gone) /\ landed' = I!Spared(landed, gone)
        /\ waiting' = Len(queue') /\ goneBy' = goneBy \cup taken /\ UNCHANGED <<arrivals, since>>
    BY DEF I!ForgetTopics, I!DropQueued
  <1>2. /\ queue' \in Seq(Msgs) /\ InOrder(queue') /\ I!Ids(queue') = Off(queue)
        /\ landed' \in Seq(Msgs) /\ InOrder(landed') /\ I!Ids(landed') = Off(landed)
    BY <1>1, SievesKeepOrder DEF IntakeTypes, LineHolds
  <1>3. taken = On(queue) \cup On(landed)
    <2>1. \A m : m \in taken <=> m \in On(queue) \/ m \in On(landed)
      <3>1. I!ToSet(queue) = {queue[i] : i \in DOMAIN queue} /\ I!ToSet(landed) = {landed[i] : i \in DOMAIN landed}
        BY DEF I!ToSet
      <3>2. ASSUME NEW m \in taken  PROVE m \in On(queue) \/ m \in On(landed)
        <4>1. PICK x \in I!ToSet(queue) \cup I!ToSet(landed) : x.topic \in gone /\ m = x.id
          OBVIOUS
        <4>. QED  BY <3>1, <4>1
      <3>3. ASSUME NEW m, m \in On(queue) \/ m \in On(landed)  PROVE m \in taken
        BY <3>1, <3>3
      <3>. QED  BY <3>2, <3>3
    <2>. QED  BY <2>1
  <1>4. \A q : I!Ids(q) = On(q) \cup Off(q)
    BY DEF I!Ids
  <1>5. ASSUME NEW q \in Seq(Msgs), InOrder(q), NEW m \in On(q)  PROVE m \notin Off(q)
    <2>. SUFFICES ASSUME m \in Off(q)  PROVE FALSE
      OBVIOUS
    <2>1. PICK i \in DOMAIN q : q[i].topic \in gone /\ m = q[i].id
      OBVIOUS
    <2>2. PICK j \in DOMAIN q : q[j].topic \notin gone /\ m = q[j].id
      OBVIOUS
    <2>3. q[i].id \in Nat /\ i \in Nat /\ j \in Nat /\ i # j
      <3>1. q[i] \in Msgs /\ i \in Nat /\ j \in Nat
        BY <1>5
      <3>. QED  BY <2>1, <2>2, <3>1 DEF Msgs
    <2>4. i < j \/ j < i
      BY <2>3
    <2>5. q[i].id < q[j].id \/ q[j].id < q[i].id
      BY <1>5, <2>4 DEF InOrder
    <2>. QED  BY <2>1, <2>2, <2>3, <2>5
  <1>6. On(queue) \cap Off(queue) = {} /\ On(landed) \cap Off(landed) = {}
    <2>1. \A m \in On(queue) : m \notin Off(queue)
      BY <1>5 DEF IntakeTypes, LineHolds
    <2>2. \A m \in On(landed) : m \notin Off(landed)
      BY <1>5 DEF IntakeTypes, LineHolds
    <2>. QED  BY <2>1, <2>2
  <1>7. I!Ids(queue) \cap I!Ids(landed) = {}
    <2>1. \A a \in I!Ids(landed), b \in I!Ids(queue) : a < b
      BY DEF LineHolds, Before
    <2>2. \A a \in I!Ids(landed) : a \in 1..arrivals /\ arrivals \in Nat
      BY DEF LineHolds, IntakeTypes
    <2>3. \A a \in I!Ids(landed) : a \in Int /\ ~(a < a)
      BY <2>2
    <2>. QED  BY <2>1, <2>3
  <1>. HIDE DEF On, Off, taken
  <1>8. (I!Ids(landed') \cup I!Ids(queue')) \cap goneBy' = {}
    BY <1>1, <1>2, <1>3, <1>4, <1>6, <1>7 DEF LineHolds
  <1>9. I!Ids(landed') \cup I!Ids(queue') \cup goneBy' = 1..arrivals
    BY <1>1, <1>2, <1>3, <1>4 DEF LineHolds
  <1>10. Before(landed', queue') /\ \A n \in I!Ids(landed') \cup I!Ids(queue') : n > since
    BY <1>2, <1>4 DEF LineHolds, Before
  <1>11. I!Ids(landed)' = I!Ids(landed') /\ InOrder(landed)' = InOrder(landed')
         /\ I!Ids(queue)' = I!Ids(queue') /\ InOrder(queue)' = InOrder(queue')
         /\ Before(landed, queue)' = Before(landed', queue')
    BY DEF I!Ids, InOrder, Before
  <1>12. IntakeTypes'
    BY <1>1, <1>2 DEF IntakeTypes
  <1>. QED  BY <1>1, <1>2, <1>8, <1>9, <1>10, <1>11, <1>12 DEF LineHolds

\* A fresh tree: the line is empty, and all that ever arrived is behind it.
LEMMA FreshLines ==
  ASSUME IntakeTypes, LineHolds, I!Restarted
  PROVE  IntakeTypes' /\ LineHolds'
  <1>1. /\ queue' = <<>> /\ landed' = <<>> /\ since' = arrivals /\ waiting' = 0 /\ arrivals' = arrivals
        /\ goneBy' = goneBy \cup I!Ids(queue) \cup I!Ids(landed)
    BY DEF I!Restarted, I!Forget
  <1>2. I!Ids(queue') = {} /\ I!Ids(landed') = {}
    BY <1>1 DEF I!Ids
  <1>3. I!Ids(landed)' = I!Ids(landed') /\ I!Ids(queue)' = I!Ids(queue')
    BY DEF I!Ids
  <1>4. InOrder(landed)' /\ InOrder(queue)' /\ Before(landed, queue)'
    BY <1>1, <1>2 DEF InOrder, Before, I!Ids
  <1>5. IntakeTypes'
    BY <1>1 DEF IntakeTypes
  <1>6. goneBy' = 1..arrivals'
    BY <1>1 DEF LineHolds
  <1>7. Len(queue') = 0
    BY <1>1
  <1>. QED  BY <1>1, <1>2, <1>3, <1>4, <1>5, <1>6, <1>7 DEF LineHolds

\* So the intake's invariant stands at the start and after every step,
LEMMA IntakeStays ==
  ASSUME I!BoundsAssumption, IntakeInv, [I!Next]_(I!vars)
  PROVE  IntakeInv'
  <1>. USE DEF IntakeInv
  <1>1. HubHolds'
    BY HubStays
  <1>2. CASE I!HubSteps \/ I!Toggle \/ UNCHANGED I!vars
    <2>1. UNCHANGED <<queue, waiting, landed, arrivals, goneBy, since>>
      BY <1>2 DEF I!HubSteps, I!Start, I!StartWorks, I!StartFails, I!Closed, I!Drops, I!AutoWorks,
                  I!RetryWorks, I!Kept, I!told, I!buffer, I!Toggle, I!vars
    <2>. QED  BY <1>1, <2>1, LineStays
  <1>3. CASE \E t \in Sent, n \in 1..2 : I!MessagesReceived(t, n)
    BY <1>1, <1>3, BatchLines
  <1>4. CASE I!Frame
    BY <1>1, <1>4, FrameLands
  <1>5. CASE I!Restarted
    BY <1>1, <1>5, FreshLines
  <1>6. CASE \E gone \in SUBSET Sent \ {{}} : I!ForgetTopics(gone)
    BY <1>1, <1>6, ClearLines
  <1>. QED  BY <1>2, <1>3, <1>4, <1>5, <1>6 DEF I!Next

\* and says what the intake promises.
LEMMA IntakeAddsUp ==
  ASSUME IntakeInv
  PROVE  I!AllAccountedFor /\ I!LineIsTrue /\ I!NothingCrossesARestart /\ I!OneRetrier
  <1>. USE DEF IntakeInv
  <1>1. I!AllAccountedFor
    <2>1. InOrder(landed \o queue) /\ I!Ids(landed \o queue) = I!Ids(landed) \cup I!Ids(queue)
      BY JoinsKeepOrder DEF IntakeTypes, LineHolds
    <2>. QED  BY <2>1 DEF I!AllAccountedFor, LineHolds, InOrder
  <1>2. I!LineIsTrue
    BY DEF I!LineIsTrue, LineHolds
  <1>3. I!NothingCrossesARestart
    BY DEF I!NothingCrossesARestart, LineHolds, I!Ids
  <1>4. I!OneRetrier
    BY DEF I!OneRetrier, HubHolds
  <1>. QED  BY <1>1, <1>2, <1>3, <1>4

\* It holds of an intake nothing has come to.
LEMMA IntakeBegins == I!Init => IntakeInv
  <1>. SUFFICES ASSUME I!Init  PROVE IntakeInv
    OBVIOUS
  <1>1. /\ queue = <<>> /\ landed = <<>> /\ arrivals = 0 /\ since = 0 /\ goneBy = {} /\ waiting = 0
        /\ loops = 0 /\ retrying = FALSE /\ net = "off"
    BY DEF I!Init
  <1>2. I!Ids(queue) = {} /\ I!Ids(landed) = {}
    BY <1>1 DEF I!Ids
  <1>3. InOrder(landed) /\ InOrder(queue) /\ Before(landed, queue)
    BY <1>1, <1>2 DEF InOrder, Before
  <1>4. IntakeTypes
    BY <1>1 DEF IntakeTypes
  <1>5. LineHolds
    BY <1>1, <1>2, <1>3 DEF LineHolds
  <1>6. HubHolds
    <2>1. ~retrying /\ retrying \in BOOLEAN
      BY <1>1
    <2>. QED  BY <1>1, <2>1 DEF HubHolds
  <1>. QED  BY <1>4, <1>5, <1>6 DEF IntakeInv

\* Whatever arrives is in one place, in its order (frameBuffer, pauseStore, hub).
LEMMA IntakeHolds == I!Spec => []IntakeInv
  <1>1. I!Init => IntakeInv
    BY IntakeBegins
  <1>2. IntakeInv /\ [I!Next]_(I!vars) => IntakeInv'
    BY IntakeStays, TrafficAssumption
  <1>. QED  BY <1>1, <1>2, PTL DEF I!Spec

-----------------------------------------------------------------------------
(* The log: a run, and the newest of it.                                     *)

\* The most a body may weigh, or a run under the bound.
Heaviest == G!Max(Weights \cup {TopicBytes})

\* An arrival in the log: its id and what its body weighs.
Entry == [id : Nat, weight : 0..Heaviest]

\* A run: its messages and the two bounds on it.
LogRun == [items : Seq(Entry), maxItems : Nat, maxBytes : {0, TopicBytes, None}]

\* The log counts as everybody does.
LEMMA SameCount == \A S : G!Cardinality(S) = Cardinality(S)
  BY Zenon DEF G!Cardinality, Cardinality

\* Of numbers up to a bound one is the greatest.
LEMMA Greatest ==
  ASSUME NEW n \in Nat, NEW K \in SUBSET (0..n), K # {}
  PROVE  G!Max(K) \in K /\ \A k \in K : G!Max(K) >= k
  <1>. DEFINE f == [k \in K |-> n - k]
  <1>1. \A k \in K : f[k] \in Nat
    OBVIOUS
  <1>2. PICK m \in K : \A k \in K : f[m] <= f[k]
    <2>. HIDE DEF f
    <2>. QED  BY <1>1, Least
  <1>3. \A k \in K : m >= k
    BY <1>2
  <1>. QED  BY <1>3 DEF G!Max

\* There is a most.
LEMMA HeaviestIs ==
  /\ Heaviest \in Nat /\ TopicBytes \in Nat /\ TopicBytes <= Heaviest
  /\ \A w \in Weights : w \in 0..Heaviest
  <1>. DEFINE K == Weights \cup {TopicBytes}
  <1>1. TopicBytes \in Nat /\ Weights \subseteq Nat
    BY TrafficAssumption DEF G!LogAssumption
  <1>2. PICK most \in K : \A w \in Weights : w <= most
    BY TrafficAssumption DEF G!LogAssumption
  <1>. DEFINE n == IF most >= TopicBytes THEN most ELSE TopicBytes
  <1>3. n \in Nat /\ K \in SUBSET (0..n) /\ K # {}
    BY <1>1, <1>2
  <1>4. G!Max(K) \in K /\ \A k \in K : G!Max(K) >= k
    <2>. HIDE DEF K, n
    <2>. QED  BY <1>3, Greatest
  <1>5. Heaviest \in K /\ \A k \in K : Heaviest >= k
    BY <1>4 DEF Heaviest
  <1>6. K \subseteq Nat /\ TopicBytes \in K /\ Weights \subseteq K
    BY <1>1
  <1>. HIDE DEF K
  <1>. QED  BY <1>5, <1>6

\* A run has a weight, and an empty one has none.
LEMMA HeftIsWeight ==
  ASSUME NEW items \in Seq(Entry)
  PROVE  /\ IsFiniteSet(G!Units(items)) /\ G!Heft(items) = Cardinality(G!Units(items))
         /\ G!Heft(items) \in Nat
         /\ items = <<>> => G!Units(items) = {} /\ G!Heft(items) = 0
  <1>. DEFINE A == [k \in DOMAIN items |-> 1..items[k].weight]
  <1>1. \A k \in DOMAIN items : items[k].weight \in Int
    <2>1. \A k \in DOMAIN items : items[k] \in Entry
      OBVIOUS
    <2>. QED  BY <2>1, HeaviestIs DEF Entry
  <1>2. \A k \in DOMAIN items : IsFiniteSet(A[k])
    <2>. SUFFICES ASSUME NEW k \in DOMAIN items  PROVE IsFiniteSet(1..items[k].weight)
      OBVIOUS
    <2>1. items[k].weight \in Int
      BY <1>1
    <2>2. \A b \in Int : IsFiniteSet(1..b)
      BY FS_Interval
    <2>. QED  BY <2>1, <2>2
  <1>3. IsFiniteSet(DOMAIN items)
    <2>1. DOMAIN items = 1..Len(items) /\ Len(items) \in Int
      OBVIOUS
    <2>. QED  BY <2>1, FS_Interval
  <1>4. IsFiniteSet(Pile(A))
    <2>1. DOMAIN A = DOMAIN items
      OBVIOUS
    <2>. HIDE DEF A
    <2>. QED  BY <1>2, <1>3, <2>1, PileFinite
  <1>5. Pile(A) = G!Units(items)
    BY DEF Pile, G!Units
  <1>6. G!Heft(items) = Cardinality(G!Units(items))
    BY SameCount DEF G!Heft
  <1>7. items = <<>> => G!Units(items) = {}
    BY DEF G!Units
  <1>. QED  BY <1>4, <1>5, <1>6, <1>7, FS_CardinalityType, FS_EmptySet

\* The newest of a run: so many, each where it stood, weighing no more together.
LEMMA NewestFit ==
  ASSUME NEW items \in Seq(Entry), NEW k \in 0..Len(items)
  PROVE  LET some == SubSeq(items, Len(items) - k + 1, Len(items))
         IN  /\ some \in Seq(Entry) /\ Len(some) = k
             /\ k = Len(items) => some = items
             /\ ExistsInjection(G!Units(some), G!Units(items))
             /\ G!Heft(some) <= G!Heft(items)
  <1>. DEFINE n == Len(items)
              some == SubSeq(items, n - k + 1, n)
              f == [u \in G!Units(some) |-> <<u[1] + (n - k), u[2]>>]
  <1>1. /\ some \in Seq(Entry) /\ Len(some) = k /\ n \in Nat
        /\ \A i \in 1..k : some[i] = items[n - k + i]
    <2>1. some \in Seq(Entry)
      OBVIOUS
    <2>2. Len(some) = k /\ n \in Nat
      OBVIOUS
    <2>3. \A i \in 1..k : some[i] = items[(n - k + 1) + i - 1]
      OBVIOUS
    <2>4. \A i \in 1..k : (n - k + 1) + i - 1 = n - k + i
      OBVIOUS
    <2>. QED  BY <2>1, <2>2, <2>3, <2>4
  <1>2. k = n => some = items
    BY <1>1
  <1>. HIDE DEF some
  <1>3. DOMAIN some = 1..k /\ DOMAIN items = 1..n
    BY <1>1
  <1>. HIDE DEF n
  <1>4. ASSUME NEW u \in G!Units(some)
        PROVE  /\ u[1] \in 1..k /\ u = <<u[1], u[2]>>
               /\ <<u[1] + (n - k), u[2]>> \in G!Units(items)
    <2>1. PICK i \in 1..k : \E w \in 1..some[i].weight : u = <<i, w>>
      BY <1>3 DEF G!Units
    <2>2. PICK w \in 1..some[i].weight : u = <<i, w>>
      BY <2>1
    <2>3. i + (n - k) \in 1..n /\ i + (n - k) = n - k + i
      BY <1>1, k \in 0..n DEF n
    <2>4. some[i].weight = items[i + (n - k)].weight
      BY <1>1, <2>3
    <2>5. <<i + (n - k), w>> \in {i + (n - k)} \X (1..items[i + (n - k)].weight)
      BY <2>2, <2>4
    <2>6. <<i + (n - k), w>> \in G!Units(items)
      BY <1>3, <2>3, <2>5 DEF G!Units
    <2>. QED  BY <2>2, <2>6
  <1>5. f \in Injection(G!Units(some), G!Units(items))
    <2>1. f \in [G!Units(some) -> G!Units(items)]
      BY <1>4
    <2>2. ASSUME NEW u \in G!Units(some), NEW v \in G!Units(some), f[u] = f[v]  PROVE u = v
      <3>1. <<u[1] + (n - k), u[2]>> = <<v[1] + (n - k), v[2]>>
        BY <2>2
      <3>2. u[1] + (n - k) = v[1] + (n - k) /\ u[2] = v[2]
        BY <3>1
      <3>3. u[1] \in Int /\ v[1] \in Int /\ n \in Int /\ k \in Int
        <4>1. u[1] \in 1..k /\ v[1] \in 1..k
          BY <1>4
        <4>2. n \in Int /\ k \in Int
          BY <1>1 DEF n
        <4>. QED  BY <4>1, <4>2
      <3>4. u[1] = v[1]
        BY <3>2, <3>3
      <3>. QED  BY <1>4, <3>2, <3>4
    <2>. QED  BY <2>1, <2>2 DEF Injection, IsInjective
  <1>6. ExistsInjection(G!Units(some), G!Units(items))
    BY <1>5 DEF ExistsInjection
  <1>7. G!Heft(some) <= G!Heft(items)
    <2>. HIDE DEF f
    <2>. QED  BY <1>1, <1>5, HeftIsWeight, FS_Injection
  <1>. QED  BY <1>1, <1>2, <1>6, <1>7 DEF some, n

\* What Fit keeps of a run: its newest, no more than may be kept, and either within the weight
\* or a single one; all of it, where nothing is asked.
LEMMA FitKeeps ==
  ASSUME NEW items \in Seq(Entry), NEW most \in Nat, NEW heaviest
  PROVE  LET kept == G!Fit(items, most, heaviest)
         IN  /\ kept \in Seq(Entry) /\ Len(kept) <= Len(items) /\ Len(kept) <= most
             /\ heaviest = None \/ Len(kept) <= 1 \/ G!Heft(kept) <= heaviest
             /\ ExistsInjection(G!Units(kept), G!Units(items)) /\ G!Heft(kept) <= G!Heft(items)
             /\ heaviest = None /\ Len(items) <= most => kept = items
  <1>. DEFINE n == Len(items)
              Some(k) == SubSeq(items, n - k + 1, n)
              Fits(k) == /\ k <= most
                         /\ heaviest = None \/ k <= 1 \/ G!Heft(Some(k)) <= heaviest
              K == {k \in 0..n : Fits(k)}
              m == G!Max(K)
  <1>1. G!Fit(items, most, heaviest) = Some(m)
    BY DEF G!Fit
  <1>2. n \in Nat
    OBVIOUS
  <1>3. 0 \in K
    BY <1>2
  <1>4. m \in K /\ \A k \in K : m >= k
    <2>. K \subseteq 0..n /\ K # {}
      BY <1>3
    <2>. HIDE DEF K, n
    <2>. QED  BY <1>2, Greatest
  <1>. HIDE DEF m
  <1>5. m \in 0..n /\ Fits(m)
    BY <1>4
  <1>6. /\ Some(m) \in Seq(Entry) /\ Len(Some(m)) = m /\ (m = n => Some(m) = items)
        /\ ExistsInjection(G!Units(Some(m)), G!Units(items)) /\ G!Heft(Some(m)) <= G!Heft(items)
    BY <1>5, NewestFit
  <1>7. ASSUME heaviest = None, n <= most  PROVE m = n
    <2>1. n \in K
      BY <1>2, <1>7
    <2>2. m \in 0..n /\ m >= n
      BY <1>4, <1>5, <2>1
    <2>. QED  BY <1>2, <2>2
  <1>. HIDE DEF K
  <1>. QED  BY <1>1, <1>2, <1>5, <1>6, <1>7

-----------------------------------------------------------------------------
(* The runs of every topic, and what they come to.                           *)

\* A run for every topic, of nothing where the topic has none.
Runs == [Logged -> LogRun]

\* The places of the runs, and their units of weight.
Held(rings) == [t \in Logged |-> DOMAIN rings[t].items]
Borne(rings) == [t \in Logged |-> G!Units(rings[t].items)]

\* No run is a run with nothing in it.
LEMMA NothingHeld == G!NoRun \in LogRun /\ G!NoRun.items = <<>>
  BY DEF G!NoRun, LogRun

\* The log's sums over its runs are the sizes of the two piles.
LEMMA SumsArePiles ==
  ASSUME NEW rings \in Runs, IsFiniteSet(G!HasRun(rings))
  PROVE  /\ IsFiniteSet(Pile(Held(rings))) /\ IsFiniteSet(Pile(Borne(rings)))
         /\ G!HeldOf(rings) = Cardinality(Pile(Held(rings))) /\ G!HeldOf(rings) \in Nat
         /\ G!HeldWeight(rings) = Cardinality(Pile(Borne(rings))) /\ G!HeldWeight(rings) \in Nat
  <1>. DEFINE F == G!HasRun(rings)
  <1>1. F \subseteq Logged /\ \A t \in Logged \ F : rings[t] = G!NoRun
    BY DEF G!HasRun
  <1>2. \A t \in Logged : rings[t].items \in Seq(Entry)
    BY DEF Runs, LogRun
  <1>3. \A t \in Logged : IsFiniteSet(DOMAIN rings[t].items)
    <2>. SUFFICES ASSUME NEW t \in Logged  PROVE IsFiniteSet(DOMAIN rings[t].items)
      OBVIOUS
    <2>1. DOMAIN rings[t].items = 1..Len(rings[t].items) /\ Len(rings[t].items) \in Int
      BY <1>2
    <2>2. \A n \in Int : IsFiniteSet(1..n)
      BY FS_Interval
    <2>. QED  BY <2>1, <2>2
  <1>4. \A t \in Logged : IsFiniteSet(G!Units(rings[t].items))
    BY <1>2, HeftIsWeight
  <1>5. \A t \in Logged \ F : DOMAIN rings[t].items = {} /\ G!Units(rings[t].items) = {}
    <2>1. \A t \in Logged \ F : rings[t].items = <<>> /\ rings[t].items \in Seq(Entry)
      BY <1>1, <1>2, NothingHeld
    <2>. QED  BY <2>1, HeftIsWeight
  <1>6. IsFiniteSet(Pile(Held(rings)))
    <2>1. DOMAIN Held(rings) = Logged /\ \A t \in Logged : Held(rings)[t] = DOMAIN rings[t].items
      BY DEF Held
    <2>. HIDE DEF F
    <2>. QED  BY <1>1, <1>3, <1>5, <2>1, PileFinite DEF F
  <1>7. IsFiniteSet(Pile(Borne(rings)))
    <2>1. DOMAIN Borne(rings) = Logged /\ \A t \in Logged : Borne(rings)[t] = G!Units(rings[t].items)
      BY DEF Borne
    <2>. HIDE DEF F
    <2>. QED  BY <1>1, <1>4, <1>5, <2>1, PileFinite DEF F
  <1>8. G!HeldOf(rings) = Cardinality(Pile(Held(rings)))
    <2>1. UNION {{t} \X DOMAIN rings[t].items : t \in Logged} = Pile(Held(rings))
      BY DEF Pile, Held
    <2>2. G!HeldOf(rings) = G!Cardinality(UNION {{t} \X DOMAIN rings[t].items : t \in Logged})
      BY DEF G!HeldOf
    <2>. QED  BY <2>1, <2>2, SameCount
  <1>9. G!HeldWeight(rings) = Cardinality(Pile(Borne(rings)))
    <2>1. UNION {{t} \X G!Units(rings[t].items) : t \in Logged} = Pile(Borne(rings))
      BY DEF Pile, Borne
    <2>2. G!HeldWeight(rings) = G!Cardinality(UNION {{t} \X G!Units(rings[t].items) : t \in Logged})
      BY DEF G!HeldWeight
    <2>. QED  BY <2>1, <2>2, SameCount
  <1>. QED  BY <1>6, <1>7, <1>8, <1>9, FS_CardinalityType

\* What a place in the piles comes to: how long the run is, and what it weighs.
LEMMA OneRun ==
  ASSUME NEW rings \in Runs, NEW t \in Logged
  PROVE  /\ rings[t].items \in Seq(Entry) /\ Len(rings[t].items) \in Nat
         /\ Held(rings)[t] = 1..Len(rings[t].items)
         /\ IsFiniteSet(Held(rings)[t]) /\ Cardinality(Held(rings)[t]) = Len(rings[t].items)
         /\ Borne(rings)[t] = G!Units(rings[t].items)
         /\ IsFiniteSet(Borne(rings)[t]) /\ Cardinality(Borne(rings)[t]) = G!Heft(rings[t].items)
         /\ G!Heft(rings[t].items) \in Nat
  <1>1. rings[t].items \in Seq(Entry)
    BY DEF Runs, LogRun
  <1>2. Len(rings[t].items) \in Nat /\ DOMAIN rings[t].items = 1..Len(rings[t].items)
    BY <1>1
  <1>3. Held(rings)[t] = 1..Len(rings[t].items) /\ Borne(rings)[t] = G!Units(rings[t].items)
    BY <1>2 DEF Held, Borne
  <1>4. /\ IsFiniteSet(1..Len(rings[t].items))
        /\ Cardinality(1..Len(rings[t].items)) = Len(rings[t].items)
    <2>1. \A n \in Nat : IsFiniteSet(1..n) /\ Cardinality(1..n) = n
      <3>. TAKE n \in Nat
      <3>1. IsFiniteSet(1..n) /\ Cardinality(1..n) = IF 1 > n THEN 0 ELSE n - 1 + 1
        BY FS_Interval
      <3>. QED  BY <3>1
    <2>. QED  BY <1>2, <2>1
  <1>. QED  BY <1>1, <1>2, <1>3, <1>4, HeftIsWeight

\* Some of the runs may go and the rest be cut back.
Shorter(less, rings) ==
  \A t \in Logged :
    \/ less[t] = G!NoRun
    \/ /\ rings[t] # G!NoRun
       /\ Len(less[t].items) <= Len(rings[t].items)
       /\ ExistsInjection(G!Units(less[t].items), G!Units(rings[t].items))

\* Then the log is no longer and no heavier.
LEMMA ShorterIsLess ==
  ASSUME NEW rings \in Runs, IsFiniteSet(G!HasRun(rings)), NEW less \in Runs, Shorter(less, rings)
  PROVE  /\ G!HasRun(less) \subseteq G!HasRun(rings) /\ IsFiniteSet(G!HasRun(less))
         /\ G!HeldOf(less) <= G!HeldOf(rings) /\ G!HeldWeight(less) <= G!HeldWeight(rings)
  <1>1. G!HasRun(less) \subseteq G!HasRun(rings)
    BY DEF Shorter, G!HasRun
  <1>2. IsFiniteSet(G!HasRun(less))
    BY <1>1, FS_Subset
  <1>3. \A t \in Logged : ExistsInjection(Held(less)[t], Held(rings)[t])
    <2>. SUFFICES ASSUME NEW t \in Logged  PROVE ExistsInjection(Held(less)[t], Held(rings)[t])
      OBVIOUS
    <2>1. Held(less)[t] = 1..Len(less[t].items) /\ Held(rings)[t] = 1..Len(rings[t].items)
          /\ Len(less[t].items) \in Nat /\ Len(rings[t].items) \in Nat
      BY OneRun
    <2>2. Len(less[t].items) <= Len(rings[t].items)
      <3>1. CASE less[t] = G!NoRun
        <4>1. Len(less[t].items) = 0
          BY <3>1, NothingHeld
        <4>. QED  BY <2>1, <4>1
      <3>. QED  BY <3>1 DEF Shorter
    <2>3. Held(less)[t] \subseteq Held(rings)[t]
      BY <2>1, <2>2
    <2>. QED  BY <2>3, PartsFit
  <1>4. \A t \in Logged : ExistsInjection(Borne(less)[t], Borne(rings)[t])
    <2>. SUFFICES ASSUME NEW t \in Logged  PROVE ExistsInjection(Borne(less)[t], Borne(rings)[t])
      OBVIOUS
    <2>1. Borne(less)[t] = G!Units(less[t].items) /\ Borne(rings)[t] = G!Units(rings[t].items)
          /\ less[t].items \in Seq(Entry)
      BY OneRun
    <2>2. CASE less[t] = G!NoRun
      <3>1. G!Units(less[t].items) = {}
        BY <2>1, <2>2, NothingHeld, HeftIsWeight
      <3>. QED  BY <2>1, <3>1, PartsFit
    <2>. QED  BY <2>1, <2>2 DEF Shorter
  <1>5. DOMAIN Held(less) = Logged /\ DOMAIN Held(rings) = Logged
        /\ DOMAIN Borne(less) = Logged /\ DOMAIN Borne(rings) = Logged
    BY DEF Held, Borne
  <1>6. Cardinality(Pile(Held(less))) <= Cardinality(Pile(Held(rings)))
    BY <1>3, <1>5, SumsArePiles, PileFits
  <1>7. Cardinality(Pile(Borne(less))) <= Cardinality(Pile(Borne(rings)))
    BY <1>4, <1>5, SumsArePiles, PileFits
  <1>. QED  BY <1>1, <1>2, <1>6, <1>7, SumsArePiles

\* Some of the runs.
LEMMA SomeAreShorter ==
  ASSUME NEW rings \in Runs, NEW K
  PROVE  /\ G!Only(rings, K) \in Runs
         /\ \A t \in Logged : G!Only(rings, K)[t] = IF t \in K THEN rings[t] ELSE G!NoRun
         /\ \A J : J \subseteq K => Shorter(G!Only(rings, J), G!Only(rings, K))
         /\ Shorter(G!Only(rings, K), rings)
  <1>1. \A J : \A t \in Logged : G!Only(rings, J)[t] = IF t \in J THEN rings[t] ELSE G!NoRun
    BY DEF G!Only
  <1>2. G!Only(rings, K) \in Runs
    BY NothingHeld DEF G!Only, Runs
  <1>3. \A t \in Logged : Len(rings[t].items) <= Len(rings[t].items)
                          /\ ExistsInjection(G!Units(rings[t].items), G!Units(rings[t].items))
    BY OneRun, PartsFit
  <1>4. \A J : J \subseteq K => Shorter(G!Only(rings, J), G!Only(rings, K))
    <2>. SUFFICES ASSUME NEW J, J \subseteq K, NEW t \in Logged, G!Only(rings, J)[t] # G!NoRun
                  PROVE  /\ G!Only(rings, K)[t] # G!NoRun
                         /\ G!Only(rings, J)[t] = rings[t] /\ G!Only(rings, K)[t] = rings[t]
      BY <1>3 DEF Shorter
    <2>. QED  BY <1>1
  <1>5. Shorter(G!Only(rings, K), rings)
    <2>. SUFFICES ASSUME NEW t \in Logged, G!Only(rings, K)[t] # G!NoRun
                  PROVE  rings[t] # G!NoRun /\ G!Only(rings, K)[t] = rings[t]
      BY <1>3 DEF Shorter
    <2>. QED  BY <1>1
  <1>. QED  BY <1>1, <1>2, <1>4, <1>5

\* Of some runs one is the quietest: the others are as new or newer.
LEMMA OneIsQuietest ==
  ASSUME NEW rings \in Runs, NEW K \in SUBSET G!HasRun(rings), K # {}
  PROVE  \E t \in K : K \subseteq {u \in G!HasRun(rings) : G!NewestId(rings[u]) >= G!NewestId(rings[t])}
  <1>. DEFINE f == [t \in K |-> G!NewestId(rings[t])]
  <1>1. ASSUME NEW t \in K  PROVE f[t] \in Nat
    <2>1. t \in Logged
      BY DEF G!HasRun
    <2>2. rings[t].items \in Seq(Entry)
      BY <2>1, OneRun
    <2>3. CASE rings[t].items = <<>>
      BY <2>3 DEF G!NewestId
    <2>4. CASE rings[t].items # <<>>
      <3>1. rings[t].items[Len(rings[t].items)] \in Entry
        BY <2>2, <2>4
      <3>. QED  BY <2>4, <3>1 DEF G!NewestId, G!Last, Entry
    <2>. QED  BY <2>3, <2>4
  <1>2. PICK t \in K : \A u \in K : f[t] <= f[u]
    <2>. HIDE DEF f
    <2>. QED  BY <1>1, Least
  <1>3. \A u \in K : G!NewestId(rings[u]) >= G!NewestId(rings[t])
    BY <1>1, <1>2
  <1>. QED  BY <1>3

\* What the ceiling or the budget takes is enough of the runs, whichever is measured.
LEMMA QuietestFits ==
  ASSUME NEW rings \in Runs, IsFiniteSet(G!HasRun(rings)), NEW most \in Nat
  PROVE  /\ LET left == G!Quietest(rings, most, G!HeldOf)
            IN  left \in Runs /\ (\E K : left = G!Only(rings, K)) /\ G!HeldOf(left) <= most
         /\ LET left == G!Quietest(rings, most, G!HeldWeight)
            IN  left \in Runs /\ (\E K : left = G!Only(rings, K)) /\ G!HeldWeight(left) <= most
  <1>. DEFINE Newer(t) == {u \in G!HasRun(rings) : G!NewestId(rings[u]) >= G!NewestId(rings[t])}
              Long == {t \in G!HasRun(rings) : G!HeldOf(G!Only(rings, Newer(t))) <= most}
              Heavy == {t \in G!HasRun(rings) : G!HeldWeight(G!Only(rings, Newer(t))) <= most}
  <1>1. /\ G!Quietest(rings, most, G!HeldOf) = G!Only(rings, Long)
        /\ G!Quietest(rings, most, G!HeldWeight) = G!Only(rings, Heavy)
    BY DEF G!Quietest
  <1>2. Long \subseteq G!HasRun(rings) /\ Heavy \subseteq G!HasRun(rings)
    OBVIOUS
  <1>3. ASSUME NEW K, NEW t, K \subseteq Newer(t)
        PROVE  /\ G!HeldOf(G!Only(rings, K)) <= G!HeldOf(G!Only(rings, Newer(t)))
               /\ G!HeldWeight(G!Only(rings, K)) <= G!HeldWeight(G!Only(rings, Newer(t)))
               /\ {G!HeldOf(G!Only(rings, K)), G!HeldOf(G!Only(rings, Newer(t))),
                   G!HeldWeight(G!Only(rings, K)), G!HeldWeight(G!Only(rings, Newer(t)))} \subseteq Nat
    <2>. HIDE DEF Newer
    <2>1. /\ G!Only(rings, Newer(t)) \in Runs /\ Shorter(G!Only(rings, Newer(t)), rings)
          /\ G!Only(rings, K) \in Runs /\ Shorter(G!Only(rings, K), G!Only(rings, Newer(t)))
          /\ Shorter(G!Only(rings, K), rings)
      BY <1>3, SomeAreShorter
    <2>2. IsFiniteSet(G!HasRun(G!Only(rings, Newer(t)))) /\ IsFiniteSet(G!HasRun(G!Only(rings, K)))
      BY <2>1, ShorterIsLess
    <2>. QED  BY <2>1, <2>2, ShorterIsLess, SumsArePiles
  <1>4. G!HeldOf(G!Only(rings, {})) = 0 /\ G!HeldWeight(G!Only(rings, {})) = 0
    <2>1. G!Only(rings, {}) \in Runs /\ \A t \in Logged : G!Only(rings, {})[t] = G!NoRun
      BY SomeAreShorter
    <2>2. G!HasRun(G!Only(rings, {})) = {}
      BY <2>1 DEF G!HasRun
    <2>3. \A t \in Logged : G!Only(rings, {})[t].items = <<>> /\ <<>> \in Seq(Entry)
      BY <2>1, NothingHeld
    <2>4. \A t \in Logged : Held(G!Only(rings, {}))[t] = {} /\ Borne(G!Only(rings, {}))[t] = {}
      <3>1. G!Units(<<>>) = {} /\ DOMAIN <<>> = {}
        BY <2>3, HeftIsWeight DEF G!Units
      <3>. QED  BY <2>3, <3>1 DEF Held, Borne
    <2>5. Pile(Held(G!Only(rings, {}))) = {} /\ Pile(Borne(G!Only(rings, {}))) = {}
      <3>1. DOMAIN Held(G!Only(rings, {})) = Logged /\ DOMAIN Borne(G!Only(rings, {})) = Logged
        BY DEF Held, Borne
      <3>. QED  BY <2>4, <3>1 DEF Pile
    <2>. QED  BY <2>1, <2>2, <2>5, SumsArePiles, FS_EmptySet
  <1>. HIDE DEF Newer
  <1>5. G!HeldOf(G!Only(rings, Long)) <= most
    <2>1. CASE Long = {}
      <3>. HIDE DEF Long
      <3>. QED  BY <1>4, <2>1
    <2>2. CASE Long # {}
      <3>1. PICK t \in Long : Long \subseteq Newer(t)
        <4>. HIDE DEF Long
        <4>. QED  BY <1>2, <2>2, OneIsQuietest DEF Newer
      <3>2. G!HeldOf(G!Only(rings, Newer(t))) <= most
        OBVIOUS
      <3>. HIDE DEF Long
      <3>. QED  BY <1>3, <3>1, <3>2
    <2>. QED  BY <2>1, <2>2
  <1>6. G!HeldWeight(G!Only(rings, Heavy)) <= most
    <2>1. CASE Heavy = {}
      <3>. HIDE DEF Heavy
      <3>. QED  BY <1>4, <2>1
    <2>2. CASE Heavy # {}
      <3>1. PICK t \in Heavy : Heavy \subseteq Newer(t)
        <4>. HIDE DEF Heavy
        <4>. QED  BY <1>2, <2>2, OneIsQuietest DEF Newer
      <3>2. G!HeldWeight(G!Only(rings, Newer(t))) <= most
        OBVIOUS
      <3>. HIDE DEF Heavy
      <3>. QED  BY <1>3, <3>1, <3>2
    <2>. QED  BY <2>1, <2>2
  <1>. HIDE DEF Long, Heavy
  <1>. QED  BY <1>1, <1>5, <1>6, SomeAreShorter

\* Whether the weight bound is on for every run or for none.
CapOn(rings, capped) ==
  \A t \in G!HasRun(rings) :
    /\ rings[t].maxBytes = IF capped THEN TopicBytes ELSE None
    /\ capped => G!Heft(rings[t].items) <= TopicBytes \/ Len(rings[t].items) = 1

\* What the log keeps.
LogStates == [runs : Runs, held : Nat, weight : Nat, budget : Nat, capped : BOOLEAN]

\* What holds of the log while a message is filed: all it says of itself but the budget.
Loaded(state) ==
  /\ state \in LogStates /\ IsFiniteSet(G!HasRun(state.runs))
  /\ state.held = G!HeldOf(state.runs) /\ state.weight = G!HeldWeight(state.runs)
  /\ state.held <= LogCeiling
  /\ CapOn(state.runs, state.capped)

\* What holds of it at rest.
LogHolds(state) == Loaded(state) /\ state.weight <= state.budget

\* Every run that is cut back is: the runs are the same ones, none longer or heavier.
LEMMA EachIsShorter ==
  ASSUME NEW rings \in Runs, NEW now \in Runs, \A t \in Logged : rings[t] = G!NoRun => now[t] = G!NoRun,
         \A t \in Logged : rings[t] # G!NoRun =>
           \E most \in Nat : \E heaviest : now[t].items = G!Fit(rings[t].items, most, heaviest)
  PROVE  Shorter(now, rings)
  <1>. SUFFICES ASSUME NEW t \in Logged, rings[t] # G!NoRun
                PROVE  /\ Len(now[t].items) <= Len(rings[t].items)
                       /\ ExistsInjection(G!Units(now[t].items), G!Units(rings[t].items))
    BY DEF Shorter
  <1>1. PICK most \in Nat : \E heaviest : now[t].items = G!Fit(rings[t].items, most, heaviest)
    OBVIOUS
  <1>2. PICK heaviest : now[t].items = G!Fit(rings[t].items, most, heaviest)
    BY <1>1
  <1>3. rings[t].items \in Seq(Entry)
    BY OneRun
  <1>. QED  BY <1>2, <1>3, FitKeeps

\* The same holds of what is left of some runs as of them all.
LEMMA CapOnSome ==
  ASSUME NEW rings \in Runs, NEW capped, CapOn(rings, capped), NEW K
  PROVE  CapOn(G!Only(rings, K), capped)
  <1>1. \A t \in Logged : G!Only(rings, K)[t] = IF t \in K THEN rings[t] ELSE G!NoRun
    BY SomeAreShorter
  <1>2. \A t \in G!HasRun(G!Only(rings, K)) : t \in G!HasRun(rings) /\ G!Only(rings, K)[t] = rings[t]
    BY <1>1 DEF G!HasRun
  <1>. QED  BY <1>2 DEF CapOn

\* Cutting back bruns the weight within the budget and every run under the cap.
LEMMA CutBackFits ==
  ASSUME NEW state, Loaded(state), NEW budget \in Nat
  PROVE  LET pared == G!CutBack(state, budget)
         IN  Loaded(pared) /\ pared.weight <= budget /\ pared.budget = state.budget
  <1>. DEFINE rings == state.runs
              capped == G!Each(rings, LAMBDA r : G!CapBytesTo(r, TopicBytes))
              left == G!Quietest(capped, budget, G!HeldWeight)
              pared == G!CutBack(state, budget)
  <1>1. rings \in Runs /\ IsFiniteSet(G!HasRun(rings)) /\ G!HeldOf(rings) <= LogCeiling /\ LogCeiling \in Nat
    BY TrafficAssumption DEF Loaded, LogStates, G!LogAssumption
  <1>2. pared = [state EXCEPT !.runs = left, !.capped = TRUE,
                            !.held = G!HeldOf(left), !.weight = G!HeldWeight(left)]
    BY DEF G!CutBack
  <1>3. \A t \in Logged : capped[t] = IF rings[t] = G!NoRun THEN G!NoRun ELSE G!CapBytesTo(rings[t], TopicBytes)
    BY DEF G!Each
  <1>4. ASSUME NEW t \in Logged
        PROVE  LET r == G!CapBytesTo(rings[t], TopicBytes)
               IN  /\ r \in LogRun /\ r.maxBytes = TopicBytes
                   /\ r.items = G!Fit(rings[t].items, Len(rings[t].items), TopicBytes)
                   /\ Len(rings[t].items) \in Nat
                   /\ G!Heft(r.items) <= TopicBytes \/ Len(r.items) = 1
    <2>. DEFINE r == G!CapBytesTo(rings[t], TopicBytes)
                items == rings[t].items
    <2>1. rings[t] \in LogRun /\ items \in Seq(Entry) /\ Len(items) \in Nat
      BY <1>1, OneRun DEF Runs
    <2>2. r = [rings[t] EXCEPT !.maxBytes = TopicBytes, !.items = G!Fit(items, Len(items), TopicBytes)]
      BY DEF G!CapBytesTo
    <2>3. TopicBytes \in Nat /\ None \notin Nat
      BY TrafficAssumption DEF G!LogAssumption
    <2>. HIDE DEF items
    <2>4. /\ G!Fit(items, Len(items), TopicBytes) \in Seq(Entry)
          /\ Len(G!Fit(items, Len(items), TopicBytes)) <= 1 \/ G!Heft(G!Fit(items, Len(items), TopicBytes)) <= TopicBytes
      BY <2>1, <2>3, FitKeeps
    <2>5. r \in LogRun /\ r.maxBytes = TopicBytes /\ r.items = G!Fit(items, Len(items), TopicBytes)
      BY <2>1, <2>2, <2>4 DEF LogRun
    <2>. HIDE DEF r
    <2>6. ASSUME Len(r.items) <= 1  PROVE G!Heft(r.items) <= TopicBytes \/ Len(r.items) = 1
      <3>1. r.items \in Seq(Entry)
        BY <2>4, <2>5
      <3>2. Len(r.items) = 0 \/ Len(r.items) = 1
        <4>1. Len(r.items) \in Nat
          BY <3>1
        <4>2. \A n \in Nat : n <= 1 => n = 0 \/ n = 1
          OBVIOUS
        <4>. QED  BY <2>6, <4>1, <4>2, Zenon
      <3>3. CASE Len(r.items) = 0
        <4>1. r.items = <<>>
          BY <3>1, <3>3
        <4>2. G!Heft(r.items) = 0
          BY <3>1, <4>1, HeftIsWeight
        <4>. QED  BY <2>3, <4>2
      <3>. QED  BY <3>2, <3>3
    <2>. QED  BY <2>1, <2>4, <2>5, <2>6 DEF items, r
  <1>. HIDE DEF rings, capped, left, pared
  <1>5. capped \in Runs
    <2>1. DOMAIN capped = Logged /\ capped = [t \in DOMAIN capped |-> capped[t]]
      BY DEF capped, G!Each
    <2>2. \A t \in Logged : capped[t] \in LogRun
      BY <1>3, <1>4, NothingHeld
    <2>. QED  BY <2>1, <2>2 DEF Runs
  <1>6. Shorter(capped, rings)
    <2>1. \A t \in Logged : rings[t] # G!NoRun =>
            \E most \in Nat : \E heaviest : capped[t].items = G!Fit(rings[t].items, most, heaviest)
      BY <1>3, <1>4
    <2>. QED  BY <1>1, <1>3, <1>5, <2>1, EachIsShorter
  <1>7. IsFiniteSet(G!HasRun(capped)) /\ G!HeldOf(capped) <= G!HeldOf(rings)
    BY <1>1, <1>5, <1>6, ShorterIsLess
  <1>8. left \in Runs /\ (\E K : left = G!Only(capped, K)) /\ G!HeldWeight(left) <= budget
    BY <1>5, <1>7, QuietestFits DEF left
  <1>9. IsFiniteSet(G!HasRun(left)) /\ G!HeldOf(left) <= G!HeldOf(capped)
    BY <1>5, <1>7, <1>8, SomeAreShorter, ShorterIsLess
  <1>10. G!HeldOf(left) \in Nat /\ G!HeldWeight(left) \in Nat /\ G!HeldOf(capped) \in Nat /\ G!HeldOf(rings) \in Nat
    BY <1>1, <1>5, <1>7, <1>8, <1>9, SumsArePiles
  <1>11. CapOn(capped, TRUE)
    BY <1>3, <1>4 DEF CapOn, G!HasRun
  <1>12. CapOn(left, TRUE)
    BY <1>5, <1>8, <1>11, CapOnSome
  <1>13. /\ pared.runs = left /\ pared.held = G!HeldOf(left) /\ pared.weight = G!HeldWeight(left)
         /\ pared.budget = state.budget /\ pared.capped = TRUE /\ pared \in LogStates
    BY <1>2, <1>8, <1>10 DEF Loaded, LogStates
  <1>14. Loaded(pared)
    <2>1. CapOn(pared.runs, pared.capped)
      BY <1>12, <1>13, Zenon
    <2>2. pared.held <= LogCeiling
      BY <1>1, <1>7, <1>9, <1>10, <1>13
    <2>. QED  BY <1>9, <1>13, <2>1, <2>2 DEF Loaded
  <1>. QED  BY <1>8, <1>13, <1>14 DEF pared

\* Narrowing bruns what is held within the ceiling, and leaves the cap as it is.
LEMMA NarrowFits ==
  ASSUME NEW rings \in Runs, IsFiniteSet(G!HasRun(rings)), NEW capped \in BOOLEAN, CapOn(rings, capped),
         NEW many \in Nat, many = G!HeldOf(rings), many > LogCeiling
  PROVE  LET left == G!NarrowRuns(rings, many)
         IN  /\ left \in Runs /\ IsFiniteSet(G!HasRun(left)) /\ CapOn(left, capped)
             /\ G!HeldOf(left) <= LogCeiling
  <1>. DEFINE even == LogCeiling \div G!Cardinality(G!HasRun(rings))
              share == IF even > MinEntries THEN even ELSE MinEntries
              narrow == G!Each(rings, LAMBDA r : G!NarrowTo(r, share))
              left == G!Quietest(narrow, LogCeiling, G!HeldOf)
  <1>0. LogCeiling \in Nat /\ MinEntries \in Nat /\ MinEntries >= 1
    BY TrafficAssumption DEF G!LogAssumption
  <1>1. G!HasRun(rings) # {}
    <2>. SUFFICES ASSUME G!HasRun(rings) = {}  PROVE FALSE
      OBVIOUS
    <2>1. \A t \in Logged : rings[t].items = <<>> /\ <<>> \in Seq(Entry)
      BY NothingHeld DEF G!HasRun
    <2>2. Pile(Held(rings)) = {}
      <3>1. \A t \in Logged : DOMAIN rings[t].items = {}
        BY <2>1
      <3>2. DOMAIN Held(rings) = Logged /\ \A t \in Logged : Held(rings)[t] = {}
        BY <3>1 DEF Held
      <3>. QED  BY <3>2 DEF Pile
    <2>3. many = 0
      BY <2>2, SumsArePiles, FS_EmptySet
    <2>. QED  BY <1>0, <2>3
  <1>2. G!NarrowRuns(rings, many) = left
    <2>1. ~(many <= LogCeiling)
      BY <1>0
    <2>. QED  BY <1>1, <2>1 DEF G!NarrowRuns, G!Quietest, G!Each
  <1>3. even \in Nat /\ share \in Nat
    <2>1. G!Cardinality(G!HasRun(rings)) = Cardinality(G!HasRun(rings))
      BY SameCount
    <2>2. Cardinality(G!HasRun(rings)) \in Nat /\ Cardinality(G!HasRun(rings)) # 0
      BY <1>1, FS_CardinalityType, FS_EmptySet
    <2>3. \A n \in Nat : n # 0 => LogCeiling \div n \in Nat
      BY <1>0
    <2>. QED  BY <1>0, <2>1, <2>2, <2>3
  <1>4. \A t \in Logged : narrow[t] = IF rings[t] = G!NoRun THEN G!NoRun ELSE G!NarrowTo(rings[t], share)
    BY DEF G!Each
  <1>. HIDE DEF share, even
  <1>5. ASSUME NEW t \in Logged
        PROVE  LET r == G!NarrowTo(rings[t], share)
               IN  /\ r \in LogRun /\ r.maxBytes = rings[t].maxBytes
                   /\ r.items = G!Fit(rings[t].items, share, None)
                   /\ G!Heft(rings[t].items) <= TopicBytes \/ Len(rings[t].items) = 1
                        => G!Heft(r.items) <= TopicBytes \/ Len(r.items) = 1
    <2>. DEFINE r == G!NarrowTo(rings[t], share)
                items == rings[t].items
                fit == G!Fit(items, share, None)
    <2>1. rings[t] \in LogRun /\ items \in Seq(Entry) /\ Len(items) \in Nat /\ G!Heft(items) \in Nat
      BY OneRun DEF Runs
    <2>2. r = [rings[t] EXCEPT !.maxItems = share, !.items = fit]
      BY DEF G!NarrowTo
    <2>3. TopicBytes \in Nat
      BY TrafficAssumption DEF G!LogAssumption
    <2>. HIDE DEF items
    <2>4. fit \in Seq(Entry) /\ Len(fit) <= Len(items) /\ G!Heft(fit) <= G!Heft(items)
      BY <1>3, <2>1, FitKeeps
    <2>. HIDE DEF fit
    <2>5. r \in LogRun /\ r.maxBytes = rings[t].maxBytes /\ r.items = fit
      BY <1>3, <2>1, <2>2, <2>4 DEF LogRun
    <2>. HIDE DEF r
    <2>6. Len(fit) \in Nat /\ G!Heft(fit) \in Nat /\ (fit = <<>> => G!Heft(fit) = 0)
      BY <2>4, HeftIsWeight
    <2>7. Len(fit) = 0 => fit = <<>>
      BY <2>4
    <2>8. G!Heft(items) <= TopicBytes \/ Len(items) = 1 => G!Heft(fit) <= TopicBytes \/ Len(fit) = 1
      BY <2>1, <2>3, <2>4, <2>6, <2>7
    <2>. QED  BY <2>5, <2>8 DEF items, fit, r
  <1>. HIDE DEF narrow, left
  <1>6. narrow \in Runs
    <2>1. DOMAIN narrow = Logged /\ narrow = [t \in DOMAIN narrow |-> narrow[t]]
      BY DEF narrow, G!Each
    <2>2. \A t \in Logged : narrow[t] \in LogRun
      BY <1>4, <1>5, NothingHeld
    <2>. QED  BY <2>1, <2>2 DEF Runs
  <1>7. Shorter(narrow, rings)
    <2>1. \A t \in Logged : rings[t] # G!NoRun =>
            \E most \in Nat : \E heaviest : narrow[t].items = G!Fit(rings[t].items, most, heaviest)
      BY <1>3, <1>4, <1>5
    <2>. QED  BY <1>4, <1>6, <2>1, EachIsShorter
  <1>8. IsFiniteSet(G!HasRun(narrow))
    BY <1>6, <1>7, ShorterIsLess
  <1>9. CapOn(narrow, capped)
    <2>. SUFFICES ASSUME NEW t \in G!HasRun(narrow)
                  PROVE  /\ narrow[t].maxBytes = IF capped THEN TopicBytes ELSE None
                         /\ capped => G!Heft(narrow[t].items) <= TopicBytes \/ Len(narrow[t].items) = 1
      BY DEF CapOn
    <2>1. t \in Logged /\ t \in G!HasRun(rings) /\ narrow[t] = G!NarrowTo(rings[t], share)
      BY <1>4 DEF G!HasRun
    <2>2. rings[t].maxBytes = IF capped THEN TopicBytes ELSE None
      BY <2>1 DEF CapOn
    <2>3. capped => G!Heft(rings[t].items) <= TopicBytes \/ Len(rings[t].items) = 1
      BY <2>1 DEF CapOn
    <2>. QED  BY <1>5, <2>1, <2>2, <2>3
  <1>10. left \in Runs /\ (\E K : left = G!Only(narrow, K)) /\ G!HeldOf(left) <= LogCeiling
    BY <1>0, <1>6, <1>8, QuietestFits DEF left
  <1>11. IsFiniteSet(G!HasRun(left))
    BY <1>6, <1>8, <1>10, SomeAreShorter, ShorterIsLess
  <1>12. CapOn(left, capped)
    BY <1>6, <1>9, <1>10, CapOnSome
  <1>. QED  BY <1>2, <1>10, <1>11, <1>12

\* One run changes, and the sums by what it has grown or shrunk.
LEMMA OneRunChanges ==
  ASSUME NEW rings \in Runs, IsFiniteSet(G!HasRun(rings)), NEW t \in Logged, NEW r \in LogRun
  PROVE  LET now == [rings EXCEPT ![t] = r]
         IN  /\ now \in Runs /\ IsFiniteSet(G!HasRun(now))
             /\ G!HeldOf(now) = G!HeldOf(rings) - Len(rings[t].items) + Len(r.items)
             /\ G!HeldWeight(now) = G!HeldWeight(rings) - G!Heft(rings[t].items) + G!Heft(r.items)
  <1>. DEFINE now == [rings EXCEPT ![t] = r]
  <1>1. now \in Runs /\ now[t] = r /\ \A u \in Logged : u # t => now[u] = rings[u]
    BY DEF Runs
  <1>. HIDE DEF now
  <1>2. IsFiniteSet(G!HasRun(now))
    <2>1. G!HasRun(now) \subseteq G!HasRun(rings) \cup {t}
      BY <1>1 DEF G!HasRun
    <2>2. IsFiniteSet(G!HasRun(rings) \cup {t})
      BY FS_AddElement
    <2>. QED  BY <2>1, <2>2, FS_Subset
  <1>3. /\ DOMAIN Held(rings) = Logged /\ DOMAIN Held(now) = Logged
        /\ DOMAIN Borne(rings) = Logged /\ DOMAIN Borne(now) = Logged
        /\ \A u \in Logged : u # t => Held(now)[u] = Held(rings)[u] /\ Borne(now)[u] = Borne(rings)[u]
    BY <1>1 DEF Held, Borne
  <1>4. /\ IsFiniteSet(Held(rings)[t]) /\ Cardinality(Held(rings)[t]) = Len(rings[t].items)
        /\ IsFiniteSet(Held(now)[t]) /\ Cardinality(Held(now)[t]) = Len(r.items)
        /\ IsFiniteSet(Borne(rings)[t]) /\ Cardinality(Borne(rings)[t]) = G!Heft(rings[t].items)
        /\ IsFiniteSet(Borne(now)[t]) /\ Cardinality(Borne(now)[t]) = G!Heft(r.items)
    BY <1>1, OneRun
  <1>5. /\ IsFiniteSet(Pile(Held(rings))) /\ IsFiniteSet(Pile(Borne(rings)))
        /\ G!HeldOf(rings) = Cardinality(Pile(Held(rings)))
        /\ G!HeldWeight(rings) = Cardinality(Pile(Borne(rings)))
        /\ G!HeldOf(now) = Cardinality(Pile(Held(now)))
        /\ G!HeldWeight(now) = Cardinality(Pile(Borne(now)))
    BY <1>1, <1>2, SumsArePiles
  <1>6. Cardinality(Pile(Held(now))) = Cardinality(Pile(Held(rings))) - Len(rings[t].items) + Len(r.items)
    BY <1>3, <1>4, <1>5, OneChanges
  <1>7. Cardinality(Pile(Borne(now))) =
          Cardinality(Pile(Borne(rings))) - G!Heft(rings[t].items) + G!Heft(r.items)
    BY <1>3, <1>4, <1>5, OneChanges
  <1>. QED  BY <1>1, <1>2, <1>5, <1>6, <1>7 DEF now

-----------------------------------------------------------------------------
(* The steps of the log.                                                     *)

\* A message in its run: the run grows by it and gives way to its own bounds.
LEMMA PushFits ==
  ASSUME NEW r \in LogRun, NEW one \in Entry
  PROVE  LET now == G!PushOn(r, one)
         IN  /\ now \in LogRun /\ now.maxBytes = r.maxBytes /\ now.maxItems = r.maxItems
             /\ r.maxBytes = TopicBytes => G!Heft(now.items) <= TopicBytes \/ Len(now.items) = 1
  <1>. DEFINE more == Append(r.items, one)
              fit == G!Fit(more, r.maxItems, r.maxBytes)
              now == G!PushOn(r, one)
  <1>1. r.items \in Seq(Entry) /\ r.maxItems \in Nat /\ more \in Seq(Entry)
    BY DEF LogRun
  <1>2. now = [r EXCEPT !.items = fit]
    BY DEF G!PushOn
  <1>3. TopicBytes \in Nat /\ None \notin Nat
    BY TrafficAssumption DEF G!LogAssumption
  <1>. HIDE DEF more
  <1>4. /\ fit \in Seq(Entry)
        /\ r.maxBytes = None \/ Len(fit) <= 1 \/ G!Heft(fit) <= r.maxBytes
    BY <1>1, FitKeeps
  <1>. HIDE DEF fit
  <1>5. /\ now \in LogRun /\ now.maxBytes = r.maxBytes /\ now.maxItems = r.maxItems
        /\ now.items = fit
    BY <1>2, <1>4 DEF LogRun
  <1>6. ASSUME r.maxBytes = TopicBytes  PROVE G!Heft(fit) <= TopicBytes \/ Len(fit) = 1
    <2>1. Len(fit) \in Nat /\ (Len(fit) = 0 => fit = <<>>)
      BY <1>4
    <2>2. fit = <<>> => G!Heft(fit) = 0
      BY <1>4, HeftIsWeight
    <2>3. Len(fit) <= 1 => Len(fit) = 0 \/ Len(fit) = 1
      <3>1. \A n \in Nat : n <= 1 => n = 0 \/ n = 1
        OBVIOUS
      <3>. QED  BY <2>1, <3>1, Zenon
    <2>4. Len(fit) <= 1 \/ G!Heft(fit) <= TopicBytes
      BY <1>3, <1>4, <1>6
    <2>5. Len(fit) = 0 => G!Heft(fit) <= TopicBytes
      BY <1>3, <2>1, <2>2
    <2>. QED  BY <2>3, <2>4, <2>5
  <1>. HIDE DEF now
  <1>. QED  BY <1>5, <1>6 DEF now

\* What a message filed leaves before the budget is looked at: the runs with its own grown, or
\* those narrowed where they hold too much.
OneFiled(filed, rings, state, topic) ==
  /\ Loaded(filed) /\ filed.budget = state.budget /\ filed.capped = state.capped
  /\ rings \in Runs /\ IsFiniteSet(G!HasRun(rings))
  /\ \A t \in Logged : t # topic => rings[t] = state.runs[t]
  /\ rings[topic].maxItems = IF state.runs[topic] = G!NoRun THEN Depth ELSE state.runs[topic].maxItems
  /\ filed.runs = IF G!HeldOf(rings) > LogCeiling THEN G!NarrowRuns(rings, G!HeldOf(rings)) ELSE rings

\* Filing a message is this, and then the budget.
LEMMA FilesOne ==
  ASSUME NEW state, LogHolds(state), NEW topic \in Logged, NEW one \in Entry
  PROVE  \E filed, rings :
           /\ OneFiled(filed, rings, state, topic)
           /\ G!File(state, topic, one) =
                IF filed.weight > state.budget THEN G!CutBack(filed, state.budget) ELSE filed
  <1>. DEFINE begun == [items |-> <<>>, maxItems |-> Depth,
                        maxBytes |-> IF state.capped THEN TopicBytes ELSE None]
              had == IF state.runs[topic] = G!NoRun THEN begun ELSE state.runs[topic]
              now == G!PushOn(had, one)
              rings == [state.runs EXCEPT ![topic] = now]
              many == (state.held + Len(now.items)) - Len(had.items)
              heavy == (state.weight + G!Heft(now.items)) - G!Heft(had.items)
              left == G!NarrowRuns(rings, many)
              filed == IF many > LogCeiling
                       THEN [state EXCEPT !.runs = left, !.held = G!HeldOf(left),
                                          !.weight = G!HeldWeight(left)]
                       ELSE [state EXCEPT !.runs = rings, !.held = many, !.weight = heavy]
  <1>1. G!File(state, topic, one) =
          IF filed.weight > state.budget THEN G!CutBack(filed, state.budget) ELSE filed
    BY DEF G!File
  <1>2. /\ state \in LogStates /\ state.runs \in Runs /\ IsFiniteSet(G!HasRun(state.runs))
        /\ state.held = G!HeldOf(state.runs) /\ state.weight = G!HeldWeight(state.runs)
        /\ state.budget \in Nat /\ CapOn(state.runs, state.capped)
        /\ state.weight <= state.budget /\ state.held <= LogCeiling
    BY DEF LogHolds, Loaded, LogStates
  <1>3. state.capped \in BOOLEAN
    BY <1>2, Zenon DEF LogStates
  <1>4. Depth \in Nat /\ LogCeiling \in Nat /\ TopicBytes \in Nat /\ None \notin Nat
    BY TrafficAssumption DEF G!LogAssumption
  <1>5. begun \in LogRun
    BY <1>4 DEF LogRun
  <1>6. /\ had \in LogRun /\ Len(had.items) = Len(state.runs[topic].items)
        /\ G!Heft(had.items) = G!Heft(state.runs[topic].items)
        /\ had.maxBytes = IF state.capped THEN TopicBytes ELSE None
        /\ had.maxItems = IF state.runs[topic] = G!NoRun THEN Depth ELSE state.runs[topic].maxItems
    <2>1. CASE state.runs[topic] = G!NoRun
      <3>1. had = begun /\ state.runs[topic].items = <<>> /\ begun.items = <<>>
        BY <2>1, NothingHeld
      <3>2. begun.maxBytes = (IF state.capped THEN TopicBytes ELSE None) /\ begun.maxItems = Depth
        OBVIOUS
      <3>. HIDE DEF begun, had
      <3>. QED  BY <1>5, <2>1, <3>1, <3>2
    <2>2. CASE state.runs[topic] # G!NoRun
      <3>1. had = state.runs[topic] /\ had \in LogRun
        BY <1>2, <2>2 DEF Runs
      <3>2. topic \in G!HasRun(state.runs)
        BY <2>2 DEF G!HasRun
      <3>. HIDE DEF had
      <3>. QED  BY <1>2, <2>2, <3>1, <3>2 DEF CapOn
    <2>. QED  BY <2>1, <2>2
  <1>. HIDE DEF begun, had
  <1>7. /\ now \in LogRun /\ now.maxBytes = had.maxBytes /\ now.maxItems = had.maxItems
        /\ had.maxBytes = TopicBytes => G!Heft(now.items) <= TopicBytes \/ Len(now.items) = 1
    BY <1>6, PushFits
  <1>. HIDE DEF now
  <1>8. /\ rings \in Runs /\ IsFiniteSet(G!HasRun(rings))
        /\ G!HeldOf(rings) = G!HeldOf(state.runs) - Len(state.runs[topic].items) + Len(now.items)
        /\ G!HeldWeight(rings) = G!HeldWeight(state.runs) - G!Heft(state.runs[topic].items)
                                   + G!Heft(now.items)
    BY <1>2, <1>7, OneRunChanges
  <1>9. rings[topic] = now /\ \A t \in Logged : t # topic => rings[t] = state.runs[t]
    BY <1>2 DEF Runs
  <1>. HIDE DEF rings
  <1>10. many = G!HeldOf(rings) /\ many \in Nat /\ heavy = G!HeldWeight(rings) /\ heavy \in Nat
    <2>1. /\ Len(now.items) \in Int /\ Len(state.runs[topic].items) \in Int
          /\ G!Heft(now.items) \in Int /\ G!Heft(state.runs[topic].items) \in Int
      <3>1. now.items \in Seq(Entry) /\ state.runs[topic].items \in Seq(Entry)
        BY <1>2, <1>7 DEF LogRun, Runs
      <3>. QED  BY <3>1, HeftIsWeight
    <2>2. G!HeldOf(state.runs) \in Nat /\ G!HeldWeight(state.runs) \in Nat
          /\ G!HeldOf(rings) \in Nat /\ G!HeldWeight(rings) \in Nat
      BY <1>2, <1>8, SumsArePiles
    <2>3. \A a, b, c \in Int : (a + b) - c = a - c + b
      OBVIOUS
    <2>4. many = (G!HeldOf(state.runs) + Len(now.items)) - Len(state.runs[topic].items)
      BY <1>2, <1>6
    <2>5. heavy = (G!HeldWeight(state.runs) + G!Heft(now.items)) - G!Heft(state.runs[topic].items)
      BY <1>2, <1>6
    <2>. HIDE DEF many, heavy
    <2>6. many = G!HeldOf(rings)
      <3>1. G!HeldOf(state.runs) \in Int
        BY <2>2
      <3>2. (G!HeldOf(state.runs) + Len(now.items)) - Len(state.runs[topic].items)
              = G!HeldOf(state.runs) - Len(state.runs[topic].items) + Len(now.items)
        BY <2>1, <2>3, <3>1, Zenon
      <3>. QED  BY <1>8, <2>4, <3>2, Zenon
    <2>7. heavy = G!HeldWeight(rings)
      BY <1>8, <2>1, <2>2, <2>3, <2>5
    <2>. QED  BY <2>2, <2>6, <2>7
  <1>. HIDE DEF many, heavy
  <1>11. CapOn(rings, state.capped)
    <2>. SUFFICES ASSUME NEW t \in G!HasRun(rings)
                  PROVE  /\ rings[t].maxBytes = IF state.capped THEN TopicBytes ELSE None
                         /\ state.capped => G!Heft(rings[t].items) <= TopicBytes \/ Len(rings[t].items) = 1
      BY DEF CapOn
    <2>1. CASE t = topic
      BY <1>6, <1>7, <1>9, <2>1
    <2>2. CASE t # topic
      <3>1. t \in G!HasRun(state.runs) /\ rings[t] = state.runs[t]
        BY <1>9, <2>2 DEF G!HasRun
      <3>. QED  BY <1>2, <3>1 DEF CapOn
    <2>. QED  BY <2>1, <2>2
  <1>12. /\ Loaded(filed) /\ filed.budget = state.budget /\ filed.capped = state.capped
         /\ filed.runs = IF many > LogCeiling THEN left ELSE rings
    <2>1. CASE many > LogCeiling
      <3>1. /\ left \in Runs /\ IsFiniteSet(G!HasRun(left)) /\ CapOn(left, state.capped)
            /\ G!HeldOf(left) <= LogCeiling
        BY <1>3, <1>8, <1>10, <1>11, <2>1, NarrowFits
      <3>2. G!HeldOf(left) \in Nat /\ G!HeldWeight(left) \in Nat
        BY <3>1, SumsArePiles
      <3>. HIDE DEF left
      <3>3. /\ filed.runs = left /\ filed.held = G!HeldOf(left) /\ filed.weight = G!HeldWeight(left)
            /\ filed.budget = state.budget /\ filed.capped = state.capped /\ filed \in LogStates
        BY <1>2, <2>1, <3>1, <3>2 DEF LogStates
      <3>. HIDE DEF filed
      <3>4. CapOn(filed.runs, filed.capped)
        BY <3>1, <3>3, Zenon
      <3>. QED  BY <2>1, <3>1, <3>3, <3>4 DEF Loaded
    <2>2. CASE ~(many > LogCeiling)
      <3>1. /\ filed.runs = rings /\ filed.held = many /\ filed.weight = heavy
            /\ filed.budget = state.budget /\ filed.capped = state.capped /\ filed \in LogStates
        BY <1>2, <1>8, <1>10, <2>2 DEF LogStates
      <3>. HIDE DEF filed
      <3>2. CapOn(filed.runs, filed.capped)
        BY <1>11, <3>1, Zenon
      <3>3. many <= LogCeiling
        BY <1>4, <1>10, <2>2
      <3>4. Loaded(filed)
        BY <1>8, <1>10, <3>1, <3>2, <3>3 DEF Loaded
      <3>. QED  BY <2>2, <3>1, <3>4
    <2>. QED  BY <2>1, <2>2
  <1>. HIDE DEF filed
  <1>13. filed.runs = IF G!HeldOf(rings) > LogCeiling THEN G!NarrowRuns(rings, G!HeldOf(rings)) ELSE rings
    BY <1>10, <1>12
  <1>14. rings[topic].maxItems = IF state.runs[topic] = G!NoRun THEN Depth ELSE state.runs[topic].maxItems
    BY <1>6, <1>7, <1>9
  <1>15. OneFiled(filed, rings, state, topic)
    BY <1>8, <1>9, <1>12, <1>13, <1>14 DEF OneFiled
  <1>. QED  BY <1>1, <1>15

\* Filing a message keeps what holds of the log.
LEMMA FilingHolds ==
  ASSUME NEW state, LogHolds(state), NEW topic \in Logged, NEW one \in Entry
  PROVE  LogHolds(G!File(state, topic, one)) /\ G!File(state, topic, one).budget = state.budget
  <1>1. PICK filed, rings :
          /\ OneFiled(filed, rings, state, topic)
          /\ G!File(state, topic, one) =
               IF filed.weight > state.budget THEN G!CutBack(filed, state.budget) ELSE filed
    BY FilesOne
  <1>2. Loaded(filed) /\ filed.budget = state.budget
    BY <1>1 DEF OneFiled
  <1>3. state.budget \in Nat
    BY DEF LogHolds, Loaded, LogStates
  <1>4. CASE filed.weight > state.budget
    <2>1. /\ Loaded(G!CutBack(filed, state.budget))
          /\ G!CutBack(filed, state.budget).weight <= state.budget
          /\ G!CutBack(filed, state.budget).budget = state.budget
      BY <1>2, <1>3, CutBackFits
    <2>. QED  BY <1>1, <1>4, <2>1 DEF LogHolds
  <1>5. CASE ~(filed.weight > state.budget)
    <2>1. filed.weight \in Nat
      BY <1>2 DEF Loaded, LogStates
    <2>2. filed.weight <= filed.budget
      BY <1>2, <1>3, <1>5, <2>1
    <2>. QED  BY <1>1, <1>2, <1>5, <2>2 DEF LogHolds
  <1>. QED  BY <1>4, <1>5

\* The inductive invariant of the log.
LogInv == LogHolds(log) /\ nextId \in Nat

\* The log filed in one message after another, and where it leads.
Filings(n, f) ==
  /\ f[0] = log /\ log' = f[n] /\ nextId' = nextId + n
  /\ \A k \in 0..n : LogHolds(f[k])
  /\ \A k \in 1..n : \E topic \in Logged : \E a \in Entry : f[k] = G!File(f[k - 1], topic, a)

\* And a batch is that.
LEMMA BatchIsFiled ==
  ASSUME LogInv, G!AppendReceived
  PROVE  \E n \in Nat : \E f : Filings(n, f)
  <1>. DEFINE Files(n, said) ==
                /\ LET one(k) == [id |-> nextId + k - 1, weight |-> said[k][2]]
                       filed[k \in 0..n] == IF k = 0 THEN log
                                            ELSE LET before == filed[k - 1]
                                                 IN  G!File(before, said[k][1], one(k))
                   IN  log' = filed[n]
                /\ nextId' = nextId + n
  <1>0. PICK n \in 1..MaxBatch : \E said \in [1..n -> Logged \X Weights] : Files(n, said)
    BY DEF G!AppendReceived
  <1>1. PICK said \in [1..n -> Logged \X Weights] : Files(n, said)
    BY <1>0
  <1>. DEFINE one(k) == [id |-> nextId + k - 1, weight |-> said[k][2]]
              filed == CHOOSE g : g = [k \in 0..n |-> IF k = 0 THEN log
                                                      ELSE G!File(g[k - 1], said[k][1], one(k))]
              X == {s \in LogStates : LogHolds(s)}
              step == [p \in (1..n) \X X |-> G!File(p[2], said[p[1]][1], one(p[1]))]
  <1>2. n \in Nat /\ nextId \in Nat /\ log \in X
    BY DEF LogInv, LogHolds, Loaded
  <1>3. ASSUME NEW k \in 1..n  PROVE said[k][1] \in Logged /\ one(k) \in Entry
    <2>1. said[k] \in Logged \X Weights
      OBVIOUS
    <2>2. said[k][1] \in Logged /\ said[k][2] \in 0..Heaviest
      BY <2>1, HeaviestIs
    <2>3. nextId + k - 1 \in Nat
      BY <1>2
    <2>. QED  BY <2>2, <2>3 DEF Entry
  <1>4. ASSUME NEW s \in X, NEW k \in 1..n  PROVE G!File(s, said[k][1], one(k)) \in X
    <2>1. LogHolds(s)
      OBVIOUS
    <2>. HIDE DEF one
    <2>2. LogHolds(G!File(s, said[k][1], one(k)))
      BY <1>3, <2>1, FilingHolds
    <2>. QED  BY <2>2 DEF LogHolds, Loaded
  <1>5. step \in [(1..n) \X X -> X]
    <2>1. \A p \in (1..n) \X X : G!File(p[2], said[p[1]][1], one(p[1])) \in X
      <3>. TAKE p \in (1..n) \X X
      <3>1. p[1] \in 1..n /\ p[2] \in X
        OBVIOUS
      <3>. HIDE DEF X, one
      <3>. QED  BY <1>4, <3>1
    <2>. HIDE DEF X, one
    <2>. QED  BY <2>1
  <1>. HIDE DEF X, one
  <1>6. PICK f : Goes(f, X, n, log, step)
    <2>. HIDE DEF step
    <2>. QED  BY <1>2, <1>5, StepByStep
  <1>7. f \in [0..n -> X] /\ f[0] = log /\ \A k \in 1..n : f[k] = step[<<k, f[k - 1]>>]
    BY <1>6 DEF Goes
  <1>8. \A k \in 1..n : f[k] = G!File(f[k - 1], said[k][1], one(k))
    <2>. SUFFICES ASSUME NEW k \in 1..n  PROVE f[k] = G!File(f[k - 1], said[k][1], one(k))
      OBVIOUS
    <2>1. k - 1 \in 0..n /\ f[k - 1] \in X
      BY <1>2, <1>7
    <2>2. <<k, f[k - 1]>> \in (1..n) \X X
      BY <2>1
    <2>3. step[<<k, f[k - 1]>>] = G!File(f[k - 1], said[k][1], one(k))
      BY <2>2
    <2>. QED  BY <1>7, <2>3
  <1>. HIDE DEF step
  <1>9. f = [k \in 0..n |-> IF k = 0 THEN log ELSE G!File(f[k - 1], said[k][1], one(k))]
    <2>1. \A k \in 0..n : k = 0 \/ k \in 1..n
      BY <1>2
    <2>. QED  BY <1>7, <1>8, <2>1
  <1>10. filed = [k \in 0..n |-> IF k = 0 THEN log ELSE G!File(filed[k - 1], said[k][1], one(k))]
    BY <1>9
  <1>11. log' = filed[n] /\ nextId' = nextId + n
    BY <1>1 DEF one
  <1>. HIDE DEF filed
  <1>. DEFINE T == {k \in Nat : k <= n => filed[k] = f[k]}
  <1>12. 0 \in T
    BY <1>2, <1>7, <1>10
  <1>13. ASSUME NEW k \in Nat, k \in T  PROVE k + 1 \in T
    <2>. SUFFICES ASSUME k + 1 <= n  PROVE filed[k + 1] = f[k + 1]
      OBVIOUS
    <2>1. k + 1 \in 0..n /\ k + 1 \in 1..n /\ k + 1 # 0 /\ (k + 1) - 1 = k /\ filed[k] = f[k]
      BY <1>2, <1>13
    <2>2. filed[k + 1] = G!File(filed[k], said[k + 1][1], one(k + 1))
      BY <1>10, <2>1
    <2>3. f[k + 1] = G!File(f[k], said[k + 1][1], one(k + 1))
      BY <1>8, <2>1
    <2>. QED  BY <2>1, <2>2, <2>3
  <1>14. filed[n] = f[n]
    <2>1. Nat \subseteq T
      <3>. HIDE DEF T
      <3>. QED  BY <1>12, <1>13, Numbers
    <2>. QED  BY <1>2, <2>1
  <1>15. \A k \in 0..n : LogHolds(f[k])
    BY <1>7 DEF X
  <1>16. \A k \in 1..n : \E topic \in Logged : \E a \in Entry : f[k] = G!File(f[k - 1], topic, a)
    BY <1>3, <1>8
  <1>17. n \in Nat /\ f[0] = log /\ log' = f[n] /\ nextId' = nextId + n
    BY <1>2, <1>7, <1>11, <1>14
  <1>18. Filings(n, f)
    BY <1>15, <1>16, <1>17 DEF Filings
  <1>. QED  BY <1>17, <1>18, Zenon

\* A batch keeps what holds of the log.
LEMMA BatchHolds ==
  ASSUME LogInv, G!AppendReceived
  PROVE  LogInv'
  <1>1. PICK n \in Nat : \E f : Filings(n, f)
    BY BatchIsFiled
  <1>2. LogHolds(log') /\ nextId' = nextId + n
    BY <1>1 DEF Filings
  <1>. QED  BY <1>2 DEF LogInv

\* The runs of some topics, and the sums of the others.
LEMMA OthersLeft ==
  ASSUME NEW rings \in Runs, IsFiniteSet(G!HasRun(rings)), NEW K
  PROVE  /\ G!HeldOf(G!Only(rings, Logged \ K)) = G!HeldOf(rings) - G!HeldOf(G!Only(rings, K))
         /\ G!HeldWeight(G!Only(rings, Logged \ K)) = G!HeldWeight(rings) - G!HeldWeight(G!Only(rings, K))
         /\ IsFiniteSet(G!HasRun(G!Only(rings, Logged \ K))) /\ IsFiniteSet(G!HasRun(G!Only(rings, K)))
  <1>. DEFINE in == G!Only(rings, K)
              out == G!Only(rings, Logged \ K)
  <1>1. /\ in \in Runs /\ out \in Runs /\ Shorter(in, rings) /\ Shorter(out, rings)
        /\ \A t \in Logged : in[t] = IF t \in K THEN rings[t] ELSE G!NoRun
        /\ \A t \in Logged : out[t] = IF t \in Logged \ K THEN rings[t] ELSE G!NoRun
    BY SomeAreShorter
  <1>. HIDE DEF in, out
  <1>2. IsFiniteSet(G!HasRun(in)) /\ IsFiniteSet(G!HasRun(out))
    BY <1>1, ShorterIsLess
  <1>3. \A t \in Logged : DOMAIN G!NoRun.items = {} /\ G!Units(G!NoRun.items) = {}
    <2>1. G!NoRun.items = <<>> /\ <<>> \in Seq(Entry)
      BY NothingHeld
    <2>2. DOMAIN <<>> = {} /\ G!Units(<<>>) = {}
      BY DEF G!Units
    <2>. QED  BY <2>1, <2>2
  <1>4. \A t \in Logged : \/ in[t] = rings[t] /\ out[t] = G!NoRun
                          \/ in[t] = G!NoRun /\ out[t] = rings[t]
    BY <1>1
  <1>5. /\ DOMAIN Held(rings) = Logged /\ DOMAIN Held(in) = Logged /\ DOMAIN Held(out) = Logged
        /\ DOMAIN Borne(rings) = Logged /\ DOMAIN Borne(in) = Logged /\ DOMAIN Borne(out) = Logged
    BY DEF Held, Borne
  <1>6. \A t \in Logged : Held(in)[t] \cup Held(out)[t] = Held(rings)[t]
                          /\ Held(in)[t] \cap Held(out)[t] = {}
    BY <1>3, <1>4 DEF Held
  <1>7. \A t \in Logged : Borne(in)[t] \cup Borne(out)[t] = Borne(rings)[t]
                          /\ Borne(in)[t] \cap Borne(out)[t] = {}
    BY <1>3, <1>4 DEF Borne
  <1>8. IsFiniteSet(Pile(Held(rings))) /\ IsFiniteSet(Pile(Borne(rings)))
    BY SumsArePiles
  <1>9. Cardinality(Pile(Held(rings))) = Cardinality(Pile(Held(in))) + Cardinality(Pile(Held(out)))
    BY <1>5, <1>6, <1>8, PileSplits
  <1>10. Cardinality(Pile(Borne(rings))) = Cardinality(Pile(Borne(in))) + Cardinality(Pile(Borne(out)))
    BY <1>5, <1>7, <1>8, PileSplits
  <1>11. /\ G!HeldOf(rings) = G!HeldOf(in) + G!HeldOf(out)
         /\ G!HeldWeight(rings) = G!HeldWeight(in) + G!HeldWeight(out)
         /\ {G!HeldOf(in), G!HeldOf(out), G!HeldWeight(in), G!HeldWeight(out)} \subseteq Nat
    BY <1>1, <1>2, <1>9, <1>10, SumsArePiles
  <1>12. \A a, b \in Nat : b = (a + b) - a
    OBVIOUS
  <1>. QED  BY <1>2, <1>11, <1>12 DEF in, out

\* Topics gone take with them what they held and weighed.
LEMMA ForgettingHolds ==
  ASSUME LogInv, G!ForgetTopics
  PROVE  LogInv'
  <1>1. PICK gone \in SUBSET Logged :
          /\ log' = [log EXCEPT !.runs = G!Only(log.runs, Logged \ gone),
                                !.held = log.held - G!HeldOf(G!Only(log.runs, gone)),
                                !.weight = log.weight - G!HeldWeight(G!Only(log.runs, gone))]
          /\ nextId' = nextId
    BY DEF G!ForgetTopics
  <1>. DEFINE rings == log.runs
              left == G!Only(rings, Logged \ gone)
  <1>2. /\ log \in LogStates /\ rings \in Runs /\ IsFiniteSet(G!HasRun(rings))
        /\ log.held = G!HeldOf(rings) /\ log.weight = G!HeldWeight(rings)
        /\ log.budget \in Nat /\ CapOn(rings, log.capped)
        /\ log.weight <= log.budget /\ log.held <= LogCeiling /\ LogCeiling \in Nat
    BY TrafficAssumption DEF LogInv, LogHolds, Loaded, LogStates, G!LogAssumption
  <1>3. left \in Runs /\ Shorter(left, rings)
    BY <1>2, SomeAreShorter
  <1>4. IsFiniteSet(G!HasRun(left)) /\ G!HeldOf(left) <= G!HeldOf(rings)
        /\ G!HeldWeight(left) <= G!HeldWeight(rings)
    BY <1>2, <1>3, ShorterIsLess
  <1>5. /\ G!HeldOf(left) = G!HeldOf(rings) - G!HeldOf(G!Only(rings, gone))
        /\ G!HeldWeight(left) = G!HeldWeight(rings) - G!HeldWeight(G!Only(rings, gone))
    BY <1>2, OthersLeft
  <1>6. CapOn(left, log.capped)
    BY <1>2, CapOnSome
  <1>7. G!HeldOf(left) \in Nat /\ G!HeldWeight(left) \in Nat
        /\ G!HeldOf(rings) \in Nat /\ G!HeldWeight(rings) \in Nat
    BY <1>2, <1>3, <1>4, SumsArePiles
  <1>8. log' = [log EXCEPT !.runs = left, !.held = G!HeldOf(left), !.weight = G!HeldWeight(left)]
    BY <1>1, <1>2, <1>5
  <1>. HIDE DEF left, rings
  <1>9. /\ log'.runs = left /\ log'.held = G!HeldOf(left) /\ log'.weight = G!HeldWeight(left)
        /\ log'.budget = log.budget /\ log'.capped = log.capped /\ log' \in LogStates
    BY <1>2, <1>3, <1>7, <1>8 DEF LogStates
  <1>10. CapOn(log'.runs, log'.capped)
    BY <1>6, <1>9, Zenon
  <1>11. LogHolds(log')
    BY <1>2, <1>4, <1>7, <1>9, <1>10 DEF LogHolds, Loaded
  <1>. QED  BY <1>1, <1>11 DEF LogInv

\* What a run keeps of its newest is within the cap it was under.
LEMMA NewestKept ==
  ASSUME NEW r \in LogRun
  PROVE  LET now == G!KeepNewest(r)
         IN  /\ now \in LogRun /\ now.maxBytes = r.maxBytes /\ now.items = G!Fit(r.items, 1, None)
             /\ G!Heft(now.items) <= TopicBytes \/ Len(now.items) = 1
  <1>. DEFINE fit == G!Fit(r.items, 1, None)
              now == G!KeepNewest(r)
  <1>1. r.items \in Seq(Entry) /\ TopicBytes \in Nat
    BY TrafficAssumption DEF LogRun, G!LogAssumption
  <1>2. fit \in Seq(Entry) /\ Len(fit) <= 1
    BY <1>1, FitKeeps
  <1>3. now = [r EXCEPT !.items = fit]
    BY DEF G!KeepNewest
  <1>. HIDE DEF fit
  <1>4. now \in LogRun /\ now.maxBytes = r.maxBytes /\ now.items = fit
    BY <1>2, <1>3 DEF LogRun
  <1>5. G!Heft(fit) <= TopicBytes \/ Len(fit) = 1
    <2>1. Len(fit) \in Nat /\ (Len(fit) = 0 => fit = <<>>)
      BY <1>2
    <2>2. fit = <<>> => G!Heft(fit) = 0
      BY <1>2, HeftIsWeight
    <2>3. \A n \in Nat : n <= 1 => n = 0 \/ n = 1
      OBVIOUS
    <2>4. Len(fit) = 0 \/ Len(fit) = 1
      BY <1>2, <2>1, <2>3, Zenon
    <2>5. G!Heft(fit) = 0 => G!Heft(fit) <= TopicBytes
      BY <1>1
    <2>. QED  BY <2>1, <2>2, <2>4, <2>5
  <1>. HIDE DEF now
  <1>. QED  BY <1>4, <1>5 DEF fit, now

\* Clearing a pane takes from the sums what its runs have lost.
LEMMA KeepingHolds ==
  ASSUME LogInv, G!KeepNewestOn
  PROVE  LogInv'
  <1>. DEFINE rings == log.runs
              Kept1(K) == [t \in Logged |-> IF t \in K /\ rings[t] # G!NoRun
                                           THEN G!KeepNewest(rings[t]) ELSE rings[t]]
  <1>1. PICK K \in SUBSET Logged :
          /\ log' = [log EXCEPT !.runs = Kept1(K),
                !.held = log.held - (G!HeldOf(G!Only(rings, K)) - G!HeldOf(G!Only(Kept1(K), K))),
                !.weight = log.weight - (G!HeldWeight(G!Only(rings, K)) - G!HeldWeight(G!Only(Kept1(K), K)))]
          /\ nextId' = nextId
    BY DEF G!KeepNewestOn
  <1>. DEFINE left == Kept1(K)
  <1>2. /\ log \in LogStates /\ rings \in Runs /\ IsFiniteSet(G!HasRun(rings))
        /\ log.held = G!HeldOf(rings) /\ log.weight = G!HeldWeight(rings)
        /\ log.budget \in Nat /\ CapOn(rings, log.capped)
        /\ log.weight <= log.budget /\ log.held <= LogCeiling /\ LogCeiling \in Nat
    BY TrafficAssumption DEF LogInv, LogHolds, Loaded, LogStates, G!LogAssumption
  <1>3. \A t \in Logged : left[t] = IF t \in K /\ rings[t] # G!NoRun
                                    THEN G!KeepNewest(rings[t]) ELSE rings[t]
    OBVIOUS
  <1>4. left \in Runs
    <2>1. \A t \in Logged : rings[t] \in LogRun
      BY <1>2 DEF Runs
    <2>. QED  BY <2>1, NewestKept DEF Runs
  <1>. HIDE DEF left, rings
  <1>5. Shorter(left, rings)
    <2>. SUFFICES ASSUME NEW t \in Logged, left[t] # G!NoRun
                  PROVE  /\ rings[t] # G!NoRun
                         /\ Len(left[t].items) <= Len(rings[t].items)
                         /\ ExistsInjection(G!Units(left[t].items), G!Units(rings[t].items))
      BY DEF Shorter
    <2>1. rings[t] \in LogRun /\ rings[t].items \in Seq(Entry) /\ rings[t] # G!NoRun
      BY <1>2, <1>3, OneRun DEF Runs
    <2>2. CASE t \in K
      <3>1. left[t].items = G!Fit(rings[t].items, 1, None)
        BY <1>3, <2>1, <2>2, NewestKept
      <3>. QED  BY <2>1, <3>1, FitKeeps
    <2>3. CASE t \notin K
      <3>1. left[t] = rings[t] /\ Len(rings[t].items) \in Nat
        BY <1>3, <2>1, <2>3
      <3>. QED  BY <2>1, <3>1, PartsFit
    <2>. QED  BY <2>2, <2>3
  <1>6. /\ IsFiniteSet(G!HasRun(left)) /\ G!HeldOf(left) <= G!HeldOf(rings)
        /\ G!HeldWeight(left) <= G!HeldWeight(rings) /\ G!HasRun(left) \subseteq G!HasRun(rings)
    BY <1>2, <1>4, <1>5, ShorterIsLess
  <1>7. G!Only(left, Logged \ K) = G!Only(rings, Logged \ K)
    BY <1>3 DEF G!Only
  <1>8. /\ G!HeldOf(left) = G!HeldOf(rings) - (G!HeldOf(G!Only(rings, K)) - G!HeldOf(G!Only(left, K)))
        /\ G!HeldWeight(left) =
             G!HeldWeight(rings) - (G!HeldWeight(G!Only(rings, K)) - G!HeldWeight(G!Only(left, K)))
    <2>1. /\ G!HeldOf(G!Only(rings, Logged \ K)) = G!HeldOf(rings) - G!HeldOf(G!Only(rings, K))
          /\ G!HeldWeight(G!Only(rings, Logged \ K)) = G!HeldWeight(rings) - G!HeldWeight(G!Only(rings, K))
          /\ IsFiniteSet(G!HasRun(G!Only(rings, K)))
      BY <1>2, OthersLeft
    <2>2. /\ G!HeldOf(G!Only(rings, Logged \ K)) = G!HeldOf(left) - G!HeldOf(G!Only(left, K))
          /\ G!HeldWeight(G!Only(rings, Logged \ K)) = G!HeldWeight(left) - G!HeldWeight(G!Only(left, K))
          /\ IsFiniteSet(G!HasRun(G!Only(left, K)))
      BY <1>4, <1>6, <1>7, OthersLeft
    <2>3. G!Only(rings, K) \in Runs /\ G!Only(left, K) \in Runs
      BY <1>2, <1>4, SomeAreShorter
    <2>4. {G!HeldOf(rings), G!HeldOf(left), G!HeldOf(G!Only(rings, K)), G!HeldOf(G!Only(left, K)),
           G!HeldWeight(rings), G!HeldWeight(left), G!HeldWeight(G!Only(rings, K)),
           G!HeldWeight(G!Only(left, K))} \subseteq Int
      BY <1>2, <1>4, <1>6, <2>1, <2>2, <2>3, SumsArePiles
    <2>5. \A a, b, c, d \in Int : a - b = c - d => c = a - (b - d)
      OBVIOUS
    <2>. QED  BY <2>1, <2>2, <2>4, <2>5
  <1>9. CapOn(left, log.capped)
    <2>. SUFFICES ASSUME NEW t \in G!HasRun(left)
                  PROVE  /\ left[t].maxBytes = IF log.capped THEN TopicBytes ELSE None
                         /\ log.capped => G!Heft(left[t].items) <= TopicBytes \/ Len(left[t].items) = 1
      BY DEF CapOn
    <2>1. t \in G!HasRun(rings) /\ t \in Logged /\ rings[t] \in LogRun
      BY <1>2, <1>6 DEF G!HasRun, Runs
    <2>2. CASE t \in K
      <3>1. left[t] = G!KeepNewest(rings[t])
        BY <1>3, <2>1, <2>2 DEF G!HasRun
      <3>2. rings[t].maxBytes = IF log.capped THEN TopicBytes ELSE None
        BY <1>2, <2>1 DEF CapOn
      <3>. QED  BY <2>1, <3>1, <3>2, NewestKept
    <2>3. CASE t \notin K
      <3>1. left[t] = rings[t]
        BY <1>3, <2>1, <2>3
      <3>. QED  BY <1>2, <2>1, <3>1 DEF CapOn
    <2>. QED  BY <2>2, <2>3
  <1>10. G!HeldOf(left) \in Nat /\ G!HeldWeight(left) \in Nat
         /\ G!HeldOf(rings) \in Nat /\ G!HeldWeight(rings) \in Nat
    BY <1>2, <1>4, <1>6, SumsArePiles
  <1>11. log' = [log EXCEPT !.runs = left, !.held = G!HeldOf(left), !.weight = G!HeldWeight(left)]
    BY <1>1, <1>2, <1>8 DEF left
  <1>12. /\ log'.runs = left /\ log'.held = G!HeldOf(left) /\ log'.weight = G!HeldWeight(left)
         /\ log'.budget = log.budget /\ log'.capped = log.capped /\ log' \in LogStates
    BY <1>2, <1>4, <1>10, <1>11 DEF LogStates
  <1>13. CapOn(log'.runs, log'.capped)
    BY <1>9, <1>12, Zenon
  <1>14. LogHolds(log')
    BY <1>2, <1>6, <1>10, <1>12, <1>13 DEF LogHolds, Loaded
  <1>. QED  BY <1>1, <1>14 DEF LogInv

\* A log without runs holds nothing.
LEMMA NoneHeld ==
  ASSUME NEW rings \in Runs, \A t \in Logged : rings[t] = G!NoRun, NEW capped
  PROVE  /\ IsFiniteSet(G!HasRun(rings)) /\ CapOn(rings, capped)
         /\ G!HeldOf(rings) = 0 /\ G!HeldWeight(rings) = 0
  <1>1. G!HasRun(rings) = {}
    BY DEF G!HasRun
  <1>2. \A t \in Logged : rings[t].items = <<>> /\ <<>> \in Seq(Entry)
    BY NothingHeld
  <1>3. G!Units(<<>>) = {} /\ DOMAIN <<>> = {}
    BY DEF G!Units
  <1>4. \A t \in Logged : Held(rings)[t] = {} /\ Borne(rings)[t] = {}
    BY <1>2, <1>3 DEF Held, Borne
  <1>5. DOMAIN Held(rings) = Logged /\ DOMAIN Borne(rings) = Logged
    BY DEF Held, Borne
  <1>6. Pile(Held(rings)) = {} /\ Pile(Borne(rings)) = {}
    BY <1>4, <1>5 DEF Pile
  <1>. QED  BY <1>1, <1>6, SumsArePiles, FS_EmptySet DEF CapOn

\* Clearing leaves nothing held, and no bound on.
LEMMA ClearHolds ==
  ASSUME LogInv, G!Clear
  PROVE  LogInv'
  <1>. DEFINE rings == [t \in Logged |-> G!NoRun]
  <1>1. rings \in Runs /\ \A t \in Logged : rings[t] = G!NoRun
    BY NothingHeld DEF Runs
  <1>2. /\ log' = [log EXCEPT !.runs = rings, !.held = 0, !.weight = 0, !.capped = FALSE]
        /\ nextId' = nextId
    BY DEF G!Clear
  <1>3. log \in LogStates /\ log.budget \in Nat /\ LogCeiling \in Nat
    BY TrafficAssumption DEF LogInv, LogHolds, Loaded, LogStates, G!LogAssumption
  <1>. HIDE DEF rings
  <1>4. /\ log'.runs = rings /\ log'.held = 0 /\ log'.weight = 0 /\ log'.capped = FALSE
        /\ log'.budget = log.budget /\ log' \in LogStates
    BY <1>1, <1>2, <1>3 DEF LogStates
  <1>5. /\ IsFiniteSet(G!HasRun(rings)) /\ CapOn(rings, log'.capped)
        /\ G!HeldOf(rings) = 0 /\ G!HeldWeight(rings) = 0
    BY <1>1, NoneHeld
  <1>6. 0 <= LogCeiling /\ 0 <= log.budget
    BY <1>3
  <1>7. CapOn(log'.runs, log'.capped)
    BY <1>4, <1>5, Zenon
  <1>8. LogHolds(log')
    BY <1>4, <1>5, <1>6, <1>7 DEF LogHolds, Loaded
  <1>. QED  BY <1>2, <1>8 DEF LogInv

\* The bound taken off every run leaves each with what it had.
LEMMA GrownHolds ==
  ASSUME LogInv, NEW bytes \in Nat, bytes > log.weight,
         log' = [log EXCEPT !.budget = bytes, !.capped = FALSE,
                            !.runs = G!Each(log.runs, LAMBDA r : G!CapBytesTo(r, None))]
  PROVE  LogHolds(log')
  <1>. DEFINE rings == log.runs
              free == G!Each(log.runs, LAMBDA r : G!CapBytesTo(r, None))
  <1>1. /\ log \in LogStates /\ rings \in Runs /\ IsFiniteSet(G!HasRun(rings))
        /\ log.held = G!HeldOf(rings) /\ log.weight = G!HeldWeight(rings)
        /\ log.weight \in Nat /\ log.held \in Nat /\ log.held <= LogCeiling
    BY DEF LogInv, LogHolds, Loaded, LogStates
  <1>2. \A t \in Logged : free[t] = IF rings[t] = G!NoRun THEN G!NoRun ELSE G!CapBytesTo(rings[t], None)
    BY DEF G!Each
  <1>3. free = [t \in Logged |-> free[t]]
    BY DEF G!Each
  <1>4. log' = [log EXCEPT !.budget = bytes, !.capped = FALSE, !.runs = free]
    OBVIOUS
  <1>. HIDE DEF rings, free
  <1>5. ASSUME NEW t \in Logged
        PROVE  free[t] \in LogRun /\ free[t].items = rings[t].items
               /\ (free[t] # G!NoRun => rings[t] # G!NoRun /\ free[t].maxBytes = None)
    <2>1. CASE rings[t] = G!NoRun
      BY <1>2, <2>1, NothingHeld
    <2>2. CASE rings[t] # G!NoRun
      <3>. DEFINE items == rings[t].items
      <3>1. rings[t] \in LogRun /\ items \in Seq(Entry) /\ Len(items) \in Nat
        BY <1>1, OneRun DEF Runs
      <3>. HIDE DEF items
      <3>2. G!Fit(items, Len(items), None) = items
        BY <3>1, FitKeeps
      <3>3. G!CapBytesTo(rings[t], None) = [rings[t] EXCEPT !.maxBytes = None, !.items = items]
        BY <3>2 DEF G!CapBytesTo, items
      <3>4. G!CapBytesTo(rings[t], None) \in LogRun /\ G!CapBytesTo(rings[t], None).items = items
            /\ G!CapBytesTo(rings[t], None).maxBytes = None
        BY <3>1, <3>3 DEF LogRun
      <3>. QED  BY <1>2, <2>2, <3>4 DEF items
    <2>. QED  BY <2>1, <2>2
  <1>6. free \in Runs
    BY <1>3, <1>5 DEF Runs
  <1>7. G!HasRun(free) \subseteq G!HasRun(rings) /\ IsFiniteSet(G!HasRun(free))
    <2>1. G!HasRun(free) \subseteq G!HasRun(rings)
      BY <1>5 DEF G!HasRun
    <2>. QED  BY <1>1, <2>1, FS_Subset
  <1>8. Held(free) = Held(rings) /\ Borne(free) = Borne(rings)
    BY <1>5 DEF Held, Borne
  <1>9. G!HeldOf(free) = log.held /\ G!HeldWeight(free) = log.weight
    BY <1>1, <1>6, <1>7, <1>8, SumsArePiles
  <1>10. CapOn(free, FALSE)
    <2>1. \A t \in G!HasRun(free) : t \in Logged /\ free[t] # G!NoRun
      BY DEF G!HasRun
    <2>. QED  BY <1>5, <2>1 DEF CapOn
  <1>11. /\ log'.runs = free /\ log'.held = log.held /\ log'.weight = log.weight
         /\ log'.capped = FALSE /\ log'.budget = bytes /\ log' \in LogStates
    BY <1>1, <1>4, <1>6 DEF LogStates
  <1>12. CapOn(log'.runs, log'.capped)
    BY <1>10, <1>11, Zenon
  <1>13. log.weight <= bytes
    BY <1>1
  <1>. QED  BY <1>1, <1>7, <1>9, <1>11, <1>12, <1>13 DEF LogHolds, Loaded

\* A larger budget lets the runs grow again, a smaller one cuts them back at once.
LEMMA BudgetHolds ==
  ASSUME LogInv, G!SetBudget
  PROVE  LogInv'
  <1>. DEFINE Set(bytes) ==
                log' = IF bytes > log.budget /\ log.capped /\ bytes > log.weight
                       THEN [log EXCEPT !.budget = bytes, !.capped = FALSE,
                              !.runs = G!Each(log.runs, LAMBDA r : G!CapBytesTo(r, None))]
                       ELSE IF log.weight <= bytes THEN [log EXCEPT !.budget = bytes]
                       ELSE [G!CutBack(log, bytes) EXCEPT !.budget = bytes]
  <1>1. PICK bytes \in Budgets : Set(bytes)
    BY DEF G!SetBudget
  <1>2. nextId' = nextId
    BY DEF G!SetBudget
  <1>3. bytes \in Nat
    BY TrafficAssumption DEF G!LogAssumption
  <1>4. /\ Loaded(log) /\ log \in LogStates /\ log.weight \in Nat
    BY DEF LogInv, LogHolds, Loaded, LogStates
  <1>5. CASE bytes > log.budget /\ log.capped /\ bytes > log.weight
    <2>1. LogHolds(log')
      BY <1>1, <1>3, <1>5, GrownHolds
    <2>. QED  BY <1>2, <2>1 DEF LogInv
  <1>6. CASE ~(bytes > log.budget /\ log.capped /\ bytes > log.weight) /\ log.weight <= bytes
    <2>1. log' = [log EXCEPT !.budget = bytes]
      BY <1>1, <1>6
    <2>2. /\ log'.runs = log.runs /\ log'.held = log.held /\ log'.weight = log.weight
          /\ log'.capped = log.capped /\ log'.budget = bytes /\ log' \in LogStates
      BY <1>3, <1>4, <2>1 DEF LogStates
    <2>3. CapOn(log'.runs, log'.capped)
      BY <1>4, <2>2, Zenon DEF Loaded
    <2>4. LogHolds(log')
      BY <1>4, <1>6, <2>2, <2>3 DEF LogHolds, Loaded
    <2>. QED  BY <1>2, <2>4 DEF LogInv
  <1>7. CASE ~(bytes > log.budget /\ log.capped /\ bytes > log.weight) /\ ~(log.weight <= bytes)
    <2>. DEFINE pared == G!CutBack(log, bytes)
    <2>1. log' = [pared EXCEPT !.budget = bytes]
      BY <1>1, <1>7
    <2>2. Loaded(pared) /\ pared.weight <= bytes
      BY <1>3, <1>4, CutBackFits
    <2>. HIDE DEF pared
    <2>3. /\ log'.runs = pared.runs /\ log'.held = pared.held /\ log'.weight = pared.weight
          /\ log'.capped = pared.capped /\ log'.budget = bytes /\ log' \in LogStates
      BY <1>3, <2>1, <2>2 DEF Loaded, LogStates
    <2>4. CapOn(log'.runs, log'.capped)
      BY <2>2, <2>3, Zenon DEF Loaded
    <2>5. LogHolds(log')
      BY <2>2, <2>3, <2>4 DEF LogHolds, Loaded
    <2>. QED  BY <1>2, <2>5 DEF LogInv
  <1>. QED  BY <1>5, <1>6, <1>7

\* The log begins empty, under one of the budgets.
LEMMA LogBegins == G!Init => LogInv
  <1>. SUFFICES ASSUME G!Init  PROVE LogInv
    OBVIOUS
  <1>. DEFINE rings == [t \in Logged |-> G!NoRun]
  <1>1. PICK b \in Budgets : log = [runs |-> rings, held |-> 0, weight |-> 0,
                                    budget |-> b, capped |-> FALSE]
    BY DEF G!Init
  <1>2. nextId = 1
    BY DEF G!Init
  <1>3. rings \in Runs /\ \A t \in Logged : rings[t] = G!NoRun
    BY NothingHeld DEF Runs
  <1>4. b \in Nat /\ LogCeiling \in Nat
    BY TrafficAssumption DEF G!LogAssumption
  <1>. HIDE DEF rings
  <1>5. /\ log.runs = rings /\ log.held = 0 /\ log.weight = 0 /\ log.capped = FALSE
        /\ log.budget = b /\ log \in LogStates
    BY <1>1, <1>3, <1>4 DEF LogStates
  <1>6. /\ IsFiniteSet(G!HasRun(rings)) /\ CapOn(rings, log.capped)
        /\ G!HeldOf(rings) = 0 /\ G!HeldWeight(rings) = 0
    BY <1>3, NoneHeld
  <1>7. CapOn(log.runs, log.capped)
    BY <1>5, <1>6, Zenon
  <1>8. 0 <= LogCeiling /\ 0 <= b
    BY <1>4
  <1>. QED  BY <1>2, <1>5, <1>6, <1>7, <1>8 DEF LogInv, LogHolds, Loaded

\* Every step of the log keeps it.
LEMMA LogHoldsAlways == G!Spec => []LogInv
  <1>1. LogInv /\ [G!Next]_(G!vars) => LogInv'
    <2>. SUFFICES ASSUME LogInv, [G!Next]_(G!vars)  PROVE LogInv'
      OBVIOUS
    <2>1. CASE UNCHANGED G!vars
      <3>1. log' = log /\ nextId' = nextId
        BY <2>1 DEF G!vars
      <3>2. LogHolds(log')
        BY <3>1 DEF LogInv
      <3>. QED  BY <3>1, <3>2 DEF LogInv
    <2>. QED  BY <2>1, BatchHolds, ForgettingHolds, KeepingHolds, ClearHolds, BudgetHolds
              DEF G!Next
  <1>. QED  BY <1>1, LogBegins, PTL DEF G!Spec

\* What holds of the log is what it says of itself.
LEMMA LogAddsUp == LogInv => G!LoadAddsUp /\ G!WithinCeilings /\ G!CapIsEveryRun
  BY DEF LogInv, LogHolds, Loaded, CapOn, G!LoadAddsUp, G!WithinCeilings, G!CapIsEveryRun

-----------------------------------------------------------------------------
(* Both.                                                                     *)

\* Whatever arrives is in one place, in its order, and none of an old tree lands in the new;
\* the hub is asked for by one loop at a time; and whatever passes shortened its runs, the
\* log holds and weighs what it says it does, within its ceilings and under the one bound it
\* says it has (frameBuffer, pauseStore, useHubBridge, logStore, topicRing).
THEOREM WhatArrivesAddsUp == I!Spec /\ G!Spec => []TrafficAddsUp
  <1>1. IntakeInv /\ LogInv => TrafficAddsUp
    BY IntakeAddsUp, LogAddsUp DEF TrafficAddsUp
  <1>. QED  BY <1>1, IntakeHolds, LogHoldsAlways, PTL

-----------------------------------------------------------------------------
(* What a pass lets go of.                                                   *)

\* Every run there is may hold a message.
Room(rings) == \A t \in Logged : rings[t] # G!NoRun => rings[t].maxItems # 0

\* Nothing of one log is gone from another, or the shortest runs or the lightest would have come
\* to too much, over so many topics.
Spares(was, now, breadth) ==
  \/ G!HasRun(was.runs) \subseteq G!HasRun(now.runs)
  \/ MinEntries * breadth > LogCeiling
  \/ now.capped /\ Heaviest * breadth > now.budget

\* So much for each of more comes to more.
LEMMA MoreForMore == \A a, b, c \in Nat : b <= c => a * b \in Nat /\ a * c \in Nat /\ a * b <= a * c
  <1>. TAKE a, b, c \in Nat
  <1>. HAVE b <= c
  <1>1. a * c = a * b + a * (c - b) /\ c - b \in Nat
    OBVIOUS
  <1>2. \A x, y \in Nat : x * y \in Nat
    OBVIOUS
  <1>3. a * b \in Nat /\ a * c \in Nat /\ a * (c - b) \in Nat
    BY <1>1, <1>2
  <1>. QED  BY <1>1, <1>3

\* What is spared over some topics is over more.
LEMMA SparedOverMore ==
  ASSUME NEW was, NEW now, NEW few \in Nat, NEW many \in Nat, few <= many, now.budget \in Nat,
         Spares(was, now, few)
  PROVE  Spares(was, now, many)
  <1>1. MinEntries \in Nat /\ LogCeiling \in Nat /\ Heaviest \in Nat
    BY TrafficAssumption, HeaviestIs DEF G!LogAssumption
  <1>2. /\ MinEntries * few \in Nat /\ MinEntries * many \in Nat /\ MinEntries * few <= MinEntries * many
        /\ Heaviest * few \in Nat /\ Heaviest * many \in Nat /\ Heaviest * few <= Heaviest * many
    BY <1>1, MoreForMore
  <1>3. \A a, b, c \in Nat : a <= b /\ a > c => b > c
    OBVIOUS
  <1>. QED  BY <1>1, <1>2, <1>3 DEF Spares

\* One message weighs what it weighs.
LEMMA OneWeighs ==
  ASSUME NEW items \in Seq(Entry), Len(items) <= 1
  PROVE  G!Heft(items) <= Heaviest
  <1>1. Heaviest \in Nat
    BY HeaviestIs
  <1>2. CASE Len(items) = 0
    <2>1. items = <<>>
      BY <1>2
    <2>2. G!Heft(items) = 0
      BY <2>1, HeftIsWeight
    <2>. QED  BY <1>1, <2>2
  <1>3. CASE Len(items) = 1
    <2>. DEFINE w == items[1].weight
    <2>1. w \in 0..Heaviest
      <3>1. items[1] \in Entry
        BY <1>3
      <3>. QED  BY <3>1 DEF Entry
    <2>2. G!Units(items) = {1} \X (1..w)
      <3>1. DOMAIN items = {1}
        BY <1>3
      <3>. QED  BY <3>1 DEF G!Units
    <2>. HIDE DEF w
    <2>3. IsFiniteSet(1..w) /\ Cardinality(1..w) = w
      <3>1. w \in Nat /\ w \in Int /\ 1 \in Int
        BY <1>1, <2>1
      <3>2. IsFiniteSet(1..w) /\ Cardinality(1..w) = IF 1 > w THEN 0 ELSE w - 1 + 1
        BY <3>1, FS_Interval
      <3>. QED  BY <3>1, <3>2
    <2>4. IsFiniteSet({1}) /\ Cardinality({1}) = 1
      BY FS_Singleton
    <2>5. Cardinality({1} \X (1..w)) = 1 * w
      BY <2>3, <2>4, FS_Product
    <2>6. G!Heft(items) = w
      <3>1. G!Heft(items) = Cardinality(G!Units(items))
        BY HeftIsWeight
      <3>2. w \in Nat
        BY <1>1, <2>1
      <3>. QED  BY <2>2, <2>5, <3>1, <3>2
    <2>. QED  BY <1>1, <2>1, <2>6
  <1>4. Len(items) = 0 \/ Len(items) = 1
    <2>1. Len(items) \in Nat
      OBVIOUS
    <2>2. \A n \in Nat : n <= 1 => n = 0 \/ n = 1
      OBVIOUS
    <2>. QED  BY <2>1, <2>2, Zenon
  <1>. QED  BY <1>2, <1>3, <1>4

\* Runs of so many come to no more than that for each, and so do their weights.
LEMMA SumsFit ==
  ASSUME NEW rings \in Runs, IsFiniteSet(G!HasRun(rings)), NEW m \in Nat
  PROVE  /\ (\A t \in G!HasRun(rings) : Len(rings[t].items) <= m)
              => G!HeldOf(rings) <= m * Cardinality(G!HasRun(rings))
         /\ (\A t \in G!HasRun(rings) : G!Heft(rings[t].items) <= m)
              => G!HeldWeight(rings) <= m * Cardinality(G!HasRun(rings))
  <1>. DEFINE F == G!HasRun(rings)
  <1>1. F \subseteq Logged /\ \A t \in Logged \ F : rings[t] = G!NoRun
    BY DEF G!HasRun
  <1>2. /\ DOMAIN Held(rings) = Logged /\ DOMAIN Borne(rings) = Logged
        /\ \A t \in Logged \ F : Held(rings)[t] = {} /\ Borne(rings)[t] = {}
    <2>1. DOMAIN Held(rings) = Logged /\ DOMAIN Borne(rings) = Logged
      BY DEF Held, Borne
    <2>2. ASSUME NEW t \in Logged \ F  PROVE Held(rings)[t] = {} /\ Borne(rings)[t] = {}
      <3>1. rings[t].items = <<>> /\ <<>> \in Seq(Entry)
        BY <1>1, NothingHeld
      <3>2. Held(rings)[t] = 1..0 /\ Borne(rings)[t] = {}
        BY <3>1, OneRun, HeftIsWeight
      <3>. QED  BY <3>2
    <2>. QED  BY <2>1, <2>2
  <1>3. \A t \in F : /\ IsFiniteSet(Held(rings)[t]) /\ Cardinality(Held(rings)[t]) = Len(rings[t].items)
                     /\ IsFiniteSet(Borne(rings)[t]) /\ Cardinality(Borne(rings)[t]) = G!Heft(rings[t].items)
    BY <1>1, OneRun
  <1>4. IsFiniteSet(F)
    OBVIOUS
  <1>5. /\ G!HeldOf(rings) = Cardinality(Pile(Held(rings)))
        /\ G!HeldWeight(rings) = Cardinality(Pile(Borne(rings)))
    BY SumsArePiles
  <1>. HIDE DEF F
  <1>6. ASSUME \A t \in F : Len(rings[t].items) <= m  PROVE G!HeldOf(rings) <= m * Cardinality(F)
    <2>1. \A t \in F : IsFiniteSet(Held(rings)[t]) /\ Cardinality(Held(rings)[t]) <= m
      BY <1>3, <1>6
    <2>2. Cardinality(Pile(Held(rings))) <= m * Cardinality(F)
      BY <1>1, <1>2, <1>4, <2>1, PileIsAtMost
    <2>. QED  BY <1>5, <2>2
  <1>7. ASSUME \A t \in F : G!Heft(rings[t].items) <= m  PROVE G!HeldWeight(rings) <= m * Cardinality(F)
    <2>1. \A t \in F : IsFiniteSet(Borne(rings)[t]) /\ Cardinality(Borne(rings)[t]) <= m
      BY <1>3, <1>7
    <2>2. Cardinality(Pile(Borne(rings))) <= m * Cardinality(F)
      BY <1>1, <1>2, <1>4, <2>1, PileIsAtMost
    <2>. QED  BY <1>5, <2>2
  <1>. QED  BY <1>6, <1>7 DEF F

\* Of runs that measure no more than they may, none goes; and what is left is of what there was.
LEMMA NoneGoes ==
  ASSUME NEW rings \in Runs, IsFiniteSet(G!HasRun(rings)), NEW most \in Nat
  PROVE  /\ G!HeldOf(rings) <= most
              => G!HasRun(rings) \subseteq G!HasRun(G!Quietest(rings, most, G!HeldOf))
         /\ G!HeldWeight(rings) <= most
              => G!HasRun(rings) \subseteq G!HasRun(G!Quietest(rings, most, G!HeldWeight))
  <1>. DEFINE Newer(t) == {u \in G!HasRun(rings) : G!NewestId(rings[u]) >= G!NewestId(rings[t])}
              Long == {t \in G!HasRun(rings) : G!HeldOf(G!Only(rings, Newer(t))) <= most}
              Heavy == {t \in G!HasRun(rings) : G!HeldWeight(G!Only(rings, Newer(t))) <= most}
  <1>1. /\ G!Quietest(rings, most, G!HeldOf) = G!Only(rings, Long)
        /\ G!Quietest(rings, most, G!HeldWeight) = G!Only(rings, Heavy)
    BY DEF G!Quietest
  <1>2. ASSUME NEW t
        PROVE  /\ G!HeldOf(G!Only(rings, Newer(t))) <= G!HeldOf(rings)
               /\ G!HeldWeight(G!Only(rings, Newer(t))) <= G!HeldWeight(rings)
               /\ {G!HeldOf(rings), G!HeldOf(G!Only(rings, Newer(t))),
                   G!HeldWeight(rings), G!HeldWeight(G!Only(rings, Newer(t)))} \subseteq Nat
    <2>. HIDE DEF Newer
    <2>1. G!Only(rings, Newer(t)) \in Runs /\ Shorter(G!Only(rings, Newer(t)), rings)
      BY SomeAreShorter
    <2>2. IsFiniteSet(G!HasRun(G!Only(rings, Newer(t))))
      BY <2>1, ShorterIsLess
    <2>. QED  BY <2>1, <2>2, ShorterIsLess, SumsArePiles
  <1>. HIDE DEF Newer
  <1>3. G!HeldOf(rings) <= most => G!HasRun(rings) \subseteq Long
    BY <1>2
  <1>4. G!HeldWeight(rings) <= most => G!HasRun(rings) \subseteq Heavy
    BY <1>2
  <1>. HIDE DEF Long, Heavy
  <1>5. \A K : G!HasRun(rings) \subseteq K => G!HasRun(rings) \subseteq G!HasRun(G!Only(rings, K))
    BY SomeAreShorter DEF G!HasRun
  <1>. QED  BY <1>1, <1>3, <1>4, <1>5

\* What is left of some runs has room where they had.
LEMMA RoomForSome ==
  ASSUME NEW rings \in Runs, Room(rings), NEW K
  PROVE  Room(G!Only(rings, K)) /\ G!HasRun(G!Only(rings, K)) \subseteq G!HasRun(rings)
  BY SomeAreShorter DEF Room, G!HasRun

\* A run put under the weight bound stays, as light as the heaviest message.
LEMMA CappedStays ==
  ASSUME NEW r \in LogRun, r.maxItems # 0
  PROVE  LET now == G!CapBytesTo(r, TopicBytes)
         IN  now \in LogRun /\ now.maxItems # 0 /\ now # G!NoRun /\ G!Heft(now.items) <= Heaviest
  <1>. DEFINE fit == G!Fit(r.items, Len(r.items), TopicBytes)
              now == G!CapBytesTo(r, TopicBytes)
  <1>1. r.items \in Seq(Entry) /\ Len(r.items) \in Nat
    BY DEF LogRun
  <1>2. now = [r EXCEPT !.maxBytes = TopicBytes, !.items = fit]
    BY DEF G!CapBytesTo
  <1>3. TopicBytes \in Nat /\ None \notin Nat
    BY TrafficAssumption DEF G!LogAssumption
  <1>4. fit \in Seq(Entry) /\ (Len(fit) <= 1 \/ G!Heft(fit) <= TopicBytes)
    BY <1>1, <1>3, FitKeeps
  <1>. HIDE DEF fit
  <1>5. now \in LogRun /\ now.maxItems = r.maxItems /\ now.items = fit
    BY <1>2, <1>4 DEF LogRun
  <1>. HIDE DEF now
  <1>6. now # G!NoRun
    BY <1>5 DEF G!NoRun
  <1>7. G!Heft(fit) <= Heaviest
    <2>1. CASE Len(fit) <= 1
      BY <1>4, <2>1, OneWeighs
    <2>2. CASE G!Heft(fit) <= TopicBytes
      BY <1>4, <2>2, HeaviestIs, HeftIsWeight
    <2>. QED  BY <1>4, <2>1, <2>2
  <1>. QED  BY <1>5, <1>6, <1>7 DEF now

\* Cutting back lets a topic go only where the lightest runs would have been too heavy.
LEMMA CutBackSpares ==
  ASSUME NEW state, Loaded(state), Room(state.runs), NEW budget \in Nat
  PROVE  LET pared == G!CutBack(state, budget)
         IN  /\ pared.capped /\ Room(pared.runs) /\ G!HasRun(pared.runs) \subseteq G!HasRun(state.runs)
             /\ \/ G!HasRun(state.runs) \subseteq G!HasRun(pared.runs)
                \/ Heaviest * Cardinality(G!HasRun(state.runs)) > budget
  <1>. DEFINE rings == state.runs
              capped == G!Each(rings, LAMBDA r : G!CapBytesTo(r, TopicBytes))
              left == G!Quietest(capped, budget, G!HeldWeight)
              pared == G!CutBack(state, budget)
  <1>1. rings \in Runs /\ IsFiniteSet(G!HasRun(rings)) /\ state \in LogStates
    BY DEF Loaded, LogStates
  <1>2. pared = [state EXCEPT !.runs = left, !.capped = TRUE,
                            !.held = G!HeldOf(left), !.weight = G!HeldWeight(left)]
    BY DEF G!CutBack
  <1>3. /\ \A t \in Logged : capped[t] = IF rings[t] = G!NoRun THEN G!NoRun ELSE G!CapBytesTo(rings[t], TopicBytes)
        /\ capped = [t \in Logged |-> capped[t]]
    BY DEF G!Each
  <1>. HIDE DEF rings, capped, left, pared
  <1>4. ASSUME NEW t \in Logged
        PROVE  /\ capped[t] \in LogRun /\ (capped[t] = G!NoRun <=> rings[t] = G!NoRun)
               /\ capped[t] # G!NoRun => capped[t].maxItems # 0 /\ G!Heft(capped[t].items) <= Heaviest
    <2>1. CASE rings[t] = G!NoRun
      BY <1>3, <2>1, NothingHeld
    <2>2. CASE rings[t] # G!NoRun
      <3>1. rings[t] \in LogRun /\ rings[t].maxItems # 0
        BY <1>1, <2>2 DEF Runs, Room, rings
      <3>2. capped[t] = G!CapBytesTo(rings[t], TopicBytes)
        BY <1>3, <2>2
      <3>. QED  BY <2>2, <3>1, <3>2, CappedStays
    <2>. QED  BY <2>1, <2>2
  <1>5. capped \in Runs
    BY <1>3, <1>4 DEF Runs
  <1>6. G!HasRun(capped) = G!HasRun(rings)
    BY <1>4 DEF G!HasRun
  <1>7. Room(capped)
    BY <1>4 DEF Room
  <1>8. left \in Runs /\ \E K : left = G!Only(capped, K)
    BY <1>1, <1>5, <1>6, QuietestFits DEF left
  <1>9. Room(left) /\ G!HasRun(left) \subseteq G!HasRun(rings)
    BY <1>5, <1>6, <1>7, <1>8, RoomForSome
  <1>10. pared.capped = TRUE /\ pared.runs = left
    BY <1>1, <1>2 DEF LogStates
  <1>11. G!HeldWeight(capped) <= Heaviest * Cardinality(G!HasRun(rings))
    <2>1. \A t \in G!HasRun(capped) : G!Heft(capped[t].items) <= Heaviest
      BY <1>4 DEF G!HasRun
    <2>2. Heaviest \in Nat
      BY HeaviestIs
    <2>. QED  BY <1>1, <1>5, <1>6, <2>1, <2>2, SumsFit
  <1>12. G!HasRun(rings) \subseteq G!HasRun(left) \/ Heaviest * Cardinality(G!HasRun(rings)) > budget
    <2>1. G!HeldWeight(capped) <= budget => G!HasRun(capped) \subseteq G!HasRun(left)
      BY <1>1, <1>5, <1>6, NoneGoes DEF left
    <2>2. G!HeldWeight(capped) \in Nat
      BY <1>1, <1>5, <1>6, SumsArePiles
    <2>3. Heaviest * Cardinality(G!HasRun(rings)) \in Nat
      BY <1>1, HeaviestIs, FS_CardinalityType, MoreForMore
    <2>. HIDE DEF pared
    <2>4. \A a, b, c \in Nat : a <= b /\ ~(a <= c) => b > c
      OBVIOUS
    <2>. QED  BY <1>6, <1>11, <2>1, <2>2, <2>3, <2>4
  <1>. QED  BY <1>9, <1>10, <1>12 DEF pared, rings

\* A run narrowed stays, no longer than its share.
LEMMA NarrowedStays ==
  ASSUME NEW r \in LogRun, NEW share \in Nat, share # 0
  PROVE  LET now == G!NarrowTo(r, share)
         IN  now \in LogRun /\ now.maxItems # 0 /\ now # G!NoRun /\ Len(now.items) <= share
  <1>. DEFINE fit == G!Fit(r.items, share, None)
              now == G!NarrowTo(r, share)
  <1>1. r.items \in Seq(Entry)
    BY DEF LogRun
  <1>2. now = [r EXCEPT !.maxItems = share, !.items = fit]
    BY DEF G!NarrowTo
  <1>3. fit \in Seq(Entry) /\ Len(fit) <= share
    BY <1>1, FitKeeps
  <1>. HIDE DEF fit
  <1>4. now \in LogRun /\ now.maxItems = share /\ now.items = fit
    BY <1>2, <1>3 DEF LogRun
  <1>. HIDE DEF now
  <1>5. now # G!NoRun
    BY <1>4 DEF G!NoRun
  <1>. QED  BY <1>3, <1>4, <1>5 DEF now

\* Narrowing lets a topic go only where the shortest runs would have been too many.
LEMMA NarrowSpares ==
  ASSUME NEW rings \in Runs, IsFiniteSet(G!HasRun(rings)), Room(rings), G!HeldOf(rings) > LogCeiling
  PROVE  LET left == G!NarrowRuns(rings, G!HeldOf(rings))
         IN  /\ Room(left) /\ G!HasRun(left) \subseteq G!HasRun(rings)
             /\ \/ G!HasRun(rings) \subseteq G!HasRun(left)
                \/ MinEntries * Cardinality(G!HasRun(rings)) > LogCeiling
  <1>. DEFINE even == LogCeiling \div G!Cardinality(G!HasRun(rings))
              share == IF even > MinEntries THEN even ELSE MinEntries
              narrow == G!Each(rings, LAMBDA r : G!NarrowTo(r, share))
              left == G!Quietest(narrow, LogCeiling, G!HeldOf)
              c == Cardinality(G!HasRun(rings))
  <1>0. LogCeiling \in Nat /\ MinEntries \in Nat /\ MinEntries >= 1
    BY TrafficAssumption DEF G!LogAssumption
  <1>1. c \in Nat
    BY FS_CardinalityType
  <1>2. CASE G!HasRun(rings) = {}
    <2>1. G!NarrowRuns(rings, G!HeldOf(rings)) = rings
      BY <1>2 DEF G!NarrowRuns
    <2>. QED  BY <1>2, <2>1
  <1>3. CASE G!HasRun(rings) # {}
    <2>1. c # 0
      BY <1>3, FS_EmptySet
    <2>2. G!NarrowRuns(rings, G!HeldOf(rings)) = left
      <3>1. G!HeldOf(rings) \in Nat
        BY SumsArePiles
      <3>2. ~(G!HeldOf(rings) <= LogCeiling)
        BY <1>0, <3>1
      <3>. QED  BY <1>3, <3>2 DEF G!NarrowRuns, G!Quietest, G!Each
    <2>3. even \in Nat /\ even * c <= LogCeiling
      <3>1. even = LogCeiling \div c
        BY SameCount
      <3>. HIDE DEF even, c
      <3>2. \A a, b \in Nat : b # 0 => a \div b \in Nat /\ (a \div b) * b <= a
        OBVIOUS
      <3>. QED  BY <1>0, <1>1, <2>1, <3>1, <3>2
    <2>4. share \in Nat /\ share # 0
      BY <1>0, <2>3
    <2>5. share * c <= LogCeiling \/ share = MinEntries
      BY <2>3
    <2>6. /\ \A t \in Logged : narrow[t] = IF rings[t] = G!NoRun THEN G!NoRun ELSE G!NarrowTo(rings[t], share)
          /\ narrow = [t \in Logged |-> narrow[t]]
      BY DEF G!Each
    <2>. HIDE DEF even, share, narrow, left, c
    <2>7. ASSUME NEW t \in Logged
          PROVE  /\ narrow[t] \in LogRun /\ (narrow[t] = G!NoRun <=> rings[t] = G!NoRun)
                 /\ narrow[t] # G!NoRun => narrow[t].maxItems # 0 /\ Len(narrow[t].items) <= share
      <3>1. CASE rings[t] = G!NoRun
        BY <2>6, <3>1, NothingHeld
      <3>2. CASE rings[t] # G!NoRun
        <4>1. rings[t] \in LogRun
          BY DEF Runs
        <4>2. narrow[t] = G!NarrowTo(rings[t], share)
          BY <2>6, <3>2
        <4>. QED  BY <2>4, <3>2, <4>1, <4>2, NarrowedStays
      <3>. QED  BY <3>1, <3>2
    <2>8. narrow \in Runs
      BY <2>6, <2>7 DEF Runs
    <2>9. G!HasRun(narrow) = G!HasRun(rings)
      BY <2>7 DEF G!HasRun
    <2>10. Room(narrow)
      BY <2>7 DEF Room
    <2>11. left \in Runs /\ \E K : left = G!Only(narrow, K)
      BY <1>0, <2>8, <2>9, QuietestFits DEF left
    <2>12. Room(left) /\ G!HasRun(left) \subseteq G!HasRun(rings)
      BY <2>8, <2>9, <2>10, <2>11, RoomForSome
    <2>13. G!HeldOf(narrow) <= share * c
      <3>1. \A t \in G!HasRun(narrow) : Len(narrow[t].items) <= share
        BY <2>7 DEF G!HasRun
      <3>. QED  BY <2>4, <2>8, <2>9, <3>1, SumsFit DEF c
    <2>14. G!HeldOf(narrow) <= LogCeiling => G!HasRun(narrow) \subseteq G!HasRun(left)
      BY <1>0, <2>8, <2>9, NoneGoes DEF left
    <2>15. G!HeldOf(narrow) \in Nat /\ share * c \in Nat /\ MinEntries * c \in Nat
      BY <1>0, <1>1, <2>4, <2>8, <2>9, SumsArePiles, MoreForMore
    <2>16. CASE share * c <= LogCeiling
      <3>1. G!HeldOf(narrow) <= LogCeiling
        BY <1>0, <2>13, <2>15, <2>16
      <3>. QED  BY <2>2, <2>9, <2>12, <2>14, <3>1
    <2>17. CASE ~(share * c <= LogCeiling)
      <3>1. MinEntries * c > LogCeiling
        BY <1>0, <2>5, <2>15, <2>17
      <3>. QED  BY <2>2, <2>12, <3>1 DEF c
    <2>. QED  BY <2>16, <2>17
  <1>. QED  BY <1>2, <1>3

\* A message filed brings one topic at most, and lets one go only where breadth comes last.
LEMMA FilingSpares ==
  ASSUME NEW state, LogHolds(state), Room(state.runs), NEW topic \in Logged, NEW one \in Entry
  PROVE  LET next == G!File(state, topic, one)
             many == Cardinality(G!HasRun(state.runs)) + 1
         IN  /\ Room(next.runs) /\ (state.capped => next.capped)
             /\ Cardinality(G!HasRun(next.runs)) \in Nat /\ Cardinality(G!HasRun(next.runs)) <= many
             /\ Spares(state, next, many)
  <1>. DEFINE next == G!File(state, topic, one)
              many == Cardinality(G!HasRun(state.runs)) + 1
  <1>1. PICK filed, rings :
          /\ OneFiled(filed, rings, state, topic)
          /\ next = IF filed.weight > state.budget THEN G!CutBack(filed, state.budget) ELSE filed
    BY FilesOne
  <1>2. /\ Loaded(filed) /\ filed.budget = state.budget /\ filed.capped = state.capped
        /\ rings \in Runs /\ IsFiniteSet(G!HasRun(rings))
        /\ \A t \in Logged : t # topic => rings[t] = state.runs[t]
        /\ rings[topic].maxItems = IF state.runs[topic] = G!NoRun THEN Depth ELSE state.runs[topic].maxItems
        /\ filed.runs = IF G!HeldOf(rings) > LogCeiling THEN G!NarrowRuns(rings, G!HeldOf(rings)) ELSE rings
    BY <1>1 DEF OneFiled
  <1>3. /\ state.budget \in Nat /\ LogCeiling \in Nat /\ Depth # 0
        /\ IsFiniteSet(G!HasRun(state.runs)) /\ many \in Nat
    <2>1. state.budget \in Nat /\ IsFiniteSet(G!HasRun(state.runs))
      BY DEF LogHolds, Loaded, LogStates
    <2>2. LogCeiling \in Nat /\ Depth # 0
      BY TrafficAssumption DEF G!LogAssumption
    <2>. QED  BY <2>1, <2>2, FS_CardinalityType
  <1>4. LogHolds(next) /\ next.budget = state.budget
    BY FilingHolds
  <1>. HIDE DEF next
  <1>5. /\ Room(rings) /\ G!HasRun(state.runs) \subseteq G!HasRun(rings)
        /\ G!HasRun(rings) \subseteq G!HasRun(state.runs) \cup {topic}
    <2>1. rings[topic].maxItems # 0 /\ rings[topic] # G!NoRun
      <3>1. rings[topic].maxItems # 0
        BY <1>2, <1>3 DEF Room
      <3>. QED  BY <3>1 DEF G!NoRun
    <2>2. Room(rings)
      BY <1>2, <2>1 DEF Room
    <2>. QED  BY <1>2, <2>1, <2>2 DEF G!HasRun
  <1>6. /\ Cardinality(G!HasRun(rings)) \in Nat /\ Cardinality(G!HasRun(rings)) <= many
    <2>1. /\ IsFiniteSet(G!HasRun(state.runs) \cup {topic})
          /\ Cardinality(G!HasRun(state.runs) \cup {topic}) <= many
      <3>. DEFINE S == G!HasRun(state.runs)
      <3>1. IsFiniteSet(S) /\ Cardinality(S) \in Nat
        BY <1>3, FS_CardinalityType
      <3>. HIDE DEF S
      <3>2. IsFiniteSet(S \cup {topic})
            /\ Cardinality(S \cup {topic}) = IF topic \in S THEN Cardinality(S) ELSE Cardinality(S) + 1
        BY <3>1, FS_AddElement
      <3>3. Cardinality(S \cup {topic}) <= Cardinality(S) + 1
        BY <3>1, <3>2
      <3>. QED  BY <3>2, <3>3 DEF S
    <2>2. /\ Cardinality(G!HasRun(rings)) <= Cardinality(G!HasRun(state.runs) \cup {topic})
          /\ Cardinality(G!HasRun(rings)) \in Nat /\ Cardinality(G!HasRun(state.runs) \cup {topic}) \in Nat
      BY <1>2, <1>5, <2>1, FS_Subset, FS_CardinalityType
    <2>. HIDE DEF many
    <2>. QED  BY <1>3, <2>1, <2>2
  <1>. HIDE DEF many
  <1>7. /\ Room(filed.runs) /\ G!HasRun(filed.runs) \subseteq G!HasRun(rings)
        /\ G!HasRun(rings) \subseteq G!HasRun(filed.runs) \/ MinEntries * many > LogCeiling
    <2>1. CASE G!HeldOf(rings) > LogCeiling
      <3>1. /\ Room(filed.runs) /\ G!HasRun(filed.runs) \subseteq G!HasRun(rings)
            /\ \/ G!HasRun(rings) \subseteq G!HasRun(filed.runs)
               \/ MinEntries * Cardinality(G!HasRun(rings)) > LogCeiling
        BY <1>2, <1>5, <2>1, NarrowSpares
      <3>2. MinEntries \in Nat
        BY TrafficAssumption DEF G!LogAssumption
      <3>3. /\ MinEntries * Cardinality(G!HasRun(rings)) \in Nat /\ MinEntries * many \in Nat
            /\ MinEntries * Cardinality(G!HasRun(rings)) <= MinEntries * many
        BY <1>3, <1>6, <3>2, MoreForMore
      <3>4. \A a, b, c \in Nat : a <= b /\ a > c => b > c
        OBVIOUS
      <3>. QED  BY <1>3, <3>1, <3>3, <3>4
    <2>2. CASE ~(G!HeldOf(rings) > LogCeiling)
      BY <1>2, <1>5, <2>2
    <2>. QED  BY <2>1, <2>2
  <1>8. /\ Room(next.runs) /\ G!HasRun(next.runs) \subseteq G!HasRun(filed.runs)
        /\ state.capped => next.capped
        /\ \/ G!HasRun(filed.runs) \subseteq G!HasRun(next.runs)
           \/ next.capped /\ Heaviest * many > next.budget
    <2>1. CASE filed.weight > state.budget
      <3>1. next = G!CutBack(filed, state.budget)
        BY <1>1, <2>1
      <3>2. /\ next.capped /\ Room(next.runs) /\ G!HasRun(next.runs) \subseteq G!HasRun(filed.runs)
            /\ \/ G!HasRun(filed.runs) \subseteq G!HasRun(next.runs)
               \/ Heaviest * Cardinality(G!HasRun(filed.runs)) > state.budget
        BY <1>2, <1>3, <1>7, <3>1, CutBackSpares
      <3>3. Cardinality(G!HasRun(filed.runs)) \in Nat /\ Cardinality(G!HasRun(filed.runs)) <= many
        <4>1. /\ Cardinality(G!HasRun(filed.runs)) <= Cardinality(G!HasRun(rings))
              /\ Cardinality(G!HasRun(filed.runs)) \in Nat
          BY <1>2, <1>7, FS_Subset, FS_CardinalityType
        <4>. QED  BY <1>3, <1>6, <4>1
      <3>4. /\ Heaviest * Cardinality(G!HasRun(filed.runs)) \in Nat /\ Heaviest * many \in Nat
            /\ Heaviest * Cardinality(G!HasRun(filed.runs)) <= Heaviest * many
        BY <1>3, <3>3, HeaviestIs, MoreForMore
      <3>5. \A a, b, c \in Nat : a <= b /\ a > c => b > c
        OBVIOUS
      <3>. QED  BY <1>3, <1>4, <3>2, <3>4, <3>5
    <2>2. CASE ~(filed.weight > state.budget)
      <3>1. next = filed
        BY <1>1, <2>2
      <3>. QED  BY <1>2, <1>7, <3>1, Zenon
    <2>. QED  BY <2>1, <2>2
  <1>9. Cardinality(G!HasRun(next.runs)) \in Nat /\ Cardinality(G!HasRun(next.runs)) <= many
    <2>1. /\ Cardinality(G!HasRun(next.runs)) <= Cardinality(G!HasRun(rings))
          /\ Cardinality(G!HasRun(next.runs)) \in Nat
      BY <1>2, <1>7, <1>8, FS_Subset, FS_CardinalityType
    <2>. QED  BY <1>3, <1>6, <2>1
  <1>10. Spares(state, next, many)
    BY <1>5, <1>7, <1>8, Zenon DEF Spares
  <1>. QED  BY <1>8, <1>9, <1>10 DEF next, many

\* The inductive invariant: as before, and every run has room.
RoomyInv == LogInv /\ Room(log.runs)

\* What breadth is of a step.
Breadth == Cardinality(G!HasRun(log.runs)) + (nextId' - nextId)

\* A batch lets a topic go only where breadth comes last.
LEMMA BatchSpares ==
  ASSUME RoomyInv, G!AppendReceived
  PROVE  Room(log'.runs) /\ Spares(log, log', Breadth)
  <1>1. PICK n \in Nat : \E f : Filings(n, f)
    BY BatchIsFiled DEF RoomyInv
  <1>2. PICK f :
           /\ f[0] = log /\ log' = f[n] /\ nextId' = nextId + n
           /\ \A k \in 0..n : LogHolds(f[k])
           /\ \A k \in 1..n : \E topic \in Logged : \E a \in Entry : f[k] = G!File(f[k - 1], topic, a)
    BY <1>1 DEF Filings
  <1>. DEFINE c == Cardinality(G!HasRun(log.runs))
              Far(k) == /\ Room(f[k].runs) /\ f[k].budget = log.budget
                        /\ Cardinality(G!HasRun(f[k].runs)) \in Nat
                        /\ Cardinality(G!HasRun(f[k].runs)) <= c + k
                        /\ Spares(log, f[k], c + k)
              T == {k \in Nat : k <= n => Far(k)}
  <1>3. c \in Nat /\ log.budget \in Nat
    <2>1. IsFiniteSet(G!HasRun(log.runs)) /\ log.budget \in Nat
      BY DEF RoomyInv, LogInv, LogHolds, Loaded, LogStates
    <2>. QED  BY <2>1, FS_CardinalityType
  <1>. HIDE DEF c
  <1>4. 0 \in T
    <2>1. Spares(log, f[0], c + 0)
      BY <1>2 DEF Spares
    <2>2. Cardinality(G!HasRun(f[0].runs)) = c
      BY <1>2 DEF c
    <2>. QED  BY <1>2, <1>3, <2>1, <2>2 DEF RoomyInv
  <1>5. ASSUME NEW k \in Nat, k \in T  PROVE k + 1 \in T
    <2>. SUFFICES ASSUME k + 1 <= n  PROVE Far(k + 1)
      OBVIOUS
    <2>1. k + 1 \in 1..n /\ (k + 1) - 1 = k /\ k \in 0..n
      BY <1>1
    <2>2. Far(k)
      BY <1>5, <2>1
    <2>3. PICK topic \in Logged, a \in Entry : f[k + 1] = G!File(f[k], topic, a)
      BY <1>2, <2>1
    <2>4. LogHolds(f[k])
      BY <1>2, <2>1
    <2>. DEFINE s == f[k]
                next == f[k + 1]
                many == Cardinality(G!HasRun(s.runs)) + 1
    <2>. HIDE DEF T
    <2>5. /\ Room(next.runs) /\ (s.capped => next.capped)
          /\ Cardinality(G!HasRun(next.runs)) \in Nat /\ Cardinality(G!HasRun(next.runs)) <= many
          /\ Spares(s, next, many)
      BY <2>2, <2>3, <2>4, FilingSpares
    <2>6. next.budget = s.budget
      BY <2>3, <2>4, FilingHolds
    <2>7. many \in Nat /\ many <= c + (k + 1) /\ c + k \in Nat /\ c + (k + 1) \in Nat /\ c + k <= c + (k + 1)
      BY <1>3, <2>2
    <2>. HIDE DEF s, next, many
    <2>8. s = f[k] /\ next = f[k + 1]
      BY DEF s, next
    <2>9. next.budget = log.budget /\ s.budget = log.budget /\ next.budget \in Nat
      BY <1>3, <2>2, <2>6, <2>8
    <2>10. Spares(log, next, c + (k + 1))
      <3>1. Spares(s, next, c + (k + 1))
        BY <2>5, <2>7, <2>9, SparedOverMore
      <3>2. Spares(log, s, c + (k + 1))
        BY <1>3, <2>2, <2>7, <2>8, <2>9, SparedOverMore
      <3>3. CASE /\ G!HasRun(log.runs) \subseteq G!HasRun(s.runs)
                 /\ G!HasRun(s.runs) \subseteq G!HasRun(next.runs)
        BY <3>3 DEF Spares
      <3>4. CASE MinEntries * (c + (k + 1)) > LogCeiling
        BY <3>4 DEF Spares
      <3>5. CASE next.capped /\ Heaviest * (c + (k + 1)) > next.budget
        BY <3>5 DEF Spares
      <3>6. CASE s.capped /\ Heaviest * (c + (k + 1)) > s.budget
        BY <2>5, <2>9, <3>6 DEF Spares
      <3>. QED  BY <3>1, <3>2, <3>3, <3>4, <3>5, <3>6, Zenon DEF Spares
    <2>11. Cardinality(G!HasRun(next.runs)) \in Nat /\ Cardinality(G!HasRun(next.runs)) <= c + (k + 1)
      BY <2>5, <2>7
    <2>. QED  BY <2>5, <2>8, <2>9, <2>10, <2>11
  <1>6. n \in T
    <2>. HIDE DEF T
    <2>. QED  BY <1>1, <1>4, <1>5, Numbers
  <1>7. Room(log'.runs) /\ Spares(log, log', c + n)
    BY <1>2, <1>6
  <1>8. Breadth = c + n
    <2>1. nextId \in Nat
      BY DEF RoomyInv, LogInv
    <2>. QED  BY <1>1, <1>2, <2>1 DEF Breadth, c
  <1>. QED  BY <1>7, <1>8

\* So does a budget.
LEMMA BudgetSpares ==
  ASSUME RoomyInv, G!SetBudget
  PROVE  Room(log'.runs) /\ Spares(log, log', Breadth)
  <1>. DEFINE Set(bytes) ==
                log' = IF bytes > log.budget /\ log.capped /\ bytes > log.weight
                       THEN [log EXCEPT !.budget = bytes, !.capped = FALSE,
                              !.runs = G!Each(log.runs, LAMBDA r : G!CapBytesTo(r, None))]
                       ELSE IF log.weight <= bytes THEN [log EXCEPT !.budget = bytes]
                       ELSE [G!CutBack(log, bytes) EXCEPT !.budget = bytes]
  <1>1. PICK bytes \in Budgets : Set(bytes)
    BY DEF G!SetBudget
  <1>2. nextId' = nextId
    BY DEF G!SetBudget
  <1>3. bytes \in Nat
    BY TrafficAssumption DEF G!LogAssumption
  <1>4. /\ Loaded(log) /\ log \in LogStates /\ log.runs \in Runs /\ Room(log.runs) /\ nextId \in Nat
        /\ Cardinality(G!HasRun(log.runs)) \in Nat
    <2>1. /\ Loaded(log) /\ log \in LogStates /\ log.runs \in Runs /\ Room(log.runs) /\ nextId \in Nat
          /\ IsFiniteSet(G!HasRun(log.runs))
      BY DEF RoomyInv, LogInv, LogHolds, Loaded, LogStates
    <2>. QED  BY <2>1, FS_CardinalityType
  <1>5. Breadth = Cardinality(G!HasRun(log.runs))
    BY <1>2, <1>4 DEF Breadth
  <1>6. CASE bytes > log.budget /\ log.capped /\ bytes > log.weight
    <2>. DEFINE free == G!Each(log.runs, LAMBDA r : G!CapBytesTo(r, None))
    <2>1. log' = [log EXCEPT !.budget = bytes, !.capped = FALSE, !.runs = free]
      BY <1>1, <1>6
    <2>2. \A t \in Logged : free[t] = IF log.runs[t] = G!NoRun THEN G!NoRun ELSE G!CapBytesTo(log.runs[t], None)
      BY DEF G!Each
    <2>. HIDE DEF free
    <2>3. log'.runs = free
      BY <1>4, <2>1 DEF LogStates
    <2>4. ASSUME NEW t \in Logged, log.runs[t] # G!NoRun  PROVE free[t] # G!NoRun /\ free[t].maxItems # 0
      <3>. DEFINE r == log.runs[t]
      <3>1. r \in LogRun /\ r.maxItems # 0
        BY <1>4, <2>4 DEF Runs, Room
      <3>2. free[t] = [r EXCEPT !.maxBytes = None, !.items = G!Fit(r.items, Len(r.items), None)]
        BY <2>2, <2>4 DEF G!CapBytesTo
      <3>3. free[t].maxItems # 0
        BY <3>1, <3>2 DEF LogRun
      <3>. QED  BY <3>3 DEF G!NoRun
    <2>5. \A t \in Logged : free[t] # G!NoRun => log.runs[t] # G!NoRun
      BY <2>2
    <2>6. Room(free) /\ G!HasRun(log.runs) \subseteq G!HasRun(free)
      BY <2>4, <2>5 DEF Room, G!HasRun
    <2>. QED  BY <2>3, <2>6 DEF Spares
  <1>7. CASE ~(bytes > log.budget /\ log.capped /\ bytes > log.weight) /\ log.weight <= bytes
    <2>1. log' = [log EXCEPT !.budget = bytes]
      BY <1>1, <1>7
    <2>2. log'.runs = log.runs
      BY <1>4, <2>1 DEF LogStates
    <2>. QED  BY <1>4, <2>2 DEF Spares
  <1>8. CASE ~(bytes > log.budget /\ log.capped /\ bytes > log.weight) /\ ~(log.weight <= bytes)
    <2>. DEFINE pared == G!CutBack(log, bytes)
    <2>1. log' = [pared EXCEPT !.budget = bytes]
      BY <1>1, <1>8
    <2>2. Loaded(pared)
      BY <1>3, <1>4, CutBackFits
    <2>3. /\ pared.capped /\ Room(pared.runs)
          /\ \/ G!HasRun(log.runs) \subseteq G!HasRun(pared.runs)
             \/ Heaviest * Cardinality(G!HasRun(log.runs)) > bytes
      BY <1>3, <1>4, CutBackSpares
    <2>. HIDE DEF pared
    <2>4. log'.runs = pared.runs /\ log'.capped = pared.capped /\ log'.budget = bytes
      BY <1>3, <2>1, <2>2 DEF Loaded, LogStates
    <2>. QED  BY <1>5, <2>3, <2>4, Zenon DEF Spares
  <1>. QED  BY <1>6, <1>7, <1>8

\* What is taken from the runs otherwise leaves room in those that stay.
LEMMA OthersHaveRoom ==
  ASSUME RoomyInv, G!ForgetTopics \/ G!KeepNewestOn \/ G!Clear
  PROVE  /\ Room(log'.runs) /\ nextId' = nextId /\ log'.budget = log.budget
  <1>1. log \in LogStates /\ log.runs \in Runs /\ Room(log.runs)
    BY DEF RoomyInv, LogInv, LogHolds, Loaded, LogStates
  <1>2. CASE G!ForgetTopics
    <2>1. PICK gone \in SUBSET Logged :
            LET went == G!Only(log.runs, gone)
            IN  log' = [log EXCEPT !.runs = G!Only(log.runs, Logged \ gone),
                          !.held = log.held - G!HeldOf(went), !.weight = log.weight - G!HeldWeight(went)]
      BY <1>2 DEF G!ForgetTopics
    <2>2. log'.runs = G!Only(log.runs, Logged \ gone) /\ log'.budget = log.budget
      BY <1>1, <2>1 DEF LogStates
    <2>. QED  BY <1>1, <1>2, <2>2, RoomForSome DEF G!ForgetTopics
  <1>3. CASE G!KeepNewestOn
    <2>. DEFINE Pared(some) == [t \in Logged |-> IF t \in some /\ log.runs[t] # G!NoRun
                                             THEN G!KeepNewest(log.runs[t]) ELSE log.runs[t]]
    <2>1. PICK some \in SUBSET Logged : \E h, w :
            log' = [log EXCEPT !.runs = Pared(some), !.held = h, !.weight = w]
      BY <1>3 DEF G!KeepNewestOn
    <2>2. log'.runs = Pared(some) /\ log'.budget = log.budget
      BY <1>1, <2>1 DEF LogStates
    <2>3. ASSUME NEW t \in Logged, Pared(some)[t] # G!NoRun  PROVE Pared(some)[t].maxItems # 0
      <3>1. log.runs[t] # G!NoRun
        BY <2>3
      <3>2. log.runs[t] \in LogRun /\ log.runs[t].maxItems # 0
        BY <1>1, <3>1 DEF Room, Runs
      <3>3. G!KeepNewest(log.runs[t]).maxItems = log.runs[t].maxItems
        BY <3>2 DEF G!KeepNewest, LogRun
      <3>. QED  BY <3>2, <3>3
    <2>. HIDE DEF Pared
    <2>4. Room(log'.runs)
      BY <2>2, <2>3 DEF Room
    <2>. QED  BY <1>3, <2>2, <2>4 DEF G!KeepNewestOn
  <1>4. CASE G!Clear
    <2>1. log'.runs = [t \in Logged |-> G!NoRun] /\ log'.budget = log.budget
      BY <1>1, <1>4 DEF G!Clear, LogStates
    <2>2. Room(log'.runs)
      BY <2>1 DEF Room
    <2>. QED  BY <1>4, <2>1, <2>2 DEF G!Clear
  <1>. QED  BY <1>2, <1>3, <1>4

\* The runs always have room.
LEMMA RoomAlways == G!Spec => []RoomyInv
  <1>1. G!Init => RoomyInv
    <2>. SUFFICES ASSUME G!Init  PROVE Room(log.runs)
      BY LogBegins DEF RoomyInv
    <2>1. \A t \in Logged : log.runs[t] = G!NoRun
      BY DEF G!Init
    <2>. QED  BY <2>1 DEF Room
  <1>2. RoomyInv /\ LogInv' /\ [G!Next]_(G!vars) => RoomyInv'
    <2>. SUFFICES ASSUME RoomyInv, [G!Next]_(G!vars)  PROVE Room(log'.runs)
      BY DEF RoomyInv
    <2>1. CASE UNCHANGED G!vars
      BY <2>1 DEF G!vars, RoomyInv
    <2>. QED  BY <2>1, BatchSpares, BudgetSpares, OthersHaveRoom DEF G!Next
  <1>. QED  BY <1>1, <1>2, LogHoldsAlways, PTL DEF G!Spec

\* Whatever is filed and however the budget is set, a topic leaves the log unasked only when the
\* shortest run each, or the lightest run each, would still not have fitted over the topics there
\* were and those the batch brought (logStore.ts:394-397, 421-431).
THEOREM DepthGoesFirst == G!Spec => BreadthLast
  <1>. DEFINE GoesLast == (nextId' # nextId \/ log'.budget # log.budget)
                         /\ ~(G!HasRun(log.runs) \subseteq G!HasRun(log'.runs)) =>
                       LET breadth  == G!Cardinality(G!HasRun(log.runs)) + (nextId' - nextId)
                           lightest == G!Max(Weights \cup {TopicBytes})
                       IN  \/ MinEntries * breadth > LogCeiling
                           \/ log'.capped /\ lightest * breadth > log'.budget
  <1>1. RoomyInv /\ [G!Next]_(G!vars) => [GoesLast]_(G!vars)
    <2>. SUFFICES ASSUME RoomyInv, G!Next, nextId' # nextId \/ log'.budget # log.budget,
                         ~(G!HasRun(log.runs) \subseteq G!HasRun(log'.runs))
                  PROVE  \/ MinEntries * Breadth > LogCeiling
                         \/ log'.capped /\ Heaviest * Breadth > log'.budget
      BY SameCount DEF Breadth, Heaviest
    <2>1. G!AppendReceived \/ G!SetBudget
      BY OthersHaveRoom DEF G!Next
    <2>2. Spares(log, log', Breadth)
      BY <2>1, BatchSpares, BudgetSpares
    <2>. QED  BY <2>2, Zenon DEF Spares
  <1>2. [][GoesLast]_(G!vars) => BreadthLast
    BY DEF BreadthLast, G!BreadthLast
  <1>. QED  BY <1>1, <1>2, RoomAlways, PTL DEF G!Spec
=============================================================================
