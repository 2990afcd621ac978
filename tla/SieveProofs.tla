---------------------------- MODULE SieveProofs ----------------------------
(***************************************************************************)
(* What is left of a list that goes through a sieve, for any list and any  *)
(* sieve: its members, their order, and what a list made longer leaves;    *)
(* and what a pile of sets comes to, each under an argument of its own.    *)
(***************************************************************************)
EXTENDS Sieve, FiniteSetTheorems, FunctionTheorems, SequenceTheorems, WellFoundedInduction, TLAPS

-----------------------------------------------------------------------------
(* Induction over the numbers, and what recursion over them makes.           *)

\* A set with nought in it, and each number's successor with it, holds every number.
LEMMA Numbers ==
  ASSUME NEW T, 0 \in T, \A n \in Nat : n \in T => n + 1 \in T
  PROVE  Nat \subseteq T
  <1>. DEFINE Out == Nat \ T
  <1>. SUFFICES ASSUME Out # {}  PROVE FALSE
    OBVIOUS
  <1>1. Out \subseteq Nat
    OBVIOUS
  <1>2. PICK n \in Out : \A m \in Out : ~(<<m, n>> \in OpToRel(<, Nat))
    <2>. HIDE DEF Out
    <2>. QED  BY <1>1, WFMin, NatLessThanWellFounded
  <1>3. \A m \in Out : ~(m < n)
    BY <1>1, <1>2 DEF OpToRel
  <1>4. n \in Nat /\ n # 0
    OBVIOUS
  <1>5. n - 1 \in Nat /\ n - 1 < n /\ n = (n - 1) + 1
    BY <1>4
  <1>6. n - 1 \in T
    BY <1>3, <1>5
  <1>. QED  BY <1>5, <1>6

\* A function that starts at `first` and goes on by `step`.
Goes(f, X, N, first, step) ==
  f \in [0..N -> X] /\ f[0] = first /\ \A n \in 1..N : f[n] = step[<<n, f[n - 1]>>]

\* A first value and a step from each to the next make a function.
LEMMA StepByStep ==
  ASSUME NEW X, NEW first \in X, NEW N \in Nat, NEW step \in [(1..N) \X X -> X]
  PROVE  \E f : Goes(f, X, N, first, step)
  <1>. DEFINE Made(f, m) == f \in [0..m -> X] /\ f[0] = first
                            /\ \A n \in 1..m : f[n] = step[<<n, f[n - 1]>>]
              T == {m \in Nat : m <= N => \E f : Made(f, m)}
  <1>1. 0 \in T
    <2>1. Made([i \in 0..0 |-> first], 0)
      OBVIOUS
    <2>. QED  BY <2>1
  <1>2. ASSUME NEW m \in Nat, m \in T  PROVE m + 1 \in T
    <2>. SUFFICES ASSUME m + 1 <= N  PROVE \E f : Made(f, m + 1)
      OBVIOUS
    <2>1. PICK f : Made(f, m)
      BY <1>2
    <2>. DEFINE g == [i \in 0..(m + 1) |-> IF i = m + 1 THEN step[<<m + 1, f[m]>>] ELSE f[i]]
    <2>2. f[m] \in X /\ m + 1 \in 1..N
      BY <2>1
    <2>3. g \in [0..(m + 1) -> X]
      <3>1. step[<<m + 1, f[m]>>] \in X
        BY <2>2
      <3>. QED  BY <2>1, <3>1
    <2>4. g[0] = first
      BY <2>1
    <2>5. ASSUME NEW n \in 1..(m + 1)  PROVE g[n] = step[<<n, g[n - 1]>>]
      <3>1. CASE n = m + 1
        <4>1. n - 1 = m /\ n - 1 \in 0..(m + 1) /\ n - 1 # m + 1
          BY <3>1
        <4>2. g[n - 1] = f[m] /\ g[n] = step[<<m + 1, f[m]>>]
          BY <3>1, <4>1
        <4>. QED  BY <3>1, <4>2
      <3>2. CASE n # m + 1
        <4>1. n \in 1..m /\ g[n] = f[n] /\ g[n - 1] = f[n - 1]
          BY <3>2
        <4>. QED  BY <4>1, <2>1
      <3>. QED  BY <3>1, <3>2
    <2>6. Made(g, m + 1)
      BY <2>3, <2>4, <2>5
    <2>. QED  BY <2>6
  <1>3. N \in T
    <2>. HIDE DEF T
    <2>. QED  BY <1>1, <1>2, Numbers
  <1>. QED  BY <1>3 DEF Goes

-----------------------------------------------------------------------------
(* The sieve.                                                                *)

\* What is kept of the first so many members.
Kept(s, keep, f) ==
  /\ f \in [0..Len(s) -> Seq({s[i] : i \in 1..Len(s)})]
  /\ f[0] = <<>>
  /\ \A n \in 1..Len(s) : f[n] = IF s[n] \in keep THEN Append(f[n - 1], s[n]) ELSE f[n - 1]

\* The sieve is what its equation says.
LEMMA SieveKeeps ==
  ASSUME NEW S, NEW s \in Seq(S), NEW keep
  PROVE  \E f : Kept(s, keep, f) /\ Sieved(s, keep) = f[Len(s)]
  <1>. DEFINE M == {s[i] : i \in 1..Len(s)}
              X == Seq(M)
              step == [p \in (1..Len(s)) \X X |->
                         IF s[p[1]] \in keep THEN Append(p[2], s[p[1]]) ELSE p[2]]
              kept == CHOOSE g : g = [n \in 0..Len(s) |->
                        IF n = 0 THEN <<>>
                        ELSE IF s[n] \in keep THEN Append(g[n - 1], s[n]) ELSE g[n - 1]]
  <1>0. Len(s) \in Nat /\ <<>> \in X
    OBVIOUS
  <1>1. step \in [(1..Len(s)) \X X -> X]
    <2>1. ASSUME NEW p \in (1..Len(s)) \X X
          PROVE  (IF s[p[1]] \in keep THEN Append(p[2], s[p[1]]) ELSE p[2]) \in X
      <3>1. p[1] \in 1..Len(s) /\ p[2] \in X /\ s[p[1]] \in M
        OBVIOUS
      <3>2. Append(p[2], s[p[1]]) \in X
        <4>. HIDE DEF M
        <4>. QED  BY <3>1
      <3>. QED  BY <3>1, <3>2
    <2>. QED  BY <2>1
  <1>2. PICK f \in [0..Len(s) -> X] :
          f[0] = <<>> /\ \A n \in 1..Len(s) : f[n] = step[<<n, f[n - 1]>>]
    <2>. DEFINE N == Len(s)
                e == <<>>
    <2>1. N \in Nat /\ e \in X /\ step \in [(1..N) \X X -> X]
      BY <1>0, <1>1
    <2>. HIDE DEF X, step, N, e
    <2>2. \E f : Goes(f, X, N, e, step)
      BY <2>1, StepByStep
    <2>. QED  BY <2>2 DEF N, e, Goes
  <1>3. \A n \in 1..Len(s) : f[n] = IF s[n] \in keep THEN Append(f[n - 1], s[n]) ELSE f[n - 1]
    <2>. SUFFICES ASSUME NEW n \in 1..Len(s)
                  PROVE  f[n] = IF s[n] \in keep THEN Append(f[n - 1], s[n]) ELSE f[n - 1]
      OBVIOUS
    <2>1. <<n, f[n - 1]>> \in (1..Len(s)) \X X
      <3>. HIDE DEF X
      <3>. QED  BY <1>0
    <2>2. step[<<n, f[n - 1]>>] = IF s[n] \in keep THEN Append(f[n - 1], s[n]) ELSE f[n - 1]
      <3>. HIDE DEF X
      <3>. QED  BY <2>1
    <2>. QED  BY <1>2, <2>2
  <1>4. f = [n \in 0..Len(s) |->
               IF n = 0 THEN <<>>
               ELSE IF s[n] \in keep THEN Append(f[n - 1], s[n]) ELSE f[n - 1]]
    <2>. HIDE DEF X, step
    <2>1. \A n \in 0..Len(s) : n = 0 \/ n \in 1..Len(s)
      BY <1>0
    <2>. QED  BY <1>2, <1>3, <2>1
  <1>5. kept = [n \in 0..Len(s) |->
               IF n = 0 THEN <<>>
               ELSE IF s[n] \in keep THEN Append(kept[n - 1], s[n]) ELSE kept[n - 1]]
    <2>. HIDE DEF X, step
    <2>. QED  BY <1>4
  <1>6. kept = f
    <2>. DEFINE T == {n \in Nat : n <= Len(s) => kept[n] = f[n]}
    <2>. HIDE DEF kept, X, step
    <2>1. 0 \in T
      BY <1>0, <1>4, <1>5
    <2>2. ASSUME NEW n \in Nat, n \in T  PROVE n + 1 \in T
      <3>. SUFFICES ASSUME n + 1 <= Len(s)  PROVE kept[n + 1] = f[n + 1]
        OBVIOUS
      <3>1. n + 1 \in 0..Len(s) /\ n + 1 # 0 /\ (n + 1) - 1 = n /\ kept[n] = f[n]
        BY <1>0, <2>2
      <3>2. f[n + 1] = IF s[n + 1] \in keep THEN Append(f[n], s[n + 1]) ELSE f[n]
        BY <3>1, <1>4
      <3>3. kept[n + 1] = IF s[n + 1] \in keep THEN Append(kept[n], s[n + 1]) ELSE kept[n]
        BY <3>1, <1>5
      <3>. QED  BY <3>1, <3>2, <3>3
    <2>3. Nat \subseteq T
      <3>. HIDE DEF T
      <3>. QED  BY <2>1, <2>2, Numbers
    <2>4. \A n \in 0..Len(s) : kept[n] = f[n]
      BY <1>0, <2>3
    <2>. QED  BY <2>4, <1>4, <1>5
  <1>7. Sieved(s, keep) = kept[Len(s)]
    BY DEF Sieved
  <1>8. Kept(s, keep, f)
    <2>. HIDE DEF step
    <2>. QED  BY <1>2, <1>3 DEF Kept
  <1>. HIDE DEF kept
  <1>. QED  BY <1>6, <1>7, <1>8

\* Where each member of `left` stood among the first m of s: in the same order, every one of
\* them in the sieve, and none in the sieve left out.
Spots(at, s, m, keep, left) ==
  /\ at \in [1..Len(left) -> 1..m]
  /\ \A i \in 1..Len(left) : left[i] = s[at[i]] /\ s[at[i]] \in keep
  /\ \A i, j \in 1..Len(left) : i < j => at[i] < at[j]
  /\ \A k \in 1..m : s[k] \in keep => \E i \in 1..Len(left) : at[i] = k

\* What is left stands where it stood.
LEMMA SievedPlaces ==
  ASSUME NEW S, NEW s \in Seq(S), NEW keep
  PROVE  /\ Sieved(s, keep) \in Seq(S)
         /\ \E at : Spots(at, s, Len(s), keep, Sieved(s, keep))
  <1>. DEFINE M == {s[i] : i \in 1..Len(s)}
  <1>0. Len(s) \in Nat
    OBVIOUS
  <1>1. PICK f : Kept(s, keep, f) /\ Sieved(s, keep) = f[Len(s)]
    BY SieveKeeps
  <1>2. \A n \in 0..Len(s) : f[n] \in Seq(M) /\ Len(f[n]) \in Nat
    BY <1>1 DEF Kept
  <1>. DEFINE T == {n \in Nat : n <= Len(s) => \E at : Spots(at, s, n, keep, f[n])}
  <1>3. 0 \in T
    <2>1. f[0] = <<>>
      BY <1>1 DEF Kept
    <2>2. Spots([i \in {} |-> i], s, 0, keep, f[0])
      BY <2>1 DEF Spots
    <2>. QED  BY <2>2
  <1>4. ASSUME NEW n \in Nat, n \in T  PROVE n + 1 \in T
    <2>. SUFFICES ASSUME n + 1 <= Len(s)  PROVE \E at : Spots(at, s, n + 1, keep, f[n + 1])
      OBVIOUS
    <2>1. PICK at : Spots(at, s, n, keep, f[n])
      BY <1>4, <1>0
    <2>2. f[n + 1] = IF s[n + 1] \in keep THEN Append(f[n], s[n + 1]) ELSE f[n]
      <3>1. n + 1 \in 1..Len(s) /\ (n + 1) - 1 = n
        BY <1>0
      <3>. QED  BY <3>1, <1>1 DEF Kept
    <2>3. CASE s[n + 1] \notin keep
      <3>1. Spots(at, s, n + 1, keep, f[n + 1])
        BY <2>1, <2>2, <2>3 DEF Spots
      <3>. QED  BY <3>1
    <2>4. CASE s[n + 1] \in keep
      <3>. DEFINE L == Len(f[n])
                  a == [i \in 1..(L + 1) |-> IF i = L + 1 THEN n + 1 ELSE at[i]]
      <3>0. n \in 0..Len(s) /\ n + 1 \in 1..Len(s)
        BY <1>0
      <3>1. n + 1 \in 1..Len(s) /\ s[n + 1] \in M /\ f[n] \in Seq(M) /\ L \in Nat
        BY <3>0, <1>2
      <3>2. /\ Len(f[n + 1]) = L + 1 /\ f[n + 1][L + 1] = s[n + 1]
            /\ \A i \in 1..L : f[n + 1][i] = f[n][i]
        <4>. HIDE DEF M
        <4>. QED  BY <2>2, <2>4, <3>1
      <3>3. \A i \in 1..(L + 1) : i = L + 1 \/ i \in 1..L
        BY <3>1
      <3>4. at \in [1..L -> 1..n] /\ \A i \in 1..L : f[n][i] = s[at[i]] /\ s[at[i]] \in keep
        BY <2>1 DEF Spots
      <3>5. a[L + 1] = n + 1 /\ \A i \in 1..L : a[i] = at[i] /\ at[i] \in 1..n
        <4>. HIDE DEF L
        <4>1. L + 1 \in 1..(L + 1) /\ \A i \in 1..L : i \in 1..(L + 1) /\ i # L + 1
          BY <3>1
        <4>2. a[L + 1] = n + 1
          BY <4>1
        <4>3. \A i \in 1..L : a[i] = at[i]
          BY <4>1
        <4>4. \A i \in 1..L : at[i] \in 1..n
          BY <3>4
        <4>. QED  BY <4>2, <4>3, <4>4
      <3>. HIDE DEF L, a
      <3>6. a \in [1..(L + 1) -> 1..(n + 1)]
        <4>1. ASSUME NEW i \in 1..(L + 1)  PROVE a[i] \in 1..(n + 1)
          <5>1. n + 1 \in 1..(n + 1) /\ 1..n \subseteq 1..(n + 1)
            OBVIOUS
          <5>. QED  BY <5>1, <3>3, <3>5
        <4>. QED  BY <4>1 DEF a
      <3>7. \A i \in 1..(L + 1) : f[n + 1][i] = s[a[i]] /\ s[a[i]] \in keep
        BY <2>4, <3>2, <3>3, <3>4, <3>5
      <3>8. ASSUME NEW i \in 1..(L + 1), NEW j \in 1..(L + 1), i < j  PROVE a[i] < a[j]
        <4>1. i \in 1..L
          BY <3>1, <3>8
        <4>2. CASE j = L + 1
          BY <4>1, <4>2, <3>5
        <4>3. CASE j \in 1..L
          BY <4>1, <4>3, <3>5, <3>8, <2>1 DEF Spots, L
        <4>. QED  BY <4>2, <4>3, <3>3
      <3>9. ASSUME NEW k \in 1..(n + 1), s[k] \in keep  PROVE \E i \in 1..(L + 1) : a[i] = k
        <4>1. CASE k = n + 1
          <5>1. L + 1 \in 1..(L + 1)
            BY <3>1
          <5>. QED  BY <4>1, <5>1, <3>5
        <4>2. CASE k # n + 1
          <5>1. PICK i \in 1..L : at[i] = k
            BY <4>2, <3>9, <2>1 DEF Spots, L
          <5>2. i \in 1..(L + 1)
            BY <3>1
          <5>. QED  BY <5>1, <5>2, <3>5
        <4>. QED  BY <4>1, <4>2
      <3>10. Spots(a, s, n + 1, keep, f[n + 1])
        BY <3>2, <3>6, <3>7, <3>8, <3>9 DEF Spots
      <3>. QED  BY <3>10
    <2>. QED  BY <2>3, <2>4
  <1>5. Len(s) \in T
    <2>. HIDE DEF T
    <2>. QED  BY <1>0, <1>3, <1>4, Numbers
  <1>6. Sieved(s, keep) \in Seq(S)
    <2>1. M \subseteq S
      OBVIOUS
    <2>2. f[Len(s)] \in Seq(M)
      BY <1>0, <1>2
    <2>. HIDE DEF M
    <2>. QED  BY <1>1, <2>1, <2>2
  <1>. QED  BY <1>0, <1>1, <1>5, <1>6

\* One member more, and it is left where it is in the sieve.
LEMMA SievedAppend ==
  ASSUME NEW S, NEW s \in Seq(S), NEW e \in S, NEW keep
  PROVE  Sieved(Append(s, e), keep) =
           IF e \in keep THEN Append(Sieved(s, keep), e) ELSE Sieved(s, keep)
  <1>. DEFINE t == Append(s, e)
  <1>1. t \in Seq(S) /\ Len(t) = Len(s) + 1 /\ t[Len(t)] = e /\ Len(s) \in Nat
        /\ \A i \in 1..Len(s) : t[i] = s[i]
    OBVIOUS
  <1>. HIDE DEF t
  <1>2. PICK f : Kept(s, keep, f) /\ Sieved(s, keep) = f[Len(s)]
    BY SieveKeeps
  <1>3. PICK g : Kept(t, keep, g) /\ Sieved(t, keep) = g[Len(t)]
    BY <1>1, SieveKeeps
  <1>. DEFINE T == {n \in Nat : n <= Len(s) => f[n] = g[n]}
  <1>4. 0 \in T
    BY <1>2, <1>3 DEF Kept
  <1>5. ASSUME NEW n \in Nat, n \in T  PROVE n + 1 \in T
    <2>. SUFFICES ASSUME n + 1 <= Len(s)  PROVE f[n + 1] = g[n + 1]
      OBVIOUS
    <2>1. n + 1 \in 1..Len(s) /\ n + 1 \in 1..Len(t) /\ (n + 1) - 1 = n /\ f[n] = g[n]
      BY <1>1, <1>5
    <2>2. f[n + 1] = IF s[n + 1] \in keep THEN Append(f[n], s[n + 1]) ELSE f[n]
      BY <2>1, <1>2 DEF Kept
    <2>3. g[n + 1] = IF t[n + 1] \in keep THEN Append(g[n], t[n + 1]) ELSE g[n]
      BY <2>1, <1>3 DEF Kept
    <2>. QED  BY <1>1, <2>1, <2>2, <2>3
  <1>6. f[Len(s)] = g[Len(s)]
    <2>1. Nat \subseteq T
      <3>. HIDE DEF T
      <3>. QED  BY <1>4, <1>5, Numbers
    <2>. QED  BY <2>1, <1>1
  <1>7. g[Len(t)] = IF e \in keep THEN Append(g[Len(s)], e) ELSE g[Len(s)]
    <2>1. Len(t) \in 1..Len(t) /\ Len(t) - 1 = Len(s)
      BY <1>1
    <2>. QED  BY <2>1, <1>1, <1>3 DEF Kept
  <1>. QED  BY <1>2, <1>3, <1>6, <1>7 DEF t

-----------------------------------------------------------------------------
(* Sizes: a pile of sets, each under an argument of its own.                 *)

\* What a function's values hold, each under its own argument.
Pile(A) == UNION {{t} \X A[t] : t \in DOMAIN A}

\* What a pile is made of.
LEMMA PileMembers ==
  ASSUME NEW A, NEW p
  PROVE  p \in Pile(A) <=> \E t \in DOMAIN A : \E x \in A[t] : p = <<t, x>>
  BY DEF Pile

\* Under one argument there is as much as its value holds.
LEMMA UnderOne ==
  ASSUME NEW t, NEW S, IsFiniteSet(S)
  PROVE  IsFiniteSet({t} \X S) /\ Cardinality({t} \X S) = Cardinality(S)
  <1>1. IsFiniteSet({t}) /\ Cardinality({t}) = 1
    BY FS_Singleton
  <1>2. IsFiniteSet({t} \X S) /\ Cardinality({t} \X S) = Cardinality({t}) * Cardinality(S)
    BY <1>1, FS_Product
  <1>3. Cardinality(S) \in Nat
    BY FS_CardinalityType
  <1>. QED  BY <1>1, <1>2, <1>3

\* A pile of finitely many finite values is finite.
LEMMA PileFinite ==
  ASSUME NEW A, NEW F \in SUBSET DOMAIN A, IsFiniteSet(F),
         \A t \in DOMAIN A : IsFiniteSet(A[t]), \A t \in DOMAIN A \ F : A[t] = {}
  PROVE  IsFiniteSet(Pile(A))
  <1>. DEFINE f == [t \in F |-> {t} \X A[t]]
              P == {{t} \X A[t] : t \in F}
  <1>1. f \in Surjection(F, P)
    BY DEF Surjection
  <1>2. IsFiniteSet(P)
    <2>. HIDE DEF f, P
    <2>. QED  BY <1>1, FS_Surjection
  <1>3. \A q \in P : IsFiniteSet(q)
    <2>1. \A t \in F : IsFiniteSet({t} \X A[t])
      BY UnderOne
    <2>. QED  BY <2>1
  <1>4. IsFiniteSet(UNION P)
    <2>. HIDE DEF P
    <2>. QED  BY <1>2, <1>3, FS_UNION
  <1>5. Pile(A) = UNION P
    BY DEF Pile
  <1>. QED  BY <1>4, <1>5

\* One value changes, and the pile by as much.
LEMMA OneChanges ==
  ASSUME NEW A, NEW B, NEW t \in DOMAIN A, DOMAIN B = DOMAIN A, IsFiniteSet(Pile(A)),
         \A u \in DOMAIN A : u # t => B[u] = A[u], IsFiniteSet(A[t]), IsFiniteSet(B[t])
  PROVE  /\ IsFiniteSet(Pile(B))
         /\ Cardinality(Pile(B)) = Cardinality(Pile(A)) - Cardinality(A[t]) + Cardinality(B[t])
  <1>. DEFINE old == {t} \X A[t]
              new == {t} \X B[t]
              rest == Pile(A) \ old
  <1>1. /\ IsFiniteSet(old) /\ Cardinality(old) = Cardinality(A[t])
        /\ IsFiniteSet(new) /\ Cardinality(new) = Cardinality(B[t])
    BY UnderOne
  <1>2. Pile(A) \cap old = old
    BY PileMembers
  <1>3. IsFiniteSet(rest) /\ Cardinality(rest) = Cardinality(Pile(A)) - Cardinality(old)
    <2>. HIDE DEF old
    <2>. QED  BY <1>2, FS_Difference
  <1>4. Pile(B) = rest \cup new
    <2>1. ASSUME NEW p \in Pile(B)  PROVE p \in rest \cup new
      <3>1. PICK u \in DOMAIN B : \E x \in B[u] : p = <<u, x>>
        BY PileMembers
      <3>. QED  BY <3>1, PileMembers
    <2>2. ASSUME NEW p \in rest  PROVE p \in Pile(B)
      <3>1. PICK u \in DOMAIN A : \E x \in A[u] : p = <<u, x>>
        BY PileMembers
      <3>. QED  BY <3>1, PileMembers
    <2>3. new \subseteq Pile(B)
      BY PileMembers
    <2>. QED  BY <2>1, <2>2, <2>3
  <1>5. rest \cap new = {}
    <2>1. ASSUME NEW p \in new, p \in Pile(A)  PROVE p \in old
      <3>1. PICK u \in DOMAIN A : \E x \in A[u] : p = <<u, x>>
        BY <2>1, PileMembers
      <3>. QED  BY <3>1
    <2>. QED  BY <2>1
  <1>. HIDE DEF rest, old, new
  <1>6. IsFiniteSet(Pile(B))
        /\ Cardinality(Pile(B)) = Cardinality(rest) + Cardinality(new) - Cardinality(rest \cap new)
    BY <1>1, <1>3, <1>4, FS_Union
  <1>7. Cardinality(rest \cap new) = 0
    BY <1>5, FS_EmptySet
  <1>8. Cardinality(rest) \in Nat /\ Cardinality(new) \in Nat /\ Cardinality(Pile(A)) \in Nat
    BY <1>1, <1>3, FS_CardinalityType
  <1>. QED  BY <1>1, <1>3, <1>6, <1>7, <1>8

\* Some of the values, and the others: the pile is the two together.
LEMMA PileSplits ==
  ASSUME NEW A, NEW B, NEW D, DOMAIN B = DOMAIN A, DOMAIN D = DOMAIN A, IsFiniteSet(Pile(A)),
         \A t \in DOMAIN A : B[t] \cup D[t] = A[t] /\ B[t] \cap D[t] = {}
  PROVE  /\ IsFiniteSet(Pile(B)) /\ IsFiniteSet(Pile(D))
         /\ Cardinality(Pile(A)) = Cardinality(Pile(B)) + Cardinality(Pile(D))
  <1>1. Pile(A) = Pile(B) \cup Pile(D)
    <2>1. ASSUME NEW p \in Pile(A)  PROVE p \in Pile(B) \cup Pile(D)
      <3>1. PICK u \in DOMAIN A : \E x \in A[u] : p = <<u, x>>
        BY PileMembers
      <3>. QED  BY <3>1, PileMembers
    <2>2. ASSUME NEW p \in Pile(B)  PROVE p \in Pile(A)
      <3>1. PICK u \in DOMAIN A : \E x \in B[u] : p = <<u, x>>
        BY PileMembers
      <3>. QED  BY <3>1, PileMembers
    <2>3. ASSUME NEW p \in Pile(D)  PROVE p \in Pile(A)
      <3>1. PICK u \in DOMAIN A : \E x \in D[u] : p = <<u, x>>
        BY PileMembers
      <3>. QED  BY <3>1, PileMembers
    <2>. QED  BY <2>1, <2>2, <2>3
  <1>2. Pile(B) \cap Pile(D) = {}
    <2>. SUFFICES ASSUME NEW p \in Pile(B), p \in Pile(D)  PROVE FALSE
      OBVIOUS
    <2>1. PICK u \in DOMAIN A : \E x \in B[u] : p = <<u, x>>
      BY PileMembers
    <2>2. PICK v \in DOMAIN A : \E x \in D[v] : p = <<v, x>>
      BY PileMembers
    <2>. QED  BY <2>1, <2>2
  <1>3. IsFiniteSet(Pile(B)) /\ IsFiniteSet(Pile(D))
    BY <1>1, FS_Subset
  <1>4. Cardinality(Pile(A)) = Cardinality(Pile(B)) + Cardinality(Pile(D)) - Cardinality(Pile(B) \cap Pile(D))
    BY <1>1, <1>3, FS_Union
  <1>5. Cardinality(Pile(B) \cap Pile(D)) = 0
    BY <1>2, FS_EmptySet
  <1>6. Cardinality(Pile(B)) \in Nat /\ Cardinality(Pile(D)) \in Nat
    BY <1>3, FS_CardinalityType
  <1>. QED  BY <1>3, <1>4, <1>5, <1>6

\* Where each value goes into the other's, one to one, so does the pile.
LEMMA PileFits ==
  ASSUME NEW A, NEW B, DOMAIN A = DOMAIN B, IsFiniteSet(Pile(B)),
         \A t \in DOMAIN A : ExistsInjection(A[t], B[t])
  PROVE  IsFiniteSet(Pile(A)) /\ Cardinality(Pile(A)) <= Cardinality(Pile(B))
  <1>. DEFINE f == [t \in DOMAIN A |-> CHOOSE g : g \in Injection(A[t], B[t])]
              h == [p \in Pile(A) |-> <<p[1], f[p[1]][p[2]]>>]
  <1>1. \A t \in DOMAIN A : f[t] \in Injection(A[t], B[t])
    BY DEF ExistsInjection
  <1>. HIDE DEF f
  <1>2. ASSUME NEW p \in Pile(A)
        PROVE  p[1] \in DOMAIN A /\ p[2] \in A[p[1]] /\ p = <<p[1], p[2]>> /\ f[p[1]][p[2]] \in B[p[1]]
    <2>1. PICK t \in DOMAIN A : \E x \in A[t] : p = <<t, x>>
      BY PileMembers
    <2>. QED  BY <2>1, <1>1 DEF Injection
  <1>3. h \in [Pile(A) -> Pile(B)]
    <2>1. \A p \in Pile(A) : <<p[1], f[p[1]][p[2]]>> \in Pile(B)
      BY <1>2, PileMembers
    <2>. QED  BY <2>1
  <1>4. ASSUME NEW p \in Pile(A), NEW q \in Pile(A), h[p] = h[q]  PROVE p = q
    <2>1. h[p] = <<p[1], f[p[1]][p[2]]>> /\ h[q] = <<q[1], f[q[1]][q[2]]>>
      OBVIOUS
    <2>2. p[1] = q[1] /\ f[p[1]][p[2]] = f[q[1]][q[2]]
      BY <1>4, <2>1
    <2>3. p[2] = q[2]
      BY <1>1, <1>2, <2>2 DEF Injection, IsInjective
    <2>. QED  BY <1>2, <2>2, <2>3
  <1>5. h \in Injection(Pile(A), Pile(B))
    BY <1>3, <1>4 DEF Injection, IsInjective
  <1>. HIDE DEF h
  <1>. QED  BY <1>5, FS_Injection

\* What is part of a set goes into it.
LEMMA PartsFit == ASSUME NEW S, NEW T, S \subseteq T  PROVE ExistsInjection(S, T)
  <1>1. [x \in S |-> x] \in Injection(S, T)
    BY DEF Injection, IsInjective
  <1>. QED  BY <1>1 DEF ExistsInjection

\* Where no set is larger than so much, the pile is no larger than that for each.
LEMMA PileIsAtMost ==
  ASSUME NEW A, NEW F \in SUBSET DOMAIN A, IsFiniteSet(F), NEW m \in Nat,
         \A t \in F : IsFiniteSet(A[t]) /\ Cardinality(A[t]) <= m, \A t \in DOMAIN A \ F : A[t] = {}
  PROVE  Cardinality(Pile(A)) <= m * Cardinality(F)
  <1>. DEFINE B == [t \in DOMAIN A |-> IF t \in F THEN 1..m ELSE {}]
  <1>1. IsFiniteSet(1..m) /\ Cardinality(1..m) = m
    <2>1. IsFiniteSet(1..m) /\ Cardinality(1..m) = IF 1 > m THEN 0 ELSE m - 1 + 1
      BY FS_Interval
    <2>. QED  BY <2>1
  <1>2. Pile(B) = F \X (1..m)
    BY DEF Pile
  <1>3. IsFiniteSet(Pile(B)) /\ Cardinality(Pile(B)) = Cardinality(F) * m
    <2>1. IsFiniteSet(F \X (1..m)) /\ Cardinality(F \X (1..m)) = Cardinality(F) * Cardinality(1..m)
      BY <1>1, FS_Product
    <2>. HIDE DEF B
    <2>. QED  BY <1>1, <1>2, <2>1
  <1>4. \A t \in DOMAIN A : ExistsInjection(A[t], B[t])
    <2>. SUFFICES ASSUME NEW t \in DOMAIN A  PROVE ExistsInjection(A[t], B[t])
      OBVIOUS
    <2>1. CASE t \in F
      <3>1. Cardinality(A[t]) \in Nat /\ ExistsBijection(1..Cardinality(A[t]), A[t])
        BY <2>1, FS_CardinalityType
      <3>2. ExistsInjection(A[t], 1..Cardinality(A[t]))
        BY <3>1, Fun_ExistsBijEquiv
      <3>3. 1..Cardinality(A[t]) \subseteq 1..m
        BY <2>1, <3>1
      <3>4. ExistsInjection(1..Cardinality(A[t]), 1..m)
        BY <3>3, PartsFit
      <3>. QED  BY <2>1, <3>2, <3>4, Fun_ExistsInjTransitive
    <2>2. CASE t \notin F
      <3>1. A[t] = {} /\ B[t] = {}
        BY <2>2
      <3>. QED  BY <3>1, PartsFit
    <2>. QED  BY <2>1, <2>2
  <1>5. Cardinality(Pile(A)) <= Cardinality(Pile(B))
    <2>1. DOMAIN A = DOMAIN B
      OBVIOUS
    <2>. HIDE DEF B
    <2>. QED  BY <1>3, <1>4, <2>1, PileFits
  <1>6. Cardinality(F) \in Nat
    BY FS_CardinalityType
  <1>7. \A c \in Nat : c * m = m * c
    OBVIOUS
  <1>. HIDE DEF B
  <1>. QED  BY <1>3, <1>5, <1>6, <1>7
=============================================================================
