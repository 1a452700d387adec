------------------------------ MODULE InductionFacts ------------------------------
(***************************************************************************)
(* Induction over numbers in terms of sets, and what it says of functions  *)
(* that are defined by recursion.                                          *)
(***************************************************************************)
EXTENDS Naturals, Sequences, Lists, FiniteSetTheorems, SequenceTheorems, TLAPS

\* A set of numbers has a least one.
LEMMA LeastNumber ==
  ASSUME NEW S, S \subseteq Nat, S # {}
  PROVE  \E n \in S : \A m \in S : n <= m
<1>1. PICK n \in S : \A m \in S : ~(<<m, n>> \in OpToRel(<, Nat))
  BY NatLessThanWellFounded, WFMin, Zenon
<1>2. \A m \in S : ~(m < n)
  BY <1>1 DEF OpToRel
<1> QED BY <1>2

\* A set that has 0 and, up to N, every successor has the numbers up to N.
LEMMA Induction ==
  ASSUME NEW N \in Nat, NEW S, 0 \in S, \A n \in 0..(N - 1) : n \in S => n + 1 \in S
  PROVE  \A n \in 0..N : n \in S
<1> SUFFICES ASSUME NEW k \in 0..N, k \notin S
             PROVE  FALSE
  OBVIOUS
<1> DEFINE B == {n \in 0..N : n \notin S}
<1>1. B \subseteq Nat /\ B # {}
  OBVIOUS
<1>2. PICK n \in B : \A m \in B : n <= m
  <2> HIDE DEF B
  <2> QED BY <1>1, LeastNumber
<1>3. n - 1 \in 0..(N - 1) /\ n - 1 \in 0..N /\ n - 1 \notin B
  BY <1>2
<1> QED BY <1>2, <1>3

\* The steps that D takes from values in V lead to values in V.
StaysIn(D, N, V) == \A n \in 1..N : \A v \in V : D[n][v] \in V

\* A value that is replaced step by step, as D says, has a history.
LEMMA Iteration ==
  ASSUME NEW N \in Nat, NEW V, NEW c \in V, NEW D, StaysIn(D, N, V)
  PROVE  \E g \in [0..N -> V] : g[0] = c /\ \A n \in 1..N : g[n] = D[n][g[n - 1]]
<1> DEFINE IsHistory(g, m) == /\ g \in [0..m -> V] /\ g[0] = c
                              /\ \A n \in 1..m : g[n] = D[n][g[n - 1]]
           S == {m \in 0..N : \E g : IsHistory(g, m)}
<1>1. 0 \in S
  <2>1. IsHistory([i \in 0..0 |-> c], 0)
    OBVIOUS
  <2> HIDE DEF IsHistory
  <2> QED BY <2>1
<1>2. ASSUME NEW m \in 0..(N - 1), m \in S
      PROVE  m + 1 \in S
  <2>1. PICK g : IsHistory(g, m)
    BY <1>2
  <2> DEFINE h == [i \in 0..(m + 1) |-> IF i = m + 1 THEN D[m + 1][g[m]] ELSE g[i]]
  <2>2. m + 1 \in 1..N /\ g[m] \in V
    BY <2>1
  <2>3. D[m + 1][g[m]] \in V
    BY <2>2 DEF StaysIn
  <2>4. h \in [0..(m + 1) -> V] /\ h[0] = c
    BY <2>1, <2>3
  <2>5. \A n \in 1..(m + 1) : h[n] = D[n][h[n - 1]]
    <3> SUFFICES ASSUME NEW n \in 1..(m + 1)
                 PROVE  h[n] = D[n][h[n - 1]]
      OBVIOUS
    <3>1. CASE n = m + 1
      BY <3>1
    <3>2. CASE n \in 1..m
      BY <2>1, <3>2
    <3> QED BY <3>1, <3>2
  <2> HIDE DEF h
  <2>6. IsHistory(h, m + 1)
    BY <2>4, <2>5
  <2> HIDE DEF IsHistory
  <2> QED BY <2>2, <2>6
<1> HIDE DEF S
<1>3. \A m \in 0..N : m \in S
  BY <1>1, <1>2, Induction
<1>4. N \in S
  BY <1>3
<1> QED BY <1>4 DEF S

\* What is reached from a set by as many steps as there are things cannot be left
\* by another step, and lies in every set that cannot be left.
LEMMA Reached ==
  ASSUME NEW H, IsFiniteSet(H), NEW N \in Nat, Cardinality(H) <= N,
         NEW R \in [H -> SUBSET H], NEW g \in [0..N -> SUBSET H],
         \A n \in 1..N : g[n] = g[n - 1] \cup UNION {R[x] : x \in g[n - 1]}
  PROVE  /\ g[0] \subseteq g[N]
         /\ \A x \in g[N] : R[x] \subseteq g[N]
         /\ \A A : g[0] \subseteq A /\ (\A x \in A \cap H : R[x] \subseteq A) => g[N] \subseteq A
<1> DEFINE Closed == {T \in SUBSET H : \A x \in T : R[x] \subseteq T}
<1>1. \A n \in 0..N : /\ g[n] \in SUBSET H /\ IsFiniteSet(g[n])
                      /\ Cardinality(g[n]) \in Nat
  BY FS_Subset, FS_CardinalityType
<1>2. g[0] \subseteq g[N]
  <2> DEFINE S == {n \in 0..N : g[0] \subseteq g[n]}
  <2>1. 0 \in S /\ \A n \in 0..(N - 1) : n \in S => n + 1 \in S
    <3>1. \A n \in 0..(N - 1) : n + 1 \in 1..N /\ (n + 1) - 1 = n
      OBVIOUS
    <3> QED BY <3>1
  <2> HIDE DEF S
  <2>2. \A n \in 0..N : n \in S
    BY <2>1, Induction
  <2> QED BY <2>2 DEF S
<1>3. g[N] \in Closed
  <2> DEFINE S == {n \in 0..N : g[n] \in Closed \/ n <= Cardinality(g[n])}
  <2>1. 0 \in S
    BY <1>1
  <2>2. ASSUME NEW n \in 0..(N - 1), n \in S
        PROVE  n + 1 \in S
    <3>1. /\ n \in 0..N /\ n + 1 \in 0..N
          /\ g[n + 1] = g[n] \cup UNION {R[x] : x \in g[n]}
      <4>1. n + 1 \in 1..N /\ (n + 1) - 1 = n
        OBVIOUS
      <4> QED BY <4>1
    <3>2. CASE g[n] \in Closed
      <4>1. g[n + 1] = g[n]
        BY <3>1, <3>2
      <4> HIDE DEF Closed
      <4> QED BY <3>1, <3>2, <4>1
    <3>3. CASE g[n] \notin Closed /\ n <= Cardinality(g[n])
      <4>1. g[n] \in SUBSET g[n + 1] /\ g[n] # g[n + 1]
        BY <3>1, <3>3
      <4>2. /\ IsFiniteSet(g[n + 1]) /\ Cardinality(g[n]) \in Nat
            /\ Cardinality(g[n + 1]) \in Nat
        BY <1>1, <3>1
      <4>3. Cardinality(g[n]) <= Cardinality(g[n + 1]) /\ Cardinality(g[n]) # Cardinality(g[n + 1])
        BY <4>1, <4>2, FS_Subset
      <4> PICK a \in Nat, b \in Nat : a = Cardinality(g[n]) /\ b = Cardinality(g[n + 1])
        BY <4>2
      <4>4. n + 1 <= b
        BY <3>3, <4>3
      <4> HIDE DEF Closed
      <4> QED BY <3>1, <4>4
    <3> HIDE DEF Closed
    <3> QED BY <2>2, <3>2, <3>3
  <2>3. N \in S
    <3> HIDE DEF S
    <3>1. \A n \in 0..N : n \in S
      BY <2>1, <2>2, Induction
    <3> QED BY <3>1
  <2>4. CASE N <= Cardinality(g[N])
    <3>1. g[N] \in SUBSET H /\ Cardinality(g[N]) <= Cardinality(H)
      BY <1>1, FS_Subset
    <3>2. Cardinality(H) = Cardinality(g[N])
      BY <1>1, <2>4, <3>1, FS_CardinalityType
    <3>3. g[N] = H
      BY <3>1, <3>2, FS_Subset
    <3> QED BY <3>3
  <2> QED BY <2>3, <2>4
<1>4. ASSUME NEW A, g[0] \subseteq A, \A x \in A \cap H : R[x] \subseteq A
      PROVE  g[N] \subseteq A
  <2> DEFINE S == {n \in 0..N : g[n] \subseteq A}
  <2>1. 0 \in S
    BY <1>4
  <2>2. ASSUME NEW n \in 0..(N - 1), n \in S
        PROVE  n + 1 \in S
    <3>1. n + 1 \in 1..N /\ (n + 1) - 1 = n /\ n \in 0..N
      OBVIOUS
    <3>2. g[n + 1] = g[n] \cup UNION {R[x] : x \in g[n]}
      BY <3>1
    <3>3. g[n] \subseteq A \cap H
      BY <1>1, <2>2, <3>1
    <3> QED BY <1>4, <3>1, <3>2, <3>3
  <2> HIDE DEF S
  <2>3. \A n \in 0..N : n \in S
    BY <2>1, <2>2, Induction
  <2> QED BY <2>3 DEF S
<1> QED BY <1>2, <1>3, <1>4

-----------------------------------------------------------------------------
\* The function that picks the entries up to every position.
LEMMA KeptIsBuilt ==
  ASSUME NEW S, NEW s \in Seq(S), NEW I \in SUBSET (1..Len(s))
  PROVE  \E g \in [0..Len(s) -> Seq(S)] :
           /\ g[0] = <<>>
           /\ \A n \in 1..Len(s) : g[n] = IF n \in I THEN Append(g[n - 1], s[n]) ELSE g[n - 1]
           /\ Kept(s, I) = g[Len(s)]
<1> DEFINE N == Len(s)
           F(g) == [n \in 0..N |->
                      IF n = 0 THEN <<>>
                      ELSE IF n \in I THEN Append(g[n - 1], s[n]) ELSE g[n - 1]]
           upTo == CHOOSE g : g = F(g)
           D == [n \in 1..N |-> [k \in Seq(S) |-> IF n \in I THEN Append(k, s[n]) ELSE k]]
<1>1. N \in Nat /\ (\A n \in 1..N : s[n] \in S) /\ <<>> \in Seq(S)
  OBVIOUS
<1>2. StaysIn(D, N, Seq(S))
  <2> SUFFICES ASSUME NEW n \in 1..N, NEW k \in Seq(S)
               PROVE  D[n][k] \in Seq(S)
    BY DEF StaysIn
  <2>1. D[n][k] = IF n \in I THEN Append(k, s[n]) ELSE k
    OBVIOUS
  <2>2. Append(k, s[n]) \in Seq(S)
    BY <1>1, AppendProperties
  <2> QED BY <2>1, <2>2
<1>3. PICK g \in [0..N -> Seq(S)] : g[0] = <<>> /\ \A n \in 1..N : g[n] = D[n][g[n - 1]]
  <2>1. PICK V, a, m, d : /\ V = Seq(S) /\ a = <<>> /\ m = N /\ d = D
                          /\ m \in Nat /\ StaysIn(d, m, V) /\ a \in V
    BY <1>1, <1>2
  <2>2. m \in Nat /\ StaysIn(d, m, V) /\ a \in V
    BY <2>1
  <2>3. PICK g \in [0..m -> V] : g[0] = a /\ \A i \in 1..m : g[i] = d[i][g[i - 1]]
    BY <2>2, Iteration
  <2> HIDE DEF D, N
  <2> QED BY <2>1, <2>3
<1>4. \A n \in 1..N : g[n] = IF n \in I THEN Append(g[n - 1], s[n]) ELSE g[n - 1]
  <2> SUFFICES ASSUME NEW n \in 1..N
               PROVE  g[n] = IF n \in I THEN Append(g[n - 1], s[n]) ELSE g[n - 1]
    OBVIOUS
  <2>1. n - 1 \in 0..N
    BY <1>1
  <2>2. g[n - 1] \in Seq(S)
    BY <2>1
  <2> QED BY <1>3, <2>2
<1>5. g = F(g)
  <2> DEFINE At(n) == IF n = 0 THEN <<>>
                      ELSE IF n \in I THEN Append(g[n - 1], s[n]) ELSE g[n - 1]
  <2>1. \A n \in 0..N : g[n] = At(n)
    <3>1. \A n \in 0..N : n = 0 \/ n \in 1..N
      BY <1>1
    <3> HIDE DEF D, N
    <3> QED BY <1>3, <1>4, <3>1
  <2>2. F(g) = [n \in 0..N |-> At(n)]
    OBVIOUS
  <2> HIDE DEF D, N, F, At
  <2> QED BY <1>3, <2>1, <2>2
<1>6. upTo = F(upTo)
  <2> HIDE DEF F
  <2> QED BY <1>5
<1>7. /\ upTo[0] = <<>>
      /\ \A n \in 1..N : upTo[n] = IF n \in I THEN Append(upTo[n - 1], s[n]) ELSE upTo[n - 1]
  <2> PICK u : u = upTo
    OBVIOUS
  <2> HIDE DEF upTo
  <2>1. u = F(u)
    BY <1>6
  <2>2. u[0] = <<>> /\ \A n \in 1..N : u[n] = IF n \in I THEN Append(u[n - 1], s[n]) ELSE u[n - 1]
    <3>1. \A n \in 1..N : n \in 0..N /\ n # 0
      BY <1>1
    <3>2. 0 \in 0..N
      BY <1>1
    <3>3. ASSUME NEW n \in 0..N
          PROVE  u[n] = IF n = 0 THEN <<>>
                        ELSE IF n \in I THEN Append(u[n - 1], s[n]) ELSE u[n - 1]
      <4> HIDE DEF N
      <4>1. u[n] = F(u)[n]
        BY <2>1
      <4> QED BY <4>1
    <3> HIDE DEF N, F
    <3> QED BY <3>1, <3>2, <3>3
  <2> QED BY <2>2
<1>8. \A n \in 0..N : upTo[n] = g[n]
  <2> PICK u : u = upTo
    OBVIOUS
  <2> HIDE DEF upTo, N, D
  <2> DEFINE Same == {n \in 0..N : u[n] = g[n]}
  <2>1. 0 \in Same
    BY <1>1, <1>3, <1>7
  <2>2. ASSUME NEW n \in 0..(N - 1), n \in Same
        PROVE  n + 1 \in Same
    <3>1. n + 1 \in 1..N /\ n + 1 \in 0..N /\ (n + 1) - 1 = n
      BY <1>1
    <3> QED BY <1>4, <1>7, <2>2, <3>1
  <2> HIDE DEF Same
  <2>3. \A n \in 0..N : n \in Same
    BY <1>1, <2>1, <2>2, Induction
  <2> QED BY <2>3 DEF Same
<1>9. Kept(s, I) = upTo[N]
  BY DEF Kept
<1> HIDE DEF upTo, D, F
<1> QED BY <1>1, <1>3, <1>4, <1>8, <1>9

\* The entries of k are those of s at the positions in I, each once and in order.
ComesFrom(k, s, I, p) ==
  /\ p \in [1..Len(k) -> I]
  /\ \A j \in 1..Len(k) : k[j] = s[p[j]]
  /\ \A j, l \in 1..Len(k) : j < l => p[j] < p[l]
  /\ \A i \in I : \E j \in 1..Len(k) : p[j] = i

\* That is what is kept.
LEMMA KeptEntries ==
  ASSUME NEW S, NEW s \in Seq(S), NEW I \in SUBSET (1..Len(s))
  PROVE  /\ Kept(s, I) \in Seq(S)
         /\ Len(Kept(s, I)) <= Len(s)
         /\ \E p : ComesFrom(Kept(s, I), s, I, p)
<1> DEFINE Traces(k, n) == 
             {p \in [1..Len(k) -> I \cap (1..n)] :
                /\ \A j \in 1..Len(k) : k[j] = s[p[j]]
                /\ \A j, l \in 1..Len(k) : j < l => p[j] < p[l]
                /\ \A i \in I \cap (1..n) : \E j \in 1..Len(k) : p[j] = i}
<1>1. PICK g \in [0..Len(s) -> Seq(S)] :
           /\ g[0] = <<>>
           /\ \A n \in 1..Len(s) : g[n] = IF n \in I THEN Append(g[n - 1], s[n]) ELSE g[n - 1]
           /\ Kept(s, I) = g[Len(s)]
  BY KeptIsBuilt
<1> PICK N \in Nat : N = Len(s)
  OBVIOUS
<1> DEFINE T == {n \in 0..N : Len(g[n]) <= n /\ Traces(g[n], n) # {}}
<1>2. 0 \in T
  <2>1. [j \in 1..0 |-> 0] \in Traces(g[0], 0)
    BY <1>1
  <2>2. Len(g[0]) <= 0
    BY <1>1
  <2> HIDE DEF Traces
  <2> QED BY <2>1, <2>2
<1>3. ASSUME NEW n \in 0..(N - 1), n \in T
      PROVE  n + 1 \in T
  <2>1. n + 1 \in 1..N /\ n + 1 \in 0..N /\ (n + 1) - 1 = n /\ n \in 0..N
    OBVIOUS
  <2> PICK k \in Seq(S) : k = g[n]
    BY <1>1, <2>1
  <2>2. g[n + 1] = IF n + 1 \in I THEN Append(k, s[n + 1]) ELSE k
    BY <1>1, <2>1
  <2> PICK p : p \in Traces(k, n)
    BY <1>3
  <2>3. Len(k) \in Nat /\ Len(k) <= n
    BY <1>3
  <2>4. CASE n + 1 \notin I
    <3>1. I \cap (1..(n + 1)) = I \cap (1..n)
      BY <2>4
    <3>2. p \in Traces(k, n + 1)
      BY <3>1
    <3> HIDE DEF Traces
    <3> QED BY <2>1, <2>2, <2>3, <2>4, <3>2
  <2>5. CASE n + 1 \in I
    <3> DEFINE q == [j \in 1..(Len(k) + 1) |-> IF j = Len(k) + 1 THEN n + 1 ELSE p[j]]
    <3>0. s[n + 1] \in S
      BY <2>1
    <3> PICK l : l = Append(k, s[n + 1])
      OBVIOUS
    <3>1. /\ l \in Seq(S)
          /\ Len(l) = Len(k) + 1
          /\ \A j \in 1..Len(k) : l[j] = k[j]
          /\ l[Len(k) + 1] = s[n + 1]
      BY <3>0, AppendProperties
    <3>2. /\ p \in [1..Len(k) -> I \cap (1..n)]
          /\ \A j \in 1..Len(k) : k[j] = s[p[j]]
          /\ \A j, m \in 1..Len(k) : j < m => p[j] < p[m]
          /\ \A i \in I \cap (1..n) : \E j \in 1..Len(k) : p[j] = i
      OBVIOUS
    <3> HIDE DEF Traces
    <3>3. /\ \A j \in 1..Len(k) : /\ j \in 1..(Len(k) + 1) /\ j # Len(k) + 1
                                  /\ q[j] = p[j] /\ p[j] \in I /\ p[j] \in 1..n
          /\ Len(k) + 1 \in 1..(Len(k) + 1)
          /\ q[Len(k) + 1] = n + 1
          /\ \A j \in 1..(Len(k) + 1) : j \in 1..Len(k) \/ j = Len(k) + 1
      <4> PICK m \in Nat : m = Len(k)
        BY <2>3
      <4>1. \A j \in 1..m : j \in 1..(m + 1) /\ j # m + 1
        OBVIOUS
      <4>2. m + 1 \in 1..(m + 1) /\ \A j \in 1..(m + 1) : j \in 1..m \/ j = m + 1
        OBVIOUS
      <4>3. \A j \in 1..m : p[j] \in I \cap (1..n)
        BY <3>2
      <4>4. \A j \in 1..m : q[j] = p[j]
        BY <4>1
      <4>5. q[m + 1] = n + 1
        BY <4>2
      <4> HIDE DEF q
      <4> QED BY <4>1, <4>2, <4>3, <4>4, <4>5
    <3>4. \A j \in 1..(Len(k) + 1) : q[j] \in I \cap (1..(n + 1))
      <4>1. \A i \in 1..n : i \in 1..(n + 1)
        BY <2>1
      <4>2. n + 1 \in 1..(n + 1)
        BY <2>1
      <4> HIDE DEF q
      <4> QED BY <2>5, <3>3, <4>1, <4>2
    <3>5. q \in [1..(Len(k) + 1) -> I \cap (1..(n + 1))]
      <4>1. q = [j \in 1..(Len(k) + 1) |-> q[j]]
        OBVIOUS
      <4> HIDE DEF q
      <4> QED BY <3>4, <4>1
    <3> HIDE DEF q
    <3>6. \A j \in 1..Len(l) : l[j] = s[q[j]]
      BY <3>1, <3>2, <3>3
    <3>7. \A j, m \in 1..Len(l) : j < m => q[j] < q[m]
      <4> SUFFICES ASSUME NEW j \in 1..Len(l), NEW m \in 1..Len(l), j < m
                   PROVE  q[j] < q[m]
        OBVIOUS
      <4>1. j \in 1..Len(k)
        BY <2>3, <3>1
      <4>2. CASE m \in 1..Len(k)
        BY <3>2, <3>3, <4>1, <4>2
      <4>3. CASE m = Len(k) + 1
        <5>1. q[j] \in 1..n /\ q[m] = n + 1
          BY <3>3, <4>1, <4>3
        <5> QED BY <5>1
      <4> QED BY <3>1, <3>3, <4>2, <4>3
    <3>8. \A i \in I \cap (1..(n + 1)) : \E j \in 1..Len(l) : q[j] = i
      <4> SUFFICES ASSUME NEW i \in I \cap (1..(n + 1))
                   PROVE  \E j \in 1..Len(l) : q[j] = i
        OBVIOUS
      <4>1. CASE i = n + 1
        BY <3>1, <3>3, <4>1
      <4>2. CASE i # n + 1
        <5>1. i \in I \cap (1..n)
          BY <4>2
        <5>2. PICK j \in 1..Len(k) : p[j] = i
          BY <3>2, <5>1
        <5>3. q[j] = i /\ j \in 1..Len(l)
          BY <3>1, <3>3, <5>2
        <5> QED BY <5>3
      <4> QED BY <4>1, <4>2
    <3>9. q \in Traces(l, n + 1)
      BY <3>1, <3>5, <3>6, <3>7, <3>8 DEF Traces
    <3>10. Len(l) <= n + 1
      BY <2>3, <3>1
    <3> QED BY <2>1, <2>2, <2>5, <3>9, <3>10
  <2> QED BY <2>4, <2>5
<1>4. N \in T
  <2> HIDE DEF T
  <2>1. \A n \in 0..N : n \in T
    BY <1>2, <1>3, Induction
  <2> QED BY <2>1
<1> PICK k \in Seq(S) : k = Kept(s, I)
  BY <1>1
<1>5. Len(k) <= Len(s) /\ \E p : p \in Traces(k, N)
  BY <1>1, <1>4
<1>6. I \cap (1..N) = I
  OBVIOUS
<1> QED BY <1>5, <1>6 DEF ComesFrom
================================================================================
