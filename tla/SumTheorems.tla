----------------------------- MODULE SumTheorems -----------------------------
(***************************************************************************)
(* Facts about the sums MapThenSumSet forms over a finite set, which the   *)
(* budgets of the services are stated with.  The induction over the set is *)
(* done with the set of its subsets for which a fact holds, and a smallest *)
(* subset that is not among them.                                          *)
(***************************************************************************)
EXTENDS Integers, FiniteSets, FiniteSetsExt, FiniteSetTheorems, TLAPS

\* The sum of f over S, f a function.
SumBy(f, S) == MapThenSumSet(LAMBDA x : f[x], S)

\* g is the recursive function of MapThenSumSet.
SumsUp(g, f, S) ==
  g = [s \in SUBSET S |-> IF s = {} THEN 0 ELSE LET x == CHOOSE x \in s : TRUE
                                                IN  f[x] + g[s \ {x}]]

\* Induction over the subsets of a finite set: Q is the set of those with the
\* property.
LEMMA SubsetInduction ==
  ASSUME NEW S, IsFiniteSet(S), NEW Q,
         \A T \in SUBSET S : (\A U \in SUBSET T : U # T => U \in Q) => T \in Q
  PROVE  \A T \in SUBSET S : T \in Q
<1> DEFINE Bad == {T \in SUBSET S : T \notin Q}
           R == StrictSubsetOrdering(S)
<1>1. IsWellFoundedOn(R, SUBSET S)
  BY FS_StrictSubsetOrderingWellFounded, FS_FiniteSubsetsOfFinite
<1>2. SUFFICES ASSUME Bad # {} PROVE FALSE
  OBVIOUS
<1>3. \E T \in Bad : \A U \in Bad : <<U, T>> \notin R
  <2>1. Bad \subseteq SUBSET S
    OBVIOUS
  <2> HIDE DEF Bad, R
  <2> QED BY <1>1, <1>2, <2>1, WFMin
<1>4. PICK T \in Bad : \A U \in Bad : <<U, T>> \notin R
  BY <1>3
<1>5. \A U \in SUBSET T : U # T => U \in Q
  BY <1>4 DEF StrictSubsetOrdering
<1> QED
  BY <1>4, <1>5

\* A sum over a set is the value of a function that adds up its subsets.
LEMMA SumUnfolds ==
  ASSUME NEW f, NEW S
  PROVE  SumBy(f, S) = (CHOOSE g : SumsUp(g, f, S))[S]
BY DEF SumBy, MapThenSumSet, MapThenFoldSet, SumsUp

\* Two such functions agree on the sets both are defined on.
LEMMA SumsAgree ==
  ASSUME NEW f, NEW S, IsFiniteSet(S), NEW g, NEW T \in SUBSET S, NEW h,
         SumsUp(g, f, S), SumsUp(h, f, T)
  PROVE  \A s \in SUBSET T : g[s] = h[s]
<1> DEFINE Q == {s \in SUBSET T : g[s] = h[s]}
<1>1. IsFiniteSet(T)
  BY FS_Subset
<1>2. ASSUME NEW s \in SUBSET T, \A u \in SUBSET s : u # s => u \in Q
      PROVE  s \in Q
  <2> DEFINE c == CHOOSE x \in s : TRUE
  <2>1. CASE s = {}
    BY <2>1 DEF SumsUp
  <2>2. CASE s # {}
    <3>1. c \in s
      BY <2>2
    <3>2. s \ {c} \in Q
      BY <1>2, <3>1
    <3>3. g[s] = f[c] + g[s \ {c}]
      BY <2>2 DEF SumsUp
    <3>4. h[s] = f[c] + h[s \ {c}]
      BY <2>2 DEF SumsUp
    <3> QED
      BY <3>2, <3>3, <3>4
  <2> QED
    BY <2>1, <2>2
<1>3. \A s \in SUBSET T : s \in Q
  <2> HIDE DEF Q
  <2> QED BY <1>1, <1>2, SubsetInduction
<1> QED
  BY <1>3

\* The recursive function exists.
LEMMA SumExists ==
  ASSUME NEW f, NEW S, IsFiniteSet(S)
  PROVE  \E g : SumsUp(g, f, S)
<1> DEFINE Q == {s \in SUBSET S : \E g : SumsUp(g, f, s)}
<1>1. ASSUME NEW T \in SUBSET S, \A u \in SUBSET T : u # T => u \in Q
      PROVE  T \in Q
  <2> DEFINE Fn(s) == CHOOSE g : SumsUp(g, f, s)
             first(s) == CHOOSE x \in s : TRUE
             G == [s \in SUBSET T |->
                     IF s = {} THEN 0 ELSE f[first(s)] + Fn(s \ {first(s)})[s \ {first(s)}]]
  <2>1. \A s \in SUBSET T : s # T => SumsUp(Fn(s), f, s)
    BY <1>1
  <2>2. ASSUME NEW s \in SUBSET T, s # T, s # {}
        PROVE  G[s] = Fn(s)[s]
    <3>1. first(s) \in s /\ s \ {first(s)} \in SUBSET s /\ s \ {first(s)} # T
      BY <2>2
    <3>2. SumsUp(Fn(s), f, s) /\ SumsUp(Fn(s \ {first(s)}), f, s \ {first(s)})
      BY <2>1, <2>2, <3>1
    <3>3. IsFiniteSet(s)
      BY FS_Subset
    <3>4. Fn(s)[s \ {first(s)}] = Fn(s \ {first(s)})[s \ {first(s)}]
      <4> HIDE DEF Fn, first
      <4> QED BY <3>1, <3>2, <3>3, SumsAgree
    <3>5. Fn(s)[s] = f[first(s)] + Fn(s)[s \ {first(s)}]
      <4> HIDE DEF Fn
      <4> QED BY <2>2, <3>2 DEF SumsUp
    <3> QED
      BY <2>2, <3>4, <3>5
  <2>3. ASSUME NEW s \in SUBSET T
        PROVE  G[s] = IF s = {} THEN 0 ELSE f[first(s)] + G[s \ {first(s)}]
    <3>1. CASE s = {}
      BY <3>1
    <3>2. CASE s # {}
      <4>1. first(s) \in s /\ s \ {first(s)} \in SUBSET T /\ s \ {first(s)} # T
        BY <3>2
      <4>2. CASE s \ {first(s)} = {}
        <5>1. SumsUp(Fn({}), f, {})
          BY <2>1, <4>1, <4>2
        <5>2. Fn({})[{}] = 0
          BY <5>1 DEF SumsUp
        <5>3. G[{}] = 0
          OBVIOUS
        <5>4. G[s] = f[first(s)] + Fn(s \ {first(s)})[s \ {first(s)}]
          BY <3>2
        <5> HIDE DEF G, Fn, first
        <5> QED
          BY <3>2, <4>2, <5>2, <5>3, <5>4
      <4>3. CASE s \ {first(s)} # {}
        <5>1. G[s \ {first(s)}] = Fn(s \ {first(s)})[s \ {first(s)}]
          BY <2>2, <4>1, <4>3
        <5> QED
          BY <3>2, <5>1
      <4> QED
        BY <4>2, <4>3
    <3> QED
      BY <3>1, <3>2
  <2>4. SumsUp(G, f, T)
    <3>1. G = [s \in SUBSET T |-> G[s]]
      OBVIOUS
    <3> HIDE DEF G
    <3> QED BY <2>3, <3>1 DEF SumsUp
  <2> QED
    BY <2>4
<1>2. \A s \in SUBSET S : s \in Q
  <2> HIDE DEF Q
  <2> QED BY <1>1, SubsetInduction
<1> QED
  BY <1>2

\* What the sum is, element by element.
LEMMA SumStep ==
  ASSUME NEW f, NEW S, IsFiniteSet(S)
  PROVE  /\ S = {} => SumBy(f, S) = 0
         /\ S # {} => \E c \in S : SumBy(f, S) = f[c] + SumBy(f, S \ {c})
<1> DEFINE Fn(s) == CHOOSE g : SumsUp(g, f, s)
           c == CHOOSE x \in S : TRUE
<1>1. \A s \in SUBSET S : SumsUp(Fn(s), f, s)
  BY SumExists, FS_Subset
<1>2. \A s : SumBy(f, s) = Fn(s)[s]
  BY SumUnfolds
<1>3. ASSUME S = {} PROVE SumBy(f, S) = 0
  <2> HIDE DEF Fn
  <2> QED BY <1>1, <1>2, <1>3 DEF SumsUp
<1>4. ASSUME S # {} PROVE c \in S /\ SumBy(f, S) = f[c] + SumBy(f, S \ {c})
  <2>1. c \in S
    BY <1>4
  <2>2. SumsUp(Fn(S), f, S) /\ SumsUp(Fn(S \ {c}), f, S \ {c})
    BY <1>1
  <2>3. Fn(S)[S] = f[c] + Fn(S)[S \ {c}]
    <3> HIDE DEF Fn
    <3> QED BY <1>4, <2>2 DEF SumsUp
  <2>4. Fn(S)[S \ {c}] = Fn(S \ {c})[S \ {c}]
    <3> HIDE DEF Fn, c
    <3> QED BY <2>2, SumsAgree
  <2> HIDE DEF Fn, c
  <2> QED
    BY <1>2, <2>1, <2>3, <2>4
<1> QED
  BY <1>3, <1>4

\* A sum of integers is one.
LEMMA SumIsInt ==
  ASSUME NEW f, NEW S, IsFiniteSet(S), \A x \in S : f[x] \in Int
  PROVE  SumBy(f, S) \in Int
<1> DEFINE Q == {s \in SUBSET S : SumBy(f, s) \in Int}
<1>1. ASSUME NEW T \in SUBSET S, \A u \in SUBSET T : u # T => u \in Q
      PROVE  T \in Q
  <2>1. IsFiniteSet(T)
    BY FS_Subset
  <2>2. CASE T = {}
    BY <2>1, <2>2, SumStep
  <2>3. CASE T # {}
    <3>1. PICK c \in T : SumBy(f, T) = f[c] + SumBy(f, T \ {c})
      BY <2>1, <2>3, SumStep
    <3>2. T \ {c} \in Q
      BY <1>1
    <3> QED
      BY <3>1, <3>2
  <2> QED
    BY <2>2, <2>3
<1>2. \A s \in SUBSET S : s \in Q
  <2> HIDE DEF Q
  <2> QED BY <1>1, SubsetInduction
<1> QED
  BY <1>2

\* The order in which the elements are added does not matter.
LEMMA SumRemove ==
  ASSUME NEW f, NEW S, IsFiniteSet(S), \A y \in S : f[y] \in Int, NEW x \in S
  PROVE  SumBy(f, S) = SumBy(f, S \ {x}) + f[x]
<1> DEFINE Q == {s \in SUBSET S : \A c \in s : SumBy(f, s) = SumBy(f, s \ {c}) + f[c]}
<1>1. ASSUME NEW T \in SUBSET S, \A u \in SUBSET T : u # T => u \in Q
      PROVE  T \in Q
  <2>1. IsFiniteSet(T) /\ \A s \in SUBSET T : SumBy(f, s) \in Int
    BY FS_Subset, SumIsInt
  <2>2. SUFFICES ASSUME NEW c \in T PROVE SumBy(f, T) = SumBy(f, T \ {c}) + f[c]
    OBVIOUS
  <2>3. PICK d \in T : SumBy(f, T) = f[d] + SumBy(f, T \ {d})
    BY <2>1, SumStep
  <2>4. f[c] \in Int /\ f[d] \in Int /\ SumBy(f, T \ {c}) \in Int /\ SumBy(f, T \ {d}) \in Int
    BY <2>1
  <2>5. CASE c = d
    BY <2>3, <2>4, <2>5
  <2>6. CASE c # d
    <3> DEFINE both == (T \ {c}) \ {d}
    <3>1. T \ {c} \in Q /\ T \ {d} \in Q
      BY <1>1
    <3>2. SumBy(f, T \ {c}) = SumBy(f, both) + f[d]
      BY <2>6, <3>1
    <3>3. (T \ {d}) \ {c} = both
      OBVIOUS
    <3>4. SumBy(f, T \ {d}) = SumBy(f, both) + f[c]
      BY <2>6, <3>1, <3>3
    <3>5. SumBy(f, both) \in Int
      BY <2>1
    <3> HIDE DEF both, Q
    <3> QED
      BY <2>3, <2>4, <3>2, <3>4, <3>5
  <2> QED
    BY <2>5, <2>6
<1>2. \A s \in SUBSET S : s \in Q
  <2> HIDE DEF Q
  <2> QED BY <1>1, SubsetInduction
<1> QED
  BY <1>2

\* An element more adds its term.
LEMMA SumAdd ==
  ASSUME NEW f, NEW S, IsFiniteSet(S), NEW x, x \notin S,
         \A y \in S \cup {x} : f[y] \in Int
  PROVE  SumBy(f, S \cup {x}) = SumBy(f, S) + f[x]
<1>1. IsFiniteSet(S \cup {x})
  BY FS_AddElement
<1>2. (S \cup {x}) \ {x} = S
  OBVIOUS
<1> QED
  BY <1>1, <1>2, SumRemove

\* A sum is at most another one with more or larger summands.
LEMMA SumBounds ==
  ASSUME NEW f, NEW g, NEW S, IsFiniteSet(S), NEW T \in SUBSET S,
         \A x \in S : f[x] \in Int /\ g[x] \in Int,
         \A x \in T : f[x] <= g[x],
         \A x \in S \ T : 0 <= g[x]
  PROVE  SumBy(f, T) <= SumBy(g, S)
<1> DEFINE Q == {s \in SUBSET S : SumBy(f, T \cap s) <= SumBy(g, s)}
<1>1. ASSUME NEW U \in SUBSET S, \A u \in SUBSET U : u # U => u \in Q
      PROVE  U \in Q
  <2>1. /\ IsFiniteSet(U) /\ IsFiniteSet(T \cap U)
        /\ \A s \in SUBSET U : SumBy(g, s) \in Int /\ SumBy(f, T \cap s) \in Int
    BY FS_Subset, SumIsInt
  <2>2. CASE U = {}
    <3>1. SumBy(g, U) = 0
      BY <2>1, <2>2, SumStep
    <3>2. T \cap U = {}
      BY <2>2
    <3>3. SumBy(f, T \cap U) = 0
      BY <2>1, <3>2, SumStep
    <3> QED
      BY <3>1, <3>3
  <2>3. CASE U # {}
    <3>1. PICK c \in U : TRUE
      BY <2>3
    <3>2. SumBy(g, U) = SumBy(g, U \ {c}) + g[c]
      BY <2>1, SumRemove
    <3>3. SumBy(f, T \cap (U \ {c})) <= SumBy(g, U \ {c})
      BY <1>1
    <3>4. CASE c \in T
      <4>1. (T \cap U) \ {c} = T \cap (U \ {c}) /\ c \in T \cap U
        BY <3>4
      <4>2. SumBy(f, T \cap U) = SumBy(f, (T \cap U) \ {c}) + f[c]
        BY <2>1, <4>1, SumRemove
      <4> QED
        BY <2>1, <3>2, <3>3, <3>4, <4>1, <4>2
    <3>5. CASE c \notin T
      <4>1. T \cap U = T \cap (U \ {c})
        BY <3>5
      <4> QED
        BY <2>1, <3>2, <3>3, <3>5, <4>1
    <3> QED
      BY <3>4, <3>5
  <2> QED
    BY <2>2, <2>3
<1>2. \A s \in SUBSET S : s \in Q
  <2> HIDE DEF Q
  <2> QED BY <1>1, SubsetInduction
<1>3. T \cap S = T
  OBVIOUS
<1> QED
  BY <1>2, <1>3

\* Any function with the equations of the sum gives the sum.
LEMMA SumOf ==
  ASSUME NEW f, NEW S, IsFiniteSet(S), NEW g, SumsUp(g, f, S)
  PROVE  g[S] = SumBy(f, S)
<1> DEFINE h == CHOOSE u : SumsUp(u, f, S)
<1>1. SumsUp(h, f, S)
  BY SumExists
<1>2. SumBy(f, S) = h[S]
  BY SumUnfolds
<1> HIDE DEF h
<1> QED
  BY <1>1, <1>2, SumsAgree

\* A sum depends on the summands only.
LEMMA SumEqual ==
  ASSUME NEW f, NEW g, NEW S, IsFiniteSet(S), \A x \in S : f[x] \in Int /\ g[x] = f[x]
  PROVE  SumBy(f, S) = SumBy(g, S)
<1>1. SumBy(f, S) <= SumBy(g, S) /\ SumBy(g, S) <= SumBy(f, S)
  BY SumBounds
<1>2. SumBy(f, S) \in Int /\ SumBy(g, S) \in Int
  BY SumIsInt
<1> QED
  BY <1>1, <1>2

\* A sum of natural numbers is one.
LEMMA SumIsNat ==
  ASSUME NEW f, NEW S, IsFiniteSet(S), \A x \in S : f[x] \in Nat
  PROVE  SumBy(f, S) \in Nat
<1>1. SumBy(f, {}) = 0
  BY FS_EmptySet, SumStep
<1>2. SumBy(f, {}) <= SumBy(f, S)
  BY SumBounds
<1>3. SumBy(f, S) \in Int
  BY SumIsInt
<1> QED
  BY <1>1, <1>2, <1>3

\* The sums of two parts add up.
LEMMA SumSplit ==
  ASSUME NEW f, NEW S, IsFiniteSet(S), \A x \in S : f[x] \in Int, NEW P \in SUBSET S
  PROVE  SumBy(f, S) = SumBy(f, P) + SumBy(f, S \ P)
<1> DEFINE Q == {s \in SUBSET S : SumBy(f, s) = SumBy(f, P \cap s) + SumBy(f, s \ P)}
<1>1. ASSUME NEW U \in SUBSET S, \A u \in SUBSET U : u # U => u \in Q
      PROVE  U \in Q
  <2>1. /\ IsFiniteSet(U) /\ IsFiniteSet(P \cap U) /\ IsFiniteSet(U \ P)
        /\ \A s \in SUBSET U : SumBy(f, s) \in Int
    BY FS_Subset, SumIsInt
  <2>2. CASE U = {}
    <3>1. P \cap U = {} /\ U \ P = {}
      BY <2>2
    <3>2. SumBy(f, {}) = 0
      BY FS_EmptySet, SumStep
    <3> QED
      BY <2>2, <3>1, <3>2
  <2>3. CASE U # {}
    <3>1. PICK c \in U : TRUE
      BY <2>3
    <3> DEFINE V == U \ {c}
    <3>2. SumBy(f, U) = SumBy(f, V) + f[c] /\ f[c] \in Int
      BY <2>1, SumRemove
    <3>3. V \in Q
      BY <1>1
    <3>4. SumBy(f, V) \in Int /\ SumBy(f, P \cap V) \in Int /\ SumBy(f, V \ P) \in Int
      BY <2>1
    <3>5. CASE c \in P
      <4>1. (P \cap U) \ {c} = P \cap V /\ c \in P \cap U /\ U \ P = V \ P
        BY <3>5
      <4>2. SumBy(f, P \cap U) = SumBy(f, (P \cap U) \ {c}) + f[c]
        BY <2>1, <4>1, SumRemove
      <4>3. SumBy(f, V) = SumBy(f, P \cap V) + SumBy(f, V \ P)
        BY <3>3
      <4>4. SumBy(f, P \cap U) = SumBy(f, P \cap V) + f[c] /\ SumBy(f, U \ P) = SumBy(f, V \ P)
        BY <4>1, <4>2
      <4>5. SumBy(f, U) = SumBy(f, P \cap U) + SumBy(f, U \ P)
        <5> HIDE DEF V
        <5> QED BY <3>2, <3>4, <4>3, <4>4
      <4> QED
        BY <4>5
    <3>6. CASE c \notin P
      <4>1. (U \ P) \ {c} = V \ P /\ c \in U \ P /\ P \cap U = P \cap V
        BY <3>6
      <4>2. SumBy(f, U \ P) = SumBy(f, (U \ P) \ {c}) + f[c]
        BY <2>1, <4>1, SumRemove
      <4>3. SumBy(f, V) = SumBy(f, P \cap V) + SumBy(f, V \ P)
        BY <3>3
      <4>4. SumBy(f, P \cap U) = SumBy(f, P \cap V) /\ SumBy(f, U \ P) = SumBy(f, V \ P) + f[c]
        BY <4>1, <4>2
      <4>5. SumBy(f, U) = SumBy(f, P \cap U) + SumBy(f, U \ P)
        <5> HIDE DEF V
        <5> QED BY <3>2, <3>4, <4>3, <4>4
      <4> QED
        BY <4>5
    <3> QED
      BY <3>5, <3>6
  <2> QED
    BY <2>2, <2>3
<1>2. \A s \in SUBSET S : s \in Q
  <2> HIDE DEF Q
  <2> QED BY <1>1, SubsetInduction
<1>3. P \cap S = P
  OBVIOUS
<1> QED
  BY <1>2, <1>3

\* The value at v of the line with slope a that meets the axis at b.
Line(a, b, v) == a * v + b

\* A sum of linear terms is linear in the sum.
LEMMA SumLinear ==
  ASSUME NEW f, NEW g, NEW S, IsFiniteSet(S), NEW a \in Int, NEW b \in Int,
         \A x \in S : f[x] \in Int /\ g[x] = Line(a, b, f[x])
  PROVE  SumBy(g, S) = a * SumBy(f, S) + b * Cardinality(S)
<1> USE DEF Line
<1> DEFINE Q == {s \in SUBSET S : SumBy(g, s) = a * SumBy(f, s) + b * Cardinality(s)}
<1>1. ASSUME NEW U \in SUBSET S, \A u \in SUBSET U : u # U => u \in Q
      PROVE  U \in Q
  <2>1. IsFiniteSet(U) /\ \A x \in U : f[x] \in Int /\ g[x] \in Int
    BY FS_Subset
  <2>2. CASE U = {}
    <3>1. SumBy(g, U) = 0 /\ SumBy(f, U) = 0 /\ Cardinality(U) = 0
      BY <2>1, <2>2, FS_EmptySet, SumStep
    <3>2. 0 = a * 0 + b * 0
      OBVIOUS
    <3> QED
      BY <3>1, <3>2
  <2>3. CASE U # {}
    <3>1. PICK c \in U : TRUE
      BY <2>3
    <3> DEFINE V == U \ {c}
    <3>2. SumBy(f, U) = SumBy(f, V) + f[c] /\ SumBy(g, U) = SumBy(g, V) + g[c]
      BY <2>1, SumRemove
    <3>3. Cardinality(U) = Cardinality(V) + 1 /\ Cardinality(V) \in Nat
      <4>1. Cardinality(V) = Cardinality(U) - 1 /\ IsFiniteSet(V)
        BY <2>1, FS_RemoveElement
      <4>2. Cardinality(U) \in Nat /\ Cardinality(V) \in Nat
        BY <2>1, <4>1, FS_CardinalityType
      <4> HIDE DEF V
      <4> QED BY <4>1, <4>2
    <3>4. SumBy(g, V) = a * SumBy(f, V) + b * Cardinality(V)
      BY <1>1
    <3>5. SumBy(f, V) \in Int /\ f[c] \in Int /\ g[c] = a * f[c] + b
      BY <2>1, FS_Subset, SumIsInt
    <3> HIDE DEF V
    <3>6. a * (SumBy(f, V) + f[c]) = a * SumBy(f, V) + a * f[c]
      BY <3>5
    <3>7. b * (Cardinality(V) + 1) = b * Cardinality(V) + b
      BY <3>3
    <3>8. /\ a * SumBy(f, V) \in Int /\ a * f[c] \in Int /\ b * Cardinality(V) \in Int
      BY <3>3, <3>5
    <3> DEFINE p == a * SumBy(f, V)
               q == a * f[c]
               m == b * Cardinality(V)
    <3>9. SumBy(g, U) = (p + m) + (q + b) /\ a * SumBy(f, U) = p + q /\ b * Cardinality(U) = m + b
      BY <3>2, <3>3, <3>4, <3>5, <3>6, <3>7
    <3>10. p \in Int /\ q \in Int /\ m \in Int
      BY <3>8
    <3> HIDE DEF p, q, m
    <3>11. SumBy(g, U) = a * SumBy(f, U) + b * Cardinality(U)
      BY <3>9, <3>10
    <3> QED
      BY <3>11
  <2> QED
    BY <2>2, <2>3
<1>2. \A s \in SUBSET S : s \in Q
  <2> HIDE DEF Q
  <2> QED BY <1>1, SubsetInduction
<1> QED
  BY <1>2

\* The sum of a constant, over a set.
LEMMA SumOfConstant ==
  ASSUME NEW S, IsFiniteSet(S), NEW c \in Int
  PROVE  SumBy([x \in S |-> c], S) = c * Cardinality(S)
<1> DEFINE f == [x \in S |-> c]
<1>1. \A x \in S : f[x] \in Int /\ f[x] = Line(0, c, f[x])
  BY DEF Line
<1>2. Cardinality(S) \in Nat /\ SumBy(f, S) \in Int
  BY <1>1, FS_CardinalityType, SumIsInt
<1> HIDE DEF f
<1>3. SumBy(f, S) = 0 * SumBy(f, S) + c * Cardinality(S)
  BY <1>1, SumLinear
<1>4. 0 * SumBy(f, S) = 0 /\ c * Cardinality(S) \in Int
  BY <1>2
<1>5. SumBy(f, S) = c * Cardinality(S)
  BY <1>3, <1>4
<1> QED
  BY <1>5 DEF f

\* The size of a set is the sum of ones.
LEMMA SumOfOnes ==
  ASSUME NEW S, IsFiniteSet(S)
  PROVE  SumBy([x \in S |-> 1], S) = Cardinality(S)
<1> DEFINE f == [x \in S |-> 1]
<1>1. \A x \in S : f[x] \in Int /\ f[x] = Line(0, 1, f[x])
  BY DEF Line
<1>2. Cardinality(S) \in Nat /\ SumBy(f, S) \in Int
  BY <1>1, FS_CardinalityType, SumIsInt
<1> HIDE DEF f
<1>3. SumBy(f, S) = 0 * SumBy(f, S) + 1 * Cardinality(S)
  BY <1>1, SumLinear
<1> QED
  BY <1>2, <1>3 DEF f

\* A set may be summed part by part; p names the part of an element.
LEMMA SumByParts ==
  ASSUME NEW f, NEW S, IsFiniteSet(S), \A x \in S : f[x] \in Int,
         NEW P, IsFiniteSet(P), NEW p \in [S -> P]
  PROVE  SumBy(f, S) = SumBy([i \in P |-> SumBy(f, {x \in S : p[x] = i})], P)
<1> DEFINE Part(i) == {x \in S : p[x] = i}
           g == [i \in P |-> SumBy(f, Part(i))]
           Q == {U \in SUBSET P : SumBy(f, {x \in S : p[x] \in U}) = SumBy(g, U)}
<1>1. \A T \in SUBSET S : IsFiniteSet(T) /\ SumBy(f, T) \in Int
  BY FS_Subset, SumIsInt
<1>2. \A i \in P : g[i] \in Int /\ g[i] = SumBy(f, Part(i))
  BY <1>1
<1>3. ASSUME NEW U \in SUBSET P, \A u \in SUBSET U : u # U => u \in Q
      PROVE  U \in Q
  <2> DEFINE In(u) == {x \in S : p[x] \in u}
  <2>1. IsFiniteSet(U)
    BY FS_Subset
  <2>2. CASE U = {}
    <3>1. In(U) = {}
      BY <2>2
    <3>2. SumBy(f, {}) = 0 /\ SumBy(g, U) = 0
      BY <2>1, <2>2, FS_EmptySet, SumStep
    <3> QED
      BY <3>1, <3>2
  <2>3. CASE U # {}
    <3>1. PICK c \in U : TRUE
      BY <2>3
    <3>2. SumBy(g, U) = SumBy(g, U \ {c}) + g[c]
      <4> HIDE DEF g
      <4> QED BY <1>2, <2>1, SumRemove
    <3>3. SumBy(f, In(U \ {c})) = SumBy(g, U \ {c})
      BY <1>3
    <3>4. In(U) \ Part(c) = In(U \ {c}) /\ Part(c) \in SUBSET In(U)
      OBVIOUS
    <3>5. SumBy(f, In(U)) = SumBy(f, Part(c)) + SumBy(f, In(U) \ Part(c))
      <4>1. IsFiniteSet(In(U)) /\ \A x \in In(U) : f[x] \in Int
        BY <1>1
      <4> HIDE DEF In, Part
      <4> QED BY <3>4, <4>1, SumSplit
    <3>6. SumBy(f, Part(c)) \in Int /\ SumBy(f, In(U \ {c})) \in Int
      BY <1>1
    <3>7. SumBy(f, In(U)) = SumBy(f, Part(c)) + SumBy(g, U \ {c})
      BY <3>3, <3>4, <3>5
    <3>8. SumBy(f, In(U)) = SumBy(g, U)
      <4>1. g[c] = SumBy(f, Part(c)) /\ SumBy(g, U \ {c}) \in Int
        BY <1>2, <3>3, <3>6
      <4> HIDE DEF In, Part, g
      <4> QED BY <3>2, <3>6, <3>7, <4>1
    <3> QED
      BY <3>8
  <2> QED
    BY <2>2, <2>3
<1>4. \A U \in SUBSET P : U \in Q
  <2> HIDE DEF Q
  <2> QED BY <1>3, SubsetInduction
<1>5. {x \in S : p[x] \in P} = S
  OBVIOUS
<1>6. SumBy(f, {x \in S : p[x] \in P}) = SumBy(g, P)
  <2>1. P \in Q
    BY <1>4
  <2> QED BY <2>1
<1> QED
  BY <1>5, <1>6

\* A nonempty finite set of numbers has a largest element.
LEMMA LargestExists ==
  ASSUME NEW S, IsFiniteSet(S), S \in SUBSET Int, S # {}
  PROVE  \E c \in S : \A x \in S : x <= c
<1> DEFINE Q == {s \in SUBSET S : s = {} \/ \E c \in s : \A x \in s : x <= c}
<1>1. ASSUME NEW U \in SUBSET S, \A u \in SUBSET U : u # U => u \in Q
      PROVE  U \in Q
  <2>1. CASE U = {}
    BY <2>1
  <2>2. CASE U # {}
    <3>1. PICK d \in U : TRUE
      BY <2>2
    <3>2. U \ {d} \in Q
      BY <1>1
    <3>3. CASE U \ {d} = {}
      <4>1. \A x \in U : x <= d
        BY <3>3
      <4> QED BY <4>1
    <3>4. CASE U \ {d} # {}
      <4>1. PICK c \in U \ {d} : \A x \in U \ {d} : x <= c
        BY <3>2, <3>4
      <4>2. CASE d <= c
        BY <4>1, <4>2
      <4>3. CASE c < d
        <5>1. \A x \in U : x <= d
          BY <4>1, <4>3
        <5> QED BY <5>1
      <4> QED BY <4>2, <4>3
    <3> QED BY <3>3, <3>4
  <2> QED
    BY <2>1, <2>2
<1>2. \A s \in SUBSET S : s \in Q
  <2> HIDE DEF Q
  <2> QED BY <1>1, SubsetInduction
<1>3. S \in Q
  BY <1>2
<1> QED
  BY <1>3

\* A term that has room for n more leaves that room in the sum.
LEMMA SumHasRoom ==
  ASSUME NEW f, NEW h, NEW S, IsFiniteSet(S), \A x \in S : f[x] \in Int /\ h[x] \in Int,
         \A x \in S : f[x] <= h[x], NEW c \in S, NEW n \in Int, Line(1, n, f[c]) <= h[c]
  PROVE  SumBy(f, S) + n <= SumBy(h, S)
<1> DEFINE T == S \ {c}
<1>1. IsFiniteSet(T) /\ T \in SUBSET T /\ f[c] + n <= h[c] /\ f[c] \in Int /\ h[c] \in Int
  BY FS_Subset DEF Line
<1>2. SumBy(f, S) = SumBy(f, T) + f[c] /\ SumBy(h, S) = SumBy(h, T) + h[c]
  BY SumRemove
<1> DEFINE TermByTerm == /\ \A x \in T : f[x] \in Int /\ h[x] \in Int
                         /\ \A x \in T : f[x] <= h[x]
                         /\ \A x \in T \ T : 0 <= h[x]
<1>3. TermByTerm
  OBVIOUS
<1> HIDE DEF T
<1>4. SumBy(f, T) <= SumBy(h, T)
  BY ONLY <1>1, <1>3, SumBounds
<1>5. SumBy(f, T) \in Int /\ SumBy(h, T) \in Int
  BY <1>1, <1>3, SumIsInt
<1> QED
  BY <1>1, <1>2, <1>4, <1>5

\* A sum in which one term changes.
LEMMA SumChange ==
  ASSUME NEW S, IsFiniteSet(S), NEW f, NEW g, NEW x \in S,
         \A y \in S : f[y] \in Int /\ g[y] \in Int, \A y \in S \ {x} : g[y] = f[y]
  PROVE  SumBy(g, S) = SumBy(f, S) + (g[x] - f[x])
<1>1. IsFiniteSet(S \ {x})
  BY FS_RemoveElement
<1>2. SumBy(f, S) = SumBy(f, S \ {x}) + f[x] /\ SumBy(g, S) = SumBy(g, S \ {x}) + g[x]
  BY SumRemove
<1>3. SumBy(f, S \ {x}) = SumBy(g, S \ {x}) /\ SumBy(f, S \ {x}) \in Int
  BY <1>1, SumEqual, SumIsInt
<1> QED BY <1>2, <1>3

\* A sum of equal terms.
LEMMA SumOfEquals ==
  ASSUME NEW f, NEW S, IsFiniteSet(S), NEW c \in Int, \A x \in S : f[x] = c
  PROVE  SumBy(f, S) = c * Cardinality(S)
<1>1. \A x \in S : f[x] \in Int /\ f[x] = Line(0, c, f[x])
  BY DEF Line
<1>2. Cardinality(S) \in Nat /\ SumBy(f, S) \in Int
  BY <1>1, FS_CardinalityType, SumIsInt
<1>3. SumBy(f, S) = 0 * SumBy(f, S) + c * Cardinality(S)
  BY <1>1, SumLinear
<1>4. 0 * SumBy(f, S) = 0 /\ c * Cardinality(S) \in Int
  BY <1>2
<1> QED BY <1>3, <1>4
=============================================================================
