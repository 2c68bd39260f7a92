----------------------------- MODULE SumTheorems -----------------------------
(***************************************************************************)
(* Facts about SumFunctionOnSet and SumFunction, the sums of watts that    *)
(* the brains, a rack and the coordinator take (Python's sum()).           *)
(*                                                                         *)
(* The library's induction theorems take the predicate as an operator,     *)
(* which no prover at hand can instantiate.  Here an induction over the    *)
(* subsets of a finite set looks for a minimal member of the set of its    *)
(* counterexamples: strict inclusion of finite sets is well founded, and   *)
(* the theorem that says so has no operator among its parameters.          *)
(***************************************************************************)
EXTENDS Integers, Functions, FiniteSetTheorems, TLAPS

\* A set of subsets of a finite set that is not empty has a minimal member.
LEMMA MinimalSubset ==
  ASSUME NEW S, IsFiniteSet(S), NEW T, T \subseteq SUBSET S, T # {}
  PROVE  \E U \in T : \A V \in T : V \subseteq U => V = U
<1>1. IsWellFoundedOn(StrictSubsetOrdering(S), SUBSET S)
    BY FS_StrictSubsetOrderingWellFounded, FS_FiniteSubsetsOfFinite
<1>2. PICK U \in T : \A V \in T : <<V, U>> \notin StrictSubsetOrdering(S)
    BY <1>1, WFMin
<1>3. ASSUME NEW V \in T,  V \subseteq U
      PROVE  V = U
    <2>1. V # U => <<V, U>> \in StrictSubsetOrdering(S)
        BY <1>3 DEF StrictSubsetOrdering
    <2> QED
        BY <2>1, <1>2
<1> QED
    BY <1>3
---------------------------------------------------------------------------
(***************************************************************************)
(* The recursive function behind a sum.                                    *)
(***************************************************************************)
Chosen(s) == CHOOSE x \in s : TRUE

LEMMA ChosenIn == ASSUME NEW s, s # {} PROVE Chosen(s) \in s
    BY DEF Chosen

\* g gives each subset of U the sum of f over it.
Sums(g, f, U) ==
    g = [s \in SUBSET U |-> IF s = {} THEN 0 ELSE f[Chosen(s)] + g[s \ {Chosen(s)}]]

LEMMA SumsOne ==
  ASSUME NEW f, NEW U, NEW g, Sums(g, f, U), NEW V \in SUBSET U, V # {}
  PROVE  g[V] = f[Chosen(V)] + g[V \ {Chosen(V)}]
    BY DEF Sums

LEMMA SumsNone ==
  ASSUME NEW f, NEW U, NEW g, Sums(g, f, U)
  PROVE  g[{}] = 0
    BY DEF Sums

\* Two of them agree where both are defined.
LEMMA SumsAgree ==
  ASSUME NEW f, NEW U, IsFiniteSet(U), NEW V, NEW g, NEW h, Sums(g, f, U), Sums(h, f, V),
         NEW W \in SUBSET U, W \in SUBSET V
  PROVE  g[W] = h[W]
<1> DEFINE Bad == {X \in SUBSET U : X \subseteq V /\ g[X] # h[X]}
<1> SUFFICES ASSUME Bad # {} PROVE FALSE
    OBVIOUS
<1>1. PICK X \in Bad : \A Y \in Bad : Y \subseteq X => Y = X
    <2>1. Bad \subseteq SUBSET U
        OBVIOUS
    <2> HIDE DEF Bad
    <2> QED
        BY <2>1, MinimalSubset
<1>2. X \subseteq U /\ X \subseteq V /\ g[X] # h[X]
    OBVIOUS
<1>3. X # {}
    BY <1>2, SumsNone
<1>4. g[X \ {Chosen(X)}] = h[X \ {Chosen(X)}]
    BY <1>1, <1>2, <1>3, ChosenIn
<1>5. g[X] = f[Chosen(X)] + g[X \ {Chosen(X)}]
    BY <1>2, <1>3, SumsOne
<1>6. h[X] = f[Chosen(X)] + h[X \ {Chosen(X)}]
    <2>1. X \in SUBSET V
        BY <1>2
    <2> QED
        BY <2>1, <1>3, SumsOne
<1> QED
    BY <1>2, <1>4, <1>5, <1>6

\* There is one for every finite set: put together those of its strict subsets.
LEMMA SumsExist ==
  ASSUME NEW f, NEW S, IsFiniteSet(S)
  PROVE  \E g : Sums(g, f, S)
<1> DEFINE Bad == {U \in SUBSET S : ~ \E g : Sums(g, f, U)}
<1> SUFFICES ASSUME Bad # {} PROVE FALSE
    OBVIOUS
<1>1. PICK U \in Bad : \A V \in Bad : V \subseteq U => V = U
    <2>1. Bad \subseteq SUBSET S
        OBVIOUS
    <2> HIDE DEF Bad
    <2> QED
        BY <2>1, MinimalSubset
<1>2. U \subseteq S /\ \A g : ~ Sums(g, f, U)
    OBVIOUS
<1> DEFINE of == [V \in SUBSET U |-> CHOOSE g : Sums(g, f, V)]
<1>3. ASSUME NEW V \in SUBSET U, V # U
      PROVE  Sums(of[V], f, V)
    <2>1. \E g : Sums(g, f, V)
        BY <1>1, <1>2, <1>3
    <2> QED
        BY <2>1
<1> HIDE DEF of, Bad
<1>4. ASSUME NEW V \in SUBSET U, V # U, NEW W \in SUBSET V
      PROVE  of[V][W] = of[W][W]
    <2>1. Sums(of[V], f, V) /\ Sums(of[W], f, W)
        BY <1>3, <1>4
    <2>2. IsFiniteSet(V)
        BY <1>2, FS_Subset
    <2>3. \A g, h : Sums(g, f, V) /\ Sums(h, f, W) => g[W] = h[W]
        BY <2>2, SumsAgree
    <2> QED
        BY <2>1, <2>3
<1> DEFINE last == U \ {Chosen(U)}
           h == [V \in SUBSET U |-> IF V # U THEN of[V][V]
                                    ELSE IF U = {} THEN 0 ELSE f[Chosen(U)] + of[last][last]]
<1>5. ASSUME NEW V \in SUBSET U
      PROVE  h[V] = IF V = {} THEN 0 ELSE f[Chosen(V)] + h[V \ {Chosen(V)}]
    <2>1. CASE V = {}
        BY <2>1, <1>3, SumsNone
    <2>2. CASE V # {}
        <3> DEFINE W == V \ {Chosen(V)}
        <3>1. W \subseteq V /\ W # U /\ W \subseteq U
            BY <2>2, ChosenIn
        <3>2. h[W] = of[W][W]
            BY <3>1
        <3>3. CASE V = U
            BY <3>2, <3>3, <2>2
        <3>4. CASE V # U
            <4>1. Sums(of[V], f, V)
                BY <1>3, <3>4
            <4> HIDE DEF h
            <4>2. of[V][V] = f[Chosen(V)] + of[V][W]
                BY <4>1, <2>2, SumsOne
            <4>3. of[V][W] = of[W][W]
                BY <1>4, <3>4, <3>1
            <4>4. h[V] = of[V][V]
                BY <3>4 DEF h
            <4> QED
                BY <4>2, <4>3, <4>4, <3>2, <2>2
        <3> QED
            BY <3>3, <3>4
    <2> QED
        BY <2>1, <2>2
<1>6. Sums(h, f, U)
    BY <1>5 DEF Sums
<1> QED
    BY <1>6, <1>2
---------------------------------------------------------------------------
(***************************************************************************)
(* Sums.                                                                   *)
(***************************************************************************)
LEMMA SumIsSums ==
  ASSUME NEW f, NEW S, IsFiniteSet(S)
  PROVE  \E g : Sums(g, f, S) /\ SumFunctionOnSet(f, S) = g[S]
<1> DEFINE h == CHOOSE g : Sums(g, f, S)
<1>1. Sums(h, f, S)
    BY SumsExist
<1>2. SumFunctionOnSet(f, S) = h[S]
    BY DEF SumFunctionOnSet, FoldFunctionOnSet, MapThenFoldSet, Sums, Chosen
<1> QED
    BY <1>1, <1>2

LEMMA SumEmpty == ASSUME NEW f PROVE SumFunctionOnSet(f, {}) = 0
    BY SumIsSums, SumsNone, FS_EmptySet

LEMMA SumChosen ==
  ASSUME NEW f, NEW S, IsFiniteSet(S), S # {}
  PROVE  SumFunctionOnSet(f, S)
            = f[Chosen(S)] + SumFunctionOnSet(f, S \ {Chosen(S)})
<1> DEFINE T == S \ {Chosen(S)}
<1>1. IsFiniteSet(T) /\ T \in SUBSET S /\ T \in SUBSET T
    BY FS_RemoveElement
<1> HIDE DEF T
<1>2. PICK g : Sums(g, f, S) /\ SumFunctionOnSet(f, S) = g[S]
    BY SumIsSums
<1>3. PICK h : Sums(h, f, T) /\ SumFunctionOnSet(f, T) = h[T]
    BY <1>1, SumIsSums
<1>4. g[T] = h[T]
    <2>1. \A a, b : Sums(a, f, S) /\ Sums(b, f, T) => a[T] = b[T]
        BY <1>1, SumsAgree
    <2> QED
        BY <2>1, <1>2, <1>3
<1>5. g[S] = f[Chosen(S)] + g[T]
    <2>1. S \in SUBSET S
        OBVIOUS
    <2>2. Sums(g, f, S)
        BY <1>2
    <2>3. g[S] = f[Chosen(S)] + g[S \ {Chosen(S)}]
        BY ONLY <2>1, <2>2, S # {} DEF Sums
    <2> QED
        BY <2>3 DEF T
<1> QED
    BY <1>2, <1>3, <1>4, <1>5 DEF T

\* A sum of integers is one.
LEMMA SumInt ==
  ASSUME NEW f, NEW S, IsFiniteSet(S), \A x \in S : f[x] \in Int
  PROVE  SumFunctionOnSet(f, S) \in Int
<1> DEFINE Bad == {T \in SUBSET S : SumFunctionOnSet(f, T) \notin Int}
<1> SUFFICES ASSUME Bad # {} PROVE FALSE
    OBVIOUS
<1>1. PICK T \in Bad : \A V \in Bad : V \subseteq T => V = T
    <2>1. Bad \subseteq SUBSET S
        OBVIOUS
    <2> HIDE DEF Bad
    <2> QED
        BY <2>1, MinimalSubset
<1>2. IsFiniteSet(T) /\ T \subseteq S /\ T # {}
    <2>1. SumFunctionOnSet(f, {}) \in Int
        BY SumEmpty
    <2> QED
        BY <2>1, FS_Subset
<1>3. f[Chosen(T)] \in Int /\ Chosen(T) \in T
    BY <1>2, ChosenIn
<1>4. SumFunctionOnSet(f, T \ {Chosen(T)}) \in Int
    BY <1>1, <1>2, <1>3
<1>5. SumFunctionOnSet(f, T) = f[Chosen(T)] + SumFunctionOnSet(f, T \ {Chosen(T)})
    BY <1>2, SumChosen
<1> QED
    BY <1>3, <1>4, <1>5

\* Any member of the set may be the first to be added.
LEMMA SumRemove ==
  ASSUME NEW f, NEW S, IsFiniteSet(S), \A x \in S : f[x] \in Int, NEW y \in S
  PROVE  SumFunctionOnSet(f, S) = f[y] + SumFunctionOnSet(f, S \ {y})
<1> DEFINE Off(T) == T # {} /\ \E z \in T : SumFunctionOnSet(f, T) # f[z] + SumFunctionOnSet(f, T \ {z})
           Bad == {T \in SUBSET S : Off(T)}
<1> SUFFICES ASSUME Bad # {} PROVE FALSE
    BY FS_Subset
<1>1. PICK T \in Bad : \A V \in Bad : V \subseteq T => V = T
    <2>1. Bad \subseteq SUBSET S
        OBVIOUS
    <2> HIDE DEF Bad
    <2> QED
        BY <2>1, MinimalSubset
<1>2. IsFiniteSet(T) /\ T \subseteq S /\ T # {}
    BY FS_Subset
<1>3. PICK z \in T : SumFunctionOnSet(f, T) # f[z] + SumFunctionOnSet(f, T \ {z})
    OBVIOUS
<1> DEFINE c == Chosen(T)
           U == T \ {c}
<1>4. c \in T
    BY <1>2, ChosenIn
<1>5. SumFunctionOnSet(f, T) = f[c] + SumFunctionOnSet(f, U)
    BY <1>2, SumChosen
<1>6. z # c
    BY <1>3, <1>5
<1>7. SumFunctionOnSet(f, U) = f[z] + SumFunctionOnSet(f, U \ {z})
    <2>1. U \notin Bad /\ U \in SUBSET S /\ z \in U
        BY <1>1, <1>2, <1>4, <1>6
    <2> QED
        BY <2>1
<1>8. SumFunctionOnSet(f, T \ {z}) = f[c] + SumFunctionOnSet(f, U \ {z})
    <2>1. T \ {z} \notin Bad /\ T \ {z} \in SUBSET S /\ c \in T \ {z}
        BY <1>1, <1>2, <1>4, <1>6
    <2>2. (T \ {z}) \ {c} = U \ {z}
        OBVIOUS
    <2> QED
        BY <2>1, <2>2
<1>9. f[c] \in Int /\ f[z] \in Int /\ SumFunctionOnSet(f, U \ {z}) \in Int
    <2>1. IsFiniteSet(U \ {z}) /\ \A x \in U \ {z} : f[x] \in Int
        BY <1>2, FS_RemoveElement
    <2> QED
        BY <2>1, <1>2, <1>4, SumInt
<1> QED
    BY <1>3, <1>5, <1>7, <1>8, <1>9

\* What holds of each value holds of the sum: the values of g are bounded by a
\* multiple of those of f and a part of their own.
LEMMA SumBound ==
  ASSUME NEW S, IsFiniteSet(S), NEW f, NEW g,
         \A x \in S : f[x] \in Int /\ g[x] \in Int,
         NEW t \in Int, NEW k \in Int, NEW c \in Int,
         \A x \in S : t * g[x] <= k * f[x] + c
  PROVE  t * SumFunctionOnSet(g, S) <= k * SumFunctionOnSet(f, S) + c * Cardinality(S)
<1> DEFINE F(T) == SumFunctionOnSet(f, T)
           G(T) == SumFunctionOnSet(g, T)
           Bad == {T \in SUBSET S : ~ t * G(T) <= k * F(T) + c * Cardinality(T)}
<1> SUFFICES ASSUME Bad # {} PROVE FALSE
    OBVIOUS
<1>1. PICK T \in Bad : \A V \in Bad : V \subseteq T => V = T
    <2>1. Bad \subseteq SUBSET S
        OBVIOUS
    <2> HIDE DEF Bad
    <2> QED
        BY <2>1, MinimalSubset
<1>2. IsFiniteSet(T) /\ T \subseteq S
    BY FS_Subset
<1>3. T # {}
    <2>1. F({}) = 0 /\ G({}) = 0 /\ Cardinality({}) = 0
        BY SumEmpty, FS_EmptySet
    <2>2. {} \notin Bad
        BY <2>1
    <2> QED
        BY <2>2
<1>4. PICK z : z \in T
    BY <1>3
<1> DEFINE U == T \ {z}
<1>5. t * G(U) <= k * F(U) + c * Cardinality(U)
    BY <1>1, <1>2, <1>4
<1>6. IsFiniteSet(U) /\ Cardinality(U) \in Int /\ Cardinality(T) = Cardinality(U) + 1
    <2>1. IsFiniteSet(U) /\ Cardinality(U) = Cardinality(T) - 1
        BY <1>2, <1>4, FS_RemoveElement
    <2>2. Cardinality(T) \in Nat /\ Cardinality(U) \in Nat
        BY <1>2, <2>1, FS_CardinalityType
    <2> QED
        BY <2>1, <2>2
<1>7. F(U) \in Int /\ G(U) \in Int
    BY <1>2, <1>6, SumInt
<1>8. F(T) = f[z] + F(U) /\ G(T) = g[z] + G(U)
    BY <1>2, <1>4, SumRemove
<1>9. f[z] \in Int /\ g[z] \in Int /\ t * g[z] <= k * f[z] + c
    BY <1>2, <1>4
<1>10. ~ t * G(T) <= k * F(T) + c * Cardinality(T)
    OBVIOUS
<1> HIDE DEF F, G, U, Bad
<1>11. t * (g[z] + G(U)) = t * g[z] + t * G(U)
    BY <1>7, <1>9
<1>12. k * (f[z] + F(U)) = k * f[z] + k * F(U)
    BY <1>7, <1>9
<1>13. c * (Cardinality(U) + 1) = c * Cardinality(U) + c
    BY <1>6
<1>14. t * G(U) \in Int /\ k * F(U) \in Int /\ c * Cardinality(U) \in Int
       /\ t * g[z] \in Int /\ k * f[z] \in Int
    BY <1>6, <1>7, <1>9
<1> QED
    BY <1>5, <1>6, <1>8, <1>9, <1>10, <1>11, <1>12, <1>13, <1>14

\* Sums of smaller values are smaller.
LEMMA SumMonotonic ==
  ASSUME NEW S, IsFiniteSet(S), NEW f, NEW g,
         \A x \in S : f[x] \in Int /\ g[x] \in Int /\ g[x] <= f[x]
  PROVE  SumFunctionOnSet(g, S) <= SumFunctionOnSet(f, S)
<1>1. \A x \in S : 1 * g[x] <= 1 * f[x] + 0
    OBVIOUS
<1>2. 1 * SumFunctionOnSet(g, S) <= 1 * SumFunctionOnSet(f, S) + 0 * Cardinality(S)
    <2>1. 0 \in Int /\ 1 \in Int
        OBVIOUS
    <2> QED
        BY <1>1, <2>1, SumBound
<1>3. SumFunctionOnSet(f, S) \in Int /\ SumFunctionOnSet(g, S) \in Int
      /\ Cardinality(S) \in Int
    BY SumInt, FS_CardinalityType
<1> QED
    BY <1>2, <1>3

LEMMA SumSame ==
  ASSUME NEW S, IsFiniteSet(S), NEW f, NEW g,
         \A x \in S : f[x] \in Int /\ g[x] = f[x]
  PROVE  SumFunctionOnSet(g, S) = SumFunctionOnSet(f, S)
<1>1. SumFunctionOnSet(f, S) \in Int /\ SumFunctionOnSet(g, S) \in Int
    BY SumInt
<1>2. \A x \in S : f[x] \in Int /\ g[x] \in Int /\ g[x] <= f[x] /\ f[x] <= g[x]
    OBVIOUS
<1>3. SumFunctionOnSet(g, S) <= SumFunctionOnSet(f, S)
    BY <1>2, SumMonotonic
<1>4. SumFunctionOnSet(f, S) <= SumFunctionOnSet(g, S)
    BY <1>2, SumMonotonic
<1> QED
    BY <1>1, <1>3, <1>4

LEMMA SumNat ==
  ASSUME NEW f, NEW S, IsFiniteSet(S), \A x \in S : f[x] \in Nat
  PROVE  SumFunctionOnSet(f, S) \in Nat
<1>1. \A x \in S : f[x] \in Int /\ 0 * f[x] <= 1 * f[x] + 0
    OBVIOUS
<1>2. 0 * SumFunctionOnSet(f, S) <= 1 * SumFunctionOnSet(f, S) + 0 * Cardinality(S)
    <2>1. 0 \in Int /\ 1 \in Int
        OBVIOUS
    <2> QED
        BY <1>1, <2>1, SumBound
<1>3. SumFunctionOnSet(f, S) \in Int /\ Cardinality(S) \in Int
    BY <1>1, SumInt, FS_CardinalityType
<1> QED
    BY <1>2, <1>3

\* Two sets that share nothing add up.
LEMMA SumUnion ==
  ASSUME NEW f, NEW S, NEW T, IsFiniteSet(S), IsFiniteSet(T), S \cap T = {},
         \A x \in S \cup T : f[x] \in Int
  PROVE  SumFunctionOnSet(f, S \cup T) = SumFunctionOnSet(f, S) + SumFunctionOnSet(f, T)
<1> DEFINE Bad == {U \in SUBSET T : SumFunctionOnSet(f, S \cup U)
                                       # SumFunctionOnSet(f, S) + SumFunctionOnSet(f, U)}
<1> SUFFICES ASSUME Bad # {} PROVE FALSE
    OBVIOUS
<1>1. PICK U \in Bad : \A V \in Bad : V \subseteq U => V = U
    <2>1. Bad \subseteq SUBSET T
        OBVIOUS
    <2> HIDE DEF Bad
    <2> QED
        BY <2>1, MinimalSubset
<1>2. IsFiniteSet(U) /\ U \subseteq T
    BY FS_Subset
<1>3. IsFiniteSet(S \cup U) /\ \A x \in S \cup U : f[x] \in Int
    BY <1>2, FS_Union
<1>4. SumFunctionOnSet(f, S) \in Int
    BY SumInt
<1>5. U # {}
    <2>1. S \cup {} = S
        OBVIOUS
    <2>2. SumFunctionOnSet(f, S) + 0 = SumFunctionOnSet(f, S)
        BY <1>4
    <2>3. {} \notin Bad
        BY <2>1, <2>2, SumEmpty
    <2> QED
        BY <2>3
<1>6. PICK z : z \in U
    BY <1>5
<1> DEFINE W == U \ {z}
<1>7. SumFunctionOnSet(f, S \cup W) = SumFunctionOnSet(f, S) + SumFunctionOnSet(f, W)
    BY <1>1, <1>2, <1>6
<1>8. SumFunctionOnSet(f, U) = f[z] + SumFunctionOnSet(f, W)
    BY <1>2, <1>3, <1>6, SumRemove
<1>9. SumFunctionOnSet(f, S \cup U) = f[z] + SumFunctionOnSet(f, S \cup W)
    <2>1. z \in S \cup U /\ (S \cup U) \ {z} = S \cup W
        BY <1>2, <1>6
    <2>2. SumFunctionOnSet(f, S \cup U) = f[z] + SumFunctionOnSet(f, (S \cup U) \ {z})
        BY <1>3, <2>1, SumRemove
    <2> QED
        BY <2>1, <2>2
<1>10. f[z] \in Int /\ SumFunctionOnSet(f, W) \in Int
    BY <1>2, <1>3, <1>6, FS_RemoveElement, SumInt
<1>11. SumFunctionOnSet(f, S \cup U) # SumFunctionOnSet(f, S) + SumFunctionOnSet(f, U)
    OBVIOUS
<1> HIDE DEF Bad, W
<1> QED
    BY <1>4, <1>7, <1>8, <1>9, <1>10, <1>11

\* A part of a set of numbers that are not negative sums to no more.
LEMMA SumPart ==
  ASSUME NEW f, NEW S, IsFiniteSet(S), \A x \in S : f[x] \in Nat, NEW T \in SUBSET S
  PROVE  SumFunctionOnSet(f, T) <= SumFunctionOnSet(f, S)
<1> DEFINE U == S \ T
<1>1. IsFiniteSet(T) /\ IsFiniteSet(U) /\ T \cap U = {} /\ T \cup U = S
    BY FS_Subset
<1>2. \A x \in T \cup U : f[x] \in Int
    OBVIOUS
<1> HIDE DEF U
<1>3. SumFunctionOnSet(f, S) = SumFunctionOnSet(f, T) + SumFunctionOnSet(f, U)
    <2>1. SumFunctionOnSet(f, T \cup U) = SumFunctionOnSet(f, T) + SumFunctionOnSet(f, U)
        BY <1>1, <1>2, SumUnion
    <2> QED
        BY <2>1, <1>1
<1>4. SumFunctionOnSet(f, U) \in Nat /\ SumFunctionOnSet(f, T) \in Nat
    BY <1>1, SumNat
<1> QED
    BY <1>1, <1>3, <1>4

\* The parts of a set, summed one by one, sum to what the set sums to.
LEMMA SumOfParts ==
  ASSUME NEW S, IsFiniteSet(S), NEW f, \A x \in S : f[x] \in Int,
         NEW T, IsFiniteSet(T), NEW P \in [T -> SUBSET S],
         \A t, u \in T : t # u => P[t] \cap P[u] = {},
         NEW h, \A t \in T : h[t] = SumFunctionOnSet(f, P[t])
  PROVE  SumFunctionOnSet(f, UNION {P[t] : t \in T}) = SumFunctionOnSet(h, T)
<1> DEFINE All(W) == UNION {P[t] : t \in W}
           Bad == {W \in SUBSET T : SumFunctionOnSet(f, All(W)) # SumFunctionOnSet(h, W)}
<1>1. \A W \in SUBSET T : IsFiniteSet(All(W)) /\ All(W) \subseteq S
    <2> SUFFICES ASSUME NEW W \in SUBSET T PROVE IsFiniteSet(All(W)) /\ All(W) \subseteq S
        OBVIOUS
    <2>1. All(W) \subseteq S
        OBVIOUS
    <2> QED
        BY <2>1, FS_Subset
<1>2. \A t \in T : h[t] \in Int
    <2> SUFFICES ASSUME NEW t \in T PROVE h[t] \in Int
        OBVIOUS
    <2>1. IsFiniteSet(P[t]) /\ \A x \in P[t] : f[x] \in Int
        BY FS_Subset
    <2> QED
        BY <2>1, SumInt
<1> SUFFICES ASSUME Bad # {} PROVE FALSE
    OBVIOUS
<1>3. PICK W \in Bad : \A V \in Bad : V \subseteq W => V = W
    <2>1. Bad \subseteq SUBSET T
        OBVIOUS
    <2> HIDE DEF Bad
    <2> QED
        BY <2>1, MinimalSubset
<1>4. W \in SUBSET T /\ IsFiniteSet(W) /\ SumFunctionOnSet(f, All(W)) # SumFunctionOnSet(h, W)
    BY FS_Subset
<1>5. W # {}
    <2>1. All({}) = {}
        OBVIOUS
    <2>2. {} \notin Bad
        BY <2>1, SumEmpty
    <2> QED
        BY <2>2
<1>6. PICK t : t \in W
    BY <1>5
<1> DEFINE V == W \ {t}
<1>7. V \in SUBSET T /\ SumFunctionOnSet(f, All(V)) = SumFunctionOnSet(h, V)
    BY <1>3, <1>4, <1>6
<1> HIDE DEF Bad
<1>8. All(W) = P[t] \cup All(V)
    BY <1>6
<1>9. P[t] \cap All(V) = {}
    BY <1>4, <1>6
<1>10. IsFiniteSet(P[t]) /\ P[t] \subseteq S /\ IsFiniteSet(All(V)) /\ All(V) \subseteq S
    BY <1>1, <1>4, <1>6, <1>7, FS_Subset
<1>11. SumFunctionOnSet(h, W) = h[t] + SumFunctionOnSet(h, V)
    BY <1>2, <1>4, <1>6, SumRemove
<1>12. h[t] = SumFunctionOnSet(f, P[t])
    BY <1>4, <1>6
<1> HIDE DEF All, V
<1>13. \A x \in P[t] \cup All(V) : f[x] \in Int
    BY <1>10
<1>14. SumFunctionOnSet(f, P[t] \cup All(V)) = SumFunctionOnSet(f, P[t]) + SumFunctionOnSet(f, All(V))
    BY <1>9, <1>10, <1>13, SumUnion
<1> QED
    BY <1>4, <1>7, <1>8, <1>11, <1>12, <1>14
---------------------------------------------------------------------------
(***************************************************************************)
(* Quotients, which are rounded down.                                      *)
(***************************************************************************)
LEMMA DivBounds ==
  ASSUME NEW a \in Int, NEW b \in Int, b > 0
  PROVE  /\ a \div b \in Int
         /\ b * (a \div b) <= a
         /\ a >= 0 => a \div b >= 0
    OBVIOUS

\* The quotient is the greatest number that goes so often into a.
LEMMA DivLeast ==
  ASSUME NEW a \in Int, NEW b \in Int, b > 0, NEW x \in Int, b * x <= a
  PROVE  x <= a \div b
<1> DEFINE q == a \div b
<1>1. q \in Int /\ a < b * q + b
    OBVIOUS
<1> HIDE DEF q
<1>2. b * x < b * (q + 1)
    BY <1>1
<1>3. x < q + 1
    BY <1>1, <1>2
<1> QED
    BY <1>1, <1>3 DEF q

\* A part of a whole is no more than it.
LEMMA PartOf ==
  ASSUME NEW a \in Nat, NEW b \in Nat, b > 0, NEW m \in Nat, a <= m * b
  PROVE  a \div b \in 0 .. m
<1>1. a \div b \in Int /\ b * (a \div b) <= a /\ a \div b >= 0
    BY DivBounds
<1>2. b * (a \div b) <= b * m
    BY <1>1
<1> QED
    BY <1>1, <1>2
==============================================================================
