-------------------------- MODULE BrainLoop_proofs --------------------------
(***************************************************************************)
(* Proofs about the brains and the loop, for any number of GPUs, any       *)
(* tuning, budget and load.                                                *)
(***************************************************************************)
EXTENDS BrainLoop, SumTheorems

LEMMA TimesType ==
  ASSUME NEW q, IsFraction(q), NEW w \in Nat
  PROVE  Times(q, w) \in Nat
<1>1. q[1] \in Nat /\ q[2] \in Nat /\ q[2] > 0
    BY DEF IsFraction
<1>2. q[1] * w \in Nat
    BY <1>1
<1> QED
    BY <1>1, <1>2, DivBounds DEF Times
---------------------------------------------------------------------------
(***************************************************************************)
(* One decision of PRS.                                                    *)
(***************************************************************************)
Watts == 0 .. HwMax

\* What a brain has seen or decided of some of the GPUs in G.
Records(G) == UNION {[S -> Watts] : S \in SUBSET G}

IsPRS(b, G) ==
    /\ DOMAIN b = {"alpha", "rate", "ewma", "last"}
    /\ IsAlpha(b.alpha) /\ b.rate \in Nat
    /\ b.ewma \in Records(G) /\ b.last \in Records(G)

LEMMA RecordsType ==
  ASSUME NEW G, NEW f
  PROVE  f \in Records(G) <=> DOMAIN f \subseteq G /\ f \in [DOMAIN f -> Watts]
    BY DEF Records

LEMMA WattsNat == ASSUME NEW G, NEW f \in [G -> Watts] PROVE f \in [G -> Nat]
    BY DEF Watts

\* The averages stay between what they average.
LEMMA BlendedType ==
  ASSUME NEW G, NEW alpha, IsAlpha(alpha), NEW ewma \in Records(G), NEW draw \in [G -> Watts]
  PROVE  Blended(alpha, ewma, draw) \in [G -> Watts]
<1>0. HwMax \in Nat
    BY LoopParameters
<1> DEFINE Prev(g) == IF g \in DOMAIN ewma THEN ewma[g] ELSE draw[g]
           Blend(g) == (alpha[1] * draw[g] + (alpha[2] - alpha[1]) * Prev(g)) \div alpha[2]
<1>1. DOMAIN ewma \subseteq G /\ \A g \in DOMAIN ewma : ewma[g] \in Watts
    BY RecordsType
<1>2. alpha[1] \in Nat /\ alpha[2] \in Nat /\ alpha[2] > 0 /\ alpha[2] - alpha[1] \in Nat
    BY DEF IsAlpha, IsFraction
<1>3. ASSUME NEW g \in G PROVE Blend(g) \in Watts
    <2> DEFINE p == Prev(g)
               d == draw[g]
               b == alpha[2] - alpha[1]
    <2>1. p \in Nat /\ p <= HwMax /\ d \in Nat /\ d <= HwMax
        BY <1>0, <1>1 DEF Watts
    <2> HIDE DEF p, d
    <2>2. b \in Nat /\ alpha[1] * HwMax + b * HwMax = HwMax * alpha[2]
        BY <1>0, <1>2
    <2> HIDE DEF b
    <2>3. alpha[1] * d \in Nat /\ alpha[1] * d <= alpha[1] * HwMax
        BY <1>0, <1>2, <2>1
    <2>4. b * p \in Nat /\ b * p <= b * HwMax
        BY <1>0, <2>1, <2>2
    <2>5. alpha[1] * HwMax \in Nat /\ b * HwMax \in Nat
        BY <1>0, <1>2, <2>2
    <2>6. alpha[1] * d + b * p \in Nat /\ alpha[1] * d + b * p <= HwMax * alpha[2]
        BY <2>2, <2>3, <2>4, <2>5
    <2>7. (alpha[1] * d + b * p) \div alpha[2] \in 0 .. HwMax
        BY <1>0, <1>2, <2>6, PartOf
    <2> QED
        BY <2>7 DEF Watts, p, d, b
<1>4. Blended(alpha, ewma, draw) = [g \in DOMAIN ewma \cup G |-> IF g \in G THEN Blend(g) ELSE ewma[g]]
    BY DEF Blended
<1>5. DOMAIN ewma \cup G = G
    BY <1>1
<1> HIDE DEF Blend
<1> QED
    BY <1>3, <1>4, <1>5

LEMMA IdleCapType ==
  ASSUME NEW e \in Watts, NEW m \in Watts
  PROVE  IdleCap(e, m) \in Watts
<1>1. HwMax \in Nat /\ MinCap \in Nat /\ e \in Nat
    BY LoopParameters, BrainParameters DEF Watts
<1>2. Times(Margin, e) \in Nat
    BY <1>1, TimesType, BrainParameters
<1> QED
    BY <1>1, <1>2 DEF IdleCap, Least, Most, Watts

LEMMA HotCapsType ==
  ASSUME NEW G, IsFiniteSet(G), NEW hot \in SUBSET G, NEW budget \in Nat,
         NEW ewma \in [G -> Watts], NEW max \in [G -> Watts]
  PROVE  HotCaps(hot, budget, ewma, max) \in [hot -> Watts]
<1> DEFINE total == SumFunctionOnSet(ewma, hot)
           Share(g) == IF total > 0 THEN (ewma[g] * budget) \div total
                                    ELSE budget \div Cardinality(hot)
<1>1. HwMax \in Nat /\ MinCap \in Nat /\ MinCap <= HwMax
    BY LoopParameters, BrainParameters
<1>2. IsFiniteSet(hot)
    BY FS_Subset
<1>3. total \in Nat
    BY <1>1, <1>2, SumNat DEF Watts
<1>4. ASSUME NEW g \in hot PROVE Share(g) \in Int
    <2>1. Cardinality(hot) \in Nat /\ Cardinality(hot) > 0
        BY <1>2, FS_CardinalityType, FS_EmptySet
    <2>2. ewma[g] * budget \in Int
        BY <1>1 DEF Watts
    <2> HIDE DEF total
    <2> QED
        BY <1>3, <2>1, <2>2, DivBounds
<1>5. HotCaps(hot, budget, ewma, max) = [g \in hot |-> Most(MinCap, Least(max[g], Share(g)))]
    BY DEF HotCaps
<1> HIDE DEF Share
<1>6. ASSUME NEW g \in hot PROVE Most(MinCap, Least(max[g], Share(g))) \in Watts
    BY <1>1, <1>4 DEF Most, Least, Watts
<1> QED
    BY <1>5, <1>6

LEMMA PRSTargetsType ==
  ASSUME NEW G, IsFiniteSet(G), NEW budget \in Nat, NEW ewma \in [G -> Watts],
         NEW cap \in [G -> Watts], NEW max \in [G -> Watts]
  PROVE  PRSTargets(budget, ewma, cap, max) \in [G -> Watts]
<1> DEFINE hot == HotGpus(ewma, cap)
           idleCaps == [g \in G \ hot |-> IdleCap(ewma[g], max[g])]
           hotBudget == Most(0, budget - SumFunction(idleCaps))
           hotCaps == HotCaps(hot, hotBudget, ewma, max)
<1>1. hot \in SUBSET G
    BY DEF HotGpus
<1>2. PRSTargets(budget, ewma, cap, max)
        = [g \in G |-> IF g \in hot THEN hotCaps[g] ELSE idleCaps[g]]
    BY DEF PRSTargets
<1>3. \A g \in G \ hot : idleCaps[g] \in Watts
    BY IdleCapType
<1>4. hotBudget \in Nat
    <2>1. IsFiniteSet(G \ hot)
        BY FS_Difference
    <2>2. SumFunction(idleCaps) = SumFunctionOnSet(idleCaps, G \ hot)
        BY DEF SumFunction
    <2>3. \A g \in G \ hot : idleCaps[g] \in Int
        BY <1>3 DEF Watts
    <2> HIDE DEF idleCaps
    <2>4. SumFunctionOnSet(idleCaps, G \ hot) \in Int
        BY <2>1, <2>3, SumInt
    <2> QED
        BY <2>2, <2>4 DEF Most
<1>5. hotCaps \in [hot -> Watts]
    <2> HIDE DEF hot, hotBudget
    <2> QED
        BY <1>1, <1>4, HotCapsType
<1> HIDE DEF hot, idleCaps, hotCaps
<1> QED
    BY <1>2, <1>3, <1>5

\* The idle GPUs above the floor keep a fixed part of the caps they held.
LEMMA IdleShrinks ==
  ASSUME NEW G, IsFiniteSet(G), NEW ewma \in [G -> Watts], NEW cap \in [G -> Watts],
         \A g \in G : cap[g] > 0, NEW f, NEW N \in SUBSET G,
         \A g \in N : /\ g \notin HotGpus(ewma, cap)
                      /\ \E m \in Watts : f[g] = IdleCap(ewma[g], m)
                      /\ f[g] > MinCap
  PROVE  SumFunctionOnSet(f, N) <= Times(Retained, SumFunction(cap))
<1> DEFINE t == HotRatio[2] * Margin[2]
           k == HotRatio[1] * (Margin[1] + Margin[2])
           total == SumFunctionOnSet(cap, G)
<1>1. HwMax \in Nat /\ MinCap \in Nat
    BY LoopParameters, BrainParameters
<1>2. /\ HotRatio[1] \in Nat /\ HotRatio[2] \in Nat /\ HotRatio[2] > 0
      /\ Margin[1] \in Nat /\ Margin[2] \in Nat /\ Margin[2] > 0
    BY BrainParameters DEF IsFraction
<1>3. t \in Nat /\ t > 0 /\ k \in Nat
    <2>1. Margin[1] + Margin[2] \in Nat
        BY <1>2
    <2> QED
        BY <1>2, <2>1
<1>4. IsFiniteSet(N)
    BY FS_Subset
<1>5. ASSUME NEW g \in N
      PROVE  cap[g] \in Nat /\ f[g] \in Int /\ t * f[g] <= k * cap[g] + 0
    <2> DEFINE e == ewma[g]
               c == cap[g]
               kept == (Margin[1] * e) \div Margin[2]
               near == Margin[1] + Margin[2]
    <2>1. e \in Nat /\ c \in Nat /\ c > 0
        BY WattsNat
    <2>2. ~ (e * HotRatio[2] >= HotRatio[1] * c)
        BY <1>5, <2>1 DEF HotGpus, AtLeast
    <2>3. PICK m \in Watts : f[g] = IdleCap(e, m)
        OBVIOUS
    <2>4. f[g] = Least(Most(MinCap, e + kept), m) /\ f[g] > MinCap
        BY <2>3 DEF IdleCap, Times
    <2> HIDE DEF e, c
    <2>5. Margin[1] * e \in Nat
        BY <1>2, <2>1
    <2>6. kept \in Nat /\ Margin[2] * kept <= Margin[1] * e
        BY <1>2, <2>5, DivBounds
    <2> HIDE DEF kept
    <2>7. f[g] \in Nat /\ f[g] <= e + kept
        BY <1>1, <2>1, <2>4, <2>6 DEF Least, Most, Watts
    <2>8. Margin[2] * f[g] <= near * e
        <3>1. Margin[2] * f[g] <= Margin[2] * (e + kept)
            BY <1>2, <2>1, <2>6, <2>7
        <3>2. Margin[2] * (e + kept) = Margin[2] * e + Margin[2] * kept
            BY <1>2, <2>1, <2>6
        <3>3. near * e = Margin[1] * e + Margin[2] * e
            BY <1>2, <2>1
        <3>4. Margin[2] * f[g] \in Nat /\ Margin[2] * e \in Nat /\ Margin[2] * kept \in Nat
            BY <1>2, <2>1, <2>6, <2>7
        <3> HIDE DEF near
        <3> QED
            BY <2>5, <2>6, <3>1, <3>2, <3>3, <3>4
    <2>9. near \in Nat
        BY <1>2
    <2> HIDE DEF near
    <2>10. HotRatio[2] * (Margin[2] * f[g]) <= HotRatio[2] * (near * e)
        <3>1. Margin[2] * f[g] \in Nat /\ near * e \in Nat
            BY <1>2, <2>1, <2>7, <2>9
        <3> QED
            BY <1>2, <2>8, <3>1
    <2>11. near * (HotRatio[2] * e) <= near * (HotRatio[1] * c)
        <3>1. HotRatio[2] * e \in Nat /\ HotRatio[1] * c \in Nat
            BY <1>2, <2>1
        <3>2. HotRatio[2] * e <= HotRatio[1] * c
            <4>1. e * HotRatio[2] = HotRatio[2] * e
                BY <1>2, <2>1
            <4> QED
                BY <2>2, <3>1, <4>1
        <3> QED
            BY <2>9, <3>1, <3>2
    <2>12. /\ HotRatio[2] * (near * e) = near * (HotRatio[2] * e)
           /\ HotRatio[2] * (Margin[2] * f[g]) = (HotRatio[2] * Margin[2]) * f[g]
           /\ near * (HotRatio[1] * c) = (HotRatio[1] * near) * c
        BY <1>2, <2>1, <2>7, <2>9
    <2>13. /\ near * (HotRatio[2] * e) \in Nat /\ (HotRatio[2] * Margin[2]) * f[g] \in Nat
           /\ (HotRatio[1] * near) * c \in Nat
        <3>1. HotRatio[2] * e \in Nat /\ HotRatio[2] * Margin[2] \in Nat /\ HotRatio[1] * near \in Nat
            BY <1>2, <2>1, <2>9
        <3> QED
            BY <2>1, <2>7, <2>9, <3>1
    <2>14. (HotRatio[2] * Margin[2]) * f[g] <= (HotRatio[1] * near) * c
        BY <2>10, <2>11, <2>12, <2>13
    <2> QED
        BY <2>1, <2>7, <2>13, <2>14 DEF near, c
<1>6. cap \in [G -> Nat]
    BY WattsNat
<1>7. total \in Nat
    BY <1>6, SumNat
<1> HIDE DEF t, k
<1>8. t * SumFunctionOnSet(f, N) <= k * SumFunctionOnSet(cap, N) + 0 * Cardinality(N)
    <2>1. \A g \in N : cap[g] \in Int /\ f[g] \in Int /\ t * f[g] <= k * cap[g] + 0
        BY <1>5
    <2>2. t \in Int /\ k \in Int /\ 0 \in Int
        BY <1>3
    <2> QED
        BY <1>4, <2>1, <2>2, SumBound
<1>9. /\ SumFunctionOnSet(f, N) \in Int /\ SumFunctionOnSet(cap, N) \in Int
      /\ Cardinality(N) \in Int
    <2>1. \A g \in N : cap[g] \in Int /\ f[g] \in Int
        BY <1>5
    <2> QED
        BY <1>4, <2>1, SumInt, FS_CardinalityType
<1>10. SumFunctionOnSet(cap, N) <= total
    BY <1>6, SumPart
<1>11. t * SumFunctionOnSet(f, N) <= k * total
    <2> HIDE DEF total
    <2>1. k * SumFunctionOnSet(cap, N) <= k * total
        BY <1>3, <1>7, <1>9, <1>10
    <2>2. k * SumFunctionOnSet(cap, N) \in Int /\ t * SumFunctionOnSet(f, N) \in Int /\ k * total \in Int
        BY <1>3, <1>7, <1>9
    <2> QED
        BY <1>8, <1>9, <2>1, <2>2
<1>12. SumFunctionOnSet(f, N) <= (k * total) \div t
    <2>1. k * total \in Int /\ t \in Int
        BY <1>3, <1>7
    <2> HIDE DEF total
    <2> QED
        BY <1>3, <1>9, <1>11, <2>1, DivLeast
<1>13. SumFunction(cap) = total
    BY DEF SumFunction
<1> QED
    BY <1>12, <1>13 DEF Times, Retained, t, k

LEMMA SomeOf ==
  ASSUME NEW S, IsFiniteSet(S), NEW x \in S
  PROVE  Cardinality(S) \in Nat /\ Cardinality(S) > 0
    BY FS_CardinalityType, FS_EmptySet

LEMMA RetainedType == IsFraction(Retained)
<1>1. /\ HotRatio[1] \in Nat /\ HotRatio[2] \in Nat /\ HotRatio[2] > 0
      /\ Margin[1] \in Nat /\ Margin[2] \in Nat /\ Margin[2] > 0
    BY BrainParameters DEF IsFraction
<1>2. Margin[1] + Margin[2] \in Nat
    BY <1>1
<1>3. HotRatio[1] * (Margin[1] + Margin[2]) \in Nat /\ HotRatio[2] * Margin[2] \in Nat \ {0}
    BY <1>1, <1>2
<1> QED
    BY <1>3 DEF Retained, IsFraction

\* The targets above the floor fit the budget, or else the idle GPUs alone do not.
LEMMA PRSTargetsShrink ==
  ASSUME NEW G, IsFiniteSet(G), NEW budget \in Nat, NEW ewma \in [G -> Watts],
         NEW cap \in [G -> Watts], NEW max \in [G -> Watts], \A g \in G : cap[g] > 0,
         NEW N \in SUBSET G,
         \A g \in N : PRSTargets(budget, ewma, cap, max)[g] > MinCap
  PROVE  SumFunctionOnSet(PRSTargets(budget, ewma, cap, max), N)
            <= Most(budget, Times(Retained, SumFunction(cap)))
<1> DEFINE targets == PRSTargets(budget, ewma, cap, max)
           hot == HotGpus(ewma, cap)
           idleCaps == [g \in G \ hot |-> IdleCap(ewma[g], max[g])]
           reserved == SumFunction(idleCaps)
           hotBudget == Most(0, budget - reserved)
           hotCaps == HotCaps(hot, hotBudget, ewma, max)
           total == SumFunctionOnSet(ewma, hot)
           Idle == N \ hot
           Busy == N \cap hot
           kept == Times(Retained, SumFunction(cap))
<1>1. MinCap \in Nat /\ HwMax \in Nat
    BY LoopParameters, BrainParameters
<1>2. hot \in SUBSET G /\ Idle \in SUBSET (G \ hot) /\ Busy \in SUBSET hot
    BY DEF HotGpus
<1>3. /\ IsFiniteSet(hot) /\ IsFiniteSet(G \ hot) /\ IsFiniteSet(Idle) /\ IsFiniteSet(Busy)
      /\ IsFiniteSet(N)
    BY <1>2, FS_Subset
<1>4. targets = [g \in G |-> IF g \in hot THEN hotCaps[g] ELSE idleCaps[g]]
    BY DEF PRSTargets
<1>5. targets \in [G -> Watts]
    BY PRSTargetsType
<1>6. idleCaps \in [G \ hot -> Watts]
    BY IdleCapType
<1>7. reserved = SumFunctionOnSet(idleCaps, G \ hot) /\ reserved \in Nat
    <2>1. reserved = SumFunctionOnSet(idleCaps, G \ hot)
        BY DEF SumFunction
    <2>2. idleCaps \in [G \ hot -> Nat]
        BY <1>6, WattsNat
    <2> HIDE DEF idleCaps, hot
    <2> QED
        BY <1>3, <2>1, <2>2, SumNat
<1> DEFINE Share(g) == IF total > 0 THEN (ewma[g] * hotBudget) \div total
                                    ELSE hotBudget \div Cardinality(hot)
<1>8. hotCaps = [g \in hot |-> Most(MinCap, Least(max[g], Share(g)))]
    BY DEF HotCaps
<1>9. ewma \in [G -> Nat] /\ targets \in [G -> Nat]
    BY <1>5, WattsNat
<1>10. total \in Nat
    <2> HIDE DEF hot
    <2> QED
        BY <1>2, <1>3, <1>9, SumNat
<1>11. hotBudget \in Nat
    BY <1>7 DEF Most
<1>12. \A g \in N : targets[g] > MinCap
    OBVIOUS
<1>13. \A g \in Idle : targets[g] = idleCaps[g]
    BY <1>4
<1> HIDE DEF hot, idleCaps, hotCaps, total, Share, targets, reserved, hotBudget
<1>14. SumFunctionOnSet(targets, Idle) <= reserved
    <2>1. \A g \in Idle : idleCaps[g] \in Int /\ targets[g] = idleCaps[g]
        BY <1>2, <1>6, <1>13 DEF Watts
    <2>2. SumFunctionOnSet(targets, Idle) = SumFunctionOnSet(idleCaps, Idle)
        BY <1>3, <2>1, SumSame
    <2>3. idleCaps \in [G \ hot -> Nat]
        BY <1>6, WattsNat
    <2>4. SumFunctionOnSet(idleCaps, Idle) <= SumFunctionOnSet(idleCaps, G \ hot)
        BY <1>2, <1>3, <2>3, SumPart
    <2> QED
        BY <1>7, <2>2, <2>4
<1>15. SumFunctionOnSet(targets, Idle) <= kept
    <2>1. Idle \in SUBSET G
        BY <1>2
    <2>2. \A g \in Idle : /\ g \notin HotGpus(ewma, cap)
                         /\ \E m \in Watts : targets[g] = IdleCap(ewma[g], m)
                         /\ targets[g] > MinCap
        <3> SUFFICES ASSUME NEW g \in Idle
                     PROVE  /\ g \notin HotGpus(ewma, cap)
                            /\ targets[g] = IdleCap(ewma[g], max[g])
                            /\ targets[g] > MinCap
            BY <2>1
        <3>1. targets[g] = IdleCap(ewma[g], max[g])
            BY <1>2, <1>13 DEF idleCaps
        <3> QED
            BY <1>12, <3>1 DEF hot
    <2> HIDE DEF Idle
    <2> QED
        BY <2>1, <2>2, IdleShrinks
<1>16. \A g \in Busy : targets[g] \in Nat /\ targets[g] <= Share(g) /\ Share(g) \in Nat
    <2> SUFFICES ASSUME NEW g \in Busy
                 PROVE  targets[g] \in Nat /\ targets[g] <= Share(g) /\ Share(g) \in Nat
        OBVIOUS
    <2>1. targets[g] = Most(MinCap, Least(max[g], Share(g))) /\ targets[g] > MinCap
        BY <1>2, <1>4, <1>8, <1>12
    <2>2. Share(g) \in Nat
        <3>1. ewma[g] \in Nat /\ ewma[g] * hotBudget \in Nat
            BY <1>2, <1>9, <1>11
        <3>2. Cardinality(hot) \in Nat /\ Cardinality(hot) > 0
            BY <1>2, <1>3, SomeOf
        <3> QED
            BY <1>10, <1>11, <3>1, <3>2, DivBounds DEF Share
    <2>3. max[g] \in Nat /\ targets[g] \in Nat
        BY <1>2, <1>9, WattsNat
    <2> QED
        BY <1>1, <2>1, <2>2, <2>3 DEF Most, Least
<1>17. SumFunctionOnSet(targets, Busy) \in Nat /\ SumFunctionOnSet(targets, Idle) \in Nat
    <2>1. \A g \in Busy : targets[g] \in Nat
        BY <1>16
    <2>2. \A g \in Idle : targets[g] \in Nat
        BY <1>2, <1>9
    <2> HIDE DEF Busy, Idle
    <2> QED
        BY <1>3, <2>1, <2>2, SumNat
<1>18. SumFunctionOnSet(targets, Busy) <= hotBudget
    <2>1. CASE total > 0
        <3>1. \A g \in Busy : /\ ewma[g] \in Int /\ targets[g] \in Int
                             /\ total * targets[g] <= hotBudget * ewma[g] + 0
            <4> SUFFICES ASSUME NEW g \in Busy
                         PROVE  /\ ewma[g] \in Int /\ targets[g] \in Int
                                /\ total * targets[g] <= hotBudget * ewma[g] + 0
                OBVIOUS
            <4>1. ewma[g] \in Nat
                BY <1>2, <1>9
            <4>2. ewma[g] * hotBudget \in Nat /\ hotBudget * ewma[g] = ewma[g] * hotBudget
                BY <1>11, <4>1
            <4>3. Share(g) = (ewma[g] * hotBudget) \div total
                BY <2>1 DEF Share
            <4>4. Share(g) \in Nat /\ targets[g] \in Nat /\ targets[g] <= Share(g)
                BY <1>16
            <4>5. total * Share(g) <= ewma[g] * hotBudget
                BY <1>10, <2>1, <4>2, <4>3, DivBounds
            <4>6. total * targets[g] <= total * Share(g)
                BY <1>10, <4>4
            <4>7. total * targets[g] \in Nat /\ total * Share(g) \in Nat
                BY <1>10, <4>4
            <4> QED
                BY <4>1, <4>2, <4>4, <4>5, <4>6, <4>7
        <3> HIDE DEF Busy
        <3>2. total * SumFunctionOnSet(targets, Busy)
                <= hotBudget * SumFunctionOnSet(ewma, Busy) + 0 * Cardinality(Busy)
            <4>1. total \in Int /\ hotBudget \in Int /\ 0 \in Int
                BY <1>10, <1>11
            <4> QED
                BY <1>3, <3>1, <4>1, SumBound
        <3>3. SumFunctionOnSet(ewma, Busy) <= total
            <4>1. \A g \in hot : ewma[g] \in Nat
                BY <1>2, <1>9
            <4> QED
                BY <1>2, <1>3, <4>1, SumPart DEF total
        <3>4. SumFunctionOnSet(ewma, Busy) \in Int /\ Cardinality(Busy) \in Int
            BY <1>3, <3>1, SumInt, FS_CardinalityType
        <3>5. hotBudget * SumFunctionOnSet(ewma, Busy) <= hotBudget * total
            BY <1>10, <1>11, <3>3, <3>4
        <3>6. total * SumFunctionOnSet(targets, Busy) <= total * hotBudget
            BY <1>10, <1>11, <1>17, <3>2, <3>4, <3>5
        <3> QED
            BY <1>10, <1>11, <1>17, <2>1, <3>6
    <2>2. CASE total = 0 /\ Busy # {}
        <3> DEFINE n == Cardinality(hot)
                   part == hotBudget \div n
        <3>1. n \in Nat /\ n > 0
            <4>1. PICK g : g \in hot
                BY <1>2, <2>2
            <4> QED
                BY <1>3, <4>1, SomeOf
        <3>2. part \in Nat /\ n * part <= hotBudget
            BY <1>11, <3>1, DivBounds
        <3>3. \A g \in Busy : Share(g) = part
            BY <2>2 DEF Share
        <3>4. Cardinality(Busy) \in Nat /\ Cardinality(Busy) <= n
            BY <1>2, <1>3, FS_Subset, FS_CardinalityType
        <3> HIDE DEF n, part
        <3>5. \A g \in Busy : targets[g] \in Int /\ 1 * targets[g] <= 0 * targets[g] + part
            BY <1>16, <3>2, <3>3
        <3> HIDE DEF Busy
        <3>6. 1 * SumFunctionOnSet(targets, Busy)
                <= 0 * SumFunctionOnSet(targets, Busy) + part * Cardinality(Busy)
            <4>1. 1 \in Int /\ 0 \in Int /\ part \in Int
                BY <3>2
            <4> QED
                BY <1>3, <3>5, <4>1, SumBound
        <3>7. part * Cardinality(Busy) <= n * part
            BY <3>1, <3>2, <3>4
        <3>8. part * Cardinality(Busy) \in Int /\ n * part \in Int
            BY <3>1, <3>2, <3>4
        <3> QED
            BY <1>11, <1>17, <3>2, <3>6, <3>7, <3>8
    <2>3. CASE Busy = {}
        BY <1>11, <2>3, SumEmpty
    <2> QED
        BY <1>10, <2>1, <2>2, <2>3
<1>19. SumFunctionOnSet(targets, N)
         = SumFunctionOnSet(targets, Idle) + SumFunctionOnSet(targets, Busy)
    <2>1. N = Idle \cup Busy /\ Idle \cap Busy = {}
        OBVIOUS
    <2>2. \A g \in Idle \cup Busy : targets[g] \in Int
        BY <1>2, <1>9
    <2> HIDE DEF Idle, Busy
    <2>3. SumFunctionOnSet(targets, Idle \cup Busy)
            = SumFunctionOnSet(targets, Idle) + SumFunctionOnSet(targets, Busy)
        BY <1>3, <2>1, <2>2, SumUnion
    <2> QED
        BY <2>1, <2>3
<1>20. kept \in Nat
    <2>1. SumFunction(cap) = SumFunctionOnSet(cap, G)
        BY DEF SumFunction
    <2>2. SumFunction(cap) \in Nat
        BY <2>1, WattsNat, SumNat
    <2> QED
        BY <2>2, RetainedType, TimesType
<1> HIDE DEF kept, Idle, Busy
<1>21. hotBudget = IF 0 >= budget - reserved THEN 0 ELSE budget - reserved
    BY DEF hotBudget, Most
<1>22. SumFunctionOnSet(targets, N) <= budget \/ SumFunctionOnSet(targets, N) <= kept
    BY <1>7, <1>14, <1>15, <1>17, <1>18, <1>19, <1>20, <1>21
<1>23. SumFunctionOnSet(targets, N) \in Nat
    BY <1>17, <1>19
<1> QED
    BY <1>20, <1>22, <1>23 DEF Most, targets, kept

LEMMA RaiseLimitedType ==
  ASSUME NEW G, NEW rate \in Nat, NEW target \in [G -> Watts], NEW last \in Records(G),
         NEW cap \in [G -> Watts]
  PROVE  /\ RaiseLimited(rate, target, last, cap) \in [G -> Watts]
         /\ \A g \in G : RaiseLimited(rate, target, last, cap)[g] <= target[g]
         /\ rate > 0 => \A g \in G : RaiseLimited(rate, target, last, cap)[g]
                                       <= (IF g \in DOMAIN last THEN last[g] ELSE cap[g]) + rate
<1> DEFINE Prev(g) == IF g \in DOMAIN last THEN last[g] ELSE cap[g]
           limited == RaiseLimited(rate, target, last, cap)
<1>0. HwMax \in Nat
    BY LoopParameters
<1>1. \A g \in G : Prev(g) \in Watts
    BY RecordsType
<1>2. limited = [g \in G |-> IF rate > 0 /\ target[g] > Prev(g)
                             THEN Least(target[g], Prev(g) + rate) ELSE target[g]]
    BY DEF RaiseLimited
<1> HIDE DEF Prev, limited
<1>3. ASSUME NEW g \in G
      PROVE  /\ limited[g] \in Watts /\ limited[g] <= target[g]
             /\ rate > 0 => limited[g] <= Prev(g) + rate
    <2>1. target[g] \in Watts /\ Prev(g) \in Watts
        BY <1>1
    <2> QED
        BY <2>1, <1>0, <1>2 DEF Least, Watts
<1> QED
    BY <1>2, <1>3 DEF Prev, limited

\* What decide() of PRS returns and leaves.
LEMMA PRSDecideType ==
  ASSUME NEW G, IsFiniteSet(G), NEW self, IsPRS(self, G), NEW budget \in Nat,
         NEW draw \in [G -> Watts], NEW cap \in [G -> Watts], NEW max \in [G -> Watts]
  PROVE  LET d == PRSDecide(self, budget, draw, cap, max)
         IN  /\ d.caps \in [G -> Watts]
             /\ IsPRS(d.brain, G)
             /\ d.brain.last = d.caps /\ d.brain.rate = self.rate
             /\ self.rate > 0 => \A g \in G :
                   d.caps[g] <= (IF g \in DOMAIN self.last THEN self.last[g] ELSE cap[g]) + self.rate
<1> DEFINE ewma == Blended(self.alpha, self.ewma, draw)
           targets == PRSTargets(budget, ewma, cap, max)
           caps == RaiseLimited(self.rate, targets, self.last, cap)
           d == PRSDecide(self, budget, draw, cap, max)
<1>1. ewma \in [G -> Watts]
    BY BlendedType DEF IsPRS
<1> HIDE DEF ewma
<1>2. targets \in [G -> Watts]
    BY <1>1, PRSTargetsType
<1> HIDE DEF targets
<1>3. /\ caps \in [G -> Watts]
      /\ self.rate > 0 => \A g \in G :
            caps[g] <= (IF g \in DOMAIN self.last THEN self.last[g] ELSE cap[g]) + self.rate
    BY <1>2, RaiseLimitedType DEF IsPRS
<1> HIDE DEF caps
<1>4. d = [caps |-> caps, brain |-> [self EXCEPT !.ewma = ewma, !.last = caps]]
    BY DEF PRSDecide, ewma, targets, caps
<1>5. d.caps = caps /\ d.brain = [self EXCEPT !.ewma = ewma, !.last = caps]
    <2> HIDE DEF d
    <2> QED
        BY <1>4, Zenon
<1>6. ewma \in Records(G) /\ caps \in Records(G)
    BY <1>1, <1>3, RecordsType
<1>7. DOMAIN self = {"alpha", "rate", "ewma", "last"}
    BY DEF IsPRS
<1> HIDE DEF d
<1>8. /\ DOMAIN d.brain = {"alpha", "rate", "ewma", "last"}
      /\ d.brain.alpha = self.alpha /\ d.brain.rate = self.rate
      /\ d.brain.ewma = ewma /\ d.brain.last = caps
    BY <1>5, <1>7, Zenon
<1>9. IsPRS(d.brain, G) /\ d.brain.last = d.caps /\ d.brain.rate = self.rate
    BY <1>5, <1>6, <1>8 DEF IsPRS
<1>10. /\ d.caps \in [G -> Watts]
       /\ self.rate > 0 => \A g \in G :
            d.caps[g] <= (IF g \in DOMAIN self.last THEN self.last[g] ELSE cap[g]) + self.rate
    BY <1>3, <1>5
<1> QED
    BY <1>9, <1>10 DEF d
\* What decide() of PRS leaves above the floor.
LEMMA PRSDecideShrinks ==
  ASSUME NEW G, IsFiniteSet(G), NEW self, IsPRS(self, G), NEW budget \in Nat,
         NEW draw \in [G -> Watts], NEW cap \in [G -> Watts], NEW max \in [G -> Watts],
         \A g \in G : cap[g] > 0, NEW N \in SUBSET G,
         \A g \in N : ~ PRSDecide(self, budget, draw, cap, max).caps[g] <= MinCap
  PROVE  SumFunctionOnSet(PRSDecide(self, budget, draw, cap, max).caps, N)
            <= Most(budget, Times(Retained, SumFunction(cap)))
<1> DEFINE ewma == Blended(self.alpha, self.ewma, draw)
           targets == PRSTargets(budget, ewma, cap, max)
           caps == RaiseLimited(self.rate, targets, self.last, cap)
           bound == Most(budget, Times(Retained, SumFunction(cap)))
<1>1. ewma \in [G -> Watts]
    BY BlendedType DEF IsPRS
<1> HIDE DEF ewma
<1>2. targets \in [G -> Watts]
    BY <1>1, PRSTargetsType
<1>3. caps \in [G -> Watts] /\ \A g \in G : caps[g] <= targets[g]
    <2> HIDE DEF targets
    <2> QED
        BY <1>2, RaiseLimitedType DEF IsPRS
<1>4. PRSDecide(self, budget, draw, cap, max).caps = caps
    BY DEF PRSDecide, ewma
<1>5. \A g \in N : targets[g] > MinCap
    <2> SUFFICES ASSUME NEW g \in N PROVE targets[g] > MinCap
        OBVIOUS
    <2>1. caps[g] \in Nat /\ targets[g] \in Nat /\ caps[g] <= targets[g] /\ ~ caps[g] <= MinCap
        BY <1>2, <1>3, <1>4, WattsNat
    <2> HIDE DEF caps, targets
    <2> QED
        BY <2>1, BrainParameters
<1>6. SumFunctionOnSet(targets, N) <= bound
    BY <1>1, <1>5, PRSTargetsShrink
<1> HIDE DEF caps, targets
<1>7. \A g \in N : targets[g] \in Int /\ caps[g] \in Int /\ caps[g] <= targets[g]
    BY <1>2, <1>3, WattsNat
<1>8. IsFiniteSet(N)
    BY FS_Subset
<1>9. SumFunctionOnSet(caps, N) <= SumFunctionOnSet(targets, N)
    BY <1>7, <1>8, SumMonotonic
<1>10. SumFunctionOnSet(caps, N) \in Int /\ SumFunctionOnSet(targets, N) \in Int
    BY <1>7, <1>8, SumInt
<1>11. bound \in Int
    <2>1. SumFunction(cap) = SumFunctionOnSet(cap, G)
        BY DEF SumFunction
    <2>2. SumFunction(cap) \in Nat
        BY <2>1, WattsNat, SumNat
    <2>3. Times(Retained, SumFunction(cap)) \in Nat
        BY <2>2, RetainedType, TimesType
    <2> QED
        BY <2>3 DEF Most
<1> HIDE DEF bound
<1>12. SumFunctionOnSet(caps, N) <= bound
    BY <1>6, <1>9, <1>10, <1>11
<1> QED
    BY <1>4, <1>12 DEF bound
---------------------------------------------------------------------------
(***************************************************************************)
(* The brains that wrap PRS.                                               *)
(***************************************************************************)
LEMMA NoteAppliedType ==
  ASSUME NEW G, NEW self, IsPRS(self, G), NEW caps \in [G -> Watts]
  PROVE  IsPRS(NoteApplied(self, caps), G)
<1> DEFINE b == NoteApplied(self, caps)
<1>1. b = [self EXCEPT !.last = caps] /\ DOMAIN self = {"alpha", "rate", "ewma", "last"}
    BY DEF NoteApplied, IsPRS
<1> HIDE DEF b
<1>2. /\ DOMAIN b = {"alpha", "rate", "ewma", "last"}
      /\ b.alpha = self.alpha /\ b.rate = self.rate /\ b.ewma = self.ewma /\ b.last = caps
    BY <1>1, Zenon
<1>3. caps \in Records(G)
    BY RecordsType
<1>4. IsPRS(b, G)
    BY <1>2, <1>3 DEF IsPRS
<1> QED
    BY <1>4 DEF b

\* Scaling never raises a cap, and makes what it scales fit.
LEMMA ScaledToType ==
  ASSUME NEW G, IsFiniteSet(G), NEW caps \in [G -> Nat], NEW budget \in Nat
  PROVE  /\ ScaledTo(caps, budget) \in [G -> Nat]
         /\ \A g \in G : ScaledTo(caps, budget)[g] <= caps[g]
         /\ budget > 0 => SumFunction(ScaledTo(caps, budget)) <= budget
<1> DEFINE total == SumFunction(caps)
           scaled == [g \in G |-> (caps[g] * budget) \div total]
<1>1. total = SumFunctionOnSet(caps, G)
    BY DEF SumFunction
<1>2. total \in Nat
    BY <1>1, SumNat
<1>3. CASE budget > 0 /\ total > budget
    <2>1. ScaledTo(caps, budget) = scaled
        BY <1>3 DEF ScaledTo
    <2> HIDE DEF total
    <2>2. ASSUME NEW g \in G
          PROVE  /\ scaled[g] \in Nat /\ scaled[g] <= caps[g]
                 /\ total * scaled[g] <= budget * caps[g] + 0
        <3> DEFINE a == caps[g] * budget
        <3>0. caps[g] \in Nat /\ budget \in Nat
            OBVIOUS
        <3>1. a \in Nat /\ total > 0 /\ budget * caps[g] = a
            BY <1>2, <1>3, <3>0
        <3>2. a <= caps[g] * total
            BY <1>2, <1>3, <3>0
        <3> HIDE DEF a
        <3>3. a \div total \in 0 .. caps[g] /\ total * (a \div total) <= a
            BY <1>2, <1>3, <3>0, <3>1, <3>2, PartOf, DivBounds
        <3> QED
            BY <3>1, <3>3 DEF a
    <2>3. \A g \in G : caps[g] \in Int /\ scaled[g] \in Int
                       /\ total * scaled[g] <= budget * caps[g] + 0
        BY <2>2
    <2>4. SumFunction(scaled) = SumFunctionOnSet(scaled, G)
        BY DEF SumFunction
    <2>5. scaled \in [G -> Nat] /\ \A g \in G : scaled[g] <= caps[g]
        BY <2>2
    <2> HIDE DEF scaled
    <2>6. total * SumFunctionOnSet(scaled, G) <= budget * SumFunctionOnSet(caps, G) + 0 * Cardinality(G)
        <3>1. total \in Int /\ budget \in Int /\ 0 \in Int
            BY <1>2
        <3> QED
            BY <2>3, <3>1, SumBound
    <2>7. SumFunctionOnSet(scaled, G) \in Int /\ Cardinality(G) \in Int
        BY <2>3, SumInt, FS_CardinalityType
    <2>8. total * SumFunctionOnSet(scaled, G) <= total * budget
        BY <1>1, <1>2, <2>6, <2>7
    <2>9. SumFunctionOnSet(scaled, G) <= budget
        BY <1>2, <1>3, <2>7, <2>8
    <2> QED
        BY <2>1, <2>4, <2>5, <2>9
<1>4. CASE ~ (budget > 0 /\ total > budget)
    <2>1. ScaledTo(caps, budget) = caps
        BY <1>4 DEF ScaledTo
    <2> QED
        BY <1>2, <1>4, <2>1
<1> QED
    BY <1>3, <1>4

LEMMA ScaledToWatts ==
  ASSUME NEW G, IsFiniteSet(G), NEW caps \in [G -> Watts], NEW budget \in Nat
  PROVE  ScaledTo(caps, budget) \in [G -> Watts]
<1>1. caps \in [G -> Nat]
    BY WattsNat
<1>2. ScaledTo(caps, budget) \in [G -> Nat] /\ \A g \in G : ScaledTo(caps, budget)[g] <= caps[g]
    BY <1>1, ScaledToType
<1>3. \A g \in G : ScaledTo(caps, budget)[g] \in Watts
    BY <1>2, LoopParameters DEF Watts
<1> QED
    BY <1>2, <1>3

LEMMA JobCapsType ==
  ASSUME NEW G, IsFiniteSet(G), NEW prs \in [G -> Watts], NEW budget \in Nat,
         NEW max \in [G -> Watts], NEW busy \in SUBSET G
  PROVE  /\ JobCaps(prs, budget, max, busy) \in [G -> Watts]
         /\ busy # {} /\ budget > 0 => SumFunction(JobCaps(prs, budget, max, busy)) <= budget
<1> DEFINE boosted == [g \in G |-> IF g \in busy THEN Least(prs[g] + Times(Boost, prs[g]), max[g])
                                   ELSE prs[g]]
<1>1. boosted \in [G -> Watts]
    <2> SUFFICES ASSUME NEW g \in G
                 PROVE  Least(prs[g] + Times(Boost, prs[g]), max[g]) \in Watts
        OBVIOUS
    <2>1. HwMax \in Nat /\ prs[g] \in Nat
        BY LoopParameters DEF Watts
    <2>2. Times(Boost, prs[g]) \in Nat
        BY <2>1, TimesType, BrainParameters
    <2> QED
        BY <2>1, <2>2 DEF Least, Watts
<1>2. busy \cap DOMAIN prs = busy
    OBVIOUS
<1>3. JobCaps(prs, budget, max, busy) = IF busy = {} THEN prs ELSE ScaledTo(boosted, budget)
    BY <1>2 DEF JobCaps
<1> HIDE DEF boosted
<1>4. ScaledTo(boosted, budget) \in [G -> Watts]
      /\ (budget > 0 => SumFunction(ScaledTo(boosted, budget)) <= budget)
    BY <1>1, WattsNat, ScaledToWatts, ScaledToType
<1> QED
    BY <1>3, <1>4

LEMMA PriorityCapsType ==
  ASSUME NEW G, IsFiniteSet(G), NEW prs \in [G -> Watts], NEW budget \in Nat,
         NEW draw \in [G -> Watts], NEW cap \in [G -> Watts], NEW max \in [G -> Watts],
         NEW tiers \in [G -> {"low", "normal", "high", "critical"}]
  PROVE  /\ PriorityCaps(prs, budget, draw, cap, max, tiers) \in [G -> Watts]
         /\ \/ PriorityCaps(prs, budget, draw, cap, max, tiers) = prs
            \/ SumFunction(PriorityCaps(prs, budget, draw, cap, max, tiers)) <= budget
<1> DEFINE hot == Contended(draw, cap)
           reserved == SumFunctionOnSet(prs, G \ hot)
           surplus == Most(0, budget - reserved - MinCap * Cardinality(hot))
           weight == [g \in hot |-> draw[g] * TierWeight[tiers[g]]]
           Part(g) == (surplus * weight[g]) \div Most(1, SumFunction(weight))
           tiered == Tiered(hot, prs, budget, draw, max, tiers)
<1>1. HwMax \in Nat /\ MinCap \in Nat
    BY LoopParameters, BrainParameters
<1>2. hot \in SUBSET G /\ IsFiniteSet(hot) /\ IsFiniteSet(G \ hot)
    BY FS_Subset DEF Contended
<1>3. prs \in [G -> Nat] /\ draw \in [G -> Nat]
    BY WattsNat
<1>4. surplus \in Nat
    <2>1. reserved \in Int
        BY <1>2, <1>3, SumInt
    <2>2. MinCap * Cardinality(hot) \in Int
        BY <1>1, <1>2, FS_CardinalityType
    <2> QED
        BY <2>1, <2>2 DEF Most
<1>5. \A g \in hot : weight[g] \in Nat
    <2> SUFFICES ASSUME NEW g \in hot PROVE draw[g] * TierWeight[tiers[g]] \in Nat
        OBVIOUS
    <2>1. draw[g] \in Nat /\ tiers[g] \in {"low", "normal", "high", "critical"}
        BY <1>2, <1>3
    <2>2. TierWeight[tiers[g]] \in Nat
        BY <2>1 DEF TierWeight
    <2> QED
        BY <2>1, <2>2
<1>6. Most(1, SumFunction(weight)) \in Nat /\ Most(1, SumFunction(weight)) > 0
    <2>1. SumFunction(weight) = SumFunctionOnSet(weight, hot)
        BY DEF SumFunction
    <2> HIDE DEF weight, hot
    <2>2. SumFunction(weight) \in Nat
        BY <1>2, <1>5, <2>1, SumNat
    <2> QED
        BY <2>2 DEF Most
<1>7. tiered = [g \in G |-> IF g \in hot THEN Least(MinCap + Part(g), max[g]) ELSE prs[g]]
    BY DEF Tiered
<1>8. ASSUME NEW g \in hot PROVE Part(g) \in Nat
    <2> HIDE DEF surplus, weight, hot
    <2>1. surplus * weight[g] \in Nat
        BY <1>4, <1>5, <1>8
    <2> QED
        BY <1>6, <2>1, DivBounds
<1> HIDE DEF Part, hot, tiered
<1>9. tiered \in [G -> Watts]
    <2> SUFFICES ASSUME NEW g \in hot PROVE Least(MinCap + Part(g), max[g]) \in Watts
        BY <1>7
    <2>1. max[g] \in Watts /\ Part(g) \in Nat
        BY <1>2, <1>8
    <2> QED
        BY <1>1, <2>1 DEF Least, Watts
<1>10. /\ ScaledTo(tiered, budget) \in [G -> Watts]
       /\ budget > 0 => SumFunction(ScaledTo(tiered, budget)) <= budget
    BY <1>9, WattsNat, ScaledToWatts, ScaledToType
<1>11. \/ PriorityCaps(prs, budget, draw, cap, max, tiers) = prs
       \/ budget > 0 /\ PriorityCaps(prs, budget, draw, cap, max, tiers) = ScaledTo(tiered, budget)
    BY DEF PriorityCaps, tiered, hot
<1> QED
    BY <1>10, <1>11

\* A throttled GPU gets no more than PRS proposed, nor than it holds.
LEMMA DeratedType ==
  ASSUME NEW w \in Watts, NEW held \in Watts
  PROVE  /\ Derated(w, held) \in Watts
         /\ Derated(w, held) <= w /\ Derated(w, held) <= held
<1> DEFINE base == Least(w, held)
           kept == Times(<<Derate[2] - Derate[1], Derate[2]>>, base)
<1>1. HwMax \in Nat /\ MinCap \in Nat
    BY LoopParameters, BrainParameters
<1>2. base \in Watts /\ base <= w /\ base <= held
    BY <1>1 DEF Least, Watts
<1>3. Derate[1] \in Nat /\ Derate[2] \in Nat /\ Derate[2] > 0 /\ Derate[1] < Derate[2]
    BY BrainParameters DEF IsFraction
<1>4. IsFraction(<<Derate[2] - Derate[1], Derate[2]>>)
    BY <1>3 DEF IsFraction
<1>5. base \in Nat
    BY <1>1, <1>2 DEF Watts
<1>6. kept \in Nat
    <2> HIDE DEF base
    <2> QED
        BY <1>4, <1>5, TimesType
<1>7. Derated(w, held) = Least(base, Most(MinCap, kept))
    BY DEF Derated
<1> HIDE DEF base, kept
<1> QED
    BY <1>1, <1>2, <1>6, <1>7 DEF Least, Most, Watts

\* No GPU is handed more than its headroom.
LEMMA SharedType ==
  ASSUME NEW G, IsFiniteSet(G), NEW freed \in Int, NEW headroom \in [G -> Nat]
  PROVE  \A g \in G : Shared(freed, headroom)[g] \in 0 .. headroom[g]
<1> DEFINE total == SumFunction(headroom)
<1>1. total \in Nat
    BY SumNat DEF SumFunction
<1> SUFFICES ASSUME NEW g \in G PROVE Shared(freed, headroom)[g] \in 0 .. headroom[g]
    OBVIOUS
<1>2. headroom[g] \in Nat
    OBVIOUS
<1>3. Shared(freed, headroom)[g] = IF freed > 0 /\ total > 0
                                   THEN (Least(freed, total) * headroom[g]) \div total ELSE 0
    BY DEF Shared
<1> HIDE DEF total
<1>4. CASE freed > 0 /\ total > 0
    <2> DEFINE give == Least(freed, total)
    <2>1. give \in Nat /\ give <= total
        BY <1>1, <1>4 DEF Least
    <2> HIDE DEF give
    <2>2. give * headroom[g] \in Nat /\ give * headroom[g] <= headroom[g] * total
        BY <1>1, <1>2, <2>1
    <2>3. (give * headroom[g]) \div total \in 0 .. headroom[g]
        BY <1>1, <1>2, <1>4, <2>2, PartOf
    <2> QED
        BY <1>3, <1>4, <2>3 DEF give
<1>5. CASE ~ (freed > 0 /\ total > 0)
    BY <1>2, <1>3, <1>5
<1> QED
    BY <1>4, <1>5

LEMMA ThermalCapsType ==
  ASSUME NEW G, IsFiniteSet(G), NEW prs \in [G -> Watts], NEW cap \in [G -> Watts],
         NEW max \in [G -> Watts], NEW hot \in SUBSET G
  PROVE  /\ ThermalCaps(prs, cap, max, hot) \in [G -> Watts]
         /\ \A g \in hot : ThermalCaps(prs, cap, max, hot)[g] <= cap[g]
<1> DEFINE reduced == [g \in hot |-> Derated(prs[g], cap[g])]
           freed == SumFunctionOnSet(prs, hot) - SumFunction(reduced)
           headroom == [g \in G \ hot |-> Most(0, max[g] - prs[g])]
           extra == Shared(freed, headroom)
           thermal == [g \in G |-> IF g \in hot THEN reduced[g] ELSE prs[g] + extra[g]]
<1>1. HwMax \in Nat
    BY LoopParameters
<1>2. IsFiniteSet(hot) /\ IsFiniteSet(G \ hot)
    BY FS_Subset, FS_Difference
<1>3. hot \cap DOMAIN prs = hot
    OBVIOUS
<1>4. ThermalCaps(prs, cap, max, hot) = IF hot = {} THEN prs ELSE thermal
    BY <1>3 DEF ThermalCaps
<1>5. \A g \in hot : reduced[g] \in Watts /\ reduced[g] <= cap[g]
    <2> SUFFICES ASSUME NEW g \in hot
                 PROVE  Derated(prs[g], cap[g]) \in Watts /\ Derated(prs[g], cap[g]) <= cap[g]
        OBVIOUS
    <2>1. prs[g] \in Watts /\ cap[g] \in Watts
        OBVIOUS
    <2> QED
        BY <2>1, DeratedType
<1>6. freed \in Int
    <2>1. SumFunction(reduced) = SumFunctionOnSet(reduced, hot)
        BY DEF SumFunction
    <2>2. \A g \in hot : prs[g] \in Int /\ reduced[g] \in Int
        BY <1>5 DEF Watts
    <2> HIDE DEF reduced
    <2>3. SumFunctionOnSet(reduced, hot) \in Int /\ SumFunctionOnSet(prs, hot) \in Int
        BY <1>2, <2>2, SumInt
    <2> QED
        BY <2>1, <2>3
<1>7. headroom \in [G \ hot -> Nat]
    <2> SUFFICES ASSUME NEW g \in G \ hot PROVE Most(0, max[g] - prs[g]) \in Nat
        OBVIOUS
    <2>1. prs[g] \in Watts /\ max[g] \in Watts
        OBVIOUS
    <2> QED
        BY <2>1, <1>1 DEF Most, Watts
<1>8. \A g \in G \ hot : extra[g] \in 0 .. headroom[g]
    <2> HIDE DEF freed, headroom
    <2> QED
        BY <1>2, <1>6, <1>7, SharedType
<1>9. ASSUME NEW g \in G \ hot PROVE prs[g] + extra[g] \in Watts
    <2>1. prs[g] \in Watts /\ max[g] \in Watts /\ headroom[g] = Most(0, max[g] - prs[g])
        BY <1>9
    <2>2. extra[g] \in 0 .. headroom[g]
        BY <1>8, <1>9
    <2> HIDE DEF extra, headroom
    <2> QED
        BY <1>1, <2>1, <2>2 DEF Most, Watts
<1>10. thermal \in [G -> Watts] /\ \A g \in hot : thermal[g] <= cap[g]
    <2> HIDE DEF reduced, extra
    <2> QED
        BY <1>5, <1>9
<1> HIDE DEF thermal
<1> QED
    BY <1>4, <1>10

---------------------------------------------------------------------------
(***************************************************************************)
(* DPM.                                                                    *)
(***************************************************************************)
\* When the fleet draws more than its budget, the GPUs left above the floor
\* share what they draw of it.
LEMMA DPMCapsType ==
  ASSUME NEW G, IsFiniteSet(G), NEW budget \in Nat, NEW draw \in [G -> Watts],
         NEW cap \in [G -> Watts], NEW max \in [G -> Watts]
  PROVE  /\ DPMCaps(budget, draw, cap, max) \in [G -> Watts]
         /\ SumFunction(draw) > budget => \A S \in SUBSET G :
               (\A g \in S : DPMCaps(budget, draw, cap, max)[g] # MinCap)
                 => SumFunctionOnSet(DPMCaps(budget, draw, cap, max), S) <= budget
<1> DEFINE total == SumFunction(draw)
           Share(g) == (draw[g] * budget) \div total
           over == [g \in G |-> Most(MinCap, Least(cap[g], Share(g)))]
<1>1. HwMax \in Nat /\ MinCap \in Nat /\ MinCap <= HwMax
    BY LoopParameters, BrainParameters
<1>2. total = SumFunctionOnSet(draw, G) /\ draw \in [G -> Nat]
    BY WattsNat DEF SumFunction
<1>3. total \in Nat
    BY <1>2, SumNat
<1>4. DPMCaps(budget, draw, cap, max) = IF total <= budget THEN max ELSE over
    BY DEF DPMCaps
<1>5. CASE total <= budget
    BY <1>3, <1>4, <1>5
<1>6. CASE total > budget
    <2> HIDE DEF total
    <2>1. ASSUME NEW g \in G
          PROVE  Share(g) \in Nat /\ total * Share(g) <= budget * draw[g] + 0
        <3>1. draw[g] \in Nat /\ draw[g] * budget \in Nat /\ draw[g] * budget = budget * draw[g]
            BY <1>2
        <3> QED
            BY <1>3, <1>6, <3>1, DivBounds
    <2> HIDE DEF Share
    <2>2. ASSUME NEW g \in G
          PROVE  over[g] \in Watts /\ (over[g] # MinCap => over[g] <= Share(g))
        <3>1. cap[g] \in Watts /\ Share(g) \in Nat
            BY <2>1
        <3> QED
            BY <1>1, <3>1 DEF Most, Least, Watts
    <2>3. ASSUME NEW S \in SUBSET G, \A g \in S : over[g] # MinCap
          PROVE  SumFunctionOnSet(over, S) <= budget
        <3>1. IsFiniteSet(S)
            BY FS_Subset
        <3>2. \A g \in S : /\ draw[g] \in Int /\ over[g] \in Int
                           /\ total * over[g] <= budget * draw[g] + 0
            <4> SUFFICES ASSUME NEW g \in S
                         PROVE  /\ draw[g] \in Int /\ over[g] \in Int
                                /\ total * over[g] <= budget * draw[g] + 0
                OBVIOUS
            <4>1. over[g] \in Nat /\ over[g] <= Share(g)
                BY <1>1, <2>2, <2>3 DEF Watts
            <4>2. Share(g) \in Nat /\ total * Share(g) <= budget * draw[g] + 0
                BY <2>1
            <4>3. draw[g] \in Nat /\ budget * draw[g] \in Nat
                BY <1>2
            <4> HIDE DEF over
            <4>4. total * over[g] <= total * Share(g)
                BY <1>3, <4>1, <4>2
            <4>5. total * over[g] \in Nat /\ total * Share(g) \in Nat
                BY <1>3, <4>1, <4>2
            <4>6. total * over[g] <= budget * draw[g] + 0
                BY <4>2, <4>3, <4>4, <4>5
            <4> QED
                BY <4>1, <4>3, <4>6
        <3> HIDE DEF over
        <3>3. total * SumFunctionOnSet(over, S) <= budget * SumFunctionOnSet(draw, S) + 0 * Cardinality(S)
            <4>1. total \in Int /\ budget \in Int /\ 0 \in Int
                BY <1>3
            <4> QED
                BY <3>1, <3>2, <4>1, SumBound
        <3>4. /\ SumFunctionOnSet(over, S) \in Int /\ SumFunctionOnSet(draw, S) \in Int
              /\ Cardinality(S) \in Int
            BY <3>1, <3>2, SumInt, FS_CardinalityType
        <3>5. SumFunctionOnSet(draw, S) <= total
            BY <1>2, SumPart
        <3>6. budget * SumFunctionOnSet(draw, S) <= budget * total
            BY <1>3, <3>4, <3>5
        <3>7. total * SumFunctionOnSet(over, S) <= total * budget
            BY <1>3, <3>3, <3>4, <3>6
        <3> QED
            BY <1>3, <1>6, <3>4, <3>7
    <2>4. over \in [G -> Watts]
        BY <2>2
    <2>5. DPMCaps(budget, draw, cap, max) = over
        BY <1>3, <1>4, <1>6
    <2> HIDE DEF over
    <2> QED
        BY <2>3, <2>4, <2>5
<1> QED
    BY <1>3, <1>5, <1>6

---------------------------------------------------------------------------
(***************************************************************************)
(* quota-prs.                                                              *)
(***************************************************************************)
LEMMA SliceType ==
  ASSUME NEW G, IsFiniteSet(G), NEW q, IsQuota(q, G), NEW budget \in Nat
  PROVE  /\ \A t \in DOMAIN q : Slice(q, t, budget) \in Nat
         /\ SumFunctionOnSet([t \in DOMAIN q |-> Slice(q, t, budget)], DOMAIN q) <= budget
<1> DEFINE T == DOMAIN q
           pct == [t \in T |-> q[t].pct]
           slice == [t \in T |-> Slice(q, t, budget)]
<1>1. IsFiniteSet(T) /\ (\A t \in T : pct[t] \in 1 .. 100) /\ SumFunction(pct) <= 100
    BY DEF IsQuota
<1>2. SumFunction(pct) = SumFunctionOnSet(pct, T)
    BY DEF SumFunction
<1>3. \A t \in T : slice[t] = (pct[t] * budget) \div 100
    BY DEF Slice
<1> HIDE DEF pct, slice
<1>4. ASSUME NEW t \in T
      PROVE  slice[t] \in Nat /\ pct[t] \in Int /\ 100 * slice[t] <= budget * pct[t] + 0
    <2>1. pct[t] \in Nat /\ pct[t] * budget \in Nat /\ pct[t] * budget = budget * pct[t]
        BY <1>1
    <2>2. 100 \in Int /\ 100 > 0
        OBVIOUS
    <2> QED
        BY <1>3, <2>1, <2>2, DivBounds
<1>5. 100 * SumFunctionOnSet(slice, T) <= budget * SumFunctionOnSet(pct, T) + 0 * Cardinality(T)
    <2>1. \A t \in T : pct[t] \in Int /\ slice[t] \in Int
        BY <1>4
    <2>2. \A t \in T : 100 * slice[t] <= budget * pct[t] + 0
        BY <1>4
    <2>3. 100 \in Int /\ budget \in Int /\ 0 \in Int
        OBVIOUS
    <2> HIDE DEF T
    <2> QED
        BY <1>1, <2>1, <2>2, <2>3, SumBound
<1>6. /\ SumFunctionOnSet(slice, T) \in Int /\ SumFunctionOnSet(pct, T) \in Int
      /\ Cardinality(T) \in Int
    BY <1>1, <1>4, SumInt, FS_CardinalityType
<1>7. budget * SumFunctionOnSet(pct, T) <= budget * 100
    BY <1>1, <1>2, <1>6
<1>8. budget * SumFunctionOnSet(pct, T) \in Int
    BY <1>6
<1>9. SumFunctionOnSet(slice, T) <= budget
    BY <1>5, <1>6, <1>7, <1>8
<1> QED
    BY <1>4, <1>9 DEF slice

\* Each tenant's brain decides on the GPUs of its tenant.
LEMMA TenantsDecideType ==
  ASSUME NEW G, IsFiniteSet(G), NEW q, IsQuota(q, G), NEW self,
         \A t \in DOMAIN q : IsPRS(self[t], q[t].gpus), NEW budget \in Nat,
         NEW draw \in [G -> Watts], NEW cap \in [G -> Watts], NEW max \in [G -> Watts],
         NEW t \in DOMAIN q
  PROVE  LET d == TenantsDecide(self, budget, draw, cap, max, q)[t]
         IN  d.caps \in [q[t].gpus -> Watts] /\ IsPRS(d.brain, q[t].gpus)
<1> DEFINE d == TenantsDecide(self, budget, draw, cap, max, q)[t]
           own == q[t].gpus
<1>1. own \in SUBSET G /\ IsFiniteSet(own)
    BY FS_Subset DEF IsQuota
<1> HIDE DEF own
<1>2. ASSUME NEW f \in [G -> Watts] PROVE Restrict(f, own) \in [own -> Watts]
    BY <1>1 DEF Restrict
<1>3. d = PRSDecide(self[t], Slice(q, t, budget), Restrict(draw, own), Restrict(cap, own),
                    Restrict(max, own))
    BY DEF TenantsDecide, own
<1>4. Slice(q, t, budget) \in Nat
    BY SliceType
<1>5. Restrict(draw, own) \in [own -> Watts] /\ Restrict(cap, own) \in [own -> Watts]
      /\ Restrict(max, own) \in [own -> Watts]
    BY <1>2
<1>6. IsPRS(self[t], own)
    BY DEF own
<1> HIDE DEF d
<1>7. d.caps \in [own -> Watts] /\ IsPRS(d.brain, own)
    BY <1>1, <1>3, <1>4, <1>5, <1>6, PRSDecideType
<1> QED
    BY <1>7 DEF d, own

\* Each GPU gets what its tenant's slice gives it, or an equal part of the rest.
LEMMA QuotaCapsType ==
  ASSUME NEW G, IsFiniteSet(G), NEW q, IsQuota(q, G), NEW budget \in Nat,
         NEW max \in [G -> Watts], NEW own,
         \A t \in DOMAIN q : own[t].caps \in [q[t].gpus -> Watts]
  PROVE  /\ QuotaCaps(own, budget, max, q) \in [G -> Watts]
         /\ (\A t \in DOMAIN q : Slice(q, t, budget) > 0)
              => /\ \A t \in DOMAIN q :
                       SumFunctionOnSet(QuotaCaps(own, budget, max, q), q[t].gpus)
                          <= Slice(q, t, budget)
                 /\ SumFunction(QuotaCaps(own, budget, max, q)) <= budget
<1> DEFINE T == DOMAIN q
           P == [t \in T |-> q[t].gpus]
           slices == [t \in T |-> ScaledTo(own[t].caps, Slice(q, t, budget))]
           each == [t \in T |-> SumFunction(slices[t])]
           used == SumFunction(each)
           free == Unassigned(q, G)
           part == Most(0, budget - used) \div Cardinality(free)
           rest == Leftover(budget, used, free, max)
           caps == QuotaCaps(own, budget, max, q)
           Of(g) == CHOOSE u \in T : g \in q[u].gpus
           Held == UNION {P[t] : t \in T}
<1>1. /\ IsFiniteSet(T) /\ P \in [T -> SUBSET G]
      /\ \A t, u \in T : t # u => P[t] \cap P[u] = {}
    BY DEF IsQuota
<1>2. free = G \ Held /\ Held \subseteq G /\ IsFiniteSet(free) /\ IsFiniteSet(Held)
    <2>1. free = G \ Held
        BY DEF Unassigned
    <2>2. Held \subseteq G
        BY <1>1
    <2> QED
        BY <2>1, <2>2, FS_Subset
<1>3. caps = [g \in G |-> IF g \in DOMAIN rest THEN rest[g] ELSE slices[Of(g)][g]]
    BY DEF QuotaCaps
<1>4. rest = [g \in free |-> Least(part, max[g])]
    BY DEF Leftover
<1>5. \A t \in T : Slice(q, t, budget) \in Nat
    BY SliceType
<1>6. ASSUME NEW t \in T
      PROVE  /\ IsFiniteSet(P[t]) /\ slices[t] \in [P[t] -> Watts]
             /\ each[t] = SumFunctionOnSet(slices[t], P[t])
             /\ Slice(q, t, budget) > 0 => each[t] <= Slice(q, t, budget)
    <2>1. IsFiniteSet(P[t])
        BY <1>1, FS_Subset
    <2>2. own[t].caps \in [P[t] -> Watts] /\ own[t].caps \in [P[t] -> Nat]
        BY WattsNat
    <2>3. slices[t] = ScaledTo(own[t].caps, Slice(q, t, budget)) /\ each[t] = SumFunction(slices[t])
        OBVIOUS
    <2> HIDE DEF P, slices, each, T
    <2>4. slices[t] \in [P[t] -> Watts]
        BY <1>5, <2>1, <2>2, <2>3, ScaledToWatts
    <2>5. Slice(q, t, budget) > 0 => SumFunction(slices[t]) <= Slice(q, t, budget)
        BY <1>5, <2>1, <2>2, <2>3, ScaledToType
    <2>6. SumFunction(slices[t]) = SumFunctionOnSet(slices[t], P[t])
        BY <2>4 DEF SumFunction
    <2> QED
        BY <2>1, <2>3, <2>4, <2>5, <2>6
<1>7. \A t \in T : each[t] \in Nat
    <2> SUFFICES ASSUME NEW t \in T PROVE each[t] \in Nat
        OBVIOUS
    <2> HIDE DEF P, slices, each, T
    <2>1. \A g \in P[t] : slices[t][g] \in Nat
        BY <1>6, WattsNat
    <2> QED
        BY <1>6, <2>1, SumNat
<1>8. used = SumFunctionOnSet(each, T) /\ used \in Nat
    <2>1. used = SumFunctionOnSet(each, T)
        BY DEF SumFunction
    <2> HIDE DEF T, each, used
    <2> QED
        BY <1>1, <1>7, <2>1, SumNat
<1>9. \A t \in T : \A g \in P[t] : g \in G /\ g \notin free /\ Of(g) = t
    <2> SUFFICES ASSUME NEW t \in T, NEW g \in P[t] PROVE g \in G /\ g \notin free /\ Of(g) = t
        OBVIOUS
    <2>1. g \in G /\ g \notin free
        BY <1>1, <1>2
    <2>2. Of(g) \in T /\ g \in P[Of(g)]
        OBVIOUS
    <2> QED
        BY <1>1, <2>1, <2>2
<1> HIDE DEF Of, P
<1>10. \A t \in T : \A g \in P[t] : caps[g] = slices[t][g]
    <2> HIDE DEF slices, rest, free, caps
    <2> QED
        BY <1>3, <1>4, <1>9
<1>11. \A g \in free : part \in Nat /\ caps[g] = Least(part, max[g])
    <2> SUFFICES ASSUME NEW g \in free PROVE part \in Nat /\ caps[g] = Least(part, max[g])
        OBVIOUS
    <2> HIDE DEF slices, rest, caps, used, free, Held
    <2>1. caps[g] = Least(part, max[g])
        BY <1>2, <1>3, <1>4
    <2>2. Cardinality(free) \in Nat /\ Cardinality(free) > 0
        BY <1>2, SomeOf
    <2>3. Most(0, budget - used) \in Nat
        BY <1>8 DEF Most
    <2> QED
        BY <2>1, <2>2, <2>3, DivBounds
<1> HIDE DEF part, rest, slices, each, used, free, caps
<1>12. \A g \in G : caps[g] \in Watts
    <2> SUFFICES ASSUME NEW g \in G PROVE caps[g] \in Watts
        OBVIOUS
    <2>1. CASE g \in free
        <3>1. max[g] \in Watts /\ part \in Nat /\ caps[g] = Least(part, max[g])
            BY <1>11, <2>1
        <3> QED
            BY <3>1, LoopParameters DEF Least, Watts
    <2>2. CASE g \notin free
        <3>1. PICK t \in T : g \in P[t]
            BY <1>2, <2>2
        <3> QED
            BY <1>6, <1>10, <3>1
    <2> QED
        BY <2>1, <2>2
<1>13. caps \in [G -> Watts]
    BY <1>3, <1>12
<1>14. \A t \in T : each[t] = SumFunctionOnSet(caps, P[t])
    <2> SUFFICES ASSUME NEW t \in T PROVE each[t] = SumFunctionOnSet(caps, P[t])
        OBVIOUS
    <2>1. \A g \in P[t] : slices[t][g] \in Int /\ caps[g] = slices[t][g]
        BY <1>6, <1>10, WattsNat
    <2>2. IsFiniteSet(P[t])
        BY <1>6
    <2>3. SumFunctionOnSet(caps, P[t]) = SumFunctionOnSet(slices[t], P[t])
        BY <2>1, <2>2, SumSame
    <2> QED
        BY <1>6, <2>3
<1>15. ASSUME \A t \in T : Slice(q, t, budget) > 0
       PROVE  SumFunction(caps) <= budget
    <2>1. SumFunctionOnSet(caps, Held) = used
        <3>1. \A g \in G : caps[g] \in Int
            BY <1>12 DEF Watts
        <3> HIDE DEF T
        <3> QED
            BY <1>1, <1>8, <1>14, <3>1, SumOfParts
    <2>2. used <= budget
        <3> DEFINE slice == [t \in T |-> Slice(q, t, budget)]
        <3>1. SumFunctionOnSet(slice, T) <= budget
            BY SliceType
        <3>2. \A t \in T : slice[t] \in Int /\ each[t] \in Int /\ each[t] <= slice[t]
            BY <1>5, <1>6, <1>7, <1>15
        <3> HIDE DEF slice, T
        <3>3. SumFunctionOnSet(each, T) <= SumFunctionOnSet(slice, T) /\ SumFunctionOnSet(slice, T) \in Int
            BY <1>1, <3>2, SumMonotonic, SumInt
        <3> QED
            BY <1>8, <3>1, <3>3
    <2>3. SumFunctionOnSet(caps, free) \in Int /\ SumFunctionOnSet(caps, free) <= budget - used
        <3>1. \A g \in free : caps[g] \in Int
            BY <1>2, <1>12 DEF Watts
        <3>2. SumFunctionOnSet(caps, free) \in Int
            BY <1>2, <3>1, SumInt
        <3>3. CASE free = {}
            BY <1>8, <2>2, <3>2, <3>3, SumEmpty
        <3>4. CASE free # {}
            <4>1. part \in Nat
                BY <1>11, <3>4
            <4>2. Cardinality(free) \in Nat /\ Cardinality(free) > 0
                BY <1>2, <3>4, SomeOf
            <4>3. \A g \in free : max[g] \in Watts /\ caps[g] = Least(part, max[g])
                BY <1>2, <1>11
            <4>4. \A g \in free : 1 * caps[g] <= 0 * caps[g] + part
                BY <4>1, <4>3 DEF Least, Watts
            <4>5. 1 \in Int /\ 0 \in Int /\ part \in Int
                BY <4>1
            <4>6. 1 * SumFunctionOnSet(caps, free) <= 0 * SumFunctionOnSet(caps, free) + part * Cardinality(free)
                BY <1>2, <3>1, <4>4, <4>5, SumBound
            <4>7. part * Cardinality(free) <= budget - used
                <5>1. budget - used \in Nat /\ Most(0, budget - used) = budget - used
                    BY <1>8, <2>2 DEF Most
                <5>2. part = (budget - used) \div Cardinality(free)
                    BY <5>1 DEF part
                <5>3. Cardinality(free) * part <= budget - used
                    BY <4>2, <5>1, <5>2, DivBounds
                <5> QED
                    BY <4>1, <4>2, <5>3
            <4>8. part * Cardinality(free) \in Int
                BY <4>1, <4>2
            <4> QED
                BY <1>8, <3>2, <4>6, <4>7, <4>8
        <3> QED
            BY <3>3, <3>4
    <2>4. SumFunction(caps) = SumFunctionOnSet(caps, Held \cup free)
        <3>1. DOMAIN caps = G /\ Held \cup free = G
            BY <1>2, <1>13
        <3> QED
            BY <3>1 DEF SumFunction
    <2>5. SumFunctionOnSet(caps, Held \cup free)
            = SumFunctionOnSet(caps, Held) + SumFunctionOnSet(caps, free)
        <3>1. \A g \in Held \cup free : caps[g] \in Int
            BY <1>2, <1>12 DEF Watts
        <3>2. Held \cap free = {}
            BY <1>2
        <3> HIDE DEF Held
        <3> QED
            BY <1>2, <3>1, <3>2, SumUnion
    <2> QED
        BY <1>8, <2>1, <2>2, <2>3, <2>4, <2>5
<1>16. ASSUME NEW t \in T, Slice(q, t, budget) > 0
       PROVE  SumFunctionOnSet(caps, q[t].gpus) <= Slice(q, t, budget)
    BY <1>6, <1>14, <1>16 DEF P
<1> QED
    BY <1>13, <1>15, <1>16 DEF caps

---------------------------------------------------------------------------
(***************************************************************************)
(* cvxpy.                                                                  *)
(***************************************************************************)
LEMMA OptimaType ==
  ASSUME NEW G, IsFiniteSet(G), NEW budget \in Nat, NEW ewma \in [G -> Watts],
         NEW max \in [G -> Watts], NEW caps \in Optima(budget, ewma, max)
  PROVE  /\ caps \in [G -> Watts]
         /\ (\A g \in G : caps[g] = MinCap) \/ SumFunction(caps) <= budget
<1> DEFINE Free == G \ Objective(ewma, max)
           Raised(up) == [g \in G |-> IF g \in up THEN IdleCap(ewma[g], max[g]) ELSE MinCap]
           Excess(w) == Most(0, SumFunction(w) - budget)
           Cut(w, g) == [w EXCEPT ![g] = @ - Excess(w)]
<1>1. HwMax \in Nat /\ MinCap \in Nat /\ MinCap <= HwMax
    BY LoopParameters, BrainParameters
<1>2. \A up : Raised(up) \in [G -> Watts]
    <2>1. \A g \in G : IdleCap(ewma[g], max[g]) \in Watts
        BY IdleCapType
    <2>2. MinCap \in Watts
        BY <1>1 DEF Watts
    <2> QED
        BY <2>1, <2>2
<1>3. \/ caps = Raised({})
      \/ \E up \in SUBSET Free, g \in Free :
            caps = Cut(Raised(up), g) /\ \A h \in Free : caps[h] >= MinCap
    BY DEF Optima
<1>4. \A g \in G : Raised({})[g] = MinCap
    OBVIOUS
<1> HIDE DEF Raised
<1>5. ASSUME NEW up \in SUBSET Free, NEW g \in Free, caps = Cut(Raised(up), g),
             \A h \in Free : caps[h] >= MinCap
      PROVE  caps \in [G -> Watts] /\ SumFunction(caps) <= budget
    <2> DEFINE w == Raised(up)
    <2>1. w \in [G -> Watts] /\ g \in G
        BY <1>2
    <2> HIDE DEF w
    <2>2. SumFunction(w) \in Int
        <3>1. \A h \in G : w[h] \in Int
            BY <2>1 DEF Watts
        <3>2. SumFunction(w) = SumFunctionOnSet(w, G)
            BY <2>1 DEF SumFunction
        <3> QED
            BY <3>1, <3>2, SumInt
    <2>3. Excess(w) \in Nat
        BY <2>2 DEF Most
    <2>4. caps = [w EXCEPT ![g] = w[g] - Excess(w)]
        BY <1>5 DEF w
    <2>5. SumFunction(w) - Excess(w) <= budget
        BY <2>2 DEF Most
    <2> HIDE DEF Excess
    <2>6. w[g] - Excess(w) \in Watts
        <3>1. caps[g] = w[g] - Excess(w)
            BY <2>1, <2>4
        <3>2. w[g] \in Watts /\ caps[g] >= MinCap
            BY <1>5, <2>1
        <3> QED
            BY <1>1, <2>3, <3>1, <3>2 DEF Watts
    <2>7. caps \in [G -> Watts]
        BY <2>1, <2>4, <2>6
    <2>8. SumFunction(caps) = SumFunction(w) - Excess(w)
        <3>1. SumFunction(caps) = SumFunctionOnSet(caps, G) /\ SumFunction(w) = SumFunctionOnSet(w, G)
            BY <2>1, <2>7 DEF SumFunction
        <3>2. /\ \A h \in G : caps[h] \in Int /\ w[h] \in Int
              /\ \A h \in G \ {g} : caps[h] = w[h]
              /\ caps[g] = w[g] - Excess(w)
            <4>1. \A h \in G : caps[h] \in Int /\ w[h] \in Int
                BY <2>1, <2>7 DEF Watts
            <4>2. caps[g] = w[g] - Excess(w) /\ \A h \in G \ {g} : caps[h] = w[h]
                BY <2>1, <2>4
            <4> QED
                BY <4>1, <4>2
        <3>3. IsFiniteSet(G \ {g}) /\ \A h \in G \ {g} : w[h] \in Int /\ caps[h] = w[h]
            BY <3>2, FS_RemoveElement
        <3>4. SumFunctionOnSet(caps, G \ {g}) = SumFunctionOnSet(w, G \ {g})
            BY <3>3, SumSame
        <3>5. SumFunctionOnSet(w, G \ {g}) \in Int
            BY <3>3, SumInt
        <3>6. /\ SumFunctionOnSet(caps, G) = caps[g] + SumFunctionOnSet(caps, G \ {g})
              /\ SumFunctionOnSet(w, G) = w[g] + SumFunctionOnSet(w, G \ {g})
            BY <2>1, <3>2, SumRemove
        <3>7. w[g] \in Int
            BY <2>1, <3>2
        <3> QED
            BY <2>3, <3>1, <3>2, <3>4, <3>5, <3>6, <3>7
    <2> QED
        BY <2>5, <2>7, <2>8
<1> QED
    BY <1>2, <1>3, <1>4, <1>5
---------------------------------------------------------------------------
(***************************************************************************)
(* The loop.                                                               *)
(***************************************************************************)
LEMMA ClampedType ==
  ASSUME NEW caps \in [GPU -> Watts]
  PROVE  [g \in GPU |-> Clamped(caps[g])] = caps
<1>1. \A g \in GPU : Clamped(caps[g]) = caps[g]
    BY LoopParameters DEF Clamped, Least, Most, Watts
<1> QED
    BY <1>1

\* A GPU never draws more than its cap.
LEMMA DrawType ==
  ASSUME limit \in [GPU -> Watts], util \in [GPU -> Utils]
  PROVE  Draw \in [GPU -> Watts]
<1> SUFFICES ASSUME NEW g \in GPU PROVE SimDraw(limit[g], util[g]) \in Watts
    BY DEF Draw
<1>1. HwMax \in Nat /\ IdlePower \in Nat /\ limit[g] \in Nat /\ limit[g] <= HwMax /\ util[g] \in Nat
    <2>1. limit[g] \in Watts /\ util[g] \in Utils
        OBVIOUS
    <2>2. util[g] \in 0 .. 100
        BY <2>1, LoopParameters
    <2> QED
        BY <2>1, <2>2, LoopParameters DEF Watts
<1>2. limit[g] * util[g] \in Nat
    BY <1>1
<1>3. limit[g] * util[g] * 85 \in Nat
    BY <1>2
<1>4. (limit[g] * util[g] * 85) \div 10000 \in Nat
    BY <1>3, DivBounds
<1> QED
    BY <1>1, <1>4 DEF SimDraw, Least, Watts

LEMMA MaxCapsType == MaxCaps \in [GPU -> Watts]
    BY LoopParameters DEF MaxCaps, Watts

LEMMA NoRecord == ASSUME NEW G PROVE <<>> \in Records(G)
<1>1. DOMAIN <<>> = {}
    OBVIOUS
<1>2. <<>> = [x \in {} |-> 0]
    BY <1>1
<1>3. [x \in {} |-> 0] \in [{} -> Watts]
    OBVIOUS
<1> QED
    BY <1>2, <1>3 DEF Records

LEMMA NewPRSType ==
  ASSUME NEW G, NEW alpha, IsAlpha(alpha), NEW rate \in Nat
  PROVE  IsPRS(NewPRS(alpha, rate), G)
<1>1. <<>> \in Records(G)
    BY NoRecord
<1>2. /\ DOMAIN NewPRS(alpha, rate) = {"alpha", "rate", "ewma", "last"}
      /\ NewPRS(alpha, rate).alpha = alpha /\ NewPRS(alpha, rate).rate = rate
      /\ NewPRS(alpha, rate).ewma = <<>> /\ NewPRS(alpha, rate).last = <<>>
    BY DEF NewPRS
<1> QED
    BY <1>1, <1>2 DEF IsPRS

IsLP(b, G) ==
    /\ DOMAIN b = {"alpha", "ewma", "fallback"}
    /\ IsAlpha(b.alpha) /\ b.ewma \in Records(G)
    /\ IsPRS(b.fallback, G)

\* The brain of the loop has the form its name asks for.
BrainOK ==
    /\ name \in PRSNames => IsPRS(brain, GPU)
    /\ name = "quota-prs" =>
          /\ IsQuota(quota, GPU) /\ DOMAIN brain = DOMAIN quota
          /\ \A t \in DOMAIN quota : IsPRS(brain[t], quota[t].gpus)
    /\ name = "cvxpy" => IsLP(brain, GPU)

\* What the limiter of PRS compares with is what the device has, but where the
\* failsafe has come in between.
LimitIsLast ==
    name = "prs" => \A g \in DOMAIN brain.last \ lowered : limit[g] = brain.last[g]

LoopInv ==
    /\ limit \in [GPU -> Watts]
    /\ util \in [GPU -> Utils]
    /\ name \in BrainNames
    /\ flagged \in GpuSets(name)
    /\ tier \in TierMaps(name)
    /\ lowered \subseteq GPU
    /\ BrainOK
    /\ LimitIsLast

LEMMA LoopInit == Init => LoopInv
<1> SUFFICES ASSUME Init PROVE LoopInv
    OBVIOUS
<1>1. PICK c \in Configs : name = c.name /\ quota = c.quota /\ brain = NewBrain(c)
    BY DEF Init
<1>2. /\ c.name \in BrainNames /\ IsAlpha(c.alpha) /\ c.rate \in Nat
      /\ IsQuota(c.quota, GPU)
    BY LoopParameters
<1>3. limit \in [GPU -> Watts]
    BY MaxCapsType DEF Init
<1>4. CASE name \in PRSNames
    <2>1. brain = NewPRS(c.alpha, c.rate)
        BY <1>1, <1>4 DEF NewBrain, PRSNames
    <2>2. IsPRS(brain, GPU) /\ brain.last = <<>>
        <3>1. brain.last = <<>>
            BY <2>1 DEF NewPRS
        <3> QED
            BY <1>2, <2>1, <3>1, NewPRSType
    <2>3. LimitIsLast
        BY <2>2 DEF LimitIsLast
    <2> QED
        BY <1>1, <1>2, <1>3, <1>4, <2>2, <2>3 DEF Init, LoopInv, BrainOK, PRSNames
<1>5. CASE name = "quota-prs"
    <2>1. brain = [t \in DOMAIN c.quota |-> NewPRS(c.alpha, c.rate)]
        BY <1>1, <1>5 DEF NewBrain, PRSNames
    <2>2. \A t \in DOMAIN quota : IsPRS(brain[t], quota[t].gpus)
        BY <1>1, <1>2, <2>1, NewPRSType
    <2> QED
        BY <1>1, <1>2, <1>3, <1>5, <2>1, <2>2 DEF Init, LoopInv, BrainOK, PRSNames, LimitIsLast
<1>6. CASE name = "cvxpy"
    <2>1. brain = NewLP(c.alpha)
        BY <1>1, <1>6 DEF NewBrain, PRSNames
    <2>2. /\ DOMAIN brain = {"alpha", "ewma", "fallback"}
          /\ brain.alpha = c.alpha /\ brain.ewma = <<>> /\ brain.fallback = NewPRS(c.alpha, 0)
        BY <2>1 DEF NewLP
    <2>3. IsLP(brain, GPU)
        BY <1>2, <2>2, NewPRSType, NoRecord DEF IsLP
    <2> QED
        BY <1>1, <1>2, <1>3, <1>6, <2>3 DEF Init, LoopInv, BrainOK, PRSNames, LimitIsLast
<1> QED
    BY <1>1, <1>2, <1>4, <1>5, <1>6 DEF BrainNames

\* One tick of PRS, alone or wrapped, or of DPM.
LEMMA ByPRSType ==
  ASSUME LoopInv, ByPRS
  PROVE  LET prs == PRSDecide(brain, Budget, Draw, limit, MaxCaps)
         IN  /\ limit' \in [GPU -> Watts] /\ limit' = Caps(prs.caps)
             /\ IsPRS(brain', GPU)
             /\ name = "prs" => brain'.last = limit' /\ prs.caps = limit'
             /\ name' = name /\ quota' = quota
<1> DEFINE prs == PRSDecide(brain, Budget, Draw, limit, MaxCaps)
           caps == Caps(prs.caps)
<1>1. /\ name \in PRSNames /\ IsPRS(brain, GPU) /\ limit \in [GPU -> Watts]
      /\ IsFiniteSet(GPU) /\ Budget \in Nat /\ Draw \in [GPU -> Watts]
      /\ MaxCaps \in [GPU -> Watts]
    BY DrawType, MaxCapsType, LoopParameters DEF LoopInv, BrainOK, ByPRS
<1>2. prs.caps \in [GPU -> Watts] /\ IsPRS(prs.brain, GPU) /\ prs.brain.last = prs.caps
    BY <1>1, PRSDecideType
<1>3. Decided(caps, Left(prs.brain, caps))
    BY DEF ByPRS
<1> HIDE DEF prs
<1>4. caps \in [GPU -> Watts]
    <2>1. CASE name = "dpm"
        <3>1. caps = DPMCaps(Budget, Draw, limit, MaxCaps)
            BY <2>1 DEF Caps
        <3> QED
            BY <1>1, <3>1, DPMCapsType
    <2>2. CASE name = "prs"
        <3>1. caps = prs.caps
            BY <2>2 DEF Caps
        <3> QED
            BY <1>2, <3>1
    <2>3. CASE name = "job-prs"
        <3>1. caps = JobCaps(prs.caps, Budget, MaxCaps, flagged)
            BY <2>3 DEF Caps
        <3>2. flagged \in SUBSET GPU
            BY <2>3 DEF LoopInv, GpuSets
        <3> QED
            BY <1>1, <1>2, <3>1, <3>2, JobCapsType
    <2>4. CASE name = "priority-prs"
        <3>1. caps = PriorityCaps(prs.caps, Budget, Draw, limit, MaxCaps, tier)
            BY <2>4 DEF Caps
        <3>2. tier \in [GPU -> {"low", "normal", "high", "critical"}]
            BY <2>4 DEF LoopInv, TierMaps
        <3> QED
            BY <1>1, <1>2, <3>1, <3>2, PriorityCapsType
    <2>5. CASE name = "thermal-prs"
        <3>1. caps = ThermalCaps(prs.caps, limit, MaxCaps, flagged)
            BY <2>5 DEF Caps
        <3>2. flagged \in SUBSET GPU
            BY <2>5 DEF LoopInv, GpuSets
        <3> QED
            BY <1>1, <1>2, <3>1, <3>2, ThermalCapsType
    <2> QED
        BY <1>1, <2>1, <2>2, <2>3, <2>4, <2>5 DEF PRSNames
<1>5. IsPRS(Left(prs.brain, caps), GPU)
    <2> HIDE DEF caps
    <2>1. CASE name = "dpm"
        <3>1. Left(prs.brain, caps) = brain
            BY <2>1 DEF Left
        <3> QED
            BY <1>1, <3>1
    <2>2. CASE name \in {"prs", "job-prs"}
        <3>1. Left(prs.brain, caps) = prs.brain
            BY <2>2 DEF Left
        <3> QED
            BY <1>2, <3>1
    <2>3. CASE name \in {"priority-prs", "thermal-prs"}
        <3>1. Left(prs.brain, caps) = NoteApplied(prs.brain, caps)
            BY <2>3 DEF Left
        <3> QED
            BY <1>2, <1>4, <3>1, NoteAppliedType
    <2> QED
        BY <1>1, <2>1, <2>2, <2>3 DEF PRSNames
<1>6. name = "prs" => caps = prs.caps /\ Left(prs.brain, caps) = prs.brain
    <2>1. name = "prs" => caps = prs.caps
        BY DEF Caps
    <2>2. name = "prs" => Left(prs.brain, caps) = prs.brain
        BY DEF Left
    <2> QED
        BY <2>1, <2>2
<1>7. /\ limit' = caps /\ brain' = Left(prs.brain, caps)
      /\ name' = name /\ quota' = quota
    <2> HIDE DEF caps
    <2>1. limit' = [g \in GPU |-> Clamped(caps[g])]
        BY <1>3 DEF Decided
    <2> QED
        BY <1>3, <1>4, <2>1, ClampedType DEF Decided
<1> HIDE DEF caps
<1>8. /\ limit' \in [GPU -> Watts] /\ limit' = caps /\ IsPRS(brain', GPU)
      /\ name = "prs" => brain'.last = limit' /\ prs.caps = limit'
      /\ name' = name /\ quota' = quota
    BY <1>2, <1>4, <1>5, <1>6, <1>7
<1> QED
    BY <1>8 DEF prs, caps

LEMMA ByTenantsType ==
  ASSUME LoopInv, ByTenants
  PROVE  /\ limit' \in [GPU -> Watts]
         /\ DOMAIN brain' = DOMAIN quota
         /\ \A t \in DOMAIN quota : IsPRS(brain'[t], quota[t].gpus)
         /\ name' = name /\ quota' = quota
         /\ (\A t \in DOMAIN quota : Slice(quota, t, Budget) > 0)
              => /\ \A t \in DOMAIN quota :
                       SumFunctionOnSet(limit', quota[t].gpus) <= Slice(quota, t, Budget)
                 /\ SumFunction(limit') <= Budget
<1> DEFINE own == TenantsDecide(brain, Budget, Draw, limit, MaxCaps, quota)
           caps == QuotaCaps(own, Budget, MaxCaps, quota)
<1>1. /\ IsQuota(quota, GPU) /\ \A t \in DOMAIN quota : IsPRS(brain[t], quota[t].gpus)
      /\ limit \in [GPU -> Watts]
      /\ IsFiniteSet(GPU) /\ Budget \in Nat /\ Draw \in [GPU -> Watts]
      /\ MaxCaps \in [GPU -> Watts]
    BY DrawType, MaxCapsType, LoopParameters DEF LoopInv, BrainOK, ByTenants
<1>2. \A t \in DOMAIN quota : /\ own[t].caps \in [quota[t].gpus -> Watts]
                             /\ IsPRS(own[t].brain, quota[t].gpus)
    BY <1>1, TenantsDecideType
<1>3. Decided(caps, [t \in DOMAIN quota |-> own[t].brain])
    BY DEF ByTenants
<1> HIDE DEF own
<1>4. /\ caps \in [GPU -> Watts]
      /\ (\A t \in DOMAIN quota : Slice(quota, t, Budget) > 0)
           => /\ \A t \in DOMAIN quota :
                    SumFunctionOnSet(caps, quota[t].gpus) <= Slice(quota, t, Budget)
              /\ SumFunction(caps) <= Budget
    BY <1>1, <1>2, QuotaCapsType
<1> HIDE DEF caps
<1>5. limit' = caps
    BY <1>3, <1>4, ClampedType DEF Decided
<1>6. /\ brain' = [t \in DOMAIN quota |-> own[t].brain]
      /\ name' = name /\ quota' = quota
    BY <1>3 DEF Decided
<1> QED
    BY <1>2, <1>4, <1>5, <1>6

LEMMA BySolverType ==
  ASSUME LoopInv, BySolver
  PROVE  /\ limit' \in [GPU -> Watts] /\ IsLP(brain', GPU)
         /\ name' = name /\ quota' = quota
<1> DEFINE ewma == Blended(brain.alpha, brain.ewma, Draw)
<1>1. /\ IsLP(brain, GPU) /\ limit \in [GPU -> Watts]
      /\ IsFiniteSet(GPU) /\ Budget \in Nat /\ Draw \in [GPU -> Watts]
      /\ MaxCaps \in [GPU -> Watts]
    BY DrawType, MaxCapsType, LoopParameters DEF LoopInv, BrainOK, BySolver
<1>2. PICK caps \in Optima(Budget, ewma, MaxCaps) : Decided(caps, [brain EXCEPT !.ewma = ewma])
    BY DEF BySolver
<1>3. ewma \in [GPU -> Watts]
    BY <1>1, BlendedType DEF IsLP
<1> HIDE DEF ewma
<1>4. caps \in [GPU -> Watts]
    BY <1>1, <1>3, OptimaType
<1>5. limit' = caps /\ name' = name /\ quota' = quota
    BY <1>2, <1>4, ClampedType DEF Decided
<1>6. brain' = [brain EXCEPT !.ewma = ewma] /\ DOMAIN brain = {"alpha", "ewma", "fallback"}
    BY <1>1, <1>2 DEF Decided, IsLP
<1>7. /\ DOMAIN brain' = {"alpha", "ewma", "fallback"}
      /\ brain'.alpha = brain.alpha /\ brain'.ewma = ewma /\ brain'.fallback = brain.fallback
    BY <1>6, Zenon
<1>8. ewma \in Records(GPU)
    BY <1>3, RecordsType
<1> QED
    BY <1>1, <1>4, <1>5, <1>7, <1>8 DEF IsLP

LEMMA ByFallbackType ==
  ASSUME LoopInv, ByFallback
  PROVE  /\ limit' \in [GPU -> Watts] /\ IsLP(brain', GPU)
         /\ name' = name /\ quota' = quota
<1> DEFINE ewma == Blended(brain.alpha, brain.ewma, Draw)
           prs == PRSDecide(brain.fallback, Budget, Draw, limit, MaxCaps)
<1>1. /\ IsLP(brain, GPU) /\ limit \in [GPU -> Watts]
      /\ IsFiniteSet(GPU) /\ Budget \in Nat /\ Draw \in [GPU -> Watts]
      /\ MaxCaps \in [GPU -> Watts]
    BY DrawType, MaxCapsType, LoopParameters DEF LoopInv, BrainOK, ByFallback
<1>2. Decided(prs.caps, [brain EXCEPT !.ewma = ewma, !.fallback = prs.brain])
    BY DEF ByFallback
<1>3. ewma \in [GPU -> Watts]
    BY <1>1, BlendedType DEF IsLP
<1>4. prs.caps \in [GPU -> Watts] /\ IsPRS(prs.brain, GPU)
    BY <1>1, PRSDecideType DEF IsLP
<1> HIDE DEF ewma, prs
<1>5. limit' = prs.caps /\ name' = name /\ quota' = quota
    BY <1>2, <1>4, ClampedType DEF Decided
<1>6. /\ brain' = [brain EXCEPT !.ewma = ewma, !.fallback = prs.brain]
      /\ DOMAIN brain = {"alpha", "ewma", "fallback"}
    BY <1>1, <1>2 DEF Decided, IsLP
<1>7. /\ DOMAIN brain' = {"alpha", "ewma", "fallback"}
      /\ brain'.alpha = brain.alpha /\ brain'.ewma = ewma /\ brain'.fallback = prs.brain
    BY <1>6, Zenon
<1>8. ewma \in Records(GPU)
    BY <1>3, RecordsType
<1> QED
    BY <1>1, <1>4, <1>5, <1>7, <1>8 DEF IsLP

\* Whatever decides takes every GPU over from the failsafe; a step that does is one
\* of them.
LEMMA TickDecides == Tick => Decides
    BY DEF Tick, Control, ByPRS, ByTenants, BySolver, ByFallback, Decided, Decides

LEMMA DecidesIsTick == Next /\ Decides => Tick
    BY DEF Next, Trip, Decides

\* The failsafe leaves the brain alone.
LEMMA LoopTrip == LoopInv /\ Trip => LoopInv'
<1> SUFFICES ASSUME LoopInv, Trip PROVE LoopInv'
    OBVIOUS
<1>1. PICK g \in GPU : /\ limit' = [limit EXCEPT ![g] = Clamped(Emergency)]
                      /\ lowered' = lowered \cup {g}
    BY DEF Trip
<1>2. UNCHANGED <<util, name, quota, brain, flagged, tier>>
    BY DEF Trip
<1>3. Clamped(Emergency) \in Watts
    BY LoopParameters DEF Clamped, Least, Most, Watts
<1>4. limit' \in [GPU -> Watts] /\ lowered' \subseteq GPU
    BY <1>1, <1>3 DEF LoopInv
<1>5. BrainOK'
    BY <1>2 DEF LoopInv, BrainOK
<1>6. LimitIsLast'
  <2> SUFFICES ASSUME name = "prs", NEW h \in DOMAIN brain.last \ lowered'
               PROVE  limit'[h] = brain.last[h]
      BY <1>2 DEF LimitIsLast
  <2>1. limit[h] = brain.last[h] /\ h # g
      BY <1>1 DEF LoopInv, LimitIsLast
  <2>2. h \in GPU
      <3>1. IsPRS(brain, GPU)
          BY DEF LoopInv, BrainOK, PRSNames
      <3> QED
          BY <3>1, RecordsType DEF IsPRS
  <2> QED
      BY <1>1, <2>1, <2>2 DEF LoopInv
<1> QED
    BY <1>2, <1>4, <1>5, <1>6 DEF LoopInv

LEMMA LoopNext == LoopInv /\ [Next]_vars => LoopInv'
<1> SUFFICES ASSUME LoopInv, [Next]_vars PROVE LoopInv'
    OBVIOUS
<1>1. CASE UNCHANGED vars
    BY <1>1 DEF LoopInv, BrainOK, LimitIsLast, vars
<1>2. CASE Tick
    <2>1. /\ util' \in [GPU -> Utils] /\ flagged' \in GpuSets(name)
          /\ tier' \in TierMaps(name) /\ lowered' = {}
        BY <1>2, TickDecides DEF Tick, Decides
    <2>2. name \in BrainNames
        BY DEF LoopInv
    <2>3. CASE ByPRS
        <3>1. name \in PRSNames
            BY <2>3 DEF ByPRS
        <3>2. /\ limit' \in [GPU -> Watts] /\ IsPRS(brain', GPU)
              /\ name = "prs" => brain'.last = limit'
              /\ name' = name
            BY <2>3, ByPRSType
        <3>3. BrainOK' /\ LimitIsLast'
            BY <3>1, <3>2 DEF BrainOK, LimitIsLast, PRSNames
        <3> QED
            BY <2>1, <2>2, <3>2, <3>3 DEF LoopInv
    <2>4. CASE ByTenants
        <3>1. name = "quota-prs" /\ IsQuota(quota, GPU)
            BY <2>4 DEF ByTenants, LoopInv, BrainOK
        <3>2. /\ limit' \in [GPU -> Watts] /\ DOMAIN brain' = DOMAIN quota
              /\ \A t \in DOMAIN quota : IsPRS(brain'[t], quota[t].gpus)
              /\ name' = name /\ quota' = quota
            BY <2>4, ByTenantsType
        <3>3. BrainOK' /\ LimitIsLast'
            BY <3>1, <3>2 DEF BrainOK, LimitIsLast, PRSNames
        <3> QED
            BY <2>1, <2>2, <3>2, <3>3 DEF LoopInv
    <2>5. CASE BySolver \/ ByFallback
        <3>1. name = "cvxpy"
            BY <2>5 DEF BySolver, ByFallback
        <3>2. limit' \in [GPU -> Watts] /\ IsLP(brain', GPU) /\ name' = name
            BY <2>5, BySolverType, ByFallbackType
        <3>3. BrainOK' /\ LimitIsLast'
            BY <3>1, <3>2 DEF BrainOK, LimitIsLast, PRSNames
        <3> QED
            BY <2>1, <2>2, <3>2, <3>3 DEF LoopInv
    <2> QED
        BY <1>2, <2>3, <2>4, <2>5 DEF Tick, Control
<1> QED
    BY <1>1, <1>2, LoopTrip DEF Next

\* The form of the brain and what the limiter compares with stand through every
\* tick, whichever brain decides (StandaloneController.run_once), and through what
\* the failsafe does in between.
THEOREM LoopInvariant == Spec => []LoopInv
    BY LoopInit, LoopNext, PTL DEF Spec
---------------------------------------------------------------------------
(***************************************************************************)
(* What the runs check, for any domain.                                    *)
(***************************************************************************)
\* No cap, no average and no record a brain keeps of its caps ever leaves the
\* range of the hardware, whichever brain decides (SimBackend.set_power_cap,
\* PRSBrain._ewma and _last_caps).
THEOREM LoopTypeSafe == Spec => []TypeOK
<1>1. LoopInv => TypeOK
    <2> SUFFICES ASSUME LoopInv PROVE TypeOK
        OBVIOUS
    <2>1. \A f, G : f \in Records(G) => f \in [DOMAIN f -> 0 .. HwMax]
        BY RecordsType DEF Watts
    <2>2. ASSUME NEW b, NEW G, IsPRS(b, G)
          PROVE  \A f \in {b.ewma, b.last} : f \in [DOMAIN f -> 0 .. HwMax]
        BY <2>1, <2>2 DEF IsPRS
    <2>3. \A b \in PRSBrains : \E G : IsPRS(b, G)
        <3>1. CASE name \in PRSNames
            <4>1. PRSBrains = {brain}
                BY <3>1 DEF PRSBrains, PRSNames
            <4> QED
                BY <3>1, <4>1 DEF LoopInv, BrainOK
        <3>2. CASE name = "quota-prs"
            <4>1. PRSBrains = {brain[t] : t \in DOMAIN quota}
                BY <3>2 DEF PRSBrains, PRSNames
            <4> QED
                BY <3>2, <4>1 DEF LoopInv, BrainOK
        <3>3. CASE name = "cvxpy"
            <4>1. PRSBrains = {brain.fallback}
                BY <3>3 DEF PRSBrains, PRSNames
            <4> QED
                BY <3>3, <4>1 DEF LoopInv, BrainOK, IsLP
        <3> QED
            BY <3>1, <3>2, <3>3 DEF LoopInv, BrainNames
    <2>4. name = "cvxpy" => brain.ewma \in [DOMAIN brain.ewma -> 0 .. HwMax]
        BY <2>1 DEF LoopInv, BrainOK, IsLP
    <2> QED
        BY <2>2, <2>3, <2>4 DEF LoopInv, TypeOK, Watts
<1> QED
    BY <1>1, LoopInvariant, PTL

\* The facts about a tick every action property starts from.
LEMMA TickFacts ==
  ASSUME LoopInv
  PROVE  /\ IsFiniteSet(GPU) /\ Budget \in Nat /\ limit \in [GPU -> Watts]
         /\ Draw \in [GPU -> Watts] /\ MaxCaps \in [GPU -> Watts]
    BY DrawType, MaxCapsType, LoopParameters DEF LoopInv

\* A tick of a loop that runs PRS, alone or wrapped, or DPM.
LEMMA TickIsByPRS ==
  ASSUME Tick, name \in PRSNames
  PROVE  ByPRS
    BY DEF Tick, Control, ByTenants, BySolver, ByFallback, PRSNames

\* The caps above the floor fit the budget, or are a fixed part of all caps before
\* the tick, which is what is left of "sum cap_i <= domain budget" (prs.py:11) when
\* idle GPUs keep their average and a margin.
THEOREM LoopOvershootShrinks == Spec => OvershootShrinks
<1> DEFINE bound == Most(Budget, Times(Retained, SumFunction(limit)))
           N == GPU \ Pinned(limit')
           A == Decides /\ (name \in {"prs", "priority-prs", "cvxpy"}) /\ (\A g \in GPU : limit[g] > 0)
                  => SumFunctionOnSet(limit', N) <= bound
<1>1. ASSUME LoopInv
      PROVE  bound \in Int /\ Budget <= bound
    <2>1. SumFunction(limit) = SumFunctionOnSet(limit, GPU) /\ limit \in [GPU -> Nat]
        BY <1>1, TickFacts, WattsNat DEF SumFunction
    <2>2. SumFunction(limit) \in Nat
        BY <1>1, <2>1, TickFacts, SumNat
    <2>3. Times(Retained, SumFunction(limit)) \in Nat /\ Budget \in Nat
        BY <1>1, <2>2, RetainedType, TimesType, TickFacts
    <2> QED
        BY <2>3 DEF Most
<1>2. ASSUME LoopInv, limit' \in [GPU -> Watts], SumFunction(limit') <= Budget
      PROVE  SumFunctionOnSet(limit', N) <= bound
    <2>1. N \in SUBSET GPU /\ IsFiniteSet(GPU) /\ limit' \in [GPU -> Nat]
          /\ SumFunction(limit') = SumFunctionOnSet(limit', GPU)
        BY <1>2, TickFacts, WattsNat DEF SumFunction
    <2> HIDE DEF N
    <2>2. SumFunctionOnSet(limit', N) <= SumFunctionOnSet(limit', GPU)
        BY <2>1, SumPart
    <2>3. IsFiniteSet(N) /\ \A g \in N : limit'[g] \in Nat
        BY <2>1, FS_Subset
    <2>4. SumFunctionOnSet(limit', N) \in Nat /\ SumFunctionOnSet(limit', GPU) \in Nat
        BY <2>1, <2>3, SumNat
    <2>5. Budget \in Nat
        BY LoopParameters
    <2> HIDE DEF bound
    <2> QED
        BY <1>1, <1>2, <2>1, <2>2, <2>4, <2>5
<1>3. ASSUME LoopInv, NEW self, IsPRS(self, GPU), \A g \in GPU : limit[g] > 0,
             limit' = PRSDecide(self, Budget, Draw, limit, MaxCaps).caps
      PROVE  SumFunctionOnSet(limit', N) <= bound
    <2>1. N \in SUBSET GPU /\ \A g \in N : ~ limit'[g] <= MinCap
        BY DEF Pinned
    <2> HIDE DEF N
    <2> QED
        BY <1>3, <2>1, TickFacts, PRSDecideShrinks
<1>4. LoopInv /\ [Next]_vars => [A]_vars
    <2> SUFFICES ASSUME LoopInv, Tick, name \in {"prs", "priority-prs", "cvxpy"},
                        \A g \in GPU : limit[g] > 0
                 PROVE  SumFunctionOnSet(limit', N) <= bound
        BY DecidesIsTick
    <2> HIDE DEF N, bound
    <2>1. CASE name = "prs"
        <3>1. name \in PRSNames
            BY <2>1 DEF PRSNames
        <3>2. limit' = PRSDecide(brain, Budget, Draw, limit, MaxCaps).caps
            BY <2>1, <3>1, TickIsByPRS, ByPRSType
        <3> QED
            BY <1>3, <3>1, <3>2 DEF LoopInv, BrainOK
    <2>2. CASE name = "priority-prs"
        <3> DEFINE prs == PRSDecide(brain, Budget, Draw, limit, MaxCaps)
        <3>1. name \in PRSNames
            BY <2>2 DEF PRSNames
        <3>2. limit' = Caps(prs.caps) /\ limit' \in [GPU -> Watts]
            BY <3>1, TickIsByPRS, ByPRSType
        <3>3. IsPRS(brain, GPU) /\ tier \in [GPU -> {"low", "normal", "high", "critical"}]
            BY <2>2, <3>1 DEF LoopInv, BrainOK, TierMaps
        <3>4. prs.caps \in [GPU -> Watts]
            BY <3>3, TickFacts, PRSDecideType
        <3>5. prs.caps = PRSDecide(brain, Budget, Draw, limit, MaxCaps).caps
            OBVIOUS
        <3> HIDE DEF prs
        <3>6. limit' = PriorityCaps(prs.caps, Budget, Draw, limit, MaxCaps, tier)
            BY <2>2, <3>2 DEF Caps
        <3>7. limit' = prs.caps \/ SumFunction(limit') <= Budget
            BY <3>3, <3>4, <3>6, TickFacts, PriorityCapsType
        <3> QED
            BY <1>2, <1>3, <3>2, <3>3, <3>5, <3>7
    <2>3. CASE name = "cvxpy"
        <3>1. BySolver \/ ByFallback
            BY <2>3 DEF Tick, Control, ByPRS, ByTenants, PRSNames
        <3>2. IsLP(brain, GPU)
            BY <2>3 DEF LoopInv, BrainOK
        <3>3. CASE BySolver
            <4> DEFINE ewma == Blended(brain.alpha, brain.ewma, Draw)
            <4>1. PICK caps \in Optima(Budget, ewma, MaxCaps) :
                     Decided(caps, [brain EXCEPT !.ewma = ewma])
                BY <3>3 DEF BySolver
            <4>2. ewma \in [GPU -> Watts]
                BY <3>2, TickFacts, BlendedType DEF IsLP
            <4> HIDE DEF ewma
            <4>3. /\ caps \in [GPU -> Watts]
                  /\ (\A g \in GPU : caps[g] = MinCap) \/ SumFunction(caps) <= Budget
                BY <4>2, TickFacts, OptimaType
            <4>4. limit' = caps
                BY <4>1, <4>3, ClampedType DEF Decided
            <4>5. CASE \A g \in GPU : caps[g] = MinCap
                <5>1. N = {}
                    BY <4>4, <4>5, BrainParameters DEF N, Pinned
                <5>2. SumFunctionOnSet(limit', N) = 0
                    BY <5>1, SumEmpty
                <5> QED
                    BY <1>1, <5>2, LoopParameters
            <4> QED
                BY <1>2, <4>3, <4>4, <4>5
        <3>4. CASE ByFallback
            <4> DEFINE prs == PRSDecide(brain.fallback, Budget, Draw, limit, MaxCaps)
            <4>1. prs.caps \in [GPU -> Watts]
                BY <3>2, TickFacts, PRSDecideType DEF IsLP
            <4>2. limit' = [g \in GPU |-> Clamped(prs.caps[g])]
                BY <3>4 DEF ByFallback, Decided
            <4>3. limit' = prs.caps
                BY <4>1, <4>2, ClampedType
            <4> QED
                BY <1>3, <3>2, <4>3 DEF IsLP
        <3> QED
            BY <3>1, <3>3, <3>4
    <2> QED
        BY <2>1, <2>2, <2>3
<1> QED
    BY <1>4, LoopInvariant, PTL DEF Spec, OvershootShrinks

\* The limiter bounds the raise of the device although it compares with what
\* PRS decided last (prs.py:70): LimitIsLast says they are the same, but where the
\* failsafe has come in between.
THEOREM LoopRaiseBounded == Spec => RaiseBounded
<1> DEFINE A == Decides /\ name = "prs" /\ brain.rate > 0
                  => \A g \in GPU \ lowered : limit'[g] <= limit[g] + brain.rate
<1>1. LoopInv /\ [Next]_vars => [A]_vars
    <2> SUFFICES ASSUME LoopInv, Tick, name = "prs", brain.rate > 0, NEW g \in GPU \ lowered
                 PROVE  limit'[g] <= limit[g] + brain.rate
        BY DecidesIsTick
    <2> DEFINE prs == PRSDecide(brain, Budget, Draw, limit, MaxCaps)
    <2>1. name \in PRSNames
        BY DEF PRSNames
    <2>2. prs.caps = limit'
        BY <2>1, TickIsByPRS, ByPRSType
    <2>3. IsPRS(brain, GPU)
        BY <2>1 DEF LoopInv, BrainOK
    <2>4. prs.caps[g] <= (IF g \in DOMAIN brain.last THEN brain.last[g] ELSE limit[g]) + brain.rate
        BY <2>3, TickFacts, PRSDecideType
    <2>5. g \in DOMAIN brain.last => brain.last[g] = limit[g]
        BY DEF LoopInv, LimitIsLast
    <2> HIDE DEF prs
    <2>6. (IF g \in DOMAIN brain.last THEN brain.last[g] ELSE limit[g]) = limit[g]
        BY <2>5
    <2> QED
        BY <2>2, <2>4, <2>6
<1> QED
    BY <1>1, LoopInvariant, PTL DEF Spec, RaiseBounded

\* "a throttled GPU is never raised, only backed off" (thermal_prs.py:40),
\* whatever PRS proposes and the other GPUs leave.
THEOREM LoopThrottledNeverRaised == Spec => ThrottledNeverRaised
<1> DEFINE A == Decides /\ name = "thermal-prs" => \A g \in flagged : limit'[g] <= limit[g]
<1>1. LoopInv /\ [Next]_vars => [A]_vars
    <2> SUFFICES ASSUME LoopInv, Tick, name = "thermal-prs"
                 PROVE  \A g \in flagged : limit'[g] <= limit[g]
        BY DecidesIsTick
    <2> DEFINE prs == PRSDecide(brain, Budget, Draw, limit, MaxCaps)
    <2>1. name \in PRSNames
        BY DEF PRSNames
    <2>2. limit' = Caps(prs.caps)
        BY <2>1, TickIsByPRS, ByPRSType
    <2>3. IsPRS(brain, GPU) /\ flagged \in SUBSET GPU
        BY <2>1 DEF LoopInv, BrainOK, GpuSets
    <2>4. prs.caps \in [GPU -> Watts]
        BY <2>3, TickFacts, PRSDecideType
    <2> HIDE DEF prs
    <2>5. limit' = ThermalCaps(prs.caps, limit, MaxCaps, flagged)
        BY <2>2 DEF Caps
    <2> QED
        BY <2>3, <2>4, <2>5, TickFacts, ThermalCapsType
<1> QED
    BY <1>1, LoopInvariant, PTL DEF Spec, ThrottledNeverRaised

\* One tick of DPM brings a fleet that draws too much to its budget, the GPUs
\* held at the floor aside (dpm.py:55).
THEOREM LoopShedInOneTick == Spec => ShedInOneTick
<1> DEFINE A == Decides /\ name = "dpm" /\ SumFunction(Draw) > Budget
                  => SumFunctionOnSet(limit', GPU \ Pinned(limit')) <= Budget
<1>1. LoopInv /\ [Next]_vars => [A]_vars
    <2> SUFFICES ASSUME LoopInv, Tick, name = "dpm", SumFunction(Draw) > Budget
                 PROVE  SumFunctionOnSet(limit', GPU \ Pinned(limit')) <= Budget
        BY DecidesIsTick
    <2> DEFINE prs == PRSDecide(brain, Budget, Draw, limit, MaxCaps)
    <2>1. name \in PRSNames
        BY DEF PRSNames
    <2>2. limit' = Caps(prs.caps)
        BY <2>1, TickIsByPRS, ByPRSType
    <2> HIDE DEF prs
    <2>3. limit' = DPMCaps(Budget, Draw, limit, MaxCaps)
        BY <2>2 DEF Caps
    <2>4. GPU \ Pinned(limit') \in SUBSET GPU /\ \A g \in GPU \ Pinned(limit') : ~ limit'[g] <= MinCap
        BY DEF Pinned
    <2>5. \A g \in GPU \ Pinned(limit') : limit'[g] # MinCap
        BY <2>4, BrainParameters
    <2> QED
        BY <2>3, <2>4, <2>5, TickFacts, DPMCapsType
<1> QED
    BY <1>1, LoopInvariant, PTL DEF Spec, ShedInOneTick

\* With a job on any GPU the caps of job-prs fit the budget, floors included
\* (job_aware_prs.py:46).
THEOREM LoopBoostFitsBudget == Spec => BoostFitsBudget
<1> DEFINE A == Decides /\ name = "job-prs" /\ flagged # {} /\ Budget > 0 => SumFunction(limit') <= Budget
<1>1. LoopInv /\ [Next]_vars => [A]_vars
    <2> SUFFICES ASSUME LoopInv, Tick, name = "job-prs", flagged # {}, Budget > 0
                 PROVE  SumFunction(limit') <= Budget
        BY DecidesIsTick
    <2> DEFINE prs == PRSDecide(brain, Budget, Draw, limit, MaxCaps)
    <2>1. name \in PRSNames
        BY DEF PRSNames
    <2>2. limit' = Caps(prs.caps)
        BY <2>1, TickIsByPRS, ByPRSType
    <2>3. IsPRS(brain, GPU) /\ flagged \in SUBSET GPU
        BY <2>1 DEF LoopInv, BrainOK, GpuSets
    <2>4. prs.caps \in [GPU -> Watts]
        BY <2>3, TickFacts, PRSDecideType
    <2> HIDE DEF prs
    <2>5. limit' = JobCaps(prs.caps, Budget, MaxCaps, flagged)
        BY <2>2 DEF Caps
    <2> QED
        BY <2>3, <2>4, <2>5, TickFacts, JobCapsType
<1> QED
    BY <1>1, LoopInvariant, PTL DEF Spec, BoostFitsBudget

\* Every tenant stays within its slice and the domain within its budget, for any
\* quota the controller accepts (docs/N13-quota-enforcement.md).
THEOREM LoopSlicesKept == Spec => SlicesKept
<1> DEFINE A == Decides /\ name = "quota-prs" /\ (\A t \in DOMAIN quota : Slice(quota, t, Budget) > 0)
                  => /\ \A t \in DOMAIN quota :
                           SumFunctionOnSet(limit', quota[t].gpus) <= Slice(quota, t, Budget)
                     /\ SumFunction(limit') <= Budget
<1>1. LoopInv /\ [Next]_vars => [A]_vars
    <2> SUFFICES ASSUME LoopInv, Tick, name = "quota-prs" PROVE A
        BY DecidesIsTick
    <2>1. ByTenants
        BY DEF Tick, Control, ByPRS, BySolver, ByFallback, PRSNames
    <2> QED
        BY <2>1, ByTenantsType
<1> QED
    BY <1>1, LoopInvariant, PTL DEF Spec, SlicesKept

\* The loop under a steady load, of which the liveness runs speak, is a behaviour
\* of the loop: all of the above holds of it.
THEOREM SteadyIsLoop == SteadySpec => Spec
<1>1. LoopInv /\ [SteadyTick]_vars => [Next]_vars
    BY DEF LoopInv, SteadyTick, Tick, Next
<1>2. LoopInv /\ [SteadyTick]_vars => LoopInv'
    BY <1>1, LoopNext
<1> QED
    BY <1>1, <1>2, LoopInit, PTL DEF SteadySpec, Spec
==============================================================================
