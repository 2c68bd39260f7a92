------------------------- MODULE ClusterBudget_proofs -------------------------
(***************************************************************************)
(* Whatever the nodes, the store and the coordinator do in between: the    *)
(* shares of a round fit the cluster, and those of a topology its racks.   *)
(***************************************************************************)
EXTENDS ClusterBudget, SumTheorems

\* A node publishes a draw that its domain may have.
DrawsOfDeployment == \A d \in Active : draw[d] \in cluster.draws[d]

\* What a round read so far, in a store read key by key: nothing of a node whose key
\* it has still to get, so that no node is read twice.
RoundReads ==
    /\ IsFiniteSet(got)
    /\ coord = "get" => /\ keys \subseteq Node
                        /\ \A s \in got : NodeOf[s.domain] \notin keys

\* The inductive invariant of the nodes, the store and the coordinator.
ClusterInv ==
    ClusterTypeOK /\ DOMAIN state = Node /\ DrawsOfDeployment /\ RoundReads
---------------------------------------------------------------------------
(***************************************************************************)
(* The shares.                                                             *)
(***************************************************************************)
LEMMA ActiveDomains == ASSUME cluster \in Deployments
                       PROVE  Active \subseteq Domain /\ IsFiniteSet(Active)
<1>1. Active \subseteq Domain
    BY ClusterParameters DEF Active
<1>2. IsFiniteSet(Domain)
    BY ClusterParameters
<1> QED
    BY <1>1, <1>2, FS_Subset

LEMMA FiniteNodes == IsFiniteSet(Node)
<1> DEFINE f == [d \in Domain |-> NodeOf[d]]
<1>1. f \in Surjection(Domain, Node)
    BY DEF Surjection, Node
<1>2. IsFiniteSet(Domain)
    BY ClusterParameters
<1> QED
    BY <1>1, <1>2, FS_Surjection

\* The floors of n nodes, half of what there is, and the part by draw of the rest.
LEMMA FloorCeil ==
  ASSUME NEW n \in Nat, n > 0
  PROVE  /\ FloorW(n) \in Nat /\ CeilW(n) \in Nat
         /\ FloorW(n) <= CeilW(n)
         /\ ClusterW - n * FloorW(n) \in Nat
<1>0. ClusterW \in Nat
    BY ClusterParameters
<1> DEFINE a == ClusterW \div (2 * n)
           b == (2 * ClusterW) \div n
<1>1. a \in Int /\ (2 * n) * a <= ClusterW /\ a >= 0
    BY <1>0, DivBounds
<1>2. b \in Int /\ b >= 0 /\ 2 * ClusterW < n * b + n
    BY <1>0
<1> HIDE DEF a, b
<1>3. n * a \in Nat /\ n * a + n * a <= ClusterW
    BY <1>1
<1>4. ~ b < a
    <2> SUFFICES ASSUME b + 1 <= a PROVE FALSE
        BY <1>1, <1>2
    <2>1. n * (b + 1) <= n * a
        BY <1>1, <1>2
    <2>2. n * (b + 1) = n * b + n /\ n * b \in Int
        BY <1>2
    <2> QED
        BY <2>1, <2>2, <1>0, <1>2, <1>3
<1>5. FloorW(n) = a /\ CeilW(n) = b
    BY DEF FloorW, CeilW, a, b
<1> QED
    BY <1>0, <1>1, <1>2, <1>3, <1>4, <1>5

TotalOf(S) == IF TotalDraw(S) = 0 THEN 1 ELSE TotalDraw(S)
Extra(s, S) == (s.draw * (ClusterW - Cardinality(S) * FloorW(Cardinality(S)))) \div TotalOf(S)

LEMMA TotalDrawType ==
  ASSUME NEW S, IsFiniteSet(S), \A s \in S : s.draw \in Nat
  PROVE  TotalDraw(S) \in Nat /\ TotalOf(S) \in Nat /\ TotalOf(S) > 0
<1> DEFINE f == [s \in S |-> s.draw]
<1>1. \A s \in S : f[s] \in Nat
    OBVIOUS
<1>2. TotalDraw(S) = SumFunctionOnSet(f, S)
    BY DEF TotalDraw, SumFunction
<1> HIDE DEF f
<1>3. TotalDraw(S) \in Nat
    BY <1>1, <1>2, SumNat
<1> QED
    BY <1>3 DEF TotalOf

\* A share is between half a fair share and double of it.
LEMMA ShareBounds ==
  ASSUME NEW S, IsFiniteSet(S), \A s \in S : s.draw \in Nat, NEW s \in S
  PROVE  LET n == Cardinality(S)
         IN  /\ n \in Nat /\ n > 0
             /\ Share(s, S) \in Nat
             /\ FloorW(n) <= Share(s, S) /\ Share(s, S) <= CeilW(n)
             /\ Extra(s, S) \in Nat
             /\ TotalOf(S) * Extra(s, S) <= s.draw * (ClusterW - n * FloorW(n))
             /\ Share(s, S) <= FloorW(n) + Extra(s, S)
<1> DEFINE n == Cardinality(S)
           surplus == ClusterW - n * FloorW(n)
<1>1. n \in Nat /\ n > 0
    BY FS_CardinalityType, FS_EmptySet
<1> HIDE DEF n
<1>2. FloorW(n) \in Nat /\ CeilW(n) \in Nat /\ FloorW(n) <= CeilW(n) /\ surplus \in Nat
    BY <1>1, FloorCeil
<1>3. TotalOf(S) \in Nat /\ TotalOf(S) > 0
    BY TotalDrawType
<1>4. s.draw \in Nat
    OBVIOUS
<1> HIDE DEF surplus
<1>5. s.draw * surplus \in Nat
    BY <1>2, <1>4
<1>6. Extra(s, S) = (s.draw * surplus) \div TotalOf(S)
    BY DEF Extra, surplus, n
<1>7. Extra(s, S) \in Nat /\ TotalOf(S) * Extra(s, S) <= s.draw * surplus
    BY <1>3, <1>5, <1>6, DivBounds
<1>8. Share(s, S) = IF FloorW(n) + Extra(s, S) > CeilW(n) THEN CeilW(n)
                    ELSE FloorW(n) + Extra(s, S)
    BY DEF Share, Extra, TotalOf, n
<1>9. TotalOf(S) * Extra(s, S) <= s.draw * (ClusterW - n * FloorW(n))
    BY <1>7 DEF surplus
<1> QED
    BY <1>1, <1>2, <1>7, <1>8, <1>9 DEF n
\* The shares of a round sum to no more than the cluster's budget.
LEMMA SharesFit ==
  ASSUME NEW S, IsFiniteSet(S), \A s \in S : s.draw \in Nat, S # {}
  PROVE  SumFunction([s \in S |-> Share(s, S)]) <= ClusterW
<1> DEFINE n == Cardinality(S)
           total == TotalOf(S)
           surplus == ClusterW - n * FloorW(n)
           share == [s \in S |-> Share(s, S)]
           draws == [s \in S |-> s.draw]
           c == total * FloorW(n)
<1>1. n \in Nat /\ n > 0
    BY FS_CardinalityType, FS_EmptySet
<1>2. total \in Nat /\ total > 0 /\ TotalDraw(S) \in Nat
    BY TotalDrawType
<1>3. ClusterW \in Nat
    BY ClusterParameters
<1>4. SumFunction([s \in S |-> Share(s, S)]) = SumFunctionOnSet(share, S)
    BY DEF SumFunction
<1>5. TotalDraw(S) = SumFunctionOnSet(draws, S)
    BY DEF TotalDraw, SumFunction
<1>6. FloorW(n) \in Nat /\ surplus \in Nat
    BY <1>1, FloorCeil
<1>7. c \in Int
    BY <1>2, <1>6
<1>8. \A s \in S : /\ draws[s] \in Int /\ share[s] \in Int
                   /\ total * share[s] <= surplus * draws[s] + c
    <2> SUFFICES ASSUME NEW s \in S
                 PROVE  share[s] \in Int /\ total * share[s] <= surplus * s.draw + c
        OBVIOUS
    <2>1. /\ Share(s, S) \in Nat /\ Extra(s, S) \in Nat
          /\ total * Extra(s, S) <= s.draw * surplus
          /\ Share(s, S) <= FloorW(n) + Extra(s, S)
        BY ShareBounds
    <2>2. s.draw \in Nat /\ share[s] = Share(s, S)
        OBVIOUS
    <2> HIDE DEF total, surplus, n, share, draws
    <2>3. total * Share(s, S) <= total * (FloorW(n) + Extra(s, S))
        BY <1>2, <1>6, <2>1
    <2>4. total * (FloorW(n) + Extra(s, S)) = c + total * Extra(s, S)
        BY <1>2, <1>6, <2>1
    <2>5. s.draw * surplus = surplus * s.draw /\ surplus * s.draw \in Int
          /\ total * Extra(s, S) \in Int /\ total * Share(s, S) \in Int
        BY <1>2, <1>6, <2>1, <2>2
    <2> QED
        BY <1>7, <2>1, <2>2, <2>3, <2>4, <2>5
<1>9. surplus \in Int /\ total \in Int
    BY <1>2, <1>6
<1> HIDE DEF share, draws, surplus, total, c
<1>10. total * SumFunctionOnSet(share, S) <= surplus * SumFunctionOnSet(draws, S) + c * n
    BY <1>7, <1>8, <1>9, SumBound
<1>11. SumFunctionOnSet(share, S) \in Int
    BY <1>8, SumInt
<1>12. surplus * SumFunctionOnSet(draws, S) <= surplus * total
    BY <1>2, <1>5, <1>6 DEF total, TotalOf
<1> HIDE DEF n
<1>13. surplus * total + c * n = total * ClusterW
    <2>1. c * n = total * (n * FloorW(n))
        BY <1>1, <1>2, <1>6 DEF c
    <2>2. n * FloorW(n) \in Int
        BY <1>1, <1>6
    <2>3. surplus * total = total * ClusterW - total * (n * FloorW(n))
        BY <1>2, <1>3, <2>2 DEF surplus
    <2>4. total * ClusterW \in Int /\ total * (n * FloorW(n)) \in Int
        BY <1>2, <1>3, <2>2
    <2> QED
        BY <2>1, <2>3, <2>4
<1>14. total * SumFunctionOnSet(share, S) <= total * ClusterW
    <2>1. c * n \in Int /\ surplus * total \in Int /\ total * ClusterW \in Int
          /\ surplus * SumFunctionOnSet(draws, S) \in Int
          /\ total * SumFunctionOnSet(share, S) \in Int
        BY <1>1, <1>2, <1>3, <1>5, <1>6, <1>7, <1>11
    <2> QED
        BY <2>1, <1>10, <1>12, <1>13
<1> QED
    BY <1>2, <1>3, <1>4, <1>11, <1>14

\* RoundFits, from the types of what the round read.
LEMMA ClusterInvRoundFits == ClusterInv => RoundFits
<1> SUFFICES ASSUME ClusterInv, coord = "publish", got # {}
             PROVE  /\ SumFunction([s \in got |-> Share(s, got)]) <= ClusterW
                    /\ \A s \in got : /\ Share(s, got) >= FloorW(Cardinality(got))
                                      /\ Share(s, got) <= CeilW(Cardinality(got))
    BY DEF RoundFits
<1>1. IsFiniteSet(got) /\ \A s \in got : s.draw \in Nat
    BY DEF ClusterInv, ClusterTypeOK, RoundReads
<1>2. SumFunction([s \in got |-> Share(s, got)]) <= ClusterW
    BY <1>1, SharesFit
<1>3. ASSUME NEW s \in got
      PROVE  Share(s, got) >= FloorW(Cardinality(got)) /\ Share(s, got) <= CeilW(Cardinality(got))
    <2>1. FloorW(Cardinality(got)) \in Nat /\ Share(s, got) \in Nat
        BY <1>1, ShareBounds, FloorCeil
    <2> QED
        BY <1>1, <2>1, ShareBounds
<1> QED
    BY <1>2, <1>3
---------------------------------------------------------------------------
(***************************************************************************)
(* The racks.                                                              *)
(***************************************************************************)
\* A domain that has no budget from the coordinator has at most its part of the rack.
LEMMA RackShareBounds ==
  ASSUME cluster \in Deployments, NEW r \in DOMAIN RackW, RackW[r] > 0, NEW d \in OnRack(r)
  PROVE  LET total == Watts(OnRack(r))
         IN  /\ RackShare(d) \in Nat /\ BudgetW[d] \in Nat
             /\ total > RackW[r] => total * RackShare(d) <= RackW[r] * BudgetW[d]
             /\ total <= RackW[r] => RackShare(d) = BudgetW[d]
<1> DEFINE total == Watts(OnRack(r))
<1>1. d \in Active /\ RackOf[d] = r /\ d \in Domain
    BY ActiveDomains DEF OnRack
<1>2. BudgetW[d] \in Nat /\ RackW[r] \in Nat /\ r # NoRack
    BY <1>1, ClusterParameters DEF IsTopology
<1>3. total \in Nat
    <2>1. IsFiniteSet(OnRack(r))
        BY ActiveDomains, FS_Subset DEF OnRack
    <2>2. \A e \in OnRack(r) : BudgetW[e] \in Nat
        BY ActiveDomains, ClusterParameters DEF OnRack, IsTopology
    <2> QED
        BY <2>1, <2>2, SumNat DEF Watts
<1>4. RackShare(d) = IF total > RackW[r] THEN (BudgetW[d] * RackW[r]) \div total ELSE BudgetW[d]
    BY <1>1, <1>2 DEF RackShare
<1> HIDE DEF total
<1>5. CASE total > RackW[r]
    <2>1. BudgetW[d] * RackW[r] \in Nat /\ total > 0
        BY <1>2, <1>3, <1>5
    <2>2. RackShare(d) \in Nat /\ total * RackShare(d) <= BudgetW[d] * RackW[r]
        BY <2>1, <1>3, <1>4, <1>5, DivBounds
    <2>3. BudgetW[d] * RackW[r] = RackW[r] * BudgetW[d]
        BY <1>2
    <2> QED
        BY <2>2, <2>3, <1>2, <1>3, <1>5 DEF total
<1>6. CASE ~ total > RackW[r]
    BY <1>6, <1>2, <1>3, <1>4 DEF total
<1> QED
    BY <1>5, <1>6

\* RackFits: adopted budgets and overheads only take away from what the shares sum to.
LEMMA ClusterTypeRackFits == ClusterTypeOK => RackFits
<1> SUFFICES ASSUME ClusterTypeOK, NEW r \in DOMAIN RackW, RackW[r] > 0
             PROVE  SumFunction([d \in {e \in OnRack(r) : override[e] = None} |-> DomainBudgetW(d)])
                        <= RackW[r]
    BY DEF RackFits
<1> DEFINE own == {e \in OnRack(r) : override[e] = None}
           all == OnRack(r)
           budget == [d \in own |-> DomainBudgetW(d)]
           share == [d \in all |-> RackShare(d)]
           total == Watts(all)
<1>0. cluster \in Deployments
    BY DEF ClusterTypeOK
<1>1. IsFiniteSet(all) /\ all \subseteq Domain
    BY <1>0, ActiveDomains, FS_Subset DEF OnRack
<1>2. own \in SUBSET all /\ IsFiniteSet(own)
    BY <1>1, FS_Subset
<1>3. RackW[r] \in Nat
    BY ClusterParameters DEF IsTopology
<1>4. SumFunction([d \in {e \in OnRack(r) : override[e] = None} |-> DomainBudgetW(d)])
        = SumFunctionOnSet(budget, own)
    BY DEF SumFunction
<1>5. \A d \in all : BudgetW[d] \in Nat /\ share[d] \in Nat
    BY <1>0, RackShareBounds
<1>6. total = SumFunctionOnSet(BudgetW, all)
    BY DEF Watts
<1>7. \A d \in own : budget[d] \in Int /\ share[d] \in Int /\ budget[d] <= share[d]
    <2> SUFFICES ASSUME NEW d \in own
                 PROVE  budget[d] \in Int /\ share[d] \in Int /\ budget[d] <= share[d]
        OBVIOUS
    <2>1. OverheadW[d] \in Nat
        BY <1>1, ClusterParameters DEF IsTopology
    <2>2. InForce(d) = share[d] /\ share[d] \in Nat
        BY <1>5 DEF InForce
    <2>3. budget[d] = AtLeastZero(share[d] - OverheadW[d])
        BY <2>2 DEF DomainBudgetW
    <2> QED
        BY <2>1, <2>2, <2>3 DEF AtLeastZero
<1>8. \A d \in all : /\ total > RackW[r] => total * share[d] <= RackW[r] * BudgetW[d]
                     /\ total <= RackW[r] => share[d] = BudgetW[d]
    BY <1>0, RackShareBounds
<1>9. total \in Nat
    BY <1>1, <1>5, <1>6, SumNat
<1> HIDE DEF own, all, budget, share, total
<1>10. SumFunctionOnSet(budget, own) <= SumFunctionOnSet(share, own)
    BY <1>2, <1>7, SumMonotonic
<1>11. SumFunctionOnSet(share, own) <= SumFunctionOnSet(share, all)
    BY <1>1, <1>2, <1>5, SumPart
<1>12. SumFunctionOnSet(share, all) <= RackW[r]
    <2>1. CASE total > RackW[r]
        <3>1. \A d \in all : /\ BudgetW[d] \in Int /\ share[d] \in Int
                             /\ total * share[d] <= RackW[r] * BudgetW[d] + 0
            <4> SUFFICES ASSUME NEW d \in all
                         PROVE  /\ BudgetW[d] \in Int /\ share[d] \in Int
                                /\ total * share[d] <= RackW[r] * BudgetW[d] + 0
                OBVIOUS
            <4>1. RackW[r] * BudgetW[d] \in Int
                BY <1>3, <1>5
            <4> QED
                BY <4>1, <1>5, <1>8, <2>1
        <3>2. total * SumFunctionOnSet(share, all)
                <= RackW[r] * SumFunctionOnSet(BudgetW, all) + 0 * Cardinality(all)
            <4>1. total \in Int /\ RackW[r] \in Int /\ 0 \in Int
                BY <1>3, <1>9
            <4> QED
                BY <4>1, <1>1, <3>1, SumBound
        <3>3. SumFunctionOnSet(share, all) \in Int /\ Cardinality(all) \in Int
            BY <1>1, <1>5, SumInt, FS_CardinalityType
        <3>4. total * SumFunctionOnSet(share, all) <= total * RackW[r]
            BY <1>3, <1>6, <1>9, <3>2, <3>3
        <3> QED
            BY <1>3, <1>9, <2>1, <3>3, <3>4
    <2>2. CASE ~ total > RackW[r]
        <3>1. \A d \in all : BudgetW[d] \in Int /\ share[d] = BudgetW[d]
            BY <1>3, <1>5, <1>8, <1>9, <2>2
        <3>2. SumFunctionOnSet(share, all) = total
            BY <1>1, <1>6, <3>1, SumSame
        <3> QED
            BY <3>2, <2>2, <1>3, <1>9
    <2> QED
        BY <2>1, <2>2
<1>13. /\ SumFunctionOnSet(budget, own) \in Int
       /\ SumFunctionOnSet(share, own) \in Int
       /\ SumFunctionOnSet(share, all) \in Int
    BY <1>1, <1>2, <1>5, <1>7, SumInt
<1> QED
    BY <1>3, <1>4, <1>10, <1>11, <1>12, <1>13
---------------------------------------------------------------------------
(***************************************************************************)
(* The inductive invariant.                                                *)
(***************************************************************************)
LEMMA ClusterInitInv == ClusterInit => ClusterInv
<1> SUFFICES ASSUME ClusterInit PROVE ClusterInv
    OBVIOUS
<1> USE DEF ClusterInit
<1>1. cluster \in Deployments /\ Active \subseteq Domain
    BY ActiveDomains
<1>2. \A d \in Active : draw[d] \in cluster.draws[d] /\ cluster.draws[d] \subseteq Nat
    BY ClusterParameters DEF Active
<1>3. draw \in [Active -> Nat]
    BY <1>2
<1>4. \A n \in Node : state[n] # None =>
          /\ state[n].domain \in Active /\ NodeOf[state[n].domain] = n
          /\ state[n].draw \in cluster.draws[state[n].domain]
    <2> SUFFICES ASSUME NEW n \in Node, state[n] # None
                 PROVE  /\ state[n].domain \in Active /\ NodeOf[state[n].domain] = n
                        /\ state[n].draw \in cluster.draws[state[n].domain]
        OBVIOUS
    <2> DEFINE d == CHOOSE e \in Active : NodeOf[e] = n
    <2>1. n \in up /\ state[n] = NodeState(d)
        OBVIOUS
    <2>2. \E e \in Active : NodeOf[e] = n
        BY <2>1
    <2>3. d \in Active /\ NodeOf[d] = n
        BY <2>2
    <2> QED
        BY <2>1, <2>3, <1>2 DEF NodeState
<1>5. up \subseteq Node
    BY <1>1 DEF Node
<1>6. MaxChanges \in Nat
    BY ClusterParameters
<1>7. ClusterTypeOK
    BY <1>1, <1>3, <1>4, <1>5, <1>6 DEF ClusterTypeOK
<1>8. RoundReads
    BY FS_EmptySet DEF RoundReads
<1> QED
    BY <1>2, <1>7, <1>8 DEF ClusterInv, DrawsOfDeployment

\* What a round read stays as it is, and so does what was adopted, when only these
\* variables change.
LEMMA NodeStepInv ==
  ASSUME ClusterInv, cluster' = cluster, UNCHANGED coordinator,
         up' \subseteq Node, changes' \in 0 .. MaxChanges,
         draw' \in [Active -> Nat], \A d \in Active : draw'[d] \in cluster.draws[d],
         DOMAIN state' = Node,
         \A n \in Node : state'[n] # None =>
            /\ state'[n].domain \in Active /\ NodeOf[state'[n].domain] = n
            /\ state'[n].draw \in cluster.draws[state'[n].domain],
         adopted' \in [Active -> Nat \cup {None}],
         override' \in [Active -> Nat \cup {None}]
  PROVE  ClusterInv'
<1>1. Active' = Active
    BY DEF Active
<1>2. coord' = coord /\ keys' = keys /\ got' = got
    BY DEF coordinator
<1>3. ClusterTypeOK'
    BY <1>1, <1>2 DEF ClusterInv, ClusterTypeOK
<1>4. DrawsOfDeployment'
    BY <1>1 DEF DrawsOfDeployment
<1>5. RoundReads'
    BY <1>2 DEF ClusterInv, RoundReads
<1> QED
    BY <1>3, <1>4, <1>5 DEF ClusterInv

LEMMA ChangedType == ASSUME ClusterInv, Changed PROVE changes' \in 0 .. MaxChanges
    BY ClusterParameters DEF ClusterInv, ClusterTypeOK, Changed

\* Nodes, loads, keys that expire and ticks.
LEMMA NodesKeepInv ==
  ASSUME ClusterInv,
         \/ \E d \in Active : \/ Publish(d) \/ DrawChanges(d) \/ BudgetExpires(d)
                              \/ Tick(d) \/ TickUnread(d)
         \/ \E n \in Node : NodeFlips(n) \/ StateExpires(n)
  PROVE  ClusterInv'
<1> USE DEF ClusterInv, ClusterTypeOK, DrawsOfDeployment
<1>1. ASSUME NEW d \in Active, Publish(d) PROVE ClusterInv'
    <2>1. /\ cluster' = cluster /\ up' = up /\ draw' = draw /\ adopted' = adopted
          /\ override' = override /\ UNCHANGED coordinator /\ changes' = changes
        BY <1>1 DEF Publish
    <2>2. state' = [state EXCEPT ![NodeOf[d]] = NodeState(d)]
        BY <1>1 DEF Publish
    <2>3. DOMAIN state' = Node
        BY <2>2
    <2>4. \A n \in Node : state'[n] # None =>
            /\ state'[n].domain \in Active /\ NodeOf[state'[n].domain] = n
            /\ state'[n].draw \in cluster.draws[state'[n].domain]
        BY <2>2 DEF NodeState
    <2> HIDE DEF ClusterInv
    <2> QED
        BY <2>1, <2>3, <2>4, NodeStepInv DEF ClusterInv
<1>2. ASSUME NEW d \in Active, DrawChanges(d) PROVE ClusterInv'
    <2>1. /\ cluster' = cluster /\ up' = up /\ state' = state /\ adopted' = adopted
          /\ override' = override /\ UNCHANGED coordinator /\ changes' \in 0 .. MaxChanges
        BY <1>2, ChangedType DEF DrawChanges
    <2>2. PICK w \in cluster.draws[d] : draw' = [draw EXCEPT ![d] = w]
        BY <1>2 DEF DrawChanges
    <2>3. cluster.draws[d] \subseteq Nat
        BY ClusterParameters DEF Active
    <2>4. draw' \in [Active -> Nat] /\ \A e \in Active : draw'[e] \in cluster.draws[e]
        BY <2>2, <2>3
    <2> QED
        BY <2>1, <2>4, NodeStepInv
<1>3. ASSUME NEW d \in Active, BudgetExpires(d) PROVE ClusterInv'
    <2>1. /\ cluster' = cluster /\ up' = up /\ state' = state /\ draw' = draw
          /\ override' = override /\ UNCHANGED coordinator /\ changes' \in 0 .. MaxChanges
        BY <1>3, ChangedType DEF BudgetExpires, Late
    <2>2. adopted' \in [Active -> Nat \cup {None}]
        BY <1>3 DEF BudgetExpires
    <2> QED
        BY <2>1, <2>2, NodeStepInv
<1>4. ASSUME NEW d \in Active, Tick(d) PROVE ClusterInv'
    <2>1. /\ cluster' = cluster /\ up' = up /\ state' = state /\ draw' = draw
          /\ adopted' = adopted /\ UNCHANGED coordinator /\ changes' = changes
        BY <1>4 DEF Tick
    <2>2. override' \in [Active -> Nat \cup {None}]
        BY <1>4 DEF Tick, Adopts
    <2> QED
        BY <2>1, <2>2, NodeStepInv
<1>5. ASSUME NEW d \in Active, TickUnread(d) PROVE ClusterInv'
    <2>1. /\ cluster' = cluster /\ up' = up /\ state' = state /\ draw' = draw
          /\ adopted' = adopted /\ UNCHANGED coordinator /\ changes' \in 0 .. MaxChanges
        BY <1>5, ChangedType DEF TickUnread
    <2>2. override' \in [Active -> Nat \cup {None}]
        BY <1>5 DEF TickUnread
    <2> QED
        BY <2>1, <2>2, NodeStepInv
<1>6. ASSUME NEW n \in Node, NodeFlips(n) PROVE ClusterInv'
    <2>1. /\ cluster' = cluster /\ state' = state /\ draw' = draw
          /\ adopted' = adopted /\ UNCHANGED coordinator /\ changes' \in 0 .. MaxChanges
        BY <1>6, ChangedType DEF NodeFlips
    <2>2. up' \subseteq Node /\ override' \in [Active -> Nat \cup {None}]
        BY <1>6 DEF NodeFlips
    <2> QED
        BY <2>1, <2>2, NodeStepInv
<1>7. ASSUME NEW n \in Node, StateExpires(n) PROVE ClusterInv'
    <2>1. /\ cluster' = cluster /\ up' = up /\ draw' = draw /\ adopted' = adopted
          /\ override' = override /\ UNCHANGED coordinator /\ changes' \in 0 .. MaxChanges
        BY <1>7, ChangedType DEF StateExpires, Late
    <2>2. state' = [state EXCEPT ![n] = None]
        BY <1>7 DEF StateExpires
    <2>3. DOMAIN state' = Node /\ \A m \in Node : state'[m] # None => state'[m] = state[m]
        BY <2>2
    <2> QED
        BY <2>1, <2>3, NodeStepInv
<1> QED
    BY <1>1, <1>2, <1>3, <1>4, <1>5, <1>6, <1>7
\* A step of the coordinator changes only its own variables and what is adopted.
LEMMA CoordinatorStepInv ==
  ASSUME ClusterInv, UNCHANGED <<cluster, up, draw, state, override>>,
         adopted' \in [Active -> Nat \cup {None}], changes' \in 0 .. MaxChanges,
         coord' \in {"idle", "get", "publish"}, None \notin got', IsFiniteSet(got'),
         \A s \in got' : s.domain \in Active /\ s.draw \in Nat,
         \A s, t \in got' : NodeOf[s.domain] = NodeOf[t.domain] => s = t,
         coord' = "get" => keys' \subseteq Node /\ \A s \in got' : NodeOf[s.domain] \notin keys'
  PROVE  ClusterInv'
<1>1. Active' = Active
    BY DEF Active
<1>2. ClusterTypeOK'
    BY <1>1 DEF ClusterInv, ClusterTypeOK
<1>3. DrawsOfDeployment'
    BY <1>1 DEF ClusterInv, DrawsOfDeployment
<1>4. RoundReads'
    BY DEF RoundReads
<1> QED
    BY <1>2, <1>3, <1>4 DEF ClusterInv

\* What a node published.
LEMMA PublishedState ==
  ASSUME ClusterInv, NEW n \in Node, state[n] # None
  PROVE  state[n].domain \in Active /\ NodeOf[state[n].domain] = n /\ state[n].draw \in Nat
<1>1. state[n].domain \in Active /\ NodeOf[state[n].domain] = n
      /\ state[n].draw \in cluster.draws[state[n].domain] /\ cluster \in Deployments
    BY DEF ClusterInv, ClusterTypeOK
<1> QED
    BY <1>1, ClusterParameters DEF Active

LEMMA CollectInv == ClusterInv /\ Collect => ClusterInv'
<1> SUFFICES ASSUME ClusterInv, Collect PROVE ClusterInv'
    OBVIOUS
<1> DEFINE there == {n \in Node : state[n] # None}
<1>1. UNCHANGED <<cluster, up, draw, state, override>> /\ changes' \in 0 .. MaxChanges
      /\ adopted' \in [Active -> Nat \cup {None}]
    BY DEF Collect, ClusterInv, ClusterTypeOK
<1>2. IsFiniteSet(there)
    BY FiniteNodes, FS_Subset
<1>3. CASE cluster.store = "redis"
    <2>1. coord' = "get" /\ keys' \subseteq Node /\ got' = {}
        BY <1>3 DEF Collect
    <2> QED
        BY <1>1, <2>1, FS_EmptySet, CoordinatorStepInv
<1>4. CASE cluster.store # "redis"
    <2>1. coord' = "publish" /\ got' = {state[n] : n \in there}
        BY <1>4 DEF Collect
    <2>2. IsFiniteSet(got')
        <3> DEFINE f == [n \in there |-> state[n]]
        <3>1. f \in Surjection(there, got')
            BY <2>1 DEF Surjection
        <3> QED
            BY <3>1, <1>2, FS_Surjection
    <2>3. None \notin got' /\ \A s \in got' : s.domain \in Active /\ s.draw \in Nat
        BY <2>1, PublishedState
    <2>4. \A s, t \in got' : NodeOf[s.domain] = NodeOf[t.domain] => s = t
        BY <2>1, PublishedState
    <2> QED
        BY <1>1, <2>1, <2>2, <2>3, <2>4, CoordinatorStepInv
<1> QED
    BY <1>3, <1>4

LEMMA GetInv == ClusterInv /\ Get => ClusterInv'
<1> SUFFICES ASSUME ClusterInv, Get PROVE ClusterInv'
    OBVIOUS
<1>1. UNCHANGED <<cluster, up, draw, state, override>> /\ changes' \in 0 .. MaxChanges
      /\ adopted' \in [Active -> Nat \cup {None}]
    BY DEF Get, ClusterInv, ClusterTypeOK
<1>2. PICK n \in keys : /\ keys' = keys \ {n}
                        /\ got' = IF state[n] = None THEN got ELSE got \cup {state[n]}
    BY DEF Get
<1>3. /\ coord = "get" /\ coord' = "get" /\ keys \subseteq Node /\ IsFiniteSet(got)
      /\ \A s \in got : NodeOf[s.domain] \notin keys /\ s.domain \in Active /\ s.draw \in Nat
      /\ None \notin got
      /\ \A s, t \in got : NodeOf[s.domain] = NodeOf[t.domain] => s = t
    BY DEF Get, ClusterInv, RoundReads, ClusterTypeOK
<1>4. CASE state[n] = None
    <2>1. got' = got
        BY <1>2, <1>4
    <2> QED
        BY <1>1, <1>2, <1>3, <2>1, CoordinatorStepInv
<1>5. CASE state[n] # None
    <2>1. got' = got \cup {state[n]}
        BY <1>2, <1>5
    <2>2. state[n].domain \in Active /\ NodeOf[state[n].domain] = n /\ state[n].draw \in Nat
        BY <1>2, <1>3, <1>5, PublishedState
    <2>3. IsFiniteSet(got')
        BY <1>3, <2>1, FS_AddElement
    <2>4. None \notin got' /\ \A s \in got' : s.domain \in Active /\ s.draw \in Nat
        BY <1>3, <1>5, <2>1, <2>2
    <2>5. \A s, t \in got' : NodeOf[s.domain] = NodeOf[t.domain] => s = t
        BY <1>2, <1>3, <2>1, <2>2
    <2>6. keys' \subseteq Node /\ \A s \in got' : NodeOf[s.domain] \notin keys'
        BY <1>2, <1>3, <2>1, <2>2
    <2> QED
        BY <1>1, <1>3, <2>3, <2>4, <2>5, <2>6, CoordinatorStepInv
<1> QED
    BY <1>4, <1>5

LEMMA SetAdoptedInv == ClusterInv /\ SetAdopted => ClusterInv'
<1> SUFFICES ASSUME ClusterInv, SetAdopted PROVE ClusterInv'
    OBVIOUS
<1>1. PICK s \in got : adopted' = [adopted EXCEPT ![s.domain] = Share(s, got)]
    BY DEF SetAdopted
<1>2. IsFiniteSet(got) /\ \A t \in got : t.draw \in Nat
    BY DEF ClusterInv, RoundReads, ClusterTypeOK
<1>3. Share(s, got) \in Nat
    BY <1>2, ShareBounds
<1>4. adopted' \in [Active -> Nat \cup {None}]
    BY <1>1, <1>3 DEF ClusterInv, ClusterTypeOK
<1>5. UNCHANGED <<cluster, up, draw, state, override>> /\ UNCHANGED <<coord, got, changes>>
      /\ coord = "publish"
    BY DEF SetAdopted
<1> QED
    BY <1>2, <1>4, <1>5, CoordinatorStepInv DEF ClusterInv, ClusterTypeOK

\* The end of the reads, and of a round, in whatever way.
LEMMA RoundTurnsInv == ClusterInv /\ (Rebalance \/ RoundEnds \/ RoundFails) => ClusterInv'
<1> SUFFICES ASSUME ClusterInv, Rebalance \/ RoundEnds \/ RoundFails PROVE ClusterInv'
    OBVIOUS
<1>1. changes' \in 0 .. MaxChanges
    BY ChangedType DEF Rebalance, RoundEnds, RoundFails, ClusterInv, ClusterTypeOK
<1>2. UNCHANGED <<cluster, up, draw, state, override>> /\ adopted' \in [Active -> Nat \cup {None}]
    BY DEF Rebalance, RoundEnds, RoundFails, ClusterInv, ClusterTypeOK
<1>3. coord' \in {"idle", "publish"} /\ (got' = got \/ got' = {})
    BY DEF Rebalance, RoundEnds, RoundFails
<1>4. /\ None \notin got' /\ IsFiniteSet(got')
      /\ \A s \in got' : s.domain \in Active /\ s.draw \in Nat
      /\ \A s, t \in got' : NodeOf[s.domain] = NodeOf[t.domain] => s = t
    BY <1>3, FS_EmptySet DEF ClusterInv, ClusterTypeOK, RoundReads
<1> QED
    BY <1>1, <1>2, <1>3, <1>4, CoordinatorStepInv

LEMMA ClusterStepInv == ClusterInv /\ [ClusterNext]_clusterVars => ClusterInv'
<1> SUFFICES ASSUME ClusterInv, [ClusterNext]_clusterVars PROVE ClusterInv'
    OBVIOUS
<1>1. ASSUME UNCHANGED clusterVars PROVE ClusterInv'
    BY <1>1 DEF clusterVars, ClusterInv, ClusterTypeOK, DrawsOfDeployment, RoundReads, Active
<1> QED
    BY <1>1, NodesKeepInv, CollectInv, GetInv, SetAdoptedInv, RoundTurnsInv
       DEF ClusterNext, Coordinates

LEMMA ClusterSafe == ClusterSpec => []ClusterInv
    BY ClusterInitInv, ClusterStepInv, PTL DEF ClusterSpec

\* ClusterTypeOK: a round of the coordinator counts each node once, whatever is
\* published, expires or restarts while it reads the store key by key, and what it
\* hands out is a budget.
THEOREM ClusterTypeSafe == ClusterSpec => []ClusterTypeOK
<1>1. ClusterInv => ClusterTypeOK
    BY DEF ClusterInv
<1> QED
    BY <1>1, ClusterSafe, PTL

\* RoundFits, the hard invariant of rebalance: for every number of nodes and every
\* load, the shares of one round fit the cluster's budget, each between half its fair
\* share and double of it.
THEOREM ClusterRoundFits == ClusterSpec => []RoundFits
    BY ClusterInvRoundFits, ClusterSafe, PTL

\* RackFits: domain_budget_w of the domains of a rack, those with a budget from the
\* coordinator aside, sum to no more than the rack has.
THEOREM ClusterRackFits == ClusterSpec => []RackFits
    BY ClusterTypeRackFits, ClusterTypeSafe, PTL
==============================================================================
