-------------------------- MODULE PolicyRowsProofs --------------------------
(***************************************************************************)
(* Proofs about PolicyRows for every stored policy, any requests and any   *)
(* clients, names and destinations.                                        *)
(***************************************************************************)
EXTENDS PolicyRows, Integers, FiniteSetTheorems, SequenceTheorems, WellFoundedInduction,
        TLAPS

-----------------------------------------------------------------------------
(* Folds.  The folds of the model are recursive functions on the subsets   *)
(* of a finite set; that there is such a function, and what it computes,   *)
(* is shown by least numbers and smallest subsets.                         *)

(* A set of numbers that is not empty has a least member. *)
LEMMA LeastNumber ==
  ASSUME NEW N \in SUBSET Nat, N # {}
  PROVE  \E n \in N : \A m \in N : n <= m
  <1>1. PICK n \in N : \A m \in N : ~ (<<m, n>> \in OpToRel(<, Nat))
    BY WFMin, NatLessThanWellFounded
  <1>2. \A m \in N : ~ (m < n)
    BY <1>1 DEF OpToRel
  <1>3. QED
    BY <1>2

LEMMA ImageIsFinite ==
  ASSUME NEW S, IsFiniteSet(S), NEW f
  PROVE  IsFiniteSet({f[x] : x \in S})
  <1> DEFINE g == [x \in S |-> f[x]]
             T == {f[x] : x \in S}
  <1>1. g \in Surjection(S, T)
    BY DEF Surjection
  <1>2. QED
    BY <1>1, FS_Surjection

(* A choice of a member of every subset that is not empty *)
Chooses(Ch, S) == \A s \in SUBSET S : s # {} => Ch[s] \in s

Inductive(Q, Ch, S) ==
  {} \in Q /\ \A s \in SUBSET S : s # {} /\ s \ {Ch[s]} \in Q => s \in Q

(* A family of subsets that has the empty one, and every one that it has   *)
(* without its chosen member, has them all.                                *)
LEMMA SubsetInduction ==
  ASSUME NEW S, IsFiniteSet(S), NEW Ch, Chooses(Ch, S), NEW Q, Inductive(Q, Ch, S)
  PROVE  \A s \in SUBSET S : s \in Q
  <1>1. SUFFICES ASSUME NEW t \in SUBSET S, t \notin Q PROVE FALSE
    OBVIOUS
  <1> DEFINE Outside == {Cardinality(s) : s \in {u \in SUBSET S : u \notin Q}}
  <1>2. \A s \in SUBSET S : IsFiniteSet(s) /\ Cardinality(s) \in Nat
    BY FS_Subset, FS_CardinalityType
  <1>3. Outside \in SUBSET Nat /\ Outside # {}
    BY <1>1, <1>2
  <1> HIDE DEF Outside
  <1>4. PICK n \in Outside : \A m \in Outside : n <= m
    BY <1>3, LeastNumber
  <1>5. PICK s \in SUBSET S : s \notin Q /\ n = Cardinality(s)
    BY <1>4 DEF Outside
  <1>6. s # {}
    BY <1>5 DEF Inductive
  <1> DEFINE x == Ch[s]
  <1>6a. x \in s
    BY <1>6 DEF Chooses
  <1> HIDE DEF x
  <1>7. /\ s \ {x} \in SUBSET S /\ Cardinality(s \ {x}) = n - 1
        /\ n \in Nat /\ Cardinality(s \ {x}) \in Nat
    BY <1>2, <1>5, <1>6a, FS_RemoveElement
  <1>8. s \ {x} \notin Q
    BY <1>5, <1>6 DEF x, Inductive
  <1>9. Cardinality(s \ {x}) \in Outside
    BY <1>7, <1>8 DEF Outside
  <1>10. QED
    BY <1>4, <1>7, <1>9

(* What F folds of the subsets *)
Unfolds(iter, S, base, F, Ch) ==
  iter = [s \in SUBSET S |-> IF s = {} THEN base ELSE F[<<Ch[s], iter[s \ {Ch[s]}]>>]]

(* A function defined on a subset by its value on the subset without one   *)
(* member is there.                                                        *)
LEMMA SubsetRecursion ==
  ASSUME NEW S, IsFiniteSet(S), NEW V, NEW base \in V, NEW F \in [S \X V -> V],
         NEW Ch, Chooses(Ch, S)
  PROVE  \E iter \in [SUBSET S -> V] : Unfolds(iter, S, base, F, Ch)
  <1> DEFINE Small(n) == {s \in SUBSET S : Cardinality(s) <= n}
             Value(f, s) == IF s = {} THEN base ELSE F[<<Ch[s], f[s \ {Ch[s]}]>>]
             Good(n) == \E f \in [Small(n) -> V] : \A s \in Small(n) : f[s] = Value(f, s)
             Bad == {n \in Nat : ~Good(n)}
  <1>1. \A s \in SUBSET S : IsFiniteSet(s) /\ Cardinality(s) \in Nat
    BY FS_Subset, FS_CardinalityType
  <1>2. Good(0)
    <2>1. \A s \in Small(0) : s = {}
      BY <1>1, FS_EmptySet
    <2>2. [s \in Small(0) |-> base] \in [Small(0) -> V]
      OBVIOUS
    <2>3. QED
      BY <2>1, <2>2
  <1>3. ASSUME NEW n \in Nat, Good(n) PROVE Good(n + 1)
    <2>1. PICK f \in [Small(n) -> V] : \A s \in Small(n) : f[s] = Value(f, s)
      BY <1>3
    <2> DEFINE g == [s \in Small(n + 1) |-> Value(f, s)]
    <2>2. ASSUME NEW s \in Small(n + 1), s # {}
          PROVE  s \ {Ch[s]} \in Small(n) /\ s \ {Ch[s]} \in Small(n + 1)
      BY <1>1, <2>2, FS_RemoveElement DEF Chooses
    <2>3. g \in [Small(n + 1) -> V]
      BY <2>1, <2>2 DEF Chooses
    <2>4. ASSUME NEW s \in Small(n + 1) PROVE g[s] = Value(g, s)
      <3>1. CASE s = {}
        BY <3>1
      <3>2. CASE s # {}
        <4> DEFINE u == s \ {Ch[s]}
        <4>1. u \in Small(n) /\ u \in Small(n + 1)
          BY <2>2, <3>2
        <4>2. g[u] = Value(f, u) /\ f[u] = Value(f, u)
          BY <2>1, <4>1
        <4>3. g[s] = F[<<Ch[s], f[u]>>]
          BY <3>2
        <4>4. QED
          BY <3>2, <4>2, <4>3
      <3>3. QED
        BY <3>1, <3>2
    <2>5. QED
      BY <2>3, <2>4
  <1> HIDE DEF Good
  <1>4. Bad = {}
    <2>1. SUFFICES ASSUME Bad # {} PROVE FALSE
      OBVIOUS
    <2>2. PICK n \in Bad : \A m \in Bad : n <= m
      BY <2>1, LeastNumber
    <2>3. n # 0 /\ n \in Nat
      BY <1>2, <2>2
    <2>4. n - 1 \in Nat /\ n - 1 \notin Bad
      BY <2>2, <2>3
    <2>5. Good(n - 1)
      BY <2>4
    <2>6. Good(n - 1 + 1)
      BY <1>3, <2>4, <2>5
    <2>7. n - 1 + 1 = n
      BY <2>3
    <2>8. QED
      BY <2>2, <2>6, <2>7
  <1>5. Cardinality(S) \in Nat
    BY FS_CardinalityType
  <1>6. Good(Cardinality(S))
    BY <1>4, <1>5
  <1>7. Small(Cardinality(S)) = SUBSET S
    BY FS_Subset
  <1>8. PICK f \in [SUBSET S -> V] : \A s \in SUBSET S : f[s] = Value(f, s)
    BY <1>6, <1>7 DEF Good
  <1>9. f = [s \in SUBSET S |-> Value(f, s)]
    BY <1>8
  <1>10. QED
    BY <1>9 DEF Unfolds

(* The last of the members that come first: what a fold keeps that goes on *)
(* to a member when it has nothing yet or the member comes before what it  *)
(* has.                                                                    *)
IsFirst(x, S, Before) == x \in S /\ \A y \in S : <<y, x>> \notin Before

StrictOrder(Before, S) ==
  /\ \A x \in S : <<x, x>> \notin Before
  /\ \A x, y, z \in S : <<x, y>> \in Before /\ <<y, z>> \in Before => <<x, z>> \in Before

KeepsFirst(iter, S, none, Before, Ch) ==
  \A s \in SUBSET S :
    iter[s] = IF s = {} THEN none
              ELSE IF iter[s \ {Ch[s]}] = none \/ <<Ch[s], iter[s \ {Ch[s]}]>> \in Before
              THEN Ch[s] ELSE iter[s \ {Ch[s]}]

LEMMA FirstKept ==
  ASSUME NEW S, IsFiniteSet(S), NEW none, none \notin S, NEW Before, StrictOrder(Before, S),
         NEW Ch, Chooses(Ch, S), NEW iter, KeepsFirst(iter, S, none, Before, Ch)
  PROVE  IF S = {} THEN iter[S] = none ELSE IsFirst(iter[S], S, Before)
  <1> DEFINE P(s) == IF s = {} THEN iter[s] = none ELSE IsFirst(iter[s], s, Before)
             Q == {s \in SUBSET S : P(s)}
  <1>1. {} \in Q
    BY DEF IsFirst, KeepsFirst
  <1>2. ASSUME NEW s \in SUBSET S, s # {}, s \ {Ch[s]} \in Q PROVE s \in Q
    <2> DEFINE x == Ch[s]
               b == iter[s \ {x}]
    <2>1. x \in s /\ s \subseteq S /\ P(s \ {x})
      BY <1>2 DEF Chooses
    <2>2. iter[s] = IF b = none \/ <<x, b>> \in Before THEN x ELSE b
      BY <1>2 DEF KeepsFirst
    <2> HIDE DEF x, b
    <2>3. CASE s \ {x} = {}
      <3>1. b = none
        BY <2>1, <2>3 DEF b
      <3>2. s = {x} /\ iter[s] = x
        BY <2>1, <2>2, <2>3, <3>1
      <3>3. IsFirst(x, s, Before)
        BY <2>1, <3>2 DEF IsFirst, StrictOrder
      <3>4. QED
        BY <1>2, <3>2, <3>3
    <2>4. CASE s \ {x} # {}
      <3>1. b \in s \ {x} /\ \A y \in s \ {x} : <<y, b>> \notin Before
        BY <2>1, <2>4 DEF IsFirst, b
      <3>2. b # none
        BY <2>1, <3>1
      <3>3. IsFirst(iter[s], s, Before)
        <4>1. CASE <<x, b>> \in Before
          <5>1. iter[s] = x
            BY <2>2, <4>1
          <5>2. ASSUME NEW y \in s PROVE <<y, x>> \notin Before
            BY <2>1, <3>1, <4>1, <5>2 DEF StrictOrder
          <5>3. QED
            BY <2>1, <5>1, <5>2 DEF IsFirst
        <4>2. CASE <<x, b>> \notin Before
          BY <2>1, <2>2, <3>1, <3>2, <4>2 DEF IsFirst
        <4>3. QED
          BY <4>1, <4>2
      <3>4. QED
        BY <1>2, <3>3
    <2>5. QED
      BY <2>3, <2>4
  <1>2a. Inductive(Q, Ch, S)
    BY <1>1, <1>2 DEF Inductive
  <1> HIDE DEF P, Q
  <1>3. \A s \in SUBSET S : s \in Q
    BY <1>2a, SubsetInduction
  <1>4. P(S)
    BY <1>3 DEF Q
  <1>5. QED
    BY <1>4 DEF P

(* A fold that keeps what it has or goes on to the member *)
LEMMA OneKept ==
  ASSUME NEW S, IsFiniteSet(S), NEW none, NEW Ch, Chooses(Ch, S), NEW iter, iter[{}] = none,
         \A s \in SUBSET S : s # {} => iter[s] \in {Ch[s], iter[s \ {Ch[s]}]}
  PROVE  \A s \in SUBSET S : iter[s] \in S \cup {none}
  <1> DEFINE Q == {s \in SUBSET S : iter[s] \in S \cup {none}}
  <1>1. Inductive(Q, Ch, S)
    BY DEF Inductive, Chooses
  <1> HIDE DEF Q
  <1>2. \A s \in SUBSET S : s \in Q
    BY <1>1, SubsetInduction
  <1>3. QED
    BY <1>2 DEF Q

-----------------------------------------------------------------------------
(* The best rule of a set *)

DomainBefore(rules) ==
  {p \in rules \X rules :
     \/ Priority(p[1]) > Priority(p[2])
     \/ Priority(p[1]) = Priority(p[2]) /\ p[1].id < p[2].id}

LEMMA PriorityType ==
  ASSUME NEW rule
  PROVE  Priority(rule) \in 1 .. 6
  BY DEF Priority

(* What the fold of a set of rules takes, member by member *)
Chosen(S) == [s \in SUBSET S |-> CHOOSE x \in s : TRUE]

LEMMA ChosenChooses ==
  ASSUME NEW S
  PROVE  Chooses(Chosen(S), S)
  BY DEF Chooses, Chosen

LEMMA BestDomainRuleIs ==
  ASSUME NEW rules, IsFiniteSet(rules), \A r \in rules : r.id \in Nat \ {0}
  PROVE  IF rules = {} THEN BestDomainRule(rules) = NoRule
         ELSE IsFirst(BestDomainRule(rules), rules, DomainBefore(rules))
  <1> DEFINE Ch == Chosen(rules)
             V == rules \cup {NoRule}
             F == [p \in rules \X V |-> IF DomainRulePrecedes(p[1], p[2]) THEN p[1] ELSE p[2]]
             Is(iter) ==
               iter = [s \in SUBSET rules |->
                         IF s = {} THEN NoRule
                         ELSE IF DomainRulePrecedes(CHOOSE x \in s : TRUE,
                                                    iter[s \ {CHOOSE x \in s : TRUE}])
                         THEN CHOOSE x \in s : TRUE
                         ELSE iter[s \ {CHOOSE x \in s : TRUE}]]
  <1>1. Chooses(Ch, rules)
    BY ChosenChooses
  <1>2. F \in [rules \X V -> V] /\ NoRule \in V
    OBVIOUS
  <1>3. PICK f \in [SUBSET rules -> V] : Unfolds(f, rules, NoRule, F, Ch)
    <2> HIDE DEF Ch, V, F
    <2>1. QED
      BY <1>1, <1>2, SubsetRecursion
  <1>4. Is(f)
    <2>1. ASSUME NEW s \in SUBSET rules, s # {}
          PROVE  F[<<Ch[s], f[s \ {Ch[s]}]>>] =
                   IF DomainRulePrecedes(CHOOSE x \in s : TRUE, f[s \ {CHOOSE x \in s : TRUE}])
                   THEN CHOOSE x \in s : TRUE ELSE f[s \ {CHOOSE x \in s : TRUE}]
      <3>1. Ch[s] = (CHOOSE x \in s : TRUE) /\ Ch[s] \in rules /\ s \ {Ch[s]} \in SUBSET rules
        BY <2>1 DEF Chosen
      <3>2. f[s \ {Ch[s]}] \in V
        BY <3>1
      <3> HIDE DEF Ch, V
      <3>3. F[<<Ch[s], f[s \ {Ch[s]}]>>] =
              IF DomainRulePrecedes(Ch[s], f[s \ {Ch[s]}]) THEN Ch[s] ELSE f[s \ {Ch[s]}]
        BY <3>1, <3>2
      <3>4. QED
        BY <3>1, <3>3
    <2> HIDE DEF F, Ch
    <2>2. QED
      BY <1>3, <2>1 DEF Unfolds
  <1> DEFINE best == CHOOSE iter : Is(iter)
  <1>5. Is(best)
    BY <1>4
  <1>6. BestDomainRule(rules) = best[rules]
    BY DEF BestDomainRule, FoldSet, MapThenFoldSet
  <1> HIDE DEF best
  <1>7. \A s \in SUBSET rules :
          /\ s = {} => best[s] = NoRule
          /\ s # {} => best[s] = IF DomainRulePrecedes(Ch[s], best[s \ {Ch[s]}])
                                 THEN Ch[s] ELSE best[s \ {Ch[s]}]
    BY <1>5 DEF Chosen
  <1> HIDE DEF Ch, F, V, Is
  <1>8. \A s \in SUBSET rules : best[s] \in rules \cup {NoRule}
    <2>1. best[{}] = NoRule /\ \A s \in SUBSET rules : s # {} => best[s] \in {Ch[s], best[s \ {Ch[s]}]}
      BY <1>7
    <2>2. QED
      BY <1>1, <2>1, OneKept
  <1>9. KeepsFirst(best, rules, NoRule, DomainBefore(rules), Ch)
    <2> SUFFICES ASSUME NEW s \in SUBSET rules, s # {}
                 PROVE  DomainRulePrecedes(Ch[s], best[s \ {Ch[s]}]) <=>
                          \/ best[s \ {Ch[s]}] = NoRule
                          \/ <<Ch[s], best[s \ {Ch[s]}]>> \in DomainBefore(rules)
      BY <1>7 DEF KeepsFirst
    <2>1. PICK x, b : x = Ch[s] /\ b = best[s \ {Ch[s]}]
      OBVIOUS
    <2>2. x \in rules /\ b \in rules \cup {NoRule}
      BY <1>1, <1>8, <2>1 DEF Chooses
    <2>3. DomainRulePrecedes(x, b) <=> b = NoRule \/ <<x, b>> \in DomainBefore(rules)
      BY <2>2 DEF DomainRulePrecedes, DomainBefore, NoRule, Found
    <2>4. QED
      BY <2>1, <2>3
  <1>10. StrictOrder(DomainBefore(rules), rules)
    BY PriorityType DEF StrictOrder, DomainBefore
  <1>11. NoRule \notin rules
    BY DEF NoRule
  <1>12. QED
    BY <1>1, <1>6, <1>9, <1>10, <1>11, FirstKept

(* The sum of a set that has at most one member *)
LEMMA SumOfOne ==
  ASSUME NEW S, NEW n \in Nat, S \subseteq {n}
  PROVE  SumSet(S) = IF S = {} THEN 0 ELSE n
  <1> DEFINE Is(iter) ==
               iter = [s \in SUBSET S |->
                         IF s = {} THEN 0
                         ELSE (CHOOSE x \in s : TRUE) + iter[s \ {CHOOSE x \in s : TRUE}]]
             f == [s \in SUBSET S |-> IF s = {} THEN 0 ELSE n]
  <1>1. \A s \in SUBSET S : s # {} => (CHOOSE x \in s : TRUE) = n /\ s \ {n} = {}
    OBVIOUS
  <1>2. Is(f)
    <2>1. \A s \in SUBSET S : s # {} => f[s \ {n}] = 0 /\ n + 0 = n
      BY <1>1
    <2>2. ASSUME NEW s \in SUBSET S
          PROVE  (IF s = {} THEN 0 ELSE n) =
                   IF s = {} THEN 0 ELSE (CHOOSE x \in s : TRUE) + f[s \ {CHOOSE x \in s : TRUE}]
      <3>1. CASE s = {}
        BY <3>1
      <3>2. CASE s # {}
        <4>1. (CHOOSE x \in s : TRUE) = n /\ f[s \ {n}] = 0
          BY <1>1, <2>1, <3>2
        <4> HIDE DEF f
        <4>2. (CHOOSE x \in s : TRUE) + f[s \ {CHOOSE x \in s : TRUE}] = n + 0
          BY <4>1
        <4>3. QED
          BY <3>2, <4>2
      <3>3. QED
        BY <3>1, <3>2
    <2>3. QED
      BY <2>2
  <1> DEFINE g == CHOOSE iter : Is(iter)
  <1>3. Is(g)
    BY <1>2
  <1>4. SumSet(S) = g[S]
    BY DEF SumSet, FoldSet, MapThenFoldSet
  <1> HIDE DEF g
  <1>5. g[{}] = 0
    BY <1>3
  <1>6. S # {} => g[S] = n + g[S \ {n}]
    BY <1>1, <1>3
  <1>7. QED
    BY <1>1, <1>4, <1>5, <1>6

(* A rule has a network or none. *)
NetShape(r) == r.net = {} \/ \E n : r.net = {n} /\ n.prefix \in 0 .. AddressBits

NetDetail(r) == SumSet({n.prefix + 1 : n \in r.net})

LEMMA SpecificityIs ==
  ASSUME NEW r, NetShape(r)
  PROVE  /\ NetDetail(r) \in 0 .. 129
         /\ Specificity(r) = NetDetail(r) + (IF r.port # 0 THEN 256 ELSE 0)
                                + (IF r.transport # "any" THEN 512 ELSE 0)
         /\ Specificity(r) \in Nat
  <1>1. PICK n \in Nat : n <= 129 /\ {m.prefix + 1 : m \in r.net} \subseteq {n}
    <2>1. CASE r.net = {}
      BY <2>1
    <2>2. CASE r.net # {}
      <3>1. PICK m : r.net = {m} /\ m.prefix \in 0 .. AddressBits
        BY <2>2 DEF NetShape
      <3>2. m.prefix + 1 \in Nat /\ m.prefix + 1 <= 129
        BY <3>1, WidthAssumption
      <3>3. {x.prefix + 1 : x \in r.net} \subseteq {m.prefix + 1}
        BY <3>1
      <3>4. QED
        BY <3>2, <3>3
    <2>3. QED
      BY <2>1, <2>2
  <1>2. NetDetail(r) \in 0 .. 129
    <2>1. PICK S : S = {m.prefix + 1 : m \in r.net}
      OBVIOUS
    <2>2. SumSet(S) \in {0, n}
      BY <1>1, <2>1, SumOfOne
    <2>3. QED
      BY <1>1, <2>1, <2>2 DEF NetDetail
  <1>3. QED
    BY <1>2 DEF Specificity, NetDetail

DestinationBefore(rules) ==
  {p \in rules \X rules :
     \/ Priority(p[1]) > Priority(p[2])
     \/ /\ Priority(p[1]) = Priority(p[2])
        /\ \/ Specificity(p[1]) > Specificity(p[2])
           \/ Specificity(p[1]) = Specificity(p[2]) /\ p[1].id < p[2].id}

LEMMA BestDestinationRuleIs ==
  ASSUME NEW rules, IsFiniteSet(rules), \A r \in rules : r.id \in Nat \ {0} /\ NetShape(r)
  PROVE  IF rules = {} THEN BestDestinationRule(rules) = NoRule
         ELSE IsFirst(BestDestinationRule(rules), rules, DestinationBefore(rules))
  <1> DEFINE Ch == Chosen(rules)
             V == rules \cup {NoRule}
             F == [p \in rules \X V |-> IF DestinationRulePrecedes(p[1], p[2]) THEN p[1] ELSE p[2]]
             Is(iter) ==
               iter = [s \in SUBSET rules |->
                         IF s = {} THEN NoRule
                         ELSE IF DestinationRulePrecedes(CHOOSE x \in s : TRUE,
                                                    iter[s \ {CHOOSE x \in s : TRUE}])
                         THEN CHOOSE x \in s : TRUE
                         ELSE iter[s \ {CHOOSE x \in s : TRUE}]]
  <1>1. Chooses(Ch, rules)
    BY ChosenChooses
  <1>2. F \in [rules \X V -> V] /\ NoRule \in V
    OBVIOUS
  <1>3. PICK f \in [SUBSET rules -> V] : Unfolds(f, rules, NoRule, F, Ch)
    <2> HIDE DEF Ch, V, F
    <2>1. QED
      BY <1>1, <1>2, SubsetRecursion
  <1>4. Is(f)
    <2>1. ASSUME NEW s \in SUBSET rules, s # {}
          PROVE  F[<<Ch[s], f[s \ {Ch[s]}]>>] =
                   IF DestinationRulePrecedes(CHOOSE x \in s : TRUE, f[s \ {CHOOSE x \in s : TRUE}])
                   THEN CHOOSE x \in s : TRUE ELSE f[s \ {CHOOSE x \in s : TRUE}]
      <3>1. Ch[s] = (CHOOSE x \in s : TRUE) /\ Ch[s] \in rules /\ s \ {Ch[s]} \in SUBSET rules
        BY <2>1 DEF Chosen
      <3>2. f[s \ {Ch[s]}] \in V
        BY <3>1
      <3> HIDE DEF Ch, V
      <3>3. F[<<Ch[s], f[s \ {Ch[s]}]>>] =
              IF DestinationRulePrecedes(Ch[s], f[s \ {Ch[s]}]) THEN Ch[s] ELSE f[s \ {Ch[s]}]
        BY <3>1, <3>2
      <3>4. QED
        BY <3>1, <3>3
    <2> HIDE DEF F, Ch
    <2>2. QED
      BY <1>3, <2>1 DEF Unfolds
  <1> DEFINE best == CHOOSE iter : Is(iter)
  <1>5. Is(best)
    BY <1>4
  <1>6. BestDestinationRule(rules) = best[rules]
    BY DEF BestDestinationRule, FoldSet, MapThenFoldSet
  <1> HIDE DEF best
  <1>7. \A s \in SUBSET rules :
          /\ s = {} => best[s] = NoRule
          /\ s # {} => best[s] = IF DestinationRulePrecedes(Ch[s], best[s \ {Ch[s]}])
                                 THEN Ch[s] ELSE best[s \ {Ch[s]}]
    BY <1>5 DEF Chosen
  <1> HIDE DEF Ch, F, V, Is
  <1>8. \A s \in SUBSET rules : best[s] \in rules \cup {NoRule}
    <2>1. best[{}] = NoRule /\ \A s \in SUBSET rules : s # {} => best[s] \in {Ch[s], best[s \ {Ch[s]}]}
      BY <1>7
    <2>2. QED
      BY <1>1, <2>1, OneKept
  <1>9. KeepsFirst(best, rules, NoRule, DestinationBefore(rules), Ch)
    <2> SUFFICES ASSUME NEW s \in SUBSET rules, s # {}
                 PROVE  DestinationRulePrecedes(Ch[s], best[s \ {Ch[s]}]) <=>
                          \/ best[s \ {Ch[s]}] = NoRule
                          \/ <<Ch[s], best[s \ {Ch[s]}]>> \in DestinationBefore(rules)
      BY <1>7 DEF KeepsFirst
    <2>1. PICK x, b : x = Ch[s] /\ b = best[s \ {Ch[s]}]
      OBVIOUS
    <2>2. x \in rules /\ b \in rules \cup {NoRule}
      BY <1>1, <1>8, <2>1 DEF Chooses
    <2>3. DestinationRulePrecedes(x, b) <=> b = NoRule \/ <<x, b>> \in DestinationBefore(rules)
      BY <2>2 DEF DestinationRulePrecedes, DestinationBefore, NoRule, Found
    <2>4. QED
      BY <2>1, <2>3
  <1>10. StrictOrder(DestinationBefore(rules), rules)
    <2>1. \A r \in rules : Specificity(r) \in Nat
      BY SpecificityIs
    <2>2. QED
      BY <2>1, PriorityType DEF StrictOrder, DestinationBefore
  <1>11. NoRule \notin rules
    BY DEF NoRule
  <1>12. QED
    BY <1>1, <1>6, <1>9, <1>10, <1>11, FirstKept

-----------------------------------------------------------------------------
(* The walk from a name up to its top-level label *)

LEMMA RangeInduction ==
  ASSUME NEW n \in Nat, NEW Q, 0 \in Q, \A k \in 1 .. n : k - 1 \in Q => k \in Q
  PROVE  \A k \in 0 .. n : k \in Q
  <1> SUFFICES ASSUME NEW k \in 0 .. n, k \notin Q PROVE FALSE
    OBVIOUS
  <1> DEFINE Outside == {m \in 0 .. n : m \notin Q}
  <1>1. Outside \in SUBSET Nat /\ Outside # {}
    OBVIOUS
  <1> HIDE DEF Outside
  <1>2. PICK m \in Outside : \A j \in Outside : m <= j
    BY <1>1, LeastNumber
  <1>3. m \in 1 .. n /\ m \notin Q
    BY <1>2 DEF Outside
  <1>4. m - 1 \in 0 .. n /\ m - 1 \notin Q
    BY <1>3
  <1>5. m - 1 \in Outside
    BY <1>4 DEF Outside
  <1>6. QED
    BY <1>2, <1>3, <1>5

(* The rules at each step of a walk, and what the walk holds after k steps *)
WalkFirst(best, A, k) ==
  IF \A j \in 1 .. k : A[j] = {} THEN best = NoRule
  ELSE \E j \in 1 .. k :
         /\ best \in A[j]
         /\ \A i \in 1 .. k : \A r \in A[i] :
              \/ Priority(best) > Priority(r)
              \/ /\ Priority(best) = Priority(r)
                 /\ j < i \/ (j = i /\ best.id <= r.id)

LEMMA WalkStep ==
  ASSUME NEW n \in Nat, NEW rules, IsFiniteSet(rules), \A r \in rules : r.id \in Nat \ {0},
         NEW A \in [1 .. n -> SUBSET rules], NEW k \in 1 .. n,
         NEW before, WalkFirst(before, A, k - 1)
  PROVE  WalkFirst(Prefer(BestDomainRule(A[k]), before), A, k)
  <1>1. PICK here : here = BestDomainRule(A[k])
    OBVIOUS
  <1>2. A[k] \subseteq rules /\ IsFiniteSet(A[k])
    BY FS_Subset
  <1>3. IF A[k] = {} THEN here = NoRule ELSE IsFirst(here, A[k], DomainBefore(A[k]))
    BY <1>1, <1>2, BestDomainRuleIs
  <1>4. \A r \in rules : Priority(r) \in Nat
    BY PriorityType
  <1>5. A[k] # {} => here \in A[k] /\ \A r \in A[k] :
          Priority(here) > Priority(r) \/ (Priority(here) = Priority(r) /\ here.id <= r.id)
    <2> SUFFICES ASSUME A[k] # {}, NEW r \in A[k]
                 PROVE  /\ here \in A[k]
                        /\ \/ Priority(here) > Priority(r)
                           \/ Priority(here) = Priority(r) /\ here.id <= r.id
      OBVIOUS
    <2>1. here \in A[k] /\ <<r, here>> \notin DomainBefore(A[k])
      BY <1>3 DEF IsFirst
    <2>2. /\ Priority(r) \in Nat /\ Priority(here) \in Nat
          /\ r.id \in Nat /\ here.id \in Nat
      BY <1>2, <1>4, <2>1
    <2>3. ~ (Priority(r) > Priority(here)) /\ ~ (Priority(r) = Priority(here) /\ r.id < here.id)
      BY <2>1 DEF DomainBefore
    <2>4. QED
      BY <2>1, <2>2, <2>3
  <1>6. ~Found(NoRule) /\ \A r \in rules : Found(r)
    BY DEF Found, NoRule
  <1>7. 1 .. k = (1 .. k - 1) \cup {k} /\ k \notin 1 .. k - 1
    OBVIOUS
  <1>8. \A j \in 1 .. k : A[j] \subseteq rules
    OBVIOUS
  <1>9. CASE A[k] = {}
    <2>1. Prefer(here, before) = before
      BY <1>3, <1>6, <1>9 DEF Prefer
    <2>2. WalkFirst(before, A, k)
      BY <1>7, <1>9 DEF WalkFirst
    <2>3. QED
      BY <1>1, <2>1, <2>2
  <1>10. CASE A[k] # {} /\ \A j \in 1 .. k - 1 : A[j] = {}
    <2>1. before = NoRule
      BY <1>10 DEF WalkFirst
    <2>2. Prefer(here, before) = here
      BY <1>2, <1>5, <1>6, <1>10, <2>1 DEF Prefer
    <2>3. WalkFirst(here, A, k)
      BY <1>5, <1>7, <1>10 DEF WalkFirst
    <2>4. QED
      BY <1>1, <2>2, <2>3
  <1>11. CASE A[k] # {} /\ ~ \A j \in 1 .. k - 1 : A[j] = {}
    <2>1. PICK j \in 1 .. k - 1 :
            /\ before \in A[j]
            /\ \A i \in 1 .. k - 1 : \A r \in A[i] :
                 \/ Priority(before) > Priority(r)
                 \/ /\ Priority(before) = Priority(r)
                    /\ j < i \/ (j = i /\ before.id <= r.id)
      BY <1>11 DEF WalkFirst
    <2>2. j \in 1 .. k /\ j < k /\ before \in rules /\ here \in rules
      BY <1>2, <1>5, <1>8, <1>11, <2>1
    <2>3. CASE Priority(here) > Priority(before)
      <3>1. Prefer(here, before) = here
        BY <1>6, <2>2, <2>3 DEF Prefer
      <3>2. \A i \in 1 .. k : \A r \in A[i] :
              \/ Priority(here) > Priority(r)
              \/ /\ Priority(here) = Priority(r)
                 /\ k < i \/ (k = i /\ here.id <= r.id)
        <4> SUFFICES ASSUME NEW i \in 1 .. k, NEW r \in A[i]
                     PROVE  \/ Priority(here) > Priority(r)
                            \/ /\ Priority(here) = Priority(r)
                               /\ k < i \/ (k = i /\ here.id <= r.id)
          OBVIOUS
        <4>1. r \in rules
          BY <1>8
        <4>2. CASE i = k
          BY <1>5, <1>11, <4>2
        <4>3. CASE i \in 1 .. k - 1
          <5>1. Priority(before) >= Priority(r)
            BY <1>4, <2>1, <2>2, <4>1, <4>3
          <5>2. QED
            BY <1>4, <2>2, <2>3, <4>1, <5>1
        <4>4. QED
          BY <1>7, <4>2, <4>3
      <3>3. WalkFirst(here, A, k)
        BY <1>5, <1>11, <3>2 DEF WalkFirst
      <3>4. QED
        BY <1>1, <3>1, <3>3
    <2>4. CASE ~ (Priority(here) > Priority(before))
      <3>1. Prefer(here, before) = before
        BY <1>6, <2>2, <2>4 DEF Prefer
      <3>2. \A i \in 1 .. k : \A r \in A[i] :
              \/ Priority(before) > Priority(r)
              \/ /\ Priority(before) = Priority(r)
                 /\ j < i \/ (j = i /\ before.id <= r.id)
        <4> SUFFICES ASSUME NEW r \in A[k]
                     PROVE  \/ Priority(before) > Priority(r)
                            \/ Priority(before) = Priority(r) /\ j < k
          BY <1>7, <2>1
        <4>1. r \in rules
          BY <1>8
        <4>2. Priority(here) >= Priority(r)
          BY <1>4, <1>5, <2>2, <4>1
        <4>3. QED
          BY <1>4, <2>2, <2>4, <4>1, <4>2
      <3>3. WalkFirst(before, A, k)
        <4>1. ~ \A i \in 1 .. k : A[i] = {}
          BY <2>1, <2>2
        <4>2. QED
          BY <2>1, <2>2, <3>2, <4>1 DEF WalkFirst
      <3>4. QED
        BY <1>1, <3>1, <3>3
    <2>5. QED
      BY <2>3, <2>4
  <1>12. QED
    BY <1>9, <1>10, <1>11

LEMMA MaxIs ==
  ASSUME NEW n \in Nat, NEW S \in SUBSET (1 .. n), S # {}
  PROVE  Max(S) \in S /\ \A m \in S : m <= Max(S)
  <1> DEFINE Above == {n - m : m \in S}
  <1>1. Above \in SUBSET Nat /\ Above # {}
    OBVIOUS
  <1> HIDE DEF Above
  <1>2. PICK a \in Above : \A b \in Above : a <= b
    BY <1>1, LeastNumber
  <1>3. PICK x \in S : a = n - x
    BY <1>2 DEF Above
  <1>4. ASSUME NEW y \in S PROVE x >= y
    <2>1. n - y \in Above
      BY DEF Above
    <2>2. n - x <= n - y
      BY <1>2, <1>3, <2>1
    <2>3. QED
      BY <2>2
  <1>5. Max(S) \in S /\ \A y \in S : Max(S) >= y
    BY <1>4 DEF Max
  <1>6. QED
    BY <1>5

(* The rules that the step of the walk at a label may use *)
SlotRules(snapshot, name, client, start, target) ==
  {r \in snapshot.rules :
     /\ r.domain = SubSeq(name, start, Len(name)) /\ r.target = target
     /\ start = 1 \/ r.subdomains
     /\ ScopeMatches(r.scope, client)}

EnforcedSlotRules(snapshot, name, client, start, target) ==
  {r \in SlotRules(snapshot, name, client, start, target) : Enforced(snapshot, r, client)}

(* One step of the walk *)
WalkOn(snapshot, name, client, target, best, start) ==
  [selected |-> Prefer(BestDomainRule(SlotRules(snapshot, name, client, start, target)),
                       best.selected),
   enforcing |-> Prefer(BestDomainRule(EnforcedSlotRules(snapshot, name, client, start, target)),
                        best.enforcing)]

(* The walk as the fold over the labels has it *)
Starts(name) == [start \in 1 .. Len(name) |-> start]

WalkAt(snapshot, name, client, target, best, s) ==
  [selected |->
     Prefer(MatchSlot(snapshot, SubSeq(name, Starts(name)[Max(s)], Len(name)),
                      client, Starts(name)[Max(s)] = 1, target).selected,
            best.selected),
   enforcing |->
     Prefer(MatchSlot(snapshot, SubSeq(name, Starts(name)[Max(s)], Len(name)),
                      client, Starts(name)[Max(s)] = 1, target).enforcing,
            best.enforcing)]

IsWalk(iter, snapshot, name, client, target) ==
  iter = [s \in SUBSET DOMAIN Starts(name) |->
            IF s = {} THEN NoMatch
            ELSE WalkAt(snapshot, name, client, target, iter[s \ {Max(s)}], s)]

LEMMA MatchDomainFolds ==
  ASSUME NEW snapshot, NEW name, NEW client, NEW target
  PROVE  MatchDomain(snapshot, name, client, target)
           = (CHOOSE iter : IsWalk(iter, snapshot, name, client, target))[DOMAIN Starts(name)]
  BY DEF MatchDomain, FoldLeft, MapThenFoldSet, IsWalk, WalkAt, Starts, NoMatch

LEMMA WalkOnIs ==
  ASSUME NEW snapshot, NEW name, NEW client, NEW target, Len(name) \in Nat,
         NEW s \in SUBSET (1 .. Len(name)), s # {}, NEW best
  PROVE  WalkAt(snapshot, name, client, target, best, s)
           = WalkOn(snapshot, name, client, target, best, Max(s))
  <1>1. PICK start \in 1 .. Len(name) : start = Max(s)
    BY MaxIs
  <1>2. Starts(name)[start] = start
    BY DEF Starts
  <1>3. PICK part : part = SubSeq(name, start, Len(name))
    OBVIOUS
  <1>4. PICK exact \in BOOLEAN : exact <=> start = 1
    OBVIOUS
  <1>5. MatchSlot(snapshot, part, client, start = 1, target) =
          [selected |-> BestDomainRule(SlotRules(snapshot, name, client, start, target)),
           enforcing |-> BestDomainRule(EnforcedSlotRules(snapshot, name, client, start, target))]
    BY <1>3 DEF MatchSlot, SlotRules, EnforcedSlotRules
  <1>6. QED
    BY <1>1, <1>2, <1>3, <1>5 DEF WalkOn, WalkAt

(* The rules of a snapshot, as far as matching goes *)
RulesShape(rules) == IsFiniteSet(rules) /\ \A r \in rules : r.id \in Nat \ {0}

LEMMA SlotBest ==
  ASSUME NEW rules, RulesShape(rules), NEW S \in SUBSET rules
  PROVE  BestDomainRule(S) \in rules \cup {NoRule}
  BY BestDomainRuleIs, FS_Subset DEF RulesShape, IsFirst

(* What a walk holds after all its steps *)
LEMMA WalkHolds ==
  ASSUME NEW snapshot, RulesShape(snapshot.rules), NEW name, NEW client, NEW target,
         Len(name) \in Nat
  PROVE  LET n == Len(name)
             match == MatchDomain(snapshot, name, client, target)
         IN  /\ WalkFirst(match.selected,
                          [k \in 1 .. n |-> SlotRules(snapshot, name, client, k, target)], n)
             /\ WalkFirst(match.enforcing,
                          [k \in 1 .. n |-> EnforcedSlotRules(snapshot, name, client, k, target)], n)
  <1> DEFINE n == Len(name)
             R == snapshot.rules \cup {NoRule}
             V == [selected : R, enforcing : R]
             On(best, k) == WalkOn(snapshot, name, client, target, best, k)
             Ch == [s \in SUBSET (1 .. n) |-> Max(s)]
             F == [p \in (1 .. n) \X V |-> On(p[2], p[1])]
             A == [k \in 1 .. n |-> SlotRules(snapshot, name, client, k, target)]
             E == [k \in 1 .. n |-> EnforcedSlotRules(snapshot, name, client, k, target)]
  <1>1. A \in [1 .. n -> SUBSET snapshot.rules] /\ E \in [1 .. n -> SUBSET snapshot.rules]
    BY DEF SlotRules, EnforcedSlotRules
  <1>2. Chooses(Ch, 1 .. n)
    BY MaxIs DEF Chooses
  <1>3. NoMatch \in V
    BY DEF NoMatch
  <1>4. ASSUME NEW best \in V, NEW k \in 1 .. n PROVE On(best, k) \in V
    <2>1. PICK here \in R : here = BestDomainRule(A[k])
      BY <1>1, SlotBest
    <2>2. PICK there \in R : there = BestDomainRule(E[k])
      BY <1>1, SlotBest
    <2>3. On(best, k) = [selected |-> Prefer(here, best.selected),
                         enforcing |-> Prefer(there, best.enforcing)]
      BY <2>1, <2>2 DEF WalkOn
    <2>4. QED
      BY <2>3 DEF Prefer
  <1>5. F \in [(1 .. n) \X V -> V]
    BY <1>4
  <1>6. IsFiniteSet(1 .. n)
    BY FS_Interval
  <1>7. PICK f \in [SUBSET (1 .. n) -> V] : Unfolds(f, 1 .. n, NoMatch, F, Ch)
    <2> HIDE DEF V, F, Ch
    <2>1. QED
      BY <1>2, <1>3, <1>5, <1>6, SubsetRecursion
  <1>8. DOMAIN Starts(name) = 1 .. n
    BY DEF Starts
  <1>9. IsWalk(f, snapshot, name, client, target)
    <2>1. ASSUME NEW s \in SUBSET (1 .. n), s # {}
          PROVE  F[<<Ch[s], f[s \ {Ch[s]}]>>] = On(f[s \ {Max(s)}], Max(s))
      <3>1. Ch[s] = Max(s) /\ Max(s) \in 1 .. n /\ f[s \ {Max(s)}] \in V
        BY <2>1, MaxIs
      <3> HIDE DEF V, On
      <3>2. QED
        BY <3>1
    <2>2. f = [s \in SUBSET (1 .. n) |-> IF s = {} THEN NoMatch ELSE On(f[s \ {Max(s)}], Max(s))]
      <3> HIDE DEF F, Ch, On
      <3>1. QED
        BY <1>7, <2>1 DEF Unfolds
    <2>3. \A s \in SUBSET (1 .. n) : s # {} =>
            On(f[s \ {Max(s)}], Max(s))
              = WalkAt(snapshot, name, client, target, f[s \ {Max(s)}], s)
      BY WalkOnIs
    <2> HIDE DEF On
    <2>4. QED
      BY <1>8, <2>2, <2>3 DEF IsWalk
  <1> DEFINE g == CHOOSE iter : IsWalk(iter, snapshot, name, client, target)
  <1>10. IsWalk(g, snapshot, name, client, target)
    BY <1>9
  <1>11. MatchDomain(snapshot, name, client, target) = g[1 .. n]
    BY <1>8, MatchDomainFolds
  <1> HIDE DEF g
  <1>12. g[{}] = NoMatch /\ \A s \in SUBSET (1 .. n) : s # {} => g[s] = On(g[s \ {Max(s)}], Max(s))
    <2>1. /\ g[{}] = NoMatch
          /\ \A s \in SUBSET (1 .. n) : s # {} =>
               g[s] = WalkAt(snapshot, name, client, target, g[s \ {Max(s)}], s)
      BY <1>8, <1>10 DEF IsWalk
    <2>2. QED
      BY <2>1, WalkOnIs
  <1> DEFINE Q == {k \in 0 .. n : WalkFirst(g[1 .. k].selected, A, k)
                                  /\ WalkFirst(g[1 .. k].enforcing, E, k)}
  <1>13. 0 \in Q
    BY <1>12 DEF WalkFirst, NoMatch
  <1>14. ASSUME NEW k \in 1 .. n, k - 1 \in Q PROVE k \in Q
    <2>1. 1 .. k \in SUBSET (1 .. n) /\ 1 .. k # {} /\ k \in 1 .. k
      <3>1. k \in 1 .. k /\ \A i \in 1 .. k : i \in 1 .. n
        OBVIOUS
      <3>2. QED
        BY <3>1
    <2>2. Max(1 .. k) = k
      <3>1. Max(1 .. k) \in 1 .. k /\ k <= Max(1 .. k)
        BY <2>1, MaxIs
      <3>2. QED
        BY <3>1
    <2>3. (1 .. k) \ {k} = 1 .. (k - 1)
      OBVIOUS
    <2>4. PICK b : b = g[1 .. (k - 1)]
      OBVIOUS
    <2>5. g[1 .. k] = On(b, k)
      BY <1>12, <2>1, <2>2, <2>3, <2>4
    <2>6. /\ g[1 .. k].selected = Prefer(BestDomainRule(A[k]), b.selected)
          /\ g[1 .. k].enforcing = Prefer(BestDomainRule(E[k]), b.enforcing)
      BY <2>5 DEF WalkOn
    <2>7. WalkFirst(b.selected, A, k - 1) /\ WalkFirst(b.enforcing, E, k - 1)
      BY <1>14, <2>4
    <2> HIDE DEF A, E, On
    <2>8. /\ WalkFirst(Prefer(BestDomainRule(A[k]), b.selected), A, k)
          /\ WalkFirst(Prefer(BestDomainRule(E[k]), b.enforcing), E, k)
      BY <1>1, <2>7, WalkStep DEF RulesShape
    <2>9. QED
      BY <2>6, <2>8
  <1> HIDE DEF Q, A, E, On
  <1>15. n \in Q
    <2>1. \A k \in 1 .. n : k - 1 \in Q => k \in Q
      BY <1>14
    <2>2. \A k \in 0 .. n : k \in Q
      BY <1>13, <2>1, RangeInduction
    <2>3. QED
      BY <2>2
  <1>16. WalkFirst(g[1 .. n].selected, A, n) /\ WalkFirst(g[1 .. n].enforcing, E, n)
    BY <1>15 DEF Q
  <1>17. QED
    BY <1>11, <1>16 DEF A, E

-----------------------------------------------------------------------------
(* Precedence *)

(* What a rule of either kind in a snapshot is like *)
RuleOK(r) ==
  /\ r.id \in Nat \ {0} /\ r.effect \in {"allow", "block"}
  /\ EffectSourceValid(r.effect, r.source)
  /\ r.scope.type = "global" => r.scope = Global

UniqueIds(rules) == \A a, b \in rules : a.id = b.id => a = b

(* The class that a priority stands for *)
Rank(priority) ==
  CASE priority = 6 -> 2 [] priority = 5 -> 3 [] priority = 4 -> 4
    [] priority = 3 -> 5 [] priority = 2 -> 6 [] OTHER -> 8

LEMMA ClassesDiffer ==
  ASSUME NEW i \in 1 .. 8, NEW k \in 1 .. 8, Classes[i] = Classes[k]
  PROVE  i = k
  <1>1. /\ \A j \in 1 .. 2 : Classes[j].source = "emergency"
        /\ \A j \in 3 .. 6 : Classes[j].source = "explicit"
        /\ \A j \in 7 .. 8 : Classes[j].source = "blocklist"
        /\ \A j \in 3 .. 4 : Classes[j].effect = "allow"
        /\ \A j \in 5 .. 6 : Classes[j].effect = "block"
    BY DEF Classes
  <1>2. /\ ~ Classes[1].all /\ ~ Classes[3].all /\ ~ Classes[5].all /\ ~ Classes[7].all
        /\ Classes[2].all /\ Classes[4].all /\ Classes[6].all /\ Classes[8].all
    BY DEF Classes
  <1>3. QED
    BY <1>1, <1>2

LEMMA ClassIs ==
  ASSUME NEW r, RuleOK(r)
  PROVE  ClassOf(r) = Rank(Priority(r))
  <1> DEFINE class == [source |-> r.source, effect |-> r.effect,
                       all |-> r.source # "explicit" \/ r.scope = Global]
  <1>1. DOMAIN Classes = 1 .. 8
    BY DEF Classes
  <1>2. r.scope.type = "global" <=> r.scope = Global
    BY DEF RuleOK, Global
  <1>3. ASSUME NEW k \in 1 .. 8, \A i \in 1 .. 8 : Classes[i] = class <=> i = k
        PROVE  ClassOf(r) = k
    BY <1>1, <1>3 DEF ClassOf
  <1>4. CASE r.source = "emergency"
    <2>1. r.effect = "allow"
      BY <1>4 DEF RuleOK, EffectSourceValid
    <2>2. (r.source # "explicit" \/ r.scope = Global) = TRUE
      BY <1>4
    <2>3. class = [source |-> "emergency", effect |-> "allow", all |-> TRUE]
      BY <1>4, <2>1, <2>2, Zenon
    <2>4. class = Classes[2]
      BY <2>3 DEF Classes
    <2> HIDE DEF class
    <2>5. \A i \in 1 .. 8 : Classes[i] = class <=> i = 2
      BY <2>4, ClassesDiffer
    <2>6. QED
      BY <1>2, <1>3, <1>4, <2>1, <2>5 DEF Rank, Priority
  <1>5. CASE r.source = "explicit" /\ r.effect = "allow" /\ r.scope # Global
    <2>1. r.effect = "allow"
      BY <1>5 DEF RuleOK, EffectSourceValid
    <2>2. (r.source # "explicit" \/ r.scope = Global) = FALSE
      BY <1>5
    <2>3. class = [source |-> "explicit", effect |-> "allow", all |-> FALSE]
      BY <1>5, <2>1, <2>2, Zenon
    <2>4. class = Classes[3]
      BY <2>3 DEF Classes
    <2> HIDE DEF class
    <2>5. \A i \in 1 .. 8 : Classes[i] = class <=> i = 3
      BY <2>4, ClassesDiffer
    <2>6. QED
      BY <1>2, <1>3, <1>5, <2>1, <2>5 DEF Rank, Priority
  <1>6. CASE r.source = "explicit" /\ r.effect = "allow" /\ r.scope = Global
    <2>1. r.effect = "allow"
      BY <1>6 DEF RuleOK, EffectSourceValid
    <2>2. (r.source # "explicit" \/ r.scope = Global) = TRUE
      BY <1>6
    <2>3. class = [source |-> "explicit", effect |-> "allow", all |-> TRUE]
      BY <1>6, <2>1, <2>2, Zenon
    <2>4. class = Classes[4]
      BY <2>3 DEF Classes
    <2> HIDE DEF class
    <2>5. \A i \in 1 .. 8 : Classes[i] = class <=> i = 4
      BY <2>4, ClassesDiffer
    <2>6. QED
      BY <1>2, <1>3, <1>6, <2>1, <2>5 DEF Rank, Priority
  <1>7. CASE r.source = "explicit" /\ r.effect = "block" /\ r.scope # Global
    <2>1. r.effect = "block"
      BY <1>7 DEF RuleOK, EffectSourceValid
    <2>2. (r.source # "explicit" \/ r.scope = Global) = FALSE
      BY <1>7
    <2>3. class = [source |-> "explicit", effect |-> "block", all |-> FALSE]
      BY <1>7, <2>1, <2>2, Zenon
    <2>4. class = Classes[5]
      BY <2>3 DEF Classes
    <2> HIDE DEF class
    <2>5. \A i \in 1 .. 8 : Classes[i] = class <=> i = 5
      BY <2>4, ClassesDiffer
    <2>6. QED
      BY <1>2, <1>3, <1>7, <2>1, <2>5 DEF Rank, Priority
  <1>8. CASE r.source = "explicit" /\ r.effect = "block" /\ r.scope = Global
    <2>1. r.effect = "block"
      BY <1>8 DEF RuleOK, EffectSourceValid
    <2>2. (r.source # "explicit" \/ r.scope = Global) = TRUE
      BY <1>8
    <2>3. class = [source |-> "explicit", effect |-> "block", all |-> TRUE]
      BY <1>8, <2>1, <2>2, Zenon
    <2>4. class = Classes[6]
      BY <2>3 DEF Classes
    <2> HIDE DEF class
    <2>5. \A i \in 1 .. 8 : Classes[i] = class <=> i = 6
      BY <2>4, ClassesDiffer
    <2>6. QED
      BY <1>2, <1>3, <1>8, <2>1, <2>5 DEF Rank, Priority
  <1>9. CASE r.source = "blocklist"
    <2>1. r.effect = "block"
      BY <1>9 DEF RuleOK, EffectSourceValid
    <2>2. (r.source # "explicit" \/ r.scope = Global) = TRUE
      BY <1>9
    <2>3. class = [source |-> "blocklist", effect |-> "block", all |-> TRUE]
      BY <1>9, <2>1, <2>2, Zenon
    <2>4. class = Classes[8]
      BY <2>3 DEF Classes
    <2> HIDE DEF class
    <2>5. \A i \in 1 .. 8 : Classes[i] = class <=> i = 8
      BY <2>4, ClassesDiffer
    <2>6. QED
      BY <1>2, <1>3, <1>9, <2>1, <2>5 DEF Rank, Priority
  <1>10. QED
    BY <1>4, <1>5, <1>6, <1>7, <1>8, <1>9 DEF RuleOK, EffectSourceValid

(* The classes order the rules as their priorities do. *)
LEMMA ClassOrder ==
  ASSUME NEW a, NEW b, RuleOK(a), RuleOK(b)
  PROVE  /\ ClassOf(a) < ClassOf(b) <=> Priority(a) > Priority(b)
         /\ ClassOf(a) = ClassOf(b) <=> Priority(a) = Priority(b)
  BY ClassIs, PriorityType DEF Rank

-----------------------------------------------------------------------------
(* Names *)

DomainRuleOK(r) == RuleOK(r) /\ r.subdomains \in BOOLEAN /\ IsName(r.domain)

DomainRulesOK(rules) ==
  IsFiniteSet(rules) /\ UniqueIds(rules) /\ \A r \in rules : DomainRuleOK(r)

LEMMA NameLength ==
  ASSUME NEW name, IsName(name)
  PROVE  Len(name) \in Nat \ {0} /\ SubSeq(name, 1, Len(name)) = name
  <1>1. name \in Seq(Range(name)) /\ name # <<>>
    BY DEF IsName
  <1>2. Len(name) \in Nat \ {0}
    BY <1>1, EmptySeq
  <1>3. QED
    BY <1>1, <1>2

(* A label's step has the rules of the name from that label on. *)
LEMMA SlotLength ==
  ASSUME NEW name, IsName(name), NEW k \in 1 .. Len(name)
  PROVE  Len(SubSeq(name, k, Len(name))) = Len(name) - k + 1
  BY NameLength DEF IsName

Matching(snapshot, name, client, target) ==
  {r \in snapshot.rules :
     r.target = target /\ NameMatches(r, name) /\ ScopeMatches(r.scope, client)}

(* The steps of the walk have the rules whose name matches. *)
LEMMA SlotsCover ==
  ASSUME NEW snapshot, NEW name, IsName(name), NEW client, NEW target,
         NEW r \in snapshot.rules, DomainRuleOK(r)
  PROVE  /\ \A k \in 1 .. Len(name) :
              r \in SlotRules(snapshot, name, client, k, target) =>
                /\ r \in Matching(snapshot, name, client, target)
                /\ Len(r.domain) = Len(name) - k + 1
         /\ r \in Matching(snapshot, name, client, target) =>
              \E k \in 1 .. Len(name) : r \in SlotRules(snapshot, name, client, k, target)
  <1>1. Len(name) \in Nat \ {0} /\ SubSeq(name, 1, Len(name)) = name
    BY NameLength
  <1>2. Len(r.domain) \in Nat \ {0}
    BY NameLength DEF DomainRuleOK
  <1>3. ASSUME NEW k \in 1 .. Len(name), r \in SlotRules(snapshot, name, client, k, target)
        PROVE  /\ r \in Matching(snapshot, name, client, target)
               /\ Len(r.domain) = Len(name) - k + 1
    <2>1. /\ r.domain = SubSeq(name, k, Len(name)) /\ r.target = target
          /\ k = 1 \/ r.subdomains
          /\ ScopeMatches(r.scope, client)
      BY <1>3 DEF SlotRules
    <2>2. Len(r.domain) = Len(name) - k + 1
      BY <2>1, SlotLength
    <2>3. NameMatches(r, name)
      <3>1. CASE ~ r.subdomains
        BY <1>1, <2>1, <3>1 DEF NameMatches
      <3>2. CASE r.subdomains
        <4>1. Len(name) - Len(r.domain) + 1 = k /\ Len(name) >= Len(r.domain)
          BY <1>1, <2>2
        <4>2. Below(name, r.domain)
          BY <2>1, <4>1 DEF Below
        <4>3. QED
          BY <3>2, <4>2 DEF NameMatches
      <3>3. QED
        BY <3>1, <3>2
    <2>4. QED
      BY <2>1, <2>2, <2>3 DEF Matching
  <1>4. ASSUME r \in Matching(snapshot, name, client, target)
        PROVE  \E k \in 1 .. Len(name) : r \in SlotRules(snapshot, name, client, k, target)
    <2>1. r.target = target /\ NameMatches(r, name) /\ ScopeMatches(r.scope, client)
      BY <1>4 DEF Matching
    <2>2. CASE ~ r.subdomains
      <3>1. r.domain = name
        BY <2>1, <2>2 DEF NameMatches
      <3>2. r \in SlotRules(snapshot, name, client, 1, target)
        BY <1>1, <2>1, <3>1 DEF SlotRules
      <3>3. QED
        BY <1>1, <3>2
    <2>3. CASE r.subdomains
      <3>1. Below(name, r.domain)
        BY <2>1, <2>3 DEF NameMatches
      <3>2. PICK k \in 1 .. Len(name) : k = Len(name) - Len(r.domain) + 1
        <4>1. Len(r.domain) <= Len(name)
          BY <1>1, <1>2, <3>1 DEF Below
        <4>2. Len(name) - Len(r.domain) + 1 \in 1 .. Len(name)
          BY <1>1, <1>2, <4>1
        <4>3. QED
          BY <4>2
      <3>3. r \in SlotRules(snapshot, name, client, k, target)
        BY <2>1, <2>3, <3>1, <3>2 DEF SlotRules, Below
      <3>4. QED
        BY <3>3
    <2>4. QED
      BY <2>2, <2>3
  <1>5. QED
    BY <1>3, <1>4

(* What the walk chooses of the rules at its steps is what a comparison of *)
(* all of them chooses.                                                    *)
LEMMA WalkChooses ==
  ASSUME NEW rules, UniqueIds(rules), \A r \in rules : DomainRuleOK(r),
         NEW n \in Nat, NEW A \in [1 .. n -> SUBSET rules], NEW chosen, WalkFirst(chosen, A, n),
         \A k \in 1 .. n : \A r \in A[k] : Len(r.domain) = n - k + 1
  PROVE  IsDomainChoice(chosen, UNION {A[k] : k \in 1 .. n})
  <1> DEFINE all == UNION {A[k] : k \in 1 .. n}
  <1>1. all \subseteq rules
    OBVIOUS
  <1>2. CASE all = {}
    <2>1. \A k \in 1 .. n : A[k] = {}
      BY <1>2
    <2>2. chosen = NoRule
      BY <2>1 DEF WalkFirst
    <2>3. QED
      BY <1>2, <2>2 DEF IsDomainChoice, Found, NoRule
  <1>3. CASE all # {}
    <2>1. ~ \A k \in 1 .. n : A[k] = {}
      BY <1>3
    <2>2. PICK j \in 1 .. n :
            /\ chosen \in A[j]
            /\ \A i \in 1 .. n : \A r \in A[i] :
                 \/ Priority(chosen) > Priority(r)
                 \/ /\ Priority(chosen) = Priority(r)
                    /\ j < i \/ (j = i /\ chosen.id <= r.id)
      BY <2>1 DEF WalkFirst
    <2>3. chosen \in all /\ chosen \in rules
      BY <2>2
    <2>4. ASSUME NEW r \in all \ {chosen}
          PROVE  \/ ClassOf(chosen) < ClassOf(r)
                 \/ /\ ClassOf(chosen) = ClassOf(r)
                    /\ \/ Len(chosen.domain) > Len(r.domain)
                       \/ Len(chosen.domain) = Len(r.domain) /\ chosen.id < r.id
      <3>1. PICK i \in 1 .. n : r \in A[i]
        OBVIOUS
      <3>2. r \in rules /\ r # chosen
        BY <1>1
      <3>3. chosen.id # r.id /\ chosen.id \in Nat /\ r.id \in Nat
        BY <2>3, <3>2 DEF UniqueIds, DomainRuleOK, RuleOK
      <3>4. /\ ClassOf(chosen) < ClassOf(r) <=> Priority(chosen) > Priority(r)
            /\ ClassOf(chosen) = ClassOf(r) <=> Priority(chosen) = Priority(r)
        BY <2>3, <3>2, ClassOrder DEF DomainRuleOK
      <3>5. Len(chosen.domain) = n - j + 1 /\ Len(r.domain) = n - i + 1
        BY <2>2, <3>1
      <3>6. \/ Priority(chosen) > Priority(r)
            \/ /\ Priority(chosen) = Priority(r)
               /\ j < i \/ (j = i /\ chosen.id <= r.id)
        BY <2>2, <3>1
      <3>7. (j < i => n - j + 1 > n - i + 1) /\ (chosen.id <= r.id => chosen.id < r.id)
        BY <3>3
      <3>8. QED
        BY <3>4, <3>5, <3>6, <3>7
    <2> HIDE DEF all
    <2>5. QED
      BY <1>3, <2>3, <2>4 DEF IsDomainChoice, all
  <1>4. QED
    BY <1>2, <1>3

(* match_domain_target decides as the comparison of all matching rules. *)
LEMMA DomainDecision ==
  ASSUME NEW snapshot, DomainRulesOK(snapshot.rules), NEW name, IsName(name),
         NEW client, NEW target
  PROVE  LET match == MatchDomain(snapshot, name, client, target)
             rules == Matching(snapshot, name, client, target)
         IN  /\ IsDomainChoice(match.selected, rules)
             /\ IsDomainChoice(match.enforcing, {r \in rules : Enforced(snapshot, r, client)})
  <1> DEFINE n == Len(name)
             match == MatchDomain(snapshot, name, client, target)
             rules == Matching(snapshot, name, client, target)
             A == [k \in 1 .. n |-> SlotRules(snapshot, name, client, k, target)]
             E == [k \in 1 .. n |-> EnforcedSlotRules(snapshot, name, client, k, target)]
  <1>1. n \in Nat
    BY NameLength
  <1>2. RulesShape(snapshot.rules)
    BY DEF DomainRulesOK, DomainRuleOK, RuleOK, RulesShape
  <1>3. WalkFirst(match.selected, A, n) /\ WalkFirst(match.enforcing, E, n)
    BY <1>1, <1>2, WalkHolds
  <1>4. \A k \in 1 .. n : A[k] \subseteq snapshot.rules /\ E[k] \subseteq A[k]
    BY DEF SlotRules, EnforcedSlotRules
  <1>5. \A r \in snapshot.rules : DomainRuleOK(r)
    BY DEF DomainRulesOK
  <1>6. ASSUME NEW k \in 1 .. n, NEW r \in A[k]
        PROVE  r \in rules /\ Len(r.domain) = n - k + 1
    <2>1. r \in snapshot.rules /\ r \in SlotRules(snapshot, name, client, k, target)
      BY <1>4
    <2>2. QED
      BY <1>5, <2>1, SlotsCover
  <1>7. \A r \in rules : r \in snapshot.rules /\ \E k \in 1 .. n : r \in A[k]
    <2>1. rules \subseteq snapshot.rules
      BY DEF Matching
    <2>2. QED
      BY <1>5, <2>1, SlotsCover
  <1>8. \A k \in 1 .. n : \A r : r \in E[k] <=> r \in A[k] /\ Enforced(snapshot, r, client)
    BY DEF EnforcedSlotRules
  <1>9. /\ A \in [1 .. n -> SUBSET snapshot.rules] /\ E \in [1 .. n -> SUBSET snapshot.rules]
    BY <1>4
  <1> HIDE DEF A, E, match, rules, n
  <1>10. UNION {A[k] : k \in 1 .. n} = rules
    BY <1>6, <1>7
  <1>11. UNION {E[k] : k \in 1 .. n} = {r \in rules : Enforced(snapshot, r, client)}
    BY <1>6, <1>7, <1>8
  <1>12. UniqueIds(snapshot.rules)
    BY DEF DomainRulesOK
  <1>13. IsDomainChoice(match.selected, UNION {A[k] : k \in 1 .. n})
    <2>1. \A k \in 1 .. n : \A r \in A[k] : Len(r.domain) = n - k + 1
      BY <1>6
    <2>2. QED
      BY <1>1, <1>3, <1>5, <1>9, <1>12, <2>1, WalkChooses
  <1>14. IsDomainChoice(match.enforcing, UNION {E[k] : k \in 1 .. n})
    <2>1. \A k \in 1 .. n : \A r \in E[k] : Len(r.domain) = n - k + 1
      BY <1>6, <1>8
    <2>2. QED
      BY <1>1, <1>3, <1>5, <1>9, <1>12, <2>1, WalkChooses
  <1>15. QED
    BY <1>10, <1>11, <1>13, <1>14 DEF match, rules

-----------------------------------------------------------------------------
(* Destinations *)

DestinationRuleOK(r) ==
  RuleOK(r) /\ r.port \in Nat /\ NetShape(r)

DestinationRulesOK(rules) ==
  IsFiniteSet(rules) /\ UniqueIds(rules) /\ \A r \in rules : DestinationRuleOK(r)

Details(r) ==
  << IF r.transport = "any" THEN 0 ELSE 1, IF r.port = 0 THEN 0 ELSE 1, NetDetail(r) >>

Finer(a, b) == \E i \in 1 .. 3 : a[i] > b[i] /\ \A j \in 1 .. i - 1 : a[j] = b[j]

(* The number that policy_destination_specificity gives compares like the  *)
(* transport, then the port, then the prefix.                              *)
LEMMA SpecificityOrder ==
  ASSUME NEW a, NEW b, NetShape(a), NetShape(b)
  PROVE  /\ Specificity(a) > Specificity(b) => Finer(Details(a), Details(b))
         /\ Specificity(a) = Specificity(b) => Details(a) = Details(b)
  <1>1. PICK x, y : x = NetDetail(a) /\ y = NetDetail(b)
    OBVIOUS
  <1>2. x \in 0 .. 129 /\ y \in 0 .. 129
    BY <1>1, SpecificityIs
  <1>3. PICK pa \in {0, 1}, pb \in {0, 1}, ta \in {0, 1}, tb \in {0, 1} :
          /\ pa = IF a.port = 0 THEN 0 ELSE 1
          /\ pb = IF b.port = 0 THEN 0 ELSE 1
          /\ ta = IF a.transport = "any" THEN 0 ELSE 1
          /\ tb = IF b.transport = "any" THEN 0 ELSE 1
    OBVIOUS
  <1>4. Specificity(a) = x + 256 * pa + 512 * ta /\ Specificity(b) = y + 256 * pb + 512 * tb
    BY <1>1, <1>2, <1>3, SpecificityIs
  <1>5. Details(a) = <<ta, pa, x>> /\ Details(b) = <<tb, pb, y>>
    BY <1>1, <1>3 DEF Details
  <1>6. Specificity(a) = Specificity(b) => ta = tb /\ pa = pb /\ x = y
    BY <1>2, <1>3, <1>4
  <1>7. Specificity(a) > Specificity(b) =>
          \/ ta > tb
          \/ ta = tb /\ pa > pb
          \/ ta = tb /\ pa = pb /\ x > y
    BY <1>2, <1>3, <1>4
  <1>8. ASSUME \/ ta > tb
               \/ ta = tb /\ pa > pb
               \/ ta = tb /\ pa = pb /\ x > y
        PROVE  Finer(<<ta, pa, x>>, <<tb, pb, y>>)
    <2>1. CASE ta > tb
      BY <2>1 DEF Finer
    <2>2. CASE ta = tb /\ pa > pb
      BY <2>2 DEF Finer
    <2>3. CASE ta = tb /\ pa = pb /\ x > y
      BY <2>3 DEF Finer
    <2>4. QED
      BY <1>8, <2>1, <2>2, <2>3
  <1>9. QED
    BY <1>5, <1>6, <1>7, <1>8

LEMMA BestDestinationChoice ==
  ASSUME NEW all, DestinationRulesOK(all), NEW rules \in SUBSET all
  PROVE  IsDestinationChoice(BestDestinationRule(rules), rules)
  <1>1. IsFiniteSet(rules) /\ \A r \in rules : r.id \in Nat \ {0} /\ NetShape(r)
    BY FS_Subset DEF DestinationRulesOK, DestinationRuleOK, RuleOK
  <1>2. PICK chosen : chosen = BestDestinationRule(rules)
    OBVIOUS
  <1>3. IF rules = {} THEN chosen = NoRule
        ELSE IsFirst(chosen, rules, DestinationBefore(rules))
    BY <1>1, <1>2, BestDestinationRuleIs
  <1>4. CASE rules = {}
    BY <1>2, <1>3, <1>4 DEF IsDestinationChoice, Found, NoRule
  <1>5. CASE rules # {}
    <2>1. chosen \in rules /\ \A r \in rules : <<r, chosen>> \notin DestinationBefore(rules)
      BY <1>3, <1>5 DEF IsFirst
    <2>2. ASSUME NEW r \in rules \ {chosen}
          PROVE  \/ ClassOf(chosen) < ClassOf(r)
                 \/ /\ ClassOf(chosen) = ClassOf(r)
                    /\ \/ Finer(Details(chosen), Details(r))
                       \/ Details(chosen) = Details(r) /\ chosen.id < r.id
      <3>1. /\ ClassOf(chosen) < ClassOf(r) <=> Priority(chosen) > Priority(r)
            /\ ClassOf(chosen) = ClassOf(r) <=> Priority(chosen) = Priority(r)
        BY <2>1, ClassOrder DEF DestinationRulesOK, DestinationRuleOK
      <3>2. Priority(chosen) \in Nat /\ Priority(r) \in Nat
        BY PriorityType
      <3>3. Specificity(chosen) \in Nat /\ Specificity(r) \in Nat
        BY <1>1, <2>1, SpecificityIs
      <3>4. chosen.id # r.id /\ chosen.id \in Nat /\ r.id \in Nat
        BY <1>1, <2>1 DEF DestinationRulesOK, UniqueIds
      <3>5. ~ \/ Priority(r) > Priority(chosen)
              \/ /\ Priority(r) = Priority(chosen)
                 /\ \/ Specificity(r) > Specificity(chosen)
                    \/ Specificity(r) = Specificity(chosen) /\ r.id < chosen.id
        BY <2>1 DEF DestinationBefore
      <3>6. \/ Priority(chosen) > Priority(r)
            \/ /\ Priority(chosen) = Priority(r)
               /\ \/ Specificity(chosen) > Specificity(r)
                  \/ Specificity(chosen) = Specificity(r) /\ chosen.id < r.id
        BY <3>2, <3>3, <3>4, <3>5
      <3>7. /\ Specificity(chosen) > Specificity(r) => Finer(Details(chosen), Details(r))
            /\ Specificity(chosen) = Specificity(r) => Details(chosen) = Details(r)
        BY <1>1, <2>1, SpecificityOrder
      <3>8. QED
        BY <3>1, <3>6, <3>7
    <2>3. QED
      BY <1>2, <1>5, <2>1, <2>2 DEF IsDestinationChoice, Details, Finer, NetDetail
  <1>6. QED
    BY <1>4, <1>5

LEMMA DestinationDecision ==
  ASSUME NEW snapshot, DestinationRulesOK(snapshot.destinations), NEW to, NEW client
  PROVE  LET match == MatchDestination(snapshot, to, client)
             rules == {r \in snapshot.destinations : DestinationRuleMatches(r, to, client)}
         IN  /\ IsDestinationChoice(match.selected, rules)
             /\ IsDestinationChoice(match.enforcing,
                                    {r \in rules : Enforced(snapshot, r, client)})
  BY BestDestinationChoice DEF MatchDestination

-----------------------------------------------------------------------------
(* Normal forms *)

LEMMA PowerOfTwo ==
  ASSUME NEW n \in Nat
  PROVE  2^n \in Nat \ {0}
  <1>1. IsFiniteSet(1 .. n) /\ Cardinality(1 .. n) = n
    BY FS_Interval
  <1>2. IsFiniteSet(SUBSET (1 .. n)) /\ Cardinality(SUBSET (1 .. n)) = 2^n
    BY <1>1, FS_SUBSET
  <1>3. Cardinality(SUBSET (1 .. n)) \in Nat
    BY <1>2, FS_CardinalityType
  <1>4. Cardinality(SUBSET (1 .. n)) # 0
    <2>1. {} \in SUBSET (1 .. n)
      OBVIOUS
    <2>2. QED
      BY <1>2, <2>1, FS_EmptySet
  <1>5. QED
    BY <1>2, <1>3, <1>4

LEMMA MaskedTwice ==
  ASSUME NEW a \in Nat, NEW p \in 0 .. AddressBits
  PROVE  Masked(a, p) \in Nat /\ Masked(Masked(a, p), p) = Masked(a, p)
  <1>1. PICK m \in Nat \ {0} : m = 2^(AddressBits - p)
    <2>1. AddressBits - p \in Nat
      BY WidthAssumption
    <2>2. QED
      BY <2>1, PowerOfTwo
  <1>2. \A x : Masked(x, p) = (x \div m) * m
    BY <1>1 DEF Masked
  <1>3. PICK q \in Nat : q = a \div m
    OBVIOUS
  <1>4. q * m \in Nat /\ (q * m) \div m = q
    OBVIOUS
  <1>5. QED
    BY <1>2, <1>3, <1>4

LEMMA ScopeNormal ==
  ASSUME NEW s, IsScope(s), ScopeValid(ScopeNormalize(s))
  PROVE  /\ IsScope(ScopeNormalize(s)) /\ ScopeNormalize(s).type = s.type
         /\ ScopeNormalize(ScopeNormalize(s)) = ScopeNormalize(s)
  <1>1. CASE s.type \notin Networks
    BY <1>1 DEF ScopeNormalize
  <1>2. CASE s.type \in Networks
    <2>1. s \in [type : {"mac", "vlan"} \cup Networks, key : Nat, prefix : Nat]
      BY <1>2 DEF IsScope, Networks, Global
    <2>2. PICK k \in Nat, p \in Nat : k = s.key /\ p = s.prefix
      BY <2>1
    <2>3. ScopeNormalize(s) = [s EXCEPT !.key = Masked(k, p)]
      BY <1>2, <2>2 DEF ScopeNormalize
    <2>4. ScopeNormalize(s).prefix = p /\ ScopeNormalize(s).type = s.type
      BY <2>1, <2>2, <2>3
    <2>5. p \in 0 .. AddressBits
      BY <1>2, <2>4, WidthAssumption DEF ScopeValid
    <2>6. Masked(k, p) \in Nat /\ Masked(Masked(k, p), p) = Masked(k, p)
      BY <2>5, MaskedTwice
    <2>7. PICK n \in [type : {"mac", "vlan"} \cup Networks, key : Nat, prefix : Nat] :
            n = ScopeNormalize(s) /\ n.key = Masked(k, p) /\ n.prefix = p /\ n.type = s.type
      BY <2>1, <2>2, <2>3, <2>6
    <2>8. ScopeNormalize(n) = [n EXCEPT !.key = Masked(n.key, n.prefix)]
      BY <1>2, <2>7 DEF ScopeNormalize
    <2>9. ScopeNormalize(n) = [n EXCEPT !.key = n.key]
      BY <2>6, <2>7, <2>8
    <2>10. ScopeNormalize(n) = n
      BY <2>7, <2>9
    <2>11. QED
      BY <2>4, <2>7, <2>10 DEF IsScope
  <1>3. QED
    BY <1>1, <1>2

LEMMA NetNormal ==
  ASSUME NEW net, net = {} \/ \E n \in net : net = {n} /\ IsNet(n),
         \A n \in {AddressNormalize(m) : m \in net} : n.prefix <= AddressBits
  PROVE  LET normal == {AddressNormalize(n) : n \in net}
         IN  /\ normal = {} \/ \E n \in normal : normal = {n} /\ IsNet(n)
             /\ {AddressNormalize(n) : n \in normal} = normal
  <1>1. CASE net = {}
    BY <1>1
  <1>2. CASE net # {}
    <2>1. PICK n \in net : net = {n} /\ IsNet(n)
      BY <1>2
    <2>2. PICK k \in Nat, p \in Nat : k = n.key /\ p = n.prefix
      BY <2>1 DEF IsNet
    <2>3. AddressNormalize(n) = [n EXCEPT !.key = Masked(k, p)]
      BY <2>2 DEF AddressNormalize
    <2>4. AddressNormalize(n).prefix = p
      BY <2>1, <2>2, <2>3 DEF IsNet
    <2>5. p \in 0 .. AddressBits
      BY <2>1, <2>4, WidthAssumption
    <2>6. Masked(k, p) \in Nat /\ Masked(Masked(k, p), p) = Masked(k, p)
      BY <2>5, MaskedTwice
    <2>7. PICK m \in [family : Networks, key : Nat, prefix : Nat] :
            m = AddressNormalize(n) /\ m.key = Masked(k, p) /\ m.prefix = p
      BY <2>1, <2>2, <2>3, <2>6 DEF IsNet
    <2>8. AddressNormalize(m) = [m EXCEPT !.key = m.key]
      BY <2>6, <2>7 DEF AddressNormalize
    <2>9. AddressNormalize(m) = m
      BY <2>7, <2>8
    <2>10. {AddressNormalize(x) : x \in net} = {m} /\ {AddressNormalize(x) : x \in {m}} = {m}
      BY <2>1, <2>7, <2>9
    <2>11. IsNet(m)
      BY <2>7 DEF IsNet
    <2>12. QED
      BY <2>10, <2>11
  <1>3. QED
    BY <1>1, <1>2

-----------------------------------------------------------------------------
(* The snapshot of a stored policy *)

(* The fields of a rule and of a snapshot *)
DomainFields(r) ==
  r = [id |-> r.id, sid |-> r.sid, domain |-> r.domain, subdomains |-> r.subdomains,
       effect |-> r.effect, source |-> r.source, target |-> r.target, scope |-> r.scope,
       enforcement |-> r.enforcement]

DestinationFields(r) ==
  r = [id |-> r.id, sid |-> r.sid, effect |-> r.effect, source |-> r.source,
       transport |-> r.transport, port |-> r.port, net |-> r.net, scope |-> r.scope,
       enforcement |-> r.enforcement]

SnapshotFields(snapshot) ==
  /\ snapshot = [rules |-> snapshot.rules, destinations |-> snapshot.destinations,
                 global |-> snapshot.global, scopes |-> snapshot.scopes]
  /\ \A r \in snapshot.rules : DomainFields(r)
  /\ \A r \in snapshot.destinations : DestinationFields(r)

SnapshotOK(snapshot) ==
  /\ DomainRulesOK(snapshot.rules) /\ DestinationRulesOK(snapshot.destinations)
  /\ snapshot.global \in {"enforce", "observe"} /\ SnapshotFields(snapshot)

LoadedRules(r) == {LoadedRule(r, d) : d \in {x \in r.rules : LoadsRule(r, x)}}
LoadedDestinations(r) ==
  {LoadedDestination(r, d) : d \in {x \in r.destinations : LoadsDestination(r, x)}}

(* What is stored is normal already: loading it changes no scope or network. *)
LEMMA LoadedRuleIsPrepared ==
  ASSUME NEW r, NEW d, StoredDomainRule(d)
  PROVE  PrepareRule(LoadedRule(r, d)) = LoadedRule(r, d)
  <1>1. PICK l : l = LoadedRule(r, d)
    OBVIOUS
  <1>2. l.scope = d.scope /\ ScopeNormalize(d.scope) = d.scope
    BY <1>1 DEF LoadedRule, StoredDomainRule
  <1>3. [l EXCEPT !.scope = d.scope] = l
    BY <1>1, <1>2 DEF LoadedRule
  <1>4. QED
    BY <1>1, <1>2, <1>3 DEF PrepareRule

LEMMA LoadedDestinationIsPrepared ==
  ASSUME NEW r, NEW d, StoredDestinationRule(d)
  PROVE  PrepareDestinationRule(LoadedDestination(r, d)) = LoadedDestination(r, d)
  <1>1. PICK l : l = LoadedDestination(r, d)
    OBVIOUS
  <1>2. /\ l.scope = d.scope /\ ScopeNormalize(d.scope) = d.scope
        /\ l.net = d.net /\ {AddressNormalize(n) : n \in d.net} = d.net
    BY <1>1 DEF LoadedDestination, StoredDestinationRule
  <1>3. [l EXCEPT !.scope = d.scope, !.net = d.net] = l
    BY <1>1, <1>2 DEF LoadedDestination
  <1>4. QED
    BY <1>1, <1>2, <1>3 DEF PrepareDestinationRule

LEMMA SnapshotIs ==
  ASSUME NEW r, StoredPolicy(r)
  PROVE  /\ Build(Loaded(r)).rules = Retained(LoadedRules(r))
         /\ Build(Loaded(r)).destinations = Retained(LoadedDestinations(r))
         /\ Build(Loaded(r)).global = r.global
  <1>1. Loaded(r).rules = LoadedRules(r) /\ Loaded(r).destinations = LoadedDestinations(r)
        /\ Loaded(r).global = r.global
    BY DEF Loaded, LoadedRules, LoadedDestinations
  <1>2. {PrepareRule(x) : x \in LoadedRules(r)} = LoadedRules(r)
    <2>1. \A x \in LoadedRules(r) : PrepareRule(x) = x
      BY LoadedRuleIsPrepared DEF LoadedRules, StoredPolicy
    <2>2. QED
      BY <2>1
  <1>3. {PrepareDestinationRule(x) : x \in LoadedDestinations(r)} = LoadedDestinations(r)
    <2>1. \A x \in LoadedDestinations(r) : PrepareDestinationRule(x) = x
      BY LoadedDestinationIsPrepared DEF LoadedDestinations, StoredPolicy
    <2>2. QED
      BY <2>1
  <1>4. QED
    BY <1>1, <1>2, <1>3 DEF Build

(* One row, one loaded rule *)
LEMMA LoadedTable ==
  ASSUME NEW r, StoredPolicy(r)
  PROVE  /\ IsFiniteSet(LoadedRules(r)) /\ UniqueIds(LoadedRules(r))
         /\ IsFiniteSet(LoadedDestinations(r)) /\ UniqueIds(LoadedDestinations(r))
  <1> DEFINE D == {x \in r.rules : LoadsRule(r, x)}
             T == {x \in r.destinations : LoadsDestination(r, x)}
  <1>1. IsFiniteSet(D) /\ IsFiniteSet(T)
    BY FS_Subset DEF StoredPolicy, IsTable
  <1>2. IsFiniteSet({LoadedRule(r, d) : d \in D}) /\ IsFiniteSet({LoadedDestination(r, d) : d \in T})
    <2>1. PICK f : f = [d \in D |-> LoadedRule(r, d)]
      OBVIOUS
    <2>2. PICK g : g = [d \in T |-> LoadedDestination(r, d)]
      OBVIOUS
    <2>3. IsFiniteSet({f[d] : d \in D}) /\ IsFiniteSet({g[d] : d \in T})
      BY <1>1, ImageIsFinite
    <2> HIDE DEF D, T
    <2>4. QED
      BY <2>1, <2>2, <2>3
  <1>3. UniqueIds({LoadedRule(r, d) : d \in D})
    <2>1. \A a, b \in D : a.id = b.id => a = b
      BY DEF StoredPolicy, IsTable
    <2>2. \A d \in D : LoadedRule(r, d).id = d.id
      BY DEF LoadedRule
    <2> HIDE DEF D
    <2>3. QED
      BY <2>1, <2>2 DEF UniqueIds
  <1>4. UniqueIds({LoadedDestination(r, d) : d \in T})
    <2>1. \A a, b \in T : a.id = b.id => a = b
      BY DEF StoredPolicy, IsTable
    <2>2. \A d \in T : LoadedDestination(r, d).id = d.id
      BY DEF LoadedDestination
    <2> HIDE DEF T
    <2>3. QED
      BY <2>1, <2>2 DEF UniqueIds
  <1>5. QED
    BY <1>2, <1>3, <1>4 DEF LoadedRules, LoadedDestinations

LEMMA SnapshotBuilt ==
  ASSUME NEW r, StoredPolicy(r), BuildAccepts(Loaded(r))
  PROVE  SnapshotOK(Build(Loaded(r)))
  <1> DEFINE D == Retained(LoadedRules(r))
             T == Retained(LoadedDestinations(r))
  <1>1. D \subseteq LoadedRules(r) /\ T \subseteq LoadedDestinations(r)
    BY DEF Retained
  <1>2. IsFiniteSet(D) /\ UniqueIds(D) /\ IsFiniteSet(T) /\ UniqueIds(T)
    BY <1>1, LoadedTable, FS_Subset DEF UniqueIds
  <1>3. /\ \A l \in LoadedRules(r) : DomainRuleValid(l)
        /\ \A l \in LoadedDestinations(r) : DestinationRuleValid(l)
    BY DEF BuildAccepts, Loaded, LoadedRules, LoadedDestinations
  <1>4. ASSUME NEW l \in LoadedRules(r) PROVE DomainRuleOK(l)
    <2>1. PICK d \in r.rules : l = LoadedRule(r, d)
      BY DEF LoadedRules
    <2>2. StoredDomainRule(d)
      BY DEF StoredPolicy
    <2>3. /\ l.id = d.id /\ l.effect = d.effect /\ l.scope = d.scope
          /\ l.subdomains = d.subdomains /\ l.domain = d.domain
      BY <2>1 DEF LoadedRule
    <2>4. EffectSourceValid(l.effect, l.source)
      BY <1>3 DEF DomainRuleValid, RuleClassValid
    <2>5. d.scope.type = "global" => d.scope = Global
      BY <2>2 DEF StoredDomainRule, Decides, IsScope, Networks
    <2>6. RuleOK(l)
      BY <2>2, <2>3, <2>4, <2>5 DEF RuleOK, StoredDomainRule, Decides
    <2>7. QED
      BY <2>2, <2>3, <2>6 DEF DomainRuleOK, StoredDomainRule, AsksForNames
  <1>5. ASSUME NEW l \in LoadedDestinations(r) PROVE DestinationRuleOK(l)
    <2>1. PICK d \in r.destinations : l = LoadedDestination(r, d)
      BY DEF LoadedDestinations
    <2>2. StoredDestinationRule(d)
      BY DEF StoredPolicy
    <2>3. /\ l.id = d.id /\ l.effect = d.effect /\ l.scope = d.scope
          /\ l.port = d.port /\ l.net = d.net
      BY <2>1 DEF LoadedDestination
    <2>4. EffectSourceValid(l.effect, l.source) /\ \A n \in l.net : n.prefix <= AddressBits
      BY <1>3 DEF DestinationRuleValid
    <2>5. d.scope.type = "global" => d.scope = Global
      BY <2>2 DEF StoredDestinationRule, Decides, IsScope, Networks
    <2>6. RuleOK(l)
      BY <2>2, <2>3, <2>4, <2>5 DEF RuleOK, StoredDestinationRule, Decides
    <2>7. d.port \in Nat /\ (d.net = {} \/ \E n \in d.net : d.net = {n} /\ IsNet(n))
      BY <2>2 DEF StoredDestinationRule, AsksForDestinations
    <2>8. NetShape(l)
      <3>1. CASE d.net = {}
        BY <2>3, <3>1 DEF NetShape
      <3>2. CASE d.net # {}
        <4>1. PICK n \in d.net : d.net = {n} /\ IsNet(n)
          BY <2>7, <3>2
        <4>2. n.prefix \in Nat /\ n.prefix <= AddressBits
          BY <2>3, <2>4, <4>1 DEF IsNet
        <4>3. QED
          BY <2>3, <4>1, <4>2, WidthAssumption DEF NetShape
      <3>3. QED
        BY <3>1, <3>2
    <2>9. QED
      BY <2>3, <2>6, <2>7, <2>8 DEF DestinationRuleOK
  <1>6. DomainRulesOK(D) /\ DestinationRulesOK(T)
    BY <1>1, <1>2, <1>4, <1>5 DEF DomainRulesOK, DestinationRulesOK
  <1>7. r.global \in {"enforce", "observe"}
    BY DEF StoredPolicy
  <1>8. SnapshotFields(Build(Loaded(r)))
    <2>1. PICK s : s = Build(Loaded(r))
      OBVIOUS
    <2>2. s = [rules |-> s.rules, destinations |-> s.destinations,
               global |-> s.global, scopes |-> s.scopes]
      BY <2>1 DEF Build
    <2>3. \A l \in LoadedRules(r) : DomainFields(l)
      BY DEF LoadedRules, LoadedRule, DomainFields
    <2>4. \A l \in LoadedDestinations(r) : DestinationFields(l)
      BY DEF LoadedDestinations, LoadedDestination, DestinationFields
    <2>5. s.rules \subseteq LoadedRules(r) /\ s.destinations \subseteq LoadedDestinations(r)
      BY <1>1, <2>1, SnapshotIs
    <2>6. QED
      BY <2>1, <2>2, <2>3, <2>4, <2>5 DEF SnapshotFields
  <1>9. QED
    BY <1>6, <1>7, <1>8, SnapshotIs DEF SnapshotOK

-----------------------------------------------------------------------------
(* Mutations leave a policy that can be stored *)

LEMMA FiniteMax ==
  ASSUME NEW S \in SUBSET Nat, IsFiniteSet(S), S # {}
  PROVE  Max(S) \in S /\ \A m \in S : m <= Max(S)
  <1> DEFINE Greatest(s, x) == x \in s /\ \A m \in s : m <= x
             Q == {s \in SUBSET S : s # {} => \E x \in s : Greatest(s, x)}
             Ch == Chosen(S)
  <1>1. Chooses(Ch, S)
    BY ChosenChooses
  <1>2. ASSUME NEW s \in SUBSET S, s # {}, s \ {Ch[s]} \in Q PROVE s \in Q
    <2>1. PICK c \in s : c = Ch[s]
      BY <1>1, <1>2 DEF Chooses
    <2>2. CASE s \ {c} = {}
      <3>1. s = {c}
        BY <2>1, <2>2
      <3>2. QED
        BY <3>1
    <2>3. CASE s \ {c} # {}
      <3>1. PICK x \in s \ {c} : Greatest(s \ {c}, x)
        BY <1>2, <2>1, <2>3
      <3>2. CASE c <= x
        BY <2>1, <3>1, <3>2
      <3>3. CASE x < c
        <4>1. \A m \in s : m <= c
          BY <2>1, <3>1, <3>3
        <4>2. QED
          BY <2>1, <4>1
      <3>4. QED
        BY <2>1, <3>1, <3>2, <3>3
    <2>4. QED
      BY <2>2, <2>3
  <1>3. Inductive(Q, Ch, S)
    BY <1>2 DEF Inductive
  <1>4. S \in Q
    <2> HIDE DEF Q, Ch
    <2>1. QED
      BY <1>1, <1>3, SubsetInduction
  <1>5. PICK x \in S : \A m \in S : x >= m
    BY <1>4
  <1>6. Max(S) \in S /\ \A m \in S : Max(S) >= m
    BY <1>5 DEF Max
  <1>7. QED
    BY <1>6

LEMMA RowIdIsNew ==
  ASSUME NEW table, IsFiniteSet(table), \A row \in table : row.id \in Nat
  PROVE  NextRowId(table) \in Nat \ {0} /\ \A row \in table : row.id < NextRowId(table)
  <1> DEFINE ids == {0} \cup {row.id : row \in table}
  <1>1. IsFiniteSet({row.id : row \in table})
    <2>1. PICK f : f = [row \in table |-> row.id]
      OBVIOUS
    <2>2. {f[row] : row \in table} = {row.id : row \in table}
      BY <2>1
    <2>3. QED
      BY <2>2, ImageIsFinite
  <1>2. ids \in SUBSET Nat /\ IsFiniteSet(ids) /\ ids # {}
    BY <1>1, FS_AddElement
  <1>3. Max(ids) \in ids /\ \A m \in ids : m <= Max(ids)
    <2> HIDE DEF ids
    <2>1. QED
      BY <1>2, FiniteMax
  <1>4. PICK top \in Nat : top = Max(ids)
    BY <1>2, <1>3
  <1>5. \A row \in table : row.id <= top
    BY <1>3, <1>4
  <1>6. NextRowId(table) = top + 1
    BY <1>4 DEF NextRowId
  <1>7. QED
    BY <1>5, <1>6

LEMMA TableWith ==
  ASSUME NEW table, IsTable(table), NEW some \in SUBSET table, NEW row,
         \A x \in some : x.id # row.id
  PROVE  IsTable(some \cup {row})
  <1>1. IsFiniteSet(some \cup {row})
    BY FS_Subset, FS_AddElement DEF IsTable
  <1>2. QED
    BY <1>1 DEF IsTable

LEMMA TablePart ==
  ASSUME NEW table, IsTable(table), NEW some \in SUBSET table
  PROVE  IsTable(some)
  BY FS_Subset DEF IsTable

(* A row of a request that was found valid *)
LEMMA DomainRowStored ==
  ASSUME NEW id \in Nat \ {0}, NEW sid, NEW q \in DomainRequests,
         ScopeValid(DomainRow(id, sid, q).scope)
  PROVE  StoredDomainRule(DomainRow(id, sid, q))
  <1>1. Decides(q) /\ AsksForNames(q)
    BY PolicyAssumption
  <1>2. DomainRow(id, sid, q).scope = ScopeNormalize(q.scope)
    BY DEF DomainRow
  <1>3. /\ IsScope(ScopeNormalize(q.scope))
        /\ ScopeNormalize(ScopeNormalize(q.scope)) = ScopeNormalize(q.scope)
    BY <1>1, <1>2, ScopeNormal DEF Decides
  <1>4. QED
    BY <1>1, <1>3 DEF StoredDomainRule, DomainRow, Decides, AsksForNames

LEMMA DestinationRowStored ==
  ASSUME NEW id \in Nat \ {0}, NEW sid, NEW q \in DestinationRequests,
         DestinationRuleValid(DestinationRow(id, sid, q))
  PROVE  StoredDestinationRule(DestinationRow(id, sid, q))
  <1>1. Decides(q) /\ AsksForDestinations(q)
    BY PolicyAssumption
  <1>2. PICK net : net = {AddressNormalize(n) : n \in q.net}
    OBVIOUS
  <1>3. PICK row : row = DestinationRow(id, sid, q)
    OBVIOUS
  <1>4. row.scope = ScopeNormalize(q.scope) /\ row.net = net
    BY <1>2, <1>3 DEF DestinationRow
  <1>5. ScopeValid(row.scope) /\ \A n \in net : n.prefix <= AddressBits
    BY <1>3, <1>4 DEF DestinationRuleValid
  <1>6. IsScope(row.scope) /\ ScopeNormalize(row.scope) = row.scope
    BY <1>1, <1>4, <1>5, ScopeNormal DEF Decides
  <1>7. q.net = {} \/ \E n \in q.net : q.net = {n} /\ IsNet(n)
    BY <1>1 DEF AsksForDestinations
  <1>8. /\ net = {} \/ \E n \in net : net = {n} /\ IsNet(n)
        /\ {AddressNormalize(n) : n \in net} = net
    BY <1>2, <1>5, <1>7, NetNormal
  <1>9. /\ row = [id |-> row.id, sid |-> row.sid, source |-> row.source, group |-> row.group,
                  enabled |-> row.enabled, effect |-> row.effect,
                  enforcement |-> row.enforcement, transport |-> row.transport,
                  port |-> row.port, net |-> row.net, scope |-> row.scope]
        /\ row.id = id /\ row.effect = q.effect /\ row.enforcement = q.enforcement
        /\ row.enabled = q.enabled /\ row.port = q.port
    BY <1>3 DEF DestinationRow
  <1>10. QED
    BY <1>1, <1>3, <1>4, <1>6, <1>8, <1>9
       DEF StoredDestinationRule, Decides, AsksForDestinations

(* The tables that a mutation does not change stay as they are. *)
LEMMA RulesStored ==
  ASSUME NEW r, StoredPolicy(r), NEW rules, IsTable(rules),
         \A row \in rules : StoredDomainRule(row)
  PROVE  StoredPolicy([r EXCEPT !.rules = rules])
  BY DEF StoredPolicy

LEMMA DestinationsStored ==
  ASSUME NEW r, StoredPolicy(r), NEW destinations, IsTable(destinations),
         \A row \in destinations : StoredDestinationRule(row)
  PROVE  StoredPolicy([r EXCEPT !.destinations = destinations])
  BY DEF StoredPolicy

LEMMA OthersStored ==
  ASSUME NEW r, StoredPolicy(r), NEW x
  PROVE  /\ StoredPolicy([r EXCEPT !.groups = x]) /\ StoredPolicy([r EXCEPT !.lists = x])
         /\ StoredPolicy([r EXCEPT !.modes = x]) /\ StoredPolicy([r EXCEPT !.config = x])
         /\ x \in {"enforce", "observe"} => StoredPolicy([r EXCEPT !.global = x])
  BY DEF StoredPolicy

LEMMA CreatedDomainRule ==
  ASSUME NEW r, StoredPolicy(r), NEW sid, NEW q \in DomainRequests,
         DomainRuleValid(DomainRow(NextRowId(r.rules), sid, q))
  PROVE  StoredPolicy(InsertedDomainRule(r, DomainRow(NextRowId(r.rules), sid, q)))
  <1>1. IsTable(r.rules) /\ \A x \in r.rules : StoredDomainRule(x) /\ x.id \in Nat
    BY DEF StoredPolicy, StoredDomainRule
  <1>2. PICK id \in Nat \ {0} : id = NextRowId(r.rules) /\ \A x \in r.rules : x.id < id
    BY <1>1, RowIdIsNew DEF IsTable
  <1>3. PICK row : row = DomainRow(id, sid, q)
    OBVIOUS
  <1>4. StoredDomainRule(row) /\ row.id = id
    BY <1>2, <1>3, DomainRowStored DEF DomainRuleValid, DomainRow
  <1>5. \A x \in r.rules : x.id # row.id
    BY <1>1, <1>2, <1>4
  <1>6. IsTable(r.rules \cup {row})
    BY <1>1, <1>5, TableWith
  <1>7. InsertedDomainRule(r, row) = [r EXCEPT !.rules = r.rules \cup {row}]
    BY DEF InsertedDomainRule
  <1>8. PICK table : table = r.rules \cup {row}
    OBVIOUS
  <1>9. StoredPolicy([r EXCEPT !.rules = table])
    <2>1. IsTable(table) /\ \A x \in table : StoredDomainRule(x)
      BY <1>1, <1>4, <1>6, <1>8
    <2>2. QED
      BY <2>1, RulesStored
  <1>10. QED
    BY <1>2, <1>3, <1>7, <1>8, <1>9

LEMMA CreatedDestinationRule ==
  ASSUME NEW r, StoredPolicy(r), NEW sid, NEW q \in DestinationRequests,
         DestinationRuleValid(DestinationRow(NextRowId(r.destinations), sid, q))
  PROVE  StoredPolicy(InsertedDestinationRule(r, DestinationRow(NextRowId(r.destinations), sid, q)))
  <1>1. IsTable(r.destinations)
        /\ \A x \in r.destinations : StoredDestinationRule(x) /\ x.id \in Nat
    BY DEF StoredPolicy, StoredDestinationRule
  <1>2. PICK id \in Nat \ {0} : id = NextRowId(r.destinations) /\ \A x \in r.destinations : x.id < id
    BY <1>1, RowIdIsNew DEF IsTable
  <1>3. PICK row : row = DestinationRow(id, sid, q)
    OBVIOUS
  <1>4. StoredDestinationRule(row) /\ row.id = id
    BY <1>2, <1>3, DestinationRowStored DEF DestinationRow
  <1>5. \A x \in r.destinations : x.id # row.id
    BY <1>1, <1>2, <1>4
  <1>6. IsTable(r.destinations \cup {row})
    BY <1>1, <1>5, TableWith
  <1>7. InsertedDestinationRule(r, row) = [r EXCEPT !.destinations = r.destinations \cup {row}]
    BY DEF InsertedDestinationRule
  <1>8. PICK table : table = r.destinations \cup {row}
    OBVIOUS
  <1>9. StoredPolicy([r EXCEPT !.destinations = table])
    <2>1. IsTable(table) /\ \A x \in table : StoredDestinationRule(x)
      BY <1>1, <1>4, <1>6, <1>8
    <2>2. QED
      BY <2>1, DestinationsStored
  <1>10. QED
    BY <1>2, <1>3, <1>7, <1>8, <1>9

(* The row of an edit is the request's, with one identity or another. *)
LEMMA ReplacementIs ==
  ASSUME NEW current, NEW q, NEW serial
  PROVE  \E sid \in {current.sid, RandomIdentity(serial)} :
           /\ ReplacementDomainRule(current, q, serial) = DomainRow(current.id, sid, q)
           /\ sid = current.sid <=>
                ReplacementDomainRule(current, q, serial).sid = current.sid
  <1>1. PICK new : new = RandomIdentity(serial)
    OBVIOUS
  <1>2. /\ [DomainRow(current.id, current.sid, q) EXCEPT !.sid = new] = DomainRow(current.id, new, q)
        /\ DomainRow(current.id, current.sid, q).sid = current.sid
        /\ DomainRow(current.id, new, q).sid = new
    BY DEF DomainRow
  <1>3. CASE DomainSemanticsEqual(current, DomainRow(current.id, current.sid, q))
    <2>1. ReplacementDomainRule(current, q, serial) = DomainRow(current.id, current.sid, q)
      BY <1>3 DEF ReplacementDomainRule
    <2>2. QED
      BY <1>2, <2>1
  <1>4. CASE ~ DomainSemanticsEqual(current, DomainRow(current.id, current.sid, q))
    <2>1. ReplacementDomainRule(current, q, serial) = DomainRow(current.id, new, q)
      BY <1>1, <1>2, <1>4 DEF ReplacementDomainRule
    <2>2. QED
      BY <1>1, <1>2, <2>1
  <1>5. QED
    BY <1>3, <1>4

LEMMA ReplacementDestinationIs ==
  ASSUME NEW current, NEW q, NEW serial
  PROVE  \E sid \in {current.sid, RandomIdentity(serial)} :
           /\ ReplacementDestinationRule(current, q, serial) = DestinationRow(current.id, sid, q)
           /\ sid = current.sid <=>
                ReplacementDestinationRule(current, q, serial).sid = current.sid
  <1>1. PICK new : new = RandomIdentity(serial)
    OBVIOUS
  <1>2. /\ [DestinationRow(current.id, current.sid, q) EXCEPT !.sid = new]
             = DestinationRow(current.id, new, q)
        /\ DestinationRow(current.id, current.sid, q).sid = current.sid
        /\ DestinationRow(current.id, new, q).sid = new
    <2>1. PICK net : net = {AddressNormalize(n) : n \in q.net}
      OBVIOUS
    <2>2. PICK scope : scope = ScopeNormalize(q.scope)
      OBVIOUS
    <2>3. PICK old : old = current.sid
      OBVIOUS
    <2> DEFINE Row(sid) == [id |-> current.id, sid |-> sid, source |-> "explicit",
                            group |-> q.group, enabled |-> q.enabled, effect |-> q.effect,
                            enforcement |-> q.enforcement, transport |-> q.transport,
                            port |-> q.port, net |-> net, scope |-> scope]
    <2>4. DestinationRow(current.id, old, q) = Row(old) /\ DestinationRow(current.id, new, q) = Row(new)
      BY <2>1, <2>2 DEF DestinationRow
    <2>5. [Row(old) EXCEPT !.sid = new] = Row(new) /\ Row(old).sid = old /\ Row(new).sid = new
      OBVIOUS
    <2>6. QED
      BY <2>3, <2>4, <2>5, Zenon
  <1>3. CASE DestinationSemanticsEqual(current, DestinationRow(current.id, current.sid, q))
    <2>1. ReplacementDestinationRule(current, q, serial)
            = DestinationRow(current.id, current.sid, q)
      BY <1>3 DEF ReplacementDestinationRule
    <2>2. QED
      BY <1>2, <2>1
  <1>4. CASE ~ DestinationSemanticsEqual(current, DestinationRow(current.id, current.sid, q))
    <2>1. ReplacementDestinationRule(current, q, serial) = DestinationRow(current.id, new, q)
      BY <1>1, <1>2, <1>4 DEF ReplacementDestinationRule
    <2>2. QED
      BY <1>1, <1>2, <2>1
  <1>5. QED
    BY <1>3, <1>4

LEMMA UpdatedDomainRuleStored ==
  ASSUME NEW r, StoredPolicy(r), NEW current \in r.rules, NEW q \in DomainRequests, NEW sid,
         DomainRuleValid(DomainRow(current.id, sid, q))
  PROVE  StoredPolicy(UpdatedDomainRule(r, DomainRow(current.id, sid, q)))
  <1>1. IsTable(r.rules) /\ \A x \in r.rules : StoredDomainRule(x) /\ x.id \in Nat \ {0}
    BY DEF StoredPolicy, StoredDomainRule
  <1>2. PICK row : row = DomainRow(current.id, sid, q)
    OBVIOUS
  <1>3. StoredDomainRule(row) /\ row.id = current.id
    BY <1>1, <1>2, DomainRowStored DEF DomainRuleValid, DomainRow
  <1>4. PICK others \in SUBSET r.rules : others = Without(r.rules, row.id)
    BY DEF Without
  <1>5. IsTable(others \cup {row})
    BY <1>1, <1>4, TableWith DEF Without
  <1>6. UpdatedDomainRule(r, row) = [r EXCEPT !.rules = others \cup {row}]
    BY <1>4 DEF UpdatedDomainRule
  <1>7. PICK table : table = others \cup {row}
    OBVIOUS
  <1>8. StoredPolicy([r EXCEPT !.rules = table])
    <2>1. IsTable(table) /\ \A x \in table : StoredDomainRule(x)
      BY <1>1, <1>3, <1>4, <1>5, <1>7
    <2>2. QED
      BY <2>1, RulesStored
  <1>9. QED
    BY <1>2, <1>6, <1>7, <1>8

LEMMA UpdatedDestinationRuleStored ==
  ASSUME NEW r, StoredPolicy(r), NEW current \in r.destinations, NEW q \in DestinationRequests,
         NEW sid, DestinationRuleValid(DestinationRow(current.id, sid, q))
  PROVE  StoredPolicy(UpdatedDestinationRule(r, DestinationRow(current.id, sid, q)))
  <1>1. IsTable(r.destinations)
        /\ \A x \in r.destinations : StoredDestinationRule(x) /\ x.id \in Nat \ {0}
    BY DEF StoredPolicy, StoredDestinationRule
  <1>2. PICK row : row = DestinationRow(current.id, sid, q)
    OBVIOUS
  <1>3. StoredDestinationRule(row) /\ row.id = current.id
    BY <1>1, <1>2, DestinationRowStored DEF DestinationRow
  <1>4. PICK others \in SUBSET r.destinations : others = Without(r.destinations, row.id)
    BY DEF Without
  <1>5. IsTable(others \cup {row})
    BY <1>1, <1>4, TableWith DEF Without
  <1>6. UpdatedDestinationRule(r, row) = [r EXCEPT !.destinations = others \cup {row}]
    BY <1>4 DEF UpdatedDestinationRule
  <1>7. PICK table : table = others \cup {row}
    OBVIOUS
  <1>8. StoredPolicy([r EXCEPT !.destinations = table])
    <2>1. IsTable(table) /\ \A x \in table : StoredDestinationRule(x)
      BY <1>1, <1>3, <1>4, <1>5, <1>7
    <2>2. QED
      BY <2>1, DestinationsStored
  <1>9. QED
    BY <1>2, <1>6, <1>7, <1>8

LEMMA PartStored ==
  ASSUME NEW r, StoredPolicy(r), NEW rules \in SUBSET r.rules,
         NEW destinations \in SUBSET r.destinations
  PROVE  /\ StoredPolicy([r EXCEPT !.rules = rules])
         /\ StoredPolicy([r EXCEPT !.destinations = destinations])
  <1>1. IsTable(rules) /\ IsTable(destinations)
    BY TablePart DEF StoredPolicy
  <1>2. QED
    BY <1>1, RulesStored, DestinationsStored DEF StoredPolicy

LEMMA DeletedGroupStored ==
  ASSUME NEW r, StoredPolicy(r), NEW group
  PROVE  StoredPolicy(DeletedGroup(r, group))
  <1>1. PICK rules \in SUBSET r.rules : rules = {d \in r.rules : d.group # group}
    OBVIOUS
  <1>2. PICK destinations \in SUBSET r.destinations :
          destinations = {d \in r.destinations : d.group # group}
    OBVIOUS
  <1>3. PICK groups : groups = Without(r.groups, group)
    OBVIOUS
  <1>4. PICK r1 : r1 = [r EXCEPT !.groups = groups]
    OBVIOUS
  <1>5. PICK r2 : r2 = [r1 EXCEPT !.rules = rules]
    OBVIOUS
  <1>6. StoredPolicy(r1) /\ r1.rules = r.rules /\ r1.destinations = r.destinations
    BY <1>4, OthersStored DEF StoredPolicy
  <1>7. StoredPolicy(r2) /\ r2.destinations = r.destinations
    BY <1>5, <1>6, PartStored DEF StoredPolicy
  <1>8. StoredPolicy([r2 EXCEPT !.destinations = destinations])
    BY <1>7, PartStored
  <1>9. DeletedGroup(r, group) = [r2 EXCEPT !.destinations = destinations]
    BY <1>1, <1>2, <1>3, <1>4, <1>5 DEF DeletedGroup, StoredPolicy
  <1>10. QED
    BY <1>8, <1>9

LEMMA DeletedListStored ==
  ASSUME NEW r, StoredPolicy(r), NEW list
  PROVE  StoredPolicy(DeletedList(r, list))
  <1>1. PICK rules \in SUBSET r.rules : rules = {d \in r.rules : d.list # list}
    OBVIOUS
  <1>2. PICK lists : lists = Without(r.lists, list)
    OBVIOUS
  <1>3. PICK r1 : r1 = [r EXCEPT !.lists = lists]
    OBVIOUS
  <1>4. StoredPolicy(r1) /\ r1.rules = r.rules
    BY <1>3, OthersStored DEF StoredPolicy
  <1>5. StoredPolicy([r1 EXCEPT !.rules = rules])
    BY <1>4, PartStored
  <1>6. DeletedList(r, list) = [r1 EXCEPT !.rules = rules]
    BY <1>1, <1>2, <1>3 DEF DeletedList, StoredPolicy
  <1>7. QED
    BY <1>5, <1>6

LEMMA EntryStored ==
  ASSUME NEW id \in Nat \ {0}, NEW sid, NEW list, NEW name, IsName(name)
  PROVE  StoredDomainRule(EntryRow(id, sid, list, name))
  <1>1. ScopeNormalize(Global) = Global /\ IsScope(Global)
    BY DEF ScopeNormalize, Global, IsScope, Networks
  <1>2. QED
    BY <1>1 DEF StoredDomainRule, EntryRow, Decides, AsksForNames

(* The rows of a source that was refreshed *)
Entry(r, list, names, i) ==
  EntryRow(NextRowId({d \in r.rules : d.list # list}) + i - 1,
           EntryIdentity(r.rules, list, names[i]), list, names[i])

Entries(r, list, names) == {Entry(r, list, names, i) : i \in DOMAIN names}

LEMMA ActivatedIs ==
  ASSUME NEW r, NEW list, NEW names
  PROVE  ActivatedList(r, list, names) =
           [r EXCEPT !.rules = {d \in r.rules : d.list # list} \cup Entries(r, list, names)]
  BY DEF ActivatedList, Entries, Entry

LEMMA ActivatedStored ==
  ASSUME NEW r, StoredPolicy(r), NEW list, NEW names \in ListContents
  PROVE  StoredPolicy(ActivatedList(r, list, names))
  <1>1. PICK others \in SUBSET r.rules : others = {d \in r.rules : d.list # list}
    OBVIOUS
  <1>2. IsTable(others) /\ \A d \in others : StoredDomainRule(d) /\ d.id \in Nat
    BY TablePart DEF StoredPolicy, StoredDomainRule
  <1>3. PICK base \in Nat \ {0} : base = NextRowId(others) /\ \A d \in others : d.id < base
    BY <1>2, RowIdIsNew DEF IsTable
  <1>4. /\ names \in Seq(Range(names)) /\ \A i \in DOMAIN names : IsName(names[i])
    BY PolicyAssumption
  <1>5. PICK n \in Nat : DOMAIN names = 1 .. n
    BY <1>4
  <1>6. \A i \in 1 .. n : StoredDomainRule(Entry(r, list, names, i))
                          /\ Entry(r, list, names, i).id = base + i - 1
    <2> SUFFICES ASSUME NEW i \in 1 .. n
                 PROVE  StoredDomainRule(Entry(r, list, names, i))
                        /\ Entry(r, list, names, i).id = base + i - 1
      OBVIOUS
    <2>1. base + i - 1 \in Nat \ {0}
      OBVIOUS
    <2>2. PICK sid : sid = EntryIdentity(r.rules, list, names[i])
      OBVIOUS
    <2>3. PICK id \in Nat \ {0}, name \in {names[i]} : id = base + i - 1
      BY <2>1
    <2>4. Entry(r, list, names, i) = EntryRow(id, sid, list, name)
      BY <1>1, <1>3, <2>2, <2>3 DEF Entry
    <2>5. IsName(name)
      BY <1>4, <1>5
    <2>6. StoredDomainRule(EntryRow(id, sid, list, name)) /\ EntryRow(id, sid, list, name).id = id
      BY <2>5, EntryStored DEF EntryRow
    <2>7. QED
      BY <2>3, <2>4, <2>6
  <1>7. IsFiniteSet(Entries(r, list, names))
    <2>1. PICK f : f = [i \in 1 .. n |-> Entry(r, list, names, i)]
      OBVIOUS
    <2>2. Entries(r, list, names) = {f[i] : i \in 1 .. n}
      BY <1>5, <2>1 DEF Entries
    <2>3. IsFiniteSet(1 .. n)
      BY FS_Interval
    <2>4. QED
      BY <2>2, <2>3, ImageIsFinite
  <1>8. PICK entries : entries = Entries(r, list, names)
    OBVIOUS
  <1>9. ASSUME NEW a \in entries, NEW b \in entries, a.id = b.id PROVE a = b
    <2>1. PICK i \in 1 .. n : a = Entry(r, list, names, i)
      BY <1>5, <1>8 DEF Entries
    <2>2. PICK j \in 1 .. n : b = Entry(r, list, names, j)
      BY <1>5, <1>8 DEF Entries
    <2>3. base + i - 1 = base + j - 1
      BY <1>6, <1>9, <2>1, <2>2
    <2>4. QED
      BY <2>1, <2>2, <2>3
  <1>10. \A a \in others, b \in entries : a.id # b.id /\ StoredDomainRule(b)
    <2> SUFFICES ASSUME NEW a \in others, NEW b \in entries PROVE a.id # b.id /\ StoredDomainRule(b)
      OBVIOUS
    <2>1. PICK i \in 1 .. n : b = Entry(r, list, names, i)
      BY <1>5, <1>8 DEF Entries
    <2>2. b.id = base + i - 1 /\ StoredDomainRule(b) /\ a.id < base /\ a.id \in Nat
      BY <1>2, <1>3, <1>6, <2>1
    <2>3. QED
      BY <2>2
  <1>11. \A b \in entries : StoredDomainRule(b)
    BY <1>5, <1>6, <1>8 DEF Entries
  <1>12. PICK table : table = others \cup entries
    OBVIOUS
  <1>13. IsTable(table)
    <2>1. IsFiniteSet(table)
      BY <1>2, <1>7, <1>8, <1>12, FS_Union DEF IsTable
    <2>2. \A a, b \in table : a.id = b.id => a = b
      BY <1>2, <1>9, <1>10, <1>12 DEF IsTable
    <2>3. QED
      BY <2>1, <2>2 DEF IsTable
  <1>14. StoredPolicy([r EXCEPT !.rules = table])
    BY <1>2, <1>11, <1>12, <1>13, RulesStored
  <1>15. QED
    BY <1>1, <1>8, <1>12, <1>14, ActivatedIs

-----------------------------------------------------------------------------
(* The policy and its snapshot *)

(* What is stored may be stored, the snapshot is one that was built, and   *)
(* it is the one of what is stored unless a publication failed.            *)
PolicyInv ==
  /\ StoredPolicy(rows) /\ SnapshotOK(active)
  /\ ~suspended => active = Build(Loaded(rows)) /\ BuildAccepts(Loaded(rows))

(* The mutations of the tables of the policy *)
Mutation ==
  \/ CreateDomainRule \/ UpdateDomainRule \/ DeleteDomainRule
  \/ CreateDestinationRule \/ UpdateDestinationRule \/ DeleteDestinationRule
  \/ CreateGroup \/ UpdateGroup \/ DeleteGroup
  \/ CreateScopeMode \/ UpdateScopeMode \/ DeleteScopeMode \/ SetGlobalMode
  \/ CreateList \/ UpdateList \/ DeleteList \/ ActivateList

PublishesStored == \E r, h, k : StoredPolicy(r) /\ Publish(r, h, k)

LEMMA DomainMutations ==
  ASSUME StoredPolicy(rows), CreateDomainRule \/ UpdateDomainRule \/ DeleteDomainRule
  PROVE  PublishesStored
  <1>1. CASE CreateDomainRule
    <2>1. PICK q \in DomainRequests :
            LET row == DomainRow(NextRowId(rows.rules), RandomIdentity(bounds.serial), q)
            IN  DomainRuleValid(row) /\ Publish(InsertedDomainRule(rows, row), history, 1)
      BY <1>1 DEF CreateDomainRule
    <2>2. QED
      BY <2>1, CreatedDomainRule DEF PublishesStored
  <1>2. CASE UpdateDomainRule
    <2>1. PICK current \in rows.rules, q \in DomainRequests :
            LET row == ReplacementDomainRule(current, q, bounds.serial)
            IN  /\ DomainRuleValid(row)
                /\ Publish(UpdatedDomainRule(rows, row),
                           IF row.sid = current.sid THEN history
                           ELSE DeleteRuleStatistics(history, "domain", current.sid),
                           IF row.sid = current.sid THEN 0 ELSE 1)
      BY <1>2 DEF UpdateDomainRule
    <2>2. PICK sid : ReplacementDomainRule(current, q, bounds.serial)
                       = DomainRow(current.id, sid, q)
      BY ReplacementIs
    <2>3. PICK row : row = ReplacementDomainRule(current, q, bounds.serial)
      OBVIOUS
    <2>4. StoredPolicy(UpdatedDomainRule(rows, row))
      BY <2>1, <2>2, <2>3, UpdatedDomainRuleStored
    <2>5. \E h, k : Publish(UpdatedDomainRule(rows, row), h, k)
      BY <2>1, <2>3
    <2>6. QED
      BY <2>4, <2>5 DEF PublishesStored
  <1>3. CASE DeleteDomainRule
    <2>1. PICK row \in rows.rules :
            Publish(DeletedDomainRule(rows, row),
                    DeleteRuleStatistics(history, "domain", row.sid), 0)
      BY <1>3 DEF DeleteDomainRule
    <2>2. PICK left \in SUBSET rows.rules : left = rows.rules \ {row}
      OBVIOUS
    <2>3. DeletedDomainRule(rows, row) = [rows EXCEPT !.rules = left]
      BY <2>2 DEF DeletedDomainRule
    <2>4. StoredPolicy([rows EXCEPT !.rules = left])
      BY PartStored
    <2>5. QED
      BY <2>1, <2>3, <2>4 DEF PublishesStored
  <1>4. QED
    BY <1>1, <1>2, <1>3

LEMMA DestinationMutations ==
  ASSUME StoredPolicy(rows),
         CreateDestinationRule \/ UpdateDestinationRule \/ DeleteDestinationRule
  PROVE  PublishesStored
  <1>1. CASE CreateDestinationRule
    <2>1. PICK q \in DestinationRequests :
            LET row == DestinationRow(NextRowId(rows.destinations),
                                      RandomIdentity(bounds.serial), q)
            IN  /\ DestinationRuleValid(row)
                /\ Publish(InsertedDestinationRule(rows, row), history, 1)
      BY <1>1 DEF CreateDestinationRule
    <2>2. QED
      BY <2>1, CreatedDestinationRule DEF PublishesStored
  <1>2. CASE UpdateDestinationRule
    <2>1. PICK current \in rows.destinations, q \in DestinationRequests :
            LET row == ReplacementDestinationRule(current, q, bounds.serial)
            IN  /\ DestinationRuleValid(row)
                /\ Publish(UpdatedDestinationRule(rows, row),
                           IF row.sid = current.sid THEN history
                           ELSE DeleteRuleStatistics(history, "destination", current.sid),
                           IF row.sid = current.sid THEN 0 ELSE 1)
      BY <1>2 DEF UpdateDestinationRule
    <2>2. PICK sid : ReplacementDestinationRule(current, q, bounds.serial)
                       = DestinationRow(current.id, sid, q)
      BY ReplacementDestinationIs
    <2>3. PICK row : row = ReplacementDestinationRule(current, q, bounds.serial)
      OBVIOUS
    <2>4. StoredPolicy(UpdatedDestinationRule(rows, row))
      BY <2>1, <2>2, <2>3, UpdatedDestinationRuleStored
    <2>5. \E h, k : Publish(UpdatedDestinationRule(rows, row), h, k)
      BY <2>1, <2>3
    <2>6. QED
      BY <2>4, <2>5 DEF PublishesStored
  <1>3. CASE DeleteDestinationRule
    <2>1. PICK row \in rows.destinations :
            Publish(DeletedDestinationRule(rows, row),
                    DeleteRuleStatistics(history, "destination", row.sid), 0)
      BY <1>3 DEF DeleteDestinationRule
    <2>2. PICK left \in SUBSET rows.destinations : left = rows.destinations \ {row}
      OBVIOUS
    <2>3. DeletedDestinationRule(rows, row) = [rows EXCEPT !.destinations = left]
      BY <2>2 DEF DeletedDestinationRule
    <2>4. StoredPolicy([rows EXCEPT !.destinations = left])
      BY PartStored
    <2>5. QED
      BY <2>1, <2>3, <2>4 DEF PublishesStored
  <1>4. QED
    BY <1>1, <1>2, <1>3

LEMMA OtherMutations ==
  ASSUME StoredPolicy(rows),
         \/ CreateGroup \/ UpdateGroup \/ DeleteGroup
         \/ CreateScopeMode \/ UpdateScopeMode \/ DeleteScopeMode \/ SetGlobalMode
         \/ CreateList \/ UpdateList \/ DeleteList \/ ActivateList
  PROVE  PublishesStored
  <1>1. CASE CreateGroup
    BY <1>1, OthersStored DEF CreateGroup, InsertedGroup, PublishesStored
  <1>2. CASE UpdateGroup
    BY <1>2, OthersStored DEF UpdateGroup, UpdatedGroup, PublishesStored
  <1>3. CASE DeleteGroup
    BY <1>3, DeletedGroupStored DEF DeleteGroup, PublishesStored
  <1>4. CASE CreateScopeMode
    BY <1>4, OthersStored DEF CreateScopeMode, InsertedMode, PublishesStored
  <1>5. CASE UpdateScopeMode
    BY <1>5, OthersStored DEF UpdateScopeMode, UpdatedMode, PublishesStored
  <1>6. CASE DeleteScopeMode
    BY <1>6, OthersStored DEF DeleteScopeMode, DeletedMode, PublishesStored
  <1>7. CASE SetGlobalMode
    BY <1>7, OthersStored DEF SetGlobalMode, PublishesStored
  <1>8. CASE CreateList
    BY <1>8, OthersStored DEF CreateList, InsertedList, PublishesStored
  <1>9. CASE UpdateList
    BY <1>9, OthersStored DEF UpdateList, UpdatedList, PublishesStored
  <1>10. CASE DeleteList
    BY <1>10, DeletedListStored DEF DeleteList, PublishesStored
  <1>11. CASE ActivateList
    BY <1>11, ActivatedStored DEF ActivateList, PublishesStored
  <1>12. QED
    BY <1>1, <1>2, <1>3, <1>4, <1>5, <1>6, <1>7, <1>8, <1>9, <1>10, <1>11

LEMMA PolicyInvInit ==
  ASSUME Init
  PROVE  PolicyInv
  <1>1. PICK s \in Scenarios :
          rows = s.rows /\ active = Build(Loaded(s.rows)) /\ suspended = FALSE
    BY DEF Init
  <1>2. StoredPolicy(s.rows) /\ BuildAccepts(Loaded(s.rows))
    BY PolicyAssumption
  <1>3. QED
    BY <1>1, <1>2, SnapshotBuilt DEF PolicyInv

LEMMA PolicyInvStep ==
  ASSUME PolicyInv, [Next]_vars
  PROVE  PolicyInv'
  <1>1. StoredPolicy(rows) /\ SnapshotOK(active)
    BY DEF PolicyInv
  <1>2. CASE PublishesStored
    <2>1. PICK r, h, k : StoredPolicy(r) /\ Publish(r, h, k)
      BY <1>2 DEF PublishesStored
    <2>2. rows' = r
      BY <2>1 DEF Publish
    <2>3. \/ BuildAccepts(Loaded(r)) /\ active' = Build(Loaded(r)) /\ suspended' = FALSE
          \/ suspended' = TRUE /\ active' = active
      BY <2>1 DEF Publish
    <2>4. QED
      BY <1>1, <2>1, <2>2, <2>3, SnapshotBuilt DEF PolicyInv
  <1>3. CASE Reload
    <2>1. /\ BuildAccepts(Loaded(rows)) /\ active' = Build(Loaded(rows)) /\ rows' = rows
      BY <1>3 DEF Reload
    <2>2. QED
      BY <1>1, <2>1, SnapshotBuilt DEF PolicyInv
  <1>4. CASE rows' = rows /\ UNCHANGED <<active, suspended>>
    BY <1>4 DEF PolicyInv
  <1>5. CASE UpdateStatsConfig
    <2>1. PICK config : rows' = [rows EXCEPT !.config = config]
      BY <1>5 DEF UpdateStatsConfig
    <2>2. UNCHANGED <<active, suspended>>
      BY <1>5 DEF UpdateStatsConfig
    <2>3. StoredPolicy(rows')
      BY <1>1, <2>1, OthersStored
    <2>4. Loaded(rows') = Loaded(rows)
      BY <1>1, <2>1 DEF StoredPolicy, Loaded, LoadedRule, LoadedDestination, LoadsRule,
         LoadsDestination,
                        ListObserves, GroupObserves, InEnabledGroup, ObservedScopes
    <2>5. QED
      BY <2>2, <2>3, <2>4 DEF PolicyInv
  <1>6. CASE Next
    <2>1. \/ Mutation \/ Reload \/ UpdateStatsConfig
          \/ CountRequest \/ Hour \/ AutomaticCleanup \/ CleanupRequest
      BY <1>6 DEF Next, Mutation
    <2>2. Mutation => PublishesStored
      BY <1>1, DomainMutations, DestinationMutations, OtherMutations DEF Mutation
    <2>3. CountRequest \/ Hour \/ AutomaticCleanup \/ CleanupRequest
            => rows' = rows /\ UNCHANGED <<active, suspended>>
      BY DEF CountRequest, Hour, AutomaticCleanup, CleanupRequest
    <2>4. QED
      BY <1>2, <1>3, <1>4, <1>5, <2>1, <2>2, <2>3
  <1>7. CASE UNCHANGED vars
    BY <1>4, <1>7 DEF vars
  <1>8. QED
    BY <1>6, <1>7

(* Every mutation leaves tables that the schema allows, and the published  *)
(* snapshot is one that was built; unless a publication failed it is the   *)
(* snapshot of what is stored (management_publish_policy_change,           *)
(* jg_database_load_policy_snapshot).                                      *)
THEOREM PolicyInvHolds == Spec => []PolicyInv
  <1>1. Init => PolicyInv
    BY PolicyInvInit
  <1>2. PolicyInv /\ [Next]_vars => PolicyInv'
    BY PolicyInvStep
  <1>3. QED
    BY <1>1, <1>2, PTL DEF Spec

-----------------------------------------------------------------------------
(* Decisions *)

(* Among rules of one effect or the other, those that are enforced are the *)
(* allow rules and the blocks that nothing observes.                       *)
LEMMA EnforcedIs ==
  ASSUME SnapshotOK(active), NEW r, RuleOK(r), NEW client
  PROVE  Enforced(active, r, client) <=> r.effect = "allow" \/ Blocks(r, client)
  <1>1. active.global \in {"enforce", "observe"} /\ r.effect \in {"allow", "block"}
    BY DEF SnapshotOK, RuleOK
  <1>2. QED
    BY <1>1 DEF Enforced, Blocks, ClientIsObserved

LEMMA PrecedenceInSnapshot ==
  ASSUME SnapshotOK(active)
  PROVE  DecisionFollowsPrecedence
  <1>1. ASSUME NEW client \in Clients, NEW name \in Names, NEW target \in {"dns", "tls_sni"}
        PROVE  LET match == MatchDomain(active, name, client, target)
                   rules == {r \in active.rules :
                               r.target = target /\ NameMatches(r, name)
                               /\ ScopeMatches(r.scope, client)}
               IN  /\ IsDomainChoice(match.selected, rules)
                   /\ IsDomainChoice(match.enforcing,
                                     {r \in rules : r.effect = "allow" \/ Blocks(r, client)})
    <2>1. IsName(name) /\ DomainRulesOK(active.rules)
      BY PolicyAssumption DEF SnapshotOK
    <2>2. PICK rules : rules = Matching(active, name, client, target)
      OBVIOUS
    <2>3. rules = {r \in active.rules :
                     r.target = target /\ NameMatches(r, name) /\ ScopeMatches(r.scope, client)}
      BY <2>2 DEF Matching
    <2>4. \A r \in rules : RuleOK(r)
      BY <2>1, <2>3 DEF DomainRulesOK, DomainRuleOK
    <2>5. {r \in rules : Enforced(active, r, client)}
            = {r \in rules : r.effect = "allow" \/ Blocks(r, client)}
      BY <2>4, EnforcedIs
    <2>6. LET match == MatchDomain(active, name, client, target)
          IN  /\ IsDomainChoice(match.selected, rules)
              /\ IsDomainChoice(match.enforcing, {r \in rules : Enforced(active, r, client)})
      BY <2>1, <2>2, DomainDecision
    <2>7. QED
      BY <2>3, <2>5, <2>6
  <1>2. ASSUME NEW client \in Clients, NEW to \in Destinations
        PROVE  LET match == MatchDestination(active, to, client)
                   rules == {r \in active.destinations : DestinationRuleMatches(r, to, client)}
               IN  /\ IsDestinationChoice(match.selected, rules)
                   /\ IsDestinationChoice(match.enforcing,
                                          {r \in rules : r.effect = "allow" \/ Blocks(r, client)})
    <2>1. DestinationRulesOK(active.destinations)
      BY DEF SnapshotOK
    <2>2. PICK rules : rules = {r \in active.destinations : DestinationRuleMatches(r, to, client)}
      OBVIOUS
    <2>3. \A r \in rules : RuleOK(r)
      BY <2>1, <2>2 DEF DestinationRulesOK, DestinationRuleOK
    <2>4. {r \in rules : Enforced(active, r, client)}
            = {r \in rules : r.effect = "allow" \/ Blocks(r, client)}
      BY <2>3, EnforcedIs
    <2>5. LET match == MatchDestination(active, to, client)
          IN  /\ IsDestinationChoice(match.selected, rules)
              /\ IsDestinationChoice(match.enforcing, {r \in rules : Enforced(active, r, client)})
      BY <2>1, <2>2, DestinationDecision
    <2>6. QED
      BY <2>2, <2>4, <2>5
  <1>3. QED
    BY <1>1, <1>2 DEF DecisionFollowsPrecedence

(* Whatever is stored and whoever changes it, the matchers choose the rule *)
(* that a comparison of all matching rules chooses (match_domain_target,   *)
(* match_slot, jg_policy_match_destination).                               *)
THEOREM DecisionsFollowPrecedence == Spec => []DecisionFollowsPrecedence
  <1>1. PolicyInv => DecisionFollowsPrecedence
    BY PrecedenceInSnapshot DEF PolicyInv
  <1>2. QED
    BY <1>1, PolicyInvHolds, PTL

LEMMA ChosenEffect ==
  ASSUME NEW rules, \A r \in rules : RuleOK(r), NEW chosen
  PROVE  /\ IsDomainChoice(chosen, rules) =>
              RuleEffect(chosen) \in {"allow", "block"} /\ (Found(chosen) <=> rules # {})
              /\ (Found(chosen) => chosen \in rules)
         /\ IsDestinationChoice(chosen, rules) =>
              RuleEffect(chosen) \in {"allow", "block"} /\ (Found(chosen) <=> rules # {})
              /\ (Found(chosen) => chosen \in rules)
  BY DEF IsDomainChoice, IsDestinationChoice, RuleEffect, Found, RuleOK

LEMMA MatchEffects ==
  ASSUME NEW snapshot, SnapshotOK(snapshot), NEW client, NEW to, NEW name, IsName(name), NEW target
  PROVE  /\ Effect(MatchDomain(snapshot, name, client, target)) \in {"allow", "block"}
         /\ Effect(MatchDestination(snapshot, to, client)) \in {"allow", "block"}
  <1>1. PICK rules : rules = {r \in Matching(snapshot, name, client, target) :
                                Enforced(snapshot, r, client)}
    OBVIOUS
  <1>2. PICK targets : targets = {r \in {d \in snapshot.destinations :
                                           DestinationRuleMatches(d, to, client)} :
                                    Enforced(snapshot, r, client)}
    OBVIOUS
  <1>3. /\ IsDomainChoice(MatchDomain(snapshot, name, client, target).enforcing, rules)
        /\ IsDestinationChoice(MatchDestination(snapshot, to, client).enforcing, targets)
    BY <1>1, <1>2, DomainDecision, DestinationDecision DEF SnapshotOK
  <1>4. \A r \in rules \cup targets : RuleOK(r)
    BY <1>1, <1>2 DEF Matching, SnapshotOK, DomainRulesOK, DomainRuleOK, DestinationRulesOK,
                      DestinationRuleOK
  <1>5. QED
    BY <1>3, <1>4, ChosenEffect DEF Effect

-----------------------------------------------------------------------------
(* Simulation and packets *)

(* A request is blocked by its destination or by its name. *)
Refused(snapshot, name, client, to, target) ==
  \/ Effect(MatchDestination(snapshot, to, client)) = "block"
  \/ Effect(MatchDomain(snapshot, name, client, target)) = "block"

LEMMA SimulatedEffect ==
  ASSUME NEW snapshot, NEW target, NEW name, NEW client, NEW to
  PROVE  Simulate(snapshot, target, name, client, {to}).effect = "block"
           <=> Refused(snapshot, name, client, to, target)
  <1>1. (CHOOSE d \in {to} : TRUE) = to
    OBVIOUS
  <1>2. PICK destination : destination = MatchDestination(snapshot, to, client)
    OBVIOUS
  <1>3. PICK domain : domain = MatchDomain(snapshot, name, client, target)
    OBVIOUS
  <1>4. Simulate(snapshot, target, name, client, {to}).effect =
          IF Effect(destination) = "block" \/ ~Found(domain.enforcing) THEN Effect(destination)
          ELSE Effect(domain)
    BY <1>1, <1>2, <1>3 DEF Simulate
  <1>5. ~Found(domain.enforcing) => Effect(domain) = "allow"
    BY DEF Effect, RuleEffect
  <1>6. QED
    BY <1>2, <1>3, <1>4, <1>5 DEF Refused

LEMMA OneQuestion ==
  ASSUME NEW snapshot, NEW name, NEW client, NEW destination
  PROVE  EvaluateDns(snapshot, <<name>>, client, destination).verdict = "drop"
           <=> Effect(MatchDomain(snapshot, name, client, "dns")) = "block"
  <1>1. Len(<<name>>) = 1 /\ <<name>>[1] = name
    OBVIOUS
  <1>2. PICK match : match = MatchDomain(snapshot, name, client, "dns")
    OBVIOUS
  <1> DEFINE matches == [i \in 1 .. Len(<<name>>) |-> MatchDomain(snapshot, <<name>>[i], client, "dns")]
             blocked == {i \in 1 .. Len(<<name>>) : Effect(matches[i]) = "block"}
  <1>3. blocked # {} <=> Effect(match) = "block"
    <2>1. 1 .. Len(<<name>>) = {1}
      BY <1>1
    <2>2. matches[1] = match
      BY <1>1, <1>2, <2>1
    <2>3. blocked = {i \in {1} : Effect(matches[i]) = "block"}
      BY <2>1
    <2>4. QED
      BY <2>2, <2>3
  <1>4. blocked # {} => EvaluateDns(snapshot, <<name>>, client, destination)
                          = Blocked(matches[Min(blocked)], destination)
    BY DEF EvaluateDns
  <1>5. blocked = {} => EvaluateDns(snapshot, <<name>>, client, destination).verdict = "accept"
    BY DEF EvaluateDns, Result
  <1>6. QED
    BY <1>2, <1>3, <1>4, <1>5 DEF Blocked, Result

LEMMA MessageVerdict ==
  ASSUME NEW snapshot, NEW client, NEW name, NEW to
  PROVE  EvaluateDnsMessage(snapshot, UdpQuery(client, name, to)).verdict = "drop"
           <=> Refused(snapshot, name, client, to, "dns")
  <1>1. PICK packet : packet = UdpQuery(client, name, to)
    OBVIOUS
  <1>2. /\ packet.to = to /\ packet.client = client
        /\ packet.dns.ok /\ packet.dns.questions = <<name>>
    BY <1>1 DEF UdpQuery
  <1>3. PICK destination : destination = MatchDestination(snapshot, to, client)
    OBVIOUS
  <1>4. EvaluateDnsMessage(snapshot, packet) =
          IF Effect(destination) = "block" THEN Blocked(NoMatch, destination)
          ELSE EvaluateDns(snapshot, <<name>>, client, destination)
    BY <1>2, <1>3 DEF EvaluateDnsMessage
  <1>5. Blocked(NoMatch, destination).verdict = "drop"
    BY DEF Blocked, Result
  <1>6. QED
    BY <1>1, <1>3, <1>4, <1>5, OneQuestion DEF Refused

LEMMA UdpVerdicts ==
  ASSUME NEW snapshot, NEW client, NEW name, NEW to, to.transport = "udp", to.port = 53,
         Effect(MatchDestination(snapshot, to, client)) \in {"allow", "block"}
  PROVE  /\ Evaluate(snapshot, UdpQuery(client, name, to)).verdict = "drop"
              <=> Refused(snapshot, name, client, to, "dns")
         /\ EvaluateReassembledUdp(snapshot, UdpQuery(client, name, to)).verdict = "drop"
              <=> Refused(snapshot, name, client, to, "dns")
  <1>1. PICK packet : packet = UdpQuery(client, name, to)
    OBVIOUS
  <1>2. /\ packet.to = to /\ packet.client = client /\ packet.parse = "ok"
        /\ packet.fragmented = FALSE /\ packet.complete = TRUE
    BY <1>1 DEF UdpQuery
  <1>3. PICK destination : destination = MatchDestination(snapshot, to, client)
    OBVIOUS
  <1>4. EvaluateReassembledUdp(snapshot, packet) = EvaluateDnsMessage(snapshot, packet)
    BY <1>2 DEF EvaluateReassembledUdp
  <1>5. CASE Effect(destination) = "block"
    <2>1. Evaluate(snapshot, packet) = Blocked(NoMatch, destination)
      BY <1>2, <1>3, <1>5 DEF Evaluate
    <2>2. Blocked(NoMatch, destination).verdict = "drop"
      BY DEF Blocked, Result
    <2>3. QED
      BY <1>1, <1>3, <1>4, <1>5, <2>1, <2>2, MessageVerdict DEF Refused
  <1>6. CASE Effect(destination) = "allow"
    <2>1. Evaluate(snapshot, packet) = EvaluateDnsMessage(snapshot, packet)
      BY <1>2, <1>3, <1>6 DEF Evaluate
    <2>2. QED
      BY <1>1, <1>4, <2>1, MessageVerdict
  <1>7. QED
    BY <1>3, <1>5, <1>6

LEMMA SniVerdict ==
  ASSUME NEW snapshot, NEW client, NEW name, NEW to
  PROVE  EvaluateVisibleSni(snapshot, UdpQuery(client, name, to), name).verdict = "drop"
           <=> Refused(snapshot, name, client, to, "tls_sni")
  BY DEF EvaluateVisibleSni, UdpQuery, Blocked, Result, Refused

(* What a simulation announces is what becomes of the packet, for every    *)
(* policy that was published (jg_policy_simulate against                   *)
(* jg_dataplane_evaluate and the evaluators of reassembled datagrams,      *)
(* queries over TCP and visible server names).                             *)
THEOREM SimulationsAgreeWithPackets == Spec => []SimulationAgreesWithPackets
  <1>1. ASSUME PolicyInv PROVE SimulationAgreesWithPackets
    <2> SUFFICES ASSUME NEW client \in Clients, NEW name \in Names, NEW to \in Destinations
                 PROVE  LET packet == UdpQuery(client, name, to)
                            Simulated(target) == Simulate(active, target, name, client, {to}).effect
                            Drops(result) == result.verdict = "drop"
                        IN  /\ to.transport = "udp" /\ to.port = 53 =>
                                 /\ Drops(Evaluate(active, packet)) <=> Simulated("dns") = "block"
                                 /\ Drops(EvaluateReassembledUdp(active, packet))
                                      <=> Simulated("dns") = "block"
                            /\ to.transport = "tcp" /\ to.port = 53 =>
                                 (Drops(EvaluateTcpDns(active, packet))
                                    <=> Simulated("dns") = "block")
                            /\ to.transport = "tcp" /\ to.port \in {443, 853} =>
                                 (Drops(EvaluateVisibleSni(active, packet, name))
                                    <=> Simulated("tls_sni") = "block")
      BY DEF SimulationAgreesWithPackets
    <2>1. \A target : Simulate(active, target, name, client, {to}).effect = "block"
                        <=> Refused(active, name, client, to, target)
      BY SimulatedEffect
    <2>2. Effect(MatchDestination(active, to, client)) \in {"allow", "block"}
      BY <1>1, PolicyAssumption, MatchEffects DEF PolicyInv
    <2>3. to.transport = "udp" /\ to.port = 53 =>
            /\ Evaluate(active, UdpQuery(client, name, to)).verdict = "drop"
                 <=> Refused(active, name, client, to, "dns")
            /\ EvaluateReassembledUdp(active, UdpQuery(client, name, to)).verdict = "drop"
                 <=> Refused(active, name, client, to, "dns")
      BY <2>2, UdpVerdicts
    <2>4. EvaluateTcpDns(active, UdpQuery(client, name, to)).verdict = "drop"
            <=> Refused(active, name, client, to, "dns")
      BY MessageVerdict DEF EvaluateTcpDns
    <2>5. EvaluateVisibleSni(active, UdpQuery(client, name, to), name).verdict = "drop"
            <=> Refused(active, name, client, to, "tls_sni")
      BY SniVerdict
    <2>6. QED
      BY <2>1, <2>3, <2>4, <2>5
  <1>2. QED
    BY <1>1, PolicyInvHolds, PTL

-----------------------------------------------------------------------------
(* Observation *)

(* There is one choice, and it remains the choice among fewer rules. *)
LEMMA OneDomainChoice ==
  ASSUME NEW rules, DomainRulesOK(rules), NEW some \in SUBSET rules,
         NEW a, NEW b, IsDomainChoice(a, some), IsDomainChoice(b, some), some # {}
  PROVE  a = b
  <1>1. a \in some /\ b \in some
    BY DEF IsDomainChoice
  <1>2. SUFFICES ASSUME a # b PROVE FALSE
    OBVIOUS
  <1>3. /\ \/ ClassOf(a) < ClassOf(b)
           \/ /\ ClassOf(a) = ClassOf(b)
              /\ Len(a.domain) > Len(b.domain) \/ (Len(a.domain) = Len(b.domain) /\ a.id < b.id)
        /\ \/ ClassOf(b) < ClassOf(a)
           \/ /\ ClassOf(b) = ClassOf(a)
              /\ Len(b.domain) > Len(a.domain) \/ (Len(b.domain) = Len(a.domain) /\ b.id < a.id)
    BY <1>1, <1>2 DEF IsDomainChoice
  <1>4. DomainRuleOK(a) /\ DomainRuleOK(b)
    BY <1>1 DEF DomainRulesOK
  <1>5. /\ ClassOf(a) \in Nat /\ ClassOf(b) \in Nat
        /\ Len(a.domain) \in Nat /\ Len(b.domain) \in Nat /\ a.id \in Nat /\ b.id \in Nat
    <2>1. ClassOf(a) \in Nat /\ ClassOf(b) \in Nat
      BY <1>4, ClassIs DEF DomainRuleOK, Rank
    <2>2. QED
      BY <1>4, <2>1, NameLength DEF DomainRuleOK, RuleOK
  <1>6. QED
    BY <1>3, <1>5

LEMMA DestinationChoiceIs ==
  ASSUME NEW rules, NEW chosen, rules # {}
  PROVE  IsDestinationChoice(chosen, rules) <=>
           /\ chosen \in rules
           /\ \A r \in rules \ {chosen} :
                \/ ClassOf(chosen) < ClassOf(r)
                \/ /\ ClassOf(chosen) = ClassOf(r)
                   /\ \/ Finer(Details(chosen), Details(r))
                      \/ Details(chosen) = Details(r) /\ chosen.id < r.id
  BY DEF IsDestinationChoice, Details, Finer, NetDetail

LEMMA FinerIsStrict ==
  ASSUME NEW a, NEW b, NetShape(a), NetShape(b), Finer(Details(a), Details(b))
  PROVE  Details(a) # Details(b) /\ ~Finer(Details(b), Details(a))
  <1>1. PICK x, y : x = NetDetail(a) /\ y = NetDetail(b)
    OBVIOUS
  <1>2. x \in Nat /\ y \in Nat
    BY <1>1, SpecificityIs
  <1>3. PICK pa \in Nat, pb \in Nat, ta \in Nat, tb \in Nat :
          Details(a) = <<ta, pa, x>> /\ Details(b) = <<tb, pb, y>>
    BY <1>1 DEF Details
  <1>4. \A p, q \in Nat \X Nat \X Nat : Finer(p, q) =>
          \/ p[1] > q[1]
          \/ p[1] = q[1] /\ p[2] > q[2]
          \/ p[1] = q[1] /\ p[2] = q[2] /\ p[3] > q[3]
    <2> SUFFICES ASSUME NEW p \in Nat \X Nat \X Nat, NEW q \in Nat \X Nat \X Nat, Finer(p, q)
                 PROVE  \/ p[1] > q[1]
                        \/ p[1] = q[1] /\ p[2] > q[2]
                        \/ p[1] = q[1] /\ p[2] = q[2] /\ p[3] > q[3]
      OBVIOUS
    <2>1. PICK i \in 1 .. 3 : p[i] > q[i] /\ \A j \in 1 .. i - 1 : p[j] = q[j]
      BY DEF Finer
    <2>2. CASE i = 1
      BY <2>1, <2>2
    <2>3. CASE i = 2
      BY <2>1, <2>3
    <2>4. CASE i = 3
      BY <2>1, <2>4
    <2>5. QED
      BY <2>2, <2>3, <2>4
  <1>5. PICK p, q \in Nat \X Nat \X Nat : p = Details(a) /\ q = Details(b)
    BY <1>2, <1>3
  <1>6. p[1] \in Nat /\ p[2] \in Nat /\ p[3] \in Nat /\ q[1] \in Nat /\ q[2] \in Nat /\ q[3] \in Nat
    OBVIOUS
  <1>7. QED
    BY <1>4, <1>5, <1>6

LEMMA OneDestinationChoice ==
  ASSUME NEW rules, DestinationRulesOK(rules), NEW some \in SUBSET rules,
         NEW a, NEW b, IsDestinationChoice(a, some), IsDestinationChoice(b, some), some # {}
  PROVE  a = b
  <1>1. a \in some /\ b \in some
    BY DestinationChoiceIs
  <1>2. SUFFICES ASSUME a # b PROVE FALSE
    OBVIOUS
  <1>3. /\ \/ ClassOf(a) < ClassOf(b)
           \/ /\ ClassOf(a) = ClassOf(b)
              /\ Finer(Details(a), Details(b)) \/ (Details(a) = Details(b) /\ a.id < b.id)
        /\ \/ ClassOf(b) < ClassOf(a)
           \/ /\ ClassOf(b) = ClassOf(a)
              /\ Finer(Details(b), Details(a)) \/ (Details(b) = Details(a) /\ b.id < a.id)
    BY <1>1, <1>2, DestinationChoiceIs
  <1>4. DestinationRuleOK(a) /\ DestinationRuleOK(b)
    BY <1>1 DEF DestinationRulesOK
  <1>5. ClassOf(a) \in Nat /\ ClassOf(b) \in Nat /\ a.id \in Nat /\ b.id \in Nat
    <2>1. ClassOf(a) \in Nat /\ ClassOf(b) \in Nat
      BY <1>4, ClassIs DEF DestinationRuleOK, Rank
    <2>2. QED
      BY <1>4, <2>1 DEF DestinationRuleOK, RuleOK
  <1>6. /\ Finer(Details(a), Details(b)) =>
             Details(a) # Details(b) /\ ~Finer(Details(b), Details(a))
        /\ Finer(Details(b), Details(a)) =>
             Details(a) # Details(b) /\ ~Finer(Details(a), Details(b))
    BY <1>4, FinerIsStrict DEF DestinationRuleOK
  <1>7. QED
    BY <1>3, <1>5, <1>6

LEMMA ChoiceAmongFewer ==
  ASSUME NEW rules, NEW some \in SUBSET rules, NEW chosen \in some
  PROVE  /\ IsDomainChoice(chosen, rules) => IsDomainChoice(chosen, some)
         /\ IsDestinationChoice(chosen, rules) => IsDestinationChoice(chosen, some)
  <1>1. rules # {} /\ some # {}
    OBVIOUS
  <1>2. IsDomainChoice(chosen, rules) => IsDomainChoice(chosen, some)
    BY <1>1 DEF IsDomainChoice
  <1>3. IsDestinationChoice(chosen, rules) => IsDestinationChoice(chosen, some)
    BY <1>1, DestinationChoiceIs
  <1>4. QED
    BY <1>2, <1>3

(* What observation makes of a match: a block may become an allow, and     *)
(* then the match says so.                                                 *)
Weakened(snapshot, client, match) ==
  /\ Effect(match) \in {"allow", "block"} /\ ConfiguredEffect(match) \in {"allow", "block"}
  /\ Found(match.enforcing) => Found(match.selected)
  /\ Effect(match) = "block" => ConfiguredEffect(match) = "block"
  /\ Effect(match) # ConfiguredEffect(match) => WouldHaveBlocked(snapshot, match, client)
  /\ Found(match.selected) /\ ~Found(match.enforcing) => WouldHaveBlocked(snapshot, match, client)

LEMMA WeakenedChoice ==
  ASSUME NEW snapshot, NEW client, NEW match, NEW rules, \A r \in rules : RuleOK(r),
         ~Found(match.selected) <=> rules = {},
         Found(match.selected) => match.selected \in rules,
         Found(match.enforcing) => match.enforcing \in rules,
         Found(match.selected) /\ Enforced(snapshot, match.selected, client)
           => match.enforcing = match.selected
  PROVE  Weakened(snapshot, client, match)
  <1>1. PICK s, e : s = match.selected /\ e = match.enforcing
    OBVIOUS
  <1>2. CASE ~Found(s)
    BY <1>1, <1>2 DEF Weakened, Effect, ConfiguredEffect, RuleEffect
  <1>3. CASE Found(s) /\ Enforced(snapshot, s, client)
    <2>1. e = s /\ s.effect \in {"allow", "block"}
      BY <1>1, <1>3 DEF RuleOK
    <2>2. QED
      BY <1>1, <1>3, <2>1 DEF Weakened, Effect, ConfiguredEffect, RuleEffect
  <1>4. CASE Found(s) /\ ~Enforced(snapshot, s, client)
    <2>1. s.effect = "block"
      BY <1>1, <1>4 DEF RuleOK, Enforced
    <2>2. RuleEffect(e) \in {"allow", "block"}
      BY <1>1 DEF RuleEffect, RuleOK
    <2>3. QED
      BY <1>1, <1>4, <2>1, <2>2
      DEF Weakened, Effect, ConfiguredEffect, RuleEffect, WouldHaveBlocked
  <1>5. QED
    BY <1>2, <1>3, <1>4

LEMMA WeakenedMatches ==
  ASSUME NEW snapshot, SnapshotOK(snapshot), NEW client, NEW name, IsName(name), NEW target, NEW to
  PROVE  /\ Weakened(snapshot, client, MatchDomain(snapshot, name, client, target))
         /\ Weakened(snapshot, client, MatchDestination(snapshot, to, client))
  <1>1. PICK rules : rules = Matching(snapshot, name, client, target)
    OBVIOUS
  <1>2. PICK targets : targets = {d \in snapshot.destinations : DestinationRuleMatches(d, to, client)}
    OBVIOUS
  <1>3. PICK m, d : /\ m = MatchDomain(snapshot, name, client, target)
                    /\ d = MatchDestination(snapshot, to, client)
    OBVIOUS
  <1>4. PICK few : few = {r \in rules : Enforced(snapshot, r, client)}
    OBVIOUS
  <1>5. PICK fewer : fewer = {r \in targets : Enforced(snapshot, r, client)}
    OBVIOUS
  <1>6. /\ DomainRulesOK(snapshot.rules) /\ rules \subseteq snapshot.rules /\ few \subseteq rules
        /\ DestinationRulesOK(snapshot.destinations) /\ targets \subseteq snapshot.destinations
        /\ fewer \subseteq targets
    BY <1>1, <1>2, <1>4, <1>5 DEF SnapshotOK, Matching
  <1>7. IsDomainChoice(m.selected, rules) /\ IsDomainChoice(m.enforcing, few)
    BY <1>1, <1>3, <1>4, <1>6, DomainDecision
  <1>8. IsDestinationChoice(d.selected, targets) /\ IsDestinationChoice(d.enforcing, fewer)
    BY <1>2, <1>3, <1>5, <1>6, DestinationDecision
  <1>9. \A r \in rules \cup targets : RuleOK(r)
    BY <1>6 DEF DomainRulesOK, DomainRuleOK, DestinationRulesOK, DestinationRuleOK
  <1>10. Weakened(snapshot, client, m)
    <2>1. /\ ~Found(m.selected) <=> rules = {}
          /\ Found(m.selected) => m.selected \in rules
          /\ Found(m.enforcing) => m.enforcing \in rules
      BY <1>6, <1>7, <1>9, ChosenEffect
    <2>2. ASSUME Found(m.selected), Enforced(snapshot, m.selected, client)
          PROVE  m.enforcing = m.selected
      <3>1. m.selected \in few
        BY <1>4, <2>1, <2>2
      <3>2. IsDomainChoice(m.selected, few)
        BY <1>6, <1>7, <3>1, ChoiceAmongFewer
      <3>3. few \in SUBSET snapshot.rules /\ few # {}
        BY <1>6, <3>1
      <3>4. QED
        BY <1>6, <1>7, <3>2, <3>3, OneDomainChoice
    <2>3. QED
      BY <1>9, <2>1, <2>2, WeakenedChoice
  <1>11. Weakened(snapshot, client, d)
    <2>1. /\ ~Found(d.selected) <=> targets = {}
          /\ Found(d.selected) => d.selected \in targets
          /\ Found(d.enforcing) => d.enforcing \in targets
      BY <1>6, <1>8, <1>9, ChosenEffect
    <2>2. ASSUME Found(d.selected), Enforced(snapshot, d.selected, client)
          PROVE  d.enforcing = d.selected
      <3>1. d.selected \in fewer
        BY <1>5, <2>1, <2>2
      <3>2. IsDestinationChoice(d.selected, fewer)
        BY <1>6, <1>8, <3>1, ChoiceAmongFewer
      <3>3. fewer \in SUBSET snapshot.destinations /\ fewer # {}
        BY <1>6, <3>1
      <3>4. QED
        BY <1>6, <1>8, <3>2, <3>3, OneDestinationChoice
    <2>3. QED
      BY <1>9, <2>1, <2>2, WeakenedChoice
  <1>12. QED
    BY <1>3, <1>10, <1>11

Lift(r) == [r EXCEPT !.enforcement = "enforce"]

LEMMA LiftIs ==
  /\ \A r : DomainFields(r) =>
       /\ DomainFields(Lift(r))
       /\ Lift(r).id = r.id /\ Lift(r).domain = r.domain /\ Lift(r).subdomains = r.subdomains
       /\ Lift(r).effect = r.effect /\ Lift(r).source = r.source /\ Lift(r).target = r.target
       /\ Lift(r).scope = r.scope /\ Lift(r).enforcement = "enforce"
  /\ \A r : DestinationFields(r) =>
       /\ DestinationFields(Lift(r))
       /\ Lift(r).id = r.id /\ Lift(r).effect = r.effect /\ Lift(r).source = r.source
       /\ Lift(r).transport = r.transport /\ Lift(r).port = r.port /\ Lift(r).net = r.net
       /\ Lift(r).scope = r.scope /\ Lift(r).enforcement = "enforce"
  <1>1. ASSUME NEW r, DomainFields(r)
        PROVE  /\ DomainFields(Lift(r))
               /\ Lift(r).id = r.id /\ Lift(r).domain = r.domain /\ Lift(r).subdomains = r.subdomains
               /\ Lift(r).effect = r.effect /\ Lift(r).source = r.source /\ Lift(r).target = r.target
               /\ Lift(r).scope = r.scope /\ Lift(r).enforcement = "enforce"
    <2>1. Lift(r) = [id |-> r.id, sid |-> r.sid, domain |-> r.domain, subdomains |-> r.subdomains,
                     effect |-> r.effect, source |-> r.source, target |-> r.target,
                     scope |-> r.scope, enforcement |-> "enforce"]
      BY <1>1 DEF DomainFields, Lift
    <2>2. QED
      BY <2>1 DEF DomainFields
  <1>2. ASSUME NEW r, DestinationFields(r)
        PROVE  /\ DestinationFields(Lift(r))
               /\ Lift(r).id = r.id /\ Lift(r).effect = r.effect /\ Lift(r).source = r.source
               /\ Lift(r).transport = r.transport /\ Lift(r).port = r.port /\ Lift(r).net = r.net
               /\ Lift(r).scope = r.scope /\ Lift(r).enforcement = "enforce"
    <2>1. Lift(r) = [id |-> r.id, sid |-> r.sid, effect |-> r.effect, source |-> r.source,
                     transport |-> r.transport, port |-> r.port, net |-> r.net,
                     scope |-> r.scope, enforcement |-> "enforce"]
      BY <1>2 DEF DestinationFields, Lift
    <2>2. QED
      BY <2>1 DEF DestinationFields
  <1>3. QED
    BY <1>1, <1>2

LEMMA LiftedIs ==
  ASSUME NEW snapshot, SnapshotOK(snapshot)
  PROVE  /\ Lifted(snapshot).rules = {Lift(r) : r \in snapshot.rules}
         /\ Lifted(snapshot).destinations = {Lift(r) : r \in snapshot.destinations}
         /\ Lifted(snapshot).global = "enforce" /\ Lifted(snapshot).scopes = {}
         /\ SnapshotOK(Lifted(snapshot))
  <1>1. PICK lifted : lifted = Lifted(snapshot)
    OBVIOUS
  <1>2. lifted = [rules |-> {Lift(r) : r \in snapshot.rules},
                  destinations |-> {Lift(r) : r \in snapshot.destinations},
                  global |-> "enforce", scopes |-> {}]
    BY <1>1 DEF Lifted, SnapshotOK, SnapshotFields, Lift
  <1>3. /\ \A r \in snapshot.rules : DomainFields(r) /\ DomainRuleOK(r)
        /\ \A r \in snapshot.destinations : DestinationFields(r) /\ DestinationRuleOK(r)
    BY DEF SnapshotOK, SnapshotFields, DomainRulesOK, DestinationRulesOK
  <1>4. IsFiniteSet({Lift(r) : r \in snapshot.rules})
        /\ IsFiniteSet({Lift(r) : r \in snapshot.destinations})
    <2>1. PICK f : f = [r \in snapshot.rules |-> Lift(r)]
      OBVIOUS
    <2>2. PICK g : g = [r \in snapshot.destinations |-> Lift(r)]
      OBVIOUS
    <2>3. IsFiniteSet({f[r] : r \in snapshot.rules})
          /\ IsFiniteSet({g[r] : r \in snapshot.destinations})
      BY ImageIsFinite DEF SnapshotOK, DomainRulesOK, DestinationRulesOK
    <2>4. QED
      BY <2>1, <2>2, <2>3
  <1>5. UniqueIds({Lift(r) : r \in snapshot.rules})
        /\ UniqueIds({Lift(r) : r \in snapshot.destinations})
    <2>1. UniqueIds(snapshot.rules) /\ UniqueIds(snapshot.destinations)
      BY DEF SnapshotOK, DomainRulesOK, DestinationRulesOK
    <2>2. \A r \in snapshot.rules \cup snapshot.destinations : Lift(r).id = r.id
      BY <1>3, LiftIs
    <2>3. QED
      BY <2>1, <2>2 DEF UniqueIds
  <1>6. ASSUME NEW r \in snapshot.rules
        PROVE  DomainFields(Lift(r)) /\ DomainRuleOK(Lift(r))
    <2>1. PICK l : l = Lift(r)
      OBVIOUS
    <2>2. /\ DomainFields(l) /\ l.id = r.id /\ l.domain = r.domain /\ l.subdomains = r.subdomains
          /\ l.effect = r.effect /\ l.source = r.source /\ l.scope = r.scope
      BY <1>3, <2>1, LiftIs
    <2>3. DomainRuleOK(r)
      BY <1>3
    <2>4. DomainRuleOK(l)
      BY <2>2, <2>3 DEF DomainRuleOK, RuleOK
    <2>5. QED
      BY <2>1, <2>2, <2>4
  <1>7. ASSUME NEW r \in snapshot.destinations
        PROVE  DestinationFields(Lift(r)) /\ DestinationRuleOK(Lift(r))
    <2>1. PICK l : l = Lift(r)
      OBVIOUS
    <2>2. /\ DestinationFields(l) /\ l.id = r.id /\ l.port = r.port /\ l.net = r.net
          /\ l.effect = r.effect /\ l.source = r.source /\ l.scope = r.scope
      BY <1>3, <2>1, LiftIs
    <2>3. DestinationRuleOK(r)
      BY <1>3
    <2>4. DestinationRuleOK(l)
      BY <2>2, <2>3 DEF DestinationRuleOK, RuleOK, NetShape
    <2>5. QED
      BY <2>1, <2>2, <2>4
  <1>8. DomainRulesOK(lifted.rules) /\ DestinationRulesOK(lifted.destinations)
    BY <1>2, <1>4, <1>5, <1>6, <1>7 DEF DomainRulesOK, DestinationRulesOK
  <1>9. SnapshotFields(lifted)
    <2>1. lifted = [rules |-> lifted.rules, destinations |-> lifted.destinations,
                    global |-> lifted.global, scopes |-> lifted.scopes]
      BY <1>2
    <2>2. /\ \A r \in lifted.rules : DomainFields(r)
          /\ \A r \in lifted.destinations : DestinationFields(r)
      BY <1>2, <1>6, <1>7
    <2>3. QED
      BY <2>1, <2>2 DEF SnapshotFields
  <1>10. QED
    BY <1>1, <1>2, <1>8, <1>9 DEF SnapshotOK

LEMMA LiftedClass ==
  ASSUME NEW a, NEW b, RuleOK(a), RuleOK(b), a.effect = b.effect, a.source = b.source,
         a.scope = b.scope
  PROVE  ClassOf(a) = ClassOf(b)
  <1>1. Priority(a) = Priority(b)
    BY DEF Priority
  <1>2. QED
    BY <1>1, ClassIs

LEMMA LiftedDomainChoice ==
  ASSUME NEW snapshot, SnapshotOK(snapshot), NEW rules \in SUBSET snapshot.rules, rules # {},
         NEW chosen, IsDomainChoice(chosen, rules)
  PROVE  IsDomainChoice(Lift(chosen), {Lift(r) : r \in rules})
  <1>1. /\ chosen \in rules
        /\ \A r \in rules \ {chosen} :
             \/ ClassOf(chosen) < ClassOf(r)
             \/ /\ ClassOf(chosen) = ClassOf(r)
                /\ \/ Len(chosen.domain) > Len(r.domain)
                   \/ Len(chosen.domain) = Len(r.domain) /\ chosen.id < r.id
    BY DEF IsDomainChoice
  <1>2. ASSUME NEW r \in rules
        PROVE  /\ ClassOf(Lift(r)) = ClassOf(r) /\ Lift(r).domain = r.domain /\ Lift(r).id = r.id
    <2>1. PICK l : l = Lift(r)
      OBVIOUS
    <2>2. l \in Lifted(snapshot).rules
      BY <2>1, LiftedIs
    <2>3. RuleOK(r) /\ RuleOK(l)
      BY <2>2, LiftedIs DEF SnapshotOK, DomainRulesOK, DomainRuleOK
    <2>4. /\ l.effect = r.effect /\ l.source = r.source /\ l.scope = r.scope
          /\ l.domain = r.domain /\ l.id = r.id
      BY <2>1, LiftIs DEF SnapshotOK, SnapshotFields
    <2>5. QED
      BY <2>1, <2>3, <2>4, LiftedClass
  <1>3. ASSUME NEW l \in {Lift(r) : r \in rules} \ {Lift(chosen)}
        PROVE  \/ ClassOf(Lift(chosen)) < ClassOf(l)
               \/ /\ ClassOf(Lift(chosen)) = ClassOf(l)
                  /\ \/ Len(Lift(chosen).domain) > Len(l.domain)
                     \/ Len(Lift(chosen).domain) = Len(l.domain) /\ Lift(chosen).id < l.id
    <2>1. PICK r \in rules : l = Lift(r) /\ r # chosen
      OBVIOUS
    <2>2. QED
      BY <1>1, <1>2, <2>1
  <1>4. QED
    BY <1>1, <1>3 DEF IsDomainChoice

LEMMA LiftedDestinationChoice ==
  ASSUME NEW snapshot, SnapshotOK(snapshot), NEW rules \in SUBSET snapshot.destinations, rules # {},
         NEW chosen, IsDestinationChoice(chosen, rules)
  PROVE  IsDestinationChoice(Lift(chosen), {Lift(r) : r \in rules})
  <1>1. /\ chosen \in rules
        /\ \A r \in rules \ {chosen} :
             \/ ClassOf(chosen) < ClassOf(r)
             \/ /\ ClassOf(chosen) = ClassOf(r)
                /\ \/ Finer(Details(chosen), Details(r))
                   \/ Details(chosen) = Details(r) /\ chosen.id < r.id
    BY DestinationChoiceIs
  <1>2. ASSUME NEW r \in rules
        PROVE  ClassOf(Lift(r)) = ClassOf(r) /\ Details(Lift(r)) = Details(r) /\ Lift(r).id = r.id
    <2>1. PICK l : l = Lift(r)
      OBVIOUS
    <2>2. l \in Lifted(snapshot).destinations
      BY <2>1, LiftedIs
    <2>3. RuleOK(r) /\ RuleOK(l)
      BY <2>2, LiftedIs DEF SnapshotOK, DestinationRulesOK, DestinationRuleOK
    <2>4. /\ l.effect = r.effect /\ l.source = r.source /\ l.scope = r.scope
          /\ l.transport = r.transport /\ l.port = r.port /\ l.net = r.net /\ l.id = r.id
      BY <2>1, LiftIs DEF SnapshotOK, SnapshotFields
    <2>5. Details(l) = Details(r)
      BY <2>4 DEF Details, NetDetail
    <2>6. QED
      BY <2>1, <2>3, <2>4, <2>5, LiftedClass
  <1>3. PICK all : all = {Lift(r) : r \in rules}
    OBVIOUS
  <1>4. ASSUME NEW l \in all \ {Lift(chosen)}
        PROVE  \/ ClassOf(Lift(chosen)) < ClassOf(l)
               \/ /\ ClassOf(Lift(chosen)) = ClassOf(l)
                  /\ \/ Finer(Details(Lift(chosen)), Details(l))
                     \/ Details(Lift(chosen)) = Details(l) /\ Lift(chosen).id < l.id
    <2>1. PICK r \in rules : l = Lift(r) /\ r # chosen
      BY <1>3
    <2>2. QED
      BY <1>1, <1>2, <2>1
  <1>5. Lift(chosen) \in all /\ all # {}
    BY <1>1, <1>3
  <1>6. QED
    BY <1>3, <1>4, <1>5, DestinationChoiceIs

(* Without observation the selected rule is the one that is enforced. *)
Mirrors(lifted, match) ==
  /\ Effect(lifted) = ConfiguredEffect(match)
  /\ Found(lifted.enforcing) <=> Found(match.selected)

LEMMA LiftedMatches ==
  ASSUME NEW snapshot, SnapshotOK(snapshot), NEW client, NEW name, IsName(name), NEW target, NEW to
  PROVE  /\ Mirrors(MatchDomain(Lifted(snapshot), name, client, target),
                    MatchDomain(snapshot, name, client, target))
         /\ Mirrors(MatchDestination(Lifted(snapshot), to, client),
                    MatchDestination(snapshot, to, client))
  <1>1. PICK lifted : lifted = Lifted(snapshot)
    OBVIOUS
  <1>2. /\ SnapshotOK(lifted) /\ lifted.global = "enforce" /\ lifted.scopes = {}
        /\ lifted.rules = {Lift(r) : r \in snapshot.rules}
        /\ lifted.destinations = {Lift(r) : r \in snapshot.destinations}
    BY <1>1, LiftedIs
  <1>3. /\ \A r \in snapshot.rules : DomainFields(r)
        /\ \A r \in snapshot.destinations : DestinationFields(r)
    BY DEF SnapshotOK, SnapshotFields
  <1>4. \A l \in lifted.rules \cup lifted.destinations : Enforced(lifted, l, client)
    <2>1. ~ClientIsObserved(lifted, client)
      BY <1>2 DEF ClientIsObserved
    <2>2. \A l \in lifted.rules \cup lifted.destinations : l.enforcement = "enforce"
      BY <1>2, <1>3, LiftIs
    <2>3. QED
      BY <2>1, <2>2 DEF Enforced
  <1>5. Mirrors(MatchDomain(lifted, name, client, target), MatchDomain(snapshot, name, client, target))
    <2>1. PICK rules : rules = Matching(snapshot, name, client, target)
      OBVIOUS
    <2>2. PICK m, l : /\ m = MatchDomain(snapshot, name, client, target).selected
                      /\ l = MatchDomain(lifted, name, client, target).enforcing
      OBVIOUS
    <2>3. rules \subseteq snapshot.rules
      BY <2>1 DEF Matching
    <2>4. Matching(lifted, name, client, target) = {Lift(r) : r \in rules}
      <3>1. \A r \in snapshot.rules :
              /\ Lift(r).target = r.target
              /\ NameMatches(Lift(r), name) <=> NameMatches(r, name)
              /\ ScopeMatches(Lift(r).scope, client) <=> ScopeMatches(r.scope, client)
        BY <1>3, LiftIs DEF NameMatches
      <3>2. \A r \in snapshot.rules :
              Lift(r) \in Matching(lifted, name, client, target) <=> r \in rules
        BY <1>2, <2>1, <3>1 DEF Matching
      <3>3. Matching(lifted, name, client, target) \subseteq lifted.rules
        BY DEF Matching
      <3>4. QED
        BY <1>2, <2>3, <3>2, <3>3
    <2>5. {r \in Matching(lifted, name, client, target) : Enforced(lifted, r, client)}
            = {Lift(r) : r \in rules}
      BY <1>2, <1>4, <2>3, <2>4
    <2>6. IsDomainChoice(m, rules) /\ IsDomainChoice(l, {Lift(r) : r \in rules})
      <3>1. DomainRulesOK(snapshot.rules) /\ DomainRulesOK(lifted.rules)
        BY <1>2 DEF SnapshotOK
      <3>2. IsDomainChoice(m, rules)
        BY <2>1, <2>2, <3>1, DomainDecision
      <3>3. IsDomainChoice(l, {r \in Matching(lifted, name, client, target) :
                                 Enforced(lifted, r, client)})
        BY <2>2, <3>1, DomainDecision
      <3>4. QED
        BY <2>5, <3>2, <3>3
    <2>7. CASE rules = {}
      <3>1. ~Found(m) /\ ~Found(l)
        BY <2>6, <2>7 DEF IsDomainChoice
      <3>2. QED
        BY <2>2, <3>1 DEF Mirrors, Effect, ConfiguredEffect, RuleEffect
    <2>8. CASE rules # {}
      <3>1. PICK all : all = {Lift(r) : r \in rules}
        OBVIOUS
      <3>2. IsDomainChoice(Lift(m), all)
        BY <2>3, <2>6, <2>8, <3>1, LiftedDomainChoice
      <3>3. all \in SUBSET lifted.rules /\ all # {}
        BY <1>2, <2>3, <2>8, <3>1
      <3>4. l = Lift(m)
        BY <1>2, <2>6, <3>1, <3>2, <3>3, OneDomainChoice DEF SnapshotOK
      <3>5. m \in snapshot.rules
        BY <2>3, <2>6, <2>8 DEF IsDomainChoice
      <3>6. l.id = m.id /\ l.effect = m.effect
        BY <1>3, <3>4, <3>5, LiftIs
      <3>7. QED
        BY <2>2, <3>6 DEF Mirrors, Effect, ConfiguredEffect, RuleEffect, Found
    <2>9. QED
      BY <2>7, <2>8
  <1>6. Mirrors(MatchDestination(lifted, to, client), MatchDestination(snapshot, to, client))
    <2>1. PICK rules : rules = {d \in snapshot.destinations : DestinationRuleMatches(d, to, client)}
      OBVIOUS
    <2>2. PICK m, l : /\ m = MatchDestination(snapshot, to, client).selected
                      /\ l = MatchDestination(lifted, to, client).enforcing
      OBVIOUS
    <2>3. rules \subseteq snapshot.destinations
      BY <2>1
    <2>4. {d \in lifted.destinations : DestinationRuleMatches(d, to, client)}
            = {Lift(r) : r \in rules}
      <3>1. \A r \in snapshot.destinations :
              DestinationRuleMatches(Lift(r), to, client) <=> DestinationRuleMatches(r, to, client)
        BY <1>3, LiftIs DEF DestinationRuleMatches
      <3>2. QED
        BY <1>2, <2>1, <3>1
    <2>5. {r \in {d \in lifted.destinations : DestinationRuleMatches(d, to, client)} :
             Enforced(lifted, r, client)} = {Lift(r) : r \in rules}
      BY <1>2, <1>4, <2>3, <2>4
    <2>6. IsDestinationChoice(m, rules) /\ IsDestinationChoice(l, {Lift(r) : r \in rules})
      <3>1. DestinationRulesOK(snapshot.destinations) /\ DestinationRulesOK(lifted.destinations)
        BY <1>2 DEF SnapshotOK
      <3>2. IsDestinationChoice(m, rules)
        BY <2>1, <2>2, <3>1, DestinationDecision
      <3>3. IsDestinationChoice(l, {r \in {d \in lifted.destinations :
                                             DestinationRuleMatches(d, to, client)} :
                                      Enforced(lifted, r, client)})
        BY <2>2, <3>1, DestinationDecision
      <3>4. QED
        BY <2>5, <3>2, <3>3
    <2>7. CASE rules = {}
      <3>1. ~Found(m) /\ ~Found(l)
        BY <2>6, <2>7 DEF IsDestinationChoice
      <3>2. QED
        BY <2>2, <3>1 DEF Mirrors, Effect, ConfiguredEffect, RuleEffect
    <2>8. CASE rules # {}
      <3>1. PICK all : all = {Lift(r) : r \in rules}
        OBVIOUS
      <3>2. IsDestinationChoice(Lift(m), all)
        BY <2>3, <2>6, <2>8, <3>1, LiftedDestinationChoice
      <3>3. all \in SUBSET lifted.destinations /\ all # {}
        BY <1>2, <2>3, <2>8, <3>1
      <3>4. l = Lift(m)
        BY <1>2, <2>6, <3>1, <3>2, <3>3, OneDestinationChoice DEF SnapshotOK
      <3>5. m \in snapshot.destinations
        BY <2>3, <2>6, <2>8, DestinationChoiceIs
      <3>6. l.id = m.id /\ l.effect = m.effect
        BY <1>3, <3>4, <3>5, LiftIs
      <3>7. QED
        BY <2>2, <3>6 DEF Mirrors, Effect, ConfiguredEffect, RuleEffect, Found
    <2>9. QED
      BY <2>7, <2>8
  <1>7. QED
    BY <1>1, <1>5, <1>6

LEMMA WeakenedSimulation ==
  ASSUME NEW snapshot, NEW client, NEW name, NEW target, NEW to, NEW lifted,
         NEW destination, NEW domain, NEW enforcedDestination, NEW enforcedDomain,
         destination = IF to = {} THEN NoMatch
                       ELSE MatchDestination(snapshot, CHOOSE d \in to : TRUE, client),
         domain = MatchDomain(snapshot, name, client, target),
         enforcedDestination = IF to = {} THEN NoMatch
                               ELSE MatchDestination(lifted, CHOOSE d \in to : TRUE, client),
         enforcedDomain = MatchDomain(lifted, name, client, target),
         Weakened(snapshot, client, destination), Weakened(snapshot, client, domain),
         Mirrors(enforcedDestination, destination), Mirrors(enforcedDomain, domain)
  PROVE  LET simulation == Simulate(snapshot, target, name, client, to)
             enforced == Simulate(lifted, target, name, client, to)
         IN  /\ simulation.effect = "block" => enforced.effect = "block"
             /\ simulation.configured = enforced.effect
             /\ enforced.effect # simulation.effect => simulation.would
  <1> DEFINE planned == ConfiguredEffect(destination) = "block"
             decided == Effect(destination) = "block"
             selected == IF planned \/ decided \/ ~Found(domain.selected)
                         THEN destination ELSE domain
  <1>1. Simulate(snapshot, target, name, client, to) =
          [configured |-> ConfiguredEffect(selected),
           would |-> WouldHaveBlocked(snapshot, selected, client),
           effect |-> IF decided \/ ~Found(domain.enforcing) THEN Effect(destination)
                      ELSE Effect(domain)]
    BY DEF Simulate
  <1>2. Simulate(lifted, target, name, client, to).effect =
          IF Effect(enforcedDestination) = "block" \/ ~Found(enforcedDomain.enforcing)
          THEN Effect(enforcedDestination) ELSE Effect(enforcedDomain)
    BY DEF Simulate
  <1>3. Simulate(lifted, target, name, client, to).effect =
          IF planned \/ ~Found(domain.selected) THEN ConfiguredEffect(destination)
          ELSE ConfiguredEffect(domain)
    BY <1>2 DEF Mirrors
  <1>4. decided => planned
    BY DEF Weakened
  <1>5. CASE planned
    BY <1>1, <1>3, <1>4, <1>5 DEF Weakened
  <1>6. CASE ~planned /\ Found(domain.selected)
    <2>1. ~decided /\ selected = domain
      BY <1>4, <1>6
    <2>2. QED
      BY <1>1, <1>3, <1>6, <2>1 DEF Weakened
  <1>7. CASE ~planned /\ ~Found(domain.selected)
    <2>1. ~decided /\ selected = destination /\ ~Found(domain.enforcing)
      BY <1>4, <1>7 DEF Weakened
    <2>2. QED
      BY <1>1, <1>3, <1>7, <2>1 DEF Weakened
  <1>8. QED
    BY <1>5, <1>6, <1>7

(* For every policy that was published, observation turns blocks into      *)
(* allows and nothing else, the simulation says so, and what it calls the  *)
(* configured effect is the effect of the policy without observation       *)
(* (jg_policy_simulate, effective_enforcement).                            *)
THEOREM ObservationsOnlyWeaken == Spec => []ObservationOnlyWeakens
  <1>1. ASSUME PolicyInv PROVE ObservationOnlyWeakens
    <2> SUFFICES ASSUME NEW client \in Clients, NEW name \in Names, NEW target \in {"dns", "tls_sni"},
                        NEW to \in {{}} \cup {{d} : d \in Destinations}
                 PROVE  LET simulation == Simulate(active, target, name, client, to)
                            enforced == Simulate(Lifted(active), target, name, client, to)
                        IN  /\ simulation.effect = "block" => enforced.effect = "block"
                            /\ simulation.configured = enforced.effect
                            /\ enforced.effect # simulation.effect => simulation.would
      BY DEF ObservationOnlyWeakens
    <2>1. SnapshotOK(active) /\ IsName(name)
      BY <1>1, PolicyAssumption DEF PolicyInv
    <2>2. PICK lifted : lifted = Lifted(active)
      OBVIOUS
    <2>3. PICK d : d = (CHOOSE x \in to : TRUE)
      OBVIOUS
    <2>4. PICK destination, enforced :
            /\ destination = IF to = {} THEN NoMatch ELSE MatchDestination(active, d, client)
            /\ enforced = IF to = {} THEN NoMatch ELSE MatchDestination(lifted, d, client)
      OBVIOUS
    <2>5. Weakened(active, client, NoMatch) /\ Mirrors(NoMatch, NoMatch)
      BY DEF Weakened, Mirrors, NoMatch, Effect, ConfiguredEffect, RuleEffect, Found, NoRule
    <2>6. Weakened(active, client, destination)
      BY <2>1, <2>4, <2>5, WeakenedMatches
    <2>7. Mirrors(enforced, destination)
      BY <2>1, <2>2, <2>4, <2>5, LiftedMatches
    <2>8. PICK m, l : /\ m = MatchDomain(active, name, client, target)
                      /\ l = MatchDomain(lifted, name, client, target)
      OBVIOUS
    <2>9. Weakened(active, client, m) /\ Mirrors(l, m)
      BY <2>1, <2>2, <2>8, WeakenedMatches, LiftedMatches
    <2>10. QED
      BY <2>2, <2>3, <2>4, <2>6, <2>7, <2>8, <2>9, WeakenedSimulation
  <1>2. QED
    BY <1>1, PolicyInvHolds, PTL

-----------------------------------------------------------------------------
(* Analysis *)

LEMMA OneThenOther ==
  ASSUME NEW a, NEW id, NEW sid
  PROVE  [a EXCEPT !.id = id, !.sid = sid] = [[a EXCEPT !.id = id] EXCEPT !.sid = sid]
  OBVIOUS

(* Rules of one content differ by identifier and identity only. *)
LEMMA LoadedContent ==
  /\ \A a, b : DomainFields(a) /\ DomainFields(b) =>
       (SameContent(a, b) <=>
          /\ a.domain = b.domain /\ a.subdomains = b.subdomains /\ a.effect = b.effect
          /\ a.source = b.source /\ a.target = b.target /\ a.scope = b.scope
          /\ a.enforcement = b.enforcement)
  /\ \A a, b : DestinationFields(a) /\ DestinationFields(b) =>
       (SameContent(a, b) <=>
          /\ a.effect = b.effect /\ a.source = b.source /\ a.transport = b.transport
          /\ a.port = b.port /\ a.net = b.net /\ a.scope = b.scope
          /\ a.enforcement = b.enforcement)
  <1>1. ASSUME NEW a, NEW b, DomainFields(a), DomainFields(b)
        PROVE  SameContent(a, b) <=>
                 /\ a.domain = b.domain /\ a.subdomains = b.subdomains /\ a.effect = b.effect
                 /\ a.source = b.source /\ a.target = b.target /\ a.scope = b.scope
                 /\ a.enforcement = b.enforcement
    <2>1. [a EXCEPT !.id = b.id, !.sid = b.sid] =
            [id |-> b.id, sid |-> b.sid, domain |-> a.domain, subdomains |-> a.subdomains,
             effect |-> a.effect, source |-> a.source, target |-> a.target, scope |-> a.scope,
             enforcement |-> a.enforcement]
      <3>1. PICK l : l = [a EXCEPT !.id = b.id]
        OBVIOUS
      <3>2. l = [id |-> b.id, sid |-> a.sid, domain |-> a.domain, subdomains |-> a.subdomains,
                 effect |-> a.effect, source |-> a.source, target |-> a.target, scope |-> a.scope,
                 enforcement |-> a.enforcement]
        BY <1>1, <3>1 DEF DomainFields
      <3>3. [l EXCEPT !.sid = b.sid] = [id |-> b.id, sid |-> b.sid, domain |-> a.domain,
                                        subdomains |-> a.subdomains, effect |-> a.effect,
                                        source |-> a.source, target |-> a.target,
                                        scope |-> a.scope, enforcement |-> a.enforcement]
        BY <3>2
      <3>4. QED
        BY <3>1, <3>3, OneThenOther
    <2>2. b = [id |-> b.id, sid |-> b.sid, domain |-> b.domain, subdomains |-> b.subdomains,
               effect |-> b.effect, source |-> b.source, target |-> b.target, scope |-> b.scope,
               enforcement |-> b.enforcement]
      BY <1>1 DEF DomainFields
    <2>3. QED
      BY <2>1, <2>2 DEF SameContent
  <1>2. ASSUME NEW a, NEW b, DestinationFields(a), DestinationFields(b)
        PROVE  SameContent(a, b) <=>
                 /\ a.effect = b.effect /\ a.source = b.source /\ a.transport = b.transport
                 /\ a.port = b.port /\ a.net = b.net /\ a.scope = b.scope
                 /\ a.enforcement = b.enforcement
    <2>1. [a EXCEPT !.id = b.id, !.sid = b.sid] =
            [id |-> b.id, sid |-> b.sid, effect |-> a.effect, source |-> a.source,
             transport |-> a.transport, port |-> a.port, net |-> a.net, scope |-> a.scope,
             enforcement |-> a.enforcement]
      <3>1. PICK l : l = [a EXCEPT !.id = b.id]
        OBVIOUS
      <3>2. l = [id |-> b.id, sid |-> a.sid, effect |-> a.effect, source |-> a.source,
                 transport |-> a.transport, port |-> a.port, net |-> a.net, scope |-> a.scope,
                 enforcement |-> a.enforcement]
        BY <1>2, <3>1 DEF DestinationFields
      <3>3. [l EXCEPT !.sid = b.sid] = [id |-> b.id, sid |-> b.sid, effect |-> a.effect,
                                        source |-> a.source, transport |-> a.transport,
                                        port |-> a.port, net |-> a.net, scope |-> a.scope,
                                        enforcement |-> a.enforcement]
        BY <3>2
      <3>4. QED
        BY <3>1, <3>3, OneThenOther
    <2>2. b = [id |-> b.id, sid |-> b.sid, effect |-> b.effect, source |-> b.source,
               transport |-> b.transport, port |-> b.port, net |-> b.net, scope |-> b.scope,
               enforcement |-> b.enforcement]
      BY <1>2 DEF DestinationFields
    <2>3. QED
      BY <2>1, <2>2 DEF SameContent
  <1>3. QED
    BY <1>1, <1>2

(* Rows of one content load alike. *)
LEMMA DuplicateRow ==
  ASSUME NEW r, NEW a, NEW b, StoredDomainRule(a), StoredDomainRule(b), SameContent(a, b),
         LoadsRule(r, b)
  PROVE  LoadsRule(r, a) /\ SameContent(LoadedRule(r, a), LoadedRule(r, b))
  <1>1. [a EXCEPT !.id = b.id, !.sid = b.sid] =
          [id |-> b.id, sid |-> b.sid, list |-> a.list, source |-> a.source,
           group |-> a.group, enabled |-> a.enabled, domain |-> a.domain,
           subdomains |-> a.subdomains, effect |-> a.effect,
           enforcement |-> a.enforcement, target |-> a.target, scope |-> a.scope]
    <2>1. PICK l : l = [a EXCEPT !.id = b.id]
      OBVIOUS
    <2>2. l = [id |-> b.id, sid |-> a.sid, list |-> a.list, source |-> a.source, group |-> a.group,
               enabled |-> a.enabled, domain |-> a.domain, subdomains |-> a.subdomains,
               effect |-> a.effect, enforcement |-> a.enforcement, target |-> a.target,
               scope |-> a.scope]
      BY <2>1 DEF StoredDomainRule
    <2>3. [l EXCEPT !.sid = b.sid] = [id |-> b.id, sid |-> b.sid, list |-> a.list,
                                      source |-> a.source, group |-> a.group,
                                      enabled |-> a.enabled, domain |-> a.domain,
                                      subdomains |-> a.subdomains, effect |-> a.effect,
                                      enforcement |-> a.enforcement, target |-> a.target,
                                      scope |-> a.scope]
      BY <2>2
    <2>4. QED
      BY <2>1, <2>3, OneThenOther
  <1>2. /\ a.list = b.list /\ a.source = b.source /\ a.group = b.group /\ a.enabled = b.enabled
        /\ a.domain = b.domain /\ a.subdomains = b.subdomains /\ a.effect = b.effect
        /\ a.enforcement = b.enforcement /\ a.target = b.target /\ a.scope = b.scope
    BY <1>1 DEF SameContent
  <1>3. LoadsRule(r, a)
    BY <1>2 DEF LoadsRule, InEnabledGroup
  <1>4. PICK la, lb : la = LoadedRule(r, a) /\ lb = LoadedRule(r, b)
    OBVIOUS
  <1>5. /\ la.domain = lb.domain /\ la.subdomains = lb.subdomains /\ la.effect = lb.effect
        /\ la.source = lb.source /\ la.target = lb.target /\ la.scope = lb.scope
        /\ la.enforcement = lb.enforcement
    BY <1>2, <1>4 DEF LoadedRule, ListObserves, GroupObserves
  <1>6. DomainFields(la) /\ DomainFields(lb)
    BY <1>4 DEF LoadedRule, DomainFields
  <1>7. QED
    BY <1>3, <1>4, <1>5, <1>6, LoadedContent

LEMMA DuplicateDestinationRow ==
  ASSUME NEW r, NEW a, NEW b, StoredDestinationRule(a), StoredDestinationRule(b),
         SameContent(a, b), LoadsDestination(r, b)
  PROVE  /\ LoadsDestination(r, a)
         /\ SameContent(LoadedDestination(r, a), LoadedDestination(r, b))
  <1>1. [a EXCEPT !.id = b.id, !.sid = b.sid] =
          [id |-> b.id, sid |-> b.sid, source |-> a.source, group |-> a.group,
           enabled |-> a.enabled, effect |-> a.effect, enforcement |-> a.enforcement,
           transport |-> a.transport, port |-> a.port, net |-> a.net, scope |-> a.scope]
    <2>1. PICK l : l = [a EXCEPT !.id = b.id]
      OBVIOUS
    <2>2. l = [id |-> b.id, sid |-> a.sid, source |-> a.source, group |-> a.group,
               enabled |-> a.enabled, effect |-> a.effect, enforcement |-> a.enforcement,
               transport |-> a.transport, port |-> a.port, net |-> a.net, scope |-> a.scope]
      BY <2>1 DEF StoredDestinationRule
    <2>3. [l EXCEPT !.sid = b.sid] = [id |-> b.id, sid |-> b.sid, source |-> a.source,
                                      group |-> a.group, enabled |-> a.enabled,
                                      effect |-> a.effect, enforcement |-> a.enforcement,
                                      transport |-> a.transport, port |-> a.port, net |-> a.net,
                                      scope |-> a.scope]
      BY <2>2
    <2>4. QED
      BY <2>1, <2>3, OneThenOther
  <1>2. /\ a.source = b.source /\ a.group = b.group /\ a.enabled = b.enabled
        /\ a.effect = b.effect /\ a.enforcement = b.enforcement /\ a.transport = b.transport
        /\ a.port = b.port /\ a.net = b.net /\ a.scope = b.scope
    BY <1>1 DEF SameContent
  <1>3. LoadsDestination(r, a)
    BY <1>2 DEF LoadsDestination, InEnabledGroup
  <1>4. PICK la, lb : la = LoadedDestination(r, a) /\ lb = LoadedDestination(r, b)
    OBVIOUS
  <1>5. /\ la.effect = lb.effect /\ la.source = lb.source /\ la.transport = lb.transport
        /\ la.port = lb.port /\ la.net = lb.net /\ la.scope = lb.scope
        /\ la.enforcement = lb.enforcement
    BY <1>2, <1>4 DEF LoadedDestination, GroupObserves
  <1>6. DestinationFields(la) /\ DestinationFields(lb)
    BY <1>4 DEF LoadedDestination, DestinationFields
  <1>7. QED
    BY <1>3, <1>4, <1>5, <1>6, LoadedContent

(* Of the rules of one content the oldest is retained. *)
Likens(rules) ==
  /\ \A a \in rules : a.id \in Nat /\ SameContent(a, a)
  /\ \A a, b, c \in rules : SameContent(a, b) /\ SameContent(b, c) => SameContent(a, c)

LEMMA Representative ==
  ASSUME NEW rules, Likens(rules), NEW rule \in rules
  PROVE  \E kept \in Retained(rules) : SameContent(kept, rule) /\ kept.id <= rule.id
  <1>1. PICK ids : ids = {x.id : x \in {y \in rules : SameContent(y, rule)}}
    OBVIOUS
  <1>2. ids \in SUBSET Nat /\ rule.id \in ids
    BY <1>1 DEF Likens
  <1>3. PICK n \in ids : \A m \in ids : n <= m
    BY <1>2, LeastNumber
  <1>4. PICK kept \in rules : SameContent(kept, rule) /\ kept.id = n
    BY <1>1
  <1>5. \A other \in rules : SameContent(other, kept) => kept.id <= other.id
    BY <1>1, <1>3, <1>4 DEF Likens
  <1>6. QED
    BY <1>2, <1>3, <1>4, <1>5 DEF Retained

LEMMA LoadedLikens ==
  ASSUME NEW r, StoredPolicy(r)
  PROVE  Likens(LoadedRules(r)) /\ Likens(LoadedDestinations(r))
  <1>1. \A l \in LoadedRules(r) : DomainFields(l) /\ l.id \in Nat
    <2> SUFFICES ASSUME NEW l \in LoadedRules(r) PROVE DomainFields(l) /\ l.id \in Nat
      OBVIOUS
    <2>1. PICK d \in r.rules : l = LoadedRule(r, d)
      BY DEF LoadedRules
    <2>2. d.id \in Nat
      BY DEF StoredPolicy, StoredDomainRule
    <2>3. QED
      BY <2>1, <2>2 DEF LoadedRule, DomainFields
  <1>2. \A l \in LoadedDestinations(r) : DestinationFields(l) /\ l.id \in Nat
    <2> SUFFICES ASSUME NEW l \in LoadedDestinations(r) PROVE DestinationFields(l) /\ l.id \in Nat
      OBVIOUS
    <2>1. PICK d \in r.destinations : l = LoadedDestination(r, d)
      BY DEF LoadedDestinations
    <2>2. d.id \in Nat
      BY DEF StoredPolicy, StoredDestinationRule
    <2>3. QED
      BY <2>1, <2>2 DEF LoadedDestination, DestinationFields
  <1>3. Likens(LoadedRules(r))
    BY <1>1, LoadedContent DEF Likens
  <1>4. Likens(LoadedDestinations(r))
    BY <1>2, LoadedContent DEF Likens
  <1>5. QED
    BY <1>3, <1>4

(* A rule of the snapshot that has a stored rule's identifier is that rule, *)
(* loaded, and no older rule with its content is.                           *)
LEMMA SelectedRow ==
  ASSUME NEW r, StoredPolicy(r), NEW rule \in r.rules, NEW chosen \in Retained(LoadedRules(r)),
         chosen.id = rule.id
  PROVE  /\ LoadsRule(r, rule) /\ chosen = LoadedRule(r, rule)
         /\ ~Unreachable(rule, r.rules)
  <1>1. PICK d \in r.rules : LoadsRule(r, d) /\ chosen = LoadedRule(r, d)
    BY DEF Retained, LoadedRules
  <1>2. d = rule
    <2>1. d.id = rule.id
      BY <1>1 DEF LoadedRule
    <2>2. QED
      BY <2>1 DEF StoredPolicy, IsTable
  <1>3. ASSUME NEW c \in DuplicatesOf(rule, r.rules), c.id < rule.id
        PROVE  FALSE
    <2>1. c \in r.rules /\ SameContent(c, rule) /\ StoredDomainRule(c) /\ StoredDomainRule(rule)
      BY DEF DuplicatesOf, StoredPolicy
    <2>2. LoadsRule(r, c) /\ SameContent(LoadedRule(r, c), chosen)
      BY <1>1, <1>2, <2>1, DuplicateRow
    <2>3. LoadedRule(r, c) \in LoadedRules(r)
      BY <2>1, <2>2 DEF LoadedRules
    <2>4. chosen.id <= LoadedRule(r, c).id
      BY <2>2, <2>3 DEF Retained
    <2>5. rule.id <= c.id
      BY <2>4 DEF LoadedRule
    <2>6. rule.id \in Nat /\ c.id \in Nat
      BY <2>1 DEF StoredDomainRule
    <2>7. QED
      BY <1>3, <2>5, <2>6
  <1>4. rule.enabled
    BY <1>1, <1>2 DEF LoadsRule
  <1>5. QED
    BY <1>1, <1>2, <1>3, <1>4 DEF Unreachable

LEMMA SelectedDestinationRow ==
  ASSUME NEW r, StoredPolicy(r), NEW rule \in r.destinations,
         NEW chosen \in Retained(LoadedDestinations(r)), chosen.id = rule.id
  PROVE  /\ LoadsDestination(r, rule) /\ chosen = LoadedDestination(r, rule)
         /\ ~Unreachable(rule, r.destinations)
  <1>1. PICK d \in r.destinations : LoadsDestination(r, d) /\ chosen = LoadedDestination(r, d)
    BY DEF Retained, LoadedDestinations
  <1>2. d = rule
    <2>1. d.id = rule.id
      BY <1>1 DEF LoadedDestination
    <2>2. QED
      BY <2>1 DEF StoredPolicy, IsTable
  <1>3. ASSUME NEW c \in DuplicatesOf(rule, r.destinations), c.id < rule.id
        PROVE  FALSE
    <2>1. /\ c \in r.destinations /\ SameContent(c, rule)
          /\ StoredDestinationRule(c) /\ StoredDestinationRule(rule)
      BY DEF DuplicatesOf, StoredPolicy
    <2>2. LoadsDestination(r, c) /\ SameContent(LoadedDestination(r, c), chosen)
      BY <1>1, <1>2, <2>1, DuplicateDestinationRow
    <2>3. LoadedDestination(r, c) \in LoadedDestinations(r)
      BY <2>1, <2>2 DEF LoadedDestinations
    <2>4. chosen.id <= LoadedDestination(r, c).id
      BY <2>2, <2>3 DEF Retained
    <2>5. rule.id <= c.id
      BY <2>4 DEF LoadedDestination
    <2>6. rule.id \in Nat /\ c.id \in Nat
      BY <2>1 DEF StoredDestinationRule
    <2>7. QED
      BY <1>3, <2>5, <2>6
  <1>4. rule.enabled
    BY <1>1, <1>2 DEF LoadsDestination
  <1>5. QED
    BY <1>1, <1>2, <1>3, <1>4 DEF Unreachable

(* A stored rule that is loaded has a rule of its content in the snapshot, *)
(* itself or an older one.                                                 *)
LEMMA RowInSnapshot ==
  ASSUME NEW r, StoredPolicy(r), NEW c \in r.rules, LoadsRule(r, c)
  PROVE  \E kept \in Retained(LoadedRules(r)) :
           /\ kept.id <= c.id /\ kept.domain = c.domain /\ kept.subdomains = c.subdomains
           /\ kept.effect = c.effect /\ kept.source = c.source /\ kept.target = c.target
           /\ kept.scope = c.scope
  <1>1. PICK l : l = LoadedRule(r, c)
    OBVIOUS
  <1>2. l \in LoadedRules(r)
    BY <1>1 DEF LoadedRules
  <1>3. PICK kept \in Retained(LoadedRules(r)) : SameContent(kept, l) /\ kept.id <= l.id
    BY <1>2, LoadedLikens, Representative
  <1>4. DomainFields(kept) /\ DomainFields(l)
    BY <1>2 DEF Retained, LoadedRules, LoadedRule, DomainFields
  <1>5. /\ kept.domain = l.domain /\ kept.subdomains = l.subdomains /\ kept.effect = l.effect
        /\ kept.source = l.source /\ kept.target = l.target /\ kept.scope = l.scope
    BY <1>3, <1>4, LoadedContent
  <1>6. QED
    BY <1>1, <1>3, <1>5 DEF LoadedRule

LEMMA DestinationRowInSnapshot ==
  ASSUME NEW r, StoredPolicy(r), NEW c \in r.destinations, LoadsDestination(r, c)
  PROVE  \E kept \in Retained(LoadedDestinations(r)) :
           /\ kept.id <= c.id /\ kept.effect = c.effect /\ kept.source = c.source
           /\ kept.transport = c.transport /\ kept.port = c.port /\ kept.net = c.net
           /\ kept.scope = c.scope
  <1>1. PICK l : l = LoadedDestination(r, c)
    OBVIOUS
  <1>2. l \in LoadedDestinations(r)
    BY <1>1 DEF LoadedDestinations
  <1>3. PICK kept \in Retained(LoadedDestinations(r)) : SameContent(kept, l) /\ kept.id <= l.id
    BY <1>2, LoadedLikens, Representative
  <1>4. DestinationFields(kept) /\ DestinationFields(l)
    BY <1>2 DEF Retained, LoadedDestinations, LoadedDestination, DestinationFields
  <1>5. /\ kept.effect = l.effect /\ kept.source = l.source /\ kept.transport = l.transport
        /\ kept.port = l.port /\ kept.net = l.net /\ kept.scope = l.scope
    BY <1>3, <1>4, LoadedContent
  <1>6. QED
    BY <1>1, <1>3, <1>5 DEF LoadedDestination

LEMMA AnalysisOfDomains ==
  ASSUME NEW r, StoredPolicy(r), NEW snapshot, SnapshotOK(snapshot),
         snapshot.rules = Retained(LoadedRules(r)),
         NEW rule \in r.rules, NEW client, NEW name, IsName(name)
  PROVE  LET relations == DomainRelations(rule, r.rules)
             match == MatchDomain(snapshot, name, client, rule.target)
         IN  /\ relations.unreachable => rule.id \notin {match.selected.id, match.enforcing.id}
             /\ (\E c \in relations.shadowing : LoadsRule(r, c)) => rule.id # match.selected.id
             /\ (rule.effect = "block"
                 /\ \E c \in relations.exceptions :
                      LoadsRule(r, c) /\ NameMatches(c, name) /\ ScopeMatches(c.scope, client))
                  => rule.id # match.selected.id
  <1>1. PICK match : match = MatchDomain(snapshot, name, client, rule.target)
    OBVIOUS
  <1>2. PICK rules : rules = Matching(snapshot, name, client, rule.target)
    OBVIOUS
  <1>3. DomainRulesOK(snapshot.rules) /\ rules \subseteq snapshot.rules
    BY <1>2 DEF SnapshotOK, Matching
  <1>4. \A x \in rules : RuleOK(x)
    BY <1>3 DEF DomainRulesOK, DomainRuleOK
  <1>5. PICK few \in SUBSET rules : IsDomainChoice(match.enforcing, few)
    BY <1>1, <1>2, <1>3, DomainDecision
  <1>6. IsDomainChoice(match.selected, rules)
    BY <1>1, <1>2, <1>3, DomainDecision
  <1>7. rule.id \in Nat \ {0}
    BY DEF StoredPolicy, StoredDomainRule
  <1>8. /\ rule.id = match.selected.id => match.selected \in rules
        /\ rule.id = match.enforcing.id => match.enforcing \in rules
    BY <1>4, <1>5, <1>6, <1>7, ChosenEffect DEF Found
  <1>9. Unreachable(rule, r.rules) => rule.id \notin {match.selected.id, match.enforcing.id}
    BY <1>3, <1>8, SelectedRow
  <1>10. ASSUME rule.id = match.selected.id
         PROVE  /\ match.selected \in rules /\ match.selected = LoadedRule(r, rule)
                /\ match.selected.source = rule.source /\ match.selected.effect = rule.effect
                /\ match.selected.scope = rule.scope /\ match.selected.domain = rule.domain
                /\ match.selected.subdomains = rule.subdomains
    <2>1. match.selected = LoadedRule(r, rule)
      BY <1>3, <1>8, <1>10, SelectedRow
    <2>2. QED
      BY <1>8, <1>10, <2>1 DEF LoadedRule
  <1>11. ASSUME NEW kept \in rules, kept # match.selected
         PROVE  \/ Priority(match.selected) > Priority(kept)
                \/ /\ Priority(match.selected) = Priority(kept)
                   /\ \/ Len(match.selected.domain) > Len(kept.domain)
                      \/ Len(match.selected.domain) = Len(kept.domain) /\ match.selected.id < kept.id
    <2>1. /\ match.selected \in rules
          /\ \/ ClassOf(match.selected) < ClassOf(kept)
             \/ /\ ClassOf(match.selected) = ClassOf(kept)
                /\ \/ Len(match.selected.domain) > Len(kept.domain)
                   \/ Len(match.selected.domain) = Len(kept.domain) /\ match.selected.id < kept.id
      BY <1>6, <1>11 DEF IsDomainChoice
    <2>2. QED
      BY <1>4, <2>1, ClassOrder
  <1>12. ASSUME NEW c \in ShadowingOf(rule, DomainPeersOf(rule, r.rules)), LoadsRule(r, c),
                rule.id = match.selected.id
         PROVE  FALSE
    <2>1. /\ c \in r.rules /\ c.id # rule.id /\ SameDomainMatch(c, rule)
          /\ \/ Priority(c) > Priority(rule)
             \/ Priority(c) = Priority(rule) /\ c.id < rule.id
      BY DEF ShadowingOf, DomainPeersOf, Rivals
    <2>2. PICK kept \in snapshot.rules :
            /\ kept.id <= c.id /\ kept.domain = c.domain /\ kept.subdomains = c.subdomains
            /\ kept.effect = c.effect /\ kept.source = c.source /\ kept.target = c.target
            /\ kept.scope = c.scope
      BY <1>12, <2>1, RowInSnapshot
    <2>3. /\ kept.domain = rule.domain /\ kept.subdomains = rule.subdomains
          /\ kept.target = rule.target /\ kept.scope = rule.scope
      BY <2>1, <2>2 DEF SameDomainMatch
    <2>4. kept \in rules
      <3>1. match.selected \in rules
        BY <1>8, <1>12
      <3>2. NameMatches(kept, name) <=> NameMatches(match.selected, name)
        BY <1>10, <1>12, <2>3 DEF NameMatches
      <3>3. QED
        BY <1>2, <1>10, <1>12, <2>3, <3>1, <3>2 DEF Matching
    <2>5. Priority(kept) = Priority(c) /\ Priority(match.selected) = Priority(rule)
      BY <1>10, <1>12, <2>2 DEF Priority
    <2>6. /\ Priority(c) \in Nat /\ Priority(rule) \in Nat
          /\ kept.id \in Nat /\ c.id \in Nat /\ Len(kept.domain) \in Nat
      <3>1. StoredDomainRule(c) /\ DomainRuleOK(kept)
        BY <1>3, <2>1, <2>2 DEF StoredPolicy, DomainRulesOK
      <3>2. QED
        BY <3>1, PriorityType, NameLength DEF StoredDomainRule, DomainRuleOK, RuleOK
    <2>7. Len(match.selected.domain) = Len(kept.domain)
      BY <1>10, <1>12, <2>3
    <2>8. CASE kept = match.selected
      BY <1>7, <1>12, <2>1, <2>2, <2>5, <2>6, <2>8
    <2>9. CASE kept # match.selected
      BY <1>7, <1>11, <1>12, <2>1, <2>2, <2>4, <2>5, <2>6, <2>7, <2>9
    <2>10. QED
      BY <2>8, <2>9
  <1>13. ASSUME rule.effect = "block", rule.id = match.selected.id,
                NEW c \in AllowExceptionsOf(rule, r.rules), LoadsRule(r, c), NameMatches(c, name),
                ScopeMatches(c.scope, client)
         PROVE  FALSE
    <2>1. c \in r.rules /\ c.effect = "allow" /\ c.target = rule.target
      BY <1>13 DEF AllowExceptionsOf, Rivals
    <2>2. PICK kept \in snapshot.rules :
            /\ kept.id <= c.id /\ kept.domain = c.domain /\ kept.subdomains = c.subdomains
            /\ kept.effect = c.effect /\ kept.source = c.source /\ kept.target = c.target
            /\ kept.scope = c.scope
      BY <1>13, <2>1, RowInSnapshot
    <2>3. kept \in rules
      <3>1. NameMatches(kept, name)
        BY <1>13, <2>2 DEF NameMatches
      <3>2. QED
        BY <1>2, <1>13, <2>1, <2>2, <3>1 DEF Matching
    <2>4. kept # match.selected
      BY <1>10, <1>13, <2>1, <2>2
    <2>5. Priority(kept) >= 4
      <3>1. kept.source \in {"explicit", "emergency"}
        BY <1>4, <2>1, <2>2, <2>3 DEF RuleOK, EffectSourceValid
      <3>2. QED
        BY <2>1, <2>2, <3>1 DEF Priority
    <2>6. Priority(match.selected) <= 3
      <3>1. /\ match.selected.effect = "block"
            /\ match.selected.source \in {"explicit", "blocklist"}
        BY <1>4, <1>10, <1>13 DEF RuleOK, EffectSourceValid
      <3>2. QED
        BY <3>1 DEF Priority
    <2>7. Priority(kept) \in Nat /\ Priority(match.selected) \in Nat
      BY PriorityType
    <2>8. QED
      BY <1>11, <2>3, <2>4, <2>5, <2>6, <2>7
  <1>14. PICK relations : relations = DomainRelations(rule, r.rules)
    OBVIOUS
  <1>15. /\ relations.unreachable <=> Unreachable(rule, r.rules)
         /\ relations.shadowing = ShadowingOf(rule, DomainPeersOf(rule, r.rules))
         /\ relations.exceptions = AllowExceptionsOf(rule, r.rules)
    BY <1>14 DEF DomainRelations
  <1>16. QED
    BY <1>1, <1>9, <1>12, <1>13, <1>14, <1>15

LEMMA AnalysisOfDestinations ==
  ASSUME NEW r, StoredPolicy(r), NEW snapshot, SnapshotOK(snapshot),
         snapshot.destinations = Retained(LoadedDestinations(r)),
         NEW rule \in r.destinations, NEW client, NEW to
  PROVE  LET relations == DestinationRelations(rule, r.destinations)
             match == MatchDestination(snapshot, to, client)
         IN  /\ relations.unreachable => rule.id \notin {match.selected.id, match.enforcing.id}
             /\ (\E c \in relations.shadowing : LoadsDestination(r, c))
                  => rule.id # match.selected.id
  <1>1. PICK match : match = MatchDestination(snapshot, to, client)
    OBVIOUS
  <1>2. PICK rules : rules = {d \in snapshot.destinations : DestinationRuleMatches(d, to, client)}
    OBVIOUS
  <1>3. DestinationRulesOK(snapshot.destinations) /\ rules \subseteq snapshot.destinations
    BY <1>2 DEF SnapshotOK
  <1>4. \A x \in rules : RuleOK(x)
    BY <1>3 DEF DestinationRulesOK, DestinationRuleOK
  <1>5. PICK few \in SUBSET rules : IsDestinationChoice(match.enforcing, few)
    BY <1>1, <1>2, <1>3, DestinationDecision
  <1>6. IsDestinationChoice(match.selected, rules)
    BY <1>1, <1>2, <1>3, DestinationDecision
  <1>7. rule.id \in Nat \ {0}
    BY DEF StoredPolicy, StoredDestinationRule
  <1>8. /\ rule.id = match.selected.id => match.selected \in rules
        /\ rule.id = match.enforcing.id => match.enforcing \in rules
    BY <1>4, <1>5, <1>6, <1>7, ChosenEffect DEF Found
  <1>9. Unreachable(rule, r.destinations) => rule.id \notin {match.selected.id, match.enforcing.id}
    BY <1>3, <1>8, SelectedDestinationRow
  <1>10. ASSUME rule.id = match.selected.id
         PROVE  /\ match.selected \in rules /\ match.selected = LoadedDestination(r, rule)
                /\ match.selected.source = rule.source /\ match.selected.effect = rule.effect
                /\ match.selected.scope = rule.scope /\ match.selected.transport = rule.transport
                /\ match.selected.port = rule.port /\ match.selected.net = rule.net
    <2>1. match.selected = LoadedDestination(r, rule)
      BY <1>3, <1>8, <1>10, SelectedDestinationRow
    <2>2. QED
      BY <1>8, <1>10, <2>1 DEF LoadedDestination
  <1>11. ASSUME NEW kept \in rules, kept # match.selected
         PROVE  \/ Priority(match.selected) > Priority(kept)
                \/ /\ Priority(match.selected) = Priority(kept)
                   /\ \/ Finer(Details(match.selected), Details(kept))
                      \/ Details(match.selected) = Details(kept) /\ match.selected.id < kept.id
    <2>1. /\ match.selected \in rules
          /\ \/ ClassOf(match.selected) < ClassOf(kept)
             \/ /\ ClassOf(match.selected) = ClassOf(kept)
                /\ \/ Finer(Details(match.selected), Details(kept))
                   \/ Details(match.selected) = Details(kept) /\ match.selected.id < kept.id
      <3>1. rules # {}
        BY <1>11
      <3>2. QED
        BY <1>6, <1>11, <3>1, DestinationChoiceIs
    <2>2. QED
      BY <1>4, <2>1, ClassOrder
  <1>12. ASSUME NEW c \in ShadowingOf(rule, DestinationPeersOf(rule, r.destinations)),
                LoadsDestination(r, c), rule.id = match.selected.id
         PROVE  FALSE
    <2>1. /\ c \in r.destinations /\ c.id # rule.id /\ SameDestinationMatch(c, rule)
          /\ \/ Priority(c) > Priority(rule)
             \/ Priority(c) = Priority(rule) /\ c.id < rule.id
      BY DEF ShadowingOf, DestinationPeersOf, Rivals
    <2>2. PICK kept \in snapshot.destinations :
            /\ kept.id <= c.id /\ kept.effect = c.effect /\ kept.source = c.source
            /\ kept.transport = c.transport /\ kept.port = c.port /\ kept.net = c.net
            /\ kept.scope = c.scope
      BY <1>12, <2>1, DestinationRowInSnapshot
    <2>3. /\ kept.transport = rule.transport /\ kept.port = rule.port /\ kept.net = rule.net
          /\ kept.scope = rule.scope
      BY <2>1, <2>2 DEF SameDestinationMatch
    <2>4. kept \in rules
      <3>1. match.selected \in rules
        BY <1>8, <1>12
      <3>2. DestinationRuleMatches(kept, to, client)
              <=> DestinationRuleMatches(match.selected, to, client)
        BY <1>10, <1>12, <2>3 DEF DestinationRuleMatches
      <3>3. QED
        BY <1>2, <3>1, <3>2
    <2>5. Priority(kept) = Priority(c) /\ Priority(match.selected) = Priority(rule)
      BY <1>10, <1>12, <2>2 DEF Priority
    <2>6. /\ Priority(c) \in Nat /\ Priority(rule) \in Nat /\ kept.id \in Nat /\ c.id \in Nat
          /\ NetShape(kept) /\ NetShape(match.selected)
      <3>1. /\ StoredDestinationRule(c) /\ DestinationRuleOK(kept)
            /\ DestinationRuleOK(match.selected)
        BY <1>3, <1>8, <1>12, <2>1, <2>2 DEF StoredPolicy, DestinationRulesOK
      <3>2. QED
        BY <3>1, PriorityType DEF StoredDestinationRule, DestinationRuleOK, RuleOK
    <2>7. Details(match.selected) = Details(kept)
      BY <1>10, <1>12, <2>3 DEF Details, NetDetail
    <2>8. ~Finer(Details(match.selected), Details(kept))
      BY <2>6, <2>7, FinerIsStrict
    <2>9. CASE kept = match.selected
      BY <1>7, <1>12, <2>1, <2>2, <2>5, <2>6, <2>9
    <2>10. CASE kept # match.selected
      BY <1>7, <1>11, <1>12, <2>1, <2>2, <2>4, <2>5, <2>6, <2>8, <2>10
    <2>11. QED
      BY <2>9, <2>10
  <1>13. PICK relations : relations = DestinationRelations(rule, r.destinations)
    OBVIOUS
  <1>14. /\ relations.unreachable <=> Unreachable(rule, r.destinations)
         /\ relations.shadowing = ShadowingOf(rule, DestinationPeersOf(rule, r.destinations))
    BY <1>13 DEF DestinationRelations
  <1>15. QED
    BY <1>1, <1>9, <1>12, <1>13, <1>14

(* What the analysis says of the stored rules is true of every decision    *)
(* while the snapshot is that of the rows: an unreachable rule decides     *)
(* nothing, a shadowed one and a block with an exception are not selected  *)
(* (jg_database_analyze_policy_rule against the matchers).                 *)
THEOREM AnalysesAreSound == Spec => []AnalysisIsSound
  <1>1. ASSUME PolicyInv PROVE AnalysisIsSound
    <2> SUFFICES ASSUME Reflects
                 PROVE  /\ \A rule \in rows.rules, client \in Clients, name \in Names :
                             LET relations == DomainRelations(rule, rows.rules)
                                 match == MatchDomain(active, name, client, rule.target)
                             IN  /\ relations.unreachable =>
                                      rule.id \notin {match.selected.id, match.enforcing.id}
                                 /\ (\E c \in relations.shadowing : LoadsRule(rows, c))
                                      => rule.id # match.selected.id
                                 /\ (rule.effect = "block"
                                     /\ \E c \in relations.exceptions :
                                          LoadsRule(rows, c) /\ NameMatches(c, name)
                                          /\ ScopeMatches(c.scope, client))
                                      => rule.id # match.selected.id
                        /\ \A rule \in rows.destinations, client \in Clients, to \in Destinations :
                             LET relations == DestinationRelations(rule, rows.destinations)
                                 match == MatchDestination(active, to, client)
                             IN  /\ relations.unreachable =>
                                      rule.id \notin {match.selected.id, match.enforcing.id}
                                 /\ (\E c \in relations.shadowing : LoadsDestination(rows, c))
                                      => rule.id # match.selected.id
      BY DEF AnalysisIsSound
    <2>1. /\ StoredPolicy(rows) /\ SnapshotOK(active) /\ active = Build(Loaded(rows))
      BY <1>1 DEF PolicyInv, Reflects
    <2>2. /\ active.rules = Retained(LoadedRules(rows))
          /\ active.destinations = Retained(LoadedDestinations(rows))
      BY <2>1, SnapshotIs
    <2>3. \A name \in Names : IsName(name)
      BY PolicyAssumption
    <2>4. QED
      BY <2>1, <2>2, <2>3, AnalysisOfDomains, AnalysisOfDestinations
  <1>2. QED
    BY <1>1, PolicyInvHolds, PTL

-----------------------------------------------------------------------------
(* The budgets of the statistics *)

(* The keys of the rows of a set, the rows with a key, and how often each  *)
(* key occurs                                                              *)
Keys(S, key) == {key[r] : r \in S}
Keyed(S, key, k) == {r \in S : key[r] = k}
Tally(S, key) == [k \in Keys(S, key) |-> Cardinality(Keyed(S, key, k))]

LEMMA KeyedFinite ==
  ASSUME NEW S, IsFiniteSet(S), NEW key, NEW k
  PROVE  /\ IsFiniteSet(Keyed(S, key, k)) /\ Cardinality(Keyed(S, key, k)) \in Nat
         /\ (k \in Keys(S, key) <=> Cardinality(Keyed(S, key, k)) # 0)
  <1>1. IsFiniteSet(Keyed(S, key, k)) /\ Cardinality(Keyed(S, key, k)) \in Nat
    BY FS_Subset, FS_CardinalityType DEF Keyed
  <1>2. Cardinality(Keyed(S, key, k)) = 0 <=> Keyed(S, key, k) = {}
    BY <1>1, FS_EmptySet
  <1>3. k \in Keys(S, key) <=> Keyed(S, key, k) # {}
    BY DEF Keys, Keyed
  <1>4. QED
    BY <1>1, <1>2, <1>3

(* A row more has its key counted once more. *)
LEMMA TallyInsert ==
  ASSUME NEW S, IsFiniteSet(S), NEW key, NEW x, x \notin S
  PROVE  Tally(S, key) (+) SetToBag({key[x]}) = Tally(S \cup {x}, key)
  <1> DEFINE T == S \cup {x}
             More(k) == (IF k \in Keys(S, key) THEN Cardinality(Keyed(S, key, k)) ELSE 0)
                        + (IF k = key[x] THEN 1 ELSE 0)
             A == Tally(S, key)
             B == [k \in {key[x]} |-> 1]
  <1>1. Cardinality(Keyed(T, key, key[x])) = Cardinality(Keyed(S, key, key[x])) + 1
    <2>1. Keyed(T, key, key[x]) = Keyed(S, key, key[x]) \cup {x} /\ x \notin Keyed(S, key, key[x])
      BY DEF Keyed
    <2>2. QED
      BY <2>1, KeyedFinite, FS_AddElement
  <1>2. \A k : k # key[x] => Keyed(T, key, k) = Keyed(S, key, k)
    BY DEF Keyed
  <1>3. \A k : More(k) = Cardinality(Keyed(T, key, k))
    <2>1. SUFFICES ASSUME NEW k PROVE More(k) = Cardinality(Keyed(T, key, k))
      OBVIOUS
    <2>2. /\ Cardinality(Keyed(S, key, k)) \in Nat
          /\ (k \in Keys(S, key) <=> Cardinality(Keyed(S, key, k)) # 0)
      BY KeyedFinite
    <2> HIDE DEF T
    <2>3. QED
      BY <1>1, <1>2, <2>2
  <1>4. Keys(T, key) = Keys(S, key) \cup {key[x]}
    BY DEF Keys
  <1>5. A (+) B = [k \in Keys(T, key) |-> More(k)]
    <2>1. DOMAIN A = Keys(S, key) /\ \A k \in DOMAIN A : A[k] = Cardinality(Keyed(S, key, k))
      BY DEF Tally
    <2> HIDE DEF A, T
    <2>2. A (+) B = [k \in Keys(T, key) |-> (IF k \in DOMAIN A THEN A[k] ELSE 0)
                                            + (IF k \in DOMAIN B THEN B[k] ELSE 0)]
      BY <1>4, <2>1 DEF (+)
    <2>3. QED
      BY <2>1, <2>2
  <1>6. SetToBag({key[x]}) = B
    BY DEF SetToBag
  <1>7. Tally(T, key) = [k \in Keys(T, key) |-> Cardinality(Keyed(T, key, k))]
    BY DEF Tally
  <1> HIDE DEF A, B, T, More
  <1>8. QED
    BY <1>3, <1>5, <1>6, <1>7 DEF A, T

(* A row less gives one back, and a key without rows is gone. *)
LEMMA TallyDelete ==
  ASSUME NEW S, IsFiniteSet(S), NEW key, NEW x \in S
  PROVE  Tally(S, key) (-) SetToBag({key[x]}) = Tally(S \ {x}, key)
  <1> DEFINE T == S \ {x}
             Less(k) == IF k = key[x] THEN Cardinality(Keyed(S, key, k)) - 1
                        ELSE Cardinality(Keyed(S, key, k))
             A == Tally(S, key)
             B == [k \in {key[x]} |-> 1]
             D == [k \in Keys(S, key) |-> Less(k)]
  <1>1. Cardinality(Keyed(T, key, key[x])) = Cardinality(Keyed(S, key, key[x])) - 1
    <2>1. Keyed(T, key, key[x]) = Keyed(S, key, key[x]) \ {x} /\ x \in Keyed(S, key, key[x])
      BY DEF Keyed
    <2>2. QED
      BY <2>1, KeyedFinite, FS_RemoveElement
  <1>2. \A k : k # key[x] => Keyed(T, key, k) = Keyed(S, key, k)
    BY DEF Keyed
  <1>3. \A k : Less(k) = Cardinality(Keyed(T, key, k))
    <2> HIDE DEF T
    <2>1. QED
      BY <1>1, <1>2
  <1>4. IsFiniteSet(T)
    BY FS_RemoveElement
  <1> HIDE DEF Less
  <1>5. {k \in Keys(S, key) : Less(k) > 0} = Keys(T, key)
    <2>1. ASSUME NEW k PROVE Less(k) \in Nat /\ (k \in Keys(T, key) <=> Less(k) # 0)
      <3> HIDE DEF T
      <3>1. QED
        BY <1>3, <1>4, KeyedFinite
    <2>2. Keys(T, key) \subseteq Keys(S, key)
      BY DEF Keys
    <2> HIDE DEF T
    <2>3. QED
      BY <2>1, <2>2
  <1>6. A (-) B = [k \in {d \in DOMAIN D : D[d] > 0} |-> D[k]]
    <2>1. DOMAIN A = Keys(S, key) /\ \A k \in DOMAIN A : A[k] = Cardinality(Keyed(S, key, k))
      BY DEF Tally
    <2> HIDE DEF A
    <2>2. [k \in DOMAIN A |-> IF k \in DOMAIN B THEN A[k] - B[k] ELSE A[k]] = D
      BY <2>1 DEF Less
    <2> HIDE DEF B, D
    <2>3. QED
      BY <2>2 DEF (-)
  <1>7. SetToBag({key[x]}) = B
    BY DEF SetToBag
  <1>8. Tally(T, key) = [k \in Keys(T, key) |-> Cardinality(Keyed(T, key, k))]
    BY DEF Tally
  <1>9. \A k \in Keys(T, key) : k \in Keys(S, key)
    BY DEF Keys
  <1>10. A (-) B = [k \in Keys(T, key) |-> Less(k)]
    <2> HIDE DEF A, B, T
    <2>1. {d \in DOMAIN D : D[d] > 0} = Keys(T, key)
      BY <1>5
    <2>2. \A k \in Keys(T, key) : D[k] = Less(k)
      BY <1>9
    <2> HIDE DEF D
    <2>3. QED
      BY <1>6, <2>1, <2>2
  <1> HIDE DEF A, B, D, T
  <1>11. QED
    BY <1>3, <1>7, <1>8, <1>10 DEF A, T
LEMMA TallySame ==
  ASSUME NEW S, NEW f, NEW g, \A r \in S : f[r] = g[r]
  PROVE  Tally(S, f) = Tally(S, g)
  <1>1. Keys(S, f) = Keys(S, g) /\ \A k : Keyed(S, f, k) = Keyed(S, g, k)
    BY DEF Keys, Keyed
  <1>2. QED
    BY <1>1 DEF Tally

(* Nothing added or taken away *)
LEMMA TallyAndNothing ==
  ASSUME NEW S, IsFiniteSet(S), NEW key
  PROVE  Tally(S, key) (+) EmptyBag = Tally(S, key) /\ Tally(S, key) (-) EmptyBag = Tally(S, key)
  <1> DEFINE A == Tally(S, key)
  <1>1. A = [k \in DOMAIN A |-> A[k]]
    BY DEF Tally
  <1>2. \A k \in DOMAIN A : A[k] \in Nat /\ A[k] > 0
    <2>1. DOMAIN A = Keys(S, key) /\ \A k \in DOMAIN A : A[k] = Cardinality(Keyed(S, key, k))
      BY DEF Tally
    <2> HIDE DEF A
    <2>2. QED
      BY <2>1, KeyedFinite
  <1> HIDE DEF A
  <1> DEFINE N == EmptyBag
  <1>3. DOMAIN N = {}
    BY DEF EmptyBag, SetToBag
  <1> HIDE DEF N
  <1>4. A (+) N = A
    <2>1. A (+) N = [k \in DOMAIN A \cup DOMAIN N |-> (IF k \in DOMAIN A THEN A[k] ELSE 0)
                                                      + (IF k \in DOMAIN N THEN N[k] ELSE 0)]
      BY DEF (+)
    <2>2. A (+) N = [k \in DOMAIN A |-> A[k]]
      BY <1>2, <1>3, <2>1
    <2>3. QED
      BY <1>1, <2>2
  <1>5. A (-) N = A
    <2> DEFINE D == [k \in DOMAIN A |-> IF k \in DOMAIN N THEN A[k] - N[k] ELSE A[k]]
    <2>1. D = A
      BY <1>1, <1>3
    <2>2. A (-) N = [k \in {d \in DOMAIN D : D[d] > 0} |-> D[k]]
      BY DEF (-)
    <2> HIDE DEF D
    <2>3. {d \in DOMAIN A : A[d] > 0} = DOMAIN A
      BY <1>2
    <2>4. QED
      BY <1>1, <2>1, <2>2, <2>3
  <1>6. QED
    BY <1>4, <1>5 DEF A, N

(* What the two budgets are to hold, and the statistics with budgets that  *)
(* hold it                                                                 *)
HourBag(I) == Tally(I, [r \in I |-> HourKey(r)])

Named(I) == {r \in I : r.domain # <<>>}
NameBag(I) == Tally(Named(I), [r \in Named(I) |-> NameKey(r)])

Exact(l, I, t) ==
  [lifetime |-> l, impact |-> I, traffic |-> t,
   rows |-> Cardinality(I), hourly |-> HourBag(I), names |-> NameBag(I)]

LEMMA BagsInsert ==
  ASSUME NEW I, IsFiniteSet(I), NEW x, x \notin I
  PROVE  /\ HourBag(I) (+) SetToBag({HourKey(x)}) = HourBag(I \cup {x})
         /\ NameBag(I) (+) NameKeysOf(x) = NameBag(I \cup {x})
  <1> DEFINE J == I \cup {x}
  <1>1. HourBag(I) (+) SetToBag({HourKey(x)}) = HourBag(J)
    <2> DEFINE f == [r \in J |-> HourKey(r)]
    <2>1. HourBag(I) = Tally(I, f)
      BY TallySame DEF HourBag
    <2>2. HourBag(J) = Tally(J, f) /\ f[x] = HourKey(x)
      BY DEF HourBag
    <2> HIDE DEF f
    <2>3. QED
      BY <2>1, <2>2, TallyInsert
  <1>2. CASE x.domain = <<>>
    <2>1. Named(J) = Named(I) /\ NameKeysOf(x) = EmptyBag /\ IsFiniteSet(Named(I))
      BY <1>2, FS_Subset DEF Named, NameKeysOf
    <2>2. NameBag(J) = NameBag(I)
      BY <2>1 DEF NameBag
    <2>3. NameBag(I) (+) EmptyBag = NameBag(I)
      BY <2>1, TallyAndNothing DEF NameBag
    <2>4. QED
      BY <1>1, <2>1, <2>2, <2>3
  <1>3. CASE x.domain # <<>>
    <2> DEFINE f == [r \in Named(J) |-> NameKey(r)]
    <2>1. /\ Named(J) = Named(I) \cup {x} /\ x \notin Named(I) /\ IsFiniteSet(Named(I))
          /\ NameKeysOf(x) = SetToBag({NameKey(x)})
      BY <1>3, FS_Subset DEF Named, NameKeysOf
    <2>2. NameBag(I) = Tally(Named(I), f)
      BY <2>1, TallySame DEF NameBag
    <2>3. NameBag(J) = Tally(Named(J), f) /\ f[x] = NameKey(x)
      BY <2>1 DEF NameBag
    <2> HIDE DEF f
    <2>4. QED
      BY <1>1, <2>1, <2>2, <2>3, TallyInsert
  <1>4. QED
    BY <1>2, <1>3

LEMMA BagsDelete ==
  ASSUME NEW I, IsFiniteSet(I), NEW x \in I
  PROVE  /\ HourBag(I) (-) SetToBag({HourKey(x)}) = HourBag(I \ {x})
         /\ NameBag(I) (-) NameKeysOf(x) = NameBag(I \ {x})
  <1> DEFINE J == I \ {x}
  <1>1. HourBag(I) (-) SetToBag({HourKey(x)}) = HourBag(J)
    <2> DEFINE f == [r \in I |-> HourKey(r)]
    <2>1. HourBag(J) = Tally(J, f)
      BY TallySame DEF HourBag
    <2>2. HourBag(I) = Tally(I, f) /\ f[x] = HourKey(x)
      BY DEF HourBag
    <2> HIDE DEF f
    <2>3. QED
      BY <2>1, <2>2, TallyDelete
  <1>2. CASE x.domain = <<>>
    <2>1. Named(J) = Named(I) /\ NameKeysOf(x) = EmptyBag /\ IsFiniteSet(Named(I))
      BY <1>2, FS_Subset DEF Named, NameKeysOf
    <2>2. NameBag(J) = NameBag(I)
      BY <2>1 DEF NameBag
    <2>3. NameBag(I) (-) EmptyBag = NameBag(I)
      BY <2>1, TallyAndNothing DEF NameBag
    <2>4. QED
      BY <1>1, <2>1, <2>2, <2>3
  <1>3. CASE x.domain # <<>>
    <2> DEFINE f == [r \in Named(I) |-> NameKey(r)]
    <2>1. /\ Named(J) = Named(I) \ {x} /\ x \in Named(I) /\ IsFiniteSet(Named(I))
          /\ NameKeysOf(x) = SetToBag({NameKey(x)})
      BY <1>3, FS_Subset DEF Named, NameKeysOf
    <2>2. NameBag(J) = Tally(Named(J), f)
      BY <2>1, TallySame DEF NameBag
    <2>3. NameBag(I) = Tally(Named(I), f) /\ f[x] = NameKey(x)
      BY <2>1 DEF NameBag
    <2> HIDE DEF f
    <2>4. QED
      BY <1>1, <2>1, <2>2, <2>3, TallyDelete
  <1>4. QED
    BY <1>2, <1>3

(* Fields replaced one after the other *)
LEMMA FourReplaced ==
  ASSUME NEW h, NEW i, NEW n, NEW b, NEW c
  PROVE  [h EXCEPT !.impact = i, !.rows = n, !.hourly = b, !.names = c]
           = [[[[h EXCEPT !.impact = i] EXCEPT !.rows = n] EXCEPT !.hourly = b] EXCEPT !.names = c]
  OBVIOUS

Replaced(h, i, n, b, c) == [h EXCEPT !.impact = i, !.rows = n, !.hourly = b, !.names = c]

LEMMA StatisticsReplaced ==
  ASSUME NEW l, NEW i, NEW t, NEW n, NEW b, NEW c, NEW h,
         h = [lifetime |-> l, impact |-> i, traffic |-> t, rows |-> n, hourly |-> b, names |-> c],
         NEW i2, NEW n2, NEW b2, NEW c2
  PROVE  Replaced(h, i2, n2, b2, c2)
           = [lifetime |-> l, impact |-> i2, traffic |-> t, rows |-> n2, hourly |-> b2,
              names |-> c2]
  <1>1. PICK h1 : h1 = [h EXCEPT !.impact = i2]
    OBVIOUS
  <1>2. h1 = [lifetime |-> l, impact |-> i2, traffic |-> t, rows |-> n, hourly |-> b, names |-> c]
    BY <1>1
  <1>3. PICK h2 : h2 = [h1 EXCEPT !.rows = n2]
    OBVIOUS
  <1>4. h2 = [lifetime |-> l, impact |-> i2, traffic |-> t, rows |-> n2, hourly |-> b, names |-> c]
    BY <1>2, <1>3
  <1>5. PICK h3 : h3 = [h2 EXCEPT !.hourly = b2]
    OBVIOUS
  <1>6. h3 = [lifetime |-> l, impact |-> i2, traffic |-> t, rows |-> n2, hourly |-> b2, names |-> c]
    BY <1>4, <1>5
  <1>7. PICK h4 : h4 = [h3 EXCEPT !.names = c2]
    OBVIOUS
  <1>8. h4 = [lifetime |-> l, impact |-> i2, traffic |-> t, rows |-> n2, hourly |-> b2, names |-> c2]
    BY <1>6, <1>7
  <1>9. QED
    BY <1>1, <1>3, <1>5, <1>7, <1>8, FourReplaced DEF Replaced

(* The triggers keep exact statistics exact. *)
LEMMA InsertIsExact ==
  ASSUME NEW l, NEW I, NEW t, IsFiniteSet(I), NEW x, x \notin I
  PROVE  CountInsert(Exact(l, I, t), x) = Exact(l, I \cup {x}, t)
  <1>1. Cardinality(I \cup {x}) = Cardinality(I) + 1
    BY FS_AddElement
  <1>2. CountInsert(Exact(l, I, t), x)
          = [lifetime |-> l, impact |-> I \cup {x}, traffic |-> t, rows |-> Cardinality(I) + 1,
             hourly |-> HourBag(I) (+) SetToBag({HourKey(x)}),
             names |-> NameBag(I) (+) NameKeysOf(x)]
    <2>1. PICK h : h = Exact(l, I, t)
      OBVIOUS
    <2>2. h = [lifetime |-> l, impact |-> I, traffic |-> t,
               rows |-> Cardinality(I), hourly |-> HourBag(I), names |-> NameBag(I)]
      BY <2>1 DEF Exact
    <2>3. CountInsert(h, x) = [h EXCEPT !.impact = I \cup {x}, !.rows = Cardinality(I) + 1,
                                        !.hourly = HourBag(I) (+) SetToBag({HourKey(x)}),
                                        !.names = NameBag(I) (+) NameKeysOf(x)]
      BY <2>2 DEF CountInsert
    <2>4. PICK i2, n2, b2, c2 :
            /\ i2 = I \cup {x} /\ n2 = Cardinality(I) + 1
            /\ b2 = HourBag(I) (+) SetToBag({HourKey(x)}) /\ c2 = NameBag(I) (+) NameKeysOf(x)
      OBVIOUS
    <2>5. Replaced(h, i2, n2, b2, c2)
            = [lifetime |-> l, impact |-> i2, traffic |-> t, rows |-> n2, hourly |-> b2,
               names |-> c2]
      BY <2>2, StatisticsReplaced
    <2>6. QED
      BY <2>1, <2>3, <2>4, <2>5 DEF Replaced
  <1>3. QED
    BY <1>1, <1>2, BagsInsert DEF Exact

LEMMA DeleteIsExact ==
  ASSUME NEW l, NEW I, NEW t, IsFiniteSet(I), NEW x \in I
  PROVE  CountDelete(Exact(l, I, t), x) = Exact(l, I \ {x}, t)
  <1>1. Cardinality(I \ {x}) = Cardinality(I) - 1 /\ Cardinality(I) # 0
    BY FS_RemoveElement, FS_CardinalityType, FS_EmptySet
  <1>2. CountDelete(Exact(l, I, t), x)
          = [lifetime |-> l, impact |-> I \ {x}, traffic |-> t,
             rows |-> IF Cardinality(I) = 0 THEN 0 ELSE Cardinality(I) - 1,
             hourly |-> HourBag(I) (-) SetToBag({HourKey(x)}),
             names |-> NameBag(I) (-) NameKeysOf(x)]
    <2>1. PICK h : h = Exact(l, I, t)
      OBVIOUS
    <2>2. h = [lifetime |-> l, impact |-> I, traffic |-> t,
               rows |-> Cardinality(I), hourly |-> HourBag(I), names |-> NameBag(I)]
      BY <2>1 DEF Exact
    <2>3. CountDelete(h, x) = [h EXCEPT !.impact = I \ {x}, !.rows = IF Cardinality(I) = 0 THEN 0 ELSE Cardinality(I) - 1,
                                        !.hourly = HourBag(I) (-) SetToBag({HourKey(x)}),
                                        !.names = NameBag(I) (-) NameKeysOf(x)]
      BY <2>2 DEF CountDelete
    <2>4. PICK i2, n2, b2, c2 :
            /\ i2 = I \ {x} /\ n2 = (IF Cardinality(I) = 0 THEN 0 ELSE Cardinality(I) - 1)
            /\ b2 = HourBag(I) (-) SetToBag({HourKey(x)}) /\ c2 = NameBag(I) (-) NameKeysOf(x)
      OBVIOUS
    <2>5. Replaced(h, i2, n2, b2, c2)
            = [lifetime |-> l, impact |-> i2, traffic |-> t, rows |-> n2, hourly |-> b2,
               names |-> c2]
      BY <2>2, StatisticsReplaced
    <2>6. QED
      BY <2>1, <2>3, <2>4, <2>5 DEF Replaced
  <1>3. QED
    BY <1>1, <1>2, BagsDelete DEF Exact

(* A batch of deletions *)
LEMMA BatchIsExact ==
  ASSUME NEW l, NEW I, NEW t, IsFiniteSet(I), NEW batch \in SUBSET I
  PROVE  DeleteImpact(Exact(l, I, t), batch) = Exact(l, I \ batch, t)
  <1> DEFINE h == Exact(l, I, t)
             Ch == Chosen(batch)
             Is(iter) ==
               iter = [s \in SUBSET batch |->
                         IF s = {} THEN h
                         ELSE CountDelete(iter[s \ {CHOOSE x \in s : TRUE}], CHOOSE x \in s : TRUE)]
             f == [s \in SUBSET batch |-> Exact(l, I \ s, t)]
  <1>1. Chooses(Ch, batch) /\ IsFiniteSet(batch)
    BY ChosenChooses, FS_Subset
  <1>2. ASSUME NEW s \in SUBSET batch, s # {}, NEW x \in s
        PROVE  CountDelete(Exact(l, I \ (s \ {x}), t), x) = Exact(l, I \ s, t)
    <2>1. x \in I \ (s \ {x}) /\ (I \ (s \ {x})) \ {x} = I \ s
      BY <1>2
    <2>2. IsFiniteSet(I \ (s \ {x}))
      BY FS_Subset
    <2>3. QED
      BY <2>1, <2>2, DeleteIsExact
  <1>3. Is(f)
    <2>1. f[{}] = h
      OBVIOUS
    <2>2. ASSUME NEW s \in SUBSET batch, s # {}
          PROVE  f[s] = CountDelete(f[s \ {CHOOSE x \in s : TRUE}], CHOOSE x \in s : TRUE)
      <3>1. PICK x \in s : x = CHOOSE y \in s : TRUE
        BY <2>2
      <3>2. f[s \ {x}] = Exact(l, I \ (s \ {x}), t) /\ f[s] = Exact(l, I \ s, t)
        OBVIOUS
      <3> HIDE DEF f
      <3>3. f[s] = CountDelete(f[s \ {x}], x)
        BY <1>2, <2>2, <3>2
      <3>4. QED
        BY <3>1, <3>3
    <2>3. f = [s \in SUBSET batch |-> f[s]]
      OBVIOUS
    <2> HIDE DEF f, h
    <2>4. QED
      BY <2>1, <2>2, <2>3
  <1> DEFINE g == CHOOSE iter : Is(iter)
  <1>4. Is(g)
    BY <1>3
  <1>5. DeleteImpact(h, batch) = g[batch]
    BY DEF DeleteImpact, FoldSet, MapThenFoldSet
  <1> HIDE DEF g, f
  <1>6. g[{}] = h /\ \A s \in SUBSET batch : s # {} => g[s] = CountDelete(g[s \ {Ch[s]}], Ch[s])
    BY <1>4 DEF Chosen
  <1> DEFINE Q == {s \in SUBSET batch : g[s] = Exact(l, I \ s, t)}
  <1>7. Inductive(Q, Ch, batch)
    <2>1. {} \in Q
      BY <1>6
    <2>2. ASSUME NEW s \in SUBSET batch, s # {}, s \ {Ch[s]} \in Q PROVE s \in Q
      <3>1. Ch[s] \in s
        BY <1>1, <2>2 DEF Chooses
      <3>2. g[s] = CountDelete(Exact(l, I \ (s \ {Ch[s]}), t), Ch[s])
        BY <1>6, <2>2
      <3> HIDE DEF Ch
      <3>3. QED
        BY <1>2, <2>2, <3>1, <3>2
    <2>3. QED
      BY <2>1, <2>2 DEF Inductive
  <1>8. batch \in Q
    <2> HIDE DEF Q, Ch
    <2>1. QED
      BY <1>1, <1>7, SubsetInduction
  <1>9. QED
    BY <1>5, <1>8
-----------------------------------------------------------------------------
(* Rows that take another rule's identifier *)

Renamed(m, S) == {m[r] : r \in S}

LEMMA TallyRenamed ==
  ASSUME NEW S, IsFiniteSet(S), NEW m, \A r, s \in S : m[r] = m[s] => r = s,
         NEW f, NEW g, \A r \in S : g[m[r]] = f[r]
  PROVE  /\ IsFiniteSet(Renamed(m, S)) /\ Cardinality(Renamed(m, S)) = Cardinality(S)
         /\ Tally(Renamed(m, S), g) = Tally(S, f)
  <1> DEFINE T == {m[r] : r \in S}
  <1>1. ASSUME NEW P \in SUBSET S
        PROVE  LET U == {m[r] : r \in P} IN IsFiniteSet(U) /\ Cardinality(U) = Cardinality(P)
    <2> DEFINE U == {m[r] : r \in P}
               b == [r \in P |-> m[r]]
    <2>1. b \in Bijection(P, U)
      BY DEF Bijection, Injection, Surjection, IsInjective
    <2>2. IsFiniteSet(P)
      BY FS_Subset
    <2> HIDE DEF b, U
    <2>3. IsFiniteSet(U) /\ Cardinality(U) = Cardinality(P)
      BY <2>1, <2>2, FS_Bijection DEF ExistsBijection
    <2>4. QED
      BY <2>3 DEF U
  <1>2. IsFiniteSet(T) /\ Cardinality(T) = Cardinality(S)
    BY <1>1
  <1>3. Keys(T, g) = Keys(S, f)
    BY DEF Keys
  <1>4. ASSUME NEW k PROVE Cardinality(Keyed(T, g, k)) = Cardinality(Keyed(S, f, k))
    <2>1. Keyed(S, f, k) \in SUBSET S /\ Keyed(T, g, k) = {m[r] : r \in Keyed(S, f, k)}
      BY DEF Keyed
    <2>2. QED
      BY <1>1, <2>1
  <1>5. Tally(T, g) = Tally(S, f)
    <2> HIDE DEF T
    <2>1. QED
      BY <1>3, <1>4 DEF Tally
  <1>6. QED
    BY <1>2, <1>5 DEF Renamed

(* m keeps what the budgets count by. *)
Renames(m, I) ==
  /\ \A r, s \in I : m[r] = m[s] => r = s
  /\ \A r \in I : /\ HourKey(m[r]) = HourKey(r) /\ NameKey(m[r]) = NameKey(r)
                  /\ m[r].domain = r.domain

LEMMA RenamedIsExact ==
  ASSUME NEW I, IsFiniteSet(I), NEW m, Renames(m, I)
  PROVE  LET J == Renamed(m, I)
         IN  /\ IsFiniteSet(J) /\ Cardinality(J) = Cardinality(I)
             /\ HourBag(J) = HourBag(I) /\ NameBag(J) = NameBag(I)
  <1> DEFINE J == Renamed(m, I)
  <1>1. IsFiniteSet(J) /\ Cardinality(J) = Cardinality(I) /\ HourBag(J) = HourBag(I)
    <2> DEFINE f == [r \in I |-> HourKey(r)]
               g == [r \in J |-> HourKey(r)]
    <2>1. \A r \in I : g[m[r]] = f[r]
      BY DEF Renames, Renamed
    <2>1a. \A r, s \in I : m[r] = m[s] => r = s
      BY DEF Renames
    <2> HIDE DEF f, g
    <2>2. IsFiniteSet(J) /\ Cardinality(J) = Cardinality(I) /\ Tally(J, g) = Tally(I, f)
      BY <2>1, <2>1a, TallyRenamed
    <2>3. HourBag(J) = Tally(J, g) /\ HourBag(I) = Tally(I, f)
      BY DEF HourBag, f, g
    <2>4. QED
      BY <2>2, <2>3
  <1>2. NameBag(J) = NameBag(I)
    <2> DEFINE N == Named(I)
               M == Renamed(m, N)
               f == [r \in N |-> NameKey(r)]
               g == [r \in M |-> NameKey(r)]
    <2>1. Named(J) = M /\ N \in SUBSET I
      BY DEF Renames, Renamed, Named
    <2>2. IsFiniteSet(N) /\ \A r, s \in N : m[r] = m[s] => r = s
      BY <2>1, FS_Subset DEF Renames
    <2>3. \A r \in N : g[m[r]] = f[r]
      BY <2>1 DEF Renames, Renamed
    <2> HIDE DEF f, g, N
    <2>4. Tally(M, g) = Tally(N, f)
      BY <2>2, <2>3, TallyRenamed
    <2>5. NameBag(J) = Tally(M, g) /\ NameBag(I) = Tally(N, f)
      BY <2>1 DEF NameBag, N, f, g
    <2>6. QED
      BY <2>4, <2>5
  <1>3. QED
    BY <1>1, <1>2

(* The rows of policy_impact_buckets: one per key *)
IsImpact(r) ==
  r = [hour |-> r.hour, dimension |-> r.dimension, sid |-> r.sid, rule |-> r.rule,
       path |-> r.path, client |-> r.client, domain |-> r.domain]

ImpactOK(I) ==
  /\ IsFiniteSet(I) /\ \A r \in I : IsImpact(r)
  /\ \A a, b \in I : ImpactKey(a) = ImpactKey(b) => a = b

HistoryOK(h) == ImpactOK(h.impact) /\ h = Exact(h.lifetime, h.impact, h.traffic)

LEMMA ImpactKeyIs ==
  ASSUME NEW a, NEW b, IsImpact(a), IsImpact(b)
  PROVE  ImpactKey(a) = ImpactKey(b) <=>
           /\ a.hour = b.hour /\ a.dimension = b.dimension /\ a.sid = b.sid
           /\ a.path = b.path /\ a.client = b.client /\ a.domain = b.domain
  <1>1. ImpactKey(a) = [hour |-> a.hour, dimension |-> a.dimension, sid |-> a.sid, rule |-> 0,
                        path |-> a.path, client |-> a.client, domain |-> a.domain]
    BY DEF ImpactKey, IsImpact
  <1>2. ImpactKey(b) = [hour |-> b.hour, dimension |-> b.dimension, sid |-> b.sid, rule |-> 0,
                        path |-> b.path, client |-> b.client, domain |-> b.domain]
    BY DEF ImpactKey, IsImpact
  <1>3. QED
    BY <1>1, <1>2

LEMMA SameBudgets ==
  ASSUME NEW a, NEW b, IsImpact(a), IsImpact(b), ImpactKey(a) = ImpactKey(b)
  PROVE  HourKey(a) = HourKey(b) /\ NameKey(a) = NameKey(b) /\ a.domain = b.domain
  BY ImpactKeyIs DEF HourKey, NameKey
-----------------------------------------------------------------------------
(* Writing the samples of a request *)

LEMMA ImpactRowIs ==
  ASSUME NEW sample
  PROVE  /\ IsImpact(ImpactRow(sample))
         /\ ImpactRow(sample).dimension = sample.dimension /\ ImpactRow(sample).sid = sample.sid
  BY DEF ImpactRow, IsImpact

(* The lifetime rows after one sample *)
SameLifetime(l, sample) == {r \in l : r.dimension = sample.dimension /\ r.sid = sample.sid}

LEMMA MeantIs ==
  ASSUME NEW l
  PROVE  /\ \A r \in l : r.meanings \subseteq Meant(l)
         /\ \A m \in Meant(l) : \E r \in l : m \in r.meanings
  BY DEF Meant

LifetimeRow(l, sample) ==
  [dimension |-> sample.dimension, sid |-> sample.sid, rule |-> sample.rule,
   meanings |-> Meant(SameLifetime(l, sample)) \cup {sample.meaning}]

Lived(l, sample) == (l \ SameLifetime(l, sample)) \cup {LifetimeRow(l, sample)}

LEMMA RecordLifetimeIs ==
  ASSUME NEW l, NEW I, NEW t, NEW sample
  PROVE  RecordLifetime(Exact(l, I, t), sample) = Exact(Lived(l, sample), I, t)
  <1>1. PICK h : h = Exact(l, I, t)
    OBVIOUS
  <1>2. h = [lifetime |-> l, impact |-> I, traffic |-> t,
             rows |-> Cardinality(I), hourly |-> HourBag(I), names |-> NameBag(I)]
    BY <1>1 DEF Exact
  <1>3. RecordLifetime(h, sample) = [h EXCEPT !.lifetime = Lived(l, sample)]
    BY <1>2 DEF RecordLifetime, Lived, LifetimeRow, SameLifetime
  <1>4. QED
    BY <1>1, <1>2, <1>3 DEF Exact

LEMMA RecordImpactIs ==
  ASSUME NEW l, NEW I, NEW t, ImpactOK(I), NEW config, NEW sample
  PROVE  \E J : /\ RecordImpact(Exact(l, I, t), config, sample) = Exact(l, J, t)
                /\ ImpactOK(J) /\ J \subseteq I \cup {ImpactRow(sample)}
  <1>1. PICK row : row = ImpactRow(sample) /\ IsImpact(row)
    BY ImpactRowIs
  <1>2. PICK h : h = Exact(l, I, t)
    OBVIOUS
  <1>3. h = [lifetime |-> l, impact |-> I, traffic |-> t,
             rows |-> Cardinality(I), hourly |-> HourBag(I), names |-> NameBag(I)]
    BY <1>2 DEF Exact
  <1> DEFINE same == {r \in I : ImpactKey(r) = ImpactKey(row)}
  <1>4. RecordImpact(h, config, sample) =
          IF same # {} THEN [h EXCEPT !.impact = (I \ same) \cup {row}]
          ELSE IF Fits(h, config, row) THEN CountInsert(h, row) ELSE h
    BY <1>1, <1>3 DEF RecordImpact
  <1>5. CASE same # {}
    <2>1. PICK x \in same : TRUE
      BY <1>5
    <2>2. x \in I /\ ImpactKey(x) = ImpactKey(row)
      BY <2>1
    <2>3. same = {x}
      BY <2>1 DEF ImpactOK
    <2> DEFINE m == [r \in I |-> IF r = x THEN row ELSE r]
               J == (I \ {x}) \cup {row}
    <2>4. Renames(m, I)
      <3>1. HourKey(x) = HourKey(row) /\ NameKey(x) = NameKey(row) /\ x.domain = row.domain
        BY <1>1, <2>2, SameBudgets DEF ImpactOK
      <3>2. \A r \in I : r = row => r = x
        BY <2>2 DEF ImpactOK
      <3>3. QED
        BY <3>1, <3>2 DEF Renames
    <2>5. Renamed(m, I) = J
      BY <2>2 DEF Renamed
    <2>6. /\ IsFiniteSet(J) /\ Cardinality(J) = Cardinality(I)
          /\ HourBag(J) = HourBag(I) /\ NameBag(J) = NameBag(I)
      <3> HIDE DEF m, J
      <3>1. QED
        BY <2>4, <2>5, RenamedIsExact DEF ImpactOK
    <2>7. ImpactOK(J)
      <3>1. \A a, b \in J : ImpactKey(a) = ImpactKey(b) => a = b
        BY <2>2 DEF ImpactOK
      <3>2. \A a \in J : IsImpact(a)
        BY <1>1 DEF ImpactOK
      <3>3. QED
        BY <2>6, <3>1, <3>2 DEF ImpactOK
    <2>8. RecordImpact(h, config, sample) = Exact(l, J, t)
      <3>1. RecordImpact(h, config, sample) = [h EXCEPT !.impact = J]
        BY <1>4, <1>5, <2>3
      <3> HIDE DEF J
      <3>2. QED
        BY <1>3, <2>6, <3>1 DEF Exact
    <2>9. J \subseteq I \cup {row}
      OBVIOUS
    <2> HIDE DEF J
    <2>10. QED
      BY <1>1, <1>2, <2>7, <2>8, <2>9
  <1>6. CASE same = {} /\ Fits(h, config, row)
    <2> DEFINE J == I \cup {row}
    <2>1. row \notin I
      BY <1>6
    <2>2. CountInsert(h, row) = Exact(l, J, t)
      BY <1>2, <2>1, InsertIsExact DEF ImpactOK
    <2>3. ImpactOK(J)
      <3>1. IsFiniteSet(J)
        BY FS_AddElement DEF ImpactOK
      <3>2. QED
        BY <1>1, <1>6, <3>1 DEF ImpactOK
    <2>4. RecordImpact(h, config, sample) = Exact(l, J, t)
      BY <1>4, <1>6, <2>2
    <2> HIDE DEF J
    <2>5. QED
      BY <1>1, <1>2, <2>3, <2>4 DEF J
  <1>7. CASE same = {} /\ ~Fits(h, config, row)
    <2>1. RecordImpact(h, config, sample) = h
      BY <1>4, <1>7
    <2>2. QED
      BY <1>2, <2>1
  <1>8. QED
    BY <1>5, <1>6, <1>7

Written(config, detail, rest, sample) ==
  IF detail THEN RecordImpact(RecordLifetime(rest, sample), config, sample)
  ELSE RecordLifetime(rest, sample)

(* What every sample leads from a set of statistics into the set again is  *)
(* where all the samples of a request lead.                                *)
LEMMA RecordStatsStays ==
  ASSUME NEW h, NEW config, NEW full, NEW request, NEW n \in Nat,
         NEW samples, DOMAIN samples = 1 .. n, NEW detail, detail = (config.detail /\ ~full),
         NEW V, [h EXCEPT !.traffic = IF detail THEN @ \cup {request} ELSE @] \in V,
         \A v \in V, i \in 1 .. n : Written(config, detail, v, samples[i]) \in V
  PROVE  RecordStats(h, config, full, request, samples) \in V
  <1> DEFINE base == [h EXCEPT !.traffic = IF detail THEN @ \cup {request} ELSE @]
             Ch == [s \in SUBSET (1 .. n) |-> Max(s)]
             F == [p \in (1 .. n) \X V |-> Written(config, detail, p[2], samples[p[1]])]
             Is(iter) ==
               iter = [s \in SUBSET (1 .. n) |->
                         IF s = {} THEN base
                         ELSE Written(config, detail, iter[s \ {Max(s)}], samples[Max(s)])]
  <1>1. Chooses(Ch, 1 .. n) /\ IsFiniteSet(1 .. n)
    BY MaxIs, FS_Interval DEF Chooses
  <1>2. F \in [(1 .. n) \X V -> V] /\ base \in V
    OBVIOUS
  <1>3. PICK f \in [SUBSET (1 .. n) -> V] : Unfolds(f, 1 .. n, base, F, Ch)
    <2> HIDE DEF base, F, Ch
    <2>1. QED
      BY <1>1, <1>2, SubsetRecursion
  <1>4. Is(f)
    <2>1. ASSUME NEW s \in SUBSET (1 .. n), s # {}
          PROVE  F[<<Ch[s], f[s \ {Ch[s]}]>>]
                   = Written(config, detail, f[s \ {Max(s)}], samples[Max(s)])
      <3>1. Ch[s] = Max(s) /\ Max(s) \in 1 .. n /\ f[s \ {Max(s)}] \in V
        BY <2>1, MaxIs
      <3>2. QED
        BY <3>1
    <2> HIDE DEF F, Ch, base
    <2>2. QED
      BY <1>3, <2>1 DEF Unfolds
  <1> DEFINE g == CHOOSE iter : Is(iter)
  <1>5. Is(g)
    BY <1>4
  <1>6. RecordStats(h, config, full, request, samples) = g[1 .. n]
    BY DEF RecordStats, FoldLeft, MapThenFoldSet, Written
  <1> HIDE DEF g
  <1>7. g[{}] = base /\ \A s \in SUBSET (1 .. n) : s # {} =>
          g[s] = Written(config, detail, g[s \ {Ch[s]}], samples[Ch[s]])
    BY <1>5
  <1> DEFINE Q == {s \in SUBSET (1 .. n) : g[s] \in V}
  <1>8. Inductive(Q, Ch, 1 .. n)
    <2>1. {} \in Q
      BY <1>2, <1>7
    <2>2. ASSUME NEW s \in SUBSET (1 .. n), s # {}, s \ {Ch[s]} \in Q PROVE s \in Q
      <3>1. PICK i \in 1 .. n, v \in V : i = Ch[s] /\ v = g[s \ {Ch[s]}]
        BY <1>1, <2>2 DEF Chooses
      <3> HIDE DEF Ch
      <3>2. g[s] = Written(config, detail, v, samples[i])
        BY <1>7, <2>2, <3>1
      <3>3. g[s] \in V
        BY <3>2
      <3>4. QED
        BY <3>3
    <2>3. QED
      BY <2>1, <2>2 DEF Inductive
  <1>9. 1 .. n \in Q
    <2> HIDE DEF Q, Ch
    <2>1. QED
      BY <1>1, <1>8, SubsetInduction
  <1>10. QED
    BY <1>6, <1>9
-----------------------------------------------------------------------------
(* What the operations on the statistics leave *)

LEMMA ExactOK ==
  ASSUME NEW l, NEW I, NEW t
  PROVE  /\ Exact(l, I, t).lifetime = l /\ Exact(l, I, t).impact = I /\ Exact(l, I, t).traffic = t
         /\ (ImpactOK(I) => HistoryOK(Exact(l, I, t)))
  BY DEF Exact, HistoryOK

LEMMA ImpactPart ==
  ASSUME NEW I, ImpactOK(I), NEW J \in SUBSET I
  PROVE  ImpactOK(J)
  BY FS_Subset DEF ImpactOK

(* Statistics whose detail is exact *)
ExactWith(h, l) == \E I, t : ImpactOK(I) /\ h = Exact(l, I, t)

(* A family of sets of lifetime rows that every sample leads into itself *)
LEMMA RecordStatsIs ==
  ASSUME NEW h, HistoryOK(h), NEW config, NEW full, NEW request, NEW n \in Nat,
         NEW samples, DOMAIN samples = 1 .. n,
         NEW G, h.lifetime \in G, \A l \in G, i \in 1 .. n : Lived(l, samples[i]) \in G
  PROVE  \E l \in G : ExactWith(RecordStats(h, config, full, request, samples), l)
  <1> DEFINE Imp == h.impact \cup {ImpactRow(samples[i]) : i \in 1 .. n}
             T == {h.traffic, h.traffic \cup {request}}
             W == {J \in SUBSET Imp : ImpactOK(J)}
             V == {Exact(p[1], p[2], p[3]) : p \in G \X W \X T}
  <1>1. PICK detail \in BOOLEAN : detail = (config.detail /\ ~full)
    OBVIOUS
  <1>2. [h EXCEPT !.traffic = IF detail THEN @ \cup {request} ELSE @] \in V
    <2>1. PICK t \in T : t = IF detail THEN h.traffic \cup {request} ELSE h.traffic
      OBVIOUS
    <2>2. h = [lifetime |-> h.lifetime, impact |-> h.impact, traffic |-> h.traffic,
               rows |-> Cardinality(h.impact), hourly |-> HourBag(h.impact),
               names |-> NameBag(h.impact)]
      BY DEF HistoryOK, Exact
    <2>3. [h EXCEPT !.traffic = t] = Exact(h.lifetime, h.impact, t)
      BY <2>2 DEF Exact
    <2>4. h.impact \in W
      BY DEF HistoryOK
    <2> HIDE DEF W, T
    <2>5. Exact(h.lifetime, h.impact, t) \in V
      <3>1. PICK p \in G \X W \X T : p = <<h.lifetime, h.impact, t>>
        BY <2>4
      <3>2. p[1] = h.lifetime /\ p[2] = h.impact /\ p[3] = t
        BY <3>1
      <3>3. QED
        BY <3>2
    <2>6. [h EXCEPT !.traffic = IF detail THEN @ \cup {request} ELSE @] = [h EXCEPT !.traffic = t]
      BY <2>1, <2>2
    <2> HIDE DEF V
    <2>7. QED
      BY <2>3, <2>5, <2>6
  <1>3. ASSUME NEW v \in V, NEW i \in 1 .. n
        PROVE  Written(config, detail, v, samples[i]) \in V
    <2>1. PICK l \in G, J \in W, t \in T : v = Exact(l, J, t)
      <3> HIDE DEF W, T
      <3>1. PICK p \in G \X W \X T : v = Exact(p[1], p[2], p[3])
        OBVIOUS
      <3>2. p[1] \in G /\ p[2] \in W /\ p[3] \in T
        OBVIOUS
      <3>3. QED
        BY <3>1, <3>2
    <2>2. PICK k \in G : k = Lived(l, samples[i])
      OBVIOUS
    <2>3. RecordLifetime(v, samples[i]) = Exact(k, J, t)
      BY <2>1, <2>2, RecordLifetimeIs
    <2>4. PICK K : /\ RecordImpact(Exact(k, J, t), config, samples[i]) = Exact(k, K, t)
                   /\ ImpactOK(K) /\ K \subseteq J \cup {ImpactRow(samples[i])}
      BY RecordImpactIs
    <2>5. K \in W
      BY <2>4
    <2> HIDE DEF W, T
    <2>6. Exact(k, K, t) \in V /\ Exact(k, J, t) \in V
      <3>1. \A b \in W : \E p \in G \X W \X T : p[1] = k /\ p[2] = b /\ p[3] = t
        <4>1. \A b \in W : <<k, b, t>> \in G \X W \X T
          OBVIOUS
        <4>2. QED
          BY <4>1
      <3>2. QED
        BY <2>5, <3>1
    <2>7. QED
      BY <2>3, <2>4, <2>6 DEF Written
  <1>4. RecordStats(h, config, full, request, samples) \in V
    <2> HIDE DEF V
    <2>1. QED
      BY <1>1, <1>2, <1>3, RecordStatsStays
  <1>5. PICK l \in G, J \in W, t \in T :
          RecordStats(h, config, full, request, samples) = Exact(l, J, t)
    <2> HIDE DEF W, T
    <2>1. PICK p \in G \X W \X T :
            RecordStats(h, config, full, request, samples) = Exact(p[1], p[2], p[3])
      BY <1>4
    <2>2. p[1] \in G /\ p[2] \in W /\ p[3] \in T
      OBVIOUS
    <2>3. QED
      BY <2>1, <2>2
  <1>6. QED
    BY <1>5 DEF ExactWith

(* All the lifetime rows that samples may lead to *)
Meanings(l, samples) ==
  Meant(l) \cup {samples[i].meaning : i \in DOMAIN samples}

LifetimeRows(l, samples) ==
  l \cup {[dimension |-> samples[i].dimension, sid |-> samples[i].sid, rule |-> samples[i].rule,
           meanings |-> m] : i \in DOMAIN samples, m \in SUBSET Meanings(l, samples)}

LEMMA LivedWithin ==
  ASSUME NEW l, NEW samples, NEW k \in SUBSET LifetimeRows(l, samples), NEW i \in DOMAIN samples
  PROVE  Lived(k, samples[i]) \in SUBSET LifetimeRows(l, samples)
  <1> DEFINE M == Meanings(l, samples)
             m == Meant(SameLifetime(k, samples[i])) \cup {samples[i].meaning}
  <1>1. \A r \in LifetimeRows(l, samples) : r.meanings \subseteq M
    BY MeantIs DEF LifetimeRows, Meanings
  <1>2. samples[i].meaning \in M
    BY DEF Meanings
  <1> HIDE DEF M
  <1>3. m \in SUBSET M
    <2>1. \A r \in SameLifetime(k, samples[i]) : r.meanings \subseteq M
      BY <1>1 DEF SameLifetime
    <2>2. QED
      BY <1>2, <2>1, MeantIs
  <1>4. LifetimeRow(k, samples[i]) = [dimension |-> samples[i].dimension, sid |-> samples[i].sid,
                                      rule |-> samples[i].rule, meanings |-> m]
    BY DEF LifetimeRow
  <1> HIDE DEF m
  <1>5. LifetimeRow(k, samples[i]) \in LifetimeRows(l, samples)
    BY <1>3, <1>4 DEF LifetimeRows, M
  <1>6. QED
    BY <1>5 DEF Lived

LEMMA DeleteRuleStatisticsIs ==
  ASSUME NEW h, HistoryOK(h), NEW dimension, NEW sid
  PROVE  ExactWith(DeleteRuleStatistics(h, dimension, sid),
                   {r \in h.lifetime : r.dimension # dimension \/ r.sid # sid})
  <1> DEFINE l == {r \in h.lifetime : r.dimension # dimension \/ r.sid # sid}
             batch == {r \in h.impact : r.dimension = dimension /\ r.sid = sid}
  <1>1. h = [lifetime |-> h.lifetime, impact |-> h.impact, traffic |-> h.traffic,
             rows |-> Cardinality(h.impact), hourly |-> HourBag(h.impact),
             names |-> NameBag(h.impact)]
    BY DEF HistoryOK, Exact
  <1>2. DeleteRuleStatistics(h, dimension, sid) = DeleteImpact([h EXCEPT !.lifetime = l], batch)
    BY DEF DeleteRuleStatistics
  <1> HIDE DEF l
  <1>3. [h EXCEPT !.lifetime = l] = Exact(l, h.impact, h.traffic)
    BY <1>1 DEF Exact
  <1>4. DeleteImpact(Exact(l, h.impact, h.traffic), batch) = Exact(l, h.impact \ batch, h.traffic)
    BY BatchIsExact DEF HistoryOK, ImpactOK
  <1>5. ImpactOK(h.impact \ batch)
    BY ImpactPart DEF HistoryOK
  <1> HIDE DEF batch
  <1>6. QED
    BY <1>2, <1>3, <1>4, <1>5 DEF ExactWith, l

(* The statistics of domain rules after a refresh *)
LostRow(rules, r) == r.dimension = "domain" /\ ~\E d \in rules : d.sid = r.sid

MovedRow(rules, r) ==
  IF r.dimension # "domain" THEN r
  ELSE [r EXCEPT !.rule = (CHOOSE d \in rules : d.sid = r.sid).id]

Followed(l, rules) == {MovedRow(rules, r) : r \in {x \in l : ~LostRow(rules, x)}}

LEMMA MovedImpact ==
  ASSUME NEW rules, NEW r, IsImpact(r)
  PROVE  LET m == MovedRow(rules, r)
         IN  IsImpact(m) /\ ImpactKey(m) = ImpactKey(r)
  <1>1. CASE r.dimension # "domain"
    BY <1>1 DEF MovedRow
  <1>2. CASE r.dimension = "domain"
    <2>1. PICK id : id = (CHOOSE d \in rules : d.sid = r.sid).id
      OBVIOUS
    <2>2. MovedRow(rules, r) = [r EXCEPT !.rule = id]
      BY <1>2, <2>1 DEF MovedRow
    <2>3. PICK m : m = MovedRow(rules, r)
      OBVIOUS
    <2>4. m = [hour |-> r.hour, dimension |-> r.dimension, sid |-> r.sid, rule |-> id,
               path |-> r.path, client |-> r.client, domain |-> r.domain]
      BY <2>2, <2>3 DEF IsImpact
    <2>5. IsImpact(m) /\ ImpactKey(m) = ImpactKey(r)
      BY <2>4, ImpactKeyIs DEF IsImpact
    <2>6. QED
      BY <2>3, <2>5
  <1>3. QED
    BY <1>1, <1>2

LEMMA FollowDomainRulesIs ==
  ASSUME NEW h, HistoryOK(h), NEW rules
  PROVE  ExactWith(FollowDomainRules(h, rules), Followed(h.lifetime, rules))
  <1> DEFINE batch == {r \in h.impact : LostRow(rules, r)}
             I == h.impact \ batch
             m == [r \in I |-> MovedRow(rules, r)]
             J == Renamed(m, I)
             l == Followed(h.lifetime, rules)
  <1>1. h = Exact(h.lifetime, h.impact, h.traffic) /\ ImpactOK(h.impact)
    BY DEF HistoryOK
  <1>2. PICK kept : kept = DeleteImpact(h, batch)
    OBVIOUS
  <1>3. kept = Exact(h.lifetime, I, h.traffic) /\ ImpactOK(I)
    <2>1. kept = DeleteImpact(Exact(h.lifetime, h.impact, h.traffic), batch)
      BY <1>1, <1>2
    <2>2. QED
      BY <1>1, <2>1, BatchIsExact, ImpactPart DEF ImpactOK
  <1>4. kept = [lifetime |-> h.lifetime, impact |-> I, traffic |-> h.traffic,
                rows |-> Cardinality(I), hourly |-> HourBag(I), names |-> NameBag(I)]
    BY <1>3 DEF Exact
  <1>5. FollowDomainRules(h, rules) = [kept EXCEPT !.lifetime = l, !.impact = J]
    <2>1. FollowDomainRules(h, rules) =
            [kept EXCEPT !.lifetime = {MovedRow(rules, r) : r \in {x \in kept.lifetime : ~LostRow(rules, x)}},
                         !.impact = {MovedRow(rules, r) : r \in kept.impact}]
      BY <1>2, <1>4 DEF FollowDomainRules, MovedRow, LostRow
    <2>2. kept.lifetime = h.lifetime /\ kept.impact = I
      BY <1>4
    <2>3. J = {MovedRow(rules, r) : r \in I}
      BY DEF Renamed
    <2>4. QED
      BY <2>1, <2>2, <2>3 DEF Followed
  <1> HIDE DEF I, l
  <1>6. \A r \in I : IsImpact(m[r]) /\ ImpactKey(m[r]) = ImpactKey(r)
    BY <1>3, MovedImpact DEF ImpactOK
  <1> HIDE DEF m
  <1>7. Renames(m, I)
    <2>1. \A r, s \in I : m[r] = m[s] => r = s
      BY <1>3, <1>6 DEF ImpactOK
    <2>2. \A r \in I : /\ HourKey(m[r]) = HourKey(r) /\ NameKey(m[r]) = NameKey(r)
                       /\ m[r].domain = r.domain
      BY <1>3, <1>6, SameBudgets DEF ImpactOK
    <2>3. QED
      BY <2>1, <2>2 DEF Renames
  <1>8. /\ IsFiniteSet(J) /\ Cardinality(J) = Cardinality(I)
        /\ HourBag(J) = HourBag(I) /\ NameBag(J) = NameBag(I)
    BY <1>3, <1>7, RenamedIsExact DEF ImpactOK
  <1>9. ImpactOK(J)
    <2>1. \A a \in J : IsImpact(a)
      BY <1>6 DEF Renamed
    <2>2. \A a, b \in J : ImpactKey(a) = ImpactKey(b) => a = b
      BY <1>3, <1>6 DEF Renamed, ImpactOK
    <2>3. QED
      BY <1>8, <2>1, <2>2 DEF ImpactOK
  <1> HIDE DEF J
  <1>10. [kept EXCEPT !.lifetime = l, !.impact = J] = Exact(l, J, h.traffic)
    <2>1. PICK k1 : k1 = [kept EXCEPT !.lifetime = l]
      OBVIOUS
    <2>2. k1 = [lifetime |-> l, impact |-> I, traffic |-> h.traffic,
                rows |-> Cardinality(I), hourly |-> HourBag(I), names |-> NameBag(I)]
      BY <1>4, <2>1
    <2>3. PICK k2 : k2 = [k1 EXCEPT !.impact = J]
      OBVIOUS
    <2>4. k2 = Exact(l, J, h.traffic)
      BY <1>8, <2>2, <2>3 DEF Exact
    <2>5. QED
      BY <2>1, <2>3, <2>4
  <1>11. QED
    BY <1>5, <1>9, <1>10 DEF ExactWith, l

LEMMA CleanedUpIs ==
  ASSUME NEW h, HistoryOK(h), NEW hour, NEW config, NEW limit,
         NEW left \in CleanedUp(h, hour, config, limit)
  PROVE  ExactWith(left, h.lifetime)
  <1>1. PICK batch \in SUBSET h.impact, requests \in SUBSET h.traffic :
          left = [DeleteImpact(h, batch) EXCEPT !.traffic = @ \ requests]
    BY DEF CleanedUp, OldestExpired, Expired
  <1> DEFINE I == h.impact \ batch
  <1>2. h = Exact(h.lifetime, h.impact, h.traffic) /\ ImpactOK(h.impact)
    BY DEF HistoryOK
  <1>3. PICK kept : kept = DeleteImpact(h, batch)
    OBVIOUS
  <1>4. kept = Exact(h.lifetime, I, h.traffic) /\ ImpactOK(I)
    <2>1. kept = DeleteImpact(Exact(h.lifetime, h.impact, h.traffic), batch)
      BY <1>2, <1>3
    <2>2. QED
      BY <1>2, <2>1, BatchIsExact, ImpactPart DEF ImpactOK
  <1> HIDE DEF I
  <1>5. left = Exact(h.lifetime, I, h.traffic \ requests)
    <2>1. left = [kept EXCEPT !.traffic = h.traffic \ requests]
      BY <1>1, <1>3, <1>4, ExactOK
    <2>2. QED
      BY <1>4, <2>1 DEF Exact
  <1>6. QED
    BY <1>4, <1>5 DEF ExactWith

-----------------------------------------------------------------------------
(* The budgets through every step *)

LEMMA CountedIsSequence ==
  ASSUME NEW result
  PROVE  \E n \in Nat : DOMAIN CountedFor(result) = 1 .. n
  <1>1. ASSUME NEW dimension, NEW match
        PROVE  \E S : CountedRules(dimension, match) \in Seq(S)
    <2>1. CASE ~Found(match.selected)
      <3>1. CountedRules(dimension, match) = [i \in DOMAIN <<>> |-> [dimension |-> dimension, rule |-> <<>>[i]]]
        BY <2>1 DEF CountedRules
      <3>2. DOMAIN <<>> = 1 .. 0
        OBVIOUS
      <3>3. CountedRules(dimension, match) \in [1 .. 0 -> {}]
        BY <3>1, <3>2
      <3>4. QED
        BY <3>3
    <2>2. CASE Found(match.selected) /\ match.enforcing.id \in {0, match.selected.id}
      <3> DEFINE one == <<match.selected>>
      <3>1. CountedRules(dimension, match) = [i \in DOMAIN one |-> [dimension |-> dimension, rule |-> one[i]]]
        BY <2>2 DEF CountedRules
      <3>2. DOMAIN one = 1 .. 1
        OBVIOUS
      <3> HIDE DEF one
      <3> DEFINE S == {[dimension |-> dimension, rule |-> one[i]] : i \in 1 .. 1}
      <3>3. CountedRules(dimension, match) \in [1 .. 1 -> S]
        BY <3>1, <3>2
      <3> HIDE DEF S
      <3>4. QED
        BY <3>3, SeqDef
    <2>3. CASE Found(match.selected) /\ match.enforcing.id \notin {0, match.selected.id}
      <3> DEFINE two == <<match.selected, match.enforcing>>
      <3>1. CountedRules(dimension, match) = [i \in DOMAIN two |-> [dimension |-> dimension, rule |-> two[i]]]
        BY <2>3 DEF CountedRules
      <3>2. DOMAIN two = 1 .. 2
        OBVIOUS
      <3> HIDE DEF two
      <3> DEFINE S == {[dimension |-> dimension, rule |-> two[i]] : i \in 1 .. 2}
      <3>3. CountedRules(dimension, match) \in [1 .. 2 -> S]
        BY <3>1, <3>2
      <3> HIDE DEF S
      <3>4. QED
        BY <3>3, SeqDef
    <2>4. QED
      BY <2>1, <2>2, <2>3
  <1>2. CASE result.reason \in {"malformed", "fragment_pending", "stream_pending"}
    <2>1. CountedFor(result) = <<>>
      BY <1>2 DEF CountedFor
    <2>2. DOMAIN CountedFor(result) = 1 .. 0
      BY <2>1
    <2>3. QED
      BY <2>2
  <1>3. CASE result.reason \notin {"malformed", "fragment_pending", "stream_pending"}
    <2>1. PICK a, b : a = CountedRules("domain", result.policy)
                      /\ b = CountedRules("destination", result.destination)
      OBVIOUS
    <2>2. PICK S, T : a \in Seq(S) /\ b \in Seq(T)
      BY <1>1, <2>1
    <2>3. a \in Seq(S \cup T) /\ b \in Seq(S \cup T)
      BY <2>2
    <2>4. a \o b \in Seq(S \cup T)
      BY <2>3
    <2>5. CountedFor(result) = a \o b
      BY <1>3, <2>1 DEF CountedFor
    <2>6. DOMAIN CountedFor(result) = 1 .. Len(a \o b) /\ Len(a \o b) \in Nat
      BY <2>4, <2>5
    <2>7. QED
      BY <2>6
  <1>4. QED
    BY <1>2, <1>3

LEMMA ExactHistory ==
  ASSUME NEW h, NEW l, ExactWith(h, l)
  PROVE  HistoryOK(h) /\ h.lifetime = l
  BY ExactOK DEF ExactWith

(* What the counted request leaves of the lifetime rows *)
SamplesOf(h, samples) ==
  /\ \E n \in Nat : DOMAIN samples = 1 .. n
  /\ \E config, full, request : h = RecordStats(history, config, full, request, samples)

(* What a step may do to the statistics *)
HistoryStep ==
  \/ history' = history
  \/ \E dimension, sid : history' = DeleteRuleStatistics(history, dimension, sid)
  \/ \E rules : history' = FollowDomainRules(history, rules)
  \/ \E hour, config, limit : history' \in CleanedUp(history, hour, config, limit)
  \/ \E samples : SamplesOf(history', samples)

LEMMA HistorySteps ==
  ASSUME [Next]_vars
  PROVE  HistoryStep
  <1>1. CASE CreateDomainRule \/ UpdateDomainRule \/ DeleteDomainRule
    <2>1. ASSUME NEW r, NEW k, NEW h, Publish(r, h, k) PROVE history' = h
      BY <2>1 DEF Publish
    <2>2. CASE CreateDomainRule
      BY <2>1, <2>2 DEF CreateDomainRule, HistoryStep
    <2>3. CASE UpdateDomainRule
      <3>1. PICK r, k, c, sid : Publish(r, IF c = sid THEN history
                                           ELSE DeleteRuleStatistics(history, "domain", sid), k)
        BY <2>3 DEF UpdateDomainRule
      <3>2. QED
        BY <2>1, <3>1 DEF HistoryStep
    <2>4. CASE DeleteDomainRule
      BY <2>1, <2>4 DEF DeleteDomainRule, HistoryStep
    <2>5. QED
      BY <1>1, <2>2, <2>3, <2>4
  <1>2. CASE CreateDestinationRule \/ UpdateDestinationRule \/ DeleteDestinationRule
    <2>1. ASSUME NEW r, NEW k, NEW h, Publish(r, h, k) PROVE history' = h
      BY <2>1 DEF Publish
    <2>2. CASE CreateDestinationRule
      BY <2>1, <2>2 DEF CreateDestinationRule, HistoryStep
    <2>3. CASE UpdateDestinationRule
      <3>1. PICK r, k, c, sid : Publish(r, IF c = sid THEN history
                                           ELSE DeleteRuleStatistics(history, "destination", sid), k)
        BY <2>3 DEF UpdateDestinationRule
      <3>2. QED
        BY <2>1, <3>1 DEF HistoryStep
    <2>4. CASE DeleteDestinationRule
      BY <2>1, <2>4 DEF DeleteDestinationRule, HistoryStep
    <2>5. QED
      BY <1>2, <2>2, <2>3, <2>4
  <1>3. CASE \/ CreateGroup \/ UpdateGroup \/ DeleteGroup
             \/ CreateScopeMode \/ UpdateScopeMode \/ DeleteScopeMode \/ SetGlobalMode
             \/ CreateList \/ UpdateList
    <2>1. \E r, k : Publish(r, history, k)
      BY <1>3 DEF CreateGroup, UpdateGroup, DeleteGroup, CreateScopeMode, UpdateScopeMode,
                  DeleteScopeMode, SetGlobalMode, CreateList, UpdateList
    <2>2. QED
      BY <2>1 DEF Publish, HistoryStep
  <1>4. CASE DeleteList \/ ActivateList
    <2>1. \E r, k, rules : Publish(r, FollowDomainRules(history, rules), k)
      BY <1>4 DEF DeleteList, ActivateList
    <2>2. QED
      BY <2>1 DEF Publish, HistoryStep
  <1>5. CASE Reload \/ Hour \/ UpdateStatsConfig \/ UNCHANGED vars
    BY <1>5 DEF Reload, Hour, UpdateStatsConfig, vars, HistoryStep
  <1>6. CASE AutomaticCleanup \/ CleanupRequest
    BY <1>6 DEF AutomaticCleanup, CleanupRequest, HistoryStep
  <1>7. CASE CountRequest
    <2>1. PICK result, full, request, client, name, path :
            LET counted == CountedFor(result)
                samples == [i \in DOMAIN counted |-> SampleOf(counted[i], client, name, path)]
            IN  history' = RecordStats(history, rows.config, full, request, samples)
      BY <1>7 DEF CountRequest
    <2>2. PICK counted : counted = CountedFor(result)
      OBVIOUS
    <2>2a. PICK n \in Nat : DOMAIN counted = 1 .. n
      BY <2>2, CountedIsSequence
    <2>3. PICK samples : samples = [i \in DOMAIN counted |-> SampleOf(counted[i], client, name, path)]
      OBVIOUS
    <2>4. DOMAIN samples = 1 .. n
      BY <2>2a, <2>3
    <2>5. history' = RecordStats(history, rows.config, full, request, samples)
      BY <2>1, <2>2, <2>3
    <2>6. QED
      BY <2>4, <2>5 DEF HistoryStep, SamplesOf
  <1>8. QED
    BY <1>1, <1>2, <1>3, <1>4, <1>5, <1>6, <1>7 DEF Next

LEMMA HistoryOKStep ==
  ASSUME HistoryOK(history), HistoryStep
  PROVE  HistoryOK(history')
  <1>1. CASE \E samples : SamplesOf(history', samples)
    <2>1. PICK samples : SamplesOf(history', samples)
      BY <1>1
    <2>2. PICK n \in Nat : DOMAIN samples = 1 .. n
      BY <2>1 DEF SamplesOf
    <2>3. PICK config, full, request : history' = RecordStats(history, config, full, request, samples)
      BY <2>1 DEF SamplesOf
    <2> DEFINE G == SUBSET LifetimeRows(history.lifetime, samples)
    <2>4. history.lifetime \in G
      BY DEF LifetimeRows
    <2>5. \A l \in G, i \in 1 .. n : Lived(l, samples[i]) \in G
      BY <2>2, LivedWithin
    <2> HIDE DEF G
    <2>6. \E l \in G : ExactWith(RecordStats(history, config, full, request, samples), l)
      BY <2>2, <2>4, <2>5, RecordStatsIs
    <2>7. QED
      BY <2>3, <2>6, ExactHistory
  <1>2. CASE history' = history
    BY <1>2
  <1>3. CASE \E dimension, sid : history' = DeleteRuleStatistics(history, dimension, sid)
    BY <1>3, DeleteRuleStatisticsIs, ExactHistory
  <1>4. CASE \E rules : history' = FollowDomainRules(history, rules)
    BY <1>4, FollowDomainRulesIs, ExactHistory
  <1>5. CASE \E hour, config, limit : history' \in CleanedUp(history, hour, config, limit)
    BY <1>5, CleanedUpIs, ExactHistory
  <1>6. QED
    BY <1>1, <1>2, <1>3, <1>4, <1>5 DEF HistoryStep

LEMMA HistoryOKInit ==
  ASSUME Init
  PROVE  HistoryOK(history)
  <1>1. history = NoHistory
    BY DEF Init
  <1>2. Cardinality({}) = 0 /\ IsFiniteSet({})
    BY FS_EmptySet
  <1>3. HourBag({}) = EmptyBag /\ NameBag({}) = EmptyBag
    BY DEF HourBag, NameBag, Named, Tally, Keys, EmptyBag, SetToBag
  <1>4. NoHistory = Exact({}, {}, {})
    BY <1>2, <1>3 DEF NoHistory, Exact
  <1>5. ImpactOK({})
    BY <1>2 DEF ImpactOK
  <1>6. QED
    BY <1>1, <1>4, <1>5, ExactOK

LEMMA ExactBudgets ==
  ASSUME HistoryOK(history)
  PROVE  BudgetsAreExact
  <1>1. PICK I : I = history.impact
    OBVIOUS
  <1>2. IsFiniteSet(I) /\ \A r \in I : IsImpact(r)
    BY <1>1 DEF HistoryOK, ImpactOK
  <1>3. /\ history.rows = Cardinality(I)
        /\ history.hourly = HourBag(I) /\ history.names = NameBag(I)
    <2>1. history = Exact(history.lifetime, I, history.traffic)
      BY <1>1 DEF HistoryOK
    <2>2. QED
      BY <2>1 DEF Exact
  <1>4. ASSUME NEW key \in BagToSet(HourBag(I)) \cup {HourKey(r) : r \in I}
        PROVE  Copies(key, HourBag(I)) = Cardinality({r \in I : HourKey(r) = key})
    <2> DEFINE f == [r \in I |-> HourKey(r)]
    <2>1. Keys(I, f) = {HourKey(r) : r \in I} /\ Keyed(I, f, key) = {r \in I : HourKey(r) = key}
      BY DEF Keys, Keyed
    <2>2. HourBag(I) = [k \in Keys(I, f) |-> Cardinality(Keyed(I, f, k))]
      BY DEF HourBag, Tally
    <2> HIDE DEF f
    <2>3. DOMAIN HourBag(I) = Keys(I, f) /\ key \in Keys(I, f)
      BY <1>4, <2>1, <2>2 DEF BagToSet
    <2>4. HourBag(I)[key] = Cardinality(Keyed(I, f, key))
      BY <2>2, <2>3
    <2>5. QED
      BY <2>1, <2>3, <2>4 DEF Copies, BagIn, BagToSet
  <1>5. ASSUME NEW key \in BagToSet(NameBag(I))
                            \cup {NameKey(r) : r \in {i \in I : i.domain # <<>>}}
        PROVE  Copies(key, NameBag(I)) = Cardinality({r \in I : NameKey(r) = key})
    <2> DEFINE N == Named(I)
               f == [r \in N |-> NameKey(r)]
    <2>1. Keys(N, f) = {NameKey(r) : r \in {i \in I : i.domain # <<>>}}
      BY DEF Keys, Named
    <2>2. NameBag(I) = [k \in Keys(N, f) |-> Cardinality(Keyed(N, f, k))]
      BY DEF NameBag, Tally
    <2>3. DOMAIN NameBag(I) = Keys(N, f) /\ key \in Keys(N, f)
      BY <1>5, <2>1, <2>2 DEF BagToSet
    <2>4. NameBag(I)[key] = Cardinality(Keyed(N, f, key))
      BY <2>2, <2>3
    <2>5. Keyed(N, f, key) = {r \in I : NameKey(r) = key}
      <3>1. key.domain # <<>>
        BY <2>1, <2>3 DEF NameKey
      <3>2. \A r \in I : NameKey(r) = key => r.domain # <<>>
        BY <3>1 DEF NameKey
      <3>3. QED
        BY <3>2 DEF Keyed, Named
    <2> HIDE DEF f, N
    <2>6. QED
      BY <2>3, <2>4, <2>5 DEF Copies, BagIn, BagToSet
  <1>6. QED
    BY <1>1, <1>3, <1>4, <1>5 DEF BudgetsAreExact

(* The counters that the triggers keep are exact for every policy, every   *)
(* sequence of requests, edits, refreshes and batches of the retention     *)
(* (policy_impact_count_insert, policy_impact_count_delete).               *)
THEOREM BudgetsStayExact == Spec => []BudgetsAreExact
  <1>1. Init => HistoryOK(history)
    BY HistoryOKInit
  <1>2. HistoryOK(history) /\ [Next]_vars => HistoryOK(history)'
    BY HistorySteps, HistoryOKStep
  <1>3. HistoryOK(history) => BudgetsAreExact
    BY ExactBudgets
  <1>4. QED
    BY <1>1, <1>2, <1>3, PTL DEF Spec

-----------------------------------------------------------------------------
(* Identities *)

(* What the entry of a source means *)
EntryMeaning(name) ==
  [domain |-> name, subdomains |-> TRUE, effect |-> "block", source |-> "blocklist",
   target |-> "dns", scope |-> Global]

(* Identities with what they stand for: of rules, and of the matches that  *)
(* lifetime rows have counted                                              *)
DomainPairs(rules) == {<<d.sid, DomainMeaning(d)>> : d \in rules}
DestinationPairs(rules) == {<<d.sid, DestinationMeaning(d)>> : d \in rules}

CountedAs(lifetime, dimension) ==
  UNION {{<<l.sid, m>> : m \in l.meanings} : l \in {x \in lifetime : x.dimension = dimension}}

(* The hashed identity of an entry, with what the entry means *)
ListPair(p) ==
  /\ p[1].list # 0
  /\ p = <<ListIdentity(p[1].list, p[1].name), EntryMeaning(p[1].name)>>

(* Identities that were given out or hashed, each with one meaning *)
Consistent(pairs, serial) ==
  /\ \A p \in pairs : GivenOut(p[1], serial) \/ ListPair(p)
  /\ \A p, q \in pairs : p[1] = q[1] => p = q

LifetimeOK(lifetime) ==
  \A l \in lifetime :
    /\ l = [dimension |-> l.dimension, sid |-> l.sid, rule |-> l.rule, meanings |-> l.meanings]
    /\ l.dimension \in {"domain", "destination"} /\ l.meanings # {}

DomainHeld(rules, snapshot, lifetime) ==
  DomainPairs(rules) \cup DomainPairs(snapshot.rules) \cup CountedAs(lifetime, "domain")

DestinationHeld(destinations, snapshot, lifetime) ==
  DestinationPairs(destinations) \cup DestinationPairs(snapshot.destinations)
    \cup CountedAs(lifetime, "destination")

BoundsOK ==
  bounds = [steps |-> bounds.steps, failures |-> bounds.failures, serial |-> bounds.serial,
            room |-> bounds.room]

IdentityInv ==
  /\ BoundsOK /\ StoredIdentities(rows, bounds.serial)
  /\ HistoryOK(history) /\ LifetimeOK(history.lifetime)
  /\ Consistent(DomainHeld(rows.rules, active, history.lifetime), bounds.serial)
  /\ Consistent(DestinationHeld(rows.destinations, active, history.lifetime), bounds.serial)

LEMMA CountedAsIs ==
  ASSUME NEW lifetime, NEW dimension
  PROVE  /\ \A p \in CountedAs(lifetime, dimension) :
              \E l \in lifetime : l.dimension = dimension /\ \E m \in l.meanings : p = <<l.sid, m>>
         /\ \A l \in lifetime : l.dimension = dimension =>
              \A m \in l.meanings : <<l.sid, m>> \in CountedAs(lifetime, dimension)
  BY DEF CountedAs

LEMMA IdentitiesDiffer ==
  ASSUME NEW list, list # 0, NEW name, NEW serial
  PROVE  ListIdentity(list, name) # RandomIdentity(serial)
  BY DEF ListIdentity, RandomIdentity

LEMMA GivenOutLater ==
  ASSUME NEW serial \in Nat, NEW sid, GivenOut(sid, serial)
  PROVE  GivenOut(sid, serial + 1) /\ sid.list = 0 /\ sid # RandomIdentity(serial)
  <1>1. PICK k \in 0 .. serial - 1 : sid = RandomIdentity(k)
    BY DEF GivenOut
  <1>2. k \in 0 .. (serial + 1) - 1 /\ k # serial
    OBVIOUS
  <1>3. RandomIdentity(k).list = 0 /\ RandomIdentity(k).serial = k
    BY DEF RandomIdentity
  <1>4. RandomIdentity(serial).serial = serial
    BY DEF RandomIdentity
  <1>5. QED
    BY <1>1, <1>2, <1>3, <1>4 DEF GivenOut

LEMMA RandomGivenOut ==
  ASSUME NEW serial \in Nat
  PROVE  GivenOut(RandomIdentity(serial), serial + 1) /\ RandomIdentity(serial).list = 0
  <1>1. serial \in 0 .. (serial + 1) - 1
    OBVIOUS
  <1>2. QED
    BY <1>1 DEF GivenOut, RandomIdentity

(* A pair that a step may add: one with a new random identity, or the      *)
(* hashed identity of an entry                                             *)
Added(p, fresh, serial, k) == (p = fresh /\ k = 1) \/ ListPair(p)

LEMMA ConsistentGrows ==
  ASSUME NEW pairs, NEW serial \in Nat, Consistent(pairs, serial), NEW k \in {0, 1}, NEW m,
         NEW more, \A p \in more : p \in pairs \/ Added(p, <<RandomIdentity(serial), m>>, serial, k)
  PROVE  Consistent(more, serial + k)
  <1> DEFINE fresh == <<RandomIdentity(serial), m>>
  <1>1. fresh[1] = RandomIdentity(serial)
    OBVIOUS
  <1> HIDE DEF fresh
  <1>2. \A p \in more : p \in pairs \/ (p = fresh /\ k = 1) \/ ListPair(p)
    BY DEF Added, fresh
  <1>3. ASSUME NEW p \in more PROVE GivenOut(p[1], serial + k) \/ ListPair(p)
    <2>1. CASE p \in pairs
      <3>1. GivenOut(p[1], serial) \/ ListPair(p)
        BY <2>1 DEF Consistent
      <3>2. CASE k = 0
        <4>1. serial + k = serial
          BY <3>2
        <4>2. QED
          BY <3>1, <4>1
      <3>3. CASE k = 1
        BY <3>1, <3>3, GivenOutLater
      <3>4. QED
        BY <3>2, <3>3
    <2>2. CASE p = fresh /\ k = 1
      BY <1>1, <2>2, RandomGivenOut
    <2>3. QED
      BY <1>2, <2>1, <2>2
  <1>4. ASSUME NEW p, NEW q, ListPair(p), ListPair(q), p[1] = q[1] PROVE p = q
    BY <1>4 DEF ListPair
  <1>5. ASSUME NEW p, ListPair(p), NEW q \in pairs, p[1] = q[1] PROVE p = q
    <2>1. GivenOut(q[1], serial) \/ ListPair(q)
      BY DEF Consistent
    <2>2. ~GivenOut(q[1], serial)
      BY <1>5, GivenOutLater DEF ListPair
    <2>3. QED
      BY <1>4, <1>5, <2>1, <2>2
  <1>6. ASSUME NEW q \in pairs PROVE q[1] # fresh[1]
    <2>1. GivenOut(q[1], serial) \/ ListPair(q)
      BY DEF Consistent
    <2>2. QED
      BY <1>1, <2>1, GivenOutLater, RandomGivenOut DEF ListPair
  <1>7. ASSUME NEW q, ListPair(q) PROVE q[1] # fresh[1]
    BY <1>1, <1>7, RandomGivenOut DEF ListPair
  <1>8. ASSUME NEW p \in more, NEW q \in more, p[1] = q[1] PROVE p = q
    <2>1. p \in pairs /\ q \in pairs => p = q
      BY <1>8 DEF Consistent
    <2>2. p[1] = q[1] /\ q[1] = p[1]
      BY <1>8
    <2>3. QED
      BY <1>2, <1>4, <1>5, <1>6, <1>7, <2>1, <2>2
  <1>9. QED
    BY <1>3, <1>8 DEF Consistent

(* Consistent identities say of the statistics what is to be shown. *)
LEMMA ConsistentMeaning ==
  ASSUME IdentityInv
  PROVE  IdentityMeansOneRule
  <1>1. ASSUME NEW l \in history.lifetime, NEW pairs, Consistent(pairs, bounds.serial),
               \A m \in l.meanings : <<l.sid, m>> \in pairs
        PROVE  /\ \E m : l.meanings = {m}
               /\ \A m : <<l.sid, m>> \in pairs => l.meanings = {m}
    <2>1. l.meanings # {}
      BY DEF IdentityInv, LifetimeOK
    <2>2. ASSUME NEW a, NEW b, <<l.sid, a>> \in pairs, <<l.sid, b>> \in pairs PROVE a = b
      <3>1. <<l.sid, a>>[1] = <<l.sid, b>>[1]
        OBVIOUS
      <3>2. <<l.sid, a>> = <<l.sid, b>>
        BY <1>1, <2>2, <3>1 DEF Consistent
      <3>3. QED
        BY <3>2
    <2>3. PICK one \in l.meanings : TRUE
      BY <2>1
    <2>4. \A m \in l.meanings : m = one
      BY <1>1, <2>2
    <2>5. l.meanings = {one}
      BY <2>4
    <2>6. <<l.sid, one>> \in pairs
      BY <1>1
    <2>7. QED
      BY <2>2, <2>5, <2>6
  <1>2. ASSUME NEW S, \E m : S = {m} PROVE Cardinality(S) = 1
    BY <1>2, FS_Singleton
  <1> SUFFICES ASSUME NEW l \in history.lifetime
               PROVE  /\ Cardinality(l.meanings) = 1
                      /\ l.dimension = "domain" =>
                           \A d \in rows.rules : d.sid = l.sid => l.meanings = {DomainMeaning(d)}
                      /\ l.dimension = "destination" =>
                           \A d \in rows.destinations :
                             d.sid = l.sid => l.meanings = {DestinationMeaning(d)}
    BY DEF IdentityMeansOneRule
  <1>3. l.dimension \in {"domain", "destination"}
    BY DEF IdentityInv, LifetimeOK
  <1>4. CASE l.dimension = "domain"
    <2> DEFINE pairs == DomainHeld(rows.rules, active, history.lifetime)
    <2>1. \A m \in l.meanings : <<l.sid, m>> \in pairs
      BY <1>4, CountedAsIs DEF DomainHeld
    <2>2. \A d \in rows.rules : d.sid = l.sid => <<l.sid, DomainMeaning(d)>> \in pairs
      BY DEF DomainHeld, DomainPairs
    <2>3. Consistent(pairs, bounds.serial)
      BY DEF IdentityInv
    <2> HIDE DEF pairs
    <2>4. /\ \E m : l.meanings = {m}
          /\ \A m : <<l.sid, m>> \in pairs => l.meanings = {m}
      BY <1>1, <2>1, <2>3
    <2>5. QED
      BY <1>2, <1>4, <2>2, <2>4
  <1>5. CASE l.dimension = "destination"
    <2> DEFINE pairs == DestinationHeld(rows.destinations, active, history.lifetime)
    <2>1. \A m \in l.meanings : <<l.sid, m>> \in pairs
      BY <1>5, CountedAsIs DEF DestinationHeld
    <2>2. \A d \in rows.destinations : d.sid = l.sid => <<l.sid, DestinationMeaning(d)>> \in pairs
      BY DEF DestinationHeld, DestinationPairs
    <2>3. Consistent(pairs, bounds.serial)
      BY DEF IdentityInv
    <2> HIDE DEF pairs
    <2>4. /\ \E m : l.meanings = {m}
          /\ \A m : <<l.sid, m>> \in pairs => l.meanings = {m}
      BY <1>1, <2>1, <2>3
    <2>5. QED
      BY <1>2, <1>5, <2>2, <2>4
  <1>6. QED
    BY <1>3, <1>4, <1>5
-----------------------------------------------------------------------------
(* The matches that a request is counted for *)

MatchWithin(match, rules) ==
  /\ Found(match.selected) => match.selected \in rules
  /\ Found(match.enforcing) => match.enforcing \in rules

LEMMA MatchesWithin ==
  ASSUME NEW snapshot, SnapshotOK(snapshot), NEW client
  PROVE  /\ \A name, target : IsName(name) =>
              MatchWithin(MatchDomain(snapshot, name, client, target), snapshot.rules)
         /\ \A to : MatchWithin(MatchDestination(snapshot, to, client), snapshot.destinations)
         /\ \A rules : MatchWithin(NoMatch, rules)
  <1>1. ASSUME NEW name, NEW target, IsName(name)
        PROVE  MatchWithin(MatchDomain(snapshot, name, client, target), snapshot.rules)
    <2>1. PICK rules : rules = Matching(snapshot, name, client, target)
      OBVIOUS
    <2>2. PICK few : few = {r \in rules : Enforced(snapshot, r, client)}
      OBVIOUS
    <2>3. PICK match : match = MatchDomain(snapshot, name, client, target)
      OBVIOUS
    <2>4. IsDomainChoice(match.selected, rules) /\ IsDomainChoice(match.enforcing, few)
      BY <1>1, <2>1, <2>2, <2>3, DomainDecision DEF SnapshotOK
    <2>5. rules \subseteq snapshot.rules /\ few \subseteq rules
      BY <2>1, <2>2 DEF Matching
    <2>6. MatchWithin(match, snapshot.rules)
      BY <2>4, <2>5 DEF IsDomainChoice, MatchWithin
    <2>7. QED
      BY <2>3, <2>6
  <1>2. ASSUME NEW to
        PROVE  MatchWithin(MatchDestination(snapshot, to, client), snapshot.destinations)
    <2>1. PICK rules : rules = {r \in snapshot.destinations : DestinationRuleMatches(r, to, client)}
      OBVIOUS
    <2>2. PICK few : few = {r \in rules : Enforced(snapshot, r, client)}
      OBVIOUS
    <2>3. PICK match : match = MatchDestination(snapshot, to, client)
      OBVIOUS
    <2>4. IsDestinationChoice(match.selected, rules) /\ IsDestinationChoice(match.enforcing, few)
      BY <2>1, <2>2, <2>3, DestinationDecision DEF SnapshotOK
    <2>5. rules \subseteq snapshot.destinations /\ few \subseteq rules
      BY <2>1, <2>2
    <2>6. MatchWithin(match, snapshot.destinations)
      BY <2>4, <2>5 DEF IsDestinationChoice, MatchWithin
    <2>7. QED
      BY <2>3, <2>6
  <1>3. \A rules : MatchWithin(NoMatch, rules)
    BY DEF MatchWithin, NoMatch, NoRule, Found
  <1>4. QED
    BY <1>1, <1>2, <1>3

(* The report on one question is its match, or nothing. *)
LEMMA OneReported ==
  ASSUME NEW snapshot, NEW name, NEW client, NEW destination
  PROVE  LET result == EvaluateDns(snapshot, <<name>>, client, destination)
         IN  /\ result.destination = destination
             /\ result.policy \in {NoMatch, MatchDomain(snapshot, name, client, "dns")}
  <1>1. PICK match : match = MatchDomain(snapshot, name, client, "dns")
    OBVIOUS
  <1> DEFINE matches == [i \in 1 .. Len(<<name>>) |-> MatchDomain(snapshot, <<name>>[i], client, "dns")]
             blocked == {i \in 1 .. Len(<<name>>) : Effect(matches[i]) = "block"}
             Report(best, m) ==
               IF Found(m.selected)
                  /\ (~Found(best.selected) \/ SourceRank(m.selected) > SourceRank(best.selected))
               THEN m ELSE best
             fold == FoldLeft(Report, NoMatch, matches)
  <1>2. 1 .. Len(<<name>>) = {1} /\ <<name>>[1] = name
    <2>1. Len(<<name>>) = 1
      OBVIOUS
    <2>2. QED
      BY <2>1
  <1>3. DOMAIN matches = {1} /\ matches[1] = match
    BY <1>1, <1>2
  <1>4. blocked # {} => matches[Min(blocked)] = match
    <2>1. blocked \subseteq {1}
      BY <1>2
    <2>2. SUFFICES ASSUME blocked # {} PROVE matches[Min(blocked)] = match
      OBVIOUS
    <2>3. blocked = {1}
      BY <2>1, <2>2
    <2> HIDE DEF blocked, matches
    <2>4. Min({1}) = 1
      BY DEF Min
    <2>5. QED
      BY <1>3, <2>3, <2>4
  <1>5. fold \in {NoMatch, match}
    <2> HIDE DEF matches
    <2> DEFINE Is(iter) == iter = [s \in SUBSET {1} |-> IF s = {} THEN NoMatch
                                     ELSE Report(iter[s \ {Max(s)}], matches[Max(s)])]
               f == [s \in SUBSET {1} |-> IF s = {} THEN NoMatch ELSE Report(NoMatch, match)]
               g == CHOOSE iter : Is(iter)
    <2>1. Max({1}) = 1 /\ {1} \ {1} = {} /\ \A s \in SUBSET {1} : s # {} => s = {1}
      <3>1. Max({1}) = 1
        BY DEF Max
      <3>2. \A s \in SUBSET {1} : s # {} => s = {1}
        OBVIOUS
      <3>3. QED
        BY <3>1, <3>2
    <2>2. Is(f)
      <3>1. f[{}] = NoMatch
        OBVIOUS
      <3> HIDE DEF f
      <3>2. \A s \in SUBSET {1} : s # {} =>
              Report(f[s \ {Max(s)}], matches[Max(s)]) = Report(NoMatch, match)
        BY <1>3, <2>1, <3>1
      <3> HIDE DEF Report
      <3>3. QED
        BY <3>2 DEF f
    <2>3. Is(g)
      BY <2>2
    <2>4. fold = g[{1}]
      BY <1>3 DEF FoldLeft, MapThenFoldSet
    <2> HIDE DEF g
    <2>5. g[{}] = NoMatch /\ g[{1}] = Report(g[{1} \ {Max({1})}], matches[Max({1})])
      <3> HIDE DEF Report
      <3>1. QED
        BY <2>3
    <2>6. g[{1}] = Report(NoMatch, match)
      <3> HIDE DEF Report
      <3>1. QED
        BY <1>3, <2>1, <2>5
    <2>7. QED
      BY <2>4, <2>6
  <1>6. EvaluateDns(snapshot, <<name>>, client, destination) =
          IF blocked # {} THEN Blocked(matches[Min(blocked)], destination)
          ELSE Result("accept", "policy_allow", fold, destination)
    BY DEF EvaluateDns
  <1> HIDE DEF blocked, fold, matches
  <1>7. QED
    BY <1>1, <1>4, <1>5, <1>6 DEF Blocked, Result

(* A decision reports rules of the snapshot. *)
ResultWithin(result, snapshot) ==
  /\ MatchWithin(result.policy, snapshot.rules)
  /\ MatchWithin(result.destination, snapshot.destinations)

LEMMA EvaluatedWithin ==
  ASSUME NEW snapshot, SnapshotOK(snapshot), NEW client, NEW name, IsName(name), NEW to
  PROVE  /\ ResultWithin(Evaluate(snapshot, UdpQuery(client, name, to)), snapshot)
         /\ ResultWithin(EvaluateVisibleSni(snapshot, UdpQuery(client, name, to), name), snapshot)
  <1>1. PICK packet : packet = UdpQuery(client, name, to)
    OBVIOUS
  <1>2. /\ packet.to = to /\ packet.client = client /\ packet.parse = "ok"
        /\ packet.fragmented = FALSE /\ packet.complete = TRUE
        /\ packet.dns.ok /\ packet.dns.questions = <<name>>
    BY <1>1 DEF UdpQuery
  <1>3. PICK destination : destination = MatchDestination(snapshot, to, client)
    OBVIOUS
  <1>4. PICK dns, sni : /\ dns = MatchDomain(snapshot, name, client, "dns")
                        /\ sni = MatchDomain(snapshot, name, client, "tls_sni")
    OBVIOUS
  <1>5. /\ MatchWithin(destination, snapshot.destinations)
        /\ MatchWithin(dns, snapshot.rules) /\ MatchWithin(sni, snapshot.rules)
        /\ MatchWithin(NoMatch, snapshot.rules)
    BY <1>3, <1>4, MatchesWithin
  <1>6. Effect(destination) \in {"allow", "block"}
    BY <1>3, MatchEffects
  <1>7. ASSUME NEW verdict, NEW reason, NEW policy \in {NoMatch, dns, sni}
        PROVE  ResultWithin(Result(verdict, reason, policy, destination), snapshot)
    BY <1>5, <1>7 DEF ResultWithin, Result
  <1>8. PICK asked : asked = EvaluateDns(snapshot, <<name>>, client, destination)
    OBVIOUS
  <1>9. asked.destination = destination /\ asked.policy \in {NoMatch, dns}
    BY <1>4, <1>8, OneReported
  <1>10. ResultWithin(asked, snapshot)
    BY <1>5, <1>9 DEF ResultWithin
  <1>11. EvaluateDnsMessage(snapshot, packet) =
           IF Effect(destination) = "block" THEN Blocked(NoMatch, destination) ELSE asked
    BY <1>2, <1>3, <1>8 DEF EvaluateDnsMessage
  <1>12. ResultWithin(EvaluateDnsMessage(snapshot, packet), snapshot)
    BY <1>7, <1>10, <1>11 DEF Blocked
  <1>13. ResultWithin(Evaluate(snapshot, packet), snapshot)
    <2>1. CASE Effect(destination) = "block"
      <3>1. Evaluate(snapshot, packet) = Blocked(NoMatch, destination)
        BY <1>2, <1>3, <2>1 DEF Evaluate
      <3>2. QED
        BY <1>7, <3>1 DEF Blocked
    <2>2. CASE Effect(destination) = "allow"
      <3>1. Evaluate(snapshot, packet) \in {Passed("stream_pending", destination),
              Passed("pass", destination), EvaluateDnsMessage(snapshot, packet)}
        BY <1>2, <1>3, <2>2 DEF Evaluate
      <3>2. /\ ResultWithin(Passed("stream_pending", destination), snapshot)
            /\ ResultWithin(Passed("pass", destination), snapshot)
        BY <1>7 DEF Passed
      <3>3. QED
        BY <1>12, <3>1, <3>2
    <2>3. QED
      BY <1>6, <2>1, <2>2
  <1>14. ResultWithin(EvaluateVisibleSni(snapshot, packet, name), snapshot)
    <2>1. EvaluateVisibleSni(snapshot, packet, name) \in {Blocked(NoMatch, destination),
            Blocked(sni, destination), Result("accept", "policy_allow", sni, destination)}
      BY <1>2, <1>3, <1>4 DEF EvaluateVisibleSni
    <2>2. QED
      BY <1>7, <2>1 DEF Blocked
  <1>15. QED
    BY <1>1, <1>13, <1>14

(* The rules that are counted are the ones reported. *)
Reported(counted, snapshot) ==
  \/ counted.dimension = "domain" /\ counted.rule \in snapshot.rules
  \/ counted.dimension = "destination" /\ counted.rule \in snapshot.destinations

LEMMA CountedReported ==
  ASSUME NEW snapshot, NEW result, ResultWithin(result, snapshot)
  PROVE  \A i \in DOMAIN CountedFor(result) : Reported(CountedFor(result)[i], snapshot)
  <1>1. ASSUME NEW dimension, NEW match, NEW rules, MatchWithin(match, rules)
        PROVE  \E n \in Nat : CountedRules(dimension, match)
                 \in [1 .. n -> {[dimension |-> dimension, rule |-> r] : r \in rules}]
    <2>1. CASE ~Found(match.selected)
      <3>1. CountedRules(dimension, match) = [i \in DOMAIN <<>> |-> [dimension |-> dimension, rule |-> <<>>[i]]]
        BY <2>1 DEF CountedRules
      <3>2. DOMAIN <<>> = 1 .. 0
        OBVIOUS
      <3>3. CountedRules(dimension, match)
              \in [1 .. 0 -> {[dimension |-> dimension, rule |-> r] : r \in rules}]
        BY <3>1, <3>2
      <3>4. QED
        BY <3>3
    <2>2. CASE Found(match.selected) /\ match.enforcing.id \in {0, match.selected.id}
      <3> DEFINE one == <<match.selected>>
      <3>1. CountedRules(dimension, match) = [i \in DOMAIN one |-> [dimension |-> dimension, rule |-> one[i]]]
        BY <2>2 DEF CountedRules
      <3>2. DOMAIN one = 1 .. 1 /\ \A i \in 1 .. 1 : one[i] \in rules
        BY <1>1, <2>2 DEF MatchWithin
      <3> HIDE DEF one
      <3>3. CountedRules(dimension, match)
              \in [1 .. 1 -> {[dimension |-> dimension, rule |-> r] : r \in rules}]
        BY <3>1, <3>2
      <3>4. QED
        BY <3>3
    <2>3. CASE Found(match.selected) /\ match.enforcing.id \notin {0, match.selected.id}
      <3> DEFINE two == <<match.selected, match.enforcing>>
      <3>1. CountedRules(dimension, match) = [i \in DOMAIN two |-> [dimension |-> dimension, rule |-> two[i]]]
        BY <2>3 DEF CountedRules
      <3>2. DOMAIN two = 1 .. 2 /\ \A i \in 1 .. 2 : two[i] \in rules
        BY <1>1, <2>3 DEF MatchWithin, Found
      <3> HIDE DEF two
      <3>3. CountedRules(dimension, match)
              \in [1 .. 2 -> {[dimension |-> dimension, rule |-> r] : r \in rules}]
        BY <3>1, <3>2
      <3>4. QED
        BY <3>3
    <2>4. QED
      BY <2>1, <2>2, <2>3
  <1>2. CASE result.reason \in {"malformed", "fragment_pending", "stream_pending"}
    BY <1>2 DEF CountedFor
  <1>3. CASE result.reason \notin {"malformed", "fragment_pending", "stream_pending"}
    <2>1. PICK a, b : a = CountedRules("domain", result.policy)
                      /\ b = CountedRules("destination", result.destination)
      OBVIOUS
    <2>2. PICK A, B : A = {[dimension |-> "domain", rule |-> r] : r \in snapshot.rules}
                      /\ B = {[dimension |-> "destination", rule |-> r] : r \in snapshot.destinations}
      OBVIOUS
    <2>3. \A c \in A \cup B : Reported(c, snapshot)
      BY <2>2 DEF Reported
    <2>4. /\ \E n \in Nat : a \in [1 .. n -> A]
          /\ \E n \in Nat : b \in [1 .. n -> B]
      <3>1. \E n \in Nat : a \in [1 .. n -> A]
        BY <1>1, <2>1, <2>2 DEF ResultWithin
      <3>2. \E n \in Nat : b \in [1 .. n -> B]
        BY <1>1, <2>1, <2>2 DEF ResultWithin
      <3>3. QED
        BY <3>1, <3>2
    <2>5. a \in Seq(A) /\ b \in Seq(B)
      BY <2>4, SeqDef
    <2>6. a \o b \in Seq(A \cup B)
      <3>1. a \in Seq(A \cup B) /\ b \in Seq(A \cup B)
        BY <2>5
      <3>2. QED
        BY <3>1
    <2>7. \A i \in DOMAIN (a \o b) : (a \o b)[i] \in A \cup B
      BY <2>6
    <2>8. CountedFor(result) = a \o b
      BY <1>3, <2>1 DEF CountedFor
    <2>9. QED
      BY <2>3, <2>7, <2>8
  <1>4. QED
    BY <1>2, <1>3

(* A sample is that of a rule. *)
SampleFrom(sample, snapshot) ==
  \/ /\ sample.dimension = "domain"
     /\ \E r \in snapshot.rules :
          sample.sid = r.sid /\ sample.rule = r.id /\ sample.meaning = DomainMeaning(r)
  \/ /\ sample.dimension = "destination"
     /\ \E r \in snapshot.destinations :
          sample.sid = r.sid /\ sample.rule = r.id /\ sample.meaning = DestinationMeaning(r)

LEMMA CountRequestIs ==
  ASSUME SnapshotOK(active), CountRequest
  PROVE  \E samples : /\ SamplesOf(history', samples)
                      /\ \A i \in DOMAIN samples : SampleFrom(samples[i], active)
  <1>1. PICK request, path, result :
          LET packet == UdpQuery(request.client, request.name, request.to)
              counted == CountedFor(result)
              samples == [i \in DOMAIN counted |->
                            SampleOf(counted[i], request.client, request.name, path)]
          IN  /\ request \in Requests
              /\ \/ result = Evaluate(active, packet)
                 \/ result = EvaluateVisibleSni(active, packet, request.name)
              /\ history' = RecordStats(history, rows.config, request.full,
                                        [hour |-> now, path |-> path], samples)
    <2>1. PICK request \in Requests :
       LET packet == UdpQuery(request.client, request.name, request.to)
           udp == request.to.transport = "udp"
           path == IF udp THEN "dns" ELSE "tls_sni"
           counted == CountedFor(IF udp THEN Evaluate(active, packet)
                                 ELSE EvaluateVisibleSni(active, packet, request.name))
           samples == [i \in DOMAIN counted |->
                         SampleOf(counted[i], request.client, request.name, path)]
       IN  history' = RecordStats(history, rows.config, request.full,
                                  [hour |-> now, path |-> path], samples)
      BY DEF CountRequest
    <2>2. CASE request.to.transport = "udp"
      BY <2>1, <2>2
    <2>3. CASE request.to.transport # "udp"
      BY <2>1, <2>3
    <2>4. QED
      BY <2>2, <2>3
  <1>2. ResultWithin(result, active)
    BY <1>1, EvaluatedWithin, IdentityAssumption
  <1>3. PICK counted : counted = CountedFor(result)
    OBVIOUS
  <1>4. PICK samples : samples = [i \in DOMAIN counted |->
                                    SampleOf(counted[i], request.client, request.name, path)]
    OBVIOUS
  <1>5. DOMAIN samples = DOMAIN counted
    BY <1>4
  <1>6. \E n \in Nat : DOMAIN samples = 1 .. n
    BY <1>3, <1>5, CountedIsSequence
  <1>7. SamplesOf(history', samples)
    <2>1. history' = RecordStats(history, rows.config, request.full,
                                 [hour |-> now, path |-> path], samples)
      BY <1>1, <1>3, <1>4
    <2>2. QED
      BY <1>6, <2>1 DEF SamplesOf
  <1>8. ASSUME NEW i \in DOMAIN samples PROVE SampleFrom(samples[i], active)
    <2>1. Reported(counted[i], active)
      BY <1>2, <1>3, <1>5, CountedReported
    <2>2. samples[i] = SampleOf(counted[i], request.client, request.name, path)
      BY <1>4, <1>5
    <2>3. /\ samples[i].dimension = counted[i].dimension /\ samples[i].sid = counted[i].rule.sid
          /\ samples[i].rule = counted[i].rule.id
      BY <2>2 DEF SampleOf
    <2>4. samples[i].meaning = IF counted[i].dimension = "domain" THEN DomainMeaning(counted[i].rule)
                               ELSE DestinationMeaning(counted[i].rule)
      BY <2>2 DEF SampleOf
    <2>5. QED
      BY <2>1, <2>3, <2>4 DEF Reported, SampleFrom
  <1>9. QED
    BY <1>7, <1>8

(* Lifetime rows that stand for what others stood for before *)
StandsFor(l2, l) ==
  /\ LifetimeOK(l2)
  /\ CountedAs(l2, "domain") \subseteq CountedAs(l, "domain")
  /\ CountedAs(l2, "destination") \subseteq CountedAs(l, "destination")

LEMMA PartStandsFor ==
  ASSUME NEW l, LifetimeOK(l), NEW l2 \in SUBSET l
  PROVE  StandsFor(l2, l)
  BY DEF StandsFor, LifetimeOK, CountedAs

LEMMA FollowedStandsFor ==
  ASSUME NEW l, LifetimeOK(l), NEW rules
  PROVE  StandsFor(Followed(l, rules), l)
  <1>1. ASSUME NEW r \in l
        PROVE  LET m == MovedRow(rules, r)
               IN  /\ m = [dimension |-> m.dimension, sid |-> m.sid, rule |-> m.rule,
                           meanings |-> m.meanings]
                   /\ m.dimension = r.dimension /\ m.sid = r.sid /\ m.meanings = r.meanings
    <2>1. r = [dimension |-> r.dimension, sid |-> r.sid, rule |-> r.rule, meanings |-> r.meanings]
      BY DEF LifetimeOK
    <2>2. CASE r.dimension # "domain"
      BY <2>1, <2>2 DEF MovedRow
    <2>3. CASE r.dimension = "domain"
      <3>1. PICK id : id = (CHOOSE d \in rules : d.sid = r.sid).id
        OBVIOUS
      <3>2. MovedRow(rules, r) = [r EXCEPT !.rule = id]
        BY <2>3, <3>1 DEF MovedRow
      <3>3. [r EXCEPT !.rule = id] = [dimension |-> r.dimension, sid |-> r.sid, rule |-> id,
                                      meanings |-> r.meanings]
        BY <2>1
      <3>4. QED
        BY <3>2, <3>3
    <2>4. QED
      BY <2>2, <2>3
  <1>2. \A m \in Followed(l, rules) : \E r \in l : m = MovedRow(rules, r)
    BY DEF Followed
  <1>3. LifetimeOK(Followed(l, rules))
    <2>1. \A r \in l : r.dimension \in {"domain", "destination"} /\ r.meanings # {}
      BY DEF LifetimeOK
    <2>2. QED
      BY <1>1, <1>2, <2>1 DEF LifetimeOK
  <1>4. ASSUME NEW dimension PROVE CountedAs(Followed(l, rules), dimension) \subseteq CountedAs(l, dimension)
    <2> SUFFICES ASSUME NEW p \in CountedAs(Followed(l, rules), dimension)
                 PROVE  p \in CountedAs(l, dimension)
      OBVIOUS
    <2>1. PICK m \in Followed(l, rules) : m.dimension = dimension /\ \E x \in m.meanings : p = <<m.sid, x>>
      BY CountedAsIs
    <2>2. PICK r \in l : m = MovedRow(rules, r)
      BY <1>2
    <2>3. m.dimension = r.dimension /\ m.sid = r.sid /\ m.meanings = r.meanings
      BY <1>1, <2>2
    <2>4. QED
      BY <2>1, <2>3, CountedAsIs
  <1>5. QED
    BY <1>3, <1>4 DEF StandsFor

(* Lifetime rows that stand for what others did, or for rules *)
GrowsBy(l2, l, snapshot) ==
  /\ LifetimeOK(l2)
  /\ CountedAs(l2, "domain") \subseteq CountedAs(l, "domain") \cup DomainPairs(snapshot.rules)
  /\ CountedAs(l2, "destination")
       \subseteq CountedAs(l, "destination") \cup DestinationPairs(snapshot.destinations)

LEMMA LivedGrows ==
  ASSUME NEW l, NEW snapshot, NEW k, GrowsBy(k, l, snapshot), NEW sample,
         SampleFrom(sample, snapshot)
  PROVE  GrowsBy(Lived(k, sample), l, snapshot)
  <1>1. PICK row : row = LifetimeRow(k, sample)
    OBVIOUS
  <1>2. /\ row = [dimension |-> row.dimension, sid |-> row.sid, rule |-> row.rule,
                  meanings |-> row.meanings]
        /\ row.dimension = sample.dimension /\ row.sid = sample.sid
        /\ row.meanings = Meant(SameLifetime(k, sample)) \cup {sample.meaning}
    BY <1>1 DEF LifetimeRow
  <1>3. \A x \in Lived(k, sample) : x \in k \/ x = row
    BY <1>1 DEF Lived
  <1>4. LifetimeOK(Lived(k, sample))
    <2>1. row.meanings # {} /\ row.dimension \in {"domain", "destination"}
      BY <1>2 DEF SampleFrom
    <2>2. QED
      BY <1>2, <1>3, <2>1 DEF GrowsBy, LifetimeOK
  <1>5. ASSUME NEW dimension, NEW p \in CountedAs(Lived(k, sample), dimension)
        PROVE  \/ p \in CountedAs(k, dimension)
               \/ sample.dimension = dimension /\ p = <<sample.sid, sample.meaning>>
    <2>1. PICK x \in Lived(k, sample) : x.dimension = dimension /\ \E m \in x.meanings : p = <<x.sid, m>>
      BY <1>5, CountedAsIs
    <2>2. CASE x \in k
      BY <2>1, <2>2, CountedAsIs
    <2>3. CASE x = row
      <3>1. PICK m \in row.meanings : p = <<sample.sid, m>>
        BY <1>2, <2>1, <2>3
      <3>2. CASE m = sample.meaning
        BY <1>2, <2>1, <2>3, <3>1, <3>2
      <3>3. CASE m \in Meant(SameLifetime(k, sample))
        <4>1. PICK r \in SameLifetime(k, sample) : m \in r.meanings
          BY <3>3, MeantIs
        <4>2. r \in k /\ r.dimension = sample.dimension /\ r.sid = sample.sid
          BY <4>1 DEF SameLifetime
        <4>3. <<r.sid, m>> \in CountedAs(k, sample.dimension)
          BY <4>1, <4>2, CountedAsIs
        <4>4. QED
          BY <1>2, <2>1, <2>3, <3>1, <4>2, <4>3
      <3>4. QED
        BY <1>2, <3>1, <3>2, <3>3
    <2>4. QED
      BY <1>3, <2>2, <2>3
  <1>6. /\ sample.dimension = "domain" => <<sample.sid, sample.meaning>> \in DomainPairs(snapshot.rules)
        /\ sample.dimension = "destination" =>
             <<sample.sid, sample.meaning>> \in DestinationPairs(snapshot.destinations)
    BY DEF SampleFrom, DomainPairs, DestinationPairs
  <1>7. QED
    BY <1>4, <1>5, <1>6 DEF GrowsBy

LEMMA CountedGrows ==
  ASSUME HistoryOK(history), LifetimeOK(history.lifetime), NEW snapshot,
         NEW samples, SamplesOf(history', samples),
         \A i \in DOMAIN samples : SampleFrom(samples[i], snapshot)
  PROVE  GrowsBy(history'.lifetime, history.lifetime, snapshot)
  <1>1. PICK n \in Nat : DOMAIN samples = 1 .. n
    BY DEF SamplesOf
  <1>2. PICK config, full, request : history' = RecordStats(history, config, full, request, samples)
    BY DEF SamplesOf
  <1> DEFINE G == {k \in SUBSET LifetimeRows(history.lifetime, samples) :
                     GrowsBy(k, history.lifetime, snapshot)}
  <1>3. history.lifetime \in G
    <2>1. history.lifetime \in SUBSET LifetimeRows(history.lifetime, samples)
      BY DEF LifetimeRows
    <2>2. GrowsBy(history.lifetime, history.lifetime, snapshot)
      BY DEF GrowsBy
    <2>3. QED
      BY <2>1, <2>2
  <1>4. \A k \in G, i \in 1 .. n : Lived(k, samples[i]) \in G
    BY <1>1, LivedWithin, LivedGrows
  <1>5. \A k \in G : GrowsBy(k, history.lifetime, snapshot)
    OBVIOUS
  <1> HIDE DEF G
  <1>6. \E k \in G : ExactWith(RecordStats(history, config, full, request, samples), k)
    BY <1>1, <1>3, <1>4, RecordStatsIs
  <1>7. QED
    BY <1>2, <1>5, <1>6, ExactHistory

-----------------------------------------------------------------------------
(* Identities through the mutations *)

LEMMA RulesLater ==
  ASSUME NEW serial \in Nat, NEW k \in {0, 1}, NEW rules, RuleIdentities(rules, serial),
         NEW part \in SUBSET rules
  PROVE  RuleIdentities(part, serial + k)
  <1>1. ASSUME NEW sid, GivenOut(sid, serial) PROVE GivenOut(sid, serial + k)
    <2>1. CASE k = 0
      <3>1. serial + k = serial
        BY <2>1
      <3>2. QED
        BY <1>1, <3>1
    <2>2. CASE k = 1
      BY <1>1, <2>2, GivenOutLater
    <2>3. QED
      BY <2>1, <2>2
  <1>2. QED
    BY <1>1 DEF RuleIdentities

LEMMA RulesWith ==
  ASSUME NEW serial \in Nat, NEW k \in {0, 1}, NEW rules, RuleIdentities(rules, serial),
         NEW some \in SUBSET rules, NEW row, row.list = 0, GivenOut(row.sid, serial + k),
         \A x \in some : x.sid # row.sid
  PROVE  RuleIdentities(some \cup {row}, serial + k)
  <1>1. RuleIdentities(some, serial + k)
    BY RulesLater
  <1>2. \A a, b \in some \cup {row} : a.sid = b.sid => a = b
    BY <1>1 DEF RuleIdentities
  <1>3. \A a, b \in some \cup {row} :
          a.list # 0 /\ a.list = b.list /\ a.domain = b.domain => a = b
    BY <1>1 DEF RuleIdentities
  <1>4. \A d \in some \cup {row} : d.list # 0 => d = EntryRow(d.id, d.sid, d.list, d.domain)
    BY <1>1 DEF RuleIdentities
  <1>5. \A d \in some \cup {row} : \/ GivenOut(d.sid, serial + k)
                                   \/ d.list # 0 /\ d.sid = ListIdentity(d.list, d.domain)
    BY <1>1 DEF RuleIdentities
  <1>6. QED
    BY <1>2, <1>3, <1>4, <1>5 DEF RuleIdentities

LEMMA DestinationsLater ==
  ASSUME NEW serial \in Nat, NEW k \in {0, 1}, NEW rules, DestinationIdentities(rules, serial),
         NEW part \in SUBSET rules
  PROVE  DestinationIdentities(part, serial + k)
  <1>1. ASSUME NEW sid, GivenOut(sid, serial) PROVE GivenOut(sid, serial + k)
    <2>1. CASE k = 0
      <3>1. serial + k = serial
        BY <2>1
      <3>2. QED
        BY <1>1, <3>1
    <2>2. CASE k = 1
      BY <1>1, <2>2, GivenOutLater
    <2>3. QED
      BY <2>1, <2>2
  <1>2. QED
    BY <1>1 DEF DestinationIdentities

LEMMA DestinationsWith ==
  ASSUME NEW serial \in Nat, NEW k \in {0, 1}, NEW rules, DestinationIdentities(rules, serial),
         NEW some \in SUBSET rules, NEW row, GivenOut(row.sid, serial + k),
         \A x \in some : x.sid # row.sid
  PROVE  DestinationIdentities(some \cup {row}, serial + k)
  <1>1. DestinationIdentities(some, serial + k)
    BY DestinationsLater
  <1>2. QED
    BY <1>1 DEF DestinationIdentities

(* The identity of an entry of a source that is activated *)
LEMMA EntryIdentityIs ==
  ASSUME NEW rules, NEW list, NEW name
  PROVE  \/ /\ EntryIdentity(rules, list, name) = ListIdentity(list, name)
            /\ \A d \in rules : ~(d.list = list /\ d.domain = name)
         \/ \E d \in rules : /\ d.list = list /\ d.domain = name
                             /\ EntryIdentity(rules, list, name) = d.sid
  <1> DEFINE had == {d \in rules : d.list = list /\ d.domain = name}
  <1>1. CASE had = {}
    <2>1. EntryIdentity(rules, list, name) = ListIdentity(list, name)
      BY <1>1 DEF EntryIdentity
    <2>2. QED
      BY <1>1, <2>1
  <1>2. CASE had # {}
    <2>1. EntryIdentity(rules, list, name) = (CHOOSE d \in had : TRUE).sid
      BY <1>2 DEF EntryIdentity
    <2>2. PICK d : d = CHOOSE x \in had : TRUE
      OBVIOUS
    <2>3. d \in had
      BY <1>2, <2>2
    <2>4. QED
      BY <2>1, <2>2, <2>3
  <1>3. QED
    BY <1>1, <1>2

LEMMA EntryFields ==
  ASSUME NEW r, NEW list, NEW names, NEW i
  PROVE  LET e == Entry(r, list, names, i)
         IN  /\ e = EntryRow(e.id, e.sid, e.list, e.domain)
             /\ e.list = list /\ e.domain = names[i]
             /\ e.sid = EntryIdentity(r.rules, list, names[i])
             /\ DomainMeaning(e) = EntryMeaning(names[i])
  BY DEF Entry, EntryRow, DomainMeaning, EntryMeaning

LEMMA ListIdentityIs ==
  ASSUME NEW a, NEW b, NEW n, NEW m
  PROVE  /\ ListIdentity(a, n) = ListIdentity(b, m) => a = b /\ n = m
         /\ ListIdentity(a, n).list = a /\ ListIdentity(a, n).name = n
  BY DEF ListIdentity

LEMMA ActivatedIdentities ==
  ASSUME NEW serial \in Nat, NEW r, RuleIdentities(r.rules, serial), NEW list, list # 0,
         NEW names \in ListContents, NEW others, others = {d \in r.rules : d.list # list}
  PROVE  RuleIdentities(others \cup Entries(r, list, names), serial)
  <1> DEFINE E(i) == Entry(r, list, names, i)
             table == others \cup Entries(r, list, names)
  <1>1. others \subseteq r.rules /\ \A d \in others : d.list # list
    OBVIOUS
  <1>2. ASSUME NEW d \in table
        PROVE  d \in others \/ \E i \in DOMAIN names : d = E(i)
    BY DEF Entries
  <1>3. \A i, j \in DOMAIN names : names[i] = names[j] => i = j
    BY IdentityAssumption DEF IsInjective
  <1>4. ASSUME NEW i \in DOMAIN names
        PROVE  \/ /\ E(i).sid = ListIdentity(list, names[i])
                  /\ \A d \in r.rules : ~(d.list = list /\ d.domain = names[i])
               \/ \E d \in r.rules : d.list = list /\ d.domain = names[i] /\ E(i).sid = d.sid
    BY EntryFields, EntryIdentityIs
  <1>5. \A d \in r.rules : GivenOut(d.sid, serial) \/ (d.list # 0 /\ d.sid = ListIdentity(d.list, d.domain))
    BY DEF RuleIdentities
  <1>6. \A sid : GivenOut(sid, serial) => sid.list = 0
    BY GivenOutLater
  <1>7. \A i \in DOMAIN names : E(i).list = list /\ E(i).domain = names[i]
    BY EntryFields
  <1>8. ASSUME NEW i \in DOMAIN names, NEW d \in r.rules,
               ListIdentity(list, names[i]) = d.sid
        PROVE  d.list = list /\ d.domain = names[i]
    BY <1>5, <1>6, <1>8, ListIdentityIs
  <1>9. ASSUME NEW i \in DOMAIN names, NEW d \in r.rules, E(i).sid = d.sid
        PROVE  d.list = list /\ d.domain = names[i]
    <2> HIDE DEF E
    <2>1. \A a, b \in r.rules : a.sid = b.sid => a = b
      BY DEF RuleIdentities
    <2>2. QED
      BY <1>4, <1>8, <1>9, <2>1
  <1>10. ASSUME NEW i \in DOMAIN names, NEW j \in DOMAIN names, E(i).sid = E(j).sid
         PROVE  i = j
    <2> HIDE DEF E
    <2>1. CASE \E d \in r.rules : d.list = list /\ d.domain = names[i] /\ E(i).sid = d.sid
      BY <1>3, <1>9, <1>10, <2>1
    <2>2. CASE \E d \in r.rules : d.list = list /\ d.domain = names[j] /\ E(j).sid = d.sid
      BY <1>3, <1>9, <1>10, <2>2
    <2>3. CASE E(i).sid = ListIdentity(list, names[i]) /\ E(j).sid = ListIdentity(list, names[j])
      <3>1. ListIdentity(list, names[i]) = ListIdentity(list, names[j])
        BY <1>10, <2>3
      <3>2. names[i] = names[j]
        BY <3>1, ListIdentityIs
      <3>3. QED
        BY <1>3, <3>2
    <2>4. QED
      BY <1>4, <2>1, <2>2, <2>3
  <1> HIDE DEF E, table
  <1>11. \A a, b \in table : a.sid = b.sid => a = b
    <2> SUFFICES ASSUME NEW a \in table, NEW b \in table, a.sid = b.sid PROVE a = b
      OBVIOUS
    <2>1. a \in others /\ b \in others => a = b
      BY <1>1 DEF RuleIdentities
    <2>2. ASSUME NEW i \in DOMAIN names, NEW d \in others PROVE E(i).sid # d.sid
      BY <1>1, <1>9
    <2>3. QED
      BY <1>2, <1>10, <2>1, <2>2
  <1>12. \A a, b \in table : a.list # 0 /\ a.list = b.list /\ a.domain = b.domain => a = b
    <2> SUFFICES ASSUME NEW a \in table, NEW b \in table, a.list # 0, a.list = b.list,
                        a.domain = b.domain
                 PROVE  a = b
      OBVIOUS
    <2>1. a \in others /\ b \in others => a = b
      BY <1>1 DEF RuleIdentities
    <2>2. QED
      BY <1>1, <1>2, <1>3, <1>7, <2>1
  <1>13. \A d \in table : d.list # 0 => d = EntryRow(d.id, d.sid, d.list, d.domain)
    <2>1. \A i \in DOMAIN names : E(i) = EntryRow(E(i).id, E(i).sid, E(i).list, E(i).domain)
      BY EntryFields DEF E
    <2>2. QED
      BY <1>1, <1>2, <2>1 DEF RuleIdentities
  <1>14. \A d \in table : \/ GivenOut(d.sid, serial)
                          \/ d.list # 0 /\ d.sid = ListIdentity(d.list, d.domain)
    <2>1. ASSUME NEW i \in DOMAIN names
          PROVE  GivenOut(E(i).sid, serial) \/ E(i).sid = ListIdentity(list, names[i])
      BY <1>4, <1>5
    <2>2. QED
      BY <1>1, <1>2, <1>5, <1>7, <2>1
  <1>15. QED
    BY <1>11, <1>12, <1>13, <1>14 DEF RuleIdentities, table

(* A snapshot has the identities of the rows. *)
LEMMA SnapshotPairs ==
  ASSUME NEW r, StoredPolicy(r)
  PROVE  /\ DomainPairs(Build(Loaded(r)).rules) \subseteq DomainPairs(r.rules)
         /\ DestinationPairs(Build(Loaded(r)).destinations) \subseteq DestinationPairs(r.destinations)
  <1>1. /\ Build(Loaded(r)).rules \subseteq LoadedRules(r)
        /\ Build(Loaded(r)).destinations \subseteq LoadedDestinations(r)
    BY SnapshotIs DEF Retained
  <1>2. \A d : /\ LoadedRule(r, d).sid = d.sid
               /\ DomainMeaning(LoadedRule(r, d)) = DomainMeaning(d)
    BY DEF LoadedRule, DomainMeaning
  <1>3. \A d : /\ LoadedDestination(r, d).sid = d.sid
               /\ DestinationMeaning(LoadedDestination(r, d)) = DestinationMeaning(d)
    BY DEF LoadedDestination, DestinationMeaning
  <1>4. ASSUME NEW x \in LoadedRules(r) PROVE <<x.sid, DomainMeaning(x)>> \in DomainPairs(r.rules)
    BY <1>2 DEF LoadedRules, DomainPairs
  <1>5. ASSUME NEW x \in LoadedDestinations(r)
        PROVE  <<x.sid, DestinationMeaning(x)>> \in DestinationPairs(r.destinations)
    BY <1>3 DEF LoadedDestinations, DestinationPairs
  <1>6. QED
    BY <1>1, <1>4, <1>5 DEF DomainPairs, DestinationPairs

(* What a mutation may do to the identities and to the lifetime rows *)
FewAdded(pairs, old, k) ==
  \E m : \A p \in pairs :
    p \in old \/ Added(p, <<RandomIdentity(bounds.serial), m>>, bounds.serial, k)

IdentityChange(r, k) ==
  /\ k \in {0, 1}
  /\ StoredIdentities(r, bounds.serial + k)
  /\ FewAdded(DomainPairs(r.rules), DomainPairs(rows.rules), k)
  /\ FewAdded(DestinationPairs(r.destinations), DestinationPairs(rows.destinations), k)

HistoryChange(h) == HistoryOK(h) /\ StandsFor(h.lifetime, history.lifetime)

LEMMA PublishKeepsIdentities ==
  ASSUME IdentityInv, NEW r, NEW h, NEW k, StoredPolicy(r),
         IdentityChange(r, k), HistoryChange(h), Publish(r, h, k)
  PROVE  IdentityInv'
  <1>1. rows' = r /\ history' = h
    BY DEF Publish
  <1>2. active' = active \/ active' = Build(Loaded(r))
    BY DEF Publish
  <1>3. PICK s, f, n, o : bounds = [steps |-> s, failures |-> f, serial |-> n, room |-> o]
    BY DEF IdentityInv, BoundsOK
  <1>4. bounds.serial = n /\ n \in Nat
    BY <1>3 DEF IdentityInv, StoredIdentities
  <1>5. PICK left : left = [bounds EXCEPT !.steps = @ - 1, !.serial = @ + k]
    OBVIOUS
  <1>6. bounds' = left \/ bounds' = [left EXCEPT !.failures = @ - 1]
    BY <1>5 DEF Publish
  <1>7. left = [steps |-> s - 1, failures |-> f, serial |-> n + k, room |-> o]
    BY <1>3, <1>5
  <1>8. [left EXCEPT !.failures = @ - 1]
          = [steps |-> s - 1, failures |-> f - 1, serial |-> n + k, room |-> o]
    BY <1>7
  <1>9. BoundsOK' /\ bounds'.serial = n + k
    <2>1. CASE bounds' = left
      BY <1>7, <2>1 DEF BoundsOK
    <2>2. CASE bounds' = [left EXCEPT !.failures = @ - 1]
      BY <1>8, <2>2 DEF BoundsOK
    <2>3. QED
      BY <1>6, <2>1, <2>2
  <1>10. StoredIdentities(rows', bounds'.serial)
    BY <1>1, <1>4, <1>9 DEF IdentityChange
  <1>11. HistoryOK(history') /\ LifetimeOK(history'.lifetime)
    BY <1>1 DEF HistoryChange, StandsFor
  <1>12. Consistent(DomainHeld(rows'.rules, active', history'.lifetime), bounds'.serial)
    <2>1. PICK m : \A p \in DomainPairs(r.rules) :
            p \in DomainPairs(rows.rules) \/ Added(p, <<RandomIdentity(n), m>>, n, k)
      BY <1>4 DEF IdentityChange, FewAdded
    <2>2. PICK old : old = DomainHeld(rows.rules, active, history.lifetime)
      OBVIOUS
    <2>3. PICK new : new = DomainHeld(r.rules, active', h.lifetime)
      OBVIOUS
    <2>4. \A p \in new : p \in old \/ Added(p, <<RandomIdentity(n), m>>, n, k)
      <3>1. DomainPairs(active'.rules) \subseteq DomainPairs(active.rules) \cup DomainPairs(r.rules)
        BY <1>2, SnapshotPairs
      <3>2. CountedAs(h.lifetime, "domain") \subseteq CountedAs(history.lifetime, "domain")
        BY DEF HistoryChange, StandsFor
      <3>3. QED
        BY <2>1, <2>2, <2>3, <3>1, <3>2 DEF DomainHeld
    <2>5. Consistent(old, n)
      BY <1>4, <2>2 DEF IdentityInv
    <2>6. Consistent(new, n + k)
      BY <1>4, <2>4, <2>5, ConsistentGrows DEF IdentityChange
    <2>7. QED
      BY <1>1, <1>9, <2>3, <2>6
  <1>13. Consistent(DestinationHeld(rows'.destinations, active', history'.lifetime), bounds'.serial)
    <2>1. PICK m : \A p \in DestinationPairs(r.destinations) :
            p \in DestinationPairs(rows.destinations) \/ Added(p, <<RandomIdentity(n), m>>, n, k)
      BY <1>4 DEF IdentityChange, FewAdded
    <2>2. PICK old : old = DestinationHeld(rows.destinations, active, history.lifetime)
      OBVIOUS
    <2>3. PICK new : new = DestinationHeld(r.destinations, active', h.lifetime)
      OBVIOUS
    <2>4. \A p \in new : p \in old \/ Added(p, <<RandomIdentity(n), m>>, n, k)
      <3>1. DestinationPairs(active'.destinations)
              \subseteq DestinationPairs(active.destinations) \cup DestinationPairs(r.destinations)
        BY <1>2, SnapshotPairs
      <3>2. CountedAs(h.lifetime, "destination") \subseteq CountedAs(history.lifetime, "destination")
        BY DEF HistoryChange, StandsFor
      <3>3. QED
        BY <2>1, <2>2, <2>3, <3>1, <3>2 DEF DestinationHeld
    <2>5. Consistent(old, n)
      BY <1>4, <2>2 DEF IdentityInv
    <2>6. Consistent(new, n + k)
      BY <1>4, <2>4, <2>5, ConsistentGrows DEF IdentityChange
    <2>7. QED
      BY <1>1, <1>9, <2>3, <2>6
  <1>14. QED
    BY <1>9, <1>10, <1>11, <1>12, <1>13 DEF IdentityInv

LEMMA HistoryChanges ==
  ASSUME HistoryOK(history), LifetimeOK(history.lifetime)
  PROVE  /\ HistoryChange(history)
         /\ \A dimension, sid : HistoryChange(DeleteRuleStatistics(history, dimension, sid))
         /\ \A rules : HistoryChange(FollowDomainRules(history, rules))
         /\ \A hour, config, limit : \A left \in CleanedUp(history, hour, config, limit) :
              HistoryChange(left)
  <1>1. ASSUME NEW h, NEW l \in SUBSET history.lifetime, ExactWith(h, l) PROVE HistoryChange(h)
    BY <1>1, ExactHistory, PartStandsFor DEF HistoryChange
  <1>2. HistoryChange(history)
    BY PartStandsFor DEF HistoryChange
  <1>3. ASSUME NEW dimension, NEW sid PROVE HistoryChange(DeleteRuleStatistics(history, dimension, sid))
    <2>1. PICK l \in SUBSET history.lifetime :
            l = {r \in history.lifetime : r.dimension # dimension \/ r.sid # sid}
      OBVIOUS
    <2>2. ExactWith(DeleteRuleStatistics(history, dimension, sid), l)
      BY <2>1, DeleteRuleStatisticsIs
    <2>3. QED
      BY <1>1, <2>2
  <1>4. ASSUME NEW rules PROVE HistoryChange(FollowDomainRules(history, rules))
    BY FollowDomainRulesIs, FollowedStandsFor, ExactHistory DEF HistoryChange
  <1>5. ASSUME NEW hour, NEW config, NEW limit, NEW left \in CleanedUp(history, hour, config, limit)
        PROVE  HistoryChange(left)
    BY <1>1, CleanedUpIs
  <1>6. QED
    BY <1>2, <1>3, <1>4, <1>5

LEMMA NoneAdded ==
  ASSUME NEW old, NEW pairs \in SUBSET old, NEW k
  PROVE  FewAdded(pairs, old, k)
  BY DEF FewAdded

LEMMA PairsOfPart ==
  ASSUME NEW rules, NEW part \in SUBSET rules
  PROVE  DomainPairs(part) \subseteq DomainPairs(rules)
         /\ DestinationPairs(part) \subseteq DestinationPairs(rules)
  BY DEF DomainPairs, DestinationPairs

(* Rows that are deleted, and rows of other tables *)
LEMMA PartChange ==
  ASSUME StoredIdentities(rows, bounds.serial), NEW r, r.rules \subseteq rows.rules,
         r.destinations \subseteq rows.destinations,
         IsTable(r.lists), \A list \in r.lists : list.id \in Nat \ {0}
  PROVE  IdentityChange(r, 0)
  <1>1. bounds.serial + 0 = bounds.serial /\ bounds.serial \in Nat
    BY DEF StoredIdentities
  <1>2. RuleIdentities(r.rules, bounds.serial + 0) /\ DestinationIdentities(r.destinations, bounds.serial + 0)
    <2>1. PICK k \in {0, 1} : k = 0
      OBVIOUS
    <2>2. RuleIdentities(r.rules, bounds.serial + k)
      BY <1>1, RulesLater DEF StoredIdentities
    <2>3. DestinationIdentities(r.destinations, bounds.serial + k)
      BY <1>1, DestinationsLater DEF StoredIdentities
    <2>4. QED
      BY <2>1, <2>2, <2>3
  <1>3. /\ FewAdded(DomainPairs(r.rules), DomainPairs(rows.rules), 0)
        /\ FewAdded(DestinationPairs(r.destinations), DestinationPairs(rows.destinations), 0)
    BY NoneAdded, PairsOfPart
  <1>4. QED
    BY <1>1, <1>2, <1>3 DEF IdentityChange, StoredIdentities

LEMMA RulesChange ==
  ASSUME StoredPolicy(rows), StoredIdentities(rows, bounds.serial), NEW k \in {0, 1}, NEW rules,
         RuleIdentities(rules, bounds.serial + k),
         FewAdded(DomainPairs(rules), DomainPairs(rows.rules), k)
  PROVE  IdentityChange([rows EXCEPT !.rules = rules], k)
  <1>1. PICK r : r = [rows EXCEPT !.rules = rules]
    OBVIOUS
  <1>2. r.rules = rules /\ r.destinations = rows.destinations /\ r.lists = rows.lists
    BY <1>1 DEF StoredPolicy
  <1>3. bounds.serial \in Nat /\ bounds.serial + k \in Nat
    BY DEF StoredIdentities
  <1>4. DestinationIdentities(rows.destinations, bounds.serial + k)
    BY <1>3, DestinationsLater DEF StoredIdentities
  <1>5. FewAdded(DestinationPairs(rows.destinations), DestinationPairs(rows.destinations), k)
    BY NoneAdded
  <1>6. QED
    BY <1>1, <1>2, <1>3, <1>4, <1>5 DEF IdentityChange, StoredIdentities

LEMMA DestinationsChange ==
  ASSUME StoredPolicy(rows), StoredIdentities(rows, bounds.serial), NEW k \in {0, 1},
         NEW destinations, DestinationIdentities(destinations, bounds.serial + k),
         FewAdded(DestinationPairs(destinations), DestinationPairs(rows.destinations), k)
  PROVE  IdentityChange([rows EXCEPT !.destinations = destinations], k)
  <1>1. PICK r : r = [rows EXCEPT !.destinations = destinations]
    OBVIOUS
  <1>2. r.rules = rows.rules /\ r.destinations = destinations /\ r.lists = rows.lists
    BY <1>1 DEF StoredPolicy
  <1>3. bounds.serial \in Nat /\ bounds.serial + k \in Nat
    BY DEF StoredIdentities
  <1>4. RuleIdentities(rows.rules, bounds.serial + k)
    BY <1>3, RulesLater DEF StoredIdentities
  <1>5. FewAdded(DomainPairs(rows.rules), DomainPairs(rows.rules), k)
    BY NoneAdded
  <1>6. QED
    BY <1>1, <1>2, <1>3, <1>4, <1>5 DEF IdentityChange, StoredIdentities

IdentityStep == \E r, h, k : IdentityChange(r, k) /\ HistoryChange(h) /\ Publish(r, h, k)

(* A rule that is new, or whose meaning an edit has changed *)
LEMMA NewDomainRule ==
  ASSUME StoredPolicy(rows), StoredIdentities(rows, bounds.serial), NEW some \in SUBSET rows.rules,
         NEW row, row.list = 0, row.sid = RandomIdentity(bounds.serial)
  PROVE  IdentityChange([rows EXCEPT !.rules = some \cup {row}], 1)
  <1>1. PICK n \in Nat : n = bounds.serial
    BY DEF StoredIdentities
  <1>2. GivenOut(row.sid, n + 1)
    BY <1>1, RandomGivenOut
  <1>3. ASSUME NEW x \in some PROVE x.sid # row.sid
    <2>1. GivenOut(x.sid, n) \/ (x.list # 0 /\ x.sid = ListIdentity(x.list, x.domain))
      BY <1>1 DEF StoredIdentities, RuleIdentities
    <2>2. QED
      BY <1>1, <2>1, GivenOutLater, IdentitiesDiffer
  <1>4. RuleIdentities(some \cup {row}, n + 1)
    BY <1>1, <1>2, <1>3, RulesWith DEF StoredIdentities
  <1>5. FewAdded(DomainPairs(some \cup {row}), DomainPairs(rows.rules), 1)
    <2>1. \A p \in DomainPairs(some \cup {row}) :
            p \in DomainPairs(rows.rules) \/ p = <<RandomIdentity(bounds.serial), DomainMeaning(row)>>
      BY DEF DomainPairs
    <2>2. QED
      BY <2>1 DEF FewAdded, Added
  <1>6. QED
    BY <1>1, <1>4, <1>5, RulesChange

LEMMA NewDestinationRule ==
  ASSUME StoredPolicy(rows), StoredIdentities(rows, bounds.serial),
         NEW some \in SUBSET rows.destinations, NEW row, row.sid = RandomIdentity(bounds.serial)
  PROVE  IdentityChange([rows EXCEPT !.destinations = some \cup {row}], 1)
  <1>1. PICK n \in Nat : n = bounds.serial
    BY DEF StoredIdentities
  <1>2. GivenOut(row.sid, n + 1)
    BY <1>1, RandomGivenOut
  <1>3. ASSUME NEW x \in some PROVE x.sid # row.sid
    <2>1. GivenOut(x.sid, n)
      BY <1>1 DEF StoredIdentities, DestinationIdentities
    <2>2. QED
      BY <1>1, <2>1, GivenOutLater
  <1>4. DestinationIdentities(some \cup {row}, n + 1)
    BY <1>1, <1>2, <1>3, DestinationsWith DEF StoredIdentities
  <1>5. FewAdded(DestinationPairs(some \cup {row}), DestinationPairs(rows.destinations), 1)
    <2>1. \A p \in DestinationPairs(some \cup {row}) :
            \/ p \in DestinationPairs(rows.destinations)
            \/ p = <<RandomIdentity(bounds.serial), DestinationMeaning(row)>>
      BY DEF DestinationPairs
    <2>2. QED
      BY <2>1 DEF FewAdded, Added
  <1>6. QED
    BY <1>1, <1>4, <1>5, DestinationsChange

(* A rule that means what it meant *)
LEMMA SameDomainRule ==
  ASSUME StoredPolicy(rows), StoredIdentities(rows, bounds.serial), NEW current \in rows.rules,
         current.list = 0, NEW row, row.list = 0, row.id = current.id, row.sid = current.sid,
         DomainMeaning(row) = DomainMeaning(current)
  PROVE  IdentityChange([rows EXCEPT !.rules = Without(rows.rules, current.id) \cup {row}], 0)
  <1>1. PICK n \in Nat : n = bounds.serial
    BY DEF StoredIdentities
  <1>2. PICK some \in SUBSET rows.rules : some = Without(rows.rules, current.id)
    BY DEF Without
  <1>3. \A x \in some : x.sid # row.sid
    BY <1>2 DEF StoredIdentities, RuleIdentities, Without
  <1>4. GivenOut(row.sid, n)
    BY <1>1 DEF StoredIdentities, RuleIdentities
  <1>5. PICK k \in {0, 1} : k = 0
    OBVIOUS
  <1>6. n + k = n
    BY <1>5
  <1>7. RuleIdentities(some \cup {row}, n + k)
    BY <1>1, <1>3, <1>4, <1>6, RulesWith DEF StoredIdentities
  <1>8. FewAdded(DomainPairs(some \cup {row}), DomainPairs(rows.rules), k)
    <2>1. \A p \in DomainPairs(some \cup {row}) : p \in DomainPairs(rows.rules)
      BY DEF DomainPairs
    <2>2. QED
      BY <2>1, NoneAdded
  <1>9. QED
    BY <1>1, <1>2, <1>5, <1>7, <1>8, RulesChange

LEMMA SameDestinationRule ==
  ASSUME StoredPolicy(rows), StoredIdentities(rows, bounds.serial),
         NEW current \in rows.destinations, NEW row, row.id = current.id, row.sid = current.sid,
         DestinationMeaning(row) = DestinationMeaning(current)
  PROVE  IdentityChange([rows EXCEPT !.destinations =
                           Without(rows.destinations, current.id) \cup {row}], 0)
  <1>1. PICK n \in Nat : n = bounds.serial
    BY DEF StoredIdentities
  <1>2. PICK some \in SUBSET rows.destinations : some = Without(rows.destinations, current.id)
    BY DEF Without
  <1>3. \A x \in some : x.sid # row.sid
    BY <1>2 DEF StoredIdentities, DestinationIdentities, Without
  <1>4. GivenOut(row.sid, n)
    BY <1>1 DEF StoredIdentities, DestinationIdentities
  <1>5. PICK k \in {0, 1} : k = 0
    OBVIOUS
  <1>6. n + k = n
    BY <1>5
  <1>7. DestinationIdentities(some \cup {row}, n + k)
    BY <1>1, <1>3, <1>4, <1>6, DestinationsWith DEF StoredIdentities
  <1>8. FewAdded(DestinationPairs(some \cup {row}), DestinationPairs(rows.destinations), k)
    <2>1. \A p \in DestinationPairs(some \cup {row}) : p \in DestinationPairs(rows.destinations)
      BY DEF DestinationPairs
    <2>2. QED
      BY <2>1, NoneAdded
  <1>9. QED
    BY <1>1, <1>2, <1>5, <1>7, <1>8, DestinationsChange

(* An edit keeps the identity exactly when it keeps the meaning. *)
LEMMA EditedRule ==
  ASSUME NEW current, NEW q, NEW serial
  PROVE  LET row == ReplacementDomainRule(current, q, serial)
         IN  /\ row.id = current.id /\ row.list = 0
             /\ \/ row.sid = current.sid /\ DomainSemanticsEqual(current, row)
                \/ row.sid = RandomIdentity(serial) /\ ~DomainSemanticsEqual(current, row)
  <1>1. PICK kept : kept = DomainRow(current.id, current.sid, q)
    OBVIOUS
  <1>2. PICK new : new = RandomIdentity(serial)
    OBVIOUS
  <1>3. PICK other : other = [kept EXCEPT !.sid = new]
    OBVIOUS
  <1>4. other = DomainRow(current.id, new, q)
    BY <1>1, <1>3 DEF DomainRow
  <1>5. /\ kept.id = current.id /\ kept.list = 0 /\ kept.sid = current.sid
        /\ other.id = current.id /\ other.list = 0 /\ other.sid = new
    BY <1>1, <1>4 DEF DomainRow
  <1>6. DomainMeaning(other) = DomainMeaning(kept) /\ other.group = kept.group
    BY <1>1, <1>4 DEF DomainRow, DomainMeaning
  <1>7. CASE DomainSemanticsEqual(current, kept)
    <2>1. ReplacementDomainRule(current, q, serial) = kept
      BY <1>1, <1>7 DEF ReplacementDomainRule
    <2>2. QED
      BY <1>5, <1>7, <2>1
  <1>8. CASE ~DomainSemanticsEqual(current, kept)
    <2>1. ReplacementDomainRule(current, q, serial) = other
      BY <1>1, <1>2, <1>3, <1>8 DEF ReplacementDomainRule
    <2>2. ~DomainSemanticsEqual(current, other)
      BY <1>6, <1>8 DEF DomainSemanticsEqual
    <2>3. QED
      BY <1>2, <1>5, <2>1, <2>2
  <1>9. QED
    BY <1>7, <1>8

LEMMA EditedDestination ==
  ASSUME NEW current, NEW q, NEW serial
  PROVE  LET row == ReplacementDestinationRule(current, q, serial)
         IN  /\ row.id = current.id
             /\ \/ row.sid = current.sid /\ DestinationSemanticsEqual(current, row)
                \/ row.sid = RandomIdentity(serial)
  <1>1. PICK sid \in {current.sid, RandomIdentity(serial)} :
          ReplacementDestinationRule(current, q, serial) = DestinationRow(current.id, sid, q)
    BY ReplacementDestinationIs
  <1>2. \A x : DestinationRow(current.id, x, q).id = current.id /\ DestinationRow(current.id, x, q).sid = x
    BY DEF DestinationRow
  <1>3. CASE DestinationSemanticsEqual(current, DestinationRow(current.id, current.sid, q))
    <2>1. ReplacementDestinationRule(current, q, serial) = DestinationRow(current.id, current.sid, q)
      BY <1>3 DEF ReplacementDestinationRule
    <2>2. QED
      BY <1>2, <1>3, <2>1
  <1>4. CASE ~DestinationSemanticsEqual(current, DestinationRow(current.id, current.sid, q))
    <2>1. PICK kept : kept = DestinationRow(current.id, current.sid, q)
      OBVIOUS
    <2>2. ReplacementDestinationRule(current, q, serial) = [kept EXCEPT !.sid = RandomIdentity(serial)]
      BY <1>4, <2>1 DEF ReplacementDestinationRule
    <2>3. [kept EXCEPT !.sid = RandomIdentity(serial)].sid = RandomIdentity(serial)
      BY <2>1 DEF DestinationRow
    <2>4. QED
      BY <1>1, <1>2, <2>2, <2>3
  <1>5. QED
    BY <1>3, <1>4

(* The rules of requests are in no source. *)
LEMMA ExplicitRule ==
  ASSUME NEW serial, NEW rules, RuleIdentities(rules, serial), NEW d \in rules,
         d.source = "explicit"
  PROVE  d.list = 0
  <1>1. EntryRow(d.id, d.sid, d.list, d.domain).source = "blocklist"
    BY DEF EntryRow
  <1>2. QED
    BY <1>1 DEF RuleIdentities

LEMMA DomainIdentities ==
  ASSUME StoredPolicy(rows), IdentityInv, CreateDomainRule \/ UpdateDomainRule \/ DeleteDomainRule
  PROVE  IdentityStep
  <1>1. StoredIdentities(rows, bounds.serial) /\ bounds.serial \in Nat
    BY DEF IdentityInv, StoredIdentities
  <1>2. /\ HistoryChange(history)
        /\ \A dimension, sid : HistoryChange(DeleteRuleStatistics(history, dimension, sid))
    BY HistoryChanges DEF IdentityInv
  <1>3. CASE CreateDomainRule
    <2>1. PICK q, id : Publish(InsertedDomainRule(rows, DomainRow(id, RandomIdentity(bounds.serial), q)),
                               history, 1)
      BY <1>3 DEF CreateDomainRule
    <2>2. PICK row : row = DomainRow(id, RandomIdentity(bounds.serial), q)
      OBVIOUS
    <2>3. row.list = 0 /\ row.sid = RandomIdentity(bounds.serial)
      BY <2>2 DEF DomainRow
    <2>4. IdentityChange([rows EXCEPT !.rules = rows.rules \cup {row}], 1)
      BY <1>1, <2>3, NewDomainRule
    <2>5. QED
      BY <1>2, <2>1, <2>2, <2>4 DEF IdentityStep, InsertedDomainRule
  <1>4. CASE UpdateDomainRule
    <2>1. PICK current \in rows.rules, q \in DomainRequests :
            LET row == ReplacementDomainRule(current, q, bounds.serial)
            IN  /\ current.source = "explicit"
                /\ Publish(UpdatedDomainRule(rows, row),
                           IF row.sid = current.sid THEN history
                           ELSE DeleteRuleStatistics(history, "domain", current.sid),
                           IF row.sid = current.sid THEN 0 ELSE 1)
      BY <1>4 DEF UpdateDomainRule
    <2>2. PICK row : row = ReplacementDomainRule(current, q, bounds.serial)
      OBVIOUS
    <2>3. /\ row.id = current.id /\ row.list = 0
          /\ \/ row.sid = current.sid /\ DomainSemanticsEqual(current, row)
             \/ row.sid = RandomIdentity(bounds.serial)
      BY <2>2, EditedRule
    <2>4. current.list = 0
      BY <1>1, <2>1, ExplicitRule DEF StoredIdentities
    <2>5. GivenOut(current.sid, bounds.serial)
      BY <1>1, <2>4 DEF StoredIdentities, RuleIdentities
    <2>6. current.sid # RandomIdentity(bounds.serial)
      BY <1>1, <2>5, GivenOutLater
    <2>7. UpdatedDomainRule(rows, row)
            = [rows EXCEPT !.rules = Without(rows.rules, current.id) \cup {row}]
      BY <2>3 DEF UpdatedDomainRule
    <2>8. CASE row.sid = current.sid
      <3>1. IdentityChange([rows EXCEPT !.rules = Without(rows.rules, current.id) \cup {row}], 0)
        BY <1>1, <2>3, <2>4, <2>6, <2>8, SameDomainRule DEF DomainSemanticsEqual
      <3>2. Publish(UpdatedDomainRule(rows, row), history, 0)
        BY <2>1, <2>2, <2>8
      <3>3. QED
        BY <1>2, <2>7, <3>1, <3>2 DEF IdentityStep
    <2>9. CASE row.sid # current.sid
      <3>1. PICK some \in SUBSET rows.rules : some = Without(rows.rules, current.id)
        BY DEF Without
      <3>2. IdentityChange([rows EXCEPT !.rules = some \cup {row}], 1)
        BY <1>1, <2>3, <2>9, NewDomainRule
      <3>3. Publish(UpdatedDomainRule(rows, row), DeleteRuleStatistics(history, "domain", current.sid), 1)
        BY <2>1, <2>2, <2>9
      <3>4. QED
        BY <1>2, <2>7, <3>1, <3>2, <3>3 DEF IdentityStep
    <2>10. QED
      BY <2>8, <2>9
  <1>5. CASE DeleteDomainRule
    <2>1. PICK row \in rows.rules :
            Publish(DeletedDomainRule(rows, row),
                    DeleteRuleStatistics(history, "domain", row.sid), 0)
      BY <1>5 DEF DeleteDomainRule
    <2>2. PICK r : r = DeletedDomainRule(rows, row)
      OBVIOUS
    <2>3. r.rules = rows.rules \ {row} /\ r.destinations = rows.destinations /\ r.lists = rows.lists
      BY <2>2 DEF DeletedDomainRule, StoredPolicy
    <2>4. IdentityChange(r, 0)
      BY <1>1, <2>3, PartChange DEF StoredIdentities
    <2>5. QED
      BY <1>2, <2>1, <2>2, <2>4 DEF IdentityStep
  <1>6. QED
    BY <1>3, <1>4, <1>5

LEMMA DestinationStepIdentities ==
  ASSUME StoredPolicy(rows), IdentityInv,
         CreateDestinationRule \/ UpdateDestinationRule \/ DeleteDestinationRule
  PROVE  IdentityStep
  <1>1. StoredIdentities(rows, bounds.serial) /\ bounds.serial \in Nat
    BY DEF IdentityInv, StoredIdentities
  <1>2. /\ HistoryChange(history)
        /\ \A dimension, sid : HistoryChange(DeleteRuleStatistics(history, dimension, sid))
    BY HistoryChanges DEF IdentityInv
  <1>3. CASE CreateDestinationRule
    <2>1. PICK q, id : Publish(InsertedDestinationRule(rows,
                                 DestinationRow(id, RandomIdentity(bounds.serial), q)), history, 1)
      BY <1>3 DEF CreateDestinationRule
    <2>2. PICK row : row = DestinationRow(id, RandomIdentity(bounds.serial), q)
      OBVIOUS
    <2>3. row.sid = RandomIdentity(bounds.serial)
      BY <2>2 DEF DestinationRow
    <2>4. IdentityChange([rows EXCEPT !.destinations = rows.destinations \cup {row}], 1)
      BY <1>1, <2>3, NewDestinationRule
    <2>5. QED
      BY <1>2, <2>1, <2>2, <2>4 DEF IdentityStep, InsertedDestinationRule
  <1>4. CASE UpdateDestinationRule
    <2>1. PICK current \in rows.destinations, q \in DestinationRequests :
            LET row == ReplacementDestinationRule(current, q, bounds.serial)
            IN  Publish(UpdatedDestinationRule(rows, row),
                        IF row.sid = current.sid THEN history
                        ELSE DeleteRuleStatistics(history, "destination", current.sid),
                        IF row.sid = current.sid THEN 0 ELSE 1)
      BY <1>4 DEF UpdateDestinationRule
    <2>2. PICK row : row = ReplacementDestinationRule(current, q, bounds.serial)
      OBVIOUS
    <2>3. /\ row.id = current.id
          /\ \/ row.sid = current.sid /\ DestinationSemanticsEqual(current, row)
             \/ row.sid = RandomIdentity(bounds.serial)
      BY <2>2, EditedDestination
    <2>5. GivenOut(current.sid, bounds.serial)
      BY <1>1 DEF StoredIdentities, DestinationIdentities
    <2>6. current.sid # RandomIdentity(bounds.serial)
      BY <1>1, <2>5, GivenOutLater
    <2>7. UpdatedDestinationRule(rows, row)
            = [rows EXCEPT !.destinations = Without(rows.destinations, current.id) \cup {row}]
      BY <2>3 DEF UpdatedDestinationRule
    <2>8. CASE row.sid = current.sid
      <3>1. IdentityChange([rows EXCEPT !.destinations =
                              Without(rows.destinations, current.id) \cup {row}], 0)
        BY <1>1, <2>3, <2>6, <2>8, SameDestinationRule DEF DestinationSemanticsEqual
      <3>2. Publish(UpdatedDestinationRule(rows, row), history, 0)
        BY <2>1, <2>2, <2>8
      <3>3. QED
        BY <1>2, <2>7, <3>1, <3>2 DEF IdentityStep
    <2>9. CASE row.sid # current.sid
      <3>1. PICK some \in SUBSET rows.destinations : some = Without(rows.destinations, current.id)
        BY DEF Without
      <3>2. IdentityChange([rows EXCEPT !.destinations = some \cup {row}], 1)
        BY <1>1, <2>3, <2>9, NewDestinationRule
      <3>3. Publish(UpdatedDestinationRule(rows, row),
                    DeleteRuleStatistics(history, "destination", current.sid), 1)
        BY <2>1, <2>2, <2>9
      <3>4. QED
        BY <1>2, <2>7, <3>1, <3>2, <3>3 DEF IdentityStep
    <2>10. QED
      BY <2>8, <2>9
  <1>5. CASE DeleteDestinationRule
    <2>1. PICK row \in rows.destinations :
            Publish(DeletedDestinationRule(rows, row),
                    DeleteRuleStatistics(history, "destination", row.sid), 0)
      BY <1>5 DEF DeleteDestinationRule
    <2>2. PICK r : r = DeletedDestinationRule(rows, row)
      OBVIOUS
    <2>3. r.destinations = rows.destinations \ {row} /\ r.rules = rows.rules /\ r.lists = rows.lists
      BY <2>2 DEF DeletedDestinationRule, StoredPolicy
    <2>4. IdentityChange(r, 0)
      BY <1>1, <2>3, PartChange DEF StoredIdentities
    <2>5. QED
      BY <1>2, <2>1, <2>2, <2>4 DEF IdentityStep
  <1>6. QED
    BY <1>3, <1>4, <1>5

(* Sources that are created and updated *)
LEMMA ListsChange ==
  ASSUME StoredPolicy(rows), StoredIdentities(rows, bounds.serial), NEW id \in Nat \ {0}, NEW config,
         NEW some \in SUBSET rows.lists, \A list \in some : list.id # id
  PROVE  IdentityChange([rows EXCEPT !.lists = some \cup {GroupRow(id, config)}], 0)
  <1>1. PICK row : row = GroupRow(id, config)
    OBVIOUS
  <1>2. row.id = id
    BY <1>1 DEF GroupRow
  <1>3. PICK lists : lists = some \cup {row}
    OBVIOUS
  <1>4. IsTable(lists) /\ \A list \in lists : list.id \in Nat \ {0}
    BY <1>2, <1>3, TableWith DEF StoredIdentities
  <1>5. PICK r : r = [rows EXCEPT !.lists = lists]
    OBVIOUS
  <1>6. r.rules = rows.rules /\ r.destinations = rows.destinations /\ r.lists = lists
    BY <1>5 DEF StoredPolicy
  <1>7. IdentityChange(r, 0)
    BY <1>4, <1>6, PartChange
  <1>8. QED
    BY <1>1, <1>3, <1>5, <1>7

LEMMA OtherIdentities ==
  ASSUME StoredPolicy(rows), IdentityInv,
         \/ CreateGroup \/ UpdateGroup \/ DeleteGroup
         \/ CreateScopeMode \/ UpdateScopeMode \/ DeleteScopeMode \/ SetGlobalMode
         \/ CreateList \/ UpdateList
  PROVE  IdentityStep
  <1>1. StoredIdentities(rows, bounds.serial) /\ HistoryChange(history)
    BY HistoryChanges DEF IdentityInv
  <1>2. IsTable(rows.lists) /\ \A list \in rows.lists : list.id \in Nat \ {0}
    BY <1>1 DEF StoredIdentities
  <1>3. ASSUME NEW r, r.rules \subseteq rows.rules, r.destinations \subseteq rows.destinations,
               r.lists = rows.lists, Publish(r, history, 0)
        PROVE  IdentityStep
    BY <1>1, <1>2, <1>3, PartChange DEF IdentityStep
  <1>4. ASSUME NEW x
        PROVE  /\ \A r \in {[rows EXCEPT !.groups = x], [rows EXCEPT !.modes = x],
                            [rows EXCEPT !.global = x]} :
                    r.rules = rows.rules /\ r.destinations = rows.destinations /\ r.lists = rows.lists
    BY DEF StoredPolicy
  <1>5. CASE CreateGroup \/ UpdateGroup
    <2>1. \E x : Publish([rows EXCEPT !.groups = x], history, 0)
      BY <1>5 DEF CreateGroup, UpdateGroup, InsertedGroup, UpdatedGroup
    <2>2. QED
      BY <1>3, <1>4, <2>1
  <1>6. CASE DeleteGroup
    <2>1. PICK group : Publish(DeletedGroup(rows, group), history, 0)
      BY <1>6 DEF DeleteGroup
    <2>2. PICK r : r = DeletedGroup(rows, group)
      OBVIOUS
    <2>3. /\ r.rules = {d \in rows.rules : d.group # group}
          /\ r.destinations = {d \in rows.destinations : d.group # group}
          /\ r.lists = rows.lists
      BY <2>2 DEF DeletedGroup, StoredPolicy
    <2>4. QED
      BY <1>3, <2>1, <2>2, <2>3
  <1>7. CASE CreateScopeMode \/ UpdateScopeMode \/ DeleteScopeMode
    <2>1. \E x : Publish([rows EXCEPT !.modes = x], history, 0)
      BY <1>7 DEF CreateScopeMode, UpdateScopeMode, DeleteScopeMode, InsertedMode, UpdatedMode,
                  DeletedMode
    <2>2. QED
      BY <1>3, <1>4, <2>1
  <1>8. CASE SetGlobalMode
    <2>1. \E x : Publish([rows EXCEPT !.global = x], history, 0)
      BY <1>8 DEF SetGlobalMode
    <2>2. QED
      BY <1>3, <1>4, <2>1
  <1>9. CASE CreateList
    <2>1. PICK config : Publish(InsertedList(rows, GroupRow(NextRowId(rows.lists), config)), history, 0)
      BY <1>9 DEF CreateList
    <2>2. PICK id : id = NextRowId(rows.lists)
      OBVIOUS
    <2>3. id \in Nat \ {0} /\ \A list \in rows.lists : list.id < id /\ list.id \in Nat
      BY <1>2, <2>2, RowIdIsNew DEF IsTable
    <2>4. \A list \in rows.lists : list.id # id
      BY <2>3
    <2>5. IdentityChange([rows EXCEPT !.lists = rows.lists \cup {GroupRow(id, config)}], 0)
      BY <1>1, <2>3, <2>4, ListsChange
    <2>6. QED
      BY <1>1, <2>1, <2>2, <2>5 DEF InsertedList, IdentityStep
  <1>10. CASE UpdateList
    <2>1. PICK list \in rows.lists, config \in GroupConfigs :
            Publish(UpdatedList(rows, GroupRow(list.id, config)), history, 0)
      BY <1>10 DEF UpdateList
    <2>2. PICK id \in Nat \ {0} : id = list.id
      BY <1>2
    <2>3. PICK some \in SUBSET rows.lists : some = Without(rows.lists, id)
      BY DEF Without
    <2>4. \A x \in some : x.id # id
      BY <2>3 DEF Without
    <2>5. IdentityChange([rows EXCEPT !.lists = some \cup {GroupRow(id, config)}], 0)
      BY <1>1, <2>4, ListsChange
    <2>6. UpdatedList(rows, GroupRow(id, config))
            = [rows EXCEPT !.lists = some \cup {GroupRow(id, config)}]
      BY <2>3 DEF UpdatedList, GroupRow
    <2>7. QED
      BY <1>1, <2>1, <2>2, <2>5, <2>6 DEF IdentityStep
  <1>11. QED
    BY <1>5, <1>6, <1>7, <1>8, <1>9, <1>10

LEMMA ListIdentities ==
  ASSUME StoredPolicy(rows), IdentityInv, DeleteList \/ ActivateList
  PROVE  IdentityStep
  <1>1. /\ StoredIdentities(rows, bounds.serial)
        /\ \A rules : HistoryChange(FollowDomainRules(history, rules))
    BY HistoryChanges DEF IdentityInv
  <1>2. IsTable(rows.lists) /\ \A list \in rows.lists : list.id \in Nat \ {0}
    BY <1>1 DEF StoredIdentities
  <1>3. CASE DeleteList
    <2>1. PICK list : Publish(DeletedList(rows, list),
                              FollowDomainRules(history, DeletedList(rows, list).rules), 0)
      BY <1>3 DEF DeleteList
    <2>2. PICK r : r = DeletedList(rows, list)
      OBVIOUS
    <2>3. PICK lists \in SUBSET rows.lists : lists = Without(rows.lists, list)
      BY DEF Without
    <2>4. /\ r.rules = {d \in rows.rules : d.list # list}
          /\ r.destinations = rows.destinations /\ r.lists = lists
      BY <2>2, <2>3 DEF DeletedList, StoredPolicy
    <2>5. IsTable(r.lists) /\ \A x \in r.lists : x.id \in Nat \ {0}
      BY <1>2, <2>4, TablePart
    <2>6. IdentityChange(r, 0)
      BY <1>1, <2>4, <2>5, PartChange
    <2>7. QED
      BY <1>1, <2>1, <2>2, <2>6 DEF IdentityStep
  <1>4. CASE ActivateList
    <2>1. PICK source \in rows.lists, names \in ListContents :
            Publish(ActivatedList(rows, source.id, names),
                    FollowDomainRules(history, ActivatedList(rows, source.id, names).rules), 0)
      BY <1>4 DEF ActivateList
    <2>2. PICK list \in Nat \ {0} : list = source.id
      BY <1>2
    <2>3. PICK n \in Nat : n = bounds.serial
      BY <1>1 DEF StoredIdentities
    <2>4. PICK others : others = {d \in rows.rules : d.list # list}
      OBVIOUS
    <2>5. PICK entries : entries = Entries(rows, list, names)
      OBVIOUS
    <2>6. RuleIdentities(others \cup entries, n)
      BY <1>1, <2>3, <2>4, <2>5, ActivatedIdentities DEF StoredIdentities
    <2>7. ASSUME NEW p \in DomainPairs(others \cup entries)
          PROVE  p \in DomainPairs(rows.rules) \/ ListPair(p)
      <3>1. PICK d \in others \cup entries : p = <<d.sid, DomainMeaning(d)>>
        BY DEF DomainPairs
      <3>2. CASE d \in others
        BY <2>4, <3>1, <3>2 DEF DomainPairs
      <3>3. CASE d \in entries
        <4>1. PICK i \in DOMAIN names : d = Entry(rows, list, names, i)
          BY <2>5, <3>3 DEF Entries
        <4>2. PICK name : name = names[i]
          OBVIOUS
        <4>3. d.sid = EntryIdentity(rows.rules, list, name) /\ DomainMeaning(d) = EntryMeaning(name)
          BY <4>1, <4>2, EntryFields
        <4>4. CASE EntryIdentity(rows.rules, list, name) = ListIdentity(list, name)
          <5>1. p = <<ListIdentity(list, name), EntryMeaning(name)>>
            BY <3>1, <4>3, <4>4
          <5>2. p[1] = ListIdentity(list, name)
            BY <5>1
          <5>3. QED
            BY <5>1, <5>2, ListIdentityIs DEF ListPair
        <4>5. CASE \E x \in rows.rules : /\ x.list = list /\ x.domain = name
                                         /\ EntryIdentity(rows.rules, list, name) = x.sid
          <5>1. PICK x \in rows.rules : x.list = list /\ x.domain = name /\ d.sid = x.sid
            BY <4>3, <4>5
          <5>2. x = EntryRow(x.id, x.sid, x.list, x.domain)
            BY <1>1, <5>1 DEF StoredIdentities, RuleIdentities
          <5>3. DomainMeaning(EntryRow(x.id, x.sid, x.list, x.domain)) = EntryMeaning(x.domain)
            BY DEF EntryRow, DomainMeaning, EntryMeaning
          <5>4. p = <<x.sid, DomainMeaning(x)>>
            BY <3>1, <4>3, <5>1, <5>2, <5>3
          <5>5. QED
            BY <5>4 DEF DomainPairs
        <4>6. QED
          BY <4>4, <4>5, EntryIdentityIs
      <3>4. QED
        BY <3>1, <3>2, <3>3
    <2>8. PICK k \in {0, 1} : k = 0
      OBVIOUS
    <2>9. FewAdded(DomainPairs(others \cup entries), DomainPairs(rows.rules), k)
      BY <2>7 DEF FewAdded, Added
    <2>10. RuleIdentities(others \cup entries, bounds.serial + k)
      <3>1. n + k = n
        BY <2>8
      <3>2. QED
        BY <2>3, <2>6, <3>1
    <2>11. IdentityChange([rows EXCEPT !.rules = others \cup entries], 0)
      BY <1>1, <2>8, <2>9, <2>10, RulesChange
    <2>12. ActivatedList(rows, list, names) = [rows EXCEPT !.rules = others \cup entries]
      BY <2>4, <2>5, ActivatedIs
    <2>13. QED
      BY <1>1, <2>1, <2>2, <2>11, <2>12 DEF IdentityStep
  <1>5. QED
    BY <1>3, <1>4

LEMMA IdentityInvInit ==
  ASSUME Init
  PROVE  IdentityInv
  <1>1. PICK s \in Scenarios :
          /\ rows = s.rows /\ active = Build(Loaded(s.rows)) /\ history = NoHistory
          /\ bounds = [steps |-> s.steps, failures |-> s.failures, serial |-> s.serial,
                       room |-> s.room]
    BY DEF Init
  <1>2. bounds.serial = s.serial /\ BoundsOK
    BY <1>1 DEF BoundsOK
  <1>3. StoredIdentities(rows, bounds.serial) /\ StoredPolicy(rows)
    BY <1>1, <1>2, IdentityAssumption, PolicyAssumption
  <1>4. history.lifetime = {} /\ HistoryOK(history)
    BY <1>1, HistoryOKInit DEF NoHistory
  <1>5. LifetimeOK(history.lifetime)
    BY <1>4 DEF LifetimeOK
  <1>6. /\ CountedAs(history.lifetime, "domain") = {}
        /\ CountedAs(history.lifetime, "destination") = {}
    BY <1>4, CountedAsIs
  <1>7. /\ DomainHeld(rows.rules, active, history.lifetime) = DomainPairs(rows.rules)
        /\ DestinationHeld(rows.destinations, active, history.lifetime)
             = DestinationPairs(rows.destinations)
    <2>1. /\ DomainPairs(active.rules) \subseteq DomainPairs(rows.rules)
          /\ DestinationPairs(active.destinations) \subseteq DestinationPairs(rows.destinations)
      BY <1>1, <1>3, SnapshotPairs
    <2>2. QED
      BY <1>6, <2>1 DEF DomainHeld, DestinationHeld
  <1>8. Consistent(DomainPairs(rows.rules), bounds.serial)
    <2>1. ASSUME NEW d \in rows.rules, d.list # 0, d.sid = ListIdentity(d.list, d.domain)
          PROVE  ListPair(<<d.sid, DomainMeaning(d)>>)
      <3>1. d = EntryRow(d.id, d.sid, d.list, d.domain)
        BY <1>3, <2>1 DEF StoredIdentities, RuleIdentities
      <3>2. DomainMeaning(EntryRow(d.id, d.sid, d.list, d.domain)) = EntryMeaning(d.domain)
        BY DEF EntryRow, DomainMeaning, EntryMeaning
      <3>3. PICK p : p = <<d.sid, DomainMeaning(d)>>
        OBVIOUS
      <3>4. p[1] = ListIdentity(d.list, d.domain) /\ p = <<p[1], EntryMeaning(d.domain)>>
        BY <2>1, <3>1, <3>2, <3>3
      <3>5. ListPair(p)
        BY <2>1, <3>4, ListIdentityIs DEF ListPair
      <3>6. QED
        BY <3>3, <3>5
    <2>2. ASSUME NEW p \in DomainPairs(rows.rules) PROVE GivenOut(p[1], bounds.serial) \/ ListPair(p)
      <3>1. PICK d \in rows.rules : p = <<d.sid, DomainMeaning(d)>>
        BY DEF DomainPairs
      <3>2. p[1] = d.sid
        BY <3>1
      <3>3. GivenOut(d.sid, bounds.serial) \/ (d.list # 0 /\ d.sid = ListIdentity(d.list, d.domain))
        BY <1>3 DEF StoredIdentities, RuleIdentities
      <3>4. QED
        BY <2>1, <3>1, <3>2, <3>3
    <2>3. \A p, q \in DomainPairs(rows.rules) : p[1] = q[1] => p = q
      BY <1>3 DEF DomainPairs, StoredIdentities, RuleIdentities
    <2>4. QED
      BY <2>2, <2>3 DEF Consistent
  <1>9. Consistent(DestinationPairs(rows.destinations), bounds.serial)
    BY <1>3 DEF Consistent, DestinationPairs, StoredIdentities, DestinationIdentities
  <1>10. QED
    BY <1>2, <1>3, <1>4, <1>5, <1>7, <1>8, <1>9 DEF IdentityInv

(* Steps that give out no identity *)
LEMMA HeldStays ==
  ASSUME IdentityInv, BoundsOK', bounds'.serial = bounds.serial,
         rows'.rules = rows.rules, rows'.destinations = rows.destinations, rows'.lists = rows.lists,
         HistoryOK(history'), GrowsBy(history'.lifetime, history.lifetime, active),
         DomainPairs(active'.rules) \subseteq DomainHeld(rows.rules, active, history.lifetime),
         DestinationPairs(active'.destinations)
           \subseteq DestinationHeld(rows.destinations, active, history.lifetime)
  PROVE  IdentityInv'
  <1>1. ASSUME NEW pairs, NEW some \in SUBSET pairs, NEW serial, Consistent(pairs, serial)
        PROVE  Consistent(some, serial)
    BY <1>1 DEF Consistent
  <1>2. DomainHeld(rows'.rules, active', history'.lifetime)
          \subseteq DomainHeld(rows.rules, active, history.lifetime)
    BY DEF DomainHeld, GrowsBy
  <1>3. DestinationHeld(rows'.destinations, active', history'.lifetime)
          \subseteq DestinationHeld(rows.destinations, active, history.lifetime)
    BY DEF DestinationHeld, GrowsBy
  <1>4. /\ Consistent(DomainHeld(rows'.rules, active', history'.lifetime), bounds'.serial)
        /\ Consistent(DestinationHeld(rows'.destinations, active', history'.lifetime), bounds'.serial)
    BY <1>1, <1>2, <1>3 DEF IdentityInv
  <1>5. StoredIdentities(rows', bounds'.serial)
    BY DEF IdentityInv, StoredIdentities
  <1>6. LifetimeOK(history'.lifetime)
    BY DEF GrowsBy
  <1>7. QED
    BY <1>4, <1>5, <1>6 DEF IdentityInv

LEMMA StandingGrows ==
  ASSUME NEW l2, NEW l, NEW snapshot, StandsFor(l2, l)
  PROVE  GrowsBy(l2, l, snapshot)
  BY DEF StandsFor, GrowsBy

LEMMA IdentityInvStep ==
  ASSUME PolicyInv, IdentityInv, [Next]_vars
  PROVE  IdentityInv'
  <1>1. StoredPolicy(rows) /\ StoredPolicy(rows') /\ SnapshotOK(active)
    BY PolicyInvStep DEF PolicyInv
  <1>2. HistoryChange(history)
    BY HistoryChanges DEF IdentityInv
  <1>3. /\ DomainPairs(active.rules) \subseteq DomainHeld(rows.rules, active, history.lifetime)
        /\ DestinationPairs(active.destinations)
             \subseteq DestinationHeld(rows.destinations, active, history.lifetime)
        /\ DomainPairs(rows.rules) \subseteq DomainHeld(rows.rules, active, history.lifetime)
        /\ DestinationPairs(rows.destinations)
             \subseteq DestinationHeld(rows.destinations, active, history.lifetime)
    BY DEF DomainHeld, DestinationHeld
  <1>4. ASSUME Spend PROVE BoundsOK' /\ bounds'.serial = bounds.serial
    <2>1. PICK s, f, n, o : bounds = [steps |-> s, failures |-> f, serial |-> n, room |-> o]
      BY DEF IdentityInv, BoundsOK
    <2>2. bounds' = [steps |-> s - 1, failures |-> f, serial |-> n, room |-> o]
      BY <1>4, <2>1 DEF Spend
    <2>3. QED
      BY <2>1, <2>2 DEF BoundsOK
  <1>5. ASSUME UNCHANGED bounds PROVE BoundsOK' /\ bounds'.serial = bounds.serial
    BY <1>5 DEF IdentityInv, BoundsOK
  <1>6. ASSUME UNCHANGED <<rows, active>>, HistoryChange(history'), Spend \/ UNCHANGED bounds
        PROVE  IdentityInv'
    <2>1. HistoryOK(history') /\ GrowsBy(history'.lifetime, history.lifetime, active)
      BY <1>6, StandingGrows DEF HistoryChange
    <2>2. QED
      BY <1>3, <1>4, <1>5, <1>6, <2>1, HeldStays
  <1>7. CASE IdentityStep
    <2>1. PICK r, h, k : IdentityChange(r, k) /\ HistoryChange(h) /\ Publish(r, h, k)
      BY <1>7 DEF IdentityStep
    <2>2. StoredPolicy(r)
      BY <1>1, <2>1 DEF Publish
    <2>3. QED
      BY <2>1, <2>2, PublishKeepsIdentities
  <1>8. CASE Reload
    <2>1. active' = Build(Loaded(rows)) /\ UNCHANGED <<rows, history, bounds>>
      BY <1>8 DEF Reload
    <2>2. /\ DomainPairs(active'.rules) \subseteq DomainPairs(rows.rules)
          /\ DestinationPairs(active'.destinations) \subseteq DestinationPairs(rows.destinations)
      BY <1>1, <2>1, SnapshotPairs
    <2>3. HistoryOK(history') /\ GrowsBy(history'.lifetime, history.lifetime, active)
      BY <1>2, <2>1, StandingGrows DEF HistoryChange
    <2>4. QED
      BY <1>3, <1>5, <2>1, <2>2, <2>3, HeldStays
  <1>9. CASE CountRequest
    <2>1. UNCHANGED <<rows, active>> /\ Spend
      BY <1>9 DEF CountRequest
    <2>2. PICK samples : /\ SamplesOf(history', samples)
                         /\ \A i \in DOMAIN samples : SampleFrom(samples[i], active)
      BY <1>1, <1>9, CountRequestIs
    <2>3. GrowsBy(history'.lifetime, history.lifetime, active)
      BY <2>2, CountedGrows DEF IdentityInv
    <2>4. HistoryOK(history')
      BY HistorySteps, HistoryOKStep DEF IdentityInv
    <2>5. QED
      BY <1>3, <1>4, <2>1, <2>3, <2>4, HeldStays
  <1>10. CASE Hour \/ UNCHANGED vars
    <2>1. UNCHANGED <<rows, active, history, bounds>>
      BY <1>10 DEF Hour, vars
    <2>2. QED
      BY <1>2, <1>6, <2>1
  <1>11. CASE AutomaticCleanup \/ CleanupRequest
    <2>1. UNCHANGED <<rows, active>> /\ Spend
      BY <1>11 DEF AutomaticCleanup, CleanupRequest
    <2>2. \E hour, config, limit : history' \in CleanedUp(history, hour, config, limit)
      BY <1>11 DEF AutomaticCleanup, CleanupRequest
    <2>3. HistoryChange(history')
      BY <2>2, HistoryChanges DEF IdentityInv
    <2>4. QED
      BY <1>6, <2>1, <2>3
  <1>12. CASE UpdateStatsConfig
    <2>1. PICK config : rows' = [rows EXCEPT !.config = config]
      BY <1>12 DEF UpdateStatsConfig
    <2>2. UNCHANGED <<active, history>> /\ Spend
      BY <1>12 DEF UpdateStatsConfig
    <2>3. rows'.rules = rows.rules /\ rows'.destinations = rows.destinations /\ rows'.lists = rows.lists
      BY <1>1, <2>1 DEF StoredPolicy
    <2>4. HistoryOK(history') /\ GrowsBy(history'.lifetime, history.lifetime, active)
      BY <1>2, <2>2, StandingGrows DEF HistoryChange
    <2>5. QED
      BY <1>3, <1>4, <2>2, <2>3, <2>4, HeldStays
  <1>13. CASE Next
    <2>1. CASE Mutation
      BY <1>1, <1>7, <2>1, DomainIdentities, DestinationStepIdentities, OtherIdentities,
         ListIdentities DEF Mutation
    <2>2. \/ Mutation \/ Reload \/ UpdateStatsConfig
          \/ CountRequest \/ Hour \/ AutomaticCleanup \/ CleanupRequest
      BY <1>13 DEF Next, Mutation
    <2>3. QED
      BY <1>8, <1>9, <1>10, <1>11, <1>12, <2>1, <2>2
  <1>14. QED
    BY <1>10, <1>13

(* The identities that are stored, published and counted stand for one     *)
(* meaning each, for every policy and every sequence of edits, refreshes,  *)
(* failed publications and requests (assign_statistics_id,                 *)
(* stage_blocklist_rule_identities, jg_database_record_policy_stats).      *)
THEOREM IdentityInvHolds == Spec => [](PolicyInv /\ IdentityInv)
  <1>1. Init => PolicyInv /\ IdentityInv
    BY PolicyInvInit, IdentityInvInit
  <1>2. PolicyInv /\ IdentityInv /\ [Next]_vars => (PolicyInv /\ IdentityInv)'
    BY PolicyInvStep, IdentityInvStep
  <1>3. QED
    BY <1>1, <1>2, PTL DEF Spec

(* An identity stands for one meaning: the matches counted under it are    *)
(* matches of rules that mean the same, and a rule that has the identity   *)
(* means that too (assign_statistics_id, domain_semantics_equal,           *)
(* stage_blocklist_rule_identities).                                       *)
THEOREM IdentitiesMeanOneRule == Spec => []IdentityMeansOneRule
  <1>1. PolicyInv /\ IdentityInv => IdentityMeansOneRule
    BY ConsistentMeaning
  <1>2. QED
    BY <1>1, IdentityInvHolds, PTL

-----------------------------------------------------------------------------
(* The history of a rule *)

(* A lifetime row that has what a rule's row had *)
Carries(l, sid, id, meanings) ==
  \E m \in l : m.dimension = "domain" /\ m.rule = id /\ m.sid = sid /\ meanings \subseteq m.meanings

Follows(rules, rules2, l, l2) ==
  \A before \in rules, after \in rules2 : Stays(before, after) =>
    \A x \in l : x.dimension = "domain" /\ x.rule = before.id /\ x.sid = before.sid =>
      Carries(l2, after.sid, after.id, x.meanings)

LEMMA FollowsRule ==
  ASSUME Follows(rows.rules, rows'.rules, history.lifetime, history'.lifetime)
  PROVE  \A before \in rows.rules, after \in rows'.rules :
           Stays(before, after) =>
             \A l \in LifetimeOf(history, "domain", before.id) :
               l.sid = before.sid =>
                 \E m \in LifetimeOf(history', "domain", after.id) :
                   m.sid = after.sid /\ l.meanings \subseteq m.meanings
  BY DEF Follows, Carries, LifetimeOf

(* Within one table only a rule itself is the same rule. *)
LEMMA StaysItself ==
  ASSUME NEW rules, NEW serial, IsTable(rules), RuleIdentities(rules, serial),
         NEW before \in rules, NEW after \in rules, Stays(before, after)
  PROVE  before = after
  <1>1. before.domain = after.domain
    BY DEF Stays, DomainSemanticsEqual, DomainMeaning
  <1>2. QED
    BY <1>1 DEF Stays, IsTable, RuleIdentities

(* Rules that are left, with the lifetime rows of each of them left *)
LEMMA PartFollows ==
  ASSUME NEW rules, NEW serial, IsTable(rules), RuleIdentities(rules, serial),
         NEW some \in SUBSET rules, NEW l, NEW l2,
         \A d \in some, x \in l : x.dimension = "domain" /\ x.sid = d.sid => x \in l2
  PROVE  Follows(rules, some, l, l2)
  BY StaysItself DEF Follows, Carries

LEMMA MovedLifetime ==
  ASSUME NEW l, LifetimeOK(l), NEW x \in l, x.dimension = "domain", NEW rules, NEW serial,
         RuleIdentities(rules, serial), NEW d \in rules, d.sid = x.sid
  PROVE  Carries(Followed(l, rules), d.sid, d.id, x.meanings)
  <1>1. (CHOOSE c \in rules : c.sid = x.sid) = d
    <2>1. PICK c : c = CHOOSE y \in rules : y.sid = x.sid
      OBVIOUS
    <2>2. c \in rules /\ c.sid = x.sid
      BY <2>1
    <2>3. QED
      BY <2>1, <2>2 DEF RuleIdentities
  <1>2. MovedRow(rules, x) = [x EXCEPT !.rule = d.id]
    BY <1>1 DEF MovedRow
  <1>3. x = [dimension |-> x.dimension, sid |-> x.sid, rule |-> x.rule, meanings |-> x.meanings]
    BY DEF LifetimeOK
  <1>4. [x EXCEPT !.rule = d.id] = [dimension |-> x.dimension, sid |-> x.sid, rule |-> d.id,
                                    meanings |-> x.meanings]
    BY <1>3
  <1>5. PICK m : m = MovedRow(rules, x)
    OBVIOUS
  <1>6. m \in Followed(l, rules)
    BY <1>5 DEF Followed, LostRow
  <1>7. m.dimension = "domain" /\ m.rule = d.id /\ m.sid = d.sid /\ m.meanings = x.meanings
    BY <1>2, <1>4, <1>5
  <1>8. QED
    BY <1>6, <1>7 DEF Carries

(* The statistics follow the rules to their new rows. *)
LEMMA FollowedFollows ==
  ASSUME NEW rules, NEW rules2, NEW serial, RuleIdentities(rules2, serial), NEW l, LifetimeOK(l),
         \A before \in rules, after \in rules2 : Stays(before, after) => before.sid = after.sid
  PROVE  Follows(rules, rules2, l, Followed(l, rules2))
  BY MovedLifetime DEF Follows

(* A refresh keeps the identity of a name that the source had already. *)
LEMMA RefreshedIdentity ==
  ASSUME NEW r, NEW serial, IsTable(r.rules), RuleIdentities(r.rules, serial), NEW list, list # 0, NEW names,
         NEW before \in r.rules,
         NEW after \in {d \in r.rules : d.list # list} \cup Entries(r, list, names),
         Stays(before, after)
  PROVE  before.sid = after.sid
  <1>1. before.domain = after.domain /\ before.list = after.list
    BY DEF Stays, DomainSemanticsEqual, DomainMeaning
  <1>2. CASE after \in r.rules
    BY <1>2, StaysItself
  <1>3. CASE after \in Entries(r, list, names)
    <2>1. PICK i \in DOMAIN names : after = Entry(r, list, names, i)
      BY <1>3 DEF Entries
    <2>2. /\ after.list = list /\ after.domain = names[i]
          /\ after.sid = EntryIdentity(r.rules, list, names[i])
      BY <2>1, EntryFields
    <2>3. PICK d \in r.rules : d.list = list /\ d.domain = names[i] /\ after.sid = d.sid
      BY <1>1, <2>2, EntryIdentityIs
    <2>4. d = before
      BY <1>1, <2>2, <2>3 DEF RuleIdentities
    <2>5. QED
      BY <2>3, <2>4
  <1>4. QED
    BY <1>2, <1>3

(* A sample of the rule itself goes to the row of the rule. *)
LEMMA LivedCarries ==
  ASSUME NEW k, NEW sample, NEW sid, NEW id, NEW meanings, Carries(k, sid, id, meanings),
         sample.dimension = "domain" /\ sample.sid = sid => sample.rule = id
  PROVE  Carries(Lived(k, sample), sid, id, meanings)
  <1>1. PICK m \in k : m.dimension = "domain" /\ m.rule = id /\ m.sid = sid /\ meanings \subseteq m.meanings
    BY DEF Carries
  <1>2. CASE m \in SameLifetime(k, sample)
    <2>1. sample.dimension = "domain" /\ sample.sid = sid /\ sample.rule = id
      BY <1>1, <1>2 DEF SameLifetime
    <2>2. PICK row : row = LifetimeRow(k, sample)
      OBVIOUS
    <2>3. /\ row.dimension = "domain" /\ row.sid = sid /\ row.rule = id
          /\ row.meanings = Meant(SameLifetime(k, sample)) \cup {sample.meaning}
      BY <2>1, <2>2 DEF LifetimeRow
    <2>4. m.meanings \subseteq row.meanings
      BY <1>2, <2>3, MeantIs
    <2>5. row \in Lived(k, sample)
      BY <2>2 DEF Lived
    <2>6. QED
      BY <1>1, <2>3, <2>4, <2>5 DEF Carries
  <1>3. CASE m \notin SameLifetime(k, sample)
    <2>1. m \in Lived(k, sample)
      BY <1>3 DEF Lived
    <2>2. QED
      BY <1>1, <2>1 DEF Carries
  <1>4. QED
    BY <1>2, <1>3

(* The samples of a snapshot of what is stored *)
LEMMA CountedCarries ==
  ASSUME HistoryOK(history), StoredPolicy(rows), NEW serial, RuleIdentities(rows.rules, serial),
         active = Build(Loaded(rows)), NEW samples, SamplesOf(history', samples),
         \A i \in DOMAIN samples : SampleFrom(samples[i], active),
         NEW before \in rows.rules, NEW meanings,
         Carries(history.lifetime, before.sid, before.id, meanings)
  PROVE  Carries(history'.lifetime, before.sid, before.id, meanings)
  <1>1. PICK n \in Nat : DOMAIN samples = 1 .. n
    BY DEF SamplesOf
  <1>2. PICK config, full, request : history' = RecordStats(history, config, full, request, samples)
    BY DEF SamplesOf
  <1>3. ASSUME NEW i \in DOMAIN samples, samples[i].dimension = "domain",
               samples[i].sid = before.sid
        PROVE  samples[i].rule = before.id
    <2>1. PICK r \in active.rules : samples[i].sid = r.sid /\ samples[i].rule = r.id
      BY <1>3 DEF SampleFrom
    <2>2. r \in LoadedRules(rows)
      BY <2>1, SnapshotIs DEF Retained
    <2>3. PICK d \in rows.rules : r = LoadedRule(rows, d)
      BY <2>2 DEF LoadedRules
    <2>4. r.sid = d.sid /\ r.id = d.id
      BY <2>3 DEF LoadedRule
    <2>5. d = before
      BY <1>3, <2>1, <2>4 DEF RuleIdentities
    <2>6. QED
      BY <2>1, <2>4, <2>5
  <1> DEFINE G == {k \in SUBSET LifetimeRows(history.lifetime, samples) :
                     Carries(k, before.sid, before.id, meanings)}
  <1>4. history.lifetime \in G
    BY DEF LifetimeRows
  <1>5. \A k \in G, i \in 1 .. n : Lived(k, samples[i]) \in G
    BY <1>1, <1>3, LivedWithin, LivedCarries
  <1>6. \A k \in G : Carries(k, before.sid, before.id, meanings)
    OBVIOUS
  <1> HIDE DEF G
  <1>7. \E k \in G : ExactWith(RecordStats(history, config, full, request, samples), k)
    BY <1>1, <1>4, <1>5, RecordStatsIs
  <1>8. QED
    BY <1>2, <1>6, <1>7, ExactHistory

FollowsNow == Follows(rows.rules, rows'.rules, history.lifetime, history'.lifetime)

LEMMA DomainEditsFollow ==
  ASSUME PolicyInv, IdentityInv, CreateDomainRule \/ UpdateDomainRule \/ DeleteDomainRule
  PROVE  FollowsNow
  <1>1. IsTable(rows.rules) /\ \A row \in rows.rules : row.id \in Nat
    BY DEF PolicyInv, StoredPolicy, StoredDomainRule
  <1>2. /\ RuleIdentities(rows.rules, bounds.serial) /\ bounds.serial \in Nat
        /\ HistoryOK(history) /\ LifetimeOK(history.lifetime)
    BY DEF IdentityInv, StoredIdentities
  <1>3. PICK rules, l : rules = rows.rules /\ l = history.lifetime
    OBVIOUS
  <1>4. ASSUME NEW sid, history' = DeleteRuleStatistics(history, "domain", sid)
        PROVE  history'.lifetime = {r \in l : r.dimension # "domain" \/ r.sid # sid}
    <2>1. PICK l2 : l2 = {r \in history.lifetime : r.dimension # "domain" \/ r.sid # sid}
      OBVIOUS
    <2>2. ExactWith(history', l2)
      BY <1>2, <1>4, <2>1, DeleteRuleStatisticsIs
    <2>3. QED
      BY <1>3, <2>1, <2>2, ExactHistory
  <1>5. ASSUME NEW r, NEW h, NEW k, Publish(r, h, k) PROVE rows' = r /\ history' = h
    BY <1>5 DEF Publish
  <1>6. ASSUME NEW before \in rules, NEW after \in rules, Stays(before, after) PROVE before = after
    BY <1>1, <1>2, <1>3, <1>6, StaysItself
  <1>7. CASE CreateDomainRule
    <2>1. PICK q : Publish(InsertedDomainRule(rows,
                             DomainRow(NextRowId(rows.rules), RandomIdentity(bounds.serial), q)),
                           history, 1)
      BY <1>7 DEF CreateDomainRule
    <2>2. PICK row : row = DomainRow(NextRowId(rows.rules), RandomIdentity(bounds.serial), q)
      OBVIOUS
    <2>3. rows' = InsertedDomainRule(rows, row) /\ history' = history
      BY <1>5, <2>1, <2>2
    <2>4. rows'.rules = rules \cup {row}
      BY <1>3, <2>3 DEF InsertedDomainRule, PolicyInv, StoredPolicy
    <2>5. row.list = 0 /\ row.id = NextRowId(rows.rules)
      BY <2>2 DEF DomainRow
    <2>6. \A x \in rules : x.id < NextRowId(rules) /\ NextRowId(rules) \in Nat
      BY <1>1, <1>3, RowIdIsNew DEF IsTable
    <2>7. \A x \in rules : x.id # row.id
      BY <1>1, <1>3, <2>5, <2>6
    <2>8. \A before \in rules : ~Stays(before, row)
      BY <2>5, <2>7 DEF Stays
    <2>9. \A before \in rules, after \in rules \cup {row} : Stays(before, after) => before = after
      BY <1>6, <2>8
    <2>10. Follows(rules, rules \cup {row}, l, l)
      BY <2>9 DEF Follows, Carries
    <2>11. QED
      BY <1>3, <2>3, <2>4, <2>10 DEF FollowsNow
  <1>8. CASE UpdateDomainRule
    <2>1. PICK current \in rows.rules, q \in DomainRequests :
            LET row == ReplacementDomainRule(current, q, bounds.serial)
            IN  /\ current.source = "explicit"
                /\ Publish(UpdatedDomainRule(rows, row),
                           IF row.sid = current.sid THEN history
                           ELSE DeleteRuleStatistics(history, "domain", current.sid),
                           IF row.sid = current.sid THEN 0 ELSE 1)
      BY <1>8 DEF UpdateDomainRule
    <2>2. PICK row : row = ReplacementDomainRule(current, q, bounds.serial)
      OBVIOUS
    <2>3. /\ row.id = current.id /\ row.list = 0
          /\ \/ row.sid = current.sid /\ DomainSemanticsEqual(current, row)
             \/ row.sid = RandomIdentity(bounds.serial) /\ ~DomainSemanticsEqual(current, row)
      BY <2>2, EditedRule
    <2>4. PICK some \in SUBSET rules : some = Without(rules, current.id)
      BY DEF Without
    <2>5. rows' = UpdatedDomainRule(rows, row)
      BY <1>5, <2>1, <2>2
    <2>6. history' = IF row.sid = current.sid THEN history
                     ELSE DeleteRuleStatistics(history, "domain", current.sid)
      BY <1>5, <2>1, <2>2
    <2>7. rows'.rules = some \cup {row}
      BY <1>3, <2>3, <2>4, <2>5 DEF UpdatedDomainRule, PolicyInv, StoredPolicy
    <2>8. ASSUME NEW before \in rules, Stays(before, row)
          PROVE  before = current /\ row.sid = current.sid
      <3>1. before.id = current.id
        BY <2>3, <2>8 DEF Stays
      <3>2. before = current
        BY <1>1, <1>3, <2>1, <3>1 DEF IsTable
      <3>3. QED
        BY <2>3, <2>8, <3>2 DEF Stays
    <2>9. ASSUME NEW d \in some PROVE d.sid # current.sid
      BY <1>2, <1>3, <2>1, <2>4 DEF RuleIdentities, Without
    <2>10. ASSUME NEW x \in l, x.sid # current.sid \/ row.sid = current.sid PROVE x \in history'.lifetime
      BY <1>3, <1>4, <2>6, <2>10
    <2>11. Follows(rules, some \cup {row}, l, history'.lifetime)
      <3> SUFFICES ASSUME NEW before \in rules, NEW after \in some \cup {row}, Stays(before, after),
                          NEW x \in l, x.dimension = "domain", x.rule = before.id, x.sid = before.sid
                   PROVE  Carries(history'.lifetime, after.sid, after.id, x.meanings)
        BY DEF Follows
      <3>1. x \in history'.lifetime /\ after.sid = before.sid /\ after.id = before.id
        <4>1. CASE after = row
          BY <2>3, <2>8, <2>10, <4>1
        <4>2. CASE after \in some
          BY <1>6, <2>9, <2>10, <4>2
        <4>3. QED
          BY <4>1, <4>2
      <3>2. QED
        BY <3>1 DEF Carries
    <2>12. QED
      BY <1>3, <2>7, <2>11 DEF FollowsNow
  <1>9. CASE DeleteDomainRule
    <2>1. PICK row \in rows.rules :
            Publish(DeletedDomainRule(rows, row),
                    DeleteRuleStatistics(history, "domain", row.sid), 0)
      BY <1>9 DEF DeleteDomainRule
    <2>2. rows' = DeletedDomainRule(rows, row) /\ history' = DeleteRuleStatistics(history, "domain", row.sid)
      BY <1>5, <2>1
    <2>3. PICK some \in SUBSET rules : some = rules \ {row}
      OBVIOUS
    <2>4. rows'.rules = some
      BY <1>3, <2>2, <2>3 DEF DeletedDomainRule, PolicyInv, StoredPolicy
    <2>5. \A d \in some : d.sid # row.sid
      BY <1>2, <1>3, <2>1, <2>3 DEF RuleIdentities
    <2>6. \A d \in some, x \in l : x.dimension = "domain" /\ x.sid = d.sid => x \in history'.lifetime
      BY <1>4, <2>2, <2>5
    <2>7. Follows(rules, some, l, history'.lifetime)
      BY <1>1, <1>2, <1>3, <2>6, PartFollows
    <2>8. QED
      BY <1>3, <2>4, <2>7 DEF FollowsNow
  <1>10. QED
    BY <1>7, <1>8, <1>9

LEMMA OtherEditsFollow ==
  ASSUME PolicyInv, IdentityInv,
         \/ CreateDestinationRule \/ UpdateDestinationRule \/ DeleteDestinationRule
         \/ CreateGroup \/ UpdateGroup \/ DeleteGroup
         \/ CreateScopeMode \/ UpdateScopeMode \/ DeleteScopeMode \/ SetGlobalMode
         \/ CreateList \/ UpdateList
  PROVE  FollowsNow
  <1>1. PICK rules, l : rules = rows.rules /\ l = history.lifetime
    OBVIOUS
  <1>2. /\ IsTable(rules) /\ RuleIdentities(rules, bounds.serial)
        /\ HistoryOK(history)
    BY <1>1 DEF PolicyInv, StoredPolicy, IdentityInv, StoredIdentities
  <1>3. ASSUME NEW r, NEW h, NEW k, Publish(r, h, k), r.rules \subseteq rules,
               h = history \/ \E sid : h = DeleteRuleStatistics(history, "destination", sid)
        PROVE  FollowsNow
    <2>1. rows' = r /\ history' = h
      BY <1>3 DEF Publish
    <2>2. \A x \in l : x.dimension = "domain" => x \in history'.lifetime
      <3>1. CASE h = history
        BY <1>1, <2>1, <3>1
      <3>2. CASE \E sid : h = DeleteRuleStatistics(history, "destination", sid)
        <4>1. PICK sid : h = DeleteRuleStatistics(history, "destination", sid)
          BY <3>2
        <4>2. h.lifetime = {x \in l : x.dimension # "destination" \/ x.sid # sid}
          <5>1. PICK l2 : l2 = {x \in history.lifetime : x.dimension # "destination" \/ x.sid # sid}
            OBVIOUS
          <5>2. ExactWith(h, l2)
            BY <1>2, <4>1, <5>1, DeleteRuleStatisticsIs
          <5>3. QED
            BY <1>1, <5>1, <5>2, ExactHistory
        <4>3. QED
          BY <2>1, <4>2
      <3>3. QED
        BY <1>3, <3>1, <3>2
    <2>3. PICK some \in SUBSET rules : some = r.rules
      BY <1>3
    <2>4. Follows(rules, some, l, history'.lifetime)
      BY <1>2, <2>2, PartFollows
    <2>5. QED
      BY <1>1, <2>1, <2>3, <2>4 DEF FollowsNow
  <1>4. ASSUME NEW x
        PROVE  /\ [rows EXCEPT !.destinations = x].rules = rules
               /\ [rows EXCEPT !.groups = x].rules = rules
               /\ [rows EXCEPT !.modes = x].rules = rules
               /\ [rows EXCEPT !.global = x].rules = rules
               /\ [rows EXCEPT !.lists = x].rules = rules
    BY <1>1 DEF PolicyInv, StoredPolicy
  <1>5. CASE CreateDestinationRule
    <2>1. \E x : Publish([rows EXCEPT !.destinations = x], history, 1)
      BY <1>5 DEF CreateDestinationRule, InsertedDestinationRule
    <2>2. QED
      BY <1>3, <1>4, <2>1
  <1>6. CASE UpdateDestinationRule
    <2>1. PICK row, current, k :
            Publish(UpdatedDestinationRule(rows, row),
                    IF row.sid = current.sid THEN history
                    ELSE DeleteRuleStatistics(history, "destination", current.sid), k)
      BY <1>6 DEF UpdateDestinationRule
    <2>2. UpdatedDestinationRule(rows, row).rules = rules
      BY <1>4 DEF UpdatedDestinationRule
    <2>3. QED
      BY <1>3, <2>1, <2>2
  <1>7. CASE DeleteDestinationRule
    <2>1. PICK row : Publish(DeletedDestinationRule(rows, row),
                             DeleteRuleStatistics(history, "destination", row.sid), 0)
      BY <1>7 DEF DeleteDestinationRule
    <2>2. DeletedDestinationRule(rows, row).rules = rules
      BY <1>4 DEF DeletedDestinationRule
    <2>3. QED
      BY <1>3, <2>1, <2>2
  <1>8. CASE CreateGroup \/ UpdateGroup
    <2>1. \E x : Publish([rows EXCEPT !.groups = x], history, 0)
      BY <1>8 DEF CreateGroup, UpdateGroup, InsertedGroup, UpdatedGroup
    <2>2. QED
      BY <1>3, <1>4, <2>1
  <1>9. CASE DeleteGroup
    <2>1. PICK group : Publish(DeletedGroup(rows, group), history, 0)
      BY <1>9 DEF DeleteGroup
    <2>2. DeletedGroup(rows, group).rules = {d \in rules : d.group # group}
      BY <1>1 DEF DeletedGroup, PolicyInv, StoredPolicy
    <2>3. QED
      BY <1>3, <2>1, <2>2
  <1>10. CASE CreateScopeMode \/ UpdateScopeMode \/ DeleteScopeMode
    <2>1. \E x : Publish([rows EXCEPT !.modes = x], history, 0)
      BY <1>10 DEF CreateScopeMode, UpdateScopeMode, DeleteScopeMode, InsertedMode, UpdatedMode,
                   DeletedMode
    <2>2. QED
      BY <1>3, <1>4, <2>1
  <1>11. CASE SetGlobalMode
    <2>1. \E x : Publish([rows EXCEPT !.global = x], history, 0)
      BY <1>11 DEF SetGlobalMode
    <2>2. QED
      BY <1>3, <1>4, <2>1
  <1>12. CASE CreateList \/ UpdateList
    <2>1. \E x : Publish([rows EXCEPT !.lists = x], history, 0)
      BY <1>12 DEF CreateList, UpdateList, InsertedList, UpdatedList
    <2>2. QED
      BY <1>3, <1>4, <2>1
  <1>13. QED
    BY <1>5, <1>6, <1>7, <1>8, <1>9, <1>10, <1>11, <1>12

LEMMA ListEditsFollow ==
  ASSUME PolicyInv, IdentityInv, DeleteList \/ ActivateList
  PROVE  FollowsNow
  <1>1. PICK rules, l : rules = rows.rules /\ l = history.lifetime
    OBVIOUS
  <1>2. /\ IsTable(rules) /\ RuleIdentities(rules, bounds.serial) /\ bounds.serial \in Nat
        /\ HistoryOK(history) /\ LifetimeOK(l)
        /\ \A list \in rows.lists : list.id \in Nat \ {0}
    BY <1>1 DEF PolicyInv, StoredPolicy, IdentityInv, StoredIdentities
  <1>3. ASSUME NEW r, NEW k, NEW rules2, rules2 = r.rules,
               Publish(r, FollowDomainRules(history, r.rules), k), RuleIdentities(rules2, bounds.serial),
               \A before \in rules, after \in rules2 : Stays(before, after) => before.sid = after.sid
        PROVE  FollowsNow
    <2>1. rows' = r /\ history' = FollowDomainRules(history, rules2)
      BY <1>3 DEF Publish
    <2>2. history'.lifetime = Followed(l, rules2)
      BY <1>1, <1>2, <2>1, FollowDomainRulesIs, ExactHistory
    <2>3. Follows(rules, rules2, l, Followed(l, rules2))
      BY <1>2, <1>3, FollowedFollows
    <2>4. QED
      BY <1>1, <1>3, <2>1, <2>2, <2>3 DEF FollowsNow
  <1>4. CASE DeleteList
    <2>1. PICK list : Publish(DeletedList(rows, list),
                              FollowDomainRules(history, DeletedList(rows, list).rules), 0)
      BY <1>4 DEF DeleteList
    <2>2. PICK some \in SUBSET rules : some = {d \in rules : d.list # list}
      OBVIOUS
    <2>3. DeletedList(rows, list).rules = some
      BY <1>1, <2>2 DEF DeletedList, PolicyInv, StoredPolicy
    <2>4. RuleIdentities(some, bounds.serial)
      BY <1>2 DEF RuleIdentities
    <2>5. \A before \in rules, after \in some : Stays(before, after) => before.sid = after.sid
      BY <1>2, StaysItself
    <2>6. QED
      BY <1>3, <2>1, <2>3, <2>4, <2>5
  <1>5. CASE ActivateList
    <2>1. PICK source \in rows.lists, names \in ListContents :
            Publish(ActivatedList(rows, source.id, names),
                    FollowDomainRules(history, ActivatedList(rows, source.id, names).rules), 0)
      BY <1>5 DEF ActivateList
    <2>2. PICK list \in Nat \ {0} : list = source.id
      BY <1>2
    <2>3. PICK others : others = {d \in rows.rules : d.list # list}
      OBVIOUS
    <2>4. PICK rules2 : rules2 = others \cup Entries(rows, list, names)
      OBVIOUS
    <2>5. RuleIdentities(rules2, bounds.serial)
      BY <1>1, <1>2, <2>3, <2>4, ActivatedIdentities
    <2>6. ActivatedList(rows, list, names).rules = rules2
      BY <2>3, <2>4, ActivatedIs DEF PolicyInv, StoredPolicy
    <2>7. \A before \in rules, after \in rules2 : Stays(before, after) => before.sid = after.sid
      <3> SUFFICES ASSUME NEW before \in rules, NEW after \in rules2, Stays(before, after)
                   PROVE  before.sid = after.sid
        OBVIOUS
      <3>1. after \in {d \in rows.rules : d.list # list} \cup Entries(rows, list, names)
        BY <2>3, <2>4
      <3>2. QED
        BY <1>1, <1>2, <3>1, RefreshedIdentity
    <2>8. QED
      BY <1>3, <2>1, <2>2, <2>5, <2>6, <2>7
  <1>6. QED
    BY <1>4, <1>5

LEMMA QuietStepsFollow ==
  ASSUME PolicyInv, IdentityInv, ~suspended,
         \/ Reload \/ CountRequest \/ Hour
         \/ AutomaticCleanup \/ CleanupRequest \/ UpdateStatsConfig
  PROVE  FollowsNow
  <1>1. PICK rules, l : rules = rows.rules /\ l = history.lifetime
    OBVIOUS
  <1>2. /\ IsTable(rules) /\ RuleIdentities(rules, bounds.serial)
        /\ HistoryOK(history) /\ LifetimeOK(l) /\ StoredPolicy(rows) /\ SnapshotOK(active)
        /\ active = Build(Loaded(rows))
    BY <1>1 DEF PolicyInv, StoredPolicy, IdentityInv, StoredIdentities
  <1>3. ASSUME rows'.rules = rules, history'.lifetime = l PROVE FollowsNow
    <2>1. Follows(rules, rules, l, l)
      BY <1>2, PartFollows
    <2>2. QED
      BY <1>1, <1>3, <2>1 DEF FollowsNow
  <1>4. CASE Reload \/ Hour
    BY <1>1, <1>3, <1>4 DEF Reload, Hour
  <1>5. CASE UpdateStatsConfig
    <2>1. PICK config : rows' = [rows EXCEPT !.config = config]
      BY <1>5 DEF UpdateStatsConfig
    <2>2. history' = history
      BY <1>5 DEF UpdateStatsConfig
    <2>3. rows'.rules = rules
      BY <1>1, <1>2, <2>1 DEF StoredPolicy
    <2>4. QED
      BY <1>1, <1>3, <2>2, <2>3
  <1>6. CASE AutomaticCleanup \/ CleanupRequest
    <2>1. rows' = rows /\ \E hour, config, limit : history' \in CleanedUp(history, hour, config, limit)
      BY <1>6 DEF AutomaticCleanup, CleanupRequest
    <2>2. history'.lifetime = l
      BY <1>1, <1>2, <2>1, CleanedUpIs, ExactHistory
    <2>3. QED
      BY <1>1, <1>3, <2>1, <2>2
  <1>7. CASE CountRequest
    <2>1. rows' = rows
      BY <1>7 DEF CountRequest
    <2>2. PICK samples : /\ SamplesOf(history', samples)
                         /\ \A i \in DOMAIN samples : SampleFrom(samples[i], active)
      BY <1>2, <1>7, CountRequestIs
    <2>3. ASSUME NEW before \in rules, NEW x \in l, x.dimension = "domain", x.rule = before.id,
                 x.sid = before.sid
          PROVE  Carries(history'.lifetime, before.sid, before.id, x.meanings)
      <3>1. Carries(history.lifetime, before.sid, before.id, x.meanings)
        BY <1>1, <2>3 DEF Carries
      <3>2. QED
        BY <1>1, <1>2, <2>2, <3>1, CountedCarries
    <2>4. \A before, after \in rules : Stays(before, after) => before = after
      BY <1>2, StaysItself
    <2>5. Follows(rules, rules, l, history'.lifetime)
      BY <2>3, <2>4 DEF Follows
    <2>6. QED
      BY <1>1, <2>1, <2>5 DEF FollowsNow
  <1>8. QED
    BY <1>4, <1>5, <1>6, <1>7

(* A rule that stays what it is keeps its history through edits,           *)
(* refreshes of its source, requests and the retention, for every policy   *)
(* (jg_database_update_domain_rule, jg_database_activate_blocklist,        *)
(* stage_blocklist_rule_identities).                                       *)
THEOREM HistoryStaysWithRule == Spec => HistoryFollowsRule
  <1> DEFINE Kept == \A before \in rows.rules, after \in rows'.rules :
                       Stays(before, after) =>
                         \A l \in LifetimeOf(history, "domain", before.id) :
                           l.sid = before.sid =>
                             \E m \in LifetimeOf(history', "domain", after.id) :
                               m.sid = after.sid /\ l.meanings \subseteq m.meanings
  <1>1. PolicyInv /\ IdentityInv /\ [Next]_vars => [Reflects => Kept]_vars
    <2> SUFFICES ASSUME PolicyInv, IdentityInv, Next, ~suspended PROVE Kept
      BY DEF Reflects
    <2>1. \/ Mutation \/ Reload \/ UpdateStatsConfig
          \/ CountRequest \/ Hour \/ AutomaticCleanup \/ CleanupRequest
      BY DEF Next, Mutation
    <2>2. FollowsNow
      BY <2>1, DomainEditsFollow, OtherEditsFollow, ListEditsFollow, QuietStepsFollow
         DEF Mutation
    <2>3. QED
      BY <2>2, FollowsRule DEF FollowsNow
  <1>2. QED
    BY <1>1, IdentityInvHolds, PTL DEF Spec, HistoryFollowsRule

=============================================================================
