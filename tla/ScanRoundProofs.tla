--------------------------- MODULE ScanRoundProofs ---------------------------
(***************************************************************************)
(* The limits and the brake of a market, for any prices, accounts, brokers *)
(* and numbers of orders and faults.                                       *)
(*                                                                         *)
(* The controls judge an order by a portfolio that was taken earlier, and  *)
(* one order at a time. So the invariant says when a copy of the portfolio *)
(* is what the broker has (Mirrors), and two lemmas what an order does to  *)
(* a portfolio within the limits: one that opens a position, if it passes  *)
(* the controls (OpeningKeeps), and one that closes a position or half of  *)
(* it, whatever the controls say (ClosingKeeps).                           *)
(***************************************************************************)
EXTENDS ScanRound, FiniteSetTheorems, WellFoundedInduction, TLAPS

-----------------------------------------------------------------------------
(* Sums over finite sets.                                                  *)

\* A set of numbers has a least one: induction, without an operator.
LEMMA LeastNat ==
  ASSUME NEW S, S \subseteq Nat, S # {}
  PROVE  \E n \in S : \A m \in S : n <= m
<1>1. PICK n \in S : \A m \in S : ~(<<m, n>> \in OpToRel(<, Nat))
  BY NatLessThanWellFounded, WFMin
<1>2. \A m \in S : m \in Nat /\ n \in Nat /\ ~(m < n)
  BY <1>1 DEF OpToRel
<1>. QED
  BY <1>2

Chosen(R) == CHOOSE x \in R : TRUE

SumStep(g, v, R) == IF R = {} THEN 0 ELSE v[Chosen(R)] + g[R \ {Chosen(R)}]

\* The sums of v over the subsets of S.
Sums(v, S) == {g \in [SUBSET S -> Nat] : \A R \in SUBSET S : g[R] = SumStep(g, v, R)}

LEMMA ChosenIsIn ==
  ASSUME NEW R, R # {}
  PROVE  Chosen(R) \in R
BY DEF Chosen

LEMMA OneLess ==
  ASSUME NEW S, IsFiniteSet(S), NEW R \in SUBSET S, NEW x \in R
  PROVE  /\ IsFiniteSet(R) /\ Cardinality(R) \in Nat /\ R \ {x} \in SUBSET S
         /\ Cardinality(R \ {x}) \in Nat /\ Cardinality(R \ {x}) = Cardinality(R) - 1
         /\ Cardinality(R \ {x}) < Cardinality(R)
<1>1. IsFiniteSet(R) /\ IsFiniteSet(R \ {x}) /\ R \ {x} \in SUBSET S
  BY FS_Subset, FS_RemoveElement
<1>2. Cardinality(R) \in Nat /\ Cardinality(R \ {x}) \in Nat
  BY <1>1, FS_CardinalityType
<1>3. Cardinality(R \ {x}) = Cardinality(R) - 1
  BY <1>1, FS_RemoveElement
<1> QED
  BY <1>1, <1>2, <1>3

\* There are sums over finite sets.
LEMMA SumsExist ==
  ASSUME NEW S, IsFiniteSet(S), NEW v \in [S -> Nat]
  PROVE  Sums(v, S) # {}
<1> DEFINE Good(g, n) == \A R \in SUBSET S : Cardinality(R) <= n => g[R] = SumStep(g, v, R)
           Bad == {n \in Nat : ~\E g \in [SUBSET S -> Nat] : Good(g, n)}
<1>0. \A R \in SUBSET S : IsFiniteSet(R) /\ Cardinality(R) \in Nat
  BY FS_Subset, FS_CardinalityType
<1>1. 0 \notin Bad
  <2>1. [R \in SUBSET S |-> 0] \in [SUBSET S -> Nat]
    OBVIOUS
  <2>2. Good([R \in SUBSET S |-> 0], 0)
    <3>1. \A R \in SUBSET S : Cardinality(R) <= 0 => R = {}
      BY <1>0, FS_EmptySet
    <3> QED
      BY <3>1 DEF SumStep
  <2> QED
    BY <2>1, <2>2
<1>2. ASSUME NEW n \in Nat, n > 0, n - 1 \notin Bad PROVE n \notin Bad
  <2>1. n - 1 \in Nat
    BY <1>2
  <2>2. PICK g \in [SUBSET S -> Nat] : Good(g, n - 1)
    BY <1>2, <2>1
  <2> DEFINE h == [R \in SUBSET S |-> SumStep(g, v, R)]
  <2>3. ASSUME NEW R \in SUBSET S PROVE SumStep(g, v, R) \in Nat
    <3>1. CASE R = {}
      BY <3>1 DEF SumStep
    <3>2. CASE R # {}
      <4>1. Chosen(R) \in S /\ R \ {Chosen(R)} \in SUBSET S
        BY <3>2, ChosenIsIn
      <4>2. v[Chosen(R)] \in Nat /\ g[R \ {Chosen(R)}] \in Nat
        BY <4>1
      <4> QED
        BY <3>2, <4>2 DEF SumStep
    <3> QED
      BY <3>1, <3>2
  <2>4. h \in [SUBSET S -> Nat]
    BY <2>3
  <2>5. ASSUME NEW R \in SUBSET S, Cardinality(R) <= n PROVE h[R] = SumStep(h, v, R)
    <3>1. CASE R = {}
      BY <3>1 DEF SumStep
    <3>2. CASE R # {}
      <4>1. Chosen(R) \in R
        BY <3>2, ChosenIsIn
      <4>2. R \ {Chosen(R)} \in SUBSET S /\ Cardinality(R \ {Chosen(R)}) <= n - 1
        BY <2>5, <4>1, OneLess
      <4>3. h[R \ {Chosen(R)}] = g[R \ {Chosen(R)}]
        BY <2>2, <4>2
      <4> QED
        BY <3>2, <4>3 DEF SumStep
    <3> QED
      BY <3>1, <3>2
  <2> QED
    BY <2>4, <2>5
<1>3. Bad = {}
  <2>1. SUFFICES ASSUME Bad # {} PROVE FALSE
    OBVIOUS
  <2>2. PICK n \in Bad : \A m \in Bad : n <= m
    <3>1. Bad \subseteq Nat
      OBVIOUS
    <3> HIDE DEF Bad
    <3> QED
      BY <2>1, <3>1, LeastNat
  <2>3. n \in Nat /\ n # 0
    BY <1>1
  <2> HIDE DEF Bad
  <2>4. n > 0 /\ n - 1 \notin Bad
    BY <2>2, <2>3
  <2> QED
    BY <1>2, <2>2, <2>3, <2>4
<1>4. Cardinality(S) \in Nat /\ Cardinality(S) \notin Bad
  <2> HIDE DEF Bad
  <2> QED
    BY <1>3, FS_CardinalityType
<1>5. PICK g \in [SUBSET S -> Nat] : Good(g, Cardinality(S))
  BY <1>4
<1>6. \A R \in SUBSET S : Cardinality(R) <= Cardinality(S)
  BY FS_Subset
<1>7. \A R \in SUBSET S : g[R] = SumStep(g, v, R)
  BY <1>5, <1>6
<1> QED
  BY <1>7 DEF Sums

\* Any element may be counted last.
LEMMA SumSplits ==
  ASSUME NEW S, IsFiniteSet(S), NEW v \in [S -> Nat], NEW g \in Sums(v, S),
         NEW Q \in SUBSET S, NEW y \in Q
  PROVE  g[Q] = v[y] + g[Q \ {y}]
<1> DEFINE Holds(R) == \A x \in R : g[R] = v[x] + g[R \ {x}]
           Bad == {Cardinality(R) : R \in {R \in SUBSET S : ~Holds(R)}}
<1>1. /\ g \in [SUBSET S -> Nat]
      /\ \A R \in SUBSET S : R # {} => g[R] = v[Chosen(R)] + g[R \ {Chosen(R)}]
  BY DEF Sums, SumStep
<1>2. Bad = {}
  <2>1. SUFFICES ASSUME Bad # {} PROVE FALSE
    OBVIOUS
  <2>2. Bad \subseteq Nat
    BY FS_Subset, FS_CardinalityType
  <2>3. PICK n \in Bad : \A m \in Bad : n <= m
    <3> HIDE DEF Bad
    <3> QED
      BY <2>1, <2>2, LeastNat
  <2>4. PICK R \in SUBSET S : ~Holds(R) /\ n = Cardinality(R)
    BY <2>3
  <2>5. PICK x \in R : g[R] # v[x] + g[R \ {x}]
    BY <2>4
  <2> DEFINE c == Chosen(R)
  <2>6. c \in R /\ g[R] = v[c] + g[R \ {c}]
    BY <1>1, <2>5, ChosenIsIn
  <2>7. c # x
    BY <2>5, <2>6
  <2> HIDE DEF c
  <2>8. ASSUME NEW z \in R PROVE Holds(R \ {z})
    <3>1. R \ {z} \in SUBSET S /\ Cardinality(R \ {z}) \in Nat /\ Cardinality(R \ {z}) < Cardinality(R)
      BY OneLess
    <3>2. Cardinality(R \ {z}) \notin Bad
      <4> HIDE DEF Bad
      <4>1. n \in Nat
        BY <2>2, <2>3
      <4> QED
        BY <2>3, <2>4, <3>1, <4>1
    <3> QED
      BY <3>1, <3>2
  <2>9. g[R \ {c}] = v[x] + g[(R \ {c}) \ {x}] /\ g[R \ {x}] = v[c] + g[(R \ {x}) \ {c}]
    BY <2>6, <2>7, <2>8
  <2>10. (R \ {c}) \ {x} = (R \ {x}) \ {c}
    OBVIOUS
  <2>11. /\ v[x] \in Nat /\ v[c] \in Nat
         /\ g[(R \ {x}) \ {c}] \in Nat
    BY <1>1, <2>6
  <2> QED
    BY <2>5, <2>6, <2>9, <2>10, <2>11
<1> QED
  BY <1>2

\* Where all is at most as much, so is the sum.
LEMMA SumGrows ==
  ASSUME NEW S, IsFiniteSet(S), NEW v \in [S -> Nat], NEW g \in Sums(v, S),
         NEW U, IsFiniteSet(U), NEW w \in [U -> Nat], NEW h \in Sums(w, U),
         NEW Q \in SUBSET (S \cap U), \A x \in Q : v[x] <= w[x]
  PROVE  g[Q] <= h[Q]
<1> DEFINE Bad == {Cardinality(R) : R \in {R \in SUBSET Q : ~(g[R] <= h[R])}}
<1>1. /\ g \in [SUBSET S -> Nat] /\ h \in [SUBSET U -> Nat] /\ IsFiniteSet(Q)
      /\ \A R \in SUBSET Q : R # {} => /\ g[R] = v[Chosen(R)] + g[R \ {Chosen(R)}]
                                       /\ h[R] = w[Chosen(R)] + h[R \ {Chosen(R)}]
      /\ g[{}] = 0 /\ h[{}] = 0
  <2>1. IsFiniteSet(Q)
    <3>1. Q \in SUBSET S
      OBVIOUS
    <3> QED
      BY <3>1, FS_Subset
  <2>2. /\ g \in [SUBSET S -> Nat] /\ h \in [SUBSET U -> Nat]
        /\ \A R \in SUBSET S : g[R] = SumStep(g, v, R)
        /\ \A R \in SUBSET U : h[R] = SumStep(h, w, R)
    BY DEF Sums
  <2>3. \A R \in SUBSET Q : g[R] = SumStep(g, v, R) /\ h[R] = SumStep(h, w, R)
    BY <2>2
  <2>4. {} \in SUBSET Q
    OBVIOUS
  <2>5. g[{}] = 0 /\ h[{}] = 0
    BY <2>3, <2>4 DEF SumStep
  <2> QED
    BY <2>1, <2>2, <2>3, <2>5 DEF SumStep
<1>2. Bad = {}
  <2>1. SUFFICES ASSUME Bad # {} PROVE FALSE
    OBVIOUS
  <2>2. Bad \subseteq Nat
    <3>1. \A R \in SUBSET Q : Cardinality(R) \in Nat
      BY <1>1, FS_Subset, FS_CardinalityType
    <3> QED
      BY <3>1
  <2>3. PICK n \in Bad : \A m \in Bad : n <= m
    <3> HIDE DEF Bad
    <3> QED
      BY <2>1, <2>2, LeastNat
  <2>4. PICK R \in SUBSET Q : ~(g[R] <= h[R]) /\ n = Cardinality(R)
    BY <2>3
  <2> DEFINE c == Chosen(R)
  <2>5. R # {}
    <3>1. g[{}] <= h[{}]
      BY <1>1
    <3> QED
      BY <2>4, <3>1, Zenon
  <2>6. c \in R /\ g[R] = v[c] + g[R \ {c}] /\ h[R] = w[c] + h[R \ {c}]
    BY <1>1, <2>5, ChosenIsIn
  <2> HIDE DEF c
  <2>7. g[R \ {c}] <= h[R \ {c}]
    <3>1. /\ R \ {c} \in SUBSET Q /\ Cardinality(R \ {c}) \in Nat
          /\ Cardinality(R \ {c}) < Cardinality(R)
      BY <1>1, <2>6, OneLess
    <3>2. Cardinality(R \ {c}) \notin Bad
      <4> HIDE DEF Bad
      <4>1. n \in Nat
        BY <2>2, <2>3
      <4> QED
        BY <2>3, <2>4, <3>1, <4>1
    <3> QED
      BY <3>1, <3>2
  <2>8. /\ v[c] \in Nat /\ w[c] \in Nat /\ v[c] <= w[c]
        /\ g[R \ {c}] \in Nat /\ h[R \ {c}] \in Nat
    BY <1>1, <2>6
  <2> QED
    BY <2>4, <2>6, <2>7, <2>8
<1> QED
  BY <1>2
-----------------------------------------------------------------------------
(* What a portfolio is worth.                                              *)

Worth(positions, price) == [s \in DOMAIN positions |-> Magnitude(positions[s]) * price[s]]

LEMMA Magnitudes ==
  ASSUME NEW n \in Int
  PROVE  /\ Magnitude(n) \in Nat
         /\ n >= 0 => Magnitude(n) = n
         /\ n <= 0 => Magnitude(n) = -n
BY DEF Magnitude, Larger

LEMMA ProductGrows ==
  ASSUME NEW a \in Nat, NEW b \in Nat, NEW c \in Nat, a <= b
  PROVE  a * c \in Nat /\ b * c \in Nat /\ a * c <= b * c
<1>1. (b - a) * c >= 0 /\ (b - a) * c = b * c - a * c /\ a * c >= 0 /\ b * c >= 0
  BY SMT
<1> QED
  BY <1>1

LEMMA WorthType ==
  ASSUME NEW S, NEW p \in [S -> Int], NEW price \in [S -> Nat \ {0}]
  PROVE  Worth(p, price) \in [S -> Nat]
<1>1. ASSUME NEW s \in S PROVE Magnitude(p[s]) * price[s] \in Nat
  <2>1. Magnitude(p[s]) \in Nat /\ price[s] \in Nat
    BY Magnitudes
  <2> QED
    BY <2>1, ProductGrows
<1> QED
  BY <1>1 DEF Worth

\* GrossExposure is the sum of the worths of what is occupied.
LEMMA GrossIsSum ==
  ASSUME NEW S, IsFiniteSet(S), NEW p \in [S -> Int], NEW price \in [S -> Nat \ {0}]
  PROVE  \E g \in Sums(Worth(p, price), S) : GrossExposure(p, price) = g[Occupied(p)]
<1> DEFINE v == Worth(p, price)
           O == Occupied(p)
           w == [s \in O |-> v[s]]
           Rule(g) == g = [R \in SUBSET O |->
                             IF R = {} THEN 0
                             ELSE Magnitude(p[CHOOSE x \in R : TRUE]) * price[CHOOSE x \in R : TRUE]
                                    + g[R \ {CHOOSE x \in R : TRUE}]]
<1>1. GrossExposure(p, price) = (CHOOSE g : Rule(g))[O]
  BY DEF GrossExposure, MapThenSumSet, MapThenFoldSet
<1>2. O \subseteq S /\ IsFiniteSet(O) /\ v \in [S -> Nat] /\ w \in [O -> Nat]
  BY FS_Subset, WorthType DEF Occupied
<1>3. \A s \in O : w[s] = Magnitude(p[s]) * price[s] /\ v[s] = w[s]
  BY <1>2 DEF Worth
<1> HIDE DEF v, O, w
<1>4. \E g : Rule(g)
  <2>1. PICK g \in Sums(w, O) : TRUE
    BY <1>2, SumsExist
  <2>2. g \in [SUBSET O -> Nat] /\ \A R \in SUBSET O : g[R] = SumStep(g, w, R)
    BY DEF Sums
  <2>3. ASSUME NEW R \in SUBSET O, R # {}
        PROVE  g[R] = Magnitude(p[CHOOSE x \in R : TRUE]) * price[CHOOSE x \in R : TRUE]
                                    + g[R \ {CHOOSE x \in R : TRUE}]
    <3>1. Chosen(R) \in R
      BY <2>3, ChosenIsIn
    <3>2. g[R] = w[Chosen(R)] + g[R \ {Chosen(R)}]
      BY <2>2, <2>3 DEF SumStep
    <3>3. w[Chosen(R)] = Magnitude(p[Chosen(R)]) * price[Chosen(R)]
      BY <1>3, <3>1
    <3> QED
      BY <3>2, <3>3 DEF Chosen
  <2>4. g[{}] = 0
    <3>1. {} \in SUBSET O
      OBVIOUS
    <3> QED
      BY <2>2, <3>1 DEF SumStep
  <2>5. Rule(g)
    BY <2>2, <2>3, <2>4
  <2> QED
    BY <2>5
<1> DEFINE h == CHOOSE g : Rule(g)
<1>5. Rule(h)
  BY <1>4
<1> HIDE DEF h
<1>6. ASSUME NEW R \in SUBSET O PROVE h[R] = SumStep(h, w, R)
  <2>1. CASE R = {}
    BY <1>5, <1>6, <2>1 DEF SumStep
  <2>2. CASE R # {}
    <3>1. Chosen(R) \in O
      BY <1>6, <2>2, ChosenIsIn
    <3>2. h[R] = Magnitude(p[Chosen(R)]) * price[Chosen(R)] + h[R \ {Chosen(R)}]
      BY <1>5, <1>6, <2>2 DEF Chosen
    <3> QED
      BY <1>3, <2>2, <3>1, <3>2 DEF SumStep
  <2> QED
    BY <2>1, <2>2
<1>7. PICK f \in Sums(v, S) : TRUE
  BY <1>2, SumsExist
<1>8. h[O] = f[O]
  <2> DEFINE Bad == {Cardinality(R) : R \in {R \in SUBSET O : h[R] # f[R]}}
  <2>1. /\ f \in [SUBSET S -> Nat]
        /\ \A R \in SUBSET S : f[R] = SumStep(f, v, R)
    BY <1>7 DEF Sums
  <2>2. Bad = {}
    <3>1. SUFFICES ASSUME Bad # {} PROVE FALSE
      OBVIOUS
    <3>2. Bad \subseteq Nat
      <4>1. \A R \in SUBSET O : Cardinality(R) \in Nat
        BY <1>2, FS_Subset, FS_CardinalityType
      <4> QED
        BY <4>1
    <3>3. PICK n \in Bad : \A m \in Bad : n <= m
      <4> HIDE DEF Bad
      <4> QED
        BY <3>1, <3>2, LeastNat
    <3>4. PICK R \in SUBSET O : h[R] # f[R] /\ n = Cardinality(R)
      BY <3>3
    <3>5. R \in SUBSET S /\ h[R] = SumStep(h, w, R) /\ f[R] = SumStep(f, v, R)
      BY <1>2, <1>6, <2>1
    <3>6. R # {}
      BY <3>4, <3>5 DEF SumStep
    <3> DEFINE c == Chosen(R)
    <3>7. c \in R /\ h[R] = w[c] + h[R \ {c}] /\ f[R] = v[c] + f[R \ {c}]
      BY <3>5, <3>6, ChosenIsIn DEF SumStep
    <3> HIDE DEF c
    <3>8. h[R \ {c}] = f[R \ {c}]
      <4>1. /\ R \ {c} \in SUBSET O /\ Cardinality(R \ {c}) \in Nat
            /\ Cardinality(R \ {c}) < Cardinality(R)
        BY <1>2, <3>7, OneLess
      <4>2. Cardinality(R \ {c}) \notin Bad
        <5> HIDE DEF Bad
        <5>1. n \in Nat
          BY <3>2, <3>3
        <5> QED
          BY <3>3, <3>4, <4>1, <5>1
      <4> QED
        BY <4>1, <4>2
    <3>9. w[c] = v[c]
      BY <1>3, <3>7
    <3> QED
      BY <3>4, <3>7, <3>8, <3>9
  <2> QED
    BY <2>2
<1> QED
  BY <1>1, <1>7, <1>8 DEF h, v, O

LEMMA GrossType ==
  ASSUME NEW S, IsFiniteSet(S), NEW p \in [S -> Int], NEW price \in [S -> Nat \ {0}]
  PROVE  GrossExposure(p, price) \in Nat
<1>1. PICK g \in Sums(Worth(p, price), S) : GrossExposure(p, price) = g[Occupied(p)]
  BY GrossIsSum
<1>2. g \in [SUBSET S -> Nat] /\ Occupied(p) \in SUBSET S
  BY DEF Sums, Occupied
<1> QED
  BY <1>1, <1>2

\* A position that is opened adds no more than it is worth.
LEMMA GrossOpened ==
  ASSUME NEW S, IsFiniteSet(S), NEW p \in [S -> Int], NEW price \in [S -> Nat \ {0}],
         NEW s \in S, NEW n \in Int, p[s] = 0, n # 0
  PROVE  \A limit \in Int : GrossExposure(p, price) + Magnitude(n) * price[s] <= limit =>
                            GrossExposure([p EXCEPT ![s] = n], price) <= limit
<1> DEFINE q == [p EXCEPT ![s] = n]
           v == Worth(p, price)
           w == Worth(q, price)
<1>1. q \in [S -> Int] /\ q[s] = n /\ \A t \in S \ {s} : q[t] = p[t]
  OBVIOUS
<1>2. /\ Occupied(p) \in SUBSET S /\ Occupied(q) \in SUBSET S /\ s \in Occupied(q)
      /\ Occupied(q) \ {s} = Occupied(p)
  BY <1>1 DEF Occupied
<1> HIDE DEF q
<1>3. v \in [S -> Nat] /\ w \in [S -> Nat]
  BY <1>1, WorthType
<1>4. w[s] = Magnitude(n) * price[s] /\ \A t \in Occupied(p) : v[t] = w[t]
  BY <1>1, <1>2 DEF Worth, Occupied
<1> HIDE DEF v, w
<1>5. PICK g \in Sums(v, S) : GrossExposure(p, price) = g[Occupied(p)]
  BY GrossIsSum DEF v
<1>6. PICK h \in Sums(w, S) : GrossExposure(q, price) = h[Occupied(q)]
  BY <1>1, GrossIsSum DEF w
<1>7. h[Occupied(q)] = w[s] + h[Occupied(p)]
  BY <1>2, <1>3, SumSplits
<1>8. h[Occupied(p)] = g[Occupied(p)]
  <2>1. \A t \in Occupied(p) : v[t] \in Nat /\ w[t] \in Nat /\ v[t] <= w[t] /\ w[t] <= v[t]
    BY <1>2, <1>3, <1>4
  <2>2. Occupied(p) \in SUBSET (S \cap S)
    BY <1>2
  <2>3. g[Occupied(p)] <= h[Occupied(p)] /\ h[Occupied(p)] <= g[Occupied(p)]
    BY <1>3, <2>1, <2>2, SumGrows
  <2>4. g[Occupied(p)] \in Nat /\ h[Occupied(p)] \in Nat
    BY <1>2 DEF Sums
  <2> QED
    BY <2>3, <2>4
<1>9. w[s] \in Nat /\ g[Occupied(p)] \in Nat
  BY <1>2, <1>3 DEF Sums
<1> QED
  BY <1>4, <1>5, <1>6, <1>7, <1>8, <1>9 DEF q

\* One that becomes no larger adds nothing.
LEMMA GrossLessened ==
  ASSUME NEW S, IsFiniteSet(S), NEW p \in [S -> Int], NEW price \in [S -> Nat \ {0}],
         NEW s \in S, NEW n \in Int, Magnitude(n) <= Magnitude(p[s])
  PROVE  GrossExposure([p EXCEPT ![s] = n], price) <= GrossExposure(p, price)
<1> DEFINE q == [p EXCEPT ![s] = n]
           v == Worth(p, price)
           w == Worth(q, price)
<1>1. q \in [S -> Int] /\ q[s] = n /\ \A t \in S \ {s} : q[t] = p[t]
  OBVIOUS
<1>2. Occupied(p) \in SUBSET S /\ Occupied(q) \in SUBSET S /\ Occupied(q) \subseteq Occupied(p) \cup {s}
  BY <1>1 DEF Occupied
<1>a. s \in Occupied(q) => s \in Occupied(p)
  <2>1. SUFFICES ASSUME p[s] = 0 PROVE n = 0
    BY <1>1 DEF Occupied
  <2> QED
    BY <2>1, Magnitudes
<1>b. Occupied(q) = Occupied(p) \/ (s \in Occupied(p) /\ Occupied(q) = Occupied(p) \ {s})
  BY <1>1, <1>a DEF Occupied
<1> HIDE DEF q
<1>3. v \in [S -> Nat] /\ w \in [S -> Nat]
  BY <1>1, WorthType
<1>4. \A t \in S : w[t] <= v[t]
  <2> TAKE t \in S
  <2>1. v[t] = Magnitude(p[t]) * price[t] /\ w[t] = Magnitude(q[t]) * price[t]
    BY <1>1 DEF Worth
  <2>2. Magnitude(q[t]) \in Nat /\ Magnitude(p[t]) \in Nat /\ Magnitude(q[t]) <= Magnitude(p[t])
    BY <1>1, Magnitudes
  <2> QED
    BY <2>1, <2>2, ProductGrows
<1> HIDE DEF v, w
<1>5. PICK g \in Sums(v, S) : GrossExposure(p, price) = g[Occupied(p)]
  BY GrossIsSum DEF v
<1>6. PICK h \in Sums(w, S) : GrossExposure(q, price) = h[Occupied(q)]
  BY <1>1, GrossIsSum DEF w
<1>7. h[Occupied(q)] <= g[Occupied(q)]
  <2>1. Occupied(q) \in SUBSET (S \cap S) /\ \A t \in Occupied(q) : w[t] <= v[t]
    BY <1>2, <1>4
  <2> QED
    BY <1>3, <2>1, SumGrows
<1>8. /\ g[Occupied(q)] \in Nat /\ h[Occupied(q)] \in Nat /\ g[Occupied(p)] \in Nat
      /\ g[Occupied(p) \ {s}] \in Nat /\ v[s] \in Nat
  BY <1>2, <1>3 DEF Sums
<1>9. g[Occupied(q)] <= g[Occupied(p)]
  <2>1. CASE Occupied(q) = Occupied(p)
    BY <1>8, <2>1
  <2>2. CASE s \in Occupied(p) /\ Occupied(q) = Occupied(p) \ {s}
    <3>1. g[Occupied(p)] = v[s] + g[Occupied(p) \ {s}]
      BY <1>2, <1>3, <2>2, SumSplits
    <3> QED
      BY <1>8, <2>2, <3>1
  <2> QED
    BY <1>b, <2>1, <2>2
<1> QED
  BY <1>5, <1>6, <1>7, <1>8, <1>9 DEF q

-----------------------------------------------------------------------------
(* The tables, and the size of an order.                                   *)

LEMMA LimitsTyped ==
  ASSUME NEW p \in Profiles
  PROVE  /\ Limits[p].open \in Nat /\ Limits[p].gross \in Nat
         /\ Limits[p].loss \in Nat /\ Limits[p].correlated \in Nat
         /\ TargetNotional[p] \in Nat /\ ForexLot[p] \in Nat \ {0}
BY DEF Profiles, Limits, TargetNotional, ForexLot

LEMMA QuotientIsNat ==
  ASSUME NEW total \in Nat, NEW count \in Nat \ {0}
  PROVE  total \div count \in Nat
<1> DEFINE q == total \div count
           r == total % count
<1>1. q \in Int /\ r \in 0..(count - 1) /\ total = count * q + r
  BY Z3
<1>2. q >= 0
  <2>1. SUFFICES ASSUME q <= -1 PROVE FALSE
    BY <1>1
  <2>2. count * q <= -count
    BY <1>1, <2>1, Z3
  <2> QED
    BY <1>1, <2>2
<1> QED
  BY <1>1, <1>2

Markets == {"STOCKS", "CRYPTO", "FOREX"}

LEMMA OrderIsSome ==
  ASSUME NEW m \in Markets, NEW p \in Profiles, NEW price \in Nat \ {0}
  PROVE  OrderQuantity(m, p, price) \in Nat \ {0}
<1>1. TargetNotional[p] \in Nat /\ ForexLot[p] \in Nat \ {0}
  BY LimitsTyped
<1>2. ASSUME NEW n \in Nat PROVE Larger(1, n) \in Nat \ {0} /\ Larger(1, n) * 1000 \in Nat \ {0}
  BY DEF Larger
<1>3. CASE m = "STOCKS"
  <2>1. TargetNotional[p] \div 1000 \in Nat
    BY <1>1, QuotientIsNat
  <2>2. (TargetNotional[p] \div 1000) \div price \in Nat
    BY <2>1, QuotientIsNat
  <2> QED
    BY <1>2, <1>3, <2>2 DEF OrderQuantity
<1>4. CASE m = "CRYPTO"
  <2>1. TargetNotional[p] \div price \in Nat
    BY <1>1, QuotientIsNat
  <2> QED
    BY <1>2, <1>4, <2>1 DEF OrderQuantity
<1>5. CASE m = "FOREX"
  BY <1>1, <1>5 DEF OrderQuantity
<1> QED
  BY <1>3, <1>4, <1>5 DEF Markets

LEMMA ShareType ==
  ASSUME NEW share \in Int, NEW amount \in Nat
  PROVE  PerMille(share, amount) \in Int
<1>1. share * amount \in Int
  OBVIOUS
<1> QED
  BY <1>1 DEF PerMille

-----------------------------------------------------------------------------
(* Orders that keep a portfolio within its limits.                         *)

Sharing(m, p, factor) == {t \in Occupied(p) : factor \in FactorsOf(m, p, t)}

\* A position that becomes smaller, or none, and does not turn round.
LEMMA ClosingKeeps ==
  ASSUME NEW S, IsFiniteSet(S), NEW p \in [S -> Int], NEW price \in [S -> Nat \ {0}],
         NEW m \in Markets, NEW f \in Profiles, NEW equity \in Nat,
         NEW s \in S, NEW n \in Int,
         \/ n = 0
         \/ 0 < n /\ n <= p[s]
         \/ p[s] <= n /\ n < 0,
         WithinLimits(m, f, equity, p, price)
  PROVE  WithinLimits(m, f, equity, [p EXCEPT ![s] = n], price)
<1> DEFINE q == [p EXCEPT ![s] = n]
<1>1. q \in [S -> Int] /\ q[s] = n /\ \A t \in S \ {s} : q[t] = p[t]
  OBVIOUS
<1>2. Magnitude(n) <= Magnitude(p[s])
  <2>1. p[s] \in Int
    OBVIOUS
  <2> QED
    BY <2>1, Magnitudes
<1>3. GrossExposure(q, price) <= GrossExposure(p, price)
  BY <1>2, GrossLessened
<1> HIDE DEF q
<1>4. Occupied(p) \in SUBSET S /\ Occupied(q) \subseteq Occupied(p)
  BY <1>1 DEF Occupied
<1>5. /\ IsFiniteSet(Occupied(p)) /\ IsFiniteSet(Occupied(q))
      /\ Cardinality(Occupied(p)) \in Nat /\ Cardinality(Occupied(q)) \in Nat
      /\ Cardinality(Occupied(q)) <= Cardinality(Occupied(p))
  <2>1. IsFiniteSet(Occupied(p))
    BY <1>4, FS_Subset
  <2> QED
    BY <1>4, <2>1, FS_Subset, FS_CardinalityType
<1>6. ASSUME NEW t \in Occupied(q)
      PROVE  /\ t \in Occupied(p) /\ Magnitude(q[t]) <= Magnitude(p[t])
             /\ Direction(q[t]) = Direction(p[t])
  <2>1. t \in S /\ t \in Occupied(p) /\ p[t] \in Int /\ q[t] \in Int /\ q[t] # 0
    BY <1>1, <1>4 DEF Occupied
  <2>2. CASE t = s
    BY <1>1, <1>2, <2>1, <2>2 DEF Direction
  <2>3. CASE t # s
    BY <1>1, <2>1, <2>3, Magnitudes
  <2> QED
    BY <2>1, <2>2, <2>3
<1>7. Cardinality(Occupied(q)) <= Limits[f].open
  BY <1>5, LimitsTyped DEF WithinLimits
<1>8. GrossExposure(q, price) <= PerMille(Limits[f].gross, equity)
  <2>1. GrossExposure(q, price) \in Nat /\ GrossExposure(p, price) \in Nat
    BY <1>1, GrossType
  <2>2. PerMille(Limits[f].gross, equity) \in Int
    BY LimitsTyped, ShareType
  <2> QED
    BY <1>3, <2>1, <2>2 DEF WithinLimits
<1>9. ASSUME NEW t \in Occupied(q)
      PROVE  Magnitude(q[t]) <= OrderQuantity(m, f, price[t])
  <2>1. /\ Magnitude(p[t]) <= OrderQuantity(m, f, price[t])
        /\ Magnitude(q[t]) <= Magnitude(p[t])
    BY <1>6 DEF WithinLimits
  <2>2. t \in S /\ p[t] \in Int /\ q[t] \in Int
    BY <1>1, <1>4
  <2>3. Magnitude(p[t]) \in Nat /\ Magnitude(q[t]) \in Nat /\ OrderQuantity(m, f, price[t]) \in Nat
    BY <2>2, Magnitudes, OrderIsSome
  <2> QED
    BY <2>1, <2>3
<1>10. ASSUME NEW t \in Occupied(q), NEW factor \in FactorsOf(m, q, t)
       PROVE  Cardinality(Sharing(m, q, factor)) <= Larger(1, Limits[f].correlated)
  <2>1. Sharing(m, q, factor) \subseteq Sharing(m, p, factor)
    BY <1>6 DEF Sharing, FactorsOf
  <2>2. Sharing(m, p, factor) \in SUBSET Occupied(p)
    BY DEF Sharing
  <2>3. IsFiniteSet(Sharing(m, p, factor))
    BY <1>5, <2>2, FS_Subset
  <2>4. /\ Cardinality(Sharing(m, q, factor)) <= Cardinality(Sharing(m, p, factor))
        /\ Cardinality(Sharing(m, p, factor)) \in Nat
        /\ Cardinality(Sharing(m, q, factor)) \in Nat
    <3>1. IsFiniteSet(Sharing(m, q, factor))
      BY <2>1, <2>3, FS_Subset
    <3> QED
      BY <2>1, <2>3, <3>1, FS_Subset, FS_CardinalityType
  <2>5. factor \in FactorsOf(m, p, t)
    BY <1>6, <1>10 DEF FactorsOf
  <2>6. Cardinality(Sharing(m, p, factor)) <= Larger(1, Limits[f].correlated)
    BY <1>6, <2>5 DEF WithinLimits, Sharing
  <2>7. Larger(1, Limits[f].correlated) \in Nat
    BY LimitsTyped DEF Larger
  <2> QED
    BY <2>4, <2>6, <2>7
<1> QED
  BY <1>7, <1>8, <1>9, <1>10 DEF WithinLimits, Sharing, q

\* An order that the controls let through where there is no position.
LEMMA OpeningKeeps ==
  ASSUME NEW S, IsFiniteSet(S), NEW p \in [S -> Int], NEW price \in [S -> Nat \ {0}],
         NEW m \in Markets, NEW f \in Profiles, NEW equity \in Nat,
         NEW s \in S, NEW n \in Int, p[s] = 0, n # 0,
         Magnitude(n) <= OrderQuantity(m, f, price[s]),
         HasRoom(f, p, s), Affords(f, equity, p, price, s, n), Diversifies(m, f, p, s, n),
         WithinLimits(m, f, equity, p, price)
  PROVE  WithinLimits(m, f, equity, [p EXCEPT ![s] = n], price)
<1> DEFINE q == [p EXCEPT ![s] = n]
<1>1. q \in [S -> Int] /\ q[s] = n /\ \A t \in S \ {s} : q[t] = p[t]
  OBVIOUS
<1>2. \A limit \in Int : GrossExposure(p, price) + Magnitude(n) * price[s] <= limit =>
                            GrossExposure(q, price) <= limit
  BY GrossOpened
<1> HIDE DEF q
<1>3. Occupied(p) \in SUBSET S /\ s \notin Occupied(p) /\ Occupied(q) = Occupied(p) \cup {s}
  BY <1>1 DEF Occupied
<1>4. /\ IsFiniteSet(Occupied(p)) /\ Cardinality(Occupied(p)) \in Nat
      /\ Cardinality(Occupied(q)) = Cardinality(Occupied(p)) + 1
  <2>1. IsFiniteSet(Occupied(p))
    BY <1>3, FS_Subset
  <2> QED
    BY <1>3, <2>1, FS_AddElement, FS_CardinalityType
<1>5. Cardinality(Occupied(q)) <= Limits[f].open
  BY <1>4, LimitsTyped DEF HasRoom
<1>6. GrossExposure(q, price) <= PerMille(Limits[f].gross, equity)
  BY <1>2, LimitsTyped, ShareType DEF Affords
<1>7. ASSUME NEW t \in Occupied(q)
      PROVE  Magnitude(q[t]) <= OrderQuantity(m, f, price[t])
  BY <1>1, <1>3 DEF WithinLimits, Occupied
<1>8. \A t \in Occupied(p) : FactorsOf(m, q, t) = FactorsOf(m, p, t)
  BY <1>1, <1>3 DEF FactorsOf
<1>9. FactorsOf(m, q, s) = Factors(m, s, Direction(n))
  BY <1>1 DEF FactorsOf
<1>10. ASSUME NEW t \in Occupied(q), NEW factor \in FactorsOf(m, q, t)
       PROVE  Cardinality(Sharing(m, q, factor)) <= Larger(1, Limits[f].correlated)
  <2>1. Sharing(m, p, factor) \in SUBSET Occupied(p)
    BY DEF Sharing
  <2>2. IsFiniteSet(Sharing(m, p, factor)) /\ Cardinality(Sharing(m, p, factor)) \in Nat
    BY <1>4, <2>1, FS_Subset, FS_CardinalityType
  <2>3. CASE factor \in Factors(m, s, Direction(n))
    <3>1. Sharing(m, q, factor) = Sharing(m, p, factor) \cup {s}
      BY <1>3, <1>8, <1>9, <2>3 DEF Sharing
    <3>2. Cardinality(Sharing(m, q, factor)) = Cardinality(Sharing(m, p, factor)) + 1
      BY <1>3, <2>1, <2>2, <3>1, FS_AddElement
    <3> DEFINE C == Correlated(m, p, s, n)
    <3>3. C \in SUBSET Occupied(p) /\ Sharing(m, p, factor) \in SUBSET C
      BY <2>3 DEF Correlated, Sharing
    <3>4. C = {} \/ Cardinality(C) < Limits[f].correlated
      BY DEF Diversifies
    <3> HIDE DEF C
    <3>5. /\ IsFiniteSet(C) /\ Cardinality(C) \in Nat
          /\ Cardinality(Sharing(m, p, factor)) <= Cardinality(C)
      <4>1. IsFiniteSet(C)
        BY <1>4, <3>3, FS_Subset
      <4> QED
        BY <3>3, <4>1, FS_Subset, FS_CardinalityType
    <3>6. C = {} => Cardinality(C) = 0
      BY FS_EmptySet
    <3> QED
      BY <2>2, <3>2, <3>4, <3>5, <3>6, LimitsTyped DEF Larger
  <2>4. CASE factor \notin Factors(m, s, Direction(n))
    <3>1. t \in Occupied(p) /\ factor \in FactorsOf(m, p, t)
      BY <1>3, <1>8, <1>9, <1>10, <2>4
    <3>2. Sharing(m, q, factor) = Sharing(m, p, factor)
      BY <1>3, <1>8, <1>9, <2>4 DEF Sharing
    <3> QED
      BY <3>1, <3>2 DEF WithinLimits, Sharing
  <2> QED
    BY <2>3, <2>4
<1> QED
  BY <1>5, <1>6, <1>7, <1>10 DEF WithinLimits, Sharing, q

-----------------------------------------------------------------------------
(* The invariant.                                                          *)

View(S) == [pos : [S -> Int], at : Nat \cup {Never}, known : SUBSET Nat]
Scans(S) == [at : {"rest", "began", "decide", "gate", "sent"}, began : Nat, view : View(S),
             symbol : S \cup {Never}, delta : Int]
Requests(S) == [at : {"rest", "reconciled", "closed"}, view : View(S)]

TypeInv ==
  /\ setup \in Setups /\ now \in 1..Len(Moments)
  /\ held \in [Symbols -> Int] /\ working \in [Symbols -> Int]
  /\ trades \in Seq([day : Int, gain : Int])
  /\ stored \in View(Symbols)
  /\ last \in [Symbols -> Int]
  /\ scan \in Scans(Symbols) /\ api \in Requests(Symbols)
  /\ orders \in 0..MaxOrders /\ requests \in 0..MaxRequests /\ faults \in 0..MaxFaults
  /\ disturbed \in BOOLEAN

\* A broker that fills at once has nothing left to do.
WorkInv == setup.broker.fillsAtOnce => \A s \in Symbols : working[s] = 0

KnownInv ==
  /\ stored.known \subseteq DOMAIN trades
  /\ scan.view.known \subseteq DOMAIN trades
  /\ api.view.known \subseteq DOMAIN trades

\* An order of d for a position of n.
Fits(n, d, lot) ==
  \/ n = 0 /\ d \in {lot, -lot}
  \/ n # 0 /\ d \in {-n, -(n \div 2)} \ {0}

OrderInv ==
  scan.at = "gate" =>
    /\ scan.symbol \in Symbols
    /\ Fits(scan.view.pos[scan.symbol], scan.delta, Lot(scan.symbol))

AloneInv == ~disturbed => scan.at = "rest" \/ api.at = "rest"

\* A copy of the portfolio that is what the broker has.
Mirrors(view) == view.pos = held /\ (setup.broker.reports => DOMAIN trades \subseteq view.known)

CopyInv ==
  ~disturbed /\ setup.broker.fillsAtOnce =>
    /\ scan.at # "sent" /\ api.at # "closed" =>
         IF stored.at = Never THEN \A s \in Symbols : stored.pos[s] = 0 ELSE Mirrors(stored)
    /\ scan.at \in {"decide", "gate"} => Mirrors(scan.view)
    /\ api.at = "reconciled" => api.view.at # Never /\ Mirrors(api.view)

Inv == TypeInv /\ WorkInv /\ KnownInv /\ OrderInv /\ AloneInv /\ CopyInv /\ LimitsHold

-----------------------------------------------------------------------------
(* The market at hand, and the parts of a step.                            *)

LEMMA SetupFacts ==
  ASSUME setup \in Setups
  PROVE  /\ setup.market \in Markets /\ setup.profile \in Profiles
         /\ setup.broker.fillsAtOnce \in BOOLEAN /\ setup.broker.opens \in BOOLEAN
         /\ setup.broker.reports => setup.broker.fillsAtOnce
         /\ IsFiniteSet(Symbols) /\ setup.price \in [Symbols -> Nat \ {0}]
         /\ setup.seed \in [Symbols -> Int] /\ setup.equity \in Nat
         /\ setup.broker.fillsAtOnce /\ setup.broker.opens =>
              WithinLimits(setup.market, setup.profile, setup.equity, setup.seed, setup.price)
<1>1. /\ setup.market \in {"STOCKS", "CRYPTO", "FOREX"} /\ setup.profile \in Profiles
      /\ setup.broker \in BrokerType
      /\ setup.broker.reports => setup.broker.fillsAtOnce
      /\ IsFiniteSet(DOMAIN setup.price) /\ setup.price \in [DOMAIN setup.price -> Nat \ {0}]
      /\ setup.seed \in [DOMAIN setup.price -> Int] /\ {setup.equity, setup.power} \subseteq Nat
      /\ setup.broker.fillsAtOnce /\ setup.broker.opens =>
           WithinLimits(setup.market, setup.profile, setup.equity, setup.seed, setup.price)
  BY RoundAssumption DEF RoundAssumption
<1>2. setup.broker.fillsAtOnce \in BOOLEAN /\ setup.broker.opens \in BOOLEAN
  BY <1>1 DEF BrokerType
<1> QED
  BY <1>1, <1>2 DEF Symbols, Markets

LEMMA Constants ==
  /\ Outcomes \subseteq Int /\ MaxOrders \in Nat /\ MaxRequests \in Nat /\ MaxFaults \in Nat
  /\ Moments \in Seq(Nat) /\ Len(Moments) \in Nat /\ 1 \in 1..Len(Moments)
BY RoundAssumption DEF RoundAssumption

LEMMA LotType ==
  ASSUME setup \in Setups, NEW s \in Symbols
  PROVE  Lot(s) \in Nat \ {0}
<1>1. setup.price[s] \in Nat \ {0} /\ setup.market \in Markets /\ setup.profile \in Profiles
  BY SetupFacts
<1> QED
  BY <1>1, OrderIsSome DEF Lot

LEMMA TimeType ==
  ASSUME TypeInv
  PROVE  T \in Nat /\ T # Never /\ UtcDate(T) \in Int
<1>1. T \in Nat
  BY Constants DEF TypeInv, T
<1> QED
  BY <1>1 DEF Never, UtcDate, Minutes, Day

\* A reconciliation shows what the broker has.
LEMMA ReconciledFacts ==
  ASSUME TypeInv
  PROVE  /\ Reconciled \in View(Symbols) /\ Reconciled.at # Never /\ Reconciled.pos = held
         /\ Reconciled.known \subseteq DOMAIN trades /\ Mirrors(Reconciled)
<1>1. DOMAIN trades \subseteq Nat
  BY DEF TypeInv
<1> QED
  BY <1>1, TimeType DEF TypeInv, Reconciled, View, Mirrors

LEMMA NoViewFacts ==
  /\ NoView \in View(Symbols) /\ NoView.at = Never /\ NoView.known = {}
  /\ \A s \in Symbols : NoView.pos[s] = 0
BY DEF NoView, View

LEMMA RestingFacts ==
  /\ Resting \in Scans(Symbols) /\ Resting.at = "rest" /\ Resting.view = NoView
  /\ Idle \in Requests(Symbols) /\ Idle.at = "rest" /\ Idle.view = NoView
BY NoViewFacts DEF Resting, Idle, Scans, Requests

LEMMA SavedFacts ==
  ASSUME TypeInv, NEW view \in View(Symbols), Saved(view)
  PROVE  /\ stored' \in View(Symbols)
         /\ stored'.pos = view.pos /\ stored'.at = view.at
         /\ stored'.known = view.known \cup stored.known
BY DEF TypeInv, Saved, View

\* What an order does to the books.
LEMMA MinOfTwo ==
  ASSUME NEW a \in Int, NEW b \in Int
  PROVE  Min({a, b}) = IF a <= b THEN a ELSE b
<1> DEFINE c == IF a <= b THEN a ELSE b
<1>1. c \in {a, b} /\ \A y \in {a, b} : c <= y
  OBVIOUS
<1>2. \A x \in {a, b} : (\A y \in {a, b} : x <= y) => x = c
  OBVIOUS
<1> HIDE DEF c
<1>3. Min({a, b}) = c
  BY <1>1, <1>2 DEF Min
<1> QED
  BY <1>3 DEF c

LEMMA DoesType ==
  ASSUME TypeInv, NEW s \in Symbols, NEW delta \in Int, NEW manual \in BOOLEAN
  PROVE  Does(s, delta, manual) \in Int
<1>1. /\ held[s] \in Int /\ Magnitude(held[s]) \in Nat /\ Magnitude(delta) \in Nat
      /\ Direction(delta) \in {1, -1}
  BY Magnitudes DEF TypeInv, Direction, Long, Short
<1>2. Min({Magnitude(delta), Magnitude(held[s])}) \in Int
  BY <1>1, MinOfTwo
<1>3. Direction(delta) * Min({Magnitude(delta), Magnitude(held[s])}) \in Int
  BY <1>1, <1>2
<1> QED
  BY <1>3 DEF Does

\* An order against a position, and not larger, is executed whole.
LEMMA DoesReduce ==
  ASSUME TypeInv, NEW s \in Symbols, NEW delta \in Int, NEW manual \in BOOLEAN,
         Reduces(held, s, delta), Magnitude(delta) <= Magnitude(held[s])
  PROVE  Does(s, delta, manual) = delta
<1>1. held[s] \in Int /\ Magnitude(held[s]) \in Nat /\ Magnitude(delta) \in Nat
  BY Magnitudes DEF TypeInv
<1>2. Min({Magnitude(delta), Magnitude(held[s])}) = Magnitude(delta)
  BY <1>1, MinOfTwo
<1>3. Direction(delta) * Magnitude(delta) = delta
  BY Magnitudes DEF Direction, Long, Short
<1> QED
  BY <1>2, <1>3 DEF Does

LEMMA DoesOpen ==
  ASSUME TypeInv, NEW s \in Symbols, NEW delta \in Int, held[s] = 0, setup.broker.opens
  PROVE  Does(s, delta, FALSE) = delta
BY DEF Does, Reduces

LEMMA ExecuteFacts ==
  ASSUME TypeInv, NEW s \in Symbols, NEW delta \in Int, Execute(s, delta)
  PROVE  /\ held' = [held EXCEPT ![s] = @ + delta] /\ held' \in [Symbols -> Int]
         /\ trades' \in Seq([day : Int, gain : Int]) /\ DOMAIN trades \subseteq DOMAIN trades'
<1>1. held' = [held EXCEPT ![s] = @ + delta] /\ held' \in [Symbols -> Int]
  BY DEF TypeInv, Execute
<1>2. /\ trades \in Seq([day : Int, gain : Int])
      /\ trades' = trades \/ \E gain \in Outcomes : trades' = Append(trades, [day |-> UtcDate(T), gain |-> gain])
  BY DEF TypeInv, Execute
<1>3. ASSUME NEW gain \in Outcomes, trades' = Append(trades, [day |-> UtcDate(T), gain |-> gain])
      PROVE  /\ trades' \in Seq([day : Int, gain : Int])
             /\ DOMAIN trades \subseteq DOMAIN trades'
  <2>1. [day |-> UtcDate(T), gain |-> gain] \in [day : Int, gain : Int]
    BY TimeType, Constants
  <2> QED
    BY <1>2, <1>3, <2>1
<1> QED
  BY <1>1, <1>2, <1>3

LEMMA SubmitFacts ==
  ASSUME TypeInv, NEW s \in Symbols, NEW delta \in Int, NEW manual \in BOOLEAN,
         Submit(s, delta, manual)
  PROVE  /\ held' \in [Symbols -> Int] /\ working' \in [Symbols -> Int]
         /\ trades' \in Seq([day : Int, gain : Int]) /\ DOMAIN trades \subseteq DOMAIN trades'
         /\ setup.broker.fillsAtOnce =>
              working' = working /\ held' = [held EXCEPT ![s] = @ + Does(s, delta, manual)]
<1>1. Does(s, delta, manual) \in Int
  BY DoesType
<1>2. CASE setup.broker.fillsAtOnce
  <2>1. Execute(s, Does(s, delta, manual)) /\ working' = working
    BY <1>2 DEF Submit
  <2> QED
    BY <1>1, <2>1, ExecuteFacts DEF TypeInv
<1>3. CASE ~setup.broker.fillsAtOnce
  <2>1. /\ working' = [working EXCEPT ![s] = @ + Does(s, delta, manual)]
        /\ UNCHANGED <<held, trades>>
    BY <1>3 DEF Submit
  <2> QED
    BY <1>1, <1>3, <2>1 DEF TypeInv
<1> QED
  BY <1>2, <1>3

-----------------------------------------------------------------------------
(* Steps of the scanner.                                                   *)

\* The broker, its books and the store are as they were.
Still == UNCHANGED <<setup, held, working, trades, stored>>

LEMMA SameSymbols ==
  ASSUME setup' = setup
  PROVE  Symbols' = Symbols /\ \A s \in Symbols : Lot(s)' = Lot(s)
BY DEF Symbols, Lot

\* A scan that ends with nothing under way that had to be recorded.
LEMMA RestKeeps ==
  ASSUME Inv, Still, Rest, UNCHANGED <<now, last, api, orders, requests>>,
         faults' \in 0..MaxFaults, disturbed' \in BOOLEAN,
         disturbed \/ scan.at = "sent" => disturbed'
  PROVE  Inv'
<1>1. scan' = Resting
  BY DEF Rest
<1>2. Symbols' = Symbols
  BY DEF Still, Symbols
<1>3. TypeInv'
  BY <1>1, <1>2, RestingFacts DEF Inv, TypeInv, Still
<1>4. WorkInv'
  BY <1>2 DEF Inv, WorkInv, Still
<1>5. KnownInv'
  BY <1>1, RestingFacts, NoViewFacts DEF Inv, KnownInv, Still
<1>6. OrderInv' /\ AloneInv'
  BY <1>1, RestingFacts DEF OrderInv, AloneInv
<1>7. CopyInv'
  BY <1>1, <1>2, RestingFacts DEF Inv, CopyInv, Mirrors, Still
<1>8. LimitsHold'
  BY DEF Inv, LimitsHold, Still
<1> QED
  BY <1>3, <1>4, <1>5, <1>6, <1>7, <1>8 DEF Inv

LEMMA BeginKeeps ==
  ASSUME Inv, BeginScan
  PROVE  Inv'
<1>1. /\ Still /\ UNCHANGED <<now, last, api, orders, requests, faults>>
      /\ scan' = [scan EXCEPT !.at = "began", !.began = now]
      /\ disturbed' = (disturbed \/ api.at # "rest") /\ scan.at = "rest"
  BY DEF BeginScan, books, Still, At
<1>2. /\ scan' \in Scans(Symbols) /\ scan'.at = "began" /\ scan'.view = scan.view
      /\ now \in Nat /\ disturbed' \in BOOLEAN
  <2>1. scan \in Scans(Symbols) /\ now \in 1..Len(Moments) /\ disturbed \in BOOLEAN
    BY DEF Inv, TypeInv
  <2>2. now \in Nat /\ (disturbed \/ api.at # "rest") \in BOOLEAN
    BY <2>1, Constants
  <2> QED
    BY <1>1, <2>1, <2>2 DEF Scans
<1>3. Symbols' = Symbols
  BY <1>1 DEF Still, Symbols
<1>4. TypeInv'
  BY <1>1, <1>2, <1>3 DEF Inv, TypeInv, Still
<1>5. WorkInv'
  BY <1>1, <1>3 DEF Inv, WorkInv, Still
<1>6. KnownInv'
  BY <1>1, <1>2 DEF Inv, KnownInv, Still
<1>7. OrderInv'
  BY <1>2 DEF OrderInv
<1>8. AloneInv'
  BY <1>1 DEF AloneInv
<1>9. CopyInv'
  BY <1>1, <1>2, <1>3 DEF Inv, CopyInv, Mirrors, Still
<1>10. LimitsHold'
  BY <1>1 DEF Inv, LimitsHold, Still
<1> QED
  BY <1>4, <1>5, <1>6, <1>7, <1>8, <1>9, <1>10 DEF Inv

\* A view that is saved, by whoever has it.
LEMMA TakeKeeps ==
  ASSUME Inv, TakePortfolio
  PROVE  Inv'
<1> DEFINE view == IF Fresh(stored, Moments[scan.began]) THEN stored ELSE Reconciled
<1>1. /\ Saved(view) /\ scan' = [scan EXCEPT !.at = "decide", !.view = view] /\ scan.at = "began"
      /\ UNCHANGED <<setup, now, held, working, trades, last, api, orders, requests, faults, disturbed>>
  BY DEF TakePortfolio, books, At
<1>2. /\ view \in View(Symbols) /\ view.known \subseteq DOMAIN trades /\ view.at # Never
      /\ view = stored \/ Mirrors(view)
  BY ReconciledFacts DEF Inv, TypeInv, KnownInv, Fresh
<1> HIDE DEF view
<1>3. /\ stored' \in View(Symbols) /\ stored'.pos = view.pos /\ stored'.at = view.at
      /\ stored'.known = view.known \cup stored.known
  BY <1>1, <1>2, SavedFacts DEF Inv
<1>4. scan' \in Scans(Symbols) /\ scan'.at = "decide" /\ scan'.view = view
  BY <1>1, <1>2 DEF Inv, TypeInv, Scans
<1>5. Symbols' = Symbols
  BY <1>1 DEF Symbols
<1>6. TypeInv'
  BY <1>1, <1>3, <1>4, <1>5 DEF Inv, TypeInv
<1>7. WorkInv'
  BY <1>1, <1>5 DEF Inv, WorkInv
<1>8. KnownInv'
  BY <1>1, <1>2, <1>3, <1>4 DEF Inv, KnownInv
<1>9. OrderInv'
  BY <1>4 DEF OrderInv
<1>10. AloneInv'
  BY <1>1 DEF Inv, AloneInv
<1>11. CopyInv'
  <2>1. SUFFICES ASSUME ~disturbed, setup.broker.fillsAtOnce
                 PROVE  /\ stored'.at # Never /\ Mirrors(stored') /\ Mirrors(view)
                        /\ api.at # "reconciled"
    <3>1. Mirrors(stored') /\ Mirrors(view) => Mirrors(stored)' /\ Mirrors(scan.view)'
      BY <1>1, <1>4 DEF Mirrors
    <3> QED
      BY <1>1, <1>4, <2>1, <3>1 DEF CopyInv
  <2>2. api.at = "rest"
    BY <1>1, <2>1 DEF Inv, AloneInv
  <2>3. Mirrors(view)
    BY <1>1, <1>2, <2>1, <2>2 DEF Inv, CopyInv
  <2> QED
    BY <1>2, <1>3, <2>2, <2>3 DEF Mirrors
<1>12. LimitsHold'
  BY <1>1 DEF Inv, LimitsHold
<1> QED
  BY <1>6, <1>7, <1>8, <1>9, <1>10, <1>11, <1>12 DEF Inv

LEMMA SignalKeeps ==
  ASSUME Inv, NEW s \in Symbols, NEW d \in Int, Signal(s, d),
         Fits(scan.view.pos[s], d, Lot(s))
  PROVE  Inv'
<1>1. /\ Still /\ UNCHANGED <<now, api, orders, requests, faults, disturbed>>
      /\ scan' = [scan EXCEPT !.at = "gate", !.symbol = s, !.delta = d] /\ scan.at = "decide"
      /\ last' = [last EXCEPT ![s] = T]
  BY DEF Signal, books, Still, At
<1>2. /\ scan' \in Scans(Symbols) /\ scan'.at = "gate" /\ scan'.view = scan.view
      /\ scan'.symbol = s /\ scan'.delta = d
  BY <1>1 DEF Inv, TypeInv, Scans
<1>3. Symbols' = Symbols /\ Lot(s)' = Lot(s)
  BY <1>1 DEF Still, Symbols, Lot
<1>4. last' \in [Symbols -> Int]
  BY <1>1, TimeType DEF Inv, TypeInv
<1>5. TypeInv'
  BY <1>1, <1>2, <1>3, <1>4 DEF Inv, TypeInv, Still
<1>6. WorkInv'
  BY <1>1, <1>3 DEF Inv, WorkInv, Still
<1>7. KnownInv'
  BY <1>1, <1>2 DEF Inv, KnownInv, Still
<1>8. OrderInv'
  BY <1>1, <1>2, <1>3 DEF OrderInv, Still, Lot, Fits, Symbols
<1>9. AloneInv'
  BY <1>1 DEF Inv, AloneInv
<1>10. CopyInv'
  BY <1>1, <1>2, <1>3 DEF Inv, CopyInv, Mirrors, Still
<1>11. LimitsHold'
  BY <1>1 DEF Inv, LimitsHold, Still
<1> QED
  BY <1>5, <1>6, <1>7, <1>8, <1>9, <1>10, <1>11 DEF Inv

LEMMA EntryKeeps ==
  ASSUME Inv, NEW s \in Symbols, Entry(s)
  PROVE  Inv'
<1>1. PICK direction \in {Long, Short} : Signal(s, direction * Lot(s)) /\ scan.view.pos[s] = 0
  BY DEF Entry
<1>2. Lot(s) \in Nat
  BY LotType DEF Inv, TypeInv
<1>3. direction * Lot(s) \in Int /\ direction * Lot(s) \in {Lot(s), -Lot(s)}
  BY <1>2 DEF Long, Short
<1> QED
  BY <1>1, <1>3, SignalKeeps DEF Fits

LEMMA ExitKeeps ==
  ASSUME Inv, NEW s \in Symbols, Exit(s)
  PROVE  Inv'
<1>1. PICK part \in {scan.view.pos[s], scan.view.pos[s] \div 2} \ {0} :
        Signal(s, -part) /\ scan.view.pos[s] # 0
  BY DEF Exit
<1>2. scan.view.pos[s] \in Int
  BY DEF Inv, TypeInv, Scans, View
<1>3. -part \in Int /\ -part \in {-scan.view.pos[s], -(scan.view.pos[s] \div 2)} \ {0}
  BY <1>1, <1>2
<1> QED
  BY <1>1, <1>3, SignalKeeps DEF Fits

\* What an order makes of a portfolio that it was decided on.
LEMMA HalfOrAll ==
  ASSUME NEW n \in Int, n # 0, NEW d \in {-n, -(n \div 2)} \ {0}
  PROVE  /\ d \in Int /\ Magnitude(d) <= Magnitude(n)
         /\ (n > 0 /\ d < 0) \/ (n < 0 /\ d > 0)
         /\ \/ n + d = 0
            \/ 0 < n + d /\ n + d <= n
            \/ n <= n + d /\ n + d < 0
<1>1. d \in Int /\ n \div 2 \in Int
  OBVIOUS
<1>2. ((n > 0 /\ d < 0) \/ (n < 0 /\ d > 0)) /\ (n > 0 => -d <= n) /\ (n < 0 => d <= -n)
  OBVIOUS
<1>3. Magnitude(d) <= Magnitude(n)
  BY <1>1, <1>2, Magnitudes
<1> QED
  BY <1>1, <1>2, <1>3

LEMMA SendDoes ==
  ASSUME Inv, Send, ~disturbed, setup.broker.fillsAtOnce, setup.broker.opens
  PROVE  WithinLimits(setup.market, setup.profile, setup.equity, held', setup.price)
<1> DEFINE s == scan.symbol
           d == scan.delta
           n == held[s]
<1>1. /\ scan.at = "gate" /\ Accepted /\ Submit(s, d, FALSE)
  BY DEF Send, At
<1>2. /\ TypeInv /\ s \in Symbols /\ Fits(scan.view.pos[s], d, Lot(s)) /\ Mirrors(scan.view)
  BY <1>1 DEF Inv, OrderInv, CopyInv
<1>3. scan.view.pos = held /\ n \in Int /\ d \in Int /\ held \in [Symbols -> Int]
  BY <1>2 DEF Mirrors, TypeInv, Scans
<1>4. Fits(n, d, Lot(s))
  BY <1>2, <1>3
<1>5. held' = [held EXCEPT ![s] = @ + Does(s, d, FALSE)]
  BY <1>1, <1>2, <1>3, SubmitFacts
<1>6. /\ setup.market \in Markets /\ setup.profile \in Profiles /\ IsFiniteSet(Symbols)
      /\ setup.price \in [Symbols -> Nat \ {0}] /\ setup.equity \in Nat
  BY <1>2, SetupFacts DEF TypeInv
<1>7. WithinLimits(setup.market, setup.profile, setup.equity, held, setup.price)
  BY DEF Inv, LimitsHold
<1>8. ControlsAccept(setup.market, setup.profile, setup.equity, held, setup.price,
                     RealisedInView, s, d)
  BY <1>1, <1>3 DEF Accepted
<1> HIDE DEF s, d, n
<1>9. CASE n = 0
  <2>1. Lot(s) \in Nat \ {0} /\ d \in {Lot(s), -Lot(s)}
    BY <1>2, <1>4, <1>9, LotType DEF Fits, TypeInv
  <2>2. d # 0 /\ Magnitude(d) <= Lot(s)
    BY <2>1, Magnitudes
  <2>3. ~Reduces(held, s, d)
    BY <1>9 DEF Reduces, n
  <2>4. /\ HasRoom(setup.profile, held, s)
        /\ Affords(setup.profile, setup.equity, held, setup.price, s, d)
        /\ Diversifies(setup.market, setup.profile, held, s, d)
    BY <1>8, <2>3 DEF ControlsAccept
  <2>5. Does(s, d, FALSE) = d
    BY <1>2, <1>3, <1>9, DoesOpen DEF n
  <2>6. held' = [held EXCEPT ![s] = d]
    <3>1. held[s] + d = d
      BY <1>3, <1>9 DEF n
    <3> QED
      BY <1>5, <2>5, <3>1
  <2>7. Magnitude(d) <= OrderQuantity(setup.market, setup.profile, setup.price[s])
    BY <2>2 DEF Lot
  <2>8. WithinLimits(setup.market, setup.profile, setup.equity, [held EXCEPT ![s] = d], setup.price)
    BY <1>2, <1>3, <1>6, <1>7, <1>9, <2>2, <2>4, <2>7, OpeningKeeps DEF n
  <2> QED
    BY <2>6, <2>8
<1>10. CASE n # 0
  <2>1. d \in {-n, -(n \div 2)} \ {0}
    BY <1>4, <1>10 DEF Fits
  <2>2. /\ Magnitude(d) <= Magnitude(n)
        /\ (n > 0 /\ d < 0) \/ (n < 0 /\ d > 0)
        /\ n + d \in Int
        /\ \/ n + d = 0
           \/ 0 < n + d /\ n + d <= n
           \/ n <= n + d /\ n + d < 0
    BY <1>3, <1>10, <2>1, HalfOrAll
  <2>3. Reduces(held, s, d)
    BY <2>2 DEF Reduces, n
  <2>4. Does(s, d, FALSE) = d
    BY <1>2, <1>3, <2>2, <2>3, DoesReduce DEF n
  <2>5. held' = [held EXCEPT ![s] = n + d]
    BY <1>3, <1>5, <2>4 DEF n
  <2>6. WithinLimits(setup.market, setup.profile, setup.equity, [held EXCEPT ![s] = n + d], setup.price)
    BY <1>2, <1>3, <1>6, <1>7, <2>2, ClosingKeeps DEF n
  <2> QED
    BY <2>5, <2>6
<1> QED
  BY <1>9, <1>10


LEMMA SendKeeps ==
  ASSUME Inv, Send
  PROVE  Inv'
<1>1. /\ scan.at = "gate" /\ Submit(scan.symbol, scan.delta, FALSE)
      /\ orders < MaxOrders /\ orders' = orders + 1 /\ scan' = [scan EXCEPT !.at = "sent"]
      /\ UNCHANGED <<setup, now, stored, last, api, requests, faults, disturbed>>
  BY DEF Send, At
<1>2. /\ scan' \in Scans(Symbols) /\ scan'.at = "sent" /\ scan'.view = scan.view
      /\ scan.delta \in Int /\ scan.symbol \in Symbols
  BY <1>1 DEF Inv, TypeInv, OrderInv, Scans
<1>3. /\ held' \in [Symbols -> Int] /\ working' \in [Symbols -> Int]
      /\ trades' \in Seq([day : Int, gain : Int]) /\ DOMAIN trades \subseteq DOMAIN trades'
      /\ setup.broker.fillsAtOnce => working' = working
  BY <1>1, <1>2, SubmitFacts DEF Inv
<1>4. Symbols' = Symbols
  BY <1>1 DEF Symbols
<1>5. orders' \in 0..MaxOrders
  BY <1>1, Constants DEF Inv, TypeInv
<1>6. TypeInv'
  BY <1>1, <1>2, <1>3, <1>4, <1>5 DEF Inv, TypeInv
<1>7. WorkInv'
  BY <1>1, <1>3, <1>4 DEF Inv, WorkInv
<1>8. KnownInv'
  BY <1>1, <1>2, <1>3 DEF Inv, KnownInv
<1>9. OrderInv'
  BY <1>2 DEF OrderInv
<1>10. AloneInv'
  BY <1>1 DEF Inv, AloneInv
<1>11. CopyInv'
  BY <1>1, <1>2 DEF Inv, AloneInv, CopyInv
<1>12. LimitsHold'
  BY <1>1, SendDoes DEF LimitsHold
<1> QED
  BY <1>6, <1>7, <1>8, <1>9, <1>10, <1>11, <1>12 DEF Inv

LEMMA RecordKeeps ==
  ASSUME Inv, Record
  PROVE  Inv'
<1>1. /\ scan.at = "sent" /\ Saved(Reconciled) /\ scan' = Resting
      /\ UNCHANGED <<setup, now, held, working, trades, last, api, orders, requests, faults,
                     disturbed>>
  BY DEF Record, Rest, books, At
<1>2. /\ stored' \in View(Symbols)
      /\ stored'.pos = held /\ stored'.at # Never
      /\ stored'.known \subseteq DOMAIN trades
      /\ setup.broker.reports => DOMAIN trades \subseteq stored'.known
  BY <1>1, SavedFacts, ReconciledFacts DEF Inv, KnownInv, Mirrors
<1>3. Symbols' = Symbols
  BY <1>1 DEF Symbols
<1>4. TypeInv'
  BY <1>1, <1>2, <1>3, RestingFacts DEF Inv, TypeInv
<1>5. WorkInv'
  BY <1>1, <1>3 DEF Inv, WorkInv
<1>6. KnownInv'
  BY <1>1, <1>2, RestingFacts, NoViewFacts DEF Inv, KnownInv
<1>7. OrderInv' /\ AloneInv'
  BY <1>1, RestingFacts DEF OrderInv, AloneInv
<1>8. CopyInv'
  BY <1>1, <1>2, RestingFacts DEF Inv, AloneInv, CopyInv, Mirrors
<1>9. LimitsHold'
  BY <1>1 DEF Inv, LimitsHold
<1> QED
  BY <1>4, <1>5, <1>6, <1>7, <1>8, <1>9 DEF Inv

LEMMA EndKeeps ==
  ASSUME Inv, StandBy \/ Hold \/ Refuse \/ Raise
  PROVE  Inv'
<1>1. /\ Still /\ Rest /\ UNCHANGED <<now, last, api, orders, requests>>
      /\ (UNCHANGED <<faults, disturbed>> /\ scan.at # "sent")
           \/ /\ faults < MaxFaults /\ faults' = faults + 1
              /\ disturbed' = (disturbed \/ scan.at = "sent")
  BY DEF StandBy, Hold, Refuse, Raise, Still, books, At
<1>2. faults' \in 0..MaxFaults /\ disturbed' \in BOOLEAN
  <2>1. faults \in 0..MaxFaults /\ disturbed \in BOOLEAN /\ MaxFaults \in Nat
    BY Constants DEF Inv, TypeInv
  <2>2. faults < MaxFaults => faults + 1 \in 0..MaxFaults
    BY <2>1
  <2>3. (disturbed \/ scan.at = "sent") \in BOOLEAN
    OBVIOUS
  <2> QED
    BY <1>1, <2>1, <2>2, <2>3
<1>3. disturbed \/ scan.at = "sent" => disturbed'
  BY <1>1
<1> QED
  BY <1>1, <1>2, <1>3, RestKeeps

-----------------------------------------------------------------------------
(* Steps of the operator.                                                  *)

LEMMA RequestFacts ==
  ASSUME TypeInv, Request
  PROVE  /\ api.at = "rest" /\ requests' \in 0..MaxRequests
         /\ disturbed' \in BOOLEAN /\ (disturbed \/ scan.at # "rest" => disturbed')
<1>1. /\ api.at = "rest" /\ requests < MaxRequests /\ requests' = requests + 1
      /\ disturbed' = (disturbed \/ scan.at # "rest")
  BY DEF Request, At
<1>2. requests \in 0..MaxRequests /\ disturbed \in BOOLEAN /\ MaxRequests \in Nat
  BY Constants DEF TypeInv
<1>3. requests' \in 0..MaxRequests
  BY <1>1, <1>2
<1>4. (disturbed \/ scan.at # "rest") \in BOOLEAN
  OBVIOUS
<1> QED
  BY <1>1, <1>3, <1>4

\* The operator closes what the store shows, and there is such a position.
LEMMA CloseDoes ==
  ASSUME Inv, NEW s \in Symbols, ClosePosition(s), ~disturbed', setup.broker.fillsAtOnce,
         setup.broker.opens
  PROVE  WithinLimits(setup.market, setup.profile, setup.equity, held', setup.price)
<1> DEFINE n == held[s]
<1>1. /\ ~disturbed /\ scan.at = "rest" /\ api.at = "rest"
      /\ stored.pos[s] # 0 /\ Submit(s, -stored.pos[s], TRUE)
  BY RequestFacts DEF Inv, ClosePosition
<1>2. Mirrors(stored)
  BY <1>1 DEF Inv, CopyInv
<1>3. TypeInv /\ stored.pos[s] = n /\ n \in Int /\ -n \in Int /\ n # 0
      /\ held \in [Symbols -> Int]
  BY <1>1, <1>2 DEF Inv, TypeInv, Mirrors
<1>4. held' = [held EXCEPT ![s] = @ + Does(s, -n, TRUE)]
  BY <1>1, <1>3, SubmitFacts
<1>5. Reduces(held, s, -n)
  BY <1>3 DEF Reduces
<1>6. Magnitude(-n) <= Magnitude(n)
  <2> HIDE DEF n
  <2> QED
    BY <1>3, Magnitudes
<1>7. Does(s, -n, TRUE) = -n
  BY <1>3, <1>5, <1>6, DoesReduce
<1>8. held' = [held EXCEPT ![s] = 0]
  <2>1. held[s] + (-n) = 0
    BY <1>3
  <2> QED
    BY <1>4, <1>7, <2>1
<1>9. /\ setup.market \in Markets /\ setup.profile \in Profiles /\ IsFiniteSet(Symbols)
      /\ setup.price \in [Symbols -> Nat \ {0}] /\ setup.equity \in Nat
  BY <1>3, SetupFacts DEF TypeInv
<1>10. WithinLimits(setup.market, setup.profile, setup.equity, held, setup.price)
  BY <1>1 DEF Inv, LimitsHold
<1>11. WithinLimits(setup.market, setup.profile, setup.equity, [held EXCEPT ![s] = 0], setup.price)
  <2>1. /\ 0 \in Int /\ 0 = 0
    OBVIOUS
  <2> QED
    BY <1>3, <1>9, <1>10, <2>1, ClosingKeeps
<1> QED
  BY <1>8, <1>11

LEMMA CloseKeeps ==
  ASSUME Inv, NEW s \in Symbols, ClosePosition(s)
  PROVE  Inv'
<1>1. /\ Submit(s, -stored.pos[s], TRUE)
      /\ api' = [api EXCEPT !.at = IF setup.broker.fillsAtOnce THEN "closed" ELSE "rest"]
      /\ UNCHANGED <<setup, now, stored, last, scan, orders, faults>>
  BY DEF ClosePosition
<1>2. /\ api.at = "rest" /\ requests' \in 0..MaxRequests
      /\ disturbed' \in BOOLEAN /\ (disturbed \/ scan.at # "rest" => disturbed')
  BY RequestFacts DEF Inv, ClosePosition
<1>3. /\ api' \in Requests(Symbols) /\ api'.view = api.view
      /\ api'.at = IF setup.broker.fillsAtOnce THEN "closed" ELSE "rest"
  BY <1>1 DEF Inv, TypeInv, Requests
<1>4. stored.pos[s] \in Int /\ -stored.pos[s] \in Int
  BY DEF Inv, TypeInv, View
<1>5. /\ held' \in [Symbols -> Int] /\ working' \in [Symbols -> Int]
      /\ trades' \in Seq([day : Int, gain : Int]) /\ DOMAIN trades \subseteq DOMAIN trades'
      /\ setup.broker.fillsAtOnce => working' = working
  BY <1>1, <1>4, SubmitFacts DEF Inv
<1>6. Symbols' = Symbols
  BY <1>1 DEF Symbols
<1>7. TypeInv'
  BY <1>1, <1>2, <1>3, <1>5, <1>6 DEF Inv, TypeInv
<1>8. WorkInv'
  BY <1>1, <1>5, <1>6 DEF Inv, WorkInv
<1>9. KnownInv'
  BY <1>1, <1>3, <1>5 DEF Inv, KnownInv
<1>10. OrderInv'
  BY <1>1, <1>6 DEF Inv, OrderInv, Lot
<1>11. AloneInv'
  BY <1>1, <1>2 DEF AloneInv
<1>12. CopyInv'
  BY <1>1, <1>2, <1>3 DEF CopyInv
<1>13. LimitsHold'
  BY <1>1, CloseDoes DEF LimitsHold
<1> QED
  BY <1>7, <1>8, <1>9, <1>10, <1>11, <1>12, <1>13 DEF Inv

\* The request saves a portfolio that is, or mirrors, what the broker has.
LEMMA SaveKeeps ==
  ASSUME Inv, NEW view \in View(Symbols), Saved(view), api.at # "rest", api' = Idle,
         UNCHANGED <<setup, now, held, working, trades, last, scan, orders, requests, faults,
                     disturbed>>,
         view.known \subseteq DOMAIN trades,
         ~disturbed /\ setup.broker.fillsAtOnce => view.at # Never /\ Mirrors(view)
  PROVE  Inv'
<1>1. /\ stored' \in View(Symbols)
      /\ stored'.pos = view.pos /\ stored'.at = view.at
      /\ stored'.known = view.known \cup stored.known
  BY SavedFacts DEF Inv
<1>2. Symbols' = Symbols
  BY DEF Symbols
<1>3. TypeInv'
  BY <1>1, <1>2, RestingFacts DEF Inv, TypeInv
<1>4. WorkInv'
  BY <1>2 DEF Inv, WorkInv
<1>5. KnownInv'
  BY <1>1, RestingFacts, NoViewFacts DEF Inv, KnownInv
<1>6. OrderInv'
  BY <1>2 DEF Inv, OrderInv, Lot
<1>7. AloneInv'
  BY RestingFacts DEF AloneInv
<1>8. CopyInv'
  <2>1. SUFFICES ASSUME ~disturbed, setup.broker.fillsAtOnce
                 PROVE  /\ scan.at = "rest" /\ stored'.at # Never
                        /\ stored'.pos = held
                        /\ setup.broker.reports => DOMAIN trades \subseteq stored'.known
    BY RestingFacts DEF CopyInv, Mirrors
  <2> QED
    BY <1>1, <2>1 DEF Inv, AloneInv, Mirrors
<1>9. LimitsHold'
  BY DEF Inv, LimitsHold
<1> QED
  BY <1>3, <1>4, <1>5, <1>6, <1>7, <1>8, <1>9 DEF Inv

LEMMA RecordCloseKeeps ==
  ASSUME Inv, RecordClose
  PROVE  Inv'
<1> DEFINE made == IF trades = <<>> THEN {} ELSE {Len(trades)}
           view == [Reconciled EXCEPT !.known = @ \cup made]
<1>1. /\ api.at # "rest" /\ Saved(view) /\ api' = Idle
      /\ UNCHANGED <<setup, now, held, working, trades, last, scan, orders, requests, faults,
                     disturbed>>
  BY DEF RecordClose, books
<1>2. made \subseteq DOMAIN trades /\ made \subseteq Nat
  BY DEF Inv, TypeInv
<1> HIDE DEF made
<1>3. /\ view \in View(Symbols) /\ view.at # Never /\ view.pos = held
      /\ view.known = Reconciled.known \cup made
  BY <1>2, ReconciledFacts DEF Inv, View
<1> HIDE DEF view
<1>4. view.known \subseteq DOMAIN trades /\ Mirrors(view)
  BY <1>2, <1>3, ReconciledFacts DEF Inv, Mirrors
<1> QED
  BY <1>1, <1>3, <1>4, SaveKeeps

LEMMA SynchroniseKeeps ==
  ASSUME Inv, Synchronise
  PROVE  Inv'
<1>1. /\ api' = [at |-> "reconciled", view |-> Reconciled]
      /\ UNCHANGED <<setup, now, held, working, trades, stored, last, scan, orders, faults>>
  BY DEF Synchronise, books
<1>2. /\ api.at = "rest" /\ requests' \in 0..MaxRequests
      /\ disturbed' \in BOOLEAN /\ (disturbed \/ scan.at # "rest" => disturbed')
  BY RequestFacts DEF Inv, Synchronise
<1>3. /\ api' \in Requests(Symbols) /\ api'.at = "reconciled"
      /\ api'.view.at # Never /\ api'.view.pos = held
      /\ api'.view.known \subseteq DOMAIN trades
      /\ setup.broker.reports => DOMAIN trades \subseteq api'.view.known
  BY <1>1, ReconciledFacts DEF Inv, Requests, Mirrors
<1>4. Symbols' = Symbols
  BY <1>1 DEF Symbols
<1>5. TypeInv'
  BY <1>1, <1>2, <1>3, <1>4 DEF Inv, TypeInv
<1>6. WorkInv'
  BY <1>1, <1>4 DEF Inv, WorkInv
<1>7. KnownInv'
  BY <1>1, <1>3 DEF Inv, KnownInv
<1>8. OrderInv'
  BY <1>1, <1>4 DEF Inv, OrderInv, Lot
<1>9. AloneInv'
  BY <1>1, <1>2 DEF AloneInv
<1>10. CopyInv'
  BY <1>1, <1>2, <1>3, <1>4 DEF Inv, CopyInv, Mirrors
<1>11. LimitsHold'
  BY <1>1, <1>2 DEF Inv, LimitsHold
<1> QED
  BY <1>5, <1>6, <1>7, <1>8, <1>9, <1>10, <1>11 DEF Inv

LEMMA SaveSynchronisedKeeps ==
  ASSUME Inv, SaveSynchronised
  PROVE  Inv'
<1>1. /\ api.at = "reconciled" /\ Saved(api.view) /\ api' = Idle
      /\ UNCHANGED <<setup, now, held, working, trades, last, scan, orders, requests, faults,
                     disturbed>>
  BY DEF SaveSynchronised, books
<1>2. api.view \in View(Symbols) /\ api.view.known \subseteq DOMAIN trades
  BY DEF Inv, TypeInv, KnownInv, Requests
<1>3. ~disturbed /\ setup.broker.fillsAtOnce => api.view.at # Never /\ Mirrors(api.view)
  BY <1>1 DEF Inv, CopyInv
<1> QED
  BY <1>1, <1>2, <1>3, SaveKeeps

-----------------------------------------------------------------------------
(* Fills, time, crashes.                                                   *)

LEMMA FillKeeps ==
  ASSUME Inv, NEW s \in Symbols, Fill(s)
  PROVE  Inv'
<1>1. /\ working[s] # 0 /\ Execute(s, working[s]) /\ working' = [working EXCEPT ![s] = 0]
      /\ UNCHANGED <<setup, now, stored, last, scan, api, orders, requests, faults, disturbed>>
  BY DEF Fill
<1>2. ~setup.broker.fillsAtOnce
  BY <1>1 DEF Inv, WorkInv
<1>3. working[s] \in Int /\ working' \in [Symbols -> Int]
  BY <1>1 DEF Inv, TypeInv
<1>4. /\ held' \in [Symbols -> Int]
      /\ trades' \in Seq([day : Int, gain : Int]) /\ DOMAIN trades \subseteq DOMAIN trades'
  BY <1>1, <1>3, ExecuteFacts DEF Inv
<1>5. Symbols' = Symbols
  BY <1>1 DEF Symbols
<1>6. TypeInv'
  BY <1>1, <1>3, <1>4, <1>5 DEF Inv, TypeInv
<1>7. WorkInv' /\ CopyInv' /\ LimitsHold'
  BY <1>1, <1>2 DEF WorkInv, CopyInv, LimitsHold
<1>8. KnownInv'
  BY <1>1, <1>4 DEF Inv, KnownInv
<1>9. OrderInv' /\ AloneInv'
  BY <1>1, <1>5 DEF Inv, OrderInv, AloneInv, Lot
<1> QED
  BY <1>6, <1>7, <1>8, <1>9 DEF Inv

LEMMA TickKeeps ==
  ASSUME Inv, Tick
  PROVE  Inv'
<1>1. /\ now < Len(Moments) /\ now' = now + 1
      /\ UNCHANGED <<setup, held, working, trades, stored, last, scan, api, orders, requests,
                     faults, disturbed>>
  BY DEF Tick, books
<1>2. now' \in 1..Len(Moments)
  BY <1>1, Constants DEF Inv, TypeInv
<1>3. Symbols' = Symbols
  BY <1>1 DEF Symbols
<1>4. TypeInv'
  BY <1>1, <1>2, <1>3 DEF Inv, TypeInv
<1>5. WorkInv' /\ KnownInv' /\ AloneInv' /\ LimitsHold'
  BY <1>1, <1>3 DEF Inv, WorkInv, KnownInv, AloneInv, LimitsHold
<1>6. OrderInv'
  BY <1>1, <1>3 DEF Inv, OrderInv, Lot
<1>7. CopyInv'
  BY <1>1, <1>3 DEF Inv, CopyInv, Mirrors
<1> QED
  BY <1>4, <1>5, <1>6, <1>7 DEF Inv

LEMMA CrashKeeps ==
  ASSUME Inv, Crash
  PROVE  Inv'
<1>1. /\ Still /\ scan' = Resting /\ api' = Idle /\ faults < MaxFaults /\ faults' = faults + 1
      /\ last' = [s \in Symbols |-> Never]
      /\ disturbed' = (disturbed \/ scan.at = "sent" \/ api.at = "closed")
      /\ UNCHANGED <<now, orders, requests>>
  BY DEF Crash, Rest, Still, books, At
<1>2. faults' \in 0..MaxFaults /\ disturbed' \in BOOLEAN
  <2>1. faults \in 0..MaxFaults /\ disturbed \in BOOLEAN /\ MaxFaults \in Nat
    BY Constants DEF Inv, TypeInv
  <2> QED
    BY <1>1, <2>1
<1>3. last' \in [Symbols -> Int]
  BY <1>1 DEF Never
<1>4. Symbols' = Symbols
  BY <1>1 DEF Still, Symbols
<1>5. TypeInv'
  BY <1>1, <1>2, <1>3, <1>4, RestingFacts DEF Inv, TypeInv, Still
<1>6. WorkInv'
  BY <1>1, <1>4 DEF Inv, WorkInv, Still
<1>7. KnownInv'
  BY <1>1, RestingFacts, NoViewFacts DEF Inv, KnownInv, Still
<1>8. OrderInv' /\ AloneInv'
  BY <1>1, RestingFacts DEF OrderInv, AloneInv
<1>9. CopyInv'
  BY <1>1, <1>4, RestingFacts DEF Inv, CopyInv, Mirrors, Still
<1>10. LimitsHold'
  BY <1>1 DEF Inv, LimitsHold, Still
<1> QED
  BY <1>5, <1>6, <1>7, <1>8, <1>9, <1>10 DEF Inv

-----------------------------------------------------------------------------
(* The theorems.                                                           *)

LEMMA InitKeeps ==
  ASSUME Init
  PROVE  Inv
<1>1. /\ setup \in Setups /\ now = 1 /\ held = setup.seed
      /\ working = [s \in Symbols |-> 0] /\ trades = <<>> /\ stored = NoView
      /\ last = [s \in Symbols |-> Never] /\ scan = Resting /\ api = Idle
      /\ orders = 0 /\ requests = 0 /\ faults = 0 /\ disturbed = FALSE
  BY DEF Init
<1>2. held \in [Symbols -> Int] /\ working \in [Symbols -> Int] /\ last \in [Symbols -> Int]
  BY <1>1, SetupFacts DEF Never
<1>3. TypeInv
  <2>1. /\ now \in 1..Len(Moments) /\ orders \in 0..MaxOrders /\ requests \in 0..MaxRequests
        /\ faults \in 0..MaxFaults
    BY <1>1, Constants
  <2>2. trades \in Seq([day : Int, gain : Int])
    BY <1>1
  <2>3. stored \in View(Symbols) /\ scan \in Scans(Symbols) /\ api \in Requests(Symbols)
    BY <1>1, RestingFacts, NoViewFacts
  <2> QED
    BY <1>1, <1>2, <2>1, <2>2, <2>3 DEF TypeInv
<1>4. WorkInv
  BY <1>1 DEF WorkInv
<1>5. KnownInv /\ OrderInv /\ AloneInv
  BY <1>1, RestingFacts, NoViewFacts DEF KnownInv, OrderInv, AloneInv
<1>6. CopyInv
  BY <1>1, RestingFacts, NoViewFacts DEF CopyInv
<1>7. LimitsHold
  BY <1>1, SetupFacts DEF LimitsHold
<1> QED
  BY <1>3, <1>4, <1>5, <1>6, <1>7 DEF Inv

LEMMA NextKeeps ==
  ASSUME Inv, [Next]_vars
  PROVE  Inv'
<1>1. CASE BeginScan
  BY <1>1, BeginKeeps
<1>2. CASE StandBy \/ Hold \/ Refuse \/ Raise
  BY <1>2, EndKeeps
<1>3. CASE TakePortfolio
  BY <1>3, TakeKeeps
<1>4. ASSUME NEW s \in Symbols, Entry(s) PROVE Inv'
  BY <1>4, EntryKeeps
<1>5. ASSUME NEW s \in Symbols, Exit(s) PROVE Inv'
  BY <1>5, ExitKeeps
<1>6. CASE Send
  BY <1>6, SendKeeps
<1>7. CASE Record
  BY <1>7, RecordKeeps
<1>8. ASSUME NEW s \in Symbols, ClosePosition(s) PROVE Inv'
  BY <1>8, CloseKeeps
<1>9. CASE RecordClose
  BY <1>9, RecordCloseKeeps
<1>10. CASE Synchronise
  BY <1>10, SynchroniseKeeps
<1>11. CASE SaveSynchronised
  BY <1>11, SaveSynchronisedKeeps
<1>12. CASE Tick
  BY <1>12, TickKeeps
<1>13. CASE Crash
  BY <1>13, CrashKeeps
<1>14. ASSUME NEW s \in Symbols, Fill(s) PROVE Inv'
  BY <1>14, FillKeeps
<1>15. CASE UNCHANGED vars
  BY <1>15 DEF vars, books, Inv, TypeInv, WorkInv, KnownInv, OrderInv, AloneInv, CopyInv, LimitsHold,
               Mirrors, Symbols, Lot
<1> QED
  BY <1>1, <1>2, <1>3, <1>4, <1>5, <1>6, <1>7, <1>8, <1>9, <1>10, <1>11, <1>12, <1>13, <1>14,
     <1>15 DEF Next, Scan, Serve

LEMMA InvHolds == Spec => []Inv
BY InitKeeps, NextKeeps, PTL DEF Spec

\* With a broker that fills at once, and unless a request ran beside a scan or a
\* scan was cut off after its order, the positions stay within the controls'
\* limits on their number, worth and shared factors, and none outgrows an order.
THEOREM LimitsAreKept == Spec => []LimitsHold
<1>1. Inv => LimitsHold
  BY DEF Inv
<1> QED
  BY <1>1, InvHolds, PTL

\* Only Send sends an order of the scanner.
LEMMA OrdersAreSent ==
  ASSUME [Next]_vars, orders' # orders
  PROVE  Send
BY DEF Next, Scan, Serve, BeginScan, StandBy, TakePortfolio, Hold, Refuse, Record, Raise, Entry, Exit,
       Signal, ClosePosition, RecordClose, Synchronise, SaveSynchronised, Tick, Crash, Fill, vars

LEMMA SentUnbraked ==
  ASSUME Inv, Send, setup.broker.reports, ~disturbed
  PROVE  ~Braked(setup.profile, setup.equity, TodaysResult)
<1>1. scan.at = "gate" /\ Accepted
  BY DEF Send, At
<1>2. setup.broker.fillsAtOnce
  BY SetupFacts DEF Inv, TypeInv
<1>3. scan.view.known = DOMAIN trades
  BY <1>1, <1>2 DEF Inv, KnownInv, CopyInv, Mirrors
<1>4. RealisedInView = TodaysResult
  BY <1>3 DEF RealisedInView, TodaysResult
<1> QED
  BY <1>1, <1>4 DEF Accepted, ControlsAccept

\* With a broker that reports its trades, and with the same exceptions, no order
\* leaves once the day's losses reach what the profile allows.
THEOREM BrakeIsKept == Spec => BrakeHolds
<1>1. ASSUME Inv, [Next]_vars
      PROVE  [orders' # orders /\ setup.broker.reports /\ ~disturbed
                => ~Braked(setup.profile, setup.equity, TodaysResult)]_vars
  BY <1>1, OrdersAreSent, SentUnbraked
<1> QED
  BY <1>1, InvHolds, PTL DEF Spec, BrakeHolds
=============================================================================
