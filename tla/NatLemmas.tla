----------------------------- MODULE NatLemmas -----------------------------
(***************************************************************************)
(* Induction over natural numbers in the form in which it can be cited:    *)
(* a set of natural numbers that is not empty has a least element.  From   *)
(* it, recursion and induction over the parts of trees.                    *)
(***************************************************************************)
EXTENDS Integers, WellFoundedInduction, TLAPS

(* Every set of natural numbers has a least element. It stands for the     *)
(* inductions over the levels of a copy and over the buffers of a chain.   *)
LEMMA LeastNatural ==
  ASSUME NEW T, T \subseteq Nat, T # {}
  PROVE  \E x \in T : \A y \in T : x <= y
<1> DEFINE R == {ss \in Nat \X Nat : ss[1] < ss[2]}
<1>1. IsWellFoundedOn(R, Nat)
  BY NatLessThanWellFounded DEF OpToRel
<1>2. \E x \in T : \A y \in T : <<y, x>> \notin R
  <2> HIDE DEF R
  <2> QED
    BY <1>1, WFMin, Zenon
<1>3. ASSUME NEW x \in Nat, NEW y \in Nat, <<y, x>> \notin R
      PROVE  x <= y
  <2>1. <<y, x>> \in Nat \X Nat
    OBVIOUS
  <2>2. ~(y < x)
    BY <1>3, <2>1
  <2> QED
    BY <2>2
<1> HIDE DEF R
<1> QED
  BY <1>2, <1>3

(* What f makes of each element of a sequence. *)
Each(f, seq) == [i \in DOMAIN seq |-> f[seq[i]]]

(* The parts of an argument are lower than the whole, and Body[e][s] is a  *)
(* value for e when s has values for its parts.                            *)
Below(E, h, parts) ==
    /\ h \in [E -> Nat]
    /\ \A e \in E : \A i \in DOMAIN parts[e] : parts[e][i] \in E /\ h[parts[e][i]] < h[e]
Bodies(E, parts, W, Body) ==
    W # {} /\ \A e \in E : \A s \in [DOMAIN parts[e] -> W] : Body[e][s] \in W

(* A function may then be defined by recursion over the parts.             *)
LEMMA TreeRecursion ==
  ASSUME NEW E, NEW h, NEW parts, Below(E, h, parts),
         NEW W, NEW Body, Bodies(E, parts, W, Body)
  PROVE  \E f \in [E -> W] : \A e \in E : f[e] = Body[e][Each(f, parts[e])]
<1> USE DEF Below, Bodies
<1> DEFINE Value(f, e) == Body[e][Each(f, parts[e])]
           Upto(f, n) == f \in [E -> W] /\ \A e \in E : h[e] < n => f[e] = Value(f, e)
           T == {n \in Nat : ~ \E f : Upto(f, n)}
<1>1. ASSUME NEW f \in [E -> W], NEW e \in E PROVE Value(f, e) \in W
  <2>1. Each(f, parts[e]) \in [DOMAIN parts[e] -> W]
    BY DEF Each
  <2> QED
    BY <2>1
<1>2. ASSUME NEW f, NEW g, NEW e \in E, \A d \in E : h[d] < h[e] => f[d] = g[d]
      PROVE  Value(f, e) = Value(g, e)
  <2>1. \A i \in DOMAIN parts[e] : f[parts[e][i]] = g[parts[e][i]]
    BY <1>2
  <2>2. Each(f, parts[e]) = Each(g, parts[e])
    BY <2>1 DEF Each
  <2> QED
    BY <2>2
<1>3. \A f, e : Value(f, e) = Body[e][Each(f, parts[e])]
  OBVIOUS
<1> HIDE DEF Value
<1>4. \A n \in Nat : \E f : Upto(f, n)
  <2> SUFFICES ASSUME T # {} PROVE FALSE
    OBVIOUS
  <2>1. PICK n \in T : \A m \in T : n <= m
    <3>1. T \subseteq Nat
      OBVIOUS
    <3> HIDE DEF T
    <3> QED
      BY <3>1, LeastNatural
  <2>2. n # 0
    <3>1. PICK w \in W : TRUE
      OBVIOUS
    <3>2. Upto([e \in E |-> w], 0)
      OBVIOUS
    <3> QED
      BY <3>2
  <2>3. PICK f : Upto(f, n - 1)
    BY <2>1, <2>2
  <2>4. PICK g : g = [e \in E |-> IF h[e] < n - 1 THEN f[e] ELSE Value(f, e)]
    OBVIOUS
  <2>5. g \in [E -> W]
    BY <1>1, <2>3, <2>4
  <2>6. ASSUME NEW e \in E, h[e] < n PROVE g[e] = Value(g, e)
    <3>1. \A d \in E : h[d] < h[e] => g[d] = f[d]
      BY <2>1, <2>4, <2>6
    <3>2. Value(g, e) = Value(f, e)
      BY <1>2, <3>1
    <3> QED
      BY <2>3, <2>4, <3>2
  <2>7. Upto(g, n)
    BY <2>5, <2>6
  <2> QED
    BY <2>1, <2>7
<1>5. ASSUME NEW n \in Nat, NEW m \in Nat, NEW f, NEW g, Upto(f, n), Upto(g, m), NEW d \in E, h[d] < n, h[d] < m
      PROVE  f[d] = g[d]
  <2> DEFINE S == {h[e] : e \in {x \in E : h[x] < n /\ h[x] < m /\ f[x] # g[x]}}
  <2> SUFFICES ASSUME f[d] # g[d] PROVE FALSE
    OBVIOUS
  <2>1. S \subseteq Nat /\ h[d] \in S
    BY <1>5
  <2>2. PICK k \in S : \A l \in S : k <= l
    <3> HIDE DEF S
    <3> QED
      BY <2>1, LeastNatural
  <2>3. PICK e \in E : h[e] = k /\ h[e] < n /\ h[e] < m /\ f[e] # g[e]
    BY <2>2
  <2>4. \A x \in E : h[x] < h[e] => f[x] = g[x]
    <3> SUFFICES ASSUME NEW x \in E, h[x] < h[e], f[x] # g[x] PROVE FALSE
      OBVIOUS
    <3>1. h[x] \in S
      BY <2>3
    <3>2. h[x] \in Nat /\ h[e] \in Nat /\ h[e] <= h[x]
      <4> HIDE DEF S
      <4> QED
        BY <2>2, <2>3, <3>1
    <3> QED
      BY <3>2
  <2>5. Value(f, e) = Value(g, e)
    BY <1>2, <2>4
  <2> QED
    BY <1>5, <2>3, <2>5
<1>6. PICK F : F = [n \in Nat |-> CHOOSE f : Upto(f, n)]
  OBVIOUS
<1>7. \A n \in Nat : Upto(F[n], n)
  BY <1>4, <1>6
<1>8. PICK f : f = [e \in E |-> F[h[e] + 1][e]]
  OBVIOUS
<1>9. f \in [E -> W]
  BY <1>7, <1>8
<1>10. ASSUME NEW e \in E PROVE f[e] = Value(f, e)
  <2>1. PICK n \in Nat : n = h[e] + 1
    OBVIOUS
  <2>2. Upto(F[n], n) /\ h[e] < n /\ f[e] = F[n][e]
    BY <1>7, <1>8, <2>1
  <2>3. ASSUME NEW d \in E, h[d] < h[e] PROVE f[d] = F[n][d]
    <3>1. PICK m \in Nat : m = h[d] + 1
      OBVIOUS
    <3>2. Upto(F[m], m) /\ h[d] < m /\ h[d] < n /\ f[d] = F[m][d]
      BY <1>7, <1>8, <2>1, <2>3, <3>1
    <3> HIDE DEF Upto
    <3> QED
      BY <1>5, <2>2, <3>2
  <2>4. Value(f, e) = Value(F[n], e)
    BY <1>2, <2>3
  <2> QED
    BY <2>2, <2>4
<1> QED
  BY <1>3, <1>9, <1>10

(* What holds of every argument whose parts it holds of, holds of all.     *)
Inherited(E, parts, S) ==
    \A e \in E : (\A i \in DOMAIN parts[e] : parts[e][i] \in S) => e \in S

LEMMA TreeInduction ==
  ASSUME NEW E, NEW h, NEW parts, Below(E, h, parts), NEW S, Inherited(E, parts, S)
  PROVE  E \subseteq S
<1> USE DEF Below, Inherited
<1> DEFINE T == {h[e] : e \in {x \in E : x \notin S}}
<1> SUFFICES ASSUME T # {} PROVE FALSE
  OBVIOUS
<1>1. PICK k \in T : \A l \in T : k <= l
  <2>1. T \subseteq Nat
    OBVIOUS
  <2> HIDE DEF T
  <2> QED
    BY <2>1, LeastNatural
<1>2. PICK e \in E : h[e] = k /\ e \notin S
  OBVIOUS
<1>3. ASSUME NEW i \in DOMAIN parts[e] PROVE parts[e][i] \in S
  <2> SUFFICES ASSUME parts[e][i] \notin S PROVE FALSE
    OBVIOUS
  <2>1. parts[e][i] \in E /\ h[parts[e][i]] < h[e]
    OBVIOUS
  <2>2. h[parts[e][i]] \in T
    BY <2>1
  <2>3. h[parts[e][i]] \in Nat /\ h[e] \in Nat /\ h[e] <= h[parts[e][i]]
    <3>1. h[parts[e][i]] \in Nat /\ h[e] \in Nat
      BY <2>1
    <3> HIDE DEF T
    <3> QED
      BY <1>1, <1>2, <2>2, <3>1
  <2> QED
    BY <2>1, <2>3
<1> QED
  BY <1>2, <1>3

(* The values of a function that obeys the recursion wherever the values   *)
(* for the parts are in W, are in W.                                       *)
Obeys(E, parts, W, Body, f) ==
    \A e \in E : Each(f, parts[e]) \in [DOMAIN parts[e] -> W] => f[e] = Body[e][Each(f, parts[e])]

LEMMA TreeValues ==
  ASSUME NEW E, NEW h, NEW parts, Below(E, h, parts),
         NEW W, NEW Body, Bodies(E, parts, W, Body), NEW f, Obeys(E, parts, W, Body, f)
  PROVE  \A e \in E : f[e] \in W
<1> DEFINE S == {e \in E : f[e] \in W}
<1>1. ASSUME NEW e \in E, \A i \in DOMAIN parts[e] : parts[e][i] \in S PROVE e \in S
  <2>1. Each(f, parts[e]) \in [DOMAIN parts[e] -> W]
    BY <1>1 DEF Each
  <2> QED
    BY <2>1 DEF Bodies, Obeys
<1>2. Inherited(E, parts, S)
  BY <1>1 DEF Inherited
<1>3. E \subseteq S
  <2> HIDE DEF S
  <2> QED
    BY <1>2, TreeInduction
<1> QED
  BY <1>3

=============================================================================
