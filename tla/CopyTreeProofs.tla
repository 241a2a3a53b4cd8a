--------------------------- MODULE CopyTreeProofs ---------------------------
(***************************************************************************)
(* For every number of outputs and every size of the leaves: the tree of   *)
(* leaves is a copy.  Every output gets the tokens of the input in their   *)
(* order, no leaf overtakes or falls more than one token behind, and the   *)
(* steps of the tree are steps of Multicast.                               *)
(*                                                                         *)
(* Each leaf owes its outputs at most one token (OwesOwn), and what a leaf *)
(* has taken the one above has sent it (Linked); so a leaf on level d is   *)
(* at most d tokens behind the input, and there are as many levels as      *)
(* Multicast has slots.                                                    *)
(***************************************************************************)
EXTENDS CopyTree, NatLemmas

-----------------------------------------------------------------------------
(* Arithmetic. *)

LEMMA Quotient ==
  ASSUME NEW w \in Nat
  PROVE  /\ w \div LeafSize \in Nat
         /\ LeafSize * (w \div LeafSize) <= w
         /\ w < LeafSize * (w \div LeafSize) + LeafSize
  BY SizesAssumption

LEMMA Multiples ==
  ASSUME NEW a \in Nat, NEW b \in Nat, a < b
  PROVE  LeafSize * a + LeafSize <= LeafSize * b
  BY SizesAssumption

(* Enough leaves for w outputs, and fewer than w when one is not enough. *)
LEMMA LeavesForFacts ==
  ASSUME NEW w \in Nat
  PROVE  /\ LeavesFor(w) \in Nat
         /\ w \div LeafSize <= LeavesFor(w)
         /\ LeavesFor(w) = w \div LeafSize => w = LeafSize * (w \div LeafSize)
         /\ LeavesFor(w) <= w \div LeafSize + 1
         /\ w > 0 => LeavesFor(w) > 0
         /\ w > LeafSize => LeavesFor(w) < w
<1> DEFINE m == w \div LeafSize
<1>1. m \in Nat /\ LeafSize * m \in Nat /\ LeafSize * m <= w /\ w < LeafSize * m + LeafSize
  BY Quotient, SizesAssumption
<1>2. LeavesFor(w) = IF w - m * LeafSize > 0 THEN m + 1 ELSE m
  BY DEF LeavesFor
<1>3. m * LeafSize = LeafSize * m
  BY <1>1, SizesAssumption
<1>4. 2 * m <= LeafSize * m
  BY <1>1, SizesAssumption
<1>5. m = 0 => LeafSize * m = 0
  BY <1>1, SizesAssumption
<1> HIDE DEF m
<1>6. /\ LeavesFor(w) \in Nat /\ m <= LeavesFor(w) /\ LeavesFor(w) <= m + 1
      /\ LeavesFor(w) = m => w = LeafSize * m
      /\ w > 0 => LeavesFor(w) > 0
      /\ w > LeafSize => LeavesFor(w) < w
  BY <1>1, <1>2, <1>3, <1>4, <1>5, SizesAssumption
<1> QED
  BY <1>6 DEF m

-----------------------------------------------------------------------------
(* The levels of the tree. *)

(* The recursion that defines Width has a solution. *)
LEMMA WidthDef ==
  \A l \in 0..N : /\ Width[l] \in Nat
                  /\ Width[l] = IF l = 0 THEN N ELSE LeavesFor(Width[l - 1])
<1> DEFINE Solves(f, n) ==
      f \in [0..n -> Nat] /\ \A l \in 0..n : f[l] = IF l = 0 THEN N ELSE LeavesFor(f[l - 1])
<1> DEFINE T == {n \in Nat : ~ \E f : Solves(f, n)}
<1>1. T = {}
  <2> SUFFICES ASSUME T # {} PROVE FALSE
    OBVIOUS
  <2>1. PICK n \in T : \A k \in T : n <= k
    <3>1. T \subseteq Nat
      OBVIOUS
    <3> HIDE DEF T
    <3> QED
      BY <3>1, LeastNatural, Zenon
  <2>2. n \in Nat /\ ~ \E f : Solves(f, n)
    OBVIOUS
  <2>3. n # 0
    <3>1. Solves([l \in 0..0 |-> N], 0)
      BY SizesAssumption
    <3> QED
      BY <2>2, <3>1
  <2>4. PICK f : Solves(f, n - 1)
    <3>1. n - 1 \in Nat /\ ~(n <= n - 1)
      BY <2>2, <2>3
    <3>2. n - 1 \notin T
      <4> HIDE DEF T
      <4> QED
        BY <2>1, <3>1
    <3> QED
      BY <3>1, <3>2
  <2> DEFINE g == [l \in 0..n |-> IF l = n THEN LeavesFor(f[n - 1]) ELSE f[l]]
  <2>5. f[n - 1] \in Nat
    BY <2>2, <2>3, <2>4
  <2>6. g \in [0..n -> Nat]
    <3>1. LeavesFor(f[n - 1]) \in Nat
      BY <2>5, LeavesForFacts
    <3>2. \A l \in 0..n : l # n => f[l] \in Nat
      BY <2>2, <2>4
    <3> QED
      BY <2>2, <3>1, <3>2
  <2>7. \A l \in 0..n : g[l] = IF l = 0 THEN N ELSE LeavesFor(g[l - 1])
    BY <2>2, <2>3, <2>4
  <2>8. Solves(g, n)
    BY <2>6, <2>7
  <2> QED
    BY <2>2, <2>8
<1>2. PICK f : Solves(f, N)
  BY <1>1, SizesAssumption
<1>3. f = [l \in 0..N |-> IF l = 0 THEN N ELSE LeavesFor(f[l - 1])]
  BY <1>2
<1>4. Width = [l \in 0..N |-> IF l = 0 THEN N ELSE LeavesFor(Width[l - 1])]
  BY <1>3, Zenon DEF Width
<1> DEFINE T2 == {l \in Nat : l \in 0..N /\ Width[l] \notin Nat}
<1>5. T2 = {}
  <2> SUFFICES ASSUME T2 # {} PROVE FALSE
    OBVIOUS
  <2>1. PICK n \in T2 : \A k \in T2 : n <= k
    <3>1. T2 \subseteq Nat
      OBVIOUS
    <3> HIDE DEF T2
    <3> QED
      BY <3>1, LeastNatural, Zenon
  <2>2. n \in 0..N /\ Width[n] \notin Nat
    OBVIOUS
  <2>3. n # 0
    BY <1>4, <2>2, SizesAssumption
  <2>4. n - 1 \in 0..N /\ Width[n - 1] \in Nat
    BY <2>1, <2>2, <2>3, SizesAssumption
  <2> QED
    BY <1>4, <2>2, <2>3, <2>4, LeavesForFacts
<1>6. \A l \in 0..N : Width[l] \in Nat
  BY <1>5
<1> HIDE DEF T, T2, Solves
<1>7. \A l \in 0..N : Width[l] = IF l = 0 THEN N ELSE LeavesFor(Width[l - 1])
  BY <1>4, Zenon
<1> QED
  BY <1>6, <1>7, Zenon

(* Above one leaf each level is narrower than the one below it.            *)
LEMMA Narrower ==
  ASSUME NEW l \in 1..N, Width[l - 1] > LeafSize
  PROVE  Width[l] < Width[l - 1]
<1>1. Width[l - 1] \in Nat /\ Width[l] = LeavesFor(Width[l - 1])
  BY WidthDef, SizesAssumption
<1> QED
  BY <1>1, LeavesForFacts

(* The recursion of copy ends: a level fits into one leaf. *)
LEMMA TopFacts ==
  /\ Top \in 0..N /\ Width[Top] <= LeafSize
  /\ \A k \in 0..(Top - 1) : Width[k] > LeafSize
<1> DEFINE T == {l \in 0..N : Width[l] <= LeafSize}
<1>1. T # {}
  <2> SUFFICES ASSUME T = {} PROVE FALSE
    OBVIOUS
  <2>1. \A l \in 0..N : Width[l] \in Nat /\ Width[l] > LeafSize
    BY WidthDef, SizesAssumption
  <2> DEFINE U == {l \in Nat : l \in 0..N /\ ~(Width[l] + l <= N)}
  <2>2. U = {}
    <3> SUFFICES ASSUME U # {} PROVE FALSE
      OBVIOUS
    <3>1. PICK n \in U : \A k \in U : n <= k
      <4>1. U \subseteq Nat
        OBVIOUS
      <4> HIDE DEF U
      <4> QED
        BY <4>1, LeastNatural, Zenon
    <3>2. n \in 0..N /\ ~(Width[n] + n <= N)
      OBVIOUS
    <3>3. n # 0
      BY <3>2, WidthDef, SizesAssumption
    <3>4. n - 1 \in 0..N /\ ~(n <= n - 1)
      BY <3>2, <3>3, SizesAssumption
    <3>5. n - 1 \notin U
      <4> HIDE DEF U
      <4> QED
        BY <3>1, <3>4
    <3>6. Width[n - 1] + (n - 1) <= N
      BY <3>4, <3>5
    <3>7. n \in 1..N /\ Width[n] \in Nat /\ Width[n - 1] \in Nat /\ Width[n - 1] > LeafSize
      BY <2>1, <3>2, <3>3, <3>4, SizesAssumption
    <3>8. Width[n] < Width[n - 1]
      BY <3>7, Narrower
    <3> QED
      BY <3>2, <3>6, <3>7, <3>8, SizesAssumption
  <2>3. N \in 0..N /\ N \notin U
    BY <2>2, SizesAssumption
  <2>4. Width[N] + N <= N
    BY <2>3, SizesAssumption
  <2> QED
    BY <2>1, <2>3, <2>4, SizesAssumption
<1>2. PICK t \in T : \A k \in T : t <= k
  <2>1. T \subseteq Nat
    OBVIOUS
  <2> HIDE DEF T
  <2> QED
    BY <1>1, <2>1, LeastNatural, Zenon
<1>3. t \in 0..N /\ Width[t] <= LeafSize
  OBVIOUS
<1>4. \A k \in 0..(t - 1) : Width[k] > LeafSize
  <2> SUFFICES ASSUME NEW k \in 0..(t - 1) PROVE Width[k] > LeafSize
    OBVIOUS
  <2>1. k \in 0..N /\ ~(t <= k)
    BY <1>3, SizesAssumption
  <2>2. k \notin T
    <3> HIDE DEF T
    <3> QED
      BY <1>2, <2>1
  <2> QED
    BY <2>1, <2>2, WidthDef, SizesAssumption
<1>5. \E l \in 0..N : Width[l] <= LeafSize /\ \A k \in 0..(l - 1) : Width[k] > LeafSize
  BY <1>3, <1>4
<1> QED
  BY <1>5, Zenon DEF Top

(* No level is wider than the copy. *)
LEMMA WidthBound ==
  \A l \in 0..Top : Width[l] \in 1..N
<1> DEFINE T == {l \in Nat : l \in 0..Top /\ Width[l] \notin 1..N}
<1>1. T = {}
  <2> SUFFICES ASSUME T # {} PROVE FALSE
    OBVIOUS
  <2>1. PICK n \in T : \A k \in T : n <= k
    <3>1. T \subseteq Nat
      OBVIOUS
    <3> HIDE DEF T
    <3> QED
      BY <3>1, LeastNatural, Zenon
  <2>2. n \in 0..Top /\ Width[n] \notin 1..N /\ Top \in 0..N
    BY TopFacts
  <2>3. n # 0
    BY <2>2, WidthDef, SizesAssumption
  <2>4. n - 1 \in 0..Top /\ n - 1 \in 0..(Top - 1) /\ n - 1 \in Nat /\ ~(n <= n - 1) /\ n \in 1..N
    BY <2>2, <2>3, SizesAssumption
  <2>5. n - 1 \notin T
    <3> HIDE DEF T
    <3> QED
      BY <2>1, <2>4
  <2>6. Width[n - 1] \in 1..N
    BY <2>4, <2>5
  <2>7. Width[n - 1] > LeafSize
    BY <2>4, TopFacts
  <2>8. Width[n] < Width[n - 1]
    BY <2>4, <2>7, Narrower
  <2>9. Width[n] = LeavesFor(Width[n - 1])
    BY <2>4, WidthDef, SizesAssumption
  <2>10. Width[n] \in Nat /\ Width[n] > 0
    BY <2>6, <2>9, LeavesForFacts
  <2>11. Width[n] \in 1..N
    BY <2>6, <2>8, <2>10, SizesAssumption
  <2> QED
    BY <2>2, <2>11
<1> QED
  BY <1>1, TopFacts

-----------------------------------------------------------------------------
(* The leaves and the outputs they drive. *)

LEMMA LeafFacts ==
  ASSUME NEW n \in Leaf
  PROVE  /\ n = <<n[1], n[2]>> /\ n[1] \in 0..Top /\ n[2] \in 0..N
         /\ n[1] \in Nat /\ n[2] \in Nat /\ Top \in Nat
         /\ n[1] = Top => n = Root /\ n[2] = 0
         /\ n[1] # Top => n[1] \in 0..(Top - 1) /\ n[2] < LeavesFor(Width[n[1]])
  BY TopFacts DEF Leaf, Root

LEMMA RootIsLeaf == Root \in Leaf /\ Root[1] = Top /\ Root[2] = 0
  BY TopFacts, SizesAssumption DEF Leaf, Root

LEMMA SliceWithin ==
  ASSUME NEW n \in Leaf
  PROVE  Slice(n[1], n[2]) \subseteq 0..(Width[n[1]] - 1)
<1> DEFINE w == Width[n[1]]
           m == w \div LeafSize
           k == n[2]
<1>1. w \in 1..N /\ w \in Nat /\ k \in Nat
  BY WidthBound, LeafFacts
<1>2. m \in Nat /\ LeafSize * m \in Nat /\ LeafSize * m <= w /\ m * LeafSize = LeafSize * m
  BY <1>1, Quotient, SizesAssumption
<1>3. k < m => LeafSize * k + LeafSize <= w /\ LeafSize * k \in Nat
  BY <1>1, <1>2, Multiples, SizesAssumption
<1>4. Slice(n[1], n[2]) =
        IF n[1] = Top THEN 0..(w - 1)
        ELSE IF k < m THEN (LeafSize * k)..(LeafSize * k + LeafSize - 1)
        ELSE (m * LeafSize)..(w - 1)
  BY DEF Slice
<1> HIDE DEF w, m, k
<1>5. Slice(n[1], n[2]) \subseteq 0..(w - 1)
  BY <1>1, <1>2, <1>3, <1>4, SizesAssumption
<1> QED
  BY <1>5 DEF w

(* The outputs of a leaf inside the tree are the inputs of leaves.         *)
LEMMA LeafBelow ==
  ASSUME NEW n \in Leaf, n[1] > 0, NEW i \in Slice(n[1], n[2])
  PROVE  <<n[1] - 1, i>> \in Leaf
<1>1. /\ n[1] \in 0..Top /\ Top \in 0..N /\ Width[n[1]] \in 1..N
      /\ i \in 0..(Width[n[1]] - 1)
  BY LeafFacts, SliceWithin, WidthBound, TopFacts
<1>2. n[1] - 1 \in 0..Top /\ n[1] - 1 # Top /\ n[1] \in 0..N /\ n[1] # 0
  BY <1>1, SizesAssumption
<1>3. Width[n[1]] = LeavesFor(Width[n[1] - 1])
  BY <1>2, WidthDef
<1>4. i \in 0..N /\ i < LeavesFor(Width[n[1] - 1])
  BY <1>1, <1>3, SizesAssumption
<1> QED
  BY <1>2, <1>4 DEF Leaf

(* Two leaves of one level drive different outputs. *)
LEMMA SlicesDisjoint ==
  ASSUME NEW n \in Leaf, NEW p \in Leaf, n[1] = p[1],
         NEW i \in Slice(n[1], n[2]), i \in Slice(p[1], p[2])
  PROVE  n = p
<1> DEFINE w == Width[n[1]]
           m == w \div LeafSize
           a == n[2]
           b == p[2]
<1>1. w \in 1..N /\ w \in Nat /\ a \in Nat /\ b \in Nat
  BY WidthBound, LeafFacts
<1>2. CASE n[1] = Top
  BY <1>2, LeafFacts
<1>3. CASE n[1] # Top
  <2>1. m \in Nat /\ LeafSize * m \in Nat /\ m * LeafSize = LeafSize * m
    BY <1>1, Quotient, SizesAssumption
  <2>2. a < LeavesFor(w) /\ b < LeavesFor(w) /\ LeavesFor(w) \in Nat /\ LeavesFor(w) <= m + 1
    BY <1>1, <1>3, LeafFacts, LeavesForFacts
  <2>3. /\ a < m => i \in (LeafSize * a)..(LeafSize * a + LeafSize - 1)
        /\ ~(a < m) => i \in (m * LeafSize)..(w - 1)
        /\ b < m => i \in (LeafSize * b)..(LeafSize * b + LeafSize - 1)
        /\ ~(b < m) => i \in (m * LeafSize)..(w - 1)
    BY <1>3 DEF Slice
  <2>4. LeafSize * a \in Nat /\ LeafSize * b \in Nat /\ LeafSize \in Nat
    BY <1>1, SizesAssumption
  <2>5. /\ a < b => LeafSize * a + LeafSize <= LeafSize * b
        /\ b < a => LeafSize * b + LeafSize <= LeafSize * a
        /\ a < m => LeafSize * a + LeafSize <= LeafSize * m
        /\ b < m => LeafSize * b + LeafSize <= LeafSize * m
    BY <1>1, <2>1, Multiples
  <2> HIDE DEF w, m, a, b
  <2>6. a = b
    BY <1>1, <2>1, <2>2, <2>3, <2>4, <2>5
  <2> QED
    BY <2>6, LeafFacts DEF a, b
<1> QED
  BY <1>2, <1>3

(* The leaves of a level drive all of its outputs. *)
LEMMA SlicesCover ==
  ASSUME NEW l \in 0..Top, NEW i \in 0..(Width[l] - 1)
  PROVE  \E n \in Leaf : n[1] = l /\ i \in Slice(l, n[2])
<1> DEFINE w == Width[l]
           m == w \div LeafSize
           k == i \div LeafSize
<1>1. l \in Nat /\ Top \in 0..N /\ w \in 1..N /\ w \in Nat /\ i \in Nat /\ i < w /\ w <= N
  BY WidthBound, TopFacts, SizesAssumption
<1>2. CASE l = Top
  <2>1. Root[1] = l /\ i \in Slice(l, Root[2])
    BY <1>2, RootIsLeaf DEF Slice
  <2> QED
    BY <2>1, RootIsLeaf
<1>3. CASE l # Top
  <2>1. /\ m \in Nat /\ LeafSize * m \in Nat /\ m * LeafSize = LeafSize * m
        /\ LeafSize * m <= w /\ w < LeafSize * m + LeafSize
    BY <1>1, Quotient, SizesAssumption
  <2>2. /\ k \in Nat /\ LeafSize * k \in Nat
        /\ LeafSize * k <= i /\ i < LeafSize * k + LeafSize
    BY <1>1, Quotient, SizesAssumption
  <2>3. LeavesFor(w) \in Nat /\ m <= LeavesFor(w) /\ (LeavesFor(w) = m => w = LeafSize * m)
    BY <1>1, LeavesForFacts
  <2>4. m < k => LeafSize * m + LeafSize <= LeafSize * k
    BY <2>1, <2>2, Multiples
  <2>5. w > LeafSize /\ LeavesFor(w) < w
    BY <1>1, <1>3, TopFacts, LeavesForFacts
  <2>6. Slice(l, k) = IF k < m THEN (LeafSize * k)..(LeafSize * k + LeafSize - 1)
                              ELSE (m * LeafSize)..(w - 1)
    BY <1>3 DEF Slice
  <2> HIDE DEF w, m, k
  <2>7. k <= m
    BY <1>1, <2>1, <2>2, <2>4, SizesAssumption
  <2>8. i \in Slice(l, k)
    <3>1. CASE k < m
      BY <1>1, <2>2, <2>6, <3>1, SizesAssumption
    <3>2. CASE k = m
      BY <1>1, <2>1, <2>2, <2>6, <3>2, SizesAssumption
    <3> QED
      BY <2>1, <2>2, <2>7, <3>1, <3>2
  <2>9. k < LeavesFor(w)
    BY <1>1, <2>1, <2>2, <2>3, <2>7
  <2>10. k \in 0..N
    BY <1>1, <2>2, <2>3, <2>5, <2>9, SizesAssumption
  <2>11. <<l, k>> \in Leaf
    BY <1>3, <2>9, <2>10 DEF Leaf, w
  <2> QED
    BY <2>8, <2>11
<1> QED
  BY <1>2, <1>3

(* Every leaf but the root has a leaf above it. *)
LEMMA LeafAbove ==
  ASSUME NEW n \in Leaf, n # Root
  PROVE  \E p \in Leaf : p[1] = n[1] + 1 /\ n[2] \in Slice(p[1], p[2]) /\ n = <<p[1] - 1, n[2]>>
<1>1. /\ n = <<n[1], n[2]>> /\ n[1] \in 0..(Top - 1) /\ n[2] \in Nat
      /\ n[2] < LeavesFor(Width[n[1]]) /\ Top \in 0..N
  BY LeafFacts, TopFacts
<1>2. n[1] + 1 \in 0..Top /\ n[1] + 1 \in 0..N /\ n[1] + 1 # 0 /\ (n[1] + 1) - 1 = n[1]
  BY <1>1, SizesAssumption
<1>3. Width[n[1] + 1] = LeavesFor(Width[n[1]])
  BY <1>2, WidthDef
<1>4. n[2] \in 0..(Width[n[1] + 1] - 1)
  BY <1>1, <1>2, <1>3, WidthBound
<1>5. PICK p \in Leaf : p[1] = n[1] + 1 /\ n[2] \in Slice(n[1] + 1, p[2])
  BY <1>2, <1>4, SlicesCover
<1> QED
  BY <1>1, <1>2, <1>5

(* What a leaf drives at level 0 are the outputs of the copy. *)
LEMMA SliceOfOutputs ==
  ASSUME NEW n \in Leaf, n[1] = 0, NEW i \in Slice(n[1], n[2])
  PROVE  i \in Outputs
BY SliceWithin, WidthDef, SizesAssumption DEF Outputs

-----------------------------------------------------------------------------
(* The inductive invariant. *)

Types ==
  /\ holds \in [Leaf -> 0..Tokens]
  /\ owes \in [Leaf -> SUBSET Nat]
  /\ fed \in 0..Tokens
  /\ got \in [Outputs -> Seq(1..Tokens)]

(* A leaf owes its token only to outputs it drives. *)
OwesOwn == \A n \in Leaf : owes[n] \subseteq Slice(n[1], n[2])

(* The leaf below an output holds the token of the leaf above it, or, while *)
(* that token is still owed to it, the one before.                          *)
Linked ==
  \A n \in Leaf : n[1] > 0 =>
    \A i \in Slice(n[1], n[2]) :
      holds[<<n[1] - 1, i>>] = IF i \in owes[n] THEN holds[n] - 1 ELSE holds[n]

(* An output has got the tokens up to that of its leaf, or up to the one    *)
(* before, in their order.                                                  *)
Delivered ==
  \A n \in Leaf : n[1] = 0 =>
    \A i \in Slice(n[1], n[2]) :
      Len(got[i]) = IF i \in owes[n] THEN holds[n] - 1 ELSE holds[n]

InOrder == \A i \in Outputs : \A j \in 1..Len(got[i]) : got[i][j] = j

IInv == Types /\ OwesOwn /\ holds[Root] = fed /\ Linked /\ Delivered /\ InOrder

LEMMA InitInv == Init => IInv
<1> SUFFICES ASSUME Init PROVE IInv
  OBVIOUS
<1>1. Types
  BY SizesAssumption DEF Init, Types
<1>2. OwesOwn
  BY DEF Init, OwesOwn
<1>3. holds[Root] = fed
  BY RootIsLeaf DEF Init
<1>4. Linked
  <2> SUFFICES ASSUME NEW n \in Leaf, n[1] > 0, NEW i \in Slice(n[1], n[2])
               PROVE  holds[<<n[1] - 1, i>>] = IF i \in owes[n] THEN holds[n] - 1 ELSE holds[n]
    BY DEF Linked
  <2>1. <<n[1] - 1, i>> \in Leaf
    BY LeafBelow
  <2> QED
    BY <2>1 DEF Init
<1>5. Delivered /\ InOrder
  <2>1. \A i \in Outputs : got[i] = << >>
    BY DEF Init
  <2> QED
    BY <2>1, SliceOfOutputs DEF Init, Delivered, InOrder
<1> QED
  BY <1>1, <1>2, <1>3, <1>4, <1>5 DEF IInv

LEMMA FeedInv ==
  ASSUME IInv, Feed
  PROVE  IInv'
<1>1. /\ fed < Tokens /\ owes[Root] = {} /\ fed' = fed + 1 /\ got' = got
      /\ holds' = [holds EXCEPT ![Root] = fed + 1]
      /\ owes' = [owes EXCEPT ![Root] = Slice(Top, 0)]
  BY DEF Feed, Waits
<1>2. Root \in Leaf /\ Root[1] = Top /\ Root[2] = 0 /\ holds[Root] = fed
  BY RootIsLeaf DEF IInv
<1>3. Types'
  <2>1. Slice(Top, 0) \subseteq Nat
    BY <1>2, SliceWithin
  <2> QED
    BY <1>1, <1>2, <2>1, SizesAssumption DEF IInv, Types
<1>4. /\ \A n \in Leaf : n # Root => holds'[n] = holds[n] /\ owes'[n] = owes[n]
      /\ holds'[Root] = fed + 1 /\ owes'[Root] = Slice(Root[1], Root[2])
  BY <1>1, <1>2 DEF IInv, Types
<1>5. OwesOwn'
  BY <1>4 DEF IInv, OwesOwn
<1>6. Linked'
  <2> SUFFICES ASSUME NEW n \in Leaf, n[1] > 0, NEW i \in Slice(n[1], n[2])
               PROVE  holds'[<<n[1] - 1, i>>] = IF i \in owes'[n] THEN holds'[n] - 1 ELSE holds'[n]
    BY DEF Linked
  <2>1. <<n[1] - 1, i>> \in Leaf
    BY LeafBelow
  <2>2. <<n[1] - 1, i>> # Root
    BY LeafFacts DEF Root
  <2>3. holds[<<n[1] - 1, i>>] = IF i \in owes[n] THEN holds[n] - 1 ELSE holds[n]
    BY DEF IInv, Linked
  <2>4. CASE n = Root
    BY <1>1, <1>2, <1>4, <2>1, <2>2, <2>3, <2>4 DEF IInv, Types
  <2>5. CASE n # Root
    BY <1>4, <2>1, <2>2, <2>3, <2>5
  <2> QED
    BY <2>4, <2>5
<1>7. Delivered'
  <2> SUFFICES ASSUME NEW n \in Leaf, n[1] = 0, NEW i \in Slice(n[1], n[2])
               PROVE  Len(got'[i]) = IF i \in owes'[n] THEN holds'[n] - 1 ELSE holds'[n]
    BY DEF Delivered
  <2>1. Len(got[i]) = IF i \in owes[n] THEN holds[n] - 1 ELSE holds[n]
    BY DEF IInv, Delivered
  <2>2. CASE n = Root
    BY <1>1, <1>2, <1>4, <2>1, <2>2 DEF IInv, Types
  <2>3. CASE n # Root
    BY <1>1, <1>4, <2>1, <2>3
  <2> QED
    BY <2>2, <2>3
<1>8. InOrder'
  BY <1>1 DEF IInv, InOrder
<1> QED
  BY <1>1, <1>3, <1>4, <1>5, <1>6, <1>7, <1>8 DEF IInv

LEMMA PassInv ==
  ASSUME IInv, NEW n \in Leaf, NEW i \in 0..N, Pass(n, i)
  PROVE  IInv'
<1> DEFINE b == <<n[1] - 1, i>>
<1>1. /\ n[1] > 0 /\ i \in owes[n] /\ owes[b] = {}
      /\ holds' = [holds EXCEPT ![b] = holds[n]]
      /\ owes' = [owes EXCEPT ![n] = @ \ {i}, ![b] = Slice(b[1], b[2])]
      /\ fed' = fed /\ got' = got
  BY DEF Pass, Waits
<1>2. i \in Slice(n[1], n[2])
  BY <1>1 DEF IInv, OwesOwn
<1>3. b \in Leaf /\ b[1] = n[1] - 1 /\ b[2] = i
  BY <1>1, <1>2, LeafBelow
<1>4. b # n /\ b # Root
  BY <1>1, LeafFacts DEF Root
<1>5. holds[b] = holds[n] - 1
  BY <1>1, <1>2 DEF IInv, Linked
<1> HIDE DEF b
<1>6. /\ holds'[b] = holds[n] /\ owes'[b] = Slice(b[1], b[2])
      /\ holds'[n] = holds[n] /\ owes'[n] = owes[n] \ {i}
      /\ \A p \in Leaf : p # b => holds'[p] = holds[p]
      /\ \A p \in Leaf : p # b /\ p # n => owes'[p] = owes[p]
  BY <1>1, <1>3, <1>4 DEF IInv, Types
<1>7. Types'
  <2>1. Slice(b[1], b[2]) \subseteq Nat
    BY <1>3, SliceWithin
  <2> QED
    BY <1>1, <1>3, <2>1 DEF IInv, Types
<1>8. OwesOwn'
  BY <1>6 DEF IInv, OwesOwn
<1>9. holds'[Root] = fed'
  BY <1>1, <1>4, <1>6, RootIsLeaf DEF IInv
<1>10. Linked'
  <2> SUFFICES ASSUME NEW p \in Leaf, p[1] > 0, NEW j \in Slice(p[1], p[2])
               PROVE  holds'[<<p[1] - 1, j>>] = IF j \in owes'[p] THEN holds'[p] - 1 ELSE holds'[p]
    BY DEF Linked
  <2>1. <<p[1] - 1, j>> \in Leaf
    BY LeafBelow
  <2>2. holds[<<p[1] - 1, j>>] = IF j \in owes[p] THEN holds[p] - 1 ELSE holds[p]
    BY DEF IInv, Linked
  <2>3. CASE <<p[1] - 1, j>> = b
    <3>1. p[1] = n[1] /\ j = i
      BY <2>3, LeafFacts DEF b
    <3>2. p = n
      BY <1>2, <3>1, SlicesDisjoint
    <3> QED
      BY <1>6, <2>3, <3>1, <3>2
  <2>4. CASE <<p[1] - 1, j>> # b /\ p = b
    <3>1. holds[<<p[1] - 1, j>>] = holds[b]
      BY <1>1, <2>2, <2>4 DEF b
    <3>2. j \in owes'[p] /\ holds'[p] = holds[n]
      BY <1>6, <2>4
    <3> QED
      BY <1>5, <1>6, <2>1, <2>4, <3>1, <3>2
  <2>5. CASE <<p[1] - 1, j>> # b /\ p # b
    <3>1. holds'[<<p[1] - 1, j>>] = holds[<<p[1] - 1, j>>] /\ holds'[p] = holds[p]
      BY <1>6, <2>1, <2>5
    <3>2. j \in owes'[p] <=> j \in owes[p]
      <4>1. CASE p = n
        <5>1. j # i
          BY <2>5, <4>1 DEF b
        <5> QED
          BY <1>6, <4>1, <5>1
      <4>2. CASE p # n
        BY <1>6, <2>5, <4>2
      <4> QED
        BY <4>1, <4>2
    <3> QED
      BY <2>2, <3>1, <3>2
  <2> QED
    BY <2>3, <2>4, <2>5
<1>11. Delivered'
  <2> SUFFICES ASSUME NEW p \in Leaf, p[1] = 0, NEW j \in Slice(p[1], p[2])
               PROVE  Len(got'[j]) = IF j \in owes'[p] THEN holds'[p] - 1 ELSE holds'[p]
    BY DEF Delivered
  <2>1. Len(got[j]) = IF j \in owes[p] THEN holds[p] - 1 ELSE holds[p]
    BY DEF IInv, Delivered
  <2>2. p # n
    BY <1>1
  <2>3. CASE p = b
    <3>1. owes[p] = {}
      BY <1>1, <2>3 DEF b
    <3> QED
      BY <1>1, <1>5, <1>6, <2>1, <2>3, <3>1
  <2>4. CASE p # b
    BY <1>1, <1>6, <2>1, <2>2, <2>4
  <2> QED
    BY <2>3, <2>4
<1>12. InOrder'
  BY <1>1 DEF IInv, InOrder
<1> QED
  BY <1>7, <1>8, <1>9, <1>10, <1>11, <1>12 DEF IInv

LEMMA SendInv ==
  ASSUME IInv, NEW n \in Leaf, NEW i \in 0..N, Send(n, i)
  PROVE  IInv' /\ i \in Outputs /\ Len(got[i]) = holds[n] - 1
<1>1. /\ n[1] = 0 /\ i \in owes[n]
      /\ got' = [got EXCEPT ![i] = Append(@, holds[n])]
      /\ owes' = [owes EXCEPT ![n] = @ \ {i}]
      /\ holds' = holds /\ fed' = fed
  BY DEF Send
<1>2. i \in Slice(n[1], n[2])
  BY <1>1 DEF IInv, OwesOwn
<1>3. i \in Outputs
  BY <1>1, <1>2, SliceOfOutputs
<1>4. Len(got[i]) = holds[n] - 1
  BY <1>1, <1>2 DEF IInv, Delivered
<1>5. got[i] \in Seq(1..Tokens) /\ holds[n] \in 0..Tokens /\ Len(got[i]) \in Nat
  BY <1>3 DEF IInv, Types
<1>6. holds[n] \in 1..Tokens
  BY <1>4, <1>5
<1>7. /\ got'[i] = Append(got[i], holds[n])
      /\ \A j \in Outputs : j # i => got'[j] = got[j]
      /\ owes'[n] = owes[n] \ {i}
      /\ \A p \in Leaf : p # n => owes'[p] = owes[p]
  BY <1>1, <1>3 DEF IInv, Types
<1>8. Types'
  <2>1. Append(got[i], holds[n]) \in Seq(1..Tokens)
    BY <1>5, <1>6
  <2> QED
    BY <1>1, <1>3, <2>1 DEF IInv, Types
<1>9. OwesOwn'
  BY <1>7 DEF IInv, OwesOwn
<1>10. Linked'
  <2> SUFFICES ASSUME NEW p \in Leaf, p[1] > 0, NEW j \in Slice(p[1], p[2])
               PROVE  holds'[<<p[1] - 1, j>>] = IF j \in owes'[p] THEN holds'[p] - 1 ELSE holds'[p]
    BY DEF Linked
  <2>1. p # n
    BY <1>1
  <2> QED
    BY <1>1, <1>7, <2>1 DEF IInv, Linked
<1>11. Delivered'
  <2> SUFFICES ASSUME NEW p \in Leaf, p[1] = 0, NEW j \in Slice(p[1], p[2])
               PROVE  Len(got'[j]) = IF j \in owes'[p] THEN holds'[p] - 1 ELSE holds'[p]
    BY DEF Delivered
  <2>1. j \in Outputs
    BY SliceOfOutputs
  <2>2. Len(got[j]) = IF j \in owes[p] THEN holds[p] - 1 ELSE holds[p]
    BY DEF IInv, Delivered
  <2>3. CASE j = i
    <3>1. p = n
      BY <1>1, <1>2, <2>3, SlicesDisjoint
    <3>2. Len(got'[j]) = Len(got[i]) + 1
      BY <1>5, <1>7, <2>3
    <3> QED
      BY <1>1, <1>4, <1>5, <1>7, <2>3, <3>1, <3>2
  <2>4. CASE j # i
    BY <1>1, <1>7, <2>1, <2>2, <2>4
  <2> QED
    BY <2>3, <2>4
<1>12. InOrder'
  <2> SUFFICES ASSUME NEW j \in Outputs, NEW k \in 1..Len(got'[j])
               PROVE  got'[j][k] = k
    BY DEF InOrder
  <2>1. CASE j = i
    <3>1. Len(got'[i]) = Len(got[i]) + 1
      BY <1>5, <1>7
    <3>2. CASE k = Len(got[i]) + 1
      <4>1. got'[i][k] = holds[n]
        BY <1>5, <1>7, <3>2
      <4> QED
        BY <1>4, <1>5, <2>1, <3>2, <4>1
    <3>3. CASE k # Len(got[i]) + 1
      <4>1. k \in 1..Len(got[i])
        BY <1>5, <2>1, <3>1, <3>3
      <4>2. got'[i][k] = got[i][k]
        BY <1>5, <1>7, <4>1
      <4> QED
        BY <1>3, <2>1, <4>1, <4>2 DEF IInv, InOrder
    <3> QED
      BY <3>2, <3>3
  <2>2. CASE j # i
    BY <1>7, <2>2 DEF IInv, InOrder
  <2> QED
    BY <2>1, <2>2
<1>13. holds'[Root] = fed'
  BY <1>1 DEF IInv
<1> QED
  BY <1>3, <1>4, <1>8, <1>9, <1>10, <1>11, <1>12, <1>13 DEF IInv

LEMMA NextInv ==
  ASSUME IInv, [Next]_vars
  PROVE  IInv'
<1>1. CASE UNCHANGED vars
  BY <1>1 DEF vars, IInv, Types, OwesOwn, Linked, Delivered, InOrder
<1> QED
  BY <1>1, FeedInv, PassInv, SendInv DEF Next

(* What the leaves have taken, hold and have sent fits together: IInv.     *)
THEOREM InvTheorem == Spec => []IInv
BY InitInv, NextInv, PTL DEF Spec

-----------------------------------------------------------------------------
(* What follows from it. *)

(* The state of the tree keeps its type: TypeOK of CopyTree.               *)
THEOREM TypeOKTheorem == Spec => []TypeOK
<1>1. IInv => TypeOK
  <2> SUFFICES ASSUME IInv PROVE TypeOK
    OBVIOUS
  <2>1. \A n \in Leaf : owes[n] \subseteq 0..(Width[n[1]] - 1)
    BY SliceWithin DEF IInv, OwesOwn
  <2> QED
    BY <2>1 DEF IInv, Types, TypeOK
<1> QED
  BY <1>1, InvTheorem, PTL

(* From the root down no leaf has a newer token than the one above it, nor *)
(* one more than one step older: NoOvertaking of CopyTree.                 *)
THEOREM NoOvertakingTheorem == Spec => []NoOvertaking
<1>1. IInv => NoOvertaking
  <2> SUFFICES ASSUME IInv, NEW n \in Leaf, n[1] > 0, NEW i \in Slice(n[1], n[2])
               PROVE  holds[<<n[1] - 1, i>>] \in {holds[n], holds[n] - 1}
    BY DEF NoOvertaking
  <2>1. holds[<<n[1] - 1, i>>] = IF i \in owes[n] THEN holds[n] - 1 ELSE holds[n]
    BY DEF IInv, Linked
  <2> QED
    BY <2>1
<1> QED
  BY <1>1, InvTheorem, PTL

(* A leaf is at most one token per level behind the root, and one less if  *)
(* the root owes nothing.                                                  *)
LEMMA LagBound ==
  ASSUME IInv, NEW n \in Leaf
  PROVE  /\ holds[n] <= fed /\ fed - holds[n] <= Top - n[1]
         /\ owes[Root] = {} /\ n # Root => fed - holds[n] < Top - n[1]
<1> DEFINE Good(p) == /\ holds[p] <= fed /\ fed - holds[p] <= Top - p[1]
                      /\ owes[Root] = {} /\ p # Root => fed - holds[p] < Top - p[1]
<1> DEFINE T == {d \in Nat : \E p \in Leaf : d = Top - p[1] /\ ~Good(p)}
<1>1. T = {}
  <2> SUFFICES ASSUME T # {} PROVE FALSE
    OBVIOUS
  <2>1. PICK d \in T : \A k \in T : d <= k
    <3>1. T \subseteq Nat
      OBVIOUS
    <3> HIDE DEF T
    <3> QED
      BY <3>1, LeastNatural, Zenon
  <2>2. PICK p \in Leaf : d = Top - p[1] /\ ~Good(p)
    OBVIOUS
  <2>3. d \in Nat /\ p[1] \in 0..Top /\ Top \in Nat
    BY LeafFacts
  <2>4. holds[p] \in Nat /\ fed \in Nat /\ holds[Root] = fed
    BY DEF IInv, Types
  <2>5. p # Root
    BY <2>2, <2>3, <2>4, RootIsLeaf
  <2>6. PICK q \in Leaf : q[1] = p[1] + 1 /\ p[2] \in Slice(q[1], q[2]) /\ p = <<q[1] - 1, p[2]>>
    BY <2>5, LeafAbove
  <2>7. holds[p] = IF p[2] \in owes[q] THEN holds[q] - 1 ELSE holds[q]
    BY <2>3, <2>6 DEF IInv, Linked
  <2>8. q[1] \in 0..Top /\ holds[q] \in Nat
    BY LeafFacts DEF IInv, Types
  <2>9. Top - q[1] \in Nat /\ ~(d <= Top - q[1])
    BY <2>2, <2>3, <2>6, <2>8
  <2>10. Top - q[1] \notin T
    <3> HIDE DEF T
    <3> QED
      BY <2>1, <2>9
  <2>11. Good(q)
    BY <2>9, <2>10
  <2>12. q = Root => q[1] = Top /\ (owes[Root] = {} => holds[p] = fed)
    BY <2>4, <2>7, RootIsLeaf
  <2>13. holds[p] <= fed /\ fed - holds[p] <= Top - p[1]
    BY <2>3, <2>4, <2>6, <2>7, <2>8, <2>11
  <2>14. ASSUME owes[Root] = {} PROVE fed - holds[p] < Top - p[1]
    <3>1. CASE q = Root
      BY <2>3, <2>4, <2>6, <2>12, <2>14, <3>1
    <3>2. CASE q # Root
      <4>1. fed - holds[q] < Top - q[1]
        BY <2>11, <2>14, <3>2
      <4> QED
        BY <2>3, <2>4, <2>6, <2>7, <2>8, <4>1
    <3> QED
      BY <3>1, <3>2
  <2>15. Good(p)
    BY <2>13, <2>14
  <2> QED
    BY <2>2, <2>15
<1>2. Top - n[1] \in Nat /\ Top - n[1] \notin T
  BY <1>1, LeafFacts
<1> QED
  BY <1>2

(* An output is at most one token per level behind the input, counting its *)
(* own; Abstract!Take and Abstract!Give can happen when the tree does them. *)
LEMMA OutputLag ==
  ASSUME IInv, NEW i \in Outputs
  PROVE  owes[Root] = {} => fed - Len(got[i]) < Top + 1
<1>1. 0 \in 0..Top /\ Top \in Nat /\ i \in 0..(Width[0] - 1)
  BY TopFacts, WidthDef, SizesAssumption DEF Outputs
<1>2. PICK n \in Leaf : n[1] = 0 /\ i \in Slice(n[1], n[2])
  BY <1>1, SlicesCover
<1>3. Len(got[i]) = IF i \in owes[n] THEN holds[n] - 1 ELSE holds[n]
  BY <1>2 DEF IInv, Delivered
<1>4. holds[n] \in Nat /\ fed \in Nat /\ holds[Root] = fed
  BY DEF IInv, Types
<1>5. /\ fed - holds[n] <= Top - n[1]
      /\ owes[Root] = {} /\ n # Root => fed - holds[n] < Top - n[1]
  BY LagBound
<1> QED
  BY <1>1, <1>2, <1>3, <1>4, <1>5

(* The tree takes and gives as Multicast does, with one slot per level: the *)
(* safety part of CopiesToAll, whatever the number of outputs and the size  *)
(* of the leaves.                                                           *)
THEOREM CopiesSafelyTheorem == Spec => Abstract!Init /\ [][Abstract!Next]_(Abstract!vars)
<1>1. Init => Abstract!Init
  BY DEF Init, Abstract!Init
<1>2. ASSUME IInv, [Next]_vars PROVE [Abstract!Next]_(Abstract!vars)
  <2>1. CASE Feed
    <3>1. owes[Root] = {} /\ fed < Tokens /\ fed' = fed + 1 /\ got' = got
      BY <2>1 DEF Feed, Waits
    <3>2. \A i \in Outputs : fed - Len(got[i]) < Top + 1
      BY <1>2, <3>1, OutputLag
    <3> QED
      BY <3>1, <3>2 DEF Abstract!Next, Abstract!Take
  <2>2. ASSUME NEW n \in Leaf, NEW i \in 0..N, Pass(n, i) PROVE UNCHANGED Abstract!vars
    BY <2>2 DEF Pass, Abstract!vars
  <2>3. ASSUME NEW n \in Leaf, NEW i \in 0..N, Send(n, i) PROVE Abstract!Next
    <3>1. i \in Outputs /\ Len(got[i]) = holds[n] - 1
      BY <1>2, <2>3, SendInv
    <3>2. holds[n] <= fed /\ holds[n] \in Nat /\ fed \in Nat
      BY <1>2, LagBound DEF IInv, Types
    <3>3. Len(got[i]) < fed /\ holds[n] = Len(got[i]) + 1
      BY <3>1, <3>2
    <3>4. got' = [got EXCEPT ![i] = Append(@, Len(@) + 1)] /\ fed' = fed
      BY <2>3, <3>3 DEF Send
    <3> QED
      BY <3>1, <3>3, <3>4 DEF Abstract!Next, Abstract!Give
  <2>4. CASE UNCHANGED vars
    BY <2>4 DEF vars, Abstract!vars
  <2> QED
    BY <1>2, <2>1, <2>2, <2>3, <2>4 DEF Next
<1> QED
  BY <1>1, <1>2, InvTheorem, PTL DEF Spec

(* Every output gets the tokens of the input in their order, none twice and *)
(* none left out.                                                           *)
THEOREM InOrderTheorem == Spec => []InOrder
BY InvTheorem, PTL DEF IInv

=============================================================================
