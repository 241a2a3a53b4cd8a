-------------------------- MODULE UnitFilesProofs --------------------------
(***************************************************************************)
(* For every set of elements, every set of calibrated templates and every  *)
(* size of the tables: the four files that describe the units of a circuit *)
(* agree.  Whatever is instantiated has its entry in .conf after each      *)
(* element, function units are defined before they are entered, nothing is *)
(* written twice before a table is full, and .stat counts what is there.   *)
(*                                                                         *)
(* The argument is about scripts.  A script is put together from blocks in *)
(* which the steps that belong together are neighbours (Chained), and in   *)
(* which every unit that is placed is entered further on (Promise); both   *)
(* survive putting blocks together, and what is left of a script while it  *)
(* runs still has them, but for its first step, about which the invariant  *)
(* says what the files must have by now (Undefined, Unentered, Due, Owed). *)
(***************************************************************************)
EXTENDS UnitFiles, NatLemmas, FiniteSetTheorems, TLAPS

(* Sequences of anything. *)
Proper(s) == \E S : s \in Seq(S)

(* The units that .stat counts as often as the circuit has them. *)
Tallied(u) == u[1] \in {"sink", "func", "split", "mixer"}

Errors == {"none", "missing", "nofunc"}

(* A step as the handlers take them. *)
LookStep(x) ==
  \E found, units, error :
    /\ x = Look(found, units, error)
    /\ error \in Errors
    /\ \/ \E u : units = <<u>> /\ Tallied(u) /\ error # "none"
       \/ \A i \in DOMAIN units : ~Tallied(units[i])

PlaceStep(x) ==
  \E u : x = Place(u) /\ (u[1] = "copy" => u[3] \in 1..MaxFanout)

DefineStep(x) == \E u : x = Define(u) /\ u[1] = "func"

EnterStep(x) == \E u, found : x = Enter(u, found)

Zero(u) == [Enter(u, TRUE) EXCEPT !.do = "zero"]

ZeroStep(x) == \E u : x = Zero(u)

IsStep(x) ==
  LookStep(x) \/ PlaceStep(x) \/ DefineStep(x) \/ EnterStep(x) \/ ZeroStep(x)

(* The steps that belong to the next, and those that belong to the one     *)
(* before.                                                                 *)
Opens(x) ==
  \/ x.do = "look" /\ \E u : x.units = <<u>> /\ Tallied(u)
  \/ x.do = "place" /\ x.unit[1] = "func"
  \/ x.do = "define"

Closes(x) ==
  \/ x.do = "place" /\ Tallied(x.unit)
  \/ x.do = "define"
  \/ x.do \in {"enter", "zero"} /\ x.unit[1] = "func"

Leads(x, y) ==
  /\ x.do = "look" => y.do = "place" /\ x.units = <<y.unit>>
  /\ x.do = "place" => y = Define(x.unit)
  /\ x.do = "define" => y = Enter(x.unit, TRUE)

OpensWell(s, i) == Opens(s[i]) => i + 1 \in 1..Len(s) /\ Leads(s[i], s[i + 1])
ClosesWell(s, i) == Closes(s[i]) => i - 1 \in 1..Len(s) /\ Opens(s[i - 1])

Chained(s) == \A i \in 1..Len(s) : OpensWell(s, i) /\ ClosesWell(s, i)

Good(s) == Proper(s) /\ (\A i \in 1..Len(s) : IsStep(s[i])) /\ Chained(s)

(* A leaf of one output, which createCopyProcs does not think of. *)
Single(u) == u[1] = "copy_leaf" /\ u[3] = 1

Enters(x, u) == x.do \in {"enter", "zero"} /\ x.unit = u

Has(s, x) == \E i \in 1..Len(s) : s[i] = x

(* What is placed is entered by the same script. *)
Kept(s, x) ==
  x.do = "place" =>
    \A u \in BagToSet(Elaborated(x.unit)) :
      Single(u) \/ \E y : Has(s, y) /\ Enters(y, u)

Promise(s) == \A x : Has(s, x) => Kept(s, x)

-----------------------------------------------------------------------------
(* Sequences put together. *)

LEMMA ConcatFacts ==
  ASSUME NEW s, NEW t, Proper(s), Proper(t)
  PROVE  /\ Proper(s \o t)
         /\ Len(s) \in Nat /\ Len(t) \in Nat /\ Len(s \o t) = Len(s) + Len(t)
         /\ \A i \in 1..Len(s) : (s \o t)[i] = s[i]
         /\ \A i \in 1..Len(t) : (s \o t)[Len(s) + i] = t[i]
<1>1. PICK S : s \in Seq(S)
  BY DEF Proper
<1>2. PICK T : t \in Seq(T)
  BY DEF Proper
<1>3. s \in Seq(S \union T) /\ t \in Seq(S \union T)
  BY <1>1, <1>2
<1> QED
  BY <1>3 DEF Proper

LEMMA TupleFacts ==
  ASSUME NEW a, NEW b, NEW c
  PROVE  /\ Proper(<<>>) /\ Len(<<>>) = 0
         /\ Proper(<<a>>) /\ Len(<<a>>) = 1 /\ <<a>>[1] = a
         /\ Proper(<<a, b>>) /\ Len(<<a, b>>) = 2 /\ <<a, b>>[1] = a /\ <<a, b>>[2] = b
         /\ Proper(<<a, b, c>>) /\ Len(<<a, b, c>>) = 3
         /\ <<a, b, c>>[1] = a /\ <<a, b, c>>[2] = b /\ <<a, b, c>>[3] = c
<1>1. <<>> \in Seq({a}) /\ <<a>> \in Seq({a}) /\ <<a, b>> \in Seq({a, b})
      /\ <<a, b, c>> \in Seq({a, b, c})
  OBVIOUS
<1> QED
  BY <1>1 DEF Proper

(* A function on 1..n is a sequence. *)
LEMMA FunctionFacts ==
  ASSUME NEW n \in Nat, NEW f, f = [i \in 1..n |-> f[i]]
  PROVE  Proper(f) /\ Len(f) = n
<1> DEFINE S == {f[i] : i \in 1..n}
<1>1. f \in [1..n -> S]
  OBVIOUS
<1>2. f \in Seq(S)
  BY <1>1
<1>3. Len(f) = n
  BY <1>1, <1>2
<1> QED
  BY <1>2, <1>3 DEF Proper

(* An index of two sequences put together is one of the first or one of    *)
(* the second.                                                             *)
LEMMA IndexSplit ==
  ASSUME NEW m \in Nat, NEW n \in Nat, NEW i \in 1..(m + n)
  PROVE  i \in 1..m \/ \E k \in 1..n : i = m + k
<1>1. ASSUME i \notin 1..m
      PROVE  i - m \in 1..n /\ i = m + (i - m)
  BY <1>1
<1> QED
  BY <1>1

(* Blocks put together stay chained. *)
LEMMA GoodConcat ==
  ASSUME NEW s, NEW t, Good(s), Good(t)
  PROVE  Good(s \o t)
<1>1. Proper(s) /\ Proper(t)
  BY DEF Good
<1>2. PICK m : m = Len(s)
  OBVIOUS
<1>3. PICK n : n = Len(t)
  OBVIOUS
<1>4. PICK r : r = s \o t
  OBVIOUS
<1>5. /\ Proper(r) /\ m \in Nat /\ n \in Nat /\ Len(r) = m + n
      /\ \A i \in 1..m : r[i] = s[i]
      /\ \A i \in 1..n : r[m + i] = t[i]
  BY <1>1, <1>2, <1>3, <1>4, ConcatFacts
<1>6. ASSUME NEW i \in 1..m
      PROVE  IsStep(r[i]) /\ OpensWell(r, i) /\ ClosesWell(r, i)
  <2>1. r[i] = s[i] /\ IsStep(s[i]) /\ OpensWell(s, i) /\ ClosesWell(s, i)
    BY <1>2, <1>5 DEF Good, Chained
  <2>2. i + 1 \in 1..m => r[i + 1] = s[i + 1] /\ i + 1 \in 1..Len(r)
    BY <1>5
  <2>3. i - 1 \in 1..m => r[i - 1] = s[i - 1] /\ i - 1 \in 1..Len(r)
    BY <1>5
  <2> QED
    BY <1>2, <2>1, <2>2, <2>3 DEF OpensWell, ClosesWell
<1>7. ASSUME NEW k \in 1..n
      PROVE  IsStep(r[m + k]) /\ OpensWell(r, m + k) /\ ClosesWell(r, m + k)
  <2>1. r[m + k] = t[k] /\ IsStep(t[k]) /\ OpensWell(t, k) /\ ClosesWell(t, k)
    BY <1>3, <1>5 DEF Good, Chained
  <2>2. k + 1 \in 1..n => r[(m + k) + 1] = t[k + 1] /\ (m + k) + 1 \in 1..Len(r)
    <3>1. (m + k) + 1 = m + (k + 1)
      BY <1>5
    <3> QED
      BY <1>5, <3>1
  <2>3. k - 1 \in 1..n => r[(m + k) - 1] = t[k - 1] /\ (m + k) - 1 \in 1..Len(r)
    <3>1. (m + k) - 1 = m + (k - 1)
      BY <1>5
    <3> QED
      BY <1>5, <3>1
  <2> QED
    BY <1>3, <2>1, <2>2, <2>3 DEF OpensWell, ClosesWell
<1>8. ASSUME NEW i \in 1..(m + n)
      PROVE  IsStep(r[i]) /\ OpensWell(r, i) /\ ClosesWell(r, i)
  BY <1>5, <1>6, <1>7, IndexSplit
<1>9. Good(r)
  BY <1>5, <1>8 DEF Good, Chained
<1> QED
  BY <1>4, <1>9

LEMMA HasConcat ==
  ASSUME NEW s, NEW t, Proper(s), Proper(t), NEW x
  PROVE  Has(s \o t, x) <=> Has(s, x) \/ Has(t, x)
<1>2. PICK m : m = Len(s)
  OBVIOUS
<1>3. PICK n : n = Len(t)
  OBVIOUS
<1>4. PICK r : r = s \o t
  OBVIOUS
<1>5. /\ Proper(r) /\ m \in Nat /\ n \in Nat /\ Len(r) = m + n
      /\ \A i \in 1..m : r[i] = s[i]
      /\ \A i \in 1..n : r[m + i] = t[i]
  BY <1>2, <1>3, <1>4, ConcatFacts
<1>6. ASSUME Has(r, x)
      PROVE  Has(s, x) \/ Has(t, x)
  <2>1. PICK i \in 1..(m + n) : r[i] = x
    BY <1>5, <1>6 DEF Has
  <2>2. i \in 1..m \/ \E k \in 1..n : i = m + k
    BY <1>5, IndexSplit
  <2> QED
    BY <1>2, <1>3, <1>5, <2>1, <2>2 DEF Has
<1>7. ASSUME Has(s, x)
      PROVE  Has(r, x)
  <2>1. PICK i \in 1..m : s[i] = x
    BY <1>2, <1>7 DEF Has
  <2>2. i \in 1..Len(r) /\ r[i] = x
    BY <1>5, <2>1
  <2> QED
    BY <2>2 DEF Has
<1>8. ASSUME Has(t, x)
      PROVE  Has(r, x)
  <2>1. PICK i \in 1..n : t[i] = x
    BY <1>3, <1>8 DEF Has
  <2>2. m + i \in 1..Len(r) /\ r[m + i] = x
    BY <1>5, <2>1
  <2> QED
    BY <2>2 DEF Has
<1> QED
  BY <1>4, <1>6, <1>7, <1>8

(* What one of the two does not enter itself, the other has to. *)
LEMMA PromiseConcat ==
  ASSUME NEW s, NEW t, Proper(s), Proper(t),
         \A x : Has(s, x) \/ Has(t, x) => Kept(s, x) \/ Kept(t, x)
  PROVE  Promise(s \o t)
<1>1. \A x : Has(s \o t, x) <=> Has(s, x) \/ Has(t, x)
  BY HasConcat
<1>2. ASSUME NEW x, Kept(s, x) \/ Kept(t, x)
      PROVE  Kept(s \o t, x)
  BY <1>1, <1>2 DEF Kept
<1> QED
  BY <1>1, <1>2 DEF Promise

-----------------------------------------------------------------------------
(* Flattening a sequence of sequences: the first k put together, for each  *)
(* k up to their number.                                                   *)
IsFlat(f, ss, n) ==
  f = [i \in 1..n |-> IF i = 1 THEN ss[i] ELSE f[i - 1] \o ss[i]]

LEMMA FlatExists ==
  ASSUME NEW ss, NEW n \in Nat
  PROVE  \E f : IsFlat(f, ss, n)
<1> DEFINE T == {k \in Nat : ~ \E f : IsFlat(f, ss, k)}
<1>1. SUFFICES ASSUME T # {} PROVE FALSE
  OBVIOUS
<1>2. PICK k \in T : \A j \in T : k <= j
  BY <1>1, LeastNatural
<1>3. k \in Nat /\ ~ \E f : IsFlat(f, ss, k)
  OBVIOUS
<1>4. k # 0
  <2>1. PICK f : f = [i \in 1..0 |-> ss[i]]
    OBVIOUS
  <2>2. f = [i \in 1..0 |-> IF i = 1 THEN ss[i] ELSE f[i - 1] \o ss[i]]
    BY <2>1
  <2> QED
    BY <1>3, <2>2 DEF IsFlat
<1>5. PICK f : IsFlat(f, ss, k - 1)
  <2>1. k - 1 \in Nat /\ ~(k <= k - 1)
    BY <1>3, <1>4
  <2> QED
    BY <1>2, <2>1
<1>6. PICK g : g = [i \in 1..k |-> IF i = k THEN IF k = 1 THEN ss[k] ELSE f[k - 1] \o ss[k]
                                            ELSE f[i]]
  OBVIOUS
<1>7. ASSUME NEW i \in 1..k
      PROVE  g[i] = IF i = 1 THEN ss[i] ELSE g[i - 1] \o ss[i]
  <2>1. \A j \in 1..(k - 1) : f[j] = IF j = 1 THEN ss[j] ELSE f[j - 1] \o ss[j]
    BY <1>5 DEF IsFlat
  <2>2. CASE i = k
    <3>1. k # 1 => k - 1 \in 1..k /\ k - 1 # k
      BY <1>3, <1>4
    <3>2. k # 1 => g[k - 1] = f[k - 1]
      BY <1>6, <3>1
    <3>3. g[k] = IF k = 1 THEN ss[k] ELSE f[k - 1] \o ss[k]
      BY <1>6, <2>2
    <3> QED
      BY <2>2, <3>2, <3>3
  <2>3. CASE i # k
    <3>1. i \in 1..(k - 1) /\ (i # 1 => i - 1 \in 1..k /\ i - 1 # k)
      BY <1>3, <2>3
    <3>2. g[i] = f[i] /\ (i # 1 => g[i - 1] = f[i - 1])
      BY <1>6, <2>3, <3>1
    <3> QED
      BY <2>1, <3>1, <3>2
  <2> QED
    BY <2>2, <2>3
<1>8. g = [i \in 1..k |-> IF i = 1 THEN ss[i] ELSE g[i - 1] \o ss[i]]
  BY <1>6, <1>7
<1> QED
  BY <1>3, <1>8 DEF IsFlat

(* What is known of the first k. *)
FlatUpTo(f, ss, k) ==
  /\ Good(f[k])
  /\ \A x : Has(f[k], x) <=> \E i \in 1..k : Has(ss[i], x)

LEMMA FlatSteps ==
  ASSUME NEW ss, NEW n \in Nat, NEW f, IsFlat(f, ss, n), \A i \in 1..n : Good(ss[i])
  PROVE  \A k \in 1..n : FlatUpTo(f, ss, k)
<1> DEFINE T == {k \in 1..n : ~FlatUpTo(f, ss, k)}
<1>1. SUFFICES ASSUME T # {} PROVE FALSE
  OBVIOUS
<1>2. T \subseteq Nat
  OBVIOUS
<1>3. PICK k \in T : \A j \in T : k <= j
  BY <1>1, <1>2, LeastNatural
<1>4. k \in 1..n /\ ~FlatUpTo(f, ss, k)
  OBVIOUS
<1>5. f[k] = IF k = 1 THEN ss[k] ELSE f[k - 1] \o ss[k]
  BY <1>4 DEF IsFlat
<1>6. CASE k = 1
  <2>1. \A i \in 1..k : i = 1
    BY <1>6
  <2> QED
    BY <1>4, <1>5, <1>6, <2>1 DEF FlatUpTo
<1>7. CASE k # 1
  <2>1. k - 1 \in 1..n /\ ~(k <= k - 1)
    BY <1>4, <1>7
  <2>2. FlatUpTo(f, ss, k - 1)
    BY <1>3, <2>1
  <2>3. Good(f[k - 1]) /\ Good(ss[k])
    BY <1>4, <2>2 DEF FlatUpTo
  <2>4. Good(f[k])
    BY <1>5, <1>7, <2>3, GoodConcat
  <2>5. ASSUME NEW x
        PROVE  Has(f[k], x) <=> \E i \in 1..k : Has(ss[i], x)
    <3>1. Has(f[k], x) <=> Has(f[k - 1], x) \/ Has(ss[k], x)
      BY <1>5, <1>7, <2>3, HasConcat DEF Good
    <3>2. Has(f[k - 1], x) <=> \E i \in 1..(k - 1) : Has(ss[i], x)
      BY <2>2 DEF FlatUpTo
    <3>3. \A i : i \in 1..k <=> i \in 1..(k - 1) \/ i = k
      BY <1>4
    <3> QED
      BY <3>1, <3>2, <3>3
  <2> QED
    BY <1>4, <2>4, <2>5 DEF FlatUpTo
<1> QED
  BY <1>6, <1>7

(* FlattenSeq of blocks is a block, and has the elements of the blocks. *)
LEMMA Flattened ==
  ASSUME NEW n \in Nat, NEW ss, Proper(ss), Len(ss) = n, \A i \in 1..n : Good(ss[i])
  PROVE  /\ Good(FlattenSeq(ss))
         /\ \A x : Has(FlattenSeq(ss), x) <=> \E i \in 1..n : Has(ss[i], x)
<1>2. CASE n = 0
  <2>1. FlattenSeq(ss) = ss /\ 1..n = {}
    BY <1>2 DEF FlattenSeq
  <2>2. Good(ss)
    BY <2>1 DEF Good, Chained
  <2> QED
    BY <2>1, <2>2 DEF Has
<1>3. CASE n # 0
  <2>1. PICK F : F = CHOOSE f : IsFlat(f, ss, n)
    OBVIOUS
  <2>2. FlattenSeq(ss) = F[n]
    BY <1>3, <2>1 DEF FlattenSeq, IsFlat
  <2>3. \E f : IsFlat(f, ss, n)
    BY FlatExists
  <2>4. IsFlat(F, ss, n)
    BY <2>1, <2>3
  <2>5. FlatUpTo(F, ss, n)
    BY <1>3, <2>4, FlatSteps
  <2> QED
    BY <2>2, <2>5 DEF FlatUpTo
<1> QED
  BY <1>2, <1>3

-----------------------------------------------------------------------------
(* Bags. *)

LEMMA OneFacts ==
  ASSUME NEW x
  PROVE  /\ IsABag(One(x)) /\ BagToSet(One(x)) = {x}
         /\ \A y : NumberOf(y, One(x)) = IF y = x THEN 1 ELSE 0
BY DEF One, SetToBag, IsABag, BagToSet, NumberOf, BagIn

LEMMA PlusFacts ==
  ASSUME NEW B, NEW C, IsABag(B), IsABag(C)
  PROVE  /\ IsABag(B (+) C) /\ BagToSet(B (+) C) = BagToSet(B) \union BagToSet(C)
         /\ \A y : NumberOf(y, B (+) C) = NumberOf(y, B) + NumberOf(y, C)
<1> DEFINE P == B (+) C
<1>1. \A y \in DOMAIN B : B[y] \in Nat /\ B[y] > 0
  BY DEF IsABag
<1>2. \A y \in DOMAIN C : C[y] \in Nat /\ C[y] > 0
  BY DEF IsABag
<1>3. /\ DOMAIN P = DOMAIN B \union DOMAIN C
      /\ P = [y \in DOMAIN P |-> P[y]]
      /\ \A y \in DOMAIN P :
           P[y] = (IF y \in DOMAIN B THEN B[y] ELSE 0) + (IF y \in DOMAIN C THEN C[y] ELSE 0)
  BY DEF (+)
<1> HIDE DEF P
<1>4. \A y \in DOMAIN P : P[y] \in {k \in Nat : k > 0}
  BY <1>1, <1>2, <1>3
<1>5. IsABag(P)
  BY <1>3, <1>4 DEF IsABag
<1>6. \A y : NumberOf(y, P) = NumberOf(y, B) + NumberOf(y, C)
  BY <1>1, <1>2, <1>3 DEF NumberOf, BagIn, BagToSet
<1> QED
  BY <1>3, <1>5, <1>6 DEF P, BagToSet

-----------------------------------------------------------------------------
(* The leaves of a copy, level by level. *)

LeafSet(bw) == {<<"copy_leaf", bw, k>> : k \in 1..8}

(* The leaves of a copy of n outputs, when f has those of smaller copies. *)
LevelOf(f, bw, n) ==
  IF n <= 8
  THEN One(<<"copy_leaf", bw, n>>)
  ELSE LET m == n \div 8
           r == n - 8 * m
       IN  [x \in {<<"copy_leaf", bw, 8>>} |-> m]
           (+) IF r > 0
               THEN One(<<"copy_leaf", bw, r>>) (+) f[m + 1]
               ELSE f[m]

IsLeaves(f, bw, N) == f = [n \in 1..N |-> LevelOf(f, bw, n)]

(* A copy of more than 8 outputs has fewer copies of 8 than outputs. *)
LEMMA Division ==
  ASSUME NEW n \in Nat, n > 8
  PROVE  /\ n \div 8 \in 1..(n - 1) /\ n - 8 * (n \div 8) \in 0..7
         /\ (n \div 8) + 1 \in 1..(n - 1)
OBVIOUS

(* A level depends on smaller ones only. *)
LEMMA LevelLocal ==
  ASSUME NEW f, NEW g, NEW bw, NEW n \in Nat \ {0}, \A j \in 1..(n - 1) : f[j] = g[j]
  PROVE  LevelOf(f, bw, n) = LevelOf(g, bw, n)
<1>1. CASE n <= 8
  BY <1>1 DEF LevelOf
<1>2. CASE ~(n <= 8)
  <2>1. PICK m : m = n \div 8
    OBVIOUS
  <2>2. m \in 1..(n - 1) /\ m + 1 \in 1..(n - 1)
    BY <1>2, <2>1, Division
  <2>3. f[m] = g[m] /\ f[m + 1] = g[m + 1]
    BY <2>2
  <2> QED
    BY <2>1, <2>3 DEF LevelOf
<1> QED
  BY <1>1, <1>2

LEMMA LeavesExist ==
  ASSUME NEW bw, NEW N \in Nat
  PROVE  \E f : IsLeaves(f, bw, N)
<1> DEFINE T == {k \in Nat : ~ \E f : IsLeaves(f, bw, k)}
<1>1. SUFFICES ASSUME T # {} PROVE FALSE
  OBVIOUS
<1>2. PICK k \in T : \A j \in T : k <= j
  BY <1>1, LeastNatural
<1>3. k \in Nat /\ ~ \E f : IsLeaves(f, bw, k)
  OBVIOUS
<1>4. k # 0
  <2>1. PICK f : f = [i \in 1..0 |-> One(i)]
    OBVIOUS
  <2>2. f = [i \in 1..0 |-> LevelOf(f, bw, i)]
    BY <2>1
  <2> QED
    BY <1>3, <2>2 DEF IsLeaves
<1>5. PICK f : IsLeaves(f, bw, k - 1)
  <2>1. k - 1 \in Nat /\ ~(k <= k - 1)
    BY <1>3, <1>4
  <2> QED
    BY <1>2, <2>1
<1>6. PICK g : g = [i \in 1..k |-> IF i = k THEN LevelOf(f, bw, k) ELSE f[i]]
  OBVIOUS
<1>7. ASSUME NEW i \in 1..k
      PROVE  g[i] = LevelOf(g, bw, i)
  <2>1. \A j \in 1..(k - 1) : f[j] = LevelOf(f, bw, j) /\ g[j] = f[j]
    <3>1. ASSUME NEW j \in 1..(k - 1)
          PROVE  j \in 1..k /\ j # k
      BY <1>3
    <3> QED
      BY <1>5, <1>6, <3>1 DEF IsLeaves
  <2>2. i \in Nat \ {0} /\ \A j \in 1..(i - 1) : j \in 1..(k - 1)
    BY <1>3
  <2>3. LevelOf(f, bw, i) = LevelOf(g, bw, i)
    BY <2>1, <2>2, LevelLocal
  <2>4. CASE i = k
    <3>1. k \in 1..k
      BY <1>3, <1>4
    <3>2. g[k] = LevelOf(f, bw, k)
      BY <1>6, <3>1
    <3> QED
      BY <2>3, <2>4, <3>2, Zenon
  <2>5. CASE i # k
    <3>1. i \in 1..(k - 1)
      BY <1>3, <2>5
    <3> QED
      BY <2>1, <2>3, <3>1
  <2> QED
    BY <2>4, <2>5
<1>8. g = [i \in 1..k |-> LevelOf(g, bw, i)]
  BY <1>6, <1>7
<1> QED
  BY <1>3, <1>8 DEF IsLeaves

LeavesWell(f, bw, n) ==
  /\ IsABag(f[n])
  /\ BagToSet(f[n]) \subseteq LeafSet(bw)
  /\ n <= 8 => BagToSet(f[n]) = {<<"copy_leaf", bw, n>>}

LEMMA LevelWell ==
  ASSUME NEW f, NEW bw, NEW n \in Nat \ {0},
         f[n] = LevelOf(f, bw, n), \A j \in 1..(n - 1) : LeavesWell(f, bw, j)
  PROVE  LeavesWell(f, bw, n)
<1>1. CASE n <= 8
  <2>1. f[n] = One(<<"copy_leaf", bw, n>>)
    BY <1>1 DEF LevelOf
  <2>2. <<"copy_leaf", bw, n>> \in LeafSet(bw)
    BY <1>1 DEF LeafSet
  <2> QED
    BY <1>1, <2>1, <2>2, OneFacts DEF LeavesWell
<1>2. CASE ~(n <= 8)
  <2>1. PICK m : m = n \div 8
    OBVIOUS
  <2>2. PICK r : r = n - 8 * m
    OBVIOUS
  <2>3. m \in 1..(n - 1) /\ m + 1 \in 1..(n - 1) /\ r \in 0..7
    BY <1>2, <2>1, <2>2, Division
  <2>4. PICK E : E = [x \in {<<"copy_leaf", bw, 8>>} |-> m]
    OBVIOUS
  <2>5. IsABag(E) /\ BagToSet(E) \subseteq LeafSet(bw)
    <3>1. m \in {k \in Nat : k > 0} /\ <<"copy_leaf", bw, 8>> \in LeafSet(bw)
      BY <2>3 DEF LeafSet
    <3> QED
      BY <2>4, <3>1 DEF IsABag, BagToSet
  <2>6. LeavesWell(f, bw, m) /\ LeavesWell(f, bw, m + 1)
    BY <2>3
  <2>7. CASE r > 0
    <3>1. f[n] = E (+) (One(<<"copy_leaf", bw, r>>) (+) f[m + 1])
      BY <1>2, <2>1, <2>2, <2>4, <2>7 DEF LevelOf
    <3>2. PICK D : D = One(<<"copy_leaf", bw, r>>)
      OBVIOUS
    <3>3. IsABag(D) /\ BagToSet(D) \subseteq LeafSet(bw)
      <4>1. <<"copy_leaf", bw, r>> \in LeafSet(bw)
        BY <2>3, <2>7 DEF LeafSet
      <4> QED
        BY <3>2, <4>1, OneFacts
    <3>4. IsABag(D (+) f[m + 1]) /\ BagToSet(D (+) f[m + 1]) \subseteq LeafSet(bw)
      BY <2>6, <3>3, PlusFacts DEF LeavesWell
    <3> QED
      BY <1>2, <2>5, <3>1, <3>2, <3>4, PlusFacts DEF LeavesWell
  <2>8. CASE ~(r > 0)
    <3>1. f[n] = E (+) f[m]
      BY <1>2, <2>1, <2>2, <2>4, <2>8 DEF LevelOf
    <3> QED
      BY <1>2, <2>5, <2>6, <3>1, PlusFacts DEF LeavesWell
  <2> QED
    BY <2>7, <2>8
<1> QED
  BY <1>1, <1>2

(* Through however many levels a copy is built, it consists of leaves of   *)
(* one to eight outputs.                                                   *)
LEMMA LeavesFacts ==
  ASSUME NEW bw, NEW n \in 1..MaxFanout
  PROVE  /\ IsABag(Leaves(bw)[n])
         /\ BagToSet(Leaves(bw)[n]) \subseteq LeafSet(bw)
         /\ n <= 8 => BagToSet(Leaves(bw)[n]) = {<<"copy_leaf", bw, n>>}
<1>1. PICK f : f = CHOOSE g : IsLeaves(g, bw, MaxFanout)
  OBVIOUS
<1>2. Leaves(bw) = f
  BY <1>1 DEF Leaves, IsLeaves, LevelOf
<1>3. IsLeaves(f, bw, MaxFanout)
  BY <1>1, LeavesExist, BoundsAssumption
<1>4. \A j \in 1..MaxFanout : f[j] = LevelOf(f, bw, j)
  BY <1>3 DEF IsLeaves
<1> DEFINE T == {j \in 1..MaxFanout : ~LeavesWell(f, bw, j)}
<1>5. T = {}
  <2>1. SUFFICES ASSUME T # {} PROVE FALSE
    OBVIOUS
  <2>2. T \subseteq Nat
    BY BoundsAssumption
  <2>3. PICK k \in T : \A j \in T : k <= j
    BY <2>1, <2>2, LeastNatural
  <2>4. k \in 1..MaxFanout /\ ~LeavesWell(f, bw, k) /\ k \in Nat \ {0}
    BY BoundsAssumption
  <2>5. ASSUME NEW j \in 1..(k - 1)
        PROVE  LeavesWell(f, bw, j)
    <3>1. j \in 1..MaxFanout /\ ~(k <= j)
      BY <2>4, BoundsAssumption
    <3> QED
      BY <2>3, <3>1
  <2> QED
    BY <1>4, <2>4, <2>5, LevelWell
<1>6. LeavesWell(f, bw, n)
  BY <1>5
<1> QED
  BY <1>2, <1>6 DEF LeavesWell

-----------------------------------------------------------------------------
(* Steps. *)

LEMMA LookFields ==
  ASSUME NEW found, NEW units, NEW error
  PROVE  /\ Look(found, units, error).do = "look" /\ Look(found, units, error).found = found
         /\ Look(found, units, error).units = units /\ Look(found, units, error).error = error
BY DEF Look

LEMMA UnitFields ==
  ASSUME NEW u
  PROVE  /\ Place(u).do = "place" /\ Place(u).unit = u
         /\ Define(u).do = "define" /\ Define(u).unit = u
BY DEF Place, Define

LEMMA EnterFields ==
  ASSUME NEW u, NEW found
  PROVE  /\ Enter(u, found).do = "enter" /\ Enter(u, found).unit = u
         /\ Enter(u, found).found = found
BY DEF Enter

LEMMA ZeroFields ==
  ASSUME NEW u
  PROVE  Zero(u).do = "zero" /\ Zero(u).unit = u
BY DEF Enter, Zero

(* What a step is by its do. *)
LEMMA StepKinds ==
  ASSUME NEW x, IsStep(x)
  PROVE  /\ x.do \in {"look", "place", "define", "enter", "zero"}
         /\ x.do = "look" => LookStep(x)
         /\ x.do = "place" => PlaceStep(x)
         /\ x.do = "define" => DefineStep(x)
         /\ x.do = "enter" => EnterStep(x)
<1>1. LookStep(x) => x.do = "look"
  BY LookFields DEF LookStep
<1>2. (PlaceStep(x) => x.do = "place") /\ (DefineStep(x) => x.do = "define")
  BY UnitFields DEF PlaceStep, DefineStep
<1>3. (EnterStep(x) => x.do = "enter") /\ (ZeroStep(x) => x.do = "zero")
  BY EnterFields, ZeroFields DEF EnterStep, ZeroStep
<1> QED
  BY <1>1, <1>2, <1>3 DEF IsStep

(* What no leaf belongs to consists of itself. *)
LEMMA ElaboratedFacts ==
  ASSUME NEW u, u[1] = "copy" => u[3] \in 1..MaxFanout
  PROVE  /\ IsABag(Elaborated(u))
         /\ u[1] # "copy" => BagToSet(Elaborated(u)) = {u}
         /\ u[1] # "copy" => \A y : NumberOf(y, Elaborated(u)) = IF y = u THEN 1 ELSE 0
         /\ u[1] = "copy" => \A y \in BagToSet(Elaborated(u)) : y[1] = "copy_leaf"
<1>1. CASE u[1] # "copy"
  BY <1>1, OneFacts DEF Elaborated
<1>2. CASE u[1] = "copy"
  <2>1. Elaborated(u) = Leaves(u[2])[u[3]]
    BY <1>2 DEF Elaborated
  <2> QED
    BY <1>2, <2>1, LeavesFacts DEF LeafSet
<1> QED
  BY <1>1, <1>2

-----------------------------------------------------------------------------
(* The blocks scripts are made of. *)

(* A single step that belongs to no other. *)
LEMMA LoneStep ==
  ASSUME NEW x, IsStep(x), ~Opens(x), ~Closes(x)
  PROVE  Good(<<x>>)
<1>1. Proper(<<x>>) /\ Len(<<x>>) = 1 /\ <<x>>[1] = x
  BY TupleFacts
<1>2. \A i \in 1..Len(<<x>>) : i = 1
  BY <1>1
<1> QED
  BY <1>1, <1>2 DEF Good, Chained, OpensWell, ClosesWell

(* Nothing that is placed, nothing that is promised. *)
LEMMA NoPlace ==
  ASSUME NEW s, \A x : Has(s, x) => x.do # "place"
  PROVE  Promise(s)
BY DEF Promise, Kept

LEMMA EmptyBlock == Good(<<>>) /\ Promise(<<>>)
<1>1. Proper(<<>>) /\ Len(<<>>) = 0
  BY TupleFacts
<1> QED
  BY <1>1 DEF Good, Chained, Promise, Has

LEMMA UnitBlock ==
  ASSUME NEW found, NEW counted, NEW unit, unit[1] \notin {"copy", "func"},
         counted = unit \/ (~Tallied(counted) /\ ~Tallied(unit))
  PROVE  Good(UnitScript(found, counted, unit)) /\ Promise(UnitScript(found, counted, unit))
<1>1. PICK l : l = Must(found, <<counted>>)
  OBVIOUS
<1>2. PICK p : p = Place(unit)
  OBVIOUS
<1>3. PICK e : e = Enter(unit, TRUE)
  OBVIOUS
<1>4. PICK s : s = <<l, p, e>>
  OBVIOUS
<1>5. s = UnitScript(found, counted, unit)
  BY <1>1, <1>2, <1>3, <1>4 DEF UnitScript
<1>6. Proper(s) /\ Len(s) = 3 /\ s[1] = l /\ s[2] = p /\ s[3] = e
  BY <1>4, TupleFacts
<1>7. l.do = "look" /\ l.units = <<counted>> /\ l = Look(found, <<counted>>, "missing")
  BY <1>1, LookFields DEF Must
<1>8. p.do = "place" /\ p.unit = unit /\ e.do = "enter" /\ e.unit = unit
  BY <1>2, <1>3 DEF Place, Enter
<1>9. IsStep(l)
  <2>1. CASE Tallied(counted)
    BY <1>7, <2>1 DEF IsStep, LookStep, Errors
  <2>2. CASE ~Tallied(counted)
    <3>1. \A i \in DOMAIN <<counted>> : ~Tallied(<<counted>>[i])
      BY <2>2
    <3> QED
      BY <1>7, <3>1 DEF IsStep, LookStep, Errors
  <2> QED
    BY <2>1, <2>2
<1>10. IsStep(p) /\ IsStep(e)
  BY <1>2, <1>3 DEF IsStep, PlaceStep, EnterStep
<1>11. OpensWell(s, 1) /\ ClosesWell(s, 1)
  <2>1. Opens(l) => Leads(l, p)
    <3>1. ASSUME Opens(l)
          PROVE  Tallied(counted)
      BY <1>7, <3>1 DEF Opens
    <3> QED
      BY <1>7, <1>8, <3>1 DEF Leads
  <2>2. ~Closes(l)
    BY <1>7 DEF Closes
  <2> QED
    BY <1>6, <2>1, <2>2 DEF OpensWell, ClosesWell
<1>12. OpensWell(s, 2) /\ ClosesWell(s, 2)
  <2>1. ~Opens(p)
    BY <1>8 DEF Opens
  <2>2. Closes(p) => Opens(l)
    BY <1>7, <1>8 DEF Opens, Closes
  <2> QED
    BY <1>6, <2>1, <2>2 DEF OpensWell, ClosesWell
<1>13. OpensWell(s, 3) /\ ClosesWell(s, 3)
  <2>1. ~Opens(e) /\ ~Closes(e)
    BY <1>8 DEF Opens, Closes
  <2> QED
    BY <1>6, <2>1 DEF OpensWell, ClosesWell
<1>14. \A i \in 1..3 : i = 1 \/ i = 2 \/ i = 3
  OBVIOUS
<1>15. Good(s)
  BY <1>6, <1>9, <1>10, <1>11, <1>12, <1>13, <1>14 DEF Good, Chained
<1>16. Has(s, e) /\ Enters(e, unit)
  BY <1>6, <1>8 DEF Has, Enters
<1>17. Kept(s, l) /\ Kept(s, p) /\ Kept(s, e)
  <2>1. BagToSet(Elaborated(unit)) = {unit}
    BY ElaboratedFacts
  <2> QED
    BY <1>7, <1>8, <1>16, <2>1 DEF Kept
<1>18. Promise(s)
  BY <1>6, <1>14, <1>17 DEF Promise, Has
<1> QED
  BY <1>5, <1>15, <1>18

LEMMA SimpleScripts ==
  ASSUME NEW kind \in {"split", "merge", "mixer", "arbiter"},
         NEW n, NEW guard, NEW bw, NEW val
  PROVE  /\ Good(SinkScript(bw)) /\ Promise(SinkScript(bw))
         /\ Good(SourceScript(val, bw)) /\ Promise(SourceScript(val, bw))
         /\ Good(SelectionScript(kind, n, guard, bw))
         /\ Promise(SelectionScript(kind, n, guard, bw))
<1>1. /\ Good(SinkScript(bw)) /\ Promise(SinkScript(bw))
  <2>1. <<"sink", bw>>[1] \notin {"copy", "func"}
    OBVIOUS
  <2> QED
    BY <2>1, UnitBlock DEF SinkScript
<1>2. /\ Good(SourceScript(val, bw)) /\ Promise(SourceScript(val, bw))
  <2>1. <<"source", val, bw>>[1] \notin {"copy", "func"}
    OBVIOUS
  <2>2. ~Tallied(<<"source", bw>>) /\ ~Tallied(<<"source", val, bw>>)
    BY DEF Tallied
  <2> QED
    BY <2>1, <2>2, UnitBlock DEF SourceScript
<1>3. /\ Good(SelectionScript(kind, n, guard, bw))
      /\ Promise(SelectionScript(kind, n, guard, bw))
  <2>1. CASE kind = "mixer"
    <3>1. SelectionScript(kind, n, guard, bw) =
            UnitScript(HasMixer(n, bw, guard), <<kind, n, bw, guard>>, <<kind, n, bw, guard>>)
      BY <2>1 DEF SelectionScript
    <3>2. <<kind, n, bw, guard>>[1] \notin {"copy", "func"}
      BY <2>1
    <3> QED
      BY <3>1, <3>2, UnitBlock
  <2>2. CASE kind = "arbiter"
    <3>1. SelectionScript(kind, n, guard, bw) =
            UnitScript(HasSelection("merge", n, guard, bw),
                       <<"merge", n, guard, bw>>, <<kind, n, bw, guard>>)
      BY <2>2 DEF SelectionScript
    <3>2. <<kind, n, bw, guard>>[1] \notin {"copy", "func"}
      BY <2>2
    <3>3. ~Tallied(<<"merge", n, guard, bw>>) /\ ~Tallied(<<kind, n, bw, guard>>)
      BY <2>2 DEF Tallied
    <3> QED
      BY <3>1, <3>2, <3>3, UnitBlock
  <2>3. CASE kind \in {"split", "merge"}
    <3>1. SelectionScript(kind, n, guard, bw) =
            UnitScript(HasSelection(kind, n, guard, bw),
                       <<kind, n, guard, bw>>, <<kind, n, guard, bw>>)
      BY <2>3 DEF SelectionScript
    <3>2. <<kind, n, guard, bw>>[1] \notin {"copy", "func"}
      BY <2>3
    <3> QED
      BY <3>1, <3>2, UnitBlock
  <2> QED
    BY <2>1, <2>2, <2>3
<1> QED
  BY <1>1, <1>2, <1>3

(* The entries of all leaves that a larger copy may need. *)
LeafBlock(bw, i) ==
  <<LookCopy(bw, i + 1), Enter(<<"copy_leaf", bw, i + 1>>, TRUE)>>

LEMMA LookCopyStep ==
  ASSUME NEW bw, NEW n
  PROVE  /\ IsStep(LookCopy(bw, n)) /\ LookCopy(bw, n).do = "look"
         /\ ~Opens(LookCopy(bw, n)) /\ ~Closes(LookCopy(bw, n))
<1>1. PICK c : c = <<"copy", bw, Clipped(n)>>
  OBVIOUS
<1>2. PICK d : d = <<"copy_leaf", bw, Clipped(n)>>
  OBVIOUS
<1>3. PICK x : x = Look(HasCopy(bw, n), <<c, d>>, "missing")
  OBVIOUS
<1>4. x = LookCopy(bw, n)
  BY <1>1, <1>2, <1>3 DEF LookCopy, Must
<1>5. x.do = "look" /\ x.units = <<c, d>>
  BY <1>3, LookFields
<1>6. ~Tallied(c) /\ ~Tallied(d)
  BY <1>1, <1>2 DEF Tallied
<1>7. \A i \in DOMAIN <<c, d>> : ~Tallied(<<c, d>>[i])
  BY <1>6
<1>8. IsStep(x)
  BY <1>3, <1>7 DEF IsStep, LookStep, Errors
<1>9. \A u : <<c, d>> # <<u>>
  OBVIOUS
<1>10. ~Opens(x) /\ ~Closes(x)
  BY <1>5, <1>9 DEF Opens, Closes
<1> QED
  BY <1>4, <1>5, <1>8, <1>10

LEMMA EnterLeafStep ==
  ASSUME NEW bw, NEW n
  PROVE  LET e == Enter(<<"copy_leaf", bw, n>>, TRUE)
         IN  IsStep(e) /\ e.do = "enter" /\ e.unit = <<"copy_leaf", bw, n>>
               /\ ~Opens(e) /\ ~Closes(e)
<1>1. PICK u : u = <<"copy_leaf", bw, n>>
  OBVIOUS
<1>2. PICK x : x = Enter(u, TRUE)
  OBVIOUS
<1>3. x.do = "enter" /\ x.unit = u /\ u[1] = "copy_leaf"
  BY <1>1, <1>2 DEF Enter
<1>4. IsStep(x)
  BY <1>2 DEF IsStep, EnterStep
<1>5. ~Opens(x) /\ ~Closes(x)
  BY <1>3 DEF Opens, Closes
<1> QED
  BY <1>1, <1>2, <1>3, <1>4, <1>5

(* Two steps neither of which belongs to another. *)
LEMMA TwoLone ==
  ASSUME NEW x, NEW y, IsStep(x), ~Opens(x), ~Closes(x), IsStep(y), ~Opens(y), ~Closes(y)
  PROVE  Good(<<x, y>>)
<1>1. Proper(<<x, y>>) /\ Len(<<x, y>>) = 2 /\ <<x, y>>[1] = x /\ <<x, y>>[2] = y
  BY TupleFacts
<1>2. \A i \in 1..2 : i = 1 \/ i = 2
  OBVIOUS
<1> QED
  BY <1>1, <1>2 DEF Good, Chained, OpensWell, ClosesWell

LEMMA LeafBlocks ==
  ASSUME NEW bw
  PROVE  LET s == FlattenSeq([i \in 1..7 |-> LeafBlock(bw, i)])
         IN  /\ Good(s) /\ Promise(s)
             /\ \A k \in 2..8 : Has(s, Enter(<<"copy_leaf", bw, k>>, TRUE))
<1>1. PICK ss : ss = [i \in 1..7 |-> LeafBlock(bw, i)]
  OBVIOUS
<1>2. PICK s : s = FlattenSeq(ss)
  OBVIOUS
<1>3. Proper(ss) /\ Len(ss) = 7
  <2>1. ss = [i \in 1..7 |-> ss[i]]
    BY <1>1
  <2> QED
    BY <2>1, FunctionFacts
<1>4. ASSUME NEW i \in 1..7
      PROVE  /\ Good(ss[i])
             /\ \A x : Has(ss[i], x) => x.do # "place"
             /\ Has(ss[i], Enter(<<"copy_leaf", bw, i + 1>>, TRUE))
  <2>1. PICK x : x = LookCopy(bw, i + 1)
    OBVIOUS
  <2>2. PICK y : y = Enter(<<"copy_leaf", bw, i + 1>>, TRUE)
    OBVIOUS
  <2>3. ss[i] = <<x, y>>
    BY <1>1, <2>1, <2>2 DEF LeafBlock
  <2>4. IsStep(x) /\ ~Opens(x) /\ ~Closes(x) /\ x.do = "look"
    BY <2>1, LookCopyStep
  <2>5. IsStep(y) /\ ~Opens(y) /\ ~Closes(y) /\ y.do = "enter"
    BY <2>2, EnterLeafStep
  <2>6. Good(ss[i])
    BY <2>3, <2>4, <2>5, TwoLone
  <2>7. Len(<<x, y>>) = 2 /\ <<x, y>>[1] = x /\ <<x, y>>[2] = y
    BY TupleFacts
  <2>8. \A j \in 1..2 : j = 1 \/ j = 2
    OBVIOUS
  <2>9. \A z : Has(ss[i], z) <=> z = x \/ z = y
    BY <2>3, <2>7, <2>8 DEF Has
  <2> QED
    BY <2>2, <2>4, <2>5, <2>6, <2>9
<1>5. Good(s) /\ \A x : Has(s, x) <=> \E i \in 1..7 : Has(ss[i], x)
  BY <1>2, <1>3, <1>4, Flattened
<1>6. Promise(s)
  BY <1>4, <1>5, NoPlace
<1>7. ASSUME NEW k \in 2..8
      PROVE  Has(s, Enter(<<"copy_leaf", bw, k>>, TRUE))
  <2>1. k - 1 \in 1..7 /\ (k - 1) + 1 = k
    OBVIOUS
  <2>2. Has(ss[k - 1], Enter(<<"copy_leaf", bw, k>>, TRUE))
    BY <1>4, <2>1
  <2> QED
    BY <1>5, <2>1, <2>2
<1> QED
  BY <1>1, <1>2, <1>5, <1>6, <1>7

(* createCopyProcs enters every leaf of the copy it places, those of one   *)
(* output excepted.                                                        *)
LEMMA CopyBlock ==
  ASSUME NEW bw, NEW n \in 1..MaxFanout
  PROVE  Good(CopyScript(bw, n)) /\ Promise(CopyScript(bw, n))
<1>1. PICK u : u = <<"copy", bw, n>>
  OBVIOUS
<1>2. PICK l : l = LookCopy(bw, n)
  OBVIOUS
<1>3. PICK p : p = Place(u)
  OBVIOUS
<1>4. PICK s : s = <<l, p>>
  OBVIOUS
<1>5. PICK t : t = IF n <= 8
                   THEN <<Enter(<<"copy_leaf", bw, n>>, TRUE)>>
                   ELSE FlattenSeq([i \in 1..7 |-> LeafBlock(bw, i)])
  OBVIOUS
<1>6. CopyScript(bw, n) = s \o t
  BY <1>1, <1>2, <1>3, <1>4, <1>5 DEF CopyScript, LeafBlock
<1>7. IsStep(l) /\ ~Opens(l) /\ ~Closes(l) /\ l.do = "look"
  BY <1>2, LookCopyStep
<1>8. u[1] = "copy" /\ u[2] = bw /\ u[3] = n
  BY <1>1
<1>9. p.do = "place" /\ p.unit = u
  BY <1>3 DEF Place
<1>10. IsStep(p) /\ ~Opens(p) /\ ~Closes(p)
  BY <1>3, <1>8, <1>9 DEF IsStep, PlaceStep, Opens, Closes, Tallied
<1>11. Good(s) /\ Len(s) = 2 /\ s[1] = l /\ s[2] = p
  BY <1>4, <1>7, <1>10, TwoLone, TupleFacts
<1>12. /\ Good(t) /\ Promise(t)
       /\ \A k \in 1..8 : (n <= 8 /\ k = n) \/ (n > 8 /\ k # 1) =>
            Has(t, Enter(<<"copy_leaf", bw, k>>, TRUE))
  <2>1. CASE n <= 8
    <3>1. PICK x : x = Enter(<<"copy_leaf", bw, n>>, TRUE)
      OBVIOUS
    <3>2. IsStep(x) /\ ~Opens(x) /\ ~Closes(x) /\ x.do = "enter"
      BY <3>1, EnterLeafStep
    <3>3. t = <<x>> /\ Len(t) = 1 /\ t[1] = x
      BY <1>5, <2>1, <3>1, TupleFacts
    <3>4. Good(t)
      BY <3>2, <3>3, LoneStep
    <3>5. \A y : Has(t, y) => y.do # "place"
      BY <3>2, <3>3 DEF Has
    <3>6. Promise(t)
      BY <3>5, NoPlace
    <3>7. Has(t, x)
      BY <3>3 DEF Has
    <3>8. ASSUME NEW k \in 1..8, (n <= 8 /\ k = n) \/ (n > 8 /\ k # 1)
          PROVE  Has(t, Enter(<<"copy_leaf", bw, k>>, TRUE))
      <4>1. k = n
        BY <2>1, <3>8, BoundsAssumption
      <4> QED
        BY <3>1, <3>7, <4>1
    <3> QED
      BY <3>4, <3>6, <3>8
  <2>2. CASE ~(n <= 8)
    <3>1. t = FlattenSeq([i \in 1..7 |-> LeafBlock(bw, i)])
      BY <1>5, <2>2
    <3>2. \A k \in 1..8 : k # 1 => k \in 2..8
      OBVIOUS
    <3> QED
      BY <2>2, <3>1, <3>2, LeafBlocks
  <2> QED
    BY <2>1, <2>2
<1>13. ASSUME NEW v \in BagToSet(Elaborated(u))
       PROVE  Single(v) \/ \E x : Enters(x, v) /\ Has(t, x)
  <2>1. v \in BagToSet(Leaves(bw)[n])
    BY <1>8 DEF Elaborated
  <2>2. PICK k \in 1..8 : v = <<"copy_leaf", bw, k>>
    BY <2>1, LeavesFacts DEF LeafSet
  <2>3. n <= 8 => v = <<"copy_leaf", bw, n>>
    BY <2>1, LeavesFacts
  <2>4. n <= 8 => k = n
    BY <2>2, <2>3
  <2>5. PICK x : x = Enter(v, TRUE)
    OBVIOUS
  <2>6. Enters(x, v)
    BY <2>5, EnterLeafStep, <2>2 DEF Enters
  <2>7. k = 1 => v[1] = "copy_leaf" /\ v[3] = 1
    BY <2>2
  <2>8. Single(v) \/ (n <= 8 /\ k = n) \/ (n > 8 /\ k # 1)
    BY <2>4, <2>7, BoundsAssumption DEF Single
  <2> QED
    BY <1>12, <2>2, <2>5, <2>6, <2>8
<1>14. Kept(t, l) /\ Kept(t, p)
  BY <1>7, <1>9, <1>13 DEF Kept
<1>15. \A x : Has(s, x) => x = l \/ x = p
  BY <1>11 DEF Has
<1>16. Promise(s \o t)
  <2>1. Proper(s) /\ Proper(t)
    BY <1>11, <1>12 DEF Good
  <2>2. \A x : Has(s, x) \/ Has(t, x) => Kept(s, x) \/ Kept(t, x)
    BY <1>12, <1>14, <1>15 DEF Promise
  <2> QED
    BY <2>1, <2>2, PromiseConcat
<1>17. Good(s \o t)
  BY <1>11, <1>12, GoodConcat
<1> QED
  BY <1>6, <1>16, <1>17

(* Steps none of which belongs to another. *)
LEMMA AllLone ==
  ASSUME NEW s, Proper(s), \A i \in 1..Len(s) : IsStep(s[i]) /\ ~Opens(s[i]) /\ ~Closes(s[i])
  PROVE  Good(s)
BY DEF Good, Chained, OpensWell, ClosesWell

LEMMA PlaceFacts ==
  ASSUME NEW u, u[1] \notin {"copy", "func"}, ~Tallied(u)
  PROVE  LET p == Place(u)
         IN  IsStep(p) /\ p.do = "place" /\ p.unit = u /\ ~Opens(p) /\ ~Closes(p)
<1>1. PICK x : x = Place(u)
  OBVIOUS
<1>2. x.do = "place" /\ x.unit = u
  BY <1>1 DEF Place
<1>3. IsStep(x)
  BY <1>1 DEF IsStep, PlaceStep
<1>4. ~Opens(x) /\ ~Closes(x)
  BY <1>2 DEF Opens, Closes
<1> QED
  BY <1>1, <1>2, <1>3, <1>4

LEMMA EnterFacts ==
  ASSUME NEW u, NEW found, u[1] # "func"
  PROVE  LET e == Enter(u, found)
         IN  IsStep(e) /\ e.do = "enter" /\ e.unit = u /\ ~Opens(e) /\ ~Closes(e)
<1>1. PICK x : x = Enter(u, found)
  OBVIOUS
<1>2. x.do = "enter" /\ x.unit = u
  BY <1>1, EnterFields
<1>3. IsStep(x)
  BY <1>1 DEF IsStep, EnterStep
<1>4. ~Opens(x) /\ ~Closes(x)
  BY <1>2 DEF Opens, Closes
<1> QED
  BY <1>1, <1>2, <1>3, <1>4

(* The units of a buffer. *)
OneBuf(b) == <<"onebuf", b.bw>>
InitBuf(b) == <<"init", b.val, b.bw>>

LEMMA BufUnits ==
  ASSUME NEW b
  PROVE  /\ OneBuf(b)[1] = "onebuf" /\ ~Tallied(OneBuf(b))
         /\ InitBuf(b)[1] = "init" /\ ~Tallied(InitBuf(b))
BY DEF OneBuf, InitBuf, Tallied

(* What printBuffChp places, in order; only what the buffer has. *)
LEMMA PlaceBuffFacts ==
  ASSUME NEW b \in Buffers
  PROVE  /\ Good(PlaceBuff(b))
         /\ \A x : Has(PlaceBuff(b), x) =>
              \/ x = Place(OneBuf(b)) /\ b.n > 1
              \/ x = Place(InitBuf(b)) /\ b.init
<1>1. b.n \in Nat \ {0} /\ b.init \in BOOLEAN /\ (b.init \/ b.n > 1)
  BY DEF Buffers
<1>2. PICK n : n = OneBufs(b)
  OBVIOUS
<1>3. n \in Nat /\ (n > 0 => b.n > 1)
  BY <1>1, <1>2 DEF OneBufs
<1>4. PICK p : p = Place(OneBuf(b))
  OBVIOUS
<1>5. PICK q : q = Place(InitBuf(b))
  OBVIOUS
<1>6. PICK s : s = [i \in 1..n |-> p]
  OBVIOUS
<1>7. PICK t : t = IF b.init THEN <<q>> ELSE <<>>
  OBVIOUS
<1>8. PlaceBuff(b) = s \o t
  BY <1>2, <1>4, <1>5, <1>6, <1>7 DEF PlaceBuff, OneBuf, InitBuf
<1>9. Proper(s) /\ Len(s) = n /\ \A i \in 1..n : s[i] = p
  <2>1. s = [i \in 1..n |-> s[i]]
    BY <1>6
  <2>2. Proper(s) /\ Len(s) = n
    BY <1>3, <2>1, FunctionFacts
  <2> QED
    BY <1>6, <2>2
<1>10. IsStep(p) /\ ~Opens(p) /\ ~Closes(p) /\ IsStep(q) /\ ~Opens(q) /\ ~Closes(q)
  BY <1>4, <1>5, BufUnits, PlaceFacts
<1>11. Good(s) /\ \A x : Has(s, x) => x = p /\ n > 0
  <2>1. Good(s)
    BY <1>9, <1>10, AllLone
  <2>2. ASSUME NEW x, Has(s, x)
        PROVE  x = p /\ n > 0
    <3>1. PICK i \in 1..n : s[i] = x
      BY <1>9, <2>2 DEF Has
    <3> QED
      BY <1>3, <1>9, <3>1
  <2> QED
    BY <2>1, <2>2
<1>12. Good(t) /\ \A x : Has(t, x) => x = q /\ b.init
  <2>1. CASE b.init
    <3>1. t = <<q>> /\ Len(t) = 1 /\ t[1] = q
      BY <1>7, <2>1, TupleFacts
    <3>2. Good(t)
      BY <1>10, <3>1, LoneStep
    <3>3. \A i \in 1..1 : i = 1
      OBVIOUS
    <3> QED
      BY <2>1, <3>1, <3>2, <3>3 DEF Has
  <2>2. CASE ~b.init
    <3>1. t = <<>> /\ Len(t) = 0
      BY <1>7, <2>2, TupleFacts
    <3> QED
      BY <3>1, EmptyBlock DEF Has
  <2> QED
    BY <2>1, <2>2
<1>13. Good(s \o t)
  BY <1>11, <1>12, GoodConcat
<1>14. \A x : Has(s \o t, x) <=> Has(s, x) \/ Has(t, x)
  BY <1>11, <1>12, HasConcat DEF Good
<1> QED
  BY <1>3, <1>4, <1>5, <1>8, <1>11, <1>12, <1>13, <1>14

(* What printBuffChpLib enters: all that the buffer has. *)
LEMMA EnterBuffFacts ==
  ASSUME NEW b \in Buffers
  PROVE  /\ Good(EnterBuff(b))
         /\ \A x : Has(EnterBuff(b), x) => x.do = "enter"
         /\ b.n > 1 => \E x : Has(EnterBuff(b), x) /\ Enters(x, OneBuf(b))
         /\ b.init => \E x : Has(EnterBuff(b), x) /\ Enters(x, InitBuf(b))
<1>1. PICK found : found = HasSimple("onebuf", b.bw)
  OBVIOUS
<1>2. PICK p : p = Enter(OneBuf(b), found)
  OBVIOUS
<1>3. PICK q : q = Enter(InitBuf(b), found)
  OBVIOUS
<1>4. PICK s : s = IF b.n > 1 THEN <<p>> ELSE <<>>
  OBVIOUS
<1>5. PICK t : t = IF b.init THEN <<q>> ELSE <<>>
  OBVIOUS
<1>6. EnterBuff(b) = s \o t
  BY <1>1, <1>2, <1>3, <1>4, <1>5 DEF EnterBuff, OneBuf, InitBuf
<1>7. /\ IsStep(p) /\ ~Opens(p) /\ ~Closes(p) /\ p.do = "enter" /\ p.unit = OneBuf(b)
      /\ IsStep(q) /\ ~Opens(q) /\ ~Closes(q) /\ q.do = "enter" /\ q.unit = InitBuf(b)
  BY <1>2, <1>3, BufUnits, EnterFacts
<1>8. ASSUME NEW c, NEW x, IsStep(x), ~Opens(x), ~Closes(x)
      PROVE  LET w == IF c THEN <<x>> ELSE <<>>
             IN  Good(w) /\ \A y : Has(w, y) <=> (y = x /\ c)
  <2>1. CASE c
    <3>1. Len(<<x>>) = 1 /\ <<x>>[1] = x
      BY TupleFacts
    <3>2. \A i \in 1..1 : i = 1
      OBVIOUS
    <3> QED
      BY <1>8, <2>1, <3>1, <3>2, LoneStep DEF Has
  <2>2. CASE ~c
    <3>1. Len(<<>>) = 0
      BY TupleFacts
    <3> QED
      BY <2>2, <3>1, EmptyBlock DEF Has
  <2> QED
    BY <2>1, <2>2
<1>9. Good(s) /\ \A y : Has(s, y) <=> (y = p /\ b.n > 1)
  BY <1>4, <1>7, <1>8
<1>10. Good(t) /\ \A y : Has(t, y) <=> (y = q /\ b.init)
  BY <1>5, <1>7, <1>8
<1>11. Good(s \o t)
  BY <1>9, <1>10, GoodConcat
<1>12. \A x : Has(s \o t, x) <=> Has(s, x) \/ Has(t, x)
  BY <1>9, <1>10, HasConcat DEF Good
<1> QED
  BY <1>6, <1>7, <1>9, <1>10, <1>11, <1>12 DEF Enters

(* The metric of a function unit, its instance, its process, its entry. *)
LEMMA FuncHead ==
  ASSUME NEW found, NEW unit, unit[1] = "func"
  PROVE  LET s == <<Look(found, <<unit>>, "nofunc")>> \o FuncSteps(unit)
         IN  Good(s) /\ Promise(s)
<1>1. PICK l : l = Look(found, <<unit>>, "nofunc")
  OBVIOUS
<1>2. PICK p : p = Place(unit)
  OBVIOUS
<1>3. PICK d : d = Define(unit)
  OBVIOUS
<1>4. PICK e : e = Enter(unit, TRUE)
  OBVIOUS
<1>5. PICK s : s = <<l>> \o <<p, d, e>>
  OBVIOUS
<1>6. s = <<Look(found, <<unit>>, "nofunc")>> \o FuncSteps(unit)
  BY <1>1, <1>2, <1>3, <1>4, <1>5 DEF FuncSteps
<1>7. Proper(s) /\ Len(s) = 4 /\ s[1] = l /\ s[2] = p /\ s[3] = d /\ s[4] = e
  <2>1. /\ Proper(<<l>>) /\ Len(<<l>>) = 1 /\ <<l>>[1] = l
        /\ Proper(<<p, d, e>>) /\ Len(<<p, d, e>>) = 3
        /\ <<p, d, e>>[1] = p /\ <<p, d, e>>[2] = d /\ <<p, d, e>>[3] = e
    BY TupleFacts
  <2>2. Proper(s) /\ Len(s) = 4 /\ s[1] = <<l>>[1]
        /\ \A i \in 1..3 : s[1 + i] = <<p, d, e>>[i]
    BY <1>5, <2>1, ConcatFacts
  <2>3. s[1 + 1] = p /\ s[1 + 2] = d /\ s[1 + 3] = e
    BY <2>1, <2>2
  <2> QED
    BY <2>1, <2>2, <2>3
<1>8. l.do = "look" /\ l.units = <<unit>> /\ Tallied(unit)
  BY <1>1, LookFields DEF Tallied
<1>9. p.do = "place" /\ p.unit = unit /\ d.do = "define" /\ d.unit = unit
  BY <1>2, <1>3 DEF Place, Define
<1>10. e.do = "enter" /\ e.unit = unit
  BY <1>4 DEF Enter
<1>11. IsStep(l)
  BY <1>1, <1>8 DEF IsStep, LookStep, Errors
<1>12. IsStep(p) /\ IsStep(d) /\ IsStep(e)
  BY <1>2, <1>3, <1>4 DEF IsStep, PlaceStep, DefineStep, EnterStep
<1>13. OpensWell(s, 1) /\ ClosesWell(s, 1)
  <2>1. Leads(l, p) /\ ~Closes(l)
    BY <1>8, <1>9 DEF Leads, Closes
  <2> QED
    BY <1>7, <2>1 DEF OpensWell, ClosesWell
<1>14. OpensWell(s, 2) /\ ClosesWell(s, 2)
  <2>1. Leads(p, d) /\ Opens(l)
    BY <1>3, <1>8, <1>9 DEF Leads, Opens
  <2> QED
    BY <1>7, <2>1 DEF OpensWell, ClosesWell
<1>15. OpensWell(s, 3) /\ ClosesWell(s, 3)
  <2>1. Leads(d, e) /\ Opens(p)
    BY <1>4, <1>9 DEF Leads, Opens
  <2> QED
    BY <1>7, <2>1 DEF OpensWell, ClosesWell
<1>16. OpensWell(s, 4) /\ ClosesWell(s, 4)
  <2>1. ~Opens(e) /\ Opens(d)
    BY <1>9, <1>10 DEF Opens
  <2> QED
    BY <1>7, <2>1 DEF OpensWell, ClosesWell
<1>17. \A i \in 1..4 : i = 1 \/ i = 2 \/ i = 3 \/ i = 4
  OBVIOUS
<1>18. Good(s)
  BY <1>7, <1>11, <1>12, <1>13, <1>14, <1>15, <1>16, <1>17 DEF Good, Chained
<1>19. Has(s, e) /\ Enters(e, unit)
  BY <1>7, <1>10 DEF Has, Enters
<1>20. Kept(s, l) /\ Kept(s, p) /\ Kept(s, d) /\ Kept(s, e)
  <2>1. BagToSet(Elaborated(unit)) = {unit}
    BY ElaboratedFacts
  <2> QED
    BY <1>8, <1>9, <1>10, <1>19, <2>1 DEF Kept
<1>21. Promise(s)
  BY <1>7, <1>17, <1>20 DEF Promise, Has
<1> QED
  BY <1>6, <1>18, <1>21

(* The searches for the metrics of the buffers. *)
LEMMA BufLooks ==
  ASSUME NEW n \in Nat, NEW bs
  PROVE  LET s == [i \in 1..n |-> Look(HasSimple("onebuf", bs[i].bw),
                                       <<<<"onebuf", bs[i].bw>>>>, "none")]
         IN  Good(s) /\ Promise(s)
<1>1. PICK s : s = [i \in 1..n |-> Look(HasSimple("onebuf", bs[i].bw),
                                        <<<<"onebuf", bs[i].bw>>>>, "none")]
  OBVIOUS
<1>2. Proper(s) /\ Len(s) = n
  <2>1. s = [i \in 1..n |-> s[i]]
    BY <1>1
  <2> QED
    BY <2>1, FunctionFacts
<1>3. ASSUME NEW i \in 1..n
      PROVE  IsStep(s[i]) /\ ~Opens(s[i]) /\ ~Closes(s[i]) /\ s[i].do # "place"
  <2>1. PICK u : u = <<"onebuf", bs[i].bw>>
    OBVIOUS
  <2>2. PICK f : f = HasSimple("onebuf", bs[i].bw)
    OBVIOUS
  <2>3. PICK x : x = Look(f, <<u>>, "none")
    OBVIOUS
  <2>4. s[i] = x
    BY <1>1, <2>1, <2>2, <2>3
  <2>5. x.do = "look" /\ x.units = <<u>>
    BY <2>3, LookFields
  <2>6. ~Tallied(u)
    BY <2>1 DEF Tallied
  <2>7. \A j \in DOMAIN <<u>> : ~Tallied(<<u>>[j])
    BY <2>6
  <2>8. IsStep(x)
    BY <2>3, <2>7 DEF IsStep, LookStep, Errors
  <2>9. \A v : <<u>> = <<v>> => v = u
    OBVIOUS
  <2>10. ~Opens(x) /\ ~Closes(x)
    BY <2>5, <2>6, <2>9 DEF Opens, Closes
  <2> QED
    BY <2>4, <2>5, <2>8, <2>10
<1>4. Good(s)
  BY <1>2, <1>3, AllLone
<1>5. Promise(s)
  BY <1>2, <1>3, NoPlace DEF Has
<1> QED
  BY <1>1, <1>4, <1>5

(* The instances of the buffers, and then their entries. *)
LEMMA BufBlocks ==
  ASSUME NEW n \in Nat, NEW bs, \A i \in 1..n : bs[i] \in Buffers
  PROVE  LET s == FlattenSeq([i \in 1..n |-> PlaceBuff(bs[i])])
             t == FlattenSeq([i \in 1..n |-> EnterBuff(bs[i])])
         IN  Good(s) /\ Good(t) /\ Promise(s \o t)
<1>1. PICK ps : ps = [i \in 1..n |-> PlaceBuff(bs[i])]
  OBVIOUS
<1>2. PICK es : es = [i \in 1..n |-> EnterBuff(bs[i])]
  OBVIOUS
<1>3. PICK s : s = FlattenSeq(ps)
  OBVIOUS
<1>4. PICK t : t = FlattenSeq(es)
  OBVIOUS
<1>5. Proper(ps) /\ Len(ps) = n
  <2>1. ps = [i \in 1..n |-> ps[i]]
    BY <1>1
  <2> QED
    BY <2>1, FunctionFacts
<1>6. Proper(es) /\ Len(es) = n
  <2>1. es = [i \in 1..n |-> es[i]]
    BY <1>2
  <2> QED
    BY <2>1, FunctionFacts
<1>7. \A i \in 1..n : ps[i] = PlaceBuff(bs[i]) /\ es[i] = EnterBuff(bs[i])
  BY <1>1, <1>2
<1>8. Good(s) /\ \A x : Has(s, x) <=> \E i \in 1..n : Has(PlaceBuff(bs[i]), x)
  <2>1. \A i \in 1..n : Good(ps[i])
    BY <1>7, PlaceBuffFacts
  <2> QED
    BY <1>3, <1>5, <1>7, <2>1, Flattened
<1>9. Good(t) /\ \A x : Has(t, x) <=> \E i \in 1..n : Has(EnterBuff(bs[i]), x)
  <2>1. \A i \in 1..n : Good(es[i])
    BY <1>7, EnterBuffFacts
  <2> QED
    BY <1>4, <1>6, <1>7, <2>1, Flattened
<1>10. ASSUME NEW x, Has(t, x)
       PROVE  Kept(t, x)
  <2>1. PICK i \in 1..n : Has(EnterBuff(bs[i]), x)
    BY <1>9, <1>10
  <2>2. x.do = "enter"
    BY <2>1, EnterBuffFacts
  <2> QED
    BY <2>2 DEF Kept
<1>11. ASSUME NEW x, Has(s, x)
       PROVE  Kept(t, x)
  <2>1. PICK i \in 1..n : Has(PlaceBuff(bs[i]), x)
    BY <1>8, <1>11
  <2>2. PICK b \in Buffers : b = bs[i]
    OBVIOUS
  <2>3. PICK v : /\ x = Place(v) /\ v[1] # "copy"
                 /\ \E y : Has(EnterBuff(b), y) /\ Enters(y, v)
    <3>1. CASE x = Place(OneBuf(b)) /\ b.n > 1
      BY <3>1, BufUnits, EnterBuffFacts
    <3>2. CASE x = Place(InitBuf(b)) /\ b.init
      BY <3>2, BufUnits, EnterBuffFacts
    <3> QED
      BY <2>1, <2>2, <3>1, <3>2, PlaceBuffFacts
  <2>4. x.do = "place" /\ x.unit = v
    BY <2>3, UnitFields
  <2>5. BagToSet(Elaborated(v)) = {v}
    BY <2>3, ElaboratedFacts
  <2>6. \E y : Has(t, y) /\ Enters(y, v)
    BY <1>9, <2>2, <2>3
  <2> QED
    BY <2>4, <2>5, <2>6 DEF Kept
<1>12. Promise(s \o t)
  <2>1. Proper(s) /\ Proper(t)
    BY <1>8, <1>9 DEF Good
  <2> QED
    BY <1>10, <1>11, <2>1, PromiseConcat
<1> QED
  BY <1>1, <1>2, <1>3, <1>4, <1>8, <1>9, <1>12

Assoc(r, s, t) == (r \o s) \o t = r \o (s \o t)

LEMMA ConcatAssoc ==
  ASSUME NEW r, NEW s, NEW t, Proper(r), Proper(s), Proper(t)
  PROVE  Assoc(r, s, t)
<1>1. PICK R : r \in Seq(R)
  BY DEF Proper
<1>2. PICK S : s \in Seq(S)
  BY DEF Proper
<1>3. PICK T : t \in Seq(T)
  BY DEF Proper
<1>4. PICK U : U = R \union S \union T
  OBVIOUS
<1>5. r \in Seq(U) /\ s \in Seq(U) /\ t \in Seq(U)
  BY <1>1, <1>2, <1>3, <1>4
<1> QED
  BY <1>5 DEF Assoc

(* Two blocks that keep their own promises. *)
LEMMA BothPromise ==
  ASSUME NEW s, NEW t, Good(s), Good(t), Promise(s), Promise(t)
  PROVE  Good(s \o t) /\ Promise(s \o t)
<1>1. Proper(s) /\ Proper(t) /\ \A x : Has(s, x) \/ Has(t, x) => Kept(s, x) \/ Kept(t, x)
  BY DEF Good, Promise
<1>2. Promise(s \o t)
  BY <1>1, PromiseConcat
<1> QED
  BY <1>2, GoodConcat

(* The five parts of the script of a function, of which b and c belong     *)
(* together, and d and e.                                                  *)
LEMMA Regroup ==
  ASSUME NEW a, NEW b, NEW c, NEW d, NEW e,
         Proper(b), Proper(c), Good(a), Good(d), Good(e), Good(b \o c),
         Promise(a), Promise(b \o c), Promise(d \o e)
  PROVE  /\ Good((((a \o b) \o c) \o d) \o e)
         /\ Promise((((a \o b) \o c) \o d) \o e)
<1>1. PICK h : h = a \o (b \o c)
  OBVIOUS
<1>2. PICK k : k = d \o e
  OBVIOUS
<1>3. Good(h) /\ Promise(h)
  BY <1>1, BothPromise
<1>4. Good(k) /\ Promise(k)
  BY <1>2, GoodConcat
<1>5. Good(h \o k) /\ Promise(h \o k)
  BY <1>3, <1>4, BothPromise
<1>6. Proper(a) /\ Proper(d) /\ Proper(e) /\ Proper(h)
  BY <1>3 DEF Good
<1>7. Assoc(a, b, c) /\ Assoc(h, d, e)
  BY <1>6, ConcatAssoc
<1>8. (a \o b) \o c = h
  BY <1>1, <1>7 DEF Assoc
<1>9. (h \o d) \o e = h \o k
  BY <1>2, <1>7 DEF Assoc
<1> QED
  BY <1>5, <1>8, <1>9

LEMMA FuncBlock ==
  ASSUME NEW q, q.buffs \in Seq(Buffers)
  PROVE  Good(FuncScript(q)) /\ Promise(FuncScript(q))
<1>1. PICK n \in Nat : n = Len(q.buffs)
  OBVIOUS
<1>2. DOMAIN q.buffs = 1..n /\ \A i \in 1..n : q.buffs[i] \in Buffers
  BY <1>1
<1>3. PICK unit : unit = <<"func", q.proc>>
  OBVIOUS
<1>4. PICK a : a = [i \in 1..n |-> Look(HasSimple("onebuf", q.buffs[i].bw),
                                        <<<<"onebuf", q.buffs[i].bw>>>>, "none")]
  OBVIOUS
<1>5. PICK b : b = <<Look(HasFunc(q.inputs, q.bw), <<unit>>, "nofunc")>>
  OBVIOUS
<1>6. PICK c : c = FuncSteps(unit)
  OBVIOUS
<1>7. PICK d : d = FlattenSeq([i \in 1..n |-> PlaceBuff(q.buffs[i])])
  OBVIOUS
<1>8. PICK e : e = FlattenSeq([i \in 1..n |-> EnterBuff(q.buffs[i])])
  OBVIOUS
<1>9. FuncScript(q) = (((a \o b) \o c) \o d) \o e
  BY <1>2, <1>3, <1>4, <1>5, <1>6, <1>7, <1>8 DEF FuncScript
<1>10. Good(a) /\ Promise(a)
  BY <1>4, BufLooks
<1>11. Good(b \o c) /\ Promise(b \o c)
  <2>1. unit[1] = "func"
    BY <1>3
  <2> QED
    BY <1>5, <1>6, <2>1, FuncHead
<1>12. Good(d) /\ Good(e) /\ Promise(d \o e)
  BY <1>2, <1>7, <1>8, BufBlocks
<1>13. Proper(b) /\ Proper(c)
  BY <1>5, <1>6, TupleFacts DEF FuncSteps
<1> QED
  BY <1>9, <1>10, <1>11, <1>12, <1>13, Regroup

LEMMA BoolBlock ==
  ASSUME NEW name \in {"bool_to_int", "int_to_bool"}
  PROVE  Good(BoolScript(<<name>>)) /\ Promise(BoolScript(<<name>>))
<1>1. PICK u : u = <<name>>
  OBVIOUS
<1>2. PICK z : z = Zero(u)
  OBVIOUS
<1>3. PICK p : p = Place(u)
  OBVIOUS
<1>4. BoolScript(u) = <<z, p>>
  BY <1>2, <1>3 DEF BoolScript, Zero
<1>5. u[1] \notin {"copy", "func"} /\ ~Tallied(u)
  BY <1>1 DEF Tallied
<1>6. z.do = "zero" /\ z.unit = u
  BY <1>2, ZeroFields
<1>7. IsStep(z) /\ ~Opens(z) /\ ~Closes(z)
  <2>1. IsStep(z)
    BY <1>2 DEF IsStep, ZeroStep
  <2> QED
    BY <1>5, <1>6, <2>1 DEF Opens, Closes
<1>8. IsStep(p) /\ ~Opens(p) /\ ~Closes(p) /\ p.do = "place" /\ p.unit = u
  BY <1>3, <1>5, PlaceFacts
<1>9. PICK s : s = <<z, p>>
  OBVIOUS
<1>10. Len(s) = 2 /\ s[1] = z /\ s[2] = p
  BY <1>9, TupleFacts
<1>11. Good(s)
  BY <1>7, <1>8, <1>9, TwoLone
<1>12. Has(s, z) /\ Enters(z, u) /\ \A x : Has(s, x) => x = z \/ x = p
  BY <1>6, <1>10 DEF Has, Enters
<1>13. Kept(s, z) /\ Kept(s, p)
  <2>1. BagToSet(Elaborated(u)) = {u}
    BY <1>5, ElaboratedFacts
  <2> QED
    BY <1>6, <1>8, <1>12, <2>1 DEF Kept
<1>14. Promise(s)
  BY <1>12, <1>13 DEF Promise
<1> QED
  BY <1>1, <1>4, <1>9, <1>11, <1>14

(* Every script is a block, and enters what it places. *)
LEMMA ScriptWell ==
  ASSUME NEW q \in Requests
  PROVE  Good(ScriptOf(q)) /\ Promise(ScriptOf(q))
<1>1. CASE q.t = "copy" /\ q.n \in 1..MaxFanout
  <2>1. ScriptOf(q) = CopyScript(q.bw, q.n)
    BY <1>1 DEF ScriptOf
  <2> QED
    BY <1>1, <2>1, CopyBlock
<1>2. CASE q.t = "func" /\ q.buffs \in Seq(Buffers)
  <2>1. ScriptOf(q) = FuncScript(q)
    BY <1>2 DEF ScriptOf
  <2> QED
    BY <1>2, <2>1, FuncBlock
<1>3. CASE q.t = "sink"
  <2>1. ScriptOf(q) = SinkScript(q.bw)
    BY <1>3 DEF ScriptOf
  <2> QED
    BY <2>1, SimpleScripts
<1>4. CASE q.t = "source"
  <2>1. ScriptOf(q) = SourceScript(q.val, q.bw)
    BY <1>4 DEF ScriptOf
  <2> QED
    BY <2>1, SimpleScripts
<1>5. CASE q.t \in {"split", "merge", "mixer", "arbiter"}
  <2>1. ScriptOf(q) = SelectionScript(q.t, q.n, q.guard, q.bw)
    BY <1>5 DEF ScriptOf
  <2> QED
    BY <1>5, <2>1, SimpleScripts
<1>6. CASE q.t = "bool" /\ q.to \in {"bool_to_int", "int_to_bool"}
  <2>1. ScriptOf(q) = BoolScript(<<q.to>>)
    BY <1>6 DEF ScriptOf
  <2> QED
    BY <1>6, <2>1, BoolBlock
<1> QED
  BY <1>1, <1>2, <1>3, <1>4, <1>5, <1>6, RequestsAssumption

-----------------------------------------------------------------------------
(* What is left of a script while it runs. *)

Rest(s) ==
  /\ Proper(s)
  /\ \A i \in 1..Len(s) : IsStep(s[i]) /\ OpensWell(s, i)
  /\ \A i \in 2..Len(s) : ClosesWell(s, i)

LEMMA TailFacts ==
  ASSUME NEW s, Proper(s), s # <<>>
  PROVE  /\ Proper(Tail(s)) /\ Len(s) \in Nat /\ Len(s) >= 1
         /\ Len(Tail(s)) = Len(s) - 1 /\ Head(s) = s[1]
         /\ \A i \in 1..(Len(s) - 1) : Tail(s)[i] = s[i + 1]
<1>1. PICK S : s \in Seq(S)
  BY DEF Proper
<1> QED
  BY <1>1 DEF Proper

LEMMA EmptyFacts ==
  ASSUME NEW s, Proper(s)
  PROVE  s = <<>> <=> Len(s) = 0
<1>1. PICK S : s \in Seq(S)
  BY DEF Proper
<1> QED
  BY <1>1

(* What has still to be done after a step is something left to do. *)
LEMMA HasTail ==
  ASSUME NEW s, Proper(s), s # <<>>, NEW x
  PROVE  Has(s, x) <=> x = Head(s) \/ Has(Tail(s), x)
<1>1. PICK n \in Nat : n = Len(s) - 1
  BY TailFacts
<1>2. PICK t : t = Tail(s)
  OBVIOUS
<1>3. /\ Len(s) = n + 1 /\ Len(t) = n /\ Head(s) = s[1]
      /\ \A i \in 1..n : t[i] = s[i + 1]
  BY <1>1, <1>2, TailFacts
<1>4. ASSUME Has(s, x)
      PROVE  x = Head(s) \/ Has(t, x)
  <2>1. PICK i \in 1..(n + 1) : s[i] = x
    BY <1>3, <1>4 DEF Has
  <2>2. i = 1 \/ (i - 1 \in 1..n /\ (i - 1) + 1 = i)
    OBVIOUS
  <2> QED
    BY <1>3, <2>1, <2>2 DEF Has
<1>5. ASSUME Has(t, x)
      PROVE  Has(s, x)
  <2>1. PICK i \in 1..n : t[i] = x
    BY <1>3, <1>5 DEF Has
  <2>2. i + 1 \in 1..Len(s) /\ s[i + 1] = x
    BY <1>3, <2>1
  <2> QED
    BY <2>2 DEF Has
<1>6. Has(s, Head(s))
  <2>1. 1 \in 1..Len(s)
    BY <1>3
  <2> QED
    BY <1>3, <2>1 DEF Has
<1> QED
  BY <1>2, <1>4, <1>5, <1>6

LEMMA GoodRest ==
  ASSUME NEW s, Good(s)
  PROVE  Rest(s) /\ (s # <<>> => ~Closes(Head(s)))
<1>1. Rest(s)
  <2>1. Proper(s) /\ \A i \in 2..Len(s) : i \in 1..Len(s)
    BY DEF Good
  <2> QED
    BY <2>1 DEF Good, Chained, Rest
<1>2. ASSUME s # <<>>
      PROVE  ~Closes(Head(s))
  <2>1. Head(s) = s[1] /\ 1 \in 1..Len(s) /\ 1 - 1 \notin 1..Len(s)
    BY <1>2, TailFacts DEF Good
  <2>2. ClosesWell(s, 1)
    BY <2>1 DEF Good, Chained
  <2> QED
    BY <2>1, <2>2 DEF ClosesWell
<1> QED
  BY <1>1, <1>2

LEMMA RestTail ==
  ASSUME NEW s, Rest(s), s # <<>>
  PROVE  /\ Rest(Tail(s)) /\ IsStep(Head(s))
         /\ Opens(Head(s)) => Tail(s) # <<>> /\ Leads(Head(s), Head(Tail(s)))
         /\ Tail(s) # <<>> /\ Closes(Head(Tail(s))) => Opens(Head(s))
<1>1. Proper(s)
  BY DEF Rest
<1>2. PICK n \in Nat : n = Len(s) - 1
  BY <1>1, TailFacts
<1>3. PICK t : t = Tail(s)
  OBVIOUS
<1>4. /\ Proper(t) /\ Len(s) = n + 1 /\ Len(t) = n /\ Head(s) = s[1]
      /\ \A i \in 1..n : t[i] = s[i + 1]
  BY <1>1, <1>2, <1>3, TailFacts
<1>5. t # <<>> => Head(t) = t[1] /\ n >= 1
  BY <1>4, TailFacts
<1>6. n >= 1 => t # <<>>
  BY <1>4, EmptyFacts
<1>7. ASSUME NEW i \in 1..n
      PROVE  IsStep(t[i]) /\ OpensWell(t, i) /\ (i # 1 => ClosesWell(t, i))
  <2>1. t[i] = s[i + 1] /\ i + 1 \in 1..Len(s) /\ i + 1 \in 2..Len(s)
    BY <1>4
  <2>2. IsStep(s[i + 1]) /\ OpensWell(s, i + 1) /\ ClosesWell(s, i + 1)
    BY <2>1 DEF Rest
  <2>3. (i + 1) + 1 \in 1..Len(s) => i + 1 \in 1..n /\ t[i + 1] = s[(i + 1) + 1]
    BY <1>4
  <2>4. i # 1 => i - 1 \in 1..n /\ t[i - 1] = s[(i + 1) - 1]
    <3>1. i # 1 => i - 1 \in 1..n /\ (i - 1) + 1 = (i + 1) - 1
      OBVIOUS
    <3> QED
      BY <1>4, <3>1
  <2>5. OpensWell(t, i)
    BY <1>4, <2>1, <2>2, <2>3 DEF OpensWell
  <2>6. i # 1 => ClosesWell(t, i)
    BY <1>4, <2>1, <2>2, <2>4 DEF ClosesWell
  <2> QED
    BY <2>1, <2>2, <2>5, <2>6
<1>8. Rest(t)
  <2>1. \A i \in 2..n : i \in 1..n /\ i # 1
    OBVIOUS
  <2> QED
    BY <1>4, <1>7, <2>1 DEF Rest
<1>9. IsStep(Head(s)) /\ OpensWell(s, 1)
  <2>1. 1 \in 1..Len(s)
    BY <1>4
  <2> QED
    BY <1>4, <2>1 DEF Rest
<1>10. Opens(Head(s)) => t # <<>> /\ Leads(Head(s), Head(t))
  <2>1. ASSUME Opens(s[1])
        PROVE  1 + 1 \in 1..Len(s) /\ Leads(s[1], s[1 + 1])
    BY <1>9, <2>1 DEF OpensWell
  <2>2. 1 + 1 \in 1..Len(s) => n >= 1 /\ t[1] = s[1 + 1]
    BY <1>4
  <2> QED
    BY <1>4, <1>5, <1>6, <2>1, <2>2
<1>11. t # <<>> /\ Closes(Head(t)) => Opens(Head(s))
  <2>1. ASSUME t # <<>>, Closes(Head(t))
        PROVE  Opens(Head(s))
    <3>1. 2 \in 2..Len(s) /\ t[1] = s[1 + 1] /\ Head(t) = t[1]
      BY <1>4, <1>5, <2>1
    <3>2. ClosesWell(s, 2) /\ s[1 + 1] = s[2] /\ s[2 - 1] = s[1]
      BY <3>1 DEF Rest
    <3> QED
      BY <1>4, <2>1, <3>1, <3>2 DEF ClosesWell
  <2> QED
    BY <2>1
<1> QED
  BY <1>3, <1>8, <1>9, <1>10, <1>11

-----------------------------------------------------------------------------
(* The invariant. *)

Going == status \in {"run", "done"}

(* What the handlers have left to do, and the tables. *)
ControlInv ==
  /\ TypeOK
  /\ Rest(script)
  /\ status = "done" => script = <<>>
  /\ IsFiniteSet(processes) /\ IsFiniteSet(instances)

(* A table has names of what is written, and has all until it is full. *)
Table(names, bag) ==
  /\ names \subseteq BagToSet(bag)
  /\ Cardinality(names) < MAX_PROCESSES => BagToSet(bag) \subseteq names
  /\ \A u \in BagToSet(bag) : NumberOf(u, bag) > 1 => Cardinality(names) = MAX_PROCESSES

NameInv == Table(instances, conf) /\ Table(processes, lib)

(* Where a function unit is on its way from the circuit to .conf. *)
Undefined(u) == script # <<>> /\ Head(script) = Define(u)
Unentered(u) == status = "run" /\ script # <<>> /\ Enters(Head(script), u)

FileInv ==
  /\ \A u \in BagToSet(circuit) : u[1] = "func" => BagIn(u, lib) \/ Undefined(u)
  /\ \A u \in BagToSet(conf) : u[1] = "func" => BagIn(u, lib)
  /\ \A u : u[1] = "func" /\ script # <<>> /\ Enters(Head(script), u) => BagIn(u, lib)
  /\ Going => \A u \in BagToSet(lib) : BagIn(u, conf) \/ Unentered(u)
  /\ \E v : \A u \in BagToSet(lib) : BagIn(u, conf) \/ u = v

(* A unit that has been looked up is counted before it is placed. *)
Due(u) == IF script # <<>> /\ Head(script) = Place(u) THEN 1 ELSE 0

StatInv ==
  Going /\ have =>
    \A u : Tallied(u) => NumberOf(u, stat) = NumberOf(u, circuit) + Due(u)

(* What is placed or will be, has its entry or will have it. *)
Owed(u) == Single(u) \/ BagIn(u, conf) \/ \E y : Has(script, y) /\ Enters(y, u)

CoverInv ==
  Going =>
    /\ \A u \in BagToSet(circuit) : Owed(u)
    /\ \A x : Has(script, x) /\ x.do = "place" =>
         \A u \in BagToSet(Elaborated(x.unit)) : Owed(u)

UnitInv == ControlInv /\ NameInv /\ FileInv /\ StatInv /\ CoverInv

-----------------------------------------------------------------------------
(* What the first step left to do is, and what comes after it. *)

LEMMA Doing_Facts ==
  ASSUME Rest(script), NEW what, Doing(what)
  PROVE  /\ status = "run" /\ script # <<>> /\ Head(script).do = what
         /\ script' = Tail(script) /\ IsStep(Head(script)) /\ Rest(script')
         /\ \A x : Has(script, x) <=> x = Head(script) \/ Has(script', x)
         /\ Opens(Head(script)) => script' # <<>> /\ Leads(Head(script), Head(script'))
         /\ script' # <<>> /\ Closes(Head(script')) => Opens(Head(script))
<1>1. status = "run" /\ script # <<>> /\ Head(script).do = what /\ script' = Tail(script)
  BY DEF Doing
<1>2. Proper(script)
  BY DEF Rest
<1>3. PICK s : s = script
  OBVIOUS
<1>4. PICK t : t = script'
  OBVIOUS
<1>5. /\ Rest(t) /\ IsStep(Head(s))
      /\ Opens(Head(s)) => t # <<>> /\ Leads(Head(s), Head(t))
      /\ t # <<>> /\ Closes(Head(t)) => Opens(Head(s))
  BY <1>1, <1>3, <1>4, RestTail
<1>6. \A x : Has(s, x) <=> x = Head(s) \/ Has(t, x)
  BY <1>1, <1>2, <1>3, <1>4, HasTail
<1> QED
  BY <1>1, <1>3, <1>4, <1>5, <1>6

LEMMA CountedFacts ==
  ASSUME NEW bag, NEW units, IsABag(bag)
  PROVE  /\ IsABag(Counted(bag, units))
         /\ \A u : (\A i \in DOMAIN units : units[i] # u) =>
              NumberOf(u, Counted(bag, units)) = NumberOf(u, bag)
<1>1. PICK S : S = {units[i] : i \in DOMAIN units}
  OBVIOUS
<1>2. Counted(bag, units) = bag (+) SetToBag(S)
  BY <1>1 DEF Counted
<1>3. IsABag(SetToBag(S)) /\ \A u : u \notin S => NumberOf(u, SetToBag(S)) = 0
  BY DEF IsABag, SetToBag, NumberOf, BagIn, BagToSet
<1>4. /\ IsABag(bag (+) SetToBag(S))
      /\ \A u : NumberOf(u, bag (+) SetToBag(S)) = NumberOf(u, bag) + NumberOf(u, SetToBag(S))
  BY <1>3, PlusFacts
<1>5. \A u : NumberOf(u, bag) \in Nat
  BY DEF IsABag, NumberOf, BagIn, BagToSet
<1> QED
  BY <1>1, <1>2, <1>3, <1>4, <1>5

(* One unit is counted once. *)
LEMMA CountedOne ==
  ASSUME NEW bag, NEW u, IsABag(bag)
  PROVE  \A v : NumberOf(v, Counted(bag, <<u>>)) =
                  NumberOf(v, bag) + IF v = u THEN 1 ELSE 0
<1>1. {<<u>>[i] : i \in DOMAIN <<u>>} = {u}
  OBVIOUS
<1>2. Counted(bag, <<u>>) = bag (+) One(u)
  BY <1>1 DEF Counted, One
<1> QED
  BY <1>2, OneFacts, PlusFacts

(* A table stays within its size and remembers until it is full. *)
LEMMA RememberedFacts ==
  ASSUME NEW names, NEW u, IsFiniteSet(names), Cardinality(names) <= MAX_PROCESSES,
         u \notin names
  PROVE  /\ IsFiniteSet(Remembered(names, u))
         /\ Cardinality(Remembered(names, u)) <= MAX_PROCESSES
         /\ Cardinality(names) < MAX_PROCESSES => Remembered(names, u) = names \union {u}
         /\ Cardinality(names) = MAX_PROCESSES => Remembered(names, u) = names
<1>1. Cardinality(names) \in Nat /\ MAX_PROCESSES \in Nat
  BY FS_CardinalityType, BoundsAssumption
<1>2. /\ IsFiniteSet(names \union {u})
      /\ Cardinality(names \union {u}) = Cardinality(names) + 1
  BY FS_AddElement
<1> QED
  BY <1>1, <1>2 DEF Remembered

(* What goes into a file and its table. *)
LEMMA TableStep ==
  ASSUME NEW names, NEW bag, NEW u, Table(names, bag), IsABag(bag),
         IsFiniteSet(names), Cardinality(names) <= MAX_PROCESSES, u \notin names
  PROVE  Table(Remembered(names, u), bag (+) One(u))
<1>1. Cardinality(names) \in Nat /\ MAX_PROCESSES \in Nat
  BY FS_CardinalityType, BoundsAssumption
<1>2. PICK c : c = bag (+) One(u)
  OBVIOUS
<1>3. /\ BagToSet(c) = BagToSet(bag) \union {u}
      /\ \A v : NumberOf(v, c) = NumberOf(v, bag) + IF v = u THEN 1 ELSE 0
  BY <1>2, OneFacts, PlusFacts
<1>4. CASE Cardinality(names) = MAX_PROCESSES
  <2>1. Remembered(names, u) = names
    BY <1>4, RememberedFacts
  <2> QED
    BY <1>1, <1>2, <1>3, <1>4, <2>1 DEF Table
<1>5. CASE Cardinality(names) < MAX_PROCESSES
  <2>1. Remembered(names, u) = names \union {u} /\ BagToSet(bag) = names
    BY <1>5, RememberedFacts DEF Table
  <2>2. ASSUME NEW v \in BagToSet(c)
        PROVE  ~(NumberOf(v, c) > 1)
    <3>1. CASE v = u
      <4>1. NumberOf(u, bag) = 0
        BY <2>1 DEF NumberOf, BagIn
      <4> QED
        BY <1>3, <3>1, <4>1
    <3>2. CASE v # u
      <4>1. v \in BagToSet(bag) /\ NumberOf(v, c) = NumberOf(v, bag) /\ NumberOf(v, bag) \in Nat
        BY <1>3, <3>2 DEF IsABag, NumberOf, BagIn, BagToSet
      <4>2. NumberOf(v, bag) > 1 => FALSE
        BY <1>1, <1>5, <4>1 DEF Table
      <4> QED
        BY <4>1, <4>2
    <3> QED
      BY <3>1, <3>2
  <2> QED
    BY <1>2, <1>3, <2>1, <2>2 DEF Table
<1> QED
  BY <1>1, <1>4, <1>5

(* What a first step that belongs to none before it is not. *)
LEMMA HeadFacts ==
  ASSUME NEW x, ~Closes(x), NEW u
  PROVE  /\ u[1] = "func" => ~Enters(x, u)
         /\ Tallied(u) => x # Place(u)
         /\ x # Define(u)
<1>1. Place(u).do = "place" /\ Place(u).unit = u /\ Define(u).do = "define"
  BY UnitFields
<1> QED
  BY <1>1 DEF Closes, Enters

LEMMA CoverStep ==
  ASSUME Rest(script), CoverInv, NEW what, Doing(what),
         \A u : BagIn(u, conf) => BagIn(u, conf'),
         what \in {"enter", "zero"} => BagIn(Head(script).unit, conf'),
         \A u \in BagToSet(circuit') :
           \/ u \in BagToSet(circuit)
           \/ what = "place" /\ u \in BagToSet(Elaborated(Head(script).unit))
  PROVE  CoverInv'
<1>1. /\ status = "run" /\ Head(script).do = what
      /\ \A x : Has(script, x) <=> x = Head(script) \/ Has(script', x)
  BY Doing_Facts
<1>2. ASSUME NEW u, Owed(u)
      PROVE  Owed(u)'
  <2>1. CASE Single(u) \/ BagIn(u, conf)
    BY <2>1 DEF Owed
  <2>2. CASE \E y : Has(script, y) /\ Enters(y, u)
    <3>1. PICK y : Has(script, y) /\ Enters(y, u)
      BY <2>2
    <3>2. CASE y = Head(script)
      BY <1>1, <3>1, <3>2 DEF Enters, Owed
    <3>3. CASE Has(script', y)
      BY <3>1, <3>3 DEF Owed
    <3> QED
      BY <1>1, <3>1, <3>2, <3>3
  <2> QED
    BY <1>2, <2>1, <2>2 DEF Owed
<1>3. /\ \A u \in BagToSet(circuit) : Owed(u)
      /\ \A x : Has(script, x) /\ x.do = "place" =>
           \A u \in BagToSet(Elaborated(x.unit)) : Owed(u)
  BY <1>1 DEF CoverInv, Going
<1>4. \A u \in BagToSet(circuit') : Owed(u)
  BY <1>1, <1>3
<1>5. \A u \in BagToSet(circuit') : Owed(u)'
  BY <1>2, <1>4
<1>6. \A x : Has(script', x) /\ x.do = "place" =>
        \A u \in BagToSet(Elaborated(x.unit)) : Owed(u)
  BY <1>1, <1>3
<1>7. \A x : Has(script', x) /\ x.do = "place" =>
        \A u \in BagToSet(Elaborated(x.unit)) : Owed(u)'
  BY <1>2, <1>6
<1> QED
  BY <1>5, <1>7 DEF CoverInv

LEMMA InitInv == Init => UnitInv
<1> SUFFICES ASSUME Init PROVE UnitInv
  OBVIOUS
<1>1. /\ todo = Length /\ script = <<>> /\ have \in BOOLEAN /\ status = "run"
      /\ circuit = EmptyBag /\ lib = EmptyBag /\ conf = EmptyBag /\ stat = EmptyBag
      /\ processes = {} /\ instances = {}
  BY DEF Init
<1>2. IsABag(EmptyBag) /\ BagToSet(EmptyBag) = {} /\ \A u : NumberOf(u, EmptyBag) = 0
  BY DEF EmptyBag, SetToBag, IsABag, BagToSet, NumberOf, BagIn
<1>3. IsFiniteSet({}) /\ Cardinality({}) = 0
  BY FS_EmptySet
<1>4. Good(<<>>) /\ Len(<<>>) = 0
  BY EmptyBlock, TupleFacts
<1>5. ControlInv
  <2>1. todo \in 0..Length /\ Cardinality(processes) <= MAX_PROCESSES
        /\ Cardinality(instances) <= MAX_PROCESSES
    BY <1>1, <1>3, BoundsAssumption
  <2> QED
    BY <1>1, <1>2, <1>3, <1>4, <2>1, GoodRest DEF ControlInv, TypeOK
<1>6. NameInv
  BY <1>1, <1>2 DEF NameInv, Table
<1>7. FileInv
  BY <1>1, <1>2 DEF FileInv, Enters
<1>8. StatInv
  <2>1. \A u : Due(u) = 0
    BY <1>1 DEF Due
  <2> QED
    BY <1>1, <1>2, <2>1 DEF StatInv
<1>9. CoverInv
  BY <1>1, <1>2, <1>4 DEF CoverInv, Has
<1> QED
  BY <1>5, <1>6, <1>7, <1>8, <1>9 DEF UnitInv

LEMMA ElementInv ==
  ASSUME UnitInv, NEW q \in Requests, Element(q)
  PROVE  UnitInv'
<1>1. /\ status = "run" /\ script = <<>> /\ todo > 0 /\ todo' = todo - 1
      /\ script' = ScriptOf(q)
      /\ UNCHANGED <<have, circuit, lib, conf, stat, processes, instances, status>>
  BY DEF Element
<1>2. Good(script') /\ Promise(script')
  BY <1>1, ScriptWell
<1>3. Rest(script') /\ (script' # <<>> => ~Closes(Head(script')))
  BY <1>2, GoodRest
<1>4. ControlInv'
  <2>1. TypeOK /\ IsFiniteSet(processes) /\ IsFiniteSet(instances)
    BY DEF UnitInv, ControlInv
  <2>2. todo' \in 0..Length
    BY <1>1, <2>1, BoundsAssumption DEF TypeOK
  <2>3. TypeOK'
    BY <1>1, <2>1, <2>2 DEF TypeOK
  <2> QED
    BY <1>1, <1>3, <2>1, <2>3 DEF ControlInv
<1>5. NameInv'
  BY <1>1 DEF UnitInv, NameInv
<1>6. FileInv'
  <2>1. /\ \A u \in BagToSet(circuit) : u[1] = "func" => BagIn(u, lib)
        /\ \A u \in BagToSet(conf) : u[1] = "func" => BagIn(u, lib)
        /\ \A u \in BagToSet(lib) : BagIn(u, conf)
    BY <1>1 DEF UnitInv, FileInv, Undefined, Unentered, Going
  <2>2. \A u : ~(u[1] = "func" /\ script' # <<>> /\ Enters(Head(script'), u))
    BY <1>3, HeadFacts
  <2> QED
    BY <1>1, <2>1, <2>2 DEF FileInv
<1>7. StatInv'
  <2>1. \A u : Tallied(u) => Due(u)' = 0
    BY <1>3, HeadFacts DEF Due
  <2>2. \A u : Due(u) = 0
    BY <1>1 DEF Due
  <2> QED
    BY <1>1, <2>1, <2>2 DEF UnitInv, StatInv, Going
<1>8. CoverInv'
  <2>1. \A x : ~Has(script, x)
    BY <1>1, TupleFacts DEF Has
  <2>2. \A u \in BagToSet(circuit) : Single(u) \/ BagIn(u, conf)
    BY <1>1, <2>1 DEF UnitInv, CoverInv, Owed, Going
  <2>3. \A u \in BagToSet(circuit') : Owed(u)'
    BY <1>1, <2>2 DEF Owed
  <2>4. \A x : Has(script', x) /\ x.do = "place" =>
          \A u \in BagToSet(Elaborated(x.unit)) : Owed(u)'
    BY <1>2 DEF Promise, Kept, Owed
  <2> QED
    BY <2>3, <2>4 DEF CoverInv
<1> QED
  BY <1>4, <1>5, <1>6, <1>7, <1>8 DEF UnitInv

LEMMA FileEndingInv ==
  ASSUME UnitInv, FileEnding
  PROVE  UnitInv'
<1>1. /\ status = "run" /\ script = <<>> /\ status' = "done"
      /\ UNCHANGED <<todo, script, have, circuit, lib, conf, stat, processes, instances>>
  BY DEF FileEnding
<1>2. ControlInv'
  BY <1>1 DEF UnitInv, ControlInv, TypeOK
<1>3. NameInv'
  BY <1>1 DEF UnitInv, NameInv
<1>4. FileInv'
  <2>1. FileInv
    BY DEF UnitInv
  <2>2. \A u \in BagToSet(lib) : BagIn(u, conf)
    BY <1>1, <2>1 DEF FileInv, Unentered, Going
  <2> QED
    BY <1>1, <2>1, <2>2 DEF FileInv, Undefined
<1>5. StatInv'
  BY <1>1 DEF UnitInv, StatInv, Due, Going
<1>6. CoverInv'
  <2>1. \A u : Owed(u) => Owed(u)'
    BY <1>1 DEF Owed
  <2> QED
    BY <1>1, <2>1 DEF UnitInv, CoverInv, Going
<1> QED
  BY <1>2, <1>3, <1>4, <1>5, <1>6 DEF UnitInv

(* A search finds what it looks for and counts it, or goes on without, or  *)
(* ends the program.                                                       *)
LEMMA LookUpInv ==
  ASSUME UnitInv, LookUp
  PROVE  UnitInv'
<1>1. Rest(script) /\ Doing("look")
  BY DEF UnitInv, ControlInv, LookUp
<1>2. /\ status = "run" /\ script # <<>> /\ Head(script).do = "look"
      /\ IsStep(Head(script)) /\ Rest(script')
      /\ Opens(Head(script)) => script' # <<>> /\ Leads(Head(script), Head(script'))
      /\ script' # <<>> /\ Closes(Head(script')) => Opens(Head(script))
  BY <1>1, Doing_Facts
<1>3. PICK x : x = Head(script)
  OBVIOUS
<1>4. LookStep(x)
  BY <1>2, <1>3, StepKinds
<1>5. PICK found, units, error :
        /\ x = Look(found, units, error)
        /\ error \in Errors
        /\ \/ \E u : units = <<u>> /\ Tallied(u) /\ error # "none"
           \/ \A i \in DOMAIN units : ~Tallied(units[i])
  BY <1>4 DEF LookStep
<1>6. x.do = "look" /\ x.found = found /\ x.units = units /\ x.error = error
  BY <1>5, LookFields
<1>7. UNCHANGED <<todo, have, circuit, lib, conf, processes, instances>>
  BY DEF LookUp, ExitWith
<1>8. \/ /\ have /\ ~found /\ error # "none"
         /\ status' = error /\ stat' = stat
      \/ /\ ~(have /\ ~found /\ error # "none")
         /\ status' = status
         /\ stat' = IF have /\ found THEN Counted(stat, units) ELSE stat
  BY <1>3, <1>6 DEF LookUp, ExitWith
<1>9. status' # "done" /\ (Going' => status' = "run")
  BY <1>2, <1>5, <1>8 DEF Errors, Going
<1>10. TypeOK /\ IsFiniteSet(processes) /\ IsFiniteSet(instances)
  BY DEF UnitInv, ControlInv
<1>11. ControlInv'
  <2>1. IsABag(stat')
    BY <1>8, <1>10, CountedFacts DEF TypeOK
  <2>2. status' \in {"run", "done", "missing", "nofunc", "nometrics"}
    BY <1>2, <1>5, <1>8 DEF Errors
  <2>3. TypeOK'
    BY <1>7, <1>10, <2>1, <2>2 DEF TypeOK
  <2> QED
    BY <1>2, <1>7, <1>9, <1>10, <2>3 DEF ControlInv
<1>12. NameInv'
  BY <1>7 DEF UnitInv, NameInv
<1>13. FileInv'
  <2>1. FileInv
    BY DEF UnitInv
  <2>2. \A u \in BagToSet(circuit) : u[1] = "func" => BagIn(u, lib)
    BY <1>2, <2>1, UnitFields DEF FileInv, Undefined
  <2>3. \A u \in BagToSet(lib) : BagIn(u, conf)
    BY <1>2, <2>1 DEF FileInv, Unentered, Enters, Going
  <2>4. ASSUME NEW u, u[1] = "func", script' # <<>>, Enters(Head(script'), u)
        PROVE  FALSE
    <3>1. Closes(Head(script'))
      BY <2>4 DEF Closes, Enters
    <3>2. Head(script').do = "place"
      BY <1>2, <2>4, <3>1 DEF Leads
    <3> QED
      BY <2>4, <3>2 DEF Enters
  <2> QED
    BY <1>7, <2>1, <2>2, <2>3, <2>4 DEF FileInv
<1>14. StatInv'
  <2>1. SUFFICES ASSUME Going', have', NEW u, Tallied(u)
                 PROVE  NumberOf(u, stat') = NumberOf(u, circuit') + Due(u)'
    BY DEF StatInv
  <2>2. NumberOf(u, stat) = NumberOf(u, circuit)
    <3>1. Due(u) = 0
      BY <1>2, UnitFields DEF Due
    <3>2. NumberOf(u, stat) = NumberOf(u, circuit) + Due(u)
      BY <1>2, <1>7, <2>1 DEF UnitInv, StatInv, Going
    <3>3. NumberOf(u, circuit) \in Nat
      BY <1>10 DEF TypeOK, IsABag, NumberOf, BagIn, BagToSet
    <3> QED
      BY <3>1, <3>2, <3>3
  <2>3. NumberOf(u, circuit) \in Nat
    BY <1>10 DEF TypeOK, IsABag, NumberOf, BagIn, BagToSet
  <2>4. ~(have /\ ~found /\ error # "none")
        /\ stat' = IF have /\ found THEN Counted(stat, units) ELSE stat
    BY <1>5, <1>8, <1>9, <2>1 DEF Errors
  <2>5. CASE \E v : units = <<v>> /\ Tallied(v) /\ error # "none"
    <3>1. PICK v : units = <<v>> /\ Tallied(v) /\ error # "none"
      BY <2>5
    <3>2. stat' = Counted(stat, <<v>>)
      BY <1>7, <2>1, <2>4, <3>1
    <3>3. NumberOf(u, stat') = NumberOf(u, stat) + IF u = v THEN 1 ELSE 0
      BY <1>10, <3>2, CountedOne DEF TypeOK
    <3>4. Opens(x)
      BY <1>6, <3>1 DEF Opens
    <3>5. script' # <<>> /\ Head(script').do = "place" /\ <<v>> = <<Head(script').unit>>
      BY <1>2, <1>3, <1>6, <3>1, <3>4 DEF Leads
    <3>6. Head(script').unit = v
      BY <3>5
    <3>7. IsStep(Head(script'))
      BY <1>2, <3>5, RestTail
    <3>8. Head(script') = Place(v)
      <4>1. PICK w : Head(script') = Place(w)
        BY <3>5, <3>7, StepKinds DEF PlaceStep
      <4>2. w = v
        BY <3>6, <4>1, UnitFields
      <4> QED
        BY <4>1, <4>2
    <3>9. Place(u) = Place(v) => u = v
      BY UnitFields
    <3>10. Due(u)' = IF u = v THEN 1 ELSE 0
      BY <3>5, <3>8, <3>9 DEF Due
    <3> QED
      BY <1>7, <2>2, <2>3, <3>3, <3>10
  <2>6. CASE \A i \in DOMAIN units : ~Tallied(units[i])
    <3>1. \A i \in DOMAIN units : units[i] # u
      BY <2>1, <2>6
    <3>2. NumberOf(u, stat') = NumberOf(u, stat)
      BY <1>10, <2>4, <3>1, CountedFacts DEF TypeOK
    <3>3. ~Opens(x)
      <4>1. ASSUME NEW v, units = <<v>>, Tallied(v)
            PROVE  FALSE
        <5>1. 1 \in DOMAIN units /\ units[1] = v
          BY <4>1
        <5> QED
          BY <2>6, <4>1, <5>1
      <4> QED
        BY <1>6, <4>1 DEF Opens
    <3>4. script' # <<>> => ~Closes(Head(script'))
      BY <1>2, <1>3, <3>3
    <3>5. Due(u)' = 0
      BY <2>1, <3>4, HeadFacts DEF Due
    <3> QED
      BY <1>7, <2>2, <2>3, <3>2, <3>5
  <2> QED
    BY <1>5, <2>5, <2>6
<1>15. CoverInv'
  <2>1. CoverInv
    BY DEF UnitInv
  <2> QED
    BY <1>1, <1>7, <2>1, CoverStep
<1> QED
  BY <1>11, <1>12, <1>13, <1>14, <1>15 DEF UnitInv

LEMMA PrintInstanceInv ==
  ASSUME UnitInv, PrintInstance
  PROVE  UnitInv'
<1>1. Rest(script) /\ Doing("place")
  BY DEF UnitInv, ControlInv, PrintInstance
<1>2. /\ status = "run" /\ script # <<>> /\ Head(script).do = "place"
      /\ IsStep(Head(script)) /\ Rest(script')
      /\ Opens(Head(script)) => script' # <<>> /\ Leads(Head(script), Head(script'))
      /\ script' # <<>> /\ Closes(Head(script')) => Opens(Head(script))
  BY <1>1, Doing_Facts
<1>3. PICK w : Head(script) = Place(w) /\ (w[1] = "copy" => w[3] \in 1..MaxFanout)
  BY <1>2, StepKinds DEF PlaceStep
<1>4. Head(script).unit = w
  BY <1>3, UnitFields
<1>5. /\ circuit' = circuit (+) Elaborated(w)
      /\ UNCHANGED <<todo, have, lib, conf, stat, processes, instances, status>>
  BY <1>4 DEF PrintInstance
<1>6. /\ IsABag(Elaborated(w))
      /\ w[1] # "copy" => BagToSet(Elaborated(w)) = {w}
      /\ w[1] # "copy" => \A y : NumberOf(y, Elaborated(w)) = IF y = w THEN 1 ELSE 0
      /\ w[1] = "copy" => \A y \in BagToSet(Elaborated(w)) : y[1] = "copy_leaf"
  BY <1>3, ElaboratedFacts
<1>7. TypeOK /\ IsFiniteSet(processes) /\ IsFiniteSet(instances) /\ IsABag(circuit)
  BY DEF UnitInv, ControlInv, TypeOK
<1>8. /\ IsABag(circuit')
      /\ BagToSet(circuit') = BagToSet(circuit) \union BagToSet(Elaborated(w))
      /\ \A y : NumberOf(y, circuit') = NumberOf(y, circuit) + NumberOf(y, Elaborated(w))
  BY <1>5, <1>6, <1>7, PlusFacts
<1>9. ControlInv'
  <2>1. TypeOK'
    BY <1>5, <1>7, <1>8 DEF TypeOK
  <2> QED
    BY <1>2, <1>5, <1>7, <2>1 DEF ControlInv
<1>10. NameInv'
  BY <1>5 DEF UnitInv, NameInv
<1>11. w[1] = "func" => script' # <<>> /\ Head(script') = Define(w)
  <2>1. w[1] = "func" => Opens(Head(script))
    BY <1>2, <1>4 DEF Opens
  <2> QED
    BY <1>2, <1>4, <2>1 DEF Leads
<1>12. script' # <<>> /\ Closes(Head(script')) => w[1] = "func"
  BY <1>2, <1>4 DEF Opens
<1>13. FileInv'
  <2>1. FileInv
    BY DEF UnitInv
  <2>2. \A u \in BagToSet(circuit) : u[1] = "func" => BagIn(u, lib)
    <3>1. \A u : Place(w) # Define(u)
      BY <1>2, <1>3, UnitFields
    <3> QED
      BY <1>3, <2>1, <3>1 DEF FileInv, Undefined
  <2>3. \A u \in BagToSet(Elaborated(w)) : u[1] = "func" => u = w
    BY <1>6
  <2>4. \A u \in BagToSet(circuit') : u[1] = "func" => BagIn(u, lib) \/ Undefined(u)'
    BY <1>8, <1>11, <2>2, <2>3 DEF Undefined
  <2>5. \A u \in BagToSet(lib) : BagIn(u, conf)
    BY <1>2, <2>1 DEF FileInv, Unentered, Enters, Going
  <2>6. ASSUME NEW u, u[1] = "func", script' # <<>>, Enters(Head(script'), u)
        PROVE  FALSE
    <3>1. Closes(Head(script'))
      BY <2>6 DEF Closes, Enters
    <3>2. Head(script').do = "define"
      BY <1>11, <1>12, <2>6, <3>1, UnitFields
    <3> QED
      BY <2>6, <3>2 DEF Enters
  <2> QED
    BY <1>5, <2>1, <2>4, <2>5, <2>6 DEF FileInv
<1>14. StatInv'
  <2>1. SUFFICES ASSUME Going', have', NEW u, Tallied(u)
                 PROVE  NumberOf(u, stat') = NumberOf(u, circuit') + Due(u)'
    BY DEF StatInv
  <2>2. NumberOf(u, stat) = NumberOf(u, circuit) + IF u = w THEN 1 ELSE 0
    <3>1. Place(u) = Place(w) => u = w
      BY UnitFields
    <3>2. Due(u) = IF u = w THEN 1 ELSE 0
      BY <1>2, <1>3, <3>1 DEF Due
    <3> QED
      BY <1>2, <1>5, <2>1, <3>2 DEF UnitInv, StatInv, Going
  <2>3. NumberOf(u, Elaborated(w)) = IF u = w THEN 1 ELSE 0
    <3>1. CASE w[1] # "copy"
      BY <1>6, <3>1
    <3>2. CASE w[1] = "copy"
      <4>1. u # w /\ u \notin BagToSet(Elaborated(w))
        BY <1>6, <2>1, <3>2 DEF Tallied
      <4> QED
        BY <4>1 DEF NumberOf, BagIn
    <3> QED
      BY <3>1, <3>2
  <2>4. Due(u)' = 0
    <3>1. ASSUME script' # <<>>, Head(script') = Place(u)
          PROVE  FALSE
      <4>1. Head(script').do = "place" /\ Head(script').unit = u
        BY <3>1, UnitFields
      <4>2. Closes(Head(script'))
        BY <2>1, <4>1 DEF Closes
      <4>3. Head(script').do = "define"
        BY <1>11, <1>12, <3>1, <4>2, UnitFields
      <4> QED
        BY <4>1, <4>3
    <3> QED
      BY <3>1 DEF Due
  <2>5. NumberOf(u, circuit) \in Nat
    BY <1>7 DEF IsABag, NumberOf, BagIn, BagToSet
  <2> QED
    BY <1>5, <1>8, <2>2, <2>3, <2>4, <2>5
<1>15. CoverInv'
  <2>1. CoverInv
    BY DEF UnitInv
  <2> QED
    BY <1>1, <1>4, <1>5, <1>8, <2>1, CoverStep
<1> QED
  BY <1>9, <1>10, <1>13, <1>14, <1>15 DEF UnitInv

LEMMA PrintProcessInv ==
  ASSUME UnitInv, PrintProcess
  PROVE  UnitInv'
<1>1. Rest(script) /\ Doing("define")
  BY DEF UnitInv, ControlInv, PrintProcess
<1>2. /\ status = "run" /\ script # <<>> /\ Head(script).do = "define"
      /\ IsStep(Head(script)) /\ Rest(script')
      /\ Opens(Head(script)) => script' # <<>> /\ Leads(Head(script), Head(script'))
  BY <1>1, Doing_Facts
<1>3. PICK w : Head(script) = Define(w) /\ w[1] = "func"
  BY <1>2, StepKinds DEF DefineStep
<1>4. Head(script).unit = w
  BY <1>3, UnitFields
<1>5. /\ IF w \in processes
         THEN lib' = lib /\ processes' = processes
         ELSE lib' = lib (+) One(w) /\ processes' = Remembered(processes, w)
      /\ UNCHANGED <<todo, have, circuit, conf, stat, instances, status>>
  BY <1>4 DEF PrintProcess
<1>6. /\ TypeOK /\ IsFiniteSet(processes) /\ IsFiniteSet(instances) /\ IsABag(lib)
      /\ Cardinality(processes) <= MAX_PROCESSES /\ Table(processes, lib)
  BY DEF UnitInv, ControlInv, TypeOK, NameInv
<1>7. /\ IsABag(lib') /\ IsFiniteSet(processes') /\ Cardinality(processes') <= MAX_PROCESSES
      /\ Table(processes', lib') /\ BagToSet(lib') = BagToSet(lib) \union {w}
  <2>1. CASE w \in processes
    <3>1. w \in BagToSet(lib)
      BY <1>6, <2>1 DEF Table
    <3> QED
      BY <1>5, <1>6, <2>1, <3>1
  <2>2. CASE w \notin processes
    <3>1. lib' = lib (+) One(w) /\ processes' = Remembered(processes, w)
      BY <1>5, <2>2
    <3>2. IsABag(lib') /\ BagToSet(lib') = BagToSet(lib) \union {w}
      BY <1>6, <3>1, OneFacts, PlusFacts
    <3>3. Table(processes', lib')
      BY <1>6, <2>2, <3>1, TableStep
    <3> QED
      BY <1>6, <2>2, <3>1, <3>2, <3>3, RememberedFacts
  <2> QED
    BY <2>1, <2>2
<1>8. ControlInv'
  <2>1. TypeOK'
    BY <1>5, <1>6, <1>7 DEF TypeOK
  <2> QED
    BY <1>2, <1>5, <1>6, <1>7, <2>1 DEF ControlInv
<1>9. NameInv'
  BY <1>5, <1>7 DEF UnitInv, NameInv
<1>10. script' # <<>> /\ Head(script') = Enter(w, TRUE)
  <2>1. Opens(Head(script))
    BY <1>2 DEF Opens
  <2> QED
    BY <1>2, <1>4, <2>1 DEF Leads
<1>11. Head(script').do = "enter" /\ Head(script').unit = w
  BY <1>10 DEF Enter
<1>12. FileInv'
  <2>1. FileInv
    BY DEF UnitInv
  <2>2. \A u : Define(u) = Define(w) => u = w
    BY UnitFields
  <2>3. \A u \in BagToSet(circuit) : u[1] = "func" => BagIn(u, lib')
    BY <1>3, <1>7, <2>1, <2>2 DEF FileInv, Undefined, BagIn
  <2>4. \A u \in BagToSet(conf) : u[1] = "func" => BagIn(u, lib')
    BY <1>7, <2>1 DEF FileInv, BagIn
  <2>5. \A u : Enters(Head(script'), u) <=> u = w
    BY <1>11 DEF Enters
  <2>6. \A u \in BagToSet(lib) : BagIn(u, conf)
    BY <1>2, <2>1 DEF FileInv, Unentered, Enters, Going
  <2>7. \A u \in BagToSet(lib') : BagIn(u, conf) \/ u = w
    BY <1>7, <2>6
  <2>8. \A u \in BagToSet(lib') : BagIn(u, conf) \/ Unentered(u)'
    BY <1>2, <1>5, <1>10, <2>5, <2>7 DEF Unentered
  <2> QED
    BY <1>5, <1>7, <2>3, <2>4, <2>5, <2>7, <2>8 DEF FileInv, BagIn
<1>13. StatInv'
  <2>1. \A u : Due(u) = 0
    BY <1>2, UnitFields DEF Due
  <2>2. \A u : Due(u)' = 0
    BY <1>11, UnitFields DEF Due
  <2> QED
    BY <1>5, <2>1, <2>2 DEF UnitInv, StatInv, Going
<1>14. CoverInv'
  <2>1. CoverInv
    BY DEF UnitInv
  <2> QED
    BY <1>1, <1>5, <2>1, CoverStep
<1> QED
  BY <1>8, <1>9, <1>12, <1>13, <1>14 DEF UnitInv

(* An entry is written, or there is no metric and the program ends. *)
LEMMA PrintEntryInv ==
  ASSUME UnitInv, PrintEntry
  PROVE  UnitInv'
<1>1. PICK what \in {"enter", "zero"} : Doing(what)
  BY DEF PrintEntry
<1>2. /\ status = "run" /\ script # <<>> /\ Head(script).do = what
      /\ script' = Tail(script) /\ Rest(script')
      /\ script' # <<>> /\ Closes(Head(script')) => Opens(Head(script))
  BY <1>1, Doing_Facts DEF UnitInv, ControlInv
<1>3. PICK w : w = Head(script).unit
  OBVIOUS
<1>4. /\ UNCHANGED <<todo, have, circuit, lib, stat, processes>>
      /\ \/ Entered(w) /\ status' = status
         \/ UNCHANGED <<conf, instances>> /\ status' = "nometrics"
  BY <1>3 DEF PrintEntry, ExitWith
<1>5. /\ TypeOK /\ IsFiniteSet(processes) /\ IsFiniteSet(instances) /\ IsABag(conf)
      /\ Cardinality(instances) <= MAX_PROCESSES /\ Table(instances, conf)
  BY DEF UnitInv, ControlInv, TypeOK, NameInv
<1>6. /\ IsABag(conf') /\ IsFiniteSet(instances') /\ Cardinality(instances') <= MAX_PROCESSES
      /\ Table(instances', conf')
      /\ \/ BagToSet(conf') = BagToSet(conf) \union {w} /\ status' = status
         \/ conf' = conf /\ status' = "nometrics"
  <2>1. CASE Entered(w) /\ status' = status /\ w \in instances
    <3>1. w \in BagToSet(conf) /\ conf' = conf /\ instances' = instances
      BY <1>5, <2>1 DEF Table, Entered
    <3> QED
      BY <1>5, <2>1, <3>1
  <2>2. CASE Entered(w) /\ status' = status /\ w \notin instances
    <3>1. conf' = conf (+) One(w) /\ instances' = Remembered(instances, w)
      BY <2>2 DEF Entered
    <3>2. IsABag(conf') /\ BagToSet(conf') = BagToSet(conf) \union {w}
      BY <1>5, <3>1, OneFacts, PlusFacts
    <3>3. Table(instances', conf')
      BY <1>5, <2>2, <3>1, TableStep
    <3> QED
      BY <1>5, <2>2, <3>1, <3>2, <3>3, RememberedFacts
  <2>3. CASE UNCHANGED <<conf, instances>> /\ status' = "nometrics"
    BY <1>5, <2>3
  <2> QED
    BY <1>4, <2>1, <2>2, <2>3
<1>7. ControlInv'
  <2>1. TypeOK'
    BY <1>2, <1>4, <1>5, <1>6 DEF TypeOK
  <2>2. status' # "done"
    BY <1>2, <1>6
  <2> QED
    BY <1>2, <1>4, <1>5, <1>6, <2>1, <2>2 DEF ControlInv
<1>8. NameInv'
  BY <1>4, <1>6 DEF UnitInv, NameInv
<1>9. script' # <<>> => ~Closes(Head(script'))
  BY <1>2 DEF Opens
<1>10. \A u : Head(script) # Define(u) /\ Head(script) # Place(u)
  BY <1>2, UnitFields
<1>11. \A u : Enters(Head(script), u) <=> u = w
  BY <1>2, <1>3 DEF Enters
<1>12. FileInv'
  <2>1. FileInv
    BY DEF UnitInv
  <2>2. \A u \in BagToSet(circuit) : u[1] = "func" => BagIn(u, lib)
    BY <1>10, <2>1 DEF FileInv, Undefined
  <2>3. w[1] = "func" => BagIn(w, lib)
    BY <1>2, <1>11, <2>1 DEF FileInv
  <2>4. \A u \in BagToSet(conf') : u[1] = "func" => BagIn(u, lib)
    BY <1>6, <2>1, <2>3 DEF FileInv, BagIn
  <2>5. \A u : ~(u[1] = "func" /\ script' # <<>> /\ Enters(Head(script'), u))
    BY <1>9, HeadFacts
  <2>6. \A u \in BagToSet(lib) : BagIn(u, conf) \/ u = w
    BY <1>2, <1>11, <2>1 DEF FileInv, Unentered, Going
  <2>7. \A u \in BagToSet(lib) : BagIn(u, conf') \/ u = w
    BY <1>6, <2>6 DEF BagIn
  <2>8. Going' => \A u \in BagToSet(lib) : BagIn(u, conf')
    BY <1>6, <2>6 DEF BagIn, Going
  <2> QED
    BY <1>4, <2>2, <2>4, <2>5, <2>7, <2>8 DEF FileInv
<1>13. StatInv'
  <2>1. \A u : Due(u) = 0
    BY <1>10 DEF Due
  <2>2. \A u : Tallied(u) => Due(u)' = 0
    BY <1>9, HeadFacts DEF Due
  <2> QED
    BY <1>2, <1>4, <2>1, <2>2 DEF UnitInv, StatInv, Going
<1>14. CoverInv'
  <2>1. CASE BagToSet(conf') = BagToSet(conf) \union {w}
    <3>1. CoverInv /\ Rest(script)
      BY DEF UnitInv, ControlInv
    <3>2. (\A u : BagIn(u, conf) => BagIn(u, conf')) /\ BagIn(w, conf')
      BY <2>1 DEF BagIn
    <3> QED
      BY <1>1, <1>3, <1>4, <3>1, <3>2, CoverStep
  <2>2. CASE status' = "nometrics"
    BY <2>2 DEF CoverInv, Going
  <2> QED
    BY <1>6, <2>1, <2>2
<1> QED
  BY <1>7, <1>8, <1>12, <1>13, <1>14 DEF UnitInv

LEMMA StutterInv ==
  ASSUME UnitInv, UNCHANGED vars
  PROVE  UnitInv'
<1>1. UNCHANGED <<todo, script, have, circuit, lib, conf, stat, processes, instances, status>>
  BY DEF vars
<1>2. ControlInv'
  BY <1>1 DEF UnitInv, ControlInv, TypeOK
<1>3. NameInv'
  BY <1>1 DEF UnitInv, NameInv
<1>4. FileInv'
  BY <1>1 DEF UnitInv, FileInv, Undefined, Unentered, Going
<1>5. StatInv'
  BY <1>1 DEF UnitInv, StatInv, Due, Going
<1>6. CoverInv'
  BY <1>1 DEF UnitInv, CoverInv, Owed, Going
<1> QED
  BY <1>2, <1>3, <1>4, <1>5, <1>6 DEF UnitInv

(* The invariant of the files holds in every reachable state. *)
THEOREM UnitTheorem == Spec => []UnitInv
<1>1. UnitInv /\ [Next]_vars => UnitInv'
  <2> SUFFICES ASSUME UnitInv, [Next]_vars PROVE UnitInv'
    OBVIOUS
  <2>1. CASE \E q \in Requests : Element(q)
    BY <2>1, ElementInv
  <2>2. CASE LookUp
    BY <2>2, LookUpInv
  <2>3. CASE PrintInstance
    BY <2>3, PrintInstanceInv
  <2>4. CASE PrintProcess
    BY <2>4, PrintProcessInv
  <2>5. CASE PrintEntry
    BY <2>5, PrintEntryInv
  <2>6. CASE FileEnding
    BY <2>6, FileEndingInv
  <2>7. CASE UNCHANGED vars
    BY <2>7, StutterInv
  <2> QED
    BY <2>1, <2>2, <2>3, <2>4, <2>5, <2>6, <2>7 DEF Next
<1> QED
  BY <1>1, InitInv, PTL DEF Spec

-----------------------------------------------------------------------------
(* What the runs check. *)

(* The variables keep their types: what goes into the files are bags, and  *)
(* a table of names never has more than MAX_PROCESSES (the arrays of       *)
(* checkAndUpdateInstance and checkAndUpdateProcess).                      *)
THEOREM TypeOKTheorem == Spec => []TypeOK
<1>1. UnitInv => TypeOK
  BY DEF UnitInv, ControlInv
<1> QED
  BY <1>1, UnitTheorem, PTL

(* Nothing is written twice to .conf or _chplib.act by printConf and       *)
(* printFUChpLib, however often it is used, before a table is full.        *)
THEOREM WrittenOnceTheorem == Spec => []WrittenOnce
<1>1. UnitInv => WrittenOnce
  BY DEF UnitInv, NameInv, Table, WrittenOnce
<1> QED
  BY <1>1, UnitTheorem, PTL

(* After each element, what createCopyProcs and the backend have put into  *)
(* the circuit, elaborated through all levels, has an entry in .conf,      *)
(* leaves of one output excepted.                                          *)
THEOREM ConfCoversCircuitTheorem == Spec => []ConfCoversCircuit
<1>1. UnitInv => ConfCoversCircuit
  <2> SUFFICES ASSUME UnitInv, Between, NEW u \in BagToSet(circuit)
               PROVE  BagIn(u, conf) \/ (u[1] = "copy_leaf" /\ u[3] = 1)
    BY DEF ConfCoversCircuit
  <2>1. script = <<>> /\ Going
    BY DEF Between, Going
  <2>2. Owed(u)
    BY <2>1 DEF UnitInv, CoverInv
  <2>3. \A y : ~Has(script, y)
    BY <2>1, TupleFacts DEF Has
  <2> QED
    BY <2>2, <2>3 DEF Owed, Single
<1> QED
  BY <1>1, UnitTheorem, PTL

(* However the run of printFU ends, a function unit is in the library when *)
(* it is in the circuit or in .conf, and at most one is not in .conf yet.  *)
THEOREM FilesInStepTheorem == Spec => []FilesInStep
<1>1. UnitInv => FilesInStep
  <2> SUFFICES ASSUME UnitInv PROVE FilesInStep
    OBVIOUS
  <2>1. FileInv
    BY DEF UnitInv
  <2>2. PICK v : \A u \in BagToSet(lib) : BagIn(u, conf) \/ u = v
    BY <2>1 DEF FileInv
  <2>3. PICK S : S = {u \in BagToSet(lib) : ~BagIn(u, conf)}
    OBVIOUS
  <2>4. S \subseteq {v}
    BY <2>2, <2>3
  <2>5. IsFiniteSet({v}) /\ Cardinality({v}) = 1
    BY FS_Singleton
  <2>6. Cardinality(S) <= 1
    BY <2>4, <2>5, FS_Subset
  <2> QED
    BY <2>1, <2>3, <2>6 DEF FilesInStep, FileInv, Undefined
<1> QED
  BY <1>1, UnitTheorem, PTL

(* After each element, updateStatistics has counted sinks, functions,      *)
(* splits and mixers as often as the circuit has them.                     *)
THEOREM StatCountsUnitsTheorem == Spec => []StatCountsUnits
<1>1. UnitInv => StatCountsUnits
  <2> SUFFICES ASSUME UnitInv, Between, have, NEW u, Tallied(u)
               PROVE  NumberOf(u, stat) = NumberOf(u, circuit)
    BY DEF StatCountsUnits, Tallied
  <2>1. script = <<>> /\ Going
    BY DEF Between, Going
  <2>2. NumberOf(u, stat) = NumberOf(u, circuit) + 0
    BY <2>1 DEF UnitInv, StatInv, Due
  <2>3. NumberOf(u, circuit) \in Nat
    BY DEF UnitInv, ControlInv, TypeOK, IsABag, NumberOf, BagIn, BagToSet
  <2> QED
    BY <2>2, <2>3
<1> QED
  BY <1>1, UnitTheorem, PTL

=============================================================================
