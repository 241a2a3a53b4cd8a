------------------------- MODULE FuncCompileProofs -------------------------
(***************************************************************************)
(* For every set of expressions of any height: the two passes over an      *)
(* expression meet the same channels in the same order, so the unit has    *)
(* the arguments the first pass counted and the widths its name says; and  *)
(* what the generator holds refers to arguments and earlier results only.  *)
(*   Both passes, and the library's list of channels, are recursive        *)
(* functions: that there are such functions, and what holds of all their   *)
(* values, is shown once by induction over the height of expressions.      *)
(***************************************************************************)
EXTENDS FuncCompile, NatLemmas, SequenceTheorems

-----------------------------------------------------------------------------
(* Recursion over the positions of a sequence.                             *)

LEMMA UpInduction ==
  ASSUME NEW n \in Nat, NEW S, 0 \in S, \A i \in 1..n : i - 1 \in S => i \in S
  PROVE  \A i \in 0..n : i \in S
<1> DEFINE T == {i \in 0..n : i \notin S}
<1> SUFFICES ASSUME T # {} PROVE FALSE
  OBVIOUS
<1>1. PICK k \in T : \A i \in T : k <= i
  <2>1. T \subseteq Nat
    OBVIOUS
  <2> HIDE DEF T
  <2> QED
    BY <2>1, LeastNatural
<1>2. k \in 1..n
  OBVIOUS
<1>3. k - 1 \in S
  BY <1>1, <1>2
<1> QED
  BY <1>1, <1>2, <1>3

(* Values that each position makes of the value before it: a chain.        *)
Steps(n, W, w, Step) == w \in W /\ \A i \in 1..n : \A x \in W : Step[i][x] \in W
Chain(F, n, W, w, Step) ==
    F \in [0..n -> W] /\ F[0] = w /\ \A i \in 1..n : F[i] = Step[i][F[i - 1]]

LEMMA ChainRecursion ==
  ASSUME NEW n \in Nat, NEW W, NEW w, NEW Step, Steps(n, W, w, Step)
  PROVE  \E f : Chain(f, n, W, w, Step)
<1> USE DEF Steps
<1> DEFINE parts == [i \in 0..n |-> IF i = 0 THEN <<>> ELSE <<i - 1>>]
           Body == [i \in 0..n |-> [s \in [DOMAIN parts[i] -> W] |-> IF i = 0 THEN w ELSE Step[i][s[1]]]]
           h == [i \in 0..n |-> i]
<1>1. h \in [0..n -> Nat]
  OBVIOUS
<1>2. \A e \in 0..n : \A i \in DOMAIN parts[e] : parts[e][i] \in 0..n /\ h[parts[e][i]] < h[e]
  OBVIOUS
<1>3. ASSUME NEW e \in 0..n, NEW s \in [DOMAIN parts[e] -> W] PROVE Body[e][s] \in W
  <2>1. CASE e = 0
    BY <2>1
  <2>2. CASE e # 0
    <3>1. DOMAIN parts[e] = {1}
      BY <2>2
    <3>2. s[1] \in W /\ e \in 1..n
      BY <2>2, <3>1
    <3>3. Body[e][s] = Step[e][s[1]]
      BY <2>2
    <3> QED
      BY <3>2, <3>3
  <2> QED
    BY <2>1, <2>2
<1>4. \E f \in [0..n -> W] : \A e \in 0..n : f[e] = Body[e][Each(f, parts[e])]
  <2>1. \A e \in 0..n : \A s \in [DOMAIN parts[e] -> W] : Body[e][s] \in W
    BY <1>3
  <2>2. W # {}
    OBVIOUS
  <2> HIDE DEF Body, h, parts
  <2>3. PICK E, p, b, k : E = 0..n /\ p = parts /\ b = Body /\ k = h
    OBVIOUS
  <2>4. Below(E, k, p)
    BY <1>1, <1>2, <2>3 DEF Below
  <2>5. Bodies(E, p, W, b)
    BY <2>1, <2>2, <2>3 DEF Bodies
  <2>6. \E f \in [E -> W] : \A e \in E : f[e] = b[e][Each(f, p[e])]
    BY <2>4, <2>5, TreeRecursion
  <2> QED
    BY <2>3, <2>6
<1>5. PICK f \in [0..n -> W] : \A e \in 0..n : f[e] = Body[e][Each(f, parts[e])]
  BY <1>4
<1>6. f[0] = w
  <2>1. Each(f, parts[0]) \in [DOMAIN parts[0] -> W]
    BY DEF Each
  <2>2. 0 \in 0..n
    OBVIOUS
  <2> QED
    BY <1>5, <2>1, <2>2
<1>7. ASSUME NEW i \in 1..n PROVE f[i] = Step[i][f[i - 1]]
  <2>1. parts[i] = <<i - 1>> /\ DOMAIN parts[i] = {1} /\ i \in 0..n
    OBVIOUS
  <2>2. PICK s : s = Each(f, parts[i])
    OBVIOUS
  <2>3. s \in [DOMAIN parts[i] -> W] /\ s[1] = f[i - 1]
    BY <2>1, <2>2 DEF Each
  <2>4. f[i] = Body[i][s]
    BY <1>5, <2>1, <2>2
  <2> QED
    BY <2>1, <2>3, <2>4
<1>8. Chain(f, n, W, w, Step)
  BY <1>6, <1>7 DEF Chain
<1> QED
  BY <1>8

LEMMA ChainUnique ==
  ASSUME NEW n \in Nat, NEW F, NEW W, NEW w, NEW Step, Chain(F, n, W, w, Step),
         NEW G, G[0] = w, \A i \in 1..n : G[i] = Step[i][G[i - 1]]
  PROVE  \A i \in 0..n : G[i] = F[i]
<1> DEFINE S == {i \in 0..n : G[i] = F[i]}
<1>1. 0 \in S
  BY DEF Chain
<1>2. \A i \in 1..n : i - 1 \in S => i \in S
  BY DEF Chain
<1>3. \A i \in 0..n : i \in S
  <2> HIDE DEF S
  <2> QED
    BY <1>1, <1>2, UpInduction
<1> QED
  BY <1>3

(* FlattenSeq puts the sequences together one after the other.             *)
LEMMA FlattenChain ==
  ASSUME NEW V, NEW seqs \in Seq(Seq(V))
  PROVE  \E F \in [0..Len(seqs) -> Seq(V)] :
            /\ F[0] = <<>> /\ \A i \in 1..Len(seqs) : F[i] = F[i - 1] \o seqs[i]
            /\ FlattenSeq(seqs) = F[Len(seqs)]
<1>1. PICK n, W : n = Len(seqs) /\ W = Seq(V)
  OBVIOUS
<1> DEFINE Step == [i \in 1..n |-> [x \in W |-> x \o seqs[i]]]
<1>2. n \in Nat /\ Steps(n, W, <<>>, Step)
  BY <1>1 DEF Steps
<1>3. PICK G : Chain(G, n, W, <<>>, Step)
  <2> HIDE DEF Step
  <2> QED
    BY <1>2, ChainRecursion
<1>4. G \in [0..n -> W] /\ G[0] = <<>>
  BY <1>3 DEF Chain
<1>5. ASSUME NEW i \in 1..n PROVE G[i] = G[i - 1] \o seqs[i]
  <2>1. i - 1 \in 0..n
    BY <1>2
  <2>2. G[i - 1] \in W
    BY <1>4, <2>1
  <2> QED
    BY <1>3, <2>2 DEF Chain
<1>6. CASE n = 0
  <2>1. seqs = <<>>
    BY <1>1, <1>6, EmptySeq
  <2>2. FlattenSeq(seqs) = <<>>
    BY <2>1 DEF FlattenSeq
  <2> QED
    BY <1>1, <1>4, <1>5, <1>6, <2>2
<1>7. CASE n # 0
  <2> DEFINE Eq(f) == f = [i \in 1..n |-> IF i = 1 THEN seqs[i] ELSE f[i - 1] \o seqs[i]]
  <2>1. G[1] = seqs[1]
    <3>1. 1 \in 1..n /\ 1 - 1 = 0
      BY <1>2, <1>7
    <3>2. G[1] = <<>> \o seqs[1]
      BY <1>4, <1>5, <3>1
    <3>3. seqs[1] \in Seq(V)
      BY <1>1, <3>1
    <3> QED
      BY <3>2, <3>3
  <2>2. PICK g : g = [i \in 1..n |-> G[i]]
    OBVIOUS
  <2>3. \A i \in 1..n : g[i] = IF i = 1 THEN seqs[i] ELSE g[i - 1] \o seqs[i]
    <3>1. ASSUME NEW i \in 1..n, i # 1 PROVE g[i] = g[i - 1] \o seqs[i]
      <4>1. i - 1 \in 1..n
        BY <1>2, <3>1
      <4> QED
        BY <1>5, <2>2, <4>1
    <3> QED
      BY <2>1, <2>2, <3>1
  <2>4. Eq(g)
    BY <2>2, <2>3
  <2>5. PICK f : f = (CHOOSE ff : Eq(ff))
    OBVIOUS
  <2>6. Eq(f)
    <3> HIDE DEF Eq
    <3> QED
      BY <2>4, <2>5
  <2>7. FlattenSeq(seqs) = f[n]
    BY <1>1, <1>7, <2>5 DEF FlattenSeq
  <2>8. \A i \in 0..n : i = 0 \/ f[i] = G[i]
    <3> DEFINE S == {i \in 0..n : i = 0 \/ f[i] = G[i]}
    <3>1. 0 \in S
      BY <1>2
    <3>2. ASSUME NEW i \in 1..n, i - 1 \in S PROVE i \in S
      <4>1. i \in 0..n /\ (i # 1 => i - 1 # 0)
        BY <1>2
      <4>2. i # 1 => f[i - 1] = G[i - 1]
        BY <3>2, <4>1
      <4>3. f[i] = G[i]
        BY <1>5, <2>1, <2>6, <4>2
      <4> QED
        BY <4>1, <4>3
    <3>3. \A i \in 0..n : i \in S
      <4> HIDE DEF S
      <4> QED
        BY <1>2, <3>1, <3>2, UpInduction
    <3> QED
      BY <3>3
  <2>9. f[n] = G[n]
    BY <1>2, <1>7, <2>8
  <2> QED
    BY <1>1, <1>4, <1>5, <2>7, <2>9
<1> QED
  BY <1>2, <1>6, <1>7

(* FlattenSeq of a longer sequence, and what occurs in it.                 *)
LEMMA FlattenAppend ==
  ASSUME NEW V, NEW seqs \in Seq(Seq(V)), NEW s \in Seq(V)
  PROVE  FlattenSeq(Append(seqs, s)) = FlattenSeq(seqs) \o s
<1>1. PICK n, more : n = Len(seqs) /\ more = Append(seqs, s)
  OBVIOUS
<1>2. n \in Nat /\ more \in Seq(Seq(V)) /\ Len(more) = n + 1 /\ more[n + 1] = s
  BY <1>1
<1>3. \A i \in 1..n : more[i] = seqs[i]
  BY <1>1
<1>4. PICK F \in [0..n -> Seq(V)] :
         /\ F[0] = <<>> /\ \A i \in 1..n : F[i] = F[i - 1] \o seqs[i]
         /\ FlattenSeq(seqs) = F[n]
  BY <1>1, FlattenChain
<1>5. PICK G \in [0..(n + 1) -> Seq(V)] :
         /\ G[0] = <<>> /\ \A i \in 1..(n + 1) : G[i] = G[i - 1] \o more[i]
         /\ FlattenSeq(more) = G[n + 1]
  <2>1. PICK G \in [0..Len(more) -> Seq(V)] :
         /\ G[0] = <<>> /\ \A i \in 1..Len(more) : G[i] = G[i - 1] \o more[i]
         /\ FlattenSeq(more) = G[Len(more)]
    <3>1. more \in Seq(Seq(V))
      BY <1>2
    <3> QED
      BY <3>1, FlattenChain
  <2> QED
    BY <1>2, <2>1
<1> DEFINE S == {i \in 0..n : G[i] = F[i]}
<1>6. 0 \in S
  BY <1>2, <1>4, <1>5
<1>7. ASSUME NEW i \in 1..n, i - 1 \in S PROVE i \in S
  <2>1. i \in 0..n /\ i \in 1..(n + 1)
    BY <1>2
  <2> QED
    BY <1>3, <1>4, <1>5, <1>7, <2>1
<1>8. \A i \in 0..n : i \in S
  <2> HIDE DEF S
  <2> QED
    BY <1>2, <1>6, <1>7, UpInduction
<1>9. G[n] = F[n]
  BY <1>2, <1>8
<1>10. G[n + 1] = G[n] \o s
  <2>1. n + 1 \in 1..(n + 1) /\ (n + 1) - 1 = n
    BY <1>2
  <2> QED
    BY <1>2, <1>5, <2>1
<1> QED
  BY <1>1, <1>4, <1>5, <1>9, <1>10

LEMMA FlattenFacts ==
  ASSUME NEW V, NEW seqs \in Seq(Seq(V))
  PROVE  /\ FlattenSeq(seqs) \in Seq(V)
         /\ Range(FlattenSeq(seqs)) = UNION {Range(seqs[i]) : i \in DOMAIN seqs}
<1>1. PICK n : n = Len(seqs) /\ n \in Nat /\ DOMAIN seqs = 1..n
  OBVIOUS
<1>2. PICK F \in [0..n -> Seq(V)] :
         /\ F[0] = <<>> /\ \A i \in 1..n : F[i] = F[i - 1] \o seqs[i]
         /\ FlattenSeq(seqs) = F[n]
  BY <1>1, FlattenChain
<1> DEFINE S == {k \in 0..n : Range(F[k]) = UNION {Range(seqs[i]) : i \in 1..k}}
<1>3. 0 \in S
  <2>1. Range(F[0]) = {}
    BY <1>2 DEF Range
  <2>2. 1..0 = {}
    OBVIOUS
  <2> QED
    BY <1>1, <2>1, <2>2
<1>4. ASSUME NEW k \in 1..n, k - 1 \in S PROVE k \in S
  <2>1. k \in 0..n /\ k - 1 \in 0..n /\ 1..k = 1..(k - 1) \cup {k}
    BY <1>1
  <2>2. F[k - 1] \in Seq(V) /\ F[k] = F[k - 1] \o seqs[k]
    BY <1>2, <2>1
  <2>3. Range(F[k]) = Range(F[k - 1]) \cup Range(seqs[k])
    <3>1. PICK b \in Seq(V) : b = seqs[k]
      BY <1>1, ElementOfSeq
    <3>2. PICK a \in Seq(V) : a = F[k - 1]
      BY <2>2
    <3>3. Range(a \o b) = Range(a) \cup Range(b)
      BY RangeConcatenation
    <3> QED
      BY <2>2, <3>1, <3>2, <3>3
  <2>4. Range(F[k - 1]) = UNION {Range(seqs[i]) : i \in 1..(k - 1)}
    BY <1>4
  <2>5. Range(F[k]) = UNION {Range(seqs[i]) : i \in 1..k}
    BY <2>1, <2>3, <2>4
  <2> QED
    BY <2>1, <2>5
<1>5. \A k \in 0..n : k \in S
  <2> HIDE DEF S
  <2> QED
    BY <1>1, <1>3, <1>4, UpInduction
<1>6. n \in S
  BY <1>1, <1>5
<1> QED
  BY <1>1, <1>2, <1>6

-----------------------------------------------------------------------------
(* The list of channels without repetitions, as genExprName makes it.      *)

LEMMA DistinctChain ==
  ASSUME NEW V, NEW t \in Seq(V)
  PROVE  \E F \in [0..Len(t) -> Seq(V)] :
            /\ F[0] = <<>> /\ \A i \in 1..Len(t) : F[i] = Add(F[i - 1], t[i])
            /\ Distinct(t) = F[Len(t)]
<1>1. PICK n, W : n = Len(t) /\ W = Seq(V)
  OBVIOUS
<1> DEFINE Step == [i \in 1..n |-> [x \in W |-> Add(x, t[i])]]
<1>2. n \in Nat
  BY <1>1
<1>3. Steps(n, W, <<>>, Step)
  <2>1. ASSUME NEW i \in 1..n, NEW x \in W PROVE Add(x, t[i]) \in W
    BY <1>1 DEF Add
  <2> QED
    BY <1>1, <2>1 DEF Steps
<1>4. PICK G : Chain(G, n, W, <<>>, Step)
  <2> HIDE DEF Step
  <2> QED
    BY <1>2, <1>3, ChainRecursion
<1>5. G \in [0..n -> W] /\ G[0] = <<>>
  BY <1>4 DEF Chain
<1>6. ASSUME NEW i \in 1..n PROVE G[i] = Add(G[i - 1], t[i])
  <2>1. i - 1 \in 0..n
    BY <1>2
  <2>2. G[i - 1] \in W
    BY <1>5, <2>1
  <2> QED
    BY <1>4, <2>2 DEF Chain
<1> DEFINE Eq(f) == f = [i \in 0..n |-> IF i = 0 THEN <<>> ELSE Add(f[i - 1], t[i])]
<1>7. Eq(G)
  <2>1. \A i \in 0..n : G[i] = IF i = 0 THEN <<>> ELSE Add(G[i - 1], t[i])
    BY <1>2, <1>5, <1>6
  <2> QED
    BY <1>5, <2>1
<1>8. PICK f : f = (CHOOSE ff : Eq(ff))
  OBVIOUS
<1>9. Eq(f)
  <2> HIDE DEF Eq
  <2> QED
    BY <1>7, <1>8
<1>10. Distinct(t) = f[n]
  BY <1>1, <1>8 DEF Distinct
<1>11. \A i \in 0..n : f[i] = G[i]
  <2> DEFINE S == {i \in 0..n : f[i] = G[i]}
  <2>1. 0 \in S
    BY <1>2, <1>5, <1>9
  <2>2. ASSUME NEW i \in 1..n, i - 1 \in S PROVE i \in S
    <3>1. i \in 0..n /\ i # 0
      BY <1>2
    <3>2. f[i] = Add(f[i - 1], t[i])
      BY <1>9, <3>1
    <3> QED
      BY <1>6, <2>2, <3>1, <3>2
  <2>3. \A i \in 0..n : i \in S
    <3> HIDE DEF S
    <3> QED
      BY <1>2, <2>1, <2>2, UpInduction
  <2> QED
    BY <2>3
<1>12. f[n] = G[n]
  BY <1>2, <1>11
<1> QED
  BY <1>1, <1>5, <1>6, <1>10, <1>12

(* Distinct of a longer sequence.                                          *)
LEMMA DistinctAppend ==
  ASSUME NEW V, NEW t \in Seq(V), NEW x \in V
  PROVE  Distinct(Append(t, x)) = Add(Distinct(t), x)
<1>1. PICK n, more : n = Len(t) /\ more = Append(t, x)
  OBVIOUS
<1>2. n \in Nat /\ more \in Seq(V) /\ Len(more) = n + 1 /\ more[n + 1] = x
  BY <1>1
<1>3. \A i \in 1..n : more[i] = t[i]
  BY <1>1
<1>4. PICK F \in [0..n -> Seq(V)] :
         /\ F[0] = <<>> /\ \A i \in 1..n : F[i] = Add(F[i - 1], t[i])
         /\ Distinct(t) = F[n]
  BY <1>1, DistinctChain
<1>5. PICK G \in [0..(n + 1) -> Seq(V)] :
         /\ G[0] = <<>> /\ \A i \in 1..(n + 1) : G[i] = Add(G[i - 1], more[i])
         /\ Distinct(more) = G[n + 1]
  <2>1. PICK G \in [0..Len(more) -> Seq(V)] :
         /\ G[0] = <<>> /\ \A i \in 1..Len(more) : G[i] = Add(G[i - 1], more[i])
         /\ Distinct(more) = G[Len(more)]
    <3>1. more \in Seq(V)
      BY <1>2
    <3> QED
      BY <3>1, DistinctChain
  <2> QED
    BY <1>2, <2>1
<1> DEFINE S == {i \in 0..n : G[i] = F[i]}
<1>6. 0 \in S
  BY <1>2, <1>4, <1>5
<1>7. ASSUME NEW i \in 1..n, i - 1 \in S PROVE i \in S
  <2>1. i \in 0..n /\ i \in 1..(n + 1)
    BY <1>2
  <2> QED
    BY <1>3, <1>4, <1>5, <1>7, <2>1
<1>8. \A i \in 0..n : i \in S
  <2> HIDE DEF S
  <2> QED
    BY <1>2, <1>6, <1>7, UpInduction
<1>9. G[n] = F[n]
  BY <1>2, <1>8
<1>10. G[n + 1] = Add(G[n], x)
  <2>1. n + 1 \in 1..(n + 1) /\ (n + 1) - 1 = n
    BY <1>2
  <2> QED
    BY <1>2, <1>5, <2>1
<1> QED
  BY <1>1, <1>4, <1>5, <1>9, <1>10

(* It holds what the sequence holds, each once.                            *)
LEMMA AddFacts ==
  ASSUME NEW V, NEW s \in Seq(V), NEW x \in V, IsInjective(s)
  PROVE  Add(s, x) \in Seq(V) /\ IsInjective(Add(s, x)) /\ Range(Add(s, x)) = Range(s) \cup {x}
<1>1. CASE x \in Range(s)
  BY <1>1 DEF Add
<1>2. CASE x \notin Range(s)
  <2>1. PICK r : r = Append(s, x)
    OBVIOUS
  <2>2. r \in Seq(V) /\ Len(r) = Len(s) + 1 /\ r[Len(s) + 1] = x /\ DOMAIN r = 1..(Len(s) + 1)
    BY <2>1
  <2>3. \A i \in 1..Len(s) : r[i] = s[i]
    BY <2>1
  <2>4. \A i \in 1..Len(s) : s[i] # x
    BY <1>2 DEF Range
  <2>5. IsInjective(r)
    <3> SUFFICES ASSUME NEW i \in DOMAIN r, NEW j \in DOMAIN r, r[i] = r[j] PROVE i = j
      BY DEF IsInjective
    <3>1. CASE i \in 1..Len(s) /\ j \in 1..Len(s)
      <4>1. s[i] = s[j] /\ DOMAIN s = 1..Len(s)
        BY <2>3, <3>1
      <4> QED
        BY <3>1, <4>1 DEF IsInjective
    <3>2. CASE i \in 1..Len(s) /\ j = Len(s) + 1
      BY <2>2, <2>3, <2>4, <3>2
    <3>3. CASE j \in 1..Len(s) /\ i = Len(s) + 1
      BY <2>2, <2>3, <2>4, <3>3
    <3>4. Len(s) \in Nat
      OBVIOUS
    <3> QED
      BY <2>2, <3>1, <3>2, <3>3, <3>4
  <2>6. Range(r) = Range(s) \cup {x}
    <3>1. DOMAIN s = 1..Len(s) /\ Len(s) \in Nat
      OBVIOUS
    <3>2. DOMAIN r = DOMAIN s \cup {Len(s) + 1}
      BY <2>2, <3>1
    <3> QED
      BY <2>2, <2>3, <3>1, <3>2 DEF Range
  <2> QED
    BY <1>2, <2>1, <2>2, <2>5, <2>6 DEF Add
<1> QED
  BY <1>1, <1>2

LEMMA DistinctFacts ==
  ASSUME NEW V, NEW t \in Seq(V)
  PROVE  Distinct(t) \in Seq(V) /\ IsInjective(Distinct(t)) /\ Range(Distinct(t)) = Range(t)
<1>1. PICK n : n = Len(t) /\ n \in Nat /\ DOMAIN t = 1..n
  OBVIOUS
<1>2. PICK F \in [0..n -> Seq(V)] :
         /\ F[0] = <<>> /\ \A i \in 1..n : F[i] = Add(F[i - 1], t[i])
         /\ Distinct(t) = F[n]
  BY <1>1, DistinctChain
<1> DEFINE S == {k \in 0..n : IsInjective(F[k]) /\ Range(F[k]) = {t[i] : i \in 1..k}}
<1>3. 0 \in S
  <2>1. Range(F[0]) = {} /\ IsInjective(F[0])
    BY <1>2 DEF Range, IsInjective
  <2>2. 1..0 = {}
    OBVIOUS
  <2> QED
    BY <1>1, <2>1, <2>2
<1>4. ASSUME NEW k \in 1..n, k - 1 \in S PROVE k \in S
  <2>1. k \in 0..n /\ k - 1 \in 0..n /\ 1..k = 1..(k - 1) \cup {k}
    BY <1>1
  <2>2. PICK s \in Seq(V), x \in V : s = F[k - 1] /\ x = t[k] /\ IsInjective(s)
    <3>1. t[k] \in V
      BY <1>1, ElementOfSeq
    <3> QED
      BY <1>2, <1>4, <2>1, <3>1
  <2>3. IsInjective(Add(s, x)) /\ Range(Add(s, x)) = Range(s) \cup {x}
    <3>1. IsInjective(s)
      BY <2>2
    <3> QED
      BY <3>1, AddFacts
  <2>4. F[k] = Add(s, x)
    BY <1>2, <2>2
  <2>5. Range(F[k]) = {t[i] : i \in 1..k}
    BY <1>4, <2>1, <2>2, <2>3, <2>4
  <2> QED
    BY <2>1, <2>3, <2>4, <2>5
<1>5. \A k \in 0..n : k \in S
  <2> HIDE DEF S
  <2> QED
    BY <1>1, <1>3, <1>4, UpInduction
<1>6. n \in S
  BY <1>1, <1>5
<1>7. Range(t) = {t[i] : i \in 1..n}
  BY <1>1 DEF Range
<1> QED
  BY <1>1, <1>2, <1>6, <1>7

-----------------------------------------------------------------------------
(* The first pass: what the recursive functions over expressions compute.  *)

Args == [e \in Exprs |-> e.args]

LEMMA ExprsBelow == Below(Exprs, Height, Args)
BY ExprsAssumption, LenProperties DEF Below, Args, Formed

LEMMA IdsEquation ==
  /\ \A e \in Exprs : Ids[e] \in Seq(Vars)
  /\ \A e \in Exprs : Ids[e] = IdsIn(e, Each(Ids, e.args))
<1>1. PICK W : W = Seq(Vars)
  OBVIOUS
<1> DEFINE Body == [e \in Exprs |-> [s \in [DOMAIN Args[e] -> W] |-> IdsIn(e, s)]]
<1>2. ASSUME NEW e \in Exprs, NEW s \in [DOMAIN Args[e] -> W] PROVE IdsIn(e, s) \in W
  <2>1. e.args \in Seq(Exprs) /\ (e.op \in {"var", "bitfield"} => e.var \in Vars)
    BY ExprsAssumption DEF Formed
  <2>2. s \in Seq(Seq(Vars))
    BY <1>1, <2>1 DEF Args
  <2>3. FlattenSeq(s) \in Seq(Vars)
    BY <2>2, FlattenFacts
  <2> QED
    BY <1>1, <2>1, <2>3 DEF IdsIn
<1>3. Bodies(Exprs, Args, W, Body)
  <2>1. <<>> \in W
    BY <1>1
  <2>2. W # {}
    BY <2>1
  <2> QED
    BY <1>2, <2>2 DEF Bodies
<1> DEFINE Eq(f) == f = [e \in Exprs |-> IdsIn(e, [i \in DOMAIN e.args |-> f[e.args[i]]])]
<1>4. PICK f \in [Exprs -> W] : \A e \in Exprs : f[e] = Body[e][Each(f, Args[e])]
  <2> HIDE DEF Body
  <2> QED
    BY <1>3, ExprsBelow, TreeRecursion
<1>5. Eq(f)
  <2>1. ASSUME NEW e \in Exprs PROVE f[e] = IdsIn(e, [i \in DOMAIN e.args |-> f[e.args[i]]])
    <3>1. Each(f, Args[e]) \in [DOMAIN Args[e] -> W]
      BY ExprsBelow DEF Each, Below
    <3>2. f[e] = IdsIn(e, Each(f, Args[e]))
      BY <1>4, <3>1
    <3> QED
      BY <3>2 DEF Each, Args
  <2> QED
    BY <2>1
<1>6. Eq(Ids)
  <2>1. Ids = (CHOOSE ff : Eq(ff))
    BY DEF Ids
  <2> HIDE DEF Eq
  <2> QED
    BY <1>5, <2>1
<1>7. ASSUME NEW e \in Exprs PROVE Ids[e] = IdsIn(e, Each(Ids, e.args))
  BY <1>6 DEF Each
<1>8. Obeys(Exprs, Args, W, Body, Ids)
  BY <1>7 DEF Obeys, Args
<1>9. \A e \in Exprs : Ids[e] \in W
  <2> HIDE DEF Body
  <2> QED
    BY <1>3, <1>8, ExprsBelow, TreeValues
<1> QED
  BY <1>1, <1>7, <1>9

(* The channels that are counted are those that are listed.                *)
LEMMA UsesAreIds == \A e \in Exprs : UsesOf[e] = Range(Ids[e]) /\ UsesOf[e] \subseteq Vars
<1> DEFINE W == SUBSET Vars
           Body == [e \in Exprs |-> [s \in [DOMAIN Args[e] -> W] |-> UsesIn(e, s)]]
           Eq(f) == f = [e \in Exprs |-> UsesIn(e, [i \in DOMAIN e.args |-> f[e.args[i]]])]
<1>1. ASSUME NEW e \in Exprs, NEW s \in [DOMAIN Args[e] -> W] PROVE UsesIn(e, s) \in W
  <2>1. e.op \in {"var", "bitfield"} => e.var \in Vars
    BY ExprsAssumption DEF Formed
  <2>2. UNION Range(s) \subseteq Vars
    BY DEF Range
  <2> QED
    BY <2>1, <2>2 DEF UsesIn
<1>2. Bodies(Exprs, Args, W, Body)
  <2>1. W # {}
    OBVIOUS
  <2> QED
    BY <1>1, <2>1 DEF Bodies
<1>3. PICK f \in [Exprs -> W] : \A e \in Exprs : f[e] = Body[e][Each(f, Args[e])]
  <2> HIDE DEF Body, W
  <2> QED
    BY <1>2, ExprsBelow, TreeRecursion
<1>4. Eq(f)
  <2>1. ASSUME NEW e \in Exprs PROVE f[e] = UsesIn(e, [i \in DOMAIN e.args |-> f[e.args[i]]])
    <3>1. Each(f, Args[e]) \in [DOMAIN Args[e] -> W]
      BY ExprsBelow DEF Each, Below
    <3>2. f[e] = UsesIn(e, Each(f, Args[e]))
      BY <1>3, <3>1
    <3> QED
      BY <3>2 DEF Each, Args
  <2> QED
    BY <2>1
<1>5. Eq(UsesOf)
  <2>1. UsesOf = (CHOOSE ff : Eq(ff))
    BY DEF UsesOf
  <2> HIDE DEF Eq
  <2> QED
    BY <1>4, <2>1
<1>6. ASSUME NEW e \in Exprs PROVE UsesOf[e] = UsesIn(e, Each(UsesOf, e.args))
  BY <1>5 DEF Each
<1> DEFINE S == {e \in Exprs : UsesOf[e] = Range(Ids[e])}
<1>7. ASSUME NEW e \in Exprs, \A i \in DOMAIN e.args : e.args[i] \in S PROVE e \in S
  <2>1. Ids[e] = IdsIn(e, Each(Ids, e.args)) /\ e.args \in Seq(Exprs)
    BY IdsEquation, ExprsAssumption DEF Formed
  <2>2. CASE e.op \in {"var", "bitfield"}
    <3>1. Ids[e] = <<e.var>> /\ UsesOf[e] = {e.var}
      BY <1>6, <2>1, <2>2 DEF IdsIn, UsesIn
    <3> QED
      BY <3>1 DEF Range
  <2>3. CASE e.op \notin {"var", "bitfield"}
    <3>1. Ids[e] = FlattenSeq(Each(Ids, e.args)) /\ UsesOf[e] = UNION Range(Each(UsesOf, e.args))
      BY <1>6, <2>1, <2>3 DEF IdsIn, UsesIn
    <3>2. Each(Ids, e.args) \in Seq(Seq(Vars)) /\ DOMAIN Each(Ids, e.args) = DOMAIN e.args
      BY <2>1, IdsEquation DEF Each
    <3>3. Range(Ids[e]) = UNION {Range(Each(Ids, e.args)[i]) : i \in DOMAIN e.args}
      BY <3>1, <3>2, FlattenFacts
    <3>4. \A i \in DOMAIN e.args : Range(Each(Ids, e.args)[i]) = Each(UsesOf, e.args)[i]
      BY <1>7 DEF Each
    <3>5. DOMAIN Each(UsesOf, e.args) = DOMAIN e.args
      BY DEF Each
    <3>6. UNION Range(Each(UsesOf, e.args)) = UNION {Each(UsesOf, e.args)[i] : i \in DOMAIN e.args}
      BY <3>5 DEF Range
    <3> QED
      BY <3>1, <3>3, <3>4, <3>6
  <2> QED
    BY <2>2, <2>3
<1>8. Inherited(Exprs, Args, S)
  BY <1>7 DEF Inherited, Args
<1>9. Exprs \subseteq S
  <2> HIDE DEF S
  <2> QED
    BY <1>8, ExprsBelow, TreeInduction
<1>10. \A e \in Exprs : Range(Ids[e]) \subseteq Vars
  BY IdsEquation, RangeOfSeq
<1> QED
  BY <1>9, <1>10

-----------------------------------------------------------------------------
(* The second pass: the steps of the generator keep its types.             *)

LEMMA NameType == \A i \in Nat : Name("x", i) \in Names /\ Name("res", i) \in Names /\ Name("int", i) \in Names
BY DEF Name, Names

LEMMA ArgumentType ==
  ASSUME NEW g \in Gen, NEW v \in Vars
  PROVE  /\ Argument(g, v) \in Gen
         /\ Argument(g, v).args = Add(g.args, v) /\ Argument(g, v).code = g.code
         /\ Argument(g, v).hidden = g.hidden /\ Argument(g, v).bw = g.bw
         /\ \E i \in DOMAIN Argument(g, v).args : Argument(g, v).name = Name("x", i)
<1>1. g.args \in Seq(Vars) /\ DOMAIN g.args \subseteq Nat
  BY DEF Gen
<1>2. CASE v \in Range(g.args)
  <2>1. PICK i \in DOMAIN g.args : i = CHOOSE k \in DOMAIN g.args : g.args[k] = v
    BY <1>2 DEF Range
  <2>2. Argument(g, v) = [g EXCEPT !.name = Name("x", i)] /\ Add(g.args, v) = g.args
    BY <1>2, <2>1 DEF Argument, Add
  <2>3. Name("x", i) \in Names
    BY <1>1, NameType
  <2>4. PICK h \in Gen : h = [g EXCEPT !.name = Name("x", i)]
    BY <2>3 DEF Gen
  <2> QED
    BY <2>2, <2>4 DEF Gen
<1>3. CASE v \notin Range(g.args)
  <2>1. PICK r : r = Append(g.args, v)
    OBVIOUS
  <2>2. r \in Seq(Vars) /\ DOMAIN r = 1..(Len(g.args) + 1) /\ Len(g.args) + 1 \in Nat
    BY <1>1, <2>1
  <2>3. Argument(g, v) = [g EXCEPT !.args = r, !.name = Name("x", Len(g.args) + 1)] /\ Add(g.args, v) = r
    BY <1>3, <2>1 DEF Argument, Add
  <2>4. Name("x", Len(g.args) + 1) \in Names /\ Len(g.args) + 1 \in DOMAIN r
    BY <2>2, NameType
  <2>5. PICK h \in Gen : h = [g EXCEPT !.args = r, !.name = Name("x", Len(g.args) + 1)]
    BY <2>2, <2>4 DEF Gen
  <2> QED
    BY <2>3, <2>4, <2>5 DEF Gen
<1> QED
  BY <1>2, <1>3

(* h is g after the assignment a. *)
Assigned(g, h, a, hidden) ==
    /\ h.args = g.args /\ h.bw = g.bw /\ h.name = Name("res", Len(g.code) + 1)
    /\ h.code = Append(g.code, a) /\ h.hidden = Append(g.hidden, hidden)

LEMMA AssignType ==
  ASSUME NEW g \in Gen, NEW op \in Ops \cup {"port"}, NEW names \in Seq(Names), NEW nums \in Seq(Nat),
         NEW bw \in Nat, NEW hidden \in Nat
  PROVE  Assign(g, op, names, nums, bw, hidden) \in Gen
         /\ Assigned(g, Assign(g, op, names, nums, bw, hidden),
                     [op |-> op, args |-> names, nums |-> nums, bw |-> bw], hidden)
<1>1. PICK a \in Assignments : a = [op |-> op, args |-> names, nums |-> nums, bw |-> bw]
  BY DEF Assignments
<1>2. g.code \in Seq(Assignments) /\ g.hidden \in Seq(Nat)
  BY DEF Gen
<1>3. PICK c \in Seq(Assignments) : c = Append(g.code, a) /\ Len(c) = Len(g.code) + 1 /\ Len(c) \in Nat
  <2>1. PICK s \in Seq(Assignments) : s = g.code
    BY <1>2
  <2>2. Append(s, a) \in Seq(Assignments) /\ Len(Append(s, a)) = Len(s) + 1
    BY AppendProperties
  <2>3. Len(Append(s, a)) \in Nat
    BY <2>2, LenProperties
  <2> QED
    BY <2>1, <2>2, <2>3
<1>4. PICK w \in Seq(Nat) : w = Append(g.hidden, hidden)
  BY <1>2, AppendProperties
<1>5. Name("res", Len(g.code) + 1) \in Names
  BY <1>3, NameType
<1>6. PrintChp(g, op, names, nums, bw) = [g EXCEPT !.code = c]
  BY <1>1, <1>3 DEF PrintChp
<1>7. Assign(g, op, names, nums, bw, hidden) =
        [g EXCEPT !.code = c, !.hidden = w, !.name = Name("res", Len(g.code) + 1)]
  BY <1>3, <1>4, <1>6 DEF Assign, PrepareForOpt, Gen
<1>8. PICK h \in Gen : h = [g EXCEPT !.code = c, !.hidden = w, !.name = Name("res", Len(g.code) + 1)]
  BY <1>5 DEF Gen
<1> QED
  BY <1>1, <1>3, <1>4, <1>7, <1>8 DEF Gen, Assigned

Printings == [g : Gen, names : Seq(Names)]

LEMMA PrintNextType ==
  ASSUME NEW op \in [Gen -> Gen], NEW p \in Printings
  PROVE  PrintNext(op, p) \in Printings
<1>1. p.g \in Gen /\ p.names \in Seq(Names)
  BY DEF Printings
<1>2. op[p.g] \in Gen
  BY <1>1
<1>3. op[p.g].name \in Names
  BY <1>2 DEF Gen
<1> QED
  BY <1>1, <1>2, <1>3 DEF PrintNext, Printings

LEMMA PrintAllChain ==
  ASSUME NEW ops \in Seq([Gen -> Gen]), NEW g \in Gen
  PROVE  \E F \in [0..Len(ops) -> Printings] :
            /\ F[0] = [g |-> g, names |-> <<>>]
            /\ \A i \in 1..Len(ops) : F[i] = PrintNext(ops[i], F[i - 1])
            /\ PrintAll(ops, g) = F[Len(ops)]
<1>1. PICK n, none : n = Len(ops) /\ none = [g |-> g, names |-> <<>>]
  OBVIOUS
<1> DEFINE Step == [i \in 1..n |-> [x \in Printings |-> PrintNext(ops[i], x)]]
<1>2. n \in Nat
  BY <1>1
<1>3. Steps(n, Printings, none, Step)
  <2>1. none \in Printings
    BY <1>1 DEF Printings
  <2>2. ASSUME NEW i \in 1..n, NEW x \in Printings PROVE PrintNext(ops[i], x) \in Printings
    <3>1. ops[i] \in [Gen -> Gen]
      BY <1>1, ElementOfSeq
    <3> QED
      BY <3>1, PrintNextType
  <2> QED
    BY <1>1, <2>1, <2>2 DEF Steps
<1>4. PICK G : Chain(G, n, Printings, none, Step)
  <2> HIDE DEF Step
  <2> QED
    BY <1>2, <1>3, ChainRecursion
<1>5. G \in [0..n -> Printings] /\ G[0] = none
  BY <1>4 DEF Chain
<1>6. ASSUME NEW i \in 1..n PROVE G[i] = PrintNext(ops[i], G[i - 1])
  <2>1. i - 1 \in 0..n
    BY <1>2
  <2>2. G[i - 1] \in Printings
    BY <1>5, <2>1
  <2> QED
    BY <1>4, <2>2 DEF Chain
<1> DEFINE Eq(f) == f = [i \in 0..n |-> IF i = 0 THEN none ELSE PrintNext(ops[i], f[i - 1])]
<1>7. Eq(G)
  <2>1. \A i \in 0..n : G[i] = IF i = 0 THEN none ELSE PrintNext(ops[i], G[i - 1])
    BY <1>2, <1>5, <1>6
  <2> QED
    BY <1>5, <2>1
<1>8. PICK f : f = (CHOOSE ff : Eq(ff))
  OBVIOUS
<1>9. Eq(f)
  <2> HIDE DEF Eq
  <2> QED
    BY <1>7, <1>8
<1>10. PrintAll(ops, g) = f[n]
  BY <1>1, <1>8 DEF PrintAll
<1>11. \A i \in 0..n : f[i] = G[i]
  <2> DEFINE S == {i \in 0..n : f[i] = G[i]}
  <2>1. 0 \in S
    BY <1>2, <1>5, <1>9
  <2>2. ASSUME NEW i \in 1..n, i - 1 \in S PROVE i \in S
    <3>1. i \in 0..n /\ i # 0
      BY <1>2
    <3>2. f[i] = PrintNext(ops[i], f[i - 1])
      BY <1>9, <3>1
    <3> QED
      BY <1>6, <2>2, <3>1, <3>2
  <2>3. \A i \in 0..n : i \in S
    <3> HIDE DEF S
    <3> QED
      BY <1>2, <2>1, <2>2, UpInduction
  <2> QED
    BY <2>3
<1>12. f[n] = G[n]
  BY <1>2, <1>11
<1> QED
  BY <1>1, <1>5, <1>6, <1>10, <1>12

LEMMA PrintAllType ==
  ASSUME NEW ops \in Seq([Gen -> Gen]), NEW g \in Gen
  PROVE  PrintAll(ops, g) \in Printings
<1>1. PICK F \in [0..Len(ops) -> Printings] : PrintAll(ops, g) = F[Len(ops)]
  BY PrintAllChain
<1>2. Len(ops) \in 0..Len(ops)
  BY LenProperties
<1> QED
  BY <1>1, <1>2

(* The operands of an expression, when there are generators for its parts. *)
LEMMA OperandsType ==
  ASSUME NEW e \in Exprs, NEW ops \in [DOMAIN e.args -> [Gen -> Gen]]
  PROVE  /\ ops \in Seq([Gen -> Gen]) /\ DOMAIN ops = 1..Len(ops) /\ Len(ops) = Len(e.args)
         /\ e.op \in {"cast", "sized", "bool"} => Len(ops) = 1 /\ ops[1] \in [Gen -> Gen]
         /\ e.op = "query" => /\ Len(ops) = 3
                              /\ ops[1] \in [Gen -> Gen] /\ ops[2] \in [Gen -> Gen] /\ ops[3] \in [Gen -> Gen]
<1>1. PICK n \in Nat : n = Len(e.args) /\ DOMAIN e.args = 1..n
  BY ExprsAssumption, LenProperties DEF Formed
<1>2. ops \in Seq([Gen -> Gen]) /\ Len(ops) = n
  BY <1>1
<1>3. \A i \in 1..n : ops[i] \in [Gen -> Gen]
  BY <1>1
<1>4. (e.op \in {"cast", "sized", "bool"} => n = 1) /\ (e.op = "query" => n = 3)
  BY <1>1, ExprsAssumption DEF Formed
<1>5. DOMAIN ops = 1..Len(ops) /\ Len(ops) = Len(e.args)
  BY <1>1, <1>2
<1>6. 1 \in 1..1 /\ 1 \in 1..3 /\ 2 \in 1..3 /\ 3 \in 1..3
  OBVIOUS
<1>7. (n = 1 => ops[1] \in [Gen -> Gen])
      /\ (n = 3 => ops[1] \in [Gen -> Gen] /\ ops[2] \in [Gen -> Gen] /\ ops[3] \in [Gen -> Gen])
  BY <1>3, <1>6
<1> QED
  BY <1>2, <1>4, <1>5, <1>7

LEMMA WithWidth ==
  ASSUME NEW g \in Gen, NEW w \in Nat
  PROVE  [g EXCEPT !.bw = w] \in Gen
BY DEF Gen

LEMMA ConditionType ==
  ASSUME NEW op \in [Gen -> Gen], NEW g \in Gen
  PROVE  Condition(op, g) \in Gen
<1>1. [g EXCEPT !.bw = 1] \in Gen /\ g.bw \in Nat
  BY WithWidth DEF Gen
<1>2. op[[g EXCEPT !.bw = 1]] \in Gen
  BY <1>1
<1> QED
  BY <1>1, <1>2, WithWidth DEF Condition

LEMMA BitfieldType ==
  ASSUME NEW g \in Gen, NEW hi \in Nat, NEW lo \in Nat, lo <= hi
  PROVE  /\ PrintBitfield(g, hi, lo) = Assign(g, "bitfield", <<g.name>>, <<hi, lo>>, hi - lo + 1, hi - lo + 1)
         /\ hi - lo + 1 \in Nat \ {0} /\ <<g.name>> \in Seq(Names) /\ <<hi, lo>> \in Seq(Nat)
         /\ PrintBitfield(g, hi, lo) \in Gen
<1>1. g.name \in Names /\ hi - lo + 1 \in Nat /\ hi - lo + 1 # 0 /\ "bitfield" \in Ops \cup {"port"}
  BY DEF Gen, Ops
<1>2. <<g.name>> \in Seq(Names) /\ <<hi, lo>> \in Seq(Nat)
  BY <1>1
<1> QED
  BY <1>1, <1>2, AssignType DEF PrintBitfield

LEMMA PrintedType ==
  ASSUME NEW e \in Exprs, NEW ops \in [DOMAIN e.args -> [Gen -> Gen]], NEW g \in Gen
  PROVE  Printed(e, ops, g) \in Gen
<1>1. /\ e.op \in Ops /\ Width[e] \in Nat
      /\ e.op \in {"var", "bitfield"} => e.var \in Vars
      /\ e.op = "int" => e.nums[1] \in Nat
      /\ e.op = "bitfield" => e.nums[1] \in Nat /\ e.nums[2] \in Nat /\ e.nums[2] <= e.nums[1]
      /\ e.op = "sized" => e.nums[1] - 1 \in Nat
  <2>1. Formed(e) /\ Width[e] \in Nat
    BY ExprsAssumption, WidthsAssumption
  <2>2. e.nums \in Seq(Nat)
    BY <2>1 DEF Formed
  <2>3. \A i \in 1..Len(e.nums) : e.nums[i] \in Nat
    BY <2>2, ElementOfSeq
  <2> QED
    BY <2>1, <2>3 DEF Formed
<1>2. CASE e.op = "true" \/ e.op = "int"
  <2>1. Name("int", 1) \in Names /\ (e.op = "int" => Name("int", e.nums[1]) \in Names)
    BY <1>1, NameType
  <2>2. [g EXCEPT !.name = Name("int", 1)] \in Gen
    BY <2>1 DEF Gen
  <2>3. e.op = "int" => [g EXCEPT !.name = Name("int", e.nums[1])] \in Gen
    BY <2>1 DEF Gen
  <2> QED
    BY <1>2, <2>2, <2>3 DEF Printed
<1>3. CASE e.op = "var"
  BY <1>1, <1>3, ArgumentType DEF Printed
<1>4. CASE e.op = "query"
  <2>1. PICK c \in Gen : c = Condition(ops[1], g)
    BY <1>4, OperandsType, ConditionType
  <2>2. PICK l \in Gen : l = ops[2][c]
    BY <1>4, OperandsType
  <2>3. PICK r \in Gen : r = ops[3][l]
    BY <1>4, OperandsType
  <2>4. PICK h \in Gen : h = [r EXCEPT !.same = @ \/ l.name = r.name]
    BY DEF Gen
  <2>5. Printed(e, ops, g) = Assign(h, "query", <<c.name, l.name, r.name>>, <<>>, Width[e], h.bw)
    BY <1>4, <2>1, <2>2, <2>3, <2>4 DEF Printed, PrintQuery
  <2>6. h.bw \in Nat /\ <<>> \in Seq(Nat) /\ "query" \in Ops \cup {"port"}
    BY DEF Gen, Ops
  <2>7. PICK ns \in Seq(Names) : ns = <<c.name, l.name, r.name>>
    <3>1. c.name \in Names /\ l.name \in Names /\ r.name \in Names
      BY DEF Gen
    <3>2. \A x, y, z \in Names : <<x, y, z>> \in Seq(Names)
      OBVIOUS
    <3> QED
      BY <3>1, <3>2
  <2>8. Assign(h, "query", ns, <<>>, Width[e], h.bw) \in Gen
    BY <1>1, <2>6, AssignType
  <2> QED
    BY <2>5, <2>7, <2>8
<1>5. CASE e.op = "bitfield"
  BY <1>1, <1>5, ArgumentType, BitfieldType DEF Printed
<1>6. CASE e.op = "sized"
  <2>1. ops[1][g] \in Gen /\ 0 \in Nat /\ 0 <= e.nums[1] - 1
    BY <1>1, <1>6, OperandsType
  <2> QED
    BY <1>1, <1>6, <2>1, BitfieldType DEF Printed
<1>7. CASE e.op = "cast"
  BY <1>7, OperandsType DEF Printed
<1>8. CASE e.op = "bool"
  <2>1. [g EXCEPT !.bw = 1] \in Gen
    BY WithWidth
  <2> QED
    BY <1>8, <2>1, OperandsType DEF Printed
<1>9. CASE e.op \notin {"true", "int", "var", "query", "bitfield", "sized", "cast", "bool"}
  <2>1. PICK p \in Printings : p = PrintAll(ops, g)
    BY OperandsType, PrintAllType
  <2>2. p.g \in Gen /\ p.names \in Seq(Names) /\ p.g.bw \in Nat /\ <<>> \in Seq(Nat)
    BY DEF Printings, Gen
  <2>3. Printed(e, ops, g) = Assign(p.g, e.op, p.names, <<>>, Width[e], p.g.bw)
    BY <1>9, <2>1 DEF Printed, PrintOperator
  <2>4. e.op \in Ops \cup {"port"}
    BY <1>1
  <2>5. Assign(p.g, e.op, p.names, <<>>, Width[e], p.g.bw) \in Gen
    BY <1>1, <2>2, <2>4, AssignType
  <2> QED
    BY <2>3, <2>5
<1> QED
  BY <1>2, <1>3, <1>4, <1>5, <1>6, <1>7, <1>8, <1>9

LEMMA PrintExprEquation ==
  /\ \A e \in Exprs : PrintExpr[e] \in [Gen -> Gen]
  /\ \A e \in Exprs : PrintExpr[e] = [g \in Gen |-> Printed(e, Each(PrintExpr, e.args), g)]
<1> DEFINE W == [Gen -> Gen]
           Body == [e \in Exprs |-> [s \in [DOMAIN Args[e] -> W] |-> [g \in Gen |-> Printed(e, s, g)]]]
           Eq(f) == f = [e \in Exprs |->
                            [g \in Gen |-> Printed(e, [i \in DOMAIN e.args |-> f[e.args[i]]], g)]]
<1>1. ASSUME NEW e \in Exprs, NEW s \in [DOMAIN Args[e] -> W] PROVE [g \in Gen |-> Printed(e, s, g)] \in W
  BY PrintedType DEF Args
<1>2. Bodies(Exprs, Args, W, Body)
  <2>1. [g \in Gen |-> g] \in W
    OBVIOUS
  <2>2. W # {}
    BY <2>1
  <2> HIDE DEF W
  <2> QED
    BY <1>1, <2>2 DEF Bodies
<1>3. PICK f \in [Exprs -> W] : \A e \in Exprs : f[e] = Body[e][Each(f, Args[e])]
  <2> HIDE DEF Body, W
  <2> QED
    BY <1>2, ExprsBelow, TreeRecursion
<1>4. Eq(f)
  <2>1. ASSUME NEW e \in Exprs
        PROVE  f[e] = [g \in Gen |-> Printed(e, [i \in DOMAIN e.args |-> f[e.args[i]]], g)]
    <3>1. Each(f, Args[e]) \in [DOMAIN Args[e] -> W]
      BY ExprsBelow DEF Each, Below
    <3>2. f[e] = [g \in Gen |-> Printed(e, Each(f, Args[e]), g)]
      <4> HIDE DEF W
      <4> QED
        BY <1>3, <3>1
    <3> QED
      BY <3>2 DEF Each, Args
  <2> QED
    BY <2>1
<1>5. Eq(PrintExpr)
  <2>1. PrintExpr = (CHOOSE ff : Eq(ff))
    BY DEF PrintExpr
  <2> HIDE DEF Eq
  <2> QED
    BY <1>4, <2>1
<1>6. ASSUME NEW e \in Exprs PROVE PrintExpr[e] = [g \in Gen |-> Printed(e, Each(PrintExpr, e.args), g)]
  BY <1>5 DEF Each
<1>7. Obeys(Exprs, Args, W, Body, PrintExpr)
  <2> HIDE DEF W
  <2> QED
    BY <1>6 DEF Obeys, Args
<1>8. \A e \in Exprs : PrintExpr[e] \in W
  <2> HIDE DEF Body, W
  <2> QED
    BY <1>2, <1>7, ExprsBelow, TreeValues
<1> QED
  BY <1>6, <1>8

-----------------------------------------------------------------------------
(* What the second pass makes of the generator: its names refer to         *)
(* arguments and earlier results, and its arguments are the channels met   *)
(* so far, each once.                                                      *)

Refers(n, args, results) ==
    n \in Names /\ (n.kind = "x" => n.i \in 1..args) /\ (n.kind = "res" => n.i \in 1..results)

ProperCode(g) ==
    \A j \in DOMAIN g.code :
        /\ g.code[j].bw > 0 /\ g.hidden[j] > 0
        /\ \A n \in Range(g.code[j].args) : Refers(n, Len(g.args), j - 1)

Proper(g) ==
    /\ g \in Gen /\ Len(g.hidden) = Len(g.code)
    /\ Refers(g.name, Len(g.args), Len(g.code))
    /\ ProperCode(g)

(* Ready to print the next part, after the channels t.                     *)
Ready(g, t) == Proper(g) /\ g.bw > 0 /\ t \in Seq(Vars) /\ g.args = Distinct(t)

Grown(g, h) == Len(g.args) <= Len(h.args) /\ Len(g.code) <= Len(h.code)

Prints(op, ids) ==
    /\ op \in [Gen -> Gen] /\ ids \in Seq(Vars)
    /\ \A g \in Gen, t \in Seq(Vars) : Ready(g, t) => Ready(op[g], t \o ids) /\ Grown(g, op[g])

LEMMA GenFields ==
  ASSUME NEW g \in Gen
  PROVE  /\ g.args \in Seq(Vars) /\ g.code \in Seq(Assignments) /\ g.hidden \in Seq(Nat)
         /\ g.bw \in Nat /\ g.name \in Names
         /\ Len(g.args) \in Nat /\ Len(g.code) \in Nat /\ Len(g.hidden) \in Nat
         /\ DOMAIN g.args = 1..Len(g.args) /\ DOMAIN g.code = 1..Len(g.code)
<1>1. /\ g.args \in Seq(Vars) /\ g.code \in Seq(Assignments) /\ g.hidden \in Seq(Nat)
      /\ g.bw \in Nat /\ g.name \in Names
  BY DEF Gen
<1> QED
  BY <1>1, LenProperties

LEMMA RefersMonotone ==
  ASSUME NEW n, NEW a \in Nat, NEW b \in Nat, NEW c \in Nat, NEW d \in Nat,
         a <= c, b <= d, Refers(n, a, b)
  PROVE  Refers(n, c, d)
BY DEF Refers, Names

LEMMA GrownTransitive ==
  ASSUME NEW g \in Gen, NEW h \in Gen, NEW k \in Gen, Grown(g, h), Grown(h, k)
  PROVE  Grown(g, k)
BY GenFields DEF Grown

LEMMA ProperCodeGrows ==
  ASSUME NEW g \in Gen, NEW h \in Gen, ProperCode(g), Len(g.args) <= Len(h.args),
         h.code = g.code, h.hidden = g.hidden
  PROVE  ProperCode(h)
<1> SUFFICES ASSUME NEW j \in DOMAIN h.code, NEW n \in Range(h.code[j].args)
             PROVE  Refers(n, Len(h.args), j - 1)
  BY DEF ProperCode
<1>1. j - 1 \in Nat /\ Len(g.args) \in Nat /\ Len(h.args) \in Nat
  BY GenFields
<1>2. Refers(n, Len(g.args), j - 1)
  BY DEF ProperCode
<1> QED
  BY <1>1, <1>2, RefersMonotone

LEMMA AddGrows ==
  ASSUME NEW V, NEW s \in Seq(V), NEW x \in V
  PROVE  Len(s) <= Len(Add(s, x)) /\ Len(Add(s, x)) \in Nat
<1>1. Len(s) \in Nat /\ Len(Append(s, x)) = Len(s) + 1
  BY AppendProperties, LenProperties
<1> QED
  BY <1>1 DEF Add

LEMMA ArgumentReady ==
  ASSUME NEW g, NEW t, Ready(g, t), NEW v \in Vars
  PROVE  Ready(Argument(g, v), t \o <<v>>) /\ Grown(g, Argument(g, v))
<1>1. g \in Gen /\ t \in Seq(Vars) /\ g.args = Distinct(t) /\ Proper(g) /\ g.bw > 0
  BY DEF Ready, Proper
<1>2. PICK h \in Gen :
         /\ h = Argument(g, v)
         /\ h.args = Add(g.args, v) /\ h.code = g.code /\ h.hidden = g.hidden /\ h.bw = g.bw
         /\ \E i \in DOMAIN h.args : h.name = Name("x", i)
  BY <1>1, ArgumentType
<1>3. /\ h.args = Add(g.args, v) /\ h.code = g.code /\ h.hidden = g.hidden /\ h.bw = g.bw
  BY <1>2
<1>4. Len(g.args) <= Len(h.args) /\ Len(h.args) \in Nat
  BY <1>1, <1>3, GenFields, AddGrows
<1>5. Refers(h.name, Len(h.args), Len(h.code))
  <2>1. PICK i \in DOMAIN h.args : h.name = Name("x", i)
    BY <1>2
  <2>2. i \in 1..Len(h.args) /\ h.name \in Names
    BY <2>1, GenFields
  <2> QED
    BY <2>1, <2>2 DEF Refers, Name
<1>6. ProperCode(h)
  BY <1>1, <1>3, <1>4, ProperCodeGrows DEF Proper
<1>7. Distinct(t \o <<v>>) = Add(Distinct(t), v) /\ t \o <<v>> \in Seq(Vars)
  <2>1. t \o <<v>> = Append(t, v)
    BY <1>1
  <2>2. Distinct(Append(t, v)) = Add(Distinct(t), v) /\ Append(t, v) \in Seq(Vars)
    BY <1>1, DistinctAppend, AppendProperties
  <2> QED
    BY <2>1, <2>2
<1>8. Proper(h)
  BY <1>1, <1>3, <1>5, <1>6 DEF Proper
<1>9. Len(g.code) <= Len(h.code)
  BY <1>1, <1>3, GenFields
<1> QED
  BY <1>1, <1>2, <1>3, <1>4, <1>7, <1>8, <1>9 DEF Ready, Grown

LEMMA AssignReady ==
  ASSUME NEW g, NEW t, Ready(g, t), NEW op \in Ops \cup {"port"}, NEW nums \in Seq(Nat),
         NEW names \in Seq(Names), \A n \in Range(names) : Refers(n, Len(g.args), Len(g.code)),
         NEW bw \in Nat \ {0}, NEW hidden \in Nat \ {0}
  PROVE  /\ Ready(Assign(g, op, names, nums, bw, hidden), t)
         /\ Grown(g, Assign(g, op, names, nums, bw, hidden))
<1>1. g \in Gen /\ t \in Seq(Vars) /\ g.args = Distinct(t) /\ Proper(g) /\ g.bw > 0
  BY DEF Ready, Proper
<1>2. PICK a \in Assignments : a = [op |-> op, args |-> names, nums |-> nums, bw |-> bw]
  BY DEF Assignments
<1>3. PICK h \in Gen : h = Assign(g, op, names, nums, bw, hidden) /\ Assigned(g, h, a, hidden)
  BY <1>1, <1>2, AssignType
<1>4. /\ h.args = g.args /\ h.bw = g.bw /\ h.name = Name("res", Len(g.code) + 1)
      /\ h.code = Append(g.code, a) /\ h.hidden = Append(g.hidden, hidden)
  BY <1>3 DEF Assigned
<1>5. PICK k \in Nat : k = Len(g.code) /\ k = Len(g.hidden) /\ DOMAIN g.code = 1..k
  BY <1>1, GenFields DEF Proper
<1>6. /\ Len(h.code) = k + 1 /\ \A j \in 1..k : h.code[j] = g.code[j]
      /\ h.code[k + 1] = a /\ DOMAIN h.code = 1..(k + 1)
  <2>1. PICK s \in Seq(Assignments) : s = g.code
    BY <1>1, GenFields
  <2>2. Len(Append(s, a)) = Len(s) + 1 /\ (\A j \in 1..Len(s) : Append(s, a)[j] = s[j])
        /\ Append(s, a)[Len(s) + 1] = a
    BY AppendProperties
  <2>3. DOMAIN h.code = 1..Len(h.code)
    BY GenFields
  <2> QED
    BY <1>4, <1>5, <2>1, <2>2, <2>3
<1>7. /\ Len(h.hidden) = k + 1 /\ \A j \in 1..k : h.hidden[j] = g.hidden[j]
      /\ h.hidden[k + 1] = hidden
  <2>1. PICK s \in Seq(Nat) : s = g.hidden
    BY <1>1, GenFields
  <2>2. Len(Append(s, hidden)) = Len(s) + 1 /\ (\A j \in 1..Len(s) : Append(s, hidden)[j] = s[j])
        /\ Append(s, hidden)[Len(s) + 1] = hidden
    BY AppendProperties
  <2> QED
    BY <1>4, <1>5, <2>1, <2>2
<1>8. ASSUME NEW j \in DOMAIN h.code
      PROVE  /\ h.code[j].bw > 0 /\ h.hidden[j] > 0
             /\ \A n \in Range(h.code[j].args) : Refers(n, Len(h.args), j - 1)
  <2>1. CASE j \in 1..k
    <3>1. h.code[j] = g.code[j] /\ h.hidden[j] = g.hidden[j] /\ h.args = g.args /\ j \in DOMAIN g.code
      BY <1>4, <1>5, <1>6, <1>7, <2>1
    <3> QED
      BY <1>1, <3>1 DEF Proper, ProperCode
  <2>2. CASE j = k + 1
    <3>1. h.code[j] = a /\ h.hidden[j] = hidden /\ h.args = g.args /\ j - 1 = Len(g.code)
      BY <1>4, <1>5, <1>6, <1>7, <2>2
    <3>2. h.code[j].bw > 0 /\ h.code[j].args = names
      BY <1>2, <3>1
    <3> QED
      BY <3>1, <3>2
  <2> QED
    BY <1>6, <2>1, <2>2
<1>9. Refers(h.name, Len(h.args), Len(h.code))
  <2>1. h.name \in Names /\ h.name.kind = "res" /\ h.name.i = k + 1 /\ k + 1 \in 1..Len(h.code)
    BY <1>4, <1>5, <1>6, GenFields DEF Name
  <2> QED
    BY <2>1 DEF Refers
<1>10. Proper(h)
  BY <1>6, <1>7, <1>8, <1>9 DEF Proper, ProperCode
<1>11. Grown(g, h)
  BY <1>1, <1>4, <1>5, <1>6, GenFields DEF Grown
<1> QED
  BY <1>1, <1>3, <1>4, <1>10, <1>11 DEF Ready

(* A number, another width and the mark of equal branches disturb nothing. *)
LEMMA MarkReady ==
  ASSUME NEW g, NEW t, Ready(g, t)
  PROVE  /\ \A w \in Nat \ {0} : Ready([g EXCEPT !.bw = w], t) /\ Grown(g, [g EXCEPT !.bw = w])
         /\ \A b \in BOOLEAN : Ready([g EXCEPT !.same = b], t) /\ Grown(g, [g EXCEPT !.same = b])
         /\ \A i \in Nat : /\ Ready([g EXCEPT !.name = Name("int", i)], t)
                           /\ Grown(g, [g EXCEPT !.name = Name("int", i)])
<1>1. g \in Gen /\ t \in Seq(Vars) /\ g.args = Distinct(t) /\ Proper(g) /\ g.bw > 0
  BY DEF Ready, Proper
<1>2. ASSUME NEW h \in Gen, h.args = g.args, h.code = g.code, h.hidden = g.hidden, h.bw > 0,
             Refers(h.name, Len(h.args), Len(h.code))
      PROVE  Ready(h, t) /\ Grown(g, h)
  <2>1. Len(g.args) <= Len(h.args) /\ Len(g.code) <= Len(h.code)
    BY <1>1, <1>2, GenFields
  <2>2. ProperCode(h)
    BY <1>1, <1>2, <2>1, ProperCodeGrows DEF Proper
  <2> QED
    BY <1>1, <1>2, <2>1, <2>2 DEF Ready, Proper, Grown
<1>3. Refers(g.name, Len(g.args), Len(g.code))
  BY <1>1 DEF Proper
<1>4. ASSUME NEW w \in Nat \ {0} PROVE Ready([g EXCEPT !.bw = w], t) /\ Grown(g, [g EXCEPT !.bw = w])
  <2>1. PICK h \in Gen : h = [g EXCEPT !.bw = w]
    BY <1>1, WithWidth
  <2>2. h.args = g.args /\ h.code = g.code /\ h.hidden = g.hidden /\ h.bw > 0 /\ h.name = g.name
    BY <1>1, <2>1 DEF Gen
  <2> QED
    BY <1>2, <1>3, <2>1, <2>2
<1>5. ASSUME NEW b \in BOOLEAN PROVE Ready([g EXCEPT !.same = b], t) /\ Grown(g, [g EXCEPT !.same = b])
  <2>1. PICK h \in Gen : h = [g EXCEPT !.same = b]
    BY <1>1 DEF Gen
  <2>2. h.args = g.args /\ h.code = g.code /\ h.hidden = g.hidden /\ h.bw > 0 /\ h.name = g.name
    BY <1>1, <2>1 DEF Gen
  <2> QED
    BY <1>2, <1>3, <2>1, <2>2
<1>6. ASSUME NEW i \in Nat
      PROVE  Ready([g EXCEPT !.name = Name("int", i)], t) /\ Grown(g, [g EXCEPT !.name = Name("int", i)])
  <2>1. Name("int", i) \in Names
    BY NameType
  <2>2. PICK h \in Gen : h = [g EXCEPT !.name = Name("int", i)]
    BY <1>1, <2>1 DEF Gen
  <2>3. h.args = g.args /\ h.code = g.code /\ h.hidden = g.hidden /\ h.bw > 0 /\ h.name = Name("int", i)
    BY <1>1, <2>2 DEF Gen
  <2>4. Refers(h.name, Len(h.args), Len(h.code))
    BY <2>1, <2>3 DEF Refers, Name
  <2> QED
    BY <1>2, <2>2, <2>3, <2>4
<1> QED
  BY <1>4, <1>5, <1>6

(* The names that printing has returned refer to what the generator holds. *)
Named(p, t) ==
    /\ p \in Printings /\ Ready(p.g, t)
    /\ \A n \in Range(p.names) : Refers(n, Len(p.g.args), Len(p.g.code))

LEMMA PrintsReady ==
  ASSUME NEW op, NEW ids, Prints(op, ids), NEW g, NEW t, Ready(g, t)
  PROVE  Ready(op[g], t \o ids) /\ Grown(g, op[g]) /\ g \in Gen /\ op[g] \in Gen
<1>1. g \in Gen /\ t \in Seq(Vars)
  BY DEF Ready, Proper
<1> QED
  BY <1>1 DEF Prints

LEMMA PrintNextNamed ==
  ASSUME NEW op, NEW ids, Prints(op, ids), NEW p, NEW t, Named(p, t)
  PROVE  Named(PrintNext(op, p), t \o ids) /\ Grown(p.g, PrintNext(op, p).g)
<1>1. PICK g \in Gen : g = p.g /\ p.names \in Seq(Names) /\ Ready(g, t)
  BY DEF Named, Printings
<1>2. PICK h \in Gen : h = op[g] /\ Ready(h, t \o ids) /\ Grown(g, h)
  BY <1>1, PrintsReady
<1>3. h.name \in Names /\ Refers(h.name, Len(h.args), Len(h.code))
  BY <1>2, GenFields DEF Ready, Proper
<1>4. PICK q : q = PrintNext(op, p)
  OBVIOUS
<1>5. q \in Printings /\ q.g = h /\ q.names = Append(p.names, h.name)
  <2>1. q = [g |-> h, names |-> Append(p.names, h.name)]
    BY <1>1, <1>2, <1>4 DEF PrintNext
  <2>2. Append(p.names, h.name) \in Seq(Names)
    BY <1>1, <1>3, AppendProperties
  <2> QED
    BY <2>1, <2>2 DEF Printings
<1>6. Range(Append(p.names, h.name)) = Range(p.names) \cup {h.name}
  <2>1. PICK s \in Seq(Names), x \in Names : s = p.names /\ x = h.name
    BY <1>1, <1>3
  <2>2. PICK one \in Seq(Names) : one = <<x>>
    <3>1. \A y \in Names : <<y>> \in Seq(Names)
      OBVIOUS
    <3> QED
      BY <3>1
  <2>3. s \o one = Append(s, x) /\ Range(one) = {x}
    BY <2>2 DEF Range
  <2>4. Range(s \o one) = Range(s) \cup Range(one)
    BY RangeConcatenation
  <2> QED
    BY <2>1, <2>3, <2>4
<1>7. ASSUME NEW n \in Range(p.names) PROVE Refers(n, Len(h.args), Len(h.code))
  <2>1. Refers(n, Len(g.args), Len(g.code))
    BY <1>1, <1>7 DEF Named
  <2>2. Len(g.args) \in Nat /\ Len(g.code) \in Nat /\ Len(h.args) \in Nat /\ Len(h.code) \in Nat
    BY GenFields
  <2>3. Len(g.args) <= Len(h.args) /\ Len(g.code) <= Len(h.code)
    BY <1>2 DEF Grown
  <2> QED
    BY <2>1, <2>2, <2>3, RefersMonotone
<1>8. \A n \in Range(q.names) : Refers(n, Len(h.args), Len(h.code))
  BY <1>3, <1>5, <1>6, <1>7
<1> QED
  BY <1>1, <1>2, <1>4, <1>5, <1>8 DEF Named

LEMMA VarsConcat == \A a, b, c \in Seq(Vars) : (a \o b) \o c = a \o (b \o c)
BY ConcatAssociative

(* Operands one after the other: the channels of all of them.              *)
LEMMA PrintAllNamed ==
  ASSUME NEW ops \in Seq([Gen -> Gen]), NEW ids \in Seq(Seq(Vars)), Len(ids) = Len(ops),
         \A i \in 1..Len(ops) : Prints(ops[i], ids[i]),
         NEW g, NEW t, Ready(g, t)
  PROVE  Named(PrintAll(ops, g), t \o FlattenSeq(ids)) /\ Grown(g, PrintAll(ops, g).g)
<1>1. PICK n \in Nat : n = Len(ops) /\ n = Len(ids)
  BY LenProperties
<1>2. g \in Gen /\ t \in Seq(Vars)
  BY DEF Ready, Proper
<1>3. PICK P \in [0..n -> Printings] :
         /\ P[0] = [g |-> g, names |-> <<>>] /\ \A i \in 1..n : P[i] = PrintNext(ops[i], P[i - 1])
         /\ PrintAll(ops, g) = P[n]
  <2>1. \E P \in [0..Len(ops) -> Printings] :
           /\ P[0] = [g |-> g, names |-> <<>>]
           /\ \A i \in 1..Len(ops) : P[i] = PrintNext(ops[i], P[i - 1])
           /\ PrintAll(ops, g) = P[Len(ops)]
    BY <1>2, PrintAllChain
  <2> QED
    BY <1>1, <2>1
<1>4. PICK F \in [0..n -> Seq(Vars)] :
         /\ F[0] = <<>> /\ \A i \in 1..n : F[i] = F[i - 1] \o ids[i]
         /\ FlattenSeq(ids) = F[n]
  <2>1. \E F \in [0..Len(ids) -> Seq(Vars)] :
           /\ F[0] = <<>> /\ \A i \in 1..Len(ids) : F[i] = F[i - 1] \o ids[i]
           /\ FlattenSeq(ids) = F[Len(ids)]
    BY FlattenChain
  <2> QED
    BY <1>1, <2>1
<1> DEFINE S == {i \in 0..n : Named(P[i], t \o F[i]) /\ Grown(g, P[i].g)}
<1>5. 0 \in S
  <2>1. t \o F[0] = t
    BY <1>2, <1>4
  <2>2. P[0].g = g /\ P[0].names = <<>> /\ P[0] \in Printings
    BY <1>3
  <2>3. Range(P[0].names) = {}
    BY <2>2 DEF Range
  <2>4. Grown(g, g)
    BY <1>2, GenFields DEF Grown
  <2>5. Named(P[0], t)
    BY <2>2, <2>3 DEF Named
  <2>6. Named(P[0], t \o F[0]) /\ Grown(g, P[0].g)
    BY <2>1, <2>2, <2>4, <2>5
  <2> QED
    BY <2>6
<1>6. ASSUME NEW i \in 1..n, i - 1 \in S PROVE i \in S
  <2>1. i \in 0..n /\ i - 1 \in 0..n
    OBVIOUS
  <2>2. PICK p, s : p = P[i - 1] /\ s = t \o F[i - 1] /\ Named(p, s) /\ Grown(g, p.g)
    BY <1>6
  <2>3. Prints(ops[i], ids[i])
    BY <1>1
  <2>4. PICK q : q = PrintNext(ops[i], p) /\ Named(q, s \o ids[i]) /\ Grown(p.g, q.g)
    BY <2>2, <2>3, PrintNextNamed
  <2>5. P[i] = q
    BY <1>3, <2>2, <2>4
  <2>6. s \o ids[i] = t \o F[i]
    <3>1. PICK a \in Seq(Vars), b \in Seq(Vars) : a = F[i - 1] /\ b = ids[i]
      <4>1. ids[i] \in Seq(Vars)
        BY <1>1, ElementOfSeq
      <4> QED
        BY <1>4, <2>1, <4>1
    <3>2. (t \o a) \o b = t \o (a \o b)
      BY <1>2, VarsConcat
    <3>3. F[i] = a \o b
      BY <1>4, <3>1
    <3> QED
      BY <2>2, <3>1, <3>2, <3>3
  <2>7. Grown(g, q.g)
    <3>1. p.g \in Gen /\ q.g \in Gen
      BY <2>2, <2>4 DEF Named, Printings
    <3> QED
      BY <1>2, <2>2, <2>4, <3>1, GrownTransitive
  <2> QED
    BY <2>1, <2>4, <2>5, <2>6, <2>7
<1>7. \A i \in 0..n : i \in S
  <2> HIDE DEF S
  <2> QED
    BY <1>5, <1>6, UpInduction
<1>8. n \in S
  BY <1>7
<1> QED
  BY <1>3, <1>4, <1>8

LEMMA FlattenSmall ==
  ASSUME NEW V, NEW seqs \in Seq(Seq(V))
  PROVE  /\ Len(seqs) = 1 => seqs[1] \in Seq(V) /\ FlattenSeq(seqs) = seqs[1]
         /\ Len(seqs) = 3 => /\ seqs[1] \in Seq(V) /\ seqs[2] \in Seq(V) /\ seqs[3] \in Seq(V)
                             /\ FlattenSeq(seqs) = (seqs[1] \o seqs[2]) \o seqs[3]
<1>1. PICK n \in Nat : n = Len(seqs)
  BY LenProperties
<1>2. PICK F \in [0..n -> Seq(V)] :
         /\ F[0] = <<>> /\ \A i \in 1..n : F[i] = F[i - 1] \o seqs[i]
         /\ FlattenSeq(seqs) = F[n]
  <2>1. \E F \in [0..Len(seqs) -> Seq(V)] :
           /\ F[0] = <<>> /\ \A i \in 1..Len(seqs) : F[i] = F[i - 1] \o seqs[i]
           /\ FlattenSeq(seqs) = F[Len(seqs)]
    BY FlattenChain
  <2> QED
    BY <1>1, <2>1
<1>3. \A i \in 1..n : seqs[i] \in Seq(V)
  BY <1>1, ElementOfSeq
<1>4. ASSUME n >= 1 PROVE F[1] = seqs[1]
  <2>1. PICK s \in Seq(V) : s = seqs[1]
    BY <1>3, <1>4
  <2>2. F[1] = <<>> \o s
    <3>1. 1 \in 1..n /\ 1 - 1 = 0
      BY <1>4
    <3> QED
      BY <1>2, <2>1, <3>1
  <2>3. <<>> \o s = s
    BY ConcatEmptySeq
  <2> QED
    BY <1>2, <2>1, <2>2, <2>3
<1>5. ASSUME n = 3 PROVE F[3] = (seqs[1] \o seqs[2]) \o seqs[3]
  <2>1. 2 \in 1..n /\ 3 \in 1..n /\ 2 - 1 = 1 /\ 3 - 1 = 2
    BY <1>5
  <2>2. F[2] = F[1] \o seqs[2] /\ F[3] = F[2] \o seqs[3]
    BY <1>2, <2>1
  <2>3. F[1] = seqs[1]
    BY <1>4, <1>5
  <2> QED
    BY <2>2, <2>3
<1> QED
  BY <1>1, <1>2, <1>3, <1>4, <1>5

(* The width of a condition is its own.                                    *)
LEMMA ConditionReady ==
  ASSUME NEW op, NEW ids, Prints(op, ids), NEW g, NEW t, Ready(g, t)
  PROVE  Ready(Condition(op, g), t \o ids) /\ Grown(g, Condition(op, g))
<1>1. g \in Gen /\ g.bw \in Nat \ {0}
  BY GenFields DEF Ready, Proper
<1>2. PICK a : a = [g EXCEPT !.bw = 1] /\ Ready(a, t) /\ Grown(g, a) /\ a \in Gen
  <2>1. Ready([g EXCEPT !.bw = 1], t) /\ Grown(g, [g EXCEPT !.bw = 1])
    BY MarkReady
  <2> QED
    BY <2>1 DEF Ready, Proper
<1>3. PICK h \in Gen : h = op[a] /\ Ready(h, t \o ids) /\ Grown(a, h)
  BY <1>2, PrintsReady
<1>4. PICK k : k = [h EXCEPT !.bw = g.bw] /\ Ready(k, t \o ids) /\ Grown(h, k) /\ k \in Gen
  BY <1>1, <1>3, MarkReady, WithWidth
<1>5. Condition(op, g) = k
  BY <1>2, <1>3, <1>4 DEF Condition
<1>6. Grown(g, h)
  BY <1>1, <1>2, <1>3, GrownTransitive
<1>7. Grown(g, k)
  BY <1>1, <1>3, <1>4, <1>6, GrownTransitive
<1> QED
  BY <1>4, <1>5, <1>7

LEMMA BitfieldReady ==
  ASSUME NEW g, NEW t, Ready(g, t), NEW hi \in Nat, NEW lo \in Nat, lo <= hi
  PROVE  Ready(PrintBitfield(g, hi, lo), t) /\ Grown(g, PrintBitfield(g, hi, lo))
<1>1. g \in Gen /\ g.name \in Names /\ Refers(g.name, Len(g.args), Len(g.code))
  BY GenFields DEF Ready, Proper
<1>2. PICK ns \in Seq(Names), nums \in Seq(Nat), w \in Nat \ {0} :
         /\ ns = <<g.name>> /\ nums = <<hi, lo>> /\ w = hi - lo + 1
         /\ PrintBitfield(g, hi, lo) = Assign(g, "bitfield", ns, nums, w, w)
  <2>1. /\ hi - lo + 1 \in Nat \ {0} /\ <<g.name>> \in Seq(Names) /\ <<hi, lo>> \in Seq(Nat)
        /\ PrintBitfield(g, hi, lo) =
             Assign(g, "bitfield", <<g.name>>, <<hi, lo>>, hi - lo + 1, hi - lo + 1)
    BY <1>1, BitfieldType
  <2> QED
    BY <2>1
<1>3. \A n \in Range(ns) : Refers(n, Len(g.args), Len(g.code))
  BY <1>1, <1>2 DEF Range
<1>4. "bitfield" \in Ops \cup {"port"}
  BY DEF Ops
<1>5. Ready(Assign(g, "bitfield", ns, nums, w, w), t) /\ Grown(g, Assign(g, "bitfield", ns, nums, w, w))
  BY <1>3, <1>4, AssignReady
<1> QED
  BY <1>2, <1>5

(* A query: the condition, then both branches.                             *)
LEMMA QueryReady ==
  ASSUME NEW e \in Exprs, e.op = "query", NEW ops, NEW i1, NEW i2, NEW i3,
         Prints(ops[1], i1), Prints(ops[2], i2), Prints(ops[3], i3),
         NEW g, NEW t, Ready(g, t)
  PROVE  Ready(PrintQuery(e, ops, g), ((t \o i1) \o i2) \o i3) /\ Grown(g, PrintQuery(e, ops, g))
<1>1. g \in Gen
  BY DEF Ready, Proper
<1>2. PICK c : c = Condition(ops[1], g) /\ Ready(c, t \o i1) /\ Grown(g, c) /\ c \in Gen
  <2>1. Ready(Condition(ops[1], g), t \o i1) /\ Grown(g, Condition(ops[1], g))
    BY ConditionReady
  <2> QED
    BY <2>1 DEF Ready, Proper
<1>3. PICK l \in Gen : l = ops[2][c] /\ Ready(l, (t \o i1) \o i2) /\ Grown(c, l)
  BY <1>2, PrintsReady
<1>4. PICK r \in Gen : r = ops[3][l] /\ Ready(r, ((t \o i1) \o i2) \o i3) /\ Grown(l, r)
  BY <1>3, PrintsReady
<1>5. PICK u : u = ((t \o i1) \o i2) \o i3
  OBVIOUS
<1>6. PICK b \in BOOLEAN : b = (r.same \/ l.name = r.name)
  OBVIOUS
<1>7. PICK h : h = [r EXCEPT !.same = b] /\ Ready(h, u) /\ Grown(r, h)
  BY <1>4, <1>5, MarkReady
<1>8. h \in Gen /\ h.bw \in Nat \ {0}
  BY <1>7, GenFields DEF Ready, Proper
<1>9. Grown(c, r) /\ Grown(c, h) /\ Grown(l, h) /\ Grown(g, h)
  <2>1. Grown(c, r)
    BY <1>2, <1>3, <1>4, GrownTransitive
  <2>2. Grown(c, h)
    BY <1>2, <1>4, <1>7, <1>8, <2>1, GrownTransitive
  <2>3. Grown(l, h)
    BY <1>3, <1>4, <1>7, <1>8, GrownTransitive
  <2>4. Grown(g, h)
    BY <1>1, <1>2, <1>8, <2>2, GrownTransitive
  <2> QED
    BY <2>1, <2>2, <2>3, <2>4
<1>10. ASSUME NEW k \in Gen, NEW s, Ready(k, s), Grown(k, h) PROVE Refers(k.name, Len(h.args), Len(h.code))
  <2>1. Refers(k.name, Len(k.args), Len(k.code)) /\ Len(k.args) <= Len(h.args) /\ Len(k.code) <= Len(h.code)
    BY <1>10 DEF Ready, Proper, Grown
  <2>2. Len(k.args) \in Nat /\ Len(k.code) \in Nat /\ Len(h.args) \in Nat /\ Len(h.code) \in Nat
    BY <1>8, GenFields
  <2> QED
    BY <2>1, <2>2, RefersMonotone
<1>11. PICK ns \in Seq(Names) :
          ns = <<c.name, l.name, r.name>> /\ \A n \in Range(ns) : Refers(n, Len(h.args), Len(h.code))
  <2>1. Refers(c.name, Len(h.args), Len(h.code)) /\ Refers(l.name, Len(h.args), Len(h.code))
        /\ Refers(r.name, Len(h.args), Len(h.code))
    BY <1>2, <1>3, <1>4, <1>7, <1>9, <1>10
  <2>2. \A x, y, z \in Names : <<x, y, z>> \in Seq(Names) /\ Range(<<x, y, z>>) = {x, y, z}
    BY DEF Range
  <2>3. c.name \in Names /\ l.name \in Names /\ r.name \in Names
    BY <1>2, GenFields
  <2>4. PICK ns : ns = <<c.name, l.name, r.name>>
    OBVIOUS
  <2>5. ns \in Seq(Names) /\ Range(ns) = {c.name, l.name, r.name}
    BY <2>2, <2>3, <2>4
  <2> QED
    BY <2>1, <2>4, <2>5
<1>12. PrintQuery(e, ops, g) = Assign(h, "query", ns, <<>>, Width[e], h.bw)
  <2>1. h = [r EXCEPT !.same = @ \/ l.name = r.name]
    BY <1>4, <1>6, <1>7 DEF Gen
  <2> QED
    BY <1>2, <1>3, <1>4, <1>11, <2>1 DEF PrintQuery
<1>13. Ready(Assign(h, "query", ns, <<>>, Width[e], h.bw), u) /\ Grown(h, Assign(h, "query", ns, <<>>, Width[e], h.bw))
  <2>1. "query" \in Ops \cup {"port"} /\ <<>> \in Seq(Nat) /\ Width[e] \in Nat \ {0}
    BY WidthsAssumption DEF Ops
  <2> QED
    BY <1>7, <1>8, <1>11, <2>1, AssignReady
<1>14. Grown(g, PrintQuery(e, ops, g))
  <2>1. PICK q : q = PrintQuery(e, ops, g) /\ Ready(q, u) /\ Grown(h, q)
    BY <1>12, <1>13
  <2>2. q \in Gen
    BY <2>1 DEF Ready, Proper
  <2> QED
    BY <1>1, <1>8, <1>9, <2>1, <2>2, GrownTransitive
<1> QED
  BY <1>5, <1>12, <1>13, <1>14

(* What is printed for an expression, when its parts are printed with the  *)
(* channels they have.                                                     *)
LEMMA PrintedReady ==
  ASSUME NEW e \in Exprs, NEW ops \in [DOMAIN e.args -> [Gen -> Gen]],
         NEW ids \in [DOMAIN e.args -> Seq(Vars)], \A i \in DOMAIN e.args : Prints(ops[i], ids[i]),
         NEW g, NEW t, Ready(g, t)
  PROVE  Ready(Printed(e, ops, g), t \o IdsIn(e, ids)) /\ Grown(g, Printed(e, ops, g))
<1>1. /\ e.op \in Ops /\ Width[e] \in Nat \ {0}
      /\ e.op \in {"var", "bitfield"} => e.var \in Vars
      /\ e.op = "int" => e.nums[1] \in Nat
      /\ e.op = "bitfield" => e.nums[1] \in Nat /\ e.nums[2] \in Nat /\ e.nums[2] <= e.nums[1]
      /\ e.op = "sized" => e.nums[1] - 1 \in Nat
  <2>1. Formed(e) /\ Width[e] \in Nat \ {0}
    BY ExprsAssumption, WidthsAssumption
  <2>2. e.nums \in Seq(Nat)
    BY <2>1 DEF Formed
  <2>3. \A i \in 1..Len(e.nums) : e.nums[i] \in Nat
    BY <2>2, ElementOfSeq
  <2> QED
    BY <2>1, <2>3 DEF Formed
<1>2. PICK n \in Nat : n = Len(e.args) /\ DOMAIN e.args = 1..n /\ n = Len(ops)
  BY ExprsAssumption, LenProperties, OperandsType DEF Formed
<1>3. ids \in Seq(Seq(Vars)) /\ Len(ids) = n
  BY <1>2
<1>4. \A i \in 1..n : Prints(ops[i], ids[i])
  BY <1>2
<1>5. g \in Gen /\ t \in Seq(Vars)
  BY DEF Ready, Proper
<1>6. CASE e.op = "true" \/ e.op = "int"
  <2>1. e.args = <<>>
    BY <1>6, ExprsAssumption DEF Formed, Leaf
  <2>2. ids = <<>>
    BY <1>3, <2>1, EmptySeq, <1>2
  <2>3. t \o IdsIn(e, ids) = t
    <3>1. FlattenSeq(ids) = <<>>
      BY <2>2 DEF FlattenSeq
    <3>2. t \o <<>> = t
      BY <1>5, ConcatEmptySeq
    <3> QED
      BY <1>6, <3>1, <3>2 DEF IdsIn
  <2>4. PICK k \in Nat : Printed(e, ops, g) = [g EXCEPT !.name = Name("int", k)]
    BY <1>1, <1>6 DEF Printed
  <2>5. Ready([g EXCEPT !.name = Name("int", k)], t) /\ Grown(g, [g EXCEPT !.name = Name("int", k)])
    BY MarkReady
  <2> QED
    BY <2>3, <2>4, <2>5
<1>7. CASE e.op = "var"
  <2>1. Printed(e, ops, g) = Argument(g, e.var) /\ IdsIn(e, ids) = <<e.var>> /\ e.var \in Vars
    BY <1>1, <1>7 DEF Printed, IdsIn
  <2> QED
    BY <2>1, ArgumentReady
<1>8. CASE e.op = "bitfield"
  <2>1. /\ Printed(e, ops, g) = PrintBitfield(Argument(g, e.var), e.nums[1], e.nums[2])
        /\ IdsIn(e, ids) = <<e.var>> /\ e.var \in Vars
    BY <1>1, <1>8 DEF Printed, IdsIn
  <2>2. PICK h : h = Argument(g, e.var) /\ Ready(h, t \o <<e.var>>) /\ Grown(g, h)
    BY <2>1, ArgumentReady
  <2>3. PICK k : k = PrintBitfield(h, e.nums[1], e.nums[2]) /\ Ready(k, t \o <<e.var>>) /\ Grown(h, k)
    BY <1>1, <1>8, <2>2, BitfieldReady
  <2>4. Grown(g, k)
    <3>1. h \in Gen /\ k \in Gen
      BY <2>2, <2>3 DEF Ready, Proper
    <3> QED
      BY <1>5, <2>2, <2>3, <3>1, GrownTransitive
  <2> QED
    BY <2>1, <2>2, <2>3, <2>4
<1>9. CASE e.op \in {"cast", "sized", "bool"}
  <2>1. n = 1
    BY <1>2, <1>9, ExprsAssumption DEF Formed
  <2>2. PICK o, s : o = ops[1] /\ s = ids[1] /\ Prints(o, s)
    BY <1>4, <2>1
  <2>3. IdsIn(e, ids) = s
    <3>1. FlattenSeq(ids) = ids[1]
      BY <1>3, <2>1, FlattenSmall
    <3> QED
      BY <1>9, <2>2, <3>1 DEF IdsIn
  <2>4. CASE e.op = "cast"
    <3>1. Printed(e, ops, g) = o[g]
      BY <2>2, <2>4 DEF Printed
    <3> QED
      BY <2>2, <2>3, <3>1, PrintsReady
  <2>5. CASE e.op = "sized"
    <3>1. Printed(e, ops, g) = PrintBitfield(o[g], e.nums[1] - 1, 0)
      BY <2>2, <2>5 DEF Printed
    <3>2. PICK h : h = o[g] /\ Ready(h, t \o s) /\ Grown(g, h)
      BY <2>2, PrintsReady
    <3>3. PICK k : k = PrintBitfield(h, e.nums[1] - 1, 0) /\ Ready(k, t \o s) /\ Grown(h, k)
      BY <1>1, <2>5, <3>2, BitfieldReady
    <3>4. Grown(g, k)
      <4>1. h \in Gen /\ k \in Gen
        BY <3>2, <3>3 DEF Ready, Proper
      <4> QED
        BY <1>5, <3>2, <3>3, <4>1, GrownTransitive
    <3> QED
      BY <2>3, <3>1, <3>2, <3>3, <3>4
  <2>6. CASE e.op = "bool"
    <3>1. PICK a : a = [g EXCEPT !.bw = 1] /\ Ready(a, t) /\ Grown(g, a)
      <4>1. PICK w \in Nat \ {0} : w = 1
        OBVIOUS
      <4>2. Ready([g EXCEPT !.bw = w], t) /\ Grown(g, [g EXCEPT !.bw = w])
        BY MarkReady
      <4> QED
        BY <4>1, <4>2
    <3>2. Printed(e, ops, g) = o[a]
      BY <2>2, <2>6, <3>1 DEF Printed
    <3>3. PICK h : h = o[a] /\ Ready(h, t \o s) /\ Grown(a, h)
      BY <2>2, <3>1, PrintsReady
    <3>4. Grown(g, h)
      <4>1. a \in Gen /\ h \in Gen
        BY <3>1, <3>3 DEF Ready, Proper
      <4> QED
        BY <1>5, <3>1, <3>3, <4>1, GrownTransitive
    <3> QED
      BY <2>3, <3>2, <3>3, <3>4
  <2> QED
    BY <1>9, <2>4, <2>5, <2>6
<1>10. CASE e.op = "query"
  <2>1. n = 3
    BY <1>2, <1>10, ExprsAssumption DEF Formed
  <2>2. PICK i1, i2, i3 : i1 = ids[1] /\ i2 = ids[2] /\ i3 = ids[3]
    OBVIOUS
  <2>3. Prints(ops[1], i1) /\ Prints(ops[2], i2) /\ Prints(ops[3], i3)
    BY <1>4, <2>1, <2>2
  <2>4. Printed(e, ops, g) = PrintQuery(e, ops, g)
    BY <1>10 DEF Printed
  <2>5. Ready(PrintQuery(e, ops, g), ((t \o i1) \o i2) \o i3) /\ Grown(g, PrintQuery(e, ops, g))
    BY <1>10, <2>3, QueryReady
  <2>6. t \o IdsIn(e, ids) = ((t \o i1) \o i2) \o i3
    <3>1. IdsIn(e, ids) = (i1 \o i2) \o i3 /\ i1 \in Seq(Vars) /\ i2 \in Seq(Vars) /\ i3 \in Seq(Vars)
      <4>1. /\ ids[1] \in Seq(Vars) /\ ids[2] \in Seq(Vars) /\ ids[3] \in Seq(Vars)
            /\ FlattenSeq(ids) = (ids[1] \o ids[2]) \o ids[3]
        BY <1>3, <2>1, FlattenSmall
      <4> QED
        BY <1>10, <2>2, <4>1 DEF IdsIn
    <3>2. PICK j \in Seq(Vars) : j = i1 \o i2
      BY <3>1, ConcatProperties
    <3>3. (t \o j) \o i3 = t \o (j \o i3)
      BY <1>5, <3>1, VarsConcat
    <3>4. (t \o i1) \o i2 = t \o (i1 \o i2)
      BY <1>5, <3>1, VarsConcat
    <3> QED
      BY <3>1, <3>2, <3>3, <3>4
  <2> QED
    BY <2>4, <2>5, <2>6
<1>11. CASE e.op \notin {"true", "int", "var", "query", "bitfield", "sized", "cast", "bool"}
  <2>1. PICK p : p = PrintAll(ops, g) /\ Named(p, t \o FlattenSeq(ids)) /\ Grown(g, p.g)
    <3>1. ops \in Seq([Gen -> Gen]) /\ Len(ids) = Len(ops)
      BY <1>2, <1>3, OperandsType
    <3>2. \A i \in 1..Len(ops) : Prints(ops[i], ids[i])
      BY <1>2, <1>4
    <3> QED
      BY <1>3, <3>1, <3>2, PrintAllNamed
  <2>2. PICK h, ns, s :
           /\ h \in Gen /\ ns \in Seq(Names) /\ h = p.g /\ ns = p.names /\ s = t \o FlattenSeq(ids) /\ Ready(h, s) /\ h.bw \in Nat \ {0}
           /\ \A m \in Range(ns) : Refers(m, Len(h.args), Len(h.code))
    <3>1. p.g \in Gen /\ p.names \in Seq(Names) /\ Ready(p.g, t \o FlattenSeq(ids))
      BY <2>1 DEF Named, Printings
    <3>2. p.g.bw \in Nat \ {0}
      BY <3>1, GenFields DEF Ready
    <3> QED
      BY <2>1, <3>1, <3>2 DEF Named
  <2>3. e.op \in Ops \cup {"port"} /\ <<>> \in Seq(Nat)
    BY <1>1
  <2>4. PICK k : k = Assign(h, e.op, ns, <<>>, Width[e], h.bw) /\ Ready(k, s) /\ Grown(h, k)
    BY <1>1, <2>2, <2>3, AssignReady
  <2>5. Printed(e, ops, g) = k
    BY <1>11, <2>1, <2>2, <2>4 DEF Printed, PrintOperator
  <2>6. t \o IdsIn(e, ids) = s
    BY <1>11, <2>2 DEF IdsIn
  <2>7. Grown(g, k)
    <3>1. k \in Gen
      BY <2>4 DEF Ready, Proper
    <3> QED
      BY <1>5, <2>1, <2>2, <2>4, <3>1, GrownTransitive
  <2> QED
    BY <2>4, <2>5, <2>6, <2>7
<1> QED
  BY <1>6, <1>7, <1>8, <1>9, <1>10, <1>11

(* The two passes over an expression meet the same channels in one order.  *)
LEMMA PrintExprPrints == \A e \in Exprs : Prints(PrintExpr[e], Ids[e])
<1> DEFINE S == {e \in Exprs : Prints(PrintExpr[e], Ids[e])}
<1>1. ASSUME NEW e \in Exprs, \A i \in DOMAIN e.args : e.args[i] \in S PROVE e \in S
  <2>1. PICK ops, ids : ops = Each(PrintExpr, e.args) /\ ids = Each(Ids, e.args)
    OBVIOUS
  <2>2. ops \in [DOMAIN e.args -> [Gen -> Gen]]
    BY <1>1, <2>1, PrintExprEquation DEF Each
  <2>3. ids \in [DOMAIN e.args -> Seq(Vars)]
    BY <1>1, <2>1, IdsEquation DEF Each
  <2>4. \A i \in DOMAIN e.args : Prints(ops[i], ids[i])
    BY <1>1, <2>1 DEF Each
  <2>5. PrintExpr[e] \in [Gen -> Gen] /\ \A g \in Gen : PrintExpr[e][g] = Printed(e, ops, g)
    BY <2>1, PrintExprEquation
  <2>6. Ids[e] \in Seq(Vars) /\ Ids[e] = IdsIn(e, ids)
    BY <2>1, IdsEquation
  <2>7. ASSUME NEW g \in Gen, NEW t \in Seq(Vars), Ready(g, t)
        PROVE  Ready(PrintExpr[e][g], t \o Ids[e]) /\ Grown(g, PrintExpr[e][g])
    <3>1. Ready(Printed(e, ops, g), t \o IdsIn(e, ids)) /\ Grown(g, Printed(e, ops, g))
      BY <2>2, <2>3, <2>4, <2>7, PrintedReady
    <3> QED
      BY <2>5, <2>6, <3>1
  <2>8. Prints(PrintExpr[e], Ids[e])
    BY <2>5, <2>6, <2>7 DEF Prints
  <2> QED
    BY <2>8
<1>2. Inherited(Exprs, Args, S)
  BY <1>1 DEF Inherited, Args
<1>3. Exprs \subseteq S
  <2> HIDE DEF S
  <2> QED
    BY <1>2, ExprsBelow, TreeInduction
<1> QED
  BY <1>3

LEMMA PrintPortReady ==
  ASSUME NEW e \in Exprs, NEW g, NEW t, Ready(g, t)
  PROVE  Ready(PrintPort(e, g), t)
<1>1. CASE OnlyVar[e]
  <2>1. g \in Gen /\ g.bw \in Nat \ {0} /\ g.name \in Names /\ Refers(g.name, Len(g.args), Len(g.code))
    BY GenFields DEF Ready, Proper
  <2>2. PICK ns \in Seq(Names) : ns = <<g.name>>
    <3>1. \A x \in Names : <<x>> \in Seq(Names)
      OBVIOUS
    <3> QED
      BY <2>1, <3>1
  <2>3. \A n \in Range(ns) : Refers(n, Len(g.args), Len(g.code))
    BY <2>1, <2>2 DEF Range
  <2>4. "port" \in Ops \cup {"port"} /\ <<>> \in Seq(Nat)
    OBVIOUS
  <2>5. Ready(Assign(g, "port", ns, <<>>, g.bw, g.bw), t)
    BY <2>1, <2>3, <2>4, AssignReady
  <2> QED
    BY <1>1, <2>2, <2>5 DEF PrintPort
<1>2. CASE ~OnlyVar[e]
  BY <1>2 DEF PrintPort
<1> QED
  BY <1>1, <1>2

(* The channels of the first k elements.                                   *)
IdsTo(els, k) == FlattenSeq([i \in 1..k |-> Ids[els[i].expr]])

LEMMA IdsToFacts ==
  ASSUME NEW els \in Seq(Elements)
  PROVE  /\ IdsTo(els, 0) = <<>>
         /\ \A k \in 0..Len(els) : IdsTo(els, k) \in Seq(Vars)
         /\ \A k \in 1..Len(els) : IdsTo(els, k) = IdsTo(els, k - 1) \o Ids[els[k].expr]
<1>1. PICK n \in Nat : n = Len(els)
  BY LenProperties
<1>2. \A i \in 1..n : Ids[els[i].expr] \in Seq(Vars)
  <2>1. \A i \in 1..n : els[i] \in Elements
    BY <1>1, ElementOfSeq
  <2> QED
    BY <2>1, IdsEquation, ElementsAssumption
<1> DEFINE L(k) == [i \in 1..k |-> Ids[els[i].expr]]
<1>3. ASSUME NEW k \in 0..n PROVE L(k) \in Seq(Seq(Vars)) /\ Len(L(k)) = k
  <2>1. \A i \in 1..k : Ids[els[i].expr] \in Seq(Vars)
    BY <1>2
  <2> QED
    BY <2>1
<1>4. IdsTo(els, 0) = <<>>
  <2>1. L(0) = <<>>
    <3>1. L(0) \in Seq(Seq(Vars)) /\ Len(L(0)) = 0
      BY <1>1, <1>3
    <3> HIDE DEF L
    <3> QED
      BY <3>1, EmptySeq
  <2> QED
    BY <2>1 DEF IdsTo, FlattenSeq
<1>5. ASSUME NEW k \in 0..n PROVE IdsTo(els, k) \in Seq(Vars)
  <2>1. IdsTo(els, k) = FlattenSeq(L(k))
    BY DEF IdsTo
  <2> HIDE DEF L
  <2> QED
    BY <1>3, <2>1, FlattenFacts
<1>6. ASSUME NEW k \in 1..n PROVE IdsTo(els, k) = IdsTo(els, k - 1) \o Ids[els[k].expr]
  <2>1. k \in 0..n /\ k - 1 \in 0..n
    OBVIOUS
  <2>2. PICK a \in Seq(Seq(Vars)), s \in Seq(Vars) : a = L(k - 1) /\ s = Ids[els[k].expr] /\ Len(a) = k - 1
    BY <1>2, <1>3, <2>1
  <2>3. L(k) = Append(a, s)
    <3>1. PICK b \in Seq(Seq(Vars)) : b = L(k) /\ Len(b) = k
      BY <1>3, <2>1
    <3>2. PICK c \in Seq(Seq(Vars)) : c = Append(a, s) /\ Len(c) = k /\ c[k] = s /\ \A i \in 1..(k - 1) : c[i] = a[i]
      <4>1. /\ Append(a, s) \in Seq(Seq(Vars)) /\ Len(Append(a, s)) = Len(a) + 1
            /\ Append(a, s)[Len(a) + 1] = s /\ \A i \in 1..Len(a) : Append(a, s)[i] = a[i]
        BY AppendProperties
      <4>2. Len(a) = k - 1 /\ Len(a) + 1 = k
        BY <2>2
      <4> QED
        BY <4>1, <4>2
    <3>3. ASSUME NEW i \in 1..k PROVE b[i] = c[i]
      <4>1. CASE i = k
        BY <2>2, <3>1, <3>2, <4>1
      <4>2. CASE i # k
        <5>1. i \in 1..(k - 1)
          BY <4>2
        <5> QED
          BY <2>2, <3>1, <3>2, <5>1
      <4> QED
        BY <4>1, <4>2
    <3>4. b = c
      BY <3>1, <3>2, <3>3, SeqEqual
    <3> QED
      BY <3>1, <3>2, <3>4
  <2>4. FlattenSeq(Append(a, s)) = FlattenSeq(a) \o s
    BY FlattenAppend
  <2>5. IdsTo(els, k) = FlattenSeq(L(k)) /\ IdsTo(els, k - 1) = FlattenSeq(L(k - 1))
    BY DEF IdsTo
  <2> HIDE DEF L
  <2> QED
    BY <2>2, <2>3, <2>4, <2>5
<1> QED
  BY <1>1, <1>4, <1>5, <1>6

(* A number has no channels.                                               *)
LEMMA NumberHasNone == \A e \in Exprs : e.op = "int" => Ids[e] = <<>>
<1> SUFFICES ASSUME NEW e \in Exprs, e.op = "int" PROVE Ids[e] = <<>>
  OBVIOUS
<1>1. e.args = <<>>
  BY ExprsAssumption DEF Formed, Leaf
<1>2. Ids[e] = FlattenSeq(Each(Ids, e.args))
  BY IdsEquation DEF IdsIn
<1>3. PICK s : s = Each(Ids, e.args)
  OBVIOUS
<1>4. s = <<>>
  BY <1>1, <1>3 DEF Each
<1> QED
  BY <1>2, <1>3, <1>4 DEF FlattenSeq

(* The elements of a cluster that grows keep their channels.               *)
LEMMA IdsToAppend ==
  ASSUME NEW els \in Seq(Elements), NEW el \in Elements
  PROVE  /\ Append(els, el) \in Seq(Elements) /\ Len(Append(els, el)) = Len(els) + 1
         /\ IdsTo(Append(els, el), Len(els) + 1) = IdsTo(els, Len(els)) \o Ids[el.expr]
<1>1. PICK n \in Nat, more \in Seq(Elements) :
         /\ n = Len(els) /\ more = Append(els, el) /\ Len(more) = n + 1 /\ more[n + 1] = el
         /\ \A i \in 1..n : more[i] = els[i]
  <2>1. /\ Append(els, el) \in Seq(Elements) /\ Len(Append(els, el)) = Len(els) + 1
        /\ Append(els, el)[Len(els) + 1] = el /\ \A i \in 1..Len(els) : Append(els, el)[i] = els[i]
    BY AppendProperties
  <2>2. Len(els) \in Nat
    BY LenProperties
  <2> QED
    BY <2>1, <2>2
<1>2. IdsTo(more, n + 1) = IdsTo(more, (n + 1) - 1) \o Ids[more[n + 1].expr]
  <2>1. n + 1 \in 1..Len(more)
    BY <1>1
  <2> QED
    BY <2>1, IdsToFacts
<1>3. IdsTo(more, n) = IdsTo(els, n)
  <2>1. [i \in 1..n |-> Ids[more[i].expr]] = [i \in 1..n |-> Ids[els[i].expr]]
    BY <1>1
  <2> QED
    BY <2>1 DEF IdsTo
<1>4. (n + 1) - 1 = n
  OBVIOUS
<1> QED
  BY <1>1, <1>2, <1>3, <1>4

-----------------------------------------------------------------------------
(* The inductive invariant.                                                *)

ProgInv ==
    /\ cluster \in BOOLEAN
    /\ pass \in {"uses", "print", "done", "unknown", "samebranch"}
    /\ prog \in Seq(Elements) /\ Len(prog) <= MaxElements /\ next \in 1..(Len(prog) + 1)
    /\ pass = "uses" => next = 1
    /\ pass = "done" => next = Len(prog) + 1

(* What the first pass has counted.                                        *)
UsesInv == uses = Range(IdsTo(prog, Len(prog)))

(* What the second pass has taken, unless it gave up.                      *)
GenInv ==
    /\ Proper(gen) /\ IsInjective(gen.args)
    /\ pass \in {"uses", "print", "done"} => gen.args = Distinct(IdsTo(prog, next - 1))

OutRecords == [res : Nat, bw : Nat, of : Nat]
OutsInv ==
    /\ outs \in Seq(OutRecords)
    /\ \A k \in DOMAIN outs : outs[k].of \in 1..(next - 1) /\ outs[k].bw = prog[outs[k].of].bw

UnitInv == PortWidths /\ (pass # "done" => unit = <<>>)

FuncInv == ProgInv /\ UsesInv /\ GenInv /\ OutsInv /\ UnitInv

LEMMA StartReady ==
  /\ Proper(Start) /\ Start.args = <<>> /\ Distinct(<<>>) = <<>>
<1>1. Start \in Gen
  <2>1. Name("int", 0) \in Names
    BY NameType
  <2>2. <<>> \in Seq(Vars) /\ <<>> \in Seq(Assignments) /\ <<>> \in Seq(Nat)
    BY EmptySeq
  <2> QED
    BY <2>1, <2>2 DEF Start, Gen
<1>2. /\ Start.args = <<>> /\ Start.code = <<>> /\ Start.hidden = <<>> /\ Start.name = Name("int", 0)
  BY DEF Start
<1>3. Refers(Start.name, Len(Start.args), Len(Start.code))
  <2>1. Start.name \in Names
    BY <1>2, NameType
  <2> QED
    BY <1>2, <2>1 DEF Refers, Name
<1>4. ProperCode(Start)
  <2>1. DOMAIN Start.code = {}
    BY <1>2
  <2> QED
    BY <2>1 DEF ProperCode
<1>5. Distinct(<<>>) = <<>>
  <2>1. Distinct(<<>>) \in Seq(Vars) /\ Range(Distinct(<<>>)) = Range(<<>>)
    BY EmptySeq, DistinctFacts
  <2>2. PICK d \in Seq(Vars) : d = Distinct(<<>>)
    BY <2>1
  <2>3. Range(d) = {}
    BY <2>1, <2>2 DEF Range
  <2>4. d = <<>>
    <3>1. Len(d) \in Nat /\ DOMAIN d = 1..Len(d)
      BY LenProperties
    <3>2. d # <<>> => Len(d) \in Nat \ {0}
      BY EmptySeq
    <3>3. d # <<>> => d[1] \in Range(d)
      BY <3>1, <3>2 DEF Range
    <3> QED
      BY <2>3, <3>3
  <2> QED
    BY <2>2, <2>4
<1> QED
  BY <1>1, <1>2, <1>3, <1>4, <1>5 DEF Proper

(* A width handed down makes the generator ready.                          *)
LEMMA ReadyWithWidth ==
  ASSUME NEW g, Proper(g), NEW t \in Seq(Vars), g.args = Distinct(t), NEW w \in Nat \ {0}
  PROVE  Ready([g EXCEPT !.bw = w], t)
<1>1. g \in Gen
  BY DEF Proper
<1>2. PICK h \in Gen : h = [g EXCEPT !.bw = w]
  BY <1>1, WithWidth
<1>3. /\ h.args = g.args /\ h.code = g.code /\ h.hidden = g.hidden /\ h.bw = w /\ h.name = g.name
  BY <1>1, <1>2 DEF Gen
<1>4. Len(g.args) <= Len(h.args)
  BY <1>1, <1>3, GenFields
<1>5. ProperCode(h)
  BY <1>1, <1>3, <1>4, ProperCodeGrows DEF Proper
<1> QED
  BY <1>2, <1>3, <1>5 DEF Ready, Proper

LEMMA FuncInit == Init => FuncInv
<1> SUFFICES ASSUME Init PROVE FuncInv
  OBVIOUS
<1> USE DEF Init
<1>1. prog \in Seq(Elements) /\ Len(prog) = 0
  BY EmptySeq
<1>2. ProgInv
  BY <1>1, WidthsAssumption DEF ProgInv
<1>3. IdsTo(prog, 0) = <<>>
  BY <1>1, IdsToFacts
<1>4. UsesInv
  <2>1. Range(<<>>) = {}
    BY DEF Range
  <2> QED
    BY <1>1, <1>3, <2>1 DEF UsesInv
<1>5. GenInv
  <2>1. next - 1 = 0
    OBVIOUS
  <2>2. IsInjective(<<>>)
    BY DEF IsInjective
  <2> QED
    BY <1>3, <2>1, <2>2, StartReady DEF GenInv
<1>6. OutsInv
  BY EmptySeq DEF OutsInv
<1>7. UnitInv
  BY DEF UnitInv, PortWidths
<1> QED
  BY <1>2, <1>4, <1>5, <1>6, <1>7 DEF FuncInv

LEMMA CollectUsesStep ==
  ASSUME FuncInv, NEW el \in Elements, CollectUses(el)
  PROVE  FuncInv'
<1>1. /\ prog \in Seq(Elements) /\ Len(prog) \in Nat /\ Len(prog) <= MaxElements /\ next = 1 /\ pass = "uses"
      /\ cluster \in BOOLEAN /\ MaxElements \in Nat \ {0}
  BY LenProperties, WidthsAssumption DEF FuncInv, ProgInv, CollectUses
<1>2. UNCHANGED <<cluster, gen, outs, next, unit>>
  BY DEF CollectUses
<1>3. unit = <<>> /\ unit' = <<>>
  BY <1>1, <1>2 DEF FuncInv, UnitInv
<1>4. UnitInv'
  BY <1>3 DEF UnitInv, PortWidths
<1>5. DOMAIN outs = {} /\ outs \in Seq(OutRecords)
  <2>1. outs \in Seq(OutRecords) /\ \A k \in DOMAIN outs : outs[k].of \in 1..(next - 1)
    BY DEF FuncInv, OutsInv
  <2>2. 1..(next - 1) = {}
    BY <1>1
  <2> QED
    BY <2>1, <2>2
<1>6. OutsInv'
  BY <1>2, <1>5 DEF OutsInv
<1>7. CASE pass' = "unknown" /\ UNCHANGED <<prog, uses>>
  <2>1. ProgInv'
    BY <1>1, <1>2, <1>7 DEF ProgInv
  <2>2. UsesInv'
    BY <1>7 DEF FuncInv, UsesInv
  <2>3. GenInv'
    BY <1>2, <1>7 DEF FuncInv, GenInv
  <2> QED
    BY <1>4, <1>6, <2>1, <2>2, <2>3 DEF FuncInv
<1>8. CASE prog' = Append(prog, el) /\ uses' = uses \cup UsesOf[el.expr] /\ pass' = pass
  <2>1. prog' \in Seq(Elements) /\ Len(prog') = Len(prog) + 1
    BY <1>1, <1>8, AppendProperties
  <2>2. Len(prog) < MaxElements
    BY <1>1 DEF CollectUses
  <2>3. ProgInv'
    BY <1>1, <1>2, <1>8, <2>1, <2>2 DEF ProgInv
  <2>4. UsesInv'
    <3>1. IdsTo(prog', Len(prog')) = IdsTo(prog, Len(prog)) \o Ids[el.expr]
      BY <1>1, <1>8, <2>1, IdsToAppend
    <3>2. PICK a \in Seq(Vars), b \in Seq(Vars) : a = IdsTo(prog, Len(prog)) /\ b = Ids[el.expr]
      <4>1. Len(prog) \in 0..Len(prog)
        BY <1>1
      <4> QED
        BY <1>1, <4>1, IdsToFacts, IdsEquation, ElementsAssumption
    <3>3. Range(a \o b) = Range(a) \cup Range(b)
      BY RangeConcatenation
    <3>4. uses = Range(a) /\ UsesOf[el.expr] = Range(b)
      BY <3>2, UsesAreIds, ElementsAssumption DEF FuncInv, UsesInv
    <3> QED
      BY <1>8, <3>1, <3>2, <3>3, <3>4 DEF UsesInv
  <2>5. GenInv'
    <3>1. IdsTo(prog, 0) = <<>> /\ IdsTo(prog', 0) = <<>>
      BY <1>1, <2>1, IdsToFacts
    <3>2. next - 1 = 0
      BY <1>1
    <3> QED
      BY <1>1, <1>2, <1>8, <3>1, <3>2 DEF FuncInv, GenInv
  <2> QED
    BY <1>4, <1>6, <2>3, <2>4, <2>5 DEF FuncInv
<1> QED
  BY <1>7, <1>8 DEF CollectUses

LEMMA SecondPassStep ==
  ASSUME FuncInv, SecondPass
  PROVE  FuncInv'
<1>1. /\ UNCHANGED <<cluster, prog, uses, gen, outs, next, unit>> /\ pass = "uses" /\ pass' = "print"
  BY DEF SecondPass
<1>2. ProgInv'
  BY <1>1 DEF FuncInv, ProgInv
<1>3. UsesInv' /\ OutsInv'
  BY <1>1 DEF FuncInv, UsesInv, OutsInv
<1>4. GenInv'
  BY <1>1 DEF FuncInv, GenInv
<1>5. UnitInv'
  <2>1. unit' = <<>>
    BY <1>1 DEF FuncInv, UnitInv
  <2> QED
    BY <2>1 DEF UnitInv, PortWidths
<1> QED
  BY <1>2, <1>3, <1>4, <1>5 DEF FuncInv

LEMMA HandleFuncStep ==
  ASSUME FuncInv, HandleFunc
  PROVE  FuncInv'
<1>1. /\ prog \in Seq(Elements) /\ Len(prog) \in Nat /\ next \in 1..Len(prog) /\ pass = "print"
      /\ cluster \in BOOLEAN /\ Len(prog) <= MaxElements /\ MaxElements \in Nat \ {0}
  BY LenProperties, WidthsAssumption DEF FuncInv, ProgInv, HandleFunc
<1>2. UNCHANGED <<cluster, prog, uses, unit>> /\ next' = next + 1
  BY DEF HandleFunc
<1>3. PICK el \in Elements, e \in Exprs : el = prog[next] /\ e = el.expr /\ el.bw \in Nat \ {0}
  BY <1>1, ElementOfSeq, ElementsAssumption
<1>4. PICK t \in Seq(Vars), s \in Seq(Vars) :
         /\ t = IdsTo(prog, next - 1) /\ s = Ids[e] /\ IdsTo(prog, next) = t \o s
  <2>1. next - 1 \in 0..Len(prog)
    BY <1>1
  <2>2. IdsTo(prog, next - 1) \in Seq(Vars) /\ IdsTo(prog, next) = IdsTo(prog, next - 1) \o Ids[prog[next].expr]
    BY <1>1, <2>1, IdsToFacts
  <2>3. Ids[e] \in Seq(Vars)
    BY IdsEquation
  <2> QED
    BY <1>3, <2>2, <2>3
<1>5. Proper(gen) /\ gen.args = Distinct(t) /\ IsInjective(gen.args)
  BY <1>1, <1>4 DEF FuncInv, GenInv
<1>6. PICK g : g = PrintPort(e, PrintExpr[e][[gen EXCEPT !.bw = el.bw]]) /\ Ready(g, t \o s)
  <2>1. PICK a : a = [gen EXCEPT !.bw = el.bw] /\ Ready(a, t)
    BY <1>3, <1>5, ReadyWithWidth
  <2>2. PICK h : h = PrintExpr[e][a] /\ Ready(h, t \o s)
    <3>1. Prints(PrintExpr[e], s)
      BY <1>4, PrintExprPrints
    <3> QED
      BY <2>1, <3>1, PrintsReady
  <2> QED
    BY <2>1, <2>2, PrintPortReady
<1>7. UnitInv'
  <2>1. unit' = <<>>
    BY <1>1, <1>2 DEF FuncInv, UnitInv
  <2> QED
    BY <2>1 DEF UnitInv, PortWidths
<1>8. UsesInv'
  BY <1>2 DEF FuncInv, UsesInv
<1>9. next' - 1 = next /\ next' \in 1..(Len(prog) + 1)
  BY <1>1, <1>2
<1>10. ASSUME UNCHANGED outs PROVE OutsInv'
  <2>1. outs \in Seq(OutRecords)
        /\ \A k \in DOMAIN outs : outs[k].of \in 1..(next - 1) /\ outs[k].bw = prog[outs[k].of].bw
    BY DEF FuncInv, OutsInv
  <2>2. 1..(next - 1) \subseteq 1..(next' - 1)
    <3>1. 1..(next - 1) \subseteq 1..next
      BY <1>1
    <3> QED
      BY <1>9, <3>1
  <2> QED
    BY <1>2, <1>10, <2>1, <2>2 DEF OutsInv
<1>11. CASE e.op = "int" /\ UNCHANGED <<gen, outs, pass>>
  <2>1. t \o s = t
    BY <1>4, <1>11, NumberHasNone, ConcatEmptySeq
  <2>2. gen' = gen /\ pass' = pass
    BY <1>11
  <2>3. GenInv'
    BY <1>1, <1>2, <1>4, <1>5, <1>9, <2>1, <2>2 DEF GenInv
  <2>4. ProgInv'
    BY <1>1, <1>2, <1>9, <2>2 DEF ProgInv
  <2> QED
    BY <1>7, <1>8, <1>10, <1>11, <2>3, <2>4 DEF FuncInv
<1>12. CASE pass' = "samebranch" /\ UNCHANGED <<gen, outs>>
  <2>1. GenInv'
    BY <1>5, <1>12 DEF GenInv
  <2>2. ProgInv'
    BY <1>1, <1>2, <1>9, <1>12 DEF ProgInv
  <2> QED
    BY <1>7, <1>8, <1>10, <1>12, <2>1, <2>2 DEF FuncInv
<1>13. CASE /\ gen' = g /\ pass' = pass
            /\ outs' = Append(outs, [res |-> Len(g.code), bw |-> el.bw, of |-> next])
  <2>1. Proper(g) /\ g.args = Distinct(t \o s) /\ t \o s \in Seq(Vars)
    BY <1>6 DEF Ready
  <2>2. IsInjective(g.args)
    BY <2>1, DistinctFacts
  <2>3. GenInv'
    BY <1>2, <1>4, <1>9, <1>13, <2>1, <2>2 DEF GenInv
  <2>4. ProgInv'
    BY <1>1, <1>2, <1>9, <1>13 DEF ProgInv
  <2>5. OutsInv'
    <3>1. PICK o \in Seq(OutRecords) :
             /\ o = outs
             /\ \A k \in DOMAIN o : o[k].of \in 1..(next - 1) /\ o[k].bw = prog[o[k].of].bw
      BY DEF FuncInv, OutsInv
    <3>2. PICK r \in OutRecords : r = [res |-> Len(g.code), bw |-> el.bw, of |-> next]
      <4>1. Len(g.code) \in Nat
        BY <2>1, GenFields DEF Proper
      <4>2. next \in Nat /\ el.bw \in Nat
        BY <1>1, <1>3
      <4> QED
        BY <4>1, <4>2 DEF OutRecords
    <3>3. PICK m \in Nat : m = Len(o) /\ DOMAIN o = 1..m
      BY LenProperties
    <3>4. PICK p \in Seq(OutRecords) :
             /\ p = Append(o, r) /\ Len(p) = m + 1 /\ p[m + 1] = r /\ \A k \in 1..m : p[k] = o[k]
      <4>1. /\ Append(o, r) \in Seq(OutRecords) /\ Len(Append(o, r)) = Len(o) + 1
            /\ Append(o, r)[Len(o) + 1] = r /\ \A k \in 1..Len(o) : Append(o, r)[k] = o[k]
        BY AppendProperties
      <4> QED
        BY <3>3, <4>1
    <3>5. DOMAIN p = 1..(m + 1)
      BY <3>4, LenProperties
    <3>6. ASSUME NEW k \in DOMAIN p PROVE p[k].of \in 1..next /\ p[k].bw = prog[p[k].of].bw
      <4>1. CASE k \in 1..m
        <5>1. 1..(next - 1) \subseteq 1..next
          BY <1>1
        <5> QED
          BY <3>1, <3>3, <3>4, <4>1, <5>1
      <4>2. CASE k = m + 1
        <5>1. p[k].of = next /\ p[k].bw = el.bw
          BY <3>2, <3>4, <4>2
        <5> QED
          BY <1>1, <1>3, <5>1
      <4> QED
        BY <3>5, <4>1, <4>2
    <3>7. outs' = p
      BY <1>13, <3>1, <3>2, <3>4
    <3> QED
      BY <1>2, <1>9, <3>6, <3>7 DEF OutsInv
  <2> QED
    BY <1>7, <1>8, <2>3, <2>4, <2>5 DEF FuncInv
<1>14. \/ e.op = "int" /\ UNCHANGED <<gen, outs, pass>>
       \/ pass' = "samebranch" /\ UNCHANGED <<gen, outs>>
       \/ /\ gen' = g /\ pass' = pass
          /\ outs' = Append(outs, [res |-> Len(g.code), bw |-> el.bw, of |-> next])
  BY <1>3, <1>6 DEF HandleFunc
<1> QED
  BY <1>11, <1>12, <1>13, <1>14

(* The widths of the ports are read off the name of the process.           *)
LEMMA NameWidthsFacts ==
  ASSUME NEW els \in Seq(Elements), NEW ids \in Seq(Vars)
  PROVE  /\ \A i \in 1..Len(ids) : NameWidths(els, ids)[i] = BW[ids[i]]
         /\ \A k \in 1..Len(els) : NameWidths(els, ids)[Len(ids) + k] = els[k].bw
<1>1. PICK n \in Nat, m \in Nat : n = Len(ids) /\ m = Len(els) /\ DOMAIN ids = 1..n /\ DOMAIN els = 1..m
  BY LenProperties
<1>0. \A k \in Nat : \A f \in [1..k -> Nat] : f \in Seq(Nat) /\ Len(f) = k
  OBVIOUS
<1>2. \A i \in 1..n : BW[ids[i]] \in Nat
  <2>1. \A i \in 1..n : ids[i] \in Vars
    BY <1>1, ElementOfSeq
  <2> QED
    BY <2>1, WidthsAssumption
<1>3. \A k \in 1..m : els[k].bw \in Nat
  <2>1. \A k \in 1..m : els[k] \in Elements
    BY <1>1, ElementOfSeq
  <2> QED
    BY <2>1, ElementsAssumption
<1>4. PICK a \in Seq(Nat) : a = [i \in DOMAIN ids |-> BW[ids[i]]] /\ Len(a) = n /\ \A i \in 1..n : a[i] = BW[ids[i]]
  <2>1. PICK a : a = [i \in DOMAIN ids |-> BW[ids[i]]]
    OBVIOUS
  <2>2. a \in [1..n -> Nat] /\ \A i \in 1..n : a[i] = BW[ids[i]]
    BY <1>1, <1>2, <2>1
  <2>3. a \in Seq(Nat) /\ Len(a) = n
    BY <2>2
  <2> QED
    BY <2>1, <2>2, <2>3
<1>5. PICK b \in Seq(Nat) : b = [i \in DOMAIN els |-> els[i].bw] /\ Len(b) = m /\ \A k \in 1..m : b[k] = els[k].bw
  <2>1. PICK b : b = [i \in DOMAIN els |-> els[i].bw]
    OBVIOUS
  <2>2. b \in [1..m -> Nat] /\ \A k \in 1..m : b[k] = els[k].bw
    BY <1>1, <1>3, <2>1
  <2>3. b \in Seq(Nat) /\ Len(b) = m
    BY <1>0, <2>2
  <2> QED
    BY <2>1, <2>2, <2>3
<1>6. NameWidths(els, ids) = a \o b
  BY <1>4, <1>5 DEF NameWidths
<1>7. \A j \in 1..(n + m) : (a \o b)[j] = IF j <= n THEN a[j] ELSE b[j - n]
  BY <1>4, <1>5, ConcatProperties
<1>8. ASSUME NEW i \in 1..n PROVE (a \o b)[i] = BW[ids[i]]
  <2>1. i \in 1..(n + m) /\ i <= n
    OBVIOUS
  <2> QED
    BY <1>4, <1>7, <2>1
<1>9. ASSUME NEW k \in 1..m PROVE (a \o b)[n + k] = els[k].bw
  <2>1. n + k \in 1..(n + m) /\ ~(n + k <= n) /\ (n + k) - n = k
    OBVIOUS
  <2> QED
    BY <1>5, <1>7, <2>1
<1> QED
  BY <1>1, <1>6, <1>8, <1>9

LEMMA PrintUnitStep ==
  ASSUME FuncInv, PrintUnit
  PROVE  FuncInv'
<1>1. /\ prog \in Seq(Elements) /\ Len(prog) \in Nat /\ next = Len(prog) + 1 /\ pass = "print"
      /\ DOMAIN prog = 1..Len(prog)
  BY LenProperties DEF FuncInv, ProgInv, PrintUnit
<1>2. UNCHANGED <<cluster, prog, uses, gen, outs, next>> /\ pass' = "done"
  BY DEF PrintUnit
<1>3. gen.args = Distinct(IdsTo(prog, Len(prog))) /\ Proper(gen)
  <2>1. next - 1 = Len(prog)
    BY <1>1
  <2> QED
    BY <1>1, <2>1 DEF FuncInv, GenInv
<1>4. PICK bits : bits = NameWidths(prog, gen.args)
  OBVIOUS
<1>5. bits = NameWidths(prog, Distinct(FlattenSeq([i \in DOMAIN prog |-> Ids[prog[i].expr]])))
  BY <1>1, <1>3, <1>4 DEF IdsTo
<1>6. PICK n \in Nat : n = Len(gen.args) /\ DOMAIN gen.args = 1..n /\ gen.args \in Seq(Vars)
  BY <1>3, GenFields DEF Proper
<1>7. /\ \A i \in 1..n : bits[i] = BW[gen.args[i]]
      /\ \A k \in 1..Len(prog) : bits[n + k] = prog[k].bw
  BY <1>1, <1>4, <1>6, NameWidthsFacts
<1>8. unit' # <<>> => /\ unit'[1].ins = [i \in DOMAIN gen.args |-> bits[i]]
                      /\ unit'[1].outs = [k \in DOMAIN outs |-> bits[n + k]]
  BY <1>5, <1>6 DEF PrintUnit
<1>9. PortWidths'
  <2> SUFFICES ASSUME unit' # <<>>
               PROVE  /\ \A i \in DOMAIN gen.args : unit'[1].ins[i] = BW[gen.args[i]]
                      /\ \A k \in DOMAIN outs : Aligned(k) => unit'[1].outs[k] = outs[k].bw
    BY <1>2 DEF PortWidths, Aligned
  <2>1. ASSUME NEW i \in DOMAIN gen.args PROVE unit'[1].ins[i] = BW[gen.args[i]]
    BY <1>6, <1>7, <1>8
  <2>2. ASSUME NEW k \in DOMAIN outs, Aligned(k) PROVE unit'[1].outs[k] = outs[k].bw
    <3>1. outs[k].of = k /\ k \in 1..(next - 1) /\ outs[k].bw = prog[k].bw
      BY <2>2 DEF Aligned, FuncInv, OutsInv
    <3>2. k \in 1..Len(prog)
      BY <1>1, <3>1
    <3> QED
      BY <1>7, <1>8, <3>1, <3>2
  <2> QED
    BY <2>1, <2>2
<1>10. UnitInv'
  BY <1>2, <1>9 DEF UnitInv
<1>11. ProgInv'
  BY <1>1, <1>2 DEF FuncInv, ProgInv
<1>12. UsesInv' /\ OutsInv'
  BY <1>2 DEF FuncInv, UsesInv, OutsInv
<1>13. GenInv'
  BY <1>1, <1>2 DEF FuncInv, GenInv
<1> QED
  BY <1>10, <1>11, <1>12, <1>13 DEF FuncInv

LEMMA FuncStep == FuncInv /\ [Next]_vars => FuncInv'
<1> SUFFICES ASSUME FuncInv, [Next]_vars PROVE FuncInv'
  OBVIOUS
<1>1. CASE UNCHANGED vars
  <2>1. UNCHANGED <<cluster, prog, uses, pass, gen, outs, next, unit>>
    BY <1>1 DEF vars
  <2>2. ProgInv' /\ UsesInv' /\ GenInv' /\ OutsInv'
    BY <2>1 DEF FuncInv, ProgInv, UsesInv, GenInv, OutsInv
  <2>3. UnitInv'
    BY <2>1 DEF FuncInv, UnitInv, PortWidths, Aligned
  <2> QED
    BY <2>2, <2>3 DEF FuncInv
<1>2. CASE Next
  BY <1>2, CollectUsesStep, SecondPassStep, HandleFuncStep, PrintUnitStep DEF Next
<1> QED
  BY <1>1, <1>2

THEOREM FuncInvTheorem == Spec => []FuncInv
BY FuncInit, FuncStep, PTL DEF Spec

(* Whatever the elements are and however deep their expressions: the       *)
(* arguments of a unit are different channels, and each name in it refers  *)
(* to an argument or an earlier result.                                    *)
THEOREM TypeOKTheorem == Spec => []TypeOK
<1>1. FuncInv => TypeOK
  <2> SUFFICES ASSUME FuncInv PROVE TypeOK
    OBVIOUS
  <2>1. uses \subseteq Vars
    <3>1. Len(prog) \in 0..Len(prog) /\ prog \in Seq(Elements)
      BY LenProperties DEF FuncInv, ProgInv
    <3>2. IdsTo(prog, Len(prog)) \in Seq(Vars)
      BY <3>1, IdsToFacts
    <3> QED
      BY <3>2, RangeOfSeq DEF FuncInv, UsesInv
  <2>2. ASSUME NEW j \in DOMAIN gen.code, NEW n \in Range(gen.code[j].args)
        PROVE  CASE n.kind = "x" -> n.i \in DOMAIN gen.args
                 [] n.kind = "res" -> n.i \in 1..(j - 1)
                 [] n.kind = "int" -> n.i \in Nat
    <3>1. Refers(n, Len(gen.args), j - 1) /\ gen \in Gen
      BY DEF FuncInv, GenInv, Proper, ProperCode
    <3>2. DOMAIN gen.args = 1..Len(gen.args)
      BY <3>1, GenFields
    <3>3. n.kind \in {"x", "res", "int"} /\ n.i \in Nat
      BY <3>1 DEF Refers, Names
    <3> QED
      BY <3>1, <3>2, <3>3 DEF Refers
  <2> QED
    BY <2>1, <2>2 DEF TypeOK, FuncInv, ProgInv, GenInv, Proper, ProperCode
<1> QED
  BY <1>1, FuncInvTheorem, PTL

(* The first pass has counted the channels that the second has taken as    *)
(* arguments, for every list of elements.                                  *)
THEOREM PassesAgreeTheorem == Spec => []PassesAgree
<1>1. FuncInv => PassesAgree
  <2> SUFFICES ASSUME FuncInv, pass = "done" PROVE uses = Range(gen.args)
    BY DEF PassesAgree
  <2>1. PICK t \in Seq(Vars) : t = IdsTo(prog, Len(prog))
    <3>1. Len(prog) \in 0..Len(prog) /\ prog \in Seq(Elements)
      BY LenProperties DEF FuncInv, ProgInv
    <3> QED
      BY <3>1, IdsToFacts
  <2>2. next - 1 = Len(prog)
    BY LenProperties DEF FuncInv, ProgInv
  <2>3. gen.args = Distinct(t) /\ uses = Range(t)
    BY <2>1, <2>2 DEF FuncInv, GenInv, UsesInv
  <2> QED
    BY <2>3, DistinctFacts
<1> QED
  BY <1>1, FuncInvTheorem, PTL

(* The widths that the library reads back from the name of a process are   *)
(* those of the channels its ports connect.                                *)
THEOREM PortWidthsTheorem == Spec => []PortWidths
BY FuncInvTheorem, PTL DEF FuncInv, UnitInv

=============================================================================
