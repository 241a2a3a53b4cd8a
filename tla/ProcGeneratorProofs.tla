------------------------ MODULE ProcGeneratorProofs ------------------------
(***************************************************************************)
(* For every set of channels and every dataflow block: the state keeps its *)
(* type, the second pass never asks for a copy output that the first pass  *)
(* has not provided, and the copies written are those of the channels with *)
(* several uses.                                                           *)
(*                                                                         *)
(* The argument counts use sites. While the first pass is at element n,    *)
(* opUses[c] + 1 is the number of uses of c in the first n - 1 elements;   *)
(* while the second is there, copyUses[c] is at most that number. A        *)
(* channel of element n is used there, so the copy outputs handed out up   *)
(* to it are fewer than all the uses, which is what opUses[c] stands for.  *)
(*                                                                         *)
(* The second half is about the text: each instance has one of the shapes  *)
(* that the handlers and printers give it, an element has one process of   *)
(* its own, and what is numbered is given out once (TextInv).              *)
(***************************************************************************)
EXTENDS ProcGenerator, FiniteSetTheorems, TLAPS

USE DEF NoEntry

Scanned == CASE pc = "collect" -> next - 1
             [] OTHER          -> Len(prog)

(* The use sites seen so far are finitely many, and opUses counts them. *)
UsesCounted ==
  pc # "failed" =>
    \A c \in Chan : /\ IsFiniteSet(Sites(Scanned, c))
                    /\ opUses[c] = Cardinality(Sites(Scanned, c)) - 1

(* A channel has a count of copy outputs as soon as it has a count of uses; *)
(* it stays 0 until the second pass, and never exceeds the sites passed.    *)
CopiesBounded ==
  pc # "failed" =>
    \A c \in Chan :
      /\ opUses[c] = NoEntry <=> copyUses[c] = NoEntry
      /\ pc \in {"collect", "copies"} => copyUses[c] \in {NoEntry, 0}
      /\ pc = "emit" => copyUses[c] <= Cardinality(Sites(next - 1, c))

TypeInv ==
  /\ prog \in Programs
  /\ pc \in {"collect", "copies", "emit", "convert", "done", "failed"}
  /\ next \in 1..(Len(prog) + 1)
  /\ opUses \in [Chan -> Nat \cup {NoEntry}]
  /\ copyUses \in [Chan -> Nat \cup {NoEntry}]

IInv == TypeInv /\ UsesCounted /\ CopiesBounded /\ CountsSuffice

-----------------------------------------------------------------------------
(* Facts about programs and use sites. *)

(* The elements of a program of the assumed set have finite port sets. *)
LEMMA ProgType ==
  ASSUME NEW q \in Programs
  PROVE  /\ q \in Seq(Element)
         /\ Len(q) \in Nat
         /\ DOMAIN q = 1..Len(q)
         /\ \A i \in 1..Len(q) : q[i] \in Element
<1>1. q \in Seq(Element)
  BY ProgramsAssumption
<1> QED
  BY <1>1

(* An element uses a channel at finitely many ports. *)
LEMMA UsesFinite ==
  ASSUME NEW e \in Element, NEW c
  PROVE  /\ IsFiniteSet(UsesOf(e, c))
         /\ Cardinality(UsesOf(e, c)) \in Nat
         /\ UsesOf(e, c) \subseteq UsePorts(e)
         /\ UsePorts(e) \subseteq DOMAIN e.reads
         /\ \A p \in UsePorts(e) : e.reads[p] \in Chan
<1>1. e.reads \in Seq(Chan)
  BY DEF Element
<1>2. DOMAIN e.reads = 1..Len(e.reads) /\ Len(e.reads) \in Nat
  BY <1>1
<1>3. UsePorts(e) \subseteq DOMAIN e.reads
  BY DEF UsePorts, FirstOccurrences
<1>4. UsesOf(e, c) \subseteq DOMAIN e.reads
  BY <1>3 DEF UsesOf
<1>5. IsFiniteSet(DOMAIN e.reads)
  BY <1>2, FS_Interval
<1>6. IsFiniteSet(UsesOf(e, c))
  BY <1>4, <1>5, FS_Subset
<1>7. \A p \in UsePorts(e) : e.reads[p] \in Chan
  BY <1>1, <1>2, <1>3
<1> QED
  BY <1>3, <1>6, <1>7, FS_CardinalityType DEF UsesOf

(* Tagging the members of a finite set does not change how many they are. *)
LEMMA TagCardinality ==
  ASSUME NEW i, NEW S, IsFiniteSet(S)
  PROVE  IsFiniteSet({i} \X S) /\ Cardinality({i} \X S) = Cardinality(S)
<1> DEFINE f == [p \in S |-> <<i, p>>]
<1>1. f \in Bijection(S, {i} \X S)
  BY DEF Bijection, Injection, Surjection, IsInjective
<1>2. ExistsBijection(S, {i} \X S)
  BY <1>1 DEF ExistsBijection
<1> QED
  BY <1>2, FS_Bijection

(* One more element adds its own uses to the sites. *)
LEMMA SitesStep ==
  ASSUME prog \in Programs, NEW n \in Nat, n < Len(prog), NEW c,
         IsFiniteSet(Sites(n, c))
  PROVE  /\ IsFiniteSet(Sites(n + 1, c))
         /\ Cardinality(Sites(n + 1, c))
              = Cardinality(Sites(n, c)) + Cardinality(UsesOf(prog[n + 1], c))
<1> DEFINE U == UsesOf(prog[n + 1], c)
           T == {n + 1} \X U
<1>1. prog[n + 1] \in Element
  BY ProgType
<1>2. IsFiniteSet(U)
  BY <1>1, UsesFinite
<1>3. IsFiniteSet(T) /\ Cardinality(T) = Cardinality(U)
  BY <1>2, TagCardinality
<1>4. Sites(n + 1, c) = Sites(n, c) \cup T
  <2>1. 1..(n + 1) = (1..n) \cup {n + 1}
    OBVIOUS
  <2> QED
    BY <2>1, Zenon DEF Sites
<1>5. Sites(n, c) \cap T = {}
  <2>1. \A s \in Sites(n, c) : s[1] \in 1..n
    BY DEF Sites
  <2>2. \A s \in T : s[1] = n + 1
    OBVIOUS
  <2> QED
    BY <2>1, <2>2
<1>6. Cardinality(Sites(n, c) \cap T) = 0
  BY <1>5, FS_EmptySet
<1>7. Cardinality(Sites(n, c)) \in Nat /\ Cardinality(T) \in Nat
  BY <1>3, FS_CardinalityType
<1>8. /\ IsFiniteSet(Sites(n, c) \cup T)
      /\ Cardinality(Sites(n, c) \cup T)
           = Cardinality(Sites(n, c)) + Cardinality(T) - Cardinality(Sites(n, c) \cap T)
  BY <1>3, FS_Union, Zenon
<1>9. /\ IsFiniteSet(Sites(n + 1, c))
      /\ Cardinality(Sites(n + 1, c)) = Cardinality(Sites(n, c) \cup T)
  BY <1>4, <1>8, Zenon
<1> HIDE DEF T, U
<1>10. Cardinality(Sites(n + 1, c)) = Cardinality(Sites(n, c)) + Cardinality(U)
  BY <1>3, <1>6, <1>7, <1>8, <1>9
<1> USE DEF U
<1> QED
  BY <1>9, <1>10, Zenon

(* A prefix of the program has no more sites than the whole. *)
LEMMA SitesMonotone ==
  ASSUME NEW m \in Nat, NEW n \in Nat, m <= n, NEW c, IsFiniteSet(Sites(n, c))
  PROVE  /\ IsFiniteSet(Sites(m, c))
         /\ Cardinality(Sites(m, c)) \in Nat
         /\ Cardinality(Sites(n, c)) \in Nat
         /\ Cardinality(Sites(m, c)) <= Cardinality(Sites(n, c))
<1>1. 1..m \subseteq 1..n
  OBVIOUS
<1>2. Sites(m, c) \subseteq Sites(n, c)
  BY <1>1 DEF Sites
<1> QED
  BY <1>2, FS_Subset, FS_CardinalityType

-----------------------------------------------------------------------------
(* The invariant. *)

LEMMA InitInv == Init => IInv
<1> SUFFICES ASSUME Init PROVE IInv
  OBVIOUS
<1> USE DEF Init
<1>1. Len(prog) \in Nat
  BY ProgType
<1>2. TypeInv
  BY <1>1 DEF TypeInv
<1>3. \A c : Sites(next - 1, c) = {}
  BY DEF Sites
<1>4. UsesCounted
  <2>1. Scanned = next - 1
    BY DEF Scanned
  <2>2. \A c : IsFiniteSet(Sites(next - 1, c)) /\ Cardinality(Sites(next - 1, c)) = 0
    BY <1>3, FS_EmptySet
  <2> QED
    BY <2>1, <2>2 DEF UsesCounted
<1>5. CopiesBounded
  BY DEF CopiesBounded
<1>6. CountsSuffice
  BY DEF CountsSuffice
<1> QED
  BY <1>2, <1>4, <1>5, <1>6 DEF IInv

(* A round of the first pass adds the uses of one element to the counts. *)
LEMMA CollectInv ==
  ASSUME IInv, CollectOpUses
  PROVE  IInv'
<1> DEFINE e == prog[next]
<1> USE DEF CollectOpUses
<1>1. prog \in Programs /\ Len(prog) \in Nat /\ next \in 1..Len(prog) /\ e \in Element
  BY ProgType DEF IInv, TypeInv
<1>2. prog' = prog
  OBVIOUS
<1>3. CASE CollectError(e) # "none"
  <2>1. CollectError(e) \in {"few inputs", "cluster element", "cluster expression", "none"}
    BY DEF CollectError
  <2>2. pc' = "failed" /\ err' = CollectError(e) /\ UNCHANGED <<next, opUses, copyUses>>
    BY <1>3 DEF Exit
  <2>3. TypeInv'
    BY <1>2, <2>2 DEF IInv, TypeInv
  <2>4. CountsSuffice'
    BY <2>1, <2>2 DEF CountsSuffice
  <2> QED
    BY <2>2, <2>3, <2>4 DEF IInv, UsesCounted, CopiesBounded
<1>4. CASE CollectError(e) = "none"
  <2>1. /\ opUses' = [c \in Chan |-> Counted(opUses[c], Cardinality(UsesOf(e, c)))]
        /\ copyUses' = [c \in Chan |-> IF UsesOf(e, c) # {} /\ opUses[c] = NoEntry
                                       THEN 0 ELSE copyUses[c]]
        /\ next' = next + 1 /\ pc' = pc /\ err' = err /\ pc = "collect"
    BY <1>4
  <2>2. ASSUME NEW c \in Chan
        PROVE  /\ IsFiniteSet(Sites(next - 1, c))
               /\ Cardinality(Sites(next - 1, c)) \in Nat
               /\ opUses[c] = Cardinality(Sites(next - 1, c)) - 1
    BY <2>1, FS_CardinalityType DEF IInv, UsesCounted, Scanned
  <2>3. ASSUME NEW c \in Chan
        PROVE  /\ IsFiniteSet(Sites(next, c))
               /\ Cardinality(Sites(next, c))
                    = Cardinality(Sites(next - 1, c)) + Cardinality(UsesOf(e, c))
    <3>1. next - 1 \in Nat /\ next - 1 < Len(prog) /\ (next - 1) + 1 = next
      BY <1>1
    <3> QED
      BY <1>1, <2>2, <3>1, SitesStep
  <2>4. ASSUME NEW c \in Chan
        PROVE  /\ Cardinality(UsesOf(e, c)) \in Nat
               /\ Cardinality(UsesOf(e, c)) = 0 <=> UsesOf(e, c) = {}
    BY <1>1, UsesFinite, FS_EmptySet
  <2>5. ASSUME NEW c \in Chan
        PROVE  opUses'[c] = Cardinality(Sites(next, c)) - 1
    BY <2>1, <2>2, <2>3, <2>4 DEF Counted
  <2>6. \A c \in Chan : opUses'[c] \in Nat \cup {NoEntry}
    BY <2>2, <2>3, <2>4, <2>5
  <2>7. opUses' \in [Chan -> Nat \cup {NoEntry}]
    BY <2>1, <2>6
  <2>8. copyUses' \in [Chan -> Nat \cup {NoEntry}]
    BY <2>1 DEF IInv, TypeInv
  <2>9. TypeInv'
    BY <1>1, <1>2, <2>1, <2>7, <2>8 DEF IInv, TypeInv
  <2>10. UsesCounted'
    <3>1. Scanned' = next /\ \A c : Sites(Scanned, c)' = Sites(next, c)
      BY <1>1, <1>2, <2>1 DEF Scanned, Sites
    <3> QED
      BY <2>3, <2>5, <3>1 DEF UsesCounted
  <2>11. CopiesBounded'
    <3>1. ASSUME NEW c \in Chan
          PROVE  /\ copyUses[c] \in {NoEntry, 0}
                 /\ opUses[c] = NoEntry <=> copyUses[c] = NoEntry
      BY <2>1 DEF IInv, CopiesBounded
    <3>2. ASSUME NEW c \in Chan
          PROVE  /\ opUses'[c] = NoEntry <=> copyUses'[c] = NoEntry
                 /\ copyUses'[c] \in {NoEntry, 0}
      BY <2>1, <2>2, <2>3, <2>4, <2>5, <3>1
    <3> QED
      BY <2>1, <3>2 DEF CopiesBounded
  <2>12. CountsSuffice'
    BY <2>1 DEF IInv, CountsSuffice
  <2> QED
    BY <2>9, <2>10, <2>11, <2>12 DEF IInv
<1> QED
  BY <1>3, <1>4

(* A step that changes neither the program, nor the counts, nor the exit     *)
(* reason keeps the invariant, provided it enters no loop with other bounds. *)
LEMMA QuietInv ==
  ASSUME IInv, UNCHANGED <<prog, opUses, copyUses, err>>,
         next' \in 1..(Len(prog) + 1),
         \/ pc = "collect" /\ pc' = "copies" /\ next = Len(prog) + 1
         \/ pc # "collect" /\ pc # "failed" /\ pc # "emit" /\ pc' \in {"copies", "convert", "done"} /\ (pc' = "copies" => pc = "copies")
         \/ pc = "copies" /\ pc' = "emit"
         \/ pc = "emit" /\ pc' = "convert"
         \/ pc' = pc /\ next' = next
  PROVE  IInv'
<1>1. Len(prog) \in Nat
  BY ProgType DEF IInv, TypeInv
<1>2. TypeInv'
  BY DEF IInv, TypeInv
<1>3. CountsSuffice'
  BY DEF IInv, CountsSuffice
<1>4. \A m, c : Sites(m, c)' = Sites(m', c)
  BY DEF Sites
<1>5. UsesCounted'
  <2>1. pc # "failed" => Scanned' = Scanned
    BY <1>1 DEF Scanned, IInv, TypeInv
  <2>2. \A c : Sites(Scanned, c)' = Sites(Scanned', c)
    BY DEF Sites
  <2> QED
    BY <2>1, <2>2 DEF IInv, UsesCounted
<1>6. CopiesBounded'
  <2>1. \A c : Sites(next - 1, c)' = Sites(next' - 1, c)
    BY DEF Sites
  <2>2. ASSUME pc = "copies", pc' = "emit", NEW c \in Chan
        PROVE  copyUses'[c] <= Cardinality(Sites(next' - 1, c))
    <3>1. copyUses'[c] \in {NoEntry, 0}
      BY <2>2 DEF IInv, CopiesBounded
    <3>2. IsFiniteSet(Sites(Len(prog), c))
      BY <2>2 DEF IInv, UsesCounted, Scanned
    <3>3. Cardinality(Sites(next' - 1, c)) \in Nat
      BY <1>1, <3>2, SitesMonotone
    <3> QED
      BY <3>1, <3>3
  <2> QED
    BY <2>1, <2>2 DEF IInv, CopiesBounded
<1> QED
  BY <1>2, <1>3, <1>5, <1>6 DEF IInv

(* What the second pass has handed out up to an element, and what the first *)
(* pass has counted, at the element it is at.                               *)
LEMMA EmitCounts ==
  ASSUME IInv, pc = "emit", next <= Len(prog), NEW c \in Chan
  PROVE  /\ prog[next] \in Element /\ next \in 1..Len(prog)
         /\ copyUses[c] \in Nat \cup {NoEntry}
         /\ opUses[c] = NoEntry <=> copyUses[c] = NoEntry
         /\ Cardinality(Sites(next - 1, c)) \in Nat
         /\ Cardinality(UsesOf(prog[next], c)) \in Nat
         /\ copyUses[c] <= Cardinality(Sites(next - 1, c))
         /\ IsFiniteSet(Sites(next, c))
         /\ Cardinality(Sites(next, c))
              = Cardinality(Sites(next - 1, c)) + Cardinality(UsesOf(prog[next], c))
         /\ Cardinality(Sites(next, c)) <= opUses[c] + 1
         /\ opUses[c] \in Nat \cup {NoEntry}
<1>1. prog \in Programs /\ Len(prog) \in Nat /\ next \in 1..Len(prog) /\ prog[next] \in Element
  BY ProgType DEF IInv, TypeInv
<1>2. IsFiniteSet(Sites(Len(prog), c)) /\ opUses[c] = Cardinality(Sites(Len(prog), c)) - 1
  BY DEF IInv, UsesCounted, Scanned
<1>3. /\ IsFiniteSet(Sites(next, c))
      /\ Cardinality(Sites(next, c)) <= Cardinality(Sites(Len(prog), c))
      /\ Cardinality(Sites(next, c)) \in Nat
      /\ Cardinality(Sites(Len(prog), c)) \in Nat
  BY <1>1, <1>2, SitesMonotone
<1>4. next - 1 \in Nat /\ next - 1 < Len(prog) /\ (next - 1) + 1 = next /\ next - 1 <= next
  BY <1>1
<1>5. IsFiniteSet(Sites(next - 1, c)) /\ Cardinality(Sites(next - 1, c)) \in Nat
  BY <1>1, <1>3, <1>4, SitesMonotone
<1>6. Cardinality(Sites(next, c))
        = Cardinality(Sites(next - 1, c)) + Cardinality(UsesOf(prog[next], c))
  BY <1>1, <1>4, <1>5, SitesStep
<1>7. Cardinality(UsesOf(prog[next], c)) \in Nat
  BY <1>1, UsesFinite
<1>8. /\ opUses[c] = NoEntry <=> copyUses[c] = NoEntry
      /\ copyUses[c] <= Cardinality(Sites(next - 1, c))
      /\ copyUses[c] \in Nat \cup {NoEntry}
      /\ opUses[c] \in Nat \cup {NoEntry}
  BY DEF IInv, CopiesBounded, TypeInv
<1> QED
  BY <1>1, <1>2, <1>3, <1>5, <1>6, <1>7, <1>8

(* The named operands that read one channel are among its uses. *)
LEMMA NamedUses ==
  ASSUME NEW e \in Element, NEW c
  PROVE  /\ {p \in NamedPorts(e) : e.reads[p] = c} \subseteq UsesOf(e, c)
         /\ Cardinality({p \in NamedPorts(e) : e.reads[p] = c}) \in Nat
         /\ Cardinality({p \in NamedPorts(e) : e.reads[p] = c}) <= Cardinality(UsesOf(e, c))
<1>1. {p \in NamedPorts(e) : e.reads[p] = c} \subseteq UsesOf(e, c)
  BY DEF NamedPorts, UsesOf
<1> QED
  BY <1>1, UsesFinite, FS_Subset, FS_CardinalityType

(* An element of the second pass takes copy outputs for its named operands. *)
LEMMA TakenInv ==
  ASSUME IInv, pc = "emit", next <= Len(prog),
         UNCHANGED <<prog, pc, opUses, err>>,
         next' = next + 1, copyUses' = Taken(prog[next])
  PROVE  IInv'
<1> DEFINE e == prog[next]
           N(c) == Cardinality({p \in NamedPorts(e) : e.reads[p] = c})
<1>1. next \in 1..Len(prog) /\ Len(prog) \in Nat
  BY ProgType DEF IInv, TypeInv
<1>2. copyUses' = [c \in Chan |-> IF opUses[c] > 0 THEN copyUses[c] + N(c) ELSE copyUses[c]]
  BY DEF Taken
<1>3. ASSUME NEW c \in Chan
      PROVE  /\ copyUses'[c] \in Nat \cup {NoEntry}
             /\ opUses[c] = NoEntry <=> copyUses'[c] = NoEntry
             /\ copyUses'[c] <= Cardinality(Sites(next, c))
  <2>1. N(c) \in Nat /\ N(c) <= Cardinality(UsesOf(e, c))
    BY EmitCounts, NamedUses
  <2> HIDE DEF N
  <2>2. copyUses'[c] = IF opUses[c] > 0 THEN copyUses[c] + N(c) ELSE copyUses[c]
    BY <1>2
  <2>3. /\ copyUses[c] \in Nat \cup {NoEntry} /\ opUses[c] \in Nat \cup {NoEntry}
        /\ opUses[c] = NoEntry <=> copyUses[c] = NoEntry
        /\ copyUses[c] <= Cardinality(Sites(next - 1, c))
        /\ Cardinality(Sites(next, c)) = Cardinality(Sites(next - 1, c)) + Cardinality(UsesOf(e, c))
        /\ Cardinality(Sites(next - 1, c)) \in Nat /\ Cardinality(UsesOf(e, c)) \in Nat
    BY EmitCounts
  <2> HIDE DEF e
  <2>4. CASE opUses[c] > 0
    <3>1. PICK k, m, s, t, u : /\ k = N(c) /\ m = copyUses[c] /\ s = Cardinality(Sites(next - 1, c))
                               /\ t = Cardinality(Sites(next, c)) /\ u = Cardinality(UsesOf(e, c))
      OBVIOUS
    <3>2. copyUses'[c] = m + k /\ opUses[c] # NoEntry
      BY <2>2, <2>4, <3>1
    <3>3. m \in Nat /\ k \in Nat /\ s \in Nat /\ u \in Nat /\ m <= s /\ k <= u /\ t = s + u
      BY <2>1, <2>3, <3>1, <3>2
    <3>4. m + k \in Nat /\ m + k <= t /\ m + k # NoEntry
      BY <3>3
    <3> QED
      BY <3>1, <3>2, <3>4
  <2>5. CASE ~(opUses[c] > 0)
    BY <2>1, <2>2, <2>3, <2>5
  <2> QED
    BY <2>4, <2>5
<1>4. copyUses' \in [Chan -> Nat \cup {NoEntry}]
  <2> HIDE DEF N
  <2> QED
    BY <1>2, <1>3
<1>5. TypeInv'
  BY <1>1, <1>4 DEF IInv, TypeInv
<1>6. UsesCounted'
  <2>1. Scanned = Len(prog) /\ Scanned' = Len(prog)
    BY DEF Scanned
  <2>2. \A c : Sites(Scanned, c)' = Sites(Len(prog), c)
    BY <2>1 DEF Sites
  <2> QED
    BY <2>1, <2>2 DEF IInv, UsesCounted
<1>7. CopiesBounded'
  <2>1. \A c : Sites(next - 1, c)' = Sites(next, c)
    BY <1>1 DEF Sites
  <2> QED
    BY <1>3, <2>1 DEF CopiesBounded
<1>8. CountsSuffice'
  BY DEF IInv, CountsSuffice
<1> QED
  BY <1>5, <1>6, <1>7, <1>8 DEF IInv

(* No operand of the element at hand lacks a count or a copy output. *)
LEMMA OperandsCovered ==
  ASSUME IInv, pc = "emit", next <= Len(prog)
  PROVE  OperandError(prog[next]) = "none"
<1> DEFINE e == prog[next]
<1>1. next \in 1..Len(prog) /\ e \in Element
  BY ProgType DEF IInv, TypeInv
<1>2. ASSUME NEW p \in NamedPorts(e)
      PROVE  /\ opUses[e.reads[p]] # NoEntry
             /\ copyUses[e.reads[p]] # NoEntry
             /\ ~(CopyIndex(e, p) > opUses[e.reads[p]])
  <2> DEFINE c == e.reads[p]
             U == UsesOf(e, c)
             B == {q \in U : Rank(e, q) < Rank(e, p)}
  <2>1. p \in UsePorts(e) /\ c \in Chan /\ p \in U
    BY <1>1, UsesFinite DEF NamedPorts, UsesOf
  <2>2. IsFiniteSet(U) /\ Cardinality(U) \in Nat /\ p \in DOMAIN e.reads
    BY <1>1, <2>1, UsesFinite
  <2>3. Rank(e, p) \in Int
    <3>1. e.reads \in Seq(Chan)
      BY <1>1 DEF Element
    <3>2. p \in Int /\ Len(e.reads) \in Int
      BY <2>2, <3>1
    <3> QED
      BY <3>2 DEF Rank
  <2>4. B \subseteq U \ {p}
    BY <2>3
  <2>5. IsFiniteSet(U \ {p}) /\ Cardinality(U \ {p}) = Cardinality(U) - 1
    BY <2>1, <2>2, FS_RemoveElement
  <2>6. Cardinality(B) \in Nat /\ Cardinality(B) <= Cardinality(U) - 1
    BY <2>4, <2>5, FS_Subset, FS_CardinalityType
  <2>7. CopyIndex(e, p) = copyUses[c] + Cardinality(B)
    BY DEF CopyIndex
  <2> HIDE DEF B
  <2>8. /\ opUses[c] = NoEntry <=> copyUses[c] = NoEntry
        /\ copyUses[c] \in Nat \cup {NoEntry}
        /\ opUses[c] \in Nat \cup {NoEntry}
        /\ Cardinality(Sites(next - 1, c)) \in Nat
        /\ copyUses[c] <= Cardinality(Sites(next - 1, c))
        /\ Cardinality(Sites(next - 1, c)) + Cardinality(U) <= opUses[c] + 1
    <3>1. c \in Chan
      BY <2>1
    <3> HIDE DEF c
    <3> QED
      BY <3>1, EmitCounts
  <2>9. opUses[c] # NoEntry /\ copyUses[c] # NoEntry /\ ~(CopyIndex(e, p) > opUses[c])
    <3> HIDE DEF c, U
    <3> QED
      BY <2>2, <2>5, <2>6, <2>7, <2>8
  <2> QED
    BY <2>9
<1> QED
  BY <1>2, Zenon DEF OperandError

(* So an exit of the second pass is for another reason. *)
LEMMA ExitInv ==
  ASSUME IInv, ElementExit
  PROVE  IInv'
<1>1. /\ pc = "emit" /\ next <= Len(prog)
      /\ pc' = "failed" /\ err' = ElementError(prog[next])
      /\ UNCHANGED <<prog, next, opUses, copyUses>>
  BY DEF ElementExit, Exit, emitted
<1>2. ElementError(prog[next])
        \in {"none", "cluster element", "buffered constant", "init value"}
  BY <1>1, OperandsCovered DEF ElementError
<1>3. TypeInv'
  BY <1>1 DEF IInv, TypeInv
<1>4. CountsSuffice'
  BY <1>1, <1>2 DEF CountsSuffice
<1> QED
  BY <1>1, <1>3, <1>4 DEF IInv, UsesCounted, CopiesBounded

(* Every handler of the second pass takes the copy outputs of its operands. *)
Handler == \/ HandleFunc \/ HandleDFlowCluster \/ HandleSplit
           \/ HandleMerge \/ HandleMixer \/ HandleSink

LEMMA HandlerTakes ==
  ASSUME Handler
  PROVE  /\ pc = "emit" /\ next <= Len(prog)
         /\ UNCHANGED <<prog, pc, todo, opUses, err>>
         /\ next' = next + 1 /\ copyUses' = Taken(prog[next])
<1> USE DEF At, Write
<1>1. CASE HandleFunc
  BY <1>1 DEF HandleFunc, FunctionUnit
<1>2. CASE HandleDFlowCluster
  BY <1>2 DEF HandleDFlowCluster, FunctionUnit
<1>3. CASE HandleSplit
  BY <1>3 DEF HandleSplit
<1>4. CASE HandleMerge
  BY <1>4 DEF HandleMerge
<1>5. CASE HandleMixer
  BY <1>5 DEF HandleMixer
<1>6. CASE HandleSink
  BY <1>6 DEF HandleSink
<1> QED
  BY <1>1, <1>2, <1>3, <1>4, <1>5, <1>6 DEF Handler

(* Every step keeps the invariant. *)
LEMMA NextInv ==
  ASSUME IInv, [Next]_vars
  PROVE  IInv'
<1>0. Len(prog) \in Nat /\ next \in 1..(Len(prog) + 1)
  BY ProgType DEF IInv, TypeInv
<1>1. CASE CollectOpUses
  BY <1>1, CollectInv
<1>2. CASE CollectDone
  BY <1>0, <1>2, QuietInv DEF CollectDone, emitted
<1>3. ASSUME NEW c \in Chan, CreateCopyProc(c) PROVE IInv'
  BY <1>0, <1>3, QuietInv DEF CreateCopyProc
<1>4. CASE CopiesDone
  BY <1>0, <1>4, QuietInv DEF CopiesDone, emitted
<1>5. CASE Handler
  BY <1>5, HandlerTakes, TakenInv
<1>6. CASE ElementExit
  BY <1>6, ExitInv
<1>7. CASE EmitDone
  BY <1>0, <1>7, QuietInv DEF EmitDone, emitted
<1>8. ASSUME NEW c \in BoolChan, PrintBoolToIntConv(c) PROVE IInv'
  BY <1>0, <1>8, QuietInv DEF PrintBoolToIntConv
<1>9. CASE ConvertDone
  BY <1>0, <1>9, QuietInv DEF ConvertDone, emitted
<1>10. CASE UNCHANGED vars
  BY <1>0, <1>10, QuietInv DEF vars
<1> QED
  BY <1>1, <1>2, <1>3, <1>4, <1>5, <1>6, <1>7, <1>8, <1>9, <1>10
     DEF Next, Terminating, Handler

(* The counts of the two passes stay in step. *)
THEOREM InvTheorem == Spec => []IInv
<1>1. Init => IInv
  BY InitInv
<1>2. IInv /\ [Next]_vars => IInv'
  BY NextInv
<1> QED
  BY <1>1, <1>2, PTL DEF Spec

(* Whatever the program, the exits of getActIdOrCopyName, getOpUses and      *)
(* getCopyUses are never taken: CountsSuffice of ProcGenerator.              *)
THEOREM CountsSufficeTheorem == Spec => []CountsSuffice
<1>1. IInv => CountsSuffice
  BY DEF IInv
<1> QED
  BY <1>1, InvTheorem, PTL

-----------------------------------------------------------------------------
(* The type of the rest of the state: the text and its counters. *)

NamesChan(S) == \A n \in S : n.chan \in Chan \cup {Null}

TextType ==
  /\ todo \subseteq Chan
  /\ boolFlags \in [BoolChan -> SUBSET {"to", "from"}]
  /\ sinkCnt \in Nat /\ anonNames \in Nat
  /\ \A d \in decls : d.name.chan \in Chan \cup {Null} /\ d.at \in Nat

LEMMA TypeParts == TypeOK <=> TypeInv /\ TextType
BY DEF TypeOK, TypeInv, TextType

(* Flags stay sets of the two twins. *)
LEMMA FlaggedType ==
  ASSUME boolFlags \in [BoolChan -> SUBSET {"to", "from"}], NEW A, NEW B
  PROVE  Flagged(A, B) \in [BoolChan -> SUBSET {"to", "from"}]
BY DEF Flagged

(* An int twin is declared for channels of the process only. *)
LEMMA TwinNames ==
  ASSUME NEW C, NEW f
  PROVE  /\ NamesChan({ToInt(c) : c \in Undeclared(C, f)})
         /\ NamesChan({FromInt(c) : c \in Undeclared(C, f)})
BY BoolAssumption DEF NamesChan, ToInt, FromInt, Name, Undeclared

(* What Write declares is of the type, if the element's own names are. *)
LEMMA WriteType ==
  ASSUME TypeOK, NEW e, NEW W, NEW I, NEW N, Write(e, W, I, N), NamesChan(N),
         sinkCnt' \in Nat, anonNames' \in Nat
  PROVE  TextType'
<1>1. next \in Nat
  BY ProgType DEF TypeOK
<1>2. todo' \subseteq Chan
  BY DEF Write, TypeOK
<1>3. boolFlags' \in [BoolChan -> SUBSET {"to", "from"}]
  BY FlaggedType DEF Write, TypeOK
<1>4. ASSUME NEW d \in decls'
      PROVE  d.name.chan \in Chan \cup {Null} /\ d.at \in Nat
  <2>1. CASE d \in decls
    BY <2>1 DEF TypeOK
  <2>2. ASSUME NEW S, NamesChan(S), NEW n \in S, d = Decl(n, next)
        PROVE  d.name.chan \in Chan \cup {Null} /\ d.at \in Nat
    BY <1>1, <2>2 DEF NamesChan, Decl
  <2>3. \/ d \in decls
        \/ \E n \in N : d = Decl(n, next)
        \/ \E n \in {ToInt(c) : c \in Undeclared(OperandChans(e), "to")} : d = Decl(n, next)
        \/ \E n \in {FromInt(c) : c \in Undeclared(W, "from")} : d = Decl(n, next)
    BY DEF Write
  <2> QED
    BY <2>1, <2>2, <2>3, TwinNames
<1> QED
  BY <1>2, <1>3, <1>4 DEF TextType

(* The names an element declares belong to its outputs or to no channel. *)
LEMMA OutsType ==
  ASSUME NEW e \in Element
  PROVE  /\ IsFiniteSet(DOMAIN e.outs)
         /\ \A o \in DOMAIN e.outs : e.outs[o].chan \in Chan \cup {Null}
<1>1. e.outs \in Seq(Output)
  BY DEF Element
<1>2. DOMAIN e.outs = 1..Len(e.outs) /\ Len(e.outs) \in Nat
  BY <1>1
<1>3. IsFiniteSet(DOMAIN e.outs)
  <2>1. IsFiniteSet(1..Len(e.outs))
    <3>1. \A n \in Nat : IsFiniteSet(1..n)
      BY FS_Interval
    <3> QED
      BY <1>2, <3>1
  <2> QED
    BY <1>2, <2>1
<1>4. ASSUME NEW o \in DOMAIN e.outs PROVE e.outs[o].chan \in Chan \cup {Null}
  <2>1. e.outs[o] \in Output
    BY <1>1, <1>2
  <2> QED
    BY <2>1 DEF Output
<1> QED
  BY <1>3, <1>4

(* Every step keeps the type of the text. *)
LEMMA NextText ==
  ASSUME TypeOK, IInv, [Next]_vars
  PROVE  TextType'
<1> DEFINE e == prog[next]
<1>1. ASSUME UNCHANGED emitted, todo' \subseteq Chan PROVE TextType'
  BY <1>1 DEF TypeOK, TextType, emitted
<1>2. ASSUME pc = "emit", next <= Len(prog) PROVE e \in Element
  BY <1>2, ProgType DEF TypeOK
<1>3. CASE CollectOpUses \/ CollectDone \/ CopiesDone \/ ElementExit \/ EmitDone
           \/ ConvertDone \/ UNCHANGED vars
  <2>1. UNCHANGED emitted
    BY <1>3 DEF CollectOpUses, CollectDone, CopiesDone, ElementExit, EmitDone, ConvertDone,
                vars, emitted
  <2>2. todo' \subseteq Chan
    BY <1>3, BoolAssumption
       DEF CollectOpUses, CollectDone, CopiesDone, ElementExit, EmitDone, ConvertDone,
           vars, TypeOK
  <2> QED
    BY <1>1, <2>1, <2>2
<1>4. ASSUME NEW c \in Chan, CreateCopyProc(c) PROVE TextType'
  <2>1. boolFlags' \in [BoolChan -> SUBSET {"to", "from"}]
    BY <1>4, FlaggedType DEF CreateCopyProc, TypeOK
  <2>2. \A d \in decls' : d.name.chan \in Chan \cup {Null} /\ d.at \in Nat
    BY <1>4, BoolAssumption DEF CreateCopyProc, TypeOK, Decl, ToInt, Name, Undeclared
  <2> QED
    BY <1>4, <2>1, <2>2 DEF CreateCopyProc, TypeOK, TextType
<1>5. CASE HandleFunc \/ HandleDFlowCluster
  <2>1. e \in Element /\ FunctionUnit(e) /\ UNCHANGED <<sinkCnt, anonNames>>
    BY <1>2, <1>5 DEF HandleFunc, HandleDFlowCluster, FunctionUnit, At
  <2>2. NamesChan(UNION {BuffNames(e.outs[o]) : o \in BuffOuts(e)})
    BY <2>1, OutsType DEF NamesChan, BuffNames, BuffOuts, Calcs, Stage, BufIn, BufName, Name
  <2> QED
    BY <2>1, <2>2, WriteType DEF FunctionUnit, TypeOK
<1>6. CASE HandleSplit
  <2>1. e \in Element
    BY <1>2, <1>6 DEF HandleSplit, At
  <2>2. IsFiniteSet(Nulls(e))
    BY <2>1, OutsType, FS_Subset DEF Nulls
  <2>3. sinkCnt' \in Nat /\ anonNames' \in Nat
    BY <1>6, <2>2, FS_CardinalityType DEF HandleSplit, TypeOK
  <2>4. NamesChan({SinkAt(e, o) : o \in Nulls(e)})
    <3>1. \A k : SinkName(k).chan = Null
      BY DEF SinkName, Name
    <3> QED
      BY <3>1, Zenon DEF NamesChan, SinkAt
  <2> QED
    BY <1>6, <2>3, <2>4, WriteType DEF HandleSplit
<1>7. CASE HandleMerge
  BY <1>7, WriteType DEF HandleMerge, NamesChan, TypeOK
<1>8. CASE HandleMixer
  <2>1. IsFiniteSet(Anon(e))
    BY FS_EmptySet, FS_Singleton DEF Anon
  <2>2. sinkCnt' \in Nat /\ anonNames' \in Nat
    BY <1>8, <2>1, FS_CardinalityType DEF HandleMixer, TypeOK
  <2>3. NamesChan(Anon(e))
    BY DEF NamesChan, Anon, AnonName, Name
  <2> QED
    BY <1>8, <2>2, <2>3, WriteType DEF HandleMixer
<1>9. CASE HandleSink
  BY <1>9, WriteType DEF HandleSink, NamesChan, TypeOK
<1>10. ASSUME NEW c \in BoolChan, PrintBoolToIntConv(c) PROVE TextType'
  BY <1>10 DEF PrintBoolToIntConv, TypeOK, TextType
<1> QED
  BY <1>3, <1>4, <1>5, <1>6, <1>7, <1>8, <1>9, <1>10 DEF Next, Terminating

(* The state of a translation keeps its type: TypeOK of ProcGenerator. *)
THEOREM TypeOKTheorem == Spec => []TypeOK
<1>1. Init => TypeOK /\ IInv
  <2>1. ASSUME Init PROVE TextType
    BY <2>1 DEF Init, TextType
  <2> QED
    BY <2>1, InitInv, TypeParts DEF IInv
<1>2. TypeOK /\ IInv /\ [Next]_vars => (TypeOK /\ IInv)'
  <2>1. ASSUME TypeOK, IInv, [Next]_vars PROVE (TypeOK /\ IInv)'
    <3>1. IInv'
      BY <2>1, NextInv
    <3>2. TextType'
      BY <2>1, NextText
    <3>3. TypeOK'
      BY <3>1, <3>2 DEF TypeOK, TypeInv, TextType, IInv
    <3> QED
      BY <3>1, <3>3
  <2> QED
    BY <2>1
<1> QED
  BY <1>1, <1>2, PTL DEF Spec

-----------------------------------------------------------------------------
(* The copies in the text. *)

Copies == {x \in insts : x.kind = "copy"}

(* The channels with several uses whose copy has been written. *)
Copied == {c \in Chan : opUses[c] > 0 /\ (pc = "copies" => c \notin todo)}

CopyText ==
  /\ pc = "collect" => insts = {}
  /\ pc = "copies" => todo \subseteq {c \in Chan : opUses[c] > 0}
  /\ pc \in {"copies", "emit", "convert", "done"} => Copies = {CopyInst(c) : c \in Copied}

(* No handler and no converter writes a copy. *)
LEMMA HandlersWriteNoCopy ==
  ASSUME Handler
  PROVE  Copies' = Copies
<1> DEFINE e == prog[next]
<1>1. \A k, a, i, o : Inst(k, a, i, o).kind = k
  BY DEF Inst
<1>2. ASSUME NEW I, insts' = insts \cup I, \A x \in I : x.kind # "copy"
      PROVE  Copies' = Copies
  BY <1>2 DEF Copies
<1>3. \A out : \A x \in BuffChain(next, out) : x.kind # "copy"
  BY <1>1 DEF BuffChain
<1>4. CASE HandleFunc \/ HandleDFlowCluster
  <2> DEFINE I == {Inst("source", next, None, One(OutName(e.outs[o].chan))) :
                     o \in DOMAIN e.outs \ Calcs(e)}
                  \cup (IF Calcs(e) = {} THEN {} ELSE {FUInst(e)})
                  \cup UNION {BuffChain(next, e.outs[o]) : o \in BuffOuts(e)}
  <2>1. insts' = insts \cup I
    BY <1>4 DEF HandleFunc, HandleDFlowCluster, FunctionUnit, Write
  <2>2. FUInst(e).kind = "fu"
    BY <1>1 DEF FUInst
  <2>3. \A x \in I : x.kind # "copy"
    BY <1>1, <1>3, <2>2
  <2> QED
    BY <1>2, <2>1, <2>3
<1>5. CASE HandleSplit
  <2> DEFINE I == {Inst("sink", next, One(SinkAt(e, o)), None) : o \in Nulls(e)}
                  \cup {SplitInst(e)}
  <2>1. insts' = insts \cup I
    BY <1>5 DEF HandleSplit, Write
  <2>2. \A x \in I : x.kind # "copy"
    BY <1>1 DEF SplitInst
  <2> QED
    BY <1>2, <2>1, <2>2
<1>6. CASE HandleMerge
  <2> DEFINE I == {MergeInst(e)}
  <2>1. insts' = insts \cup I
    BY <1>6 DEF HandleMerge, Write
  <2>2. MergeInst(e).kind = "merge"
    BY <1>1 DEF MergeInst
  <2>3. \A x \in I : x.kind # "copy"
    BY <2>2
  <2> HIDE DEF I
  <2> QED
    BY <1>2, <2>1, <2>3
<1>7. CASE HandleMixer
  <2> DEFINE I == {Inst("sink", next, One(n), None) : n \in Anon(e)} \cup {MixerInst(e)}
  <2>1. insts' = insts \cup I /\ e.t \in {"mixer", "arbiter"}
    BY <1>7 DEF HandleMixer, Write, At
  <2>2. \A x \in I : x.kind # "copy"
    BY <1>1, <2>1 DEF MixerInst
  <2> QED
    BY <1>2, <2>1, <2>2
<1>8. CASE HandleSink
  <2> DEFINE I == {Inst("sink", next, One(Raw(e.reads[1])), None)}
  <2>1. insts' = insts \cup I
    BY <1>8 DEF HandleSink, Write
  <2>2. \A x \in I : x.kind # "copy"
    BY <1>1
  <2> HIDE DEF I
  <2> QED
    BY <1>2, <2>1, <2>2
<1> QED
  BY <1>4, <1>5, <1>6, <1>7, <1>8 DEF Handler

(* Every step keeps the copies those of the channels visited. *)
LEMMA CopyTextStep ==
  ASSUME IInv, CopyText, [Next]_vars
  PROVE  CopyText'
<1>1. CASE CollectOpUses
  BY <1>1 DEF CollectOpUses, Exit, emitted, CopyText
<1>2. CASE CollectDone
  <2>1. /\ insts' = {} /\ pc' = "copies" /\ opUses' = opUses
        /\ todo' = {c \in Chan : opUses[c] > 0}
    BY <1>2 DEF CollectDone, emitted, CopyText
  <2>2. Copies' = {} /\ Copied' = {}
    BY <2>1 DEF Copies, Copied
  <2> QED
    BY <2>1, <2>2 DEF CopyText
<1>3. ASSUME NEW c \in Chan, CreateCopyProc(c) PROVE CopyText'
  <2>1. /\ pc = "copies" /\ c \in todo /\ todo' = todo \ {c}
        /\ insts' = insts \cup {CopyInst(c)} /\ UNCHANGED <<pc, opUses>>
    BY <1>3 DEF CreateCopyProc
  <2>2. opUses[c] > 0 /\ todo' \subseteq {d \in Chan : opUses[d] > 0}
    BY <2>1 DEF CopyText
  <2>3. CopyInst(c).kind = "copy"
    BY DEF CopyInst, Inst
  <2>4. Copies' = Copies \cup {CopyInst(c)}
    BY <2>1, <2>3 DEF Copies
  <2>5. Copied' = Copied \cup {c}
    BY <2>1, <2>2 DEF Copied
  <2>6. \A d : CopyInst(d)' = CopyInst(d)
    BY <2>1 DEF CopyInst, NumOut
  <2>7. Copies = {CopyInst(d) : d \in Copied}
    BY <2>1 DEF CopyText
  <2>8. {CopyInst(d) : d \in Copied}' = {CopyInst(d) : d \in Copied'}
    BY <2>6
  <2>9. Copies' = {CopyInst(d) : d \in Copied}'
    BY <2>4, <2>5, <2>7, <2>8
  <2> QED
    BY <2>1, <2>2, <2>9 DEF CopyText
<1>s. ASSUME pc # "collect", pc # "failed", pc' # "collect", pc' # "copies",
             pc = "copies" => todo = {}, Copies' = Copies, opUses' = opUses
      PROVE  CopyText'
  <2>1. pc \in {"copies", "emit", "convert", "done"}
    BY <1>s DEF IInv, TypeInv
  <2>2. Copied' = Copied
    BY <1>s DEF Copied
  <2>3. \A d : CopyInst(d)' = CopyInst(d)
    BY <1>s DEF CopyInst, NumOut
  <2>4. Copies = {CopyInst(d) : d \in Copied}
    BY <2>1 DEF CopyText
  <2>5. Copies' = {CopyInst(d) : d \in Copied}'
    BY <1>s, <2>2, <2>3, <2>4
  <2> QED
    BY <1>s, <2>5 DEF CopyText
<1>4. CASE CopiesDone
  BY <1>4, <1>s DEF CopiesDone, emitted, Copies
<1>5. CASE Handler
  BY <1>5, <1>s, HandlerTakes, HandlersWriteNoCopy
<1>6. CASE ElementExit
  BY <1>6 DEF ElementExit, Exit, CopyText
<1>7. CASE EmitDone \/ ConvertDone
  BY <1>7, <1>s DEF EmitDone, ConvertDone, emitted, Copies
<1>8. ASSUME NEW c \in BoolChan, PrintBoolToIntConv(c) PROVE CopyText'
  <2>1. \A k, a, i, o : Inst(k, a, i, o).kind = k
    BY DEF Inst
  <2>2. Copies' = Copies
    BY <1>8, <2>1 DEF PrintBoolToIntConv, Copies
  <2> QED
    BY <1>8, <1>s, <2>2 DEF PrintBoolToIntConv
<1>9. CASE UNCHANGED vars
  <2>1. \A d : CopyInst(d)' = CopyInst(d)
    BY <1>9 DEF vars, CopyInst, NumOut
  <2> QED
    BY <1>9, <2>1 DEF vars, CopyText, Copies, Copied
<1> QED
  BY <1>1, <1>2, <1>3, <1>4, <1>5, <1>6, <1>7, <1>8, <1>9 DEF Next, Terminating, Handler

(* createCopyProcs makes one copy for each channel with more than one use,   *)
(* with as many outputs as there are uses, and no other step writes a copy:  *)
(* CopiesMatchUses of ProcGenerator.                                         *)
THEOREM CopiesMatchUsesTheorem == Spec => []CopiesMatchUses
<1>1. Init => CopyText
  BY DEF Init, CopyText
<1>2. IInv /\ CopyText => CopiesMatchUses
  <2> SUFFICES ASSUME IInv, CopyText, pc \in {"emit", "convert", "done"}, NEW c \in Chan
               PROVE  {<<x.ins[1], DOMAIN x.outs>> : x \in {y \in Copies : y.outs[1].chan = c}}
                        = IF UseCount(c) > 1 THEN {<<ReadBase(c), 1..UseCount(c)>>} ELSE {}
    BY DEF CopiesMatchUses, Copies
  <2>1. Copies = {CopyInst(d) : d \in {b \in Chan : opUses[b] > 0}}
    BY DEF CopyText, Copied
  <2>2. /\ opUses[c] = UseCount(c) - 1 /\ IsFiniteSet(Sites(Len(prog), c))
        /\ UseCount(c) \in Nat
    BY FS_CardinalityType DEF IInv, UsesCounted, Scanned, UseCount
  <2>3. ASSUME NEW d \in Chan, opUses[d] > 0
        PROVE  /\ CopyInst(d).ins[1] = ReadBase(d)
               /\ DOMAIN CopyInst(d).outs = 1..(opUses[d] + 1)
               /\ CopyInst(d).outs[1].chan = d
    <3>1. 1 \in 1..(opUses[d] + 1)
      BY <2>3 DEF IInv, TypeInv
    <3> QED
      BY <3>1 DEF CopyInst, NumOut, Inst, One, CopyOut, Name
  <2>4. {y \in Copies : y.outs[1].chan = c} = IF opUses[c] > 0 THEN {CopyInst(c)} ELSE {}
    BY <2>1, <2>3
  <2>5. CASE opUses[c] > 0
    <3>1. UseCount(c) > 1 /\ opUses[c] + 1 = UseCount(c)
      BY <2>2, <2>5
    <3>2. <<CopyInst(c).ins[1], DOMAIN CopyInst(c).outs>> = <<ReadBase(c), 1..UseCount(c)>>
      BY <2>3, <2>5, <3>1
    <3>3. {y \in Copies : y.outs[1].chan = c} = {CopyInst(c)}
      BY <2>4, <2>5
    <3> QED
      BY <3>1, <3>2, <3>3
  <2>6. CASE ~(opUses[c] > 0)
    <3>1. ~(UseCount(c) > 1)
      BY <2>2, <2>6
    <3> QED
      BY <2>4, <2>6, <3>1
  <2> QED
    BY <2>5, <2>6
<1>3. IInv /\ CopyText /\ [Next]_vars => CopyText'
  BY CopyTextStep
<1> QED
  BY <1>1, <1>2, <1>3, InvTheorem, PTL DEF Spec

-----------------------------------------------------------------------------
(* Names and instances as values. *)

LEMMA NameFields ==
  \A k, c, i : /\ Name(k, c, i).kind = k
               /\ Name(k, c, i).chan = c
               /\ Name(k, c, i).idx = i
BY DEF Name

LEMMA InstFields ==
  \A k, a, i, o : /\ Inst(k, a, i, o).kind = k
                  /\ Inst(k, a, i, o).at = a
                  /\ Inst(k, a, i, o).ins = i
                  /\ Inst(k, a, i, o).outs = o
BY DEF Inst

LEMMA OnePort ==
  /\ \A n : DOMAIN One(n) = {1} /\ One(n)[1] = n
  /\ DOMAIN None = {}
BY DEF One, None

-----------------------------------------------------------------------------
(* Facts about programs. *)

FC == {"func", "cluster"}

LEMMA ElementFacts ==
  ASSUME prog \in Programs, NEW i \in 1..Len(prog)
  PROVE  /\ prog[i] \in Element
         /\ prog[i].t \in Kinds
         /\ DOMAIN prog[i].reads = 1..Len(prog[i].reads) /\ Len(prog[i].reads) \in Nat
         /\ DOMAIN prog[i].outs = 1..Len(prog[i].outs) /\ Len(prog[i].outs) \in Nat
         /\ \A p \in DOMAIN prog[i].reads : prog[i].reads[p] \in Chan
         /\ \A o \in DOMAIN prog[i].outs : prog[i].outs[o] \in Output
<1>1. prog[i] \in Element
  BY ProgType
<1>2. /\ prog[i].t \in Kinds /\ prog[i].reads \in Seq(Chan) /\ prog[i].outs \in Seq(Output)
  BY <1>1 DEF Element
<1>3. /\ DOMAIN prog[i].reads = 1..Len(prog[i].reads) /\ Len(prog[i].reads) \in Nat
      /\ \A p \in DOMAIN prog[i].reads : prog[i].reads[p] \in Chan
  BY <1>2
<1>4. /\ DOMAIN prog[i].outs = 1..Len(prog[i].outs) /\ Len(prog[i].outs) \in Nat
      /\ \A o \in DOMAIN prog[i].outs : prog[i].outs[o] \in Output
  BY <1>2
<1> QED
  BY <1>1, <1>2, <1>3, <1>4

(* Null outputs occur only at splits and as the control of mixers. *)
LEMMA NullOutputs ==
  ASSUME prog \in Programs, NEW i \in 1..Len(prog), NEW o \in DOMAIN prog[i].outs
  PROVE  /\ prog[i].outs[o].chan \in Chan \cup {Null}
         /\ prog[i].outs[o].chan = Null =>
              \/ prog[i].t = "split"
              \/ prog[i].t \in {"mixer", "arbiter"} /\ o = 2
<1>1. prog[i].outs[o].chan \in Chan \cup {Null}
  BY ElementFacts DEF Output
<1>2. DOMAIN prog = 1..Len(prog) /\ WellFormed(prog)
  BY ProgType, ProgramsAssumption
<1>3. <<i, o>> \in OutSites(prog)
  BY <1>2 DEF OutSites
<1>4. ChanAt(prog, <<i, o>>) = prog[i].outs[o].chan
  BY DEF ChanAt
<1>5. \A s \in OutSites(prog) :
         ChanAt(prog, s) = Null => \/ prog[s[1]].t = "split"
                                   \/ prog[s[1]].t \in {"mixer", "arbiter"} /\ s[2] = 2
  BY <1>2, Zenon DEF WellFormed
<1>6. ChanAt(prog, <<i, o>>) = Null =>
         \/ prog[<<i, o>>[1]].t = "split"
         \/ prog[<<i, o>>[1]].t \in {"mixer", "arbiter"} /\ <<i, o>>[2] = 2
  BY <1>3, <1>5, Zenon
<1> QED
  BY <1>1, <1>4, <1>6

(* No channel is driven twice. *)
LEMMA DrivenOnce ==
  ASSUME prog \in Programs, NEW i \in 1..Len(prog), NEW j \in 1..Len(prog),
         NEW o \in DOMAIN prog[i].outs, NEW q \in DOMAIN prog[j].outs,
         prog[i].outs[o].chan = prog[j].outs[q].chan, prog[i].outs[o].chan # Null
  PROVE  i = j /\ o = q
<1>1. DOMAIN prog = 1..Len(prog) /\ WellFormed(prog)
  BY ProgType, ProgramsAssumption
<1>2. <<i, o>> \in OutSites(prog) /\ <<j, q>> \in OutSites(prog)
  BY <1>1 DEF OutSites
<1>3. \A s, u \in OutSites(prog) :
         s # u /\ ChanAt(prog, s) # Null => ChanAt(prog, s) # ChanAt(prog, u)
  BY <1>1, Zenon DEF WellFormed
<1>4. ChanAt(prog, <<i, o>>) = prog[i].outs[o].chan /\ ChanAt(prog, <<j, q>>) = prog[j].outs[q].chan
  BY DEF ChanAt
<1>5. <<i, o>> = <<j, q>>
  BY <1>2, <1>3, <1>4, Zenon
<1> QED
  BY <1>5

(* How many operands and outputs the selection units have. *)
LEMMA Arities ==
  ASSUME prog \in Programs, NEW i \in 1..Len(prog)
  PROVE  /\ prog[i].t = "split" => Len(prog[i].reads) = 2
         /\ prog[i].t = "sink" => DOMAIN prog[i].reads = {1}
         /\ prog[i].t \in {"merge", "sink"} => prog[i].reads # << >>
         /\ prog[i].t = "merge" => DOMAIN prog[i].outs = {1}
         /\ prog[i].t \in {"mixer", "arbiter"} => DOMAIN prog[i].outs = {1, 2}
         /\ prog[i].t \in FC /\ prog[i].reads # << >> => Calcs(prog[i]) # {}
<1>1. DOMAIN prog = 1..Len(prog) /\ WellFormed(prog)
  BY ProgType, ProgramsAssumption
<1>2. /\ prog[i].t = "split" => Len(prog[i].reads) = 2
      /\ prog[i].t = "sink" => Len(prog[i].reads) = 1
      /\ prog[i].t = "merge" => prog[i].reads # << >>
      /\ prog[i].t = "merge" => Len(prog[i].outs) = 1
      /\ prog[i].t \in {"mixer", "arbiter"} => Len(prog[i].outs) = 2
  BY <1>1 DEF WellFormed
<1>3. ASSUME prog[i].t \in FC, prog[i].reads # << >> PROVE Calcs(prog[i]) # {}
  <2>1. PICK o \in DOMAIN prog[i].outs : prog[i].outs[o].expr = "calc"
    BY <1>1, <1>3 DEF WellFormed, FC
  <2> QED
    BY <2>1 DEF Calcs
<1>4. prog[i].t = "sink" => DOMAIN prog[i].reads = {1} /\ prog[i].reads # << >>
  <2>1. PICK r : r = prog[i].reads
    OBVIOUS
  <2>2. r \in Seq(Chan) /\ DOMAIN r = 1..Len(r)
    BY <2>1, ElementFacts DEF Element
  <2>3. Len(r) = 1 => DOMAIN r = {1} /\ r # << >>
    BY <2>2
  <2> QED
    BY <1>2, <2>1, <2>3
<1>5. /\ prog[i].t = "merge" => DOMAIN prog[i].outs = {1}
      /\ prog[i].t \in {"mixer", "arbiter"} => DOMAIN prog[i].outs = {1, 2}
  BY <1>2, ElementFacts
<1> QED
  BY <1>2, <1>3, <1>4, <1>5

-----------------------------------------------------------------------------
(* The shape of the instances. Everything but the number of the next copy   *)
(* output, of the next sink channel and of the next anonymous channel is    *)
(* determined by the program.                                               *)

OperandOf(n, c) ==
  IF opUses[c] = 0 THEN n = ReadBase(c)
                   ELSE \E k \in 0..opUses[c] : n = CopyOut(c, k)

(* The instance that stands for an element: its kind, the outputs it has    *)
(* and the channel on each of them.                                         *)
UnitKind(e) == IF e.t \in FC THEN "fu" ELSE e.t
UnitOuts(e) == IF e.t \in FC THEN Calcs(e) ELSE DOMAIN e.outs
Spare(e) == IF e.t = "split" THEN "sink" ELSE "anon"
OutLink(e, o) ==
  IF e.t \in FC /\ o \in BuffOuts(e) THEN BufIn(e.outs[o].chan)
  ELSE IF e.t \in {"mixer", "arbiter"} /\ o = 2 THEN Raw(e.outs[o].chan)
  ELSE OutName(e.outs[o].chan)

UnitShape(x, e) ==
  /\ x.kind = UnitKind(e) /\ e.t # "sink"
  /\ DOMAIN x.ins = UsePorts(e)
  /\ \A p \in UsePorts(e) : OperandOf(x.ins[p], e.reads[p])
  /\ DOMAIN x.outs = UnitOuts(e)
  /\ \A o \in UnitOuts(e) :
       IF e.outs[o].chan = Null THEN \E k \in Nat : x.outs[o] = Name(Spare(e), Null, k)
                                ELSE x.outs[o] = OutLink(e, o)

SourceShape(x, e) ==
  e.t \in FC /\ \E o \in DOMAIN e.outs \ Calcs(e) :
                  x = Inst("source", x.at, None, One(OutName(e.outs[o].chan)))

BuffShape(x, e) ==
  e.t \in FC /\ \E o \in BuffOuts(e) : x \in BuffChain(x.at, e.outs[o])

SinkShape(x, e) ==
  \/ e.t = "sink" /\ x = Inst("sink", x.at, One(Raw(e.reads[1])), None)
  \/ /\ e.t \in {"split", "mixer", "arbiter"}
     /\ \E k \in Nat : x = Inst("sink", x.at, One(Name(Spare(e), Null, k)), None)

ElementShape(x) ==
  /\ x.at \in 1..(next - 1)
  /\ \/ UnitShape(x, prog[x.at]) \/ SourceShape(x, prog[x.at])
     \/ BuffShape(x, prog[x.at]) \/ SinkShape(x, prog[x.at])

CopyShape(x) == \E c \in Chan : opUses[c] > 0 /\ x = CopyInst(c)

ConvShape(x) ==
  \E c \in BoolChan : \/ x = Inst("bool_to_int", 0, One(Raw(c)), One(ToInt(c)))
                      \/ x = Inst("int_to_bool", 0, One(FromInt(c)), One(Raw(c)))

Shapes == \A x \in insts : CopyShape(x) \/ ConvShape(x) \/ ElementShape(x)

(* While there is text, opUses counts the uses of the whole program. *)
TextCounts ==
  insts # {} =>
    /\ pc # "collect"
    /\ \A c \in Chan : /\ IsFiniteSet(Sites(Len(prog), c))
                       /\ opUses[c] = Cardinality(Sites(Len(prog), c)) - 1

(* One element has one unit. *)
OneUnit ==
  \A x, y \in insts :
    x.at # 0 /\ x.at = y.at /\ x.kind = UnitKind(prog[x.at]) /\ y.kind = UnitKind(prog[x.at])
      /\ prog[x.at].t # "sink" => x = y

(* Channels that get a number: the outputs of the copies where they are     *)
(* read, and both ends of the channels of sinks. Each number given out is   *)
(* below the counter, and none is given out twice.                          *)
Issued(n) ==
  /\ n.idx \in Nat
  /\ \/ n.kind = "copyout" /\ n.chan \in Chan /\ n.idx < copyUses[n.chan]
     \/ n.kind = "sink" /\ n.idx < sinkCnt
     \/ n.kind = "anon" /\ n.idx < anonNames

NumberedIn(n) == n.kind \in {"copyout", "sink", "anon"}
NumberedOut(n) == n.kind \in {"sink", "anon"}

NumbersIssued ==
  \A x \in insts :
    /\ \A p \in DOMAIN x.ins : NumberedIn(x.ins[p]) => Issued(x.ins[p])
    /\ \A p \in DOMAIN x.outs : NumberedOut(x.outs[p]) => Issued(x.outs[p])

NumbersOnceIn ==
  \A x, y \in insts : \A p \in DOMAIN x.ins, q \in DOMAIN y.ins :
    x.ins[p] = y.ins[q] /\ NumberedIn(x.ins[p]) => x = y /\ p = q

NumbersOnceOut ==
  \A x, y \in insts : \A p \in DOMAIN x.outs, q \in DOMAIN y.outs :
    x.outs[p] = y.outs[q] /\ NumberedOut(x.outs[p]) => x = y /\ p = q

(* Before the second pass the text has copies only. *)
CopiesFirst == pc \in {"collect", "copies"} => \A x \in insts : CopyShape(x)

TextInv ==
  Shapes /\ CopiesFirst /\ TextCounts /\ OneUnit /\ NumbersIssued /\ NumbersOnceIn /\ NumbersOnceOut

(* An instance that is not an element's is at no element. *)
LEMMA ShapeAt ==
  ASSUME NEW x, CopyShape(x) \/ ConvShape(x)
  PROVE  x.at = 0
<1>1. CASE CopyShape(x)
  <2>1. PICK c \in Chan : x = CopyInst(c)
    BY <1>1 DEF CopyShape
  <2>2. \A i, o : Inst("copy", 0, i, o).at = 0
    BY InstFields, Zenon
  <2>3. \E i, o : x = Inst("copy", 0, i, o)
    BY <2>1, Zenon DEF CopyInst
  <2> QED
    BY <2>2, <2>3, Zenon
<1>2. CASE ConvShape(x)
  <2>1. PICK i, o : x = Inst("bool_to_int", 0, i, o) \/ x = Inst("int_to_bool", 0, i, o)
    BY <1>2, Zenon DEF ConvShape
  <2> QED
    BY <2>1, InstFields
<1> QED
  BY <1>1, <1>2

(* What holds of the instances so far holds of them later. *)
LEMMA ElementShapesStay ==
  ASSUME UNCHANGED <<prog, opUses>>, NEW x, NEW i
  PROVE  /\ UnitShape(x, prog[i]) => UnitShape(x, prog[i])'
         /\ SourceShape(x, prog[i]) => SourceShape(x, prog[i])'
         /\ BuffShape(x, prog[i]) => BuffShape(x, prog[i])'
         /\ SinkShape(x, prog[i]) => SinkShape(x, prog[i])'
<1>1. prog[i]' = prog[i]
  OBVIOUS
<1>2. \A n, c : OperandOf(n, c)' <=> OperandOf(n, c)
  BY DEF OperandOf
<1> QED
  BY <1>1, <1>2 DEF UnitShape, SourceShape, BuffShape, SinkShape

LEMMA ShapesStay ==
  ASSUME UNCHANGED <<prog, opUses>>, NEW x
  PROVE  /\ CopyShape(x) => CopyShape(x)'
         /\ ConvShape(x) => ConvShape(x)'
         /\ next \in Nat /\ next' \in Nat /\ next <= next' /\ ElementShape(x) => ElementShape(x)'
<1>1. CopyShape(x) => CopyShape(x)'
  BY DEF CopyShape, CopyInst, NumOut
<1>2. ConvShape(x) => ConvShape(x)'
  BY DEF ConvShape
<1>4. ASSUME next \in Nat, next' \in Nat, next <= next', ElementShape(x) PROVE ElementShape(x)'
  <2>1. x.at \in 1..(next - 1) /\ x.at \in 1..(next' - 1)
    BY <1>4 DEF ElementShape
  <2> QED
    BY <1>4, <2>1, ElementShapesStay DEF ElementShape
<1> QED
  BY <1>1, <1>2, <1>4

(* A step that writes no instance. *)
LEMMA QuietText ==
  ASSUME TextInv, TypeInv, next' \in Nat,
         UNCHANGED <<prog, insts, opUses, copyUses, sinkCnt, anonNames>>,
         next' = next \/ pc = "copies", pc # "collect", pc' # "collect",
         pc' = "copies" => pc = "copies"
  PROVE  TextInv'
<1>1. next \in Nat
  BY ProgType DEF TypeInv
<1>2. Shapes'
  BY <1>1, ShapesStay DEF TextInv, Shapes, CopiesFirst
<1>3. CopiesFirst'
  BY ShapesStay DEF TextInv, CopiesFirst
<1>4. TextCounts'
  BY DEF TextInv, TextCounts, Sites
<1>5. OneUnit' /\ NumbersIssued' /\ NumbersOnceIn' /\ NumbersOnceOut'
  BY DEF TextInv, OneUnit, NumbersIssued, NumbersOnceIn, NumbersOnceOut, Issued
<1> QED
  BY <1>2, <1>3, <1>4, <1>5 DEF TextInv

(* A step that adds instances of the right shape, at most one of them a     *)
(* unit, that of the element at hand, with numbers not given out before.    *)
LEMMA AddText ==
  ASSUME TextInv, IInv, NEW I, insts' = insts \cup I,
         UNCHANGED <<prog, opUses, pc>>, pc \notin {"collect", "failed"},
         next' \in Nat, next <= next',
         \A x \in I : (CopyShape(x) \/ ConvShape(x) \/ ElementShape(x))',
         pc = "copies" => \A x \in I : CopyShape(x),
         \A x \in I : x.at # 0 => x.at = next,
         \A x, y \in I : x.kind = UnitKind(prog[next]) /\ y.kind = UnitKind(prog[next])
                            /\ x.at = next /\ y.at = next /\ prog[next].t # "sink" => x = y,
         \A n : Issued(n) => Issued(n)',
         \A x \in I : \A p \in DOMAIN x.ins :
           NumberedIn(x.ins[p]) => ~Issued(x.ins[p]) /\ Issued(x.ins[p])',
         \A x \in I : \A p \in DOMAIN x.outs :
           NumberedOut(x.outs[p]) => ~Issued(x.outs[p]) /\ Issued(x.outs[p])',
         \A x, y \in I : \A p \in DOMAIN x.ins, q \in DOMAIN y.ins :
           x.ins[p] = y.ins[q] /\ NumberedIn(x.ins[p]) => x = y /\ p = q,
         \A x, y \in I : \A p \in DOMAIN x.outs, q \in DOMAIN y.outs :
           x.outs[p] = y.outs[q] /\ NumberedOut(x.outs[p]) => x = y /\ p = q
  PROVE  TextInv'
<1>1. next \in Nat
  BY ProgType DEF IInv, TypeInv
<1>2. Shapes'
  <2> SUFFICES ASSUME NEW x \in insts'
               PROVE  (CopyShape(x) \/ ConvShape(x) \/ ElementShape(x))'
    BY DEF Shapes
  <2>1. CASE x \in insts
    BY <1>1, <2>1, ShapesStay DEF TextInv, Shapes
  <2>2. CASE x \in I
    BY <2>2
  <2> QED
    BY <2>1, <2>2
<1>3. CopiesFirst'
  <2> SUFFICES ASSUME pc \in {"collect", "copies"}, NEW x \in insts'
               PROVE  CopyShape(x)'
    BY DEF CopiesFirst
  <2>1. CopyShape(x)
    BY DEF TextInv, CopiesFirst
  <2> QED
    BY <2>1, ShapesStay
<1>4. TextCounts'
  BY DEF TextCounts, IInv, UsesCounted, Scanned, Sites
<1>5. OneUnit'
  <2> SUFFICES ASSUME NEW x \in insts', NEW y \in insts', x.at # 0, x.at = y.at,
                      x.kind = UnitKind(prog[x.at]), y.kind = UnitKind(prog[x.at]),
                      prog[x.at].t # "sink"
               PROVE  x = y
    BY DEF OneUnit
  <2>1. \A z \in insts : z.at # 0 => z.at # next
    BY <1>1, ShapeAt DEF TextInv, Shapes, ElementShape
  <2>2. CASE x \in insts /\ y \in insts
    BY <2>2 DEF TextInv, OneUnit
  <2>3. CASE x \in I /\ y \in I
    BY <2>3
  <2> QED
    BY <2>1, <2>2, <2>3
<1>6. NumbersIssued'
  BY DEF TextInv, NumbersIssued
<1>7. NumbersOnceIn'
  <2> SUFFICES ASSUME NEW x \in insts', NEW y \in insts', NEW p \in DOMAIN x.ins,
                      NEW q \in DOMAIN y.ins, x.ins[p] = y.ins[q], NumberedIn(x.ins[p])
               PROVE  x = y /\ p = q
    BY DEF NumbersOnceIn
  <2>1. CASE x \in insts /\ y \in insts
    BY <2>1 DEF TextInv, NumbersOnceIn
  <2>2. CASE x \in I /\ y \in I
    BY <2>2
  <2>3. CASE x \in insts /\ y \in I
    <3>1. Issued(x.ins[p])
      BY <2>3 DEF TextInv, NumbersIssued
    <3> QED
      BY <2>3, <3>1
  <2>4. CASE x \in I /\ y \in insts
    <3>1. Issued(y.ins[q])
      BY <2>4 DEF TextInv, NumbersIssued
    <3> QED
      BY <2>4, <3>1
  <2> QED
    BY <2>1, <2>2, <2>3, <2>4
<1>8. NumbersOnceOut'
  <2> SUFFICES ASSUME NEW x \in insts', NEW y \in insts', NEW p \in DOMAIN x.outs,
                      NEW q \in DOMAIN y.outs, x.outs[p] = y.outs[q], NumberedOut(x.outs[p])
               PROVE  x = y /\ p = q
    BY DEF NumbersOnceOut
  <2>1. CASE x \in insts /\ y \in insts
    BY <2>1 DEF TextInv, NumbersOnceOut
  <2>2. CASE x \in I /\ y \in I
    BY <2>2
  <2>3. CASE x \in insts /\ y \in I
    <3>1. Issued(x.outs[p])
      BY <2>3 DEF TextInv, NumbersIssued
    <3> QED
      BY <2>3, <3>1
  <2>4. CASE x \in I /\ y \in insts
    <3>1. Issued(y.outs[q])
      BY <2>4 DEF TextInv, NumbersIssued
    <3> QED
      BY <2>4, <3>1
  <2> QED
    BY <2>1, <2>2, <2>3, <2>4
<1> QED
  BY <1>2, <1>3, <1>4, <1>5, <1>6, <1>7, <1>8 DEF TextInv

-----------------------------------------------------------------------------
(* Numbers given out by counting: the members of a finite set that come     *)
(* before one of them are fewer than the set, and fewer than those that     *)
(* come before a later one.                                                 *)
LEMMA CountBelow ==
  ASSUME NEW S, IsFiniteSet(S), NEW r, \A p \in S : r[p] \in Int, NEW p \in S
  PROVE  /\ Cardinality({q \in S : r[q] < r[p]}) \in Nat
         /\ Cardinality({q \in S : r[q] < r[p]}) < Cardinality(S)
         /\ Cardinality(S) \in Nat
<1> DEFINE B == {q \in S : r[q] < r[p]}
<1>1. B \subseteq S \ {p}
  OBVIOUS
<1>2. IsFiniteSet(S \ {p}) /\ Cardinality(S \ {p}) = Cardinality(S) - 1
  BY FS_RemoveElement
<1>3. Cardinality(B) \in Nat /\ Cardinality(B) <= Cardinality(S \ {p}) /\ Cardinality(S) \in Nat
  BY <1>1, <1>2, FS_Subset, FS_CardinalityType
<1> HIDE DEF B
<1>4. Cardinality(B) < Cardinality(S)
  BY <1>2, <1>3
<1> USE DEF B
<1> QED
  BY <1>3, <1>4, Zenon

LEMMA CountDistinct ==
  ASSUME NEW S, IsFiniteSet(S), NEW r, \A p \in S : r[p] \in Int,
         \A p, q \in S : r[p] = r[q] => p = q, NEW p \in S, NEW q \in S,
         Cardinality({z \in S : r[z] < r[p]}) = Cardinality({z \in S : r[z] < r[q]})
  PROVE  p = q
<1> DEFINE B(x) == {z \in S : r[z] < r[x]}
<1>1. ASSUME NEW x \in S, NEW y \in S, r[x] < r[y]
      PROVE  Cardinality(B(x)) # Cardinality(B(y))
  <2>1. B(x) \subseteq B(y) \ {x} /\ x \in B(y) /\ B(y) \subseteq S
    BY <1>1
  <2>2. IsFiniteSet(B(y))
    BY <2>1, FS_Subset
  <2>3. IsFiniteSet(B(y) \ {x}) /\ Cardinality(B(y) \ {x}) = Cardinality(B(y)) - 1
    BY <2>1, <2>2, FS_RemoveElement
  <2>4. /\ Cardinality(B(x)) \in Nat /\ Cardinality(B(y)) \in Nat
        /\ Cardinality(B(x)) <= Cardinality(B(y) \ {x})
    BY <2>1, <2>2, <2>3, FS_Subset, FS_CardinalityType
  <2> HIDE DEF B
  <2> QED
    BY <2>3, <2>4
<1>2. ~(r[p] < r[q]) /\ ~(r[q] < r[p])
  BY <1>1, Zenon
<1> QED
  BY <1>2

(* The order in which an element names its operands is a strict one. *)
LEMMA RankOrder ==
  ASSUME NEW e \in Element
  PROVE  /\ \A p \in DOMAIN e.reads : Rank(e, p) \in Int
         /\ \A p, q \in DOMAIN e.reads : Rank(e, p) = Rank(e, q) => p = q
<1>1. e.reads \in Seq(Chan)
  BY DEF Element
<1>2. DOMAIN e.reads = 1..Len(e.reads) /\ Len(e.reads) \in Nat
  BY <1>1
<1> QED
  BY <1>2 DEF Rank

(* The numbers of the copy outputs that the operands of the element at hand *)
(* take: at least as many as were given out, below as many as will have     *)
(* been, no two the same.                                                   *)
LEMMA OperandIndex ==
  ASSUME IInv, pc = "emit", next <= Len(prog), NEW e, e = prog[next], e.t # "sink",
         NEW p \in UsePorts(e), NEW c, c = e.reads[p]
  PROVE  /\ c \in Chan /\ p \in UsesOf(e, c)
         /\ opUses[c] \in Nat /\ copyUses[c] \in Nat /\ CopyIndex(e, p) \in Nat
         /\ copyUses[c] <= CopyIndex(e, p)
         /\ opUses[c] > 0 => /\ CopyIndex(e, p) < Taken(e)[c]
                             /\ CopyIndex(e, p) <= opUses[c]
         /\ \A q \in UsesOf(e, c) : CopyIndex(e, p) = CopyIndex(e, q) => p = q
<1> DEFINE U == UsesOf(e, c)
           r == [q \in U |-> Rank(e, q)]
           N(x) == Cardinality({z \in U : r[z] < r[x]})
<1>1. e \in Element /\ next \in 1..Len(prog)
  BY ProgType DEF IInv, TypeInv
<1>2. /\ c \in Chan /\ p \in U /\ U \subseteq DOMAIN e.reads /\ IsFiniteSet(U)
      /\ \A q \in U : e.reads[q] = c
  BY <1>1, UsesFinite DEF UsesOf
<1>3. NamedPorts(e) = UsePorts(e)
  BY DEF NamedPorts
<1>4. /\ opUses[c] \in Nat /\ copyUses[c] \in Nat
      /\ opUses[c] > 0 => ~(CopyIndex(e, p) > opUses[c])
  <2>1. OperandError(e) = "none"
    BY OperandsCovered
  <2>2. opUses[c] # NoEntry /\ ~(opUses[c] > 0 /\ CopyIndex(e, p) > opUses[c])
    BY <1>3, <2>1 DEF OperandError
  <2>3. /\ opUses[c] \in Nat \cup {NoEntry} /\ copyUses[c] \in Nat \cup {NoEntry}
        /\ opUses[c] = NoEntry <=> copyUses[c] = NoEntry
    BY <1>2, EmitCounts
  <2> QED
    BY <2>2, <2>3
<1>5. ASSUME NEW q \in U PROVE CopyIndex(e, q) = copyUses[c] + N(q)
  <2>1. {z \in UsesOf(e, e.reads[q]) : Rank(e, z) < Rank(e, q)} = {z \in U : r[z] < r[q]}
    BY <1>2
  <2>2. e.reads[q] = c
    BY <1>2
  <2> QED
    BY <2>1, <2>2, Zenon DEF CopyIndex
<1>6. /\ \A q \in U : r[q] \in Int
      /\ \A q, z \in U : r[q] = r[z] => q = z
  BY <1>1, <1>2, RankOrder
<1>7. ASSUME NEW q \in U
      PROVE  N(q) \in Nat /\ N(q) < Cardinality(U) /\ Cardinality(U) \in Nat
  <2> HIDE DEF r, U
  <2> QED
    BY <1>2, <1>6, <1>7, CountBelow
<1>8. ASSUME NEW q \in U, NEW z \in U, N(q) = N(z) PROVE q = z
  <2> HIDE DEF r, U
  <2> QED
    BY <1>2, <1>6, <1>8, CountDistinct
<1>9. opUses[c] > 0 => Taken(e)[c] = copyUses[c] + Cardinality(U)
  <2>1. {z \in NamedPorts(e) : e.reads[z] = c} = U
    BY <1>3 DEF UsesOf
  <2>2. Taken(e)[c] = IF opUses[c] > 0
                      THEN copyUses[c] + Cardinality({z \in NamedPorts(e) : e.reads[z] = c})
                      ELSE copyUses[c]
    BY <1>2 DEF Taken
  <2> QED
    BY <2>1, <2>2
<1> HIDE DEF N, r, U
<1>10. /\ CopyIndex(e, p) \in Nat /\ copyUses[c] <= CopyIndex(e, p)
       /\ opUses[c] > 0 => CopyIndex(e, p) < Taken(e)[c] /\ CopyIndex(e, p) <= opUses[c]
  <2>1. N(p) \in Nat /\ N(p) < Cardinality(U) /\ Cardinality(U) \in Nat
    BY <1>2, <1>7
  <2>2. CopyIndex(e, p) = copyUses[c] + N(p)
    BY <1>2, <1>5
  <2>3. opUses[c] > 0 => Taken(e)[c] = copyUses[c] + Cardinality(U)
    BY <1>9
  <2>4. opUses[c] \in Nat /\ copyUses[c] \in Nat /\ (opUses[c] > 0 => ~(CopyIndex(e, p) > opUses[c]))
    BY <1>4
  <2>5. PICK k, n, t : k = CopyIndex(e, p) /\ n = N(p) /\ t = Taken(e)[c]
    OBVIOUS
  <2>6. k = copyUses[c] + n /\ k \in Nat /\ copyUses[c] <= k
    BY <2>1, <2>2, <2>4, <2>5
  <2>7. opUses[c] > 0 => k < t /\ k <= opUses[c]
    <3> SUFFICES ASSUME opUses[c] > 0 PROVE k < t /\ k <= opUses[c]
      OBVIOUS
    <3>1. t = copyUses[c] + Cardinality(U) /\ n < Cardinality(U)
      BY <2>1, <2>3, <2>5
    <3>2. k < t
      BY <2>1, <2>4, <2>5, <2>6, <3>1
    <3>3. k <= opUses[c]
      BY <2>4, <2>5, <2>6
    <3> QED
      BY <3>2, <3>3
  <2> QED
    BY <2>5, <2>6, <2>7
<1>11. ASSUME NEW q \in U, CopyIndex(e, p) = CopyIndex(e, q) PROVE p = q
  <2>1. CopyIndex(e, p) = copyUses[c] + N(p) /\ CopyIndex(e, q) = copyUses[c] + N(q)
    BY <1>2, <1>5
  <2>2. N(p) \in Nat /\ N(q) \in Nat
    BY <1>2, <1>7
  <2>3. N(p) = N(q)
    <3>1. copyUses[c] + N(p) = copyUses[c] + N(q)
      BY <1>11, <2>1, Zenon
    <3> QED
      BY <1>4, <2>2, <3>1
  <2> QED
    BY <1>2, <1>8, <2>3
<1> QED
  BY <1>2, <1>4, <1>10, <1>11 DEF U

(* The names of its operands. *)
LEMMA OperandLinks ==
  ASSUME IInv, pc = "emit", next <= Len(prog), prog[next].t # "sink",
         opUses' = opUses, copyUses' = Taken(prog[next]), NEW e, e = prog[next],
         NEW x, x = OperandNames(e)
  PROVE  /\ DOMAIN x = UsePorts(e)
         /\ \A p \in UsePorts(e) :
              /\ OperandOf(x[p], e.reads[p])
              /\ x[p].kind \in {"raw", "toint", "copyout"}
              /\ NumberedIn(x[p]) => ~Issued(x[p]) /\ Issued(x[p])'
         /\ \A p, q \in UsePorts(e) : x[p] = x[q] /\ NumberedIn(x[p]) => p = q
<1>1. DOMAIN x = UsePorts(e) /\ \A p \in UsePorts(e) : x[p] = OperandName(e, p)
  BY DEF OperandNames, NamedPorts
<1>2. \A c : ReadBase(c).kind \in {"raw", "toint"}
  BY NameFields DEF ReadBase, Raw, ToInt
<1>3. \A c, k : CopyOut(c, k).kind = "copyout" /\ CopyOut(c, k).chan = c /\ CopyOut(c, k).idx = k
  BY NameFields DEF CopyOut
<1>4. ASSUME NEW p \in UsePorts(e)
      PROVE  /\ OperandOf(x[p], e.reads[p])
             /\ x[p].kind \in {"raw", "toint", "copyout"}
             /\ NumberedIn(x[p]) => ~Issued(x[p]) /\ Issued(x[p])'
             /\ NumberedIn(x[p]) => opUses[e.reads[p]] > 0 /\ x[p] = CopyOut(e.reads[p], CopyIndex(e, p))
  <2> DEFINE c == e.reads[p]
             k == CopyIndex(e, p)
  <2>0. /\ c \in Chan /\ opUses[c] \in Nat /\ copyUses[c] \in Nat /\ k \in Nat
        /\ copyUses[c] <= k
        /\ opUses[c] > 0 => k < Taken(e)[c] /\ k <= opUses[c]
    BY OperandIndex
  <2>1. x[p] = IF opUses[c] = 0 THEN ReadBase(c) ELSE CopyOut(c, k)
    BY <1>1, Zenon DEF OperandName
  <2>2. CASE opUses[c] = 0
    <3>1. x[p] = ReadBase(c) /\ ~NumberedIn(x[p])
      BY <1>2, <2>1, <2>2 DEF NumberedIn
    <3> QED
      BY <1>2, <2>2, <3>1 DEF OperandOf
  <2>3. CASE opUses[c] # 0
    <3>1. x[p] = CopyOut(c, k) /\ opUses[c] > 0 /\ k \in 0..opUses[c]
      BY <2>0, <2>1, <2>3
    <3>2. x[p].kind = "copyout" /\ x[p].chan = c /\ x[p].idx = k
      BY <1>3, <3>1
    <3>3. ~Issued(x[p])
      BY <2>0, <3>2 DEF Issued
    <3>4. Issued(x[p])'
      BY <2>0, <3>1, <3>2 DEF Issued
    <3>5. OperandOf(x[p], c)
      BY <2>3, <3>1 DEF OperandOf
    <3> QED
      BY <3>1, <3>2, <3>3, <3>4, <3>5
  <2> QED
    BY <2>2, <2>3
<1>5. ASSUME NEW p \in UsePorts(e), NEW q \in UsePorts(e), x[p] = x[q], NumberedIn(x[p])
      PROVE  p = q
  <2>1. CopyOut(e.reads[p], CopyIndex(e, p)) = CopyOut(e.reads[q], CopyIndex(e, q))
    BY <1>4, <1>5
  <2>2. e.reads[p] = e.reads[q] /\ CopyIndex(e, p) = CopyIndex(e, q)
    BY <1>3, <2>1
  <2>3. q \in UsesOf(e, e.reads[p])
    BY <2>2 DEF UsesOf
  <2> QED
    BY <2>2, <2>3, OperandIndex
<1>6. \A p, q \in UsePorts(e) : x[p] = x[q] /\ NumberedIn(x[p]) => p = q
  BY <1>5
<1> QED
  BY <1>1, <1>4, <1>6

(* The channels of the sinks of a split. *)
LEMMA SinkNumbers ==
  ASSUME NEW e \in Element, sinkCnt \in Nat, sinkCnt' = sinkCnt + Cardinality(Nulls(e))
  PROVE  /\ sinkCnt' \in Nat /\ sinkCnt <= sinkCnt'
         /\ \A o \in Nulls(e) :
              \E k \in Nat : /\ SinkAt(e, o) = Name("sink", Null, k)
                             /\ ~Issued(Name("sink", Null, k))
                             /\ Issued(Name("sink", Null, k))'
         /\ \A o, q \in Nulls(e) : SinkAt(e, o) = SinkAt(e, q) => o = q
<1> DEFINE S == Nulls(e)
           r == [o \in S |-> o]
           N(o) == Cardinality({q \in S : r[q] < r[o]})
<1>1. IsFiniteSet(S) /\ Cardinality(S) \in Nat
  BY OutsType, FS_Subset, FS_CardinalityType DEF Nulls
<1>2. /\ \A o \in S : r[o] \in Int
      /\ \A o, q \in S : r[o] = r[q] => o = q
  <2>1. DOMAIN e.outs = 1..Len(e.outs)
    BY DEF Element
  <2> QED
    BY <2>1 DEF Nulls
<1>3. ASSUME NEW o \in S PROVE SinkAt(e, o) = SinkName(sinkCnt + N(o))
  <2>1. {q \in Nulls(e) : q < o} = {q \in S : r[q] < r[o]}
    OBVIOUS
  <2> QED
    BY <2>1, Zenon DEF SinkAt
<1>4. ASSUME NEW o \in S
      PROVE  N(o) \in Nat /\ N(o) < Cardinality(S)
  <2> HIDE DEF r, S
  <2> QED
    BY <1>1, <1>2, <1>4, CountBelow
<1>5. ASSUME NEW o \in S, NEW q \in S, N(o) = N(q) PROVE o = q
  <2> HIDE DEF r, S
  <2> QED
    BY <1>1, <1>2, <1>5, CountDistinct
<1>6. sinkCnt' \in Nat /\ sinkCnt <= sinkCnt' /\ sinkCnt' = sinkCnt + Cardinality(S)
  BY <1>1
<1> HIDE DEF N, r, S
<1>7. ASSUME NEW o \in S
      PROVE  \E k \in Nat : /\ SinkAt(e, o) = Name("sink", Null, k)
                            /\ ~Issued(Name("sink", Null, k))
                            /\ Issued(Name("sink", Null, k))'
  <2>1. PICK k \in Nat : k = sinkCnt + N(o) /\ k >= sinkCnt /\ k < sinkCnt'
    BY <1>1, <1>4, <1>6, <1>7
  <2>2. SinkAt(e, o) = Name("sink", Null, k)
    BY <1>3, <1>7, <2>1 DEF SinkName
  <2>3. Name("sink", Null, k).kind = "sink" /\ Name("sink", Null, k).idx = k
    BY NameFields
  <2>4. ~Issued(Name("sink", Null, k)) /\ Issued(Name("sink", Null, k))'
    BY <1>6, <2>1, <2>3 DEF Issued
  <2> QED
    BY <2>2, <2>4
<1>8. ASSUME NEW o \in S, NEW q \in S, SinkAt(e, o) = SinkAt(e, q) PROVE o = q
  <2>1. SinkName(sinkCnt + N(o)) = SinkName(sinkCnt + N(q))
    BY <1>3, <1>8
  <2>2. sinkCnt + N(o) = sinkCnt + N(q)
    BY <2>1, NameFields DEF SinkName
  <2>3. N(o) = N(q)
    BY <1>4, <1>6, <2>2
  <2> QED
    BY <1>5, <2>3
<1> QED
  BY <1>6, <1>7, <1>8 DEF S

(* What Write does to the text, for instances of the element at hand. *)
LEMMA WriteText ==
  ASSUME TextInv, IInv, pc = "emit", next <= Len(prog), NEW e, e = prog[next],
         NEW W, NEW I, NEW N, Write(e, W, I, N),
         sinkCnt \in Nat, sinkCnt' \in Nat, sinkCnt <= sinkCnt',
         anonNames \in Nat, anonNames' \in Nat, anonNames <= anonNames',
         \A x \in I :
           /\ x.at = next
           /\ UnitShape(x, e) \/ SourceShape(x, e) \/ BuffShape(x, e) \/ SinkShape(x, e),
         \A x, y \in I : x.kind = UnitKind(e) /\ y.kind = UnitKind(e) /\ e.t # "sink" => x = y,
         \A x \in I : \A p \in DOMAIN x.ins :
           NumberedIn(x.ins[p]) => ~Issued(x.ins[p]) /\ Issued(x.ins[p])',
         \A x \in I : \A p \in DOMAIN x.outs :
           NumberedOut(x.outs[p]) => ~Issued(x.outs[p]) /\ Issued(x.outs[p])',
         \A x, y \in I : \A p \in DOMAIN x.ins, q \in DOMAIN y.ins :
           x.ins[p] = y.ins[q] /\ NumberedIn(x.ins[p]) => x = y /\ p = q,
         \A x, y \in I : \A p \in DOMAIN x.outs, q \in DOMAIN y.outs :
           x.outs[p] = y.outs[q] /\ NumberedOut(x.outs[p]) => x = y /\ p = q
  PROVE  TextInv'
<1>1. /\ next \in Nat \ {0} /\ next' = next + 1 /\ insts' = insts \cup I
      /\ UNCHANGED <<prog, opUses, pc>> /\ copyUses' = Taken(e)
  BY ProgType DEF IInv, TypeInv, Write
<1>2. e \in Element
  BY <1>1, ProgType DEF IInv, TypeInv
<1>3. ASSUME NEW x \in I PROVE ElementShape(x)'
  <2>1. PICK i \in Nat \ {0} : i = next /\ x.at = i
    BY <1>1, <1>3
  <2>2. UnitShape(x, prog[i]) \/ SourceShape(x, prog[i]) \/ BuffShape(x, prog[i]) \/ SinkShape(x, prog[i])
    BY <1>3, <2>1
  <2>3. x.at \in 1..(next' - 1)
    BY <1>1, <2>1
  <2> QED
    BY <1>1, <2>1, <2>2, <2>3, ElementShapesStay DEF ElementShape
<1>4. ASSUME NEW n, Issued(n) PROVE Issued(n)'
  <2>1. ASSUME NEW c \in Chan, n.idx \in Nat, n.idx < copyUses[c] PROVE n.idx < copyUses'[c]
    <3> DEFINE k == Cardinality({p \in NamedPorts(e) : e.reads[p] = c})
    <3>1. k \in Nat /\ copyUses[c] \in Nat \cup {NoEntry}
      BY <1>2, NamedUses DEF IInv, TypeInv
    <3>2. copyUses'[c] = IF opUses[c] > 0 THEN copyUses[c] + k ELSE copyUses[c]
      BY <1>1 DEF Taken
    <3> HIDE DEF k
    <3>3. copyUses[c] \in Int /\ copyUses[c] + k \in Int /\ copyUses[c] <= copyUses[c] + k
      BY <3>1
    <3>4. copyUses'[c] \in Int /\ copyUses[c] <= copyUses'[c]
      BY <3>2, <3>3
    <3> QED
      BY <2>1, <3>3, <3>4
  <2> QED
    BY <1>4, <2>1 DEF Issued
<1>5. next' \in Nat /\ next <= next' /\ pc \notin {"collect", "failed"} /\ pc # "copies"
  BY <1>1
<1>6. \A x \in I : (CopyShape(x) \/ ConvShape(x) \/ ElementShape(x))'
  BY <1>3
<1>7. \A n : Issued(n) => Issued(n)'
  BY <1>4
<1>8. \A x \in I : x.at # 0 => x.at = next
  OBVIOUS
<1>9. \A x, y \in I : x.kind = UnitKind(prog[next]) /\ y.kind = UnitKind(prog[next])
                         /\ x.at = next /\ y.at = next /\ prog[next].t # "sink" => x = y
  OBVIOUS
<1> QED
  BY <1>1, <1>5, <1>6, <1>7, <1>8, <1>9, AddText

LEMMA NameKinds ==
  ASSUME NEW c
  PROVE  /\ OutName(c).kind \in {"raw", "fromint"} /\ OutName(c).chan = c
         /\ Raw(c).kind = "raw" /\ Raw(c).chan = c
         /\ ToInt(c).kind = "toint" /\ ToInt(c).chan = c
         /\ FromInt(c).kind = "fromint" /\ FromInt(c).chan = c
         /\ BufIn(c).kind = "bufIn" /\ BufIn(c).chan = c
         /\ \A k : Stage(c, k).kind \in {"bufIn", "buf"} /\ Stage(c, k).chan = c
BY NameFields DEF OutName, Raw, FromInt, ToInt, BufIn, BufName, Stage

(* A chain of buffers: one-port processes between channels without numbers. *)
LEMMA ChainFacts ==
  ASSUME NEW at, NEW out, NEW x \in BuffChain(at, out)
  PROVE  /\ x.at = at /\ x.kind \in {"onebuf", "init"}
         /\ DOMAIN x.ins = {1} /\ x.ins[1].kind \in {"bufIn", "buf"}
         /\ DOMAIN x.outs = {1} /\ x.outs[1].kind \in {"bufIn", "buf", "raw", "fromint"}
<1>1. PICK k, i, o : /\ x = Inst(k, at, One(i), One(o)) /\ k \in {"onebuf", "init"}
                     /\ i.kind \in {"bufIn", "buf"}
                     /\ o.kind \in {"bufIn", "buf", "raw", "fromint"}
  BY NameKinds DEF BuffChain
<1> QED
  BY <1>1, InstFields, OnePort

LEMMA FunctionText ==
  ASSUME TextInv, IInv, TypeOK, HandleFunc \/ HandleDFlowCluster
  PROVE  TextInv'
<1>1. PICK e : e = prog[next]
  OBVIOUS
<1>2. PICK x : x = OperandNames(e)
  OBVIOUS
<1> DEFINE Src == {Inst("source", next, None, One(OutName(e.outs[o].chan))) :
                     o \in DOMAIN e.outs \ Calcs(e)}
           Chains == UNION {BuffChain(next, e.outs[o]) : o \in BuffOuts(e)}
           I == Src \cup (IF Calcs(e) = {} THEN {} ELSE {FUInst(e)}) \cup Chains
<1>3. /\ pc = "emit" /\ next <= Len(prog) /\ e.t \in FC
      /\ \E W, N : Write(e, W, I, N)
      /\ sinkCnt' = sinkCnt /\ anonNames' = anonNames
  BY <1>1 DEF HandleFunc, HandleDFlowCluster, FunctionUnit, At, FC
<1>4. /\ sinkCnt \in Nat /\ anonNames \in Nat /\ next \in 1..Len(prog) /\ e \in Element
      /\ opUses' = opUses /\ copyUses' = Taken(e)
  BY <1>1, <1>3, ProgType DEF TypeOK, Write
<1>5. /\ DOMAIN x = UsePorts(e)
      /\ \A p \in UsePorts(e) :
           /\ OperandOf(x[p], e.reads[p])
           /\ x[p].kind \in {"raw", "toint", "copyout"}
           /\ NumberedIn(x[p]) => ~Issued(x[p]) /\ Issued(x[p])'
      /\ \A p, q \in UsePorts(e) : x[p] = x[q] /\ NumberedIn(x[p]) => p = q
  <2>1. e.t # "sink"
    BY <1>3 DEF FC
  <2> QED
    BY <1>1, <1>2, <1>3, <1>4, <2>1, OperandLinks
<1>6. ASSUME NEW y \in Src
      PROVE  /\ y.at = next /\ y.kind = "source" /\ SourceShape(y, e)
             /\ DOMAIN y.ins = {} /\ DOMAIN y.outs = {1} /\ ~NumberedOut(y.outs[1])
  <2>1. PICK o \in DOMAIN e.outs \ Calcs(e) :
               y = Inst("source", next, None, One(OutName(e.outs[o].chan)))
    OBVIOUS
  <2>2. /\ y.at = next /\ y.kind = "source"
        /\ DOMAIN y.ins = {} /\ DOMAIN y.outs = {1} /\ y.outs[1] = OutName(e.outs[o].chan)
    BY <2>1, InstFields, OnePort
  <2>3. SourceShape(y, e)
    BY <1>3, <2>1, <2>2 DEF SourceShape
  <2> QED
    BY <2>2, <2>3, NameKinds DEF NumberedOut
<1>7. /\ FUInst(e).at = next /\ FUInst(e).kind = "fu" /\ FUInst(e).ins = x
      /\ DOMAIN FUInst(e).outs = Calcs(e)
      /\ \A o \in Calcs(e) :
           /\ ~NumberedOut(FUInst(e).outs[o])
           /\ e.outs[o].chan # Null
           /\ FUInst(e).outs[o] = OutLink(e, o)
  <2>1. /\ FUInst(e).at = next /\ FUInst(e).kind = "fu" /\ FUInst(e).ins = x
        /\ FUInst(e).outs = [o \in Calcs(e) |-> IF o \in BuffOuts(e) THEN BufIn(e.outs[o].chan)
                                                ELSE OutName(e.outs[o].chan)]
    BY <1>2, InstFields DEF FUInst
  <2>2. ASSUME NEW o \in Calcs(e) PROVE e.outs[o].chan # Null
    <3>1. o \in DOMAIN prog[next].outs /\ prog \in Programs
      BY <1>1 DEF Calcs, TypeOK
    <3>2. prog[next].outs[o].chan = Null =>
            prog[next].t = "split" \/ prog[next].t \in {"mixer", "arbiter"}
      BY <1>4, <3>1, NullOutputs
    <3> QED
      BY <1>1, <1>3, <3>2 DEF FC
  <2>3. ASSUME NEW o \in Calcs(e)
        PROVE  FUInst(e).outs[o] = OutLink(e, o) /\ ~NumberedOut(FUInst(e).outs[o])
    BY <1>3, <2>1, NameKinds DEF OutLink, NumberedOut, FC
  <2> QED
    BY <2>1, <2>2, <2>3
<1>8. UnitShape(FUInst(e), e)
  BY <1>3, <1>5, <1>7 DEF UnitShape, UnitKind, UnitOuts, FC
<1>9. ASSUME NEW y \in Chains
      PROVE  /\ y.at = next /\ y.kind \in {"onebuf", "init"} /\ BuffShape(y, e)
             /\ DOMAIN y.ins = {1} /\ ~NumberedIn(y.ins[1])
             /\ DOMAIN y.outs = {1} /\ ~NumberedOut(y.outs[1])
  <2>1. PICK o \in BuffOuts(e) : y \in BuffChain(next, e.outs[o])
    OBVIOUS
  <2>2. y.at = next
    BY <2>1, ChainFacts
  <2> QED
    BY <1>3, <2>1, <2>2, ChainFacts DEF BuffShape, NumberedIn, NumberedOut
<1>10. \A y \in I : y \in Src \/ y = FUInst(e) \/ y \in Chains
  OBVIOUS
<1>11. UnitKind(e) = "fu"
  BY <1>3 DEF UnitKind
<1>12. PICK W, N : Write(e, W, I, N)
  BY <1>3
<1> HIDE DEF I, Src, Chains
<1>13. \A y \in I : /\ y.at = next
                    /\ UnitShape(y, e) \/ SourceShape(y, e) \/ BuffShape(y, e) \/ SinkShape(y, e)
                    /\ y.kind = UnitKind(e) => y = FUInst(e)
                    /\ \A p \in DOMAIN y.ins : NumberedIn(y.ins[p]) => y = FUInst(e)
                    /\ \A p \in DOMAIN y.outs : ~NumberedOut(y.outs[p])
  BY <1>6, <1>7, <1>8, <1>9, <1>10, <1>11
<1>14. /\ \A p \in DOMAIN FUInst(e).ins :
             NumberedIn(FUInst(e).ins[p]) => ~Issued(FUInst(e).ins[p]) /\ Issued(x[p])'
       /\ \A p, q \in DOMAIN FUInst(e).ins :
             FUInst(e).ins[p] = FUInst(e).ins[q] /\ NumberedIn(FUInst(e).ins[p]) => p = q
  BY <1>5, <1>7
<1>15. \A y \in I : \A p \in DOMAIN y.ins :
         NumberedIn(y.ins[p]) => ~Issued(y.ins[p]) /\ Issued(y.ins[p])'
  <2> SUFFICES ASSUME NEW y \in I, NEW p \in DOMAIN y.ins, NumberedIn(y.ins[p])
               PROVE  ~Issued(y.ins[p]) /\ Issued(y.ins[p])'
    OBVIOUS
  <2>1. y = FUInst(e) /\ y.ins[p] = x[p] /\ p \in DOMAIN FUInst(e).ins
    BY <1>7, <1>13
  <2> QED
    BY <1>14, <2>1
<1>16. \A y, z \in I : \A p \in DOMAIN y.ins, q \in DOMAIN z.ins :
         y.ins[p] = z.ins[q] /\ NumberedIn(y.ins[p]) => y = z /\ p = q
  BY <1>13, <1>14
<1>17. \A y, z \in I : y.kind = UnitKind(e) /\ z.kind = UnitKind(e) /\ e.t # "sink" => y = z
  BY <1>13
<1>18. /\ \A y \in I : \A p \in DOMAIN y.outs :
             NumberedOut(y.outs[p]) => ~Issued(y.outs[p]) /\ Issued(y.outs[p])'
       /\ \A y, z \in I : \A p \in DOMAIN y.outs, q \in DOMAIN z.outs :
             y.outs[p] = z.outs[q] /\ NumberedOut(y.outs[p]) => y = z /\ p = q
  BY <1>13
<1> QED
  BY <1>1, <1>3, <1>4, <1>12, <1>13, <1>15, <1>16, <1>17, <1>18, WriteText

(* A selection unit u, and the sinks on the fresh channels F. *)
FreshNames(F, e) ==
  \A n \in F : /\ e.t # "merge" /\ \E k \in Nat : n = Name(Spare(e), Null, k)
               /\ ~Issued(n) /\ Issued(n)'

SelectUnit(u, e, F) ==
  /\ u.at = next /\ u.kind = e.t /\ u.ins = OperandNames(e) /\ DOMAIN u.outs = DOMAIN e.outs
  /\ \A o \in DOMAIN e.outs : IF e.outs[o].chan = Null THEN u.outs[o] \in F
                                                       ELSE u.outs[o] = OutLink(e, o)
  /\ \A o, q \in DOMAIN e.outs :
       e.outs[o].chan = Null /\ e.outs[q].chan = Null /\ u.outs[o] = u.outs[q] => o = q

WithSinks(u, F) == {Inst("sink", next, One(n), None) : n \in F} \cup {u}

LEMMA SelectText ==
  ASSUME TextInv, IInv, TypeOK, pc = "emit", next <= Len(prog), NEW e, e = prog[next],
         e.t \in {"split", "merge", "mixer", "arbiter"}, NEW W, NEW N, NEW F, NEW u, NEW I,
         I = WithSinks(u, F), Write(e, W, I, N),
         sinkCnt' \in Nat, sinkCnt <= sinkCnt', anonNames' \in Nat, anonNames <= anonNames',
         FreshNames(F, e), SelectUnit(u, e, F)
  PROVE  TextInv'
<1> USE DEF FreshNames, SelectUnit, WithSinks
<1> DEFINE Snk == {Inst("sink", next, One(n), None) : n \in F}
<1>1. /\ sinkCnt \in Nat /\ anonNames \in Nat
      /\ opUses' = opUses /\ copyUses' = Taken(e)
  BY DEF TypeOK, Write
<1>2. PICK x : x = OperandNames(e)
  OBVIOUS
<1>3. /\ DOMAIN x = UsePorts(e)
      /\ \A p \in UsePorts(e) :
           /\ OperandOf(x[p], e.reads[p])
           /\ x[p].kind \in {"raw", "toint", "copyout"}
           /\ NumberedIn(x[p]) => ~Issued(x[p]) /\ Issued(x[p])'
      /\ \A p, q \in UsePorts(e) : x[p] = x[q] /\ NumberedIn(x[p]) => p = q
  BY <1>1, <1>2, OperandLinks
<1>4. u.ins = x /\ UnitKind(e) = e.t /\ UnitOuts(e) = DOMAIN e.outs /\ e.t # "sink"
  BY <1>2 DEF UnitKind, UnitOuts, FC
<1>5. \A n \in F : /\ n.kind = Spare(e) /\ Spare(e) \in {"sink", "anon"}
                   /\ \E k \in Nat : n = Name(Spare(e), Null, k)
  BY NameFields DEF Spare
<1>6. \A o \in DOMAIN e.outs : e.outs[o].chan # Null => ~NumberedOut(u.outs[o])
  <2>1. \A o : OutLink(e, o).kind \in {"bufIn", "raw", "fromint"}
    BY NameKinds DEF OutLink
  <2> QED
    BY <2>1 DEF NumberedOut
<1>7. UnitShape(u, e)
  BY <1>3, <1>4, <1>5 DEF UnitShape
<1>8. ASSUME NEW y \in Snk
      PROVE  \E n \in F : /\ y = Inst("sink", next, One(n), None)
                          /\ y.at = next /\ y.kind = "sink" /\ DOMAIN y.ins = {1}
                          /\ y.ins[1] = n /\ DOMAIN y.outs = {}
  BY InstFields, OnePort
<1>9. ASSUME NEW y \in Snk PROVE SinkShape(y, e)
  <2>1. PICK n \in F : y = Inst("sink", next, One(n), None) /\ y.at = next
    BY <1>8
  <2>2. PICK k \in Nat : n = Name(Spare(e), Null, k)
    BY <1>5
  <2>3. e.t \in {"split", "mixer", "arbiter"}
    OBVIOUS
  <2> QED
    BY <2>1, <2>2, <2>3 DEF SinkShape
<1>10. \A y \in I : y \in Snk \/ y = u
  OBVIOUS
<1> HIDE DEF Snk
<1>12. \A y \in I : /\ y.at = next
                    /\ UnitShape(y, e) \/ SourceShape(y, e) \/ BuffShape(y, e) \/ SinkShape(y, e)
  BY <1>7, <1>8, <1>9, <1>10
<1>13. \A y, z \in I : y.kind = UnitKind(e) /\ z.kind = UnitKind(e) /\ e.t # "sink" => y = z
  BY <1>4, <1>8, <1>10
<1>14. \A y \in I : \A p \in DOMAIN y.ins :
         NumberedIn(y.ins[p]) => ~Issued(y.ins[p]) /\ Issued(y.ins[p])'
  <2> SUFFICES ASSUME NEW y \in I, NEW p \in DOMAIN y.ins, NumberedIn(y.ins[p])
               PROVE  ~Issued(y.ins[p]) /\ Issued(y.ins[p])'
    OBVIOUS
  <2>1. CASE y = u
    <3>1. p \in UsePorts(e) /\ y.ins[p] = x[p]
      BY <1>3, <1>4, <2>1
    <3> QED
      BY <1>3, <3>1
  <2>2. CASE y \in Snk
    BY <1>8, <2>2
  <2> QED
    BY <1>10, <2>1, <2>2
<1>15. \A y \in I : \A p \in DOMAIN y.outs :
         NumberedOut(y.outs[p]) => y = u /\ e.outs[p].chan = Null /\ y.outs[p] \in F
  <2> SUFFICES ASSUME NEW y \in I, NEW p \in DOMAIN y.outs, NumberedOut(y.outs[p])
               PROVE  y = u /\ e.outs[p].chan = Null /\ y.outs[p] \in F
    OBVIOUS
  <2>1. y = u
    BY <1>8, <1>10
  <2> QED
    BY <1>6, <2>1
<1>16. \A y, z \in I : \A p \in DOMAIN y.ins, q \in DOMAIN z.ins :
         y.ins[p] = z.ins[q] /\ NumberedIn(y.ins[p]) => y = z /\ p = q
  <2> SUFFICES ASSUME NEW y \in I, NEW z \in I, NEW p \in DOMAIN y.ins, NEW q \in DOMAIN z.ins,
                      y.ins[p] = z.ins[q], NumberedIn(y.ins[p])
               PROVE  y = z /\ p = q
    OBVIOUS
  <2>1. \A w \in Snk : DOMAIN w.ins = {1} /\ w.ins[1].kind \in {"sink", "anon"}
    BY <1>5, <1>8
  <2>2. \A r \in DOMAIN u.ins : r \in UsePorts(e) /\ u.ins[r] = x[r]
                                /\ x[r].kind \notin {"sink", "anon"}
    BY <1>3, <1>4
  <2>3. CASE y = u /\ z = u
    BY <1>3, <2>2, <2>3
  <2>4. CASE y \in Snk /\ z \in Snk
    BY <1>8, <2>4
  <2>5. ~(y = u /\ z \in Snk) /\ ~(y \in Snk /\ z = u)
    BY <2>1, <2>2
  <2> QED
    BY <1>10, <2>3, <2>4, <2>5
<1>17. /\ \A y \in I : \A p \in DOMAIN y.outs :
             NumberedOut(y.outs[p]) => ~Issued(y.outs[p]) /\ Issued(y.outs[p])'
       /\ \A y, z \in I : \A p \in DOMAIN y.outs, q \in DOMAIN z.outs :
             y.outs[p] = z.outs[q] /\ NumberedOut(y.outs[p]) => y = z /\ p = q
  BY <1>15
<1> QED
  BY <1>1, <1>12, <1>13, <1>14, <1>16, <1>17, WriteText

(* The step of a selection element: it writes its unit u and the sinks on F, *)
(* which are the channels it declares; W go through fixboolchan_outname.     *)
Selects(e, u, F, I, W) ==
  /\ pc = "emit" /\ next <= Len(prog)
  /\ e.t \in {"split", "merge", "mixer", "arbiter"}
  /\ I = WithSinks(u, F) /\ Write(e, W, I, F)
  /\ sinkCnt' \in Nat /\ sinkCnt <= sinkCnt' /\ anonNames' \in Nat /\ anonNames <= anonNames'
  /\ FreshNames(F, e) /\ SelectUnit(u, e, F)
  /\ \A o \in DOMAIN e.outs :
       e.outs[o].chan # Null /\ OutLink(e, o) # Raw(e.outs[o].chan) =>
         OutLink(e, o) = OutName(e.outs[o].chan) /\ e.outs[o].chan \in W
  /\ \A n \in F : \E o \in DOMAIN e.outs : u.outs[o] = n
  /\ \A c \in W : \E o \in DOMAIN e.outs : u.outs[o] = OutName(c)

LEMMA SplitSelects ==
  ASSUME TypeOK, HandleSplit
  PROVE  \E u, F, I, W : Selects(prog[next], u, F, I, W)
<1>1. PICK e : e = prog[next]
  OBVIOUS
<1>2. PICK F : F = {SinkAt(e, o) : o \in Nulls(e)}
  OBVIOUS
<1>3. PICK u : u = SplitInst(e)
  OBVIOUS
<1> DEFINE W == {e.outs[o].chan : o \in DOMAIN e.outs \ Nulls(e)}
<1>4. /\ pc = "emit" /\ next <= Len(prog) /\ e.t = "split"
      /\ Write(e, W, {Inst("sink", next, One(SinkAt(e, o)), None) : o \in Nulls(e)} \cup {u}, F)
      /\ sinkCnt' = sinkCnt + Cardinality(Nulls(e)) /\ anonNames' = anonNames
  BY <1>1, <1>2, <1>3 DEF HandleSplit, At
<1>5. e \in Element /\ sinkCnt \in Nat /\ anonNames \in Nat
  BY <1>1, <1>4, ProgType DEF TypeOK
<1>6. {Inst("sink", next, One(SinkAt(e, o)), None) : o \in Nulls(e)}
        = {Inst("sink", next, One(n), None) : n \in F}
  BY <1>2
<1>7. /\ sinkCnt' \in Nat /\ sinkCnt <= sinkCnt'
      /\ \A o \in Nulls(e) :
           \E k \in Nat : /\ SinkAt(e, o) = Name("sink", Null, k)
                          /\ ~Issued(Name("sink", Null, k)) /\ Issued(Name("sink", Null, k))'
      /\ \A o, q \in Nulls(e) : SinkAt(e, o) = SinkAt(e, q) => o = q
  BY <1>4, <1>5, SinkNumbers
<1>8. \A n \in F : /\ e.t # "merge" /\ \E k \in Nat : n = Name(Spare(e), Null, k)
                   /\ ~Issued(n) /\ Issued(n)'
  <2> SUFFICES ASSUME NEW n \in F
               PROVE  /\ \E k \in Nat : n = Name("sink", Null, k)
                      /\ ~Issued(n) /\ Issued(n)'
    BY <1>4 DEF Spare
  <2>1. PICK o \in Nulls(e) : n = SinkAt(e, o)
    BY <1>2
  <2>2. PICK k \in Nat : /\ n = Name("sink", Null, k)
                         /\ ~Issued(Name("sink", Null, k)) /\ Issued(Name("sink", Null, k))'
    BY <1>7, <2>1
  <2> QED
    BY <2>2
<1>9. /\ u.at = next /\ u.kind = e.t /\ u.ins = OperandNames(e)
      /\ u.outs = [o \in DOMAIN e.outs |-> IF o \in Nulls(e) THEN SinkAt(e, o)
                                           ELSE OutName(e.outs[o].chan)]
  BY <1>3, <1>4, InstFields DEF SplitInst
<1>10. \A o \in DOMAIN e.outs : o \in Nulls(e) <=> e.outs[o].chan = Null
  BY DEF Nulls
<1>11. \A o : OutLink(e, o) = OutName(e.outs[o].chan)
  BY <1>4 DEF OutLink, FC
<1>12. /\ \A o \in DOMAIN e.outs : IF e.outs[o].chan = Null THEN u.outs[o] \in F
                                                            ELSE u.outs[o] = OutLink(e, o)
       /\ \A o, q \in DOMAIN e.outs :
            e.outs[o].chan = Null /\ e.outs[q].chan = Null /\ u.outs[o] = u.outs[q] => o = q
  BY <1>2, <1>7, <1>9, <1>10, <1>11
<1>13. PICK I : I = WithSinks(u, F) /\ Write(e, W, I, F)
  BY <1>4, <1>6, Zenon DEF WithSinks
<1>14. FreshNames(F, e) /\ SelectUnit(u, e, F)
  BY <1>8, <1>9, <1>12 DEF FreshNames, SelectUnit
<1>15. \A o \in DOMAIN e.outs : e.outs[o].chan # Null => e.outs[o].chan \in W
  BY <1>10
<1>16. \A c \in W : \E o \in DOMAIN e.outs : u.outs[o] = OutName(c)
  BY <1>9
<1>17. \A n \in F : \E o \in DOMAIN e.outs : u.outs[o] = n
  BY <1>2, <1>9 DEF Nulls
<1> HIDE DEF W
<1>18. Selects(e, u, F, I, W)
  BY <1>4, <1>5, <1>7, <1>11, <1>13, <1>14, <1>15, <1>16, <1>17 DEF Selects
<1> QED
  BY <1>1, <1>18

LEMMA MergeSelects ==
  ASSUME TypeOK, HandleMerge
  PROVE  \E u, F, I, W : Selects(prog[next], u, F, I, W)
<1>1. PICK e : e = prog[next]
  OBVIOUS
<1>2. PICK u : u = MergeInst(e)
  OBVIOUS
<1>3. /\ pc = "emit" /\ next <= Len(prog) /\ e.t = "merge"
      /\ Write(e, {e.outs[1].chan}, {u}, {})
      /\ sinkCnt' = sinkCnt /\ anonNames' = anonNames
  BY <1>1, <1>2 DEF HandleMerge, At
<1>4. sinkCnt \in Nat /\ anonNames \in Nat /\ next \in 1..Len(prog) /\ prog \in Programs
  BY <1>3, ProgType DEF TypeOK
<1>5. DOMAIN e.outs = {1} /\ e.outs[1].chan # Null
  <2>1. DOMAIN e.outs = {1}
    BY <1>1, <1>3, <1>4, Arities
  <2>2. 1 \in DOMAIN prog[next].outs
    BY <1>1, <2>1
  <2>3. prog[next].outs[1].chan = Null =>
          prog[next].t = "split" \/ prog[next].t \in {"mixer", "arbiter"}
    BY <1>4, <2>2, NullOutputs
  <2> QED
    BY <1>1, <1>3, <2>1, <2>3
<1>6. /\ u.at = next /\ u.kind = e.t /\ u.ins = OperandNames(e)
      /\ DOMAIN u.outs = {1} /\ u.outs[1] = OutName(e.outs[1].chan)
  BY <1>2, <1>3, InstFields, OnePort DEF MergeInst
<1>7. OutLink(e, 1) = OutName(e.outs[1].chan)
  BY <1>3 DEF OutLink, FC
<1>8. PICK F : F = {}
  OBVIOUS
<1>9. PICK I : I = WithSinks(u, F) /\ I = {u}
  BY <1>8 DEF WithSinks
<1>10. PICK W : W = {e.outs[1].chan} /\ Write(e, W, I, F)
  BY <1>3, <1>8, <1>9, Zenon
<1>11. /\ sinkCnt' \in Nat /\ sinkCnt <= sinkCnt' /\ anonNames' \in Nat /\ anonNames <= anonNames'
       /\ e.t \in {"split", "merge", "mixer", "arbiter"}
  BY <1>3, <1>4
<1>12. FreshNames(F, e) /\ SelectUnit(u, e, F)
  BY <1>5, <1>6, <1>7, <1>8 DEF FreshNames, SelectUnit
<1>13. \A o \in DOMAIN e.outs : o = 1
  BY <1>5
<1>14. /\ \A n \in F : \E o \in DOMAIN e.outs : u.outs[o] = n
       /\ \A c \in W : \E o \in DOMAIN e.outs : u.outs[o] = OutName(c)
  BY <1>5, <1>6, <1>8, <1>10
<1>15. Selects(e, u, F, I, W)
  BY <1>3, <1>7, <1>9, <1>10, <1>11, <1>12, <1>13, <1>14 DEF Selects
<1> QED
  BY <1>1, <1>15

LEMMA MixerSelects ==
  ASSUME TypeOK, HandleMixer
  PROVE  \E u, F, I, W : Selects(prog[next], u, F, I, W)
<1>1. PICK e : e = prog[next]
  OBVIOUS
<1>2. PICK u : u = MixerInst(e)
  OBVIOUS
<1>3. PICK F : F = Anon(e)
  OBVIOUS
<1>0. PICK I : I = WithSinks(u, F)
  OBVIOUS
<1>4. /\ pc = "emit" /\ next <= Len(prog) /\ e.t \in {"mixer", "arbiter"}
      /\ Write(e, {e.outs[1].chan}, I, F)
      /\ sinkCnt' = sinkCnt /\ anonNames' = anonNames + Cardinality(F)
  BY <1>0, <1>1, <1>2, <1>3, Zenon DEF HandleMixer, At, WithSinks
<1>5. sinkCnt \in Nat /\ anonNames \in Nat /\ next \in 1..Len(prog) /\ prog \in Programs
  BY <1>4, ProgType DEF TypeOK
<1>6. DOMAIN e.outs = {1, 2} /\ e.outs[1].chan # Null
  <2>1. DOMAIN e.outs = {1, 2}
    BY <1>1, <1>4, <1>5, Arities
  <2>2. 1 \in DOMAIN prog[next].outs
    BY <1>1, <2>1
  <2>3. prog[next].outs[1].chan = Null =>
          prog[next].t = "split" \/ (prog[next].t \in {"mixer", "arbiter"} /\ 1 = 2)
    BY <1>5, <2>2, NullOutputs
  <2> QED
    BY <1>1, <1>4, <2>1, <2>3
<1>7. /\ u.at = next /\ u.kind = e.t /\ u.ins = OperandNames(e)
      /\ u.outs = [o \in 1..2 |-> IF o = 1 THEN OutName(e.outs[1].chan)
                       ELSE IF Anon(e) = {} THEN Raw(e.outs[2].chan) ELSE AnonName(anonNames)]
  BY <1>2, InstFields DEF MixerInst
<1>8. /\ DOMAIN u.outs = {1, 2} /\ u.outs[1] = OutName(e.outs[1].chan)
      /\ u.outs[2] = IF Anon(e) = {} THEN Raw(e.outs[2].chan) ELSE AnonName(anonNames)
  BY <1>7
<1>9. OutLink(e, 1) = OutName(e.outs[1].chan) /\ OutLink(e, 2) = Raw(e.outs[2].chan)
  BY <1>4 DEF OutLink, FC
<1>10. F = IF e.outs[2].chan = Null THEN {AnonName(anonNames)} ELSE {}
  BY <1>3 DEF Anon
<1>11. /\ anonNames' \in Nat /\ anonNames <= anonNames'
       /\ \A n \in F : n = AnonName(anonNames) /\ anonNames < anonNames'
  <2>1. Cardinality(F) = IF e.outs[2].chan = Null THEN 1 ELSE 0
    BY <1>10, FS_EmptySet, FS_Singleton
  <2>2. CASE e.outs[2].chan = Null
    BY <1>4, <1>5, <1>10, <2>1, <2>2
  <2>3. CASE e.outs[2].chan # Null
    BY <1>4, <1>5, <1>10, <2>1, <2>3
  <2> QED
    BY <2>2, <2>3
<1>12. \A n \in F : /\ e.t # "merge" /\ \E k \in Nat : n = Name(Spare(e), Null, k)
                    /\ ~Issued(n) /\ Issued(n)'
  <2> SUFFICES ASSUME NEW n \in F
               PROVE  /\ \E k \in Nat : n = Name("anon", Null, k)
                      /\ ~Issued(n) /\ Issued(n)'
    BY <1>4 DEF Spare
  <2>1. PICK k \in Nat : k = anonNames /\ n = Name("anon", Null, k)
    BY <1>5, <1>11 DEF AnonName
  <2>2. n.kind = "anon" /\ n.idx = k
    BY <2>1, NameFields
  <2> QED
    BY <1>5, <1>11, <2>1, <2>2 DEF Issued
<1>13. /\ \A o \in DOMAIN e.outs : IF e.outs[o].chan = Null THEN u.outs[o] \in F
                                                            ELSE u.outs[o] = OutLink(e, o)
       /\ \A o, q \in DOMAIN e.outs :
            e.outs[o].chan = Null /\ e.outs[q].chan = Null /\ u.outs[o] = u.outs[q] => o = q
  BY <1>3, <1>6, <1>8, <1>9, <1>10
<1>14. DOMAIN u.outs = DOMAIN e.outs
  BY <1>6, <1>8
<1>15. sinkCnt' \in Nat /\ sinkCnt <= sinkCnt' /\ e.t \in {"split", "merge", "mixer", "arbiter"}
  BY <1>4, <1>5
<1>16. FreshNames(F, e) /\ SelectUnit(u, e, F)
  BY <1>7, <1>12, <1>13, <1>14 DEF FreshNames, SelectUnit
<1>17. PICK W : W = {e.outs[1].chan} /\ Write(e, W, I, F)
  BY <1>4
<1>18. \A o \in DOMAIN e.outs : o = 1 \/ OutLink(e, o) = Raw(e.outs[o].chan)
  BY <1>6, <1>9
<1>19. /\ \A n \in F : \E o \in DOMAIN e.outs : u.outs[o] = n
       /\ \A c \in W : \E o \in DOMAIN e.outs : u.outs[o] = OutName(c)
  BY <1>3, <1>6, <1>8, <1>10, <1>17
<1>20. Selects(e, u, F, I, W)
  BY <1>0, <1>4, <1>9, <1>11, <1>15, <1>16, <1>17, <1>18, <1>19 DEF Selects
<1> QED
  BY <1>1, <1>20

LEMMA SelectionText ==
  ASSUME TextInv, IInv, TypeOK, HandleSplit \/ HandleMerge \/ HandleMixer
  PROVE  TextInv'
<1>1. PICK u, F, I, W : Selects(prog[next], u, F, I, W)
  BY SplitSelects, MergeSelects, MixerSelects
<1> QED
  BY <1>1, SelectText DEF Selects

LEMMA SinkText ==
  ASSUME TextInv, IInv, TypeOK, HandleSink
  PROVE  TextInv'
<1>1. PICK e : e = prog[next]
  OBVIOUS
<1>2. PICK u : u = Inst("sink", next, One(Raw(e.reads[1])), None)
  OBVIOUS
<1>3. /\ pc = "emit" /\ next <= Len(prog) /\ e.t = "sink" /\ Write(e, {}, {u}, {})
      /\ sinkCnt' = sinkCnt /\ anonNames' = anonNames
  BY <1>1, <1>2 DEF HandleSink, At
<1>4. sinkCnt \in Nat /\ anonNames \in Nat
  BY DEF TypeOK
<1>5. /\ u.at = next /\ DOMAIN u.ins = {1} /\ u.ins[1] = Raw(e.reads[1]) /\ DOMAIN u.outs = {}
  BY <1>2, InstFields, OnePort
<1>6. SinkShape(u, e) /\ ~NumberedIn(u.ins[1])
  BY <1>2, <1>3, <1>5, NameKinds DEF SinkShape, NumberedIn
<1> DEFINE I == {u}
<1>7. \A y \in I : y = u
  OBVIOUS
<1>8. Write(e, {}, I, {})
  BY <1>3
<1> HIDE DEF I
<1> QED
  BY <1>1, <1>3, <1>4, <1>5, <1>6, <1>7, <1>8, WriteText

(* Every step keeps what is known of the text. *)
LEMMA TextStep ==
  ASSUME TextInv, IInv, TypeOK, CopyText, [Next]_vars, IInv', TypeOK', CopyText'
  PROVE  TextInv'
<1>1. next \in Nat /\ next' \in Nat
  BY ProgType DEF TypeOK
<1>2. ASSUME insts' = {} PROVE TextInv'
  BY <1>2 DEF TextInv, Shapes, CopiesFirst, TextCounts, OneUnit, NumbersIssued,
              NumbersOnceIn, NumbersOnceOut
<1>3. CASE CollectOpUses \/ CollectDone
  BY <1>2, <1>3 DEF CollectOpUses, CollectDone, emitted, CopyText
<1>4. ASSUME NEW c \in Chan, CreateCopyProc(c) PROVE TextInv'
  <2>1. PICK I : I = {CopyInst(c)}
    OBVIOUS
  <2>2. /\ pc = "copies" /\ c \in todo /\ insts' = insts \cup I
        /\ UNCHANGED <<prog, pc, next, opUses, copyUses, sinkCnt, anonNames>>
    BY <1>4, <2>1 DEF CreateCopyProc
  <2>3. opUses[c] > 0
    BY <2>2 DEF CopyText
  <2>4. \A x \in I : CopyShape(x) /\ CopyShape(x)' /\ x.at = 0
    <3>1. \A x \in I : CopyShape(x)
      BY <2>1, <2>3 DEF CopyShape
    <3> QED
      BY <2>2, <3>1, ShapesStay, ShapeAt
  <2>5. \A x \in I : /\ \A p \in DOMAIN x.ins : ~NumberedIn(x.ins[p])
                     /\ \A p \in DOMAIN x.outs : ~NumberedOut(x.outs[p])
    <3>1. /\ DOMAIN CopyInst(c).ins = {1} /\ CopyInst(c).ins[1] = ReadBase(c)
          /\ CopyInst(c).outs = [k \in 1..NumOut(c) |-> CopyOut(c, k - 1)]
      BY InstFields, OnePort DEF CopyInst
    <3>2. ReadBase(c).kind \in {"raw", "toint"} /\ \A k : CopyOut(c, k).kind = "copyout"
      BY NameKinds, NameFields DEF ReadBase, CopyOut
    <3>3. /\ \A p \in DOMAIN CopyInst(c).ins : ~NumberedIn(CopyInst(c).ins[p])
          /\ \A p \in DOMAIN CopyInst(c).outs : ~NumberedOut(CopyInst(c).outs[p])
      BY <3>1, <3>2 DEF NumberedIn, NumberedOut
    <3> QED
      BY <2>1, <3>3, Zenon
  <2>6. \A n : Issued(n) => Issued(n)'
    BY <2>2 DEF Issued
  <2> QED
    BY <1>1, <2>1, <2>2, <2>4, <2>5, <2>6, AddText
<1>5. CASE CopiesDone
  BY <1>1, <1>5, QuietText DEF CopiesDone, emitted, IInv
<1>6. CASE Handler
  BY <1>6, FunctionText, SelectionText, SinkText DEF Handler
<1>7. CASE ElementExit
  BY <1>1, <1>7, QuietText DEF ElementExit, Exit, emitted, IInv
<1>8. CASE EmitDone
  BY <1>1, <1>8, QuietText DEF EmitDone, emitted, IInv
<1>9. ASSUME NEW c \in BoolChan, PrintBoolToIntConv(c) PROVE TextInv'
  <2>1. PICK I : I = {Inst("bool_to_int", 0, One(Raw(c)), One(ToInt(c))) : f \in boolFlags[c] \cap {"to"}}
                       \cup {Inst("int_to_bool", 0, One(FromInt(c)), One(Raw(c))) : f \in boolFlags[c] \cap {"from"}}
    OBVIOUS
  <2>2. /\ pc = "convert" /\ insts' = insts \cup I
        /\ UNCHANGED <<prog, pc, next, opUses, copyUses, sinkCnt, anonNames>>
    BY <1>9, <2>1 DEF PrintBoolToIntConv
  <2>3. \A x \in I : \/ x = Inst("bool_to_int", 0, One(Raw(c)), One(ToInt(c)))
                     \/ x = Inst("int_to_bool", 0, One(FromInt(c)), One(Raw(c)))
    BY <2>1
  <2>4. \A x \in I : ConvShape(x)' /\ x.at = 0
    <3>1. \A x \in I : ConvShape(x)
      BY <2>3 DEF ConvShape
    <3> QED
      BY <2>2, <3>1, ShapesStay, ShapeAt
  <2>5. \A x \in I : /\ \A p \in DOMAIN x.ins : ~NumberedIn(x.ins[p])
                     /\ \A p \in DOMAIN x.outs : ~NumberedOut(x.outs[p])
    <3> SUFFICES ASSUME NEW x \in I
                 PROVE  /\ \A p \in DOMAIN x.ins : ~NumberedIn(x.ins[p])
                        /\ \A p \in DOMAIN x.outs : ~NumberedOut(x.outs[p])
      OBVIOUS
    <3>1. PICK k, i, o : /\ x = Inst(k, 0, One(i), One(o))
                         /\ i \in {Raw(c), FromInt(c)} /\ o \in {Raw(c), ToInt(c)}
      BY <2>3
    <3>2. /\ DOMAIN x.ins = {1} /\ x.ins[1] \in {Raw(c), FromInt(c)}
          /\ DOMAIN x.outs = {1} /\ x.outs[1] \in {Raw(c), ToInt(c)}
      BY <3>1, InstFields, OnePort
    <3> QED
      BY <3>2, NameKinds DEF NumberedIn, NumberedOut
  <2>6. \A n : Issued(n) => Issued(n)'
    BY <2>2 DEF Issued
  <2>7. \A x \in I : (CopyShape(x) \/ ConvShape(x) \/ ElementShape(x))'
    BY <2>4
  <2>8. \A x \in I : x.at # next
    BY <2>4, ProgType DEF TypeOK
  <2> QED
    BY <1>1, <2>2, <2>4, <2>5, <2>6, <2>7, <2>8, AddText
<1>10. CASE ConvertDone
  BY <1>1, <1>10, QuietText DEF ConvertDone, emitted, IInv
<1>11. CASE UNCHANGED vars
  <2>1. pc = "collect" => insts' = {}
    BY <1>11 DEF CopyText, vars
  <2> QED
    BY <1>1, <1>2, <1>11, <2>1, QuietText DEF vars, IInv
<1> QED
  BY <1>3, <1>4, <1>5, <1>6, <1>7, <1>8, <1>9, <1>10, <1>11 DEF Next, Terminating, Handler

AllInv == IInv /\ TypeOK /\ CopyText /\ TextInv

(* What is known of the text holds throughout the translation. *)
THEOREM TextTheorem == Spec => []AllInv
<1>1. Init => AllInv
  <2> SUFFICES ASSUME Init PROVE AllInv
    OBVIOUS
  <2>1. IInv
    BY InitInv
  <2>2. TypeOK
    <3>1. TextType
      BY DEF Init, TextType
    <3> QED
      BY <2>1, <3>1, TypeParts DEF IInv
  <2>3. CopyText
    BY DEF Init, CopyText
  <2>4. TextInv
    <3>1. insts = {}
      BY DEF Init
    <3> QED
      BY <3>1 DEF TextInv, Shapes, CopiesFirst, TextCounts, OneUnit, NumbersIssued,
                  NumbersOnceIn, NumbersOnceOut
  <2> QED
    BY <2>1, <2>2, <2>3, <2>4 DEF AllInv
<1>2. AllInv /\ [Next]_vars => AllInv'
  <2> SUFFICES ASSUME AllInv, [Next]_vars PROVE AllInv'
    OBVIOUS
  <2>1. IInv'
    BY NextInv DEF AllInv
  <2>2. TypeOK'
    <3>1. TextType'
      BY NextText DEF AllInv
    <3> QED
      BY <2>1, <3>1 DEF TypeOK, TypeInv, TextType, IInv
  <2>3. CopyText'
    BY CopyTextStep DEF AllInv
  <2>4. TextInv'
    BY <2>1, <2>2, <2>3, TextStep DEF AllInv
  <2> QED
    BY <2>1, <2>2, <2>3, <2>4 DEF AllInv
<1> QED
  BY <1>1, <1>2, PTL DEF Spec
=============================================================================
