----------------------------- MODULE NetProofs -----------------------------
(***************************************************************************)
(* For every set of channels and every dataflow block: what the network of *)
(* the text is. The shapes of the instances say which ports can be         *)
(* connected to a channel of each kind; that the program drives no channel *)
(* twice, that a channel with a use count of 0 has one use site, and that  *)
(* no number is given out twice leave one port on each side. What the      *)
(* translator makes up it declares once, connects on both sides, and, as   *)
(* far as it is storage, makes as deep as the program asks.                *)
(*   And the network is the dataflow graph: the way back from a port to    *)
(* the process that computes is a trail of copies, converters and buffers, *)
(* each of which is passed once; so the trail is not longer than there are *)
(* instances, and Root follows it to its end.                              *)
(***************************************************************************)
EXTENDS ProcGeneratorProofs, NatLemmas

USE DEF NoEntry

-----------------------------------------------------------------------------
(* Sets of at most one member. *)

LEMMA AtMostOne ==
  ASSUME NEW S, \A r, s \in S : r = s
  PROVE  IsFiniteSet(S) /\ Cardinality(S) <= 1 /\ (S # {} => Cardinality(S) = 1)
<1>1. CASE S = {}
  BY <1>1, FS_EmptySet
<1>2. CASE S # {}
  <2>1. PICK r \in S : S = {r}
    BY <1>2
  <2>2. IsFiniteSet({r}) /\ Cardinality({r}) = 1
    BY FS_Singleton
  <2> QED
    BY <2>1, <2>2
<1> QED
  BY <1>1, <1>2

LEMMA OnlyOne ==
  ASSUME NEW S, IsFiniteSet(S), Cardinality(S) <= 1, NEW r \in S, NEW s \in S
  PROVE  r = s
<1>1. IsFiniteSet(S \ {r}) /\ Cardinality(S \ {r}) = Cardinality(S) - 1
  BY FS_RemoveElement
<1>2. Cardinality(S \ {r}) \in Nat /\ Cardinality(S) \in Nat
  BY <1>1, FS_CardinalityType
<1>3. Cardinality(S \ {r}) = 0
  BY <1>1, <1>2
<1>4. S \ {r} = {}
  BY <1>1, <1>3, FS_EmptySet
<1> QED
  BY <1>4

(* The ports connected to a channel. *)
LEMMA PortFacts ==
  ASSUME NEW n
  PROVE  /\ \A r : r \in Readers(n) <=>
               \E x \in insts : \E p \in DOMAIN x.ins : r = <<x, p>> /\ x.ins[p] = n
         /\ \A w : w \in Writers(n) <=>
               \E x \in insts : \E p \in DOMAIN x.outs : w = <<x, p>> /\ x.outs[p] = n
<1>1. \A x : /\ Ports(x, "ins") = {<<x, p>> : p \in DOMAIN x.ins}
             /\ Ports(x, "outs") = {<<x, p>> : p \in DOMAIN x.outs}
  BY DEF Ports
<1>2. \A r : r \in UNION {Ports(x, "ins") : x \in insts} <=>
               \E x \in insts : \E p \in DOMAIN x.ins : r = <<x, p>>
  BY <1>1
<1>3. \A r : r \in UNION {Ports(x, "outs") : x \in insts} <=>
               \E x \in insts : \E p \in DOMAIN x.outs : r = <<x, p>>
  BY <1>1
<1>4. \A x, p : <<x, p>>[1] = x /\ <<x, p>>[2] = p
  OBVIOUS
<1>5. ASSUME NEW r
      PROVE  r \in Readers(n) <=>
               \E x \in insts : \E p \in DOMAIN x.ins : r = <<x, p>> /\ x.ins[p] = n
  <2>1. r \in Readers(n) <=> /\ r \in UNION {Ports(x, "ins") : x \in insts}
                             /\ r[1].ins[r[2]] = n
    BY DEF Readers
  <2> QED
    BY <1>2, <1>4, <2>1
<1>6. ASSUME NEW r
      PROVE  r \in Writers(n) <=>
               \E x \in insts : \E p \in DOMAIN x.outs : r = <<x, p>> /\ x.outs[p] = n
  <2>1. r \in Writers(n) <=> /\ r \in UNION {Ports(x, "outs") : x \in insts}
                             /\ r[1].outs[r[2]] = n
    BY DEF Writers
  <2> QED
    BY <1>3, <1>4, <2>1
<1> QED
  BY <1>5, <1>6

-----------------------------------------------------------------------------
(* What an input port with a channel without a number is. *)

CopyReads(x, p, c) == c \in Chan /\ opUses[c] > 0 /\ x = CopyInst(c) /\ p = 1 /\ x.ins[p] = ReadBase(c)

ToIntInst(c) == Inst("bool_to_int", 0, One(Raw(c)), One(ToInt(c)))
ToBoolInst(c) == Inst("int_to_bool", 0, One(FromInt(c)), One(Raw(c)))
ConvReads(x, p, c) ==
  c \in BoolChan /\ p = 1 /\ \/ x = ToIntInst(c) /\ x.ins[p] = Raw(c)
                             \/ x = ToBoolInst(c) /\ x.ins[p] = FromInt(c)

UnitReads(x, p, c) ==
  /\ x.at \in 1..Len(prog) /\ UnitShape(x, prog[x.at]) /\ c \in Chan /\ opUses[c] = 0
  /\ p \in UsesOf(prog[x.at], c) /\ x.ins[p] = ReadBase(c)

SinkReads(x, p, c) ==
  /\ x.at \in 1..Len(prog) /\ prog[x.at].t = "sink" /\ c \in Chan /\ p = 1
  /\ p \in UsesOf(prog[x.at], c) /\ x = Inst("sink", x.at, One(Raw(c)), None) /\ x.ins[p] = Raw(c)

(* The stage of a chain that reads its k-th link. *)
StageInst(at, out, k) ==
  IF k < Inner(out) THEN Inst("onebuf", at, One(Stage(out.chan, k)), One(Stage(out.chan, k + 1)))
  ELSE Inst(IF out.buf = "init" THEN "init" ELSE "onebuf", at,
            One(Stage(out.chan, k)), One(OutName(out.chan)))

BuffAt(x, o, k) ==
  /\ x.at \in 1..Len(prog) /\ prog[x.at].t \in FC /\ o \in BuffOuts(prog[x.at])
  /\ k \in 0..Inner(prog[x.at].outs[o]) /\ x = StageInst(x.at, prog[x.at].outs[o], k)

BuffReads(x, p, o, k) ==
  BuffAt(x, o, k) /\ p = 1 /\ x.ins[p] = Stage(prog[x.at].outs[o].chan, k)

LEMMA InnerType ==
  ASSUME NEW out \in Output
  PROVE  Inner(out) \in Nat
BY DEF Inner, Output

(* A process of a buffer chain is one of its stages. *)
LEMMA ChainStage ==
  ASSUME NEW at, NEW out \in Output, NEW x \in BuffChain(at, out)
  PROVE  \E k \in 0..Inner(out) : x = StageInst(at, out, k)
<1>1. Inner(out) \in Nat
  BY InnerType
<1>2. CASE \E k \in 1..Inner(out) :
             x = Inst("onebuf", at, One(Stage(out.chan, k - 1)), One(Stage(out.chan, k)))
  <2>1. PICK k \in 1..Inner(out) :
               x = Inst("onebuf", at, One(Stage(out.chan, k - 1)), One(Stage(out.chan, k)))
    BY <1>2
  <2>2. PICK j : j = k - 1
    OBVIOUS
  <2>3. j \in 0..Inner(out) /\ j < Inner(out) /\ k = j + 1
    BY <1>1, <2>2
  <2>4. x = StageInst(at, out, j)
    BY <2>1, <2>2, <2>3 DEF StageInst
  <2> QED
    BY <2>3, <2>4
<1>3. CASE x = Inst(IF out.buf = "init" THEN "init" ELSE "onebuf", at,
                    One(Stage(out.chan, Inner(out))), One(OutName(out.chan)))
  <2>1. Inner(out) \in 0..Inner(out) /\ ~(Inner(out) < Inner(out))
    BY <1>1
  <2> QED
    BY <1>3, <2>1 DEF StageInst
<1> QED
  BY <1>2, <1>3 DEF BuffChain

(* And all of its stages are there. *)
LEMMA StageWritten ==
  ASSUME NEW at, NEW out, Inner(out) \in Nat, NEW k \in 0..Inner(out)
  PROVE  StageInst(at, out, k) \in BuffChain(at, out)
<1>1. CASE k < Inner(out)
  <2>1. k + 1 \in 1..Inner(out) /\ (k + 1) - 1 = k
    BY <1>1
  <2>2. StageInst(at, out, k)
          = Inst("onebuf", at, One(Stage(out.chan, (k + 1) - 1)), One(Stage(out.chan, k + 1)))
    BY <1>1, <2>1 DEF StageInst
  <2> QED
    BY <2>1, <2>2 DEF BuffChain
<1>2. CASE ~(k < Inner(out))
  <2>1. k = Inner(out)
    BY <1>2
  <2> QED
    BY <1>2, <2>1 DEF StageInst, BuffChain
<1> QED
  BY <1>1, <1>2

LEMMA StageFields ==
  ASSUME NEW at, NEW out, NEW k
  PROVE  /\ DOMAIN StageInst(at, out, k).ins = {1} /\ DOMAIN StageInst(at, out, k).outs = {1}
         /\ StageInst(at, out, k).ins[1] = Stage(out.chan, k)
         /\ StageInst(at, out, k).outs[1] = IF k < Inner(out) THEN Stage(out.chan, k + 1)
                                                              ELSE OutName(out.chan)
         /\ StageInst(at, out, k).at = at
         /\ StageInst(at, out, k).kind \in {"onebuf", "init"}
<1>1. PICK q, o : /\ StageInst(at, out, k) = Inst(q, at, One(Stage(out.chan, k)), One(o))
                  /\ o = IF k < Inner(out) THEN Stage(out.chan, k + 1) ELSE OutName(out.chan)
                  /\ q \in {"onebuf", "init"}
  BY DEF StageInst
<1> QED
  BY <1>1, InstFields, OnePort

LEMMA InputRoles ==
  ASSUME AllInv, NEW x \in insts, NEW p \in DOMAIN x.ins, ~NumberedIn(x.ins[p])
  PROVE  \/ \E c : CopyReads(x, p, c) \/ ConvReads(x, p, c) \/ UnitReads(x, p, c) \/ SinkReads(x, p, c)
         \/ \E o, k : BuffReads(x, p, o, k)
<1>1. prog \in Programs /\ Len(prog) \in Nat /\ next \in 1..(Len(prog) + 1)
  BY ProgType DEF AllInv, TypeOK
<1>2. CASE CopyShape(x)
  <2>1. PICK c \in Chan : opUses[c] > 0 /\ x = CopyInst(c)
    BY <1>2 DEF CopyShape
  <2>2. DOMAIN x.ins = {1} /\ x.ins[1] = ReadBase(c)
    BY <2>1, InstFields, OnePort DEF CopyInst
  <2> QED
    BY <2>1, <2>2 DEF CopyReads
<1>3. CASE ConvShape(x)
  <2>1. PICK c \in BoolChan : x = ToIntInst(c) \/ x = ToBoolInst(c)
    BY <1>3 DEF ConvShape, ToIntInst, ToBoolInst
  <2>2. /\ DOMAIN ToIntInst(c).ins = {1} /\ ToIntInst(c).ins[1] = Raw(c)
        /\ DOMAIN ToBoolInst(c).ins = {1} /\ ToBoolInst(c).ins[1] = FromInt(c)
    BY InstFields, OnePort DEF ToIntInst, ToBoolInst
  <2> QED
    BY <2>1, <2>2 DEF ConvReads
<1>4. CASE ElementShape(x)
  <2>1. PICK i : i = x.at
    OBVIOUS
  <2>2. i \in 1..Len(prog) /\ prog[i] \in Element
    BY <1>1, <1>4, <2>1, ProgType DEF ElementShape
  <2>3. /\ DOMAIN prog[i].reads = 1..Len(prog[i].reads) /\ Len(prog[i].reads) \in Nat
        /\ \A q \in DOMAIN prog[i].reads : prog[i].reads[q] \in Chan
        /\ \A o \in DOMAIN prog[i].outs : prog[i].outs[o] \in Output
    BY <1>1, <2>2, ElementFacts
  <2>4. CASE UnitShape(x, prog[i])
    <3>1. p \in UsePorts(prog[i]) /\ OperandOf(x.ins[p], prog[i].reads[p])
      BY <2>4 DEF UnitShape
    <3>2. PICK c : c = prog[i].reads[p]
      OBVIOUS
    <3>3. c \in Chan /\ p \in UsesOf(prog[i], c)
      BY <2>2, <3>1, <3>2, UsesFinite DEF UsesOf
    <3>4. \A k : NumberedIn(CopyOut(c, k))
      BY NameFields DEF CopyOut, NumberedIn
    <3>5. opUses[c] = 0 /\ x.ins[p] = ReadBase(c)
      BY <3>1, <3>2, <3>4 DEF OperandOf
    <3> QED
      BY <2>1, <2>2, <2>4, <3>3, <3>5 DEF UnitReads
  <2>5. CASE SourceShape(x, prog[i])
    <3>1. DOMAIN x.ins = {}
      BY <2>5, InstFields, OnePort DEF SourceShape
    <3> QED
      BY <3>1
  <2>6. CASE BuffShape(x, prog[i])
    <3>1. PICK o \in BuffOuts(prog[i]) : prog[i].t \in FC /\ x \in BuffChain(x.at, prog[i].outs[o])
      BY <2>6 DEF BuffShape
    <3>2. prog[i].outs[o] \in Output
      BY <2>3, <3>1 DEF BuffOuts, Calcs
    <3>3. PICK k \in 0..Inner(prog[i].outs[o]) : x = StageInst(x.at, prog[i].outs[o], k)
      BY <3>1, <3>2, ChainStage
    <3>4. DOMAIN x.ins = {1} /\ x.ins[1] = Stage(prog[i].outs[o].chan, k)
      BY <3>3, StageFields
    <3> QED
      BY <2>1, <2>2, <3>1, <3>3, <3>4 DEF BuffReads, BuffAt
  <2>7. CASE SinkShape(x, prog[i])
    <3>1. CASE prog[i].t = "sink" /\ x = Inst("sink", x.at, One(Raw(prog[i].reads[1])), None)
      <4>1. PICK c : c = prog[i].reads[1]
        OBVIOUS
      <4>2. prog[i].reads # << >>
        BY <1>1, <2>2, <3>1, Arities
      <4>3. 1 \in DOMAIN prog[i].reads
        BY <2>2, <2>3, <4>2 DEF Element
      <4>4. UsePorts(prog[i]) = DOMAIN prog[i].reads
        BY <3>1 DEF UsePorts
      <4>5. c \in Chan /\ 1 \in UsesOf(prog[i], c)
        BY <2>3, <4>1, <4>3, <4>4 DEF UsesOf
      <4>6. DOMAIN x.ins = {1} /\ x.ins[1] = Raw(c)
        BY <3>1, <4>1, InstFields, OnePort
      <4> QED
        BY <2>1, <2>2, <3>1, <4>1, <4>5, <4>6 DEF SinkReads
    <3>2. CASE \E k \in Nat : x = Inst("sink", x.at, One(Name(Spare(prog[i]), Null, k)), None)
      <4>1. PICK k \in Nat : x = Inst("sink", x.at, One(Name(Spare(prog[i]), Null, k)), None)
        BY <3>2
      <4>2. p = 1 /\ x.ins[p] = Name(Spare(prog[i]), Null, k)
        BY <4>1, InstFields, OnePort
      <4>3. x.ins[p].kind \in {"sink", "anon"}
        BY <4>2, NameFields DEF Spare
      <4> QED
        BY <4>3 DEF NumberedIn
    <3> QED
      BY <2>1, <2>7, <3>1, <3>2 DEF SinkShape
  <2> QED
    BY <1>4, <2>1, <2>4, <2>5, <2>6, <2>7 DEF ElementShape
<1> QED
  BY <1>2, <1>3, <1>4 DEF AllInv, TextInv, Shapes

(* A channel with at most one use is read at one place of the program. *)
LEMMA OneSite ==
  ASSUME AllInv, insts # {}, NEW c \in Chan, opUses[c] = 0 \/ UseCount(c) <= 1,
         NEW i \in 1..Len(prog), NEW p \in UsesOf(prog[i], c),
         NEW j \in 1..Len(prog), NEW q \in UsesOf(prog[j], c)
  PROVE  i = j /\ p = q
<1>1. IsFiniteSet(Sites(Len(prog), c)) /\ opUses[c] = UseCount(c) - 1 /\ UseCount(c) \in Nat
  BY FS_CardinalityType DEF AllInv, TextInv, TextCounts, UseCount
<1>2. UseCount(c) <= 1
  BY <1>1
<1>3. <<i, p>> \in Sites(Len(prog), c) /\ <<j, q>> \in Sites(Len(prog), c)
  BY DEF Sites
<1>4. <<i, p>> = <<j, q>>
  BY <1>1, <1>2, <1>3, OnlyOne DEF UseCount
<1> QED
  BY <1>4

LEMMA StageChan == \A d, l : Stage(d, l).chan = d
BY NameFields DEF Stage, BufIn, BufName

LEMMA StageInjective ==
  ASSUME NEW d, NEW k \in Nat, NEW m \in Nat, Stage(d, k) = Stage(d, m)
  PROVE  k = m
<1>1. \A l \in Nat : /\ Stage(d, l).kind = IF l = 0 THEN "bufIn" ELSE "buf"
                     /\ l # 0 => Stage(d, l).idx = l - 1
  BY NameFields DEF Stage, BufIn, BufName
<1>2. k = 0 <=> m = 0
  BY <1>1
<1>3. k # 0 /\ m # 0 => k - 1 = m - 1
  BY <1>1
<1> QED
  BY <1>2, <1>3

(* The kinds of names tell the readers apart. *)
LEMMA ReadNames ==
  ASSUME NEW c
  PROVE  /\ ReadBase(c) = IF c \in BoolChan THEN ToInt(c) ELSE Raw(c)
         /\ Raw(c).kind = "raw" /\ Raw(c).chan = c
         /\ ToInt(c).kind = "toint" /\ ToInt(c).chan = c
         /\ FromInt(c).kind = "fromint" /\ FromInt(c).chan = c
         /\ OutName(c) = IF c \in BoolChan THEN FromInt(c) ELSE Raw(c)
BY NameKinds DEF ReadBase, OutName

(* Two ports that read one channel are one port. *)
LEMMA OneReader ==
  ASSUME AllInv, NEW x \in insts, NEW p \in DOMAIN x.ins,
         NEW y \in insts, NEW q \in DOMAIN y.ins, NEW n, x.ins[p] = n, y.ins[q] = n,
         n.chan # Null => ~Bypassed(n.chan)
  PROVE  x = y /\ p = q
<1>1. CASE NumberedIn(n)
  BY <1>1 DEF AllInv, TextInv, NumbersOnceIn
<1>2. CASE ~NumberedIn(n)
  <2>1. prog \in Programs /\ Len(prog) \in Nat /\ DOMAIN prog = 1..Len(prog)
    BY ProgType DEF AllInv, TypeOK
  <2>2. /\ \/ \E c : CopyReads(x, p, c) \/ ConvReads(x, p, c) \/ UnitReads(x, p, c) \/ SinkReads(x, p, c)
           \/ \E o, k : BuffReads(x, p, o, k)
        /\ \/ \E c : CopyReads(y, q, c) \/ ConvReads(y, q, c) \/ UnitReads(y, q, c) \/ SinkReads(y, q, c)
           \/ \E o, k : BuffReads(y, q, o, k)
    BY <1>2, InputRoles
  <2>3. \A c : CopyReads(x, p, c) \/ CopyReads(y, q, c) => n = ReadBase(c) /\ opUses[c] # 0 /\ c \in Chan
    BY DEF CopyReads, AllInv, TypeOK
  <2>4. \A c : UnitReads(x, p, c) \/ UnitReads(y, q, c) => n = ReadBase(c) /\ opUses[c] = 0 /\ c \in Chan
    BY DEF UnitReads
  <2>5. \A c : SinkReads(x, p, c) \/ SinkReads(y, q, c) =>
                  n = Raw(c) /\ c \in Chan /\ c \notin BoolChan /\ UseCount(c) <= 1
    <3> SUFFICES ASSUME NEW c, SinkReads(x, p, c) \/ SinkReads(y, q, c)
                 PROVE  n = Raw(c) /\ c \in Chan /\ c \notin BoolChan /\ UseCount(c) <= 1
      OBVIOUS
    <3>1. n = Raw(c) /\ c \in Chan /\ Sunk(c)
      BY <2>1 DEF SinkReads, Sunk, UsesOf
    <3>2. n.chan = c /\ c # Null
      BY <3>1, ReadNames, NullAssumption
    <3>3. ~(UseCount(c) > 1 \/ c \in BoolChan)
      BY <3>1, <3>2 DEF Bypassed
    <3>4. UseCount(c) \in Nat
      BY <3>1, FS_CardinalityType DEF UseCount, AllInv, TextInv, TextCounts
    <3> QED
      BY <3>1, <3>3, <3>4
  <2>6. \A c : ConvReads(x, p, c) \/ ConvReads(y, q, c) => c \in BoolChan /\ n \in {Raw(c), FromInt(c)}
    BY DEF ConvReads
  <2>7. \A o, k : BuffReads(x, p, o, k) \/ BuffReads(y, q, o, k) => n.kind \in {"bufIn", "buf"}
    <3>1. \A d, k : Stage(d, k).kind \in {"bufIn", "buf"}
      BY NameKinds
    <3> QED
      BY <3>1 DEF BuffReads
  <2>8. \A c \in Chan : UseCount(c) <= 1 => ~(opUses[c] > 0)
    BY FS_CardinalityType DEF UseCount, AllInv, TextInv, TextCounts
  <2>9. \A c : CopyReads(x, p, c) \/ CopyReads(y, q, c) => opUses[c] > 0
    BY DEF CopyReads
  <2>10. ASSUME NEW c, NEW d, c = d \/ n \in {ReadBase(c), Raw(c), FromInt(c)}, n \in {ReadBase(d), Raw(d), FromInt(d)}
         PROVE  c = d
    <3>1. \A z : ReadBase(z).chan = z /\ Raw(z).chan = z /\ FromInt(z).chan = z
      BY ReadNames
    <3> QED
      BY <2>10, <3>1
  <2>11. CASE \E c : ConvReads(x, p, c) \/ ConvReads(y, q, c)
    <3>1. PICK c : ConvReads(x, p, c) \/ ConvReads(y, q, c)
      BY <2>11
    <3>2. c \in BoolChan /\ n \in {Raw(c), FromInt(c)}
      BY <2>6, <3>1
    <3>3. \A d : n = Raw(d) => d = c
      BY <3>2, ReadNames
    <3>4. \A d : n = ReadBase(d) => d = c
      BY <3>2, ReadNames
    <3>5. n # ReadBase(c)
      BY <3>2, ReadNames
    <3>6. n.kind \in {"raw", "fromint"}
      BY <3>2, ReadNames
    <3>7. \A d : ~CopyReads(x, p, d) /\ ~CopyReads(y, q, d)
      BY <2>3, <3>4, <3>5
    <3>8. \A d : ~UnitReads(x, p, d) /\ ~UnitReads(y, q, d)
      BY <2>4, <3>4, <3>5
    <3>9. \A d : ~SinkReads(x, p, d) /\ ~SinkReads(y, q, d)
      BY <2>5, <3>2, <3>3
    <3>10. PICK d, e : ConvReads(x, p, d) /\ ConvReads(y, q, e)
      BY <2>2, <2>7, <3>6, <3>7, <3>8, <3>9
    <3>11. d = c /\ e = c
      BY <2>6, <3>2, <3>10, ReadNames
    <3>12. Raw(c) # FromInt(c)
      BY ReadNames
    <3> QED
      BY <3>10, <3>11, <3>12 DEF ConvReads
  <2>12. CASE \E o, k : BuffReads(x, p, o, k) \/ BuffReads(y, q, o, k)
    <3>1. n.kind \in {"bufIn", "buf"}
      BY <2>7, <2>12
    <3>2. \A d : n # ReadBase(d) /\ n # Raw(d) /\ n # FromInt(d)
      BY <3>1, ReadNames
    <3>3. (\E o, k : BuffReads(x, p, o, k)) /\ (\E o, k : BuffReads(y, q, o, k))
      BY <2>2, <2>3, <2>4, <2>5, <2>6, <3>2
    <3>4. PICK o, k, u, m : BuffReads(x, p, o, k) /\ BuffReads(y, q, u, m)
      BY <3>3
    <3>5. PICK i, j : i = x.at /\ j = y.at
      OBVIOUS
    <3>6. /\ i \in 1..Len(prog) /\ j \in 1..Len(prog)
          /\ o \in DOMAIN prog[i].outs /\ u \in DOMAIN prog[j].outs
          /\ prog[i].t \in FC /\ prog[j].t \in FC
          /\ n = Stage(prog[i].outs[o].chan, k) /\ n = Stage(prog[j].outs[u].chan, m)
          /\ x = StageInst(i, prog[i].outs[o], k) /\ y = StageInst(j, prog[j].outs[u], m)
          /\ k \in 0..Inner(prog[i].outs[o]) /\ m \in 0..Inner(prog[j].outs[u])
          /\ p = 1 /\ q = 1
      BY <3>4, <3>5 DEF BuffReads, BuffAt, BuffOuts, Calcs
    <3>7. k \in Nat /\ m \in Nat
      BY <2>1, <3>6, ElementFacts, InnerType
    <3>8. prog[i].outs[o].chan = prog[j].outs[u].chan
      <4>1. PICK d, e : d = prog[i].outs[o].chan /\ e = prog[j].outs[u].chan
        OBVIOUS
      <4>2. Stage(d, k) = Stage(e, m)
        BY <3>6, <4>1
      <4>3. d = e
        BY <4>2, StageChan
      <4> QED
        BY <4>1, <4>3
    <3>9. prog[i].outs[o].chan # Null
      BY <2>1, <3>6, NullOutputs DEF FC
    <3>10. i = j /\ o = u
      BY <2>1, <3>6, <3>8, <3>9, DrivenOnce
    <3>11. k = m
      <4>1. PICK d : d = prog[i].outs[o].chan
        OBVIOUS
      <4>2. Stage(d, k) = Stage(d, m)
        BY <3>6, <3>8, <4>1
      <4> QED
        BY <3>7, <4>2, StageInjective
    <3> QED
      BY <3>6, <3>10, <3>11
  <2>13. CASE \E c : CopyReads(x, p, c) \/ CopyReads(y, q, c)
    <3>1. PICK c \in Chan : (CopyReads(x, p, c) \/ CopyReads(y, q, c)) /\ n = ReadBase(c) /\ opUses[c] # 0
      BY <2>3, <2>13
    <3>2. opUses[c] > 0
      BY <2>9, <3>1
    <3>3. \A d : UnitReads(x, p, d) \/ UnitReads(y, q, d) => d = c
      BY <2>4, <2>10, <3>1
    <3>4. \A d : SinkReads(x, p, d) \/ SinkReads(y, q, d) => d = c
      BY <2>5, <2>10, <3>1
    <3>5. \A d : CopyReads(x, p, d) \/ CopyReads(y, q, d) => d = c
      BY <2>3, <2>10, <3>1
    <3>6. \A d : ~UnitReads(x, p, d) /\ ~UnitReads(y, q, d)
      BY <2>4, <3>1, <3>3
    <3>7. \A d : ~SinkReads(x, p, d) /\ ~SinkReads(y, q, d)
      BY <2>5, <2>8, <3>2, <3>4
    <3>8. (CopyReads(x, p, c) /\ CopyReads(y, q, c)) \/ (\E d : ConvReads(x, p, d) \/ ConvReads(y, q, d))
          \/ (\E o, k : BuffReads(x, p, o, k) \/ BuffReads(y, q, o, k))
      BY <2>2, <3>5, <3>6, <3>7
    <3>9. CopyReads(x, p, c) /\ CopyReads(y, q, c) => x = y /\ p = q
      BY DEF CopyReads
    <3> QED
      BY <2>11, <2>12, <3>8, <3>9
  <2>14. CASE (\E c : UnitReads(x, p, c) \/ SinkReads(x, p, c)) /\ (\E c : UnitReads(y, q, c) \/ SinkReads(y, q, c))
    <3>1. PICK c, d : (UnitReads(x, p, c) \/ SinkReads(x, p, c)) /\ (UnitReads(y, q, d) \/ SinkReads(y, q, d))
      BY <2>14
    <3>2. c = d
      BY <2>4, <2>5, <2>10, <3>1
    <3>3. PICK i, j : i = x.at /\ j = y.at
      OBVIOUS
    <3>4. /\ i \in 1..Len(prog) /\ j \in 1..Len(prog) /\ c \in Chan
          /\ p \in UsesOf(prog[i], c) /\ q \in UsesOf(prog[j], c)
      BY <3>1, <3>2, <3>3 DEF UnitReads, SinkReads
    <3>5. opUses[c] = 0 \/ UseCount(c) <= 1
      BY <2>4, <2>5, <3>1
    <3>6. i = j /\ p = q
      BY <3>4, <3>5, OneSite
    <3>7. UnitReads(x, p, c) => ~SinkReads(y, q, d)
      BY <3>3, <3>6 DEF UnitReads, SinkReads, UnitShape
    <3>8. UnitReads(y, q, d) => ~SinkReads(x, p, c)
      BY <3>3, <3>6 DEF UnitReads, SinkReads, UnitShape
    <3>9. CASE UnitReads(x, p, c) /\ UnitReads(y, q, d)
      <4>1. /\ x.at = i /\ y.at = i /\ i # 0 /\ UnitShape(x, prog[i]) /\ UnitShape(y, prog[i])
        BY <3>3, <3>4, <3>6, <3>9 DEF UnitReads
      <4>2. /\ x.kind = UnitKind(prog[i]) /\ y.kind = UnitKind(prog[i]) /\ prog[i].t # "sink"
        BY <4>1 DEF UnitShape
      <4> QED
        BY <3>6, <4>1, <4>2 DEF AllInv, TextInv, OneUnit
    <3>10. CASE SinkReads(x, p, c) /\ SinkReads(y, q, d)
      <4>1. x = Inst("sink", i, One(Raw(c)), None) /\ y = Inst("sink", i, One(Raw(c)), None)
        BY <3>2, <3>3, <3>6, <3>10 DEF SinkReads
      <4> QED
        BY <3>6, <4>1
    <3> QED
      BY <3>1, <3>7, <3>8, <3>9, <3>10
  <2> QED
    BY <2>2, <2>11, <2>12, <2>13, <2>14
<1> QED
  BY <1>1, <1>2

-----------------------------------------------------------------------------
(* What an output port with a channel without a number is. *)

CopyWrites(x, p, c) ==
  c \in Chan /\ opUses[c] > 0 /\ x = CopyInst(c) /\ p \in 1..NumOut(c) /\ x.outs[p] = CopyOut(c, p - 1)

ConvWrites(x, p, c) ==
  c \in BoolChan /\ p = 1 /\ \/ x = ToIntInst(c) /\ x.outs[p] = ToInt(c)
                             \/ x = ToBoolInst(c) /\ x.outs[p] = Raw(c)

(* The ports that stand for output o of element i. *)
UnitDrives(x, p, i, o) ==
  /\ UnitShape(x, prog[i]) /\ p = o /\ o \in UnitOuts(prog[i])
  /\ x.outs[p] = OutLink(prog[i], o)

SourceDrives(x, p, i, o) ==
  /\ prog[i].t \in FC /\ o \notin Calcs(prog[i]) /\ p = 1
  /\ x = Inst("source", i, None, One(OutName(prog[i].outs[o].chan)))
  /\ x.outs[p] = OutName(prog[i].outs[o].chan)

BuffDrives(x, p, i, o) ==
  \E k : /\ BuffAt(x, o, k) /\ p = 1
         /\ x.outs[p] = IF k < Inner(prog[i].outs[o]) THEN Stage(prog[i].outs[o].chan, k + 1)
                                                      ELSE OutName(prog[i].outs[o].chan)

Drives(x, p, i, o) ==
  /\ x.at = i /\ i \in 1..Len(prog) /\ o \in DOMAIN prog[i].outs /\ prog[i].outs[o].chan # Null
  /\ UnitDrives(x, p, i, o) \/ SourceDrives(x, p, i, o) \/ BuffDrives(x, p, i, o)

LEMMA OutputRoles ==
  ASSUME AllInv, NEW x \in insts, NEW p \in DOMAIN x.outs, ~NumberedOut(x.outs[p])
  PROVE  \/ \E c : CopyWrites(x, p, c) \/ ConvWrites(x, p, c)
         \/ \E i, o : Drives(x, p, i, o)
<1>1. prog \in Programs /\ Len(prog) \in Nat /\ next \in 1..(Len(prog) + 1)
  BY ProgType DEF AllInv, TypeOK
<1>2. CASE CopyShape(x)
  <2>1. PICK c \in Chan : opUses[c] > 0 /\ x = CopyInst(c)
    BY <1>2 DEF CopyShape
  <2>2. x.outs = [k \in 1..NumOut(c) |-> CopyOut(c, k - 1)]
    BY <2>1, InstFields DEF CopyInst
  <2> QED
    BY <2>1, <2>2 DEF CopyWrites
<1>3. CASE ConvShape(x)
  <2>1. PICK c \in BoolChan : x = ToIntInst(c) \/ x = ToBoolInst(c)
    BY <1>3 DEF ConvShape, ToIntInst, ToBoolInst
  <2>2. /\ DOMAIN ToIntInst(c).outs = {1} /\ ToIntInst(c).outs[1] = ToInt(c)
        /\ DOMAIN ToBoolInst(c).outs = {1} /\ ToBoolInst(c).outs[1] = Raw(c)
    BY InstFields, OnePort DEF ToIntInst, ToBoolInst
  <2> QED
    BY <2>1, <2>2 DEF ConvWrites
<1>4. CASE ElementShape(x)
  <2>1. PICK i : i = x.at
    OBVIOUS
  <2>2. i \in 1..Len(prog)
    BY <1>1, <1>4, <2>1 DEF ElementShape
  <2>3. /\ \A o \in DOMAIN prog[i].outs : prog[i].outs[o] \in Output
        /\ Calcs(prog[i]) \subseteq DOMAIN prog[i].outs
        /\ UnitOuts(prog[i]) \subseteq DOMAIN prog[i].outs
        /\ BuffOuts(prog[i]) \subseteq DOMAIN prog[i].outs
    BY <1>1, <2>2, ElementFacts DEF Calcs, UnitOuts, BuffOuts
  <2>4. ASSUME prog[i].t \in FC, NEW o \in DOMAIN prog[i].outs PROVE prog[i].outs[o].chan # Null
    BY <1>1, <2>2, <2>4, NullOutputs DEF FC
  <2>5. CASE UnitShape(x, prog[i])
    <3>1. p \in UnitOuts(prog[i]) /\ p \in DOMAIN prog[i].outs
      BY <2>3, <2>5 DEF UnitShape
    <3>2. prog[i].outs[p].chan # Null
      <4>1. \A k : NumberedOut(Name(Spare(prog[i]), Null, k))
        BY NameFields DEF NumberedOut, Spare
      <4> QED
        BY <2>5, <3>1, <4>1 DEF UnitShape
    <3>3. x.outs[p] = OutLink(prog[i], p)
      BY <2>5, <3>1, <3>2 DEF UnitShape
    <3>4. UnitDrives(x, p, i, p)
      BY <2>5, <3>1, <3>3 DEF UnitDrives
    <3>5. Drives(x, p, i, p)
      BY <2>1, <2>2, <3>1, <3>2, <3>4, Zenon DEF Drives
    <3> QED
      BY <3>5
  <2>6. CASE SourceShape(x, prog[i])
    <3>1. PICK o \in DOMAIN prog[i].outs \ Calcs(prog[i]) :
                 prog[i].t \in FC /\ x = Inst("source", i, None, One(OutName(prog[i].outs[o].chan)))
      BY <2>1, <2>6 DEF SourceShape
    <3>2. p = 1 /\ x.outs[1] = OutName(prog[i].outs[o].chan)
      BY <3>1, InstFields, OnePort
    <3>3. SourceDrives(x, p, i, o)
      BY <3>1, <3>2 DEF SourceDrives
    <3>4. Drives(x, p, i, o)
      BY <2>1, <2>2, <2>4, <3>1, <3>3, Zenon DEF Drives
    <3> QED
      BY <3>4
  <2>7. CASE BuffShape(x, prog[i])
    <3>1. PICK o \in BuffOuts(prog[i]) : prog[i].t \in FC /\ x \in BuffChain(i, prog[i].outs[o])
      BY <2>1, <2>7 DEF BuffShape
    <3>2. prog[i].outs[o] \in Output /\ o \in DOMAIN prog[i].outs
      BY <2>3, <3>1
    <3>3. PICK k \in 0..Inner(prog[i].outs[o]) : x = StageInst(i, prog[i].outs[o], k)
      BY <3>1, <3>2, ChainStage
    <3>4. /\ p = 1
          /\ x.outs[p] = IF k < Inner(prog[i].outs[o]) THEN Stage(prog[i].outs[o].chan, k + 1)
                                                       ELSE OutName(prog[i].outs[o].chan)
      BY <3>3, StageFields
    <3>5. BuffAt(x, o, k)
      BY <2>1, <2>2, <3>1, <3>3 DEF BuffAt
    <3>6. BuffDrives(x, p, i, o)
      BY <3>4, <3>5, Zenon DEF BuffDrives
    <3>7. Drives(x, p, i, o)
      BY <2>1, <2>2, <2>4, <3>1, <3>2, <3>6, Zenon DEF Drives
    <3> QED
      BY <3>7
  <2>8. CASE SinkShape(x, prog[i])
    <3>1. PICK n : x = Inst("sink", x.at, One(n), None)
      BY <2>8 DEF SinkShape
    <3>2. DOMAIN x.outs = {}
      BY <3>1, InstFields, OnePort
    <3> QED
      BY <3>2
  <2> QED
    BY <1>4, <2>1, <2>5, <2>6, <2>7, <2>8 DEF ElementShape
<1> QED
  BY <1>2, <1>3, <1>4 DEF AllInv, TextInv, Shapes

(* Two ports that stand for one output and have one channel are one port. *)
LEMMA OneDriver ==
  ASSUME AllInv, NEW i, NEW o, NEW x \in insts, NEW p, NEW y \in insts, NEW q,
         Drives(x, p, i, o), Drives(y, q, i, o), x.outs[p] = y.outs[q]
  PROVE  x = y /\ p = q
<1>1. PICK e, c : e = prog[i] /\ c = e.outs[o].chan
  OBVIOUS
<1>2. /\ x.at = i /\ y.at = i /\ i \in 1..Len(prog) /\ o \in DOMAIN e.outs /\ e.outs[o] \in Output
      /\ Len(prog) \in Nat
  BY <1>1, ElementFacts, ProgType DEF Drives, AllInv, TypeOK
<1>3. Inner(e.outs[o]) \in Nat
  BY <1>2, InnerType
<1>4. CASE UnitDrives(x, p, i, o) /\ UnitDrives(y, q, i, o)
  <2>1. /\ UnitShape(x, e) /\ UnitShape(y, e) /\ p = q
    BY <1>1, <1>4 DEF UnitDrives
  <2>2. x.kind = UnitKind(e) /\ y.kind = UnitKind(e) /\ e.t # "sink"
    BY <2>1 DEF UnitShape
  <2> QED
    BY <1>1, <1>2, <2>1, <2>2 DEF AllInv, TextInv, OneUnit
<1>5. CASE SourceDrives(x, p, i, o) /\ SourceDrives(y, q, i, o)
  BY <1>5 DEF SourceDrives
<1>6. CASE BuffDrives(x, p, i, o) /\ BuffDrives(y, q, i, o)
  <2>1. PICK k : /\ BuffAt(x, o, k) /\ p = 1
                 /\ x.outs[p] = IF k < Inner(e.outs[o]) THEN Stage(c, k + 1) ELSE OutName(c)
    BY <1>1, <1>6 DEF BuffDrives
  <2>2. PICK m : /\ BuffAt(y, o, m) /\ q = 1
                 /\ y.outs[q] = IF m < Inner(e.outs[o]) THEN Stage(c, m + 1) ELSE OutName(c)
    BY <1>1, <1>6 DEF BuffDrives
  <2>3. /\ k \in 0..Inner(e.outs[o]) /\ m \in 0..Inner(e.outs[o])
        /\ x = StageInst(i, e.outs[o], k) /\ y = StageInst(i, e.outs[o], m)
    BY <1>1, <1>2, <2>1, <2>2 DEF BuffAt
  <2>4. \A l : Stage(c, l) # OutName(c)
    <3>1. OutName(c).kind \in {"raw", "fromint"} /\ \A l : Stage(c, l).kind \in {"bufIn", "buf"}
      BY NameKinds
    <3> QED
      BY <3>1
  <2>5. k < Inner(e.outs[o]) <=> m < Inner(e.outs[o])
    BY <2>1, <2>2, <2>4
  <2>6. CASE k < Inner(e.outs[o])
    <3>1. Stage(c, k + 1) = Stage(c, m + 1)
      BY <2>1, <2>2, <2>5, <2>6
    <3>2. k + 1 = m + 1
      BY <1>3, <2>3, <3>1, StageInjective
    <3> QED
      BY <1>3, <2>1, <2>2, <2>3, <3>2
  <2>7. CASE ~(k < Inner(e.outs[o]))
    BY <1>3, <2>1, <2>2, <2>3, <2>5, <2>7
  <2> QED
    BY <2>6, <2>7
<1>7. ASSUME NEW z, NEW r, UnitDrives(z, r, i, o), e.t \in FC
      PROVE  /\ o \in Calcs(e)
             /\ o \in BuffOuts(e) => z.outs[r].kind = "bufIn"
  BY <1>1, <1>7, NameKinds DEF UnitDrives, UnitOuts, OutLink
<1>8. ASSUME NEW z, NEW r, SourceDrives(z, r, i, o)
      PROVE  e.t \in FC /\ o \notin Calcs(e)
  BY <1>1, <1>8 DEF SourceDrives
<1>9. ASSUME NEW z, NEW r, z.at = i, BuffDrives(z, r, i, o)
      PROVE  e.t \in FC /\ o \in BuffOuts(e) /\ o \in Calcs(e) /\ z.outs[r].kind # "bufIn"
  <2>1. PICK k : /\ BuffAt(z, o, k)
                 /\ z.outs[r] = IF k < Inner(e.outs[o]) THEN Stage(c, k + 1) ELSE OutName(c)
    BY <1>1, <1>9 DEF BuffDrives
  <2>2. e.t \in FC /\ o \in BuffOuts(e) /\ k \in 0..Inner(e.outs[o])
    BY <1>1, <1>9, <2>1 DEF BuffAt
  <2>3. \A l \in Nat : Stage(c, l + 1).kind = "buf"
    BY NameFields DEF Stage, BufName
  <2>4. OutName(c).kind \in {"raw", "fromint"}
    BY NameKinds
  <2> QED
    BY <1>3, <2>1, <2>2, <2>3, <2>4 DEF BuffOuts
<1> QED
  BY <1>2, <1>4, <1>5, <1>6, <1>7, <1>8, <1>9 DEF Drives

(* A port that stands for an output has a channel of that output; it is the *)
(* channel itself, for a bool channel, at the control output of a mixer.    *)
LEMMA DriverName ==
  ASSUME AllInv, NEW i, NEW o, NEW x, NEW p, Drives(x, p, i, o)
  PROVE  /\ x.outs[p].chan = prog[i].outs[o].chan
         /\ x.outs[p].kind \in {"raw", "fromint", "bufIn", "buf"}
         /\ x.outs[p].kind = "raw" /\ x.outs[p].chan \in BoolChan => BoolCtrl(x.outs[p].chan)
<1>1. PICK e, c : e = prog[i] /\ c = e.outs[o].chan
  OBVIOUS
<1>2. i \in DOMAIN prog
  BY ProgType DEF Drives, AllInv, TypeOK
<1>3. /\ OutName(c).chan = c /\ OutName(c).kind \in {"raw", "fromint"}
      /\ c \in BoolChan => OutName(c).kind = "fromint"
      /\ \A l : Stage(c, l).chan = c /\ Stage(c, l).kind \in {"bufIn", "buf"}
      /\ BufIn(c).chan = c /\ BufIn(c).kind = "bufIn"
      /\ Raw(c).chan = c /\ Raw(c).kind = "raw"
  BY NameKinds, ReadNames
<1>4. CASE UnitDrives(x, p, i, o)
  <2>1. x.outs[p] = OutLink(e, o)
    BY <1>1, <1>4 DEF UnitDrives
  <2>2. CASE e.t \in {"mixer", "arbiter"} /\ o = 2
    <3>1. c \in BoolChan => BoolCtrl(c)
      BY <1>1, <1>2, <2>2 DEF BoolCtrl
    <3>2. x.outs[p] = Raw(c)
      BY <1>1, <2>1, <2>2 DEF OutLink, FC
    <3> QED
      BY <1>1, <1>3, <3>1, <3>2
  <2>3. CASE ~(e.t \in {"mixer", "arbiter"} /\ o = 2)
    <3>1. x.outs[p] = BufIn(c) \/ x.outs[p] = OutName(c)
      BY <1>1, <2>1, <2>3 DEF OutLink
    <3> QED
      BY <1>1, <1>3, <3>1
  <2> QED
    BY <2>2, <2>3
<1>5. CASE SourceDrives(x, p, i, o)
  BY <1>1, <1>3, <1>5 DEF SourceDrives
<1>6. CASE BuffDrives(x, p, i, o)
  <2>1. PICK k : x.outs[p] = IF k < Inner(prog[i].outs[o]) THEN Stage(prog[i].outs[o].chan, k + 1)
                                                           ELSE OutName(prog[i].outs[o].chan)
    BY <1>6, Zenon DEF BuffDrives
  <2>2. x.outs[p] = OutName(c) \/ x.outs[p] = Stage(c, k + 1)
    BY <1>1, <2>1
  <2> QED
    BY <1>1, <1>3, <2>2
<1>7. UnitDrives(x, p, i, o) \/ SourceDrives(x, p, i, o) \/ BuffDrives(x, p, i, o)
  BY Zenon DEF Drives
<1> QED
  BY <1>4, <1>5, <1>6, <1>7, Zenon

(* Two ports that write one channel are one port. *)
LEMMA OneWriter ==
  ASSUME AllInv, NEW x \in insts, NEW p \in DOMAIN x.outs,
         NEW y \in insts, NEW q \in DOMAIN y.outs, NEW n, x.outs[p] = n, y.outs[q] = n,
         n.chan # Null => ~Bypassed(n.chan)
  PROVE  x = y /\ p = q
<1>1. CASE NumberedOut(n)
  BY <1>1 DEF AllInv, TextInv, NumbersOnceOut
<1>2. CASE ~NumberedOut(n)
  <2>1. /\ (\E c : CopyWrites(x, p, c) \/ ConvWrites(x, p, c)) \/ (\E i, o : Drives(x, p, i, o))
        /\ (\E c : CopyWrites(y, q, c) \/ ConvWrites(y, q, c)) \/ (\E i, o : Drives(y, q, i, o))
    BY <1>2, OutputRoles
  <2>2. \A c : CopyWrites(x, p, c) => n.kind = "copyout" /\ n.chan = c /\ n.idx = p - 1 /\ p \in Int
    BY NameFields DEF CopyWrites, CopyOut
  <2>3. \A c : CopyWrites(y, q, c) => n.kind = "copyout" /\ n.chan = c /\ n.idx = q - 1 /\ q \in Int
    BY NameFields DEF CopyWrites, CopyOut
  <2>4. \A c : ConvWrites(x, p, c) \/ ConvWrites(y, q, c) =>
                  c \in BoolChan /\ n.chan = c /\ n.kind \in {"raw", "toint"}
    BY ReadNames DEF ConvWrites
  <2>5. \A i, o : Drives(x, p, i, o) \/ Drives(y, q, i, o) =>
                  /\ n.chan = prog[i].outs[o].chan
                  /\ n.kind \in {"raw", "fromint", "bufIn", "buf"}
                  /\ n.kind = "raw" => n.chan \notin BoolChan
    <3> SUFFICES ASSUME NEW i, NEW o, Drives(x, p, i, o) \/ Drives(y, q, i, o)
                 PROVE  /\ n.chan = prog[i].outs[o].chan
                        /\ n.kind \in {"raw", "fromint", "bufIn", "buf"}
                        /\ n.kind = "raw" => n.chan \notin BoolChan
      OBVIOUS
    <3>1. /\ n.chan = prog[i].outs[o].chan
          /\ n.kind \in {"raw", "fromint", "bufIn", "buf"}
          /\ n.kind = "raw" /\ n.chan \in BoolChan => BoolCtrl(n.chan)
      BY DriverName
    <3>2. n.chan \in BoolChan => ~BoolCtrl(n.chan)
      BY BoolAssumption, NullAssumption DEF Bypassed
    <3> QED
      BY <3>1, <3>2
  <2>6. CASE \E c : CopyWrites(x, p, c) \/ CopyWrites(y, q, c)
    <3>1. n.kind = "copyout"
      BY <2>2, <2>3, <2>6
    <3>2. PICK c, d : CopyWrites(x, p, c) /\ CopyWrites(y, q, d)
      BY <2>1, <2>4, <2>5, <3>1
    <3>3. c = d /\ p - 1 = q - 1 /\ p \in Int /\ q \in Int
      BY <2>2, <2>3, <3>2
    <3> QED
      BY <3>2, <3>3 DEF CopyWrites
  <2>7. CASE \E c : ConvWrites(x, p, c) \/ ConvWrites(y, q, c)
    <3>1. n.chan \in BoolChan /\ n.kind \in {"raw", "toint"}
      BY <2>4, <2>7
    <3>2. PICK c, d : ConvWrites(x, p, c) /\ ConvWrites(y, q, d)
      BY <2>1, <2>2, <2>3, <2>5, <3>1
    <3>3. c = d
      BY <2>4, <3>2
    <3>4. ToInt(c) # Raw(c)
      BY ReadNames
    <3> QED
      BY <3>2, <3>3, <3>4 DEF ConvWrites
  <2>8. CASE (\E i, o : Drives(x, p, i, o)) /\ (\E i, o : Drives(y, q, i, o))
    <3>1. PICK i, o, j, u : Drives(x, p, i, o) /\ Drives(y, q, j, u)
      BY <2>8
    <3>2. prog[i].outs[o].chan = prog[j].outs[u].chan
      BY <2>5, <3>1
    <3>3. /\ prog \in Programs
          /\ i \in 1..Len(prog) /\ o \in DOMAIN prog[i].outs /\ prog[i].outs[o].chan # Null
          /\ j \in 1..Len(prog) /\ u \in DOMAIN prog[j].outs
      BY <3>1 DEF Drives, AllInv, TypeOK
    <3>4. i = j /\ o = u
      BY <3>2, <3>3, DrivenOnce
    <3> QED
      BY <3>1, <3>4, OneDriver
  <2> QED
    BY <2>1, <2>6, <2>7, <2>8
<1> QED
  BY <1>1, <1>2

(* A channel of CHP is point to point: whatever the program, at every moment *)
(* of the translation no channel of the text is read by two ports, nor       *)
(* written by two: PointToPoint of ProcGenerator.                            *)
THEOREM PointToPointTheorem == Spec => []PointToPoint
<1>1. AllInv => PointToPoint
  <2> SUFFICES ASSUME AllInv, NEW n, n.chan # Null => ~Bypassed(n.chan)
               PROVE  Cardinality(Readers(n)) <= 1 /\ Cardinality(Writers(n)) <= 1
    BY DEF PointToPoint
  <2>1. \A r, s \in Readers(n) : r = s
    BY PortFacts, OneReader
  <2>2. \A w, v \in Writers(n) : w = v
    BY PortFacts, OneWriter
  <2> QED
    BY <2>1, <2>2, AtMostOne
<1> QED
  BY <1>1, TextTheorem, PTL

(* A bool channel meets only converters: BoolsConverted of ProcGenerator. *)
THEOREM BoolsConvertedTheorem == Spec => []BoolsConverted
<1>1. AllInv => BoolsConverted
  <2> SUFFICES ASSUME AllInv, NEW x \in insts, x.kind \notin {"bool_to_int", "int_to_bool"},
                      NEW n \in PortNames(x), n.kind = "raw", n.chan \in BoolChan
               PROVE  Bypassed(n.chan)
    BY DEF BoolsConverted
  <2>1. \A c : ToIntInst(c).kind = "bool_to_int" /\ ToBoolInst(c).kind = "int_to_bool"
    BY InstFields DEF ToIntInst, ToBoolInst
  <2>2. ~NumberedIn(n) /\ ~NumberedOut(n)
    BY DEF NumberedIn, NumberedOut
  <2>3. ASSUME NEW p \in DOMAIN x.ins, n = x.ins[p] PROVE Bypassed(n.chan)
    <3>1. \/ \E c : CopyReads(x, p, c) \/ ConvReads(x, p, c) \/ UnitReads(x, p, c) \/ SinkReads(x, p, c)
          \/ \E o, k : BuffReads(x, p, o, k)
      BY <2>2, <2>3, InputRoles
    <3>2. \A c : ~CopyReads(x, p, c) /\ ~UnitReads(x, p, c)
      BY <2>3, ReadNames DEF CopyReads, UnitReads
    <3>3. \A c : ~ConvReads(x, p, c)
      BY <2>1 DEF ConvReads
    <3>4. \A o, k : ~BuffReads(x, p, o, k)
      <4>1. \A d, k : Stage(d, k).kind # "raw"
        BY NameKinds
      <4> QED
        BY <2>3, <4>1 DEF BuffReads
    <3>5. PICK c : SinkReads(x, p, c)
      BY <3>1, <3>2, <3>3, <3>4
    <3>6. n.chan = c
      BY <2>3, <3>5, ReadNames DEF SinkReads
    <3>7. Sunk(c)
      BY <3>5, ProgType DEF SinkReads, Sunk, UsesOf, AllInv, TypeOK
    <3> QED
      BY <3>6, <3>7 DEF Bypassed
  <2>4. ASSUME NEW p \in DOMAIN x.outs, n = x.outs[p] PROVE Bypassed(n.chan)
    <3>1. \/ \E c : CopyWrites(x, p, c) \/ ConvWrites(x, p, c)
          \/ \E i, o : Drives(x, p, i, o)
      BY <2>2, <2>4, OutputRoles
    <3>2. \A c : ~CopyWrites(x, p, c)
      BY <2>4, NameFields DEF CopyWrites, CopyOut
    <3>3. \A c : ~ConvWrites(x, p, c)
      BY <2>1 DEF ConvWrites
    <3>4. PICK i, o : Drives(x, p, i, o)
      BY <3>1, <3>2, <3>3
    <3> QED
      BY <2>4, <3>4, DriverName DEF Bypassed
  <2> QED
    BY <2>3, <2>4 DEF PortNames
<1> QED
  BY <1>1, TextTheorem, PTL

-----------------------------------------------------------------------------
(* Declarations. The names declared so far are the int twins of the flagged *)
(* channels, the links of the buffers of the elements passed, and the       *)
(* numbered channels given out; so a name declared by a step is a new one.  *)

Passed == IF pc \in {"collect", "copies"} THEN 0 ELSE next - 1

Known(n) ==
  \/ \E c \in BoolChan : n = ToInt(c) /\ "to" \in boolFlags[c]
  \/ \E c \in BoolChan : n = FromInt(c) /\ "from" \in boolFlags[c]
  \/ \E i \in 1..Passed : \E o \in BuffOuts(prog[i]), k \in Nat :
       prog[i].t \in FC /\ n = Stage(prog[i].outs[o].chan, k)
  \/ NumberedOut(n) /\ Issued(n)

Declared(n) == \E d \in decls : d.name = n

FlagsDeclared ==
  \A c \in BoolChan : /\ "to" \in boolFlags[c] => Declared(ToInt(c))
                      /\ "from" \in boolFlags[c] => Declared(FromInt(c))

InScope(n) ==
  \/ n.kind = "raw"
  \/ n.kind = "copyout" /\ \E x \in insts : x.kind = "copy" /\ n \in {x.outs[k] : k \in DOMAIN x.outs}
  \/ Declared(n)

ScopeInv ==
  /\ \A d \in decls : Known(d.name)
  /\ \A d1, d2 \in decls : d1.name = d2.name => d1 = d2
  /\ FlagsDeclared
  /\ \A x \in insts : \A n \in PortNames(x) : InScope(n)

LEMMA ScopeMeans == ScopeInv => WellScoped
BY DEF ScopeInv, WellScoped, InScope, Declared, EmittedNames

(* A step that declares names not known before, and writes instances whose  *)
(* channels are in scope.                                                   *)
LEMMA AddScope ==
  ASSUME ScopeInv, NEW I, NEW D, insts' = insts \cup I, decls' = decls \cup D,
         \A n : Known(n) => Known(n)',
         \A d \in D : ~Known(d.name),
         \A d \in D : \A n : n = d.name => Known(n)',
         \A d1, d2 \in D : d1.name = d2.name => d1 = d2,
         FlagsDeclared',
         \A x \in I : \A n \in PortNames(x) : InScope(n)'
  PROVE  ScopeInv'
<1>1. \A d \in decls' : Known(d.name)'
  BY DEF ScopeInv
<1>2. \A d1, d2 \in decls' : d1.name = d2.name => d1 = d2
  BY DEF ScopeInv
<1>3. ASSUME NEW n, InScope(n) PROVE InScope(n)'
  BY <1>3 DEF InScope, Declared
<1>4. \A x \in insts' : \A n \in PortNames(x) : InScope(n)'
  BY <1>3 DEF ScopeInv
<1> QED
  BY <1>1, <1>2, <1>4 DEF ScopeInv

(* What a flag says and what declares an int twin go together. *)
LEMMA FlaggedMeans ==
  ASSUME NEW A, NEW B, NEW c \in BoolChan
  PROVE  /\ "to" \in Flagged(A, B)[c] <=> "to" \in boolFlags[c] \/ c \in A
         /\ "from" \in Flagged(A, B)[c] <=> "from" \in boolFlags[c] \/ c \in B
BY DEF Flagged

LEMMA DeclFields == \A n, a : Decl(n, a).name = n /\ Decl(n, a).at = a
BY DEF Decl

LEMMA TwinsApart ==
  \A c, d : /\ ToInt(c) = ToInt(d) => c = d
            /\ FromInt(c) = FromInt(d) => c = d
            /\ ToInt(c) # FromInt(d)
            /\ \A k : Stage(d, k) # ToInt(c) /\ Stage(d, k) # FromInt(c)
            /\ ~NumberedOut(ToInt(c)) /\ ~NumberedOut(FromInt(c))
            /\ \A k : ~NumberedOut(Stage(c, k))
<1>1. \A c : /\ ToInt(c).kind = "toint" /\ ToInt(c).chan = c
             /\ FromInt(c).kind = "fromint" /\ FromInt(c).chan = c
  BY ReadNames
<1>2. \A c, k : Stage(c, k).kind \in {"bufIn", "buf"}
  BY NameFields DEF Stage, BufIn, BufName
<1> QED
  BY <1>1, <1>2 DEF NumberedOut

(* The twins of channels of C that have none yet are new, and known after. *)
LEMMA NewTwins ==
  ASSUME NEW A, NEW B, boolFlags' = Flagged(A, B), NEW c
  PROVE  /\ c \in Undeclared(A, "to") => ~Known(ToInt(c)) /\ \A n : n = ToInt(c) => Known(n)'
         /\ c \in Undeclared(B, "from") => ~Known(FromInt(c)) /\ \A n : n = FromInt(c) => Known(n)'
<1>1. ASSUME c \in Undeclared(A, "to")
      PROVE  ~Known(ToInt(c)) /\ \A n : n = ToInt(c) => Known(n)'
  <2>1. c \in BoolChan /\ "to" \notin boolFlags[c] /\ c \in A
    BY <1>1 DEF Undeclared
  <2>2. ~Known(ToInt(c))
    BY <2>1, TwinsApart DEF Known
  <2>3. "to" \in boolFlags'[c]
    BY <2>1, FlaggedMeans
  <2>4. \A n : n = ToInt(c) => Known(n)'
    BY <2>1, <2>3 DEF Known
  <2> QED
    BY <2>2, <2>4
<1>2. ASSUME c \in Undeclared(B, "from")
      PROVE  ~Known(FromInt(c)) /\ \A n : n = FromInt(c) => Known(n)'
  <2>1. c \in BoolChan /\ "from" \notin boolFlags[c] /\ c \in B
    BY <1>2 DEF Undeclared
  <2>2. ~Known(FromInt(c))
    BY <2>1, TwinsApart DEF Known
  <2>3. "from" \in boolFlags'[c]
    BY <2>1, FlaggedMeans
  <2>4. \A n : n = FromInt(c) => Known(n)'
    BY <2>1, <2>3 DEF Known
  <2> QED
    BY <2>2, <2>4
<1> QED
  BY <1>1, <1>2

(* A flag that a step sets comes with the declaration of the twin. *)
LEMMA FlagsStay ==
  ASSUME FlagsDeclared, NEW A, NEW B, boolFlags' = Flagged(A, B),
         NEW D, decls' = decls \cup D, NEW a,
         \A c \in Undeclared(A, "to") : Decl(ToInt(c), a) \in D,
         \A c \in Undeclared(B, "from") : Decl(FromInt(c), a) \in D
  PROVE  FlagsDeclared'
<1>1. \A n : Declared(n) => Declared(n)'
  BY DEF Declared
<1>2. ASSUME NEW c \in BoolChan, "to" \in boolFlags'[c] PROVE Declared(ToInt(c))'
  <2>1. CASE "to" \in boolFlags[c]
    BY <1>1, <2>1 DEF FlagsDeclared
  <2>2. CASE "to" \notin boolFlags[c]
    <3>1. c \in Undeclared(A, "to")
      BY <1>2, <2>2, FlaggedMeans DEF Undeclared
    <3>2. Decl(ToInt(c), a) \in decls' /\ Decl(ToInt(c), a).name = ToInt(c)
      BY <3>1, DeclFields
    <3> QED
      BY <3>2 DEF Declared
  <2> QED
    BY <2>1, <2>2
<1>3. ASSUME NEW c \in BoolChan, "from" \in boolFlags'[c] PROVE Declared(FromInt(c))'
  <2>1. CASE "from" \in boolFlags[c]
    BY <1>1, <2>1 DEF FlagsDeclared
  <2>2. CASE "from" \notin boolFlags[c]
    <3>1. c \in Undeclared(B, "from")
      BY <1>3, <2>2, FlaggedMeans DEF Undeclared
    <3>2. Decl(FromInt(c), a) \in decls' /\ Decl(FromInt(c), a).name = FromInt(c)
      BY <3>1, DeclFields
    <3> QED
      BY <3>2 DEF Declared
  <2> QED
    BY <2>1, <2>2
<1> QED
  BY <1>2, <1>3 DEF FlagsDeclared

(* The copy output of an operand is one of a copy already written. *)
LEMMA OperandCopied ==
  ASSUME AllInv, pc = "emit", next <= Len(prog), NEW e, e = prog[next],
         NEW p \in NamedPorts(e), NEW n, n = OperandName(e, p)
  PROVE  \/ n.kind = "raw"
         \/ \E c \in BoolChan : c \in OperandChans(e) /\ n = ToInt(c)
         \/ n.kind = "copyout" /\ \E x \in insts : x.kind = "copy" /\ n \in {x.outs[k] : k \in DOMAIN x.outs}
<1>1. e.t # "sink" /\ p \in UsePorts(e)
  BY DEF NamedPorts
<1>2. PICK c : c = e.reads[p]
  OBVIOUS
<1>3. c \in OperandChans(e)
  BY <1>2 DEF OperandChans
<1>4. PICK j : j = CopyIndex(e, p)
  OBVIOUS
<1>5. c \in Chan /\ opUses[c] \in Nat /\ j \in Nat /\ (opUses[c] > 0 => j <= opUses[c])
  BY <1>1, <1>2, <1>4, OperandIndex DEF AllInv
<1>6. n = IF opUses[c] = 0 THEN ReadBase(c) ELSE CopyOut(c, j)
  BY <1>2, <1>4, Zenon DEF OperandName
<1>7. CASE opUses[c] = 0
  <2>1. n = IF c \in BoolChan THEN ToInt(c) ELSE Raw(c)
    BY <1>6, <1>7, ReadNames
  <2> QED
    BY <1>3, <2>1, ReadNames
<1>8. CASE opUses[c] # 0
  <2>1. opUses[c] > 0 /\ j + 1 \in 1..NumOut(c) /\ (j + 1) - 1 = j
    BY <1>5, <1>8 DEF NumOut
  <2>2. CopyInst(c) \in insts
    BY <1>5, <2>1 DEF AllInv, CopyText, Copied, Copies
  <2>3. CopyInst(c).kind = "copy" /\ CopyInst(c).outs = [k \in 1..NumOut(c) |-> CopyOut(c, k - 1)]
    BY InstFields DEF CopyInst
  <2>4. j + 1 \in DOMAIN CopyInst(c).outs /\ CopyInst(c).outs[j + 1] = CopyOut(c, j)
    BY <2>1, <2>3
  <2>5. n = CopyOut(c, j) /\ n.kind = "copyout"
    BY <1>6, <1>8, NameFields DEF CopyOut
  <2> QED
    BY <2>2, <2>3, <2>4, <2>5
<1> QED
  BY <1>7, <1>8

(* What a handler writes for e: the instances I, the outputs W that go       *)
(* through fixboolchan_outname, the channels N of its own, which are new.    *)
(* An operand that is named is read, an output that is declared is driven,   *)
(* and both ends of the channels N are there.                                *)
Writes(e, W, I, N) ==
  /\ pc = "emit" /\ next <= Len(prog) /\ Write(e, W, I, N)
  /\ sinkCnt' \in Nat /\ sinkCnt <= sinkCnt' /\ anonNames' \in Nat /\ anonNames <= anonNames'
  /\ \A n \in N : ~Known(n) /\ Known(n)'
  /\ \A x \in I : \A n \in PortNames(x) :
       \/ n.kind = "raw" \/ n \in N
       \/ \E p \in NamedPorts(e) : n = OperandName(e, p)
       \/ \E c \in W : n = OutName(c)

BothEnds(e, W, I, N) ==
  /\ NamedPorts(e) # {} => \E u \in I : u.ins = OperandNames(e)
  /\ \A c \in W : \E x \in I : \E p \in DOMAIN x.outs : x.outs[p] = OutName(c)
  /\ \A n \in N : /\ \E x \in I : \E p \in DOMAIN x.ins : x.ins[p] = n
                  /\ \E x \in I : \E p \in DOMAIN x.outs : x.outs[p] = n
  /\ e.t \in FC => \A o \in BuffOuts(e) : BuffChain(next, e.outs[o]) \subseteq I

LEMMA WriteScope ==
  ASSUME ScopeInv, AllInv, NEW e, e = prog[next], NEW W, NEW I, NEW N, Writes(e, W, I, N)
  PROVE  ScopeInv'
<1> USE DEF Writes
<1> DEFINE T == {Decl(ToInt(c), next) : c \in Undeclared(OperandChans(e), "to")}
           F == {Decl(FromInt(c), next) : c \in Undeclared(W, "from")}
           D == {Decl(n, next) : n \in N} \cup T \cup F
<1>1. /\ insts' = insts \cup I /\ decls' = decls \cup D
      /\ boolFlags' = Flagged(OperandChans(e), W)
      /\ UNCHANGED <<prog, pc>> /\ next' = next + 1
      /\ next \in Nat /\ sinkCnt \in Nat /\ anonNames \in Nat
  BY ProgType DEF Write, AllInv, TypeOK
<1>2. ASSUME NEW d \in D
      PROVE  /\ d = Decl(d.name, next)
             /\ \/ d.name \in N
                \/ \E c \in Undeclared(OperandChans(e), "to") : d.name = ToInt(c)
                \/ \E c \in Undeclared(W, "from") : d.name = FromInt(c)
  BY DeclFields
<1>3. /\ \A n \in N : Decl(n, next) \in D
      /\ \A c \in Undeclared(OperandChans(e), "to") : Decl(ToInt(c), next) \in D
      /\ \A c \in Undeclared(W, "from") : Decl(FromInt(c), next) \in D
  OBVIOUS
<1> HIDE DEF D, T, F
<1>4. ASSUME NEW n, Known(n) PROVE Known(n)'
  <2>1. CASE \E c \in BoolChan : n = ToInt(c) /\ "to" \in boolFlags[c]
    BY <1>1, <2>1, FlaggedMeans DEF Known
  <2>2. CASE \E c \in BoolChan : n = FromInt(c) /\ "from" \in boolFlags[c]
    BY <1>1, <2>2, FlaggedMeans DEF Known
  <2>3. CASE \E i \in 1..Passed : \E o \in BuffOuts(prog[i]), k \in Nat :
               prog[i].t \in FC /\ n = Stage(prog[i].outs[o].chan, k)
    <3>1. Passed = next - 1 /\ Passed' = next
      BY <1>1 DEF Passed
    <3>2. \A i \in 1..Passed : i \in 1..Passed' /\ prog[i]' = prog[i]
      BY <1>1, <3>1
    <3> QED
      BY <2>3, <3>2 DEF Known
  <2>4. CASE NumberedOut(n) /\ Issued(n)
    <3>1. Issued(n)'
      BY <1>1, <2>4 DEF Issued, NumberedOut
    <3> QED
      BY <2>4, <3>1 DEF Known
  <2> QED
    BY <1>4, <2>1, <2>2, <2>3, <2>4 DEF Known
<1>5. \A d \in D : ~Known(d.name) /\ \A n : n = d.name => Known(n)'
  <2> SUFFICES ASSUME NEW d \in D PROVE ~Known(d.name) /\ \A n : n = d.name => Known(n)'
    OBVIOUS
  <2>1. CASE d.name \in N
    BY <2>1
  <2>2. ASSUME NEW c \in Undeclared(OperandChans(e), "to"), d.name = ToInt(c)
        PROVE  ~Known(d.name) /\ \A n : n = d.name => Known(n)'
    BY <1>1, <2>2, NewTwins
  <2>3. ASSUME NEW c \in Undeclared(W, "from"), d.name = FromInt(c)
        PROVE  ~Known(d.name) /\ \A n : n = d.name => Known(n)'
    BY <1>1, <2>3, NewTwins
  <2> QED
    BY <1>2, <2>1, <2>2, <2>3
<1>6. \A d1, d2 \in D : d1.name = d2.name => d1 = d2
  BY <1>2
<1>9. FlagsDeclared'
  BY <1>1, <1>3, FlagsStay DEF ScopeInv
<1>8. ASSUME NEW c \in BoolChan
      PROVE  /\ "to" \in boolFlags'[c] => Declared(ToInt(c))'
             /\ "from" \in boolFlags'[c] => Declared(FromInt(c))'
  BY <1>9 DEF FlagsDeclared, ToInt, FromInt, Name
<1>10. \A n \in N : Declared(n)'
  BY <1>1, <1>3, DeclFields DEF Declared
<1>11. ASSUME NEW c \in W PROVE OutName(c).kind = "raw" \/ Declared(OutName(c))'
  <2>1. CASE c \in BoolChan
    <3>1. OutName(c) = FromInt(c) /\ "from" \in boolFlags'[c]
      BY <1>1, <2>1, FlaggedMeans, ReadNames
    <3> QED
      BY <1>8, <2>1, <3>1
  <2>2. CASE c \notin BoolChan
    BY <2>2, ReadNames
  <2> QED
    BY <2>1, <2>2
<1>12. ASSUME NEW p \in NamedPorts(e), NEW n, n = OperandName(e, p) PROVE InScope(n)'
  <2>1. CASE n.kind = "raw"
    BY <2>1 DEF InScope
  <2>2. CASE \E c \in BoolChan : c \in OperandChans(e) /\ n = ToInt(c)
    <3>1. PICK c \in BoolChan : c \in OperandChans(e) /\ n = ToInt(c)
      BY <2>2
    <3>2. "to" \in boolFlags'[c]
      BY <1>1, <3>1, FlaggedMeans
    <3> QED
      BY <1>8, <3>1, <3>2 DEF InScope
  <2>3. CASE n.kind = "copyout" /\ \E x \in insts : x.kind = "copy" /\ n \in {x.outs[k] : k \in DOMAIN x.outs}
    BY <1>1, <2>3 DEF InScope
  <2> QED
    BY <1>12, <2>1, <2>2, <2>3, OperandCopied
<1>13. \A x \in I : \A n \in PortNames(x) : InScope(n)'
  <2> SUFFICES ASSUME NEW x \in I, NEW n \in PortNames(x) PROVE InScope(n)'
    OBVIOUS
  <2>1. CASE n.kind = "raw" \/ n \in N
    BY <1>10, <2>1 DEF InScope
  <2>2. ASSUME NEW c \in W, n = OutName(c) PROVE InScope(n)'
    BY <1>11, <2>2 DEF InScope
  <2> QED
    BY <1>12, <2>1, <2>2
<1> QED
  BY <1>1, <1>4, <1>5, <1>6, <1>9, <1>13, AddScope

(* Channels of sinks with numbers not given out before are new. *)
LEMMA FreshScope ==
  ASSUME NEW F, NEW e, FreshNames(F, e), NEW n \in F
  PROVE  ~Known(n) /\ Known(n)'
<1>1. NumberedOut(n) /\ ~Issued(n) /\ Issued(n)'
  <2>1. PICK k \in Nat : n = Name(Spare(e), Null, k)
    BY DEF FreshNames
  <2>2. n.kind \in {"sink", "anon"}
    BY <2>1, NameFields DEF Spare
  <2> QED
    BY <2>2 DEF FreshNames, NumberedOut
<1>2. ~Known(n)
  BY <1>1, TwinsApart DEF Known
<1>3. NumberedOut(n)'
  BY <1>1 DEF NumberedOut
<1> QED
  BY <1>1, <1>2, <1>3 DEF Known

(* The channels on the ports of an instance that takes the operands of e. *)
LEMMA UnitPorts ==
  ASSUME NEW x, NEW e, x.ins = OperandNames(e), NEW n \in PortNames(x)
  PROVE  \/ \E p \in NamedPorts(e) : n = OperandName(e, p)
         \/ \E o \in DOMAIN x.outs : n = x.outs[o]
BY DEF PortNames, OperandNames

LEMMA SinkPorts ==
  ASSUME NEW m, NEW at, NEW n \in PortNames(Inst("sink", at, One(m), None))
  PROVE  n = m
<1>1. PICK x : x = Inst("sink", at, One(m), None)
  OBVIOUS
<1>2. DOMAIN x.ins = {1} /\ x.ins[1] = m /\ DOMAIN x.outs = {}
  BY <1>1, InstFields, OnePort
<1> QED
  BY <1>1, <1>2 DEF PortNames

LEMMA SelectionWrites ==
  ASSUME AllInv, HandleSplit \/ HandleMerge \/ HandleMixer
  PROVE  \E W, I, N : Writes(prog[next], W, I, N) /\ BothEnds(prog[next], W, I, N)
<1>1. PICK e : e = prog[next]
  OBVIOUS
<1>2. PICK u, F, I, W : Selects(e, u, F, I, W)
  BY <1>1, SplitSelects, MergeSelects, MixerSelects DEF AllInv
<1>3. /\ pc = "emit" /\ next <= Len(prog) /\ I = WithSinks(u, F) /\ Write(e, W, I, F)
      /\ sinkCnt' \in Nat /\ sinkCnt <= sinkCnt' /\ anonNames' \in Nat /\ anonNames <= anonNames'
      /\ FreshNames(F, e) /\ SelectUnit(u, e, F)
  BY <1>2 DEF Selects
<1>4. \A n \in F : ~Known(n) /\ Known(n)'
  BY <1>3, FreshScope
<1>5. ASSUME NEW x \in I, NEW n \in PortNames(x)
      PROVE  \/ n.kind = "raw" \/ n \in F
             \/ \E p \in NamedPorts(e) : n = OperandName(e, p)
             \/ \E c \in W : n = OutName(c)
  <2>1. CASE x = u
    <3>1. CASE \E o \in DOMAIN u.outs : n = u.outs[o]
      <4>1. PICK o \in DOMAIN u.outs : n = u.outs[o]
        BY <3>1
      <4>2. o \in DOMAIN e.outs
        BY <1>3 DEF SelectUnit
      <4>3. CASE e.outs[o].chan = Null
        BY <1>3, <4>1, <4>2, <4>3 DEF SelectUnit
      <4>4. CASE e.outs[o].chan # Null
        <5>1. n = OutLink(e, o)
          BY <1>3, <4>1, <4>2, <4>4 DEF SelectUnit
        <5>2. \/ n = Raw(e.outs[o].chan)
              \/ n = OutName(e.outs[o].chan) /\ e.outs[o].chan \in W
          BY <1>2, <4>2, <4>4, <5>1 DEF Selects
        <5> QED
          BY <5>2, ReadNames
      <4> QED
        BY <4>3, <4>4
    <3> QED
      BY <1>3, <2>1, <3>1, UnitPorts DEF SelectUnit
  <2>2. CASE x # u
    <3>1. PICK m \in F : x = Inst("sink", next, One(m), None)
      BY <1>3, <2>2 DEF WithSinks
    <3> QED
      BY <3>1, SinkPorts
  <2> QED
    BY <2>1, <2>2
<1>6. Writes(e, W, I, F)
  BY <1>3, <1>4, <1>5 DEF Writes
<1>7. BothEnds(e, W, I, F)
  <2>1. u \in I /\ u.ins = OperandNames(e) /\ DOMAIN u.outs = DOMAIN e.outs
    BY <1>3 DEF WithSinks, SelectUnit
  <2>2. /\ \A n \in F : \E o \in DOMAIN e.outs : u.outs[o] = n
        /\ \A c \in W : \E o \in DOMAIN e.outs : u.outs[o] = OutName(c)
        /\ e.t \notin FC
    BY <1>2 DEF Selects, FC
  <2>3. ASSUME NEW n \in F PROVE \E x \in I : \E p \in DOMAIN x.ins : x.ins[p] = n
    <3>1. PICK x : x = Inst("sink", next, One(n), None)
      OBVIOUS
    <3>2. x \in I
      BY <1>3, <3>1 DEF WithSinks
    <3>3. 1 \in DOMAIN x.ins /\ x.ins[1] = n
      BY <3>1, InstFields, OnePort
    <3> QED
      BY <3>2, <3>3
  <2> QED
    BY <2>1, <2>2, <2>3 DEF BothEnds
<1> QED
  BY <1>1, <1>6, <1>7

LEMMA SinkWrites ==
  ASSUME AllInv, HandleSink
  PROVE  \E W, I, N : Writes(prog[next], W, I, N) /\ BothEnds(prog[next], W, I, N)
<1>1. PICK e : e = prog[next]
  OBVIOUS
<1>2. PICK I, W : I = {Inst("sink", next, One(Raw(e.reads[1])), None)} /\ W = {}
  OBVIOUS
<1>3. /\ pc = "emit" /\ next <= Len(prog) /\ Write(e, W, I, W) /\ e.t = "sink"
      /\ sinkCnt' = sinkCnt /\ anonNames' = anonNames
  BY <1>1, <1>2 DEF HandleSink, At
<1>4. sinkCnt \in Nat /\ anonNames \in Nat
  BY DEF AllInv, TypeOK
<1>5. \A x \in I : \A n \in PortNames(x) : n.kind = "raw"
  BY <1>2, SinkPorts, ReadNames
<1>6. Writes(e, W, I, W)
  BY <1>2, <1>3, <1>4, <1>5 DEF Writes
<1>7. BothEnds(e, W, I, W)
  BY <1>2, <1>3 DEF BothEnds, NamedPorts, FC
<1> QED
  BY <1>1, <1>6, <1>7

LEMMA FunctionWrites ==
  ASSUME AllInv, HandleFunc \/ HandleDFlowCluster
  PROVE  \E W, I, N : Writes(prog[next], W, I, N) /\ BothEnds(prog[next], W, I, N)
<1>1. PICK e : e = prog[next]
  OBVIOUS
<1>2. PICK W : W = {e.outs[o].chan : o \in DOMAIN e.outs}
  OBVIOUS
<1>3. PICK N : N = UNION {BuffNames(e.outs[o]) : o \in BuffOuts(e)}
  OBVIOUS
<1> DEFINE Src == {Inst("source", next, None, One(OutName(e.outs[o].chan))) :
                     o \in DOMAIN e.outs \ Calcs(e)}
           Chains == UNION {BuffChain(next, e.outs[o]) : o \in BuffOuts(e)}
           I == Src \cup (IF Calcs(e) = {} THEN {} ELSE {FUInst(e)}) \cup Chains
<1>4. /\ pc = "emit" /\ next <= Len(prog) /\ e.t \in FC
      /\ Write(e, W, I, N)
      /\ sinkCnt' = sinkCnt /\ anonNames' = anonNames
  BY <1>1, <1>2, <1>3 DEF HandleFunc, HandleDFlowCluster, FunctionUnit, At, FC
<1>5. /\ sinkCnt \in Nat /\ anonNames \in Nat /\ next \in 1..Len(prog) /\ e \in Element
      /\ prog \in Programs /\ Len(prog) \in Nat /\ e.t # "sink"
      /\ prog' = prog /\ pc' = pc /\ next' = next + 1
  BY <1>1, <1>4, ProgType DEF AllInv, TypeOK, Write, FC
<1>6. \A o \in BuffOuts(e) : /\ o \in DOMAIN e.outs /\ e.outs[o] \in Output
                              /\ e.outs[o].chan # Null /\ Inner(e.outs[o]) \in Nat
  <2> SUFFICES ASSUME NEW o \in BuffOuts(e)
               PROVE  /\ o \in DOMAIN e.outs /\ e.outs[o] \in Output
                      /\ e.outs[o].chan # Null /\ Inner(e.outs[o]) \in Nat
    OBVIOUS
  <2>1. o \in DOMAIN prog[next].outs
    BY <1>1 DEF BuffOuts, Calcs
  <2>2. e.outs[o] \in Output
    BY <1>1, <1>5, <2>1, ElementFacts
  <2>3. prog[next].outs[o].chan = Null =>
          prog[next].t = "split" \/ prog[next].t \in {"mixer", "arbiter"}
    BY <1>5, <2>1, NullOutputs
  <2> QED
    BY <1>1, <1>4, <2>1, <2>2, <2>3, InnerType DEF FC
<1>7. ASSUME NEW n
      PROVE  n \in N <=> \E o \in BuffOuts(e) : \E k \in 0..Inner(e.outs[o]) : n = Stage(e.outs[o].chan, k)
  BY <1>3 DEF BuffNames
<1>8. ASSUME NEW n \in N PROVE ~Known(n) /\ Known(n)'
  <2>1. PICK o \in BuffOuts(e) : \E k \in 0..Inner(e.outs[o]) : n = Stage(e.outs[o].chan, k)
    BY <1>7, <1>8
  <2>2. PICK k \in 0..Inner(e.outs[o]) : n = Stage(e.outs[o].chan, k)
    BY <2>1
  <2>3. k \in Nat /\ e.outs[o].chan # Null /\ o \in DOMAIN e.outs
    BY <1>6, <2>2
  <2>4. ~Known(n)
    <3>1. ~(NumberedOut(n) /\ Issued(n)) /\ \A c : n # ToInt(c) /\ n # FromInt(c)
      BY <2>2, TwinsApart
    <3>2. ASSUME NEW i \in 1..Passed, NEW q \in BuffOuts(prog[i]), NEW l \in Nat,
                 prog[i].t \in FC, n = Stage(prog[i].outs[q].chan, l)
          PROVE  FALSE
      <4>1. i \in 1..Len(prog) /\ i # next
        BY <1>4, <1>5 DEF Passed
      <4>2. prog[i].outs[q].chan = prog[next].outs[o].chan
        <5>1. PICK d, b : d = prog[i].outs[q].chan /\ b = e.outs[o].chan
          OBVIOUS
        <5>2. n = Stage(d, l) /\ n = Stage(b, k)
          BY <2>2, <3>2, <5>1
        <5>3. n.chan = d /\ n.chan = b
          BY <5>2, StageChan
        <5> QED
          BY <1>1, <5>1, <5>3
      <4>3. q \in DOMAIN prog[i].outs /\ o \in DOMAIN prog[next].outs
        BY <1>1, <2>3 DEF BuffOuts, Calcs
      <4>4. prog[i].outs[q].chan # Null
        BY <1>1, <2>3, <4>2
      <4>5. i = next /\ q = o
        BY <1>5, <4>1, <4>2, <4>3, <4>4, DrivenOnce
      <4> QED
        BY <4>1, <4>5
    <3> QED
      BY <3>1, <3>2 DEF Known
  <2>5. Known(n)'
    <3>1. Passed' = next /\ next \in 1..Passed' /\ prog'[next] = e
      BY <1>1, <1>4, <1>5 DEF Passed
    <3>2. PICK j : j = next
      OBVIOUS
    <3>3. /\ o \in BuffOuts(prog'[j]) /\ n = Stage(prog'[j].outs[o].chan, k) /\ prog'[j].t \in FC
          /\ j \in 1..Passed'
      BY <1>4, <2>2, <3>1, <3>2
    <3>4. \E i \in 1..Passed' : \E q \in BuffOuts(prog'[i]), l \in Nat :
            prog'[i].t \in FC /\ n = Stage(prog'[i].outs[q].chan, l)
      BY <2>3, <3>3
    <3> QED
      BY <3>4 DEF Known, BuffOuts, Calcs, Stage, BufIn, BufName, Name
  <2> QED
    BY <2>4, <2>5
<1>9. ASSUME NEW x \in I, NEW n \in PortNames(x)
      PROVE  \/ n.kind = "raw" \/ n \in N
             \/ \E p \in NamedPorts(e) : n = OperandName(e, p)
             \/ \E c \in W : n = OutName(c)
  <2>1. CASE x \in Src
    <3>1. PICK o \in DOMAIN e.outs \ Calcs(e) :
                 x = Inst("source", next, None, One(OutName(e.outs[o].chan)))
      BY <2>1
    <3>2. DOMAIN x.ins = {} /\ DOMAIN x.outs = {1} /\ x.outs[1] = OutName(e.outs[o].chan)
      BY <3>1, InstFields, OnePort
    <3>3. n = OutName(e.outs[o].chan)
      BY <1>9, <3>2 DEF PortNames
    <3> QED
      BY <1>2, <3>1, <3>3
  <2>2. CASE x = FUInst(e)
    <3>1. /\ x.ins = OperandNames(e)
          /\ x.outs = [o \in Calcs(e) |-> IF o \in BuffOuts(e) THEN BufIn(e.outs[o].chan)
                                                ELSE OutName(e.outs[o].chan)]
      BY <2>2, InstFields DEF FUInst
    <3>2. CASE \E o \in DOMAIN x.outs : n = x.outs[o]
      <4>1. PICK o \in Calcs(e) : n = x.outs[o]
        BY <3>1, <3>2
      <4>2. CASE o \in BuffOuts(e)
        <5>1. n = Stage(e.outs[o].chan, 0) /\ 0 \in 0..Inner(e.outs[o])
          BY <1>6, <3>1, <4>1, <4>2 DEF Stage
        <5> QED
          BY <1>7, <4>2, <5>1
      <4>3. CASE o \notin BuffOuts(e)
        <5>1. n = OutName(e.outs[o].chan) /\ o \in DOMAIN e.outs
          BY <3>1, <4>1, <4>3 DEF Calcs
        <5> QED
          BY <1>2, <5>1
      <4> QED
        BY <4>2, <4>3
    <3> QED
      BY <1>9, <3>1, <3>2, UnitPorts
  <2>3. CASE x \in Chains
    <3>1. PICK o \in BuffOuts(e) : x \in BuffChain(next, e.outs[o])
      BY <2>3
    <3>2. PICK k \in 0..Inner(e.outs[o]) : x = StageInst(next, e.outs[o], k)
      BY <1>6, <3>1, ChainStage
    <3>3. \/ n = Stage(e.outs[o].chan, k)
          \/ k < Inner(e.outs[o]) /\ n = Stage(e.outs[o].chan, k + 1)
          \/ n = OutName(e.outs[o].chan)
      BY <1>9, <3>2, StageFields DEF PortNames
    <3>4. k < Inner(e.outs[o]) => k + 1 \in 0..Inner(e.outs[o])
      BY <1>6, <3>2
    <3>5. e.outs[o].chan \in W
      BY <1>2, <1>6, <3>1
    <3> QED
      BY <1>7, <3>1, <3>2, <3>3, <3>4, <3>5
  <2> QED
    BY <2>1, <2>2, <2>3
<1>10. PICK J : J = I
  OBVIOUS
<1>11. /\ \A x \in J : \A n \in PortNames(x) :
              \/ n.kind = "raw" \/ n \in N
              \/ \E p \in NamedPorts(e) : n = OperandName(e, p)
              \/ \E c \in W : n = OutName(c)
       /\ Write(e, W, J, N)
  BY <1>4, <1>9, <1>10
<1>12. Writes(e, W, J, N)
  BY <1>4, <1>5, <1>8, <1>11 DEF Writes
<1>13. BothEnds(e, W, J, N)
  <2>1. NamedPorts(e) # {} => \E u \in J : u.ins = OperandNames(e)
    <3> SUFFICES ASSUME NamedPorts(e) # {} PROVE \E u \in J : u.ins = OperandNames(e)
      OBVIOUS
    <3>1. e.reads # << >>
      <4>1. UsePorts(e) # {} /\ UsePorts(e) \subseteq DOMAIN e.reads
        BY <1>5, UsesFinite DEF NamedPorts
      <4> QED
        BY <4>1
    <3>2. Calcs(e) # {}
      BY <1>1, <1>4, <1>5, <3>1, Arities
    <3>3. FUInst(e).ins = OperandNames(e)
      BY InstFields DEF FUInst
    <3> QED
      BY <1>10, <3>2, <3>3
  <2>2. ASSUME NEW o \in BuffOuts(e), NEW k, k \in 0..Inner(e.outs[o])
        PROVE  StageInst(next, e.outs[o], k) \in J
    BY <1>10, <2>2, StageWritten, <1>6
  <2>3. \A o \in DOMAIN e.outs : \E x \in J : \E p \in DOMAIN x.outs : x.outs[p] = OutName(e.outs[o].chan)
    <3> SUFFICES ASSUME NEW o \in DOMAIN e.outs
                 PROVE  \E x \in J : \E p \in DOMAIN x.outs : x.outs[p] = OutName(e.outs[o].chan)
      OBVIOUS
    <3>1. CASE o \notin Calcs(e)
      <4>1. PICK x : x = Inst("source", next, None, One(OutName(e.outs[o].chan)))
        OBVIOUS
      <4>2. x \in J
        BY <1>10, <3>1, <4>1
      <4>3. 1 \in DOMAIN x.outs /\ x.outs[1] = OutName(e.outs[o].chan)
        BY <4>1, InstFields, OnePort
      <4> QED
        BY <4>2, <4>3
    <3>2. CASE o \in Calcs(e) \ BuffOuts(e)
      <4>1. FUInst(e) \in J
        BY <1>10, <3>2
      <4>2. FUInst(e).outs = [q \in Calcs(e) |-> IF q \in BuffOuts(e) THEN BufIn(e.outs[q].chan)
                                                ELSE OutName(e.outs[q].chan)]
        BY InstFields DEF FUInst
      <4>3. o \in DOMAIN FUInst(e).outs /\ FUInst(e).outs[o] = OutName(e.outs[o].chan)
        BY <3>2, <4>2
      <4> QED
        BY <4>1, <4>3
    <3>3. CASE o \in BuffOuts(e)
      <4>1. PICK x, k : k = Inner(e.outs[o]) /\ x = StageInst(next, e.outs[o], k)
        OBVIOUS
      <4>2. k \in 0..Inner(e.outs[o]) /\ ~(k < Inner(e.outs[o]))
        BY <1>6, <3>3, <4>1
      <4>3. x \in J
        BY <2>2, <3>3, <4>1, <4>2
      <4>4. 1 \in DOMAIN x.outs /\ x.outs[1] = OutName(e.outs[o].chan)
        BY <4>1, <4>2, StageFields
      <4> QED
        BY <4>3, <4>4
    <3> QED
      BY <3>1, <3>2, <3>3
  <2>4. ASSUME NEW n \in N
        PROVE  /\ \E x \in J : \E p \in DOMAIN x.ins : x.ins[p] = n
               /\ \E x \in J : \E p \in DOMAIN x.outs : x.outs[p] = n
    <3>1. PICK o \in BuffOuts(e) : \E k \in 0..Inner(e.outs[o]) : n = Stage(e.outs[o].chan, k)
      BY <1>7, <2>4
    <3>2. PICK k \in 0..Inner(e.outs[o]) : n = Stage(e.outs[o].chan, k)
      BY <3>1
    <3>3. PICK x : x = StageInst(next, e.outs[o], k)
      OBVIOUS
    <3>4. x \in J /\ 1 \in DOMAIN x.ins /\ x.ins[1] = n
      <4>1. x \in J
        BY <2>2, <3>3
      <4>2. PICK out : out = e.outs[o]
        OBVIOUS
      <4>3. DOMAIN x.ins = {1} /\ x.ins[1] = Stage(out.chan, k)
        BY <3>3, <4>2, StageFields
      <4> QED
        BY <3>2, <4>1, <4>2, <4>3
    <3>5. CASE k = 0
      <4>1. o \in Calcs(e)
        BY DEF BuffOuts
      <4>2. FUInst(e) \in J
        BY <1>10, <4>1
      <4>3. FUInst(e).outs = [q \in Calcs(e) |-> IF q \in BuffOuts(e) THEN BufIn(e.outs[q].chan)
                                                ELSE OutName(e.outs[q].chan)]
        BY InstFields DEF FUInst
      <4>4. o \in DOMAIN FUInst(e).outs /\ FUInst(e).outs[o] = n
        BY <3>2, <3>5, <4>1, <4>3 DEF Stage
      <4> QED
        BY <3>4, <4>2, <4>4
    <3>6. CASE k # 0
      <4>1. PICK y, j : j = k - 1 /\ y = StageInst(next, e.outs[o], j)
        OBVIOUS
      <4>2. j \in 0..Inner(e.outs[o]) /\ j < Inner(e.outs[o]) /\ j + 1 = k
        BY <1>6, <3>6, <4>1
      <4>3. y \in J
        BY <2>2, <4>1, <4>2
      <4>4. PICK out : out = e.outs[o]
        OBVIOUS
      <4>5. DOMAIN y.outs = {1} /\ y.outs[1] = Stage(out.chan, j + 1)
        BY <4>1, <4>2, <4>4, StageFields
      <4>6. 1 \in DOMAIN y.outs /\ y.outs[1] = n
        BY <3>2, <4>2, <4>4, <4>5
      <4> QED
        BY <3>4, <4>3, <4>6
    <3> QED
      BY <3>5, <3>6
  <2>5. \A o \in BuffOuts(e) : BuffChain(next, e.outs[o]) \subseteq J
    BY <1>10
  <2>6. \A c \in W : \E x \in J : \E p \in DOMAIN x.outs : x.outs[p] = OutName(c)
    BY <1>2, <2>3
  <2> QED
    BY <2>1, <2>4, <2>5, <2>6 DEF BothEnds
<1> QED
  BY <1>1, <1>12, <1>13

LEMMA HandlerWrites ==
  ASSUME AllInv, Handler
  PROVE  \E W, I, N : Writes(prog[next], W, I, N) /\ BothEnds(prog[next], W, I, N)
BY FunctionWrites, SelectionWrites, SinkWrites DEF Handler

LEMMA CopyScope ==
  ASSUME ScopeInv, AllInv, NEW c \in Chan, CreateCopyProc(c)
  PROVE  ScopeInv'
<1>1. PICK I, D : I = {CopyInst(c)} /\ D = {Decl(ToInt(b), 0) : b \in Undeclared({c}, "to")}
  OBVIOUS
<1>2. /\ pc = "copies" /\ insts' = insts \cup I /\ decls' = decls \cup D
      /\ boolFlags' = Flagged({c}, {})
      /\ UNCHANGED <<prog, pc, next, copyUses, sinkCnt, anonNames>>
  BY <1>1 DEF CreateCopyProc
<1>3. /\ \A d \in D : \E b \in Undeclared({c}, "to") : d = Decl(ToInt(b), 0) /\ d.name = ToInt(b)
      /\ \A b \in Undeclared({c}, "to") : Decl(ToInt(b), 0) \in D
  BY <1>1, DeclFields
<1>4. ASSUME NEW n, Known(n) PROVE Known(n)'
  <2>1. CASE \E b \in BoolChan : n = ToInt(b) /\ "to" \in boolFlags[b]
    BY <1>2, <2>1, FlaggedMeans DEF Known
  <2>2. CASE \E b \in BoolChan : n = FromInt(b) /\ "from" \in boolFlags[b]
    BY <1>2, <2>2, FlaggedMeans DEF Known
  <2>3. ~\E i \in 1..Passed : TRUE
    BY <1>2 DEF Passed
  <2>4. CASE NumberedOut(n) /\ Issued(n)
    <3>1. NumberedOut(n)' /\ Issued(n)'
      BY <1>2, <2>4 DEF Issued, NumberedOut
    <3> QED
      BY <3>1 DEF Known
  <2> QED
    BY <1>4, <2>1, <2>2, <2>3, <2>4 DEF Known
<1>5. \A d \in D : ~Known(d.name) /\ \A n : n = d.name => Known(n)'
  BY <1>2, <1>3, NewTwins
<1>6. \A d1, d2 \in D : d1.name = d2.name => d1 = d2
  BY <1>3
<1>7. FlagsDeclared'
  <2>1. \A b \in Undeclared({}, "from") : Decl(FromInt(b), 0) \in D
    BY DEF Undeclared
  <2> QED
    BY <1>2, <1>3, <2>1, FlagsStay DEF ScopeInv
<1>8. ASSUME NEW x \in I, NEW n \in PortNames(x) PROVE InScope(n)'
  <2>1. /\ x.kind = "copy" /\ DOMAIN x.ins = {1} /\ x.ins[1] = ReadBase(c)
        /\ x.outs = [k \in 1..NumOut(c) |-> CopyOut(c, k - 1)]
    BY <1>1, InstFields, OnePort DEF CopyInst
  <2>2. CASE n = ReadBase(c)
    <3>1. CASE c \in BoolChan
      <4>1. n = ToInt(c) /\ "to" \in boolFlags'[c]
        BY <1>2, <2>2, <3>1, FlaggedMeans, ReadNames
      <4>2. Declared(n)'
        BY <1>7, <3>1, <4>1 DEF FlagsDeclared, ToInt, Name
      <4> QED
        BY <4>2 DEF InScope
    <3>2. CASE c \notin BoolChan
      <4>1. n.kind = "raw"
        BY <2>2, <3>2, ReadNames
      <4> QED
        BY <4>1 DEF InScope
    <3> QED
      BY <3>1, <3>2
  <2>3. CASE n \in {x.outs[k] : k \in DOMAIN x.outs}
    <3>1. n.kind = "copyout"
      BY <2>1, <2>3, NameFields DEF CopyOut
    <3>2. x \in insts'
      BY <1>2
    <3> QED
      BY <2>1, <2>3, <3>1, <3>2 DEF InScope
  <2> QED
    BY <1>8, <2>1, <2>2, <2>3 DEF PortNames
<1> QED
  BY <1>2, <1>4, <1>5, <1>6, <1>7, <1>8, AddScope

(* A converter joins a channel of the process to a twin that is declared. *)
LEMMA ConvScope ==
  ASSUME ScopeInv, AllInv, NEW c \in BoolChan, PrintBoolToIntConv(c)
  PROVE  ScopeInv'
<1>1. PICK I, D : /\ I = {Inst("bool_to_int", 0, One(Raw(c)), One(ToInt(c))) : f \in boolFlags[c] \cap {"to"}}
                          \cup {Inst("int_to_bool", 0, One(FromInt(c)), One(Raw(c))) : f \in boolFlags[c] \cap {"from"}}
                  /\ D = {}
  OBVIOUS
<1>2. /\ insts' = insts \cup I /\ decls' = decls \cup D
      /\ UNCHANGED <<prog, pc, next, copyUses, boolFlags, sinkCnt, anonNames, decls>>
  BY <1>1 DEF PrintBoolToIntConv
<1>3. \A n : Known(n) => Known(n)'
  BY <1>2 DEF Known, Passed, NumberedOut, Issued, BuffOuts, Calcs
<1>4. FlagsDeclared'
  BY <1>2 DEF FlagsDeclared, Declared, ScopeInv
<1>5. ASSUME NEW x \in I, NEW n \in PortNames(x) PROVE InScope(n)'
  <2>1. \/ x = ToIntInst(c) /\ "to" \in boolFlags[c]
        \/ x = ToBoolInst(c) /\ "from" \in boolFlags[c]
    BY <1>1 DEF ToIntInst, ToBoolInst
  <2>2. /\ DOMAIN ToIntInst(c).ins = {1} /\ ToIntInst(c).ins[1] = Raw(c)
        /\ DOMAIN ToIntInst(c).outs = {1} /\ ToIntInst(c).outs[1] = ToInt(c)
        /\ DOMAIN ToBoolInst(c).ins = {1} /\ ToBoolInst(c).ins[1] = FromInt(c)
        /\ DOMAIN ToBoolInst(c).outs = {1} /\ ToBoolInst(c).outs[1] = Raw(c)
    BY InstFields, OnePort DEF ToIntInst, ToBoolInst
  <2>3. \/ n = Raw(c)
        \/ n = ToInt(c) /\ "to" \in boolFlags[c]
        \/ n = FromInt(c) /\ "from" \in boolFlags[c]
    BY <1>5, <2>1, <2>2 DEF PortNames
  <2>4. n = Raw(c) => n.kind = "raw"
    BY ReadNames
  <2>5. n # Raw(c) => Declared(n)'
    BY <1>2, <1>4, <2>3 DEF FlagsDeclared, ScopeInv, Declared
  <2> QED
    BY <2>4, <2>5 DEF InScope
<1> QED
  BY <1>1, <1>2, <1>3, <1>4, <1>5, AddScope

(* The other steps write nothing. *)
LEMMA QuietScope ==
  ASSUME ScopeInv, UNCHANGED <<prog, boolFlags, sinkCnt, anonNames, decls, insts>>,
         Passed \in Int, Passed' \in Int, Passed <= Passed'
  PROVE  ScopeInv'
<1>1. PICK I, D : I = {} /\ D = {}
  OBVIOUS
<1>2. insts' = insts \cup I /\ decls' = decls \cup D
  BY <1>1
<1>3. ASSUME NEW n, Known(n) PROVE Known(n)'
  <2>1. CASE \E i \in 1..Passed : \E o \in BuffOuts(prog[i]), k \in Nat :
               prog[i].t \in FC /\ n = Stage(prog[i].outs[o].chan, k)
    <3>1. \A i \in 1..Passed : i \in 1..Passed'
      OBVIOUS
    <3>2. PICK i \in 1..Passed : \E o \in BuffOuts(prog[i]), k \in Nat :
               prog[i].t \in FC /\ n = Stage(prog[i].outs[o].chan, k)
      BY <2>1
    <3>3. \E j \in 1..Passed' : \E o \in BuffOuts(prog'[j]), k \in Nat :
            prog'[j].t \in FC /\ n = Stage(prog'[j].outs[o].chan, k)
      BY <3>1, <3>2
    <3> QED
      BY <3>3 DEF Known, BuffOuts, Calcs, Stage, BufIn, BufName, Name
  <2>2. NumberedOut(n) /\ Issued(n) => NumberedOut(n)' /\ Issued(n)'
    BY DEF NumberedOut, Issued
  <2> QED
    BY <1>3, <2>1, <2>2 DEF Known
<1>4. FlagsDeclared'
  BY DEF FlagsDeclared, Declared, ScopeInv
<1> QED
  BY <1>1, <1>2, <1>3, <1>4, AddScope

LEMMA ScopeStep ==
  ASSUME ScopeInv, AllInv, [Next]_vars
  PROVE  ScopeInv'
<1>1. next \in Nat /\ next >= 1 /\ Len(prog) \in Nat
  BY ProgType DEF AllInv, TypeOK
<1>2. CASE CollectOpUses
  <2>1. /\ UNCHANGED <<prog, boolFlags, sinkCnt, anonNames, decls, insts>>
        /\ pc = "collect" /\ (pc' = "collect" \/ (pc' = "failed" /\ next' = next))
    BY <1>2 DEF CollectOpUses, Exit, emitted
  <2>2. Passed = 0 /\ (Passed' = 0 \/ Passed' = next - 1)
    BY <2>1 DEF Passed
  <2> QED
    BY <1>1, <2>1, <2>2, QuietScope
<1>3. CASE CollectDone
  <2>1. /\ UNCHANGED <<prog, boolFlags, sinkCnt, anonNames, decls, insts>>
        /\ pc = "collect" /\ pc' = "copies"
    BY <1>3 DEF CollectDone, emitted
  <2> QED
    BY <2>1, QuietScope DEF Passed
<1>4. CASE \E c \in Chan : CreateCopyProc(c)
  BY <1>4, CopyScope
<1>5. CASE CopiesDone
  <2>1. /\ UNCHANGED <<prog, boolFlags, sinkCnt, anonNames, decls, insts>>
        /\ pc = "copies" /\ pc' = "emit" /\ next' = 1
    BY <1>5 DEF CopiesDone, emitted
  <2> QED
    BY <2>1, QuietScope DEF Passed
<1>6. CASE Handler
  BY <1>6, HandlerWrites, WriteScope
<1>7. CASE ElementExit \/ EmitDone \/ ConvertDone
  <2>1. /\ UNCHANGED <<prog, boolFlags, sinkCnt, anonNames, decls, insts, next>>
        /\ pc \notin {"collect", "copies"} /\ pc' \notin {"collect", "copies"}
    BY <1>7 DEF ElementExit, EmitDone, ConvertDone, Exit, emitted
  <2> QED
    BY <1>1, <2>1, QuietScope DEF Passed
<1>8. CASE \E c \in BoolChan : PrintBoolToIntConv(c)
  BY <1>8, ConvScope
<1>9. CASE UNCHANGED vars
  <2>1. UNCHANGED <<prog, boolFlags, sinkCnt, anonNames, decls, insts, next, pc>>
    BY <1>9 DEF vars
  <2> QED
    BY <1>1, <2>1, QuietScope DEF Passed
<1> QED
  BY <1>2, <1>3, <1>4, <1>5, <1>6, <1>7, <1>8, <1>9 DEF Next, Handler, Terminating

(* The text declares each of its own channels exactly once, and no instance *)
(* uses a channel that is neither the process's own, nor declared, nor an    *)
(* output of a copy already written: WellScoped of ProcGenerator.            *)
THEOREM WellScopedTheorem == Spec => []WellScoped
<1>1. Init => ScopeInv
  BY DEF Init, ScopeInv, FlagsDeclared
<1>2. ScopeInv /\ AllInv /\ [Next]_vars => ScopeInv'
  BY ScopeStep
<1> QED
  BY <1>1, <1>2, ScopeMeans, TextTheorem, PTL DEF Spec

-----------------------------------------------------------------------------
(* Both ends. What the translator makes up has a reader and a writer as soon *)
(* as it is declared, but for the int twins, whose other end is a converter, *)
(* and the outputs of a copy, which are all read when the last use of the    *)
(* channel has been passed.                                                  *)

HasReader(n) == \E x \in insts : \E p \in DOMAIN x.ins : x.ins[p] = n
HasWriter(n) == \E x \in insts : \E p \in DOMAIN x.outs : x.outs[p] = n

FlagsUsed ==
  \A c \in BoolChan : /\ "to" \in boolFlags[c] => HasReader(ToInt(c))
                      /\ "from" \in boolFlags[c] => HasWriter(FromInt(c))

LinksClosed ==
  \A d \in decls : d.name.kind \notin {"toint", "fromint"} => HasReader(d.name) /\ HasWriter(d.name)

(* No element passed has an output the handlers refuse; their buffers are in. *)
ElementsIn ==
  pc # "failed" => \A i \in 1..Passed : prog[i].t \in FC =>
    \A o \in DOMAIN prog[i].outs :
      /\ prog[i].outs[o].expr = "const" => prog[i].outs[o].buf = "none"
      /\ prog[i].outs[o].expr = "calc" => prog[i].outs[o].buf # "initexpr"
      /\ o \in BuffOuts(prog[i]) => BuffChain(i, prog[i].outs[o]) \subseteq insts

ConvertersIn ==
  pc \in {"convert", "done"} =>
    /\ next = Len(prog) + 1
    /\ \A c \in BoolChan : (pc = "convert" => c \notin todo) =>
         /\ "to" \in boolFlags[c] => ToIntInst(c) \in insts
         /\ "from" \in boolFlags[c] => ToBoolInst(c) \in insts

CopiesRead ==
  \A c \in Chan : opUses[c] > 0 => \A k \in 0..(copyUses[c] - 1) : HasReader(CopyOut(c, k))

CopiesTaken ==
  pc \in {"emit", "convert", "done"} =>
    \A c \in Chan : opUses[c] > 0 /\ ~Sunk(c) => copyUses[c] = Cardinality(Sites(next - 1, c))

ClosedInv ==
  FlagsUsed /\ LinksClosed /\ ElementsIn /\ ConvertersIn /\ CopiesRead /\ CopiesTaken

LEMMA EndsStay ==
  ASSUME NEW I, insts' = insts \cup I, NEW n
  PROVE  /\ HasReader(n) => HasReader(n)'
         /\ HasWriter(n) => HasWriter(n)'
BY DEF HasReader, HasWriter

(* Numbers given out by counting leave none out. *)
LEMMA CountOnto ==
  ASSUME NEW S, IsFiniteSet(S), NEW r, \A p \in S : r[p] \in Int,
         \A p, q \in S : r[p] = r[q] => p = q, NEW j \in Nat, j < Cardinality(S),
         NEW below, \A p \in S : \A q : q \in below[p] <=> q \in S /\ r[q] < r[p]
  PROVE  \E p \in S : Cardinality(below[p]) = j
<1> DEFINE n == Cardinality(S)
           T == 0..(n - 1)
           f == [p \in S |-> Cardinality(below[p])]
<1>1. n \in Nat /\ n - 1 \in Int /\ ~(0 > n - 1)
  BY FS_CardinalityType
<1>2. IsFiniteSet(T) /\ Cardinality(T) = n
  BY <1>1, FS_Interval
<1>3. ASSUME NEW p \in S PROVE below[p] = {q \in S : r[q] < r[p]}
  OBVIOUS
<1>4. \A p \in S : Cardinality(below[p]) \in T
  BY <1>1, <1>3, CountBelow
<1>5. \A p, q \in S : f[p] = f[q] => p = q
  BY <1>3, CountDistinct
<1>6. f \in Injection(S, T)
  BY <1>4, <1>5 DEF Injection, IsInjective
<1>7. f \in Surjection(S, T)
  BY <1>2, <1>6, FS_Injection
<1>8. j \in T
  BY <1>1
<1> HIDE DEF T
<1>9. PICK p \in S : f[p] = j
  BY <1>7, <1>8 DEF Surjection
<1> QED
  BY <1>9

(* The operands of an element take all the numbers in turn. *)
LEMMA OperandOnto ==
  ASSUME IInv, pc = "emit", next <= Len(prog), NEW e, e = prog[next], e.t # "sink", NEW c \in Chan,
         opUses[c] > 0, NEW k, k \in copyUses[c]..(Taken(e)[c] - 1)
  PROVE  \E p \in NamedPorts(e) : e.reads[p] = c /\ CopyIndex(e, p) = k
<1>1. e \in Element /\ opUses[c] \in Nat \cup {NoEntry} /\ copyUses[c] \in Nat
  BY EmitCounts
<1>2. PICK S : S = UsesOf(e, c)
  OBVIOUS
<1>3. IsFiniteSet(S) /\ Cardinality(S) \in Nat /\ S \subseteq DOMAIN e.reads
  BY <1>1, <1>2, UsesFinite
<1>4. {p \in NamedPorts(e) : e.reads[p] = c} = S
  BY <1>2 DEF NamedPorts, UsesOf
<1>5. Taken(e)[c] = copyUses[c] + Cardinality(S)
  BY <1>4 DEF Taken
<1>6. PICK j : j = k - copyUses[c]
  OBVIOUS
<1>7. j \in Nat /\ j < Cardinality(S) /\ copyUses[c] + j = k
  BY <1>1, <1>3, <1>5, <1>6
<1>8. PICK r, below : /\ r = [p \in S |-> Rank(e, p)]
                     /\ below = [p \in S |-> {q \in S : Rank(e, q) < Rank(e, p)}]
  OBVIOUS
<1>9. /\ \A p \in S : r[p] \in Int
      /\ \A p, q \in S : r[p] = r[q] => p = q
  BY <1>1, <1>3, <1>8, RankOrder
<1>10. PICK p \in S : Cardinality(below[p]) = j
  <2>1. \A p \in S : \A q : q \in below[p] <=> q \in S /\ r[q] < r[p]
    BY <1>8
  <2> QED
    BY <1>3, <1>7, <1>9, <2>1, CountOnto
<1>11. below[p] = {q \in UsesOf(e, c) : Rank(e, q) < Rank(e, p)}
  BY <1>2, <1>8
<1>12. p \in NamedPorts(e) /\ e.reads[p] = c
  BY <1>4
<1>13. CopyIndex(e, p) = copyUses[c] + j
  BY <1>10, <1>11, <1>12 DEF CopyIndex
<1> QED
  BY <1>7, <1>12, <1>13

(* The elements that pass have none of the outputs the handlers refuse. *)
LEMMA HandlerAccepts ==
  ASSUME Handler, NEW o \in DOMAIN prog[next].outs
  PROVE  /\ prog[next].outs[o].expr = "const" => prog[next].outs[o].buf = "none"
         /\ prog[next].outs[o].expr = "calc" => prog[next].outs[o].buf # "initexpr"
<1>1. ElementError(prog[next]) = "none"
  BY DEF Handler, HandleFunc, HandleDFlowCluster, HandleSplit, HandleMerge, HandleMixer, HandleSink, At
<1>2. PICK e : e = prog[next]
  OBVIOUS
<1>3. OperandError(e) = "none"
  BY <1>1, <1>2, Zenon DEF ElementError
<1>4. PICK A, B, C : /\ A = (e.t = "cluster" /\ e.form = "selection")
                     /\ B = \E q \in DOMAIN e.outs : e.outs[q].expr = "const" /\ e.outs[q].buf # "none"
                     /\ C = \E q \in DOMAIN e.outs : e.outs[q].expr = "calc" /\ e.outs[q].buf = "initexpr"
  OBVIOUS
<1>5. ~B
  BY <1>1, <1>2, <1>3, <1>4 DEF ElementError
<1>6. ~C
  BY <1>1, <1>2, <1>3, <1>4, <1>5 DEF ElementError
<1> QED
  BY <1>2, <1>4, <1>5, <1>6

(* An int twin that an element reads from is read by it or by the copy. *)
LEMMA TwinRead ==
  ASSUME AllInv, pc = "emit", next <= Len(prog), NEW e, e = prog[next], NEW I, insts' = insts \cup I,
         NamedPorts(e) # {} => \E u \in I : u.ins = OperandNames(e),
         NEW c \in OperandChans(e), c \in BoolChan
  PROVE  HasReader(ToInt(c))'
<1>1. PICK p \in NamedPorts(e) : c = e.reads[p]
  BY DEF OperandChans
<1>2. PICK u \in I : u.ins = OperandNames(e)
  BY <1>1
<1>3. p \in DOMAIN u.ins /\ u.ins[p] = OperandName(e, p)
  BY <1>1, <1>2 DEF OperandNames
<1>4. u \in insts' /\ ReadBase(c) = ToInt(c)
  BY ReadNames
<1>5. CASE opUses[c] = 0
  <2>1. u.ins[p] = ToInt(c)
    BY <1>1, <1>3, <1>4, <1>5 DEF OperandName
  <2>2. \E x \in insts' : \E q \in DOMAIN x.ins : x.ins[q] = ToInt(c)
    BY <1>3, <1>4, <2>1
  <2> QED
    BY <2>2 DEF HasReader, ToInt, Name
<1>6. CASE opUses[c] # 0
  <2>1. c \in Chan /\ opUses[c] \in Nat
    <3>1. e.t # "sink" /\ p \in UsePorts(e)
      BY <1>1 DEF NamedPorts
    <3> QED
      BY <1>1, <3>1, OperandIndex DEF AllInv
  <2>2. PICK x : x = CopyInst(c)
    OBVIOUS
  <2>3. x \in insts'
    BY <1>6, <2>1, <2>2 DEF AllInv, CopyText, Copied, Copies
  <2>4. DOMAIN x.ins = {1} /\ x.ins[1] = ToInt(c)
    BY <1>4, <2>2, InstFields, OnePort DEF CopyInst
  <2>5. \E y \in insts' : \E q \in DOMAIN y.ins : y.ins[q] = ToInt(c)
    BY <2>3, <2>4
  <2> QED
    BY <2>5 DEF HasReader, ToInt, Name
<1> QED
  BY <1>5, <1>6

LEMMA WriteClosed ==
  ASSUME ClosedInv, AllInv, Handler
  PROVE  ClosedInv'
<1>1. PICK e : e = prog[next]
  OBVIOUS
<1>2. PICK W, I, N : Writes(e, W, I, N) /\ BothEnds(e, W, I, N)
  BY <1>1, HandlerWrites
<1>3. /\ pc = "emit" /\ next <= Len(prog) /\ insts' = insts \cup I
      /\ boolFlags' = Flagged(OperandChans(e), W) /\ copyUses' = Taken(e)
      /\ UNCHANGED <<prog, pc, opUses>> /\ next' = next + 1
      /\ decls' = decls \cup {Decl(n, next) : n \in N}
                    \cup {Decl(ToInt(c), next) : c \in Undeclared(OperandChans(e), "to")}
                    \cup {Decl(FromInt(c), next) : c \in Undeclared(W, "from")}
  BY <1>2 DEF Writes, Write
<1>4. /\ prog \in Programs /\ Len(prog) \in Nat /\ next \in 1..Len(prog) /\ e \in Element
      /\ copyUses \in [Chan -> Nat \cup {NoEntry}]
  BY <1>1, <1>3, ProgType DEF AllInv, TypeOK
<1>5. /\ \A n : HasReader(n) => HasReader(n)'
      /\ \A n : HasWriter(n) => HasWriter(n)'
  BY <1>3, EndsStay
<1>6. FlagsUsed'
  <2>1. ASSUME NEW c \in BoolChan, "to" \in boolFlags'[c] PROVE HasReader(ToInt(c))'
    <3>1. CASE "to" \in boolFlags[c]
      <4>1. PICK n : n = ToInt(c)
        OBVIOUS
      <4>2. HasReader(n)'
        BY <1>5, <3>1, <4>1 DEF ClosedInv, FlagsUsed
      <4> QED
        BY <4>1, <4>2 DEF HasReader, ToInt, Name
    <3>2. CASE "to" \notin boolFlags[c]
      <4>1. c \in OperandChans(e)
        BY <1>3, <2>1, <3>2, FlaggedMeans
      <4>2. NamedPorts(e) # {} => \E u \in I : u.ins = OperandNames(e)
        BY <1>2 DEF BothEnds
      <4> QED
        BY <1>1, <1>3, <4>1, <4>2, TwinRead
    <3> QED
      BY <3>1, <3>2
  <2>2. ASSUME NEW c \in BoolChan, "from" \in boolFlags'[c] PROVE HasWriter(FromInt(c))'
    <3>1. PICK n : n = FromInt(c)
      OBVIOUS
    <3>2. CASE "from" \in boolFlags[c]
      <4>2. HasWriter(n)'
        BY <1>5, <3>1, <3>2 DEF ClosedInv, FlagsUsed
      <4> QED
        BY <3>1, <4>2 DEF HasWriter, FromInt, Name
    <3>3. CASE "from" \notin boolFlags[c]
      <4>1. c \in W
        BY <1>3, <2>2, <3>3, FlaggedMeans
      <4>2. OutName(c) = n
        BY <3>1, ReadNames
      <4>3. HasWriter(n)'
        BY <1>2, <1>3, <4>1, <4>2 DEF BothEnds, HasWriter
      <4> QED
        BY <3>1, <4>3 DEF HasWriter, FromInt, Name
    <3> QED
      BY <3>2, <3>3
  <2> QED
    BY <2>1, <2>2 DEF FlagsUsed
<1>7. LinksClosed'
  <2> SUFFICES ASSUME NEW d \in decls', d.name.kind \notin {"toint", "fromint"}
               PROVE  \A n : n = d.name => HasReader(n)' /\ HasWriter(n)'
    BY DEF LinksClosed, HasReader, HasWriter
  <2>1. CASE d \in decls
    BY <1>5, <2>1 DEF ClosedInv, LinksClosed
  <2>2. CASE d \in {Decl(n, next) : n \in N}
    <3>1. PICK n \in N : d.name = n
      BY <2>2, DeclFields
    <3> QED
      BY <1>2, <1>3, <3>1 DEF BothEnds, HasReader, HasWriter
  <2>3. CASE \E c : d = Decl(ToInt(c), next) \/ d = Decl(FromInt(c), next)
    BY <2>3, DeclFields, ReadNames
  <2> QED
    BY <1>3, <2>1, <2>2, <2>3
<1>8. ElementsIn'
  <2>1. pc # "failed" /\ Passed = next - 1 /\ Passed' = next
    BY <1>3, <1>4 DEF Passed
  <2> SUFFICES ASSUME NEW i \in 1..next, prog[i].t \in FC, NEW o \in DOMAIN prog[i].outs
               PROVE  /\ prog[i].outs[o].expr = "const" => prog[i].outs[o].buf = "none"
                      /\ prog[i].outs[o].expr = "calc" => prog[i].outs[o].buf # "initexpr"
                      /\ o \in BuffOuts(prog[i]) => BuffChain(i, prog[i].outs[o]) \subseteq insts'
    BY <1>3, <2>1 DEF ElementsIn, BuffOuts, Calcs, BuffChain, Inst, One, Stage, BufIn, BufName, OutName, FromInt, Raw, Name
  <2>2. CASE i = next
    BY <1>1, <1>2, <1>3, <2>2, HandlerAccepts DEF BothEnds
  <2>3. CASE i # next
    <3>1. i \in 1..Passed
      BY <1>4, <2>1, <2>3
    <3> QED
      BY <1>3, <2>1, <3>1 DEF ClosedInv, ElementsIn
  <2> QED
    BY <2>2, <2>3
<1>9. ConvertersIn'
  BY <1>3 DEF ConvertersIn
<1>10. CopiesRead'
  <2> SUFFICES ASSUME NEW c \in Chan, opUses[c] > 0, NEW k \in 0..(Taken(e)[c] - 1)
               PROVE  \A n : n = CopyOut(c, k) => HasReader(n)'
    BY <1>3 DEF CopiesRead, HasReader, CopyOut, Name
  <2>1. Taken(e)[c] = copyUses[c] + Cardinality({p \in NamedPorts(e) : e.reads[p] = c})
    BY DEF Taken
  <2>2. copyUses[c] \in Nat
    BY <1>1, <1>3, EmitCounts DEF AllInv
  <2>3. CASE k < copyUses[c]
    <3>1. k \in 0..(copyUses[c] - 1)
      BY <2>2, <2>3
    <3> QED
      BY <1>5, <3>1 DEF ClosedInv, CopiesRead
  <2>4. CASE ~(k < copyUses[c])
    <3>1. k \in copyUses[c]..(Taken(e)[c] - 1)
      BY <2>2, <2>4
    <3>2. e.t # "sink"
      <4>1. ASSUME e.t = "sink" PROVE FALSE
        <5>1. PICK S : S = {p \in NamedPorts(e) : e.reads[p] = c}
          OBVIOUS
        <5>2. S = {}
          BY <4>1, <5>1 DEF NamedPorts
        <5>3. Cardinality(S) = 0
          BY <5>2, FS_EmptySet
        <5>4. Taken(e)[c] = copyUses[c]
          BY <2>1, <2>2, <5>1, <5>3
        <5> QED
          BY <2>2, <3>1, <5>4
      <4> QED
        BY <4>1
    <3>3. PICK p \in NamedPorts(e) : e.reads[p] = c /\ CopyIndex(e, p) = k
      BY <1>1, <1>3, <3>1, <3>2, OperandOnto DEF AllInv
    <3>4. PICK u \in I : u.ins = OperandNames(e)
      BY <1>2, <3>3 DEF BothEnds
    <3>5. p \in DOMAIN u.ins /\ u.ins[p] = OperandName(e, p)
      BY <3>3, <3>4 DEF OperandNames
    <3>6. OperandName(e, p) = CopyOut(c, k)
      <4>1. opUses[c] # 0
        OBVIOUS
      <4> QED
        BY <3>3, <4>1, Zenon DEF OperandName
    <3> QED
      BY <1>3, <3>5, <3>6 DEF HasReader
  <2> QED
    BY <2>3, <2>4
<1>11. CopiesTaken'
  <2> SUFFICES ASSUME NEW c \in Chan, opUses[c] > 0, ~Sunk(c)
               PROVE  Taken(e)[c] = Cardinality(Sites(next, c))
    <3>1. (next' - 1) = next
      BY <1>3, <1>4
    <3> QED
      BY <1>3, <3>1 DEF CopiesTaken, Sunk, Sites, UsesOf, UsePorts, FirstOccurrences
  <2>1. copyUses[c] = Cardinality(Sites(next - 1, c))
    BY <1>3 DEF ClosedInv, CopiesTaken
  <2>2. Cardinality(Sites(next, c)) = Cardinality(Sites(next - 1, c)) + Cardinality(UsesOf(e, c))
    BY <1>1, <1>3, EmitCounts DEF AllInv
  <2>3. {p \in NamedPorts(e) : e.reads[p] = c} = UsesOf(e, c)
    <3>1. CASE e.t = "sink"
      <4>1. DOMAIN e.reads = {1} /\ DOMAIN prog = 1..Len(prog)
        BY <1>1, <1>4, <3>1, Arities, ProgType
      <4>2. e.reads[1] # c
        BY <1>1, <1>4, <3>1, <4>1 DEF Sunk
      <4>3. UsesOf(e, c) = {}
        BY <1>4, <4>1, <4>2, UsesFinite DEF UsesOf
      <4>4. NamedPorts(e) = {}
        BY <3>1 DEF NamedPorts
      <4> QED
        BY <4>3, <4>4
    <3>2. CASE e.t # "sink"
      BY <3>2 DEF NamedPorts, UsesOf
    <3> QED
      BY <3>1, <3>2
  <2>4. Taken(e)[c] = copyUses[c] + Cardinality({p \in NamedPorts(e) : e.reads[p] = c})
    BY DEF Taken
  <2> QED
    BY <2>1, <2>2, <2>3, <2>4
<1> QED
  BY <1>6, <1>7, <1>8, <1>9, <1>10, <1>11 DEF ClosedInv

(* A step that writes instances, and declares at most int twins. *)
LEMMA MoreClosed ==
  ASSUME ClosedInv, NEW I, insts' = insts \cup I, UNCHANGED <<prog, opUses>>,
         \A d \in decls' : d \in decls \/ d.name.kind \in {"toint", "fromint"},
         pc' = "failed" \/ (pc # "failed" /\ Passed' = Passed)
  PROVE  /\ LinksClosed' /\ ElementsIn'
         /\ boolFlags' = boolFlags => FlagsUsed'
         /\ copyUses' = copyUses => CopiesRead'
<1>1. /\ \A n : HasReader(n) => HasReader(n)'
      /\ \A n : HasWriter(n) => HasWriter(n)'
  BY EndsStay
<1>2. LinksClosed'
  <2> SUFFICES ASSUME NEW d \in decls', d.name.kind \notin {"toint", "fromint"}
               PROVE  \A n : n = d.name => HasReader(n)' /\ HasWriter(n)'
    BY DEF LinksClosed, HasReader, HasWriter
  <2> QED
    BY <1>1 DEF ClosedInv, LinksClosed
<1>3. ElementsIn'
  <2> SUFFICES ASSUME pc # "failed", Passed' = Passed, NEW i \in 1..Passed,
                      prog[i].t \in FC, NEW o \in DOMAIN prog[i].outs
               PROVE  /\ prog[i].outs[o].expr = "const" => prog[i].outs[o].buf = "none"
                      /\ prog[i].outs[o].expr = "calc" => prog[i].outs[o].buf # "initexpr"
                      /\ o \in BuffOuts(prog[i]) => BuffChain(i, prog[i].outs[o]) \subseteq insts'
    BY DEF ElementsIn, BuffOuts, Calcs, BuffChain, Inst, One, Stage, BufIn, BufName, OutName, FromInt, Raw, Name
  <2> QED
    BY DEF ClosedInv, ElementsIn
<1>4. ASSUME boolFlags' = boolFlags PROVE FlagsUsed'
  <2> SUFFICES ASSUME NEW c \in BoolChan
               PROVE  /\ "to" \in boolFlags[c] => \A n : n = ToInt(c) => HasReader(n)'
                      /\ "from" \in boolFlags[c] => \A n : n = FromInt(c) => HasWriter(n)'
    BY <1>4 DEF FlagsUsed, HasReader, HasWriter, ToInt, FromInt, Name
  <2> QED
    BY <1>1 DEF ClosedInv, FlagsUsed
<1>5. ASSUME copyUses' = copyUses PROVE CopiesRead'
  <2> SUFFICES ASSUME NEW c \in Chan, opUses[c] > 0, NEW k \in 0..(copyUses[c] - 1)
               PROVE  \A n : n = CopyOut(c, k) => HasReader(n)'
    BY <1>5 DEF CopiesRead, HasReader, CopyOut, Name
  <2> QED
    BY <1>1 DEF ClosedInv, CopiesRead
<1> QED
  BY <1>2, <1>3, <1>4, <1>5

LEMMA CopyClosed ==
  ASSUME ClosedInv, AllInv, NEW c \in Chan, CreateCopyProc(c)
  PROVE  ClosedInv'
<1>1. PICK x : x = CopyInst(c)
  OBVIOUS
<1>2. /\ pc = "copies" /\ insts' = insts \cup {x}
      /\ decls' = decls \cup {Decl(ToInt(b), 0) : b \in Undeclared({c}, "to")}
      /\ boolFlags' = Flagged({c}, {})
      /\ UNCHANGED <<prog, pc, next, opUses, copyUses>>
  BY <1>1 DEF CreateCopyProc
<1>3. \A d \in decls' : d \in decls \/ d.name.kind \in {"toint", "fromint"}
  BY <1>2, DeclFields, ReadNames
<1>4. pc # "failed" /\ Passed' = Passed
  BY <1>2 DEF Passed
<1>5. LinksClosed' /\ ElementsIn' /\ CopiesRead'
  BY <1>2, <1>3, <1>4, MoreClosed
<1>6. FlagsUsed'
  <2> SUFFICES ASSUME NEW b \in BoolChan
               PROVE  /\ "to" \in boolFlags'[b] => \A n : n = ToInt(b) => HasReader(n)'
                      /\ "from" \in boolFlags'[b] => \A n : n = FromInt(b) => HasWriter(n)'
    BY DEF FlagsUsed, HasReader, HasWriter, ToInt, FromInt, Name
  <2>1. /\ \A n : HasReader(n) => HasReader(n)'
        /\ \A n : HasWriter(n) => HasWriter(n)'
    BY <1>2, EndsStay
  <2>2. DOMAIN x.ins = {1} /\ x.ins[1] = ReadBase(c)
    BY <1>1, InstFields, OnePort DEF CopyInst
  <2>3. \A n : n = ReadBase(c) => HasReader(n)'
    BY <1>2, <2>2 DEF HasReader
  <2>4. /\ "to" \in boolFlags'[b] => "to" \in boolFlags[b] \/ b = c
        /\ "from" \in boolFlags'[b] => "from" \in boolFlags[b]
    BY <1>2, FlaggedMeans
  <2> QED
    BY <2>1, <2>3, <2>4, ReadNames DEF ClosedInv, FlagsUsed
<1> QED
  BY <1>2, <1>5, <1>6 DEF ClosedInv, ConvertersIn, CopiesTaken

LEMMA TakenStays ==
  ASSUME CopiesTaken, UNCHANGED <<prog, next, opUses, copyUses>>,
         pc' \in {"emit", "convert", "done"} => pc \in {"emit", "convert", "done"}
  PROVE  CopiesTaken'
<1>1. prog' = prog /\ next' = next /\ opUses' = opUses /\ copyUses' = copyUses
  OBVIOUS
<1>2. \A c : Sunk(c)' <=> Sunk(c)
  BY <1>1 DEF Sunk
<1>3. \A c : Cardinality(Sites(next - 1, c))' = Cardinality(Sites(next - 1, c))
  BY <1>1 DEF Sites, UsesOf, UsePorts, FirstOccurrences
<1> QED
  BY <1>1, <1>2, <1>3 DEF CopiesTaken

LEMMA ConvClosed ==
  ASSUME ClosedInv, AllInv, NEW c \in BoolChan, PrintBoolToIntConv(c)
  PROVE  ClosedInv'
<1>1. PICK I : I = {ToIntInst(c) : f \in boolFlags[c] \cap {"to"}}
                     \cup {ToBoolInst(c) : f \in boolFlags[c] \cap {"from"}}
  OBVIOUS
<1>2. /\ pc = "convert" /\ todo' = todo \ {c} /\ insts' = insts \cup I
      /\ UNCHANGED <<prog, pc, next, opUses, copyUses, boolFlags, decls>>
  BY <1>1 DEF PrintBoolToIntConv, ToIntInst, ToBoolInst
<1>3. pc # "failed" /\ Passed' = Passed
  BY <1>2 DEF Passed
<1>4. LinksClosed' /\ ElementsIn' /\ CopiesRead' /\ FlagsUsed'
  BY <1>2, <1>3, MoreClosed
<1>5. ConvertersIn'
  <2> SUFFICES ASSUME NEW b \in BoolChan, b \notin todo'
               PROVE  /\ "to" \in boolFlags[b] => ToIntInst(b) \in insts'
                      /\ "from" \in boolFlags[b] => ToBoolInst(b) \in insts'
    BY <1>2 DEF ClosedInv, ConvertersIn, ToIntInst, ToBoolInst, Inst, One, Raw, ToInt, FromInt, Name
  <2>1. CASE b = c
    BY <1>1, <1>2, <2>1
  <2>2. CASE b # c
    BY <1>2, <2>2 DEF ClosedInv, ConvertersIn
  <2> QED
    BY <2>1, <2>2
<1>6. CopiesTaken'
  BY <1>2, TakenStays DEF ClosedInv
<1> QED
  BY <1>4, <1>5, <1>6 DEF ClosedInv

LEMMA ClosedStep ==
  ASSUME ClosedInv, AllInv, [Next]_vars
  PROVE  ClosedInv'
<1> USE DEF emitted
<1>1. next \in Nat /\ next >= 1 /\ next <= Len(prog) + 1 /\ Len(prog) \in Nat
  BY ProgType DEF AllInv, TypeOK
<1>2. PICK I : I = {}
  OBVIOUS
<1>3. CASE CollectOpUses
  <2>1. /\ UNCHANGED <<prog, boolFlags, decls, insts>> /\ insts' = insts \cup I
        /\ pc = "collect" /\ (pc' = "collect" \/ pc' = "failed")
        /\ \A c \in Chan : copyUses'[c] = copyUses[c] \/ copyUses'[c] = 0
    BY <1>2, <1>3 DEF CollectOpUses, Exit, AllInv, TypeOK
  <2>2. CopiesRead'
    <3>1. \A c \in Chan : copyUses'[c] \in {NoEntry, 0}
      BY <2>1 DEF AllInv, IInv, CopiesBounded
    <3>2. \A c \in Chan : \A k : k \notin 0..(copyUses'[c] - 1)
      BY <3>1
    <3> QED
      BY <3>2 DEF CopiesRead
  <2>3. FlagsUsed'
    BY <2>1 DEF FlagsUsed, HasReader, HasWriter, ToInt, FromInt, Name, ClosedInv
  <2>4. LinksClosed'
    BY <2>1 DEF LinksClosed, HasReader, HasWriter, ClosedInv
  <2>5. ElementsIn'
    <3>1. \A i : i \notin 1..0
      OBVIOUS
    <3> QED
      BY <2>1, <3>1 DEF ElementsIn, Passed
  <2> QED
    BY <2>1, <2>2, <2>3, <2>4, <2>5 DEF ClosedInv, ConvertersIn, CopiesTaken
<1>4. CASE CollectDone
  <2>1. /\ UNCHANGED <<prog, opUses, copyUses, boolFlags, decls, insts>> /\ insts' = insts \cup I
        /\ pc = "collect" /\ pc' = "copies"
    BY <1>2, <1>4 DEF CollectDone
  <2>2. LinksClosed' /\ ElementsIn' /\ CopiesRead' /\ FlagsUsed'
    BY <2>1, MoreClosed DEF Passed
  <2> QED
    BY <2>1, <2>2 DEF ClosedInv, ConvertersIn, CopiesTaken
<1>5. CASE \E c \in Chan : CreateCopyProc(c)
  BY <1>5, CopyClosed
<1>6. CASE CopiesDone
  <2>1. /\ UNCHANGED <<prog, opUses, copyUses, boolFlags, decls, insts>> /\ insts' = insts \cup I
        /\ pc = "copies" /\ pc' = "emit" /\ next' = 1
    BY <1>2, <1>6 DEF CopiesDone
  <2>2. LinksClosed' /\ ElementsIn' /\ CopiesRead' /\ FlagsUsed'
    BY <2>1, MoreClosed DEF Passed
  <2>3. CopiesTaken'
    <3> SUFFICES ASSUME NEW c \in Chan, opUses[c] > 0
                 PROVE  copyUses[c] = Cardinality(Sites(0, c))
      BY <2>1 DEF CopiesTaken, Sites, UsesOf, UsePorts, FirstOccurrences
    <3>1. copyUses[c] = 0
      BY <2>1 DEF AllInv, IInv, CopiesBounded
    <3>2. Sites(0, c) = {}
      BY DEF Sites
    <3> QED
      BY <3>1, <3>2, FS_EmptySet
  <2> QED
    BY <2>1, <2>2, <2>3 DEF ClosedInv, ConvertersIn
<1>7. CASE Handler
  BY <1>7, WriteClosed
<1>8. CASE ElementExit
  <2>1. /\ UNCHANGED <<prog, opUses, copyUses, boolFlags, decls, insts>> /\ insts' = insts \cup I
        /\ pc' = "failed"
    BY <1>2, <1>8 DEF ElementExit, Exit
  <2>2. LinksClosed' /\ ElementsIn' /\ CopiesRead' /\ FlagsUsed'
    BY <2>1, MoreClosed
  <2> QED
    BY <2>1, <2>2 DEF ClosedInv, ConvertersIn, CopiesTaken
<1>9. CASE EmitDone \/ ConvertDone \/ UNCHANGED vars
  <2>1. /\ UNCHANGED <<prog, next, opUses, copyUses, boolFlags, decls, insts>>
        /\ insts' = insts \cup I /\ (pc' = pc \/ (pc = "emit" /\ pc' = "convert" /\ todo' = BoolChan /\ next > Len(prog))
                                      \/ (pc = "convert" /\ pc' = "done" /\ todo = {}))
        /\ pc' = pc => todo' = todo
    BY <1>2, <1>9 DEF EmitDone, ConvertDone, vars
  <2>2. LinksClosed' /\ ElementsIn' /\ CopiesRead' /\ FlagsUsed'
    BY <2>1, MoreClosed DEF Passed
  <2>3. CopiesTaken'
    BY <2>1, TakenStays DEF ClosedInv
  <2>4. ConvertersIn'
    <3>1. pc' = "convert" /\ pc = "emit" => ConvertersIn'
      BY <1>1, <2>1 DEF ConvertersIn
    <3>2. pc' = pc \/ pc = "convert" => ConvertersIn'
      BY <2>1 DEF ConvertersIn, ClosedInv, ToIntInst, ToBoolInst, Inst, One, Raw, ToInt, FromInt, Name
    <3> QED
      BY <2>1, <3>1, <3>2
  <2> QED
    BY <2>2, <2>3, <2>4 DEF ClosedInv
<1>10. CASE \E c \in BoolChan : PrintBoolToIntConv(c)
  BY <1>10, ConvClosed
<1> QED
  BY <1>3, <1>4, <1>5, <1>6, <1>7, <1>8, <1>9, <1>10 DEF Next, Handler, Terminating

(* What the translator makes up keeps its two ends. *)
THEOREM ClosedTheorem == Spec => [](AllInv /\ ScopeInv /\ ClosedInv)
<1>1. Init => ScopeInv /\ ClosedInv
  <2> SUFFICES ASSUME Init PROVE ScopeInv /\ ClosedInv
    OBVIOUS
  <2>1. ScopeInv
    BY DEF Init, ScopeInv, FlagsDeclared
  <2>2. \A k : k \notin 1..0 /\ k \notin 0..(NoEntry - 1)
    OBVIOUS
  <2>3. ClosedInv
    BY <2>2 DEF Init, ClosedInv, FlagsUsed, LinksClosed, ElementsIn, Passed, ConvertersIn, CopiesRead, CopiesTaken
  <2> QED
    BY <2>1, <2>3
<1>2. ScopeInv /\ ClosedInv /\ AllInv /\ [Next]_vars => ScopeInv' /\ ClosedInv'
  BY ScopeStep, ClosedStep
<1> QED
  BY <1>1, <1>2, TextTheorem, PTL DEF Spec

(* A name with both ends has one port at each of them. *)
LEMMA OneEachEnd ==
  ASSUME AllInv, NEW n, n.chan # Null => ~Bypassed(n.chan), HasReader(n), HasWriter(n)
  PROVE  Cardinality(Readers(n)) = 1 /\ Cardinality(Writers(n)) = 1
<1>1. (\A r, s \in Readers(n) : r = s) /\ (\A w, v \in Writers(n) : w = v)
  BY PortFacts, OneReader, OneWriter
<1>2. Readers(n) # {}
  <2>1. PICK x \in insts : \E p \in DOMAIN x.ins : x.ins[p] = n
    BY DEF HasReader
  <2>2. PICK p \in DOMAIN x.ins : x.ins[p] = n
    BY <2>1
  <2>3. <<x, p>> \in Readers(n)
    BY <2>2, PortFacts
  <2> QED
    BY <2>3
<1>3. Writers(n) # {}
  <2>1. PICK x \in insts : \E p \in DOMAIN x.outs : x.outs[p] = n
    BY DEF HasWriter
  <2>2. PICK p \in DOMAIN x.outs : x.outs[p] = n
    BY <2>1
  <2>3. <<x, p>> \in Writers(n)
    BY <2>2, PortFacts
  <2> QED
    BY <2>3
<1> QED
  BY <1>1, <1>2, <1>3, AtMostOne

(* When the translator is done, what it declared has both ends. *)
LEMMA DeclaredClosed ==
  ASSUME ClosedInv, ScopeInv, AllInv, pc = "done", NEW n, Declared(n)
  PROVE  HasReader(n) /\ HasWriter(n)
<1>1. PICK d \in decls : d.name = n
  BY DEF Declared
<1>2. Known(n)
  BY <1>1 DEF ScopeInv
<1>3. ASSUME NEW c \in BoolChan, n = ToInt(c), "to" \in boolFlags[c]
      PROVE  HasReader(n) /\ HasWriter(n)
  <2>1. HasReader(n)
    BY <1>3 DEF ClosedInv, FlagsUsed
  <2>2. PICK x : x = ToIntInst(c)
    OBVIOUS
  <2>3. x \in insts
    BY <1>3, <2>2 DEF ClosedInv, ConvertersIn
  <2>4. DOMAIN x.outs = {1} /\ x.outs[1] = n
    BY <1>3, <2>2, InstFields, OnePort DEF ToIntInst
  <2> QED
    BY <2>1, <2>3, <2>4 DEF HasWriter
<1>4. ASSUME NEW c \in BoolChan, n = FromInt(c), "from" \in boolFlags[c]
      PROVE  HasReader(n) /\ HasWriter(n)
  <2>1. HasWriter(n)
    BY <1>4 DEF ClosedInv, FlagsUsed
  <2>2. PICK x : x = ToBoolInst(c)
    OBVIOUS
  <2>3. x \in insts
    BY <1>4, <2>2 DEF ClosedInv, ConvertersIn
  <2>4. DOMAIN x.ins = {1} /\ x.ins[1] = n
    BY <1>4, <2>2, InstFields, OnePort DEF ToBoolInst
  <2> QED
    BY <2>1, <2>3, <2>4 DEF HasReader
<1>5. CASE n.kind \notin {"toint", "fromint"}
  BY <1>1, <1>5 DEF ClosedInv, LinksClosed
<1>6. CASE n.kind \in {"toint", "fromint"}
  <2>1. ~NumberedOut(n) /\ \A c, k : n # Stage(c, k)
    BY <1>6, NameKinds DEF NumberedOut
  <2> QED
    BY <1>2, <1>3, <1>4, <2>1 DEF Known
<1> QED
  BY <1>5, <1>6

(* And so has each output of a copy, unless a sink takes the channel itself. *)
LEMMA CopiesClosed ==
  ASSUME ClosedInv, AllInv, pc = "done", NEW x \in insts, x.kind = "copy",
         NEW k \in DOMAIN x.outs, NEW n, n = x.outs[k], n.chan # Null => ~Bypassed(n.chan)
  PROVE  HasReader(n) /\ HasWriter(n)
<1>1. HasWriter(n)
  BY DEF HasWriter
<1>2. PICK c \in Chan : opUses[c] > 0 /\ x = CopyInst(c)
  BY DEF AllInv, CopyText, Copies, Copied
<1>3. opUses[c] = UseCount(c) - 1 /\ opUses[c] \in Nat /\ UseCount(c) \in Nat
  BY <1>2, FS_CardinalityType DEF AllInv, TextInv, TextCounts, UseCount, TypeOK
<1>4. k \in 1..(opUses[c] + 1) /\ n = CopyOut(c, k - 1)
  BY <1>2, <1>3, InstFields DEF CopyInst, NumOut
<1>5. n.chan = c
  BY <1>4, NameFields DEF CopyOut
<1>6. ~Sunk(c)
  BY <1>2, <1>3, <1>5, NullAssumption DEF Bypassed
<1>7. next = Len(prog) + 1 /\ Len(prog) \in Nat
  BY ProgType DEF ClosedInv, ConvertersIn, AllInv, TypeOK
<1>8. copyUses[c] = Cardinality(Sites(next - 1, c))
  BY <1>2, <1>6 DEF ClosedInv, CopiesTaken
<1>9. copyUses[c] = opUses[c] + 1
  BY <1>3, <1>7, <1>8 DEF UseCount
<1>10. k - 1 \in 0..(copyUses[c] - 1)
  BY <1>3, <1>4, <1>9
<1> QED
  BY <1>1, <1>2, <1>4, <1>10 DEF ClosedInv, CopiesRead

(* When the translator is done, each channel it made up has one writer and   *)
(* one reader, whatever the program: NetClosed of ProcGenerator. The channels *)
(* that a sink or the control of a mixer bypasses are left out, as there.    *)
THEOREM NetClosedTheorem == Spec => []NetClosed
<1>1. AllInv /\ ScopeInv /\ ClosedInv => NetClosed
  <2> SUFFICES ASSUME AllInv, ScopeInv, ClosedInv, pc = "done",
                      NEW n \in {d.name : d \in decls} \cup EmittedNames,
                      n.kind # "raw", n.chan # Null => ~Bypassed(n.chan)
               PROVE  Cardinality(Readers(n)) = 1 /\ Cardinality(Writers(n)) = 1
    BY DEF NetClosed
  <2>1. CASE Declared(n)
    BY <2>1, DeclaredClosed, OneEachEnd
  <2>2. CASE ~Declared(n)
    <3>1. n \in EmittedNames
      BY <2>2 DEF Declared
    <3>2. InScope(n)
      BY <3>1 DEF ScopeInv, EmittedNames
    <3>3. PICK x \in insts : x.kind = "copy" /\ \E k \in DOMAIN x.outs : n = x.outs[k]
      BY <2>2, <3>2 DEF InScope
    <3> QED
      BY <3>3, CopiesClosed, OneEachEnd
  <2> QED
    BY <2>1, <2>2
<1> QED
  BY <1>1, ClosedTheorem, PTL
-----------------------------------------------------------------------------
(* The storage behind the outputs of a function unit. *)

(* T holds the first m stages of a chain; they are pairwise different. *)
FirstStages(T, at, out, m) ==
  \A x : x \in T <=> \E k \in Nat : k < m /\ x = StageInst(at, out, k)

LEMMA StageCount ==
  ASSUME NEW at, NEW out, NEW m \in Nat, NEW T, FirstStages(T, at, out, m)
  PROVE  Cardinality(T) = m
<1> DEFINE S == 0..(m - 1)
           f == [k \in S |-> StageInst(at, out, k)]
<1>1. IsFiniteSet(S) /\ Cardinality(S) = m
  BY FS_Interval
<1>2. \A k : k \in S <=> k \in Nat /\ k < m
  OBVIOUS
<1> HIDE DEF S
<1>3. \A k \in S : f[k] \in T
  BY <1>2 DEF FirstStages
<1>4. \A x \in T : \E k \in S : f[k] = x
  BY <1>2 DEF FirstStages
<1>5. \A k, l \in S : f[k] = f[l] => k = l
  <2> SUFFICES ASSUME NEW k \in S, NEW l \in S, StageInst(at, out, k) = StageInst(at, out, l)
               PROVE  k = l
    OBVIOUS
  <2>1. Stage(out.chan, k) = Stage(out.chan, l)
    BY StageFields
  <2> QED
    BY <1>2, <2>1, StageInjective
<1>6. f \in Surjection(S, T)
  BY <1>3, <1>4 DEF Surjection
<1>7. f \in Injection(S, T)
  BY <1>3, <1>5 DEF Injection, IsInjective
<1> QED
  BY <1>1, <1>6, <1>7, FS_Surjection

(* The chain in the text: the processes behind output o of element i. *)
ChainOf(i, c, kind) == {x \in insts : x.kind = kind /\ x.at = i /\ x.outs[1].chan = c}
IsChain(T, i, o, out, kind) ==
  \A x : x \in T <=> /\ o \in BuffOuts(prog[i])
                    /\ \E k \in 0..Inner(out) : x = StageInst(i, out, k) /\ x.kind = kind

LEMMA ChainInText ==
  ASSUME AllInv, ClosedInv, pc = "done", NEW i \in 1..Len(prog), prog[i].t \in FC,
         NEW o \in DOMAIN prog[i].outs, NEW out, out = prog[i].outs[o],
         NEW kind \in {"init", "onebuf"}
  PROVE  IsChain(ChainOf(i, out.chan, kind), i, o, out, kind)
<1> SUFFICES ASSUME NEW x
             PROVE  x \in ChainOf(i, out.chan, kind)
                      <=> /\ o \in BuffOuts(prog[i])
                          /\ \E k \in 0..Inner(out) : x = StageInst(i, out, k) /\ x.kind = kind
  BY DEF IsChain
<1>1. prog \in Programs /\ next = Len(prog) + 1 /\ Len(prog) \in Nat
  BY ProgType DEF AllInv, TypeOK, ClosedInv, ConvertersIn
<1>2. out \in Output /\ out.chan # Null /\ Inner(out) \in Nat
  BY <1>1, ElementFacts, NullOutputs, InnerType DEF FC
<1>3. ASSUME NEW k \in 0..Inner(out), x = StageInst(i, out, k)
      PROVE  x.at = i /\ x.outs[1].chan = out.chan
  BY <1>3, StageFields, StageChan, NameKinds
<1>4. ASSUME o \in BuffOuts(prog[i]), NEW k \in 0..Inner(out), x = StageInst(i, out, k)
      PROVE  x \in insts
  <2>1. x \in BuffChain(i, out)
    BY <1>2, <1>4, StageWritten
  <2>2. BuffChain(i, out) \subseteq insts
    BY <1>1, <1>4 DEF ClosedInv, ElementsIn, Passed
  <2> QED
    BY <2>1, <2>2
<1>5. ASSUME x \in insts, x.kind = kind, x.at = i, x.outs[1].chan = out.chan
      PROVE  o \in BuffOuts(prog[i]) /\ \E k \in 0..Inner(out) : x = StageInst(i, out, k)
  <2>1. ElementShape(x)
    BY <1>5, ShapeAt DEF AllInv, TextInv, Shapes
  <2>2. ~UnitShape(x, prog[i]) /\ ~SourceShape(x, prog[i]) /\ ~SinkShape(x, prog[i])
    BY <1>5, InstFields DEF UnitShape, UnitKind, SourceShape, SinkShape, FC
  <2>3. BuffShape(x, prog[i])
    BY <1>5, <2>1, <2>2 DEF ElementShape
  <2>4. PICK u \in BuffOuts(prog[i]) : x \in BuffChain(i, prog[i].outs[u])
    BY <1>5, <2>3 DEF BuffShape
  <2>5. u \in DOMAIN prog[i].outs /\ prog[i].outs[u] \in Output
    BY <1>1, ElementFacts DEF BuffOuts, Calcs
  <2>6. PICK k \in 0..Inner(prog[i].outs[u]) : x = StageInst(i, prog[i].outs[u], k)
    BY <2>4, <2>5, ChainStage
  <2>7. x.outs[1].chan = prog[i].outs[u].chan
    BY <2>6, StageFields, StageChan, NameKinds
  <2>8. prog[i].outs[o].chan = prog[i].outs[u].chan /\ prog[i].outs[o].chan # Null
    BY <1>2, <1>5, <2>7
  <2>9. o = u
    BY <1>1, <2>5, <2>8, DrivenOnce
  <2> QED
    BY <2>4, <2>6, <2>9
<1> QED
  BY <1>3, <1>4, <1>5 DEF ChainOf

(* What the last stage of a chain is. *)
LEMMA StageKind ==
  ASSUME NEW at, NEW out, NEW k
  PROVE  StageInst(at, out, k).kind = IF k < Inner(out) \/ out.buf # "init" THEN "onebuf" ELSE "init"
BY InstFields DEF StageInst

(* The places behind output o: none without a buffer clause, the process    *)
(* that starts with the initial value and nbuf - 1 onebufs, or nbuf - 1.    *)
LEMMA OutputSlack ==
  ASSUME AllInv, ClosedInv, pc = "done", NEW i \in 1..Len(prog), prog[i].t \in FC,
         NEW o \in DOMAIN prog[i].outs, NEW out, out = prog[i].outs[o]
  PROVE  /\ Cardinality(ChainOf(i, out.chan, "init")) = IF out.buf = "init" THEN 1 ELSE 0
         /\ Cardinality(ChainOf(i, out.chan, "onebuf"))
              = IF out.buf # "none" /\ out.nbuf > 1 THEN out.nbuf - 1 ELSE 0
<1>1. prog \in Programs /\ next = Len(prog) + 1 /\ Len(prog) \in Nat
  BY ProgType DEF AllInv, TypeOK, ClosedInv, ConvertersIn
<1>2. out \in Output /\ Inner(out) \in Nat
  BY <1>1, ElementFacts, InnerType
<1>3. /\ out.expr \in {"calc", "const"} /\ out.buf \in {"none", "plain", "init", "initexpr"}
      /\ out.nbuf \in Int
  BY <1>2 DEF Output
<1>4. /\ out.expr = "const" => out.buf = "none"
      /\ out.expr = "calc" => out.buf # "initexpr"
  BY <1>1 DEF ClosedInv, ElementsIn, Passed
<1>5. o \in BuffOuts(prog[i]) <=> out.expr = "calc" /\ HasBuff(out)
  BY DEF BuffOuts, Calcs
<1>6. PICK A, B : A = ChainOf(i, out.chan, "init") /\ B = ChainOf(i, out.chan, "onebuf")
  OBVIOUS
<1>7. IsChain(A, i, o, out, "init")
  BY <1>6, ChainInText
<1>8. IsChain(B, i, o, out, "onebuf")
  BY <1>6, ChainInText
<1>9. PICK n : n = out.nbuf
  OBVIOUS
<1>10. CASE out.buf = "init"
  <2>1. o \in BuffOuts(prog[i])
    BY <1>3, <1>4, <1>5, <1>10 DEF HasBuff
  <2>2. Inner(out) = IF n - 1 > 0 THEN n - 1 ELSE 0
    BY <1>9, <1>10 DEF Inner
  <2>3. A = {StageInst(i, out, Inner(out))}
    BY <1>2, <1>7, <1>10, <2>1, StageKind DEF IsChain
  <2>4. FirstStages(B, i, out, Inner(out))
    BY <1>2, <1>8, <1>10, <2>1, StageKind DEF IsChain, FirstStages
  <2>5. Cardinality(A) = 1
    BY <2>3, FS_Singleton
  <2>6. Cardinality(B) = Inner(out)
    BY <1>2, <2>4, StageCount
  <2>7. n - 1 > 0 <=> n > 1
    BY <1>3, <1>9
  <2> QED
    BY <1>6, <1>9, <1>10, <2>2, <2>5, <2>6, <2>7
<1>11. CASE out.buf = "plain" /\ n >= 2
  <2>1. o \in BuffOuts(prog[i])
    BY <1>3, <1>4, <1>5, <1>9, <1>11 DEF HasBuff
  <2>2. PICK m : m = n - 1
    OBVIOUS
  <2>3. m \in Nat /\ n > 1 /\ n - 2 = m - 1 /\ (n - 2 > 0 \/ m - 1 = 0)
    BY <1>3, <1>9, <1>11, <2>2
  <2>4. Inner(out) = m - 1
    BY <1>9, <1>11, <2>3 DEF Inner
  <2>5. A = {}
    BY <1>7, <1>11, StageKind DEF IsChain
  <2>6. \A k : k \in 0..Inner(out) <=> k \in Nat /\ k < m
    BY <2>3, <2>4
  <2>7. FirstStages(B, i, out, m)
    BY <1>8, <1>11, <2>1, <2>6, StageKind DEF IsChain, FirstStages
  <2>8. Cardinality(A) = 0
    BY <2>5, FS_EmptySet
  <2>9. Cardinality(B) = m
    BY <2>3, <2>7, StageCount
  <2> QED
    BY <1>6, <1>9, <1>11, <2>2, <2>3, <2>8, <2>9
<1>12. CASE out.buf = "none" \/ (out.buf = "plain" /\ ~(n >= 2))
  <2>1. o \notin BuffOuts(prog[i])
    BY <1>5, <1>9, <1>12 DEF HasBuff
  <2>2. A = {} /\ B = {}
    BY <1>7, <1>8, <2>1 DEF IsChain
  <2>3. Cardinality(A) = 0 /\ Cardinality(B) = 0
    BY <2>2, FS_EmptySet
  <2>4. out.buf # "init" /\ ~(out.buf # "none" /\ n > 1)
    BY <1>3, <1>9, <1>12
  <2> QED
    BY <1>6, <1>9, <2>3, <2>4
<1> QED
  BY <1>3, <1>4, <1>10, <1>11, <1>12

(* The storage between a function unit and its output is what the source     *)
(* asks for, whatever the program: SlackAsWritten of ProcGenerator.          *)
THEOREM SlackAsWrittenTheorem == Spec => []SlackAsWritten
<1>1. AllInv /\ ClosedInv => SlackAsWritten
  <2> SUFFICES ASSUME AllInv, ClosedInv, pc = "done", NEW i \in DOMAIN prog, prog[i].t \in FC,
                      NEW o \in DOMAIN prog[i].outs
               PROVE  /\ Cardinality(ChainOf(i, prog[i].outs[o].chan, "init"))
                           = IF prog[i].outs[o].buf = "init" THEN 1 ELSE 0
                      /\ Cardinality(ChainOf(i, prog[i].outs[o].chan, "onebuf"))
                           = IF prog[i].outs[o].buf # "none" /\ prog[i].outs[o].nbuf > 1
                             THEN prog[i].outs[o].nbuf - 1 ELSE 0
    BY Zenon DEF SlackAsWritten, FC, ChainOf
  <2>1. i \in 1..Len(prog)
    BY ProgType DEF AllInv, TypeOK
  <2> QED
    BY <2>1, OutputSlack
<1> QED
  BY <1>1, ClosedTheorem, PTL

-----------------------------------------------------------------------------
(* Trails. *)

(* d steps back from n lead to r. *)
Walk(n, r, d) ==
  \E f : /\ f[0] = n /\ f[d] = r
         /\ \A k \in 0..(d - 1) : f[k + 1] = Upstream(f[k])

(* The processes of T, each passed once, lead from n back to r, where a     *)
(* process that computes, or nobody, is the writer.                         *)
Trail(n, r, T) ==
  /\ T \subseteq insts /\ IsFiniteSet(T)
  /\ Walk(n, r, Cardinality(T)) /\ Upstream(r) = r

LEMMA TrailEnd ==
  ASSUME NEW r, Upstream(r) = r
  PROVE  Trail(r, r, {})
<1>1. Cardinality({}) = 0 /\ IsFiniteSet({})
  BY FS_EmptySet
<1>2. PICK f : f = [k \in {0} |-> r]
  OBVIOUS
<1>3. f[0] = r /\ \A k \in 0..(0 - 1) : f[k + 1] = Upstream(f[k])
  BY <1>2
<1>4. Walk(r, r, 0)
  BY <1>3 DEF Walk
<1> QED
  BY <1>1, <1>4 DEF Trail

LEMMA TrailLonger ==
  ASSUME NEW n, NEW m, NEW r, NEW T, Trail(m, r, T), Upstream(n) = m, NEW z \in insts, z \notin T
  PROVE  Trail(n, r, T \cup {z})
<1>1. PICK d : d = Cardinality(T)
  OBVIOUS
<1>2. d \in Nat /\ IsFiniteSet(T \cup {z}) /\ Cardinality(T \cup {z}) = d + 1
  BY <1>1, FS_AddElement, FS_CardinalityType DEF Trail
<1>3. PICK f : /\ f[0] = m /\ f[d] = r
               /\ \A k \in 0..(d - 1) : f[k + 1] = Upstream(f[k])
  BY <1>1 DEF Trail, Walk
<1>4. PICK g : g = [k \in 0..(d + 1) |-> IF k = 0 THEN n ELSE f[k - 1]]
  OBVIOUS
<1>5. g[0] = n /\ g[d + 1] = r
  BY <1>2, <1>3, <1>4
<1>6. ASSUME NEW k \in 0..((d + 1) - 1) PROVE g[k + 1] = Upstream(g[k])
  <2>1. k + 1 \in 0..(d + 1) /\ k + 1 # 0 /\ (k + 1) - 1 = k /\ k \in 0..(d + 1)
    BY <1>2
  <2>2. g[k + 1] = f[k] /\ g[k] = IF k = 0 THEN n ELSE f[k - 1]
    BY <1>4, <2>1
  <2>3. CASE k = 0
    BY <1>3, <2>2, <2>3
  <2>4. CASE k # 0
    <3>1. k - 1 \in 0..(d - 1) /\ (k - 1) + 1 = k
      BY <1>2, <2>4
    <3> QED
      BY <1>3, <2>2, <2>4, <3>1
  <2> QED
    BY <2>3, <2>4
<1>7. Walk(n, r, d + 1)
  BY <1>5, <1>6 DEF Walk
<1> QED
  BY <1>2, <1>7 DEF Trail

(* Root is the end of the trail, however much further it tries to go. *)
IsUp(f, n, K) == f = [k \in 0..K |-> IF k = 0 THEN n ELSE Upstream(f[k - 1])]

LEMMA UpExists ==
  ASSUME NEW n, NEW K \in Nat
  PROVE  \E f : IsUp(f, n, K)
<1> DEFINE T == {k \in Nat : ~ \E f : IsUp(f, n, k)}
<1>1. SUFFICES T = {}
  OBVIOUS
<1>2. SUFFICES ASSUME T # {} PROVE FALSE
  OBVIOUS
<1>3. PICK k \in T : \A j \in T : k <= j
  BY <1>2, LeastNatural
<1>4. k \in Nat /\ ~ \E f : IsUp(f, n, k)
  OBVIOUS
<1>5. k # 0
  <2>1. PICK f : f = [j \in 0..0 |-> n]
    OBVIOUS
  <2>2. f = [j \in 0..0 |-> IF j = 0 THEN n ELSE Upstream(f[j - 1])]
    BY <2>1
  <2> QED
    BY <1>4, <2>2 DEF IsUp
<1>6. PICK f : IsUp(f, n, k - 1)
  <2>1. k - 1 \in Nat /\ ~(k <= k - 1)
    BY <1>4, <1>5
  <2> QED
    BY <1>3, <2>1
<1>7. PICK g : g = [j \in 0..k |-> IF j = k THEN Upstream(f[k - 1]) ELSE f[j]]
  OBVIOUS
<1>8. ASSUME NEW j \in 0..k PROVE g[j] = IF j = 0 THEN n ELSE Upstream(g[j - 1])
  <2>1. \A i \in 0..(k - 1) : f[i] = IF i = 0 THEN n ELSE Upstream(f[i - 1])
    BY <1>6 DEF IsUp
  <2>2. CASE j = k
    <3>1. k - 1 \in 0..k /\ k - 1 # k /\ j # 0
      BY <1>4, <1>5, <2>2
    <3>2. g[j] = Upstream(f[k - 1]) /\ g[k - 1] = f[k - 1]
      BY <1>7, <2>2, <3>1
    <3> QED
      BY <2>2, <3>1, <3>2
  <2>3. CASE j # k
    <3>1. j \in 0..(k - 1) /\ (j # 0 => j - 1 \in 0..k /\ j - 1 # k)
      BY <1>4, <2>3
    <3>2. g[j] = f[j] /\ (j # 0 => g[j - 1] = f[j - 1])
      BY <1>7, <2>3, <3>1
    <3> QED
      BY <2>1, <3>1, <3>2
  <2> QED
    BY <2>2, <2>3
<1>9. g = [j \in 0..k |-> IF j = 0 THEN n ELSE Upstream(g[j - 1])]
  BY <1>7, <1>8
<1> QED
  BY <1>4, <1>9 DEF IsUp

LEMMA RootIsEnd ==
  ASSUME IsFiniteSet(insts), NEW n, NEW r, NEW T, Trail(n, r, T)
  PROVE  Root(n) = r
<1>1. PICK K, d : K = Cardinality(insts) /\ d = Cardinality(T)
  OBVIOUS
<1>2. K \in Nat /\ d \in Nat /\ d <= K
  BY <1>1, FS_Subset, FS_CardinalityType DEF Trail
<1>3. PICK f : /\ f[0] = n /\ f[d] = r
               /\ \A k \in 0..(d - 1) : f[k + 1] = Upstream(f[k])
  BY <1>1 DEF Trail, Walk
<1>4. PICK u : u = CHOOSE g : IsUp(g, n, K)
  OBVIOUS
<1>5. Root(n) = u[K]
  BY <1>1, <1>4 DEF Root, IsUp
<1>6. IsUp(u, n, K)
  BY <1>2, <1>4, UpExists
<1>7. \A k \in 0..K : u[k] = IF k = 0 THEN n ELSE Upstream(u[k - 1])
  BY <1>6 DEF IsUp
<1> DEFINE W == {k \in 0..K : u[k] # IF k <= d THEN f[k] ELSE r}
<1>8. W = {}
  <2>1. SUFFICES ASSUME W # {} PROVE FALSE
    OBVIOUS
  <2>2. W \subseteq Nat
    BY <1>2
  <2>3. PICK k \in W : \A j \in W : k <= j
    BY <2>1, <2>2, LeastNatural
  <2>4. k \in 0..K /\ u[k] # IF k <= d THEN f[k] ELSE r
    OBVIOUS
  <2>5. k # 0
    BY <1>2, <1>3, <1>7, <2>4
  <2>6. k - 1 \in 0..K /\ ~(k <= k - 1) /\ (k - 1) + 1 = k
    BY <1>2, <2>4, <2>5
  <2>7. u[k - 1] = IF k - 1 <= d THEN f[k - 1] ELSE r
    BY <2>3, <2>6
  <2>8. u[k] = Upstream(u[k - 1])
    BY <1>7, <2>4, <2>5
  <2>9. CASE k <= d
    <3>1. k - 1 \in 0..(d - 1) /\ k - 1 <= d
      BY <1>2, <2>4, <2>5, <2>9
    <3>2. f[k] = Upstream(f[k - 1])
      BY <1>3, <2>6, <3>1
    <3> QED
      BY <2>4, <2>7, <2>8, <2>9, <3>1, <3>2
  <2>10. CASE ~(k <= d)
    <3>1. u[k - 1] = r
      <4>1. k - 1 <= d => k - 1 = d
        BY <1>2, <2>4, <2>10
      <4> QED
        BY <1>3, <2>7, <4>1
    <3> QED
      BY <2>4, <2>8, <2>10, <3>1 DEF Trail
  <2> QED
    BY <2>9, <2>10
<1>9. u[K] = IF K <= d THEN f[K] ELSE r
  BY <1>2, <1>8
<1> QED
  BY <1>2, <1>3, <1>5, <1>9

-----------------------------------------------------------------------------
(* One step back. *)

LEMMA Feeds ==
  ASSUME NEW n
  PROVE  LET feeds == {w[1] : w \in {v \in Writers(n) : v[1].kind \in Transparent}}
         IN  \A x : x \in feeds <=> x \in insts /\ x.kind \in Transparent
                                      /\ \E p \in DOMAIN x.outs : x.outs[p] = n
<1> DEFINE feeds == {w[1] : w \in {v \in Writers(n) : v[1].kind \in Transparent}}
<1>1. ASSUME NEW x
      PROVE  x \in feeds <=> \E w \in Writers(n) : w[1] = x /\ x.kind \in Transparent
  OBVIOUS
<1>2. \A x, p : <<x, p>>[1] = x
  OBVIOUS
<1> HIDE DEF feeds
<1>3. ASSUME NEW x
      PROVE  x \in feeds <=> x \in insts /\ x.kind \in Transparent
                               /\ \E p \in DOMAIN x.outs : x.outs[p] = n
  <2>1. ASSUME x \in feeds
        PROVE  x \in insts /\ x.kind \in Transparent /\ \E p \in DOMAIN x.outs : x.outs[p] = n
    <3>1. PICK w \in Writers(n) : w[1] = x /\ x.kind \in Transparent
      BY <1>1, <2>1
    <3>2. PICK y \in insts : \E p \in DOMAIN y.outs : w = <<y, p>> /\ y.outs[p] = n
      BY PortFacts
    <3> QED
      BY <1>2, <3>1, <3>2
  <2>2. ASSUME x \in insts, x.kind \in Transparent, NEW p \in DOMAIN x.outs, x.outs[p] = n
        PROVE  x \in feeds
    <3>1. <<x, p>> \in Writers(n)
      BY <2>2, PortFacts
    <3> QED
      BY <1>1, <1>2, <2>2, <3>1
  <2> QED
    BY <2>1, <2>2
<1> QED
  BY <1>3 DEF feeds

LEMMA UpThrough ==
  ASSUME AllInv, NEW z \in insts, z.kind \in Transparent, NEW q \in DOMAIN z.outs,
         NEW n, n = z.outs[q], n.chan # Null => ~Bypassed(n.chan)
  PROVE  Upstream(n) = z.ins[1]
<1>1. PICK feeds : feeds = {w[1] : w \in {v \in Writers(n) : v[1].kind \in Transparent}}
  OBVIOUS
<1>2. \A x : x \in feeds <=> x \in insts /\ x.kind \in Transparent
                               /\ \E p \in DOMAIN x.outs : x.outs[p] = n
  BY <1>1, Feeds
<1>3. z \in feeds
  BY <1>2
<1>4. \A x \in feeds : x = z
  BY <1>2, OneWriter
<1>5. (CHOOSE x \in feeds : TRUE) = z
  BY <1>3, <1>4
<1>6. Upstream(n) = IF feeds = {} THEN n ELSE (CHOOSE x \in feeds : TRUE).ins[1]
  BY <1>1 DEF Upstream
<1> QED
  BY <1>3, <1>5, <1>6

LEMMA UpStays ==
  ASSUME NEW n, \A z \in insts : \A q \in DOMAIN z.outs : z.outs[q] = n => z.kind \notin Transparent
  PROVE  Upstream(n) = n
<1>1. PICK feeds : feeds = {w[1] : w \in {v \in Writers(n) : v[1].kind \in Transparent}}
  OBVIOUS
<1>2. \A x : x \in feeds <=> x \in insts /\ x.kind \in Transparent
                               /\ \E p \in DOMAIN x.outs : x.outs[p] = n
  BY <1>1, Feeds
<1>3. feeds = {}
  BY <1>2
<1>4. Upstream(n) = IF feeds = {} THEN n ELSE (CHOOSE x \in feeds : TRUE).ins[1]
  BY <1>1 DEF Upstream
<1> QED
  BY <1>3, <1>4

(* The transparent processes, and what is before and behind them. *)
LEMMA Between ==
  ASSUME NEW c
  PROVE  /\ CopyInst(c).kind = "copy" /\ CopyInst(c).ins[1] = ReadBase(c)
         /\ ToIntInst(c).kind = "bool_to_int" /\ ToIntInst(c).ins[1] = Raw(c)
         /\ DOMAIN ToIntInst(c).outs = {1} /\ ToIntInst(c).outs[1] = ToInt(c)
         /\ ToBoolInst(c).kind = "int_to_bool" /\ ToBoolInst(c).ins[1] = FromInt(c)
         /\ DOMAIN ToBoolInst(c).outs = {1} /\ ToBoolInst(c).outs[1] = Raw(c)
BY InstFields, OnePort DEF CopyInst, ToIntInst, ToBoolInst

(* Only a copy, a converter or a stage of a chain is transparent. *)
LEMMA TransparentRoles ==
  ASSUME AllInv, NEW x \in insts, x.kind \in Transparent, NEW q \in DOMAIN x.outs,
         NEW n, n = x.outs[q], n.kind \notin {"sink", "anon"}
  PROVE  \/ n.kind = "copyout"
         \/ \E c \in BoolChan : \/ x = ToIntInst(c) /\ n = ToInt(c)
                                \/ x = ToBoolInst(c) /\ n = Raw(c)
         \/ \E i \in 1..Len(prog) : prog[i].t \in FC /\ \E o \in BuffOuts(prog[i]) :
              \E k \in Nat :
                 n = IF k < Inner(prog[i].outs[o]) THEN Stage(prog[i].outs[o].chan, k + 1)
                                                   ELSE OutName(prog[i].outs[o].chan)
<1>1. CASE \E c : CopyWrites(x, q, c) \/ ConvWrites(x, q, c)
  <2>1. \A c : CopyWrites(x, q, c) => n.kind = "copyout"
    BY NameFields DEF CopyWrites, CopyOut
  <2> QED
    BY <1>1, <2>1 DEF ConvWrites
<1>2. CASE \E i, o : Drives(x, q, i, o)
  <2>1. PICK i, o : Drives(x, q, i, o)
    BY <1>2
  <2>2. ~UnitDrives(x, q, i, o)
    <3>1. prog[i].t \in Kinds
      BY <2>1, ElementFacts DEF Drives, AllInv, TypeOK
    <3> QED
      BY <3>1 DEF UnitDrives, UnitShape, UnitKind, Transparent, FC, Kinds
  <2>3. ~SourceDrives(x, q, i, o)
    BY InstFields DEF SourceDrives, Transparent
  <2>4. PICK k : /\ BuffAt(x, o, k)
                 /\ n = IF k < Inner(prog[i].outs[o]) THEN Stage(prog[i].outs[o].chan, k + 1)
                                                      ELSE OutName(prog[i].outs[o].chan)
    BY <2>1, <2>2, <2>3 DEF Drives, BuffDrives
  <2>5. x.at = i /\ i \in 1..Len(prog) /\ o \in DOMAIN prog[i].outs
    BY <2>1 DEF Drives
  <2>6. Inner(prog[i].outs[o]) \in Nat
    BY <2>5, ElementFacts, InnerType DEF AllInv, TypeOK
  <2>7. k \in Nat
    BY <2>4, <2>5, <2>6 DEF BuffAt
  <2> QED
    BY <2>4, <2>5, <2>7 DEF BuffAt
<1> QED
  BY <1>1, <1>2, OutputRoles DEF NumberedOut

-----------------------------------------------------------------------------
(* The way back from the text's name of a channel of the program.          *)

(* The channel that carries what drives c: the link to its buffers, or c as *)
(* the process that drives it writes it.                                   *)
Buffered(c) ==
  \E i \in 1..Len(prog) : prog[i].t \in FC /\ \E o \in BuffOuts(prog[i]) : prog[i].outs[o].chan = c
Sender(c) == IF Buffered(c) THEN BufIn(c) ELSE OutName(c)

(* From the k-th link of a chain back to the first, through stages before it. *)
BehindChain(c, i, out, k) ==
  \E T : /\ Trail(Stage(c, k), BufIn(c), T)
         /\ \A z \in T : \E j \in Nat : j < k /\ z = StageInst(i, out, j)

LEMMA ChainTrail ==
  ASSUME AllInv, ClosedInv, pc = "done", NEW c \in Chan, ~Bypassed(c),
         NEW i \in 1..Len(prog), prog[i].t \in FC, NEW o \in BuffOuts(prog[i]),
         NEW out, out = prog[i].outs[o], out.chan = c
  PROVE  /\ \A k \in 0..Inner(out) : StageInst(i, out, k) \in insts
         /\ \A k \in Nat : k <= Inner(out) => BehindChain(c, i, out, k)
<1>1. prog \in Programs /\ next = Len(prog) + 1 /\ Len(prog) \in Nat
  BY ProgType DEF AllInv, TypeOK, ClosedInv, ConvertersIn
<1>2. o \in DOMAIN prog[i].outs /\ Inner(out) \in Nat
  BY <1>1, ElementFacts, InnerType DEF BuffOuts, Calcs
<1>3. ASSUME NEW k \in 0..Inner(out) PROVE StageInst(i, out, k) \in insts
  <2>1. StageInst(i, out, k) \in BuffChain(i, out)
    BY <1>2, StageWritten
  <2>2. BuffChain(i, out) \subseteq insts
    BY <1>1, <1>2 DEF ClosedInv, ElementsIn, Passed
  <2> QED
    BY <2>1, <2>2
<1>4. Stage(c, 0) = BufIn(c)
  BY DEF Stage
<1>5. Upstream(BufIn(c)) = BufIn(c)
  <2> SUFFICES ASSUME NEW z \in insts, NEW q \in DOMAIN z.outs, z.outs[q] = BufIn(c),
                      z.kind \in Transparent
               PROVE  FALSE
    BY UpStays
  <2>1. BufIn(c).kind = "bufIn" /\ BufIn(c).chan = c
    BY NameKinds
  <2>2. PICK j \in 1..Len(prog) : \E u \in BuffOuts(prog[j]), k \in Nat :
               BufIn(c) = IF k < Inner(prog[j].outs[u]) THEN Stage(prog[j].outs[u].chan, k + 1)
                                                        ELSE OutName(prog[j].outs[u].chan)
    BY <2>1, TransparentRoles, ReadNames
  <2>3. PICK u \in BuffOuts(prog[j]), k \in Nat :
               BufIn(c) = IF k < Inner(prog[j].outs[u]) THEN Stage(prog[j].outs[u].chan, k + 1)
                                                        ELSE OutName(prog[j].outs[u].chan)
    BY <2>2
  <2>4. OutName(prog[j].outs[u].chan).kind # "bufIn"
    BY NameKinds
  <2>5. Stage(prog[j].outs[u].chan, k + 1) = BufIn(c)
    BY <2>1, <2>3, <2>4
  <2>6. k + 1 # 0
    OBVIOUS
  <2>7. Stage(prog[j].outs[u].chan, k + 1).kind = "buf"
    BY <2>6, NameFields DEF Stage, BufName
  <2> QED
    BY <2>1, <2>5, <2>7
<1>6. ASSUME NEW k \in Nat, k <= Inner(out), ~BehindChain(c, i, out, k),
             \A j \in Nat : j < k /\ j <= Inner(out) => BehindChain(c, i, out, j)
      PROVE  FALSE
  <2>1. CASE k = 0
    <3>1. Trail(BufIn(c), BufIn(c), {})
      BY <1>5, TrailEnd
    <3> QED
      BY <1>4, <1>6, <2>1, <3>1 DEF BehindChain
  <2>2. CASE k # 0
    <3>1. PICK m : m = k - 1
      OBVIOUS
    <3>2. m \in Nat /\ m < k /\ m + 1 = k /\ m < Inner(out) /\ m \in 0..Inner(out)
      BY <1>2, <1>6, <2>2, <3>1
    <3>0. BehindChain(c, i, out, m)
      BY <1>2, <1>6, <3>2
    <3>3. PICK T : /\ Trail(Stage(c, m), BufIn(c), T)
                   /\ \A z \in T : \E j \in Nat : j < m /\ z = StageInst(i, out, j)
      BY <3>0 DEF BehindChain
    <3>4. PICK z : z = StageInst(i, out, m)
      OBVIOUS
    <3>5. /\ z \in insts /\ DOMAIN z.outs = {1} /\ z.outs[1] = Stage(c, k) /\ z.ins[1] = Stage(c, m)
          /\ z.kind \in Transparent
      BY <1>3, <3>2, <3>4, StageFields DEF Transparent
    <3>6. Upstream(Stage(c, k)) = Stage(c, m)
      BY <3>5, UpThrough, StageChan
    <3>7. z \notin T
      <4> SUFFICES ASSUME NEW j \in Nat, j < m, z = StageInst(i, out, j) PROVE FALSE
        BY <3>3
      <4>0. z.ins[1] = Stage(out.chan, j)
        BY StageFields
      <4>1. Stage(c, j) = Stage(c, m)
        BY <3>5, <4>0
      <4> QED
        BY <3>2, <4>1, StageInjective
    <3>8. Trail(Stage(c, k), BufIn(c), T \cup {z})
      BY <3>3, <3>5, <3>6, <3>7, TrailLonger
    <3>9. \A y \in T \cup {z} : \E j \in Nat : j < k /\ y = StageInst(i, out, j)
      BY <3>2, <3>3, <3>4
    <3> QED
      BY <1>6, <3>8, <3>9 DEF BehindChain
  <2> QED
    BY <2>1, <2>2
<1>7. \A k \in Nat : k <= Inner(out) => BehindChain(c, i, out, k)
  <2> DEFINE W == {k \in Nat : k <= Inner(out) /\ ~BehindChain(c, i, out, k)}
  <2> SUFFICES ASSUME W # {} PROVE FALSE
    OBVIOUS
  <2>1. PICK k \in W : \A j \in W : k <= j
    BY LeastNatural
  <2>2. k \in Nat /\ k <= Inner(out) /\ ~BehindChain(c, i, out, k)
    OBVIOUS
  <2>3. \A j \in Nat : j < k /\ j <= Inner(out) => BehindChain(c, i, out, j)
    BY <2>1, <2>2
  <2> QED
    BY <1>6, <2>2, <2>3
<1> QED
  BY <1>3, <1>7

LEMMA OutTrail ==
  ASSUME AllInv, ClosedInv, pc = "done", NEW c \in Chan, ~Bypassed(c)
  PROVE  \E T : Trail(OutName(c), Sender(c), T) /\ \A z \in T : z.kind \in {"onebuf", "init"}
<1>1. CASE Buffered(c)
  <2>1. PICK i \in 1..Len(prog) : prog[i].t \in FC /\ \E o \in BuffOuts(prog[i]) : prog[i].outs[o].chan = c
    BY <1>1 DEF Buffered
  <2>2. PICK o \in BuffOuts(prog[i]) : prog[i].outs[o].chan = c
    BY <2>1
  <2>3. PICK out : out = prog[i].outs[o]
    OBVIOUS
  <2>4. out.chan = c /\ Inner(out) \in Nat
    BY <2>2, <2>3, ElementFacts, InnerType DEF AllInv, TypeOK, BuffOuts, Calcs
  <2>5. PICK k : k = Inner(out)
    OBVIOUS
  <2>6. StageInst(i, out, k) \in insts /\ BehindChain(c, i, out, k)
    BY <2>1, <2>2, <2>3, <2>4, <2>5, ChainTrail
  <2>7. PICK T : /\ Trail(Stage(c, k), BufIn(c), T)
                 /\ \A z \in T : \E j \in Nat : j < k /\ z = StageInst(i, out, j)
    BY <2>6 DEF BehindChain
  <2>8. PICK z : z = StageInst(i, out, k)
    OBVIOUS
  <2>9. /\ z \in insts /\ DOMAIN z.outs = {1} /\ z.outs[1] = OutName(c) /\ z.ins[1] = Stage(c, k)
        /\ z.kind \in {"onebuf", "init"}
    BY <2>4, <2>5, <2>6, <2>8, StageFields
  <2>10. Upstream(OutName(c)) = Stage(c, k)
    BY <2>9, UpThrough, NameKinds DEF Transparent
  <2>11. z \notin T
    <3> SUFFICES ASSUME NEW j \in Nat, j < k, z = StageInst(i, out, j) PROVE FALSE
      BY <2>7
    <3>1. z.ins[1] = Stage(out.chan, j)
      BY StageFields
    <3>2. Stage(c, j) = Stage(c, k)
      BY <2>4, <2>9, <3>1
    <3> QED
      BY <2>4, <2>5, <3>2, StageInjective
  <2>12. Trail(OutName(c), BufIn(c), T \cup {z})
    BY <2>7, <2>9, <2>10, <2>11, TrailLonger
  <2>13. \A y \in T : y.kind \in {"onebuf", "init"}
    BY <2>7, StageFields
  <2>14. \A y \in T \cup {z} : y.kind \in {"onebuf", "init"}
    BY <2>9, <2>13
  <2> QED
    BY <1>1, <2>12, <2>14 DEF Sender
<1>2. CASE ~Buffered(c)
  <2>1. Upstream(OutName(c)) = OutName(c)
    <3> SUFFICES ASSUME NEW z \in insts, NEW q \in DOMAIN z.outs, z.outs[q] = OutName(c),
                        z.kind \in Transparent
                 PROVE  FALSE
      BY UpStays
    <3>1. /\ OutName(c).kind \in {"raw", "fromint"} /\ OutName(c).chan = c
          /\ OutName(c).kind = "raw" => c \notin BoolChan
      BY NameKinds, ReadNames
    <3>2. ASSUME NEW d \in BoolChan, OutName(c) = ToInt(d) \/ OutName(c) = Raw(d) PROVE FALSE
      BY <3>1, <3>2, NameKinds
    <3>3. ASSUME NEW i \in 1..Len(prog), prog[i].t \in FC, NEW o \in BuffOuts(prog[i]), NEW k \in Nat,
                 OutName(c) = IF k < Inner(prog[i].outs[o]) THEN Stage(prog[i].outs[o].chan, k + 1)
                                                            ELSE OutName(prog[i].outs[o].chan)
          PROVE  FALSE
      <4>1. OutName(c) = OutName(prog[i].outs[o].chan)
        BY <3>1, <3>3, NameKinds
      <4>2. prog[i].outs[o].chan = c
        BY <3>1, <4>1, NameKinds
      <4> QED
        BY <1>2, <3>3, <4>2 DEF Buffered
    <3> QED
      BY <3>1, <3>2, <3>3, TransparentRoles
  <2>2. Trail(OutName(c), OutName(c), {})
    BY <2>1, TrailEnd
  <2> QED
    BY <1>2, <2>2 DEF Sender
<1> QED
  BY <1>1, <1>2

(* The channel itself: for a bool channel the converter comes first, if the *)
(* process that drives it is one of the text's.                             *)
LEMMA RawTrail ==
  ASSUME AllInv, ClosedInv, pc = "done", NEW c \in Chan, ~Bypassed(c)
  PROVE  \E r, T : /\ Trail(Raw(c), r, T)
                   /\ \A z \in T : z.kind \in {"onebuf", "init", "int_to_bool"}
                   /\ c \notin BoolChan \/ ToBoolInst(c) \in insts => r = Sender(c)
<1>1. PICK T : Trail(OutName(c), Sender(c), T) /\ \A z \in T : z.kind \in {"onebuf", "init"}
  BY OutTrail
<1>2. CASE c \notin BoolChan
  <2>1. Raw(c) = OutName(c)
    BY <1>2, ReadNames
  <2> QED
    BY <1>1, <2>1
<1>3. CASE c \in BoolChan /\ ToBoolInst(c) \in insts
  <2>1. PICK z : z = ToBoolInst(c)
    OBVIOUS
  <2>2. /\ z \in insts /\ z.kind = "int_to_bool" /\ z.ins[1] = OutName(c)
        /\ DOMAIN z.outs = {1} /\ z.outs[1] = Raw(c)
    BY <1>3, <2>1, Between, ReadNames
  <2>3. Upstream(Raw(c)) = OutName(c)
    BY <2>2, UpThrough, NameKinds DEF Transparent
  <2>4. z \notin T
    BY <1>1, <2>2
  <2>5. Trail(Raw(c), Sender(c), T \cup {z})
    BY <1>1, <2>2, <2>3, <2>4, TrailLonger
  <2>6. \A y \in T \cup {z} : y.kind \in {"onebuf", "init", "int_to_bool"}
    BY <1>1, <2>2
  <2> QED
    BY <2>5, <2>6
<1>4. CASE c \in BoolChan /\ ToBoolInst(c) \notin insts
  <2>1. Upstream(Raw(c)) = Raw(c)
    <3> SUFFICES ASSUME NEW z \in insts, NEW q \in DOMAIN z.outs, z.outs[q] = Raw(c),
                        z.kind \in Transparent
                 PROVE  FALSE
      BY UpStays
    <3>1. Raw(c).kind = "raw" /\ Raw(c).chan = c
      BY NameKinds
    <3>2. ASSUME NEW d \in BoolChan, \/ z = ToIntInst(d) /\ Raw(c) = ToInt(d)
                                     \/ z = ToBoolInst(d) /\ Raw(c) = Raw(d)
          PROVE FALSE
      <4>1. Raw(d).chan = d /\ ToInt(d).kind = "toint"
        BY NameKinds
      <4>2. d = c /\ z = ToBoolInst(c)
        BY <3>1, <3>2, <4>1
      <4> QED
        BY <1>4, <4>2
    <3>3. ASSUME NEW d, NEW k, Raw(c) = Stage(d, k) \/ Raw(c) = OutName(d)
          PROVE  FALSE
      <4>1. Stage(d, k).kind # "raw" /\ OutName(d).chan = d /\ (OutName(d).kind = "raw" => d \notin BoolChan)
        BY NameKinds, ReadNames
      <4> QED
        BY <1>4, <3>1, <3>3, <4>1
    <3> QED
      BY <3>1, <3>2, <3>3, TransparentRoles
  <2>2. Trail(Raw(c), Raw(c), {})
    BY <2>1, TrailEnd
  <2> QED
    BY <1>4, <2>2
<1> QED
  BY <1>2, <1>3, <1>4

(* When the translator is done, each int twin in use has its converter. *)
LEMMA Converted ==
  ASSUME AllInv, ScopeInv, ClosedInv, pc = "done", NEW c \in BoolChan, NEW y \in insts
  PROVE  /\ ToInt(c) \in PortNames(y) => ToIntInst(c) \in insts
         /\ FromInt(c) \in PortNames(y) => ToBoolInst(c) \in insts
<1>1. ASSUME NEW n, n = ToInt(c) \/ n = FromInt(c), n \in PortNames(y)
      PROVE  /\ n = ToInt(c) => "to" \in boolFlags[c]
             /\ n = FromInt(c) => "from" \in boolFlags[c]
  <2>1. n.kind = (IF n = ToInt(c) THEN "toint" ELSE "fromint") /\ n.chan = c
    BY <1>1, NameKinds
  <2>2. InScope(n)
    BY <1>1 DEF ScopeInv
  <2>3. Declared(n)
    BY <2>1, <2>2 DEF InScope
  <2>4. Known(n)
    BY <2>3 DEF ScopeInv, Declared
  <2>5. ~NumberedOut(n) /\ \A d, k : n # Stage(d, k)
    BY <2>1, NameKinds DEF NumberedOut
  <2>6. \A d : (n = ToInt(d) \/ n = FromInt(d)) => d = c
    BY <2>1, NameKinds
  <2>7. ToInt(c) # FromInt(c)
    BY NameKinds
  <2>8. \/ \E d \in BoolChan : n = ToInt(d) /\ "to" \in boolFlags[d]
        \/ \E d \in BoolChan : n = FromInt(d) /\ "from" \in boolFlags[d]
    BY <2>4, <2>5 DEF Known
  <2> QED
    BY <2>6, <2>7, <2>8
<1> QED
  BY <1>1 DEF ClosedInv, ConvertersIn

(* An operand of a unit gets what its channel carries. *)
LEMMA OperandTrail ==
  ASSUME AllInv, ScopeInv, ClosedInv, pc = "done", NEW x \in insts, NEW e, UnitShape(x, e),
         NEW p \in UsePorts(e), NEW c \in Chan, c = e.reads[p], ~Bypassed(c),
         opUses[c] \in Nat, NEW r, NEW T, Trail(Raw(c), r, T),
         \A z \in T : z.kind \in {"onebuf", "init", "int_to_bool"}
  PROVE  \E U : Trail(x.ins[p], r, U)
<1>1. p \in DOMAIN x.ins /\ OperandOf(x.ins[p], c)
  BY DEF UnitShape
<1>2. ASSUME NEW y \in insts, NEW q \in DOMAIN y.ins, y.ins[q] = ReadBase(c)
      PROVE  \E U : Trail(ReadBase(c), r, U)
               /\ \A z \in U : z.kind \in {"onebuf", "init", "int_to_bool", "bool_to_int"}
  <2>1. CASE c \notin BoolChan
    BY <2>1, ReadNames
  <2>2. CASE c \in BoolChan
    <3>1. ReadBase(c) = ToInt(c) /\ ToInt(c) \in PortNames(y)
      BY <1>2, <2>2, ReadNames DEF PortNames
    <3>2. PICK z : z = ToIntInst(c)
      OBVIOUS
    <3>3. /\ z \in insts /\ z.kind = "bool_to_int" /\ z.ins[1] = Raw(c)
          /\ DOMAIN z.outs = {1} /\ z.outs[1] = ToInt(c)
      BY <2>2, <3>1, <3>2, Converted, Between
    <3>4. Upstream(ToInt(c)) = Raw(c)
      BY <3>3, UpThrough, NameKinds DEF Transparent
    <3>5. Trail(ToInt(c), r, T \cup {z})
      BY <3>3, <3>4, TrailLonger
    <3>6. \A y2 \in T \cup {z} : y2.kind \in {"onebuf", "init", "int_to_bool", "bool_to_int"}
      BY <3>3
    <3> QED
      BY <3>1, <3>5, <3>6
  <2> QED
    BY <2>1, <2>2
<1>3. CASE opUses[c] = 0
  <2>1. x.ins[p] = ReadBase(c)
    BY <1>1, <1>3 DEF OperandOf
  <2> QED
    BY <1>1, <1>2, <2>1
<1>4. CASE opUses[c] # 0
  <2>1. PICK k \in 0..opUses[c] : x.ins[p] = CopyOut(c, k)
    BY <1>1, <1>4 DEF OperandOf
  <2>2. PICK y : y = CopyInst(c)
    OBVIOUS
  <2>3. y \in insts
    BY <1>4, <2>2 DEF AllInv, CopyText, Copies, Copied
  <2>4. /\ y.kind = "copy" /\ DOMAIN y.ins = {1} /\ y.ins[1] = ReadBase(c)
        /\ y.outs = [j \in 1..NumOut(c) |-> CopyOut(c, j - 1)]
    BY <2>2, InstFields, OnePort DEF CopyInst
  <2>5. k + 1 \in DOMAIN y.outs /\ y.outs[k + 1] = CopyOut(c, k)
    <3>1. k + 1 \in 1..NumOut(c) /\ (k + 1) - 1 = k
      BY DEF NumOut
    <3> QED
      BY <2>4, <3>1
  <2>6. Upstream(CopyOut(c, k)) = ReadBase(c)
    <3>1. PICK n : n = CopyOut(c, k)
      OBVIOUS
    <3>2. n.chan = c
      BY <3>1, NameFields DEF CopyOut
    <3>3. y.kind \in Transparent
      BY <2>4 DEF Transparent
    <3>4. PICK q : q = k + 1
      OBVIOUS
    <3>5. q \in DOMAIN y.outs /\ n = y.outs[q]
      BY <2>5, <3>1, <3>4
    <3>6. Upstream(n) = y.ins[1]
      BY <2>3, <3>2, <3>3, <3>5, UpThrough
    <3> QED
      BY <2>4, <3>1, <3>6
  <2>7. PICK U : /\ Trail(ReadBase(c), r, U)
                 /\ \A z \in U : z.kind \in {"onebuf", "init", "int_to_bool", "bool_to_int"}
    BY <1>2, <2>3, <2>4
  <2>8. y \notin U
    BY <2>4, <2>7
  <2>9. Trail(CopyOut(c, k), r, U \cup {y})
    BY <2>3, <2>6, <2>7, <2>8, TrailLonger
  <2> QED
    BY <2>1, <2>9
<1> QED
  BY <1>3, <1>4

(* What a unit sends is what its output channel carries. *)
LEMMA OutputSender ==
  ASSUME AllInv, ScopeInv, ClosedInv, pc = "done", NEW x \in insts, NEW i \in 1..Len(prog), x.at = i,
         UnitShape(x, prog[i]), NEW o \in DOMAIN x.outs, NEW c, c = prog[i].outs[o].chan,
         c # Null, ~Bypassed(c)
  PROVE  /\ c \in Chan /\ x.outs[o] = Sender(c)
         /\ c \notin BoolChan \/ ToBoolInst(c) \in insts
<1>1. PICK e : e = prog[i]
  OBVIOUS
<1>2. prog \in Programs /\ i \in DOMAIN prog
  BY ProgType DEF AllInv, TypeOK
<1>3. o \in UnitOuts(e) /\ o \in DOMAIN e.outs /\ x.outs[o] = OutLink(e, o)
  BY <1>1 DEF UnitShape, UnitOuts, Calcs
<1>4. c \in Chan
  BY <1>1, <1>2, <1>3, NullOutputs
<1>5. Buffered(c) <=> e.t \in FC /\ o \in BuffOuts(e)
  <2>1. ASSUME Buffered(c) PROVE e.t \in FC /\ o \in BuffOuts(e)
    <3>1. PICK j \in 1..Len(prog) : prog[j].t \in FC /\ \E q \in BuffOuts(prog[j]) : prog[j].outs[q].chan = c
      BY <2>1 DEF Buffered
    <3>2. PICK q \in BuffOuts(prog[j]) : prog[j].outs[q].chan = c
      BY <3>1
    <3>3. q \in DOMAIN prog[j].outs
      BY DEF BuffOuts, Calcs
    <3>4. j = i /\ q = o
      BY <1>1, <1>2, <1>3, <3>2, <3>3, DrivenOnce
    <3> QED
      BY <1>1, <3>1, <3>4
  <2> QED
    BY <1>1, <2>1 DEF Buffered
<1>6. CASE Buffered(c)
  <2>1. x.outs[o] = Sender(c)
    BY <1>1, <1>3, <1>5, <1>6 DEF OutLink, Sender
  <2>2. ASSUME c \in BoolChan PROVE ToBoolInst(c) \in insts
    <3>1. PICK out : out = prog[i].outs[o]
      OBVIOUS
    <3>2. Inner(out) \in Nat
      BY <1>1, <1>2, <1>3, <3>1, ElementFacts, InnerType
    <3>3. PICK z : z = StageInst(i, out, Inner(out))
      OBVIOUS
    <3>4. z \in insts
      BY <1>1, <1>4, <1>5, <1>6, <3>1, <3>2, <3>3, ChainTrail
    <3>5. DOMAIN z.outs = {1} /\ z.outs[1] = FromInt(c)
      BY <2>2, <3>1, <3>2, <3>3, StageFields, ReadNames
    <3>6. FromInt(c) \in PortNames(z)
      BY <3>5 DEF PortNames
    <3> QED
      BY <2>2, <3>4, <3>6, Converted
  <2> QED
    BY <1>4, <2>1, <2>2
<1>7. CASE ~Buffered(c) /\ e.t \in {"mixer", "arbiter"} /\ o = 2
  <2>1. x.outs[o] = Raw(c)
    BY <1>1, <1>3, <1>5, <1>7 DEF OutLink
  <2>2. c \notin BoolChan
    BY <1>1, <1>2, <1>7 DEF Bypassed, BoolCtrl
  <2> QED
    BY <1>4, <1>7, <2>1, <2>2, ReadNames DEF Sender
<1>8. CASE ~Buffered(c) /\ ~(e.t \in {"mixer", "arbiter"} /\ o = 2)
  <2>1. x.outs[o] = OutName(c)
    BY <1>1, <1>3, <1>5, <1>8 DEF OutLink
  <2>2. ASSUME c \in BoolChan PROVE ToBoolInst(c) \in insts
    <3>1. FromInt(c) \in PortNames(x)
      BY <2>1, <2>2, ReadNames DEF PortNames
    <3> QED
      BY <2>2, <3>1, Converted
  <2> QED
    BY <1>4, <1>8, <2>1, <2>2 DEF Sender
<1> QED
  BY <1>6, <1>7, <1>8

-----------------------------------------------------------------------------
(* The text is finite. *)

LEMMA ImageFinite ==
  ASSUME NEW S, IsFiniteSet(S), NEW f, NEW T, \A x \in T : \E s \in S : x = f[s]
  PROVE  IsFiniteSet(T)
<1>1. PICK g, G : g = [s \in S |-> f[s]] /\ G = {f[s] : s \in S}
  OBVIOUS
<1>2. g \in Surjection(S, G)
  BY <1>1 DEF Surjection
<1>3. IsFiniteSet(G)
  BY <1>2, FS_Surjection
<1>4. T \subseteq G
  BY <1>1
<1> QED
  BY <1>3, <1>4, FS_Subset

LEMMA ChainFinite ==
  ASSUME NEW at, NEW out \in Output
  PROVE  IsFiniteSet(BuffChain(at, out))
<1>1. Inner(out) \in Nat
  BY InnerType
<1>2. PICK f, S : /\ f = [k \in 0..Inner(out) |-> StageInst(at, out, k)]
                  /\ S = 0..Inner(out)
  OBVIOUS
<1>3. IsFiniteSet(S)
  BY <1>1, <1>2, FS_Interval
<1>4. \A x \in BuffChain(at, out) : \E k \in S : x = f[k]
  BY <1>2, ChainStage
<1> QED
  BY <1>3, <1>4, ImageFinite

LEMMA HandlerFinite ==
  ASSUME Handler, prog \in Programs, IsFiniteSet(insts), next \in 1..(Len(prog) + 1)
  PROVE  IsFiniteSet(insts')
<1>1. PICK e, D : e = prog[next] /\ D = DOMAIN e.outs
  OBVIOUS
<1>2. next \in 1..Len(prog)
  BY ProgType, HandlerTakes
<1>3. IsFiniteSet(D) /\ \A o \in D : e.outs[o] \in Output
  <2>1. e \in Element /\ D = 1..Len(e.outs) /\ Len(e.outs) \in Nat
        /\ \A o \in D : e.outs[o] \in Output
    BY <1>1, <1>2, ElementFacts
  <2> QED
    BY <2>1, FS_Interval
<1>4. \A x : IsFiniteSet({x})
  BY FS_Singleton
<1>5. IsFiniteSet({})
  BY FS_EmptySet
<1>6. CASE HandleFunc \/ HandleDFlowCluster
  <2>1. PICK A, B, C, f :
           /\ A = {Inst("source", next, None, One(OutName(e.outs[o].chan))) : o \in DOMAIN e.outs \ Calcs(e)}
           /\ B = IF Calcs(e) = {} THEN {} ELSE {FUInst(e)}
           /\ C = {BuffChain(next, e.outs[o]) : o \in BuffOuts(e)}
           /\ f = [o \in D |-> Inst("source", next, None, One(OutName(e.outs[o].chan)))]
    OBVIOUS
  <2>2. insts' = insts \cup (A \cup B \cup UNION C)
    BY <1>1, <1>6, <2>1 DEF HandleFunc, HandleDFlowCluster, FunctionUnit, Write
  <2>3. IsFiniteSet(A)
    <3>1. \A x \in A : \E o \in D : x = f[o]
      BY <1>1, <2>1
    <3> QED
      BY <1>3, <3>1, ImageFinite
  <2>4. IsFiniteSet(B)
    BY <1>4, <1>5, <2>1
  <2>5. IsFiniteSet(C)
    <3>1. PICK g : g = [o \in D |-> BuffChain(next, e.outs[o])]
      OBVIOUS
    <3>2. \A x \in C : \E o \in D : x = g[o]
      BY <1>1, <2>1, <3>1 DEF BuffOuts, Calcs
    <3> QED
      BY <1>3, <3>2, ImageFinite
  <2>6. \A x \in C : IsFiniteSet(x)
    BY <1>1, <1>3, <2>1, ChainFinite DEF BuffOuts, Calcs
  <2>7. IsFiniteSet(UNION C)
    BY <2>5, <2>6, FS_UNION
  <2>8. IsFiniteSet(A \cup B \cup UNION C)
    BY <2>3, <2>4, <2>7, FS_Union
  <2> QED
    BY <2>2, <2>8, FS_Union
<1>7. CASE HandleSplit
  <2>1. PICK A, B, f : /\ A = {Inst("sink", next, One(SinkAt(e, o)), None) : o \in Nulls(e)}
                       /\ B = {SplitInst(e)}
                       /\ f = [o \in D |-> Inst("sink", next, One(SinkAt(e, o)), None)]
    OBVIOUS
  <2>2. insts' = insts \cup (A \cup B)
    BY <1>1, <1>7, <2>1 DEF HandleSplit, Write
  <2>3. \A x \in A : \E o \in D : x = f[o]
    BY <1>1, <2>1 DEF Nulls
  <2>4. IsFiniteSet(A)
    BY <1>3, <2>3, ImageFinite
  <2>5. IsFiniteSet(A \cup B)
    BY <1>4, <2>1, <2>4, FS_Union
  <2> QED
    BY <2>2, <2>5, FS_Union
<1>8. CASE HandleMixer
  <2>1. PICK A, B, f : /\ A = {Inst("sink", next, One(n), None) : n \in Anon(e)}
                       /\ B = {MixerInst(e)}
                       /\ f = [n \in Anon(e) |-> Inst("sink", next, One(n), None)]
    OBVIOUS
  <2>2. insts' = insts \cup (A \cup B)
    BY <1>1, <1>8, <2>1 DEF HandleMixer, Write
  <2>3. IsFiniteSet(Anon(e))
    BY <1>4, <1>5 DEF Anon
  <2>4. \A x \in A : \E n \in Anon(e) : x = f[n]
    BY <2>1
  <2>5. IsFiniteSet(A)
    BY <2>3, <2>4, ImageFinite
  <2>6. IsFiniteSet(A \cup B)
    BY <1>4, <2>1, <2>5, FS_Union
  <2> QED
    BY <2>2, <2>6, FS_Union
<1>9. CASE HandleMerge \/ HandleSink
  <2>1. \E x : insts' = insts \cup {x}
    BY <1>9 DEF HandleMerge, HandleSink, Write
  <2> QED
    BY <1>4, <2>1, FS_Union
<1> QED
  BY <1>6, <1>7, <1>8, <1>9 DEF Handler

FiniteText == IsFiniteSet(insts)

LEMMA FiniteStep ==
  ASSUME AllInv, FiniteText, [Next]_vars
  PROVE  FiniteText'
<1> USE DEF FiniteText
<1>1. CASE Handler
  BY <1>1, HandlerFinite DEF AllInv, TypeOK
<1>2. CASE \E c \in Chan : CreateCopyProc(c)
  <2>1. PICK x : insts' = insts \cup {x}
    BY <1>2 DEF CreateCopyProc
  <2>2. IsFiniteSet({x})
    BY FS_Singleton
  <2> QED
    BY <2>1, <2>2, FS_Union
<1>3. CASE \E c \in BoolChan : PrintBoolToIntConv(c)
  <2>1. PICK c \in BoolChan : PrintBoolToIntConv(c)
    BY <1>3
  <2>2. insts' \subseteq insts \cup {ToIntInst(c)} \cup {ToBoolInst(c)}
    BY <2>1 DEF PrintBoolToIntConv, ToIntInst, ToBoolInst
  <2>3. IsFiniteSet({ToIntInst(c)}) /\ IsFiniteSet({ToBoolInst(c)})
    BY FS_Singleton
  <2>4. IsFiniteSet(insts \cup {ToIntInst(c)} \cup {ToBoolInst(c)})
    BY <2>3, FS_Union
  <2> QED
    BY <2>2, <2>4, FS_Subset
<1>4. CASE insts' = insts
  BY <1>4
<1> QED
  BY <1>1, <1>2, <1>3, <1>4
     DEF Next, Handler, CollectOpUses, CollectDone, CopiesDone, ElementExit, EmitDone, ConvertDone,
         Terminating, vars, emitted

-----------------------------------------------------------------------------
(* A process that stands for an element is the unit of that element. *)
LEMMA UnitIsElement ==
  ASSUME AllInv, NEW x \in insts, x.at # 0, x.kind \in {"fu", "split", "merge", "mixer", "arbiter"}
  PROVE  x.at \in 1..Len(prog) /\ UnitShape(x, prog[x.at])
<1>1. ElementShape(x)
  BY ShapeAt DEF AllInv, TextInv, Shapes
<1>2. ~SourceShape(x, prog[x.at]) /\ ~SinkShape(x, prog[x.at])
  BY InstFields DEF SourceShape, SinkShape
<1>3. ~BuffShape(x, prog[x.at])
  BY ChainFacts DEF BuffShape
<1>4. x.at \in 1..Len(prog)
  BY <1>1, ProgType DEF ElementShape, AllInv, TypeOK
<1> QED
  BY <1>1, <1>2, <1>3, <1>4 DEF ElementShape

LEMMA GraphMeans ==
  ASSUME AllInv, ScopeInv, ClosedInv, IsFiniteSet(insts)
  PROVE  NetIsGraph
<1> SUFFICES ASSUME pc = "done", NEW x \in insts, x.at # 0,
                    x.kind \in {"fu", "split", "merge", "mixer", "arbiter"}, NEW e, e = prog[x.at]
             PROVE  /\ DOMAIN x.ins = UsePorts(e)
                    /\ \A p \in UsePorts(e) :
                         ~Bypassed(e.reads[p]) => Root(x.ins[p]) = Root(Raw(e.reads[p]))
                    /\ \A o \in DOMAIN x.outs :
                         e.outs[o].chan # Null /\ ~Bypassed(e.outs[o].chan)
                           => Root(Raw(e.outs[o].chan)) = x.outs[o]
  BY DEF NetIsGraph
<1>1. x.at \in 1..Len(prog) /\ UnitShape(x, e)
  BY UnitIsElement
<1>2. DOMAIN x.ins = UsePorts(e)
  BY <1>1 DEF UnitShape
<1>3. ASSUME NEW p \in UsePorts(e), NEW c, c = e.reads[p], ~Bypassed(c)
      PROVE  Root(x.ins[p]) = Root(Raw(c))
  <2>1. c \in Chan /\ opUses[c] \in Nat
    <3>1. p \in DOMAIN e.reads
      BY DEF UsePorts, FirstOccurrences
    <3>2. c \in Chan /\ e.t # "sink"
      BY <1>1, <1>3, <3>1, ElementFacts DEF AllInv, TypeOK, UnitShape
    <3>3. opUses[c] = UseCount(c) - 1 /\ IsFiniteSet(Sites(Len(prog), c))
      BY <3>2 DEF AllInv, TextInv, TextCounts, UseCount
    <3>4. <<x.at, p>> \in Sites(Len(prog), c)
      BY <1>1, <1>3 DEF Sites, UsesOf
    <3>5. UseCount(c) \in Nat /\ UseCount(c) # 0
      BY <3>3, <3>4, FS_CardinalityType, FS_EmptySet DEF UseCount
    <3> QED
      BY <3>2, <3>3, <3>5
  <2>2. PICK r, T : Trail(Raw(c), r, T) /\ \A z \in T : z.kind \in {"onebuf", "init", "int_to_bool"}
    BY <1>3, <2>1, RawTrail
  <2>3. \E U : Trail(x.ins[p], r, U)
    BY <1>1, <1>3, <2>1, <2>2, OperandTrail
  <2> QED
    BY <2>2, <2>3, RootIsEnd
<1>4. ASSUME NEW o \in DOMAIN x.outs, NEW c, c = e.outs[o].chan, c # Null, ~Bypassed(c)
      PROVE  Root(Raw(c)) = x.outs[o]
  <2>1. c \in Chan /\ x.outs[o] = Sender(c) /\ (c \notin BoolChan \/ ToBoolInst(c) \in insts)
    BY <1>1, <1>4, OutputSender
  <2>2. PICK T : Trail(Raw(c), Sender(c), T)
    BY <1>4, <2>1, RawTrail
  <2> QED
    BY <2>1, <2>2, RootIsEnd
<1> QED
  BY <1>2, <1>3, <1>4

(* The network is the dataflow graph, whatever the program: NetIsGraph of     *)
(* ProcGenerator. Operand p of element i gets the data of the channel the     *)
(* source names there, and what output o of its process sends is what the     *)
(* channel the source names there carries.                                    *)
THEOREM NetIsGraphTheorem == Spec => []NetIsGraph
<1>1. Init => FiniteText
  BY FS_EmptySet DEF Init, FiniteText
<1>2. AllInv /\ FiniteText /\ [Next]_vars => FiniteText'
  BY FiniteStep
<1>3. AllInv /\ ScopeInv /\ ClosedInv /\ FiniteText => NetIsGraph
  BY GraphMeans DEF FiniteText
<1> QED
  BY <1>1, <1>2, <1>3, ClosedTheorem, PTL DEF Spec
=============================================================================
