---------------------------- MODULE DflowMapProofs ---------------------------
(***************************************************************************)
(* For every dataflow block and every set of values: the network that the  *)
(* translator wrote keeps its type, an unpiped process receives what it    *)
(* saw at its probe, and, when the code connects no channel directly, the  *)
(* network does what the block means.                                      *)
(*   The first two are properties of the processes of the library in a     *)
(* network of any shape the translator can write: the one reader of each   *)
(* channel comes from PointToPoint, the ports from the shapes of the       *)
(* instances.                                                              *)
(*   For the third, the tokens on the way to a reader are found by going   *)
(* back from its port, along the trail of NetProofs, to the process that   *)
(* sends on the channel. Three lemmas say what a step can do to them: one  *)
(* is taken at the end (TokensTaken), one is added at the source           *)
(* (TokensSent), or a copy, converter or buffer in between passes one on   *)
(* and they stay the same (TokensPassed). With what the process at the end *)
(* has received they are the queue of the reader, so that each step of a   *)
(* process is a firing of its element, a constant sent, or nothing that a  *)
(* reader sees.                                                            *)
(***************************************************************************)
EXTENDS DflowMap, NetProofs, NatLemmas, SequenceTheorems

-----------------------------------------------------------------------------
(* Nothing the program reads is left without a reader: the port of its use, *)
(* the copy in front of its uses, or the converter in front of those.       *)

UseRead(e, p) ==
  IF e.t = "sink" THEN HasReader(Raw(e.reads[p]))
                  ELSE opUses[e.reads[p]] = 0 => HasReader(ReadBase(e.reads[p]))

UsesRead ==
  pc \in {"emit", "convert", "done"} =>
    \A i \in 1..(next - 1) : \A p \in UsePorts(prog[i]) : UseRead(prog[i], p)

(* A use that has its reader keeps it. *)
LEMMA UseReadStays ==
  ASSUME UNCHANGED <<prog, opUses>>, NEW I, insts' = insts \cup I, NEW i, NEW p, UseRead(prog[i], p)
  PROVE  UseRead(prog[i], p)'
<1>1. \A n : HasReader(n) => HasReader(n)'
  BY EndsStay
<1>2. PICK c : c = prog[i].reads[p]
  OBVIOUS
<1>3. \A n : n = Raw(c) \/ n = ReadBase(c) => (HasReader(n) => HasReader(n)')
  BY <1>1
<1>4. (HasReader(Raw(c)) => HasReader(Raw(c))') /\ (HasReader(ReadBase(c)) => HasReader(ReadBase(c))')
  BY <1>3 DEF HasReader, Raw, ReadBase, ToInt, Name
<1> QED
  BY <1>2, <1>4 DEF UseRead, HasReader, Raw, ReadBase, ToInt, Name

LEMMA UsesReadStays ==
  ASSUME UsesRead, UNCHANGED <<prog, opUses, next>>, NEW I, insts' = insts \cup I,
         pc' \in {"emit", "convert", "done"} => pc \in {"emit", "convert", "done"}
  PROVE  UsesRead'
<1> SUFFICES ASSUME pc \in {"emit", "convert", "done"}, NEW i \in 1..(next - 1), NEW p \in UsePorts(prog[i])
             PROVE  UseRead(prog[i], p)'
  BY DEF UsesRead, UsePorts, FirstOccurrences
<1>1. UseRead(prog[i], p)
  BY DEF UsesRead
<1> QED
  BY <1>1, UseReadStays

LEMMA UsesReadWritten ==
  ASSUME UsesRead, AllInv, Handler
  PROVE  UsesRead'
<1>1. PICK e : e = prog[next]
  OBVIOUS
<1>2. PICK W, I, N : Writes(e, W, I, N) /\ BothEnds(e, W, I, N)
  BY <1>1, HandlerWrites
<1>3. /\ pc = "emit" /\ next <= Len(prog) /\ insts' = insts \cup I
      /\ UNCHANGED <<prog, pc, opUses>> /\ next' = next + 1
  BY <1>2 DEF Writes, Write
<1>4. next \in 1..Len(prog) /\ Len(prog) \in Nat /\ prog \in Programs
  BY <1>3, ProgType DEF AllInv, TypeOK
<1> SUFFICES ASSUME NEW i \in 1..next, NEW p \in UsePorts(prog[i])
             PROVE  UseRead(prog[i], p)'
  <2>1. next' - 1 = next
    BY <1>3, <1>4
  <2> QED
    BY <1>3, <2>1 DEF UsesRead, UsePorts, FirstOccurrences
<1>5. CASE i # next
  <2>1. UseRead(prog[i], p)
    BY <1>3, <1>4, <1>5 DEF UsesRead
  <2> QED
    BY <1>3, <2>1, UseReadStays
<1>6. CASE i = next /\ e.t # "sink"
  <2>1. PICK u \in I : u.ins = OperandNames(e)
    BY <1>1, <1>2, <1>6 DEF BothEnds, NamedPorts
  <2>2. p \in DOMAIN u.ins /\ u.ins[p] = OperandName(e, p)
    BY <1>1, <1>6, <2>1 DEF OperandNames, NamedPorts
  <2>3. ASSUME opUses[e.reads[p]] = 0 PROVE u.ins[p] = ReadBase(e.reads[p])
    BY <2>2, <2>3 DEF OperandName
  <2>4. u \in insts'
    BY <1>3
  <2> QED
    BY <1>1, <1>3, <1>6, <2>2, <2>3, <2>4 DEF UseRead, HasReader, Raw, ReadBase, ToInt, Name
<1>7. CASE i = next /\ e.t = "sink"
  <2>1. HandleSink
    BY <1>1, <1>7 DEF Handler, HandleFunc, HandleDFlowCluster, HandleSplit, HandleMerge, HandleMixer, At
  <2>2. p = 1
    <3>1. DOMAIN e.reads = {1}
      BY <1>1, <1>4, <1>7, Arities
    <3> QED
      BY <1>1, <1>7, <3>1 DEF UsePorts
  <2>3. PICK x : x = Inst("sink", next, One(Raw(e.reads[1])), None)
    OBVIOUS
  <2>4. x \in insts'
    BY <1>1, <2>1, <2>3 DEF HandleSink, Write
  <2>5. DOMAIN x.ins = {1} /\ x.ins[1] = Raw(e.reads[1])
    BY <2>3, InstFields, OnePort
  <2> QED
    BY <1>1, <1>3, <1>7, <2>2, <2>4, <2>5 DEF UseRead, HasReader, Raw, Name
<1> QED
  BY <1>1, <1>5, <1>6, <1>7

LEMMA UsesReadStep ==
  ASSUME UsesRead, AllInv, [Next]_vars
  PROVE  UsesRead'
<1> USE DEF emitted
<1>1. CASE CollectOpUses \/ CollectDone \/ (\E c \in Chan : CreateCopyProc(c)) \/ ElementExit
  <2>1. pc' \notin {"emit", "convert", "done"}
    BY <1>1 DEF CollectOpUses, CollectDone, CreateCopyProc, ElementExit, Exit
  <2> QED
    BY <2>1 DEF UsesRead
<1>2. CASE CopiesDone
  <2>1. next' = 1 /\ \A i : i \notin 1..(1 - 1)
    BY <1>2 DEF CopiesDone
  <2> QED
    BY <2>1 DEF UsesRead
<1>3. CASE Handler
  BY <1>3, UsesReadWritten
<1>4. CASE EmitDone \/ ConvertDone \/ UNCHANGED vars
  <2>1. /\ UNCHANGED <<prog, opUses, next>> /\ insts' = insts \cup {}
        /\ pc' = pc \/ pc \in {"emit", "convert"}
    BY <1>4 DEF EmitDone, ConvertDone, vars
  <2> QED
    BY <2>1, UsesReadStays
<1>5. CASE \E c \in BoolChan : PrintBoolToIntConv(c)
  <2>1. PICK c \in BoolChan : PrintBoolToIntConv(c)
    BY <1>5
  <2>2. UNCHANGED <<prog, opUses, next, pc>> /\ \E I : insts' = insts \cup I
    <3>1. PICK J, K : /\ J = {Inst("bool_to_int", 0, One(Raw(c)), One(ToInt(c))) : f \in boolFlags[c] \cap {"to"}}
                      /\ K = {Inst("int_to_bool", 0, One(FromInt(c)), One(Raw(c))) : f \in boolFlags[c] \cap {"from"}}
      OBVIOUS
    <3>2. insts' = insts \cup (J \cup K)
      BY <2>1, <3>1 DEF PrintBoolToIntConv
    <3> QED
      BY <2>1, <3>2 DEF PrintBoolToIntConv
  <2> QED
    BY <2>2, UsesReadStays
<1> QED
  BY <1>1, <1>2, <1>3, <1>4, <1>5 DEF Next, Handler, Terminating

(* A channel that the program reads is read at a port of an element. *)
LEMMA ReadAtPort ==
  ASSUME prog \in Programs, NEW c, Read(c)
  PROVE  \E i \in 1..Len(prog) : \E p \in UsePorts(prog[i]) : prog[i].reads[p] = c
<1>1. DOMAIN prog = 1..Len(prog)
  BY ProgType
<1>2. PICK i \in 1..Len(prog) : \E p \in DOMAIN prog[i].reads : prog[i].reads[p] = c
  BY <1>1 DEF Read
<1>3. PICK s : s = prog[i].reads
  OBVIOUS
<1>4. DOMAIN s = 1..Len(s) /\ Len(s) \in Nat
  BY <1>3, ElementFacts
<1>5. PICK T : T = {p \in DOMAIN s : s[p] = c}
  OBVIOUS
<1>6. T \subseteq Nat /\ T # {}
  BY <1>2, <1>3, <1>4, <1>5
<1>7. PICK p \in T : \A q \in T : p <= q
  BY <1>6, LeastNatural
<1>8. p \in DOMAIN s /\ s[p] = c /\ \A q \in 1..(p - 1) : s[q] # s[p]
  BY <1>4, <1>5, <1>7
<1>9. p \in UsePorts(prog[i])
  BY <1>3, <1>8 DEF UsePorts, FirstOccurrences
<1> QED
  BY <1>3, <1>8, <1>9

(* When the translator is done, a port of the text reads the channel itself. *)
LEMMA InputsRead ==
  ASSUME AllInv, ScopeInv, ClosedInv, UsesRead, pc = "done", NEW c \in Chan, Read(c)
  PROVE  HasReader(Raw(c))
<1>1. prog \in Programs /\ Len(prog) \in Nat /\ next = Len(prog) + 1 /\ DOMAIN prog = 1..Len(prog)
  BY ProgType DEF AllInv, TypeOK, ClosedInv, ConvertersIn
<1>2. PICK i \in 1..Len(prog) : \E p \in UsePorts(prog[i]) : prog[i].reads[p] = c
  BY <1>1, ReadAtPort
<1>3. PICK p \in UsePorts(prog[i]) : prog[i].reads[p] = c
  BY <1>2
<1>4. UseRead(prog[i], p)
  BY <1>1 DEF UsesRead
<1>5. CASE prog[i].t = "sink"
  BY <1>3, <1>4, <1>5 DEF UseRead
<1>6. CASE prog[i].t # "sink"
  <2>1. opUses[c] \in Nat
    <3>1. IsFiniteSet(Sites(Len(prog), c)) /\ opUses[c] = Cardinality(Sites(Len(prog), c)) - 1
      BY DEF AllInv, IInv, UsesCounted, Scanned
    <3>2. <<i, p>> \in Sites(Len(prog), c)
      BY <1>3 DEF Sites, UsesOf
    <3> QED
      BY <3>1, <3>2, FS_EmptySet, FS_CardinalityType
  <2>2. HasReader(ReadBase(c))
    <3>1. CASE opUses[c] = 0
      BY <1>3, <1>4, <1>6, <3>1 DEF UseRead
    <3>2. CASE opUses[c] > 0
      <4>1. CopyInst(c) \in insts
        BY <3>2 DEF AllInv, CopyText, Copied, Copies
      <4>2. DOMAIN CopyInst(c).ins = {1} /\ CopyInst(c).ins[1] = ReadBase(c)
        BY InstFields, OnePort DEF CopyInst
      <4> QED
        BY <4>1, <4>2 DEF HasReader
    <3> QED
      BY <2>1, <3>1, <3>2
  <2>3. CASE c \notin BoolChan
    BY <2>2, <2>3, ReadNames
  <2>4. CASE c \in BoolChan
    <3>1. PICK y \in insts : \E q \in DOMAIN y.ins : y.ins[q] = ToInt(c)
      BY <2>2, <2>4, ReadNames DEF HasReader
    <3>2. ToInt(c) \in PortNames(y)
      BY <3>1 DEF PortNames
    <3>3. Declared(ToInt(c))
      BY <3>2, ReadNames DEF ScopeInv, InScope
    <3>4. Known(ToInt(c))
      BY <3>3 DEF Declared, ScopeInv
    <3>5. "to" \in boolFlags[c]
      BY <3>4, TwinsApart DEF Known
    <3>6. ToIntInst(c) \in insts
      BY <2>4, <3>5 DEF ClosedInv, ConvertersIn
    <3>7. DOMAIN ToIntInst(c).ins = {1} /\ ToIntInst(c).ins[1] = Raw(c)
      BY InstFields, OnePort DEF ToIntInst
    <3> QED
      BY <3>6, <3>7 DEF HasReader
  <2> QED
    BY <2>3, <2>4
<1> QED
  BY <1>5, <1>6

-----------------------------------------------------------------------------
(* The translator is not disturbed by the network. *)

LEMMA MapIsTranslator == MapSpec => Spec
<1>1. MapInit => Init
  BY DEF MapInit
<1>2. [MapNext]_mapVars => [Next]_vars
  <2> SUFFICES ASSUME [MapNext]_mapVars PROVE [Next]_vars
    OBVIOUS
  <2>1. CASE UNCHANGED mapVars
    BY <2>1 DEF mapVars
  <2>2. CASE MapNext
    BY <2>2, Zenon DEF MapNext, Translate, Start, StepAt, UnitAt, CopyOf, ConverterOf, EnvPut, EnvGet, Network
  <2> QED
    BY <2>1, <2>2
<1> QED
  BY <1>1, <1>2, PTL DEF MapSpec, Spec

(* The translator's invariants hold while the network runs: the circuit that *)
(* runs is the text that was written, with one reader and one writer of each *)
(* channel, no name without a declaration, and a reader of each channel read. *)
THEOREM NetTheorem == MapSpec => [](AllInv /\ ScopeInv /\ ClosedInv /\ UsesRead)
<1>1. Init => UsesRead
  BY DEF Init, UsesRead
<1>2. AllInv /\ UsesRead /\ [Next]_vars => UsesRead'
  BY UsesReadStep
<1>3. Spec => []UsesRead
  BY <1>1, <1>2, ClosedTheorem, PTL DEF Spec
<1> QED
  BY <1>3, MapIsTranslator, ClosedTheorem, PTL

-----------------------------------------------------------------------------
(* The ports of the processes. *)

LEMMA KindPorts ==
  ASSUME AllInv, NEW x \in insts
  PROVE  /\ x.kind \in {"source", "merge"} => DOMAIN x.outs = {1}
         /\ x.kind \in {"mixer", "arbiter"} => DOMAIN x.outs = {1, 2}
         /\ x.kind = "split" => DOMAIN x.ins = {1, 2}
         /\ x.kind = "init" => DOMAIN x.ins = {1}
<1>1. CASE CopyShape(x)
  BY <1>1 DEF CopyShape, CopyInst, Inst
<1>2. CASE ConvShape(x)
  BY <1>2 DEF ConvShape, Inst
<1>3. CASE ElementShape(x)
  <2>1. PICK i, e : i = x.at /\ e = prog[i]
    OBVIOUS
  <2>2. i \in 1..Len(prog) /\ prog \in Programs
    <3>1. prog \in Programs /\ next \in 1..(Len(prog) + 1)
      BY DEF AllInv, TypeOK
    <3>2. i \in 1..(next - 1) /\ Len(prog) \in Nat
      BY <1>3, <2>1, <3>1, ProgType DEF ElementShape
    <3> QED
      BY <3>1, <3>2
  <2>3. CASE UnitShape(x, e)
    <3>1. /\ e.t = "merge" => DOMAIN e.outs = {1}
          /\ e.t \in {"mixer", "arbiter"} => DOMAIN e.outs = {1, 2}
      BY <2>1, <2>2, Arities
    <3>2. e.t = "split" => DOMAIN e.reads = {1, 2}
      <4>1. PICK r : r = e.reads
        OBVIOUS
      <4>2. DOMAIN r = 1..Len(r)
        BY <2>1, <2>2, <4>1, ElementFacts
      <4>3. e.t = "split" => Len(r) = 2
        BY <2>1, <2>2, <4>1, Arities
      <4>4. Len(r) = 2 => DOMAIN r = {1, 2}
        BY <4>2
      <4> QED
        BY <4>1, <4>3, <4>4
    <3>3. x.kind = UnitKind(e) /\ DOMAIN x.ins = UsePorts(e) /\ DOMAIN x.outs = UnitOuts(e)
      BY <2>3 DEF UnitShape
    <3>4. e.t \notin FC => UsePorts(e) = DOMAIN e.reads /\ UnitOuts(e) = DOMAIN e.outs
      BY DEF UsePorts, UnitOuts, FC
    <3>5. x.kind # "fu" => x.kind = e.t /\ e.t \notin FC
      BY <3>3 DEF UnitKind
    <3>6. e.t # "source" /\ e.t # "init"
      BY <2>1, <2>2, ElementFacts DEF Kinds
    <3> QED
      BY <3>1, <3>2, <3>3, <3>4, <3>5, <3>6
  <2>4. CASE SourceShape(x, e)
    BY <2>4, OnePort, InstFields DEF SourceShape
  <2>5. CASE BuffShape(x, e)
    <3>1. PICK o \in BuffOuts(e) : x \in BuffChain(x.at, e.outs[o])
      BY <2>5 DEF BuffShape
    <3>2. x.kind \in {"onebuf", "init"} /\ DOMAIN x.ins = {1}
      BY <3>1, InstFields, OnePort DEF BuffChain
    <3> QED
      BY <3>2
  <2>6. CASE SinkShape(x, e)
    BY <2>6, InstFields DEF SinkShape
  <2> QED
    BY <1>3, <2>1, <2>3, <2>4, <2>5, <2>6 DEF ElementShape
<1> QED
  BY <1>1, <1>2, <1>3 DEF AllInv, TextInv, Shapes

(* A round sends on outputs the process has. *)
LEMMA SendsWithin ==
  ASSUME AllInv, NEW x \in insts, NEW seen, DOMAIN seen \subseteq DOMAIN x.ins,
         NEW S \in Chp!Rounds(x, seen), NEW vals, vals = Chp!Only(seen, S), DOMAIN vals = S
  PROVE  DOMAIN Chp!Sends(x, vals) \subseteq DOMAIN x.outs
<1>1. CASE x.kind = "split"
  <2>1. 2 \in DOMAIN seen /\ S = {1, 2} /\ seen[2] + 1 \in DOMAIN x.outs
    BY <1>1, KindPorts DEF Chp!Rounds
  <2>2. vals[2] = seen[2]
    BY <2>1 DEF Chp!Only
  <2>3. DOMAIN Chp!Sends(x, vals) = {vals[2] + 1}
    BY <1>1 DEF Chp!Sends
  <2> QED
    BY <2>1, <2>2, <2>3
<1>2. CASE x.kind \in {"source", "merge"}
  BY <1>2, KindPorts DEF Chp!Sends
<1>3. CASE x.kind \in {"mixer", "arbiter"}
  <2>1. DOMAIN Chp!Sends(x, vals) = {1, 2}
    BY <1>3 DEF Chp!Sends
  <2> QED
    BY <1>3, <2>1, KindPorts
<1>4. CASE x.kind \notin {"split", "source", "merge", "mixer", "arbiter"}
  BY <1>4 DEF Chp!Sends
<1> QED
  BY <1>1, <1>2, <1>3, <1>4

-----------------------------------------------------------------------------
(* Steps of the network. *)

(* What the processes hold are values of their own inputs. *)
OwnInputs ==
  DOMAIN got = insts /\ \A x \in insts : DOMAIN got[x] \subseteq DOMAIN x.ins

LEMMA SeenPorts ==
  ASSUME OwnInputs, NEW y \in insts
  PROVE  /\ DOMAIN Chp!Seen(y) \subseteq DOMAIN y.ins
         /\ Chp!Holds(y) => \A p \in DOMAIN Chp!Seen(y) :
              Chp!Offered(y.ins[p]) /\ Chp!Seen(y)[p] = offer[y.ins[p]]
BY DEF OwnInputs, Chp!Seen

(* A step of y touches what y holds, and takes tokens only from its inputs; *)
(* what y holds after it is still offered to it.                            *)
StepOf(y) ==
  /\ insts' = insts /\ OwnInputs'
  /\ \A x \in insts : x # y => got'[x] = got[x]
  /\ \A n : Chp!Offered(n) /\ (\A p \in DOMAIN y.ins : y.ins[p] # n) =>
       Chp!Offered(n)' /\ offer'[n] = offer[n]
  /\ Chp!Holds(y) => \A p \in DOMAIN got'[y] :
       y.ins[p] \in DOMAIN offer' /\ offer'[y.ins[p]] = got'[y][p]

LEMMA ReceiveStep ==
  ASSUME OwnInputs, NEW y \in insts, NEW p \in DOMAIN y.ins, Chp!Receive(y, p)
  PROVE  StepOf(y)
<1>1. PICK v, g : /\ v = Chp!Stored(y, offer[y.ins[p]])
                  /\ g = [q \in DOMAIN got[y] \cup {p} |-> IF q = p THEN v ELSE got[y][q]]
  OBVIOUS
<1>2. /\ ~Chp!Holds(y) /\ insts' = insts
      /\ got' = [got EXCEPT ![y] = g]
      /\ offer' = Chp!Without(offer, {y.ins[p]})
  BY <1>1 DEF Chp!Receive
<1>3. DOMAIN g \subseteq DOMAIN y.ins
  BY <1>1 DEF OwnInputs
<1>4. OwnInputs' /\ \A x \in insts : x # y => got'[x] = got[x]
  BY <1>2, <1>3 DEF OwnInputs
<1>5. ASSUME NEW n, Chp!Offered(n), \A q \in DOMAIN y.ins : y.ins[q] # n
      PROVE  Chp!Offered(n)' /\ offer'[n] = offer[n]
  BY <1>2, <1>5 DEF Chp!Offered, Chp!Without
<1> QED
  BY <1>2, <1>4, <1>5 DEF StepOf

LEMMA SendStep ==
  ASSUME AllInv, OwnInputs, NEW y \in insts, Chp!Send(y)
  PROVE  /\ StepOf(y)
         /\ \A n : n \in DOMAIN offer' => n \in DOMAIN offer \/ \E o \in DOMAIN y.outs : y.outs[o] = n
<1>1. PICK S, vals :
        /\ S \in Chp!Rounds(y, Chp!Seen(y))
        /\ vals = Chp!Only(Chp!Seen(y), S) /\ DOMAIN vals = S
        /\ offer' = [n \in DOMAIN offer \cup DOMAIN Chp!Offering(y, vals) |->
                       IF n \in DOMAIN Chp!Offering(y, vals) THEN Chp!Offering(y, vals)[n] ELSE offer[n]]
        /\ got' = [got EXCEPT ![y] = IF Chp!Holds(y) THEN vals ELSE Chp!Nothing]
  BY DEF Chp!Send
<1>2. ~Chp!Sending(y) /\ insts' = insts
  BY DEF Chp!Send
<1>3. DOMAIN Chp!Sends(y, vals) \subseteq DOMAIN y.outs
  BY <1>1, SeenPorts, SendsWithin
<1>4. PICK D : D = DOMAIN Chp!Offering(y, vals)
  OBVIOUS
<1>5. D = {y.outs[o] : o \in DOMAIN Chp!Sends(y, vals)}
  BY <1>4 DEF Chp!Offering
<1>6. \A n \in D : \E o \in DOMAIN y.outs : y.outs[o] = n
  BY <1>3, <1>5
<1>7. \A n \in D : n \notin DOMAIN offer
  BY <1>2, <1>6 DEF Chp!Sending, Chp!Offered
<1>8. DOMAIN offer' = DOMAIN offer \cup D /\ \A n \in DOMAIN offer : offer'[n] = offer[n]
  BY <1>1, <1>4, <1>7
<1>9. PICK g : g = IF Chp!Holds(y) THEN vals ELSE Chp!Nothing
  OBVIOUS
<1>10. DOMAIN vals \subseteq DOMAIN Chp!Seen(y) /\ \A p \in DOMAIN vals : vals[p] = Chp!Seen(y)[p]
  BY <1>1 DEF Chp!Only
<1>11. DOMAIN g \subseteq DOMAIN y.ins
  BY <1>9, <1>10, SeenPorts DEF Chp!Nothing
<1>12. got' = [got EXCEPT ![y] = g]
  BY <1>1, <1>9
<1>13. OwnInputs' /\ got'[y] = g /\ \A x \in insts : x # y => got'[x] = got[x]
  BY <1>2, <1>11, <1>12 DEF OwnInputs
<1>14. ASSUME Chp!Holds(y), NEW p \in DOMAIN got'[y]
       PROVE  y.ins[p] \in DOMAIN offer' /\ offer'[y.ins[p]] = got'[y][p]
  BY <1>8, <1>9, <1>10, <1>13, <1>14, SeenPorts DEF Chp!Offered
<1>15. \A n : Chp!Offered(n) => Chp!Offered(n)' /\ offer'[n] = offer[n]
  BY <1>8 DEF Chp!Offered
<1> QED
  BY <1>2, <1>6, <1>8, <1>13, <1>14, <1>15 DEF StepOf

LEMMA ReleaseStep ==
  ASSUME OwnInputs, NEW y \in insts, Chp!Release(y)
  PROVE  StepOf(y)
<1>1. /\ insts' = insts
      /\ got' = [got EXCEPT ![y] = Chp!Nothing]
      /\ offer' = Chp!Without(offer, {y.ins[p] : p \in DOMAIN got[y]})
  BY DEF Chp!Release
<1>2. DOMAIN Chp!Nothing = {}
  BY DEF Chp!Nothing
<1>3. OwnInputs' /\ got'[y] = Chp!Nothing /\ \A x \in insts : x # y => got'[x] = got[x]
  BY <1>1, <1>2 DEF OwnInputs
<1>4. ASSUME NEW n, Chp!Offered(n), \A q \in DOMAIN y.ins : y.ins[q] # n
      PROVE  Chp!Offered(n)' /\ offer'[n] = offer[n]
  BY <1>1, <1>4 DEF Chp!Offered, Chp!Without, OwnInputs
<1> QED
  BY <1>1, <1>2, <1>3, <1>4 DEF StepOf

LEMMA ProcessStep ==
  ASSUME AllInv, OwnInputs, NEW y \in insts, Chp!Step(y)
  PROVE  StepOf(y)
BY ReceiveStep, SendStep, ReleaseStep DEF Chp!Step

-----------------------------------------------------------------------------
(* The invariant of the network: before the translator is done there is no  *)
(* network; while it runs, processes hold values of their own inputs, and   *)
(* what an unpiped process holds is still offered to it.                    *)
Direct(n) == n.chan # Null => ~Bypassed(n.chan)

HeldOffered ==
  \A x \in insts : Chp!Holds(x) => \A p \in DOMAIN got[x] :
    Direct(x.ins[p]) => Chp!StillOffered(x, p)

NetworkInv ==
  /\ pc # "done" => DOMAIN offer = {} /\ DOMAIN got = {}
  /\ DOMAIN got = {} \/ (pc = "done" /\ OwnInputs /\ HeldOffered)

LEMMA HeldMeans == NetworkInv => HeldIsReceived
BY DEF NetworkInv, HeldOffered, HeldIsReceived, Running, Direct

(* The channels of the block and who reads them do not change any more. *)
LEMMA DirectStays ==
  ASSUME UNCHANGED vars, NEW n
  PROVE  Direct(n) <=> Direct(n)'
BY DEF vars, Direct, Bypassed, Sunk, UseCount, Sites, BoolCtrl

(* A process of the network goes on. *)
LEMMA ProcessInv ==
  ASSUME AllInv, NetworkInv, NEW y \in insts, Running, Chp!Step(y), UNCHANGED vars
  PROVE  NetworkInv'
<1>1. OwnInputs /\ HeldOffered /\ pc = "done" /\ pc' = "done" /\ insts' = insts
  BY DEF NetworkInv, Running, vars
<1>2. StepOf(y)
  BY <1>1, ProcessStep
<1>3. ASSUME NEW x \in insts, Chp!Holds(x), NEW p \in DOMAIN got'[x], Direct(x.ins[p])'
      PROVE  x.ins[p] \in DOMAIN offer' /\ offer'[x.ins[p]] = got'[x][p]
  <2>1. CASE x = y
    BY <1>2, <1>3, <2>1 DEF StepOf
  <2>2. CASE x # y
    <3>1. PICK n : n = x.ins[p]
      OBVIOUS
    <3>2. got'[x] = got[x] /\ p \in DOMAIN x.ins
      BY <1>1, <1>2, <1>3, <2>2 DEF StepOf, OwnInputs
    <3>3. Direct(n)
      BY <1>3, <3>1, DirectStays
    <3>4. \A q \in DOMAIN y.ins : y.ins[q] # n
      BY <2>2, <3>1, <3>2, <3>3, OneReader DEF Direct
    <3>5. Chp!Offered(n) /\ offer[n] = got[x][p]
      BY <1>1, <1>3, <3>1, <3>2, <3>3 DEF HeldOffered, Chp!StillOffered
    <3>6. Chp!Offered(n)' /\ offer'[n] = offer[n]
      BY <1>2, <3>4, <3>5 DEF StepOf
    <3> QED
      BY <3>1, <3>2, <3>5, <3>6 DEF Chp!Offered
  <2> QED
    BY <2>1, <2>2
<1>4. HeldOffered'
  BY <1>1, <1>3 DEF HeldOffered, Chp!StillOffered, Chp!Offered, Chp!Holds
<1> QED
  BY <1>1, <1>2, <1>4 DEF NetworkInv, StepOf

(* A channel with several uses is used. *)
LEMMA UsedIsRead ==
  ASSUME AllInv, insts # {}, NEW c \in Chan, opUses[c] > 0
  PROVE  Read(c)
<1>1. /\ IsFiniteSet(Sites(Len(prog), c)) /\ opUses[c] = Cardinality(Sites(Len(prog), c)) - 1
      /\ prog \in Programs
  BY DEF AllInv, TextInv, TextCounts, TypeOK
<1>2. Sites(Len(prog), c) # {}
  BY <1>1, FS_EmptySet, FS_CardinalityType
<1>3. PICK i \in 1..Len(prog) : UsesOf(prog[i], c) # {}
  BY <1>2 DEF Sites
<1>4. prog[i] \in Element /\ DOMAIN prog = 1..Len(prog)
  BY <1>1, <1>3, ElementFacts, ProgType
<1> QED
  BY <1>3, <1>4, UsesFinite DEF UsesOf, Read

(* A port with the raw name of a channel is a use of the channel, or the    *)
(* converter in front of its uses.                                          *)
LEMMA RawReader ==
  ASSUME AllInv, ScopeInv, ClosedInv, pc = "done", NEW c, NEW x \in insts, NEW p \in DOMAIN x.ins,
         x.ins[p] = Raw(c)
  PROVE  Read(c)
<1>1. \A e, d : p \in UsesOf(e, d) => p \in DOMAIN e.reads /\ e.reads[p] = d
  BY DEF UsesOf, UsePorts, FirstOccurrences
<1>2. prog \in Programs /\ DOMAIN prog = 1..Len(prog)
  BY ProgType DEF AllInv, TypeOK
<1>3. ASSUME NEW d, NEW y \in insts, NEW q \in DOMAIN y.ins,
             CopyReads(y, q, d) \/ UnitReads(y, q, d) \/ SinkReads(y, q, d)
      PROVE  Read(d)
  <2>1. CASE CopyReads(y, q, d)
    BY <2>1, UsedIsRead DEF CopyReads
  <2>2. CASE UnitReads(y, q, d) \/ SinkReads(y, q, d)
    <3>1. y.at \in DOMAIN prog /\ q \in UsesOf(prog[y.at], d)
      BY <1>2, <2>2 DEF UnitReads, SinkReads
    <3>2. q \in DOMAIN prog[y.at].reads /\ prog[y.at].reads[q] = d
      BY <3>1 DEF UsesOf, UsePorts, FirstOccurrences
    <3> QED
      BY <3>1, <3>2 DEF Read
  <2> QED
    BY <1>3, <2>1, <2>2
<1>4. Raw(c).kind = "raw" /\ Raw(c).chan = c
  BY ReadNames
<1>5. ~NumberedIn(x.ins[p]) /\ \A d, k : Stage(d, k).kind # "raw"
  BY <1>4, NameKinds DEF NumberedIn
<1>6. \A o, k : ~BuffReads(x, p, o, k)
  BY <1>4, <1>5 DEF BuffReads
<1>7. PICK d : CopyReads(x, p, d) \/ ConvReads(x, p, d) \/ UnitReads(x, p, d) \/ SinkReads(x, p, d)
  BY <1>5, <1>6, InputRoles
<1>8. CASE ConvReads(x, p, d)
  <2>1. d = c /\ c \in BoolChan /\ x = ToIntInst(c)
    BY <1>4, <1>8, ReadNames DEF ConvReads
  <2>2. ToInt(c) \in PortNames(x)
    BY <2>1, InstFields, OnePort DEF ToIntInst, PortNames
  <2>3. Declared(ToInt(c))
    BY <2>2, ReadNames DEF ScopeInv, InScope
  <2>4. HasReader(ToInt(c))
    BY <2>3, DeclaredClosed
  <2>5. PICK y \in insts : \E q \in DOMAIN y.ins : y.ins[q] = ToInt(c)
    BY <2>4 DEF HasReader
  <2>6. PICK q \in DOMAIN y.ins : y.ins[q] = ToInt(c)
    BY <2>5
  <2>7. ToInt(c).kind = "toint" /\ ~NumberedIn(y.ins[q]) /\ \A b, k : Stage(b, k).kind # "toint"
    <3>1. ToInt(c).kind = "toint"
      BY ReadNames
    <3>2. \A b, k : Stage(b, k).kind # "toint"
      BY NameKinds
    <3> QED
      BY <2>6, <3>1, <3>2 DEF NumberedIn
  <2>8. \A o, k : ~BuffReads(y, q, o, k)
    BY <2>6, <2>7 DEF BuffReads
  <2>9. PICK b : CopyReads(y, q, b) \/ ConvReads(y, q, b) \/ UnitReads(y, q, b) \/ SinkReads(y, q, b)
    BY <2>7, <2>8, InputRoles
  <2>10. ~ConvReads(y, q, b) /\ ~SinkReads(y, q, b)
    BY <2>6, <2>7, ReadNames DEF ConvReads, SinkReads
  <2>11. b = c
    BY <2>6, <2>7, <2>9, <2>10, ReadNames DEF CopyReads, UnitReads
  <2> QED
    BY <1>3, <2>9, <2>10, <2>11
<1>9. CASE ~ConvReads(x, p, d)
  <2>1. d = c
    BY <1>4, <1>7, <1>9, ReadNames DEF CopyReads, UnitReads, SinkReads
  <2> QED
    BY <1>3, <1>7, <1>9, <2>1
<1> QED
  BY <1>8, <1>9

(* The first step of the network: init holds its value. *)
LEMMA StartInv ==
  ASSUME AllInv, NetworkInv, pc = "done", Chp!Reset, UNCHANGED vars
  PROVE  NetworkInv'
<1>1. /\ got' = [x \in insts |-> IF x.kind = "init" THEN [p \in {1} |-> InitValue] ELSE Chp!Nothing]
      /\ pc' = pc /\ insts' = insts
  BY DEF Chp!Reset, vars
<1>2. ASSUME NEW x \in insts
      PROVE  /\ DOMAIN got'[x] \subseteq DOMAIN x.ins
             /\ Chp!Holds(x) => DOMAIN got'[x] = {}
  <2>1. DOMAIN Chp!Nothing = {}
    BY DEF Chp!Nothing
  <2>2. CASE x.kind = "init"
    BY <1>1, <2>2, KindPorts DEF Chp!Holds, Chp!Selections
  <2>3. CASE x.kind # "init"
    BY <1>1, <2>1, <2>3
  <2> QED
    BY <2>2, <2>3
<1>3. OwnInputs'
  BY <1>1, <1>2 DEF OwnInputs
<1>4. HeldOffered'
  BY <1>1, <1>2 DEF HeldOffered, Chp!Holds
<1> QED
  BY <1>1, <1>3, <1>4 DEF NetworkInv

(* The environment sends. *)
LEMMA PutInv ==
  ASSUME NetworkInv, NEW c, NEW v, EnvPut(c, v)
  PROVE  NetworkInv'
<1>1. /\ OwnInputs /\ HeldOffered /\ pc = "done" /\ UNCHANGED <<vars, got>>
      /\ ~Chp!Offered(Raw(c))
      /\ offer' = [m \in DOMAIN offer \cup {Raw(c)} |-> IF m = Raw(c) THEN v ELSE offer[m]]
  BY DEF EnvPut, Running, Chp!Put, NetworkInv
<1>2. pc' = "done" /\ insts' = insts
  BY <1>1 DEF vars
<1>3. OwnInputs'
  BY <1>1, <1>2 DEF OwnInputs
<1>4. \A n : Chp!Offered(n) => Chp!Offered(n)' /\ offer'[n] = offer[n]
  BY <1>1 DEF Chp!Offered
<1>5. \A n : Direct(n)' => Direct(n)
  BY <1>1, DirectStays
<1>6. HeldOffered'
  BY <1>1, <1>2, <1>4, <1>5 DEF HeldOffered, Chp!StillOffered, Chp!Holds
<1> QED
  BY <1>2, <1>3, <1>6 DEF NetworkInv

(* The environment receives, on channels nobody reads in the block. *)
LEMMA GetInv ==
  ASSUME AllInv, ScopeInv, ClosedInv, NetworkInv, NEW c, EnvGet(c)
  PROVE  NetworkInv'
<1>1. /\ OwnInputs /\ HeldOffered /\ pc = "done" /\ UNCHANGED <<vars, got>>
      /\ offer' = Chp!Without(offer, {Raw(c)}) /\ ~Read(c)
  BY DEF EnvGet, Network, Running, Chp!Get, NetworkInv
<1>2. pc' = "done" /\ insts' = insts
  BY <1>1 DEF vars
<1>3. OwnInputs'
  BY <1>1, <1>2 DEF OwnInputs
<1>4. \A n : Chp!Offered(n) /\ n # Raw(c) => Chp!Offered(n)' /\ offer'[n] = offer[n]
  BY <1>1 DEF Chp!Offered, Chp!Without
<1>5. \A n : Direct(n)' => Direct(n)
  BY <1>1, DirectStays
<1>6. \A x \in insts : \A p \in DOMAIN got[x] : x.ins[p] # Raw(c)
  BY <1>1, RawReader DEF OwnInputs
<1>7. HeldOffered'
  BY <1>1, <1>2, <1>4, <1>5, <1>6 DEF HeldOffered, Chp!StillOffered, Chp!Holds
<1> QED
  BY <1>2, <1>3, <1>7 DEF NetworkInv

(* Whatever the block, whatever the environment sends and in whatever order  *)
(* the processes step: each process holds values of its own inputs only, and *)
(* no other process and not the environment takes what an unpiped process or *)
(* a converter has seen at its probe.                                        *)
THEOREM NetworkTheorem == MapSpec => []NetworkInv
<1>1. MapInit => NetworkInv
  BY DEF MapInit, Init, NetworkInv
<1>2. (AllInv /\ ScopeInv /\ ClosedInv) /\ NetworkInv /\ [MapNext]_mapVars => NetworkInv'
  <2> SUFFICES ASSUME AllInv, ScopeInv, ClosedInv, NetworkInv, [MapNext]_mapVars
               PROVE  NetworkInv'
    OBVIOUS
  <2>1. CASE UNCHANGED <<vars, offer, got>>
    <3>1. (\A n : Direct(n)' => Direct(n)) /\ insts' = insts /\ pc' = pc /\ offer' = offer /\ got' = got
      BY <2>1, DirectStays DEF vars
    <3> QED
      BY <3>1 DEF NetworkInv, OwnInputs, HeldOffered, Chp!StillOffered, Chp!Offered, Chp!Holds
  <2>2. CASE Translate
    BY <2>2 DEF Translate, NetworkInv
  <2>3. CASE Start
    BY <2>3, StartInv DEF Start, Network
  <2>4. ASSUME NEW y \in insts, Running, Network(Chp!Step(y)) PROVE NetworkInv'
    BY <2>4, ProcessInv DEF Network
  <2>5. ASSUME NEW c \in Chan, NEW v \in Value, EnvPut(c, v) PROVE NetworkInv'
    BY <2>5, PutInv
  <2>6. ASSUME NEW c \in Chan, EnvGet(c) PROVE NetworkInv'
    BY <2>6, GetInv
  <2>7. CASE \E i \in DOMAIN prog : StepAt(i) \/ UnitAt(i)
    BY <2>4, <2>7, Zenon DEF StepAt, UnitAt
  <2>8. CASE \E c \in Chan : CopyOf(c) \/ ConverterOf(c)
    BY <2>4, <2>8, Zenon DEF CopyOf, ConverterOf
  <2>9. UNCHANGED mapVars => UNCHANGED <<vars, offer, got>>
    BY DEF mapVars
  <2> QED
    BY <2>1, <2>2, <2>3, <2>5, <2>6, <2>7, <2>8, <2>9, Zenon DEF MapNext
<1> QED
  BY <1>1, <1>2, NetTheorem, PTL DEF MapSpec

(* Whatever the block, an unpiped process and a converter receive what they  *)
(* saw at their probes: HeldIsReceived of DflowMap.                          *)
THEOREM HeldIsReceivedTheorem == MapSpec => []HeldIsReceived
BY HeldMeans, NetworkTheorem, PTL

-----------------------------------------------------------------------------
(* Values. What is offered is on a port of the network, and it is a value of *)
(* the type of the channels: the elements compute values from values, and    *)
(* the number a mixer or an arbiter sends is one its control can carry.      *)
ValueInv ==
  /\ \A n \in DOMAIN offer : offer[n] \in Value /\ (HasReader(n) \/ HasWriter(n))
  /\ \A x \in DOMAIN got : \A p \in DOMAIN got[x] : got[x][p] \in Value
  /\ puts \in [Chan -> 0..MaxPut]

LEMMA TypeMeans ==
  ASSUME NetworkInv, ValueInv
  PROVE  MapTypeOK
<1>1. \A n \in DOMAIN offer : \E x \in insts : n \in Chp!Range(x.ins) \cup Chp!Range(x.outs)
  BY DEF ValueInv, HasReader, HasWriter, Chp!Range
<1>2. DOMAIN got \in {{}, insts}
  BY DEF NetworkInv, OwnInputs
<1>3. \A x \in DOMAIN got : DOMAIN got[x] \subseteq DOMAIN x.ins /\ Chp!Range(got[x]) \subseteq Value
  BY DEF NetworkInv, OwnInputs, ValueInv, Chp!Range
<1> QED
  BY <1>1, <1>2, <1>3 DEF MapTypeOK, Chp!TypeOK, ValueInv

(* The ports of a unit are among those of its element; the processes that   *)
(* pass a value on have one input.                                          *)
LEMMA KindElement ==
  ASSUME AllInv, NEW x \in insts
  PROVE  /\ x.kind \in {"fu", "mixer", "arbiter"} =>
              /\ x.at \in 1..Len(prog)
              /\ DOMAIN x.ins \subseteq DOMAIN prog[x.at].reads
              /\ DOMAIN x.outs \subseteq DOMAIN prog[x.at].outs
              /\ x.kind # "fu" => prog[x.at].t = x.kind /\ DOMAIN x.ins = DOMAIN prog[x.at].reads
         /\ x.kind \notin {"fu", "source", "split", "merge", "mixer", "arbiter"} => DOMAIN x.ins = {1}
<1>1. CASE CopyShape(x)
  BY <1>1, InstFields, OnePort DEF CopyShape, CopyInst
<1>2. CASE ConvShape(x)
  BY <1>2, InstFields, OnePort DEF ConvShape
<1>3. CASE ElementShape(x)
  <2>1. PICK i, e : i = x.at /\ e = prog[i]
    OBVIOUS
  <2>2. i \in 1..Len(prog) /\ prog \in Programs
    <3>1. prog \in Programs /\ next \in 1..(Len(prog) + 1)
      BY DEF AllInv, TypeOK
    <3>2. i \in 1..(next - 1) /\ Len(prog) \in Nat
      BY <1>3, <2>1, <3>1, ProgType DEF ElementShape
    <3> QED
      BY <3>1, <3>2
  <2>3. CASE UnitShape(x, e)
    <3>1. x.kind = UnitKind(e) /\ e.t # "sink" /\ DOMAIN x.ins = UsePorts(e) /\ DOMAIN x.outs = UnitOuts(e)
      BY <2>3 DEF UnitShape
    <3>2. UsePorts(e) \subseteq DOMAIN e.reads /\ UnitOuts(e) \subseteq DOMAIN e.outs
      BY DEF UsePorts, FirstOccurrences, UnitOuts, Calcs
    <3>3. e.t \in Kinds
      BY <2>1, <2>2, ElementFacts
    <3>4. /\ x.kind \in {"fu", "split", "merge", "mixer", "arbiter"}
          /\ x.kind # "fu" => e.t = x.kind /\ e.t \notin FC
      BY <3>1, <3>3 DEF UnitKind, Kinds, FC
    <3>5. e.t \notin FC => UsePorts(e) = DOMAIN e.reads
      BY DEF UsePorts, FC
    <3> QED
      BY <2>1, <2>2, <3>1, <3>2, <3>4, <3>5
  <2>4. CASE SourceShape(x, e)
    BY <2>4, InstFields DEF SourceShape
  <2>5. CASE BuffShape(x, e)
    <3>1. PICK o \in BuffOuts(e) : x \in BuffChain(x.at, e.outs[o])
      BY <2>5 DEF BuffShape
    <3>2. x.kind \in {"onebuf", "init"} /\ DOMAIN x.ins = {1}
      BY <3>1, InstFields, OnePort DEF BuffChain
    <3> QED
      BY <3>2
  <2>6. CASE SinkShape(x, e)
    BY <2>6, InstFields, OnePort DEF SinkShape
  <2> QED
    BY <1>3, <2>1, <2>3, <2>4, <2>5, <2>6 DEF ElementShape
<1> QED
  BY <1>1, <1>2, <1>3 DEF AllInv, TextInv, Shapes

(* A round that uses values sends values. *)
LEMMA SendsValues ==
  ASSUME AllInv, NEW x \in insts, NEW seen, DOMAIN seen \subseteq DOMAIN x.ins,
         \A p \in DOMAIN seen : seen[p] \in Value,
         NEW S \in Chp!Rounds(x, seen), NEW vals, vals = Chp!Only(seen, S), DOMAIN vals = S,
         NEW o \in DOMAIN Chp!Sends(x, vals)
  PROVE  Chp!Sends(x, vals)[o] \in Value
<1>1. vals = [p \in S |-> seen[p]] /\ S \subseteq DOMAIN seen
  BY DEF Chp!Only
<1>2. \A p \in S : vals[p] = seen[p] /\ vals[p] \in Value
  BY <1>1
<1>3. CASE x.kind = "fu"
  <2>1. PICK e : e = prog[x.at]
    OBVIOUS
  <2>2. S = DOMAIN x.ins
    BY <1>3 DEF Chp!Rounds
  <2>3. S \in SUBSET DOMAIN e.reads /\ DOMAIN x.outs \subseteq DOMAIN e.outs /\ x.at \in 1..Len(prog)
    BY <1>3, <2>1, <2>2, KindElement
  <2>4. prog \in Programs /\ x.at \in DOMAIN prog
    BY <2>3, ProgType DEF AllInv, TypeOK
  <2>5. vals \in [S -> Value]
    BY <1>1, <1>2
  <2>6. Chp!Sends(x, vals) = [q \in DOMAIN x.outs |-> Eval(q, vals)]
    BY <1>3 DEF Chp!Sends
  <2>7. o \in DOMAIN e.outs /\ Chp!Sends(x, vals)[o] = Eval(o, vals)
    BY <2>3, <2>6
  <2>8. \A q \in DOMAIN e.outs, v \in [S -> Value] : Eval(q, v) \in Value
    BY <2>1, <2>3, <2>4, EvalAssumption
  <2> QED
    BY <2>5, <2>7, <2>8
<1>4. CASE x.kind = "source"
  BY <1>4, ValueAssumption DEF Chp!Sends
<1>5. CASE x.kind = "split"
  <2>1. 1 \in S
    BY <1>5, KindPorts DEF Chp!Rounds
  <2>2. Chp!Sends(x, vals)[o] = vals[1]
    BY <1>5 DEF Chp!Sends
  <2> QED
    BY <1>2, <2>1, <2>2
<1>6. CASE x.kind = "merge"
  <2>1. S = {1, seen[1] + 2}
    BY <1>6 DEF Chp!Rounds
  <2>2. Chp!Sends(x, vals)[o] = vals[vals[1] + 2]
    BY <1>6 DEF Chp!Sends
  <2>3. vals[1] = seen[1] /\ seen[1] + 2 \in S
    BY <1>2, <2>1
  <2> QED
    BY <1>2, <2>2, <2>3
<1>7. CASE x.kind \in {"mixer", "arbiter"}
  <2>1. PICK q \in DOMAIN x.ins : S = {q}
    BY <1>7 DEF Chp!Rounds
  <2>2. \A p \in DOMAIN vals : p = q
    BY <2>1
  <2>3. (CHOOSE p \in DOMAIN vals : TRUE) = q
    BY <2>1, <2>2
  <2>4. Chp!Sends(x, vals) = <<vals[q], q - 1>>
    BY <1>7, <2>3 DEF Chp!Sends
  <2>5. q - 1 \in Value
    <3>1. PICK i : i = x.at
      OBVIOUS
    <3>2. i \in 1..Len(prog) /\ q \in DOMAIN prog[i].reads /\ prog[i].t \in {"mixer", "arbiter"}
      BY <1>7, <2>1, <3>1, KindElement
    <3>3. prog \in Programs /\ i \in DOMAIN prog
      BY <3>2, ProgType DEF AllInv, TypeOK
    <3> QED
      BY <3>2, <3>3, ControlAssumption
  <2>6. vals[q] \in Value
    BY <1>2, <2>1
  <2>7. o \in {1, 2}
    BY <2>4
  <2> QED
    BY <2>4, <2>5, <2>6, <2>7
<1>8. CASE x.kind \notin {"fu", "source", "split", "merge", "mixer", "arbiter"}
  <2>1. 1 \in S
    BY <1>8, KindElement DEF Chp!Rounds
  <2>2. Chp!Sends(x, vals)[o] = vals[1]
    BY <1>8 DEF Chp!Sends
  <2> QED
    BY <1>2, <2>1, <2>2
<1> QED
  BY <1>3, <1>4, <1>5, <1>6, <1>7, <1>8

(* A step of y leaves values of the channels' type on ports of the network. *)
ValueStep ==
  /\ \A n \in DOMAIN offer' : offer'[n] \in Value /\ (HasReader(n) \/ HasWriter(n))
  /\ \A x \in DOMAIN got' : \A p \in DOMAIN got'[x] : got'[x][p] \in Value

(* The powers of two, by which an arbiter that cuts its data divides.       *)
LEMMA PowersPositive ==
  \A k \in Nat : Chp!Pow2[k] \in Nat /\ Chp!Pow2[k] # 0
<1> DEFINE W == Nat \ {0}
           h == [e \in Nat |-> e]
           parts == [e \in Nat |-> IF e = 0 THEN <<>> ELSE <<e - 1>>]
           Body == [e \in Nat |-> [s \in [DOMAIN parts[e] -> W] |-> IF e = 0 THEN 1 ELSE 2 * s[1]]]
           Eq(f) == f = [k \in Nat |-> IF k = 0 THEN 1 ELSE 2 * f[k - 1]]
<1>1. h \in [Nat -> Nat] /\ \A e \in Nat : \A i \in DOMAIN parts[e] : parts[e][i] \in Nat /\ h[parts[e][i]] < h[e]
  OBVIOUS
<1>2. ASSUME NEW e \in Nat, NEW s \in [DOMAIN parts[e] -> W] PROVE Body[e][s] \in W
  <2>1. CASE e = 0
    BY <2>1
  <2>2. CASE e # 0
    <3>1. DOMAIN parts[e] = {1}
      BY <2>2
    <3>2. s[1] \in W
      BY <3>1
    <3>3. Body[e][s] = 2 * s[1]
      BY <2>2
    <3> QED
      BY <3>2, <3>3
  <2> QED
    BY <2>1, <2>2
<1>3. PICK f \in [Nat -> W] : \A e \in Nat : f[e] = Body[e][Each(f, parts[e])]
  <2>1. W # {}
    OBVIOUS
  <2> HIDE DEF Body, h, parts, W
  <2>2. Below(Nat, h, parts) /\ Bodies(Nat, parts, W, Body)
    BY <1>1, <1>2, <2>1 DEF Below, Bodies
  <2> QED
    BY <2>2, TreeRecursion
<1>4. Eq(f)
  <2>1. ASSUME NEW e \in Nat PROVE f[e] = IF e = 0 THEN 1 ELSE 2 * f[e - 1]
    <3>1. CASE e = 0
      <4>1. Each(f, parts[e]) \in [DOMAIN parts[e] -> W]
        BY <3>1 DEF Each
      <4> QED
        BY <1>3, <3>1, <4>1
    <3>2. CASE e # 0
      <4>1. DOMAIN parts[e] = {1} /\ parts[e][1] = e - 1 /\ e - 1 \in Nat
        BY <3>2
      <4>2. Each(f, parts[e]) \in [DOMAIN parts[e] -> W] /\ Each(f, parts[e])[1] = f[e - 1]
        BY <4>1 DEF Each
      <4>3. Body[e][Each(f, parts[e])] = 2 * f[e - 1]
        BY <3>2, <4>2
      <4> QED
        BY <1>3, <3>2, <4>3
    <3> QED
      BY <3>1, <3>2
  <2> QED
    BY <2>1
<1>5. Eq(Chp!Pow2)
  <2>1. Chp!Pow2 = (CHOOSE f2 : Eq(f2))
    BY DEF Chp!Pow2
  <2> HIDE DEF Eq
  <2> QED
    BY <1>4, <2>1
<1> DEFINE T == {k \in Nat : ~(Chp!Pow2[k] \in Nat /\ Chp!Pow2[k] # 0)}
<1>6. T = {}
  <2> SUFFICES ASSUME T # {} PROVE FALSE
    OBVIOUS
  <2>1. PICK n \in T : \A k \in T : n <= k
    <3>1. T \subseteq Nat
      OBVIOUS
    <3> HIDE DEF T
    <3> QED
      BY <3>1, LeastNatural, Zenon
  <2>2. CASE n = 0
    BY <1>5, <2>1, <2>2
  <2>3. CASE n # 0
    <3>1. n \in Nat /\ n - 1 \in Nat /\ n - 1 \notin T
      BY <2>1, <2>3
    <3>2. Chp!Pow2[n - 1] \in Nat /\ Chp!Pow2[n - 1] # 0 /\ Chp!Pow2[n] = 2 * Chp!Pow2[n - 1]
      BY <1>5, <2>3, <3>1
    <3>3. Chp!Pow2[n] \in Nat /\ Chp!Pow2[n] # 0
      BY <3>2
    <3> QED
      BY <2>1, <3>3
  <2> QED
    BY <2>2, <2>3
<1> QED
  BY <1>6

LEMMA CutBelow ==
  ASSUME NEW v \in Nat, NEW m \in Nat, m # 0
  PROVE  v % m \in 0..v /\ (v < m => v % m = v)
OBVIOUS

(* The processes' Cardinality is the one of FiniteSets.                     *)
LEMMA CardinalityInLibrary == \A S : Chp!Cardinality(S) = Cardinality(S)
BY DEF Chp!Cardinality, Cardinality

(* What an arbiter divides by, for its element's number of inputs.          *)
LEMMA ArbiterWidth ==
  ASSUME AllInv, NEW x \in insts, x.kind = "arbiter"
  PROVE  /\ x.at \in DOMAIN prog /\ prog[x.at].t = "arbiter"
         /\ Cardinality(DOMAIN x.ins) = Len(prog[x.at].reads)
         /\ Chp!ControlWidth(Len(prog[x.at].reads)) \in Nat
<1>1. /\ x.at \in DOMAIN prog /\ prog[x.at].t = "arbiter"
      /\ DOMAIN x.ins = DOMAIN prog[x.at].reads
  BY KindElement, ProgType DEF AllInv, TypeOK
<1>2. PICK n : n = Len(prog[x.at].reads)
  OBVIOUS
<1>3. n \in Nat /\ DOMAIN x.ins = 1..n
  BY <1>1, <1>2, ElementFacts, LenProperties DEF AllInv, TypeOK
<1>4. Cardinality(1..n) = n
  BY <1>3, FS_Interval
<1>5. IsFiniteSet({k \in 0..n : Chp!Pow2[k] < n})
  <2>1. IsFiniteSet(0..n)
    BY <1>3, FS_Interval
  <2> QED
    BY <2>1, FS_Subset
<1>6. Chp!ControlWidth(n) \in Nat
  BY <1>5, CardinalityInLibrary, FS_CardinalityType DEF Chp!ControlWidth
<1> QED
  BY <1>1, <1>2, <1>3, <1>4, <1>6, CardinalityInLibrary

(* What is left of a value is a value.                                      *)
LEMMA StoredValue ==
  ASSUME AllInv, NEW x \in insts, NEW v \in Value
  PROVE  Chp!Stored(x, v) \in Value
<1>1. CASE x.kind = "arbiter"
  <2>1. PICK w : w = Chp!ControlWidth(Cardinality(DOMAIN x.ins))
    OBVIOUS
  <2>2. w \in Nat
    BY <1>1, <2>1, ArbiterWidth
  <2>3. v \in Nat /\ v % Chp!Pow2[w] \in 0..v
    BY <2>2, PowersPositive, CutBelow, ValueAssumption
  <2>4. Chp!Stored(x, v) = v % Chp!Pow2[w]
    BY <1>1, <2>1, CardinalityInLibrary DEF Chp!Stored
  <2> QED
    BY <2>3, <2>4, ValueAssumption
<1>2. CASE x.kind # "arbiter"
  BY <1>2 DEF Chp!Stored
<1> QED
  BY <1>1, <1>2

LEMMA ReceiveValues ==
  ASSUME AllInv, OwnInputs, ValueInv, NEW y \in insts, NEW p \in DOMAIN y.ins, Chp!Receive(y, p)
  PROVE  ValueStep
<1>1. PICK v, g : /\ v = Chp!Stored(y, offer[y.ins[p]])
                  /\ g = [q \in DOMAIN got[y] \cup {p} |-> IF q = p THEN v ELSE got[y][q]]
  OBVIOUS
<1>2. /\ y.ins[p] \in DOMAIN offer
      /\ got' = [got EXCEPT ![y] = g]
      /\ offer' = Chp!Without(offer, {y.ins[p]})
  BY <1>1 DEF Chp!Receive, Chp!Offered
<1>3. \A q \in DOMAIN g : g[q] \in Value
  <2>1. v \in Value
    BY <1>1, <1>2, StoredValue DEF ValueInv
  <2> QED
    BY <1>1, <2>1 DEF OwnInputs, ValueInv
<1>4. \A x \in DOMAIN got' : \A q \in DOMAIN got'[x] : got'[x][q] \in Value
  BY <1>2, <1>3 DEF OwnInputs, ValueInv
<1>5. \A n \in DOMAIN offer' : n \in DOMAIN offer /\ offer'[n] = offer[n]
  BY <1>2 DEF Chp!Without
<1> QED
  BY <1>4, <1>5 DEF ValueStep, ValueInv

LEMMA SendValues ==
  ASSUME AllInv, OwnInputs, ValueInv, NEW y \in insts, Chp!Send(y)
  PROVE  ValueStep
<1>1. PICK S, vals :
        /\ S \in Chp!Rounds(y, Chp!Seen(y))
        /\ vals = Chp!Only(Chp!Seen(y), S) /\ DOMAIN vals = S
        /\ offer' = [n \in DOMAIN offer \cup DOMAIN Chp!Offering(y, vals) |->
                       IF n \in DOMAIN Chp!Offering(y, vals) THEN Chp!Offering(y, vals)[n] ELSE offer[n]]
        /\ got' = [got EXCEPT ![y] = IF Chp!Holds(y) THEN vals ELSE Chp!Nothing]
  BY DEF Chp!Send
<1>2. PICK seen : seen = Chp!Seen(y)
  OBVIOUS
<1>3. DOMAIN seen \subseteq DOMAIN y.ins
  BY <1>2, SeenPorts
<1>4. \A p \in DOMAIN seen : seen[p] \in Value
  BY <1>2 DEF Chp!Seen, Chp!Offered, ValueInv, OwnInputs
<1>5. PICK out : out = Chp!Sends(y, vals)
  OBVIOUS
<1>6. \A o \in DOMAIN out : out[o] \in Value /\ o \in DOMAIN y.outs
  BY <1>1, <1>2, <1>3, <1>4, <1>5, SendsValues, SendsWithin
<1>7. PICK new : new = [n \in {y.outs[o] : o \in DOMAIN out} |-> out[CHOOSE o \in DOMAIN out : y.outs[o] = n]]
  OBVIOUS
<1>8. Chp!Offering(y, vals) = new
  BY <1>5, <1>7 DEF Chp!Offering
<1>9. ASSUME NEW n \in DOMAIN new PROVE new[n] \in Value /\ HasWriter(n)
  <2>1. \E o \in DOMAIN out : y.outs[o] = n
    BY <1>7, <1>9
  <2>2. PICK o : o = CHOOSE q \in DOMAIN out : y.outs[q] = n
    OBVIOUS
  <2>3. o \in DOMAIN out /\ y.outs[o] = n
    BY <2>1, <2>2
  <2>4. new[n] = out[o]
    BY <1>7, <1>9, <2>2
  <2> QED
    BY <1>6, <2>3, <2>4 DEF HasWriter
<1>10. offer' = [n \in DOMAIN offer \cup DOMAIN new |-> IF n \in DOMAIN new THEN new[n] ELSE offer[n]]
  BY <1>1, <1>8
<1>11. \A n \in DOMAIN offer' : offer'[n] \in Value /\ (HasReader(n) \/ HasWriter(n))
  BY <1>9, <1>10 DEF ValueInv
<1>12. PICK g : g = IF Chp!Holds(y) THEN vals ELSE Chp!Nothing
  OBVIOUS
<1>13. \A p \in DOMAIN g : g[p] \in Value
  BY <1>1, <1>2, <1>4, <1>12 DEF Chp!Only, Chp!Nothing
<1>14. got' = [got EXCEPT ![y] = g]
  BY <1>1, <1>12
<1>15. \A x \in DOMAIN got' : \A p \in DOMAIN got'[x] : got'[x][p] \in Value
  BY <1>13, <1>14 DEF ValueInv, OwnInputs
<1> QED
  BY <1>11, <1>15 DEF ValueStep

LEMMA ReleaseValues ==
  ASSUME OwnInputs, ValueInv, NEW y \in insts, Chp!Release(y)
  PROVE  ValueStep
<1>1. /\ got' = [got EXCEPT ![y] = Chp!Nothing]
      /\ \A n \in DOMAIN offer' : n \in DOMAIN offer /\ offer'[n] = offer[n]
  BY DEF Chp!Release, Chp!Without
<1>2. \A x \in DOMAIN got' : \A q \in DOMAIN got'[x] : got'[x][q] \in Value
  BY <1>1 DEF OwnInputs, ValueInv, Chp!Nothing
<1> QED
  BY <1>1, <1>2 DEF ValueStep, ValueInv

LEMMA ProcessValues ==
  ASSUME AllInv, NetworkInv, ValueInv, Running, NEW y \in insts, Chp!Step(y), UNCHANGED <<vars, puts>>
  PROVE  ValueInv'
<1>1. OwnInputs /\ insts' = insts
  BY DEF NetworkInv, Running, vars
<1>2. ValueStep
  BY <1>1, ReceiveValues, SendValues, ReleaseValues DEF Chp!Step
<1> QED
  BY <1>1, <1>2 DEF ValueStep, ValueInv, HasReader, HasWriter

(* The environment sends on the channels the program reads. *)
LEMMA PutValues ==
  ASSUME AllInv, ScopeInv, ClosedInv, UsesRead, ValueInv, NEW c \in Chan, NEW v \in Value, EnvPut(c, v)
  PROVE  ValueInv'
<1>1. /\ pc = "done" /\ Read(c) /\ UNCHANGED <<vars, got>> /\ puts[c] < MaxPut
      /\ offer' = [m \in DOMAIN offer \cup {Raw(c)} |-> IF m = Raw(c) THEN v ELSE offer[m]]
      /\ puts' = [puts EXCEPT ![c] = @ + 1]
  BY DEF EnvPut, Running, Chp!Put
<1>2. HasReader(Raw(c))
  BY <1>1, InputsRead
<1>3. insts' = insts
  BY <1>1 DEF vars
<1>4. puts' \in [Chan -> 0..MaxPut]
  BY <1>1, MaxPutAssumption DEF ValueInv
<1>5. \A n \in DOMAIN offer' : offer'[n] \in Value /\ (HasReader(n) \/ HasWriter(n))
  BY <1>1, <1>2 DEF ValueInv
<1> QED
  BY <1>1, <1>3, <1>4, <1>5 DEF ValueInv, HasReader, HasWriter

LEMMA GetValues ==
  ASSUME ValueInv, NEW c, EnvGet(c)
  PROVE  ValueInv'
<1>1. /\ UNCHANGED <<vars, got, puts>>
      /\ \A n \in DOMAIN offer' : n \in DOMAIN offer /\ offer'[n] = offer[n]
  BY DEF EnvGet, Network, Chp!Get, Chp!Without
<1> QED
  BY <1>1 DEF ValueInv, HasReader, HasWriter, vars

LEMMA StartValues ==
  ASSUME ValueInv, Start
  PROVE  ValueInv'
<1>1. /\ got' = [x \in insts |-> IF x.kind = "init" THEN [p \in {1} |-> InitValue] ELSE Chp!Nothing]
      /\ UNCHANGED <<vars, offer, puts>>
  BY DEF Start, Network, Chp!Reset
<1>2. \A x \in DOMAIN got' : \A p \in DOMAIN got'[x] : got'[x][p] \in Value
  BY <1>1, ValueAssumption DEF Chp!Nothing
<1> QED
  BY <1>1, <1>2 DEF ValueInv, HasReader, HasWriter, vars

(* All that is offered or held is a value. *)
THEOREM ValueTheorem == MapSpec => []ValueInv
<1>1. MapInit => ValueInv
  BY MaxPutAssumption DEF MapInit, ValueInv
<1>2. (AllInv /\ ScopeInv /\ ClosedInv /\ UsesRead) /\ NetworkInv /\ ValueInv /\ [MapNext]_mapVars => ValueInv'
  <2> SUFFICES ASSUME AllInv, ScopeInv, ClosedInv, UsesRead, NetworkInv, ValueInv, [MapNext]_mapVars
               PROVE  ValueInv'
    OBVIOUS
  <2>1. CASE UNCHANGED <<vars, offer, got, puts>>
    BY <2>1 DEF vars, ValueInv, HasReader, HasWriter
  <2>2. CASE Translate
    BY <2>2 DEF Translate, NetworkInv, ValueInv
  <2>3. CASE Start
    BY <2>3, StartValues
  <2>4. ASSUME NEW y \in insts, Running, Network(Chp!Step(y)) PROVE ValueInv'
    BY <2>4, ProcessValues DEF Network
  <2>5. ASSUME NEW c \in Chan, NEW v \in Value, EnvPut(c, v) PROVE ValueInv'
    BY <2>5, PutValues
  <2>6. ASSUME NEW c \in Chan, EnvGet(c) PROVE ValueInv'
    BY <2>6, GetValues
  <2>7. CASE \E i \in DOMAIN prog : StepAt(i) \/ UnitAt(i)
    BY <2>4, <2>7, Zenon DEF StepAt, UnitAt
  <2>8. CASE \E c \in Chan : CopyOf(c) \/ ConverterOf(c)
    BY <2>4, <2>8, Zenon DEF CopyOf, ConverterOf
  <2>9. UNCHANGED mapVars => UNCHANGED <<vars, offer, got, puts>>
    BY DEF mapVars
  <2> QED
    BY <2>1, <2>2, <2>3, <2>5, <2>6, <2>7, <2>8, <2>9, Zenon DEF MapNext
<1> QED
  BY <1>1, <1>2, NetTheorem, NetworkTheorem, PTL DEF MapSpec

(* Whatever the block and the environment, the network offers values on its  *)
(* own channels, holds values received on its own inputs, and the            *)
(* environment has a reader for all it sends: MapTypeOK of DflowMap.         *)
THEOREM MapTypeOKTheorem == MapSpec => []MapTypeOK
BY TypeMeans, NetworkTheorem, ValueTheorem, PTL

-----------------------------------------------------------------------------
(* Queues: what is put in front of a queue, taken from it and added to it. *)

LEMMA InFront ==
  ASSUME NEW V, NEW v \in V, NEW s \in Seq(V)
  PROVE  /\ <<v>> \o s \in Seq(V) /\ <<v>> \o s # <<>>
         /\ Head(<<v>> \o s) = v /\ Tail(<<v>> \o s) = s
<1>1. <<v>> \in Seq(V) /\ Len(<<v>>) = 1 /\ <<v>>[1] = v
  OBVIOUS
<1>2. PICK t : t = <<v>> \o s
  OBVIOUS
<1>3. /\ t \in Seq(V) /\ Len(t) = 1 + Len(s) /\ Len(s) \in Nat
      /\ \A i \in 1..(1 + Len(s)) : t[i] = IF i <= 1 THEN <<v>>[i] ELSE s[i - 1]
  BY <1>1, <1>2, ConcatProperties, LenProperties
<1>4. t # <<>>
  BY <1>3, EmptySeq
<1>5. Head(t) = v
  BY <1>1, <1>3
<1>6. /\ Tail(t) \in Seq(V) /\ Len(Tail(t)) = Len(s)
      /\ \A i \in 1..Len(s) : Tail(t)[i] = t[i + 1]
  <2>1. Len(t) - 1 = Len(s)
    BY <1>3
  <2> QED
    BY <1>3, <1>4, <2>1, HeadTailProperties
<1>7. \A i \in 1..Len(s) : Tail(t)[i] = s[i]
  BY <1>3, <1>6
<1>8. Tail(t) = s
  BY <1>6, <1>7, SeqEqual
<1> QED
  BY <1>2, <1>3, <1>4, <1>5, <1>8

(* A queue that is not empty is its head and then its tail. *)
LEMMA HeadAndTail ==
  ASSUME NEW V, NEW s \in Seq(V), s # <<>>
  PROVE  Tail(s) \in Seq(V) /\ Head(s) \in V /\ s = <<Head(s)>> \o Tail(s)
<1>1. /\ Head(s) \in V /\ Tail(s) \in Seq(V) /\ Len(Tail(s)) = Len(s) - 1
      /\ \A i \in 1..Len(Tail(s)) : Tail(s)[i] = s[i + 1]
  BY HeadTailProperties
<1>2. Len(s) \in Nat \ {0}
  BY EmptySeq
<1>3. <<Head(s)>> \in Seq(V) /\ Len(<<Head(s)>>) = 1 /\ <<Head(s)>>[1] = Head(s)
  BY <1>1
<1>4. PICK u : u = <<Head(s)>> \o Tail(s)
  OBVIOUS
<1>5. /\ u \in Seq(V) /\ Len(u) = 1 + (Len(s) - 1)
      /\ \A i \in 1..(1 + (Len(s) - 1)) :
           u[i] = IF i <= 1 THEN <<Head(s)>>[i] ELSE Tail(s)[i - 1]
  BY <1>1, <1>3, <1>4, ConcatProperties
<1>6. ASSUME NEW i \in 1..Len(s) PROVE s[i] = u[i]
  <2>1. CASE i = 1
    BY <1>2, <1>3, <1>5, <2>1
  <2>2. CASE i # 1
    <3>1. i - 1 \in 1..Len(Tail(s)) /\ (i - 1) + 1 = i /\ i \in 1..(1 + (Len(s) - 1)) /\ ~(i <= 1)
      BY <1>1, <1>2, <2>2
    <3>2. Tail(s)[i - 1] = s[i]
      BY <1>1, <3>1
    <3> QED
      BY <1>5, <3>1, <3>2
  <2> QED
    BY <2>1, <2>2
<1>7. Len(s) = Len(u)
  BY <1>2, <1>5
<1>8. s = u
  BY <1>5, <1>6, <1>7, SeqEqual
<1> QED
  BY <1>1, <1>4, <1>8

(* What is added behind changes neither the head nor what comes before it. *)
LEMMA Behind ==
  ASSUME NEW V, NEW s \in Seq(V), NEW t \in Seq(V), s # <<>>
  PROVE  /\ s \o t \in Seq(V) /\ s \o t # <<>>
         /\ Head(s \o t) = Head(s) /\ Tail(s \o t) = Tail(s) \o t
<1>1. Tail(s) \in Seq(V) /\ Head(s) \in V /\ s = <<Head(s)>> \o Tail(s)
  BY HeadAndTail
<1>2. Tail(s) \o t \in Seq(V)
  BY <1>1, ConcatProperties
<1>3. s \o t = <<Head(s)>> \o (Tail(s) \o t)
  <2>1. <<Head(s)>> \in Seq(V)
    BY <1>1
  <2> QED
    BY <1>1, <2>1, ConcatAssociative
<1> QED
  BY <1>1, <1>2, <1>3, InFront

-----------------------------------------------------------------------------
(* TokensTo for any offers and any values held: one level is one process    *)
(* further back.                                                            *)

(* The processes that pass tokens on to m. There is one at most, its Feeder. *)
FeedsOf(I, m) == {y \in I : y.kind \in Transparent /\ m \in {y.outs[o] : o \in DOMAIN y.outs}}
Feeder(I, m) == CHOOSE y \in FeedsOf(I, m) : TRUE
Ahead(off, m) == IF m \in DOMAIN off THEN <<off[m]>> ELSE <<>>
(* The tokens rest in front of y, seen from behind it: what y has received is *)
(* before them; of a token it holds and has sent on, only one counts.         *)
Through(y, gy, rest) ==
  IF Chp!Holds(y) THEN IF Chp!Holds(y) /\ gy # Chp!Nothing THEN Tail(rest) ELSE rest
                  ELSE (IF gy = Chp!Nothing THEN <<>> ELSE <<gy[1]>>) \o rest

Back(I, off, g, m, before) ==
  Ahead(off, m) \o Through(Feeder(I, m), g[Feeder(I, m)], before[Feeder(I, m).ins[1]])
IsTokens(f, I, off, g, K) ==
  f = [k \in 0..K |->
         [m \in Names |-> IF k = 0 \/ FeedsOf(I, m) = {} THEN Ahead(off, m)
                           ELSE Back(I, off, g, m, f[k - 1])]]
Tokens(I, off, g, n) ==
  (CHOOSE f : IsTokens(f, I, off, g, Cardinality(I)))[Cardinality(I)][n]

(* Tokens is TokensTo, of this state and of the next. *)
LEMMA TokensAre ==
  ASSUME NEW n
  PROVE  /\ TokensTo(n) = Tokens(insts, offer, got, n)
         /\ insts' = insts => TokensTo(n)' = Tokens(insts, offer', got', n)
<1>1. TokensTo(n) = Tokens(insts, offer, got, n)
  BY Zenon DEF TokensTo, Tokens, IsTokens, Back, Ahead, Through, Feeder, FeedsOf, Names, OfferOn, RoundHeld,
         Received
<1>2. TokensTo(n)' = Tokens(insts', offer', got', n)
  BY Zenon DEF TokensTo, Tokens, IsTokens, Back, Ahead, Through, Feeder, FeedsOf, Names, OfferOn, RoundHeld,
         Received
<1> QED
  BY <1>1, <1>2

LEMMA TokensExist ==
  ASSUME NEW I, NEW off, NEW g, NEW K \in Nat
  PROVE  \E f : IsTokens(f, I, off, g, K)
<1> DEFINE T == {k \in Nat : ~ \E f : IsTokens(f, I, off, g, k)}
<1>1. SUFFICES ASSUME T # {} PROVE FALSE
  OBVIOUS
<1>2. PICK k \in T : \A j \in T : k <= j
  BY <1>1, LeastNatural
<1>3. k \in Nat /\ ~ \E f : IsTokens(f, I, off, g, k)
  OBVIOUS
<1> DEFINE At0 == [m \in Names |-> Ahead(off, m)]
           After(before) == [m \in Names |-> IF FeedsOf(I, m) = {} THEN Ahead(off, m)
                                             ELSE Back(I, off, g, m, before)]
<1>4. ASSUME NEW j \in Nat, NEW f
      PROVE  IsTokens(f, I, off, g, j) <=>
               f = [i \in 0..j |-> IF i = 0 THEN At0 ELSE After(f[i - 1])]
  <2>1. ASSUME NEW i \in 0..j
        PROVE  [m \in Names |-> IF i = 0 \/ FeedsOf(I, m) = {} THEN Ahead(off, m)
                                ELSE Back(I, off, g, m, f[i - 1])]
                 = IF i = 0 THEN At0 ELSE After(f[i - 1])
    OBVIOUS
  <2> QED
    BY <2>1 DEF IsTokens
<1> HIDE DEF At0, After, T
<1>5. k # 0
  <2>1. PICK f : f = [j \in 0..0 |-> At0]
    OBVIOUS
  <2>2. f = [i \in 0..0 |-> IF i = 0 THEN At0 ELSE After(f[i - 1])]
    BY <2>1
  <2> QED
    BY <1>3, <1>4, <2>2
<1>6. PICK f : IsTokens(f, I, off, g, k - 1)
  <2>1. k - 1 \in Nat /\ ~(k <= k - 1)
    BY <1>3, <1>5
  <2> QED
    BY <1>2, <2>1 DEF T
<1>7. PICK h : h = [j \in 0..k |-> IF j = k THEN After(f[k - 1]) ELSE f[j]]
  OBVIOUS
<1>8. ASSUME NEW j \in 0..k PROVE h[j] = IF j = 0 THEN At0 ELSE After(h[j - 1])
  <2>1. \A i \in 0..(k - 1) : f[i] = IF i = 0 THEN At0 ELSE After(f[i - 1])
    <3>1. k - 1 \in Nat
      BY <1>3, <1>5
    <3>2. f = [i \in 0..(k - 1) |-> IF i = 0 THEN At0 ELSE After(f[i - 1])]
      BY <1>4, <1>6, <3>1
    <3> QED
      BY <3>2
  <2>2. CASE j = k
    <3>1. k - 1 \in 0..k /\ k - 1 # k /\ j # 0
      BY <1>3, <1>5, <2>2
    <3>2. h[j] = After(f[k - 1]) /\ h[k - 1] = f[k - 1]
      BY <1>7, <2>2, <3>1
    <3> QED
      BY <2>2, <3>1, <3>2
  <2>3. CASE j # k
    <3>1. j \in 0..(k - 1) /\ (j # 0 => j - 1 \in 0..k /\ j - 1 # k)
      BY <1>3, <2>3
    <3>2. h[j] = f[j] /\ (j # 0 => h[j - 1] = f[j - 1])
      BY <1>7, <2>3, <3>1
    <3> QED
      BY <2>1, <3>1, <3>2
  <2> QED
    BY <2>2, <2>3
<1>9. h = [j \in 0..k |-> IF j = 0 THEN At0 ELSE After(h[j - 1])]
  BY <1>7, <1>8
<1> QED
  BY <1>3, <1>4, <1>9

(* A set of names, each with a number of steps to the end of its way. *)
Ways(I, W) ==
  \A n, d : <<n, d>> \in W =>
    /\ n \in Names /\ d \in Nat
    /\ FeedsOf(I, n) # {} => d > 0 /\ <<Feeder(I, n).ins[1], d - 1>> \in W

(* The tokens on the way to n: those offered on n, then those of its feeder. *)
LEMMA TokensBack ==
  ASSUME NEW I, IsFiniteSet(I), NEW off, NEW g, NEW W, Ways(I, W),
         NEW n, NEW d, <<n, d>> \in W, d <= Cardinality(I)
  PROVE  Tokens(I, off, g, n) =
           IF FeedsOf(I, n) = {} THEN Ahead(off, n)
           ELSE Ahead(off, n) \o Through(Feeder(I, n), g[Feeder(I, n)],
                                         Tokens(I, off, g, Feeder(I, n).ins[1]))
<1>1. PICK K : K = Cardinality(I)
  OBVIOUS
<1>2. K \in Nat
  BY <1>1, FS_CardinalityType
<1>3. PICK f : f = CHOOSE h : IsTokens(h, I, off, g, K)
  OBVIOUS
<1>4. IsTokens(f, I, off, g, K)
  BY <1>2, <1>3, TokensExist
<1>5. \A m : Tokens(I, off, g, m) = f[K][m]
  BY <1>1, <1>3 DEF Tokens
<1>6. ASSUME NEW k \in 0..K, NEW m \in Names
      PROVE  f[k][m] = IF k = 0 \/ FeedsOf(I, m) = {} THEN Ahead(off, m)
                       ELSE Back(I, off, g, m, f[k - 1])
  <2>1. f[k] = [l \in Names |-> IF k = 0 \/ FeedsOf(I, l) = {} THEN Ahead(off, l)
                                ELSE Back(I, off, g, l, f[k - 1])]
    BY <1>4 DEF IsTokens
  <2> QED
    BY <2>1
<1> DEFINE T == {k \in 1..K : \E m, e : <<m, e>> \in W /\ e < k /\ f[k][m] # f[k - 1][m]}
<1>7. T = {}
  <2>1. SUFFICES ASSUME T # {} PROVE FALSE
    OBVIOUS
  <2>2. T \subseteq Nat
    BY <1>2
  <2>3. PICK k \in T : \A j \in T : k <= j
    BY <2>1, <2>2, LeastNatural
  <2>4. PICK m, e : <<m, e>> \in W /\ e < k /\ f[k][m] # f[k - 1][m]
    BY <2>3
  <2>5. k \in 1..K /\ k - 1 \in 0..K /\ k \in 0..K /\ k # 0
    BY <1>2
  <2>6. m \in Names /\ e \in Nat
    BY <2>4 DEF Ways
  <2>7. FeedsOf(I, m) # {}
    BY <1>6, <2>4, <2>5, <2>6
  <2>8. e > 0 /\ <<Feeder(I, m).ins[1], e - 1>> \in W
    BY <2>4, <2>7 DEF Ways
  <2>9. k - 1 \in 1..K /\ k - 1 # 0 /\ e - 1 < k - 1 /\ ~(k <= k - 1)
    BY <2>4, <2>5, <2>6, <2>8, <1>2
  <2>10. f[k - 1][Feeder(I, m).ins[1]] = f[(k - 1) - 1][Feeder(I, m).ins[1]]
    BY <2>3, <2>8, <2>9
  <2>11. f[k][m] = Back(I, off, g, m, f[k - 1])
    BY <1>6, <2>5, <2>6, <2>7
  <2>12. f[k - 1][m] = Back(I, off, g, m, f[(k - 1) - 1])
    BY <1>6, <2>5, <2>6, <2>7, <2>9
  <2> QED
    BY <2>4, <2>10, <2>11, <2>12 DEF Back
<1>8. n \in Names /\ d \in Nat
  BY DEF Ways
<1>9. CASE FeedsOf(I, n) = {}
  <2>1. K \in 0..K
    BY <1>2
  <2> QED
    BY <1>5, <1>6, <1>8, <1>9, <2>1
<1>10. CASE FeedsOf(I, n) # {}
  <2>1. d > 0 /\ <<Feeder(I, n).ins[1], d - 1>> \in W
    BY <1>10 DEF Ways
  <2>2. K \in 1..K /\ K \in 0..K /\ K # 0 /\ d - 1 < K
    BY <1>1, <1>2, <1>8, <2>1
  <2>3. f[K][Feeder(I, n).ins[1]] = f[K - 1][Feeder(I, n).ins[1]]
    BY <1>7, <2>1, <2>2
  <2>4. f[K][n] = Back(I, off, g, n, f[K - 1])
    BY <1>6, <1>8, <1>10, <2>2
  <2>5. f[K][n] = Ahead(off, n) \o Through(Feeder(I, n), g[Feeder(I, n)], f[K][Feeder(I, n).ins[1]])
    BY <2>3, <2>4 DEF Back
  <2> QED
    BY <1>5, <1>10, <2>5
<1> QED
  BY <1>9, <1>10

-----------------------------------------------------------------------------
(* The ways of the network, when the text is done.                         *)

LEMMA Roles ==
  ASSUME AllInv, NEW x \in insts
  PROVE  \/ \E c \in Chan : opUses[c] > 0 /\ x = CopyInst(c)
         \/ \E c \in BoolChan : x = ToIntInst(c) \/ x = ToBoolInst(c)
         \/ /\ x.at \in 1..Len(prog)
            /\ \/ UnitShape(x, prog[x.at]) \/ SourceShape(x, prog[x.at])
               \/ SinkShape(x, prog[x.at]) \/ \E o, k : BuffAt(x, o, k)
<1>1. CopyShape(x) \/ ConvShape(x) \/ ElementShape(x)
  BY DEF AllInv, TextInv, Shapes
<1>2. CopyShape(x) => \E c \in Chan : opUses[c] > 0 /\ x = CopyInst(c)
  BY DEF CopyShape
<1>3. ConvShape(x) => \E c \in BoolChan : x = ToIntInst(c) \/ x = ToBoolInst(c)
  BY DEF ConvShape, ToIntInst, ToBoolInst
<1>4. ASSUME ElementShape(x) PROVE x.at \in 1..Len(prog)
  <2>1. prog \in Programs /\ next \in 1..(Len(prog) + 1)
    BY DEF AllInv, TypeOK
  <2>2. x.at \in 1..(next - 1) /\ Len(prog) \in Nat
    BY <1>4, <2>1, ProgType DEF ElementShape
  <2> QED
    BY <2>1, <2>2
<1>5. ASSUME ElementShape(x), BuffShape(x, prog[x.at])
      PROVE  \E o, k : BuffAt(x, o, k)
  <2>1. PICK o \in BuffOuts(prog[x.at]) : x \in BuffChain(x.at, prog[x.at].outs[o])
    BY <1>5 DEF BuffShape
  <2>2. prog[x.at].outs[o] \in Output
    BY <1>4, <1>5, <2>1, ElementFacts DEF AllInv, TypeOK, BuffOuts, Calcs
  <2>3. PICK k \in 0..Inner(prog[x.at].outs[o]) : x = StageInst(x.at, prog[x.at].outs[o], k)
    BY <2>1, <2>2, ChainStage
  <2> QED
    BY <1>4, <1>5, <2>1, <2>3 DEF BuffAt, BuffShape
<1> QED
  BY <1>1, <1>2, <1>3, <1>4, <1>5 DEF ElementShape

(* A process that computes nothing: a copy, a converter, or a buffer. *)
LEMMA ViaRoles ==
  ASSUME AllInv, NEW x \in insts, x.kind \in Transparent
  PROVE  \/ \E c \in Chan : opUses[c] > 0 /\ x = CopyInst(c)
         \/ \E c \in BoolChan : x = ToIntInst(c) \/ x = ToBoolInst(c)
         \/ \E o, k : BuffAt(x, o, k)
<1>1. ASSUME x.at \in 1..Len(prog)
      PROVE  ~UnitShape(x, prog[x.at]) /\ ~SourceShape(x, prog[x.at]) /\ ~SinkShape(x, prog[x.at])
  <2>1. prog[x.at].t \in Kinds
    BY <1>1, ElementFacts DEF AllInv, TypeOK
  <2>2. ~UnitShape(x, prog[x.at])
    BY <2>1 DEF UnitShape, UnitKind, Transparent, FC, Kinds
  <2>3. ~SourceShape(x, prog[x.at])
    BY InstFields DEF SourceShape, Transparent
  <2>4. ~SinkShape(x, prog[x.at])
    BY InstFields DEF SinkShape, Transparent
  <2> QED
    BY <2>2, <2>3, <2>4
<1> QED
  BY <1>1, Roles

(* It has one input, on the same channel of the program as its outputs. *)
LEMMA ViaPorts ==
  ASSUME AllInv, NEW x \in insts, x.kind \in Transparent
  PROVE  /\ DOMAIN x.ins = {1} /\ x.ins[1] \in Names /\ x.ins[1].chan \in Chan
         /\ DOMAIN x.outs # {}
         /\ \A q \in DOMAIN x.outs : x.outs[q].chan = x.ins[1].chan /\ x.outs[q] # x.ins[1]
<1>1. ASSUME NEW c \in Chan, opUses[c] > 0, x = CopyInst(c)
      PROVE  /\ DOMAIN x.ins = {1} /\ x.ins[1] \in Names /\ x.ins[1].chan \in Chan
             /\ DOMAIN x.outs # {}
             /\ \A q \in DOMAIN x.outs : x.outs[q].chan = x.ins[1].chan /\ x.outs[q] # x.ins[1]
  <2>1. x.ins = One(ReadBase(c)) /\ x.outs = [k \in 1..NumOut(c) |-> CopyOut(c, k - 1)]
    BY <1>1, InstFields DEF CopyInst
  <2>2. DOMAIN x.ins = {1} /\ x.ins[1] = ReadBase(c)
    BY <2>1, OnePort
  <2>3. ReadBase(c) \in Names /\ ReadBase(c).chan = c /\ ReadBase(c).kind # "copyout"
    BY DEF ReadBase, ToInt, Raw, Name, Names
  <2>4. \A k : CopyOut(c, k).kind = "copyout" /\ CopyOut(c, k).chan = c
    BY NameFields DEF CopyOut
  <2>5. 1 \in 1..NumOut(c)
    <3>1. opUses[c] \in Nat
      BY <1>1 DEF AllInv, TypeOK, NoEntry
    <3> QED
      BY <1>1, <3>1 DEF NumOut
  <2> QED
    BY <2>1, <2>2, <2>3, <2>4, <2>5
<1>2. ASSUME NEW c \in BoolChan, x = ToIntInst(c) \/ x = ToBoolInst(c)
      PROVE  /\ DOMAIN x.ins = {1} /\ x.ins[1] \in Names /\ x.ins[1].chan \in Chan
             /\ DOMAIN x.outs # {}
             /\ \A q \in DOMAIN x.outs : x.outs[q].chan = x.ins[1].chan /\ x.outs[q] # x.ins[1]
  <2>1. c \in Chan
    BY BoolAssumption
  <2>2. DOMAIN x.ins = {1} /\ DOMAIN x.outs = {1}
    BY <1>2, InstFields, OnePort DEF ToIntInst, ToBoolInst
  <2>3. \/ x.ins[1] = Raw(c) /\ x.outs[1] = ToInt(c)
        \/ x.ins[1] = FromInt(c) /\ x.outs[1] = Raw(c)
    BY <1>2, Between
  <2>4. Raw(c) \in Names /\ FromInt(c) \in Names
    BY <2>1 DEF Raw, FromInt, Name, Names
  <2> QED
    BY <2>1, <2>2, <2>3, <2>4, NameKinds
<1>3. ASSUME NEW o, NEW k, BuffAt(x, o, k)
      PROVE  /\ DOMAIN x.ins = {1} /\ x.ins[1] \in Names /\ x.ins[1].chan \in Chan
             /\ DOMAIN x.outs # {}
             /\ \A q \in DOMAIN x.outs : x.outs[q].chan = x.ins[1].chan /\ x.outs[q] # x.ins[1]
  <2>1. PICK i, out : i = x.at /\ out = prog[i].outs[o]
    OBVIOUS
  <2>2. i \in 1..Len(prog) /\ prog[i].t \in FC /\ o \in BuffOuts(prog[i]) /\ o \in DOMAIN prog[i].outs
    BY <1>3, <2>1 DEF BuffAt, BuffOuts, Calcs
  <2>3. out \in Output /\ out.chan \in Chan
    <3>1. out.chan \in Chan \cup {Null} /\ out.chan # Null
      BY <2>1, <2>2, NullOutputs DEF AllInv, TypeOK, FC
    <3> QED
      BY <2>1, <2>2, <3>1, ElementFacts DEF AllInv, TypeOK
  <2>4. k \in Nat /\ x = StageInst(i, out, k)
    BY <1>3, <2>1, <2>3, InnerType DEF BuffAt
  <2>5. /\ DOMAIN x.ins = {1} /\ DOMAIN x.outs = {1} /\ x.ins[1] = Stage(out.chan, k)
        /\ x.outs[1] = IF k < Inner(out) THEN Stage(out.chan, k + 1) ELSE OutName(out.chan)
    BY <2>4, StageFields
  <2>6. Stage(out.chan, k) \in Names
    BY <2>3, <2>4 DEF Stage, BufIn, BufName, Name, Names
  <2>7. Stage(out.chan, k + 1) # Stage(out.chan, k)
    <3>1. k + 1 \in Nat /\ k + 1 # k
      BY <2>4
    <3> QED
      BY <2>4, <3>1, StageInjective
  <2>8. /\ Stage(out.chan, k).kind \in {"bufIn", "buf"} /\ Stage(out.chan, k).chan = out.chan
        /\ Stage(out.chan, k + 1).chan = out.chan
        /\ OutName(out.chan).chan = out.chan /\ OutName(out.chan).kind \in {"raw", "fromint"}
    BY NameKinds
  <2>9. x.outs[1].chan = out.chan /\ x.outs[1] # x.ins[1]
    BY <2>5, <2>7, <2>8
  <2> QED
    BY <2>3, <2>5, <2>6, <2>8, <2>9
<1> QED
  BY <1>1, <1>2, <1>3, ViaRoles

(* The code connects no channel of the program directly: none has a sink and     *)
(* other uses, no sink is of a bool channel, and no control output of a mixer or *)
(* an arbiter either. It depends on the program alone. With a sink beside other  *)
(* uses the network does not do what the block means: two ports then share the   *)
(* tokens of one channel. A bool channel has one end on each side all the same,  *)
(* but not the converters the lemmas on shapes rest on.                          *)
NothingBypassed == \A c \in Chan : ~Bypassed(c)

(* Where merges, splits, mixers and arbiters are piped, the control output of *)
(* every arbiter has as many bits as its data: pipe_arbiter loses the others. *)
NothingCut ==
  Pipelined => \A i \in DOMAIN prog : prog[i].t = "arbiter" =>
    \A v \in Value : v < Chp!Pow2[Chp!ControlWidth(Len(prog[i].reads))]

(* The translator has written the whole text. *)
Done == AllInv /\ ScopeInv /\ ClosedInv /\ FiniteText /\ pc = "done" /\ NothingBypassed

LEMMA InFeeds ==
  ASSUME NEW n, NEW y
  PROVE  y \in FeedsOf(insts, n) <=>
           y \in insts /\ y.kind \in Transparent /\ \E q \in DOMAIN y.outs : y.outs[q] = n
BY DEF FeedsOf

LEMMA UpFeeder ==
  ASSUME NEW n
  PROVE  Upstream(n) = IF FeedsOf(insts, n) = {} THEN n ELSE Feeder(insts, n).ins[1]
<1>1. PICK feeds : feeds = {w[1] : w \in {v \in Writers(n) : v[1].kind \in Transparent}}
  OBVIOUS
<1>2. \A x : x \in feeds <=> x \in insts /\ x.kind \in Transparent
                               /\ \E p \in DOMAIN x.outs : x.outs[p] = n
  BY <1>1, Feeds
<1>3. feeds = FeedsOf(insts, n)
  BY <1>2, InFeeds
<1>4. Upstream(n) = IF feeds = {} THEN n ELSE (CHOOSE x \in feeds : TRUE).ins[1]
  BY <1>1 DEF Upstream
<1> QED
  BY <1>3, <1>4 DEF Feeder

LEMMA OneFeeder ==
  ASSUME AllInv, NEW n, Direct(n), NEW y \in FeedsOf(insts, n)
  PROVE  FeedsOf(insts, n) = {y} /\ Feeder(insts, n) = y
<1>1. ASSUME NEW z \in FeedsOf(insts, n) PROVE z = y
  <2>1. PICK q \in DOMAIN y.outs : y.outs[q] = n
    BY InFeeds
  <2>2. PICK o \in DOMAIN z.outs : z.outs[o] = n
    BY InFeeds
  <2>3. y \in insts /\ z \in insts
    BY InFeeds
  <2> QED
    BY <2>1, <2>2, <2>3, OneWriter DEF Direct
<1>2. FeedsOf(insts, n) = {y}
  BY <1>1
<1> QED
  BY <1>2 DEF Feeder

(* Nothing transparent is connected to itself. *)
LEMMA Unfed ==
  ASSUME AllInv, NEW n, Upstream(n) = n
  PROVE  FeedsOf(insts, n) = {}
<1>1. SUFFICES ASSUME FeedsOf(insts, n) # {} PROVE FALSE
  OBVIOUS
<1>2. PICK y : y = Feeder(insts, n)
  OBVIOUS
<1>3. y \in FeedsOf(insts, n)
  BY <1>1, <1>2 DEF Feeder
<1>4. y.ins[1] = n
  BY <1>1, <1>2, UpFeeder
<1>5. PICK q \in DOMAIN y.outs : y.outs[q] = n
  BY <1>3, InFeeds
<1> QED
  BY <1>3, <1>4, <1>5, InFeeds, ViaPorts

(* What is sent on channel c of the program starts here. *)
Source(c) == IF c \in BoolChan /\ ToBoolInst(c) \notin insts THEN Raw(c) ELSE Sender(c)

(* Back from the program's own name of c, a trail of buffers and a converter *)
(* leads to where c starts.                                                  *)
LEMMA SourceTrail ==
  ASSUME Done, NEW c \in Chan
  PROVE  \E T : /\ Trail(Raw(c), Source(c), T)
                /\ \A z \in T : z.kind \in {"onebuf", "init", "int_to_bool"}
<1>1. ~Bypassed(c) /\ AllInv /\ ClosedInv /\ pc = "done"
  BY DEF Done, NothingBypassed
<1>2. CASE c \in BoolChan /\ ToBoolInst(c) \notin insts
  <2>1. ASSUME NEW z \in insts, NEW q \in DOMAIN z.outs, z.outs[q] = Raw(c), z.kind \in Transparent
        PROVE  FALSE
    <3>1. /\ Raw(c).kind = "raw" /\ Raw(c).chan = c
          /\ \A d : ToInt(d).kind = "toint" /\ (Raw(c) = Raw(d) => c = d)
      BY NameKinds
    <3>2. CASE \E d \in BoolChan : \/ z = ToIntInst(d) /\ Raw(c) = ToInt(d)
                                   \/ z = ToBoolInst(d) /\ Raw(c) = Raw(d)
      BY <1>2, <3>1, <3>2
    <3>3. CASE \E i \in 1..Len(prog) : prog[i].t \in FC /\ \E o \in BuffOuts(prog[i]) :
              \E k \in Nat :
                 Raw(c) = IF k < Inner(prog[i].outs[o]) THEN Stage(prog[i].outs[o].chan, k + 1)
                                                        ELSE OutName(prog[i].outs[o].chan)
      <4>1. PICK d, k : Raw(c) = Stage(d, k) \/ Raw(c) = OutName(d)
        BY <3>3
      <4>2. Raw(c) # Stage(d, k)
        <5>1. Stage(d, k).kind \in {"bufIn", "buf"}
          BY NameKinds
        <5> QED
          BY <3>1, <5>1
      <4>3. Raw(c) = OutName(d)
        BY <4>1, <4>2
      <4>4. d = c
        BY <3>1, <4>3, NameKinds
      <4>5. OutName(c) = FromInt(c) /\ FromInt(c).kind = "fromint"
        BY <1>2, NameKinds DEF OutName
      <4> QED
        BY <3>1, <4>3, <4>4, <4>5
    <3> QED
      BY <1>1, <2>1, <3>1, <3>2, <3>3, TransparentRoles
  <2>2. Upstream(Raw(c)) = Raw(c)
    BY <2>1, UpStays
  <2> QED
    BY <1>2, <2>2, TrailEnd DEF Source
<1>3. CASE ~(c \in BoolChan /\ ToBoolInst(c) \notin insts)
  BY <1>1, <1>3, RawTrail DEF Source
<1> QED
  BY <1>2, <1>3

(* The names on the way to Source(c), with their distance from it. *)
WaysOf(c) == {w \in Names \X (0..Cardinality(insts)) : w[1].chan = c /\ Walk(w[1], Source(c), w[2])}
OnWay(c, n) == \E d : <<n, d>> \in WaysOf(c)

LEMMA WaysMeans ==
  ASSUME NEW c, NEW n, NEW d
  PROVE  <<n, d>> \in WaysOf(c) <=>
           n \in Names /\ d \in 0..Cardinality(insts) /\ n.chan = c /\ Walk(n, Source(c), d)
BY DEF WaysOf

LEMMA TrailWay ==
  ASSUME FiniteText, NEW c, NEW n \in Names, n.chan = c, NEW T, Trail(n, Source(c), T)
  PROVE  OnWay(c, n)
<1>1. Cardinality(T) \in 0..Cardinality(insts)
  BY FS_Subset, FS_CardinalityType DEF Trail, FiniteText
<1> QED
  BY <1>1, WaysMeans DEF OnWay, Trail

(* A name on the way is the start, or has one feeder, and that is nearer to it. *)
LEMMA StepBack ==
  ASSUME Done, NEW c \in Chan, NEW n, NEW d, <<n, d>> \in WaysOf(c)
  PROVE  \/ FeedsOf(insts, n) = {} /\ n = Source(c)
         \/ \E y \in insts :
              /\ y.kind \in Transparent /\ FeedsOf(insts, n) = {y} /\ Feeder(insts, n) = y
              /\ d > 0 /\ <<y.ins[1], d - 1>> \in WaysOf(c)
              /\ y.ins[1].chan = c /\ DOMAIN y.ins = {1} /\ y.ins[1] # n
<1>1. n \in Names /\ d \in 0..Cardinality(insts) /\ n.chan = c /\ Walk(n, Source(c), d)
  BY WaysMeans
<1>2. AllInv /\ Direct(n) /\ IsFiniteSet(insts)
  BY <1>1 DEF Done, NothingBypassed, Direct, FiniteText
<1>3. d \in Nat /\ Cardinality(insts) \in Nat
  BY <1>1, <1>2, FS_CardinalityType
<1>4. PICK f : /\ f[0] = n /\ f[d] = Source(c)
               /\ \A k \in 0..(d - 1) : f[k + 1] = Upstream(f[k])
  BY <1>1 DEF Walk
<1>5. FeedsOf(insts, Source(c)) = {}
  BY <1>2, SourceTrail, Unfed DEF Trail
<1>6. CASE FeedsOf(insts, n) = {}
  <2> DEFINE W == {k \in 0..d : f[k] # n}
  <2>1. W = {}
    <3>1. SUFFICES ASSUME W # {} PROVE FALSE
      OBVIOUS
    <3>2. PICK k \in W : \A j \in W : k <= j
      <4>1. W \subseteq Nat
        BY <1>3
      <4> QED
        BY <3>1, <4>1, LeastNatural
    <3>3. k \in 0..d /\ f[k] # n
      OBVIOUS
    <3>4. k # 0
      BY <1>4, <3>3
    <3>5. k - 1 \in 0..(d - 1) /\ k - 1 \in 0..d /\ ~(k <= k - 1) /\ (k - 1) + 1 = k
      BY <1>3, <3>3, <3>4
    <3>6. f[k - 1] = n
      BY <3>2, <3>5
    <3>7. f[k] = Upstream(f[k - 1])
      BY <1>4, <3>5
    <3>8. f[k] = Upstream(n)
      BY <3>6, <3>7
    <3> QED
      BY <1>6, <3>3, <3>8, UpFeeder
  <2>2. d \in 0..d
    BY <1>3
  <2> QED
    BY <1>4, <1>6, <2>1, <2>2
<1>7. CASE FeedsOf(insts, n) # {}
  <2>1. PICK y : y = Feeder(insts, n)
    OBVIOUS
  <2>2. y \in FeedsOf(insts, n)
    BY <1>7, <2>1 DEF Feeder
  <2>3. y \in insts /\ y.kind \in Transparent
    BY <2>2, InFeeds
  <2>4. PICK q \in DOMAIN y.outs : y.outs[q] = n
    BY <2>2, InFeeds
  <2>5. /\ DOMAIN y.ins = {1} /\ y.ins[1] \in Names
        /\ y.outs[q].chan = y.ins[1].chan /\ y.outs[q] # y.ins[1]
    BY <1>2, <2>3, ViaPorts
  <2>6. d # 0
    BY <1>4, <1>5, <1>7
  <2>7. Walk(y.ins[1], Source(c), d - 1)
    <3>1. PICK h : h = [k \in 0..(d - 1) |-> f[k + 1]]
      OBVIOUS
    <3>2. 0 \in 0..(d - 1) /\ d - 1 \in 0..(d - 1) /\ (d - 1) + 1 = d /\ 0 + 1 = 1
      BY <1>3, <2>6
    <3>3. h[0] = f[1] /\ h[d - 1] = f[d]
      BY <3>1, <3>2
    <3>4. f[1] = y.ins[1]
      <4>1. f[1] = Upstream(f[0])
        BY <1>4, <3>2
      <4> QED
        BY <1>4, <1>7, <2>1, <4>1, UpFeeder
    <3>5. ASSUME NEW k \in 0..((d - 1) - 1) PROVE h[k + 1] = Upstream(h[k])
      <4>1. k \in 0..(d - 1) /\ k + 1 \in 0..(d - 1)
        BY <1>3, <3>5
      <4>2. h[k] = f[k + 1] /\ h[k + 1] = f[(k + 1) + 1]
        BY <3>1, <4>1
      <4> QED
        BY <1>4, <4>1, <4>2
    <3> QED
      BY <1>4, <3>3, <3>4, <3>5 DEF Walk
  <2>8. d > 0 /\ d - 1 \in 0..Cardinality(insts)
    BY <1>1, <1>3, <2>6
  <2>9. <<y.ins[1], d - 1>> \in WaysOf(c)
    BY <1>1, <2>4, <2>5, <2>7, <2>8, WaysMeans
  <2>10. FeedsOf(insts, n) = {y}
    BY <1>2, <2>2, OneFeeder
  <2>11. y.ins[1].chan = c /\ y.ins[1] # n
    BY <1>1, <2>4, <2>5
  <2> QED
    BY <2>1, <2>3, <2>4, <2>5, <2>8, <2>9, <2>10, <2>11
<1> QED
  BY <1>6, <1>7

(* From the source up every way. *)
LEMMA AlongWays ==
  ASSUME Done, NEW c \in Chan, NEW S,
         Source(c) \in S,
         \A n, y : OnWay(c, n) /\ y \in insts /\ y.kind \in Transparent /\ FeedsOf(insts, n) = {y}
                     /\ OnWay(c, y.ins[1]) /\ y.ins[1] \in S => n \in S,
         NEW n, OnWay(c, n)
  PROVE  n \in S
<1> DEFINE W == {d \in Nat : \E m : <<m, d>> \in WaysOf(c) /\ m \notin S}
<1>1. W = {}
  <2>1. SUFFICES ASSUME W # {} PROVE FALSE
    OBVIOUS
  <2>2. PICK d \in W : \A j \in W : d <= j
    BY <2>1, LeastNatural
  <2>3. PICK m : <<m, d>> \in WaysOf(c) /\ m \notin S
    OBVIOUS
  <2>4. PICK y \in insts :
              /\ y.kind \in Transparent /\ FeedsOf(insts, m) = {y}
              /\ d > 0 /\ <<y.ins[1], d - 1>> \in WaysOf(c)
    BY <2>3, StepBack
  <2>5. d \in Nat /\ d - 1 \in Nat /\ ~(d <= d - 1)
    BY <2>4
  <2>6. y.ins[1] \in S
    BY <2>2, <2>4, <2>5
  <2>7. OnWay(c, m) /\ OnWay(c, y.ins[1])
    BY <2>3, <2>4 DEF OnWay
  <2> QED
    BY <2>3, <2>4, <2>6, <2>7
<1>2. PICK d : <<n, d>> \in WaysOf(c)
  BY DEF OnWay
<1>3. d \in Nat
  BY <1>2, WaysMeans, FS_CardinalityType DEF Done, FiniteText
<1> QED
  BY <1>1, <1>2, <1>3

(* One step back on a way. *)
LEMMA WayBack ==
  ASSUME Done, NEW c \in Chan, NEW n, OnWay(c, n)
  PROVE  /\ n \in Names /\ n.chan = c /\ Direct(n)
         /\ \/ FeedsOf(insts, n) = {} /\ n = Source(c)
            \/ \E y \in insts :
                 /\ y.kind \in Transparent /\ FeedsOf(insts, n) = {y}
                 /\ OnWay(c, y.ins[1]) /\ DOMAIN y.ins = {1} /\ y.ins[1] # n
<1>1. PICK d : <<n, d>> \in WaysOf(c)
  BY DEF OnWay
<1>2. n \in Names /\ n.chan = c
  BY <1>1, WaysMeans
<1>3. Direct(n)
  BY <1>2 DEF Done, NothingBypassed, Direct
<1>4. CASE FeedsOf(insts, n) = {} /\ n = Source(c)
  BY <1>2, <1>3, <1>4
<1>5. CASE ~(FeedsOf(insts, n) = {} /\ n = Source(c))
  <2>1. PICK y \in insts :
              /\ y.kind \in Transparent /\ FeedsOf(insts, n) = {y} /\ Feeder(insts, n) = y
              /\ d > 0 /\ <<y.ins[1], d - 1>> \in WaysOf(c)
              /\ y.ins[1].chan = c /\ DOMAIN y.ins = {1} /\ y.ins[1] # n
    BY <1>1, <1>5, StepBack
  <2>2. OnWay(c, y.ins[1])
    BY <2>1 DEF OnWay
  <2> QED
    BY <1>2, <1>3, <2>1, <2>2
<1> QED
  BY <1>4, <1>5

LEMMA SourceOnWay ==
  ASSUME Done, NEW c \in Chan
  PROVE  /\ OnWay(c, Raw(c)) /\ OnWay(c, Source(c))
         /\ Source(c) \in Names /\ Source(c).chan = c /\ FeedsOf(insts, Source(c)) = {}
<1>1. PICK T : Trail(Raw(c), Source(c), T)
  BY SourceTrail
<1>2. Raw(c) \in Names /\ Raw(c).chan = c
  BY DEF Raw, Name, Names
<1>3. FeedsOf(insts, Source(c)) = {}
  BY <1>1, Unfed DEF Trail, Done
<1>4. Source(c) \in Names /\ Source(c).chan = c
  BY DEF Source, Sender, Raw, BufIn, OutName, FromInt, Name, Names
<1>5. Trail(Source(c), Source(c), {})
  BY <1>1, TrailEnd DEF Trail
<1> QED
  BY <1>1, <1>2, <1>3, <1>4, <1>5, TrailWay DEF Done

(* The tokens of a name on a way. *)
LEMMA WayTokens ==
  ASSUME Done, NEW c \in Chan, NEW off, NEW g, NEW n, OnWay(c, n)
  PROVE  /\ FeedsOf(insts, n) = {} => Tokens(insts, off, g, n) = Ahead(off, n)
         /\ \A y : FeedsOf(insts, n) = {y} =>
              Tokens(insts, off, g, n) =
                Ahead(off, n) \o Through(y, g[y], Tokens(insts, off, g, y.ins[1]))
<1>1. PICK W : W = WaysOf(c)
  OBVIOUS
<1>2. PICK d : <<n, d>> \in W
  BY <1>1 DEF OnWay
<1>3. IsFiniteSet(insts) /\ Cardinality(insts) \in Nat
  BY FS_CardinalityType DEF Done, FiniteText
<1>4. d <= Cardinality(insts)
  BY <1>1, <1>2, <1>3, WaysMeans
<1>5. Ways(insts, W)
  <2> SUFFICES ASSUME NEW m, NEW e, <<m, e>> \in W
               PROVE  /\ m \in Names /\ e \in Nat
                      /\ FeedsOf(insts, m) # {} => e > 0 /\ <<Feeder(insts, m).ins[1], e - 1>> \in W
    BY DEF Ways
  <2>1. m \in Names /\ e \in Nat
    BY <1>1, <1>3, WaysMeans
  <2> QED
    BY <1>1, <2>1, StepBack
<1>6. Tokens(insts, off, g, n) =
           IF FeedsOf(insts, n) = {} THEN Ahead(off, n)
           ELSE Ahead(off, n) \o Through(Feeder(insts, n), g[Feeder(insts, n)],
                                         Tokens(insts, off, g, Feeder(insts, n).ins[1]))
  BY <1>2, <1>3, <1>4, <1>5, TokensBack
<1>7. ASSUME NEW y, FeedsOf(insts, n) = {y} PROVE Feeder(insts, n) = y
  BY <1>7 DEF Feeder
<1>8. \A y : FeedsOf(insts, n) = {y} => FeedsOf(insts, n) # {}
  OBVIOUS
<1> QED
  BY <1>6, <1>7, <1>8

-----------------------------------------------------------------------------
(* What changes on a way when offers and values held change.               *)

(* All that is offered is a value. *)
Offers(off) == \A n \in DOMAIN off : off[n] \in Value

(* A process that computes nothing has nothing or one value, and if it holds *)
(* it, the value is still offered to it.                                    *)
Fits(off, g) ==
  \A x \in insts : x.kind \in Transparent /\ g[x] # Chp!Nothing =>
    g[x][1] \in Value /\ (Chp!Holds(x) => x.ins[1] \in DOMAIN off)

LEMMA AheadType ==
  ASSUME NEW off, Offers(off), NEW n, NEW s \in Seq(Value)
  PROVE  /\ Ahead(off, n) \in Seq(Value) /\ Ahead(off, n) \o s \in Seq(Value)
         /\ n \in DOMAIN off => /\ Ahead(off, n) \o s # <<>> /\ Head(Ahead(off, n) \o s) = off[n]
                                /\ Tail(Ahead(off, n) \o s) = s
         /\ n \notin DOMAIN off => Ahead(off, n) \o s = s
<1>1. CASE n \in DOMAIN off
  <2>1. off[n] \in Value /\ Ahead(off, n) = <<off[n]>>
    BY <1>1 DEF Offers, Ahead
  <2>2. <<off[n]>> \in Seq(Value)
    BY <2>1
  <2> QED
    BY <1>1, <2>1, <2>2, InFront
<1>2. CASE n \notin DOMAIN off
  <2>1. Ahead(off, n) = <<>>
    BY <1>2 DEF Ahead
  <2> QED
    BY <1>2, <2>1, EmptySeq, ConcatEmptySeq
<1> QED
  BY <1>1, <1>2

(* What y has or holds goes with the tokens s before it. *)
Passable(y, gy, s) == gy # Chp!Nothing => gy[1] \in Value /\ (Chp!Holds(y) => s # <<>>)

LEMMA ThroughType ==
  ASSUME NEW y, NEW gy, NEW s \in Seq(Value), Passable(y, gy, s)
  PROVE  Through(y, gy, s) \in Seq(Value)
<1> USE DEF Passable
<1>1. CASE gy = Chp!Nothing
  BY <1>1, ConcatEmptySeq DEF Through
<1>2. CASE gy # Chp!Nothing /\ Chp!Holds(y)
  BY <1>2, HeadTailProperties DEF Through
<1>3. CASE gy # Chp!Nothing /\ ~Chp!Holds(y)
  <2>1. <<gy[1]>> \in Seq(Value)
    BY <1>3
  <2> QED
    BY <1>3, <2>1, ConcatProperties DEF Through
<1> QED
  BY <1>1, <1>2, <1>3

LEMMA ThroughMore ==
  ASSUME NEW y, NEW gy, NEW s \in Seq(Value), NEW t \in Seq(Value), Passable(y, gy, s)
  PROVE  Through(y, gy, s \o t) = Through(y, gy, s) \o t
<1> USE DEF Passable
<1>1. CASE gy = Chp!Nothing
  <2>1. \A u \in Seq(Value) : Through(y, gy, u) = u
    BY <1>1, ConcatEmptySeq DEF Through
  <2>2. s \o t \in Seq(Value)
    BY ConcatProperties
  <2> QED
    BY <2>1, <2>2
<1>2. CASE gy # Chp!Nothing /\ Chp!Holds(y)
  <2>1. \A u : Through(y, gy, u) = Tail(u)
    BY <1>2 DEF Through
  <2>2. s # <<>> /\ Tail(s) \in Seq(Value)
    BY <1>2, HeadTailProperties
  <2>3. Tail(s \o t) = Tail(s) \o t
    BY <2>2, Behind
  <2>4. Through(y, gy, s) = Tail(s) /\ Through(y, gy, s \o t) = Tail(s \o t)
    BY <2>1
  <2> QED
    BY <2>2, <2>3, <2>4
<1>3. CASE gy # Chp!Nothing /\ ~Chp!Holds(y)
  <2>1. \A u : Through(y, gy, u) = <<gy[1]>> \o u
    BY <1>3 DEF Through
  <2>2. <<gy[1]>> \in Seq(Value)
    BY <1>3
  <2>3. (<<gy[1]>> \o s) \o t = <<gy[1]>> \o (s \o t) /\ <<gy[1]>> \o s \in Seq(Value)
    BY <2>2, ConcatProperties, ConcatAssociative
  <2>4. Through(y, gy, s) = <<gy[1]>> \o s /\ Through(y, gy, s \o t) = <<gy[1]>> \o (s \o t)
    BY <2>1
  <2> QED
    BY <2>3, <2>4
<1> QED
  BY <1>1, <1>2, <1>3

(* The tokens on a way are a queue; what is offered is at its head. *)
LEMMA TokensType ==
  ASSUME Done, NEW c \in Chan, NEW off, NEW g, Offers(off), Fits(off, g), NEW n, OnWay(c, n)
  PROVE  /\ Tokens(insts, off, g, n) \in Seq(Value)
         /\ n \in DOMAIN off => Tokens(insts, off, g, n) # <<>> /\ Head(Tokens(insts, off, g, n)) = off[n]
         /\ \E s \in Seq(Value) : Tokens(insts, off, g, n) = Ahead(off, n) \o s
<1> DEFINE T(m) == Tokens(insts, off, g, m)
           Typed(m) == \E s \in Seq(Value) : T(m) = Ahead(off, m) \o s
           S == {m \in Names : Typed(m)}
<1>1. ASSUME NEW m, Typed(m)
      PROVE  T(m) \in Seq(Value) /\ (m \in DOMAIN off => T(m) # <<>> /\ Head(T(m)) = off[m])
  <2>1. PICK s \in Seq(Value) : T(m) = Ahead(off, m) \o s
    BY <1>1
  <2> HIDE DEF T
  <2> QED
    BY <2>1, AheadType
<1> HIDE DEF T
<1>2. Source(c) \in S
  <2>1. OnWay(c, Source(c)) /\ Source(c) \in Names /\ FeedsOf(insts, Source(c)) = {}
    BY SourceOnWay
  <2>2. T(Source(c)) = Ahead(off, Source(c))
    BY <2>1, WayTokens DEF T
  <2>3. Ahead(off, Source(c)) = Ahead(off, Source(c)) \o <<>> /\ <<>> \in Seq(Value)
    BY AheadType, EmptySeq, ConcatEmptySeq
  <2> QED
    BY <2>1, <2>2, <2>3
<1>3. ASSUME NEW m, NEW y, OnWay(c, m), y \in insts, y.kind \in Transparent, FeedsOf(insts, m) = {y},
             OnWay(c, y.ins[1]), y.ins[1] \in S
      PROVE  m \in S
  <2>1. T(m) = Ahead(off, m) \o Through(y, g[y], T(y.ins[1]))
    BY <1>3, WayTokens DEF T
  <2>2. Typed(y.ins[1])
    BY <1>3
  <2> HIDE DEF Typed
  <2>3. /\ T(y.ins[1]) \in Seq(Value)
        /\ y.ins[1] \in DOMAIN off => T(y.ins[1]) # <<>>
    BY <1>1, <2>2
  <2>4. g[y] # Chp!Nothing => g[y][1] \in Value /\ (Chp!Holds(y) => y.ins[1] \in DOMAIN off)
    BY <1>3 DEF Fits
  <2>5. Through(y, g[y], T(y.ins[1])) \in Seq(Value)
    BY <2>3, <2>4, ThroughType DEF Passable
  <2>6. Typed(m) /\ m \in Names
    BY <1>3, <2>1, <2>5, WayBack DEF Typed
  <2> QED
    BY <2>6
<1> HIDE DEF S
<1>4. n \in S
  BY <1>2, <1>3, AlongWays
<1>5. Typed(n)
  BY <1>4 DEF S
<1> QED
  BY <1>1, <1>5 DEF T, Typed

(* Values that no process of the kind passes on are taken. *)
TakenOff(off, g, R, off2, g2) ==
  /\ Offers(off) /\ Fits(off, g)
  /\ R \subseteq DOMAIN off /\ DOMAIN off2 = DOMAIN off \ R
  /\ \A n \in DOMAIN off2 : off2[n] = off[n]
  /\ \A x \in insts : x.kind \in Transparent => g2[x] = g[x] /\ x.ins[1] \notin R

(* The token taken is the first one on the way, and no other way loses one. *)
LEMMA TokensTaken ==
  ASSUME Done, NEW c \in Chan, NEW off, NEW g, NEW R, NEW off2, NEW g2, TakenOff(off, g, R, off2, g2),
         NEW n, OnWay(c, n)
  PROVE  Tokens(insts, off2, g2, n) = IF n \in R THEN Tail(Tokens(insts, off, g, n))
                                                  ELSE Tokens(insts, off, g, n)
<1> /\ Offers(off) /\ Fits(off, g)
    /\ R \subseteq DOMAIN off /\ DOMAIN off2 = DOMAIN off \ R
    /\ \A m \in DOMAIN off2 : off2[m] = off[m]
    /\ \A x \in insts : x.kind \in Transparent => g2[x] = g[x] /\ x.ins[1] \notin R
  BY DEF TakenOff
<1> DEFINE T(m) == Tokens(insts, off, g, m)
           U(m) == Tokens(insts, off2, g2, m)
           Taken2(m) == U(m) = IF m \in R THEN Tail(T(m)) ELSE T(m)
           S == {m \in Names : Taken2(m)}
<1>1. Offers(off2)
  BY DEF Offers
<1>2. ASSUME NEW m, NEW s \in Seq(Value), T(m) = Ahead(off, m) \o s, U(m) = Ahead(off2, m) \o s
      PROVE  Taken2(m)
  <2> HIDE DEF T, U
  <2>1. CASE m \in R
    <3>1. m \in DOMAIN off /\ m \notin DOMAIN off2
      BY <2>1
    <3>2. Tail(Ahead(off, m) \o s) = s
      BY <3>1, AheadType
    <3>3. Ahead(off2, m) \o s = s
      BY <1>1, <3>1, AheadType
    <3> QED
      BY <1>2, <2>1, <3>2, <3>3
  <2>2. CASE m \notin R
    <3>1. Ahead(off2, m) = Ahead(off, m)
      BY <2>2 DEF Ahead
    <3> QED
      BY <1>2, <2>2, <3>1
  <2> QED
    BY <2>1, <2>2
<1> HIDE DEF Taken2
<1>3. Source(c) \in S
  <2>1. OnWay(c, Source(c)) /\ Source(c) \in Names /\ FeedsOf(insts, Source(c)) = {}
    BY SourceOnWay
  <2>2. T(Source(c)) = Ahead(off, Source(c)) /\ U(Source(c)) = Ahead(off2, Source(c))
    BY <2>1, WayTokens
  <2>3. /\ Ahead(off, Source(c)) = Ahead(off, Source(c)) \o <<>>
        /\ Ahead(off2, Source(c)) = Ahead(off2, Source(c)) \o <<>> /\ <<>> \in Seq(Value)
    BY <1>1, AheadType, EmptySeq, ConcatEmptySeq
  <2> HIDE DEF T, U
  <2>4. Taken2(Source(c))
    BY <1>2, <2>2, <2>3
  <2> QED
    BY <2>1, <2>4
<1>4. ASSUME NEW m, NEW y, OnWay(c, m), y \in insts, y.kind \in Transparent, FeedsOf(insts, m) = {y},
             OnWay(c, y.ins[1]), y.ins[1] \in S
      PROVE  m \in S
  <2>1. /\ T(m) = Ahead(off, m) \o Through(y, g[y], T(y.ins[1]))
        /\ U(m) = Ahead(off2, m) \o Through(y, g2[y], U(y.ins[1]))
    BY <1>4, WayTokens
  <2>2. U(y.ins[1]) = T(y.ins[1]) /\ g2[y] = g[y]
    BY <1>4 DEF Taken2
  <2>3. /\ T(y.ins[1]) \in Seq(Value)
        /\ y.ins[1] \in DOMAIN off => T(y.ins[1]) # <<>>
    BY <1>4, TokensType
  <2>4. g[y] # Chp!Nothing => g[y][1] \in Value /\ (Chp!Holds(y) => y.ins[1] \in DOMAIN off)
    BY <1>4 DEF Fits
  <2> HIDE DEF T, U
  <2>5. Through(y, g[y], T(y.ins[1])) \in Seq(Value)
    BY <2>3, <2>4, ThroughType DEF Passable
  <2>6. U(m) = Ahead(off2, m) \o Through(y, g[y], T(y.ins[1]))
    BY <2>1, <2>2
  <2>7. Taken2(m)
    BY <1>2, <2>1, <2>5, <2>6
  <2> QED
    BY <1>4, <2>7, WayBack
<1> HIDE DEF S
<1>5. n \in S
  BY <1>3, <1>4, AlongWays
<1> QED
  BY <1>5 DEF S, Taken2

(* Values are offered on channels that no process of the kind writes. *)
Sent(off, g, new, off2, g2) ==
  /\ Offers(off) /\ Fits(off, g)
  /\ \A n \in DOMAIN new : n \notin DOMAIN off /\ FeedsOf(insts, n) = {} /\ new[n] \in Value
  /\ DOMAIN off2 = DOMAIN off \cup DOMAIN new
  /\ \A n \in DOMAIN off2 : off2[n] = IF n \in DOMAIN new THEN new[n] ELSE off[n]
  /\ \A x \in insts : x.kind \in Transparent => g2[x] = g[x]

(* The token sent is the last one on every way from its source. *)
LEMMA TokensSent ==
  ASSUME Done, NEW c \in Chan, NEW off, NEW g, NEW new, NEW off2, NEW g2, Sent(off, g, new, off2, g2),
         NEW n, OnWay(c, n)
  PROVE  Tokens(insts, off2, g2, n) = Tokens(insts, off, g, n) \o Ahead(new, Source(c))
<1> /\ Offers(off) /\ Fits(off, g)
    /\ \A m \in DOMAIN new : m \notin DOMAIN off /\ FeedsOf(insts, m) = {} /\ new[m] \in Value
    /\ DOMAIN off2 = DOMAIN off \cup DOMAIN new
    /\ \A m \in DOMAIN off2 : off2[m] = IF m \in DOMAIN new THEN new[m] ELSE off[m]
    /\ \A x \in insts : x.kind \in Transparent => g2[x] = g[x]
  BY DEF Sent
<1> DEFINE T(m) == Tokens(insts, off, g, m)
           U(m) == Tokens(insts, off2, g2, m)
           More == Ahead(new, Source(c))
           S == {m \in Names : U(m) = T(m) \o More}
<1>1. More \in Seq(Value)
  <2>1. Offers(new)
    BY DEF Offers
  <2> QED
    BY <2>1, AheadType, EmptySeq
<1> HIDE DEF More
<1>2. Source(c) \in S
  <2>1. OnWay(c, Source(c)) /\ Source(c) \in Names /\ FeedsOf(insts, Source(c)) = {}
    BY SourceOnWay
  <2>2. T(Source(c)) = Ahead(off, Source(c)) /\ U(Source(c)) = Ahead(off2, Source(c))
    BY <2>1, WayTokens
  <2> HIDE DEF T, U
  <2>3. CASE Source(c) \in DOMAIN new
    <3>1. Ahead(off, Source(c)) = <<>> /\ Ahead(off2, Source(c)) = More
      BY <2>3 DEF Ahead, More
    <3> QED
      BY <1>1, <2>1, <2>2, <3>1, ConcatEmptySeq
  <2>4. CASE Source(c) \notin DOMAIN new
    <3>1. More = <<>> /\ Ahead(off2, Source(c)) = Ahead(off, Source(c))
      BY <2>4 DEF Ahead, More
    <3>2. Ahead(off, Source(c)) \in Seq(Value)
      BY AheadType, EmptySeq
    <3> QED
      BY <2>1, <2>2, <3>1, <3>2, ConcatEmptySeq
  <2> QED
    BY <2>3, <2>4
<1>3. ASSUME NEW m, NEW y, OnWay(c, m), y \in insts, y.kind \in Transparent, FeedsOf(insts, m) = {y},
             OnWay(c, y.ins[1]), y.ins[1] \in S
      PROVE  m \in S
  <2>1. /\ T(m) = Ahead(off, m) \o Through(y, g[y], T(y.ins[1]))
        /\ U(m) = Ahead(off2, m) \o Through(y, g2[y], U(y.ins[1]))
    BY <1>3, WayTokens
  <2>2. U(y.ins[1]) = T(y.ins[1]) \o More /\ g2[y] = g[y]
    BY <1>3
  <2>3. /\ T(y.ins[1]) \in Seq(Value)
        /\ y.ins[1] \in DOMAIN off => T(y.ins[1]) # <<>>
    BY <1>3, TokensType
  <2>4. g[y] # Chp!Nothing => g[y][1] \in Value /\ (Chp!Holds(y) => y.ins[1] \in DOMAIN off)
    BY <1>3 DEF Fits
  <2>5. Ahead(off2, m) = Ahead(off, m)
    <3>1. m \notin DOMAIN new
      BY <1>3
    <3> QED
      BY <3>1 DEF Ahead
  <2> HIDE DEF T, U
  <2>6. PICK w : w = Through(y, g[y], T(y.ins[1]))
    OBVIOUS
  <2>7. w \in Seq(Value) /\ Through(y, g[y], T(y.ins[1]) \o More) = w \o More
    <3>1. Passable(y, g[y], T(y.ins[1]))
      BY <2>3, <2>4 DEF Passable
    <3>2. w \in Seq(Value)
      BY <2>3, <2>6, <3>1, ThroughType
    <3>3. PICK s, t, gy : s = T(y.ins[1]) /\ t = More /\ gy = g[y]
      OBVIOUS
    <3>4. s \in Seq(Value) /\ t \in Seq(Value) /\ Passable(y, gy, s)
      BY <1>1, <2>3, <3>1, <3>3
    <3>5. Through(y, gy, s \o t) = Through(y, gy, s) \o t
      BY <3>4, ThroughMore
    <3>6. Through(y, g[y], T(y.ins[1]) \o More) = w \o More
      BY <2>6, <3>3, <3>5
    <3> QED
      BY <3>2, <3>6
  <2>8. U(m) = Ahead(off, m) \o (w \o More) /\ T(m) = Ahead(off, m) \o w
    BY <2>1, <2>2, <2>5, <2>6, <2>7
  <2>9. Ahead(off, m) \in Seq(Value)
    BY AheadType, EmptySeq
  <2>10. U(m) = T(m) \o More
    BY <1>1, <2>7, <2>8, <2>9, ConcatAssociative
  <2> QED
    BY <1>3, <2>10, WayBack
<1> HIDE DEF S
<1>4. n \in S
  BY <1>2, <1>3, AlongWays
<1> QED
  BY <1>4 DEF S, More

(* A process of the kind y passes a token on: what it does to its input and *)
(* its outputs leaves the tokens of each other name as they are.            *)
Passes(y, off, g, off2, g2) ==
  \A q \in DOMAIN y.outs, u \in Seq(Value) :
    Ahead(off2, y.outs[q]) \o Through(y, g2[y], Ahead(off2, y.ins[1]) \o u)
      = Ahead(off, y.outs[q]) \o Through(y, g[y], Ahead(off, y.ins[1]) \o u)

PassedOn(y, off, g, off2, g2) ==
  /\ Offers(off) /\ Fits(off, g) /\ Passes(y, off, g, off2, g2)
  /\ \A m : m # y.ins[1] /\ (\A q \in DOMAIN y.outs : y.outs[q] # m) => Ahead(off2, m) = Ahead(off, m)
  /\ \A x \in insts : x # y => g2[x] = g[x]

(* No way but the one that ends in front of y gains, loses or reorders tokens. *)
LEMMA TokensPassed ==
  ASSUME Done, NEW c \in Chan, NEW off, NEW g, NEW y \in insts, y.kind \in Transparent, NEW off2, NEW g2,
         PassedOn(y, off, g, off2, g2), NEW n, OnWay(c, n), n # y.ins[1]
  PROVE  Tokens(insts, off2, g2, n) = Tokens(insts, off, g, n)
<1> /\ Offers(off) /\ Fits(off, g) /\ Passes(y, off, g, off2, g2)
    /\ \A m : m # y.ins[1] /\ (\A q \in DOMAIN y.outs : y.outs[q] # m) => Ahead(off2, m) = Ahead(off, m)
    /\ \A x \in insts : x # y => g2[x] = g[x]
  BY DEF PassedOn
<1> DEFINE T(m) == Tokens(insts, off, g, m)
           U(m) == Tokens(insts, off2, g2, m)
           Same(m) == /\ m # y.ins[1] => U(m) = T(m)
                      /\ m = y.ins[1] => \E u \in Seq(Value) : T(m) = Ahead(off, m) \o u
                                                               /\ U(m) = Ahead(off2, m) \o u
           S == {m \in Names : Same(m)}
<1>1. ASSUME NEW m, NEW s \in Seq(Value), T(m) = Ahead(off, m) \o s, U(m) = Ahead(off2, m) \o s,
             \A q \in DOMAIN y.outs : y.outs[q] # m
      PROVE  Same(m)
  <2> HIDE DEF T, U
  <2> QED
    BY <1>1
<1>2. Source(c) \in S
  <2>1. OnWay(c, Source(c)) /\ Source(c) \in Names /\ FeedsOf(insts, Source(c)) = {}
    BY SourceOnWay
  <2>2. T(Source(c)) = Ahead(off, Source(c)) /\ U(Source(c)) = Ahead(off2, Source(c))
    BY <2>1, WayTokens
  <2>3. \A q \in DOMAIN y.outs : y.outs[q] # Source(c)
    BY <2>1, InFeeds
  <2> HIDE DEF T, U
  <2>4. Ahead(off, Source(c)) = Ahead(off, Source(c)) \o <<>> /\ <<>> \in Seq(Value)
    BY AheadType, EmptySeq, ConcatEmptySeq
  <2>5. CASE Source(c) # y.ins[1]
    BY <2>1, <2>2, <2>3, <2>5
  <2>6. CASE Source(c) = y.ins[1]
    <3>1. Ahead(off2, Source(c)) = Ahead(off2, Source(c)) \o <<>>
      BY ConcatEmptySeq, EmptySeq DEF Ahead
    <3>2. Same(Source(c))
      BY <1>1, <2>2, <2>3, <2>4, <3>1
    <3> QED
      BY <2>1, <3>2
  <2> QED
    BY <2>5, <2>6
<1>3. ASSUME NEW m, NEW z, OnWay(c, m), z \in insts, z.kind \in Transparent, FeedsOf(insts, m) = {z},
             OnWay(c, z.ins[1]), z.ins[1] \in S
      PROVE  m \in S
  <2>1. /\ T(m) = Ahead(off, m) \o Through(z, g[z], T(z.ins[1]))
        /\ U(m) = Ahead(off2, m) \o Through(z, g2[z], U(z.ins[1]))
    BY <1>3, WayTokens
  <2>2. m \in Names /\ Direct(m) /\ Direct(z.ins[1])
    BY <1>3, WayBack
  <2>3. \E q \in DOMAIN z.outs : z.outs[q] = m
    BY <1>3, InFeeds
  <2>4. AllInv /\ DOMAIN y.ins = {1} /\ DOMAIN z.ins = {1}
    BY <1>3, ViaPorts DEF Done
  <2>5. CASE z = y
    <3>1. m # y.ins[1]
      BY <1>3, <2>3, <2>4, <2>5, ViaPorts
    <3>2. PICK u \in Seq(Value) : T(y.ins[1]) = Ahead(off, y.ins[1]) \o u
                                  /\ U(y.ins[1]) = Ahead(off2, y.ins[1]) \o u
      BY <1>3, <2>5
    <3> HIDE DEF T, U
    <3>3. U(m) = T(m)
      BY <2>1, <2>3, <2>5, <3>2 DEF Passes
    <3> QED
      BY <2>2, <3>1, <3>3
  <2>6. CASE z # y
    <3>1. z.ins[1] # y.ins[1]
      BY <1>3, <2>2, <2>4, <2>6, OneReader DEF Direct
    <3>2. U(z.ins[1]) = T(z.ins[1]) /\ g2[z] = g[z]
      BY <1>3, <2>6, <3>1
    <3>3. /\ T(z.ins[1]) \in Seq(Value)
          /\ z.ins[1] \in DOMAIN off => T(z.ins[1]) # <<>>
      BY <1>3, TokensType
    <3>4. g[z] # Chp!Nothing => g[z][1] \in Value /\ (Chp!Holds(z) => z.ins[1] \in DOMAIN off)
      BY <1>3 DEF Fits
    <3>5. \A q \in DOMAIN y.outs : y.outs[q] # m
      BY <1>3, <2>6, InFeeds
    <3> HIDE DEF T, U
    <3>6. Through(z, g[z], T(z.ins[1])) \in Seq(Value)
      BY <3>3, <3>4, ThroughType DEF Passable
    <3>7. U(m) = Ahead(off2, m) \o Through(z, g[z], T(z.ins[1]))
      BY <2>1, <3>2
    <3>8. Same(m)
      BY <1>1, <2>1, <3>5, <3>6, <3>7
    <3> QED
      BY <2>2, <3>8
  <2> QED
    BY <2>5, <2>6
<1> HIDE DEF S
<1>4. n \in S
  BY <1>2, <1>3, AlongWays
<1> QED
  BY <1>4 DEF S

-----------------------------------------------------------------------------
(* The process of an element. *)

(* Each element that has operands is written as a process. *)
HasUnit(i) == \E u \in insts : u.at = i /\ u.kind = UnitKind(prog[i])

UnitsIn ==
  pc \in {"emit", "convert", "done"} =>
    \A i \in 1..(next - 1) : UsePorts(prog[i]) # {} => HasUnit(i)

LEMMA HandlerUnit ==
  ASSUME AllInv, Handler, UsePorts(prog[next]) # {}
  PROVE  \E I, u : insts' = insts \cup I /\ u \in I /\ u.at = next /\ u.kind = UnitKind(prog[next])
<1>1. PICK e : e = prog[next]
  OBVIOUS
<1>2. next \in 1..Len(prog) /\ prog \in Programs
  BY ProgType, HandlerTakes DEF AllInv, TypeOK
<1>3. CASE HandleFunc \/ HandleDFlowCluster
  <2>1. e.t \in FC
    BY <1>1, <1>3 DEF HandleFunc, HandleDFlowCluster, At, FC
  <2>2. e.reads # << >>
    BY <1>1, UsesFinite, <1>2, ElementFacts DEF UsePorts, FirstOccurrences
  <2>3. Calcs(e) # {}
    BY <1>1, <1>2, <2>1, <2>2, Arities
  <2>4. \E I : insts' = insts \cup I /\ FUInst(e) \in I
    <3>1. PICK I : I = {Inst("source", next, None, One(OutName(e.outs[o].chan))) :
                          o \in DOMAIN e.outs \ Calcs(e)}
                       \cup (IF Calcs(e) = {} THEN {} ELSE {FUInst(e)})
                       \cup UNION {BuffChain(next, e.outs[o]) : o \in BuffOuts(e)}
      OBVIOUS
    <3>2. insts' = insts \cup I
      BY <1>1, <1>3, <3>1 DEF HandleFunc, HandleDFlowCluster, FunctionUnit, Write
    <3> QED
      BY <2>3, <3>1, <3>2
  <2>5. FUInst(e).at = next /\ FUInst(e).kind = UnitKind(e)
    BY <2>1, InstFields DEF FUInst, UnitKind
  <2> QED
    BY <1>1, <2>4, <2>5
<1>4. CASE HandleSplit \/ HandleMerge \/ HandleMixer
  <2>1. PICK u, F, I, W : Selects(e, u, F, I, W)
    BY <1>1, <1>4, SplitSelects, MergeSelects, MixerSelects DEF AllInv
  <2>2. insts' = insts \cup I /\ u \in I
    BY <2>1 DEF Selects, Write, WithSinks
  <2>3. u.at = next /\ u.kind = UnitKind(e)
    BY <2>1 DEF Selects, SelectUnit, UnitKind, FC
  <2> QED
    BY <1>1, <2>2, <2>3
<1>5. CASE HandleSink
  <2>1. PICK x : x = Inst("sink", next, One(Raw(e.reads[1])), None)
    OBVIOUS
  <2>2. insts' = insts \cup {x} /\ e.t = "sink"
    BY <1>1, <1>5, <2>1 DEF HandleSink, Write, At
  <2>3. x.at = next /\ x.kind = UnitKind(e)
    BY <2>1, <2>2, InstFields DEF UnitKind, FC
  <2> QED
    BY <1>1, <2>2, <2>3
<1> QED
  BY <1>3, <1>4, <1>5 DEF Handler

LEMMA UnitsStay ==
  ASSUME UnitsIn, UNCHANGED <<prog, next>>, NEW I, insts' = insts \cup I,
         pc' \in {"emit", "convert", "done"} => pc \in {"emit", "convert", "done"}
  PROVE  UnitsIn'
BY DEF UnitsIn, HasUnit, UsePorts, FirstOccurrences

LEMMA UnitsStep ==
  ASSUME UnitsIn, AllInv, [Next]_vars
  PROVE  UnitsIn'
<1> USE DEF emitted
<1>1. CASE CollectOpUses \/ CollectDone \/ (\E c \in Chan : CreateCopyProc(c)) \/ ElementExit
  <2>1. pc' \notin {"emit", "convert", "done"}
    BY <1>1 DEF CollectOpUses, CollectDone, CreateCopyProc, ElementExit, Exit
  <2> QED
    BY <2>1 DEF UnitsIn
<1>2. CASE CopiesDone
  <2>1. next' = 1 /\ \A i : i \notin 1..(1 - 1)
    BY <1>2 DEF CopiesDone
  <2> QED
    BY <2>1 DEF UnitsIn
<1>3. CASE Handler
  <2>1. next \in 1..Len(prog)
    BY <1>3, ProgType, HandlerTakes DEF AllInv, TypeOK
  <2>2. pc = "emit" /\ prog' = prog /\ next' = next + 1
    BY <1>3, HandlerTakes
  <2>3. \E I : insts' = insts \cup I
    <3>1. PICK W, I, N : Writes(prog[next], W, I, N)
      BY <1>3, HandlerWrites
    <3> QED
      BY <3>1 DEF Writes, Write
  <2>4. ASSUME NEW i \in 1..(next' - 1), UsePorts(prog[i]) # {}
        PROVE  \E u \in insts' : u.at = i /\ u.kind = UnitKind(prog[i])
    <3>1. CASE i # next
      <4>1. HasUnit(i)
        BY <2>1, <2>2, <2>4, <3>1 DEF UnitsIn
      <4> QED
        BY <2>3, <4>1 DEF HasUnit
    <3>2. CASE i = next
      BY <1>3, <2>4, <3>2, HandlerUnit
    <3> QED
      BY <3>1, <3>2
  <2> QED
    BY <2>2, <2>4 DEF UnitsIn, HasUnit, UsePorts, FirstOccurrences, UnitKind
<1>4. CASE EmitDone \/ ConvertDone \/ UNCHANGED vars
  <2>1. UNCHANGED <<prog, next>> /\ insts' = insts \cup {} /\ (pc' = pc \/ pc \in {"emit", "convert"})
    BY <1>4 DEF EmitDone, ConvertDone, vars
  <2> QED
    BY <2>1, UnitsStay
<1>5. CASE \E c \in BoolChan : PrintBoolToIntConv(c)
  <2>1. PICK c \in BoolChan : PrintBoolToIntConv(c)
    BY <1>5
  <2>2. UNCHANGED <<prog, next, pc>> /\ \E I : insts' = insts \cup I
    <3>1. PICK J, K : /\ J = {Inst("bool_to_int", 0, One(Raw(c)), One(ToInt(c))) : f \in boolFlags[c] \cap {"to"}}
                      /\ K = {Inst("int_to_bool", 0, One(FromInt(c)), One(Raw(c))) : f \in boolFlags[c] \cap {"from"}}
      OBVIOUS
    <3>2. insts' = insts \cup (J \cup K)
      BY <2>1, <3>1 DEF PrintBoolToIntConv
    <3> QED
      BY <2>1, <3>2 DEF PrintBoolToIntConv
  <2> QED
    BY <2>2, UnitsStay
<1> QED
  BY <1>1, <1>2, <1>3, <1>4, <1>5 DEF Next, Handler, Terminating

(* What a process holds in a round: a merge its guard, and then the input the *)
(* guard names; a mixer or an arbiter one input.                             *)
RoundOf(x, gx) ==
  /\ gx = [p \in DOMAIN gx |-> gx[p]]
  /\ x.kind = "merge" /\ DOMAIN gx # {} => 1 \in DOMAIN gx /\ DOMAIN gx \subseteq {1, gx[1] + 2}
  /\ x.kind \in {"mixer", "arbiter"} => \E p : DOMAIN gx \subseteq {p}

RoundInv ==
  /\ DOMAIN got = {} => DOMAIN offer = {}
  /\ \A x \in DOMAIN got : RoundOf(x, got[x])

LEMMA NoRound ==
  ASSUME NEW x
  PROVE  RoundOf(x, Chp!Nothing)
BY DEF RoundOf, Chp!Nothing

LEMMA ReceiveRound ==
  ASSUME OwnInputs, RoundInv, NEW x \in insts, NEW p \in DOMAIN x.ins, Chp!Receive(x, p)
  PROVE  RoundOf(x, got'[x])
<1>0. PICK h, v : h = got[x] /\ v = Chp!Stored(x, offer[x.ins[p]])
  OBVIOUS
<1>1. PICK g : h = got[x] /\ g = [q \in DOMAIN h \cup {p} |-> IF q = p THEN v ELSE h[q]]
  BY <1>0
<1>2. got'[x] = g /\ p \in Chp!Wanted(x)
  BY <1>0, <1>1 DEF Chp!Receive, OwnInputs
<1>3. RoundOf(x, h)
  BY <1>1 DEF RoundInv, OwnInputs
<1>4. g = [q \in DOMAIN g |-> g[q]]
  BY <1>1
<1>5. CASE x.kind = "merge"
  <2>1. p \in (IF 1 \in DOMAIN h THEN {h[1] + 2} ELSE {1}) \ DOMAIN h
    BY <1>1, <1>2, <1>5 DEF Chp!Wanted
  <2>2. CASE 1 \in DOMAIN h
    BY <1>1, <1>2, <1>3, <1>4, <1>5, <2>1, <2>2 DEF RoundOf
  <2>3. CASE 1 \notin DOMAIN h
    <3>1. DOMAIN h = {}
      BY <1>3, <1>5, <2>3 DEF RoundOf
    <3> QED
      BY <1>1, <1>2, <1>4, <1>5, <2>1, <3>1 DEF RoundOf
  <2> QED
    BY <2>2, <2>3
<1>6. CASE x.kind \in {"mixer", "arbiter"}
  <2>1. h = Chp!Nothing
    BY <1>1, <1>2, <1>6 DEF Chp!Wanted
  <2>2. DOMAIN g = {p}
    BY <1>1, <2>1 DEF Chp!Nothing
  <2> QED
    BY <1>2, <1>4, <1>6, <2>2 DEF RoundOf
<1>7. CASE x.kind \notin {"merge", "mixer", "arbiter"}
  BY <1>2, <1>4, <1>7 DEF RoundOf
<1> QED
  BY <1>5, <1>6, <1>7

LEMMA SendRound ==
  ASSUME OwnInputs, NEW x \in insts, Chp!Send(x)
  PROVE  RoundOf(x, got'[x])
<1>1. PICK S, vals :
        /\ S \in Chp!Rounds(x, Chp!Seen(x))
        /\ vals = Chp!Only(Chp!Seen(x), S) /\ DOMAIN vals = S
        /\ got' = [got EXCEPT ![x] = IF Chp!Holds(x) THEN vals ELSE Chp!Nothing]
  BY DEF Chp!Send
<1>2. PICK seen : seen = Chp!Seen(x)
  OBVIOUS
<1>3. vals = [p \in DOMAIN vals |-> vals[p]] /\ \A p \in S : p \in DOMAIN seen /\ vals[p] = seen[p]
  BY <1>1, <1>2 DEF Chp!Only
<1>4. CASE x.kind = "merge"
  <2>1. S = {1, seen[1] + 2} /\ 1 \in DOMAIN seen
    BY <1>1, <1>2, <1>4 DEF Chp!Rounds
  <2> QED
    BY <1>1, <1>3, <1>4, <2>1, NoRound DEF RoundOf, OwnInputs
<1>5. CASE x.kind \in {"mixer", "arbiter"}
  <2>1. \E p : S = {p}
    BY <1>1, <1>5 DEF Chp!Rounds
  <2> QED
    BY <1>1, <1>3, <1>5, <2>1, NoRound DEF RoundOf, OwnInputs
<1>6. CASE x.kind \notin {"merge", "mixer", "arbiter"}
  BY <1>1, <1>3, <1>6, NoRound DEF RoundOf, OwnInputs
<1> QED
  BY <1>4, <1>5, <1>6

LEMMA RoundStep ==
  ASSUME AllInv, NetworkInv, RoundInv, Running, NEW y \in insts, Chp!Step(y)
  PROVE  RoundInv'
<1>1. OwnInputs
  BY DEF NetworkInv, Running
<1>2. StepOf(y)
  BY <1>1, ProcessStep
<1>3. RoundOf(y, got'[y])
  <2>1. Chp!Release(y) => got'[y] = Chp!Nothing
    BY <1>1 DEF Chp!Release, OwnInputs
  <2> QED
    BY <1>1, <2>1, NoRound, ReceiveRound, SendRound DEF Chp!Step
<1>4. DOMAIN got' = insts /\ DOMAIN got' # {}
  BY <1>2 DEF StepOf, OwnInputs
<1>5. \A x \in DOMAIN got' : RoundOf(x, got'[x])
  BY <1>1, <1>2, <1>3, <1>4 DEF StepOf, OwnInputs, RoundInv
<1> QED
  BY <1>4, <1>5 DEF RoundInv, RoundOf

(* The network as the translator leaves it, and as it runs. *)
NetInv ==
  /\ AllInv /\ ScopeInv /\ ClosedInv /\ UsesRead /\ FiniteText /\ UnitsIn
  /\ NetworkInv /\ ValueInv /\ RoundInv

(* Whatever the block, the network keeps all of that. *)
THEOREM NetInvTheorem == MapSpec => []NetInv
<1>1. Init => FiniteText /\ UnitsIn
  BY FS_EmptySet DEF Init, FiniteText, UnitsIn
<1>2. AllInv /\ FiniteText /\ UnitsIn /\ [Next]_vars => (FiniteText /\ UnitsIn)'
  BY FiniteStep, UnitsStep
<1>3. MapInit => RoundInv
  BY DEF MapInit, RoundInv
<1>4. AllInv /\ NetworkInv /\ RoundInv /\ [MapNext]_mapVars => RoundInv'
  <2> SUFFICES ASSUME AllInv, NetworkInv, RoundInv, [MapNext]_mapVars
               PROVE  RoundInv'
    OBVIOUS
  <2>1. CASE UNCHANGED <<offer, got>>
    BY <2>1 DEF RoundInv, RoundOf
  <2>2. CASE Start
    <3>1. /\ DOMAIN got' = insts /\ offer' = offer /\ DOMAIN got = {}
          /\ \A x \in insts : got'[x] \in {[p \in {1} |-> InitValue], Chp!Nothing}
                              /\ (x.kind # "init" => got'[x] = Chp!Nothing)
      BY <2>2 DEF Start, Network, Chp!Reset
    <3>2. ASSUME NEW x \in insts PROVE RoundOf(x, got'[x])
      BY <3>1, NoRound DEF RoundOf
    <3> QED
      BY <3>1, <3>2 DEF RoundInv, RoundOf
  <2>3. ASSUME NEW y \in insts, Running, Network(Chp!Step(y)) PROVE RoundInv'
    BY <2>3, RoundStep DEF Network
  <2>4. ASSUME NEW c \in Chan, NEW v \in Value, EnvPut(c, v) PROVE RoundInv'
    BY <2>4 DEF EnvPut, Chp!Put, Running, RoundInv, RoundOf
  <2>5. ASSUME NEW c \in Chan, EnvGet(c) PROVE RoundInv'
    BY <2>5 DEF EnvGet, Network, Chp!Get, Running, RoundInv, RoundOf
  <2>6. CASE \E i \in DOMAIN prog : StepAt(i) \/ UnitAt(i)
    BY <2>3, <2>6, Zenon DEF StepAt, UnitAt
  <2>7. CASE \E c \in Chan : CopyOf(c) \/ ConverterOf(c)
    BY <2>3, <2>7, Zenon DEF CopyOf, ConverterOf
  <2>8. /\ UNCHANGED mapVars => UNCHANGED <<offer, got>>
        /\ Translate => UNCHANGED <<offer, got>>
    BY DEF mapVars, Translate
  <2> QED
    BY <2>1, <2>2, <2>4, <2>5, <2>6, <2>7, <2>8, Zenon DEF MapNext
<1>5. MapSpec => [](FiniteText /\ UnitsIn)
  BY <1>1, <1>2, MapIsTranslator, NetTheorem, PTL DEF Spec
<1>6. MapSpec => []RoundInv
  BY <1>3, <1>4, NetTheorem, NetworkTheorem, PTL DEF MapSpec
<1>7. (AllInv /\ ScopeInv /\ ClosedInv /\ UsesRead) /\ (FiniteText /\ UnitsIn) /\ NetworkInv /\ ValueInv /\ RoundInv => NetInv
  BY DEF NetInv
<1> QED
  BY <1>5, <1>6, <1>7, NetTheorem, NetworkTheorem, ValueTheorem, PTL

-----------------------------------------------------------------------------
(* What is sent on a channel of the program, and where. *)

LEMMA DrivenChan ==
  ASSUME prog \in Programs, NEW i \in 1..Len(prog), NEW o \in DOMAIN prog[i].outs,
         prog[i].outs[o].chan # Null
  PROVE  prog[i].outs[o].chan \in Chan /\ Driven(prog[i].outs[o].chan) /\ i \in DOMAIN prog
BY NullOutputs, ProgType DEF Driven

(* A process of an element sends output o where the tokens of o's channel start. *)
LEMMA SourceOut ==
  ASSUME Done, NEW x \in insts, NEW i \in 1..Len(prog), x.at = i, UnitShape(x, prog[i]),
         NEW o \in DOMAIN x.outs, NEW c \in Chan
  PROVE  o \in DOMAIN prog[i].outs /\ (x.outs[o] = Source(c) <=> prog[i].outs[o].chan = c)
<1>1. PICK e, d : e = prog[i] /\ d = e.outs[o].chan
  OBVIOUS
<1>2. o \in UnitOuts(e) /\ o \in DOMAIN e.outs
  BY <1>1 DEF UnitShape, UnitOuts, Calcs
<1>3. CASE d = Null
  <2>1. x.outs[o].chan = Null
    <3>1. \E k \in Nat : x.outs[o] = Name(Spare(e), Null, k)
      BY <1>1, <1>2, <1>3 DEF UnitShape
    <3> QED
      BY <3>1, NameFields
  <2>2. Source(c).chan = c /\ c # Null
    BY SourceOnWay, NullAssumption
  <2> QED
    BY <1>1, <1>2, <1>3, <2>1, <2>2
<1>4. CASE d # Null
  <2>1. prog \in Programs
    BY DEF Done, AllInv, TypeOK
  <2>2. d \in Chan /\ ~Bypassed(d)
    <3>1. d \in Chan \cup {Null}
      BY <1>1, <1>2, <2>1, NullOutputs
    <3> QED
      BY <1>4, <3>1 DEF Done, NothingBypassed
  <2>3. x.outs[o] = Sender(d) /\ (d \notin BoolChan \/ ToBoolInst(d) \in insts)
    BY <1>1, <1>4, <2>2, OutputSender DEF Done
  <2>4. x.outs[o] = Source(d)
    BY <2>3 DEF Source
  <2>5. Source(d).chan = d /\ Source(c).chan = c
    BY <2>2, SourceOnWay
  <2> QED
    BY <1>1, <1>2, <2>4, <2>5
<1> QED
  BY <1>3, <1>4

(* A source sends the constant of its output there. *)
LEMMA SourceConst ==
  ASSUME Done, NEW x \in insts, NEW i \in 1..Len(prog), x.at = i, SourceShape(x, prog[i])
  PROVE  /\ x.kind = "source" /\ DOMAIN x.ins = {} /\ DOMAIN x.outs = {1}
         /\ \E o \in DOMAIN prog[i].outs :
              /\ prog[i].outs[o].expr = "const" /\ prog[i].outs[o].chan \in Chan
              /\ \A c \in Chan : x.outs[1] = Source(c) <=> prog[i].outs[o].chan = c
<1>1. PICK e : e = prog[i]
  OBVIOUS
<1>2. PICK o \in DOMAIN e.outs \ Calcs(e) : x = Inst("source", i, None, One(OutName(e.outs[o].chan)))
  BY <1>1 DEF SourceShape
<1>3. PICK d : d = e.outs[o].chan
  OBVIOUS
<1>4. prog \in Programs /\ e.t \in FC
  BY <1>1 DEF Done, AllInv, TypeOK, SourceShape
<1>5. d \in Chan /\ e.outs[o].expr = "const"
  <2>1. d \in Chan /\ e.outs[o] \in Output
    BY <1>1, <1>3, <1>4, NullOutputs, ElementFacts DEF FC
  <2>2. e.outs[o].expr \in {"calc", "const"}
    BY <2>1 DEF Output
  <2>3. e.outs[o].expr # "calc"
    BY <1>2 DEF Calcs
  <2> QED
    BY <2>1, <2>2, <2>3
<1>6. x.kind = "source" /\ DOMAIN x.ins = {} /\ DOMAIN x.outs = {1} /\ x.outs[1] = OutName(d)
  BY <1>2, <1>3, InstFields, OnePort
<1>7. ~Buffered(d)
  <2> SUFFICES ASSUME Buffered(d) PROVE FALSE
    OBVIOUS
  <2>1. PICK j \in 1..Len(prog) : prog[j].t \in FC /\ \E q \in BuffOuts(prog[j]) : prog[j].outs[q].chan = d
    BY DEF Buffered
  <2>2. PICK q \in BuffOuts(prog[j]) : prog[j].outs[q].chan = d
    BY <2>1
  <2>3. q \in DOMAIN prog[j].outs /\ q \in Calcs(prog[j])
    BY DEF BuffOuts, Calcs
  <2>4. d # Null
    BY <1>5, NullAssumption
  <2>5. j = i /\ q = o
    BY <1>1, <1>2, <1>3, <1>4, <2>2, <2>3, <2>4, DrivenOnce
  <2> QED
    BY <1>1, <1>2, <2>3, <2>5
<1>8. x.outs[1] = Source(d)
  <2>1. ASSUME d \in BoolChan PROVE ToBoolInst(d) \in insts
    <3>1. FromInt(d) \in PortNames(x)
      BY <1>6, <2>1, ReadNames DEF PortNames
    <3> QED
      BY <2>1, <3>1, Converted DEF Done
  <2> QED
    BY <1>6, <1>7, <2>1 DEF Source, Sender
<1>9. ASSUME NEW c \in Chan PROVE x.outs[1] = Source(c) <=> d = c
  <2>1. Source(d).chan = d /\ Source(c).chan = c
    BY <1>5, SourceOnWay
  <2> QED
    BY <1>8, <2>1
<1> QED
  BY <1>1, <1>2, <1>3, <1>5, <1>6, <1>9

(* The tokens of a channel the program does not drive come from outside. *)
LEMMA SourceInput ==
  ASSUME Done, NEW c \in Chan, ~Driven(c)
  PROVE  Source(c) = Raw(c)
<1>1. prog \in Programs
  BY DEF Done, AllInv, TypeOK
<1>2. ~Buffered(c)
  <2> SUFFICES ASSUME Buffered(c) PROVE FALSE
    OBVIOUS
  <2>1. PICK j \in 1..Len(prog) : \E q \in BuffOuts(prog[j]) : prog[j].outs[q].chan = c
    BY DEF Buffered
  <2>2. PICK q \in BuffOuts(prog[j]) : prog[j].outs[q].chan = c
    BY <2>1
  <2>3. q \in DOMAIN prog[j].outs /\ j \in DOMAIN prog
    BY <1>1, ProgType DEF BuffOuts, Calcs
  <2> QED
    BY <2>2, <2>3 DEF Driven
<1>3. ASSUME c \in BoolChan, ToBoolInst(c) \in insts PROVE FALSE
  <2>1. PICK z, n : z = ToBoolInst(c) /\ n = FromInt(c)
    OBVIOUS
  <2>2. z \in insts /\ n \in PortNames(z)
    BY <1>3, <2>1, InstFields, OnePort DEF ToBoolInst, PortNames
  <2>3. n.kind = "fromint" /\ n.chan = c
    BY <2>1, ReadNames
  <2>4. Declared(n)
    BY <2>2, <2>3 DEF Done, ScopeInv, InScope
  <2>5. PICK w \in insts : \E q \in DOMAIN w.outs : w.outs[q] = n
    BY <2>4, DeclaredClosed DEF Done, HasWriter
  <2>6. PICK q \in DOMAIN w.outs : w.outs[q] = n
    BY <2>5
  <2>7. ~NumberedOut(w.outs[q])
    BY <2>3, <2>6 DEF NumberedOut
  <2>8. \A d : ~CopyWrites(w, q, d)
    BY <2>3, <2>6, NameFields DEF CopyWrites, CopyOut
  <2>9. \A d : ~ConvWrites(w, q, d)
    BY <2>3, <2>6, ReadNames DEF ConvWrites
  <2>10. PICK i, o : Drives(w, q, i, o)
    BY <2>7, <2>8, <2>9, OutputRoles DEF Done
  <2>11. n.chan = prog[i].outs[o].chan
    BY <2>6, <2>10, DriverName DEF Done
  <2>12. i \in DOMAIN prog /\ o \in DOMAIN prog[i].outs
    BY <1>1, <2>10, ProgType DEF Drives
  <2> QED
    BY <2>3, <2>11, <2>12 DEF Driven
<1> QED
  BY <1>2, <1>3, ReadNames DEF Source, Sender

(* A channel that starts with a token has a buffer that holds it. *)
LEMMA InitialBuffer ==
  ASSUME Done, NEW c \in Chan, Block!Initialised(c)
  PROVE  Source(c) = BufIn(c)
<1>1. PICK i \in DOMAIN prog : \E o \in DOMAIN prog[i].outs : prog[i].outs[o].chan = c /\ prog[i].outs[o].buf = "init"
  BY DEF Block!Initialised
<1>2. PICK o \in DOMAIN prog[i].outs : prog[i].outs[o].chan = c /\ prog[i].outs[o].buf = "init"
  BY <1>1
<1>3. prog \in Programs /\ i \in 1..Len(prog) /\ WellFormed(prog)
  BY ProgType, ProgramsAssumption DEF Done, AllInv, TypeOK
<1>4. prog[i].t \in FC
  <2>1. <<i, o>> \in OutSites(prog)
    BY DEF OutSites
  <2>2. PICK s : s = <<i, o>>
    OBVIOUS
  <2>3. \/ prog[s[1]].t \in {"func", "cluster"}
        \/ prog[s[1]].outs[s[2]].expr = "calc" /\ prog[s[1]].outs[s[2]].buf = "none"
    BY <1>3, <2>1, <2>2 DEF WellFormed
  <2> QED
    BY <1>2, <2>2, <2>3 DEF FC
<1>5. i \in 1..Passed
  <2>1. next = Len(prog) + 1 /\ Len(prog) \in Nat
    BY <1>3, ProgType DEF Done, ClosedInv, ConvertersIn
  <2> QED
    BY <1>3, <2>1 DEF Passed, Done
<1>6. o \in BuffOuts(prog[i])
  <2>1. prog[i].outs[o] \in Output
    BY <1>3, ElementFacts
  <2>2. prog[i].outs[o].expr = "calc"
    BY <1>2, <1>4, <1>5, <2>1 DEF Done, ClosedInv, ElementsIn, Output
  <2> QED
    BY <1>2, <2>2 DEF BuffOuts, Calcs, HasBuff
<1>7. Buffered(c)
  BY <1>2, <1>3, <1>4, <1>6 DEF Buffered
<1>8. ASSUME c \in BoolChan PROVE ToBoolInst(c) \in insts
  <2>1. PICK out : out = prog[i].outs[o]
    OBVIOUS
  <2>2. Inner(out) \in Nat
    BY <1>3, <2>1, ElementFacts, InnerType
  <2>3. PICK z : z = StageInst(i, out, Inner(out))
    OBVIOUS
  <2>4. z \in insts
    BY <1>2, <1>3, <1>4, <1>6, <2>1, <2>2, <2>3, ChainTrail DEF Done, NothingBypassed
  <2>5. DOMAIN z.outs = {1} /\ z.outs[1] = FromInt(c)
    BY <1>2, <1>8, <2>1, <2>2, <2>3, StageFields, ReadNames
  <2>6. FromInt(c) \in PortNames(z)
    BY <2>5 DEF PortNames
  <2> QED
    BY <1>8, <2>4, <2>6, Converted DEF Done
<1> QED
  BY <1>7, <1>8 DEF Source, Sender

(* Before the network has taken a step, the tokens on the way to a reader are *)
(* the ones the program asks for: init holds the v of [n,v].                 *)
LEMMA TokensStart ==
  ASSUME Done, NEW c \in Chan, NEW off, DOMAIN off = {}, NEW g,
         \A x \in insts : g[x] = IF x.kind = "init" THEN [p \in {1} |-> InitValue] ELSE Chp!Nothing,
         NEW n, OnWay(c, n), n.kind \notin {"bufIn", "buf"}
  PROVE  Tokens(insts, off, g, n) = IF Block!Initialised(c) THEN <<InitValue>> ELSE <<>>
<1> DEFINE T(m) == Tokens(insts, off, g, m)
           Starts(m) == T(m) = IF Block!Initialised(c) /\ m.kind \notin {"bufIn", "buf"}
                               THEN <<InitValue>> ELSE <<>>
           S == {m \in Names : Starts(m)}
<1>1. \A m : Ahead(off, m) = <<>>
  BY DEF Ahead
<1>2. Source(c) \in S
  <2>1. OnWay(c, Source(c)) /\ Source(c) \in Names /\ FeedsOf(insts, Source(c)) = {}
    BY SourceOnWay
  <2>2. T(Source(c)) = <<>>
    BY <1>1, <2>1, WayTokens
  <2>3. Block!Initialised(c) => Source(c).kind = "bufIn"
    BY InitialBuffer, NameKinds
  <2> HIDE DEF T
  <2> QED
    BY <2>1, <2>2, <2>3
<1>3. ASSUME NEW m, NEW y, OnWay(c, m), y \in insts, y.kind \in Transparent, FeedsOf(insts, m) = {y},
             OnWay(c, y.ins[1]), y.ins[1] \in S
      PROVE  m \in S
  <2>0. T(m) = Ahead(off, m) \o Through(y, g[y], T(y.ins[1]))
    BY <1>3, WayTokens
  <2>2. m \in Names /\ m.chan = c /\ y.ins[1].chan = c
    BY <1>3, WayBack
  <2>3. PICK q0 \in DOMAIN y.outs : y.outs[q0] = m
    BY <1>3, InFeeds
  <2> HIDE DEF T
  <2>1. T(m) = <<>> \o Through(y, g[y], T(y.ins[1]))
    BY <1>1, <2>0
  <2>5. Starts(y.ins[1])
    BY <1>3
  <2>4. T(y.ins[1]) \in Seq(Value) /\ <<InitValue>> \in Seq(Value)
    <3>1. InitValue \in Value
      BY ValueAssumption
    <3>2. <<InitValue>> \in Seq(Value) /\ <<>> \in Seq(Value)
      BY <3>1
    <3> QED
      BY <2>5, <3>2
  <2>6. ASSUME y.kind # "init", y.ins[1].kind \notin {"bufIn", "buf"}, m.kind \notin {"bufIn", "buf"}
        PROVE  Starts(m)
    <3>1. Through(y, g[y], T(y.ins[1])) = T(y.ins[1])
      BY <1>3, <2>4, <2>6, ConcatEmptySeq DEF Through
    <3>2. T(m) = T(y.ins[1])
      BY <2>1, <2>4, <3>1, ConcatEmptySeq
    <3> QED
      BY <2>5, <2>6, <3>2
  <2>7. CASE \E d \in Chan : opUses[d] > 0 /\ y = CopyInst(d)
    <3>1. PICK d \in Chan : y = CopyInst(d)
      BY <2>7
    <3>2. y.kind = "copy" /\ y.ins[1] = ReadBase(d) /\ m.kind = "copyout"
      <4>1. y.kind = "copy" /\ y.ins[1] = ReadBase(d)
        BY <3>1, Between
      <4>2. y.outs = [k \in 1..NumOut(d) |-> CopyOut(d, k - 1)]
        BY <3>1, InstFields DEF CopyInst
      <4>3. m = CopyOut(d, q0 - 1)
        BY <2>3, <4>2
      <4> QED
        BY <4>1, <4>3, NameFields DEF CopyOut
    <3>3. y.ins[1].kind \in {"raw", "toint"}
      BY <3>2, ReadNames
    <3> QED
      BY <2>2, <2>6, <3>2, <3>3
  <2>8. CASE \E d \in BoolChan : y = ToIntInst(d) \/ y = ToBoolInst(d)
    <3>1. PICK d \in BoolChan : y = ToIntInst(d) \/ y = ToBoolInst(d)
      BY <2>8
    <3>2. /\ y.kind \in {"bool_to_int", "int_to_bool"} /\ y.ins[1] \in {Raw(d), FromInt(d)}
          /\ m \in {Raw(d), ToInt(d)}
      BY <2>3, <3>1, Between
    <3>3. y.ins[1].kind \notin {"bufIn", "buf"} /\ m.kind \notin {"bufIn", "buf"}
      BY <3>2, ReadNames
    <3> QED
      BY <2>2, <2>6, <3>2, <3>3
  <2>9. ASSUME NEW o, NEW k, BuffAt(y, o, k) PROVE Starts(m)
    <3>1. PICK i, out : i = y.at /\ out = prog[i].outs[o]
      OBVIOUS
    <3>2. /\ i \in 1..Len(prog) /\ prog \in Programs /\ o \in BuffOuts(prog[i])
          /\ o \in DOMAIN prog[i].outs
          /\ k \in 0..Inner(out) /\ y = StageInst(i, out, k)
      BY <2>9, <3>1 DEF BuffAt, Done, AllInv, TypeOK, BuffOuts, Calcs
    <3>3. Inner(out) \in Nat
      BY <3>1, <3>2, ElementFacts, InnerType
    <3>4. /\ DOMAIN y.outs = {1} /\ y.ins[1] = Stage(out.chan, k)
          /\ m = IF k < Inner(out) THEN Stage(out.chan, k + 1) ELSE OutName(out.chan)
      BY <2>3, <3>2, StageFields
    <3>5. out.chan = c
      BY <2>2, <3>4, StageChan
    <3>6. T(y.ins[1]) = <<>>
      <4>1. Stage(out.chan, k).kind \in {"bufIn", "buf"}
        BY NameKinds
      <4> QED
        BY <2>5, <3>4, <4>1
    <3>7. y.kind = IF k < Inner(out) \/ out.buf # "init" THEN "onebuf" ELSE "init"
      BY <3>2, StageKind
    <3>8. ~Chp!Holds(y)
      BY <3>7 DEF Chp!Holds, Chp!Selections
    <3>9. CASE y.kind = "onebuf"
      <4>1. T(m) = <<>>
        BY <1>3, <2>1, <3>6, <3>9, ConcatEmptySeq, EmptySeq DEF Through
      <4>2. CASE k < Inner(out)
        <5>1. m.kind \in {"bufIn", "buf"}
          BY <3>4, <4>2, NameKinds
        <5> QED
          BY <4>1, <5>1
      <4>3. CASE ~(k < Inner(out))
        <5>1. out.buf # "init"
          BY <3>7, <3>9, <4>3
        <5>2. ~Block!Initialised(c)
          <6> SUFFICES ASSUME Block!Initialised(c) PROVE FALSE
            OBVIOUS
          <6>1. PICK j \in DOMAIN prog : \E q \in DOMAIN prog[j].outs : prog[j].outs[q].chan = c /\ prog[j].outs[q].buf = "init"
            BY DEF Block!Initialised
          <6>2. PICK q \in DOMAIN prog[j].outs : prog[j].outs[q].chan = c /\ prog[j].outs[q].buf = "init"
            BY <6>1
          <6>3. j \in 1..Len(prog) /\ c # Null
            BY <3>2, ProgType, NullAssumption
          <6>5. prog[i].outs[o].chan = prog[j].outs[q].chan /\ prog[i].outs[o].chan # Null
            BY <3>1, <3>5, <6>2, <6>3
          <6>4. i = j /\ o = q
            BY <3>2, <6>2, <6>3, <6>5, DrivenOnce
          <6> QED
            BY <3>1, <5>1, <6>2, <6>4
        <5> QED
          BY <4>1, <5>2
      <4> QED
        BY <4>2, <4>3
    <3>10. CASE y.kind = "init"
      <4>1. ~(k < Inner(out)) /\ out.buf = "init"
        BY <3>7, <3>10
      <4>2. m.kind \in {"raw", "fromint"}
        BY <3>4, <4>1, NameKinds
      <4>3. Block!Initialised(c)
        <5>1. i \in DOMAIN prog
          BY <3>2, ProgType
        <5> QED
          BY <3>1, <3>2, <3>5, <4>1, <5>1 DEF Block!Initialised
      <4>4. g[y] = [p \in {1} |-> InitValue]
        BY <1>3, <3>10
      <4>5. g[y] # Chp!Nothing /\ g[y][1] = InitValue
        BY <4>4 DEF Chp!Nothing
      <4>6. Through(y, g[y], T(y.ins[1])) = <<InitValue>> \o <<>>
        BY <3>6, <3>8, <4>5 DEF Through
      <4>7. T(m) = <<InitValue>>
        <5>1. <<InitValue>> \in Seq(Value)
          BY <2>4
        <5> QED
          BY <2>1, <4>6, <5>1, ConcatEmptySeq
      <4> QED
        BY <4>2, <4>3, <4>7
    <3> QED
      BY <3>7, <3>9, <3>10
  <2>10. Starts(m)
    BY <1>3, <2>7, <2>8, <2>9, ViaRoles DEF Done
  <2> QED
    BY <2>2, <2>10
<1> HIDE DEF S
<1>4. n \in S
  BY <1>2, <1>3, AlongWays
<1> QED
  BY <1>4 DEF S, Starts

-----------------------------------------------------------------------------
(* The readers of the block, and the ports they are. *)

(* The process of an element has its ports, a sink one of them. *)
LEMMA UnitRole ==
  ASSUME AllInv, NEW x \in insts, NEW i \in 1..Len(prog), x.at = i, x.kind = UnitKind(prog[i])
  PROVE  /\ prog[i].t = "sink" => x = Inst("sink", i, One(Raw(prog[i].reads[1])), None)
         /\ prog[i].t # "sink" => UnitShape(x, prog[i])
         /\ DOMAIN x.ins = UsePorts(prog[i])
<1>1. PICK e : e = prog[i]
  OBVIOUS
<1>2. i # 0 /\ e.t \in Kinds /\ prog \in Programs
  BY <1>1, ElementFacts DEF AllInv, TypeOK
<1>3. x.kind \in {"fu", "split", "merge", "mixer", "arbiter", "sink"} /\ (x.kind = "sink" <=> e.t = "sink")
  BY <1>1, <1>2 DEF UnitKind, FC, Kinds
<1>4. \A c : x # CopyInst(c) /\ x # ToIntInst(c) /\ x # ToBoolInst(c)
  BY <1>2, InstFields DEF CopyInst, ToIntInst, ToBoolInst
<1>5. ~SourceShape(x, e)
  BY <1>3, InstFields DEF SourceShape
<1>6. \A o, k : ~BuffAt(x, o, k)
  BY <1>3, StageFields DEF BuffAt
<1>7. UnitShape(x, e) \/ SinkShape(x, e)
  BY <1>1, <1>4, <1>5, <1>6, Roles
<1>8. CASE e.t = "sink"
  <2>1. x = Inst("sink", i, One(Raw(e.reads[1])), None)
    BY <1>7, <1>8 DEF UnitShape, SinkShape
  <2>2. DOMAIN e.reads = {1}
    BY <1>1, <1>2, <1>8, Arities
  <2>3. DOMAIN x.ins = {1} /\ UsePorts(e) = {1}
    BY <1>8, <2>1, <2>2, InstFields, OnePort DEF UsePorts
  <2> QED
    BY <1>1, <1>8, <2>1, <2>3
<1>9. CASE e.t # "sink"
  <2>1. ~SinkShape(x, e)
    BY <1>3, <1>9, InstFields DEF SinkShape
  <2> QED
    BY <1>1, <1>7, <1>9, <2>1 DEF UnitShape
<1> QED
  BY <1>8, <1>9

(* The process ProcessOf chooses is the one process of the element. *)
LEMMA ProcessIs ==
  ASSUME AllInv, NEW x \in insts, NEW i \in 1..Len(prog), x.at = i, x.kind = UnitKind(prog[i]),
         UsePorts(prog[i]) # {}
  PROVE  ProcessOf(i) = x
<1>1. PICK e : e = prog[i]
  OBVIOUS
<1>2. i # 0 /\ e.t \in Kinds
  BY <1>1, ElementFacts DEF AllInv, TypeOK
<1> DEFINE P(z) == z.at = i /\ \/ z.kind = "fu"
                               \/ z.kind = e.t /\ DOMAIN z.ins # {} /\ (z.kind = "sink" => z.outs = None)
<1>3. P(x)
  <2>1. DOMAIN x.ins # {}
    BY UnitRole
  <2>2. x.kind = "sink" => x.outs = None
    <3> SUFFICES ASSUME x.kind = "sink" PROVE x.outs = None
      OBVIOUS
    <3>1. prog[i].t = "sink"
      BY DEF UnitKind, FC
    <3>2. x = Inst("sink", i, One(Raw(prog[i].reads[1])), None)
      BY <3>1, UnitRole
    <3> QED
      BY <3>2, InstFields
  <2> QED
    BY <1>1, <2>1, <2>2 DEF UnitKind
<1>4. ASSUME NEW z \in insts, P(z) PROVE z = x
  <2>1. z.kind = UnitKind(e)
    <3>1. CASE z.kind = "fu"
      <4>1. UnitShape(z, e)
        BY <1>1, <1>2, <1>4, <3>1, UnitIsElement
      <4> QED
        BY <4>1 DEF UnitShape
    <3>2. CASE z.kind # "fu" /\ e.t \notin FC
      BY <1>4, <3>2 DEF UnitKind
    <3>3. CASE z.kind # "fu" /\ e.t \in FC
      <4>1. z.kind \in FC
        BY <1>4, <3>3
      <4>2. \A c : z # CopyInst(c) /\ z # ToIntInst(c) /\ z # ToBoolInst(c)
        BY <1>2, <1>4, InstFields DEF CopyInst, ToIntInst, ToBoolInst
      <4>3. ~SourceShape(z, e) /\ ~SinkShape(z, e)
        BY <4>1, InstFields DEF SourceShape, SinkShape, FC
      <4>4. \A o, k : ~BuffAt(z, o, k)
        BY <4>1, StageFields DEF BuffAt, FC
      <4>5. ~UnitShape(z, e)
        BY <3>3 DEF UnitShape, UnitKind
      <4> QED
        BY <1>1, <1>4, <4>2, <4>3, <4>4, <4>5, Roles
    <3> QED
      BY <3>1, <3>2, <3>3
  <2>2. CASE e.t = "sink"
    BY <1>1, <1>4, <2>1, <2>2, UnitRole
  <2>3. CASE e.t # "sink"
    BY <1>1, <1>2, <1>4, <2>1, <2>3 DEF AllInv, TextInv, OneUnit
  <2> QED
    BY <2>2, <2>3
<1>5. ProcessOf(i) = CHOOSE z \in insts : P(z)
  BY <1>1 DEF ProcessOf
<1> HIDE DEF P
<1> QED
  BY <1>3, <1>4, <1>5

(* The port of the network at which reader r of the block gets its tokens. *)
PortOf(r) == IF r[1] = 0 THEN Raw(r[2]) ELSE ProcessOf(r[1]).ins[r[2]]

(* A channel with an operand has a count. *)
LEMMA UsedHere ==
  ASSUME Done, NEW i \in 1..Len(prog), NEW p \in UsePorts(prog[i]), NEW c \in Chan, c = prog[i].reads[p]
  PROVE  opUses[c] # NoEntry
<1>1. prog \in Programs /\ Len(prog) \in Nat
  BY ProgType DEF Done, AllInv, TypeOK
<1>2. PICK S : S = Sites(Len(prog), c)
  OBVIOUS
<1>3. IsFiniteSet(S) /\ opUses[c] = Cardinality(S) - 1
  BY <1>2 DEF Done, AllInv, IInv, UsesCounted, Scanned
<1>4. <<i, p>> \in S
  BY <1>1, <1>2 DEF Sites, UsesOf
<1>5. Cardinality(S) # 0
  BY <1>3, <1>4, FS_EmptySet
<1> QED
  BY <1>3, <1>5, FS_CardinalityType DEF NoEntry

LEMMA ReaderForms ==
  ASSUME prog \in Programs, NEW r
  PROVE  r \in Block!Readers <=>
           \/ \E i \in 1..Len(prog) : \E p \in UsePorts(prog[i]) : r = <<i, p>>
           \/ \E c \in Chan : Driven(c) /\ ~Read(c) /\ r = <<0, c>>
<1>1. \A e : Block!Operands(e) = UsePorts(e)
  BY DEF Block!Operands, UsePorts, FirstOccurrences
<1>2. Block!Outputs = {c \in Chan : Driven(c) /\ ~Read(c)}
  BY DEF Block!Outputs, Block!Driven, Block!Read, Driven, Read
<1>3. DOMAIN prog = 1..Len(prog)
  BY ProgType
<1> DEFINE A == UNION {{i} \X Block!Operands(prog[i]) : i \in DOMAIN prog}
           B == {0} \X Block!Outputs
<1>5. Block!Readers = A \cup B
  BY Zenon DEF Block!Readers
<1>6. r \in A <=> \E i \in 1..Len(prog) : \E p \in UsePorts(prog[i]) : r = <<i, p>>
  <2>1. r \in A <=> \E i \in DOMAIN prog : r \in {i} \X Block!Operands(prog[i])
    OBVIOUS
  <2>2. \A i : r \in {i} \X UsePorts(prog[i]) <=> \E p \in UsePorts(prog[i]) : r = <<i, p>>
    OBVIOUS
  <2> QED
    BY <1>1, <1>3, <2>1, <2>2
<1>7. r \in B <=> \E c \in Chan : Driven(c) /\ ~Read(c) /\ r = <<0, c>>
  BY <1>2
<1> HIDE DEF A, B
<1> QED
  BY <1>5, <1>6, <1>7

LEMMA ReaderFacts ==
  ASSUME Done, UnitsIn, NEW r \in Block!Readers
  PROVE  /\ Block!ChanOf(r) \in Chan /\ OnWay(Block!ChanOf(r), PortOf(r))
         /\ PortOf(r).kind \notin {"bufIn", "buf"}
         /\ r[1] = 0 => /\ r = <<0, Block!ChanOf(r)>> /\ PortOf(r) = Raw(Block!ChanOf(r))
                        /\ Driven(Block!ChanOf(r)) /\ ~Read(Block!ChanOf(r))
         /\ r[1] # 0 => LET i == r[1]
                            x == ProcessOf(i)
                        IN  /\ i \in 1..Len(prog) /\ i \in DOMAIN prog /\ x \in insts
                            /\ x.at = i /\ x.kind = UnitKind(prog[i])
                            /\ r = <<i, r[2]>> /\ r[2] \in DOMAIN x.ins /\ r[2] \in UsePorts(prog[i])
<1>0. prog \in Programs /\ DOMAIN prog = 1..Len(prog) /\ Len(prog) \in Nat
  BY ProgType DEF Done, AllInv, TypeOK
<1>1. CASE \E c \in Chan : Driven(c) /\ ~Read(c) /\ r = <<0, c>>
  <2>1. PICK c \in Chan : Driven(c) /\ ~Read(c) /\ r = <<0, c>>
    BY <1>1
  <2>2. Block!ChanOf(r) = c /\ r[1] = 0 /\ PortOf(r) = Raw(c)
    BY <2>1 DEF Block!ChanOf, PortOf
  <2>3. OnWay(c, Raw(c)) /\ Raw(c).kind = "raw"
    BY SourceOnWay, ReadNames
  <2> QED
    BY <2>1, <2>2, <2>3
<1>2. CASE \E i \in 1..Len(prog) : \E p \in UsePorts(prog[i]) : r = <<i, p>>
  <2>1. PICK i \in 1..Len(prog) : \E p \in UsePorts(prog[i]) : r = <<i, p>>
    BY <1>2
  <2>2. PICK p \in UsePorts(prog[i]) : r = <<i, p>>
    BY <2>1
  <2>3. PICK e, c : e = prog[i] /\ c = e.reads[p]
    OBVIOUS
  <2>4. c \in Chan /\ ~Bypassed(c)
    BY <1>0, <2>2, <2>3, ElementFacts, UsesFinite DEF Done, NothingBypassed
  <2>5. PICK x \in insts : x.at = i /\ x.kind = UnitKind(e)
    <3>1. next = Len(prog) + 1
      BY DEF Done, ClosedInv, ConvertersIn
    <3>2. i \in 1..(next - 1)
      BY <1>0, <3>1
    <3> QED
      BY <2>2, <2>3, <3>2 DEF UnitsIn, HasUnit, Done
  <2>6. ProcessOf(i) = x /\ DOMAIN x.ins = UsePorts(e)
    BY <2>2, <2>3, <2>5, ProcessIs, UnitRole DEF Done
  <2>7. PICK n : n = x.ins[p]
    OBVIOUS
  <2>8. OnWay(c, n) /\ n.kind \notin {"bufIn", "buf"}
    <3>1. CASE e.t = "sink"
      <4>1. x = Inst("sink", i, One(Raw(e.reads[1])), None)
        BY <2>3, <2>5, <3>1, UnitRole DEF Done
      <4>2. p = 1
        BY <2>2, <2>3, <2>6, <4>1, InstFields, OnePort
      <4>3. n = Raw(c)
        BY <2>3, <2>7, <4>1, <4>2, InstFields, OnePort
      <4> QED
        BY <2>4, <4>3, SourceOnWay, ReadNames
    <3>2. CASE e.t # "sink"
      <4>1. UnitShape(x, e)
        BY <2>3, <2>5, <3>2, UnitRole DEF Done
      <4>2. opUses[c] \in Nat
        <5>1. opUses[c] \in Nat \cup {NoEntry}
          BY <2>4 DEF Done, AllInv, TypeOK
        <5>2. opUses[c] # NoEntry
          BY <1>0, <2>2, <2>3, <2>4, UsedHere
        <5> QED
          BY <5>1, <5>2
      <4>3. PICK T : Trail(Raw(c), Source(c), T) /\ \A z \in T : z.kind \in {"onebuf", "init", "int_to_bool"}
        BY <2>4, SourceTrail
      <4>4. PICK U : Trail(n, Source(c), U)
        BY <2>2, <2>3, <2>4, <2>7, <4>1, <4>2, <4>3, OperandTrail DEF Done
      <4>5. OperandOf(n, c)
        BY <2>2, <2>3, <2>7, <4>1 DEF UnitShape
      <4>6. n \in Names /\ n.chan = c /\ n.kind \in {"raw", "toint", "copyout"}
        <5>1. CASE opUses[c] = 0
          BY <2>4, <4>5, <5>1 DEF OperandOf, ReadBase, Raw, ToInt, Names, Name
        <5>2. CASE opUses[c] # 0
          BY <2>4, <4>2, <4>5, <5>2 DEF OperandOf, CopyOut, Names, Name
        <5> QED
          BY <5>1, <5>2
      <4> QED
        BY <4>4, <4>6, TrailWay DEF Done
    <3> QED
      BY <3>1, <3>2
  <2>9. /\ r[1] = i /\ r[2] = p /\ i # 0 /\ i \in DOMAIN prog
        /\ Block!ChanOf(r) = c /\ PortOf(r) = n
    BY <1>0, <2>2, <2>3, <2>6, <2>7 DEF Block!ChanOf, PortOf
  <2> QED
    BY <2>2, <2>3, <2>4, <2>5, <2>6, <2>8, <2>9
<1> QED
  BY <1>0, <1>1, <1>2, ReaderForms

(* No other port reads there. *)
LEMMA ReaderOnly ==
  ASSUME Done, UnitsIn, NEW r \in Block!Readers, NEW x \in insts, NEW p \in DOMAIN x.ins,
         x.ins[p] = PortOf(r)
  PROVE  r[1] # 0 /\ x = ProcessOf(r[1]) /\ p = r[2]
<1>1. CASE r[1] = 0
  <2>1. PortOf(r) = Raw(Block!ChanOf(r)) /\ ~Read(Block!ChanOf(r))
    BY <1>1, ReaderFacts
  <2> QED
    BY <2>1, RawReader DEF Done
<1>2. CASE r[1] # 0
  <2>1. PICK y, q : y = ProcessOf(r[1]) /\ q = r[2]
    OBVIOUS
  <2>2. y \in insts /\ q \in DOMAIN y.ins /\ y.ins[q] = PortOf(r)
    BY <1>2, <2>1, ReaderFacts DEF PortOf
  <2>3. Block!ChanOf(r) \in Chan /\ OnWay(Block!ChanOf(r), PortOf(r))
    BY ReaderFacts
  <2>4. Direct(PortOf(r))
    BY <2>3, WayBack
  <2> QED
    BY <1>2, <2>1, <2>2, <2>4, OneReader DEF Done, Direct
<1> QED
  BY <1>1, <1>2

-----------------------------------------------------------------------------
(* The queues of the block, in the network. *)

(* What reader r has yet to get, of the tokens on the way to its port: a     *)
(* process that holds its input has sent it on already; the others have it.  *)
Left(x, gx, p, rest) ==
  IF p \notin DOMAIN gx THEN rest ELSE IF Chp!Holds(x) THEN Tail(rest) ELSE <<gx[p]>> \o rest

Arrives(off, g, r) ==
  IF r[1] = 0 THEN Tokens(insts, off, g, PortOf(r))
  ELSE Left(ProcessOf(r[1]), g[ProcessOf(r[1])], r[2], Tokens(insts, off, g, PortOf(r)))

(* The refinement mapping is Arrives, of this state and of the next. *)
LEMMA QueueIs ==
  /\ Running => Queue = [r \in Block!Readers |-> Arrives(offer, got, r)]
  /\ UNCHANGED vars /\ Running' => Queue' = [r \in Block!Readers |-> Arrives(offer', got', r)]
  /\ ~Running => Queue = Block!InitQueue
  /\ UNCHANGED prog /\ ~Running' => Queue' = Block!InitQueue
<1>1. Abstract!Readers = Block!Readers /\ Abstract!InitQueue = Block!InitQueue
  BY DEF Abstract!Readers, Block!Readers, Abstract!Operands, Block!Operands, Abstract!Outputs, Block!Outputs,
         Abstract!Driven, Block!Driven, Abstract!Read, Block!Read, Abstract!InitQueue, Block!InitQueue,
         Abstract!Initialised, Block!Initialised, Abstract!ChanOf, Block!ChanOf
<1>2. UNCHANGED prog => /\ Abstract!Readers' = Block!Readers
                        /\ Abstract!InitQueue' = Block!InitQueue
  BY DEF Abstract!Readers, Block!Readers, Abstract!Operands, Block!Operands, Abstract!Outputs, Block!Outputs,
         Abstract!Driven, Block!Driven, Abstract!Read, Block!Read, Abstract!InitQueue, Block!InitQueue,
         Abstract!Initialised, Block!Initialised, Abstract!ChanOf, Block!ChanOf
<1>3. ASSUME Running PROVE Queue = [r \in Block!Readers |-> Arrives(offer, got, r)]
  <2>1. ASSUME NEW r PROVE (IF r[1] = 0 THEN TokensTo(Raw(r[2])) ELSE TokensFor(r[1], r[2])) = Arrives(offer, got, r)
    <3>1. \A n : TokensTo(n) = Tokens(insts, offer, got, n)
      BY TokensAre
    <3> QED
      BY <3>1 DEF Arrives, Left, PortOf, TokensFor
  <2> QED
    BY <1>1, <1>3, <2>1 DEF Queue
<1>4. ASSUME UNCHANGED vars, Running' PROVE Queue' = [r \in Block!Readers |-> Arrives(offer', got', r)]
  <2>1. ASSUME NEW r PROVE (IF r[1] = 0 THEN TokensTo(Raw(r[2])) ELSE TokensFor(r[1], r[2]))' = Arrives(offer', got', r)
    <3>1. \A n : TokensTo(n)' = Tokens(insts, offer', got', n)
      BY <1>4, TokensAre DEF vars
    <3>2. \A i : ProcessOf(i)' = ProcessOf(i)
      BY <1>4 DEF ProcessOf, vars
    <3> QED
      BY <3>1, <3>2 DEF Arrives, Left, PortOf, TokensFor, Chp!Holds, Chp!Selections, Raw, Name
  <2>2. prog' = prog
    BY <1>4 DEF vars
  <2> QED
    BY <1>2, <1>4, <2>1, <2>2 DEF Queue
<1>5. ~Running => Queue = Block!InitQueue
  BY <1>1 DEF Queue
<1>6. UNCHANGED prog /\ ~Running' => Queue' = Block!InitQueue
  BY <1>2 DEF Queue
<1> QED
  BY <1>3, <1>4, <1>5, <1>6

LEMMA QueueStays ==
  ASSUME UNCHANGED vars, Running, Running',
         \A r \in Block!Readers : Arrives(offer', got', r) = Arrives(offer, got, r)
  PROVE  Queue' = Queue
<1>1. /\ Queue = [r \in Block!Readers |-> Arrives(offer, got, r)]
      /\ Queue' = [r \in Block!Readers |-> Arrives(offer', got', r)]
  BY QueueIs
<1> QED
  BY <1>1

(* When each reader in R loses its first token and the readers of each channel *)
(* sent on get one more, the block has moved so.                               *)
LEMMA QueueMoves ==
  ASSUME UNCHANGED vars, Running, Running', NEW R, R \subseteq Block!Readers, NEW tokens,
         \A r \in R : Arrives(offer, got, r) # <<>>,
         \A r \in Block!Readers :
           Arrives(offer', got', r)
             = (IF r \in R THEN Tail(Arrives(offer, got, r)) ELSE Arrives(offer, got, r))
                 \o (IF Block!ChanOf(r) \in DOMAIN tokens THEN <<tokens[Block!ChanOf(r)]>> ELSE <<>>)
  PROVE  Block!Move(R, tokens)
<1>1. /\ Queue = [r \in Block!Readers |-> Arrives(offer, got, r)]
      /\ Queue' = [r \in Block!Readers |-> Arrives(offer', got', r)]
  BY QueueIs
<1>2. \A r \in Block!Readers : Queue[r] = Arrives(offer, got, r)
  BY <1>1
<1>3. Queue' = [r \in Block!Readers |->
                  (IF r \in R THEN Tail(Queue[r]) ELSE Queue[r])
                    \o (IF Block!ChanOf(r) \in DOMAIN tokens THEN <<tokens[Block!ChanOf(r)]>> ELSE <<>>)]
  BY <1>1, <1>2
<1>4. \A r \in R : Queue[r] # <<>>
  BY <1>2
<1>5. UNCHANGED prog
  BY DEF vars
<1> QED
  BY <1>3, <1>4, <1>5 DEF Block!Move

(* The network runs what the translator has written. *)
Stands == NetInv /\ NothingBypassed /\ NothingCut /\ Running

LEMMA AllDirect ==
  ASSUME Done, NEW n
  PROVE  Direct(n)
<1>1. prog \in Programs /\ DOMAIN prog = 1..Len(prog)
  BY ProgType DEF Done, AllInv, TypeOK
<1>2. ASSUME Bypassed(n.chan) PROVE n.chan \in Chan
  <2>1. CASE Sunk(n.chan)
    <3>1. PICK i \in DOMAIN prog : prog[i].t = "sink" /\ prog[i].reads[1] = n.chan
      BY <2>1 DEF Sunk
    <3>2. DOMAIN prog[i].reads = {1}
      BY <1>1, <3>1, Arities
    <3>3. 1 \in DOMAIN prog[i].reads
      BY <3>2
    <3> QED
      BY <1>1, <3>1, <3>3, ElementFacts
  <2>2. CASE BoolCtrl(n.chan)
    BY <2>2, BoolAssumption DEF BoolCtrl
  <2> QED
    BY <1>2, <2>1, <2>2 DEF Bypassed
<1> QED
  BY <1>2 DEF Direct, Done, NothingBypassed

LEMMA OneEnd ==
  ASSUME Done, NEW x \in insts, NEW p \in DOMAIN x.ins, NEW y \in insts, NEW q \in DOMAIN y.ins,
         x.ins[p] = y.ins[q]
  PROVE  x = y /\ p = q
<1>1. PICK n : n = x.ins[p]
  OBVIOUS
<1>2. Direct(n)
  BY AllDirect
<1> QED
  BY <1>1, <1>2, OneReader DEF Done, Direct

LEMMA StandsMeans ==
  ASSUME Stands
  PROVE  /\ Done /\ UnitsIn /\ OwnInputs /\ ValueInv /\ AllInv
         /\ Offers(offer) /\ Fits(offer, got)
         /\ \A x \in insts : RoundOf(x, got[x])
         /\ \A x \in insts : Chp!Holds(x) => \A p \in DOMAIN got[x] : Chp!StillOffered(x, p)
<1>1. Done /\ UnitsIn /\ OwnInputs /\ ValueInv /\ AllInv /\ HeldOffered
  BY DEF Stands, NetInv, Done, Running, NetworkInv
<1>2. Offers(offer)
  BY <1>1 DEF ValueInv, Offers
<1>3. \A x \in insts : RoundOf(x, got[x])
  BY <1>1 DEF Stands, NetInv, RoundInv, OwnInputs
<1>4. \A x \in insts : Chp!Holds(x) => \A p \in DOMAIN got[x] : Chp!StillOffered(x, p)
  BY <1>1, AllDirect DEF HeldOffered
<1>5. ASSUME NEW x \in insts, x.kind \in Transparent, got[x] # Chp!Nothing
      PROVE  got[x][1] \in Value /\ (Chp!Holds(x) => x.ins[1] \in DOMAIN offer)
  <2>1. PICK gx : gx = got[x]
    OBVIOUS
  <2>2. gx = [p \in DOMAIN gx |-> gx[p]] /\ DOMAIN gx \subseteq {1}
    BY <1>1, <1>3, <1>5, <2>1, ViaPorts DEF RoundOf, OwnInputs
  <2>3. 1 \in DOMAIN gx
    BY <1>5, <2>1, <2>2 DEF Chp!Nothing
  <2>4. gx[1] \in Value
    BY <1>1, <2>1, <2>3 DEF ValueInv, OwnInputs
  <2> QED
    BY <1>4, <2>1, <2>3, <2>4 DEF Chp!StillOffered, Chp!Offered
<1> QED
  BY <1>1, <1>2, <1>3, <1>4, <1>5 DEF Fits

(* The tokens on the way to a reader. *)
LEMMA WayOf ==
  ASSUME Stands, NEW r \in Block!Readers, NEW m, m = PortOf(r)
  PROVE  /\ Tokens(insts, offer, got, m) \in Seq(Value)
         /\ m \in DOMAIN offer => /\ Tokens(insts, offer, got, m) # <<>>
                                  /\ Head(Tokens(insts, offer, got, m)) = offer[m]
         /\ \A x \in insts : x.kind \in Transparent => m # x.ins[1]
<1>1. Done /\ UnitsIn /\ Offers(offer) /\ Fits(offer, got)
  BY StandsMeans
<1>2. Block!ChanOf(r) \in Chan /\ OnWay(Block!ChanOf(r), m)
  BY <1>1, ReaderFacts
<1>3. ASSUME NEW x \in insts, x.kind \in Transparent, m = x.ins[1] PROVE FALSE
  <2>1. DOMAIN x.ins = {1}
    BY <1>1, <1>3, ViaPorts DEF Done
  <2>2. r[1] # 0 /\ x = ProcessOf(r[1])
    BY <1>1, <1>3, <2>1, ReaderOnly
  <2>3. PICK i : i = r[1]
    OBVIOUS
  <2>4. i \in 1..Len(prog) /\ x.kind = UnitKind(prog[i])
    BY <1>1, <2>2, <2>3, ReaderFacts
  <2>5. prog[i].t \in Kinds
    BY <1>1, <2>4, ElementFacts DEF Done, AllInv, TypeOK
  <2> QED
    BY <1>3, <2>4, <2>5 DEF UnitKind, Transparent, Kinds, FC
<1> QED
  BY <1>1, <1>2, <1>3, TokensType

-----------------------------------------------------------------------------
(* What a process of an element does to the queues. To receive a token, or   *)
(* to release one that was sent on, leaves them as they are.                 *)

LEMMA SameRead ==
  ASSUME Stands, NEW r \in Block!Readers, NEW x \in insts, NEW p \in DOMAIN x.ins
  PROVE  x.ins[p] = PortOf(r) <=> r[1] # 0 /\ x = ProcessOf(r[1]) /\ p = r[2]
<1>1. Done /\ UnitsIn
  BY StandsMeans
<1> QED
  BY <1>1, ReaderOnly DEF PortOf

(* Where nothing is cut, a process keeps what it received as it was.         *)
LEMMA StoredWhole ==
  ASSUME Stands, NEW x \in insts, ~Chp!Holds(x), NEW v \in Value
  PROVE  Chp!Stored(x, v) = v
<1>1. CASE x.kind = "arbiter"
  <2>1. Pipelined
    BY <1>1 DEF Chp!Holds, Chp!Selections
  <2>2. PICK w : w = Chp!ControlWidth(Cardinality(DOMAIN x.ins))
    OBVIOUS
  <2>3. AllInv
    BY StandsMeans
  <2>4. w \in Nat /\ v < Chp!Pow2[w]
    BY <1>1, <2>1, <2>2, <2>3, ArbiterWidth DEF Stands, NothingCut
  <2>5. v % Chp!Pow2[w] = v
    BY <2>4, PowersPositive, CutBelow, ValueAssumption
  <2> QED
    BY <1>1, <2>2, <2>5, CardinalityInLibrary DEF Chp!Stored
<1>2. CASE x.kind # "arbiter"
  BY <1>2 DEF Chp!Stored
<1> QED
  BY <1>1, <1>2

LEMMA ReceiveStutters ==
  ASSUME Stands, NEW x \in insts, x.kind \notin Transparent, NEW p \in DOMAIN x.ins,
         Chp!Receive(x, p), UNCHANGED vars
  PROVE  Queue' = Queue
<1>1. PICK n0, gx : n0 = x.ins[p] /\ gx = [q \in DOMAIN got[x] \cup {p} |-> IF q = p THEN offer[n0] ELSE got[x][q]]
  OBVIOUS
<1>2. /\ ~Chp!Holds(x) /\ p \in Chp!Wanted(x) /\ n0 \in DOMAIN offer
      /\ got' = [got EXCEPT ![x] = gx]
      /\ offer' = Chp!Without(offer, {n0})
  <2>1. ~Chp!Holds(x) /\ n0 \in DOMAIN offer
    BY <1>1 DEF Chp!Receive, Chp!Offered
  <2>2. Chp!Stored(x, offer[n0]) = offer[n0]
    BY <2>1, StandsMeans, StoredWhole DEF ValueInv
  <2> QED
    BY <1>1, <2>1, <2>2 DEF Chp!Receive
<1>3. p \notin DOMAIN got[x]
  BY <1>2 DEF Chp!Wanted, Chp!Nothing
<1>4. /\ Done /\ UnitsIn /\ OwnInputs /\ Offers(offer) /\ Fits(offer, got)
  BY StandsMeans
<1>5. got'[x] = gx /\ \A y \in insts : y # x => got'[y] = got[y]
  BY <1>2, <1>4 DEF OwnInputs
<1>6. DOMAIN offer' = DOMAIN offer \ {n0} /\ \A n \in DOMAIN offer' : offer'[n] = offer[n]
  BY <1>2 DEF Chp!Without
<1>7. ASSUME NEW y \in insts, y.kind \in Transparent PROVE got'[y] = got[y] /\ y.ins[1] \notin {n0}
  <2>1. DOMAIN y.ins = {1}
    BY <1>4, <1>7, ViaPorts DEF Done
  <2> QED
    BY <1>1, <1>4, <1>5, <1>7, <2>1, OneEnd
<1>8. ASSUME NEW r \in Block!Readers PROVE Arrives(offer', got', r) = Arrives(offer, got, r)
  <2>1. PICK m, T, U : m = PortOf(r) /\ T = Tokens(insts, offer, got, m) /\ U = Tokens(insts, offer', got', m)
    OBVIOUS
  <2>2. Block!ChanOf(r) \in Chan /\ OnWay(Block!ChanOf(r), m)
    BY <1>4, <2>1, ReaderFacts
  <2>3. U = IF m \in {n0} THEN Tail(T) ELSE T
    <3>1. PICK off2, g2 : off2 = offer' /\ g2 = got'
      OBVIOUS
    <3>2. {n0} \subseteq DOMAIN offer
      BY <1>2
    <3>3. DOMAIN off2 = DOMAIN offer \ {n0} /\ \A n \in DOMAIN off2 : off2[n] = offer[n]
      BY <1>6, <3>1
    <3>4. \A y \in insts : y.kind \in Transparent => g2[y] = got[y] /\ y.ins[1] \notin {n0}
      BY <1>7, <3>1
    <3>5. TakenOff(offer, got, {n0}, off2, g2)
      BY <1>4, <3>2, <3>3, <3>4 DEF TakenOff
    <3>6. Tokens(insts, off2, g2, m) = IF m \in {n0} THEN Tail(Tokens(insts, offer, got, m))
                                       ELSE Tokens(insts, offer, got, m)
      BY <1>4, <2>2, <3>5, TokensTaken
    <3> QED
      BY <2>1, <3>1, <3>6
  <2>4. T \in Seq(Value) /\ (m \in DOMAIN offer => T # <<>> /\ Head(T) = offer[m])
    BY <2>1, WayOf
  <2>5. CASE m = n0
    <3>1. r[1] # 0 /\ x = ProcessOf(r[1]) /\ p = r[2]
      BY <1>1, <2>1, <2>5, SameRead
    <3>2. Arrives(offer, got, r) = T
      BY <1>3, <2>1, <3>1 DEF Arrives, Left
    <3>3. Arrives(offer', got', r) = <<gx[p]>> \o U
      BY <1>1, <1>2, <1>5, <2>1, <3>1 DEF Arrives, Left
    <3>4. gx[p] = Head(T) /\ U = Tail(T) /\ T # <<>>
      BY <1>1, <1>2, <2>3, <2>4, <2>5
    <3>5. <<Head(T)>> \o Tail(T) = T
      BY <2>4, <3>4, HeadAndTail
    <3> QED
      BY <3>2, <3>3, <3>4, <3>5
  <2>6. CASE m # n0
    <3>1. U = T
      BY <2>3, <2>6
    <3>2. CASE r[1] = 0
      BY <2>1, <3>1, <3>2 DEF Arrives
    <3>3. CASE r[1] # 0
      <4>1. PICK z, q : z = ProcessOf(r[1]) /\ q = r[2]
        OBVIOUS
      <4>2. z \in insts
        BY <1>4, <3>3, <4>1, ReaderFacts
      <4>3. z = x => q # p
        BY <1>1, <2>1, <2>6, <3>3, <4>1, SameRead
      <4>4. Left(z, got'[z], q, T) = Left(z, got[z], q, T)
        BY <1>1, <1>5, <4>2, <4>3 DEF Left
      <4> QED
        BY <2>1, <3>1, <3>3, <4>1, <4>4 DEF Arrives
    <3> QED
      BY <3>2, <3>3
  <2> QED
    BY <2>5, <2>6
<1>9. Running /\ Running'
  BY <1>2 DEF Stands, Running, vars
<1> QED
  BY <1>8, <1>9, QueueStays

LEMMA ReleaseStutters ==
  ASSUME Stands, NEW x \in insts, x.kind \notin Transparent, Chp!Release(x), UNCHANGED vars
  PROVE  Queue' = Queue
<1>1. PICK R : R = {x.ins[p] : p \in DOMAIN got[x]}
  OBVIOUS
<1>2. /\ Chp!Holds(x)
      /\ got' = [got EXCEPT ![x] = Chp!Nothing]
      /\ offer' = Chp!Without(offer, R)
  BY <1>1 DEF Chp!Release
<1>4. /\ Done /\ UnitsIn /\ OwnInputs /\ Offers(offer) /\ Fits(offer, got)
  BY StandsMeans
<1>3. R \subseteq DOMAIN offer
  BY <1>1, <1>2, StandsMeans DEF Chp!StillOffered, Chp!Offered
<1>5. got'[x] = Chp!Nothing /\ \A y \in insts : y # x => got'[y] = got[y]
  BY <1>2, <1>4 DEF OwnInputs
<1>6. DOMAIN offer' = DOMAIN offer \ R /\ \A n \in DOMAIN offer' : offer'[n] = offer[n]
  BY <1>2 DEF Chp!Without
<1>7. ASSUME NEW y \in insts, y.kind \in Transparent PROVE got'[y] = got[y] /\ y.ins[1] \notin R
  <2>1. DOMAIN y.ins = {1}
    BY <1>4, <1>7, ViaPorts DEF Done
  <2>2. \A p \in DOMAIN got[x] : p \in DOMAIN x.ins
    BY <1>4 DEF OwnInputs
  <2> QED
    BY <1>1, <1>4, <1>5, <1>7, <2>1, <2>2, OneEnd
<1>8. ASSUME NEW r \in Block!Readers PROVE Arrives(offer', got', r) = Arrives(offer, got, r)
  <2>1. PICK m, T, U : m = PortOf(r) /\ T = Tokens(insts, offer, got, m) /\ U = Tokens(insts, offer', got', m)
    OBVIOUS
  <2>2. Block!ChanOf(r) \in Chan /\ OnWay(Block!ChanOf(r), m)
    BY <1>4, <2>1, ReaderFacts
  <2>3. U = IF m \in R THEN Tail(T) ELSE T
    <3>1. PICK off2, g2 : off2 = offer' /\ g2 = got'
      OBVIOUS
    <3>2. R \subseteq DOMAIN offer
      BY <1>3
    <3>3. DOMAIN off2 = DOMAIN offer \ R /\ \A n \in DOMAIN off2 : off2[n] = offer[n]
      BY <1>6, <3>1
    <3>4. \A y \in insts : y.kind \in Transparent => g2[y] = got[y] /\ y.ins[1] \notin R
      BY <1>7, <3>1
    <3>5. TakenOff(offer, got, R, off2, g2)
      BY <1>4, <3>2, <3>3, <3>4 DEF TakenOff
    <3>6. Tokens(insts, off2, g2, m) = IF m \in R THEN Tail(Tokens(insts, offer, got, m))
                                       ELSE Tokens(insts, offer, got, m)
      BY <1>4, <2>2, <3>5, TokensTaken
    <3> QED
      BY <2>1, <3>1, <3>6
  <2>4. m \in R <=> r[1] # 0 /\ x = ProcessOf(r[1]) /\ r[2] \in DOMAIN got[x]
    <3>1. \A p \in DOMAIN got[x] : x.ins[p] = m <=> r[1] # 0 /\ x = ProcessOf(r[1]) /\ p = r[2]
      BY <1>4, <2>1, SameRead DEF OwnInputs
    <3> QED
      BY <1>1, <3>1
  <2>5. CASE r[1] = 0
    BY <2>1, <2>3, <2>4, <2>5 DEF Arrives
  <2>6. CASE r[1] # 0 /\ x = ProcessOf(r[1])
    <3>1. DOMAIN got'[x] = {}
      BY <1>5 DEF Chp!Nothing
    <3>2. Arrives(offer', got', r) = U
      BY <2>1, <2>6, <3>1 DEF Arrives, Left
    <3>3. Arrives(offer, got, r) = IF r[2] \in DOMAIN got[x] THEN Tail(T) ELSE T
      BY <1>2, <2>1, <2>6 DEF Arrives, Left
    <3> QED
      BY <2>3, <2>4, <2>6, <3>2, <3>3
  <2>7. CASE r[1] # 0 /\ x # ProcessOf(r[1])
    <3>1. ProcessOf(r[1]) \in insts
      BY <1>4, <2>7, ReaderFacts
    <3> QED
      BY <1>5, <2>1, <2>3, <2>4, <2>7, <3>1 DEF Arrives
  <2> QED
    BY <2>5, <2>6, <2>7
<1>9. Running /\ Running'
  BY <1>2 DEF Stands, Running, vars
<1> QED
  BY <1>8, <1>9, QueueStays

(* What x sends, by name: on the name of each output that is sent, its value. *)
LEMMA OneName ==
  ASSUME Done, NEW x \in insts, NEW o \in DOMAIN x.outs, NEW y \in insts, NEW q \in DOMAIN y.outs,
         x.outs[o] = y.outs[q]
  PROVE  x = y /\ o = q
<1>1. PICK n : n = x.outs[o]
  OBVIOUS
<1>2. Direct(n)
  BY AllDirect
<1> QED
  BY <1>1, <1>2, OneWriter DEF Done, Direct

LEMMA OfferingIs ==
  ASSUME Done, NEW x \in insts, NEW vals, NEW sends, sends = Chp!Sends(x, vals),
         DOMAIN sends \subseteq DOMAIN x.outs, NEW out, out = Chp!Offering(x, vals)
  PROVE  /\ \A n : n \in DOMAIN out <=> \E o \in DOMAIN sends : x.outs[o] = n
         /\ \A o \in DOMAIN sends : out[x.outs[o]] = sends[o] /\ Ahead(out, x.outs[o]) = <<sends[o]>>
         /\ \A n : (\A o \in DOMAIN sends : x.outs[o] # n) => Ahead(out, n) = <<>>
<1>1. out = [n \in {x.outs[o] : o \in DOMAIN sends} |-> sends[CHOOSE o \in DOMAIN sends : x.outs[o] = n]]
  BY DEF Chp!Offering
<1>2. ASSUME NEW o \in DOMAIN sends PROVE out[x.outs[o]] = sends[o] /\ x.outs[o] \in DOMAIN out
  <2>1. PICK q : q = CHOOSE d \in DOMAIN sends : x.outs[d] = x.outs[o]
    OBVIOUS
  <2>2. q \in DOMAIN sends /\ x.outs[q] = x.outs[o]
    BY <2>1
  <2>3. q = o
    BY <2>2, OneName
  <2> QED
    BY <1>1, <2>1, <2>3
<1>3. \A n : n \in DOMAIN out <=> \E o \in DOMAIN sends : x.outs[o] = n
  BY <1>1
<1> QED
  BY <1>2, <1>3 DEF Ahead

(* A process of an element begins the sends of a round that uses the inputs S. *)
SendAs(x, S, vals, out) ==
  /\ ~Chp!Sending(x) /\ (Chp!Holds(x) => got[x] = Chp!Nothing)
  /\ S \in Chp!Rounds(x, Chp!Seen(x)) /\ vals = Chp!Only(Chp!Seen(x), S) /\ DOMAIN vals = S
  /\ out = Chp!Offering(x, vals)
  /\ offer' = [n \in DOMAIN offer \cup DOMAIN out |-> IF n \in DOMAIN out THEN out[n] ELSE offer[n]]
  /\ got' = [got EXCEPT ![x] = IF Chp!Holds(x) THEN vals ELSE Chp!Nothing]

LEMMA SendIs ==
  ASSUME NEW x, Chp!Send(x)
  PROVE  \E S, vals, out : SendAs(x, S, vals, out)
<1>1. ASSUME NEW S \in Chp!Rounds(x, Chp!Seen(x)), NEW vals, vals = Chp!Only(Chp!Seen(x), S), NEW out,
             out = Chp!Offering(x, vals), DOMAIN vals = S,
             offer' = [n \in DOMAIN offer \cup DOMAIN out |-> IF n \in DOMAIN out THEN out[n] ELSE offer[n]],
             got' = [got EXCEPT ![x] = IF Chp!Holds(x) THEN vals ELSE Chp!Nothing]
      PROVE  SendAs(x, S, vals, out)
  BY <1>1 DEF Chp!Send, SendAs
<1> QED
  BY <1>1 DEF Chp!Send

(* It sends values it has received, on outputs of its own, where nothing was *)
(* offered.                                                                  *)
LEMMA SendFacts ==
  ASSUME Stands, NEW x \in insts, x.kind \notin Transparent, NEW S, NEW vals, NEW out, SendAs(x, S, vals, out)
  PROVE  /\ S \subseteq DOMAIN x.ins /\ \A p \in S : vals[p] \in Value
         /\ DOMAIN Chp!Sends(x, vals) \subseteq DOMAIN x.outs
         /\ \A o \in DOMAIN Chp!Sends(x, vals) : Chp!Sends(x, vals)[o] \in Value
         /\ got'[x] = IF Chp!Holds(x) THEN vals ELSE Chp!Nothing
         /\ \A y \in insts : y # x => got'[y] = got[y]
         /\ Sent(offer, got, out, offer', got')
<1>1. Done /\ UnitsIn /\ OwnInputs /\ ValueInv /\ AllInv /\ Offers(offer) /\ Fits(offer, got)
  BY StandsMeans
<1>2. PICK seen : seen = Chp!Seen(x)
  OBVIOUS
<1>3. S \in Chp!Rounds(x, seen) /\ vals = Chp!Only(seen, S) /\ DOMAIN vals = S
  BY <1>2 DEF SendAs
<1>4. DOMAIN seen \subseteq DOMAIN x.ins
  BY <1>1, <1>2, SeenPorts
<1>5. \A p \in DOMAIN seen : seen[p] \in Value
  <2>1. CASE Chp!Holds(x)
    BY <1>1, <1>2, <2>1, SeenPorts DEF ValueInv, Chp!Offered
  <2>2. CASE ~Chp!Holds(x)
    BY <1>1, <1>2, <2>2 DEF ValueInv, OwnInputs, Chp!Seen
  <2> QED
    BY <2>1, <2>2
<1>6. S \subseteq DOMAIN x.ins /\ \A p \in S : vals[p] \in Value
  BY <1>3, <1>4, <1>5 DEF Chp!Only
<1>7. PICK sends : sends = Chp!Sends(x, vals)
  OBVIOUS
<1>8. DOMAIN sends \subseteq DOMAIN x.outs
  BY <1>1, <1>3, <1>4, <1>7, SendsWithin
<1>9. \A o \in DOMAIN sends : sends[o] \in Value
  BY <1>1, <1>3, <1>4, <1>5, <1>7, SendsValues
<1>10. /\ got'[x] = IF Chp!Holds(x) THEN vals ELSE Chp!Nothing
       /\ \A y \in insts : y # x => got'[y] = got[y]
  BY <1>1 DEF OwnInputs, SendAs
<1>11. /\ \A n : n \in DOMAIN out <=> \E o \in DOMAIN sends : x.outs[o] = n
       /\ \A o \in DOMAIN sends : out[x.outs[o]] = sends[o]
  <2>1. out = Chp!Offering(x, vals)
    BY DEF SendAs
  <2> QED
    BY <1>1, <1>7, <1>8, <2>1, OfferingIs
<1>12. ASSUME NEW n \in DOMAIN out PROVE n \notin DOMAIN offer /\ FeedsOf(insts, n) = {} /\ out[n] \in Value
  <2>1. PICK o \in DOMAIN sends : n = x.outs[o]
    BY <1>11
  <2>2. n \notin DOMAIN offer
    BY <1>8, <2>1 DEF SendAs, Chp!Sending, Chp!Offered
  <2>3. ASSUME NEW y \in FeedsOf(insts, n) PROVE FALSE
    <3>1. y \in insts /\ y.kind \in Transparent /\ \E q \in DOMAIN y.outs : y.outs[q] = n
      BY <2>3, InFeeds
    <3> QED
      BY <1>1, <1>8, <2>1, <3>1, OneName
  <2> QED
    BY <1>9, <1>11, <2>1, <2>2, <2>3
<1>13. /\ DOMAIN offer' = DOMAIN offer \cup DOMAIN out
       /\ \A n \in DOMAIN offer' : offer'[n] = IF n \in DOMAIN out THEN out[n] ELSE offer[n]
  BY DEF SendAs
<1>14. \A y \in insts : y.kind \in Transparent => got'[y] = got[y]
  BY <1>10
<1>15. Sent(offer, got, out, offer', got')
  BY <1>1, <1>12, <1>13, <1>14 DEF Sent
<1> QED
  BY <1>6, <1>7, <1>8, <1>9, <1>10, <1>15

Leaves(x, gx, p, s) == p \in DOMAIN gx => gx[p] \in Value /\ (Chp!Holds(x) => s # <<>>)

LEMMA LeftMore ==
  ASSUME NEW x, NEW gx, NEW p, NEW s \in Seq(Value), NEW t \in Seq(Value), Leaves(x, gx, p, s)
  PROVE  Left(x, gx, p, s \o t) = Left(x, gx, p, s) \o t
<1> p \in DOMAIN gx => gx[p] \in Value /\ (Chp!Holds(x) => s # <<>>)
  BY DEF Leaves
<1>1. CASE p \notin DOMAIN gx
  BY <1>1 DEF Left
<1>2. CASE p \in DOMAIN gx /\ Chp!Holds(x)
  BY <1>2, Behind, HeadAndTail DEF Left
<1>3. CASE p \in DOMAIN gx /\ ~Chp!Holds(x)
  <2>1. PICK v : v = gx[p]
    OBVIOUS
  <2>2. v \in Value /\ <<v>> \in Seq(Value)
    BY <1>3, <2>1
  <2>3. <<v>> \o (s \o t) = (<<v>> \o s) \o t /\ <<v>> \o s \in Seq(Value)
    BY <2>2, ConcatAssociative, InFront
  <2> QED
    BY <1>3, <2>1, <2>3 DEF Left
<1> QED
  BY <1>1, <1>2, <1>3

(* The readers of the process get their tokens, and what is sent on a       *)
(* channel is queued for every reader of it.                                *)
Delivers(x, S, vals, r, A, more, B) ==
  IF r[1] # 0 /\ x = ProcessOf(r[1]) /\ r[2] \in S
  THEN A # <<>> /\ Head(A) = vals[r[2]] /\ B = Tail(A) \o more
  ELSE B = A \o more

LEMMA SendArrives ==
  ASSUME Stands, NEW x \in insts, x.kind \notin Transparent, NEW S, NEW vals, NEW out,
         SendAs(x, S, vals, out), NEW r \in Block!Readers
  PROVE  Delivers(x, S, vals, r, Arrives(offer, got, r), Ahead(out, Source(Block!ChanOf(r))),
                Arrives(offer', got', r))
<1> PICK A, B, more : /\ A = Arrives(offer, got, r) /\ B = Arrives(offer', got', r)
                      /\ more = Ahead(out, Source(Block!ChanOf(r)))
  OBVIOUS
<1> SUFFICES IF r[1] # 0 /\ x = ProcessOf(r[1]) /\ r[2] \in S
             THEN A # <<>> /\ Head(A) = vals[r[2]] /\ B = Tail(A) \o more
             ELSE B = A \o more
  BY DEF Delivers
<1>1. PICK m, T, U : m = PortOf(r) /\ T = Tokens(insts, offer, got, m) /\ U = Tokens(insts, offer', got', m)
  OBVIOUS
<1>2. Done /\ UnitsIn /\ OwnInputs /\ ValueInv
  BY StandsMeans
<1>3. /\ S \subseteq DOMAIN x.ins /\ \A p \in S : vals[p] \in Value
      /\ got'[x] = IF Chp!Holds(x) THEN vals ELSE Chp!Nothing
      /\ \A y \in insts : y # x => got'[y] = got[y]
  BY SendFacts
<1>4. DOMAIN vals = S /\ (Chp!Holds(x) => got[x] = Chp!Nothing)
  BY DEF SendAs
<1>5. more \in Seq(Value)
  <2>1. Sent(offer, got, out, offer', got')
    BY SendFacts
  <2>2. Offers(out)
    BY <2>1 DEF Sent, Offers
  <2> QED
    BY <2>2, AheadType, EmptySeq
<1>6. T \in Seq(Value) /\ (m \in DOMAIN offer => T # <<>> /\ Head(T) = offer[m])
  BY <1>1, WayOf
<1>7. U = T \o more
  <2>1. PICK off2, g2, c : off2 = offer' /\ g2 = got' /\ c = Block!ChanOf(r)
    OBVIOUS
  <2>2. Sent(offer, got, out, off2, g2)
    BY <2>1, SendFacts
  <2>3. c \in Chan /\ OnWay(c, m)
    BY <1>1, <1>2, <2>1, ReaderFacts
  <2>4. Tokens(insts, off2, g2, m) = Tokens(insts, offer, got, m) \o Ahead(out, Source(c))
    BY <1>2, <2>2, <2>3, TokensSent
  <2> QED
    BY <1>1, <2>1, <2>4
<1>8. CASE r[1] = 0
  BY <1>1, <1>7, <1>8 DEF Arrives
<1>9. CASE r[1] # 0
  <2>1. PICK z, q : z = ProcessOf(r[1]) /\ q = r[2]
    OBVIOUS
  <2>2. z \in insts /\ q \in DOMAIN z.ins /\ m = z.ins[q]
    BY <1>1, <1>2, <1>9, <2>1, ReaderFacts DEF PortOf
  <2>3. A = Left(z, got[z], q, T)
    BY <1>1, <1>9, <2>1 DEF Arrives
  <2>4. B = Left(z, got'[z], q, U)
    BY <1>1, <1>9, <2>1 DEF Arrives
  <2>5. q \in DOMAIN got[z] => got[z][q] \in Value /\ (Chp!Holds(z) => T # <<>>)
    BY <1>2, <1>6, <2>2, StandsMeans DEF ValueInv, OwnInputs, Chp!StillOffered, Chp!Offered
  <2>6. Left(z, got[z], q, T \o more) = Left(z, got[z], q, T) \o more
    <3>1. PICK gz : gz = got[z]
      OBVIOUS
    <3>2. Leaves(z, gz, q, T)
      BY <2>5, <3>1 DEF Leaves
    <3>3. PICK s, t : s = T /\ t = more
      OBVIOUS
    <3>4. s \in Seq(Value) /\ t \in Seq(Value) /\ Leaves(z, gz, q, s)
      BY <1>5, <1>6, <3>2, <3>3
    <3>5. Left(z, gz, q, s \o t) = Left(z, gz, q, s) \o t
      BY <3>4, LeftMore
    <3> QED
      BY <3>1, <3>3, <3>5
  <2>7. CASE z # x
    BY <1>3, <1>7, <2>1, <2>2, <2>3, <2>4, <2>6, <2>7
  <2>8. CASE z = x /\ Chp!Holds(x)
    <3>1. A = T
      BY <1>4, <2>3, <2>8 DEF Left, Chp!Nothing
    <3>2. B = IF q \in S THEN Tail(T \o more) ELSE T \o more
      BY <1>3, <1>4, <1>7, <2>4, <2>8 DEF Left
    <3>3. ASSUME q \in S PROVE T # <<>> /\ Head(T) = vals[q]
      <4>1. vals[q] = Chp!Seen(x)[q] /\ q \in DOMAIN Chp!Seen(x)
        BY <1>4, <3>3 DEF SendAs, Chp!Only
      <4> QED
        BY <1>2, <1>6, <2>2, <2>8, <4>1, SeenPorts DEF Chp!Offered
    <3>4. CASE q \in S
      <4>1. Tail(T \o more) = Tail(T) \o more
        BY <1>5, <1>6, <3>3, <3>4, Behind
      <4> QED
        BY <2>1, <2>8, <1>9, <3>1, <3>2, <3>3, <3>4, <4>1
    <3>5. CASE q \notin S
      BY <2>1, <2>8, <3>1, <3>2, <3>5
    <3> QED
      BY <3>4, <3>5
  <2>9. CASE z = x /\ ~Chp!Holds(x)
    <3>1. PICK gx : gx = got[x]
      OBVIOUS
    <3>2. vals = Chp!Only(gx, S) /\ S \in Chp!Rounds(x, gx)
      BY <2>9, <3>1 DEF SendAs, Chp!Seen
    <3>3. S \subseteq DOMAIN gx /\ \A p \in S : vals[p] = gx[p]
      BY <1>4, <3>2 DEF Chp!Only
    <3>4. DOMAIN gx \subseteq S
      <4>1. RoundOf(x, gx) /\ DOMAIN gx \subseteq DOMAIN x.ins
        BY <1>2, <3>1, StandsMeans DEF OwnInputs
      <4>2. CASE x.kind \in {"mixer", "arbiter"}
        <5>1. \E p : DOMAIN gx \subseteq {p}
          BY <4>1, <4>2 DEF RoundOf
        <5>2. S # {}
          BY <3>2, <4>2 DEF Chp!Rounds
        <5> QED
          BY <3>3, <5>1, <5>2
      <4>3. CASE x.kind = "merge"
        <5>1. S = {1, gx[1] + 2} /\ 1 \in DOMAIN gx
          BY <3>2, <4>3 DEF Chp!Rounds
        <5> QED
          BY <4>1, <4>3, <5>1 DEF RoundOf
      <4>4. CASE x.kind \notin {"merge", "mixer", "arbiter"}
        <5>1. S = DOMAIN x.ins
          BY <3>2, <4>4 DEF Chp!Rounds
        <5> QED
          BY <4>1, <5>1
      <4> QED
        BY <4>2, <4>3, <4>4
    <3>5. A = IF q \in S THEN <<vals[q]>> \o T ELSE T
      BY <2>3, <2>9, <3>1, <3>3, <3>4 DEF Left
    <3>6. B = T \o more
      BY <1>3, <1>7, <2>4, <2>9 DEF Left, Chp!Nothing
    <3>7. ASSUME q \in S PROVE <<vals[q]>> \o T # <<>> /\ Head(<<vals[q]>> \o T) = vals[q] /\ Tail(<<vals[q]>> \o T) = T
      BY <1>3, <1>6, <3>7, InFront
    <3>8. CASE q \in S
      BY <1>9, <2>1, <2>9, <3>5, <3>6, <3>7, <3>8
    <3>9. CASE q \notin S
      BY <2>1, <2>9, <3>5, <3>6, <3>9
    <3> QED
      BY <3>8, <3>9
  <2> QED
    BY <2>7, <2>8, <2>9
<1> QED
  BY <1>8, <1>9

(* The values sent, by channel of the block, are those offered at the start *)
(* of each channel's way.                                                   *)
LEMMA ByChannelIs ==
  ASSUME Done, NEW x \in insts, NEW i \in 1..Len(prog), x.at = i, x.kind = UnitKind(prog[i]),
         NEW vals, NEW sends, sends = Chp!Sends(x, vals), DOMAIN sends \subseteq DOMAIN x.outs,
         NEW out, out = Chp!Offering(x, vals), NEW tokens, tokens = Block!ByChannel(i, sends), NEW c \in Chan
  PROVE  Ahead(out, Source(c)) = IF c \in DOMAIN tokens THEN <<tokens[c]>> ELSE <<>>
<1>1. PICK sent : sent = {o \in DOMAIN sends : prog[i].outs[o].chan # Null}
  OBVIOUS
<1>2. tokens = [d \in {prog[i].outs[o].chan : o \in sent} |->
                  sends[CHOOSE o \in sent : prog[i].outs[o].chan = d]]
  BY <1>1 DEF Block!ByChannel
<1>3. c \in DOMAIN tokens <=> \E o \in sent : prog[i].outs[o].chan = c
  BY <1>2
<1>4. ASSUME NEW o \in DOMAIN sends PROVE x.outs[o] = Source(c) <=> prog[i].outs[o].chan = c
  <2>1. prog[i].t # "sink"
    BY <1>4, UnitRole, InstFields DEF None, Done
  <2> QED
    BY <1>4, <2>1, UnitRole, SourceOut DEF Done
<1>5. CASE \E o \in DOMAIN sends : prog[i].outs[o].chan = c
  <2>1. PICK o \in DOMAIN sends : prog[i].outs[o].chan = c
    BY <1>5
  <2>2. c # Null
    BY NullAssumption
  <2>3. o \in sent
    BY <1>1, <2>1, <2>2
  <2>4. x.outs[o] = Source(c)
    BY <1>4, <2>1
  <2>5. Ahead(out, x.outs[o]) = <<sends[o]>>
    BY <2>1, OfferingIs
  <2>6. PICK q : q = CHOOSE d \in sent : prog[i].outs[d].chan = c
    OBVIOUS
  <2>7. q \in DOMAIN sends /\ prog[i].outs[q].chan = c
    BY <1>1, <2>1, <2>3, <2>6
  <2>8. q = o
    BY <1>4, <2>4, <2>7, OneName
  <2>9. c \in DOMAIN tokens /\ tokens[c] = sends[o]
    <3>1. c \in DOMAIN tokens
      BY <1>3, <2>1, <2>3
    <3>2. tokens[c] = sends[CHOOSE d \in sent : prog[i].outs[d].chan = c]
      BY <1>2, <3>1
    <3> QED
      BY <2>6, <2>8, <3>1, <3>2
  <2> QED
    BY <2>4, <2>5, <2>9
<1>6. CASE ~ \E o \in DOMAIN sends : prog[i].outs[o].chan = c
  <2>1. \A o \in DOMAIN sends : x.outs[o] # Source(c)
    BY <1>4, <1>6
  <2>2. Ahead(out, Source(c)) = <<>>
    BY <2>1, OfferingIs
  <2>3. c \notin DOMAIN tokens
    BY <1>1, <1>3, <1>6
  <2> QED
    BY <2>2, <2>3
<1> QED
  BY <1>5, <1>6

LEMMA UnitPlain ==
  ASSUME AllInv, NEW i \in 1..Len(prog)
  PROVE  UnitKind(prog[i]) \notin Transparent /\ prog[i].t \in Kinds /\ i \in DOMAIN prog /\ i # 0
<1>1. prog[i].t \in Kinds /\ i \in DOMAIN prog
  BY ElementFacts DEF AllInv, TypeOK
<1> QED
  BY <1>1 DEF UnitKind, Transparent, Kinds, FC

LEMMA ArrivesType ==
  ASSUME Stands, NEW r \in Block!Readers
  PROVE  Arrives(offer, got, r) \in Seq(Value)
<1>1. PICK m, T : m = PortOf(r) /\ T = Tokens(insts, offer, got, m)
  OBVIOUS
<1>2. Done /\ UnitsIn /\ OwnInputs /\ ValueInv
  BY StandsMeans
<1>3. T \in Seq(Value) /\ (m \in DOMAIN offer => T # <<>>)
  BY <1>1, WayOf
<1>4. CASE r[1] = 0
  BY <1>1, <1>3, <1>4 DEF Arrives
<1>5. CASE r[1] # 0
  <2>1. PICK z, q, gz : z = ProcessOf(r[1]) /\ q = r[2] /\ gz = got[z]
    OBVIOUS
  <2>2. z \in insts /\ q \in DOMAIN z.ins /\ m = z.ins[q]
    BY <1>1, <1>2, <1>5, <2>1, ReaderFacts DEF PortOf
  <2>3. q \in DOMAIN gz => gz[q] \in Value /\ (Chp!Holds(z) => T # <<>>)
    BY <1>2, <1>3, <2>1, <2>2, StandsMeans DEF ValueInv, OwnInputs, Chp!StillOffered, Chp!Offered
  <2>4. Left(z, gz, q, T) \in Seq(Value)
    <3>1. CASE q \notin DOMAIN gz
      BY <1>3, <3>1 DEF Left
    <3>2. CASE q \in DOMAIN gz /\ Chp!Holds(z)
      BY <1>3, <2>3, <3>2, HeadAndTail DEF Left
    <3>3. CASE q \in DOMAIN gz /\ ~Chp!Holds(z)
      BY <1>3, <2>3, <3>3, InFront DEF Left
    <3> QED
      BY <3>1, <3>2, <3>3
  <2> QED
    BY <1>1, <1>5, <2>1, <2>4 DEF Arrives
<1> QED
  BY <1>4, <1>5

(* Reader r is one of the inputs S of process x. *)
Takes(x, S, r) == r[1] # 0 /\ x = ProcessOf(r[1]) /\ r[2] \in S

(* What is sent comes last in the queues of those that take nothing. *)
LEMMA SentArrives ==
  ASSUME Stands, NEW out, NEW off2, NEW g2, Sent(offer, got, out, off2, g2),
         \A x \in insts : g2[x] = got[x], NEW r \in Block!Readers
  PROVE  Arrives(off2, g2, r) = Arrives(offer, got, r) \o Ahead(out, Source(Block!ChanOf(r)))
<1>1. PICK m, T, U, more : /\ m = PortOf(r) /\ more = Ahead(out, Source(Block!ChanOf(r)))
                           /\ T = Tokens(insts, offer, got, m) /\ U = Tokens(insts, off2, g2, m)
  OBVIOUS
<1>2. Done /\ UnitsIn /\ OwnInputs /\ ValueInv
  BY StandsMeans
<1>3. T \in Seq(Value) /\ (m \in DOMAIN offer => T # <<>>)
  BY <1>1, WayOf
<1>4. more \in Seq(Value)
  <2>1. Offers(out)
    BY DEF Sent, Offers
  <2> QED
    BY <1>1, <2>1, AheadType, EmptySeq
<1>5. U = T \o more
  <2>1. PICK c : c = Block!ChanOf(r)
    OBVIOUS
  <2>2. c \in Chan /\ OnWay(c, m)
    BY <1>1, <1>2, <2>1, ReaderFacts
  <2>3. Tokens(insts, off2, g2, m) = Tokens(insts, offer, got, m) \o Ahead(out, Source(c))
    BY <1>2, <2>2, TokensSent
  <2> QED
    BY <1>1, <2>1, <2>3
<1>6. CASE r[1] = 0
  BY <1>1, <1>5, <1>6 DEF Arrives
<1>7. CASE r[1] # 0
  <2>1. PICK z, q, gz : z = ProcessOf(r[1]) /\ q = r[2] /\ gz = got[z]
    OBVIOUS
  <2>2. z \in insts /\ q \in DOMAIN z.ins /\ m = z.ins[q]
    BY <1>1, <1>2, <1>7, <2>1, ReaderFacts DEF PortOf
  <2>3. Leaves(z, gz, q, T)
    BY <1>2, <1>3, <2>1, <2>2, StandsMeans DEF ValueInv, OwnInputs, Chp!StillOffered, Chp!Offered, Leaves
  <2>4. PICK s, t : s = T /\ t = more
    OBVIOUS
  <2>5. s \in Seq(Value) /\ t \in Seq(Value) /\ Leaves(z, gz, q, s)
    BY <1>3, <1>4, <2>3, <2>4
  <2>6. Left(z, gz, q, s \o t) = Left(z, gz, q, s) \o t
    BY <2>5, LeftMore
  <2>7. Arrives(offer, got, r) = Left(z, gz, q, T) /\ Arrives(off2, g2, r) = Left(z, gz, q, U)
    BY <1>1, <1>7, <2>1, <2>2 DEF Arrives
  <2> QED
    BY <1>1, <1>5, <2>4, <2>6, <2>7
<1> QED
  BY <1>6, <1>7

(* A process with the inputs S that sends out moves the tokens of the block. *)
Moves(x, S, out, R, tokens) ==
  /\ R \subseteq Block!Readers /\ \A r \in Block!Readers : r \in R <=> Takes(x, S, r)
  /\ \A c \in Chan : Ahead(out, Source(c)) = IF c \in DOMAIN tokens THEN <<tokens[c]>> ELSE <<>>

LEMMA SentMoves ==
  ASSUME Stands, NEW x \in insts, x.kind \notin Transparent, NEW S, NEW vals, NEW out,
         SendAs(x, S, vals, out), UNCHANGED vars, NEW R, NEW tokens, Moves(x, S, out, R, tokens)
  PROVE  /\ Block!Move(R, tokens)
         /\ \A r \in R : Queue[r] # <<>> /\ Head(Queue[r]) = vals[r[2]]
<1> /\ R \subseteq Block!Readers /\ \A r \in Block!Readers : r \in R <=> Takes(x, S, r)
    /\ \A c \in Chan : Ahead(out, Source(c)) = IF c \in DOMAIN tokens THEN <<tokens[c]>> ELSE <<>>
  BY DEF Moves
<1>1. Done /\ UnitsIn
  BY StandsMeans
<1>2. ASSUME NEW r \in Block!Readers
      PROVE  /\ r \in R => Arrives(offer, got, r) # <<>> /\ Head(Arrives(offer, got, r)) = vals[r[2]]
             /\ Arrives(offer', got', r)
                  = (IF r \in R THEN Tail(Arrives(offer, got, r)) ELSE Arrives(offer, got, r))
                      \o (IF Block!ChanOf(r) \in DOMAIN tokens THEN <<tokens[Block!ChanOf(r)]>> ELSE <<>>)
  <2>1. PICK A, B, more, c : /\ A = Arrives(offer, got, r) /\ B = Arrives(offer', got', r)
                             /\ c = Block!ChanOf(r) /\ more = Ahead(out, Source(c))
    OBVIOUS
  <2>2. Delivers(x, S, vals, r, A, more, B)
    BY <2>1, SendArrives
  <2>3. c \in Chan
    BY <1>1, <2>1, ReaderFacts
  <2>4. more = IF c \in DOMAIN tokens THEN <<tokens[c]>> ELSE <<>>
    BY <2>1, <2>3
  <2>5. CASE r \in R
    BY <2>1, <2>2, <2>4, <2>5 DEF Delivers, Takes
  <2>6. CASE r \notin R
    BY <2>1, <2>2, <2>4, <2>6 DEF Delivers, Takes
  <2> QED
    BY <2>5, <2>6
<1>3. Running /\ Running'
  BY DEF Stands, Running, vars, SendAs
<1>4. Block!Move(R, tokens)
  BY <1>2, <1>3, QueueMoves
<1>5. ASSUME NEW r \in R PROVE Queue[r] # <<>> /\ Head(Queue[r]) = vals[r[2]]
  <2>1. r \in Block!Readers
    OBVIOUS
  <2>2. Queue[r] = Arrives(offer, got, r)
    BY <1>3, <2>1, QueueIs
  <2> QED
    BY <1>2, <2>1, <2>2
<1> QED
  BY <1>4, <1>5

(* A process that no reader stands for, and that sends on no channel. *)
LEMMA SendStutters ==
  ASSUME Stands, NEW x \in insts, x.kind \notin Transparent, NEW S, NEW vals, NEW out,
         SendAs(x, S, vals, out), UNCHANGED vars,
         \A r \in Block!Readers : ~Takes(x, S, r), \A c \in Chan : Ahead(out, Source(c)) = <<>>
  PROVE  Queue' = Queue
<1>1. Done /\ UnitsIn
  BY StandsMeans
<1>2. ASSUME NEW r \in Block!Readers PROVE Arrives(offer', got', r) = Arrives(offer, got, r)
  <2>1. PICK A, B, more : /\ A = Arrives(offer, got, r) /\ B = Arrives(offer', got', r)
                          /\ more = Ahead(out, Source(Block!ChanOf(r)))
    OBVIOUS
  <2>2. Delivers(x, S, vals, r, A, more, B)
    BY <2>1, SendArrives
  <2>3. B = A \o more
    BY <2>2 DEF Delivers, Takes
  <2>4. more = <<>>
    BY <1>1, <2>1, ReaderFacts
  <2>5. A \in Seq(Value)
    BY <2>1, ArrivesType
  <2> QED
    BY <2>1, <2>3, <2>4, <2>5, ConcatEmptySeq
<1>3. Running /\ Running'
  BY DEF Stands, Running, vars, SendAs
<1> QED
  BY <1>2, <1>3, QueueStays

(* Each of the operands S of element i has the token it took first in its queue. *)
Ready(i, S, vals) ==
  \A p \in S : /\ p \in UsePorts(prog[i]) /\ vals[p] \in Value
               /\ Queue[<<i, p>>] # <<>> /\ Head(Queue[<<i, p>>]) = vals[p]

(* The process of element i consumes operands of i and sends outputs of i. *)
LEMMA SendMoves ==
  ASSUME Stands, NEW x \in insts, NEW i \in 1..Len(prog), x.at = i, x.kind = UnitKind(prog[i]),
         NEW S, NEW vals, NEW out, SendAs(x, S, vals, out), UNCHANGED vars
  PROVE  /\ Block!Move({i} \X S, Block!ByChannel(i, Chp!Sends(x, vals)))
         /\ Ready(i, S, vals)
<1>1. Done /\ UnitsIn /\ AllInv /\ OwnInputs
  BY StandsMeans
<1>2. x.kind \notin Transparent /\ i # 0
  BY <1>1, UnitPlain
<1>3. DOMAIN x.ins = UsePorts(prog[i])
  BY <1>1, UnitRole
<1>4. /\ S \subseteq DOMAIN x.ins /\ \A p \in S : vals[p] \in Value
      /\ DOMAIN Chp!Sends(x, vals) \subseteq DOMAIN x.outs
  BY <1>2, SendFacts
<1>5. PICK tokens, R : tokens = Block!ByChannel(i, Chp!Sends(x, vals)) /\ R = {i} \X S
  OBVIOUS
<1>6. ASSUME NEW p \in S PROVE <<i, p>> \in Block!Readers /\ ProcessOf(i) = x
  <2>1. prog \in Programs
    BY <1>1 DEF AllInv, TypeOK
  <2>2. p \in UsePorts(prog[i])
    BY <1>3, <1>4
  <2> QED
    BY <1>1, <2>1, <2>2, ReaderForms, ProcessIs
<1>7. ASSUME NEW r \in Block!Readers PROVE r \in R <=> Takes(x, S, r)
  <2>1. ASSUME r \in R PROVE Takes(x, S, r)
    <3>1. r[1] = i /\ r[2] \in S
      BY <1>5, <2>1
    <3> QED
      BY <1>2, <1>6, <3>1 DEF Takes
  <2>2. ASSUME Takes(x, S, r) PROVE r \in R
    <3>1. PICK j : j = r[1]
      OBVIOUS
    <3>2. x.at = j /\ r = <<j, r[2]>> /\ r[2] \in S
      BY <1>1, <2>2, <3>1, ReaderFacts DEF Takes
    <3>3. r = <<i, r[2]>>
      BY <3>2
    <3> QED
      BY <1>5, <3>2, <3>3
  <2> QED
    BY <2>1, <2>2
<1>8. ASSUME NEW c \in Chan
      PROVE  Ahead(out, Source(c)) = IF c \in DOMAIN tokens THEN <<tokens[c]>> ELSE <<>>
  <2>1. out = Chp!Offering(x, vals)
    BY DEF SendAs
  <2>2. PICK sends : sends = Chp!Sends(x, vals)
    OBVIOUS
  <2> QED
    BY <1>1, <1>4, <1>5, <2>1, <2>2, ByChannelIs
<1>9. R \subseteq Block!Readers
  BY <1>5, <1>6
<1>10. Block!Move(R, tokens) /\ \A r \in R : Queue[r] # <<>> /\ Head(Queue[r]) = vals[r[2]]
  <2>1. Moves(x, S, out, R, tokens)
    BY <1>7, <1>8, <1>9 DEF Moves
  <2> QED
    BY <1>2, <2>1, SentMoves
<1>11. ASSUME NEW p \in S PROVE Queue[<<i, p>>] # <<>> /\ Head(Queue[<<i, p>>]) = vals[p]
  <2>1. PICK r : r = <<i, p>>
    OBVIOUS
  <2>2. r \in R /\ r[2] = p
    BY <1>5, <2>1
  <2> QED
    BY <1>10, <2>1, <2>2
<1> QED
  BY <1>3, <1>4, <1>5, <1>10, <1>11 DEF Ready

-----------------------------------------------------------------------------
(* A process of an element that begins its sends is a firing of the element. *)

LEMMA OperandsAre == \A e : Block!Operands(e) = UsePorts(e)
BY DEF Block!Operands, UsePorts, FirstOccurrences

LEMMA FireIs ==
  ASSUME NEW i, NEW S, NEW sends, Block!Firing(S, sends) \in Block!Firings(i),
         Block!Move({i} \X S, Block!ByChannel(i, sends))
  PROVE  Block!Fire(i)
<1>1. PICK f : f = Block!Firing(S, sends)
  OBVIOUS
<1>2. f.reads = S /\ f.outs = sends
  BY <1>1 DEF Block!Firing
<1>3. f \in Block!Firings(i) /\ Block!Move({i} \X f.reads, Block!ByChannel(i, f.outs))
  BY <1>1, <1>2
<1> QED
  BY <1>3 DEF Block!Fire

LEMMA ReadyMeans ==
  ASSUME NEW i, NEW S, NEW vals, Ready(i, S, vals), NEW p \in S
  PROVE  p \in Block!Waiting(i) /\ Block!First(i, p) = vals[p]
<1>1. p \in Block!Operands(prog[i])
  BY OperandsAre DEF Ready
<1> QED
  BY <1>1 DEF Ready, Block!Waiting, Block!First

(* For each kind of element, what its process does in a round is a firing. *)
LEMMA UnitFires ==
  ASSUME AllInv, NEW x \in insts, NEW i \in 1..Len(prog), x.at = i, x.kind = UnitKind(prog[i]),
         prog[i].t \in FC, Calcs(prog[i]) # {},
         NEW S, NEW vals, Ready(i, S, vals), S = DOMAIN x.ins, vals = [p \in S |-> vals[p]]
  PROVE  Block!Firing(S, Chp!Sends(x, vals)) \in Block!Firings(i)
<1>1. PICK e : e = prog[i]
  OBVIOUS
<1>2. x.kind = "fu" /\ DOMAIN x.outs = Calcs(e) /\ S = UsePorts(e) /\ e.t # "sink"
  BY <1>1, UnitRole DEF UnitKind, UnitShape, UnitOuts, FC
<1>3. Block!Operands(e) = S
  BY <1>2, OperandsAre
<1>4. Block!Waiting(i) = Block!Operands(e)
  BY <1>1, <1>3, ReadyMeans DEF Block!Waiting
<1>5. [p \in Block!Operands(e) |-> Block!First(i, p)] = vals
  BY <1>3, ReadyMeans
<1>6. Chp!Sends(x, vals) = [o \in Calcs(e) |-> Eval(o, vals)]
  BY <1>2 DEF Chp!Sends
<1>7. Calcs(e) = {o \in DOMAIN e.outs : e.outs[o].expr = "calc"}
  BY DEF Calcs
<1>8. Block!FuncFirings(i)
        = {Block!Firing(Block!Operands(e), [o \in Calcs(e) |-> Eval(o, vals)])}
  BY <1>1, <1>4, <1>5, <1>7 DEF Block!FuncFirings
<1>9. Block!Firings(i) = Block!FuncFirings(i)
  BY <1>1 DEF Block!Firings, FC
<1> QED
  BY <1>3, <1>6, <1>8, <1>9

LEMMA SplitFires ==
  ASSUME AllInv, NEW x \in insts, NEW i \in 1..Len(prog), x.at = i, x.kind = UnitKind(prog[i]),
         prog[i].t = "split", NEW seen, NEW S, NEW vals, Ready(i, S, vals),
         S \in Chp!Rounds(x, seen), vals = Chp!Only(seen, S), DOMAIN vals = S
  PROVE  Block!Firing(S, Chp!Sends(x, vals)) \in Block!Firings(i)
<1>1. PICK e : e = prog[i]
  OBVIOUS
<1>2. x.kind = "split" /\ DOMAIN x.outs = DOMAIN e.outs /\ DOMAIN x.ins = UsePorts(e)
  BY <1>1, UnitRole DEF UnitKind, UnitShape, UnitOuts, FC
<1>3. DOMAIN x.ins = {1, 2}
  BY <1>2, KindPorts
<1>4. S = {1, 2} /\ seen[2] + 1 \in DOMAIN e.outs
  BY <1>2, <1>3 DEF Chp!Rounds
<1>5. vals[2] = seen[2]
  BY <1>4 DEF Chp!Only
<1>6. /\ 1 \in Block!Waiting(i) /\ Block!First(i, 1) = vals[1]
      /\ 2 \in Block!Waiting(i) /\ Block!First(i, 2) = vals[2]
  BY <1>4, ReadyMeans
<1>7. Block!Waiting(i) = {1, 2}
  BY <1>1, <1>2, <1>3, <1>6, OperandsAre DEF Block!Waiting
<1>8. Chp!Sends(x, vals) = [o \in {vals[2] + 1} |-> vals[1]]
  BY <1>2 DEF Chp!Sends
<1>9. Block!SplitFirings(i) = {Block!Firing({1, 2}, [o \in {vals[2] + 1} |-> vals[1]])}
  BY <1>1, <1>4, <1>5, <1>6, <1>7 DEF Block!SplitFirings
<1>10. Block!Firings(i) = Block!SplitFirings(i)
  BY <1>1 DEF Block!Firings
<1> QED
  BY <1>4, <1>8, <1>9, <1>10

LEMMA MergeFires ==
  ASSUME AllInv, NEW x \in insts, NEW i \in 1..Len(prog), x.at = i, x.kind = UnitKind(prog[i]),
         prog[i].t = "merge", NEW seen, NEW S, NEW vals, Ready(i, S, vals),
         S \in Chp!Rounds(x, seen), vals = Chp!Only(seen, S), DOMAIN vals = S
  PROVE  Block!Firing(S, Chp!Sends(x, vals)) \in Block!Firings(i)
<1>1. x.kind = "merge"
  BY DEF UnitKind, FC
<1>2. S = {1, seen[1] + 2}
  BY <1>1 DEF Chp!Rounds
<1>3. vals[1] = seen[1]
  BY <1>2 DEF Chp!Only
<1>4. PICK p : p = vals[1] + 2
  OBVIOUS
<1>5. S = {1, p}
  BY <1>2, <1>3, <1>4
<1>6. /\ 1 \in Block!Waiting(i) /\ Block!First(i, 1) = vals[1]
      /\ p \in Block!Waiting(i) /\ Block!First(i, p) = vals[p]
  BY <1>5, ReadyMeans
<1>7. p # 1
  <2>1. vals[1] \in Value
    BY <1>5 DEF Ready
  <2>2. vals[1] \in Nat
    BY <2>1, ValueAssumption
  <2> QED
    BY <1>4, <2>2
<1>8. Chp!Sends(x, vals) = [o \in {1} |-> vals[p]]
  BY <1>1, <1>4 DEF Chp!Sends
<1>9. Block!Firing({1, p}, [o \in {1} |-> vals[p]]) \in Block!MergeFirings(i)
  BY <1>4, <1>6, <1>7 DEF Block!MergeFirings
<1>10. Block!Firings(i) = Block!MergeFirings(i)
  BY DEF Block!Firings
<1> QED
  BY <1>5, <1>8, <1>9, <1>10

LEMMA MixerFires ==
  ASSUME NEW x \in insts, NEW i \in 1..Len(prog), x.at = i, x.kind = UnitKind(prog[i]),
         prog[i].t \in {"mixer", "arbiter"}, NEW seen, NEW S, NEW vals, Ready(i, S, vals),
         S \in Chp!Rounds(x, seen), DOMAIN vals = S
  PROVE  Block!Firing(S, Chp!Sends(x, vals)) \in Block!Firings(i)
<1>1. x.kind \in {"mixer", "arbiter"}
  BY DEF UnitKind, FC
<1>2. PICK p : S = {p}
  BY <1>1 DEF Chp!Rounds
<1>3. p \in Block!Waiting(i) /\ Block!First(i, p) = vals[p]
  BY <1>2, ReadyMeans
<1>4. Chp!Sends(x, vals) = <<vals[p], p - 1>>
  <2>1. (CHOOSE q \in DOMAIN vals : TRUE) = p
    BY <1>2
  <2> QED
    BY <1>1, <2>1 DEF Chp!Sends
<1>5. Block!Firing({p}, <<vals[p], p - 1>>) \in Block!MixerFirings(i)
  BY <1>3 DEF Block!MixerFirings
<1>6. Block!Firings(i) = Block!MixerFirings(i)
  BY DEF Block!Firings
<1> QED
  BY <1>2, <1>4, <1>5, <1>6

LEMMA SinkFires ==
  ASSUME AllInv, NEW x \in insts, NEW i \in 1..Len(prog), x.at = i, x.kind = UnitKind(prog[i]),
         prog[i].t = "sink", NEW S, NEW vals, Ready(i, S, vals), S = DOMAIN x.ins
  PROVE  Block!Firing(S, Chp!Sends(x, vals)) \in Block!Firings(i)
<1>1. x = Inst("sink", i, One(Raw(prog[i].reads[1])), None)
  BY UnitRole
<1>2. x.kind = "sink" /\ x.outs = None /\ S = {1}
  BY <1>1, InstFields, OnePort
<1>3. 1 \in Block!Waiting(i)
  BY <1>2, ReadyMeans
<1>4. Chp!Sends(x, vals) = <<>>
  <2>1. Chp!Sends(x, vals) = [o \in DOMAIN x.outs |-> vals[1]]
    BY <1>2 DEF Chp!Sends
  <2>2. DOMAIN x.outs = {}
    BY <1>2 DEF None
  <2> QED
    BY <2>1, <2>2
<1>5. Block!Firing({1}, <<>>) \in Block!SinkFirings(i)
  BY <1>3 DEF Block!SinkFirings
<1>6. Block!Firings(i) = Block!SinkFirings(i)
  BY DEF Block!Firings
<1> QED
  BY <1>2, <1>4, <1>5, <1>6

(* What a process may use of its inputs, it has received or still sees.     *)
LEMMA SendFires ==
  ASSUME Stands, NEW x \in insts, NEW i \in 1..Len(prog), x.at = i, x.kind = UnitKind(prog[i]),
         Chp!Send(x), UNCHANGED vars
  PROVE  Block!Fire(i) \/ Queue' = Queue
<1>1. PICK S, vals, out : SendAs(x, S, vals, out)
  BY SendIs
<1>2. PICK seen : seen = Chp!Seen(x)
  OBVIOUS
<1>3. S \in Chp!Rounds(x, seen) /\ vals = Chp!Only(seen, S) /\ DOMAIN vals = S
  BY <1>1, <1>2 DEF SendAs
<1>4. Done /\ UnitsIn /\ AllInv
  BY StandsMeans
<1>5. x.kind \notin Transparent /\ prog[i].t \in Kinds /\ i \in DOMAIN prog /\ i # 0
  BY <1>4, UnitPlain
<1>6. DOMAIN x.ins = UsePorts(prog[i])
  BY <1>4, UnitRole
<1>7. PICK sends : sends = Chp!Sends(x, vals)
  OBVIOUS
<1>8. Block!Move({i} \X S, Block!ByChannel(i, sends)) /\ Ready(i, S, vals)
  <2>1. Block!Move({i} \X S, Block!ByChannel(i, Chp!Sends(x, vals)))
    BY <1>1, SendMoves
  <2>2. Ready(i, S, vals)
    BY <1>1, SendMoves
  <2> QED
    BY <1>7, <2>1, <2>2
<1>9. CASE Block!Firing(S, sends) \in Block!Firings(i)
  BY <1>8, <1>9, FireIs
<1>10. vals = [p \in S |-> vals[p]]
  BY <1>3 DEF Chp!Only
<1>11. CASE prog[i].t \in FC /\ Calcs(prog[i]) = {}
  <2>1. x.kind = "fu" /\ DOMAIN x.outs = {}
    BY <1>4, <1>11, UnitRole DEF UnitKind, UnitShape, UnitOuts, FC
  <2>2. UsePorts(prog[i]) = {}
    <3>1. prog \in Programs
      BY <1>4 DEF AllInv, TypeOK
    <3>2. prog[i].reads = <<>>
      BY <1>11, <3>1, Arities
    <3> QED
      BY <3>2 DEF UsePorts, FirstOccurrences
  <2>3. DOMAIN sends = {}
    BY <1>7, <2>1 DEF Chp!Sends
  <2>4. out = Chp!Offering(x, vals)
    BY <1>1 DEF SendAs
  <2>5. \A c \in Chan : Ahead(out, Source(c)) = <<>>
    BY <1>4, <1>7, <2>3, <2>4, OfferingIs
  <2>6. S = {}
    BY <1>1, <1>5, <1>6, <2>2, SendFacts
  <2>7. \A r \in Block!Readers : ~Takes(x, S, r)
    BY <2>6 DEF Takes
  <2> QED
    BY <1>1, <1>5, <2>5, <2>7, SendStutters
<1>12. CASE prog[i].t \in FC /\ Calcs(prog[i]) # {}
  <2>1. S = DOMAIN x.ins
    <3>1. x.kind = "fu"
      BY <1>12 DEF UnitKind
    <3> QED
      BY <1>3, <3>1 DEF Chp!Rounds
  <2> QED
    BY <1>4, <1>7, <1>8, <1>9, <1>10, <1>12, <2>1, UnitFires
<1>13. CASE prog[i].t = "split"
  BY <1>3, <1>4, <1>7, <1>8, <1>9, <1>13, SplitFires
<1>14. CASE prog[i].t = "merge"
  BY <1>3, <1>4, <1>7, <1>8, <1>9, <1>14, MergeFires
<1>15. CASE prog[i].t \in {"mixer", "arbiter"}
  BY <1>3, <1>7, <1>8, <1>9, <1>15, MixerFires
<1>16. CASE prog[i].t = "sink"
  <2>1. S = DOMAIN x.ins
    <3>1. x.kind = "sink"
      BY <1>16 DEF UnitKind, FC
    <3> QED
      BY <1>3, <3>1 DEF Chp!Rounds
  <2> QED
    BY <1>4, <1>7, <1>8, <1>9, <1>16, <2>1, SinkFires
<1> QED
  BY <1>5, <1>11, <1>12, <1>13, <1>14, <1>15, <1>16 DEF Kinds, FC

(* A constant output is sent by a process of its own. *)
LEMMA SendsConst ==
  ASSUME Stands, NEW x \in insts, NEW i \in 1..Len(prog), x.at = i, SourceShape(x, prog[i]),
         Chp!Send(x), UNCHANGED vars
  PROVE  Block!SendConst(i)
<1>1. PICK S, vals, out : SendAs(x, S, vals, out)
  BY SendIs
<1>2. Done /\ UnitsIn /\ AllInv
  BY StandsMeans
<1>3. x.kind = "source" /\ DOMAIN x.ins = {} /\ DOMAIN x.outs = {1}
  BY <1>2, SourceConst
<1>4. PICK o \in DOMAIN prog[i].outs :
        /\ prog[i].outs[o].expr = "const" /\ prog[i].outs[o].chan \in Chan
        /\ \A c \in Chan : x.outs[1] = Source(c) <=> prog[i].outs[o].chan = c
  BY <1>2, SourceConst
<1>5. x.kind \notin Transparent
  BY <1>3 DEF Transparent
<1>6. S = {}
  BY <1>1, <1>3, <1>5, SendFacts
<1>7. PICK d, sends, tokens : /\ d = prog[i].outs[o].chan /\ sends = [q \in {o} |-> ConstValue]
                              /\ tokens = Block!ByChannel(i, sends)
  OBVIOUS
<1>8. d \in Chan /\ d # Null
  BY <1>4, <1>7, NullAssumption
<1>9. DOMAIN tokens = {d} /\ tokens[d] = ConstValue
  <2>1. PICK sent : sent = {q \in DOMAIN sends : prog[i].outs[q].chan # Null}
    OBVIOUS
  <2>2. sent = {o}
    BY <1>7, <1>8, <2>1
  <2>3. tokens = [c \in {prog[i].outs[q].chan : q \in sent} |->
                    sends[CHOOSE q \in sent : prog[i].outs[q].chan = c]]
    BY <1>7, <2>1 DEF Block!ByChannel
  <2>4. {prog[i].outs[q].chan : q \in sent} = {d}
    BY <1>7, <2>2
  <2>5. (CHOOSE q \in sent : prog[i].outs[q].chan = d) = o
    BY <1>7, <2>2
  <2>6. sends[o] = ConstValue
    BY <1>7
  <2>7. DOMAIN tokens = {d}
    BY <2>3, <2>4
  <2>8. tokens[d] = sends[CHOOSE q \in sent : prog[i].outs[q].chan = d]
    BY <2>3, <2>4
  <2> QED
    BY <2>5, <2>6, <2>7, <2>8
<1>10. PICK sent : sent = Chp!Sends(x, vals)
  OBVIOUS
<1>11. DOMAIN sent = {1} /\ sent[1] = ConstValue
  BY <1>3, <1>10 DEF Chp!Sends
<1>12. ASSUME NEW c \in Chan
       PROVE  Ahead(out, Source(c)) = IF c \in DOMAIN tokens THEN <<tokens[c]>> ELSE <<>>
  <2>1. out = Chp!Offering(x, vals)
    BY <1>1 DEF SendAs
  <2>2. /\ Ahead(out, x.outs[1]) = <<sent[1]>>
        /\ \A n : x.outs[1] # n => Ahead(out, n) = <<>>
    BY <1>2, <1>3, <1>10, <1>11, <2>1, OfferingIs
  <2>3. x.outs[1] = Source(c) <=> d = c
    BY <1>4, <1>7
  <2> QED
    BY <1>9, <1>11, <2>2, <2>3
<1>13. PICK R : R = {}
  OBVIOUS
<1>14. Moves(x, S, out, R, tokens)
  BY <1>6, <1>12, <1>13 DEF Moves, Takes
<1>15. Block!Move({}, tokens)
  BY <1>1, <1>5, <1>13, <1>14, SentMoves
<1> QED
  BY <1>4, <1>7, <1>15 DEF Block!SendConst

(* A null output ends in a sink of its own. *)
LEMMA SpareStutters ==
  ASSUME Stands, NEW x \in insts, NEW i \in 1..Len(prog), x.at = i, SinkShape(x, prog[i]),
         prog[i].t # "sink", Chp!Send(x), UNCHANGED vars
  PROVE  Queue' = Queue
<1>1. PICK S, vals, out : SendAs(x, S, vals, out)
  BY SendIs
<1>2. Done /\ UnitsIn /\ AllInv
  BY StandsMeans
<1>3. PICK k \in Nat : x = Inst("sink", x.at, One(Name(Spare(prog[i]), Null, k)), None)
  BY DEF SinkShape
<1>4. x.kind = "sink" /\ DOMAIN x.outs = {}
  BY <1>3, InstFields DEF None
<1>5. x.kind \notin Transparent /\ x.kind # UnitKind(prog[i])
  BY <1>4 DEF Transparent, UnitKind
<1>6. PICK sends : sends = Chp!Sends(x, vals)
  OBVIOUS
<1>7. DOMAIN sends = {}
  BY <1>4, <1>6 DEF Chp!Sends
<1>8. out = Chp!Offering(x, vals)
  BY <1>1 DEF SendAs
<1>9. \A c \in Chan : Ahead(out, Source(c)) = <<>>
  BY <1>2, <1>6, <1>7, <1>8, OfferingIs
<1>10. ASSUME NEW r \in Block!Readers, Takes(x, S, r) PROVE FALSE
  <2>1. r[1] # 0 /\ x = ProcessOf(r[1])
    BY <1>10 DEF Takes
  <2>2. PICK j : j = r[1]
    OBVIOUS
  <2>3. x.at = j /\ x.kind = UnitKind(prog[j])
    BY <1>2, <2>1, <2>2, ReaderFacts
  <2> QED
    BY <1>5, <2>3
<1> QED
  BY <1>1, <1>5, <1>9, <1>10, SendStutters

(* To receive or release changes no queue, whatever process does it. *)
LEMMA SharedStutters ==
  ASSUME Stands, NEW x \in insts, x.kind \notin Transparent, UNCHANGED vars,
         (\E p \in DOMAIN x.ins : Chp!Receive(x, p)) \/ Chp!Release(x)
  PROVE  Queue' = Queue
BY ReceiveStutters, ReleaseStutters

(* A step of a process of element i. *)
LEMMA ElementStep ==
  ASSUME Stands, NEW x \in insts, NEW i \in 1..Len(prog), x.at = i, x.kind \notin Transparent,
         Chp!Step(x), UNCHANGED vars
  PROVE  Block!Fire(i) \/ Block!SendConst(i) \/ Queue' = Queue
<1>1. Done /\ UnitsIn /\ AllInv
  BY StandsMeans
<1>2. CASE ~Chp!Send(x)
  BY <1>2, SharedStutters DEF Chp!Step
<1>3. CASE Chp!Send(x)
  <2>1. i # 0 /\ prog[i].t \in Kinds
    BY <1>1, UnitPlain
  <2>2. \A c : x # CopyInst(c) /\ x # ToIntInst(c) /\ x # ToBoolInst(c)
    BY <2>1, InstFields DEF CopyInst, ToIntInst, ToBoolInst
  <2>3. \A o, k : ~BuffAt(x, o, k)
    BY StageFields DEF BuffAt, Transparent
  <2>4. UnitShape(x, prog[i]) \/ SourceShape(x, prog[i]) \/ SinkShape(x, prog[i])
    BY <1>1, <2>2, <2>3, Roles
  <2>5. CASE UnitShape(x, prog[i])
    <3>1. x.kind = UnitKind(prog[i])
      BY <2>5 DEF UnitShape
    <3> QED
      BY <1>3, <3>1, SendFires
  <2>6. CASE SourceShape(x, prog[i])
    BY <1>3, <2>6, SendsConst
  <2>7. CASE SinkShape(x, prog[i]) /\ prog[i].t # "sink"
    BY <1>3, <2>7, SpareStutters
  <2>8. CASE SinkShape(x, prog[i]) /\ prog[i].t = "sink"
    <3>1. x.kind = UnitKind(prog[i])
      BY <2>8, InstFields DEF SinkShape, UnitKind, FC
    <3> QED
      BY <1>3, <3>1, SendFires
  <2> QED
    BY <2>4, <2>5, <2>6, <2>7, <2>8
<1> QED
  BY <1>2, <1>3

-----------------------------------------------------------------------------
(* The environment sends on the inputs and reads the outputs.               *)

(* A token put on an input is queued for all its readers. *)
LEMMA PutMoves ==
  ASSUME Stands, NEW c \in Chan, NEW v \in Value, EnvPut(c, v)
  PROVE  c \in Block!Inputs /\ Block!Put(c, v)
<1>1. /\ Read(c) /\ ~Driven(c) /\ Raw(c) \notin DOMAIN offer
      /\ offer' = [m \in DOMAIN offer \cup {Raw(c)} |-> IF m = Raw(c) THEN v ELSE offer[m]]
      /\ got' = got /\ UNCHANGED vars
  BY DEF EnvPut, Chp!Put, Chp!Offered
<1>2. Done /\ UnitsIn /\ Offers(offer) /\ Fits(offer, got)
  BY StandsMeans
<1>3. Source(c) = Raw(c) /\ FeedsOf(insts, Raw(c)) = {}
  BY <1>1, <1>2, SourceInput, SourceOnWay
<1>4. PICK n, out : n = Raw(c) /\ out = [m \in {n} |-> v]
  OBVIOUS
<1>5. Sent(offer, got, out, offer', got')
  <2>1. \A m \in DOMAIN out : m \notin DOMAIN offer /\ FeedsOf(insts, m) = {} /\ out[m] \in Value
    BY <1>1, <1>3, <1>4
  <2>2. /\ DOMAIN offer' = DOMAIN offer \cup DOMAIN out
        /\ \A m \in DOMAIN offer' : offer'[m] = IF m \in DOMAIN out THEN out[m] ELSE offer[m]
    BY <1>1, <1>4
  <2>3. \A x \in insts : x.kind \in Transparent => got'[x] = got[x]
    BY <1>1
  <2> QED
    BY <1>2, <2>1, <2>2, <2>3 DEF Sent
<1>6. PICK tokens, R : tokens = [d \in {c} |-> v] /\ R = {}
  OBVIOUS
<1>7. ASSUME NEW r \in Block!Readers
      PROVE  Arrives(offer', got', r)
               = (IF r \in R THEN Tail(Arrives(offer, got, r)) ELSE Arrives(offer, got, r))
                   \o (IF Block!ChanOf(r) \in DOMAIN tokens THEN <<tokens[Block!ChanOf(r)]>> ELSE <<>>)
  <2>1. PICK A, B, d, more : /\ A = Arrives(offer, got, r) /\ B = Arrives(offer', got', r)
                             /\ d = Block!ChanOf(r) /\ more = Ahead(out, Source(d))
    OBVIOUS
  <2>2. d \in Chan
    BY <1>2, <2>1, ReaderFacts
  <2>3. Source(d).chan = d /\ Source(c).chan = c
    BY <1>2, <2>2, SourceOnWay
  <2>4. more = IF d \in DOMAIN tokens THEN <<tokens[d]>> ELSE <<>>
    BY <1>3, <1>4, <1>6, <2>1, <2>3 DEF Ahead
  <2>5. B = A \o more
    <3>1. PICK off2, g2 : off2 = offer' /\ g2 = got'
      OBVIOUS
    <3>2. Arrives(off2, g2, r) = Arrives(offer, got, r) \o Ahead(out, Source(Block!ChanOf(r)))
      BY <1>1, <1>5, <3>1, SentArrives
    <3> QED
      BY <2>1, <3>1, <3>2
  <2> QED
    BY <1>6, <2>1, <2>4, <2>5
<1>8. Running /\ Running'
  BY <1>1 DEF Stands, Running, vars
<1>9. Block!Move(R, tokens)
  BY <1>1, <1>6, <1>7, <1>8, QueueMoves
<1>10. c \in Block!Inputs
  BY <1>1 DEF Block!Inputs, Block!Driven, Block!Read, Driven, Read
<1> QED
  BY <1>6, <1>9, <1>10 DEF Block!Put

(* A token got from an output is the first in its queue. *)
LEMMA GetMoves ==
  ASSUME Stands, NEW c \in Chan, EnvGet(c)
  PROVE  c \in Block!Outputs /\ Block!Get(c)
<1>1. /\ Driven(c) /\ ~Read(c) /\ Raw(c) \in DOMAIN offer
      /\ offer' = Chp!Without(offer, {Raw(c)}) /\ got' = got /\ UNCHANGED vars
  BY DEF EnvGet, Network, Chp!Get, Chp!Offered
<1>2. Done /\ UnitsIn /\ Offers(offer) /\ Fits(offer, got)
  BY StandsMeans
<1>3. PICK n : n = Raw(c)
  OBVIOUS
<1>4. \A x \in insts : \A p \in DOMAIN x.ins : x.ins[p] # n
  BY <1>1, <1>2, <1>3, RawReader DEF Done
<1>5. TakenOff(offer, got, {n}, offer', got')
  <2>1. DOMAIN offer' = DOMAIN offer \ {n} /\ \A m \in DOMAIN offer' : offer'[m] = offer[m]
    BY <1>1, <1>3 DEF Chp!Without
  <2>2. \A x \in insts : x.kind \in Transparent => got'[x] = got[x] /\ x.ins[1] \notin {n}
    BY <1>1, <1>2, <1>4, ViaPorts DEF Done
  <2> QED
    BY <1>1, <1>2, <1>3, <2>1, <2>2 DEF TakenOff
<1>6. PICK R, r0, tokens : r0 = <<0, c>> /\ R = {r0} /\ tokens = <<>>
  OBVIOUS
<1>7. r0 \in Block!Readers
  <2>1. prog \in Programs
    BY <1>2 DEF Done, AllInv, TypeOK
  <2> QED
    BY <1>1, <1>6, <2>1, ReaderForms
<1>8. DOMAIN tokens = {}
  BY <1>6
<1>9. ASSUME NEW r \in Block!Readers
      PROVE  /\ r \in R => Arrives(offer, got, r) # <<>>
             /\ Arrives(offer', got', r)
                  = (IF r \in R THEN Tail(Arrives(offer, got, r)) ELSE Arrives(offer, got, r))
                      \o (IF Block!ChanOf(r) \in DOMAIN tokens THEN <<tokens[Block!ChanOf(r)]>> ELSE <<>>)
  <2>1. PICK m, T, U : m = PortOf(r) /\ T = Tokens(insts, offer, got, m) /\ U = Tokens(insts, offer', got', m)
    OBVIOUS
  <2>2. Block!ChanOf(r) \in Chan /\ OnWay(Block!ChanOf(r), m)
    BY <1>2, <2>1, ReaderFacts
  <2>3. T \in Seq(Value) /\ (m \in DOMAIN offer => T # <<>>)
    BY <2>1, WayOf
  <2>4. U = IF m \in {n} THEN Tail(T) ELSE T
    <3>1. PICK off2, g2 : off2 = offer' /\ g2 = got'
      OBVIOUS
    <3>2. TakenOff(offer, got, {n}, off2, g2)
      BY <1>5, <3>1
    <3>3. Tokens(insts, off2, g2, m) = IF m \in {n} THEN Tail(Tokens(insts, offer, got, m))
                                       ELSE Tokens(insts, offer, got, m)
      BY <1>2, <2>2, <3>2, TokensTaken
    <3> QED
      BY <2>1, <3>1, <3>3
  <2>5. PICK A, B : A = Arrives(offer, got, r) /\ B = Arrives(offer', got', r)
    OBVIOUS
  <2>6. A \in Seq(Value)
    BY <2>5, ArrivesType
  <2>7. CASE r[1] = 0
    <3>1. A = T /\ B = U
      BY <2>1, <2>5, <2>7 DEF Arrives
    <3>2. r = <<0, Block!ChanOf(r)>> /\ m = Raw(Block!ChanOf(r))
      BY <1>2, <2>1, <2>7, ReaderFacts
    <3>3. r \in R <=> m = n
      BY <1>3, <1>6, <3>2, ReadNames
    <3>4. B = IF r \in R THEN Tail(A) ELSE A
      BY <2>4, <3>1, <3>3
    <3>5. r \in R => A # <<>> /\ Tail(A) \in Seq(Value)
      BY <1>1, <1>3, <2>3, <3>1, <3>3, HeadAndTail
    <3> QED
      BY <1>8, <2>5, <2>6, <3>4, <3>5, ConcatEmptySeq
  <2>8. CASE r[1] # 0
    <3>1. r \notin R
      BY <1>6, <2>8
    <3>2. m # n
      BY <1>2, <1>4, <2>1, <2>8, ReaderFacts DEF PortOf
    <3>3. A = B
      BY <1>1, <2>1, <2>4, <2>5, <2>8, <3>2 DEF Arrives
    <3> QED
      BY <1>8, <2>5, <2>6, <3>1, <3>3, ConcatEmptySeq
  <2> QED
    BY <2>7, <2>8
<1>10. Running /\ Running'
  BY <1>1 DEF Stands, Running, vars
<1>11. Block!Move(R, tokens)
  BY <1>1, <1>6, <1>7, <1>9, <1>10, QueueMoves
<1>12. c \in Block!Outputs
  BY <1>1 DEF Block!Outputs, Block!Driven, Block!Read, Driven, Read
<1> QED
  BY <1>6, <1>11, <1>12 DEF Block!Get

-----------------------------------------------------------------------------
(* The processes the dataflow does not have pass tokens on: no queue sees it. *)

LEMMA PassedStutters ==
  ASSUME Stands, NEW y \in insts, y.kind \in Transparent, NEW off2, NEW g2,
         PassedOn(y, offer, got, off2, g2), NEW r \in Block!Readers
  PROVE  Arrives(off2, g2, r) = Arrives(offer, got, r)
<1>1. PICK m, c : m = PortOf(r) /\ c = Block!ChanOf(r)
  OBVIOUS
<1>2. Done /\ UnitsIn
  BY StandsMeans
<1>3. c \in Chan /\ OnWay(c, m)
  BY <1>1, <1>2, ReaderFacts
<1>4. m # y.ins[1]
  BY <1>1, WayOf
<1>5. Tokens(insts, off2, g2, m) = Tokens(insts, offer, got, m)
  BY <1>2, <1>3, <1>4, TokensPassed
<1>6. CASE r[1] = 0
  BY <1>1, <1>5, <1>6 DEF Arrives
<1>7. CASE r[1] # 0
  <2>1. PICK i, z : i = r[1] /\ z = ProcessOf(i)
    OBVIOUS
  <2>2. z \in insts /\ i \in 1..Len(prog) /\ z.kind = UnitKind(prog[i])
    BY <1>2, <1>7, <2>1, ReaderFacts
  <2>3. z # y
    BY <1>2, <2>2, UnitPlain DEF Done
  <2>4. g2[z] = got[z]
    BY <2>2, <2>3 DEF PassedOn
  <2> QED
    BY <1>1, <1>5, <1>7, <2>1, <2>4 DEF Arrives
<1> QED
  BY <1>6, <1>7

LEMMA PassStutters ==
  ASSUME Stands, NEW y \in insts, y.kind \in Transparent, PassedOn(y, offer, got, offer', got'), UNCHANGED vars,
         DOMAIN got' = insts
  PROVE  Queue' = Queue
<1>1. PICK off2, g2 : off2 = offer' /\ g2 = got'
  OBVIOUS
<1>2. PassedOn(y, offer, got, off2, g2)
  BY <1>1
<1>3. \A r \in Block!Readers : Arrives(offer', got', r) = Arrives(offer, got, r)
  BY <1>1, <1>2, PassedStutters
<1>4. Running /\ Running'
  BY DEF Stands, Running, vars
<1> QED
  BY <1>3, <1>4, QueueStays

(* What such a process has got: nothing, or the value of its one input. *)
LEMMA ViaHolds ==
  ASSUME Stands, NEW y \in insts, y.kind \in Transparent, NEW n, n = y.ins[1], NEW gy, gy = got[y]
  PROVE  /\ DOMAIN y.ins = {1} /\ DOMAIN y.outs # {} /\ \A q \in DOMAIN y.outs : y.outs[q] # n
         /\ gy = Chp!Nothing \/ (DOMAIN gy = {1} /\ gy[1] \in Value)
         /\ gy # Chp!Nothing /\ Chp!Holds(y) => n \in DOMAIN offer /\ offer[n] = gy[1]
         /\ n \in DOMAIN offer => offer[n] \in Value
         /\ OwnInputs /\ AllInv /\ Offers(offer) /\ Fits(offer, got)
<1>1. Done /\ OwnInputs /\ AllInv /\ ValueInv /\ Offers(offer) /\ Fits(offer, got) /\ RoundOf(y, gy)
  BY StandsMeans
<1>2. DOMAIN y.ins = {1} /\ DOMAIN y.outs # {} /\ \A q \in DOMAIN y.outs : y.outs[q] # n
  BY <1>1, ViaPorts
<1>3. gy = [p \in DOMAIN gy |-> gy[p]] /\ DOMAIN gy \subseteq {1}
  BY <1>1, <1>2 DEF RoundOf, OwnInputs
<1>4. gy = Chp!Nothing \/ DOMAIN gy = {1}
  <2>1. CASE 1 \in DOMAIN gy
    BY <1>3, <2>1
  <2>2. CASE 1 \notin DOMAIN gy
    <3>1. PICK D : D = DOMAIN gy
      OBVIOUS
    <3>2. gy = [p \in D |-> gy[p]] /\ D = {}
      BY <1>3, <2>2, <3>1
    <3>3. [p \in D |-> gy[p]] = [p \in {} |-> 0]
      BY <3>2
    <3> QED
      BY <3>2, <3>3 DEF Chp!Nothing
  <2> QED
    BY <2>1, <2>2
<1>5. DOMAIN gy = {1} => gy[1] \in Value /\ (Chp!Holds(y) => n \in DOMAIN offer /\ offer[n] = gy[1])
  BY <1>1, StandsMeans DEF ValueInv, OwnInputs, Chp!StillOffered, Chp!Offered
<1> QED
  BY <1>1, <1>2, <1>4, <1>5 DEF Offers

LEMMA ViaReceive ==
  ASSUME Stands, NEW y \in insts, y.kind \in Transparent, NEW p \in DOMAIN y.ins,
         Chp!Receive(y, p), UNCHANGED vars
  PROVE  Queue' = Queue
<1>1. PICK n, gy, v, new : /\ n = y.ins[1] /\ gy = got[y] /\ v = offer[n]
                           /\ new = [q \in DOMAIN gy \cup {1} |-> IF q = 1 THEN v ELSE gy[q]]
  OBVIOUS
<1>2. /\ DOMAIN y.ins = {1} /\ \A q \in DOMAIN y.outs : y.outs[q] # n
      /\ gy = Chp!Nothing \/ (DOMAIN gy = {1} /\ gy[1] \in Value)
      /\ n \in DOMAIN offer => offer[n] \in Value
      /\ OwnInputs /\ Offers(offer) /\ Fits(offer, got)
  BY <1>1, ViaHolds
<1>3. /\ ~Chp!Holds(y) /\ ~Chp!Sending(y) /\ 1 \notin DOMAIN gy /\ n \in DOMAIN offer
      /\ got' = [got EXCEPT ![y] = new] /\ offer' = Chp!Without(offer, {n})
  <2>1. p = 1
    BY <1>2
  <2>2. p \notin DOMAIN gy
    BY <1>1 DEF Chp!Receive, Chp!Wanted, Chp!Nothing
  <2>3. Chp!Stored(y, v) = v
    BY DEF Chp!Stored, Transparent
  <2> QED
    BY <1>1, <2>1, <2>2, <2>3 DEF Chp!Receive, Chp!Offered
<1>4. gy = Chp!Nothing
  BY <1>2, <1>3
<1>5. v \in Value
  BY <1>1, <1>2, <1>3
<1>6. new # Chp!Nothing /\ new[1] = v
  BY <1>1 DEF Chp!Nothing
<1>7. got'[y] = new /\ DOMAIN got' = insts /\ \A x \in insts : x # y => got'[x] = got[x]
  BY <1>2, <1>3 DEF OwnInputs
<1>8. \A m : m # n => Ahead(offer', m) = Ahead(offer, m)
  BY <1>3 DEF Chp!Without, Ahead
<1>9. Ahead(offer, n) = <<v>> /\ Ahead(offer', n) = <<>>
  BY <1>1, <1>3 DEF Chp!Without, Ahead
<1>10. ASSUME NEW q \in DOMAIN y.outs, NEW u \in Seq(Value)
       PROVE  Ahead(offer', y.outs[q]) \o Through(y, got'[y], Ahead(offer', n) \o u)
                = Ahead(offer, y.outs[q]) \o Through(y, got[y], Ahead(offer, n) \o u)
  <2>1. Ahead(offer, y.outs[q]) = <<>> /\ Ahead(offer', y.outs[q]) = <<>>
    BY <1>2, <1>3, <1>8 DEF Ahead, Chp!Sending, Chp!Offered
  <2>2. <<>> \o u = u
    BY ConcatEmptySeq
  <2>3. <<v>> \o u \in Seq(Value)
    BY <1>5, InFront
  <2>4. Through(y, got'[y], Ahead(offer', n) \o u) = <<v>> \o u
    BY <1>3, <1>6, <1>7, <1>9, <2>2 DEF Through
  <2>5. <<>> \o (<<v>> \o u) = <<v>> \o u
    BY <2>3, ConcatEmptySeq
  <2>6. Through(y, got[y], Ahead(offer, n) \o u) = <<v>> \o u
    BY <1>1, <1>3, <1>4, <1>9, <2>5 DEF Through
  <2> QED
    BY <2>1, <2>4, <2>6
<1>11. PassedOn(y, offer, got, offer', got')
  BY <1>1, <1>2, <1>7, <1>8, <1>10 DEF PassedOn, Passes
<1> QED
  BY <1>7, <1>11, PassStutters

LEMMA ViaRelease ==
  ASSUME Stands, NEW y \in insts, y.kind \in Transparent, Chp!Release(y), UNCHANGED vars
  PROVE  Queue' = Queue
<1>1. PICK n, gy, v : n = y.ins[1] /\ gy = got[y] /\ v = gy[1]
  OBVIOUS
<1>2. Chp!Holds(y) /\ gy # Chp!Nothing /\ ~Chp!Sending(y)
  BY <1>1 DEF Chp!Release
<1>3. /\ DOMAIN y.ins = {1} /\ \A q \in DOMAIN y.outs : y.outs[q] # n
      /\ DOMAIN gy = {1} /\ v \in Value /\ n \in DOMAIN offer /\ offer[n] = v
      /\ OwnInputs /\ Offers(offer) /\ Fits(offer, got)
  BY <1>1, <1>2, ViaHolds
<1>4. got' = [got EXCEPT ![y] = Chp!Nothing] /\ offer' = Chp!Without(offer, {n})
  <2>1. {y.ins[p] : p \in DOMAIN got[y]} = {n}
    BY <1>1, <1>3
  <2> QED
    BY <2>1 DEF Chp!Release
<1>5. got'[y] = Chp!Nothing /\ DOMAIN got' = insts /\ \A x \in insts : x # y => got'[x] = got[x]
  BY <1>3, <1>4 DEF OwnInputs
<1>6. \A m : m # n => Ahead(offer', m) = Ahead(offer, m)
  BY <1>4 DEF Chp!Without, Ahead
<1>7. Ahead(offer, n) = <<v>> /\ Ahead(offer', n) = <<>>
  BY <1>3, <1>4 DEF Chp!Without, Ahead
<1>8. ASSUME NEW q \in DOMAIN y.outs, NEW u \in Seq(Value)
      PROVE  Ahead(offer', y.outs[q]) \o Through(y, got'[y], Ahead(offer', n) \o u)
               = Ahead(offer, y.outs[q]) \o Through(y, got[y], Ahead(offer, n) \o u)
  <2>1. Ahead(offer, y.outs[q]) = <<>> /\ Ahead(offer', y.outs[q]) = <<>>
    BY <1>2, <1>3, <1>6 DEF Ahead, Chp!Sending, Chp!Offered
  <2>2. <<>> \o u = u
    BY ConcatEmptySeq
  <2>3. Tail(<<v>> \o u) = u
    BY <1>3, InFront
  <2>4. Through(y, got'[y], Ahead(offer', n) \o u) = u
    BY <1>2, <1>5, <1>7, <2>2 DEF Through
  <2>5. Through(y, got[y], Ahead(offer, n) \o u) = u
    BY <1>1, <1>2, <1>7, <2>3 DEF Through
  <2> QED
    BY <2>1, <2>4, <2>5
<1>9. PassedOn(y, offer, got, offer', got')
  BY <1>1, <1>3, <1>5, <1>6, <1>8 DEF PassedOn, Passes
<1> QED
  BY <1>5, <1>9, PassStutters

LEMMA ViaSend ==
  ASSUME Stands, NEW y \in insts, y.kind \in Transparent, Chp!Send(y), UNCHANGED vars
  PROVE  Queue' = Queue
<1>1. PICK S, vals, out : SendAs(y, S, vals, out)
  BY SendIs
<1>2. PICK n, gy, v : n = y.ins[1] /\ gy = got[y] /\ v = vals[1]
  OBVIOUS
<1>3. /\ DOMAIN y.ins = {1} /\ \A q \in DOMAIN y.outs : y.outs[q] # n
      /\ gy = Chp!Nothing \/ (DOMAIN gy = {1} /\ gy[1] \in Value)
      /\ n \in DOMAIN offer => offer[n] \in Value
      /\ OwnInputs /\ Offers(offer) /\ Fits(offer, got)
  BY <1>2, ViaHolds
<1>4. /\ ~Chp!Sending(y) /\ (Chp!Holds(y) => gy = Chp!Nothing)
      /\ S \in Chp!Rounds(y, Chp!Seen(y)) /\ vals = Chp!Only(Chp!Seen(y), S) /\ DOMAIN vals = S
      /\ out = Chp!Offering(y, vals)
      /\ offer' = [m \in DOMAIN offer \cup DOMAIN out |-> IF m \in DOMAIN out THEN out[m] ELSE offer[m]]
      /\ got' = [got EXCEPT ![y] = IF Chp!Holds(y) THEN vals ELSE Chp!Nothing]
  BY <1>1, <1>2 DEF SendAs
<1>5. S = {1}
  BY <1>3, <1>4 DEF Chp!Rounds, Transparent
<1>6. 1 \in DOMAIN Chp!Seen(y) /\ v = Chp!Seen(y)[1]
  BY <1>2, <1>4, <1>5 DEF Chp!Only
<1>7. IF Chp!Holds(y) THEN n \in DOMAIN offer /\ v = offer[n] ELSE DOMAIN gy = {1} /\ v = gy[1]
  <2>1. CASE Chp!Holds(y)
    BY <1>2, <1>3, <1>6, <2>1, SeenPorts DEF Chp!Offered
  <2>2. CASE ~Chp!Holds(y)
    BY <1>2, <1>3, <1>6, <2>2 DEF Chp!Seen, Chp!Nothing
  <2> QED
    BY <2>1, <2>2
<1>8. v \in Value
  BY <1>3, <1>7 DEF Chp!Nothing
<1>9. got'[y] = (IF Chp!Holds(y) THEN vals ELSE Chp!Nothing)
      /\ DOMAIN got' = insts /\ \A x \in insts : x # y => got'[x] = got[x]
  BY <1>3, <1>4 DEF OwnInputs
<1>10. PICK sends : sends = Chp!Sends(y, vals)
  OBVIOUS
<1>11. DOMAIN sends = DOMAIN y.outs /\ \A q \in DOMAIN y.outs : sends[q] = v
  BY <1>2, <1>10 DEF Chp!Sends, Transparent
<1>12. /\ \A m : m \in DOMAIN out <=> \E q \in DOMAIN y.outs : y.outs[q] = m
       /\ \A q \in DOMAIN y.outs : out[y.outs[q]] = v
  BY <1>4, <1>10, <1>11, OfferingIs, StandsMeans
<1>13. \A m : (\A q \in DOMAIN y.outs : y.outs[q] # m) => Ahead(offer', m) = Ahead(offer, m)
  BY <1>4, <1>12 DEF Ahead
<1>14. ASSUME NEW q \in DOMAIN y.outs, NEW u \in Seq(Value)
       PROVE  Ahead(offer', y.outs[q]) \o Through(y, got'[y], Ahead(offer', n) \o u)
                = Ahead(offer, y.outs[q]) \o Through(y, got[y], Ahead(offer, n) \o u)
  <2>1. Ahead(offer, y.outs[q]) = <<>>
    BY <1>4 DEF Ahead, Chp!Sending, Chp!Offered
  <2>2. Ahead(offer', y.outs[q]) = <<v>>
    BY <1>4, <1>12 DEF Ahead
  <2>3. Ahead(offer', n) = Ahead(offer, n)
    BY <1>3, <1>13
  <2>4. PICK w : w = Ahead(offer, n) \o u
    OBVIOUS
  <2>5. w \in Seq(Value)
    BY <1>3, <2>4, AheadType
  <2>6. <<v>> \o w \in Seq(Value) /\ Tail(<<v>> \o u) = u
    BY <1>8, <2>5, InFront
  <2>7. <<>> \o w = w /\ <<>> \o (<<v>> \o w) = <<v>> \o w
    BY <2>5, <2>6, ConcatEmptySeq
  <2>8. CASE Chp!Holds(y)
    <3>1. w = <<v>> \o u
      BY <1>7, <2>4, <2>8 DEF Ahead
    <3>2. vals # Chp!Nothing
      BY <1>4, <1>5 DEF Chp!Nothing
    <3>3. Through(y, got'[y], w) = u
      BY <1>9, <2>6, <2>8, <3>1, <3>2 DEF Through
    <3>4. Through(y, got[y], w) = w
      BY <1>2, <1>4, <2>8 DEF Through
    <3> QED
      BY <2>1, <2>2, <2>3, <2>4, <2>7, <3>1, <3>3, <3>4
  <2>9. CASE ~Chp!Holds(y)
    <3>1. gy # Chp!Nothing
      BY <1>7, <2>9 DEF Chp!Nothing
    <3>2. Through(y, got'[y], w) = w
      BY <1>9, <2>7, <2>9 DEF Through
    <3>3. Through(y, got[y], w) = <<v>> \o w
      BY <1>2, <1>7, <2>9, <3>1 DEF Through
    <3> QED
      BY <2>1, <2>2, <2>3, <2>4, <2>7, <3>2, <3>3
  <2> QED
    BY <2>8, <2>9
<1>15. PassedOn(y, offer, got, offer', got')
  BY <1>2, <1>3, <1>9, <1>13, <1>14 DEF PassedOn, Passes
<1> QED
  BY <1>9, <1>15, PassStutters

(* A step of the network is a step of the block, or none. *)
LEMMA NetworkStep ==
  ASSUME Stands, NEW x \in insts, Chp!Step(x), UNCHANGED vars
  PROVE  (\E i \in DOMAIN prog : Block!Fire(i) \/ Block!SendConst(i)) \/ Queue' = Queue
<1>1. AllInv
  BY StandsMeans
<1>2. CASE x.kind \in Transparent
  BY <1>2, ViaReceive, ViaRelease, ViaSend DEF Chp!Step
<1>3. CASE x.kind \notin Transparent
  <2>1. x.at \in 1..Len(prog)
    <3>1. \A c : x # CopyInst(c) /\ x # ToIntInst(c) /\ x # ToBoolInst(c)
      BY <1>3, InstFields DEF CopyInst, ToIntInst, ToBoolInst, Transparent
    <3> QED
      BY <1>1, <3>1, Roles
  <2>2. PICK i \in 1..Len(prog) : x.at = i
    BY <2>1
  <2>3. i \in DOMAIN prog
    BY <1>1, UnitPlain
  <2> QED
    BY <1>3, <2>2, <2>3, ElementStep
<1> QED
  BY <1>2, <1>3

-----------------------------------------------------------------------------
(* Before the network runs, the queues hold the initial tokens.             *)

LEMMA StartStutters ==
  ASSUME NetInv, NothingBypassed, Start
  PROVE  Queue' = Queue
<1>1. /\ pc = "done" /\ DOMAIN got = {} /\ UNCHANGED vars /\ offer' = offer
      /\ got' = [x \in insts |-> IF x.kind = "init" THEN [p \in {1} |-> InitValue] ELSE Chp!Nothing]
  BY DEF Start, Network, Chp!Reset
<1>2. Queue = Block!InitQueue
  <2>1. ~Running
    BY <1>1 DEF Running
  <2> QED
    BY <2>1, QueueIs
<1>3. CASE ~Running'
  <2>1. UNCHANGED prog
    BY <1>1 DEF vars
  <2> QED
    BY <1>2, <1>3, <2>1, QueueIs
<1>4. CASE Running'
  <2>1. Done /\ UnitsIn /\ DOMAIN offer = {}
    BY <1>1 DEF NetInv, Done, RoundInv
  <2>2. Queue' = [r \in Block!Readers |-> Arrives(offer', got', r)]
    BY <1>1, <1>4, QueueIs
  <2>3. PICK off2, g2 : off2 = offer' /\ g2 = got'
    OBVIOUS
  <2>4. /\ DOMAIN off2 = {}
        /\ \A x \in insts : g2[x] = IF x.kind = "init" THEN [p \in {1} |-> InitValue] ELSE Chp!Nothing
    BY <1>1, <2>1, <2>3
  <2>5. ASSUME NEW r \in Block!Readers
        PROVE  Arrives(off2, g2, r) = IF Block!Initialised(Block!ChanOf(r)) THEN <<InitValue>> ELSE <<>>
    <3>1. PICK m, c : m = PortOf(r) /\ c = Block!ChanOf(r)
      OBVIOUS
    <3>2. c \in Chan /\ OnWay(c, m) /\ m.kind \notin {"bufIn", "buf"}
      BY <2>1, <3>1, ReaderFacts
    <3>3. Tokens(insts, off2, g2, m) = IF Block!Initialised(c) THEN <<InitValue>> ELSE <<>>
      BY <2>1, <2>4, <3>2, TokensStart
    <3>4. CASE r[1] = 0
      BY <3>1, <3>3, <3>4 DEF Arrives
    <3>5. CASE r[1] # 0
      <4>1. PICK i, z : i = r[1] /\ z = ProcessOf(i)
        OBVIOUS
      <4>2. z \in insts /\ i \in 1..Len(prog) /\ z.kind = UnitKind(prog[i])
        BY <2>1, <3>5, <4>1, ReaderFacts
      <4>3. z.kind # "init"
        BY <2>1, <4>2, UnitPlain DEF Done, Transparent
      <4>4. DOMAIN g2[z] = {}
        BY <2>4, <4>2, <4>3 DEF Chp!Nothing
      <4> QED
        BY <3>1, <3>3, <3>5, <4>1, <4>4 DEF Arrives, Left
    <3> QED
      BY <3>4, <3>5
  <2>6. Queue' = [r \in Block!Readers |-> Arrives(off2, g2, r)]
    BY <2>2, <2>3
  <2>7. Block!InitQueue = [r \in Block!Readers |-> IF Block!Initialised(Block!ChanOf(r)) THEN <<InitValue>> ELSE <<>>]
    BY DEF Block!InitQueue
  <2> QED
    BY <1>2, <2>5, <2>6, <2>7
<1> QED
  BY <1>3, <1>4

(* The translator leaves the program alone. *)
LEMMA ProgramStays ==
  ASSUME [Next]_vars
  PROVE  prog' = prog
<1>1. CASE Handler
  BY <1>1, HandlerTakes
<1>2. CASE ~Handler
  BY <1>2 DEF Next, Handler, CollectOpUses, CollectDone, CreateCopyProc, CopiesDone, ElementExit, EmitDone,
              PrintBoolToIntConv, ConvertDone, Terminating, vars, Exit
<1> QED
  BY <1>1, <1>2

LEMMA TranslateStutters ==
  ASSUME NetInv, Translate
  PROVE  Queue' = Queue
<1>1. pc # "done" /\ [Next]_vars /\ got' = got
  BY DEF Translate
<1>2. DOMAIN got = {}
  BY <1>1 DEF NetInv, NetworkInv
<1>3. ~Running /\ ~Running'
  BY <1>1, <1>2 DEF Running
<1>4. UNCHANGED prog
  BY <1>1, ProgramStays
<1> QED
  BY <1>3, <1>4, QueueIs

LEMMA IdleStutters ==
  ASSUME UNCHANGED mapVars
  PROVE  Queue' = Queue
<1>1. UNCHANGED vars /\ offer' = offer /\ got' = got
  BY DEF mapVars
<1>2. UNCHANGED prog /\ (Running' <=> Running)
  BY <1>1 DEF Running, vars
<1>3. CASE Running
  <2>1. \A r \in Block!Readers : Arrives(offer', got', r) = Arrives(offer, got, r)
    BY <1>1
  <2> QED
    BY <1>1, <1>2, <1>3, <2>1, QueueStays
<1>4. CASE ~Running
  BY <1>2, <1>4, QueueIs
<1> QED
  BY <1>3, <1>4

(* Every step of the translator, the network or the environment is a step of *)
(* the block, or none.                                                       *)
LEMMA BlockStep ==
  ASSUME NetInv, NothingBypassed, NothingCut, [MapNext]_mapVars
  PROVE  [Block!Next]_(Block!vars)
<1>1. prog' = prog
  <2>1. CASE Translate
    BY <2>1, ProgramStays DEF Translate
  <2>2. CASE ~Translate
    <3>1. UNCHANGED vars
      BY <2>2, Zenon DEF MapNext, Start, StepAt, UnitAt, CopyOf, ConverterOf, EnvPut, EnvGet, Network, mapVars
    <3> QED
      BY <3>1 DEF vars
  <2> QED
    BY <2>1, <2>2
<1>2. SUFFICES Queue' # Queue => Block!Next
  BY <1>1 DEF Block!vars
<1>3. CASE UNCHANGED mapVars \/ Translate \/ Start
  BY <1>3, IdleStutters, TranslateStutters, StartStutters
<1>4. ASSUME NEW x \in insts, Running, Network(Chp!Step(x)) PROVE Queue' # Queue => Block!Next
  <2>1. (\E i \in DOMAIN prog : Block!Fire(i) \/ Block!SendConst(i)) \/ Queue' = Queue
    BY <1>4, NetworkStep DEF Stands, Network
  <2> QED
    BY <2>1 DEF Block!Next
<1>5. ASSUME NEW c \in Chan, NEW v \in Value, EnvPut(c, v) PROVE Block!Next
  <2>1. Stands
    BY <1>5 DEF Stands, EnvPut
  <2> QED
    BY <1>5, <2>1, PutMoves DEF Block!Next
<1>6. ASSUME NEW c \in Chan, EnvGet(c) PROVE Block!Next
  <2>1. Stands
    BY <1>6 DEF Stands, EnvGet
  <2> QED
    BY <1>6, <2>1, GetMoves DEF Block!Next
<1>7. CASE \E i \in DOMAIN prog : StepAt(i) \/ UnitAt(i)
  BY <1>4, <1>7, Zenon DEF StepAt, UnitAt
<1>8. CASE \E c \in Chan : CopyOf(c) \/ ConverterOf(c)
  BY <1>4, <1>8, Zenon DEF CopyOf, ConverterOf
<1> QED
  BY <1>3, <1>5, <1>6, <1>7, <1>8, Zenon DEF MapNext

(* The network does what the block means, for every block none of whose      *)
(* channels the code bypasses and none of whose arbiters, if piped, cuts its *)
(* data: every step of the network is a firing of an element, a constant     *)
(* sent, a token put or taken by the environment, or invisible to the        *)
(* readers; each reader gets the tokens of its channel, none lost, none      *)
(* twice, in the order sent.                                                 *)
THEOREM ImplementsBlockTheorem == MapSpec /\ NothingBypassed /\ NothingCut => ImplementsBlock
<1>1. MapInit => Block!Init
  <2> SUFFICES ASSUME MapInit PROVE Block!Init
    OBVIOUS
  <2>1. prog \in Programs /\ ~Running
    BY DEF MapInit, Init, Running
  <2> QED
    BY <2>1, QueueIs DEF Block!Init
<1>2. NothingBypassed /\ NothingCut /\ [MapNext]_mapVars => NothingBypassed' /\ NothingCut'
  <2> SUFFICES ASSUME NothingBypassed, NothingCut, [MapNext]_mapVars PROVE NothingBypassed' /\ NothingCut'
    OBVIOUS
  <2>1. prog' = prog
    <3>1. CASE Translate
      BY <3>1, ProgramStays DEF Translate
    <3>2. CASE ~Translate
      <4>1. UNCHANGED vars
        BY <3>2, Zenon DEF MapNext, Start, StepAt, UnitAt, CopyOf, ConverterOf, EnvPut, EnvGet, Network, mapVars
      <4> QED
        BY <4>1 DEF vars
    <3> QED
      BY <3>1, <3>2
  <2>2. ASSUME NEW c PROVE Bypassed(c)' = Bypassed(c)
    BY <2>1 DEF Bypassed, Sunk, UseCount, Sites, BoolCtrl
  <2> QED
    BY <2>1, <2>2 DEF NothingBypassed, NothingCut
<1>3. NetInv /\ NothingBypassed /\ NothingCut /\ [MapNext]_mapVars => [Block!Next]_(Block!vars)
  BY BlockStep
<1> QED
  BY <1>1, <1>2, <1>3, NetInvTheorem, PTL DEF MapSpec, ImplementsBlock, Block!Spec
=============================================================================
