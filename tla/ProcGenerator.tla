--------------------------- MODULE ProcGenerator ---------------------------
(***************************************************************************)
(* ProcGenerator::run for one ACT process with a dataflow block: the two   *)
(* passes over the dataflow elements, the first counting the uses of every *)
(* channel, the second writing one CHP instance per element and taking, at *)
(* each use, the next output of the channel's copy; between them the copy  *)
(* processes, after them the converters of the bool channels.              *)
(*                                                                         *)
(* The emitted text is a set of instances and a set of channel             *)
(* declarations. A channel of the text is a name; what a name is made of   *)
(* (_toint_x, xcopy.out[2], x_bufIn, ...) is kept as a record.             *)
(***************************************************************************)
EXTENDS DflowBlock

VARIABLES
  prog,      \* the dataflow block being translated
  pc,        \* the loop of run that is executing
  next,      \* the element that loop is at
  todo,      \* the keys a loop over a map has still to visit
  opUses,    \* the map opUses; NoEntry where it has no key
  copyUses,  \* the map copyUses; NoEntry where it has no key
  boolFlags, \* isBoolMap: which of the two int channels are declared
  sinkCnt,   \* sinkCnt of run
  anonNames, \* _anon_names
  decls,     \* the channels declared in the text, and by which element
  insts,     \* the instances in the text
  err        \* why the translator exited

(* Definitions named X_Change are X as a plausible bug would have it; only the *)
(* mutation runs of PROJECT.json use them.                                     *)

vars == <<prog, pc, next, todo, opUses, copyUses, boolFlags, sinkCnt, anonNames,
          decls, insts, err>>
emitted == <<decls, insts, boolFlags, sinkCnt, anonNames>>

NoEntry == -1

(* Names of channels in the emitted text. *)
Name(kind, c, k) == [kind |-> kind, chan |-> c, idx |-> k]
Raw(c)        == Name("raw", c, 0)
ToInt(c)      == Name("toint", c, 0)
FromInt(c)    == Name("fromint", c, 0)
CopyOut(c, k) == Name("copyout", c, k)
SinkName(k)   == Name("sink", Null, k)
AnonName(k)   == Name("anon", Null, k)
BufIn(c)      == Name("bufIn", c, 0)
BufName(c, k) == Name("buf", c, k)

(* An instance: what it is, the element that wrote it (0 for the copies and *)
(* the converters), and the channels on its input and output ports.         *)
Inst(kind, at, ins, outs) == [kind |-> kind, at |-> at, ins |-> ins, outs |-> outs]
Decl(n, at) == [name |-> n, at |-> at]
One(n) == [p \in {1} |-> n]
None == [p \in {} |-> Null]

-----------------------------------------------------------------------------
(* First pass: how often is each channel used? *)

(* A func or a cluster reads each of its variables once, however often the  *)
(* expressions mention it; the other elements read every operand.           *)
FirstOccurrences(s) == {p \in DOMAIN s : \A q \in 1..(p - 1) : s[q] # s[p]}
UsePorts(e) == IF e.t \in {"func", "cluster"} THEN FirstOccurrences(e.reads)
                                              ELSE DOMAIN e.reads
UsesOf(e, c) == {p \in UsePorts(e) : e.reads[p] = c}

(* updateOpUses, called k times for one channel. *)
Counted_FromOne(m, k) == IF k = 0 THEN m ELSE IF m = NoEntry THEN k ELSE m + k
Counted_Down(m, k) == IF k = 0 THEN m ELSE IF m = NoEntry THEN k - 1 ELSE m - k
Counted(m, k) == IF k = 0 THEN m ELSE IF m = NoEntry THEN k - 1 ELSE m + k

CollectError(e) ==
  CASE e.t \in {"mixer", "arbiter"} /\ Len(e.reads) < 2 -> "few inputs"
    [] e.t = "merge" /\ Len(e.reads) < 3                -> "few inputs"
    [] e.t = "cluster" /\ e.form = "unsupported"        -> "cluster element"
    [] e.t = "cluster" /\ e.form = "concat"             -> "cluster expression"
    [] OTHER                                            -> "none"

Exit(reason) == pc' = "failed" /\ err' = reason

(* One round of the loop of collectOpUses. *)
CollectOpUses ==
  LET e == prog[next]
  IN  /\ pc = "collect" /\ next <= Len(prog)
      /\ IF CollectError(e) # "none"
         THEN Exit(CollectError(e)) /\ UNCHANGED <<next, opUses, copyUses>>
         ELSE /\ opUses' = [c \in Chan |-> Counted(opUses[c], Cardinality(UsesOf(e, c)))]
              /\ copyUses' = [c \in Chan |->
                                IF UsesOf(e, c) # {} /\ opUses[c] = NoEntry
                                THEN 0 ELSE copyUses[c]]
              /\ next' = next + 1
              /\ UNCHANGED <<pc, err>>
      /\ UNCHANGED <<prog, todo, emitted>>

CollectDone ==
  /\ pc = "collect" /\ next > Len(prog)
  /\ pc' = "copies"
  /\ todo' = {c \in Chan : opUses[c] > 0}
  /\ UNCHANGED <<prog, next, opUses, copyUses, emitted, err>>

-----------------------------------------------------------------------------
(* The copies: one for each channel with more than one use. *)

ReadBase(c) == IF c \in BoolChan THEN ToInt(c) ELSE Raw(c)
NumOut(c) == opUses[c] + 1

CopyInst(c) == Inst("copy", 0, One(ReadBase(c)), [k \in 1..NumOut(c) |-> CopyOut(c, k - 1)])

(* Declare the int twin of each bool channel of C that has none yet. *)
Undeclared(C, flag) == {c \in C \cap BoolChan : flag \notin boolFlags[c]}
Flagged_Lost(toint, fromint) == boolFlags
Flagged_Overwritten(toint, fromint) ==
  [c \in BoolChan |-> IF c \in fromint THEN {"from"} ELSE IF c \in toint THEN {"to"} ELSE boolFlags[c]]
Flagged(toint, fromint) ==
  [c \in BoolChan |-> boolFlags[c] \cup {f \in {"to"} : c \in toint}
                                   \cup {f \in {"from"} : c \in fromint}]

CreateCopyProc(c) ==
  /\ pc = "copies" /\ c \in todo
  /\ todo' = todo \ {c}
  /\ insts' = insts \cup {CopyInst(c)}
  /\ decls' = decls \cup {Decl(ToInt(b), 0) : b \in Undeclared({c}, "to")}
  /\ boolFlags' = Flagged({c}, {})
  /\ UNCHANGED <<prog, pc, next, opUses, copyUses, sinkCnt, anonNames, err>>

CopiesDone ==
  /\ pc = "copies" /\ todo = {}
  /\ pc' = "emit" /\ next' = 1
  /\ UNCHANGED <<prog, todo, opUses, copyUses, emitted, err>>

-----------------------------------------------------------------------------
(* Second pass: one instance per element. *)

(* The order in which the second pass asks for the names of the operands: a *)
(* split asks for the guard before the input, a merge for the guard last.   *)
Rank(e, p) ==
  CASE e.t = "split"            -> 3 - p
    [] e.t = "merge" /\ p = 1   -> Len(e.reads)
    [] e.t = "merge" /\ p # 1   -> p - 1
    [] OTHER                    -> p

(* The operands whose name comes from getActIdOrCopyName: all but a sink's. *)
NamedPorts_Repeated(e) == IF e.t = "sink" THEN {} ELSE DOMAIN e.reads
NamedPorts(e) == IF e.t = "sink" THEN {} ELSE UsePorts(e)

(* getCopyUses hands out the next copy output of the channel. *)
CopyIndex(e, p) ==
  copyUses[e.reads[p]]
    + Cardinality({q \in UsesOf(e, e.reads[p]) : Rank(e, q) < Rank(e, p)})

(* getActIdOrCopyName, for operand p of e. *)
OperandName(e, p) ==
  LET c == e.reads[p]
  IN  IF opUses[c] = 0 THEN ReadBase(c) ELSE CopyOut(c, CopyIndex(e, p))

OperandError(e) ==
  CASE \E p \in NamedPorts(e) : opUses[e.reads[p]] = NoEntry   -> "no use count"
    [] \E p \in NamedPorts(e) : /\ opUses[e.reads[p]] > 0
                                /\ copyUses[e.reads[p]] = NoEntry -> "no copy count"
    [] \E p \in NamedPorts(e) : /\ opUses[e.reads[p]] > 0
                                /\ CopyIndex(e, p) > opUses[e.reads[p]] -> "overuse"
    [] OTHER -> "none"

OperandNames_Swapped(e) ==
  [p \in NamedPorts(e) |-> OperandName(e, IF e.t = "split" THEN 3 - p ELSE p)]
OperandNames(e) == [p \in NamedPorts(e) |-> OperandName(e, p)]
OperandChans(e) == {e.reads[p] : p \in NamedPorts(e)}

(* The copy outputs the operands of e took. *)
Taken_Never(e) == copyUses
Taken(e) == [c \in Chan |->
               IF opUses[c] > 0 THEN copyUses[c] + Cardinality({p \in NamedPorts(e) : e.reads[p] = c})
                                ELSE copyUses[c]]

(* fixboolchan_outname *)
OutName_Raw(c) == Raw(c)
OutName(c) == IF c \in BoolChan THEN FromInt(c) ELSE Raw(c)

(* What every handler does with its operands and with the outputs `written' *)
(* that go through fixboolchan_outname: declare int twins, take copy outputs, *)
(* add its instances and the channels of its own, go to the next element.   *)
Write(e, written, newInsts, newNames) ==
  /\ insts' = insts \cup newInsts
  /\ decls' = decls \cup {Decl(n, next) : n \in newNames}
                    \cup {Decl(ToInt(c), next) : c \in Undeclared(OperandChans(e), "to")}
                    \cup {Decl(FromInt(c), next) : c \in Undeclared(written, "from")}
  /\ boolFlags' = Flagged(OperandChans(e), written)
  /\ copyUses' = Taken(e)
  /\ next' = next + 1
  /\ UNCHANGED <<prog, pc, todo, opUses, err>>

ElementError(e) ==
  CASE OperandError(e) # "none"                                -> OperandError(e)
    [] e.t = "cluster" /\ e.form = "selection"                 -> "cluster element"
    [] \E o \in DOMAIN e.outs : /\ e.outs[o].expr = "const"
                                /\ e.outs[o].buf # "none"      -> "buffered constant"
    [] \E o \in DOMAIN e.outs : /\ e.outs[o].expr = "calc"
                                /\ e.outs[o].buf = "initexpr"  -> "init value"
    [] OTHER                                                   -> "none"

(* Any exit of a handler of the second pass. *)
ElementExit ==
  /\ pc = "emit" /\ next <= Len(prog)
  /\ ElementError(prog[next]) # "none"
  /\ Exit(ElementError(prog[next]))
  /\ UNCHANGED <<prog, next, todo, opUses, copyUses, emitted>>

At(types) == /\ pc = "emit" /\ next <= Len(prog)
             /\ prog[next].t \in types
             /\ ElementError(prog[next]) = "none"

-----------------------------------------------------------------------------
(* Buffers: handleBuff decides whether there is one, printBuffChp writes the *)
(* chain from x_bufIn to x: onebufs, then the init process or a last onebuf. *)

HasBuff_Strict(out) == out.buf = "init" \/ (out.buf = "plain" /\ out.nbuf > 2)
HasBuff(out) == out.buf = "init" \/ (out.buf = "plain" /\ out.nbuf >= 2)

(* The onebufs before the last stage. *)
Inner_NoDecrement(out) == IF out.nbuf > 1 THEN out.nbuf - 1 ELSE 0
Inner(out) == LET n == IF out.buf = "init" THEN out.nbuf - 1 ELSE out.nbuf - 2
              IN  IF n > 0 THEN n ELSE 0

Stage(c, k) == IF k = 0 THEN BufIn(c) ELSE BufName(c, k - 1)
BuffChain(at, out) ==
  {Inst("onebuf", at, One(Stage(out.chan, k - 1)), One(Stage(out.chan, k))) :
     k \in 1..Inner(out)}
  \cup {Inst(IF out.buf = "init" THEN "init" ELSE "onebuf", at,
             One(Stage(out.chan, Inner(out))), One(OutName(out.chan)))}
BuffNames(out) == {Stage(out.chan, k) : k \in 0..Inner(out)}

(* The function unit: one port per distinct variable, one per output that is *)
(* not a constant; behind an output with buffers it writes the link to them. *)
Calcs(e) == {o \in DOMAIN e.outs : e.outs[o].expr = "calc"}
BuffOuts(e) == {o \in Calcs(e) : HasBuff(e.outs[o])}
FUInst(e) ==
  Inst("fu", next, OperandNames(e),
       [o \in Calcs(e) |-> IF o \in BuffOuts(e) THEN BufIn(e.outs[o].chan)
                                                ELSE OutName(e.outs[o].chan)])

(* handleDFlowFunc for each output of e, then printDFlowFunc if anything is  *)
(* to be computed: sources for the constants, the unit, and its buffers.     *)
FunctionUnit(e) ==
  /\ Write(e, {e.outs[o].chan : o \in DOMAIN e.outs},
           {Inst("source", next, None, One(OutName(e.outs[o].chan))) :
              o \in DOMAIN e.outs \ Calcs(e)}
           \cup (IF Calcs(e) = {} THEN {} ELSE {FUInst(e)})
           \cup UNION {BuffChain(next, e.outs[o]) : o \in BuffOuts(e)},
           UNION {BuffNames(e.outs[o]) : o \in BuffOuts(e)})
  /\ UNCHANGED <<sinkCnt, anonNames>>

HandleFunc == At({"func"}) /\ FunctionUnit(prog[next])

HandleDFlowCluster == At({"cluster"}) /\ FunctionUnit(prog[next])

(* A split: null outputs get a channel and a sink of their own. *)
Nulls(e) == {o \in DOMAIN e.outs : e.outs[o].chan = Null}
SinkAt(e, o) == SinkName(sinkCnt + Cardinality({q \in Nulls(e) : q < o}))
SplitInst(e) ==
  Inst("split", next, OperandNames(e),
       [o \in DOMAIN e.outs |-> IF o \in Nulls(e) THEN SinkAt(e, o) ELSE OutName(e.outs[o].chan)])

HandleSplit ==
  LET e == prog[next]
  IN  /\ At({"split"})
      /\ Write(e, {e.outs[o].chan : o \in DOMAIN e.outs \ Nulls(e)},
               {Inst("sink", next, One(SinkAt(e, o)), None) : o \in Nulls(e)} \cup {SplitInst(e)},
               {SinkAt(e, o) : o \in Nulls(e)})
      /\ sinkCnt' = sinkCnt + Cardinality(Nulls(e))
      /\ UNCHANGED anonNames

MergeInst(e) == Inst("merge", next, OperandNames(e), One(OutName(e.outs[1].chan)))

HandleMerge ==
  LET e == prog[next]
  IN  /\ At({"merge"})
      /\ Write(e, {e.outs[1].chan}, {MergeInst(e)}, {})
      /\ UNCHANGED <<sinkCnt, anonNames>>

(* A mixer or an arbiter; without a control output, a fresh channel and a   *)
(* sink take it. The control output does not go through fixboolchan_outname. *)
Anon(e) == IF e.outs[2].chan = Null THEN {AnonName(anonNames)} ELSE {}
MixerInst(e) ==
  Inst(e.t, next, OperandNames(e),
       [o \in 1..2 |-> IF o = 1 THEN OutName(e.outs[1].chan)
                       ELSE IF Anon(e) = {} THEN Raw(e.outs[2].chan) ELSE AnonName(anonNames)])

HandleMixer ==
  LET e == prog[next]
  IN  /\ At({"mixer", "arbiter"})
      /\ Write(e, {e.outs[1].chan},
               {Inst("sink", next, One(n), None) : n \in Anon(e)} \cup {MixerInst(e)}, Anon(e))
      /\ anonNames' = anonNames + Cardinality(Anon(e))
      /\ UNCHANGED sinkCnt

(* A sink reads the channel itself. *)
HandleSink ==
  LET e == prog[next]
  IN  /\ At({"sink"})
      /\ Write(e, {}, {Inst("sink", next, One(Raw(e.reads[1])), None)}, {})
      /\ UNCHANGED <<sinkCnt, anonNames>>

EmitDone ==
  /\ pc = "emit" /\ next > Len(prog)
  /\ pc' = "convert"
  /\ todo' = BoolChan
  /\ UNCHANGED <<prog, next, opUses, copyUses, emitted, err>>

-----------------------------------------------------------------------------
(* The converters of the bool channels that were read or written as ints. *)

PrintBoolToIntConv(c) ==
  /\ pc = "convert" /\ c \in todo
  /\ todo' = todo \ {c}
  /\ insts' = insts
       \cup {Inst("bool_to_int", 0, One(Raw(c)), One(ToInt(c))) : f \in boolFlags[c] \cap {"to"}}
       \cup {Inst("int_to_bool", 0, One(FromInt(c)), One(Raw(c))) : f \in boolFlags[c] \cap {"from"}}
  /\ UNCHANGED <<prog, pc, next, opUses, copyUses, boolFlags, sinkCnt, anonNames, decls, err>>

ConvertDone ==
  /\ pc = "convert" /\ todo = {}
  /\ pc' = "done"
  /\ UNCHANGED <<prog, next, todo, opUses, copyUses, emitted, err>>

Terminating == pc \in {"done", "failed"} /\ UNCHANGED vars

-----------------------------------------------------------------------------

Init ==
  /\ prog \in Programs
  /\ pc = "collect" /\ next = 1 /\ todo = {}
  /\ opUses = [c \in Chan |-> NoEntry]
  /\ copyUses = [c \in Chan |-> NoEntry]
  /\ boolFlags = [c \in BoolChan |-> {}]
  /\ sinkCnt = 0 /\ anonNames = 0
  /\ decls = {} /\ insts = {}
  /\ err = "none"

Next ==
  \/ CollectOpUses \/ CollectDone
  \/ \E c \in Chan : CreateCopyProc(c)
  \/ CopiesDone
  \/ HandleFunc \/ HandleDFlowCluster \/ HandleSplit \/ HandleMerge \/ HandleMixer \/ HandleSink
  \/ ElementExit \/ EmitDone
  \/ \E c \in BoolChan : PrintBoolToIntConv(c)
  \/ ConvertDone
  \/ Terminating

Spec == Init /\ [][Next]_vars
-----------------------------------------------------------------------------
(* Properties. *)

(* The state of a run: the maps hold counts or no entry, and the text names *)
(* only channels the name grammar has.                                      *)
TypeOK ==
  /\ prog \in Programs
  /\ pc \in {"collect", "copies", "emit", "convert", "done", "failed"}
  /\ next \in 1..(Len(prog) + 1)
  /\ todo \subseteq Chan
  /\ opUses \in [Chan -> Nat \cup {NoEntry}]
  /\ copyUses \in [Chan -> Nat \cup {NoEntry}]
  /\ boolFlags \in [BoolChan -> SUBSET {"to", "from"}]
  /\ sinkCnt \in Nat /\ anonNames \in Nat
  /\ \A d \in decls : d.name.chan \in Chan \cup {Null} /\ d.at \in Nat

(* Every place where the program reads channel c. *)
Sites(n, c) == UNION {{i} \X UsesOf(prog[i], c) : i \in 1..n}
UseCount(c) == Cardinality(Sites(Len(prog), c))

(* The exits of getActIdOrCopyName, getOpUses and getCopyUses ("We use %s    *)
(* more than total uses!", "We don't know how many times %s is used") are    *)
(* never taken: whatever the program, the second pass asks for no channel    *)
(* the first has not counted, and for no more copies of it.                  *)
CountsSuffice == err \notin {"overuse", "no use count", "no copy count"}

(* createCopyProcs makes one copy for each channel with more than one use,   *)
(* with as many outputs as there are uses (ProcGenerator.h: "if it is used   *)
(* for more than once, then we create COPY for it").                         *)
CopiesMatchUses ==
  pc \in {"emit", "convert", "done"} =>
    \A c \in Chan :
      {<<x.ins[1], DOMAIN x.outs>> : x \in {y \in insts : y.kind = "copy" /\ y.outs[1].chan = c}}
        = IF UseCount(c) > 1 THEN {<<ReadBase(c), 1..UseCount(c)>>} ELSE {}

Ports(x, dir) == {<<x, p>> : p \in DOMAIN x[dir]}
Readers(n) == {r \in UNION {Ports(x, "ins") : x \in insts} : r[1].ins[r[2]] = n}
Writers(n) == {w \in UNION {Ports(x, "outs") : x \in insts} : w[1].outs[w[2]] = n}

(* The raw names of a channel that has a sink besides other uses, or a bool  *)
(* channel with a sink or driven as the control output of a mixer: createSink *)
(* and the mixer take the channel itself, not its copy or its int twin.      *)
Sunk(c) == \E i \in DOMAIN prog : prog[i].t = "sink" /\ prog[i].reads[1] = c
BoolCtrl(c) == \E i \in DOMAIN prog :
  c \in BoolChan /\ prog[i].t \in {"mixer", "arbiter"} /\ prog[i].outs[2].chan = c
Bypassed(c) == (Sunk(c) /\ (UseCount(c) > 1 \/ c \in BoolChan)) \/ BoolCtrl(c)

PortNames(x) == {x.ins[p] : p \in DOMAIN x.ins} \cup {x.outs[p] : p \in DOMAIN x.outs}
EmittedNames == UNION {PortNames(x) : x \in insts}

(* A channel of CHP is point to point: at every moment of the translation no *)
(* channel of the text is read by two ports, nor written by two.             *)
PointToPoint ==
  \A n \in {m \in EmittedNames : m.chan # Null => ~Bypassed(m.chan)} :
    Cardinality(Readers(n)) <= 1 /\ Cardinality(Writers(n)) <= 1

(* The text declares each of its own channels exactly once, and no instance  *)
(* uses a channel that is neither the process's own, nor declared, nor an    *)
(* output of a copy already written.                                         *)
WellScoped ==
  /\ \A d1, d2 \in decls : d1.name = d2.name => d1 = d2
  /\ \A n \in EmittedNames :
       \/ n.kind = "raw"
       \/ n.kind = "copyout" /\ \E x \in insts : x.kind = "copy" /\ n \in {x.outs[k] : k \in DOMAIN x.outs}
       \/ \E d \in decls : d.name = n

(* When the translator is done, each channel it made up (int twins, copy     *)
(* outputs, buffer links, sink channels) has one writer and one reader: no   *)
(* process of the network waits on a channel nobody is at the other end of.  *)
NetClosed ==
  pc = "done" =>
    \A n \in {m \in {d.name : d \in decls} \cup EmittedNames :
                m.kind # "raw" /\ (m.chan # Null => ~Bypassed(m.chan))} :
      Cardinality(Readers(n)) = 1 /\ Cardinality(Writers(n)) = 1

(* Where the data on a channel comes from, seen through copies, converters   *)
(* and buffers: follow single writers back until a process that computes.    *)
Transparent == {"copy", "bool_to_int", "int_to_bool", "onebuf", "init"}
Upstream(n) ==
  LET feeds == {w[1] : w \in {v \in Writers(n) : v[1].kind \in Transparent}}
  IN  IF feeds = {} THEN n ELSE (CHOOSE x \in feeds : TRUE).ins[1]
Root(n) ==
  LET up[k \in 0..Cardinality(insts)] == IF k = 0 THEN n ELSE Upstream(up[k - 1])
  IN  up[Cardinality(insts)]

(* The network is the dataflow graph: when the translator is done, operand p *)
(* of element i gets the data of the channel the source names there, and the *)
(* channel the source names as output o carries what output o of i's process *)
(* sends.                                                                    *)
NetIsGraph ==
  pc = "done" =>
    \A x \in {y \in insts : y.at # 0 /\ y.kind \in {"fu", "split", "merge", "mixer", "arbiter"}} :
      LET e == prog[x.at]
      IN  /\ DOMAIN x.ins = UsePorts(e)
          /\ \A p \in UsePorts(e) : ~Bypassed(e.reads[p]) => Root(x.ins[p]) = Root(Raw(e.reads[p]))
          /\ \A o \in DOMAIN x.outs :
               LET c == e.outs[o].chan
               IN  c # Null /\ ~Bypassed(c) => Root(Raw(c)) = x.outs[o]

(* A bool channel meets only converters: it is never connected to a port of  *)
(* a process of the library or a function unit, whose ports are int<W>.      *)
BoolsConverted ==
  \A x \in insts : x.kind \notin {"bool_to_int", "int_to_bool"} =>
    \A n \in PortNames(x) :
      n.kind = "raw" /\ n.chan \in BoolChan => Bypassed(n.chan)

(* The storage between a function unit and its output is what the source     *)
(* asks for: [n] gives n places, the unit's own counted, and [n,v] n - 1     *)
(* buffers and one process that starts with v.                               *)
SlackAsWritten ==
  pc = "done" =>
    \A i \in DOMAIN prog : prog[i].t \in {"func", "cluster"} =>
      LET chain(c, kind) == {x \in insts : x.kind = kind /\ x.at = i /\ x.outs[1].chan = c}
      IN  \A o \in DOMAIN prog[i].outs :
            LET out == prog[i].outs[o]
            IN  /\ Cardinality(chain(out.chan, "init")) = IF out.buf = "init" THEN 1 ELSE 0
                /\ Cardinality(chain(out.chan, "onebuf"))
                     = IF out.buf # "none" /\ out.nbuf > 1 THEN out.nbuf - 1 ELSE 0

(* handleNormDflowElement says of the channel of a sink: "%s is not used     *)
(* anywhere!"; a sink is the only reader of its channel.                     *)
SinkIsOnlyReader ==
  \A x \in insts : x.kind = "sink" => Cardinality(Readers(x.ins[1])) = 1
=============================================================================
