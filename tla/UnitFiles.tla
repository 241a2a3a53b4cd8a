----------------------------- MODULE UnitFiles -----------------------------
(***************************************************************************)
(* What dflowmap writes about the units of a circuit: their instances in   *)
(* _chp.act, the processes of function units in _chplib.act, the entries   *)
(* of .conf and the counts of .stat.  Metrics.cc finds the metric of a     *)
(* unit and counts it, ChpBackend.cc sends it to ChpGenerator.cc (the      *)
(* instance) and to ChpLibGenerator.cc (process and entry), which keeps    *)
(* two tables of the names it has written.                                 *)
(*                                                                         *)
(* A unit is a tuple of its kind and its template parameters.  A request   *)
(* is what the translator asks for one dataflow element; its script is the *)
(* sequence of steps the handlers take, and the program can exit in the    *)
(* middle of it.                                                           *)
(***************************************************************************)
EXTENDS Integers, SequencesExt

CONSTANTS
    Requests,      \* the elements a program may contain
    Length,        \* bound: elements of a program
    Templates,     \* the units of dflow_<family>.metrics
    MAX_PROCESSES, \* entries of each table of names
    MaxFanout      \* bound: outputs of a copy

ASSUME BoundsAssumption ==
    /\ Length \in Nat /\ MAX_PROCESSES \in Nat /\ MaxFanout \in Nat

(* Buffers that handleBuff passes on: two places or an initial value. *)
Buffers ==
    {b \in [n : Nat \ {0}, init : BOOLEAN, val : Int, bw : Nat \ {0}] : b.init \/ b.n > 1}

ASSUME RequestsAssumption ==
    \A q \in Requests :
        \/ q.t = "copy" /\ q.n \in 1..MaxFanout
        \/ q.t = "func" /\ q.buffs \in Seq(Buffers)
        \/ q.t \in {"sink", "source", "split", "merge", "mixer", "arbiter"}
        \/ q.t = "bool" /\ q.to \in {"bool_to_int", "int_to_bool"}

VARIABLES
    todo,      \* elements still to come
    script,    \* steps left for the element in work
    have,      \* _have_metrics
    circuit,   \* bag of the units instantiated in _chp.act
    lib,       \* bag of the processes of _chplib.act
    conf,      \* bag of the entries of .conf
    stat,      \* instanceCnt of .stat
    processes, \* the table of process names
    instances, \* the table of entry names
    status     \* "run", "done", or why the program exited

vars == <<todo, script, have, circuit, lib, conf, stat, processes, instances, status>>

One(x) == SetToBag({x})

NumberOf(x, bag) == IF BagIn(x, bag) THEN bag[x] ELSE 0

-----------------------------------------------------------------------------
(* copy<W,N> of lib.act, elaborated: the leaves it consists of. *)
Leaves(bw) ==
    LET L[n \in 1..MaxFanout] ==
          IF n <= 8
          THEN One(<<"copy_leaf", bw, n>>)
          ELSE LET m == n \div 8
                   f == n - 8 * m
               IN  [x \in {<<"copy_leaf", bw, 8>>} |-> m]
                   (+) IF f > 0
                       THEN One(<<"copy_leaf", bw, f>>) (+) L[m + 1]
                       ELSE L[m]
    IN  L

(* The processes an instance consists of. *)
Elaborated(u) == IF u[1] = "copy" THEN Leaves(u[2])[u[3]] ELSE One(u)

-----------------------------------------------------------------------------
(* The searches of Metrics.cc: the unit itself, or a template to scale. *)

Clipped(n) == Min({n, 8})

HasCopy(bw, n) ==
    {<<"copy", bw, Clipped(n)>>, <<"copy", 1, Clipped(n)>>} \intersect Templates # {}

HasSimple(kind, bw) == {<<kind, bw>>, <<kind, 1>>} \intersect Templates # {}

HasSelection(kind, n, guard, bw) ==
    {<<kind, n, guard, bw>>, <<kind, 2^guard, guard, bw>>, <<kind, 2^guard, guard, 1>>}
        \intersect Templates # {}

CeilLog2(n) == CHOOSE k \in 0..n : 2^k >= n /\ \A j \in 0..(k - 1) : 2^j < n

HasMixer(n, bw, ctrl) ==
    {<<"mixer", n, bw, ctrl>>, <<"mixer", n, 1, ctrl>>, <<"mixer", 2^CeilLog2(n), 1, ctrl>>}
        \intersect Templates # {}

(* The search of callLogicOptimizer and getOrGenFUMetric for the template  *)
(* of the control: the loop over smaller numbers of inputs decrements once *)
(* more after it has found one, so that finding it at 1 ends as "none".    *)
HasFunc(n, bw) ==
    \/ {<<"func", n, bw>>, <<"func", n, 1>>} \intersect Templates # {}
    \/ \E k \in 2..(n - 1) : <<"func", k, 1>> \in Templates

-----------------------------------------------------------------------------
(* Steps of a script. *)
Look(found, units, error) ==
    [do |-> "look", found |-> found, units |-> units, error |-> error]
Place(u) == [do |-> "place", unit |-> u]
Define(u) == [do |-> "define", unit |-> u]
Enter(u, found) == [do |-> "enter", unit |-> u, found |-> found]

(* A search that exits itself when it finds nothing. *)
Must(found, units) == Look(found, units, "missing")

(* getOrGenCopyMetric clips the number of outputs and counts the copy and  *)
(* the leaf.                                                               *)
LookCopy(bw, n) ==
    Must(HasCopy(bw, n), <<<<"copy", bw, Clipped(n)>>, <<"copy_leaf", bw, Clipped(n)>>>>)

(* Mutation: a copy of more than 8 outputs is entered as it is. *)
CopyScript_Plain(bw, n) ==
    <<LookCopy(bw, n), Place(<<"copy", bw, n>>), Enter(<<"copy_leaf", bw, n>>, TRUE)>>

(* createCopyProcs: entries for all leaves that a larger copy may need. *)
CopyScript(bw, n) ==
    <<LookCopy(bw, n), Place(<<"copy", bw, n>>)>> \o
    IF n <= 8
    THEN <<Enter(<<"copy_leaf", bw, n>>, TRUE)>>
    ELSE FlattenSeq([i \in 1..7 |-> <<LookCopy(bw, i + 1),
                                  Enter(<<"copy_leaf", bw, i + 1>>, TRUE)>>])

(* createSink, createSource and the selection units: metric, instance, entry. *)
UnitScript(found, counted, unit) ==
    <<Must(found, <<counted>>), Place(unit), Enter(unit, TRUE)>>

SinkScript(bw) == UnitScript(HasSimple("sink", bw), <<"sink", bw>>, <<"sink", bw>>)

SourceScript(val, bw) ==
    UnitScript(HasSimple("source", bw), <<"source", bw>>, <<"source", val, bw>>)

(* getArbiterMetric is getOrGenMergeMetric. *)
SelectionScript(kind, n, guard, bw) ==
    LET unit == IF kind \in {"mixer", "arbiter"} THEN <<kind, n, bw, guard>>
                                                 ELSE <<kind, n, guard, bw>>
    IN CASE kind = "mixer" -> UnitScript(HasMixer(n, bw, guard), unit, unit)
         [] kind = "arbiter" -> UnitScript(HasSelection("merge", n, guard, bw),
                                           <<"merge", n, guard, bw>>, unit)
         [] OTHER -> UnitScript(HasSelection(kind, n, guard, bw), unit, unit)

(* printBuffChp: a chain of one-place buffers, the last place of which     *)
(* holds the initial value, if there is one.  A buffer of less than two    *)
(* places without an initial value does not come here (handleBuff).        *)
OneBufs(b) == IF b.init THEN (IF b.n > 1 THEN b.n - 1 ELSE 0) ELSE b.n - 1
PlaceBuff(b) ==
    [i \in 1..OneBufs(b) |-> Place(<<"onebuf", b.bw>>)]
        \o IF b.init THEN <<Place(<<"init", b.val, b.bw>>)>> ELSE <<>>

(* printBuffChpLib: both entries get the metric of a one-place buffer. *)
EnterBuff(b) ==
    LET found == HasSimple("onebuf", b.bw) IN
    (IF b.n > 1 THEN <<Enter(<<"onebuf", b.bw>>, found)>> ELSE <<>>)
    \o IF b.init THEN <<Enter(<<"init", b.val, b.bw>>, found)>> ELSE <<>>

(* Mutation: the entry is written before the process. *)
FuncSteps_EntryFirst(unit) == <<Place(unit), Enter(unit, TRUE), Define(unit)>>

(* printFU. *)
FuncSteps(unit) == <<Place(unit), Define(unit), Enter(unit, TRUE)>>

(* handleBuff looks for the metric of each buffer, printDFlowFunc for that *)
(* of the function; the unit itself is in the library or optimized.        *)
FuncScript(q) ==
    LET unit == <<"func", q.proc>>
        looks == [i \in DOMAIN q.buffs |->
                    Look(HasSimple("onebuf", q.buffs[i].bw),
                         <<<<"onebuf", q.buffs[i].bw>>>>, "none")]
    IN  looks
        \o <<Look(HasFunc(q.inputs, q.bw), <<unit>>, "nofunc")>>
        \o FuncSteps(unit)
        \o FlattenSeq([i \in DOMAIN q.buffs |-> PlaceBuff(q.buffs[i])])
        \o FlattenSeq([i \in DOMAIN q.buffs |-> EnterBuff(q.buffs[i])])

(* printBoolToIntDecl and, at the end of the process, printBoolToIntConv. *)
BoolScript(unit) == <<[Enter(unit, TRUE) EXCEPT !.do = "zero"], Place(unit)>>

ScriptOf(q) ==
    CASE q.t = "copy" -> CopyScript(q.bw, q.n)
      [] q.t = "sink" -> SinkScript(q.bw)
      [] q.t = "source" -> SourceScript(q.val, q.bw)
      [] q.t = "func" -> FuncScript(q)
      [] q.t \in {"split", "merge", "mixer", "arbiter"} ->
            SelectionScript(q.t, q.n, q.guard, q.bw)
      [] q.t = "bool" -> BoolScript(<<q.to>>)

-----------------------------------------------------------------------------
Init ==
    /\ todo = Length
    /\ script = <<>>
    /\ have \in BOOLEAN
    /\ circuit = EmptyBag /\ lib = EmptyBag /\ conf = EmptyBag /\ stat = EmptyBag
    /\ processes = {} /\ instances = {}
    /\ status = "run"

Element(q) ==
    /\ status = "run" /\ script = <<>> /\ todo > 0
    /\ todo' = todo - 1
    /\ script' = ScriptOf(q)
    /\ UNCHANGED <<have, circuit, lib, conf, stat, processes, instances, status>>

Doing(what) ==
    /\ status = "run" /\ script # <<>> /\ Head(script).do = what
    /\ script' = Tail(script)

ExitWith(reason) ==
    /\ status' = reason
    /\ UNCHANGED <<circuit, lib, conf, stat, processes, instances>>

(* Mutation: a unit is counted once only. *)
Counted_Once(bag, units) == bag (+) SetToBag({u \in {units[i] : i \in DOMAIN units} : ~BagIn(u, bag)})

(* updateStatistics. *)
Counted(bag, units) == bag (+) SetToBag({units[i] : i \in DOMAIN units})

(* Without metrics a search returns nothing, and the entry exits. *)
LookUp ==
    /\ Doing("look")
    /\ IF have /\ ~Head(script).found /\ Head(script).error # "none"
       THEN ExitWith(Head(script).error)
       ELSE /\ stat' = IF have /\ Head(script).found
                       THEN Counted(stat, Head(script).units) ELSE stat
            /\ UNCHANGED <<circuit, lib, conf, processes, instances, status>>
    /\ UNCHANGED <<todo, have>>

PrintInstance ==
    /\ Doing("place")
    /\ circuit' = circuit (+) Elaborated(Head(script).unit)
    /\ UNCHANGED <<todo, have, lib, conf, stat, processes, instances, status>>

(* Mutations: the name is not put into the table; the last entry is not    *)
(* the last.                                                               *)
Remembered_Not(table, name) == table
Remembered_PastEnd(table, name) ==
    IF Cardinality(table) <= MAX_PROCESSES THEN table \union {name} ELSE table

(* checkAndUpdateInstance and checkAndUpdateProcess, when the table does   *)
(* not have the name: a full table stays as it is.                         *)
Remembered(table, name) ==
    IF Cardinality(table) < MAX_PROCESSES THEN table \union {name} ELSE table

(* printFUChpLib. *)
PrintProcess ==
    /\ Doing("define")
    /\ LET u == Head(script).unit IN
       IF u \in processes
       THEN UNCHANGED <<lib, processes>>
       ELSE /\ lib' = lib (+) One(u)
            /\ processes' = Remembered(processes, u)
    /\ UNCHANGED <<todo, have, circuit, conf, stat, instances, status>>

Entered(u) ==
    IF u \in instances
    THEN UNCHANGED <<conf, instances>>
    ELSE /\ conf' = conf (+) One(u)
         /\ instances' = Remembered(instances, u)

(* printConf, printConf_array and printMixerConf. *)
PrintEntry ==
    \/ /\ Doing("enter")
       /\ IF have /\ Head(script).found
          THEN /\ Entered(Head(script).unit)
               /\ UNCHANGED <<circuit, lib, stat, processes, status>>
          ELSE ExitWith("nometrics")
       /\ UNCHANGED <<todo, have>>
    \/ /\ Doing("zero")
       /\ Entered(Head(script).unit)
       /\ UNCHANGED <<todo, have, circuit, lib, stat, processes, status>>

FileEnding ==
    /\ status = "run" /\ script = <<>> /\ todo = 0
    /\ status' = "done"
    /\ UNCHANGED <<todo, script, have, circuit, lib, conf, stat, processes, instances>>

Next ==
    \/ \E q \in Requests : Element(q)
    \/ LookUp
    \/ PrintInstance
    \/ PrintProcess
    \/ PrintEntry
    \/ FileEnding

Spec == Init /\ [][Next]_vars

-----------------------------------------------------------------------------
Between == script = <<>> /\ status \in {"run", "done"}

(* Types of the variables. *)
TypeOK ==
    /\ todo \in 0..Length
    /\ have \in BOOLEAN
    /\ IsABag(circuit) /\ IsABag(lib) /\ IsABag(conf) /\ IsABag(stat)
    /\ Cardinality(processes) <= MAX_PROCESSES
    /\ Cardinality(instances) <= MAX_PROCESSES
    /\ status \in {"run", "done", "missing", "nofunc", "nometrics"}

(* After every element, each process of the elaborated circuit has its     *)
(* entry in .conf, through however many levels a copy is built; except     *)
(* leaves of one output, which createCopyProcs does not think of.          *)
ConfCoversCircuit ==
    Between =>
        \A u \in BagToSet(circuit) :
            BagIn(u, conf) \/ (u[1] = "copy_leaf" /\ u[3] = 1)

(* README.md: .conf specifies the performance of each CHP process. *)
ConfCoversAll == Between => BagToSet(circuit) \subseteq BagToSet(conf)

(* A function unit that is instantiated is defined in the library, and the *)
(* files never get further than one element apart, however the run ends.   *)
FilesInStep ==
    /\ \A u \in BagToSet(circuit) : u[1] = "func" =>
        BagIn(u, lib) \/ (script # <<>> /\ Head(script) = Define(u))
    /\ \A u \in BagToSet(conf) : u[1] = "func" => BagIn(u, lib)
    /\ Cardinality({u \in BagToSet(lib) : ~BagIn(u, conf)}) <= 1

(* Nothing is written twice unless the table of names is full. *)
WrittenOnce ==
    /\ \A u \in BagToSet(conf) :
        NumberOf(u, conf) > 1 => Cardinality(instances) = MAX_PROCESSES
    /\ \A u \in BagToSet(lib) :
        NumberOf(u, lib) > 1 => Cardinality(processes) = MAX_PROCESSES

(* .stat counts sinks, functions, splits and mixers as often as the        *)
(* circuit has them, those included that the translator adds itself.       *)
StatCountsUnits ==
    Between /\ have =>
        \A u \in BagToSet(circuit) \union BagToSet(stat) :
            u[1] \in {"sink", "func", "split", "mixer"} =>
                NumberOf(u, stat) = NumberOf(u, circuit)

(* The program says that there are no function metrics when there are none.*)
NoFuncMeansNone ==
    status = "nofunc" => \A u \in Templates : u[1] # "func"

=============================================================================
