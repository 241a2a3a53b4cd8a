# A verification project for dflowmap

dflowmap translates the `dataflow` blocks of an ACT program into a network of
CHP processes: instances of a fixed library (`src/dflow_std/lib.act`) and of
function units that it writes itself. This directory states what the
translation must guarantee, checks it with TLC on small programs and proves
part of it with TLAPS for every program.

Paths below are relative to the root of the project (`src/` is the repository);
`PG` is `src/src/core/ProcGenerator.cc`, `CG` is `src/src/backend/chp/ChpGenerator.cc`.

## 1. The system

| component | state | operations | behaviours that are hard |
|---|---|---|---|
| driver (`main.cc`, `DflowMapPass.cc`) | options, output files, cache directory | parse options, make and remove directories, open files, one `ProcGenerator` per process | an exit anywhere leaves half a file |
| translator (`ProcGenerator.cc`) | `opUses`, `copyUses`, `isBoolMap`, `bitwidthMap`, `sinkCnt`, `_anon_names` | first pass `collectOpUses`; `createCopyProcs`; second pass, one handler per kind of element; converters | two passes that must agree on what a use is, running counts, flags set in three places |
| instance text (`ChpGenerator.cc`) | the `_chp.act` file | one `print...` per kind of instance, buffer chains | off-by-one of the buffer chain |
| library (`dflow_std/lib.act`, `libq.act`) | the variables of each process | rendezvous `c!v`, `c?x`, probes `#c` | every interleaving of all the processes; processes that hold their input; rings |
| function units, configuration (`ChpLibGenerator.cc`, `ChpBackend.cc`) | tables of names already written, `_chplib.act`, `.conf` | print a unit once, print an entry once | tables of bounded size; entries that must cover the copy tree |
| expressions (`DflowGenerator.cc`, `EMIT_*` in PG) | argument and result lists, `exprMap`, `calc` | flatten an expression to assignments | aligned lists, exact names as keys |
| names (`NameGenerator.cc`) | none | names of instances and processes | pipelined or not; names that coincide |
| metrics (`Metrics.cc`) | `opMetrics`, `templMetrics`, `cachedMetrics`, three files, `.dflow_cache` | read at start, look up, optimize and append | runs after a crash, runs with other options, a shared cache |
| netlist backend, logic optimizer, ACT library | - | called | other repositories |

How they interact: `main` expands the program, makes the files, reads the
metrics and runs the pass; the pass runs one translator per process; the
translator calls the backend at each instance, which writes to the text, the
unit library, the configuration and (if built with it) the netlist. It is one
thread without callbacks; the concurrency is all in what it writes: a network
in which every instance is a process.

What makes each part correct:

* translator: each reader of a channel gets the channel, or an output of its
  copy, for itself; no channel of the text has two readers or two writers, or
  only one end; the network is the dataflow graph; the buffers are those asked
  for; it never exits for a reason of its own bookkeeping.
* library and network: each token reaches each of its readers once, in order;
  the network goes on as long as the block has something to do.
* function units and expressions: the assignments compute the expression, the
  names tell units apart, each unit and each configuration entry appears once.
* configuration and statistics: every process of the circuit has an entry, and the
  counts are those of the circuit.
* metrics: a record is only used with the netlist file it describes; a run stops
  with an error only for a reason outside it, and `-i` repairs what is left behind.

## 2. The modules

| module | what it is | code |
|---|---|---|
| `DflowBlock` | what a dataflow block is: elements, channels, what the ACT front end has checked | ACT library (external) |
| `ProcGenerator` | the translator as a state machine, with its safety properties | PG, CG |
| `Dataflow` | the abstract specification: what a block means, with a queue of tokens per reader | external: the dataflow language |
| `ChpLib` | the library processes and function units as a net of rendezvous | `lib.act`, `ChpLibGenerator.cc`, `NameGenerator.cc` |
| `DflowMap` | the translator, then the network it wrote, with an environment; the refinement of `Dataflow` | both |
| `Multicast` | the abstract specification of a copy: every output gets every token, in order | `lib.act` |
| `CopyTree` | `copy` of more outputs than a leaf has, as a tree of leaves; implements `Multicast` | `lib.act` |
| `FuncCompile` | from expressions to the process of a function unit, in both passes | PG, `DflowGenerator.cc`, `ChpLibGenerator.cc`, `NameGenerator.cc` |
| `FuncValues` | what the unit computes: values of expressions, and of the assignments made of them | external: CHP, ACT library |
| `UnitFiles` | instances, processes, entries and counts that each element leads to | `Metrics.cc`, `ChpBackend.cc`, `ChpLibGenerator.cc`, CG, PG |
| `MetricsStore` | metrics files, netlists and directories over several runs | `Metrics.cc`, `main.cc`, `Helper.cc` |
| `MC...` | the instances TLC uses | - |
| `NatLemmas` | a set of natural numbers has a least element; recursion and induction over trees | - |
| `ProcGeneratorProofs` | theorems: counts of the two passes, copies, what each instance of the text is | - |
| `NetProofs` | theorems: who reads and writes each channel of the text, and that the text is the dataflow graph | - |
| `DflowMapProofs` | theorems: the processes in the network of the text, and that it does what the block means | - |
| `CopyTreeProofs` | theorems: the tree of leaves is a copy | - |
| `FuncCompileProofs` | theorems: the passes over an expression agree, and the widths of ports | - |
| `UnitFilesProofs` | theorems: the files agree | - |
| `MetricsStoreProofs` | theorems: records, netlists, and why runs fail | - |

`DflowMap` composes `ProcGenerator` and `ChpLib` and implements `Dataflow`. The other
modules stand beside them and meet them in one place each: `CopyTree` justifies the
single leaf that `ChpLib` has for a copy, `FuncCompile` the one step in which a
function unit of `ChpLib` computes, `UnitFiles` takes the calls that the handlers of
`ProcGenerator` make to the backend, and `MetricsStore` the calls that `UnitFiles` makes
for function units.

### ProcGenerator

One action per step of `ProcGenerator::run`: `CollectOpUses` is one round of the
loop of `collectOpUses`, `CreateCopyProc` one of `createCopyProcs`, `HandleFunc`,
`HandleDFlowCluster`, `HandleSplit`, `HandleMerge`, `HandleMixer`, `HandleSink`
one element of the second pass, `ElementExit` any `exit(-1)` of a handler,
`PrintBoolToIntConv` one channel of the last loop. Loops over maps, whose order
is that of pointers, visit the keys in any order.

`opUses`, `copyUses`, `boolFlags` (`isBoolMap`), `sinkCnt` and `anonNames` are the
maps and counters of the code, with `NoEntry` where a map has no key; `opUses`
holds the number of uses less one, as in the code. The text is two sets: `insts`,
the instances with the channels on their ports, and `decls`, the channels
declared. A channel of the text is a record that says what its name is made of
(`_toint_x`, `xcopy.out[2]`, `x_bufIn`, ...), so that two names are equal when the
code would print the same string for the same channel. Instance names are not
kept: an instance is told apart by its element and its ports.

An element carries the channels it reads in the order of the first pass, and for
each output whether it is a constant or computed and its buffer clause. What the
code refuses is in the model: too few inputs of a selection, a buffered constant,
an init value that is not a number, a cluster with a concatenation, a selection,
a sink or a cluster in it. What a handler printed before it exits is not kept:
nothing reads it in the model.

### ChpLib

A send offers a value on its channel and stays there until the receiver takes
it; a probe holds while a value is offered. Each process is a loop of rounds:
`Receive` (in parallel, or the guard first in `pipe_merge`), then `Send` (in
parallel). The `unpipe_` processes and the converters do not receive: they wait
for their probes, `Send` what they see, and `Release` (the receives at the end)
when the sends are over. `Holds` is that choice, made for the selections by
`PIPELINE` in `NameGenerator.cc`. `Reset` gives `init` its value. A split whose guard
is the number of no output waits for good, as the selections of `lib.act` do.

A mixer selects with `[]`, for which the program promises that one input at a time
is ready; where both are, the model takes either.

A process keeps what it received in a variable, which in all but one has the width of its
data. That of `pipe_arbiter` has the width of the control output (`lib.act:144`), the
logarithm of the number of inputs (`ControlWidth`): with `PIPELINE` true an arbiter loses
the bits of its data above that (`Stored`). As compiled, arbiters have no variable. Other
cuts to the width of a channel are part of `Eval`; a bool channel is taken to carry 0 or
1, which the converters pass on.

### Dataflow, and how the network implements it

`Dataflow` has a queue of unread tokens for each reader of each channel; an
element fires when its operands have tokens, takes them and appends the results
to the queues of all readers. `DflowMap` maps the network to these queues: the
queue of an operand is what its process has received, then, going back from the
port through copies, converters and buffers to a process that computes, the
tokens offered and received on the way. A process that holds its input has
already sent the token that is still offered to it; that one is counted once.
A send of a computing process is then one firing, everything else a stutter.

`DflowMap` runs the translator to its end and then the network; the environment
sends up to `MaxPut` tokens on the channels the block reads and does not drive,
and reads the channels it drives and does not read.

### CopyTree

The recursion of `copy<W,N>` is unrolled: `Width` gives the outputs of each level,
`Slice` those of one leaf. A leaf takes a token when it has sent the last one on all
its outputs. `Multicast` has a number for the input and a sequence for each output,
and no output more than `Slack` behind, one slot for each level of the tree.

### FuncCompile

`CollectUses` is the first pass over one element (`collectExprUses`, for a cluster
`recordExprUses`), `HandleFunc` the second (`printExpr`, `EMIT_*`, `handlePort`, the
bookkeeping of outputs), `PrintUnit` the declaration of the process in
`printFUChpLib`. An expression is an operator with operands. `Exprs` has the expressions
of a program with their parts, `Height` says how deep each is and `Width` what the ACT
library makes of its width. `Ids`, `UsesOf` and `PrintExpr` are recursive functions on
`Exprs`, each with an operator (`IdsIn`, `UsesIn`, `Printed`) for what it makes of the
results for the operands. `PrintExpr` walks an expression like `printExpr`, from the state
of `DflowGenerator` before to the one after: arguments, assignments with the width the
CHP text declares (`bw`), and the one handed down by reference that the logic optimizer
gets (`hidden`). `NameWidths` is what the name of the process says of widths, from which
`printFUChpLib` takes those of the ports: by position, over a list that has an element
which is a number in the name but not among the outputs.

In `FuncValues`, `Value`, `WidthIn` and `Cut` are what CHP and the ACT library make of an
operator; `Eval` is the reference: the value of the expression.

### UnitFiles

A request is what the translator asks the backend for at one element; `ScriptOf` is
the sequence of steps the handlers then take: a search for a metric (`LookUp`), a line
of `_chp.act` (`PrintInstance`), a process of `_chplib.act` (`PrintProcess`), an entry
of `.conf` (`PrintEntry`). A search that finds nothing exits there, with all the
steps before it on file. `Has...` are the searches of `Metrics.cc` with their
fallbacks, `Leaves` the elaboration of `copy` by which the entries are judged.
`processes` and `instances` are the tables of `MAX_PROCESSES` names.

### MetricsStore

A location is the cache, or `customF` of an output directory. A run prepares both
(`RemoveFile`, `RemoveNetlist`, `RemoveDirectory` under `-i`, then `CreateDirectory`,
`FindFile`, `CreateFile`, `WriteHeader`), reads three files (`ReadStd`, `ReadLocal`,
`ReadCache`, `RejectFile`), and then takes function units one by one: from memory
(`FindUnit`), from the cache (`CopyFromCache`, `FinishFetch`, `RecordHit`), or from the
optimizer (`Optimize`, `FinishOptimize`, `CopyToCache`, `FinishStore`, `RecordLocal`,
`RecordInCache`); `UseRecord` puts the numbers into the output. Steps are divided where
another process, or a crash, sees the difference. `Kill` ends a run between any two steps.
A copy of a netlist is two steps, as in `copy_file`: the first truncates the target
(`Partial`: less than the whole netlist), the second has written all of it; in between the
run may be killed, or the disk be full (`CopyFails`, the exit of `copyFileToTargetDir`).
The optimizer writes its netlist in two steps as well. A file is its first line,
its records and whether a line is broken: the first line of a file is skipped as
the header, so that a record in its place is lost or makes the file refused.
`marks` is a history of what went wrong where (an interrupted removal, a file left
without header, a record cut by a full disk, a second copying of a netlist that was cut
short, a run with `-m`), cleared when the directory is removed; properties refer to it, no
action does.

## 3. What is checked

| run | question | result |
|---|---|---|
| `translate` | every well formed block of up to 3 elements from a set of 21, one of four channels bool | 9 properties hold |
| `network` | four blocks run as compiled (unpiped) | implement `Dataflow`, never stall, fire all |
| `pipelined` | blocks run with `PIPELINE` true, the loop of `tests/loop.act` among them | implement `Dataflow`, never stall |
| `loop_test` | the loop of `tests/loop.act` as compiled | **violated** (finding) |
| `sink_of_used_channel` | a sink against the message of its handler | **violated** (finding) |
| `copy_tree` | a copy of 5 outputs of leaves of 2: is it a copy? | implements `Multicast`, keeps the order |
| `func_compile` | every element of 18 and every cluster of up to 3, for all inputs | computes its expressions; passes and widths agree |
| `unit_files` | every program of up to 3 of 16 elements, with and without metrics, tables of 9 names | 5 properties hold |
| `conf_of_every_process` | has every process an entry in `.conf`? | **violated** (finding) |
| `no_function_metrics` | does "No function metrics?" mean that? | **violated** (finding) |
| `store` | three runs one after the other, two directories, two technologies, killed anywhere, full disk | 7 properties hold |
| `store_overlap` | three runs, two at a time, some with `-i` | 1 property holds |

Properties of the translator:

* `CountsSuffice`: the second pass asks for no channel the first has not counted
  and takes no copy output that is not there.
* `CopiesMatchUses`: one copy per channel with several uses, as wide as its uses.
* `PointToPoint`: at every moment no channel of the text has two readers or writers.
* `WellScoped`: channels of the text are declared once, and not used undeclared.
* `NetClosed`: each channel the translator made up has both ends.
* `NetIsGraph`: followed back through copies, converters and buffers, each operand
  comes from the channel the program names, and each output reaches it.
* `BoolsConverted`: bool channels meet only converters.
* `SlackAsWritten`: the buffers are those of the `[n]` or `[n,v]` clause.

`Bypassed` names the channels for which `PointToPoint`, `NetClosed`, `NetIsGraph`,
`BoolsConverted` and `HeldIsReceived` do not hold: those with a sink besides other uses or of type bool,
and bool control outputs of a mixer or arbiter. The code connects them directly.

Properties of the network: `ImplementsBlock` (refinement of `Dataflow`), `NoStall`
(when nothing can move, and the environment has sent all it can, the block has
nothing left to do), `EverythingFires` (it gets there), `HeldIsReceived` (what an
unpiped process saw is what it receives at the end of its round). With `PIPELINE` true
`ImplementsBlock` holds only where the data of an arbiter is not wider than its control
output; the arbiter of the run `pipelined` has data and a control of two bits.

Properties of the copy: `CopiesToAll` (refinement of `Multicast`, with its fairness),
`NoOvertaking` (a leaf is at most one token behind the leaf above it).

Properties of function units:

* `ComputesExpr`: for all inputs, what the process sends on an output is the value of
  its expression, cut to the width of the channel.
* `NetlistComputes`: with the widths the logic optimizer gets, the netlist computes the
  same, for expressions whose low bits depend on low bits only (`LowBits`).
* `PassesAgree`: the arguments of the unit are the channels the first pass counted.
* `PortWidths`: the ports have the widths of the channels they connect. This and
  `ComputesExpr` speak of the outputs before the first number of a cluster; behind one
  the positions are shifted and both fail.

Properties of the files of units:

* `ConfCoversCircuit`: each process of the elaborated circuit has an entry, except
  leaves of one output; `ConfCoversAll` has no exception and is a finding.
* `FilesInStep`: a function unit that is instantiated is defined, and wherever the
  program exits the files are at most one element apart.
* `WrittenOnce`: nothing is written twice unless the table of names is full.
* `StatCountsUnits`: `.stat` counts sinks, functions, splits and mixers as often as the
  circuit has them. Copies it counts at every look-up; they are left out.
* `NoFuncMeansNone`: a finding.

Properties of the store (the first six for runs that do not overlap, `Sequential`):

* `RecordHasItsNetlist`: beside each record is the netlist it was measured on, unless a
  removal was interrupted or `-m` was used there. There is one more exception, of the code's
  making: a unit found in the cache is not entered in `opMetrics`, so that its next use copies
  the netlist again, over the one that has its record. While that goes on, and if it is
  killed or fails, the netlist is cut (`Torn`), and a later run without `-i` uses it. The
  property allows the cut netlist of that measurement there, never one of another
  measurement or none. A first copying that is cut leaves no record beside it.
* `UsedHasNetlist`: the same for the numbers a run has put into its output.
* `UsedForTech`: no number is used for another technology, if no technology's name begins
  another (`Unambiguous`).
* `ErrorsHaveCauses`: each way to stop with an error has a cause outside the run.
* `InvalidateRepairs`: a run with `-i` never stops at what earlier runs left.
* `NoWastedOptimization`: what the cache has is not optimized again.
* `NetlistBeforeRecord`, for overlapping runs too: in a location that no command line
  removes, no record is without a netlist. Where `-i` goes it does not hold: a run that
  has read the cache goes on to write records of netlists that were removed under it.
  Nor does `RecordHasItsNetlist` hold for overlapping runs: two runs that measure one
  unit mix the netlist of one with the record of the other.

Every property has a mutant of the code, listed in `PROJECT.json`, that breaks it;
the mutated definitions stand beside the original as `X_Change`.

Findings:

1. `loop_test`: with `PIPELINE` false the ring of a merge and a split in
   `tests/loop.act` (lines 48 and 50) has one process that stores a token, the copy
   of the merge's output. In the second round split waits for merge, merge for copy
   and copy for split. One more buffer in the ring, or the piped processes, cure it:
   the block `Loop` of `network` has `[2]` in its ring, and the mutant that drops this
   buffer (`HasBuff_Strict`) stalls as well.
2. `sink_of_used_channel`: the sink of a channel with other uses is connected to the
   raw channel beside the channel's copy, whose extra output is left open.
3. `conf_of_every_process`: for a copy of more than 8 outputs `createCopyProcs` enters
   leaves of 2 to 8 outputs; `copy` makes a leaf of one output where a level has a
   rest of one (9, 17, 65 outputs), and that process has no entry, although the
   repository's README says that `.conf` has every CHP process.
4. `no_function_metrics`: the loop over smaller numbers of inputs decrements once more
   after a hit; a hit at one input ends at 0, and the program says "No function
   metrics?" and exits.

### Bounds

* `translate`: blocks of `MaxLen` = 3 elements. The passes touch the state of one
  channel at a time; three elements have a channel with four and more uses, in all
  orders of func, cluster, split, merge, mixer, arbiter and sink, a channel driven
  and read, bool and not bool, with and without buffers, and each refusal first, in
  the middle and last. The state space is a tree of straight runs, plus the orders
  of the map loops.
* the networks: `MaxPut` = 2 tokens on each input, values 0 and 1 (in `pipelined` 0 to 2, two
  bits, one more than the control output of the mixer has; no channel there is bool, since
  the converters are the same with `PIPELINE` true). Two tokens are what
  it takes for one token to overtake, duplicate or block another, and for a ring to
  be in its second round; 0 and 1 are the guards of a two-way split or merge and tell
  tokens apart. `Eval` is the parity of the operands, complemented for every other
  output, so that a lost, repeated or exchanged operand shows in the value.
* `copy_tree`: leaves of 2 for 5 outputs give what leaves of 8 give for 65: three levels
  (5, 3, 2 and 65, 9, 2), with a rest on two. `Tokens` = 4 fills the tree (one token per level) and
  has one waiting.
* `func_compile`: `MaxElements` = 3 elements of a cluster, so that an element has one
  before and one after it. Channels are 1 and 2 bits wide and all their values are
  tried; the outputs are narrower than, as wide as and wider than their expressions.
* `unit_files`: `Length` = 3 elements, `MAX_PROCESSES` = 9 names, so that the table of
  entries is full in the middle of a program with two larger copies (the code has 500
  names); the table of processes works alike and does not fill up. There are copies of 2, 9,
  20 and 66 outputs (`MaxFanout`), which have one leaf, two and three levels, rests
  and none. Templates are missing for some units.
* `store`: three runs, one unit, `MaxUses` = 2 units per program, two measurements. One
  unit is enough for each of the questions, which relate copies of one unit in
  several places; two uses make the second find what the first recorded. Three runs are
  one that breaks something, one that goes on with it and one that meets the result.
* `store_overlap`: `MaxActive` = 2 of three runs overlap, one use each, one measurement: the
  property only asks whether a netlist is there.
* `CHECK_DEADLOCK FALSE`: programs end, and with a bounded environment a network comes to
  rest. That networks do so only when they should is `NoStall`, for the tree it is
  the fairness of `Multicast`.

### Fairness

The translator is one thread; its properties need no fairness. For the network `MapFairSpec`
has `WF(MapNext)` only: as long as the translator, some process, or the environment can go
on, one does.
That is less than what any simulator or circuit does (each process goes on by
itself); it is enough because the environment sends a bounded number of tokens.
`CopyTree` has weak fairness for each channel: both ends of a rendezvous that are ready
go on. `FuncCompile`, `UnitFiles` and `MetricsStore` have none: their properties are about
what must not happen, and a run may be killed.

## 4. What is proved

The theorems hold for every value of the constants that satisfies the assumptions named
with them. The provers find no liveness, no ENABLED, and nothing about RECURSIVE
operators; induction is done by hand, on the least element of a set of natural numbers
(`LeastNatural`): if a claim failed for some level, buffer or step, take the first.

### The translator

For all channels, bool channels and well formed blocks (`BoolAssumption`,
`NullAssumption`, `ProgramsAssumption` in `DflowBlock`). `WellFormed` is what the ACT front
end has checked. It says no more than the grammar and the checks of the library do: no
channel is driven twice, a split reads its guard and its input, a sink one channel, a
merge has a guard at least, and a function or cluster that reads anything has an
expression that is not a number.

`ProcGeneratorProofs`:

* `TypeOKTheorem`: `Spec => []TypeOK`.
* `CountsSufficeTheorem`: `Spec => []CountsSuffice`. `CountsSuffice` alone is not
  inductive: that a copy output is there depends on what the first pass counted and
  on how many the second has taken. The invariant `IInv` ties both to the program:
  while the first pass is at element n, `opUses[c] + 1` is the number of sites at
  which the first n - 1 elements use c (`UsesCounted`); a channel has a count of
  copies exactly when it has a count of uses, it stays 0 until the second pass, and
  while that is at element n it is at most the number of sites in the first n - 1
  (`CopiesBounded`). The sites of element n are then sites not yet taken, and the
  index of any of them is within the copy. `InvTheorem` is `Spec => []IInv`; lemmas
  give the cardinality of the sites when an element is added (`SitesStep`,
  `SitesMonotone`) and the copies one element takes (`TakenInv`, `OperandsCovered`).
* `CopiesMatchUsesTheorem`: `Spec => []CopiesMatchUses`, by `CopyText`: the copies in the
  text are those of the channels with several uses that have been visited. No handler
  writes a copy (`HandlersWriteNoCopy`).
* `TextTheorem`, the invariant `TextInv` on which everything about the network rests: each
  instance has one of four shapes, which fix its ports but for the numbers that are
  given out (`Shapes`); copy outputs, sinks and anonymous channels are numbered below
  their counters, and no number is on two ports (`NumbersIssued`, `NumbersOnceIn`,
  `NumbersOnceOut`); an element has one unit (`OneUnit`).

`NetProofs`:

* `PointToPointTheorem`. An input port is, by the shapes, the use of a channel by the
  element it stands for, the copy or the converter in front of its uses, or carries a
  number. Two of these on one channel without a copy would be two use sites of a
  channel whose use count is 0. For outputs it is that no channel is driven twice.
* `BoolsConvertedTheorem`, from the same lemmas.
* `WellScopedTheorem`, by `ScopeInv`: all names declared so far are int twins of
  flagged channels, links of buffers of elements passed, or numbered (`Known`); what a
  step declares is none of them, so no name is declared twice.
* `NetClosedTheorem`, by `ClosedInv`: a flagged channel has the end that set the flag
  (`FlagsUsed`), links have both ends at once (`LinksClosed`), what the elements passed
  owe is in the text (`ElementsIn`, `ConvertersIn`), and all copy outputs given out are
  read (`CopiesRead`). That all are given out in the end is the equality `CopiesTaken`, for
  which `IInv` has only a bound: the number of outputs taken is the number of sites
  passed. It fails for a channel with a sink, hence `Bypassed`.
* `SlackAsWrittenTheorem`: the stages of a chain are pairwise different and are all in
  the text, so their number is that of the buffers.
* `NetIsGraphTheorem`. `Root`, the way back from a port through copies, converters and
  buffers, is defined by the number of instances as its bound. A trail (`Trail`) is a
  set of instances, each of which is passed once, so it is not longer than there are
  instances and `Root` has come to its end (`UpExists`); the text is finite
  (`FiniteText`). The trail of a chain of n buffers is built from the last stage back.

### The network

`DflowMapProofs`, with also `ValueAssumption`, `EvalAssumption`, `ControlAssumption` and
`MaxPutAssumption` of `DflowMap`: init values, constants and results are values, values
are numbers without a sign (the data of a channel is an `int<W>`) and with a number all
smaller ones, and the control of a mixer or arbiter can carry the numbers of its inputs.

* `NetTheorem`: `MapSpec => [](AllInv /\ ScopeInv /\ ClosedInv /\ UsesRead)`. `DflowMap` takes
  steps of the translator or leaves it alone, so that all of the above holds of the
  network that runs. `UsesRead` is new: each channel the program reads has a reader in
  the text, under the name by which the environment sends on it.
* `NetworkTheorem`, by `NetworkInv`: nothing runs before the translator is done, each
  process holds values of its own inputs (`OwnInputs`), and what an unpiped process or
  a converter holds is still offered to it (`HeldOffered`). A step disturbs that only
  if it takes an offer from a channel; `StepOf` says that a process takes only from its
  own inputs, `OneReader`, from `PointToPointTheorem`, that nobody else has these, and
  `RawReader` that the environment reads no channel the program reads.
* `HeldIsReceivedTheorem`: `MapSpec => []HeldIsReceived`.
* `MapTypeOKTheorem`: `MapSpec => []MapTypeOK`, by `ValueInv`: what is offered is a value on a
  port of the network, what is held is a value. For the environment's sends it needs
  `UsesRead`. `ValueTheorem` is its part about values.

`ImplementsBlockTheorem`: `MapSpec /\ NothingBypassed /\ NothingCut => ImplementsBlock`.
Both are conditions on the program. `NothingCut`: where arbiters are piped, each has a
control output wide enough for its data; with wider data `pipe_arbiter` loses bits and
the refinement is false. As compiled there is nothing to ask. (That what is left of a
cut value is a value, which the types need, goes by the powers of two being positive,
`PowersPositive`.) `NothingBypassed`: the code connects none of its channels
directly (`Bypassed`). With a sink beside other uses the refinement is false, for the
reason of finding 2. For the other two cases, a bool channel in a sink or as the
control of a mixer or arbiter, TLC finds it true in small blocks, but the lemmas on
who reads and writes a channel leave them out. The argument:

* The invariant is `NetInv`: that of the translator and the network above, that each
  element with operands has its process (`UnitsIn`), and that a merge has received no
  more than its guard and the input the guard names, a mixer or arbiter one input
  (`RoundInv`). `NetInvTheorem` is `MapSpec => []NetInv`.
* `TokensTo` goes back through the network by as many steps as there are instances.
  On a way from a reader's port to where the tokens of its channel start (`OnWay`,
  `Source`) it solves its equation (`WayTokens`): the tokens on the way to n are what is
  offered on n, what the process in front of n has received and not sent, and the
  tokens on the way to its input. Ways end because trails do (`AlongWays`).
* Three lemmas say what can happen to the tokens on a way: the first is taken
  (`TokensTaken`), one is added at the source (`TokensSent`), or a process on the way
  passes one on and they stay the same (`TokensPassed`). The third is where a process that
  holds its input matters: what it has sent on is still offered to it (`NetworkInv`),
  and is counted once.
* The queue of a reader is what its process has received, then the tokens on the way
  (`Arrives`, `QueueIs`). No other port takes them (`ReaderOnly`).
* So the steps: to receive or release is no step of the block (`ReceiveStutters`,
  `ReleaseStutters`); the send of an element's process is a firing (`SendFires`, by kind of
  element `UnitFires`, `SplitFires`, `MergeFires`, `MixerFires`, `SinkFires`), that of a source is
  the constant of its output (`SendsConst`), that of the sink of a null output nothing
  (`SpareStutters`); copies, converters and buffers do nothing (`PassStutters`); the
  environment's sends and receives are those of the block (`PutMoves`, `GetMoves`); and when
  the network starts, each queue holds the initial tokens the program asks for
  (`StartStutters`, `TokensStart`, by `InitialBuffer`).

### Function units

`FuncCompileProofs`, for any channels and widths, any number of elements in a cluster and
any expressions that are made of operators with operands (`WidthsAssumption`,
`ElementsAssumption`, `ExprsAssumption`). The last says what the front end makes of an
expression: how many operands an operator has, that the bits of a bitfield are in order,
and that operands are less high than their operator.

* That the recursive functions solve their equations is shown by `TreeRecursion` of
  `NatLemmas`, and what holds of all their values by `TreeInduction`. Walking the operands
  is a recursion over positions (`ChainRecursion`).
* `PrintExprPrints`, by induction over the height of expressions: from any state of the
  generator whose names refer to arguments and earlier results, printing an expression
  leads to such a state again, and appends to the arguments those channels of the
  library's list (`Ids`) that are not among them yet, in that order. There is a lemma for
  each kind of step (`ArgumentReady`, `BitfieldReady`, `QueryReady`, `PrintAllNamed`,
  `AssignReady`). `UsesAreIds`: the first pass counts the channels of the same list.
* `FuncInvTheorem`, the invariant `FuncInv`: `uses` is the set of the list of all elements
  so far, and, unless the program has exited, `gen.args` is that list without repetition
  up to the element in work (`GenInv`). Equality of the order, not only of the sets, is
  needed for widths, which go by position. An element that is a number adds nothing to
  either (`NumberHasNone`), so that skipping it in the second pass does no harm to the
  arguments.
* `TypeOKTheorem`, `PassesAgreeTheorem`, `PortWidthsTheorem`.

### The copy tree

`CopyTreeProofs`, for any number of outputs and any size of the leaves of at least 2
(`SizesAssumption`): first that `Width`, a recursive function, is the solution of its
equation, that the levels get narrower down to one leaf, and that the slices of a level
are disjoint and cover the level below.

* `InvTheorem`, the invariant: a leaf owes its token only to outputs of its own
  (`OwesOwn`); the leaf below an output has the token of the leaf above, or the one before
  while that is owed (`Linked`), and an output accordingly (`Delivered`).
* `TypeOKTheorem`, `NoOvertakingTheorem`; `InOrderTheorem`: every output has the tokens
  1, 2, 3, ... of the input.
* `CopiesSafelyTheorem`: `Spec => Abstract!Init /\ [][Abstract!Next]_(Abstract!vars)`, the
  safety part of `CopiesToAll`. That `Take` finds room needs `LagBound`: a leaf n levels
  below the root is at most n tokens behind, and less when the root is free.

### Files of units

`UnitFilesProofs`, for any requests, calibrated templates and table size
(`BoundsAssumption`, `RequestsAssumption`: what the translator can ask for). A script is
put together from blocks; in a block the steps that belong together are neighbours,
and each unit placed is entered further on (`Promise`). Both survive putting together
and taking off the first step, about which the invariant `UnitInv` says what the files
must have by now (`Undefined`, `Unentered`, `Due`, `Owed`).

* `TypeOKTheorem`, `FilesInStepTheorem`, `StatCountsUnitsTheorem`.
* `WrittenOnceTheorem`, by `Table`: a table has only names of what is written, and all of
  them until it is full.
* `ConfCoversCircuitTheorem`, by `LeavesFacts`: the widths of leaves that the recursion of
  `copy` makes for n outputs are among those for which `createCopyProcs` enters a leaf, or
  1. By induction over the levels.

### The store

`MetricsStoreProofs`, for any number of runs, units, directories, measurements and command
lines, all faults and any `MaxActive` (`ConstantsAssumption`, `NoneAssumption`):

* `TypeOKTheorem`: `Spec => []TypeOK`, by `TypeInv`, which adds that a run that works has a
  command line, a location while it prepares one, and a record in work.
* `NetlistBeforeRecordTheorem`: `Spec => []NetlistBeforeRecord`, runs overlapping. By
  itself it is not inductive: the step that writes a record must know that its
  netlist is there. `OverlapInv` adds `Deposited`, that a run about to write a record has
  put its netlist into the location, and that a `Kept` location is never in the course
  of being removed (`WipesUnkept`).
* `RecordHasItsNetlistTheorem` and `UsedHasNetlistTheorem`, for runs that do not overlap, by
  `StoreInv`: the memory of the one run that works mirrors the files it has read
  (`Mirrored`), the netlist of the unit in work is the one its record was measured on in
  every location it has reached (`InWork`), and the directories it has made are there
  (`Made`); a removal that was interrupted leaves records without netlists, never with
  another one (`NoWrongNetlist`). Both hold wherever a run is killed and whichever copy
  fails half way, with the exception said above: a netlist that was being copied over
  itself may be cut (`HasNetlist`, `Torn`).
* `UsedForTechTheorem`, by `TechInv`: the header of a file names the technology of all its
  records, and what the run in memory holds is of its own technology, because a file
  is only read, and so only appended to, when its header is accepted. Assumes
  `Unambiguous`.
* `NoWastedOptimizationTheorem`, an action property, from `Mirrored`.
* `ErrorsHaveCausesTheorem` and `InvalidateRepairsTheorem`, action properties, by `CauseInv`,
  which ties the history to the files: a file without header has the mark of the run
  that was killed before it wrote one, unless a run is just about to, a file with a record
  for a header that mark or the mark of a full disk, a broken line the latter
  (`Excused`); no file has two records of a unit; a directory that is not there has
  neither files nor history (`Gone`); the run that works has its files (`Opened`) and
  has metrics unless the technology or the file of `-m` is without (`Supplied`). For a run
  with `-i`, what it has removed has no history and then its own header until it has
  read it (`Renewed`). `Failures` lists where a run can fail and of what.

### Model-checked only

* Liveness: `EverythingFires`, and the fairness of `CopiesToAll`.
* `NoStall`, which is about ENABLED. `ImplementsBlock` is safety: a network that stalls
  implements its block, as the ring of finding 1 does.
* `ComputesExpr` and `NetlistComputes`: what the assignments compute is arithmetic modulo
  powers of two, bitwise operators among it, for which the provers have no rules.
  `FuncValues` has the RECURSIVE operators for it.

## 5. What is not modelled

* The value of an output in `DflowMap` is `Eval` of its operands, the same function for every
  unit; that units compute their expressions is checked in `FuncValues`. Operators it does not
  have are treated by the code like one it has.
* Elements that are just `true` or `false`; conversion to bool of a channel of several
  bits; the outputs behind a number in a cluster, as said under `PortWidths`.
* All `[n,v]` have one init value, all constants one value.
* In `ChpLib` a copy has one leaf (see `CopyTree`).
* Log statements, debug output, the wording of the text, the netlist backend, and what
  the logic optimizer does.
* Names as characters, and whether two of them coincide: instances are told apart by
  their elements. `sink%d` and the names of splits could meet names of the program.
* Processes with CHP instead of dataflow, which are printed as they are.
* In the store: numbers are values without arithmetic. The header of a file is written
  whole or not at all, and a record that is cut is cut before its last number. How much of a
  netlist is there when it is cut is not kept (`Partial`); the logic optimizer, another
  program, is taken to write its netlist whole unless it is killed. Whether a
  unit is calibrated is decided freely, which includes more cases than the searches
  of `UnitFiles`. A technology whose name begins another accepts its files (`Begins`);
  the run has no such pair, and `UsedForTech` assumes there is none; with one it would fail.
* The options `-p`, `-M` and `-s`, the passes of the ACT library, and the totals that
  `.stat` derives from its counts.
* `baseDir`, which points into freed memory: what is there is up to the allocator.

## 6. Plan

1. Done: `DflowBlock`, `ProcGenerator`, `Dataflow`, `ChpLib`, `DflowMap`, first proofs.
2. Done: `Multicast`, `CopyTree`.
3. Done: `MetricsStore` and its proofs, `UnitFiles`.
4. Done: `FuncCompile`, `FuncValues`, and the proof that the two passes over an expression agree.
5. Done: proofs of the safety properties of the translator, the copy tree, the files
   of units and the store; types of the network and `HeldIsReceived`.
6. Done: proof that the network implements `Dataflow`.
7. Open: the same for blocks with bool channels in a sink or as a control, for which
   the lemmas of `NetProofs` on one reader and one writer must allow for the missing
   converters; lemmas on numbers modulo powers of two, for `ComputesExpr`.
8. Open: names as sequences of parts, to ask when two of them are one.
