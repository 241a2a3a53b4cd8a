----------------------------- MODULE DflowBlock -----------------------------
(***************************************************************************)
(* The dataflow block of an ACT process: a sequence of dataflow elements   *)
(* that read and drive the channels of the process.                        *)
(***************************************************************************)
EXTENDS Integers, Sequences, FiniteSets

CONSTANTS
  Chan,      \* the channels of the process (its act_connections)
  BoolChan,  \* the channels whose data type is bool: the keys of isBoolMap
  Null,      \* a null ActId: a split output `*', a mixer without control output
  Programs   \* the dataflow blocks the process may hold

Kinds == {"func", "cluster", "split", "merge", "mixer", "arbiter", "sink"}

(* One output of an element. "const" is an E_INT right-hand side, "calc" any *)
(* other expression; buf tells [n] ("plain"), [n,v] ("init"), an init value  *)
(* that is not an E_INT ("initexpr"), or no buffer clause at all ("none").   *)
Output == [chan : Chan \cup {Null}, expr : {"calc", "const"},
           buf : {"none", "plain", "init", "initexpr"}, nbuf : Int]

(* reads is the channel occurrences in the order the first pass visits them: *)
(* the variables of the expressions of a func or a cluster, input and guard  *)
(* of a split, guard and inputs of a merge, the inputs of a mixer or arbiter. *)
(* form is what a cluster holds that one of the passes refuses: an           *)
(* expression with a concatenation or a bitfield ("concat"), a split, merge, *)
(* mixer or arbiter ("selection"), a sink or a nested cluster ("unsupported"). *)
Element == [t : Kinds, form : {"plain", "concat", "selection", "unsupported"},
            reads : Seq(Chan), outs : Seq(Output)]

(* What the ACT front end has already checked: no channel is driven twice, *)
(* null outputs occur only where the grammar has them; only a func or a    *)
(* cluster has right-hand sides and buffers; and an element whose           *)
(* right-hand sides are all E_INTs has no variables.                       *)
OutSites(q) == UNION {{i} \X DOMAIN q[i].outs : i \in DOMAIN q}
ChanAt(q, s) == q[s[1]].outs[s[2]].chan
WellFormed(q) ==
  /\ \A s, u \in OutSites(q) :
       s # u /\ ChanAt(q, s) # Null => ChanAt(q, s) # ChanAt(q, u)
  /\ \A s \in OutSites(q) :
       ChanAt(q, s) = Null => \/ q[s[1]].t = "split"
                              \/ q[s[1]].t \in {"mixer", "arbiter"} /\ s[2] = 2
  /\ \A i \in DOMAIN q : /\ q[i].t = "split" => Len(q[i].reads) = 2
                         /\ q[i].t = "sink" => Len(q[i].reads) = 1
                         /\ q[i].t = "merge" => q[i].reads # <<>>
                         /\ q[i].t \in {"func", "cluster"} /\ q[i].reads # <<>> =>
                              \E o \in DOMAIN q[i].outs : q[i].outs[o].expr = "calc"
                         /\ q[i].t = "merge" => Len(q[i].outs) = 1
                         /\ q[i].t \in {"mixer", "arbiter"} => Len(q[i].outs) = 2
  /\ \A s \in OutSites(q) :
       \/ q[s[1]].t \in {"func", "cluster"}
       \/ q[s[1]].outs[s[2]].expr = "calc" /\ q[s[1]].outs[s[2]].buf = "none"

ASSUME BoolAssumption == BoolChan \subseteq Chan
ASSUME NullAssumption == Null \notin Chan
ASSUME ProgramsAssumption == \A p \in Programs : p \in Seq(Element) /\ WellFormed(p)
=============================================================================
