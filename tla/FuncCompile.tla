---------------------------- MODULE FuncCompile ----------------------------
(***************************************************************************)
(* How a function element, or a cluster of them, becomes the process of a  *)
(* function unit: the first pass of ProcGenerator.cc counts the uses of    *)
(* channels (collectExprUses, recordExprUses), the second flattens the     *)
(* expressions into a list of assignments (printExpr and EMIT_* there,     *)
(* DflowGenerator.cc), and ChpLibGenerator.cc declares the variables of    *)
(* the process, with widths it reads back from its name.                   *)
(*                                                                         *)
(* Each assignment has two widths: that of its expression, which the CHP   *)
(* process declares, and one handed down from the output, which the logic  *)
(* optimizer gets.  Buffers of an output are in ProcGenerator.             *)
(***************************************************************************)
EXTENDS Integers, SequencesExt

CONSTANTS
    Vars,       \* channels the program reads
    BW,         \* their widths
    Exprs,      \* expressions, and the expressions they are made of
    Height,     \* how deep they are
    Width,      \* their widths, by act_type_expr
    Elements,   \* function elements: expression and width of the output
    MaxElements \* bound: elements of a cluster

VARIABLES
    cluster, \* a dataflow_cluster, or one element on its own
    prog,    \* its elements
    uses,    \* channels the first pass has counted
    pass,    \* "uses", "print", "done", or why the program exited
    gen,     \* DflowGenerator: arguments, assignments, and the state of printExpr
    outs,    \* outList, outBWList and outRecord
    next,    \* the element in work
    unit     \* the process in _chplib.act

vars == <<cluster, prog, uses, pass, gen, outs, next, unit>>

-----------------------------------------------------------------------------
(* Expressions of ACT. One is an operator with operands, or a leaf: a      *)
(* channel, some bits of one, or a number.                                 *)

Ops == {"var", "bitfield", "int", "true", "plus", "minus", "mult", "and", "lsr", "lt",
        "complement", "query", "concat", "cast", "sized", "bool"}

Leaf(e) == e.args = <<>>

(* What the ACT front end makes of one: the bits of a bitfield are in their *)
(* order, and int(e, n) has a number of bits.                              *)
Formed(e) ==
    /\ e.op \in Ops /\ e.args \in Seq(Exprs) /\ e.nums \in Seq(Nat)
    /\ \A i \in DOMAIN e.args : Height[e.args[i]] < Height[e]
    /\ e.op \in {"var", "bitfield", "int", "true"} <=> Leaf(e)
    /\ e.op \in {"var", "bitfield"} => e.var \in Vars
    /\ e.op = "int" => Len(e.nums) = 1
    /\ e.op = "bitfield" => Len(e.nums) = 2 /\ e.nums[2] <= e.nums[1]
    /\ e.op = "sized" => Len(e.nums) = 1 /\ e.nums[1] > 0
    /\ e.op = "query" => Len(e.args) = 3
    /\ e.op \in {"cast", "sized", "bool"} => Len(e.args) = 1

ASSUME WidthsAssumption ==
    /\ BW \in [Vars -> Nat \ {0}] /\ Width \in [Exprs -> Nat \ {0}]
    /\ MaxElements \in Nat \ {0}
ASSUME ExprsAssumption == Height \in [Exprs -> Nat] /\ \A e \in Exprs : Formed(e)
ASSUME ElementsAssumption == \A el \in Elements : el.expr \in Exprs /\ el.bw \in Nat \ {0}

(* The channels of an expression in the order act_expr_collect_ids lists   *)
(* them.                                                                   *)
IdsIn(e, operands) ==
    IF e.op \in {"var", "bitfield"} THEN <<e.var>> ELSE FlattenSeq(operands)
Ids[e \in Exprs] == IdsIn(e, [i \in DOMAIN e.args |-> Ids[e.args[i]]])

-----------------------------------------------------------------------------
(* The first pass. *)

(* Mutation: the condition of a query is forgotten. *)
UsesIn_Branches(e, operands) ==
    IF e.op \in {"var", "bitfield"} THEN {e.var}
    ELSE UNION {operands[i] : i \in DOMAIN operands \ (IF e.op = "query" THEN {1} ELSE {})}

UsesIn(e, operands) ==
    IF e.op \in {"var", "bitfield"} THEN {e.var} ELSE UNION Range(operands)
UsesOf[e \in Exprs] == UsesIn(e, [i \in DOMAIN e.args |-> UsesOf[e.args[i]]])

(* recordExprUses, for clusters, does not know these operators. *)
Recordable[e \in Exprs] ==
    e.op \notin {"concat", "bitfield"} /\ \A i \in DOMAIN e.args : Recordable[e.args[i]]

-----------------------------------------------------------------------------
(* The second pass.  printExpr returns the name of a value: the i-th       *)
(* argument, the i-th result, or a number.                                 *)
Name(kind, i) == [kind |-> kind, i |-> i]

Names == [kind : {"x", "res", "int"}, i : Nat]
Assignments == [op : Ops \cup {"port"}, args : Seq(Names), nums : Seq(Nat), bw : Nat]
Gen == [args : Seq(Vars), code : Seq(Assignments), hidden : Seq(Nat), bw : Nat,
        name : Names, same : BOOLEAN]

Start == [args |-> <<>>, code |-> <<>>, hidden |-> <<>>, bw |-> 0,
          name |-> Name("int", 0), same |-> FALSE]

(* Mutation: every use of a channel is an argument of its own. *)
Argument_New(g, v) ==
    [g EXCEPT !.args = Append(@, v), !.name = Name("x", Len(g.args) + 1)]

(* handleEVar. *)
Argument(g, v) ==
    IF v \in Range(g.args)
    THEN [g EXCEPT !.name = Name("x", CHOOSE i \in DOMAIN g.args : g.args[i] = v)]
    ELSE [g EXCEPT !.args = Append(@, v), !.name = Name("x", Len(g.args) + 1)]

(* printChp*: the next assignment and its width in CHP. *)
PrintChp(g, op, names, nums, bw) ==
    [g EXCEPT !.code = Append(@, [op |-> op, args |-> names, nums |-> nums, bw |-> bw])]

(* prepare*ForOpt: the same assignment for the optimizer, and its width. *)
PrepareForOpt(g, bw) ==
    [g EXCEPT !.hidden = Append(@, bw), !.name = Name("res", Len(g.code))]

Assign(g, op, names, nums, bw, hidden) ==
    PrepareForOpt(PrintChp(g, op, names, nums, bw), hidden)

(* In what follows, operands[i] is what printing the i-th operand makes of  *)
(* the generator.                                                          *)

(* Operands from left to right; each may change the width handed down. *)
PrintNext(operand, p) ==
    [g |-> operand[p.g], names |-> Append(p.names, operand[p.g].name)]
PrintAll(operands, g) ==
    LET upTo[i \in 0..Len(operands)] ==
            IF i = 0 THEN [g |-> g, names |-> <<>>] ELSE PrintNext(operands[i], upTo[i - 1])
    IN  upTo[Len(operands)]

(* Mutation: the width of the condition is handed to the branches. *)
Condition_Shared(operand, g) == operand[[g EXCEPT !.bw = 1]]

(* The condition of a query is printed with a width of its own. *)
Condition(operand, g) == [operand[[g EXCEPT !.bw = 1]] EXCEPT !.bw = g.bw]

(* EMIT_QUERY exits when both branches have one name. *)
PrintQuery(e, operands, g) ==
    LET c == Condition(operands[1], g)
        l == operands[2][c]
        r == operands[3][l]
        h == [r EXCEPT !.same = @ \/ l.name = r.name]
    IN  Assign(h, "query", <<c.name, l.name, r.name>>, <<>>, Width[e], h.bw)

(* Mutation: the CHP variable gets the width handed down. *)
PrintOperator_HandedDown(e, operands, g) ==
    LET p == PrintAll(operands, g) IN
    Assign(p.g, e.op, p.names, <<>>, p.g.bw, p.g.bw)

(* EMIT_BIN, EMIT_UNI and EMIT_CONCAT. *)
PrintOperator(e, operands, g) ==
    LET p == PrintAll(operands, g) IN
    Assign(p.g, e.op, p.names, <<>>, Width[e], p.g.bw)

(* EMIT_BITFIELD. *)
PrintBitfield(g, hi, lo) ==
    Assign(g, "bitfield", <<g.name>>, <<hi, lo>>, hi - lo + 1, hi - lo + 1)

(* A conversion to bool changes the width for all that is printed after it.*)
Printed(e, operands, g) ==
    CASE e.op = "true" -> [g EXCEPT !.name = Name("int", 1)]
      [] e.op = "int" -> [g EXCEPT !.name = Name("int", e.nums[1])]
      [] e.op = "var" -> Argument(g, e.var)
      [] e.op = "query" -> PrintQuery(e, operands, g)
      [] e.op = "bitfield" -> PrintBitfield(Argument(g, e.var), e.nums[1], e.nums[2])
      [] e.op = "sized" -> PrintBitfield(operands[1][g], e.nums[1] - 1, 0)
      [] e.op = "cast" -> operands[1][g]
      [] e.op = "bool" -> operands[1][[g EXCEPT !.bw = 1]]
      [] OTHER -> PrintOperator(e, operands, g)

PrintExpr[e \in Exprs] ==
    LET operands == [i \in DOMAIN e.args |-> PrintExpr[e.args[i]]]
    IN  [g \in Gen |-> Printed(e, operands, g)]

OnlyVar[e \in Exprs] ==
    e.op = "var" \/ (e.op \in {"cast", "sized", "bool"} /\ OnlyVar[e.args[1]])

(* handlePort: a channel that is passed on gets a result too. *)
PrintPort(e, g) ==
    IF OnlyVar[e] THEN Assign(g, "port", <<g.name>>, <<>>, g.bw, g.bw) ELSE g

-----------------------------------------------------------------------------
Init ==
    /\ cluster \in BOOLEAN
    /\ prog = <<>> /\ uses = {} /\ pass = "uses"
    /\ gen = Start /\ outs = <<>> /\ next = 1
    /\ unit = <<>>

CollectUses(el) ==
    /\ pass = "uses" /\ Len(prog) < IF cluster THEN MaxElements ELSE 1
    /\ IF cluster /\ ~Recordable[el.expr]
       THEN pass' = "unknown" /\ UNCHANGED <<prog, uses>>
       ELSE /\ prog' = Append(prog, el)
            /\ uses' = uses \union UsesOf[el.expr]
            /\ UNCHANGED pass
    /\ UNCHANGED <<cluster, gen, outs, next, unit>>

SecondPass ==
    /\ pass = "uses" /\ prog # <<>>
    /\ pass' = "print"
    /\ UNCHANGED <<cluster, prog, uses, gen, outs, next, unit>>

(* handleDFlowFunc: a number is a source, outside the unit. *)
HandleFunc ==
    /\ pass = "print" /\ next <= Len(prog)
    /\ LET el == prog[next]
           g == PrintPort(el.expr, PrintExpr[el.expr][[gen EXCEPT !.bw = el.bw]])
       IN  CASE el.expr.op = "int" -> UNCHANGED <<gen, outs, pass>>
             [] el.expr.op # "int" /\ g.same ->
                    pass' = "samebranch" /\ UNCHANGED <<gen, outs>>
             [] OTHER ->
                    /\ gen' = g
                    /\ outs' = Append(outs, [res |-> Len(g.code), bw |-> el.bw, of |-> next])
                    /\ UNCHANGED pass
    /\ next' = next + 1
    /\ UNCHANGED <<cluster, prog, uses, unit>>

(* Mutation: the outputs come first. *)
NameWidths_OutputsFirst(els, ids) ==
    [i \in DOMAIN els |-> els[i].bw] \o [i \in DOMAIN ids |-> BW[ids[i]]]

(* genExprName, genExprClusterName: the widths in the name of the process. *)
NameWidths(els, ids) ==
    [i \in DOMAIN ids |-> BW[ids[i]]] \o [i \in DOMAIN els |-> els[i].bw]

Add(seq, x) == IF x \in Range(seq) THEN seq ELSE Append(seq, x)
Distinct(seq) ==
    LET upTo[i \in 0..Len(seq)] == IF i = 0 THEN <<>> ELSE Add(upTo[i - 1], seq[i])
    IN  upTo[Len(seq)]

(* printFUChpLib: the widths of ports and variables of the process.  An    *)
(* element that is a number has a width in the name but is no output.      *)
PrintUnit ==
    /\ pass = "print" /\ next > Len(prog)
    /\ LET bits == NameWidths(prog, Distinct(FlattenSeq(
                            [i \in DOMAIN prog |-> Ids[prog[i].expr]])))
           out == [k \in DOMAIN outs |-> bits[Len(gen.args) + k]]
       IN  unit' = IF gen.code = <<>> THEN <<>>
                   ELSE <<[ins |-> [i \in DOMAIN gen.args |-> bits[i]],
                           outs |-> out,
                           res |-> [j \in DOMAIN gen.code |->
                              IF \E k \in DOMAIN outs : outs[k].res = j
                              THEN out[CHOOSE k \in DOMAIN outs : outs[k].res = j]
                              ELSE gen.code[j].bw]]>>
    /\ pass' = "done"
    /\ UNCHANGED <<cluster, prog, uses, gen, outs, next>>

Next ==
    \/ \E el \in Elements : CollectUses(el)
    \/ SecondPass
    \/ HandleFunc
    \/ PrintUnit

Spec == Init /\ [][Next]_vars

-----------------------------------------------------------------------------
(* Types of the variables: arguments are different channels, and names     *)
(* refer to arguments and to earlier results.                              *)
TypeOK ==
    /\ cluster \in BOOLEAN
    /\ pass \in {"uses", "print", "done", "unknown", "samebranch"}
    /\ uses \subseteq Vars
    /\ Len(prog) <= MaxElements /\ next \in 1..(Len(prog) + 1)
    /\ IsInjective(gen.args)
    /\ \A j \in DOMAIN gen.code :
        /\ gen.code[j].bw > 0 /\ gen.hidden[j] > 0
        /\ \A n \in Range(gen.code[j].args) :
            CASE n.kind = "x" -> n.i \in DOMAIN gen.args
              [] n.kind = "res" -> n.i \in 1..(j - 1)
              [] n.kind = "int" -> n.i \in Nat

(* The channels whose copies the first pass has counted are those that the *)
(* second takes, one copy each, as arguments of the unit.                  *)
PassesAgree == pass = "done" => uses = Range(gen.args)

(* No number comes before the k-th output in its cluster. *)
Aligned(k) == outs[k].of = k

(* The ports of the process have the widths of the channels they connect,  *)
(* in a cluster up to its first element that is a number.                  *)
PortWidths ==
    unit # <<>> =>
        /\ \A i \in DOMAIN gen.args : unit[1].ins[i] = BW[gen.args[i]]
        /\ \A k \in DOMAIN outs : Aligned(k) => unit[1].outs[k] = outs[k].bw
=============================================================================
