----------------------------- MODULE FuncValues -----------------------------
(***************************************************************************)
(* What function units compute: the values of expressions in CHP, and      *)
(* those of the assignments that FuncCompile makes of them, in the process *)
(* and in the netlist.                                                     *)
(***************************************************************************)
EXTENDS FuncCompile, Bitwise

IntWidth(v) == CHOOSE k \in 1..(v + 1) : 2^k > v /\ (k = 1 \/ 2^(k - 1) <= v)

(* The width of an operator, from those of its operands. *)
OpWidth(op, nums, ws) ==
    CASE op \in {"lt", "bool"} -> 1
      [] op \in {"plus", "minus"} -> Max(Range(ws)) + 1
      [] op \in {"mult", "concat"} -> FoldLeft(+, 0, ws)
      [] op = "and" -> Max(Range(ws))
      [] op \in {"lsr", "complement", "cast", "port"} -> ws[1]
      [] op = "query" -> Max({ws[2], ws[3]})
      [] op = "bitfield" -> nums[1] - nums[2] + 1
      [] op = "sized" -> nums[1]

WidthIn(e, ws) ==
    CASE e.op = "var" -> BW[e.var]
      [] e.op = "int" -> IntWidth(e.nums[1])
      [] e.op = "true" -> 1
      [] OTHER -> OpWidth(e.op, e.nums, ws)

ASSUME WidthIsOfOperands ==
    \A e \in Exprs : Width[e] = WidthIn(e, [i \in DOMAIN e.args |-> Width[e.args[i]]])

(* Its value, before it is cut to a width. *)
Value(op, nums, vs, ws) ==
    CASE op = "plus" -> vs[1] + vs[2]
      [] op = "minus" -> vs[1] - vs[2]
      [] op = "mult" -> vs[1] * vs[2]
      [] op = "and" -> vs[1] & vs[2]
      [] op = "lsr" -> vs[1] \div 2^vs[2]
      [] op = "lt" -> IF vs[1] < vs[2] THEN 1 ELSE 0
      [] op = "complement" -> -1 - vs[1]
      [] op = "query" -> IF vs[1] # 0 THEN vs[2] ELSE vs[3]
      [] op = "concat" ->
            FoldLeft(LAMBDA acc, i : acc * 2^ws[i] + vs[i], 0, [i \in DOMAIN vs |-> i])
      [] op = "bitfield" -> (vs[1] \div 2^nums[2]) % 2^(nums[1] - nums[2] + 1)
      [] op \in {"port", "cast", "sized"} -> vs[1]
      [] op = "bool" -> IF vs[1] # 0 THEN 1 ELSE 0

Cut(v, w) == v % 2^w

RECURSIVE Eval(_, _)
Eval(e, env) ==
    CASE e.op = "var" -> env[e.var]
      [] e.op = "int" -> e.nums[1]
      [] e.op = "true" -> 1
      [] e.op = "bitfield" -> Value(e.op, e.nums, <<env[e.var]>>, <<>>)
      [] OTHER -> Cut(Value(e.op, e.nums, [i \in DOMAIN e.args |-> Eval(e.args[i], env)],
                            [i \in DOMAIN e.args |-> Width[e.args[i]]]),
                      Width[e])

-----------------------------------------------------------------------------
(* The results of the assignments, with these widths of variables.  The    *)
(* expressions of CHP have their own width, those of a netlist that of the *)
(* variable they are assigned to.                                          *)
Results(ins, env, widths, own) ==
    LET width(n) == CASE n.kind = "x" -> ins[n.i]
                      [] n.kind = "res" -> widths[n.i]
                      [] n.kind = "int" -> IntWidth(n.i)
        val[j \in DOMAIN gen.code] ==
            LET c == gen.code[j]
                ws == [i \in DOMAIN c.args |-> width(c.args[i])]
                of(n) == CASE n.kind = "x" -> Cut(env[gen.args[n.i]], ins[n.i])
                           [] n.kind = "res" -> val[n.i]
                           [] n.kind = "int" -> n.i
                v == Value(c.op, c.nums, [i \in DOMAIN c.args |-> of(c.args[i])], ws)
            IN  Cut(IF own THEN Cut(v, OpWidth(c.op, c.nums, ws)) ELSE v, widths[j])
    IN  val

Env == {env \in [Vars -> 0..(2^Max(Range(BW)) - 1)] : \A v \in Vars : env[v] < 2^BW[v]}

(* For all inputs the process sends on each output the value of its        *)
(* expression, cut to the width of the channel.                            *)
ComputesExpr ==
    unit # <<>> =>
        \A env \in Env : \A k \in DOMAIN outs : Aligned(k) =>
            Results(unit[1].ins, env, unit[1].res, TRUE)[outs[k].res] =
                Cut(Eval(prog[outs[k].of].expr, env), outs[k].bw)

(* Expressions whose low w bits depend only on the low w bits of what they *)
(* compute inside, and have no difference or complement of less than w.    *)
RECURSIVE LowBits(_, _)
LowBits(e, w) ==
    CASE e.op \in {"var", "int", "true", "bitfield"} -> TRUE
      [] e.op \in {"plus", "mult", "and", "cast", "sized"} ->
            \A i \in DOMAIN e.args : LowBits(e.args[i], w)
      [] e.op \in {"minus", "complement"} ->
            w <= Width[e] /\ \A i \in DOMAIN e.args : LowBits(e.args[i], w)
      [] e.op \in {"lt", "lsr", "concat"} -> \A i \in DOMAIN e.args : Leaf(e.args[i])
      [] e.op = "query" ->
            /\ Leaf(e.args[1]) \/ (e.args[1].op = "lt" /\ LowBits(e.args[1], w))
            /\ LowBits(e.args[2], w) /\ LowBits(e.args[3], w)
      [] e.op = "bool" -> FALSE

(* With the widths that the logic optimizer is given, the netlist computes *)
(* the same as the CHP, for expressions of this kind.                      *)
NetlistComputes ==
    pass = "done" =>
        LET ins == [i \in DOMAIN gen.args |-> BW[gen.args[i]]] IN
        \A env \in Env : \A k \in DOMAIN outs :
            LowBits(prog[outs[k].of].expr, outs[k].bw) =>
                Cut(Results(ins, env, gen.hidden, FALSE)[outs[k].res], outs[k].bw) =
                    Cut(Eval(prog[outs[k].of].expr, env), outs[k].bw)

=============================================================================
