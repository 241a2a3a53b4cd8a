--------------------------- MODULE MCFuncCompile ---------------------------
(* Instances of FuncCompile and FuncValues for TLC. *)
EXTENDS FuncValues

CONSTANTS x, y, z, None

Widths == [v \in {x, y, z} |-> IF v = z THEN 1 ELSE 2]

Node(op, args, nums) == [op |-> op, args |-> args, nums |-> nums, var |-> None]
Op(op, args) == Node(op, args, <<>>)
Num(n) == Node("int", <<>>, <<n>>)
Chan(v) == [Op("var", <<>>) EXCEPT !.var = v]
Bits(v, hi, lo) == [Node("bitfield", <<>>, <<hi, lo>>) EXCEPT !.var = v]
X == Chan(x)
Y == Chan(y)
Z == Chan(z)
Sum == Op("plus", <<X, Y>>)
Less == Op("lt", <<X, Y>>)

Out(expr, bw) == [expr |-> expr, bw |-> bw]

AllElements ==
    {Out(X, 2), Out(Sum, 2), Out(Sum, 3), Out(Num(2), 1), Out(Num(2), 2),
     Out(Op("minus", <<X, Y>>), 3), Out(Op("minus", <<X, Y>>), 4),
     Out(Op("mult", <<Op("minus", <<X, Y>>), X>>), 2),
     Out(Op("query", <<Z, Op("complement", <<X>>), Op("plus", <<Y, Num(1)>>)>>), 2),
     Out(Op("query", <<Op("lt", <<Sum, Num(3)>>), Op("and", <<X, Num(1)>>), Sum>>), 3),
     Out(Op("query", <<Z, X, X>>), 2),
     Out(Op("concat", <<Z, Less, X>>), 4),
     Out(Bits(x, 1, 1), 1),
     Out(Node("sized", <<X>>, <<1>>), 2),
     Out(Node("sized", <<Sum>>, <<2>>), 3),
     Out(Op("cast", <<Less>>), 1),
     Out(Op("and", <<Op("bool", <<Z>>), Op("true", <<>>)>>), 1),
     Out(Op("lsr", <<Sum, Num(1)>>), 2)}

(* The expressions of the elements, with their parts. *)
RECURSIVE Parts(_), MCHeight(_), MCWidth(_)
Parts(e) == {e} \cup UNION {Parts(e.args[i]) : i \in DOMAIN e.args}
AllExprs == UNION {Parts(el.expr) : el \in AllElements}
MCHeight(e) == IF Leaf(e) THEN 0 ELSE 1 + Max({MCHeight(e.args[i]) : i \in DOMAIN e.args})
Heights == [e \in AllExprs |-> MCHeight(e)]
MCWidth(e) == WidthIn(e, [i \in DOMAIN e.args |-> MCWidth(e.args[i])])
ExprWidths == [e \in AllExprs |-> MCWidth(e)]

=============================================================================
