---------------------------- MODULE MCUnitFiles ----------------------------
(* Instances of UnitFiles for TLC. *)
EXTENDS UnitFiles

Copy(bw, n) == [t |-> "copy", bw |-> bw, n |-> n]
Selection(t, n, guard, bw) == [t |-> t, n |-> n, guard |-> guard, bw |-> bw]
Func(proc, inputs, buffs) ==
    [t |-> "func", proc |-> proc, inputs |-> inputs, bw |-> 1, buffs |-> buffs]
Plain(n) == [n |-> n, init |-> FALSE, val |-> 0, bw |-> 2]
Initial(n) == [n |-> n, init |-> TRUE, val |-> 1, bw |-> 1]

Copies == {Copy(1, 2), Copy(1, 9), Copy(2, 20), Copy(1, 66)}
Functions == {Func("f", 1, <<>>), Func("f", 1, <<Initial(1)>>),
              Func("g", 3, <<Plain(2), Initial(3)>>)}
Others == {[t |-> "sink", bw |-> 2], [t |-> "source", val |-> 3, bw |-> 2],
           Selection("split", 2, 1, 2), Selection("merge", 2, 1, 1),
           Selection("mixer", 3, 2, 2), Selection("arbiter", 2, 1, 1),
           [t |-> "bool", to |-> "bool_to_int"]}

(* The searches find nothing for these. *)
Uncalibrated == {Selection("split", 3, 2, 1), Func("h", 2, <<>>)}

AllRequests == Copies \union Functions \union Others \union Uncalibrated

(* Functions of two inputs are not calibrated. *)
StdTemplates ==
    {<<"copy", 1, n>> : n \in 2..8} \union
    {<<"sink", 1>>, <<"source", 1>>, <<"onebuf", 1>>, <<"func", 1, 1>>, <<"func", 3, 1>>,
     <<"split", 2, 1, 1>>, <<"merge", 2, 1, 1>>, <<"mixer", 4, 1, 2>>}

=============================================================================
