------------------------- MODULE MCProcGenerator -------------------------
(***************************************************************************)
(* The dataflow blocks TLC translates: every well formed sequence of at    *)
(* most MaxLen elements of a set that has each kind of element, each way a *)
(* channel is read more than once, and each buffer clause.                 *)
(***************************************************************************)
EXTENDS ProcGenerator

CONSTANTS ca, cb, cc, cd,  \* channels
          MaxLen       \* bound on the elements of a block

MCChan == {ca, cb, cc, cd}

Out(ch) == [chan |-> ch, expr |-> "calc", buf |-> "none", nbuf |-> 0]
Buffered(ch, kind, n) == [chan |-> ch, expr |-> "calc", buf |-> kind, nbuf |-> n]
Const(ch) == [chan |-> ch, expr |-> "const", buf |-> "none", nbuf |-> 0]
El(t, reads, outs) == [t |-> t, form |-> "plain", reads |-> reads, outs |-> outs]

Functions ==
  {El("func", <<ca, cb, ca>>, <<Out(cc)>>), El("func", <<ca, cc>>, <<Out(cb)>>),
   El("func", <<cb>>, <<Buffered(ca, "init", 1)>>), El("func", <<ca>>, <<Buffered(cd, "plain", 3)>>),
   El("func", <<cb>>, <<Buffered(cd, "plain", 1)>>), El("func", <<>>, <<Const(cb)>>)}
Clusters ==
  {El("cluster", <<ca, cb, ca, cb>>, <<Out(cc), Buffered(cd, "init", 2)>>),
   El("cluster", <<ca>>, <<Const(cc), Buffered(cb, "plain", 2)>>)}
Selections ==
  {El("split", <<ca, ca>>, <<Out(cc), Out(Null)>>), El("split", <<ca, cb>>, <<Out(Null), Out(Null)>>),
   El("merge", <<cb, ca, cb>>, <<Out(cd)>>), El("merge", <<ca, ca, cc>>, <<Out(cb)>>),
   El("mixer", <<ca, cb>>, <<Out(cc), Out(Null)>>), El("arbiter", <<ca, cc>>, <<Out(cb), Out(cd)>>)}
Refused ==
  {[El("cluster", <<ca, cb>>, <<Out(cc)>>) EXCEPT !.form = "concat"],
   [El("cluster", <<ca, cb, cb>>, <<Out(cc)>>) EXCEPT !.form = "selection"],
   El("merge", <<ca, cb>>, <<Out(cd)>>),
   El("func", <<>>, <<[Const(cd) EXCEPT !.buf = "plain"]>>),
   El("func", <<ca>>, <<Buffered(cc, "initexpr", 1)>>)}
Sinks == {El("sink", <<ch>>, <<>>) : ch \in {ca, cb}}

Blocks(elements) ==
  {q \in UNION {[1..n -> elements] : n \in 1..MaxLen} : WellFormed(q)}

MCPrograms == Blocks(Functions \cup Clusters \cup Selections \cup Refused \cup Sinks)
=============================================================================
