----------------------------- MODULE MCDflowMap -----------------------------
(***************************************************************************)
(* The dataflow blocks whose networks TLC runs.                            *)
(***************************************************************************)
EXTENDS DflowMap

CONSTANTS ca, cb, cc, cd, ce, cf, cg

MCChan == {ca, cb, cc, cd, ce, cf, cg}

(* Parity of the operands, the later outputs complemented. *)
RECURSIVE Parity(_, _)
Parity(vals, S) == IF S = {} THEN 0
                   ELSE LET p == CHOOSE q \in S : TRUE IN (vals[p] + Parity(vals, S \ {p})) % 2
MCEval(o, vals) == (Parity(vals, DOMAIN vals) + o + 1) % 2

Out(ch) == [chan |-> ch, expr |-> "calc", buf |-> "none", nbuf |-> 0]
Buffered(ch, kind, n) == [chan |-> ch, expr |-> "calc", buf |-> kind, nbuf |-> n]
Const(ch) == [chan |-> ch, expr |-> "const", buf |-> "none", nbuf |-> 0]
El(t, reads, outs) == [t |-> t, form |-> "plain", reads |-> reads, outs |-> outs]

(* Guard ca, data cb: one branch computes, the other does not; merged again. *)
Diamond == <<El("split", <<cb, ca>>, <<Out(cc), Out(cd)>>),
             El("func", <<cc, cc>>, <<Out(ce)>>),
             El("merge", <<ca, ce, cd>>, <<Out(cf)>>)>>

(* Guard ca says whether to go round once more: merge, compute, split. *)
Loop == <<El("merge", <<cb, cc, cd>>, <<Out(ce)>>),
          El("func", <<ce>>, <<Buffered(cf, "plain", 2)>>),
          El("split", <<cf, ca>>, <<Out(cg), Out(cd)>>),
          El("func", <<ca>>, <<Buffered(cb, "init", 1)>>)>>

(* Buffers and a constant on one of two ways that meet again; a sink. *)
Ways == <<El("cluster", <<ca, ca>>, <<Buffered(cb, "plain", 2), Out(cc), Const(cd)>>),
          El("func", <<cb, cd, cb>>, <<Buffered(ce, "init", 2)>>),
          El("sink", <<cc>>, <<>>)>>

(* Two inputs in any order, and which of them it was; joined without saying which. *)
Choice == <<El("arbiter", <<ca, cb>>, <<Out(cc), Out(cd)>>),
            El("split", <<cc, cd>>, <<Out(ce), Out(cf)>>),
            El("mixer", <<cf, ce>>, <<Out(cg), Out(Null)>>)>>

(* Lines 40, 43, 48 and 50 of tests/loop.act: main_I8_ is ca and            *)
(* sig_main_I1__main_I2__R cb; cc is Merge_loopMS_main_0, cd main_I9_, ce   *)
(* main_init0, cf sig_Merge_loopMS_main_0_main_I9__R.                       *)
LoopTest == <<El("func", <<ca, cc>>, <<Out(cd)>>),
              El("func", <<cd>>, <<Buffered(ce, "init", 1)>>),
              El("merge", <<ce, cb, cf>>, <<Out(cc)>>),
              El("split", <<cc, cd>>, <<Out(Null), Out(cf)>>)>>

MCPrograms == {Diamond, Loop, Ways, Choice}
Mixer == <<El("mixer", <<ca, cb>>, <<Out(cc), Out(Null)>>)>>
(* The control output of an arbiter of three inputs, and its variable, have *)
(* two bits: it keeps data of two bits whole, as a mixer keeps all its data. *)
Arbiter == <<El("arbiter", <<ca, cb, cc>>, <<Out(cd), Out(ce)>>)>>
MCPipelined == {Diamond, LoopTest, Arbiter, Mixer}
MCLoopTest == {LoopTest}
=============================================================================
