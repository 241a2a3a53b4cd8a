------------------------------ MODULE Dataflow ------------------------------
(***************************************************************************)
(* What a dataflow block promises: every reader of a channel gets the      *)
(* tokens sent on it, each once and in the order they were sent; an        *)
(* element fires when its operands have tokens. A queue per reader holds   *)
(* the tokens it has yet to read; the environment sends on the channels    *)
(* the block does not drive and reads those the block does not read.       *)
(***************************************************************************)
EXTENDS DflowBlock

CONSTANTS
  Value,       \* what a token carries
  InitValue,   \* the v of every [n,v]
  ConstValue,  \* the value of every E_INT
  Eval(_, _)   \* what output o of a func or cluster is for given operand values

VARIABLES
  block,       \* the dataflow block
  queue        \* for each reader of a channel, the tokens it has to read

vars == <<block, queue>>

-----------------------------------------------------------------------------

Driven(c) == \E i \in DOMAIN block : \E o \in DOMAIN block[i].outs : block[i].outs[o].chan = c
Read(c) == \E i \in DOMAIN block : \E p \in DOMAIN block[i].reads : block[i].reads[p] = c
Inputs == {c \in Chan : Read(c) /\ ~Driven(c)}
Outputs == {c \in Chan : Driven(c) /\ ~Read(c)}

(* A func or a cluster reads each of its variables once. *)
Operands(e) ==
  IF e.t \in {"func", "cluster"}
  THEN {p \in DOMAIN e.reads : \A q \in 1..(p - 1) : e.reads[q] # e.reads[p]}
  ELSE DOMAIN e.reads

(* The readers: operand p of element i is <<i, p>>, the environment <<0, c>>. *)
Readers == (UNION {{i} \X Operands(block[i]) : i \in DOMAIN block}) \cup ({0} \X Outputs)
ChanOf(r) == IF r[1] = 0 THEN r[2] ELSE block[r[1]].reads[r[2]]

(* A channel [n,v] starts with the token v on it. *)
Initialised(c) == \E i \in DOMAIN block : \E o \in DOMAIN block[i].outs :
                    block[i].outs[o].chan = c /\ block[i].outs[o].buf = "init"
InitQueue == [r \in Readers |-> IF Initialised(ChanOf(r)) THEN <<InitValue>> ELSE <<>>]

(* Take a token from each of readers, send those of tokens (channel |-> value). *)
Move(readers, tokens) ==
  /\ \A r \in readers : queue[r] # <<>>
  /\ queue' = [r \in Readers |->
                 (IF r \in readers THEN Tail(queue[r]) ELSE queue[r])
                   \o (IF ChanOf(r) \in DOMAIN tokens THEN <<tokens[ChanOf(r)]>> ELSE <<>>)]
  /\ UNCHANGED block

(* The firings open to element i: the operands it would read and what it would send. *)
Waiting(i) == {p \in Operands(block[i]) : queue[<<i, p>>] # <<>>}
First(i, p) == Head(queue[<<i, p>>])
Firing(reads, outs) == [reads |-> reads, outs |-> outs]

FuncFirings(i) ==
  LET e == block[i]
      calc == {o \in DOMAIN e.outs : e.outs[o].expr = "calc"}
      args == [p \in Operands(e) |-> First(i, p)]
  IN  IF calc # {} /\ Waiting(i) = Operands(e)
      THEN {Firing(Operands(e), [o \in calc |-> Eval(o, args)])} ELSE {}

SplitFirings(i) ==
  IF Waiting(i) = {1, 2} /\ First(i, 2) + 1 \in DOMAIN block[i].outs
  THEN {Firing({1, 2}, [o \in {First(i, 2) + 1} |-> First(i, 1)])} ELSE {}

MergeFirings(i) ==
  {Firing({1, p}, [o \in {1} |-> First(i, p)]) :
     p \in {z \in Waiting(i) \ {1} : 1 \in Waiting(i) /\ z = First(i, 1) + 2}}

(* The control output of a mixer or an arbiter says which input was passed on. *)
MixerFirings(i) == {Firing({p}, <<First(i, p), p - 1>>) : p \in Waiting(i)}

SinkFirings(i) == {Firing({1}, <<>>) : x \in Waiting(i)}

Firings(i) ==
  CASE block[i].t \in {"func", "cluster"}   -> FuncFirings(i)
    [] block[i].t = "split"                 -> SplitFirings(i)
    [] block[i].t = "merge"                 -> MergeFirings(i)
    [] block[i].t \in {"mixer", "arbiter"}  -> MixerFirings(i)
    [] block[i].t = "sink"                  -> SinkFirings(i)

(* Outputs by channel; what is sent on a null output is lost. *)
ByChannel(i, outs) ==
  LET sent == {o \in DOMAIN outs : block[i].outs[o].chan # Null}
  IN  [c \in {block[i].outs[o].chan : o \in sent} |->
         outs[CHOOSE o \in sent : block[i].outs[o].chan = c]]

Fire(i) == \E f \in Firings(i) : Move({i} \X f.reads, ByChannel(i, f.outs))

(* A constant is sent whenever there is room for it. *)
SendConst(i) ==
  \E o \in DOMAIN block[i].outs :
    block[i].outs[o].expr = "const" /\ Move({}, ByChannel(i, [q \in {o} |-> ConstValue]))

Put(c, v) == Move({}, [d \in {c} |-> v])
Get(c) == Move({<<0, c>>}, <<>>)

-----------------------------------------------------------------------------

Init == block \in Programs /\ queue = InitQueue

Next ==
  \/ \E i \in DOMAIN block : Fire(i) \/ SendConst(i)
  \/ \E c \in Inputs, v \in Value : Put(c, v)
  \/ \E c \in Outputs : Get(c)

Spec == Init /\ [][Next]_vars

(* Nothing is left to do in the block: no element can fire, nothing is to be *)
(* read from it.                                                             *)
Quiescent ==
  /\ \A i \in DOMAIN block : Firings(i) = {}
  /\ \A c \in Outputs : queue[<<0, c>>] = <<>>
=============================================================================
