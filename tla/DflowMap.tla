------------------------------ MODULE DflowMap ------------------------------
(***************************************************************************)
(* From a dataflow block to its circuit: the translator writes the network *)
(* of CHP processes, then the network runs. What it does is what the block *)
(* means (Dataflow).                                                       *)
(***************************************************************************)
EXTENDS ProcGenerator

CONSTANTS
  Value, InitValue, ConstValue, Eval(_, _), Pipelined,
  MaxPut   \* bound on the tokens the environment sends on a channel

(* The data of a channel is an int<W>: a number without a sign; with a number, *)
(* all that are left of it when bits are lost are data too.                    *)
ASSUME ValueAssumption ==
  {InitValue, ConstValue} \subseteq Value /\ Value \subseteq Nat /\ \A v \in Value : 0..v \subseteq Value
ASSUME EvalAssumption ==
  \A q \in Programs : \A i \in DOMAIN q : \A S \in SUBSET DOMAIN q[i].reads :
    \A o \in DOMAIN q[i].outs, vals \in [S -> Value] : Eval(o, vals) \in Value
(* A control channel is wide enough for the numbers of the inputs. *)
ASSUME ControlAssumption ==
  \A q \in Programs : \A i \in DOMAIN q :
    q[i].t \in {"mixer", "arbiter"} => \A p \in DOMAIN q[i].reads : p - 1 \in Value
ASSUME PipelinedAssumption == Pipelined \in BOOLEAN
ASSUME MaxPutAssumption == MaxPut \in Nat

VARIABLES
  offer, got, \* the state of the network
  puts        \* how many tokens the environment has sent on each channel

Chp == INSTANCE ChpLib WITH net <- insts

mapVars == <<vars, offer, got, puts>>

Running == pc = "done" /\ DOMAIN got # {}

-----------------------------------------------------------------------------
(* The channels between the block and its environment. *)

Driven(c) == \E i \in DOMAIN prog : \E o \in DOMAIN prog[i].outs : prog[i].outs[o].chan = c
Read(c) == \E i \in DOMAIN prog : \E p \in DOMAIN prog[i].reads : prog[i].reads[p] = c

MapInit ==
  /\ Init
  /\ offer = [n \in {} |-> 0]
  /\ got = [x \in {} |-> 0]
  /\ puts = [c \in Chan |-> 0]

Translate == pc \notin {"done", "failed"} /\ Next /\ UNCHANGED <<offer, got, puts>>

Network(action) == pc = "done" /\ action /\ UNCHANGED <<vars, puts>>

Start == Network(Chp!Reset)

StepAt(i) == \E x \in insts : x.at = i /\ x.kind # "fu" /\ Running /\ Network(Chp!Step(x))
UnitAt(i) == \E x \in insts : x.at = i /\ x.kind = "fu" /\ Running /\ Network(Chp!Step(x))
CopyOf(c) == \E x \in insts : x.at = 0 /\ Running
                /\ x.kind = "copy" /\ x.outs[1].chan = c /\ Network(Chp!Step(x))
ConverterOf(c) == \E x \in insts : x.at = 0 /\ Running
                    /\ x.kind # "copy" /\ x.ins[1].chan = c /\ Network(Chp!Step(x))

EnvPut(c, v) ==
  /\ Running /\ Read(c) /\ ~Driven(c) /\ puts[c] < MaxPut
  /\ Chp!Put(Raw(c), v)
  /\ puts' = [puts EXCEPT ![c] = @ + 1]
  /\ UNCHANGED vars

EnvGet(c) == Running /\ Driven(c) /\ ~Read(c) /\ Network(Chp!Get(Raw(c)))

MapNext ==
  \/ Translate
  \/ Start
  \/ \E i \in DOMAIN prog : StepAt(i) \/ UnitAt(i)
  \/ \E c \in Chan : CopyOf(c) \/ ConverterOf(c)
  \/ \E c \in Chan, v \in Value : EnvPut(c, v)
  \/ \E c \in Chan : EnvGet(c)

MapSpec == MapInit /\ [][MapNext]_mapVars

MapFairSpec == MapSpec /\ WF_mapVars(MapNext)

-----------------------------------------------------------------------------
(* The refinement mapping: the tokens on the way to a reader. *)

(* The names of channels in the text. *)
Names == [kind : {"raw", "toint", "fromint", "copyout", "sink", "anon", "bufIn", "buf"},
          chan : Chan \cup {Null}, idx : Nat]

OfferOn(n) == IF n \in DOMAIN offer THEN <<offer[n]>> ELSE <<>>
Received(x) == IF got[x] = Chp!Nothing THEN <<>> ELSE <<got[x][1]>>
RoundHeld(x) == Chp!Holds(x) /\ got[x] # Chp!Nothing

(* The tokens between the reading end of channel n and the process that sent *)
(* them, nearest first. A process that holds its input has already sent the  *)
(* token that is still offered to it.                                        *)
TokensTo(n) ==
  LET up[k \in 0..Cardinality(insts)] ==
        [m \in Names |->
           LET feeds == {y \in insts : y.kind \in Transparent
                                       /\ m \in {y.outs[o] : o \in DOMAIN y.outs}}
           IN  IF k = 0 \/ feeds = {} THEN OfferOn(m)
               ELSE LET y == CHOOSE z \in feeds : TRUE
                        rest == up[k - 1][y.ins[1]]
                    IN  OfferOn(m) \o (IF Chp!Holds(y) THEN IF RoundHeld(y) THEN Tail(rest) ELSE rest
                                                       ELSE Received(y) \o rest)]
  IN  up[Cardinality(insts)][n]

(* The process that stands for element i. *)
ProcessOf(i) == CHOOSE x \in insts :
  x.at = i /\ \/ x.kind = "fu"
              \/ x.kind = prog[i].t /\ DOMAIN x.ins # {} /\ (x.kind = "sink" => x.outs = None)

TokensFor(i, p) ==
  LET x == ProcessOf(i)
      rest == TokensTo(x.ins[p])
  IN  IF p \notin DOMAIN got[x] THEN rest
      ELSE IF Chp!Holds(x) THEN Tail(rest) ELSE <<got[x][p]>> \o rest

Abstract == INSTANCE Dataflow WITH block <- prog, queue <- <<>>
Queue ==
  IF ~Running THEN Abstract!InitQueue
  ELSE [r \in Abstract!Readers |-> IF r[1] = 0 THEN TokensTo(Raw(r[2])) ELSE TokensFor(r[1], r[2])]

Block == INSTANCE Dataflow WITH block <- prog, queue <- Queue

-----------------------------------------------------------------------------
(* Properties. *)

(* The network is well typed, and the environment sends at most MaxPut tokens *)
(* on an input.                                                              *)
MapTypeOK == Chp!TypeOK /\ puts \in [Chan -> 0..MaxPut]

(* What an unpiped process saw is what it receives: the copies and the int   *)
(* twins give each of them its inputs for itself. The channels the code      *)
(* bypasses are left out.                                                    *)
HeldIsReceived ==
  Running => \A x \in {y \in insts : Chp!Holds(y)} : \A p \in DOMAIN got[x] :
    (x.ins[p].chan # Null => ~Bypassed(x.ins[p].chan)) => Chp!StillOffered(x, p)

(* The network does what the block means: behind buffers, copies, bool       *)
(* converters and unpiped processes, each operand of each element gets the   *)
(* tokens of its channel, none lost, none twice, in the order sent.          *)
ImplementsBlock == Block!Spec

(* The network comes to rest only when the block has nothing left to do: as  *)
(* long as the environment sends what it can, no process waits for another   *)
(* while an element of the block could fire.                                 *)
AtRest == ~ \/ \E x \in insts : ENABLED Chp!Step(x)
            \/ \E c \in Chan : ENABLED EnvGet(c)
AllSent == \A c \in Block!Inputs : puts[c] = MaxPut \/ Raw(c) \in DOMAIN offer
NoStall == Running /\ AllSent /\ AtRest => Block!Quiescent

(* With all the environment has to send, all there is to fire is fired.      *)
EverythingFires == <>[](pc = "failed" \/ (Running /\ Block!Quiescent))
=============================================================================
