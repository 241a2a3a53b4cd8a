------------------------------- MODULE ChpLib -------------------------------
(***************************************************************************)
(* The CHP processes of dflow_std/lib.act, and the function units of the   *)
(* chplib file, connected to a network. A communication c!v, c?x is a      *)
(* rendezvous: the sender offers v on c and stays at the send until the    *)
(* receiver takes it; a probe #c holds while v is offered.                 *)
(*                                                                         *)
(* Every process is a loop of rounds: receive on some of its inputs, in    *)
(* parallel or one after the other, then send on some of its outputs, in   *)
(* parallel. The unpiped processes and the converters do not receive: they *)
(* wait for the probes, send the values they see, and receive when the     *)
(* sends are over.                                                         *)
(***************************************************************************)
EXTENDS Integers, Sequences, FiniteSets, Functions

CONSTANTS
  Value, InitValue, ConstValue, Eval(_, _),
  Pipelined   \* PIPELINE of config.h: pipe_ or unpipe_ merges, splits, mixers

(* Definitions named X_Change are X as a plausible bug would have it; only the *)
(* mutation runs of PROJECT.json use them.                                     *)

VARIABLES
  net,    \* the instances: kind, channels on the input and output ports
  offer,  \* the values offered, by channel
  got     \* for each instance, what it received, or holds, in this round

vars == <<net, offer, got>>

Offered(n) == n \in DOMAIN offer
Nothing == [p \in {} |-> 0]
Only(f, S) == [x \in DOMAIN f \cap S |-> f[x]]
Without(f, S) == [x \in DOMAIN f \ S |-> f[x]]

(* x is at the sends of a round. *)
Sending(x) == \E o \in DOMAIN x.outs : Offered(x.outs[o])

Selections == {"split", "merge", "mixer", "arbiter"}
Holds(x) == x.kind \in {"bool_to_int", "int_to_bool"} \/ (x.kind \in Selections /\ ~Pipelined)

(* What x sees on its inputs: what it received, or what its probes tell. *)
Seen(x) == IF Holds(x) THEN [p \in {q \in DOMAIN x.ins : Offered(x.ins[q])} |-> offer[x.ins[p]]]
                       ELSE got[x]

(* The sets of inputs a round of x may use, given what it sees. The guard of a *)
(* split is port 2, that of a merge port 1 and its inputs the ports after it;  *)
(* a guard that names no port selects nothing, and the process waits.          *)
Rounds_All(x, seen) ==
  CASE x.kind = "split"                  -> {DOMAIN x.ins : p \in {q \in DOMAIN seen \cap {2} :
                                                                   seen[q] + 1 \in DOMAIN x.outs}}
    [] x.kind \in {"mixer", "arbiter"}   -> {{p} : p \in DOMAIN x.ins}
    [] OTHER                             -> {DOMAIN x.ins}
Rounds(x, seen) ==
  CASE x.kind = "split"                  -> {DOMAIN x.ins : p \in {q \in DOMAIN seen \cap {2} :
                                                                   seen[q] + 1 \in DOMAIN x.outs}}
    [] x.kind = "merge"                  -> {{1, seen[p] + 2} : p \in DOMAIN seen \cap {1}}
    [] x.kind \in {"mixer", "arbiter"}   -> {{p} : p \in DOMAIN x.ins}
    [] OTHER                             -> {DOMAIN x.ins}

(* What x sends in a round that used the inputs of vals. *)
Sends_FromOne(x, vals) ==
  CASE x.kind = "fu"                     -> [o \in DOMAIN x.outs |-> Eval(o, vals)]
    [] x.kind = "source"                 -> [o \in {1} |-> ConstValue]
    [] x.kind = "split"                  -> [o \in {vals[2] + 1} |-> vals[1]]
    [] x.kind = "merge"                  -> [o \in {1} |-> vals[vals[1] + 2]]
    [] x.kind \in {"mixer", "arbiter"}   -> LET p == CHOOSE q \in DOMAIN vals : TRUE
                                            IN  <<vals[p], p>>
    [] OTHER                             -> [o \in DOMAIN x.outs |-> vals[1]]
Sends(x, vals) ==
  CASE x.kind = "fu"                     -> [o \in DOMAIN x.outs |-> Eval(o, vals)]
    [] x.kind = "source"                 -> [o \in {1} |-> ConstValue]
    [] x.kind = "split"                  -> [o \in {vals[2] + 1} |-> vals[1]]
    [] x.kind = "merge"                  -> [o \in {1} |-> vals[vals[1] + 2]]
    [] x.kind \in {"mixer", "arbiter"}   -> LET p == CHOOSE q \in DOMAIN vals : TRUE
                                            IN  <<vals[p], p - 1>>
    [] OTHER                             -> [o \in DOMAIN x.outs |-> vals[1]]

Offering(x, vals) ==
  LET out == Sends(x, vals)
  IN  [n \in {x.outs[o] : o \in DOMAIN out} |-> out[CHOOSE o \in DOMAIN out : x.outs[o] = n]]

-----------------------------------------------------------------------------

(* Before its first round, init holds its value; the others hold nothing. *)
Reset ==
  /\ DOMAIN got = {}
  /\ got' = [x \in net |-> IF x.kind = "init" THEN [p \in {1} |-> InitValue] ELSE Nothing]
  /\ UNCHANGED <<net, offer>>

(* The inputs x may receive on next: merge reads its guard first, the mixers *)
(* select one input, the others receive in parallel.                         *)
Wanted(x) ==
  CASE x.kind = "merge" -> (IF 1 \in DOMAIN got[x] THEN {got[x][1] + 2} ELSE {1}) \ DOMAIN got[x]
    [] x.kind \in {"mixer", "arbiter"} -> IF got[x] = Nothing THEN DOMAIN x.ins ELSE {}
    [] OTHER -> DOMAIN x.ins \ DOMAIN got[x]

(* What x keeps of a value it received. The variable of pipe_arbiter has the   *)
(* width of its control output, ceil(log2(n)) bits for n inputs, not that of   *)
(* its data: the bits above are lost. All others have the width of their data. *)
Pow2[k \in Nat] == IF k = 0 THEN 1 ELSE 2 * Pow2[k - 1]
ControlWidth(n) == Cardinality({k \in 0..n : Pow2[k] < n})
Stored_InMixer(x, v) ==
  IF x.kind \in {"mixer", "arbiter"} THEN v % Pow2[ControlWidth(Cardinality(DOMAIN x.ins))] ELSE v
Stored(x, v) ==
  IF x.kind = "arbiter" THEN v % Pow2[ControlWidth(Cardinality(DOMAIN x.ins))] ELSE v

Receive(x, p) ==
  /\ ~Holds(x) /\ ~Sending(x)
  /\ p \in Wanted(x) /\ Offered(x.ins[p])
  /\ got' = [got EXCEPT ![x] = [q \in DOMAIN @ \cup {p} |->
                                  IF q = p THEN Stored(x, offer[x.ins[p]]) ELSE @[q]]]
  /\ offer' = Without(offer, {x.ins[p]})
  /\ UNCHANGED net

(* The sends of a round begin. *)
Send(x) ==
  /\ ~Sending(x)
  /\ Holds(x) => got[x] = Nothing
  /\ \E S \in Rounds(x, Seen(x)) :
       LET vals == Only(Seen(x), S)
           out == Offering(x, vals)
       IN  /\ DOMAIN vals = S
           /\ offer' = [n \in DOMAIN offer \cup DOMAIN out |->
                          IF n \in DOMAIN out THEN out[n] ELSE offer[n]]
           /\ got' = [got EXCEPT ![x] = IF Holds(x) THEN vals ELSE Nothing]
  /\ UNCHANGED net

(* The sends over, a process that holds its inputs receives on them. *)
Release_Never(x) == FALSE
Release_First(x) ==
  /\ Holds(x) /\ got[x] # Nothing /\ ~Sending(x)
  /\ offer' = Without(offer, {x.ins[1]})
  /\ got' = [got EXCEPT ![x] = Nothing]
  /\ UNCHANGED net
Release(x) ==
  /\ Holds(x) /\ got[x] # Nothing /\ ~Sending(x)
  /\ offer' = Without(offer, {x.ins[p] : p \in DOMAIN got[x]})
  /\ got' = [got EXCEPT ![x] = Nothing]
  /\ UNCHANGED net

Step(x) == (\E p \in DOMAIN x.ins : Receive(x, p)) \/ Send(x) \/ Release(x)

(* The environment at the other end of channel n. *)
Put(n, v) ==
  /\ ~Offered(n)
  /\ offer' = [m \in DOMAIN offer \cup {n} |-> IF m = n THEN v ELSE offer[m]]
  /\ UNCHANGED <<net, got>>

Get(n) ==
  /\ Offered(n)
  /\ offer' = Without(offer, {n})
  /\ UNCHANGED <<net, got>>

-----------------------------------------------------------------------------

(* The network offers values on its own channels, and its processes hold     *)
(* values received on their own inputs.                                      *)
TypeOK ==
  /\ \A n \in DOMAIN offer : \E x \in net : n \in Range(x.ins) \cup Range(x.outs)
  /\ \A n \in DOMAIN offer : offer[n] \in Value
  /\ DOMAIN got \in {{}, net}
  /\ \A x \in DOMAIN got : DOMAIN got[x] \subseteq DOMAIN x.ins /\ Range(got[x]) \subseteq Value

(* A process that does not receive before it sends finds at its receive what *)
(* it saw at its probe: nobody else took it (out!in[i]; in[i]? passes on and  *)
(* consumes one and the same token).                                         *)
StillOffered(x, p) == Offered(x.ins[p]) /\ offer[x.ins[p]] = got[x][p]
=============================================================================
