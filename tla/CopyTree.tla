------------------------------ MODULE CopyTree ------------------------------
(***************************************************************************)
(* copy<W,N> of dflow_std/lib.act: a tree of copy_leaf processes of at     *)
(* most LeafSize outputs each.  Level 0 of the tree drives the outputs of  *)
(* the copy, and the inputs of the leaves of one level are the outputs of  *)
(* the copy at the next.  A leaf takes a token and offers it on all its    *)
(* outputs in parallel; it takes the next when all have gone.  Channels    *)
(* are rendezvous: a token passes when the sender offers it and the        *)
(* receiver waits.                                                         *)
(***************************************************************************)
EXTENDS Naturals, Sequences, FiniteSets

CONSTANTS
    N,        \* outputs of the copy
    LeafSize, \* outputs of the largest leaf, 8 in the library
    Tokens    \* bound: tokens the environment sends

ASSUME SizesAssumption == N \in Nat \ {0} /\ LeafSize \in Nat \ {0, 1} /\ Tokens \in Nat

(* The number of leaves that drive w outputs: full ones, and one for the rest. *)
LeavesFor(w) ==
    LET m == w \div LeafSize
        f == w - m * LeafSize
    IN  IF f > 0 THEN m + 1 ELSE m

(* The outputs of the copies inside the copy, from the outside in. *)
Width[l \in 0..N] == IF l = 0 THEN N ELSE LeavesFor(Width[l - 1])
Top == CHOOSE l \in 0..N : Width[l] <= LeafSize /\ \A k \in 0..(l - 1) : Width[k] > LeafSize

Leaf == {n \in (0..Top) \X (0..N) :
            IF n[1] = Top THEN n[2] = 0 ELSE n[2] < LeavesFor(Width[n[1]])}

(* Mutations: the rest is copied by no leaf; by a full leaf.              *)
Slice_NoRest(l, k) ==
    LET m == Width[l] \div LeafSize IN
    IF l = Top THEN 0..(Width[l] - 1)
    ELSE IF k < m THEN (LeafSize * k)..(LeafSize * k + LeafSize - 1)
    ELSE {}

Slice_Overrun(l, k) ==
    IF l = Top THEN 0..(Width[l] - 1)
    ELSE (LeafSize * k)..(LeafSize * k + LeafSize - 1)

(* The outputs of its level that a leaf drives. *)
Slice(l, k) ==
    LET m == Width[l] \div LeafSize IN
    IF l = Top THEN 0..(Width[l] - 1)
    ELSE IF k < m THEN (LeafSize * k)..(LeafSize * k + LeafSize - 1)
    ELSE (m * LeafSize)..(Width[l] - 1)

Outputs == 0..(N - 1)
Root == <<Top, 0>>

VARIABLES
    holds, \* the token each leaf has taken, 0 before the first
    owes,  \* the outputs the leaf has still to send it on
    fed,   \* tokens taken from the input
    got    \* the tokens each output has received

vars == <<holds, owes, fed, got>>

Init ==
    /\ holds = [n \in Leaf |-> 0]
    /\ owes = [n \in Leaf |-> {}]
    /\ fed = 0
    /\ got = [i \in Outputs |-> <<>>]

(* Mutation: a leaf takes a token before the last has gone to all outputs. *)
Waits_Never(n) == TRUE

(* in?x of a leaf that has sent all of the last token. *)
Waits(n) == owes[n] = {}

Feed ==
    /\ fed < Tokens /\ Waits(Root)
    /\ fed' = fed + 1
    /\ holds' = [holds EXCEPT ![Root] = fed + 1]
    /\ owes' = [owes EXCEPT ![Root] = Slice(Top, 0)]
    /\ UNCHANGED got

(* out[i]!x of a leaf inside the tree, with in?x of the leaf below it. *)
Pass(n, i) ==
    LET below == <<n[1] - 1, i>> IN
    /\ n[1] > 0 /\ i \in owes[n] /\ Waits(below)
    /\ holds' = [holds EXCEPT ![below] = holds[n]]
    /\ owes' = [owes EXCEPT ![n] = @ \ {i}, ![below] = Slice(below[1], below[2])]
    /\ UNCHANGED <<fed, got>>

(* out[i]!x of a leaf at the outputs of the copy. *)
Send(n, i) ==
    /\ n[1] = 0 /\ i \in owes[n]
    /\ got' = [got EXCEPT ![i] = Append(@, holds[n])]
    /\ owes' = [owes EXCEPT ![n] = @ \ {i}]
    /\ UNCHANGED <<holds, fed>>

Next ==
    \/ Feed
    \/ \E n \in Leaf, i \in 0..N : Pass(n, i) \/ Send(n, i)

(* Both ends of a channel go on, and the outputs are read. *)
Spec ==
    /\ Init /\ [][Next]_vars
    /\ WF_vars(Feed)
    /\ \A n \in Leaf, i \in 0..N : WF_vars(Pass(n, i)) /\ WF_vars(Send(n, i))

-----------------------------------------------------------------------------
(* Types of the variables. *)
TypeOK ==
    /\ holds \in [Leaf -> 0..Tokens]
    /\ \A n \in Leaf : owes[n] \subseteq 0..(Width[n[1]] - 1)
    /\ fed \in 0..Tokens
    /\ \A i \in Outputs : got[i] \in Seq(1..Tokens)

(* A token does not overtake another: from the root down, what a leaf has  *)
(* taken is never newer than what the leaf above it has.                   *)
NoOvertaking ==
    \A n \in Leaf : n[1] > 0 =>
        \A i \in Slice(n[1], n[2]) :
            holds[<<n[1] - 1, i>>] \in {holds[n], holds[n] - 1}

(* The tree is a copy: one slot per level. *)
Abstract == INSTANCE Multicast WITH Slack <- Top + 1
CopiesToAll == Abstract!Spec

=============================================================================
