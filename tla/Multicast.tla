----------------------------- MODULE Multicast -----------------------------
(***************************************************************************)
(* What a copy of a channel promises: every output gets every token once,  *)
(* in the order of the input, and no output can be more than Slack tokens  *)
(* behind the input.                                                       *)
(***************************************************************************)
EXTENDS Naturals, Sequences

CONSTANTS
    Outputs, \* the channels the copy feeds
    Slack,   \* tokens the copy can hold on the way to an output
    Tokens   \* bound: tokens the environment sends

VARIABLES
    fed,     \* tokens taken from the input
    got      \* the tokens each output has received

vars == <<fed, got>>

Init == fed = 0 /\ got = [i \in Outputs |-> <<>>]

Take ==
    /\ fed < Tokens
    /\ \A i \in Outputs : fed - Len(got[i]) < Slack
    /\ fed' = fed + 1
    /\ UNCHANGED got

Give(i) ==
    /\ Len(got[i]) < fed
    /\ got' = [got EXCEPT ![i] = Append(@, Len(@) + 1)]
    /\ UNCHANGED fed

Next == Take \/ \E i \in Outputs : Give(i)

Spec == Init /\ [][Next]_vars /\ WF_vars(Take) /\ \A i \in Outputs : WF_vars(Give(i))

=============================================================================
