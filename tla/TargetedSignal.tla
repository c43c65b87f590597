---------------------------- MODULE TargetedSignal ----------------------------
(****************************************************************************)
(* What process termination promises (src/docs/process-actions.md): the     *)
(* processes the user confirmed are the only ones that are signalled, each  *)
(* confirmation accounting for one signal at most.                          *)
(****************************************************************************)
EXTENDS Naturals, Sequences

CONSTANT Instances    \* processes, each started once

VARIABLES
    confirmed,   \* the instances confirmed, in order
    signals      \* <<n, instance>>: the n-th confirmation signalled instance

Init == confirmed = <<>> /\ signals = {}

Confirm ==
    /\ \E i \in Instances : confirmed' = Append(confirmed, i)
    /\ UNCHANGED signals

Signal ==
    \E n \in DOMAIN confirmed :
        /\ \A s \in signals : s[1] # n
        /\ signals' = signals \cup {<<n, confirmed[n]>>}
        /\ UNCHANGED confirmed

Next == Confirm \/ Signal
Spec == Init /\ [][Next]_<<confirmed, signals>>
==============================================================================
