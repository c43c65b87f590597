----------------------------- MODULE RetainedLog -----------------------------
(****************************************************************************)
(* What the snapshot store promises its readers (docs/snapshot-store.md):   *)
(* observations form a log that only grows and is never rewritten; a reader *)
(* reaches its end, up to a bounded length, or nothing.                     *)
(****************************************************************************)
EXTENDS FiniteSets, Naturals, Sequences

CONSTANT Capacity

VARIABLES
    log,      \* every observation ever accepted, in order of acceptance
    readable  \* the observations that can still be read

Init == log = <<>> /\ readable = {}

\* A new observation becomes the latest one; old ones may go, oldest first.
Accept ==
    /\ Len(log') = Len(log) + 1
    /\ \A i \in 1 .. Len(log) : log'[i] = log[i]
    /\ \E first \in 1 .. Len(log') : readable' = {log'[i] : i \in first .. Len(log')}
    /\ readable' \subseteq readable \cup {log'[Len(log')]}
    /\ Cardinality(readable') =< Capacity

\* A namespace change makes everything before it unreadable.
Invalidate == UNCHANGED log /\ readable' = {}

Next == Accept \/ Invalidate

Spec == Init /\ [][Next]_<<log, readable>>
==============================================================================
