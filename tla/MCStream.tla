------------------------------- MODULE MCStream -------------------------------
(****************************************************************************)
(* Small instances of Stream for TLC.  All threads together are too many    *)
(* interleavings; each scenario leaves out the workers that its questions   *)
(* do not need, as if they had not got round to their first sample.         *)
(****************************************************************************)
EXTENDS Stream, TLC

VARIABLE scenario

\* Distributions and containers are only compared with each other.
Symmetry == Permutations(Distros) \cup Permutations(Containers)

\* One discovery of the host count.
Discovery == winBefore = None /\ WindowsStep

\* The primary worker while the Windows count changes again and again.
ScaleNext ==
    /\ scenario = "scale"
    /\ \/ WindowsStep
       \/ PrimaryStep
       \/ Receive

\* The primary and additional workers around the discovery of the count.
DistroNext ==
    /\ scenario = "distros"
    /\ \/ Discovery
       \/ PrimaryStep
       \/ AdditionalStep
       \/ \E d \in Distros : DistroStartsOrStops(d)
       \/ Receive
    /\ faults' =< 1

\* Container runtimes and their detail workers around that discovery.
RuntimeNext ==
    /\ scenario = "runtime"
    /\ \/ Discovery
       \/ \E r \in Runtimes : RuntimeStep(r) \/ DetailStep(r)
       \/ Receive
    /\ faults' =< 1

\* Detail rounds while the count changes and changes back.  The aggregator is
\* quick: only process lists are sent behind an event that it has not applied.
RoundsNext ==
    /\ scenario = "rounds"
    /\ \/ Receive
       \/ \E r \in Runtimes : DetailStep(r)
       \/ /\ queue = <<>>
          /\ \/ \E count \in Counts : WindowsSnapshot(count)
             \/ (WindowsAnnounce \/ WindowsMemory \/ WindowsUsage) /\ NoFault
             \/ \E r \in Runtimes : LoadCount(r) \/ (RuntimeSample(r) /\ NoFault)

ScenarioInit ==
    /\ Init
    /\ scenario \in {"scale", "distros", "runtime", "rounds"}
    /\ showDetails = (scenario \in {"runtime", "rounds"})
    /\ scenario # "distros" => running = {}

ScenarioSpec ==
    /\ ScenarioInit
    /\ [][(ScaleNext \/ DistroNext \/ RuntimeNext \/ RoundsNext) /\ UNCHANGED scenario]_<<vars, scenario>>

\* The WSL workers to the end of all faults.
RecoveryNext ==
    \/ Discovery
    \/ Metadata
    \/ PrimaryStep
    \/ AdditionalStep
    \/ \E d \in Distros : DistroStartsOrStops(d)
    \/ Receive

RecoveryInit == Init /\ showDetails = FALSE /\ scenario = "recovery"

RecoverySpec ==
    /\ RecoveryInit
    /\ [][RecoveryNext /\ UNCHANGED scenario]_<<vars, scenario>>
    /\ SF_vars(Discovery) /\ SF_vars(PrimaryStep) /\ SF_vars(AdditionalStep)
    /\ WF_vars(Receive)

\* All threads, fairly scheduled.
WholeInit == Init /\ scenario = "whole"

WholeSpec ==
    /\ WholeInit
    /\ [][Next /\ UNCHANGED scenario]_<<vars, scenario>>
    /\ Fairness
==============================================================================
