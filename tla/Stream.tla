-------------------------------- MODULE Stream --------------------------------
(****************************************************************************)
(* run() of src/src/stream.rs: the collector threads, the shared CPU count  *)
(* they normalize with, the channel to the aggregator, and the aggregator   *)
(* loop.  A thread's step ends where another thread can observe it: at a    *)
(* load or store of the shared count, at a send, and at a receive.          *)
(*                                                                          *)
(* Cadence and warm-up delays are left out: any worker may be the next one. *)
(****************************************************************************)
EXTENDS Aggregate

CONSTANTS
    PlanWarned,  \* StreamCollectorPlan reported warnings
    MaxQueue,    \* bound on the unbounded mpsc channel
    MaxFaults    \* bound on failures, missing values, count changes and distro churn

ASSUME BoundAssumption ==
    /\ PlanWarned \in BOOLEAN
    /\ MaxQueue \in Nat \ {0} /\ MaxFaults \in Nat

VARIABLES
    queue,       \* the mpsc channel, in FIFO order
    open,        \* the receiver exists
    stop,        \* the stop flag
    showDetails, \* the details flag, set by the TUI
    cpus,        \* the shared AtomicU32 host_cpu_count
    cached,      \* HOST_LOGICAL_CPU_COUNT, the first value CIM answered
    winBefore,   \* Windows worker: count of its previous snapshot
    pc,          \* where each collector thread is
    capture,     \* primary worker: capture_count
    baseline,    \* primary worker: the counts seen by primary_before
    outgoing,    \* primary worker: the event it is about to send
    loaded,      \* additional and runtime workers: the count they loaded
    before,      \* additional worker: distributions that have a baseline
    running,     \* environment: additional distributions that run
    job,         \* the capacity-one detail channel of each runtime
    steady,      \* history: the containers that all samples of a runtime listed
    work,        \* detail worker: the job it is populating
    lastDetails, \* detail worker: last_details
    detailDone,  \* detail worker has returned
    faults       \* faults injected so far

channelVars == <<queue, open, stop>>
windowsLocal == <<cached, winBefore>>
primaryLocal == <<capture, baseline, outgoing>>
additionalLocal == <<before, running>>
jobVars == <<job, steady>>
detailLocal == <<work, lastDetails, detailDone>>
workerVars == <<cpus, windowsLocal, pc, primaryLocal, loaded, additionalLocal,
                jobVars, detailLocal, faults>>
vars == <<aggVars, channelVars, showDetails, workerVars>>

Jobs == [ids : SUBSET Containers, count : Counts]
Places == {"start", "idle", "announce", "memory", "usage", "collect", "send", "done"}

NoDetails == [count |-> None, lists |-> NoLists]

PlanEvent == [kind |-> "CollectorWarnings", warned |-> PlanWarned]

\* Mutant: Windows-native wsl_only does not announce its count.
UnannouncedQueues == {<<PlanEvent>>}

\* collector_plan.warnings are queued before any worker exists; Windows-native
\* wsl_only queues the host count it asked for before them.
InitialQueues ==
    IF WslOnly THEN {<<[kind |-> "HostCpuCount", count |-> cpus], PlanEvent>>}
                    \cup {q \in {<<PlanEvent>>} : cpus = Fallback}
               ELSE {<<PlanEvent>>}

Init ==
    /\ InitAggregate
    /\ cpus \in IF WslOnly THEN Counts ELSE {Fallback}
    /\ queue \in InitialQueues
    /\ open = TRUE /\ stop = FALSE /\ showDetails \in BOOLEAN
    /\ cached = None /\ winBefore = None
    /\ pc = [w \in Collectors |-> IF w \in Runtimes THEN "start" ELSE "idle"]
    /\ capture = None /\ baseline = {} /\ outgoing = None
    /\ loaded = [w \in Collectors |-> None]
    /\ before = {} /\ running \in SUBSET Distros
    /\ job = [r \in Runtimes |-> None]
    /\ steady = [r \in Runtimes |-> Containers]
    /\ work = [r \in Runtimes |-> None]
    /\ lastDetails = [r \in Runtimes |-> NoDetails]
    /\ detailDone = [r \in Runtimes |-> FALSE]
    /\ faults = 0

(****************************************************************************)
(* Helpers                                                                  *)
(****************************************************************************)
Fault == faults < MaxFaults /\ faults' = faults + 1
NoFault == UNCHANGED faults
FaultUnless(good) == IF good THEN NoFault ELSE Fault

Goto(w, place) == pc' = [pc EXCEPT ![w] = place]

\* A worker that finds the receiver gone breaks out of its loop.
SendThen(w, event, place) ==
    /\ IF open
       THEN /\ Len(queue) < MaxQueue
            /\ queue' = Append(queue, event)
            /\ Goto(w, place)
       ELSE /\ Goto(w, "done")
            /\ UNCHANGED queue
    /\ UNCHANGED <<open, stop, showDetails, aggVars>>

\* The head of a worker's loop: wait() returned true.  A runtime worker does
\* not look at the flag before its first round.
Starts(w) == w \in Collectors /\ (pc[w] = "start" \/ (pc[w] = "idle" /\ ~stop))

Quit(w) ==
    /\ w \in Collectors /\ pc[w] = "idle" /\ stop
    /\ Goto(w, "done")
    /\ UNCHANGED <<aggVars, channelVars, showDetails, cpus, windowsLocal,
                   primaryLocal, loaded, additionalLocal, jobVars, detailLocal, faults>>

(****************************************************************************)
(* Windows worker: sample_windows                                           *)
(****************************************************************************)
\* The snapshot asks CIM until it answers once; any other value comes from
\* [Environment]::ProcessorCount.
WindowsSnapshot(count) ==
    /\ Starts("Windows")
    /\ IF cached # None
       THEN count = cached /\ UNCHANGED cached
       ELSE cached' \in {None, count}
    /\ FaultUnless(winBefore \in {None, count})
    /\ cpus' = count
    /\ Goto("Windows", "announce")
    /\ UNCHANGED <<aggVars, channelVars, showDetails, winBefore, primaryLocal,
                   loaded, additionalLocal, jobVars, detailLocal>>

windowsFrame == <<cpus, cached, primaryLocal, loaded, additionalLocal, jobVars, detailLocal>>

\* cpus still holds the count of this snapshot: no other thread stores it.
WindowsAnnounce ==
    /\ "Windows" \in Collectors /\ pc["Windows"] = "announce"
    /\ SendThen("Windows", [kind |-> "HostCpuCount", count |-> cpus], "memory")
    /\ UNCHANGED <<winBefore, windowsFrame, faults>>

\* Mutant: a pair of snapshots across a count change is skipped.
SkipsUnequalPair == winBefore # cpus

\* The first snapshot is only a baseline.
OnlyBaseline == winBefore = None

WindowsMemory ==
    /\ "Windows" \in Collectors /\ pc["Windows"] = "memory"
    /\ \E present \in BOOLEAN :
          /\ FaultUnless(present)
          /\ SendThen("Windows", [kind |-> "HostMemory", memory |-> present],
                      IF OnlyBaseline THEN "idle" ELSE "usage")
    /\ winBefore' = IF OnlyBaseline THEN cpus ELSE winBefore
    /\ UNCHANGED windowsFrame

\* calculate_usage and cpu_breakdown answer nothing across a count change.
WindowsUsage ==
    /\ "Windows" \in Collectors /\ pc["Windows"] = "usage"
    /\ \E consistent \in BOOLEAN :
          /\ FaultUnless(consistent)
          /\ SendThen("Windows",
                      [kind |-> "Windows", count |-> cpus, ok |-> TRUE,
                       rows |-> IF winBefore = cpus THEN cpus ELSE Unmeasured,
                       total |-> winBefore = cpus /\ consistent],
                      "idle")
    /\ winBefore' = cpus
    /\ UNCHANGED windowsFrame

WindowsFails ==
    /\ Starts("Windows")
    /\ Fault
    /\ SendThen("Windows",
                [kind |-> "Windows", count |-> cpus, ok |-> FALSE,
                 rows |-> Unmeasured, total |-> FALSE],
                "idle")
    /\ UNCHANGED <<cpus, windowsLocal, primaryLocal, loaded, additionalLocal, jobVars,
                   detailLocal>>

Metadata ==
    /\ Starts("Windows applications")
    /\ \E ok \in BOOLEAN :
          /\ FaultUnless(ok)
          /\ SendThen("Windows applications", [kind |-> "WindowsMetadata", ok |-> ok], "idle")
    /\ UNCHANGED <<cpus, windowsLocal, primaryLocal, loaded, additionalLocal, jobVars,
                   detailLocal>>

(****************************************************************************)
(* Primary worker: spawn_primary_processes                                  *)
(****************************************************************************)
PrimaryCapture ==
    /\ Starts("current WSL")
    /\ capture' = cpus
    /\ Goto("current WSL", "collect")
    /\ UNCHANGED <<aggVars, channelVars, showDetails, cpus, windowsLocal, baseline,
                   outgoing, loaded, additionalLocal, jobVars, detailLocal, faults>>

\* The counts seen at both ends of both captures.
KernelWindow == baseline \cup {capture, cpus}

\* Mutant: only the later capture has to be stable.
LaterCaptureStable == capture = cpus

\* stable_count and stable_kernel_usage: all of them agree.
StableWindow == KernelWindow = {cpus}

\* A first success is only a baseline; a later one is an event.  The system
\* counters, which also identify the scope for actions, may be missing.
PrimarySample ==
    /\ pc["current WSL"] = "collect"
    /\ \E systemCpu \in BOOLEAN :
          /\ FaultUnless(systemCpu)
          /\ outgoing' = IF baseline = {} THEN None
                         ELSE [kind |-> "Linux", count |-> cpus, ok |-> TRUE,
                               scope |-> systemCpu,
                               window |-> IF systemCpu /\ StableWindow
                                          THEN KernelWindow ELSE {}]
    /\ baseline' = {capture, cpus}
    /\ capture' = None
    /\ Goto("current WSL", IF baseline = {} THEN "idle" ELSE "send")
    /\ UNCHANGED <<aggVars, channelVars, showDetails, cpus, windowsLocal, loaded,
                   additionalLocal, jobVars, detailLocal>>

\* A failure keeps the previous baseline.
PrimaryFails ==
    /\ pc["current WSL"] = "collect"
    /\ Fault
    /\ outgoing' = [kind |-> "Linux", count |-> cpus, ok |-> FALSE,
                    scope |-> FALSE, window |-> {}]
    /\ capture' = None
    /\ Goto("current WSL", "send")
    /\ UNCHANGED <<aggVars, channelVars, showDetails, cpus, windowsLocal, baseline,
                   loaded, additionalLocal, jobVars, detailLocal>>

PrimarySend ==
    /\ pc["current WSL"] = "send"
    /\ SendThen("current WSL", outgoing, "idle")
    /\ outgoing' = None
    /\ UNCHANGED <<cpus, windowsLocal, capture, baseline, loaded, additionalLocal,
                   jobVars, detailLocal, faults>>

(****************************************************************************)
(* Workers that load the count before they collect                          *)
(****************************************************************************)
LoadCount(w) ==
    /\ w \in {"additional WSL"} \cup Runtimes
    /\ Starts(w)
    /\ loaded' = [loaded EXCEPT ![w] = cpus]
    /\ Goto(w, "collect")
    /\ UNCHANGED <<aggVars, channelVars, showDetails, cpus, windowsLocal,
                   primaryLocal, additionalLocal, jobVars, detailLocal, faults>>

Forget(w) == loaded' = [loaded EXCEPT ![w] = None]

\* AdditionalStreamCollector::snapshot and calculate_additional_update:
\* every running distribution succeeds or fails on its own, and only one that
\* had a baseline yields a delta.
AdditionalSample ==
    /\ "additional WSL" \in Collectors /\ pc["additional WSL"] = "collect"
    /\ \E snapshots \in SUBSET running :
          /\ FaultUnless(snapshots = running)
          /\ before' = (before \cap running) \cup snapshots
          /\ SendThen("additional WSL",
                      [kind |-> "ExtraWsl", count |-> loaded["additional WSL"], ok |-> TRUE,
                       running |-> running, successful |-> snapshots \cap before,
                       failures |-> running \ snapshots],
                      "idle")
    /\ Forget("additional WSL")
    /\ UNCHANGED <<cpus, windowsLocal, primaryLocal, running, jobVars, detailLocal>>

\* Discovery failed: the baselines stay.
AdditionalFails ==
    /\ "additional WSL" \in Collectors /\ pc["additional WSL"] = "collect"
    /\ Fault
    /\ SendThen("additional WSL",
                [kind |-> "ExtraWsl", count |-> loaded["additional WSL"], ok |-> FALSE,
                 running |-> {}, successful |-> {}, failures |-> {}],
                "idle")
    /\ Forget("additional WSL")
    /\ UNCHANGED <<cpus, windowsLocal, primaryLocal, additionalLocal, jobVars, detailLocal>>

DistroStartsOrStops(d) ==
    /\ Fault
    /\ running' = IF d \in running THEN running \ {d} ELSE running \cup {d}
    /\ UNCHANGED <<aggVars, channelVars, showDetails, cpus, windowsLocal, pc,
                   primaryLocal, loaded, before, jobVars, detailLocal>>

(****************************************************************************)
(* Container runtimes: spawn_wslc, spawn_docker                             *)
(****************************************************************************)
\* A successful aggregate is offered to the detail worker; when the channel
\* is full, try_send drops it.  Nothing another thread does between the two
\* sends is excluded by making them one step: the aggregator sees only the
\* first, the detail worker and the flag matter only to the second.
RuntimeSample(r) ==
    /\ r \in Runtimes /\ pc[r] = "collect"
    /\ \E ids \in SUBSET Containers, complete \in BOOLEAN :
          /\ FaultUnless(complete)
          /\ SendThen(r, [kind |-> "Aggregate", runtime |-> r, count |-> loaded[r],
                          ok |-> TRUE, ids |-> ids, complete |-> complete], "idle")
          /\ job' = IF open /\ showDetails /\ job[r] = None
                    THEN [job EXCEPT ![r] = [ids |-> ids, count |-> loaded[r]]]
                    ELSE job
          /\ steady' = [steady EXCEPT ![r] = @ \cap ids]
    /\ Forget(r)
    /\ UNCHANGED <<cpus, windowsLocal, primaryLocal, additionalLocal, detailLocal>>

RuntimeFails(r) ==
    /\ r \in Runtimes /\ pc[r] = "collect"
    /\ Fault
    /\ SendThen(r, [kind |-> "Aggregate", runtime |-> r, count |-> loaded[r],
                    ok |-> FALSE, ids |-> {}, complete |-> FALSE], "idle")
    /\ Forget(r)
    /\ UNCHANGED <<cpus, windowsLocal, primaryLocal, additionalLocal, jobVars, detailLocal>>

detailFrame == <<cpus, windowsLocal, pc, primaryLocal, loaded, additionalLocal>>

DetailTake(r) ==
    /\ r \in Runtimes /\ ~detailDone[r] /\ ~stop
    /\ work[r] = None /\ job[r] # None
    /\ work' = [work EXCEPT ![r] = job[r]]
    /\ job' = [job EXCEPT ![r] = None]
    /\ UNCHANGED <<aggVars, channelVars, showDetails, detailFrame, steady, lastDetails,
                   detailDone, faults>>

\* Mutant: nothing is reused.
ReusesNothing(r, c) == None

\* reuse_wslc_processes, reuse_docker_processes: lists of the same scale.
Reused(r, c) == IF lastDetails[r].count = work[r].count THEN lastDetails[r].lists[c]
                                                        ELSE None

\* populate_processes: a container whose command fails keeps the reused list.
Populated(r, failed) ==
    [c \in Containers |-> IF c \notin work[r].ids THEN None
                          ELSE IF c \in failed THEN Reused(r, c) ELSE work[r].count]

DetailPopulate(r) ==
    /\ r \in Runtimes /\ work[r] # None
    /\ \E failed \in SUBSET work[r].ids :
          LET lists == Populated(r, failed)
          IN /\ FaultUnless(failed = {})
             /\ lastDetails' = [lastDetails EXCEPT ![r] =
                                   [count |-> work[r].count, lists |-> lists]]
             /\ IF open
                THEN /\ Len(queue) < MaxQueue
                     /\ queue' = Append(queue,
                          [kind |-> "Details", runtime |-> r, count |-> work[r].count,
                           ids |-> work[r].ids, lists |-> lists, failed |-> failed])
                     /\ UNCHANGED detailDone
                ELSE /\ detailDone' = [detailDone EXCEPT ![r] = TRUE]
                     /\ UNCHANGED queue
    /\ work' = [work EXCEPT ![r] = None]
    /\ UNCHANGED <<aggVars, open, stop, showDetails, detailFrame, jobVars>>

\* Mutant: the flag is only looked at when a job arrives.
QuitsAfterJob(r) ==
    /\ r \in Runtimes /\ ~detailDone[r] /\ stop /\ work[r] = None /\ job[r] # None
    /\ detailDone' = [detailDone EXCEPT ![r] = TRUE]
    /\ UNCHANGED <<aggVars, channelVars, showDetails, detailFrame, jobVars, work,
                   lastDetails, faults>>

DetailQuit(r) ==
    /\ r \in Runtimes /\ ~detailDone[r] /\ stop /\ work[r] = None
    /\ detailDone' = [detailDone EXCEPT ![r] = TRUE]
    /\ UNCHANGED <<aggVars, channelVars, showDetails, detailFrame, jobVars, work,
                   lastDetails, faults>>

(****************************************************************************)
(* The aggregator loop of run, and the TUI that owns the flags              *)
(****************************************************************************)
Receive ==
    /\ open /\ ~stop /\ queue # <<>>
    /\ Apply(Head(queue))
    /\ queue' = Tail(queue)
    /\ UNCHANGED <<open, stop, showDetails, workerVars>>

\* Leaving run drops the receiver and whatever is queued.
Leave ==
    /\ open /\ stop
    /\ open' = FALSE /\ queue' = <<>>
    /\ UNCHANGED <<aggVars, stop, showDetails, workerVars>>

Stop ==
    /\ ~stop /\ stop' = TRUE
    /\ UNCHANGED <<aggVars, queue, open, showDetails, workerVars>>

ToggleDetails ==
    /\ showDetails' = ~showDetails
    /\ UNCHANGED <<aggVars, channelVars, workerVars>>

WindowsStep == (\E count \in Counts : WindowsSnapshot(count))
               \/ WindowsAnnounce \/ WindowsMemory \/ WindowsUsage \/ WindowsFails
PrimaryStep == PrimaryCapture \/ PrimarySample \/ PrimaryFails \/ PrimarySend
AdditionalStep == LoadCount("additional WSL") \/ AdditionalSample \/ AdditionalFails
RuntimeStep(r) == LoadCount(r) \/ RuntimeSample(r) \/ RuntimeFails(r)
DetailStep(r) == DetailTake(r) \/ DetailPopulate(r) \/ DetailQuit(r)
AggregatorStep == Receive \/ Leave

Next ==
    \/ WindowsStep
    \/ Metadata
    \/ PrimaryStep
    \/ AdditionalStep
    \/ \E d \in Distros : DistroStartsOrStops(d)
    \/ \E r \in Runtimes : RuntimeStep(r) \/ DetailStep(r)
    \/ \E w \in Collectors : Quit(w)
    \/ AggregatorStep
    \/ Stop
    \/ ToggleDetails

Spec == Init /\ [][Next]_vars

\* Every thread is scheduled, and every collector call returns: commands of
\* Windows and of containers run under output_with_timeout, and wsl.exe, which
\* multiwsl.rs waits for without a limit, is assumed to end.  Fairness of the
\* senders is strong because only the bound on the channel can make one wait.
Fairness ==
    /\ SF_vars(WindowsStep) /\ SF_vars(Metadata)
    /\ SF_vars(PrimaryStep) /\ SF_vars(AdditionalStep)
    /\ \A r \in Runtimes : SF_vars(RuntimeStep(r)) /\ SF_vars(DetailStep(r))
    /\ \A w \in Collectors : WF_vars(Quit(w))
    /\ WF_vars(AggregatorStep)

FairSpec == Spec /\ Fairness

(****************************************************************************)
(* Properties                                                               *)
(****************************************************************************)
TypeOK ==
    /\ AggregateTypeOK
    /\ queue \in Seq(Events) /\ open \in BOOLEAN /\ stop \in BOOLEAN
    /\ showDetails \in BOOLEAN
    /\ cpus \in Counts /\ cached \in Rows /\ winBefore \in Rows
    /\ pc \in [Collectors -> Places]
    /\ capture \in Rows /\ baseline \in SUBSET Counts
    /\ outgoing \in LinuxEvents \cup {None}
    /\ loaded \in [Collectors -> Rows]
    /\ before \in SUBSET Distros /\ running \in SUBSET Distros
    /\ job \in [Runtimes -> Jobs \cup {None}] /\ work \in [Runtimes -> Jobs \cup {None}]
    /\ steady \in [Runtimes -> SUBSET Containers]
    /\ lastDetails \in [Runtimes -> [count : Rows, lists : Lists]]
    /\ detailDone \in [Runtimes -> BOOLEAN]
    /\ faults \in 0 .. MaxFaults

\* Once the host count is confirmed, every WSL and container row that the snapshot
\* combines was divided by that one count, whichever thread measured it and
\* whenever the count changed under it (Aggregate::apply, has_stale_normalization).
\* Rows of Windows are not among them: apply keeps them when the count changes,
\* and how long they are of the old count is WindowsRowsCatchUp.
SingleScale ==
    authoritative =>
        /\ linux \in {None, hostCount}
        /\ \A d \in Distros : extra[d] \in {None, hostCount}
        /\ \A r \in Runtimes :
              /\ usage[r].count \in {None, hostCount}
              /\ \A c \in Containers : details[r][c] \in {None, hostCount}

\* A WSL kernel CPU value spans only captures that saw the count it is shown
\* with (spawn_primary_processes, stable_kernel_usage).
KernelWindowStable ==
    (authoritative /\ kernelCpu # {}) => kernelCpu = {hostCount}

\* The WSL summary is complete when it is called available: the primary rows
\* are there, and so are those of exactly the distributions that the last
\* update found running; discovery raised no warning (Aggregate::snapshot).
LinuxReadyComplete ==
    LinuxReady => /\ linux = hostCount
                  /\ ~WslOnly => {d \in Distros : extra[d] # None} = reported
                  /\ ~PlanWarned

\* Process lists hang only from containers of the latest aggregate, however
\* late their event was.
DetailsOnCurrentContainers ==
    \A r \in Runtimes, c \in Containers : details[r][c] # None => c \in usage[r].ids

\* A list that a failed command left from an earlier round is shown together
\* with the warning of that failure, as long as its container was in every
\* sample; aggregate successes do not hide the warning.
RetainedDetailsWarned ==
    \A r \in Runtimes : retained[r] \cap steady[r] # {} => detailWarnings[r]

\* When the host count changed, the Windows rows of the old count stay only
\* until the sample that announced the new count delivers its own.
WindowsRowsCatchUp ==
    (open /\ authoritative /\ windows \in Counts /\ windows # hostCount) =>
        \/ pc["Windows"] \in {"memory", "usage"}
        \/ \E i \in DOMAIN queue : queue[i].kind \in {"HostCpuCount", "Windows"}

\* The count that a Windows event carries was confirmed before it, so that
\* storing it changes nothing (Event::Windows arm of apply).
WindowsCountConfirmed ==
    [][(Receive /\ Head(queue).kind = "Windows") => UNCHANGED hostCount]_vars

\* Container c of runtime r loses a list on the confirmed scale although it
\* is still there.
Erased(r, c) ==
    /\ authoritative /\ details[r][c] = hostCount /\ details'[r][c] = None
    /\ c \in usage'[r].ids /\ hostCount' = hostCount

\* A detail round whose command fails does not erase the list of a container
\* that every sample listed, whatever jobs were dropped between its rounds,
\* unless the round before it was of another count: lists of that count are not
\* reused, so that a count that changed and changed back costs the list.
FailedDetailKeepsList ==
    [][\A r \in Runtimes \ dropped : \A c \in steady[r] : ~Erased(r, c)]_vars

\* The same of every container, as docs/architecture.md has it.
NoListErased ==
    [][\A r \in Runtimes, c \in Containers : ~Erased(r, c)]_vars

\* A failure of the primary collector removes the scope that actions need
\* (docs/process-actions.md).
PrimaryFailureRemovesScope ==
    [][(Receive /\ Head(queue).kind = "Linux" /\ ~Head(queue).ok) => ~scope']_vars

\* Loading ends: no collector that does not depend on new baselines stays
\* pending for ever, even when every sample fails or the count changes.
LoadingEnds ==
    \A w \in Collectors \ {"additional WSL"} : []<>(w \notin pending \/ stop)

\* When failures, count changes and distro churn have ceased, the WSL and
\* container summaries are available for good.
Recovers ==
    PlanWarned \/ <>[](stop \/ (LinuxReady /\ \A r \in Runtimes : RuntimeReady(r)))

\* A stop request ends every thread.
ShutsDown ==
    stop ~> /\ ~open
            /\ \A w \in Collectors : pc[w] = "done"
            /\ \A r \in Runtimes : detailDone[r]

\* A Windows summary that is called available was measured; a successful empty
\* collection shows zero, anything else N/A (README.md, summary.rs).
WindowsReadyMeasured == WindowsReady => windows \in Counts
==============================================================================
