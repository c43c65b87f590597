------------------------------- MODULE Monitor -------------------------------
(****************************************************************************)
(* One one-shot sample: Monitor::sample of monitor.rs, with its two worker  *)
(* threads, three captures of the guest and two of Windows, and the         *)
(* snapshot that it assembles of them.                                      *)
(*                                                                          *)
(* Each distribution runs one process and one build, which use one CPU all  *)
(* the time, and so does each process of Windows: every rate is known.      *)
(****************************************************************************)
EXTENDS CollectorPlan, Containers, ResourceQuery, CpuAccounting

CONSTANTS
    CpuCounts,      \* logical CPUs of the host
    Outputs,        \* what the statistics commands of containers return
    Printed,        \* what a process command of a container prints
    WindowsNames,   \* processes of Windows that are not hosts: their names
    Metadata        \* what application_metadata returns, nothing when it fails

\* Scale is a multiple of every count, so that no division rounds.
ASSUME MonitorAssumption ==
    /\ Scale \in Nat
    /\ \A n \in CpuCounts : n \in Nat \ {0} /\ \E k \in 0..Scale : Scale = k * n
    /\ IsFiniteSet(WindowsNames)

\* The statistics of a runtime list a container once, and ps a process once; each
\* uses one CPU, or what it uses does not parse.
ASSUME OutputsAssumption ==
    /\ \A output \in Outputs : output.is = "stats" =>
           /\ IsFiniteSet(output.stats)
           /\ \A s \in output.stats : ParsePercent(s.cpu) \in {1, Bad}
           /\ \A s, t \in output.stats : s.id = t.id => s = t
    /\ \A tries \in Printed : \A n \in 1..2 : tries[n].is = "printed" =>
           /\ IsFiniteSet(tries[n].rows)
           /\ \A p \in tries[n].rows : p.cpu \in {1, Bad}
           /\ \A p, q \in tries[n].rows : p.pid = q.pid => p = q

Runtimes == {"wslc", "docker"}

VARIABLES
    config,         \* wslOnly, wslc, docker, apps, processes, name of the
                    \* distribution; and the vmmem hosts of the machine
    pc,             \* the place of the main thread
    captures,       \* the captures that have ended
    cpus,           \* HOST_LOGICAL_CPU_COUNT, 0 until it is known
    collectorCpus,  \* collector_cpu_count
    windows,        \* the snapshots of Windows, before and after
    worker,         \* of each runtime: the thread's place, probes and result
    published       \* the MonitorSnapshot, or Absent

sampleVars  == <<config, pc, captures, collectorCpus, windows, published>>
monitorVars == <<planVars, sampleVars, cpus, worker>>

InitMonitor(configs) ==
    /\ config \in configs
    /\ pc = "plan"
    /\ captures = <<>>
    /\ cpus \in {0} \cup CpuCounts
    /\ config.wslOnly /\ platform = "wsl" => cpus = 0
    /\ collectorCpus = 0
    /\ windows = <<>>
    /\ worker = [r \in Runtimes |-> [at |-> "off", probes |-> {}, result |-> Absent]]
    /\ published = Absent

\* The primary snapshots taken so far.
Taking == Len(captures) + (IF capture.number > Len(captures) /\ capture.at # "primary" THEN 1 ELSE 0)

-----------------------------------------------------------------------------
(* The worker of a runtime: a baseline, a pause if there are containers,    *)
(* and the usage.  It ends early with an error, or panics.                  *)
(****************************************************************************)

Probes(r, usage, round) == {[id |-> row.id[1], round |-> round, at |-> Taking] : row \in usage.rows}

Collected(r, output, tries) ==
    LET usage == AggregateUsage(r, output, collectorCpus)
    IN  IF IsFailed(usage) THEN Failed
        ELSE WithDetails(usage, [id \in {row.id[1] : row \in usage.rows} |->
                                  ContainerProcesses(r, id, tries, collectorCpus)])

WorkerEnds(r, result) == worker' = [worker EXCEPT ![r].at = "done", ![r].result = result]

\* The first statistics, without processes.
Baseline(r) ==
    /\ worker[r].at = "baseline"
    /\ \E output \in Outputs :
          LET usage == AggregateUsage(r, output, collectorCpus)
          IN  /\ IF IsFailed(usage) THEN Fails ELSE Answers
              /\ IF IsFailed(usage) THEN WorkerEnds(r, Failed)
                 ELSE worker' = [worker EXCEPT ![r].at = "usage", ![r].probes = Probes(r, usage, 1)]

Usage(r) ==
    /\ worker[r].at = "usage"
    /\ \E output \in Outputs, tries \in Printed :
          LET result == Collected(r, output, tries)
          IN  /\ IF IsFailed(result) THEN Fails ELSE Answers
              /\ IF IsFailed(result) THEN WorkerEnds(r, Failed)
                 ELSE worker' = [worker EXCEPT ![r].at = "done", ![r].result = result,
                                               ![r].probes = @ \cup Probes(r, result.usage, 2)]

\* The join of a thread that panicked is an error as well.
MonitorWorkerPanics(r) ==
    /\ worker[r].at \in {"baseline", "usage"} /\ Fails
    /\ worker' = [worker EXCEPT ![r].at = "panicked", ![r].result = Failed]

CollectorStep(r) ==
    /\ Baseline(r) \/ Usage(r) \/ MonitorWorkerPanics(r)
    /\ UNCHANGED <<platform, running, changes, plan, capture, listings, sampleVars, cpus>>

-----------------------------------------------------------------------------
(* The main thread.                                                         *)
(****************************************************************************)

\* Mutant: the threads are joined after the last capture.
JoinLate == <<"plan", "before", "windows before", "spawn", "middle", "after", "join", "windows after", "assemble">>

\* The stages in turn.
Order == <<"plan", "before", "windows before", "spawn", "middle", "join", "after", "windows after", "assemble">>

NextStage == Order[1 + CHOOSE i \in DOMAIN Order : Order[i] = pc]

Plan ==
    /\ pc = "plan"
    /\ MakePlan(config.name, config.wslOnly, FALSE)
    /\ pc' = IF plan' = Absent THEN "failed" ELSE NextStage
    /\ UNCHANGED <<config, captures, cpus, collectorCpus, windows, worker, published>>

\* capture() of the plan; only the middle one may fail.
CaptureAll ==
    /\ pc \in {"before", "middle", "after"}
    /\ \/ /\ capture.number = Len(captures)
          /\ BeginCapture
          /\ UNCHANGED <<platform, running, changes, faults, plan, listings, captures, pc>>
       \/ CaptureStep /\ UNCHANGED <<captures, pc>>
       \/ /\ capture.number > Len(captures) /\ capture.at = "ended"
          /\ captures' = Append(captures, capture.result)
          /\ pc' = IF capture.result = Unknown /\ pc # "middle" THEN "failed" ELSE NextStage
          /\ UNCHANGED planVars
    /\ UNCHANGED <<config, cpus, collectorCpus, windows, worker, published>>

\* The name of the idle process.
IdleName == 0

\* What can be counted as the CPUs of the host.  A count of CIM is kept; as long
\* as CIM gives none, the environment of PowerShell does, which may see fewer.
Counted(known) == IF known # 0 THEN {[count |-> known, cim |-> TRUE]} ELSE [count : CpuCounts, cim : BOOLEAN]

Kept(known, counted) == IF counted.cim THEN counted.count ELSE known

\* A reading of Windows now, with its accounting or without it.
WindowsReading(count, accounting) ==
  ParseWindows(
    [idle |-> IdleName, cpus |-> count, timestamp |-> Len(captures), accounting |-> accounting,
     host |-> [timestamp |-> 2 * Len(captures), idle |-> Len(captures)],
     samples |-> {Sample("windows", NoSource, name, 1, name, Len(captures), 1) :
                      name \in config.hosts \cup WindowsNames \cup {IdleName}}])

Readings(counted) == {WindowsReading(counted.count, accounting) : accounting \in {Absent, [kind |-> "native"]}}

\* wsl_only_host_cpu_count: the program counts its own CPUs within WSL.
OwnCount == config.wslOnly /\ platform = "wsl"

\* snapshot() of Windows, or only the count of CPUs.
WindowsBefore ==
    /\ pc = "windows before"
    /\ \/ ~OwnCount /\ Fails /\ pc' = "failed" /\ UNCHANGED <<windows, cpus, collectorCpus>>
       \/ /\ Answers /\ pc' = NextStage
          /\ \E counted \in Counted(cpus) :
                /\ config.wslOnly => counted.cim = ~OwnCount
                /\ cpus' = Kept(cpus, counted) /\ collectorCpus' = counted.count
                /\ IF config.wslOnly THEN windows' = <<>>
                   ELSE \E reading \in Readings(counted) : windows' = <<reading>>
    /\ UNCHANGED <<platform, running, changes, plan, capture, listings, config, captures, worker, published>>

Spawn ==
    /\ pc = "spawn" /\ pc' = NextStage
    /\ worker' = [r \in Runtimes |->
                     IF (r = "wslc" /\ ~config.wslOnly /\ config.wslc) \/ (r = "docker" /\ config.docker)
                     THEN [worker[r] EXCEPT !.at = "baseline"] ELSE worker[r]]
    /\ UNCHANGED <<planVars, config, captures, cpus, collectorCpus, windows, published>>

\* Mutant: a join waits for an answer of the thread.
FinishedWell(r) == worker[r].at \in {"off", "done"}

Finished(r) == worker[r].at \in {"off", "done", "panicked"}

Join ==
    /\ pc = "join" /\ \A r \in Runtimes : Finished(r)
    /\ pc' = NextStage
    /\ UNCHANGED <<planVars, config, captures, cpus, collectorCpus, windows, worker, published>>

WindowsAfter ==
    /\ pc = "windows after"
    /\ \/ ~config.wslOnly /\ Fails /\ pc' = "failed" /\ UNCHANGED <<windows, cpus>>
       \/ /\ Answers /\ pc' = NextStage
          /\ IF config.wslOnly THEN UNCHANGED <<windows, cpus>>
             ELSE \E counted \in Counted(cpus) : \E reading \in Readings(counted) :
                    LET known == Kept(cpus, counted)
                    IN  \/ windows' = Append(windows, reading) /\ cpus' = known
                        \/ /\ NeedsRetry(windows[1], reading)
                           /\ \E c \in Counted(known) : \E retry \in Readings(c) :
                                 /\ windows' = Append(windows, RetryInitialSample(windows[1], reading, retry))
                                 /\ cpus' = Kept(known, c)
    /\ UNCHANGED <<platform, running, changes, plan, capture, listings, config, captures, collectorCpus, worker, published>>

-----------------------------------------------------------------------------
(* What is made of the captures.                                            *)
(****************************************************************************)

BuildId == 9

\* The processes that a snapshot of a distribution shows.
Processes(taken) ==
    LET all == {Sample("wsl", taken.source, 1, 1, 1, taken.at, 1),
                Sample("docker", BuildSource(taken.source, BuildId), 2, 1, 1, taken.at, 1),
                Sample("wsl", taken.source, 3, 1, Plan9, taken.at, 1)}
    IN  IF config.docker THEN all ELSE NormalizeDisabled(all)

Kernel(taken) == ParseKernel([boot |-> 1, cpus |-> 1, uptime |-> taken.at, fields |-> [i \in 1..7 |-> taken.at]])

AdditionalSources(snapshot) == {entry[1] : entry \in snapshot.additional}

NamesIn(left, right) == \A name \in left : \E other \in right : SameName(name, other)

\* Mutant: a distribution that appears is not missed.
KeepsSources(left, right) == NamesIn(AdditionalSources(left), AdditionalSources(right))

\* same_additional_sources
SameSources(left, right) ==
    Cardinality(AdditionalSources(left)) = Cardinality(AdditionalSources(right)) /\ NamesIn(AdditionalSources(left), AdditionalSources(right))

LinuxComplete ==
    /\ \A i \in 1..3 : captures[i] # Unknown /\ captures[i].warned = {}
    /\ SameSources(captures[1], captures[2]) /\ SameSources(captures[2], captures[3])
    /\ SameSources(captures[1], captures[3])

LinuxUsage(before, after, count) ==
    LET Rows(b, a) == UsageOf(Processes(b), Processes(a), a.at - b.at, count)
    IN  Rows(before.primary, after.primary)
        \cup UNION {Rows(pair[1][2], pair[2][2]) :
                        pair \in {p \in before.additional \X after.additional : SameName(p[1][1], p[2][1])}}

HostCount == IF config.wslOnly THEN collectorCpus ELSE windows[2].cpus

\* Containers were divided by the count of the first reading of Windows.
SameCount(count) == collectorCpus = count

ResultOf(r, count) == IF SameCount(count) THEN worker[r].result ELSE Absent
Succeeded(result) == result # Absent /\ ~IsFailed(result)
UsageIn(result) == IF Succeeded(result) THEN result.usage ELSE NoUsage

\* merge_docker_usage
MergeDocker(linux, result, linuxComplete) ==
    LET builds == TakeUsage(linux, config.docker)
    IN  [linux |-> builds.rows, containers |-> UsageIn(result).details \cup builds.containers,
         complete |-> config.docker /\ Succeeded(result) /\ result.complete /\ linuxComplete]

\* The list shows applications unless they are not wanted.
WithApplications(rows, applications) ==
    IF ~config.apps \/ config.wslOnly THEN rows ELSE ApplicationView(rows, applications)

NeedsMetadata(rows) == config.apps /\ ~config.wslOnly /\ \E row \in rows : IsProcess(row)

\* guest_cpu::apply: an answer of exclusive(), [ok |-> FALSE] when it is refused.
ApplyExclusive(summary, answer, targets, ready) ==
    IF targets = {} /\ ready THEN [summary |-> summary, overlap |-> "none"]
    ELSE IF ready /\ answer.ok /\ summary.wsl.cpu # Absent
            /\ \A target \in targets : summary[target[1]].cpu # Absent
    THEN [overlap |-> "resolved",
          summary |-> [env \in Environments |->
              IF env = "windows" \/ (summary[env].cpu = Absent /\ summary[env].memory = Absent)
              THEN summary[env] ELSE [summary[env] EXCEPT !.cpu = answer.cpu[env]]]]
    ELSE [summary |-> summary, overlap |-> "unresolved"]

\* Both rounds of a container have a counter.
Probed(target) == {p.round : p \in {p \in worker[target[1]].probes : p.id = target[2]}} = {1, 2}

\* What exclusive() may answer; when it does, its windows fit (GuestCpu).
ExclusiveAnswers(targets) ==
    {[ok |-> FALSE]} \cup IF targets # {} /\ \A target \in targets : Probed(target)
                          THEN {[ok |-> TRUE, cpu |-> [env \in Environments |-> 0]]} ELSE {}

Overlaps(count) ==
    LET wslc   == ResultOf("wslc", count)
        docker == MergeDocker(LinuxUsage(captures[1], captures[3], count), ResultOf("docker", count),
                              LinuxComplete /\ SameCount(count))
    IN  [targets |-> {<<"wslc", row.id[1]>> : row \in UsageIn(wslc).rows}
                     \cup {<<"docker", c.resource.id[1]>> : c \in docker.containers},
         ready |-> /\ (config.wslOnly \/ ~config.wslc) \/ Succeeded(wslc)
                   /\ ~config.docker \/ docker.complete
                   /\ SameCount(count)]

Assembled(metadata, answer) ==
    LET count   == HostCount
        complete == LinuxComplete /\ SameCount(count)
        wslc    == UsageIn(ResultOf("wslc", count))
        merged  == MergeDocker(LinuxUsage(captures[1], captures[3], count), ResultOf("docker", count), complete)
        win     == IF config.wslOnly THEN {} ELSE WindowsUsage(windows[1], windows[2])
        apps    == IF NeedsMetadata(win) THEN GroupProcesses(win, metadata) ELSE {}
        bare    == BuildTree({row \in win : IsHostResource(row)}, merged.linux, wslc.rows, merged.containers)
        tree    == [AttachWslcProcesses(bare, wslc.details) EXCEPT !.applications = apps]
        details == IF config.processes THEN UNION {d.processes : d \in wslc.details \cup merged.containers} ELSE {}
        rows    == merged.linux \cup win \cup wslc.rows \cup details \cup {d.resource : d \in merged.containers}
        ready   == {env \in Environments :
                       \/ env = "windows" /\ ~config.wslOnly /\ SameCount(count)
                       \/ env = "wsl" /\ complete
                       \/ env = "wslc" /\ Succeeded(ResultOf("wslc", count)) /\ ResultOf("wslc", count).complete
                       \/ env = "docker" /\ merged.complete}
        kernel  == IF SameCount(count)
                   THEN KernelUsage(Kernel(captures[1].primary), Kernel(captures[3].primary), count) ELSE Absent
        overlap == Overlaps(count)
        applied == ApplyExclusive(SetWslCpu(CollectSummary(rows, ready), kernel), answer, overlap.targets, overlap.ready)
    IN  [resources |-> WithApplications(rows, apps), pids |-> rows, tree |-> tree, cpus |-> count,
         summary |-> applied.summary, overlap |-> applied.overlap,
         breakdown |-> IF config.wslOnly THEN Absent ELSE CpuBreakdown(windows[1], windows[2])]

SnapshotReturned == pc = "assemble" /\ pc' = "published"

Assemble ==
    /\ SnapshotReturned
    /\ \E answer \in ExclusiveAnswers(Overlaps(HostCount).targets), metadata \in Metadata :
          published' = Assembled(metadata, answer)
    /\ UNCHANGED <<planVars, config, captures, cpus, collectorCpus, windows, worker>>

Collects == Plan \/ CaptureAll \/ WindowsBefore \/ Spawn \/ Join \/ WindowsAfter

MainStep == Collects \/ Assemble

SampleEnded == pc \in {"published", "failed"}

MonitorNext ==
    \/ MainStep
    \/ \E r \in Runtimes : CollectorStep(r)
    \/ ~SampleEnded /\ DistroChanges /\ UNCHANGED <<sampleVars, cpus, worker>>

\* Every call returns (Windows commands end at their limit; wsl.exe is assumed
\* to), and every thread goes on.
MonitorFairness ==
    WF_monitorVars(Collects) /\ WF_pc(SnapshotReturned) /\ \A r \in Runtimes : WF_monitorVars(CollectorStep(r))

SampleSpec(begin, configs) == InitPlan(begin) /\ InitMonitor(configs) /\ [][MonitorNext]_monitorVars

-----------------------------------------------------------------------------
SourceOf(d) == IF d = plan.samples THEN NoSource ELSE <<d>>

\* The distributions that a discovery listed, and the primary one.
Observable == {plan.samples} \cup UNION Range(listings)

\* No distribution is captured twice, as the primary one and under its name or
\* under two spellings of it, so that no process is counted twice
\* (collector.rs:200, collector.rs:437).
EachDistributionOnce ==
    \A i \in DOMAIN captures : captures[i] # Unknown =>
        \A a \in captures[i].additional :
            /\ a[2].distro # captures[i].primary.distro
            /\ \A b \in captures[i].additional : a # b => a[2].distro # b[2].distro

\* Every distribution that runs is sampled, by one collector: once in a capture
\* (collector.rs:437), and once in each call of a stream (collector.rs:105).
DistributionsOnce == EachDistributionOnce /\ StreamVisitsRunning

\* A published WSL total holds the processes of every distribution that any of
\* the three discoveries listed: one that starts or stops meanwhile, or cannot be
\* read, withdraws the total (monitor.rs:211).
TotalsComplete ==
    published # Absent /\ published.summary.wsl.memory # Absent =>
        \A d \in Observable : \E row \in published.pids : row.env = "wsl" /\ row.source = SourceOf(d)

\* A published Docker total holds the builds of every such distribution
\* (monitor.rs:297).
DockerIncludesBuilds ==
    published # Absent /\ published.summary.docker.memory # Absent =>
        \A d \in Observable : \E row \in published.pids :
            row.env = "docker" /\ row.kind = "container" /\ row.id = BuildSource(SourceOf(d), BuildId)

\* A published total of WSL or Docker withholds nothing that a discovery listed
\* (monitor.rs:211, monitor.rs:297).
TotalsWhole == TotalsComplete /\ DockerIncludesBuilds

\* Everything in a snapshot was divided by the count of CPUs it shows, so that
\* each process uses the one CPU that it does, although the workers divided by a
\* count from before CIM gave one (monitor.rs:248).
OneCpuCount ==
    published # Absent => \A row \in published.pids : CoresUsed(row, published.cpus) = Scale

\* Exclusive CPU is published only of probes that lie between the first and the
\* last reading of the kernel (monitor.rs:179).
BracketedProbes ==
    published # Absent /\ published.overlap = "resolved" =>
        \A r \in Runtimes : \A p \in worker[r].probes : p.at \in {1, 2}

\* What is published together was measured together: divided by one count of CPUs,
\* by probes that the readings of the kernel enclose (monitor.rs:179, monitor.rs:248).
MeasuredTogether == OneCpuCount /\ BracketedProbes

\* Every snapshot opens as a catalog, in which each row has an identity of its
\* own: equal PIDs of several distributions do not collide (query_api.rs:92).
CatalogOpens ==
    published # Absent =>
        Opens(published) /\ \A row \in CatalogRows(published) : Inspect(published, ResourceIdentity(row)) = {row}

\* A list without a filter, and with a limit that cuts nothing off.
AllRows(snapshot) == [env |-> Absent, kind |-> Absent, name |-> Absent, sort |-> DefaultSort,
                      limit |-> Cardinality(CatalogRows(snapshot))]

\* The children of a container or application are found through the catalog,
\* also those that the flat list leaves out (query_api.rs:194).
ChildrenListed ==
    published # Absent =>
        LET Children(row) == Range(ListRows(published, ResourceIdentity(row), AllRows(published)))
        IN  /\ \A g \in published.tree.docker \cup published.tree.wslc : Children(g.container) = g.children
            /\ \A a \in published.tree.applications : Children(a.resource) = a.processes

\* A tree of a snapshot, with all of its groups.
TreeAt(snapshot, hide) ==
    Projected([sort |-> DefaultSort, limit |-> 8, childLimit |-> 8, showProcesses |-> TRUE, showHost |-> TRUE,
               hideInfra |-> hide, hideWindows |-> FALSE], snapshot).tree

\* The CPU of the rows that a tree shows beside its groups, that it hides, and in them.
TreeCpu(tree, hidden) ==
    SumOf(Range(tree.unmapped), "cpu") + SumOf(hidden, "cpu")
    + SumFunction([i \in DOMAIN tree.groups |-> SumOf(Range(tree.groups[i].children), "cpu")])

\* The tree shows the CPU of every process of WSL and every WSLC container once,
\* whichever hosts of Windows there are, and what a host uses beyond its children
\* stays the same when the infrastructure among them is hidden (attribution.rs:165).
TreeConservesCpu ==
    published # Absent => \A hide \in BOOLEAN :
        LET hidden == {row \in published.pids : hide /\ row.kind = "infra"}
            rows   == {row \in published.pids : row.env = "wsl" \/ (row.env = "wslc" /\ row.kind = "container")}
        IN  /\ TreeCpu(TreeAt(published, hide), hidden) = SumOf(rows, "cpu")
            /\ {<<g.host, g.residuals>> : g \in Range(TreeAt(published, hide).groups)}
                 = {<<g.host, g.residuals>> : g \in published.tree.groups}

\* Whatever way a snapshot is looked at, as a catalog, as the children of a row or as
\* a tree, it shows the same rows, each once (query_api.rs:92, attribution.rs:165).
SnapshotConsistent == CatalogOpens /\ ChildrenListed /\ TreeConservesCpu

\* A sample ends, with a snapshot or an error, whatever fails or panics.
SampleEnds == pc = "plan" ~> SampleEnded
=============================================================================
