-------------------------------- MODULE Cases --------------------------------
(****************************************************************************)
(* The pure algorithms of accounting, order, grouping and projection over   *)
(* bounded inputs: a case is one input, chosen at the start.                *)
(****************************************************************************)
EXTENDS Containers, ResourceQuery, CpuAccounting

CONSTANT NoCase

VARIABLE case

IsCase(kind) == case # NoCase /\ case.kind = kind

-----------------------------------------------------------------------------
(* Accounting: three partitions read one after the other.                   *)
(****************************************************************************)

Counters1(busy, total) == <<[name |-> 1, busy |-> busy, total |-> total]>>

Partitions == [busy : 0..3, total : 2..3]

HostSample(physical, root, guest) ==
    [kind |-> "hyper_v", physical |-> Counters1(physical.busy, physical.total),
     root |-> Counters1(root.busy, root.total), guest |-> Counters1(guest.busy, guest.total)]

AccountingCases ==
    {[kind |-> "accounting",
      before |-> HostSample([busy |-> b, total |-> 1], [busy |-> 1, total |-> 1], [busy |-> 0, total |-> 1]),
      after |-> HostSample(physical, root, guest)] :
         b \in {0, 1}, physical \in Partitions, root \in Partitions, guest \in Partitions}

\* A breakdown adds up, and no part of it is negative or more than the host,
\* although its counters are read one after the other (cpu_accounting.rs:70).
PartitionsAddUp ==
    IsCase("accounting") =>
        LET usage == UsageSince(case.before, case.after, 1, Absent)
        IN  usage # Absent =>
                /\ usage.total = usage.windows + usage.machines + usage.other
                /\ {usage.total, usage.windows, usage.machines, usage.other} \subseteq 0..Scale

-----------------------------------------------------------------------------
(* The order of rows.                                                       *)
(****************************************************************************)

OrderRows ==
    {Row("docker", source, "process", <<1>>, start, name, cpu, memory) :
         source \in {NoSource, <<1>>}, start \in {NoStart, 1}, name \in {1, 2}, cpu \in {0, 1}, memory \in {1}}
    \cup {Row("wsl", NoSource, "process", <<1>>, 1, 1, 0, 2), Row("wsl", NoSource, "infra", <<1>>, 1, 1, 0, 2)}

Sorts == [key : SortKeys, order : {"asc", "desc"}]

OrderCases == {[kind |-> "order", sort |-> sort, triple |-> rows] :
                   sort \in Sorts, rows \in [1..3 -> OrderRows]}

Place(row) == <<row.env, row.source, row.kind, row.id, row.start>>

\* The order is strict, and total on rows of different resources, whatever
\* metrics are equal: what a limit cuts off does not depend on the order in which
\* rows were collected (query.rs:75).
OrderIsTotal ==
    IsCase("order") =>
        LET Before(i, j) == Precedes(case.sort, case.triple[i], case.triple[j])
        IN  /\ Place(case.triple[1]) # Place(case.triple[2]) => Before(1, 2) \/ Before(2, 1)
            /\ ~(Before(1, 2) /\ Before(2, 1))
            /\ Before(1, 2) /\ Before(2, 3) => Before(1, 3)

-----------------------------------------------------------------------------
(* Applications of Windows.                                                 *)
(****************************************************************************)

App == 20   \* the name of an executable that owns WebView processes

\* Three processes, the last of which is not WebView; its parent is whatever
\* process had the PID when it started.
AppProcess(pid, name, start) == Row("windows", NoSource, "process", <<pid>>, start, name, 1, 1)

ParentsIn == [1..2 -> 0..3]
StartsIn  == [1..3 -> 1..3]

ApplicationCases ==
    {[kind |-> "applications",
      rows |-> {AppProcess(pid, IF pid = 3 THEN App ELSE WebView, starts[pid]) : pid \in 1..3},
      metadata |-> [pid \in 1..3 |-> [parent |-> IF pid = 3 THEN 0 ELSE parents[pid],
                                      name |-> IF pid = 3 THEN App ELSE WebView,
                                      start |-> IF pid = reread THEN 4 ELSE starts[pid], owner |-> 0]]] :
         parents \in ParentsIn, starts \in StartsIn, reread \in 0..3}

\* The parent that a process was started by: it was there before, and the
\* metadata are of the process that was measured.
ParentOf(child, parent) ==
    LET meta == case.metadata
        row(pid) == CHOOSE r \in case.rows : r.id = <<pid>>
    IN  /\ meta[child].parent = parent
        /\ \A pid \in {child, parent} : meta[pid].start = row(pid).start
        /\ meta[parent].start =< meta[child].start

\* A WebView process is part of another application only if processes that were
\* there before each other lead to it (windows_app.rs:78).
GroupedByAncestry ==
    IsCase("applications") =>
        \A application \in GroupProcesses(case.rows, case.metadata) :
            application.resource.name = App =>
                \A member \in application.processes :
                    LET pid == member.id[1]
                    IN  \/ pid = 3
                        \/ ParentOf(pid, 3)
                        \/ \E middle \in 1..2 \ {pid} : ParentOf(pid, middle) /\ ParentOf(middle, 3)

-----------------------------------------------------------------------------
(* The flat projection.                                                     *)
(****************************************************************************)

FlatRows ==
    {Row(env, NoSource, "container", <<1>>, NoStart, 1, 1, 1) : env \in {"wslc", "docker"}}
    \cup {Row(env, <<1>>, "process", <<1, pid>>, NoStart, 2, pid, 1) : env \in {"wslc", "docker"}, pid \in {1, 2}}
    \cup {Row("wsl", NoSource, "process", <<1>>, 1, 1, 2, 1), Row("windows", NoSource, "host", <<4>>, 1, 3, 2, 1)}

FlatCases ==
    {[kind |-> "flat", rows |-> rows,
      query |-> [sort |-> DefaultSort, limit |-> 8, childLimit |-> children, showProcesses |-> TRUE,
                 showHost |-> FALSE, hideInfra |-> FALSE, hideWindows |-> FALSE]] :
         rows \in SUBSET FlatRows, children \in {1, 2}}

\* A row is listed at most once; processes follow the container of their own
\* runtime, also when both runtimes show one container (query.rs:166).
FlatListsOnce ==
    IsCase("flat") =>
        LET shown == Flat(case.query, case.rows)
            At(row) == {i \in DOMAIN shown : shown[i] = row}
        IN  \A row \in case.rows :
                /\ Cardinality(At(row)) =< 1
                /\ ~ContainerProcess(row) /\ ~IsHostResource(row) => At(row) # {}
                /\ ContainerProcess(row) => \A i \in At(row) :
                       \E j \in 1..(i - 1) : /\ shown[j].kind = "container" /\ row.source = shown[j].id
                                             /\ \A k \in j..i : shown[k].env = row.env

-----------------------------------------------------------------------------
(* The statistics of WSLC.                                                  *)
(****************************************************************************)

Fields  == {Bad, [number |-> 1, suffix |-> TRUE]}
Amounts == {Bad, [amount |-> 1, unit |-> "MiB"], [amount |-> 1, unit |-> "PB"]}

StatisticsCases ==
    {[kind |-> "statistics", tries |-> tries,
      stats |-> {[id |-> i, name |-> 1, cpu |-> cpu[i], memory |-> memory[i]] : i \in 1..2}] :
         cpu \in [1..2 -> Fields], memory \in [1..2 -> Amounts],
         tries \in {<<[is |-> "timeout"], [is |-> "timeout"]>>,
                    <<[is |-> "failure"], [is |-> "printed", columns |-> TRUE, timed |-> FALSE, rows |-> {}]>>}}

\* Statistics are called complete only when every container has its row and its
\* memory; a container whose processes are not known keeps its row (wslc.rs).
CompleteMeansEvery ==
    IsCase("statistics") =>
        LET result == WithDetails(WslcStats(case.stats, 1), [id \in {s.id : s \in case.stats} |->
                                                            ContainerProcesses("wslc", id, case.tries, 1)])
        IN  /\ result.complete =>
                   \A s \in case.stats : \E row \in result.usage.rows :
                       row.id = <<s.id>> /\ row.memory = ParseMemory(s.memory, WslcUnits)
            /\ {d.resource : d \in result.usage.details} = result.usage.rows

CaseInit ==
    \/ case \in AccountingCases
    \/ case \in OrderCases
    \/ case \in ApplicationCases
    \/ case \in FlatCases
    \/ case \in StatisticsCases

\* The pure algorithms compute what their references say: breakdowns, the order of
\* rows, applications, the flat list and the statistics of containers.
AlgorithmsCorrect ==
    PartitionsAddUp /\ OrderIsTotal /\ GroupedByAncestry /\ FlatListsOnce /\ CompleteMeansEvery
=============================================================================
