----------------------------- MODULE Containers -----------------------------
(****************************************************************************)
(* One collection of docker.rs or wslc.rs: the statistics, the probes of    *)
(* the cgroups and the processes of each container.  What a command prints  *)
(* is a sequence of rows; a field that cannot be parsed is Bad.             *)
(****************************************************************************)
EXTENDS Attribution

CONSTANTS
    Bad,      \* a field that does not parse
    PsName    \* the name of ps

-----------------------------------------------------------------------------
(* Fields.                                                                  *)
(****************************************************************************)

\* parse_percent: [number, suffix], finite and not negative.
ParsePercent(field) ==
    IF field = Bad THEN Bad
    ELSE IF ~field.suffix \/ field.number < 0 THEN Bad ELSE field.number

\* Thousands and 1024s are two families of units with different largest ones.
DockerUnits == {"B", "kB", "KB", "MB", "GB", "KiB", "MiB", "GiB"}
WslcUnits   == DockerUnits \cup {"TB", "TiB"}

Multiplier(unit) ==
    LET power == CASE unit = "B" -> 0 [] unit \in {"kB", "KB", "KiB"} -> 1 [] unit \in {"MB", "MiB"} -> 2
                   [] unit \in {"GB", "GiB"} -> 3 [] unit \in {"TB", "TiB"} -> 4
    IN  (IF unit \in {"KiB", "MiB", "GiB", "TiB"} THEN 1024 ELSE 1000) ^ power

\* parse_memory and parse_size_bytes of [amount, unit], the part before "/".
ParseMemory(field, units) ==
    IF field = Bad THEN Bad
    ELSE IF field.unit \notin units \/ field.amount < 0 THEN Bad
    ELSE field.amount * Multiplier(field.unit)

\* parse_cpu_time of [days, clock]: MM:SS or HH:MM:SS.
ParseCpuTime(field) ==
    IF Bad \in {field.days} \cup {field.clock[i] : i \in DOMAIN field.clock} \/ Len(field.clock) \notin {2, 3} THEN Bad
    ELSE LET seconds == field.days * 86400
                        + (IF Len(field.clock) = 3 THEN field.clock[1] * 3600 ELSE 0)
                        + field.clock[Len(field.clock) - 1] * 60 + field.clock[Len(field.clock)]
         IN  IF seconds < 0 THEN Bad ELSE seconds

-----------------------------------------------------------------------------
(* Statistics: rows of [id, name, cpu, memory].                             *)
(****************************************************************************)

ContainerRow(runtime, stat, memory, cpus) ==
    Row(runtime, NoSource, "container", <<stat.id>>, NoStart, stat.name,
        CpuPercent(ParsePercent(stat.cpu), 1, cpus), memory)

NoUsage == [available |-> FALSE, rows |-> {}, details |-> {}, warned |-> {}]
Failed  == [error |-> TRUE]

\* docker: one bad row fails the collection.
DockerStats(stats, cpus) ==
    IF \E s \in stats : ParsePercent(s.cpu) = Bad \/ ParseMemory(s.memory, DockerUnits) = Bad THEN Failed
    ELSE [available |-> TRUE, details |-> {}, warned |-> {},
          rows |-> {ContainerRow("docker", s, ParseMemory(s.memory, DockerUnits), cpus) : s \in stats}]

\* wslc: a row without CPU is left out, one without memory has none, and both
\* are warned of.
Skipped(stat)  == ParsePercent(stat.cpu) = Bad

Doubtful(stat) == Skipped(stat) \/ ParseMemory(stat.memory, WslcUnits) = Bad

WslcStats(stats, cpus) ==
    [available |-> TRUE, details |-> {},
     warned |-> {<<"row", s.id>> : s \in {s \in stats : Doubtful(s)}},
     rows |-> {ContainerRow("wslc", s, LET m == ParseMemory(s.memory, WslcUnits) IN IF m = Bad THEN 0 ELSE m, cpus) :
                   s \in {s \in stats : ~Skipped(s)}}]

\* aggregate_usage of either runtime.  The command is not found, times out, fails
\* (its daemon does not run, or another reason), or prints statistics or garbage.
Unasked(output, cpus) == cpus = 0 \/ output.is = "not_found"

DockerUsage(output, cpus) ==
    IF Unasked(output, cpus) \/ (output.is = "failure" /\ output.daemon) THEN NoUsage
    ELSE IF output.is = "stats" THEN DockerStats(output.stats, cpus) ELSE Failed

WslcUsage(output, cpus) ==
    IF Unasked(output, cpus) THEN NoUsage
    ELSE IF output.is = "stats" THEN WslcStats(output.stats, cpus) ELSE Failed

AggregateUsage(runtime, output, cpus) ==
    IF runtime = "docker" THEN DockerUsage(output, cpus) ELSE WslcUsage(output, cpus)

-----------------------------------------------------------------------------
(* Processes of a container: what docker top or an injected ps prints, as   *)
(* [columns, rows] or a failure; a row is [pid, ppid, cpu, rss, time,       *)
(* command].                                                                *)
(****************************************************************************)

BadRow(row, timed) ==
    \/ Bad \in {row.pid, row.ppid, row.cpu, row.rss} \/ row.cpu < 0
    \/ timed /\ ParseCpuTime(row.time) = Bad

\* The ps that the collector runs.
Injected(row) == row.pid # Bad /\ row.ppid = 0 /\ row.command = PsName

\* All rows or none.
ListedRows(runtime, id, rows, output, cpus) ==
    IF cpus = 0 \/ ~output.columns \/ \E row \in rows : BadRow(row, output.timed) THEN Failed
    ELSE [processes |-> {Row(runtime, <<id>>, "process", <<id, row.pid>>, NoStart, row.command,
                             CpuPercent(row.cpu, 1, cpus), row.rss * 1024) : row \in rows}]

ParseTop(id, output, cpus) == ListedRows("docker", id, output.rows, output, cpus)

\* wslc.rs, parse_processes
ParsePs(id, output, cpus) == ListedRows("wslc", id, {row \in output.rows : ~Injected(row)}, output, cpus)

IsFailed(result) == "error" \in DOMAIN result

\* container_processes: a second try without TIME, unless the first one did not
\* end.  An output is "timeout", "failure" or what was printed.
ContainerProcesses(runtime, id, tries, cpus) ==
    LET Parsed(output) == IF runtime = "docker" THEN ParseTop(id, output, cpus) ELSE ParsePs(id, output, cpus)
        Try(n)         == IF tries[n].is = "printed" THEN Parsed(tries[n]) ELSE Failed
    IN  IF tries[1].is = "timeout" THEN Failed
        ELSE IF ~IsFailed(Try(1)) THEN Try(1) ELSE Try(2)

\* Each container keeps its row; those whose processes cannot be listed keep the
\* processes that were known before.
PopulateProcesses(usage, listed) ==
    LET Details(row) == listed[row.id[1]]
        unknown      == {row \in usage.rows : IsFailed(Details(row))}
        Known(row)   == UNION {old.processes : old \in {old \in usage.details : old.resource.id = row.id}}
        ListOf(row)  == IF row \in unknown THEN Known(row) ELSE Details(row).processes
    IN  [usage EXCEPT !.details = {[resource |-> row, processes |-> ListOf(row)] : row \in usage.rows},
                      !.warned = @ \cup {<<"details", row.id[1]>> : row \in unknown}]

\* usage() completes the statistics with the processes of every container.
\* Whether they are complete is decided before the details are known.
WithDetails(usage, listed) ==
    [complete |-> usage.available /\ usage.warned = {}, usage |-> PopulateProcesses(usage, listed)]
=============================================================================
