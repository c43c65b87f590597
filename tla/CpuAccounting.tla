---------------------------- MODULE CpuAccounting ----------------------------
(****************************************************************************)
(* The CPU of the host and of the WSL kernel out of two readings:           *)
(* cpu_accounting.rs, linux_cpu.rs, the host counters of model.rs and the   *)
(* snapshots of windows.rs.                                                 *)
(*                                                                          *)
(* A reading that is missing, and a result that is not known, is Absent.    *)
(****************************************************************************)
EXTENDS Resources

-----------------------------------------------------------------------------
(* Counters of one partition: a sequence of [name, busy, total].            *)
(****************************************************************************)

CounterNames(counters) == {counters[i].name : i \in DOMAIN counters}
Unrepeated(counters) == Cardinality(CounterNames(counters)) = Len(counters)
Named(counters, n) == counters[CHOOSE i \in DOMAIN counters : counters[i].name = n]

\* The counter did not go back, and was not busy for longer than there was time.
Plausible(old, new) ==
    /\ new.total > old.total /\ new.busy >= old.busy
    /\ new.busy - old.busy =< new.total - old.total

PartitionUsage(before, after, cpus) ==
    LET names == CounterNames(after)
    IN  IF \/ ~Unrepeated(before) \/ ~Unrepeated(after) \/ CounterNames(before) # names
           \/ \E n \in names : ~Plausible(Named(before, n), Named(after, n))
        THEN Absent
        ELSE MapThenSumSet(LAMBDA n : CpuPercent(Named(after, n).busy - Named(before, n).busy,
                                              Named(after, n).total - Named(before, n).total, cpus), names)

-----------------------------------------------------------------------------
(* Sample::usage_since.  A sample is [kind, physical, root, guest].         *)
(****************************************************************************)

\* Partitions that were read one after the other may claim more than the total.
Overcounted(total, parts) == parts > total \/ total > Scale

Breakdown(total, windows, machines) ==
    [total |-> total, windows |-> windows, machines |-> machines, other |-> total - windows - machines]

HyperV(before, after, cpus) ==
    LET total    == PartitionUsage(before.physical, after.physical, cpus)
        windows  == PartitionUsage(before.root, after.root, cpus)
        machines == PartitionUsage(before.guest, after.guest, cpus)
    IN  IF Len(after.physical) # cpus \/ Len(after.root) # cpus \/ Absent \in {total, windows, machines}
        THEN Absent
        ELSE IF Overcounted(total, windows + machines) THEN Absent
        ELSE Breakdown(total, windows, machines)

UsageSince(before, after, cpus, native) ==
    IF cpus = 0 \/ Absent \in {before, after} THEN Absent
    ELSE IF before.kind # after.kind THEN Absent
    ELSE IF after.kind = "hyper_v" THEN HyperV(before, after, cpus)
    ELSE IF native = Absent THEN Absent
    ELSE Breakdown(native, native, 0)

\* HostCpuSample::usage_since
NativeTotal(before, after) ==
    IF Absent \in {before, after} THEN Absent
    ELSE LET elapsed == after.timestamp - before.timestamp
             idle    == after.idle - before.idle
         IN  IF elapsed =< 0 \/ idle < 0 \/ idle > elapsed THEN Absent
             ELSE CpuPercent(elapsed - idle, elapsed, 1)

-----------------------------------------------------------------------------
(* windows.rs.  A snapshot is [cpus, timestamp, samples, accounting, host]. *)
(****************************************************************************)

\* parse_snapshot: Absent when the reading is refused as a whole.
ParseWindows(raw) ==
    IF raw.cpus = 0 \/ raw.timestamp = 0 \/ \E s \in raw.samples : s.name # raw.idle /\ s.cpu < 0
    THEN Absent
    ELSE [raw EXCEPT !.samples = {s \in @ : s.name # raw.idle}]

WindowsUsage(before, after) ==
    IF before.cpus # after.cpus \/ after.timestamp < before.timestamp THEN {}
    ELSE UsageOf(before.samples, after.samples, after.timestamp - before.timestamp, after.cpus)

CpuBreakdown(before, after) ==
    IF before.cpus # after.cpus THEN Absent
    ELSE UsageSince(before.accounting, after.accounting, after.cpus, NativeTotal(before.host, after.host))

\* retry_initial_cpu_sample: the baseline stays.  Retries are the readings
\* that one more collection can return, Absent if it fails.
NeedsRetry(before, after) ==
    before.accounting # Absent /\ before.cpus = after.cpus /\ CpuBreakdown(before, after) = Absent

RetryInitialSample(before, after, retry) ==
    IF NeedsRetry(before, after) /\ retry # Absent /\ CpuBreakdown(before, retry) # Absent
    THEN retry ELSE after

-----------------------------------------------------------------------------
(* linux_cpu.rs.  A sample is [boot, cpus, uptime, busy], busy by field.    *)
(****************************************************************************)

\* Sample::parse: the fields of the line "cpu " and the lines "cpu0" ...
ParseKernel(stat) ==
    IF Absent \in {stat.fields[i] : i \in {1, 2, 3, 6, 7}} \/ stat.cpus = 0 \/ stat.boot = Absent \/ stat.uptime < 0
    THEN Absent
    ELSE [boot |-> stat.boot, cpus |-> stat.cpus, uptime |-> stat.uptime,
          busy |-> [i \in {1, 2, 3, 6, 7} |-> stat.fields[i]]]

\* Each field is compared with itself: none may go back.
FieldsAdvance(before, after) == \A i \in DOMAIN after : after[i] >= before[i]

BusySum(busy) == FoldFunction(LAMBDA n, sum : n + sum, 0, busy)

KernelUsage(before, after, hostCpus) ==
    IF Absent \in {before, after} THEN Absent
    ELSE IF \/ before.boot # after.boot \/ before.cpus # after.cpus \/ hostCpus = 0
            \/ after.uptime =< before.uptime \/ ~FieldsAdvance(before.busy, after.busy)
    THEN Absent
    ELSE CpuPercent(BusySum(after.busy) - BusySum(before.busy), after.uptime - before.uptime, hostCpus)
=============================================================================
