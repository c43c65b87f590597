------------------------------ MODULE ProcScan ------------------------------
(****************************************************************************)
(* Two scans of /proc, by linux.rs in the primary distribution or by the    *)
(* script of multiwsl.rs in another one, while processes exit, move between *)
(* cgroups and PIDs are reused; and the usage made of them.                 *)
(****************************************************************************)
EXTENDS Resources

CONSTANTS
    ScanPids,     \* process identifiers
    Executors,    \* identifiers of BuildKit executors
    LastStart,    \* bound: the last start time
    LastCpu,      \* bound: the CPU time of a process
    ScanDistro,   \* the source of the rows: NoSource for the primary
    NoProcess     \* a PID that is not in use

\* Executors are numbered from one, the name of a distribution is never that of a
\* build (no ":" is allowed in it), and NoProcess is not a process.
ASSUME ScanAssumption ==
    /\ ScanPids \subseteq Nat /\ ScanPids # {}
    /\ Executors \subseteq Nat \ {0}
    /\ ScanDistro \in Seq(Nat \ {0})
    /\ Scale \in Nat
    /\ NoProcess \notin [start : Nat, cpu : Nat, build : Nat]

VARIABLES
    table,     \* the processes: start time, CPU time, executor or 0
    starts,    \* the start times given so far
    members,   \* history: <<pid, start, executor>> of the members of a build
    reader,    \* the collector: the scan, the PIDs it has to visit, its place
    first,     \* the stat it read before the cgroup
    group,     \* the executor it found in the cgroup, or 0
    scans      \* the samples of each scan

tableVars == <<table, starts, members>>
scanVars  == <<reader, first, group, scans>>

InitScan ==
    /\ table = [p \in ScanPids |-> NoProcess]
    /\ starts = 0
    /\ members = {}
    /\ reader = [scan |-> 1, todo |-> ScanPids, at |-> "stat"]
    /\ first = NoProcess
    /\ group = 0
    /\ scans = [n \in {1, 2} |-> {}]

-----------------------------------------------------------------------------
(* The guest.                                                               *)
(****************************************************************************)

Present(pid) == table[pid] # NoProcess

ScanStarts(pid, x) ==
    /\ ~Present(pid) /\ starts < LastStart
    /\ starts' = starts + 1
    /\ table' = [table EXCEPT ![pid] = [start |-> starts', cpu |-> 0, build |-> x]]
    /\ members' = members \cup {<<pid, starts', x>>}

ScanExits(pid) ==
    /\ Present(pid)
    /\ table' = [table EXCEPT ![pid] = NoProcess]
    /\ UNCHANGED <<starts, members>>

\* runc starts an executor outside of its cgroup and moves it.
JoinsBuild(pid, x) ==
    /\ Present(pid) /\ table[pid].build = 0
    /\ table' = [table EXCEPT ![pid].build = x]
    /\ members' = members \cup {<<pid, table[pid].start, x>>}
    /\ UNCHANGED starts

Works(pid) ==
    /\ Present(pid) /\ table[pid].cpu < LastCpu
    /\ table' = [table EXCEPT ![pid].cpu = @ + 1]
    /\ UNCHANGED <<starts, members>>

ScanGuest ==
    /\ reader.scan =< 2
    /\ \E pid \in ScanPids :
           \/ \E x \in Executors \cup {0} : ScanStarts(pid, x)
           \/ ScanExits(pid)
           \/ \E x \in Executors : JoinsBuild(pid, x)
           \/ Works(pid)
    /\ UNCHANGED scanVars

-----------------------------------------------------------------------------
(* The collector.                                                           *)
(****************************************************************************)

\* PIDs are visited in the order of the directory.
NextPid == CHOOSE pid \in reader.todo : \A other \in reader.todo : pid =< other

Visited(samples) ==
    LET todo == reader.todo \ {NextPid}
    IN  /\ scans' = [scans EXCEPT ![reader.scan] = samples]
        /\ reader' = IF todo = {}
                     THEN [scan |-> reader.scan + 1, todo |-> ScanPids, at |-> "stat"]
                     ELSE [reader EXCEPT !.todo = todo, !.at = "stat"]
        /\ first' = NoProcess
        /\ group' = 0

Seen(stat, x) ==
    Sample(IF x = 0 THEN "wsl" ELSE "docker",
           IF x = 0 THEN ScanDistro ELSE BuildSource(ScanDistro, x),
           NextPid, stat.start, 1, stat.cpu, 1)

\* A process that has gone is left out.
ReadStat ==
    /\ reader.at = "stat"
    /\ IF Present(NextPid)
       THEN /\ first' = table[NextPid]
            /\ reader' = [reader EXCEPT !.at = "cgroup"]
            /\ UNCHANGED <<group, scans>>
       ELSE Visited(scans[reader.scan])

\* A cgroup that cannot be read, or is not that of a build, leaves a process of WSL.
ReadCgroup ==
    /\ reader.at = "cgroup"
    /\ IF Present(NextPid) /\ table[NextPid].build # 0
       THEN /\ group' = table[NextPid].build
            /\ reader' = [reader EXCEPT !.at = "again"]
            /\ UNCHANGED <<first, scans>>
       ELSE Visited(scans[reader.scan] \cup {Seen(first, 0)})

\* Mutant: a build is matched by the PID alone.
AnyGeneration == Present(NextPid)

SameGeneration == Present(NextPid) /\ table[NextPid].start = first.start

\* The build record of the script, or the second read of stat.
ReadStatAgain ==
    /\ reader.at = "again"
    /\ Visited(scans[reader.scan] \cup {Seen(first, IF SameGeneration THEN group ELSE 0)})

ScanReads == reader.scan =< 2 /\ (ReadStat \/ ReadCgroup \/ ReadStatAgain) /\ UNCHANGED tableVars

ScanNext == ScanGuest \/ ScanReads

ScanSpec == InitScan /\ [][ScanNext]_<<tableVars, scanVars>>

-----------------------------------------------------------------------------
ScanEnded == reader.scan > 2

ScanUsage == UsageOf(scans[1], scans[2], 1, 1)

\* Only a process that was in the cgroup of a build is counted as that build,
\* whatever happens to its PID between the reads (linux.rs:67, multiwsl.rs:197).
BuildMembership ==
    \A n \in {1, 2} : \A s \in scans[n] :
        IsBuild(s.source) => <<s.pid, s.start, s.source[Len(s.source)]>> \in members

\* A rate is of one process: the growth of its own CPU time between the scans
\* (sampler.rs:26, the key of which holds the start time).
RateOfOneProcess ==
    ScanEnded => \A row \in ScanUsage :
        \E b \in scans[1], a \in scans[2] :
            /\ a.pid = row.id[1] /\ b.pid = a.pid /\ a.start = row.start /\ b.start = a.start
            /\ row.cpu = (a.cpu - b.cpu) * Scale

\* Moving builds out of the rows of WSL neither loses nor doubles CPU, with
\* Docker enabled or not (buildkit.rs:58).
BuildsCountedOnce ==
    ScanEnded => \A enabled \in BOOLEAN :
        LET parts == TakeUsage(ScanUsage, enabled)
        IN  /\ SumOf(ScanUsage, "cpu")
                 = SumOf(parts.rows, "cpu")
                   + SumOf({c.resource : c \in parts.containers}, "cpu")
            /\ \A row \in parts.rows : ~IsBuildRow(row)

\* With Docker disabled, a process that joins a build between the scans keeps
\* its row, because both snapshots are normalized before they are compared
\* (monitor.rs:113, monitor.rs:181).
DisabledBuildsKeepRows ==
    ScanEnded =>
        \A b \in scans[1], a \in scans[2] :
            b.pid = a.pid /\ b.start = a.start =>
                \E row \in UsageOf(NormalizeDisabled(scans[1]), NormalizeDisabled(scans[2]), 1, 1) :
                    row.id = <<a.pid>> /\ row.start = a.start /\ row.env = "wsl" /\ row.source = ScanDistro

\* Two scans of a /proc that changes meanwhile: a rate and a build are of the process
\* they name, and no row is lost to a build (sampler.rs:26, linux.rs:67, monitor.rs:113).
RatesExact == BuildMembership /\ RateOfOneProcess /\ DisabledBuildsKeepRows

\* The same, and moving the rows of builds keeps their CPU (buildkit.rs:58).
ScansExact == RatesExact /\ BuildsCountedOnce
=============================================================================
