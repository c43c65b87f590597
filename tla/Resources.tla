------------------------------ MODULE Resources ------------------------------
(****************************************************************************)
(* Process snapshots and the usage rows made of two of them: model.rs,      *)
(* sampler.rs, buildkit.rs and the order of query.rs.                       *)
(*                                                                          *)
(* Names and identifiers are naturals, and a source or an identifier that   *)
(* the code composes of several is their sequence, so that the order of the *)
(* strings is the order of the sequences.  Scale is 100% of the host, a     *)
(* multiple of every divisor that occurs, so that each division is exact.   *)
(****************************************************************************)
EXTENDS FiniteSets, Integers, Sequences, SequencesExt

CONSTANTS
    Scale,       \* 100%
    Absent,      \* Option::None of a metric
    Plan9,       \* the name of the file server of WSL
    Vmmem,       \* the names of hosts of WSL: vmmem, vmmemWSL
    VmmemWslc    \* the names of hosts of WSLC sessions: vmmemwslc-*

Environments == {"windows", "wsl", "wslc", "docker"}

NoStart == -1   \* Option<u64>: no start time

\* Option<String>: none, a distribution or container, or buildkit:distro:id.
NoSource          == <<>>
BuildSource(d, x) == <<0>> \o d \o <<x>>
IsBuild(source)   == Len(source) >= 2 /\ source[1] = 0

\* identity(source): the distribution before the executor, if there is one.
BuildDistro(source) == SubSeq(source, 2, Len(source) - 1)

Sample(env, source, pid, start, name, cpu, memory) ==
    [env |-> env, source |-> source, pid |-> pid, start |-> start,
     name |-> name, cpu |-> cpu, memory |-> memory]

\* ProcessKey
Key(sample) == <<sample.env, sample.source, sample.pid, sample.start>>

Row(env, source, kind, id, start, name, cpu, memory) ==
    [env |-> env, source |-> source, kind |-> kind, id |-> id, start |-> start,
     name |-> name, cpu |-> cpu, memory |-> memory]

Classify(sample) ==
    IF sample.env = "windows" /\ sample.name \in Vmmem \cup VmmemWslc THEN "host"
    ELSE IF sample.env = "wsl" /\ sample.name = Plan9 THEN "infra"
    ELSE "process"

CpuPercent(delta, elapsed, cpus) == (delta * Scale) \div (elapsed * cpus)

SameProcess(b, a) == Key(b) = Key(a)

UsageRow(b, a, elapsed, cpus) ==
    Row(a.env, a.source, Classify(a), <<a.pid>>, a.start, a.name,
        CpuPercent(a.cpu - b.cpu, elapsed, cpus), a.memory)

\* A snapshot is a set of samples.
UsageOf(before, after, elapsed, cpus) ==
    IF elapsed =< 0 \/ cpus = 0 THEN {}
    ELSE {UsageRow(pair[1], pair[2], elapsed, cpus) :
             pair \in {p \in before \X after : SameProcess(p[1], p[2]) /\ p[2].cpu >= p[1].cpu}}

-----------------------------------------------------------------------------
(* BuildKit: processes of an executor are rows of Docker, once.             *)
(****************************************************************************)

NormalizeDisabled(samples) ==
    {IF s.env = "docker" /\ IsBuild(s.source)
     THEN [s EXCEPT !.env = "wsl", !.source = BuildDistro(s.source)]
     ELSE s : s \in samples}

IsBuildRow(row) == row.env = "docker" /\ IsBuild(row.source)

SumOf(rows, field) == SumFunctionOnSet([row \in rows |-> row[field]], rows)

Executor(source, rows) ==
    [resource |-> Row("docker", BuildDistro(source), "container", source, NoStart, 0,
                      SumOf(rows, "cpu"), SumOf(rows, "memory")),
     processes |-> rows]

\* take_usage: the rows that stay and the containers of the builds.
TakeUsage(rows, enabled) ==
    LET builds == {row \in rows : IsBuildRow(row)}
    IN  IF enabled
        THEN [rows |-> rows \ builds,
              containers |-> {Executor(source, {row \in builds : row.source = source}) :
                                  source \in {row.source : row \in builds}}]
        ELSE [rows |-> (rows \ builds) \cup
                       {[row EXCEPT !.env = "wsl", !.source = BuildDistro(row.source)] : row \in builds},
              containers |-> {}]

-----------------------------------------------------------------------------
(* query.rs: the order of rows.  A sort is [key, order].                    *)
(****************************************************************************)

SortKeys   == {"cpu", "memory", "name"}
DefaultSort == [key |-> "cpu", order |-> "desc"]

EnvironmentRank == [windows |-> 0, wsl |-> 1, wslc |-> 2, docker |-> 3]
KindRank == [application |-> 0, container |-> 1, host |-> 2, infra |-> 3, process |-> 4]

LexLess(s, t) ==
    \E n \in 0..(Len(t) - 1) :
        /\ n =< Len(s)
        /\ \A i \in 1..n : s[i] = t[i]
        /\ n = Len(s) \/ s[n + 1] < t[n + 1]

Selected(row, key) ==
    CASE key = "cpu"    -> <<row.cpu, row.memory>>
      [] key = "memory" -> <<row.memory, row.cpu>>
      [] key = "name"   -> <<row.name>>

Identity(row) == <<row.name, EnvironmentRank[row.env], KindRank[row.kind]>>

\* The keys of a comparison in turn, the smaller first.
Comparison(sort, a, b) ==
    LET x == Selected(a, sort.key)
        y == Selected(b, sort.key)
    IN  << IF sort.order = "asc" THEN <<x, y>> ELSE <<y, x>>,
           <<Identity(a), Identity(b)>>, <<a.source, b.source>>,
           <<a.id, b.id>>, <<<<a.start>>, <<b.start>>>> >>

Precedes(sort, a, b) ==
    LET keys == Comparison(sort, a, b)
    IN  \E n \in DOMAIN keys :
            LexLess(keys[n][1], keys[n][2]) /\ \A m \in 1..(n - 1) : keys[m][1] = keys[m][2]

\* The domain of rowOf in the order of its rows: each element is put after those
\* that precede it.
SortedOn(rowOf, sort) ==
    LET Before(sorted, x) == {i \in DOMAIN sorted : Precedes(sort, rowOf[sorted[i]], rowOf[x])}
    IN  FoldSet(LAMBDA x, sorted : InsertAt(sorted, 1 + Cardinality(Before(sorted, x)), x), <<>>, DOMAIN rowOf)

SortedSet(rows, sort) == SortedOn([row \in rows |-> row], sort)
=============================================================================
