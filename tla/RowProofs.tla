----------------------------- MODULE RowProofs -----------------------------
(****************************************************************************)
(* The rows of a snapshot: of which processes they are, that their CPU is   *)
(* counted once, that no two have one identity, their order, the owners of  *)
(* WebView processes, and the flat list; for any sets of processes, builds, *)
(* containers and rows.                                                     *)
(****************************************************************************)
EXTENDS ProcScan, StreamView, Cases, NaturalLemmas, SequenceTheorems, FiniteSetTheorems

(****************************************************************************)
(* Two scans of a /proc that changes meanwhile.                             *)
(****************************************************************************)
Procs == [start : Nat, cpu : Nat, build : Executors \cup {0}]

\* What a scan keeps of a process, as a process of WSL (0) or of an executor.
SampleOf(pid, stat, x) ==
    Sample(IF x = 0 THEN "wsl" ELSE "docker",
           IF x = 0 THEN ScanDistro ELSE BuildSource(ScanDistro, x),
           pid, stat.start, 1, stat.cpu, 1)

Samples == {SampleOf(pid, stat, x) : pid \in ScanPids, stat \in Procs, x \in Executors \cup {0}}

ScanTypeOK ==
    /\ table \in [ScanPids -> Procs \cup {NoProcess}]
    /\ starts \in Nat
    /\ reader \in [scan : {1, 2, 3}, todo : SUBSET ScanPids, at : {"stat", "cgroup", "again"}]
    /\ reader.todo # {}
    /\ reader.at # "stat" => first \in Procs
    /\ reader.at = "again" => group \in Executors
    /\ scans \in [{1, 2} -> SUBSET Samples]

\* The processes of the table are the youngest of their PIDs.
TableInv ==
    \A p \in ScanPids : table[p] # NoProcess =>
        table[p].start =< starts /\ <<p, table[p].start, table[p].build>> \in members

\* The process of that start time has used that CPU time, if it is still there.
Grown(p, start, cpu) == table[p] # NoProcess /\ table[p].start = start => table[p].cpu >= cpu

\* The first stat is of this process or of an earlier one.
FirstInv(p) ==
    reader.at # "stat" =>
        /\ first.start =< starts /\ Grown(p, first.start, first.cpu)
        /\ table[p] # NoProcess => first.start =< table[p].start

\* The cgroup was that of a process not older than the first stat, nor younger than
\* the process of now: if the two have one start time, it was theirs.
GroupInv(p) ==
    reader.at = "again" =>
        \E s \in Nat : /\ first.start =< s /\ s =< starts /\ <<p, s, group>> \in members
                       /\ table[p] # NoProcess => s =< table[p].start

\* CPU time has not gone back since the first scan.
FirstScanInv(p) ==
    \A b \in scans[1] :
        /\ b.start =< starts /\ Grown(b.pid, b.start, b.cpu)
        /\ reader.scan = 2 /\ reader.at # "stat" /\ b.pid = p /\ b.start = first.start => b.cpu =< first.cpu

SecondScanInv ==
    /\ reader.scan = 1 => scans[2] = {}
    /\ \A b \in scans[1], a \in scans[2] : b.pid = a.pid /\ b.start = a.start => b.cpu =< a.cpu

ReaderInv(p) == FirstInv(p) /\ GroupInv(p) /\ FirstScanInv(p)

ScanInv ==
    /\ ScanTypeOK /\ TableInv /\ SecondScanInv /\ BuildMembership
    /\ \A p \in ScanPids : p = NextPid => ReaderInv(p)

LEMMA SampleIs == \A s \in Samples : s.pid \in ScanPids /\ s.start \in Nat /\ s.cpu \in Nat
BY DEF Samples, SampleOf, Sample, Procs

LEMMA NextPidIn == ScanTypeOK => NextPid \in reader.todo /\ NextPid \in ScanPids
<1> SUFFICES ASSUME ScanTypeOK PROVE NextPid \in reader.todo /\ NextPid \in ScanPids
  OBVIOUS
<1>1. reader.todo \subseteq ScanPids /\ reader.todo # {} /\ reader.todo \subseteq Nat
  BY ScanAssumption DEF ScanTypeOK
<1>2. \E pid \in reader.todo : \A other \in reader.todo : pid =< other
  BY <1>1, LeastNatural
<1> QED BY <1>1, <1>2 DEF NextPid

LEMMA ScanInitially == InitScan => ScanInv
<1> SUFFICES ASSUME InitScan PROVE ScanInv
  OBVIOUS
<1>1. ScanTypeOK
  BY ScanAssumption DEF InitScan, ScanTypeOK
<1>2. TableInv /\ SecondScanInv /\ BuildMembership /\ \A p : ReaderInv(p)
  BY DEF InitScan, TableInv, SecondScanInv, BuildMembership, ReaderInv, FirstInv, GroupInv, FirstScanInv
<1> QED BY <1>1, <1>2 DEF ScanInv

\* What any step of the guest does to the table.
GuestMoves ==
    /\ table' \in [ScanPids -> Procs \cup {NoProcess}]
    /\ starts' \in Nat /\ starts =< starts' /\ members \subseteq members'
    /\ \A p \in ScanPids : table'[p] # NoProcess =>
           /\ table'[p].start =< starts' /\ <<p, table'[p].start, table'[p].build>> \in members'
           /\ \/ starts < table'[p].start
              \/ table[p] # NoProcess /\ table'[p].start = table[p].start /\ table[p].cpu =< table'[p].cpu

LEMMA ProcIs == \A q \in Procs : q # NoProcess /\ q.start \in Nat /\ q.cpu \in Nat /\ q.build \in Nat
<1>1. Executors \cup {0} \subseteq Nat
  BY ScanAssumption
<1>2. ASSUME NEW q \in Procs PROVE q \in [start : Nat, cpu : Nat, build : Nat]
  BY <1>1 DEF Procs
<1> QED BY <1>2, ScanAssumption

LEMMA GuestMovesTable == ScanTypeOK /\ TableInv /\ ScanGuest => GuestMoves
<1> SUFFICES ASSUME ScanTypeOK, TableInv, ScanGuest PROVE GuestMoves
  OBVIOUS
<1>0. /\ table \in [ScanPids -> Procs \cup {NoProcess}] /\ starts \in Nat
      /\ \A p \in ScanPids : table[p] # NoProcess =>
             table[p] \in Procs /\ table[p].start \in Nat /\ table[p].cpu \in Nat
  BY ProcIs DEF ScanTypeOK
<1>1. ASSUME NEW pid \in ScanPids, NEW x \in Executors \cup {0}, ScanStarts(pid, x)
      PROVE  GuestMoves
  <2> DEFINE new == [start |-> starts + 1, cpu |-> 0, build |-> x]
  <2>1. /\ starts' = starts + 1 /\ table' = [table EXCEPT ![pid] = new]
        /\ members' = members \cup {<<pid, starts + 1, x>>}
    BY <1>1 DEF ScanStarts
  <2>2. new \in Procs /\ new.start = starts + 1 /\ new.build = x
    BY <1>0 DEF Procs
  <2> HIDE DEF new
  <2>3. table' \in [ScanPids -> Procs \cup {NoProcess}] /\ table'[pid] = new
        /\ \A p \in ScanPids : p # pid => table'[p] = table[p]
    BY <1>0, <2>1, <2>2
  <2> QED BY <1>0, <2>1, <2>2, <2>3 DEF GuestMoves, TableInv
<1>2. ASSUME NEW pid \in ScanPids, ScanExits(pid)
      PROVE  GuestMoves
  <2>1. table' = [table EXCEPT ![pid] = NoProcess] /\ starts' = starts /\ members' = members
    BY <1>2 DEF ScanExits
  <2>2. /\ table' \in [ScanPids -> Procs \cup {NoProcess}]
        /\ \A p \in ScanPids : table'[p] # NoProcess => table'[p] = table[p]
    BY <1>0, <2>1
  <2> QED BY <1>0, <2>1, <2>2 DEF GuestMoves, TableInv
<1>3. ASSUME NEW pid \in ScanPids, NEW new \in Procs, table[pid] # NoProcess,
             table' = [table EXCEPT ![pid] = new], starts' = starts, members \subseteq members',
             <<pid, new.start, new.build>> \in members',
             new.start = table[pid].start, table[pid].cpu =< new.cpu
      PROVE  GuestMoves
  <2>1. table' \in [ScanPids -> Procs \cup {NoProcess}] /\ table'[pid] = new
        /\ \A p \in ScanPids : p # pid => table'[p] = table[p]
    BY <1>0, <1>3
  <2>2. ASSUME NEW p \in ScanPids, table'[p] # NoProcess
        PROVE  /\ table'[p].start =< starts' /\ <<p, table'[p].start, table'[p].build>> \in members'
               /\ table[p] # NoProcess /\ table'[p].start = table[p].start /\ table[p].cpu =< table'[p].cpu
    <3>1. CASE p = pid
      BY <1>3, <2>1, <3>1 DEF TableInv
    <3>2. CASE p # pid
      <4>1. table'[p] = table[p] /\ table[p] # NoProcess
        BY <2>1, <2>2, <3>2
      <4>2. table[p].start =< starts' /\ <<p, table[p].start, table[p].build>> \in members'
        BY <1>3, <4>1 DEF TableInv
      <4> QED BY <1>0, <4>1, <4>2
    <3> QED BY <3>1, <3>2
  <2> QED BY <1>0, <1>3, <2>1, <2>2 DEF GuestMoves
<1>4. ASSUME NEW pid \in ScanPids, NEW x \in Executors, JoinsBuild(pid, x)
      PROVE  GuestMoves
  <2> DEFINE new == [table[pid] EXCEPT !.build = x]
  <2>1. table[pid] # NoProcess /\ table[pid] \in Procs
    BY <1>0, <1>4 DEF JoinsBuild, Present
  <2>2. new \in Procs /\ new.start = table[pid].start /\ new.build = x /\ table[pid].cpu =< new.cpu
    BY <1>0, <2>1 DEF Procs
  <2>3. table' = [table EXCEPT ![pid] = new] /\ starts' = starts
        /\ members' = members \cup {<<pid, table[pid].start, x>>}
    BY <1>4 DEF JoinsBuild
  <2> HIDE DEF new
  <2> QED BY <1>3, <2>1, <2>2, <2>3
<1>5. ASSUME NEW pid \in ScanPids, Works(pid)
      PROVE  GuestMoves
  <2> DEFINE new == [table[pid] EXCEPT !.cpu = @ + 1]
  <2>1. table[pid] # NoProcess /\ table[pid] \in Procs
    BY <1>0, <1>5 DEF Works, Present
  <2>2. new \in Procs /\ new.start = table[pid].start /\ new.build = table[pid].build /\ table[pid].cpu =< new.cpu
    BY <1>0, <2>1 DEF Procs
  <2>3. table' = [table EXCEPT ![pid] = new] /\ starts' = starts /\ members' = members
    BY <1>5 DEF Works
  <2> HIDE DEF new
  <2> QED BY <1>3, <2>1, <2>2, <2>3 DEF TableInv
<1> QED BY <1>1, <1>2, <1>4, <1>5 DEF ScanGuest

\* What the scan has noted of the processes stays true of them.
LEMMA GuestKeeps == ScanInv /\ ScanGuest => ScanInv'
<1> SUFFICES ASSUME ScanInv, ScanGuest PROVE ScanInv'
  OBVIOUS
<1>1. PICK next \in ScanPids : next = NextPid
  BY NextPidIn DEF ScanInv
<1>2. /\ reader' = reader /\ first' = first /\ group' = group /\ scans' = scans
      /\ NextPid' = NextPid
  BY DEF ScanGuest, scanVars, NextPid
<1>3. ScanTypeOK /\ TableInv /\ ReaderInv(next) /\ SecondScanInv /\ BuildMembership
  BY <1>1 DEF ScanInv
<1>4. GuestMoves
  BY <1>3, GuestMovesTable
<1>5. ScanTypeOK'
  BY <1>2, <1>3, <1>4 DEF ScanTypeOK, GuestMoves
<1>6. TableInv'
  BY <1>4 DEF TableInv, GuestMoves
<1>7. SecondScanInv' /\ BuildMembership'
  BY <1>2, <1>3, <1>4 DEF SecondScanInv, BuildMembership, GuestMoves
<1>8. ASSUME NEW p \in ScanPids, table'[p] # NoProcess
      PROVE  /\ table'[p].start \in Nat /\ table'[p].cpu \in Nat /\ starts \in Nat
             /\ \/ starts < table'[p].start
                \/ /\ table[p] # NoProcess /\ table'[p].start = table[p].start
                   /\ table[p].cpu =< table'[p].cpu /\ table[p].cpu \in Nat
  <2>1. table'[p] \in Procs /\ table[p] \in Procs \cup {NoProcess} /\ starts \in Nat
    BY <1>3, <1>4, <1>8 DEF ScanTypeOK, GuestMoves
  <2>2. \/ starts < table'[p].start
        \/ table[p] # NoProcess /\ table'[p].start = table[p].start /\ table[p].cpu =< table'[p].cpu
    BY <1>4, <1>8 DEF GuestMoves
  <2> QED BY <2>1, <2>2, ProcIs
<1>9. ASSUME NEW p \in ScanPids, NEW start \in Nat, NEW cpu \in Nat,
             start =< starts, Grown(p, start, cpu)
      PROVE  table'[p] # NoProcess /\ table'[p].start = start => table'[p].cpu >= cpu
  <2> SUFFICES ASSUME table'[p] # NoProcess, table'[p].start = start PROVE table'[p].cpu >= cpu
    OBVIOUS
  <2> QED BY <1>9, <1>8 DEF Grown
<1>10. FirstInv(next)'
  <2> SUFFICES ASSUME reader.at # "stat"
               PROVE  /\ first.start =< starts' /\ Grown(next, first.start, first.cpu)'
                      /\ table'[next] # NoProcess => first.start =< table'[next].start
    BY <1>2 DEF FirstInv, Grown
  <2>1. /\ first \in Procs /\ first.start \in Nat /\ first.cpu \in Nat
        /\ starts \in Nat /\ starts' \in Nat /\ starts =< starts'
        /\ first.start =< starts /\ Grown(next, first.start, first.cpu)
    BY <1>3, <1>4, ProcIs DEF ScanTypeOK, GuestMoves, ReaderInv, FirstInv
  <2>2. Grown(next, first.start, first.cpu)'
    BY <1>2, <1>9, <2>1 DEF Grown
  <2>3. ASSUME table'[next] # NoProcess PROVE first.start =< table'[next].start
    <3>1. table[next] # NoProcess => first.start =< table[next].start
      BY <1>3, <2>1 DEF ReaderInv, FirstInv
    <3> QED BY <1>8, <2>1, <2>3, <3>1
  <2> QED BY <2>1, <2>2, <2>3
<1>11. GroupInv(next)'
  <2> SUFFICES ASSUME reader.at = "again"
               PROVE  \E s \in Nat : /\ first.start =< s /\ s =< starts' /\ <<next, s, group>> \in members'
                                     /\ table'[next] # NoProcess => s =< table'[next].start
    BY <1>2 DEF GroupInv
  <2>1. PICK s \in Nat : /\ first.start =< s /\ s =< starts /\ <<next, s, group>> \in members
                         /\ table[next] # NoProcess => s =< table[next].start
    BY <1>3 DEF ReaderInv, GroupInv
  <2>2. starts \in Nat /\ starts' \in Nat /\ starts =< starts' /\ members \subseteq members'
    BY <1>3, <1>4 DEF ScanTypeOK, GuestMoves
  <2>3. ASSUME table'[next] # NoProcess PROVE s =< table'[next].start
    <3> QED BY <1>8, <2>1, <2>2, <2>3
  <2> QED BY <2>1, <2>2, <2>3
<1>12. FirstScanInv(next)'
  <2> SUFFICES ASSUME NEW b \in scans[1]
               PROVE  /\ b.start =< starts' /\ Grown(b.pid, b.start, b.cpu)'
                      /\ reader.scan = 2 /\ reader.at # "stat" /\ b.pid = next /\ b.start = first.start
                            => b.cpu =< first.cpu
    BY <1>2 DEF FirstScanInv, Grown
  <2>1. b.pid \in ScanPids /\ b.start \in Nat /\ b.cpu \in Nat
    BY <1>3, SampleIs DEF ScanTypeOK
  <2>2. /\ b.start =< starts /\ Grown(b.pid, b.start, b.cpu)
        /\ reader.scan = 2 /\ reader.at # "stat" /\ b.pid = next /\ b.start = first.start
                            => b.cpu =< first.cpu
    BY <1>3 DEF ReaderInv, FirstScanInv
  <2>3. starts \in Nat /\ starts' \in Nat /\ starts =< starts'
    BY <1>3, <1>4 DEF ScanTypeOK, GuestMoves
  <2>4. Grown(b.pid, b.start, b.cpu)'
    BY <1>2, <1>9, <2>1, <2>2 DEF Grown
  <2> QED BY <2>1, <2>2, <2>3, <2>4
<1>13. \A p \in ScanPids : p = NextPid' => ReaderInv(p)'
  BY <1>1, <1>2, <1>10, <1>11, <1>12 DEF ReaderInv
<1> QED BY <1>5, <1>6, <1>7, <1>13 DEF ScanInv

\* What may be noted of a process that is visited.
Noted(s) ==
    /\ s \in Samples /\ s.start =< starts /\ Grown(s.pid, s.start, s.cpu)
    /\ IsBuild(s.source) => <<s.pid, s.start, s.source[Len(s.source)]>> \in members
    /\ reader.scan = 2 => \A b \in scans[1] : b.pid = s.pid /\ b.start = s.start => b.cpu =< s.cpu

LEMMA VisitKeeps ==
    ASSUME ScanInv, UNCHANGED tableVars, reader.scan =< 2, NEW fresh, \A s \in fresh : Noted(s),
           Visited(scans[reader.scan] \cup fresh)
    PROVE  ScanInv'
<1>1. PICK n \in {1, 2} : n = reader.scan
  BY DEF ScanInv, ScanTypeOK
<1>2. /\ ScanTypeOK /\ TableInv /\ SecondScanInv /\ BuildMembership
      /\ table' = table /\ starts' = starts /\ members' = members
      /\ scans' = [scans EXCEPT ![n] = scans[n] \cup fresh]
      /\ first' = NoProcess /\ group' = 0
  BY <1>1 DEF ScanInv, tableVars, Visited
<1>3. PICK next \in ScanPids : next = NextPid
  BY <1>2, NextPidIn
<1>4. /\ reader' \in [scan : {1, 2, 3}, todo : SUBSET ScanPids, at : {"stat", "cgroup", "again"}]
      /\ reader'.at = "stat" /\ reader'.todo # {} /\ (reader'.scan = n \/ reader'.scan = n + 1)
  <2> DEFINE todo == reader.todo \ {next}
  <2>1. reader' = IF todo = {} THEN [scan |-> n + 1, todo |-> ScanPids, at |-> "stat"]
                               ELSE [reader EXCEPT !.todo = todo, !.at = "stat"]
    BY <1>1, <1>3 DEF Visited
  <2>2. reader \in [scan : {1, 2, 3}, todo : SUBSET ScanPids, at : {"stat", "cgroup", "again"}]
        /\ todo \in SUBSET ScanPids
    BY <1>2 DEF ScanTypeOK
  <2> HIDE DEF todo
  <2>3. CASE todo = {}
    <3>1. reader' = [scan |-> n + 1, todo |-> ScanPids, at |-> "stat"] /\ n + 1 \in {1, 2, 3}
      BY <2>1, <2>3
    <3> QED BY <3>1, ScanAssumption
  <2>4. CASE todo # {}
    <3>1. reader' = [reader EXCEPT !.todo = todo, !.at = "stat"]
      BY <2>1, <2>4
    <3> QED BY <1>1, <2>2, <2>4, <3>1
  <2> QED BY <2>3, <2>4
<1>5. /\ scans \in [{1, 2} -> SUBSET Samples] /\ fresh \subseteq Samples
  BY <1>2 DEF ScanTypeOK, Noted
<1>6. /\ scans' \in [{1, 2} -> SUBSET Samples]
      /\ scans'[n] = scans[n] \cup fresh /\ \A m \in {1, 2} : m # n => scans'[m] = scans[m]
  BY <1>2, <1>5
<1>7. ScanTypeOK' /\ TableInv'
  BY <1>2, <1>4, <1>6 DEF ScanTypeOK, TableInv
<1>8. BuildMembership'
  BY <1>2, <1>6 DEF BuildMembership, Noted
<1>9. ASSUME NEW p \in ScanPids PROVE ReaderInv(p)'
  <2>1. ASSUME NEW b \in scans'[1] PROVE b.start =< starts' /\ Grown(b.pid, b.start, b.cpu)'
    <3>1. CASE b \in scans[1]
      <4>1. b.start =< starts /\ Grown(b.pid, b.start, b.cpu)
        BY <1>3, <3>1 DEF ScanInv, ReaderInv, FirstScanInv
      <4> QED BY <1>2, <4>1 DEF Grown
    <3>2. CASE b \in fresh
      BY <1>2, <3>2 DEF Noted, Grown
    <3> QED BY <1>1, <1>6, <2>1, <3>1, <3>2
  <2> QED BY <1>4, <2>1 DEF ReaderInv, FirstInv, GroupInv, FirstScanInv
<1>10. SecondScanInv'
  <2>1. CASE n = 1
    BY <1>1, <1>2, <1>6, <2>1 DEF SecondScanInv
  <2>2. CASE n = 2
    <3>1. reader'.scan # 1 /\ scans'[1] = scans[1] /\ scans'[2] = scans[2] \cup fresh
      BY <1>4, <1>6, <2>2
    <3> QED BY <1>1, <1>2, <2>2, <3>1 DEF SecondScanInv, Noted
  <2> QED BY <1>1, <2>1, <2>2
<1> QED BY <1>7, <1>8, <1>9, <1>10 DEF ScanInv

\* A source that was made of a distribution and an executor gives both back.
LEMMA BuildSourceIs ==
    ASSUME NEW d \in Seq(Nat), NEW x \in Nat
    PROVE  LET source == BuildSource(d, x)
           IN  /\ source \in Seq(Nat) /\ Len(source) = Len(d) + 2 /\ IsBuild(source) /\ source[Len(source)] = x
               /\ BuildDistro(source) = d
<1> DEFINE source == BuildSource(d, x)
           n == Len(d)
<1>1. d \in Seq(Nat) /\ n \in Nat
  OBVIOUS
<1>2. /\ source \in Seq(Nat) /\ Len(source) = n + 2 /\ source[1] = 0 /\ source[n + 2] = x
      /\ \A i \in 1 .. n : source[i + 1] = d[i]
  <2> DEFINE front == <<0>> \o d
  <2>1. /\ front \in Seq(Nat) /\ Len(front) = n + 1 /\ front[1] = 0
        /\ \A i \in 1 .. n : front[i + 1] = d[i]
    BY <1>1
  <2>2. source = front \o <<x>>
    BY DEF BuildSource
  <2> HIDE DEF front
  <2> QED BY <1>1, <2>1, <2>2
<1>3. BuildDistro(source) = d
  <2>1. BuildDistro(source) = SubSeq(source, 2, n + 1)
    BY <1>1, <1>2 DEF BuildDistro
  <2>2. /\ SubSeq(source, 2, n + 1) \in Seq(Nat) /\ Len(SubSeq(source, 2, n + 1)) = n
        /\ \A i \in 1 .. n : SubSeq(source, 2, n + 1)[i] = source[i + 1]
    BY <1>1, <1>2, SubSeqProperties
  <2> QED BY <1>1, <1>2, <2>1, <2>2, SeqEqual
<1> QED BY <1>1, <1>2, <1>3 DEF IsBuild

LEMMA ScanDistroIs == ScanDistro \in Seq(Nat)
<1>1. Seq(Nat \ {0}) \subseteq Seq(Nat)
  OBVIOUS
<1> QED BY <1>1, ScanAssumption

\* A sample is of the first stat, counted as a build only if the process of that
\* stat was in the cgroup of one.
LEMMA SeenNoted ==
    ASSUME ScanInv, reader.at # "stat", NEW x \in Executors \cup {0},
           x # 0 => <<NextPid, first.start, x>> \in members
    PROVE  Noted(Seen(first, x))
<1>1. PICK next \in ScanPids : next = NextPid
  BY NextPidIn DEF ScanInv
<1>2. first \in Procs /\ FirstInv(next) /\ FirstScanInv(next) /\ x \in Nat
  BY <1>1, ScanAssumption DEF ScanInv, ScanTypeOK, ReaderInv
<1> DEFINE s == Seen(first, x)
<1>3. s = SampleOf(next, first, x)
  BY <1>1 DEF Seen, SampleOf
<1>4. /\ s \in Samples /\ s.pid = next /\ s.start = first.start /\ s.cpu = first.cpu
      /\ s.source = IF x = 0 THEN ScanDistro ELSE BuildSource(ScanDistro, x)
  BY <1>2, <1>3 DEF Samples, SampleOf, Sample
<1>5. ASSUME IsBuild(s.source)
      PROVE  <<s.pid, s.start, s.source[Len(s.source)]>> \in members
  <2>1. x # 0
    <3>1. SUFFICES ASSUME x = 0 PROVE FALSE
      OBVIOUS
    <3>2. s.source = ScanDistro /\ Len(ScanDistro) >= 2 /\ ScanDistro[1] = 0
      BY <1>4, <1>5, <3>1 DEF IsBuild
    <3>3. ScanDistro[1] \in Nat \ {0}
      BY <3>2, ScanAssumption
    <3> QED BY <3>2, <3>3
  <2>2. s.source[Len(s.source)] = x
    BY <1>2, <1>4, <2>1, ScanDistroIs, BuildSourceIs
  <2> QED BY <1>1, <1>4, <2>1, <2>2
<1> HIDE DEF s
<1>6. s.start =< starts /\ Grown(s.pid, s.start, s.cpu)
  BY <1>2, <1>4 DEF FirstInv
<1>7. reader.scan = 2 => \A b \in scans[1] : b.pid = s.pid /\ b.start = s.start => b.cpu =< s.cpu
  BY <1>2, <1>4 DEF FirstScanInv
<1>8. Noted(s)
  BY <1>4, <1>5, <1>6, <1>7 DEF Noted
<1> QED BY <1>8 DEF s

LEMMA ReaderKeeps == ScanInv /\ ScanReads => ScanInv'
<1> SUFFICES ASSUME ScanInv, ScanReads PROVE ScanInv'
  OBVIOUS
<1>1. PICK next \in ScanPids : next = NextPid
  BY NextPidIn DEF ScanInv
<1>2. /\ ScanTypeOK /\ TableInv /\ SecondScanInv /\ BuildMembership /\ ReaderInv(next)
      /\ UNCHANGED tableVars /\ reader.scan =< 2
      /\ reader \in [scan : {1, 2, 3}, todo : SUBSET ScanPids, at : {"stat", "cgroup", "again"}]
  BY <1>1 DEF ScanInv, ScanReads, ScanTypeOK
<1>3. ASSUME Visited(scans[reader.scan]) PROVE ScanInv'
  <2>1. PICK fresh : fresh = {}
    OBVIOUS
  <2>2. Visited(scans[reader.scan] \cup fresh)
    <3>1. scans[reader.scan] \cup fresh = scans[reader.scan]
      BY <2>1
    <3> QED BY <1>3, <3>1
  <2> QED BY <1>2, <2>1, <2>2, VisitKeeps
<1>4. ASSUME NEW x \in Executors \cup {0}, reader.at # "stat",
             x # 0 => <<NextPid, first.start, x>> \in members,
             Visited(scans[reader.scan] \cup {Seen(first, x)})
      PROVE  ScanInv'
  <2>1. PICK fresh : fresh = {Seen(first, x)}
    OBVIOUS
  <2>2. \A s \in fresh : Noted(s)
    BY <1>4, <2>1, SeenNoted
  <2>3. Visited(scans[reader.scan] \cup fresh)
    BY <1>4, <2>1
  <2> QED BY <1>2, <2>2, <2>3, VisitKeeps
<1>5. ASSUME NEW at \in {"cgroup", "again"}, reader' = [reader EXCEPT !.at = at], scans' = scans,
             FirstInv(next)', GroupInv(next)', FirstScanInv(next)',
             first' \in Procs, at = "again" => group' \in Executors
      PROVE  ScanInv'
  <2>1. /\ reader' \in [scan : {1, 2, 3}, todo : SUBSET ScanPids, at : {"stat", "cgroup", "again"}]
        /\ reader'.todo = reader.todo /\ reader'.scan = reader.scan /\ reader'.at = at
    BY <1>2, <1>5
  <2>2. ScanTypeOK' /\ TableInv' /\ SecondScanInv' /\ BuildMembership'
    BY <1>2, <1>5, <2>1 DEF ScanTypeOK, TableInv, SecondScanInv, BuildMembership, tableVars
  <2>3. NextPid' = next
    BY <1>1, <2>1 DEF NextPid
  <2>4. \A p \in ScanPids : p = NextPid' => ReaderInv(p)'
    BY <1>5, <2>3 DEF ReaderInv
  <2> QED BY <2>2, <2>4 DEF ScanInv
<1>6. CASE ReadStat
  <2>1. CASE Present(NextPid)
    <3>1. /\ table[next] # NoProcess /\ reader.at = "stat" /\ first' = table[next]
          /\ reader' = [reader EXCEPT !.at = "cgroup"] /\ group' = group /\ scans' = scans
      BY <1>1, <1>6, <2>1 DEF ReadStat, Present
    <3>2. /\ first' \in Procs /\ first'.start \in Nat /\ first'.cpu \in Nat /\ first'.start =< starts
          /\ table' = table /\ starts' = starts /\ reader'.at = "cgroup" /\ reader'.scan = reader.scan
      BY <1>2, <3>1, ProcIs DEF ScanTypeOK, TableInv, tableVars
    <3>3. FirstInv(next)' /\ GroupInv(next)'
      BY <3>1, <3>2 DEF FirstInv, GroupInv, Grown
    <3>4. FirstScanInv(next)'
      <4> SUFFICES ASSUME NEW b \in scans[1]
                   PROVE  /\ b.start =< starts /\ Grown(b.pid, b.start, b.cpu)'
                          /\ b.pid = next /\ b.start = first'.start => b.cpu =< first'.cpu
        BY <3>1, <3>2 DEF FirstScanInv
      <4>1. /\ b.start =< starts /\ Grown(b.pid, b.start, b.cpu) /\ b.cpu \in Nat
        BY <1>2, SampleIs DEF ReaderInv, FirstScanInv, ScanTypeOK
      <4> QED BY <3>1, <3>2, <4>1 DEF Grown
    <3> QED BY <1>5, <3>1, <3>2, <3>3, <3>4
  <2>2. CASE ~Present(NextPid)
    BY <1>3, <1>6, <2>2 DEF ReadStat
  <2> QED BY <2>1, <2>2
<1>7. CASE ReadCgroup
  <2>1. CASE Present(NextPid) /\ table[NextPid].build # 0
    <3>1. /\ table[next] # NoProcess /\ table[next].build # 0 /\ reader.at = "cgroup"
          /\ group' = table[next].build
          /\ reader' = [reader EXCEPT !.at = "again"] /\ first' = first /\ scans' = scans
      BY <1>1, <1>7, <2>1 DEF ReadCgroup, Present
    <3>2. /\ first' \in Procs /\ table[next] \in Procs /\ group' \in Executors
          /\ table' = table /\ starts' = starts /\ members' = members
          /\ reader'.at = "again" /\ reader'.scan = reader.scan
      BY <1>2, <3>1 DEF ScanTypeOK, tableVars, Procs
    <3>3. FirstInv(next)' /\ FirstScanInv(next)'
      BY <1>2, <3>1, <3>2 DEF ReaderInv, FirstInv, FirstScanInv, Grown
    <3>4. GroupInv(next)'
      <4>1. /\ table[next].start \in Nat /\ first.start =< table[next].start
            /\ table[next].start =< starts /\ <<next, table[next].start, group'>> \in members
        BY <1>2, <3>1, <3>2, ProcIs DEF ReaderInv, FirstInv, TableInv
      <4> QED BY <3>1, <3>2, <4>1 DEF GroupInv
    <3> QED BY <1>5, <3>1, <3>2, <3>3, <3>4
  <2>2. CASE ~(Present(NextPid) /\ table[NextPid].build # 0)
    BY <1>4, <1>7, <2>2 DEF ReadCgroup
  <2> QED BY <2>1, <2>2
<1>8. CASE ReadStatAgain
  <2>1. PICK x : x = IF SameGeneration THEN group ELSE 0
    OBVIOUS
  <2>2. reader.at = "again" /\ group \in Executors /\ first \in Procs /\ first.start \in Nat
    BY <1>2, <1>8, ProcIs DEF ReadStatAgain, ScanTypeOK
  <2>3. ASSUME x # 0 PROVE <<NextPid, first.start, x>> \in members
    <3>1. table[next] # NoProcess /\ table[next].start = first.start /\ x = group
      BY <1>1, <2>1, <2>3 DEF SameGeneration, Present
    <3>2. PICK s \in Nat : first.start =< s /\ <<next, s, group>> \in members /\ s =< table[next].start
      BY <1>2, <2>2, <3>1 DEF ReaderInv, GroupInv
    <3>3. s = first.start
      BY <2>2, <3>1, <3>2
    <3> QED BY <1>1, <3>1, <3>2, <3>3
  <2>4. Visited(scans[reader.scan] \cup {Seen(first, x)})
    BY <1>8, <2>1 DEF ReadStatAgain
  <2> QED BY <1>4, <2>1, <2>2, <2>3, <2>4
<1> QED BY <1>6, <1>7, <1>8 DEF ScanReads

LEMMA ScanInvariant == ScanSpec => []ScanInv
<1>1. ScanInv /\ [ScanNext]_<<tableVars, scanVars>> => ScanInv'
  <2> SUFFICES ASSUME ScanInv, [ScanNext]_<<tableVars, scanVars>> PROVE ScanInv'
    OBVIOUS
  <2>1. CASE ScanNext
    BY <2>1, GuestKeeps, ReaderKeeps DEF ScanNext
  <2>2. CASE UNCHANGED <<tableVars, scanVars>>
    BY <2>2 DEF ScanInv, ScanTypeOK, TableInv, SecondScanInv, BuildMembership, ReaderInv, FirstInv,
                GroupInv, FirstScanInv, Grown, NextPid, tableVars, scanVars
  <2> QED BY <2>1, <2>2
<1> QED BY <1>1, ScanInitially, PTL DEF ScanSpec

\* The rows of two scans are of the pairs of samples of one process.
LEMMA UsageRows ==
    \A before, after : UsageOf(before, after, 1, 1) =
        {UsageRow(pair[1], pair[2], 1, 1) :
            pair \in {p \in before \X after : SameProcess(p[1], p[2]) /\ p[2].cpu >= p[1].cpu}}
BY DEF UsageOf

LEMMA UsageRowIn ==
    ASSUME NEW before, NEW after, NEW b \in before, NEW a \in after, SameProcess(b, a), a.cpu >= b.cpu
    PROVE  UsageRow(b, a, 1, 1) \in UsageOf(before, after, 1, 1)
<1> DEFINE pair == <<b, a>>
<1>1. pair \in {p \in before \X after : SameProcess(p[1], p[2]) /\ p[2].cpu >= p[1].cpu}
  OBVIOUS
<1>2. UsageRow(pair[1], pair[2], 1, 1) \in UsageOf(before, after, 1, 1)
  <2> HIDE DEF pair
  <2> QED BY <1>1, UsageRows
<1> QED BY <1>2

LEMMA RowCpu ==
    ASSUME NEW b \in Nat, NEW a \in Nat
    PROVE  CpuPercent(a - b, 1, 1) = (a - b) * Scale
<1>1. (a - b) * Scale \in Int
  BY ScanAssumption
<1>2. \A y \in Int : y \div (1 * 1) = y
  OBVIOUS
<1> HIDE DEF ScanAssumption
<1> QED BY <1>1, <1>2 DEF CpuPercent

LEMMA RatesAreOfOneProcess == ScanInv => RateOfOneProcess
<1> SUFFICES ASSUME ScanInv, NEW row \in ScanUsage
             PROVE  \E b \in scans[1], a \in scans[2] :
                        /\ a.pid = row.id[1] /\ b.pid = a.pid /\ a.start = row.start /\ b.start = a.start
                        /\ row.cpu = (a.cpu - b.cpu) * Scale
  BY DEF RateOfOneProcess
<1>1. PICK b \in scans[1], a \in scans[2] : SameProcess(b, a) /\ row = UsageRow(b, a, 1, 1)
  BY UsageRows DEF ScanUsage
<1>2. b.cpu \in Nat /\ a.cpu \in Nat
  BY SampleIs DEF ScanInv, ScanTypeOK
<1>3. b.pid = a.pid /\ b.start = a.start
  BY <1>1 DEF SameProcess, Key
<1>4. row.id = <<a.pid>> /\ row.start = a.start /\ row.cpu = CpuPercent(a.cpu - b.cpu, 1, 1)
  BY <1>1 DEF UsageRow, Row
<1>5. row.cpu = (a.cpu - b.cpu) * Scale
  BY <1>2, <1>4, RowCpu
<1>6. a.pid = row.id[1] /\ a.start = row.start
  BY <1>4
<1> QED BY <1>3, <1>5, <1>6

\* Normalizing makes every sample one of WSL, with the PID, start and CPU it had.
LEMMA Normalized ==
    ASSUME NEW s \in Samples, NEW samples, s \in samples
    PROVE  \E t \in NormalizeDisabled(samples) :
               /\ t.env = "wsl" /\ t.source = ScanDistro
               /\ t.pid = s.pid /\ t.start = s.start /\ t.cpu = s.cpu
<1>1. PICK pid \in ScanPids, stat \in Procs, x \in Executors \cup {0} : s = SampleOf(pid, stat, x)
  BY DEF Samples
<1> DEFINE t == IF s.env = "docker" /\ IsBuild(s.source)
                THEN [s EXCEPT !.env = "wsl", !.source = BuildDistro(s.source)] ELSE s
<1>2. t \in NormalizeDisabled(samples)
  BY DEF NormalizeDisabled
<1>3. /\ t.env = "wsl" /\ t.source = ScanDistro
      /\ t.pid = s.pid /\ t.start = s.start /\ t.cpu = s.cpu
  <2>1. CASE x = 0
    BY <1>1, <2>1 DEF SampleOf, Sample
  <2>2. CASE x # 0
    <3>1. x \in Nat
      BY ScanAssumption
    <3>2. IsBuild(BuildSource(ScanDistro, x)) /\ BuildDistro(BuildSource(ScanDistro, x)) = ScanDistro
      BY <3>1, ScanDistroIs, BuildSourceIs
    <3>3. s.env = "docker" /\ s.source = BuildSource(ScanDistro, x)
      BY <1>1, <2>2 DEF SampleOf, Sample
    <3>4. t = [s EXCEPT !.env = "wsl", !.source = ScanDistro]
      BY <3>2, <3>3
    <3> HIDE DEF t
    <3> QED BY <1>1, <3>4 DEF SampleOf, Sample
  <2> QED BY <2>1, <2>2
<1> HIDE DEF t
<1> QED BY <1>2, <1>3

LEMMA DisabledKeeps == ScanInv => DisabledBuildsKeepRows
<1> SUFFICES ASSUME ScanInv, NEW b \in scans[1], NEW a \in scans[2], b.pid = a.pid, b.start = a.start
             PROVE  \E row \in UsageOf(NormalizeDisabled(scans[1]), NormalizeDisabled(scans[2]), 1, 1) :
                        row.id = <<a.pid>> /\ row.start = a.start /\ row.env = "wsl" /\ row.source = ScanDistro
  BY DEF DisabledBuildsKeepRows
<1>1. b \in Samples /\ a \in Samples /\ b.cpu \in Nat /\ a.cpu \in Nat /\ b.cpu =< a.cpu
  BY SampleIs DEF ScanInv, ScanTypeOK, SecondScanInv
<1>2. PICK u \in NormalizeDisabled(scans[1]) :
          u.env = "wsl" /\ u.source = ScanDistro /\ u.pid = b.pid /\ u.start = b.start /\ u.cpu = b.cpu
  BY <1>1, Normalized
<1>3. PICK v \in NormalizeDisabled(scans[2]) :
          v.env = "wsl" /\ v.source = ScanDistro /\ v.pid = a.pid /\ v.start = a.start /\ v.cpu = a.cpu
  BY <1>1, Normalized
<1>4. SameProcess(u, v) /\ v.cpu >= u.cpu
  BY <1>1, <1>2, <1>3 DEF SameProcess, Key
<1>5. UsageRow(u, v, 1, 1) \in UsageOf(NormalizeDisabled(scans[1]), NormalizeDisabled(scans[2]), 1, 1)
  BY <1>4, UsageRowIn
<1>6. /\ UsageRow(u, v, 1, 1).id = <<a.pid>> /\ UsageRow(u, v, 1, 1).start = a.start
      /\ UsageRow(u, v, 1, 1).env = "wsl" /\ UsageRow(u, v, 1, 1).source = ScanDistro
  BY <1>3 DEF UsageRow, Row
<1> QED BY <1>5, <1>6

\* Only a process that was in the cgroup of a build is counted as that build, every
\* rate is of one process, and with Docker disabled no process loses its row, however
\* the processes of the guest exit, move and reuse PIDs between the reads
\* (linux.rs:67, multiwsl.rs:197, sampler.rs:26, monitor.rs:113).
THEOREM CollectionRatesExact == ScanSpec => []RatesExact
<1>1. ScanInv => RatesExact
  BY RatesAreOfOneProcess, DisabledKeeps DEF RatesExact, ScanInv
<1> QED BY <1>1, ScanInvariant, PTL


-----------------------------------------------------------------------------
(* The CPU of rows.                                                         *)
(****************************************************************************)

IsRow(row) == row = Row(row.env, row.source, row.kind, row.id, row.start, row.name, row.cpu, row.memory)

\* Finitely many rows, which have a CPU rate.
Rated(rows) == IsFiniteSet(rows) /\ \A row \in rows : IsRow(row) /\ row.cpu \in Int

CpuOf(rows) == SumOf(rows, "cpu")

Rates(rows) == [row \in rows |-> row["cpu"]]

LEMMA CpuIs == \A rows : CpuOf(rows) = SumFunctionOnSet(Rates(rows), rows)
BY DEF CpuOf, SumOf, Rates

LEMMA RatesAre ==
    ASSUME NEW rows, Rated(rows)
    PROVE  IsFiniteSet(rows) /\ \A row \in rows : Rates(rows)[row] = row.cpu /\ row.cpu \in Int
BY DEF Rated, Rates

LEMMA CpuIsInt == ASSUME NEW rows, Rated(rows) PROVE CpuOf(rows) \in Int
<1>1. IsFiniteSet(rows) /\ \A row \in rows : Rates(rows)[row] \in Int
  BY RatesAre
<1> QED BY <1>1, SumTerm, CpuIs

LEMMA NoCpu == CpuOf({}) = 0
<1>1. SumFunctionOnSet(Rates({}), {}) = 0
  BY FS_EmptySet, SumUnfolds
<1> QED BY <1>1, CpuIs

\* Rows that are moved one to one keep their CPU.
LEMMA MovedCpu ==
    ASSUME NEW rows, Rated(rows), NEW h,
           \A row \in rows : h[row].cpu = row.cpu,
           \A a, b \in rows : h[a] = h[b] => a = b
    PROVE  CpuOf({h[row] : row \in rows}) = CpuOf(rows)
<1> DEFINE moved == {h[row] : row \in rows}
           f == Rates(rows)
           g == Rates(moved)
<1>1. IsFiniteSet(rows) /\ \A row \in rows : f[row] = row.cpu /\ row.cpu \in Int
  BY RatesAre
<1>2. \A row \in rows : g[h[row]] = f[row] /\ f[row] \in Int
  BY <1>1 DEF Rates
<1>3. SumFunctionOnSet(g, {h[row] : row \in rows}) = SumFunctionOnSet(f, rows)
  <2>1. PICK u, v : u = f /\ v = g
    OBVIOUS
  <2>2. \A x \in rows : u[x] \in Int /\ v[h[x]] = u[x]
    BY <1>2, <2>1
  <2> HIDE DEF f, g
  <2>3. PICK image : image = {h[row] : row \in rows}
    OBVIOUS
  <2>4. Carries(h, rows, image)
    BY <2>3 DEF Carries
  <2>5. SumFunctionOnSet(v, image) = SumFunctionOnSet(u, rows)
    BY <1>1, <2>2, <2>4, SumImage
  <2> QED BY <2>1, <2>3, <2>5
<1> QED BY <1>3, CpuIs

LEMMA CpuOfPart ==
    ASSUME NEW rows, Rated(rows), NEW part \in SUBSET rows
    PROVE  Rated(part) /\ CpuOf(part) = SumFunctionOnSet(Rates(rows), part)
<1>1. Rated(part)
  BY FS_Subset DEF Rated
<1>2. \A row \in part : Rates(part)[row] = 1 * Rates(rows)[row] /\ Rates(rows)[row] \in Int /\ IsFiniteSet(part)
  BY <1>1, RatesAre DEF Rates
<1>3. SumFunctionOnSet(Rates(part), part) = 1 * SumFunctionOnSet(Rates(rows), part)
  <2>1. IsFiniteSet(part) /\ 1 \in Int
    BY <1>1 DEF Rated
  <2> QED BY <1>2, <2>1, SumScaled
<1>4. SumFunctionOnSet(Rates(rows), part) \in Int
  <2>1. IsFiniteSet(part)
    BY <1>1 DEF Rated
  <2> QED BY <1>2, <2>1, SumTerm
<1> QED BY <1>1, <1>3, <1>4, CpuIs

LEMMA CpuOfUnion ==
    ASSUME NEW A, Rated(A), NEW B, Rated(B), A \cap B = {}
    PROVE  Rated(A \cup B) /\ CpuOf(A \cup B) = CpuOf(A) + CpuOf(B)
<1>1. PICK rows : rows = A \cup B
  OBVIOUS
<1>2. Rated(rows)
  BY <1>1, FS_Union DEF Rated
<1>3. A \in SUBSET rows /\ B = rows \ A /\ B \in SUBSET rows
  BY <1>1
<1>4. SumFunctionOnSet(Rates(rows), rows) =
          SumFunctionOnSet(Rates(rows), A) + SumFunctionOnSet(Rates(rows), rows \ A)
  <2>1. IsFiniteSet(rows) /\ \A row \in rows : Rates(rows)[row] \in Int
    BY <1>2, RatesAre
  <2> QED BY <1>3, <2>1, SumSplit
<1>5. CpuOf(A) = SumFunctionOnSet(Rates(rows), A) /\ CpuOf(B) = SumFunctionOnSet(Rates(rows), B)
  BY <1>2, <1>3, CpuOfPart
<1> QED BY <1>1, <1>2, <1>3, <1>4, <1>5, CpuIs

\* The keys of rows, the rows of a key, and the heads of the keys.
Keys(c, rows) == {c[row] : row \in rows}
Under(c, rows, k) == {row \in rows : c[row] = k}
Heads(head, c, rows) == {head[k] : k \in Keys(c, rows)}

\* Rows that are put together under heads, which show the sum of their rows.
LEMMA GroupedCpu ==
    ASSUME NEW rows, Rated(rows), NEW c, NEW head,
           \A k, j \in Keys(c, rows) : head[k] = head[j] => k = j,
           \A k \in Keys(c, rows) : IsRow(head[k]) /\ head[k].cpu = CpuOf(Under(c, rows, k))
    PROVE  Rated(Heads(head, c, rows)) /\ CpuOf(Heads(head, c, rows)) = CpuOf(rows)
<1> DEFINE K == Keys(c, rows)
           heads == Heads(head, c, rows)
           part == [k \in K |-> head[k].cpu]
           class == [k \in K |-> Under(c, rows, k)]
           g == Rates(rows)
<1>1. IsFiniteSet(rows) /\ IsFiniteSet(K) /\ IsFiniteSet(heads)
  <2>1. IsFiniteSet(rows)
    BY DEF Rated
  <2>2. IsFiniteSet(K)
    BY <2>1, ImageFinite, ZenonT(40) DEF Keys
  <2>3. IsFiniteSet({head[k] : k \in K})
    BY <2>2, ImageFinite, ZenonT(40)
  <2> QED BY <2>1, <2>2, <2>3 DEF Heads
<1>2. \A row \in rows : g[row] \in Int /\ c[row] \in K
  BY RatesAre DEF Keys
<1>3. \A k \in K : class[k] \in SUBSET rows /\ \A row \in rows : row \in class[k] <=> c[row] = k
  BY DEF Under
<1>4. \A k \in K : part[k] = SumFunctionOnSet(g, class[k]) /\ part[k] \in Int /\ part[k] = head[k].cpu
  <2> TAKE k \in K
  <2>1. class[k] \in SUBSET rows /\ part[k] = head[k].cpu /\ head[k].cpu = CpuOf(class[k])
    BY <1>3
  <2> QED BY <2>1, CpuOfPart, CpuIsInt
<1>5. Rated(heads)
  BY <1>1, <1>4 DEF Rated, Heads
<1>6. SumFunctionOnSet(part, K) = SumFunctionOnSet(g, rows)
  <2> HIDE DEF K, g, part, class
  <2> QED BY <1>1, <1>2, <1>3, <1>4, SumClasses
<1>7. SumFunctionOnSet(Rates(heads), heads) = SumFunctionOnSet(part, K)
  <2>1. \A k \in K : Rates(heads)[head[k]] = part[k] /\ part[k] \in Int
    BY <1>4 DEF Rates, Heads
  <2>2. Carries(head, K, heads)
    BY DEF Carries, Heads
  <2> HIDE DEF K, heads, part
  <2> QED BY <1>1, <2>1, <2>2, SumImage
<1> QED BY <1>5, <1>6, <1>7, CpuIs

\* A build row, as it is shown with Docker disabled.
AsWsl(row) == [row EXCEPT !.env = "wsl", !.source = BuildDistro(row.source)]

\* No two rows become one when builds are shown as processes of WSL.
StayApart(rows) ==
    \A a, b \in rows : IsBuildRow(a) =>
        IF IsBuildRow(b) THEN AsWsl(a) = AsWsl(b) => a = b ELSE AsWsl(a) # b

LEMMA AsWslIs ==
    ASSUME NEW row, IsRow(row)
    PROVE  AsWsl(row) = Row("wsl", BuildDistro(row.source), row.kind, row.id, row.start, row.name, row.cpu, row.memory)
<1>1. PICK e, s, k, i, t, n, c, m :
          row = [env |-> e, source |-> s, kind |-> k, id |-> i, start |-> t, name |-> n, cpu |-> c, memory |-> m]
  BY DEF IsRow, Row
<1>2. PICK d : d = BuildDistro(row.source)
  OBVIOUS
<1>3. AsWsl(row) = [row EXCEPT !.env = "wsl", !.source = d]
  BY <1>2 DEF AsWsl
<1> QED BY <1>1, <1>2, <1>3 DEF Row

\* The rows that stay and the containers of the builds have the CPU of all rows.
LEMMA BuildsTaken ==
    ASSUME NEW rows, Rated(rows), NEW enabled \in BOOLEAN, ~enabled => StayApart(rows)
    PROVE  LET parts == TakeUsage(rows, enabled)
               heads == {item.resource : item \in parts.containers}
           IN  /\ Rated(parts.rows) /\ Rated(heads)
               /\ CpuOf(rows) = CpuOf(parts.rows) + CpuOf(heads)
<1> DEFINE builds == {row \in rows : IsBuildRow(row)}
           rest == rows \ builds
           parts == TakeUsage(rows, enabled)
           heads == {item.resource : item \in parts.containers}
<1>1. Rated(builds) /\ Rated(rest)
  BY CpuOfPart
<1>2. CpuOf(rows) = CpuOf(rest) + CpuOf(builds)
  <2>1. builds \cap rest = {} /\ rows = rest \cup builds
    OBVIOUS
  <2> HIDE DEF builds, rest
  <2> QED BY <1>1, <2>1, CpuOfUnion
<1>3. CASE enabled
  <2> DEFINE c == [row \in builds |-> row.source]
             Of(k) == {row \in builds : row.source = k}
             head == [k \in Keys(c, builds) |-> Executor(k, Of(k)).resource]
  <2>1. parts.rows = rest /\ parts.containers = {Executor(source, Of(source)) : source \in {row.source : row \in builds}}
    BY <1>3 DEF TakeUsage
  <2>2. Keys(c, builds) = {row.source : row \in builds} /\ \A k : Under(c, builds, k) = Of(k)
    BY DEF Keys, Under
  <2>3. heads = Heads(head, c, builds)
    <3>1. \A k \in Keys(c, builds) : head[k] = Executor(k, Of(k)).resource
      OBVIOUS
    <3> HIDE DEF c, head, Of, builds
    <3>2. heads = {Executor(k, Of(k)).resource : k \in Keys(c, builds)}
      BY <2>1, <2>2
    <3> HIDE DEF heads
    <3> QED BY <3>1, <3>2 DEF Heads
  <2>4. ASSUME NEW k \in Keys(c, builds)
        PROVE  /\ IsRow(head[k]) /\ head[k].id = k
               /\ head[k].cpu = CpuOf(Under(c, builds, k))
    <3>1. head[k] = Row("docker", BuildDistro(k), "container", k, NoStart, 0, SumOf(Of(k), "cpu"), SumOf(Of(k), "memory"))
      BY DEF Executor
    <3> HIDE DEF head, Of, c
    <3> QED BY <2>2, <3>1 DEF IsRow, Row, CpuOf
  <2>5. Rated(heads) /\ CpuOf(heads) = CpuOf(builds)
    <3> HIDE DEF heads, builds, c, head
    <3> QED BY <1>1, <2>3, <2>4, GroupedCpu
  <2> QED BY <1>1, <1>2, <2>1, <2>5
<1>4. CASE ~enabled
  <2> DEFINE h == [row \in builds |-> AsWsl(row)]
             moved == {h[row] : row \in builds}
  <2>1. parts.rows = rest \cup moved /\ heads = {}
    BY <1>4 DEF TakeUsage, AsWsl
  <2>2. \A row \in builds : h[row].cpu = row.cpu /\ IsRow(h[row]) /\ h[row] = AsWsl(row)
    BY <1>1, AsWslIs DEF Rated, IsRow, Row
  <2>3. Rated(moved)
    <3>1. IsFiniteSet(moved)
      BY <1>1, ImageFinite DEF Rated
    <3> QED BY <1>1, <2>2, <3>1 DEF Rated
  <2>4. CpuOf(moved) = CpuOf(builds)
    <3>1. \A a, b \in builds : h[a] = h[b] => a = b
      BY <1>4 DEF StayApart
    <3> HIDE DEF h, builds
    <3> QED BY <1>1, <2>2, <3>1, MovedCpu
  <2>5. rest \cap moved = {}
    BY <1>4, <2>2 DEF StayApart
  <2>6. Rated(rest \cup moved) /\ CpuOf(rest \cup moved) = CpuOf(rest) + CpuOf(moved)
    <3> HIDE DEF rest, moved
    <3> QED BY <1>1, <2>3, <2>5, CpuOfUnion
  <2>7. Rated({}) /\ CpuOf({}) = 0
    BY NoCpu, FS_EmptySet DEF Rated
  <2>8. CpuOf(rows) = CpuOf(parts.rows)
    BY <1>2, <2>1, <2>4, <2>6
  <2>9. CpuOf(parts.rows) \in Int
    BY <2>1, <2>6, CpuIsInt
  <2>10. CpuOf(rows) = CpuOf(parts.rows) + CpuOf(heads)
    <3>1. CpuOf(heads) = 0
      BY <2>1, <2>7
    <3> HIDE DEF parts, heads
    <3> QED BY <2>8, <2>9, <3>1
  <2> QED BY <2>1, <2>6, <2>7, <2>10
<1> QED BY <1>3, <1>4

-----------------------------------------------------------------------------
(* The CPU of the two scans.                                                *)
(****************************************************************************)

\* Each PID is noted once in a scan, when it is visited.
VisitedInv ==
    \A n \in {1, 2} :
        /\ IsFiniteSet(scans[n])
        /\ \A s, t \in scans[n] : s.pid = t.pid => s = t
        /\ n = reader.scan => \A s \in scans[n] : s.pid \notin reader.todo

LEMMA VisitNotesOnce ==
    ASSUME ScanTypeOK, SecondScanInv, VisitedInv, reader.scan =< 2,
           NEW fresh, IsFiniteSet(fresh), \A s, t \in fresh : s.pid = NextPid /\ s = t,
           Visited(scans[reader.scan] \cup fresh)
    PROVE  VisitedInv'
<1>1. PICK n \in {1, 2} : n = reader.scan
  BY DEF ScanTypeOK
<1>2. PICK next : next = NextPid /\ next \in reader.todo
  BY NextPidIn
<1>3. scans' = [scans EXCEPT ![n] = scans[n] \cup fresh] /\ scans \in [{1, 2} -> SUBSET Samples]
  BY <1>1 DEF Visited, ScanTypeOK
<1>4. scans'[n] = scans[n] \cup fresh /\ \A m \in {1, 2} : m # n => scans'[m] = scans[m]
  BY <1>3
<1>5. ASSUME NEW m \in {1, 2}
      PROVE  IsFiniteSet(scans'[m]) /\ \A s, t \in scans'[m] : s.pid = t.pid => s = t
  <2>1. CASE m # n
    BY <1>4, <2>1 DEF VisitedInv
  <2>2. CASE m = n
    <3>1. IsFiniteSet(scans'[n])
      <4>1. IsFiniteSet(scans[n])
        BY DEF VisitedInv
      <4>2. IsFiniteSet(scans[n] \cup fresh)
        BY <4>1, FS_Union
      <4> QED BY <1>4, <4>2
    <3>2. \A s \in scans[n] : s.pid # next
      BY <1>1, <1>2 DEF VisitedInv
    <3>3. \A s, t \in scans[n] \cup fresh : s.pid = t.pid => s = t
      BY <1>2, <3>2 DEF VisitedInv
    <3> QED BY <1>4, <2>2, <3>1, <3>3
  <2> QED BY <2>1, <2>2
<1>6. ASSUME NEW m \in {1, 2}, m = reader'.scan PROVE \A s \in scans'[m] : s.pid \notin reader'.todo
  <2> DEFINE todo == reader.todo \ {next}
  <2>1. reader' = IF todo = {} THEN [scan |-> n + 1, todo |-> ScanPids, at |-> "stat"]
                               ELSE [reader EXCEPT !.todo = todo, !.at = "stat"]
    BY <1>1, <1>2 DEF Visited
  <2>2. reader \in [scan : {1, 2, 3}, todo : SUBSET ScanPids, at : {"stat", "cgroup", "again"}]
    BY DEF ScanTypeOK
  <2>3. CASE todo = {}
    <3>1. m = n + 1
      BY <1>6, <2>1, <2>3
    <3>2. m = 2 /\ n = 1
      BY <3>1
    <3>3. scans'[m] = {}
      BY <1>1, <1>4, <3>2 DEF SecondScanInv
    <3> QED BY <3>3
  <2>4. CASE todo # {}
    <3>1. m = n /\ reader'.todo = todo
      BY <1>1, <1>6, <2>1, <2>2, <2>4
    <3> QED BY <1>1, <1>2, <1>4, <3>1 DEF VisitedInv
  <2> QED BY <2>3, <2>4
<1> QED BY <1>5, <1>6 DEF VisitedInv

LEMMA VisitedKeeps == ScanInv /\ VisitedInv /\ [ScanNext]_<<tableVars, scanVars>> => VisitedInv'
<1> SUFFICES ASSUME ScanInv, VisitedInv, [ScanNext]_<<tableVars, scanVars>> PROVE VisitedInv'
  OBVIOUS
<1>1. ScanTypeOK /\ SecondScanInv
  BY DEF ScanInv
<1>2. CASE UNCHANGED scanVars
  BY <1>2 DEF scanVars, VisitedInv
<1>3. ASSUME reader.scan =< 2, Visited(scans[reader.scan]) PROVE VisitedInv'
  <2>1. PICK fresh : fresh = {}
    OBVIOUS
  <2>2. scans[reader.scan] \cup fresh = scans[reader.scan] /\ IsFiniteSet(fresh)
    BY <2>1, FS_EmptySet
  <2> QED BY <1>1, <1>3, <2>1, <2>2, VisitNotesOnce
<1>4. ASSUME reader.scan =< 2, NEW stat, NEW x, Visited(scans[reader.scan] \cup {Seen(stat, x)}) PROVE VisitedInv'
  <2>1. PICK fresh : fresh = {Seen(stat, x)}
    OBVIOUS
  <2>2. IsFiniteSet(fresh)
    BY <2>1, FS_Singleton
  <2>3. \A s, t \in fresh : s.pid = NextPid /\ s = t
    BY <2>1 DEF Seen, Sample
  <2> QED BY <1>1, <1>4, <2>1, <2>2, <2>3, VisitNotesOnce
<1>5. ASSUME reader.scan =< 2, NEW at, reader' = [reader EXCEPT !.at = at], scans' = scans PROVE VisitedInv'
  <2>1. reader'.scan = reader.scan /\ reader'.todo = reader.todo
    BY <1>1, <1>5 DEF ScanTypeOK
  <2> QED BY <1>5, <2>1 DEF VisitedInv
<1>6. CASE ScanReads
  <2>1. reader.scan =< 2 /\ (ReadStat \/ ReadCgroup \/ ReadStatAgain)
    BY <1>6 DEF ScanReads
  <2>2. CASE ReadStat
    BY <1>3, <1>5, <2>1, <2>2 DEF ReadStat
  <2>3. CASE ReadCgroup
    BY <1>4, <1>5, <2>1, <2>3 DEF ReadCgroup
  <2>4. CASE ReadStatAgain
    BY <1>4, <2>1, <2>4 DEF ReadStatAgain
  <2> QED BY <2>1, <2>2, <2>3, <2>4
<1> QED BY <1>2, <1>6 DEF ScanNext, ScanGuest

\* The rows of two scans are finitely many, one of each PID.
LEMMA UsageOfScans ==
    ASSUME ScanInv, VisitedInv
    PROVE  Rated(ScanUsage) /\ \A r, q \in ScanUsage : r.id = q.id => r = q
<1> DEFINE pairs == {p \in scans[1] \X scans[2] : SameProcess(p[1], p[2]) /\ p[2].cpu >= p[1].cpu}
           h == [p \in pairs |-> UsageRow(p[1], p[2], 1, 1)]
<1>1. ScanUsage = {h[p] : p \in pairs}
  <2>1. ScanUsage = {UsageRow(p[1], p[2], 1, 1) : p \in pairs}
    BY UsageRows DEF ScanUsage
  <2>2. \A p \in pairs : h[p] = UsageRow(p[1], p[2], 1, 1)
    OBVIOUS
  <2> HIDE DEF pairs, h
  <2> QED BY <2>1, <2>2
<1>2. IsFiniteSet(ScanUsage)
  <2>1. IsFiniteSet(scans[1] \X scans[2])
    BY FS_Product DEF VisitedInv
  <2>2. IsFiniteSet(pairs)
    BY <2>1, FS_Subset
  <2> HIDE DEF pairs, h
  <2> QED BY <1>1, <2>2, ImageFinite
<1>3. ASSUME NEW row \in ScanUsage
      PROVE  \E b \in scans[1], a \in scans[2] :
                 row = UsageRow(b, a, 1, 1) /\ b.pid = a.pid /\ row.id = <<a.pid>> /\ IsRow(row) /\ row.cpu \in Int
  <2>1. PICK b \in scans[1], a \in scans[2] : SameProcess(b, a) /\ row = UsageRow(b, a, 1, 1)
    BY UsageRows DEF ScanUsage
  <2>2. b.cpu \in Nat /\ a.cpu \in Nat
    BY SampleIs DEF ScanInv, ScanTypeOK
  <2>3. b.pid = a.pid
    BY <2>1 DEF SameProcess, Key
  <2>4. row.id = <<a.pid>> /\ row.cpu = CpuPercent(a.cpu - b.cpu, 1, 1) /\ IsRow(row)
    BY <2>1 DEF UsageRow, Row, IsRow
  <2>5. row.cpu = (a.cpu - b.cpu) * Scale
    BY <2>2, <2>4, RowCpu
  <2>6. row.cpu \in Int
    BY <2>2, <2>5, ScanAssumption
  <2> QED BY <2>1, <2>3, <2>4, <2>6
<1>4. ASSUME NEW r \in ScanUsage, NEW q \in ScanUsage, r.id = q.id PROVE r = q
  <2>1. PICK b \in scans[1], a \in scans[2] : r = UsageRow(b, a, 1, 1) /\ b.pid = a.pid /\ r.id = <<a.pid>>
    BY <1>3
  <2>2. PICK d \in scans[1], c \in scans[2] : q = UsageRow(d, c, 1, 1) /\ d.pid = c.pid /\ q.id = <<c.pid>>
    BY <1>3
  <2>3. a.pid = c.pid
    BY <1>4, <2>1, <2>2
  <2>4. a = c /\ b = d
    BY <2>1, <2>2, <2>3 DEF VisitedInv
  <2> QED BY <2>1, <2>2, <2>4
<1> QED BY <1>2, <1>3, <1>4 DEF Rated

\* The rows of builds are moved out of those of WSL with all of their CPU, to
\* containers of Docker or, with Docker disabled, back to their distribution,
\* whatever happens to the processes between the two scans (buildkit.rs:58).
THEOREM CollectionBuildsCountedOnce == ScanSpec => []BuildsCountedOnce
<1>1. InitScan => VisitedInv
  <2> SUFFICES ASSUME InitScan PROVE VisitedInv
    OBVIOUS
  <2>1. scans[1] = {} /\ scans[2] = {}
    BY DEF InitScan
  <2> QED BY <2>1, FS_EmptySet DEF VisitedInv
<1>2. ScanInv /\ VisitedInv => BuildsCountedOnce
  <2> SUFFICES ASSUME ScanInv, VisitedInv, NEW enabled \in BOOLEAN
               PROVE  LET parts == TakeUsage(ScanUsage, enabled)
                      IN  /\ SumOf(ScanUsage, "cpu")
                              = SumOf(parts.rows, "cpu") + SumOf({c.resource : c \in parts.containers}, "cpu")
                          /\ \A row \in parts.rows : ~IsBuildRow(row)
    BY DEF BuildsCountedOnce
  <2>1. PICK rows : rows = ScanUsage
    OBVIOUS
  <2>2. Rated(rows) /\ \A r, q \in rows : r.id = q.id => r = q
    BY <2>1, UsageOfScans
  <2>3. \A row \in rows : AsWsl(row).id = row.id /\ AsWsl(row).env = "wsl"
    BY <2>2, AsWslIs DEF Rated, Row
  <2>4. StayApart(rows)
    BY <2>2, <2>3 DEF StayApart
  <2>5. SumOf(rows, "cpu") = SumOf(TakeUsage(rows, enabled).rows, "cpu")
                             + SumOf({c.resource : c \in TakeUsage(rows, enabled).containers}, "cpu")
    BY <2>2, <2>4, BuildsTaken DEF CpuOf
  <2>6. \A row \in TakeUsage(rows, enabled).rows : ~IsBuildRow(row)
    <3>1. \A row \in TakeUsage(rows, enabled).rows :
              (row \in rows /\ ~IsBuildRow(row)) \/ \E b \in rows : row = AsWsl(b)
      BY DEF TakeUsage, AsWsl
    <3> QED BY <2>3, <3>1 DEF IsBuildRow
  <2> QED BY <2>1, <2>5, <2>6
<1> QED BY <1>1, <1>2, ScanInvariant, VisitedKeeps, PTL DEF ScanSpec

\* Both: what two scans of a changing /proc show is of the processes they name, and
\* all of it is shown once (linux.rs:67, sampler.rs:26, monitor.rs:113, buildkit.rs:58).
THEOREM CollectionScansExact == ScanSpec => []ScansExact
<1>1. RatesExact /\ BuildsCountedOnce => ScansExact
  BY DEF ScansExact
<1> QED BY <1>1, CollectionRatesExact, CollectionBuildsCountedOnce, PTL

-----------------------------------------------------------------------------
(* The CPU of the list of the stream.                                       *)
(****************************************************************************)

\* The applications of the processes of Windows have the CPU of the processes.
LEMMA ApplicationCpu ==
    ASSUME NEW rows, Rated(rows), NEW metadata
    PROVE  LET heads == {a.resource : a \in GroupProcesses(rows, metadata)}
           IN  /\ Rated(heads)
               /\ CpuOf(heads) = CpuOf({row \in rows : IsProcess(row)})
               /\ \A row \in heads : row.env = "windows" /\ row.kind = "application"
               /\ \A a, b \in heads : a.id = b.id => a = b
<1> DEFINE processes == {row \in rows : IsProcess(row)}
           Of(row) == ApplicationIdentity(row, rows, metadata)
           Members(key) == {row \in processes : Of(row) = key}
           c == [row \in processes |-> Of(row)]
           Resource(key) == Row("windows", NoSource, "application", <<key>>, NoStart, key,
                                SumOf(Members(key), "cpu"), SumOf(Members(key), "memory"))
           head == [key \in Keys(c, processes) |-> Resource(key)]
           heads == {a.resource : a \in GroupProcesses(rows, metadata)}
<1>1. Rated(processes)
  BY CpuOfPart
<1>2. Keys(c, processes) = {Of(row) : row \in processes} /\ \A key : Under(c, processes, key) = Members(key)
  <2>1. \A row \in processes : c[row] = Of(row)
    OBVIOUS
  <2> HIDE DEF c, Of, processes
  <2> QED BY <2>1 DEF Keys, Under
<1>3. heads = Heads(head, c, processes)
  <2>1. GroupProcesses(rows, metadata) =
            {[resource |-> Resource(key), processes |-> Members(key)] : key \in {Of(row) : row \in processes}}
    BY DEF GroupProcesses
  <2>2. \A key \in Keys(c, processes) : head[key] = Resource(key)
    OBVIOUS
  <2> HIDE DEF Of, processes, Members, c, Resource, head
  <2>3. heads = {Resource(key) : key \in Keys(c, processes)}
    <3>1. PICK S, G : S = {Of(row) : row \in processes} /\ G = GroupProcesses(rows, metadata)
      OBVIOUS
    <3>2. G = {[resource |-> Resource(key), processes |-> Members(key)] : key \in S} /\ Keys(c, processes) = S
      BY <1>2, <2>1, <3>1
    <3>3. {a.resource : a \in G} = {Resource(key) : key \in S}
      <4>1. ASSUME NEW key \in S PROVE Resource(key) \in {a.resource : a \in G}
        <5>1. PICK a \in G : a = [resource |-> Resource(key), processes |-> Members(key)]
          BY <3>2
        <5>2. a.resource = Resource(key)
          BY <5>1
        <5> QED BY <5>2
      <4>2. ASSUME NEW a \in G PROVE a.resource \in {Resource(key) : key \in S}
        <5>1. PICK key \in S : a = [resource |-> Resource(key), processes |-> Members(key)]
          BY <3>2
        <5>2. a.resource = Resource(key)
          BY <5>1
        <5> QED BY <5>2
      <4> QED BY <4>1, <4>2
    <3> QED BY <3>1, <3>2, <3>3
  <2> HIDE DEF heads
  <2> QED BY <2>2, <2>3 DEF Heads
<1>4. ASSUME NEW key \in Keys(c, processes)
      PROVE  /\ IsRow(head[key]) /\ head[key].id = <<key>>
             /\ head[key].cpu = CpuOf(Under(c, processes, key))
             /\ head[key].env = "windows" /\ head[key].kind = "application"
  <2>1. head[key] = Row("windows", NoSource, "application", <<key>>, NoStart, key,
                        SumOf(Members(key), "cpu"), SumOf(Members(key), "memory"))
    OBVIOUS
  <2> HIDE DEF head, Members, c, processes
  <2> QED BY <1>2, <2>1 DEF IsRow, Row, CpuOf
<1>5. \A k, j \in Keys(c, processes) : head[k] = head[j] => k = j
  <2> HIDE DEF head, c, processes
  <2> QED BY <1>4
<1>6. Rated(heads) /\ CpuOf(heads) = CpuOf(processes)
  <2> HIDE DEF heads, processes, c, head
  <2> QED BY <1>1, <1>3, <1>4, <1>5, GroupedCpu
<1>7. \A row \in heads : row.env = "windows" /\ row.kind = "application"
  <2> HIDE DEF heads, processes, c, head
  <2> QED BY <1>3, <1>4 DEF Heads
<1>8. \A a, b \in heads : a.id = b.id => a = b
  <2> HIDE DEF heads, processes, c, head
  <2>1. \A a \in heads : \E k \in Keys(c, processes) : a = head[k] /\ a.id = <<k>>
    BY <1>3, <1>4 DEF Heads
  <2>2. \A j, k : <<j>> = <<k>> => j = k
    OBVIOUS
  <2> QED BY <2>1, <2>2
<1> QED BY <1>6, <1>7, <1>8

\* What the aggregator holds is of the shapes that the collectors deliver.
ViewSources == {NoSource, <<ViewDistro>>}

GuestRow(source, cpu) == Row("wsl", source, "process", <<1>>, 1, 1, cpu, 1)
ContainerRowOf(runtime, id, cpu) == Row(runtime, NoSource, "container", <<id>>, NoStart, 1, cpu, 1)
ProcessRowOf(runtime, id) == Row(runtime, <<id>>, "process", <<id, 7>>, NoStart, 1, 1, 1)

GuestOK(rows, source) == rows = {} \/ \E cpu \in Loads : rows \in SUBSET {GuestRow(source, cpu), BuildRow(source)}

WindowsOK(rows) ==
    /\ IsFiniteSet(rows)
    /\ \A row \in rows : IsRow(row) /\ row.env = "windows" /\ row.kind \in {"host", "process"} /\ row.cpu \in Nat
    /\ \A r, q \in rows : r.id = q.id => r = q

ContainersOK(rows, runtime) ==
    \E cpu \in [ViewIds -> Nat] : \A row \in rows : \E id \in ViewIds : row = ContainerRowOf(runtime, id, cpu[id])

ItemsOK(items, rows, runtime) ==
    \A item \in items :
        /\ item = [resource |-> item.resource, processes |-> item.processes] /\ item.resource \in rows
        /\ \E id \in ViewIds : item.resource.id = <<id>> /\ item.processes \subseteq {ProcessRowOf(runtime, id)}

DockerOK(items) ==
    \E rows : ContainersOK(rows, "docker") /\ ItemsOK(items, rows, "docker")

HeldInv ==
    /\ held = [linux |-> held.linux, extra |-> held.extra, windows |-> held.windows, metadata |-> held.metadata,
               wslc |-> held.wslc, lists |-> held.lists, docker |-> held.docker]
    /\ showsDocker \in BOOLEAN /\ (~showsDocker => held.docker = {})
    /\ GuestOK(held.linux, NoSource) /\ GuestOK(held.extra, <<ViewDistro>>) /\ WindowsOK(held.windows)
    /\ ContainersOK(held.wslc, "wslc") /\ ItemsOK(held.lists, held.wslc, "wslc")
    /\ DockerOK(held.docker)

LEMMA GuestsAre == \A source : \A rows \in GuestRows(source) : GuestOK(rows, source)
BY DEF GuestRows, GuestOK, GuestRow

LEMMA HostsAre == \A rows \in HostRows : WindowsOK(rows)
<1> SUFFICES ASSUME NEW rows \in HostRows PROVE WindowsOK(rows)
  OBVIOUS
<1>1. PICK host, start :
          rows = {Row("windows", NoSource, "host", <<4>>, 1, host, 2, 1), Row("windows", NoSource, "process", <<1>>, 1, 5, 1, 1),
                  Row("windows", NoSource, "process", <<2>>, start, WebView, 1, 1)}
  BY DEF HostRows
<1>2. PICK a, b, c : /\ a = Row("windows", NoSource, "host", <<4>>, 1, host, 2, 1)
                     /\ b = Row("windows", NoSource, "process", <<1>>, 1, 5, 1, 1)
                     /\ c = Row("windows", NoSource, "process", <<2>>, start, WebView, 1, 1)
  OBVIOUS
<1>3. rows = {a} \cup ({b} \cup {c})
  BY <1>1, <1>2
<1>4. IsFiniteSet(rows)
  BY <1>3, FS_Singleton, FS_Union
<1>5. /\ a.id = <<4>> /\ a.env = "windows" /\ a.kind = "host" /\ a.cpu = 2 /\ IsRow(a)
      /\ b.id = <<1>> /\ b.env = "windows" /\ b.kind = "process" /\ b.cpu = 1 /\ IsRow(b)
      /\ c.id = <<2>> /\ c.env = "windows" /\ c.kind = "process" /\ c.cpu = 1 /\ IsRow(c)
  BY <1>2 DEF Row, IsRow
<1>6. \A r, q \in rows : r.id = q.id => r = q
  BY <1>3, <1>5
<1> QED BY <1>3, <1>4, <1>5, <1>6 DEF WindowsOK

LEMMA ContainerRowsAre ==
    ASSUME NEW runtime, NEW ids \in SUBSET ViewIds, NEW rows \in ContainerRows(runtime, ids)
    PROVE  ContainersOK(rows, runtime)
<1>1. PICK cpu \in [ids -> Loads] : rows = {Row(runtime, NoSource, "container", <<id>>, NoStart, 1, cpu[id], 1) : id \in ids}
  BY DEF ContainerRows
<1> DEFINE all == [id \in ViewIds |-> IF id \in ids THEN cpu[id] ELSE 0]
<1>2. all \in [ViewIds -> Nat] /\ \A id \in ids : all[id] = cpu[id]
  BY ViewAssumption
<1> HIDE DEF all
<1>3. \A row \in rows : \E id \in ViewIds : row = ContainerRowOf(runtime, id, all[id])
  BY <1>1, <1>2 DEF ContainerRowOf
<1> QED BY <1>2, <1>3 DEF ContainersOK

LEMMA ContainersHaveIds ==
    ASSUME NEW runtime, NEW rows, ContainersOK(rows, runtime)
    PROVE  /\ \A row \in rows : \E id \in ViewIds : row.id = <<id>>
           /\ \A r, q \in rows : r.id = q.id => r = q
<1>1. PICK cpu \in [ViewIds -> Nat] : \A row \in rows : \E id \in ViewIds : row = ContainerRowOf(runtime, id, cpu[id])
  BY DEF ContainersOK
<1>2. \A row \in rows : \E id \in ViewIds : row = ContainerRowOf(runtime, id, cpu[id]) /\ row.id = <<id>>
  BY <1>1 DEF ContainerRowOf, Row
<1>3. \A id, other : <<id>> = <<other>> => id = other
  OBVIOUS
<1> QED BY <1>2, <1>3

LEMMA RetainedOK ==
    ASSUME NEW runtime, NEW rows, NEW old, NEW lists, ItemsOK(lists, old, runtime)
    PROVE  ItemsOK(RetainedLists(lists, rows), rows, runtime)
<1> SUFFICES ASSUME NEW item \in RetainedLists(lists, rows)
             PROVE  /\ item = [resource |-> item.resource, processes |-> item.processes] /\ item.resource \in rows
                    /\ \E id \in ViewIds : item.resource.id = <<id>> /\ item.processes \subseteq {ProcessRowOf(runtime, id)}
  BY DEF ItemsOK
<1>1. PICK was \in lists, row \in rows : Same(was, row) /\ item = [resource |-> row, processes |-> was.processes]
  <2>1. PICK pair \in {p \in lists \X rows : Same(p[1], p[2])} :
            item = [resource |-> pair[2], processes |-> pair[1].processes]
    BY DEF RetainedLists
  <2> QED BY <2>1
<1>2. PICK id \in ViewIds : was.resource.id = <<id>> /\ was.processes \subseteq {ProcessRowOf(runtime, id)}
  BY DEF ItemsOK
<1>3. item.resource = row /\ item.processes = was.processes
  BY <1>1
<1> QED BY <1>1, <1>2, <1>3 DEF Same

LEMMA ProcessesAre ==
    ASSUME NEW runtime, NEW id, NEW processes \in ProcessesOf(runtime, id)
    PROVE  processes \subseteq {ProcessRowOf(runtime, id)}
BY DEF ProcessesOf, ProcessRowOf

LEMMA HeldInitially == InitView => HeldInv
<1> SUFFICES ASSUME InitView PROVE HeldInv
  OBVIOUS
<1>1. /\ held = [linux |-> {}, extra |-> {}, windows |-> {}, metadata |-> [pid \in {} |-> NoMetadata],
                 wslc |-> {}, lists |-> {}, docker |-> {}]
      /\ showsDocker \in BOOLEAN
  BY DEF InitView, NothingHeld
<1>2. GuestOK({}, NoSource) /\ GuestOK({}, <<ViewDistro>>) /\ WindowsOK({})
  BY FS_EmptySet DEF GuestOK, WindowsOK
<1>3. \A runtime : ContainersOK({}, runtime) /\ ItemsOK({}, {}, runtime)
  <2>1. [id \in ViewIds |-> 0] \in [ViewIds -> Nat]
    OBVIOUS
  <2> QED BY <2>1 DEF ContainersOK, ItemsOK
<1>4. DockerOK({})
  BY <1>3 DEF DockerOK
<1>5. /\ held.linux = {} /\ held.extra = {} /\ held.windows = {} /\ held.wslc = {} /\ held.lists = {} /\ held.docker = {}
      /\ held.metadata = [pid \in {} |-> NoMetadata]
  BY <1>1
<1> QED BY <1>1, <1>2, <1>3, <1>4, <1>5 DEF HeldInv

\* A step that replaces one thing that is held.
LEMMA Replaced ==
    ASSUME HeldInv, NEW f \in {"linux", "extra", "windows", "metadata", "wslc", "lists", "docker"}, NEW v,
           held' = [held EXCEPT ![f] = v]
    PROVE  /\ held' = [linux |-> held'.linux, extra |-> held'.extra, windows |-> held'.windows, metadata |-> held'.metadata,
                       wslc |-> held'.wslc, lists |-> held'.lists, docker |-> held'.docker]
           /\ held'[f] = v
           /\ \A g \in {"linux", "extra", "windows", "metadata", "wslc", "lists", "docker"} \ {f} : held'[g] = held[g]
<1>1. DOMAIN held = {"linux", "extra", "windows", "metadata", "wslc", "lists", "docker"}
  BY DEF HeldInv
<1> QED BY <1>1

LEMMA HeldKeeps == HeldInv /\ [ViewNext]_viewVars => HeldInv'
<1> SUFFICES ASSUME HeldInv, [ViewNext]_viewVars PROVE HeldInv'
  OBVIOUS
<1>1. CASE UNCHANGED viewVars
  BY <1>1 DEF viewVars, HeldInv
<1>2. /\ GuestOK(held.linux, NoSource) /\ GuestOK(held.extra, <<ViewDistro>>) /\ WindowsOK(held.windows)
      /\ ContainersOK(held.wslc, "wslc") /\ ItemsOK(held.lists, held.wslc, "wslc") /\ DockerOK(held.docker)
      /\ showsDocker \in BOOLEAN /\ (~showsDocker => held.docker = {})
  BY DEF HeldInv
<1>3. CASE TakesLinux /\ showsDocker' = showsDocker
  <2>1. PICK rows \in GuestRows(NoSource) : held' = [held EXCEPT !.linux = rows]
    BY <1>3 DEF TakesLinux
  <2>2. GuestOK(rows, NoSource)
    BY <2>1, GuestsAre
  <2> QED BY <1>2, <1>3, <2>1, <2>2, Replaced DEF HeldInv
<1>4. CASE TakesExtra /\ showsDocker' = showsDocker
  <2>1. PICK rows \in {{}} \cup GuestRows(<<ViewDistro>>) : held' = [held EXCEPT !.extra = rows]
    BY <1>4 DEF TakesExtra
  <2>2. GuestOK(rows, <<ViewDistro>>)
    BY <2>1, GuestsAre DEF GuestOK
  <2> QED BY <1>2, <1>4, <2>1, <2>2, Replaced DEF HeldInv
<1>5. CASE TakesWindows /\ showsDocker' = showsDocker
  <2>1. PICK rows \in HostRows : held' = [held EXCEPT !.windows = rows]
    BY <1>5 DEF TakesWindows
  <2>2. WindowsOK(rows)
    BY <2>1, HostsAre
  <2> QED BY <1>2, <1>5, <2>1, <2>2, Replaced DEF HeldInv
<1>6. CASE TakesMetadata /\ showsDocker' = showsDocker
  <2>1. PICK read : held' = [held EXCEPT !.metadata = read]
    BY <1>6 DEF TakesMetadata
  <2>2. held' = [linux |-> held.linux, extra |-> held.extra, windows |-> held.windows, metadata |-> read,
                 wslc |-> held.wslc, lists |-> held.lists, docker |-> held.docker]
    BY <2>1 DEF HeldInv
  <2> QED BY <1>2, <1>6, <2>2 DEF HeldInv
<1>7. CASE WslcAggregate /\ showsDocker' = showsDocker
  <2>0. PICK ids \in SUBSET ViewIds :
            \E rows \in ContainerRows("wslc", ids) : held' = [held EXCEPT !.wslc = rows, !.lists = RetainedLists(@, rows)]
    BY <1>7 DEF WslcAggregate
  <2>1. PICK rows \in ContainerRows("wslc", ids) :
            held' = [held EXCEPT !.wslc = rows, !.lists = RetainedLists(@, rows)]
    BY <2>0
  <2>2. ContainersOK(rows, "wslc") /\ ItemsOK(RetainedLists(held.lists, rows), rows, "wslc")
    BY <1>2, ContainerRowsAre, RetainedOK
  <2>3. held' = [linux |-> held.linux, extra |-> held.extra, windows |-> held.windows, metadata |-> held.metadata,
                 wslc |-> rows, lists |-> RetainedLists(held.lists, rows), docker |-> held.docker]
    BY <2>1 DEF HeldInv
  <2> QED BY <1>2, <1>7, <2>2, <2>3 DEF HeldInv
<1>8. CASE WslcDetails /\ showsDocker' = showsDocker
  <2>1. PICK id \in ViewIds : \E processes \in ProcessesOf("wslc", id) :
            LET current == {row \in held.wslc : row.id = <<id>>}
            IN  held' = [held EXCEPT !.lists = {item \in @ : \A row \in current : ~Same(item, row)}
                                               \cup {[resource |-> row, processes |-> processes] : row \in current}]
    BY <1>8 DEF WslcDetails
  <2>0. PICK current : current = {row \in held.wslc : row.id = <<id>>}
    OBVIOUS
  <2>2. PICK processes, lists :
            /\ processes \in ProcessesOf("wslc", id)
            /\ lists = {item \in held.lists : \A row \in current : ~Same(item, row)}
                       \cup {[resource |-> row, processes |-> processes] : row \in current}
            /\ held' = [held EXCEPT !.lists = lists]
    BY <2>1, <2>0
  <2>3. held' = [linux |-> held.linux, extra |-> held.extra, windows |-> held.windows, metadata |-> held.metadata,
                 wslc |-> held.wslc, lists |-> lists, docker |-> held.docker]
    BY <2>2 DEF HeldInv
  <2>4. ASSUME NEW item \in lists
        PROVE  /\ item = [resource |-> item.resource, processes |-> item.processes] /\ item.resource \in held.wslc
               /\ \E x \in ViewIds : item.resource.id = <<x>> /\ item.processes \subseteq {ProcessRowOf("wslc", x)}
    <3>1. CASE item \in held.lists
      BY <1>2, <3>1 DEF ItemsOK
    <3>2. CASE item \notin held.lists
      <4>1. PICK row \in held.wslc : row.id = <<id>> /\ item = [resource |-> row, processes |-> processes]
        BY <2>0, <2>2, <3>2
      <4>2. item.resource = row /\ item.processes = processes
        BY <4>1
      <4> QED BY <4>1, <4>2, <2>2, ProcessesAre
    <3> QED BY <3>1, <3>2
  <2>5. ItemsOK(lists, held.wslc, "wslc")
    BY <2>4 DEF ItemsOK
  <2> QED BY <1>2, <1>8, <2>3, <2>5 DEF HeldInv
<1>9. CASE DockerAggregate /\ showsDocker' = showsDocker
  <2>0. PICK ids \in SUBSET ViewIds : \E rows \in ContainerRows("docker", ids) :
            LET kept == RetainedLists(held.docker, rows)
            IN  held' = [held EXCEPT !.docker =
                    kept \cup {[resource |-> row, processes |-> {}] :
                                   row \in {row \in rows : \A item \in kept : ~Same(item, row)}}]
    BY <1>9 DEF DockerAggregate
  <2>1. PICK rows \in ContainerRows("docker", ids) :
            LET kept == RetainedLists(held.docker, rows)
            IN  held' = [held EXCEPT !.docker =
                    kept \cup {[resource |-> row, processes |-> {}] :
                                   row \in {row \in rows : \A item \in kept : ~Same(item, row)}}]
    BY <2>0
  <2>2. PICK kept, new : /\ kept = RetainedLists(held.docker, rows)
                         /\ new = kept \cup {[resource |-> row, processes |-> {}] :
                                                 row \in {row \in rows : \A item \in kept : ~Same(item, row)}}
                         /\ held' = [held EXCEPT !.docker = new]
    BY <2>1
  <2>3. held' = [linux |-> held.linux, extra |-> held.extra, windows |-> held.windows, metadata |-> held.metadata,
                 wslc |-> held.wslc, lists |-> held.lists, docker |-> new]
    BY <2>2 DEF HeldInv
  <2>4. ContainersOK(rows, "docker") /\ ItemsOK(kept, rows, "docker")
    BY <1>2, <2>2, ContainerRowsAre, RetainedOK DEF DockerOK
  <2>5. ASSUME NEW item \in new
        PROVE  /\ item = [resource |-> item.resource, processes |-> item.processes] /\ item.resource \in rows
               /\ \E x \in ViewIds : item.resource.id = <<x>> /\ item.processes \subseteq {ProcessRowOf("docker", x)}
    <3>1. CASE item \in kept
      BY <2>4, <3>1 DEF ItemsOK
    <3>2. CASE item \notin kept
      <4>1. PICK row \in rows : item = [resource |-> row, processes |-> {}]
        BY <2>2, <3>2
      <4>2. item.resource = row /\ item.processes = {}
        BY <4>1
      <4>3. \E x \in ViewIds : row.id = <<x>>
        BY <2>4, ContainersHaveIds
      <4> QED BY <4>1, <4>2, <4>3
    <3> QED BY <3>1, <3>2
  <2>6. DockerOK(new)
    <3>1. ItemsOK(new, rows, "docker")
      BY <2>5 DEF ItemsOK
    <3> QED BY <2>4, <3>1 DEF DockerOK
  <2>7. showsDocker
    BY <1>9 DEF DockerAggregate
  <2> QED BY <1>2, <1>9, <2>3, <2>6, <2>7 DEF HeldInv
<1>10. CASE DockerDetails /\ showsDocker' = showsDocker
  <2>0. PICK id \in ViewIds : \E processes \in ProcessesOf("docker", id) :
            held' = [held EXCEPT !.docker =
                {IF item.resource.id = <<id>> THEN [item EXCEPT !.processes = processes] ELSE item : item \in @}]
    BY <1>10 DEF DockerDetails
  <2>1. PICK processes \in ProcessesOf("docker", id) :
            held' = [held EXCEPT !.docker =
                {IF item.resource.id = <<id>> THEN [item EXCEPT !.processes = processes] ELSE item : item \in @}]
    BY <2>0
  <2>2. PICK new : /\ new = {IF item.resource.id = <<id>> THEN [item EXCEPT !.processes = processes] ELSE item :
                                  item \in held.docker}
                   /\ held' = [held EXCEPT !.docker = new]
    BY <2>1
  <2>3. held' = [linux |-> held.linux, extra |-> held.extra, windows |-> held.windows, metadata |-> held.metadata,
                 wslc |-> held.wslc, lists |-> held.lists, docker |-> new]
    BY <2>2 DEF HeldInv
  <2>4. PICK rows : ContainersOK(rows, "docker") /\ ItemsOK(held.docker, rows, "docker")
    BY <1>2 DEF DockerOK
  <2>5. ASSUME NEW item \in new
        PROVE  /\ item = [resource |-> item.resource, processes |-> item.processes] /\ item.resource \in rows
               /\ \E x \in ViewIds : item.resource.id = <<x>> /\ item.processes \subseteq {ProcessRowOf("docker", x)}
    <3>1. PICK was \in held.docker :
              item = IF was.resource.id = <<id>> THEN [was EXCEPT !.processes = processes] ELSE was
      BY <2>2
    <3>2. was = [resource |-> was.resource, processes |-> was.processes] /\ was.resource \in rows
          /\ \E x \in ViewIds : was.resource.id = <<x>> /\ was.processes \subseteq {ProcessRowOf("docker", x)}
      BY <2>4 DEF ItemsOK
    <3>3. CASE was.resource.id = <<id>>
      <4>1. item = [resource |-> was.resource, processes |-> processes]
        BY <3>1, <3>2, <3>3
      <4>2. item.resource = was.resource /\ item.processes = processes
        BY <4>1
      <4> QED BY <3>2, <3>3, <4>1, <4>2, ProcessesAre
    <3>4. CASE was.resource.id # <<id>>
      BY <3>1, <3>2, <3>4
    <3> QED BY <3>3, <3>4
  <2>6. DockerOK(new)
    <3>1. ItemsOK(new, rows, "docker")
      BY <2>5 DEF ItemsOK
    <3> QED BY <2>4, <3>1 DEF DockerOK
  <2>7. showsDocker
    BY <1>10 DEF DockerDetails
  <2> QED BY <1>2, <1>10, <2>3, <2>6, <2>7, Replaced DEF HeldInv
<1>11. CASE TakesCount /\ showsDocker' = showsDocker
  <2>1. held' = [linux |-> {}, extra |-> {}, windows |-> held.windows, metadata |-> held.metadata,
                 wslc |-> {}, lists |-> {}, docker |-> {}]
    BY <1>11 DEF TakesCount, NothingHeld
  <2>2. \A runtime : ContainersOK({}, runtime) /\ ItemsOK({}, {}, runtime)
    <3>1. [id \in ViewIds |-> 0] \in [ViewIds -> Nat]
      OBVIOUS
    <3> QED BY <3>1 DEF ContainersOK, ItemsOK
  <2>3. DockerOK({})
    BY <2>2 DEF DockerOK
  <2> QED BY <1>2, <1>11, <2>1, <2>2, <2>3 DEF HeldInv, GuestOK
<1> QED BY <1>1, <1>3, <1>4, <1>5, <1>6, <1>7, <1>8, <1>9, <1>10, <1>11 DEF ViewNext

LEMMA HeldInvariant == ViewSpec => []HeldInv
BY HeldInitially, HeldKeeps, PTL DEF ViewSpec

\* The rows of the distributions, the containers of Docker, and what is made of them.
Guests     == held.linux \cup held.extra
Containers == {item.resource : item \in held.docker}
Builds     == TakeUsage(Guests, showsDocker)
BuildHeads == {item.resource : item \in Builds.containers}
Apps       == {a.resource : a \in GroupProcesses(held.windows, held.metadata)}
AppRows    == {row \in held.windows : IsProcess(row)}

LEMMA ViewSourceIs ==
    ASSUME NEW s \in ViewSources
    PROVE  /\ s \in Seq(Nat) /\ BuildSource(s, 9) \in Seq(Nat) /\ IsBuild(BuildSource(s, 9))
           /\ Len(BuildSource(s, 9)) >= 2 /\ BuildDistro(BuildSource(s, 9)) = s
<1>1. s \in Seq(Nat) /\ 9 \in Nat /\ Len(s) \in Nat
  <2>1. <<ViewDistro>> \in Seq(Nat) /\ << >> \in Seq(Nat)
    BY ViewAssumption
  <2>2. s = << >> \/ s = <<ViewDistro>>
    BY DEF ViewSources, NoSource
  <2> QED BY <2>1, <2>2
<1> QED BY <1>1, BuildSourceIs

LEMMA BuildIsNoContainer == \A id : \A s \in ViewSources : <<id>> # BuildSource(s, 9)
<1> SUFFICES ASSUME NEW id, NEW s \in ViewSources PROVE <<id>> # BuildSource(s, 9)
  OBVIOUS
<1>1. BuildSource(s, 9) \in Seq(Nat) /\ Len(BuildSource(s, 9)) >= 2
  BY ViewSourceIs
<1>2. PICK source, n : source = BuildSource(s, 9) /\ n = Len(source)
  OBVIOUS
<1>3. n \in Nat /\ n >= 2
  BY <1>1, <1>2
<1>4. PICK t, m : t = <<id>> /\ m = Len(t)
  OBVIOUS
<1>5. m = 1
  BY <1>4
<1>6. ASSUME t = source PROVE FALSE
  <2>1. m = n
    BY <1>2, <1>4, <1>6
  <2> QED BY <2>1, <1>3, <1>5
<1> QED BY <1>2, <1>4, <1>6, Zenon

LEMMA GuestsHeld ==
    ASSUME HeldInv
    PROVE  /\ Rated(Guests)
           /\ \A row \in Guests : \E s \in ViewSources :
                  \/ \E cpu \in Loads : row = GuestRow(s, cpu)
                  \/ row = BuildRow(s)
           /\ \A r, q \in Guests : r.env = "wsl" /\ q.env = "wsl" /\ r.source = q.source => r = q
<1>1. PICK a \in Nat : held.linux \subseteq {GuestRow(NoSource, a), BuildRow(NoSource)} /\ (a \in Loads \/ held.linux = {})
  <2>1. Loads \subseteq Nat
    BY ViewAssumption
  <2> QED BY <2>1 DEF HeldInv, GuestOK
<1>2. PICK b \in Nat : held.extra \subseteq {GuestRow(<<ViewDistro>>, b), BuildRow(<<ViewDistro>>)} /\ (b \in Loads \/ held.extra = {})
  <2>1. Loads \subseteq Nat
    BY ViewAssumption
  <2> QED BY <2>1 DEF HeldInv, GuestOK
<1>3. PICK w, x, y, z : w = GuestRow(NoSource, a) /\ x = BuildRow(NoSource)
                        /\ y = GuestRow(<<ViewDistro>>, b) /\ z = BuildRow(<<ViewDistro>>)
  OBVIOUS
<1>4. Guests \subseteq ({w} \cup {x}) \cup ({y} \cup {z})
  BY <1>1, <1>2, <1>3 DEF Guests
<1>5. IsFiniteSet(Guests)
  <2>1. IsFiniteSet(({w} \cup {x}) \cup ({y} \cup {z}))
    BY FS_Singleton, FS_Union
  <2> QED BY <1>4, <2>1, FS_Subset
<1>6. /\ IsRow(w) /\ w.cpu = a /\ w.env = "wsl" /\ w.source = NoSource
      /\ IsRow(y) /\ y.cpu = b /\ y.env = "wsl" /\ y.source = <<ViewDistro>>
      /\ IsRow(x) /\ x.cpu = 1 /\ x.env = "docker"
      /\ IsRow(z) /\ z.cpu = 1 /\ z.env = "docker"
  BY <1>3 DEF IsRow, Row, GuestRow, BuildRow
<1>7. NoSource # <<ViewDistro>> /\ NoSource \in ViewSources /\ <<ViewDistro>> \in ViewSources
  BY DEF NoSource, ViewSources
<1>8. Rated(Guests)
  BY <1>4, <1>5, <1>6 DEF Rated
<1>9. \A row \in Guests : \E s \in ViewSources : (\E cpu \in Loads : row = GuestRow(s, cpu)) \/ row = BuildRow(s)
  <2> TAKE row \in Guests
  <2>1. CASE row \in held.linux
    BY <1>1, <1>7, <2>1
  <2>2. CASE row \in held.extra
    BY <1>2, <1>7, <2>2
  <2> QED BY <2>1, <2>2 DEF Guests
<1>10. \A r, q \in Guests : r.env = "wsl" /\ q.env = "wsl" /\ r.source = q.source => r = q
  BY <1>4, <1>6, <1>7
<1> QED BY <1>8, <1>9, <1>10

\* A row of a distribution is of WSL or of a build, as which it is of Docker.
LEMMA GuestShapes ==
    ASSUME HeldInv, NEW row \in Guests
    PROVE  \E s \in ViewSources :
               \/ /\ row.env = "wsl" /\ row.source = s /\ row.kind = "process" /\ row.id = <<1>> /\ ~IsBuildRow(row)
               \/ /\ row = BuildRow(s) /\ row.env = "docker" /\ row.source = BuildSource(s, 9) /\ row.kind = "process"
                  /\ row.id = <<2>> /\ IsBuildRow(row)
                  /\ AsWsl(row).env = "wsl" /\ AsWsl(row).source = s /\ AsWsl(row).kind = "process" /\ AsWsl(row).id = <<2>>
<1>1. PICK s \in ViewSources : (\E cpu \in Loads : row = GuestRow(s, cpu)) \/ row = BuildRow(s)
  BY GuestsHeld
<1>2. ASSUME NEW cpu \in Loads, row = GuestRow(s, cpu)
      PROVE  row.env = "wsl" /\ row.source = s /\ row.kind = "process" /\ row.id = <<1>> /\ ~IsBuildRow(row)
  BY <1>2 DEF GuestRow, Row, IsBuildRow
<1>3. ASSUME row = BuildRow(s)
      PROVE  /\ row.env = "docker" /\ row.source = BuildSource(s, 9) /\ row.kind = "process"
             /\ row.id = <<2>> /\ IsBuildRow(row)
             /\ AsWsl(row).env = "wsl" /\ AsWsl(row).source = s /\ AsWsl(row).kind = "process" /\ AsWsl(row).id = <<2>>
  <2>1. /\ row.env = "docker" /\ row.source = BuildSource(s, 9) /\ row.kind = "process" /\ row.id = <<2>> /\ IsRow(row)
    BY <1>3 DEF BuildRow, Row, IsRow
  <2>2. IsBuildRow(row) /\ BuildDistro(row.source) = s
    BY <2>1, ViewSourceIs DEF IsBuildRow
  <2>3. AsWsl(row) = Row("wsl", s, "process", <<2>>, row.start, row.name, row.cpu, row.memory)
    BY <2>1, <2>2, AsWslIs
  <2> QED BY <2>1, <2>2, <2>3 DEF Row
<1> QED BY <1>1, <1>2, <1>3

\* The rows of WSL that are shown, and the containers of its builds.
LEMMA BuildsOfGuests ==
    ASSUME HeldInv
    PROVE  /\ Rated(Builds.rows) /\ Rated(BuildHeads)
           /\ CpuOf(Guests) = CpuOf(Builds.rows) + CpuOf(BuildHeads)
           /\ \A row \in Builds.rows : row.env = "wsl" /\ row.kind = "process"
           /\ \A row \in BuildHeads : row.env = "docker" /\ row.kind = "container" /\ \E s \in ViewSources : row.id = BuildSource(s, 9)
           /\ \A item \in Builds.containers : item.processes \subseteq {row \in Guests : IsBuildRow(row)}
<1>1. StayApart(Guests)
  <2> SUFFICES ASSUME NEW a \in Guests, NEW b \in Guests, IsBuildRow(a)
               PROVE  IF IsBuildRow(b) THEN AsWsl(a) = AsWsl(b) => a = b ELSE AsWsl(a) # b
    BY DEF StayApart
  <2>1. PICK s \in ViewSources : a = BuildRow(s) /\ AsWsl(a).source = s /\ AsWsl(a).id = <<2>>
    BY GuestShapes
  <2>2. CASE IsBuildRow(b)
    <3>1. PICK d \in ViewSources : b = BuildRow(d) /\ AsWsl(b).source = d
      BY <2>2, GuestShapes
    <3> QED BY <2>1, <2>2, <3>1
  <2>3. CASE ~IsBuildRow(b)
    <3>1. b.id = <<1>>
      BY <2>3, GuestShapes
    <3>2. <<1>> # <<2>>
      OBVIOUS
    <3> QED BY <2>1, <2>3, <3>1, <3>2
  <2> QED BY <2>2, <2>3
<1>2. Rated(Builds.rows) /\ Rated(BuildHeads) /\ CpuOf(Guests) = CpuOf(Builds.rows) + CpuOf(BuildHeads)
  <2>1. Rated(Guests) /\ showsDocker \in BOOLEAN
    BY GuestsHeld DEF HeldInv
  <2> QED BY <1>1, <2>1, BuildsTaken DEF Builds, BuildHeads
<1>3. \A row \in Builds.rows : row.env = "wsl" /\ row.kind = "process"
  <2> TAKE row \in Builds.rows
  <2>1. (row \in Guests /\ ~IsBuildRow(row)) \/ \E b \in Guests : IsBuildRow(b) /\ row = AsWsl(b)
    BY DEF Builds, TakeUsage, AsWsl
  <2> QED BY <2>1, GuestShapes
<1>4. ASSUME NEW item \in Builds.containers
      PROVE  /\ item.processes \subseteq {row \in Guests : IsBuildRow(row)}
             /\ item.resource.env = "docker" /\ item.resource.kind = "container"
             /\ \E s \in ViewSources : item.resource.id = BuildSource(s, 9)
  <2>1. PICK row \in Guests : IsBuildRow(row) /\
            item = Executor(row.source, {r \in Guests : IsBuildRow(r) /\ r.source = row.source})
    <3>1. PICK source \in {r.source : r \in {r \in Guests : IsBuildRow(r)}} :
              item = Executor(source, {r \in {r \in Guests : IsBuildRow(r)} : r.source = source})
      BY DEF Builds, TakeUsage
    <3>2. {r \in {r \in Guests : IsBuildRow(r)} : r.source = source} = {r \in Guests : IsBuildRow(r) /\ r.source = source}
      OBVIOUS
    <3> QED BY <3>1, <3>2
  <2>2. PICK rows : rows = {r \in Guests : IsBuildRow(r) /\ r.source = row.source}
    OBVIOUS
  <2>3. item.processes = rows /\ item.resource.env = "docker" /\ item.resource.kind = "container" /\ item.resource.id = row.source
    BY <2>1, <2>2 DEF Executor, Row
  <2>4. \E s \in ViewSources : row.source = BuildSource(s, 9)
    BY <2>1, GuestShapes
  <2> QED BY <2>2, <2>3, <2>4
<1>5. \A row \in BuildHeads : row.env = "docker" /\ row.kind = "container" /\ \E s \in ViewSources : row.id = BuildSource(s, 9)
  BY <1>4 DEF BuildHeads
<1> QED BY <1>2, <1>3, <1>4, <1>5

LEMMA ContainersCounted ==
    ASSUME NEW runtime, NEW rows, ContainersOK(rows, runtime)
    PROVE  /\ Rated(rows)
           /\ \A row \in rows : /\ row.env = runtime /\ row.kind = "container" /\ row.source = NoSource
                                /\ \E id \in ViewIds : row.id = <<id>>
<1>1. PICK cpu \in [ViewIds -> Nat] : \A row \in rows : \E id \in ViewIds : row = ContainerRowOf(runtime, id, cpu[id])
  BY DEF ContainersOK
<1> DEFINE h == [id \in ViewIds |-> ContainerRowOf(runtime, id, cpu[id])]
<1>2. IsFiniteSet(rows)
  <2>1. \A row \in rows : \E id \in ViewIds : row = h[id]
    BY <1>1
  <2> HIDE DEF h
  <2>2. rows \subseteq {h[id] : id \in ViewIds}
    BY <2>1
  <2>3. IsFiniteSet({h[id] : id \in ViewIds})
    BY ViewAssumption, ImageFinite
  <2> QED BY <2>2, <2>3, FS_Subset
<1>3. \A row \in rows : /\ IsRow(row) /\ row.cpu \in Int /\ row.env = runtime /\ row.kind = "container" /\ row.source = NoSource
                        /\ \E id \in ViewIds : row.id = <<id>>
  BY <1>1 DEF ContainerRowOf, Row, IsRow
<1> QED BY <1>2, <1>3 DEF Rated

LEMMA ContainersHeld == ASSUME HeldInv PROVE ContainersOK(Containers, "docker")
<1>1. PICK rows : ContainersOK(rows, "docker") /\ ItemsOK(held.docker, rows, "docker")
  BY DEF HeldInv, DockerOK
<1>2. Containers \subseteq rows
  BY <1>1 DEF Containers, ItemsOK
<1> QED BY <1>1, <1>2 DEF ContainersOK

\* The processes of containers, which are listed below them.
Below == UNION {item.processes : item \in held.lists \cup held.docker \cup Builds.containers}

LEMMA BelowAre ==
    ASSUME HeldInv, NEW row \in Below
    PROVE  /\ row.kind = "process" /\ row.env \in {"docker", "wslc"} /\ row.source # NoSource
           /\ \/ \E runtime \in {"docker", "wslc"}, id \in ViewIds : row = ProcessRowOf(runtime, id)
              \/ row \in Guests /\ IsBuildRow(row)
<1>1. PICK item \in held.lists \cup held.docker \cup Builds.containers : row \in item.processes
  BY DEF Below
<1>2. ASSUME NEW runtime \in {"docker", "wslc"}, NEW id \in ViewIds, row = ProcessRowOf(runtime, id)
      PROVE  row.kind = "process" /\ row.env \in {"docker", "wslc"} /\ row.source # NoSource
  BY <1>2 DEF ProcessRowOf, Row, NoSource
<1>3. CASE item \in held.lists \cup held.docker
  <2>1. \E runtime \in {"docker", "wslc"}, id \in ViewIds : item.processes \subseteq {ProcessRowOf(runtime, id)}
    BY <1>3 DEF HeldInv, DockerOK, ItemsOK
  <2> QED BY <1>1, <1>2, <2>1
<1>4. CASE item \in Builds.containers
  <2>1. row \in Guests /\ IsBuildRow(row)
    BY <1>1, <1>4, BuildsOfGuests
  <2>2. PICK s \in ViewSources : row.env = "docker" /\ row.source = BuildSource(s, 9) /\ row.kind = "process"
    BY <2>1, GuestShapes
  <2>3. row.source # NoSource
    BY <2>2, ViewSourceIs DEF NoSource
  <2> QED BY <2>1, <2>2, <2>3
<1> QED BY <1>1, <1>3, <1>4

\* The list: rows of WSL, containers and applications, besides hosts and what is
\* listed below containers.
ListRowsAre == Builds.rows \cup held.wslc \cup Containers \cup BuildHeads \cup Apps

LEMMA StreamShows ==
    ASSUME HeldInv
    PROVE  {row \in StreamAssembled.resources : ~IsHostResource(row) /\ ~ContainerProcess(row)} = ListRowsAre
<1> DEFINE All == Builds.rows \cup held.windows \cup held.wslc \cup (Containers \cup BuildHeads) \cup Below
<1>1. StreamAssembled.resources = {row \in All : ~IsProcess(row)} \cup Apps
  <2>1. {item.resource : item \in held.docker \cup Builds.containers} = Containers \cup BuildHeads
    BY DEF Containers, BuildHeads
  <2>2. StreamAssembled.resources = ApplicationView(Builds.rows \cup held.windows \cup held.wslc
            \cup {item.resource : item \in held.docker \cup Builds.containers}
            \cup UNION {item.processes : item \in held.lists \cup (held.docker \cup Builds.containers)},
            GroupProcesses(held.windows, held.metadata))
    BY DEF StreamAssembled, Builds, Guests
  <2>3. held.lists \cup (held.docker \cup Builds.containers) = held.lists \cup held.docker \cup Builds.containers
    OBVIOUS
  <2>4. StreamAssembled.resources = ApplicationView(All, GroupProcesses(held.windows, held.metadata))
    BY <2>1, <2>2, <2>3 DEF Below
  <2> HIDE DEF All
  <2> QED BY <2>4 DEF ApplicationView, Apps
<1>2. \A row \in Builds.rows : row.env = "wsl"
  BY BuildsOfGuests
<1>3. \A row \in held.windows : row.env = "windows" /\ (row.kind = "host" \/ row.kind = "process")
  BY DEF HeldInv, WindowsOK
<1>4. \A row \in held.wslc \cup Containers : row.kind = "container" /\ row.env \in {"wslc", "docker"}
  BY ContainersHeld, ContainersCounted DEF HeldInv
<1>5. \A row \in BuildHeads : row.kind = "container" /\ row.env = "docker"
  BY BuildsOfGuests
<1>6. \A row \in Below : row.kind = "process" /\ row.env \in {"docker", "wslc"} /\ row.source # NoSource
  BY BelowAre
<1>7. \A row \in Apps : row.env = "windows" /\ row.kind = "application"
  <2>1. Rated(held.windows)
    BY DEF HeldInv, WindowsOK, Rated
  <2> QED BY <2>1, ApplicationCpu DEF Apps
<1> QED BY <1>1, <1>2, <1>3, <1>4, <1>5, <1>6, <1>7 DEF ListRowsAre, IsHostResource, IsProcess, ContainerProcess

\* The list of the stream holds the CPU of every source once, for any rows that the
\* collectors deliver in any order: builds are moved to Docker or back, applications
\* are put together by metadata of any age, and details come late (stream.rs:373).
THEOREM StreamListConservesCpu == ViewSpec => []StreamConservesCpu
<1>1. HeldInv => StreamConservesCpu
  <2> SUFFICES ASSUME HeldInv PROVE CpuOf(ListRowsAre) =
          CpuOf(held.linux \cup held.extra \cup held.wslc \cup AppRows \cup Containers)
    BY StreamShows DEF StreamConservesCpu, CpuOf, AppRows, Containers
  <2>1. /\ Rated(Builds.rows) /\ Rated(BuildHeads) /\ Rated(Guests) /\ Rated(held.wslc) /\ Rated(Containers)
        /\ CpuOf(Guests) = CpuOf(Builds.rows) + CpuOf(BuildHeads)
    BY BuildsOfGuests, GuestsHeld, ContainersHeld, ContainersCounted DEF HeldInv
  <2>2. Rated(Apps) /\ Rated(AppRows) /\ CpuOf(Apps) = CpuOf(AppRows) /\ \A row \in Apps : row.env = "windows"
    <3>1. Rated(held.windows)
      BY DEF HeldInv, WindowsOK, Rated
    <3> QED BY <3>1, ApplicationCpu, CpuOfPart DEF Apps, AppRows
  <2>3. /\ \A row \in Builds.rows : row.env = "wsl"
        /\ \A row \in Guests : row.env \in {"wsl", "docker"} /\ row.kind = "process"
        /\ \A row \in held.wslc : row.env = "wslc"
        /\ \A row \in Containers : row.env = "docker" /\ row.kind = "container" /\ \E id \in ViewIds : row.id = <<id>>
        /\ \A row \in BuildHeads : row.env = "docker" /\ \E s \in ViewSources : row.id = BuildSource(s, 9)
        /\ \A row \in AppRows : row.env = "windows"
    <3>1. ContainersOK(held.wslc, "wslc") /\ ContainersOK(Containers, "docker")
      BY ContainersHeld DEF HeldInv
    <3>2. \A row \in Guests : row.env \in {"wsl", "docker"} /\ row.kind = "process"
      BY GuestShapes
    <3> QED BY <3>1, <3>2, BuildsOfGuests, ContainersCounted DEF AppRows, IsProcess
  <2>4. Containers \cap BuildHeads = {}
    <3>2. \A row \in Containers : \E id : row.id = <<id>>
      BY <2>3
    <3>3. \A row \in BuildHeads : \E s \in ViewSources : row.id = BuildSource(s, 9)
      BY <2>3
    <3> QED BY <3>2, <3>3, BuildIsNoContainer
  <2>5. PICK a, b, c, d, e, g, p : /\ a = Builds.rows /\ b = held.wslc /\ c = Containers /\ d = BuildHeads /\ e = Apps
                                  /\ g = Guests /\ p = AppRows
    OBVIOUS
  <2>6. CpuOf((((a \cup b) \cup c) \cup d) \cup e) = CpuOf(a) + CpuOf(b) + CpuOf(c) + CpuOf(d) + CpuOf(e)
    <3>1. Rated(a \cup b) /\ CpuOf(a \cup b) = CpuOf(a) + CpuOf(b)
      <4>1. a \cap b = {}
        BY <2>3, <2>5
      <4> QED BY <2>1, <2>5, <4>1, CpuOfUnion
    <3>2. Rated((a \cup b) \cup c) /\ CpuOf((a \cup b) \cup c) = CpuOf(a \cup b) + CpuOf(c)
      <4>1. (a \cup b) \cap c = {}
        BY <2>3, <2>5
      <4> QED BY <2>1, <2>5, <3>1, <4>1, CpuOfUnion
    <3>3. Rated(((a \cup b) \cup c) \cup d) /\ CpuOf(((a \cup b) \cup c) \cup d) = CpuOf((a \cup b) \cup c) + CpuOf(d)
      <4>1. ((a \cup b) \cup c) \cap d = {}
        BY <2>3, <2>4, <2>5
      <4> QED BY <2>1, <2>5, <3>2, <4>1, CpuOfUnion
    <3>4. CpuOf((((a \cup b) \cup c) \cup d) \cup e) = CpuOf(((a \cup b) \cup c) \cup d) + CpuOf(e)
      <4>1. (((a \cup b) \cup c) \cup d) \cap e = {}
        BY <2>2, <2>3, <2>5
      <4> QED BY <2>2, <2>5, <3>3, <4>1, CpuOfUnion
    <3> QED BY <3>1, <3>2, <3>3, <3>4
  <2>7. CpuOf(((g \cup b) \cup p) \cup c) = CpuOf(g) + CpuOf(b) + CpuOf(p) + CpuOf(c)
    <3>1. Rated(g \cup b) /\ CpuOf(g \cup b) = CpuOf(g) + CpuOf(b)
      <4>1. g \cap b = {}
        BY <2>3, <2>5
      <4> QED BY <2>1, <2>5, <4>1, CpuOfUnion
    <3>2. Rated((g \cup b) \cup p) /\ CpuOf((g \cup b) \cup p) = CpuOf(g \cup b) + CpuOf(p)
      <4>1. (g \cup b) \cap p = {}
        BY <2>3, <2>5
      <4> QED BY <2>2, <2>5, <3>1, <4>1, CpuOfUnion
    <3>3. CpuOf(((g \cup b) \cup p) \cup c) = CpuOf((g \cup b) \cup p) + CpuOf(c)
      <4>1. ((g \cup b) \cup p) \cap c = {}
        BY <2>3, <2>5
      <4> QED BY <2>1, <2>5, <3>2, <4>1, CpuOfUnion
    <3> QED BY <3>1, <3>2, <3>3
  <2>8. CpuOf(a) \in Int /\ CpuOf(b) \in Int /\ CpuOf(c) \in Int /\ CpuOf(d) \in Int /\ CpuOf(e) \in Int
    BY <2>1, <2>2, <2>5, CpuIsInt
  <2>9. CpuOf(g) = CpuOf(a) + CpuOf(d) /\ CpuOf(p) = CpuOf(e)
    BY <2>1, <2>2, <2>5
  <2>10. CpuOf((((a \cup b) \cup c) \cup d) \cup e) = CpuOf(((g \cup b) \cup p) \cup c)
    BY <2>6, <2>7, <2>8, <2>9
  <2> QED BY <2>5, <2>10 DEF ListRowsAre, Guests
<1> QED BY <1>1, HeldInvariant, PTL

-----------------------------------------------------------------------------
(* The identities of the rows of a snapshot.                                *)
(****************************************************************************)

LEMMA Unambiguous ==
    ASSUME NEW rows, IsFiniteSet(rows), \A r, q \in rows : ResourceIdentity(r) = ResourceIdentity(q) => r = q
    PROVE  ~Ambiguous(rows)
<1> DEFINE f == [row \in rows |-> ResourceIdentity(row)]
           names == {ResourceIdentity(row) : row \in rows}
<1>1. f \in Bijection(rows, names)
  BY DEF Bijection, Injection, Surjection, IsInjective
<1>2. Cardinality(names) = Cardinality(rows) /\ Cardinality(rows) \in Nat
  <2>1. ExistsBijection(rows, names)
    BY <1>1 DEF ExistsBijection
  <2> HIDE DEF f, names
  <2> QED BY <2>1, FS_Bijection, FS_CardinalityType
<1> QED BY <1>2 DEF Ambiguous

\* The part of an identity that is not the start of a process.
AtOnePlace(r, q) == r.env = q.env /\ r.kind = q.kind /\ r.source = q.source /\ r.id = q.id

LEMMA IdentityPlaces == \A r, q : ResourceIdentity(r) = ResourceIdentity(q) => AtOnePlace(r, q)
BY DEF ResourceIdentity, AtOnePlace

Apart(rows) == \A r, q \in rows : AtOnePlace(r, q) => r = q

LEMMA OneElement == \A x, y : <<x>> = <<y>> => x = y
OBVIOUS

LEMMA GuestRowsApart == HeldInv => Apart(Builds.rows)
<1> SUFFICES ASSUME HeldInv, NEW r \in Builds.rows, NEW q \in Builds.rows, AtOnePlace(r, q) PROVE r = q
  BY DEF Apart
<1>1. ASSUME NEW row \in Builds.rows
      PROVE  \/ row \in Guests /\ row.env = "wsl" /\ row.id = <<1>>
             \/ \E s \in ViewSources : row = AsWsl(BuildRow(s)) /\ row.source = s /\ row.id = <<2>>
  <2>1. (row \in Guests /\ ~IsBuildRow(row)) \/ \E b \in Guests : IsBuildRow(b) /\ row = AsWsl(b)
    BY DEF Builds, TakeUsage, AsWsl
  <2> QED BY <2>1, GuestShapes
<1>2. <<1>> # <<2>>
  OBVIOUS
<1> QED BY <1>1, <1>2, GuestsHeld DEF AtOnePlace

LEMMA BuildHeadsApart == HeldInv => Apart(BuildHeads)
<1> SUFFICES ASSUME HeldInv, NEW r \in BuildHeads, NEW q \in BuildHeads, r.id = q.id PROVE r = q
  BY DEF Apart, AtOnePlace
<1> DEFINE builds == {row \in Guests : IsBuildRow(row)}
           Of(source) == {row \in builds : row.source = source}
<1>1. ASSUME NEW head \in BuildHeads PROVE head = Executor(head.id, Of(head.id)).resource
  <2>1. PICK item \in Builds.containers : head = item.resource
    BY DEF BuildHeads
  <2>2. PICK source : item = Executor(source, Of(source))
    BY <2>1 DEF Builds, TakeUsage
  <2>3. item.resource.id = source
    BY <2>2 DEF Executor, Row
  <2> QED BY <2>1, <2>2, <2>3
<1> QED BY <1>1

LEMMA BelowApart == HeldInv => Apart(Below)
<1> SUFFICES ASSUME HeldInv, NEW r \in Below, NEW q \in Below, AtOnePlace(r, q) PROVE r = q
  BY DEF Apart
<1>1. ASSUME NEW row \in Below
      PROVE  \/ \E runtime, id : row = ProcessRowOf(runtime, id) /\ row.env = runtime /\ row.source = <<id>>
             \/ \E s \in ViewSources : row = BuildRow(s) /\ row.source = BuildSource(s, 9)
  <2>1. ASSUME NEW runtime, NEW id, row = ProcessRowOf(runtime, id)
        PROVE  row.env = runtime /\ row.source = <<id>>
    BY <2>1 DEF ProcessRowOf, Row
  <2>2. ASSUME row \in Guests, IsBuildRow(row)
        PROVE  \E s \in ViewSources : row = BuildRow(s) /\ row.source = BuildSource(s, 9)
    BY <2>2, GuestShapes
  <2> QED BY <2>1, <2>2, BelowAre
<1>3. ASSUME NEW s \in ViewSources, NEW d \in ViewSources, BuildSource(s, 9) = BuildSource(d, 9) PROVE s = d
  BY <1>3, ViewSourceIs
<1> QED BY <1>1, <1>3, BuildIsNoContainer, OneElement DEF AtOnePlace

LEMMA BelowFinite == HeldInv => IsFiniteSet(Below)
<1> SUFFICES ASSUME HeldInv PROVE IsFiniteSet(Below)
  OBVIOUS
<1> DEFINE h(runtime) == [id \in ViewIds |-> ProcessRowOf(runtime, id)]
<1>1. \A runtime : IsFiniteSet({h(runtime)[id] : id \in ViewIds})
  BY ViewAssumption, ImageFinite, ZenonT(40)
<1>2. \A runtime : \A id \in ViewIds : ProcessRowOf(runtime, id) = h(runtime)[id]
  OBVIOUS
<1> HIDE DEF h
<1>3. Below \subseteq {h("docker")[id] : id \in ViewIds} \cup {h("wslc")[id] : id \in ViewIds} \cup Guests
  BY <1>2, BelowAre
<1>4. IsFiniteSet(Guests)
  BY GuestsHeld DEF Rated
<1>5. PICK x, y, z : /\ x = {h("docker")[id] : id \in ViewIds} /\ y = {h("wslc")[id] : id \in ViewIds} /\ z = Guests
  OBVIOUS
<1>6. IsFiniteSet((x \cup y) \cup z)
  BY <1>1, <1>4, <1>5, FS_Union
<1> QED BY <1>3, <1>5, <1>6, FS_Subset

\* Everything in a snapshot of the stream is a row of one of these.
LEMMA CatalogIs ==
    ASSUME HeldInv
    PROVE  CatalogRows(StreamAssembled) \subseteq
               Builds.rows \cup held.windows \cup held.wslc \cup Containers \cup BuildHeads \cup Below \cup Apps
<1> DEFINE All == Builds.rows \cup held.windows \cup held.wslc \cup Containers \cup BuildHeads \cup Below \cup Apps
           docker == held.docker \cup Builds.containers
           hosts == {row \in held.windows : IsHostResource(row)}
           apps == GroupProcesses(held.windows, held.metadata)
           bare == BuildTree(hosts, Builds.rows, held.wslc, docker)
           shown == Builds.rows \cup held.windows \cup held.wslc \cup {item.resource : item \in docker}
                    \cup UNION {item.processes : item \in held.lists \cup docker}
           seen == [AttachWslcProcesses(bare, held.lists) EXCEPT !.applications = apps]
<1>0. StreamAssembled = [resources |-> ApplicationView(shown, apps), pids |-> shown, cpus |-> 1, tree |-> seen]
  BY Zenon DEF StreamAssembled, Builds, Guests
<1>1. PICK snapshot, tree, rows :
          /\ snapshot = StreamAssembled /\ tree = snapshot.tree /\ rows = shown
          /\ snapshot.resources = ApplicationView(rows, apps) /\ snapshot.pids = rows /\ tree = seen
  <2> HIDE DEF shown, seen, apps
  <2> QED BY <1>0
<1>2. /\ tree.groups = bare.groups /\ tree.unmapped = bare.unmapped /\ tree.docker = bare.docker
      /\ tree.wslc = {ContainerGroup(item) : item \in held.lists} /\ tree.applications = apps
  BY <1>1 DEF AttachWslcProcesses, BuildTree
<1>3. {item.resource : item \in docker} = Containers \cup BuildHeads
      /\ UNION {item.processes : item \in held.lists \cup docker} = Below
  BY DEF Containers, BuildHeads, Below
<1>4. snapshot.resources \cup snapshot.pids \subseteq All
  <2>1. rows \subseteq All
    BY <1>1, <1>3
  <2>2. {a.resource : a \in apps} \subseteq All
    BY DEF Apps
  <2> HIDE DEF All, apps
  <2> QED BY <1>1, <2>1, <2>2 DEF ApplicationView
<1>5. /\ tree.unmapped \subseteq All
      /\ \A g \in tree.groups : g.host \in All /\ g.children \subseteq All
  <2>0. \A owners, children :
            /\ AddGroups(owners, children).unmapped \subseteq children
            /\ \A g \in AddGroups(owners, children).groups : g.host \in owners /\ g.children \subseteq children
    BY DEF AddGroups, MakeGroup
  <2>3. PICK vm, sessions :
            /\ vm = AddGroups({h \in hosts : h.name \in Vmmem}, Builds.rows)
            /\ sessions = AddGroups({h \in hosts : h.name \in VmmemWslc}, held.wslc)
            /\ bare.groups = vm.groups \cup sessions.groups /\ bare.unmapped = vm.unmapped \cup sessions.unmapped
    BY DEF BuildTree
  <2>1. bare.unmapped \subseteq Builds.rows \cup held.wslc
    BY <2>0, <2>3
  <2>2. \A g \in bare.groups : g.host \in held.windows /\ g.children \subseteq Builds.rows \cup held.wslc
    <3> HIDE DEF bare
    <3> QED BY <2>0, <2>3
  <2> HIDE DEF bare
  <2> QED BY <1>2, <2>1, <2>2
<1>6. \A g \in tree.docker \cup tree.wslc : g.container \in All /\ g.children \subseteq All
  <2>1. \A item : ContainerGroup(item).container = item.resource /\ ContainerGroup(item).children = item.processes
    BY DEF ContainerGroup
  <2>2. bare.docker = {ContainerGroup(item) : item \in docker}
    BY DEF BuildTree
  <2>3. \A item \in held.lists \cup docker : item.resource \in All /\ item.processes \subseteq All
    <3>1. \A item \in held.lists : item.resource \in held.wslc
      BY DEF HeldInv, ItemsOK
    <3> QED BY <1>3, <3>1
  <2> HIDE DEF bare, docker, All
  <2> QED BY <1>2, <2>1, <2>2, <2>3
<1>7. \A a \in tree.applications : a.resource \in All /\ a.processes \subseteq All
  <2>1. \A a \in apps : a.resource \in Apps /\ a.processes \subseteq held.windows
    <3> SUFFICES ASSUME NEW a \in apps PROVE a.resource \in Apps /\ a.processes \subseteq held.windows
      OBVIOUS
    <3>1. PICK resource, key :
              a = [resource |-> resource,
                   processes |-> {row \in {row \in held.windows : IsProcess(row)} :
                                      ApplicationIdentity(row, held.windows, held.metadata) = key}]
      BY DEF GroupProcesses
    <3>2. a.processes \subseteq held.windows
      BY <3>1
    <3> QED BY <3>2 DEF Apps
  <2> HIDE DEF apps
  <2> QED BY <1>2, <2>1
<1>8. \A r \in Relations(tree) : r[1] \in All /\ r[2] \subseteq All
  <2> HIDE DEF All
  <2> QED BY <1>5, <1>6, <1>7 DEF Relations
<1> HIDE DEF All
<1>9. CatalogRows(snapshot) \subseteq All
  <2>1. PICK R : R = Relations(snapshot.tree)
    OBVIOUS
  <2>2. UNION {{r[1]} \cup r[2] : r \in R} \subseteq All
    <3> SUFFICES ASSUME NEW x \in UNION {{r[1]} \cup r[2] : r \in R} PROVE x \in All
      OBVIOUS
    <3>1. PICK r \in R : x \in {r[1]} \cup r[2]
      OBVIOUS
    <3>2. r[1] \in All /\ r[2] \subseteq All
      BY <1>1, <1>8, <2>1
    <3> QED BY <3>1, <3>2
  <2> QED BY <1>1, <1>4, <1>5, <2>1, <2>2 DEF CatalogRows
<1> QED BY <1>1, <1>9 DEF All

\* Whatever the aggregator holds, no two rows of a snapshot have one identity, and
\* the WSLC containers that the tree shows are those of the list (stream.rs:287).
THEOREM StreamOneRowEach == ViewSpec => []OneRowEach
<1>1. HeldInv => OneRowEach
  <2> SUFFICES ASSUME HeldInv PROVE OneRowEach
    OBVIOUS
  <2>1. PICK a, b, c, d, e, f, g, All :
            /\ a = Builds.rows /\ b = held.windows /\ c = held.wslc /\ d = Containers /\ e = BuildHeads /\ f = Below /\ g = Apps
            /\ All = a \cup b \cup c \cup d \cup e \cup f \cup g
    OBVIOUS
  <2>2. /\ Apart(a) /\ Apart(b) /\ Apart(c) /\ Apart(d) /\ Apart(e) /\ Apart(f) /\ Apart(g)
        /\ IsFiniteSet(a) /\ IsFiniteSet(b) /\ IsFiniteSet(c) /\ IsFiniteSet(d) /\ IsFiniteSet(e) /\ IsFiniteSet(f)
        /\ IsFiniteSet(g)
    <3>1. Rated(b) /\ Apart(b)
      BY <2>1 DEF HeldInv, WindowsOK, Rated, Apart, AtOnePlace
    <3>2. Rated(g) /\ Apart(g)
      <4>1. Rated(Apps) /\ \A x, y \in Apps : x.id = y.id => x = y
        BY <2>1, <3>1, ApplicationCpu DEF Apps
      <4> QED BY <2>1, <4>1 DEF Apart, AtOnePlace
    <3>3. Apart(c) /\ Apart(d)
      BY <2>1, ContainersHeld, ContainersHaveIds DEF HeldInv, Apart, AtOnePlace
    <3>4. Rated(a) /\ Rated(c) /\ Rated(d) /\ Rated(e)
      BY <2>1, BuildsOfGuests, ContainersHeld, ContainersCounted DEF HeldInv
    <3> QED BY <2>1, <3>1, <3>2, <3>3, <3>4, GuestRowsApart, BuildHeadsApart, BelowApart, BelowFinite DEF Rated
  <2>3. IsFiniteSet(All)
    BY <2>1, <2>2, FS_Union
  <2>4. /\ \A row \in a : row.env = "wsl"
        /\ \A row \in b : row.env = "windows" /\ row.kind \in {"host", "process"}
        /\ \A row \in c : row.env = "wslc" /\ row.kind = "container"
        /\ \A row \in d : row.env = "docker" /\ row.kind = "container" /\ \E id \in ViewIds : row.id = <<id>>
        /\ \A row \in e : row.env = "docker" /\ row.kind = "container" /\ \E s \in ViewSources : row.id = BuildSource(s, 9)
        /\ \A row \in f : row.env \in {"docker", "wslc"} /\ row.kind = "process"
        /\ \A row \in g : row.env = "windows" /\ row.kind = "application"
    <3>1. Rated(b)
      BY <2>1 DEF HeldInv, WindowsOK, Rated
    <3>2. \A row \in g : row.env = "windows" /\ row.kind = "application"
      BY <2>1, <3>1, ApplicationCpu DEF Apps
    <3>3. ContainersOK(c, "wslc") /\ ContainersOK(d, "docker")
      BY <2>1, ContainersHeld DEF HeldInv
    <3>4. \A row \in b : row.env = "windows" /\ row.kind \in {"host", "process"}
      BY <2>1 DEF HeldInv, WindowsOK
    <3> QED BY <2>1, <3>2, <3>3, <3>4, BuildsOfGuests, BelowAre, ContainersCounted
  <2>5. \A r \in d, q \in e : r.id # q.id
    BY <2>4, BuildIsNoContainer
  <2>6. Apart(All)
    BY <2>1, <2>2, <2>4, <2>5 DEF Apart, AtOnePlace
  <2>7. PICK rows : rows = CatalogRows(StreamAssembled)
    OBVIOUS
  <2>8. rows \subseteq All
    BY <2>1, <2>7, CatalogIs
  <2>9. ~Ambiguous(rows)
    <3>1. IsFiniteSet(rows)
      BY <2>3, <2>8, FS_Subset
    <3>2. \A r, q \in rows : ResourceIdentity(r) = ResourceIdentity(q) => r = q
      BY <2>6, <2>8, IdentityPlaces DEF Apart
    <3> QED BY <3>1, <3>2, Unambiguous
  <2>10. {h.container : h \in StreamAssembled.tree.wslc} \subseteq held.wslc
    <3>1. StreamAssembled.tree.wslc = {ContainerGroup(item) : item \in held.lists}
      BY DEF StreamAssembled, AttachWslcProcesses, BuildTree
    <3>2. \A item \in held.lists : ContainerGroup(item).container \in held.wslc
      BY DEF ContainerGroup, HeldInv, ItemsOK
    <3> QED BY <3>1, <3>2
  <2> QED BY <2>7, <2>9, <2>10 DEF OneRowEach
<1> QED BY <1>1, HeldInvariant, PTL

\* Both: the list of a snapshot shows every resource, and all of its CPU, exactly
\* once, in whatever order and at whatever age the events came (stream.rs:287,
\* stream.rs:373).
THEOREM StreamListShowsOnce == ViewSpec => []ListShowsOnce
<1>1. OneRowEach /\ StreamConservesCpu => ListShowsOnce
  BY DEF ListShowsOnce
<1> QED BY <1>1, StreamOneRowEach, StreamListConservesCpu, PTL

-----------------------------------------------------------------------------
(* The order of rows.                                                       *)
(****************************************************************************)

\* Where two sequences differ first, if the shorter is not the beginning of the other.
LEMMA LexTotal ==
    ASSUME NEW s \in Seq(Int), NEW t \in Seq(Int), s # t
    PROVE  LexLess(s, t) \/ LexLess(t, s)
<1> DEFINE Differ == {i \in Nat \ {0} : i =< Len(s) /\ i =< Len(t) /\ s[i] # t[i]}
<1>1. Len(s) \in Nat /\ Len(t) \in Nat /\ (\A i \in 1 .. Len(s) : s[i] \in Int) /\ \A i \in 1 .. Len(t) : t[i] \in Int
  OBVIOUS
<1>2. CASE Differ # {}
  <2>1. PICK i \in Differ : \A j \in Differ : i =< j
    BY <1>2, LeastNatural
  <2>2. PICK n \in Nat : i = n + 1
    <3>1. i - 1 \in Nat /\ i = (i - 1) + 1
      OBVIOUS
    <3> QED BY <3>1
  <2>3. \A j \in 1 .. n : s[j] = t[j]
    <3> TAKE j \in 1 .. n
    <3>1. j \in Nat \ {0} /\ ~(i =< j) /\ j =< Len(s) /\ j =< Len(t)
      BY <1>1, <2>1, <2>2
    <3> QED BY <2>1, <3>1
  <2>4. n + 1 =< Len(s) /\ n + 1 =< Len(t) /\ (s[n + 1] < t[n + 1] \/ t[n + 1] < s[n + 1])
    BY <1>1, <2>2
  <2>5. n \in 0 .. (Len(t) - 1) /\ n \in 0 .. (Len(s) - 1) /\ n =< Len(s) /\ n =< Len(t)
    BY <1>1, <2>4
  <2>6. CASE s[n + 1] < t[n + 1]
    <3>1. \E m \in 0 .. (Len(t) - 1) : m =< Len(s) /\ (\A j \in 1 .. m : s[j] = t[j]) /\ (m = Len(s) \/ s[m + 1] < t[m + 1])
      BY <2>3, <2>5, <2>6
    <3> QED BY <3>1 DEF LexLess
  <2>7. CASE t[n + 1] < s[n + 1]
    <3>1. \A j \in 1 .. n : t[j] = s[j]
      BY <2>3
    <3>2. \E m \in 0 .. (Len(s) - 1) : m =< Len(t) /\ (\A j \in 1 .. m : t[j] = s[j]) /\ (m = Len(t) \/ t[m + 1] < s[m + 1])
      BY <2>5, <2>7, <3>1
    <3> QED BY <3>2 DEF LexLess
  <2> QED BY <2>4, <2>6, <2>7
<1>3. CASE Differ = {}
  <2>1. \A i \in Nat \ {0} : i =< Len(s) /\ i =< Len(t) => s[i] = t[i]
    BY <1>3
  <2>2. Len(s) # Len(t)
    <3>1. ASSUME Len(s) = Len(t) PROVE s = t
      <4>1. \A i \in 1 .. Len(s) : i \in Nat \ {0} /\ i =< Len(s) /\ i =< Len(t)
        BY <1>1, <3>1
      <4>2. \A i \in 1 .. Len(s) : s[i] = t[i]
        BY <2>1, <4>1
      <4> QED BY <3>1, <4>2, SeqEqual
    <3> QED BY <3>1
  <2>3. CASE Len(s) < Len(t)
    <3>1. PICK n : n = Len(s)
      OBVIOUS
    <3>2. n \in 0 .. (Len(t) - 1) /\ n =< Len(s)
      BY <1>1, <2>3, <3>1
    <3>3. \A i \in 1 .. n : s[i] = t[i]
      <4> TAKE i \in 1 .. n
      <4>1. i \in Nat \ {0} /\ i =< Len(s) /\ i =< Len(t)
        BY <1>1, <2>3, <3>1
      <4> QED BY <2>1, <4>1
    <3> QED BY <3>1, <3>2, <3>3 DEF LexLess
  <2>4. CASE Len(t) < Len(s)
    <3>1. PICK n : n = Len(t)
      OBVIOUS
    <3>2. n \in 0 .. (Len(s) - 1) /\ n =< Len(t)
      BY <1>1, <2>4, <3>1
    <3>3. \A i \in 1 .. n : t[i] = s[i]
      <4> TAKE i \in 1 .. n
      <4>1. i \in Nat \ {0} /\ i =< Len(s) /\ i =< Len(t)
        BY <1>1, <2>4, <3>1
      <4> QED BY <2>1, <4>1
    <3> QED BY <3>1, <3>2, <3>3 DEF LexLess
  <2> QED BY <1>1, <2>2, <2>3, <2>4
<1> QED BY <1>2, <1>3

LEMMA LexIrreflexive == \A s \in Seq(Int) : ~LexLess(s, s)
<1> SUFFICES ASSUME NEW s \in Seq(Int), LexLess(s, s) PROVE FALSE
  OBVIOUS
<1>1. Len(s) \in Nat /\ \A i \in 1 .. Len(s) : s[i] \in Int
  OBVIOUS
<1>2. PICK n \in 0 .. (Len(s) - 1) : n = Len(s) \/ s[n + 1] < s[n + 1]
  BY DEF LexLess
<1> QED BY <1>1, <1>2

LEMMA LexTransitive ==
    ASSUME NEW s \in Seq(Int), NEW t \in Seq(Int), NEW u \in Seq(Int), LexLess(s, t), LexLess(t, u)
    PROVE  LexLess(s, u)
<1>1. /\ Len(s) \in Nat /\ Len(t) \in Nat /\ Len(u) \in Nat
      /\ \A i \in 1 .. Len(s) : s[i] \in Int
      /\ \A i \in 1 .. Len(t) : t[i] \in Int
      /\ \A i \in 1 .. Len(u) : u[i] \in Int
  OBVIOUS
<1>2. PICK a, b, c : a = Len(s) /\ b = Len(t) /\ c = Len(u)
  OBVIOUS
<1>3. PICK n \in 0 .. (b - 1) : n =< a /\ (\A i \in 1 .. n : s[i] = t[i]) /\ (n = a \/ s[n + 1] < t[n + 1])
  BY <1>2 DEF LexLess
<1>4. PICK m \in 0 .. (c - 1) : m =< b /\ (\A i \in 1 .. m : t[i] = u[i]) /\ (m = b \/ t[m + 1] < u[m + 1])
  BY <1>2 DEF LexLess
<1>5. n \in Nat /\ m \in Nat /\ n < b /\ m < c
  BY <1>1, <1>2, <1>3, <1>4
<1>6. CASE n < m
  <2>1. t[n + 1] = u[n + 1] /\ n \in 0 .. (c - 1) /\ \A i \in 1 .. n : s[i] = u[i]
    <3>1. n + 1 \in 1 .. m /\ n \in 0 .. (c - 1) /\ \A i \in 1 .. n : i \in 1 .. m
      <4>1. c \in Nat
        BY <1>1, <1>2
      <4> QED BY <1>5, <1>6, <4>1
    <3> QED BY <1>3, <1>4, <3>1
  <2> QED BY <1>2, <1>3, <2>1 DEF LexLess
<1>7. CASE m < n
  <2>1. s[m + 1] = t[m + 1] /\ m # b /\ m =< a /\ \A i \in 1 .. m : s[i] = u[i]
    <3>1. m + 1 \in 1 .. n /\ m # b /\ \A i \in 1 .. m : i \in 1 .. n
      BY <1>1, <1>2, <1>5, <1>7
    <3>2. m =< a
      BY <1>1, <1>2, <1>3, <1>5, <1>7
    <3> QED BY <1>3, <1>4, <3>1, <3>2
  <2> QED BY <1>2, <1>4, <2>1 DEF LexLess
<1>8. CASE m = n
  <2>1. m # b /\ t[m + 1] < u[m + 1] /\ t[m + 1] \in Int /\ u[m + 1] \in Int /\ \A i \in 1 .. m : s[i] = u[i]
    BY <1>1, <1>2, <1>3, <1>4, <1>5, <1>8
  <2>2. n = a \/ s[m + 1] < u[m + 1]
    <3>1. n # a => s[m + 1] \in Int
      BY <1>1, <1>2, <1>3, <1>5, <1>8
    <3> QED BY <1>3, <1>8, <2>1, <3>1
  <2> QED BY <1>2, <1>3, <1>4, <1>8, <2>1, <2>2 DEF LexLess
<1> QED BY <1>5, <1>6, <1>7, <1>8

\* Rows of which every part can be compared.
SortableRows ==
    [env : Environments, source : Seq(Int), kind : DOMAIN KindRank, id : Seq(Int),
     start : Int, name : Int, cpu : Int, memory : Int]
\* What a row is compared by, in turn; the first of them in either direction.
RowKeys(sort, row) == <<Selected(row, sort.key), Identity(row), row.source, row.id, <<row.start>>>>

Lower(sort, n, x, y) == IF n = 1 /\ sort.order = "desc" THEN LexLess(y, x) ELSE LexLess(x, y)

LEMMA LowerOrders ==
    ASSUME NEW sort, NEW n
    PROVE  /\ \A x \in Seq(Int) : ~Lower(sort, n, x, x)
           /\ \A x, y \in Seq(Int) : x # y => Lower(sort, n, x, y) \/ Lower(sort, n, y, x)
           /\ \A x, y, z \in Seq(Int) : Lower(sort, n, x, y) /\ Lower(sort, n, y, z) => Lower(sort, n, x, z)
BY LexIrreflexive, LexTotal, LexTransitive DEF Lower

LEMMA RowKeysAre ==
    ASSUME NEW sort \in Sorts, NEW row \in SortableRows
    PROVE  \A n \in 1 .. 5 : RowKeys(sort, row)[n] \in Seq(Int)
<1>1. Selected(row, sort.key) \in Seq(Int)
  <2>1. sort.key \in {"cpu", "memory", "name"} /\ row.cpu \in Int /\ row.memory \in Int /\ row.name \in Int
    BY DEF Sorts, SortKeys, SortableRows
  <2>2. /\ sort.key = "cpu" => Selected(row, sort.key) = <<row.cpu, row.memory>>
        /\ sort.key = "memory" => Selected(row, sort.key) = <<row.memory, row.cpu>>
        /\ sort.key = "name" => Selected(row, sort.key) = <<row.name>>
    BY DEF Selected
  <2>3. \A x, y \in Int : <<x, y>> \in Seq(Int) /\ <<x>> \in Seq(Int)
    OBVIOUS
  <2> QED BY <2>1, <2>2, <2>3
<1>2. Identity(row) \in Seq(Int)
  <2>1. row.name \in Int /\ EnvironmentRank[row.env] \in Int /\ KindRank[row.kind] \in Int
    BY DEF SortableRows, Environments, EnvironmentRank, KindRank
  <2> QED BY <2>1 DEF Identity
<1>3. row.source \in Seq(Int) /\ row.id \in Seq(Int) /\ <<row.start>> \in Seq(Int)
  BY DEF SortableRows
<1>4. /\ RowKeys(sort, row)[1] = Selected(row, sort.key) /\ RowKeys(sort, row)[2] = Identity(row)
      /\ RowKeys(sort, row)[3] = row.source /\ RowKeys(sort, row)[4] = row.id /\ RowKeys(sort, row)[5] = <<row.start>>
  BY DEF RowKeys
<1>5. \A n \in 1 .. 5 : n = 1 \/ n = 2 \/ n = 3 \/ n = 4 \/ n = 5
  OBVIOUS
<1> QED BY <1>1, <1>2, <1>3, <1>4, <1>5

LEMMA PrecedesIs ==
    ASSUME NEW sort \in Sorts, NEW a, NEW b
    PROVE  Precedes(sort, a, b) <=>
               \E n \in 1 .. 5 : /\ Lower(sort, n, RowKeys(sort, a)[n], RowKeys(sort, b)[n])
                                 /\ \A m \in 1 .. (n - 1) : RowKeys(sort, a)[m] = RowKeys(sort, b)[m]
<1>1. PICK keys : keys = Comparison(sort, a, b)
  OBVIOUS
<1>2. PICK x, y : x = RowKeys(sort, a) /\ y = RowKeys(sort, b)
  OBVIOUS
<1>3. DOMAIN keys = 1 .. 5
  BY <1>1 DEF Comparison
<1>4. \A n \in 1 .. 5 : /\ LexLess(keys[n][1], keys[n][2]) <=> Lower(sort, n, x[n], y[n])
                        /\ keys[n][1] = keys[n][2] <=> x[n] = y[n]
  <2>1. sort.order \in {"asc", "desc"}
    BY DEF Sorts
  <2>2. /\ keys[1] = IF sort.order = "asc" THEN <<x[1], y[1]>> ELSE <<y[1], x[1]>>
        /\ keys[2] = <<x[2], y[2]>> /\ keys[3] = <<x[3], y[3]>> /\ keys[4] = <<x[4], y[4]>> /\ keys[5] = <<x[5], y[5]>>
    BY <1>1, <1>2 DEF Comparison, RowKeys
  <2>3. \A n \in 1 .. 5 : n = 1 \/ n = 2 \/ n = 3 \/ n = 4 \/ n = 5
    OBVIOUS
  <2>4. /\ keys[1][1] = (IF sort.order = "asc" THEN x[1] ELSE y[1]) /\ keys[1][2] = (IF sort.order = "asc" THEN y[1] ELSE x[1])
        /\ \A n \in 2 .. 5 : keys[n][1] = x[n] /\ keys[n][2] = y[n]
    BY <2>2
  <2> QED BY <2>1, <2>3, <2>4 DEF Lower
<1>5. Precedes(sort, a, b) <=> \E n \in 1 .. 5 : /\ LexLess(keys[n][1], keys[n][2])
                                               /\ \A m \in 1 .. (n - 1) : keys[m][1] = keys[m][2]
  BY <1>1, <1>3 DEF Precedes
<1>6. \A n \in 1 .. 5 : \A m \in 1 .. (n - 1) : m \in 1 .. 5
  OBVIOUS
<1> QED BY <1>2, <1>4, <1>5, <1>6

\* The order of rows is strict and transitive, and it decides between any two that
\* differ in more than their metrics and name, in every sort: what a limit cuts off
\* does not depend on the order in which rows were collected (query.rs:75).
THEOREM RowsTotallyOrdered ==
    ASSUME NEW sort \in Sorts, NEW a \in SortableRows, NEW b \in SortableRows, NEW c \in SortableRows
    PROVE  /\ ~Precedes(sort, a, a)
           /\ Precedes(sort, a, b) => ~Precedes(sort, b, a)
           /\ Precedes(sort, a, b) /\ Precedes(sort, b, c) => Precedes(sort, a, c)
           /\ <<a.env, a.source, a.kind, a.id, a.start>> # <<b.env, b.source, b.kind, b.id, b.start>> =>
                  Precedes(sort, a, b) \/ Precedes(sort, b, a)
<1>1. ASSUME NEW r \in SortableRows PROVE ~Precedes(sort, r, r)
  <2> SUFFICES ASSUME Precedes(sort, r, r) PROVE FALSE
    OBVIOUS
  <2>1. PICK n \in 1 .. 5 : Lower(sort, n, RowKeys(sort, r)[n], RowKeys(sort, r)[n])
    BY PrecedesIs
  <2> QED BY <2>1, RowKeysAre, LowerOrders
<1>2. ASSUME NEW r \in SortableRows, NEW s \in SortableRows, NEW t \in SortableRows,
             Precedes(sort, r, s), Precedes(sort, s, t)
      PROVE  Precedes(sort, r, t)
  <2>1. PICK x, y, z : x = RowKeys(sort, r) /\ y = RowKeys(sort, s) /\ z = RowKeys(sort, t)
    OBVIOUS
  <2>2. \A i \in 1 .. 5 : x[i] \in Seq(Int) /\ y[i] \in Seq(Int) /\ z[i] \in Seq(Int)
    BY <2>1, RowKeysAre
  <2>3. PICK n \in 1 .. 5 : Lower(sort, n, x[n], y[n]) /\ \A i \in 1 .. (n - 1) : x[i] = y[i]
    BY <1>2, <2>1, PrecedesIs
  <2>4. PICK m \in 1 .. 5 : Lower(sort, m, y[m], z[m]) /\ \A i \in 1 .. (m - 1) : y[i] = z[i]
    BY <1>2, <2>1, PrecedesIs
  <2>5. PICK k \in 1 .. 5 : Lower(sort, k, x[k], z[k]) /\ \A i \in 1 .. (k - 1) : x[i] = z[i]
    <3>1. CASE n < m
      <4>1. y[n] = z[n] /\ \A i \in 1 .. (n - 1) : x[i] = z[i]
        BY <2>3, <2>4, <3>1
      <4> QED BY <2>3, <4>1
    <3>2. CASE m < n
      <4>1. x[m] = y[m] /\ \A i \in 1 .. (m - 1) : x[i] = z[i]
        BY <2>3, <2>4, <3>2
      <4> QED BY <2>4, <4>1
    <3>3. CASE n = m
      <4>1. \A i \in 1 .. (n - 1) : x[i] = z[i]
        BY <2>3, <2>4, <3>3
      <4>2. Lower(sort, n, x[n], z[n])
        BY <2>2, <2>3, <2>4, <3>3, LowerOrders
      <4> QED BY <4>1, <4>2
    <3> QED BY <3>1, <3>2, <3>3
  <2> QED BY <2>1, <2>5, PrecedesIs
<1>3. ASSUME <<a.env, a.source, a.kind, a.id, a.start>> # <<b.env, b.source, b.kind, b.id, b.start>>
      PROVE  Precedes(sort, a, b) \/ Precedes(sort, b, a)
  <2>1. PICK x, y : x = RowKeys(sort, a) /\ y = RowKeys(sort, b)
    OBVIOUS
  <2>2. \A i \in 1 .. 5 : x[i] \in Seq(Int) /\ y[i] \in Seq(Int)
    BY <2>1, RowKeysAre
  <2>3. \E i \in 1 .. 5 : x[i] # y[i]
    <3> SUFFICES ASSUME \A i \in 1 .. 5 : x[i] = y[i] PROVE FALSE
      OBVIOUS
    <3>1. x[2] = Identity(a) /\ y[2] = Identity(b) /\ x[3] = a.source /\ y[3] = b.source /\ x[4] = a.id /\ y[4] = b.id
          /\ x[5] = <<a.start>> /\ y[5] = <<b.start>>
      BY <2>1 DEF RowKeys
    <3>2. Identity(a) = Identity(b) /\ a.source = b.source /\ a.id = b.id /\ a.start = b.start
      BY <3>1
    <3>3. EnvironmentRank[a.env] = EnvironmentRank[b.env] /\ KindRank[a.kind] = KindRank[b.kind]
      BY <3>2 DEF Identity
    <3>4. a.env = b.env
      <4>1. /\ EnvironmentRank["windows"] = 0 /\ EnvironmentRank["wsl"] = 1
            /\ EnvironmentRank["wslc"] = 2 /\ EnvironmentRank["docker"] = 3
        BY DEF EnvironmentRank
      <4>2. a.env \in {"windows", "wsl", "wslc", "docker"} /\ b.env \in {"windows", "wsl", "wslc", "docker"}
        BY DEF SortableRows, Environments
      <4> QED BY <3>3, <4>1, <4>2
    <3>5. a.kind = b.kind
      <4>1. /\ KindRank["application"] = 0 /\ KindRank["container"] = 1 /\ KindRank["host"] = 2
            /\ KindRank["infra"] = 3 /\ KindRank["process"] = 4
        BY DEF KindRank
      <4>2. DOMAIN KindRank = {"application", "container", "host", "infra", "process"}
        BY DEF KindRank
      <4>3. a.kind \in DOMAIN KindRank /\ b.kind \in DOMAIN KindRank
        BY DEF SortableRows
      <4> QED BY <3>3, <4>1, <4>2, <4>3
    <3> QED BY <1>3, <3>2, <3>4, <3>5
  <2>4. PICK n \in 1 .. 5 : x[n] # y[n] /\ \A i \in 1 .. (n - 1) : x[i] = y[i]
    <3> DEFINE Differ == {i \in 1 .. 5 : x[i] # y[i]}
    <3>1. PICK n \in Differ : \A i \in Differ : n =< i
      BY <2>3, LeastNatural
    <3>2. \A i \in 1 .. (n - 1) : i \in 1 .. 5 /\ ~(n =< i)
      OBVIOUS
    <3> QED BY <3>1, <3>2
  <2>5. Lower(sort, n, x[n], y[n]) \/ Lower(sort, n, y[n], x[n])
    BY <2>2, <2>4, LowerOrders
  <2> QED BY <2>1, <2>4, <2>5, PrecedesIs
<1> QED BY <1>1, <1>2, <1>3

\* The order of any three rows in any sort, as the cases ask for it.
THEOREM RowOrderIsTotal ==
    ASSUME case.sort \in Sorts, case.triple \in [1 .. 3 -> SortableRows]
    PROVE  OrderIsTotal
<1> DEFINE r(i) == case.triple[i]
           s == case.sort
<1>1. s \in Sorts /\ r(1) \in SortableRows /\ r(2) \in SortableRows /\ r(3) \in SortableRows
  OBVIOUS
<1>2. Place(r(1)) # Place(r(2)) => Precedes(s, r(1), r(2)) \/ Precedes(s, r(2), r(1))
  BY <1>1, RowsTotallyOrdered DEF Place
<1>3. ~(Precedes(s, r(1), r(2)) /\ Precedes(s, r(2), r(1)))
  BY <1>1, RowsTotallyOrdered
<1>4. Precedes(s, r(1), r(2)) /\ Precedes(s, r(2), r(3)) => Precedes(s, r(1), r(3))
  BY <1>1, RowsTotallyOrdered
<1> QED BY <1>2, <1>3, <1>4, Zenon DEF OrderIsTotal

-----------------------------------------------------------------------------
(* The partitions of a host.                                                *)
(****************************************************************************)
IsCounters(counters) == \E S : counters \in Seq([name : S, busy : Nat, total : Nat])

\* A share of some time is a natural number.
LEMMA PercentIs ==
    ASSUME NEW delta \in Nat, NEW elapsed \in Nat \ {0}, NEW n \in Nat \ {0}
    PROVE  CpuPercent(delta, elapsed, n) \in Nat
<1>1. PICK x, y : x = delta * Scale /\ y = elapsed * n
  OBVIOUS
<1>2. x \in Nat /\ y \in Nat /\ y > 0
  BY <1>1, ScanAssumption
<1>3. x \div y \in Nat
  BY <1>2
<1> QED BY <1>1, <1>3 DEF CpuPercent

\* A sum of natural numbers is one.
LEMMA SumNatural ==
    ASSUME NEW S, IsFiniteSet(S), NEW g, \A x \in S : g[x] \in Nat
    PROVE  SumFunctionOnSet(g, S) \in Nat
<1> DEFINE F == {T \in SUBSET S : SumFunctionOnSet(g, T) \in Nat}
<1>1. {} \in F
  <2>1. SumFunctionOnSet(g, {}) = 0
    BY FS_EmptySet, SumUnfolds
  <2> QED BY <2>1
<1>2. ASSUME NEW T \in SUBSET S, T # {}, \A x \in T : T \ {x} \in F PROVE T \in F
  <2>1. IsFiniteSet(T) /\ Term(T) \in T
    BY <1>2, FS_Subset, TermIn
  <2>2. SumFunctionOnSet(g, T) = g[Term(T)] + SumFunctionOnSet(g, T \ {Term(T)})
    BY <1>2, <2>1, SumUnfolds
  <2>3. g[Term(T)] \in Nat /\ SumFunctionOnSet(g, T \ {Term(T)}) \in Nat
    BY <1>2, <2>1
  <2> QED BY <2>2, <2>3
<1> HIDE DEF F
<1>3. S \in F
  BY <1>1, <1>2, SetsByRemoving
<1> QED BY <1>3 DEF F

\* What a partition used is a natural number, if it is known.
LEMMA PartitionIs ==
    ASSUME NEW before, NEW after, IsCounters(before), IsCounters(after), NEW n \in Nat \ {0}
    PROVE  PartitionUsage(before, after, n) \in Nat \cup {Absent}
<1> DEFINE names == CounterNames(after)
           Used(x) == CpuPercent(Named(after, x).busy - Named(before, x).busy,
                                 Named(after, x).total - Named(before, x).total, n)
           g == [x \in names |-> Used(x)]
<1>0. SUFFICES ASSUME CounterNames(before) = names, \A x \in names : Plausible(Named(before, x), Named(after, x))
               PROVE  MapThenSumSet(LAMBDA x : Used(x), names) \in Nat
  BY Zenon DEF PartitionUsage
<1>1. ASSUME NEW c, IsCounters(c), NEW x \in CounterNames(c)
      PROVE  Named(c, x).busy \in Nat /\ Named(c, x).total \in Nat
  <2>1. PICK S : c \in Seq([name : S, busy : Nat, total : Nat])
    BY <1>1 DEF IsCounters
  <2>2. \A i \in DOMAIN c : c[i].busy \in Nat /\ c[i].total \in Nat
    <3>1. PICK T : T = [name : S, busy : Nat, total : Nat]
      OBVIOUS
    <3>2. \A i \in DOMAIN c : c[i] \in T
      <4>1. c \in Seq(T)
        BY <2>1, <3>1
      <4> QED BY <4>1
    <3> QED BY <3>1, <3>2
  <2>3. \E i \in DOMAIN c : c[i].name = x
    BY DEF CounterNames
  <2>4. (CHOOSE i \in DOMAIN c : c[i].name = x) \in DOMAIN c
    BY <2>3
  <2> QED BY <2>2, <2>4 DEF Named
<1>2. ASSUME NEW x \in names PROVE g[x] \in Nat /\ g[x] = Used(x)
  <2>1. PICK b, a : b = Named(before, x) /\ a = Named(after, x)
    OBVIOUS
  <2>2. b.busy \in Nat /\ b.total \in Nat /\ a.busy \in Nat /\ a.total \in Nat /\ Plausible(b, a)
    BY <1>0, <1>1, <2>1
  <2>3. a.busy - b.busy \in Nat /\ a.total - b.total \in Nat \ {0}
    BY <2>2 DEF Plausible
  <2>4. CpuPercent(a.busy - b.busy, a.total - b.total, n) \in Nat
    BY <2>3, PercentIs
  <2> QED BY <2>1, <2>4
<1>3. IsFiniteSet(names)
  <2>1. PICK S : after \in Seq([name : S, busy : Nat, total : Nat])
    BY DEF IsCounters
  <2>2. DOMAIN after = 1 .. Len(after) /\ Len(after) \in Nat
    BY <2>1
  <2>3. PICK h : h = [i \in DOMAIN after |-> after[i].name]
    OBVIOUS
  <2>4. IsFiniteSet(DOMAIN after)
    BY <2>2, FS_Interval
  <2>5. IsFiniteSet({h[i] : i \in DOMAIN after})
    BY <2>4, ImageFinite
  <2>6. {h[i] : i \in DOMAIN after} = CounterNames(after)
    BY <2>3 DEF CounterNames
  <2> QED BY <2>5, <2>6
<1> DEFINE Folds(f) == f = [s \in SUBSET names |-> IF s = {} THEN 0 ELSE Used(Term(s)) + f[s \ {Term(s)}]]
<1>4. MapThenSumSet(LAMBDA x : Used(x), names) = (CHOOSE f : Folds(f))[names]
  <2> HIDE DEF names, Used
  <2> QED BY DEF MapThenSumSet, MapThenFoldSet, Term
<1>5. \A f : Folds(f) <=> IterIs(f, g, names)
  <2> TAKE f
  <2>1. \A s \in SUBSET names : s # {} => g[Term(s)] = Used(Term(s))
    BY TermIn
  <2> HIDE DEF names, Used, g
  <2>2. [s \in SUBSET names |-> IF s = {} THEN 0 ELSE Used(Term(s)) + f[s \ {Term(s)}]]
          = [s \in SUBSET names |-> IF s = {} THEN 0 ELSE g[Term(s)] + f[s \ {Term(s)}]]
    BY <2>1
  <2> QED BY <2>2 DEF IterIs
<1>6. PICK f : f = (CHOOSE h : Folds(h)) /\ IterIs(f, g, names)
  <2> HIDE DEF Folds
  <2>1. \E h : Folds(h)
    BY <1>3, <1>5, IterExists
  <2>2. Folds(CHOOSE h : Folds(h))
    BY <2>1
  <2> QED BY <1>5, <2>2
<1>7. f[names] = SumFunctionOnSet(g, names)
  <2> HIDE DEF Folds, names, g
  <2>1. PICK h : IterIs(h, g, names) /\ SumFunctionOnSet(g, names) = h[names]
    BY <1>3, IterExists, SumIs
  <2>2. names \in SUBSET names
    OBVIOUS
  <2> QED BY <1>3, <1>6, <2>1, <2>2, IterUnique
<1>8. SumFunctionOnSet(g, names) \in Nat
  <2> HIDE DEF names, g
  <2> QED BY <1>2, <1>3, SumNatural
<1> QED BY <1>4, <1>6, <1>7, <1>8

\* A breakdown of any two readings adds up to a total within the host, whatever the
\* counters of its partitions say (cpu_accounting.rs:70).
THEOREM PartitionsOfHostAddUp ==
    ASSUME \A s \in {case.before, case.after} : IsCounters(s.physical) /\ IsCounters(s.root) /\ IsCounters(s.guest)
    PROVE  PartitionsAddUp
<1> DEFINE b == case.before
           a == case.after
           usage == UsageSince(b, a, 1, Absent)
<1> SUFFICES ASSUME usage # Absent
             PROVE  /\ usage.total = usage.windows + usage.machines + usage.other
                    /\ {usage.total, usage.windows, usage.machines, usage.other} \subseteq 0 .. Scale
  BY Zenon DEF PartitionsAddUp
<1>1. PICK t, w, m : /\ t = PartitionUsage(b.physical, a.physical, 1)
                     /\ w = PartitionUsage(b.root, a.root, 1)
                     /\ m = PartitionUsage(b.guest, a.guest, 1)
  OBVIOUS
<1>2. t \in Nat \cup {Absent} /\ w \in Nat \cup {Absent} /\ m \in Nat \cup {Absent}
  <2>1. 1 \in Nat \ {0}
    OBVIOUS
  <2> QED BY <1>1, <2>1, PartitionIs
<1>3. usage = HyperV(b, a, 1)
  BY Zenon DEF UsageSince
<1>4. Absent \notin {t, w, m} /\ ~Overcounted(t, w + m) /\ usage = Breakdown(t, w, m)
  BY <1>1, <1>3 DEF HyperV
<1>5. t \in Nat /\ w \in Nat /\ m \in Nat /\ w + m =< t /\ t =< Scale
  BY <1>2, <1>4, ScanAssumption DEF Overcounted
<1>6. usage.total = t /\ usage.windows = w /\ usage.machines = m /\ usage.other = t - w - m
  BY <1>4 DEF Breakdown
<1> HIDE DEF usage
<1> QED BY <1>5, <1>6, ScanAssumption

-----------------------------------------------------------------------------
(* The statistics of WSLC.                                                  *)
(****************************************************************************)

\* Statistics that are called complete have a row and the memory of every container,
\* and each row keeps its details, whatever was printed of them (wslc.rs:44).
THEOREM CompleteStatisticsHaveEvery == CompleteMeansEvery
<1> DEFINE usage == WslcStats(case.stats, 1)
           listed == [id \in {s.id : s \in case.stats} |-> ContainerProcesses("wslc", id, case.tries, 1)]
           result == WithDetails(usage, listed)
<1>1. PICK warned, rows : usage = [available |-> TRUE, details |-> {}, warned |-> warned, rows |-> rows]
                          /\ warned = {<<"row", s.id>> : s \in {s \in case.stats : Doubtful(s)}}
                          /\ rows = {ContainerRow("wslc", s, LET m == ParseMemory(s.memory, WslcUnits) IN IF m = Bad THEN 0 ELSE m, 1) :
                                          s \in {s \in case.stats : ~Skipped(s)}}
  BY DEF WslcStats
<1> HIDE DEF usage, listed
<1>2. PICK more, details : /\ result.complete = (warned = {})
                           /\ result.usage = [available |-> TRUE, details |-> details, warned |-> more, rows |-> rows]
                           /\ {d.resource : d \in details} = rows
  <2> DEFINE unknown == {row \in usage.rows : IsFailed(listed[row.id[1]])}
             Known(row)  == UNION {old.processes : old \in {old \in usage.details : old.resource.id = row.id}}
             ListOf(row) == IF row \in unknown THEN Known(row) ELSE listed[row.id[1]].processes
             details == {[resource |-> row, processes |-> ListOf(row)] : row \in usage.rows}
             more == usage.warned \cup {<<"details", row.id[1]>> : row \in unknown}
  <2>1. PopulateProcesses(usage, listed) = [usage EXCEPT !.details = details, !.warned = more]
    BY DEF PopulateProcesses
  <2>2. {d.resource : d \in details} = usage.rows
    <3> DEFINE item(row) == [resource |-> row, processes |-> ListOf(row)]
    <3>1. \A row : item(row).resource = row
      OBVIOUS
    <3>2. details = {item(row) : row \in usage.rows}
      OBVIOUS
    <3> HIDE DEF item, details
    <3> QED BY <3>1, <3>2
  <2> HIDE DEF details, more
  <2>3. PopulateProcesses(usage, listed) = [available |-> TRUE, details |-> details, warned |-> more, rows |-> rows]
    BY <1>1, <2>1
  <2>4. result.complete = (warned = {}) /\ result.usage = PopulateProcesses(usage, listed)
    BY <1>1 DEF WithDetails
  <2> QED BY <1>1, <2>2, <2>3, <2>4
<1>3. ASSUME result.complete, NEW s \in case.stats
      PROVE  \E row \in rows : row.id = <<s.id>> /\ row.memory = ParseMemory(s.memory, WslcUnits)
  <2>1. PICK m : m = ParseMemory(s.memory, WslcUnits)
    OBVIOUS
  <2>2. ~Doubtful(s)
    BY <1>1, <1>2, <1>3
  <2>3. m # Bad /\ ~Skipped(s)
    BY <2>1, <2>2 DEF Doubtful
  <2>4. ContainerRow("wslc", s, m, 1) \in rows
    BY <1>1, <2>1, <2>3
  <2>5. ContainerRow("wslc", s, m, 1).id = <<s.id>> /\ ContainerRow("wslc", s, m, 1).memory = m
    BY DEF ContainerRow, Row
  <2> QED BY <2>1, <2>4, <2>5
<1>4. {d.resource : d \in result.usage.details} = result.usage.rows /\ result.usage.rows = rows
  BY <1>2
<1> QED BY <1>3, <1>4, Zenon DEF CompleteMeansEvery, usage, listed

-----------------------------------------------------------------------------
(* The list of the rows of a set.                                           *)
(****************************************************************************)

\* A sequence of the members of a set, each of them once.
ListsOnce(s, S) ==
    /\ s \in Seq(S)
    /\ \A x \in S : \E i \in DOMAIN s : s[i] = x
    /\ \A i, j \in DOMAIN s : s[i] = s[j] => i = j

Ahead(rowOf, sort, x, y) == Precedes(sort, rowOf[x], rowOf[y])

InOrder(rowOf, sort, s) == \A i, j \in DOMAIN s : i < j => Ahead(rowOf, sort, s[i], s[j])

\* The place of x in a list, and the list with x at its place.
Earlier(rowOf, sort, x, s) == {i \in DOMAIN s : Ahead(rowOf, sort, s[i], x)}
Placed(rowOf, sort, x, s) == InsertAt(s, 1 + Cardinality(Earlier(rowOf, sort, x, s)), x)

\* The list with x after its first k members.
Inserted(s, k, x) == [i \in 1 .. Len(s) + 1 |-> IF i =< k THEN s[i] ELSE IF i = k + 1 THEN x ELSE s[i - 1]]

LEMMA InsertedIs ==
    ASSUME NEW S, NEW s \in Seq(S), NEW k \in 0 .. Len(s), NEW x
    PROVE  InsertAt(s, 1 + k, x) = Inserted(s, k, x)
<1> DEFINE T == S \cup {x}
<1>1. s \in Seq(T) /\ <<x>> \in Seq(T) /\ Len(s) \in Nat
  OBVIOUS
<1>2. PICK l, n : l = SubSeq(s, 1, k) /\ n = SubSeq(s, 1 + k, Len(s))
  OBVIOUS
<1>3. l \in Seq(T) /\ Len(l) = k /\ \A i \in 1 .. k : l[i] = s[i]
  BY <1>1, <1>2
<1>4. n \in Seq(T) /\ Len(n) = Len(s) - k /\ \A i \in 1 .. (Len(s) - k) : n[i] = s[k + i]
  <2>1. \A i \in 1 .. (Len(s) - k) : k + i \in 1 .. Len(s) /\ (1 + k) + i - 1 = k + i
    BY <1>1
  <2> QED BY <1>1, <1>2, <2>1
<1>5. PICK lx : lx = l \o <<x>>
  OBVIOUS
<1>6. lx \in Seq(T) /\ Len(lx) = k + 1 /\ lx[k + 1] = x /\ \A i \in 1 .. k : lx[i] = s[i]
  <2> HIDE DEF T
  <2> QED BY <1>1, <1>3, <1>5
<1>7. PICK t : t = lx \o n
  OBVIOUS
<1>8. /\ t \in Seq(T) /\ Len(t) = Len(s) + 1
      /\ \A i \in 1 .. k : t[i] = s[i]
      /\ t[k + 1] = x
      /\ \A i \in (k + 2) .. (Len(s) + 1) : t[i] = s[i - 1]
  <2> HIDE DEF T
  <2>1. t \in Seq(T) /\ Len(t) = Len(s) + 1
    BY <1>1, <1>4, <1>6, <1>7
  <2>2. \A i \in 1 .. k + 1 : t[i] = lx[i]
    BY <1>1, <1>4, <1>6, <1>7
  <2>3. ASSUME NEW i \in (k + 2) .. (Len(s) + 1) PROVE t[i] = s[i - 1]
    <3>1. t[i] = n[i - (k + 1)]
      BY <1>1, <1>4, <1>6, <1>7
    <3>2. i - (k + 1) \in 1 .. (Len(s) - k) /\ k + (i - (k + 1)) = i - 1
      BY <1>1
    <3> QED BY <1>4, <3>1, <3>2
  <2> QED BY <1>6, <2>1, <2>2, <2>3
<1>9. t = [i \in 1 .. Len(s) + 1 |-> IF i =< k THEN s[i] ELSE IF i = k + 1 THEN x ELSE s[i - 1]]
  <2>1. t = [i \in 1 .. Len(s) + 1 |-> t[i]]
    BY <1>8
  <2>2. \A i \in 1 .. Len(s) + 1 : t[i] = IF i =< k THEN s[i] ELSE IF i = k + 1 THEN x ELSE s[i - 1]
    BY <1>1, <1>8
  <2> QED BY <2>1, <2>2
<1>10. InsertAt(s, 1 + k, x) = t
  <2>1. (1 + k) - 1 = k
    OBVIOUS
  <2> QED BY <1>2, <1>5, <1>7, <2>1 DEF InsertAt
<1> QED BY <1>9, <1>10 DEF Inserted

LEMMA EarlierIs ==
    ASSUME NEW rowOf, NEW sort, NEW S, NEW s \in Seq(S), NEW x
    PROVE  /\ Cardinality(Earlier(rowOf, sort, x, s)) \in 0 .. Len(s)
           /\ Placed(rowOf, sort, x, s) = Inserted(s, Cardinality(Earlier(rowOf, sort, x, s)), x)
<1>1. IsFiniteSet(1 .. Len(s)) /\ Cardinality(1 .. Len(s)) = Len(s) /\ DOMAIN s = 1 .. Len(s) /\ Len(s) \in Nat
  <2>1. Len(s) \in Nat /\ DOMAIN s = 1 .. Len(s)
    OBVIOUS
  <2>2. IsFiniteSet(1 .. Len(s)) /\ Cardinality(1 .. Len(s)) = IF 1 > Len(s) THEN 0 ELSE Len(s) - 1 + 1
    <3>1. 1 \in Int /\ Len(s) \in Int
      BY <2>1
    <3> QED BY <3>1, FS_Interval, Zenon
  <2>3. 1 > Len(s) => Len(s) = 0
    BY <2>1
  <2> QED BY <2>1, <2>2, <2>3
<1>2. PICK E : E = Earlier(rowOf, sort, x, s) /\ E \subseteq 1 .. Len(s)
  BY <1>1 DEF Earlier
<1>3. Cardinality(E) \in 0 .. Len(s)
  <2>1. IsFiniteSet(E) /\ Cardinality(E) =< Cardinality(1 .. Len(s))
    BY <1>1, <1>2, FS_Subset
  <2>2. Cardinality(E) \in Nat
    BY <2>1, FS_CardinalityType
  <2> QED BY <1>1, <2>1, <2>2
<1> QED BY <1>2, <1>3, InsertedIs DEF Placed

\* A list stays one of every member once when one more is put into it.
LEMMA InsertedOnce ==
    ASSUME NEW S, NEW x \in S, NEW s, ListsOnce(s, S \ {x}), NEW k \in 0 .. Len(s)
    PROVE  ListsOnce(Inserted(s, k, x), S)
<1>1. PICK n \in Nat : n = Len(s) /\ DOMAIN s = 1 .. n /\ \A i \in 1 .. n : s[i] \in S /\ s[i] # x
  BY DEF ListsOnce
<1>2. PICK t : t = Inserted(s, k, x)
  OBVIOUS
<1>3. t = [i \in 1 .. n + 1 |-> IF i =< k THEN s[i] ELSE IF i = k + 1 THEN x ELSE s[i - 1]] /\ k \in 0 .. n
  BY <1>1, <1>2 DEF Inserted
<1>4. DOMAIN t = 1 .. n + 1 /\ t[k + 1] = x
  BY <1>1, <1>3
<1>5. \A i \in 1 .. n + 1 : \/ i =< k /\ i \in 1 .. n /\ t[i] = s[i]
                            \/ i = k + 1 /\ t[i] = x
                            \/ i > k + 1 /\ i - 1 \in 1 .. n /\ t[i] = s[i - 1]
  BY <1>1, <1>3
<1>6. t \in Seq(S)
  <2>1. \A i \in 1 .. n + 1 : t[i] \in S
    BY <1>1, <1>5
  <2>2. t \in [1 .. n + 1 -> S] /\ n + 1 \in Nat
    BY <1>1, <1>3, <2>1
  <2> QED BY <2>2
<1>7. ASSUME NEW y \in S PROVE \E i \in 1 .. n + 1 : t[i] = y
  <2>1. CASE y = x
    <3>1. k + 1 \in 1 .. n + 1
      BY <1>1, <1>3
    <3> QED BY <1>4, <2>1, <3>1
  <2>2. CASE y # x
    <3>1. PICK i \in 1 .. n : s[i] = y
      BY <1>1, <2>2 DEF ListsOnce
    <3>2. CASE i =< k
      BY <1>1, <1>3, <3>1, <3>2
    <3>3. CASE i > k
      <4>1. i + 1 \in 1 .. n + 1 /\ ~(i + 1 =< k) /\ i + 1 # k + 1 /\ (i + 1) - 1 = i
        BY <1>1, <1>3, <3>1, <3>3
      <4> QED BY <1>3, <3>1, <4>1
    <3> QED BY <1>3, <3>1, <3>2, <3>3
  <2> QED BY <2>1, <2>2
<1>8. ASSUME NEW i \in 1 .. n + 1, NEW j \in 1 .. n + 1, t[i] = t[j] PROVE i = j
  <2>1. \A a, b \in 1 .. n : s[a] = s[b] => a = b
    BY <1>1 DEF ListsOnce
  <2>2. i \in Int /\ j \in Int /\ k \in Int
    BY <1>1, <1>3
  <2>3. CASE t[i] = x
    <3>1. i = k + 1 /\ j = k + 1
      BY <1>1, <1>5, <1>8, <2>3
    <3> QED BY <3>1
  <2>4. CASE t[i] # x
    <3>1. \/ i =< k /\ i \in 1 .. n /\ t[i] = s[i]
          \/ i > k + 1 /\ i - 1 \in 1 .. n /\ t[i] = s[i - 1]
      BY <1>5, <2>4
    <3>2. \/ j =< k /\ j \in 1 .. n /\ t[j] = s[j]
          \/ j > k + 1 /\ j - 1 \in 1 .. n /\ t[j] = s[j - 1]
      BY <1>5, <1>8, <2>4
    <3>3. CASE i =< k /\ j =< k
      BY <1>8, <2>1, <2>2, <3>1, <3>2, <3>3
    <3>4. CASE i > k + 1 /\ j > k + 1
      <4>1. i - 1 = j - 1
        BY <1>8, <2>1, <2>2, <3>1, <3>2, <3>4
      <4> QED BY <2>2, <4>1
    <3>5. CASE i =< k /\ j > k + 1
      <4>1. i = j - 1
        BY <1>8, <2>1, <2>2, <3>1, <3>2, <3>5
      <4> QED BY <2>2, <3>5, <4>1
    <3>6. CASE i > k + 1 /\ j =< k
      <4>1. i - 1 = j
        BY <1>8, <2>1, <2>2, <3>1, <3>2, <3>6
      <4> QED BY <2>2, <3>6, <4>1
    <3> QED BY <3>1, <3>2, <3>3, <3>4, <3>5, <3>6
  <2> QED BY <2>3, <2>4
<1> QED BY <1>2, <1>4, <1>6, <1>7, <1>8 DEF ListsOnce

\* The rows of S can be put in order.
Strict(rowOf, sort, S) ==
    \A x, y, z \in S :
        /\ x # y => Ahead(rowOf, sort, x, y) \/ Ahead(rowOf, sort, y, x)
        /\ ~(Ahead(rowOf, sort, x, y) /\ Ahead(rowOf, sort, y, x))
        /\ Ahead(rowOf, sort, x, y) /\ Ahead(rowOf, sort, y, z) => Ahead(rowOf, sort, x, z)

\* Those before x are the first ones of an ordered list.
LEMMA EarlierFirst ==
    ASSUME NEW rowOf, NEW sort, NEW S, Strict(rowOf, sort, S), NEW s \in Seq(S), NEW x \in S, InOrder(rowOf, sort, s)
    PROVE  Earlier(rowOf, sort, x, s) = 1 .. Cardinality(Earlier(rowOf, sort, x, s))
<1>1. PICK n \in Nat : n = Len(s) /\ DOMAIN s = 1 .. n /\ \A i \in 1 .. n : s[i] \in S
  OBVIOUS
<1>2. PICK E : E = Earlier(rowOf, sort, x, s) /\ E \subseteq 1 .. n
  BY <1>1 DEF Earlier
<1>3. \A i \in E : \A j \in 1 .. n : j < i => j \in E
  <2> TAKE i \in E
  <2> TAKE j \in 1 .. n
  <2> SUFFICES ASSUME j < i PROVE j \in E
    OBVIOUS
  <2>1. Ahead(rowOf, sort, s[i], x) /\ i \in 1 .. n
    BY <1>2 DEF Earlier
  <2>2. Ahead(rowOf, sort, s[j], s[i])
    BY <1>1, <2>1 DEF InOrder
  <2>3. Ahead(rowOf, sort, s[j], x)
    BY <1>1, <2>1, <2>2 DEF Strict
  <2> QED BY <1>1, <1>2, <2>3 DEF Earlier
<1>4. ASSUME NEW m \in 0 .. n, E = 1 .. m PROVE E = 1 .. Cardinality(E)
  <2>1. m \in Nat /\ Cardinality(1 .. m) = (IF 1 > m THEN 0 ELSE m - 1 + 1)
    BY FS_Interval
  <2>2. Cardinality(1 .. m) = m
    BY <2>1
  <2> QED BY <1>4, <2>2
<1>5. CASE E = {}
  <2>1. E = 1 .. 0 /\ 0 \in 0 .. n
    BY <1>5
  <2> QED BY <1>2, <1>4, <2>1
<1>6. CASE E # {}
  <2>1. E \subseteq 0 .. n
    BY <1>2
  <2>2. PICK m \in E : \A i \in E : i =< m
    BY <1>6, <2>1, GreatestNatural
  <2>3. m \in 1 .. n /\ E = 1 .. m
    <3>1. m \in 1 .. n
      BY <1>2
    <3>2. ASSUME NEW i \in E PROVE i \in 1 .. m
      <4>1. i \in 1 .. n /\ i =< m
        BY <1>2, <2>2
      <4> QED BY <3>1, <4>1
    <3>3. ASSUME NEW i \in 1 .. m PROVE i \in E
      <4>1. i \in 1 .. n /\ (i = m \/ i < m)
        BY <3>1
      <4> QED BY <1>3, <4>1
    <3> QED BY <3>1, <3>2, <3>3
  <2>4. m \in 0 .. n
    BY <2>3
  <2> QED BY <1>2, <1>4, <2>3, <2>4
<1> QED BY <1>5, <1>6

\* An ordered list stays ordered when a row is put at its place.
LEMMA InsertedInOrder ==
    ASSUME NEW rowOf, NEW sort, NEW S, Strict(rowOf, sort, S), NEW x \in S, NEW s, ListsOnce(s, S \ {x}), InOrder(rowOf, sort, s)
    PROVE  InOrder(rowOf, sort, Placed(rowOf, sort, x, s))
<1>0. s \in Seq(S)
  BY DEF ListsOnce
<1>1. PICK n \in Nat : n = Len(s) /\ DOMAIN s = 1 .. n /\ \A i \in 1 .. n : s[i] \in S /\ s[i] # x
  BY DEF ListsOnce
<1>2. PICK k \in 0 .. n : k = Cardinality(Earlier(rowOf, sort, x, s)) /\ Placed(rowOf, sort, x, s) = Inserted(s, k, x)
  BY <1>0, <1>1, EarlierIs
<1>3. Earlier(rowOf, sort, x, s) = 1 .. k
  BY <1>0, <1>2, EarlierFirst
<1>4. ASSUME NEW i \in 1 .. n
      PROVE  /\ i =< k => Ahead(rowOf, sort, s[i], x)
             /\ i > k => Ahead(rowOf, sort, x, s[i])
  <2>1. Ahead(rowOf, sort, s[i], x) <=> i =< k
    <3>1. i \in 1 .. k <=> i =< k
      OBVIOUS
    <3>2. i \in Earlier(rowOf, sort, x, s) <=> Ahead(rowOf, sort, s[i], x)
      BY <1>1 DEF Earlier
    <3> QED BY <1>3, <3>1, <3>2
  <2>2. Ahead(rowOf, sort, s[i], x) \/ Ahead(rowOf, sort, x, s[i])
    BY <1>1 DEF Strict
  <2> QED BY <2>1, <2>2
<1>5. PICK t : t = Inserted(s, k, x)
  OBVIOUS
<1>6. t = [i \in 1 .. n + 1 |-> IF i =< k THEN s[i] ELSE IF i = k + 1 THEN x ELSE s[i - 1]]
  BY <1>1, <1>5 DEF Inserted
<1>7. \A i \in 1 .. n + 1 : \/ i =< k /\ i \in 1 .. n /\ t[i] = s[i]
                            \/ i = k + 1 /\ t[i] = x
                            \/ i > k + 1 /\ i - 1 \in 1 .. n /\ t[i] = s[i - 1]
  BY <1>1, <1>6
<1>8. ASSUME NEW i \in 1 .. n + 1, NEW j \in 1 .. n + 1, i < j PROVE Ahead(rowOf, sort, t[i], t[j])
  <2>1. \A a, b \in 1 .. n : a < b => Ahead(rowOf, sort, s[a], s[b])
    BY <1>1 DEF InOrder
  <2>2. CASE i =< k /\ i \in 1 .. n /\ t[i] = s[i]
    <3>1. CASE j =< k /\ j \in 1 .. n /\ t[j] = s[j]
      BY <1>8, <2>1, <2>2, <3>1
    <3>2. CASE j = k + 1 /\ t[j] = x
      BY <1>4, <2>2, <3>2
    <3>3. CASE j > k + 1 /\ j - 1 \in 1 .. n /\ t[j] = s[j - 1]
      <4>1. i < j - 1
        BY <2>2, <3>3
      <4> QED BY <2>1, <2>2, <3>3, <4>1
    <3> QED BY <1>7, <3>1, <3>2, <3>3
  <2>3. CASE i = k + 1 /\ t[i] = x
    <3>1. j > k + 1 /\ j - 1 \in 1 .. n /\ t[j] = s[j - 1]
      BY <1>7, <1>8, <2>3
    <3>2. j - 1 > k
      BY <3>1
    <3> QED BY <1>4, <2>3, <3>1, <3>2
  <2>4. CASE i > k + 1 /\ i - 1 \in 1 .. n /\ t[i] = s[i - 1]
    <3>1. j > k + 1 /\ j - 1 \in 1 .. n /\ t[j] = s[j - 1]
      BY <1>7, <1>8, <2>4
    <3>2. i - 1 < j - 1
      BY <1>8
    <3> QED BY <2>1, <2>4, <3>1, <3>2
  <2> QED BY <1>7, <2>2, <2>3, <2>4
<1>9. DOMAIN t = 1 .. n + 1
  BY <1>6
<1> QED BY <1>2, <1>5, <1>8, <1>9 DEF InOrder

-----------------------------------------------------------------------------
\* The recursion of SortedOn.
InsertsIs(f, rowOf, sort, S) ==
    f = [s \in SUBSET S |-> IF s = {} THEN <<>> ELSE Placed(rowOf, sort, Term(s), f[s \ {Term(s)}])]

LEMMA SortedOnIs ==
    ASSUME NEW rowOf, NEW sort
    PROVE  SortedOn(rowOf, sort) = (CHOOSE f : InsertsIs(f, rowOf, sort, DOMAIN rowOf))[DOMAIN rowOf]
BY DEF SortedOn, FoldSet, MapThenFoldSet, InsertsIs, Term, Placed, Earlier, Ahead

InsertsTo(f, rowOf, sort, S, n) ==
    f = [s \in UpTo(S, n) |-> IF s = {} THEN <<>> ELSE Placed(rowOf, sort, Term(s), f[s \ {Term(s)}])]
NotInserted(rowOf, sort, S) == {n \in Nat : \A f : ~InsertsTo(f, rowOf, sort, S, n)}

\* It has a solution.
LEMMA InsertsExist ==
    ASSUME NEW rowOf, NEW sort, NEW S, IsFiniteSet(S) PROVE \E f : InsertsIs(f, rowOf, sort, S)
<1>1. \A s \in SUBSET S : IsFiniteSet(s) /\ Cardinality(s) \in Nat /\ Cardinality(s) =< Cardinality(S)
  BY FS_Subset, FS_CardinalityType
<1>2. \A s \in SUBSET S : Cardinality(s) = 0 <=> s = {}
  BY <1>1, FS_EmptySet
<1>3. NotInserted(rowOf, sort, S) = {}
  <2> SUFFICES ASSUME NotInserted(rowOf, sort, S) # {} PROVE FALSE
    OBVIOUS
  <2>1. PICK n \in NotInserted(rowOf, sort, S) : \A m \in NotInserted(rowOf, sort, S) : n =< m
    <3>1. NotInserted(rowOf, sort, S) \subseteq Nat
      BY DEF NotInserted
    <3> QED BY <3>1, LeastNatural
  <2>2. CASE n = 0
    <3>1. UpTo(S, 0) = {{}}
      BY <1>1, <1>2 DEF UpTo
    <3>2. InsertsTo([s \in UpTo(S, 0) |-> <<>>], rowOf, sort, S, 0)
      BY <3>1 DEF InsertsTo
    <3> QED BY <2>1, <2>2, <3>2 DEF NotInserted
  <2>3. CASE n # 0
    <3>1. n \in Nat /\ n - 1 \in Nat /\ ~(n =< n - 1)
      BY <2>1, <2>3 DEF NotInserted
    <3>2. n - 1 \notin NotInserted(rowOf, sort, S)
      BY <2>1, <3>1
    <3>3. PICK f : InsertsTo(f, rowOf, sort, S, n - 1)
      BY <3>1, <3>2 DEF NotInserted
    <3> DEFINE h == [s \in UpTo(S, n) |-> IF s = {} THEN <<>> ELSE Placed(rowOf, sort, Term(s), f[s \ {Term(s)}])]
    <3>4. ASSUME NEW s \in UpTo(S, n - 1) PROVE s \in UpTo(S, n) /\ h[s] = f[s]
      <4>1. s \in SUBSET S /\ Cardinality(s) \in Nat /\ Cardinality(s) =< n - 1
        BY <1>1 DEF UpTo
      <4>2. Cardinality(s) =< n
        BY <3>1, <4>1
      <4>3. s \in UpTo(S, n)
        BY <4>1, <4>2 DEF UpTo
      <4>4. f[s] = IF s = {} THEN <<>> ELSE Placed(rowOf, sort, Term(s), f[s \ {Term(s)}])
        BY <3>3 DEF InsertsTo
      <4> QED BY <4>3, <4>4
    <3>5. ASSUME NEW s \in UpTo(S, n), s # {} PROVE s \ {Term(s)} \in UpTo(S, n - 1)
      <4>1. Term(s) \in s /\ IsFiniteSet(s) /\ s \in SUBSET S /\ Cardinality(s) =< n
        BY <1>1, <3>5, TermIn DEF UpTo
      <4>2. Cardinality(s \ {Term(s)}) = Cardinality(s) - 1
        BY <4>1, FS_RemoveElement
      <4> QED BY <1>1, <3>1, <4>1, <4>2 DEF UpTo
    <3>6. InsertsTo(h, rowOf, sort, S, n)
      BY <3>4, <3>5 DEF InsertsTo
    <3> QED BY <2>1, <3>6 DEF NotInserted
  <2> QED BY <2>2, <2>3
<1>4. PICK n \in Nat : n = Cardinality(S)
  BY FS_CardinalityType
<1>5. PICK f : InsertsTo(f, rowOf, sort, S, n)
  BY <1>3, <1>4 DEF NotInserted
<1>6. UpTo(S, n) = SUBSET S
  BY <1>1, <1>4 DEF UpTo
<1> QED BY <1>5, <1>6 DEF InsertsIs, InsertsTo

\* A set of rows is listed with each row once; and in order, however many metrics
\* are equal, when no two rows have the same place in it (query.rs:75).
THEOREM RowsListedOnce ==
    ASSUME NEW rowOf, NEW sort, IsFiniteSet(DOMAIN rowOf)
    PROVE  /\ ListsOnce(SortedOn(rowOf, sort), DOMAIN rowOf)
           /\ Strict(rowOf, sort, DOMAIN rowOf) => InOrder(rowOf, sort, SortedOn(rowOf, sort))
<1> DEFINE S == DOMAIN rowOf
<1> HIDE DEF S
<1>0. IsFiniteSet(S)
  BY DEF S
<1>1. PICK f : InsertsIs(f, rowOf, sort, S) /\ SortedOn(rowOf, sort) = f[S]
  BY <1>0, InsertsExist, SortedOnIs DEF S
<1>2. \A T \in SUBSET S : f[T] = IF T = {} THEN <<>> ELSE Placed(rowOf, sort, Term(T), f[T \ {Term(T)}])
  BY <1>1 DEF InsertsIs
<1> DEFINE Good(T) == ListsOnce(f[T], T) /\ (Strict(rowOf, sort, S) => InOrder(rowOf, sort, f[T]))
           F == {T \in SUBSET S : Good(T)}
<1>3. {} \in F
  <2>1. f[{}] = <<>>
    BY <1>2
  <2>2. ListsOnce(<<>>, {}) /\ InOrder(rowOf, sort, <<>>)
    BY DEF ListsOnce, InOrder
  <2> QED BY <2>1, <2>2
<1>4. ASSUME NEW T \in SUBSET S, T # {}, \A x \in T : T \ {x} \in F PROVE T \in F
  <2>1. PICK x \in T : x = Term(T)
    BY <1>4, TermIn
  <2>2. PICK s : s = f[T \ {x}]
    OBVIOUS
  <2>3. f[T] = Placed(rowOf, sort, x, s)
    BY <1>2, <1>4, <2>1, <2>2
  <2>4. ListsOnce(s, T \ {x}) /\ (Strict(rowOf, sort, S) => InOrder(rowOf, sort, s))
    BY <1>4, <2>1, <2>2
  <2>5. PICK k \in 0 .. Len(s) : f[T] = Inserted(s, k, x)
    <3>1. s \in Seq(T)
      BY <2>4 DEF ListsOnce
    <3> QED BY <2>3, <3>1, EarlierIs
  <2>6. ListsOnce(f[T], T)
    BY <2>4, <2>5, InsertedOnce
  <2>7. ASSUME Strict(rowOf, sort, S) PROVE InOrder(rowOf, sort, f[T])
    <3>1. Strict(rowOf, sort, T)
      BY <2>7 DEF Strict
    <3> QED BY <2>3, <2>4, <2>7, <3>1, InsertedInOrder
  <2> QED BY <2>6, <2>7
<1>5. S \in F
  <2> HIDE DEF F
  <2> QED BY <1>0, <1>3, <1>4, SetsByRemoving
<1> QED BY <1>1, <1>5 DEF S

\* The rows of a list are the ones that were sorted.
LEMMA SortedRowsAre ==
    ASSUME NEW rows, IsFiniteSet(rows), NEW sort
    PROVE  ListsOnce(SortedSet(rows, sort), rows)
<1>1. DOMAIN [row \in rows |-> row] = rows
  OBVIOUS
<1> QED BY <1>1, RowsListedOnce DEF SortedSet

\* Rows that differ in more than their metrics and name are listed in one order only,
\* in every sort (query.rs:75).
THEOREM RowsListedInOrder ==
    ASSUME NEW rows \in SUBSET SortableRows, IsFiniteSet(rows), NEW sort \in Sorts,
           \A a, b \in rows : Place(a) = Place(b) => a = b
    PROVE  \A i, j \in DOMAIN SortedSet(rows, sort) :
               i < j => Precedes(sort, SortedSet(rows, sort)[i], SortedSet(rows, sort)[j])
<1> DEFINE rowOf == [row \in rows |-> row]
<1>1. DOMAIN rowOf = rows /\ \A x \in rows : rowOf[x] = x
  OBVIOUS
<1>2. Strict(rowOf, sort, rows)
  <2> SUFFICES ASSUME NEW x \in rows, NEW y \in rows, NEW z \in rows
               PROVE  /\ x # y => Ahead(rowOf, sort, x, y) \/ Ahead(rowOf, sort, y, x)
                      /\ ~(Ahead(rowOf, sort, x, y) /\ Ahead(rowOf, sort, y, x))
                      /\ Ahead(rowOf, sort, x, y) /\ Ahead(rowOf, sort, y, z) => Ahead(rowOf, sort, x, z)
    BY DEF Strict
  <2>1. \A u, v \in rows : Ahead(rowOf, sort, u, v) <=> Precedes(sort, u, v)
    BY <1>1 DEF Ahead
  <2>2. x \in SortableRows /\ y \in SortableRows /\ z \in SortableRows
    OBVIOUS
  <2>3. x # y => Precedes(sort, x, y) \/ Precedes(sort, y, x)
    BY <2>2, RowsTotallyOrdered DEF Place
  <2>4. ~(Precedes(sort, x, y) /\ Precedes(sort, y, x))
    BY <2>2, RowsTotallyOrdered
  <2>5. Precedes(sort, x, y) /\ Precedes(sort, y, z) => Precedes(sort, x, z)
    BY <2>2, RowsTotallyOrdered
  <2> QED BY <2>1, <2>3, <2>4, <2>5
<1>3. PICK s : s = SortedOn(rowOf, sort)
  OBVIOUS
<1>4. ListsOnce(s, rows) /\ InOrder(rowOf, sort, s)
  BY <1>1, <1>2, <1>3, RowsListedOnce
<1>5. \A i \in DOMAIN s : s[i] \in rows
  BY <1>4 DEF ListsOnce
<1>6. \A i, j \in DOMAIN s : i < j => Precedes(sort, s[i], s[j])
  BY <1>1, <1>4, <1>5 DEF InOrder, Ahead
<1> QED BY <1>3, <1>6 DEF SortedSet

\* A list that a limit of its length cuts off is the list.
LEMMA NothingCut ==
    ASSUME NEW S, IsFiniteSet(S), NEW s, ListsOnce(s, S), NEW limit \in Nat, limit >= Cardinality(S)
    PROVE  Truncated(s, limit) = s
<1>1. s \in Seq(S) /\ Len(s) \in Nat /\ DOMAIN s = 1 .. Len(s)
  BY DEF ListsOnce
<1>2. Len(s) = Cardinality(S)
  <2>1. s \in Bijection(1 .. Len(s), S)
    <3>1. s \in [1 .. Len(s) -> S]
      BY <1>1
    <3>2. \A a, b \in 1 .. Len(s) : s[a] = s[b] => a = b
      BY <1>1 DEF ListsOnce
    <3>3. \A x \in S : \E a \in 1 .. Len(s) : s[a] = x
      BY <1>1 DEF ListsOnce
    <3> QED BY <3>1, <3>2, <3>3 DEF Bijection, Injection, Surjection, IsInjective
  <2>2. ExistsBijection(1 .. Len(s), S)
    BY <2>1 DEF ExistsBijection
  <2> QED BY <1>1, <2>2, FS_CountingElements
<1>3. SubSeq(s, 1, Len(s)) = s
  BY <1>1
<1>4. ~(Len(s) < limit) => limit = Len(s)
  BY <1>1, <1>2
<1> QED BY <1>3, <1>4 DEF Truncated


-----------------------------------------------------------------------------
(* The owners of WebView processes.                                         *)
(****************************************************************************)

\* The metadata of a PID are of the process that was measured.
Measures(rows, metadata, pid) ==
    \E row \in rows : row.id = <<pid>> /\ Identified(MetadataOf(metadata, pid), row)

\* A process was started by another, which was there before it.
StartedBy(rows, metadata, child, parent) ==
    /\ Measures(rows, metadata, child) /\ Measures(rows, metadata, parent)
    /\ MetadataOf(metadata, child).parent = parent
    /\ MetadataOf(metadata, parent).start =< MetadataOf(metadata, child).start

\* A process comes from another by way of the ones that started each other.
ComesFrom(rows, metadata, pid, from) ==
    \A Z : pid \in Z /\ (\A x, y : x \in Z /\ StartedBy(rows, metadata, x, y) => y \in Z) => from \in Z

\* A process that is not WebView gives a name to the one that comes from it.
OwnedBy(rows, metadata, pid, name) ==
    \E row \in rows : \E from : /\ row.id = <<from>> /\ row.name = name /\ name # WebView
                                /\ ComesFrom(rows, metadata, pid, from)

\* The place of a walk from the process with the given PID and name.
OnWalk(rows, metadata, pid, name, at) ==
    /\ \E o, p, s, v, e : at = [owner |-> o, parent |-> p, start |-> s, visited |-> v, ended |-> e]
    /\ at.ended \in BOOLEAN
    /\ \/ at.owner = name
       \/ at.ended /\ OwnedBy(rows, metadata, pid, at.owner)
    /\ ~at.ended => \E x : /\ ComesFrom(rows, metadata, pid, x) /\ Measures(rows, metadata, x)
                           /\ MetadataOf(metadata, x).parent = at.parent /\ MetadataOf(metadata, x).start = at.start

LEMMA OnWalkIs ==
    ASSUME NEW rows, NEW metadata, NEW pid, NEW name, NEW o, NEW p, NEW s, NEW v, NEW e \in BOOLEAN,
           o = name \/ (e /\ OwnedBy(rows, metadata, pid, o)),
           ~e => \E x : /\ ComesFrom(rows, metadata, pid, x) /\ Measures(rows, metadata, x)
                        /\ MetadataOf(metadata, x).parent = p /\ MetadataOf(metadata, x).start = s
    PROVE  OnWalk(rows, metadata, pid, name, [owner |-> o, parent |-> p, start |-> s, visited |-> v, ended |-> e])
<1>1. PICK at : at = [owner |-> o, parent |-> p, start |-> s, visited |-> v, ended |-> e]
  OBVIOUS
<1>2. at.owner = o /\ at.parent = p /\ at.start = s /\ at.visited = v /\ at.ended = e
  BY <1>1
<1>3. \E a, b, c, d, f : at = [owner |-> a, parent |-> b, start |-> c, visited |-> d, ended |-> f]
  BY <1>1
<1>4. OnWalk(rows, metadata, pid, name, at)
  BY <1>2, <1>3 DEF OnWalk
<1> QED BY <1>1, <1>4

LEMMA StepsOnWalk ==
    ASSUME NEW rows, NEW metadata, NEW pid, NEW name, NEW at, OnWalk(rows, metadata, pid, name, at)
    PROVE  OnWalk(rows, metadata, pid, name, WalkStep(rows, metadata, at))
<1>1. PICK o, p, s, v, e : at = [owner |-> o, parent |-> p, start |-> s, visited |-> v, ended |-> e]
  BY DEF OnWalk
<1> DEFINE those == {row \in rows : row.id = <<p>>}
           row == CHOOSE r \in those : TRUE
           meta == MetadataOf(metadata, p)
           stops == \/ e \/ p = 0 \/ p \in v \/ those = {} \/ ~Identified(meta, row) \/ ~StartedBefore(meta, s)
<1>0. PICK next : next = WalkStep(rows, metadata, at)
  OBVIOUS
<1>2. next = IF stops THEN [at EXCEPT !.ended = TRUE]
             ELSE IF row.name # WebView THEN [at EXCEPT !.owner = row.name, !.ended = TRUE]
             ELSE [at EXCEPT !.parent = meta.parent, !.start = meta.start, !.visited = @ \cup {at.parent}]
  BY <1>0, <1>1 DEF WalkStep
<1>3. e \in BOOLEAN
  BY <1>1 DEF OnWalk
<1>4. o = name \/ (e /\ OwnedBy(rows, metadata, pid, o))
  BY <1>1 DEF OnWalk
<1>5. CASE stops
  <2>1. next = [owner |-> o, parent |-> p, start |-> s, visited |-> v, ended |-> TRUE]
    <3> HIDE DEF stops, meta, row
    <3> QED BY <1>1, <1>2, <1>5
  <2>2. PICK f : f \in BOOLEAN /\ f = TRUE
    OBVIOUS
  <2>3. OnWalk(rows, metadata, pid, name, [owner |-> o, parent |-> p, start |-> s, visited |-> v, ended |-> f])
    BY <1>4, <2>2, OnWalkIs
  <2> QED BY <1>0, <2>1, <2>2, <2>3
<1>6. CASE ~stops
  <2>1. row \in rows /\ row.id = <<p>> /\ Identified(meta, row) /\ meta.start =< s /\ ~e
    BY <1>6 DEF StartedBefore
  <2>2. PICK x : /\ ComesFrom(rows, metadata, pid, x) /\ Measures(rows, metadata, x)
                 /\ MetadataOf(metadata, x).parent = p /\ MetadataOf(metadata, x).start = s
    BY <1>1, <2>1 DEF OnWalk
  <2>3. Measures(rows, metadata, p)
    <3> HIDE DEF row
    <3> QED BY <2>1 DEF Measures
  <2>4. StartedBy(rows, metadata, x, p)
    BY <2>1, <2>2, <2>3 DEF StartedBy
  <2>5. ComesFrom(rows, metadata, pid, p)
    BY <2>2, <2>4 DEF ComesFrom
  <2>6. o = name
    BY <1>4, <2>1
  <2>7. CASE row.name # WebView
    <3>1. next = [owner |-> row.name, parent |-> p, start |-> s, visited |-> v, ended |-> TRUE]
      <4> HIDE DEF stops, meta, row
      <4> QED BY <1>1, <1>2, <1>6, <2>7
    <3> HIDE DEF row
    <3>2. OwnedBy(rows, metadata, pid, row.name)
      BY <2>1, <2>5, <2>7 DEF OwnedBy
    <3>3. PICK f, r : f \in BOOLEAN /\ f = TRUE /\ r = row.name
      OBVIOUS
    <3>4. OnWalk(rows, metadata, pid, name, [owner |-> r, parent |-> p, start |-> s, visited |-> v, ended |-> f])
      BY <3>2, <3>3, OnWalkIs
    <3> QED BY <1>0, <3>1, <3>3, <3>4
  <2>8. CASE row.name = WebView
    <3>1. next = [owner |-> o, parent |-> meta.parent, start |-> meta.start, visited |-> v \cup {p}, ended |-> e]
      <4> HIDE DEF stops, meta, row
      <4> QED BY <1>1, <1>2, <1>6, <2>8
    <3> HIDE DEF row
    <3>2. PICK q, t, w : q = meta.parent /\ t = meta.start /\ w = v \cup {p}
      OBVIOUS
    <3>3. \E y : /\ ComesFrom(rows, metadata, pid, y) /\ Measures(rows, metadata, y)
                 /\ MetadataOf(metadata, y).parent = q /\ MetadataOf(metadata, y).start = t
      BY <2>3, <2>5, <3>2
    <3>4. OnWalk(rows, metadata, pid, name, [owner |-> o, parent |-> q, start |-> t, visited |-> w, ended |-> e])
      BY <1>3, <2>6, <3>3, OnWalkIs
    <3> QED BY <1>0, <3>1, <3>2, <3>4
  <2> QED BY <2>7, <2>8
<1> QED BY <1>0, <1>5, <1>6

\* The recursion of Walk.
WalkFrom(f, rows, metadata, begin) ==
    f = [n \in 0 .. 8 |-> IF n = 0 THEN begin ELSE WalkStep(rows, metadata, f[n - 1])]

WalkBegin(metadata, process) ==
    [owner |-> process.name, parent |-> metadata[process.id[1]].parent, start |-> metadata[process.id[1]].start,
     visited |-> {}, ended |-> FALSE]

LEMMA WalkIs ==
    ASSUME NEW rows, NEW metadata, NEW process
    PROVE  Walk(rows, metadata, process) =
               ((CHOOSE f : WalkFrom(f, rows, metadata, WalkBegin(metadata, process)))[8]).owner
BY DEF Walk, WalkFrom, WalkBegin

LEMMA WalksExist == ASSUME NEW rows, NEW metadata, NEW begin PROVE \E f : WalkFrom(f, rows, metadata, begin)
<1>1. PICK s0, s1, s2, s3, s4, s5, s6, s7, s8 :
          /\ s0 = begin /\ s1 = WalkStep(rows, metadata, s0) /\ s2 = WalkStep(rows, metadata, s1)
          /\ s3 = WalkStep(rows, metadata, s2) /\ s4 = WalkStep(rows, metadata, s3) /\ s5 = WalkStep(rows, metadata, s4)
          /\ s6 = WalkStep(rows, metadata, s5) /\ s7 = WalkStep(rows, metadata, s6) /\ s8 = WalkStep(rows, metadata, s7)
  OBVIOUS
<1> DEFINE f == [n \in 0 .. 8 |-> IF n = 0 THEN s0 ELSE IF n = 1 THEN s1 ELSE IF n = 2 THEN s2 ELSE IF n = 3 THEN s3
                                  ELSE IF n = 4 THEN s4 ELSE IF n = 5 THEN s5 ELSE IF n = 6 THEN s6
                                  ELSE IF n = 7 THEN s7 ELSE s8]
<1>2. DOMAIN f = 0 .. 8 /\ f = [n \in 0 .. 8 |-> f[n]]
  OBVIOUS
<1>3. /\ f[0] = s0 /\ f[1] = s1 /\ f[2] = s2 /\ f[3] = s3 /\ f[4] = s4 /\ f[5] = s5 /\ f[6] = s6 /\ f[7] = s7 /\ f[8] = s8
  OBVIOUS
<1> HIDE DEF f
<1>4. \A n \in 0 .. 8 : f[n] = IF n = 0 THEN begin ELSE WalkStep(rows, metadata, f[n - 1])
  <2> TAKE n \in 0 .. 8
  <2>1. n \in {0, 1, 2, 3, 4, 5, 6, 7, 8}
    OBVIOUS
  <2>2. n # 0 => f[n] = WalkStep(rows, metadata, f[n - 1])
    BY <1>1, <1>3, <2>1
  <2> QED BY <1>1, <1>3, <2>1, <2>2
<1>5. f = [n \in 0 .. 8 |-> IF n = 0 THEN begin ELSE WalkStep(rows, metadata, f[n - 1])]
  BY <1>2, <1>4
<1> QED BY <1>5 DEF WalkFrom

\* The name that a walk gives is that of the process or of one that it comes from.
LEMMA WalkEnds ==
    ASSUME NEW rows, NEW metadata, NEW process \in rows, NEW pid, process.id = <<pid>>,
           Identified(MetadataOf(metadata, pid), process)
    PROVE  LET name == Walk(rows, metadata, process)
           IN  name = process.name \/ OwnedBy(rows, metadata, pid, name)
<1>1. PICK begin, name : begin = WalkBegin(metadata, process) /\ name = process.name
  OBVIOUS
<1>2. PICK f : WalkFrom(f, rows, metadata, begin) /\ Walk(rows, metadata, process) = f[8].owner
  BY <1>1, WalkIs, WalksExist
<1>3. OnWalk(rows, metadata, pid, name, begin)
  <2>1. pid \in DOMAIN metadata /\ MetadataOf(metadata, pid) = metadata[pid] /\ process.id[1] = pid
    BY DEF Identified, MetadataOf
  <2>2. PICK p, s, v, e : p = metadata[pid].parent /\ s = metadata[pid].start /\ v = {} /\ e \in BOOLEAN /\ e = FALSE
    OBVIOUS
  <2>3. begin = [owner |-> name, parent |-> p, start |-> s, visited |-> v, ended |-> e]
    BY <1>1, <2>1, <2>2 DEF WalkBegin
  <2>4. ComesFrom(rows, metadata, pid, pid) /\ Measures(rows, metadata, pid)
    BY DEF ComesFrom, Measures
  <2>5. OnWalk(rows, metadata, pid, name, [owner |-> name, parent |-> p, start |-> s, visited |-> v, ended |-> e])
    BY <2>1, <2>2, <2>4, OnWalkIs
  <2> QED BY <2>3, <2>5
<1>4. f[0] = begin /\ \A n \in 1 .. 8 : f[n] = WalkStep(rows, metadata, f[n - 1])
  BY <1>2 DEF WalkFrom
<1>5. \A n \in 1 .. 8 : OnWalk(rows, metadata, pid, name, f[n - 1]) => OnWalk(rows, metadata, pid, name, f[n])
  BY <1>4, StepsOnWalk
<1>6. OnWalk(rows, metadata, pid, name, f[8])
  <2>1. OnWalk(rows, metadata, pid, name, f[0])
    BY <1>3, <1>4
  <2>2. OnWalk(rows, metadata, pid, name, f[1])
    BY <1>5, <2>1
  <2>3. OnWalk(rows, metadata, pid, name, f[2])
    BY <1>5, <2>2
  <2>4. OnWalk(rows, metadata, pid, name, f[3])
    BY <1>5, <2>3
  <2>5. OnWalk(rows, metadata, pid, name, f[4])
    BY <1>5, <2>4
  <2>6. OnWalk(rows, metadata, pid, name, f[5])
    BY <1>5, <2>5
  <2>7. OnWalk(rows, metadata, pid, name, f[6])
    BY <1>5, <2>6
  <2>8. OnWalk(rows, metadata, pid, name, f[7])
    BY <1>5, <2>7
  <2> QED BY <1>5, <2>8
<1> QED BY <1>1, <1>2, <1>6 DEF OnWalk

\* The processes of an application are rows of its identity.
LEMMA MembersAreRows ==
    ASSUME NEW rows, NEW metadata, NEW application \in GroupProcesses(rows, metadata),
           NEW member \in application.processes
    PROVE  member \in rows /\ ApplicationIdentity(member, rows, metadata) = application.resource.name
<1>1. PICK key, cpu, memory : application =
          [resource |-> Row("windows", NoSource, "application", <<key>>, NoStart, key, cpu, memory),
           processes |-> {row \in {row \in rows : IsProcess(row)} : ApplicationIdentity(row, rows, metadata) = key}]
  BY DEF GroupProcesses
<1>2. application.resource.name = key
  BY <1>1 DEF Row
<1>3. application.processes = {row \in {row \in rows : IsProcess(row)} : ApplicationIdentity(row, rows, metadata) = key}
  BY <1>1
<1> QED BY <1>2, <1>3

\* A process of an application has the application's name itself, or is WebView: then
\* its command line or package names the owner, or the owner is a process that it comes
\* from, by way of processes that were each there before the next (windows_app.rs:78).
THEOREM ApplicationsByAncestry ==
    ASSUME NEW rows, NEW metadata, NEW application \in GroupProcesses(rows, metadata),
           NEW member \in application.processes, NEW pid, member.id = <<pid>>
    PROVE  \E name : /\ CanonicalIdentity(name) = application.resource.name
                     /\ \/ name = member.name
                        \/ /\ member.name = WebView /\ Identified(MetadataOf(metadata, pid), member)
                           /\ \/ name # 0 /\ name = MetadataOf(metadata, pid).owner
                              \/ MetadataOf(metadata, pid).owner = 0 /\ OwnedBy(rows, metadata, pid, name)
<1>1. member \in rows /\ ApplicationIdentity(member, rows, metadata) = application.resource.name
  BY MembersAreRows
<1>2. PICK meta : meta = MetadataOf(metadata, pid) /\ member.id[1] = pid
  OBVIOUS
<1>3. CASE member.name # WebView \/ ~Identified(meta, member)
  BY <1>1, <1>2, <1>3 DEF ApplicationIdentity
<1>4. CASE member.name = WebView /\ Identified(meta, member) /\ meta.owner # 0
  BY <1>1, <1>2, <1>4 DEF ApplicationIdentity
<1>5. CASE member.name = WebView /\ Identified(meta, member) /\ meta.owner = 0
  <2>1. PICK name : name = Walk(rows, metadata, member)
    OBVIOUS
  <2>2. CanonicalIdentity(name) = application.resource.name
    BY <1>1, <1>2, <1>5, <2>1 DEF ApplicationIdentity
  <2>3. name = member.name \/ OwnedBy(rows, metadata, pid, name)
    BY <1>1, <1>2, <1>5, <2>1, WalkEnds
  <2> QED BY <1>2, <1>5, <2>2, <2>3
<1> QED BY <1>3, <1>4, <1>5

\* Of three processes, whichever parents, start times and PIDs that were used again.
THEOREM ApplicationsOfThree ==
    ASSUME case \in ApplicationCases, WebView # App, CanonicalIdentity(WebView) # App
    PROVE  GroupedByAncestry
<1> DEFINE row(pid) == CHOOSE r \in case.rows : r.id = <<pid>>
<1> DEFINE Given(b, p, d) ==
               /\ case.rows = {AppProcess(pid, IF pid = 3 THEN App ELSE WebView, b[pid]) : pid \in 1 .. 3}
               /\ case.metadata = [pid \in 1 .. 3 |-> [parent |-> IF pid = 3 THEN 0 ELSE p[pid],
                                                       name |-> IF pid = 3 THEN App ELSE WebView,
                                                       start |-> IF pid = d THEN 4 ELSE b[pid], owner |-> 0]]
<1>0. \E b, p, d : Given(b, p, d)
  <2>1. PICK b, p, d :
            case = [kind |-> "applications",
                    rows |-> {AppProcess(pid, IF pid = 3 THEN App ELSE WebView, b[pid]) : pid \in 1 .. 3},
                    metadata |-> [pid \in 1 .. 3 |-> [parent |-> IF pid = 3 THEN 0 ELSE p[pid],
                                                      name |-> IF pid = 3 THEN App ELSE WebView,
                                                      start |-> IF pid = d THEN 4 ELSE b[pid], owner |-> 0]]]
    BY DEF ApplicationCases
  <2>2. Given(b, p, d)
    BY <2>1
  <2> HIDE DEF Given
  <2> QED BY <2>2
<1>1. PICK begun, parents, reread : Given(begun, parents, reread)
  BY <1>0
<1>2. PICK rows, meta : rows = case.rows /\ meta = case.metadata
  OBVIOUS
<1>3. \A r \in rows : \E pid \in 1 .. 3 : /\ r.id = <<pid>> /\ r.start = begun[pid]
                                         /\ r.name = IF pid = 3 THEN App ELSE WebView
  BY <1>1, <1>2 DEF AppProcess, Row
<1>4. \A pid \in 1 .. 3 : \E r \in rows : r.id = <<pid>>
  <2> TAKE pid \in 1 .. 3
  <2>1. PICK r : r = AppProcess(pid, IF pid = 3 THEN App ELSE WebView, begun[pid])
    OBVIOUS
  <2>2. r \in rows
    BY <1>1, <1>2, <2>1, Zenon
  <2>3. r.id = <<pid>>
    BY <2>1 DEF AppProcess, Row
  <2> QED BY <2>2, <2>3
<1>5. \A pid \in 1 .. 3 : row(pid).start = begun[pid]
  BY <1>2, <1>3, <1>4, OneElement
<1>6. /\ DOMAIN meta = 1 .. 3 /\ meta[3].parent = 0 /\ \A pid \in 1 .. 3 : meta[pid].owner = 0
  BY <1>1, <1>2
<1>7. \A x : Measures(rows, meta, x) => x \in 1 .. 3 /\ meta[x].start = row(x).start /\ MetadataOf(meta, x) = meta[x]
  <2> TAKE x
  <2> HAVE Measures(rows, meta, x)
  <2>1. PICK r \in rows : r.id = <<x>> /\ Identified(MetadataOf(meta, x), r)
    BY DEF Measures
  <2>2. x \in 1 .. 3 /\ MetadataOf(meta, x) = meta[x]
    BY <1>6, <2>1 DEF Identified, MetadataOf
  <2>3. r.start = begun[x]
    BY <1>3, <2>1, OneElement
  <2> HIDE DEF row
  <2> QED BY <1>5, <2>1, <2>2, <2>3 DEF Identified
<1>8. \A x, y : StartedBy(rows, meta, x, y) => x \in {1, 2} /\ y \in 1 .. 3 /\ ParentOf(x, y)
  <2> TAKE x, y
  <2> HAVE StartedBy(rows, meta, x, y)
  <2>1. /\ x \in 1 .. 3 /\ y \in 1 .. 3 /\ meta[x].start = row(x).start /\ meta[y].start = row(y).start
        /\ meta[x].parent = y /\ meta[y].start =< meta[x].start
    <3> HIDE DEF row
    <3> QED BY <1>7 DEF StartedBy
  <2>2. x # 3
    BY <1>6, <2>1
  <2>3. ParentOf(x, y)
    BY <1>2, <2>1 DEF ParentOf
  <2> QED BY <2>1, <2>2, <2>3
<1> HIDE DEF row
<1>9. ASSUME NEW application \in GroupProcesses(rows, meta), application.resource.name = App,
             NEW member \in application.processes, NEW pid, member.id = <<pid>>, pid # 3
      PROVE  ParentOf(pid, 3) \/ \E middle \in 1 .. 2 \ {pid} : ParentOf(pid, middle) /\ ParentOf(middle, 3)
  <2>1. member \in rows /\ pid \in {1, 2} /\ member.name = WebView
    <3>1. member \in rows
      BY <1>9, MembersAreRows
    <3>2. PICK q \in 1 .. 3 : member.id = <<q>> /\ member.name = IF q = 3 THEN App ELSE WebView
      BY <1>3, <3>1
    <3>3. q = pid
      BY <1>9, <3>2, OneElement
    <3> QED BY <1>9, <3>1, <3>2, <3>3
  <2>2. PICK name : OwnedBy(rows, meta, pid, name)
    <3>1. PICK name : /\ CanonicalIdentity(name) = application.resource.name
                      /\ \/ name = member.name
                         \/ /\ member.name = WebView /\ Identified(MetadataOf(meta, pid), member)
                            /\ \/ name # 0 /\ name = MetadataOf(meta, pid).owner
                               \/ MetadataOf(meta, pid).owner = 0 /\ OwnedBy(rows, meta, pid, name)
      BY <1>9, ApplicationsByAncestry
    <3>2. name # member.name
      BY <1>9, <2>1, <3>1
    <3>3. MetadataOf(meta, pid).owner = 0
      BY <1>6, <2>1 DEF MetadataOf
    <3> QED BY <3>1, <3>2, <3>3
  <2>3. PICK r \in rows, from \in 1 .. 3 : r.id = <<from>> /\ r.name # WebView /\ ComesFrom(rows, meta, pid, from)
    <3>1. PICK r \in rows : \E from : /\ r.id = <<from>> /\ r.name = name /\ name # WebView
                                      /\ ComesFrom(rows, meta, pid, from)
      BY <2>2 DEF OwnedBy
    <3>2. PICK from : r.id = <<from>> /\ r.name # WebView /\ ComesFrom(rows, meta, pid, from)
      BY <3>1
    <3>3. from \in 1 .. 3
      BY <1>3, <3>2, OneElement
    <3> QED BY <3>2, <3>3
  <2>4. from = 3
    BY <1>3, <2>3, OneElement
  <2> DEFINE Z == {pid} \cup {y \in 1 .. 3 : \/ ParentOf(pid, y)
                                            \/ \E middle \in 1 .. 2 \ {pid} : ParentOf(pid, middle) /\ ParentOf(middle, y)}
  <2>5. pid \in Z /\ \A x, y : x \in Z /\ StartedBy(rows, meta, x, y) => y \in Z
    <3> SUFFICES ASSUME NEW x \in Z, NEW y, StartedBy(rows, meta, x, y) PROVE y \in Z
      OBVIOUS
    <3>1. x \in {1, 2} /\ y \in 1 .. 3 /\ ParentOf(x, y)
      BY <1>8
    <3>2. CASE x = pid
      BY <3>1, <3>2
    <3>3. CASE x # pid
      <4>1. x \in 1 .. 2 \ {pid} /\ \A middle \in 1 .. 2 \ {pid} : middle = x
        BY <2>1, <3>1, <3>3
      <4>2. ParentOf(pid, x)
        BY <3>3, <4>1
      <4> QED BY <3>1, <4>1, <4>2
    <3> QED BY <3>2, <3>3
  <2>6. 3 \in Z
    <3> HIDE DEF Z
    <3> QED BY <2>3, <2>4, <2>5 DEF ComesFrom
  <2> QED BY <1>9, <2>6
<1>10. \A application \in GroupProcesses(rows, meta) : \A member \in application.processes :
           member.id = <<member.id[1]>>
  <2> TAKE application \in GroupProcesses(rows, meta)
  <2> TAKE member \in application.processes
  <2>1. member \in rows
    BY MembersAreRows
  <2> QED BY <1>3, <2>1
<1> QED BY <1>2, <1>9, <1>10, Zenon DEF GroupedByAncestry


-----------------------------------------------------------------------------
(* The flat list.                                                           *)
(****************************************************************************)

\* The recursion of FlattenSeq, up to a part.
FlattensTo(f, parts, n) ==
    f = [i \in 1 .. n |-> IF i = 1 THEN parts[i] ELSE f[i - 1] \o parts[i]]

LEMMA FlattenIs ==
    ASSUME NEW parts, Len(parts) # 0, \E f : FlattensTo(f, parts, Len(parts))
    PROVE  \E f : FlattensTo(f, parts, Len(parts)) /\ FlattenSeq(parts) = f[Len(parts)]
<1> DEFINE f == CHOOSE f : f = [i \in 1 .. Len(parts) |-> IF i = 1 THEN parts[i] ELSE f[i - 1] \o parts[i]]
<1>1. FlattenSeq(parts) = f[Len(parts)]
  BY DEF FlattenSeq
<1>2. f = [i \in 1 .. Len(parts) |-> IF i = 1 THEN parts[i] ELSE f[i - 1] \o parts[i]]
  <2>1. PICK g : g = [i \in 1 .. Len(parts) |-> IF i = 1 THEN parts[i] ELSE g[i - 1] \o parts[i]]
    BY DEF FlattensTo
  <2> QED BY <2>1
<1> HIDE DEF f
<1> QED BY <1>1, <1>2 DEF FlattensTo

NotFlattened(parts) == {n \in Nat : ~ \E f : FlattensTo(f, parts, n)}

LEMMA FlattensExist == ASSUME NEW parts, NEW n \in Nat PROVE \E f : FlattensTo(f, parts, n)
<1> SUFFICES ASSUME n \in NotFlattened(parts) PROVE FALSE
  BY DEF NotFlattened
<1>1. PICK k \in NotFlattened(parts) : \A m \in NotFlattened(parts) : k =< m
  <2>1. NotFlattened(parts) \subseteq Nat
    BY DEF NotFlattened
  <2> QED BY <2>1, LeastNatural
<1>2. k \in Nat
  BY DEF NotFlattened
<1>3. CASE k = 0
  <2>1. FlattensTo(<<>>, parts, 0)
    BY DEF FlattensTo
  <2> QED BY <1>3, <2>1 DEF NotFlattened
<1>4. CASE k # 0
  <2>1. k - 1 \in Nat /\ k - 1 \notin NotFlattened(parts)
    BY <1>1, <1>2, <1>4
  <2>2. PICK f : FlattensTo(f, parts, k - 1)
    BY <2>1 DEF NotFlattened
  <2> DEFINE h == [i \in 1 .. k |-> IF i = k THEN IF i = 1 THEN parts[i] ELSE f[i - 1] \o parts[i] ELSE f[i]]
  <2>3. \A i \in 1 .. k : h[i] = IF i = 1 THEN parts[i] ELSE h[i - 1] \o parts[i]
    <3> TAKE i \in 1 .. k
    <3>1. i # 1 => i - 1 \in 1 .. k /\ i - 1 # k /\ h[i - 1] = f[i - 1]
      BY <1>2
    <3>2. CASE i = k
      BY <3>1, <3>2
    <3>3. CASE i # k
      <4>1. i \in 1 .. k - 1 /\ h[i] = f[i]
        BY <1>2, <3>3
      <4>2. f[i] = IF i = 1 THEN parts[i] ELSE f[i - 1] \o parts[i]
        BY <2>2, <4>1 DEF FlattensTo
      <4> QED BY <3>1, <4>1, <4>2
    <3> QED BY <3>2, <3>3
  <2>4. h = [i \in 1 .. k |-> h[i]]
    OBVIOUS
  <2> HIDE DEF h
  <2>5. FlattensTo(h, parts, k)
    BY <2>3, <2>4 DEF FlattensTo
  <2> QED BY <2>5 DEF NotFlattened
<1> QED BY <1>3, <1>4

\* Where the parts are: the elements of part i follow position st[i].
PartsAt(st, flat, parts, n) ==
    /\ \A i \in 1 .. n : /\ st[i] \in Nat
                         /\ \A m \in 1 .. Len(parts[i]) : st[i] + m \in 1 .. Len(flat) /\ flat[st[i] + m] = parts[i][m]
    /\ \A k \in 1 .. Len(flat) : \E i \in 1 .. n : \E m \in 1 .. Len(parts[i]) : k = st[i] + m

LEMMA PartsFollow ==
    ASSUME NEW S, NEW parts, NEW N \in Nat, \A i \in 1 .. N : parts[i] \in Seq(S),
           NEW f, FlattensTo(f, parts, N), NEW st, \A i \in 1 .. N : st[i] = IF i = 1 THEN 0 ELSE Len(f[i - 1]),
           NEW n \in 1 .. N, n > 1 => f[n - 1] \in Seq(S) /\ PartsAt(st, f[n - 1], parts, n - 1)
    PROVE  f[n] \in Seq(S) /\ PartsAt(st, f[n], parts, n)
<1>1. PICK p : p = parts[n] /\ p \in Seq(S)
  OBVIOUS
<1>2. Len(p) \in Nat
  BY <1>1
<1>3. CASE n = 1
  <2>1. f[n] = p /\ st[1] = 0
    BY <1>1, <1>3 DEF FlattensTo
  <2> QED BY <1>1, <1>2, <1>3, <2>1 DEF PartsAt
<1>4. CASE n # 1
  <2>1. n > 1 /\ n - 1 \in 1 .. N /\ 1 .. n = 1 .. n - 1 \cup {n}
    BY <1>4
  <2>2. PICK s : s = f[n - 1]
    OBVIOUS
  <2>3. s \in Seq(S) /\ Len(s) \in Nat /\ PartsAt(st, s, parts, n - 1)
    BY <2>1, <2>2
  <2>4. f[n] = s \o p /\ st[n] = Len(s)
    <3>1. f[n] = IF n = 1 THEN parts[n] ELSE f[n - 1] \o parts[n]
      BY DEF FlattensTo
    <3>2. st[n] = Len(f[n - 1])
      BY <2>1
    <3> QED BY <1>1, <1>4, <2>2, <3>1, <3>2
  <2>5. PICK t : t = s \o p
    OBVIOUS
  <2>6. t \in Seq(S) /\ Len(t) = Len(s) + Len(p)
    BY <1>1, <2>3, <2>5, ConcatProperties
  <2>7. \A i \in 1 .. Len(s) + Len(p) : t[i] = IF i =< Len(s) THEN s[i] ELSE p[i - Len(s)]
    BY <1>1, <2>3, <2>5, ConcatProperties
  <2>8. ASSUME NEW i \in 1 .. n
        PROVE  /\ st[i] \in Nat
               /\ \A m \in 1 .. Len(parts[i]) : st[i] + m \in 1 .. Len(t) /\ t[st[i] + m] = parts[i][m]
    <3>1. CASE i = n
      <4>1. parts[i] = p /\ st[i] = Len(s)
        BY <1>1, <2>4, <3>1
      <4>2. ASSUME NEW m \in 1 .. Len(p) PROVE Len(s) + m \in 1 .. Len(t) /\ t[Len(s) + m] = p[m]
        <5>1. /\ Len(s) + m \in 1 .. Len(s) + Len(p) /\ ~(Len(s) + m =< Len(s))
              /\ (Len(s) + m) - Len(s) = m
          BY <1>2, <2>3
        <5> QED BY <2>6, <2>7, <5>1
      <4> QED BY <2>3, <4>1, <4>2
    <3>2. CASE i # n
      <4>1. i \in 1 .. n - 1
        BY <2>1, <3>2
      <4>2. /\ st[i] \in Nat
            /\ \A m \in 1 .. Len(parts[i]) : st[i] + m \in 1 .. Len(s) /\ s[st[i] + m] = parts[i][m]
        BY <2>3, <4>1 DEF PartsAt
      <4>3. \A k \in 1 .. Len(s) : k \in 1 .. Len(t) /\ t[k] = s[k]
        BY <1>2, <2>3, <2>6, <2>7
      <4> QED BY <4>2, <4>3
    <3> QED BY <3>1, <3>2
  <2>9. ASSUME NEW k \in 1 .. Len(t) PROVE \E i \in 1 .. n : \E m \in 1 .. Len(parts[i]) : k = st[i] + m
    <3>1. CASE k =< Len(s)
      <4>1. k \in 1 .. Len(s)
        BY <2>3, <3>1
      <4>2. PICK i \in 1 .. n - 1 : \E m \in 1 .. Len(parts[i]) : k = st[i] + m
        BY <2>3, <4>1 DEF PartsAt
      <4>3. i \in 1 .. n
        BY <2>1
      <4> QED BY <4>2, <4>3
    <3>2. CASE ~(k =< Len(s))
      <4>1. k - Len(s) \in 1 .. Len(p) /\ k = Len(s) + (k - Len(s))
        BY <1>2, <2>3, <2>6, <3>2
      <4>2. n \in 1 .. n /\ parts[n] = p /\ st[n] = Len(s)
        BY <1>1, <2>1, <2>4
      <4> QED BY <4>1, <4>2
    <3> QED BY <3>1, <3>2
  <2>10. PartsAt(st, t, parts, n)
    BY <2>8, <2>9 DEF PartsAt
  <2> QED BY <2>4, <2>5, <2>6, <2>10
<1> QED BY <1>3, <1>4

\* What a flattened sequence has at which position.
LEMMA FlattenedParts ==
    ASSUME NEW S, NEW parts, NEW N \in Nat \ {0}, Len(parts) = N, \A i \in 1 .. N : parts[i] \in Seq(S)
    PROVE  FlattenSeq(parts) \in Seq(S) /\ \E st : PartsAt(st, FlattenSeq(parts), parts, N)
<1>1. PICK f : FlattensTo(f, parts, N) /\ FlattenSeq(parts) = f[N]
  BY FlattensExist, FlattenIs
<1>2. PICK st : st = [i \in 1 .. N |-> IF i = 1 THEN 0 ELSE Len(f[i - 1])]
  OBVIOUS
<1>3. \A i \in 1 .. N : st[i] = IF i = 1 THEN 0 ELSE Len(f[i - 1])
  BY <1>2
<1> DEFINE Failing == {n \in 1 .. N : ~(f[n] \in Seq(S) /\ PartsAt(st, f[n], parts, n))}
<1>4. Failing = {}
  <2> SUFFICES ASSUME Failing # {} PROVE FALSE
    OBVIOUS
  <2>1. Failing \subseteq Nat
    OBVIOUS
  <2>2. PICK n \in Failing : \A m \in Failing : n =< m
    <3> HIDE DEF Failing
    <3> QED BY <2>1, LeastNatural
  <2>3. n > 1 => f[n - 1] \in Seq(S) /\ PartsAt(st, f[n - 1], parts, n - 1)
    <3> SUFFICES ASSUME n > 1 PROVE n - 1 \in 1 .. N /\ n - 1 \notin Failing
      OBVIOUS
    <3>1. n \in 1 .. N /\ ~(n =< n - 1)
      OBVIOUS
    <3>2. n - 1 \notin Failing
      <4> HIDE DEF Failing
      <4> QED BY <2>2, <3>1
    <3> QED BY <3>1, <3>2
  <2>4. n \in 1 .. N
    OBVIOUS
  <2>5. f[n] \in Seq(S) /\ PartsAt(st, f[n], parts, n)
    <3> HIDE DEF Failing
    <3> QED BY <1>1, <1>3, <2>3, <2>4, PartsFollow
  <2> QED BY <2>5
<1>5. f[N] \in Seq(S) /\ PartsAt(st, f[N], parts, N)
  BY <1>4
<1> QED BY <1>1, <1>5

\* A sequence of some members of a set, none of them twice.
SomeOnce(s, S) == s \in Seq(S) /\ \A i, j \in DOMAIN s : s[i] = s[j] => i = j

LEMMA CutOnce ==
    ASSUME NEW S, NEW s, ListsOnce(s, S), NEW limit \in Nat
    PROVE  SomeOnce(Truncated(s, limit), S)
<1>1. s \in Seq(S) /\ Len(s) \in Nat /\ DOMAIN s = 1 .. Len(s)
  BY DEF ListsOnce
<1>2. PICK n : n = IF Len(s) < limit THEN Len(s) ELSE limit
  OBVIOUS
<1>3. n \in Nat /\ n =< Len(s)
  BY <1>1, <1>2
<1>4. PICK t : t = SubSeq(s, 1, n)
  OBVIOUS
<1>5. t \in Seq(S) /\ Len(t) = n /\ \A i \in 1 .. n : t[i] = s[i]
  <2>1. CASE n = 0
    <3>1. t = <<>>
      BY <1>1, <1>4, <2>1
    <3> QED BY <2>1, <3>1
  <2>2. CASE n # 0
    BY <1>1, <1>3, <1>4, <2>2
  <2> QED BY <2>1, <2>2
<1>6. DOMAIN t = 1 .. n
  BY <1>5
<1>7. \A i, j \in 1 .. n : i \in DOMAIN s /\ j \in DOMAIN s
  BY <1>1, <1>3
<1> QED BY <1>2, <1>4, <1>5, <1>6, <1>7 DEF SomeOnce, Truncated, ListsOnce

\* The rows that a flat list has below those that lead it, and the processes below one.
BelowHeads(query, rows) == {row \in rows : Shown(query, row) /\ ContainerProcess(row)}

LeadingRows(query, rows) == {row \in rows : Shown(query, row) /\ ~ContainerProcess(row)}

ListedHeads(query, rows) == Truncated(SortedSet(LeadingRows(query, rows), query.sort), query.limit)

ListedBelow(query, rows, head) ==
    IF query.showProcesses /\ head.kind = "container"
    THEN Truncated(SortedSet({c \in BelowHeads(query, rows) : ChildOf(c, head)}, query.sort), query.childLimit)
    ELSE <<>>

FlatPart(query, rows, head) == <<head>> \o ListedBelow(query, rows, head)

LEMMA FlatIs ==
    ASSUME NEW query, NEW rows
    PROVE  Flat(query, rows) = FlattenSeq([i \in DOMAIN ListedHeads(query, rows) |->
                                               FlatPart(query, rows, ListedHeads(query, rows)[i])])
<1>1. {row \in {row \in rows : Shown(query, row)} : ContainerProcess(row)} = BelowHeads(query, rows)
  BY DEF BelowHeads
<1>2. {row \in rows : Shown(query, row)} \ BelowHeads(query, rows) = LeadingRows(query, rows)
  BY DEF BelowHeads, LeadingRows
<1> QED BY <1>1, <1>2 DEF Flat, ListedHeads, ListedBelow, FlatPart

\* A container with its processes, or another row.
IsFlatPart(p, query, rows, head) ==
    /\ SomeOnce(p, rows) /\ Len(p) \in Nat \ {0} /\ p[1] = head
    /\ \A m \in 2 .. Len(p) : p[m] \in BelowHeads(query, rows) /\ head.kind = "container" /\ ChildOf(p[m], head)

LEMMA FlatPartIs ==
    ASSUME NEW rows, IsFiniteSet(rows), NEW query, query.childLimit \in Nat, NEW head \in LeadingRows(query, rows)
    PROVE  IsFlatPart(FlatPart(query, rows, head), query, rows, head)
<1> DEFINE C == {c \in BelowHeads(query, rows) : ChildOf(c, head)}
<1>1. C \subseteq rows /\ IsFiniteSet(C) /\ head \in rows /\ head \notin C
  <2>1. C \subseteq rows /\ head \in rows /\ head \notin C
    BY DEF BelowHeads, LeadingRows
  <2> QED BY <2>1, FS_Subset
<1> HIDE DEF C
<1>2. PICK q : q = ListedBelow(query, rows, head)
  OBVIOUS
<1>3. SomeOnce(q, C) /\ (Len(q) # 0 => head.kind = "container")
  <2>1. CASE query.showProcesses /\ head.kind = "container"
    <3>1. q = Truncated(SortedSet(C, query.sort), query.childLimit)
      BY <1>2, <2>1 DEF ListedBelow, C
    <3>2. ListsOnce(SortedSet(C, query.sort), C)
      BY <1>1, SortedRowsAre
    <3> QED BY <2>1, <3>1, <3>2, CutOnce
  <2>2. CASE ~(query.showProcesses /\ head.kind = "container")
    <3>1. q = <<>>
      BY <1>2, <2>2 DEF ListedBelow
    <3>2. SomeOnce(<<>>, C) /\ Len(<<>>) = 0
      BY DEF SomeOnce
    <3> QED BY <3>1, <3>2
  <2> QED BY <2>1, <2>2
<1>4. PICK p : p = <<head>> \o q
  OBVIOUS
<1>5. q \in Seq(C) /\ Len(q) \in Nat /\ DOMAIN q = 1 .. Len(q) /\ \A i \in 1 .. Len(q) : q[i] \in C
  BY <1>3 DEF SomeOnce
<1>6. q \in Seq(rows)
  BY <1>1, <1>5
<1>7. p \in Seq(rows) /\ Len(p) = 1 + Len(q)
  BY <1>1, <1>4, <1>6
<1>8. DOMAIN p = 1 .. 1 + Len(q) /\ p[1] = head /\ \A m \in 2 .. 1 + Len(q) : p[m] = q[m - 1] /\ m - 1 \in 1 .. Len(q)
  <2>1. <<head>> \in Seq(rows) /\ Len(<<head>>) = 1 /\ <<head>>[1] = head
    BY <1>1
  <2>2. \A m \in 1 .. 1 + Len(q) : p[m] = IF m =< 1 THEN <<head>>[m] ELSE q[m - 1]
    BY <1>4, <1>6, <2>1, ConcatProperties
  <2> QED BY <1>5, <1>7, <2>1, <2>2
<1>9. \A m \in 2 .. 1 + Len(q) : p[m] \in C
  BY <1>5, <1>8
<1>10. ASSUME NEW i \in DOMAIN p, NEW j \in DOMAIN p, p[i] = p[j] PROVE i = j
  <2>1. i \in 1 .. 1 + Len(q) /\ j \in 1 .. 1 + Len(q)
    BY <1>8, <1>10
  <2>2. CASE i = 1 \/ j = 1
    BY <1>1, <1>5, <1>8, <1>9, <1>10, <2>1, <2>2
  <2>3. CASE i # 1 /\ j # 1
    <3>1. i \in 2 .. 1 + Len(q) /\ j \in 2 .. 1 + Len(q)
      BY <1>5, <2>1, <2>3
    <3>2. q[i - 1] = q[j - 1] /\ i - 1 \in DOMAIN q /\ j - 1 \in DOMAIN q
      BY <1>5, <1>8, <1>10, <3>1
    <3>3. i - 1 = j - 1
      BY <1>3, <3>2 DEF SomeOnce
    <3> QED BY <3>1, <3>3
  <2> QED BY <2>2, <2>3
<1>11. SomeOnce(p, rows)
  BY <1>7, <1>10 DEF SomeOnce
<1>12. \A m \in 2 .. Len(p) : p[m] \in BelowHeads(query, rows) /\ head.kind = "container" /\ ChildOf(p[m], head)
  <2> TAKE m \in 2 .. Len(p)
  <2>1. p[m] \in C /\ Len(q) # 0
    BY <1>5, <1>7, <1>9
  <2> QED BY <1>3, <2>1 DEF C
<1>13. Len(p) \in Nat \ {0}
  BY <1>5, <1>7
<1> QED BY <1>2, <1>4, <1>8, <1>11, <1>12, <1>13 DEF IsFlatPart, FlatPart

\* A process follows the container that it is of, with only rows of its runtime between.
Follows(list, i) ==
    \E j \in 1 .. i - 1 : /\ list[j].kind = "container" /\ list[i].source = list[j].id
                          /\ \A k \in j .. i : list[k].env = list[i].env

\* The flat list of any rows and query: of the rows that the query shows it lists none
\* twice, each process follows the container of its own runtime, and without a limit
\* that cuts it off each row that is no process of a container is there (query.rs:166).
THEOREM FlatListing ==
    ASSUME NEW rows, IsFiniteSet(rows), NEW query, query.limit \in Nat, query.childLimit \in Nat,
           \A a, b \in rows : a.kind = "container" /\ b.kind = "container" /\ a.env = b.env /\ a.id = b.id => a = b,
           NEW list, list = Flat(query, rows)
    PROVE  /\ SomeOnce(list, {row \in rows : Shown(query, row)})
           /\ \A i \in DOMAIN list : ContainerProcess(list[i]) => Follows(list, i)
           /\ query.limit >= Cardinality(rows) =>
                  \A row \in LeadingRows(query, rows) : \E i \in DOMAIN list : list[i] = row
<1> DEFINE S == {row \in rows : Shown(query, row)}
<1>1. PICK heads : heads = ListedHeads(query, rows)
  OBVIOUS
<1>2. LeadingRows(query, rows) \subseteq rows /\ IsFiniteSet(LeadingRows(query, rows))
  <2>1. LeadingRows(query, rows) \subseteq rows
    BY DEF LeadingRows
  <2> QED BY <2>1, FS_Subset
<1>3. PICK sorted : sorted = SortedSet(LeadingRows(query, rows), query.sort)
  OBVIOUS
<1>4. ListsOnce(sorted, LeadingRows(query, rows)) /\ heads = Truncated(sorted, query.limit)
  BY <1>1, <1>2, <1>3, SortedRowsAre DEF ListedHeads
<1>5. SomeOnce(heads, LeadingRows(query, rows))
  BY <1>4, CutOnce
<1>6. PICK N : N = Len(heads)
  OBVIOUS
<1>7. N \in Nat /\ DOMAIN heads = 1 .. N /\ \A i \in 1 .. N : heads[i] \in LeadingRows(query, rows)
  BY <1>5, <1>6 DEF SomeOnce
<1>8. PICK parts : parts = [i \in 1 .. N |-> FlatPart(query, rows, heads[i])]
  OBVIOUS
<1>9. DOMAIN parts = 1 .. N /\ \A i \in 1 .. N : parts[i] = FlatPart(query, rows, heads[i])
  BY <1>8
<1>10. list = FlattenSeq(parts)
  BY <1>1, <1>7, <1>8, FlatIs
<1>11. \A i \in 1 .. N : IsFlatPart(parts[i], query, rows, heads[i])
  BY <1>7, <1>9, FlatPartIs
<1>12. \A i \in 1 .. N : \A m \in 1 .. Len(parts[i]) : parts[i][m] \in S
  <2> TAKE i \in 1 .. N
  <2> TAKE m \in 1 .. Len(parts[i])
  <2>1. CASE m = 1
    <3>1. parts[i][m] \in LeadingRows(query, rows)
      BY <1>7, <1>11, <2>1 DEF IsFlatPart
    <3> QED BY <3>1 DEF LeadingRows
  <2>2. CASE m # 1
    <3>1. Len(parts[i]) \in Nat
      BY <1>11 DEF IsFlatPart
    <3>2. m \in 2 .. Len(parts[i])
      BY <2>2, <3>1
    <3>3. parts[i][m] \in BelowHeads(query, rows)
      BY <1>11, <3>2 DEF IsFlatPart
    <3> QED BY <3>3 DEF BelowHeads
  <2> QED BY <2>1, <2>2
<1>13. \A i \in 1 .. N : parts[i] \in Seq(S)
  <2> TAKE i \in 1 .. N
  <2> HIDE DEF S
  <2>1. PICK p : p = parts[i]
    OBVIOUS
  <2>2. p \in Seq(rows) /\ \A m \in 1 .. Len(p) : p[m] \in S
    BY <1>11, <1>12, <2>1 DEF IsFlatPart, SomeOnce
  <2>3. p \in [1 .. Len(p) -> S] /\ Len(p) \in Nat
    BY <2>2
  <2>4. p \in Seq(S)
    BY <2>3
  <2> QED BY <2>1, <2>4
<1>14. list \in Seq(S) /\ Len(list) \in Nat /\ DOMAIN list = 1 .. Len(list) /\ \E st : PartsAt(st, list, parts, N)
  <2> HIDE DEF S
  <2>1. CASE N = 0
    <3>1. parts = <<>> /\ Len(parts) = 0
      BY <1>8, <2>1
    <3>2. list = <<>>
      BY <1>10, <3>1 DEF FlattenSeq
    <3>3. PartsAt(parts, <<>>, parts, 0)
      BY DEF PartsAt
    <3>4. list \in Seq(S) /\ Len(list) = 0 /\ DOMAIN list = 1 .. 0
      BY <3>2
    <3> QED BY <2>1, <3>2, <3>3, <3>4
  <2>2. CASE N # 0
    <3>1. Len(parts) = N
      BY <1>7, <1>8
    <3>2. list \in Seq(S) /\ \E st : PartsAt(st, list, parts, N)
      BY <1>7, <1>10, <1>13, <2>2, <3>1, FlattenedParts
    <3> QED BY <3>2
  <2> QED BY <2>1, <2>2
<1>15. PICK st : PartsAt(st, list, parts, N)
  BY <1>14
<1> HIDE DEF S
<1>16. \A k \in 1 .. Len(list) : \E i \in 1 .. N : \E m \in 1 .. Len(parts[i]) :
           k = st[i] + m /\ list[k] = parts[i][m]
  <2> TAKE k \in 1 .. Len(list)
  <2>1. PICK i \in 1 .. N : \E m \in 1 .. Len(parts[i]) : k = st[i] + m
    BY <1>15 DEF PartsAt
  <2>2. PICK m \in 1 .. Len(parts[i]) : k = st[i] + m
    BY <2>1
  <2>3. list[st[i] + m] = parts[i][m]
    BY <1>15 DEF PartsAt
  <2> QED BY <2>2, <2>3
<1>17. ASSUME NEW i \in 1 .. N, NEW m \in 1 .. Len(parts[i])
       PROVE  /\ st[i] \in Nat /\ st[i] + 1 \in 1 .. Len(list) /\ st[i] + m \in 1 .. Len(list)
              /\ list[st[i] + 1] = heads[i] /\ list[st[i] + m] = parts[i][m]
  <2>1. Len(parts[i]) \in Nat \ {0} /\ parts[i][1] = heads[i]
    BY <1>11 DEF IsFlatPart
  <2>2. 1 \in 1 .. Len(parts[i])
    BY <2>1
  <2> QED BY <1>15, <2>1, <2>2 DEF PartsAt
<1>18. ASSUME NEW i \in 1 .. N, NEW m \in 1 .. Len(parts[i])
       PROVE  \/ m = 1 /\ parts[i][m] = heads[i] /\ ~ContainerProcess(parts[i][m])
              \/ /\ m \in 2 .. Len(parts[i]) /\ ContainerProcess(parts[i][m])
                 /\ heads[i].kind = "container" /\ ChildOf(parts[i][m], heads[i])
  <2>1. Len(parts[i]) \in Nat
    BY <1>11 DEF IsFlatPart
  <2>2. CASE m = 1
    BY <1>7, <1>11, <2>2 DEF IsFlatPart, LeadingRows
  <2>3. CASE m # 1
    <3>1. m \in 2 .. Len(parts[i])
      BY <2>1, <2>3
    <3> QED BY <1>11, <3>1 DEF IsFlatPart, BelowHeads
  <2> QED BY <2>2, <2>3
<1>19. ASSUME NEW k \in 1 .. Len(list), NEW l \in 1 .. Len(list), list[k] = list[l] PROVE k = l
  <2>0. PICK i \in 1 .. N : \E m \in 1 .. Len(parts[i]) : k = st[i] + m /\ list[k] = parts[i][m]
    BY <1>16
  <2>1. PICK m \in 1 .. Len(parts[i]) : k = st[i] + m /\ list[k] = parts[i][m]
    BY <2>0
  <2>7. PICK j \in 1 .. N : \E n \in 1 .. Len(parts[j]) : l = st[j] + n /\ list[l] = parts[j][n]
    BY <1>16
  <2>2. PICK n \in 1 .. Len(parts[j]) : l = st[j] + n /\ list[l] = parts[j][n]
    BY <2>7
  <2>3. PICK row : row = parts[i][m] /\ row = parts[j][n]
    BY <1>19, <2>1, <2>2
  <2>4. heads[i] = heads[j]
    <3>1. CASE ContainerProcess(row)
      <4>1. /\ heads[i].kind = "container" /\ ChildOf(row, heads[i])
            /\ heads[j].kind = "container" /\ ChildOf(row, heads[j])
        BY <1>18, <2>3, <3>1
      <4>2. heads[i] \in rows /\ heads[j] \in rows
        BY <1>2, <1>7
      <4>3. heads[i].env = heads[j].env /\ heads[i].id = heads[j].id
        BY <4>1 DEF ChildOf
      <4> QED BY <4>1, <4>2, <4>3
    <3>2. CASE ~ContainerProcess(row)
      BY <1>18, <2>3, <3>2
    <3> QED BY <3>1, <3>2
  <2>5. i = j
    BY <1>5, <1>7, <2>4 DEF SomeOnce
  <2>6. m = n
    <3>1. SomeOnce(parts[i], rows)
      BY <1>11 DEF IsFlatPart
    <3>2. DOMAIN parts[i] = 1 .. Len(parts[i])
      BY <3>1 DEF SomeOnce
    <3> QED BY <2>3, <2>5, <3>1, <3>2 DEF SomeOnce
  <2> QED BY <2>1, <2>2, <2>5, <2>6
<1>20. ASSUME NEW k \in 1 .. Len(list), ContainerProcess(list[k]) PROVE Follows(list, k)
  <2>0. PICK i \in 1 .. N : \E m \in 1 .. Len(parts[i]) : k = st[i] + m /\ list[k] = parts[i][m]
    BY <1>16
  <2>1. PICK m \in 1 .. Len(parts[i]) : k = st[i] + m /\ list[k] = parts[i][m]
    BY <2>0
  <2>2. /\ m \in 2 .. Len(parts[i]) /\ heads[i].kind = "container" /\ ChildOf(list[k], heads[i])
        /\ Len(parts[i]) \in Nat
    BY <1>11, <1>18, <1>20, <2>1 DEF IsFlatPart
  <2>3. /\ st[i] \in Nat /\ st[i] + 1 \in 1 .. k - 1 /\ list[st[i] + 1] = heads[i]
    <3>1. PICK before : before = st[i]
      OBVIOUS
    <3>2. before \in Nat /\ k = before + m /\ list[before + 1] = heads[i]
      BY <1>17, <2>1, <3>1
    <3>3. m \in Nat /\ m >= 2
      BY <2>2
    <3>4. before + 1 \in 1 .. k - 1
      BY <3>2, <3>3
    <3> QED BY <3>1, <3>2, <3>4
  <2>4. ASSUME NEW l \in (st[i] + 1) .. k PROVE list[l].env = list[k].env
    <3>1. PICK before, size : before = st[i] /\ size = Len(parts[i])
      OBVIOUS
    <3>2. PICK n \in 1 .. Len(parts[i]) : l = st[i] + n
      <4>1. before \in Nat /\ size \in Nat /\ m \in 2 .. size /\ k = before + m /\ l \in before + 1 .. k
        BY <2>1, <2>2, <2>3, <3>1
      <4>2. l - before \in 1 .. size /\ l = before + (l - before)
        BY <4>1
      <4> QED BY <3>1, <4>2
    <3>3. list[l] = parts[i][n]
      BY <1>17, <3>2
    <3>4. list[l] = heads[i] \/ ChildOf(list[l], heads[i])
      BY <1>18, <3>3
    <3> QED BY <2>2, <3>4 DEF ChildOf
  <2>5. PICK j \in 1 .. k - 1 : j = st[i] + 1
    BY <2>3
  <2>6. list[j].kind = "container" /\ list[k].source = list[j].id /\ \A l \in j .. k : list[l].env = list[k].env
    BY <2>2, <2>3, <2>4, <2>5 DEF ChildOf
  <2> QED BY <2>6 DEF Follows
<1>21. ASSUME query.limit >= Cardinality(rows), NEW row \in LeadingRows(query, rows)
       PROVE  \E i \in 1 .. Len(list) : list[i] = row
  <2>1. Cardinality(LeadingRows(query, rows)) =< Cardinality(rows)
    BY <1>2, FS_Subset
  <2>2. Cardinality(LeadingRows(query, rows)) \in Nat /\ Cardinality(rows) \in Nat
    BY <1>2, FS_CardinalityType
  <2>3. query.limit >= Cardinality(LeadingRows(query, rows))
    BY <1>21, <2>1, <2>2
  <2>4. heads = sorted
    BY <1>2, <1>4, <2>3, NothingCut
  <2>5. PICK i \in 1 .. N : heads[i] = row
    BY <1>4, <1>7, <2>4 DEF ListsOnce
  <2>6. Len(parts[i]) \in Nat \ {0}
    BY <1>11 DEF IsFlatPart
  <2>7. 1 \in 1 .. Len(parts[i])
    BY <2>6
  <2> QED BY <1>17, <2>5, <2>7
<1>22. SomeOnce(list, S)
  BY <1>14, <1>19 DEF SomeOnce
<1> QED BY <1>14, <1>20, <1>21, <1>22 DEF S

FlatOnceOf(list, rows) ==
    \A row \in rows :
        LET At == {i \in DOMAIN list : list[i] = row}
        IN  /\ Cardinality(At) =< 1
            /\ ~ContainerProcess(row) /\ ~IsHostResource(row) => At # {}
            /\ ContainerProcess(row) => \A i \in At :
                   \E j \in 1 .. (i - 1) : /\ list[j].kind = "container" /\ row.source = list[j].id
                                         /\ \A k \in j .. i : list[k].env = row.env

\* The same of the cases that are checked, and of any others with a query that hides
\* nothing but the host and rows of which no two containers have one runtime and ID.
THEOREM FlatListsRowsOnce ==
    ASSUME IsFiniteSet(case.rows), case.query.limit \in Nat, case.query.childLimit \in Nat,
           case.query.limit >= Cardinality(case.rows),
           case.query.hideInfra = FALSE, case.query.hideWindows = FALSE,
           \A a, b \in case.rows :
               a.kind = "container" /\ b.kind = "container" /\ a.env = b.env /\ a.id = b.id => a = b
    PROVE  FlatListsOnce
<1>1. PICK query, rows, list : query = case.query /\ rows = case.rows /\ list = Flat(query, rows)
  OBVIOUS
<1>2. /\ SomeOnce(list, {row \in rows : Shown(query, row)})
      /\ \A i \in DOMAIN list : ContainerProcess(list[i]) => Follows(list, i)
      /\ \A row \in LeadingRows(query, rows) : \E i \in DOMAIN list : list[i] = row
  <2>1. query.limit >= Cardinality(rows)
    BY <1>1
  <2>2. \A a, b \in rows : a.kind = "container" /\ b.kind = "container" /\ a.env = b.env /\ a.id = b.id => a = b
    BY <1>1
  <2> QED BY <1>1, <2>1, <2>2, FlatListing
<1>3. ASSUME NEW row \in rows, NEW At, At = {i \in DOMAIN list : list[i] = row}
      PROVE  /\ Cardinality(At) =< 1
             /\ ~ContainerProcess(row) /\ ~IsHostResource(row) => At # {}
             /\ ContainerProcess(row) => \A i \in At :
                    \E j \in 1 .. i - 1 : /\ list[j].kind = "container" /\ row.source = list[j].id
                                          /\ \A k \in j .. i : list[k].env = row.env
  <2>1. Cardinality(At) =< 1
    <3>1. CASE At = {}
      BY <3>1, FS_EmptySet
    <3>2. CASE At # {}
      <4>1. PICK i : i \in At
        BY <3>2
      <4>2. \A j \in At : j = i
        BY <1>2, <1>3, <4>1 DEF SomeOnce
      <4>3. At = {i}
        BY <4>1, <4>2
      <4>4. Cardinality({i}) = 1
        BY FS_Singleton
      <4> QED BY <4>3, <4>4
    <3> QED BY <3>1, <3>2
  <2>2. ASSUME ~ContainerProcess(row), ~IsHostResource(row) PROVE At # {}
    <3>1. row \in LeadingRows(query, rows)
      BY <1>1, <2>2 DEF LeadingRows, Shown
    <3> QED BY <1>2, <1>3, <3>1
  <2>3. ASSUME ContainerProcess(row), NEW i \in At
        PROVE  \E j \in 1 .. i - 1 : /\ list[j].kind = "container" /\ row.source = list[j].id
                                     /\ \A k \in j .. i : list[k].env = row.env
    <3>1. i \in DOMAIN list /\ list[i] = row
      BY <1>3
    <3> QED BY <1>2, <2>3, <3>1 DEF Follows
  <2> QED BY <2>1, <2>2, <2>3
<1>4. FlatOnceOf(list, rows)
  BY <1>3 DEF FlatOnceOf
<1>5. FlatOnceOf(Flat(case.query, case.rows), case.rows)
  BY <1>1, <1>4
<1> QED BY <1>5 DEF FlatListsOnce, FlatOnceOf

-----------------------------------------------------------------------------
(* The cases together.                                                      *)

\* The pure algorithms compute what their references say, for any case within the
\* hypotheses of the theorems above: any counters, rows and sorts, any answers, and
\* three processes of applications.
THEOREM AlgorithmsAreCorrect ==
    ASSUME IsCase("accounting") =>
               \A s \in {case.before, case.after} : IsCounters(s.physical) /\ IsCounters(s.root) /\ IsCounters(s.guest),
           IsCase("order") => case.sort \in Sorts /\ case.triple \in [1 .. 3 -> SortableRows],
           IsCase("applications") => case \in ApplicationCases,
           WebView # App, CanonicalIdentity(WebView) # App,
           IsCase("flat") =>
               /\ IsFiniteSet(case.rows) /\ case.query.limit \in Nat /\ case.query.childLimit \in Nat
               /\ case.query.limit >= Cardinality(case.rows)
               /\ case.query.hideInfra = FALSE /\ case.query.hideWindows = FALSE
               /\ \A a, b \in case.rows :
                      a.kind = "container" /\ b.kind = "container" /\ a.env = b.env /\ a.id = b.id => a = b
    PROVE  AlgorithmsCorrect
<1>1. PartitionsAddUp
  BY PartitionsOfHostAddUp DEF PartitionsAddUp
<1>2. OrderIsTotal
  BY RowOrderIsTotal DEF OrderIsTotal
<1>3. GroupedByAncestry
  BY ApplicationsOfThree DEF GroupedByAncestry
<1>4. FlatListsOnce
  BY FlatListsRowsOnce DEF FlatListsOnce
<1>5. CompleteMeansEvery
  BY CompleteStatisticsHaveEvery
<1> QED BY <1>1, <1>2, <1>3, <1>4, <1>5 DEF AlgorithmsCorrect
=============================================================================
