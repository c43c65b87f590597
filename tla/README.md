# Verification of wsltop

wsltop is a process monitor for Windows and WSL written in Rust. It samples
Windows processes, WSL distributions and container runtimes from separate
threads, combines them into one view, lets a terminal interface end a process,
and serves snapshots of the view to MCP clients. This directory holds TLA+
modules of its core, TLC configurations that check them on small instances,
and TLAPS proofs.

Paths such as `src/src/stream.rs` are relative to the directory that holds both
the repository (`src/`) and this project (`tla/`). `PROJECT.json` maps every
definition to the lines it models.

## Inventory

### Streaming aggregator (`stream.rs`, `struct Aggregate`)

*State.* The host CPU count in use and whether it was confirmed; the latest rows
of the primary distribution, of Windows, of each additional distribution and of
each container runtime; process lists attached to containers; which collectors
are loading, which failed, which warned; the scope that actions need.

*Operations.* `apply` takes one event. `snapshot` combines the state into what is
shown and decides which environments are called available.

*Interaction.* Events arrive over one mpsc channel from all collectors; snapshots
go to the TUI.

*Hard.* Rows are percentages of the host's capacity, so rows divided by different
CPU counts must not be added up. The count can change while every collector is
in flight. Results of slow detail commands arrive after newer aggregates.

*Correct when* rows shown together share one confirmed count; an environment
called available has all its rows; a list that could not be refreshed is kept
and marked; every collector leaves the loading state.

### Streaming collector threads (`stream.rs`, `run` and the `spawn_*` functions)

*State.* Per thread its baseline; shared: an `AtomicU32` CPU count, the stop flag,
the details flag; per runtime a channel of capacity one to a detail worker, whose
cache is the usage of its last job.

*Operations.* Windows: snapshot, store the count, announce it, send memory, send
usage. Primary: capture between two loads of the count, send. Additional: load
the count, discover, send deltas and failures. Runtimes: load the count, send the
aggregate, offer a detail job. Detail worker: take a job, reuse or populate, send.

*Hard.* Loads, collection and sends are separate steps of separate threads; full
detail channels drop jobs; any command fails; stopping meets every thread
anywhere.

*Correct when* the count of a Windows event was announced before it, kernel CPU
windows do not span a change, recovery follows the last fault and stop ends all.

### Snapshot store (`snapshot_store.rs`)

*State.* A namespace counter, a sequence counter, the last capture time and a
bounded deque of snapshots. *Operations.* Insert with validation between two
readings of the clock; rotate the namespace; get by ID or the latest within a
maximum age. *Hard.* Expiry, eviction, rotation and exhausted counters combine in
long sequences; time passes during validation. *Correct when* an ID names one
observation for ever, what is readable is a suffix of what was inserted, and the
latest entry is the newest capture.

### Query service and MCP adapter (`query_service.rs`, `mcp.rs`)

*State.* A collector behind one mutex and the store behind another; in the MCP
adapter a semaphore with one permit. *Operations.* A query of an ID reads the
store; a query of the latest takes the collector's lock, looks in the store,
collects and inserts. *Interaction.* The adapter runs queries on blocking threads
that survive the cancellation of their request. *Hard.* Requests that wait while
another collects, cancellation and retries, collections that fail, panic or never
end. *Correct when* an answer is the observation asked for or one fresh enough,
collections never pile up, and pinned reads never wait for a collection.

### Process termination (`action.rs`, `terminate.py`)

*State.* A request names a distribution, a PID, its start ticks and a scope. A
worker thread runs `wsl.exe` with a limit of 12 s; a helper inside the
distribution has an absolute deadline of 10 s.

*Operations.* The helper compares the scope, opens a pidfd, reads start ticks and
namespaces, checks the deadline and signals through the pidfd. The host maps what
the helper printed, or its silence, to a message.

*Hard.* PIDs are reused and the guest restarts between confirmation and signal,
and between any two calls of the helper; the wait can end while the helper runs. Rows
of other environments can have the PID and start ticks of a process of the primary
distribution, and the helper is told no environment.

*Correct when* a signal only reaches the confirmed process, once, and what the user
is told never denies a signal that was sent.

### TUI (`tui.rs`, `render.rs`, `header.rs`)

*State.* The snapshot on display, filters, sort, tree or list, the lines, the
selection, the scroll, an open confirmation, the receiver of an action in flight.

*Operations.* A turn of the loop polls the action, applies the samples that arrived,
draws, and takes at most one key.

*Hard.* Samples, filters and sorting rebuild the list under a selection and under an
open confirmation. *Correct when* what is confirmed is what is displayed, the
selection is one visible row of one instance, one action is in flight at a time and
none for ever.

### Command runner (`command.rs`, `command_unix.rs`, `command_windows.rs`)

*State.* Per call a child, its process group or Job Object, two pipes with a reader
thread each, a time limit. *Hard.* Descendants that keep a pipe or leave the group;
children that inherit the pipes of another call; a start that fails half-way.
*Correct when* every call returns, with the whole output or with the reason why
not, and leaves nothing behind that it could have ended.

### Collector discovery and plans (`collector.rs`, `multiwsl.rs`)

*State.* The primary distribution with its collector, the additional ones, made
when first seen and kept. *Operations.* Make a plan for the platform; capture the
primary, discover, capture the others; one call of a stream. *Hard.* Distributions
start and stop between discovery and capture, names differ in case, a call to
`wsl.exe` starts what has stopped. *Correct when* each running distribution is
sampled by exactly one collector.

### One-shot monitor (`monitor.rs`, `summary.rs`)

*State.* Three captures of WSL, two or three snapshots of Windows, two worker
threads for container runtimes, the CPU count the workers use. *Operations.* One
fixed sequence around the workers, then the assembly of a snapshot. *Hard.* The CPU
count may become known in between, workers fail or panic, distributions come and
go. *Correct when* a total that is shown is complete, everything was divided by one
count, exclusive CPU comes of probes inside the kernel's window, and a sample ends.

### CPU accounting (`cpu_accounting.rs`, `linux_cpu.rs`, `linux_proc.rs`, `linux.rs`, `sampler.rs`)

Counters read twice: resets, partitions read one after the other, processes that
come and go while `/proc` is scanned. *Correct when* a rate is of one process, a
build contains only processes that were in its cgroup, and parts add up.

### Windows collector (`windows.rs`), container collectors (`wslc.rs`, `docker.rs`)

Commands and the interpretation of their output; the CPU count that CIM answered
once is kept. *Hard.* Partial output. *Correct when* only complete statistics are
called complete.

### Guest CPU history (`guest_cpu.rs`, `history.rs`)

*State.* A series of points per counter; the columns of a chart. *Hard.* Counter
resets, reboots, one cgroup that two runtimes show, points of different times, a full
ring. *Correct when* an exclusive share is what its containers really used in
one common window, and a column shows the result of its slot.

### Attribution (`attribution.rs`, `buildkit.rs`, `windows_app.rs`)

Pure functions that assign processes to hosts, applications and builds. *Correct
when* CPU is neither lost nor counted twice and no process gets a parent that was
started after it.

### Query model and API (`query.rs`, `query_api.rs`, `identity.rs`, `model.rs`)

Order, filters and limits, the tree, identities, and a catalog that refuses
ambiguous or cyclic snapshots. *Correct when* every snapshot the program makes
opens, each row is found under its identity, and the order is total.

### Command line (`main.rs`), packaging scripts

No state of their own.

## Modules

| Module | Models | Reads like |
|---|---|---|
| `Aggregate` | `Aggregate::apply`, readiness in `snapshot` | one action per event kind |
| `Stream` | `run` and its threads; extends `Aggregate` | one action per step that another thread can observe |
| `MCStream` | scenarios and fairness for TLC | |
| `RetainedLog` | what the store promises its readers | abstract specification |
| `SnapshotStore` | `snapshot_store.rs` | one action per operation |
| `NaturalLemmas` | least and greatest members of sets of naturals, sums over finite sets | lemmas |
| `SnapshotStoreProofs` | theorems about the store | proofs |
| `StreamProofs` | theorems about the aggregator and its threads | proofs |
| `QueryService` | `query_service.rs` and the gate of `mcp.rs`; extends `SnapshotStore` | one action per lock hold |
| `QueryServiceProofs` | theorems about the service; extends those about the store | proofs |
| `MCSnapshotStore`, `MCQueryService` | instances for TLC | |
| `TargetedSignal` | what termination promises | abstract specification |
| `Termination` | `action.rs`, `terminate.py` and the processes of the guest | one action per call of the helper |
| `TerminalUi` | the loop and keys of `tui.rs`; extends `Termination` | one action per part of a turn |
| `Command` | `command_unix.rs`, `command_windows.rs` | one action per system call |
| `ActionProofs` | theorems about termination, the loop and the command runner | proofs |
| `MCActions` | scenarios of the three for TLC | |
| `Resources` | samples, rows and their order: `model.rs`, `sampler.rs`, `buildkit.rs`, `query.rs` | operators |
| `Attribution` | `attribution.rs`, `windows_app.rs`, `summary.rs`; extends `Resources` | operators |
| `ResourceQuery` | `query.rs`, `identity.rs`, `query_api.rs`; extends `Attribution` | operators |
| `Containers` | `docker.rs`, `wslc.rs`; extends `Attribution` | operators |
| `CpuAccounting` | `cpu_accounting.rs`, `linux_cpu.rs`, `windows.rs`; extends `Resources` | operators |
| `Cases` | bounded inputs of these algorithms and what they must compute | one state per input |
| `ProcScan` | `linux.rs`, the script of `multiwsl.rs` and a changing `/proc` | one action per read |
| `CollectorPlan` | `collector.rs` and distributions that start and stop | one action per call of `wsl.exe` |
| `Monitor` | `monitor.rs`; extends the plan, the containers, the queries and the accounting | one action per capture, one thread per runtime |
| `StreamView` | the rows inside `Aggregate`, merged by `snapshot` | one action per event that brings rows |
| `GuestCpu`, `HostHistory` | `guest_cpu.rs`, `history.rs` | one action per reading or result |
| `HistoryProofs` | theorems about the columns and the exclusive guest CPU | proofs |
| `RowProofs` | theorems about scans, the rows made of them, and the pure algorithms | proofs |
| `CollectionProofs` | theorems about samples and the calls of a stream | proofs |
| `MCCollection` | scenarios of the collectors for TLC | |

### Stream and Aggregate

The abstraction is the CPU count. A row set is represented by the count its
percentages were divided by, or `None` when there are no rows; process names,
PIDs, memory and the percentages themselves are left out. A kernel CPU value is
represented by the set of counts that were in force at the ends of its window.
An empty Windows row list that `calculate_usage` returns for two snapshots of
different counts is `Unmeasured`: it is the one empty list that was not measured.

| Code | Model |
|---|---|
| fields of `Aggregate` | `hostCount` ... `planWarnings` |
| `Event` | `Events`, a record per kind |
| `has_stale_normalization` | `HasStaleNormalization`, `DropStale` |
| `pending`, `errors`, per-collector warnings | `pending`, `errors`, `extraErrors`, `detailWarnings`, `planWarnings` |
| mpsc channel, receiver | `queue`, `open` |
| `host_cpu_count: AtomicU32` | `cpus` |
| `HOST_LOGICAL_CPU_COUNT: OnceLock` | `cached` |
| a collector thread | `pc[w]` with its locals `capture`, `baseline`, `outgoing`, `loaded`, `before` |
| `sync_channel(1)` of a detail worker | `job[r]`; `work[r]` and `lastDetails[r]` are the worker's locals |

A thread's step ends where another thread can see it: at a load or store of the
count, at a send and at a receive. `WindowsSnapshot`, `WindowsAnnounce`,
`WindowsMemory` and `WindowsUsage` are four steps for that reason, and the
primary worker has `PrimaryCapture`, `PrimarySample` and `PrimarySend`. Sending an
aggregate and offering a detail job are one step: the aggregator sees only the
first, the detail worker only the second.

Only failures are bounded by `MaxFaults`: a failed command, a missing value, a
count that differs from the previous one, a distribution that starts or stops.
Everything else may happen for ever.

Five variables are history and influence nothing: `reported` is the set of
distributions that the last applied update found running, `retained` the
containers whose list is older than the last attempt to refresh it, `dropped` the
runtimes whose last process details were stale, `steady` the containers that every
sample of a runtime listed, applied or not, and `faults` counts faults.

Left out of `Stream`: cadences and warm-up delays (any worker may be next), the
two ends of the aggregator loop that are not the stop flag (a poisoned
configuration lock, a TUI that is gone), the merging of rows inside `snapshot`.

### SnapshotStore and QueryService

The deque is a set, ordered by sequence number. A snapshot is its number, its
namespace and the time its collection completed. `Insert` reads the clock twice,
as `insert_checked` does; the second reading can be later. `log` is history: all
entries ever inserted. The u64 counters end at `MaxCounter`.

In `QueryService` a request is a slot with a stage: `gate` (waiting for the
semaphore), `pinned`, `lock` (waiting for the collector), `cached` (looking in the
store), `collect` and `insert`. One hold of the store's lock is one step. `gated`
is chosen at the start: either the callers are threads that share the service, or
they are MCP requests, which pass the gate unless they name an ID and which can be
cancelled. A cancelled request that waits at the gate is gone; a cancelled worker
goes on with nobody listening (`live`). A collection succeeds, fails, panics and
poisons its lock, or never ends. `answer` is history: what the last step answered.

Left out: poisoning of the store's lock, parsing of arguments, pages and cursors,
the rendering of replies.

### Termination, TerminalUi and Command

| Code | Model |
|---|---|
| boot ID, namespaces and user of a `Scope` | one number, the `life` of the guest |
| environment, kind and source of a row | its `home`: the primary distribution, or elsewhere |
| rows of Windows, of containers and of other distributions | `OtherRows`, any of which may be in a sample |
| a process as `/proc` shows it | `processes[pid]`: the instance, its name, whether it is in the namespaces of the distribution |
| a `Request` and its worker thread | `requests[i]`, `answer[i]` (the message), `age[i]` (ticks since the deadline was fixed) |
| `terminate.py` at work | `helper[i]`: the call to come, the pidfd, the result, whom it signalled |
| fields of `State` | `snapshot` ... `receiver` |
| `lines`, `selectable_rows` | `lines`, in which `Heading` stands for a line that is no row |
| write ends of the pipes | `holders[c]`: the processes, and the host, that have one |
| process group, Job Object | `member` |

The steps of a helper are its calls, so that a process can exit and its PID be given
to another between any two of them. A pidfd is the instance it was opened for.
`GuestTime` is the clock of the guest, which may differ from the host's by `Skew`;
`TimeAssumption` says that the longer wait covers it.

A process from elsewhere can be selected like any other; `Rejects` refuses a request
for it as `Request::new` does (`NotPrimary`). That is what this part is about, so the
other rows do not change: they come and go with the samples, but their processes keep
name, PID and start ticks, and no two share a PID. That a selection follows the instance
(`SelectionFollowsInstance`) is therefore a statement about processes of the primary
distribution beside rows that can be mistaken for them. A row of a container has no PID;
`Request::new` refuses it twice, and here it is a row from elsewhere.

The loop takes at most one key a turn, as the code does; `Draw` decides whether a
confirmation fits the terminal, and `y` acts only on one that was visible. The list
is ordered by PID and home (any order would do), and a filter hides fixed places, a home
and a PID each (`Hides`).

`Command` follows the suspended start of Windows in its six calls and `pre_exec` of
Unix in one. The two pipes of a call are one, and so are its two reader threads. The
children of calls that start at once inherit each other's pipes.

### The collectors

`Monitor` is the main thread of `Monitor::sample` with the stages of `Order`, and one
thread per runtime. Its captures are those of `CollectorPlan`, call by call, while
`DistroChanges` starts and stops distributions. Each distribution runs one ordinary
process, one build and one process of the infrastructure, and every process uses
exactly one CPU, so that what a snapshot should show is known: `OneCpuCount` says
that each row, multiplied by the count that is shown, is one CPU. `cpus` is
`HOST_LOGICAL_CPU_COUNT`: a count of CIM is kept, until then PowerShell's
environment answers, which may see another number of CPUs (`Counted`).
`Assembled` follows the code from the captures to the snapshot: usage, merging of
builds, the tree, applications, the summary with the totals that are withdrawn, and
`guest_cpu::apply`. What `exclusive` may answer is the business of `GuestCpu`.

`StreamView` complements `Aggregate`: there the rows are only their scale, here they
are rows, and which results are refused is left out. `ProcScan` reads `/proc` file by
file. In `GuestCpu` containers use CPU at fixed rates, so that the answer of
`exclusive` can be compared with what was used, and what a counter has between two
readings is a whole number. A cgroup that two runtimes show is named after the
container that sorts first (`AliasOf`), as `exclusive` takes it.
`HostHistory` remembers all results in `arrivals` and compares the columns with them.
Results arrive in the order of their clock (`Coming`): one Windows worker takes them,
`Instant` does not go back, and they pass through one channel. So the guard that drops
a late result (`Late`, `history.rs:54`) is in the model as it is in the code, and
never true.

Numbers are scaled so that every division is exact: percentages are parts of `Scale`,
and rounding is left out. Names, IDs and sources are small naturals or sequences of
them, in the order of the strings. Rows are sets where the code sorts a list that is
sorted again later. `host_pids` of a container is empty in every list that the
collectors make, so that part of `build_tree` has nothing to do and is left out.

## Runs

| Run | Instance | Question |
|---|---|---|
| `stream_safety` | `Stream.cfg`: 2 counts, 2 distributions, 1 container, Docker; queue of 2; 2 faults in scenarios `scale` and `rounds`, 1 in the others | safety of the aggregator and its threads |
| `stream_recovery` | `StreamRecovery.cfg`: 2 counts, WSL workers only | recovery after the last fault |
| `stream_wsl_only` | `StreamWslOnly.cfg`: all threads of `wsl_only` with Docker | loading ends, shutdown |
| `stream_erased`, `stream_measured`, `stream_scope` | as `stream_safety`, smaller | three statements of the documentation that the code does not keep |
| `snapshot_store` | capacity 2, retention 3, counters to 3, time to 5 | safety of the store; it implements `RetainedLog` |
| `query_service` | 3 requests, capacity 1, counters to 2, time to 3 | safety of the service, gated or not |
| `query_ends` | 2 requests, time to 2 | liveness of the service |
| `actions` | 2 PIDs, 2 lives, 3 starts, 2 requests, 2 concurrent commands on either platform | safety and liveness of termination, the loop and the command runner; the composition implements `TargetedSignal` |
| `collection` | 2 distributions, 2 runtimes, 2 CPU counts, 1 fault, 1 change; all inputs of `Cases` | correctness of samples, scans, views and the pure algorithms |
| `collection_unnamed` | as `collection`, without `WSL_DISTRO_NAME` | one statement of the documentation that the code does not keep |

*Why these bounds are enough to be interesting.* Two counts give a change and a
change back. Two distributions let one be warm while the other is new. One
container is enough for missing and returning, since containers are only ever
compared with themselves. A queue of two holds an event of one thread behind an
event of another; longer queues add delay, not order, because every worker can
also be slow before its send. Two faults give a count change after the discovery
and a failure beside it. Capacity 2 distinguishes the end entries are taken from.
Three requests give a worker, one that waits and one that arrives. The lists
above are violated by mutants of the code within these bounds, one for each
property (`mutants` in `PROJECT.json`).

*Conjunctions.* Some properties that the runs check are conjunctions of named parts,
each stated where its component is modelled:

| Checked | Parts |
|---|---|
| `DisplayTrue` | `ConfirmationCurrent`, `SelectionListed`, `SelectionOnScreen` |
| `OutcomeTrue` | `OutputWhole`, `NoneLeftBehind` |
| `ActionsEnd` | `RequestSettled`, `CallEnds` |
| `DistributionsOnce` | `EachDistributionOnce`, `StreamVisitsRunning` |
| `TotalsWhole` | `TotalsComplete`, `DockerIncludesBuilds` |
| `MeasuredTogether` | `OneCpuCount`, `BracketedProbes` |
| `SnapshotConsistent` | `CatalogOpens`, `ChildrenListed`, `TreeConservesCpu` |
| `ListShowsOnce` | `OneRowEach`, `StreamConservesCpu` |
| `ScansExact` | `RatesExact` (`BuildMembership`, `RateOfOneProcess`, `DisabledBuildsKeepRows`), `BuildsCountedOnce` |
| `AlgorithmsCorrect` | `PartitionsAddUp`, `OrderIsTotal`, `GroupedByAncestry`, `FlatListsOnce`, `CompleteMeansEvery` |

The last four are theorems (`SampleSnapshotConsistent`, `StreamListShowsOnce`,
`CollectionScansExact`, `AlgorithmsAreCorrect`) that follow from those of their parts. The
mutant of a conjunction breaks one of its parts.

`EveryAnswerTrue` says of each request that its message is true and that the one
without an answer is the one the loop awaits, so that there is one worker at a time.
`HelperBounded` says that a helper signals no process of another namespace and that a
helper whose wait has ended does not come to signal any more.

*Scenarios.* All threads together exceed what TLC can enumerate. `ScenarioSpec`
chooses one of four groups: Windows and primary with repeated count changes; the
primary and additional workers around the discovery of the count; a runtime, its
detail worker and that discovery. A fourth, `rounds`, has one runtime whose detail
rounds meet a count that changes and changes back. A thread that is left out behaves
as one that has not finished its first sample, so every behaviour of a scenario is
one of `Spec`. In `stream_wsl_only` all threads of that configuration run together.
Only Docker is instantiated: `spawn_wslc` and `spawn_docker` differ in their
commands, and in `RuntimeReady`, where Docker also needs the WSL rows.

In `actions`, `guest` has one PID that two processes use in turn while a request is
confirmed and carried out; `retry` a second request while the first is in flight or
was given up; `screen` two processes of the primary distribution, of which one is its
init process, and every key, with lists of up to three rows in tables of two or three
lines. `retry` and `screen` also list a process from elsewhere with the PID and start
ticks of one of theirs, in `screen` in some samples and not in others. `command` has two
calls at once, each with a child and a descendant. The deadline is one tick and the wait two, so that a helper can be
before, at or beyond each, and the clock of the guest may be a tick ahead or behind.

In `collection`, `sample` runs either platform, with one runtime while distributions
change, or with both while the CPU count is not known yet (`OneRuntime`). A change
and a fault suffice: each of the three captures can be the one that misses a
distribution. `stream` repeats the calls of a stream, `scan` reads two PIDs twice
with two starts, `guest` has two runtimes that share one cgroup, two boots and six
ticks, which is enough for a window, a gap and a stale counter, `history` four
results in four slots for two columns, `view` one container that both runtimes can
list and one additional distribution, and `cases` has three counters, all triples of
18 rows, three processes with every parent and start, all subsets of eight rows, and
two containers.

*Fairness.* A thread is scheduled, and every collector call returns: those of
containers and of Windows run under `output_with_timeout`, whose calls end
(`CallEnds`, a part of `ActionsEnd`). Calls of `wsl.exe` in `multiwsl.rs` have no limit (lines 45 and 131);
that they return is an assumption about WSL, not a fact of this code, and a hung
`wsl.exe` would hang the sample. Under it the worker steps of `Stream` and the steps
of `Monitor` are fair. The fairness of senders is strong only because the model bounds
the channel, which the code does not. `Stop` and `ToggleDetails` are the user's
and not fair. Faults are not fair, and they are finitely many. In `QueryService`
the semaphore is first in, first out (tokio documents it so) and blocking workers
run; `Collect` is not fair. Without the gate a `std::sync::Mutex` may starve a
thread, so `EveryRequestEnds` is stated for gated callers. In `TerminalUi` the loop
is fair: it never waits longer than for a key. Its step from samples to drawing is
strongly fair, because it takes what is there and goes on, while `MaxInbox` bounds
what can arrive only at one moment. Time passes and the wait for `wsl.exe` ends, for
each request. Callers of commands are fair. Nothing is assumed of the helper, the
guest, the user or the processes of a command.

Deadlock is not checked: a stopped system, an exhausted counter and the end of
the bounded clock are states where the model stops.

### What the failing runs show

- `stream_erased`: `docs/architecture.md:106` says that failed detail commands do
  not erase last-good lists. The detail worker's cache is the usage of its last
  job, so a container that was missing from one job has no cached list; a failed
  command then sends an empty list that replaces the good one. The passing
  `FailedDetailKeepsList` holds for containers that were never missing, unless the
  round before was of another count.
- `stream_measured`: `README.md:396` says that collectors without a measurement
  show `N/A`. Across a count change the Windows worker sends an empty list as a
  success, and its summary is zero and available.
- `stream_scope`: `docs/process-actions.md:18` says that a failure of the primary
  collector removes the action scope. A failure that carries an outdated count is
  dropped before it reaches that code.
- `collection_unnamed`: `README.md:486` says that the current distribution is sampled
  from `/proc` and the others through `wsl.exe`. Its name is taken from
  `WSL_DISTRO_NAME` alone; when that is not set, as in a service or under `sudo`, the
  current distribution is not excluded from the others and is sampled twice.

Two statements of the documentation are out of date without a run of their own:
`docs/architecture.md:29` says that Job Object support is pending, which
`command_windows.rs` has, and `docs/architecture.md:66` that the membership of
additional distributions is fixed once, while `collector.rs:321` adds new ones at
every capture.

## Proofs

Every invariant and action property of the passing runs, and both refinements, are
theorems, for every value of the constants; what a run alone shows is liveness.
`PROJECT.json` lists the theorems. A theorem about an invariant has three parts: the initial states
have an inductive invariant, each step keeps it (a lemma per action), and it implies
what is claimed. TLC checked most of the inductive invariants on the small instances
before; `HeldInv` quantifies over unbounded sets and is only proved. The properties of
pure algorithms (`Cases`) say something of one input: their theorems have no steps, and
hold for every input of the kind that their hypotheses name.

Where a model bounds something that the code does not (`MaxQueue`, `MaxFaults`,
`MaxLife`, `MaxInbox`, ...) the theorem is for every bound, so it is not a statement
about small instances. Assumptions about constants are named and stand where the
constant is declared.

### Stream

`StreamProofs`, for every set of counts, distributions, containers and runtimes,
every initial plan, and every bound on the channel and on faults:

- `StreamTypeCorrect`. `TypeInv` adds `WorkersReady`: a worker that collects has
  loaded a count, one that sends has an event.
- `StreamSingleScale` and `StreamWindowsCountConfirmed`. The first is about every row
  that a snapshot shows: those of WSL and containers are of the confirmed count
  (`SingleScale`). Rows of Windows stay when the count changes, and may be of another
  one until the sample that announced the change arrives (`WindowsRowsCatchUp`, which
  has a proof of its own below). `SingleScale` is far from
  inductive. `apply` compares the count of an event with `host_cpu_count`, but three
  things bypass the comparison: a Windows event stores its own count, a confirmation
  of the count in force discards nothing, and before the first confirmation
  everything is accepted. `ScaleInv` says why none of them mixes scales:
  - `WindowsConfirmed`: at its place in the queue, the count of a Windows event is
    in force (`InForce`), because the worker announces it first and the channel is
    FIFO. So storing it changes nothing.
  - `BeforeConfirmed` and `HeldCounts`: if the first confirmation is going to keep
    the initial count (`FirstKeeps`), then all rows applied, queued or held by a
    worker before it have that count. This rests on `Unannounced`: a shared count
    other than the initial one is about to be announced by the only thread that
    stores it.
  - `QueuedLists` and `CachedLists`: the process lists of a detail event, reused
    ones included, have the count of that event.
- `StreamDetailsOnCurrentContainers` is inductive with the types.
- `StreamKernelWindowStable`. `KernelInv` says of queued and outgoing events what the
  property says of the value on display: a window is empty or the count of its event.
- `StreamLinuxReadyComplete`. `SummaryInv` adds what a ready collector has delivered
  (`Delivered`), that a delta belongs to a distribution that runs
  (`ReportsRunning`), and that the warnings of the plan come before the first rows
  (`PlanFirst`: they were queued before any worker existed).
- `StreamWindowsRowsCatchUp`. `CatchUpInv` follows a count through the queue: each
  announcement is followed by rows of its count, or the worker is still to send them
  (`Followed`), unless there are no rows yet that could be behind (`NothingBefore`,
  `NothingMeasured`).
- `StreamRetainedDetailsWarned` and `StreamFailedDetailKeepsList`. A container that
  every sample listed is in every job and in every round (`SteadyInv`), so a round
  that leaves its old list in place is one whose command failed (`WarnedInv`).
  `RoundsInv` relates each round of details to the one before it in the queue, and
  the aggregator and the detail worker's cache to the first and the last: none loses
  a list that its predecessor has on the same count (`Carries`).

All steps of threads send at most one event, of which `Sent` says what is known
(`StepSends`), so that most invariants about the queue need `QueuedNext` and
`ReceiveFacts` instead of a case per action. `ApplyToRuntime` does the same for what
an event leaves of a runtime's containers.

The proof of the last two changed the model. In an earlier form `steady` were the
containers that every *applied aggregate* listed, and `FailedDetailKeepsList` had no
exception. Both properties passed their runs, and neither was inductive; beyond the
bounds of those runs both were false. An aggregate that is dropped as stale is still
the sample its job was made of, so a container could be missing from a job although
each applied aggregate had it. And a count that changes and changes back between
detail rounds erases a list after a failed command, because the cache is by then of
the other count. `steady` now counts samples, `FailedDetailKeepsList` excepts the
runtimes in `dropped`, and the scenario `rounds` makes the exception visible to TLC:
without it the run finds the lost list.

The assumptions are `ConfigAssumption` (`MonitorConfig`; WSLC is off under
`wsl_only`), `ValueAssumption` (absent values are no counts) and `BoundAssumption`.
`StreamWindowsCountConfirmed` states an action property that no run checks.

### SnapshotStore and QueryService

`SnapshotStoreProofs`, for every capacity, retention, counter limit and clock:
`TypeOK`, `IdsNeverReused`, `CurrentNamespaceOnly`, `LatestIsNewest`,
`WithinCapacity`, and that the store implements `RetainedLog`. The runs check the
same except `CurrentNamespaceOnly` and `WithinCapacity`, whose violations
`ImplementsRetainedLog` and `LatestIsNewest` show as well.

- `TypeOK` is inductive; `Exhausted` keeps the counters in range.
- `IdsNeverReused` is inductive with `TypeOK`: an entry that is kept was an entry
  before (`SurvivorsWereEntries`), and the new one gets the next number.
- `LatestIsNewest` alone is not inductive: the new capture must not precede any
  retained one. `CaptureOrder` adds that `lastCapture` bounds every retained
  capture.
- `WithinCapacity` rests on `NewestBound`: at most n members of a finite set of
  entries are among its newest n.
- The refinement needs `KeepsSuffix`: whatever was inserted after an entry that is
  kept is kept too. Expiry preserves it because captures are ordered as numbers
  are, eviction because it takes the lowest numbers (`SurvivorsAreNewest`).

`StoreStep` splits every step into a commit, a rotation or a step that leaves the
store alone, once for all theorems.

`QueryServiceProofs`, for every set of requests and of maximum ages, gated or not:
`ServiceTypeOK`, `PinnedExact`, `LatestFresh`, `CollectionsInOrder`,
`OneCollectionWorker`, and that the store still implements `RetainedLog` when
requests drive it. `ServiceInv` joins the invariant of the store with what a worker
holds at its stage (`HoldsLocks`: permit behind the gate, collector's lock from the
cache on) and when its readings of the clock were made (`InTime`). The capture in
the hand of the one that holds the lock is newer than every stored one because
nobody else can insert; that a fresh answer was sampled after its request arrived
then follows from the order of its readings. `OneCollectionWorker` is a property of
the permit, which a cancelled worker keeps. The assumptions are `StoreAssumption`
(capacity and retention are nonzero naturals, as their Rust types say) and
`ServiceAssumption` (ages are naturals, `None` is no request).

### Termination and TerminalUi

`ActionProofs`, for every set of PIDs, names, filters and window heights, any
number of lives of the guest, starts in each and requests:

- `TerminalImplementsTargetedSignal`, step by step against `TargetedSignal`: a
  confirmation is a confirmation, only `SendSignal` signals, everything else
  stutters. The heart of `TerminalInv` is what a helper knows: its handle is of the
  requested PID (`HoldsHandle`), and once the start ticks matched, the handle is the
  confirmed instance for as long as that lives (`Identified`). This survives every
  step of the guest because an instance is started once (`Known`: neither a PID that
  is reused nor a new life brings one back). That a request names an instance of the
  primary distribution is part of `InScope`; without it the start ticks would prove
  nothing (`ConfirmedOfScope` has it from `Rejects`).
- `TerminalEveryAnswerTrue`: a message is what the helper reported, or was given by
  a host that stopped waiting (`Reported`); the loop waits for the only request
  without an answer (`OneInFlight`).
- `TerminalHelperBounded`: rests on `TimeAssumption`, that the wait exceeds the
  deadline by at least the disagreement of the clocks (12 s and 10 s in the code).
- `TerminalDisplayTrue` and `TerminalSelectionFollowsInstance`: the list is the
  filtered rows in order (`Listed`). `Ranked` shows that a finite set with distinct
  keys has an n-th member, which makes the list and the arrows well defined;
  `FollowShows` that clamping the scroll leaves the selected line on the screen.
- `TerminalTypeCorrect`: the types of both.

The assumptions are `PidAssumption`, `BoundAssumption`, `TimeAssumption`,
`NothingAssumption`, `ScreenAssumption` (a screen has at least one line) and
`OtherAssumption` (the rows from elsewhere, any finite number of them, differ in their
PIDs).

### Command

`ActionProofs`, for every set of concurrent calls and every limit, on either
platform: `CommandTypeOK`, which is proved only, and `OutcomeTrue`. `CommandInv` says of each stage what can
be alive (`StartedSoFar`), that on Windows everything a call started is in its job
once the child was assigned (`InJob`: the child is suspended until then), that on
Unix nobody is left in the group after a timeout, so that nobody can be born into it
either (`InGroup`), and that a reader ends only behind the last holder of the pipe,
whichever call it belongs to (`ReadToEnd`). The assumption is that the limit is a
natural number.

### The histories

`HistoryProofs`, for every length, set of slots and sequence of results in order:
`ColumnsShowArrivals`. `HistoryInv` states it of the list of points, where a second
result of a slot replaces the first: slots only go up
(`OldestFirst`), so a full list reaches back `HistoryLen` slots, and for every slot
it reaches the column shows what the results ask for (`ShowsArrivals`). Its
lemmas are about the last member of a bounded set, for which `NaturalLemmas` stands
in the place of induction. The assumption is that the length is at least one.

`GuestCpuExclusiveExact` (`GuestCpuSpec`) says that an answer of `exclusive` is what
was really used, for any containers, aliases, rates and window, and whatever
restarts, reboots, gaps, interruptions and failed probes came before. `GuestInv` has
of each series:

- it is of one counter in one boot, in the order of time (`OneCounter`), and even:
  two of its points differ by the rate times what is between them (`Even`). That a
  push keeps it so needs that the newest point and the cgroup of now have one start
  if they have one identity (`SeriesOK`);
- an identity belongs to one cgroup, and of two series of one cgroup that differ in
  identity the older was read before the newer (`OwnersOK`).

So an interpolated value is exact wherever it falls (`Interpolates`), and a
difference is the rate times the window (`DeltaEven`). The delicate part is which
series are summed. `exclusive` takes one for each *identity*; an alias of a restarted
container that was not probed again still has the old one, so both series would be
summed. They are not: the newer series began after the older ended, and the window
has to lie in both (`SourcesDiffer`). Hence the sources are exactly the owners of
the reported cgroups (`SourcesOwn`). `GuestCpuAssumption` says that containers are
finitely many, numbers are naturals, the window is positive, and aliases are of one
owner, which sorts first.

The sums are `SumFunctionOnSet` of the community modules. `NaturalLemmas` proves,
by the least subset without the property, that its recursion has a solution, that
the order of the terms does not matter (`SumTerm`), and that a sum splits and scales
(`SumSplit`, `SumScaled`).

While the proof was prepared, `Sources` turned out to take neither of two containers
of one runtime that show one cgroup, where the code takes the first; it now follows
the order in which the code sorts them.

### Scans and rows

`RowProofs` is about the rows of processes and what is made of them.

*Scans* (`ScanSpec`, `CollectionRatesExact`), for any PIDs, executors and number of
processes. `ScanInv` follows the reader through the reads of one PID: the first
`stat` is of the process in the table or of one before it (`FirstInv`); the cgroup is
of a process between that one and the one of now, so it is theirs if the second
`stat` has the same start time (`GroupInv`); and of what the first scan holds, the
process of that start time has used no less CPU since (`FirstScanInv`). Start times
of a PID only grow, which makes a rate between the scans that of one process.
`ScanAssumption` says that PIDs, executors and the scale are naturals, that the name
of a distribution does not look like the source of a build, and that no process looks
like an empty place of the table.

*Builds counted once* (`ScanSpec`, `CollectionBuildsCountedOnce`): `TakeUsage` moves
the rows of build processes out of the list and under containers, one for each
source. `GroupedCpu` is the lemma behind it: rows that are put together under
different heads, each of which shows the sum of its rows, have the CPU of their
heads (`SumClasses`: the sum over a finite set is that over the classes of a
function). It needs that no row is in the result twice, for a set would count it
once: `VisitedInv` says that a PID has at most one sample in a scan, so rows of
different processes differ in their identity.

*The list of a stream* (`ViewSpec`, `StreamListConservesCpu`): a snapshot puts
together what several events brought at different times. `HeldInv` says of each part
what it can be, whatever the order of the events: guest rows by their source
(`GuestOK`), Windows rows by their PID (`WindowsOK`), containers by runtime and ID
with finite statistics (`ContainersOK`), and lists of processes that belong to a
container that is held (`ItemsOK`, `DockerOK`), also after new statistics came for
some of the containers (`RetainedOK`). The parts are then disjoint, since they differ
in environment, kind or the length of the identity (`StreamShows`), and their sums
add up.

*One row each* (`ViewSpec`, `StreamOneRowEach`), from the same invariant: everything
in a snapshot is of one of seven sets (`CatalogIs`), in each of which rows differ in
their source or ID (`GuestRowsApart`, `BuildHeadsApart`, `BelowApart`), and between
which they differ as above. The build containers need `BuildIsNoContainer`: the
source of a build is never the ID of a container. `ViewAssumption` says that loads and IDs are naturals, finitely many IDs.

*Order* (`RowsTotallyOrdered`, `RowOrderIsTotal`), for any rows and every sort:
sequences are ordered strictly and totally by their first difference (`LexTotal`,
`LexTransitive`), and so are rows by the first of their keys in which they differ.
`RowsListedInOrder` is about the list: sorting by insertion gives each row once
(`RowsListedOnce`) and, if no two rows have the same place, in that order.

*Partitions* (`PartitionsOfHostAddUp`), for any counters: no usage is negative, and a
breakdown of which the parts exceed the total, or the total the host, because the
counters were read one after the other, is refused (`Overcounted`).

*Statistics* (`CompleteStatisticsHaveEvery`), for any statistics of WSLC and any
answers for its containers: whatever is skipped or doubtful leaves a warning.

*Owners of WebView processes* (`ApplicationsByAncestry`, and `ApplicationsOfThree` as
the run checks it), for any processes and metadata, as many as there may be: `OnWalk`
says of each of the eight steps that the process reached was started by way of
processes that were there before each other, and that the metadata of each are of the
process that was measured. So a PID that was used again ends the walk, and never leads
it to another application. The hypotheses about names say that WebView and the
application are different programs.

*The flat list* (`FlatListing`, and `FlatListsRowsOnce` as the run checks it), for any
finite set of rows and any query. `PartsAt` says where `FlattenSeq` puts each element of
each part; a part is a row, or a container with processes of its own runtime
(`IsFlatPart`), so a row in two parts would be in two containers of one runtime and ID.
That there are no two such is a hypothesis; `CatalogOpens` has it of samples.

`AlgorithmsAreCorrect` puts the last five together. Its hypotheses are those of each of
them, about a case of its own kind; every case of `CaseInit` meets them.

### The collectors

`CollectionProofs` has two parts, one for each specification.

*One-shot samples* (`SampleSpec`, of which the runs check an instance):
`SampleTotalsWhole`, `SampleDistributionsOnce` and `SampleProbesBracketed`, for any
set of distributions, outputs and counts, and any number of changes and failures.
`SampleInv` has these parts:

- `ControlInv`: the place of the main thread says how many captures have ended.
- `CaptureInv`, `CapturesInv`: a capture holds the primary distribution as such and
  no other collector of it; two of its entries are of different distributions, and
  none of them is still to be visited.
- `ListingsInv`: a distribution that any discovery listed is the primary one, or in a
  capture (`Covered`), or that capture has a warning, or it is still to be visited.
- `WorkersInv`: a worker probes only in the stages `middle` and `join`, so each
  counter is read after the first and before the last capture.
- `CpusInv`: the count that the main thread divides by is one of the host.

A total is published only if no capture has a warning and all three have the same
additional sources. Since the code compares the number of the sources and only one
inclusion, `SameNames` needs that the sources of a capture are distinct names
(`CaptureInv`): then two finite sets of one size are equal, and what any discovery
listed is in the first *and* the last capture (`ListedCaptured`), which is what a
usage row is made of (`ProcessesShown`, `RowsTaken`).

*What a sample publishes* (`SampleSpec`): `SampleMeasuredTogether`,
`SampleCatalogOpens`, `SampleChildrenListed` and `SampleTreeConservesCpu`. They need to
know what was measured, beyond the control: `MeasureInv` adds to `SampleInv` that the
readings of Windows are of the first and the last capture and have the processes that
Windows had (`WindowsInv`), that a thread's result is what `Collected` made of some
output, or a failure (`ResultsInv`), and that a sample goes on only with captures that
are not empty (`CapturedInv`). Everything else is about the one step `Assembled`:

- A row of a distribution, of Windows, of a container or below one has the CPU of one
  CPU at the count that is published (`RowsAreUnits`). The threads divide by
  the count of the first reading of Windows; if the last has another, their results
  are dropped (`ResultOf`).
- Rows differ in their identity: within guests by distribution and PID (`GuestsApart`),
  builds by their source, containers and what is below them by runtime and ID
  (`ItemsApart`, `InsideApart`), applications by their key (`NamedApart`). The relations
  of a tree lead from hosts to containers and processes, from containers and
  applications to processes, and no further (`NoCycles`).
- The members of a group are the rows below its identity, and only those: two groups
  with one identity would be one (`OneListEach`), and a list with the limit of the
  catalog's size is not cut (`NothingCut`).
- In the tree, children that a host resolves are in its group and in no other, and what
  is not resolved is beside the groups (`AddedGroups`); with infrastructure hidden the
  residuals stay as they were (`HiddenGroups`).

The theorems have one hypothesis about the start, `NamedWithinWsl`: within WSL the
program is told the distribution it runs in. Without it `SampleDistributionsOnce` is
false; that is the run `collection_unnamed`. In a sample the second half of
`DistributionsOnce`, which is about streams, holds because no stream is sampled.

*Streams* (`StreamPlanSpec`, `StreamDistributionsOnce`): the other half. Collectors
are kept for good, so between two calls `plan.additional` may hold any distributions
that ever ran; `OneSpelling` says that it holds each once, and `SnapshotVisits` that
a call visits exactly one collector for each distribution that runs.

The assumptions are `PlanAssumption` (finitely many distributions, of which `Here` is
one), `MonitorAssumption` (a count of CPUs is a positive number, which divides the scale
so that percentages are whole; finitely many processes of Windows) and
`OutputsAssumption` (the statistics of a runtime list a container once, and `ps` a
process once; each uses one CPU or does not parse). The theorems about what is published
suppose finitely many hosts (`FiniteHosts`), and that about children that the absent
parent is no row's identity (`AbsentIsNoIdentity`): `parent: None` is another value than
every `Some(identity)`.

The proofs changed the model in four places. `EachDistributionOnce` compared entries
under their names, so that two spellings of one distribution in a capture would have
passed; it now compares the distributions of any two entries. `ChildrenListed` asked for
lists with a limit that happened to exceed the rows of the run; the limit is now the size
of the catalog. In `Cyclic` of `ResourceQuery` a set expression without parentheses was
read in one way by TLC and in another by TLAPS; it now has them. And `Walk` and the sum of
a tree were folds over sequences, about which nothing can be proved without induction over
operators; the walk is a recursive function of its eight steps, the sum is over the places
of the list.

### Only model-checked

- Liveness: `LoadingEnds`, `Recovers`, `ShutsDown`, `PinnedAnswered`,
  `EveryRequestEnds`, `ActionsEnd`, `SampleEnds`. Temporal proofs under fairness, and
  `ENABLED`, are out of the prover's reach.
- The properties of the four failing runs, which the code violates.

Induction over data is not out of reach, but has to be said with sets: `LeastNatural`
gives the least number, or the least subset, at which a claim fails (`SetsByRemoving`).
Sums, sorted lists, flattened lists and the solutions of recursive functions are proved
that way.

## Plan

1. *Done:* aggregator, threads, store, query service; proofs of the store and of
   the single scale.
2. *Done:* termination, TUI and command runner; refinement of `TargetedSignal`.
3. *Done:* the one-shot monitor and the collector plan.
4. *Done:* the pure algorithms against reference definitions.
5. *Done:* proofs of the other properties of `Stream`, of the query service, the
   terminal, the command runner and the history.
6. *Done:* proofs about the control of the collectors: scans, captures, workers and
   the calls of a stream.
7. *Done:* that the exclusive guest CPU is exact, with the lemmas about sums.
8. *Done:* that CPU is counted once in the rows of a guest and in the list of a
   stream, that its snapshots show each resource once, and the order of rows.
9. *Done:* the same of one-shot samples: the one count of CPUs, the identities of a
   catalog, the lists of children and the tree.
10. *Done:* the pure algorithms for inputs of any size.
11. *Left:* liveness is model-checked only; the pages and cursors of `mcp.rs` and the
    drawing of `render.rs` have no model.

## Not modelled

Drawing and layout (`render.rs`, `header.rs`), formatting, argument parsing and the
syntax of command output (JSON, tables, the script that PowerShell runs) are
functions of their input without state; what is done with a field that does not
parse is modelled. Of the query model, `ResourceIndex`,
`matches_process_observation` and the exclusive `QueryService`, which only tests use,
are left out, and so are pages, cursors and the rendering of replies in `mcp.rs`.
`TerminalGuard` (restoring the terminal) and the scrolling of the help are left out
of the TUI. Packaging scripts run outside the program.

## Running

    tlc -workers 2 -config Stream.cfg MCStream
    tlc -workers 2 -config Actions.cfg MCActions
    tlc -workers 2 -config Collection.cfg MCCollection
    tlapm NaturalLemmas.tla
    tlapm SnapshotStoreProofs.tla
    tlapm QueryServiceProofs.tla
    tlapm StreamProofs.tla
    tlapm ActionProofs.tla
    tlapm HistoryProofs.tla
    tlapm RowProofs.tla
    tlapm CollectionProofs.tla
