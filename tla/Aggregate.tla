------------------------------ MODULE Aggregate ------------------------------
(****************************************************************************)
(* The streaming aggregator of src/src/stream.rs: struct Aggregate, its     *)
(* apply (one action per event) and the readiness half of its snapshot.     *)
(*                                                                          *)
(* Data are abstracted to what the properties tell apart.  The rows of a    *)
(* collector are the host CPU count their percentages were divided by, or   *)
(* None when the aggregator holds none.  The text of an error or warning is *)
(* left out: only its presence matters.                                     *)
(****************************************************************************)
EXTENDS FiniteSets, Naturals, Sequences

CONSTANTS
    Counts,      \* host logical CPU counts the platform can report
    Fallback,    \* fallback_cpu_count(), visible to the executing platform
    Distros,     \* additional WSL distributions
    Containers,  \* container identities, in every runtime
    Runtimes,    \* container runtimes that are enabled (no_wslc, no_docker)
    WslOnly,     \* MonitorConfig.wsl_only
    None,        \* no rows
    Unmeasured   \* an empty Windows row list that no measurement produced

ASSUME ConfigAssumption ==
    /\ Fallback \in Counts
    /\ Runtimes \subseteq {"WSLC", "Docker"}
    /\ WslOnly \in BOOLEAN
    /\ WslOnly => "WSLC" \notin Runtimes

ASSUME ValueAssumption ==
    /\ None \notin Counts
    /\ Unmeasured \notin Counts \cup {None}

VARIABLES
    hostCount,       \* host_cpu_count
    authoritative,   \* host_cpu_authoritative
    linux,           \* linux: rows of the primary distribution
    kernelCpu,       \* wsl_cpu_percent: the counts in force over its window
    scope,           \* action_scope.is_some()
    windows,         \* windows: rows of the host processes
    hostCpu,         \* host_cpu_percent and cpu_breakdown are present
    hostMemory,      \* host_memory.is_some()
    metadata,        \* windows_metadata was collected once
    extra,           \* extra_wsl: rows of each additional distribution
    extraErrors,     \* extra_wsl_errors
    usage,           \* wslc, docker: the container rows of each runtime
    details,         \* the process list attached to each container
    detailWarnings,  \* wslc_detail_warnings, docker_detail_warnings
    pending,         \* collectors that are still loading
    errors,          \* collectors whose last event was an error
    planWarnings,    \* collector_warnings is not empty
    reported,        \* history: running_sources of the last applied update
    retained,        \* history: containers showing a list older than the last try
    dropped          \* history: runtimes whose last process details were stale

countVars   == <<hostCount, authoritative>>
linuxVars   == <<linux, kernelCpu, scope>>
windowsVars == <<windows, hostCpu, hostMemory, metadata>>
extraVars   == <<extra, extraErrors, reported>>
runtimeVars == <<usage, details, detailWarnings, retained, dropped>>
statusVars  == <<pending, errors, planWarnings>>
aggVars     == <<countVars, linuxVars, windowsVars, extraVars, runtimeVars, statusVars>>

Rows  == Counts \cup {None}
Lists == [Containers -> Rows]
Usage == [count : Rows, ids : SUBSET Containers, complete : BOOLEAN]

(****************************************************************************)
(* Events.  A normalized event carries the count its rows were divided by.  *)
(****************************************************************************)
HostCpuCountEvents == [kind : {"HostCpuCount"}, count : Counts]
HostMemoryEvents   == [kind : {"HostMemory"}, memory : BOOLEAN]
WarningEvents      == [kind : {"CollectorWarnings"}, warned : BOOLEAN]
LinuxEvents        == [kind : {"Linux"}, count : Counts, ok : BOOLEAN,
                       scope : BOOLEAN, window : SUBSET Counts]
WindowsEvents      == [kind : {"Windows"}, count : Counts, ok : BOOLEAN,
                       rows : Counts \cup {Unmeasured}, total : BOOLEAN]
MetadataEvents     == [kind : {"WindowsMetadata"}, ok : BOOLEAN]
ExtraWslEvents     == [kind : {"ExtraWsl"}, count : Counts, ok : BOOLEAN,
                       running : SUBSET Distros, successful : SUBSET Distros,
                       failures : SUBSET Distros]
UsageEvents        == [kind : {"Aggregate"}, runtime : Runtimes, count : Counts,
                       ok : BOOLEAN, ids : SUBSET Containers, complete : BOOLEAN]
DetailEvents       == [kind : {"Details"}, runtime : Runtimes, count : Counts,
                       ids : SUBSET Containers, lists : Lists,
                       failed : SUBSET Containers]
Events == HostCpuCountEvents \cup HostMemoryEvents \cup WarningEvents
          \cup LinuxEvents \cup UsageEvents \cup DetailEvents
          \cup (IF WslOnly THEN {} ELSE WindowsEvents \cup MetadataEvents
                                        \cup ExtraWslEvents)

Normalized(event) == event.kind \in {"Linux", "ExtraWsl", "Aggregate", "Details"}

NormalizedCollectors ==
    {"current WSL"} \cup Runtimes \cup (IF WslOnly THEN {} ELSE {"additional WSL"})

Collectors == NormalizedCollectors
              \cup (IF WslOnly THEN {} ELSE {"Windows", "Windows applications"})

NoUsage == [count |-> None, ids |-> {}, complete |-> FALSE]
NoLists == [c \in Containers |-> None]

\* Mutant: the count is left at its default.
UnsetCount == None

\* fallback_cpu_count() until the host count is confirmed.
InitialCount == Fallback

InitAggregate ==
    /\ hostCount = InitialCount
    /\ authoritative = WslOnly
    /\ linux = None /\ kernelCpu = {} /\ scope = FALSE
    /\ windows = None /\ hostCpu = FALSE /\ hostMemory = FALSE /\ metadata = FALSE
    /\ extra = [d \in Distros |-> None] /\ extraErrors = {} /\ reported = {}
    /\ usage = [r \in Runtimes |-> NoUsage]
    /\ details = [r \in Runtimes |-> NoLists]
    /\ detailWarnings = [r \in Runtimes |-> FALSE]
    /\ retained = [r \in Runtimes |-> {}]
    /\ dropped = {}
    /\ pending = Collectors /\ errors = {} /\ planWarnings = FALSE

(****************************************************************************)
(* apply                                                                    *)
(****************************************************************************)
\* Mutant: the count of an event is not compared.
AcceptsAnyScale(event) == FALSE

HasStaleNormalization(event) ==
    authoritative /\ Normalized(event) /\ event.count # hostCount

\* Mutant: an error is never taken back.
StickyErrors(name, ok) ==
    /\ pending' = pending \ {name}
    /\ errors' = IF ok THEN errors ELSE errors \cup {name}
    /\ UNCHANGED planWarnings

\* The tail of apply: the collector is no longer loading, and its error is
\* the outcome of this event.
Settle(name, ok) ==
    /\ pending' = pending \ {name}
    /\ errors' = IF ok THEN errors \ {name} ELSE errors \cup {name}
    /\ UNCHANGED planWarnings

ApplyHostMemory(event) ==
    /\ event.kind = "HostMemory"
    /\ hostMemory' = event.memory
    /\ UNCHANGED <<windows, hostCpu, metadata>>
    /\ UNCHANGED <<countVars, linuxVars, extraVars, runtimeVars, statusVars>>

\* A confirmed count that differs from the current one discards everything
\* that was divided by the old one, and those collectors load again.
ApplyHostCpuCount(event) ==
    /\ event.kind = "HostCpuCount"
    /\ hostCount' = event.count
    /\ authoritative' = TRUE
    /\ IF event.count # hostCount
       THEN /\ hostCpu' = FALSE
            /\ kernelCpu' = {} /\ linux' = None
            /\ extra' = [d \in Distros |-> None]
            /\ usage' = [r \in Runtimes |-> NoUsage]
            /\ details' = [r \in Runtimes |-> NoLists]
            /\ detailWarnings' = [r \in Runtimes |-> FALSE]
            /\ retained' = [r \in Runtimes |-> {}]
            /\ UNCHANGED dropped
            /\ pending' = pending \cup NormalizedCollectors
       ELSE UNCHANGED <<hostCpu, kernelCpu, linux, extra, runtimeVars, pending>>
    /\ UNCHANGED <<scope, windows, hostMemory, metadata, extraErrors, reported,
                   errors, planWarnings>>

ApplyCollectorWarnings(event) ==
    /\ event.kind = "CollectorWarnings"
    /\ planWarnings' = event.warned
    /\ UNCHANGED <<countVars, linuxVars, windowsVars, extraVars, runtimeVars,
                   pending, errors>>

DropStale(event) ==
    /\ HasStaleNormalization(event)
    /\ dropped' = dropped \cup (IF event.kind = "Details" THEN {event.runtime} ELSE {})
    /\ UNCHANGED <<usage, details, detailWarnings, retained>>
    /\ UNCHANGED <<countVars, linuxVars, windowsVars, extraVars, statusVars>>

\* Mutant: details merge into every container they describe.
EveryDescribed(event) == event.ids

\* Process details merge only into containers of the latest aggregate.
Merged(event) == usage[event.runtime].ids \cap event.ids

ApplyDetails(event) ==
    /\ event.kind = "Details" /\ ~HasStaleNormalization(event)
    /\ LET r == event.runtime
           merged == Merged(event)
       IN /\ details' = [details EXCEPT ![r] =
                [c \in Containers |-> IF c \in merged THEN event.lists[c]
                                                      ELSE details[r][c]]]
          /\ detailWarnings' = [detailWarnings EXCEPT ![r] = event.failed # {}]
          /\ retained' = [retained EXCEPT ![r] = (retained[r] \ merged)
                \cup {c \in merged \cap event.failed : event.lists[c] # None}]
          /\ dropped' = dropped \ {r}
    /\ UNCHANGED usage
    /\ UNCHANGED <<countVars, linuxVars, windowsVars, extraVars, statusVars>>

ApplyLinux(event) ==
    /\ event.kind = "Linux" /\ ~HasStaleNormalization(event)
    /\ Settle("current WSL", event.ok)
    /\ scope' = (event.ok /\ event.scope)
    /\ kernelCpu' = IF event.ok THEN event.window ELSE {}
    /\ linux' = IF event.ok THEN event.count ELSE linux
    /\ UNCHANGED <<countVars, windowsVars, extraVars, runtimeVars>>

ApplyWindows(event) ==
    /\ event.kind = "Windows"
    /\ Settle("Windows", event.ok)
    /\ hostCpu' = (event.ok /\ event.total)
    /\ hostMemory' = (event.ok /\ hostMemory)
    /\ windows' = IF event.ok THEN event.rows ELSE windows
    /\ hostCount' = IF event.ok THEN event.count ELSE hostCount
    /\ UNCHANGED <<authoritative, metadata, linuxVars, extraVars, runtimeVars>>

ApplyWindowsMetadata(event) ==
    /\ event.kind = "WindowsMetadata"
    /\ Settle("Windows applications", event.ok)
    /\ metadata' = (metadata \/ event.ok)
    /\ UNCHANGED <<windows, hostCpu, hostMemory>>
    /\ UNCHANGED <<countVars, linuxVars, extraVars, runtimeVars>>

\* Mutant: every successful update ends loading.
NeverWarmsUp(event) == FALSE

\* A running distribution that has neither a delta nor a failure is new and
\* needs its own baseline.
WarmingUp(event) ==
    event.ok /\ ~(event.running \subseteq event.successful) /\ event.failures = {}

ApplyExtraWsl(event) ==
    /\ event.kind = "ExtraWsl" /\ ~HasStaleNormalization(event)
    /\ pending' = IF WarmingUp(event) THEN pending \cup {"additional WSL"}
                                      ELSE pending \ {"additional WSL"}
    /\ errors' = IF event.ok THEN errors \ {"additional WSL"}
                             ELSE errors \cup {"additional WSL"}
    /\ IF event.ok
       THEN /\ extra' = [d \in Distros |->
                    IF d \in event.successful THEN event.count
                    ELSE IF d \in event.running THEN extra[d] ELSE None]
            /\ extraErrors' = event.failures
            /\ reported' = event.running
       ELSE UNCHANGED extraVars
    /\ UNCHANGED <<planWarnings, countVars, linuxVars, windowsVars, runtimeVars>>

\* Mutant: the success of an aggregate clears the warnings of the details.
HidesDetailFailure(event) ==
    LET r == event.runtime
    IN /\ details' = [details EXCEPT ![r] =
             [c \in Containers |-> IF c \in event.ids THEN details[r][c] ELSE None]]
       /\ retained' = [retained EXCEPT ![r] = retained[r] \cap event.ids]
       /\ detailWarnings' = [detailWarnings EXCEPT ![r] = FALSE]

\* A new aggregate keeps the process lists of the containers it still has.
KeepDetails(event) ==
    LET r == event.runtime
    IN /\ details' = [details EXCEPT ![r] =
             [c \in Containers |-> IF c \in event.ids THEN details[r][c] ELSE None]]
       /\ retained' = [retained EXCEPT ![r] = retained[r] \cap event.ids]
       /\ UNCHANGED detailWarnings

ApplyUsage(event) ==
    /\ event.kind = "Aggregate" /\ ~HasStaleNormalization(event)
    /\ Settle(event.runtime, event.ok)
    /\ IF event.ok
       THEN /\ KeepDetails(event)
            /\ usage' = [usage EXCEPT ![event.runtime] =
                 [count |-> event.count, ids |-> event.ids, complete |-> event.complete]]
            /\ UNCHANGED dropped
       ELSE UNCHANGED runtimeVars
    /\ UNCHANGED <<countVars, linuxVars, windowsVars, extraVars>>

Apply(event) ==
    \/ ApplyHostMemory(event)
    \/ ApplyHostCpuCount(event)
    \/ ApplyCollectorWarnings(event)
    \/ DropStale(event)
    \/ ApplyDetails(event)
    \/ ApplyLinux(event)
    \/ ApplyWindows(event)
    \/ ApplyWindowsMetadata(event)
    \/ ApplyExtraWsl(event)
    \/ ApplyUsage(event)

(****************************************************************************)
(* snapshot: which environments the published summary calls available.      *)
(****************************************************************************)
Ready(name) == name \notin pending /\ name \notin errors

WindowsReady == ~WslOnly /\ Ready("Windows")

LinuxReady ==
    /\ authoritative
    /\ Ready("current WSL")
    /\ WslOnly \/ Ready("additional WSL")
    /\ extraErrors = {}
    /\ ~planWarnings

\* Docker also needs the WSL rows: BuildKit work is found among them.
RuntimeReady(r) ==
    /\ authoritative
    /\ Ready(r)
    /\ usage[r].complete
    /\ r = "Docker" => LinuxReady

\* The aggregator's variables keep their types.
AggregateTypeOK ==
    /\ hostCount \in Counts /\ authoritative \in BOOLEAN
    /\ linux \in Rows /\ kernelCpu \in SUBSET Counts /\ scope \in BOOLEAN
    /\ windows \in Rows \cup {Unmeasured}
    /\ hostCpu \in BOOLEAN /\ hostMemory \in BOOLEAN /\ metadata \in BOOLEAN
    /\ extra \in [Distros -> Rows]
    /\ extraErrors \in SUBSET Distros /\ reported \in SUBSET Distros
    /\ usage \in [Runtimes -> Usage] /\ details \in [Runtimes -> Lists]
    /\ detailWarnings \in [Runtimes -> BOOLEAN]
    /\ retained \in [Runtimes -> SUBSET Containers]
    /\ dropped \in SUBSET Runtimes
    /\ pending \in SUBSET Collectors /\ errors \in SUBSET Collectors
    /\ planWarnings \in BOOLEAN
==============================================================================
