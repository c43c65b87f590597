----------------------------- MODULE StreamView -----------------------------
(****************************************************************************)
(* The rows that the streaming aggregator holds, and the snapshot that it   *)
(* makes of them: apply and snapshot of struct Aggregate, stream.rs.  Which *)
(* results are refused and which totals are ready is in module Aggregate.   *)
(****************************************************************************)
EXTENDS ResourceQuery

CONSTANTS
    Loads,       \* CPU that a row can show
    ViewIds,     \* containers
    ViewDistro   \* an additional distribution

\* A distribution has another name than a build.
ASSUME ViewAssumption ==
    /\ Loads \subseteq Nat
    /\ ViewIds \subseteq Nat /\ IsFiniteSet(ViewIds)
    /\ ViewDistro \in Nat \ {0}

VARIABLES
    showsDocker,   \* ~no_docker
    held           \* linux, extra, windows, metadata, wslc, lists, docker

viewVars == <<showsDocker, held>>

NothingHeld == [linux |-> {}, extra |-> {}, windows |-> {}, metadata |-> [pid \in {} |-> NoMetadata],
                wslc |-> {}, lists |-> {}, docker |-> {}]

InitView == showsDocker \in BOOLEAN /\ held = NothingHeld

-----------------------------------------------------------------------------
(* What the collectors measure.                                             *)
(****************************************************************************)

BuildRow(source) == Row("docker", BuildSource(source, 9), "process", <<2>>, 1, 1, 1, 1)

\* The rows of a distribution, in which a build may run.
GuestRows(source) ==
    {{Row("wsl", source, "process", <<1>>, 1, 1, cpu, 1)} \cup build : cpu \in Loads, build \in {{}, {BuildRow(source)}}}

\* The PID of the WebView process may have been given to another one.
HostRows ==
    {{Row("windows", NoSource, "host", <<4>>, 1, host, 2, 1), Row("windows", NoSource, "process", <<1>>, 1, 5, 1, 1),
      Row("windows", NoSource, "process", <<2>>, start, WebView, 1, 1)} : host \in Vmmem, start \in {1, 2}}

ReadMetadata == [pid \in {2} |-> [parent |-> 1, name |-> WebView, start |-> 1, owner |-> 5]]

ContainerRows(runtime, ids) ==
    {{Row(runtime, NoSource, "container", <<id>>, NoStart, 1, cpu[id], 1) : id \in ids} : cpu \in [ids -> Loads]}

ProcessesOf(runtime, id) == {{}, {Row(runtime, <<id>>, "process", <<id, 7>>, NoStart, 1, 1, 1)}}

-----------------------------------------------------------------------------
(* apply                                                                    *)
(****************************************************************************)

Same(item, row) == item.resource.id = row.id

TakesLinux == \E rows \in GuestRows(NoSource) : held' = [held EXCEPT !.linux = rows]

\* The rows of the last success, unless the distribution stopped.
TakesExtra == \E rows \in {{}} \cup GuestRows(<<ViewDistro>>) : held' = [held EXCEPT !.extra = rows]

TakesWindows == \E rows \in HostRows : held' = [held EXCEPT !.windows = rows]

TakesMetadata == held' = [held EXCEPT !.metadata = ReadMetadata]

\* New statistics keep the lists of the containers they still have.
RetainedLists(lists, rows) ==
    {[resource |-> pair[2], processes |-> pair[1].processes] : pair \in {p \in lists \X rows : Same(p[1], p[2])}}

WslcAggregate ==
    \E ids \in SUBSET ViewIds : \E rows \in ContainerRows("wslc", ids) :
        held' = [held EXCEPT !.wslc = rows, !.lists = RetainedLists(@, rows)]

\* Details were collected for an earlier list, and go to containers of the present one.
WslcDetails ==
    \E id \in ViewIds : \E processes \in ProcessesOf("wslc", id) :
        LET current == {row \in held.wslc : row.id = <<id>>}
        IN  held' = [held EXCEPT !.lists = {item \in @ : \A row \in current : ~Same(item, row)}
                                           \cup {[resource |-> row, processes |-> processes] : row \in current}]

DockerAggregate ==
    /\ showsDocker
    /\ \E ids \in SUBSET ViewIds : \E rows \in ContainerRows("docker", ids) :
          LET kept == RetainedLists(held.docker, rows)
          IN  held' = [held EXCEPT !.docker =
                  kept \cup {[resource |-> row, processes |-> {}] :
                                 row \in {row \in rows : \A item \in kept : ~Same(item, row)}}]

DockerDetails ==
    /\ showsDocker
    /\ \E id \in ViewIds : \E processes \in ProcessesOf("docker", id) :
          held' = [held EXCEPT !.docker =
              {IF item.resource.id = <<id>> THEN [item EXCEPT !.processes = processes] ELSE item : item \in @}]

\* Another CPU count: what was divided by the old one is dropped.
TakesCount == held' = [NothingHeld EXCEPT !.windows = held.windows, !.metadata = held.metadata]

ViewNext ==
    /\ \/ TakesLinux \/ TakesExtra \/ TakesWindows \/ TakesMetadata \/ TakesCount
       \/ WslcAggregate \/ WslcDetails \/ DockerAggregate \/ DockerDetails
    /\ UNCHANGED showsDocker

ViewSpec == InitView /\ [][ViewNext]_viewVars

-----------------------------------------------------------------------------
(* snapshot                                                                 *)
(****************************************************************************)

StreamAssembled ==
    LET builds == TakeUsage(held.linux \cup held.extra, showsDocker)
        docker == held.docker \cup builds.containers
        hosts  == {row \in held.windows : IsHostResource(row)}
        apps   == GroupProcesses(held.windows, held.metadata)
        bare   == BuildTree(hosts, builds.rows, held.wslc, docker)
        rows   == builds.rows \cup held.windows \cup held.wslc \cup {item.resource : item \in docker}
                  \cup UNION {item.processes : item \in held.lists \cup docker}
    IN  [resources |-> ApplicationView(rows, apps), pids |-> rows, cpus |-> 1,
         tree |-> [AttachWslcProcesses(bare, held.lists) EXCEPT !.applications = apps]]

\* A snapshot shows each resource as one row: the container that the tree shows is
\* the one in the list, however old its processes are (stream.rs:287).
OneRowEach ==
    /\ ~Ambiguous(CatalogRows(StreamAssembled))
    /\ {g.container : g \in StreamAssembled.tree.wslc} \subseteq held.wslc

\* The list holds the CPU of every source once, whatever the age of the metadata
\* that assign processes to applications and wherever builds run (stream.rs:373).
StreamConservesCpu ==
    LET shown == {row \in StreamAssembled.resources : ~IsHostResource(row) /\ ~ContainerProcess(row)}
        taken == held.linux \cup held.extra \cup held.wslc \cup {row \in held.windows : IsProcess(row)}
                 \cup {item.resource : item \in held.docker}
    IN  SumOf(shown, "cpu") = SumOf(taken, "cpu")

\* A list that was put together of events of different ages shows every resource, and
\* all of its CPU, exactly once (stream.rs:287, stream.rs:373).
ListShowsOnce == OneRowEach /\ StreamConservesCpu
=============================================================================
