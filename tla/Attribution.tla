----------------------------- MODULE Attribution -----------------------------
(****************************************************************************)
(* The attribution tree of attribution.rs, the Windows applications of      *)
(* windows_app.rs and the totals of summary.rs.  Lists that the code sorts  *)
(* by the default order are sets here: query.rs sorts them again.           *)
(****************************************************************************)
EXTENDS Resources

CONSTANTS
    WebView,      \* the stem of msedgewebview2.exe
    NoMetadata,   \* a PID without metadata
    SameStem      \* executables with one canonical identity: name -> key

Max0(n) == IF n > 0 THEN n ELSE 0

IsHostResource(row) == row.env = "windows" /\ row.kind = "host"

-----------------------------------------------------------------------------
(* attribution.rs                                                           *)
(****************************************************************************)

\* CPU of the parent that no child explains, and that of children beyond it.
Residuals(parent, children) ==
    LET difference == parent.cpu - SumOf(children, "cpu")
    IN  [unattributed |-> Max0(difference), over |-> Max0(-difference)]

MakeGroup(host, children, resolved) ==
    [host |-> host, children |-> children, resolved |-> resolved,
     residuals |-> Residuals(host, children)]

\* Children belong to a host only when it is the only one.
Resolved(hosts) == Cardinality(hosts) = 1

AddGroups(hosts, children) ==
    [groups |-> {MakeGroup(host, IF Resolved(hosts) THEN children ELSE {}, Resolved(hosts)) : host \in hosts},
     unmapped |-> IF Resolved(hosts) THEN {} ELSE children]

ContainerGroup(item) ==
    [container |-> item.resource, children |-> item.processes,
     residuals |-> Residuals(item.resource, item.processes)]

\* host_pids is empty in every list that the collectors make, so that the
\* processes of a container are the ones it reported.
BuildTree(hosts, wsl, wslc, docker) ==
    LET vm       == AddGroups({h \in hosts : h.name \in Vmmem}, wsl)
        sessions == AddGroups({h \in hosts : h.name \in VmmemWslc}, wslc)
    IN  [groups |-> vm.groups \cup sessions.groups,
         unmapped |-> vm.unmapped \cup sessions.unmapped,
         docker |-> {ContainerGroup(item) : item \in docker},
         wslc |-> {}, applications |-> {}]

AttachWslcProcesses(tree, containers) ==
    [tree EXCEPT !.wslc = {ContainerGroup(item) : item \in containers}]

WithoutInfra(rows) == {row \in rows : row.kind # "infra"}
ChildrenWithoutInfra(groups) == {[g EXCEPT !.children = WithoutInfra(@)] : g \in groups}

HideInfra(tree) ==
    [tree EXCEPT !.groups = ChildrenWithoutInfra(@), !.docker = ChildrenWithoutInfra(@),
                 !.wslc = ChildrenWithoutInfra(@), !.unmapped = WithoutInfra(@)]

-----------------------------------------------------------------------------
(* windows_app.rs.  Metadata maps a PID to its parent, its name and its     *)
(* start time (0 when it is unknown), to the owner that the command line or *)
(* the package names (0 for none).                                          *)
(****************************************************************************)

Identified(meta, row) == meta # NoMetadata /\ meta.name = row.name /\ meta.start # 0 /\ row.start = meta.start

MetadataOf(metadata, pid) == IF pid \in DOMAIN metadata THEN metadata[pid] ELSE NoMetadata

\* Mutant: the parent's PID is believed.
AnyStart(meta, descendant) == TRUE

\* A parent was there before its child: a later owner of its PID is not it.
StartedBefore(meta, descendant) == meta.start =< descendant

\* A step from a process to the one that started it, which must have been there
\* before it; the walk ends at the first that is not WebView.
WalkStep(rows, metadata, at) ==
    LET of   == {row \in rows : row.id = <<at.parent>>}
        row  == CHOOSE r \in of : TRUE
        meta == MetadataOf(metadata, at.parent)
    IN  IF \/ at.ended \/ at.parent = 0 \/ at.parent \in at.visited \/ of = {}
           \/ ~Identified(meta, row) \/ ~StartedBefore(meta, at.start)
        THEN [at EXCEPT !.ended = TRUE]
        ELSE IF row.name # WebView THEN [at EXCEPT !.owner = row.name, !.ended = TRUE]
        ELSE [at EXCEPT !.parent = meta.parent, !.start = meta.start, !.visited = @ \cup {at.parent}]

\* The owner that at most eight steps lead to, or the process itself.
Walk(rows, metadata, process) ==
    LET meta == metadata[process.id[1]]
        at[n \in 0..8] ==
            IF n = 0 THEN [owner |-> process.name, parent |-> meta.parent, start |-> meta.start,
                           visited |-> {}, ended |-> FALSE]
            ELSE WalkStep(rows, metadata, at[n - 1])
    IN  at[8].owner

CanonicalIdentity(name) == SameStem[name]

ApplicationIdentity(process, rows, metadata) ==
    LET meta == MetadataOf(metadata, process.id[1])
    IN  CanonicalIdentity(IF process.name # WebView \/ ~Identified(meta, process) THEN process.name
                          ELSE IF meta.owner # 0 THEN meta.owner
                          ELSE Walk(rows, metadata, process))

IsProcess(row) == row.env = "windows" /\ row.kind = "process"

GroupProcesses(rows, metadata) ==
    LET processes == {row \in rows : IsProcess(row)}
        Of(row)   == ApplicationIdentity(row, rows, metadata)
        Application(key) ==
            LET members == {row \in processes : Of(row) = key}
            IN  [resource |-> Row("windows", NoSource, "application", <<key>>, NoStart, key,
                                  SumOf(members, "cpu"), SumOf(members, "memory")),
                 processes |-> members]
    IN  {Application(key) : key \in {Of(row) : row \in processes}}

\* Mutant: applications are added to their processes, and not put in their place.
AddsApplications(rows, applications) == rows \cup {a.resource : a \in applications}

\* apply_windows_application_view
ApplicationView(rows, applications) ==
    {row \in rows : ~IsProcess(row)} \cup {a.resource : a \in applications}

-----------------------------------------------------------------------------
(* summary.rs                                                               *)
(****************************************************************************)

Summed(row) ==
    CASE row.env = "windows" -> row.kind \in {"process", "infra"} /\ ~IsHostResource(row)
      [] row.env = "wsl"     -> row.kind \in {"process", "infra"}
      [] row.env \in {"wslc", "docker"} -> row.kind = "container"

Total(rows, env) ==
    LET summed == {row \in rows : row.env = env /\ Summed(row)}
    IN  [cpu |-> SumOf(summed, "cpu"), memory |-> SumOf(summed, "memory")]

CollectSummary(rows, available) ==
    [env \in Environments |-> IF env \in available THEN Total(rows, env)
                              ELSE [cpu |-> Absent, memory |-> Absent]]

SetWslCpu(summary, cpu) == [summary EXCEPT !.wsl.cpu = cpu]
=============================================================================
