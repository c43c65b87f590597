---------------------------- MODULE ResourceQuery ----------------------------
(****************************************************************************)
(* What is shown of one collected snapshot: the flat and tree projections   *)
(* of query.rs, the identities of identity.rs and the catalog of            *)
(* query_api.rs.  A snapshot is [resources, pids, tree]; its rows are sets, *)
(* so that two rows of one identity differ in another field.                *)
(****************************************************************************)
EXTENDS Attribution

WindowsWorkload(row) == row.env = "windows" /\ ~IsHostResource(row)

ContainerProcess(row) == row.env \in {"docker", "wslc"} /\ row.kind = "process" /\ row.source # NoSource

Shown(query, row) ==
    /\ query.showHost \/ ~IsHostResource(row)
    /\ ~query.hideInfra \/ row.kind # "infra"
    /\ ~query.hideWindows \/ ~WindowsWorkload(row)

Truncated(s, limit) == SubSeq(s, 1, IF Len(s) < limit THEN Len(s) ELSE limit)

ChildOf(child, parent) == child.env = parent.env /\ child.source = parent.id

Flat(query, rows) ==
    LET shown    == {row \in rows : Shown(query, row)}
        children == {row \in shown : ContainerProcess(row)}
        parents  == Truncated(SortedSet(shown \ children, query.sort), query.limit)
        Matched(parent) ==
            IF query.showProcesses /\ parent.kind = "container"
            THEN Truncated(SortedSet({c \in children : ChildOf(c, parent)}, query.sort), query.childLimit)
            ELSE <<>>
    IN  FlattenSeq([i \in DOMAIN parents |-> <<parents[i]>> \o Matched(parents[i])])

\* Groups are in the order of their heads.
SortedGroups(groups, head, sort) ==
    SortedOn([g \in {[g EXCEPT !.children = SortedSet(@, sort)] : g \in groups} |-> g[head]], sort)

Tree(query, source) ==
    LET bare == IF query.hideInfra THEN HideInfra(source) ELSE source
        apps == IF query.hideWindows THEN {} ELSE bare.applications
    IN  [groups   |-> SortedGroups(bare.groups, "host", query.sort),
         unmapped |-> SortedSet({r \in bare.unmapped : ~query.hideWindows \/ ~WindowsWorkload(r)}, query.sort),
         docker   |-> SortedGroups(bare.docker, "container", query.sort),
         wslc     |-> SortedGroups(bare.wslc, "container", query.sort),
         applications |-> SortedOn([a \in {[a EXCEPT !.processes = SortedSet(@, query.sort)] : a \in apps} |-> a.resource],
                                   query.sort)]

\* from_collected and requery: what a query shows of all that was collected, which
\* is kept, so that a limit or filter of one query takes nothing from the next.
Projected(query, source) ==
    [resources |-> Flat(query, source.resources), pids |-> Flat(query, source.pids), tree |-> Tree(query, source.tree)]

-----------------------------------------------------------------------------
(* identity.rs, of one scope.                                               *)
(****************************************************************************)

\* Windows reports 0 when the start time of a process cannot be read.
KnownStart(row) == row.start # NoStart /\ (row.env = "windows" => row.start # 0)

\* The incarnation of a row without a verifiable start is its observation.
Observed == -2

\* Mutant: the source of a row is no part of its identity.
SourcelessIdentity(row) ==
    <<row.env, row.kind, row.id, IF row.kind \in {"process", "infra"} /\ KnownStart(row) THEN row.start ELSE Observed>>

ResourceIdentity(row) ==
    <<row.env, row.kind, row.source, row.id,
      IF row.kind \in {"process", "infra"} /\ KnownStart(row) THEN row.start ELSE Observed>>

-----------------------------------------------------------------------------
(* query_api.rs                                                             *)
(****************************************************************************)

\* The relations that the catalog keeps: a parent and its children.
Relations(tree) ==
    {<<g.host, g.children>> : g \in tree.groups}
    \cup {<<g.container, g.children>> : g \in tree.docker \cup tree.wslc}
    \cup {<<a.resource, a.processes>> : a \in tree.applications}

CatalogRows(snapshot) ==
    snapshot.resources \cup snapshot.pids \cup snapshot.tree.unmapped
    \cup UNION {{r[1]} \cup r[2] : r \in Relations(snapshot.tree)}

Ambiguous(rows) == Cardinality({ResourceIdentity(row) : row \in rows}) < Cardinality(rows)

ParentsOf(snapshot, row) == {r[1] : r \in {r \in Relations(snapshot.tree) : row \in r[2]}}

\* A set of rows each of which has a parent in the set, itself or another.
Cyclic(snapshot) ==
    LET relations == Relations(snapshot.tree)
        inner     == {r[1] : r \in relations} \cap UNION {r[2] : r \in relations}
    IN  \E S \in (SUBSET inner) \ {{}} : \A row \in S : ParentsOf(snapshot, row) \cap S # {}

Opens(snapshot) == ~Ambiguous(CatalogRows(snapshot)) /\ ~Cyclic(snapshot)

Inspect(snapshot, identity) == {row \in CatalogRows(snapshot) : ResourceIdentity(row) = identity}

\* list(): a parent, an environment, a kind or a name that is Absent selects all.
ListRows(snapshot, parent, options) ==
    Truncated(SortedSet({row \in CatalogRows(snapshot) :
                            /\ parent # Absent => parent \in {ResourceIdentity(p) : p \in ParentsOf(snapshot, row)}
                            /\ options.env \in {Absent, row.env}
                            /\ options.kind \in {Absent, row.kind}
                            /\ options.name \in {Absent, row.name}}, options.sort),
              options.limit)

CoresUsed(row, cpus) == IF cpus > 0 /\ row.cpu >= 0 THEN row.cpu * cpus ELSE Absent
=============================================================================
