---------------------------- MODULE StreamProofs ----------------------------
(****************************************************************************)
(* The safety properties of Stream, for all counts, distributions,          *)
(* containers and runtimes, whatever is queued and however many faults      *)
(* there are: the rows have one scale, summaries that are called available  *)
(* are complete, and process lists stay with their containers and their     *)
(* warnings.                                                                *)
(****************************************************************************)
EXTENDS Stream, SequenceTheorems, TLAPS

(****************************************************************************)
(* The inductive invariant of the scale                                     *)
(****************************************************************************)
\* All rows that the aggregator holds were divided by this count.
RowsAre(count) ==
    /\ linux \in {None, count}
    /\ \A d \in Distros : extra[d] \in {None, count}
    /\ \A r \in Runtimes :
          /\ usage[r].count \in {None, count}
          /\ \A c \in Containers : details[r][c] \in {None, count}

Confirms(i) == queue[i].kind = "HostCpuCount"

\* No count is confirmed by the events from position i up to, not including, j.
NoneConfirms(i, j) == \A k \in i .. j - 1 : ~Confirms(k)

\* When event j is applied, count will be the confirmed one.
InForce(j, count) ==
    \/ authoritative /\ hostCount = count /\ NoneConfirms(1, j)
    \/ \E i \in 1 .. j - 1 :
          Confirms(i) /\ queue[i].count = count /\ NoneConfirms(i + 1, j)

\* A Windows event, sent or about to be sent, comes after its count.
WindowsConfirmed ==
    /\ \A j \in 1 .. Len(queue) :
          queue[j].kind = "Windows" /\ queue[j].ok => InForce(j, queue[j].count)
    /\ "Windows" \in Collectors /\ pc["Windows"] \in {"memory", "usage"} =>
          InForce(Len(queue) + 1, cpus)

\* Until a count is confirmed, a shared count that is not the initial one is
\* about to be announced.
Unannounced ==
    \/ authoritative
    \/ \E i \in 1 .. Len(queue) : Confirms(i)
    \/ cpus = Fallback
    \/ "Windows" \in Collectors /\ pc["Windows"] = "announce"

\* The first confirmation, queued at j or still to come, is of the initial count.
FirstKeeps(j) ==
    /\ NoneConfirms(1, j)
    /\ \/ j =< Len(queue) /\ Confirms(j) /\ queue[j].count = Fallback
       \/ j = Len(queue) + 1 /\ cpus = Fallback

\* In that case everything before it has the initial count.
BeforeConfirmed ==
    ~authoritative =>
        /\ hostCount = Fallback
        /\ \A j \in 1 .. Len(queue) + 1 : FirstKeeps(j) =>
              /\ RowsAre(Fallback)
              /\ \A k \in 1 .. j - 1 : Normalized(queue[k]) => queue[k].count = Fallback

\* What workers are going to send was divided by this count.
HeldAre(count) ==
    /\ pc["current WSL"] = "send" => outgoing.count = count
    /\ \A w \in Collectors : loaded[w] \in {None, count}
    /\ \A r \in Runtimes : job[r] # None => job[r].count = count
    /\ \A r \in Runtimes : work[r] # None => work[r].count = count

HeldCounts == (~authoritative /\ FirstKeeps(Len(queue) + 1)) => HeldAre(Fallback)

\* A process list has the count of the event or the cache it is part of.
ListsOf(event) ==
    event.kind = "Details" => \A c \in Containers : event.lists[c] \in {None, event.count}

QueuedLists == \A j \in 1 .. Len(queue) : ListsOf(queue[j])

CachedLists ==
    \A r \in Runtimes, c \in Containers :
        lastDetails[r].lists[c] \in {None, lastDetails[r].count}

QueueInv == open => WindowsConfirmed /\ Unannounced /\ BeforeConfirmed /\ HeldCounts

ScaleInv == SingleScale /\ QueuedLists /\ CachedLists /\ QueueInv

(****************************************************************************)
(* Types                                                                    *)
(****************************************************************************)
\* The kind of an event decides its fields.
LEMMA EventKinds ==
    ASSUME NEW e \in Events
    PROVE  /\ e.kind = "HostCpuCount" => e \in HostCpuCountEvents
           /\ e.kind = "HostMemory" => e \in HostMemoryEvents
           /\ e.kind = "CollectorWarnings" => e \in WarningEvents
           /\ e.kind = "Linux" => e \in LinuxEvents
           /\ e.kind = "Windows" => e \in WindowsEvents
           /\ e.kind = "WindowsMetadata" => e \in MetadataEvents
           /\ e.kind = "ExtraWsl" => e \in ExtraWslEvents
           /\ e.kind = "Aggregate" => e \in UsageEvents
           /\ e.kind = "Details" => e \in DetailEvents
           /\ e.kind \in {"Windows", "WindowsMetadata", "ExtraWsl"} => ~WslOnly
BY DEF Events, HostCpuCountEvents, HostMemoryEvents, WarningEvents, LinuxEvents,
       WindowsEvents, MetadataEvents, ExtraWslEvents, UsageEvents, DetailEvents

\* The values that a row count can have.
LEMMA ValuesAreRows == Counts \subseteq Rows /\ None \in Rows
BY DEF Rows

\* The empty values of the initial state and of a discard.
LEMMA EmptyValues == NoUsage \in Usage /\ NoLists \in Lists
BY DEF NoUsage, NoLists, Usage, Lists, Rows

\* Which threads always exist, and which only off WslOnly.
LEMMA SomeCollectors ==
    /\ "current WSL" \in Collectors
    /\ Runtimes \subseteq Collectors
    /\ ~WslOnly => "Windows" \in Collectors /\ "additional WSL" \in Collectors
                   /\ "Windows applications" \in Collectors
    /\ NormalizedCollectors \subseteq Collectors
BY DEF Collectors, NormalizedCollectors

\* The new aggregator has its types (Aggregate::new).
LEMMA InitAggregateType == InitAggregate => AggregateTypeOK
BY ConfigAssumption, ValuesAreRows, EmptyValues
DEF InitAggregate, InitialCount, AggregateTypeOK

\* Applying an event keeps the types (Aggregate::apply).
LEMMA ApplyType ==
    ASSUME AggregateTypeOK, NEW event \in Events, Apply(event)
    PROVE  AggregateTypeOK'
<1> USE EventKinds, ValuesAreRows, SomeCollectors
<1>1. CASE ApplyHostMemory(event)
  BY <1>1 DEF AggregateTypeOK, ApplyHostMemory, HostMemoryEvents, countVars, linuxVars,
      extraVars, runtimeVars, statusVars
<1>2. CASE ApplyHostCpuCount(event)
  BY <1>2, EmptyValues DEF AggregateTypeOK, ApplyHostCpuCount, HostCpuCountEvents,
      runtimeVars
<1>3. CASE ApplyCollectorWarnings(event)
  BY <1>3 DEF AggregateTypeOK, ApplyCollectorWarnings, WarningEvents, countVars, linuxVars,
      windowsVars, extraVars, runtimeVars
<1>4. CASE DropStale(event)
  BY <1>4 DEF AggregateTypeOK, DropStale, DetailEvents, countVars, linuxVars, windowsVars,
      extraVars, statusVars
<1>5. CASE ApplyDetails(event)
  BY <1>5 DEF AggregateTypeOK, ApplyDetails, Merged, DetailEvents, Lists, countVars,
      linuxVars, windowsVars, extraVars, statusVars
<1>6. CASE ApplyLinux(event)
  BY <1>6 DEF AggregateTypeOK, ApplyLinux, Settle, LinuxEvents, countVars, windowsVars,
      extraVars, runtimeVars
<1>7. CASE ApplyWindows(event)
  BY <1>7 DEF AggregateTypeOK, ApplyWindows, Settle, WindowsEvents, linuxVars, extraVars,
      runtimeVars
<1>8. CASE ApplyWindowsMetadata(event)
  BY <1>8 DEF AggregateTypeOK, ApplyWindowsMetadata, Settle, MetadataEvents, countVars,
      linuxVars, extraVars, runtimeVars
<1>9. CASE ApplyExtraWsl(event)
  BY <1>9 DEF AggregateTypeOK, ApplyExtraWsl, ExtraWslEvents, countVars, linuxVars,
      windowsVars, extraVars, runtimeVars
<1>10. CASE ApplyUsage(event)
  <2>1. event \in UsageEvents
    BY <1>10 DEF ApplyUsage
  <2>2. /\ usage' \in [Runtimes -> Usage] /\ details' \in [Runtimes -> Lists]
        /\ detailWarnings' \in [Runtimes -> BOOLEAN]
        /\ retained' \in [Runtimes -> SUBSET Containers]
        /\ dropped' \in SUBSET Runtimes
    <3>1. CASE event.ok
      <4>1. [count |-> event.count, ids |-> event.ids, complete |-> event.complete] \in Usage
        BY <2>1 DEF UsageEvents, Usage
      <4>2. [c \in Containers |-> IF c \in event.ids THEN details[event.runtime][c]
                                                     ELSE None] \in Lists
        <5>1. details[event.runtime] \in Lists
          BY <2>1 DEF UsageEvents, AggregateTypeOK
        <5> QED
          BY <5>1 DEF Lists
      <4>3. usage' \in [Runtimes -> Usage]
        BY <1>10, <2>1, <3>1, <4>1 DEF AggregateTypeOK, ApplyUsage
      <4>4. details' \in [Runtimes -> Lists]
        BY <1>10, <2>1, <3>1, <4>2 DEF AggregateTypeOK, ApplyUsage, KeepDetails
      <4>5. retained' \in [Runtimes -> SUBSET Containers]
        <5>1. retained[event.runtime] \cap event.ids \in SUBSET Containers
          BY <2>1 DEF UsageEvents
        <5> QED
          BY <1>10, <3>1, <5>1 DEF AggregateTypeOK, ApplyUsage, KeepDetails
      <4> QED
        BY <1>10, <3>1, <4>3, <4>4, <4>5 DEF AggregateTypeOK, ApplyUsage, KeepDetails
    <3>2. CASE ~event.ok
      BY <1>10, <3>2 DEF AggregateTypeOK, ApplyUsage, runtimeVars
    <3> QED
      BY <3>1, <3>2
  <2> QED
    BY <1>10, <2>1, <2>2 DEF AggregateTypeOK, ApplyUsage, Settle, UsageEvents, countVars,
        linuxVars, windowsVars, extraVars
<1> QED
  BY <1>1, <1>2, <1>3, <1>4, <1>5, <1>6, <1>7, <1>8, <1>9, <1>10 DEF Apply

\* The threads' half of TypeOK, in the parts that steps change together.
ChannelsTyped ==
    /\ queue \in Seq(Events) /\ open \in BOOLEAN /\ stop \in BOOLEAN
    /\ showDetails \in BOOLEAN

WorkersTyped ==
    /\ cpus \in Counts /\ cached \in Rows /\ winBefore \in Rows
    /\ capture \in Rows /\ baseline \in SUBSET Counts
    /\ outgoing \in LinuxEvents \cup {None}
    /\ loaded \in [Collectors -> Rows]
    /\ before \in SUBSET Distros /\ running \in SUBSET Distros

DetailsTyped ==
    /\ job \in [Runtimes -> Jobs \cup {None}] /\ work \in [Runtimes -> Jobs \cup {None}]
    /\ steady \in [Runtimes -> SUBSET Containers]
    /\ lastDetails \in [Runtimes -> [count : Rows, lists : Lists]]
    /\ detailDone \in [Runtimes -> BOOLEAN]

\* A worker has a count when it has begun to collect, and an event to send.
WorkersReady ==
    /\ pc["current WSL"] = "send" => outgoing \in LinuxEvents
    /\ pc["current WSL"] = "collect" => capture \in Counts
    /\ \A w \in Collectors \ {"current WSL"} : pc[w] = "collect" => loaded[w] \in Counts

TypeInv ==
    /\ AggregateTypeOK /\ ChannelsTyped /\ pc \in [Collectors -> Places]
    /\ WorkersTyped /\ DetailsTyped /\ faults \in 0 .. MaxFaults
    /\ WorkersReady

\* TypeInv groups the parts of TypeOK and adds WorkersReady.
LEMMA TypeInvIsTypeOK == TypeInv => TypeOK
BY DEF TypeInv, TypeOK, ChannelsTyped, WorkersTyped, DetailsTyped

\* A step that does not apply an event keeps the aggregator's types.
LEMMA AggregateFrame == ASSUME AggregateTypeOK, UNCHANGED aggVars PROVE AggregateTypeOK'
BY DEF AggregateTypeOK, aggVars, countVars, linuxVars, windowsVars, extraVars, runtimeVars,
       statusVars

\* A fault is only taken below the bound.
LEMMA FaultType ==
    ASSUME faults \in 0 .. MaxFaults, NEW good, FaultUnless(good) \/ Fault \/ NoFault
    PROVE  faults' \in 0 .. MaxFaults
BY BoundAssumption DEF FaultUnless, Fault, NoFault

\* A send keeps the types and moves its own thread only.
LEMMA SendType ==
    ASSUME TypeInv, NEW w \in Collectors, NEW event \in Events, NEW place \in Places,
           SendThen(w, event, place)
    PROVE  /\ AggregateTypeOK' /\ ChannelsTyped'
           /\ pc' \in [Collectors -> Places]
           /\ \A v \in Collectors \ {w} : pc'[v] = pc[v]
           /\ pc'[w] \in {place, "done"}
<1>1. queue' \in Seq(Events)
  BY AppendProperties DEF SendThen, TypeInv, ChannelsTyped
<1>2. AggregateTypeOK'
  BY AggregateFrame DEF SendThen, TypeInv
<1> QED
  BY <1>1, <1>2 DEF SendThen, Goto, Places, TypeInv, ChannelsTyped

\* WorkersReady only depends on these variables, and on pc at "collect" and "send".
LEMMA ReadyFrame ==
    ASSUME TypeInv, UNCHANGED <<capture, outgoing>>, NEW w \in Collectors \ {"current WSL"},
           loaded' \in [Collectors -> Rows],
           \A v \in Collectors \ {w} : pc'[v] = pc[v] /\ loaded'[v] = loaded[v],
           pc'[w] = "collect" => loaded'[w] \in Counts
    PROVE  WorkersReady'
BY SomeCollectors DEF TypeInv, WorkersReady

\* The Windows workers exist off WslOnly, where their events are events.
LEMMA WindowsEventTypes ==
    ASSUME NEW count \in Counts, NEW flag \in BOOLEAN, ~WslOnly
    PROVE  /\ [kind |-> "HostCpuCount", count |-> count] \in Events
           /\ [kind |-> "HostMemory", memory |-> flag] \in Events
           /\ [kind |-> "WindowsMetadata", ok |-> flag] \in Events
           /\ \A ok, total \in BOOLEAN : \A rows \in Counts \cup {Unmeasured} :
                 [kind |-> "Windows", count |-> count, ok |-> ok, rows |-> rows,
                  total |-> total] \in Events
BY DEF Events, HostCpuCountEvents, HostMemoryEvents, MetadataEvents, WindowsEvents

\* What the primary worker sends is a Linux event.
LEMMA LinuxEventTypes ==
    ASSUME NEW count \in Counts, NEW ok \in BOOLEAN, NEW found \in BOOLEAN,
           NEW window \in SUBSET Counts
    PROVE  [kind |-> "Linux", count |-> count, ok |-> ok, scope |-> found,
            window |-> window] \in LinuxEvents
BY DEF LinuxEvents

\* The steps of the two Windows workers.
LEMMA WindowsType ==
    ASSUME TypeInv, WindowsStep \/ Metadata
    PROVE  TypeInv'
<1>1. "Windows" \in Collectors \/ "Windows applications" \in Collectors => ~WslOnly
  BY ConfigAssumption DEF Collectors, NormalizedCollectors
<1>2. ASSUME NEW count \in Counts, WindowsSnapshot(count)
      PROVE  TypeInv'
  <2>1. "Windows" \in Collectors \ {"current WSL"}
    BY <1>2 DEF WindowsSnapshot, Starts
  <2>2. AggregateTypeOK' /\ ChannelsTyped' /\ DetailsTyped'
    BY <1>2, AggregateFrame
    DEF WindowsSnapshot, TypeInv, ChannelsTyped, channelVars, DetailsTyped, jobVars,
        detailLocal
  <2>3. pc' \in [Collectors -> Places] /\ faults' \in 0 .. MaxFaults
    BY <1>2, <2>1, FaultType DEF WindowsSnapshot, Goto, Places, TypeInv
  <2>4. WorkersTyped'
    BY <1>2 DEF WindowsSnapshot, TypeInv, WorkersTyped, primaryLocal, additionalLocal, Rows
  <2>5. WorkersReady'
    BY <1>2, <2>1, <2>4, ReadyFrame
    DEF WindowsSnapshot, Goto, TypeInv, WorkersTyped, primaryLocal
  <2> QED
    BY <2>2, <2>3, <2>4, <2>5 DEF TypeInv
<1>3. ASSUME NEW w \in Collectors \ {"current WSL"}, NEW event \in Events, NEW place,
             SendThen(w, event, place),
             place \in {"idle", "memory", "usage"},
             faults' \in 0 .. MaxFaults, winBefore' \in Rows,
             UNCHANGED <<cpus, cached, primaryLocal, loaded, additionalLocal, jobVars,
                         detailLocal>>
      PROVE  TypeInv'
  <2>1. place \in Places
    BY <1>3 DEF Places
  <2>2. /\ AggregateTypeOK' /\ ChannelsTyped' /\ pc' \in [Collectors -> Places]
        /\ \A v \in Collectors \ {w} : pc'[v] = pc[v]
        /\ pc'[w] \in {place, "done"}
    BY <1>3, <2>1, SendType
  <2>3. WorkersTyped' /\ DetailsTyped'
    BY <1>3 DEF TypeInv, WorkersTyped, DetailsTyped, primaryLocal, additionalLocal,
                jobVars, detailLocal
  <2>4. WorkersReady'
    BY <1>3, <2>2, <2>3, ReadyFrame DEF TypeInv, WorkersTyped, primaryLocal
  <2> QED
    BY <1>3, <2>2, <2>3, <2>4 DEF TypeInv
<1> USE DEF windowsFrame, windowsLocal
<1>4. CASE WindowsAnnounce
  <2>1. [kind |-> "HostCpuCount", count |-> cpus] \in Events
    BY <1>1, <1>4, WindowsEventTypes DEF WindowsAnnounce, TypeInv, WorkersTyped
  <2> QED
    BY <1>3, <1>4, <2>1 DEF WindowsAnnounce, TypeInv, WorkersTyped
<1>5. CASE WindowsMemory
  <2>1. PICK present \in BOOLEAN :
           /\ FaultUnless(present)
           /\ SendThen("Windows", [kind |-> "HostMemory", memory |-> present],
                       IF OnlyBaseline THEN "idle" ELSE "usage")
    BY <1>5 DEF WindowsMemory
  <2>2. [kind |-> "HostMemory", memory |-> present] \in Events
    BY <1>1, <1>5, ConfigAssumption, WindowsEventTypes DEF WindowsMemory
  <2>3. winBefore' \in Rows /\ faults' \in 0 .. MaxFaults
    BY <1>5, <2>1, FaultType DEF WindowsMemory, TypeInv, WorkersTyped, Rows
  <2> QED
    BY <1>3, <1>5, <2>1, <2>2, <2>3 DEF WindowsMemory
<1>6. CASE WindowsUsage
  <2> DEFINE Event(consistent) ==
        [kind |-> "Windows", count |-> cpus, ok |-> TRUE,
         rows |-> IF winBefore = cpus THEN cpus ELSE Unmeasured,
         total |-> winBefore = cpus /\ consistent]
  <2>1. PICK consistent \in BOOLEAN :
           FaultUnless(consistent) /\ SendThen("Windows", Event(consistent), "idle")
    BY <1>6 DEF WindowsUsage
  <2>2. Event(consistent) \in Events
    BY <1>1, <1>6, WindowsEventTypes DEF WindowsUsage, TypeInv, WorkersTyped
  <2>3. winBefore' \in Rows /\ faults' \in 0 .. MaxFaults
    BY <1>6, <2>1, FaultType DEF WindowsUsage, TypeInv, WorkersTyped, Rows
  <2> QED
    BY <1>3, <1>6, <2>1, <2>2, <2>3 DEF WindowsUsage
<1>7. CASE WindowsFails
  <2>1. [kind |-> "Windows", count |-> cpus, ok |-> FALSE, rows |-> Unmeasured,
         total |-> FALSE] \in Events
    BY <1>1, <1>7, WindowsEventTypes DEF WindowsFails, Starts, TypeInv, WorkersTyped
  <2>2. winBefore' \in Rows /\ faults' \in 0 .. MaxFaults
    BY <1>7, FaultType DEF WindowsFails, TypeInv, WorkersTyped
  <2> QED
    BY <1>3, <1>7, <2>1, <2>2 DEF WindowsFails, Starts
<1>8. CASE Metadata
  <2>1. PICK ok \in BOOLEAN :
           /\ FaultUnless(ok)
           /\ SendThen("Windows applications", [kind |-> "WindowsMetadata", ok |-> ok], "idle")
    BY <1>8 DEF Metadata
  <2>2. [kind |-> "WindowsMetadata", ok |-> ok] \in Events
    BY <1>1, <1>8, ConfigAssumption, WindowsEventTypes DEF Metadata, Starts
  <2>3. winBefore' \in Rows /\ faults' \in 0 .. MaxFaults
    BY <1>8, <2>1, FaultType DEF Metadata, TypeInv, WorkersTyped
  <2> QED
    BY <1>3, <1>8, <2>1, <2>2, <2>3 DEF Metadata, Starts
<1> QED
  BY <1>2, <1>4, <1>5, <1>6, <1>7, <1>8 DEF WindowsStep

\* The steps of the primary worker.
LEMMA PrimaryType ==
    ASSUME TypeInv, PrimaryStep
    PROVE  TypeInv'
<1> USE DEF primaryLocal, windowsLocal, additionalLocal, jobVars, detailLocal, channelVars
<1>1. "current WSL" \in Collectors
  BY SomeCollectors
<1>2. ASSUME AggregateTypeOK', ChannelsTyped', pc' \in [Collectors -> Places],
             \A v \in Collectors \ {"current WSL"} : pc'[v] = pc[v],
             pc'["current WSL"] = "send" => outgoing' \in LinuxEvents,
             pc'["current WSL"] = "collect" => capture' \in Counts,
             capture' \in Rows, baseline' \in SUBSET Counts,
             outgoing' \in LinuxEvents \cup {None}, faults' \in 0 .. MaxFaults,
             UNCHANGED <<cpus, windowsLocal, loaded, additionalLocal, jobVars, detailLocal>>
      PROVE  TypeInv'
  BY <1>2 DEF TypeInv, WorkersTyped, DetailsTyped, WorkersReady
<1>3. CASE PrimaryCapture
  <2>1. pc["current WSL"] # "collect" /\ pc' = [pc EXCEPT !["current WSL"] = "collect"]
    BY <1>3 DEF PrimaryCapture, Starts, Goto
  <2>2. AggregateTypeOK' /\ ChannelsTyped'
    BY <1>3, AggregateFrame DEF PrimaryCapture, TypeInv, ChannelsTyped
  <2> QED
    BY <1>1, <1>2, <1>3, <2>1, <2>2
    DEF PrimaryCapture, TypeInv, WorkersTyped, Rows, Places
<1>4. CASE PrimarySample
  <2>1. PICK systemCpu \in BOOLEAN :
           /\ FaultUnless(systemCpu)
           /\ outgoing' = IF baseline = {} THEN None
                          ELSE [kind |-> "Linux", count |-> cpus, ok |-> TRUE,
                                scope |-> systemCpu,
                                window |-> IF systemCpu /\ StableWindow
                                           THEN KernelWindow ELSE {}]
    BY <1>4 DEF PrimarySample
  <2>2. cpus \in Counts /\ capture \in Counts /\ baseline \in SUBSET Counts
    BY <1>4 DEF PrimarySample, TypeInv, WorkersTyped, WorkersReady
  <2>3. KernelWindow \in SUBSET Counts
    BY <2>2 DEF KernelWindow
  <2>4. baseline # {} => outgoing' \in LinuxEvents
    BY <2>1, <2>2, <2>3, LinuxEventTypes
  <2>5. /\ pc' \in [Collectors -> Places]
        /\ pc'["current WSL"] = IF baseline = {} THEN "idle" ELSE "send"
        /\ \A v \in Collectors \ {"current WSL"} : pc'[v] = pc[v]
    BY <1>1, <1>4 DEF PrimarySample, Goto, Places, TypeInv
  <2>6. AggregateTypeOK' /\ ChannelsTyped'
    BY <1>4, AggregateFrame DEF PrimarySample, TypeInv, ChannelsTyped
  <2>7. faults' \in 0 .. MaxFaults
    BY <2>1, FaultType DEF TypeInv
  <2>8. capture' \in Rows /\ baseline' \in SUBSET Counts
    BY <1>4, <2>2 DEF PrimarySample, Rows
  <2>9. outgoing' \in LinuxEvents \cup {None}
    BY <2>1, <2>4
  <2> QED
    BY <1>2, <1>4, <2>4, <2>5, <2>6, <2>7, <2>8, <2>9 DEF PrimarySample
<1>5. CASE PrimaryFails
  <2>1. outgoing' \in LinuxEvents
    BY <1>5, LinuxEventTypes DEF PrimaryFails, TypeInv, WorkersTyped
  <2>2. /\ pc' \in [Collectors -> Places] /\ pc'["current WSL"] = "send"
        /\ \A v \in Collectors \ {"current WSL"} : pc'[v] = pc[v]
    BY <1>1, <1>5 DEF PrimaryFails, Goto, Places, TypeInv
  <2>3. AggregateTypeOK' /\ ChannelsTyped'
    BY <1>5, AggregateFrame DEF PrimaryFails, TypeInv, ChannelsTyped
  <2>4. faults' \in 0 .. MaxFaults
    BY <1>5, FaultType DEF PrimaryFails, TypeInv
  <2> QED
    BY <1>2, <1>5, <2>1, <2>2, <2>3, <2>4 DEF PrimaryFails, TypeInv, WorkersTyped, Rows
<1>6. CASE PrimarySend
  <2>1. outgoing \in Events /\ SendThen("current WSL", outgoing, "idle")
    BY <1>6 DEF PrimarySend, TypeInv, WorkersReady, Events
  <2>2. /\ AggregateTypeOK' /\ ChannelsTyped' /\ pc' \in [Collectors -> Places]
        /\ \A v \in Collectors \ {"current WSL"} : pc'[v] = pc[v]
        /\ pc'["current WSL"] \in {"idle", "done"}
    BY <1>1, <2>1, SendType DEF Places
  <2> QED
    BY <1>2, <1>6, <2>2 DEF PrimarySend, TypeInv, WorkersTyped
<1> QED
  BY <1>3, <1>4, <1>5, <1>6 DEF PrimaryStep

\* Workers that load the count give it up with the event they send.
LEMMA LoaderSendType ==
    ASSUME TypeInv, NEW w \in Collectors \ {"current WSL"}, NEW event \in Events,
           SendThen(w, event, "idle"), Forget(w), faults' \in 0 .. MaxFaults,
           before' \in SUBSET Distros, job' \in [Runtimes -> Jobs \cup {None}],
           steady' \in [Runtimes -> SUBSET Containers],
           UNCHANGED <<cpus, windowsLocal, primaryLocal, running, detailLocal>>
    PROVE  TypeInv'
<1>1. /\ AggregateTypeOK' /\ ChannelsTyped' /\ pc' \in [Collectors -> Places]
      /\ \A v \in Collectors \ {w} : pc'[v] = pc[v]
      /\ pc'[w] \in {"idle", "done"}
  BY SendType DEF Places
<1>2. /\ loaded' \in [Collectors -> Rows]
      /\ \A v \in Collectors \ {w} : loaded'[v] = loaded[v]
  BY DEF Forget, Rows, TypeInv, WorkersTyped
<1>3. WorkersTyped' /\ DetailsTyped'
  BY <1>2 DEF TypeInv, WorkersTyped, DetailsTyped, windowsLocal, primaryLocal, jobVars,
              detailLocal
<1>4. WorkersReady'
  BY <1>1, <1>2, ReadyFrame DEF primaryLocal
<1> QED
  BY <1>1, <1>3, <1>4 DEF TypeInv

\* Loading the shared count gives a worker a count to collect with.
LEMMA LoadType ==
    ASSUME TypeInv, NEW w, LoadCount(w)
    PROVE  TypeInv'
<1>1. w \in Collectors \ {"current WSL"}
  BY ConfigAssumption DEF LoadCount, Starts
<1>2. AggregateTypeOK' /\ ChannelsTyped' /\ DetailsTyped'
  BY AggregateFrame
  DEF LoadCount, TypeInv, ChannelsTyped, channelVars, DetailsTyped, jobVars, detailLocal
<1>3. pc' \in [Collectors -> Places] /\ \A v \in Collectors \ {w} : pc'[v] = pc[v]
  BY <1>1 DEF LoadCount, Goto, Places, TypeInv
<1>4. /\ loaded' \in [Collectors -> Rows] /\ loaded'[w] \in Counts
      /\ \A v \in Collectors \ {w} : loaded'[v] = loaded[v]
  BY <1>1 DEF LoadCount, Rows, TypeInv, WorkersTyped
<1>5. WorkersTyped'
  BY <1>4 DEF LoadCount, TypeInv, WorkersTyped, windowsLocal, primaryLocal, additionalLocal
<1>6. WorkersReady'
  BY <1>1, <1>3, <1>4, ReadyFrame DEF LoadCount, primaryLocal
<1> QED
  BY <1>2, <1>3, <1>5, <1>6 DEF LoadCount, TypeInv

\* The steps of the additional worker, and of the distributions it finds.
LEMMA AdditionalType ==
    ASSUME TypeInv, AdditionalStep \/ \E d \in Distros : DistroStartsOrStops(d)
    PROVE  TypeInv'
<1> USE DEF additionalLocal, jobVars, detailLocal
<1>1. "additional WSL" \in Collectors => ~WslOnly
  BY ConfigAssumption DEF Collectors, NormalizedCollectors
<1>2. CASE AdditionalSample
  <2>1. PICK snapshots \in SUBSET running :
           /\ FaultUnless(snapshots = running)
           /\ before' = (before \cap running) \cup snapshots
           /\ SendThen("additional WSL",
                [kind |-> "ExtraWsl", count |-> loaded["additional WSL"], ok |-> TRUE,
                 running |-> running, successful |-> snapshots \cap before,
                 failures |-> running \ snapshots], "idle")
    BY <1>2 DEF AdditionalSample
  <2>2. loaded["additional WSL"] \in Counts
    BY <1>2 DEF AdditionalSample, TypeInv, WorkersReady
  <2>3. running \in SUBSET Distros /\ before' \in SUBSET Distros
    BY <2>1 DEF TypeInv, WorkersTyped
  <2>4. [kind |-> "ExtraWsl", count |-> loaded["additional WSL"], ok |-> TRUE,
         running |-> running, successful |-> snapshots \cap before,
         failures |-> running \ snapshots] \in Events
    <3>1. snapshots \cap before \in SUBSET Distros /\ running \ snapshots \in SUBSET Distros
      BY <2>3
    <3> QED
      BY <1>1, <1>2, <2>2, <2>3, <3>1 DEF AdditionalSample, Events, ExtraWslEvents
  <2>5. faults' \in 0 .. MaxFaults
    BY <2>1, FaultType DEF TypeInv
  <2> QED
    BY <1>2, <2>1, <2>3, <2>4, <2>5, LoaderSendType DEF AdditionalSample, TypeInv, DetailsTyped
<1>3. CASE AdditionalFails
  <2>1. loaded["additional WSL"] \in Counts
    BY <1>3 DEF AdditionalFails, TypeInv, WorkersReady
  <2>2. [kind |-> "ExtraWsl", count |-> loaded["additional WSL"], ok |-> FALSE,
         running |-> {}, successful |-> {}, failures |-> {}] \in Events
    BY <1>1, <1>3, <2>1 DEF AdditionalFails, Events, ExtraWslEvents
  <2>3. faults' \in 0 .. MaxFaults
    BY <1>3, FaultType DEF AdditionalFails, TypeInv
  <2> QED
    BY <1>3, <2>2, <2>3, LoaderSendType
    DEF AdditionalFails, TypeInv, DetailsTyped, WorkersTyped
<1>4. ASSUME NEW d \in Distros, DistroStartsOrStops(d)
      PROVE  TypeInv'
  <2>1. running' \in SUBSET Distros
    BY <1>4 DEF DistroStartsOrStops, TypeInv, WorkersTyped
  <2>2. AggregateTypeOK' /\ faults' \in 0 .. MaxFaults
    BY <1>4, AggregateFrame, FaultType DEF DistroStartsOrStops, TypeInv
  <2> QED
    BY <1>4, <2>1, <2>2
    DEF DistroStartsOrStops, TypeInv, ChannelsTyped, channelVars, WorkersTyped, windowsLocal,
        primaryLocal, DetailsTyped, WorkersReady
<1> QED
  BY <1>2, <1>3, <1>4, LoadType DEF AdditionalStep

\* The steps of a container runtime's worker.
LEMMA RuntimeType ==
    ASSUME TypeInv, NEW r \in Runtimes, RuntimeStep(r)
    PROVE  TypeInv'
<1> USE DEF additionalLocal
<1>1. r \in Collectors \ {"current WSL"}
  BY SomeCollectors, ConfigAssumption
<1>2. CASE RuntimeSample(r)
  <2>1. PICK ids \in SUBSET Containers, complete \in BOOLEAN :
           /\ FaultUnless(complete)
           /\ SendThen(r, [kind |-> "Aggregate", runtime |-> r, count |-> loaded[r],
                           ok |-> TRUE, ids |-> ids, complete |-> complete], "idle")
           /\ job' = IF open /\ showDetails /\ job[r] = None
                     THEN [job EXCEPT ![r] = [ids |-> ids, count |-> loaded[r]]]
                     ELSE job
           /\ steady' = [steady EXCEPT ![r] = @ \cap ids]
    BY <1>2 DEF RuntimeSample
  <2>2. loaded[r] \in Counts
    BY <1>1, <1>2 DEF RuntimeSample, TypeInv, WorkersReady
  <2>3. [kind |-> "Aggregate", runtime |-> r, count |-> loaded[r], ok |-> TRUE,
         ids |-> ids, complete |-> complete] \in Events
    BY <2>2 DEF Events, UsageEvents
  <2>4. job' \in [Runtimes -> Jobs \cup {None}]
    <3>1. [ids |-> ids, count |-> loaded[r]] \in Jobs
      BY <2>2 DEF Jobs
    <3> QED
      BY <2>1, <3>1 DEF TypeInv, DetailsTyped
  <2>5. faults' \in 0 .. MaxFaults
    BY <2>1, FaultType DEF TypeInv
  <2>6. steady' \in [Runtimes -> SUBSET Containers]
    BY <2>1 DEF TypeInv, DetailsTyped
  <2> QED
    BY <1>1, <1>2, <2>1, <2>3, <2>4, <2>5, <2>6, LoaderSendType
    DEF RuntimeSample, TypeInv, WorkersTyped
<1>3. CASE RuntimeFails(r)
  <2>1. loaded[r] \in Counts
    BY <1>1, <1>3 DEF RuntimeFails, TypeInv, WorkersReady
  <2>2. [kind |-> "Aggregate", runtime |-> r, count |-> loaded[r], ok |-> FALSE,
         ids |-> {}, complete |-> FALSE] \in Events
    BY <2>1 DEF Events, UsageEvents
  <2>3. faults' \in 0 .. MaxFaults
    BY <1>3, FaultType DEF RuntimeFails, TypeInv
  <2> QED
    BY <1>1, <1>3, <2>2, <2>3, LoaderSendType
    DEF RuntimeFails, jobVars, TypeInv, DetailsTyped, WorkersTyped
<1> QED
  BY <1>2, <1>3, LoadType DEF RuntimeStep

\* Lists that a detail round describes are those of its job or reused ones.
LEMMA PopulatedType ==
    ASSUME TypeInv, NEW r \in Runtimes, work[r] # None, NEW failed
    PROVE  /\ work[r] \in Jobs /\ work[r].count \in Counts
           /\ work[r].ids \in SUBSET Containers
           /\ Populated(r, failed) \in Lists
<1>1. work[r] \in Jobs
  BY DEF TypeInv, DetailsTyped
<1>2. work[r].count \in Counts /\ work[r].ids \in SUBSET Containers
  BY <1>1 DEF Jobs
<1>3. lastDetails[r].lists \in Lists
  BY DEF TypeInv, DetailsTyped
<1>4. \A c \in Containers : Reused(r, c) \in Rows
  BY <1>3 DEF Reused, Lists, Rows
<1> QED
  BY <1>1, <1>2, <1>4, ValuesAreRows DEF Populated, Lists

\* The steps of a detail worker.
LEMMA DetailType ==
    ASSUME TypeInv, NEW r \in Runtimes, DetailStep(r)
    PROVE  TypeInv'
<1> USE DEF detailFrame, channelVars, windowsLocal, primaryLocal, additionalLocal
<1>1. ASSUME AggregateTypeOK', ChannelsTyped', DetailsTyped', faults' \in 0 .. MaxFaults,
             UNCHANGED detailFrame
      PROVE  TypeInv'
  BY <1>1 DEF TypeInv, WorkersTyped, WorkersReady
<1>2. CASE DetailTake(r)
  <2>1. AggregateTypeOK' /\ ChannelsTyped'
    BY <1>2, AggregateFrame DEF DetailTake, TypeInv, ChannelsTyped
  <2>2. DetailsTyped'
    BY <1>2 DEF DetailTake, TypeInv, DetailsTyped, jobVars
  <2> QED
    BY <1>1, <1>2, <2>1, <2>2 DEF DetailTake, TypeInv
<1>3. CASE DetailPopulate(r)
  <2>1. PICK failed \in SUBSET work[r].ids :
           /\ FaultUnless(failed = {})
           /\ lastDetails' = [lastDetails EXCEPT ![r] =
                 [count |-> work[r].count, lists |-> Populated(r, failed)]]
           /\ IF open
              THEN /\ Len(queue) < MaxQueue
                   /\ queue' = Append(queue,
                        [kind |-> "Details", runtime |-> r, count |-> work[r].count,
                         ids |-> work[r].ids, lists |-> Populated(r, failed),
                         failed |-> failed])
                   /\ UNCHANGED detailDone
              ELSE /\ detailDone' = [detailDone EXCEPT ![r] = TRUE]
                   /\ UNCHANGED queue
    BY <1>3, Zenon DEF DetailPopulate
  <2>2. /\ work[r].count \in Counts /\ work[r].ids \in SUBSET Containers
        /\ Populated(r, failed) \in Lists
    BY <1>3, PopulatedType DEF DetailPopulate
  <2>3. [kind |-> "Details", runtime |-> r, count |-> work[r].count, ids |-> work[r].ids,
         lists |-> Populated(r, failed), failed |-> failed] \in Events
    BY <2>2 DEF Events, DetailEvents
  <2>4. AggregateTypeOK' /\ ChannelsTyped'
    <3>1. queue' \in Seq(Events)
      BY <2>1, <2>3, AppendProperties DEF TypeInv, ChannelsTyped
    <3> QED
      BY <1>3, <3>1, AggregateFrame DEF DetailPopulate, TypeInv, ChannelsTyped
  <2>5. DetailsTyped'
    <3>1. [count |-> work[r].count, lists |-> Populated(r, failed)]
             \in [count : Rows, lists : Lists]
      BY <2>2, ValuesAreRows
    <3> QED
      BY <1>3, <2>1, <3>1 DEF DetailPopulate, TypeInv, DetailsTyped, jobVars
  <2>6. faults' \in 0 .. MaxFaults
    BY <2>1, FaultType DEF TypeInv
  <2> QED
    BY <1>1, <1>3, <2>4, <2>5, <2>6 DEF DetailPopulate
<1>4. CASE DetailQuit(r)
  <2>1. AggregateTypeOK' /\ ChannelsTyped'
    BY <1>4, AggregateFrame DEF DetailQuit, TypeInv, ChannelsTyped
  <2>2. DetailsTyped'
    BY <1>4 DEF DetailQuit, TypeInv, DetailsTyped, jobVars
  <2> QED
    BY <1>1, <1>4, <2>1, <2>2 DEF DetailQuit, TypeInv
<1> QED
  BY <1>2, <1>3, <1>4 DEF DetailStep

\* The loop of the aggregator, and what ends it.
LEMMA AggregatorType ==
    ASSUME TypeInv,
           AggregatorStep \/ Stop \/ ToggleDetails \/ (\E w \in Collectors : Quit(w))
    PROVE  TypeInv'
<1> USE DEF windowsLocal, primaryLocal, additionalLocal, jobVars, detailLocal, channelVars,
            workerVars
<1>1. ASSUME AggregateTypeOK', ChannelsTyped', UNCHANGED workerVars
      PROVE  TypeInv'
  BY <1>1 DEF TypeInv, WorkersTyped, DetailsTyped, WorkersReady
<1>2. CASE Receive
  <2>1. Head(queue) \in Events /\ Tail(queue) \in Seq(Events)
    BY <1>2, HeadTailProperties DEF Receive, TypeInv, ChannelsTyped
  <2>2. AggregateTypeOK'
    BY <1>2, <2>1, ApplyType DEF Receive, TypeInv
  <2> QED
    BY <1>1, <1>2, <2>1, <2>2 DEF Receive, TypeInv, ChannelsTyped
<1>3. CASE Leave
  <2>1. <<>> \in Seq(Events)
    OBVIOUS
  <2> QED
    BY <1>1, <1>3, <2>1, AggregateFrame DEF Leave, TypeInv, ChannelsTyped
<1>4. CASE Stop
  BY <1>1, <1>4, AggregateFrame DEF Stop, TypeInv, ChannelsTyped
<1>5. CASE ToggleDetails
  BY <1>1, <1>5, AggregateFrame DEF ToggleDetails, TypeInv, ChannelsTyped
<1>6. ASSUME NEW w \in Collectors, Quit(w)
      PROVE  TypeInv'
  <2>1. AggregateTypeOK' /\ ChannelsTyped' /\ pc' = [pc EXCEPT ![w] = "done"]
    BY <1>6, AggregateFrame DEF Quit, Goto, TypeInv, ChannelsTyped
  <2> QED
    BY <1>6, <2>1, SomeCollectors
    DEF Quit, TypeInv, WorkersTyped, DetailsTyped, WorkersReady, Places
<1> QED
  BY <1>2, <1>3, <1>4, <1>5, <1>6 DEF AggregatorStep

\* The type invariant holds when the threads start.
LEMMA TypeInit == Init => TypeInv
<1> SUFFICES ASSUME Init PROVE TypeInv
  OBVIOUS
<1>1. AggregateTypeOK
  BY InitAggregateType DEF Init
<1>2. cpus \in Counts
  BY ConfigAssumption DEF Init
<1>3. queue \in Seq(Events)
  <2>1. PlanEvent \in Events
    BY BoundAssumption DEF PlanEvent, Events, WarningEvents
  <2>2. [kind |-> "HostCpuCount", count |-> cpus] \in Events
    BY <1>2 DEF Events, HostCpuCountEvents
  <2>3. queue = <<PlanEvent>> \/ queue = <<[kind |-> "HostCpuCount", count |-> cpus], PlanEvent>>
    BY DEF Init, InitialQueues
  <2>4. ASSUME NEW a \in Events, NEW b \in Events
        PROVE  <<b>> \in Seq(Events) /\ <<a, b>> \in Seq(Events)
    OBVIOUS
  <2> QED
    BY <2>1, <2>2, <2>3, <2>4
<1>4. ChannelsTyped
  BY <1>3 DEF Init, ChannelsTyped
<1>5. pc \in [Collectors -> Places] /\ WorkersReady
  BY SomeCollectors DEF Init, Places, WorkersReady
<1>6. WorkersTyped
  BY <1>2, ValuesAreRows DEF Init, WorkersTyped
<1>7. DetailsTyped
  BY EmptyValues, ValuesAreRows DEF Init, DetailsTyped, NoDetails
<1>8. faults \in 0 .. MaxFaults
  BY BoundAssumption DEF Init
<1> QED
  BY <1>1, <1>4, <1>5, <1>6, <1>7, <1>8 DEF TypeInv

\* Every step of every thread keeps the type invariant.
LEMMA TypeStep == TypeInv /\ [Next]_vars => TypeInv'
<1> SUFFICES ASSUME TypeInv, [Next]_vars PROVE TypeInv'
  OBVIOUS
<1>1. CASE UNCHANGED vars
  BY <1>1, AggregateFrame
  DEF vars, workerVars, channelVars, windowsLocal, primaryLocal, additionalLocal,
      jobVars, detailLocal, TypeInv, ChannelsTyped, WorkersTyped, DetailsTyped, WorkersReady
<1> QED
  BY <1>1, WindowsType, PrimaryType, AdditionalType, RuntimeType, DetailType, AggregatorType
  DEF Next

\* Every variable keeps its type whatever the collectors send (run, apply).
LEMMA StreamTypeInv == Spec => []TypeInv
BY TypeInit, TypeStep, PTL DEF Spec

THEOREM StreamTypeCorrect == Spec => []TypeOK
BY StreamTypeInv, TypeInvIsTypeOK, PTL

(****************************************************************************)
(* One scale: what the aggregator does with an event                        *)
(****************************************************************************)
\* SingleScale says of the confirmed count what RowsAre says of any count.
LEMMA SingleScaleRows == SingleScale <=> (authoritative => RowsAre(hostCount))
BY DEF SingleScale, RowsAre

\* A step that leaves all rows alone keeps their scale.
LEMMA RowsFrame ==
    ASSUME NEW v, RowsAre(v), UNCHANGED <<linux, extra, usage, details>>
    PROVE  RowsAre(v)'
BY DEF RowsAre

\* Only a confirmation makes the count authoritative, and only it or a Windows
\* event stores a count.
LEMMA ApplyCount ==
    ASSUME NEW e \in Events, Apply(e), e.kind # "HostCpuCount"
    PROVE  /\ authoritative' = authoritative
           /\ hostCount' # hostCount => e.kind = "Windows" /\ e.ok /\ hostCount' = e.count
BY DEF Apply, ApplyHostMemory, ApplyHostCpuCount, ApplyCollectorWarnings, DropStale,
       ApplyDetails, ApplyLinux, ApplyWindows, ApplyWindowsMetadata, ApplyExtraWsl, ApplyUsage,
       aggVars, countVars

\* A confirmation of another count discards all rows, one of the same count
\* none.
LEMMA ConfirmRows ==
    ASSUME AggregateTypeOK, NEW e \in Events, Apply(e), e.kind = "HostCpuCount",
           e.count = hostCount => RowsAre(hostCount)
    PROVE  authoritative' /\ hostCount' = e.count /\ RowsAre(hostCount)'
<1>1. ApplyHostCpuCount(e)
  BY DEF Apply, ApplyHostMemory, ApplyCollectorWarnings, DropStale, HasStaleNormalization,
         Normalized, ApplyDetails, ApplyLinux, ApplyWindows, ApplyWindowsMetadata,
         ApplyExtraWsl, ApplyUsage
<1>2. CASE e.count = hostCount
  BY <1>1, <1>2 DEF ApplyHostCpuCount, RowsAre, runtimeVars
<1>3. CASE e.count # hostCount
  BY <1>1, <1>3 DEF ApplyHostCpuCount, RowsAre, NoUsage, NoLists
<1> QED
  BY <1>1, <1>2, <1>3 DEF ApplyHostCpuCount

\* Any other event that is not dropped brings rows of its own count.
LEMMA ApplyRows ==
    ASSUME AggregateTypeOK, NEW e \in Events, Apply(e), e.kind # "HostCpuCount",
           NEW v, RowsAre(v), ListsOf(e),
           Normalized(e) /\ ~HasStaleNormalization(e) => e.count = v
    PROVE  RowsAre(v)'
<1>1. CASE ApplyHostMemory(e)
  BY <1>1, RowsFrame DEF ApplyHostMemory, linuxVars, extraVars, runtimeVars
<1>2. CASE ApplyHostCpuCount(e)
  BY <1>2 DEF ApplyHostCpuCount
<1>3. CASE ApplyCollectorWarnings(e)
  BY <1>3, RowsFrame DEF ApplyCollectorWarnings, linuxVars, extraVars, runtimeVars
<1>4. CASE DropStale(e)
  BY <1>4, RowsFrame DEF DropStale, linuxVars, extraVars, runtimeVars
<1>5. CASE ApplyDetails(e)
  <2>1. e.count = v /\ e \in DetailEvents
    BY <1>5, EventKinds DEF ApplyDetails, Normalized
  <2>2. ASSUME NEW r \in Runtimes, NEW c \in Containers
        PROVE  details'[r][c] \in {None, v}
    <3>1. details[r] \in Lists /\ details[r][c] \in {None, v}
      BY DEF AggregateTypeOK, RowsAre
    <3>2. e.lists[c] \in {None, v}
      BY <1>5, <2>1 DEF ApplyDetails, ListsOf
    <3>3. CASE r = e.runtime
      <4>1. details'[r] = [x \in Containers |-> IF x \in Merged(e) THEN e.lists[x]
                                                 ELSE details[r][x]]
        BY <1>5, <3>3 DEF ApplyDetails, AggregateTypeOK
      <4> QED
        BY <3>1, <3>2, <4>1
    <3>4. CASE r # e.runtime
      BY <1>5, <3>1, <3>4 DEF ApplyDetails, AggregateTypeOK
    <3> QED
      BY <3>3, <3>4
  <2> QED
    BY <1>5, <2>2 DEF ApplyDetails, RowsAre, linuxVars, extraVars
<1>6. CASE ApplyLinux(e)
  BY <1>6 DEF ApplyLinux, Normalized, RowsAre, extraVars, runtimeVars
<1>7. CASE ApplyWindows(e)
  BY <1>7, RowsFrame DEF ApplyWindows, linuxVars, extraVars, runtimeVars
<1>8. CASE ApplyWindowsMetadata(e)
  BY <1>8, RowsFrame DEF ApplyWindowsMetadata, linuxVars, extraVars, runtimeVars
<1>9. CASE ApplyExtraWsl(e)
  BY <1>9 DEF ApplyExtraWsl, Normalized, RowsAre, extraVars, linuxVars, runtimeVars
<1>10. CASE ApplyUsage(e)
  <2>1. e.count = v /\ e \in UsageEvents
    BY <1>10, EventKinds DEF ApplyUsage, Normalized
  <2>2. CASE ~e.ok
    BY <1>10, <2>2, RowsFrame DEF ApplyUsage, linuxVars, extraVars, runtimeVars
  <2>3. CASE e.ok
    <3>1. \A r \in Runtimes : usage'[r].count \in {None, v}
      BY <1>10, <2>1, <2>3 DEF ApplyUsage, AggregateTypeOK, RowsAre
    <3>2. ASSUME NEW r \in Runtimes, NEW c \in Containers
          PROVE  details'[r][c] \in {None, v}
      <4>1. details[r][c] \in {None, v}
        BY DEF RowsAre
      <4>2. CASE r = e.runtime
        <5>1. details'[r] = [x \in Containers |-> IF x \in e.ids THEN details[r][x] ELSE None]
          BY <1>10, <2>3, <4>2 DEF ApplyUsage, KeepDetails, AggregateTypeOK
        <5> QED
          BY <4>1, <5>1
      <4>3. CASE r # e.runtime
        BY <1>10, <2>3, <4>1, <4>3 DEF ApplyUsage, KeepDetails, AggregateTypeOK
      <4> QED
        BY <4>2, <4>3
    <3> QED
      BY <1>10, <3>1, <3>2 DEF ApplyUsage, RowsAre, linuxVars, extraVars
  <2> QED
    BY <2>2, <2>3
<1> QED
  BY <1>1, <1>2, <1>3, <1>4, <1>5, <1>6, <1>7, <1>8, <1>9, <1>10 DEF Apply

(****************************************************************************)
(* One scale: what a step of a worker does to the queue                     *)
(****************************************************************************)
\* Sending an event changes nothing about those before it.
LEMMA AppendFacts ==
    ASSUME TypeInv, NEW e \in Events, queue' = Append(queue, e)
    PROVE  /\ Len(queue) \in Nat /\ Len(queue') = Len(queue) + 1
           /\ \A i \in 1 .. Len(queue) : queue'[i] = queue[i]
           /\ queue'[Len(queue) + 1] = e
BY AppendProperties DEF TypeInv, ChannelsTyped

\* A send does not change which count is in force at an earlier position.
LEMMA AppendInForce ==
    ASSUME TypeInv, NEW e \in Events, queue' = Append(queue, e),
           UNCHANGED <<hostCount, authoritative>>,
           NEW c, NEW j \in 1 .. Len(queue) + 1, InForce(j, c)
    PROVE  InForce(j, c)'
BY AppendFacts DEF InForce, NoneConfirms, Confirms

\* An event that confirms nothing leaves the last count in force.
LEMMA AppendInForceAfter ==
    ASSUME TypeInv, NEW e \in Events, queue' = Append(queue, e), e.kind # "HostCpuCount",
           UNCHANGED <<hostCount, authoritative>>,
           NEW c, InForce(Len(queue) + 1, c)
    PROVE  InForce(Len(queue) + 1, c)'
<1>1. /\ Len(queue) \in Nat /\ Len(queue') = Len(queue) + 1
      /\ \A i \in 1 .. Len(queue) : queue'[i] = queue[i]
      /\ queue'[Len(queue) + 1] = e
  BY AppendFacts
<1>2. ASSUME NEW i \in 1 .. Len(queue) + 1, NoneConfirms(i, Len(queue) + 1)
      PROVE  \A k \in i .. Len(queue') : queue'[k].kind # "HostCpuCount"
  BY <1>1, <1>2 DEF NoneConfirms, Confirms
<1>3. CASE authoritative /\ hostCount = c /\ NoneConfirms(1, Len(queue) + 1)
  BY <1>1, <1>2, <1>3 DEF InForce, NoneConfirms, Confirms
<1>4. ASSUME NEW i \in 1 .. Len(queue), Confirms(i), queue[i].count = c,
             NoneConfirms(i + 1, Len(queue) + 1)
      PROVE  InForce(Len(queue) + 1, c)'
  <2>1. i \in 1 .. Len(queue') /\ queue'[i].kind = "HostCpuCount" /\ queue'[i].count = c
    BY <1>1, <1>4 DEF Confirms
  <2>2. \A k \in i + 1 .. Len(queue') : queue'[k].kind # "HostCpuCount"
    BY <1>1, <1>2, <1>4
  <2> QED
    BY <1>1, <2>1, <2>2 DEF InForce, NoneConfirms, Confirms
<1> QED
  BY <1>1, <1>3, <1>4 DEF InForce

\* A step of a worker that sends at most one event, no confirmation, and stores
\* no count.
LEMMA SendKeepsScale ==
    ASSUME TypeInv, ScaleInv, NEW e \in Events, e.kind # "HostCpuCount",
           queue' = queue \/ queue' = Append(queue, e),
           UNCHANGED <<aggVars, open, cpus>>,
           open /\ e.kind = "Windows" /\ e.ok => InForce(Len(queue) + 1, e.count),
           (open /\ Normalized(e) /\ ~authoritative /\ FirstKeeps(Len(queue) + 1))
               => e.count = Fallback,
           ListsOf(e),
           "Windows" \in Collectors =>
               /\ pc'["Windows"] \in {"memory", "usage"} => pc["Windows"] \in {"memory", "usage"}
               /\ pc["Windows"] = "announce" /\ open => pc'["Windows"] = "announce",
           (open /\ ~authoritative /\ FirstKeeps(Len(queue) + 1)) => HeldAre(Fallback)',
           CachedLists'
    PROVE  ScaleInv'
<1> USE DEF aggVars, countVars, linuxVars, extraVars, runtimeVars
<1>1. SingleScale'
  BY DEF ScaleInv, SingleScale
<1>2. CASE queue' = queue
  <2>1. QueuedLists'
    BY <1>2 DEF ScaleInv, QueuedLists
  <2>2. ASSUME open
        PROVE  WindowsConfirmed' /\ Unannounced' /\ BeforeConfirmed' /\ HeldCounts'
    <3>1. \A j, c : InForce(j, c) => InForce(j, c)'
      BY <1>2 DEF InForce, NoneConfirms, Confirms
    <3>2. \A j : FirstKeeps(j)' => FirstKeeps(j)
      BY <1>2 DEF FirstKeeps, NoneConfirms, Confirms
    <3>3. WindowsConfirmed'
      BY <1>2, <2>2, <3>1 DEF ScaleInv, QueueInv, WindowsConfirmed
    <3>4. Unannounced'
      BY <1>2, <2>2 DEF ScaleInv, QueueInv, Unannounced, Confirms
    <3>5. BeforeConfirmed'
      BY <1>2, <2>2, <3>2 DEF ScaleInv, QueueInv, BeforeConfirmed, RowsAre, Normalized
    <3>6. HeldCounts'
      BY <1>2, <2>2, <3>2 DEF HeldCounts
    <3> QED
      BY <3>3, <3>4, <3>5, <3>6
  <2> QED
    BY <1>1, <2>1, <2>2 DEF ScaleInv, QueueInv
<1>3. CASE queue' = Append(queue, e)
  <2>1. /\ Len(queue) \in Nat /\ Len(queue') = Len(queue) + 1
        /\ \A i \in 1 .. Len(queue) : queue'[i] = queue[i]
        /\ queue'[Len(queue) + 1] = e
    BY <1>3, AppendFacts
  <2>2. QueuedLists'
    BY <2>1 DEF ScaleInv, QueuedLists
  <2>3. ASSUME open
        PROVE  WindowsConfirmed' /\ Unannounced' /\ BeforeConfirmed' /\ HeldCounts'
    <3>1. WindowsConfirmed'
      <4>1. ASSUME NEW j \in 1 .. Len(queue'), queue'[j].kind = "Windows", queue'[j].ok,
                   NEW c, c = queue'[j].count
            PROVE  InForce(j, c)'
        <5>1. j \in 1 .. Len(queue) + 1 /\ InForce(j, c)
          BY <2>1, <2>3, <4>1 DEF ScaleInv, QueueInv, WindowsConfirmed
        <5> QED
          BY <1>3, <5>1, AppendInForce
      <4>2. ASSUME "Windows" \in Collectors, pc'["Windows"] \in {"memory", "usage"}
            PROVE  InForce(Len(queue) + 1, cpus)'
        <5>1. PICK c : c = cpus
          OBVIOUS
        <5>2. InForce(Len(queue) + 1, c)
          BY <2>3, <4>2, <5>1 DEF ScaleInv, QueueInv, WindowsConfirmed
        <5>3. InForce(Len(queue) + 1, c)'
          BY <1>3, <5>2, AppendInForceAfter
        <5> QED
          BY <5>1, <5>3 DEF InForce
      <4> QED
        BY <4>1, <4>2 DEF WindowsConfirmed
    <3>2. Unannounced'
      BY <2>1, <2>3 DEF ScaleInv, QueueInv, Unannounced, Confirms
    <3>3. FirstKeeps(Len(queue) + 1)' => FirstKeeps(Len(queue) + 1)
      BY <2>1 DEF FirstKeeps, NoneConfirms, Confirms
    <3>4. \A j \in 1 .. Len(queue) + 1 : FirstKeeps(j)' => j \in 1 .. Len(queue) /\ FirstKeeps(j)
      BY <2>1 DEF FirstKeeps, NoneConfirms, Confirms
    <3>5. BeforeConfirmed'
      <4>1. SUFFICES ASSUME ~authoritative,
                            NEW j \in 1 .. Len(queue) + 2, FirstKeeps(j)'
                     PROVE  /\ RowsAre(Fallback)
                            /\ \A k \in 1 .. j - 1 :
                                  Normalized(queue'[k]) => queue'[k].count = Fallback
        BY <2>1, <2>3 DEF ScaleInv, QueueInv, BeforeConfirmed, RowsAre, Normalized
      <4>2. CASE j \in 1 .. Len(queue) + 1
        BY <2>1, <2>3, <3>4, <4>1, <4>2 DEF ScaleInv, QueueInv, BeforeConfirmed
      <4>3. CASE j = Len(queue) + 2
        BY <2>1, <2>3, <3>3, <4>1, <4>3 DEF ScaleInv, QueueInv, BeforeConfirmed
      <4> QED
        BY <2>1, <4>2, <4>3
    <3>6. HeldCounts'
      BY <2>1, <2>3, <3>3 DEF HeldCounts
    <3> QED
      BY <3>1, <3>2, <3>5, <3>6
  <2> QED
    BY <1>1, <2>2, <2>3 DEF ScaleInv, QueueInv
<1> QED
  BY <1>2, <1>3

(****************************************************************************)
(* One scale: the steps                                                     *)
(****************************************************************************)
\* What SendThen does to the queue, as SendKeepsScale needs it.
LEMMA SendFacts ==
    ASSUME TypeInv, NEW w \in Collectors, NEW event, NEW place, SendThen(w, event, place)
    PROVE  /\ queue' = queue \/ queue' = Append(queue, event)
           /\ UNCHANGED <<aggVars, open>>
           /\ \A v \in Collectors \ {w} : pc'[v] = pc[v]
           /\ pc'[w] \in {place, "done"}
           /\ open => queue' = Append(queue, event) /\ pc'[w] = place
           /\ ~open => queue' = queue
BY DEF SendThen, Goto, TypeInv

\* The first scale that is held stays with workers that do not move.
LEMMA HeldFrame ==
    ASSUME NEW v, HeldAre(v), pc'["current WSL"] = "send" => pc["current WSL"] = "send",
           UNCHANGED <<outgoing, loaded, job, work>>
    PROVE  HeldAre(v)'
BY DEF HeldAre

\* When the first confirmation is still to come, HeldAre says what it needs.
LEMMA HeldNow ==
    ASSUME ScaleInv, open, ~authoritative, FirstKeeps(Len(queue) + 1)
    PROVE  HeldAre(Fallback) /\ cpus = Fallback
BY DEF ScaleInv, QueueInv, HeldCounts, FirstKeeps

\* The Windows worker announces a count before anything else carries it.
LEMMA AnnounceScale ==
    ASSUME TypeInv, ScaleInv, WindowsAnnounce
    PROVE  ScaleInv'
<1> DEFINE e == [kind |-> "HostCpuCount", count |-> cpus]
<1> USE DEF windowsFrame, primaryLocal, jobVars, detailLocal
<1>1. /\ "Windows" \in Collectors /\ pc["Windows"] = "announce"
      /\ SendThen("Windows", e, "memory")
  BY DEF WindowsAnnounce
<1>2. e \in Events /\ e.kind = "HostCpuCount" /\ e.count = cpus
  BY DEF TypeInv, WorkersTyped, Events, HostCpuCountEvents
<1>3. /\ UNCHANGED <<aggVars, open, cpus, lastDetails>>
      /\ open => queue' = Append(queue, e) /\ pc'["Windows"] = "memory"
      /\ ~open => queue' = queue
  BY <1>1, SendFacts DEF WindowsAnnounce
<1>4. SingleScale' /\ CachedLists'
  BY <1>3 DEF ScaleInv, SingleScale, CachedLists, aggVars, countVars, linuxVars, extraVars,
              runtimeVars
<1>5. CASE ~open
  BY <1>3, <1>4, <1>5 DEF ScaleInv, QueueInv, QueuedLists
<1>6. CASE open
  <2>1. /\ Len(queue) \in Nat /\ Len(queue') = Len(queue) + 1
        /\ \A i \in 1 .. Len(queue) : queue'[i] = queue[i]
        /\ queue'[Len(queue) + 1] = e
    BY <1>2, <1>3, <1>6, AppendFacts
  <2>2. UNCHANGED <<hostCount, authoritative>> /\ \A v : RowsAre(v) => RowsAre(v)'
    BY <1>3 DEF RowsAre, aggVars, countVars, linuxVars, extraVars, runtimeVars
  <2>3. QueuedLists'
    BY <1>2, <2>1 DEF ScaleInv, QueuedLists, ListsOf
  <2>4. WindowsConfirmed'
    <3>1. ASSUME NEW j \in 1 .. Len(queue'), queue'[j].kind = "Windows", queue'[j].ok,
                 NEW c, c = queue'[j].count
          PROVE  InForce(j, c)'
      <4>1. j \in 1 .. Len(queue) /\ InForce(j, c)
        BY <1>2, <1>6, <2>1, <3>1 DEF ScaleInv, QueueInv, WindowsConfirmed
      <4> QED
        BY <1>2, <1>3, <1>6, <2>2, <4>1, AppendInForce
    <3>2. InForce(Len(queue) + 1, cpus)'
      BY <1>2, <1>3, <2>1 DEF InForce, Confirms, NoneConfirms
    <3> QED
      BY <3>1, <3>2 DEF WindowsConfirmed
  <2>5. Unannounced'
    BY <1>2, <2>1 DEF Unannounced, Confirms
  <2>6. ~FirstKeeps(Len(queue) + 1)'
    BY <1>2, <2>1 DEF FirstKeeps, NoneConfirms, Confirms
  <2>7. BeforeConfirmed'
    <3>1. SUFFICES ASSUME ~authoritative, NEW j \in 1 .. Len(queue) + 2, FirstKeeps(j)'
                   PROVE  /\ RowsAre(Fallback)
                          /\ \A k \in 1 .. j - 1 :
                                Normalized(queue'[k]) => queue'[k].count = Fallback
      BY <1>6, <2>1, <2>2 DEF ScaleInv, QueueInv, BeforeConfirmed, Normalized
    <3>2. j \in 1 .. Len(queue) + 1 /\ FirstKeeps(j)
      BY <1>2, <1>3, <2>1, <3>1 DEF FirstKeeps, NoneConfirms, Confirms
    <3> QED
      BY <1>6, <2>1, <3>1, <3>2 DEF ScaleInv, QueueInv, BeforeConfirmed
  <2>8. HeldCounts'
    BY <2>6 DEF HeldCounts
  <2> QED
    BY <1>4, <2>3, <2>4, <2>5, <2>7, <2>8 DEF ScaleInv, QueueInv
<1> QED
  BY <1>5, <1>6

\* Storing a count leaves it to the announcement to confirm it.
LEMMA SnapshotScale ==
    ASSUME TypeInv, ScaleInv, NEW count \in Counts, WindowsSnapshot(count)
    PROVE  ScaleInv'
<1> USE DEF primaryLocal, channelVars, jobVars, detailLocal
<1>1. /\ "Windows" \in Collectors \ {"current WSL"} /\ pc["Windows"] # "announce"
      /\ pc'["Windows"] = "announce" /\ pc'["current WSL"] = pc["current WSL"]
      /\ UNCHANGED <<aggVars, queue, open, outgoing, loaded, job, work, lastDetails>>
  BY SomeCollectors DEF WindowsSnapshot, Starts, Goto, TypeInv
<1>2. SingleScale' /\ QueuedLists' /\ CachedLists' /\ \A v : RowsAre(v) => RowsAre(v)'
  BY <1>1 DEF ScaleInv, SingleScale, QueuedLists, CachedLists, RowsAre, aggVars, countVars,
              linuxVars, extraVars, runtimeVars
<1>3. UNCHANGED <<hostCount, authoritative>>
  BY <1>1 DEF aggVars, countVars
<1>4. ASSUME open
      PROVE  WindowsConfirmed' /\ Unannounced' /\ BeforeConfirmed' /\ HeldCounts'
  <2>1. WindowsConfirmed'
    <3>1. \A j, c : InForce(j, c) => InForce(j, c)'
      BY <1>1, <1>3 DEF InForce, NoneConfirms, Confirms
    <3> QED
      BY <1>1, <1>4, <3>1 DEF ScaleInv, QueueInv, WindowsConfirmed
  <2>2. Unannounced'
    BY <1>1 DEF Unannounced
  <2>3. ASSUME ~authoritative, NEW j \in 1 .. Len(queue) + 1, FirstKeeps(j)'
        PROVE  FirstKeeps(j)
    <3> queue' = queue
      BY <1>1
    <3> Len(queue) \in Nat
      BY DEF TypeInv, ChannelsTyped
    <3>1. NoneConfirms(1, j)
      BY <2>3 DEF FirstKeeps, NoneConfirms, Confirms
    <3>2. CASE j =< Len(queue)
      BY <2>3, <3>1, <3>2 DEF FirstKeeps, Confirms
    <3>3. CASE j = Len(queue) + 1
      <4>1. ~\E i \in 1 .. Len(queue) : Confirms(i)
        BY <3>1, <3>3 DEF NoneConfirms
      <4>2. cpus = Fallback
        BY <1>1, <1>4, <2>3, <4>1 DEF ScaleInv, QueueInv, Unannounced
      <4> QED
        BY <3>1, <3>3, <4>2 DEF FirstKeeps
    <3> QED
      BY <3>1, <3>2, <3>3
  <2>4. BeforeConfirmed'
    BY <1>1, <1>2, <1>3, <1>4, <2>3 DEF ScaleInv, QueueInv, BeforeConfirmed, Normalized
  <2>5. HeldCounts'
    <3>1. ASSUME ~authoritative, NEW j, j = Len(queue) + 1, FirstKeeps(j)'
          PROVE  HeldAre(Fallback)'
      <4>1. FirstKeeps(Len(queue) + 1)
        BY <2>3, <3>1 DEF TypeInv, ChannelsTyped
      <4> QED
        BY <1>1, <1>4, <3>1, <4>1, HeldNow, HeldFrame
    <3> QED
      BY <1>1, <1>3, <3>1 DEF HeldCounts
  <2> QED
    BY <2>1, <2>2, <2>4, <2>5
<1> QED
  BY <1>1, <1>2, <1>4 DEF ScaleInv, QueueInv

\* A step that caches no process list.
LEMMA CacheFrame == ASSUME CachedLists, UNCHANGED lastDetails PROVE CachedLists'
BY DEF CachedLists

\* A step that sends nothing and stores no count.
LEMMA QuietKeepsScale ==
    ASSUME TypeInv, ScaleInv, UNCHANGED <<aggVars, queue, open, cpus>>,
           "Windows" \in Collectors =>
               \/ pc'["Windows"] = pc["Windows"]
               \/ pc["Windows"] \in {"start", "idle"} /\ pc'["Windows"] = "done",
           (open /\ ~authoritative /\ FirstKeeps(Len(queue) + 1)) => HeldAre(Fallback)',
           CachedLists'
    PROVE  ScaleInv'
<1>1. /\ PlanEvent \in Events /\ PlanEvent.kind = "CollectorWarnings"
      /\ ListsOf(PlanEvent) /\ ~Normalized(PlanEvent)
  BY BoundAssumption DEF PlanEvent, Events, WarningEvents, ListsOf, Normalized
<1>2. "Windows" \in Collectors =>
        /\ pc'["Windows"] \in {"memory", "usage"} => pc["Windows"] \in {"memory", "usage"}
        /\ pc["Windows"] = "announce" => pc'["Windows"] = "announce"
  OBVIOUS
<1> QED
  BY <1>1, <1>2, SendKeepsScale

\* The same for a step that keeps every count that a worker holds, or holds cpus.
LEMMA LocalKeepsScale ==
    ASSUME TypeInv, ScaleInv, UNCHANGED aggVars, UNCHANGED <<queue, open, cpus, lastDetails>>,
           "Windows" \in Collectors =>
               \/ pc'["Windows"] = pc["Windows"]
               \/ pc["Windows"] \in {"start", "idle"} /\ pc'["Windows"] = "done",
           cpus = Fallback /\ HeldAre(Fallback) => HeldAre(Fallback)'
    PROVE  ScaleInv'
<1>1. CachedLists'
  BY CacheFrame DEF ScaleInv
<1>2. (open /\ ~authoritative /\ FirstKeeps(Len(queue) + 1)) => HeldAre(Fallback)'
  BY HeldNow
<1> QED
  BY <1>1, <1>2, QuietKeepsScale

\* The other steps of the two Windows workers.
LEMMA WindowsScale ==
    ASSUME TypeInv, ScaleInv, WindowsStep \/ Metadata
    PROVE  ScaleInv'
<1> USE DEF windowsFrame, windowsLocal, primaryLocal, jobVars, detailLocal
<1>1. ASSUME NEW w \in Collectors \ {"current WSL"}, NEW e \in Events, NEW place,
             SendThen(w, e, place), e.kind # "HostCpuCount", ~Normalized(e), ListsOf(e),
             w = "Windows" => pc[w] # "announce",
             w = "Windows" /\ place \in {"memory", "usage"} => pc[w] \in {"memory", "usage"},
             e.kind = "Windows" /\ e.ok =>
                 "Windows" \in Collectors /\ pc["Windows"] = "usage" /\ e.count = cpus,
             UNCHANGED <<cpus, outgoing, loaded, job, work, lastDetails>>
      PROVE  ScaleInv'
  <2>1. /\ queue' = queue \/ queue' = Append(queue, e)
        /\ UNCHANGED <<aggVars, open>>
        /\ \A v \in Collectors \ {w} : pc'[v] = pc[v]
        /\ pc'[w] \in {place, "done"}
    BY <1>1, SendFacts
  <2>2. "Windows" \in Collectors =>
          /\ pc'["Windows"] \in {"memory", "usage"} => pc["Windows"] \in {"memory", "usage"}
          /\ pc["Windows"] = "announce" => pc'["Windows"] = "announce"
    BY <1>1, <2>1
  <2>3. open /\ e.kind = "Windows" /\ e.ok => InForce(Len(queue) + 1, e.count)
    BY <1>1 DEF ScaleInv, QueueInv, WindowsConfirmed
  <2>4. pc'["current WSL"] = pc["current WSL"]
    BY <1>1, <2>1, SomeCollectors
  <2>5. (open /\ ~authoritative /\ FirstKeeps(Len(queue) + 1)) => HeldAre(Fallback)'
    BY <1>1, <2>4, HeldNow, HeldFrame
  <2>6. CachedLists'
    BY <1>1, CacheFrame DEF ScaleInv
  <2> QED
    BY <1>1, <2>1, <2>2, <2>3, <2>5, <2>6, SendKeepsScale
<1>2. CASE WindowsMemory
  <2>1. PICK present \in BOOLEAN :
           SendThen("Windows", [kind |-> "HostMemory", memory |-> present],
                    IF OnlyBaseline THEN "idle" ELSE "usage")
    BY <1>2 DEF WindowsMemory
  <2>2. [kind |-> "HostMemory", memory |-> present] \in Events
    BY DEF Events, HostMemoryEvents
  <2> QED
    BY <1>1, <1>2, <2>1, <2>2 DEF WindowsMemory, Normalized, ListsOf
<1>3. CASE WindowsUsage
  <2> DEFINE e(consistent) ==
        [kind |-> "Windows", count |-> cpus, ok |-> TRUE,
         rows |-> IF winBefore = cpus THEN cpus ELSE Unmeasured,
         total |-> winBefore = cpus /\ consistent]
  <2>1. PICK consistent \in BOOLEAN : SendThen("Windows", e(consistent), "idle")
    BY <1>3 DEF WindowsUsage
  <2>2. ~WslOnly
    BY <1>3, ConfigAssumption DEF WindowsUsage, Collectors, NormalizedCollectors
  <2>3. e(consistent) \in Events
    BY <2>2, WindowsEventTypes DEF TypeInv, WorkersTyped
  <2> QED
    BY <1>1, <1>3, <2>1, <2>3 DEF WindowsUsage, Normalized, ListsOf
<1>4. CASE WindowsFails
  <2> DEFINE e == [kind |-> "Windows", count |-> cpus, ok |-> FALSE, rows |-> Unmeasured,
                   total |-> FALSE]
  <2>1. ~WslOnly
    BY <1>4, ConfigAssumption DEF WindowsFails, Starts, Collectors, NormalizedCollectors
  <2>2. e \in Events
    BY <2>1, WindowsEventTypes DEF TypeInv, WorkersTyped
  <2> QED
    BY <1>1, <1>4, <2>2 DEF WindowsFails, Starts, Normalized, ListsOf
<1>5. CASE Metadata
  <2>1. PICK ok \in BOOLEAN :
           SendThen("Windows applications", [kind |-> "WindowsMetadata", ok |-> ok], "idle")
    BY <1>5 DEF Metadata
  <2>2. ~WslOnly
    BY <1>5, ConfigAssumption DEF Metadata, Starts, Collectors, NormalizedCollectors
  <2>3. [kind |-> "WindowsMetadata", ok |-> ok] \in Events
    BY <2>2, WindowsEventTypes DEF TypeInv, WorkersTyped
  <2> QED
    BY <1>1, <1>5, <2>1, <2>3 DEF Metadata, Starts, Normalized, ListsOf
<1> QED
  BY <1>2, <1>3, <1>4, <1>5, AnnounceScale, SnapshotScale DEF WindowsStep

\* A worker of WSL or of a runtime sends an event of the count it holds.
LEMMA HolderKeepsScale ==
    ASSUME TypeInv, ScaleInv, NEW w \in Collectors \ {"Windows"}, NEW e \in Events,
           NEW place, SendThen(w, e, place), e.kind \notin {"HostCpuCount", "Windows"},
           ListsOf(e), UNCHANGED <<cpus, lastDetails>>,
           HeldAre(Fallback) => e.count = Fallback /\ HeldAre(Fallback)'
    PROVE  ScaleInv'
<1>1. /\ queue' = queue \/ queue' = Append(queue, e)
      /\ UNCHANGED <<aggVars, open>>
      /\ \A v \in Collectors \ {w} : pc'[v] = pc[v]
  BY SendFacts
<1>2. CachedLists'
  BY CacheFrame DEF ScaleInv
<1> QED
  BY <1>1, <1>2, HeldNow, SendKeepsScale

\* The primary worker sends the count it ended its capture with.
LEMMA PrimaryScale ==
    ASSUME TypeInv, ScaleInv, PrimaryStep
    PROVE  ScaleInv'
<1> USE DEF channelVars, jobVars, detailLocal
<1>1. "current WSL" \in Collectors
  BY SomeCollectors
<1>2. ASSUME NEW place, Goto("current WSL", place),
             UNCHANGED <<aggVars, channelVars, cpus, loaded, jobVars, detailLocal>>,
             cpus = Fallback /\ HeldAre(Fallback) /\ place = "send" => outgoing'.count = Fallback
      PROVE  ScaleInv'
  <2>1. /\ pc' = [pc EXCEPT !["current WSL"] = place]
        /\ pc'["current WSL"] = place
        /\ \A v \in Collectors \ {"current WSL"} : pc'[v] = pc[v]
    BY <1>1, <1>2 DEF Goto, TypeInv
  <2>2. cpus = Fallback /\ HeldAre(Fallback) => HeldAre(Fallback)'
    BY <1>2, <2>1 DEF HeldAre
  <2>3. "Windows" \in Collectors => pc'["Windows"] = pc["Windows"]
    BY <2>1
  <2>4. UNCHANGED <<queue, open, cpus, lastDetails>>
    BY <1>2
  <2> QED
    BY <1>2, <2>2, <2>3, <2>4, LocalKeepsScale
<1>3. CASE PrimaryCapture
  BY <1>2, <1>3 DEF PrimaryCapture
<1>4. CASE PrimarySample
  <2> DEFINE place == IF baseline = {} THEN "idle" ELSE "send"
  <2>1. PICK systemCpu \in BOOLEAN :
           outgoing' = IF baseline = {} THEN None
                       ELSE [kind |-> "Linux", count |-> cpus, ok |-> TRUE,
                             scope |-> systemCpu,
                             window |-> IF systemCpu /\ StableWindow
                                        THEN KernelWindow ELSE {}]
    BY <1>4 DEF PrimarySample
  <2>2. place = "send" => outgoing'.count = cpus
    BY <2>1
  <2>3. Goto("current WSL", place)
    BY <1>4 DEF PrimarySample
  <2> HIDE DEF place
  <2> QED
    BY <1>2, <1>4, <2>2, <2>3 DEF PrimarySample
<1>5. CASE PrimaryFails
  BY <1>2, <1>5 DEF PrimaryFails
<1>6. CASE PrimarySend
  <2>1. pc["current WSL"] = "send" /\ SendThen("current WSL", outgoing, "idle")
    BY <1>6 DEF PrimarySend
  <2>2. outgoing \in Events /\ outgoing.kind = "Linux"
    BY <2>1 DEF TypeInv, WorkersReady, Events, LinuxEvents
  <2>3. pc'["current WSL"] # "send"
    <3>1. pc'["current WSL"] \in {"idle", "done"}
      BY <1>1, <2>1, SendFacts
    <3> QED
      BY <3>1
  <2>4. HeldAre(Fallback) => outgoing.count = Fallback /\ HeldAre(Fallback)'
    BY <1>6, <2>1, <2>3 DEF HeldAre, PrimarySend
  <2> QED
    BY <1>1, <1>6, <2>1, <2>2, <2>4, HolderKeepsScale DEF PrimarySend, ListsOf
<1> QED
  BY <1>3, <1>4, <1>5, <1>6 DEF PrimaryStep

\* Loading the shared count.
LEMMA LoadScale ==
    ASSUME TypeInv, ScaleInv, NEW w, LoadCount(w)
    PROVE  ScaleInv'
<1> USE DEF channelVars, jobVars, detailLocal, primaryLocal
<1>1. w \in Collectors \ {"current WSL", "Windows"}
  BY ConfigAssumption DEF LoadCount, Starts
<1>2. \A v \in Collectors \ {w} : pc'[v] = pc[v] /\ loaded'[v] = loaded[v]
  BY <1>1 DEF LoadCount, Goto, TypeInv, WorkersTyped
<1>3. loaded'[w] = cpus
  BY <1>1 DEF LoadCount, TypeInv, WorkersTyped
<1>4. pc'["current WSL"] = pc["current WSL"]
  BY <1>1, <1>2, SomeCollectors
<1>5. cpus = Fallback /\ HeldAre(Fallback) => HeldAre(Fallback)'
  BY <1>2, <1>3, <1>4 DEF LoadCount, HeldAre
<1>6. UNCHANGED aggVars /\ UNCHANGED <<queue, open, cpus, lastDetails>>
  BY DEF LoadCount
<1>7. "Windows" \in Collectors => pc'["Windows"] = pc["Windows"]
  BY <1>1, <1>2
<1> QED
  BY <1>5, <1>6, <1>7, LocalKeepsScale

\* A worker that loaded the count sends with it and forgets it.
LEMMA LoaderKeepsScale ==
    ASSUME TypeInv, ScaleInv, NEW w \in Collectors \ {"current WSL", "Windows"},
           pc[w] = "collect",
           NEW e \in Events, SendThen(w, e, "idle"), Forget(w), e.count = loaded[w],
           e.kind \notin {"HostCpuCount", "Windows"}, ListsOf(e),
           UNCHANGED <<cpus, outgoing, work, lastDetails>>,
           \A r \in Runtimes : job'[r] = job[r] \/ job'[r].count = loaded[w]
    PROVE  ScaleInv'
<1>1. loaded[w] \in Counts
  BY DEF TypeInv, WorkersReady
<1>2. loaded'[w] = None /\ \A v \in Collectors \ {w} : loaded'[v] = loaded[v]
  BY DEF Forget, TypeInv, WorkersTyped
<1>3. pc'["current WSL"] = pc["current WSL"]
  BY SendFacts, SomeCollectors
<1>4. HeldAre(Fallback) => loaded[w] = Fallback
  BY <1>1, ValueAssumption DEF HeldAre
<1>5. HeldAre(Fallback) => HeldAre(Fallback)'
  BY <1>2, <1>3, <1>4 DEF HeldAre
<1> QED
  BY <1>4, <1>5, HolderKeepsScale

\* The additional worker, and distributions that start or stop.
LEMMA AdditionalScale ==
    ASSUME TypeInv, ScaleInv, AdditionalStep \/ \E d \in Distros : DistroStartsOrStops(d)
    PROVE  ScaleInv'
<1> USE DEF jobVars, detailLocal, primaryLocal, additionalLocal, channelVars
<1>1. "additional WSL" \in Collectors => ~WslOnly
  BY ConfigAssumption DEF Collectors, NormalizedCollectors
<1>2. CASE AdditionalSample
  <2> DEFINE e(snapshots) ==
        [kind |-> "ExtraWsl", count |-> loaded["additional WSL"], ok |-> TRUE,
         running |-> running, successful |-> snapshots \cap before,
         failures |-> running \ snapshots]
  <2>1. PICK snapshots \in SUBSET running : SendThen("additional WSL", e(snapshots), "idle")
    BY <1>2 DEF AdditionalSample
  <2>2. running \in SUBSET Distros /\ loaded["additional WSL"] \in Counts
    BY <1>2 DEF AdditionalSample, TypeInv, WorkersTyped, WorkersReady
  <2>3. e(snapshots) \in Events
    <3>1. snapshots \cap before \in SUBSET Distros /\ running \ snapshots \in SUBSET Distros
      BY <2>2
    <3> QED
      BY <1>1, <1>2, <2>2, <3>1 DEF AdditionalSample, Events, ExtraWslEvents
  <2> QED
    BY <1>2, <2>1, <2>3, LoaderKeepsScale DEF AdditionalSample, ListsOf
<1>3. CASE AdditionalFails
  <2> DEFINE e == [kind |-> "ExtraWsl", count |-> loaded["additional WSL"], ok |-> FALSE,
                   running |-> {}, successful |-> {}, failures |-> {}]
  <2>1. loaded["additional WSL"] \in Counts
    BY <1>3 DEF AdditionalFails, TypeInv, WorkersReady
  <2>2. e \in Events
    BY <1>1, <1>3, <2>1 DEF AdditionalFails, Events, ExtraWslEvents
  <2> QED
    BY <1>3, <2>2, LoaderKeepsScale DEF AdditionalFails, ListsOf
<1>4. ASSUME NEW d \in Distros, DistroStartsOrStops(d)
      PROVE  ScaleInv'
  <2>1. HeldAre(Fallback) => HeldAre(Fallback)'
    BY <1>4 DEF DistroStartsOrStops, HeldAre
  <2>2. UNCHANGED aggVars /\ UNCHANGED <<queue, open, cpus, lastDetails, pc>>
    BY <1>4 DEF DistroStartsOrStops
  <2> QED
    BY <2>1, <2>2, LocalKeepsScale
<1> QED
  BY <1>2, <1>3, <1>4, LoadScale DEF AdditionalStep

\* The container workers offer a job of the count they send.
LEMMA RuntimeScale ==
    ASSUME TypeInv, ScaleInv, NEW r \in Runtimes, RuntimeStep(r)
    PROVE  ScaleInv'
<1> USE DEF jobVars, detailLocal, primaryLocal
<1>1. r \in Collectors \ {"current WSL", "Windows"}
  BY SomeCollectors, ConfigAssumption
<1>2. CASE RuntimeSample(r)
  <2> DEFINE e(ids, complete) ==
        [kind |-> "Aggregate", runtime |-> r, count |-> loaded[r], ok |-> TRUE,
         ids |-> ids, complete |-> complete]
  <2>1. PICK ids \in SUBSET Containers, complete \in BOOLEAN :
           /\ SendThen(r, e(ids, complete), "idle")
           /\ job' = IF open /\ showDetails /\ job[r] = None
                     THEN [job EXCEPT ![r] = [ids |-> ids, count |-> loaded[r]]]
                     ELSE job
    BY <1>2 DEF RuntimeSample
  <2>2. e(ids, complete) \in Events
    BY <1>1, <1>2 DEF RuntimeSample, TypeInv, WorkersReady, Events, UsageEvents
  <2>3. \A q \in Runtimes : job'[q] = job[q] \/ job'[q].count = loaded[r]
    BY <2>1 DEF TypeInv, DetailsTyped
  <2> QED
    BY <1>1, <1>2, <2>1, <2>2, <2>3, LoaderKeepsScale DEF RuntimeSample, ListsOf
<1>3. CASE RuntimeFails(r)
  <2> DEFINE e == [kind |-> "Aggregate", runtime |-> r, count |-> loaded[r], ok |-> FALSE,
                   ids |-> {}, complete |-> FALSE]
  <2>1. e \in Events
    BY <1>1, <1>3 DEF RuntimeFails, TypeInv, WorkersReady, Events, UsageEvents
  <2> QED
    BY <1>1, <1>3, <2>1, LoaderKeepsScale DEF RuntimeFails, ListsOf
<1> QED
  BY <1>2, <1>3, LoadScale DEF RuntimeStep

\* The detail worker sends lists of its job's count only.
LEMMA DetailScale ==
    ASSUME TypeInv, ScaleInv, NEW r \in Runtimes, DetailStep(r)
    PROVE  ScaleInv'
<1> USE DEF detailFrame, channelVars, primaryLocal
<1>1. job[r] \in Jobs \cup {None} /\ work[r] \in Jobs \cup {None}
  BY DEF TypeInv, DetailsTyped
<1>2. CASE DetailTake(r)
  <2>1. work'[r] = job[r] /\ \A q \in Runtimes \ {r} : work'[q] = work[q]
    BY <1>2 DEF DetailTake, TypeInv, DetailsTyped
  <2>2. \A q \in Runtimes : job'[q] \in {job[q], None}
    BY <1>2 DEF DetailTake, TypeInv, DetailsTyped
  <2>3. HeldAre(Fallback) => HeldAre(Fallback)'
    BY <1>2, <2>1, <2>2, ZenonT(40) DEF DetailTake, HeldAre
  <2>4. UNCHANGED aggVars /\ UNCHANGED <<queue, open, cpus, lastDetails, pc>>
    BY <1>2 DEF DetailTake
  <2> QED
    BY <2>3, <2>4, LocalKeepsScale
<1>3. CASE DetailPopulate(r)
  <2> DEFINE count == work[r].count
             e(failed) == [kind |-> "Details", runtime |-> r, count |-> count,
                           ids |-> work[r].ids, lists |-> Populated(r, failed),
                           failed |-> failed]
  <2>1. PICK failed \in SUBSET work[r].ids :
           /\ lastDetails' = [lastDetails EXCEPT ![r] =
                                 [count |-> count, lists |-> Populated(r, failed)]]
           /\ queue' = queue \/ queue' = Append(queue, e(failed))
    BY <1>3 DEF DetailPopulate
  <2>2. work[r].count \in Counts /\ work[r].ids \in SUBSET Containers
    BY <1>1, <1>3 DEF DetailPopulate, Jobs
  <2>3. \A c \in Containers : Populated(r, failed)[c] \in {None, count}
    <3>1. ASSUME NEW c \in Containers
          PROVE  Reused(r, c) \in {None, count}
      BY DEF Reused, ScaleInv, CachedLists
    <3> QED
      BY <3>1 DEF Populated
  <2>4. Populated(r, failed) \in Lists
    <3>1. \A c \in Containers : Populated(r, failed)[c] \in Rows
      BY <2>2, <2>3, ValuesAreRows
    <3> QED
      BY <3>1 DEF Populated, Lists
  <2>5. e(failed) \in Events
    <3>1. failed \in SUBSET Containers
      BY <2>2
    <3>2. e(failed) \in DetailEvents
      BY <2>2, <2>4, <3>1 DEF DetailEvents
    <3> QED
      BY <3>2 DEF Events
  <2>6. ListsOf(e(failed))
    BY <2>3 DEF ListsOf
  <2>7. CachedLists'
    <3>1. \A q \in Runtimes \ {r} : lastDetails'[q] = lastDetails[q]
      BY <2>1 DEF TypeInv, DetailsTyped
    <3>2. lastDetails'[r].count = count /\ lastDetails'[r].lists = Populated(r, failed)
      BY <2>1 DEF TypeInv, DetailsTyped
    <3> QED
      BY <2>3, <3>1, <3>2 DEF ScaleInv, CachedLists
  <2>8. \A q \in Runtimes : work'[q] \in {work[q], None}
    BY <1>3 DEF DetailPopulate, TypeInv, DetailsTyped
  <2>9. UNCHANGED <<aggVars, open, cpus>> /\ UNCHANGED <<pc, outgoing, loaded, job>>
    BY <1>3 DEF DetailPopulate, jobVars
  <2>10. HeldAre(Fallback) => count = Fallback /\ HeldAre(Fallback)'
    BY <1>3, <2>8, <2>9 DEF DetailPopulate, HeldAre
  <2>11. e(failed).kind = "Details" /\ e(failed).count = count
    OBVIOUS
  <2>12. PICK d : d = e(failed)
    OBVIOUS
  <2> HIDE DEF e, count
  <2> QED
    BY <2>1, <2>5, <2>6, <2>7, <2>9, <2>10, <2>11, <2>12, HeldNow, SendKeepsScale
<1>4. CASE DetailQuit(r)
  <2>1. UNCHANGED aggVars
        /\ UNCHANGED <<queue, open, cpus, lastDetails, pc, outgoing, loaded, job, work>>
    BY <1>4 DEF DetailQuit, jobVars
  <2> QED
    BY <2>1, HeldFrame, LocalKeepsScale
<1> QED
  BY <1>2, <1>3, <1>4 DEF DetailStep

\* Stopping a worker, raising the flag and toggling details send nothing.
LEMMA StopScale ==
    ASSUME TypeInv, ScaleInv, (\E w \in Collectors : Quit(w)) \/ Stop \/ ToggleDetails
    PROVE  ScaleInv'
<1> USE DEF channelVars, workerVars, jobVars, detailLocal, primaryLocal
<1>1. UNCHANGED aggVars
      /\ UNCHANGED <<queue, open, cpus, lastDetails, outgoing, loaded, job, work>>
  BY DEF Quit, Stop, ToggleDetails
<1>2. \A v \in Collectors : pc'[v] = pc[v] \/ (pc[v] = "idle" /\ pc'[v] = "done")
  BY DEF Quit, Stop, ToggleDetails, Goto, TypeInv
<1>3. "current WSL" \in Collectors
  BY SomeCollectors
<1>4. HeldAre(Fallback) => HeldAre(Fallback)'
  BY <1>1, <1>2, <1>3, HeldFrame
<1> QED
  BY <1>1, <1>2, <1>4, LocalKeepsScale

\* Once the receiver is gone nothing is applied.
LEMMA LeaveScale ==
    ASSUME TypeInv, ScaleInv, Leave
    PROVE  ScaleInv'
<1>1. queue' = <<>> /\ ~open' /\ UNCHANGED aggVars /\ UNCHANGED lastDetails
  BY DEF Leave, workerVars, jobVars, detailLocal
<1>2. SingleScale' /\ CachedLists' /\ QueuedLists'
  BY <1>1 DEF ScaleInv, SingleScale, CachedLists, QueuedLists, aggVars, countVars, linuxVars,
              extraVars, runtimeVars
<1> QED
  BY <1>1, <1>2 DEF ScaleInv, QueueInv
\* Applying the head of the queue.
LEMMA ReceiveScale ==
    ASSUME TypeInv, ScaleInv, Receive
    PROVE  ScaleInv'
<1> DEFINE e == queue[1]
<1> USE DEF workerVars, jobVars, detailLocal, primaryLocal
<1>1. /\ Len(queue) \in Nat \ {0} /\ e = Head(queue) /\ queue' = Tail(queue)
      /\ e \in Events /\ Len(queue') = Len(queue) - 1
      /\ \A i \in 1 .. Len(queue') : queue'[i] = queue[i + 1]
  BY HeadTailProperties DEF Receive, TypeInv, ChannelsTyped
<1>2. /\ open /\ Apply(e) /\ AggregateTypeOK
      /\ UNCHANGED <<open, cpus, pc, outgoing, loaded, job, work, lastDetails>>
  BY <1>1 DEF Receive, TypeInv
<1>3. WindowsConfirmed /\ Unannounced /\ BeforeConfirmed /\ HeldCounts
  BY <1>2 DEF ScaleInv, QueueInv
<1>4. ListsOf(e)
  BY <1>1 DEF ScaleInv, QueuedLists
<1>5. CachedLists'
  BY <1>2, CacheFrame DEF ScaleInv
<1> HIDE DEF e
<1>6. QueuedLists'
  <2>1. SUFFICES ASSUME NEW j \in 1 .. Len(queue')
                 PROVE  ListsOf(queue'[j])
    BY DEF QueuedLists, ListsOf
  <2>2. j + 1 \in 1 .. Len(queue) /\ queue'[j] = queue[j + 1]
    BY <1>1, <2>1
  <2> QED
    BY <2>2 DEF ScaleInv, QueuedLists
<1>7. e.kind # "HostCpuCount" => UNCHANGED <<authoritative, hostCount>>
  <2>1. e.kind = "Windows" /\ e.ok => authoritative /\ hostCount = e.count
    BY <1>1, <1>3 DEF e, WindowsConfirmed, InForce
  <2> QED
    BY <1>1, <1>2, <2>1, ApplyCount
<1>8. e.kind = "HostCpuCount" => authoritative' /\ hostCount' = e.count /\ RowsAre(hostCount)'
  <2>1. SUFFICES ASSUME e.kind = "HostCpuCount", e.count = hostCount
                 PROVE  RowsAre(hostCount)
    BY <1>1, <1>2, ConfirmRows
  <2>2. CASE authoritative
    BY <2>2, SingleScaleRows DEF ScaleInv
  <2>3. CASE ~authoritative
    <3>1. hostCount = Fallback
      BY <1>3, <2>3 DEF BeforeConfirmed
    <3>2. FirstKeeps(1)
      BY <1>1, <2>1, <3>1 DEF e, FirstKeeps, NoneConfirms, Confirms
    <3> QED
      BY <1>1, <1>3, <2>3, <3>1, <3>2 DEF BeforeConfirmed
  <2> QED
    BY <2>2, <2>3
<1>9. SingleScale'
  <2>1. CASE e.kind # "HostCpuCount" /\ authoritative
    <3>1. PICK v : v = hostCount
      OBVIOUS
    <3>2. RowsAre(v)
      BY <2>1, <3>1, SingleScaleRows DEF ScaleInv
    <3>3. Normalized(e) /\ ~HasStaleNormalization(e) => e.count = v
      BY <2>1, <3>1 DEF HasStaleNormalization
    <3>4. RowsAre(v)'
      BY <1>1, <1>2, <1>4, <2>1, <3>2, <3>3, ApplyRows
    <3> QED
      BY <1>7, <2>1, <3>1, <3>4 DEF SingleScale, RowsAre
  <2>2. CASE e.kind # "HostCpuCount" /\ ~authoritative
    BY <1>7, <2>2 DEF SingleScale
  <2>3. CASE e.kind = "HostCpuCount"
    BY <1>8, <2>3 DEF SingleScale, RowsAre
  <2> QED
    BY <2>1, <2>2, <2>3
<1>10. ASSUME NEW j \in 1 .. Len(queue), NEW c, InForce(j + 1, c)
       PROVE  InForce(j, c)'
  <2>1. ASSUME NEW i \in 1 .. j, NoneConfirms(i + 1, j + 1)
        PROVE  NoneConfirms(i, j)'
    <3>1. SUFFICES ASSUME NEW k \in i .. j - 1
                   PROVE  queue'[k].kind # "HostCpuCount"
      BY DEF NoneConfirms, Confirms
    <3>2. k + 1 \in i + 1 .. j + 1 - 1 /\ k \in 1 .. Len(queue')
      BY <1>1
    <3> QED
      BY <1>1, <2>1, <3>2 DEF NoneConfirms, Confirms
  <2>2. CASE authoritative /\ hostCount = c /\ NoneConfirms(1, j + 1)
    <3>1. e.kind # "HostCpuCount" /\ NoneConfirms(1 + 1, j + 1)
      BY <1>1, <2>2 DEF e, NoneConfirms, Confirms
    <3>2. NoneConfirms(1, j)'
      BY <2>1, <3>1
    <3>3. authoritative' /\ hostCount' = c
      BY <1>7, <2>2, <3>1
    <3> QED
      BY <3>2, <3>3 DEF InForce
  <2>3. ASSUME NEW i \in 1 .. j, Confirms(i), queue[i].count = c, NoneConfirms(i + 1, j + 1)
        PROVE  InForce(j, c)'
    <3>1. CASE i = 1
      <4>1. authoritative' /\ hostCount' = c
        BY <1>8, <2>3, <3>1 DEF e, Confirms
      <4>2. NoneConfirms(1, j)'
        BY <2>1, <2>3, <3>1
      <4> QED
        BY <4>1, <4>2 DEF InForce
    <3>2. CASE i # 1
      <4>1. /\ i - 1 \in 1 .. j - 1 /\ i - 1 \in 1 .. Len(queue') /\ queue'[i - 1] = queue[i]
            /\ (i - 1) + 1 = i
        BY <1>1, <3>2
      <4>2. NoneConfirms(i, j)'
        BY <2>1, <2>3
      <4>3. PICK h : h = i - 1
        OBVIOUS
      <4>4. h \in 1 .. j - 1 /\ Confirms(h)' /\ queue'[h].count = c /\ NoneConfirms(h + 1, j)'
        BY <2>3, <4>1, <4>2, <4>3 DEF Confirms
      <4> QED
        BY <4>4 DEF InForce
    <3> QED
      BY <3>1, <3>2
  <2> QED
    BY <1>10, <2>2, <2>3 DEF InForce
<1>11. WindowsConfirmed'
  <2>1. ASSUME NEW j \in 1 .. Len(queue'), queue'[j].kind = "Windows", queue'[j].ok,
               NEW c, c = queue'[j].count
        PROVE  InForce(j, c)'
    <3>1. j \in 1 .. Len(queue) /\ j + 1 \in 1 .. Len(queue) /\ queue'[j] = queue[j + 1]
      BY <1>1
    <3>2. InForce(j + 1, c)
      BY <1>3, <2>1, <3>1 DEF WindowsConfirmed
    <3> QED
      BY <1>10, <3>1, <3>2
  <2>2. ASSUME "Windows" \in Collectors, pc'["Windows"] \in {"memory", "usage"}
        PROVE  InForce(Len(queue) + 1, cpus)'
    <3>1. PICK j, c : j = Len(queue) /\ c = cpus
      OBVIOUS
    <3>2. InForce(j + 1, c)
      BY <1>2, <1>3, <2>2, <3>1 DEF WindowsConfirmed
    <3>3. InForce(j, c)'
      BY <1>1, <1>10, <3>1, <3>2
    <3>4. Len(queue') + 1 = j /\ cpus' = c
      BY <1>1, <1>2, <3>1
    <3> QED
      BY <3>3, <3>4
  <2> QED
    BY <2>1, <2>2 DEF WindowsConfirmed
<1>12. Unannounced'
  <2>1. CASE e.kind = "HostCpuCount"
    BY <1>8, <2>1 DEF Unannounced
  <2>2. ASSUME e.kind # "HostCpuCount", NEW i \in 1 .. Len(queue), Confirms(i)
        PROVE  Unannounced'
    <3>1. i # 1
      BY <2>2 DEF e, Confirms
    <3>2. i - 1 \in 1 .. Len(queue') /\ queue'[i - 1] = queue[i]
      BY <1>1, <3>1
    <3> QED
      BY <2>2, <3>2 DEF Unannounced, Confirms
  <2> QED
    BY <1>2, <1>3, <1>7, <2>1, <2>2 DEF Unannounced
<1>13. ASSUME ~authoritative', NEW j \in 1 .. Len(queue), FirstKeeps(j)'
       PROVE  FirstKeeps(j + 1)
  <2>1. e.kind # "HostCpuCount"
    BY <1>8, <1>13
  <2>2. NoneConfirms(1, j + 1)
    <3>1. SUFFICES ASSUME NEW k \in 1 .. j
                   PROVE  queue[k].kind # "HostCpuCount"
      BY DEF NoneConfirms, Confirms
    <3>2. CASE k = 1
      BY <2>1, <3>2 DEF e
    <3>3. CASE k # 1
      <4>1. k - 1 \in 1 .. j - 1 /\ k - 1 \in 1 .. Len(queue') /\ queue'[k - 1] = queue[k]
        BY <1>1, <3>3
      <4> QED
        BY <1>13, <4>1 DEF FirstKeeps, NoneConfirms, Confirms
    <3> QED
      BY <3>2, <3>3
  <2>3. CASE j =< Len(queue') /\ queue'[j].kind = "HostCpuCount" /\ queue'[j].count = Fallback
    BY <1>1, <2>2, <2>3 DEF FirstKeeps, Confirms
  <2>4. CASE j = Len(queue') + 1 /\ cpus' = Fallback
    BY <1>1, <1>2, <2>2, <2>4 DEF FirstKeeps
  <2> QED
    BY <1>13, <2>3, <2>4 DEF FirstKeeps, Confirms
<1>14. ~authoritative' => e.kind # "HostCpuCount" /\ ~authoritative /\ UNCHANGED hostCount
  BY <1>7, <1>8
<1>15. BeforeConfirmed'
  <2>1. ASSUME ~authoritative', NEW j \in 1 .. Len(queue), FirstKeeps(j)'
        PROVE  /\ RowsAre(Fallback)'
               /\ \A k \in 1 .. j - 1 : Normalized(queue'[k]) => queue'[k].count = Fallback
    <3>1. j + 1 \in 1 .. Len(queue) + 1 /\ FirstKeeps(j + 1)
      BY <1>13, <2>1
    <3>2. /\ RowsAre(Fallback)
          /\ \A k \in 1 .. j : Normalized(queue[k]) => queue[k].count = Fallback
      BY <1>3, <1>14, <2>1, <3>1 DEF BeforeConfirmed
    <3>3. Normalized(e) => e.count = Fallback
      BY <3>2 DEF e
    <3>4. RowsAre(Fallback)'
      BY <1>1, <1>2, <1>4, <1>14, <2>1, <3>2, <3>3, ApplyRows
    <3>5. \A k \in 1 .. j - 1 : k + 1 \in 1 .. j /\ queue'[k] = queue[k + 1]
      BY <1>1
    <3> QED
      BY <3>2, <3>4, <3>5
  <2>2. Len(queue') + 1 = Len(queue)
    BY <1>1
  <2>3. ~authoritative' => hostCount' = Fallback
    BY <1>3, <1>14 DEF BeforeConfirmed
  <2> QED
    BY <2>1, <2>2, <2>3 DEF BeforeConfirmed, Normalized
<1>16. HeldCounts'
  <2>1. ASSUME ~authoritative', NEW j, j = Len(queue), FirstKeeps(j)'
        PROVE  HeldAre(Fallback)'
    <3>1. FirstKeeps(Len(queue) + 1)
      BY <1>1, <1>13, <2>1
    <3> QED
      BY <1>2, <1>14, <2>1, <3>1, HeldNow, HeldFrame
  <2>2. Len(queue') + 1 = Len(queue)
    BY <1>1
  <2> QED
    BY <2>1, <2>2 DEF HeldCounts
<1> QED
  BY <1>5, <1>6, <1>9, <1>11, <1>12, <1>15, <1>16 DEF ScaleInv, QueueInv

\* Nothing is measured when the threads start.
LEMMA ScaleInit == Init => ScaleInv
<1> SUFFICES ASSUME Init PROVE ScaleInv
  OBVIOUS
<1>1. RowsAre(Fallback) /\ SingleScale
  BY EmptyValues DEF Init, InitAggregate, InitialCount, RowsAre, SingleScale, NoUsage, NoLists
<1>2. CachedLists
  BY DEF Init, CachedLists, NoDetails, NoLists
<1>3. QueuedLists
  BY DEF Init, InitialQueues, PlanEvent, QueuedLists, ListsOf
<1>4. /\ \A w \in Collectors : pc[w] \in {"idle", "start"}
      /\ "Windows" \in Collectors => ~WslOnly
      /\ "current WSL" \in Collectors
  BY SomeCollectors, ConfigAssumption DEF Init, Collectors, NormalizedCollectors
<1>5. HeldAre(Fallback)
  BY <1>4 DEF Init, HeldAre
<1>6. \A j \in 1 .. Len(queue) : queue[j].kind \in {"HostCpuCount", "CollectorWarnings"}
  BY DEF Init, InitialQueues, PlanEvent
<1>7. WindowsConfirmed
  BY <1>4, <1>6 DEF WindowsConfirmed
<1>8. Unannounced
  BY ConfigAssumption DEF Init, InitAggregate, Unannounced
<1>9. BeforeConfirmed
  <2>1. hostCount = Fallback
    BY DEF Init, InitAggregate, InitialCount
  <2>2. \A k \in 1 .. Len(queue) : ~Normalized(queue[k])
    BY <1>6 DEF Normalized
  <2> QED
    BY <1>1, <2>1, <2>2 DEF BeforeConfirmed
<1>10. HeldCounts
  BY <1>5 DEF HeldCounts
<1> QED
  BY <1>1, <1>2, <1>3, <1>7, <1>8, <1>9, <1>10 DEF ScaleInv, QueueInv

\* Every step of every thread keeps the scale invariant.
LEMMA ScaleStep == TypeInv /\ ScaleInv /\ [Next]_vars => ScaleInv'
<1> SUFFICES ASSUME TypeInv, ScaleInv, [Next]_vars PROVE ScaleInv'
  OBVIOUS
<1>1. CASE UNCHANGED vars
  <2>1. UNCHANGED aggVars
        /\ UNCHANGED <<queue, open, cpus, lastDetails, pc, outgoing, loaded, job, work>>
    BY <1>1 DEF vars, workerVars, channelVars, primaryLocal, jobVars, detailLocal
  <2> QED
    BY <2>1, HeldFrame, LocalKeepsScale
<1> QED
  BY <1>1, WindowsScale, PrimaryScale, AdditionalScale, RuntimeScale, DetailScale, StopScale,
     ReceiveScale, LeaveScale
  DEF Next, AggregatorStep

\* The scale invariant holds throughout (run, Aggregate::apply).
LEMMA StreamScaleInv == Spec => []ScaleInv
BY StreamTypeInv, ScaleInit, ScaleStep, PTL DEF Spec

\* The count that a Windows event carries was confirmed before it, so that
\* storing it changes nothing (Event::Windows arm of apply).
THEOREM StreamWindowsCountConfirmed == Spec => WindowsCountConfirmed
<1>1. ASSUME TypeInv, ScaleInv, Receive, Head(queue).kind = "Windows"
      PROVE  UNCHANGED hostCount
  <2>1. open /\ Apply(queue[1]) /\ queue[1] \in Events /\ 1 \in 1 .. Len(queue)
        /\ queue[1].kind = "Windows"
    BY <1>1, HeadTailProperties DEF Receive, TypeInv, ChannelsTyped
  <2>2. queue[1].ok => authoritative /\ hostCount = queue[1].count
    BY <1>1, <2>1 DEF ScaleInv, QueueInv, WindowsConfirmed, InForce
  <2> QED
    BY <2>1, <2>2, ApplyCount
<1>2. TypeInv /\ ScaleInv /\ [Next]_vars =>
        [(Receive /\ Head(queue).kind = "Windows") => UNCHANGED hostCount]_vars
  BY <1>1
<1> QED
  BY <1>2, StreamTypeInv, StreamScaleInv, PTL DEF Spec, WindowsCountConfirmed

(****************************************************************************)
(* Process lists                                                            *)
(****************************************************************************)
\* Whatever is applied, a list that stays or comes belongs to a container that
\* the aggregate in force has.
LEMMA ApplyKeepsDetailsCurrent ==
    ASSUME AggregateTypeOK, DetailsOnCurrentContainers, NEW e \in Events, Apply(e)
    PROVE  DetailsOnCurrentContainers'
<1>1. SUFFICES ASSUME NEW r \in Runtimes, NEW c \in Containers, details'[r][c] # None
               PROVE  c \in usage'[r].ids
  BY DEF DetailsOnCurrentContainers
<1>2. details[r][c] # None => c \in usage[r].ids
  BY DEF DetailsOnCurrentContainers
<1>3. CASE UNCHANGED <<usage, details>>
  BY <1>1, <1>2, <1>3
<1>4. CASE ApplyHostCpuCount(e)
  BY <1>1, <1>3, <1>4 DEF ApplyHostCpuCount, NoLists, runtimeVars
<1>5. CASE ApplyDetails(e)
  <2>1. CASE r = e.runtime
    <3>1. details'[r] = [x \in Containers |-> IF x \in Merged(e) THEN e.lists[x]
                                               ELSE details[r][x]]
      BY <1>5, <2>1 DEF ApplyDetails, AggregateTypeOK
    <3>2. CASE c \in Merged(e)
      BY <1>5, <2>1, <3>2 DEF ApplyDetails, Merged
    <3>3. CASE c \notin Merged(e)
      BY <1>1, <1>2, <1>5, <3>1, <3>3 DEF ApplyDetails
    <3> QED
      BY <3>2, <3>3
  <2>2. CASE r # e.runtime
    BY <1>1, <1>2, <1>5, <2>2 DEF ApplyDetails, AggregateTypeOK
  <2> QED
    BY <2>1, <2>2
<1>6. CASE ApplyUsage(e)
  <2>1. e \in UsageEvents
    BY <1>6, EventKinds DEF ApplyUsage
  <2>2. CASE ~e.ok
    BY <1>3, <1>6, <2>2 DEF ApplyUsage, runtimeVars
  <2>3. CASE e.ok /\ r = e.runtime
    <3>1. details'[r] = [x \in Containers |-> IF x \in e.ids THEN details[r][x] ELSE None]
      BY <1>6, <2>3 DEF ApplyUsage, KeepDetails, AggregateTypeOK
    <3>2. c \in e.ids
      BY <1>1, <3>1
    <3>3. usage'[r].ids = e.ids
      BY <1>6, <2>3 DEF ApplyUsage, AggregateTypeOK
    <3> QED
      BY <3>2, <3>3
  <2>4. CASE e.ok /\ r # e.runtime
    BY <1>1, <1>2, <1>6, <2>4 DEF ApplyUsage, KeepDetails, AggregateTypeOK
  <2> QED
    BY <2>2, <2>3, <2>4
<1> QED
  BY <1>3, <1>4, <1>5, <1>6
  DEF Apply, ApplyHostMemory, ApplyCollectorWarnings, DropStale, ApplyLinux, ApplyWindows,
      ApplyWindowsMetadata, ApplyExtraWsl, aggVars, runtimeVars

\* Process lists hang only from containers of the latest aggregate, however
\* late their event was (Aggregate::apply, Event::WslcDetails, DockerDetails).
THEOREM StreamDetailsOnCurrentContainers == Spec => []DetailsOnCurrentContainers
<1>1. Init => DetailsOnCurrentContainers
  BY DEF Init, InitAggregate, DetailsOnCurrentContainers, NoLists
<1>2. ASSUME TypeInv, DetailsOnCurrentContainers, [Next]_vars
      PROVE  DetailsOnCurrentContainers'
  <2>1. CASE Receive
    <3>1. Apply(Head(queue)) /\ Head(queue) \in Events /\ AggregateTypeOK
      BY <1>2, <2>1, HeadTailProperties DEF Receive, TypeInv, ChannelsTyped
    <3> QED
      BY <1>2, <3>1, ApplyKeepsDetailsCurrent
  <2>2. CASE ~Receive
    <3>1. UNCHANGED aggVars
      BY <1>2, <2>2
      DEF Next, vars, WindowsStep, WindowsSnapshot, WindowsAnnounce, WindowsMemory,
          WindowsUsage, WindowsFails, Metadata, PrimaryStep, PrimaryCapture, PrimarySample,
          PrimaryFails, PrimarySend, AdditionalStep, LoadCount, AdditionalSample,
          AdditionalFails, DistroStartsOrStops, RuntimeStep, RuntimeSample, RuntimeFails,
          DetailStep, DetailTake, DetailPopulate, DetailQuit, Quit, AggregatorStep, Leave,
          Stop, ToggleDetails, SendThen
    <3> QED
      BY <1>2, <3>1 DEF DetailsOnCurrentContainers, aggVars, runtimeVars
  <2> QED
    BY <2>1, <2>2
<1> QED
  BY <1>1, <1>2, StreamTypeInv, PTL DEF Spec

(****************************************************************************)
(* What the threads send                                                    *)
(****************************************************************************)
\* An append moves no event.
LEMMA Appended ==
    ASSUME TypeInv, NEW e, queue' = Append(queue, e)
    PROVE  /\ Len(queue) \in Nat /\ Len(queue') = Len(queue) + 1
           /\ \A i \in 1 .. Len(queue) : queue'[i] = queue[i]
           /\ queue'[Len(queue) + 1] = e
BY DEF TypeInv, ChannelsTyped

\* What is known of an event when it is sent.
Sent(e) ==
    /\ e.kind # "CollectorWarnings"
    /\ e.kind = "Linux" => pc["current WSL"] = "send" /\ e = outgoing
    /\ e.kind = "ExtraWsl" => e.successful \subseteq e.running
    /\ e.kind = "HostCpuCount" => "Windows" \in Collectors /\ pc'["Windows"] = "memory"
    /\ e.kind = "Windows" /\ e.ok => e.rows \in {e.count, Unmeasured} /\ winBefore' # None
    /\ e.kind = "Details" =>
          /\ e.runtime \in Runtimes /\ work[e.runtime] # None
          /\ e.count = work[e.runtime].count /\ e.ids = work[e.runtime].ids
          /\ e.lists = Populated(e.runtime, e.failed)
          /\ lastDetails'[e.runtime] = [count |-> e.count, lists |-> e.lists]

\* The Windows workers send what they announced and measured.
LEMMA WindowsSends ==
    ASSUME TypeInv, WindowsStep \/ Metadata, open
    PROVE  queue' = queue \/ \E e : queue' = Append(queue, e) /\ Sent(e)
<1>1. ASSUME NEW count \in Counts, WindowsSnapshot(count)
      PROVE  queue' = queue
  BY <1>1 DEF WindowsSnapshot, channelVars
<1>2. CASE WindowsAnnounce
  <2> DEFINE e == [kind |-> "HostCpuCount", count |-> cpus]
  <2>1. queue' = Append(queue, e) /\ pc'["Windows"] = "memory"
    BY <1>2, SendFacts DEF WindowsAnnounce
  <2>2. Sent(e)
    BY <1>2, <2>1 DEF Sent, WindowsAnnounce
  <2> QED
    BY <2>1, <2>2
<1>3. CASE WindowsMemory
  <2>1. PICK present \in BOOLEAN :
           SendThen("Windows", [kind |-> "HostMemory", memory |-> present],
                    IF OnlyBaseline THEN "idle" ELSE "usage")
    BY <1>3 DEF WindowsMemory
  <2>2. Sent([kind |-> "HostMemory", memory |-> present])
    BY DEF Sent
  <2> QED
    BY <1>3, <2>1, <2>2, SendFacts DEF WindowsMemory
<1>4. CASE WindowsUsage
  <2> DEFINE Event(consistent) ==
        [kind |-> "Windows", count |-> cpus, ok |-> TRUE,
         rows |-> IF winBefore = cpus THEN cpus ELSE Unmeasured,
         total |-> winBefore = cpus /\ consistent]
  <2>1. PICK consistent \in BOOLEAN : SendThen("Windows", Event(consistent), "idle")
    BY <1>4 DEF WindowsUsage
  <2>2. winBefore' # None
    BY <1>4, ValueAssumption DEF WindowsUsage, TypeInv, WorkersTyped
  <2>3. Sent(Event(consistent))
    BY <2>2 DEF Sent
  <2> QED
    BY <1>4, <2>1, <2>3, SendFacts DEF WindowsUsage
<1>5. CASE WindowsFails
  <2>1. Sent([kind |-> "Windows", count |-> cpus, ok |-> FALSE, rows |-> Unmeasured,
              total |-> FALSE])
    BY DEF Sent
  <2> QED
    BY <1>5, <2>1, SendFacts DEF WindowsFails, Starts
<1>6. CASE Metadata
  <2>1. PICK ok \in BOOLEAN :
           SendThen("Windows applications", [kind |-> "WindowsMetadata", ok |-> ok], "idle")
    BY <1>6 DEF Metadata
  <2>2. Sent([kind |-> "WindowsMetadata", ok |-> ok])
    BY DEF Sent
  <2> QED
    BY <1>6, <2>1, <2>2, SendFacts DEF Metadata, Starts
<1> QED
  BY <1>1, <1>2, <1>3, <1>4, <1>5, <1>6 DEF WindowsStep

\* The primary worker sends the event it holds.
LEMMA PrimarySends ==
    ASSUME TypeInv, PrimaryStep, open
    PROVE  queue' = queue \/ \E e : queue' = Append(queue, e) /\ Sent(e)
<1>1. CASE PrimarySend
  <2>1. outgoing \in LinuxEvents
    BY <1>1 DEF PrimarySend, TypeInv, WorkersReady
  <2>2. Sent(outgoing)
    BY <1>1, <2>1 DEF PrimarySend, Sent, LinuxEvents
  <2> QED
    BY <1>1, <2>2, SendFacts, SomeCollectors DEF PrimarySend
<1> QED
  BY <1>1 DEF PrimaryStep, PrimaryCapture, PrimarySample, PrimaryFails, channelVars

\* A delta belongs to a distribution that runs.
LEMMA AdditionalSends ==
    ASSUME TypeInv, AdditionalStep, open
    PROVE  queue' = queue \/ \E e : queue' = Append(queue, e) /\ Sent(e)
<1>1. CASE AdditionalSample
  <2> DEFINE Event(snapshots) ==
        [kind |-> "ExtraWsl", count |-> loaded["additional WSL"], ok |-> TRUE,
         running |-> running, successful |-> snapshots \cap before,
         failures |-> running \ snapshots]
  <2>1. PICK snapshots \in SUBSET running :
           SendThen("additional WSL", Event(snapshots), "idle")
    BY <1>1 DEF AdditionalSample
  <2>2. Sent(Event(snapshots))
    BY <2>1 DEF Sent
  <2> QED
    BY <1>1, <2>1, <2>2, SendFacts DEF AdditionalSample
<1>2. CASE AdditionalFails
  <2>1. Sent([kind |-> "ExtraWsl", count |-> loaded["additional WSL"], ok |-> FALSE,
              running |-> {}, successful |-> {}, failures |-> {}])
    BY DEF Sent
  <2> QED
    BY <1>2, <2>1, SendFacts DEF AdditionalFails
<1> QED
  BY <1>1, <1>2 DEF AdditionalStep, LoadCount, channelVars

\* A container worker sends aggregates, its detail worker process lists.
LEMMA RuntimeSends ==
    ASSUME TypeInv, NEW r \in Runtimes, RuntimeStep(r) \/ DetailStep(r), open
    PROVE  queue' = queue \/ \E e : queue' = Append(queue, e) /\ Sent(e)
<1>1. r \in Collectors
  BY SomeCollectors
<1>2. CASE RuntimeSample(r)
  <2>1. PICK ids \in SUBSET Containers, complete \in BOOLEAN :
           SendThen(r, [kind |-> "Aggregate", runtime |-> r, count |-> loaded[r], ok |-> TRUE,
                        ids |-> ids, complete |-> complete], "idle")
    BY <1>2 DEF RuntimeSample
  <2>2. Sent([kind |-> "Aggregate", runtime |-> r, count |-> loaded[r], ok |-> TRUE,
              ids |-> ids, complete |-> complete])
    BY DEF Sent
  <2> QED
    BY <1>1, <2>1, <2>2, SendFacts
<1>3. CASE RuntimeFails(r)
  <2>1. Sent([kind |-> "Aggregate", runtime |-> r, count |-> loaded[r], ok |-> FALSE,
              ids |-> {}, complete |-> FALSE])
    BY DEF Sent
  <2> QED
    BY <1>1, <1>3, <2>1, SendFacts DEF RuntimeFails
<1>4. CASE DetailPopulate(r)
  <2> DEFINE Event(failed) ==
        [kind |-> "Details", runtime |-> r, count |-> work[r].count, ids |-> work[r].ids,
         lists |-> Populated(r, failed), failed |-> failed]
  <2>1. PICK failed \in SUBSET work[r].ids :
           /\ lastDetails' = [lastDetails EXCEPT ![r] =
                 [count |-> work[r].count, lists |-> Populated(r, failed)]]
           /\ queue' = Append(queue, Event(failed))
    BY <1>4, Zenon DEF DetailPopulate
  <2>2. Sent(Event(failed))
    BY <1>4, <2>1 DEF Sent, DetailPopulate, TypeInv, DetailsTyped
  <2> QED
    BY <2>1, <2>2
<1> QED
  BY <1>2, <1>3, <1>4
  DEF RuntimeStep, LoadCount, DetailStep, DetailTake, DetailQuit, channelVars

\* Steps of threads leave the aggregator alone and send at most one event.
LEMMA StepSends ==
    ASSUME TypeInv, [Next]_vars, ~Receive
    PROVE  /\ UNCHANGED aggVars
           /\ ~open' => queue' \in {queue, <<>>}
           /\ open' => /\ open
                       /\ queue' = queue \/ \E e : queue' = Append(queue, e) /\ Sent(e)
<1>1. UNCHANGED aggVars /\ (Leave \/ UNCHANGED open)
  BY DEF Next, vars, channelVars, WindowsStep, WindowsSnapshot, WindowsAnnounce, WindowsMemory,
         WindowsUsage, WindowsFails, Metadata, PrimaryStep, PrimaryCapture, PrimarySample,
         PrimaryFails, PrimarySend, AdditionalStep, LoadCount, AdditionalSample,
         AdditionalFails, DistroStartsOrStops, RuntimeStep, RuntimeSample, RuntimeFails,
         DetailStep, DetailTake, DetailPopulate, DetailQuit, Quit, AggregatorStep, Leave,
         Stop, ToggleDetails, SendThen
<1>2. ~open /\ ~Leave => queue' = queue
  BY DEF Next, vars, channelVars, WindowsStep, WindowsSnapshot, WindowsAnnounce, WindowsMemory,
         WindowsUsage, WindowsFails, Metadata, PrimaryStep, PrimaryCapture, PrimarySample,
         PrimaryFails, PrimarySend, AdditionalStep, LoadCount, AdditionalSample,
         AdditionalFails, DistroStartsOrStops, RuntimeStep, RuntimeSample, RuntimeFails,
         DetailStep, DetailTake, DetailPopulate, DetailQuit, Quit, AggregatorStep, Leave,
         Stop, ToggleDetails, SendThen
<1>3. ASSUME open', queue' # queue
      PROVE  \E e : queue' = Append(queue, e) /\ Sent(e)
  BY <1>1, <1>3, WindowsSends, PrimarySends, AdditionalSends, RuntimeSends
  DEF Next, vars, channelVars, DistroStartsOrStops, Quit, AggregatorStep, Leave, Stop,
      ToggleDetails
<1> QED
  BY <1>1, <1>2, <1>3 DEF Leave

\* A received event leaves the queue, and the rest moves up.
LEMMA ReceiveFacts ==
    ASSUME TypeInv, Receive
    PROVE  /\ open /\ open' /\ UNCHANGED workerVars
           /\ Len(queue) \in Nat \ {0} /\ Len(queue') = Len(queue) - 1
           /\ \A i \in 1 .. Len(queue) - 1 : queue'[i] = queue[i + 1]
           /\ queue[1] \in Events /\ Apply(queue[1])
BY HeadTailProperties DEF Receive, TypeInv, ChannelsTyped

\* Whatever is queued after a step was queued before it, or was sent.
LEMMA QueuedNext ==
    ASSUME TypeInv, [Next]_vars, NEW j \in 1 .. Len(queue')
    PROVE  (\E i \in 1 .. Len(queue) : queue'[j] = queue[i]) \/ Sent(queue'[j])
<1>1. CASE Receive
  <2>1. j + 1 \in 1 .. Len(queue) /\ queue'[j] = queue[j + 1]
    BY <1>1, ReceiveFacts
  <2> QED
    BY <2>1
<1>2. CASE queue' \in {queue, <<>>}
  BY <1>2
<1>3. ASSUME NEW e, queue' = Append(queue, e), Sent(e)
      PROVE  (\E i \in 1 .. Len(queue) : queue'[j] = queue[i]) \/ Sent(queue'[j])
  <2>1. queue'[j] = e \/ (j \in 1 .. Len(queue) /\ queue'[j] = queue[j])
    BY <1>3, Appended
  <2> QED
    BY <1>3, <2>1
<1> QED
  BY <1>1, <1>2, <1>3, StepSends

(****************************************************************************)
(* The kernel's CPU and the summary of the WSL rows                         *)
(****************************************************************************)
\* A kernel window is empty or the count of its event.
WindowOf(event) == event.kind = "Linux" => event.window \subseteq {event.count}

\* The window that is shown came with the rows that are shown.
KernelInv ==
    /\ \A j \in 1 .. Len(queue) : WindowOf(queue[j])
    /\ pc["current WSL"] = "send" => WindowOf(outgoing)
    /\ linux = None => kernelCpu = {}
    /\ kernelCpu \subseteq {linux}

\* A window that is sent is the one count that both captures saw.
LEMMA PrimaryKernel ==
    ASSUME TypeInv, KernelInv, [Next]_vars
    PROVE  pc'["current WSL"] = "send" => WindowOf(outgoing)'
<1>1. CASE PrimaryStep
  <2>1. CASE PrimarySample
    <3>1. CASE baseline = {}
      <4>1. pc'["current WSL"] = "idle"
        BY <2>1, <3>1, SomeCollectors DEF PrimarySample, Goto, TypeInv
      <4> QED
        BY <4>1
    <3>2. CASE baseline # {}
      <4>1. PICK found \in BOOLEAN :
               outgoing' = [kind |-> "Linux", count |-> cpus, ok |-> TRUE, scope |-> found,
                            window |-> IF found /\ StableWindow THEN KernelWindow ELSE {}]
        BY <2>1, <3>2 DEF PrimarySample
      <4>2. outgoing'.count = cpus
            /\ outgoing'.window = IF found /\ StableWindow THEN KernelWindow ELSE {}
        BY <4>1
      <4>3. outgoing'.window \subseteq {outgoing'.count}
        BY <4>2 DEF StableWindow
      <4> QED
        BY <4>3 DEF WindowOf
    <3> QED
      BY <3>1, <3>2
  <2>2. CASE PrimaryFails
    BY <2>2 DEF PrimaryFails, WindowOf
  <2>3. CASE PrimarySend
    <3>1. pc'["current WSL"] \in {"idle", "done"}
      BY <2>3, SendFacts, SomeCollectors DEF PrimarySend
    <3> QED
      BY <3>1
  <2>4. CASE PrimaryCapture
    <3>1. pc'["current WSL"] = "collect"
      BY <2>4, SomeCollectors DEF PrimaryCapture, Goto, TypeInv
    <3> QED
      BY <3>1
  <2> QED
    BY <1>1, <2>1, <2>2, <2>3, <2>4 DEF PrimaryStep
<1>2. CASE ~PrimaryStep
  <2>1. UNCHANGED outgoing
    BY <1>2 DEF Next, vars, workerVars, primaryLocal, windowsFrame, detailFrame, WindowsStep,
       WindowsSnapshot, WindowsAnnounce, WindowsMemory, WindowsUsage, WindowsFails, Metadata,
       AdditionalStep, LoadCount, AdditionalSample, AdditionalFails, DistroStartsOrStops,
       RuntimeStep, RuntimeSample, RuntimeFails, DetailStep, DetailTake, DetailPopulate,
       DetailQuit, Quit, AggregatorStep, Receive, Leave, Stop, ToggleDetails
  <2>2. pc'["current WSL"] = "send" => pc["current WSL"] = "send"
    BY <1>2, ConfigAssumption, SomeCollectors, ZenonT(40)
    DEF Next, vars, workerVars, windowsFrame, detailFrame, WindowsStep,
       WindowsSnapshot, WindowsAnnounce, WindowsMemory, WindowsUsage, WindowsFails, Metadata,
       AdditionalStep, LoadCount, AdditionalSample, AdditionalFails, DistroStartsOrStops,
       RuntimeStep, RuntimeSample, RuntimeFails, DetailStep, DetailTake, DetailPopulate,
       DetailQuit, Quit, AggregatorStep, Receive, Leave, Stop, ToggleDetails, SendThen, Goto,
       TypeInv
  <2> QED
    BY <2>1, <2>2 DEF KernelInv
<1> QED
  BY <1>1, <1>2

\* An applied event brings its window with its rows, or removes both.
LEMMA ApplyKernel ==
    ASSUME AggregateTypeOK, linux = None => kernelCpu = {}, kernelCpu \subseteq {linux},
           NEW e \in Events, WindowOf(e), Apply(e)
    PROVE  (linux' = None => kernelCpu' = {}) /\ kernelCpu' \subseteq {linux'}
<1>1. CASE ApplyLinux(e)
  <2>1. e.count # None
    BY <1>1, EventKinds, ValueAssumption DEF ApplyLinux, LinuxEvents
  <2> QED
    BY <1>1, <2>1 DEF ApplyLinux, WindowOf
<1> QED
  BY <1>1 DEF Apply, ApplyHostMemory, ApplyHostCpuCount, ApplyCollectorWarnings, DropStale,
      ApplyDetails, ApplyWindows, ApplyWindowsMetadata, ApplyExtraWsl, ApplyUsage, linuxVars

\* Every step keeps windows with their counts.
LEMMA KernelStep == TypeInv /\ KernelInv /\ [Next]_vars => KernelInv'
<1> SUFFICES ASSUME TypeInv, KernelInv, [Next]_vars PROVE KernelInv'
  OBVIOUS
<1>1. pc'["current WSL"] = "send" => WindowOf(outgoing)'
  BY PrimaryKernel
<1>2. \A j \in 1 .. Len(queue') : WindowOf(queue'[j])
  <2>1. \A e : Sent(e) => WindowOf(e)
    BY DEF Sent, KernelInv, WindowOf
  <2> QED
    BY <2>1, QueuedNext DEF KernelInv
<1>3. (linux' = None => kernelCpu' = {}) /\ kernelCpu' \subseteq {linux'}
  <2>1. CASE Receive
    <3>1. 1 \in 1 .. Len(queue) /\ queue[1] \in Events /\ Apply(queue[1])
      BY <2>1, ReceiveFacts
    <3>2. WindowOf(queue[1])
      BY <3>1 DEF KernelInv
    <3> QED
      BY <3>1, <3>2, ApplyKernel DEF KernelInv, TypeInv
  <2>2. CASE ~Receive
    BY <2>2, StepSends DEF KernelInv, aggVars, linuxVars
  <2> QED
    BY <2>1, <2>2
<1> QED
  BY <1>1, <1>2, <1>3 DEF KernelInv, WindowOf

\* A WSL kernel CPU value spans only captures that saw the count it is shown
\* with (spawn_primary_processes, stable_kernel_usage).
THEOREM StreamKernelWindowStable == Spec => []KernelWindowStable
<1>1. ASSUME Init
      PROVE  KernelInv
  <2>1. \A j \in 1 .. Len(queue) : queue[j].kind \in {"HostCpuCount", "CollectorWarnings"}
    BY <1>1 DEF Init, InitialQueues, PlanEvent
  <2>2. pc["current WSL"] # "send" /\ linux = None /\ kernelCpu = {}
    BY <1>1, SomeCollectors DEF Init, InitAggregate
  <2> QED
    BY <2>1, <2>2 DEF KernelInv, WindowOf
<1>2. ScaleInv /\ KernelInv => KernelWindowStable
  BY DEF ScaleInv, SingleScale, KernelInv, KernelWindowStable
<1> QED
  BY <1>1, <1>2, KernelStep, StreamTypeInv, StreamScaleInv, PTL DEF Spec

\* A distribution that yields a delta runs, and plan warnings are the plan's.
ReportsRunning(event) ==
    /\ event.kind = "ExtraWsl" => event.successful \subseteq event.running
    /\ event.kind = "CollectorWarnings" => event.warned = PlanWarned

\* The plan's warnings come before any rows of the primary distribution.
PlanFirst ==
    \/ planWarnings = PlanWarned
    \/ /\ "current WSL" \in pending
       /\ open => \E i \in 1 .. Len(queue) :
                     /\ queue[i].kind = "CollectorWarnings"
                     /\ \A j \in 1 .. i - 1 : queue[j].kind = "HostCpuCount"

\* The distributions whose rows are shown.
Shown == {d \in Distros : extra[d] # None}

\* What a collector that is neither loading nor failing has delivered.
Delivered ==
    /\ Ready("current WSL") => linux # None
    /\ Ready("additional WSL") /\ extraErrors = {} /\ ~WslOnly => Shown = reported

SummaryInv ==
    /\ \A j \in 1 .. Len(queue) : ReportsRunning(queue[j])
    /\ Delivered /\ PlanFirst

\* A collector becomes ready only by an event that delivers its rows, and rows
\* are discarded only with readiness.
LEMMA ApplyDelivers ==
    ASSUME AggregateTypeOK, Delivered, NEW e \in Events, ReportsRunning(e), Apply(e)
    PROVE  Delivered'
<1>1. CASE ApplyHostCpuCount(e)
  <2>1. e.count # hostCount => {"current WSL"} \subseteq pending'
                               /\ (~WslOnly => "additional WSL" \in pending')
    BY <1>1 DEF ApplyHostCpuCount, NormalizedCollectors
  <2>2. e.count = hostCount => UNCHANGED <<linux, extra, pending>>
    BY <1>1 DEF ApplyHostCpuCount
  <2>3. UNCHANGED <<errors, extraErrors, reported>>
    BY <1>1 DEF ApplyHostCpuCount
  <2> QED
    BY <2>1, <2>2, <2>3 DEF Delivered, Ready, Shown
<1>2. CASE ApplyLinux(e)
  <2>1. e.ok => linux' # None
    BY <1>2, EventKinds, ValueAssumption DEF ApplyLinux, LinuxEvents
  <2>2. ~e.ok => "current WSL" \in errors'
    BY <1>2 DEF ApplyLinux, Settle
  <2>3. /\ UNCHANGED <<extra, extraErrors, reported>>
        /\ Ready("additional WSL")' => Ready("additional WSL")
    BY <1>2 DEF ApplyLinux, Settle, Ready, extraVars
  <2> QED
    BY <2>1, <2>2, <2>3 DEF Delivered, Ready, Shown
<1>3. CASE ApplyExtraWsl(e)
  <2>1. UNCHANGED linux /\ (Ready("current WSL")' => Ready("current WSL"))
    BY <1>3 DEF ApplyExtraWsl, Ready, linuxVars
  <2>2. e \in ExtraWslEvents
    BY <1>3, EventKinds DEF ApplyExtraWsl
  <2>3. CASE ~e.ok
    <3>1. "additional WSL" \in errors'
      BY <1>3, <2>3 DEF ApplyExtraWsl
    <3> QED
      BY <2>1, <3>1 DEF Delivered, Ready
  <2>4. CASE e.ok /\ WarmingUp(e)
    <3>1. "additional WSL" \in pending'
      BY <1>3, <2>4 DEF ApplyExtraWsl
    <3> QED
      BY <2>1, <3>1 DEF Delivered, Ready
  <2>5. CASE e.ok /\ ~WarmingUp(e) /\ e.failures = {}
    <3>1. e.successful = e.running /\ e.running \subseteq Distros /\ e.count # None
      BY <1>3, <2>2, <2>5, ValueAssumption
      DEF WarmingUp, ReportsRunning, ApplyExtraWsl, ExtraWslEvents
    <3>2. /\ reported' = e.running
          /\ extra' = [d \in Distros |-> IF d \in e.successful THEN e.count
                                         ELSE IF d \in e.running THEN extra[d] ELSE None]
      BY <1>3, <2>5 DEF ApplyExtraWsl
    <3>3. Shown' = reported'
      BY <3>1, <3>2 DEF Shown
    <3> QED
      BY <2>1, <3>3 DEF Delivered
  <2>6. CASE e.ok /\ e.failures # {}
    <3>1. extraErrors' # {}
      BY <1>3, <2>6 DEF ApplyExtraWsl
    <3> QED
      BY <2>1, <3>1 DEF Delivered
  <2>7. e.ok \in BOOLEAN
    BY <2>2 DEF ExtraWslEvents
  <2> QED
    BY <2>3, <2>4, <2>5, <2>6, <2>7
<1>4. ASSUME UNCHANGED <<linux, extra, extraErrors, reported>>,
             Ready("current WSL")' => Ready("current WSL"),
             Ready("additional WSL")' => Ready("additional WSL")
      PROVE  Delivered'
  BY <1>4 DEF Delivered, Shown
<1>5. CASE ApplyHostMemory(e) \/ ApplyCollectorWarnings(e) \/ DropStale(e) \/ ApplyDetails(e)
  BY <1>4, <1>5 DEF ApplyHostMemory, ApplyCollectorWarnings, DropStale, ApplyDetails, Ready,
     linuxVars, extraVars, statusVars
<1>6. CASE ApplyWindows(e) \/ ApplyWindowsMetadata(e)
  BY <1>4, <1>6 DEF ApplyWindows, ApplyWindowsMetadata, Settle, Ready, linuxVars, extraVars
<1>7. CASE ApplyUsage(e)
  <2>1. e.runtime \notin {"current WSL", "additional WSL"}
    BY <1>7, EventKinds, ConfigAssumption DEF ApplyUsage, UsageEvents
  <2> QED
    BY <1>4, <1>7, <2>1 DEF ApplyUsage, Settle, Ready, linuxVars, extraVars
<1> QED
  BY <1>1, <1>2, <1>3, <1>5, <1>6, <1>7 DEF Apply

\* The plan's warnings are applied before the primary distribution can be ready.
LEMMA PlanStep ==
    ASSUME TypeInv, SummaryInv, [Next]_vars
    PROVE  PlanFirst'
<1>1. CASE Receive
  <2> DEFINE e == queue[1]
  <2>1. /\ open /\ Len(queue) \in Nat \ {0} /\ Len(queue') = Len(queue) - 1
        /\ \A i \in 1 .. Len(queue) - 1 : queue'[i] = queue[i + 1]
        /\ e \in Events /\ Apply(e) /\ 1 \in 1 .. Len(queue)
    BY <1>1, ReceiveFacts
  <2>2. CASE e.kind = "CollectorWarnings"
    <3>1. e.warned = PlanWarned
      BY <2>1, <2>2 DEF SummaryInv, ReportsRunning
    <3>2. planWarnings' = e.warned
      BY <2>1, <2>2 DEF Apply, ApplyHostMemory, ApplyHostCpuCount, ApplyCollectorWarnings,
         DropStale, ApplyDetails, ApplyLinux, ApplyWindows, ApplyWindowsMetadata,
         ApplyExtraWsl, ApplyUsage, HasStaleNormalization, Normalized
    <3> QED
      BY <3>1, <3>2 DEF PlanFirst
  <2>3. CASE e.kind # "CollectorWarnings"
    <3>1. UNCHANGED planWarnings
      BY <2>1, <2>3 DEF Apply, ApplyHostMemory, ApplyHostCpuCount, ApplyCollectorWarnings,
         DropStale, ApplyDetails, ApplyLinux, ApplyWindows, ApplyWindowsMetadata,
         ApplyExtraWsl, ApplyUsage, Settle, statusVars
    <3>2. ASSUME planWarnings # PlanWarned
          PROVE  PlanFirst'
      <4>1. PICK i \in 1 .. Len(queue) :
               /\ queue[i].kind = "CollectorWarnings"
               /\ \A j \in 1 .. i - 1 : queue[j].kind = "HostCpuCount"
        BY <2>1, <3>2 DEF SummaryInv, PlanFirst
      <4>2. i # 1
        BY <2>3, <4>1
      <4>3. e.kind = "HostCpuCount" /\ "current WSL" \in pending
        <5>1. 1 \in 1 .. i - 1
          BY <2>1, <4>2
        <5> QED
          BY <3>2, <4>1, <5>1 DEF SummaryInv, PlanFirst
      <4>4. "current WSL" \in pending'
        BY <2>1, <4>3 DEF Apply, ApplyHostMemory, ApplyHostCpuCount, ApplyCollectorWarnings,
           DropStale, ApplyDetails, ApplyLinux, ApplyWindows, ApplyWindowsMetadata,
           ApplyExtraWsl, ApplyUsage, HasStaleNormalization, Normalized
      <4>5. /\ i - 1 \in 1 .. Len(queue') /\ queue'[i - 1] = queue[i]
            /\ \A j \in 1 .. (i - 1) - 1 : queue'[j] = queue[j + 1] /\ j + 1 \in 1 .. i - 1
        BY <2>1, <4>1, <4>2
      <4>6. queue'[i - 1].kind = "CollectorWarnings"
            /\ \A j \in 1 .. (i - 1) - 1 : queue'[j].kind = "HostCpuCount"
        BY <4>1, <4>5
      <4> QED
        BY <4>4, <4>5, <4>6 DEF PlanFirst
    <3> QED
      BY <3>1, <3>2 DEF PlanFirst
  <2> QED
    BY <2>2, <2>3
<1>2. CASE ~Receive
  <2>1. UNCHANGED <<planWarnings, pending>>
    BY <1>2, StepSends DEF aggVars, statusVars
  <2>2. CASE ~open' \/ queue' = queue
    BY <1>2, <2>1, <2>2, StepSends DEF SummaryInv, PlanFirst
  <2>3. ASSUME open', NEW e, queue' = Append(queue, e)
        PROVE  PlanFirst'
    <3>1. open /\ \A i \in 1 .. Len(queue) : i \in 1 .. Len(queue') /\ queue'[i] = queue[i]
      BY <1>2, <2>3, Appended, StepSends
    <3>2. ASSUME planWarnings # PlanWarned
          PROVE  PlanFirst'
      <4>1. PICK i \in 1 .. Len(queue) :
               /\ queue[i].kind = "CollectorWarnings"
               /\ \A j \in 1 .. i - 1 : queue[j].kind = "HostCpuCount"
        BY <3>1, <3>2 DEF SummaryInv, PlanFirst
      <4>2. i \in 1 .. Len(queue') /\ queue'[i] = queue[i]
            /\ \A j \in 1 .. i - 1 : queue'[j] = queue[j]
        BY <3>1, <4>1
      <4> QED
        BY <2>1, <3>2, <4>1, <4>2 DEF SummaryInv, PlanFirst
    <3> QED
      BY <2>1, <3>2 DEF PlanFirst
  <2> QED
    BY <1>2, <2>2, <2>3, StepSends
<1> QED
  BY <1>1, <1>2

\* Every step keeps what the summary rests on.
LEMMA SummaryStep == TypeInv /\ SummaryInv /\ [Next]_vars => SummaryInv'
<1> SUFFICES ASSUME TypeInv, SummaryInv, [Next]_vars PROVE SummaryInv'
  OBVIOUS
<1>1. \A j \in 1 .. Len(queue') : ReportsRunning(queue'[j])
  <2>1. \A e : Sent(e) => ReportsRunning(e)
    BY DEF Sent, ReportsRunning
  <2> QED
    BY <2>1, QueuedNext DEF SummaryInv
<1>2. Delivered'
  <2>1. CASE Receive
    <3>1. 1 \in 1 .. Len(queue) /\ queue[1] \in Events /\ Apply(queue[1])
      BY <2>1, ReceiveFacts
    <3>2. ReportsRunning(queue[1])
      BY <3>1 DEF SummaryInv
    <3> QED
      BY <3>1, <3>2, ApplyDelivers DEF SummaryInv, TypeInv
  <2>2. CASE ~Receive
    BY <2>2, StepSends
    DEF SummaryInv, Delivered, Ready, Shown, aggVars, linuxVars, extraVars, statusVars
  <2> QED
    BY <2>1, <2>2
<1> QED
  BY <1>1, <1>2, PlanStep DEF SummaryInv, ReportsRunning

\* The WSL summary is complete when it is called available: the primary rows
\* are there, and so are those of exactly the distributions that the last
\* update found running; discovery raised no warning (Aggregate::snapshot).
THEOREM StreamLinuxReadyComplete == Spec => []LinuxReadyComplete
<1>1. ASSUME Init
      PROVE  SummaryInv
  <2>1. /\ queue \in {<<PlanEvent>>, <<[kind |-> "HostCpuCount", count |-> cpus], PlanEvent>>}
        /\ open
    BY <1>1 DEF Init, InitialQueues
  <2>2. \A j \in 1 .. Len(queue) : ReportsRunning(queue[j])
    BY <2>1 DEF PlanEvent, ReportsRunning
  <2>3. "current WSL" \in pending /\ (~WslOnly => "additional WSL" \in pending)
    BY <1>1, SomeCollectors DEF Init, InitAggregate
  <2>4. \E i \in 1 .. Len(queue) : /\ queue[i].kind = "CollectorWarnings"
                                   /\ \A j \in 1 .. i - 1 : queue[j].kind = "HostCpuCount"
    <3>1. CASE queue = <<PlanEvent>>
      <4>1. 1 \in 1 .. Len(queue) /\ queue[1].kind = "CollectorWarnings" /\ 1 .. 1 - 1 = {}
        BY <3>1 DEF PlanEvent
      <4> QED
        BY <4>1
    <3>2. CASE queue = <<[kind |-> "HostCpuCount", count |-> cpus], PlanEvent>>
      <4>1. 2 \in 1 .. Len(queue) /\ queue[2].kind = "CollectorWarnings" /\ 1 .. 2 - 1 = {1}
            /\ queue[1].kind = "HostCpuCount"
        BY <3>2 DEF PlanEvent
      <4> QED
        BY <4>1
    <3> QED
      BY <2>1, <3>1, <3>2
  <2> QED
    BY <2>2, <2>3, <2>4 DEF SummaryInv, Delivered, Ready, PlanFirst
<1>2. ASSUME ScaleInv, SummaryInv, LinuxReady
      PROVE  /\ linux = hostCount
             /\ ~WslOnly => {d \in Distros : extra[d] # None} = reported
             /\ ~PlanWarned
  <2>1. linux = hostCount
    BY <1>2 DEF ScaleInv, SingleScale, SummaryInv, Delivered, LinuxReady
  <2>2. ~WslOnly => {d \in Distros : extra[d] # None} = reported
    BY <1>2 DEF SummaryInv, Delivered, Shown, LinuxReady
  <2>3. planWarnings = PlanWarned
    BY <1>2 DEF SummaryInv, PlanFirst, LinuxReady, Ready
  <2>4. ~PlanWarned
    BY <1>2, <2>3, Zenon DEF LinuxReady
  <2> QED
    BY <2>1, <2>2, <2>4
<1>3. ScaleInv /\ SummaryInv => LinuxReadyComplete
  BY <1>2 DEF LinuxReadyComplete
<1> QED
  BY <1>1, <1>3, SummaryStep, StreamTypeInv, StreamScaleInv, PTL DEF Spec

(****************************************************************************)
(* Windows rows catch up with the count                                     *)
(****************************************************************************)
Delivers(event) == event.kind = "Windows" /\ event.ok

\* The Windows worker is between its announcement and its rows.
Delivering == "Windows" \in Collectors /\ pc["Windows"] \in {"memory", "usage"}

\* No Windows rows were measured when the event at position j is applied.
NothingBefore(j) == windows \notin Counts /\ \A k \in 1 .. j - 1 : ~Delivers(queue[k])

\* No Windows rows were measured, nor are any queued.
NothingMeasured == windows \notin Counts /\ \A k \in 1 .. Len(queue) : ~Delivers(queue[k])

\* An announcement is followed by rows of its count, unless there are no rows
\* yet that could lag behind it.
Followed(i) ==
    \/ NothingBefore(i)
    \/ \E k \in i + 1 .. Len(queue) : Delivers(queue[k])
    \/ Delivering

CatchUpInv ==
    open =>
        /\ \A j \in 1 .. Len(queue) :
              Delivers(queue[j]) => queue[j].rows \in {queue[j].count, Unmeasured}
        /\ winBefore = None => NothingMeasured
        /\ \A i \in 1 .. Len(queue) : Confirms(i) => Followed(i)
        /\ (authoritative /\ windows \in Counts /\ windows # hostCount) =>
              \/ \E k \in 1 .. Len(queue) : Confirms(k) \/ Delivers(queue[k])
              \/ Delivering

\* Windows rows come with their count, and change with nothing else.
LEMMA ApplyWindowsRows ==
    ASSUME NEW e \in Events, Apply(e)
    PROVE  /\ Delivers(e) => windows' = e.rows /\ hostCount' = e.count
           /\ ~Delivers(e) => UNCHANGED windows
           /\ ~Delivers(e) /\ e.kind # "HostCpuCount" => UNCHANGED <<hostCount, authoritative>>
<1>1. CASE e.kind = "Windows"
  BY <1>1 DEF Apply, ApplyHostMemory, ApplyHostCpuCount, ApplyCollectorWarnings, DropStale,
     HasStaleNormalization, Normalized, ApplyDetails, ApplyLinux, ApplyWindows,
     ApplyWindowsMetadata, ApplyExtraWsl, ApplyUsage, Delivers
<1>2. CASE e.kind # "Windows"
  BY <1>2 DEF Apply, ApplyHostMemory, ApplyHostCpuCount, ApplyCollectorWarnings, DropStale,
     ApplyDetails, ApplyLinux, ApplyWindows, ApplyWindowsMetadata, ApplyExtraWsl, ApplyUsage,
     Delivers, windowsVars, countVars
<1> QED
  BY <1>1, <1>2

\* After its announcement the Windows worker delivers, unless this is its baseline.
LEMMA WindowsMoves ==
    ASSUME TypeInv, [Next]_vars, open'
    PROVE  /\ winBefore' = None => winBefore = None
           /\ Delivering =>
                 \/ Delivering' \/ winBefore = None
                 \/ \E e : Delivers(e) /\ queue' = Append(queue, e)
<1>1. CASE ~WindowsStep
  <2>1. UNCHANGED winBefore
    BY <1>1 DEF Next, vars, workerVars, windowsLocal, Metadata, PrimaryStep, PrimaryCapture,
       PrimarySample, PrimaryFails, PrimarySend, AdditionalStep, LoadCount, AdditionalSample,
       AdditionalFails, DistroStartsOrStops, RuntimeStep, RuntimeSample, RuntimeFails,
       DetailStep, DetailTake, DetailPopulate, DetailQuit, detailFrame, Quit, AggregatorStep,
       Receive, Leave, Stop, ToggleDetails
  <2>2. Delivering => pc'["Windows"] = pc["Windows"]
    BY <1>1, ConfigAssumption, SomeCollectors
    DEF Next, vars, workerVars, detailFrame, Metadata, PrimaryStep, PrimaryCapture,
       PrimarySample, PrimaryFails, PrimarySend, AdditionalStep, LoadCount, AdditionalSample,
       AdditionalFails, DistroStartsOrStops, RuntimeStep, RuntimeSample, RuntimeFails,
       DetailStep, DetailTake, DetailPopulate, DetailQuit, Quit, AggregatorStep, Receive,
       Leave, Stop, ToggleDetails, SendThen, Goto, Starts, Delivering, TypeInv
  <2> QED
    BY <2>1, <2>2 DEF Delivering
<1>2. CASE WindowsMemory
  <2>1. PICK present \in BOOLEAN :
           SendThen("Windows", [kind |-> "HostMemory", memory |-> present],
                    IF OnlyBaseline THEN "idle" ELSE "usage")
    BY <1>2 DEF WindowsMemory
  <2>2. ~OnlyBaseline => pc'["Windows"] = "usage"
    BY <1>2, <2>1 DEF SendThen, Goto, WindowsMemory, TypeInv
  <2>3. ~OnlyBaseline => UNCHANGED winBefore
    BY <1>2 DEF WindowsMemory
  <2> QED
    BY <1>2, <2>2, <2>3 DEF Delivering, OnlyBaseline, WindowsMemory
<1>3. CASE WindowsUsage
  <2> DEFINE Event(consistent) ==
        [kind |-> "Windows", count |-> cpus, ok |-> TRUE,
         rows |-> IF winBefore = cpus THEN cpus ELSE Unmeasured,
         total |-> winBefore = cpus /\ consistent]
  <2>1. PICK consistent \in BOOLEAN : SendThen("Windows", Event(consistent), "idle")
    BY <1>3 DEF WindowsUsage
  <2>2. queue' = Append(queue, Event(consistent))
    BY <2>1 DEF SendThen
  <2>3. Delivers(Event(consistent))
    BY DEF Delivers
  <2>4. winBefore' # None
    BY <1>3, ValueAssumption DEF WindowsUsage, TypeInv, WorkersTyped
  <2> QED
    BY <2>2, <2>3, <2>4
<1>4. CASE WindowsAnnounce \/ WindowsFails \/ \E count \in Counts : WindowsSnapshot(count)
  <2>1. UNCHANGED winBefore /\ ~Delivering
    BY <1>4 DEF WindowsAnnounce, WindowsFails, WindowsSnapshot, Starts, Delivering, windowsLocal
  <2> QED
    BY <2>1
<1> QED
  BY <1>1, <1>2, <1>3, <1>4 DEF WindowsStep

\* Applying an event keeps Windows rows behind no count but one that is queued.
LEMMA CatchUpReceive ==
    ASSUME TypeInv, CatchUpInv, Receive
    PROVE  CatchUpInv'
<1> DEFINE e == queue[1]
<1>1. /\ open /\ Len(queue) \in Nat \ {0} /\ Len(queue') = Len(queue) - 1
      /\ \A i \in 1 .. Len(queue) - 1 : queue'[i] = queue[i + 1]
      /\ e \in Events /\ Apply(e) /\ 1 \in 1 .. Len(queue)
  BY ReceiveFacts
<1>2. UNCHANGED winBefore /\ (Delivering' <=> Delivering)
  BY ReceiveFacts DEF workerVars, windowsLocal, Delivering
<1>3. /\ Delivers(e) => windows' = e.rows /\ hostCount' = e.count
      /\ ~Delivers(e) => UNCHANGED windows
      /\ ~Delivers(e) /\ e.kind # "HostCpuCount" => UNCHANGED <<hostCount, authoritative>>
  BY <1>1, ApplyWindowsRows
<1>4. /\ \A j \in 1 .. Len(queue) :
            Delivers(queue[j]) => queue[j].rows \in {queue[j].count, Unmeasured}
      /\ winBefore = None => NothingMeasured
      /\ \A i \in 1 .. Len(queue) : Confirms(i) => Followed(i)
      /\ (authoritative /\ windows \in Counts /\ windows # hostCount) =>
            \/ \E k \in 1 .. Len(queue) : Confirms(k) \/ Delivers(queue[k])
            \/ Delivering
  BY <1>1 DEF CatchUpInv
<1>5. ASSUME NEW i \in 1 .. Len(queue), NothingBefore(i + 1)
      PROVE  NothingBefore(i)'
  <2>1. ~Delivers(e) /\ windows \notin Counts
    BY <1>1, <1>5 DEF NothingBefore
  <2>2. \A k \in 1 .. i - 1 : queue'[k] = queue[k + 1] /\ k + 1 \in 1 .. i
    BY <1>1
  <2> QED
    BY <1>3, <1>5, <2>1, <2>2 DEF NothingBefore
<1>6. \A j \in 1 .. Len(queue') :
         Delivers(queue'[j]) => queue'[j].rows \in {queue'[j].count, Unmeasured}
  <2>1. \A j \in 1 .. Len(queue') : j + 1 \in 1 .. Len(queue) /\ queue'[j] = queue[j + 1]
    BY <1>1
  <2> QED
    BY <1>4, <2>1
<1>7. winBefore' = None => NothingMeasured'
  <2>1. \A j \in 1 .. Len(queue') : j + 1 \in 1 .. Len(queue) /\ queue'[j] = queue[j + 1]
    BY <1>1
  <2> QED
    BY <1>1, <1>2, <1>3, <1>4, <2>1 DEF NothingMeasured
<1>8. ASSUME NEW i \in 1 .. Len(queue'), Confirms(i)'
      PROVE  Followed(i)'
  <2>1. i + 1 \in 1 .. Len(queue) /\ queue'[i] = queue[i + 1]
    BY <1>1
  <2>2. Followed(i + 1)
    BY <1>4, <1>8, <2>1 DEF Confirms
  <2>3. CASE NothingBefore(i + 1)
    BY <1>1, <1>5, <2>1, <2>3 DEF Followed
  <2>4. ASSUME NEW k \in (i + 1) + 1 .. Len(queue), Delivers(queue[k])
        PROVE  Followed(i)'
    <3>1. k - 1 \in i + 1 .. Len(queue') /\ queue'[k - 1] = queue[k]
      BY <1>1, <2>1, <2>4
    <3> QED
      BY <2>4, <3>1 DEF Followed
  <2>5. CASE Delivering
    BY <1>2, <2>5 DEF Followed
  <2> QED
    BY <2>2, <2>3, <2>4, <2>5 DEF Followed
<1>9. ASSUME authoritative', windows' \in Counts, windows' # hostCount'
      PROVE  \/ \E k \in 1 .. Len(queue') : Confirms(k)' \/ Delivers(queue'[k])
             \/ Delivering'
  <2>1. ~Delivers(e) /\ UNCHANGED windows
    BY <1>1, <1>3, <1>4, <1>9, ValueAssumption
  <2>2. ASSUME NEW k \in 2 .. Len(queue), Confirms(k) \/ Delivers(queue[k])
        PROVE  \E n \in 1 .. Len(queue') : Confirms(n)' \/ Delivers(queue'[n])
    <3>1. k - 1 \in 1 .. Len(queue') /\ queue'[k - 1] = queue[k]
      BY <1>1, <2>2
    <3> QED
      BY <2>2, <3>1 DEF Confirms
  <2>3. CASE e.kind = "HostCpuCount"
    <3>1. Followed(1)
      BY <1>1, <1>4, <2>3 DEF Confirms
    <3>2. ~NothingBefore(1)
      BY <1>9, <2>1 DEF NothingBefore
    <3> QED
      BY <1>2, <2>2, <3>1, <3>2 DEF Followed
  <2>4. CASE e.kind # "HostCpuCount"
    <3>1. UNCHANGED <<hostCount, authoritative>>
      BY <1>3, <2>1, <2>4
    <3>2. ~Confirms(1)
      BY <2>4 DEF Confirms
    <3>3. \/ \E k \in 1 .. Len(queue) : Confirms(k) \/ Delivers(queue[k])
          \/ Delivering
      BY <1>4, <1>9, <2>1, <3>1
    <3>4. \A k \in 1 .. Len(queue) : Confirms(k) \/ Delivers(queue[k]) => k \in 2 .. Len(queue)
      BY <1>1, <2>1, <3>2
    <3> QED
      BY <1>2, <2>2, <3>3, <3>4
  <2> QED
    BY <2>3, <2>4
<1> QED
  BY <1>6, <1>7, <1>8, <1>9 DEF CatchUpInv

\* Every step keeps the rows of the old count behind a count that is queued, or
\* before rows that come.
LEMMA CatchUpStep == TypeInv /\ CatchUpInv /\ [Next]_vars => CatchUpInv'
<1> SUFFICES ASSUME TypeInv, CatchUpInv, [Next]_vars, ~Receive, open'
             PROVE  CatchUpInv'
  BY CatchUpReceive DEF CatchUpInv
<1>1. /\ open /\ UNCHANGED <<windows, hostCount, authoritative>>
      /\ queue' = queue \/ \E e : queue' = Append(queue, e) /\ Sent(e)
  BY StepSends DEF aggVars, windowsVars, countVars
<1>2. /\ \A j \in 1 .. Len(queue) :
            Delivers(queue[j]) => queue[j].rows \in {queue[j].count, Unmeasured}
      /\ winBefore = None => NothingMeasured
      /\ \A i \in 1 .. Len(queue) : Confirms(i) => Followed(i)
      /\ (authoritative /\ windows \in Counts /\ windows # hostCount) =>
            \/ \E k \in 1 .. Len(queue) : Confirms(k) \/ Delivers(queue[k])
            \/ Delivering
  BY <1>1 DEF CatchUpInv
<1>3. /\ Len(queue) \in Nat /\ Len(queue') \in Nat /\ Len(queue') >= Len(queue)
      /\ \A i \in 1 .. Len(queue) : i \in 1 .. Len(queue') /\ queue'[i] = queue[i]
  <2>1. Len(queue) \in Nat
    BY DEF TypeInv, ChannelsTyped
  <2> QED
    BY <1>1, <2>1, Appended
<1>4. \A i \in 1 .. Len(queue) + 1 : NothingBefore(i) => NothingBefore(i)'
  BY <1>1, <1>3 DEF NothingBefore
<1>5. winBefore = None => \A i \in 1 .. Len(queue) + 1 : NothingBefore(i)
  BY <1>2, <1>3 DEF NothingBefore, NothingMeasured
<1>6. Delivering => \/ Delivering' \/ winBefore = None
                    \/ Len(queue') = Len(queue) + 1 /\ Delivers(queue'[Len(queue) + 1])
  BY WindowsMoves, Appended
<1>7. \A j \in 1 .. Len(queue') :
         Delivers(queue'[j]) => queue'[j].rows \in {queue'[j].count, Unmeasured}
  <2>1. \A e : Sent(e) /\ Delivers(e) => e.rows \in {e.count, Unmeasured}
    BY DEF Sent, Delivers
  <2> QED
    BY <1>2, <2>1, QueuedNext
<1>8. winBefore' = None => NothingMeasured'
  <2>1. SUFFICES ASSUME winBefore' = None PROVE NothingMeasured'
    OBVIOUS
  <2>2. windows \notin Counts /\ \A k \in 1 .. Len(queue) : ~Delivers(queue[k])
    BY <1>2, <2>1, WindowsMoves DEF NothingMeasured
  <2>3. \A e : Sent(e) => ~Delivers(e)
    BY <2>1 DEF Sent, Delivers
  <2>4. \A k \in 1 .. Len(queue') : ~Delivers(queue'[k])
    BY <2>2, <2>3, QueuedNext
  <2> QED
    BY <1>1, <2>2, <2>4 DEF NothingMeasured
<1>9. ASSUME NEW i \in 1 .. Len(queue'), Confirms(i)'
      PROVE  Followed(i)'
  <2>1. CASE i \in 1 .. Len(queue)
    <3>1. Followed(i)
      BY <1>2, <1>3, <1>9, <2>1 DEF Confirms
    <3>2. CASE NothingBefore(i)
      BY <1>3, <1>4, <2>1, <3>2 DEF Followed
    <3>3. ASSUME NEW k \in i + 1 .. Len(queue), Delivers(queue[k])
          PROVE  Followed(i)'
      <4>1. k \in i + 1 .. Len(queue') /\ queue'[k] = queue[k]
        BY <1>3, <2>1, <3>3
      <4> QED
        BY <3>3, <4>1 DEF Followed
    <3>4. CASE Delivering
      <4>1. CASE winBefore = None
        BY <1>3, <1>4, <1>5, <2>1, <4>1 DEF Followed
      <4>2. CASE Len(queue') = Len(queue) + 1 /\ Delivers(queue'[Len(queue) + 1])
        BY <1>3, <2>1, <4>2 DEF Followed
      <4> QED
        BY <1>6, <3>4, <4>1, <4>2 DEF Followed
    <3> QED
      BY <3>1, <3>2, <3>3, <3>4 DEF Followed
  <2>2. CASE i \notin 1 .. Len(queue)
    <3>1. PICK e : queue' = Append(queue, e) /\ Sent(e)
      BY <1>1, <2>2
    <3>2. queue'[i] = e
      BY <1>9, <2>2, <3>1, Appended
    <3>3. Delivering'
      BY <1>9, <3>1, <3>2 DEF Sent, Confirms, Delivering
    <3> QED
      BY <3>3 DEF Followed
  <2> QED
    BY <2>1, <2>2
<1>10. ASSUME authoritative', windows' \in Counts, windows' # hostCount'
       PROVE  \/ \E k \in 1 .. Len(queue') : Confirms(k)' \/ Delivers(queue'[k])
              \/ Delivering'
  <2>1. winBefore # None
    BY <1>1, <1>2, <1>10 DEF NothingMeasured
  <2>2. ASSUME NEW k \in 1 .. Len(queue), Confirms(k) \/ Delivers(queue[k])
        PROVE  \E n \in 1 .. Len(queue') : Confirms(n)' \/ Delivers(queue'[n])
    BY <1>3, <2>2 DEF Confirms
  <2>3. CASE Delivering
    BY <1>3, <1>6, <2>1, <2>3
  <2> QED
    BY <1>1, <1>2, <1>10, <2>2, <2>3
<1> QED
  BY <1>7, <1>8, <1>9, <1>10 DEF CatchUpInv

\* When the host count changed, the Windows rows of the old count stay only
\* until the sample that announced the new count delivers its own
\* (sample_windows, the Windows and HostCpuCount arms of apply).
THEOREM StreamWindowsRowsCatchUp == Spec => []WindowsRowsCatchUp
<1>1. ASSUME Init
      PROVE  CatchUpInv
  <2>1. \A j \in 1 .. Len(queue) : queue[j].kind \in {"HostCpuCount", "CollectorWarnings"}
    BY <1>1 DEF Init, InitialQueues, PlanEvent
  <2>2. windows = None /\ Len(queue) \in Nat
    BY <1>1 DEF Init, InitAggregate, InitialQueues
  <2>3. \A j \in 1 .. Len(queue) + 1 : NothingBefore(j)
    BY <2>1, <2>2, ValueAssumption DEF NothingBefore, Delivers
  <2> QED
    BY <2>1, <2>2, <2>3, ValueAssumption DEF CatchUpInv, Followed, NothingMeasured, Delivers
<1>2. CatchUpInv => WindowsRowsCatchUp
  BY DEF CatchUpInv, WindowsRowsCatchUp, Confirms, Delivers, Delivering
<1> QED
  BY <1>1, <1>2, CatchUpStep, StreamTypeInv, PTL DEF Spec

\* The scale of everything a snapshot shows once the host count is confirmed:
\* every WSL and container row was divided by that one count, and rows of Windows,
\* which a change of the count leaves in place, are of another one only as long as
\* the sample that announced the change is with its worker or in the channel
\* (Aggregate::apply, has_stale_normalization, Aggregate::snapshot).
THEOREM StreamSingleScale == Spec => [](SingleScale /\ WindowsRowsCatchUp)
<1>1. ScaleInv => SingleScale
  BY DEF ScaleInv
<1> QED
  BY <1>1, StreamScaleInv, StreamWindowsRowsCatchUp, PTL

(****************************************************************************)
(* Process lists and the warnings about them                                *)
(****************************************************************************)
\* What an event leaves of the containers of a runtime: nothing changes, ...
Kept(r) ==
    /\ details'[r] = details[r] /\ usage'[r] = usage[r] /\ retained'[r] = retained[r]
    /\ detailWarnings'[r] <=> detailWarnings[r]

\* ... a new count clears them, ...
Cleared(r) ==
    /\ details'[r] = NoLists /\ usage'[r] = NoUsage /\ retained'[r] = {}
    /\ ~detailWarnings'[r]

\* ... a new aggregate keeps the lists of the containers it still has, ...
Replaced(e, r) ==
    /\ details'[r] = [c \in Containers |-> IF c \in e.ids THEN details[r][c] ELSE None]
    /\ usage'[r].ids = e.ids /\ retained'[r] = retained[r] \cap e.ids
    /\ detailWarnings'[r] <=> detailWarnings[r]

\* ... or a round of process details merges into them.
MergedInto(e, r) ==
    /\ details'[r] = [c \in Containers |-> IF c \in usage[r].ids \cap e.ids
                                           THEN e.lists[c] ELSE details[r][c]]
    /\ usage'[r] = usage[r]
    /\ retained'[r] \subseteq (retained[r] \ (usage[r].ids \cap e.ids))
                              \cup (usage[r].ids \cap e.ids \cap e.failed)
    /\ detailWarnings'[r] <=> e.failed # {}

\* A round of process details of runtime r.
IsRound(event, r) == event.kind = "Details" /\ event.runtime = r

LEMMA ApplyToRuntime ==
    ASSUME AggregateTypeOK, NEW e \in Events, Apply(e), NEW r \in Runtimes
    PROVE  \/ Kept(r) /\ ~IsRound(e, r) /\ (r \in dropped' <=> r \in dropped)
           \/ Kept(r) /\ IsRound(e, r) /\ r \in dropped'
           \/ Cleared(r) /\ ~IsRound(e, r) /\ (r \in dropped' <=> r \in dropped)
           \/ Replaced(e, r) /\ ~IsRound(e, r) /\ (r \in dropped' <=> r \in dropped)
           \/ /\ MergedInto(e, r) /\ IsRound(e, r)
              /\ authoritative => e.count = hostCount
<1>1. ASSUME UNCHANGED runtimeVars
      PROVE  Kept(r) /\ (r \in dropped' <=> r \in dropped)
  BY <1>1 DEF runtimeVars, Kept
<1>2. CASE e.kind \notin {"HostCpuCount", "Details", "Aggregate"}
  BY <1>1, <1>2
  DEF Apply, ApplyHostMemory, ApplyHostCpuCount, ApplyCollectorWarnings, DropStale,
      ApplyDetails, ApplyLinux, ApplyWindows, ApplyWindowsMetadata, ApplyExtraWsl, ApplyUsage,
      HasStaleNormalization, Normalized, IsRound, runtimeVars, Kept
<1>3. CASE ApplyHostCpuCount(e)
  <2>1. CASE e.count = hostCount
    BY <1>1, <1>3, <2>1 DEF ApplyHostCpuCount, IsRound
  <2>2. CASE e.count # hostCount
    BY <1>3, <2>2 DEF ApplyHostCpuCount, IsRound, Cleared
  <2> QED
    BY <2>1, <2>2
<1>4. CASE DropStale(e)
  <2>1. UNCHANGED <<usage, details, detailWarnings, retained>>
    BY <1>4 DEF DropStale
  <2>2. Kept(r)
    BY <2>1 DEF Kept
  <2>3. dropped' = dropped \cup (IF e.kind = "Details" THEN {e.runtime} ELSE {})
    BY <1>4 DEF DropStale
  <2> QED
    BY <2>2, <2>3 DEF IsRound
<1>5. CASE ApplyDetails(e)
  <2>1. e.kind = "Details" /\ e \in DetailEvents /\ UNCHANGED usage
    BY <1>5, EventKinds DEF ApplyDetails
  <2>2. CASE e.runtime # r
    BY <1>5, <2>1, <2>2 DEF ApplyDetails, AggregateTypeOK, Kept, IsRound
  <2>3. CASE e.runtime = r
    <3>1. details'[r] = [c \in Containers |-> IF c \in usage[r].ids \cap e.ids
                                              THEN e.lists[c] ELSE details[r][c]]
      BY <1>5, <2>3 DEF ApplyDetails, AggregateTypeOK, Merged
    <3>2. retained'[r] = (retained[r] \ (usage[r].ids \cap e.ids))
             \cup {c \in usage[r].ids \cap e.ids \cap e.failed : e.lists[c] # None}
      BY <1>5, <2>3 DEF ApplyDetails, AggregateTypeOK, Merged
    <3>3. detailWarnings'[r] <=> e.failed # {}
      BY <1>5, <2>3 DEF ApplyDetails, AggregateTypeOK
    <3>4. MergedInto(e, r)
      BY <2>1, <3>1, <3>2, <3>3 DEF MergedInto
    <3> QED
      BY <1>5, <2>1, <2>3, <3>4 DEF ApplyDetails, HasStaleNormalization, Normalized, IsRound
  <2> QED
    BY <2>2, <2>3
<1>6. CASE ApplyUsage(e)
  <2>1. e.kind = "Aggregate" /\ e \in UsageEvents
    BY <1>6, EventKinds DEF ApplyUsage
  <2>2. ~IsRound(e, r)
    BY <2>1 DEF IsRound
  <2>3. CASE ~e.ok
    BY <1>1, <1>6, <2>2, <2>3 DEF ApplyUsage
  <2>4. CASE e.ok /\ e.runtime # r
    BY <1>6, <2>2, <2>4 DEF ApplyUsage, KeepDetails, AggregateTypeOK, Kept
  <2>5. CASE e.ok /\ e.runtime = r
    <3>1. details'[r] = [c \in Containers |-> IF c \in e.ids THEN details[r][c] ELSE None]
      BY <1>6, <2>5 DEF ApplyUsage, KeepDetails, AggregateTypeOK
    <3>2. usage'[r].ids = e.ids /\ retained'[r] = retained[r] \cap e.ids
      BY <1>6, <2>5 DEF ApplyUsage, KeepDetails, AggregateTypeOK
    <3>3. UNCHANGED <<detailWarnings, dropped>>
      BY <1>6, <2>5 DEF ApplyUsage, KeepDetails
    <3> QED
      BY <2>2, <3>1, <3>2, <3>3 DEF Replaced
  <2> QED
    BY <2>3, <2>4, <2>5
<1> QED
  BY <1>2, <1>3, <1>4, <1>5, <1>6
  DEF Apply, ApplyHostMemory, ApplyCollectorWarnings, ApplyLinux, ApplyWindows,
      ApplyWindowsMetadata, ApplyExtraWsl

\* A container that all samples listed is in every job and in every round.
SteadyInv ==
    \A r \in Runtimes :
        /\ \A j \in 1 .. Len(queue) : IsRound(queue[j], r) => steady[r] \subseteq queue[j].ids
        /\ job[r] # None => steady[r] \subseteq job[r].ids
        /\ work[r] # None => steady[r] \subseteq work[r].ids

\* A retained list is one of the aggregate in force, and warned about.
WarnedInv ==
    \A r \in Runtimes :
        /\ retained[r] \subseteq usage[r].ids
        /\ retained[r] \cap steady[r] # {} => detailWarnings[r]

\* A job is one sample's, and is handed on as it is.
LEMMA JobMoves ==
    ASSUME TypeInv, [Next]_vars, NEW r \in Runtimes
    PROVE  /\ steady'[r] \subseteq steady[r]
           /\ job'[r] \in {job[r], None} \/ steady'[r] \subseteq job'[r].ids
           /\ work'[r] \in {work[r], job[r], None}
<1>1. ASSUME NEW s \in Runtimes, RuntimeSample(s)
      PROVE  /\ steady'[r] \subseteq steady[r] /\ UNCHANGED work
             /\ job'[r] = job[r] \/ steady'[r] \subseteq job'[r].ids
  <2>1. PICK ids \in SUBSET Containers :
           /\ job' = IF open /\ showDetails /\ job[s] = None
                     THEN [job EXCEPT ![s] = [ids |-> ids, count |-> loaded[s]]]
                     ELSE job
           /\ steady' = [steady EXCEPT ![s] = @ \cap ids]
    BY <1>1 DEF RuntimeSample
  <2>2. job \in [Runtimes -> Jobs \cup {None}] /\ steady \in [Runtimes -> SUBSET Containers]
    BY DEF TypeInv, DetailsTyped
  <2>3. UNCHANGED work
    BY <1>1 DEF RuntimeSample, detailLocal
  <2>4. CASE r = s
    BY <2>1, <2>2, <2>3, <2>4
  <2>5. CASE r # s
    BY <2>1, <2>2, <2>3, <2>5
  <2> QED
    BY <2>4, <2>5
<1>2. ASSUME NEW s \in Runtimes, DetailTake(s)
      PROVE  /\ UNCHANGED steady /\ job'[r] \in {job[r], None}
             /\ work'[r] \in {work[r], job[r]}
  BY <1>2 DEF DetailTake, TypeInv, DetailsTyped
<1>3. ASSUME NEW s \in Runtimes, DetailPopulate(s)
      PROVE  UNCHANGED <<steady, job>> /\ work'[r] \in {work[r], None}
  BY <1>3 DEF DetailPopulate, TypeInv, DetailsTyped, jobVars
<1>4. CASE \A s \in Runtimes : ~RuntimeSample(s) /\ ~DetailTake(s) /\ ~DetailPopulate(s)
  <2>1. UNCHANGED <<steady, job, work>>
    BY <1>4
    DEF Next, vars, workerVars, jobVars, detailLocal, WindowsStep, WindowsSnapshot,
        WindowsAnnounce, WindowsMemory, WindowsUsage, WindowsFails, windowsFrame, Metadata,
        PrimaryStep, PrimaryCapture, PrimarySample, PrimaryFails, PrimarySend, AdditionalStep,
        LoadCount, AdditionalSample, AdditionalFails, DistroStartsOrStops, RuntimeStep,
        RuntimeFails, DetailStep, DetailQuit, Quit, AggregatorStep, Receive, Leave, Stop,
        ToggleDetails
  <2> QED
    BY <2>1
<1> QED
  BY <1>1, <1>2, <1>3, <1>4

\* Every step hands the containers on.
LEMMA SteadyStep == TypeInv /\ SteadyInv /\ [Next]_vars => SteadyInv'
<1> SUFFICES ASSUME TypeInv, SteadyInv, [Next]_vars, NEW r \in Runtimes
             PROVE  /\ \A j \in 1 .. Len(queue') :
                          IsRound(queue'[j], r) => steady'[r] \subseteq queue'[j].ids
                    /\ job'[r] # None => steady'[r] \subseteq job'[r].ids
                    /\ work'[r] # None => steady'[r] \subseteq work'[r].ids
  BY DEF SteadyInv
<1>1. /\ \A j \in 1 .. Len(queue) : IsRound(queue[j], r) => steady[r] \subseteq queue[j].ids
      /\ job[r] # None => steady[r] \subseteq job[r].ids
      /\ work[r] # None => steady[r] \subseteq work[r].ids
  BY DEF SteadyInv
<1>2. steady'[r] \subseteq steady[r]
  BY JobMoves
<1>3. \A e : Sent(e) /\ IsRound(e, r) => steady[r] \subseteq e.ids
  BY <1>1 DEF Sent, IsRound
<1>4. \A j \in 1 .. Len(queue') : IsRound(queue'[j], r) => steady'[r] \subseteq queue'[j].ids
  BY <1>1, <1>2, <1>3, QueuedNext
<1> QED
  BY <1>1, <1>2, <1>4, JobMoves

\* A round that keeps an old list of such a container is one that failed.
LEMMA WarnedStep == TypeInv /\ SteadyInv /\ WarnedInv /\ [Next]_vars => WarnedInv'
<1> SUFFICES ASSUME TypeInv, SteadyInv, WarnedInv, [Next]_vars, NEW r \in Runtimes
             PROVE  /\ retained'[r] \subseteq usage'[r].ids
                    /\ retained'[r] \cap steady'[r] # {} => detailWarnings'[r]
  BY DEF WarnedInv
<1>1. /\ retained[r] \subseteq usage[r].ids
      /\ retained[r] \cap steady[r] # {} => detailWarnings[r]
  BY DEF WarnedInv
<1>2. steady'[r] \subseteq steady[r]
  BY JobMoves
<1>3. CASE ~Receive
  <2>1. UNCHANGED <<retained, usage, detailWarnings>>
    BY <1>3, StepSends DEF aggVars, runtimeVars
  <2> QED
    BY <1>1, <1>2, <2>1
<1>4. CASE Receive
  <2> DEFINE e == queue[1]
  <2>1. AggregateTypeOK /\ e \in Events /\ Apply(e) /\ 1 \in 1 .. Len(queue)
    BY <1>4, ReceiveFacts DEF TypeInv
  <2>2. CASE Kept(r)
    BY <1>1, <1>2, <2>2 DEF Kept
  <2>3. CASE Cleared(r)
    BY <2>3 DEF Cleared
  <2>4. CASE Replaced(e, r)
    BY <1>1, <1>2, <2>4 DEF Replaced
  <2>5. CASE MergedInto(e, r) /\ IsRound(e, r)
    <3>1. steady'[r] \subseteq e.ids
      BY <1>2, <2>1, <2>5 DEF SteadyInv
    <3>2. retained'[r] \subseteq usage'[r].ids
      BY <1>1, <2>5 DEF MergedInto
    <3>3. ASSUME NEW c \in retained'[r] \cap steady'[r]
          PROVE  c \in e.failed
      BY <1>1, <2>5, <3>1, <3>3 DEF MergedInto
    <3> QED
      BY <2>5, <3>2, <3>3 DEF MergedInto
  <2> HIDE DEF e
  <2> QED
    BY <2>1, <2>2, <2>3, <2>4, <2>5, ApplyToRuntime
<1> QED
  BY <1>3, <1>4

LEMMA StreamSteadyInv == Spec => []SteadyInv
<1>1. Init => SteadyInv
  BY DEF Init, InitialQueues, PlanEvent, SteadyInv, IsRound
<1> QED
  BY <1>1, SteadyStep, StreamTypeInv, PTL DEF Spec

\* A list that a failed command left from an earlier round is shown together
\* with the warning of that failure, as long as its container was in every
\* sample (Aggregate::apply, preserve_container_processes; the arms of Details
\* set the warnings that the arms of aggregates leave).
THEOREM StreamRetainedDetailsWarned == Spec => []RetainedDetailsWarned
<1>1. Init => WarnedInv
  BY DEF Init, InitAggregate, WarnedInv
<1>2. WarnedInv => RetainedDetailsWarned
  BY DEF WarnedInv, RetainedDetailsWarned
<1> QED
  BY <1>1, <1>2, WarnedStep, StreamTypeInv, StreamSteadyInv, PTL DEF Spec

\* The round of an event puts a list in the place of one of the same count.
Carries(list, event, c) == list = event.count => event.lists[c] # None

\* The list of a container after the round at position i; position 0 is the
\* aggregator.
ListAt(i, r, c) == IF i = 0 THEN details[r][c] ELSE queue[i].lists[c]

\* No round comes between positions i and n.
LastRound(i, n, r) ==
    /\ i = 0 \/ IsRound(queue[i], r)
    /\ \A k \in i + 1 .. n - 1 : ~IsRound(queue[k], r)

\* The next round is queued at position n, or will start from the detail
\* worker's cache.
Succeeds(i, n, r, c) ==
    /\ n \in 1 .. Len(queue) /\ IsRound(queue[n], r) =>
          Carries(ListAt(i, r, c), queue[n], c)
    /\ n = Len(queue) + 1 => ListAt(i, r, c) \in {None, lastDetails[r].lists[c]}

\* No round loses the list of a steady container that the round before it, or
\* the aggregator unless it dropped that one, has on its scale.
RoundsInv ==
    open => \A r \in Runtimes : \A c \in steady[r], i \in 0 .. Len(queue) :
       (i = 0 => r \notin dropped) =>
          \A n \in i + 1 .. Len(queue) + 1 : LastRound(i, n, r) => Succeeds(i, n, r, c)

\* The cache of a detail worker is the round that it sends.
LEMMA CacheMoves ==
    ASSUME TypeInv, [Next]_vars, NEW r \in Runtimes, open'
    PROVE  \/ lastDetails'[r] = lastDetails[r]
           \/ \E e : queue' = Append(queue, e) /\ IsRound(e, r)
<1>1. CASE DetailPopulate(r)
  <2>1. open
    BY <1>1 DEF DetailPopulate
  <2> QED
    BY <1>1, <2>1 DEF DetailPopulate, IsRound
<1>2. ASSUME NEW s \in Runtimes, s # r, DetailPopulate(s)
      PROVE  lastDetails'[r] = lastDetails[r]
  BY <1>2 DEF DetailPopulate, TypeInv, DetailsTyped
<1>3. CASE \A s \in Runtimes : ~DetailPopulate(s)
  <2>1. UNCHANGED lastDetails
    BY <1>3
    DEF Next, vars, workerVars, detailLocal, WindowsStep, WindowsSnapshot, WindowsAnnounce,
        WindowsMemory, WindowsUsage, WindowsFails, windowsFrame, Metadata, PrimaryStep,
        PrimaryCapture, PrimarySample, PrimaryFails, PrimarySend, AdditionalStep, LoadCount,
        AdditionalSample, AdditionalFails, DistroStartsOrStops, RuntimeStep, RuntimeSample,
        RuntimeFails, DetailStep, DetailTake, DetailQuit, Quit, AggregatorStep, Receive,
        Leave, Stop, ToggleDetails
  <2> QED
    BY <2>1
<1> QED
  BY <1>1, <1>2, <1>3

\* A command that fails reuses the cached list of the same count.
LEMMA RoundCarries ==
    ASSUME TypeInv, CachedLists, SteadyInv, NEW e, Sent(e), NEW r \in Runtimes,
           IsRound(e, r), NEW c \in steady[r]
    PROVE  \A list \in {None, lastDetails[r].lists[c]} : Carries(list, e, c)
<1>1. /\ work[r] # None /\ e.count = work[r].count /\ e.lists = Populated(r, e.failed)
  BY DEF Sent, IsRound
<1>2. work[r].count \in Counts /\ c \in work[r].ids /\ c \in Containers
  BY <1>1, PopulatedType DEF SteadyInv
<1>3. e.count # None
  BY <1>1, <1>2, ValueAssumption
<1>4. ASSUME lastDetails[r].lists[c] = e.count
      PROVE  Reused(r, c) # None
  BY <1>1, <1>2, <1>3, <1>4 DEF CachedLists, Reused
<1>5. e.lists[c] \in {Reused(r, c), e.count}
  BY <1>1, <1>2 DEF Populated
<1> QED
  BY <1>3, <1>4, <1>5 DEF Carries

\* A sent round follows the last one, or the aggregator's lists.
LEMMA RoundsSend ==
    ASSUME TypeInv, ScaleInv, SteadyInv, RoundsInv, [Next]_vars, open', ~Receive
    PROVE  RoundsInv'
<1>1. open /\ UNCHANGED <<details, dropped>>
  BY StepSends DEF aggVars, runtimeVars
<1> SUFFICES ASSUME NEW r \in Runtimes, NEW c \in steady'[r], NEW i \in 0 .. Len(queue'),
                    i = 0 => r \notin dropped, NEW n \in i + 1 .. Len(queue') + 1,
                    LastRound(i, n, r)'
             PROVE  Succeeds(i, n, r, c)'
  BY <1>1 DEF RoundsInv
<1>2. c \in steady[r] /\ Len(queue) \in Nat
  BY JobMoves DEF TypeInv, ChannelsTyped
<1>3. ASSUME i \in 0 .. Len(queue), n \in i + 1 .. Len(queue) + 1, LastRound(i, n, r)
      PROVE  Succeeds(i, n, r, c)
  BY <1>1, <1>2, <1>3 DEF RoundsInv
<1>4. CASE queue' = queue
  <2>1. lastDetails'[r] = lastDetails[r]
    <3>1. \A e : queue' # Append(queue, e)
      BY <1>4, Appended
    <3> QED
      BY <3>1, CacheMoves
  <2>2. LastRound(i, n, r)
    BY <1>4 DEF LastRound
  <2> QED
    BY <1>1, <1>3, <1>4, <2>1, <2>2 DEF Succeeds, ListAt
<1>5. ASSUME NEW e, queue' = Append(queue, e), Sent(e)
      PROVE  Succeeds(i, n, r, c)'
  <2>1. /\ Len(queue') = Len(queue) + 1 /\ queue'[Len(queue) + 1] = e
        /\ \A k \in 1 .. Len(queue) : queue'[k] = queue[k]
    BY <1>5, Appended
  <2>2. \/ lastDetails'[r] = lastDetails[r]
        \/ IsRound(e, r)
    BY <1>5, <2>1, CacheMoves, Appended
  <2>3. IsRound(e, r) => e.lists = lastDetails'[r].lists
    BY <1>5 DEF Sent, IsRound
  <2>4. CASE i = Len(queue) + 1
    <3>1. n = Len(queue') + 1 /\ i # 0
      BY <1>2, <2>1, <2>4
    <3>2. IsRound(e, r)
      BY <2>1, <2>4, <3>1 DEF LastRound
    <3>3. ListAt(i, r, c)' = e.lists[c]
      BY <2>1, <2>4, <3>1 DEF ListAt
    <3>4. n \notin 1 .. Len(queue')
      BY <1>2, <2>1, <3>1
    <3> QED
      BY <2>3, <3>2, <3>3, <3>4 DEF Succeeds
  <2>5. CASE i \in 0 .. Len(queue)
    <3>1. ListAt(i, r, c)' = ListAt(i, r, c)
      BY <1>1, <2>1, <2>5 DEF ListAt
    <3>2. \A k \in i + 1 .. n - 1 : k \in 1 .. Len(queue) => ~IsRound(queue[k], r)
      BY <2>1 DEF LastRound
    <3>3. i = 0 \/ IsRound(queue[i], r)
      BY <2>1, <2>5 DEF LastRound
    <3>4. CASE n \in 1 .. Len(queue)
      <4>1. LastRound(i, n, r)
        BY <1>2, <2>5, <3>2, <3>3, <3>4 DEF LastRound
      <4>2. n # Len(queue') + 1 /\ queue'[n] = queue[n] /\ n \in i + 1 .. Len(queue) + 1
        BY <1>2, <2>1, <3>4
      <4> QED
        BY <1>3, <2>5, <3>1, <3>4, <4>1, <4>2 DEF Succeeds
    <3>5. CASE n \in {Len(queue) + 1, Len(queue) + 2}
      <4>1. LastRound(i, Len(queue) + 1, r)
        BY <1>2, <2>5, <3>2, <3>3, <3>5 DEF LastRound
      <4>2. i \in 0 .. Len(queue) /\ Len(queue) + 1 \in i + 1 .. Len(queue) + 1
        BY <1>2, <2>5
      <4>3. Succeeds(i, Len(queue) + 1, r, c)
        BY <1>1, <1>2, <4>1, <4>2 DEF RoundsInv
      <4>4. ListAt(i, r, c) \in {None, lastDetails[r].lists[c]}
        BY <4>3 DEF Succeeds
      <4>5. CASE n = Len(queue) + 1
        <5>1. IsRound(e, r) => Carries(ListAt(i, r, c), e, c)
          BY <1>2, <1>5, <4>4, RoundCarries DEF ScaleInv
        <5>2. n # Len(queue') + 1 /\ queue'[n] = e
          BY <1>2, <2>1, <4>5
        <5> QED
          BY <3>1, <5>1, <5>2 DEF Succeeds
      <4>6. CASE n = Len(queue) + 2
        <5>1. Len(queue) + 1 \in i + 1 .. n - 1 /\ n \notin 1 .. Len(queue')
          BY <1>2, <2>1, <2>5, <4>6
        <5>2. ~IsRound(e, r)
          BY <2>1, <5>1 DEF LastRound
        <5> QED
          BY <2>2, <3>1, <4>4, <5>1, <5>2 DEF Succeeds
      <4> QED
        BY <3>5, <4>5, <4>6
    <3> QED
      BY <1>2, <2>1, <2>5, <3>4, <3>5
  <2> QED
    BY <1>2, <2>1, <2>4, <2>5
<1> QED
  BY <1>4, <1>5, StepSends

\* A count is not the absence of a list.
LEMMA CarriesNone ==
    ASSUME NEW e \in Events, NEW r, IsRound(e, r), NEW c
    PROVE  Carries(None, e, c)
BY EventKinds, ValueAssumption DEF IsRound, Carries, DetailEvents

\* The aggregator's lists take the place of the round that it receives.
LEMMA RoundsReceive ==
    ASSUME TypeInv, DetailsOnCurrentContainers, SteadyInv, RoundsInv, Receive
    PROVE  RoundsInv'
<1>1. /\ open /\ Len(queue) \in Nat \ {0} /\ Len(queue') = Len(queue) - 1
      /\ \A k \in 1 .. Len(queue) - 1 : queue'[k] = queue[k + 1]
      /\ queue[1] \in Events /\ Apply(queue[1]) /\ 1 \in 1 .. Len(queue)
      /\ UNCHANGED <<steady, lastDetails>>
  BY ReceiveFacts DEF workerVars, jobVars, detailLocal
<1> SUFFICES ASSUME NEW r \in Runtimes, NEW c \in steady[r], NEW i \in 0 .. Len(queue'),
                    i = 0 => r \notin dropped', NEW n \in i + 1 .. Len(queue') + 1,
                    LastRound(i, n, r)'
             PROVE  Succeeds(i, n, r, c)'
  BY <1>1 DEF RoundsInv
<1>2. /\ n + 1 \in 2 .. Len(queue) + 1 /\ n \in 1 .. Len(queue)
      /\ n \in 1 .. Len(queue') => queue'[n] = queue[n + 1] /\ n + 1 \in 1 .. Len(queue)
      /\ n = Len(queue') + 1 <=> n + 1 = Len(queue) + 1
  BY <1>1
<1>3. \A k \in i + 2 .. n : ~IsRound(queue[k], r)
  <2>1. \A k \in i + 2 .. n : k - 1 \in i + 1 .. n - 1 /\ queue'[k - 1] = queue[k]
    BY <1>1, <1>2, SMTT(30)
  <2> QED
    BY <2>1 DEF LastRound
<1>4. ASSUME NEW j \in 0 .. Len(queue), j \in {i, i + 1}, LastRound(j, n + 1, r),
             j = 0 => r \notin dropped,
             ListAt(i, r, c)' \in {ListAt(j, r, c), None}
      PROVE  Succeeds(i, n, r, c)'
  <2>1. n + 1 \in j + 1 .. Len(queue) + 1
    BY <1>1, <1>2, <1>4
  <2>2. Succeeds(j, n + 1, r, c)
    BY <1>1, <1>4, <2>1 DEF RoundsInv
  <2>3. ASSUME n \in 1 .. Len(queue'), IsRound(queue'[n], r)
        PROVE  Carries(ListAt(i, r, c)', queue'[n], c)
    <3>1. n + 1 \in 1 .. Len(queue) /\ queue'[n] = queue[n + 1]
      BY <1>2, <2>3
    <3>2. Carries(ListAt(j, r, c), queue[n + 1], c)
      BY <2>2, <2>3, <3>1 DEF Succeeds
    <3>3. queue[n + 1] \in Events
      BY <3>1 DEF TypeInv, ChannelsTyped
    <3>4. Carries(None, queue[n + 1], c)
      BY <2>3, <3>1, <3>3, CarriesNone
    <3> QED
      BY <1>4, <3>1, <3>2, <3>4
  <2>4. ASSUME n = Len(queue') + 1
        PROVE  ListAt(i, r, c)' \in {None, lastDetails[r].lists[c]}
    BY <1>2, <1>4, <2>2, <2>4 DEF Succeeds
  <2> QED
    BY <1>1, <2>3, <2>4 DEF Succeeds
<1>5. CASE i # 0
  <2>1. i \in 1 .. Len(queue) - 1 /\ queue'[i] = queue[i + 1]
    BY <1>1, <1>5
  <2>2. LastRound(i + 1, n + 1, r)
    BY <1>3, <1>5, <2>1 DEF LastRound
  <2>3. ListAt(i, r, c)' = ListAt(i + 1, r, c)
    BY <1>5, <2>1 DEF ListAt
  <2>4. i + 1 \in 0 .. Len(queue) /\ i + 1 # 0
    BY <2>1
  <2> QED
    BY <1>4, <2>2, <2>3, <2>4
<1>6. CASE i = 0
  <2> DEFINE e == queue[1]
  <2>1. c \in Containers
    BY DEF TypeInv, DetailsTyped
  <2>2. ListAt(0, r, c) = details[r][c] /\ ListAt(1, r, c) = e.lists[c]
        /\ ListAt(0, r, c)' = details'[r][c]
    BY DEF ListAt
  <2>3. CASE ~IsRound(e, r) /\ r \notin dropped /\ details'[r][c] \in {details[r][c], None}
    <3>1. LastRound(0, n + 1, r)
      BY <1>1, <1>3, <1>6, <2>3 DEF LastRound
    <3> QED
      BY <1>1, <1>4, <1>6, <2>2, <2>3, <3>1
  <2>4. CASE MergedInto(e, r) /\ IsRound(e, r)
    <3>1. c \in e.ids
      BY <1>1, <2>4 DEF SteadyInv
    <3>2. c \notin usage[r].ids => details[r][c] = None
      BY <2>1 DEF DetailsOnCurrentContainers
    <3>3. details'[r][c] \in {e.lists[c], None}
      BY <2>1, <2>4, <3>1, <3>2 DEF MergedInto
    <3>4. LastRound(1, n + 1, r)
      BY <1>3, <1>6, <2>4 DEF LastRound
    <3>5. 1 \in 0 .. Len(queue) /\ 1 \in {i, i + 1}
      BY <1>1, <1>6
    <3> QED
      BY <1>4, <1>6, <2>2, <3>3, <3>4, <3>5
  <2>5. AggregateTypeOK /\ r \notin dropped'
    BY <1>6 DEF TypeInv
  <2>6. \/ MergedInto(e, r) /\ IsRound(e, r)
        \/ ~IsRound(e, r) /\ r \notin dropped /\ (Kept(r) \/ Cleared(r) \/ Replaced(e, r))
    <3> HIDE DEF e
    <3> QED
      BY <1>1, <2>5, ApplyToRuntime DEF e
  <2>7. Kept(r) \/ Cleared(r) \/ Replaced(e, r) => details'[r][c] \in {details[r][c], None}
    BY <2>1 DEF Kept, Cleared, Replaced, NoLists
  <2> QED
    BY <2>3, <2>4, <2>6, <2>7
<1> QED
  BY <1>5, <1>6

LEMMA StreamRoundsInv == Spec => []RoundsInv
<1>1. ASSUME Init PROVE RoundsInv
  <2>1. \A j \in 1 .. Len(queue), r \in Runtimes : ~IsRound(queue[j], r)
    BY <1>1 DEF Init, InitialQueues, PlanEvent, IsRound
  <2>2. \A r \in Runtimes, c \in Containers : details[r][c] = None
    BY <1>1 DEF Init, InitAggregate, NoLists
  <2>3. steady = [r \in Runtimes |-> Containers] /\ Len(queue) \in Nat
    BY <1>1 DEF Init, InitialQueues
  <2>4. ASSUME NEW r \in Runtimes, NEW c \in steady[r], NEW i \in 0 .. Len(queue),
               NEW n \in i + 1 .. Len(queue) + 1, LastRound(i, n, r)
        PROVE  Succeeds(i, n, r, c)
    <3>1. i = 0
      BY <2>1, <2>3, <2>4 DEF LastRound
    <3>2. ListAt(i, r, c) = None
      BY <2>2, <2>3, <3>1 DEF ListAt
    <3> QED
      BY <2>1, <3>2 DEF Succeeds
  <2> QED
    BY <2>4 DEF RoundsInv
<1>2. /\ TypeInv /\ ScaleInv /\ DetailsOnCurrentContainers /\ SteadyInv
      /\ RoundsInv /\ [Next]_vars
      => RoundsInv'
  <2>1. ~open' => RoundsInv'
    BY DEF RoundsInv
  <2> QED
    BY <2>1, RoundsSend, RoundsReceive
<1> QED
  BY <1>1, <1>2, StreamTypeInv, StreamScaleInv, StreamDetailsOnCurrentContainers,
     StreamSteadyInv, PTL DEF Spec

\* A detail round whose command fails does not erase the list of a container
\* that every sample listed (reuse_wslc_processes, reuse_docker_processes, and
\* the arms of apply that merge process details and replace aggregates).
THEOREM StreamFailedDetailKeepsList == Spec => FailedDetailKeepsList
<1>1. ASSUME TypeInv, SteadyInv, RoundsInv, [Next]_vars,
             NEW r \in Runtimes \ dropped, NEW c \in steady[r]
      PROVE  ~Erased(r, c)
  <2>1. SUFFICES ASSUME Erased(r, c) PROVE FALSE
    OBVIOUS
  <2>2. /\ authoritative /\ details[r][c] = hostCount /\ details'[r][c] = None
        /\ c \in usage'[r].ids
    BY <2>1 DEF Erased
  <2>3. c \in Containers /\ hostCount # None
    BY <1>1, ValueAssumption DEF TypeInv, DetailsTyped, AggregateTypeOK
  <2>4. Receive
    <3>1. UNCHANGED details => FALSE
      BY <2>2, <2>3
    <3> QED
      BY <1>1, <3>1, StepSends DEF aggVars, runtimeVars
  <2> DEFINE e == queue[1]
  <2>5. /\ AggregateTypeOK /\ e \in Events /\ Apply(e)
        /\ 0 \in 0 .. Len(queue) /\ 1 \in 0 + 1 .. Len(queue) + 1 /\ 1 \in 1 .. Len(queue)
        /\ open
    BY <1>1, <2>4, ReceiveFacts DEF TypeInv
  <2>6. ~Kept(r)
    BY <2>2, <2>3 DEF Kept
  <2>7. ~Cleared(r)
    BY <2>2 DEF Cleared, NoUsage
  <2>8. ~Replaced(e, r)
    BY <2>2, <2>3 DEF Replaced
  <2>9. ASSUME MergedInto(e, r), IsRound(e, r), e.count = hostCount
        PROVE  FALSE
    <3>1. LastRound(0, 1, r)
      BY DEF LastRound
    <3>2. Succeeds(0, 1, r, c)
      BY <1>1, <2>5, <3>1 DEF RoundsInv
    <3>3. e.lists[c] # None
      BY <2>2, <2>5, <2>9, <3>2 DEF Succeeds, Carries, ListAt
    <3> QED
      BY <2>2, <2>3, <2>9, <3>3 DEF MergedInto
  <2> HIDE DEF e
  <2> QED
    BY <2>2, <2>5, <2>6, <2>7, <2>8, <2>9, ApplyToRuntime
<1>2. TypeInv /\ SteadyInv /\ RoundsInv /\ [Next]_vars
      => [\A r \in Runtimes \ dropped : \A c \in steady[r] : ~Erased(r, c)]_vars
  BY <1>1
<1> QED
  BY <1>2, StreamTypeInv, StreamSteadyInv, StreamRoundsInv, PTL
  DEF Spec, FailedDetailKeepsList
=============================================================================
