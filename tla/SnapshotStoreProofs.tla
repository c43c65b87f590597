------------------------- MODULE SnapshotStoreProofs -------------------------
(****************************************************************************)
(* Invariants of SnapshotStore, for every capacity, retention, counter      *)
(* range and clock.                                                         *)
(****************************************************************************)
EXTENDS SnapshotStore, NaturalLemmas, FiniteSetTheorems, SequenceTheorems, TLAPS

\* Eviction and expiry only ever take entries away.
Survivors(committed) == Evict({e \in entries : Retained(e.captured, committed)})

LEMMA SurvivorsWereEntries == \A committed : Survivors(committed) \subseteq entries
BY DEF Survivors, Evict, Newest

\* What can happen to the store, with the survivors named.  The query service
\* reads the clock once more within a commit.
StoreMoves ==
    \/ \E captured \in Times, committed \in now .. MaxTime :
           /\ now' \in committed .. MaxTime
           /\ InOrder(captured) /\ ~Exhausted
           /\ entries' = Survivors(committed) \cup {NewEntry(captured)}
           /\ sequence' = sequence + 1
           /\ lastCapture' = captured
           /\ log' = Append(log, NewEntry(captured))
           /\ namespace' = namespace
    \/ now' \in now .. MaxTime /\ UNCHANGED storeVars
    \/ RotateNamespace
    \/ Tick
    \/ UNCHANGED storeState

LEMMA StoreStep == TypeOK /\ [Next]_storeState => StoreMoves
<1> SUFFICES ASSUME TypeOK, [Next]_storeState PROVE StoreMoves
  OBVIOUS
<1>1. \A committed \in now .. MaxTime : committed \in committed .. MaxTime
  BY StoreAssumption DEF TypeOK, Times
<1> QED
  BY <1>1 DEF Next, Insert, InsertChecked, Commit, Accepted, Survivors, StoreMoves

\* The counters never pass the largest value they can hold.
LEMMA TypesKept ==
    ASSUME TypeOK, StoreMoves
    PROVE  TypeOK'
<1>1. CASE UNCHANGED storeState
  BY <1>1 DEF TypeOK, storeState, storeVars
<1>2. CASE Tick
  BY <1>2, StoreAssumption DEF TypeOK, Tick, storeVars, Times
<1>3. CASE RotateNamespace
  BY <1>3, StoreAssumption
  DEF TypeOK, RotateNamespace, RotatedSequence, RotatedEntries, Times
<1>4. CASE now' \in now .. MaxTime /\ UNCHANGED storeVars
  BY <1>4, StoreAssumption DEF TypeOK, storeVars, Times
<1>5. ASSUME NEW captured \in Times, NEW committed \in now .. MaxTime,
             now' \in committed .. MaxTime, ~Exhausted,
             entries' = Survivors(committed) \cup {NewEntry(captured)},
             sequence' = sequence + 1, lastCapture' = captured,
             log' = Append(log, NewEntry(captured)), namespace' = namespace
      PROVE  TypeOK'
  <2>1. NewEntry(captured) \in Entries
    BY <1>5, StoreAssumption DEF TypeOK, NewEntry, Entries, Exhausted
  <2>2. log' \in Seq(Entries)
    BY <1>5, <2>1, AppendProperties DEF TypeOK
  <2>3. entries' \in SUBSET Entries
    BY <1>5, <2>1, SurvivorsWereEntries DEF TypeOK
  <2> QED
    BY <1>5, <2>2, <2>3, StoreAssumption DEF TypeOK, Times, Exhausted
<1> QED
  BY <1>1, <1>2, <1>3, <1>4, <1>5 DEF StoreMoves

\* An ID names one observation for the life of the service.
LEMMA IdsKept ==
    ASSUME TypeOK, IdsNeverReused, StoreMoves
    PROVE  IdsNeverReused'
<1>1. CASE UNCHANGED storeState
  BY <1>1 DEF IdsNeverReused, storeState, storeVars
<1>2. CASE Tick
  BY <1>2 DEF IdsNeverReused, Tick, storeVars
<1>3. CASE RotateNamespace
  BY <1>3 DEF IdsNeverReused, RotateNamespace, RotatedSequence, RotatedEntries
<1>4. CASE now' \in now .. MaxTime /\ UNCHANGED storeVars
  BY <1>4 DEF IdsNeverReused, storeVars
<1>5. ASSUME NEW captured \in Times, NEW committed \in now .. MaxTime,
             entries' = Survivors(committed) \cup {NewEntry(captured)},
             sequence' = sequence + 1, log' = Append(log, NewEntry(captured))
      PROVE  IdsNeverReused'
  <2>1. /\ Len(log') = Len(log) + 1
        /\ log'[Len(log) + 1] = NewEntry(captured)
        /\ \A i \in 1 .. Len(log) : log'[i] = log[i]
    BY <1>5 DEF TypeOK
  <2>2. Len(log) \in Nat /\ Len(log) = sequence
    BY DEF TypeOK, IdsNeverReused
  <2>3. NewEntry(captured).id = sequence + 1
    BY DEF NewEntry
  <2>4. \A i \in 1 .. Len(log') : log'[i].id = i
    <3>1. TAKE i \in 1 .. Len(log')
    <3>2. CASE i \in 1 .. Len(log)
      BY <2>1, <3>2 DEF IdsNeverReused
    <3>3. CASE i = Len(log) + 1
      BY <2>1, <2>2, <2>3, <3>3
    <3> QED
      BY <2>1, <2>2, <3>2, <3>3
  <2>5. \A e \in entries' : e.id \in 1 .. Len(log') /\ e = log'[e.id]
    <3>1. TAKE e \in entries'
    <3>2. CASE e \in entries
      BY <2>1, <2>2, <3>2 DEF IdsNeverReused
    <3>3. CASE e = NewEntry(captured)
      BY <2>1, <2>2, <2>3, <3>3
    <3> QED
      BY <1>5, <3>2, <3>3, SurvivorsWereEntries
  <2> QED
    BY <1>5, <2>1, <2>2, <2>4, <2>5 DEF IdsNeverReused
<1> QED
  BY <1>1, <1>2, <1>3, <1>4, <1>5 DEF StoreMoves

\* Rotation leaves nothing of an older namespace to be found.
LEMMA NamespaceKept ==
    ASSUME CurrentNamespaceOnly, StoreMoves
    PROVE  CurrentNamespaceOnly'
<1>1. CASE UNCHANGED storeState \/ Tick \/ (now' \in now .. MaxTime /\ UNCHANGED storeVars)
  BY <1>1 DEF CurrentNamespaceOnly, storeState, storeVars, Tick
<1>2. CASE RotateNamespace
  BY <1>2 DEF CurrentNamespaceOnly, RotateNamespace, RotatedEntries
<1>3. ASSUME NEW captured \in Times, NEW committed \in now .. MaxTime,
             entries' = Survivors(committed) \cup {NewEntry(captured)},
             namespace' = namespace
      PROVE  CurrentNamespaceOnly'
  BY <1>3, SurvivorsWereEntries DEF CurrentNamespaceOnly, NewEntry
<1> QED
  BY <1>1, <1>2, <1>3 DEF StoreMoves

\* LatestIsNewest is inductive with the bound lastCapture keeps.
CaptureOrder ==
    /\ LatestIsNewest
    /\ \A e \in entries : e.captured =< lastCapture

\* Captures are accepted in order.
LEMMA OrderKept ==
    ASSUME TypeOK, IdsNeverReused, CaptureOrder, StoreMoves
    PROVE  CaptureOrder'
<1>1. CASE UNCHANGED storeState \/ Tick \/ (now' \in now .. MaxTime /\ UNCHANGED storeVars)
  BY <1>1 DEF CaptureOrder, LatestIsNewest, storeState, storeVars, Tick
<1>2. CASE RotateNamespace
  BY <1>2 DEF CaptureOrder, LatestIsNewest, RotateNamespace, RotatedEntries
<1>3. ASSUME NEW captured \in Times, NEW committed \in now .. MaxTime,
             InOrder(captured), lastCapture' = captured,
             entries' = Survivors(committed) \cup {NewEntry(captured)}
      PROVE  CaptureOrder'
  <2>1. /\ NewEntry(captured).id = sequence + 1
        /\ NewEntry(captured).captured = captured
        /\ captured >= lastCapture
        /\ captured \in Nat /\ lastCapture \in Nat
    BY <1>3, StoreAssumption DEF NewEntry, InOrder, TypeOK, Times
  <2>2. \A e \in entries :
           /\ e.id \in Nat /\ e.captured \in Nat
           /\ e.id < sequence + 1 /\ e.captured =< lastCapture
    BY StoreAssumption DEF CaptureOrder, IdsNeverReused, TypeOK, Entries, Times
  <2>3. \A e \in entries' : e \in entries \/ e = NewEntry(captured)
    BY <1>3, SurvivorsWereEntries
  <2>4. \A e \in entries' : e.captured =< captured
    BY <2>1, <2>2, <2>3
  <2>5. ASSUME NEW e \in entries', NEW f \in entries', e.id < f.id
        PROVE  e.captured =< f.captured
    <3>1. CASE f = NewEntry(captured)
      BY <2>1, <2>4, <3>1
    <3>2. CASE e = NewEntry(captured) /\ f \in entries
      BY <2>1, <2>2, <2>5, <3>2, <1>2 DEF TypeOK
    <3>3. CASE e \in entries /\ f \in entries
      BY <2>5, <3>3 DEF CaptureOrder, LatestIsNewest
    <3> QED
      BY <2>3, <3>1, <3>2, <3>3
  <2> QED
    BY <1>3, <2>4, <2>5 DEF CaptureOrder, LatestIsNewest
<1> QED
  BY <1>1, <1>2, <1>3 DEF StoreMoves

\* The deque has a back: numbers end with the length of the log.
LEMMA NewestExists ==
    ASSUME IdsNeverReused, log \in Seq(Entries), entries # {}
    PROVE  \E e \in entries : \A f \in entries : f.id =< e.id
<1> DEFINE Above == {n \in Nat : \A f \in entries : f.id =< n}
<1>1. \A f \in entries : f.id \in 1 .. Len(log) /\ f.id \in Nat /\ f.id >= 1
  BY DEF IdsNeverReused
<1>2. Len(log) \in Above
  BY <1>1
<1>3. PICK n \in Above : \A m \in Above : n =< m
  BY <1>2, LeastNatural
<1>4. \E e \in entries : e.id = n
  <2>1. SUFFICES ASSUME \A e \in entries : e.id # n PROVE FALSE
    OBVIOUS
  <2>2. n - 1 \in Above
    BY <1>1, <1>3, <2>1
  <2> QED BY <1>3, <2>2
<1> QED BY <1>3, <1>4

\* Newest(S, n) has at most n members: the oldest of them has at most n
\* members from it on, and they are all among those.
LEMMA NewestBound ==
    ASSUME NEW S, IsFiniteSet(S), \A e \in S : e.id \in Nat, NEW n \in Nat
    PROVE  IsFiniteSet(Newest(S, n)) /\ Cardinality(Newest(S, n)) =< n
<1> DEFINE T == Newest(S, n)
           Ids == {e.id : e \in T}
<1>1. T \subseteq S
  BY DEF Newest
<1>2. IsFiniteSet(T)
  BY <1>1, FS_Subset
<1>3. CASE T = {}
  BY <1>2, <1>3, FS_EmptySet
<1>4. CASE T # {}
  <2>1. Ids \subseteq Nat /\ Ids # {}
    BY <1>1, <1>4
  <2>2. PICK x \in Ids : \A y \in Ids : x =< y
    BY <2>1, LeastNatural
  <2>3. PICK m \in T : m.id = x
    BY <2>2
  <2>4. \A e \in T : e.id >= m.id
    BY <2>1, <2>2, <2>3
  <2> DEFINE Above == {f \in S : f.id >= m.id}
  <2>5. T \in SUBSET Above
    BY <1>1, <2>4
  <2>6. IsFiniteSet(Above) /\ Cardinality(Above) =< n
    BY <2>3, FS_Subset DEF Newest
  <2>7. Cardinality(T) =< Cardinality(Above)
    BY <2>5, <2>6, FS_Subset
  <2> QED
    BY <1>2, <2>6, <2>7, FS_CardinalityType
<1> QED
  BY <1>3, <1>4

Bounded == IsFiniteSet(entries) /\ WithinCapacity

\* Expiry and eviction make room for the entry that is inserted.
LEMMA BoundKept ==
    ASSUME TypeOK, Bounded, StoreMoves
    PROVE  Bounded'
<1>1. CASE UNCHANGED storeState \/ Tick \/ (now' \in now .. MaxTime /\ UNCHANGED storeVars)
  BY <1>1 DEF Bounded, WithinCapacity, storeState, storeVars, Tick
<1>2. CASE RotateNamespace
  BY <1>2, FS_EmptySet, StoreAssumption
  DEF Bounded, WithinCapacity, RotateNamespace, RotatedEntries
<1>3. ASSUME NEW captured \in Times, NEW committed \in now .. MaxTime,
             entries' = Survivors(committed) \cup {NewEntry(captured)}
      PROVE  Bounded'
  <2> DEFINE Kept == {e \in entries : Retained(e.captured, committed)}
  <2>1. IsFiniteSet(Kept) /\ \A e \in Kept : e.id \in Nat
    BY FS_Subset DEF Bounded, TypeOK, Entries
  <2>2. Capacity - 1 \in Nat
    BY StoreAssumption
  <2>3. IsFiniteSet(Survivors(committed)) /\ Cardinality(Survivors(committed)) =< Capacity - 1
    BY <2>1, <2>2, NewestBound DEF Survivors, Evict
  <2>4. /\ IsFiniteSet(entries')
        /\ Cardinality(entries') =< Cardinality(Survivors(committed)) + 1
    <3>1. Cardinality(Survivors(committed)) \in Nat
      BY <2>3, FS_CardinalityType
    <3> QED
      BY <1>3, <2>3, <3>1, FS_AddElement
  <2>5. Cardinality(entries') \in Nat /\ Cardinality(Survivors(committed)) \in Nat
    BY <2>3, <2>4, FS_CardinalityType
  <2> QED
    BY <2>3, <2>4, <2>5, StoreAssumption DEF Bounded, WithinCapacity
<1> QED
  BY <1>1, <1>2, <1>3 DEF StoreMoves

(****************************************************************************)
(* Refinement of the retained log                                           *)
(****************************************************************************)
\* Whatever was inserted after an entry that is kept is kept too.
KeepsSuffix == \A e \in entries : \A i \in e.id .. Len(log) : log[i] \in entries

\* Expiry and eviction take from the old end.
LEMMA SurvivorsAreNewest ==
    ASSUME TypeOK, IdsNeverReused, LatestIsNewest, Bounded,
           NEW committed \in Times,
           NEW e \in Survivors(committed), NEW f \in entries, f.id >= e.id
    PROVE  f \in Survivors(committed)
<1> DEFINE Kept == {g \in entries : Retained(g.captured, committed)}
           After(x) == {g \in Kept : g.id >= x}
<1>1. /\ e \in Kept /\ Cardinality(After(e.id)) =< Capacity - 1
      /\ e \in entries
  BY DEF Survivors, Evict, Newest
<1>2. /\ e.id \in Nat /\ f.id \in Nat /\ e.captured \in Nat /\ f.captured \in Nat
      /\ \A g \in Kept : g.id \in Nat
  BY <1>1, StoreAssumption DEF TypeOK, Entries, Times
<1>3. e.captured =< f.captured
  <2>1. CASE e.id = f.id
    BY <1>1, <1>2, <2>1 DEF IdsNeverReused
  <2>2. CASE e.id < f.id
    BY <1>1, <2>2 DEF LatestIsNewest
  <2> QED
    BY <1>2, <2>1, <2>2
<1>4. f \in Kept
  BY <1>1, <1>2, <1>3, StoreAssumption DEF Retained, Times
<1>5. After(f.id) \subseteq After(e.id) /\ IsFiniteSet(After(e.id))
  <2>1. After(f.id) \subseteq After(e.id)
    BY <1>2
  <2>2. After(e.id) \subseteq entries
    OBVIOUS
  <2> QED
    BY <2>1, <2>2, FS_Subset DEF Bounded
<1>6. Cardinality(After(f.id)) =< Cardinality(After(e.id))
  BY <1>5, FS_Subset
<1>7. Cardinality(After(f.id)) \in Nat /\ Cardinality(After(e.id)) \in Nat
  BY <1>5, FS_Subset, FS_CardinalityType
<1>8. Cardinality(After(f.id)) =< Capacity - 1
  BY <1>1, <1>6, <1>7, StoreAssumption
<1> QED
  BY <1>4, <1>8 DEF Survivors, Evict, Newest

\* What is kept is an end of the log.
LEMMA SuffixKept ==
    ASSUME TypeOK, IdsNeverReused, LatestIsNewest, Bounded, KeepsSuffix, StoreMoves
    PROVE  KeepsSuffix'
<1>1. CASE UNCHANGED storeState \/ Tick \/ (now' \in now .. MaxTime /\ UNCHANGED storeVars)
  BY <1>1 DEF KeepsSuffix, storeState, storeVars, Tick
<1>2. CASE RotateNamespace
  BY <1>2 DEF KeepsSuffix, RotateNamespace, RotatedEntries
<1>3. ASSUME NEW captured \in Times, NEW committed \in now .. MaxTime,
             entries' = Survivors(committed) \cup {NewEntry(captured)},
             log' = Append(log, NewEntry(captured))
      PROVE  KeepsSuffix'
  <2>1. /\ Len(log') = Len(log) + 1
        /\ log'[Len(log) + 1] = NewEntry(captured)
        /\ \A i \in 1 .. Len(log) : log'[i] = log[i]
        /\ Len(log) \in Nat
    BY <1>3 DEF TypeOK
  <2>2. NewEntry(captured).id = Len(log) + 1
    BY DEF NewEntry, IdsNeverReused
  <2>3. SUFFICES ASSUME NEW e \in entries', NEW i \in e.id .. Len(log')
                 PROVE  log'[i] \in entries'
    BY DEF KeepsSuffix
  <2>4. CASE e = NewEntry(captured)
    BY <1>3, <2>1, <2>2, <2>4
  <2>5. CASE e \in Survivors(committed)
    <3>1. e \in entries /\ e.id \in 1 .. Len(log)
      BY <2>5, SurvivorsWereEntries DEF IdsNeverReused
    <3>2. CASE i = Len(log) + 1
      BY <1>3, <2>1, <3>2
    <3>3. CASE i \in e.id .. Len(log)
      <4>1. log[i] \in entries /\ log[i].id = i
        BY <3>1, <3>3 DEF KeepsSuffix, IdsNeverReused
      <4>2. committed \in Times /\ log[i].id >= e.id
        BY <3>1, <3>3, <4>1, StoreAssumption DEF TypeOK, Times
      <4>3. log[i] \in Survivors(committed)
        BY <2>5, <4>1, <4>2, SurvivorsAreNewest
      <4> QED
        BY <1>3, <2>1, <3>1, <3>3, <4>3
    <3> QED
      BY <2>1, <3>1, <3>2, <3>3
  <2> QED
    BY <1>3, <2>4, <2>5
<1> QED
  BY <1>1, <1>2, <1>3 DEF StoreMoves

\* A set of entries that is closed in this way is what the log holds from some
\* position on.
LEMMA SuffixPosition ==
    ASSUME NEW L \in Seq(Entries), NEW S, S # {},
           \A e \in S : e.id \in 1 .. Len(L) /\ e = L[e.id],
           \A e \in S : \A i \in e.id .. Len(L) : L[i] \in S
    PROVE  \E first \in 1 .. Len(L) : S = {L[i] : i \in first .. Len(L)}
<1> DEFINE Ids == {e.id : e \in S}
<1>1. /\ Len(L) \in Nat
      /\ Ids \subseteq 1 .. Len(L) /\ Ids # {} /\ Ids \subseteq Nat
  OBVIOUS
<1>2. PICK first \in Ids : \A i \in Ids : first =< i
  BY <1>1, LeastNatural
<1>3. PICK oldest \in S : oldest.id = first
  BY <1>2
<1>4. \A e \in S : e.id \in first .. Len(L) /\ e = L[e.id]
  BY <1>1, <1>2
<1>5. \A i \in first .. Len(L) : L[i] \in S
  BY <1>3
<1>6. first \in 1 .. Len(L)
  BY <1>1, <1>2
<1>7. S = {L[i] : i \in first .. Len(L)}
  BY <1>4, <1>5
<1> QED
  BY <1>6, <1>7

\* Each move is one of the retained log, or leaves it alone.
LEMMA RetainedLogStep ==
    ASSUME TypeOK, IdsNeverReused, StoreMoves,
           IdsNeverReused', KeepsSuffix', Bounded', TypeOK'
    PROVE  [Readable!Next]_<<log, entries>>
<1>1. CASE UNCHANGED storeState \/ Tick \/ (now' \in now .. MaxTime /\ UNCHANGED storeVars)
  BY <1>1 DEF storeState, storeVars, Tick
<1>2. CASE RotateNamespace
  BY <1>2 DEF RotateNamespace, RotatedEntries, Readable!Next, Readable!Invalidate
<1>3. ASSUME NEW captured \in Times, NEW committed \in now .. MaxTime,
             entries' = Survivors(committed) \cup {NewEntry(captured)},
             log' = Append(log, NewEntry(captured))
      PROVE  Readable!Accept
  <2>1. /\ Len(log') = Len(log) + 1
        /\ log'[Len(log')] = NewEntry(captured)
        /\ \A i \in 1 .. Len(log) : log'[i] = log[i]
    BY <1>3 DEF TypeOK
  <2>2. entries' # {}
    BY <1>3
  <2>3. \E first \in 1 .. Len(log') : entries' = {log'[i] : i \in first .. Len(log')}
    <3>1. log' \in Seq(Entries)
      BY DEF TypeOK
    <3>2. /\ \A e \in entries' : e.id \in 1 .. Len(log') /\ e = log'[e.id]
          /\ \A e \in entries' : \A i \in e.id .. Len(log') : log'[i] \in entries'
      BY DEF IdsNeverReused, KeepsSuffix
    <3> QED
      BY <2>2, <3>1, <3>2, SuffixPosition
  <2>4. entries' \subseteq entries \cup {log'[Len(log')]}
    BY <1>3, <2>1, SurvivorsWereEntries
  <2>5. Cardinality(entries') =< Capacity
    BY DEF Bounded, WithinCapacity
  \* The instance has a copy of Cardinality of its own.
  <2>6. Readable!Cardinality(entries') =< Capacity
    BY <2>5 DEF Cardinality, Readable!Cardinality
  <2> QED
    BY <2>1, <2>3, <2>4, <2>6 DEF Readable!Accept
<1> QED
  BY <1>1, <1>2, <1>3 DEF StoreMoves, Readable!Next

(****************************************************************************)
(* The theorems                                                             *)
(****************************************************************************)
StoreInv ==
    /\ TypeOK /\ IdsNeverReused /\ CurrentNamespaceOnly
    /\ CaptureOrder /\ Bounded /\ KeepsSuffix

LEMMA StoreInvKept == StoreInv /\ StoreMoves => StoreInv'
BY TypesKept, IdsKept, NamespaceKept, OrderKept, BoundKept, SuffixKept
DEF StoreInv, CaptureOrder

LEMMA StoreInvInit == InitStore => StoreInv
<1> SUFFICES ASSUME InitStore PROVE StoreInv
  OBVIOUS
<1>1. TypeOK
  BY StoreAssumption DEF InitStore, TypeOK, Times
<1>2. IdsNeverReused /\ CurrentNamespaceOnly /\ CaptureOrder /\ KeepsSuffix
  BY DEF InitStore, IdsNeverReused, CurrentNamespaceOnly, CaptureOrder, LatestIsNewest,
         KeepsSuffix
<1>3. Bounded
  BY FS_EmptySet, StoreAssumption DEF InitStore, Bounded, WithinCapacity
<1> QED
  BY <1>1, <1>2, <1>3 DEF StoreInv

LEMMA StoreInvariant == Spec => []StoreInv
<1>1. StoreInv /\ [Next]_storeState => StoreInv'
  BY StoreStep, StoreInvKept DEF StoreInv
<1> QED
  BY StoreInvInit, <1>1, PTL DEF Spec, Init

\* Every variable keeps its type (checked by the run of SnapshotStore): the
\* counters never pass the largest value they can hold.
THEOREM StoreTypeCorrect == Spec => []TypeOK
<1>1. StoreInv => TypeOK
  BY DEF StoreInv
<1> QED
  BY <1>1, StoreInvariant, PTL

\* An ID names one observation for the life of the service.
THEOREM StoreIdsNeverReused == Spec => []IdsNeverReused
<1>1. StoreInv => IdsNeverReused
  BY DEF StoreInv
<1> QED
  BY <1>1, StoreInvariant, PTL

\* Rotation leaves nothing of an older namespace to be found.
THEOREM StoreCurrentNamespaceOnly == Spec => []CurrentNamespaceOnly
<1>1. StoreInv => CurrentNamespaceOnly
  BY DEF StoreInv
<1> QED
  BY <1>1, StoreInvariant, PTL

\* The entry Latest finds is the one captured last.
THEOREM StoreLatestIsNewest == Spec => []LatestIsNewest
<1>1. StoreInv => LatestIsNewest
  BY DEF StoreInv, CaptureOrder
<1> QED
  BY <1>1, StoreInvariant, PTL

\* The store never holds more snapshots than its capacity.
THEOREM StoreWithinCapacity == Spec => []WithinCapacity
<1>1. StoreInv => WithinCapacity
  BY DEF StoreInv, Bounded
<1> QED
  BY <1>1, StoreInvariant, PTL

LEMMA RetainedLogInit == InitStore => Readable!Init
BY DEF InitStore, Readable!Init

\* The store implements the retained log: readers find an end of what was
\* inserted, unchanged, and nothing that was evicted comes back.
THEOREM StoreImplementsRetainedLog == Spec => ImplementsRetainedLog
<1>1. StoreInv /\ [Next]_storeState /\ StoreInv' => [Readable!Next]_<<log, entries>>
  BY StoreStep, RetainedLogStep DEF StoreInv
<1> QED
  BY RetainedLogInit, <1>1, StoreInvariant, PTL
  DEF Spec, Init, ImplementsRetainedLog, Readable!Spec
==============================================================================
