---------------------------- MODULE SnapshotStore ----------------------------
(****************************************************************************)
(* SnapshotStore of src/src/snapshot_store.rs.  Its VecDeque is a set:      *)
(* push_back appends increasing sequence numbers, so the position of an     *)
(* entry is the rank of its number.  A snapshot's contents never matter to  *)
(* the store, nor does the start of its sampling: an observation is its     *)
(* number, the namespace it was inserted under and its completion time.     *)
(****************************************************************************)
EXTENDS FiniteSets, Integers, Sequences

CONSTANTS
    Capacity,     \* NonZeroUsize
    Retention,    \* a nonzero Duration
    MaxCounter,   \* the value the u64 counters cannot pass
    MaxTime       \* bound on the clock

ASSUME StoreAssumption ==
    /\ Capacity \in Nat \ {0} /\ Retention \in Nat \ {0}
    /\ MaxCounter \in Nat /\ MaxTime \in Nat

VARIABLES
    now,          \* the monotonic clock
    namespace,
    sequence,
    lastCapture,  \* last_capture; 0, which no capture precedes, for None
    entries,
    log           \* history: every entry ever inserted, in order

storeVars == <<namespace, sequence, lastCapture, entries, log>>

Times == 0 .. MaxTime
Entries == [id : 1 .. MaxCounter, namespace : 0 .. MaxCounter, captured : Times]

InitStore ==
    /\ now = 0
    /\ namespace = 0 /\ sequence = 0 /\ lastCapture = 0
    /\ entries = {} /\ log = <<>>

(****************************************************************************)
(* Insertion                                                                *)
(****************************************************************************)
\* Mutant: completion times may go back.
OnlyPast(captured) == captured =< now

\* A completion in the future or before the last accepted one is refused.
InOrder(captured) == captured =< now /\ captured >= lastCapture

Retained(captured, at) == at - captured < Retention

\* Mutant: the counter wraps around instead of being checked.
NeverExhausted == FALSE

Exhausted == sequence = MaxCounter

\* The checks of insert_checked_at, all of which come before the first
\* mutation.  complete: the snapshot carries a query source and its catalog
\* validates.  committed is the second reading of the clock.
Accepted(captured, complete, committed) ==
    /\ complete
    /\ InOrder(captured)
    /\ Retained(captured, now) /\ Retained(captured, committed)
    /\ ~Exhausted

\* The members of S that at most n members follow, themselves included.
Newest(S, n) == {e \in S : Cardinality({f \in S : f.id >= e.id}) =< n}

\* Mutant: pop_back instead of pop_front.
EvictNewest(S) == {e \in S : Cardinality({f \in S : f.id =< e.id}) < Capacity}

\* pop_front until the new entry fits.
Evict(S) == Newest(S, Capacity - 1)

NewEntry(captured) == [id |-> sequence + 1, namespace |-> namespace, captured |-> captured]

Commit(captured, committed) ==
    /\ entries' = Evict({e \in entries : Retained(e.captured, committed)})
                  \cup {NewEntry(captured)}
    /\ sequence' = sequence + 1
    /\ lastCapture' = captured
    /\ log' = Append(log, NewEntry(captured))
    /\ UNCHANGED namespace

InsertChecked(captured, complete, committed) ==
    /\ now' = committed
    /\ IF Accepted(captured, complete, committed)
       THEN Commit(captured, committed)
       ELSE UNCHANGED storeVars

Insert ==
    \E captured \in Times, complete \in BOOLEAN, committed \in now .. MaxTime :
        InsertChecked(captured, complete, committed)

(****************************************************************************)
(* Rotation and reads                                                       *)
(****************************************************************************)
\* Mutant: rotation starts the sequence again.
RestartedSequence == 0

\* Counters never reset.
RotatedSequence == sequence
RotatedEntries == {}

RotateNamespace ==
    /\ namespace < MaxCounter
    /\ namespace' = namespace + 1
    /\ sequence' = RotatedSequence
    /\ entries' = RotatedEntries /\ lastCapture' = 0
    /\ UNCHANGED <<now, log>>

\* The back of the deque.
Back == CHOOSE e \in entries : \A f \in entries : f.id =< e.id

\* get_at for an ID: the entry is there and its age is below the retention.
HasId(id) == \E e \in entries : e.id = id /\ Retained(e.captured, now)
GetId(id) == CHOOSE e \in entries : e.id = id

\* get_at for Latest, which otherwise fails with TooOld or SnapshotUnavailable.
HasLatest(maxAge) ==
    /\ entries # {}
    /\ Retained(Back.captured, now)
    /\ now - Back.captured =< maxAge

Tick == now < MaxTime /\ now' = now + 1 /\ UNCHANGED storeVars

Init == InitStore
Next == Insert \/ RotateNamespace \/ Tick

storeState == <<now, storeVars>>
Spec == Init /\ [][Next]_storeState

(****************************************************************************)
(* Properties                                                               *)
(****************************************************************************)
\* Every variable keeps its type; in particular neither counter of the store
\* passes the largest value its u64 can hold (the checked_add of insert and
\* of rotate_namespace).
TypeOK ==
    /\ now \in Times
    /\ namespace \in 0 .. MaxCounter /\ sequence \in 0 .. MaxCounter
    /\ lastCapture \in Times
    /\ entries \in SUBSET Entries
    /\ log \in Seq(Entries)

\* An ID names one observation for the life of the service: a retained entry
\* is the one that was inserted under its number, whatever was inserted,
\* expired, evicted or rotated since (insert_checked_at, rotate_namespace).
IdsNeverReused ==
    /\ Len(log) = sequence
    /\ \A i \in 1 .. Len(log) : log[i].id = i
    /\ \A e \in entries : e.id \in 1 .. Len(log) /\ e = log[e.id]

\* Rotation leaves nothing of an older namespace to be found
\* (rotate_namespace clears the deque that get_at searches).
CurrentNamespaceOnly == \A e \in entries : e.namespace = namespace

\* The latest entry is the one captured last: a collection that finished
\* earlier never becomes the answer to Latest (the last_capture check).
LatestIsNewest ==
    \A e, f \in entries : e.id < f.id => e.captured =< f.captured

\* The store never holds more snapshots than its capacity, however expiry
\* and eviction combine (the retain and the pop_front loop of insert).
WithinCapacity == Cardinality(entries) =< Capacity

\* The store keeps the end of what was inserted: retention and eviction take
\* the oldest entries, insertion changes none, and nothing evicted comes back
\* (insert_checked_at, rotate_namespace).
Readable == INSTANCE RetainedLog WITH readable <- entries

ImplementsRetainedLog == Readable!Spec
==============================================================================
