---------------------------- MODULE QueryService ----------------------------
(****************************************************************************)
(* SharedQueryService of src/src/query_service.rs over the snapshot store,  *)
(* and the gate McpServer::call_tool of src/src/mcp.rs puts before it.      *)
(* A request is a slot that is used again once its worker has ended; the    *)
(* worker of a cancelled request goes on without anybody listening.  Each   *)
(* hold of the store's lock is one step, for nothing waits while holding it.*)
(****************************************************************************)
EXTENDS SnapshotStore

CONSTANTS
    Requests,    \* request slots
    MaxAges,     \* the max_age values asked for
    None

ASSUME ServiceAssumption ==
    /\ MaxAges \subseteq Nat
    /\ None \notin Requests

VARIABLES
    gated,       \* the callers are those of call_tool, not threads of their own
    req,         \* what each slot is doing
    gate,        \* requests waiting for the semaphore, in order of arrival
    permit,      \* the request whose worker holds the permit
    collector,   \* the request whose worker holds the collector's lock
    poisoned,    \* a collection panicked under that lock
    starts,      \* history: when the sampling of each log entry started
    answer       \* history: what the last step answered, if it did

serviceVars == <<gated, req, gate, permit, collector, poisoned>>
serviceState == <<storeState, serviceVars, starts, answer>>

Stages == {"idle", "gate", "pinned", "lock", "cached", "collect", "insert"}

Idle == [stage |-> "idle", id |-> 0, maxAge |-> 0, asked |-> 0,
         started |-> 0, captured |-> 0, live |-> FALSE]

InitService ==
    /\ InitStore
    /\ gated \in BOOLEAN
    /\ req = [r \in Requests |-> Idle]
    /\ gate = <<>>
    /\ permit = None /\ collector = None /\ poisoned = FALSE
    /\ starts = <<>> /\ answer = None

(****************************************************************************)
(* Arrival, the gate and cancellation                                       *)
(****************************************************************************)
\* The first stage of a request that names no snapshot, and of one that does.
LatestStage == IF gated THEN "gate" ELSE "lock"

\* Mutant: every request goes through the gate.
GatedPinnedStage == LatestStage

PinnedStage == "pinned"

Wait(r, stage) == gate' = IF stage = "gate" THEN Append(gate, r) ELSE gate

Ask(r) ==
    /\ req[r].stage = "idle"
    /\ \/ \E id \in 1 .. MaxCounter :
              /\ req' = [req EXCEPT ![r] = [Idle EXCEPT
                         !.stage = PinnedStage, !.id = id, !.asked = now, !.live = TRUE]]
              /\ Wait(r, PinnedStage)
       \/ \E maxAge \in MaxAges :
              /\ req' = [req EXCEPT ![r] = [Idle EXCEPT
                         !.stage = LatestStage, !.maxAge = maxAge, !.asked = now,
                         !.live = TRUE]]
              /\ Wait(r, LatestStage)
    /\ answer' = None
    /\ UNCHANGED <<storeState, gated, permit, collector, poisoned, starts>>

\* acquire_owned is granted in order; the permit moves into the worker.
Admit(r) ==
    /\ gate # <<>> /\ Head(gate) = r /\ permit = None
    /\ permit' = r
    /\ gate' = Tail(gate)
    /\ req' = [req EXCEPT ![r].stage = IF req[r].id = 0 THEN "lock" ELSE "pinned"]
    /\ answer' = None
    /\ UNCHANGED <<storeState, gated, collector, poisoned, starts>>

\* Mutant: the permit belongs to the future that is dropped.
ReleasesPermit(r) == IF permit = r THEN None ELSE permit

PermitAfterCancel(r) == permit

\* The place of a request in the queue, which holds it at most once.
Place(r) == CHOOSE i \in 1 .. Len(gate) : gate[i] = r

LeaveGate(r) ==
    IF \E i \in 1 .. Len(gate) : gate[i] = r
    THEN SubSeq(gate, 1, Place(r) - 1) \o SubSeq(gate, Place(r) + 1, Len(gate))
    ELSE gate

\* Dropping the future of a request ends it while it waits for the gate; a
\* worker on the blocking pool runs on.
Cancel(r) ==
    /\ gated /\ req[r].live
    /\ req' = [req EXCEPT ![r] =
               IF @.stage = "gate" THEN Idle ELSE [@ EXCEPT !.live = FALSE]]
    /\ gate' = LeaveGate(r)
    /\ permit' = PermitAfterCancel(r)
    /\ answer' = None
    /\ UNCHANGED <<storeState, gated, collector, poisoned, starts>>

(****************************************************************************)
(* The worker                                                               *)
(****************************************************************************)
\* Mutant: the permit is given back by the code after a success.
ReleasedOnSuccess(r, ok) == ok

Released(r, ok) == TRUE

\* The worker ends: it drops the guards it holds and answers whoever still
\* listens, with the snapshot of an entry or with an error.
Finish(r, entry) ==
    /\ req' = [req EXCEPT ![r] = Idle]
    /\ permit' = IF permit = r /\ Released(r, entry # None) THEN None ELSE permit
    /\ collector' = IF collector = r THEN None ELSE collector
    /\ answer' = IF req[r].live
                 THEN [id |-> req[r].id, maxAge |-> req[r].maxAge,
                       asked |-> req[r].asked, entry |-> entry]
                 ELSE None
    /\ UNCHANGED <<gated, gate>>

\* Mutant: an ID that is gone is answered with the latest snapshot.
SubstituteLatest(id) ==
    IF HasId(id) THEN GetId(id) ELSE IF entries # {} THEN Back ELSE None

\* QueryView::open of a snapshot ID.
Open(id) == IF HasId(id) THEN GetId(id) ELSE None

ReadPinned(r) ==
    /\ req[r].stage = "pinned"
    /\ Finish(r, Open(req[r].id))
    /\ UNCHANGED <<storeState, poisoned, starts>>

\* Mutant: max_age zero is a bound like any other.
AlwaysLooks(maxAge) == TRUE

LooksInStore(maxAge) == maxAge # 0

LockCollector(r) ==
    /\ req[r].stage = "lock" /\ collector = None
    /\ IF poisoned
       THEN Finish(r, None) /\ UNCHANGED <<poisoned, storeState, starts>>
       ELSE /\ collector' = r
            /\ req' = [req EXCEPT ![r].stage =
                       IF LooksInStore(req[r].maxAge) THEN "cached" ELSE "collect",
                                  ![r].started = now]
            /\ answer' = None
            /\ UNCHANGED <<storeState, gated, gate, permit, poisoned, starts>>

\* QueryView::open of Latest; TooOld and SnapshotUnavailable go on to collect.
ReadCached(r) ==
    /\ req[r].stage = "cached"
    /\ IF HasLatest(req[r].maxAge)
       THEN Finish(r, Back)
       ELSE /\ req' = [req EXCEPT ![r].stage = "collect", ![r].started = now]
            /\ answer' = None
            /\ UNCHANGED <<gated, gate, permit, collector>>
    /\ UNCHANGED <<storeState, poisoned, starts>>

\* Mutant: the collector is unlocked once the collection is there.
UnlocksEarly(r) == None

\* The collector's guard lives to the end of the query.
HeldToInsert(r) == r

\* collect returns a snapshot, fails, or panics and poisons the lock.
Collect(r) ==
    /\ req[r].stage = "collect"
    /\ \/ /\ req' = [req EXCEPT ![r].stage = "insert", ![r].captured = now]
          /\ collector' = HeldToInsert(r)
          /\ answer' = None
          /\ UNCHANGED <<gated, gate, permit, poisoned>>
       \/ Finish(r, None) /\ UNCHANGED poisoned
       \/ Finish(r, None) /\ poisoned' = TRUE
    /\ UNCHANGED <<storeState, starts>>

\* Insertion and the opening of the inserted ID, under one hold of the lock:
\* committed and opened are two readings of the clock.
InsertAndOpen(r) ==
    /\ req[r].stage = "insert"
    /\ \E complete \in BOOLEAN, opened \in now .. MaxTime : \E committed \in now .. opened :
        /\ now' = opened
        /\ IF Accepted(req[r].captured, complete, committed)
           THEN /\ Commit(req[r].captured, committed)
                /\ starts' = Append(starts, req[r].started)
                /\ Finish(r, IF Retained(req[r].captured, opened)
                             THEN NewEntry(req[r].captured) ELSE None)
           ELSE Finish(r, None) /\ UNCHANGED <<storeVars, starts>>
    /\ UNCHANGED poisoned

PassTime == Tick /\ answer' = None /\ UNCHANGED <<serviceVars, starts>>

WorkerStep(r) == LockCollector(r) \/ ReadCached(r) \/ InsertAndOpen(r)

NextService ==
    \/ PassTime
    \/ \E r \in Requests :
           Ask(r) \/ Admit(r) \/ Cancel(r) \/ ReadPinned(r) \/ WorkerStep(r) \/ Collect(r)

ServiceSpec == InitService /\ [][NextService]_serviceState

\* The semaphore is fair and the blocking pool runs its workers; nothing is
\* assumed of Collect, for a collection may take for ever.
FairServiceSpec ==
    /\ ServiceSpec
    /\ \A r \in Requests :
           /\ WF_serviceState(Admit(r))
           /\ WF_serviceState(ReadPinned(r))
           /\ WF_serviceState(WorkerStep(r))

(****************************************************************************)
(* Properties                                                               *)
(****************************************************************************)
Slots == [stage : Stages, id : 0 .. MaxCounter, maxAge : MaxAges \cup {0}, asked : Times,
          started : Times, captured : Times, live : BOOLEAN]

\* The service's variables keep their types.
ServiceTypeOK ==
    /\ TypeOK
    /\ gated \in BOOLEAN
    /\ req \in [Requests -> Slots]
    /\ gate \in Seq(Requests)
    /\ permit \in Requests \cup {None} /\ collector \in Requests \cup {None}
    /\ poisoned \in BOOLEAN
    /\ starts \in Seq(Times) /\ Len(starts) = Len(log)

Answered == answer # None /\ answer.entry # None

\* An explicit ID is answered with the observation once inserted under it, or
\* not at all: it is never refreshed and never replaced by another one, and
\* one past its retention is not served (query of SnapshotRequest::Id).
PinnedExact ==
    Answered /\ answer.id # 0 =>
        /\ answer.entry.id = answer.id
        /\ answer.entry = log[answer.id]
        /\ Retained(answer.entry.captured, now)

\* A request for the latest snapshot gets one no older than it asked for when
\* it asked, whoever collected it; with max_age zero the sampling itself
\* started after the request arrived, so no collection that was under way can
\* answer it (query of SnapshotRequest::Latest).
LatestFresh ==
    Answered /\ answer.id = 0 =>
        /\ answer.entry.captured + answer.maxAge >= answer.asked
        /\ answer.maxAge = 0 => starts[answer.entry.id] >= answer.asked

\* Behind the gate, however requests are cancelled and retried, at most one
\* worker of the blocking pool runs or waits for a collection (the permit call_tool moves
\* into the worker).
OneCollectionWorker ==
    gated => \A q, r \in Requests :
        {req[q].stage, req[r].stage} \subseteq {"lock", "cached", "collect", "insert"}
            => q = r

\* A finished collection always comes after the last accepted one, so it is
\* never refused for its time: the collector's lock orders them
\* (the guard query holds from before collect until insert_checked).
CollectionsInOrder ==
    \A r \in Requests : req[r].stage = "insert" => InOrder(req[r].captured)

\* A pinned request is answered, or cancelled, even while a collection never
\* ends (docs/query-service.md, pinned reads take no collector lock).
PinnedAnswered ==
    \A r \in Requests : (req[r].stage # "idle" /\ req[r].id # 0) ~> req[r].stage = "idle"

\* Behind the gate and unless a collection never ends, every request is
\* answered or cancelled, however earlier requests failed, panicked or were
\* abandoned (the permit and the collector's guard are dropped with their
\* worker).  Without the gate a mutex that is not fair may starve a thread.
EveryRequestEnds ==
    \/ ~gated
    \/ \E r \in Requests : <>[](req[r].stage = "collect")
    \/ \A r \in Requests : req[r].stage # "idle" ~> req[r].stage = "idle"
==============================================================================
