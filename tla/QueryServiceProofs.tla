------------------------- MODULE QueryServiceProofs -------------------------
(****************************************************************************)
(* What SharedQueryService answers, and who collects, for every number of   *)
(* requests, every store and every clock.                                   *)
(****************************************************************************)
EXTENDS QueryService, SnapshotStoreProofs

\* A request for the latest snapshot that is past the gate, and one that is
\* past the collector's lock.
Latest == {"lock", "cached", "collect", "insert"}
Locked == {"cached", "collect", "insert"}

\* A worker holds what its stage needs.
HoldsLocks(r) ==
    /\ gated /\ req[r].stage \in Latest => permit = r
    /\ req[r].stage \in Locked => collector = r

\* The stages of a request for an ID and of one for the latest snapshot.
OfItsKind(r) ==
    /\ req[r].stage = "pinned" => req[r].id # 0
    /\ req[r].stage \in Latest => req[r].id = 0
    /\ req[r].stage = "cached" => req[r].maxAge # 0

\* The readings of the clock a request has made, and the last accepted capture.
InTime(r) ==
    /\ req[r].asked =< now
    /\ req[r].stage \in Locked => req[r].asked =< req[r].started /\ req[r].started =< now
    /\ req[r].stage = "insert" => /\ req[r].started =< req[r].captured
                                  /\ InOrder(req[r].captured)

RequestInv(r) == HoldsLocks(r) /\ OfItsKind(r) /\ InTime(r)

ServiceInv ==
    /\ ServiceTypeOK /\ StoreInv
    /\ lastCapture =< now
    /\ ~gated => gate = <<>>
    /\ \A r \in Requests : RequestInv(r)
    /\ PinnedExact /\ LatestFresh

LEMMA AgesNatural == MaxAges \cup {0} \subseteq Nat
BY ServiceAssumption

LEMMA IdleSlot == Idle \in Slots
BY StoreAssumption DEF Idle, Slots, Stages, Times

\* Whatever the service does, the store does one of its moves, and time does
\* not go back.
LEMMA ServiceMoves ==
    ASSUME ServiceTypeOK, [NextService]_serviceState
    PROVE  StoreMoves /\ now' \in now .. MaxTime
<1>1. now \in now .. MaxTime /\ now \in Nat /\ MaxTime \in Nat
  BY StoreAssumption DEF ServiceTypeOK, TypeOK, Times
<1>2. CASE UNCHANGED storeState
  BY <1>1, <1>2 DEF StoreMoves, storeState
<1>3. CASE PassTime
  BY <1>1, <1>3 DEF StoreMoves, PassTime, Tick
<1>4. ASSUME NEW r \in Requests, InsertAndOpen(r)
      PROVE  StoreMoves /\ now' \in now .. MaxTime
  <2>1. PICK complete \in BOOLEAN, opened \in now .. MaxTime : \E committed \in now .. opened :
            /\ now' = opened
            /\ IF Accepted(req[r].captured, complete, committed)
               THEN Commit(req[r].captured, committed)
               ELSE UNCHANGED storeVars
    BY <1>4 DEF InsertAndOpen
  <2>2. PICK committed \in now .. opened :
            /\ now' = opened
            /\ IF Accepted(req[r].captured, complete, committed)
               THEN Commit(req[r].captured, committed)
               ELSE UNCHANGED storeVars
    BY <2>1
  <2>3. committed \in now .. MaxTime /\ opened \in committed .. MaxTime
    BY <1>1
  <2>4. req[r].captured \in Times
    BY DEF ServiceTypeOK, Slots
  <2>5. CASE Accepted(req[r].captured, complete, committed)
    BY <2>2, <2>3, <2>4, <2>5 DEF StoreMoves, Accepted, Commit, Survivors
  <2>6. CASE ~Accepted(req[r].captured, complete, committed)
    BY <2>2, <2>6 DEF StoreMoves
  <2> QED BY <2>2, <2>5, <2>6
<1>5. ASSUME NEW r \in Requests,
             Ask(r) \/ Admit(r) \/ Cancel(r) \/ ReadPinned(r) \/ LockCollector(r) \/ ReadCached(r)
                \/ Collect(r)
      PROVE  UNCHANGED storeState
  BY <1>5 DEF Ask, Admit, Cancel, ReadPinned, LockCollector, ReadCached, Collect
<1> QED
  BY <1>2, <1>3, <1>4, <1>5 DEF NextService, WorkerStep, serviceState

\* A request a step leaves alone keeps its invariant, as long as it keeps its
\* locks and no other collection overtakes it.
LEMMA UntouchedRequest ==
    ASSUME ServiceInv, NEW r \in Requests, req'[r] = req[r], now' \in now .. MaxTime,
           gated' = gated, permit = r => permit' = r, collector = r => collector' = r,
           req[r].stage = "insert" => lastCapture' = lastCapture
    PROVE  RequestInv(r)'
<1>1. /\ now \in Nat /\ now' \in Nat /\ now =< now'
      /\ req[r].asked \in Nat /\ req[r].started \in Nat /\ req[r].captured \in Nat
  <2>1. req[r] \in Slots /\ now \in Times
    BY DEF ServiceInv, ServiceTypeOK, TypeOK
  <2>2. req[r].asked \in Times /\ req[r].started \in Times /\ req[r].captured \in Times
    BY <2>1 DEF Slots
  <2> QED BY <2>1, <2>2, StoreAssumption DEF Times
<1>2. HoldsLocks(r)' /\ OfItsKind(r)'
  BY DEF ServiceInv, RequestInv, HoldsLocks, OfItsKind
<1>3. InTime(r)'
  BY <1>1 DEF ServiceInv, RequestInv, InTime, InOrder, Locked
<1> QED BY <1>2, <1>3 DEF RequestInv

LEMMA IdleRequest ==
    ASSUME NEW r \in Requests, req'[r] = Idle, now' \in Nat PROVE RequestInv(r)'
BY DEF RequestInv, HoldsLocks, OfItsKind, InTime, Idle, Latest, Locked

\* A worker that ends leaves a slot and its locks behind, and no one else's.
LEMMA FinishKeeps ==
    ASSUME ServiceInv, NEW r \in Requests, NEW entry, Finish(r, entry),
           now' \in now .. MaxTime, lastCapture' = lastCapture \/ req[r].stage = "insert"
    PROVE  /\ req' \in [Requests -> Slots] /\ gate' \in Seq(Requests) /\ gated' \in BOOLEAN
           /\ permit' \in Requests \cup {None} /\ collector' \in Requests \cup {None}
           /\ ~gated' => gate' = <<>>
           /\ \A q \in Requests : RequestInv(q)'
<1>1. /\ req' \in [Requests -> Slots] /\ gate' \in Seq(Requests) /\ gated' \in BOOLEAN
      /\ permit' \in Requests \cup {None} /\ collector' \in Requests \cup {None}
      /\ ~gated' => gate' = <<>>
  BY IdleSlot DEF Finish, ServiceInv, ServiceTypeOK
<1>2. now' \in Nat
  BY StoreAssumption DEF ServiceInv, ServiceTypeOK, TypeOK, Times
<1>3. ASSUME NEW q \in Requests PROVE RequestInv(q)'
  <2>1. CASE q = r
    BY <1>2, <2>1, IdleRequest DEF Finish, ServiceInv, ServiceTypeOK
  <2>2. CASE q # r
    <3>1. /\ req'[q] = req[q] /\ gated' = gated
          /\ permit = q => permit' = q
          /\ collector = q => collector' = q
      BY <2>2 DEF Finish, ServiceInv, ServiceTypeOK
    <3>2. req[q].stage = "insert" => lastCapture' = lastCapture
      BY <2>2 DEF ServiceInv, RequestInv, HoldsLocks, Locked
    <3> QED BY <3>1, <3>2, UntouchedRequest
  <2> QED BY <2>1, <2>2
<1> QED BY <1>1, <1>3

\* An answer without an entry promises nothing.
LEMMA NoEntry ==
    ASSUME answer' = None \/ answer'.entry = None
    PROVE  PinnedExact' /\ LatestFresh'
BY DEF PinnedExact, LatestFresh, Answered

\* What a step of the service preserves of itself: all but the store's part.
OwnPart ==
    /\ gated \in BOOLEAN /\ req \in [Requests -> Slots] /\ gate \in Seq(Requests)
    /\ permit \in Requests \cup {None} /\ collector \in Requests \cup {None}
    /\ poisoned \in BOOLEAN
    /\ starts \in Seq(Times) /\ Len(starts) = Len(log)
    /\ lastCapture =< now
    /\ ~gated => gate = <<>>
    /\ \A r \in Requests : RequestInv(r)
    /\ PinnedExact /\ LatestFresh

LEMMA Parts == ServiceInv <=> StoreInv /\ OwnPart
BY DEF ServiceInv, OwnPart, ServiceTypeOK, StoreInv

\* A step that leaves the store alone and changes one slot by hand.
LEMMA OneSlotKeeps ==
    ASSUME ServiceInv, NEW r \in Requests, NEW slot \in Slots,
           req' = [req EXCEPT ![r] = slot],
           UNCHANGED <<storeState, gated, poisoned, starts>>, answer' = None,
           gate' \in Seq(Requests), ~gated => gate' = <<>>,
           permit' \in Requests \cup {None}, collector' \in Requests \cup {None},
           \A q \in Requests \ {r} : permit = q => permit' = q,
           \A q \in Requests \ {r} : collector = q => collector' = q,
           RequestInv(r)'
    PROVE  OwnPart'
<1>1. now' \in now .. MaxTime /\ lastCapture' = lastCapture /\ now' = now /\ log' = log
  BY StoreAssumption DEF ServiceInv, ServiceTypeOK, TypeOK, Times, storeState, storeVars
<1>2. req' \in [Requests -> Slots]
  BY DEF ServiceInv, ServiceTypeOK
<1>3. ASSUME NEW q \in Requests PROVE RequestInv(q)'
  <2>1. CASE q # r
    BY <1>1, <2>1, UntouchedRequest DEF ServiceInv, ServiceTypeOK
  <2> QED BY <2>1
<1>4. PinnedExact' /\ LatestFresh'
  BY NoEntry
<1> QED
  BY <1>1, <1>2, <1>3, <1>4 DEF ServiceInv, ServiceTypeOK, OwnPart

LEMMA NewSlot ==
    ASSUME ServiceInv, NEW slot \in Slots, NEW r \in Requests, req'[r] = slot, now' = now,
           gated' = gated, slot.asked = now,
           \/ slot.stage = "gate"
           \/ slot.stage = "pinned" /\ slot.id # 0
           \/ slot.stage = "lock" /\ slot.id = 0 /\ (gated => permit' = r)
    PROVE  RequestInv(r)'
<1>1. now \in Nat
  BY StoreAssumption DEF ServiceInv, ServiceTypeOK, TypeOK, Times
<1> QED
  BY <1>1 DEF RequestInv, HoldsLocks, OfItsKind, InTime, Latest, Locked

LEMMA AskKeeps ==
    ASSUME ServiceInv, NEW r \in Requests, Ask(r) PROVE OwnPart'
<1>0. /\ now' = now /\ gated' = gated /\ permit' = permit /\ collector' = collector
      /\ UNCHANGED <<storeState, gated, poisoned, starts>> /\ answer' = None
      /\ now \in Times /\ gate \in Seq(Requests) /\ permit \in Requests \cup {None}
      /\ collector \in Requests \cup {None} /\ 0 \in Times
  <2>1. UNCHANGED <<storeState, gated, permit, collector, poisoned, starts>> /\ answer' = None
    BY DEF Ask
  <2>2. 0 \in Times
    BY StoreAssumption DEF Times
  <2> QED BY <2>1, <2>2 DEF storeState, ServiceInv, ServiceTypeOK, TypeOK
<1>1. ASSUME NEW id \in 1 .. MaxCounter,
             req' = [req EXCEPT ![r] = [Idle EXCEPT
                       !.stage = PinnedStage, !.id = id, !.asked = now, !.live = TRUE]],
             Wait(r, PinnedStage)
      PROVE  OwnPart'
  <2> DEFINE slot == [Idle EXCEPT !.stage = PinnedStage, !.id = id, !.asked = now, !.live = TRUE]
  <2>1. slot \in Slots /\ slot.stage = "pinned" /\ slot.id # 0 /\ slot.asked = now
    <3>1. id \in 0 .. MaxCounter /\ id # 0
      BY StoreAssumption
    <3> QED BY <1>0, <3>1 DEF Idle, Slots, Stages, PinnedStage
  <2>2. req'[r] = slot
    BY <1>1 DEF ServiceInv, ServiceTypeOK
  <2>3. gate' = gate
    BY <1>1 DEF Wait, PinnedStage
  <2>4. RequestInv(r)'
    BY <1>0, <2>1, <2>2, NewSlot
  <2> QED
    BY <1>0, <1>1, <2>1, <2>3, <2>4, OneSlotKeeps DEF ServiceInv
<1>2. ASSUME NEW maxAge \in MaxAges,
             req' = [req EXCEPT ![r] = [Idle EXCEPT
                       !.stage = LatestStage, !.maxAge = maxAge, !.asked = now, !.live = TRUE]],
             Wait(r, LatestStage)
      PROVE  OwnPart'
  <2> DEFINE slot == [Idle EXCEPT !.stage = LatestStage, !.maxAge = maxAge, !.asked = now,
                                  !.live = TRUE]
  <2>1. /\ slot \in Slots /\ slot.id = 0 /\ slot.asked = now
        /\ slot.stage = IF gated THEN "gate" ELSE "lock"
    <3>1. 0 \in 0 .. MaxCounter /\ LatestStage \in Stages
      BY StoreAssumption DEF LatestStage, Stages
    <3>2. slot \in Slots /\ slot.id = 0 /\ slot.asked = now /\ slot.stage = LatestStage
      BY <1>0, <3>1 DEF Idle, Slots
    <3> QED BY <3>2 DEF LatestStage
  <2>2. req'[r] = slot
    BY <1>2 DEF ServiceInv, ServiceTypeOK
  <2>3. gate' \in Seq(Requests) /\ (~gated => gate' = <<>>)
    BY <1>0, <1>2, AppendProperties DEF Wait, LatestStage, ServiceInv
  <2>4. RequestInv(r)'
    BY <1>0, <2>1, <2>2, NewSlot
  <2> QED
    BY <1>0, <1>2, <2>1, <2>3, <2>4, OneSlotKeeps
<1> QED
  BY <1>1, <1>2 DEF Ask

\* The permit is free when it is granted, so that nobody else is past the gate.
LEMMA AdmitKeeps ==
    ASSUME ServiceInv, NEW r \in Requests, Admit(r) PROVE OwnPart'
<1> DEFINE slot == [req[r] EXCEPT !.stage = IF req[r].id = 0 THEN "lock" ELSE "pinned"]
<1>0. /\ UNCHANGED <<storeState, gated, poisoned, starts>> /\ answer' = None
      /\ collector' = collector /\ collector \in Requests \cup {None} /\ permit = None
      /\ permit' = r /\ gate # <<>> /\ gate' = Tail(gate) /\ gated
  BY DEF Admit, ServiceInv, ServiceTypeOK
<1>1. req' = [req EXCEPT ![r] = slot] /\ req'[r] = slot /\ req[r] \in Slots
  BY DEF Admit, ServiceInv, ServiceTypeOK
<1>2. /\ slot \in Slots /\ slot.stage = IF slot.id = 0 THEN "lock" ELSE "pinned"
      /\ slot.asked = req[r].asked
  BY <1>1 DEF Slots, Stages
<1>3. gate' \in Seq(Requests)
  BY <1>0, HeadTailProperties DEF ServiceInv, ServiceTypeOK
<1>4. RequestInv(r)'
  <2>1. now' = now /\ req[r].asked =< now
    BY <1>0 DEF storeState, ServiceInv, RequestInv, InTime
  <2> HIDE DEF slot
  <2>2. HoldsLocks(r)' /\ OfItsKind(r)'
    BY <1>0, <1>1, <1>2 DEF HoldsLocks, OfItsKind, Latest, Locked
  <2>3. InTime(r)'
    BY <1>1, <1>2, <2>1 DEF InTime, Locked
  <2> QED
    BY <2>2, <2>3 DEF RequestInv
<1>5. \A q \in Requests \ {r} : permit # q
  BY <1>0, ServiceAssumption
<1> QED
  BY <1>0, <1>1, <1>2, <1>3, <1>4, <1>5, OneSlotKeeps

LEMMA LeaveGateType ==
    ASSUME NEW r \in Requests, gate \in Seq(Requests)
    PROVE  LeaveGate(r) \in Seq(Requests) /\ (gate = <<>> => LeaveGate(r) = <<>>)
<1>1. CASE \E i \in 1 .. Len(gate) : gate[i] = r
  <2>1. Place(r) \in 1 .. Len(gate) /\ Len(gate) \in Nat
    BY <1>1 DEF Place
  <2> DEFINE n == Place(r)
  <2>2. SubSeq(gate, 1, n - 1) \in Seq(Requests) /\ SubSeq(gate, n + 1, Len(gate)) \in Seq(Requests)
    BY <2>1, SubSeqProperties
  <2> QED
    BY <1>1, <2>1, <2>2, ConcatProperties DEF LeaveGate
<1>2. CASE ~\E i \in 1 .. Len(gate) : gate[i] = r
  BY <1>2 DEF LeaveGate
<1> QED BY <1>1, <1>2

LEMMA CancelKeeps ==
    ASSUME ServiceInv, NEW r \in Requests, Cancel(r) PROVE OwnPart'
<1> DEFINE slot == IF req[r].stage = "gate" THEN Idle ELSE [req[r] EXCEPT !.live = FALSE]
<1>0. /\ UNCHANGED <<storeState, gated, poisoned, starts>> /\ answer' = None /\ now' = now
      /\ collector' = collector /\ permit' = permit /\ gated /\ gate' = LeaveGate(r)
      /\ lastCapture' = lastCapture
  BY DEF Cancel, PermitAfterCancel, storeState, storeVars
<1>1. req' = [req EXCEPT ![r] = slot] /\ req'[r] = slot /\ req[r] \in Slots
  BY DEF Cancel, ServiceInv, ServiceTypeOK
<1>2. slot \in Slots
  BY <1>1, IdleSlot DEF Slots
<1>3. gate' \in Seq(Requests)
  BY <1>0, LeaveGateType DEF ServiceInv, ServiceTypeOK
<1>4. RequestInv(r)'
  <2>1. CASE req[r].stage = "gate"
    <3>1. now' \in Nat
      BY <1>0, StoreAssumption DEF ServiceInv, ServiceTypeOK, TypeOK, Times
    <3> QED BY <1>1, <2>1, <3>1, IdleRequest
  <2>2. CASE req[r].stage # "gate"
    <3>1. /\ slot.stage = req[r].stage /\ slot.id = req[r].id /\ slot.maxAge = req[r].maxAge
          /\ slot.asked = req[r].asked /\ slot.started = req[r].started
          /\ slot.captured = req[r].captured
      BY <1>1, <2>2 DEF Slots
    <3>2. RequestInv(r)
      BY DEF ServiceInv
    <3>3. HoldsLocks(r)' /\ OfItsKind(r)'
      BY <1>0, <1>1, <3>1, <3>2 DEF RequestInv, HoldsLocks, OfItsKind
    <3>4. InTime(r)'
      BY <1>0, <1>1, <3>1, <3>2 DEF RequestInv, InTime, InOrder
    <3> QED BY <3>3, <3>4 DEF RequestInv
  <2> QED BY <2>1, <2>2
<1> QED
  BY <1>0, <1>1, <1>2, <1>3, <1>4, OneSlotKeeps DEF ServiceInv, ServiceTypeOK

\* A worker that ends without touching the store, and answers with nothing.
LEMMA FailKeeps ==
    ASSUME ServiceInv, NEW r \in Requests, Finish(r, None), UNCHANGED <<storeState, starts>>,
           poisoned' \in BOOLEAN
    PROVE  OwnPart'
<1>1. now' \in now .. MaxTime /\ lastCapture' = lastCapture /\ log' = log /\ now' = now
  BY StoreAssumption DEF storeState, storeVars, ServiceInv, ServiceTypeOK, TypeOK, Times
<1>2. PinnedExact' /\ LatestFresh'
  BY NoEntry DEF Finish
<1> QED
  BY <1>1, <1>2, FinishKeeps DEF OwnPart, ServiceInv, ServiceTypeOK

\* The entry found under an ID is the one logged under it, and still retained.
LEMMA OpenExact ==
    ASSUME StoreInv, NEW id, HasId(id)
    PROVE  /\ GetId(id).id = id /\ GetId(id) = log[id]
           /\ Retained(GetId(id).captured, now)
<1>1. PICK e \in entries : e.id = id /\ Retained(e.captured, now)
  BY DEF HasId
<1>2. GetId(id) \in entries /\ GetId(id).id = id
  BY <1>1 DEF GetId
<1>3. e = log[id] /\ GetId(id) = log[id]
  BY <1>1, <1>2 DEF StoreInv, IdsNeverReused
<1> QED BY <1>1, <1>2, <1>3

LEMMA ReadPinnedKeeps ==
    ASSUME ServiceInv, NEW r \in Requests, ReadPinned(r) PROVE OwnPart'
<1>0. req[r].id # 0 /\ Finish(r, Open(req[r].id)) /\ UNCHANGED <<storeState, poisoned, starts>>
  BY DEF ReadPinned, ServiceInv, RequestInv, OfItsKind
<1>1. now' \in now .. MaxTime /\ lastCapture' = lastCapture /\ log' = log /\ now' = now
  BY <1>0, StoreAssumption DEF storeState, storeVars, ServiceInv, ServiceTypeOK, TypeOK, Times
<1>2. PinnedExact' /\ LatestFresh'
  <2>1. CASE HasId(req[r].id) /\ req[r].live
    <3> DEFINE e == GetId(req[r].id)
    <3>1. answer'.id = req[r].id /\ answer'.entry = e
      BY <1>0, <2>1 DEF Finish, Open
    <3>2. e.id = req[r].id /\ e = log[req[r].id] /\ Retained(e.captured, now)
      BY <2>1, OpenExact DEF ServiceInv
    <3> QED
      BY <1>0, <1>1, <3>1, <3>2 DEF PinnedExact, LatestFresh, Retained
  <2>2. CASE ~(HasId(req[r].id) /\ req[r].live)
    BY <1>0, <2>2, NoEntry DEF Finish, Open
  <2> QED BY <2>1, <2>2
<1> QED
  BY <1>0, <1>1, <1>2, FinishKeeps DEF OwnPart, ServiceInv, ServiceTypeOK

\* The lock is free when it is taken.
LEMMA LockCollectorKeeps ==
    ASSUME ServiceInv, NEW r \in Requests, LockCollector(r) PROVE OwnPart'
<1>1. CASE poisoned
  BY <1>1, FailKeeps DEF LockCollector, ServiceInv, ServiceTypeOK
<1>2. CASE ~poisoned
  <2> DEFINE to == IF LooksInStore(req[r].maxAge) THEN "cached" ELSE "collect"
             slot == [req[r] EXCEPT !.stage = to, !.started = now]
  <2>0. /\ UNCHANGED <<storeState, gated, gate, permit, poisoned, starts>> /\ answer' = None
        /\ collector = None /\ collector' = r /\ req[r].stage = "lock" /\ now' = now
    BY <1>2 DEF LockCollector, storeState
  <2>1. req' = [req EXCEPT ![r] = slot] /\ req'[r] = slot /\ req[r] \in Slots /\ now \in Times
    BY <1>2 DEF LockCollector, ServiceInv, ServiceTypeOK, TypeOK
  <2>2. /\ slot \in Slots /\ slot.stage \in {"cached", "collect"} /\ slot.started = now
        /\ slot.stage = "cached" => slot.maxAge # 0
        /\ slot.asked = req[r].asked /\ slot.id = req[r].id
    BY <2>1 DEF Slots, Stages, LooksInStore
  <2>3. RequestInv(r)'
    <3>1. /\ gated => permit = r
          /\ req[r].id = 0 /\ req[r].asked =< now
      BY <2>0 DEF ServiceInv, RequestInv, HoldsLocks, OfItsKind, InTime, Latest
    <3>2. now \in Nat
      BY <2>1, StoreAssumption DEF Times
    <3> HIDE DEF slot
    <3>3. HoldsLocks(r)' /\ OfItsKind(r)'
      BY <2>0, <2>1, <2>2, <3>1 DEF HoldsLocks, OfItsKind
    <3>4. InTime(r)'
      BY <2>0, <2>1, <2>2, <3>1, <3>2 DEF InTime
    <3> QED
      BY <3>3, <3>4 DEF RequestInv
  <2>4. \A q \in Requests \ {r} : collector # q
    BY <2>0, ServiceAssumption
  <2> QED
    BY <2>0, <2>1, <2>2, <2>3, <2>4, OneSlotKeeps DEF ServiceInv, ServiceTypeOK
<1> QED BY <1>1, <1>2

\* The entry at the back is young enough for the request, which arrived earlier.
LEMMA ReadCachedKeeps ==
    ASSUME ServiceInv, NEW r \in Requests, ReadCached(r) PROVE OwnPart'
<1>0. /\ req[r].stage = "cached" /\ UNCHANGED <<storeState, poisoned, starts>>
      /\ req[r].id = 0 /\ req[r].maxAge # 0 /\ req[r].asked =< now /\ collector = r
      /\ req[r].asked =< req[r].started
      /\ gated => permit = r
  BY DEF ReadCached, ServiceInv, RequestInv, OfItsKind, InTime, HoldsLocks, Latest, Locked
<1>1. /\ now' \in now .. MaxTime /\ lastCapture' = lastCapture /\ log' = log /\ now' = now
      /\ now \in Times /\ now \in Nat
  BY <1>0, StoreAssumption DEF storeState, storeVars, ServiceInv, ServiceTypeOK, TypeOK, Times
<1>2. req[r] \in Slots
  BY DEF ServiceInv, ServiceTypeOK
<1>3. CASE HasLatest(req[r].maxAge)
  <2>1. Finish(r, Back)
    BY <1>3 DEF ReadCached
  <2>2. PinnedExact' /\ LatestFresh'
    <3>1. CASE req[r].live
      <4>1. /\ answer'.id = 0 /\ answer'.entry = Back /\ answer'.maxAge = req[r].maxAge
            /\ answer'.asked = req[r].asked
        BY <1>0, <2>1, <3>1 DEF Finish
      <4>2. now - Back.captured =< req[r].maxAge /\ Back \in Entries
        <5>1. \E e \in entries : \A f \in entries : f.id =< e.id
          <6>1. entries # {} /\ entries \subseteq Entries
            BY <1>3 DEF HasLatest, ServiceInv, ServiceTypeOK, TypeOK
          <6> QED BY <6>1, NewestExists DEF ServiceInv, StoreInv, TypeOK
        <5>2. Back \in entries
          BY <5>1 DEF Back
        <5> QED BY <1>3, <5>2 DEF HasLatest, ServiceInv, ServiceTypeOK, TypeOK
      <4>3. Back.captured \in Nat /\ req[r].maxAge \in Nat /\ req[r].asked \in Nat
        <5>1. /\ Back.captured \in Times /\ req[r].asked \in Times
              /\ req[r].maxAge \in MaxAges \cup {0}
          BY <1>2, <4>2 DEF Entries, Slots
        <5>2. Times \subseteq Nat
          BY StoreAssumption DEF Times
        <5> QED BY <5>1, <5>2, AgesNatural
      <4>4. Back.captured + req[r].maxAge >= req[r].asked
        BY <1>0, <1>1, <4>2, <4>3
      <4> QED
        BY <1>0, <4>1, <4>4 DEF PinnedExact, LatestFresh
    <3>2. CASE ~req[r].live
      BY <2>1, <3>2, NoEntry DEF Finish
    <3> QED BY <3>1, <3>2
  <2> QED
    BY <1>0, <1>1, <2>1, <2>2, FinishKeeps DEF OwnPart, ServiceInv, ServiceTypeOK
<1>4. CASE ~HasLatest(req[r].maxAge)
  <2> DEFINE slot == [req[r] EXCEPT !.stage = "collect", !.started = now]
  <2>1. /\ req' = [req EXCEPT ![r] = slot] /\ req'[r] = slot /\ answer' = None
        /\ UNCHANGED <<gated, gate, permit, collector>>
    BY <1>4 DEF ReadCached, ServiceInv, ServiceTypeOK
  <2>2. /\ slot \in Slots /\ slot.stage = "collect" /\ slot.started = now
        /\ slot.asked = req[r].asked /\ slot.id = req[r].id
    BY <1>1, <1>2 DEF Slots, Stages
  <2>3. RequestInv(r)'
    <3> HIDE DEF slot
    <3>1. HoldsLocks(r)' /\ OfItsKind(r)'
      BY <1>0, <2>1, <2>2 DEF HoldsLocks, OfItsKind, Latest
    <3>2. InTime(r)'
      BY <1>0, <1>1, <2>1, <2>2 DEF InTime
    <3> QED
      BY <3>1, <3>2 DEF RequestInv
  <2> QED
    BY <1>0, <2>1, <2>2, <2>3, OneSlotKeeps DEF ServiceInv, ServiceTypeOK
<1> QED BY <1>3, <1>4

LEMMA CollectKeeps ==
    ASSUME ServiceInv, NEW r \in Requests, Collect(r) PROVE OwnPart'
<1>0. /\ req[r].stage = "collect" /\ UNCHANGED <<storeState, starts>> /\ collector = r
      /\ req[r].id = 0 /\ req[r].asked =< now /\ req[r].asked =< req[r].started
      /\ req[r].started =< now
      /\ gated => permit = r
  BY DEF Collect, ServiceInv, RequestInv, OfItsKind, InTime, HoldsLocks, Latest, Locked
<1>1. /\ now' \in now .. MaxTime /\ lastCapture' = lastCapture /\ log' = log /\ now' = now
      /\ now \in Times /\ now \in Nat
  BY <1>0, StoreAssumption DEF storeState, storeVars, ServiceInv, ServiceTypeOK, TypeOK, Times
<1>2. CASE Finish(r, None)
  BY <1>0, <1>2, FailKeeps DEF Collect, ServiceInv, ServiceTypeOK
<1>3. CASE ~Finish(r, None)
  <2> DEFINE slot == [req[r] EXCEPT !.stage = "insert", !.captured = now]
  <2>1. /\ req' = [req EXCEPT ![r] = slot] /\ req'[r] = slot /\ answer' = None
        /\ UNCHANGED <<gated, gate, permit, poisoned>> /\ collector' = r
    BY <1>3 DEF Collect, HeldToInsert, ServiceInv, ServiceTypeOK
  <2>2. /\ slot \in Slots /\ slot.stage = "insert" /\ slot.started = req[r].started
        /\ slot.asked = req[r].asked /\ slot.id = req[r].id /\ slot.captured = now
    <3>1. req[r] \in Slots
      BY DEF ServiceInv, ServiceTypeOK
    <3> QED BY <1>1, <3>1 DEF Slots, Stages
  <2>3. lastCapture =< now
    BY DEF ServiceInv
  <2>4. InOrder(now)'
    BY <1>1, <2>3, StoreAssumption DEF InOrder, ServiceInv, ServiceTypeOK, TypeOK, Times
  <2>5. RequestInv(r)'
    <3>1. HoldsLocks(r)' /\ OfItsKind(r)'
      BY <1>0, <2>1, <2>2 DEF HoldsLocks, OfItsKind, Latest
    <3>2. InTime(r)'
      BY <1>0, <1>1, <2>1, <2>2, <2>4 DEF InTime, InOrder
    <3> QED BY <3>1, <3>2 DEF RequestInv
  <2>6. \A q \in Requests \ {r} : collector # q
    BY <1>0
  <2> QED
    BY <1>0, <2>1, <2>2, <2>5, <2>6, OneSlotKeeps DEF ServiceInv, ServiceTypeOK
<1> QED BY <1>2, <1>3

\* An accepted collection is answered with the entry it became, and the start
\* of its sampling is noted under that entry's number.
LEMMA InsertAndOpenKeeps ==
    ASSUME ServiceInv, NEW r \in Requests, InsertAndOpen(r) PROVE OwnPart'
<1> DEFINE captured == req[r].captured
<1>0. /\ req[r].stage = "insert" /\ req[r].id = 0 /\ req[r] \in Slots
      /\ req[r].asked =< req[r].started /\ req[r].started =< captured /\ captured =< now
      /\ poisoned' = poisoned
  BY DEF InsertAndOpen, ServiceInv, ServiceTypeOK, RequestInv, OfItsKind, InTime, InOrder,
         Latest, Locked
<1>1. PICK complete \in BOOLEAN, opened \in now .. MaxTime : \E committed \in now .. opened :
          /\ now' = opened
          /\ IF Accepted(captured, complete, committed)
             THEN /\ Commit(captured, committed)
                  /\ starts' = Append(starts, req[r].started)
                  /\ Finish(r, IF Retained(captured, opened) THEN NewEntry(captured) ELSE None)
             ELSE Finish(r, None) /\ UNCHANGED <<storeVars, starts>>
  BY DEF InsertAndOpen
<1>2. PICK committed \in now .. opened :
          /\ now' = opened
          /\ IF Accepted(captured, complete, committed)
             THEN /\ Commit(captured, committed)
                  /\ starts' = Append(starts, req[r].started)
                  /\ Finish(r, IF Retained(captured, opened) THEN NewEntry(captured) ELSE None)
             ELSE Finish(r, None) /\ UNCHANGED <<storeVars, starts>>
  BY <1>1
<1>3. /\ now' \in now .. MaxTime /\ now \in Nat /\ now' \in Nat /\ now =< now'
      /\ req[r].started \in Times /\ captured \in Times
      /\ captured \in Nat /\ req[r].asked \in Nat /\ req[r].started \in Nat
  BY <1>0, <1>1, StoreAssumption DEF ServiceInv, ServiceTypeOK, TypeOK, Times, Slots
<1>4. CASE ~Accepted(captured, complete, committed)
  <2>1. Finish(r, None) /\ UNCHANGED <<storeVars, starts>>
    BY <1>2, <1>4
  <2>2. PinnedExact' /\ LatestFresh'
    BY <2>1, NoEntry DEF Finish
  <2>3. lastCapture' = lastCapture /\ log' = log /\ lastCapture' =< now'
    BY <1>3, <2>1, StoreAssumption DEF storeVars, ServiceInv, ServiceTypeOK, TypeOK, Times
  <2> QED
    BY <1>0, <1>3, <2>1, <2>2, <2>3, FinishKeeps DEF OwnPart, ServiceInv, ServiceTypeOK
<1>5. CASE Accepted(captured, complete, committed)
  <2> DEFINE found == IF Retained(captured, opened) THEN NewEntry(captured) ELSE None
  <2>1. /\ Finish(r, found) /\ starts' = Append(starts, req[r].started)
        /\ lastCapture' = captured /\ log' = Append(log, NewEntry(captured))
    BY <1>2, <1>5 DEF Commit
  <2>2. /\ starts' \in Seq(Times) /\ Len(starts') = Len(log')
        /\ starts'[Len(log) + 1] = req[r].started
    BY <1>3, <2>1 DEF ServiceInv, ServiceTypeOK, TypeOK
  <2>3. lastCapture' =< now'
    BY <1>0, <1>3, <2>1
  <2>4. NewEntry(captured).id = Len(log) + 1 /\ NewEntry(captured).captured = captured
    BY DEF NewEntry, ServiceInv, StoreInv, IdsNeverReused
  <2>5. PinnedExact' /\ LatestFresh'
    <3>1. CASE req[r].live /\ Retained(captured, opened)
      <4>1. /\ answer'.id = 0 /\ answer'.entry = NewEntry(captured)
            /\ answer'.maxAge = req[r].maxAge /\ answer'.asked = req[r].asked
        BY <1>0, <2>1, <3>1 DEF Finish
      <4>2. captured + req[r].maxAge >= req[r].asked /\ req[r].started >= req[r].asked
        <5>1. req[r].maxAge \in MaxAges \cup {0}
          BY <1>0 DEF Slots
        <5>2. req[r].maxAge \in Nat
          BY <5>1, AgesNatural
        <5> QED BY <1>0, <1>3, <5>2
      <4> QED
        BY <2>2, <2>4, <4>1, <4>2 DEF PinnedExact, LatestFresh
    <3>2. CASE ~(req[r].live /\ Retained(captured, opened))
      BY <2>1, <3>2, NoEntry DEF Finish
    <3> QED BY <3>1, <3>2
  <2> QED
    BY <1>0, <1>3, <2>1, <2>2, <2>3, <2>5, FinishKeeps DEF OwnPart, ServiceInv, ServiceTypeOK
<1> QED BY <1>4, <1>5

LEMMA PassTimeKeeps ==
    ASSUME ServiceInv, PassTime PROVE OwnPart'
<1>1. /\ now' \in now .. MaxTime /\ now \in Nat /\ now' = now + 1 /\ lastCapture \in Nat
      /\ UNCHANGED <<storeVars, serviceVars, starts>> /\ answer' = None
      /\ lastCapture' = lastCapture /\ log' = log
  BY StoreAssumption DEF PassTime, Tick, storeVars, ServiceInv, ServiceTypeOK, TypeOK, Times
<1>2. \A r \in Requests : RequestInv(r)'
  BY <1>1, UntouchedRequest DEF serviceVars
<1>3. lastCapture' =< now'
  BY <1>1 DEF ServiceInv
<1> QED
  BY <1>1, <1>2, <1>3, NoEntry DEF serviceVars, OwnPart, ServiceInv, ServiceTypeOK

(****************************************************************************)
(* The theorems                                                             *)
(****************************************************************************)
LEMMA ServiceInvKept == ServiceInv /\ [NextService]_serviceState => ServiceInv'
<1> SUFFICES ASSUME ServiceInv, [NextService]_serviceState PROVE ServiceInv'
  OBVIOUS
<1>1. StoreInv'
  BY ServiceMoves, StoreInvKept DEF ServiceInv
<1>2. CASE UNCHANGED serviceState
  <2>1. OwnPart
    BY Parts
  <2>2. OwnPart'
    BY <1>2, <2>1
    DEF OwnPart, serviceState, storeState, storeVars, serviceVars, RequestInv, HoldsLocks,
        OfItsKind, InTime, InOrder, PinnedExact, LatestFresh, Answered, Retained
  <2> QED BY <1>1, <2>2, Parts DEF ServiceInv, OwnPart, ServiceTypeOK, StoreInv
<1>3. CASE PassTime
  BY <1>1, <1>3, PassTimeKeeps DEF ServiceInv, OwnPart, ServiceTypeOK, StoreInv
<1>4. ASSUME NEW r \in Requests,
             Ask(r) \/ Admit(r) \/ Cancel(r) \/ ReadPinned(r) \/ WorkerStep(r) \/ Collect(r)
      PROVE  ServiceInv'
  <2>1. OwnPart'
    BY <1>4, AskKeeps, AdmitKeeps, CancelKeeps, ReadPinnedKeeps, LockCollectorKeeps,
       ReadCachedKeeps, CollectKeeps, InsertAndOpenKeeps DEF WorkerStep
  <2> QED BY <1>1, <2>1 DEF ServiceInv, OwnPart, ServiceTypeOK, StoreInv
<1> QED BY <1>2, <1>3, <1>4 DEF NextService

LEMMA ServiceInvInit == InitService => ServiceInv
<1> SUFFICES ASSUME InitService PROVE ServiceInv
  OBVIOUS
<1>1. StoreInv
  BY StoreInvInit DEF InitService
<1>2. lastCapture =< now /\ now \in Nat /\ Len(log) = 0
  BY DEF InitService, InitStore
<1>3. \A r \in Requests : RequestInv(r)
  BY <1>2 DEF InitService, RequestInv, HoldsLocks, OfItsKind, InTime, Idle, Latest, Locked
<1>4. PinnedExact /\ LatestFresh
  BY DEF InitService, PinnedExact, LatestFresh, Answered
<1>5. ServiceTypeOK
  <2>1. TypeOK
    BY <1>1 DEF StoreInv
  <2>2. starts \in Seq(Times) /\ gate \in Seq(Requests) /\ Len(starts) = Len(log)
    BY <1>2, EmptySeq DEF InitService
  <2> QED BY <2>1, <2>2, IdleSlot DEF InitService, ServiceTypeOK
<1> QED
  BY <1>1, <1>2, <1>3, <1>4, <1>5 DEF InitService, ServiceInv

LEMMA ServiceInvariant == ServiceSpec => []ServiceInv
BY ServiceInvInit, ServiceInvKept, PTL DEF ServiceSpec

\* The variables of the service and of the store under it keep their types.
THEOREM ServiceTypeCorrect == ServiceSpec => []ServiceTypeOK
<1>1. ServiceInv => ServiceTypeOK
  BY DEF ServiceInv
<1> QED BY <1>1, ServiceInvariant, PTL

\* An explicit ID is answered with the observation inserted under it, or not
\* at all (query of SnapshotRequest::Id).
THEOREM ServicePinnedExact == ServiceSpec => []PinnedExact
<1>1. ServiceInv => PinnedExact
  BY DEF ServiceInv
<1> QED BY <1>1, ServiceInvariant, PTL

\* Latest is answered with a snapshot as young as was asked for, and with
\* max_age zero with one sampled after the request arrived (query of
\* SnapshotRequest::Latest).
THEOREM ServiceLatestFresh == ServiceSpec => []LatestFresh
<1>1. ServiceInv => LatestFresh
  BY DEF ServiceInv
<1> QED BY <1>1, ServiceInvariant, PTL

\* The collector's lock orders collections: a finished one is never refused
\* for its time (the guard query holds from before collect until insert_checked).
THEOREM ServiceCollectionsInOrder == ServiceSpec => []CollectionsInOrder
<1>1. ServiceInv => CollectionsInOrder
  BY DEF ServiceInv, RequestInv, InTime, CollectionsInOrder
<1> QED BY <1>1, ServiceInvariant, PTL

\* At most one worker of the gate collects or waits to (the permit of call_tool).
THEOREM ServiceOneCollectionWorker == ServiceSpec => []OneCollectionWorker
<1>1. ASSUME ServiceInv PROVE OneCollectionWorker
  <2> SUFFICES ASSUME gated, NEW q \in Requests, NEW r \in Requests,
                      {req[q].stage, req[r].stage} \subseteq Latest
               PROVE  q = r
    BY DEF OneCollectionWorker, Latest
  <2> QED BY <1>1 DEF ServiceInv, RequestInv, HoldsLocks
<1> QED BY <1>1, ServiceInvariant, PTL

\* The store keeps its promises under the service, which reads the clock once
\* more between a commit and the opening of what it committed: what readers
\* find is the retained log.
THEOREM ServiceImplementsRetainedLog == ServiceSpec => ImplementsRetainedLog
<1>1. ServiceInv /\ [NextService]_serviceState /\ ServiceInv' => [Readable!Next]_<<log, entries>>
  BY ServiceMoves, RetainedLogStep DEF ServiceInv, StoreInv
<1>2. InitService => Readable!Init
  BY RetainedLogInit DEF InitService
<1> QED
  BY <1>1, <1>2, ServiceInvariant, PTL DEF ServiceSpec, ImplementsRetainedLog, Readable!Spec
=============================================================================
