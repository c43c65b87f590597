-------------------------- MODULE CollectionProofs --------------------------
(****************************************************************************)
(* A one-shot sample while distributions start and stop, what it publishes  *)
(* (rows, catalog and tree), and the calls of a stream; for any sets of     *)
(* distributions and outputs, and any number of changes and failures.       *)
(****************************************************************************)
EXTENDS Monitor, RowProofs

-----------------------------------------------------------------------------
(* A one-shot sample: what its captures hold.                               *)
(****************************************************************************)

Stages == {"plan", "before", "windows before", "spawn", "middle", "join", "after",
           "windows after", "assemble", "published", "failed"}

\* The primary distribution is the one that is sampled as such.
PlanIs(p) ==
    /\ p = [samples |-> p.samples, primary |-> p.primary, additional |-> p.additional,
            enabled |-> p.enabled, warned |-> p.warned]
    /\ p.primary # Absent /\ p.primary[1] = p.samples

\* The result of capture n, with d as its primary distribution.
ResultIs(r, n, d) ==
    /\ r = [primary |-> r.primary, additional |-> r.additional, warned |-> r.warned]
    /\ IsFiniteSet(r.additional)
    /\ \A e \in r.additional :
           e = <<e[1], [distro |-> e[1][1], source |-> <<e[1][1]>>, at |-> n]>> /\ e[1][1] # d
    /\ \A a, b \in r.additional : a # b => a[1][1] # b[1][1]

HasPrimary(r, n, d) == r.primary = [distro |-> d, source |-> NoSource, at |-> n]

CapturedIn(r) == {e[1][1] : e \in r.additional}

IsSeq(s) == \E S : s \in Seq(S)

\* Which captures have ended is known from the place of the main thread.
ControlInv ==
    /\ pc \in Stages /\ IsSeq(captures) /\ IsSeq(listings)
    /\ pc \in {"plan", "before"} => Len(captures) = 0
    /\ pc \in {"windows before", "spawn", "middle"} => Len(captures) = 1
    /\ pc \in {"join", "after"} => Len(captures) = 2
    /\ pc \in {"windows after", "assemble", "published"} => Len(captures) = 3
    /\ pc \in {"plan", "failed"} \/ PlanIs(plan)
    /\ pc = "plan" => listings = <<>>
    /\ platform \in {"wsl", "windows"}
    /\ platform = "wsl" => config.name # Absent /\ config.name[1] = Here

\* The capture in progress.
CaptureInv ==
    /\ capture = [number |-> capture.number, at |-> capture.at, todo |-> capture.todo, result |-> capture.result]
    /\ capture.at \in {"primary", "discover", "visit", "ended"}
    /\ capture.number = Len(captures) => capture.at = "ended"
    /\ capture.number # Len(captures) =>
           capture.number = Len(captures) + 1 /\ pc \in {"before", "middle", "after"}
    /\ capture.at # "ended" => ResultIs(capture.result, capture.number, plan.samples)
    /\ capture.at \in {"primary", "discover"} => capture.result.additional = {}
    /\ capture.at \in {"discover", "visit"} => HasPrimary(capture.result, capture.number, plan.samples)
    /\ capture.at = "ended" /\ capture.number > Len(captures) /\ capture.result # Unknown =>
           /\ ResultIs(capture.result, capture.number, plan.samples)
           /\ HasPrimary(capture.result, capture.number, plan.samples)
    /\ capture.at = "visit" => \A n \in capture.todo :
           n = Listed(n[1]) /\ n[1] # plan.samples /\ n[1] \notin CapturedIn(capture.result)

CapturesInv ==
    \A i \in DOMAIN captures : captures[i] # Unknown =>
        ResultIs(captures[i], i, plan.samples) /\ HasPrimary(captures[i], i, plan.samples)

\* A distribution that was listed is in a capture, or a capture has a warning, or it
\* has still to be visited.
CoveredBy(d, r) == r = Unknown \/ r.warned # {} \/ d \in CapturedIn(r)

Covered(d) ==
    \/ d = plan.samples
    \/ \E i \in DOMAIN captures : CoveredBy(d, captures[i])
    \/ /\ capture.number > Len(captures)
       /\ IF capture.at = "ended" THEN CoveredBy(d, capture.result)
          ELSE \/ capture.result.warned # {} \/ d \in CapturedIn(capture.result)
               \/ capture.at = "visit" /\ Listed(d) \in capture.todo

ListingsInv == \A k \in DOMAIN listings : \A d \in listings[k] : Covered(d)

\* The threads run between the first and the last capture.
WorkersInv ==
    /\ worker = [r \in Runtimes |-> [at |-> worker[r].at, probes |-> worker[r].probes, result |-> worker[r].result]]
    /\ \A r \in Runtimes :
           /\ worker[r].at \in {"off", "baseline", "usage", "done", "panicked"}
           /\ worker[r].at \in {"baseline", "usage"} => pc \in {"middle", "join"}
           /\ \A p \in worker[r].probes : p.at \in {1, 2}

CpusInv ==
    /\ cpus \in {0} \cup CpuCounts
    /\ pc \in {"spawn", "middle", "join", "after", "windows after", "assemble"} => collectorCpus \in CpuCounts

PublishedInv == TotalsWhole /\ (pc # "published" => published = Absent)

SampleInv ==
    /\ ControlInv /\ CaptureInv /\ CapturesInv /\ ListingsInv
    /\ WorkersInv /\ CpusInv /\ PublishedInv

LEMMA SeqAppend ==
    ASSUME NEW s, IsSeq(s), NEW e
    PROVE  /\ IsSeq(Append(s, e)) /\ Len(s) \in Nat /\ Len(Append(s, e)) = Len(s) + 1
           /\ DOMAIN s = 1 .. Len(s) /\ DOMAIN Append(s, e) = 1 .. Len(s) + 1
           /\ Append(s, e)[Len(s) + 1] = e /\ \A i \in DOMAIN s : Append(s, e)[i] = s[i]
<1>1. PICK S : s \in Seq(S)
  BY DEF IsSeq
<1> DEFINE T == S \cup {e}
<1>2. s \in Seq(T) /\ e \in T
  BY <1>1
<1> HIDE DEF T
<1>3. Append(s, e) \in Seq(T)
  BY <1>2
<1> QED BY <1>2, <1>3, AppendProperties DEF IsSeq

LEMMA NextStages ==
    /\ pc = "plan" => NextStage = "before"
    /\ pc = "before" => NextStage = "windows before"
    /\ pc = "windows before" => NextStage = "spawn"
    /\ pc = "spawn" => NextStage = "middle"
    /\ pc = "middle" => NextStage = "join"
    /\ pc = "join" => NextStage = "after"
    /\ pc = "after" => NextStage = "windows after"
    /\ pc = "windows after" => NextStage = "assemble"
<1>1. DOMAIN Order = 1 .. 9
  BY DEF Order
<1>2. ASSUME NEW k \in 1 .. 8, NEW m, m = k + 1, \A i \in 1 .. 9 : Order[i] = pc <=> i = k
      PROVE  NextStage = Order[m]
  <2>1. (CHOOSE i \in DOMAIN Order : Order[i] = pc) = k
    BY <1>1, <1>2
  <2>2. NextStage = Order[1 + k]
    BY <2>1, Zenon DEF NextStage
  <2>3. 1 + k = m
    BY <1>2
  <2> QED BY <2>2, <2>3
<1>3. /\ Order[1] = "plan" /\ Order[2] = "before" /\ Order[3] = "windows before" /\ Order[4] = "spawn"
      /\ Order[5] = "middle" /\ Order[6] = "join" /\ Order[7] = "after" /\ Order[8] = "windows after"
      /\ Order[9] = "assemble"
  BY DEF Order
<1>4. \A i \in 1 .. 9 : i = 1 \/ i = 2 \/ i = 3 \/ i = 4 \/ i = 5 \/ i = 6 \/ i = 7 \/ i = 8 \/ i = 9
  OBVIOUS
<1>5. pc = "plan" => NextStage = "before"
  <2>1. /\ Order[2] # "plan" /\ Order[3] # "plan" /\ Order[4] # "plan" /\ Order[5] # "plan"
        /\ Order[6] # "plan" /\ Order[7] # "plan" /\ Order[8] # "plan" /\ Order[9] # "plan"
    BY <1>3
  <2>2. ASSUME NEW i \in 1 .. 9 PROVE Order[i] = "plan" <=> i = 1
    BY <1>3, <1>4, <2>1
  <2>3. 1 \in 1 .. 8 /\ 2 = 1 + 1
    OBVIOUS
  <2>4. Order[2] = "before"
    BY <1>3
  <2> QED BY <1>2, <2>2, <2>3, <2>4
<1>6. pc = "before" => NextStage = "windows before"
  <2>1. /\ Order[1] # "before" /\ Order[3] # "before" /\ Order[4] # "before" /\ Order[5] # "before"
        /\ Order[6] # "before" /\ Order[7] # "before" /\ Order[8] # "before" /\ Order[9] # "before"
    BY <1>3
  <2>2. ASSUME NEW i \in 1 .. 9 PROVE Order[i] = "before" <=> i = 2
    BY <1>3, <1>4, <2>1
  <2>3. 2 \in 1 .. 8 /\ 3 = 2 + 1
    OBVIOUS
  <2>4. Order[3] = "windows before"
    BY <1>3
  <2> QED BY <1>2, <2>2, <2>3, <2>4
<1>7. pc = "windows before" => NextStage = "spawn"
  <2>1. /\ Order[1] # "windows before" /\ Order[2] # "windows before" /\ Order[4] # "windows before" /\ Order[5] # "windows before"
        /\ Order[6] # "windows before" /\ Order[7] # "windows before" /\ Order[8] # "windows before" /\ Order[9] # "windows before"
    BY <1>3
  <2>2. ASSUME NEW i \in 1 .. 9 PROVE Order[i] = "windows before" <=> i = 3
    BY <1>3, <1>4, <2>1
  <2>3. 3 \in 1 .. 8 /\ 4 = 3 + 1
    OBVIOUS
  <2>4. Order[4] = "spawn"
    BY <1>3
  <2> QED BY <1>2, <2>2, <2>3, <2>4
<1>8. pc = "spawn" => NextStage = "middle"
  <2>1. /\ Order[1] # "spawn" /\ Order[2] # "spawn" /\ Order[3] # "spawn" /\ Order[5] # "spawn"
        /\ Order[6] # "spawn" /\ Order[7] # "spawn" /\ Order[8] # "spawn" /\ Order[9] # "spawn"
    BY <1>3
  <2>2. ASSUME NEW i \in 1 .. 9 PROVE Order[i] = "spawn" <=> i = 4
    BY <1>3, <1>4, <2>1
  <2>3. 4 \in 1 .. 8 /\ 5 = 4 + 1
    OBVIOUS
  <2>4. Order[5] = "middle"
    BY <1>3
  <2> QED BY <1>2, <2>2, <2>3, <2>4
<1>9. pc = "middle" => NextStage = "join"
  <2>1. /\ Order[1] # "middle" /\ Order[2] # "middle" /\ Order[3] # "middle" /\ Order[4] # "middle"
        /\ Order[6] # "middle" /\ Order[7] # "middle" /\ Order[8] # "middle" /\ Order[9] # "middle"
    BY <1>3
  <2>2. ASSUME NEW i \in 1 .. 9 PROVE Order[i] = "middle" <=> i = 5
    BY <1>3, <1>4, <2>1
  <2>3. 5 \in 1 .. 8 /\ 6 = 5 + 1
    OBVIOUS
  <2>4. Order[6] = "join"
    BY <1>3
  <2> QED BY <1>2, <2>2, <2>3, <2>4
<1>10. pc = "join" => NextStage = "after"
  <2>1. /\ Order[1] # "join" /\ Order[2] # "join" /\ Order[3] # "join" /\ Order[4] # "join"
        /\ Order[5] # "join" /\ Order[7] # "join" /\ Order[8] # "join" /\ Order[9] # "join"
    BY <1>3
  <2>2. ASSUME NEW i \in 1 .. 9 PROVE Order[i] = "join" <=> i = 6
    BY <1>3, <1>4, <2>1
  <2>3. 6 \in 1 .. 8 /\ 7 = 6 + 1
    OBVIOUS
  <2>4. Order[7] = "after"
    BY <1>3
  <2> QED BY <1>2, <2>2, <2>3, <2>4
<1>11. pc = "after" => NextStage = "windows after"
  <2>1. /\ Order[1] # "after" /\ Order[2] # "after" /\ Order[3] # "after" /\ Order[4] # "after"
        /\ Order[5] # "after" /\ Order[6] # "after" /\ Order[8] # "after" /\ Order[9] # "after"
    BY <1>3
  <2>2. ASSUME NEW i \in 1 .. 9 PROVE Order[i] = "after" <=> i = 7
    BY <1>3, <1>4, <2>1
  <2>3. 7 \in 1 .. 8 /\ 8 = 7 + 1
    OBVIOUS
  <2>4. Order[8] = "windows after"
    BY <1>3
  <2> QED BY <1>2, <2>2, <2>3, <2>4, ZenonT(40)
<1>12. pc = "windows after" => NextStage = "assemble"
  <2>1. /\ Order[1] # "windows after" /\ Order[2] # "windows after" /\ Order[3] # "windows after" /\ Order[4] # "windows after"
        /\ Order[5] # "windows after" /\ Order[6] # "windows after" /\ Order[7] # "windows after" /\ Order[9] # "windows after"
    BY <1>3
  <2>2. ASSUME NEW i \in 1 .. 9 PROVE Order[i] = "windows after" <=> i = 8
    BY <1>3, <1>4, <2>1
  <2>3. 8 \in 1 .. 8 /\ 9 = 8 + 1
    OBVIOUS
  <2>4. Order[9] = "assemble"
    BY <1>3
  <2> QED BY <1>2, <2>2, <2>3, <2>4
<1> QED BY <1>5, <1>6, <1>7, <1>8, <1>9, <1>10, <1>11, <1>12

\* A plan samples its primary distribution as such.
LEMMA NativePlanIs ==
    ASSUME NEW name, NEW wslOnly, NEW default, NEW listing, NEW native,
           platform = "wsl" => name # Absent /\ name[1] = Here,
           native = NativePlan(name, wslOnly, default, listing), native # Absent
    PROVE  PlanIs(native)
<1>1. CASE platform = "wsl"
  BY <1>1 DEF NativePlan, WslPlan, NewPlan, PlanIs
<1>2. CASE platform # "wsl"
  <2>1. native = WindowsPlan(name, default, wslOnly, listing)
    BY <1>2 DEF NativePlan
  <2>2. PICK primary, additional, warned :
            primary # Absent /\ native = NewPlan(primary[1], primary, additional, wslOnly, warned)
    BY <2>1 DEF WindowsPlan
  <2> QED BY <2>2 DEF NewPlan, PlanIs
<1> QED BY <1>1, <1>2

LEMMA NothingPublished == published' = Absent => TotalsWhole'
BY DEF TotalsWhole, TotalsComplete, DockerIncludesBuilds

\* Steps that change nothing of the plan and of the captures.
LEMMA CapturesKept ==
    ASSUME ControlInv, CaptureInv, CapturesInv, ListingsInv,
           UNCHANGED <<platform, plan, capture, listings, captures, config>>,
           pc' \in Stages, pc' = "plan" => pc = "plan",
           pc' \notin {"plan", "failed"} => pc \notin {"plan", "failed"},
           pc' \in {"plan", "before"} => Len(captures) = 0,
           pc' \in {"windows before", "spawn", "middle"} => Len(captures) = 1,
           pc' \in {"join", "after"} => Len(captures) = 2,
           pc' \in {"windows after", "assemble", "published"} => Len(captures) = 3,
           capture.number = Len(captures) \/ pc' \in {"before", "middle", "after"}
    PROVE  ControlInv' /\ CaptureInv' /\ CapturesInv' /\ ListingsInv'
<1>1. ControlInv'
  BY DEF ControlInv
<1>2. CaptureInv'
  BY DEF CaptureInv
<1>3. CapturesInv' /\ ListingsInv'
  BY DEF CapturesInv, ListingsInv, Covered
<1> QED BY <1>1, <1>2, <1>3

LEMMA PlanKeeps == SampleInv /\ Plan => SampleInv'
<1> SUFFICES ASSUME SampleInv, Plan PROVE SampleInv'
  OBVIOUS
<1>1. /\ pc = "plan" /\ pc' = IF plan' = Absent THEN "failed" ELSE NextStage
      /\ UNCHANGED <<config, captures, cpus, collectorCpus, windows, worker, published>>
      /\ UNCHANGED <<platform, capture, listings>>
      /\ plan' = Absent \/ PlanIs(plan')
  <2>1. \E native : /\ native = Absent \/ PlanIs(native)
                    /\ plan' = native
    BY NativePlanIs DEF Plan, MakePlan, SampleInv, ControlInv
  <2> QED BY <2>1 DEF Plan, MakePlan
<1>2. pc' = "failed" \/ (pc' = "before" /\ PlanIs(plan'))
  BY <1>1, NextStages
<1>3. /\ Len(captures) = 0 /\ captures' = captures /\ listings = <<>> /\ listings' = listings
      /\ capture' = capture /\ capture.number = 0 /\ capture.at = "ended"
      /\ DOMAIN captures = {} /\ DOMAIN listings = {}
  <2>1. Len(captures) = 0 /\ IsSeq(captures) /\ listings = <<>> /\ capture.number = 0 /\ capture.at = "ended"
    BY <1>1 DEF SampleInv, ControlInv, CaptureInv
  <2>2. DOMAIN captures = 1 .. 0
    BY <2>1, SeqAppend
  <2> QED BY <1>1, <2>1, <2>2
<1>4. ControlInv'
  BY <1>1, <1>2, <1>3 DEF SampleInv, ControlInv, Stages
<1>5. CaptureInv' /\ CapturesInv' /\ ListingsInv'
  BY <1>3 DEF SampleInv, CaptureInv, CapturesInv, ListingsInv
<1>6. WorkersInv' /\ CpusInv'
  BY <1>1, <1>2 DEF SampleInv, WorkersInv, CpusInv
<1>7. PublishedInv'
  BY <1>1, NothingPublished DEF SampleInv, PublishedInv
<1> QED BY <1>4, <1>5, <1>6, <1>7 DEF SampleInv

\* What the steps of a capture have in common.
LEMMA CaptureSteps ==
    ASSUME SampleInv, pc \in {"before", "middle", "after"},
           UNCHANGED <<platform, captures, pc, config, cpus, collectorCpus, windows, worker, published>>,
           IsSeq(listings'), PlanIs(plan'), CaptureInv', CapturesInv', ListingsInv'
    PROVE  SampleInv'
<1>1. ControlInv' /\ WorkersInv' /\ CpusInv'
  BY DEF SampleInv, ControlInv, WorkersInv, CpusInv
<1>2. PublishedInv'
  BY NothingPublished DEF SampleInv, PublishedInv
<1> QED BY <1>1, <1>2 DEF SampleInv

LEMMA BeginKeeps ==
    ASSUME SampleInv, pc \in {"before", "middle", "after"}, capture.number = Len(captures), BeginCapture,
           UNCHANGED <<platform, running, changes, faults, plan, listings, captures, pc>>,
           UNCHANGED <<config, cpus, collectorCpus, windows, worker, published>>
    PROVE  SampleInv'
<1>1. /\ Len(captures) \in Nat /\ PlanIs(plan) /\ IsSeq(listings)
      /\ capture' = [number |-> Len(captures) + 1, at |-> "primary", todo |-> {},
                     result |-> [primary |-> Absent, additional |-> {}, warned |-> plan.warned]]
  BY SeqAppend DEF SampleInv, ControlInv, BeginCapture
<1>2. ResultIs(capture'.result, capture'.number, plan.samples)
  BY <1>1, FS_EmptySet DEF ResultIs
<1>3. CaptureInv'
  BY <1>1, <1>2 DEF CaptureInv
<1>4. CapturesInv'
  BY DEF SampleInv, CapturesInv
<1>5. ListingsInv'
  BY <1>1 DEF SampleInv, ListingsInv, Covered, CaptureInv
<1> QED BY <1>1, <1>3, <1>4, <1>5, CaptureSteps

\* The rest of the state in a step of a capture.
Beside == UNCHANGED <<platform, captures, pc, config, cpus, collectorCpus, windows, worker, published>>

\* What holds before a step of a capture.
LEMMA InCapture ==
    ASSUME SampleInv, capture.at # "ended"
    PROVE  /\ Len(captures) \in Nat /\ capture.number = Len(captures) + 1 /\ capture.number > Len(captures)
           /\ pc \in {"before", "middle", "after"} /\ PlanIs(plan) /\ IsSeq(listings)
           /\ ResultIs(capture.result, capture.number, plan.samples)
           /\ capture = [number |-> capture.number, at |-> capture.at, todo |-> capture.todo, result |-> capture.result]
<1>1. capture.number # Len(captures)
  BY DEF SampleInv, CaptureInv
<1>2. Len(captures) \in Nat /\ capture.number = Len(captures) + 1 /\ pc \in {"before", "middle", "after"}
  BY <1>1, SeqAppend DEF SampleInv, ControlInv, CaptureInv
<1>3. PlanIs(plan) /\ IsSeq(listings)
  BY <1>2 DEF SampleInv, ControlInv
<1> QED BY <1>2, <1>3 DEF SampleInv, CaptureInv

LEMMA PrimaryKeeps == SampleInv /\ CapturePrimary /\ Beside => SampleInv'
<1> SUFFICES ASSUME SampleInv, CapturePrimary, Beside PROVE SampleInv'
  OBVIOUS
<1> DEFINE r == capture.result
<1>1. /\ Len(captures) \in Nat /\ capture.number = Len(captures) + 1 /\ capture.number > Len(captures)
      /\ pc \in {"before", "middle", "after"} /\ PlanIs(plan) /\ IsSeq(listings)
      /\ ResultIs(r, capture.number, plan.samples)
      /\ capture = [number |-> capture.number, at |-> capture.at, todo |-> capture.todo, result |-> r]
  BY InCapture DEF CapturePrimary, Capturing
<1>2. UNCHANGED <<plan, listings, captures, pc>> /\ capture.at = "primary"
  BY DEF CapturePrimary, Beside, Capturing
<1>3. CapturesInv'
  BY <1>2 DEF SampleInv, CapturesInv
<1>4. ASSUME capture' = [capture EXCEPT !.at = "ended", !.result = Unknown]
      PROVE  SampleInv'
  <2>1. capture' = [number |-> capture.number, at |-> "ended", todo |-> capture.todo, result |-> Unknown]
    BY <1>1, <1>4
  <2>2. CaptureInv'
    BY <1>1, <1>2, <2>1 DEF CaptureInv
  <2>3. ListingsInv'
    BY <1>1, <1>2, <2>1 DEF SampleInv, ListingsInv, Covered, CoveredBy
  <2> QED BY <1>1, <1>2, <1>3, <2>2, <2>3, CaptureSteps DEF Beside
<1>5. ASSUME capture' = [capture EXCEPT !.at = "discover", !.result.primary = Taken(plan.samples, NoSource)]
      PROVE  SampleInv'
  <2> DEFINE q == [primary |-> Taken(plan.samples, NoSource), additional |-> r.additional, warned |-> r.warned]
  <2>1. [r EXCEPT !.primary = Taken(plan.samples, NoSource)] = q
    BY <1>1 DEF ResultIs
  <2>2. capture' = [number |-> capture.number, at |-> "discover", todo |-> capture.todo, result |-> q]
    BY <1>1, <1>5, <2>1
  <2>3. ResultIs(q, capture.number, plan.samples) /\ HasPrimary(q, capture.number, plan.samples)
    BY <1>1 DEF ResultIs, HasPrimary, Taken
  <2>4. q.warned = r.warned /\ CapturedIn(q) = CapturedIn(r) /\ q.additional = {}
    BY <1>2 DEF CapturedIn, SampleInv, CaptureInv
  <2>5. CaptureInv'
    <3> HIDE DEF q
    <3> QED BY <1>1, <1>2, <2>2, <2>3, <2>4 DEF CaptureInv
  <2>6. ListingsInv'
    <3> HIDE DEF q
    <3> QED BY <1>1, <1>2, <2>2, <2>4 DEF SampleInv, ListingsInv, Covered
  <2> QED BY <1>1, <1>2, <1>3, <2>5, <2>6, CaptureSteps DEF Beside
<1> QED BY <1>4, <1>5 DEF CapturePrimary

LEMMA DiscoverKeeps == SampleInv /\ Discover /\ Beside => SampleInv'
<1> SUFFICES ASSUME SampleInv, Discover, Beside PROVE SampleInv'
  OBVIOUS
<1> DEFINE r == capture.result
           names == IF plan.enabled THEN Listing ELSE {}
<1>1. /\ Len(captures) \in Nat /\ capture.number = Len(captures) + 1 /\ capture.number > Len(captures)
      /\ pc \in {"before", "middle", "after"} /\ PlanIs(plan) /\ IsSeq(listings)
      /\ ResultIs(r, capture.number, plan.samples)
      /\ capture = [number |-> capture.number, at |-> capture.at, todo |-> capture.todo, result |-> r]
  BY InCapture DEF Discover, Capturing
<1>2. UNCHANGED <<plan, captures, pc>> /\ capture.at = "discover"
      /\ HasPrimary(r, capture.number, plan.samples)
  BY DEF Discover, Beside, Capturing, SampleInv, CaptureInv
<1>3. CapturesInv'
  BY <1>2 DEF SampleInv, CapturesInv
<1>4. ASSUME NEW more PROVE LET q == [r EXCEPT !.warned = @ \cup more]
                            IN  /\ ResultIs(q, capture.number, plan.samples)
                                /\ HasPrimary(q, capture.number, plan.samples)
                                /\ CapturedIn(q) = CapturedIn(r) /\ q.warned = r.warned \cup more
  <2> DEFINE q == [primary |-> r.primary, additional |-> r.additional, warned |-> r.warned \cup more]
  <2>1. [r EXCEPT !.warned = @ \cup more] = q
    <3>1. PICK w : w = r.warned \cup more
      OBVIOUS
    <3>2. [r EXCEPT !.warned = w] = [primary |-> r.primary, additional |-> r.additional, warned |-> w]
      BY <1>1 DEF ResultIs
    <3> QED BY <3>1, <3>2
  <2>2. /\ ResultIs(q, capture.number, plan.samples)
        /\ HasPrimary(q, capture.number, plan.samples)
        /\ CapturedIn(q) = CapturedIn(r) /\ q.warned = r.warned \cup more
    BY <1>1, <1>2 DEF ResultIs, HasPrimary, CapturedIn
  <2> QED BY <2>1, <2>2
<1>5. ASSUME listings' = IF plan.enabled THEN Append(listings, running) ELSE listings,
             capture' = [capture EXCEPT !.at = "visit", !.result.warned = @ \cup Gone(names),
                                        !.todo = Others(plan.primary, names)]
      PROVE  SampleInv'
  <2>1. PICK q : q = [r EXCEPT !.warned = @ \cup Gone(names)]
    OBVIOUS
  <2>2. /\ ResultIs(q, capture.number, plan.samples) /\ HasPrimary(q, capture.number, plan.samples)
        /\ CapturedIn(q) = CapturedIn(r) /\ q.warned = r.warned \cup Gone(names)
    BY <1>4, <2>1
  <2>3. capture' = [number |-> capture.number, at |-> "visit", todo |-> Others(plan.primary, names), result |-> q]
    BY <1>1, <1>5, <2>1
  <2>4. CapturedIn(q) = {}
    BY <1>2, <2>2 DEF SampleInv, CaptureInv, CapturedIn
  <2>5. CaptureInv'
    <3>1. ASSUME NEW n \in Others(plan.primary, names)
          PROVE  n = Listed(n[1]) /\ n[1] # plan.samples
      BY <1>1, <3>1 DEF Others, IsPrimary, SameName, PlanIs, Listing, Listed
    <3> HIDE DEF r, names
    <3> QED BY <1>1, <1>2, <2>2, <2>3, <2>4, <3>1 DEF CaptureInv
  <2>6. ListingsInv'
    <3>1. ASSUME NEW d, Covered(d) PROVE Covered(d)'
      BY <1>1, <1>2, <2>2, <2>3, <2>4, <3>1 DEF Covered, SampleInv, CaptureInv, CapturedIn
    <3>2. ASSUME NEW d \in running, plan.enabled PROVE Covered(d)'
      <4>1. Listed(d) \in names
        BY <3>2 DEF Listing
      <4>2. d = plan.samples \/ Listed(d) \in Others(plan.primary, names)
        BY <1>1, <4>1 DEF Others, IsPrimary, SameName, PlanIs, Listed
      <4> QED BY <1>1, <1>2, <2>3, <4>2 DEF Covered
    <3>3. ASSUME NEW k \in DOMAIN listings' PROVE \A d \in listings'[k] : Covered(d)'
      <4>1. CASE k \in DOMAIN listings /\ listings'[k] = listings[k]
        BY <3>1, <4>1 DEF SampleInv, ListingsInv
      <4>2. CASE plan.enabled /\ listings'[k] = running
        BY <3>2, <4>2
      <4> QED BY <1>1, <1>5, <3>3, <4>1, <4>2, SeqAppend
    <3> QED BY <3>3 DEF ListingsInv
  <2>7. IsSeq(listings')
    BY <1>1, <1>5, SeqAppend
  <2> QED BY <1>1, <1>2, <1>3, <2>5, <2>6, <2>7, CaptureSteps DEF Beside
<1>6. ASSUME listings' = listings,
             capture' = [capture EXCEPT !.at = "ended", !.result.warned = @ \cup {"additional discovery"}]
      PROVE  SampleInv'
  <2>1. PICK q : q = [r EXCEPT !.warned = @ \cup {"additional discovery"}]
    OBVIOUS
  <2>2. /\ ResultIs(q, capture.number, plan.samples) /\ HasPrimary(q, capture.number, plan.samples)
        /\ q.warned # {}
    BY <1>4, <2>1
  <2>3. capture' = [number |-> capture.number, at |-> "ended", todo |-> capture.todo, result |-> q]
    BY <1>1, <1>6, <2>1
  <2>4. CaptureInv'
    BY <1>1, <1>2, <2>2, <2>3 DEF CaptureInv
  <2>5. ListingsInv'
    <3>1. capture'.number > Len(captures') /\ capture'.at = "ended" /\ \A d : CoveredBy(d, capture'.result)
      BY <1>1, <1>2, <2>2, <2>3 DEF CoveredBy
    <3> QED BY <3>1 DEF ListingsInv, Covered
  <2> QED BY <1>1, <1>2, <1>3, <1>6, <2>4, <2>5, CaptureSteps DEF Beside
<1> QED BY <1>5, <1>6 DEF Discover

\* The collector of a name is one of its distribution.
LEMMA KnownCollector ==
    ASSUME NEW name,
           NEW known, known = IF Collectors(name) # {} THEN CHOOSE n \in Collectors(name) : TRUE ELSE name
    PROVE  known[1] = name[1]
BY DEF Collectors, SameName

LEMMA VisitKeepsCapture ==
    ASSUME SampleInv, NEW name \in capture.todo, Visit(name), Beside
    PROVE  SampleInv'
<1> DEFINE r == capture.result
<1>1. /\ Len(captures) \in Nat /\ capture.number = Len(captures) + 1 /\ capture.number > Len(captures)
      /\ pc \in {"before", "middle", "after"} /\ PlanIs(plan) /\ IsSeq(listings)
      /\ ResultIs(r, capture.number, plan.samples)
      /\ capture = [number |-> capture.number, at |-> capture.at, todo |-> capture.todo, result |-> r]
  BY InCapture DEF Visit, Capturing
<1>2. UNCHANGED <<listings, captures, pc>> /\ capture.at = "visit"
      /\ HasPrimary(r, capture.number, plan.samples)
      /\ \A n \in capture.todo : n = Listed(n[1]) /\ n[1] # plan.samples /\ n[1] \notin CapturedIn(r)
  BY DEF Visit, Beside, Capturing, SampleInv, CaptureInv
<1>3. PlanIs(plan') /\ plan'.samples = plan.samples
  <2>1. plan' = plan \/ \E more : plan' = [plan EXCEPT !.additional = more]
    BY DEF Visit
  <2> QED BY <1>1, <2>1 DEF PlanIs
<1>4. CapturesInv'
  BY <1>2, <1>3 DEF SampleInv, CapturesInv
<1>5. PICK known : known = IF Collectors(name) # {} THEN CHOOSE n \in Collectors(name) : TRUE ELSE name
  OBVIOUS
<1>6. known[1] = name[1]
  BY <1>5, KnownCollector
\* The distribution of the name is no longer to be visited, because it was or failed.
<1>7. ASSUME NEW q, ResultIs(q, capture.number, plan.samples), HasPrimary(q, capture.number, plan.samples),
             CapturedIn(r) \subseteq CapturedIn(q), CapturedIn(q) \subseteq CapturedIn(r) \cup {name[1]},
             r.warned \subseteq q.warned, q.warned # {} \/ name[1] \in CapturedIn(q),
             capture' = [[capture EXCEPT !.todo = @ \ {name}] EXCEPT !.result = q]
      PROVE  SampleInv'
  <2>1. capture' = [number |-> capture.number, at |-> "visit", todo |-> capture.todo \ {name}, result |-> q]
    BY <1>1, <1>2, <1>7
  <2>2. CaptureInv'
    <3>1. ASSUME NEW n \in capture.todo \ {name} PROVE n[1] \notin CapturedIn(q)
      BY <1>2, <1>7, <3>1
    <3>2. /\ capture'.number = capture.number /\ capture'.at = "visit"
          /\ capture'.todo = capture.todo \ {name} /\ capture'.result = q
      BY <2>1
    <3>3. capture' = [number |-> capture'.number, at |-> capture'.at, todo |-> capture'.todo, result |-> capture'.result]
      BY <2>1, <3>2
    <3>4. ResultIs(capture'.result, capture'.number, plan'.samples)
      BY <1>3, <1>7, <3>2
    <3>5. HasPrimary(capture'.result, capture'.number, plan'.samples)
      BY <1>3, <1>7, <3>2
    <3>6. \A n \in capture'.todo :
              n = Listed(n[1]) /\ n[1] # plan'.samples /\ n[1] \notin CapturedIn(capture'.result)
      BY <1>2, <1>3, <3>1, <3>2
    <3>7. capture'.number # Len(captures') /\ capture'.number = Len(captures') + 1 /\ pc' \in {"before", "middle", "after"}
      BY <1>1, <1>2, <3>2
    <3> HIDE DEF r
    <3> QED BY <3>2, <3>3, <3>4, <3>5, <3>6, <3>7 DEF CaptureInv
  <2>3. ASSUME NEW d, Covered(d) PROVE Covered(d)'
    <3>1. CASE Listed(d) = name
      <4>1. d = name[1]
        BY <3>1 DEF Listed
      <4> QED BY <1>1, <1>2, <1>7, <2>1, <4>1 DEF Covered
    <3>2. CASE Listed(d) # name
      BY <1>1, <1>2, <1>3, <1>7, <2>1, <2>3, <3>2 DEF Covered
    <3> QED BY <3>1, <3>2
  <2>4. ListingsInv'
    BY <1>2, <2>3 DEF SampleInv, ListingsInv
  <2> QED BY <1>1, <1>2, <1>3, <1>4, <2>2, <2>4, CaptureSteps DEF Beside
<1>8. ASSUME capture' = [[capture EXCEPT !.todo = @ \ {name}]
                            EXCEPT !.result.additional = @ \cup {<<known, Taken(known[1], <<known[1]>>)>>}]
      PROVE  SampleInv'
  <2>1. PICK e : e = <<known, Taken(known[1], <<known[1]>>)>>
    OBVIOUS
  <2>2. PICK more : more = r.additional \cup {e}
    OBVIOUS
  <2>3. PICK q : q = [primary |-> r.primary, additional |-> more, warned |-> r.warned]
    OBVIOUS
  <2>4. [r EXCEPT !.additional = more] = q
    BY <1>1, <2>3 DEF ResultIs
  <2>5. capture' = [[capture EXCEPT !.todo = @ \ {name}] EXCEPT !.result = q]
    BY <1>1, <1>8, <2>1, <2>2, <2>4
  <2>6. e[1][1] = name[1] /\ name[1] # plan.samples /\ name[1] \notin CapturedIn(r)
        /\ e = <<e[1], [distro |-> e[1][1], source |-> <<e[1][1]>>, at |-> capture.number]>>
    BY <1>2, <1>6, <2>1 DEF Taken
  <2>7. q.primary = r.primary /\ q.additional = more /\ q.warned = r.warned
        /\ q = [primary |-> q.primary, additional |-> q.additional, warned |-> q.warned]
    BY <2>3
  <2>8. ResultIs(q, capture.number, plan.samples)
    <3>1. IsFiniteSet(more)
      BY <1>1, <2>2, FS_AddElement DEF ResultIs
    <3>2. ASSUME NEW f \in more
          PROVE  f = <<f[1], [distro |-> f[1][1], source |-> <<f[1][1]>>, at |-> capture.number]>> /\ f[1][1] # plan.samples
      BY <1>1, <2>2, <2>6 DEF ResultIs
    <3>3. ASSUME NEW f \in more, NEW g \in more, f # g PROVE f[1][1] # g[1][1]
      BY <1>1, <2>2, <2>6, <3>3 DEF ResultIs, CapturedIn
    <3> QED BY <2>7, <3>1, <3>2, <3>3 DEF ResultIs
  <2>9. HasPrimary(q, capture.number, plan.samples)
    BY <1>2, <2>7 DEF HasPrimary
  <2>10. CapturedIn(q) = CapturedIn(r) \cup {name[1]}
    BY <2>2, <2>6, <2>7 DEF CapturedIn
  <2> HIDE DEF r
  <2> QED BY <1>7, <2>5, <2>7, <2>8, <2>9, <2>10
<1>9. ASSUME capture' = [[capture EXCEPT !.todo = @ \ {name}] EXCEPT !.result.warned = @ \cup {<<"failed", known>>}]
      PROVE  SampleInv'
  <2>1. PICK more : more = r.warned \cup {<<"failed", known>>}
    OBVIOUS
  <2>2. PICK q : q = [primary |-> r.primary, additional |-> r.additional, warned |-> more]
    OBVIOUS
  <2>3. [r EXCEPT !.warned = more] = q
    BY <1>1, <2>2 DEF ResultIs
  <2>4. capture' = [[capture EXCEPT !.todo = @ \ {name}] EXCEPT !.result = q]
    BY <1>1, <1>9, <2>1, <2>3
  <2>5. q.primary = r.primary /\ q.additional = r.additional /\ q.warned = more
        /\ q = [primary |-> q.primary, additional |-> q.additional, warned |-> q.warned]
    BY <2>2
  <2>6. ResultIs(q, capture.number, plan.samples)
    BY <1>1, <2>5 DEF ResultIs
  <2>7. HasPrimary(q, capture.number, plan.samples)
    BY <1>2, <2>5 DEF HasPrimary
  <2>8. CapturedIn(q) = CapturedIn(r) /\ r.warned \subseteq q.warned /\ q.warned # {}
    BY <2>1, <2>5 DEF CapturedIn
  <2> HIDE DEF r
  <2> QED BY <1>7, <2>4, <2>6, <2>7, <2>8
<1> QED BY <1>5, <1>8, <1>9 DEF Visit

LEMMA EndKeeps == SampleInv /\ EndCapture /\ Beside => SampleInv'
<1> SUFFICES ASSUME SampleInv, EndCapture, Beside PROVE SampleInv'
  OBVIOUS
<1>1. /\ Len(captures) \in Nat /\ capture.number = Len(captures) + 1 /\ capture.number > Len(captures)
      /\ pc \in {"before", "middle", "after"} /\ PlanIs(plan) /\ IsSeq(listings)
      /\ ResultIs(capture.result, capture.number, plan.samples)
      /\ capture = [number |-> capture.number, at |-> capture.at, todo |-> capture.todo, result |-> capture.result]
  BY InCapture DEF EndCapture, Capturing
<1>2. /\ UNCHANGED <<plan, listings, captures, pc>> /\ capture.at = "visit" /\ capture.todo = {}
      /\ HasPrimary(capture.result, capture.number, plan.samples)
      /\ capture' = [capture EXCEPT !.at = "ended"]
  BY DEF EndCapture, Capturing, Beside, SampleInv, CaptureInv
<1>3. capture' = [number |-> capture.number, at |-> "ended", todo |-> capture.todo, result |-> capture.result]
  BY <1>1, <1>2
<1>4. CapturesInv'
  BY <1>2 DEF SampleInv, CapturesInv
<1>5. CaptureInv'
  BY <1>1, <1>2, <1>3 DEF CaptureInv
<1>6. ListingsInv'
  BY <1>1, <1>2, <1>3 DEF SampleInv, ListingsInv, Covered, CoveredBy
<1> QED BY <1>1, <1>2, <1>4, <1>5, <1>6, CaptureSteps DEF Beside
LEMMA AppendKeeps ==
    ASSUME SampleInv, pc \in {"before", "middle", "after"},
           capture.number > Len(captures), capture.at = "ended",
           captures' = Append(captures, capture.result),
           pc' = IF capture.result = Unknown /\ pc # "middle" THEN "failed" ELSE NextStage,
           UNCHANGED <<planVars, config, cpus, collectorCpus, windows, worker, published>>
    PROVE  SampleInv'
<1>1. /\ Len(captures) \in Nat /\ capture.number = Len(captures) + 1 /\ PlanIs(plan) /\ IsSeq(captures)
      /\ UNCHANGED <<platform, plan, capture, listings>>
  <2>1. IsSeq(captures) /\ PlanIs(plan)
    BY DEF SampleInv, ControlInv
  <2>2. Len(captures) \in Nat
    BY <2>1, SeqAppend
  <2>3. capture.number = Len(captures) + 1
    BY <2>2 DEF SampleInv, CaptureInv
  <2> QED BY <2>1, <2>2, <2>3 DEF planVars
<1>2. /\ IsSeq(captures') /\ Len(captures') = Len(captures) + 1
      /\ DOMAIN captures = 1 .. Len(captures) /\ DOMAIN captures' = 1 .. Len(captures) + 1
      /\ captures'[Len(captures) + 1] = capture.result /\ \A i \in DOMAIN captures : captures'[i] = captures[i]
  BY <1>1, SeqAppend
<1>3. ControlInv'
  <2>1. pc' = "failed" \/ (pc = "before" /\ pc' = "windows before") \/ (pc = "middle" /\ pc' = "join")
        \/ (pc = "after" /\ pc' = "windows after")
    BY NextStages
  <2>2. /\ pc = "before" => Len(captures') = 1
        /\ pc = "middle" => Len(captures') = 2
        /\ pc = "after" => Len(captures') = 3
    <3>1. /\ pc = "before" => Len(captures) = 0
          /\ pc = "middle" => Len(captures) = 1
          /\ pc = "after" => Len(captures) = 2
      BY DEF SampleInv, ControlInv
    <3>2. PICK n : n = Len(captures')
      OBVIOUS
    <3>3. n = Len(captures) + 1
      BY <1>2, <3>2
    <3>4. PICK m : m = Len(captures)
      OBVIOUS
    <3>5. n = m + 1 /\ (pc = "before" => m = 0) /\ (pc = "middle" => m = 1) /\ (pc = "after" => m = 2)
      BY <3>1, <3>3, <3>4
    <3>6. (pc = "before" => n = 1) /\ (pc = "middle" => n = 2) /\ (pc = "after" => n = 3)
      BY <3>5
    <3> QED BY <3>2, <3>6
  <2>3. IsSeq(listings') /\ platform' \in {"wsl", "windows"}
        /\ (platform' = "wsl" => config'.name # Absent /\ config'.name[1] = Here)
    BY <1>1 DEF SampleInv, ControlInv
  <2> QED BY <1>1, <1>2, <2>1, <2>2, <2>3 DEF ControlInv, Stages
<1>4. CaptureInv'
  BY <1>1, <1>2 DEF SampleInv, CaptureInv
<1>5. CapturesInv'
  <2>1. capture.result # Unknown => /\ ResultIs(capture.result, Len(captures) + 1, plan.samples)
                                    /\ HasPrimary(capture.result, Len(captures) + 1, plan.samples)
    BY <1>1 DEF SampleInv, CaptureInv
  <2>2. ASSUME NEW i \in DOMAIN captures', captures'[i] # Unknown
        PROVE  ResultIs(captures'[i], i, plan.samples) /\ HasPrimary(captures'[i], i, plan.samples)
    <3>1. CASE i \in DOMAIN captures
      BY <1>2, <2>2, <3>1 DEF SampleInv, CapturesInv
    <3>2. CASE i = Len(captures) + 1
      BY <1>2, <2>1, <2>2, <3>2
    <3> QED BY <1>1, <1>2, <3>1, <3>2
  <2> QED BY <1>1, <2>2 DEF CapturesInv
<1>6. ListingsInv'
  <2>1. ASSUME NEW d, Covered(d) PROVE Covered(d)'
    <3>1. CASE d = plan.samples
      BY <1>1, <3>1 DEF Covered
    <3>2. ASSUME NEW i \in DOMAIN captures, CoveredBy(d, captures[i]) PROVE Covered(d)'
      BY <1>2, <3>2 DEF Covered
    <3>3. ASSUME CoveredBy(d, capture.result) PROVE Covered(d)'
      BY <1>1, <1>2, <3>3 DEF Covered
    <3> QED BY <2>1, <3>1, <3>2, <3>3 DEF Covered
  <2> QED BY <1>1, <2>1 DEF SampleInv, ListingsInv
<1>7. WorkersInv'
  BY <1>1, NextStages DEF SampleInv, WorkersInv
<1>8. CpusInv'
  BY <1>1, NextStages DEF SampleInv, CpusInv
<1>9. PublishedInv'
  BY NextStages, NothingPublished DEF SampleInv, PublishedInv
<1> QED BY <1>3, <1>4, <1>5, <1>6, <1>7, <1>8, <1>9 DEF SampleInv

LEMMA CaptureAllKeeps == SampleInv /\ CaptureAll => SampleInv'
<1> SUFFICES ASSUME SampleInv, CaptureAll PROVE SampleInv'
  OBVIOUS
<1>1. CASE capture.number = Len(captures) /\ BeginCapture
           /\ UNCHANGED <<platform, running, changes, faults, plan, listings, captures, pc>>
  BY <1>1, BeginKeeps DEF CaptureAll
<1>2. CASE CaptureStep /\ UNCHANGED <<captures, pc>>
  <2>1. Beside
    BY <1>2 DEF CaptureAll, Beside, CaptureStep, CapturePrimary, Discover, Visit, EndCapture
  <2> QED BY <1>2, <2>1, PrimaryKeeps, DiscoverKeeps, VisitKeepsCapture, EndKeeps DEF CaptureStep
<1>3. CASE /\ capture.number > Len(captures) /\ capture.at = "ended"
           /\ captures' = Append(captures, capture.result)
           /\ pc' = IF capture.result = Unknown /\ pc # "middle" THEN "failed" ELSE NextStage
           /\ UNCHANGED planVars
  BY <1>3, AppendKeeps DEF CaptureAll
<1> QED BY <1>1, <1>2, <1>3 DEF CaptureAll

-----------------------------------------------------------------------------
(* The other steps of the main thread, and those of its workers.            *)
(****************************************************************************)

LEMMA CountsAreKnown ==
    ASSUME NEW known \in {0} \cup CpuCounts, NEW counted \in Counted(known)
    PROVE  counted.count \in CpuCounts /\ Kept(known, counted) \in {0} \cup CpuCounts
BY DEF Counted, Kept

LEMMA WindowsBeforeKeeps == SampleInv /\ WindowsBefore => SampleInv'
<1> SUFFICES ASSUME SampleInv, WindowsBefore PROVE SampleInv'
  OBVIOUS
<1>1. /\ pc = "windows before" /\ pc' \in {"failed", "spawn"}
      /\ UNCHANGED <<platform, plan, capture, listings, captures, config, worker, published>>
  BY NextStages DEF WindowsBefore
<1>2. ControlInv' /\ CaptureInv' /\ CapturesInv' /\ ListingsInv'
  BY <1>1, CapturesKept DEF SampleInv, ControlInv, CaptureInv, Stages
<1>3. CpusInv'
  BY <1>1, CountsAreKnown DEF SampleInv, CpusInv, WindowsBefore
<1>4. WorkersInv' /\ PublishedInv'
  BY <1>1, NothingPublished DEF SampleInv, WorkersInv, PublishedInv
<1> QED BY <1>2, <1>3, <1>4 DEF SampleInv

LEMMA SpawnKeeps == SampleInv /\ Spawn => SampleInv'
<1> SUFFICES ASSUME SampleInv, Spawn PROVE SampleInv'
  OBVIOUS
<1>1. /\ pc = "spawn" /\ pc' = "middle"
      /\ UNCHANGED <<platform, plan, capture, listings, captures, config, cpus, collectorCpus, published>>
  BY NextStages DEF Spawn, planVars
<1>2. ControlInv' /\ CaptureInv' /\ CapturesInv' /\ ListingsInv'
  BY <1>1, CapturesKept DEF SampleInv, ControlInv, CaptureInv, Stages
<1>3. WorkersInv'
  <2>1. ASSUME NEW r \in Runtimes
        PROVE  worker'[r] = worker[r] \/ worker'[r] = [worker[r] EXCEPT !.at = "baseline"]
    BY DEF Spawn
  <2>2. ASSUME NEW r \in Runtimes
        PROVE  /\ worker'[r] = [at |-> worker'[r].at, probes |-> worker'[r].probes, result |-> worker'[r].result]
               /\ worker'[r].probes = worker[r].probes /\ worker'[r].at \in {"baseline", worker[r].at}
    <3>1. worker[r] = [at |-> worker[r].at, probes |-> worker[r].probes, result |-> worker[r].result]
      BY DEF SampleInv, WorkersInv
    <3> QED BY <2>1, <3>1
  <2>3. worker' = [r \in Runtimes |-> worker'[r]]
    BY DEF Spawn
  <2>4. worker' = [r \in Runtimes |-> [at |-> worker'[r].at, probes |-> worker'[r].probes, result |-> worker'[r].result]]
    BY <2>2, <2>3
  <2>5. \A r \in Runtimes : worker[r].at \in {"off", "baseline", "usage", "done", "panicked"}
                            /\ \A p \in worker[r].probes : p.at \in {1, 2}
    BY DEF SampleInv, WorkersInv
  <2> QED BY <1>1, <2>2, <2>4, <2>5 DEF WorkersInv
<1>4. CpusInv' /\ PublishedInv'
  BY <1>1, NothingPublished DEF SampleInv, CpusInv, PublishedInv
<1> QED BY <1>2, <1>3, <1>4 DEF SampleInv

LEMMA JoinKeeps == SampleInv /\ Join => SampleInv'
<1> SUFFICES ASSUME SampleInv, Join PROVE SampleInv'
  OBVIOUS
<1>1. /\ pc = "join" /\ pc' = "after" /\ \A r \in Runtimes : worker[r].at \in {"off", "done", "panicked"}
      /\ UNCHANGED <<platform, plan, capture, listings, captures, config, cpus, collectorCpus, worker, published>>
  BY NextStages DEF Join, planVars, Finished
<1>2. ControlInv' /\ CaptureInv' /\ CapturesInv' /\ ListingsInv'
  BY <1>1, CapturesKept DEF SampleInv, ControlInv, CaptureInv, Stages
<1>3. WorkersInv'
  BY <1>1 DEF SampleInv, WorkersInv
<1>4. CpusInv' /\ PublishedInv'
  BY <1>1, NothingPublished DEF SampleInv, CpusInv, PublishedInv
<1> QED BY <1>2, <1>3, <1>4 DEF SampleInv

LEMMA WindowsAfterKeeps == SampleInv /\ WindowsAfter => SampleInv'
<1> SUFFICES ASSUME SampleInv, WindowsAfter PROVE SampleInv'
  OBVIOUS
<1>1. /\ pc = "windows after" /\ pc' \in {"failed", "assemble"}
      /\ UNCHANGED <<platform, plan, capture, listings, captures, config, collectorCpus, worker, published>>
  BY NextStages DEF WindowsAfter
<1>2. ControlInv' /\ CaptureInv' /\ CapturesInv' /\ ListingsInv'
  BY <1>1, CapturesKept DEF SampleInv, ControlInv, CaptureInv, Stages
<1>3. CpusInv'
  BY <1>1, CountsAreKnown DEF SampleInv, CpusInv, WindowsAfter
<1>4. WorkersInv' /\ PublishedInv'
  BY <1>1, NothingPublished DEF SampleInv, WorkersInv, PublishedInv
<1> QED BY <1>2, <1>3, <1>4 DEF SampleInv

LEMMA DistroChangesKeeps ==
    SampleInv /\ DistroChanges /\ UNCHANGED <<sampleVars, cpus, worker>> => SampleInv'
<1> SUFFICES ASSUME SampleInv, DistroChanges, UNCHANGED <<sampleVars, cpus, worker>> PROVE SampleInv'
  OBVIOUS
<1>1. UNCHANGED <<platform, plan, capture, listings, captures, config, pc, cpus, collectorCpus, worker, published>>
  BY DEF DistroChanges, sampleVars
<1>2. ControlInv' /\ CaptureInv' /\ CapturesInv' /\ ListingsInv'
  BY <1>1, ZenonT(40) DEF SampleInv, ControlInv, CaptureInv, CapturesInv, ListingsInv, Covered
<1>3. WorkersInv' /\ CpusInv'
  BY <1>1 DEF SampleInv, WorkersInv, CpusInv
<1>4. PublishedInv'
  BY <1>1 DEF SampleInv, PublishedInv, TotalsWhole, TotalsComplete, DockerIncludesBuilds, Observable, SourceOf
<1> QED BY <1>2, <1>3, <1>4 DEF SampleInv

\* Probes of a worker lie between the first and the last capture.
LEMMA TakingNow == SampleInv /\ pc \in {"middle", "join"} => Taking \in {1, 2}
<1> SUFFICES ASSUME SampleInv, pc \in {"middle", "join"} PROVE Taking \in {1, 2}
  OBVIOUS
<1>1. PICK m : m = Len(captures)
  OBVIOUS
<1>2. (pc = "middle" => m = 1) /\ (pc = "join" => m = 2)
  BY <1>1 DEF SampleInv, ControlInv
<1>3. pc = "join" => capture.number = m
  BY <1>1 DEF SampleInv, CaptureInv
<1>4. Taking = m + (IF capture.number > m /\ capture.at # "primary" THEN 1 ELSE 0)
  BY <1>1 DEF Taking
<1> QED BY <1>2, <1>3, <1>4

LEMMA WorkerKeeps ==
    ASSUME SampleInv, NEW r \in Runtimes, worker[r].at \in {"baseline", "usage"},
           NEW a \in {"usage", "done", "panicked"}, NEW p, NEW x, \A q \in p : q.at \in {1, 2},
           worker'[r] = [at |-> a, probes |-> p, result |-> x],
           \A s \in Runtimes : s # r => worker'[s] = worker[s],
           worker' = [s \in Runtimes |-> worker'[s]], pc' = pc
    PROVE  WorkersInv'
<1>1. /\ worker = [s \in Runtimes |-> [at |-> worker[s].at, probes |-> worker[s].probes, result |-> worker[s].result]]
      /\ pc \in {"middle", "join"}
  BY DEF SampleInv, WorkersInv
<1>3. ASSUME NEW s \in Runtimes
      PROVE  /\ worker'[s] = [at |-> worker'[s].at, probes |-> worker'[s].probes, result |-> worker'[s].result]
             /\ worker'[s].at \in {"off", "baseline", "usage", "done", "panicked"}
             /\ worker'[s].at \in {"baseline", "usage"} => pc' \in {"middle", "join"}
             /\ \A q \in worker'[s].probes : q.at \in {1, 2}
  <2>1. CASE s = r
    BY <1>1, <2>1
  <2>2. CASE s # r
    <3>1. /\ worker[s].at \in {"off", "baseline", "usage", "done", "panicked"}
          /\ \A q \in worker[s].probes : q.at \in {1, 2}
      BY DEF SampleInv, WorkersInv
    <3>2. worker[s] = [at |-> worker[s].at, probes |-> worker[s].probes, result |-> worker[s].result]
      BY <1>1
    <3> QED BY <1>1, <2>2, <3>1, <3>2
  <2> QED BY <2>1, <2>2
<1>4. worker' = [s \in Runtimes |-> [at |-> worker'[s].at, probes |-> worker'[s].probes, result |-> worker'[s].result]]
  BY <1>3
<1> QED BY <1>3, <1>4 DEF WorkersInv

LEMMA ProbesNow ==
    ASSUME Taking \in {1, 2}, NEW r, NEW usage, NEW round PROVE \A q \in Probes(r, usage, round) : q.at \in {1, 2}
BY DEF Probes

LEMMA CollectorKeeps == ASSUME SampleInv, NEW r \in Runtimes, CollectorStep(r) PROVE SampleInv'
<1>1. /\ worker[r].at \in {"baseline", "usage"} /\ pc \in {"middle", "join"}
      /\ worker[r] = [at |-> worker[r].at, probes |-> worker[r].probes, result |-> worker[r].result]
      /\ worker = [s \in Runtimes |-> worker[s]]
      /\ \A q \in worker[r].probes : q.at \in {1, 2}
  BY DEF CollectorStep, Baseline, Usage, MonitorWorkerPanics, SampleInv, WorkersInv
<1>2. Taking \in {1, 2}
  BY <1>1, TakingNow
<1>3. UNCHANGED <<platform, plan, capture, listings, captures, config, pc, cpus, collectorCpus, published>>
  BY DEF CollectorStep, sampleVars
<1>4. PICK b : b = worker[r] /\ b = [at |-> b.at, probes |-> b.probes, result |-> b.result]
  BY <1>1
<1>6. ASSUME NEW x, WorkerEnds(r, x) PROVE WorkersInv'
  <2>1. /\ \A s \in Runtimes : s # r => worker'[s] = worker[s]
        /\ worker' = [s \in Runtimes |-> worker'[s]]
    BY <1>1, <1>6 DEF WorkerEnds
  <2>2. worker'[r] = [b EXCEPT !.at = "done", !.result = x]
    BY <1>1, <1>4, <1>6 DEF WorkerEnds
  <2>3. worker'[r] = [at |-> "done", probes |-> b.probes, result |-> x]
    BY <1>4, <2>2
  <2> QED BY <1>1, <1>3, <1>4, <2>1, <2>3, WorkerKeeps
<1>7. ASSUME Baseline(r) PROVE WorkersInv'
  <2>1. PICK output \in Outputs :
            LET usage == AggregateUsage(r, output, collectorCpus)
            IN  IF IsFailed(usage) THEN WorkerEnds(r, Failed)
                ELSE worker' = [worker EXCEPT ![r].at = "usage", ![r].probes = Probes(r, usage, 1)]
    BY <1>7 DEF Baseline
  <2>2. PICK p : p = Probes(r, AggregateUsage(r, output, collectorCpus), 1)
    OBVIOUS
  <2>3. \A q \in p : q.at \in {1, 2}
    BY <1>2, <2>2, ProbesNow
  <2>4. ASSUME worker' = [worker EXCEPT ![r].at = "usage", ![r].probes = p] PROVE WorkersInv'
    <3>1. /\ \A s \in Runtimes : s # r => worker'[s] = worker[s]
          /\ worker' = [s \in Runtimes |-> worker'[s]]
      BY <1>1, <2>4
    <3>2. worker'[r] = [b EXCEPT !.at = "usage", !.probes = p]
      BY <1>1, <1>4, <2>4
    <3>3. worker'[r] = [at |-> "usage", probes |-> p, result |-> b.result]
      BY <1>4, <3>2
    <3> QED BY <1>1, <1>3, <2>3, <3>1, <3>3, WorkerKeeps
  <2> QED BY <1>6, <2>1, <2>2, <2>4
<1>8. ASSUME Usage(r) PROVE WorkersInv'
  <2>1. PICK output \in Outputs, tries \in Printed :
            LET result == Collected(r, output, tries)
            IN  IF IsFailed(result) THEN WorkerEnds(r, Failed)
                ELSE worker' = [worker EXCEPT ![r].at = "done", ![r].result = result,
                                              ![r].probes = @ \cup Probes(r, result.usage, 2)]
    BY <1>8 DEF Usage
  <2>2. PICK x : x = Collected(r, output, tries)
    OBVIOUS
  <2>3. PICK p : p = b.probes \cup Probes(r, x.usage, 2)
    OBVIOUS
  <2>4. \A q \in p : q.at \in {1, 2}
    BY <1>1, <1>2, <1>4, <2>3, ProbesNow
  <2>5. ASSUME worker' = [worker EXCEPT ![r].at = "done", ![r].result = x,
                                        ![r].probes = @ \cup Probes(r, x.usage, 2)]
        PROVE  WorkersInv'
    <3>1. /\ \A s \in Runtimes : s # r => worker'[s] = worker[s]
          /\ worker' = [s \in Runtimes |-> worker'[s]]
      BY <1>1, <2>5
    <3>2. worker'[r] = [b EXCEPT !.at = "done", !.result = x, !.probes = @ \cup Probes(r, x.usage, 2)]
      BY <1>1, <1>4, <2>5
    <3>3. worker'[r] = [at |-> "done", probes |-> p, result |-> x]
      BY <1>4, <2>3, <3>2
    <3> QED BY <1>1, <1>3, <2>4, <3>1, <3>3, WorkerKeeps
  <2> QED BY <1>6, <2>1, <2>2, <2>5
<1>9. ASSUME MonitorWorkerPanics(r) PROVE WorkersInv'
  <2>1. /\ \A s \in Runtimes : s # r => worker'[s] = worker[s]
        /\ worker' = [s \in Runtimes |-> worker'[s]]
    BY <1>1, <1>9 DEF MonitorWorkerPanics
  <2>2. worker'[r] = [b EXCEPT !.at = "panicked", !.result = Failed]
    BY <1>1, <1>4, <1>9 DEF MonitorWorkerPanics
  <2>3. worker'[r] = [at |-> "panicked", probes |-> b.probes, result |-> Failed]
    BY <1>4, <2>2
  <2> QED BY <1>1, <1>3, <1>4, <2>1, <2>3, WorkerKeeps
<1>10. WorkersInv'
  BY <1>7, <1>8, <1>9 DEF CollectorStep
<1>11. ControlInv' /\ CaptureInv' /\ CapturesInv' /\ ListingsInv'
  BY <1>3, ZenonT(40) DEF SampleInv, ControlInv, CaptureInv, CapturesInv, ListingsInv, Covered
<1>12. CpusInv' /\ PublishedInv'
  BY <1>1, <1>3, NothingPublished DEF SampleInv, CpusInv, PublishedInv
<1> QED BY <1>10, <1>11, <1>12 DEF SampleInv

\* What a summary takes its memory from.
LEMMA SummaryKeepsMemory ==
    ASSUME NEW rows, NEW ready, NEW kernel, NEW answer, NEW targets, NEW bracketed, NEW env \in Environments,
           ApplyExclusive(SetWslCpu(CollectSummary(rows, ready), kernel), answer, targets, bracketed)
               .summary[env].memory # Absent
    PROVE  env \in ready
<1> DEFINE made == CollectSummary(rows, ready)
<1>1. PICK f : f = made
  OBVIOUS
<1>2. f = [e \in Environments |-> [cpu |-> f[e].cpu, memory |-> f[e].memory]]
      /\ \A e \in Environments : e \notin ready => f[e].memory = Absent
  BY <1>1 DEF CollectSummary, Total
<1>3. PICK g : g = SetWslCpu(f, kernel)
  OBVIOUS
<1>4. g = [e \in Environments |-> [cpu |-> g[e].cpu, memory |-> g[e].memory]]
      /\ \A e \in Environments : g[e].memory = f[e].memory
  BY <1>2, <1>3 DEF SetWslCpu, Environments
<1>5. ApplyExclusive(g, answer, targets, bracketed).summary[env].memory = g[env].memory
  <2>1. [g[env] EXCEPT !.cpu = answer.cpu[env]].memory = g[env].memory
    BY <1>4
  <2>2. PICK h : h = [e \in Environments |->
              IF e = "windows" \/ (g[e].cpu = Absent /\ g[e].memory = Absent)
              THEN g[e] ELSE [g[e] EXCEPT !.cpu = answer.cpu[e]]]
    OBVIOUS
  <2>3. h[env].memory = g[env].memory
    BY <2>1, <2>2
  <2>4. ApplyExclusive(g, answer, targets, bracketed).summary \in {g, h}
    BY <2>2 DEF ApplyExclusive
  <2> QED BY <2>3, <2>4
<1> QED BY <1>1, <1>2, <1>3, <1>4, <1>5

\* What is published of the usage of the guest.
Whole == LinuxComplete /\ SameCount(HostCount)
Merged == MergeDocker(LinuxUsage(captures[1], captures[3], HostCount), ResultOf("docker", HostCount), Whole)

LEMMA PublishedParts ==
    ASSUME NEW metadata, NEW answer, NEW p, p = Assembled(metadata, answer)
    PROVE  /\ Merged.linux \subseteq p.pids
           /\ {c.resource : c \in Merged.containers} \subseteq p.pids
           /\ p.summary.wsl.memory # Absent => Whole
           /\ p.summary.docker.memory # Absent => Merged.complete
<1> DEFINE count   == HostCount
           wslc    == UsageIn(ResultOf("wslc", count))
           win     == IF config.wslOnly THEN {} ELSE WindowsUsage(windows[1], windows[2])
           details == IF config.processes THEN UNION {d.processes : d \in wslc.details \cup Merged.containers} ELSE {}
           rows    == Merged.linux \cup win \cup wslc.rows \cup details \cup {d.resource : d \in Merged.containers}
           ready   == {env \in Environments :
                          \/ env = "windows" /\ ~config.wslOnly /\ SameCount(count)
                          \/ env = "wsl" /\ Whole
                          \/ env = "wslc" /\ Succeeded(ResultOf("wslc", count)) /\ ResultOf("wslc", count).complete
                          \/ env = "docker" /\ Merged.complete}
           kernel  == IF SameCount(count)
                      THEN KernelUsage(Kernel(captures[1].primary), Kernel(captures[3].primary), count) ELSE Absent
           overlap == Overlaps(count)
<1>1. p.pids = rows
  BY DEF Assembled, Merged, Whole
<1>2. p.summary = ApplyExclusive(SetWslCpu(CollectSummary(rows, ready), kernel), answer, overlap.targets, overlap.ready).summary
  BY DEF Assembled, Merged, Whole
<1>3. /\ Merged.linux \subseteq rows /\ {c.resource : c \in Merged.containers} \subseteq rows
      /\ "wsl" \in ready => Whole
      /\ "docker" \in ready => Merged.complete
  OBVIOUS
<1> HIDE DEF rows, ready, kernel, overlap
<1>4. "wsl" \in Environments /\ "docker" \in Environments
  BY DEF Environments
<1>5. p.summary["wsl"].memory # Absent => "wsl" \in ready
  BY <1>2, <1>4, SummaryKeepsMemory
<1>6. p.summary["docker"].memory # Absent => "docker" \in ready
  BY <1>2, <1>4, SummaryKeepsMemory
<1> QED BY <1>1, <1>3, <1>5, <1>6

\* Two rows of a distribution that was captured first and last.
LEMMA ProcessesShown ==
    ASSUME NEW b, NEW a, a.source = b.source, b.at = 1, a.at = 3, NEW count \in Nat \ {0}
    PROVE  LET rows == UsageOf(Processes(b), Processes(a), a.at - b.at, count)
           IN  /\ \E row \in rows : row.env = "wsl" /\ row.source = b.source
               /\ config.docker =>
                      \E row \in rows : row.env = "docker" /\ row.source = BuildSource(b.source, BuildId)
<1> DEFINE source == b.source
           wsl(at) == Sample("wsl", source, 1, 1, 1, at, 1)
           docker(at) == Sample("docker", BuildSource(source, BuildId), 2, 1, 1, at, 1)
<1>1. a.at - b.at = 2 /\ count # 0 /\ ~(2 =< 0)
  OBVIOUS
<1>2. ASSUME NEW x \in Processes(b), NEW y \in Processes(a), SameProcess(x, y), x.cpu = 1, y.cpu = 3
      PROVE  \E row \in UsageOf(Processes(b), Processes(a), a.at - b.at, count) :
                 row.env = y.env /\ row.source = y.source
  <2>1. y.cpu >= x.cpu
    BY <1>2
  <2>2. UsageRow(x, y, 2, count) \in UsageOf(Processes(b), Processes(a), a.at - b.at, count)
    <3> DEFINE pairs == {p \in Processes(b) \X Processes(a) : SameProcess(p[1], p[2]) /\ p[2].cpu >= p[1].cpu}
    <3>1. <<x, y>> \in pairs
      BY <1>2, <2>1
    <3>2. UsageOf(Processes(b), Processes(a), a.at - b.at, count) = {UsageRow(pair[1], pair[2], 2, count) : pair \in pairs}
      BY <1>1 DEF UsageOf
    <3> HIDE DEF pairs
    <3> QED BY <3>1, <3>2
  <2>3. UsageRow(x, y, 2, count).env = y.env /\ UsageRow(x, y, 2, count).source = y.source
    BY DEF UsageRow, Row
  <2> QED BY <2>2, <2>3
<1>3. wsl(1) \in Processes(b) /\ wsl(3) \in Processes(a)
  <2>1. wsl(1).env # "docker" /\ wsl(3).env # "docker"
    BY DEF Sample
  <2> QED BY <2>1 DEF Processes, NormalizeDisabled
<1>4. config.docker => docker(1) \in Processes(b) /\ docker(3) \in Processes(a)
  BY DEF Processes
<1>5. SameProcess(wsl(1), wsl(3)) /\ wsl(1).cpu = 1 /\ wsl(3).cpu = 3 /\ wsl(3).env = "wsl" /\ wsl(3).source = source
  BY DEF SameProcess, Key, Sample
<1>6. /\ SameProcess(docker(1), docker(3)) /\ docker(1).cpu = 1 /\ docker(3).cpu = 3
      /\ docker(3).env = "docker" /\ docker(3).source = BuildSource(source, BuildId)
  BY DEF SameProcess, Key, Sample
<1> HIDE DEF wsl, docker
<1>7. \E row \in UsageOf(Processes(b), Processes(a), a.at - b.at, count) : row.env = "wsl" /\ row.source = source
  BY <1>2, <1>3, <1>5
<1>8. config.docker => \E row \in UsageOf(Processes(b), Processes(a), a.at - b.at, count) :
                           row.env = "docker" /\ row.source = BuildSource(source, BuildId)
  BY <1>2, <1>4, <1>6
<1> QED BY <1>7, <1>8

\* A row of WSL stays, and a build is a container.
LEMMA RowsTaken ==
    ASSUME NEW rows, NEW row \in rows, NEW enabled
    PROVE  /\ row.env = "wsl" => row \in TakeUsage(rows, enabled).rows
           /\ enabled /\ row.env = "docker" /\ IsBuild(row.source) =>
                  \E c \in TakeUsage(rows, enabled).containers :
                      c.resource.env = "docker" /\ c.resource.kind = "container" /\ c.resource.id = row.source
<1> DEFINE builds == {other \in rows : IsBuildRow(other)}
<1>1. ASSUME row.env = "wsl" PROVE row \in TakeUsage(rows, enabled).rows
  <2>1. row \in rows \ builds
    BY <1>1 DEF IsBuildRow
  <2> QED BY <2>1 DEF TakeUsage
<1>2. ASSUME enabled, row.env = "docker", IsBuild(row.source)
      PROVE  \E c \in TakeUsage(rows, enabled).containers :
                 c.resource.env = "docker" /\ c.resource.kind = "container" /\ c.resource.id = row.source
  <2>1. row \in builds
    BY <1>2 DEF IsBuildRow
  <2>2. PICK mine : mine = {other \in builds : other.source = row.source}
    OBVIOUS
  <2>3. Executor(row.source, mine) \in TakeUsage(rows, enabled).containers
    BY <1>2, <2>1, <2>2 DEF TakeUsage
  <2>4. /\ Executor(row.source, mine).resource.env = "docker"
        /\ Executor(row.source, mine).resource.kind = "container"
        /\ Executor(row.source, mine).resource.id = row.source
    BY DEF Executor, Row
  <2> QED BY <2>3, <2>4
<1> QED BY <1>1, <1>2

LEMMA BuildSources ==
    ASSUME NEW d PROVE IsBuild(BuildSource(NoSource, BuildId)) /\ IsBuild(BuildSource(<<d>>, BuildId))
<1>1. ASSUME NEW S, NEW s \in Seq(S), NEW x PROVE IsBuild(BuildSource(s, x))
  <2> DEFINE T == S \cup {0, x}
  <2>1. s \in Seq(T) /\ <<0>> \in Seq(T) /\ <<x>> \in Seq(T)
    OBVIOUS
  <2>2. <<0>> \o s \in Seq(T) /\ Len(<<0>> \o s) = 1 + Len(s) /\ (<<0>> \o s)[1] = 0
    BY <2>1
  <2>3. PICK t : t = <<0>> \o s
    OBVIOUS
  <2>4. t \in Seq(T) /\ Len(t) \in Nat /\ Len(t) >= 1 /\ t[1] = 0
    BY <2>1, <2>2, <2>3
  <2>5. Len(t \o <<x>>) = Len(t) + 1 /\ (t \o <<x>>)[1] = 0
    BY <2>1, <2>4
  <2> QED BY <2>3, <2>4, <2>5 DEF IsBuild, BuildSource
<1>2. NoSource \in Seq({d}) /\ <<d>> \in Seq({d})
  BY DEF NoSource
<1> QED BY <1>1, <1>2

\* Two finite sets of as many names, one within the other, have the same names.
LEMMA SameNames ==
    ASSUME NEW A, NEW B, IsFiniteSet(A), IsFiniteSet(B), Cardinality(A) = Cardinality(B), NamesIn(A, B),
           \A x, y \in A : x # y => x[1] # y[1]
    PROVE  NamesIn(B, A)
<1> DEFINE f == [a \in A |-> CHOOSE b \in B : SameName(a, b)]
<1>1. \A a \in A : f[a] \in B /\ a[1] = f[a][1]
  BY DEF NamesIn, SameName
<1>2. f \in Injection(A, B)
  <2>1. f \in [A -> B]
    BY <1>1
  <2>2. ASSUME NEW x \in A, NEW y \in A, f[x] = f[y] PROVE x = y
    BY <1>1, <2>2
  <2> HIDE DEF f
  <2> QED BY <2>1, <2>2 DEF Injection, IsInjective
<1> HIDE DEF f
<1>3. f \in Surjection(A, B)
  BY <1>2, FS_Injection
<1>4. \A b \in B : \E a \in A : f[a] = b
  BY <1>3 DEF Surjection
<1> QED BY <1>1, <1>4 DEF NamesIn, SameName

LEMMA SourcesOfResult ==
    ASSUME NEW r, NEW n, NEW d, ResultIs(r, n, d)
    PROVE  /\ IsFiniteSet(AdditionalSources(r))
           /\ \A x, y \in AdditionalSources(r) : x # y => x[1] # y[1]
           /\ CapturedIn(r) = {x[1] : x \in AdditionalSources(r)}
<1> DEFINE f == [e \in r.additional |-> e[1]]
<1>1. f \in Surjection(r.additional, AdditionalSources(r))
  BY DEF Surjection, AdditionalSources
<1>2. IsFiniteSet(AdditionalSources(r))
  BY <1>1, FS_Surjection DEF ResultIs
<1> QED BY <1>2 DEF ResultIs, AdditionalSources, CapturedIn

\* What any discovery listed is in the first and in the last capture, when they are complete.
LEMMA ListedCaptured ==
    ASSUME SampleInv, pc = "assemble", LinuxComplete, NEW d \in Observable
    PROVE  d = plan.samples \/ (d \in CapturedIn(captures[1]) /\ d \in CapturedIn(captures[3]))
<1>1. Len(captures) = 3 /\ DOMAIN captures = 1 .. 3 /\ capture.number = 3
  <2>1. Len(captures) = 3 /\ IsSeq(captures)
    BY DEF SampleInv, ControlInv
  <2>2. DOMAIN captures = 1 .. 3
    BY <2>1, SeqAppend
  <2>3. capture.number = Len(captures)
    BY DEF SampleInv, CaptureInv
  <2> QED BY <2>1, <2>2, <2>3
<1> DEFINE sources(i) == AdditionalSources(captures[i])
           got(i)     == CapturedIn(captures[i])
<1>2. ASSUME NEW i \in 1 .. 3
      PROVE  /\ captures[i].warned = {} /\ captures[i] # Unknown
             /\ IsFiniteSet(sources(i)) /\ \A x, y \in sources(i) : x # y => x[1] # y[1]
             /\ got(i) = {x[1] : x \in sources(i)}
  <2>1. captures[i].warned = {} /\ captures[i] # Unknown
    BY DEF LinuxComplete
  <2>2. ResultIs(captures[i], i, plan.samples)
    BY <1>1, <2>1 DEF SampleInv, CapturesInv
  <2> QED BY <2>1, <2>2, SourcesOfResult
<1>3. d = plan.samples \/ \E i \in 1 .. 3 : d \in got(i)
  <2>1. CASE d # plan.samples
    <3>1. PICK k \in DOMAIN listings : d \in listings[k]
      BY <2>1 DEF Observable, Range
    <3>2. Covered(d)
      BY <3>1 DEF SampleInv, ListingsInv
    <3>3. PICK i \in 1 .. 3 : CoveredBy(d, captures[i])
      BY <1>1, <2>1, <3>2 DEF Covered
    <3> QED BY <1>2, <3>3 DEF CoveredBy
  <2> QED BY <2>1
<1>4. \A i, j \in 1 .. 3 : NamesIn(sources(i), sources(j)) => got(i) \subseteq got(j)
  <2>1. ASSUME NEW i \in 1 .. 3, NEW j \in 1 .. 3, NamesIn(sources(i), sources(j)) PROVE got(i) \subseteq got(j)
    BY <1>2, <2>1 DEF NamesIn, SameName
  <2> QED BY <2>1
<1>5. NamesIn(sources(1), sources(2)) /\ NamesIn(sources(2), sources(3)) /\ NamesIn(sources(1), sources(3))
      /\ Cardinality(sources(1)) = Cardinality(sources(2)) /\ Cardinality(sources(1)) = Cardinality(sources(3))
  BY DEF LinuxComplete, SameSources
<1> HIDE DEF sources, got
<1>6. 1 \in 1 .. 3 /\ 2 \in 1 .. 3 /\ 3 \in 1 .. 3
  OBVIOUS
<1>7. NamesIn(sources(2), sources(1)) /\ NamesIn(sources(3), sources(1))
  BY <1>2, <1>5, <1>6, SameNames
<1>8. got(1) \subseteq got(3) /\ got(2) \subseteq got(1) /\ got(3) \subseteq got(1)
  BY <1>4, <1>5, <1>6, <1>7
<1>9. \A i \in 1 .. 3 : got(i) \subseteq got(1)
  <2>1. \A i \in 1 .. 3 : i = 1 \/ i = 2 \/ i = 3
    OBVIOUS
  <2> QED BY <1>8, <2>1
<1> QED BY <1>3, <1>8, <1>9 DEF got

\* The snapshots of a distribution, of the first and of the last capture.
LEMMA DistributionPair ==
    ASSUME SampleInv, pc = "assemble", Whole, NEW d \in Observable
    PROVE  \E b, a : /\ b.source = SourceOf(d) /\ a.source = b.source /\ b.at = 1 /\ a.at = 3
                     /\ UsageOf(Processes(b), Processes(a), a.at - b.at, HostCount)
                            \subseteq LinuxUsage(captures[1], captures[3], HostCount)
<1>1. /\ LinuxComplete /\ 1 \in DOMAIN captures /\ 3 \in DOMAIN captures
      /\ captures[1] # Unknown /\ captures[3] # Unknown
  <2>1. Len(captures) = 3 /\ IsSeq(captures)
    BY DEF SampleInv, ControlInv
  <2> QED BY <2>1, SeqAppend DEF Whole, LinuxComplete
<1>2. /\ ResultIs(captures[1], 1, plan.samples) /\ ResultIs(captures[3], 3, plan.samples)
      /\ HasPrimary(captures[1], 1, plan.samples) /\ HasPrimary(captures[3], 3, plan.samples)
  BY <1>1 DEF SampleInv, CapturesInv
<1>3. CASE d = plan.samples
  <2>1. captures[1].primary.source = NoSource /\ captures[1].primary.at = 1
        /\ captures[3].primary.source = NoSource /\ captures[3].primary.at = 3
    BY <1>2 DEF HasPrimary
  <2>2. UsageOf(Processes(captures[1].primary), Processes(captures[3].primary),
                captures[3].primary.at - captures[1].primary.at, HostCount)
            \subseteq LinuxUsage(captures[1], captures[3], HostCount)
    BY DEF LinuxUsage
  <2> QED BY <1>3, <2>1, <2>2 DEF SourceOf
<1>4. CASE d # plan.samples
  <2>1. d \in CapturedIn(captures[1]) /\ d \in CapturedIn(captures[3])
    BY <1>1, <1>4, ListedCaptured
  <2>2. PICK x \in captures[1].additional : x[1][1] = d
    BY <2>1 DEF CapturedIn
  <2>3. PICK y \in captures[3].additional : y[1][1] = d
    BY <2>1 DEF CapturedIn
  <2>4. x[2].source = <<d>> /\ x[2].at = 1 /\ y[2].source = <<d>> /\ y[2].at = 3
    BY <1>2, <2>2, <2>3 DEF ResultIs
  <2>5. UsageOf(Processes(x[2]), Processes(y[2]), y[2].at - x[2].at, HostCount)
            \subseteq LinuxUsage(captures[1], captures[3], HostCount)
    <3> DEFINE Rows(b, a) == UsageOf(Processes(b), Processes(a), a.at - b.at, HostCount)
               pairs == {p \in captures[1].additional \X captures[3].additional : SameName(p[1][1], p[2][1])}
    <3>1. <<x, y>> \in pairs
      BY <2>2, <2>3 DEF SameName
    <3>2. UNION {Rows(pair[1][2], pair[2][2]) : pair \in pairs} \subseteq LinuxUsage(captures[1], captures[3], HostCount)
      BY DEF LinuxUsage
    <3> HIDE DEF pairs, Rows
    <3>3. Rows(x[2], y[2]) \subseteq UNION {Rows(pair[1][2], pair[2][2]) : pair \in pairs}
      BY <3>1
    <3> QED BY <3>2, <3>3 DEF Rows
  <2> QED BY <1>4, <2>4, <2>5 DEF SourceOf
<1> QED BY <1>3, <1>4

LEMMA RowsShown ==
    ASSUME SampleInv, pc = "assemble", Whole, NEW d \in Observable
    PROVE  /\ \E row \in Merged.linux : row.env = "wsl" /\ row.source = SourceOf(d)
           /\ Merged.complete => \E c \in Merged.containers :
                  /\ c.resource.env = "docker" /\ c.resource.kind = "container"
                  /\ c.resource.id = BuildSource(SourceOf(d), BuildId)
<1>1. HostCount \in Nat \ {0}
  BY MonitorAssumption DEF Whole, SameCount, SampleInv, CpusInv
<1>2. PICK b, a : /\ b.source = SourceOf(d) /\ a.source = b.source /\ b.at = 1 /\ a.at = 3
                  /\ UsageOf(Processes(b), Processes(a), a.at - b.at, HostCount)
                         \subseteq LinuxUsage(captures[1], captures[3], HostCount)
  BY DistributionPair
<1>3. PICK linux : linux = LinuxUsage(captures[1], captures[3], HostCount)
  OBVIOUS
<1>4. \E row \in linux : row.env = "wsl" /\ row.source = SourceOf(d)
  BY <1>1, <1>2, <1>3, ProcessesShown
<1>5. config.docker => \E row \in linux : row.env = "docker" /\ row.source = BuildSource(SourceOf(d), BuildId)
  BY <1>1, <1>2, <1>3, ProcessesShown
<1>6. /\ Merged.linux = TakeUsage(linux, config.docker).rows
      /\ TakeUsage(linux, config.docker).containers \subseteq Merged.containers
      /\ Merged.complete => config.docker
  BY <1>3 DEF Merged, MergeDocker
<1>7. \E row \in Merged.linux : row.env = "wsl" /\ row.source = SourceOf(d)
  <2>1. \A row \in linux : row.env = "wsl" => row \in TakeUsage(linux, config.docker).rows
    BY RowsTaken
  <2> QED BY <1>4, <1>6, <2>1
<1>8. IsBuild(BuildSource(SourceOf(d), BuildId))
  BY BuildSources DEF SourceOf
<1>9. ASSUME Merged.complete
      PROVE  \E c \in Merged.containers :
                 /\ c.resource.env = "docker" /\ c.resource.kind = "container"
                 /\ c.resource.id = BuildSource(SourceOf(d), BuildId)
  <2>1. PICK row \in linux : row.env = "docker" /\ row.source = BuildSource(SourceOf(d), BuildId)
    BY <1>5, <1>6, <1>9
  <2>2. \E c \in TakeUsage(linux, config.docker).containers :
            c.resource.env = "docker" /\ c.resource.kind = "container" /\ c.resource.id = row.source
    BY <1>6, <1>8, <1>9, <2>1, RowsTaken
  <2> QED BY <1>6, <2>1, <2>2
<1> QED BY <1>7, <1>9

LEMMA AssembleKeeps == SampleInv /\ Assemble => SampleInv'
<1> SUFFICES ASSUME SampleInv, Assemble PROVE SampleInv'
  OBVIOUS
<1>1. /\ pc = "assemble" /\ pc' = "published"
      /\ UNCHANGED <<platform, plan, capture, listings, captures, config, cpus, collectorCpus, worker>>
  BY DEF Assemble, SnapshotReturned, planVars
<1>2. ControlInv' /\ CaptureInv' /\ CapturesInv' /\ ListingsInv'
  BY <1>1, CapturesKept DEF SampleInv, ControlInv, CaptureInv, Stages
<1>3. WorkersInv' /\ CpusInv'
  BY <1>1 DEF SampleInv, WorkersInv, CpusInv
<1>4. PICK answer, metadata : published' = Assembled(metadata, answer)
  BY DEF Assemble
<1>5. PICK p : p = Assembled(metadata, answer)
  OBVIOUS
<1>6. /\ Merged.linux \subseteq p.pids
      /\ {c.resource : c \in Merged.containers} \subseteq p.pids
      /\ p.summary.wsl.memory # Absent => Whole
      /\ p.summary.docker.memory # Absent => Merged.complete
  BY <1>5, PublishedParts
<1>7. Merged.complete => Whole
  BY DEF Merged, MergeDocker
<1>8. ASSUME p.summary.wsl.memory # Absent, NEW d \in Observable
      PROVE  \E row \in p.pids : row.env = "wsl" /\ row.source = SourceOf(d)
  BY <1>1, <1>6, <1>8, RowsShown
<1>9. ASSUME p.summary.docker.memory # Absent, NEW d \in Observable
      PROVE  \E row \in p.pids :
                 row.env = "docker" /\ row.kind = "container" /\ row.id = BuildSource(SourceOf(d), BuildId)
  <2>1. PICK c \in Merged.containers :
            /\ c.resource.env = "docker" /\ c.resource.kind = "container"
            /\ c.resource.id = BuildSource(SourceOf(d), BuildId)
    BY <1>1, <1>6, <1>7, <1>9, RowsShown
  <2> QED BY <1>6, <2>1
<1>10. \A d : SourceOf(d)' = SourceOf(d)
  BY <1>1 DEF SourceOf
<1>11. Observable' = Observable
  BY <1>1 DEF Observable
<1>12. PublishedInv'
  BY <1>1, <1>4, <1>5, <1>8, <1>9, <1>10, <1>11 DEF PublishedInv, TotalsWhole, TotalsComplete, DockerIncludesBuilds
<1> QED BY <1>2, <1>3, <1>12 DEF SampleInv

\* Within WSL the program is told the distribution that it runs in.
NamedWithinWsl == platform = "wsl" => config.name # Absent /\ config.name[1] = Here

LEMMA SampleInit ==
    ASSUME NEW begin, NEW configs, InitPlan(begin), InitMonitor(configs), NamedWithinWsl
    PROVE  SampleInv
<1>1. /\ pc = "plan" /\ captures = <<>> /\ listings = <<>> /\ capture = Idle /\ published = Absent
      /\ platform \in {"wsl", "windows"} /\ cpus \in {0} \cup CpuCounts
      /\ worker = [r \in Runtimes |-> [at |-> "off", probes |-> {}, result |-> Absent]]
  BY DEF InitPlan, InitMonitor
<1>2. IsSeq(captures) /\ IsSeq(listings) /\ Len(captures) = 0 /\ DOMAIN captures = {} /\ DOMAIN listings = {}
  <2>1. <<>> \in Seq({}) /\ Len(<<>>) = 0 /\ DOMAIN <<>> = {}
    OBVIOUS
  <2> QED BY <1>1, <2>1 DEF IsSeq
<1>3. ControlInv
  BY <1>1, <1>2 DEF ControlInv, Stages, NamedWithinWsl
<1>4. CaptureInv
  BY <1>1, <1>2 DEF CaptureInv, Idle
<1>5. CapturesInv /\ ListingsInv
  BY <1>2 DEF CapturesInv, ListingsInv
<1>6. WorkersInv /\ CpusInv
  BY <1>1 DEF WorkersInv, CpusInv
<1>7. PublishedInv
  BY <1>1 DEF PublishedInv, TotalsWhole, TotalsComplete, DockerIncludesBuilds
<1> QED BY <1>3, <1>4, <1>5, <1>6, <1>7 DEF SampleInv

LEMMA SampleKeeps == SampleInv /\ [MonitorNext]_monitorVars => SampleInv'
<1> SUFFICES ASSUME SampleInv, [MonitorNext]_monitorVars PROVE SampleInv'
  OBVIOUS
<1>1. CASE UNCHANGED monitorVars
  <2>1. UNCHANGED <<platform, plan, capture, listings, captures, config, pc, cpus, collectorCpus, worker, published>>
    BY <1>1 DEF monitorVars, planVars, sampleVars
  <2>2. ControlInv' /\ CaptureInv' /\ CapturesInv' /\ ListingsInv'
    BY <2>1, ZenonT(40) DEF SampleInv, ControlInv, CaptureInv, CapturesInv, ListingsInv, Covered
  <2>3. WorkersInv' /\ CpusInv'
    BY <2>1 DEF SampleInv, WorkersInv, CpusInv
  <2>4. PublishedInv'
    BY <2>1 DEF SampleInv, PublishedInv, TotalsWhole, TotalsComplete, DockerIncludesBuilds, Observable, SourceOf
  <2> QED BY <2>2, <2>3, <2>4 DEF SampleInv
<1>2. CASE MainStep
  BY <1>2, PlanKeeps, CaptureAllKeeps, WindowsBeforeKeeps, SpawnKeeps, JoinKeeps, WindowsAfterKeeps, AssembleKeeps
     DEF MainStep, Collects
<1>3. CASE \E r \in Runtimes : CollectorStep(r)
  BY <1>3, CollectorKeeps
<1>4. CASE DistroChanges /\ UNCHANGED <<sampleVars, cpus, worker>>
  BY <1>4, DistroChangesKeeps
<1> QED BY <1>1, <1>2, <1>3, <1>4 DEF MonitorNext

LEMMA SampleInvariant ==
    ASSUME NEW begin, NEW configs
    PROVE  SampleSpec(begin, configs) /\ NamedWithinWsl => []SampleInv
<1>1. InitPlan(begin) /\ InitMonitor(configs) /\ NamedWithinWsl => SampleInv
  BY SampleInit
<1> QED BY <1>1, SampleKeeps, PTL DEF SampleSpec

\* A published total of WSL holds every distribution that any of the discoveries
\* of the sample listed, and one of Docker their builds (monitor.rs:211,
\* monitor.rs:297).
THEOREM SampleTotalsWhole ==
    ASSUME NEW begin, NEW configs
    PROVE  SampleSpec(begin, configs) /\ NamedWithinWsl => []TotalsWhole
<1>1. SampleInv => TotalsWhole
  BY DEF SampleInv, PublishedInv
<1> QED BY <1>1, SampleInvariant, PTL

\* No capture of a sample holds a distribution twice (collector.rs:200,
\* collector.rs:437).
THEOREM SampleDistributionsOnce ==
    ASSUME NEW begin, NEW configs
    PROVE  SampleSpec(begin, configs) /\ NamedWithinWsl => []DistributionsOnce
<1>1. ASSUME SampleInv PROVE DistributionsOnce
  <2>1. StreamVisitsRunning
    BY <1>1 DEF SampleInv, CaptureInv, StreamVisitsRunning
  <2>2. ASSUME NEW i \in DOMAIN captures, captures[i] # Unknown, NEW a \in captures[i].additional
        PROVE  /\ a[2].distro # captures[i].primary.distro
               /\ \A b \in captures[i].additional : a # b => a[2].distro # b[2].distro
    <3>1. ResultIs(captures[i], i, plan.samples) /\ HasPrimary(captures[i], i, plan.samples)
      BY <1>1, <2>2 DEF SampleInv, CapturesInv
    <3>2. \A b \in captures[i].additional : b[2].distro = b[1][1] /\ b[1][1] # plan.samples
      BY <3>1 DEF ResultIs
    <3> QED BY <2>2, <3>1, <3>2 DEF ResultIs, HasPrimary
  <2>3. EachDistributionOnce
    BY <2>2 DEF EachDistributionOnce
  <2> QED BY <2>1, <2>3 DEF DistributionsOnce
<1> QED BY <1>1, SampleInvariant, PTL

\* Every counter of a container that the exclusive CPU is computed of was read after
\* the first capture and before the last (monitor.rs:179).
THEOREM SampleProbesBracketed ==
    ASSUME NEW begin, NEW configs
    PROVE  SampleSpec(begin, configs) /\ NamedWithinWsl => []BracketedProbes
<1>1. SampleInv => BracketedProbes
  BY DEF SampleInv, WorkersInv, BracketedProbes
<1> QED BY <1>1, SampleInvariant, PTL

-----------------------------------------------------------------------------
(* A stream: its calls visit what they list.                                *)
(****************************************************************************)

OneSpelling(names) == \A x, y \in names : x # y => x[1] # y[1]

StreamInv ==
    /\ running \subseteq Distros
    /\ plan # Absent => PlanIs(plan) /\ OneSpelling(plan.additional)
    /\ StreamVisitsRunning

\* What a plan has besides its primary distribution was listed.
LEMMA PlanLists ==
    ASSUME NEW name, NEW wslOnly, NEW default, NEW listing, NEW names, listing \in {Unknown, names},
           OneSpelling(names), NEW native,
           platform = "wsl" => name # Absent /\ name[1] = Here,
           native = StreamPlan(NativePlan(name, wslOnly, default, listing)), native # Absent
    PROVE  PlanIs(native) /\ OneSpelling(native.additional)
<1>1. PICK made : made = NativePlan(name, wslOnly, default, listing)
  OBVIOUS
<1>2. made # Absent /\ native = [made EXCEPT !.warned = @ \ {"additional discovery"}]
  BY <1>1 DEF StreamPlan
<1>3. PlanIs(made)
  BY <1>1, <1>2, NativePlanIs
<1>4. OneSpelling(made.additional)
  <2>1. made.additional = {} \/ \E primary : made.additional = Others(primary, names)
    BY <1>1, <1>2, ZenonT(40) DEF NativePlan, WslPlan, WindowsPlan, NewPlan, Others
  <2> QED BY <2>1 DEF OneSpelling, Others
<1>5. PICK w : w = made.warned \ {"additional discovery"}
  OBVIOUS
<1>6. native = [samples |-> made.samples, primary |-> made.primary, additional |-> made.additional,
                enabled |-> made.enabled, warned |-> w]
  BY <1>2, <1>3, <1>5 DEF PlanIs
<1> QED BY <1>3, <1>4, <1>6 DEF PlanIs

LEMMA ListingOnce == OneSpelling(Listing) /\ \A n \in Listing : n[1] \in running
BY DEF OneSpelling, Listing, Listed

LEMMA SnapshotVisits ==
    ASSUME NEW native, PlanIs(native), OneSpelling(native.additional),
           IsFiniteSet(running), NEW failed, NEW sample, sample = StreamSnapshot(native, Listing, failed)
    PROVE  /\ PlanIs(sample.plan) /\ sample.plan.samples = native.samples /\ OneSpelling(sample.plan.additional)
           /\ {n[1] : n \in sample.runningSources} = running \ {native.samples}
           /\ Cardinality(sample.runningSources) = Cardinality(running \ {native.samples})
           /\ sample.snapshots \cup sample.failures = sample.runningSources
           /\ sample.snapshots \cap sample.failures = {}
<1> DEFINE new     == {name \in Others(native.primary, Listing) : ~IsListed(name, native.additional)}
           all     == native.additional \cup new
           visited == {n \in Others(native.primary, all) : IsListed(n, Listing)}
           rest    == running \ {native.samples}
<1>1. /\ sample.plan = [native EXCEPT !.additional = all]
      /\ sample.runningSources = visited
      /\ sample.snapshots = visited \ failed /\ sample.failures = visited \cap failed
  BY DEF StreamSnapshot
<1>2. sample.plan = [samples |-> native.samples, primary |-> native.primary, additional |-> all,
                     enabled |-> native.enabled, warned |-> native.warned]
  BY <1>1 DEF PlanIs
<1>3. PlanIs(sample.plan) /\ sample.plan.samples = native.samples /\ sample.plan.additional = all
  <2> HIDE DEF all
  <2> QED BY <1>2 DEF PlanIs
<1>4. OneSpelling(all)
  <2>1. ASSUME NEW x \in all, NEW y \in all, x # y PROVE x[1] # y[1]
    <3>1. ASSUME NEW n \in new PROVE n \in Listing /\ \A m \in native.additional : n[1] # m[1]
      BY DEF Others, IsListed, SameName
    <3>2. x \in native.additional \/ x \in new
      OBVIOUS
    <3>3. y \in native.additional \/ y \in new
      OBVIOUS
    <3> HIDE DEF new, all
    <3> QED BY <2>1, <3>1, <3>2, <3>3, ListingOnce DEF OneSpelling
  <2> QED BY <2>1 DEF OneSpelling
<1>5. \A n : IsPrimary(native.primary, n) <=> n[1] = native.samples
  BY DEF IsPrimary, SameName, PlanIs
<1>6. \A n \in visited : n[1] \in rest
  BY <1>5, ListingOnce DEF Others, IsListed, SameName
<1>7. \A d \in rest : \E n \in visited : n[1] = d
  <2>1. ASSUME NEW d \in rest PROVE \E n \in visited : n[1] = d
    <3>1. Listed(d) \in Listing /\ Listed(d)[1] = d /\ d # native.samples
      BY DEF Listing, Listed
    <3>2. PICK n \in all : n[1] = d
      BY <1>5, <3>1 DEF Others, IsListed, SameName
    <3>3. n \in visited
      BY <1>5, <3>1, <3>2 DEF Others, IsListed, SameName
    <3> QED BY <3>2, <3>3
  <2> QED BY <2>1
<1>8. OneSpelling(visited)
  BY <1>4 DEF OneSpelling, Others
<1> HIDE DEF visited, all, new, rest
<1>9. Cardinality(visited) = Cardinality(rest)
  <2> DEFINE g == [d \in rest |-> CHOOSE n \in visited : n[1] = d]
  <2>1. \A d \in rest : g[d] \in visited /\ g[d][1] = d
    BY <1>7
  <2>2. g \in [rest -> visited]
    BY <2>1
  <2>3. \A n \in visited : n[1] \in rest /\ g[n[1]] = n
    BY <1>6, <1>8, <2>1 DEF OneSpelling
  <2> HIDE DEF g
  <2>4. g \in Bijection(rest, visited)
    <3>1. g \in Injection(rest, visited)
      BY <2>1, <2>2 DEF Injection, IsInjective
    <3>2. g \in Surjection(rest, visited)
      BY <2>2, <2>3 DEF Surjection
    <3> QED BY <3>1, <3>2 DEF Bijection
  <2>5. IsFiniteSet(rest)
    BY FS_Subset DEF rest
  <2> QED BY <2>4, <2>5, FS_Bijection DEF ExistsBijection
<1>10. {n[1] : n \in visited} = rest
  BY <1>6, <1>7
<1> QED BY <1>1, <1>3, <1>4, <1>9, <1>10 DEF rest

LEMMA StreamKeeps ==
    ASSUME NEW names, \A name \in names : platform = "wsl" => name # Absent /\ name[1] = Here,
           StreamInv, [StreamPlanNext(names)]_planVars
    PROVE  StreamInv' /\ platform' = platform
<1>1. CASE UNCHANGED planVars
  BY <1>1 DEF StreamInv, StreamVisitsRunning, PlanIs, planVars
<1>2. CASE DistroChanges
  <2>1. UNCHANGED <<platform, plan, capture, listings>> /\ running' \subseteq Distros
    BY <1>2 DEF DistroChanges, StreamInv
  <2> QED BY <2>1 DEF StreamInv, StreamVisitsRunning, PlanIs
<1>3. ASSUME capture = Idle, NEW name \in names, MakePlan(name, TRUE, TRUE) PROVE StreamInv' /\ platform' = platform
  <2>1. UNCHANGED <<platform, capture>> /\ running' \subseteq Distros
    BY <1>3, PlanAssumption DEF MakePlan, StreamInv
  <2>2. PICK default, listing : /\ listing \in {Unknown, Listing'}
                                /\ plan' = StreamPlan(NativePlan(name, TRUE, default, listing))
    BY <1>3 DEF MakePlan
  <2>3. OneSpelling(Listing')
    BY DEF OneSpelling, Listing, Listed
  <2>4. ASSUME plan' # Absent PROVE PlanIs(plan') /\ OneSpelling(plan'.additional)
    <3>1. PICK listed, native : listed = Listing' /\ native = plan'
      OBVIOUS
    <3>2. PICK wslOnly : wslOnly = TRUE
      OBVIOUS
    <3>3. native = StreamPlan(NativePlan(name, wslOnly, default, listing)) /\ listing \in {Unknown, listed}
          /\ OneSpelling(listed) /\ native # Absent
      BY <2>2, <2>3, <2>4, <3>1, <3>2
    <3>4. platform = "wsl" => name # Absent /\ name[1] = Here
      OBVIOUS
    <3>5. PlanIs(native) /\ OneSpelling(native.additional)
      BY <3>3, <3>4, PlanLists
    <3> QED BY <3>1, <3>5
  <2>5. StreamVisitsRunning'
    BY <1>3, <2>1 DEF StreamVisitsRunning, Idle
  <2> QED BY <2>1, <2>4, <2>5 DEF StreamInv
<1>4. ASSUME plan # Absent, StreamSample PROVE StreamInv' /\ platform' = platform
  <2>1. PICK failed : LET sample == StreamSnapshot(plan, Listing, failed)
                      IN  /\ plan' = sample.plan
                          /\ capture' = [capture EXCEPT !.at = "stream", !.result = [sample EXCEPT !.plan = Absent]]
    BY <1>4 DEF StreamSample
  <2>2. PICK sample : sample = StreamSnapshot(plan, Listing, failed)
    OBVIOUS
  <2>3. UNCHANGED <<platform, running>> /\ listings' = <<running>> /\ plan' = sample.plan
    BY <1>4, <2>1, <2>2 DEF StreamSample
  <2>4. IsFiniteSet(running)
    BY PlanAssumption, FS_Subset DEF StreamInv
  <2>5. /\ PlanIs(sample.plan) /\ sample.plan.samples = plan.samples /\ OneSpelling(sample.plan.additional)
        /\ {n[1] : n \in sample.runningSources} = running \ {plan.samples}
        /\ Cardinality(sample.runningSources) = Cardinality(running \ {plan.samples})
        /\ sample.snapshots \cup sample.failures = sample.runningSources
        /\ sample.snapshots \cap sample.failures = {}
    BY <1>4, <2>2, <2>4, SnapshotVisits DEF StreamInv
  <2>6. PICK result : result = [sample EXCEPT !.plan = Absent]
    OBVIOUS
  <2>7. /\ result.runningSources = sample.runningSources /\ result.snapshots = sample.snapshots
        /\ result.failures = sample.failures
    BY <2>2, <2>6 DEF StreamSnapshot
  <2>8. capture'.at = "stream" => capture'.result = result
    BY <2>1, <2>2, <2>6
  <2>9. StreamVisitsRunning'
    BY <2>3, <2>5, <2>7, <2>8 DEF StreamVisitsRunning
  <2> QED BY <2>3, <2>5, <2>9 DEF StreamInv
<1> QED BY <1>1, <1>2, <1>3, <1>4 DEF StreamPlanNext

\* Every call of a stream visits each distribution that runs but the primary one,
\* by one collector, and none that has stopped (collector.rs:105).
THEOREM StreamDistributionsOnce ==
    ASSUME NEW begin \in SUBSET Distros, NEW names
    PROVE  /\ StreamPlanSpec(begin, names) /\ [](captures = <<>>)
           /\ \A name \in names : platform = "wsl" => name # Absent /\ name[1] = Here
           => []DistributionsOnce
<1> DEFINE Known == \A name \in names : platform = "wsl" => name # Absent /\ name[1] = Here
<1>1. InitPlan(begin) => StreamInv
  BY PlanAssumption DEF InitPlan, StreamInv, StreamVisitsRunning, Idle
<1>2. StreamInv /\ Known /\ [StreamPlanNext(names)]_planVars => (StreamInv /\ Known)'
  BY StreamKeeps
<1>3. StreamInv /\ captures = <<>> => DistributionsOnce
  BY DEF StreamInv, DistributionsOnce, EachDistributionOnce
<1> HIDE DEF Known
<1>4. StreamPlanSpec(begin, names) /\ [](captures = <<>>) /\ Known => []DistributionsOnce
  BY <1>1, <1>2, <1>3, PTL DEF StreamPlanSpec
<1> QED BY <1>4 DEF Known

-----------------------------------------------------------------------------
(* What a sample measures: the readings of Windows and the results of the   *)
(* threads.                                                                 *)
(****************************************************************************)

Running == {"spawn", "middle", "join", "after", "windows after", "assemble", "published"}

\* The processes of Windows that a reading can have.
WindowsPids == (config.hosts \cup WindowsNames) \ {IdleName}
WindowsSample(name, n) == Sample("windows", NoSource, name, 1, name, n, 1)

IsReading(w, n) ==
    /\ w.cpus \in CpuCounts /\ w.timestamp = n
    /\ w.samples = {WindowsSample(name, n) : name \in WindowsPids}

WindowsInv ==
    ~config.wslOnly =>
        /\ pc \in Running => IsReading(windows[1], 1)
        /\ pc \in Running \ {"assemble", "published"} => windows = <<windows[1]>>
        /\ pc \in {"assemble", "published"} => IsReading(windows[2], 3)

IsResult(r, x) ==
    \/ x \in {Absent, Failed}
    \/ ~IsFailed(x) /\ \E output \in Outputs, tries \in Printed : x = Collected(r, output, tries)

\* The places of the main thread before the threads are spawned.
BeforeSpawn == {"plan", "before", "windows before", "spawn"}

ResultsInv ==
    \A r \in Runtimes :
        /\ pc \in BeforeSpawn => worker[r].at = "off"
        /\ worker[r].at \in {"off", "baseline", "usage"} => worker[r].result = Absent
        /\ IsResult(r, worker[r].result)

CapturedInv ==
    /\ pc \in Running \cup {"windows before"} => captures[1] # Unknown
    /\ pc \in {"windows after", "assemble", "published"} => captures[3] # Unknown

MeasureInv == WindowsInv /\ ResultsInv /\ CapturedInv

LEMMA ReadingsAre ==
    ASSUME Len(captures) \in Nat \ {0}, NEW counted, counted.count \in CpuCounts, NEW w \in Readings(counted)
    PROVE  IsReading(w, Len(captures))
<1>1. PICK n \in Nat \ {0} : n = Len(captures)
  OBVIOUS
<1>2. PICK accounting : w = WindowsReading(counted.count, accounting)
  BY DEF Readings
<1> DEFINE names == config.hosts \cup WindowsNames \cup {IdleName}
           all == {WindowsSample(name, n) : name \in names}
           host == [timestamp |-> 2 * Len(captures), idle |-> Len(captures)]
           raw == [idle |-> IdleName, cpus |-> counted.count, timestamp |-> n, accounting |-> accounting,
                   host |-> host, samples |-> all]
<1>3. w = ParseWindows(raw)
  BY <1>1, <1>2, Zenon DEF WindowsReading, WindowsSample
<1>4. counted.count # 0 /\ n # 0
  BY <1>1, MonitorAssumption
<1>5. \A s \in all : s.cpu = n /\ ~(s.cpu < 0)
  BY <1>1 DEF WindowsSample, Sample
<1>6. w = [raw EXCEPT !.samples = {s \in all : s.name # IdleName}]
  <2>1. raw.cpus # 0 /\ raw.timestamp # 0 /\ raw.samples = all /\ raw.idle = IdleName
    BY <1>4
  <2> HIDE DEF raw, all
  <2> QED BY <1>3, <1>5, <2>1 DEF ParseWindows
<1>7. w.cpus = counted.count /\ w.timestamp = n /\ w.samples = {s \in all : s.name # IdleName}
  BY <1>6
<1>8. {s \in all : s.name # IdleName} = {WindowsSample(name, n) : name \in WindowsPids}
  <2>1. \A name : WindowsSample(name, n).name = name
    BY DEF WindowsSample, Sample
  <2> QED BY <2>1 DEF WindowsPids
<1> QED BY <1>1, <1>7, <1>8 DEF IsReading

LEMMA MeasureInit ==
    ASSUME NEW begin, NEW configs, InitPlan(begin), InitMonitor(configs)
    PROVE  MeasureInv
<1>1. pc = "plan" /\ worker = [r \in Runtimes |-> [at |-> "off", probes |-> {}, result |-> Absent]]
  BY DEF InitMonitor
<1>2. WindowsInv /\ CapturedInv
  BY <1>1 DEF WindowsInv, CapturedInv, Running
<1>3. ResultsInv
  BY <1>1 DEF ResultsInv, IsResult
<1> QED BY <1>2, <1>3 DEF MeasureInv

\* Steps that change nothing of what was measured.
LEMMA WindowsKept ==
    ASSUME WindowsInv, UNCHANGED <<config, windows>>,
           pc' \in Running => pc \in Running,
           pc' \in Running \ {"assemble", "published"} => pc \in Running \ {"assemble", "published"},
           pc' \in {"assemble", "published"} => pc \in {"assemble", "published"}
    PROVE  WindowsInv'
<1>1. \A w, n : IsReading(w, n)' <=> IsReading(w', n)
  BY DEF IsReading, WindowsPids
<1> QED BY <1>1 DEF WindowsInv, IsReading, WindowsPids, Running

LEMMA ResultsKept ==
    ASSUME ResultsInv, UNCHANGED <<collectorCpus, worker>>,
           pc' \in BeforeSpawn => pc \in BeforeSpawn
    PROVE  ResultsInv'
<1>1. \A r \in Runtimes : IsResult(r, worker[r].result)' <=> IsResult(r, worker[r].result)
  BY DEF IsResult, Collected
<1> QED BY <1>1 DEF ResultsInv, BeforeSpawn

LEMMA CapturedKept ==
    ASSUME CapturedInv, UNCHANGED captures,
           pc' \in Running \cup {"windows before"} => pc \in Running \cup {"windows before"},
           pc' \in {"windows after", "assemble", "published"} => pc \in {"windows after", "assemble", "published"}
    PROVE  CapturedInv'
BY DEF CapturedInv, Running

LEMMA PlanMeasures == SampleInv /\ MeasureInv /\ Plan => MeasureInv'
<1> SUFFICES ASSUME SampleInv, MeasureInv, Plan PROVE MeasureInv'
  OBVIOUS
<1>1. pc = "plan" /\ pc' \in {"before", "failed"} /\ UNCHANGED <<config, captures, collectorCpus, windows, worker>>
  BY NextStages DEF Plan
<1> QED BY <1>1, WindowsKept, ResultsKept, CapturedKept DEF MeasureInv, Running, BeforeSpawn

LEMMA CaptureMeasures == SampleInv /\ MeasureInv /\ CaptureAll => MeasureInv'
<1> SUFFICES ASSUME SampleInv, MeasureInv, CaptureAll PROVE MeasureInv'
  OBVIOUS
<1>1. pc \in {"before", "middle", "after"} /\ UNCHANGED <<config, cpus, collectorCpus, windows, worker, published>>
  BY DEF CaptureAll
<1>2. CASE UNCHANGED <<pc, captures>>
  BY <1>1, <1>2, WindowsKept, ResultsKept, CapturedKept DEF MeasureInv
<1>3. CASE /\ captures' = Append(captures, capture.result)
           /\ pc' = IF capture.result = Unknown /\ pc # "middle" THEN "failed" ELSE NextStage
  <2>1. IsSeq(captures) /\ pc = "before" => Len(captures) = 0
    BY DEF SampleInv, ControlInv
  <2>2. IsSeq(captures) /\ (pc = "middle" => Len(captures) = 1) /\ (pc = "after" => Len(captures) = 2)
    BY DEF SampleInv, ControlInv
  <2>3. CASE pc = "before"
    <3>1. pc' = "failed" \/ (pc' = "windows before" /\ capture.result # Unknown)
      BY <1>3, <2>3, NextStages
    <3>2. captures'[1] = capture.result
      BY <1>3, <2>1, <2>2, <2>3, SeqAppend
    <3>3. CapturedInv'
      BY <3>1, <3>2 DEF CapturedInv, Running
    <3> QED BY <1>1, <2>3, <3>1, <3>3, WindowsKept, ResultsKept DEF MeasureInv, Running, BeforeSpawn
  <2>4. CASE pc = "middle"
    <3>1. pc' = "join"
      BY <1>3, <2>4, NextStages
    <3>2. captures'[1] = captures[1]
      BY <1>3, <2>2, <2>4, SeqAppend
    <3>3. CapturedInv'
      BY <2>4, <3>1, <3>2 DEF CapturedInv, MeasureInv, Running
    <3> QED BY <1>1, <2>4, <3>1, <3>3, WindowsKept, ResultsKept DEF MeasureInv, Running, BeforeSpawn
  <2>5. CASE pc = "after"
    <3>1. pc' = "failed" \/ (pc' = "windows after" /\ capture.result # Unknown)
      BY <1>3, <2>5, NextStages
    <3>2. captures'[1] = captures[1] /\ captures'[3] = capture.result
      <4>1. PICK e : e = capture.result
        OBVIOUS
      <4>2. PICK n : n = Len(captures) /\ n + 1 = 3
        BY <2>2, <2>5
      <4>3. Append(captures, e)[n + 1] = e
        BY <2>2, <4>2, SeqAppend
      <4>4. 1 \in DOMAIN captures
        BY <2>2, <2>5, SeqAppend
      <4>5. Append(captures, e)[1] = captures[1]
        BY <2>2, <4>4, SeqAppend
      <4> QED BY <1>3, <4>1, <4>2, <4>3, <4>5
    <3>3. CapturedInv'
      BY <2>5, <3>1, <3>2 DEF CapturedInv, MeasureInv, Running
    <3> QED BY <1>1, <2>5, <3>1, <3>3, WindowsKept, ResultsKept DEF MeasureInv, Running, BeforeSpawn
  <2> QED BY <1>1, <2>3, <2>4, <2>5
<1> QED BY <1>2, <1>3 DEF CaptureAll, planVars

LEMMA WindowsBeforeMeasures == SampleInv /\ MeasureInv /\ WindowsBefore => MeasureInv'
<1> SUFFICES ASSUME SampleInv, MeasureInv, WindowsBefore PROVE MeasureInv'
  OBVIOUS
<1>1. pc = "windows before" /\ UNCHANGED <<config, captures, worker>> /\ Len(captures) = 1 /\ cpus \in {0} \cup CpuCounts
  BY DEF WindowsBefore, SampleInv, ControlInv, CpusInv
<1>2. CASE pc' = "failed" /\ UNCHANGED <<windows, collectorCpus>>
  BY <1>1, <1>2, WindowsKept, ResultsKept, CapturedKept DEF MeasureInv, Running, BeforeSpawn
<1>3. ASSUME pc' = "spawn", NEW counted \in Counted(cpus),
             IF config.wslOnly THEN windows' = <<>> ELSE \E reading \in Readings(counted) : windows' = <<reading>>
      PROVE  MeasureInv'
  <2>1. counted.count \in CpuCounts
    BY <1>1, CountsAreKnown
  <2>2. WindowsInv'
    <3> SUFFICES ASSUME ~config.wslOnly PROVE IsReading(windows[1], 1)' /\ windows' = <<windows'[1]>>
      BY <1>1, <1>3 DEF WindowsInv, Running
    <3>1. PICK w : windows' = <<w>> /\ w \in Readings(counted)
      BY <1>3
    <3>2. IsReading(w, 1)
      <4>0. PICK n : n = Len(captures) /\ n = 1
        BY <1>1
      <4>1. Len(captures) \in Nat \ {0}
        BY <4>0
      <4>2. IsReading(w, Len(captures))
        BY <2>1, <3>1, <4>1, ReadingsAre
      <4> QED BY <1>1, <4>2
    <3>3. windows'[1] = w /\ config' = config
      BY <1>1, <3>1
    <3> QED BY <3>1, <3>2, <3>3 DEF IsReading, WindowsPids
  <2>3. ResultsInv'
    <3>1. \A r \in Runtimes : worker[r].at = "off" /\ worker[r].result = Absent
      BY <1>1 DEF MeasureInv, ResultsInv, BeforeSpawn
    <3> QED BY <1>1, <1>3, <3>1 DEF ResultsInv, IsResult
  <2>4. CapturedInv'
    BY <1>1, <1>3, CapturedKept DEF MeasureInv, Running
  <2> QED BY <2>2, <2>3, <2>4 DEF MeasureInv
<1> QED BY <1>1, <1>2, <1>3, NextStages DEF WindowsBefore

LEMMA SpawnMeasures == SampleInv /\ MeasureInv /\ Spawn => MeasureInv'
<1> SUFFICES ASSUME SampleInv, MeasureInv, Spawn PROVE MeasureInv'
  OBVIOUS
<1>1. pc = "spawn" /\ pc' = "middle" /\ UNCHANGED <<config, captures, collectorCpus, windows>>
  BY NextStages DEF Spawn
<1>2. WindowsInv' /\ CapturedInv'
  BY <1>1, WindowsKept, CapturedKept DEF MeasureInv, Running
<1>3. ASSUME NEW r \in Runtimes PROVE worker'[r].result = worker[r].result
  <2>1. worker[r] = [at |-> worker[r].at, probes |-> worker[r].probes, result |-> worker[r].result]
        /\ worker[r].at \in {"off", "baseline", "usage", "done", "panicked"}
    BY DEF SampleInv, WorkersInv
  <2>2. worker'[r] = [worker[r] EXCEPT !.at = "baseline"] \/ worker'[r] = worker[r]
    BY DEF Spawn
  <2> QED BY <2>1, <2>2
<1>4. ResultsInv'
  <2>1. \A r \in Runtimes : worker[r].at = "off" /\ worker[r].result = Absent
    BY <1>1 DEF MeasureInv, ResultsInv, BeforeSpawn
  <2>2. \A r \in Runtimes : worker'[r].result = Absent
    BY <1>3, <2>1
  <2> QED BY <1>1, <2>2 DEF ResultsInv, IsResult, BeforeSpawn
<1> QED BY <1>2, <1>4 DEF MeasureInv

LEMMA JoinMeasures == SampleInv /\ MeasureInv /\ Join => MeasureInv'
<1> SUFFICES ASSUME SampleInv, MeasureInv, Join PROVE MeasureInv'
  OBVIOUS
<1>1. pc = "join" /\ pc' = "after" /\ UNCHANGED <<config, captures, collectorCpus, windows, worker>>
  BY NextStages DEF Join
<1> QED BY <1>1, WindowsKept, ResultsKept, CapturedKept DEF MeasureInv, Running, BeforeSpawn

LEMMA WindowsAfterMeasures == SampleInv /\ MeasureInv /\ WindowsAfter => MeasureInv'
<1> SUFFICES ASSUME SampleInv, MeasureInv, WindowsAfter PROVE MeasureInv'
  OBVIOUS
<1>1. /\ pc = "windows after" /\ pc' \in {"failed", "assemble"} /\ UNCHANGED <<config, captures, collectorCpus, worker>>
      /\ Len(captures) = 3 /\ cpus \in {0} \cup CpuCounts
  BY NextStages DEF WindowsAfter, SampleInv, ControlInv, CpusInv
<1>2. ResultsInv' /\ CapturedInv'
  BY <1>1, ResultsKept, CapturedKept DEF MeasureInv, Running, BeforeSpawn
<1>3. CASE pc' = "failed" \/ config.wslOnly
  BY <1>1, <1>2, <1>3 DEF MeasureInv, WindowsInv, Running
<1>4. CASE pc' = "assemble" /\ ~config.wslOnly
  <2>1. Len(captures) \in Nat \ {0}
    <3>1. PICK n : n = Len(captures) /\ n = 3
      BY <1>1
    <3> QED BY <3>1
  <2>2. PICK b : b = windows[1] /\ windows = <<b>> /\ IsReading(b, 1)
    BY <1>1, <1>4 DEF MeasureInv, WindowsInv, Running
  <2>3. PICK w : windows' = Append(windows, w) /\ IsReading(w, 3)
    <3>1. PICK counted, reading :
            /\ counted \in Counted(cpus) /\ reading \in Readings(counted)
            /\ \/ windows' = Append(windows, reading)
              \/ \E c \in Counted(Kept(cpus, counted)) : \E retry \in Readings(c) :
                     windows' = Append(windows, RetryInitialSample(windows[1], reading, retry))
      <4>1. pc' # "failed" /\ ~config.wslOnly
        BY <1>4
      <4> QED BY <4>1, Zenon DEF WindowsAfter
    <3>2. IsReading(reading, 3) /\ Kept(cpus, counted) \in {0} \cup CpuCounts
      <4>1. counted.count \in CpuCounts /\ Kept(cpus, counted) \in {0} \cup CpuCounts
        BY <1>1, <3>1, CountsAreKnown
      <4>2. IsReading(reading, Len(captures))
        BY <2>1, <3>1, <4>1, ReadingsAre
      <4> QED BY <1>1, <4>1, <4>2
    <3>3. CASE windows' = Append(windows, reading)
      BY <3>2, <3>3
    <3>4. ASSUME NEW c \in Counted(Kept(cpus, counted)), NEW retry \in Readings(c),
                 windows' = Append(windows, RetryInitialSample(windows[1], reading, retry))
          PROVE  \E w : windows' = Append(windows, w) /\ IsReading(w, 3)
      <4>1. c.count \in CpuCounts
        BY <3>2, CountsAreKnown
      <4>2. IsReading(retry, Len(captures))
        BY <2>1, <4>1, ReadingsAre
      <4>3. IsReading(retry, 3)
        BY <1>1, <4>2
      <4>4. RetryInitialSample(windows[1], reading, retry) \in {reading, retry}
        BY DEF RetryInitialSample
      <4> QED BY <3>2, <3>4, <4>3, <4>4
    <3> QED BY <3>1, <3>3, <3>4
  <2>4. PICK v : v = <<b>> /\ IsSeq(v) /\ Len(v) = 1 /\ v[1] = b
    <3>1. b \in {b}
      OBVIOUS
    <3>2. <<b>> \in Seq({b})
      BY <3>1
    <3>3. Len(<<b>>) = 1 /\ <<b>>[1] = b
      OBVIOUS
    <3>4. PICK v : v = <<b>>
      OBVIOUS
    <3> QED BY <3>2, <3>3, <3>4, Zenon DEF IsSeq
  <2>5. windows'[1] = b /\ windows'[2] = w
    <3>1. windows' = Append(v, w)
      BY <2>2, <2>3, <2>4
    <3>2. 1 \in DOMAIN v /\ Len(v) + 1 = 2
      BY <2>4, SeqAppend
    <3>3. Append(v, w)[Len(v) + 1] = w /\ Append(v, w)[1] = v[1]
      BY <2>4, <3>2, SeqAppend
    <3> QED BY <2>4, <3>1, <3>2, <3>3
  <2>6. config' = config
    BY <1>1
  <2>7. WindowsInv'
    <3>1. IsReading(windows[1], 1)'
      BY <2>2, <2>5, <2>6 DEF IsReading, WindowsPids
    <3>2. IsReading(windows[2], 3)'
      BY <2>3, <2>5, <2>6 DEF IsReading, WindowsPids
    <3> QED BY <1>4, <3>1, <3>2 DEF WindowsInv
  <2> QED BY <1>2, <2>7 DEF MeasureInv
<1> QED BY <1>1, <1>3, <1>4

LEMMA AssembleMeasures == SampleInv /\ MeasureInv /\ Assemble => MeasureInv'
<1> SUFFICES ASSUME SampleInv, MeasureInv, Assemble PROVE MeasureInv'
  OBVIOUS
<1>1. pc = "assemble" /\ pc' = "published" /\ UNCHANGED <<config, captures, collectorCpus, windows, worker>>
  BY DEF Assemble, SnapshotReturned
<1> QED BY <1>1, WindowsKept, ResultsKept, CapturedKept DEF MeasureInv, Running, BeforeSpawn

LEMMA CollectorMeasures == ASSUME SampleInv, MeasureInv, NEW r \in Runtimes, CollectorStep(r) PROVE MeasureInv'
<1>1. /\ UNCHANGED <<config, pc, captures, collectorCpus, windows>>
      /\ worker[r].at \in {"baseline", "usage"}
      /\ worker[r] = [at |-> worker[r].at, probes |-> worker[r].probes, result |-> worker[r].result]
      /\ worker = [s \in Runtimes |-> worker[s]]
  BY DEF CollectorStep, Baseline, Usage, MonitorWorkerPanics, SampleInv, WorkersInv, sampleVars
<1>2. WindowsInv' /\ CapturedInv'
  BY <1>1, WindowsKept, CapturedKept DEF MeasureInv
<1>3. ASSUME NEW x, IsResult(r, x), worker'[r].result = x, worker'[r].at \notin {"off", "baseline", "usage"} \/ x = Absent,
             \A s \in Runtimes : s # r => worker'[s] = worker[s], worker'[r].at # "off"
      PROVE  ResultsInv'
  <2>1. pc \notin BeforeSpawn
    BY <1>1 DEF MeasureInv, ResultsInv
  <2>2. \A s, y : IsResult(s, y)' <=> IsResult(s, y')
    BY <1>1 DEF IsResult, Collected
  <2>3. ASSUME NEW s \in Runtimes
        PROVE  /\ worker'[s].at \in {"off", "baseline", "usage"} => worker'[s].result = Absent
               /\ IsResult(s, worker'[s].result)
    BY <1>3 DEF MeasureInv, ResultsInv
  <2>4. \A s \in Runtimes : IsResult(s, worker[s].result)'
    <3>1. \A s, o, t : Collected(s, o, t)' = Collected(s, o, t)
      BY <1>1 DEF Collected
    <3> QED BY <2>3, <3>1 DEF IsResult
  <2> QED BY <1>1, <2>1, <2>3, <2>4 DEF ResultsInv
<1>4. PICK b : b = worker[r] /\ b = [at |-> b.at, probes |-> b.probes, result |-> b.result]
  BY <1>1
<1>5. CASE WorkerEnds(r, Failed)
  <2>1. worker'[r] = [b EXCEPT !.at = "done", !.result = Failed] /\ \A s \in Runtimes : s # r => worker'[s] = worker[s]
    BY <1>1, <1>4, <1>5 DEF WorkerEnds
  <2>2. worker'[r].at = "done" /\ worker'[r].result = Failed
    BY <1>4, <2>1
  <2>3. ResultsInv'
    BY <1>3, <2>1, <2>2 DEF IsResult
  <2> QED BY <1>2, <2>3 DEF MeasureInv
<1>6. CASE Baseline(r)
  <2>1. PICK output \in Outputs :
            IF IsFailed(AggregateUsage(r, output, collectorCpus)) THEN WorkerEnds(r, Failed)
            ELSE worker' = [worker EXCEPT ![r].at = "usage", ![r].probes = Probes(r, AggregateUsage(r, output, collectorCpus), 1)]
    BY <1>6 DEF Baseline
  <2>2. ASSUME NEW p, worker' = [worker EXCEPT ![r].at = "usage", ![r].probes = p] PROVE MeasureInv'
    <3>1. worker'[r] = [b EXCEPT !.at = "usage", !.probes = p] /\ \A s \in Runtimes : s # r => worker'[s] = worker[s]
      BY <1>1, <1>4, <2>2
    <3>2. worker'[r].at = "usage" /\ worker'[r].result = b.result
      BY <1>4, <3>1
    <3>3. b.result = Absent
      BY <1>1, <1>4 DEF MeasureInv, ResultsInv
    <3>4. ResultsInv'
      BY <1>3, <3>1, <3>2, <3>3 DEF IsResult
    <3> QED BY <1>2, <3>4 DEF MeasureInv
  <2> QED BY <1>5, <2>1, <2>2
<1>7. CASE Usage(r)
  <2>1. PICK output \in Outputs, tries \in Printed :
            IF IsFailed(Collected(r, output, tries)) THEN WorkerEnds(r, Failed)
            ELSE worker' = [worker EXCEPT ![r].at = "done", ![r].result = Collected(r, output, tries),
                                          ![r].probes = @ \cup Probes(r, Collected(r, output, tries).usage, 2)]
    BY <1>7 DEF Usage
  <2>2. CASE ~IsFailed(Collected(r, output, tries))
    <3>1. PICK x : x = Collected(r, output, tries)
      OBVIOUS
    <3>2. PICK p : p = Probes(r, x.usage, 2)
      OBVIOUS
    <3>3. worker' = [worker EXCEPT ![r].at = "done", ![r].result = x, ![r].probes = @ \cup p]
      BY <2>1, <2>2, <3>1, <3>2
    <3>4. worker'[r] = [b EXCEPT !.at = "done", !.result = x, !.probes = b.probes \cup p]
          /\ \A s \in Runtimes : s # r => worker'[s] = worker[s]
      BY <1>1, <1>4, <3>3
    <3>5. worker'[r].at = "done" /\ worker'[r].result = x
      BY <1>4, <3>4
    <3>6. IsResult(r, x)
      BY <2>2, <3>1 DEF IsResult
    <3>7. ResultsInv'
      BY <1>3, <3>4, <3>5, <3>6
    <3> QED BY <1>2, <3>7 DEF MeasureInv
  <2> QED BY <1>5, <2>1, <2>2
<1>8. CASE MonitorWorkerPanics(r)
  <2>1. worker'[r] = [b EXCEPT !.at = "panicked", !.result = Failed] /\ \A s \in Runtimes : s # r => worker'[s] = worker[s]
    BY <1>1, <1>4, <1>8 DEF MonitorWorkerPanics
  <2>2. worker'[r].at = "panicked" /\ worker'[r].result = Failed
    BY <1>4, <2>1
  <2>3. ResultsInv'
    BY <1>3, <2>1, <2>2 DEF IsResult
  <2> QED BY <1>2, <2>3 DEF MeasureInv
<1> QED BY <1>6, <1>7, <1>8 DEF CollectorStep

LEMMA MeasureKeeps == SampleInv /\ MeasureInv /\ [MonitorNext]_monitorVars => MeasureInv'
<1> SUFFICES ASSUME SampleInv, MeasureInv, [MonitorNext]_monitorVars PROVE MeasureInv'
  OBVIOUS
<1>1. CASE UNCHANGED <<config, pc, captures, collectorCpus, windows, worker>>
  BY <1>1, WindowsKept, ResultsKept, CapturedKept DEF MeasureInv
<1>2. CASE MainStep
  BY <1>2, PlanMeasures, CaptureMeasures, WindowsBeforeMeasures, SpawnMeasures, JoinMeasures, WindowsAfterMeasures,
     AssembleMeasures DEF MainStep, Collects
<1>3. CASE \E r \in Runtimes : CollectorStep(r)
  BY <1>3, CollectorMeasures
<1> QED BY <1>1, <1>2, <1>3 DEF MonitorNext, monitorVars, sampleVars

\* A snapshot is published once, of what was measured until then.
LEMMA PublishedAs ==
    SampleInv /\ [MonitorNext]_monitorVars =>
        \/ published' = published
        \/ pc = "assemble" /\ \E metadata \in Metadata, answer \in ExclusiveAnswers(Overlaps(HostCount).targets) :
                                  published' = Assembled(metadata, answer)
<1> SUFFICES ASSUME SampleInv, [MonitorNext]_monitorVars, published' # published
             PROVE  pc = "assemble" /\ \E metadata \in Metadata, answer \in ExclusiveAnswers(Overlaps(HostCount).targets) :
                                          published' = Assembled(metadata, answer)
  OBVIOUS
<1>1. ~UNCHANGED monitorVars /\ ~(\E r \in Runtimes : CollectorStep(r)) /\ ~UNCHANGED sampleVars
  BY DEF monitorVars, sampleVars, CollectorStep
<1>2. ~Plan /\ ~CaptureAll /\ ~WindowsBefore /\ ~Spawn /\ ~Join /\ ~WindowsAfter
  BY DEF Plan, CaptureAll, WindowsBefore, Spawn, Join, WindowsAfter
<1>3. Assemble
  BY <1>1, <1>2 DEF MonitorNext, MainStep, Collects
<1> QED BY <1>3 DEF Assemble, SnapshotReturned

-----------------------------------------------------------------------------
(* The rows of a snapshot: what they look like.                             *)
(****************************************************************************)

\* The share of the host that one CPU is.
Unit(n) == CpuPercent(1, 1, n)

LEMMA Quotient == ASSUME NEW x \in Nat, NEW y \in Nat \ {0}, NEW k \in Nat, x = k * y PROVE x \div y = k
OBVIOUS

LEMMA UnitIs ==
    ASSUME NEW n \in CpuCounts
    PROVE  /\ Unit(n) \in Nat /\ Unit(n) * n = Scale /\ n \in Nat \ {0} /\ n > 0
           /\ CpuPercent(2, 2, n) = Unit(n)
<1>1. PICK k \in 0 .. Scale : Scale = k * n
  BY MonitorAssumption
<1>2. k \in Nat /\ n \in Nat \ {0} /\ Scale \in Nat
  BY MonitorAssumption
<1>3. PICK x, y : x = 2 * Scale /\ y = 2 * n
  OBVIOUS
<1>4. x \in Nat /\ y \in Nat \ {0} /\ x = k * y
  BY <1>1, <1>2, <1>3
<1>5. x \div y = k
  BY <1>2, <1>4, Quotient
<1>6. (1 * Scale) \div (1 * n) = k
  <2>1. 1 * Scale = Scale /\ 1 * n = n
    BY <1>2
  <2>2. Scale \div n = k
    BY <1>1, <1>2, Quotient
  <2> QED BY <2>1, <2>2
<1>7. CpuPercent(2, 2, n) = k /\ CpuPercent(1, 1, n) = k
  BY <1>3, <1>5, <1>6 DEF CpuPercent
<1> QED BY <1>1, <1>2, <1>7 DEF Unit

\* The sources of the distributions: none for the primary one.
GuestSource(s) == s = NoSource \/ \E d : s = <<d>>

LEMMA GuestBuildIs ==
    ASSUME NEW s, GuestSource(s)
    PROVE  LET build == BuildSource(s, BuildId)
           IN  /\ IsBuild(build) /\ BuildDistro(build) = s /\ ~IsBuild(s)
               /\ \A id : <<id>> # build
<1>1. PICK T, n : s \in Seq(T) /\ n = Len(s) /\ n \in {0, 1}
  <2>1. CASE s = NoSource
    <3>1. s \in Seq({0}) /\ Len(s) = 0
      BY <2>1 DEF NoSource
    <3> QED BY <3>1
  <2>2. ASSUME NEW d, s = <<d>> PROVE \E T, n : s \in Seq(T) /\ n = Len(s) /\ n \in {0, 1}
    <3>1. s \in Seq({d}) /\ Len(s) = 1
      BY <2>2
    <3> QED BY <3>1
  <2> QED BY <2>1, <2>2 DEF GuestSource
<1>2. PICK U : s \in Seq(U) /\ 0 \in U /\ 9 \in U
  <2>1. s \in Seq(T \cup {0, 9})
    BY <1>1
  <2> QED BY <2>1
<1>3. PICK source : source = BuildSource(s, BuildId)
  OBVIOUS
<1>4. /\ source \in Seq(U) /\ Len(source) = n + 2 /\ source[1] = 0
      /\ \A i \in 1 .. n : source[i + 1] = s[i]
  <2>1. PICK front : front = <<0>> \o s
    OBVIOUS
  <2>2. /\ front \in Seq(U) /\ Len(front) = n + 1 /\ front[1] = 0
        /\ \A i \in 1 .. n : front[i + 1] = s[i]
    <3>1. <<0>> \in Seq(U) /\ Len(<<0>>) = 1 /\ <<0>>[1] = 0
      BY <1>2
    <3> QED BY <1>1, <1>2, <2>1, <3>1
  <2>3. <<9>> \in Seq(U) /\ Len(<<9>>) = 1
    BY <1>2
  <2>4. source = front \o <<9>>
    BY <1>3, <2>1 DEF BuildSource, BuildId
  <2> QED BY <1>1, <2>2, <2>3, <2>4
<1>5. n \in Nat /\ s \in Seq(U)
  BY <1>1, <1>2
<1>6. BuildDistro(source) = s
  <2>1. BuildDistro(source) = SubSeq(source, 2, n + 1)
    BY <1>4, <1>5 DEF BuildDistro
  <2>2. /\ SubSeq(source, 2, n + 1) \in Seq(U) /\ Len(SubSeq(source, 2, n + 1)) = n
        /\ \A i \in 1 .. n : SubSeq(source, 2, n + 1)[i] = source[i + 1]
    BY <1>4, <1>5, SubSeqProperties
  <2> QED BY <1>1, <1>4, <1>5, <2>1, <2>2, SeqEqual
<1>7. IsBuild(source) /\ ~IsBuild(s)
  BY <1>1, <1>4 DEF IsBuild
<1>8. ASSUME NEW id, <<id>> = source PROVE FALSE
  <2>1. PICK t : t = <<id>> /\ Len(t) = 1
    <3>1. Len(<<id>>) = 1
      OBVIOUS
    <3> QED BY <3>1
  <2>2. Len(source) >= 2
    BY <1>1, <1>4
  <2>3. Len(source) = 1
    BY <1>8, <2>1
  <2> QED BY <2>2, <2>3
<1> QED BY <1>3, <1>6, <1>7, <1>8

-----------------------------------------------------------------------------
(* The rows of distributions.                                               *)
(****************************************************************************)

GuestSample(env, s, pid, at) == Sample(env, s, pid, 1, IF pid = 3 THEN Plan9 ELSE 1, at, 1)

LinuxRow(env, s, pid) == UsageRow(GuestSample(env, s, pid, 1), GuestSample(env, s, pid, 3), 2, HostCount)

GuestSamples(s, at) ==
    {GuestSample("wsl", s, 1, at), GuestSample("wsl", s, 3, at),
     IF config.docker THEN GuestSample("docker", BuildSource(s, BuildId), 2, at) ELSE GuestSample("wsl", s, 2, at)}

LinuxRows(s) ==
    {LinuxRow("wsl", s, 1), LinuxRow("wsl", s, 3),
     IF config.docker THEN LinuxRow("docker", BuildSource(s, BuildId), 2) ELSE LinuxRow("wsl", s, 2)}

Linux == LinuxUsage(captures[1], captures[3], HostCount)

LEMMA ProcessesOfGuest ==
    ASSUME NEW taken, GuestSource(taken.source)
    PROVE  Processes(taken) = GuestSamples(taken.source, taken.at)
<1> DEFINE s == taken.source
           x == Sample("wsl", s, 1, 1, 1, taken.at, 1)
           y == Sample("docker", BuildSource(s, BuildId), 2, 1, 1, taken.at, 1)
           z == Sample("wsl", s, 3, 1, Plan9, taken.at, 1)
           w == Sample("wsl", s, 2, 1, 1, taken.at, 1)
           N(t) == IF t.env = "docker" /\ IsBuild(t.source)
                   THEN [t EXCEPT !.env = "wsl", !.source = BuildDistro(t.source)] ELSE t
<1>1. Processes(taken) = IF config.docker THEN {x, y, z} ELSE {N(x), N(y), N(z)}
  <2>1. NormalizeDisabled({x, y, z}) = {N(t) : t \in {x, y, z}}
    BY DEF NormalizeDisabled
  <2>2. {N(t) : t \in {x, y, z}} = {N(x), N(y), N(z)}
    <3> HIDE DEF x, y, z, N
    <3> QED OBVIOUS
  <2>3. Processes(taken) = IF config.docker THEN {x, y, z} ELSE NormalizeDisabled({x, y, z})
    BY DEF Processes
  <2> HIDE DEF x, y, z, N
  <2> QED BY <2>1, <2>2, <2>3
<1>2. N(x) = x /\ N(z) = z
  BY DEF Sample
<1>3. N(y) = w
  <2>1. PICK b : b = BuildSource(s, BuildId) /\ IsBuild(b) /\ BuildDistro(b) = s
    BY GuestBuildIs
  <2>2. y.env = "docker" /\ y.source = b
    BY <2>1 DEF Sample
  <2>3. N(y) = [y EXCEPT !.env = "wsl", !.source = s]
    BY <2>1, <2>2
  <2> HIDE DEF N
  <2> QED BY <2>3 DEF Sample
<1>4. /\ GuestSample("wsl", s, 1, taken.at) = x /\ GuestSample("wsl", s, 3, taken.at) = z
      /\ GuestSample("docker", BuildSource(s, BuildId), 2, taken.at) = y /\ GuestSample("wsl", s, 2, taken.at) = w
  BY DEF GuestSample
<1> HIDE DEF x, y, z, w, N
<1>5. Processes(taken) = IF config.docker THEN {x, y, z} ELSE {x, w, z}
  BY <1>1, <1>2, <1>3
<1>6. GuestSamples(s, taken.at) = {x, z, IF config.docker THEN y ELSE w}
  BY <1>4 DEF GuestSamples
<1>7. \A q, r, t : {q, r, t} = {q, t, r}
  OBVIOUS
<1> QED BY <1>5, <1>6, <1>7

\* A key names one of the samples of a distribution.
LEMMA SamplesMatch ==
    ASSUME NEW s, NEW x \in GuestSamples(s, 1), NEW y \in GuestSamples(s, 3), SameProcess(x, y)
    PROVE  UsageRow(x, y, 2, HostCount) \in LinuxRows(s)
<1> DEFINE Build == BuildSource(s, BuildId)
<1>1. \A at : \A t \in GuestSamples(s, at) :
          \E env, src, pid : /\ t = GuestSample(env, src, pid, at) /\ t.pid = pid /\ t.env = env /\ t.source = src
                             /\ LinuxRow(env, src, pid) \in LinuxRows(s)
  <2>1. \A env, src, pid, at : /\ GuestSample(env, src, pid, at).pid = pid /\ GuestSample(env, src, pid, at).env = env
                               /\ GuestSample(env, src, pid, at).source = src
    BY DEF GuestSample, Sample
  <2> TAKE at
  <2> TAKE t \in GuestSamples(s, at)
  <2>2. \/ t = GuestSample("wsl", s, 1, at) /\ LinuxRow("wsl", s, 1) \in LinuxRows(s)
        \/ t = GuestSample("wsl", s, 3, at) /\ LinuxRow("wsl", s, 3) \in LinuxRows(s)
        \/ t = GuestSample("docker", Build, 2, at) /\ LinuxRow("docker", Build, 2) \in LinuxRows(s)
        \/ t = GuestSample("wsl", s, 2, at) /\ LinuxRow("wsl", s, 2) \in LinuxRows(s)
    BY Zenon DEF GuestSamples, LinuxRows
  <2>3. \A env, src, pid : t = GuestSample(env, src, pid, at) /\ LinuxRow(env, src, pid) \in LinuxRows(s) =>
            \E e, r, p : /\ t = GuestSample(e, r, p, at) /\ t.pid = p /\ t.env = e /\ t.source = r
                        /\ LinuxRow(e, r, p) \in LinuxRows(s)
    BY <2>1
  <2> HIDE DEF Build
  <2> QED BY <2>2, <2>3, Zenon
<1>2. PICK env, src, pid : x = GuestSample(env, src, pid, 1) /\ x.pid = pid /\ x.env = env /\ x.source = src
                           /\ LinuxRow(env, src, pid) \in LinuxRows(s)
  BY <1>1
<1>3. PICK e, r, p : y = GuestSample(e, r, p, 3) /\ y.pid = p /\ y.env = e /\ y.source = r
  BY <1>1
<1>4. env = e /\ src = r /\ pid = p
  BY <1>2, <1>3 DEF SameProcess, Key
<1> QED BY <1>2, <1>3, <1>4 DEF LinuxRow

LEMMA UsageOfPair ==
    ASSUME NEW b, NEW a, GuestSource(b.source), a.source = b.source, b.at = 1, a.at = 3
    PROVE  /\ UsageOf(Processes(b), Processes(a), a.at - b.at, HostCount) \subseteq LinuxRows(b.source)
           /\ IsFiniteSet(LinuxRows(b.source))
<1>1. /\ Processes(b) = GuestSamples(b.source, 1) /\ Processes(a) = GuestSamples(b.source, 3)
      /\ a.at - b.at = 2
  BY ProcessesOfGuest
<1>2. ASSUME NEW row \in UsageOf(Processes(b), Processes(a), 2, HostCount) PROVE row \in LinuxRows(b.source)
  <2>1. PICK x \in Processes(b), y \in Processes(a) : SameProcess(x, y) /\ row = UsageRow(x, y, 2, HostCount)
    BY <1>2, Zenon DEF UsageOf
  <2> QED BY <1>1, <2>1, SamplesMatch
<1>3. \A x, y, z : IsFiniteSet({x, y, z})
  <2> TAKE x, y, z
  <2>1. IsFiniteSet({x}) /\ IsFiniteSet({y}) /\ IsFiniteSet({z})
    BY FS_Singleton
  <2>2. IsFiniteSet({x} \cup {y})
    BY <2>1, FS_Union
  <2>3. IsFiniteSet(({x} \cup {y}) \cup {z})
    BY <2>1, <2>2, FS_Union
  <2>4. {x, y, z} = ({x} \cup {y}) \cup {z}
    OBVIOUS
  <2> QED BY <2>3, <2>4
<1> QED BY <1>1, <1>2, <1>3, Zenon DEF LinuxRows

\* All that the captures measured together needs for the rows of a snapshot.
Measured == SampleInv /\ MeasureInv /\ pc = "assemble"

LEMMA LinuxIs ==
    ASSUME Measured
    PROVE  IsFiniteSet(Linux) /\ \A row \in Linux : \E s : GuestSource(s) /\ row \in LinuxRows(s)
<1>1. /\ ResultIs(captures[1], 1, plan.samples) /\ ResultIs(captures[3], 3, plan.samples)
      /\ HasPrimary(captures[1], 1, plan.samples) /\ HasPrimary(captures[3], 3, plan.samples)
  <2>1. Len(captures) = 3 /\ IsSeq(captures) /\ captures[1] # Unknown /\ captures[3] # Unknown
    BY DEF Measured, SampleInv, ControlInv, MeasureInv, CapturedInv, Running
  <2>2. 1 \in DOMAIN captures /\ 3 \in DOMAIN captures
    BY <2>1, SeqAppend
  <2> QED BY <2>1, <2>2 DEF Measured, SampleInv, CapturesInv
<1> DEFINE Rows(b, a) == UsageOf(Processes(b), Processes(a), a.at - b.at, HostCount)
           pairs == {p \in captures[1].additional \X captures[3].additional : SameName(p[1][1], p[2][1])}
           primary == Rows(captures[1].primary, captures[3].primary)
           f == [p \in pairs |-> Rows(p[1][2], p[2][2])]
<1>2. Linux = primary \cup UNION {f[p] : p \in pairs}
  BY DEF Linux, LinuxUsage
<1>3. IsFiniteSet(primary) /\ \A row \in primary : \E s : GuestSource(s) /\ row \in LinuxRows(s)
  <2>1. PICK b, a : /\ b = captures[1].primary /\ a = captures[3].primary
                    /\ b.source = NoSource /\ a.source = NoSource /\ b.at = 1 /\ a.at = 3
    BY <1>1 DEF HasPrimary
  <2>2. GuestSource(b.source)
    BY <2>1 DEF GuestSource
  <2>3. Rows(b, a) \subseteq LinuxRows(b.source) /\ IsFiniteSet(LinuxRows(b.source))
    BY <2>1, <2>2, UsageOfPair
  <2>4. IsFiniteSet(Rows(b, a))
    BY <2>3, FS_Subset
  <2>5. primary = Rows(b, a)
    BY <2>1
  <2> HIDE DEF primary, Rows
  <2> QED BY <2>2, <2>3, <2>4, <2>5
<1>4. ASSUME NEW p \in pairs
      PROVE  IsFiniteSet(f[p]) /\ \A row \in f[p] : \E s : GuestSource(s) /\ row \in LinuxRows(s)
  <2>1. PICK b, a : /\ b = p[1][2] /\ a = p[2][2] /\ GuestSource(b.source)
                    /\ a.source = b.source /\ b.at = 1 /\ a.at = 3
    <3>1. PICK x \in captures[1].additional, y \in captures[3].additional : p = <<x, y>> /\ SameName(x[1], y[1])
      OBVIOUS
    <3>2. /\ x[2].source = <<x[1][1]>> /\ x[2].at = 1 /\ y[2].source = <<y[1][1]>> /\ y[2].at = 3
          /\ x[1][1] = y[1][1]
      BY <1>1, <3>1 DEF ResultIs, SameName
    <3>3. p[1] = x /\ p[2] = y
      BY <3>1
    <3> QED BY <3>2, <3>3 DEF GuestSource
  <2>3. Rows(b, a) \subseteq LinuxRows(b.source) /\ IsFiniteSet(LinuxRows(b.source))
    BY <2>1, UsageOfPair
  <2>4. IsFiniteSet(Rows(b, a))
    BY <2>3, FS_Subset
  <2>5. f[p] = Rows(b, a)
    BY <2>1
  <2> HIDE DEF f, Rows
  <2> QED BY <2>1, <2>3, <2>4, <2>5
<1>5. IsFiniteSet(pairs)
  <2>1. IsFiniteSet(captures[1].additional \X captures[3].additional)
    BY <1>1, FS_Product DEF ResultIs
  <2> QED BY <2>1, FS_Subset
<1> HIDE DEF pairs, f, primary
<1>6. IsFiniteSet({f[p] : p \in pairs})
  BY <1>5, ImageFinite
<1>7. IsFiniteSet(UNION {f[p] : p \in pairs})
  BY <1>4, <1>6, FS_UNION
<1>8. IsFiniteSet(Linux)
  BY <1>2, <1>3, <1>7, FS_Union
<1> QED BY <1>2, <1>3, <1>4, <1>8

LEMMA LinuxRowIs ==
    ASSUME HostCount \in CpuCounts, NEW env \in {"wsl", "docker"}, NEW s, NEW pid
    PROVE  LET row == LinuxRow(env, s, pid)
           IN  /\ IsRow(row) /\ row.env = env /\ row.source = s /\ row.id = <<pid>> /\ row.cpu = Unit(HostCount)
               /\ row.kind \in {"process", "infra"} /\ (env = "docker" => row.kind = "process")
<1>1. PICK x, y, n, k : /\ x = GuestSample(env, s, pid, 1) /\ y = GuestSample(env, s, pid, 3) /\ n = HostCount
                        /\ k = Classify(y)
  OBVIOUS
<1>2. x.cpu = 1 /\ y.cpu = 3 /\ y.env = env /\ y.source = s /\ y.pid = pid
  BY <1>1 DEF GuestSample, Sample
<1>3. k \in {"process", "infra"} /\ (env = "docker" => k = "process")
  BY <1>1, <1>2 DEF Classify
<1>4. CpuPercent(y.cpu - x.cpu, 2, n) = Unit(n)
  BY <1>1, <1>2, UnitIs
<1>5. LinuxRow(env, s, pid) = Row(env, s, k, <<pid>>, y.start, y.name, Unit(n), y.memory)
  BY <1>1, <1>2, <1>4 DEF LinuxRow, UsageRow
<1> QED BY <1>1, <1>3, <1>5 DEF Row, IsRow

\* What is counted as a build: one process of a distribution.
BuildItem(s) == Executor(BuildSource(s, BuildId), {LinuxRow("docker", BuildSource(s, BuildId), 2)})

\* The builds that the rows of the distributions hold.
Executing == TakeUsage(Linux, config.docker).containers

LEMMA LinuxTaken ==
    ASSUME Measured, HostCount \in CpuCounts
    PROVE  /\ IsFiniteSet(Merged.linux) /\ IsFiniteSet(Executing)
           /\ Merged.containers = UsageIn(ResultOf("docker", HostCount)).details \cup Executing
           /\ \A row \in Merged.linux : \E s, pid : GuestSource(s) /\ row = LinuxRow("wsl", s, pid)
           /\ \A item \in Executing : \E s : GuestSource(s) /\ item = BuildItem(s)
<1> DEFINE builds == {row \in Linux : IsBuildRow(row)}
           taken == TakeUsage(Linux, config.docker)
<1>1. Merged.linux = taken.rows /\ Merged.containers = UsageIn(ResultOf("docker", HostCount)).details \cup taken.containers
  BY DEF Merged, MergeDocker, Linux
<1>2. ASSUME NEW row \in Linux
      PROVE  \/ ~IsBuildRow(row) /\ \E s, pid : GuestSource(s) /\ row = LinuxRow("wsl", s, pid)
             \/ /\ config.docker
                /\ \E s : /\ GuestSource(s) /\ row = LinuxRow("docker", BuildSource(s, BuildId), 2)
                          /\ row.source = BuildSource(s, BuildId)
  <2>1. PICK s : GuestSource(s) /\ row \in LinuxRows(s)
    BY LinuxIs
  <2>2. \A r, pid : LinuxRow("wsl", r, pid).env = "wsl" /\ LinuxRow("docker", r, pid).source = r
    BY LinuxRowIs
  <2>3. (\E pid : row = LinuxRow("wsl", s, pid)) \/ (config.docker /\ row = LinuxRow("docker", BuildSource(s, BuildId), 2))
    BY <2>1 DEF LinuxRows
  <2> QED BY <2>1, <2>2, <2>3 DEF IsBuildRow
<1>3. config.docker \/ builds = {}
  <2> SUFFICES ASSUME ~config.docker, NEW row \in Linux PROVE ~IsBuildRow(row)
    OBVIOUS
  <2> QED BY <1>2
<1>4. taken.rows = Linux \ builds
  <2>1. CASE config.docker
    BY <2>1 DEF TakeUsage
  <2>2. CASE ~config.docker
    <3>1. taken.rows = (Linux \ builds) \cup {AsWsl(row) : row \in builds}
      BY <2>2 DEF TakeUsage, AsWsl
    <3> QED BY <1>3, <2>2, <3>1
  <2> QED BY <2>1, <2>2
<1>5. IsFiniteSet(Linux) /\ IsFiniteSet(builds)
  <2>1. IsFiniteSet(Linux)
    BY LinuxIs
  <2> QED BY <2>1, FS_Subset
<1>6. IsFiniteSet(taken.rows)
  BY <1>4, <1>5, FS_Subset
<1>7. ASSUME NEW row \in taken.rows PROVE \E s, pid : GuestSource(s) /\ row = LinuxRow("wsl", s, pid)
  <2>1. row \in Linux /\ ~IsBuildRow(row)
    BY <1>4
  <2>2. ASSUME NEW s, GuestSource(s), row = LinuxRow("docker", BuildSource(s, BuildId), 2) PROVE IsBuildRow(row)
    <3>1. row.env = "docker" /\ row.source = BuildSource(s, BuildId)
      BY <2>2, LinuxRowIs
    <3> QED BY <2>2, <3>1, GuestBuildIs DEF IsBuildRow
  <2> QED BY <1>2, <2>1, <2>2
<1>8. CASE ~config.docker
  <2>1. taken.containers = {}
    BY <1>8 DEF TakeUsage
  <2> QED BY <1>1, <1>6, <1>7, <2>1, FS_EmptySet DEF Executing
<1>9. CASE config.docker
  <2> DEFINE Of(k) == {row \in builds : row.source = k}
             f == [row \in builds |-> Executor(row.source, Of(row.source))]
  <2>1. taken.containers = {Executor(source, Of(source)) : source \in {row.source : row \in builds}}
    BY <1>9 DEF TakeUsage
  <2>2. taken.containers = {f[row] : row \in builds}
    <3>1. \A row \in builds : f[row] = Executor(row.source, Of(row.source))
      OBVIOUS
    <3> HIDE DEF f, Of, builds, taken
    <3> QED BY <2>1, <3>1
  <2>3. IsFiniteSet(taken.containers)
    <3> HIDE DEF f, builds, taken
    <3> QED BY <1>5, <2>2, ImageFinite
  <2>4. ASSUME NEW row \in builds PROVE \E s : GuestSource(s) /\ f[row] = BuildItem(s)
    <3>1. PICK s : /\ GuestSource(s) /\ row = LinuxRow("docker", BuildSource(s, BuildId), 2)
                   /\ row.source = BuildSource(s, BuildId)
      BY <1>2
    <3>2. ASSUME NEW other \in Of(row.source) PROVE other = row
      <4>1. PICK t : /\ other = LinuxRow("docker", BuildSource(t, BuildId), 2)
                     /\ other.source = BuildSource(t, BuildId)
        BY <1>2, <3>2
      <4> QED BY <3>1, <3>2, <4>1
    <3>3. Of(row.source) = {row}
      BY <3>2
    <3> QED BY <3>1, <3>3 DEF BuildItem
  <2>5. \A item \in taken.containers : \E s : GuestSource(s) /\ item = BuildItem(s)
    <3> HIDE DEF f, builds, taken
    <3> QED BY <2>2, <2>4
  <2> HIDE DEF taken
  <2> QED BY <1>1, <1>6, <1>7, <2>3, <2>5 DEF Executing, taken
<1> QED BY <1>8, <1>9

-----------------------------------------------------------------------------
(* The rows of Windows and of containers.                                   *)
(****************************************************************************)

LEMMA HostCountIs == Measured => HostCount \in CpuCounts
BY DEF Measured, SampleInv, CpusInv, MeasureInv, WindowsInv, IsReading, HostCount

WindowsRow(name) == UsageRow(WindowsSample(name, 1), WindowsSample(name, 3), 2, HostCount)

Win == IF config.wslOnly THEN {} ELSE WindowsUsage(windows[1], windows[2])

LEMMA WindowsRowIs ==
    ASSUME HostCount \in CpuCounts, NEW name
    PROVE  LET row == WindowsRow(name)
           IN  /\ IsRow(row) /\ row.env = "windows" /\ row.source = NoSource /\ row.id = <<name>>
               /\ row.cpu = Unit(HostCount) /\ row.kind \in {"host", "process"}
<1>1. PICK x, y, n, k : /\ x = WindowsSample(name, 1) /\ y = WindowsSample(name, 3) /\ n = HostCount
                        /\ k = Classify(y)
  OBVIOUS
<1>2. x.cpu = 1 /\ y.cpu = 3 /\ y.env = "windows" /\ y.source = NoSource /\ y.pid = name
  BY <1>1 DEF WindowsSample, Sample
<1>3. k \in {"host", "process"}
  BY <1>1, <1>2 DEF Classify
<1>4. CpuPercent(y.cpu - x.cpu, 2, n) = Unit(n)
  BY <1>1, <1>2, UnitIs
<1>5. WindowsRow(name) = Row("windows", NoSource, k, <<name>>, y.start, y.name, Unit(n), y.memory)
  BY <1>1, <1>2, <1>4 DEF WindowsRow, UsageRow
<1> QED BY <1>1, <1>3, <1>5 DEF Row, IsRow

LEMMA WindowsRowsAre ==
    ASSUME Measured, IsFiniteSet(config.hosts)
    PROVE  IsFiniteSet(Win) /\ \A row \in Win : ~config.wslOnly /\ \E name : row = WindowsRow(name)
<1>1. CASE config.wslOnly
  BY <1>1, FS_EmptySet DEF Win
<1>2. CASE ~config.wslOnly
  <2> DEFINE f == [name \in WindowsPids |-> WindowsRow(name)]
  <2>1. PICK b, a : /\ b = windows[1] /\ a = windows[2] /\ IsReading(b, 1) /\ IsReading(a, 3)
                    /\ HostCount = a.cpus /\ Win = WindowsUsage(b, a)
    BY <1>2 DEF Measured, MeasureInv, WindowsInv, Running, HostCount, Win
  <2>2. Win \subseteq UsageOf(b.samples, a.samples, 2, HostCount)
    <3>1. a.timestamp = 3 /\ b.timestamp = 1
      BY <2>1 DEF IsReading
    <3> QED BY <2>1, <3>1 DEF WindowsUsage
  <2>3. ASSUME NEW row \in Win PROVE \E name \in WindowsPids : row = WindowsRow(name)
    <3>1. PICK x \in b.samples, y \in a.samples : SameProcess(x, y) /\ row = UsageRow(x, y, 2, HostCount)
      BY <2>2, <2>3, Zenon DEF UsageOf
    <3>2. PICK n \in WindowsPids, m \in WindowsPids : x = WindowsSample(n, 1) /\ y = WindowsSample(m, 3)
      BY <2>1, <3>1, Zenon DEF IsReading
    <3>3. n = m
      BY <3>1, <3>2 DEF SameProcess, Key, WindowsSample, Sample
    <3> QED BY <3>1, <3>2, <3>3 DEF WindowsRow
  <2>4. IsFiniteSet(WindowsPids)
    <3>1. IsFiniteSet(config.hosts \cup WindowsNames)
      BY MonitorAssumption, FS_Union
    <3> QED BY <3>1, FS_Subset DEF WindowsPids
  <2>5. IsFiniteSet({f[name] : name \in WindowsPids})
    <3> HIDE DEF f
    <3> QED BY <2>4, ImageFinite
  <2>6. Win \subseteq {f[name] : name \in WindowsPids}
    BY <2>3
  <2> QED BY <1>2, <2>3, <2>5, <2>6, FS_Subset
<1> QED BY <1>1, <1>2

\* A container of a runtime and its processes, and what a runtime reports of them.
IsHead(r, head) ==
    /\ IsRow(head) /\ head.env = r /\ head.kind = "container" /\ head.source = NoSource
    /\ head.cpu = Unit(HostCount) /\ \E id : head.id = <<id>>

IsBelow(r, id, row) ==
    /\ IsRow(row) /\ row.env = r /\ row.kind = "process" /\ row.source = <<id>>
    /\ row.cpu = Unit(HostCount) /\ \E pid : row.id = <<id, pid>>

ProcessesAt(r, id, rows) ==
    IsFiniteSet(rows) /\ Apart(rows) /\ \A row \in rows : IsBelow(r, id, row)

HeadsAre(r, heads) ==
    IsFiniteSet(heads) /\ (\A head \in heads : IsHead(r, head)) /\ \A a, b \in heads : a.id = b.id => a = b

\* Each container has its processes.
UsageShape(r, usage) ==
    /\ HeadsAre(r, usage.rows) /\ IsFiniteSet(usage.details)
    /\ \A item \in usage.details : item.resource \in usage.rows /\ ProcessesAt(r, item.resource.id[1], item.processes)
    /\ \A row \in usage.rows : \E item \in usage.details : item.resource = row
    /\ \A x, y \in usage.details : x.resource = y.resource => x = y

LEMMA ContainerRowIs ==
    ASSUME HostCount \in CpuCounts, NEW r, NEW stat, ParsePercent(stat.cpu) = 1, NEW memory
    PROVE  IsHead(r, ContainerRow(r, stat, memory, HostCount)) /\ ContainerRow(r, stat, memory, HostCount).id = <<stat.id>>
<1>1. ContainerRow(r, stat, memory, HostCount) =
          Row(r, NoSource, "container", <<stat.id>>, NoStart, stat.name, Unit(HostCount), memory)
  BY DEF ContainerRow, Unit
<1> QED BY <1>1 DEF IsHead, IsRow, Row

LEMMA StatisticsAre ==
    ASSUME HostCount \in CpuCounts, NEW r \in Runtimes, NEW output \in Outputs, NEW usage,
           usage = AggregateUsage(r, output, HostCount), ~IsFailed(usage)
    PROVE  /\ HeadsAre(r, usage.rows) /\ usage.details = {}
           /\ usage = [available |-> usage.available, rows |-> usage.rows, details |-> {}, warned |-> usage.warned]
<1>1. IsFailed(Failed)
  BY DEF IsFailed, Failed
<1>2. CASE usage = NoUsage
  BY <1>2, FS_EmptySet DEF NoUsage, HeadsAre
<1>3. ASSUME NEW stats, output.is = "stats", stats \subseteq output.stats, NEW g,
             \A s \in stats : ParsePercent(s.cpu) = 1,
             usage.rows = {ContainerRow(r, s, g[s], HostCount) : s \in stats}
      PROVE  HeadsAre(r, usage.rows)
  <2> DEFINE h == [s \in stats |-> ContainerRow(r, s, g[s], HostCount)]
  <2>1. \A s \in stats : h[s] = ContainerRow(r, s, g[s], HostCount) /\ IsHead(r, h[s]) /\ h[s].id = <<s.id>>
    BY <1>3, ContainerRowIs
  <2> HIDE DEF h
  <2>2. usage.rows = {h[s] : s \in stats}
    BY <1>3, <2>1
  <2>3. IsFiniteSet(stats) /\ \A s, t \in stats : s.id = t.id => s = t
    <3>1. IsFiniteSet(output.stats) /\ \A s, t \in output.stats : s.id = t.id => s = t
      BY <1>3, OutputsAssumption
    <3> QED BY <1>3, <3>1, FS_Subset
  <2>4. IsFiniteSet(usage.rows)
    BY <2>2, <2>3, ImageFinite
  <2>5. \A a, b \in usage.rows : a.id = b.id => a = b
    BY <2>1, <2>2, <2>3, OneElement
  <2> QED BY <2>1, <2>2, <2>4, <2>5 DEF HeadsAre
<1>4. CASE r = "docker" /\ usage # NoUsage
  <2>1. output.is = "stats" /\ usage = DockerStats(output.stats, HostCount)
    BY <1>1, <1>4 DEF AggregateUsage, DockerUsage
  <2> DEFINE g == [s \in output.stats |-> ParseMemory(s.memory, DockerUnits)]
             rows == {ContainerRow("docker", s, ParseMemory(s.memory, DockerUnits), HostCount) : s \in output.stats}
  <2>2. /\ \A s \in output.stats : ParsePercent(s.cpu) # Bad
        /\ usage = [available |-> TRUE, details |-> {}, warned |-> {}, rows |-> rows]
    BY <1>1, <2>1 DEF DockerStats
  <2>3. \A s \in output.stats : ParsePercent(s.cpu) = 1
    BY <2>1, <2>2, OutputsAssumption
  <2>4. rows = {ContainerRow("docker", s, g[s], HostCount) : s \in output.stats}
    <3>1. \A s \in output.stats : g[s] = ParseMemory(s.memory, DockerUnits)
      OBVIOUS
    <3> HIDE DEF g
    <3> QED BY <3>1
  <2> HIDE DEF rows, g
  <2>5. usage.rows = rows /\ usage.details = {}
    BY <2>2
  <2>7. output.stats \subseteq output.stats
    OBVIOUS
  <2>6. HeadsAre(r, usage.rows)
    <3>1. usage.rows = {ContainerRow(r, s, g[s], HostCount) : s \in output.stats}
      BY <1>4, <2>4, <2>5
    <3> QED BY <1>3, <2>1, <2>3, <2>7, <3>1
  <2> QED BY <2>2, <2>5, <2>6
<1>5. CASE r = "wslc" /\ usage # NoUsage
  <2>1. output.is = "stats" /\ usage = WslcStats(output.stats, HostCount)
    BY <1>1, <1>5 DEF AggregateUsage, WslcUsage
  <2> DEFINE M(s) == LET m == ParseMemory(s.memory, WslcUnits) IN IF m = Bad THEN 0 ELSE m
             stats == {s \in output.stats : ~Skipped(s)}
             g == [s \in stats |-> M(s)]
             rows == {ContainerRow("wslc", s, M(s), HostCount) : s \in stats}
             warned == {<<"row", s.id>> : s \in {s \in output.stats : Doubtful(s)}}
  <2>2. usage = [available |-> TRUE, details |-> {}, warned |-> warned, rows |-> rows]
    BY <2>1 DEF WslcStats
  <2>3. \A s \in stats : ParsePercent(s.cpu) = 1
    BY <2>1, OutputsAssumption DEF Skipped
  <2>4. rows = {ContainerRow("wslc", s, g[s], HostCount) : s \in stats}
    <3>1. \A s \in stats : g[s] = M(s)
      OBVIOUS
    <3> HIDE DEF g, M, stats
    <3> QED BY <3>1
  <2>7. stats \subseteq output.stats
    OBVIOUS
  <2> HIDE DEF rows, g, stats, warned
  <2>5. usage.rows = rows /\ usage.details = {}
    BY <2>2
  <2>6. HeadsAre(r, usage.rows)
    <3>1. usage.rows = {ContainerRow(r, s, g[s], HostCount) : s \in stats}
      BY <1>5, <2>4, <2>5
    <3> QED BY <1>3, <2>1, <2>3, <2>7, <3>1
  <2> QED BY <2>2, <2>5, <2>6
<1> QED BY <1>2, <1>4, <1>5 DEF Runtimes

LEMMA ProcessesListed ==
    ASSUME HostCount \in CpuCounts, NEW r \in Runtimes, NEW tries \in Printed, NEW id, NEW listed,
           listed = ContainerProcesses(r, id, tries, HostCount), ~IsFailed(listed)
    PROVE  ProcessesAt(r, id, listed.processes)
<1>1. IsFailed(Failed)
  BY DEF IsFailed, Failed
<1> DEFINE P(row) == Row(r, <<id>>, "process", <<id, row.pid>>, NoStart, row.command,
                         CpuPercent(row.cpu, 1, HostCount), row.rss * 1024)
<1>2. ASSUME NEW n \in 1 .. 2, NEW rows, tries[n].is = "printed", rows \subseteq tries[n].rows,
             listed = ListedRows(r, id, rows, tries[n], HostCount)
      PROVE  ProcessesAt(r, id, listed.processes)
  <2>1. (\A row \in rows : ~BadRow(row, tries[n].timed)) /\ listed.processes = {P(row) : row \in rows}
    BY <1>1, <1>2, SMTT(30) DEF ListedRows
  <2>2. \A row \in rows : row.cpu = 1
    BY <1>2, <2>1, OutputsAssumption DEF BadRow
  <2>3. IsFiniteSet(rows) /\ \A a, b \in rows : a.pid = b.pid => a = b
    <3>1. IsFiniteSet(tries[n].rows) /\ \A a, b \in tries[n].rows : a.pid = b.pid => a = b
      BY <1>2, OutputsAssumption
    <3> QED BY <1>2, <3>1, FS_Subset
  <2> DEFINE h == [row \in rows |-> P(row)]
  <2>4. ASSUME NEW row \in rows PROVE h[row] = P(row) /\ IsBelow(r, id, h[row]) /\ h[row].id = <<id, row.pid>>
    <3>1. h[row] = Row(r, <<id>>, "process", <<id, row.pid>>, NoStart, row.command, Unit(HostCount), row.rss * 1024)
      BY <2>2 DEF Unit
    <3> HIDE DEF h
    <3> QED BY <2>2, <3>1 DEF IsBelow, IsRow, Row, Unit
  <2> HIDE DEF h, P
  <2>5. listed.processes = {h[row] : row \in rows}
    BY <2>1, <2>4
  <2>6. IsFiniteSet(listed.processes)
    BY <2>3, <2>5, ImageFinite
  <2>7. \A x, y, z : <<x, y>> = <<x, z>> => y = z
    OBVIOUS
  <2>8. Apart(listed.processes)
    BY <2>3, <2>4, <2>5, <2>7 DEF Apart, AtOnePlace
  <2> QED BY <2>4, <2>5, <2>6, <2>8 DEF ProcessesAt
<1>3. PICK n \in 1 .. 2 :
          /\ tries[n].is = "printed"
          /\ listed = IF r = "docker" THEN ParseTop(id, tries[n], HostCount) ELSE ParsePs(id, tries[n], HostCount)
  <2>1. 1 \in 1 .. 2 /\ 2 \in 1 .. 2
    OBVIOUS
  <2> QED BY <1>1, <2>1 DEF ContainerProcesses
<1>4. CASE r = "docker"
  BY <1>2, <1>3, <1>4 DEF ParseTop
<1>5. CASE r = "wslc"
  <2> DEFINE rows == {row \in tries[n].rows : ~Injected(row)}
  <2>1. listed = ListedRows(r, id, rows, tries[n], HostCount) /\ rows \subseteq tries[n].rows
    BY <1>3, <1>5 DEF ParsePs
  <2> HIDE DEF rows
  <2> QED BY <1>2, <1>3, <2>1
<1> QED BY <1>4, <1>5 DEF Runtimes

\* The containers that a thread collected with their processes, if it did.
LEMMA UsageShaped ==
    ASSUME Measured, NEW r \in Runtimes
    PROVE  UsageShape(r, UsageIn(ResultOf(r, HostCount)))
<1>1. CASE ~Succeeded(ResultOf(r, HostCount))
  <2>1. UsageIn(ResultOf(r, HostCount)) = NoUsage
    BY <1>1 DEF UsageIn
  <2>2. NoUsage.rows = {} /\ NoUsage.details = {}
    BY DEF NoUsage
  <2> QED BY <2>1, <2>2, FS_EmptySet DEF UsageShape, HeadsAre
<1>2. CASE Succeeded(ResultOf(r, HostCount))
  <2>1. /\ ResultOf(r, HostCount) = worker[r].result /\ collectorCpus = HostCount
        /\ worker[r].result # Absent /\ ~IsFailed(worker[r].result)
    BY <1>2 DEF ResultOf, Succeeded, SameCount
  <2>2. IsFailed(Failed)
    BY DEF IsFailed, Failed
  <2>3. PICK output \in Outputs, tries \in Printed : worker[r].result = Collected(r, output, tries)
    BY <2>1, <2>2 DEF Measured, MeasureInv, ResultsInv, IsResult
  <2>4. PICK u : u = AggregateUsage(r, output, HostCount)
    OBVIOUS
  <2> DEFINE listed == [id \in {row.id[1] : row \in u.rows} |-> ContainerProcesses(r, id, tries, HostCount)]
             Details(row) == listed[row.id[1]]
             unknown == {row \in u.rows : IsFailed(Details(row))}
             ListOf(row) == IF row \in unknown THEN UNION {old.processes : old \in {old \in u.details : old.resource.id = row.id}}
                            ELSE Details(row).processes
             items == {[resource |-> row, processes |-> ListOf(row)] : row \in u.rows}
  <2>5. ~IsFailed(u) /\ worker[r].result = WithDetails(u, listed)
    BY <2>1, <2>2, <2>3, <2>4 DEF Collected
  <2>6. /\ HeadsAre(r, u.rows) /\ u.details = {} /\ HostCount \in CpuCounts
        /\ u = [available |-> u.available, rows |-> u.rows, details |-> {}, warned |-> u.warned]
    BY <2>4, <2>5, HostCountIs, StatisticsAre
  <2>7. PICK w : w = UsageIn(ResultOf(r, HostCount)) /\ w = PopulateProcesses(u, listed)
    <3>1. UsageIn(ResultOf(r, HostCount)) = worker[r].result.usage
      BY <1>2, <2>1 DEF UsageIn
    <3>2. WithDetails(u, listed).usage = PopulateProcesses(u, listed)
      BY DEF WithDetails
    <3> HIDE DEF listed
    <3> QED BY <2>5, <3>1, <3>2
  <2>8. w.rows = u.rows /\ w.details = items
    <3>1. \E q : w = [u EXCEPT !.details = items, !.warned = q]
      BY <2>7 DEF PopulateProcesses
    <3> HIDE DEF items
    <3> QED BY <2>6, <3>1
  <2>9. ASSUME NEW row \in u.rows PROVE ProcessesAt(r, row.id[1], ListOf(row))
    <3>1. Details(row) = ContainerProcesses(r, row.id[1], tries, HostCount)
      OBVIOUS
    <3>2. CASE row \in unknown
      <4>1. ListOf(row) = {}
        BY <2>6, <3>2
      <4> HIDE DEF ListOf
      <4> QED BY <4>1, FS_EmptySet DEF ProcessesAt, Apart
    <3>3. CASE row \notin unknown
      <4>1. PICK l : l = ContainerProcesses(r, row.id[1], tries, HostCount) /\ ~IsFailed(l) /\ ListOf(row) = l.processes
        BY <3>1, <3>3
      <4>2. ProcessesAt(r, row.id[1], l.processes)
        BY <2>6, <4>1, ProcessesListed
      <4> HIDE DEF ListOf
      <4> QED BY <4>1, <4>2
    <3> QED BY <3>2, <3>3
  <2> DEFINE f == [row \in u.rows |-> [resource |-> row, processes |-> ListOf(row)]]
  <2>10. \A row \in u.rows : f[row].resource = row /\ f[row].processes = ListOf(row)
    OBVIOUS
  <2>11. w.details = {f[row] : row \in u.rows}
    <3>1. \A row \in u.rows : f[row] = [resource |-> row, processes |-> ListOf(row)]
      OBVIOUS
    <3> HIDE DEF f, ListOf, Details, unknown, listed
    <3> QED BY <2>8, <3>1
  <2> HIDE DEF f, ListOf, items
  <2>12. IsFiniteSet(w.details)
    <3>1. IsFiniteSet(u.rows)
      BY <2>6 DEF HeadsAre
    <3> QED BY <2>11, <3>1, ImageFinite
  <2>13. UsageShape(r, w)
    BY <2>6, <2>8, <2>9, <2>10, <2>11, <2>12 DEF UsageShape
  <2> QED BY <2>7, <2>13
<1> QED BY <1>1, <1>2

-----------------------------------------------------------------------------
(* The snapshot.                                                            *)
(****************************************************************************)

Wslc == UsageIn(ResultOf("wslc", HostCount))
Docker == UsageIn(ResultOf("docker", HostCount))

\* The containers of both runtimes and the builds, with their processes.
Items == Wslc.details \cup Merged.containers
DockerHeads == {item.resource : item \in Merged.containers}
Inside == UNION {item.processes : item \in Items}
SnapshotRows == Merged.linux \cup Win \cup Wslc.rows \cup (IF config.processes THEN Inside ELSE {}) \cup DockerHeads

Grouped(metadata) == IF NeedsMetadata(Win) THEN GroupProcesses(Win, metadata) ELSE {}

Bare == BuildTree({row \in Win : IsHostResource(row)}, Merged.linux, Wslc.rows, Merged.containers)

IsTree(tree) ==
    \E g, u, d, w, a : tree = [groups |-> g, unmapped |-> u, docker |-> d, wslc |-> w, applications |-> a]

LEMMA AssembledIs ==
    ASSUME NEW metadata, NEW answer, NEW p, p = Assembled(metadata, answer)
    PROVE  /\ p.pids = SnapshotRows /\ p.cpus = HostCount
           /\ p.resources = WithApplications(SnapshotRows, Grouped(metadata))
           /\ p.tree.groups = Bare.groups /\ p.tree.unmapped = Bare.unmapped
           /\ p.tree.docker = {ContainerGroup(item) : item \in Merged.containers}
           /\ p.tree.wslc = {ContainerGroup(item) : item \in Wslc.details}
           /\ p.tree.applications = Grouped(metadata)
           /\ IsTree(p.tree)
<1> DEFINE wslc   == UsageIn(ResultOf("wslc", HostCount))
           win    == IF config.wslOnly THEN {} ELSE WindowsUsage(windows[1], windows[2])
           apps   == IF NeedsMetadata(win) THEN GroupProcesses(win, metadata) ELSE {}
           bare   == BuildTree({row \in win : IsHostResource(row)}, Merged.linux, wslc.rows, Merged.containers)
           shown  == [AttachWslcProcesses(bare, wslc.details) EXCEPT !.applications = apps]
           inner  == IF config.processes THEN UNION {d.processes : d \in wslc.details \cup Merged.containers} ELSE {}
           rows   == Merged.linux \cup win \cup wslc.rows \cup inner \cup {d.resource : d \in Merged.containers}
           tree   == [AttachWslcProcesses(Bare, Wslc.details) EXCEPT !.applications = Grouped(metadata)]
<1>1. p.pids = rows /\ p.cpus = HostCount /\ p.resources = WithApplications(rows, apps) /\ p.tree = shown
  BY DEF Assembled, Merged, Whole
<1>2. /\ p.pids = SnapshotRows /\ p.cpus = HostCount
      /\ p.resources = WithApplications(SnapshotRows, Grouped(metadata)) /\ p.tree = tree
  <2>1. wslc = Wslc /\ win = Win /\ inner = (IF config.processes THEN Inside ELSE {})
        /\ DockerHeads = {d.resource : d \in Merged.containers}
    BY DEF Wslc, Win, Inside, Items, DockerHeads
  <2>2. apps = Grouped(metadata) /\ bare = Bare
    BY DEF Grouped, Bare, Win, Wslc
  <2>3. rows = SnapshotRows
    <3> HIDE DEF inner, win, wslc
    <3> QED BY <2>1 DEF SnapshotRows
  <2> HIDE DEF tree, apps, rows, inner, win, bare, wslc
  <2> QED BY <1>1, <2>1, <2>2, <2>3, Zenon DEF tree
<1>3. Bare.docker = {ContainerGroup(item) : item \in Merged.containers}
      /\ \E a, b, c, d, e :
             Bare = [groups |-> a, unmapped |-> b, docker |-> c, wslc |-> d, applications |-> e]
  BY DEF Bare, BuildTree
<1>4. PICK items : items = {ContainerGroup(item) : item \in Wslc.details}
  OBVIOUS
<1>5. tree = [Bare EXCEPT !.wslc = items, !.applications = Grouped(metadata)]
  BY <1>3, <1>4 DEF AttachWslcProcesses
<1> HIDE DEF tree
<1>6. IsTree(tree)
  BY <1>3, <1>5 DEF IsTree
<1> QED BY <1>2, <1>3, <1>4, <1>5, <1>6

LEMMA CpuOfOne == ASSUME NEW row, IsRow(row), row.cpu \in Int PROVE CpuOf({row}) = row.cpu
<1>1. PICK S, g : S = {row} /\ g = Rates({row})
  OBVIOUS
<1>2. IsFiniteSet(S) /\ S # {} /\ g[row] = row.cpu
  BY <1>1, FS_Singleton DEF Rates
<1>3. Term(S) = row /\ S \ {Term(S)} = {}
  BY <1>1, <1>2, TermIn
<1>4. SumFunctionOnSet(g, S) = g[row] + SumFunctionOnSet(g, {})
  <2>1. \A x \in S : g[x] \in Int
    BY <1>1, <1>2
  <2> QED BY <1>2, <1>3, <2>1, SumUnfolds
<1>5. SumFunctionOnSet(g, {}) = 0
  BY FS_EmptySet, SumUnfolds
<1> QED BY <1>1, <1>2, <1>4, <1>5, CpuIs

\* A build is a container with one process.
LEMMA BuildItemIs ==
    ASSUME HostCount \in CpuCounts, NEW s, GuestSource(s)
    PROVE  LET item == BuildItem(s)
               head == item.resource
           IN  /\ IsRow(head) /\ head.env = "docker" /\ head.kind = "container" /\ head.source = s
               /\ head.id = BuildSource(s, BuildId) /\ head.cpu = Unit(HostCount)
               /\ item.processes = {LinuxRow("docker", BuildSource(s, BuildId), 2)}
<1>1. PICK b, row : b = BuildSource(s, BuildId) /\ row = LinuxRow("docker", b, 2)
  OBVIOUS
<1>2. IsRow(row) /\ row.cpu = Unit(HostCount) /\ Unit(HostCount) \in Int
  BY <1>1, LinuxRowIs, UnitIs
<1>3. SumOf({row}, "cpu") = Unit(HostCount)
  BY <1>2, CpuOfOne DEF CpuOf
<1>4. BuildDistro(b) = s
  BY <1>1, GuestBuildIs
<1>5. BuildItem(s) = [resource |-> Row("docker", s, "container", b, NoStart, 0, Unit(HostCount), SumOf({row}, "memory")),
                      processes |-> {row}]
  BY <1>1, <1>3, <1>4 DEF BuildItem, Executor
<1> QED BY <1>1, <1>5 DEF Row, IsRow

\* Whatever a snapshot shows was measured as one CPU of the count it shows.
LEMMA RowsAreUnits ==
    ASSUME Measured, IsFiniteSet(config.hosts), NEW row \in SnapshotRows
    PROVE  IsRow(row) /\ row.cpu = Unit(HostCount)
<1>1. HostCount \in CpuCounts
  BY HostCountIs
<1>2. UsageShape("wslc", Wslc) /\ UsageShape("docker", Docker)
  BY UsageShaped DEF Wslc, Docker, Runtimes
<1>3. CASE row \in Merged.linux
  BY <1>1, <1>3, LinuxTaken, LinuxRowIs
<1>4. CASE row \in Win
  BY <1>1, <1>4, WindowsRowsAre, WindowsRowIs
<1>5. CASE row \in Wslc.rows
  BY <1>2, <1>5 DEF UsageShape, HeadsAre, IsHead
<1>6. ASSUME NEW item \in Items
      PROVE  /\ IsRow(item.resource) /\ item.resource.cpu = Unit(HostCount)
             /\ \A q \in item.processes : IsRow(q) /\ q.cpu = Unit(HostCount)
  <2>1. CASE item \in Wslc.details \cup Docker.details
    BY <1>2, <2>1 DEF UsageShape, HeadsAre, IsHead, ProcessesAt, IsBelow
  <2>2. CASE item \in Executing
    <3>1. PICK s : GuestSource(s) /\ item = BuildItem(s)
      BY <1>1, <2>2, LinuxTaken
    <3> QED BY <1>1, <3>1, BuildItemIs, LinuxRowIs
  <2> QED BY <1>1, <2>1, <2>2, LinuxTaken DEF Items, Docker
<1>7. CASE row \in DockerHeads \cup Inside
  BY <1>6, <1>7 DEF DockerHeads, Inside, Items
<1> QED BY <1>3, <1>4, <1>5, <1>7 DEF SnapshotRows

LEMMA OneCountPublished ==
    ASSUME Measured, IsFiniteSet(config.hosts), NEW metadata, NEW answer, published' = Assembled(metadata, answer)
    PROVE  OneCpuCount'
<1> SUFFICES ASSUME NEW row \in published'.pids PROVE CoresUsed(row, published'.cpus) = Scale
  BY DEF OneCpuCount, CoresUsed
<1>1. row \in SnapshotRows /\ published'.cpus = HostCount
  BY AssembledIs
<1>2. row.cpu = Unit(HostCount) /\ HostCount \in CpuCounts
  BY <1>1, RowsAreUnits, HostCountIs
<1>3. Unit(HostCount) \in Nat /\ Unit(HostCount) * HostCount = Scale /\ HostCount \in Nat /\ HostCount > 0
  BY <1>2, UnitIs
<1>4. PICK u, n : u = Unit(HostCount) /\ n = HostCount
  OBVIOUS
<1>5. n > 0 /\ u >= 0 /\ u * n = Scale
  BY <1>3, <1>4
<1> QED BY <1>1, <1>2, <1>4, <1>5 DEF CoresUsed

HostsInv == IsFiniteSet(config.hosts)
AllInv == SampleInv /\ MeasureInv /\ HostsInv

FiniteHosts(configs) == \A c \in configs : IsFiniteSet(c.hosts)

LEMMA AllKeeps == AllInv /\ [MonitorNext]_monitorVars => AllInv'
<1> SUFFICES ASSUME AllInv, [MonitorNext]_monitorVars PROVE AllInv'
  OBVIOUS
<1>1. SampleInv' /\ MeasureInv'
  BY SampleKeeps, MeasureKeeps DEF AllInv
<1>2. config' = config
  <2>1. CASE UNCHANGED monitorVars \/ (\E r \in Runtimes : CollectorStep(r)) \/ UNCHANGED sampleVars
    BY <2>1 DEF monitorVars, sampleVars, CollectorStep
  <2>2. CASE MainStep
    BY <2>2 DEF MainStep, Collects, Plan, CaptureAll, WindowsBefore, Spawn, Join, WindowsAfter, Assemble
  <2> QED BY <2>1, <2>2 DEF MonitorNext
<1> QED BY <1>1, <1>2 DEF AllInv, HostsInv

LEMMA AllInvariant ==
    ASSUME NEW begin, NEW configs, FiniteHosts(configs)
    PROVE  SampleSpec(begin, configs) /\ NamedWithinWsl => [](AllInv)
<1>1. InitPlan(begin) /\ InitMonitor(configs) /\ NamedWithinWsl => AllInv
  <2>1. InitMonitor(configs) => HostsInv
    BY DEF InitMonitor, FiniteHosts, HostsInv
  <2> QED BY <2>1, SampleInit, MeasureInit DEF AllInv
<1> QED BY <1>1, AllKeeps, PTL DEF SampleSpec

\* Whatever a snapshot shows was divided by one count of CPUs, the one it shows, and
\* the exclusive CPU is of probes between the readings of the kernel, however often
\* the count that is known changes (monitor.rs:179, monitor.rs:248).
THEOREM SampleMeasuredTogether ==
    ASSUME NEW begin, NEW configs, FiniteHosts(configs)
    PROVE  SampleSpec(begin, configs) /\ NamedWithinWsl => []MeasuredTogether
<1>1. InitMonitor(configs) => OneCpuCount
  BY DEF InitMonitor, OneCpuCount
<1>2. AllInv /\ OneCpuCount /\ [MonitorNext]_monitorVars => OneCpuCount'
  <2> SUFFICES ASSUME AllInv, OneCpuCount, [MonitorNext]_monitorVars PROVE OneCpuCount'
    OBVIOUS
  <2>1. CASE published' = published
    BY <2>1 DEF OneCpuCount, CoresUsed
  <2>2. ASSUME pc = "assemble", NEW metadata, NEW answer, published' = Assembled(metadata, answer) PROVE OneCpuCount'
    BY <2>2, OneCountPublished DEF AllInv, HostsInv, Measured
  <2> QED BY <2>1, <2>2, PublishedAs DEF AllInv
<1>3. AllInv /\ OneCpuCount => MeasuredTogether
  BY DEF AllInv, SampleInv, WorkersInv, BracketedProbes, MeasuredTogether
<1> QED BY <1>1, <1>2, <1>3, AllInvariant, PTL DEF SampleSpec

-----------------------------------------------------------------------------
(* The identities of the rows of a sample.                                  *)
(****************************************************************************)

LEMMA WindowsApart ==
    ASSUME Measured, HostsInv
    PROVE  Rated(Win) /\ Apart(Win) /\ \A row \in Win : row.env = "windows" /\ row.kind \in {"host", "process"}
<1>1. HostCount \in CpuCounts /\ Unit(HostCount) \in Int
  BY HostCountIs, UnitIs
<1>2. IsFiniteSet(Win) /\ \A row \in Win : \E name : row = WindowsRow(name)
  BY WindowsRowsAre DEF HostsInv
<1>3. \A name : /\ IsRow(WindowsRow(name)) /\ WindowsRow(name).id = <<name>> /\ WindowsRow(name).cpu \in Int
                /\ WindowsRow(name).env = "windows" /\ WindowsRow(name).kind \in {"host", "process"}
  BY <1>1, WindowsRowIs
<1> QED BY <1>2, <1>3, OneElement DEF Rated, Apart, AtOnePlace

LEMMA GuestsApart ==
    ASSUME Measured
    PROVE  Rated(Merged.linux) /\ Apart(Merged.linux)
           /\ \A row \in Merged.linux : row.env = "wsl" /\ row.kind \in {"process", "infra"}
<1>1. HostCount \in CpuCounts /\ Unit(HostCount) \in Int
  BY HostCountIs, UnitIs
<1>2. IsFiniteSet(Merged.linux) /\ \A row \in Merged.linux : \E s, pid : row = LinuxRow("wsl", s, pid)
  BY <1>1, LinuxTaken
<1>3. \A s, pid : LET row == LinuxRow("wsl", s, pid)
                  IN  /\ IsRow(row) /\ row.source = s /\ row.id = <<pid>> /\ row.cpu \in Int
                      /\ row.env = "wsl" /\ row.kind \in {"process", "infra"}
  BY <1>1, LinuxRowIs
<1>4. ASSUME NEW r \in Merged.linux, NEW q \in Merged.linux, AtOnePlace(r, q) PROVE r = q
  <2>1. PICK s, pid : r = LinuxRow("wsl", s, pid)
    BY <1>2
  <2>2. PICK d, p : q = LinuxRow("wsl", d, p)
    BY <1>2
  <2>3. s = d /\ <<pid>> = <<p>>
    BY <1>3, <1>4, <2>1, <2>2 DEF AtOnePlace
  <2> QED BY <2>1, <2>2, <2>3, OneElement
<1> QED BY <1>2, <1>3, <1>4 DEF Rated, Apart

\* An item of a build, or of the containers of a runtime.
LEMMA ItemIs ==
    ASSUME Measured, NEW item \in Items
    PROVE  \/ item \in Wslc.details /\ item.resource \in Wslc.rows /\ IsHead("wslc", item.resource)
              /\ ProcessesAt("wslc", item.resource.id[1], item.processes)
           \/ item \in Docker.details /\ item.resource \in Docker.rows /\ IsHead("docker", item.resource)
              /\ ProcessesAt("docker", item.resource.id[1], item.processes)
           \/ item \in Executing /\ \E s : GuestSource(s) /\ item = BuildItem(s)
<1>1. UsageShape("wslc", Wslc) /\ UsageShape("docker", Docker)
  BY UsageShaped DEF Wslc, Docker, Runtimes
<1>2. CASE item \in Wslc.details \cup Docker.details
  BY <1>1, <1>2 DEF UsageShape, HeadsAre
<1>3. CASE item \in Executing
  BY <1>3, HostCountIs, LinuxTaken
<1> QED BY <1>2, <1>3, HostCountIs, LinuxTaken DEF Items, Docker

\* No two containers have one place, and none has two lists of processes.
LEMMA ItemsApart ==
    ASSUME Measured, NEW x \in Items, NEW y \in Items, AtOnePlace(x.resource, y.resource)
    PROVE  x = y
<1>1. UsageShape("wslc", Wslc) /\ UsageShape("docker", Docker) /\ HostCount \in CpuCounts
  BY UsageShaped, HostCountIs DEF Wslc, Docker, Runtimes
<1>2. CASE x \in Wslc.details /\ y \in Wslc.details
  BY <1>1, <1>2 DEF UsageShape, HeadsAre, AtOnePlace
<1>3. CASE x \in Docker.details /\ y \in Docker.details
  BY <1>1, <1>3 DEF UsageShape, HeadsAre, AtOnePlace
<1>4. ASSUME NEW s, GuestSource(s), x = BuildItem(s), NEW d, GuestSource(d), y = BuildItem(d) PROVE x = y
  <2>1. x.resource.source = s /\ y.resource.source = d
    BY <1>1, <1>4, BuildItemIs
  <2> QED BY <1>4, <2>1 DEF AtOnePlace
<1>5. \A item \in Wslc.details : item.resource.env = "wslc"
  BY <1>1 DEF UsageShape, HeadsAre, IsHead
<1>6. \A item \in Docker.details : item.resource.env = "docker" /\ \E id : item.resource.id = <<id>>
  BY <1>1 DEF UsageShape, HeadsAre, IsHead
<1>7. \A s : GuestSource(s) =>
          BuildItem(s).resource.env = "docker" /\ \A id : BuildItem(s).resource.id # <<id>>
  BY <1>1, BuildItemIs, GuestBuildIs
<1> QED BY <1>2, <1>3, <1>4, <1>5, <1>6, <1>7, ItemIs DEF AtOnePlace

LEMMA HeadsKinds ==
    ASSUME Measured, NEW item \in Items
    PROVE  item.resource.kind = "container" /\ item.resource.env \in {"wslc", "docker"}
           /\ (item \in Merged.containers => item.resource.env = "docker")
           /\ (item \in Wslc.details => item.resource.env = "wslc")
<1>1. UsageShape("wslc", Wslc) /\ HostCount \in CpuCounts /\ UsageShape("docker", Docker)
  BY UsageShaped, HostCountIs DEF Wslc, Docker, Runtimes
<1>2. Merged.containers = Docker.details \cup Executing
  BY <1>1, LinuxTaken DEF Docker
<1>3. item \in Docker.details \cup Executing => item.resource.env = "docker" /\ item.resource.kind = "container"
  BY <1>1, LinuxTaken, BuildItemIs DEF UsageShape, HeadsAre, IsHead
<1>4. item \in Wslc.details => item.resource.env = "wslc" /\ item.resource.kind = "container"
  BY <1>1 DEF UsageShape, HeadsAre, IsHead
<1> QED BY <1>2, <1>3, <1>4 DEF Items

\* A process in a container names it: by the identifier or as a build.
LEMMA InsideIs ==
    ASSUME Measured, NEW item \in Items, NEW row \in item.processes
    PROVE  /\ IsRow(row) /\ row.kind = "process" /\ row.env = item.resource.env /\ row.source = item.resource.id
           /\ row.cpu = Unit(HostCount)
<1>1. HostCount \in CpuCounts
  BY HostCountIs
<1>2. ASSUME NEW r, IsHead(r, item.resource), ProcessesAt(r, item.resource.id[1], item.processes)
      PROVE  /\ IsRow(row) /\ row.kind = "process" /\ row.env = item.resource.env /\ row.source = item.resource.id
             /\ row.cpu = Unit(HostCount)
  <2>1. PICK id : item.resource.id = <<id>>
    BY <1>2 DEF IsHead
  <2>2. item.resource.id[1] = id
    BY <2>1
  <2> QED BY <1>2, <2>1, <2>2 DEF IsHead, ProcessesAt, IsBelow
<1>3. ASSUME NEW s, GuestSource(s), item = BuildItem(s)
      PROVE  /\ IsRow(row) /\ row.kind = "process" /\ row.env = item.resource.env /\ row.source = item.resource.id
             /\ row.cpu = Unit(HostCount)
  <2>1. row = LinuxRow("docker", BuildSource(s, BuildId), 2)
    BY <1>1, <1>3, BuildItemIs
  <2> QED BY <1>1, <1>3, <2>1, BuildItemIs, LinuxRowIs
<1> QED BY <1>2, <1>3, ItemIs

LEMMA InsideApart == ASSUME Measured PROVE Apart(Inside) /\ IsFiniteSet(Inside) /\ IsFiniteSet(Items)
<1>1. HostCount \in CpuCounts /\ UsageShape("wslc", Wslc) /\ UsageShape("docker", Docker)
  BY HostCountIs, UsageShaped DEF Wslc, Docker, Runtimes
<1>2. \A item \in Items : IsFiniteSet(item.processes) /\ Apart(item.processes)
  <2> TAKE item \in Items
  <2>1. ASSUME NEW s, GuestSource(s), item = BuildItem(s) PROVE IsFiniteSet(item.processes) /\ Apart(item.processes)
    <3>1. PICK row : item.processes = {row}
      <4>1. item.processes = {LinuxRow("docker", BuildSource(s, BuildId), 2)}
        BY <1>1, <2>1, BuildItemIs
      <4> QED BY <4>1
    <3> QED BY <3>1, FS_Singleton DEF Apart
  <2> QED BY <2>1, ItemIs DEF ProcessesAt
<1>3. ASSUME NEW r \in Inside, NEW q \in Inside, AtOnePlace(r, q) PROVE r = q
  <2>1. PICK x \in Items : r \in x.processes
    BY DEF Inside
  <2>2. PICK y \in Items : q \in y.processes
    BY DEF Inside
  <2>3. x.resource.env = y.resource.env /\ x.resource.id = y.resource.id
    BY <1>3, <2>1, <2>2, InsideIs DEF AtOnePlace
  <2>4. x.resource.kind = y.resource.kind
    BY HeadsKinds
  <2>5. x.resource.source = y.resource.source
    <3>1. ASSUME NEW item \in Items
          PROVE  \/ item.resource.source = NoSource /\ \E id : item.resource.id = <<id>>
                 \/ \E s : GuestSource(s) /\ item.resource.id = BuildSource(s, BuildId) /\ item.resource.source = s
      BY <1>1, <3>1, ItemIs, BuildItemIs DEF IsHead
    <3>2. ASSUME NEW s, NEW d, GuestSource(s), GuestSource(d), BuildSource(s, BuildId) = BuildSource(d, BuildId)
          PROVE  s = d
      BY <3>2, GuestBuildIs
    <3>3. \A s : GuestSource(s) => \A id : <<id>> # BuildSource(s, BuildId)
      BY GuestBuildIs
    <3> QED BY <2>3, <3>1, <3>2, <3>3
  <2>6. x = y
    BY <2>3, <2>4, <2>5, ItemsApart DEF AtOnePlace
  <2> QED BY <1>2, <1>3, <2>1, <2>2, <2>6 DEF Apart
<1>4. IsFiniteSet(Items)
  <2>1. IsFiniteSet(Wslc.details) /\ IsFiniteSet(Docker.details) /\ IsFiniteSet(Executing)
    BY <1>1, LinuxTaken DEF UsageShape
  <2>2. Items = (Wslc.details \cup Docker.details) \cup Executing
    BY <1>1, LinuxTaken DEF Items, Docker
  <2> QED BY <2>1, <2>2, FS_Union
<1>5. IsFiniteSet(Inside)
  <2> DEFINE h == [item \in Items |-> item.processes]
  <2>1. IsFiniteSet({h[item] : item \in Items})
    <3> HIDE DEF h
    <3> QED BY <1>4, ImageFinite
  <2>2. {h[item] : item \in Items} = {item.processes : item \in Items}
    <3>1. \A item \in Items : h[item] = item.processes
      OBVIOUS
    <3> HIDE DEF h
    <3> QED BY <3>1
  <2>3. \A rows \in {item.processes : item \in Items} : IsFiniteSet(rows)
    BY <1>2
  <2> HIDE DEF h
  <2> QED BY <2>1, <2>2, <2>3, FS_UNION DEF Inside
<1> QED BY <1>3, <1>4, <1>5 DEF Apart

LEMMA ApplicationsAre ==
    ASSUME NEW rows, NEW metadata
    PROVE  LET apps == GroupProcesses(rows, metadata)
           IN  /\ \A a \in apps : a.processes \subseteq {row \in rows : IsProcess(row)}
               /\ \A a, b \in apps : a.resource = b.resource => a = b
<1> DEFINE processes == {row \in rows : IsProcess(row)}
           Of(row) == ApplicationIdentity(row, rows, metadata)
           Members(key) == {row \in processes : Of(row) = key}
           Resource(key) == Row("windows", NoSource, "application", <<key>>, NoStart, key,
                                SumOf(Members(key), "cpu"), SumOf(Members(key), "memory"))
           apps == GroupProcesses(rows, metadata)
<1>1. ASSUME NEW a \in apps
      PROVE  \E key : /\ a = [resource |-> Resource(key), processes |-> Members(key)]
                     /\ a.resource.id = <<key>> /\ a.processes \subseteq processes
  <2>1. PICK key : a = [resource |-> Resource(key), processes |-> Members(key)]
    BY DEF GroupProcesses
  <2>2. a.resource = Resource(key) /\ a.processes = Members(key)
    BY <2>1
  <2>3. Resource(key).id = <<key>>
    BY DEF Row
  <2>4. Members(key) \subseteq processes
    OBVIOUS
  <2> HIDE DEF Resource, Members, processes
  <2> QED BY <2>1, <2>2, <2>3, <2>4
<1>2. ASSUME NEW a \in apps, NEW b \in apps, a.resource = b.resource PROVE a = b
  <2>1. PICK k : a = [resource |-> Resource(k), processes |-> Members(k)] /\ a.resource.id = <<k>>
    BY <1>1
  <2>2. PICK j : b = [resource |-> Resource(j), processes |-> Members(j)] /\ b.resource.id = <<j>>
    BY <1>1
  <2>3. k = j
    BY <1>2, <2>1, <2>2, OneElement
  <2> HIDE DEF Resource, Members
  <2> QED BY <2>1, <2>2, <2>3
<1> QED BY <1>1, <1>2

\* Every row that a snapshot can name.
Nameable(metadata) ==
    Merged.linux \cup Win \cup Wslc.rows \cup Inside \cup DockerHeads \cup {a.resource : a \in Grouped(metadata)}

LEMMA GroupedAre ==
    ASSUME Measured, HostsInv, NEW metadata
    PROVE  LET heads == {a.resource : a \in Grouped(metadata)}
           IN  /\ Rated(heads) /\ Apart(heads) /\ \A row \in heads : row.env = "windows" /\ row.kind = "application"
               /\ \A a \in Grouped(metadata) : a.processes \subseteq {row \in Win : IsProcess(row)}
               /\ \A a, b \in Grouped(metadata) : a.resource = b.resource => a = b
<1>1. CASE ~NeedsMetadata(Win)
  <2>1. Grouped(metadata) = {}
    BY <1>1 DEF Grouped
  <2> QED BY <2>1, FS_EmptySet DEF Rated, Apart
<1>2. CASE NeedsMetadata(Win)
  <2>1. Grouped(metadata) = GroupProcesses(Win, metadata)
    BY <1>2 DEF Grouped
  <2> DEFINE heads == {a.resource : a \in GroupProcesses(Win, metadata)}
  <2>2. Rated(heads) /\ (\A row \in heads : row.env = "windows" /\ row.kind = "application")
        /\ \A a, b \in heads : a.id = b.id => a = b
    BY WindowsApart, ApplicationCpu
  <2>3. Apart(heads)
    BY <2>2 DEF Apart, AtOnePlace
  <2> HIDE DEF heads
  <2>4. heads = {a.resource : a \in Grouped(metadata)}
    BY <2>1 DEF heads
  <2> QED BY <2>1, <2>2, <2>3, <2>4, ApplicationsAre
<1> QED BY <1>1, <1>2

LEMMA NamedApart ==
    ASSUME Measured, HostsInv, NEW metadata
    PROVE  Apart(Nameable(metadata)) /\ IsFiniteSet(Nameable(metadata))
<1>1. PICK a, b, c, d, e, f, All :
          /\ a = Merged.linux /\ b = Win /\ c = Wslc.rows /\ d = Inside /\ e = DockerHeads
          /\ f = {g.resource : g \in Grouped(metadata)} /\ All = a \cup b \cup c \cup d \cup e \cup f
  OBVIOUS
<1>2. UsageShape("wslc", Wslc)
  BY UsageShaped DEF Wslc, Runtimes
<1>3. IsFiniteSet(a) /\ Apart(a) /\ \A row \in a : row.env = "wsl"
  BY <1>1, GuestsApart DEF Rated
<1>4. IsFiniteSet(b) /\ Apart(b) /\ \A row \in b : row.env = "windows" /\ row.kind \in {"host", "process"}
  BY <1>1, WindowsApart DEF Rated
<1>5. IsFiniteSet(c) /\ Apart(c) /\ \A row \in c : row.env = "wslc" /\ row.kind = "container"
  BY <1>1, <1>2 DEF UsageShape, HeadsAre, IsHead, Apart, AtOnePlace
<1>6. IsFiniteSet(d) /\ Apart(d) /\ \A row \in d : row.env \in {"docker", "wslc"} /\ row.kind = "process"
  <2>1. ASSUME NEW row \in d PROVE row.env \in {"docker", "wslc"} /\ row.kind = "process"
    <3>1. PICK item \in Items : row \in item.processes
      BY <1>1 DEF Inside
    <3> QED BY <3>1, InsideIs, HeadsKinds
  <2> QED BY <1>1, <2>1, InsideApart
<1>7. IsFiniteSet(e) /\ Apart(e) /\ \A row \in e : row.env = "docker" /\ row.kind = "container"
  <2> DEFINE h == [item \in Merged.containers |-> item.resource]
  <2>1. e = {h[item] : item \in Merged.containers}
    <3>1. \A item \in Merged.containers : h[item] = item.resource
      OBVIOUS
    <3> HIDE DEF h
    <3> QED BY <1>1, <3>1 DEF DockerHeads
  <2>2. IsFiniteSet(Merged.containers)
    <3>1. Merged.containers \subseteq Items
      BY DEF Items
    <3> QED BY <3>1, InsideApart, FS_Subset
  <2>3. IsFiniteSet(e)
    <3> HIDE DEF h
    <3> QED BY <2>1, <2>2, ImageFinite
  <2>4. \A row \in e : \E item \in Merged.containers : item \in Items /\ row = item.resource
    BY <1>1 DEF DockerHeads, Items
  <2>5. Apart(e)
    BY <2>4, ItemsApart DEF Apart
  <2> QED BY <2>3, <2>4, <2>5, HeadsKinds
<1>8. IsFiniteSet(f) /\ Apart(f) /\ \A row \in f : row.env = "windows" /\ row.kind = "application"
  BY <1>1, GroupedAre DEF Rated
<1>9. Apart(All)
  BY <1>1, <1>3, <1>4, <1>5, <1>6, <1>7, <1>8 DEF Apart, AtOnePlace
<1>10. IsFiniteSet(All)
  BY <1>1, <1>3, <1>4, <1>5, <1>6, <1>7, <1>8, FS_Union
<1> QED BY <1>1, <1>9, <1>10 DEF Nameable

LEMMA RelationsAre ==
    ASSUME Measured, HostsInv, NEW metadata, NEW answer, NEW p, p = Assembled(metadata, answer)
    PROVE  /\ \A rel \in Relations(p.tree) :
                  \/ rel[1] \in Win /\ IsHostResource(rel[1]) /\ rel[2] \subseteq Merged.linux \cup Wslc.rows
                  \/ \E item \in Items : rel[1] = item.resource /\ rel[2] = item.processes
                  \/ \E a \in Grouped(metadata) : rel[1] = a.resource /\ rel[2] = a.processes
           /\ \A item \in Items : <<item.resource, item.processes>> \in Relations(p.tree)
           /\ \A a \in Grouped(metadata) : <<a.resource, a.processes>> \in Relations(p.tree)
           /\ p.tree.unmapped \subseteq Merged.linux \cup Wslc.rows
<1>1. PICK tree :
          /\ tree = p.tree
          /\ tree.groups = Bare.groups /\ tree.unmapped = Bare.unmapped
          /\ tree.docker = {ContainerGroup(item) : item \in Merged.containers}
          /\ tree.wslc = {ContainerGroup(item) : item \in Wslc.details}
          /\ tree.applications = Grouped(metadata)
  BY AssembledIs
<1>2. \A item : ContainerGroup(item).container = item.resource /\ ContainerGroup(item).children = item.processes
  BY DEF ContainerGroup
<1>3. /\ tree.unmapped \subseteq Merged.linux \cup Wslc.rows
      /\ \A g \in tree.groups : g.host \in Win /\ IsHostResource(g.host) /\ g.children \subseteq Merged.linux \cup Wslc.rows
  <2> DEFINE hosts == {row \in Win : IsHostResource(row)}
  <2>1. \A owners, children :
            /\ AddGroups(owners, children).unmapped \subseteq children
            /\ \A g \in AddGroups(owners, children).groups : g.host \in owners /\ g.children \subseteq children
    BY DEF AddGroups, MakeGroup
  <2>2. PICK vm, sessions :
            /\ vm = AddGroups({h \in hosts : h.name \in Vmmem}, Merged.linux)
            /\ sessions = AddGroups({h \in hosts : h.name \in VmmemWslc}, Wslc.rows)
            /\ Bare.groups = vm.groups \cup sessions.groups /\ Bare.unmapped = vm.unmapped \cup sessions.unmapped
    BY DEF Bare, BuildTree
  <2>3. vm.unmapped \subseteq Merged.linux /\ sessions.unmapped \subseteq Wslc.rows
    BY <2>1, <2>2
  <2>4. \A g \in vm.groups : g.host \in hosts /\ g.children \subseteq Merged.linux
    BY <2>1, <2>2
  <2>5. \A g \in sessions.groups : g.host \in hosts /\ g.children \subseteq Wslc.rows
    BY <2>1, <2>2
  <2>6. \A h \in hosts : h \in Win /\ IsHostResource(h)
    OBVIOUS
  <2> HIDE DEF hosts
  <2> QED BY <1>1, <2>2, <2>3, <2>4, <2>5, <2>6
<1>4. \A g \in tree.docker \cup tree.wslc : \E item \in Items : g.container = item.resource /\ g.children = item.processes
  BY <1>1, <1>2 DEF Items
<1>5. \A item \in Items : \E g \in tree.docker \cup tree.wslc : g.container = item.resource /\ g.children = item.processes
  BY <1>1, <1>2 DEF Items
<1>6. PICK rels : rels = Relations(tree)
  OBVIOUS
<1>7. \A x, y : <<x, y>>[1] = x /\ <<x, y>>[2] = y
  OBVIOUS
<1>8. \A rel \in rels :
          \/ \E g \in tree.groups : rel[1] = g.host /\ rel[2] = g.children
          \/ \E g \in tree.docker \cup tree.wslc : rel[1] = g.container /\ rel[2] = g.children
          \/ \E a \in tree.applications : rel[1] = a.resource /\ rel[2] = a.processes
  BY <1>6, <1>7 DEF Relations
<1>9. \A g \in tree.docker \cup tree.wslc : <<g.container, g.children>> \in rels
  BY <1>6 DEF Relations
<1>10. \A a \in tree.applications : <<a.resource, a.processes>> \in rels
  BY <1>6 DEF Relations
<1>11. \A item \in Items : <<item.resource, item.processes>> \in rels
  <2> TAKE item \in Items
  <2>1. PICK g \in tree.docker \cup tree.wslc : g.container = item.resource /\ g.children = item.processes
    BY <1>5
  <2>2. <<g.container, g.children>> = <<item.resource, item.processes>>
    BY <2>1
  <2> QED BY <1>9, <2>2
<1> QED BY <1>1, <1>3, <1>4, <1>6, <1>8, <1>10, <1>11

LEMMA CatalogNames ==
    ASSUME Measured, HostsInv, NEW metadata, NEW answer, NEW p, p = Assembled(metadata, answer)
    PROVE  CatalogRows(p) \subseteq Nameable(metadata)
<1>1. PICK R, All : R = Relations(p.tree) /\ All = Nameable(metadata)
  OBVIOUS
<1>2. /\ Merged.linux \subseteq All /\ Win \subseteq All /\ Wslc.rows \subseteq All /\ Inside \subseteq All
      /\ DockerHeads \subseteq All /\ {a.resource : a \in Grouped(metadata)} \subseteq All
  BY <1>1 DEF Nameable
<1>3. SnapshotRows \subseteq All
  BY <1>2 DEF SnapshotRows
<1>4. p.pids \subseteq All /\ p.resources \subseteq All /\ p.tree.unmapped \subseteq All
  <2>1. WithApplications(SnapshotRows, Grouped(metadata)) \subseteq SnapshotRows \cup {a.resource : a \in Grouped(metadata)}
    BY DEF WithApplications, ApplicationView
  <2> QED BY <1>2, <1>3, <2>1, AssembledIs, RelationsAre
<1>5. \A item \in Items : item.resource \in All /\ item.processes \subseteq All
  <2> TAKE item \in Items
  <2>1. item.processes \subseteq All
    BY <1>2 DEF Inside
  <2>2. item \in Wslc.details => item.resource \in Wslc.rows
    BY UsageShaped DEF UsageShape, Wslc, Runtimes
  <2>3. item \in Merged.containers => item.resource \in DockerHeads
    BY DEF DockerHeads
  <2> QED BY <1>2, <2>1, <2>2, <2>3 DEF Items
<1>6. \A a \in Grouped(metadata) : a.resource \in All /\ a.processes \subseteq All
  BY <1>2, GroupedAre
<1>7. \A rel \in R : rel[1] \in All /\ rel[2] \subseteq All
  <2> TAKE rel \in R
  <2>1. \/ rel[1] \in Win /\ rel[2] \subseteq Merged.linux \cup Wslc.rows
        \/ \E item \in Items : rel[1] = item.resource /\ rel[2] = item.processes
        \/ \E a \in Grouped(metadata) : rel[1] = a.resource /\ rel[2] = a.processes
    BY <1>1, RelationsAre
  <2> QED BY <1>2, <1>5, <1>6, <2>1
<1>8. UNION {{rel[1]} \cup rel[2] : rel \in R} \subseteq All
  <2> SUFFICES ASSUME NEW x \in UNION {{rel[1]} \cup rel[2] : rel \in R} PROVE x \in All
    OBVIOUS
  <2>1. PICK rel \in R : x \in {rel[1]} \cup rel[2]
    OBVIOUS
  <2> QED BY <1>7, <2>1
<1> QED BY <1>1, <1>4, <1>8 DEF CatalogRows

\* An identity of the catalog names one row, which the catalog finds by it.
LEMMA NamesOne ==
    ASSUME Measured, HostsInv, NEW metadata, NEW answer, NEW p, p = Assembled(metadata, answer)
    PROVE  /\ IsFiniteSet(CatalogRows(p))
           /\ \A r, q \in CatalogRows(p) : ResourceIdentity(r) = ResourceIdentity(q) => r = q
<1>1. PICK rows, All : rows = CatalogRows(p) /\ All = Nameable(metadata)
  OBVIOUS
<1>2. rows \subseteq All /\ Apart(All) /\ IsFiniteSet(All)
  BY <1>1, CatalogNames, NamedApart
<1>3. IsFiniteSet(rows)
  BY <1>2, FS_Subset
<1>4. \A r, q \in rows : ResourceIdentity(r) = ResourceIdentity(q) => r = q
  BY <1>2, IdentityPlaces DEF Apart
<1> QED BY <1>1, <1>3, <1>4

\* The heads of relations are hosts, containers and applications; only containers
\* have a parent, and that is a host, which has none.
LEMMA NoCycles ==
    ASSUME Measured, HostsInv, NEW metadata, NEW answer, NEW p, p = Assembled(metadata, answer)
    PROVE  ~Cyclic(p)
<1>1. PICK R : R = Relations(p.tree)
  OBVIOUS
<1>2. \A rel \in R : \/ rel[1].kind = "host" /\ \A row \in rel[2] : row.kind \in {"process", "infra", "container"}
                     \/ rel[1].kind \in {"container", "application"} /\ \A row \in rel[2] : row.kind = "process"
  <2> TAKE rel \in R
  <2>1. UsageShape("wslc", Wslc)
    BY UsageShaped DEF Wslc, Runtimes
  <2>2. \A row \in Merged.linux \cup Wslc.rows : row.kind \in {"process", "infra", "container"}
    BY <2>1, GuestsApart DEF UsageShape, HeadsAre, IsHead
  <2>3. CASE rel[1] \in Win /\ IsHostResource(rel[1]) /\ rel[2] \subseteq Merged.linux \cup Wslc.rows
    BY <2>2, <2>3 DEF IsHostResource
  <2>4. ASSUME NEW item \in Items, rel[1] = item.resource, rel[2] = item.processes
        PROVE  rel[1].kind = "container" /\ \A row \in rel[2] : row.kind = "process"
    BY <2>4, HeadsKinds, InsideIs
  <2>5. ASSUME NEW a \in Grouped(metadata), rel[1] = a.resource, rel[2] = a.processes
        PROVE  rel[1].kind = "application" /\ \A row \in rel[2] : row.kind = "process"
    <3>1. a.resource \in {b.resource : b \in Grouped(metadata)}
      OBVIOUS
    <3>2. a.resource.kind = "application" /\ \A row \in a.processes : row.kind = "process"
      BY <3>1, GroupedAre DEF IsProcess
    <3> QED BY <2>5, <3>2
  <2> QED BY <1>1, <2>3, <2>4, <2>5, RelationsAre
<1>3. PICK inner : inner = {rel[1] : rel \in R} \cap UNION {rel[2] : rel \in R}
  OBVIOUS
<1>4. \A row \in inner : row.kind = "container"
  <2> TAKE row \in inner
  <2>1. PICK head \in R, below \in R : row = head[1] /\ row \in below[2]
    BY <1>3
  <2> QED BY <1>2, <2>1
<1>5. \A row \in inner : \A q \in ParentsOf(p, row) : q.kind = "host"
  <2> TAKE row \in inner
  <2> TAKE q \in ParentsOf(p, row)
  <2>1. PICK rel \in R : q = rel[1] /\ row \in rel[2]
    BY <1>1 DEF ParentsOf
  <2> QED BY <1>2, <1>4, <2>1
<1>6. \A S \in SUBSET inner : \A row \in S : ParentsOf(p, row) \cap S = {}
  BY <1>4, <1>5
<1> DEFINE within == {r[1] : r \in Relations(p.tree)} \cap UNION {r[2] : r \in Relations(p.tree)}
<1>7. Cyclic(p) <=> \E S \in (SUBSET inner) \ {{}} : \A row \in S : ParentsOf(p, row) \cap S # {}
  <2>1. Cyclic(p) <=> \E S \in (SUBSET within) \ {{}} : \A row \in S : ParentsOf(p, row) \cap S # {}
    BY Zenon DEF Cyclic
  <2>2. inner = within
    BY <1>1, <1>3, Zenon
  <2> HIDE DEF within
  <2> QED BY <2>1, <2>2
<1>8. \A S \in (SUBSET inner) \ {{}} : \E row \in S : ParentsOf(p, row) \cap S = {}
  BY <1>6
<1> QED BY <1>7, <1>8

LEMMA OpensPublished ==
    ASSUME Measured, HostsInv, NEW metadata, NEW answer, published' = Assembled(metadata, answer)
    PROVE  CatalogOpens'
<1>1. PICK p, rows : p = published' /\ p = Assembled(metadata, answer) /\ rows = CatalogRows(p)
  OBVIOUS
<1>2. IsFiniteSet(rows) /\ \A r, q \in rows : ResourceIdentity(r) = ResourceIdentity(q) => r = q
  BY <1>1, NamesOne
<1>3. Opens(p)
  BY <1>1, <1>2, Unambiguous, NoCycles DEF Opens
<1>4. \A row \in rows : Inspect(p, ResourceIdentity(row)) = {row}
  BY <1>1, <1>2 DEF Inspect
<1> QED BY <1>1, <1>3, <1>4 DEF CatalogOpens

\* Every snapshot opens as a catalog: it names each row once, whatever was listed,
\* captured, failed or changed meanwhile, and no row is above itself (query_api.rs:92).
THEOREM SampleCatalogOpens ==
    ASSUME NEW begin, NEW configs, FiniteHosts(configs)
    PROVE  SampleSpec(begin, configs) /\ NamedWithinWsl => []CatalogOpens
<1>1. InitMonitor(configs) => CatalogOpens
  BY DEF InitMonitor, CatalogOpens
<1>2. AllInv /\ CatalogOpens /\ [MonitorNext]_monitorVars => CatalogOpens'
  <2> SUFFICES ASSUME AllInv, CatalogOpens, [MonitorNext]_monitorVars PROVE CatalogOpens'
    OBVIOUS
  <2>1. CASE published' = published
    BY <2>1 DEF CatalogOpens
  <2>2. ASSUME pc = "assemble", NEW metadata, NEW answer, published' = Assembled(metadata, answer) PROVE CatalogOpens'
    BY <2>2, OpensPublished DEF AllInv, HostsInv, Measured
  <2> QED BY <2>1, <2>2, PublishedAs DEF AllInv
<1> QED BY <1>1, <1>2, AllInvariant, PTL DEF SampleSpec

-----------------------------------------------------------------------------
(* The children that a catalog lists.                                       *)
(****************************************************************************)

\* A parent that is not given selects every row: no row has it as its identity.
AbsentIsNoIdentity == \A row : ResourceIdentity(row) # Absent

LEMMA ChildrenOfOne ==
    ASSUME AbsentIsNoIdentity, NEW p, IsFiniteSet(CatalogRows(p)),
           \A r, q \in CatalogRows(p) : ResourceIdentity(r) = ResourceIdentity(q) => r = q,
           NEW head, NEW children, <<head, children>> \in Relations(p.tree),
           \A rel \in Relations(p.tree) : rel[1] = head => rel[2] = children
    PROVE  Range(ListRows(p, ResourceIdentity(head), AllRows(p))) = children
<1> DEFINE Asked(row) == /\ ResourceIdentity(head) # Absent
                             => ResourceIdentity(head) \in {ResourceIdentity(q) : q \in ParentsOf(p, row)}
                         /\ AllRows(p).env \in {Absent, row.env}
                         /\ AllRows(p).kind \in {Absent, row.kind}
                         /\ AllRows(p).name \in {Absent, row.name}
<1>1. PICK rows, R : rows = CatalogRows(p) /\ R = Relations(p.tree)
  OBVIOUS
<1>2. /\ AllRows(p).env = Absent /\ AllRows(p).kind = Absent /\ AllRows(p).name = Absent
      /\ AllRows(p).sort = DefaultSort /\ AllRows(p).limit = Cardinality(rows)
  BY <1>1 DEF AllRows
<1>3. \A rel \in R : rel[1] \in rows /\ rel[2] \subseteq rows
  <2> TAKE rel \in R
  <2>1. {rel[1]} \cup rel[2] \subseteq UNION {{r[1]} \cup r[2] : r \in R}
    OBVIOUS
  <2>2. UNION {{r[1]} \cup r[2] : r \in R} \subseteq rows
    BY <1>1 DEF CatalogRows
  <2> QED BY <2>1, <2>2
<1>4. head \in rows /\ children \subseteq rows
  <2>1. <<head, children>>[1] = head /\ <<head, children>>[2] = children /\ <<head, children>> \in R
    BY <1>1
  <2> QED BY <1>3, <2>1
<1>5. \A row : \A q : q \in ParentsOf(p, row) <=> \E rel \in R : row \in rel[2] /\ q = rel[1]
  BY <1>1 DEF ParentsOf
<1>6. ASSUME NEW row \in rows PROVE Asked(row) <=> row \in children
  <2>1. Asked(row) <=> \E q \in ParentsOf(p, row) : ResourceIdentity(head) = ResourceIdentity(q)
    BY <1>2 DEF AbsentIsNoIdentity
  <2>2. \A q \in ParentsOf(p, row) : q \in rows /\ (ResourceIdentity(head) = ResourceIdentity(q) <=> head = q)
    BY <1>1, <1>3, <1>4, <1>5
  <2>3. head \in ParentsOf(p, row) <=> row \in children
    <3>1. <<head, children>>[1] = head /\ <<head, children>>[2] = children /\ <<head, children>> \in R
      BY <1>1
    <3>2. \A rel \in R : rel[1] = head => rel[2] = children
      BY <1>1
    <3> QED BY <1>5, <3>1, <3>2
  <2> QED BY <2>1, <2>2, <2>3
<1>7. {row \in CatalogRows(p) : Asked(row)} = children
  <2> HIDE DEF Asked
  <2> QED BY <1>1, <1>4, <1>6
<1>8. PICK s : s = SortedSet(children, DefaultSort)
  OBVIOUS
<1>9. ListRows(p, ResourceIdentity(head), AllRows(p)) = Truncated(s, Cardinality(rows))
  <2>1. ListRows(p, ResourceIdentity(head), AllRows(p)) =
            Truncated(SortedSet({row \in CatalogRows(p) : Asked(row)}, AllRows(p).sort), AllRows(p).limit)
    BY Zenon DEF ListRows
  <2> HIDE DEF Asked
  <2> QED BY <1>2, <1>7, <1>8, <2>1
<1>10. IsFiniteSet(children) /\ Cardinality(children) =< Cardinality(rows) /\ Cardinality(rows) \in Nat
  BY <1>1, <1>4, FS_Subset, FS_CardinalityType
<1>11. ListsOnce(s, children)
  BY <1>8, <1>10, SortedRowsAre
<1>12. Truncated(s, Cardinality(rows)) = s
  <2>1. PICK n, k : n = Cardinality(rows) /\ k = Cardinality(children)
    OBVIOUS
  <2>2. n \in Nat /\ k \in Nat /\ n >= k
    BY <1>10, <2>1, FS_CardinalityType
  <2> QED BY <1>10, <1>11, <2>1, <2>2, NothingCut
<1>13. Range(s) = children
  BY <1>11 DEF ListsOnce, Range
<1> QED BY <1>9, <1>12, <1>13

\* Each container and each application is the head of one relation.
LEMMA OneListEach ==
    ASSUME Measured, HostsInv, NEW metadata, NEW answer, NEW p, p = Assembled(metadata, answer)
    PROVE  /\ \A item \in Items : /\ <<item.resource, item.processes>> \in Relations(p.tree)
                                  /\ \A rel \in Relations(p.tree) : rel[1] = item.resource => rel[2] = item.processes
           /\ \A a \in Grouped(metadata) :
                  /\ <<a.resource, a.processes>> \in Relations(p.tree)
                  /\ \A rel \in Relations(p.tree) : rel[1] = a.resource => rel[2] = a.processes
<1>1. PICK R : R = Relations(p.tree)
  OBVIOUS
<1>2. \A rel \in R : \/ rel[1].kind = "host"
                     \/ \E item \in Items : rel[1] = item.resource /\ rel[2] = item.processes
                     \/ \E a \in Grouped(metadata) : rel[1] = a.resource /\ rel[2] = a.processes
  <2>1. \A row : IsHostResource(row) => row.kind = "host"
    BY DEF IsHostResource
  <2> QED BY <1>1, <2>1, RelationsAre
<1>3. \A item \in Items : item.resource.kind = "container"
  BY HeadsKinds
<1>4. \A a \in Grouped(metadata) : a.resource.kind = "application"
  BY GroupedAre
<1>5. \A x, y \in Items : x.resource = y.resource => x.processes = y.processes
  BY ItemsApart DEF AtOnePlace
<1>6. \A a, b \in Grouped(metadata) : a.resource = b.resource => a.processes = b.processes
  BY GroupedAre
<1>7. \A item \in Items : \A rel \in R : rel[1] = item.resource => rel[2] = item.processes
  BY <1>2, <1>3, <1>4, <1>5
<1>8. \A a \in Grouped(metadata) : \A rel \in R : rel[1] = a.resource => rel[2] = a.processes
  BY <1>2, <1>3, <1>4, <1>6
<1>9. /\ \A item \in Items : <<item.resource, item.processes>> \in R
      /\ \A a \in Grouped(metadata) : <<a.resource, a.processes>> \in R
  BY <1>1, RelationsAre
<1> QED BY <1>1, <1>7, <1>8, <1>9

LEMMA ListedPublished ==
    ASSUME AbsentIsNoIdentity, Measured, HostsInv, NEW metadata, NEW answer, published' = Assembled(metadata, answer)
    PROVE  ChildrenListed'
<1>1. PICK p : p = published' /\ p = Assembled(metadata, answer)
  OBVIOUS
<1>2. \A x : ContainerGroup(x).container = x.resource /\ ContainerGroup(x).children = x.processes
  BY DEF ContainerGroup
<1>3. IsFiniteSet(CatalogRows(p)) /\ \A r, q \in CatalogRows(p) : ResourceIdentity(r) = ResourceIdentity(q) => r = q
  BY <1>1, NamesOne
<1>4. ASSUME NEW item \in Items
      PROVE  Range(ListRows(p, ResourceIdentity(item.resource), AllRows(p))) = item.processes
  <2>1. PICK head, children : head = item.resource /\ children = item.processes
    OBVIOUS
  <2>2. <<head, children>> \in Relations(p.tree) /\ \A rel \in Relations(p.tree) : rel[1] = head => rel[2] = children
    BY <1>1, <2>1, OneListEach
  <2>3. Range(ListRows(p, ResourceIdentity(head), AllRows(p))) = children
    BY <1>3, <2>2, ChildrenOfOne
  <2> QED BY <2>1, <2>3
<1>5. ASSUME NEW a \in Grouped(metadata)
      PROVE  Range(ListRows(p, ResourceIdentity(a.resource), AllRows(p))) = a.processes
  <2>1. PICK head, children : head = a.resource /\ children = a.processes
    OBVIOUS
  <2>2. <<head, children>> \in Relations(p.tree) /\ \A rel \in Relations(p.tree) : rel[1] = head => rel[2] = children
    BY <1>1, <2>1, OneListEach
  <2>3. Range(ListRows(p, ResourceIdentity(head), AllRows(p))) = children
    BY <1>3, <2>2, ChildrenOfOne
  <2> QED BY <2>1, <2>3
<1>6. p.tree.applications = Grouped(metadata)
  BY <1>1, AssembledIs
<1>7. \A g \in p.tree.docker \cup p.tree.wslc : \E item \in Items : g.container = item.resource /\ g.children = item.processes
  <2>1. /\ p.tree.docker = {ContainerGroup(item) : item \in Merged.containers}
        /\ p.tree.wslc = {ContainerGroup(item) : item \in Wslc.details}
    BY <1>1, AssembledIs
  <2> QED BY <1>2, <2>1 DEF Items
<1>8. \A g \in p.tree.docker \cup p.tree.wslc :
          Range(ListRows(p, ResourceIdentity(g.container), AllRows(p))) = g.children
  BY <1>4, <1>7
<1> QED BY <1>1, <1>5, <1>6, <1>8 DEF ChildrenListed

\* The list of the children of a container or an application has all of them, and
\* no process of another one, also of the ones the flat list leaves out (query_api.rs:194).
THEOREM SampleChildrenListed ==
    ASSUME NEW begin, NEW configs, FiniteHosts(configs), AbsentIsNoIdentity
    PROVE  SampleSpec(begin, configs) /\ NamedWithinWsl => []ChildrenListed
<1>1. InitMonitor(configs) => ChildrenListed
  BY DEF InitMonitor, ChildrenListed
<1>2. AllInv /\ ChildrenListed /\ [MonitorNext]_monitorVars => ChildrenListed'
  <2> SUFFICES ASSUME AllInv, ChildrenListed, [MonitorNext]_monitorVars PROVE ChildrenListed'
    OBVIOUS
  <2>1. CASE published' = published
    BY <2>1 DEF ChildrenListed
  <2>2. ASSUME pc = "assemble", NEW metadata, NEW answer, published' = Assembled(metadata, answer) PROVE ChildrenListed'
    BY <2>2, ListedPublished DEF AllInv, HostsInv, Measured
  <2> QED BY <2>1, <2>2, PublishedAs DEF AllInv
<1> QED BY <1>1, <1>2, AllInvariant, PTL DEF SampleSpec

-----------------------------------------------------------------------------
(* The CPU that a tree shows.                                               *)
(****************************************************************************)

IsGroup(g) == \E h, c, q, r : g = [host |-> h, children |-> c, resolved |-> q, residuals |-> r]

\* The rows that are in a group.
InGroups(groups) == UNION {g.children : g \in groups}

\* The groups of a tree, in whichever order, show the rows that are in a group.
LEMMA GroupsShowCpu ==
    ASSUME NEW groups, IsFiniteSet(groups), NEW sort, NEW rows, Rated(rows),
           \A g \in groups : IsGroup(g) /\ g.children \in SUBSET rows,
           \A g, q \in groups : g.children \cap q.children # {} => g = q,
           NEW shown, shown = SortedGroups(groups, "host", sort)
    PROVE  /\ SumFunction([i \in DOMAIN shown |-> CpuOf(Range(shown[i].children))]) = CpuOf(InGroups(groups))
           /\ {<<g.host, g.residuals>> : g \in Range(shown)} = {<<g.host, g.residuals>> : g \in groups}
<1> DEFINE k == [g \in groups |-> [g EXCEPT !.children = SortedSet(@, sort)]]
<1>1. \A g \in groups : /\ k[g].host = g.host /\ k[g].residuals = g.residuals
                        /\ IsFiniteSet(g.children) /\ Range(k[g].children) = g.children
  <2> TAKE g \in groups
  <2>1. PICK h, c, q, r : g = [host |-> h, children |-> c, resolved |-> q, residuals |-> r]
    BY DEF IsGroup
  <2>2. PICK s : s = SortedSet(c, sort)
    OBVIOUS
  <2>3. k[g] = [host |-> h, children |-> s, resolved |-> q, residuals |-> r]
    <3>1. k[g] = [g EXCEPT !.children = s]
      BY <2>1, <2>2
    <3> HIDE DEF k
    <3> QED BY <2>1, <3>1
  <2>4. IsFiniteSet(c)
    BY <2>1, FS_Subset DEF Rated
  <2>5. ListsOnce(s, c)
    BY <2>2, <2>4, SortedRowsAre
  <2>6. Range(s) = c
    BY <2>5 DEF ListsOnce, Range
  <2> HIDE DEF k
  <2> QED BY <2>1, <2>3, <2>4, <2>6
<1>2. PICK sorted : sorted = {k[g] : g \in groups}
  OBVIOUS
<1>3. IsFiniteSet(sorted)
  <2> HIDE DEF k
  <2> QED BY <1>2, ImageFinite
<1>4. shown = SortedOn([g \in sorted |-> g["host"]], sort)
  <2>1. \A g \in groups : k[g] = [g EXCEPT !.children = SortedSet(@, sort)]
    OBVIOUS
  <2>2. sorted = {[g EXCEPT !.children = SortedSet(@, sort)] : g \in groups}
    <3> HIDE DEF k
    <3> QED BY <1>2, <2>1
  <2> QED BY <2>2, SMTT(30) DEF SortedGroups
<1>5. ListsOnce(shown, sorted)
  <2>1. PICK rowOf : rowOf = [g \in sorted |-> g["host"]]
    OBVIOUS
  <2>2. DOMAIN rowOf = sorted
    BY <2>1
  <2> QED BY <1>3, <1>4, <2>1, <2>2, RowsListedOnce
<1>6. PICK below : below = InGroups(groups)
  OBVIOUS
<1> HIDE DEF k
<1>7. below \in SUBSET rows /\ Rated(below) /\ CpuOf(below) = SumFunctionOnSet(Rates(rows), below)
  <2>1. below \in SUBSET rows
    BY <1>6 DEF InGroups
  <2> QED BY <2>1, CpuOfPart
<1>8. \A row \in below : \E q \in sorted : row \in Range(q.children)
  BY <1>1, <1>2, <1>6 DEF InGroups
<1>9. \A q \in sorted : Range(q.children) \in SUBSET below /\ Range(q.children) \in SUBSET rows
  BY <1>1, <1>2, <1>6, <1>7 DEF InGroups
<1>10. \A p, q \in sorted : Range(p.children) \cap Range(q.children) # {} => p = q
  BY <1>1, <1>2
<1> DEFINE c == [row \in below |-> CHOOSE q \in sorted : row \in Range(q.children)]
           class == [q \in sorted |-> Range(q.children)]
           part == [q \in sorted |-> CpuOf(Range(q.children))]
           f == [i \in DOMAIN shown |-> CpuOf(Range(shown[i].children))]
<1>11. \A row \in below : c[row] \in sorted /\ row \in Range(c[row].children)
  BY <1>8
<1>12. \A q \in sorted : class[q] \in SUBSET below /\ \A row \in below : row \in class[q] <=> c[row] = q
  <2>1. \A q \in sorted : class[q] = Range(q.children)
    OBVIOUS
  <2> HIDE DEF c, class
  <2> QED BY <1>9, <1>10, <1>11, <2>1
<1>13. \A q \in sorted : part[q] = SumFunctionOnSet(Rates(rows), class[q]) /\ part[q] \in Int
  BY <1>9, CpuOfPart, CpuIsInt
<1>14. SumFunctionOnSet(part, sorted) = CpuOf(below)
  <2>1. IsFiniteSet(below) /\ \A row \in below : Rates(rows)[row] \in Int
    BY <1>7, RatesAre DEF Rated
  <2>2. PICK rate : rate = Rates(rows)
    OBVIOUS
  <2> HIDE DEF c, class, part
  <2>3. \A row \in below : rate[row] \in Int /\ c[row] \in sorted
    BY <1>11, <2>1, <2>2
  <2>4. \A q \in sorted : part[q] = SumFunctionOnSet(rate, class[q])
    BY <1>13, <2>2
  <2>5. SumFunctionOnSet(part, sorted) = SumFunctionOnSet(rate, below)
    BY <1>3, <1>12, <2>1, <2>3, <2>4, SumClasses
  <2> QED BY <1>7, <2>2, <2>5
<1>15. DOMAIN shown = 1 .. Len(shown) /\ Len(shown) \in Nat /\ IsFiniteSet(DOMAIN shown)
       /\ (\A i \in DOMAIN shown : shown[i] \in sorted) /\ Carries(shown, DOMAIN shown, sorted)
  <2>1. DOMAIN shown = 1 .. Len(shown) /\ Len(shown) \in Nat /\ \A i \in DOMAIN shown : shown[i] \in sorted
    BY <1>5 DEF ListsOnce
  <2>2. IsFiniteSet(DOMAIN shown)
    BY <2>1, FS_Interval
  <2>3. sorted = {shown[i] : i \in DOMAIN shown} /\ \A i, j \in DOMAIN shown : shown[i] = shown[j] => i = j
    BY <1>5, <2>1 DEF ListsOnce
  <2> QED BY <2>1, <2>2, <2>3 DEF Carries
<1>16. \A i \in DOMAIN shown : f[i] \in Int /\ part[shown[i]] = f[i]
  BY <1>13, <1>15
<1>17. SumFunctionOnSet(part, sorted) = SumFunctionOnSet(f, DOMAIN shown)
  <2> HIDE DEF part, f
  <2> QED BY <1>15, <1>16, SumImage
<1>18. SumFunction(f) = SumFunctionOnSet(f, DOMAIN shown)
  <2>1. DOMAIN f = DOMAIN shown
    OBVIOUS
  <2> HIDE DEF f
  <2> QED BY <2>1 DEF SumFunction
<1>19. Range(shown) = sorted
  BY <1>5 DEF ListsOnce, Range
<1>20. {<<g.host, g.residuals>> : g \in sorted} = {<<g.host, g.residuals>> : g \in groups}
  BY <1>1, <1>2
<1> QED BY <1>6, <1>14, <1>17, <1>18, <1>19, <1>20

\* Groups that share no row.
GroupsOf(groups, rows) ==
    /\ IsFiniteSet(groups)
    /\ \A g \in groups : IsGroup(g) /\ g.children \in SUBSET rows
    /\ \A g, q \in groups : g.children \cap q.children # {} => g = q

\* Rows are in a group or not mapped, and not both.
LEMMA AddedGroups ==
    ASSUME NEW owners, IsFiniteSet(owners), NEW rows, NEW added, added = AddGroups(owners, rows)
    PROVE  /\ GroupsOf(added.groups, rows)
           /\ InGroups(added.groups) \cup added.unmapped = rows /\ InGroups(added.groups) \cap added.unmapped = {}
<1>0. \A h, c, q : IsGroup(MakeGroup(h, c, q)) /\ MakeGroup(h, c, q).children = c
  BY DEF IsGroup, MakeGroup
<1>1. PICK only, given : only = Resolved(owners) /\ given = IF Resolved(owners) THEN rows ELSE {}
  OBVIOUS
<1> DEFINE f == [x \in owners |-> MakeGroup(x, given, only)]
<1>2. added.groups = {f[x] : x \in owners} /\ added.unmapped = rows \ given
  <2>1. added.groups = {MakeGroup(x, given, only) : x \in owners}
        /\ added.unmapped = IF Resolved(owners) THEN {} ELSE rows
    BY <1>1 DEF AddGroups
  <2>2. \A x \in owners : f[x] = MakeGroup(x, given, only)
    OBVIOUS
  <2> HIDE DEF f
  <2> QED BY <1>1, <2>1, <2>2
<1>3. \A x \in owners : IsGroup(f[x]) /\ f[x].children = given
  BY <1>0
<1> HIDE DEF f
<1>4. IsFiniteSet(added.groups)
  BY <1>2, ImageFinite
<1>5. given \subseteq rows /\ \A g \in added.groups : IsGroup(g) /\ g.children = given
  BY <1>1, <1>2, <1>3
<1>6. InGroups(added.groups) = given /\ \A g, q \in added.groups : g.children \cap q.children # {} => g = q
  <2>1. CASE Resolved(owners)
    <3>1. PICK h : owners = {h}
      BY <2>1, FS_Singleton DEF Resolved
    <3>2. added.groups = {f[h]} /\ f[h].children = given
      BY <1>2, <1>3, <3>1
    <3> QED BY <3>2 DEF InGroups
  <2>2. CASE ~Resolved(owners)
    <3>1. given = {}
      BY <1>1, <2>2
    <3> QED BY <1>5, <3>1 DEF InGroups
  <2> QED BY <2>1, <2>2
<1>7. GroupsOf(added.groups, rows)
  BY <1>4, <1>5, <1>6 DEF GroupsOf
<1> QED BY <1>2, <1>5, <1>6, <1>7

\* The rows that a host of Windows accounts for.
Mapped == Merged.linux \cup Wslc.rows

LEMMA MappedAre ==
    ASSUME Measured, HostsInv
    PROVE  /\ Rated(Mapped) /\ \A row \in Merged.linux : row.env = "wsl"
           /\ \A row \in Wslc.rows : row.env = "wslc" /\ row.kind = "container"
<1>1. HostCount \in CpuCounts /\ Unit(HostCount) \in Int /\ UsageShape("wslc", Wslc)
  BY HostCountIs, UnitIs, UsageShaped DEF Wslc, Runtimes
<1>2. Rated(Wslc.rows) /\ \A row \in Wslc.rows : row.env = "wslc" /\ row.kind = "container"
  BY <1>1 DEF UsageShape, HeadsAre, IsHead, Rated
<1>3. Rated(Merged.linux) /\ \A row \in Merged.linux : row.env = "wsl"
  BY GuestsApart
<1> QED BY <1>2, <1>3, FS_Union DEF Mapped, Rated

LEMMA BareIs ==
    ASSUME Measured, HostsInv
    PROVE  /\ GroupsOf(Bare.groups, Mapped)
           /\ InGroups(Bare.groups) \cup Bare.unmapped = Mapped /\ InGroups(Bare.groups) \cap Bare.unmapped = {}
<1> DEFINE hosts == {row \in Win : IsHostResource(row)}
<1>1. PICK vm, sessions, linux, wslc, machines, shells :
          /\ linux = Merged.linux /\ wslc = Wslc.rows
          /\ machines = {h \in hosts : h.name \in Vmmem} /\ shells = {h \in hosts : h.name \in VmmemWslc}
          /\ vm = AddGroups(machines, linux) /\ sessions = AddGroups(shells, wslc)
          /\ Bare.groups = vm.groups \cup sessions.groups /\ Bare.unmapped = vm.unmapped \cup sessions.unmapped
  BY DEF Bare, BuildTree
<1>2. IsFiniteSet(machines) /\ IsFiniteSet(shells)
  <2>1. IsFiniteSet(Win)
    BY WindowsApart DEF Rated
  <2>2. machines \in SUBSET Win /\ shells \in SUBSET Win
    BY <1>1
  <2> QED BY <2>1, <2>2, FS_Subset
<1> HIDE DEF hosts
<1>3. GroupsOf(vm.groups, linux) /\ InGroups(vm.groups) \cup vm.unmapped = linux
      /\ InGroups(vm.groups) \cap vm.unmapped = {}
  <2>1. vm = AddGroups(machines, linux) /\ IsFiniteSet(machines)
    BY <1>1, <1>2
  <2> QED BY <2>1, AddedGroups, Zenon
<1>4. GroupsOf(sessions.groups, wslc) /\ InGroups(sessions.groups) \cup sessions.unmapped = wslc
      /\ InGroups(sessions.groups) \cap sessions.unmapped = {}
  <2>1. sessions = AddGroups(shells, wslc) /\ IsFiniteSet(shells)
    BY <1>1, <1>2
  <2> QED BY <2>1, AddedGroups, Zenon
<1>5. linux \cap wslc = {} /\ Mapped = linux \cup wslc
  BY <1>1, MappedAre DEF Mapped
<1>6. InGroups(Bare.groups) = InGroups(vm.groups) \cup InGroups(sessions.groups)
  BY <1>1 DEF InGroups
<1>7. GroupsOf(Bare.groups, Mapped)
  <2>1. PICK V, S : V = vm.groups /\ S = sessions.groups
    OBVIOUS
  <2>2. IsFiniteSet(V \cup S)
    BY <1>3, <1>4, <2>1, FS_Union DEF GroupsOf
  <2>3. \A g \in V : IsGroup(g) /\ g.children \in SUBSET linux
    BY <1>3, <2>1 DEF GroupsOf
  <2>4. \A g \in S : IsGroup(g) /\ g.children \in SUBSET wslc
    BY <1>4, <2>1 DEF GroupsOf
  <2>5. \A g, q \in V : g.children \cap q.children # {} => g = q
    BY <1>3, <2>1 DEF GroupsOf
  <2>6. \A g, q \in S : g.children \cap q.children # {} => g = q
    BY <1>4, <2>1 DEF GroupsOf
  <2>7. \A g \in V \cup S : IsGroup(g) /\ g.children \in SUBSET Mapped
    BY <1>5, <2>3, <2>4
  <2>8. \A g, q \in V \cup S : g.children \cap q.children # {} => g = q
    BY <1>5, <2>3, <2>4, <2>5, <2>6
  <2> QED BY <1>1, <2>1, <2>2, <2>7, <2>8 DEF GroupsOf
<1> QED BY <1>1, <1>3, <1>4, <1>5, <1>6, <1>7

LEMMA HiddenGroups ==
    ASSUME NEW rows, NEW groups, GroupsOf(groups, rows), NEW left, left = ChildrenWithoutInfra(groups)
    PROVE  /\ GroupsOf(left, rows) /\ InGroups(left) = WithoutInfra(InGroups(groups))
           /\ {<<g.host, g.residuals>> : g \in left} = {<<g.host, g.residuals>> : g \in groups}
<1> DEFINE f == [g \in groups |-> [g EXCEPT !.children = WithoutInfra(@)]]
<1>1. \A g \in groups : /\ IsGroup(f[g]) /\ f[g].children = WithoutInfra(g.children)
                        /\ f[g].host = g.host /\ f[g].residuals = g.residuals
  <2> TAKE g \in groups
  <2>1. PICK h, c, q, r : g = [host |-> h, children |-> c, resolved |-> q, residuals |-> r]
    BY DEF GroupsOf, IsGroup
  <2>2. PICK d : d = WithoutInfra(c)
    OBVIOUS
  <2>3. f[g] = [host |-> h, children |-> d, resolved |-> q, residuals |-> r]
    <3>1. f[g] = [g EXCEPT !.children = d]
      BY <2>1, <2>2
    <3> HIDE DEF f
    <3> QED BY <2>1, <3>1
  <2> HIDE DEF f
  <2>4. IsGroup(f[g])
    BY <2>3 DEF IsGroup
  <2>5. g.children = c /\ g.host = h /\ g.residuals = r
    BY <2>1
  <2>6. f[g].children = d /\ f[g].host = h /\ f[g].residuals = r
    BY <2>3
  <2> QED BY <2>2, <2>4, <2>5, <2>6
<1>2. left = {f[g] : g \in groups}
  <2>1. \A g \in groups : f[g] = [g EXCEPT !.children = WithoutInfra(@)]
    OBVIOUS
  <2> HIDE DEF f
  <2> QED BY <2>1 DEF ChildrenWithoutInfra
<1> HIDE DEF f
<1>3. IsFiniteSet(left)
  BY <1>2, ImageFinite DEF GroupsOf
<1>4. \A S : WithoutInfra(S) \subseteq S
  BY DEF WithoutInfra
<1>5. \A g \in left : IsGroup(g) /\ g.children \in SUBSET rows
  BY <1>1, <1>2, <1>4 DEF GroupsOf
<1>6. \A g, q \in left : g.children \cap q.children # {} => g = q
  BY <1>1, <1>2, <1>4 DEF GroupsOf
<1>7. InGroups(left) = WithoutInfra(InGroups(groups))
  BY <1>1, <1>2 DEF InGroups, WithoutInfra
<1>8. {<<g.host, g.residuals>> : g \in left} = {<<g.host, g.residuals>> : g \in groups}
  BY <1>1, <1>2
<1> QED BY <1>3, <1>5, <1>6, <1>7, <1>8 DEF GroupsOf

LEMMA ShownRows ==
    ASSUME Measured, HostsInv
    PROVE  /\ Mapped = {row \in SnapshotRows : row.env = "wsl" \/ (row.env = "wslc" /\ row.kind = "container")}
           /\ {row \in Mapped : row.kind = "infra"} = {row \in SnapshotRows : row.kind = "infra"}
<1>1. \A row \in Inside : row.env \in {"docker", "wslc"} /\ row.kind = "process"
  <2> TAKE row \in Inside
  <2>1. PICK item \in Items : row \in item.processes
    BY DEF Inside
  <2> QED BY <2>1, InsideIs, HeadsKinds
<1>2. \A row \in DockerHeads : row.env = "docker" /\ row.kind = "container"
  BY HeadsKinds DEF DockerHeads, Items
<1>3. \A row \in Win : row.env = "windows" /\ row.kind \in {"host", "process"}
  BY WindowsApart
<1>4. PICK inner : SnapshotRows = Mapped \cup Win \cup inner \cup DockerHeads /\ inner \subseteq Inside
  BY DEF SnapshotRows, Mapped
<1>5. \A row \in Mapped : row.env = "wsl" \/ (row.env = "wslc" /\ row.kind = "container")
  BY MappedAre DEF Mapped
<1> QED BY <1>1, <1>2, <1>3, <1>4, <1>5

\* The tree of a query, of the groups and the rows that are not mapped.
LEMMA TreeShows ==
    ASSUME NEW rows, Rated(rows), NEW source, GroupsOf(source.groups, rows),
           InGroups(source.groups) \cup source.unmapped = rows, InGroups(source.groups) \cap source.unmapped = {},
           IsTree(source),
           NEW query, query.hideWindows = FALSE, query.hideInfra \in BOOLEAN,
           NEW tree, tree = Tree(query, source)
    PROVE  /\ CpuOf(Range(tree.unmapped)) + CpuOf({row \in rows : query.hideInfra /\ row.kind = "infra"})
                + SumFunction([i \in DOMAIN tree.groups |-> CpuOf(Range(tree.groups[i].children))]) = CpuOf(rows)
           /\ {<<g.host, g.residuals>> : g \in Range(tree.groups)} = {<<g.host, g.residuals>> : g \in source.groups}
<1>1. PICK bare : bare = IF query.hideInfra THEN HideInfra(source) ELSE source
  OBVIOUS
<1> DEFINE Left(S) == IF query.hideInfra THEN WithoutInfra(S) ELSE S
<1>2. /\ GroupsOf(bare.groups, rows) /\ InGroups(bare.groups) = Left(InGroups(source.groups))
      /\ bare.unmapped = Left(source.unmapped)
      /\ {<<g.host, g.residuals>> : g \in bare.groups} = {<<g.host, g.residuals>> : g \in source.groups}
  <2>1. CASE query.hideInfra
    <3>1. bare = HideInfra(source)
      BY <1>1, <2>1
    <3>2. bare.groups = ChildrenWithoutInfra(source.groups) /\ bare.unmapped = WithoutInfra(source.unmapped)
      BY <3>1 DEF HideInfra, IsTree
    <3> QED BY <2>1, <3>2, HiddenGroups
  <2>2. CASE ~query.hideInfra
    BY <1>1, <2>2
  <2> QED BY <2>1, <2>2
<1>3. tree.groups = SortedGroups(bare.groups, "host", query.sort) /\ tree.unmapped = SortedSet(bare.unmapped, query.sort)
  <2>1. {r \in bare.unmapped : ~query.hideWindows \/ ~WindowsWorkload(r)} = bare.unmapped
    OBVIOUS
  <2> QED BY <1>1, <2>1 DEF Tree
<1>4. PICK grouped, loose, hidden :
          /\ grouped = InGroups(bare.groups) /\ loose = bare.unmapped
          /\ hidden = {row \in rows : query.hideInfra /\ row.kind = "infra"}
  OBVIOUS
<1>5. /\ rows = (loose \cup hidden) \cup grouped /\ loose \cap hidden = {} /\ (loose \cup hidden) \cap grouped = {}
  BY <1>2, <1>4 DEF WithoutInfra
<1>6. Rated(loose) /\ Rated(hidden) /\ Rated(grouped)
  <2>1. loose \in SUBSET rows /\ hidden \in SUBSET rows /\ grouped \in SUBSET rows
    BY <1>5
  <2> QED BY <2>1, CpuOfPart
<1>7. CpuOf(rows) = CpuOf(loose) + CpuOf(hidden) + CpuOf(grouped)
  <2>1. Rated(loose \cup hidden) /\ CpuOf(loose \cup hidden) = CpuOf(loose) + CpuOf(hidden)
    BY <1>5, <1>6, CpuOfUnion
  <2>2. CpuOf((loose \cup hidden) \cup grouped) = CpuOf(loose \cup hidden) + CpuOf(grouped)
    BY <1>5, <1>6, <2>1, CpuOfUnion
  <2> QED BY <1>5, <2>1, <2>2
<1>8. Range(tree.unmapped) = loose
  <2>1. PICK s : s = SortedSet(loose, query.sort)
    OBVIOUS
  <2>2. ListsOnce(s, loose)
    BY <1>6, <2>1, SortedRowsAre DEF Rated
  <2>3. Range(s) = loose
    BY <2>2 DEF ListsOnce, Range
  <2> QED BY <1>3, <1>4, <2>1, <2>3
<1>9. PICK shown, total, sort :
          /\ shown = tree.groups /\ total = SumFunction([i \in DOMAIN shown |-> CpuOf(Range(shown[i].children))])
          /\ sort = query.sort
  OBVIOUS
<1>10. total = CpuOf(grouped) /\ {<<g.host, g.residuals>> : g \in Range(shown)} = {<<g.host, g.residuals>> : g \in bare.groups}
  <2>1. shown = SortedGroups(bare.groups, "host", sort)
    BY <1>3, <1>9
  <2>2. /\ SumFunction([i \in DOMAIN shown |-> CpuOf(Range(shown[i].children))]) = CpuOf(InGroups(bare.groups))
        /\ {<<g.host, g.residuals>> : g \in Range(shown)} = {<<g.host, g.residuals>> : g \in bare.groups}
    BY <1>2, <2>1, GroupsShowCpu DEF GroupsOf
  <2> QED BY <1>4, <1>9, <2>2
<1>11. CpuOf(loose) + CpuOf(hidden) + total = CpuOf(rows)
  BY <1>7, <1>10
<1> QED BY <1>2, <1>4, <1>8, <1>9, <1>10, <1>11

LEMMA TreePublished ==
    ASSUME Measured, HostsInv, NEW metadata, NEW answer, published' = Assembled(metadata, answer)
    PROVE  TreeConservesCpu'
<1>1. PICK p : p = published' /\ p = Assembled(metadata, answer)
  OBVIOUS
<1>2. p.pids = SnapshotRows /\ p.tree.groups = Bare.groups /\ p.tree.unmapped = Bare.unmapped
  BY <1>1, AssembledIs
<1>3. ASSUME NEW hide \in BOOLEAN, NEW tree, tree = TreeAt(p, hide), NEW hidden, NEW rows,
             hidden = {row \in p.pids : hide /\ row.kind = "infra"},
             rows = {row \in p.pids : row.env = "wsl" \/ (row.env = "wslc" /\ row.kind = "container")}
      PROVE  /\ TreeCpu(tree, hidden) = SumOf(rows, "cpu")
             /\ {<<g.host, g.residuals>> : g \in Range(tree.groups)} = {<<g.host, g.residuals>> : g \in p.tree.groups}
  <2>1. rows = Mapped /\ hidden = {row \in Mapped : hide /\ row.kind = "infra"}
    BY <1>2, <1>3, ShownRows
  <2>2. PICK query : query = [sort |-> DefaultSort, limit |-> 8, childLimit |-> 8, showProcesses |-> TRUE,
                              showHost |-> TRUE, hideInfra |-> hide, hideWindows |-> FALSE]
    OBVIOUS
  <2>3. PICK source : source = p.tree
    OBVIOUS
  <2>4. tree = Tree(query, source) /\ query.hideWindows = FALSE /\ query.hideInfra = hide
    BY <1>3, <2>2, <2>3 DEF TreeAt, Projected
  <2>5. IsTree(source)
    BY <1>1, <2>3, AssembledIs
  <2>6. Rated(rows) /\ GroupsOf(source.groups, rows) /\ InGroups(source.groups) \cup source.unmapped = rows
        /\ InGroups(source.groups) \cap source.unmapped = {}
    BY <1>2, <2>1, <2>3, BareIs, MappedAre
  <2>7. hidden = {row \in rows : query.hideInfra /\ row.kind = "infra"}
    BY <2>1, <2>4
  <2>8. /\ CpuOf(Range(tree.unmapped)) + CpuOf({row \in rows : query.hideInfra /\ row.kind = "infra"})
             + SumFunction([i \in DOMAIN tree.groups |-> CpuOf(Range(tree.groups[i].children))]) = CpuOf(rows)
        /\ {<<g.host, g.residuals>> : g \in Range(tree.groups)} = {<<g.host, g.residuals>> : g \in source.groups}
    BY <1>3, <2>4, <2>5, <2>6, TreeShows
  <2>9. TreeCpu(tree, hidden) = CpuOf(Range(tree.unmapped)) + CpuOf(hidden)
             + SumFunction([i \in DOMAIN tree.groups |-> CpuOf(Range(tree.groups[i].children))])
    BY Zenon DEF TreeCpu, CpuOf
  <2> QED BY <2>3, <2>7, <2>8, <2>9 DEF CpuOf
<1>4. \A hide \in BOOLEAN :
          LET hidden == {row \in p.pids : hide /\ row.kind = "infra"}
              rows   == {row \in p.pids : row.env = "wsl" \/ (row.env = "wslc" /\ row.kind = "container")}
          IN  /\ TreeCpu(TreeAt(p, hide), hidden) = SumOf(rows, "cpu")
              /\ {<<g.host, g.residuals>> : g \in Range(TreeAt(p, hide).groups)}
                   = {<<g.host, g.residuals>> : g \in p.tree.groups}
  <2> TAKE hide \in BOOLEAN
  <2>1. PICK tree, hidden, rows :
            /\ tree = TreeAt(p, hide) /\ hidden = {row \in p.pids : hide /\ row.kind = "infra"}
            /\ rows = {row \in p.pids : row.env = "wsl" \/ (row.env = "wslc" /\ row.kind = "container")}
    OBVIOUS
  <2>2. /\ TreeCpu(tree, hidden) = SumOf(rows, "cpu")
        /\ {<<g.host, g.residuals>> : g \in Range(tree.groups)} = {<<g.host, g.residuals>> : g \in p.tree.groups}
    BY <1>3, <2>1, Zenon
  <2> QED BY <2>1, <2>2, Zenon
<1>5. published' = p
  BY <1>1
<1> QED BY <1>4, <1>5, Zenon DEF TreeConservesCpu

\* The tree shows the CPU of every process of WSL and every WSLC container once, in a
\* host's group or beside them, whichever hosts there are (attribution.rs:165).
THEOREM SampleTreeConservesCpu ==
    ASSUME NEW begin, NEW configs, FiniteHosts(configs)
    PROVE  SampleSpec(begin, configs) /\ NamedWithinWsl => []TreeConservesCpu
<1>1. InitMonitor(configs) => TreeConservesCpu
  BY DEF InitMonitor, TreeConservesCpu
<1>2. AllInv /\ TreeConservesCpu /\ [MonitorNext]_monitorVars => TreeConservesCpu'
  <2> SUFFICES ASSUME AllInv, TreeConservesCpu, [MonitorNext]_monitorVars PROVE TreeConservesCpu'
    OBVIOUS
  <2>1. CASE published' = published
    BY <2>1 DEF TreeConservesCpu
  <2>2. ASSUME pc = "assemble", NEW metadata, NEW answer, published' = Assembled(metadata, answer)
        PROVE  TreeConservesCpu'
    BY <2>2, TreePublished DEF AllInv, HostsInv, Measured
  <2> QED BY <2>1, <2>2, PublishedAs DEF AllInv
<1> QED BY <1>1, <1>2, AllInvariant, PTL DEF SampleSpec

\* All three: as a catalog, as the children of a row and as a tree, a snapshot shows
\* the same rows, each once, whatever failed or changed while it was taken.
THEOREM SampleSnapshotConsistent ==
    ASSUME NEW begin, NEW configs, FiniteHosts(configs), AbsentIsNoIdentity
    PROVE  SampleSpec(begin, configs) /\ NamedWithinWsl => []SnapshotConsistent
<1>1. CatalogOpens /\ ChildrenListed /\ TreeConservesCpu => SnapshotConsistent
  BY DEF SnapshotConsistent
<1>2. SampleSpec(begin, configs) /\ NamedWithinWsl => []CatalogOpens
  BY SampleCatalogOpens
<1>3. SampleSpec(begin, configs) /\ NamedWithinWsl => []ChildrenListed
  BY SampleChildrenListed
<1>4. SampleSpec(begin, configs) /\ NamedWithinWsl => []TreeConservesCpu
  BY SampleTreeConservesCpu
<1> QED BY <1>1, <1>2, <1>3, <1>4, PTL
=============================================================================
