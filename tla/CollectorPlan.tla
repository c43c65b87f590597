---------------------------- MODULE CollectorPlan ----------------------------
(****************************************************************************)
(* Which distributions are sampled: the plans of collector.rs, the capture  *)
(* of a one-shot sample and the additional collector of a stream, while     *)
(* distributions start and stop.                                            *)
(*                                                                          *)
(* A name is <<distribution, spelling>>; wsl.exe lists one spelling.  Rows  *)
(* of the primary distribution have NoSource, those of another its name.    *)
(****************************************************************************)
EXTENDS Resources

CONSTANTS
    Distros,       \* the distributions, naturals in the order of the listing
    Here,          \* the distribution in which wsltop runs, or the default one
    BlankName,         \* an empty --distro
    Unknown,       \* a discovery that failed
    MaxChanges,    \* bound: distributions that start or stop
    MaxFaults      \* bound: calls that fail

ASSUME PlanAssumption == IsFiniteSet(Distros) /\ Here \in Distros

VARIABLES
    platform,   \* "wsl" or "windows"
    running,    \* the distributions that run
    changes,    \* distributions that started or stopped so far
    faults,     \* failed calls so far
    plan,       \* the CollectorPlan, or Absent
    capture,    \* the capture in progress: its number and place
    listings    \* history: what each discovery of a capture listed

planVars == <<platform, running, changes, faults, plan, capture, listings>>

Listed(d) == <<d, 1>>
Listing == {Listed(d) : d \in running}
First(names) == CHOOSE name \in names : \A other \in names : name[1] =< other[1]

\* eq_ignore_ascii_case
SameName(a, b) == a[1] = b[1]

Fails == faults < MaxFaults /\ faults' = faults + 1
Answers == UNCHANGED faults

\* run_wsl_script: wsl.exe starts the distribution that it is to run in.
Reached(d) == Answers /\ running' = running \cup {d}

\* multiwsl::snapshot: the script fails, or what it prints does not parse.
NotReached == Fails /\ UNCHANGED running

-----------------------------------------------------------------------------
(* The environment.                                                         *)
(****************************************************************************)

\* The distribution in which wsltop runs does not stop under it.
DistroChanges ==
    /\ changes < MaxChanges
    /\ changes' = changes + 1
    /\ \E d \in Distros :
          /\ platform = "wsl" => d # Here
          /\ running' = IF d \in running THEN running \ {d} ELSE running \cup {d}
    /\ UNCHANGED <<platform, faults, plan, capture, listings>>

-----------------------------------------------------------------------------
(* The plans.                                                               *)
(****************************************************************************)

IsPrimary(primary, name) == primary # Absent /\ SameName(primary, name)

\* Mutant: the primary distribution is left out under the name it was given.
NamesButPrimary(primary, names) == {name \in names : name # primary}

Others(primary, names) == {name \in names : ~IsPrimary(primary, name)}

NewPlan(samples, primary, additional, wslOnly, warned) ==
    [samples |-> samples, primary |-> primary, additional |-> additional,
     enabled |-> ~wslOnly, warned |-> warned]

\* wsl_native: current is WSL_DISTRO_NAME, which sudo removes.
WslPlan(current, wslOnly, listing) ==
    NewPlan(Here, current,
            IF wslOnly \/ listing = Unknown THEN {} ELSE Others(current, listing), wslOnly,
            IF ~wslOnly /\ listing = Unknown THEN {"additional discovery"} ELSE {})

\* windows_native_spec and select_primary_distro: Absent when there is none.
WindowsPlan(requested, default, wslOnly, listing) ==
    LET known     == IF requested # Absent \/ default = Unknown THEN Absent ELSE default
        discovers == ~wslOnly \/ (requested = Absent /\ known = Absent)
        names     == IF discovers /\ listing # Unknown THEN listing ELSE {}
        primary   == IF requested \notin {Absent, BlankName} THEN requested
                     ELSE IF known # Absent THEN known
                     ELSE IF names # {} THEN First(names) ELSE Absent
        warned    == (IF requested = Absent /\ default = Unknown THEN {"default discovery"} ELSE {})
                     \cup (IF discovers /\ listing = Unknown
                           THEN IF ~wslOnly THEN {"additional discovery"}
                                ELSE IF requested = Absent THEN {"fallback discovery"} ELSE {}
                           ELSE {})
    IN  IF primary = Absent THEN Absent
        ELSE NewPlan(primary[1], primary, IF wslOnly THEN {} ELSE Others(primary, names), wslOnly, warned)

NativePlan(name, wslOnly, default, listing) ==
    IF platform = "wsl" THEN WslPlan(name, wslOnly, listing)
                        ELSE WindowsPlan(name, default, wslOnly, listing)

\* into_stream
StreamPlan(native) ==
    IF native = Absent THEN Absent ELSE [native EXCEPT !.warned = @ \ {"additional discovery"}]

\* Only Windows asks for the default distribution, and only when none is
\* named; asking starts it.
MakePlan(name, wslOnly, streams) ==
    LET asks == platform = "windows" /\ name = Absent
    IN  /\ plan = Absent
        /\ \E default \in IF asks THEN {Unknown, Absent, Listed(Here)} ELSE {Absent} :
              /\ running' = IF default = Listed(Here) THEN running \cup {Here} ELSE running
              /\ \E listing \in {Unknown, Listing'} :
                    /\ IF Unknown \in {default, listing} THEN Fails ELSE Answers
                    /\ LET native == NativePlan(name, wslOnly, default, listing)
                       IN  plan' = IF streams THEN StreamPlan(native) ELSE native
        /\ UNCHANGED <<platform, changes, capture, listings>>

-----------------------------------------------------------------------------
(* capture(): the primary distribution, a discovery, the other ones.        *)
(****************************************************************************)

\* A snapshot is of a distribution, with a source, of a capture.
Taken(d, source) == [distro |-> d, source |-> source, at |-> capture.number]

Idle == [number |-> 0, at |-> "ended", todo |-> {}, result |-> Absent]

BeginCapture ==
    capture' = [number |-> capture.number + 1, at |-> "primary", todo |-> {},
                result |-> [primary |-> Absent, additional |-> {}, warned |-> plan.warned]]

Capturing(place) == capture.at = place

CapturePrimary ==
    /\ Capturing("primary")
    /\ \/ /\ Reached(plan.samples)
          /\ capture' = [capture EXCEPT !.at = "discover", !.result.primary = Taken(plan.samples, NoSource)]
       \/ /\ NotReached
          /\ capture' = [capture EXCEPT !.at = "ended", !.result = Unknown]
    /\ UNCHANGED <<platform, changes, plan, listings>>

Gone(names) == {<<"gone", name>> : name \in {name \in plan.additional : ~\E other \in names : SameName(name, other)}}

\* Without other distributions nothing is listed, and nothing is missed.
Discover ==
    /\ Capturing("discover")
    /\ LET names == IF plan.enabled THEN Listing ELSE {}
       IN  \/ /\ Answers
              /\ listings' = IF plan.enabled THEN Append(listings, running) ELSE listings
              /\ capture' = [capture EXCEPT !.at = "visit", !.result.warned = @ \cup Gone(names),
                                            !.todo = Others(plan.primary, names)]
           \/ /\ plan.enabled /\ Fails
              /\ capture' = [capture EXCEPT !.at = "ended", !.result.warned = @ \cup {"additional discovery"}]
              /\ UNCHANGED listings
    /\ UNCHANGED <<platform, running, changes, plan>>

Collectors(name) == {n \in plan.additional : SameName(n, name)}

\* The collector of a name, made when the name is new.  A distribution that
\* has stopped since the discovery is started by wsl.exe.
Visit(name) ==
    /\ Capturing("visit") /\ name \in capture.todo
    /\ plan' = IF Collectors(name) # {} THEN plan ELSE [plan EXCEPT !.additional = @ \cup {name}]
    /\ LET known == IF Collectors(name) # {} THEN CHOOSE n \in Collectors(name) : TRUE ELSE name
           rest  == [capture EXCEPT !.todo = @ \ {name}]
       IN  \/ /\ Reached(known[1])
              /\ capture' = [rest EXCEPT !.result.additional = @ \cup {<<known, Taken(known[1], <<known[1]>>)>>}]
           \/ /\ NotReached
              /\ capture' = [rest EXCEPT !.result.warned = @ \cup {<<"failed", known>>}]
    /\ UNCHANGED <<platform, changes, listings>>

EndCapture ==
    /\ Capturing("visit") /\ capture.todo = {}
    /\ capture' = [capture EXCEPT !.at = "ended"]
    /\ UNCHANGED <<platform, running, changes, faults, plan, listings>>

CaptureStep ==
    \/ CapturePrimary
    \/ Discover
    \/ \E name \in capture.todo : Visit(name)
    \/ EndCapture

-----------------------------------------------------------------------------
(* AdditionalStreamCollector::snapshot, as one step of the environment: it  *)
(* visits the collectors, each of which it finds running or not.            *)
(****************************************************************************)

IsListed(name, names) == \E other \in names : SameName(name, other)

\* A call in the middle of which distributions stop: failed are the captures
\* that do not succeed.
StreamSnapshot(native, names, failed) ==
    LET new     == {name \in Others(native.primary, names) : ~IsListed(name, native.additional)}
        all     == native.additional \cup new
        visited == {n \in Others(native.primary, all) : IsListed(n, names)}
    IN  [plan |-> [native EXCEPT !.additional = all],
         snapshots |-> visited \ failed, runningSources |-> visited, failures |-> visited \cap failed]

\* A discovery that fails is the error of the whole call and changes nothing.
StreamSample ==
    /\ \E failed \in SUBSET Listing :
          LET sample == StreamSnapshot(plan, Listing, failed)
          IN  /\ plan' = sample.plan
              /\ capture' = [capture EXCEPT !.at = "stream", !.result = [sample EXCEPT !.plan = Absent]]
    /\ listings' = <<running>>
    /\ UNCHANGED <<platform, running, changes, faults>>

-----------------------------------------------------------------------------
InitPlan(begin) ==
    /\ platform \in {"wsl", "windows"}
    /\ running \in {begin, begin \cup {Here}} /\ (platform = "wsl" => Here \in running)
    /\ changes = 0 /\ faults = 0
    /\ plan = Absent /\ capture = Idle /\ listings = <<>>

\* A stream: its plan, and then its calls, while distributions start and stop.
StreamPlanNext(names) ==
    \/ capture = Idle /\ \E name \in names : MakePlan(name, TRUE, TRUE)
    \/ plan # Absent /\ StreamSample
    \/ DistroChanges

StreamPlanSpec(begin, names) == InitPlan(begin) /\ [][StreamPlanNext(names)]_planVars

\* A stream visits every distribution that runs but the primary one, once, and
\* none that has stopped, however often they start and stop between its calls
\* (collector.rs:105).
StreamVisitsRunning ==
    capture.at = "stream" =>
        LET result == capture.result
        IN  /\ {n[1] : n \in result.runningSources} = listings[1] \ {plan.samples}
            /\ Cardinality(result.runningSources) = Cardinality(listings[1] \ {plan.samples})
            /\ result.snapshots \cup result.failures = result.runningSources
            /\ result.snapshots \cap result.failures = {}
=============================================================================
