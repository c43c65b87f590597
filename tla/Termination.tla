------------------------------ MODULE Termination ------------------------------
(****************************************************************************)
(* Termination of one WSL process: Request and terminate of                 *)
(* src/src/action.rs, the worker thread that runs it, and the helper        *)
(* src/src/terminate.py inside the guest, whose processes come and go and   *)
(* reuse PIDs.  Every call the helper makes is a step of its own.           *)
(*                                                                          *)
(* Boot ID, namespaces and user of the guest are one number, its life: the  *)
(* code takes them together and compares them all.  An instance is a        *)
(* process that was started once; life, PID and start ticks identify it     *)
(* among those of its home: the primary distribution, or Windows, containers *)
(* and other distributions, whose processes are listed beside them.         *)
(****************************************************************************)
EXTENDS FiniteSets, Naturals, Sequences

CONSTANTS
    Pids,          \* process IDs of the guest
    Names,         \* names a process can go by
    MaxLife,       \* bound: lives of the guest
    MaxStart,      \* bound: processes started in one life
    MaxRequests,   \* bound: confirmed requests
    Deadline,      \* ticks until the absolute deadline (10 s)
    Timeout,       \* ticks until the wait for wsl.exe ends (12 s)
    Skew,          \* bound: disagreement of the clocks of host and guest
    Nothing        \* no process, scope, result or signal

ASSUME PidAssumption == Pids \subseteq Nat \ {0} /\ IsFiniteSet(Pids)
ASSUME BoundAssumption ==
    MaxLife \in Nat \ {0} /\ MaxStart \in Nat /\ MaxRequests \in Nat
ASSUME TimeAssumption ==
    /\ Deadline \in Nat /\ Timeout \in Nat /\ Skew \in Nat
    /\ Deadline + Skew =< Timeout

VARIABLES
    life,        \* the identity of the running guest
    started,     \* the start ticks given last in this life
    processes,   \* the process at each PID, or Nothing
    requests,    \* the confirmed requests, in order
    helper,      \* per request: the guest helper
    age,         \* per request: ticks since terminate was called
    answer       \* per request: what terminate returned, or Nothing

guestVars   == <<life, started, processes>>
requestVars == <<requests, helper, age, answer>>

Homes     == {"primary", "elsewhere"}
Instances == [home : Homes, life : 1..MaxLife, pid : Pids, start : 1..MaxStart]
Processes == [of : Instances, name : Names, own : BOOLEAN]
Scopes    == 1..MaxLife
Requests  == [scope : Scopes, of : Instances, name : Names]
Results   == {"accepted", "stale", "denied", "unsupported", "expired", "failed"}
Answers   == Results \cup {"unavailable", "unknown", "stopped"}

\* queued: python3 has not started.  Then one stage per call to come.
Stages  == {"queued", "open", "stat", "namespaces", "deadline", "signal", "done"}
Helpers == [at : Stages, fd : Instances \cup {Nothing},
            result : Results \cup {Nothing}, signal : Instances \cup {Nothing}]

ASSUME NothingAssumption ==
    /\ Nothing \notin Nat \cup Answers
    /\ Nothing \notin Instances \cup Processes \cup Requests

InitTermination ==
    /\ life = 1 /\ started = 0
    /\ processes = [p \in Pids |-> Nothing]
    /\ requests = <<>> /\ helper = <<>> /\ age = <<>> /\ answer = <<>>

(****************************************************************************)
(* The guest.                                                               *)
(****************************************************************************)
ProcessStarts(p) ==
    /\ processes[p] = Nothing /\ started < MaxStart
    /\ started' = started + 1
    /\ \E n \in Names, own \in BOOLEAN :
          processes' = [processes EXCEPT ![p] =
              [of |-> [home |-> "primary", life |-> life, pid |-> p, start |-> started'],
               name |-> n, own |-> own]]
    /\ UNCHANGED <<life, requestVars>>

ProcessExits(p) ==
    /\ processes[p] # Nothing
    /\ processes' = [processes EXCEPT ![p] = Nothing]
    /\ UNCHANGED <<life, started, requestVars>>

ProcessRenames(p) ==
    /\ processes[p] # Nothing
    /\ \E n \in Names \ {processes[p].name} :
          processes' = [processes EXCEPT ![p].name = n]
    /\ UNCHANGED <<life, started, requestVars>>

\* Everything in the guest ends, a helper at work included.
GuestRestarts ==
    /\ life < MaxLife
    /\ life' = life + 1 /\ started' = 0
    /\ processes' = [p \in Pids |-> Nothing]
    /\ helper' = [i \in DOMAIN helper |->
          IF helper[i].at \in {"queued", "done"} THEN helper[i]
          ELSE [helper[i] EXCEPT !.at = "done"]]
    /\ UNCHANGED <<requests, age, answer>>

(****************************************************************************)
(* action.rs                                                                *)
(****************************************************************************)
\* Mutant: what kind of row it is does not matter.
AnyRow(row) == FALSE

\* What the request does not name: the helper knows the primary guest only.
NotPrimary(row) == row.of.home # "primary"

Rejects(scope, row) ==
    \/ scope = Nothing
    \/ NotPrimary(row)
    \/ row.of.pid =< 1
    \/ row.of.start = 0

RequestFor(scope, row) == [scope |-> scope, of |-> row.of, name |-> row.name]

NewHelper == [at |-> "queued", fd |-> Nothing, result |-> Nothing, signal |-> Nothing]

\* y: the worker calls terminate, which fixes the deadline.
Dispatch(request) ==
    /\ Len(requests) < MaxRequests
    /\ requests' = Append(requests, request)
    /\ helper' = Append(helper, NewHelper)
    /\ age' = Append(age, 0)
    /\ answer' = Append(answer, Nothing)

Outcome(result) == IF result \in Results \ {"failed"} THEN result ELSE "unavailable"

\* wsl.exe has ended: its output may be missing or its status a failure.
WslReturns(i) ==
    /\ answer[i] = Nothing /\ helper[i].at = "done"
    /\ \E output \in {helper[i].result, Nothing} :
          answer' = [answer EXCEPT ![i] = Outcome(output)]
    /\ UNCHANGED <<guestVars, requests, helper, age>>

\* wsl.exe cannot be launched: the helper never runs.
DispatchFails(i) ==
    /\ answer[i] = Nothing /\ helper[i].at = "queued"
    /\ answer' = [answer EXCEPT ![i] = "unknown"]
    /\ helper' = [helper EXCEPT ![i].at = "done"]
    /\ UNCHANGED <<guestVars, requests, age>>

\* Mutant: a command that timed out is reported like one that did nothing.
TimeoutAsExpired == "expired"

TimeoutAnswer == "unknown"

\* wsl.exe is killed; the helper, a process of the guest, is not.
WaitEnds(i) ==
    /\ answer[i] = Nothing /\ age[i] >= Timeout
    /\ answer' = [answer EXCEPT ![i] = TimeoutAnswer]
    /\ UNCHANGED <<guestVars, requests, helper, age>>

\* The worker panics and its sender goes.
WorkerPanics(i) ==
    /\ answer[i] = Nothing
    /\ answer' = [answer EXCEPT ![i] = "stopped"]
    /\ UNCHANGED <<guestVars, requests, helper, age>>

TimePasses(i) ==
    /\ age[i] < Timeout
    /\ answer[i] = Nothing \/ helper[i].at # "done"
    /\ age' = [age EXCEPT ![i] = @ + 1]
    /\ UNCHANGED <<guestVars, requests, helper, answer>>

(****************************************************************************)
(* terminate.py                                                             *)
(****************************************************************************)
\* The helper of request i goes from one call to the next, or ends with a
\* result.
Goes(i, from, to) ==
    /\ helper[i].at = from
    /\ helper' = [helper EXCEPT ![i].at = to]

Returns(i, from, result) ==
    /\ helper[i].at = from
    /\ helper' = [helper EXCEPT ![i] = [@ EXCEPT !.at = "done", !.result = result]]

\* Mutant: the handle is taken after the start ticks were read.
ReadFirst == <<"stat", "open", "namespaces">>

CallOrder == <<"open", "stat", "namespaces">>

After(call) ==
    CASE call = CallOrder[1] -> CallOrder[2]
      [] call = CallOrder[2] -> CallOrder[3]

CheckScope(i) ==
    \/ life = requests[i].scope /\ Goes(i, "queued", CallOrder[1])
    \/ life # requests[i].scope /\ Returns(i, "queued", "stale")
    \/ \E r \in {"unsupported", "failed"} : Returns(i, "queued", r)

At(i) == processes[requests[i].of.pid]

OpenHandle(i) ==
    \/ /\ At(i) # Nothing /\ helper[i].at = "open"
       /\ helper' = [helper EXCEPT ![i] =
              [@ EXCEPT !.at = After("open"), !.fd = At(i).of]]
    \/ At(i) = Nothing /\ Returns(i, "open", "stale")
    \/ Returns(i, "open", "failed")

SameStart(i) == At(i) # Nothing /\ At(i).of.start = requests[i].of.start

ReadStart(i) ==
    \/ SameStart(i) /\ Goes(i, "stat", After("stat"))
    \/ ~SameStart(i) /\ Returns(i, "stat", "stale")
    \/ Returns(i, "stat", "denied")

SameNamespaces(i) == At(i) # Nothing /\ At(i).own

ReadNamespaces(i) ==
    \/ SameNamespaces(i) /\ Goes(i, "namespaces", "deadline")
    \/ ~SameNamespaces(i) /\ Returns(i, "namespaces", "stale")
    \/ Returns(i, "namespaces", "denied")

\* Mutant: the deadline is counted from when the helper asks.
AlwaysInTime(i) == {Deadline - 1}

\* What time.time() in the guest is on the clock of the host.
GuestTime(i) == {t \in 0..(Timeout + Skew) : age[i] =< t + Skew /\ t =< age[i] + Skew}

CheckDeadline(i) ==
    \E now \in GuestTime(i) :
        \/ now < Deadline /\ Goes(i, "deadline", "signal")
        \/ now >= Deadline /\ Returns(i, "deadline", "expired")

Alive(instance) == instance \in {processes[p].of : p \in {q \in Pids : processes[q] # Nothing}}

SendSignal(i) ==
    \/ /\ helper[i].at = "signal" /\ Alive(helper[i].fd)
       /\ helper' = [helper EXCEPT ![i] =
              [@ EXCEPT !.at = "done", !.result = "accepted", !.signal = helper[i].fd]]
    \/ ~Alive(helper[i].fd) /\ Returns(i, "signal", "stale")
    \/ Returns(i, "signal", "denied")

HelperStep(i) ==
    /\ \/ CheckScope(i) \/ OpenHandle(i) \/ ReadStart(i)
       \/ ReadNamespaces(i) \/ CheckDeadline(i) \/ SendSignal(i)
    /\ UNCHANGED <<guestVars, requests, age, answer>>

WorkerStep(i) ==
    WslReturns(i) \/ DispatchFails(i) \/ WaitEnds(i) \/ WorkerPanics(i) \/ TimePasses(i)

GuestStep ==
    \/ \E p \in Pids : ProcessStarts(p) \/ ProcessExits(p) \/ ProcessRenames(p)
    \/ GuestRestarts

RemoteStep ==
    \/ GuestStep
    \/ \E i \in DOMAIN requests : HelperStep(i) \/ WorkerStep(i)

\* Types of the variables: one helper, age and answer for every request.
TerminationTypeOK ==
    /\ life \in Scopes /\ started \in 0..MaxStart
    /\ processes \in [Pids -> Processes \cup {Nothing}]
    /\ requests \in Seq(Requests) /\ Len(requests) =< MaxRequests
    /\ helper \in Seq(Helpers) /\ Len(helper) = Len(requests)
    /\ age \in Seq(0..Timeout) /\ Len(age) = Len(requests)
    /\ answer \in Seq(Answers \cup {Nothing}) /\ Len(answer) = Len(requests)
==============================================================================
