----------------------------- MODULE ActionProofs -----------------------------
(****************************************************************************)
(* Whom the helpers of terminate.py signal, what the event loop says of it, *)
(* and that it shows the process a key acts on: for every guest, every list *)
(* of rows and every number of requests.  And what a call of Command        *)
(* returns: for every set of calls and every limit.                         *)
(****************************************************************************)
EXTENDS TerminalUi, Command, NaturalLemmas, FiniteSetTheorems, SequenceTheorems

(****************************************************************************)
(* Termination: the guest and the helpers.                                  *)
(****************************************************************************)
\* The stages in which a helper depends on its guest, has a handle, has matched
\* the start ticks, and the namespaces.
Working == Stages \ {"queued", "done"}
Opened  == {"stat", "namespaces", "deadline", "signal"}
Matched == {"namespaces", "deadline", "signal"}
Checked == {"deadline", "signal"}

\* /proc shows a process where it is.
ProcessTrue(p) ==
    processes[p] # Nothing =>
        /\ processes[p].of.pid = p /\ processes[p].of.life = life
        /\ processes[p].of.home = "primary" /\ processes[p].of.start =< started

\* The instance was started, so that none started from now on is the same.
Known(x) == x.life < life \/ (x.life = life /\ x.start =< started)

\* A request names an instance of the primary distribution and of its scope, in
\* which its helper works.
InScope(i) ==
    /\ requests[i].of.life = requests[i].scope /\ requests[i].of.home = "primary"
    /\ helper[i].at \in Working => requests[i].scope = life

HoldsHandle(i) ==
    helper[i].at \in Opened =>
        /\ helper[i].fd \in Instances /\ Known(helper[i].fd)
        /\ helper[i].fd.pid = requests[i].of.pid

\* What a check found is true of the handle for as long as its process lives.
Identified(i) ==
    /\ helper[i].at \in Matched /\ Alive(helper[i].fd) => helper[i].fd = requests[i].of
    /\ helper[i].at \in Checked /\ Alive(helper[i].fd) => At(i).own

Reported(i) ==
    /\ helper[i].signal = IF helper[i].result = "accepted" THEN requests[i].of ELSE Nothing
    /\ helper[i].result # Nothing => helper[i].at = "done"
    /\ answer[i] \in Results => helper[i].at = "done" /\ helper[i].result = answer[i]

HelperInv(i) == InScope(i) /\ HoldsHandle(i) /\ Identified(i) /\ Reported(i)

TerminationInv ==
    /\ \A p \in Pids : ProcessTrue(p)
    /\ \A i \in DOMAIN requests : HelperInv(i)

LEMMA AliveAt ==
    ASSUME NEW x
    PROVE  Alive(x) <=> \E p \in Pids : processes[p] # Nothing /\ processes[p].of = x
BY DEF Alive

\* A process that is alive is the one at its PID.
LEMMA AliveAtItsPid ==
    ASSUME \A p \in Pids : ProcessTrue(p), NEW x, Alive(x)
    PROVE  /\ x.pid \in Pids /\ processes[x.pid] # Nothing
           /\ processes[x.pid].of = x /\ x.life = life
BY AliveAt DEF ProcessTrue

\* The processes left when one exits or takes another name are the same.
LEMMA ExitOrRename ==
    ASSUME TerminationTypeOK, NEW p \in Pids, ProcessExits(p) \/ ProcessRenames(p),
           NEW q \in Pids, processes'[q] # Nothing
    PROVE  /\ processes[q] # Nothing /\ processes'[q].of = processes[q].of
           /\ processes'[q].own = processes[q].own
<1>1. CASE ProcessExits(p)
  BY <1>1 DEF ProcessExits, TerminationTypeOK
<1>2. CASE ProcessRenames(p)
  <2>1. PICK n \in Names : processes' = [processes EXCEPT ![p] = [processes[p] EXCEPT !.name = n]]
    BY <1>2 DEF ProcessRenames
  <2>2. CASE q = p
    <3>1. processes[p] \in Processes
      BY <1>2 DEF ProcessRenames, TerminationTypeOK
    <3>2. processes'[q] = [processes[p] EXCEPT !.name = n]
      BY <2>1, <2>2 DEF TerminationTypeOK
    <3> QED BY <1>2, <2>2, <3>1, <3>2 DEF ProcessRenames, Processes
  <2>3. CASE q # p
    BY <2>1, <2>3 DEF TerminationTypeOK
  <2> QED BY <2>2, <2>3
<1> QED BY <1>1, <1>2

\* A handle never comes to refer to another process, whatever PIDs are reused.
LEMMA HandlesOfOne ==
    ASSUME TerminationTypeOK, \A p \in Pids : ProcessTrue(p), GuestStep,
           NEW x \in Instances, Known(x)
    PROVE  /\ Known(x)'
           /\ Alive(x)' => /\ Alive(x) /\ life' = life
                           /\ processes'[x.pid].own = processes[x.pid].own
<1> USE DEF Instances, Processes, Scopes, TerminationTypeOK
<1>1. life \in Nat /\ started \in Nat /\ x.life \in Nat /\ x.start \in Nat
  BY BoundAssumption
<1>2. Alive(x)' <=> \E p \in Pids : processes'[p] # Nothing /\ processes'[p].of = x
  BY DEF Alive
<1>3. ASSUME NEW p \in Pids, ProcessStarts(p)
      PROVE  Known(x)' /\ (Alive(x)' => /\ Alive(x) /\ life' = life
                                        /\ processes'[x.pid].own = processes[x.pid].own)
  <2>1. life' = life /\ started' = started + 1
    BY <1>3 DEF ProcessStarts
  <2>2. Known(x)'
    BY <1>1, <2>1 DEF Known
  <2>3. ASSUME NEW q \in Pids, processes'[q] # Nothing, processes'[q].of = x
        PROVE  Alive(x) /\ processes'[x.pid].own = processes[x.pid].own
    <3>1. q # p
      <4>1. processes'[p].of.start = started + 1 /\ processes'[p].of.life = life
        BY <1>3, <2>1 DEF ProcessStarts
      <4> QED BY <1>1, <2>3, <4>1 DEF Known
    <3>2. processes'[q] = processes[q]
      BY <1>3, <3>1 DEF ProcessStarts
    <3>3. x.pid = q
      BY <2>3, <3>2 DEF ProcessTrue
    <3> QED BY <2>3, <3>2, <3>3, AliveAt
  <2> QED BY <1>2, <2>1, <2>2, <2>3
<1>4. ASSUME NEW p \in Pids, ProcessExits(p) \/ ProcessRenames(p)
      PROVE  Known(x)' /\ (Alive(x)' => /\ Alive(x) /\ life' = life
                                        /\ processes'[x.pid].own = processes[x.pid].own)
  <2>1. life' = life /\ started' = started
    BY <1>4 DEF ProcessExits, ProcessRenames
  <2>2. Known(x)'
    BY <2>1 DEF Known
  <2>3. ASSUME NEW q \in Pids, processes'[q] # Nothing
        PROVE  /\ processes[q] # Nothing /\ processes'[q].of = processes[q].of
               /\ processes'[q].own = processes[q].own
    BY <1>4, <2>3, ExitOrRename
  <2>4. ASSUME NEW q \in Pids, processes'[q] # Nothing, processes'[q].of = x
        PROVE  Alive(x) /\ processes'[x.pid].own = processes[x.pid].own
    <3>1. x.pid = q
      BY <2>3, <2>4 DEF ProcessTrue
    <3> QED BY <2>3, <2>4, <3>1, AliveAt
  <2> QED BY <1>2, <2>1, <2>2, <2>4
<1>5. CASE GuestRestarts
  <2>1. life' = life + 1 /\ ~ Alive(x)'
    BY <1>2, <1>5 DEF GuestRestarts
  <2> QED BY <1>1, <2>1 DEF Known
<1> QED BY <1>3, <1>4, <1>5 DEF GuestStep

\* Every request has its helper, age and answer.
LEMMA HelperAt ==
    ASSUME TerminationTypeOK
    PROVE  /\ DOMAIN requests = 1 .. Len(requests) /\ Len(requests) \in Nat
           /\ DOMAIN helper = DOMAIN requests /\ DOMAIN age = DOMAIN requests
           /\ DOMAIN answer = DOMAIN requests
           /\ \A i \in DOMAIN requests :
                 /\ requests[i] \in Requests /\ helper[i] \in Helpers
                 /\ age[i] \in 0..Timeout /\ answer[i] \in Answers \cup {Nothing}
BY LenProperties, ElementOfSeq DEF TerminationTypeOK

LEMMA GuestTypes ==
    ASSUME TerminationTypeOK, GuestStep
    PROVE  TerminationTypeOK'
<1> USE DEF TerminationTypeOK
<1>1. ASSUME NEW p \in Pids, ProcessStarts(p)
      PROVE  TerminationTypeOK'
  <2>1. PICK n \in Names, own \in BOOLEAN : processes' = [processes EXCEPT ![p] =
              [of |-> [home |-> "primary", life |-> life, pid |-> p, start |-> started'],
               name |-> n, own |-> own]]
    BY <1>1 DEF ProcessStarts
  <2>2. started' \in 1..MaxStart
    BY <1>1, BoundAssumption DEF ProcessStarts
  <2>3. [of |-> [home |-> "primary", life |-> life, pid |-> p, start |-> started'],
         name |-> n, own |-> own] \in Processes
    BY <2>2 DEF Processes, Instances, Homes, Scopes
  <2>4. processes' \in [Pids -> Processes \cup {Nothing}]
    BY <2>1, <2>3
  <2>5. started' \in 0..MaxStart
    BY <2>2
  <2> QED BY <1>1, <2>4, <2>5 DEF ProcessStarts, requestVars
<1>2. ASSUME NEW p \in Pids, ProcessExits(p)
      PROVE  TerminationTypeOK'
  BY <1>2 DEF ProcessExits, requestVars
<1>3. ASSUME NEW p \in Pids, ProcessRenames(p)
      PROVE  TerminationTypeOK'
  <2>1. PICK n \in Names : processes' = [processes EXCEPT ![p] = [processes[p] EXCEPT !.name = n]]
    BY <1>3 DEF ProcessRenames
  <2>2. [processes[p] EXCEPT !.name = n] \in Processes
    <3>1. processes[p] \in Processes
      BY <1>3 DEF ProcessRenames
    <3> QED BY <3>1 DEF Processes
  <2>3. processes' \in [Pids -> Processes \cup {Nothing}]
    BY <2>1, <2>2
  <2> QED BY <1>3, <2>3 DEF ProcessRenames, requestVars
<1>4. CASE GuestRestarts
  <2>1. life' \in Scopes /\ started' \in 0..MaxStart
    BY <1>4, BoundAssumption DEF GuestRestarts, Scopes
  <2>2. processes' \in [Pids -> Processes \cup {Nothing}]
    BY <1>4 DEF GuestRestarts
  <2>3. helper' \in Seq(Helpers) /\ Len(helper') = Len(helper)
    <3> HIDE DEF TerminationTypeOK
    <3>1. DOMAIN helper = 1 .. Len(helper) /\ Len(helper) \in Nat
      BY LenProperties DEF TerminationTypeOK
    <3>2. ASSUME NEW i \in 1 .. Len(helper)
          PROVE  (IF helper[i].at \in {"queued", "done"} THEN helper[i]
                  ELSE [helper[i] EXCEPT !.at = "done"]) \in Helpers
      <4>1. helper[i] \in Helpers
        BY ElementOfSeq DEF TerminationTypeOK
      <4> QED BY <4>1 DEF Helpers, Stages
    <3>3. helper' \in [1 .. Len(helper) -> Helpers]
      BY <1>4, <3>1, <3>2 DEF GuestRestarts
    <3> QED BY <3>1, <3>3
  <2> QED BY <1>4, <2>1, <2>2, <2>3 DEF GuestRestarts
<1> QED BY <1>1, <1>2, <1>3, <1>4 DEF GuestStep

\* The guest goes on, and what the helpers know stays true.
LEMMA GuestKeepsProcesses ==
    ASSUME TerminationTypeOK, \A p \in Pids : ProcessTrue(p), GuestStep
    PROVE  \A p \in Pids : ProcessTrue(p)'
<1>1. ASSUME NEW p \in Pids, ProcessStarts(p)
      PROVE  \A q \in Pids : ProcessTrue(q)'
  <2>1. PICK n \in Names, own \in BOOLEAN : processes' = [processes EXCEPT ![p] =
              [of |-> [home |-> "primary", life |-> life, pid |-> p, start |-> started'],
               name |-> n, own |-> own]]
    BY <1>1 DEF ProcessStarts
  <2>2. ASSUME NEW q \in Pids PROVE ProcessTrue(q)'
    <3>1. CASE q = p
      <4>1. processes'[p].of = [home |-> "primary", life |-> life, pid |-> p, start |-> started']
        BY <2>1 DEF TerminationTypeOK
      <4>2. started' =< started' /\ life' = life
        BY <1>1 DEF ProcessStarts, TerminationTypeOK
      <4> QED BY <3>1, <4>1, <4>2 DEF ProcessTrue
    <3>2. CASE q # p
      <4>1. processes'[q] = processes[q]
        BY <2>1, <3>2 DEF TerminationTypeOK
      <4>2. processes[q] # Nothing => processes[q].of.start \in Nat
        BY DEF TerminationTypeOK, Processes, Instances
      <4> QED BY <1>1, <4>1, <4>2 DEF ProcessStarts, ProcessTrue, TerminationTypeOK
    <3> QED BY <3>1, <3>2
  <2> QED BY <2>2
<1>2. ASSUME NEW p \in Pids, ProcessExits(p) \/ ProcessRenames(p)
      PROVE  \A q \in Pids : ProcessTrue(q)'
  <2>1. life' = life /\ started' = started
    BY <1>2 DEF ProcessExits, ProcessRenames
  <2> QED BY <1>2, <2>1, ExitOrRename DEF ProcessTrue
<1>3. CASE GuestRestarts
  BY <1>3 DEF GuestRestarts, ProcessTrue
<1> QED BY <1>1, <1>2, <1>3 DEF GuestStep

LEMMA GuestKeepsHelpers ==
    ASSUME TerminationTypeOK, TerminationInv, GuestStep,
           NEW i \in DOMAIN requests
    PROVE  HelperInv(i)'
<1>1. requests' = requests /\ answer' = answer
  BY DEF GuestStep, ProcessStarts, ProcessExits, ProcessRenames, GuestRestarts, requestVars
<1>2. requests[i] \in Requests /\ helper[i] \in Helpers /\ i \in DOMAIN helper
  BY HelperAt
<1>3. HelperInv(i) /\ \A p \in Pids : ProcessTrue(p)
  BY DEF TerminationInv
<1>4. CASE ~ GuestRestarts
  <2>1. life' = life /\ helper' = helper
    BY <1>4 DEF GuestStep, ProcessStarts, ProcessExits, ProcessRenames, requestVars
  <2>2. InScope(i)' /\ Reported(i)'
    BY <1>1, <1>3, <2>1 DEF HelperInv, InScope, Reported
  <2>3. CASE helper[i].at \notin Opened
    BY <1>1, <2>1, <2>2, <2>3 DEF HelperInv, HoldsHandle, Identified, Opened, Matched, Checked
  <2>4. CASE helper[i].at \in Opened
    <3>1. PICK x \in Instances : x = helper[i].fd /\ Known(x) /\ x.pid = requests[i].of.pid
      BY <1>3, <2>4 DEF HelperInv, HoldsHandle
    <3>2. /\ Known(x)'
          /\ Alive(x)' => Alive(x) /\ processes'[x.pid].own = processes[x.pid].own
      BY <1>3, <3>1, HandlesOfOne
    <3>3. helper'[i].fd = x /\ helper'[i].at = helper[i].at
      BY <2>1, <3>1
    <3>4. HoldsHandle(i)'
      BY <1>1, <3>1, <3>2, <3>3 DEF HoldsHandle
    <3>5. Alive(helper[i].fd)' = Alive(x)'
      BY <3>3 DEF Alive
    <3>6. Identified(i)'
      BY <1>1, <1>3, <3>1, <3>2, <3>3, <3>5 DEF HelperInv, Identified, At
    <3> QED BY <2>2, <3>4, <3>6 DEF HelperInv
  <2> QED BY <2>3, <2>4
<1>5. CASE GuestRestarts
  <2>1. helper'[i] = IF helper[i].at \in {"queued", "done"} THEN helper[i]
                     ELSE [helper[i] EXCEPT !.at = "done"]
    BY <1>2, <1>5 DEF GuestRestarts
  <2>2. /\ helper'[i].at \in {"queued", "done"}
        /\ helper'[i].signal = helper[i].signal /\ helper'[i].result = helper[i].result
        /\ helper[i].at = "done" => helper'[i].at = "done"
        /\ helper'[i].at = "queued" => helper[i].at = "queued"
    BY <1>2, <2>1 DEF Helpers
  <2>3. InScope(i)' /\ HoldsHandle(i)' /\ Identified(i)'
    BY <1>1, <1>3, <2>2 DEF HelperInv, InScope, HoldsHandle, Identified, Working, Opened, Matched, Checked
  <2>4. Reported(i)'
    BY <1>1, <1>3, <2>2 DEF HelperInv, Reported
  <2> QED BY <2>3, <2>4 DEF HelperInv
<1> QED BY <1>4, <1>5

LEMMA GuestKeeps ==
    ASSUME TerminationTypeOK, TerminationInv, GuestStep
    PROVE  TerminationTypeOK' /\ TerminationInv'
<1>1. requests' = requests
  BY DEF GuestStep, ProcessStarts, ProcessExits, ProcessRenames, GuestRestarts, requestVars
<1> QED BY <1>1, GuestTypes, GuestKeepsProcesses, GuestKeepsHelpers DEF TerminationInv

\* One helper changes, and nothing else.
LEMMA OneHelper ==
    ASSUME TerminationTypeOK, TerminationInv, NEW i \in DOMAIN requests, NEW h \in Helpers,
           helper' = [helper EXCEPT ![i] = h],
           UNCHANGED <<guestVars, requests, age, answer>>
    PROVE  /\ TerminationTypeOK' /\ helper'[i] = h
           /\ HelperInv(i)' => TerminationInv'
<1>1. DOMAIN requests = 1 .. Len(helper) /\ DOMAIN helper = DOMAIN requests
  BY HelperAt, LenProperties DEF TerminationTypeOK
<1>2. helper' \in Seq(Helpers) /\ Len(helper') = Len(helper)
  BY <1>1, ExceptSeq DEF TerminationTypeOK
<1>3. helper'[i] = h /\ \A j \in DOMAIN requests : j # i => helper'[j] = helper[j]
  BY <1>1
<1>4. TerminationTypeOK'
  BY <1>2 DEF TerminationTypeOK, guestVars
<1>5. \A p \in Pids : ProcessTrue(p)'
  BY DEF TerminationInv, ProcessTrue, guestVars
<1>6. ASSUME NEW j \in DOMAIN requests, j # i
      PROVE  HelperInv(j)'
  <2>1. helper'[j] = helper[j]
    BY <1>3, <1>6
  <2>2. HelperInv(j)
    BY DEF TerminationInv
  <2> QED BY <2>1, <2>2
        DEF HelperInv, InScope, HoldsHandle, Known, Identified, Reported, Alive, At, guestVars
<1>7. HelperInv(i)' => TerminationInv'
  BY <1>5, <1>6 DEF TerminationInv
<1> QED BY <1>3, <1>4, <1>7

\* A helper that has not ended has no result, and its request no answer of its.
LEMMA AtWork ==
    ASSUME TerminationTypeOK, TerminationInv, NEW i \in DOMAIN requests, helper[i].at # "done"
    PROVE  helper[i].result = Nothing /\ helper[i].signal = Nothing /\ answer[i] \notin Results
BY NothingAssumption DEF TerminationInv, HelperInv, Reported, Answers, Results

LEMMA HelperReturns ==
    ASSUME TerminationTypeOK, TerminationInv, NEW i \in DOMAIN requests,
           NEW from \in Stages \ {"done"}, NEW reached \in Results \ {"accepted"},
           Returns(i, from, reached), UNCHANGED <<guestVars, requests, age, answer>>
    PROVE  /\ TerminationTypeOK' /\ TerminationInv'
           /\ helper'[i].signal = helper[i].signal /\ helper'[i].at = "done"
<1> DEFINE h == [helper[i] EXCEPT !.at = "done", !.result = reached]
<1>1. helper[i] \in Helpers /\ helper[i].at # "done" /\ DOMAIN helper = DOMAIN requests
  BY HelperAt DEF Returns
<1>2. helper' = [helper EXCEPT ![i] = h]
  BY DEF Returns
<1>3. /\ h \in Helpers /\ h.at = "done" /\ h.result = reached
      /\ h.signal = helper[i].signal /\ h.fd = helper[i].fd
  BY <1>1 DEF Helpers, Stages
<1> HIDE DEF h
<1>4. /\ TerminationTypeOK' /\ helper'[i] = h
      /\ HelperInv(i)' => TerminationInv'
  BY <1>2, <1>3, OneHelper
<1>5. Reported(i)'
  BY <1>1, <1>3, <1>4, AtWork DEF Reported
<1>6. InScope(i)' /\ HoldsHandle(i)' /\ Identified(i)'
  BY <1>3, <1>4 DEF TerminationInv, HelperInv, InScope, HoldsHandle, Identified,
                    Working, Opened, Matched, Checked
<1> QED BY <1>3, <1>4, <1>5, <1>6 DEF HelperInv

LEMMA HelperGoes ==
    ASSUME TerminationTypeOK, TerminationInv, NEW i \in DOMAIN requests,
           NEW from \in Stages \ {"done"}, NEW to \in Working,
           Goes(i, from, to), UNCHANGED <<guestVars, requests, age, answer>>,
           requests[i].scope = life,
           to \in Opened => /\ helper[i].fd \in Instances /\ Known(helper[i].fd)
                            /\ helper[i].fd.pid = requests[i].of.pid,
           to \in Matched /\ Alive(helper[i].fd) => helper[i].fd = requests[i].of,
           to \in Checked /\ Alive(helper[i].fd) => At(i).own
    PROVE  /\ TerminationTypeOK' /\ TerminationInv'
           /\ helper'[i].signal = helper[i].signal /\ helper'[i].at = to
<1> DEFINE h == [helper[i] EXCEPT !.at = to]
<1>1. helper[i] \in Helpers /\ helper[i].at # "done" /\ DOMAIN helper = DOMAIN requests
  BY HelperAt DEF Goes
<1>2. helper' = [helper EXCEPT ![i] = h]
  BY DEF Goes
<1>3. /\ h \in Helpers /\ h.at = to /\ h.result = helper[i].result
      /\ h.signal = helper[i].signal /\ h.fd = helper[i].fd
  BY <1>1 DEF Helpers, Working
<1> HIDE DEF h
<1>4. /\ TerminationTypeOK' /\ helper'[i] = h
      /\ HelperInv(i)' => TerminationInv'
  BY <1>2, <1>3, OneHelper
<1>5. Reported(i)'
  BY <1>1, <1>3, <1>4, AtWork, NothingAssumption DEF Reported, Results, Answers
<1>6. InScope(i)'
  BY <1>4 DEF TerminationInv, HelperInv, InScope, guestVars
<1>7. HoldsHandle(i)'
  BY <1>3, <1>4 DEF HoldsHandle, Known, guestVars
<1>8. Identified(i)'
  BY <1>3, <1>4 DEF Identified, Alive, At, guestVars
<1> QED BY <1>3, <1>4, <1>5, <1>6, <1>7, <1>8 DEF HelperInv

LEMMA CheckScopeKeeps ==
    ASSUME TerminationTypeOK, TerminationInv, NEW i \in DOMAIN requests, CheckScope(i),
           UNCHANGED <<guestVars, requests, age, answer>>
    PROVE  /\ TerminationTypeOK' /\ TerminationInv'
           /\ helper'[i].signal = helper[i].signal /\ helper'[i].at # "signal"
<1>1. CASE life = requests[i].scope /\ Goes(i, "queued", CallOrder[1])
  <2>1. Goes(i, "queued", "open")
    BY <1>1 DEF CallOrder
  <2> QED BY <1>1, <2>1, HelperGoes DEF Stages, Working, Opened, Matched, Checked
<1>2. CASE \E reached \in {"stale", "unsupported", "failed"} : Returns(i, "queued", reached)
  BY <1>2, HelperReturns DEF Stages, Results
<1> QED BY <1>1, <1>2 DEF CheckScope

LEMMA OpenHandleKeeps ==
    ASSUME TerminationTypeOK, TerminationInv, NEW i \in DOMAIN requests, OpenHandle(i),
           UNCHANGED <<guestVars, requests, age, answer>>
    PROVE  /\ TerminationTypeOK' /\ TerminationInv'
           /\ helper'[i].signal = helper[i].signal /\ helper'[i].at # "signal"
<1>1. CASE /\ At(i) # Nothing /\ helper[i].at = "open"
           /\ helper' = [helper EXCEPT ![i] =
                  [@ EXCEPT !.at = After("open"), !.fd = At(i).of]]
  <2> DEFINE h == [helper[i] EXCEPT !.at = "stat", !.fd = At(i).of]
  <2>1. /\ requests[i] \in Requests /\ helper[i] \in Helpers
        /\ DOMAIN helper = DOMAIN requests
    BY HelperAt
  <2>2. requests[i].of.pid \in Pids /\ At(i) \in Processes
    BY <1>1, <2>1 DEF Requests, Instances, At, TerminationTypeOK
  <2>3. /\ At(i).of \in Instances /\ Known(At(i).of)
        /\ At(i).of.pid = requests[i].of.pid
    BY <1>1, <2>2 DEF Processes, TerminationInv, ProcessTrue, Known, At
  <2>4. helper' = [helper EXCEPT ![i] = h]
    BY <1>1, <2>1 DEF After, CallOrder
  <2>5. /\ h \in Helpers /\ h.at = "stat" /\ h.fd = At(i).of
        /\ h.result = helper[i].result /\ h.signal = helper[i].signal
    BY <2>1, <2>3 DEF Helpers, Stages
  <2> HIDE DEF h
  <2>6. /\ TerminationTypeOK' /\ helper'[i] = h
        /\ HelperInv(i)' => TerminationInv'
    BY <2>4, <2>5, OneHelper
  <2>7. Reported(i)'
    BY <1>1, <2>5, <2>6, AtWork, NothingAssumption DEF Reported, Results, Answers
  <2>8. InScope(i)' /\ HoldsHandle(i)' /\ Identified(i)'
    BY <1>1, <2>3, <2>5, <2>6 DEF TerminationInv, HelperInv, InScope, HoldsHandle, Known,
          Identified, Working, Stages, Matched, Checked, guestVars
  <2> QED BY <2>5, <2>6, <2>7, <2>8 DEF HelperInv
<1>2. CASE \E reached \in {"stale", "failed"} : Returns(i, "open", reached)
  BY <1>2, HelperReturns DEF Stages, Results
<1> QED BY <1>1, <1>2 DEF OpenHandle

\* The start ticks are those of the request: the process at the PID is the
\* confirmed one, and so is the handle's as long as it lives.
LEMMA ReadStartKeeps ==
    ASSUME TerminationTypeOK, TerminationInv, NEW i \in DOMAIN requests, ReadStart(i),
           UNCHANGED <<guestVars, requests, age, answer>>
    PROVE  /\ TerminationTypeOK' /\ TerminationInv'
           /\ helper'[i].signal = helper[i].signal /\ helper'[i].at # "signal"
<1>1. CASE SameStart(i) /\ Goes(i, "stat", After("stat"))
  <2>1. Goes(i, "stat", "namespaces") /\ helper[i].at = "stat"
    BY <1>1 DEF After, CallOrder, Goes
  <2>2. requests[i] \in Requests /\ HelperInv(i)
    BY HelperAt DEF TerminationInv
  <2>3. /\ helper[i].fd \in Instances /\ Known(helper[i].fd)
        /\ helper[i].fd.pid = requests[i].of.pid /\ requests[i].scope = life
        /\ requests[i].of.life = life /\ requests[i].of.home = "primary"
    BY <2>1, <2>2 DEF HelperInv, HoldsHandle, InScope, Opened, Working, Stages
  <2>4. At(i).of = requests[i].of
    <3>1. requests[i].of \in Instances /\ requests[i].of.pid \in Pids
      BY <2>2 DEF Requests, Instances
    <3>2. At(i) \in Processes /\ At(i).of \in Instances
      BY <1>1, <3>1 DEF SameStart, At, TerminationTypeOK, Processes
    <3>3. At(i).of.pid = requests[i].of.pid /\ At(i).of.life = life /\ At(i).of.home = "primary"
      BY <1>1, <3>1 DEF SameStart, At, TerminationInv, ProcessTrue
    <3>4. At(i).of.start = requests[i].of.start
      BY <1>1 DEF SameStart
    <3> QED BY <2>3, <3>1, <3>2, <3>3, <3>4 DEF Instances
  <2>5. Alive(helper[i].fd) => helper[i].fd = requests[i].of
    BY <2>3, <2>4, AliveAtItsPid DEF TerminationInv, At
  <2> QED BY <2>1, <2>3, <2>5, HelperGoes DEF Stages, Working, Opened, Matched, Checked
<1>2. CASE \E reached \in {"stale", "denied"} : Returns(i, "stat", reached)
  BY <1>2, HelperReturns DEF Stages, Results
<1> QED BY <1>1, <1>2 DEF ReadStart

LEMMA ReadNamespacesKeeps ==
    ASSUME TerminationTypeOK, TerminationInv, NEW i \in DOMAIN requests, ReadNamespaces(i),
           UNCHANGED <<guestVars, requests, age, answer>>
    PROVE  /\ TerminationTypeOK' /\ TerminationInv'
           /\ helper'[i].signal = helper[i].signal /\ helper'[i].at # "signal"
<1>1. CASE SameNamespaces(i) /\ Goes(i, "namespaces", "deadline")
  <2>1. HelperInv(i) /\ helper[i].at = "namespaces"
    BY <1>1 DEF TerminationInv, Goes
  <2>2. /\ helper[i].fd \in Instances /\ Known(helper[i].fd)
        /\ helper[i].fd.pid = requests[i].of.pid /\ requests[i].scope = life
        /\ Alive(helper[i].fd) => helper[i].fd = requests[i].of
    BY <2>1 DEF HelperInv, HoldsHandle, InScope, Identified, Opened, Matched, Working, Stages
  <2>3. At(i).own
    BY <1>1 DEF SameNamespaces
  <2> QED BY <1>1, <2>2, <2>3, HelperGoes DEF Stages, Working
<1>2. CASE \E reached \in {"stale", "denied"} : Returns(i, "namespaces", reached)
  BY <1>2, HelperReturns DEF Stages, Results
<1> QED BY <1>1, <1>2 DEF ReadNamespaces

\* The wait for wsl.exe is longer than the deadline, whatever the clocks say.
LEMMA CheckDeadlineKeeps ==
    ASSUME TerminationTypeOK, TerminationInv, NEW i \in DOMAIN requests, CheckDeadline(i),
           UNCHANGED <<guestVars, requests, age, answer>>
    PROVE  /\ TerminationTypeOK' /\ TerminationInv'
           /\ helper'[i].signal = helper[i].signal
           /\ age[i] = Timeout => helper'[i].at # "signal"
<1>1. PICK now \in GuestTime(i) :
          \/ now < Deadline /\ Goes(i, "deadline", "signal")
          \/ now >= Deadline /\ Returns(i, "deadline", "expired")
  BY DEF CheckDeadline
<1>2. CASE now < Deadline /\ Goes(i, "deadline", "signal")
  <2>1. HelperInv(i) /\ helper[i].at = "deadline"
    BY <1>2 DEF TerminationInv, Goes
  <2>2. /\ helper[i].fd \in Instances /\ Known(helper[i].fd)
        /\ helper[i].fd.pid = requests[i].of.pid /\ requests[i].scope = life
        /\ Alive(helper[i].fd) => helper[i].fd = requests[i].of /\ At(i).own
    BY <2>1 DEF HelperInv, HoldsHandle, InScope, Identified, Opened, Matched, Checked, Working, Stages
  <2>3. /\ TerminationTypeOK' /\ TerminationInv'
        /\ helper'[i].signal = helper[i].signal
    BY <1>2, <2>2, HelperGoes DEF Stages, Working
  <2>4. age[i] # Timeout
    BY <1>1, <1>2, HelperAt, TimeAssumption DEF GuestTime
  <2> QED BY <2>3, <2>4
<1>3. CASE Returns(i, "deadline", "expired")
  BY <1>3, HelperReturns DEF Stages, Results
<1> QED BY <1>1, <1>2, <1>3

\* What is signalled is the confirmed process, in the namespaces of the request.
LEMMA SendSignalKeeps ==
    ASSUME TerminationTypeOK, TerminationInv, NEW i \in DOMAIN requests, SendSignal(i),
           UNCHANGED <<guestVars, requests, age, answer>>
    PROVE  /\ TerminationTypeOK' /\ TerminationInv' /\ helper'[i].at = "done"
           /\ \/ helper'[i].signal = helper[i].signal
              \/ /\ helper[i].signal = Nothing
                 /\ helper'[i].signal = requests[i].of
                 /\ Alive(requests[i].of) /\ At(i).own
<1>1. CASE /\ helper[i].at = "signal" /\ Alive(helper[i].fd)
           /\ helper' = [helper EXCEPT ![i] =
                  [@ EXCEPT !.at = "done", !.result = "accepted", !.signal = helper[i].fd]]
  <2> DEFINE h == [helper[i] EXCEPT !.at = "done", !.result = "accepted",
                                    !.signal = helper[i].fd]
  <2>1. /\ helper[i] \in Helpers /\ DOMAIN helper = DOMAIN requests
        /\ HelperInv(i)
    BY HelperAt DEF TerminationInv
  <2>2. /\ helper[i].fd = requests[i].of /\ At(i).own
        /\ helper[i].fd \in Instances
    BY <1>1, <2>1 DEF HelperInv, Identified, HoldsHandle, Opened, Matched, Checked
  <2>3. helper' = [helper EXCEPT ![i] = h]
    BY <1>1, <2>1
  <2>4. h \in Helpers /\ h.at = "done" /\ h.result = "accepted" /\ h.signal = requests[i].of
    BY <2>1, <2>2 DEF Helpers, Stages, Results
  <2> HIDE DEF h
  <2>5. /\ TerminationTypeOK' /\ helper'[i] = h
        /\ HelperInv(i)' => TerminationInv'
    BY <2>3, <2>4, OneHelper
  <2>6. helper[i].signal = Nothing /\ answer[i] \notin Results
    BY <1>1, AtWork
  <2>7. HelperInv(i)'
    BY <2>1, <2>4, <2>5, <2>6 DEF HelperInv, InScope, HoldsHandle, Identified, Reported,
                                  Working, Opened, Matched, Checked
  <2> QED BY <1>1, <2>2, <2>4, <2>5, <2>6, <2>7
<1>2. CASE \E reached \in {"stale", "denied"} : Returns(i, "signal", reached)
  BY <1>2, HelperReturns DEF Stages, Results
<1> QED BY <1>1, <1>2 DEF SendSignal

\* The steps of a helper: none but the last one signals.
LEMMA HelperKeeps ==
    ASSUME TerminationTypeOK, TerminationInv, NEW i \in DOMAIN requests, HelperStep(i)
    PROVE  /\ TerminationTypeOK' /\ TerminationInv'
           /\ age[i] = Timeout => helper'[i].at # "signal"
           /\ \/ helper'[i].signal = helper[i].signal
              \/ /\ helper[i].signal = Nothing
                 /\ helper'[i].signal = requests[i].of
                 /\ Alive(requests[i].of) /\ At(i).own
           /\ \A j \in DOMAIN requests : j # i => helper'[j] = helper[j]
<1>1. UNCHANGED <<guestVars, requests, age, answer>>
  BY DEF HelperStep
<1>2. /\ TerminationTypeOK' /\ TerminationInv'
      /\ age[i] = Timeout => helper'[i].at # "signal"
      /\ \/ helper'[i].signal = helper[i].signal
         \/ /\ helper[i].signal = Nothing
            /\ helper'[i].signal = requests[i].of
            /\ Alive(requests[i].of) /\ At(i).own
  <2>1. CASE CheckScope(i)      BY <1>1, <2>1, CheckScopeKeeps
  <2>2. CASE OpenHandle(i)      BY <1>1, <2>2, OpenHandleKeeps
  <2>3. CASE ReadStart(i)       BY <1>1, <2>3, ReadStartKeeps
  <2>4. CASE ReadNamespaces(i)  BY <1>1, <2>4, ReadNamespacesKeeps
  <2>5. CASE CheckDeadline(i)   BY <1>1, <2>5, CheckDeadlineKeeps
  <2>6. CASE SendSignal(i)      BY <1>1, <2>6, SendSignalKeeps
  <2> QED BY <2>1, <2>2, <2>3, <2>4, <2>5, <2>6 DEF HelperStep
<1>3. ASSUME NEW j \in DOMAIN requests, j # i
      PROVE  helper'[j] = helper[j]
  <2>1. j \in DOMAIN helper /\ i \in DOMAIN helper
    BY HelperAt
  <2> QED BY <1>3, <2>1 DEF HelperStep, CheckScope, OpenHandle, ReadStart, ReadNamespaces,
                            CheckDeadline, SendSignal, Goes, Returns
<1> QED BY <1>2, <1>3

\* The steps of a worker: no answer is taken back.
LEMMA WorkerKeeps ==
    ASSUME TerminationTypeOK, TerminationInv, NEW i \in DOMAIN requests, WorkerStep(i)
    PROVE  /\ TerminationTypeOK' /\ TerminationInv' /\ requests' = requests
           /\ \A j \in DOMAIN requests :
                 /\ answer[j] # Nothing => answer'[j] = answer[j]
                 /\ helper'[j].signal = helper[j].signal
                 /\ helper'[j].at = helper[j].at \/ helper'[j].at = "done"
<1>1. /\ DOMAIN answer = DOMAIN requests /\ DOMAIN age = DOMAIN requests
      /\ DOMAIN requests = 1 .. Len(requests) /\ DOMAIN helper = DOMAIN requests
  BY HelperAt
<1>2. ASSUME NEW a \in Answers, answer[i] = Nothing,
             answer' = [answer EXCEPT ![i] = a],
             UNCHANGED <<guestVars, requests, helper, age>>,
             a \in Results => helper[i].at = "done" /\ helper[i].result = a
      PROVE  /\ TerminationTypeOK' /\ TerminationInv' /\ requests' = requests
             /\ \A j \in DOMAIN requests : /\ answer[j] # Nothing => answer'[j] = answer[j]
                                           /\ helper'[j] = helper[j]
  <2>1. answer' \in Seq(Answers \cup {Nothing}) /\ Len(answer') = Len(answer)
    BY <1>1, <1>2, ExceptSeq DEF TerminationTypeOK
  <2>2. \A j \in DOMAIN requests : answer'[j] = IF j = i THEN a ELSE answer[j]
    BY <1>1, <1>2
  <2>3. TerminationTypeOK'
    BY <1>2, <2>1 DEF TerminationTypeOK, guestVars
  <2>4. TerminationInv'
    BY <1>2, <2>2 DEF TerminationInv, ProcessTrue, HelperInv, InScope, HoldsHandle, Known,
                      Identified, Reported, Alive, At, guestVars
  <2> QED BY <1>2, <2>2, <2>3, <2>4
<1>3. CASE WslReturns(i)
  <2>1. PICK output \in {helper[i].result, Nothing} : answer' = [answer EXCEPT ![i] = Outcome(output)]
    BY <1>3 DEF WslReturns
  <2>2. helper[i].at = "done" /\ answer[i] = Nothing /\ UNCHANGED <<guestVars, requests, helper, age>>
    BY <1>3 DEF WslReturns
  <2>3. PICK a : a = Outcome(output)
    OBVIOUS
  <2>4. a \in Answers /\ (a \in Results => helper[i].result = a)
    BY <2>1, <2>3, NothingAssumption DEF Outcome, Answers, Results
  <2> QED BY <1>2, <2>1, <2>2, <2>3, <2>4
<1>4. CASE DispatchFails(i)
  <2> DEFINE h == [helper[i] EXCEPT !.at = "done"]
  <2>1. /\ helper[i] \in Helpers /\ helper[i].at = "queued" /\ answer[i] = Nothing
        /\ HelperInv(i)
    BY <1>4, HelperAt DEF DispatchFails, TerminationInv
  <2>2. helper' = [helper EXCEPT ![i] = h] /\ answer' = [answer EXCEPT ![i] = "unknown"]
        /\ UNCHANGED <<guestVars, requests, age>>
    BY <1>4 DEF DispatchFails
  <2>3. h \in Helpers /\ h.at = "done" /\ h.signal = helper[i].signal /\ h.result = helper[i].result
    BY <2>1 DEF Helpers, Stages
  <2> HIDE DEF h
  <2>4. helper' \in Seq(Helpers) /\ Len(helper') = Len(helper)
    BY <1>1, <2>2, <2>3, ExceptSeq DEF TerminationTypeOK
  <2>5. answer' \in Seq(Answers \cup {Nothing}) /\ Len(answer') = Len(answer)
    BY <1>1, <2>2, ExceptSeq DEF TerminationTypeOK, Answers
  <2>6. \A j \in DOMAIN requests : /\ helper'[j] = IF j = i THEN h ELSE helper[j]
                                   /\ answer'[j] = IF j = i THEN "unknown" ELSE answer[j]
    BY <1>1, <2>2
  <2>7. TerminationTypeOK'
    BY <2>2, <2>4, <2>5 DEF TerminationTypeOK, guestVars
  <2>8. \A p \in Pids : ProcessTrue(p)'
    BY <2>2 DEF TerminationInv, ProcessTrue, guestVars
  <2>9. HelperInv(i)'
    BY <2>1, <2>2, <2>3, <2>6 DEF HelperInv, InScope, HoldsHandle, Identified, Reported,
          Working, Opened, Matched, Checked, Results
  <2>10. ASSUME NEW j \in DOMAIN requests, j # i PROVE HelperInv(j)'
    <3>1. HelperInv(j) /\ helper'[j] = helper[j] /\ answer'[j] = answer[j]
      BY <2>6, <2>10 DEF TerminationInv
    <3> QED BY <2>2, <3>1 DEF HelperInv, InScope, HoldsHandle, Known, Identified, Reported,
                              Alive, At, guestVars
  <2> QED BY <2>1, <2>2, <2>3, <2>6, <2>7, <2>8, <2>9, <2>10 DEF TerminationInv
<1>5. CASE WaitEnds(i)
  BY <1>2, <1>5 DEF WaitEnds, TimeoutAnswer, Answers, Results
<1>6. CASE WorkerPanics(i)
  BY <1>2, <1>6 DEF WorkerPanics, Answers, Results
<1>7. CASE TimePasses(i)
  <2>1. age' \in Seq(0..Timeout) /\ Len(age') = Len(age)
    <3>1. age[i] + 1 \in 0..Timeout
      BY <1>7, HelperAt, TimeAssumption DEF TimePasses
    <3> QED BY <1>1, <1>7, <3>1, ExceptSeq DEF TimePasses, TerminationTypeOK
  <2>2. UNCHANGED <<guestVars, requests, helper, answer>>
    BY <1>7 DEF TimePasses
  <2>3. TerminationTypeOK'
    BY <2>1, <2>2 DEF TerminationTypeOK, guestVars
  <2>4. TerminationInv'
    BY <2>2 DEF TerminationInv, ProcessTrue, HelperInv, InScope, HoldsHandle, Known,
                Identified, Reported, Alive, At, guestVars
  <2> QED BY <2>2, <2>3, <2>4
<1> QED BY <1>3, <1>4, <1>5, <1>6, <1>7 DEF WorkerStep

\* y: the new request has a helper of its own, and the others are as they were.
LEMMA DispatchKeeps ==
    ASSUME TerminationTypeOK, TerminationInv, NEW request \in Requests,
           request.of.life = request.scope, request.of.home = "primary",
           Dispatch(request), UNCHANGED guestVars
    PROVE  /\ TerminationTypeOK' /\ TerminationInv'
           /\ Len(requests') = Len(requests) + 1
           /\ requests'[Len(requests) + 1] = request
           /\ helper'[Len(requests) + 1].signal = Nothing
           /\ helper'[Len(requests) + 1].at = "queued"
           /\ \A j \in DOMAIN requests : /\ requests'[j] = requests[j] /\ helper'[j] = helper[j]
                                         /\ answer'[j] = answer[j]
<1>0. PICK n : n = Len(requests) + 1
  OBVIOUS
<1>1. DOMAIN requests = 1 .. Len(requests) /\ Len(requests) \in Nat
  BY HelperAt
<1>2. /\ requests' \in Seq(Requests) /\ Len(requests') = n /\ requests'[n] = request
      /\ \A j \in DOMAIN requests : requests'[j] = requests[j]
  BY <1>0, <1>1, AppendProperties DEF Dispatch, TerminationTypeOK
<1>3. NewHelper \in Helpers /\ Nothing \in Answers \cup {Nothing} /\ 0 \in 0..Timeout
  BY TimeAssumption DEF NewHelper, Helpers, Stages
<1>4. /\ helper' \in Seq(Helpers) /\ Len(helper') = n /\ helper'[n] = NewHelper
      /\ \A j \in DOMAIN requests : helper'[j] = helper[j]
  BY <1>0, <1>1, <1>3, AppendProperties DEF Dispatch, TerminationTypeOK
<1>5. /\ answer' \in Seq(Answers \cup {Nothing}) /\ Len(answer') = n /\ answer'[n] = Nothing
      /\ \A j \in DOMAIN requests : answer'[j] = answer[j]
  BY <1>0, <1>1, <1>3, AppendProperties DEF Dispatch, TerminationTypeOK
<1>6. age' \in Seq(0..Timeout) /\ Len(age') = n
  BY <1>0, <1>1, <1>3, AppendProperties DEF Dispatch, TerminationTypeOK
<1>7. TerminationTypeOK'
  <2>1. n =< MaxRequests
    BY <1>0, <1>1, BoundAssumption DEF Dispatch
  <2> QED BY <1>2, <1>4, <1>5, <1>6, <2>1 DEF TerminationTypeOK, guestVars
<1>8. \A p \in Pids : ProcessTrue(p)'
  BY DEF TerminationInv, ProcessTrue, guestVars
<1>9. ASSUME NEW j \in DOMAIN requests PROVE HelperInv(j)'
  <2>1. HelperInv(j) /\ requests'[j] = requests[j] /\ helper'[j] = helper[j]
        /\ answer'[j] = answer[j]
    BY <1>2, <1>4, <1>5 DEF TerminationInv
  <2> QED BY <2>1 DEF HelperInv, InScope, HoldsHandle, Known, Identified, Reported, Alive, At,
                      guestVars
<1>10. DOMAIN requests' = DOMAIN requests \cup {n}
  BY <1>0, <1>1, <1>2
<1>11. /\ helper'[n].at = "queued" /\ helper'[n].result = Nothing
       /\ helper'[n].signal = Nothing
  BY <1>4 DEF NewHelper
<1>12. HelperInv(n)'
  BY <1>2, <1>5, <1>11, NothingAssumption
     DEF HelperInv, InScope, HoldsHandle, Identified, Reported, Working, Opened,
         Matched, Checked, Answers, Results
<1>13. TerminationInv'
  BY <1>8, <1>9, <1>10, <1>12 DEF TerminationInv
<1> QED BY <1>0, <1>2, <1>4, <1>5, <1>7, <1>11, <1>13

\* A step of the guest, of a helper or of a worker: who is signalled is the
\* confirmed process, and who is waited for is not signalled too late.
LEMMA RemoteKeeps ==
    ASSUME TerminationTypeOK, TerminationInv, RemoteStep
    PROVE  /\ TerminationTypeOK' /\ TerminationInv' /\ requests' = requests
           /\ \A j \in DOMAIN requests :
                 /\ answer[j] # Nothing => answer'[j] = answer[j]
                 /\ age[j] = Timeout /\ helper[j].at # "signal" => helper'[j].at # "signal"
           /\ \/ \A j \in DOMAIN requests : helper'[j].signal = helper[j].signal
              \/ \E i \in DOMAIN requests :
                    /\ helper[i].signal = Nothing /\ helper'[i].signal = requests[i].of
                    /\ Alive(requests[i].of) /\ At(i).own
                    /\ \A j \in DOMAIN requests : j # i => helper'[j].signal = helper[j].signal
<1>1. CASE GuestStep
  <2>1. requests' = requests /\ answer' = answer
    BY <1>1 DEF GuestStep, ProcessStarts, ProcessExits, ProcessRenames, GuestRestarts, requestVars
  <2>2. \A j \in DOMAIN requests : /\ helper'[j].signal = helper[j].signal
                                   /\ helper'[j].at = helper[j].at \/ helper'[j].at = "done"
    <3>1. CASE ~ GuestRestarts
      BY <1>1, <3>1 DEF GuestStep, ProcessStarts, ProcessExits, ProcessRenames, requestVars
    <3>2. CASE GuestRestarts
      <4>1. ASSUME NEW j \in DOMAIN requests
            PROVE  /\ helper'[j].signal = helper[j].signal
                   /\ helper'[j].at = helper[j].at \/ helper'[j].at = "done"
        <5>1. helper[j] \in Helpers /\ j \in DOMAIN helper
          BY HelperAt
        <5>2. helper'[j] = helper[j] \/ helper'[j] = [helper[j] EXCEPT !.at = "done"]
          BY <3>2, <5>1 DEF GuestRestarts
        <5> QED BY <5>1, <5>2 DEF Helpers
      <4> QED BY <4>1
    <3> QED BY <3>1, <3>2
  <2> QED BY <1>1, <2>1, <2>2, GuestKeeps
<1>2. ASSUME NEW i \in DOMAIN requests, HelperStep(i)
      PROVE  /\ TerminationTypeOK' /\ TerminationInv' /\ requests' = requests
             /\ \A j \in DOMAIN requests :
                   /\ answer[j] # Nothing => answer'[j] = answer[j]
                   /\ age[j] = Timeout /\ helper[j].at # "signal" => helper'[j].at # "signal"
             /\ \/ \A j \in DOMAIN requests : helper'[j].signal = helper[j].signal
                \/ /\ helper[i].signal = Nothing /\ helper'[i].signal = requests[i].of
                   /\ Alive(requests[i].of) /\ At(i).own
                   /\ \A j \in DOMAIN requests : j # i => helper'[j].signal = helper[j].signal
  <2>1. requests' = requests /\ answer' = answer
    BY <1>2 DEF HelperStep
  <2> QED BY <1>2, <2>1, HelperKeeps
<1>3. ASSUME NEW i \in DOMAIN requests, WorkerStep(i)
      PROVE  /\ TerminationTypeOK' /\ TerminationInv' /\ requests' = requests
             /\ \A j \in DOMAIN requests :
                   /\ answer[j] # Nothing => answer'[j] = answer[j]
                   /\ age[j] = Timeout /\ helper[j].at # "signal" => helper'[j].at # "signal"
             /\ \A j \in DOMAIN requests : helper'[j].signal = helper[j].signal
  BY <1>3, WorkerKeeps
<1> QED BY <1>1, <1>2, <1>3 DEF RemoteStep

(****************************************************************************)
(* The list: how many rows come before one says which it is.                *)
(****************************************************************************)
\* The members of S that are ranked below x.
Lower(S, rank, x) == {y \in S : rank[y] < rank[x]}

\* Of finitely many things with different keys there is an n-th one.
LEMMA Ranked ==
    ASSUME NEW S, IsFiniteSet(S), NEW rank \in [S -> Nat],
           \A x, y \in S : rank[x] = rank[y] => x = y,
           NEW n \in 1 .. Cardinality(S)
    PROVE  \E x \in S : Cardinality(Lower(S, rank, x)) = n - 1
<1> DEFINE Below(x) == Lower(S, rank, x)
           Missing  == {m \in 1 .. Cardinality(S) : \A x \in S : Cardinality(Below(x)) # m - 1}
<1> USE DEF Lower
<1>1. Cardinality(S) \in Nat
  BY FS_CardinalityType
<1>2. ASSUME NEW T \in SUBSET S, T # {}
      PROVE  \E x \in T : \A y \in T : rank[x] =< rank[y]
  <2>1. {rank[x] : x \in T} \subseteq Nat /\ {rank[x] : x \in T} # {}
    BY <1>2
  <2>2. PICK least \in {rank[x] : x \in T} : \A k \in {rank[x] : x \in T} : least =< k
    BY <2>1, LeastNatural
  <2> QED BY <2>2
<1>3. SUFFICES Missing = {}
  BY <1>1
<1>4. SUFFICES ASSUME Missing # {} PROVE FALSE
  OBVIOUS
<1>5. PICK m \in Missing : \A k \in Missing : m =< k
  <2>1. Missing \subseteq Nat
    BY <1>1
  <2> HIDE DEF Missing
  <2> QED BY <1>4, <2>1, LeastNatural
<1>6. CASE m = 1
  <2>1. S # {}
    BY <1>1, <1>5, <1>6, FS_EmptySet
  <2>2. PICK x \in S : \A y \in S : rank[x] =< rank[y]
    BY <1>2, <2>1
  <2>3. Below(x) = {}
    BY <2>2
  <2>4. Cardinality(Below(x)) = m - 1
    BY <1>6, <2>3, FS_EmptySet
  <2> QED BY <1>5, <2>4
<1>7. CASE m # 1
  <2>1. m - 1 \in 1 .. Cardinality(S) /\ m - 1 \notin Missing
    BY <1>1, <1>5, <1>7
  <2>2. PICK x \in S : Cardinality(Below(x)) = m - 2
    <3>1. \E x \in S : Cardinality(Below(x)) = (m - 1) - 1
      BY <2>1
    <3>2. (m - 1) - 1 = m - 2
      BY <1>1
    <3> QED BY <3>1, <3>2
  <2>3. IsFiniteSet(Below(x))
    BY FS_Subset
  <2>4. Cardinality(Below(x) \cup {x}) = m - 1
    <3>1. x \notin Below(x)
      OBVIOUS
    <3>2. Cardinality(Below(x) \cup {x}) = Cardinality(Below(x)) + 1
      BY <2>3, <3>1, FS_AddElement
    <3> QED BY <1>1, <2>2, <3>2
  <2>5. S \ (Below(x) \cup {x}) # {}
    BY <1>1, <1>5, <2>4
  <2>6. PICK y \in S \ (Below(x) \cup {x}) : \A z \in S \ (Below(x) \cup {x}) : rank[y] =< rank[z]
    BY <1>2, <2>5
  <2>7. rank[x] < rank[y]
    BY <2>6
  <2>8. Below(y) = Below(x) \cup {x}
    <3>1. ASSUME NEW z \in S PROVE z \in Below(y) <=> z \in Below(x) \cup {x}
      BY <2>6, <2>7
    <3> QED BY <3>1
  <2>9. Cardinality(Below(y)) = m - 1
    BY <2>4, <2>8
  <2> QED BY <1>5, <2>6, <2>9
<1> QED BY <1>6, <1>7

(****************************************************************************)
(* The event loop.                                                          *)
(****************************************************************************)
\* No two rows have one home and PID.
OneRowEach(rows) ==
    \A r, s \in rows : r.of.home = s.of.home /\ r.of.pid = s.of.pid => r = s

\* The rows of one sample: those of the primary distribution are of the scope they
\* came with.
RowsOf(scope, rows) ==
    /\ IsFiniteSet(rows) /\ OneRowEach(rows)
    /\ \A r \in rows : IF r.of.home = "primary" THEN scope # Nothing => r.of.life = scope
                        ELSE r.of.life = 1

\* The list shows rows of the snapshot, and the selection is one of them.
Listed ==
    IF snapshot = Nothing THEN lines = <<>> /\ selected = Nothing
    ELSE /\ RowsOf(snapshot.scope, snapshot.rows)
         /\ \A n \in DOMAIN lines : lines[n] \in snapshot.rows \cup {Heading}

\* The loop waits for the only request that has no answer, and confirms none
\* while it waits.
OneInFlight ==
    /\ confirmation # Nothing => receiver = Nothing
    /\ turn # "ended" => \A i \in DOMAIN requests : answer[i] = Nothing => receiver = i

TerminalInv ==
    /\ TypeOK /\ TerminationInv
    /\ \A n \in DOMAIN inbox : RowsOf(inbox[n].scope, inbox[n].rows)
    /\ Listed /\ OneInFlight /\ DisplayTrue

LEMMA ListedRowsAreRows ==
    ASSUME NEW rows \in SUBSET Processes, IsFiniteSet(rows), OneRowEach(rows),
           NEW hiding, NEW backwards \in BOOLEAN
    PROVE  ListedRows(rows, hiding, backwards) \in Seq(rows)
<1> DEFINE shown == {r \in rows : \A f \in hiding : <<r.of.home, r.of.pid>> \notin Hides[f]}
           count == Cardinality(shown)
           place(r) == IF r.of.home = "primary" THEN 0 ELSE 1
           rank  == [r \in shown |-> 2 * r.of.pid + place(r)]
           above(n) == IF backwards THEN count - n ELSE n - 1
           row(n) == CHOOSE r \in shown : Cardinality({s \in shown : Before(s, r)}) = above(n)
<1>1. IsFiniteSet(shown) /\ count \in Nat
  BY FS_Subset, FS_CardinalityType
<1>2. \A r \in shown : r \in rows /\ r.of.pid \in Nat /\ r.of.home \in {"primary", "elsewhere"}
  BY PidAssumption DEF Processes, Instances, Homes
<1>3. rank \in [shown -> Nat] /\ \A x, y \in shown : rank[x] = rank[y] => x = y
  <2>1. rank \in [shown -> Nat]
    BY <1>2
  <2>2. ASSUME NEW x \in shown, NEW y \in shown, rank[x] = rank[y] PROVE x = y
    <3>1. 2 * x.of.pid + place(x) = 2 * y.of.pid + place(y)
      BY <2>2
    <3>2. place(x) \in {0, 1} /\ place(y) \in {0, 1} /\ x.of.pid \in Nat /\ y.of.pid \in Nat
      BY <1>2
    <3>3. x.of.pid = y.of.pid /\ place(x) = place(y)
      <4> HIDE DEF place
      <4> QED BY <3>1, <3>2
    <3>4. x.of.home = y.of.home
      <4>1. (x.of.home = "primary" <=> place(x) = 0) /\ (y.of.home = "primary" <=> place(y) = 0)
        OBVIOUS
      <4>2. x.of.home \in {"primary", "elsewhere"} /\ y.of.home \in {"primary", "elsewhere"}
        BY <1>2
      <4> HIDE DEF place
      <4> QED BY <3>3, <4>1, <4>2
    <3> QED BY <1>2, <3>3, <3>4 DEF OneRowEach
  <2> QED BY <2>1, <2>2
<1>4. \A r \in shown : {s \in shown : Before(s, r)} = Lower(shown, rank, r)
  <2>1. ASSUME NEW r \in shown, NEW s \in shown PROVE Before(s, r) <=> rank[s] < rank[r]
    BY <1>2 DEF Before
  <2> HIDE DEF rank, shown
  <2> QED BY <2>1 DEF Lower
<1> HIDE DEF shown, rank
<1>5. ASSUME NEW n \in 1 .. count
      PROVE  row(n) \in shown
  <2>1. PICK k \in 1 .. Cardinality(shown) : above(n) = k - 1
    BY <1>1
  <2>2. \E x \in shown : Cardinality(Lower(shown, rank, x)) = k - 1
    BY <1>1, <1>3, Ranked
  <2>3. \E x \in shown : Cardinality({s \in shown : Before(s, x)}) = k - 1
    BY <1>4, <2>2
  <2> QED BY <2>1, <2>3
<1>6. ListedRows(rows, hiding, backwards) = [n \in 1 .. count |-> row(n)]
  BY DEF ListedRows, shown
<1> HIDE DEF row, count
<1>7. [n \in 1 .. count |-> row(n)] \in Seq(shown)
  BY <1>1, <1>5
<1>8. shown \subseteq rows
  BY DEF shown
<1> QED BY <1>6, <1>7, <1>8

LEMMA RebuiltRows ==
    ASSUME NEW shot \in Shots, RowsOf(shot.scope, shot.rows),
           NEW hiding, NEW backwards \in BOOLEAN, NEW asTree
    PROVE  Rebuilt(shot, hiding, backwards, asTree) \in Seq(shot.rows \cup {Heading})
<1> DEFINE all   == shot.rows \cup {Heading}
           rows  == ListedRows(shot.rows, hiding, backwards)
           below == IF asTree THEN [i \in DOMAIN rows |-> Heading] ELSE rows
<1>1. rows \in Seq(shot.rows)
  BY ListedRowsAreRows DEF Shots, RowsOf
<1>2. Rebuilt(shot, hiding, backwards, asTree) = <<Heading, Heading>> \o below
  BY DEF Rebuilt
<1> HIDE DEF rows
<1>3. rows \in Seq(all) /\ DOMAIN rows = 1 .. Len(rows) /\ Len(rows) \in Nat
  BY <1>1, LenProperties, SeqMonotonic
<1>4. below \in Seq(all)
  BY <1>3
<1>5. <<Heading, Heading>> \in Seq(all)
  OBVIOUS
<1> HIDE DEF below, all
<1>6. <<Heading, Heading>> \o below \in Seq(all)
  BY <1>4, <1>5, ConcatProperties
<1> QED BY <1>2, <1>6 DEF all

\* The selection that is kept is the row at its line.
LEMMA RefreshedRow ==
    ASSUME NEW row, NEW shown
    PROVE  \/ Refreshed(row, shown) = Nothing
           \/ /\ row # Nothing
              /\ \E n \in DOMAIN shown : /\ shown[n] # Heading /\ Refreshed(row, shown) = shown[n]
                                         /\ SameRow(row, shown[n])
BY DEF Refreshed, LinesOf, Selectable

LEMMA RebuildKeeps ==
    ASSUME NEW keep, Rebuild(keep), snapshot' \in Shots \cup {Nothing},
           snapshot' # Nothing => RowsOf(snapshot'.scope, snapshot'.rows),
           snapshot' = Nothing => lines = <<>> /\ keep = Nothing,
           reversed' \in BOOLEAN
    PROVE  /\ lines' \in Seq(Processes \cup {Heading})
           /\ selected' \in Processes \cup {Nothing}
           /\ Listed'
           /\ selected' # Nothing =>
                 /\ keep # Nothing /\ SameRow(keep, selected')
                 /\ snapshot' # Nothing /\ selected' \in snapshot'.rows
                 /\ \E n \in DOMAIN lines' : lines'[n] = selected'
<1>1. CASE snapshot' = Nothing
  BY <1>1 DEF Rebuild, Listed
<1>2. CASE snapshot' # Nothing
  <2>1. PICK rows : rows = snapshot'.rows
    OBVIOUS
  <2>2. lines' \in Seq(rows \cup {Heading}) /\ selected' = Refreshed(keep, lines')
    BY <1>2, <2>1, RebuiltRows DEF Rebuild
  <2>3. rows \subseteq Processes
    BY <1>2, <2>1 DEF Shots
  <2>4. /\ lines' \in Seq(Processes \cup {Heading})
        /\ \A n \in DOMAIN lines' : lines'[n] \in rows \cup {Heading}
    BY <2>2, <2>3, SeqMonotonic, LenProperties, ElementOfSeq
  <2>5. \/ selected' = Nothing
        \/ /\ keep # Nothing
           /\ \E n \in DOMAIN lines' : /\ lines'[n] # Heading /\ selected' = lines'[n]
                                       /\ SameRow(keep, lines'[n])
    BY <2>2, RefreshedRow
  <2> QED BY <1>2, <2>1, <2>3, <2>4, <2>5 DEF Listed
<1> QED BY <1>1, <1>2

\* The arrows end on a row of the list, however far they go.
LEMMA MovedRow ==
    ASSUME NEW key, lines \in Seq(Processes \cup {Heading})
    PROVE  \/ Moved(key) = Nothing
           \/ \E n \in DOMAIN lines : lines[n] # Heading /\ Moved(key) = lines[n]
<1> DEFINE all  == Selectable(lines)
           last == Cardinality(all)
           now  == LinesOf(selected, lines)
           at   == CHOOSE i \in now : TRUE
           n    == Cardinality({j \in all : j =< at})
           goal == CASE now = {} -> IF Forward(key) THEN 1 ELSE last
                     [] now # {} /\ Forward(key) ->
                           IF n + Distance(key) > last THEN last ELSE n + Distance(key)
                     [] OTHER -> IF n =< Distance(key) THEN 1 ELSE n - Distance(key)
<1>1. all \subseteq DOMAIN lines /\ all \subseteq Nat /\ IsFiniteSet(all) /\ last \in Nat
  <2>1. all \subseteq 1 .. Len(lines)
    BY LenProperties DEF Selectable
  <2>2. IsFiniteSet(all)
    <3>1. Len(lines) \in Int /\ 1 \in Int
      BY LenProperties
    <3>2. IsFiniteSet(1 .. Len(lines))
      BY <3>1, FS_Interval
    <3> HIDE DEF all
    <3> QED BY <2>1, <3>2, FS_Subset
  <2> QED BY <2>1, <2>2, LenProperties, FS_CardinalityType
<1>2. CASE all = {}
  BY <1>2 DEF Moved
<1>3. CASE all # {}
  <2>1. last >= 1
    BY <1>1, <1>3, FS_EmptySet
  <2>2. Distance(key) \in Nat \ {0}
    BY ScreenAssumption DEF Distance
  <2>3. now # {} => n \in 1 .. last
    <3>1. SUFFICES ASSUME now # {} PROVE n \in 1 .. last
      OBVIOUS
    <3>2. at \in all
      BY <3>1 DEF LinesOf
    <3>3. at \in {j \in all : j =< at} /\ {j \in all : j =< at} \in SUBSET all
      BY <1>1, <3>2
    <3>4. PICK T \in SUBSET all : T = {j \in all : j =< at}
      BY <3>3
    <3> HIDE DEF all
    <3>5. IsFiniteSet(T) /\ Cardinality(T) =< last /\ Cardinality(T) \in Nat
      BY <1>1, FS_Subset, FS_CardinalityType
    <3>6. Cardinality(T) # 0
      BY <3>3, <3>4, <3>5, FS_EmptySet
    <3> QED BY <1>1, <3>4, <3>5, <3>6
  <2> HIDE DEF n, now, last, all
  <2>4. goal \in 1 .. last
    BY <1>1, <2>1, <2>2, <2>3
  <2> HIDE DEF goal
  <2>5. PICK i \in all : Cardinality({j \in all : j < i}) = goal - 1
    <3> DEFINE self == [i \in all |-> i]
    <3>1. self \in [all -> Nat] /\ \A x, y \in all : self[x] = self[y] => x = y
      BY <1>1
    <3>2. \A i \in all : {j \in all : j < i} = Lower(all, self, i)
      BY DEF Lower
    <3> HIDE DEF self
    <3>3. goal \in 1 .. Cardinality(all)
      BY <2>4 DEF last
    <3>4. \E i \in all : Cardinality(Lower(all, self, i)) = goal - 1
      BY <1>1, <3>1, <3>3, Ranked
    <3> QED BY <3>2, <3>4
  <2>6. Nth(all, goal) \in all
    BY <2>5 DEF Nth
  <2>7. Moved(key) = lines[Nth(all, goal)]
    BY <1>3 DEF Moved, goal, n, now, last, all
  <2>8. Nth(all, goal) \in DOMAIN lines /\ lines[Nth(all, goal)] # Heading
    BY <1>1, <2>6 DEF all, Selectable
  <2> QED BY <2>7, <2>8
<1> QED BY <1>2, <1>3

\* The steps of the loop that leave requests and guest alone.
LEMMA Elsewhere ==
    ASSUME TerminationTypeOK, TerminationInv, UNCHANGED <<guestVars, requestVars>>
    PROVE  TerminationTypeOK' /\ TerminationInv'
BY DEF TerminationTypeOK, TerminationInv, ProcessTrue, HelperInv, InScope, HoldsHandle, Known,
       Identified, Reported, Alive, At, guestVars, requestVars

LEMMA CollectKeeps ==
    ASSUME TerminalInv, Collect
    PROVE  TerminalInv'
<1>1. PICK scope \in {life, Nothing}, ok \in BOOLEAN, others \in SUBSET OtherRows :
          inbox' = Append(inbox, [ok |-> ok, scope |-> scope, rows |-> PrimaryRows \cup others])
  BY DEF Collect
<1> DEFINE rows == PrimaryRows \cup others
<1>2. TypeOK /\ TerminationTypeOK /\ TerminationInv
  BY DEF TerminalInv, TypeOK
<1>3. RowsOf(scope, rows) /\ rows \in SUBSET Processes
  <2>1. processes \in Surjection(Pids, {processes[p] : p \in Pids})
    BY <1>2 DEF TerminationTypeOK, Surjection
  <2>2. IsFiniteSet({processes[p] : p \in Pids})
    BY <2>1, FS_Surjection, PidAssumption
  <2>3. IsFiniteSet(PrimaryRows)
    BY <2>2, FS_Subset DEF PrimaryRows
  <2>4. IsFiniteSet(rows)
    BY <2>3, OtherAssumption, FS_Subset, FS_Union
  <2>5. \A r \in PrimaryRows : /\ r \in Processes /\ r.of.home = "primary" /\ r.of.life = life
                              /\ r.of.pid \in Pids /\ r = processes[r.of.pid]
    BY <1>2 DEF PrimaryRows, TerminationTypeOK, TerminationInv, ProcessTrue
  <2>6. \A r \in others : r \in Processes /\ r.of.home = "elsewhere" /\ r.of.life = 1
    BY OtherAssumption
  <2>7. OneRowEach(rows)
    BY <2>5, <2>6, OtherAssumption DEF OneRowEach
  <2> QED BY <2>4, <2>5, <2>6, <2>7 DEF RowsOf
<1>4. PICK sample : sample = [ok |-> ok, scope |-> scope, rows |-> PrimaryRows \cup others]
  OBVIOUS
<1>5. sample \in Samples /\ RowsOf(sample.scope, sample.rows)
  BY <1>2, <1>3, <1>4 DEF Samples, TerminationTypeOK
<1> HIDE DEF rows
<1>6. /\ inbox' \in Seq(Samples) /\ Len(inbox') = Len(inbox) + 1 /\ Len(inbox) \in Nat
      /\ DOMAIN inbox' = 1 .. Len(inbox) + 1 /\ DOMAIN inbox = 1 .. Len(inbox)
      /\ inbox'[Len(inbox) + 1] = sample
      /\ \A n \in 1 .. Len(inbox) : inbox'[n] = inbox[n]
  BY <1>1, <1>2, <1>4, <1>5, AppendProperties, LenProperties DEF TypeOK
<1>7. \A n \in DOMAIN inbox' : RowsOf(inbox'[n].scope, inbox'[n].rows)
  BY <1>5, <1>6 DEF TerminalInv
<1>8. UNCHANGED <<guestVars, requestVars, turn, listVars, selectVars, height, dialogVars>>
      /\ Len(inbox) < MaxInbox
  BY DEF Collect
<1>9. TerminationTypeOK' /\ TerminationInv'
  BY <1>2, <1>8, Elsewhere
<1>10. TypeOK'
  BY <1>2, <1>6, <1>8, <1>9, ScreenAssumption
     DEF TypeOK, listVars, selectVars, dialogVars, requestVars
<1>11. Listed' /\ OneInFlight' /\ DisplayTrue'
  BY <1>8 DEF TerminalInv, Listed, OneInFlight, DisplayTrue, ConfirmationCurrent, IsCurrent,
              CurrentScope, SelectionListed, SelectionOnScreen, listVars, selectVars,
              dialogVars, requestVars
<1> QED BY <1>7, <1>9, <1>10, <1>11 DEF TerminalInv

\* Clamping the scroll leaves the line on the screen that it was made to follow.
LEMMA FollowShows ==
    ASSUME lines \in Seq(Processes \cup {Heading}), scroll \in Nat, NEW tall \in Nat \ {0}
    PROVE  /\ Clamp(Follow(tall), tall) \in Nat
           /\ LinesOf(selected, lines) # {} =>
                 \E i \in LinesOf(selected, lines) :
                    Clamp(Follow(tall), tall) < i /\ i =< Clamp(Follow(tall), tall) + tall
<1> DEFINE at == LinesOf(selected, lines)
           i  == CHOOSE i \in at : TRUE
<1>1. at \subseteq 1 .. Len(lines) /\ Len(lines) \in Nat
  BY LenProperties DEF LinesOf, Selectable
<1> HIDE DEF at
<1>2. CASE at = {}
  <2>1. Follow(tall) = scroll
    BY <1>2 DEF Follow, at
  <2> QED BY <1>1, <1>2, <2>1 DEF Clamp, at
<1>3. CASE at # {}
  <2>1. i \in at /\ i \in 1 .. Len(lines)
    BY <1>1, <1>3
  <2> HIDE DEF i
  <2>2. Follow(tall) = IF i =< scroll THEN i - 1
                       ELSE IF i > scroll + tall THEN i - tall ELSE scroll
    <3>1. Follow(tall) = CASE at = {}                      -> scroll
                           [] at # {} /\ i =< scroll       -> i - 1
                           [] at # {} /\ i > scroll + tall -> i - tall
                           [] OTHER                        -> scroll
      BY DEF Follow, at, i
    <3> QED BY <1>3, <2>1, <3>1
  <2>3. /\ Clamp(Follow(tall), tall) \in Nat
        /\ Clamp(Follow(tall), tall) < i /\ i =< Clamp(Follow(tall), tall) + tall
    BY <1>1, <2>1, <2>2 DEF Clamp
  <2> QED BY <2>1, <2>3 DEF at
<1> QED BY <1>2, <1>3

\* What SelectionListed says of the lines of the selection.
LEMMA SelectionHasLine ==
    ASSUME selected # Nothing, selected # Heading,
           NEW n \in DOMAIN lines, lines[n] = selected
    PROVE  LinesOf(selected, lines) # {}
BY DEF LinesOf, Selectable, SameRow

LEMMA PollActionKeeps ==
    ASSUME TerminalInv, PollAction
    PROVE  TerminalInv'
<1>1. /\ turn' = "samples" /\ receiver' = IF Answered THEN Nothing ELSE receiver
      /\ UNCHANGED <<guestVars, requestVars, inbox, listVars, selectVars, height,
                     help, confirmation, visible>>
      /\ turn = "poll"
  BY DEF PollAction
<1>2. TerminationTypeOK' /\ TerminationInv'
  BY <1>1, Elsewhere DEF TerminalInv, TypeOK
<1>3. TypeOK'
  BY <1>1, <1>2 DEF TerminalInv, TypeOK, listVars, selectVars, requestVars
<1>4. OneInFlight'
  BY <1>1 DEF TerminalInv, OneInFlight, Answered, requestVars
<1>5. Listed' /\ DisplayTrue' /\ \A n \in DOMAIN inbox' : RowsOf(inbox'[n].scope, inbox'[n].rows)
  BY <1>1 DEF TerminalInv, Listed, DisplayTrue, ConfirmationCurrent, IsCurrent,
              CurrentScope, SelectionListed, SelectionOnScreen, listVars, selectVars
<1> QED BY <1>2, <1>3, <1>4, <1>5 DEF TerminalInv

\* The first of the samples that wait, and the others.
LEMMA NextSample ==
    ASSUME TerminalInv, inbox # <<>>, inbox' = Tail(inbox)
    PROVE  /\ inbox' \in Seq(Samples) /\ Len(inbox') =< MaxInbox
           /\ \A n \in DOMAIN inbox' : RowsOf(inbox'[n].scope, inbox'[n].rows)
           /\ Head(inbox) \in Samples /\ RowsOf(Head(inbox).scope, Head(inbox).rows)
<1>1. inbox \in Seq(Samples) /\ Len(inbox) =< MaxInbox
  BY DEF TerminalInv, TypeOK
<1>2. /\ inbox' \in Seq(Samples) /\ Len(inbox') = Len(inbox) - 1 /\ Len(inbox) \in Nat
      /\ DOMAIN inbox' = 1 .. Len(inbox') /\ DOMAIN inbox = 1 .. Len(inbox)
      /\ \A n \in 1 .. Len(inbox') : inbox'[n] = inbox[n + 1]
      /\ Head(inbox) \in Samples /\ Len(inbox) # 0
  BY <1>1, HeadTailProperties, LenProperties, EmptySeq
<1>3. Head(inbox) = inbox[1] /\ 1 \in DOMAIN inbox
  BY <1>1, <1>2
<1>4. Len(inbox') =< MaxInbox
  BY <1>1, <1>2, ScreenAssumption
<1>5. \A n \in DOMAIN inbox' : n + 1 \in DOMAIN inbox
  BY <1>2
<1> QED BY <1>2, <1>3, <1>4, <1>5 DEF TerminalInv

LEMMA ApplySampleKeeps ==
    ASSUME TerminalInv, ApplySample
    PROVE  TerminalInv'
<1> DEFINE keep == SelectionFor(snapshot'.scope)
<1>1. /\ turn = "samples" /\ inbox # <<>> /\ inbox' = Tail(inbox)
      /\ snapshot' = [scope |-> Head(inbox).scope, rows |-> Head(inbox).rows]
      /\ UNCHANGED <<guestVars, requestVars, turn, filters, reversed, tree, selecting,
                     scroll, height, help, visible, receiver>>
      /\ Rebuild(keep)
      /\ confirmation' = IF StillConfirmed(confirmation, snapshot'.scope, selected')
                         THEN confirmation ELSE Nothing
  BY DEF ApplySample
<1>2. /\ inbox' \in Seq(Samples) /\ Len(inbox') =< MaxInbox
      /\ \A n \in DOMAIN inbox' : RowsOf(inbox'[n].scope, inbox'[n].rows)
      /\ snapshot' \in Shots /\ RowsOf(snapshot'.scope, snapshot'.rows)
  BY <1>1, NextSample DEF Samples, Shots
<1>3. TerminationTypeOK' /\ TerminationInv' /\ TypeOK
  BY <1>1, Elsewhere DEF TerminalInv, TypeOK
<1>4. snapshot' # Nothing
  BY <1>2, ScreenAssumption
<1> HIDE DEF keep
<1>5. /\ lines' \in Seq(Processes \cup {Heading})
      /\ selected' \in Processes \cup {Nothing} /\ Listed'
      /\ selected' # Nothing => /\ keep # Nothing
                                /\ \E n \in DOMAIN lines' : lines'[n] = selected'
  BY <1>1, <1>2, <1>3, <1>4, RebuildKeeps DEF TypeOK
<1>6. TypeOK'
  BY <1>1, <1>2, <1>3, <1>5 DEF TypeOK, requestVars
<1>7. OneInFlight'
  BY <1>1 DEF TerminalInv, OneInFlight, requestVars
<1>8. ConfirmationCurrent' /\ SelectionOnScreen'
  BY <1>1, <1>4 DEF ConfirmationCurrent, StillConfirmed, IsCurrent, CurrentScope, SelectionOnScreen
<1>9. SelectionListed'
  <2>1. keep # Nothing => selecting
    BY DEF keep, SelectionFor, TerminalInv, DisplayTrue, SelectionListed
  <2> QED BY <1>1, <1>5, <2>1 DEF SelectionListed
<1> QED BY <1>2, <1>3, <1>5, <1>6, <1>7, <1>8, <1>9 DEF TerminalInv, DisplayTrue

LEMMA ApplyErrorKeeps ==
    ASSUME TerminalInv, ApplyError
    PROVE  TerminalInv'
<1>1. /\ turn = "samples" /\ inbox # <<>> /\ inbox' = Tail(inbox)
      /\ selected' = Nothing /\ confirmation' = Nothing
      /\ snapshot' = IF snapshot = Nothing THEN Nothing
                     ELSE [snapshot EXCEPT !.scope = Nothing]
      /\ UNCHANGED <<guestVars, requestVars, turn, filters, reversed, tree, lines,
                     selecting, scroll, height, help, visible, receiver>>
  BY DEF ApplyError
<1>2. /\ inbox' \in Seq(Samples) /\ Len(inbox') =< MaxInbox
      /\ \A n \in DOMAIN inbox' : RowsOf(inbox'[n].scope, inbox'[n].rows)
  BY <1>1, NextSample
<1>3. TerminationTypeOK' /\ TerminationInv' /\ TypeOK
  BY <1>1, Elsewhere DEF TerminalInv, TypeOK
<1>4. CASE snapshot = Nothing
  <2>1. snapshot' = Nothing /\ lines' = lines
    BY <1>1, <1>4
  <2> QED BY <1>1, <1>2, <1>3, <1>4, <2>1
          DEF TerminalInv, TypeOK, Listed, OneInFlight, DisplayTrue, ConfirmationCurrent,
              SelectionListed, SelectionOnScreen, requestVars
<1>5. CASE snapshot # Nothing
  <2>1. /\ snapshot \in Shots /\ RowsOf(snapshot.scope, snapshot.rows)
        /\ \A n \in DOMAIN lines : lines[n] \in snapshot.rows \cup {Heading}
    BY <1>3, <1>5 DEF TypeOK, TerminalInv, Listed
  <2>2. snapshot' \in Shots /\ snapshot'.scope = Nothing /\ snapshot'.rows = snapshot.rows
    BY <1>1, <1>5, <2>1 DEF Shots
  <2>3. Listed'
    <3>1. snapshot' # Nothing /\ lines' = lines
      BY <1>1, <2>2, ScreenAssumption
    <3>2. RowsOf(snapshot'.scope, snapshot'.rows)
      BY <2>1, <2>2 DEF RowsOf
    <3> QED BY <2>1, <2>2, <3>1, <3>2 DEF Listed
  <2>4. TypeOK'
    BY <1>1, <1>2, <1>3, <2>2 DEF TypeOK, requestVars
  <2>5. OneInFlight' /\ DisplayTrue'
    BY <1>1 DEF TerminalInv, OneInFlight, DisplayTrue, ConfirmationCurrent, SelectionListed,
                SelectionOnScreen, requestVars
  <2> QED BY <1>2, <1>3, <2>3, <2>4, <2>5 DEF TerminalInv
<1> QED BY <1>4, <1>5

LEMMA SamplesAppliedKeeps ==
    ASSUME TerminalInv, SamplesApplied
    PROVE  TerminalInv'
<1>1. /\ turn = "samples" /\ turn' = "draw"
      /\ UNCHANGED <<guestVars, requestVars, inbox, listVars, selectVars, height, dialogVars>>
  BY DEF SamplesApplied
<1>2. TerminationTypeOK' /\ TerminationInv'
  BY <1>1, Elsewhere DEF TerminalInv, TypeOK
<1>3. TypeOK'
  BY <1>1, <1>2 DEF TerminalInv, TypeOK, listVars, selectVars, dialogVars, requestVars
<1> QED
  BY <1>1, <1>2, <1>3
     DEF TerminalInv, Listed, OneInFlight, DisplayTrue, ConfirmationCurrent, IsCurrent,
         CurrentScope, SelectionListed, SelectionOnScreen, listVars, selectVars, dialogVars,
         requestVars

LEMMA DrawKeeps ==
    ASSUME TerminalInv, Draw
    PROVE  TerminalInv'
<1>1. /\ turn = "draw" /\ turn' = "key" /\ height' \in Heights
      /\ UNCHANGED <<guestVars, requestVars, inbox, listVars, selecting, selected,
                     help, confirmation, receiver>>
  BY DEF Draw
<1>2. TerminationTypeOK' /\ TerminationInv' /\ TypeOK
  BY <1>1, Elsewhere DEF TerminalInv, TypeOK
<1>3. height' \in Nat \ {0} /\ lines \in Seq(Processes \cup {Heading}) /\ scroll \in Nat
  BY <1>1, <1>2, ScreenAssumption DEF TypeOK
<1>4. scroll' \in Nat /\ visible' \in BOOLEAN
  <2>1. CASE confirmation # Nothing
    BY <1>3, <2>1 DEF Draw
  <2>2. CASE confirmation = Nothing
    <3>1. visible' = visible /\ scroll' = IF help THEN scroll ELSE Clamp(Follow(height'), height')
      BY <2>2 DEF Draw
    <3>2. Clamp(Follow(height'), height') \in Nat
      BY <1>3, FollowShows
    <3> QED BY <1>2, <1>3, <3>1, <3>2 DEF TypeOK
  <2> QED BY <2>1, <2>2
<1>5. TypeOK'
  BY <1>1, <1>2, <1>4 DEF TypeOK, listVars, requestVars
<1>6. OneInFlight' /\ Listed' /\ ConfirmationCurrent' /\ SelectionListed'
  BY <1>1 DEF TerminalInv, Listed, OneInFlight, DisplayTrue, ConfirmationCurrent, IsCurrent,
              CurrentScope, SelectionListed, listVars, requestVars
<1>7. SelectionOnScreen'
  <2>1. SUFFICES ASSUME ~ help, confirmation = Nothing, selected # Nothing
                 PROVE  \E i \in LinesOf(selected, lines) : scroll' < i /\ i =< scroll' + height'
    BY <1>1 DEF SelectionOnScreen, listVars
  <2>2. scroll' = Clamp(Follow(height'), height')
    BY <2>1 DEF Draw
  <2>3. \E n \in DOMAIN lines : lines[n] = selected
    BY <2>1 DEF TerminalInv, DisplayTrue, SelectionListed
  <2>4. selected # Heading
    BY <1>2, <2>1, ScreenAssumption DEF TypeOK
  <2>5. LinesOf(selected, lines) # {}
    BY <2>1, <2>3, <2>4, SelectionHasLine
  <2> QED BY <1>3, <2>2, <2>5, FollowShows
<1> QED BY <1>1, <1>2, <1>5, <1>6, <1>7 DEF TerminalInv, DisplayTrue

LEMMA NoKeyKeeps ==
    ASSUME TerminalInv, NoKey
    PROVE  TerminalInv'
<1>1. /\ turn = "key" /\ turn' = "poll"
      /\ UNCHANGED <<guestVars, requestVars, inbox, listVars, selectVars, height, dialogVars>>
  BY DEF NoKey
<1>2. TerminationTypeOK' /\ TerminationInv'
  BY <1>1, Elsewhere DEF TerminalInv, TypeOK
<1>3. TypeOK'
  BY <1>1, <1>2 DEF TerminalInv, TypeOK, listVars, selectVars, dialogVars, requestVars
<1> QED
  BY <1>1, <1>2, <1>3
     DEF TerminalInv, Listed, OneInFlight, DisplayTrue, ConfirmationCurrent, IsCurrent,
         CurrentScope, SelectionListed, SelectionOnScreen, listVars, selectVars, dialogVars,
         requestVars

\* The request that can be confirmed names the selected row, an instance of the
\* primary distribution and of the scope of the snapshot.
LEMMA ConfirmedOfScope ==
    ASSUME TerminalInv, Confirmable
    PROVE  /\ confirmation \in Requests \cup {Nothing}
           /\ confirmation.of.life = confirmation.scope /\ confirmation.of.home = "primary"
<1>1. TypeOK
  BY DEF TerminalInv
<1>2. /\ selected # Nothing /\ ~ Rejects(CurrentScope, selected)
      /\ confirmation = RequestFor(CurrentScope, selected)
  BY DEF Confirmable, IsCurrent
<1>3. CurrentScope # Nothing /\ snapshot # Nothing /\ CurrentScope = snapshot.scope
  BY <1>2 DEF Rejects, CurrentScope
<1>4. selected \in snapshot.rows /\ RowsOf(snapshot.scope, snapshot.rows)
  <2>1. \E n \in DOMAIN lines : lines[n] = selected
    BY <1>2 DEF TerminalInv, DisplayTrue, SelectionListed
  <2>2. selected # Heading
    BY <1>1, <1>2, ScreenAssumption DEF TypeOK
  <2> QED BY <1>3, <2>1, <2>2 DEF TerminalInv, Listed
<1>5. selected.of.home = "primary" /\ selected.of.life = CurrentScope
  BY <1>2, <1>3, <1>4 DEF RowsOf, Rejects, NotPrimary
<1> QED BY <1>1, <1>2, <1>5 DEF TypeOK, RequestFor

\* y sends it.
LEMMA ConfirmKeeps ==
    ASSUME TerminalInv, Confirmable, Dispatch(confirmation), confirmation' = Nothing,
           confirmation # Nothing,
           receiver' = Len(requests) + 1, turn = "key", turn' = "poll",
           UNCHANGED <<guestVars, inbox, height, listVars, selectVars, help, visible>>
    PROVE  TerminalInv'
<1>1. TypeOK /\ TerminationTypeOK /\ TerminationInv
  BY DEF TerminalInv, TypeOK
<1>2. /\ confirmation \in Requests
      /\ confirmation.of.life = confirmation.scope /\ confirmation.of.home = "primary"
  BY <1>1, ConfirmedOfScope DEF TypeOK
<1>3. PICK request \in Requests : request = confirmation
  BY <1>2
<1>4. /\ TerminationTypeOK' /\ TerminationInv'
      /\ Len(requests') = Len(requests) + 1
      /\ \A j \in DOMAIN requests : answer'[j] = answer[j]
  BY <1>1, <1>2, <1>3, DispatchKeeps
<1>5. receiver' \in DOMAIN requests'
  BY <1>1, <1>4, LenProperties DEF TerminationTypeOK
<1>6. TypeOK'
  BY <1>1, <1>4, <1>5 DEF TypeOK, listVars, selectVars
<1>7. OneInFlight'
  <2>1. receiver = Nothing
    BY DEF TerminalInv, OneInFlight
  <2>2. DOMAIN requests = 1 .. Len(requests) /\ DOMAIN requests' = 1 .. Len(requests) + 1
        /\ Len(requests) \in Nat
    BY <1>1, <1>4, LenProperties DEF TerminationTypeOK
  <2>3. \A i \in DOMAIN requests : answer[i] # Nothing
    <3>1. \A i \in DOMAIN requests : i # Nothing
      BY <2>2, NothingAssumption
    <3> QED BY <2>1, <3>1 DEF TerminalInv, OneInFlight
  <2> QED BY <1>4, <2>2, <2>3 DEF OneInFlight
<1>8. Listed' /\ ConfirmationCurrent' /\ SelectionListed' /\ SelectionOnScreen'
  BY DEF TerminalInv, Listed, DisplayTrue, ConfirmationCurrent, SelectionListed,
         SelectionOnScreen, listVars, selectVars
<1> QED BY <1>4, <1>6, <1>7, <1>8 DEF TerminalInv, DisplayTrue

\* Keys that change neither list nor selection.
LEMMA QuietKeyKeeps ==
    ASSUME TerminalInv, turn = "key", turn' \in {"poll", "ended"},
           UNCHANGED <<guestVars, requestVars, inbox, height, listVars, selecting, selected>>,
           receiver' = receiver, visible' \in BOOLEAN, help' \in BOOLEAN, scroll' \in Nat,
           confirmation' \in Requests \cup {Nothing},
           confirmation' # Nothing =>
               receiver = Nothing /\ IsCurrent(confirmation', CurrentScope, selected)
    PROVE  TerminalInv'
<1>1. TypeOK /\ TerminationTypeOK' /\ TerminationInv'
  BY Elsewhere DEF TerminalInv, TypeOK
<1>2. TypeOK'
  BY <1>1 DEF TypeOK, listVars, requestVars
<1>3. OneInFlight' /\ Listed' /\ SelectionListed' /\ SelectionOnScreen'
  BY DEF TerminalInv, OneInFlight, Listed, DisplayTrue, SelectionListed, SelectionOnScreen,
         listVars, requestVars
<1>4. ConfirmationCurrent'
  BY DEF ConfirmationCurrent, IsCurrent, CurrentScope, listVars
<1>5. \A n \in DOMAIN inbox' : RowsOf(inbox'[n].scope, inbox'[n].rows)
  BY DEF TerminalInv
<1> QED BY <1>1, <1>2, <1>3, <1>4, <1>5 DEF TerminalInv, DisplayTrue

LEMMA ConfirmationKeyKeeps ==
    ASSUME TerminalInv, turn = "key", NEW key, KeyInConfirmation(key),
           UNCHANGED <<guestVars, inbox, height>>
    PROVE  TerminalInv'
<1>1. confirmation # Nothing /\ TypeOK /\ OneInFlight /\ ConfirmationCurrent
  BY DEF KeyInConfirmation, TerminalInv, DisplayTrue
<1>2. receiver = Nothing /\ IsCurrent(confirmation, CurrentScope, selected)
  BY <1>1 DEF OneInFlight, ConfirmationCurrent
<1>3. CASE /\ Confirmable /\ Dispatch(confirmation)
           /\ confirmation' = Nothing /\ receiver' = Len(requests) + 1
           /\ UNCHANGED <<listVars, selectVars, help, visible>> /\ turn' = "poll"
  BY <1>1, <1>3, ConfirmKeeps
<1>4. CASE /\ turn' \in {"poll", "ended"} /\ confirmation' \in {confirmation, Nothing}
           /\ UNCHANGED <<requestVars, listVars, selectVars, help, visible, receiver>>
  BY <1>1, <1>2, <1>4, QuietKeyKeeps DEF TypeOK, selectVars
<1> QED BY <1>3, <1>4 DEF KeyInConfirmation, Quit, dialogVars

LEMMA HelpKeyKeeps ==
    ASSUME TerminalInv, turn = "key", NEW key, KeyInHelp(key),
           UNCHANGED <<guestVars, inbox, height>>
    PROVE  TerminalInv'
<1>1. TypeOK /\ confirmation = Nothing
  BY DEF TerminalInv, KeyInHelp
<1>2. /\ turn' \in {"poll", "ended"} /\ confirmation' = Nothing /\ help' \in BOOLEAN
      /\ UNCHANGED <<requestVars, listVars, selectVars, visible, receiver>>
  BY <1>1 DEF KeyInHelp, Quit, TypeOK
<1> QED BY <1>1, <1>2, QuietKeyKeeps DEF TypeOK, selectVars

LEMMA BeginConfirmationKeeps ==
    ASSUME TerminalInv, turn = "key", turn' = "poll", confirmation = Nothing, BeginConfirmation,
           UNCHANGED <<guestVars, inbox, height>>
    PROVE  TerminalInv'
<1>1. TypeOK
  BY DEF TerminalInv
<1>2. UNCHANGED <<requestVars, listVars, selectVars, help, receiver>>
  BY DEF BeginConfirmation
<1>3. CASE /\ receiver = Nothing /\ selected # Nothing /\ ~ Rejects(CurrentScope, selected)
           /\ confirmation' = RequestFor(CurrentScope, selected) /\ visible' = FALSE
  <2>1. IsCurrent(confirmation', CurrentScope, selected)
    BY <1>3 DEF IsCurrent
  <2>2. confirmation' \in Requests
    BY <1>1, <1>3 DEF Rejects, CurrentScope, RequestFor, Requests, Processes, Shots, TypeOK
  <2> QED BY <1>1, <1>2, <1>3, <2>1, <2>2, QuietKeyKeeps DEF TypeOK, selectVars
<1>4. CASE UNCHANGED <<confirmation, visible>>
  BY <1>1, <1>2, <1>4, QuietKeyKeeps DEF TypeOK, selectVars
<1> QED BY <1>3, <1>4 DEF BeginConfirmation

LEMMA MoveKeyKeeps ==
    ASSUME TerminalInv, turn = "key", turn' = "poll", confirmation = Nothing,
           NEW key, KeyMoves(key), UNCHANGED <<guestVars, inbox, height>>
    PROVE  TerminalInv'
<1>1. TypeOK /\ TerminationTypeOK' /\ TerminationInv'
  BY Elsewhere DEF TerminalInv, TypeOK, KeyMoves
<1>2. UNCHANGED <<requestVars, listVars, selecting, dialogVars>>
  BY DEF KeyMoves
<1>3. scroll' \in Nat
  <2>1. Distance(key) \in Nat /\ scroll \in Nat
    BY <1>1, ScreenAssumption DEF Distance, TypeOK
  <2>2. scroll' = scroll \/ scroll' = scroll + Distance(key) \/ scroll' = 0
        \/ (scroll > Distance(key) /\ scroll' = scroll - Distance(key))
    <3>1. CASE selecting
      BY <3>1 DEF KeyMoves
    <3>2. CASE ~ selecting
      <4>1. scroll' = CASE Forward(key) -> scroll + Distance(key)
                        [] scroll > Distance(key) /\ ~ Forward(key) -> scroll - Distance(key)
                        [] OTHER -> 0
        BY <3>2 DEF KeyMoves
      <4> QED BY <4>1
    <3> QED BY <3>1, <3>2
  <2> QED BY <2>1, <2>2
<1>4. \/ selected' = selected
      \/ selecting /\ selected' = Nothing
      \/ selecting /\ \E n \in DOMAIN lines : lines[n] # Heading /\ selected' = lines[n]
  BY <1>1, MovedRow DEF KeyMoves, TypeOK
<1>5. selected' \in Processes \cup {Nothing}
  <2>1. \A n \in DOMAIN lines : lines[n] # Heading => lines[n] \in Processes
    BY <1>1, LenProperties, ElementOfSeq DEF TypeOK
  <2> QED BY <1>1, <1>4, <2>1 DEF TypeOK
<1>6. TypeOK'
  BY <1>1, <1>2, <1>3, <1>5 DEF TypeOK, listVars, dialogVars, requestVars
<1>7. OneInFlight'
  BY <1>2 DEF TerminalInv, OneInFlight, dialogVars, requestVars
<1>8. Listed'
  <2>1. snapshot = Nothing => selected' = Nothing
    BY <1>4 DEF TerminalInv, Listed
  <2> QED BY <1>2, <2>1 DEF TerminalInv, Listed, listVars
<1>9. SelectionListed'
  BY <1>2, <1>4 DEF TerminalInv, DisplayTrue, SelectionListed, listVars
<1>10. ConfirmationCurrent' /\ SelectionOnScreen'
  BY <1>2 DEF ConfirmationCurrent, SelectionOnScreen, dialogVars
<1>11. \A n \in DOMAIN inbox' : RowsOf(inbox'[n].scope, inbox'[n].rows)
  BY DEF TerminalInv
<1> QED BY <1>1, <1>6, <1>7, <1>8, <1>9, <1>10, <1>11 DEF TerminalInv, DisplayTrue

\* Every key that changes what is listed rebuilds the list, and with it the
\* selection.
LEMMA ListKeyKeeps ==
    ASSUME TerminalInv, turn = "key", turn' = "poll", confirmation = Nothing,
           NEW key, KeyLists(key), UNCHANGED <<guestVars, inbox, height>>
    PROVE  TerminalInv'
<1> DEFINE keep == IF key \in {"s", "t"} THEN Nothing ELSE selected
<1>1. TypeOK /\ TerminationTypeOK' /\ TerminationInv'
  BY Elsewhere DEF TerminalInv, TypeOK, KeyLists
<1>2. UNCHANGED <<requestVars, snapshot, dialogVars>> /\ Rebuild(keep)
  BY DEF KeyLists
<1>3. /\ filters' \subseteq DOMAIN Hides /\ reversed' \in BOOLEAN
      /\ tree' \in BOOLEAN /\ selecting' \in BOOLEAN /\ ~ (tree' /\ selecting')
      /\ scroll' \in Nat
  <2>1. /\ filters \subseteq DOMAIN Hides /\ reversed \in BOOLEAN
        /\ tree \in BOOLEAN /\ selecting \in BOOLEAN /\ ~ (tree /\ selecting)
        /\ scroll \in Nat
    BY <1>1 DEF TypeOK
  <2>2. CASE key = "s" /\ selecting' = ~ selecting /\ tree' = TreeAfterSelect
             /\ scroll' = (IF selecting' THEN 0 ELSE scroll)
             /\ UNCHANGED <<filters, reversed>>
    <3>1. filters' \subseteq DOMAIN Hides /\ reversed' \in BOOLEAN /\ scroll' \in Nat
      BY <2>1, <2>2
    <3>2. tree' \in BOOLEAN /\ selecting' \in BOOLEAN /\ ~ (tree' /\ selecting')
      BY <2>1, <2>2 DEF TreeAfterSelect
    <3> QED BY <3>1, <3>2
  <2>3. CASE key = "t" /\ tree' = ~ tree /\ scroll' = 0 /\ selecting' = FALSE
             /\ UNCHANGED <<filters, reversed>>
    BY <2>1, <2>3
  <2>4. CASE /\ key \in DOMAIN Hides
             /\ filters' = IF key \in filters THEN filters \ {key} ELSE filters \cup {key}
             /\ scroll' = IF key = "w" THEN 0 ELSE scroll
             /\ UNCHANGED <<tree, selecting, reversed>>
    <3>1. filters' \subseteq DOMAIN Hides /\ scroll' \in Nat
      BY <2>1, <2>4
    <3> QED BY <2>1, <2>4, <3>1
  <2>5. CASE key = "r" /\ reversed' = ~ reversed /\ scroll' = 0
             /\ UNCHANGED <<tree, selecting, filters>>
    BY <2>1, <2>5
  <2> QED BY <2>2, <2>3, <2>4, <2>5 DEF KeyLists
<1>4. keep # Nothing => selecting' /\ selected # Nothing
  <2>1. SUFFICES ASSUME keep # Nothing PROVE selecting' /\ selected # Nothing
    OBVIOUS
  <2>2. selecting /\ selected # Nothing /\ key \notin {"s", "t"}
    BY <2>1 DEF TerminalInv, DisplayTrue, SelectionListed
  <2> QED BY <2>2 DEF KeyLists
<1>5. /\ snapshot' \in Shots \cup {Nothing}
      /\ snapshot' # Nothing => RowsOf(snapshot'.scope, snapshot'.rows)
      /\ snapshot' = Nothing => lines = <<>> /\ keep = Nothing
  BY <1>1, <1>2 DEF TypeOK, TerminalInv, Listed
<1> HIDE DEF keep
<1>6. /\ lines' \in Seq(Processes \cup {Heading})
      /\ selected' \in Processes \cup {Nothing} /\ Listed'
      /\ selected' # Nothing => /\ keep # Nothing
                                /\ \E n \in DOMAIN lines' : lines'[n] = selected'
  BY <1>2, <1>3, <1>5, RebuildKeeps
<1>7. TypeOK'
  BY <1>1, <1>2, <1>3, <1>5, <1>6 DEF TypeOK, dialogVars, requestVars
<1>8. OneInFlight'
  BY <1>2 DEF TerminalInv, OneInFlight, dialogVars, requestVars
<1>9. SelectionListed' /\ ConfirmationCurrent' /\ SelectionOnScreen'
  BY <1>2, <1>4, <1>6 DEF SelectionListed, ConfirmationCurrent, SelectionOnScreen, dialogVars
<1>10. \A n \in DOMAIN inbox' : RowsOf(inbox'[n].scope, inbox'[n].rows)
  BY DEF TerminalInv
<1> QED BY <1>1, <1>6, <1>7, <1>8, <1>9, <1>10 DEF TerminalInv, DisplayTrue

LEMMA KeyKeeps ==
    ASSUME TerminalInv, Key
    PROVE  TerminalInv'
<1>1. turn = "key" /\ UNCHANGED <<guestVars, inbox, height>>
  BY DEF Key
<1>2. PICK key \in Keys : KeyInConfirmation(key) \/ KeyInHelp(key) \/ KeyInList(key)
  BY DEF Key
<1>3. CASE KeyInConfirmation(key)
  BY <1>1, <1>3, ConfirmationKeyKeeps
<1>4. CASE KeyInHelp(key)
  BY <1>1, <1>4, HelpKeyKeeps
<1>5. CASE KeyInList(key)
  <2>1. confirmation = Nothing
    BY <1>5 DEF KeyInList
  <2>2. CASE BeginConfirmation /\ turn' = "poll"
    BY <1>1, <2>1, <2>2, BeginConfirmationKeeps
  <2>3. CASE KeyMoves(key) /\ turn' = "poll"
    BY <1>1, <2>1, <2>3, MoveKeyKeeps
  <2>4. CASE KeyLists(key) /\ turn' = "poll"
    BY <1>1, <2>1, <2>4, ListKeyKeeps
  <2>5. CASE Quit
    BY <1>1, <2>5, QuietKeyKeeps DEF Quit, TerminalInv, TypeOK, selectVars
  <2> QED BY <1>5, <2>2, <2>3, <2>4, <2>5 DEF KeyInList
<1> QED BY <1>2, <1>3, <1>4, <1>5

LEMMA RemoteStepKeeps ==
    ASSUME TerminalInv, Remote
    PROVE  TerminalInv'
<1>1. RemoteStep /\ UNCHANGED uiVars
  BY DEF Remote
<1>2. TypeOK /\ TerminationTypeOK /\ TerminationInv
  BY DEF TerminalInv, TypeOK
<1>3. /\ TerminationTypeOK' /\ TerminationInv' /\ requests' = requests
      /\ \A j \in DOMAIN requests : answer[j] # Nothing => answer'[j] = answer[j]
  BY <1>1, <1>2, RemoteKeeps
<1>4. TypeOK'
  BY <1>1, <1>2, <1>3 DEF TypeOK, uiVars, listVars, selectVars, dialogVars
<1>5. OneInFlight'
  BY <1>1, <1>3 DEF TerminalInv, OneInFlight, uiVars, dialogVars
<1>6. Listed' /\ DisplayTrue' /\ \A n \in DOMAIN inbox' : RowsOf(inbox'[n].scope, inbox'[n].rows)
  BY <1>1 DEF TerminalInv, Listed, DisplayTrue, ConfirmationCurrent, IsCurrent, CurrentScope,
              SelectionListed, SelectionOnScreen, uiVars, listVars, selectVars, dialogVars
<1> QED BY <1>3, <1>4, <1>5, <1>6 DEF TerminalInv

LEMMA TerminalInvInit == Init => TerminalInv
<1> SUFFICES ASSUME Init PROVE TerminalInv
  OBVIOUS
<1> USE DEF Init, InitTermination, InitUi
<1>1. TerminationTypeOK
  BY BoundAssumption, EmptySeq DEF TerminationTypeOK, Scopes
<1>2. TypeOK
  <2>1. inbox \in Seq(Samples) /\ Len(inbox) =< MaxInbox
    BY ScreenAssumption
  <2>2. lines \in Seq(Processes \cup {Heading})
    OBVIOUS
  <2>3. filters \subseteq DOMAIN Hides
    OBVIOUS
  <2> QED BY <1>1, <2>1, <2>2, <2>3 DEF TypeOK
<1>3. TerminationInv
  BY DEF TerminationInv, ProcessTrue
<1>4. Listed /\ OneInFlight /\ DisplayTrue
  BY DEF Listed, OneInFlight, DisplayTrue, ConfirmationCurrent, SelectionListed, SelectionOnScreen
<1>5. \A n \in DOMAIN inbox : RowsOf(inbox[n].scope, inbox[n].rows)
  OBVIOUS
<1> QED BY <1>2, <1>3, <1>4, <1>5 DEF TerminalInv

LEMMA TerminalInvKept == TerminalInv /\ [Next]_vars => TerminalInv'
<1> SUFFICES ASSUME TerminalInv, [Next]_vars PROVE TerminalInv'
  OBVIOUS
<1>1. CASE Collect         BY <1>1, CollectKeeps
<1>2. CASE PollAction      BY <1>2, PollActionKeeps
<1>3. CASE ApplySample     BY <1>3, ApplySampleKeeps
<1>4. CASE ApplyError      BY <1>4, ApplyErrorKeeps
<1>5. CASE SamplesApplied  BY <1>5, SamplesAppliedKeeps
<1>6. CASE Draw            BY <1>6, DrawKeeps
<1>7. CASE Key             BY <1>7, KeyKeeps
<1>8. CASE NoKey           BY <1>8, NoKeyKeeps
<1>9. CASE Remote          BY <1>9, RemoteStepKeeps
<1>10. CASE UNCHANGED vars
  <2>1. TerminationTypeOK' /\ TerminationInv'
    BY <1>10, Elsewhere DEF TerminalInv, TypeOK, vars
  <2>2. TypeOK'
    BY <1>10, <2>1 DEF TerminalInv, TypeOK, vars, requestVars, uiVars, listVars, selectVars, dialogVars
  <2>3. OneInFlight' /\ Listed' /\ DisplayTrue'
        /\ \A n \in DOMAIN inbox' : RowsOf(inbox'[n].scope, inbox'[n].rows)
    BY <1>10 DEF TerminalInv, Listed, OneInFlight, DisplayTrue, ConfirmationCurrent, IsCurrent,
              CurrentScope, SelectionListed, SelectionOnScreen, vars, requestVars, uiVars,
              listVars, selectVars, dialogVars
  <2> QED BY <2>1, <2>2, <2>3 DEF TerminalInv
<1> QED BY <1>1, <1>2, <1>3, <1>4, <1>5, <1>6, <1>7, <1>8, <1>9, <1>10 DEF Next, LoopStep

\* The inductive invariant holds of every behaviour of the loop, the guest and the
\* helpers.
THEOREM TerminalInvariant == Spec => []TerminalInv
BY TerminalInvInit, TerminalInvKept, PTL DEF Spec

\* The variables of State and Request have their types, with one helper, age and
\* answer for every request, and the tree never has a selection.
THEOREM TerminalTypeCorrect == Spec => []TypeOK
<1>1. TerminalInv => TypeOK
  BY DEF TerminalInv
<1> QED BY <1>1, TerminalInvariant, PTL

\* draw_ui and key of tui.rs: the confirmation names the selected row in the
\* scope on display, the selection is a row of the list, and it is on the screen.
THEOREM TerminalDisplayTrue == Spec => []DisplayTrue
<1>1. TerminalInv => DisplayTrue
  BY DEF TerminalInv
<1> QED BY <1>1, TerminalInvariant, PTL

\* terminate of action.rs and poll_action: a message that denies a signal stays
\* true, "accepted" names the confirmed process, and only the request the loop
\* waits for has no answer.
THEOREM TerminalEveryAnswerTrue == Spec => []EveryAnswerTrue
<1>1. TerminalInv => EveryAnswerTrue
  <2> SUFFICES ASSUME TerminalInv, NEW i \in DOMAIN requests
               PROVE  /\ answer[i] = Nothing /\ turn # "ended" => receiver = i
                      /\ answer[i] \in {"stale", "denied", "unsupported", "expired"}
                            => helper[i].at = "done" /\ helper[i].signal = Nothing
                      /\ answer[i] = "accepted" => helper[i].signal = requests[i].of
    BY DEF EveryAnswerTrue
  <2>1. Reported(i) /\ OneInFlight
    BY DEF TerminalInv, TerminationInv, HelperInv
  <2> QED BY <2>1 DEF Reported, OneInFlight, Results
<1> QED BY <1>1, TerminalInvariant, PTL

\* A sample leaves the selection at the instance it was at.
LEMMA SelectionStays ==
    ASSUME TerminalInv, [Next]_vars, turn = "samples",
           selected # Nothing, selected' # Nothing, CurrentScope' # Nothing
    PROVE  selected'.of = selected.of
<1>1. CASE ApplySample
  <2> DEFINE keep == SelectionFor(snapshot'.scope)
  <2>1. /\ snapshot' = [scope |-> Head(inbox).scope, rows |-> Head(inbox).rows]
        /\ Rebuild(keep) /\ reversed' = reversed /\ TypeOK
        /\ inbox # <<>> /\ inbox' = Tail(inbox)
    BY <1>1 DEF ApplySample, TerminalInv
  <2>2. snapshot' \in Shots /\ RowsOf(snapshot'.scope, snapshot'.rows) /\ snapshot' # Nothing
    BY <2>1, NextSample, ScreenAssumption DEF Samples, Shots
  <2> HIDE DEF keep
  <2>3. keep # Nothing /\ SameRow(keep, selected') /\ selected' \in snapshot'.rows
    BY <2>1, <2>2, RebuildKeeps DEF TypeOK
  <2>4. keep = selected /\ CurrentScope = snapshot'.scope
    BY <2>3 DEF keep, SelectionFor
  <2>5. snapshot'.scope # Nothing /\ CurrentScope # Nothing
    BY <2>2, <2>4 DEF CurrentScope
  <2>6. snapshot # Nothing /\ snapshot.scope = CurrentScope
    BY <2>5 DEF CurrentScope
  <2>7. selected \in snapshot.rows /\ RowsOf(snapshot.scope, snapshot.rows)
    <3>1. \E n \in DOMAIN lines : lines[n] = selected
      BY DEF TerminalInv, DisplayTrue, SelectionListed
    <3>2. selected # Heading
      BY <2>1, ScreenAssumption DEF TypeOK
    <3> QED BY <2>6, <3>1, <3>2 DEF TerminalInv, Listed
  <2>8. selected.of.life = selected'.of.life
    BY <2>2, <2>3, <2>4, <2>5, <2>6, <2>7 DEF RowsOf, SameRow
  <2>9. selected.of \in Instances /\ selected'.of \in Instances
    BY <2>1, <2>2, <2>3 DEF TypeOK, Shots, Processes
  <2> QED BY <2>3, <2>4, <2>8, <2>9 DEF SameRow, Instances
<1>2. CASE selected' = selected
  BY <1>2
<1>3. CASE ApplyError
  BY <1>3 DEF ApplyError
<1> QED BY <1>1, <1>2, <1>3
        DEF Next, LoopStep, Collect, PollAction, SamplesApplied, Draw, Key, NoKey, Remote, vars,
            uiVars, selectVars

\* apply_sample of tui.rs: a sample moves the selection to no other process,
\* whichever PIDs and start ticks another guest reuses.
THEOREM TerminalSelectionFollowsInstance == Spec => SelectionFollowsInstance
<1>1. TerminalInv /\ [Next]_vars =>
        [(turn = "samples" /\ selected # Nothing /\ selected' # Nothing /\ CurrentScope' # Nothing)
            => selected'.of = selected.of]_vars
  BY SelectionStays
<1> QED BY <1>1, TerminalInvariant, PTL DEF Spec, SelectionFollowsInstance

\* What the steps of the program do to the helpers of the requests there are.
LEMMA NextSignals ==
    ASSUME TerminalInv, [Next]_vars
    PROVE  /\ \A j \in DOMAIN requests :
                 age[j] = Timeout /\ helper[j].at # "signal" => helper'[j].at # "signal"
           /\ \/ \A j \in DOMAIN requests : helper'[j].signal = helper[j].signal
              \/ \E i \in DOMAIN requests :
                    /\ requests' = requests
                    /\ helper[i].signal = Nothing /\ helper'[i].signal = requests[i].of
                    /\ Alive(requests[i].of) /\ At(i).own
                    /\ \A j \in DOMAIN requests : j # i => helper'[j].signal = helper[j].signal
           /\ \/ requests' = requests
              \/ /\ \A j \in DOMAIN requests : requests'[j] = requests[j] /\ helper'[j] = helper[j]
                 /\ Len(requests') = Len(requests) + 1
                 /\ helper'[Len(requests) + 1].signal = Nothing
<1>1. CASE UNCHANGED requestVars
  BY <1>1 DEF requestVars
<1>2. CASE Remote
  <2>1. TerminationTypeOK /\ TerminationInv /\ RemoteStep
    BY <1>2 DEF TerminalInv, TypeOK, Remote
  <2> QED BY <2>1, RemoteKeeps
<1>3. CASE Key
  <2>1. PICK key \in Keys : KeyInConfirmation(key) \/ KeyInHelp(key) \/ KeyInList(key)
    BY <1>3 DEF Key
  <2>2. UNCHANGED requestVars \/ (confirmation # Nothing /\ Confirmable /\ Dispatch(confirmation))
    BY <2>1 DEF KeyInConfirmation, KeyInHelp, KeyInList, Quit, BeginConfirmation, KeyMoves, KeyLists
  <2>3. CASE confirmation # Nothing /\ Confirmable /\ Dispatch(confirmation)
    <3>1. TerminationTypeOK /\ TerminationInv /\ TypeOK /\ UNCHANGED guestVars
      BY <1>3 DEF TerminalInv, TypeOK, Key
    <3>2. PICK request \in Requests :
              /\ request = confirmation
              /\ request.of.life = request.scope /\ request.of.home = "primary"
      BY <2>3, <3>1, ConfirmedOfScope DEF TypeOK
    <3>3. /\ Len(requests') = Len(requests) + 1
          /\ helper'[Len(requests) + 1].signal = Nothing
          /\ \A j \in DOMAIN requests : requests'[j] = requests[j] /\ helper'[j] = helper[j]
      BY <2>3, <3>1, <3>2, DispatchKeeps
    <3> QED BY <3>3
  <2> QED BY <1>1, <2>2, <2>3
<1> QED BY <1>1, <1>2, <1>3
        DEF Next, LoopStep, Collect, PollAction, ApplySample, ApplyError, SamplesApplied, Draw,
            NoKey, vars

\* terminate.py: what a helper signals lives in the namespaces of the request,
\* and none passes its deadline check after the wait for it has ended.
THEOREM TerminalHelperBounded == Spec => HelperBounded
<1>1. TerminalInv /\ [Next]_vars =>
        [\A i \in DOMAIN requests :
            /\ helper'[i].signal # helper[i].signal =>
                  \E p \in Pids : /\ processes[p] # Nothing /\ processes[p].own
                                  /\ processes[p].of = helper'[i].signal
            /\ age[i] = Timeout /\ helper[i].at # "signal" => helper'[i].at # "signal"]_vars
  <2> SUFFICES ASSUME TerminalInv, [Next]_vars, NEW i \in DOMAIN requests,
                      helper'[i].signal # helper[i].signal
               PROVE  \E p \in Pids : /\ processes[p] # Nothing /\ processes[p].own
                                      /\ processes[p].of = helper'[i].signal
    BY NextSignals
  <2>1. /\ helper'[i].signal = requests[i].of
        /\ Alive(requests[i].of) /\ At(i).own
    BY NextSignals
  <2>2. /\ requests[i].of.pid \in Pids /\ processes[requests[i].of.pid] # Nothing
        /\ processes[requests[i].of.pid].of = requests[i].of
    BY <2>1, AliveAtItsPid DEF TerminalInv, TerminationInv
  <2> QED BY <2>1, <2>2 DEF At
<1> QED BY <1>1, TerminalInvariant, PTL DEF Spec, HelperBounded

(****************************************************************************)
(* TargetedSignal.                                                          *)
(****************************************************************************)
Confirmed == [i \in DOMAIN requests |-> requests[i].of]
Signals   == {<<i, helper[i].signal>> : i \in {j \in DOMAIN requests : helper[j].signal # Nothing}}

LEMMA ConfirmedTypes ==
    ASSUME TerminationTypeOK
    PROVE  Confirmed \in Seq(Instances) /\ Len(Confirmed) = Len(requests)
<1>1. /\ DOMAIN requests = 1 .. Len(requests) /\ Len(requests) \in Nat
      /\ \A i \in DOMAIN requests : requests[i].of \in Instances
  BY HelperAt DEF Requests
<1> QED BY <1>1 DEF Confirmed

\* A request more is an instance more that was confirmed.
LEMMA DispatchConfirms ==
    ASSUME TerminationTypeOK, TerminationTypeOK',
           Len(requests') = Len(requests) + 1,
           helper'[Len(requests) + 1].signal = Nothing,
           \A j \in DOMAIN requests : requests'[j] = requests[j] /\ helper'[j] = helper[j]
    PROVE  Target!Confirm
<1>1. PICK n : n = Len(requests) + 1
  OBVIOUS
<1>2. PICK new : new = requests'[n].of
  OBVIOUS
<1>3. /\ DOMAIN requests = 1 .. Len(requests) /\ Len(requests) \in Nat
      /\ DOMAIN requests' = 1 .. n
  BY <1>1, LenProperties DEF TerminationTypeOK
<1>4. new \in Instances
  <2>1. requests' \in Seq(Requests) /\ n \in 1 .. Len(requests')
    BY <1>1, <1>3 DEF TerminationTypeOK
  <2>2. requests'[n] \in Requests
    BY <2>1, ElementOfSeq
  <2> QED BY <1>2, <2>2 DEF Requests
<1>5. Confirmed \in Seq(Instances) /\ Len(Confirmed) = Len(requests)
  BY ConfirmedTypes
<1>6. Confirmed' \in Seq(Instances) /\ Len(Confirmed') = n
  <2>1. (Confirmed \in Seq(Instances) /\ Len(Confirmed) = Len(requests))'
    BY ConfirmedTypes, PTL
  <2> QED BY <1>1, <2>1
<1>7. Confirmed' = Append(Confirmed, new)
  <2>1. /\ Append(Confirmed, new) \in Seq(Instances) /\ Len(Append(Confirmed, new)) = n
        /\ \A i \in 1 .. Len(requests) : Append(Confirmed, new)[i] = Confirmed[i]
        /\ Append(Confirmed, new)[n] = new
    BY <1>1, <1>4, <1>5, AppendProperties
  <2>2. ASSUME NEW i \in 1 .. n
        PROVE  Confirmed'[i] = Append(Confirmed, new)[i]
    <3>1. Confirmed'[i] = requests'[i].of
      BY <1>3 DEF Confirmed
    <3>2. CASE i = n
      BY <1>2, <2>1, <3>1, <3>2
    <3>3. CASE i # n
      <4>1. i \in DOMAIN requests
        BY <1>1, <1>3, <3>3
      <4> QED BY <1>3, <2>1, <3>1, <4>1 DEF Confirmed
    <3> QED BY <3>2, <3>3
  <2> QED BY <1>6, <2>1, <2>2, SeqEqual
<1>8. Signals' = Signals
  <2>1. {j \in DOMAIN requests' : helper'[j].signal # Nothing}
            = {j \in DOMAIN requests : helper[j].signal # Nothing}
    BY <1>1, <1>3
  <2> QED BY <2>1 DEF Signals
<1> QED BY <1>4, <1>7, <1>8 DEF Target!Confirm, Confirmed, Signals

\* The signal of a helper is the one of its confirmation.
LEMMA HelperSignals ==
    ASSUME TerminationTypeOK, NEW i \in DOMAIN requests, requests' = requests,
           helper[i].signal = Nothing, helper'[i].signal = requests[i].of,
           \A j \in DOMAIN requests : j # i => helper'[j].signal = helper[j].signal
    PROVE  Target!Signal
<1>1. requests[i].of # Nothing
  BY HelperAt, NothingAssumption DEF Requests
<1>2. Confirmed' = Confirmed /\ DOMAIN Confirmed = DOMAIN requests /\ Confirmed[i] = requests[i].of
  BY DEF Confirmed
<1>3. \A s \in Signals : s[1] # i
  BY DEF Signals
<1>4. Signals' = Signals \cup {<<i, Confirmed[i]>>}
  <2>1. {j \in DOMAIN requests' : helper'[j].signal # Nothing}
            = {j \in DOMAIN requests : helper[j].signal # Nothing} \cup {i}
    BY <1>1
  <2> QED BY <1>2, <2>1 DEF Signals
<1> QED BY <1>2, <1>3, <1>4 DEF Target!Signal, Confirmed, Signals

LEMMA TargetStep ==
    ASSUME TerminalInv, TerminalInv', [Next]_vars
    PROVE  [Target!Next]_<<Confirmed, Signals>>
<1>1. TerminationTypeOK /\ TerminationTypeOK'
  BY DEF TerminalInv, TypeOK
<1>2. CASE requests' # requests
  BY <1>1, <1>2, NextSignals, DispatchConfirms DEF Target!Next
<1>3. CASE requests' = requests /\ \A j \in DOMAIN requests : helper'[j].signal = helper[j].signal
  BY <1>3 DEF Confirmed, Signals
<1>4. CASE /\ requests' = requests
           /\ \E i \in DOMAIN requests :
                    /\ helper[i].signal = Nothing /\ helper'[i].signal = requests[i].of
                    /\ \A j \in DOMAIN requests : j # i => helper'[j].signal = helper[j].signal
  BY <1>1, <1>4, HelperSignals DEF Target!Next
<1> QED BY <1>2, <1>3, <1>4, NextSignals

\* Only confirmed instances are signalled, each once per confirmation: PID reuse,
\* restarts of the guest and helpers that outlive their wait reach nobody else.
THEOREM TerminalImplementsTargetedSignal == Spec => ImplementsTargetedSignal
<1>1. Init => Target!Init
  BY DEF Init, InitTermination, Target!Init
<1>2. TerminalInv /\ TerminalInv' /\ [Next]_vars => [Target!Next]_<<Confirmed, Signals>>
  BY TargetStep
<1> QED BY <1>1, <1>2, TerminalInvariant, PTL
        DEF Spec, ImplementsTargetedSignal, Target!Spec, Confirmed, Signals

-----------------------------------------------------------------------------
(* Command: what a call returns is true of its processes.                   *)
(****************************************************************************)
Own(c)   == {p \in alive : p[1] = c}
Starting == {"piped", "suspended", "assigned", "running"}

\* A result is there exactly when the call has returned.
Returned(c) == stage[c] = "returned" <=> result[c] # "none"

\* The readers end behind the last holder, and output waits for them.
ReadToEnd(c) ==
    /\ result[c] = "output" => reader[c]
    /\ reader[c] => holders[c] = {} /\ stage[c] \in {"polling", "checking", "returned"}

\* What can be alive while the child is started: nothing, then the child alone.
StartedSoFar(c) ==
    /\ stage[c] \in Starting => platform = "windows"
    /\ stage[c] \in {"idle", "piped"} => Own(c) = {}
    /\ stage[c] \in {"suspended", "assigned"} => Own(c) \subseteq {Child(c)}

\* A process of a call is in its job from the assignment on.
InJob(c) ==
    platform = "windows" =>
        /\ stage[c] \notin {"idle", "piped", "suspended", "returned"} => Own(c) \subseteq member
        /\ stage[c] = "returned" => Own(c) = {}

\* The child leads its group and cannot leave it; after a timeout nobody is
\* left in the group, so that nobody can be born into it either.
InGroup(c) ==
    platform = "unix" =>
        /\ Child(c) \in alive => Child(c) \in member
        /\ result[c] = "timed out" => Own(c) \cap member = {}

CallInv(c) == Returned(c) /\ ReadToEnd(c) /\ StartedSoFar(c) /\ InJob(c) /\ InGroup(c)

CommandInv == CommandTypeOK /\ \A c \in Calls : CallInv(c)

LEMMA KnownProcesses ==
    \A c \in Calls : /\ Child(c) \in Procs /\ Descendant(c) \in Procs /\ Host(c) \in Holding
                     /\ Child(c) \in Holding /\ Descendant(c) \in Holding
BY DEF Child, Descendant, Host, Procs, Holding

\* Each action in turn keeps the invariant.
LEMMA InitKeeps == InitCommand => CommandInv
BY LimitAssumption
DEF InitCommand, CommandInv, CommandTypeOK, CallInv, Returned, ReadToEnd, StartedSoFar, InJob,
    InGroup, Own, Starting, Suspended, Holding, Procs

\* A call returns, with whatever it says, once its processes bear it out.
LEMMA ReturnKeeps ==
    ASSUME CommandInv, NEW c \in Calls, stage[c] # "returned",
           NEW outcome \in {"output", "timed out", "error"}, NEW killed,
           Return(c, outcome, killed),
           outcome = "output" => reader[c],
           platform = "windows" => Own(c) \subseteq killed \cup member,
           outcome = "timed out" => Own(c) \cap member \subseteq killed
    PROVE  CommandInv'
<1>1. CommandTypeOK'
  BY DEF CommandInv, CommandTypeOK, Return, Without, Suspended
<1>2. ASSUME NEW d \in Calls PROVE CallInv(d)'
  <2>1. alive' \subseteq alive /\ member' = member /\ platform' = platform /\ reader' = reader
    BY DEF Return
  <2>2. Own(d)' \subseteq Own(d) /\ holders[d]' \subseteq holders[d]
    BY <2>1 DEF Return, Own, Without
  <2>3. CASE d # c
    <3>1. stage[d]' = stage[d] /\ result[d]' = result[d] /\ reader[d]' = reader[d]
      BY <2>3 DEF Return, CommandInv, CommandTypeOK
    <3> QED
      BY <2>1, <2>2, <3>1, ZenonT(40)
      DEF CommandInv, CallInv, Returned, ReadToEnd, StartedSoFar, InJob, InGroup, Own, Child
  <2>4. CASE d = c
    <3>1. stage[c]' = "returned" /\ result[c]' = outcome
      BY DEF Return, CommandInv, CommandTypeOK
    <3>2. platform = "windows" => Own(c)' = {}
      BY DEF Return, Own, KilledBy
    <3>3. outcome = "timed out" => Own(c)' \cap member = {}
      BY DEF Return, Own
    <3>4. Returned(c)' /\ StartedSoFar(c)' /\ InJob(c)'
      BY <2>1, <3>1, <3>2 DEF Returned, StartedSoFar, InJob, Starting
    <3>5. ReadToEnd(c)'
      BY <2>1, <2>2, <2>4, <3>1 DEF CommandInv, CallInv, ReadToEnd, CommandTypeOK, Holding
    <3>6. InGroup(c)'
      BY <2>1, <3>1, <3>3 DEF CommandInv, CallInv, InGroup, Child
    <3> QED BY <2>4, <3>4, <3>5, <3>6 DEF CallInv
  <2> QED BY <2>3, <2>4
<1> QED BY <1>1, <1>2 DEF CommandInv

\* A call whose record, processes and group a step leaves alone keeps its
\* invariant, provided its pipe stays closed.
LEMMA UntouchedCall ==
    ASSUME NEW d \in Calls, CallInv(d), platform' = platform,
           stage'[d] = stage[d], result'[d] = result[d], reader'[d] = reader[d],
           Own(d)' = Own(d), Own(d) \cap member' = Own(d) \cap member,
           holders[d] = {} => holders'[d] = {}
    PROVE  CallInv(d)'
<1>1. Returned(d)' /\ ReadToEnd(d)' /\ StartedSoFar(d)' /\ InJob(d)'
  BY DEF CallInv, Returned, ReadToEnd, StartedSoFar, InJob
<1>2. InGroup(d)'
  BY DEF CallInv, InGroup, Own, Child
<1> QED BY <1>1, <1>2 DEF CallInv

LEMMA SpawnUnixKeeps ==
    ASSUME CommandInv, NEW c \in Calls, SpawnUnix(c) PROVE CommandInv'
<1>0. stage[c] # "returned" /\ Own(c) = {} /\ ~reader[c] /\ result[c] = "none"
  BY DEF SpawnUnix, CommandInv, CallInv, StartedSoFar, ReadToEnd, Returned
<1>1. CASE Return(c, "error", {})
  BY <1>0, <1>1, ReturnKeeps
<1>2. CASE ~Return(c, "error", {})
  <2>1. CommandTypeOK'
    <3>1. holders' \in [Calls -> SUBSET Holding]
      <4>1. holders' = [holders EXCEPT ![c] = {Child(c)}]
        BY <1>2 DEF SpawnUnix
      <4> QED BY <4>1, KnownProcesses DEF CommandInv, CommandTypeOK
    <3> QED
      BY <1>2, <3>1, KnownProcesses, ZenonT(40) DEF SpawnUnix, CommandInv, CommandTypeOK, Suspended
  <2>2. ASSUME NEW d \in Calls, d # c PROVE CallInv(d)'
    <3>1. Own(d)' = Own(d) /\ Own(d) \cap member' = Own(d) \cap member
      BY <1>2, <2>2 DEF SpawnUnix, Own, Child
    <3> QED
      BY <1>2, <2>2, <3>1, UntouchedCall DEF SpawnUnix, CommandInv, CommandTypeOK
  <2>3. CallInv(c)'
    <3>1. platform' = "unix" /\ stage'[c] = "polling" /\ ~reader'[c] /\ result'[c] = "none"
      BY <1>0, <1>2 DEF SpawnUnix, CommandInv, CommandTypeOK
    <3>2. Child(c) \in member'
      BY <1>2 DEF SpawnUnix
    <3> QED
      BY <3>1, <3>2
      DEF CallInv, Returned, ReadToEnd, StartedSoFar, InJob, InGroup, Starting
  <2> QED BY <2>1, <2>2, <2>3 DEF CommandInv
<1> QED BY <1>1, <1>2

LEMMA CreatePipesKeeps ==
    ASSUME CommandInv, NEW c \in Calls, CreatePipes(c) PROVE CommandInv'
<1>0. stage[c] # "returned" /\ Own(c) = {} /\ ~reader[c] /\ result[c] = "none"
  BY DEF CreatePipes, CommandInv, CallInv, StartedSoFar, ReadToEnd, Returned
<1>1. CASE Return(c, "error", {})
  BY <1>0, <1>1, ReturnKeeps
<1>2. CASE ~Return(c, "error", {})
  <2>1. CommandTypeOK'
    <3>1. holders' \in [Calls -> SUBSET Holding]
      <4>1. holders' = [holders EXCEPT ![c] = {Host(c)}]
        BY <1>2 DEF CreatePipes
      <4> QED BY <4>1, KnownProcesses DEF CommandInv, CommandTypeOK
    <3> QED
      BY <1>2, <3>1 DEF CreatePipes, CommandInv, CommandTypeOK, Suspended
  <2>2. ASSUME NEW d \in Calls, d # c PROVE CallInv(d)'
    BY <1>2, <2>2, UntouchedCall DEF CreatePipes, CommandInv, CommandTypeOK, Own
  <2>3. CallInv(c)'
    <3>1. /\ platform' = "windows" /\ stage'[c] = "piped" /\ ~reader'[c] /\ result'[c] = "none"
          /\ Own(c)' = {}
      BY <1>0, <1>2 DEF CreatePipes, CommandInv, CommandTypeOK, Own
    <3> QED
      BY <3>1 DEF CallInv, Returned, ReadToEnd, StartedSoFar, InJob, InGroup, Starting
  <2> QED BY <2>1, <2>2, <2>3 DEF CommandInv
<1> QED BY <1>1, <1>2

\* The child may inherit the pipe of another call, but only one that is held.
LEMMA SpawnWindowsKeeps ==
    ASSUME CommandInv, NEW c \in Calls, SpawnWindows(c) PROVE CommandInv'
<1>0. /\ stage[c] # "returned" /\ Own(c) = {} /\ ~reader[c] /\ result[c] = "none"
      /\ platform = "windows"
  BY DEF SpawnWindows, CommandInv, CallInv, StartedSoFar, ReadToEnd, Returned, Starting
<1>1. CASE Return(c, "error", {})
  BY <1>0, <1>1, ReturnKeeps
<1>2. CASE ~Return(c, "error", {})
  <2>1. CommandTypeOK'
    <3>1. holders' \in [Calls -> SUBSET Holding]
      <4>1. holders' = [d \in Calls |-> IF Host(d) \in holders[d]
                                     THEN holders[d] \cup {Child(c)} ELSE holders[d]]
        BY <1>2 DEF SpawnWindows
      <4> QED BY <4>1, KnownProcesses DEF CommandInv, CommandTypeOK
    <3> QED
      BY <1>2, <3>1, KnownProcesses
      DEF SpawnWindows, SpawnStage, CommandInv, CommandTypeOK, Suspended
  <2>2. ASSUME NEW d \in Calls, d # c PROVE CallInv(d)'
    <3>1. Own(d)' = Own(d) /\ Own(d) \cap member' = Own(d) \cap member
      BY <1>2, <2>2 DEF SpawnWindows, Own, Child
    <3>2. holders[d] = {} => holders'[d] = {}
      BY <1>2 DEF SpawnWindows
    <3> QED
      BY <1>2, <2>2, <3>1, <3>2, UntouchedCall DEF SpawnWindows, CommandInv, CommandTypeOK
  <2>3. CallInv(c)'
    <3>1. /\ platform' = "windows" /\ stage'[c] = "suspended" /\ ~reader'[c]
          /\ result'[c] = "none"
      BY <1>0, <1>2 DEF SpawnWindows, SpawnStage, CommandInv, CommandTypeOK
    <3>2. Own(c)' \subseteq {Child(c)}
      BY <1>0, <1>2 DEF SpawnWindows, Own, Child
    <3> QED
      BY <3>1, <3>2 DEF CallInv, Returned, ReadToEnd, StartedSoFar, InJob, InGroup, Starting
  <2> QED BY <2>1, <2>2, <2>3 DEF CommandInv
<1> QED BY <1>1, <1>2

LEMMA AssignToJobKeeps ==
    ASSUME CommandInv, NEW c \in Calls, AssignToJob(c) PROVE CommandInv'
<1>0. /\ stage[c] # "returned" /\ Own(c) \subseteq {Child(c)} /\ ~reader[c]
      /\ result[c] = "none" /\ platform = "windows"
  BY DEF AssignToJob, CommandInv, CallInv, StartedSoFar, ReadToEnd, Returned, Starting
<1>1. CASE Return(c, "error", {Child(c)})
  BY <1>0, <1>1, ReturnKeeps
<1>2. CASE ~Return(c, "error", {Child(c)})
  <2>1. CommandTypeOK'
    BY <1>2 DEF AssignToJob, CommandInv, CommandTypeOK, Suspended
  <2>2. ASSUME NEW d \in Calls, d # c PROVE CallInv(d)'
    <3>1. Own(d)' = Own(d) /\ Own(d) \cap member' = Own(d) \cap member
      BY <1>2, <2>2 DEF AssignToJob, Own, Child
    <3> QED
      BY <1>2, <2>2, <3>1, UntouchedCall DEF AssignToJob, CommandInv, CommandTypeOK
  <2>3. CallInv(c)'
    <3>1. /\ platform' = "windows" /\ stage'[c] = "assigned" /\ ~reader'[c]
          /\ result'[c] = "none"
      BY <1>0, <1>2 DEF AssignToJob, CommandInv, CommandTypeOK
    <3>2. Own(c)' \subseteq {Child(c)} /\ Own(c)' \subseteq member'
      BY <1>0, <1>2 DEF AssignToJob, Own, Child
    <3> QED
      BY <3>1, <3>2 DEF CallInv, Returned, ReadToEnd, StartedSoFar, InJob, InGroup, Starting
  <2> QED BY <2>1, <2>2, <2>3 DEF CommandInv
<1> QED BY <1>1, <1>2

\* A step of a call that touches no process and only moves its stage on.
LEMMA StageKeeps ==
    ASSUME CommandInv, NEW c \in Calls, NEW to \in {"running", "polling", "checking"},
           stage[c] \in {"assigned", "running", "polling", "checking"},
           stage' = [stage EXCEPT ![c] = to], to = "running" => stage[c] = "assigned",
           CommandTypeOK', UNCHANGED <<platform, alive, member, reader, result>>,
           \A d \in Calls : holders'[d] \subseteq holders[d]
    PROVE  CommandInv'
<1>1. ASSUME NEW d \in Calls, d # c PROVE CallInv(d)'
  BY <1>1, UntouchedCall, ZenonT(40) DEF CommandInv, CommandTypeOK, Own
<1>2. CallInv(c)'
  <2>1. stage'[c] = to /\ Own(c)' = Own(c)
    BY DEF CommandInv, CommandTypeOK, Own
  <2>2. Returned(c)' /\ InJob(c)' /\ InGroup(c)'
    BY <2>1 DEF CommandInv, CallInv, Returned, InJob, InGroup, Child
  <2>3. ReadToEnd(c)' /\ StartedSoFar(c)'
    BY <2>1 DEF CommandInv, CallInv, ReadToEnd, StartedSoFar, Starting
  <2> QED BY <2>2, <2>3 DEF CallInv
<1> QED BY <1>1, <1>2 DEF CommandInv

LEMMA ResumeKeeps ==
    ASSUME CommandInv, NEW c \in Calls, Resume(c) PROVE CommandInv'
<1>0. stage[c] # "returned" /\ Own(c) \subseteq {Child(c)}
  BY DEF Resume, CommandInv, CallInv, StartedSoFar
<1>1. CASE Return(c, "error", {Child(c)})
  BY <1>0, <1>1, ReturnKeeps
<1>2. CASE ~Return(c, "error", {Child(c)})
  <2>1. CommandTypeOK'
    BY <1>2 DEF Resume, CommandInv, CommandTypeOK, Suspended
  <2> QED BY <1>2, <2>1, StageKeeps DEF Resume
<1> QED BY <1>1, <1>2

LEMMA DropWriteEndsKeeps ==
    ASSUME CommandInv, NEW c \in Calls, DropWriteEnds(c) PROVE CommandInv'
<1>1. CommandTypeOK' /\ \A d \in Calls : holders'[d] \subseteq holders[d]
  BY DEF DropWriteEnds, CommandInv, CommandTypeOK, Suspended, Without
<1> QED BY <1>1, StageKeeps DEF DropWriteEnds

LEMMA SleepKeeps ==
    ASSUME CommandInv, NEW c \in Calls, Sleep(c) PROVE CommandInv'
<1>1. CommandTypeOK'
  <2>1. polls[c] \in 0..Limit /\ ~(polls[c] >= Limit)
    BY DEF Sleep, AtLimit, CommandInv, CommandTypeOK
  <2>2. polls[c] + 1 \in 0..Limit
    BY <2>1, LimitAssumption
  <2>3. polls' \in [Calls -> 0..Limit]
    BY <2>2 DEF Sleep, CommandInv, CommandTypeOK
  <2> QED BY <2>3 DEF Sleep, CommandInv, CommandTypeOK, Suspended
<1> QED BY <1>1, StageKeeps DEF Sleep

LEMMA TryWaitKeeps ==
    ASSUME CommandInv, NEW c \in Calls, TryWait(c) PROVE CommandInv'
<1>0. platform = "windows" => Own(c) \subseteq member
  BY DEF TryWait, CommandInv, CallInv, InJob
<1>1. CASE Return(c, "error", {})
  BY <1>0, <1>1, ReturnKeeps DEF TryWait
<1>2. CASE ~Return(c, "error", {})
  <2>1. CommandTypeOK'
    BY <1>2 DEF TryWait, CommandInv, CommandTypeOK, Suspended
  <2> QED BY <1>2, <2>1, StageKeeps DEF TryWait
<1> QED BY <1>1, <1>2

LEMMA FinishKeeps ==
    ASSUME CommandInv, NEW c \in Calls, Finish(c) PROVE CommandInv'
<1>0. platform = "windows" => Own(c) \subseteq member
  BY DEF Finish, CommandInv, CallInv, InJob
<1>1. PICK outcome \in {"output", "error"} : Return(c, outcome, {})
  BY DEF Finish
<1> QED BY <1>0, <1>1, ReturnKeeps DEF Finish, Complete

LEMMA TimesOutKeeps ==
    ASSUME CommandInv, NEW c \in Calls, TimesOut(c) PROVE CommandInv'
<1>1. platform = "windows" => Own(c) \subseteq Terminated(c) \cup member
  BY DEF TimesOut, CommandInv, CallInv, InJob
<1>2. Own(c) \cap member \subseteq Terminated(c)
  BY DEF Own, Terminated
<1> QED BY <1>1, <1>2, ReturnKeeps DEF TimesOut

\* Whatever a living child starts is where the child is.
LEMMA ForksKeeps ==
    ASSUME CommandInv, NEW c \in Calls, Forks(c) PROVE CommandInv'
<1>1. CommandTypeOK'
  <2>1. holders' \in [Calls -> SUBSET Holding]
    BY KnownProcesses DEF Forks, CommandInv, CommandTypeOK
  <2> QED BY <2>1, KnownProcesses DEF Forks, callVars, CommandInv, CommandTypeOK
<1>2. UNCHANGED <<platform, stage, reader, result>>
  BY DEF Forks, callVars
<1>3. \A d \in Calls : holders[d] = {} => holders'[d] = {}
  BY DEF Forks
<1>4. ASSUME NEW d \in Calls, d # c PROVE CallInv(d)'
  <2>1. Own(d)' = Own(d) /\ Own(d) \cap member' = Own(d) \cap member
    BY <1>4 DEF Forks, Own, Descendant
  <2> QED BY <1>2, <1>3, <1>4, <2>1, UntouchedCall DEF CommandInv
<1>5. CallInv(c)'
  <2>1. Child(c) \in Own(c) /\ Own(c)' = Own(c) \cup {Descendant(c)} /\ member \subseteq member'
    BY DEF Forks, Own, Child, Descendant
  <2>2. Child(c) \in member => Descendant(c) \in member'
    BY DEF Forks
  <2>3. Returned(c)' /\ ReadToEnd(c)'
    BY <1>2, <1>3 DEF CommandInv, CallInv, Returned, ReadToEnd
  <2>4. StartedSoFar(c)'
    BY <1>2 DEF Forks, CommandInv, CallInv, StartedSoFar, Suspended
  <2>5. InJob(c)'
    BY <1>2, <2>1, <2>2 DEF CommandInv, CallInv, InJob
  <2>6. InGroup(c)'
    BY <1>2, <2>1, <2>2 DEF CommandInv, CallInv, InGroup, Child, Own
  <2> QED BY <2>3, <2>4, <2>5, <2>6 DEF CallInv
<1> QED BY <1>1, <1>4, <1>5 DEF CommandInv

LEMMA LeavesGroupKeeps ==
    ASSUME CommandInv, NEW c \in Calls, LeavesGroup(c) PROVE CommandInv'
<1>1. CommandTypeOK'
  BY DEF LeavesGroup, callVars, CommandInv, CommandTypeOK
<1>2. ASSUME NEW d \in Calls PROVE CallInv(d)'
  <2>1. UNCHANGED <<platform, stage, reader, result, holders>> /\ Own(d)' = Own(d)
    BY DEF LeavesGroup, callVars, Own
  <2>2. Returned(d)' /\ ReadToEnd(d)' /\ StartedSoFar(d)'
    BY <2>1 DEF CommandInv, CallInv, Returned, ReadToEnd, StartedSoFar
  <2>3. InJob(d)' /\ platform = "unix"
    BY <2>1 DEF LeavesGroup, InJob
  <2>4. InGroup(d)'
    BY <2>1, <2>3
    DEF LeavesGroup, CommandInv, CallInv, InGroup, Own, Child, Descendant
  <2> QED BY <2>2, <2>3, <2>4 DEF CallInv
<1> QED BY <1>1, <1>2 DEF CommandInv

LEMMA ExitsKeeps ==
    ASSUME CommandInv, NEW p \in Procs, Exits(p) PROVE CommandInv'
<1>1. CommandTypeOK'
  BY DEF Exits, callVars, CommandInv, CommandTypeOK, Without
<1>2. ASSUME NEW d \in Calls PROVE CallInv(d)'
  <2>1. UNCHANGED <<platform, stage, reader, result, member>> /\ Own(d)' \subseteq Own(d)
    BY DEF Exits, callVars, Own
  <2>2. holders'[d] \subseteq holders[d] /\ alive' \subseteq alive
    BY DEF Exits, Without
  <2>3. Returned(d)' /\ ReadToEnd(d)' /\ StartedSoFar(d)'
    BY <2>1, <2>2 DEF CommandInv, CallInv, Returned, ReadToEnd, StartedSoFar, Child
  <2>4. InJob(d)' /\ InGroup(d)'
    BY <2>1, <2>2 DEF CommandInv, CallInv, InJob, InGroup, Child
  <2> QED BY <2>3, <2>4 DEF CallInv
<1> QED BY <1>1, <1>2 DEF CommandInv

LEMMA ReaderEndsKeeps ==
    ASSUME CommandInv, NEW c \in Calls, ReaderEnds(c) PROVE CommandInv'
<1>1. CommandTypeOK'
  BY DEF ReaderEnds, CommandInv, CommandTypeOK
<1>2. ASSUME NEW d \in Calls PROVE CallInv(d)'
  <2>1. UNCHANGED <<platform, stage, alive, member, holders, result>> /\ Own(d)' = Own(d)
    BY DEF ReaderEnds, Own
  <2>2. ReadToEnd(d)'
    BY <2>1 DEF ReaderEnds, CommandInv, CommandTypeOK, CallInv, ReadToEnd
  <2> QED
    BY <2>1, <2>2
    DEF CommandInv, CallInv, Returned, StartedSoFar, InJob, InGroup, Child
<1> QED BY <1>1, <1>2 DEF CommandInv

\* The invariant is inductive.
LEMMA CommandInvariant == CommandSpec => []CommandInv
<1>1. ASSUME CommandInv, [NextCommand]_commandVars
      PROVE  CommandInv'
  <2>1. CASE UNCHANGED commandVars
    BY <1>1, <2>1
    DEF commandVars, CommandInv, CommandTypeOK, CallInv, Returned, ReadToEnd, StartedSoFar,
        InJob, InGroup, Own, Child
  <2>2. CASE ProcessStep
    BY <1>1, <2>2, ForksKeeps, LeavesGroupKeeps, ReaderEndsKeeps, ExitsKeeps DEF ProcessStep
  <2>3. ASSUME NEW c \in Calls, CallStep(c)
        PROVE  CommandInv'
    BY <1>1, <2>3, SpawnUnixKeeps, CreatePipesKeeps, SpawnWindowsKeeps, AssignToJobKeeps,
       ResumeKeeps, DropWriteEndsKeeps, TryWaitKeeps, FinishKeeps, TimesOutKeeps, SleepKeeps
    DEF CallStep
  <2> QED BY <1>1, <2>1, <2>2, <2>3 DEF NextCommand
<1> QED BY InitKeeps, <1>1, PTL DEF CommandSpec

\* Every variable keeps its type: no call polls beyond its limit.
THEOREM CommandTypeCorrect == CommandSpec => []CommandTypeOK
<1>1. CommandInv => CommandTypeOK
  BY DEF CommandInv
<1> QED BY <1>1, CommandInvariant, PTL

\* What output_with_timeout returns is true of its processes (checked by the
\* run of the actions): output is whole, and nothing is left behind.
THEOREM CommandOutcomeTrue == CommandSpec => []OutcomeTrue
<1>1. CommandInv => OutputWhole
  BY DEF CommandInv, CallInv, ReadToEnd, OutputWhole
<1>2. ASSUME CommandInv PROVE NoneLeftBehind
  <2> SUFFICES ASSUME NEW c \in Calls, NEW p \in alive, p[1] = c
               PROVE  /\ platform = "windows" => result[c] = "none"
                      /\ result[c] = "timed out" => p \notin member
    BY DEF NoneLeftBehind
  <2>1. CallInv(c) /\ p \in Own(c) /\ platform \in {"unix", "windows"}
    BY <1>2 DEF CommandInv, CommandTypeOK, Own
  <2> QED BY <2>1 DEF CallInv, Returned, InJob, InGroup
<1> QED BY <1>1, <1>2, CommandInvariant, PTL DEF OutcomeTrue
=============================================================================
