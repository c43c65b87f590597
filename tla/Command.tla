-------------------------------- MODULE Command --------------------------------
(****************************************************************************)
(* output_with_timeout of src/src/command_unix.rs and                       *)
(* src/src/command_windows.rs, called by several threads at once.           *)
(*                                                                          *)
(* A command is a child and a descendant the child may start.  The two      *)
(* pipes are one, held open by a set of processes; the two reader threads   *)
(* are one, which ends once nobody holds the pipe.  A new process gets a    *)
(* new identity: that a group leader's PID is used again within one call is *)
(* left out.                                                                *)
(****************************************************************************)
EXTENDS Naturals

CONSTANTS
    Calls,    \* threads that run a command
    Limit     \* polls until the time limit is reached

ASSUME LimitAssumption == Limit \in Nat

VARIABLES
    platform,   \* which of the two implementations runs
    stage,      \* where each call is
    alive,      \* processes that run, or are suspended
    member,     \* processes in the process group or Job Object of their call
    holders,    \* per call: who holds the write end of its pipe
    reader,     \* per call: is_finished() of the reader threads
    status,     \* per call: the child's exit has been seen
    polls,      \* per call: polls so far
    result      \* per call: what it returned

commandVars == <<platform, stage, alive, member, holders, reader, status, polls, result>>
callVars    == <<stage, reader, status, polls, result>>

Child(c)      == <<c, "child">>
Descendant(c) == <<c, "descendant">>
Procs         == Calls \X {"child", "descendant"}
Host(c)       == <<c, "host">>
Holding       == Procs \cup {Host(c) : c \in Calls}
Suspended     == {"idle", "piped", "suspended", "assigned"}

InitCommand ==
    /\ platform \in {"unix", "windows"}
    /\ stage = [c \in Calls |-> "idle"]
    /\ alive = {} /\ member = {}
    /\ holders = [c \in Calls |-> {}]
    /\ reader = [c \in Calls |-> FALSE] /\ status = [c \in Calls |-> FALSE]
    /\ polls = [c \in Calls |-> 0]
    /\ result = [c \in Calls |-> "none"]

Without(procs) == [d \in Calls |-> holders[d] \ procs]

\* What ends with a call: dropping the Job Object kills whoever is in it, a
\* process group stays.
KilledBy(c) == IF platform = "windows" THEN {p \in member : p[1] = c} ELSE {}

\* The call returns, its handles are dropped and killed processes are gone.
Return(c, outcome, killed) ==
    LET gone == killed \cup KilledBy(c)
    IN /\ result' = [result EXCEPT ![c] = outcome]
       /\ stage' = [stage EXCEPT ![c] = "returned"]
       /\ alive' = alive \ gone
       /\ holders' = Without(gone \cup {Host(c)})
       /\ UNCHANGED <<platform, member, reader, status, polls>>

(****************************************************************************)
(* Starting the child.                                                      *)
(****************************************************************************)
\* pre_exec puts the child in its group, and its pipe is closed on exec in
\* every other child.
SpawnUnix(c) ==
    /\ platform = "unix" /\ stage[c] = "idle"
    /\ \/ Return(c, "error", {})
       \/ /\ stage' = [stage EXCEPT ![c] = "polling"]
          /\ alive' = alive \cup {Child(c)} /\ member' = member \cup {Child(c)}
          /\ holders' = [holders EXCEPT ![c] = {Child(c)}]
          /\ UNCHANGED <<platform, reader, status, polls, result>>

\* The Job Object and the pipes, whose write ends are inheritable.
CreatePipes(c) ==
    /\ platform = "windows" /\ stage[c] = "idle"
    /\ \/ Return(c, "error", {})
       \/ /\ stage' = [stage EXCEPT ![c] = "piped"]
          /\ holders' = [holders EXCEPT ![c] = {Host(c)}]
          /\ UNCHANGED <<platform, alive, member, reader, status, polls, result>>

SpawnStage == "suspended"

\* The child inherits each write end that is open: those of calls that are
\* starting their child at the same time, too.
SpawnWindows(c) ==
    /\ stage[c] = "piped"
    /\ \/ Return(c, "error", {})
       \/ /\ stage' = [stage EXCEPT ![c] = SpawnStage]
          /\ alive' = alive \cup {Child(c)}
          /\ holders' = [d \in Calls |-> IF Host(d) \in holders[d]
                                         THEN holders[d] \cup {Child(c)} ELSE holders[d]]
          /\ UNCHANGED <<platform, member, reader, status, polls, result>>

AssignToJob(c) ==
    /\ stage[c] = "suspended"
    /\ \/ Return(c, "error", {Child(c)})
       \/ /\ stage' = [stage EXCEPT ![c] = "assigned"]
          /\ member' = member \cup ({Child(c)} \cap alive)
          /\ UNCHANGED <<platform, alive, holders, reader, status, polls, result>>

Resume(c) ==
    /\ stage[c] = "assigned"
    /\ \/ Return(c, "error", {Child(c)})
       \/ /\ stage' = [stage EXCEPT ![c] = "running"]
          /\ UNCHANGED <<platform, alive, member, holders, reader, status, polls, result>>

DropWriteEnds(c) ==
    /\ stage[c] = "running"
    /\ stage' = [stage EXCEPT ![c] = "polling"]
    /\ holders' = Without({Host(c)})
    /\ UNCHANGED <<platform, alive, member, reader, status, polls, result>>

(****************************************************************************)
(* The processes, which do as they like once they run.                      *)
(****************************************************************************)
Forks(c) ==
    /\ Child(c) \in alive /\ stage[c] \notin Suspended
    /\ Descendant(c) \notin alive \cup member
    /\ alive' = alive \cup {Descendant(c)}
    /\ member' = IF Child(c) \in member THEN member \cup {Descendant(c)} ELSE member
    /\ holders' = [d \in Calls |-> IF Child(c) \in holders[d]
                                   THEN holders[d] \cup {Descendant(c)} ELSE holders[d]]
    /\ UNCHANGED <<platform, callVars>>

\* setsid; a job cannot be left.
LeavesGroup(c) ==
    /\ platform = "unix" /\ Descendant(c) \in alive \cap member
    /\ member' = member \ {Descendant(c)}
    /\ UNCHANGED <<platform, alive, holders, callVars>>

Exits(p) ==
    /\ p \in alive /\ stage[p[1]] \notin Suspended
    /\ alive' = alive \ {p} /\ holders' = Without({p})
    /\ UNCHANGED <<platform, member, callVars>>

\* The reader threads come to the end of the pipe.
ReaderEnds(c) ==
    /\ stage[c] \in {"polling", "checking"} /\ holders[c] = {} /\ ~reader[c]
    /\ reader' = [reader EXCEPT ![c] = TRUE]
    /\ UNCHANGED <<platform, stage, alive, member, holders, status, polls, result>>

(****************************************************************************)
(* The polling loop.                                                        *)
(****************************************************************************)
TryWait(c) ==
    /\ stage[c] = "polling"
    /\ \/ Return(c, "error", {})
       \/ /\ stage' = [stage EXCEPT ![c] = "checking"]
          /\ status' = [status EXCEPT ![c] = @ \/ Child(c) \notin alive]
          /\ UNCHANGED <<platform, alive, member, holders, reader, polls, result>>

\* Mutant: the exit of the child is taken for the end of its output.
ChildExited(c) == status[c]

Complete(c) == status[c] /\ reader[c]

Finish(c) ==
    /\ stage[c] = "checking" /\ Complete(c)
    /\ \E outcome \in {"output", "error"} : Return(c, outcome, {})

\* kill(-pgid), or TerminateJobObject and TerminateProcess if that fails: then
\* closing the job kills the others.
Terminated(c) == {p \in member : p[1] = c}

\* Mutant: the readers are joined before the error is returned.
ReadersEnded(c) == reader[c]

\* The readers are dropped, not joined: whoever left the group keeps them.
ReadersDropped(c) == TRUE

AtLimit(c) == polls[c] >= Limit

TimesOut(c) ==
    /\ stage[c] = "checking" /\ ~Complete(c) /\ AtLimit(c)
    /\ ReadersDropped(c)
    /\ Return(c, "timed out", Terminated(c))

Sleep(c) ==
    /\ stage[c] = "checking" /\ ~Complete(c) /\ ~AtLimit(c)
    /\ polls' = [polls EXCEPT ![c] = @ + 1]
    /\ stage' = [stage EXCEPT ![c] = "polling"]
    /\ UNCHANGED <<platform, alive, member, holders, reader, status, result>>

CallStep(c) ==
    \/ SpawnUnix(c) \/ CreatePipes(c) \/ SpawnWindows(c) \/ AssignToJob(c) \/ Resume(c)
    \/ DropWriteEnds(c) \/ TryWait(c) \/ Finish(c) \/ TimesOut(c) \/ Sleep(c)

ProcessStep ==
    \/ \E c \in Calls : Forks(c) \/ LeavesGroup(c) \/ ReaderEnds(c)
    \/ \E p \in Procs : Exits(p)

NextCommand == ProcessStep \/ \E c \in Calls : CallStep(c)

CommandSpec == InitCommand /\ [][NextCommand]_commandVars

\* The calling threads run; nothing is assumed of the processes.
FairCommand == \A c \in Calls : WF_commandVars(CallStep(c))

(****************************************************************************)
(* Properties.                                                              *)
(****************************************************************************)
CommandTypeOK ==
    /\ platform \in {"unix", "windows"}
    /\ alive \subseteq Procs /\ member \subseteq Procs
    /\ holders \in [Calls -> SUBSET Holding]
    /\ stage \in [Calls -> Suspended \cup {"running", "polling", "checking", "returned"}]
    /\ reader \in [Calls -> BOOLEAN] /\ status \in [Calls -> BOOLEAN]
    /\ polls \in [Calls -> 0..Limit]
    /\ result \in [Calls -> {"none", "output", "timed out", "error"}]

\* On Windows no process outlives its call, however the start of the child
\* failed; on Unix a timeout spares only what has left the process group.
NoneLeftBehind ==
    \A c \in Calls, p \in alive :
        p[1] = c => /\ platform = "windows" => result[c] = "none"
                    /\ result[c] = "timed out" => p \notin member

\* Output is returned when it is whole: no process is left that could still
\* write to the pipe, nor does one appear.
OutputWhole == \A c \in Calls : result[c] = "output" => holders[c] = {}

\* What a call returns is true of its processes.
OutcomeTrue == OutputWhole /\ NoneLeftBehind

Running(c) == stage[c] # "idle" /\ result[c] = "none"

\* The other modules rely on it: calls end, whatever their processes do and
\* whoever else holds their pipes.
CallEnds == (\E c \in Calls : Running(c)) ~> (\A c \in Calls : ~Running(c))
==============================================================================
