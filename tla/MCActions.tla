------------------------------ MODULE MCActions ------------------------------
(****************************************************************************)
(* Small instances of TerminalUi and Command for TLC.  A scenario leaves    *)
(* out steps that its question does not need and that only multiply the     *)
(* interleavings.                                                           *)
(****************************************************************************)
EXTENDS TerminalUi, Command

CONSTANTS n1, n2

VARIABLE scenario

MCHides == [f \in {"i", "w"} |-> {<<IF f = "i" THEN "primary" ELSE "elsewhere", 2>>}]

\* PID and start ticks are those of a process that StaticInit has.
MCOtherRows == {[of |-> [home |-> "elsewhere", life |-> 1, pid |-> 2, start |-> 2],
                 name |-> n1, own |-> FALSE]}

\* What the other collectors have, nothing or all there is.
Others(rows) == \A i \in DOMAIN inbox' : inbox'[i].rows \cap OtherRows = rows

\* Filters and views are the business of the screen.
Plain == UNCHANGED <<filters, reversed, tree, help, height>> /\ turn' # "ended"

\* A guest in which two processes use PID 2.
ReusesPid == GuestStep /\ started' =< 2 /\ \A p \in Pids \ {2} : processes'[p] = Nothing

NamedAlike ==
    \A p \in Pids : IF processes'[p] = Nothing THEN TRUE
                    ELSE processes'[p].name = (IF processes[p] = Nothing THEN n1 ELSE processes[p].name)

\* Processes that exit, reuse their PID or restart with their guest between
\* the samples and between the steps of the helper of one request.
GuestNext ==
    /\ scenario = "guest"
    /\ \/ /\ requests = <<>>
          /\ \/ Collect /\ turn = "poll" /\ Others({})
             \/ LoopStep /\ Plain
             \/ ReusesPid /\ turn = "poll" /\ inbox = <<>> /\ UNCHANGED uiVars
       \/ /\ requests # <<>>
          /\ \/ Answered /\ PollAction
             \/ ReusesPid /\ UNCHANGED uiVars /\ NamedAlike
             \/ Remote /\ UNCHANGED <<guestVars, age>>

\* A second request while the first is in flight, or after its wait ended.
RetryNext ==
    /\ scenario = "retry"
    /\ \/ Collect /\ requests = <<>> /\ snapshot = Nothing /\ Others(OtherRows)
       \/ LoopStep /\ Plain /\ (requests # <<>> => UNCHANGED selectVars)
       \/ Remote /\ UNCHANGED guestVars

\* Processes that stay beside one of elsewhere, and every key.
ScreenNext ==
    /\ scenario = "screen"
    /\ Collect \/ LoopStep
    /\ UNCHANGED <<requestVars>>

StaticInit(pids) ==
    /\ processes = [p \in Pids |-> IF p \notin pids THEN Nothing ELSE
          [of |-> [home |-> "primary", life |-> 1, pid |-> p, start |-> p], name |-> n1, own |-> TRUE]]
    /\ life = 1 /\ started = MaxStart
    /\ requests = <<>> /\ helper = <<>> /\ age = <<>> /\ answer = <<>>
    /\ InitUi

\* The other part has come to its end.
NoUi == /\ processes = [p \in Pids |-> Nothing] /\ life = 1 /\ started = MaxStart
        /\ requests = <<>> /\ helper = <<>> /\ age = <<>> /\ answer = <<>>
        /\ turn = "ended" /\ inbox = <<>>
        /\ snapshot = Nothing /\ filters = {} /\ reversed = FALSE /\ tree = FALSE
        /\ selecting = FALSE /\ selected = Nothing /\ lines = <<>>
        /\ scroll = 0 /\ height = 2
        /\ help = FALSE /\ confirmation = Nothing /\ visible = FALSE /\ receiver = Nothing

NoCommands == /\ platform = "unix" /\ stage = [c \in Calls |-> "returned"]
              /\ alive = {} /\ member = {} /\ holders = [c \in Calls |-> {}]
              /\ reader = [c \in Calls |-> TRUE] /\ status = [c \in Calls |-> TRUE]
              /\ polls = [c \in Calls |-> 0] /\ result = [c \in Calls |-> "output"]

ActionsInit ==
    \/ scenario = "guest" /\ Init /\ height = 3 /\ tree = FALSE /\ NoCommands
    \/ scenario = "retry" /\ StaticInit({2}) /\ height = 3 /\ tree = FALSE /\ NoCommands
    \/ scenario = "screen" /\ StaticInit(Pids) /\ NoCommands
    \/ scenario = "command" /\ NoUi /\ InitCommand

ActionsNext ==
    \/ (GuestNext \/ RetryNext \/ ScreenNext) /\ UNCHANGED commandVars
    \/ scenario = "command" /\ NextCommand /\ UNCHANGED vars

ActionsSpec ==
    /\ ActionsInit
    /\ [][ActionsNext /\ UNCHANGED scenario]_<<vars, commandVars, scenario>>
    /\ Fairness /\ FairCommand

\* What the user, or a thread, waits for comes to an end: an action in flight, and
\* every command.
ActionsEnd == RequestSettled /\ CallEnds
==============================================================================
