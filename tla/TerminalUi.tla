------------------------------ MODULE TerminalUi ------------------------------
(****************************************************************************)
(* The event loop of src/src/tui.rs (run and State) over Termination: what  *)
(* is listed, selected and scrolled to, the confirmation of a termination,  *)
(* and the worker that carries it out.                                      *)
(*                                                                          *)
(* One turn of the loop polls the worker, applies the samples that arrived, *)
(* draws and takes at most one key.  Colours, wording and the scrolling of  *)
(* the help are left out.                                                   *)
(****************************************************************************)
EXTENDS Termination

CONSTANTS
    Keys,       \* keys that are pressed
    OtherRows,  \* rows of Windows, of containers and of other distributions
    Hides,      \* per filter key (i, w, h, 0): home and PID of the rows it hides
    Heights,    \* heights the table can have
    Page,       \* lines that PageUp and PageDown move (10)
    MaxInbox,   \* bound: samples that wait
    Heading     \* a line that stands for no row

\* What a snapshot keeps of a sample.
Shots   == [scope : Scopes \cup {Nothing}, rows : SUBSET Processes]
Samples == [ok : BOOLEAN, scope : Scopes \cup {Nothing}, rows : SUBSET Processes]

\* The lives are those of the primary guest: other rows keep one.
ASSUME OtherAssumption ==
    /\ OtherRows \subseteq Processes /\ IsFiniteSet(OtherRows)
    /\ \A r \in OtherRows : r.of.home = "elsewhere" /\ r.of.life = 1
    /\ \A r, s \in OtherRows : r.of.pid = s.of.pid => r = s

ASSUME ScreenAssumption ==
    /\ Heights \subseteq Nat \ {0} /\ Page \in Nat \ {0} /\ MaxInbox \in Nat
    /\ Nothing \notin Shots
    /\ Heading \notin Processes /\ Heading # Nothing

VARIABLES
    turn,           \* what the loop does next
    inbox,          \* the channel of SamplingWorker
    snapshot,       \* snapshot: its rows and action_scope
    filters,        \* hide_infra, hide_windows, show_hosts, hide_zero
    reversed,       \* query.sort
    tree,           \* tree
    selecting,      \* selecting
    selected,       \* selected
    lines,          \* lines, and with them selectable_rows
    scroll,         \* scroll
    height,         \* height of the table when it was drawn last
    help,           \* help
    confirmation,   \* confirmation
    visible,        \* confirmation_visible
    receiver        \* action_receiver: the request it answers

listVars   == <<snapshot, filters, reversed, tree, lines>>
selectVars == <<selecting, selected, scroll>>
dialogVars == <<help, confirmation, visible, receiver>>
uiVars     == <<turn, inbox, listVars, selectVars, height, dialogVars>>
vars       == <<guestVars, requestVars, uiVars>>

InitUi ==
    /\ turn = "poll" /\ inbox = <<>>
    /\ snapshot = Nothing /\ filters = {} /\ reversed = FALSE /\ tree \in BOOLEAN
    /\ selecting = FALSE /\ selected = Nothing /\ lines = <<>>
    /\ scroll = 0 /\ height \in Heights
    /\ help = FALSE /\ confirmation = Nothing /\ visible = FALSE /\ receiver = Nothing

Init == InitTermination /\ InitUi

(****************************************************************************)
(* rebuild_lines: the rows the filters leave, below heading and rule.       *)
(****************************************************************************)
Before(a, b) ==
    \/ a.of.pid < b.of.pid
    \/ a.of.pid = b.of.pid /\ a.of.home = "primary" /\ b.of.home = "elsewhere"

ListedRows(rows, hiding, backwards) ==
    LET shown    == {r \in rows : \A f \in hiding : <<r.of.home, r.of.pid>> \notin Hides[f]}
        count    == Cardinality(shown)
        above(n) == IF backwards THEN count - n ELSE n - 1
    IN [n \in 1..count |->
           CHOOSE r \in shown : Cardinality({s \in shown : Before(s, r)}) = above(n)]

Rebuilt(shot, hiding, backwards, asTree) ==
    LET rows == ListedRows(shot.rows, hiding, backwards)
    IN <<Heading, Heading>> \o (IF asTree THEN [i \in DOMAIN rows |-> Heading] ELSE rows)

\* The rows of one scope are compared: life is no part of a row.
SameRow(a, b) ==
    a.of.home = b.of.home /\ a.of.pid = b.of.pid /\ a.of.start = b.of.start

Selectable(shown) == {i \in DOMAIN shown : shown[i] # Heading}

\* Where row is listed.
LinesOf(row, shown) == {i \in Selectable(shown) : row # Nothing /\ SameRow(row, shown[i])}

\* The selection is refreshed from the list, or forgotten.
Refreshed(row, shown) ==
    IF LinesOf(row, shown) = {} THEN Nothing
    ELSE shown[CHOOSE i \in LinesOf(row, shown) : TRUE]

\* rebuild_lines after a change of what is listed, from a selection of keep.
Rebuild(keep) ==
    IF snapshot' = Nothing
    THEN lines' = lines /\ selected' = keep
    ELSE /\ lines' = Rebuilt(snapshot', filters', reversed', tree')
         /\ selected' = Refreshed(keep, lines')

(****************************************************************************)
(* Confirmation.                                                            *)
(****************************************************************************)
CurrentScope == IF snapshot = Nothing THEN Nothing ELSE snapshot.scope

IsCurrent(request, scope, row) ==
    /\ row # Nothing /\ ~Rejects(scope, row)
    /\ request = RequestFor(scope, row)

\* The request also names the instance that was shown: start ticks and scope
\* are what is sent.
BeginConfirmation ==
    /\ IF receiver = Nothing /\ selected # Nothing /\ ~Rejects(CurrentScope, selected)
       THEN /\ confirmation' = RequestFor(CurrentScope, selected)
            /\ visible' = FALSE
       ELSE UNCHANGED <<confirmation, visible>>
    /\ UNCHANGED <<requestVars, listVars, selectVars, help, receiver>>

(****************************************************************************)
(* The turns of the loop.                                                   *)
(****************************************************************************)
\* The primary collector: rows and scope of one moment, possibly no scope.
PrimaryRows == {processes[p] : p \in Pids} \ {Nothing}

\* With them, the rows that the other collectors have.
Collect ==
    /\ Len(inbox) < MaxInbox
    /\ \E scope \in {life, Nothing}, ok \in BOOLEAN, others \in SUBSET OtherRows :
          inbox' = Append(inbox, [ok |-> ok, scope |-> scope, rows |-> PrimaryRows \cup others])
    /\ UNCHANGED <<guestVars, requestVars, turn, listVars, selectVars, height, dialogVars>>

Answered == receiver # Nothing /\ answer[receiver] # Nothing

PollAction ==
    /\ turn = "poll" /\ turn' = "samples"
    /\ receiver' = IF Answered THEN Nothing ELSE receiver
    /\ UNCHANGED <<guestVars, requestVars, inbox, listVars, selectVars, height,
                   help, confirmation, visible>>

\* Mutant: a confirmation outlives the row it names.
KeepsConfirmation(request, scope, row) == request # Nothing

StillConfirmed(request, scope, row) == request # Nothing /\ IsCurrent(request, scope, row)

\* Mutant: the selection is carried into another scope.
KeepsSelection(scope) == selected

SelectionFor(scope) == IF CurrentScope # scope THEN Nothing ELSE selected

ApplySample ==
    /\ turn = "samples" /\ inbox # <<>> /\ Head(inbox).ok
    /\ inbox' = Tail(inbox)
    /\ snapshot' = [scope |-> Head(inbox).scope, rows |-> Head(inbox).rows]
    /\ UNCHANGED <<guestVars, requestVars, turn, filters, reversed, tree, selecting,
                   scroll, height, help, visible, receiver>>
    /\ Rebuild(SelectionFor(snapshot'.scope))
    /\ confirmation' = IF StillConfirmed(confirmation, snapshot'.scope, selected')
                       THEN confirmation ELSE Nothing

ApplyError ==
    /\ turn = "samples" /\ inbox # <<>> /\ ~Head(inbox).ok
    /\ inbox' = Tail(inbox)
    /\ selected' = Nothing /\ confirmation' = Nothing
    /\ snapshot' = IF snapshot = Nothing THEN Nothing
                   ELSE [snapshot EXCEPT !.scope = Nothing]
    /\ UNCHANGED <<guestVars, requestVars, turn, filters, reversed, tree, lines,
                   selecting, scroll, height, help, visible, receiver>>

SamplesApplied ==
    /\ turn = "samples" /\ inbox = <<>> /\ turn' = "draw"
    /\ UNCHANGED <<guestVars, requestVars, inbox, listVars, selectVars, height, dialogVars>>

\* The scroll that brings the selected line into a table of this height.
Follow(tall) ==
    LET at == LinesOf(selected, lines)
        i  == CHOOSE i \in at : TRUE
    IN CASE at = {}                     -> scroll
         [] at # {} /\ i =< scroll      -> i - 1
         [] at # {} /\ i > scroll + tall -> i - tall
         [] OTHER                       -> scroll

Clamp(to, tall) ==
    LET last == IF Len(lines) > tall THEN Len(lines) - tall ELSE 0
    IN IF to > last THEN last ELSE to

\* draw_ui: whether the whole confirmation fits is up to the terminal.
Draw ==
    /\ turn = "draw" /\ turn' = "key"
    /\ height' \in Heights
    /\ IF confirmation # Nothing
       THEN visible' \in BOOLEAN /\ scroll' = scroll
       ELSE /\ visible' = visible
            /\ scroll' = IF help THEN scroll ELSE Clamp(Follow(height'), height')
    /\ UNCHANGED <<guestVars, requestVars, inbox, listVars, selecting, selected,
                   help, confirmation, receiver>>

(****************************************************************************)
(* key                                                                      *)
(****************************************************************************)
Confirmable == visible /\ IsCurrent(confirmation, CurrentScope, selected)

Quit == turn' = "ended" /\ UNCHANGED <<requestVars, listVars, selectVars>>
        /\ UNCHANGED <<help, visible, receiver>> /\ confirmation' = Nothing

KeyInConfirmation(key) ==
    /\ confirmation # Nothing
    /\ \/ /\ key = "y" /\ Confirmable
          /\ Dispatch(confirmation)
          /\ confirmation' = Nothing /\ receiver' = Len(requests) + 1
          /\ UNCHANGED <<listVars, selectVars, help, visible>> /\ turn' = "poll"
       \/ /\ key \in {"esc", "n"}
          /\ confirmation' = Nothing
          /\ UNCHANGED <<requestVars, listVars, selectVars, help, visible, receiver>>
          /\ turn' = "poll"
       \/ key = "q" /\ Quit
       \/ /\ key \notin {"y", "esc", "n", "q"} \/ (key = "y" /\ ~Confirmable)
          /\ UNCHANGED <<requestVars, listVars, selectVars, dialogVars>> /\ turn' = "poll"

KeyInHelp(key) ==
    /\ confirmation = Nothing
    /\ key = "?" \/ help
    /\ IF key = "q" THEN Quit
       ELSE /\ help' = IF key = "?" THEN ~help ELSE key # "esc"
            /\ UNCHANGED <<requestVars, listVars, selectVars, confirmation, visible, receiver>>
            /\ turn' = "poll"

Distance(key) == IF key \in {"pageup", "pagedown"} THEN Page ELSE 1

Forward(key) == key \in {"down", "pagedown"}

\* The n-th of a set of lines, from the top.
Nth(all, n) == CHOOSE i \in all : Cardinality({j \in all : j < i}) = n - 1

\* move_selection: among the selectable rows, to the ends at most.
Moved(key) ==
    LET all  == Selectable(lines)
        last == Cardinality(all)
        now  == LinesOf(selected, lines)
        n    == Cardinality({j \in all : j =< CHOOSE i \in now : TRUE})
        goal == CASE now = {} -> IF Forward(key) THEN 1 ELSE last
                  [] now # {} /\ Forward(key) ->
                        IF n + Distance(key) > last THEN last ELSE n + Distance(key)
                  [] OTHER -> IF n =< Distance(key) THEN 1 ELSE n - Distance(key)
    IN IF all = {} THEN Nothing ELSE lines[Nth(all, goal)]

Arrows == {"up", "down", "pageup", "pagedown"}

KeyMoves(key) ==
    /\ key \in Arrows
    /\ IF selecting
       THEN selected' = Moved(key) /\ scroll' = scroll
       ELSE /\ selected' = selected
            /\ scroll' = CASE Forward(key) -> scroll + Distance(key)
                           [] scroll > Distance(key) /\ ~Forward(key) -> scroll - Distance(key)
                           [] OTHER -> 0
    /\ UNCHANGED <<requestVars, listVars, selecting, dialogVars>>

\* Mutant: selection mode leaves the tree open.
TreeStaysOpen == tree

\* The tree has no rows to select.
TreeAfterSelect == tree /\ selecting

\* s, t, the filters and the sort keys rebuild the list at once.
KeyLists(key) ==
    /\ \/ /\ key = "s"
          /\ selecting' = ~selecting
          /\ tree' = TreeAfterSelect
          /\ scroll' = IF selecting' THEN 0 ELSE scroll
          /\ UNCHANGED <<filters, reversed>>
       \/ /\ key = "t"
          /\ tree' = ~tree /\ scroll' = 0 /\ selecting' = FALSE
          /\ UNCHANGED <<filters, reversed>>
       \/ /\ key \in DOMAIN Hides
          /\ filters' = IF key \in filters THEN filters \ {key} ELSE filters \cup {key}
          /\ scroll' = IF key = "w" THEN 0 ELSE scroll
          /\ UNCHANGED <<tree, selecting, reversed>>
       \/ /\ key = "r"
          /\ reversed' = ~reversed /\ scroll' = 0
          /\ UNCHANGED <<tree, selecting, filters>>
    /\ UNCHANGED <<requestVars, snapshot, dialogVars>>
    /\ Rebuild(IF key \in {"s", "t"} THEN Nothing ELSE selected)

KeyInList(key) ==
    /\ confirmation = Nothing /\ ~help /\ key # "?"
    /\ \/ /\ \/ key = "k" /\ BeginConfirmation
             \/ KeyMoves(key)
             \/ KeyLists(key)
          /\ turn' = "poll"
       \/ key \in {"q", "esc"} /\ Quit

Key ==
    /\ turn = "key"
    /\ \E key \in Keys : KeyInConfirmation(key) \/ KeyInHelp(key) \/ KeyInList(key)
    /\ UNCHANGED <<guestVars, inbox, height>>

NoKey ==
    /\ turn = "key" /\ turn' = "poll"
    /\ UNCHANGED <<guestVars, requestVars, inbox, listVars, selectVars, height, dialogVars>>

LoopStep == PollAction \/ ApplySample \/ ApplyError \/ SamplesApplied \/ Draw \/ Key \/ NoKey

Remote == RemoteStep /\ UNCHANGED uiVars

Next == Collect \/ LoopStep \/ Remote

Spec == Init /\ [][Next]_vars

\* The loop is the main thread and never waits longer than for a key, and the
\* wait for wsl.exe ends (see Command).  Nothing is assumed of the guest.
Fairness ==
    /\ WF_vars(PollAction) /\ WF_vars(ApplySample \/ ApplyError) /\ SF_vars(SamplesApplied)
    /\ WF_vars(Draw) /\ WF_vars(NoKey)
    /\ \A i \in 1..MaxRequests :
          WF_vars(i \in DOMAIN requests /\ (TimePasses(i) \/ WaitEnds(i)) /\ UNCHANGED uiVars)

(****************************************************************************)
(* Properties.                                                              *)
(****************************************************************************)
\* Types of the variables of Termination and of State; the tree has no selection
\* mode.
TypeOK ==
    /\ TerminationTypeOK
    /\ turn \in {"poll", "samples", "draw", "key", "ended"}
    /\ inbox \in Seq(Samples) /\ Len(inbox) =< MaxInbox
    /\ snapshot \in Shots \cup {Nothing} /\ lines \in Seq(Processes \cup {Heading})
    /\ filters \subseteq DOMAIN Hides /\ reversed \in BOOLEAN
    /\ tree \in BOOLEAN /\ selecting \in BOOLEAN /\ ~(tree /\ selecting)
    /\ selected \in Processes \cup {Nothing} /\ scroll \in Nat /\ height \in Heights
    /\ help \in BOOLEAN /\ confirmation \in Requests \cup {Nothing} /\ visible \in BOOLEAN
    /\ receiver \in DOMAIN requests \cup {Nothing}

\* key and apply_sample: an open confirmation names the selected row and the
\* scope of the snapshot on display, whatever samples came in since k.
ConfirmationCurrent ==
    confirmation # Nothing => IsCurrent(confirmation, CurrentScope, selected)

\* rebuild_lines: the selection is one row of the list that is drawn, in no
\* other mode than selection, whatever filter, sort or sample changed the list.
SelectionListed ==
    selected # Nothing => selecting /\ \E i \in DOMAIN lines : lines[i] = selected

\* draw_ui: once the list is drawn the selected line is on the screen,
\* although clamp_scroll runs after the scroll was made to follow it.
SelectionOnScreen ==
    (turn = "key" /\ ~help /\ confirmation = Nothing /\ selected # Nothing)
        => \E i \in LinesOf(selected, lines) : scroll < i /\ i =< scroll + height

\* What the user sees is what a key acts on: the confirmation names it, and the
\* selection is a row of the list, on the screen.
DisplayTrue == ConfirmationCurrent /\ SelectionListed /\ SelectionOnScreen

\* terminate and poll_action: a message that says no signal was sent is true for
\* good, although the helper outlives the wait; "accepted" names the confirmed
\* process; and the one request without an answer is the one the loop awaits
\* ("There is one in-flight worker and no queue", docs/process-actions.md).
EveryAnswerTrue ==
    \A i \in DOMAIN requests :
        /\ answer[i] = Nothing /\ turn # "ended" => receiver = i
        /\ answer[i] \in {"stale", "denied", "unsupported", "expired"}
              => helper[i].at = "done" /\ helper[i].signal = Nothing
        /\ answer[i] = "accepted" => helper[i].signal = requests[i].of

\* apply_sample: a sample moves the selection to no other process, although
\* another guest can reuse PID and start ticks.
SelectionFollowsInstance ==
    [][(turn = "samples" /\ selected # Nothing /\ selected' # Nothing /\ CurrentScope' # Nothing)
          => selected'.of = selected.of]_vars

\* terminate.py: what a helper signals lives in the namespaces of the request,
\* whichever processes came to its PID between the checks; and when the user was
\* told that the wait ended, a helper that has not passed its deadline check never
\* will, because the wait is longer than the deadline.
HelperBounded ==
    [][\A i \in DOMAIN requests :
          /\ helper'[i].signal # helper[i].signal =>
                \E p \in Pids : /\ processes[p] # Nothing /\ processes[p].own
                                /\ processes[p].of = helper'[i].signal
          /\ age[i] = Timeout /\ helper[i].at # "signal" => helper'[i].at # "signal"]_vars

Target == INSTANCE TargetedSignal WITH
    confirmed <- [i \in DOMAIN requests |-> requests[i].of],
    signals   <- {<<i, helper[i].signal>> : i \in {j \in DOMAIN requests : helper[j].signal # Nothing}}

\* Only confirmed instances are signalled, each once per confirmation: PID
\* reuse, restarts, late helpers and rows of other environments reach nobody else.
ImplementsTargetedSignal == Target!Spec

\* poll_action: an action in flight is settled, unless the user leaves first.
RequestSettled == (receiver # Nothing) ~> (receiver = Nothing \/ turn = "ended")
==============================================================================
