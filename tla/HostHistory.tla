---------------------------- MODULE HostHistory ----------------------------
(****************************************************************************)
(* MetricHistory of history.rs: one observation per slot of a fixed clock,  *)
(* in a ring that drops the oldest one.  Its results come from one worker,  *)
(* through one channel and by a clock that does not go back: in order.      *)
(****************************************************************************)
EXTENDS FiniteSets, FiniteSetsExt, Integers, Sequences

CONSTANTS
    HistoryLen,    \* HISTORY_LEN
    Slots,         \* slots of the clock, the first of which is 0
    Levels,        \* percentages, some of which are out of range
    InRange,       \* the finite ones from 0 to 100
    Blank,         \* a column without an observation
    Unavailable,   \* '!', and an observation without a value
    MaxArrivals    \* bound: results that arrive

ASSUME HistoryAssumption == HistoryLen \in Nat \ {0} /\ Slots \subseteq Nat

VARIABLES
    points,    \* <<slot, value>>, oldest first
    arrivals   \* history: every result, in the order of arrival

historyVars == <<points, arrivals>>

InitHistory == points = <<>> /\ arrivals = <<>>

Filtered(value) == IF value \in InRange THEN value ELSE Unavailable

\* A newer slot has an observation.  Of results in order none is late.
Late(slot) == points # <<>> /\ slot < points[Len(points)][1]

\* Mutant: the last place of the ring is never used.
LeavesOnePlace == Len(points) = HistoryLen - 1

Full == Len(points) = HistoryLen

Recorded(slot, value) ==
    IF Late(slot) THEN points
    ELSE IF points # <<>> /\ slot = points[Len(points)][1]
    THEN [points EXCEPT ![Len(points)] = <<slot, value>>]
    ELSE Append(IF Full THEN Tail(points) ELSE points, <<slot, value>>)

Record(slot, value) ==
    /\ Len(arrivals) < MaxArrivals
    /\ points' = Recorded(slot, Filtered(value))
    /\ arrivals' = Append(arrivals, <<slot, Filtered(value)>>)

\* The slots of the next result.
Coming == {slot \in Slots : \A i \in DOMAIN arrivals : arrivals[i][1] =< slot}

HistoryNext == \E slot \in Coming, value \in Levels : Record(slot, value)

HistorySpec == InitHistory /\ [][HistoryNext]_historyVars

\* sparkline(): what the column of a slot shows.
Column(slot) ==
    LET held == {i \in DOMAIN points : points[i][1] =< slot}
    IN  IF held = {} THEN Blank ELSE points[Max(held)][2]

Columns(columns, current) ==
    LET width == Min({columns, HistoryLen})
    IN  [c \in 1..width |-> IF current < width - c THEN Blank ELSE Column(current - (width - c))]

\* The last result of a slot among all that arrived, or of the slots before it.
Expected(slot) ==
    LET held == {i \in DOMAIN arrivals : arrivals[i][1] =< slot}
    IN  IF held = {} THEN Blank ELSE arrivals[Max(held)][2]

\* Every column shows the last result of its slot or the one held before it,
\* however many observations the ring has dropped, and however many slots had
\* several results or none (history.rs:62, history.rs:85).
ColumnsShowArrivals ==
    \A current \in Slots : (\A i \in DOMAIN points : points[i][1] =< current) =>
        LET shown == Columns(HistoryLen, current)
        IN  \A c \in DOMAIN shown :
                LET slot == current - (Len(shown) - c)
                IN  shown[c] = IF slot < 0 THEN Blank ELSE Expected(slot)
=============================================================================
