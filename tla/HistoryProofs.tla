---------------------------- MODULE HistoryProofs ----------------------------
(****************************************************************************)
(* The two histories.  The columns of a history of any length show what     *)
(* arrived, for every clock and every number of arrivals; and the exclusive *)
(* guest CPU is what was used, for any containers, rates and restarts.      *)
(****************************************************************************)
EXTENDS HostHistory, GuestCpu, NaturalLemmas, SequenceTheorems

Readings == InRange \cup {Unavailable}
Pairs    == Slots \X Readings
Newest   == points[Len(points)][1]

HistoryTypeOK ==
    /\ points \in Seq(Pairs) /\ arrivals \in Seq(Pairs)
    /\ Len(points) =< HistoryLen

\* Slots only go up, so that a full history reaches back HistoryLen slots.
OldestFirst ==
    \A i, j \in 1 .. Len(points) : i < j => points[i][1] + (j - i) =< points[j][1]

\* The newest point is of the newest slot that arrived.
NewestArrived ==
    /\ points = <<>> <=> arrivals = <<>>
    /\ \A i \in 1 .. Len(arrivals) : arrivals[i][1] =< Newest
    /\ points # <<>> => \E i \in 1 .. Len(arrivals) : arrivals[i][1] = Newest

\* Nothing was dropped that the column of the slot would show.
Reaches(slot) == Len(points) < HistoryLen \/ points[1][1] =< slot

ShowsArrivals == \A slot \in Nat : Reaches(slot) => Column(slot) = Expected(slot)

HistoryInv == HistoryTypeOK /\ OldestFirst /\ NewestArrived /\ ShowsArrivals

(****************************************************************************)
(* The columns of any list of points, and what any list of arrivals asks for *)
(****************************************************************************)
ColumnOf(ps, slot) ==
    LET held == {i \in DOMAIN ps : ps[i][1] =< slot}
    IN  IF held = {} THEN Blank ELSE ps[Max(held)][2]

ExpectedOf(rs, slot) ==
    LET held == {i \in DOMAIN rs : rs[i][1] =< slot}
    IN  IF held = {} THEN Blank ELSE rs[Max(held)][2]

LEMMA PairSlot == \A x \in Pairs : x[1] \in Nat
BY HistoryAssumption DEF Pairs

LEMMA Elements ==
    ASSUME NEW ps \in Seq(Pairs)
    PROVE  /\ Len(ps) \in Nat /\ DOMAIN ps = 1 .. Len(ps)
           /\ \A i \in 1 .. Len(ps) : ps[i] \in Pairs /\ ps[i][1] \in Nat
BY PairSlot

LEMMA ColumnOfPoints == \A slot : Column(slot) = ColumnOf(points, slot)
BY DEF Column, ColumnOf

LEMMA ExpectedOfArrivals == \A slot : Expected(slot) = ExpectedOf(arrivals, slot)
BY DEF Expected, ExpectedOf

LEMMA MaxIs ==
    ASSUME NEW S, S \subseteq Int, NEW m \in S, \A x \in S : x =< m PROVE Max(S) = m
<1>1. m \in S /\ \A y \in S : m >= y
  OBVIOUS
<1>2. \A x \in S : (\A y \in S : x >= y) => x = m
  OBVIOUS
<1> QED BY <1>1, <1>2 DEF Max

\* A column is blank, or shows the last point that is not younger.
LEMMA ColumnIs ==
    ASSUME NEW ps \in Seq(Pairs), NEW slot, NEW m \in 1 .. Len(ps),
           ps[m][1] =< slot, \A i \in 1 .. Len(ps) : ps[i][1] =< slot => i =< m
    PROVE  ColumnOf(ps, slot) = ps[m][2]
<1> DEFINE held == {i \in DOMAIN ps : ps[i][1] =< slot}
<1>1. m \in held /\ held \subseteq Int /\ \A x \in held : x =< m
  OBVIOUS
<1>2. Max(held) = m
  BY <1>1, MaxIs
<1> QED BY <1>1, <1>2 DEF ColumnOf

LEMMA ColumnBlank ==
    ASSUME NEW ps \in Seq(Pairs), NEW slot,
           \A i \in 1 .. Len(ps) : ~(ps[i][1] =< slot)
    PROVE  ColumnOf(ps, slot) = Blank
BY DEF ColumnOf

LEMMA ColumnCases ==
    ASSUME NEW ps \in Seq(Pairs), NEW slot
    PROVE  \/ \A i \in 1 .. Len(ps) : ~(ps[i][1] =< slot)
           \/ \E m \in 1 .. Len(ps) : /\ ps[m][1] =< slot
                                      /\ \A i \in 1 .. Len(ps) : ps[i][1] =< slot => i =< m
<1> DEFINE held == {i \in 1 .. Len(ps) : ps[i][1] =< slot}
<1>1. CASE held = {}
  BY <1>1
<1>2. CASE held # {}
  <2>1. Len(ps) \in Nat /\ held \subseteq 0 .. Len(ps)
    OBVIOUS
  <2>2. PICK m \in held : \A i \in held : i =< m
    BY <1>2, <2>1, GreatestNatural
  <2> QED BY <2>2
<1> QED BY <1>1, <1>2

\* A younger point shows from its slot on and changes no column before it.
LEMMA ColumnAppended ==
    ASSUME NEW ps \in Seq(Pairs), NEW new \in Pairs, NEW slot \in Nat,
           \A i \in 1 .. Len(ps) : ps[i][1] < new[1]
    PROVE  ColumnOf(Append(ps, new), slot) =
               IF slot < new[1] THEN ColumnOf(ps, slot) ELSE new[2]
<1> DEFINE qs == Append(ps, new)
<1>1. /\ qs \in Seq(Pairs) /\ Len(qs) = Len(ps) + 1 /\ Len(ps) \in Nat
      /\ qs[Len(ps) + 1] = new /\ \A i \in 1 .. Len(ps) : qs[i] = ps[i]
  BY AppendProperties
<1>2. new[1] \in Nat
  BY HistoryAssumption DEF Pairs
<1> HIDE DEF qs
<1>3. CASE ~(slot < new[1])
  <2>1. Len(qs) \in 1 .. Len(qs) /\ qs[Len(qs)] = new /\ qs[Len(qs)][1] =< slot
    BY <1>1, <1>2, <1>3
  <2>2. ColumnOf(qs, slot) = new[2]
    BY <1>1, <2>1, ColumnIs
  <2> QED BY <1>3, <2>2 DEF qs
<1>4. CASE slot < new[1]
  <2>1. ~(new[1] =< slot)
    BY <1>2, <1>4
  <2>2. CASE \A i \in 1 .. Len(ps) : ~(ps[i][1] =< slot)
    <3>1. \A i \in 1 .. Len(qs) : ~(qs[i][1] =< slot)
      BY <1>1, <2>1, <2>2
    <3> QED BY <1>1, <1>4, <2>2, <3>1, ColumnBlank DEF qs
  <2>3. ASSUME NEW m \in 1 .. Len(ps), ps[m][1] =< slot,
               \A i \in 1 .. Len(ps) : ps[i][1] =< slot => i =< m
        PROVE  ColumnOf(qs, slot) = ColumnOf(ps, slot)
    <3>1. m \in 1 .. Len(qs) /\ qs[m] = ps[m]
      BY <1>1
    <3>2. ASSUME NEW i \in 1 .. Len(qs), qs[i][1] =< slot
          PROVE  i =< m
      <4>1. i # Len(ps) + 1
        BY <1>1, <2>1, <3>2
      <4>2. i \in 1 .. Len(ps)
        BY <1>1, <4>1
      <4>3. qs[i] = ps[i]
        BY <1>1, <4>2
      <4> QED BY <2>3, <3>2, <4>2, <4>3
    <3>3. ColumnOf(qs, slot) = qs[m][2]
      BY <1>1, <2>3, <3>1, <3>2, ColumnIs
    <3>4. ColumnOf(ps, slot) = ps[m][2]
      BY <2>3, ColumnIs
    <3> QED BY <3>1, <3>3, <3>4
  <2> QED BY <1>4, <2>2, <2>3, ColumnCases DEF qs
<1> QED BY <1>3, <1>4

\* Dropping the oldest point changes no column from the second one on.
LEMMA ColumnDropped ==
    ASSUME NEW ps \in Seq(Pairs), NEW slot, Len(ps) > 1, ps[2][1] =< slot
    PROVE  ColumnOf(Tail(ps), slot) = ColumnOf(ps, slot)
<1> DEFINE qs == Tail(ps)
<1>1. /\ qs \in Seq(Pairs) /\ Len(qs) = Len(ps) - 1 /\ Len(ps) \in Nat
      /\ \A i \in 1 .. Len(qs) : qs[i] = ps[i + 1]
  BY HeadTailProperties
<1> HIDE DEF qs
<1>2. PICK m \in 1 .. Len(ps) : /\ ps[m][1] =< slot
                                /\ \A i \in 1 .. Len(ps) : ps[i][1] =< slot => i =< m
  <2>1. 2 \in 1 .. Len(ps)
    BY <1>1
  <2> QED BY <2>1, ColumnCases
<1>3. m >= 2 /\ m - 1 \in 1 .. Len(qs) /\ qs[m - 1] = ps[m]
  BY <1>1, <1>2
<1>4. \A i \in 1 .. Len(qs) : qs[i][1] =< slot => i =< m - 1
  BY <1>1, <1>2
<1>5. ColumnOf(qs, slot) = qs[m - 1][2]
  BY <1>1, <1>2, <1>3, <1>4, ColumnIs
<1>6. ColumnOf(ps, slot) = ps[m][2]
  BY <1>2, ColumnIs
<1> QED BY <1>3, <1>5, <1>6 DEF qs

\* A second result of the newest slot takes the place of the first.
LEMMA ColumnReplaced ==
    ASSUME NEW ps \in Seq(Pairs), NEW new \in Pairs, NEW slot \in Nat,
           ps # <<>>, new[1] = ps[Len(ps)][1]
    PROVE  ColumnOf([ps EXCEPT ![Len(ps)] = new], slot) =
               IF slot < new[1] THEN ColumnOf(ps, slot) ELSE new[2]
<1> DEFINE n == Len(ps)
           qs == [ps EXCEPT ![n] = new]
<1>1. /\ n \in Nat /\ n \in 1 .. n
      /\ qs \in Seq(Pairs) /\ Len(qs) = n
      /\ qs[n] = new /\ \A i \in 1 .. n : i # n => qs[i] = ps[i]
  BY ExceptSeq, EmptySeq
<1>2. new[1] \in Nat /\ \A i \in 1 .. n : qs[i][1] = ps[i][1]
  BY <1>1, HistoryAssumption DEF Pairs
<1> HIDE DEF qs, n
<1>3. CASE ~(slot < new[1])
  <2>1. qs[n][1] =< slot /\ \A i \in 1 .. Len(qs) : qs[i][1] =< slot => i =< n
    BY <1>1, <1>2, <1>3
  <2>2. ColumnOf(qs, slot) = new[2]
    BY <1>1, <2>1, ColumnIs
  <2> QED BY <1>3, <2>2 DEF qs, n
<1>4. CASE slot < new[1]
  <2>1. CASE \A i \in 1 .. n : ~(ps[i][1] =< slot)
    <3>1. \A i \in 1 .. Len(qs) : ~(qs[i][1] =< slot)
      BY <1>1, <1>2, <2>1
    <3>2. ColumnOf(qs, slot) = Blank
      BY <1>1, <3>1, ColumnBlank
    <3>3. ColumnOf(ps, slot) = Blank
      BY <2>1, ColumnBlank DEF n
    <3> QED BY <1>4, <3>2, <3>3 DEF qs, n
  <2>2. ASSUME NEW m \in 1 .. n, ps[m][1] =< slot,
               \A i \in 1 .. n : ps[i][1] =< slot => i =< m
        PROVE  ColumnOf(qs, slot) = ColumnOf(ps, slot)
    <3>1. m # n /\ m \in 1 .. Len(qs) /\ qs[m] = ps[m]
      BY <1>1, <1>2, <1>4, <2>2 DEF n
    <3>2. ColumnOf(qs, slot) = qs[m][2]
      BY <1>1, <1>2, <2>2, <3>1, ColumnIs
    <3>3. ColumnOf(ps, slot) = ps[m][2]
      BY <2>2, ColumnIs DEF n
    <3> QED BY <3>1, <3>2, <3>3
  <2> QED BY <1>4, <2>1, <2>2, ColumnCases DEF qs, n
<1> QED BY <1>3, <1>4

\* A result is asked for from its slot on, and not before.
LEMMA ExpectedOnTime ==
    ASSUME NEW rs \in Seq(Pairs), NEW new \in Pairs, NEW slot \in Nat,
           \A j \in 1 .. Len(rs) : rs[j][1] =< new[1]
    PROVE  ExpectedOf(Append(rs, new), slot) =
               IF slot < new[1] THEN ExpectedOf(rs, slot) ELSE new[2]
<1> DEFINE bs == Append(rs, new)
           held(xs) == {i \in DOMAIN xs : xs[i][1] =< slot}
<1>1. /\ bs \in Seq(Pairs) /\ Len(bs) = Len(rs) + 1 /\ Len(rs) \in Nat
      /\ \A i \in 1 .. Len(rs) : bs[i] = rs[i]
      /\ bs[Len(rs) + 1] = new
  BY AppendProperties
<1>2. new[1] \in Nat
  BY HistoryAssumption DEF Pairs
<1> HIDE DEF bs
<1>3. CASE ~(slot < new[1])
  <2>1. Len(rs) + 1 \in held(bs) /\ held(bs) \subseteq 1 .. Len(rs) + 1
    BY <1>1, <1>2, <1>3
  <2>2. Max(held(bs)) = Len(rs) + 1
    <3>1. held(bs) \subseteq Int /\ \A i \in held(bs) : i =< Len(rs) + 1
      BY <1>1, <2>1
    <3> HIDE DEF held
    <3> QED BY <2>1, <3>1, MaxIs
  <2> QED BY <1>1, <1>3, <2>1, <2>2 DEF ExpectedOf, bs
<1>4. CASE slot < new[1]
  <2>1. held(bs) = held(rs) /\ held(rs) \subseteq 1 .. Len(rs) /\ Len(rs) \in Nat
    BY <1>1, <1>2, <1>4
  <2>2. CASE held(rs) = {}
    BY <1>4, <2>1, <2>2 DEF ExpectedOf, bs
  <2>3. CASE held(rs) # {}
    <3>1. PICK m \in held(rs) : \A i \in held(rs) : i =< m
      <4>1. held(rs) \subseteq 0 .. Len(rs)
        BY <2>1
      <4> QED BY <2>1, <2>3, <4>1, GreatestNatural
    <3>2. Max(held(rs)) = m
      <4>1. held(rs) \subseteq Int /\ m \in held(rs) /\ \A i \in held(rs) : i =< m
        BY <2>1, <3>1
      <4> HIDE DEF held
      <4> QED BY <4>1, MaxIs
    <3>3. bs[m] = rs[m]
      BY <1>1, <2>1
    <3> QED BY <1>4, <2>1, <2>3, <3>2, <3>3 DEF ExpectedOf, bs
  <2> QED BY <2>2, <2>3
<1> QED BY <1>3, <1>4

(****************************************************************************)
(* One recorded result                                                      *)
(****************************************************************************)
\* A result, however it is recorded: the newest point is the newest arrival, and both show from its slot on.
LEMMA OnTimeKeeps ==
    ASSUME HistoryInv, NEW new \in Pairs, ~Late(new[1]), arrivals' = Append(arrivals, new),
           points' \in Seq(Pairs), Len(points') =< HistoryLen, points' # <<>>,
           points'[Len(points')] = new, OldestFirst',
           \A slot \in Nat : Reaches(slot)' =>
               /\ slot < new[1] => Reaches(slot)
               /\ ColumnOf(points', slot) =
                      IF slot < new[1] THEN ColumnOf(points, slot) ELSE new[2]
    PROVE  HistoryInv'
<1>1. points \in Seq(Pairs) /\ arrivals \in Seq(Pairs) /\ Len(arrivals) \in Nat /\ new[1] \in Nat
  BY PairSlot DEF HistoryInv, HistoryTypeOK
<1>2. \A j \in 1 .. Len(arrivals) : arrivals[j][1] =< new[1]
  <2> SUFFICES ASSUME NEW j \in 1 .. Len(arrivals) PROVE arrivals[j][1] =< new[1]
    OBVIOUS
  <2>1. arrivals # <<>> /\ points # <<>>
    BY <1>1 DEF HistoryInv, NewestArrived
  <2>2. arrivals[j][1] =< Newest /\ ~(new[1] < Newest) /\ arrivals[j][1] \in Nat
    BY <1>1, <2>1, Elements DEF HistoryInv, NewestArrived, Late, Newest
  <2>3. Newest \in Nat
    <3>1. Len(points) \in 1 .. Len(points)
      BY <1>1, <2>1
    <3> QED BY <1>1, <3>1, Elements DEF Newest
  <2> QED BY <1>1, <2>2, <2>3
<1>3. /\ arrivals' \in Seq(Pairs) /\ Len(arrivals') = Len(arrivals) + 1 /\ arrivals' # <<>>
      /\ arrivals'[Len(arrivals) + 1] = new
      /\ \A i \in 1 .. Len(arrivals) : arrivals'[i] = arrivals[i]
  BY <1>1, AppendProperties
<1>4. HistoryTypeOK'
  BY <1>3 DEF HistoryTypeOK
<1>5. NewestArrived'
  <2>1. Newest' = new[1]
    BY DEF Newest
  <2>2. \A i \in 1 .. Len(arrivals) + 1 : arrivals'[i][1] =< new[1]
    BY <1>1, <1>2, <1>3
  <2>3. Len(arrivals) + 1 \in 1 .. Len(arrivals') /\ arrivals'[Len(arrivals) + 1][1] = new[1]
    BY <1>1, <1>3
  <2> QED BY <1>3, <2>1, <2>2, <2>3 DEF NewestArrived
<1>6. ShowsArrivals'
  <2> SUFFICES ASSUME NEW slot \in Nat, Reaches(slot)' PROVE Column(slot)' = Expected(slot)'
    BY DEF ShowsArrivals
  <2>1. Column(slot)' = ColumnOf(points', slot) /\ Expected(slot)' = ExpectedOf(arrivals', slot)
    BY DEF Column, ColumnOf, Expected, ExpectedOf
  <2>2. ExpectedOf(arrivals', slot) = IF slot < new[1] THEN ExpectedOf(arrivals, slot) ELSE new[2]
    BY <1>1, <1>2, ExpectedOnTime
  <2>3. slot < new[1] => ColumnOf(points, slot) = ExpectedOf(arrivals, slot)
    BY ColumnOfPoints, ExpectedOfArrivals DEF HistoryInv, ShowsArrivals
  <2> QED BY <2>1, <2>2, <2>3
<1> QED BY <1>4, <1>5, <1>6 DEF HistoryInv

LEMMA SameSlotKeeps ==
    ASSUME HistoryInv, NEW new \in Pairs, ~Late(new[1]), arrivals' = Append(arrivals, new),
           points # <<>>, new[1] = Newest, points' = [points EXCEPT ![Len(points)] = new]
    PROVE  HistoryInv'
<1> DEFINE n == Len(points)
<1>1. points \in Seq(Pairs) /\ n \in Nat /\ n \in 1 .. n /\ n =< HistoryLen
  BY EmptySeq DEF HistoryInv, HistoryTypeOK
<1>2. /\ points' \in Seq(Pairs) /\ Len(points') = n /\ points'[n] = new /\ points' # <<>>
      /\ \A i \in 1 .. n : points'[i][1] = points[i][1]
  BY <1>1, ExceptSeq DEF Newest
<1>3. OldestFirst'
  <2>1. \A i, j \in 1 .. n : i < j => points[i][1] + (j - i) =< points[j][1]
    BY DEF HistoryInv, OldestFirst
  <2> HIDE DEF n
  <2> QED BY <1>2, <2>1 DEF OldestFirst
<1>4. \A slot \in Nat : Reaches(slot)' => Reaches(slot)
  <2>1. 1 \in 1 .. n
    BY <1>1
  <2> QED BY <1>2, <2>1 DEF Reaches
<1>5. \A slot \in Nat : ColumnOf(points', slot) =
          IF slot < new[1] THEN ColumnOf(points, slot) ELSE new[2]
  BY <1>1, ColumnReplaced DEF Newest
<1> QED BY <1>1, <1>2, <1>3, <1>4, <1>5, OnTimeKeeps

\* What is in front of a younger point, after the oldest one was dropped or not.
LEMMA AppendKeeps ==
    ASSUME HistoryInv, NEW new \in Pairs, arrivals' = Append(arrivals, new),
           points # <<>> => Newest < new[1],
           points' = Append(IF Len(points) = HistoryLen THEN Tail(points) ELSE points, new)
    PROVE  HistoryInv'
<1> DEFINE n == Len(points)
           kept == IF n = HistoryLen THEN Tail(points) ELSE points
           d == IF n = HistoryLen THEN 1 ELSE 0
<1>1. /\ points \in Seq(Pairs) /\ n \in Nat /\ n =< HistoryLen /\ HistoryLen \in Nat \ {0}
      /\ \A i \in 1 .. n : points[i] \in Pairs /\ points[i][1] \in Nat
      /\ new[1] \in Nat
  BY HistoryAssumption, Elements DEF HistoryInv, HistoryTypeOK, Pairs
<1>2. /\ kept \in Seq(Pairs) /\ Len(kept) = n - d /\ n - d \in Nat /\ n - d < HistoryLen
      /\ d \in {0, 1} /\ (n = HistoryLen => d = 1) /\ (n # HistoryLen => d = 0)
      /\ \A i \in 1 .. n - d : kept[i] = points[i + d]
  <2>1. CASE n = HistoryLen
    <3>1. points # <<>>
      BY <1>1, <2>1
    <3> QED BY <1>1, <2>1, <3>1, HeadTailProperties
  <2>2. CASE n # HistoryLen
    BY <1>1, <2>2
  <2> QED BY <2>1, <2>2
<1>3. /\ \A i \in 1 .. n : points[i][1] + (n - i) < new[1]
      /\ ~Late(new[1])
  <2>1. CASE points = <<>>
    BY <1>1, <2>1 DEF Late
  <2>2. CASE points # <<>>
    <3>1. n \in 1 .. n /\ Newest = points[n][1]
      BY <1>1, <2>2 DEF Newest
    <3>2. ASSUME NEW i \in 1 .. n
          PROVE  points[i][1] + (n - i) =< points[n][1]
      <4>1. i < n => points[i][1] + (n - i) =< points[n][1]
        BY <3>1 DEF HistoryInv, OldestFirst
      <4>2. points[i][1] \in Nat
        BY <1>1
      <4> QED BY <1>1, <4>1, <4>2
    <3> QED BY <1>1, <2>2, <3>1, <3>2 DEF Late, Newest
  <2> QED BY <2>1, <2>2
<1> HIDE DEF kept, d
<1>4. /\ points' = Append(kept, new)
      /\ points' \in Seq(Pairs) /\ Len(points') = n - d + 1 /\ points' # <<>>
      /\ points'[n - d + 1] = new
      /\ \A i \in 1 .. n - d : points'[i] = points[i + d]
  BY <1>2, AppendProperties DEF kept
<1>5. OldestFirst'
  <2> SUFFICES ASSUME NEW i \in 1 .. Len(points'), NEW j \in 1 .. Len(points'), i < j
               PROVE  points'[i][1] + (j - i) =< points'[j][1]
    BY DEF OldestFirst
  <2>1. i \in 1 .. n - d /\ i + d \in 1 .. n /\ points'[i] = points[i + d]
    BY <1>1, <1>2, <1>4
  <2>2. CASE j \in 1 .. n - d
    <3>1. points'[j] = points[j + d] /\ j + d \in 1 .. n
      BY <1>1, <1>2, <1>4, <2>2
    <3>2. points[i + d][1] + ((j + d) - (i + d)) =< points[j + d][1]
      BY <1>1, <1>2, <2>1, <2>2, <3>1 DEF HistoryInv, OldestFirst
    <3>3. points[i + d][1] \in Nat /\ points[j + d][1] \in Nat
      BY <1>1, <2>1, <3>1
    <3>4. (j + d) - (i + d) = j - i
      BY <1>1, <1>2, <2>1, <2>2
    <3> QED BY <2>1, <3>1, <3>2, <3>4
  <2>3. CASE j = n - d + 1
    <3>1. points[i + d][1] + (n - (i + d)) < new[1] /\ points[i + d][1] \in Nat
      BY <1>1, <1>2, <1>3, <2>1
    <3>2. points'[j][1] = new[1]
      BY <1>1, <1>2, <1>4, <2>3
    <3>3. j - i =< n - (i + d) + 1 /\ j - i \in Int /\ n - (i + d) \in Int
      BY <1>1, <1>2, <2>1, <2>3
    <3>4. points[i + d][1] + (j - i) =< new[1]
      BY <1>1, <3>1, <3>3
    <3> QED BY <2>1, <3>2, <3>4
  <2>4. j \in 1 .. n - d \/ j = n - d + 1
    <3>1. j \in 1 .. n - d + 1
      BY <1>4
    <3> QED BY <1>1, <1>2, <3>1
  <2> QED BY <2>2, <2>3, <2>4
<1>6. \A i \in 1 .. Len(kept) : kept[i][1] < new[1]
  <2> SUFFICES ASSUME NEW i \in 1 .. n - d PROVE kept[i][1] < new[1]
    BY <1>2
  <2>1. i + d \in 1 .. n /\ kept[i] = points[i + d]
    BY <1>1, <1>2
  <2>2. points[i + d][1] + (n - (i + d)) < new[1] /\ points[i + d][1] \in Nat
    BY <1>1, <1>2, <1>3, <2>1
  <2> QED BY <1>1, <1>2, <2>1, <2>2
<1>7. ASSUME NEW slot \in Nat, Reaches(slot)'
      PROVE  /\ slot < new[1] => Reaches(slot)
             /\ ColumnOf(points', slot) =
                    IF slot < new[1] THEN ColumnOf(points, slot) ELSE new[2]
  <2>1. ColumnOf(points', slot) = IF slot < new[1] THEN ColumnOf(kept, slot) ELSE new[2]
    <3>1. \A i \in 1 .. Len(kept) : kept[i][1] < new[1]
      BY <1>6
    <3>2. kept \in Seq(Pairs)
      BY <1>2
    <3>3. ColumnOf(Append(kept, new), slot) =
              IF slot < new[1] THEN ColumnOf(kept, slot) ELSE new[2]
      BY <3>1, <3>2, ColumnAppended
    <3> QED BY <1>4, <3>3
  <2>2. CASE n # HistoryLen
    BY <1>1, <2>1, <2>2 DEF Reaches, kept
  <2>3. CASE n = HistoryLen /\ slot < new[1]
    <3>1. d = 1 /\ Len(points') = HistoryLen /\ points'[1][1] =< slot
      BY <1>1, <1>2, <1>4, <1>7, <2>3 DEF Reaches
    <3>2. n > 1
      <4>1. SUFFICES ASSUME n = 1 PROVE FALSE
        BY <1>1, <2>3
      <4>2. points'[1] = new
        BY <1>4, <3>1, <4>1
      <4> QED BY <1>1, <2>3, <3>1, <4>2
    <3>3. points'[1] = points[2]
      BY <1>1, <1>4, <3>1, <3>2
    <3>4. ColumnOf(kept, slot) = ColumnOf(points, slot)
      BY <1>1, <2>3, <3>1, <3>2, <3>3, ColumnDropped DEF kept
    <3>5. points[1][1] =< slot
      <4>1. points[1][1] + (2 - 1) =< points[2][1]
        BY <1>1, <3>2 DEF HistoryInv, OldestFirst
      <4> QED BY <1>1, <3>1, <3>2, <3>3, <4>1
    <3> QED BY <2>1, <2>3, <3>4, <3>5 DEF Reaches
  <2>4. CASE ~(slot < new[1])
    BY <2>1, <2>4
  <2> QED BY <2>2, <2>3, <2>4
<1>8. Len(points') =< HistoryLen /\ points'[Len(points')] = new
  BY <1>1, <1>2, <1>4
<1> QED BY <1>3, <1>4, <1>5, <1>7, <1>8, OnTimeKeeps

LEMMA HistoryStep ==
    ASSUME HistoryInv, NEW slot \in Coming, NEW value \in Levels, Record(slot, value)
    PROVE  HistoryInv'
<1> DEFINE new == <<slot, Filtered(value)>>
<1>1. new \in Pairs /\ new[1] = slot /\ slot \in Nat
  BY HistoryAssumption DEF Coming, Pairs, Readings, Filtered
<1>2. arrivals' = Append(arrivals, new) /\ points' = Recorded(slot, Filtered(value))
  BY DEF Record
<1> HIDE DEF new
<1>3. ~Late(slot)
  <2> SUFFICES ASSUME points # <<>> PROVE ~(slot < Newest)
    BY DEF Late, Newest
  <2>1. PICK i \in 1 .. Len(arrivals) : arrivals[i][1] = Newest
    BY DEF HistoryInv, NewestArrived
  <2>2. arrivals \in Seq(Pairs)
    BY DEF HistoryInv, HistoryTypeOK
  <2>3. Newest \in Nat /\ Newest =< slot
    BY <2>1, <2>2, Elements DEF Coming
  <2> QED BY <1>1, <2>3
<1>4. CASE points # <<>> /\ slot = Newest
  BY <1>1, <1>2, <1>3, <1>4, SameSlotKeeps DEF Recorded, Newest, new
<1>5. CASE ~(points # <<>> /\ slot = Newest)
  <2>1. points # <<>> => Newest < new[1]
    <3> SUFFICES ASSUME points # <<>> PROVE Newest < new[1]
      OBVIOUS
    <3>1. Newest \in Nat
      <4>1. Len(points) \in 1 .. Len(points) /\ points \in Seq(Pairs)
        BY DEF HistoryInv, HistoryTypeOK
      <4> QED BY <4>1, Elements DEF Newest
    <3> QED BY <1>1, <1>3, <1>5, <3>1 DEF Late, Newest
  <2>2. points' = Append(IF Len(points) = HistoryLen THEN Tail(points) ELSE points, new)
    BY <1>2, <1>3, <1>5 DEF Recorded, Full, Newest, new
  <2> QED BY <1>1, <1>2, <2>1, <2>2, AppendKeeps
<1> QED BY <1>4, <1>5

LEMMA HistoryInvariant == HistorySpec => []HistoryInv
<1>1. InitHistory => HistoryInv
  <2> SUFFICES ASSUME InitHistory PROVE HistoryInv
    OBVIOUS
  <2>1. points = <<>> /\ arrivals = <<>> /\ Len(points) = 0 /\ Len(arrivals) = 0
    BY EmptySeq DEF InitHistory
  <2>2. HistoryTypeOK /\ OldestFirst /\ NewestArrived
    BY <2>1, EmptySeq, HistoryAssumption DEF HistoryTypeOK, OldestFirst, NewestArrived
  <2>3. ShowsArrivals
    BY <2>1 DEF ShowsArrivals, Column, Expected
  <2> QED BY <2>2, <2>3 DEF HistoryInv
<1>2. ASSUME HistoryInv, [HistoryNext]_historyVars PROVE HistoryInv'
  <2>1. CASE HistoryNext
    BY <1>2, <2>1, HistoryStep DEF HistoryNext
  <2>2. CASE UNCHANGED historyVars
    <3>1. HistoryTypeOK' /\ OldestFirst' /\ NewestArrived'
      BY <1>2, <2>2
      DEF historyVars, HistoryInv, HistoryTypeOK, OldestFirst, NewestArrived, Newest
    <3>2. \A slot : /\ Column(slot)' = Column(slot) /\ Expected(slot)' = Expected(slot)
                    /\ Reaches(slot)' => Reaches(slot)
      BY <2>2 DEF historyVars, Column, Expected, Reaches
    <3> QED BY <1>2, <3>1, <3>2 DEF HistoryInv, ShowsArrivals
  <2> QED BY <1>2, <2>1, <2>2
<1> QED BY <1>1, <1>2, PTL DEF HistorySpec

\* Every column shows the last result of its slot or the one held before it,
\* however many observations the ring has dropped, and however many slots had
\* several results or none (MetricHistory::record and sparkline).
THEOREM HistoryColumnsShowArrivals == HistorySpec => []ColumnsShowArrivals
<1>1. ASSUME HistoryInv PROVE ColumnsShowArrivals
  <2> SUFFICES ASSUME NEW current \in Slots,
                      \A i \in DOMAIN points : points[i][1] =< current,
                      NEW c \in DOMAIN Columns(HistoryLen, current)
               PROVE  LET shown == Columns(HistoryLen, current)
                          slot == current - (Len(shown) - c)
                      IN  shown[c] = IF slot < 0 THEN Blank ELSE Expected(slot)
    BY DEF ColumnsShowArrivals
  <2>0. HistoryLen \in Nat \ {0} /\ current \in Nat
    BY HistoryAssumption
  <2>1. Min({HistoryLen, HistoryLen}) = HistoryLen
    BY <2>0 DEF Min
  <2> DEFINE slot == current - (HistoryLen - c)
  <2>2. /\ c \in 1 .. HistoryLen /\ Len(Columns(HistoryLen, current)) = HistoryLen
        /\ Columns(HistoryLen, current)[c] = IF current < HistoryLen - c THEN Blank ELSE Column(slot)
    BY <2>0, <2>1 DEF Columns
  <2>3. slot < 0 <=> current < HistoryLen - c
    BY <2>0, <2>2
  <2>4. ASSUME ~(slot < 0) PROVE Column(slot) = Expected(slot)
    <3>1. slot \in Nat /\ slot >= current - (HistoryLen - 1)
      BY <2>0, <2>2, <2>4
    <3>2. Reaches(slot)
      <4>1. SUFFICES ASSUME Len(points) = HistoryLen PROVE points[1][1] =< slot
        <5>1. Len(points) \in Nat /\ Len(points) =< HistoryLen
          BY <1>1 DEF HistoryInv, HistoryTypeOK
        <5> QED BY <2>0, <5>1 DEF Reaches
      <4>2. /\ points \in Seq(Pairs) /\ HistoryLen \in 1 .. Len(points) /\ 1 \in 1 .. Len(points)
            /\ DOMAIN points = 1 .. Len(points)
        BY <1>1, <2>0, <4>1 DEF HistoryInv, HistoryTypeOK
      <4>3. points[1][1] \in Nat /\ points[HistoryLen][1] \in Nat /\ points[HistoryLen][1] =< current
        BY <4>2, Elements
      <4>4. points[1][1] + (HistoryLen - 1) =< points[HistoryLen][1]
        <5>1. CASE HistoryLen = 1
          BY <4>3, <5>1
        <5>2. CASE HistoryLen > 1
          BY <1>1, <4>2, <5>2 DEF HistoryInv, OldestFirst
        <5> QED BY <2>0, <5>1, <5>2
      <4> QED BY <2>0, <3>1, <4>3, <4>4
    <3> QED BY <1>1, <3>1, <3>2 DEF HistoryInv, ShowsArrivals
  <2> QED BY <2>2, <2>3, <2>4
<1> QED BY <1>1, HistoryInvariant, PTL

------------------------------------------------------------------------------
(* The guest CPU history.                                                   *)
(****************************************************************************)
CounterReadings == [boot : Nat, identity : Nat, time : Nat, seconds : Int, received : Nat]

\* The points of a series.
Held(s) == {s[i] : i \in 1 .. Len(s)}

\* A series is of one counter, and its points are in the order of time.
OneCounter(s) ==
    /\ \A p, q \in Held(s) : p.boot = q.boot /\ p.identity = q.identity
    /\ \A i, j \in 1 .. Len(s) : i < j => s[i].time < s[j].time

\* Its counter goes up by rate in a tick.
Even(s, rate) == \A p, q \in Held(s) : p.seconds - q.seconds = rate * (p.time - q.time)

\* The points of a series are readings.
LEMMA HeldTyped ==
    ASSUME NEW s \in Seq(CounterReadings), NEW p \in Held(s)
    PROVE  /\ p \in CounterReadings
           /\ p.boot \in Nat /\ p.identity \in Nat /\ p.time \in Nat /\ p.seconds \in Int /\ p.received \in Nat
<1>1. PICK i \in 1 .. Len(s) : p = s[i]
  BY DEF Held
<1>2. p \in CounterReadings
  BY <1>1
<1> QED BY <1>2 DEF CounterReadings

\* A push keeps the points of the counter that it continues, or none.
LEMMA Pushed ==
    ASSUME NEW s \in Seq(CounterReadings), NEW p \in CounterReadings, OneCounter(s), SeriesLen \in Nat \ {0}
    PROVE  /\ Push(s, p) \in Seq(CounterReadings)
           /\ p \in Held(Push(s, p))
           /\ \A q \in Held(Push(s, p)) : q = p \/ (s # <<>> /\ q \in Held(s) /\ Continues(s[Len(s)], p))
           /\ OneCounter(Push(s, p))
<1>1. PICK kept : kept = IF s # <<>> /\ ~Continues(s[Len(s)], p) THEN <<>> ELSE s
  OBVIOUS
<1>2. kept \in Seq(CounterReadings) /\ Len(kept) \in Nat
  BY <1>1
<1>3. PICK all : all = Append(kept, p)
  OBVIOUS
<1>4. all \in Seq(CounterReadings) /\ Len(all) = Len(kept) + 1 /\ all[Len(all)] = p
      /\ \A i \in 1 .. Len(kept) : all[i] = kept[i]
  BY <1>2, <1>3
<1>5. PICK d : d = Len(all) - (IF Len(all) > SeriesLen THEN SeriesLen ELSE Len(all))
  OBVIOUS
<1>6. d \in Nat /\ d < Len(all) /\ Len(all) \in Nat
  <2>1. PICK m, n : m = Len(kept) /\ n = Len(all)
    OBVIOUS
  <2>2. n = m + 1 /\ m \in Nat /\ d = n - (IF n > SeriesLen THEN SeriesLen ELSE n)
    BY <1>2, <1>4, <1>5, <2>1
  <2>3. d \in Nat /\ d < n /\ n \in Nat
    BY <2>2
  <2> QED BY <2>1, <2>3
<1>7. PICK r : r = Push(s, p)
  OBVIOUS
<1>8. r = SubSeq(all, d + 1, Len(all))
  BY <1>1, <1>3, <1>5, <1>7 DEF Push
<1>9. r \in Seq(CounterReadings) /\ Len(r) = Len(all) - d /\ \A i \in 1 .. Len(r) : r[i] = all[d + i]
  BY <1>4, <1>6, <1>8
<1>10. p \in Held(r)
  <2>1. Len(r) \in 1 .. Len(r) /\ d + Len(r) = Len(all)
    BY <1>6, <1>9
  <2> QED BY <1>4, <1>9, <2>1 DEF Held
<1>11. ASSUME NEW i \in 1 .. Len(r)
       PROVE  \/ d + i = Len(all) /\ r[i] = p
              \/ d + i \in 1 .. Len(kept) /\ r[i] = kept[d + i] /\ kept = s /\ s # <<>> /\ Continues(s[Len(s)], p)
  <2>1. d + i \in 1 .. Len(all) /\ r[i] = all[d + i]
    BY <1>6, <1>9
  <2>2. CASE d + i = Len(all)
    BY <1>4, <2>1, <2>2
  <2>3. CASE d + i # Len(all)
    <3>1. d + i \in 1 .. Len(kept)
      <4>1. PICK k, m, n : k = d + i /\ m = Len(kept) /\ n = Len(all)
        OBVIOUS
      <4>2. m \in Nat /\ n = m + 1 /\ k \in 1 .. n /\ k # n
        BY <1>2, <1>4, <2>1, <2>3, <4>1
      <4>3. k \in 1 .. m
        BY <4>2
      <4> QED BY <4>1, <4>3
    <3>2. kept # <<>>
      BY <3>1
    <3> QED BY <1>1, <1>4, <2>1, <3>1, <3>2
  <2> QED BY <2>2, <2>3
<1>12. \A q \in Held(r) : q = p \/ (s # <<>> /\ q \in Held(s) /\ Continues(s[Len(s)], p))
  BY <1>11 DEF Held
<1>13. OneCounter(r)
  <2>1. s # <<>> => s[Len(s)] \in Held(s) /\ s[Len(s)] \in CounterReadings /\ Len(s) \in 1 .. Len(s)
    BY DEF Held
  <2>2. \A q \in Held(r) : q.boot = p.boot /\ q.identity = p.identity
    BY <1>12, <2>1 DEF OneCounter, Continues
  <2>3. ASSUME NEW i \in 1 .. Len(r), NEW j \in 1 .. Len(r), i < j PROVE r[i].time < r[j].time
    <3>1. d + i < d + j /\ d + j =< Len(all)
      BY <1>6, <1>9, <2>3
    <3>2. d + i \in 1 .. Len(kept) /\ r[i] = s[d + i] /\ kept = s /\ s # <<>> /\ Continues(s[Len(s)], p)
      BY <1>6, <1>11, <2>3, <3>1
    <3>3. CASE d + j = Len(all)
      <4>1. r[j] = p
        BY <1>2, <1>4, <1>6, <1>11, <3>3
      <4>2. s[d + i].time =< s[Len(s)].time /\ s[d + i] \in CounterReadings /\ s[Len(s)] \in CounterReadings
        <5>1. d + i \in 1 .. Len(s) /\ Len(s) \in 1 .. Len(s) /\ (d + i = Len(s) \/ d + i < Len(s))
          BY <2>1, <3>2
        <5>2. s[d + i] \in CounterReadings /\ s[Len(s)] \in CounterReadings
          BY <5>1
        <5>3. s[Len(s)].time \in Nat
          BY <5>2 DEF CounterReadings
        <5>4. CASE d + i = Len(s)
          BY <5>2, <5>3, <5>4
        <5>5. CASE d + i < Len(s)
          <6>1. s[d + i].time < s[Len(s)].time
            BY <5>1, <5>5 DEF OneCounter
          <6>2. s[d + i].time \in Nat
            BY <5>2 DEF CounterReadings
          <6> QED BY <5>2, <5>3, <6>1, <6>2
        <5> QED BY <5>1, <5>4, <5>5
      <4>3. s[Len(s)].time < p.time
        BY <3>2 DEF Continues
      <4>4. s[d + i].time \in Nat /\ s[Len(s)].time \in Nat /\ p.time \in Nat
        BY <4>2 DEF CounterReadings
      <4> QED BY <3>2, <4>1, <4>2, <4>3, <4>4
    <3>4. CASE d + j # Len(all)
      BY <1>11, <3>1, <3>2, <3>4 DEF OneCounter
    <3> QED BY <3>3, <3>4
  <2> QED BY <2>2, <2>3 DEF OneCounter
<1> QED BY <1>7, <1>9, <1>10, <1>12, <1>13

\* Between two of its points an even counter is where they say: the interpolated
\* value differs from that of any point by what the counter uses in between.
LEMMA Interpolates ==
    ASSUME NEW s \in Seq(CounterReadings), OneCounter(s), NEW rate \in Int, Even(s, rate),
           NEW at \in Int, Spans(s, at) # {}, Window \in Nat \ {0}
    PROVE  /\ s[1].time =< at /\ Len(s) >= 2
           /\ Interpolated(s, at) = s[1].seconds + rate * (at - s[1].time)
<1>1. Spans(s, at) \subseteq Nat
  BY DEF Spans
<1>2. PICK i \in Spans(s, at) : i = Min(Spans(s, at))
  <2>1. PICK i \in Spans(s, at) : \A j \in Spans(s, at) : i =< j
    BY <1>1, LeastNatural
  <2>2. Min(Spans(s, at)) \in Spans(s, at)
    BY <2>1 DEF Min
  <2> QED BY <2>2
<1>3. i \in 1 .. (Len(s) - 1) /\ s[i].time =< at /\ at =< s[i + 1].time /\ Len(s) \in Nat
  <2>1. i \in Spans(s, at)
    BY <1>2
  <2> QED BY <2>1 DEF Spans
<1>4. 1 \in 1 .. Len(s) /\ i \in 1 .. Len(s) /\ i + 1 \in 1 .. Len(s) /\ i < i + 1 /\ Len(s) >= 2 /\ (i = 1 \/ 1 < i)
  BY <1>3
<1>5. PICK a, b, c : a = s[i] /\ b = s[i + 1] /\ c = s[1]
  OBVIOUS
<1>6. a \in CounterReadings /\ b \in CounterReadings /\ c \in CounterReadings /\ a \in Held(s) /\ b \in Held(s) /\ c \in Held(s)
  BY <1>4, <1>5 DEF Held
<1>17. /\ a.time \in Nat /\ b.time \in Nat /\ c.time \in Nat
       /\ a.seconds \in Int /\ b.seconds \in Int /\ c.seconds \in Int
  BY <1>6 DEF CounterReadings
<1>7. a.time < b.time /\ (c = a \/ c.time < a.time)
  BY <1>4, <1>5 DEF OneCounter
<1>8. b.seconds - a.seconds = rate * (b.time - a.time) /\ a.seconds - c.seconds = rate * (a.time - c.time)
  BY <1>6 DEF Even
<1>9. PICK d, e, x : d = b.time - a.time /\ e = at - a.time /\ x = a.time - c.time
  OBVIOUS
<1>18. a.seconds = c.seconds + rate * x
  <2>1. a.seconds = c.seconds + rate * (a.time - c.time)
    <3>1. PICK z : z = rate * (a.time - c.time)
      OBVIOUS
    <3>2. z \in Int
      BY <1>17, <3>1
    <3>3. a.seconds - c.seconds = z
      BY <1>8, <3>1
    <3>4. a.seconds = c.seconds + z
      BY <1>17, <3>2, <3>3
    <3> QED BY <3>1, <3>4
  <2> QED BY <1>9, <2>1
<1>10. d \in Nat \ {0} /\ e \in Int /\ x \in Int /\ e + x = at - c.time /\ c.seconds \in Int /\ c.time \in Nat /\ c.time =< at
  <2>1. c.time =< a.time
    BY <1>7, <1>17
  <2>2. a.time =< at
    BY <1>3, <1>5
  <2>3. d \in Nat \ {0}
    <3>1. PICK m, n : m = a.time /\ n = b.time
      OBVIOUS
    <3>2. m \in Nat /\ n \in Nat /\ m < n /\ d = n - m
      BY <1>7, <1>9, <1>17, <3>1
    <3> QED BY <3>2
  <2>4. e \in Int /\ x \in Int /\ e + x = at - c.time
    <3>1. PICK m, n : m = a.time /\ n = c.time
      OBVIOUS
    <3>2. m \in Nat /\ n \in Nat /\ e = at - m /\ x = m - n
      BY <1>9, <1>17, <3>1
    <3>3. e \in Int /\ x \in Int /\ e + x = at - n
      BY <3>2
    <3> QED BY <3>1, <3>3
  <2>5. c.time =< at
    BY <1>17, <2>1, <2>2
  <2> QED BY <1>17, <2>3, <2>4, <2>5
<1>11. Interpolated(s, at) = a.seconds + ((b.seconds - a.seconds) * (at - a.time)) \div (b.time - a.time)
  BY <1>2, <1>5 DEF Interpolated
<1>12. Interpolated(s, at) = c.seconds + rate * x + ((rate * d) * e) \div d
  BY <1>8, <1>9, <1>11, <1>18
<1>13. ((rate * d) * e) \div d = rate * e
  <2>1. PICK k : k = rate * e
    OBVIOUS
  <2>2. k \in Int
    BY <1>10, <2>1
  <2>3. (rate * d) * e = k * d
    BY <1>10, <2>1
  <2>4. (k * d) \div d = k
    BY <1>10, <2>2, Z3
  <2> QED BY <2>1, <2>3, <2>4
<1>14. rate * x + rate * e = rate * (x + e)
  BY <1>10
<1>15. rate * x \in Int /\ rate * e \in Int
  BY <1>10
<1>16. Interpolated(s, at) = c.seconds + rate * (at - c.time)
  <2>1. Interpolated(s, at) = c.seconds + (rate * x + rate * e)
    BY <1>12, <1>13, <1>15, <1>17
  <2>2. x + e = at - c.time
    BY <1>10
  <2> QED BY <1>14, <2>1, <2>2
<1> QED BY <1>4, <1>5, <1>10, <1>16

\* Over a window that the series spans, the counter goes up by what is used in it.
LEMMA DeltaEven ==
    ASSUME NEW s \in Seq(CounterReadings), OneCounter(s), NEW rate \in Int, Even(s, rate), Window \in Nat \ {0},
           NEW end \in Nat, Spans(s, end - Window) # {}, Spans(s, end) # {}
    PROVE  /\ Delta(s, end) = Window * rate
           /\ s[1].time =< end - Window /\ Len(s) >= 2
<1>1. PICK begin : begin = end - Window
  OBVIOUS
<1>2. begin \in Int /\ Spans(s, begin) # {} /\ end \in Int
  BY <1>1
<1>3. /\ s[1].time =< begin /\ Len(s) >= 2
      /\ Interpolated(s, begin) = s[1].seconds + rate * (begin - s[1].time)
  BY <1>2, Interpolates
<1>4. Interpolated(s, end) = s[1].seconds + rate * (end - s[1].time)
  BY <1>2, Interpolates
<1>5. 1 \in 1 .. Len(s)
  BY <1>3
<1>6. PICK c, z : c = s[1].seconds /\ z = s[1].time
  OBVIOUS
<1>7. c \in Int /\ z \in Nat
  <2>1. s[1] \in CounterReadings
    BY <1>5
  <2> QED BY <1>6, <2>1 DEF CounterReadings
<1>8. Delta(s, end) = (c + rate * (end - z)) - (c + rate * (begin - z))
  BY <1>1, <1>3, <1>4, <1>6 DEF Delta
<1>9. rate * (end - z) = rate * (begin - z) + rate * Window
  BY <1>1, <1>2, <1>7
<1>10. rate * (begin - z) \in Int /\ rate * Window \in Int /\ rate * Window = Window * rate
  BY <1>2, <1>7
<1>11. Delta(s, end) = Window * rate
  BY <1>7, <1>8, <1>9, <1>10
<1> QED BY <1>1, <1>3, <1>11

-----------------------------------------------------------------------------
\* What the kernel counts in a tick of a boot.
KernelRate(b) == Outside[b] + SumFunctionOnSet(Rate, AllGroups)

\* A point was read in its boot, at the time that it says.
Read(p) ==
    /\ p.boot \in 1 .. boot /\ p.received =< tick
    /\ p.received = p.time + bootedAt[p.boot]

GuestTypeOK ==
    /\ tick \in Nat /\ boot \in 1 .. LastBoot /\ created \in Nat
    /\ bootedAt \in Seq(Nat) /\ Len(bootedAt) = boot /\ bootedAt[boot] =< tick
    /\ cgroups \in [Targets -> [identity : Nat, since : Nat]]
    /\ kernel \in Seq(CounterReadings)
    /\ series \in [Targets -> Seq(CounterReadings)]

\* An identity is given once.
GroupsOK ==
    /\ \A g \in Targets : cgroups[g].identity =< created /\ cgroups[g].since =< tick
    /\ \A g, h \in Targets : cgroups[g].identity = cgroups[h].identity /\ cgroups[g].identity # 0 => g = h

KernelOK ==
    /\ OneCounter(kernel)
    /\ \A p \in Held(kernel) : Read(p) /\ p.seconds = p.time * KernelRate(p.boot)

SeriesOK ==
    \A t \in Targets :
        /\ OneCounter(series[t]) /\ Even(series[t], Rate[AliasOf[t]])
        /\ \A p \in Held(series[t]) :
            /\ Read(p) /\ p.identity \in 1 .. created
            /\ cgroups[AliasOf[t]].identity = 0 \/ p.identity =< cgroups[AliasOf[t]].identity
            /\ p.boot = boot /\ p.identity = cgroups[AliasOf[t]].identity
               => p.seconds = Rate[AliasOf[t]] * (p.received - cgroups[AliasOf[t]].since)
            /\ \A g \in Targets : p.identity = cgroups[g].identity => AliasOf[t] = g

\* Series of the same identity are of the same cgroup, and those of one cgroup are
\* read in the order of its identities.
OwnersOK ==
    \A t, u \in Targets : \A p \in Held(series[t]), q \in Held(series[u]) :
        /\ p.identity = q.identity => AliasOf[t] = AliasOf[u]
        /\ AliasOf[t] = AliasOf[u] /\ p.identity < q.identity => p.received =< q.received

AskedNow ==
    \/ asked = NotAsked
    \/ asked = [answer |-> Exclusive(Reported, 1), ok |-> Exclusive(Reported, 1).ok, about |-> Reported]

GuestInv == GuestTypeOK /\ GroupsOK /\ KernelOK /\ SeriesOK /\ OwnersOK /\ AskedNow

\* The history begins empty.
LEMMA GuestInitInv == InitGuestCpu => GuestInv
<1> SUFFICES ASSUME InitGuestCpu PROVE GuestInv
  OBVIOUS
<1>1. \A s : s = <<>> => s \in Seq(CounterReadings) /\ Held(s) = {} /\ OneCounter(s) /\ \A rate : Even(s, rate)
  BY DEF Held, OneCounter, Even
<1>2. bootedAt \in Seq(Nat) /\ Len(bootedAt) = 1 /\ bootedAt[1] = 0
  BY DEF InitGuestCpu
<1>3. GuestTypeOK
  BY <1>1, <1>2, GuestCpuAssumption DEF InitGuestCpu, GuestTypeOK
<1>4. GroupsOK
  BY DEF InitGuestCpu, GroupsOK
<1>5. KernelOK /\ SeriesOK /\ OwnersOK
  BY <1>1 DEF InitGuestCpu, KernelOK, SeriesOK, OwnersOK
<1>6. AskedNow
  BY DEF InitGuestCpu, AskedNow
<1> QED BY <1>3, <1>4, <1>5, <1>6 DEF GuestInv

\* Nothing of the history changes when it is asked, or nothing happens.
LEMMA AskInv ==
    ASSUME GuestInv, UNCHANGED <<tick, boot, bootedAt, cgroups, created, kernel, series>>,
           \/ UNCHANGED asked
           \/ asked' = [answer |-> Exclusive(Reported, 1), ok |-> Exclusive(Reported, 1).ok, about |-> Reported]
    PROVE  GuestInv'
<1>1. GuestTypeOK' /\ GroupsOK'
  BY DEF GuestInv, GuestTypeOK, GroupsOK
<1>2. KernelOK'
  BY DEF GuestInv, KernelOK, Read
<1>3. SeriesOK'
  BY DEF GuestInv, SeriesOK, Read
<1>4. OwnersOK'
  BY DEF GuestInv, OwnersOK
<1>5. Reported' = Reported
  BY DEF Reported
<1>6. PICK R : R = Reported
  OBVIOUS
<1>7. Exclusive(R, 1)' = Exclusive(R, 1)
  BY ZenonT(60) DEF Exclusive, Usable, Sources, CpuIn
<1>8. AskedNow'
  BY <1>5, <1>6, <1>7 DEF GuestInv, AskedNow
<1> QED BY <1>1, <1>2, <1>3, <1>4, <1>8 DEF GuestInv

\* Time only makes readings older.
LEMMA TickInv == ASSUME GuestInv, GuestTick PROVE GuestInv'
<1>1. tick' \in Nat /\ tick =< tick' /\ tick \in Nat
  BY GuestCpuAssumption DEF GuestTick, GuestInv, GuestTypeOK
<1> USE DEF GuestInv
<1>2. GuestTypeOK'
  BY <1>1 DEF GuestTick, GuestTypeOK
<1>3. GroupsOK'
  BY <1>1 DEF GuestTick, GuestTypeOK, GroupsOK
<1>4. \A p : p.received \in Nat /\ Read(p) => Read(p)'
  BY <1>1 DEF GuestTick, Read
<1>5. (\A p \in Held(kernel) : p.received \in Nat) /\ \A t \in Targets : \A p \in Held(series[t]) : p.received \in Nat
  <2>1. kernel \in Seq(CounterReadings) /\ \A t \in Targets : series[t] \in Seq(CounterReadings)
    BY DEF GuestTypeOK
  <2>2. \A s \in Seq(CounterReadings) : \A p \in Held(s) : p.received \in Nat
    BY HeldTyped
  <2> QED BY <2>1, <2>2
<1>6. KernelOK'
  BY <1>4, <1>5 DEF GuestTick, KernelOK
<1>7. SeriesOK'
  BY <1>4, <1>5 DEF GuestTick, SeriesOK
<1>8. OwnersOK' /\ AskedNow'
  BY DEF GuestTick, OwnersOK, AskedNow
<1> QED BY <1>2, <1>3, <1>6, <1>7, <1>8

\* What was read before a reboot is of an earlier boot.
LEMMA RebootInv == ASSUME GuestInv, GuestReboots PROVE GuestInv'
<1> USE DEF GuestInv
<1>1. /\ boot \in 1 .. LastBoot /\ boot' = boot + 1 /\ boot < LastBoot /\ tick \in Nat
      /\ bootedAt \in Seq(Nat) /\ Len(bootedAt) = boot /\ bootedAt' = Append(bootedAt, tick)
  BY DEF GuestReboots, GuestTypeOK
<1>2. /\ bootedAt' \in Seq(Nat) /\ Len(bootedAt') = boot' /\ bootedAt'[boot'] = tick
      /\ \A b \in 1 .. boot : bootedAt'[b] = bootedAt[b]
  BY <1>1
<1>3. boot' \in 1 .. LastBoot /\ tick' = tick
  BY <1>1, GuestCpuAssumption DEF GuestReboots
<1>4. GuestTypeOK'
  BY <1>1, <1>2, <1>3 DEF GuestReboots, GuestTypeOK
<1>5. GroupsOK'
  BY <1>4 DEF GuestReboots, GuestTypeOK, GroupsOK
<1>6. \A p : Read(p) => Read(p)' /\ p.boot # boot'
  BY <1>1, <1>2, <1>3 DEF Read
<1>7. KernelOK'
  BY <1>6 DEF GuestReboots, KernelOK
<1>8. \A t \in Targets : cgroups'[AliasOf[t]].identity = 0 /\ cgroups'[t].identity = 0
  BY GuestCpuAssumption DEF GuestReboots
<1>9. SeriesOK'
  <2> SUFFICES ASSUME NEW t \in Targets, NEW p \in Held(series[t])
               PROVE  /\ p.identity \in 1 .. created
                      /\ cgroups'[AliasOf[t]].identity = 0
                      /\ p.boot # boot'
                      /\ \A h \in Targets : p.identity # cgroups'[h].identity
    BY <1>6 DEF GuestReboots, SeriesOK
  <2>1. p.identity \in 1 .. created
    BY DEF SeriesOK
  <2>2. p.identity # 0
    BY <2>1
  <2>3. p.boot # boot'
    BY <1>6 DEF SeriesOK
  <2> QED BY <1>8, <2>1, <2>2, <2>3
<1>10. OwnersOK' /\ AskedNow'
  BY DEF GuestReboots, OwnersOK, AskedNow
<1> QED BY <1>4, <1>5, <1>7, <1>9, <1>10

\* The identity of a new cgroup is not that of any reading.
LEMMA StartInv ==
    ASSUME GuestInv, NEW g \in Targets, ContainerStarts(g) PROVE GuestInv'
<1> USE DEF GuestInv
<1>1. created \in Nat /\ created' = created + 1 /\ tick \in Nat /\ tick' = tick
  BY DEF ContainerStarts, GuestTypeOK
<1>2. /\ cgroups' \in [Targets -> [identity : Nat, since : Nat]]
      /\ cgroups'[g].identity = created' /\ cgroups'[g].since = tick
      /\ \A h \in Targets : h # g => cgroups'[h] = cgroups[h]
  <2>1. PICK new : new = [identity |-> created', since |-> tick]
    OBVIOUS
  <2>2. new \in [identity : Nat, since : Nat] /\ new.identity = created' /\ new.since = tick
    BY <1>1, <2>1
  <2>3. cgroups' = [cgroups EXCEPT ![g] = new]
    BY <2>1 DEF ContainerStarts
  <2> QED BY <2>2, <2>3 DEF GuestTypeOK
<1>3. \A h \in Targets : cgroups[h].identity \in Nat /\ cgroups[h].identity =< created /\ cgroups[h].since =< tick
  BY DEF GuestTypeOK, GroupsOK
<1>4. GuestTypeOK'
  BY <1>1, <1>2 DEF ContainerStarts, GuestTypeOK
<1>5. GroupsOK'
  <2>1. ASSUME NEW h \in Targets PROVE cgroups'[h].identity =< created' /\ cgroups'[h].since =< tick'
    <3>1. CASE h = g
      BY <1>1, <1>2, <3>1
    <3>2. CASE h # g
      <4>1. cgroups'[h] = cgroups[h]
        BY <1>2, <3>2
      <4> QED BY <1>1, <1>3, <4>1
    <3> QED BY <3>1, <3>2
  <2>2. ASSUME NEW h \in Targets, h # g PROVE cgroups'[h].identity # created'
    BY <1>1, <1>2, <1>3, <2>2
  <2>3. ASSUME NEW h \in Targets, NEW k \in Targets, cgroups'[h].identity = cgroups'[k].identity,
               cgroups'[h].identity # 0 PROVE h = k
    BY <1>2, <2>2, <2>3 DEF GroupsOK
  <2> QED BY <2>1, <2>3 DEF GroupsOK
<1>6. \A p : Read(p) => Read(p)'
  BY DEF ContainerStarts, Read
<1>7. KernelOK'
  BY <1>6 DEF ContainerStarts, KernelOK
<1>8. SeriesOK'
  <2> SUFFICES ASSUME NEW t \in Targets, NEW p \in Held(series[t])
               PROVE  /\ p.identity \in 1 .. created'
                      /\ cgroups'[AliasOf[t]].identity = 0 \/ p.identity =< cgroups'[AliasOf[t]].identity
                      /\ p.boot = boot /\ p.identity = cgroups'[AliasOf[t]].identity
                         => p.seconds = Rate[AliasOf[t]] * (p.received - cgroups'[AliasOf[t]].since)
                      /\ \A h \in Targets : p.identity = cgroups'[h].identity => AliasOf[t] = h
    BY <1>6 DEF ContainerStarts, SeriesOK
  <2>1. p.identity \in 1 .. created /\ AliasOf[t] \in Targets
    BY GuestCpuAssumption DEF SeriesOK
  <2>2. p.identity \in 1 .. created' /\ p.identity < created'
    BY <1>1, <2>1
  <2>3. \A h \in Targets : p.identity = cgroups'[h].identity => h # g /\ cgroups'[h] = cgroups[h]
    BY <1>2, <2>2
  <2>4. cgroups'[AliasOf[t]].identity = 0 \/ p.identity =< cgroups'[AliasOf[t]].identity
    <3>1. CASE AliasOf[t] = g
      BY <1>1, <1>2, <2>2, <3>1
    <3>2. CASE AliasOf[t] # g
      BY <1>2, <2>1, <3>2 DEF SeriesOK
    <3> QED BY <3>1, <3>2
  <2>5. p.boot = boot /\ p.identity = cgroups'[AliasOf[t]].identity
        => p.seconds = Rate[AliasOf[t]] * (p.received - cgroups'[AliasOf[t]].since)
    BY <2>1, <2>3 DEF SeriesOK
  <2>6. \A h \in Targets : p.identity = cgroups'[h].identity => AliasOf[t] = h
    BY <2>3 DEF SeriesOK
  <2> QED BY <2>2, <2>4, <2>5, <2>6
<1>9. OwnersOK' /\ AskedNow'
  BY DEF ContainerStarts, OwnersOK, AskedNow
<1> QED BY <1>4, <1>5, <1>7, <1>8, <1>9

\* Rates are whole numbers.
LEMMA RateTyped ==
    /\ \A b \in 1 .. LastBoot : KernelRate(b) \in Int
    /\ IsFiniteSet(AllGroups) /\ AllGroups \subseteq Targets
<1>1. AllGroups \subseteq Targets
  BY GuestCpuAssumption DEF AllGroups
<1>2. IsFiniteSet(AllGroups)
  BY <1>1, FS_Subset, GuestCpuAssumption
<1>3. SumFunctionOnSet(Rate, AllGroups) \in Int
  <2>1. \A t \in AllGroups : Rate[t] \in Int
    BY <1>1, GuestCpuAssumption
  <2> QED BY <1>2, <2>1, SumTerm
<1>4. \A b \in 1 .. LastBoot : KernelRate(b) \in Int
  <2>1. PICK total : total = SumFunctionOnSet(Rate, AllGroups)
    OBVIOUS
  <2>2. total \in Int
    BY <1>3, <2>1
  <2>3. \A b \in 1 .. LastBoot : Outside[b] \in Nat
    BY GuestCpuAssumption
  <2> QED BY <2>1, <2>2, <2>3 DEF KernelRate
<1> QED BY <1>1, <1>2, <1>4

\* The counters of the kernel continue, or begin, its series.
LEMMA KernelSampleInv == ASSUME GuestInv, KernelSample PROVE GuestInv'
<1> USE DEF GuestInv
<1>1. PICK p : p = [boot |-> boot, identity |-> 0, time |-> Uptime,
                    seconds |-> Uptime * (Outside[boot] + SumFunctionOnSet(Rate, AllGroups)), received |-> tick]
  OBVIOUS
<1>2. kernel' = Push(kernel, p)
  BY <1>1 DEF KernelSample
<1>3. /\ boot \in 1 .. LastBoot /\ LastBoot \in Nat /\ tick \in Nat /\ Uptime \in Nat /\ tick = Uptime + bootedAt[boot]
      /\ kernel \in Seq(CounterReadings) /\ SeriesLen \in Nat \ {0}
  <2>1. boot \in 1 .. LastBoot /\ LastBoot \in Nat /\ tick \in Nat /\ kernel \in Seq(CounterReadings) /\ SeriesLen \in Nat \ {0}
    BY GuestCpuAssumption DEF GuestTypeOK
  <2>2. bootedAt[boot] \in Nat /\ bootedAt[boot] =< tick
    <3>1. boot \in 1 .. Len(bootedAt)
      BY <2>1 DEF GuestTypeOK
    <3> QED BY <3>1 DEF GuestTypeOK
  <2> QED BY <2>1, <2>2 DEF Uptime
<1>4. PICK u, k : u = Uptime /\ k = KernelRate(boot)
  OBVIOUS
<1>5. u \in Nat /\ k \in Int /\ u * k \in Int
  <2>1. u \in Nat /\ k \in Int
    BY <1>3, <1>4, RateTyped
  <2> QED BY <2>1
<1>6. p = [boot |-> boot, identity |-> 0, time |-> u, seconds |-> u * k, received |-> tick]
  BY <1>1, <1>4 DEF KernelRate
<1>7. p \in CounterReadings
  BY <1>3, <1>5, <1>6 DEF CounterReadings
<1>8. Read(p) /\ p.seconds = p.time * KernelRate(p.boot)
  BY <1>3, <1>4, <1>6 DEF Read
<1>9. PICK s, r : s = kernel /\ r = kernel'
  OBVIOUS
<1>10. r \in Seq(CounterReadings) /\ (\A q \in Held(r) : q = p \/ q \in Held(s)) /\ OneCounter(r)
  <2>1. r = Push(s, p) /\ OneCounter(s) /\ s \in Seq(CounterReadings) /\ SeriesLen \in Nat \ {0}
    BY <1>2, <1>3, <1>9 DEF KernelOK
  <2> QED BY <1>7, <2>1, Pushed
<1>11. \A q : Read(q) => Read(q)'
  BY DEF KernelSample, Read
<1>12. GuestTypeOK'
  BY <1>9, <1>10 DEF KernelSample, GuestTypeOK
<1>13. KernelOK'
  <2>1. \A q \in Held(r) : Read(q) /\ q.seconds = q.time * KernelRate(q.boot)
    BY <1>8, <1>9, <1>10 DEF KernelOK
  <2> QED BY <1>9, <1>10, <1>11, <2>1 DEF KernelOK
<1>14. GroupsOK' /\ OwnersOK' /\ AskedNow'
  BY DEF KernelSample, GroupsOK, OwnersOK, AskedNow
<1>15. SeriesOK'
  BY <1>11 DEF KernelSample, SeriesOK
<1> QED BY <1>12, <1>13, <1>14, <1>15

\* Without them the series ends.
LEMMA KernelUnavailableInv == ASSUME GuestInv, KernelUnavailable PROVE GuestInv'
<1> USE DEF GuestInv
<1>1. kernel' \in Seq(CounterReadings) /\ Held(kernel') = {} /\ OneCounter(kernel')
  BY DEF KernelUnavailable, Held, OneCounter
<1>2. GuestTypeOK'
  BY <1>1 DEF KernelUnavailable, GuestTypeOK
<1>3. KernelOK'
  BY <1>1 DEF KernelOK
<1>4. \A q : Read(q) => Read(q)'
  BY DEF KernelUnavailable, Read
<1>5. GroupsOK' /\ OwnersOK' /\ AskedNow'
  BY DEF KernelUnavailable, GroupsOK, OwnersOK, AskedNow
<1>6. SeriesOK'
  BY <1>4 DEF KernelUnavailable, SeriesOK
<1> QED BY <1>2, <1>3, <1>5, <1>6

\* What a probe reads of a cgroup.
LEMMA CounterRead ==
    ASSUME GuestInv, NEW t \in Reported
    PROVE  LET p == Counter(t)
               group == cgroups[AliasOf[t]]
           IN  /\ p \in CounterReadings /\ p.boot = boot /\ p.received = tick /\ p.identity = group.identity
               /\ p.seconds = Rate[AliasOf[t]] * (p.received - group.since)
               /\ Read(p) /\ p.identity \in 1 .. created
<1> USE DEF GuestInv
<1>1. t \in Targets /\ AliasOf[t] \in Targets /\ Rate[AliasOf[t]] \in Nat /\ cgroups[AliasOf[t]].identity # 0
  BY GuestCpuAssumption DEF Reported
<1>2. PICK i, c, m : i = cgroups[AliasOf[t]].identity /\ c = cgroups[AliasOf[t]].since /\ m = Rate[AliasOf[t]]
  OBVIOUS
<1>3. i \in Nat /\ c \in Nat /\ i # 0 /\ i =< created /\ created \in Nat /\ m \in Nat
  BY <1>1, <1>2 DEF GuestTypeOK, GroupsOK
<1>4. boot \in 1 .. LastBoot /\ LastBoot \in Nat /\ tick \in Nat /\ Uptime \in Nat /\ tick = Uptime + bootedAt[boot]
  <2>1. boot \in 1 .. LastBoot /\ LastBoot \in Nat /\ tick \in Nat
    BY GuestCpuAssumption DEF GuestTypeOK
  <2>2. bootedAt[boot] \in Nat /\ bootedAt[boot] =< tick
    <3>1. boot \in 1 .. Len(bootedAt)
      BY <2>1 DEF GuestTypeOK
    <3> QED BY <3>1 DEF GuestTypeOK
  <2> QED BY <2>1, <2>2 DEF Uptime
<1>5. PICK z : z = m * (tick - c)
  OBVIOUS
<1>6. z \in Int
  BY <1>3, <1>4, <1>5
<1>7. PICK p : p = Counter(t)
  OBVIOUS
<1>8. p = [boot |-> boot, identity |-> i, time |-> Uptime, seconds |-> z, received |-> tick]
  BY <1>2, <1>5, <1>7 DEF Counter
<1>9. p \in CounterReadings
  BY <1>3, <1>4, <1>6, <1>8 DEF CounterReadings
<1>10. p.boot = boot /\ p.received = tick /\ p.identity = i /\ p.seconds = z /\ p.time = Uptime
  BY <1>8
<1>11. Read(p) /\ p.identity \in 1 .. created
  BY <1>3, <1>4, <1>10 DEF Read
<1> QED BY <1>2, <1>5, <1>7, <1>9, <1>10, <1>11

\* A container that is probed continues its series, or begins it.
LEMMA ProbedSeries ==
    ASSUME GuestInv, NEW t \in Reported, series'[t] = Push(series[t], Counter(t))
    PROVE  /\ series'[t] \in Seq(CounterReadings) /\ OneCounter(series'[t]) /\ Even(series'[t], Rate[AliasOf[t]])
           /\ \A q \in Held(series'[t]) : q = Counter(t) \/ q \in Held(series[t])
<1> USE DEF GuestInv
<1>1. t \in Targets /\ AliasOf[t] \in Targets
  BY GuestCpuAssumption DEF Reported
<1>2. PICK p, s, r, i, c, m, b, n :
         /\ p = Counter(t) /\ s = series[t] /\ r = series'[t] /\ m = Rate[AliasOf[t]]
         /\ i = cgroups[AliasOf[t]].identity /\ c = cgroups[AliasOf[t]].since /\ b = boot /\ n = bootedAt[boot]
  OBVIOUS
<1>3. /\ p \in CounterReadings /\ p.boot = b /\ p.identity = i /\ p.seconds = m * (p.received - c)
      /\ p.received = p.time + n
  BY <1>2, CounterRead DEF Read
<1>4. s \in Seq(CounterReadings) /\ OneCounter(s) /\ Even(s, m) /\ SeriesLen \in Nat \ {0}
  BY <1>1, <1>2, GuestCpuAssumption DEF GuestTypeOK, SeriesOK
<1>5. /\ r \in Seq(CounterReadings) /\ OneCounter(r)
      /\ \A q \in Held(r) : q = p \/ (s # <<>> /\ q \in Held(s) /\ Continues(s[Len(s)], p))
  <2>1. r = Push(s, p)
    BY <1>2
  <2> QED BY <1>3, <1>4, <2>1, Pushed
<1>6. m \in Nat /\ c \in Nat /\ n \in Nat
  <2>1. boot \in 1 .. Len(bootedAt)
    BY GuestCpuAssumption DEF GuestTypeOK
  <2>2. n \in Nat
    <3>1. bootedAt[boot] \in Nat
      BY <2>1 DEF GuestTypeOK
    <3> QED BY <1>2, <3>1
  <2>3. c \in Nat
    BY <1>1, <1>2 DEF GuestTypeOK
  <2>4. m \in Nat
    BY <1>1, <1>2, GuestCpuAssumption
  <2> QED BY <2>2, <2>3, <2>4
<1>7. ASSUME NEW q \in Held(r) 
      PROVE  (s # <<>> /\ Continues(s[Len(s)], p)) => q.seconds = m * (q.received - c) /\ q.received = q.time + n
  <2>1. CASE q = p
    BY <1>3, <2>1
  <2>2. CASE q # p
    <3>1. s # <<>> /\ q \in Held(s) /\ s[Len(s)] \in Held(s) /\ Continues(s[Len(s)], p)
      <4>1. s # <<>> /\ q \in Held(s) /\ Continues(s[Len(s)], p)
        BY <1>5, <2>2
      <4>2. Len(s) \in 1 .. Len(s)
        BY <1>4, <4>1
      <4> QED BY <4>1, <4>2 DEF Held
    <3>2. q.boot = b /\ q.identity = i
      BY <1>3, <1>4, <3>1 DEF OneCounter, Continues
    <3>3. q.seconds = m * (q.received - c) /\ q.received = q.time + n
      <4>1. q.seconds = Rate[AliasOf[t]] * (q.received - cgroups[AliasOf[t]].since) /\ Read(q)
        BY <1>1, <1>2, <3>1, <3>2 DEF SeriesOK
      <4>2. q.received = q.time + bootedAt[q.boot]
        BY <4>1 DEF Read
      <4> QED BY <1>2, <3>2, <4>1, <4>2
    <3> QED BY <3>3
  <2> QED BY <2>1, <2>2
<1>8. ASSUME NEW q \in Held(r), NEW w \in Held(r) PROVE q.seconds - w.seconds = m * (q.time - w.time)
  <2>1. /\ q.time \in Nat /\ q.seconds \in Int /\ q.received \in Nat
        /\ w.time \in Nat /\ w.seconds \in Int /\ w.received \in Nat
    BY <1>5, HeldTyped
  <2>2. CASE s # <<>> /\ Continues(s[Len(s)], p)
    <3>1. /\ q.seconds = m * (q.received - c) /\ q.received = q.time + n
          /\ w.seconds = m * (w.received - c) /\ w.received = w.time + n
      BY <1>7, <2>2
    <3>2. PICK x, y : x = q.received /\ y = w.received
      OBVIOUS
    <3>3. x \in Nat /\ y \in Nat /\ q.time - w.time = x - y
      <4>1. PICK f, g : f = q.time /\ g = w.time
        OBVIOUS
      <4>2. x = f + n /\ y = g + n /\ f \in Nat /\ g \in Nat /\ x \in Nat /\ y \in Nat
        BY <2>1, <3>1, <3>2, <4>1
      <4>3. f - g = x - y
        BY <1>6, <4>2
      <4> QED BY <4>1, <4>2, <4>3
    <3>4. m * (x - c) - m * (y - c) = m * (x - y)
      BY <1>6, <3>3
    <3> QED BY <3>1, <3>2, <3>3, <3>4
  <2>3. CASE ~(s # <<>> /\ Continues(s[Len(s)], p))
    <3>1. q = p /\ w = p
      BY <1>5, <2>3
    <3>2. PICK x, y : x = q.time /\ y = q.seconds
      OBVIOUS
    <3>3. y - y = m * (x - x)
      BY <1>6, <2>1, <3>2
    <3> QED BY <3>1, <3>2, <3>3
  <2> QED BY <2>2, <2>3
<1>9. Even(r, m)
  BY <1>8 DEF Even
<1> QED BY <1>2, <1>5, <1>9

\* A round of probes keeps what the series are.
LEMMA ProbesInv ==
    ASSUME GuestInv, NEW environment, NEW failed, ContainerProbes(environment, failed)
    PROVE  GuestInv'
<1> USE DEF GuestInv
<1>1. ASSUME NEW t \in Targets
      PROVE  /\ series'[t] \in Seq(CounterReadings) /\ OneCounter(series'[t]) /\ Even(series'[t], Rate[AliasOf[t]])
             /\ \A q \in Held(series'[t]) : (t \in Reported /\ q = Counter(t)) \/ q \in Held(series[t])
  <2>1. CASE t[1] # environment
    <3>1. series'[t] = series[t]
      BY <2>1 DEF ContainerProbes
    <3> QED BY <3>1 DEF GuestTypeOK, SeriesOK
  <2>2. CASE t[1] = environment /\ t \in Reported \ failed
    <3>1. series'[t] = Push(series[t], Counter(t)) /\ t \in Reported
      BY <2>2 DEF ContainerProbes
    <3> QED BY <3>1, ProbedSeries
  <2>3. CASE t[1] = environment /\ t \notin Reported \ failed
    <3>1. series'[t] = <<>>
      BY <2>3 DEF ContainerProbes
    <3> QED BY <3>1 DEF Held, OneCounter, Even
  <2> QED BY <2>1, <2>2, <2>3
<1>2. GuestTypeOK'
  <2>1. DOMAIN series' = Targets /\ series' = [t \in Targets |-> series'[t]]
    BY DEF ContainerProbes
  <2>2. series' \in [Targets -> Seq(CounterReadings)]
    BY <1>1, <2>1
  <2> QED BY <2>2 DEF ContainerProbes, GuestTypeOK
<1>3. GroupsOK' /\ AskedNow'
  BY DEF ContainerProbes, GroupsOK, AskedNow
<1>4. \A q : Read(q)' <=> Read(q)
  BY DEF ContainerProbes, Read
<1>5. KernelOK'
  BY <1>4 DEF ContainerProbes, KernelOK
<1>6. ASSUME NEW t \in Reported
      PROVE  /\ t \in Targets /\ AliasOf[t] \in Targets /\ cgroups[AliasOf[t]].identity # 0
             /\ Counter(t).identity = cgroups[AliasOf[t]].identity
             /\ Counter(t).received = tick
  BY CounterRead, GuestCpuAssumption DEF Reported
<1>7. SeriesOK'
  <2> SUFFICES ASSUME NEW t \in Targets, NEW p \in Held(series'[t])
               PROVE  /\ Read(p) /\ p.identity \in 1 .. created
                      /\ cgroups[AliasOf[t]].identity = 0 \/ p.identity =< cgroups[AliasOf[t]].identity
                      /\ p.boot = boot /\ p.identity = cgroups[AliasOf[t]].identity
                         => p.seconds = Rate[AliasOf[t]] * (p.received - cgroups[AliasOf[t]].since)
                      /\ \A g \in Targets : p.identity = cgroups[g].identity => AliasOf[t] = g
    <3>1. boot' = boot /\ cgroups' = cgroups /\ created' = created
      BY DEF ContainerProbes
    <3> QED BY <1>1, <1>4, <3>1 DEF SeriesOK
  <2>1. CASE p \in Held(series[t])
    BY <2>1 DEF SeriesOK
  <2>2. CASE t \in Reported /\ p = Counter(t)
    <3>1. Read(p) /\ p.identity \in 1 .. created /\ p.seconds = Rate[AliasOf[t]] * (p.received - cgroups[AliasOf[t]].since)
      BY <2>2, CounterRead
    <3>2. p.identity = cgroups[AliasOf[t]].identity /\ p.identity # 0
      BY <1>6, <2>2
    <3>3. p.identity =< cgroups[AliasOf[t]].identity
      BY <3>1, <3>2
    <3>4. \A g \in Targets : p.identity = cgroups[g].identity => AliasOf[t] = g
      <4>1. AliasOf[t] \in Targets /\ cgroups[AliasOf[t]].identity # 0
        BY <1>6, <2>2
      <4> QED BY <3>2, <4>1 DEF GroupsOK
    <3> QED BY <3>1, <3>3, <3>4
  <2> QED BY <1>1, <2>1, <2>2
<1>8. OwnersOK'
  <2> SUFFICES ASSUME NEW t \in Targets, NEW u \in Targets, NEW p \in Held(series'[t]), NEW q \in Held(series'[u])
               PROVE  /\ p.identity = q.identity => AliasOf[t] = AliasOf[u]
                      /\ AliasOf[t] = AliasOf[u] /\ p.identity < q.identity => p.received =< q.received
    BY DEF OwnersOK
  <2>1. CASE p \in Held(series[t]) /\ q \in Held(series[u])
    BY <2>1 DEF OwnersOK
  <2>2. CASE p \in Held(series[t]) /\ u \in Reported /\ q = Counter(u)
    <3>1. p.received =< tick
      BY <2>2 DEF SeriesOK, Read
    <3>2. q.received = tick /\ q.identity = cgroups[AliasOf[u]].identity /\ AliasOf[u] \in Targets
      BY <1>6, <2>2
    <3>3. p.identity = q.identity => AliasOf[t] = AliasOf[u]
      BY <2>2, <3>2 DEF SeriesOK
    <3> QED BY <3>1, <3>2, <3>3
  <2>3. CASE t \in Reported /\ p = Counter(t) /\ q \in Held(series[u])
    <3>1. p.identity = cgroups[AliasOf[t]].identity /\ AliasOf[t] \in Targets /\ p.identity # 0
      BY <1>6, <2>3
    <3>5. \A g \in Targets : q.identity = cgroups[g].identity => AliasOf[u] = g
      BY <2>3 DEF SeriesOK
    <3>2. p.identity = q.identity => AliasOf[t] = AliasOf[u]
      BY <3>1, <3>5
    <3>3. AliasOf[t] = AliasOf[u] => q.identity =< p.identity
      BY <2>3, <3>1 DEF SeriesOK
    <3>4. p.identity \in Nat /\ q.identity \in Nat
      BY <1>1, HeldTyped
    <3> QED BY <3>2, <3>3, <3>4
  <2>4. CASE t \in Reported /\ p = Counter(t) /\ u \in Reported /\ q = Counter(u)
    <3>1. /\ p.identity = cgroups[AliasOf[t]].identity /\ AliasOf[t] \in Targets /\ p.identity # 0
          /\ q.identity = cgroups[AliasOf[u]].identity /\ AliasOf[u] \in Targets
      BY <1>6, <2>4
    <3>2. p.identity = q.identity => AliasOf[t] = AliasOf[u]
      BY <3>1 DEF GroupsOK
    <3>3. p.identity \in Nat /\ q.identity \in Nat
      BY <1>1, HeldTyped
    <3> QED BY <3>1, <3>2, <3>3
  <2> QED BY <1>1, <2>1, <2>2, <2>3, <2>4
<1> QED BY <1>2, <1>3, <1>5, <1>7, <1>8

\* Every step keeps the invariant.
LEMMA GuestStepInv == GuestInv /\ [GuestCpuNext]_guestCpuVars => GuestInv'
<1> SUFFICES ASSUME GuestInv, [GuestCpuNext]_guestCpuVars PROVE GuestInv'
  OBVIOUS
<1>1. CASE GuestTick
  BY <1>1, TickInv
<1>2. CASE GuestReboots
  BY <1>2, RebootInv
<1>3. CASE \E t \in Targets : ContainerStarts(t)
  BY <1>3, StartInv
<1>4. CASE KernelSample
  BY <1>4, KernelSampleInv
<1>5. CASE KernelUnavailable
  BY <1>5, KernelUnavailableInv
<1>6. CASE \E failed \in SUBSET Targets : \E environment \in {2, 3} : ContainerProbes(environment, failed)
  BY <1>6, ProbesInv
<1>7. CASE Ask
  BY <1>7, AskInv DEF Ask
<1>8. CASE UNCHANGED guestCpuVars
  BY <1>8, AskInv DEF guestCpuVars
<1> QED BY <1>1, <1>2, <1>3, <1>4, <1>5, <1>6, <1>7, <1>8 DEF GuestCpuNext

-----------------------------------------------------------------------------

\* Each identity has a target that is its source.
LEMMA SourceOf ==
    ASSUME GuestInv, NEW R \in SUBSET Targets, NEW t \in R
    PROVE  \E x \in Sources(R) : LastOf(series[x]).identity = LastOf(series[t]).identity
<1>1. PICK same : same = {u \in R : LastOf(series[u]).identity = LastOf(series[t]).identity}
  OBVIOUS
<1>2. same # {} /\ same \subseteq {2, 3} \X Nat
  BY <1>1, GuestCpuAssumption
<1>3. PICK e \in {2, 3} : (\E u \in same : u[1] = e) /\ \A u \in same : u[1] =< e
  <2>1. \A u \in same : u[1] \in {2, 3}
    BY <1>2
  <2>2. CASE \E u \in same : u[1] = 3
    BY <2>1, <2>2
  <2>3. CASE ~\E u \in same : u[1] = 3
    BY <1>2, <2>1, <2>3
  <2> QED BY <2>2, <2>3
<1>4. PICK ids : ids = {n \in Nat : \E u \in same : u[1] = e /\ u[2] = n}
  OBVIOUS
<1>5. PICK n \in ids : \A m \in ids : n =< m
  <2>1. ids \subseteq Nat /\ ids # {}
    BY <1>2, <1>3, <1>4
  <2> QED BY <2>1, LeastNatural
<1>6. PICK x \in same : x[1] = e /\ x[2] = n
  BY <1>4, <1>5
<1>7. ASSUME NEW u \in same PROVE ~SortsFirst(u, x)
  <2>1. u[1] =< e /\ u[1] \in {2, 3} /\ u[2] \in Nat /\ n \in Nat
    BY <1>2, <1>3, <1>4, <1>5
  <2>2. u[1] = e => n =< u[2]
    BY <1>4, <1>5, <2>1
  <2> QED BY <1>6, <2>1, <2>2 DEF SortsFirst
<1>8. x \in Sources(R)
  BY <1>1, <1>6, <1>7 DEF Sources
<1> QED BY <1>1, <1>6, <1>8

\* When an answer is given: the conditions under which it is.
Answers(R, end) ==
    LET all == {kernel} \cup {series[t] : t \in Sources(R)}
    IN  /\ R # {} /\ kernel # <<>> /\ \A t \in R : Usable(t)
        /\ tick - LastOf(kernel).received =< MaxAge
        /\ end \in {LastOf(s).time : s \in all}
        /\ \A s \in all : /\ end =< LastOf(s).time
                          /\ Spans(s, end - Window) # {} /\ Spans(s, end) # {}

\* An answer is given under these conditions, and is the difference of its counters.
LEMMA AnswersWhen ==
    ASSUME GuestInv, NEW R \in SUBSET Targets, Exclusive(R, 1).ok
    PROVE  \E end \in Nat :
             /\ Answers(R, end)
             /\ Exclusive(R, 1) = [ok |-> TRUE, end |-> end,
                                   wslc |-> CpuIn(2, Sources(R), end), docker |-> CpuIn(3, Sources(R), end),
                                   wsl |-> Delta(kernel, end) - CpuIn(2, Sources(R), end) - CpuIn(3, Sources(R), end)]
<1>1. PICK all : all = {kernel} \cup {series[t] : t \in Sources(R)}
  OBVIOUS
<1>2. PICK times : times = {LastOf(s).time : s \in all}
  OBVIOUS
<1>3. PICK end : end = Min(times)
  OBVIOUS
<1>4. ~Refused.ok
  BY DEF Refused
<1>5. R # {} /\ kernel # <<>>
  BY <1>4 DEF Exclusive
<1>6. (\A t \in R : Usable(t)) /\ ~(tick - LastOf(kernel).received > MaxAge)
  BY <1>4, <1>5 DEF Exclusive
<1>7. ~(\E s \in all : Spans(s, end - Window) = {} \/ Spans(s, end) = {})
  BY <1>1, <1>2, <1>3, <1>4, <1>5, <1>6 DEF Exclusive
<1>8. Exclusive(R, 1) = [ok |-> TRUE, end |-> end,
                         wslc |-> CpuIn(2, Sources(R), end), docker |-> CpuIn(3, Sources(R), end),
                         wsl |-> Delta(kernel, end) - CpuIn(2, Sources(R), end) - CpuIn(3, Sources(R), end)]
  BY <1>1, <1>2, <1>3, <1>4, <1>5, <1>6, <1>7 DEF Exclusive
<1>9. \A s \in all : s \in Seq(CounterReadings) /\ s # <<>>
  BY <1>1, <1>5, <1>6 DEF Usable, Sources, GuestInv, GuestTypeOK
<1>10. \A s \in all : LastOf(s) \in Held(s) /\ LastOf(s).time \in Nat
  <2> TAKE s \in all
  <2>1. Len(s) \in 1 .. Len(s)
    BY <1>9
  <2>2. LastOf(s) \in Held(s)
    BY <2>1 DEF LastOf, Held
  <2> QED BY <1>9, <2>2, HeldTyped
<1>11. end \in times /\ end \in Nat /\ \A x \in times : end =< x
  <2>1. times \subseteq Nat /\ times # {}
    <3>1. times \subseteq Nat
      BY <1>2, <1>10
    <3>2. LastOf(kernel).time \in times
      BY <1>1, <1>2
    <3> QED BY <3>1, <3>2
  <2>2. PICK x \in times : \A y \in times : x =< y
    BY <2>1, LeastNatural
  <2> QED BY <1>3, <2>1, <2>2 DEF Min
<1>12. tick - LastOf(kernel).received =< MaxAge
  <2>1. kernel \in all
    BY <1>1
  <2>2. LastOf(kernel).received \in Nat /\ tick \in Nat /\ MaxAge \in Nat
    <3>1. LastOf(kernel).received \in Nat
      BY <1>9, <1>10, <2>1, HeldTyped
    <3> QED BY <3>1, GuestCpuAssumption DEF GuestInv, GuestTypeOK, MaxAge
  <2> QED BY <1>6, <2>2
<1>13. Answers(R, end)
  BY <1>1, <1>2, <1>5, <1>6, <1>7, <1>11, <1>12 DEF Answers
<1> QED BY <1>8, <1>11, <1>13

\* What a container uses in the window.
Used(t) == Window * Rate[AliasOf[t]]

\* What every series that enters an answer is.
LEMMA SourceSeries ==
    ASSUME GuestInv, NEW R \in SUBSET Targets, NEW end \in Nat, Answers(R, end),
           NEW t \in Sources(R)
    PROVE  /\ t \in R /\ t \in Targets
           /\ series[t] \in Seq(CounterReadings) /\ series[t] # <<>> /\ LastOf(series[t]) \in Held(series[t])
           /\ LastOf(series[t]).boot = LastOf(kernel).boot
           /\ Delta(series[t], end) = Used(t)
           /\ series[t][1] \in Held(series[t]) /\ series[t][1].time =< end - Window
           /\ end =< LastOf(series[t]).time
<1> USE DEF GuestInv
<1>9. Window \in Nat \ {0} /\ \A u \in Targets : Rate[AliasOf[u]] \in Int
  BY GuestCpuAssumption
<1>1. t \in R /\ t \in Targets
  BY DEF Sources
<1>2. PICK s, m : s = series[t] /\ m = Rate[AliasOf[t]]
  OBVIOUS
<1>3. s \in Seq(CounterReadings) /\ OneCounter(s) /\ Even(s, m) /\ m \in Int
  BY <1>9, <1>1, <1>2 DEF GuestTypeOK, SeriesOK
<1>4. end =< LastOf(s).time /\ Spans(s, end - Window) # {} /\ Spans(s, end) # {}
  BY <1>2 DEF Answers
<1>5. Delta(s, end) = Window * m /\ s[1].time =< end - Window /\ Len(s) >= 2
  BY <1>9, <1>3, <1>4, DeltaEven
<1>6. 1 \in 1 .. Len(s) /\ Len(s) \in 1 .. Len(s) /\ s # <<>>
  BY <1>3, <1>5
<1>7. s[1] \in Held(s) /\ LastOf(s) \in Held(s)
  BY <1>6 DEF Held, LastOf
<1>8. LastOf(s).boot = LastOf(kernel).boot
  BY <1>1, <1>2 DEF Answers, Usable
<1> QED BY <1>1, <1>2, <1>3, <1>4, <1>5, <1>6, <1>7, <1>8 DEF Used

\* And the kernel's.
LEMMA KernelSeries ==
    ASSUME GuestInv, NEW R, NEW end \in Nat, Answers(R, end)
    PROVE  /\ LastOf(kernel) \in Held(kernel)
           /\ Delta(kernel, end) = Window * KernelRate(LastOf(kernel).boot)
<1> USE DEF GuestInv
<1>1. Window \in Nat \ {0}
  BY GuestCpuAssumption
<1>3. kernel \in Seq(CounterReadings) /\ OneCounter(kernel) /\ kernel # <<>>
  BY DEF GuestTypeOK, KernelOK, Answers
<1>4. LastOf(kernel) \in Held(kernel)
  <2>1. Len(kernel) \in 1 .. Len(kernel)
    BY <1>3
  <2> QED BY <2>1 DEF Held, LastOf
<1>5. PICK s, m : s = kernel /\ m = KernelRate(LastOf(kernel).boot)
  OBVIOUS
<1>6. m \in Int
  <2>1. LastOf(kernel).boot \in 1 .. boot
    BY <1>4 DEF KernelOK, Read
  <2>2. LastOf(kernel).boot \in 1 .. LastBoot
    BY <2>1, GuestCpuAssumption DEF GuestTypeOK
  <2> QED BY <1>5, <2>2, RateTyped
<1>7. Even(s, m)
  <2> SUFFICES ASSUME NEW p \in Held(s), NEW q \in Held(s) PROVE p.seconds - q.seconds = m * (p.time - q.time)
    BY DEF Even
  <2>1. p.seconds = p.time * m /\ q.seconds = q.time * m
    BY <1>3, <1>4, <1>5 DEF KernelOK, OneCounter
  <2>2. PICK x, y : x = p.time /\ y = q.time
    OBVIOUS
  <2>3. x \in Nat /\ y \in Nat
    BY <1>3, <1>5, <2>2, HeldTyped
  <2>4. x * m - y * m = m * (x - y)
    BY <1>6, <2>3
  <2> QED BY <2>1, <2>2, <2>4
<1>8. Delta(s, end) = Window * m
  <2>1. Spans(s, end - Window) # {} /\ Spans(s, end) # {}
    BY <1>5 DEF Answers
  <2> QED BY <1>1, <1>3, <1>5, <1>6, <1>7, <2>1, DeltaEven
<1> QED BY <1>4, <1>5, <1>8

\* Sources of one cgroup have one identity: a series of an older one has ended
\* before the window in which the newer one is measured.
LEMMA SourcesDiffer ==
    ASSUME GuestInv, NEW R \in SUBSET Targets, NEW end \in Nat, Answers(R, end),
           NEW t \in Sources(R), NEW u \in Sources(R), AliasOf[t] = AliasOf[u]
    PROVE  ~(LastOf(series[t]).identity < LastOf(series[u]).identity)
<1> SUFFICES ASSUME LastOf(series[t]).identity < LastOf(series[u]).identity PROVE FALSE
  OBVIOUS
<1>1. PICK p, q : p = LastOf(series[t]) /\ q = series[u][1]
  OBVIOUS
<1>2. /\ t \in Targets /\ u \in Targets /\ p \in Held(series[t]) /\ q \in Held(series[u])
      /\ end =< p.time /\ q.time =< end - Window /\ p.boot = LastOf(series[u]).boot
      /\ series[t] \in Seq(CounterReadings) /\ series[u] \in Seq(CounterReadings) /\ LastOf(series[u]) \in Held(series[u])
  BY <1>1, SourceSeries
<1>3. q.identity = LastOf(series[u]).identity /\ q.boot = p.boot
  BY <1>2 DEF GuestInv, SeriesOK, OneCounter
<1>4. p.received =< q.received
  BY <1>1, <1>2, <1>3 DEF GuestInv, OwnersOK
<1>5. p.received = p.time + bootedAt[p.boot] /\ q.received = q.time + bootedAt[p.boot] /\ p.boot \in 1 .. boot
  BY <1>2, <1>3 DEF GuestInv, SeriesOK, Read
<1>6. PICK b : b = bootedAt[p.boot]
  OBVIOUS
<1>7. b \in Nat
  <2>1. p.boot \in 1 .. Len(bootedAt)
    BY <1>5 DEF GuestInv, GuestTypeOK
  <2>3. bootedAt \in Seq(Nat)
    BY DEF GuestInv, GuestTypeOK
  <2>2. bootedAt[p.boot] \in Nat
    BY <2>1, <2>3, ElementOfSeq
  <2> QED BY <1>6, <2>2
<1>8. p.time \in Nat /\ q.time \in Nat
  BY <1>2, HeldTyped
<1>9. Window \in Nat \ {0}
  BY GuestCpuAssumption
<1> QED
  <2>1. p.time + b =< q.time + b
    BY <1>4, <1>5, <1>6
  <2>2. p.time =< q.time
    BY <1>7, <1>8, <2>1
  <2> QED BY <1>2, <1>8, <1>9, <2>2

\* The sources are the owners of the cgroups of the targets.
LEMMA SourcesOwn ==
    ASSUME GuestInv, NEW end \in Nat, Answers(Reported, end)
    PROVE  Sources(Reported) = {AliasOf[u] : u \in Reported}
<1>1. PICK R, S : R = Reported /\ S = Sources(R)
  OBVIOUS
<1>2. R \in SUBSET Targets /\ S \in SUBSET R
  BY <1>1 DEF Reported, Sources
<1>3. \A t \in R : AliasOf[t] \in R /\ AliasOf[AliasOf[t]] = AliasOf[t]
  BY <1>1, GuestCpuAssumption DEF Reported
<1>4. ASSUME NEW t \in S, NEW u \in S, AliasOf[t] = AliasOf[u]
      PROVE  LastOf(series[t]).identity = LastOf(series[u]).identity
  <2>1. ~(LastOf(series[t]).identity < LastOf(series[u]).identity)
    BY <1>1, <1>2, <1>4, SourcesDiffer
  <2>2. ~(LastOf(series[u]).identity < LastOf(series[t]).identity)
    BY <1>1, <1>2, <1>4, SourcesDiffer
  <2>3. LastOf(series[t]).identity \in Nat /\ LastOf(series[u]).identity \in Nat
    <3>1. ASSUME NEW x \in S PROVE LastOf(series[x]).identity \in Nat
      <4>1. series[x] \in Seq(CounterReadings) /\ LastOf(series[x]) \in Held(series[x])
        BY <1>1, <1>2, SourceSeries
      <4> QED BY <4>1, HeldTyped
    <3> QED BY <3>1
  <2> QED BY <2>1, <2>2, <2>3
<1>5. ASSUME NEW t \in R PROVE \E x \in S : LastOf(series[x]).identity = LastOf(series[t]).identity /\ AliasOf[x] = AliasOf[t]
  <2>1. PICK x \in S : LastOf(series[x]).identity = LastOf(series[t]).identity
    BY <1>1, <1>2, SourceOf
  <2>2. LastOf(series[x]) \in Held(series[x])
    BY <1>1, <1>2, SourceSeries
  <2>3. LastOf(series[t]) \in Held(series[t])
    <3>1. series[t] # <<>> /\ series[t] \in Seq(CounterReadings)
      BY <1>1, <1>2 DEF Answers, Usable, GuestInv, GuestTypeOK
    <3>2. Len(series[t]) \in 1 .. Len(series[t])
      BY <3>1
    <3> QED BY <3>2 DEF Held, LastOf
  <2>4. AliasOf[x] = AliasOf[t]
    BY <1>2, <2>1, <2>2, <2>3 DEF GuestInv, OwnersOK
  <2> QED BY <2>1, <2>4
<1>6. ASSUME NEW t \in S PROVE AliasOf[t] = t
  <2>1. PICK g \in R : g = AliasOf[t] /\ AliasOf[g] = g
    BY <1>2, <1>3
  <2>2. PICK x \in S : LastOf(series[x]).identity = LastOf(series[g]).identity /\ AliasOf[x] = AliasOf[g]
    BY <1>5
  <2>3. LastOf(series[t]).identity = LastOf(series[g]).identity
    BY <1>4, <2>1, <2>2
  <2>4. ~SortsFirst(g, t)
    BY <1>1, <2>1, <2>3 DEF Sources
  <2> QED BY <1>2, <2>1, <2>4, GuestCpuAssumption
<1>7. ASSUME NEW u \in R PROVE AliasOf[u] \in S
  <2>1. PICK g \in R : g = AliasOf[u] /\ AliasOf[g] = g
    BY <1>3
  <2>2. PICK x \in S : AliasOf[x] = AliasOf[g]
    BY <1>5
  <2>3. x = g
    BY <1>6, <2>1, <2>2
  <2> QED BY <2>1, <2>3
<1>8. S = {AliasOf[u] : u \in R}
  <2>1. \A t \in S : t \in {AliasOf[u] : u \in R}
    BY <1>2, <1>6
  <2> QED BY <1>7, <2>1
<1> QED BY <1>1, <1>8

\* The cgroups of an environment that are reported.
GroupsIn(environment) == {t \in {AliasOf[u] : u \in Reported} : t[1] = environment}

\* An environment has what its cgroups use in the window.
LEMMA EnvironmentCpu ==
    ASSUME GuestInv, NEW end \in Nat, Answers(Reported, end), NEW environment
    PROVE  /\ CpuIn(environment, Sources(Reported), end) = InWindow(GroupsIn(environment))
           /\ GroupsIn(environment) \subseteq AllGroups
<1>1. PICK S, R, groups : R = Reported /\ S = Sources(R) /\ groups = {t \in S : t[1] = environment}
  OBVIOUS
<1>2. S = {AliasOf[u] : u \in Reported} /\ Reported \in SUBSET Targets /\ S \in SUBSET Targets
  <2>1. S = {AliasOf[u] : u \in Reported}
    BY <1>1, SourcesOwn
  <2>2. Reported \in SUBSET Targets
    BY DEF Reported
  <2> QED BY <2>1, <2>2, GuestCpuAssumption
<1>3. groups \subseteq S /\ groups \subseteq AllGroups /\ IsFiniteSet(groups)
  <2>1. groups \subseteq S /\ groups \subseteq AllGroups
    BY <1>1, <1>2 DEF AllGroups
  <2>2. groups \subseteq Targets
    BY <1>2, <2>1
  <2> QED BY <2>1, <2>2, FS_Subset, GuestCpuAssumption
<1>4. \A t \in S : AliasOf[t] = t
  BY <1>2, GuestCpuAssumption
<1>9. \A x \in S : Delta(series[x], end) = Used(x)
  <2>1. R \in SUBSET Targets /\ Answers(R, end)
    BY <1>1, <1>2
  <2> TAKE x \in S
  <2>2. x \in Sources(R)
    BY <1>1
  <2> QED BY <2>1, <2>2, SourceSeries
<1>5. PICK f : f = [t \in S |-> Delta(series[t], end)]
  OBVIOUS
<1>6. \A t \in groups : Rate[t] \in Int /\ f[t] = Window * Rate[t]
  <2> TAKE t \in groups
  <2>1. t \in S /\ t \in Targets
    BY <1>2, <1>3
  <2>2. Delta(series[t], end) = Window * Rate[AliasOf[t]]
    BY <1>9, <2>1 DEF Used
  <2> QED BY <1>4, <1>5, <2>1, <2>2, GuestCpuAssumption
<1>7. SumFunctionOnSet(f, groups) = Window * SumFunctionOnSet(Rate, groups)
  <2>1. Window \in Int
    BY GuestCpuAssumption
  <2>2. PICK k, g : k = Window /\ g = Rate
    OBVIOUS
  <2>3. k \in Int /\ \A t \in groups : g[t] \in Int /\ f[t] = k * g[t]
    BY <1>6, <2>1, <2>2
  <2>4. SumFunctionOnSet(f, groups) = k * SumFunctionOnSet(g, groups)
    BY <1>3, <2>3, SumScaled
  <2> QED BY <2>2, <2>4
<1>8. CpuIn(environment, S, end) = SumFunctionOnSet(f, groups)
  BY <1>1, <1>5 DEF CpuIn
<1>10. groups = GroupsIn(environment)
  BY <1>1, <1>2 DEF GroupsIn
<1> QED BY <1>1, <1>3, <1>7, <1>8, <1>10 DEF InWindow

\* So an answer is what was used.
LEMMA AnswerExact ==
    ASSUME GuestInv PROVE ExclusiveExact
<1> SUFFICES ASSUME asked.ok PROVE ExclusiveExact
  BY DEF ExclusiveExact
<1>1. asked = [answer |-> Exclusive(Reported, 1), ok |-> Exclusive(Reported, 1).ok, about |-> Reported]
  BY DEF GuestInv, AskedNow, NotAsked
<1>2. PICK R : R = Reported
  OBVIOUS
<1>3. R \in SUBSET Targets /\ Exclusive(R, 1).ok /\ asked.answer = Exclusive(R, 1) /\ asked.about = Reported
  BY <1>1, <1>2 DEF Reported
<1>4. PICK end \in Nat :
        /\ Answers(R, end)
        /\ asked.answer = [ok |-> TRUE, end |-> end,
                           wslc |-> CpuIn(2, Sources(R), end), docker |-> CpuIn(3, Sources(R), end),
                           wsl |-> Delta(kernel, end) - CpuIn(2, Sources(R), end) - CpuIn(3, Sources(R), end)]
  BY <1>3, AnswersWhen
<1>5. PICK G2, G3 : G2 = Groups(2) /\ G3 = Groups(3)
  OBVIOUS
<1>6. /\ CpuIn(2, Sources(R), end) = InWindow(G2) /\ G2 \subseteq AllGroups
      /\ CpuIn(3, Sources(R), end) = InWindow(G3) /\ G3 \subseteq AllGroups
  <2>1. Answers(Reported, end)
    BY <1>2, <1>4
  <2>2. G2 = GroupsIn(2) /\ G3 = GroupsIn(3)
    BY <1>3, <1>5 DEF Groups, GroupsIn
  <2>3. CpuIn(2, Sources(R), end) = InWindow(G2) /\ G2 \subseteq AllGroups
    BY <1>2, <2>1, <2>2, EnvironmentCpu
  <2>4. CpuIn(3, Sources(R), end) = InWindow(G3) /\ G3 \subseteq AllGroups
    BY <1>2, <2>1, <2>2, EnvironmentCpu
  <2> QED BY <2>3, <2>4
<1>7. G2 \cap G3 = {}
  BY <1>5 DEF Groups
<1>8. PICK s2, s3, rest, both, outside, w :
        /\ s2 = SumFunctionOnSet(Rate, G2) /\ s3 = SumFunctionOnSet(Rate, G3)
        /\ both = SumFunctionOnSet(Rate, G2 \cup G3) /\ rest = SumFunctionOnSet(Rate, AllGroups \ (G2 \cup G3))
        /\ outside = Outside[LastOf(kernel).boot] /\ w = Window
  OBVIOUS
<1>9. \A G \in SUBSET AllGroups : IsFiniteSet(G) /\ (\A t \in G : Rate[t] \in Int) /\ SumFunctionOnSet(Rate, G) \in Int
  <2> TAKE G \in SUBSET AllGroups
  <2>1. IsFiniteSet(G) /\ \A t \in G : Rate[t] \in Int
    BY RateTyped, FS_Subset, GuestCpuAssumption
  <2> QED BY <2>1, SumTerm
<1>10. both = s2 + s3
  <2>1. G2 \cup G3 \in SUBSET AllGroups /\ G2 \in SUBSET (G2 \cup G3) /\ (G2 \cup G3) \ G2 = G3
    BY <1>6, <1>7
  <2>2. SumFunctionOnSet(Rate, G2 \cup G3) = SumFunctionOnSet(Rate, G2) + SumFunctionOnSet(Rate, (G2 \cup G3) \ G2)
    BY <1>9, <2>1, SumSplit
  <2> QED BY <1>8, <2>1, <2>2
<1>11. SumFunctionOnSet(Rate, AllGroups) = both + rest
  <2>1. G2 \cup G3 \in SUBSET AllGroups
    BY <1>6
  <2>2. IsFiniteSet(AllGroups) /\ \A t \in AllGroups : Rate[t] \in Int
    BY <1>9
  <2> QED BY <1>8, <2>1, <2>2, SumSplit
<1>12. s2 \in Int /\ s3 \in Int /\ rest \in Int /\ w \in Int
  <2>1. G2 \in SUBSET AllGroups /\ G3 \in SUBSET AllGroups /\ AllGroups \ (G2 \cup G3) \in SUBSET AllGroups
    BY <1>6
  <2>2. Window \in Int
    BY GuestCpuAssumption
  <2> QED BY <1>8, <1>9, <2>1, <2>2
<1>13. outside \in Int
  <2>1. LastOf(kernel) \in Held(kernel)
    BY <1>3, <1>4, KernelSeries
  <2>2. LastOf(kernel).boot \in 1 .. boot
    BY <2>1 DEF GuestInv, KernelOK, Read
  <2>3. LastOf(kernel).boot \in 1 .. LastBoot
    BY <2>2, GuestCpuAssumption DEF GuestInv, GuestTypeOK
  <2> QED BY <1>8, <2>3, GuestCpuAssumption
<1>14. Delta(kernel, end) = w * (outside + (s2 + s3 + rest))
  <2>1. Delta(kernel, end) = Window * KernelRate(LastOf(kernel).boot)
    BY <1>3, <1>4, KernelSeries
  <2>2. KernelRate(LastOf(kernel).boot) = outside + (s2 + s3 + rest)
    BY <1>8, <1>10, <1>11 DEF KernelRate
  <2> QED BY <1>8, <2>1, <2>2
<1>15. asked.answer.wslc = w * s2 /\ asked.answer.docker = w * s3 /\ asked.answer.wsl = Delta(kernel, end) - w * s2 - w * s3
  BY <1>4, <1>6, <1>8 DEF InWindow
<1>16. asked.answer.wsl = w * outside + w * rest
  <2>1. w * (outside + (s2 + s3 + rest)) - w * s2 - w * s3 = w * outside + w * rest
    BY <1>12, <1>13
  <2> QED BY <1>14, <1>15, <2>1
<1>17. asked.answer.end + bootedAt[LastOf(kernel).boot] >= tick - MaxAge
  <2>1. PICK p : /\ p.time = end /\ p.boot = LastOf(kernel).boot /\ tick - p.received =< MaxAge
                 /\ p.received = p.time + bootedAt[p.boot] /\ p.boot \in 1 .. boot
    <3>1. CASE end = LastOf(kernel).time
      <4>1. LastOf(kernel) \in Held(kernel)
        BY <1>3, <1>4, KernelSeries
      <4> QED BY <1>4, <3>1, <4>1 DEF Answers, GuestInv, KernelOK, Read
    <3>2. CASE end # LastOf(kernel).time
      <4>1. PICK t \in Sources(R) : end = LastOf(series[t]).time
        BY <1>4, <3>2 DEF Answers
      <4>2. t \in R /\ t \in Targets /\ LastOf(series[t]) \in Held(series[t])
        BY <1>3, <1>4, <4>1, SourceSeries
      <4>3. Usable(t)
        BY <1>4, <4>2 DEF Answers
      <4>4. Read(LastOf(series[t]))
        BY <4>2 DEF GuestInv, SeriesOK
      <4> QED BY <4>1, <4>3, <4>4 DEF Usable, Read
    <3> QED BY <3>1, <3>2
  <2>2. PICK b, m, x : b = bootedAt[p.boot] /\ m = MaxAge /\ x = tick
    OBVIOUS
  <2>3. b \in Nat /\ m \in Nat /\ x \in Nat
    <3>1. \A n \in 1 .. Len(bootedAt) : bootedAt[n] \in Nat
      BY DEF GuestInv, GuestTypeOK
    <3>2. p.boot \in 1 .. Len(bootedAt) /\ x \in Nat
      BY <2>1, <2>2 DEF GuestInv, GuestTypeOK
    <3>3. m \in Nat
      BY <2>2, GuestCpuAssumption DEF MaxAge
    <3> QED BY <2>2, <3>1, <3>2, <3>3
  <2>4. x - (end + b) =< m
    BY <2>1, <2>2
  <2>5. end + b >= x - m
    BY <2>3, <2>4
  <2> QED BY <1>4, <2>1, <2>2, <2>5
<1> QED BY <1>5, <1>8, <1>15, <1>16, <1>17 DEF ExclusiveExact, InWindow

\* An answer is the CPU that the containers, and the rest of the guest, used in a
\* window of one boot that ended at most MaxAge ago, for any containers, rates and
\* window, whatever restarts, reboots and failed probes came before
\* (guest_cpu.rs:305, guest_cpu.rs:433, guest_cpu.rs:445).
THEOREM GuestCpuExclusiveExact == GuestCpuSpec => []ExclusiveExact
<1>1. InitGuestCpu => GuestInv
  BY GuestInitInv
<1>2. GuestInv /\ [GuestCpuNext]_guestCpuVars => GuestInv'
  BY GuestStepInv
<1>3. GuestInv => ExclusiveExact
  BY AnswerExact
<1> QED BY <1>1, <1>2, <1>3, PTL DEF GuestCpuSpec
=============================================================================
