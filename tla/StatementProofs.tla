------------------------------- MODULE StatementProofs ------------------------
(***************************************************************************)
(* Proofs about Statement, for any trips, vans, sessions and amounts: its  *)
(* types, that every seat is charged once, that paid never stands beside a *)
(* balance, and that no payments together take more than is owed.          *)
(*                                                                         *)
(* Totals are sums over the lines of a trip and over the trips of a day;   *)
(* FoldTheorems says what a sum gains when one of its terms changes.       *)
(***************************************************************************)
EXTENDS Statement, FoldTheorems, SequenceTheorems

USE StatementAssumption

\* The disputes that hold no share back.
SETTLED == DISPUTES \ {"open"}

-----------------------------------------------------------------------------
(***************************************************************************)
(* Sums over the lines of a trip.                                          *)
(***************************************************************************)
LEMMA LineFields ==
    ASSUME NEW lines \in Seq(Line)
    PROVE  /\ Len(lines) \in Nat /\ DOMAIN lines = 1..Len(lines) /\ IsFiniteSet(DOMAIN lines)
           /\ \A i \in DOMAIN lines :
                 /\ lines[i] \in Line /\ lines[i].count \in Nat /\ Share(lines[i]) \in Nat
                 /\ lines[i].on \in Vans \cup {None} /\ lines[i].dispute \in DISPUTES
<1>1. Len(lines) \in Nat /\ DOMAIN lines = 1..Len(lines)
  OBVIOUS
<1>2. \A i \in 1..Len(lines) : lines[i] \in Line
  OBVIOUS
<1>3. \A l \in Line : /\ l.count \in Nat /\ l.on \in Vans \cup {None} /\ l.dispute \in DISPUTES
                      /\ Share(l) \in Nat
  <2>1. \A l \in Line : /\ l.count \in Nat /\ l.on \in Vans \cup {None} /\ l.dispute \in DISPUTES
                        /\ l.due \in Nat
    BY DEF Line
  <2>2. \A l \in Line : SHARE * l.count \in Nat
    BY <2>1 DEF StatementAssumption
  <2> QED BY <2>1, <2>2 DEF Share
<1>4. IsFiniteSet(1..Len(lines))
  BY <1>1, FS_Interval
<1> QED BY <1>1, <1>2, <1>3, <1>4

\* What SharesOn and SeatsAt sum.
ShareAt(lines, v, disputes) ==
    [i \in DOMAIN lines |->
        IF lines[i].on = v /\ lines[i].dispute \in disputes THEN Share(lines[i]) ELSE 0]

CountAt(lines, at) == [i \in DOMAIN lines |-> IF i \in at THEN lines[i].count ELSE 0]

LEMMA LineSums ==
    ASSUME NEW lines \in Seq(Line), NEW v, NEW disputes, NEW at
    PROVE  /\ \A i \in DOMAIN lines : /\ ShareAt(lines, v, disputes)[i] \in Nat
                                      /\ CountAt(lines, at)[i] \in Nat
           /\ SharesOn(lines, v, disputes) = SumFunctionOnSet(ShareAt(lines, v, disputes), DOMAIN lines)
           /\ SeatsAt(lines, at) = SumFunctionOnSet(CountAt(lines, at), DOMAIN lines)
           /\ SharesOn(lines, v, disputes) \in Nat
           /\ SeatsAt(lines, at) \in Nat /\ Seats(lines) \in Nat
<1>1. \A i \in DOMAIN lines : ShareAt(lines, v, disputes)[i] \in Nat
  BY LineFields DEF ShareAt
<1>2. \A set : \A i \in DOMAIN lines : CountAt(lines, set)[i] \in Nat
  BY LineFields DEF CountAt
<1>3. /\ SharesOn(lines, v, disputes) = SumFunctionOnSet(ShareAt(lines, v, disputes), DOMAIN lines)
      /\ \A set : SeatsAt(lines, set) = SumFunctionOnSet(CountAt(lines, set), DOMAIN lines)
  BY DEF SharesOn, SeatsAt, ShareAt, CountAt, SumFunction
<1>4. IsFiniteSet(DOMAIN lines)
  BY LineFields
<1>5. SumFunctionOnSet(ShareAt(lines, v, disputes), DOMAIN lines) \in Nat
  BY <1>1, <1>4, SumType
<1>6. ASSUME NEW set PROVE SumFunctionOnSet(CountAt(lines, set), DOMAIN lines) \in Nat
  BY <1>2, <1>4, SumType
<1> QED BY <1>1, <1>2, <1>3, <1>5, <1>6 DEF Seats

\* A share is disputed or not.
LEMMA SharesSplit ==
    ASSUME NEW lines \in Seq(Line), NEW v
    PROVE  SharesOn(lines, v, DISPUTES) = SharesOn(lines, v, {"open"}) + SharesOn(lines, v, SETTLED)
<1> DEFINE D == DOMAIN lines
           f == ShareAt(lines, v, {"open"})
           g == ShareAt(lines, v, SETTLED)
           h == ShareAt(lines, v, DISPUTES)
<1>1. IsFiniteSet(D)
  BY LineFields
<1>2. \A i \in D : f[i] \in Nat /\ g[i] \in Nat /\ h[i] = f[i] + g[i]
  <2>1. \A i \in D : Share(lines[i]) \in Nat /\ lines[i].dispute \in DISPUTES
    BY LineFields
  <2> QED BY <2>1 DEF ShareAt, SETTLED, DISPUTES
<1>3. /\ SharesOn(lines, v, {"open"}) = SumFunctionOnSet(f, D)
      /\ SharesOn(lines, v, SETTLED) = SumFunctionOnSet(g, D)
      /\ SharesOn(lines, v, DISPUTES) = SumFunctionOnSet(h, D)
  BY LineSums
<1> HIDE DEF f, g, h, D
<1>4. SumFunctionOnSet(h, D) = SumFunctionOnSet(f, D) + SumFunctionOnSet(g, D)
  BY <1>1, <1>2, SumPlus
<1> QED BY <1>3, <1>4

\* A statement that no line is on has no share.
LEMMA NoShares ==
    ASSUME NEW lines \in Seq(Line), NEW v, NEW disputes, \A i \in DOMAIN lines : lines[i].on # v
    PROVE  SharesOn(lines, v, disputes) = 0
<1> DEFINE D == DOMAIN lines
           f == ShareAt(lines, v, disputes)
           z == [i \in D |-> 0]
<1>1. IsFiniteSet(D) /\ \A i \in D : f[i] = 0
  BY LineFields DEF ShareAt
<1>2. SharesOn(lines, v, disputes) = SumFunctionOnSet(f, D)
  BY LineSums
<1>3. \A i \in D : f[i] \in Nat /\ z[i] \in Nat /\ z[i] = f[i] + z[i]
  BY <1>1
<1> HIDE DEF f, z, D
<1>4. SumFunctionOnSet(z, D) = SumFunctionOnSet(f, D) + SumFunctionOnSet(z, D)
  BY <1>1, <1>3, SumPlus
<1>5. SumFunctionOnSet(z, D) \in Nat /\ SumFunctionOnSet(f, D) \in Nat
  BY <1>1, <1>3, SumType
<1> QED BY <1>2, <1>4, <1>5

\* Shares and seats depend on where the lines are, their seats and disputes.
LEMMA SameShares ==
    ASSUME NEW a \in Seq(Line), NEW b \in Seq(Line), NEW v, NEW disputes, Len(a) = Len(b),
           \A i \in DOMAIN a : a[i].on = v \/ b[i].on = v =>
              /\ a[i].on = b[i].on /\ a[i].count = b[i].count
              /\ a[i].due = b[i].due /\ a[i].dispute = b[i].dispute
    PROVE  SharesOn(a, v, disputes) = SharesOn(b, v, disputes)
<1> DEFINE D == DOMAIN a
           f == ShareAt(a, v, disputes)
           g == ShareAt(b, v, disputes)
<1>1. D = DOMAIN b /\ IsFiniteSet(D)
  BY LineFields
<1>2. \A i \in D : f[i] \in Nat
  BY LineSums
<1>3. \A i \in D : f[i] = g[i]
  BY <1>1 DEF ShareAt, Share
<1>4. SharesOn(a, v, disputes) = SumFunctionOnSet(f, D) /\ SharesOn(b, v, disputes) = SumFunctionOnSet(g, D)
  BY <1>1, LineSums
<1> HIDE DEF f, g, D
<1>5. SumFunctionOnSet(f, D) = SumFunctionOnSet(g, D)
  BY <1>1, <1>2, <1>3, SumAgree
<1> QED BY <1>4, <1>5

LEMMA SameSeats ==
    ASSUME NEW a \in Seq(Line), NEW b \in Seq(Line), Places(a) = Places(b)
    PROVE  Len(a) = Len(b) /\ Standing(a) = Standing(b) /\ Seats(a) = Seats(b)
           /\ \A i \in DOMAIN a : a[i].on = b[i].on /\ a[i].count = b[i].count
<1> DEFINE D == DOMAIN a
           f == CountAt(a, Standing(a))
           g == CountAt(b, Standing(b))
<1>1. D = DOMAIN b
  <2>1. DOMAIN Places(a) = DOMAIN a /\ DOMAIN Places(b) = DOMAIN b
    BY DEF Places
  <2> QED BY <2>1
<1>2. Len(a) = Len(b) /\ IsFiniteSet(D)
  BY <1>1, LineFields
<1>3. \A i \in D : a[i].on = b[i].on /\ a[i].count = b[i].count
  <2> SUFFICES ASSUME NEW i \in D PROVE a[i].on = b[i].on /\ a[i].count = b[i].count
    OBVIOUS
  <2>1. Places(a)[i] = <<a[i].on, a[i].count>> /\ Places(b)[i] = <<b[i].on, b[i].count>>
    BY <1>1 DEF Places
  <2> QED BY <2>1
<1>4. Standing(a) = Standing(b)
  BY <1>1, <1>3 DEF Standing
<1>5. \A i \in D : f[i] \in Nat /\ f[i] = g[i]
  <2>1. \A i \in D : f[i] \in Nat
    BY LineSums
  <2> QED BY <1>1, <1>3, <1>4, <2>1 DEF CountAt
<1>6. Seats(a) = SumFunctionOnSet(f, D) /\ Seats(b) = SumFunctionOnSet(g, D)
  BY <1>1, LineSums DEF Seats
<1> HIDE DEF f, g, D
<1>7. SumFunctionOnSet(f, D) = SumFunctionOnSet(g, D)
  BY <1>2, <1>5, SumAgree
<1> QED BY <1>2, <1>3, <1>4, <1>6, <1>7 DEF D

-----------------------------------------------------------------------------
(***************************************************************************)
(* Sums over the trips of the day.                                         *)
(***************************************************************************)
LEMMA TripSums ==
    ASSUME NEW rows, NEW ch \in [Trips -> Seq(Line)], NEW v
    PROVE  /\ \A t \in Trips : Fees(rows, ch, v)[t] \in Nat /\ Waits(rows, ch, v)[t] \in Nat
           /\ Reckon(rows, ch, v) = PARKING + SumFunctionOnSet(Fees(rows, ch, v), Trips)
           /\ Disputed(rows, ch, v) = SumFunctionOnSet(Waits(rows, ch, v), Trips)
           /\ Reckon(rows, ch, v) \in Nat /\ Disputed(rows, ch, v) \in Nat
<1>1. IsFiniteSet(Trips) /\ PARKING \in Nat /\ DCOTT \in Nat
  BY DEF StatementAssumption
<1>2. \A d : \A t \in Trips : SharesOn(ch[t], v, d) \in Nat
  BY LineSums
<1>3. \A t \in Trips : Fees(rows, ch, v)[t] \in Nat /\ Waits(rows, ch, v)[t] \in Nat
  BY <1>1, <1>2 DEF Fees, Waits
<1>4. DOMAIN Fees(rows, ch, v) = Trips /\ DOMAIN Waits(rows, ch, v) = Trips
  BY DEF Fees, Waits
<1>5. /\ Reckon(rows, ch, v) = PARKING + SumFunctionOnSet(Fees(rows, ch, v), Trips)
      /\ Disputed(rows, ch, v) = SumFunctionOnSet(Waits(rows, ch, v), Trips)
  BY <1>4 DEF Reckon, Disputed, SumFunction
<1>6. /\ SumFunctionOnSet(Fees(rows, ch, v), Trips) \in Nat
      /\ SumFunctionOnSet(Waits(rows, ch, v), Trips) \in Nat
  BY <1>1, <1>3, SumType
<1> QED BY <1>1, <1>3, <1>5, <1>6

-----------------------------------------------------------------------------
(***************************************************************************)
(* The lines a sync writes, and those a commit leaves.                     *)
(***************************************************************************)
\* The two parts of Mirror: the lines it was given, and the line it adds.
Rest(t, row, read) == Goal(t, row) - SeatsAt(read, Contested(t, read))

Kept(t, row, read) ==
    IF Rest(t, row, read) > 0 /\ Uncontested(t, read) # {} THEN {Min(Uncontested(t, read))} ELSE {}

Shown(t, row, read) ==
    [i \in DOMAIN read |->
        IF i \in Kept(t, row, read) THEN [Follow(row, read)[i] EXCEPT !.count = Rest(t, row, read)]
        ELSE IF i \in Uncontested(t, read) THEN Deleted ELSE Follow(row, read)[i]]

More(row, n) == IF n > 0 THEN <<NewLine(row.van, n)>> ELSE <<>>

LEMMA MirrorParts ==
    ASSUME NEW t, NEW row, NEW read
    PROVE  Mirror(t, row, read) =
              Shown(t, row, read) \o More(row, IF Uncontested(t, read) = {} THEN Rest(t, row, read) ELSE 0)
<1>1. CASE Uncontested(t, read) = {}
  BY <1>1 DEF Mirror, Shown, More, Rest, Kept
<1>2. CASE Uncontested(t, read) # {}
  BY <1>2 DEF Mirror, Shown, More, Rest, Kept
<1> QED BY <1>1, <1>2

LEMMA TopUpParts ==
    ASSUME NEW t, NEW row, NEW read
    PROVE  TopUp(t, row, read) = Follow(row, read) \o More(row, Goal(t, row) - Seats(read))
  BY DEF TopUp, More

LEMMA Concat ==
    ASSUME NEW a \in Seq(Line), NEW b \in Seq(Line)
    PROVE  /\ a \o b \in Seq(Line) /\ Len(a \o b) = Len(a) + Len(b)
           /\ \A i \in 1..(Len(a) + Len(b)) :
                 (a \o b)[i] = IF i <= Len(a) THEN a[i] ELSE b[i - Len(a)]
  BY ConcatProperties

LEMMA Sliced ==
    ASSUME NEW a \in Seq(Line), NEW k \in Nat, k <= Len(a)
    PROVE  /\ SubSeq(a, k + 1, Len(a)) \in Seq(Line)
           /\ Len(SubSeq(a, k + 1, Len(a))) = Len(a) - k
           /\ \A i \in 1..(Len(a) - k) : SubSeq(a, k + 1, Len(a))[i] = a[k + i]
<1>1. /\ Len(a) \in Nat /\ k + 1 \in Int /\ Len(a) \in Int
      /\ \A i \in (k + 1)..Len(a) : a[i] \in Line
      /\ Len(a) - (k + 1) + 1 = Len(a) - k
  BY LineFields
<1>2. /\ SubSeq(a, k + 1, Len(a)) \in Seq(Line)
      /\ Len(SubSeq(a, k + 1, Len(a))) = IF k + 1 <= Len(a) THEN Len(a) - (k + 1) + 1 ELSE 0
      /\ \A i \in 1..(Len(a) - (k + 1) + 1) : SubSeq(a, k + 1, Len(a))[i] = a[k + 1 + i - 1]
  BY <1>1, SubSeqProperties
<1>3. Len(SubSeq(a, k + 1, Len(a))) = Len(a) - k
  <2> DEFINE n == Len(SubSeq(a, k + 1, Len(a)))
             m == Len(a)
  <2>1. m \in Nat /\ k <= m /\ n = IF k + 1 <= m THEN m - (k + 1) + 1 ELSE 0
    BY <1>1, <1>2
  <2> HIDE DEF n, m
  <2>2. n = m - k
    BY <2>1
  <2> QED BY <2>2 DEF n, m
<1>4. ASSUME NEW i \in 1..(Len(a) - k) PROVE SubSeq(a, k + 1, Len(a))[i] = a[k + i]
  <2>1. i \in 1..(Len(a) - (k + 1) + 1) /\ k + 1 + i - 1 = k + i
    BY <1>1
  <2> QED BY <1>2, <2>1
<1> QED BY <1>2, <1>3, <1>4

LEMMA NewLineType ==
    ASSUME NEW v \in Vans \cup {None}, NEW n \in Nat
    PROVE  NewLine(v, n) \in Line /\ Deleted \in Line
           /\ NewLine(v, n).on = v /\ NewLine(v, n).count = n /\ NewLine(v, n).paidOn = {}
           /\ NewLine(v, n).dispute = "none" /\ NewLine(v, n).due = 0
           /\ Deleted.on = None /\ Deleted.dispute = "none" /\ Deleted.count = 0
  BY DEF NewLine, Deleted, Line, DISPUTES

LEMMA MoreType ==
    ASSUME NEW row \in Row, NEW n \in Int
    PROVE  /\ More(row, n) \in Seq(Line)
           /\ Len(More(row, n)) = IF n > 0 THEN 1 ELSE 0
           /\ n > 0 => More(row, n)[1] = NewLine(row.van, n)
<1>1. row.van \in Vans \cup {None}
  BY DEF Row
<1>2. n > 0 => n \in Nat /\ NewLine(row.van, n) \in Line
  BY <1>1, NewLineType
<1>3. CASE n > 0
  BY <1>2, <1>3 DEF More
<1>4. CASE ~(n > 0)
  BY <1>4 DEF More
<1> QED BY <1>3, <1>4

\* What follows the trip keeps its seats and its dispute.
LEMMA FollowType ==
    ASSUME NEW row \in Row, NEW read \in Seq(Line)
    PROVE  /\ Follow(row, read) \in Seq(Line)
           /\ Len(Follow(row, read)) = Len(read) /\ DOMAIN Follow(row, read) = DOMAIN read
           /\ \A i \in DOMAIN read :
                 /\ Follow(row, read)[i].on = IF row.van = None \/ read[i].on = None
                                              THEN read[i].on ELSE row.van
                 /\ Follow(row, read)[i].count = read[i].count
                 /\ Follow(row, read)[i].due = read[i].due
                 /\ Follow(row, read)[i].dispute = read[i].dispute
                 /\ Follow(row, read)[i].paidOn = read[i].paidOn
<1>1. row.van \in Vans \cup {None}
  BY DEF Row
<1>2. Len(read) \in Nat /\ DOMAIN read = 1..Len(read) /\ \A i \in DOMAIN read : read[i] \in Line
  BY LineFields
<1>3. \A i \in DOMAIN read :
         /\ Follow(row, read)[i] \in Line
         /\ Follow(row, read)[i].on = IF row.van = None \/ read[i].on = None
                                      THEN read[i].on ELSE row.van
         /\ Follow(row, read)[i].count = read[i].count
         /\ Follow(row, read)[i].due = read[i].due
         /\ Follow(row, read)[i].dispute = read[i].dispute
         /\ Follow(row, read)[i].paidOn = read[i].paidOn
  BY <1>1, <1>2 DEF Follow, Line
<1>4. DOMAIN Follow(row, read) = 1..Len(read)
  BY <1>2 DEF Follow
<1>5. Follow(row, read) \in [1..Len(read) -> Line]
  <2>1. Follow(row, read) = [i \in 1..Len(read) |-> Follow(row, read)[i]]
    BY <1>2 DEF Follow
  <2> QED BY <1>2, <1>3, <2>1
<1>6. Follow(row, read) \in Seq(Line) /\ Len(Follow(row, read)) = Len(read)
  BY <1>2, <1>5
<1> QED BY <1>2, <1>3, <1>4, <1>6

LEMMA GoalType ==
    ASSUME NEW t \in Trips, NEW row, listed \in [Trips -> Nat]
    PROVE  Goal(t, row) \in Nat /\ (Goal(t, row) = listed[t] \/ Goal(t, row) = 0)
  BY DEF Goal

LEMMA ShownType ==
    ASSUME NEW t \in Trips, NEW row \in Row, NEW read \in Seq(Line), listed \in [Trips -> Nat]
    PROVE  /\ Rest(t, row, read) \in Int
           /\ Shown(t, row, read) \in Seq(Line) /\ Len(Shown(t, row, read)) = Len(read)
           /\ DOMAIN Shown(t, row, read) = DOMAIN read
<1>1. Len(read) \in Nat /\ DOMAIN read = 1..Len(read)
  BY LineFields
<1>2. Rest(t, row, read) \in Int
  <2>1. Goal(t, row) \in Nat
    BY GoalType
  <2>2. SeatsAt(read, Contested(t, read)) \in Nat
    BY LineSums
  <2> QED BY <2>1, <2>2 DEF Rest
<1>3. ASSUME NEW i \in 1..Len(read) PROVE Shown(t, row, read)[i] \in Line
  <2>1. Follow(row, read)[i] \in Line /\ Deleted \in Line
    BY <1>1, FollowType, NewLineType
  <2>2. i \in Kept(t, row, read) => Rest(t, row, read) \in Nat
    BY <1>2 DEF Kept
  <2>3. \A n \in Nat : [Follow(row, read)[i] EXCEPT !.count = n] \in Line
    BY <2>1 DEF Line
  <2> QED BY <1>1, <2>1, <2>2, <2>3 DEF Shown
<1>4. Shown(t, row, read) = [i \in 1..Len(read) |-> Shown(t, row, read)[i]]
  BY <1>1 DEF Shown
<1>5. Shown(t, row, read) \in [1..Len(read) -> Line]
  BY <1>3, <1>4
<1> QED BY <1>1, <1>2, <1>5

\* A sync keeps the places of the lines and adds at most one, of the van.
LEMMA SyncedType ==
    ASSUME NEW t \in Trips, NEW row \in Row, NEW read \in Seq(Line), listed \in [Trips -> Nat]
    PROVE  /\ Synced(t, row, read) \in Seq(Line)
           /\ Len(read) <= Len(Synced(t, row, read)) /\ Len(Synced(t, row, read)) <= Len(read) + 1
           /\ \A i \in DOMAIN read : i \in DOMAIN Synced(t, row, read)
           /\ \A i \in DOMAIN Synced(t, row, read) \ DOMAIN read :
                 Synced(t, row, read)[i].on = row.van
<1> DEFINE n == IF Uncontested(t, read) = {} THEN Rest(t, row, read) ELSE 0
           m == Goal(t, row) - Seats(read)
<1>1. n \in Int /\ m \in Int
  <2>1. Goal(t, row) \in Nat
    BY GoalType
  <2>2. Seats(read) \in Nat
    BY LineSums
  <2>3. Rest(t, row, read) \in Int
    BY ShownType
  <2> QED BY <2>1, <2>2, <2>3
<1> HIDE DEF n, m
<1>2. ASSUME NEW k \in Int, NEW base \in Seq(Line), Len(base) = Len(read),
             Synced(t, row, read) = base \o More(row, k)
      PROVE  /\ Synced(t, row, read) \in Seq(Line)
             /\ Len(read) <= Len(Synced(t, row, read)) /\ Len(Synced(t, row, read)) <= Len(read) + 1
             /\ \A i \in DOMAIN read : i \in DOMAIN Synced(t, row, read)
             /\ \A i \in DOMAIN Synced(t, row, read) \ DOMAIN read :
                   Synced(t, row, read)[i].on = row.van
  <2> DEFINE new == More(row, k)
  <2>1. /\ new \in Seq(Line) /\ Len(new) = (IF k > 0 THEN 1 ELSE 0)
        /\ k > 0 => new[1] = NewLine(row.van, k)
    BY MoreType
  <2>2. row.van \in Vans \cup {None} /\ (k > 0 => NewLine(row.van, k).on = row.van)
    BY NewLineType DEF Row
  <2> HIDE DEF new
  <2>3. /\ base \o new \in Seq(Line) /\ Len(base \o new) = Len(base) + Len(new)
        /\ \A i \in 1..(Len(base) + Len(new)) :
              (base \o new)[i] = IF i <= Len(base) THEN base[i] ELSE new[i - Len(base)]
    BY <2>1, Concat
  <2>4. Len(read) \in Nat /\ DOMAIN read = 1..Len(read)
    BY LineFields
  <2>5. Synced(t, row, read) = base \o new
    BY <1>2 DEF new
  <2>6. DOMAIN (base \o new) = 1..(Len(base) + Len(new))
    BY <2>1, <2>3
  <2>7. ASSUME NEW i \in DOMAIN (base \o new) \ DOMAIN read PROVE (base \o new)[i].on = row.van
    <3>1. k > 0 /\ i = Len(base) + 1
      BY <1>2, <2>1, <2>4, <2>6, <2>7
    <3>2. (base \o new)[i] = new[1]
      BY <1>2, <2>1, <2>3, <2>4, <3>1
    <3> QED BY <2>1, <2>2, <3>1, <3>2
  <2> QED BY <1>2, <2>1, <2>3, <2>4, <2>5, <2>6, <2>7
<1>3. CASE row.locked
  <2>1. Synced(t, row, read) = Follow(row, read) \o More(row, m)
    BY <1>3, TopUpParts DEF Synced, m
  <2> QED BY <1>1, <1>2, <2>1, FollowType
<1>4. CASE ~row.locked
  <2>1. Synced(t, row, read) = Shown(t, row, read) \o More(row, n)
    BY <1>4, MirrorParts DEF Synced, n
  <2>2. Shown(t, row, read) \in Seq(Line) /\ Len(Shown(t, row, read)) = Len(read)
    BY ShownType
  <2> QED BY <1>1, <1>2, <2>1, <2>2
<1> QED BY <1>3, <1>4

\* One line as a commit merges it.
MergedLine(l, old, new) ==
    IF new = old THEN l
    ELSE IF new.on = None THEN Deleted
    ELSE [l EXCEPT !.on    = IF new.on # old.on THEN new.on ELSE @,
                   !.count = IF new.count # old.count THEN new.count ELSE @]

MergesAs(all, now, read, lines) ==
    /\ all \in Seq(Line) /\ Len(all) = Len(now) + (Len(lines) - Len(read))
    /\ \A i \in DOMAIN now :
          all[i] = IF i \in DOMAIN read THEN MergedLine(now[i], read[i], lines[i]) ELSE now[i]
    /\ \A i \in 1..(Len(lines) - Len(read)) : all[Len(now) + i] = lines[Len(read) + i]

LEMMA MergedType ==
    ASSUME NEW now \in Seq(Line), NEW read \in Seq(Line), NEW lines \in Seq(Line),
           Len(read) <= Len(lines)
    PROVE  MergesAs(Merged(now, read, lines), now, read, lines)
<1> DEFINE more == SubSeq(lines, Len(read) + 1, Len(lines))
           here == [i \in DOMAIN now |->
                       IF i \notin Changed(read, lines) THEN now[i]
                       ELSE IF lines[i].on = None THEN Deleted
                       ELSE [now[i] EXCEPT
                                !.on    = IF lines[i].on # read[i].on THEN lines[i].on ELSE @,
                                !.count = IF lines[i].count # read[i].count THEN lines[i].count ELSE @]]
<1>1. /\ Len(now) \in Nat /\ DOMAIN now = 1..Len(now)
      /\ Len(read) \in Nat /\ DOMAIN read = 1..Len(read)
      /\ Len(lines) \in Nat /\ DOMAIN lines = 1..Len(lines)
      /\ \A i \in DOMAIN now : now[i] \in Line
      /\ \A i \in DOMAIN lines : lines[i] \in Line
  BY LineFields
<1>2. /\ more \in Seq(Line) /\ Len(more) = Len(lines) - Len(read)
      /\ \A i \in 1..(Len(lines) - Len(read)) : more[i] = lines[Len(read) + i]
  BY <1>1, Sliced
<1>3. \A i \in DOMAIN now :
         here[i] = IF i \in DOMAIN read THEN MergedLine(now[i], read[i], lines[i]) ELSE now[i]
  BY <1>1 DEF Changed, MergedLine
<1>4. \A i \in DOMAIN now : here[i] \in Line
  <2> SUFFICES ASSUME NEW i \in DOMAIN now PROVE here[i] \in Line
    OBVIOUS
  <2>1. now[i] \in Line /\ Deleted \in Line
    BY <1>1, NewLineType
  <2>2. CASE i \in DOMAIN read
    <3>1. lines[i] \in Line
      BY <1>1, <2>2
    <3>2. MergedLine(now[i], read[i], lines[i]) \in Line
      BY <2>1, <3>1 DEF MergedLine, Line
    <3> QED BY <1>3, <2>2, <3>2
  <2>3. CASE i \notin DOMAIN read
    BY <1>3, <2>1, <2>3
  <2> QED BY <2>2, <2>3
<1>5. here \in Seq(Line) /\ Len(here) = Len(now)
  <2>1. here = [i \in 1..Len(now) |-> here[i]]
    BY <1>1
  <2>2. here \in [1..Len(now) -> Line]
    <3> HIDE DEF here
    <3> QED BY <1>1, <1>4, <2>1
  <2> HIDE DEF here
  <2> QED BY <1>1, <2>2
<1>6. Merged(now, read, lines) = here \o more
  BY DEF Merged
<1> HIDE DEF here, more
<1>7. /\ here \o more \in Seq(Line) /\ Len(here \o more) = Len(here) + Len(more)
      /\ \A i \in 1..(Len(here) + Len(more)) :
            (here \o more)[i] = IF i <= Len(here) THEN here[i] ELSE more[i - Len(here)]
  BY <1>2, <1>5, Concat
<1>8. \A i \in DOMAIN now : (here \o more)[i] = here[i]
  BY <1>1, <1>2, <1>5, <1>7
<1>9. \A i \in 1..(Len(lines) - Len(read)) :
         (here \o more)[Len(now) + i] = more[i]
  <2> SUFFICES ASSUME NEW i \in 1..(Len(lines) - Len(read))
               PROVE  (here \o more)[Len(now) + i] = more[i]
    OBVIOUS
  <2>1. Len(now) + i \in 1..(Len(here) + Len(more)) /\ ~(Len(now) + i <= Len(here))
        /\ Len(now) + i - Len(here) = i
    BY <1>1, <1>2, <1>5
  <2> QED BY <1>7, <2>1
<1> QED BY <1>2, <1>3, <1>5, <1>6, <1>7, <1>8, <1>9 DEF MergesAs

-----------------------------------------------------------------------------
(***************************************************************************)
(* Types, and what each step of a session has read and holds.              *)
(***************************************************************************)
Shape(now) ==
    /\ now.step \notin {"sync", "write"} => now.holds = {} /\ now.plan = NoPlan
    /\ now.step \in {"mark", "cancel", "list", "sync"} => now.trip \in Trips
    /\ now.step = "write" /\ now.does # "statement" =>
          now.trip \in Trips /\ Len(now.read) <= Len(now.plan.lines)
    /\ now.does = "statement" => now.step = "write" /\ now.trip = None
    /\ now.step = "list" => now.does = "list"
    /\ now.does = "list" => now.row.van # None /\ Waiting(now.row)
    /\ now.step = "sync" => now.plan.amount = 0
    /\ now.plan.amount = 0 => now.plan.marks = {}
    /\ now.plan.amount > 0 => now.row.van \in Vans /\ now.does \in {"pay", "statement"}

Typed == TypeOK /\ \A s \in Sessions : Shape(session[s])

LEMMA Start0 ==
    /\ NewTrip \in Row /\ NoPlan \in Plan /\ Idle \in Session /\ Shape(Idle)
    /\ NoPlan.amount = 0 /\ NoPlan.marks = {} /\ NoPlan.writes = {}
    /\ Idle.step = "idle" /\ Idle.holds = {} /\ Idle.plan = NoPlan /\ Idle.trip = None
    /\ Idle.does = "none" /\ Idle.row = NewTrip /\ Idle.read = <<>>
<1>1. NewTrip \in Row
  BY DEF NewTrip, Row, BEFORE_DEPARTURE
<1>2. NoPlan \in Plan
  BY <1>1 DEF NoPlan, Plan
<1>3. /\ Idle.step = "idle" /\ Idle.holds = {} /\ Idle.plan = NoPlan /\ Idle.trip = None
      /\ Idle.does = "none" /\ Idle.row = NewTrip /\ Idle.read = <<>>
  BY DEF Idle
<1>6. NoPlan.amount = 0 /\ NoPlan.marks = {} /\ NoPlan.writes = {}
  BY DEF NoPlan
<1>4. Idle \in Session
  BY <1>1, <1>2 DEF Idle, Session
<1>5. Shape(Idle)
  BY <1>3, <1>6 DEF Shape
<1> QED BY <1>1, <1>2, <1>3, <1>4, <1>5, <1>6

\* The variables at their types.
LEMMA TypeFields ==
    ASSUME TypeOK
    PROVE  /\ trip \in [Trips -> Row] /\ listed \in [Trips -> Nat]
           /\ charged \in [Trips -> Seq(Line)] /\ account \in [Vans -> Account]
           /\ session \in [Sessions -> Session] /\ past \in [Trips -> Past]
           /\ \A t \in Trips : listed[t] <= MaxSeats[t] /\ MaxSeats[t] \in Nat
           /\ \A t \in Trips : /\ trip[t] \in Row /\ trip[t].van \in Vans \cup {None}
                               /\ trip[t].locked \in BOOLEAN
                               /\ trip[t].status \in {"scheduled", "boarding", "departed", "cancelled"}
                               /\ trip[t].pay \in {"unpaid", "paid", "overridden", "left_unpaid"}
                               /\ charged[t] \in Seq(Line) /\ listed[t] \in Nat
                               /\ past[t] \in Past /\ past[t].missed \in Nat
           /\ \A v \in Vans : account[v] \in Account /\ account[v].owed \in Nat /\ account[v].settled \in Nat
           /\ \A s \in Sessions : /\ session[s] \in Session /\ session[s].row \in Row
                                  /\ session[s].read \in Seq(Line) /\ session[s].holds \in SUBSET Vans
                                  /\ session[s].plan \in Plan
                                  /\ session[s].row.van \in Vans \cup {None}
                                  /\ session[s].trip \in Trips \cup {None}
                                  /\ session[s].plan.lines \in Seq(Line)
                                  /\ session[s].plan.row \in Row
                                  /\ session[s].plan.writes \in SUBSET Vans
                                  /\ session[s].plan.owed \in [Vans -> Nat]
                                  /\ session[s].plan.amount \in Nat
                                  /\ session[s].plan.marks \in SUBSET Trips
           /\ None \notin Trips /\ None \notin Vans
<1>1. /\ trip \in [Trips -> Row] /\ listed \in [Trips -> Nat]
      /\ charged \in [Trips -> Seq(Line)] /\ account \in [Vans -> Account]
      /\ session \in [Sessions -> Session] /\ past \in [Trips -> Past]
      /\ \A t \in Trips : listed[t] <= MaxSeats[t]
  BY DEF TypeOK
<1>2. MaxSeats \in [Trips -> Nat] /\ None \notin Trips /\ None \notin Vans
  BY DEF StatementAssumption
<1>3. \A row \in Row : /\ row.van \in Vans \cup {None} /\ row.locked \in BOOLEAN
                       /\ row.status \in {"scheduled", "boarding", "departed", "cancelled"}
                       /\ row.pay \in {"unpaid", "paid", "overridden", "left_unpaid"}
  BY DEF Row, BEFORE_DEPARTURE
<1>4. \A a \in Account : a.owed \in Nat /\ a.settled \in Nat
  BY DEF Account
<1>5. \A p \in Past : p.missed \in Nat
  BY DEF Past
<1>6. \A now \in Session : /\ now.row \in Row /\ now.read \in Seq(Line) /\ now.holds \in SUBSET Vans
                           /\ now.plan \in Plan /\ now.trip \in Trips \cup {None}
  BY DEF Session
<1>7. \A plan \in Plan : /\ plan.lines \in Seq(Line) /\ plan.row \in Row
                         /\ plan.writes \in SUBSET Vans /\ plan.owed \in [Vans -> Nat]
                         /\ plan.amount \in Nat /\ plan.marks \in SUBSET Trips
  BY DEF Plan
<1>8. \A t \in Trips : /\ trip[t] \in Row /\ charged[t] \in Seq(Line) /\ listed[t] \in Nat
                       /\ past[t] \in Past
  BY <1>1
<1>9. (\A v \in Vans : account[v] \in Account) /\ (\A s \in Sessions : session[s] \in Session)
  BY <1>1
<1> QED BY <1>1, <1>2, <1>3, <1>4, <1>5, <1>6, <1>7, <1>8, <1>9

\* A step of one session that writes no row.
Swap(s, now) ==
    /\ session' = [session EXCEPT ![s] = now]
    /\ UNCHANGED <<trip, listed, charged, account>>

LEMMA SwapTyped ==
    ASSUME Typed, NEW s \in Sessions, NEW now \in Session, Shape(now), Swap(s, now),
           past' \in [Trips -> Past], acts' \in 0..MaxActs
    PROVE  Typed'
<1>1. TypeOK'
  BY DEF Typed, TypeOK, Swap
<1>2. ASSUME NEW q \in Sessions PROVE Shape(session[q])'
  <2>1. session'[q] = now \/ session'[q] = session[q]
    BY DEF Swap, Typed, TypeOK
  <2>2. Shape(session'[q])
    BY <2>1 DEF Typed
  <2> QED BY <2>2 DEF Shape
<1> QED BY <1>1, <1>2 DEF Typed

\* A step that is of no session's.
LEMMA RowsTyped ==
    ASSUME Typed, UNCHANGED session, trip' \in [Trips -> Row], listed' = listed,
           charged' \in [Trips -> Seq(Line)], account' \in [Vans -> Account],
           past' \in [Trips -> Past], acts' \in 0..MaxActs
    PROVE  Typed'
  BY DEF Typed, TypeOK, Shape

-----------------------------------------------------------------------------
\* What the handlers of one step leave of their session.
LEMMA DeskIs ==
    ASSUME Typed, NEW s \in Sessions, NEW t \in Trips, NEW step \in {"mark", "cancel"}, Desk(s, t, step)
    PROVE  \E now \in Session :
              /\ Shape(now) /\ Swap(s, now) /\ past' = past
              /\ now.step = step /\ now.does = "none" /\ now.trip = t
              /\ now.plan = NoPlan /\ now.holds = {}
<1> DEFINE now == [Idle EXCEPT !.step = step, !.trip = t]
<1>1. now \in Session
  BY Start0 DEF Session
<1>2. /\ now.step = step /\ now.does = "none" /\ now.trip = t /\ now.plan = NoPlan /\ now.holds = {}
  BY Start0 DEF Idle
<1>3. Swap(s, now) /\ past' = past
  BY DEF Desk, Swap
<1> HIDE DEF now
<1>4. Shape(now)
  BY <1>2, Start0 DEF Shape
<1> QED BY <1>1, <1>2, <1>3, <1>4

LEMMA ReadTripsIs ==
    ASSUME Typed, NEW s \in Sessions, NEW t \in Trips, ReadTrips(s, t)
    PROVE  \E now \in Session :
              /\ Shape(now) /\ Swap(s, now) /\ past' = past
              /\ now.step = "list" /\ now.does = "list" /\ now.trip = t /\ now.row = trip[t]
              /\ now.plan = NoPlan /\ now.holds = {}
<1> DEFINE now == [Idle EXCEPT !.step = "list", !.does = "list", !.trip = t, !.row = trip[t]]
<1>1. now \in Session
  <2>1. trip[t] \in Row
    BY DEF Typed, TypeOK
  <2> QED BY <2>1, Start0 DEF Session
<1>2. /\ now.step = "list" /\ now.does = "list" /\ now.trip = t /\ now.row = trip[t]
      /\ now.plan = NoPlan /\ now.holds = {}
  BY Start0 DEF Idle
<1>3. Swap(s, now) /\ past' = past
  BY DEF ReadTrips, Swap
<1>4. trip[t].van # None /\ Waiting(trip[t])
  BY DEF ReadTrips
<1> HIDE DEF now
<1>5. Shape(now)
  BY <1>2, <1>4, Start0 DEF Shape
<1> QED BY <1>1, <1>2, <1>3, <1>5

LEMMA EndIs ==
    ASSUME NEW s \in Sessions, End(s), UNCHANGED <<trip, listed, charged, account>>
    PROVE  Swap(s, Idle)
  BY DEF End, Swap

\* What a handler has in hand once it has read the lines of its trip.
ReadAs(s, t, does, row, holds, plan, now) ==
    /\ Shape(now) /\ Swap(s, now) /\ past' \in [Trips -> Past]
    /\ now.step = "sync" /\ now.does = does /\ now.trip = t /\ now.row = row
    /\ now.read = charged[t] /\ now.holds = holds /\ now.plan = plan
    /\ past' = [past EXCEPT ![t].mixed =
           @ \/ \E q \in Sessions \ {s} : InHand(q) /\ session[q].trip = t]

LEMMA ReadLinesIs ==
    ASSUME Typed, NEW s \in Sessions, NEW t \in Trips, NEW does \in {"recount", "start", "depart", "pay", "list"},
           NEW row \in Row, does = "list" => row.van # None /\ Waiting(row),
           NEW holds \in SUBSET Vans, NEW plan \in Plan, plan.amount = 0, plan.marks = {},
           ReadLines(s, t, does, row, holds, plan)
    PROVE  \E now \in Session : ReadAs(s, t, does, row, holds, plan, now)
<1> DEFINE now == [step |-> "sync", does |-> does, trip |-> t, row |-> row, read |-> charged[t],
                   holds |-> holds, plan |-> plan]
<1>1. charged[t] \in Seq(Line)
  BY DEF Typed, TypeOK
<1>2. now \in Session
  BY <1>1 DEF Session
<1>3. /\ now.step = "sync" /\ now.does = does /\ now.trip = t /\ now.row = row
      /\ now.read = charged[t] /\ now.holds = holds /\ now.plan = plan
  OBVIOUS
<1>4. /\ Swap(s, now)
      /\ past' = [past EXCEPT ![t].mixed =
             @ \/ \E q \in Sessions \ {s} : InHand(q) /\ session[q].trip = t]
  BY DEF ReadLines, Swap
<1> HIDE DEF now
<1>5. Shape(now)
  BY <1>3 DEF Shape
<1>6. past' \in [Trips -> Past]
  <2> DEFINE also == \E q \in Sessions \ {s} : InHand(q) /\ session[q].trip = t
  <2>1. past \in [Trips -> Past]
    BY DEF Typed, TypeOK
  <2>2. past' = [past EXCEPT ![t].mixed = @ \/ also]
    BY <1>4
  <2> HIDE DEF also
  <2>3. (past[t].mixed \/ also) \in BOOLEAN
    OBVIOUS
  <2>4. [past[t] EXCEPT !.mixed = past[t].mixed \/ also] \in Past
    BY <2>1, <2>3 DEF Past
  <2> QED BY <2>1, <2>2, <2>4
<1> QED BY <1>2, <1>3, <1>4, <1>5, <1>6 DEF ReadAs

\* The handlers that lock the trip first, with the row they will write.
LEMMA TakeIs ==
    ASSUME Typed, NEW s \in Sessions, NEW t \in Trips,
           NEW does \in {"recount", "start", "depart", "pay"}, NEW row \in Row, Take(s, t, does, row)
    PROVE  ReadLines(s, t, does, row, {}, NoPlan) /\ TripFree(s, t) /\ session[s].step = "idle"
  BY DEF Take

\* What a sync works out.
LEMMA NewType ==
    ASSUME Typed, NEW s \in Sessions, session[s].step = "sync"
    PROVE  /\ NewLines(s) \in Seq(Line) /\ Len(session[s].read) <= Len(NewLines(s))
           /\ NewRow(s) \in Row
           /\ NewRow(s).van = session[s].row.van /\ NewRow(s).status = session[s].row.status
           /\ NewRow(s).locked = session[s].row.locked /\ NewRow(s).override = session[s].row.override
           /\ NewRow(s).pay = SyncedPay(session[s].row, session[s].read, NewLines(s))
           /\ NewRow(s).pay = session[s].row.pay
              \/ (session[s].row.locked /\ session[s].row.pay = "paid" /\ NewRow(s).pay = "unpaid")
           /\ RowsWith(s) \in [Trips -> Row] /\ LinesWith(s) \in [Trips -> Seq(Line)]
           /\ Opened(s) \in SUBSET Vans /\ Opened(s) \subseteq {session[s].row.van}
           /\ Recounted(s) \in SUBSET Vans
           /\ NewTotals(s) \in [Vans -> Nat]
           /\ \A v \in Vans : NewTotals(s)[v] = IF v \in Recounted(s)
                                                THEN Reckon(RowsWith(s), LinesWith(s), v)
                                                ELSE session[s].plan.owed[v]
<1> DEFINE now == session[s]
           t == session[s].trip
           new == NewLines(s)
<1>1. /\ now.row \in Row /\ now.read \in Seq(Line) /\ t \in Trips /\ now.plan.owed \in [Vans -> Nat]
      /\ listed \in [Trips -> Nat] /\ charged \in [Trips -> Seq(Line)] /\ trip \in [Trips -> Row]
  BY TypeFields DEF Typed, Shape
<1>2. new \in Seq(Line) /\ Len(now.read) <= Len(new)
  BY <1>1, SyncedType DEF NewLines
<1>3. SyncedPay(now.row, now.read, new) = now.row.pay
      \/ (now.row.locked /\ now.row.pay = "paid" /\ SyncedPay(now.row, now.read, new) = "unpaid")
  BY DEF SyncedPay
<1>4. /\ NewRow(s) \in Row
      /\ NewRow(s).van = now.row.van /\ NewRow(s).status = now.row.status
      /\ NewRow(s).locked = now.row.locked /\ NewRow(s).override = now.row.override
      /\ NewRow(s).pay = SyncedPay(now.row, now.read, new)
  <2>1. NewRow(s) = [now.row EXCEPT !.pay = SyncedPay(now.row, now.read, new)]
    BY DEF NewRow
  <2>2. SyncedPay(now.row, now.read, new) \in {"unpaid", "paid", "overridden", "left_unpaid"}
    BY <1>1, <1>3 DEF Row
  <2> HIDE DEF now, new
  <2> QED BY <1>1, <2>1, <2>2 DEF Row
<1>5. RowsWith(s) \in [Trips -> Row]
  BY <1>1, <1>4 DEF RowsWith
<1>6. LinesWith(s) \in [Trips -> Seq(Line)]
  <2>1. charged[t] \in Seq(Line)
    BY <1>1
  <2>2. Merged(charged[t], now.read, new) \in Seq(Line)
    BY <1>1, <1>2, <2>1, MergedType DEF MergesAs
  <2>3. LinesWith(s) = [charged EXCEPT ![t] = Merged(charged[t], now.read, new)]
    BY DEF LinesWith
  <2> HIDE DEF now, new, t
  <2> QED BY <1>1, <2>2, <2>3
<1>7. /\ Opened(s) \in SUBSET Vans /\ Opened(s) \subseteq {now.row.van}
      /\ Recounted(s) \in SUBSET Vans
  <2>1. now.row.van \in Vans \cup {None} /\ \A i \in DOMAIN now.read : now.read[i].on \in Vans \cup {None}
    BY <1>1, LineFields DEF Row
  <2>2. Touched(now.row, now.read) \in SUBSET Vans
    BY <2>1 DEF Touched
  <2> QED BY <2>1, <2>2 DEF Opened, Recounted
<1>8. \A v \in Vans : /\ NewTotals(s)[v] = IF v \in Recounted(s)
                                           THEN Reckon(RowsWith(s), LinesWith(s), v)
                                           ELSE now.plan.owed[v]
                      /\ NewTotals(s)[v] \in Nat
  <2>1. \A v \in Vans : Reckon(RowsWith(s), LinesWith(s), v) \in Nat
    BY <1>6, TripSums
  <2> QED BY <1>1, <2>1 DEF NewTotals
<1>9. NewTotals(s) \in [Vans -> Nat]
  <2>1. NewTotals(s) = [v \in Vans |-> NewTotals(s)[v]]
    BY DEF NewTotals
  <2> QED BY <1>8, <2>1
<1> QED BY <1>2, <1>3, <1>4, <1>5, <1>6, <1>7, <1>8, <1>9

LEMMA StillDueIs ==
    ASSUME Typed, NEW s \in Sessions, session[s].step = "sync", NEW n \in Nat
    PROVE  /\ StillDue(s, n) \in Int
           /\ session[s].row.van \in Vans =>
                 StillDue(s, n) = NewTotals(s)[session[s].row.van] - account[session[s].row.van].settled
                                  - n - Disputed(RowsWith(s), LinesWith(s), session[s].row.van)
<1>1. session[s].row.van \in Vans \cup {None} /\ None \notin Vans
      /\ \A v \in Vans : account[v].settled \in Nat
  BY TypeFields DEF Typed
<1>2. \A v \in Vans : NewTotals(s)[v] \in Nat /\ Disputed(RowsWith(s), LinesWith(s), v) \in Nat
  BY NewType, TripSums
<1> QED BY <1>1, <1>2 DEF StillDue

LEMMA AfreshType ==
    ASSUME Typed, NEW marks
    PROVE  /\ Afresh(marks) \in [Trips -> Past]
           /\ \A u \in Trips : /\ Afresh(marks)[u].mixed = past[u].mixed
                               /\ Afresh(marks)[u].missed = past[u].missed
                               /\ u \notin marks \/ trip[u].pay # "unpaid" => Afresh(marks)[u] = past[u]
                               /\ Afresh(marks)[u].astray => past[u].astray
<1>1. \A u \in Trips : past[u] \in Past
  BY TypeFields DEF Typed
<1>2. \A u \in Trips : Afresh(marks)[u] = IF u \in marks /\ trip[u].pay = "unpaid"
                                           THEN [past[u] EXCEPT !.astray = FALSE] ELSE past[u]
  BY DEF Afresh
<1>3. \A u \in Trips : [past[u] EXCEPT !.astray = FALSE] \in Past
  BY <1>1 DEF Past
<1>4. Afresh(marks) \in [Trips -> Past]
  <2>1. Afresh(marks) = [u \in Trips |-> Afresh(marks)[u]]
    BY DEF Afresh
  <2> QED BY <1>1, <1>2, <1>3, <2>1
<1> QED BY <1>1, <1>2, <1>4 DEF Past

\* How the session stands once it has worked out what it writes.
PlanOf(s, row, amount, marks) ==
    [row |-> row, lines |-> NewLines(s),
     writes |-> session[s].plan.writes \cup
         {v \in Recounted(s) : v \in session[s].holds \cup Opened(s) \/ NewTotals(s)[v] # account[v].owed},
     owed |-> NewTotals(s), amount |-> amount, marks |-> marks]

PlannedAs(s, row, amount, marks, now) ==
    /\ Shape(now) /\ Swap(s, now) /\ past' = Afresh(marks)
    /\ now.step = "write" /\ now.does = session[s].does /\ now.trip = session[s].trip
    /\ now.row = session[s].row /\ now.read = session[s].read
    /\ now.holds = session[s].holds \cup Opened(s)
    /\ now.plan = PlanOf(s, row, amount, marks)

LEMMA PlanningIs ==
    ASSUME Typed, NEW s \in Sessions, session[s].step = "sync",
           NEW row \in Row, NEW amount \in Nat, NEW marks \in SUBSET Trips,
           amount = 0 => marks = {},
           amount > 0 => session[s].row.van \in Vans /\ session[s].does = "pay",
           Planning(s, row, amount, marks), UNCHANGED <<trip, listed, charged, account>>
    PROVE  \E now \in Session : PlannedAs(s, row, amount, marks, now)
<1> DEFINE holds == session[s].holds \cup Opened(s)
           plan == PlanOf(s, row, amount, marks)
           now == [session[s] EXCEPT !.step = "write", !.holds = holds, !.plan = plan]
<1>1. /\ session[s] \in Session /\ session \in [Sessions -> Session]
      /\ session[s].holds \in SUBSET Vans /\ session[s].plan.writes \in SUBSET Vans
  BY TypeFields DEF Typed
<1>2. holds \in SUBSET Vans
  BY <1>1, NewType
<1>3. plan \in Plan
  BY <1>1, NewType DEF Plan, PlanOf
<1>4. now \in Session
  <2> HIDE DEF holds, plan
  <2> QED BY <1>1, <1>2, <1>3 DEF Session
<1>5. /\ now.step = "write" /\ now.does = session[s].does /\ now.trip = session[s].trip
      /\ now.row = session[s].row /\ now.read = session[s].read
      /\ now.holds = holds /\ now.plan = plan
  <2> HIDE DEF holds, plan
  <2> QED BY <1>1 DEF Session
<1>6. session' = [session EXCEPT ![s] = now] /\ past' = Afresh(marks)
  BY DEF Planning, PlanOf
<1>7. Shape(now)
  <2>1. Shape(session[s])
    BY DEF Typed
  <2>2. plan.lines = NewLines(s) /\ Len(session[s].read) <= Len(NewLines(s))
    BY NewType DEF PlanOf
  <2>3. plan.amount = amount /\ plan.marks = marks /\ amount \in Nat
    BY DEF PlanOf
  <2> HIDE DEF now
  <2> QED BY <1>5, <2>1, <2>2, <2>3 DEF Shape
<1> HIDE DEF now
<1> QED BY <1>4, <1>5, <1>6, <1>7 DEF Swap, PlannedAs

\* What a sync leaves to be written.
Syncs(s, row, amount, marks) ==
    /\ session[s].step = "sync"
    /\ Planning(s, row, amount, marks) /\ UNCHANGED <<trip, listed, charged, account>>
    /\ row.van = session[s].row.van /\ row.status = session[s].row.status
    /\ row.override = session[s].row.override
    /\ row.pay = NewRow(s).pay
       \/ (session[s].does = "depart" /\ NewRow(s).pay = "unpaid" /\ row.pay = "left_unpaid")
    /\ row.locked = (session[s].row.locked \/ session[s].does \in {"depart", "pay"})
    /\ amount = 0 => marks = {}
    /\ amount > 0 =>
          /\ session[s].does = "pay" /\ amount <= StillDue(s, 0)
          /\ session[s].row.van \in Vans
          /\ marks = IF StillDue(s, amount) > 0 THEN {}
                     ELSE Unpaid(RowsWith(s), session[s].row.van)

LEMMA SyncIs ==
    ASSUME Typed, NEW s \in Sessions, Sync(s)
    PROVE  \E row \in Row, amount \in Nat, marks \in SUBSET Trips : Syncs(s, row, amount, marks)
<1> DEFINE now == session[s]
           row == NewRow(s)
<1>1. now.step = "sync" /\ UNCHANGED <<trip, listed, charged, account>>
  BY DEF Sync
<1>2. /\ row \in Row /\ row.van = now.row.van /\ row.status = now.row.status
      /\ row.locked = now.row.locked /\ row.override = now.row.override
      /\ now.row \in Row /\ now.row.locked \in BOOLEAN
  BY <1>1, NewType, TypeFields DEF Typed, Row
<1>3. \A n \in Nat : StillDue(s, n) \in Int
  BY <1>1, StillDueIs
<1> HIDE DEF row
<1>4. CASE now.does \in {"recount", "list"} /\ Planning(s, row, 0, {})
  <2>1. now.does \notin {"depart", "pay"}
    BY <1>4
  <2> QED BY <1>1, <1>2, <1>4, <2>1 DEF row, Syncs
<1>5. CASE now.does = "start" /\ Planning(s, row, 0, {})
  BY <1>1, <1>2, <1>5 DEF row, Syncs
<1>6. CASE now.does = "depart" /\ Planning(s, [row EXCEPT !.locked = TRUE,
             !.pay = IF @ = "unpaid" /\ StillDue(s, 0) > 0 THEN "left_unpaid" ELSE @], 0, {})
  <2> DEFINE last == [row EXCEPT !.locked = TRUE,
             !.pay = IF @ = "unpaid" /\ StillDue(s, 0) > 0 THEN "left_unpaid" ELSE @]
  <2>1. /\ last \in Row /\ last.van = row.van /\ last.status = row.status
        /\ last.override = row.override /\ last.locked = TRUE
        /\ last.pay = row.pay \/ (row.pay = "unpaid" /\ last.pay = "left_unpaid")
    BY <1>2 DEF Row
  <2>2. Planning(s, last, 0, {})
    BY <1>6
  <2>3. /\ last.van = now.row.van /\ last.status = now.row.status /\ last.override = now.row.override
        /\ last.locked = (now.row.locked \/ now.does \in {"depart", "pay"})
        /\ last.pay = NewRow(s).pay
           \/ (now.does = "depart" /\ NewRow(s).pay = "unpaid" /\ last.pay = "left_unpaid")
    <3> HIDE DEF last
    <3> QED BY <1>2, <1>6, <2>1 DEF row
  <2>4. last \in Row
    BY <2>1
  <2> HIDE DEF last
  <2> USE <2>4
  <2> WITNESS last \in Row, 0 \in Nat, {} \in SUBSET Trips
  <2> QED BY <1>1, <2>2, <2>3 DEF Syncs
<1>7. CASE now.does = "pay" /\ \E n \in 1..StillDue(s, 0) :
             Planning(s, [row EXCEPT !.locked = TRUE], n,
                      IF StillDue(s, n) > 0 THEN {} ELSE Unpaid(RowsWith(s), now.row.van))
  <2> DEFINE last == [row EXCEPT !.locked = TRUE]
             marks(n) == IF StillDue(s, n) > 0 THEN {} ELSE Unpaid(RowsWith(s), now.row.van)
  <2>1. PICK n \in 1..StillDue(s, 0) : Planning(s, last, n, marks(n))
    BY <1>7
  <2>2. n \in Nat /\ n > 0 /\ n <= StillDue(s, 0)
    BY <1>3, <2>1
  <2>3. /\ last \in Row /\ last.van = row.van /\ last.status = row.status
        /\ last.override = row.override /\ last.locked = TRUE /\ last.pay = row.pay
    BY <1>2 DEF Row
  <2>4. marks(n) \in SUBSET Trips
    BY DEF Unpaid
  <2>5. now.row.van \in Vans
    <3>1. now.row.van \in Vans \cup {None}
      BY TypeFields DEF Typed
    <3>2. now.row.van = None => StillDue(s, 0) = 0
      BY DEF StillDue
    <3> QED BY <2>2, <3>1, <3>2
  <2>6. /\ last.van = now.row.van /\ last.status = now.row.status /\ last.override = now.row.override
        /\ last.locked = (now.row.locked \/ now.does \in {"depart", "pay"})
        /\ last.pay = NewRow(s).pay
    <3> HIDE DEF last
    <3> QED BY <1>2, <1>7, <2>3 DEF row
  <2>7. last \in Row /\ marks(n) \in SUBSET Trips /\ n \in Nat
    BY <2>2, <2>3, <2>4
  <2> HIDE DEF last
  <2> USE <2>7
  <2> WITNESS last \in Row, n \in Nat, marks(n) \in SUBSET Trips
  <2> QED BY <1>1, <1>7, <2>1, <2>2, <2>5, <2>6 DEF Syncs
<1> QED BY <1>4, <1>5, <1>6, <1>7 DEF Sync, row

\* A payment at the statement.
PayPlan(v, n, marks) ==
    [NoPlan EXCEPT !.writes = {v}, !.owed = [u \in Vans |-> Reckon(trip, charged, v)],
                   !.amount = n, !.marks = marks]

\* What it leaves to be written.
Pays(s, v, n, marks, now) ==
    /\ session[s].step = "idle" /\ account[v].open /\ ~AccountTaken(s, v)
    /\ Shape(now) /\ Swap(s, now) /\ past' = Afresh(marks)
    /\ n > 0 /\ n <= Due(v)
    /\ marks = IF Reckon(trip, charged, v) - account[v].settled - n
                  - Disputed(trip, charged, v) > 0 THEN {} ELSE Unpaid(trip, v)
    /\ now.step = "write" /\ now.does = "statement" /\ now.trip = None
    /\ now.row.van = v /\ now.read = <<>> /\ now.holds = {v}
    /\ now.plan = PayPlan(v, n, marks)

LEMMA PayStatementIs ==
    ASSUME Typed, NEW s \in Sessions, NEW v \in Vans, PayStatement(s, v)
    PROVE  \E n \in Nat, marks \in SUBSET Trips, now \in Session : Pays(s, v, n, marks, now)
<1> DEFINE Left(n) == Reckon(trip, charged, v) - account[v].settled - n - Disputed(trip, charged, v)
           Marks(n) == IF Left(n) > 0 THEN {} ELSE Unpaid(trip, v)
           Now(n) == [Idle EXCEPT !.step = "write", !.does = "statement", !.row.van = v,
                                  !.holds = {v}, !.plan = PayPlan(v, n, Marks(n))]
<1>1. PICK n \in 1..Due(v) : session' = [session EXCEPT ![s] = Now(n)] /\ past' = Afresh(Marks(n))
  BY DEF PayStatement, PayPlan
<1>2. /\ session[s].step = "idle" /\ account[v].open /\ ~AccountTaken(s, v)
      /\ UNCHANGED <<trip, listed, charged, account>>
  BY DEF PayStatement
<1>3. Due(v) \in Nat
  <2>1. account[v].owed \in Nat /\ account[v].settled \in Nat /\ charged \in [Trips -> Seq(Line)]
    BY TypeFields DEF Typed
  <2>2. Disputed(trip, charged, v) \in Nat
    BY <2>1, TripSums
  <2> QED BY <2>1, <2>2 DEF Due, DueOn
<1>4. n \in Nat /\ n > 0 /\ n <= Due(v)
  BY <1>1, <1>3
<1>5. Marks(n) \in SUBSET Trips
  BY DEF Unpaid
<1>6. PayPlan(v, n, Marks(n)) \in Plan
      /\ PayPlan(v, n, Marks(n)).amount = n /\ PayPlan(v, n, Marks(n)).marks = Marks(n)
  <2>1. Reckon(trip, charged, v) \in Nat
    BY TypeFields, TripSums DEF Typed
  <2>2. [u \in Vans |-> Reckon(trip, charged, v)] \in [Vans -> Nat]
    BY <2>1
  <2> HIDE DEF Marks
  <2> QED BY <1>4, <1>5, <2>2, Start0 DEF PayPlan, Plan
<1>7. /\ Now(n) \in Session
      /\ Now(n).step = "write" /\ Now(n).does = "statement" /\ Now(n).trip = None
      /\ Now(n).row.van = v /\ Now(n).read = <<>> /\ Now(n).holds = {v}
      /\ Now(n).plan = PayPlan(v, n, Marks(n))
  <2>1. [Idle.row EXCEPT !.van = v] \in Row /\ [Idle.row EXCEPT !.van = v].van = v
    BY Start0 DEF Row
  <2> HIDE DEF Marks
  <2> QED BY <1>6, <2>1, Start0 DEF Session
<1>8. Shape(Now(n))
  <2> HIDE DEF Now, Marks
  <2> QED BY <1>4, <1>6, <1>7 DEF Shape
<1>9. Swap(s, Now(n))
  BY <1>1, <1>2 DEF Swap
<1>10. Marks(n) = IF Reckon(trip, charged, v) - account[v].settled - n
                     - Disputed(trip, charged, v) > 0 THEN {} ELSE Unpaid(trip, v)
  OBVIOUS
<1> HIDE DEF Now, Marks, Left
<1> QED BY <1>1, <1>2, <1>4, <1>5, <1>7, <1>8, <1>9, <1>10 DEF Pays

\* What a commit leaves.
LEMMA PaidLinesType ==
    ASSUME NEW lines \in Seq(Line), NEW v \in Vans
    PROVE  /\ PaidLines(lines, v) \in Seq(Line)
           /\ Len(PaidLines(lines, v)) = Len(lines) /\ DOMAIN PaidLines(lines, v) = DOMAIN lines
           /\ \A i \in DOMAIN lines :
                 /\ PaidLines(lines, v)[i].on = lines[i].on
                 /\ PaidLines(lines, v)[i].count = lines[i].count
                 /\ PaidLines(lines, v)[i].due = lines[i].due
                 /\ PaidLines(lines, v)[i].dispute = lines[i].dispute
<1>1. Len(lines) \in Nat /\ DOMAIN lines = 1..Len(lines) /\ \A i \in DOMAIN lines : lines[i] \in Line
  BY LineFields
<1>2. ASSUME NEW i \in DOMAIN lines
      PROVE  /\ PaidLines(lines, v)[i] \in Line
             /\ PaidLines(lines, v)[i].on = lines[i].on
             /\ PaidLines(lines, v)[i].count = lines[i].count
             /\ PaidLines(lines, v)[i].due = lines[i].due
             /\ PaidLines(lines, v)[i].dispute = lines[i].dispute
  <2>1. PaidLines(lines, v)[i] = IF lines[i].on = None THEN lines[i]
                                 ELSE [lines[i] EXCEPT !.paidOn = @ \cup {v}]
    BY DEF PaidLines
  <2>2. lines[i] \in Line /\ lines[i].paidOn \cup {v} \in SUBSET Vans
    BY <1>1 DEF Line
  <2>3. \A x \in SUBSET Vans : /\ [lines[i] EXCEPT !.paidOn = x] \in Line
                               /\ [lines[i] EXCEPT !.paidOn = x].on = lines[i].on
                               /\ [lines[i] EXCEPT !.paidOn = x].count = lines[i].count
                               /\ [lines[i] EXCEPT !.paidOn = x].due = lines[i].due
                               /\ [lines[i] EXCEPT !.paidOn = x].dispute = lines[i].dispute
    BY <2>2 DEF Line
  <2> QED BY <2>1, <2>2, <2>3
<1>3. PaidLines(lines, v) = [i \in 1..Len(lines) |-> PaidLines(lines, v)[i]]
  BY <1>1 DEF PaidLines
<1>4. PaidLines(lines, v) \in [1..Len(lines) -> Line]
  BY <1>1, <1>2, <1>3
<1> QED BY <1>1, <1>2, <1>3, <1>4

LEMMA AfterType ==
    ASSUME Typed, NEW s \in Sessions, session[s].step = "write"
    PROVE  /\ TripsAfter(s) \in [Trips -> Row]
           /\ LinesAfter(s) \in [Trips -> Seq(Line)]
           /\ AccountsAfter(s) \in [Vans -> Account]
           /\ \A t \in Trips : session[s].plan.amount = 0 =>
                 LinesAfter(s)[t] = IF t = session[s].trip
                    THEN Merged(charged[t], session[s].read, session[s].plan.lines) ELSE charged[t]
           /\ \A t \in Trips : session[s].plan.amount # 0 =>
                 LinesAfter(s)[t] = PaidLines(IF t = session[s].trip
                    THEN Merged(charged[t], session[s].read, session[s].plan.lines) ELSE charged[t],
                    session[s].row.van)
<1> DEFINE now == session[s]
           plan == session[s].plan
<1>1. /\ plan.row \in Row /\ plan.lines \in Seq(Line) /\ now.read \in Seq(Line)
      /\ plan.owed \in [Vans -> Nat] /\ plan.amount \in Nat /\ plan.marks \in SUBSET Trips
      /\ now.trip \in Trips \cup {None} /\ None \notin Trips
      /\ \A t \in Trips : trip[t] \in Row /\ charged[t] \in Seq(Line)
      /\ \A v \in Vans : account[v] \in Account /\ account[v].owed \in Nat /\ account[v].settled \in Nat
  BY TypeFields DEF Typed
<1>2. /\ now.trip \in Trips => Len(now.read) <= Len(plan.lines)
      /\ plan.amount > 0 => now.row.van \in Vans
  BY <1>1 DEF Typed, Shape
<1>3. TripsAfter(s) \in [Trips -> Row]
  <2> DEFINE own == IF now.does = "list"
                    THEN [trip[now.trip] EXCEPT !.pay = IF plan.row.pay # now.row.pay
                                                        THEN plan.row.pay ELSE @]
                    ELSE plan.row
             written(t) == IF t = now.trip THEN own ELSE trip[t]
  <2>1. ASSUME NEW t \in Trips PROVE written(t) \in Row
    BY <1>1 DEF Row
  <2>2. TripsAfter(s) = [t \in Trips |-> IF t \in plan.marks
                            THEN [written(t) EXCEPT !.pay = "paid", !.locked = TRUE] ELSE written(t)]
    BY DEF TripsAfter
  <2> HIDE DEF written, plan
  <2>3. \A t \in Trips : [written(t) EXCEPT !.pay = "paid", !.locked = TRUE] \in Row
    BY <2>1 DEF Row
  <2> QED BY <2>1, <2>2, <2>3
<1>4. /\ LinesAfter(s) \in [Trips -> Seq(Line)]
      /\ \A t \in Trips : plan.amount = 0 =>
            LinesAfter(s)[t] = IF t = now.trip
               THEN Merged(charged[t], now.read, plan.lines) ELSE charged[t]
      /\ \A t \in Trips : plan.amount # 0 =>
            LinesAfter(s)[t] = PaidLines(IF t = now.trip
               THEN Merged(charged[t], now.read, plan.lines) ELSE charged[t], now.row.van)
  <2> DEFINE lines(t) == IF t = now.trip THEN Merged(charged[t], now.read, plan.lines) ELSE charged[t]
             van == now.row.van
  <2>1. ASSUME NEW t \in Trips PROVE lines(t) \in Seq(Line)
    <3>1. ASSUME t = now.trip PROVE Merged(charged[t], now.read, plan.lines) \in Seq(Line)
      <4>1. charged[t] \in Seq(Line) /\ Len(now.read) <= Len(plan.lines)
        BY <1>1, <1>2, <3>1
      <4> HIDE DEF now, plan
      <4> QED BY <1>1, <4>1, MergedType DEF MergesAs
    <3> QED BY <1>1, <3>1
  <2>2. LinesAfter(s) = [t \in Trips |-> IF plan.amount = 0 THEN lines(t) ELSE PaidLines(lines(t), van)]
    BY DEF LinesAfter
  <2>3. \A t \in Trips : plan.amount # 0 => PaidLines(lines(t), van) \in Seq(Line)
    <3>1. plan.amount # 0 => van \in Vans
      BY <1>1, <1>2
    <3> HIDE DEF lines, van, plan
    <3> QED BY <2>1, <3>1, PaidLinesType
  <2> HIDE DEF lines, van, plan
  <2>4. LinesAfter(s) \in [Trips -> Seq(Line)]
    BY <2>1, <2>2, <2>3
  <2>5. \A t \in Trips : /\ plan.amount = 0 => LinesAfter(s)[t] = lines(t)
                         /\ plan.amount # 0 => LinesAfter(s)[t] = PaidLines(lines(t), van)
    BY <2>2
  <2> QED BY <2>4, <2>5 DEF lines, van, plan
<1>5. AccountsAfter(s) \in [Vans -> Account]
  <2> DEFINE total(v) == IF v \in plan.writes THEN plan.owed[v] ELSE account[v].owed
             open(v) == account[v].open \/ v \in plan.writes
             high(v) == \/ total(v) > Reckon(TripsAfter(s), LinesAfter(s), v)
                        \/ account[v].high /\ v \notin plan.writes \cap now.holds
             settled(v) == account[v].settled + (IF v = now.row.van THEN plan.amount ELSE 0)
             after(v) == [open |-> open(v), owed |-> total(v), settled |-> settled(v), high |-> high(v)]
  <2>1. AccountsAfter(s) = [v \in Vans |-> after(v)]
    BY DEF AccountsAfter
  <2>2. ASSUME NEW v \in Vans
        PROVE  /\ open(v) \in BOOLEAN /\ high(v) \in BOOLEAN
               /\ total(v) \in Nat /\ settled(v) \in Nat
    BY <1>1
  <2> HIDE DEF open, total, settled, high
  <2>3. \A v \in Vans : after(v) \in Account
    BY <2>2 DEF Account
  <2> HIDE DEF after
  <2> QED BY <2>1, <2>3
<1> QED BY <1>3, <1>4, <1>5

-----------------------------------------------------------------------------
(***************************************************************************)
(* The steps of the specification, by what they read and write.            *)
(***************************************************************************)
\* A session looks at a trip, or gives up.
Looks(s) ==
    \E now \in Session :
        /\ Shape(now) /\ Swap(s, now) /\ past' = past
        /\ now.step \notin {"sync", "write"} /\ now.plan = NoPlan /\ now.holds = {}
        /\ now.does \in {"none", "list"}

\* A handler reads the lines of trip t, and holds it as `row'.
DOES == {"recount", "start", "depart", "pay", "list"}

Reads(s, t, does, row, holds, plan) ==
    /\ ReadLines(s, t, does, row, holds, plan)
    /\ does = "list" => /\ session[s].step = "list" /\ session[s].trip = t /\ row = session[s].row
                        /\ row.van # None /\ Waiting(row)
    /\ does # "list" =>
          /\ session[s].step = "idle" /\ TripFree(s, t)
          /\ row.pay = trip[t].pay /\ row.locked = trip[t].locked
          /\ \/ row.status = trip[t].status
             \/ does = "recount" /\ Waiting(trip[t]) /\ row.status = "cancelled"
             \/ does = "start" /\ trip[t].status = "scheduled" /\ row.status = "boarding"
             \/ does = "depart" /\ trip[t].status = "boarding" /\ row.status = "departed"
          /\ \/ row.van = trip[t].van
             \/ /\ does = "recount" /\ row.status = trip[t].status
                /\ row.van # None \/ trip[t].status = "scheduled"
          /\ does = "start" => row.van # None /\ row.status = "boarding"
          /\ does = "pay" => row = trip[t] /\ row.van # None /\ Waiting(row)
          /\ does = "depart" => row.status = "departed" /\ trip[t].status = "boarding"
    /\ \A v \in holds : ~AccountTaken(s, v) /\ v = trip[t].van /\ does = "recount"
    /\ plan.writes = holds /\ plan.amount = 0 /\ plan.marks = {}
    /\ does # "recount" => plan = NoPlan

\* A trip is written that no handler holds.
Writes(t, row) ==
    /\ Write(t, row)
    /\ Waiting(trip[t]) /\ Waiting(row)
    /\ row.locked = trip[t].locked
    /\ row.pay = trip[t].pay \/ (trip[t].pay # "paid" /\ row.pay # "paid")
    /\ row.status = "boarding" => row.van # None \/ row.status = trip[t].status
    /\ \/ row.van = trip[t].van /\ past' = past
       \/ trip[t].van = None /\ past' = [past EXCEPT ![t].astray = TRUE]

LEMMA TakeReads ==
    ASSUME Typed, NEW s \in Sessions, NEW t \in Trips,
           Recount(s, t) \/ PayTrip(s, t) \/ Void(s, t) \/ Start(s, t) \/ Depart(s, t)
    PROVE  \E does \in DOES, row \in Row, holds \in SUBSET Vans, plan \in Plan : Reads(s, t, does, row, holds, plan)
<1>1. trip[t] \in Row /\ NoPlan \in Plan /\ NoPlan.writes = {} /\ NoPlan.amount = 0 /\ NoPlan.marks = {}
  BY Start0, TypeFields DEF Typed
<1>2. ASSUME NEW does \in {"recount", "start", "depart", "pay"}, NEW row \in Row, Take(s, t, does, row),
             row.pay = trip[t].pay, row.locked = trip[t].locked, row.van = trip[t].van,
             \/ row.status = trip[t].status
             \/ does = "recount" /\ Waiting(trip[t]) /\ row.status = "cancelled"
             \/ does = "start" /\ trip[t].status = "scheduled" /\ row.status = "boarding"
             \/ does = "depart" /\ trip[t].status = "boarding" /\ row.status = "departed",
             does = "start" => row.van # None /\ row.status = "boarding",
             does = "pay" => row = trip[t] /\ row.van # None /\ Waiting(row),
             does = "depart" => row.status = "departed" /\ trip[t].status = "boarding"
      PROVE  Reads(s, t, does, row, {}, NoPlan)
  <2>1. ReadLines(s, t, does, row, {}, NoPlan) /\ TripFree(s, t) /\ session[s].step = "idle"
    BY <1>2, TakeIs
  <2>2. does # "list"
    BY <1>2
  <2> QED BY <1>1, <1>2, <2>1, <2>2 DEF Reads
<1>3. CASE Recount(s, t)
  <2>1. Reads(s, t, "recount", trip[t], {}, NoPlan)
    BY <1>1, <1>2, <1>3 DEF Recount
  <2> QED BY <1>1, <2>1 DEF DOES
<1>4. CASE PayTrip(s, t)
  <2>1. Reads(s, t, "pay", trip[t], {}, NoPlan)
    BY <1>1, <1>2, <1>4 DEF PayTrip
  <2> QED BY <1>1, <2>1 DEF DOES
<1>5. CASE Void(s, t)
  <2> DEFINE row == [trip[t] EXCEPT !.status = "cancelled"]
  <2>1. /\ row \in Row /\ row.pay = trip[t].pay /\ row.locked = trip[t].locked
        /\ row.van = trip[t].van /\ row.status = "cancelled"
    BY <1>1 DEF Row
  <2>2. Take(s, t, "recount", row) /\ Waiting(trip[t])
    BY <1>5 DEF Void
  <2> HIDE DEF row
  <2>3. Reads(s, t, "recount", row, {}, NoPlan)
    BY <1>2, <2>1, <2>2
  <2> QED BY <1>1, <2>1, <2>3 DEF DOES
<1>6. CASE Start(s, t)
  <2> DEFINE row == [trip[t] EXCEPT !.status = "boarding"]
  <2>1. /\ row \in Row /\ row.pay = trip[t].pay /\ row.locked = trip[t].locked
        /\ row.van = trip[t].van /\ row.status = "boarding"
    BY <1>1 DEF Row, BEFORE_DEPARTURE
  <2>2. Take(s, t, "start", row) /\ trip[t].status = "scheduled" /\ trip[t].van # None
    BY <1>6 DEF Start
  <2> HIDE DEF row
  <2>3. Reads(s, t, "start", row, {}, NoPlan)
    BY <1>2, <2>1, <2>2
  <2> QED BY <1>1, <2>1, <2>3 DEF DOES
<1>7. CASE Depart(s, t)
  <2> DEFINE row == [trip[t] EXCEPT !.status = "departed"]
  <2>1. /\ row \in Row /\ row.pay = trip[t].pay /\ row.locked = trip[t].locked
        /\ row.van = trip[t].van /\ row.status = "departed"
    BY <1>1 DEF Row
  <2>2. Take(s, t, "depart", row) /\ trip[t].status = "boarding"
    BY <1>7 DEF Depart
  <2> HIDE DEF row
  <2>3. Reads(s, t, "depart", row, {}, NoPlan)
    BY <1>2, <2>1, <2>2
  <2> QED BY <1>1, <2>1, <2>3 DEF DOES
<1> QED BY <1>3, <1>4, <1>5, <1>6, <1>7

LEMMA LeaveReads ==
    ASSUME Typed, NEW s \in Sessions, NEW t \in Trips, NEW v \in Vans \cup {None},
           Assign(s, t, v) \/ (ChangeVan(s, t, v) /\ v \in Vans)
    PROVE  \E does \in DOES, row \in Row, holds \in SUBSET Vans, plan \in Plan : Reads(s, t, does, row, holds, plan)
<1> DEFINE row == [trip[t] EXCEPT !.van = v]
           left == {u \in Vans : u = trip[t].van /\ account[u].open}
           owed == [u \in Vans |-> Reckon([trip EXCEPT ![t] = row], charged, u)]
           plan == [NoPlan EXCEPT !.writes = left, !.owed = owed]
<1>1. trip[t] \in Row /\ NoPlan \in Plan /\ NoPlan.writes = {} /\ NoPlan.amount = 0 /\ NoPlan.marks = {}
      /\ charged \in [Trips -> Seq(Line)] /\ None \notin Vans
  BY Start0, TypeFields DEF Typed
<1>2. /\ row \in Row /\ row.pay = trip[t].pay /\ row.locked = trip[t].locked
      /\ row.van = v /\ row.status = trip[t].status
  BY <1>1 DEF Row
<1>3. /\ session[s].step = "idle" /\ TripFree(s, t)
      /\ \A u \in left : ~AccountTaken(s, u) /\ u = trip[t].van
      /\ ReadLines(s, t, "recount", row, left, plan)
      /\ v # None \/ trip[t].status = "scheduled"
  BY <1>1 DEF Assign, ChangeVan, Leave
<1>4. /\ plan \in Plan /\ plan.writes = left /\ plan.amount = 0 /\ plan.marks = {}
      /\ left \in SUBSET Vans
  <2>1. owed \in [Vans -> Nat]
    <3>1. \A u \in Vans : Reckon([trip EXCEPT ![t] = row], charged, u) \in Nat
      <4> HIDE DEF row
      <4> QED BY <1>1, TripSums
    <3> HIDE DEF row
    <3> QED BY <3>1
  <2>2. left \in SUBSET Vans
    OBVIOUS
  <2> HIDE DEF owed, left
  <2> QED BY <1>1, <2>1, <2>2 DEF Plan
<1> HIDE DEF row, left, plan
<1>5. Reads(s, t, "recount", row, left, plan)
  BY <1>2, <1>3, <1>4 DEF Reads
<1> QED BY <1>2, <1>4, <1>5 DEF DOES

LEMMA ListReads ==
    ASSUME Typed, NEW s \in Sessions, ReadTheirLines(s)
    PROVE  \E t \in Trips, does \in DOES, row \in Row, holds \in SUBSET Vans, plan \in Plan :
              Reads(s, t, does, row, holds, plan)
<1>1. /\ session[s].trip \in Trips /\ session[s].row \in Row /\ NoPlan \in Plan
      /\ NoPlan.writes = {} /\ NoPlan.amount = 0 /\ NoPlan.marks = {}
      /\ session[s].row.van # None /\ Waiting(session[s].row)
  BY Start0, TypeFields DEF Typed, Shape, ReadTheirLines
<1>2. Reads(s, session[s].trip, "list", session[s].row, {}, NoPlan)
  BY <1>1 DEF ReadTheirLines, Reads
<1> QED BY <1>1, <1>2 DEF DOES

LEMMA OfficeWrites ==
    ASSUME Typed, NEW t \in Trips,
           \/ StartOverridden(t) \/ FallBackStart(t) \/ Override(t)
           \/ \E v \in Vans : DetectedStart(t, v)
    PROVE  \E row \in Row : Writes(t, row)
<1>1. trip[t] \in Row /\ None \notin Vans
  BY TypeFields DEF Typed
<1>2. CASE StartOverridden(t) \/ FallBackStart(t)
  <2> DEFINE row == [trip[t] EXCEPT !.status = "boarding"]
  <2>1. /\ row \in Row /\ row.pay = trip[t].pay /\ row.locked = trip[t].locked
        /\ row.van = trip[t].van /\ row.status = "boarding"
    BY <1>1 DEF Row, BEFORE_DEPARTURE
  <2>2. /\ Write(t, row) /\ trip[t].status = "scheduled" /\ trip[t].van # None /\ past' = past
    BY <1>2 DEF StartOverridden, FallBackStart
  <2> HIDE DEF row
  <2>3. Writes(t, row)
    BY <2>1, <2>2 DEF Writes, Waiting, BEFORE_DEPARTURE
  <2> QED BY <2>1, <2>3
<1>3. CASE Override(t)
  <2> DEFINE row == [trip[t] EXCEPT !.override = TRUE, !.pay = IF @ = "paid" THEN @ ELSE "overridden"]
  <2>1. /\ row \in Row /\ row.locked = trip[t].locked
        /\ row.van = trip[t].van /\ row.status = trip[t].status
        /\ row.pay = IF trip[t].pay = "paid" THEN trip[t].pay ELSE "overridden"
    BY <1>1 DEF Row
  <2>2. Write(t, row) /\ Waiting(trip[t]) /\ past' = past
    BY <1>3 DEF Override
  <2> HIDE DEF row
  <2>3. Writes(t, row)
    BY <2>1, <2>2 DEF Writes, Waiting
  <2> QED BY <2>1, <2>3
<1>4. ASSUME NEW v \in Vans, DetectedStart(t, v) PROVE \E row \in Row : Writes(t, row)
  <2> DEFINE row == [trip[t] EXCEPT !.status = "boarding", !.van = v]
  <2>1. /\ row \in Row /\ row.pay = trip[t].pay /\ row.locked = trip[t].locked
        /\ row.van = v /\ row.status = "boarding" /\ v # None
    BY <1>1 DEF Row, BEFORE_DEPARTURE
  <2>2. /\ Write(t, row) /\ trip[t].status = "scheduled" /\ trip[t].van = None
        /\ past' = [past EXCEPT ![t].astray = TRUE]
    BY <1>4 DEF DetectedStart
  <2> HIDE DEF row
  <2>3. Writes(t, row)
    BY <2>1, <2>2 DEF Writes, Waiting, BEFORE_DEPARTURE
  <2> QED BY <2>1, <2>3
<1> QED BY <1>2, <1>3, <1>4

LEMMA LooksCases ==
    ASSUME Typed, NEW s \in Sessions,
           (\E t \in Trips : MarkPaid(s, t) \/ CancelSeat(s, t) \/ ReadTrips(s, t)) \/ RollBack(s)
    PROVE  Looks(s)
<1>1. ASSUME NEW t \in Trips, NEW step \in {"mark", "cancel"}, Desk(s, t, step) PROVE Looks(s)
  BY <1>1, DeskIs DEF Looks
<1>2. ASSUME NEW t \in Trips, ReadTrips(s, t) PROVE Looks(s)
  BY <1>2, ReadTripsIs DEF Looks
<1>3. CASE RollBack(s)
  <2>1. Swap(s, Idle) /\ past' = past
    BY <1>3, EndIs DEF RollBack
  <2> QED BY <2>1, Start0 DEF Looks
<1> QED BY <1>1, <1>2, <1>3 DEF MarkPaid, CancelSeat

Settles(t, i) ==
    \E dispute \in {"withdrawn", "resolved"}, due \in Nat : Settle(t, i, dispute, due)

\* Every step is one of these.
LEMMA Cases ==
    ASSUME Typed, Next
    PROVE  /\ acts' \in 0..MaxActs
           /\ \/ \E s \in Sessions : Looks(s)
              \/ \E s \in Sessions, t \in Trips, does \in DOES, row \in Row, holds \in SUBSET Vans, plan \in Plan :
                    Reads(s, t, does, row, holds, plan)
              \/ \E s \in Sessions : Sync(s)
              \/ \E s \in Sessions, v \in Vans : PayStatement(s, v)
              \/ \E s \in Sessions : Commit(s)
              \/ \E s \in Sessions : CommitMark(s)
              \/ \E s \in Sessions : CommitCancel(s)
              \/ \E t \in Trips, row \in Row : Writes(t, row)
              \/ \E v \in Vans : ChargeParking(v)
              \/ \E t \in Trips : \E i \in DOMAIN charged[t] : Raise(t, i)
              \/ \E t \in Trips : \E i \in DOMAIN charged[t] : Settles(t, i)
<1>1. acts' \in 0..MaxActs
  BY DEF Typed, TypeOK, Next, StatementAssumption
<1>2. ASSUME NEW s \in Sessions, Handle(s)
      PROVE  \/ Looks(s)
             \/ \E t \in Trips, does \in DOES, row \in Row, holds \in SUBSET Vans, plan \in Plan :
                   Reads(s, t, does, row, holds, plan)
             \/ \E v \in Vans : PayStatement(s, v)
  <2>1. ASSUME NEW t \in Trips, MarkPaid(s, t) \/ CancelSeat(s, t) \/ ReadTrips(s, t) PROVE Looks(s)
    BY <2>1, LooksCases
  <2>2. ASSUME NEW t \in Trips,
               Recount(s, t) \/ PayTrip(s, t) \/ Void(s, t) \/ Start(s, t) \/ Depart(s, t)
        PROVE  \E u \in Trips, does \in DOES, row \in Row, holds \in SUBSET Vans, plan \in Plan :
                  Reads(s, u, does, row, holds, plan)
    BY <2>2, TakeReads
  <2>3. ASSUME NEW t \in Trips, NEW v \in Vans \cup {None},
               Assign(s, t, v) \/ (ChangeVan(s, t, v) /\ v \in Vans)
        PROVE  \E u \in Trips, does \in DOES, row \in Row, holds \in SUBSET Vans, plan \in Plan :
                  Reads(s, u, does, row, holds, plan)
    BY <2>3, LeaveReads
  <2> QED BY <1>2, <2>1, <2>2, <2>3 DEF Handle
<1>3. ASSUME NEW s \in Sessions, Proceed(s)
      PROVE  \/ Looks(s) \/ Sync(s) \/ Commit(s) \/ CommitMark(s) \/ CommitCancel(s)
             \/ \E t \in Trips, does \in DOES, row \in Row, holds \in SUBSET Vans, plan \in Plan :
                   Reads(s, t, does, row, holds, plan)
  BY <1>3, LooksCases, ListReads DEF Proceed
<1>4. ASSUME Office
      PROVE  \/ \E t \in Trips, row \in Row : Writes(t, row)
             \/ \E v \in Vans : ChargeParking(v)
             \/ \E t \in Trips : \E i \in DOMAIN charged[t] : Raise(t, i)
             \/ \E t \in Trips : \E i \in DOMAIN charged[t] : Settles(t, i)
  <2>1. ASSUME NEW t \in Trips, \/ StartOverridden(t) \/ FallBackStart(t) \/ Override(t)
                                \/ \E v \in Vans : DetectedStart(t, v)
        PROVE  \E row \in Row : Writes(t, row)
    BY <2>1, OfficeWrites
  <2>2. ASSUME NEW t \in Trips, NEW i \in DOMAIN charged[t], Withdraw(t, i) \/ Decide(t, i)
        PROVE  Settles(t, i)
    <3>1. charged[t] \in Seq(Line)
      BY TypeFields DEF Typed
    <3>2. Share(charged[t][i]) \in Nat
      BY <3>1, LineFields
    <3> QED BY <2>2, <3>2 DEF Withdraw, Decide, Settles
  <2> QED BY <1>4, <2>1, <2>2 DEF Office
<1> QED BY <1>1, <1>2, <1>3, <1>4 DEF Next

-----------------------------------------------------------------------------
(***************************************************************************)
(* Type correctness.                                                       *)
(***************************************************************************)
LEMMA InitTyped ==
    ASSUME Init
    PROVE  Typed
<1>1. <<>> \in Seq(Line)
  OBVIOUS
<1>2. trip \in [Trips -> Row] /\ session \in [Sessions -> Session]
  BY Start0 DEF Init
<1>3. charged \in [Trips -> Seq(Line)]
  BY <1>1 DEF Init
<1>4. account \in [Vans -> Account] /\ past \in [Trips -> Past]
  BY DEF Init, Account, Past
<1>5. listed \in [Trips -> Nat] /\ (\A t \in Trips : listed[t] <= MaxSeats[t]) /\ acts \in 0..MaxActs
  BY DEF Init, StatementAssumption
<1>6. \A s \in Sessions : Shape(session[s])
  BY Start0 DEF Init
<1> QED BY <1>2, <1>3, <1>4, <1>5, <1>6 DEF Typed, TypeOK

LEMMA ReadsTyped ==
    ASSUME Typed, NEW s \in Sessions, NEW t \in Trips, NEW does \in DOES, NEW row \in Row,
           NEW holds \in SUBSET Vans, NEW plan \in Plan, Reads(s, t, does, row, holds, plan),
           acts' \in 0..MaxActs
    PROVE  Typed'
<1>1. /\ ReadLines(s, t, does, row, holds, plan) /\ plan.amount = 0 /\ plan.marks = {}
      /\ does = "list" => row.van # None /\ Waiting(row)
      /\ does \in {"recount", "start", "depart", "pay", "list"}
  BY DEF Reads, DOES
<1>2. PICK now \in Session : ReadAs(s, t, does, row, holds, plan, now)
  BY <1>1, ReadLinesIs
<1> QED BY <1>2, SwapTyped DEF ReadAs

LEMMA SyncTyped ==
    ASSUME Typed, NEW s \in Sessions, Sync(s), acts' \in 0..MaxActs
    PROVE  Typed'
<1>1. PICK row \in Row, amount \in Nat, marks \in SUBSET Trips : Syncs(s, row, amount, marks)
  BY SyncIs
<1>2. PICK now \in Session : PlannedAs(s, row, amount, marks, now)
  BY <1>1, PlanningIs DEF Syncs
<1>3. past' \in [Trips -> Past]
  BY <1>2, AfreshType DEF PlannedAs
<1> QED BY <1>2, <1>3, SwapTyped DEF PlannedAs

LEMMA PayStatementTyped ==
    ASSUME Typed, NEW s \in Sessions, NEW v \in Vans, PayStatement(s, v), acts' \in 0..MaxActs
    PROVE  Typed'
<1>1. PICK n \in Nat, marks \in SUBSET Trips, now \in Session : Pays(s, v, n, marks, now)
  BY PayStatementIs
<1>2. past' \in [Trips -> Past]
  BY <1>1, AfreshType DEF Pays
<1> QED BY <1>1, <1>2, SwapTyped DEF Pays

\* What a commit leaves of the history.
Gone(s, t) ==
    IF t = session[s].trip THEN Strays(s)
    ELSE t \in session[s].plan.marks /\ trip[t].van # session[s].row.van

LEMMA CommitPast ==
    ASSUME Typed, NEW s \in Sessions, Commit(s)
    PROVE  /\ past' \in [Trips -> Past]
           /\ \A t \in Trips : /\ past'[t].mixed = past[t].mixed /\ past'[t].missed = past[t].missed
                               /\ past'[t].astray = (past[t].astray \/ Gone(s, t))
<1> DEFINE gone(u) == past[u].astray \/ Gone(s, u)
<1>1. past' = [t \in Trips |-> [past[t] EXCEPT !.astray = gone(t)]]
  BY DEF Commit, Gone
<1>2. \A t \in Trips : past[t] \in Past
  BY TypeFields DEF Typed
<1>3. \A t \in Trips : past[t].astray \in BOOLEAN
  BY <1>2 DEF Past
<1>4. \A t \in Trips : gone(t) \in BOOLEAN
  OBVIOUS
<1> HIDE DEF gone
<1>5. \A t \in Trips : /\ [past[t] EXCEPT !.astray = gone(t)] \in Past
                       /\ [past[t] EXCEPT !.astray = gone(t)].mixed = past[t].mixed
                       /\ [past[t] EXCEPT !.astray = gone(t)].missed = past[t].missed
                       /\ [past[t] EXCEPT !.astray = gone(t)].astray = gone(t)
  BY <1>2, <1>4 DEF Past
<1>6. past' \in [Trips -> Past]
  BY <1>1, <1>5
<1>7. \A t \in Trips : /\ past'[t].mixed = past[t].mixed /\ past'[t].missed = past[t].missed
                       /\ past'[t].astray = gone(t)
  BY <1>1, <1>5
<1> QED BY <1>6, <1>7 DEF gone

LEMMA CommitIs ==
    ASSUME Typed, NEW s \in Sessions, Commit(s)
    PROVE  /\ session[s].step = "write"
           /\ trip' = TripsAfter(s) /\ charged' = LinesAfter(s) /\ account' = AccountsAfter(s)
           /\ listed' = listed
           /\ session' = [session EXCEPT ![s] = Idle]
           /\ \A v \in session[s].plan.writes : ~AccountTaken(s, v)
           /\ \A t \in session[s].plan.marks : TripFree(s, t)
           /\ (session[s].does = "list" /\ session[s].plan.row.pay # session[s].row.pay)
                 => TripFree(s, session[s].trip)
  BY DEF Commit, End

LEMMA CommitTyped ==
    ASSUME Typed, NEW s \in Sessions, Commit(s), acts' \in 0..MaxActs
    PROVE  Typed'
<1>1. /\ trip' \in [Trips -> Row] /\ charged' \in [Trips -> Seq(Line)]
      /\ account' \in [Vans -> Account] /\ past' \in [Trips -> Past]
  BY CommitIs, AfterType, CommitPast
<1>2. session' \in [Sessions -> Session] /\ \A q \in Sessions : Shape(session'[q])
  <2>1. session' = [session EXCEPT ![s] = Idle]
    BY CommitIs
  <2>2. session \in [Sessions -> Session] /\ \A q \in Sessions : Shape(session[q])
    BY DEF Typed, TypeOK
  <2> QED BY <2>1, <2>2, Start0
<1>3. listed' = listed
  BY CommitIs
<1>4. \A q \in Sessions : Shape(session[q])'
  BY <1>2 DEF Shape
<1> QED BY <1>1, <1>2, <1>3, <1>4 DEF Typed, TypeOK

LEMMA MarkIs ==
    ASSUME Typed, NEW s \in Sessions, CommitMark(s)
    PROVE  /\ session[s].trip \in Trips /\ session[s].step = "mark"
           /\ listed' = [listed EXCEPT ![session[s].trip] = listed[session[s].trip] + 1]
           /\ listed[session[s].trip] < MaxSeats[session[s].trip]
           /\ past' \in [Trips -> Past]
           /\ \A t \in Trips :
                 /\ past'[t].mixed = past[t].mixed /\ past'[t].astray = past[t].astray
                 /\ past'[t].missed = IF t = session[s].trip /\ Counted(t) THEN past[t].missed + 1
                                      ELSE past[t].missed
           /\ session' = [session EXCEPT ![s] = Idle]
           /\ UNCHANGED <<trip, charged, account>>
<1> DEFINE t == session[s].trip
           n == IF Counted(t) THEN past[t].missed + 1 ELSE past[t].missed
<1>1. t \in Trips /\ session[s].step = "mark"
  BY DEF CommitMark, Typed, Shape
<1>2. past \in [Trips -> Past] /\ past[t] \in Past /\ past[t].missed \in Nat
  BY <1>1, TypeFields DEF Typed
<1>3. past' = [past EXCEPT ![t] = [past[t] EXCEPT !.missed = n]]
  BY <1>1, <1>2 DEF CommitMark
<1>4. n \in Nat
  BY <1>2
<1>5. listed' = [listed EXCEPT ![t] = listed[t] + 1] /\ listed[t] < MaxSeats[t]
      /\ session' = [session EXCEPT ![s] = Idle] /\ UNCHANGED <<trip, charged, account>>
  BY DEF CommitMark, End
<1> HIDE DEF n
<1>6. /\ [past[t] EXCEPT !.missed = n] \in Past
      /\ [past[t] EXCEPT !.missed = n].mixed = past[t].mixed
      /\ [past[t] EXCEPT !.missed = n].astray = past[t].astray
      /\ [past[t] EXCEPT !.missed = n].missed = n
  BY <1>2, <1>4 DEF Past
<1>7. past' \in [Trips -> Past]
  BY <1>1, <1>2, <1>3, <1>6
<1>8. \A u \in Trips :
         /\ past'[u].mixed = past[u].mixed /\ past'[u].astray = past[u].astray
         /\ past'[u].missed = IF u = t THEN n ELSE past[u].missed
  BY <1>1, <1>2, <1>3, <1>6
<1> QED BY <1>1, <1>5, <1>7, <1>8 DEF n

LEMMA CancelIs ==
    ASSUME Typed, NEW s \in Sessions, CommitCancel(s)
    PROVE  /\ session[s].trip \in Trips /\ session[s].step = "cancel"
           /\ listed' = [listed EXCEPT ![session[s].trip] = listed[session[s].trip] - 1]
           /\ listed[session[s].trip] > 0
           /\ past' = past
           /\ session' = [session EXCEPT ![s] = Idle]
           /\ UNCHANGED <<trip, charged, account>>
  BY DEF CommitCancel, End, Typed, Shape

LEMMA DeskTyped ==
    ASSUME Typed, NEW s \in Sessions, CommitMark(s) \/ CommitCancel(s), acts' \in 0..MaxActs
    PROVE  Typed'
<1>1. listed \in [Trips -> Nat] /\ \A t \in Trips : listed[t] <= MaxSeats[t] /\ MaxSeats[t] \in Nat
  BY TypeFields DEF Typed
<1>2. listed' \in [Trips -> Nat] /\ \A t \in Trips : listed'[t] <= MaxSeats[t]
  <2>1. CASE CommitMark(s)
    BY <1>1, <2>1, MarkIs
  <2>2. CASE CommitCancel(s)
    BY <1>1, <2>2, CancelIs
  <2> QED BY <2>1, <2>2
<1>3. /\ past' \in [Trips -> Past] /\ session' = [session EXCEPT ![s] = Idle]
      /\ UNCHANGED <<trip, charged, account>>
  BY MarkIs, CancelIs, TypeFields DEF Typed
<1>4. session' \in [Sessions -> Session] /\ \A q \in Sessions : Shape(session'[q])
  <2>1. session \in [Sessions -> Session] /\ \A q \in Sessions : Shape(session[q])
    BY DEF Typed, TypeOK
  <2> QED BY <1>3, <2>1, Start0
<1>5. \A q \in Sessions : Shape(session[q])'
  BY <1>4 DEF Shape
<1> QED BY <1>2, <1>3, <1>4, <1>5 DEF Typed, TypeOK

LEMMA WritesIs ==
    ASSUME Typed, NEW t \in Trips, NEW row \in Row, Writes(t, row)
    PROVE  /\ trip' = [trip EXCEPT ![t] = row] /\ trip' \in [Trips -> Row] /\ RowFree(t)
           /\ UNCHANGED <<listed, charged, account, session>>
           /\ past' \in [Trips -> Past]
           /\ \A u \in Trips : /\ past'[u].mixed = past[u].mixed /\ past'[u].missed = past[u].missed
                               /\ past[u].astray => past'[u].astray
                               /\ u # t => past'[u] = past[u]
           /\ row.van # trip[t].van => past'[t].astray
<1>1. trip \in [Trips -> Row] /\ past \in [Trips -> Past] /\ \A u \in Trips : past[u] \in Past
  BY TypeFields DEF Typed
<1>2. /\ trip' = [trip EXCEPT ![t] = row] /\ RowFree(t)
      /\ UNCHANGED <<listed, charged, account, session>>
  BY DEF Writes, Write
<1>3. trip' \in [Trips -> Row]
  BY <1>1, <1>2
<1>4. CASE row.van = trip[t].van /\ past' = past
  BY <1>1, <1>2, <1>3, <1>4
<1>5. CASE trip[t].van = None /\ past' = [past EXCEPT ![t].astray = TRUE]
  <2>1. past' = [past EXCEPT ![t] = [past[t] EXCEPT !.astray = TRUE]]
    BY <1>1, <1>5
  <2>2. /\ [past[t] EXCEPT !.astray = TRUE] \in Past /\ [past[t] EXCEPT !.astray = TRUE].astray
        /\ [past[t] EXCEPT !.astray = TRUE].mixed = past[t].mixed
        /\ [past[t] EXCEPT !.astray = TRUE].missed = past[t].missed
    BY <1>1 DEF Past
  <2>3. past'[t] = [past[t] EXCEPT !.astray = TRUE] /\ \A u \in Trips : u # t => past'[u] = past[u]
    BY <1>1, <2>1
  <2> HIDE DEF Typed
  <2>4. past' \in [Trips -> Past]
    BY <1>1, <2>1, <2>2
  <2> QED BY <1>1, <1>2, <1>3, <2>2, <2>3, <2>4
<1> QED BY <1>4, <1>5 DEF Writes

LEMMA ParkingIs ==
    ASSUME Typed, NEW v \in Vans, ChargeParking(v)
    PROVE  /\ account' \in [Vans -> Account] /\ AccountFree(v) /\ ~account[v].open
           /\ \A u \in Vans : u # v => account'[u] = account[u]
           /\ account'[v].open /\ account'[v].owed = Reckon(trip, charged, v)
           /\ account'[v].settled = account[v].settled /\ account'[v].high = account[v].high
           /\ UNCHANGED <<trip, listed, charged, session, past>>
<1> DEFINE now == [account[v] EXCEPT !.open = TRUE, !.owed = Reckon(trip, charged, v)]
<1>1. account \in [Vans -> Account] /\ account[v] \in Account /\ Reckon(trip, charged, v) \in Nat
  BY TypeFields, TripSums DEF Typed
<1>2. /\ now \in Account /\ now.open /\ now.owed = Reckon(trip, charged, v)
      /\ now.settled = account[v].settled /\ now.high = account[v].high
  BY <1>1 DEF Account
<1>3. account' = [account EXCEPT ![v] = now]
  BY DEF ChargeParking
<1> HIDE DEF now
<1> QED BY <1>1, <1>2, <1>3 DEF ChargeParking

LEMMA RaiseIs ==
    ASSUME Typed, NEW t \in Trips, NEW i \in DOMAIN charged[t], Raise(t, i)
    PROVE  /\ charged[t] \in Seq(Line) /\ charged[t][i] \in Line
           /\ charged' = [charged EXCEPT ![t] =
                 [charged[t] EXCEPT ![i] = [charged[t][i] EXCEPT !.dispute = "open"]]]
           /\ charged' \in [Trips -> Seq(Line)]
           /\ charged[t][i].on # None /\ charged[t][i].dispute \in {"none", "withdrawn"}
           /\ Live(trip[t]) /\ RowFree(t) /\ AccountFree(charged[t][i].on)
           /\ UNCHANGED <<trip, listed, account, session, past>>
<1> DEFINE l == [charged[t][i] EXCEPT !.dispute = "open"]
<1>1. charged[t] \in Seq(Line) /\ charged \in [Trips -> Seq(Line)]
  BY TypeFields DEF Typed
<1>2. charged[t][i] \in Line /\ DOMAIN charged[t] = 1..Len(charged[t])
  BY <1>1, LineFields
<1>3. l \in Line
  BY <1>2 DEF Line, DISPUTES
<1>4. charged' = [charged EXCEPT ![t] = [charged[t] EXCEPT ![i] = l]]
  BY <1>1, <1>2 DEF Raise
<1>5. [charged[t] EXCEPT ![i] = l] \in Seq(Line)
  <2> HIDE DEF l
  <2> QED BY <1>1, <1>2, <1>3, ExceptSeq
<1>6. charged' \in [Trips -> Seq(Line)]
  <2> HIDE DEF l
  <2> QED BY <1>1, <1>4, <1>5
<1> QED BY <1>1, <1>2, <1>4, <1>6 DEF Raise

\* A dispute withdrawn or decided.
Settled(t, i, dispute, due) ==
    /\ charged[t] \in Seq(Line) /\ charged[t][i] \in Line
    /\ charged[t][i].on \in Vans /\ charged[t][i].dispute = "open"
    /\ RowFree(t) /\ AccountFree(charged[t][i].on)
    /\ charged' = [charged EXCEPT ![t] =
          [charged[t] EXCEPT ![i] = [charged[t][i] EXCEPT !.dispute = dispute, !.due = due]]]
    /\ charged' \in [Trips -> Seq(Line)]
    /\ account' \in [Vans -> Account]
    /\ \A u \in Vans : u # charged[t][i].on => account'[u] = account[u]
    /\ account'[charged[t][i].on].open = account[charged[t][i].on].open
    /\ account'[charged[t][i].on].settled = account[charged[t][i].on].settled
    /\ account'[charged[t][i].on].owed = Reckon(trip, charged', charged[t][i].on)
    /\ ~account'[charged[t][i].on].high
    /\ trip' \in [Trips -> Row]
    /\ SettledTrip(t, charged[t][i].on)
    /\ trip' = trip \/ (trip' = [trip EXCEPT ![t] = [trip[t] EXCEPT !.pay = "unpaid"]]
                        /\ trip[t].pay = "paid" /\ Waiting(trip[t]))
    /\ UNCHANGED <<listed, session, past>>

LEMMA SettleIs ==
    ASSUME Typed, NEW t \in Trips, NEW i \in DOMAIN charged[t],
           NEW dispute \in {"withdrawn", "resolved"}, NEW due \in Nat, Settle(t, i, dispute, due)
    PROVE  Settled(t, i, dispute, due)
<1> DEFINE l == [charged[t][i] EXCEPT !.dispute = dispute, !.due = due]
           v == charged[t][i].on
           now == [account[v] EXCEPT !.owed = Reckon(trip, charged', v), !.high = FALSE]
<1>1. charged[t] \in Seq(Line) /\ charged \in [Trips -> Seq(Line)] /\ account \in [Vans -> Account]
      /\ trip \in [Trips -> Row] /\ trip[t] \in Row
  BY TypeFields DEF Typed
<1>2. /\ charged[t][i] \in Line /\ DOMAIN charged[t] = 1..Len(charged[t])
      /\ v \in Vans \cup {None}
  BY <1>1, LineFields
<1>3. l \in Line
  BY <1>2 DEF Line, DISPUTES
<1>4. charged' = [charged EXCEPT ![t] = [charged[t] EXCEPT ![i] = l]]
      /\ v \in Vans /\ charged[t][i].dispute = "open" /\ RowFree(t) /\ AccountFree(v)
      /\ SettledTrip(t, v) /\ UNCHANGED <<listed, session, past>>
  BY <1>1, <1>2 DEF Settle
<1>5. [charged[t] EXCEPT ![i] = l] \in Seq(Line)
  <2> HIDE DEF l
  <2> QED BY <1>1, <1>2, <1>3, ExceptSeq
<1>6. charged' \in [Trips -> Seq(Line)]
  <2> HIDE DEF l
  <2> QED BY <1>1, <1>4, <1>5
<1>7. account' = [account EXCEPT ![v] = now]
  BY DEF Settle
<1>8. /\ now \in Account /\ now.open = account[v].open /\ now.settled = account[v].settled
      /\ now.owed = Reckon(trip, charged', v) /\ ~now.high
  <2>1. account[v] \in Account /\ Reckon(trip, charged', v) \in Nat
    BY <1>1, <1>4, <1>6, TripSums
  <2> QED BY <2>1 DEF Account
<1>9. /\ account' \in [Vans -> Account] /\ account'[v] = now
      /\ \A u \in Vans : u # v => account'[u] = account[u]
  <2> HIDE DEF now
  <2> QED BY <1>1, <1>4, <1>7, <1>8
<1>10. /\ trip' \in [Trips -> Row]
       /\ trip' = trip \/ (trip' = [trip EXCEPT ![t] = [trip[t] EXCEPT !.pay = "unpaid"]]
                           /\ trip[t].pay = "paid" /\ Waiting(trip[t]))
  <2>1. trip' = trip \/ (trip' = [trip EXCEPT ![t].pay = "unpaid"]
                         /\ trip[t].pay = "paid" /\ Waiting(trip[t]))
    BY <1>4 DEF SettledTrip
  <2>2. [trip[t] EXCEPT !.pay = "unpaid"] \in Row
    BY <1>1 DEF Row
  <2>3. [trip EXCEPT ![t].pay = "unpaid"] = [trip EXCEPT ![t] = [trip[t] EXCEPT !.pay = "unpaid"]]
    BY <1>1
  <2> QED BY <1>1, <2>1, <2>2, <2>3
<1> HIDE DEF now
<1> QED BY <1>1, <1>2, <1>4, <1>6, <1>8, <1>9, <1>10 DEF Settled

LEMMA OfficeTyped ==
    ASSUME Typed, acts' \in 0..MaxActs,
           \/ \E t \in Trips, row \in Row : Writes(t, row)
           \/ \E v \in Vans : ChargeParking(v)
           \/ \E t \in Trips : \E i \in DOMAIN charged[t] : Raise(t, i)
           \/ \E t \in Trips : \E i \in DOMAIN charged[t] : Settles(t, i)
    PROVE  Typed'
<1>1. /\ trip \in [Trips -> Row] /\ charged \in [Trips -> Seq(Line)] /\ account \in [Vans -> Account]
      /\ past \in [Trips -> Past]
  BY TypeFields DEF Typed
<1>2. ASSUME NEW t \in Trips, NEW row \in Row, Writes(t, row) PROVE Typed'
  BY <1>1, <1>2, WritesIs, RowsTyped
<1>3. ASSUME NEW v \in Vans, ChargeParking(v) PROVE Typed'
  BY <1>1, <1>3, ParkingIs, RowsTyped
<1>4. ASSUME NEW t \in Trips, NEW i \in DOMAIN charged[t], Raise(t, i) PROVE Typed'
  BY <1>1, <1>4, RaiseIs, RowsTyped
<1>5. ASSUME NEW t \in Trips, NEW i \in DOMAIN charged[t],
             NEW dispute \in {"withdrawn", "resolved"}, NEW due \in Nat, Settle(t, i, dispute, due)
      PROVE  Typed'
  <2>1. /\ trip' \in [Trips -> Row] /\ charged' \in [Trips -> Seq(Line)] /\ account' \in [Vans -> Account]
        /\ UNCHANGED <<listed, session, past>>
    BY <1>5, SettleIs DEF Settled
  <2> QED BY <1>1, <2>1, RowsTyped
<1> QED BY <1>2, <1>3, <1>4, <1>5 DEF Settles

LEMMA NextTyped ==
    ASSUME Typed, [Next]_vars
    PROVE  Typed'
<1>1. CASE UNCHANGED vars
  BY <1>1 DEF vars, Typed, TypeOK, Shape
<1>2. CASE Next
  <2>1. acts' \in 0..MaxActs
    BY <1>2, Cases
  <2>2. ASSUME NEW s \in Sessions, Looks(s) PROVE Typed'
    <3>1. past \in [Trips -> Past]
      BY TypeFields DEF Typed
    <3> QED BY <2>1, <2>2, <3>1, SwapTyped DEF Looks
  <2> QED BY <1>2, <2>1, <2>2, Cases, ReadsTyped, SyncTyped, PayStatementTyped, CommitTyped,
             DeskTyped, OfficeTyped
<1> QED BY <1>1, <1>2

\* Trips, lines, statements and handlers stay of their types in every run.
THEOREM TypeCorrect == Spec => []TypeOK
<1>1. Init => Typed
  BY InitTyped
<1>2. Typed /\ [Next]_vars => Typed'
  BY NextTyped
<1>3. Typed => TypeOK
  BY DEF Typed
<1> QED BY <1>1, <1>2, <1>3, PTL DEF Spec

-----------------------------------------------------------------------------
(***************************************************************************)
(* Payments.  A statement is locked by one session; what a session is      *)
(* about to record as paid fits the total it writes, and no total is above *)
(* what its lines and trips come to but those that came out too high.      *)
(***************************************************************************)
HoldsApart ==
    \A s, q \in Sessions : s # q => session[s].holds \cap session[q].holds = {}

Fits(s) ==
    LET now == session[s]
        v == now.row.van
        plan == now.plan
    IN /\ now.step = "sync" /\ now.does # "recount" => plan = NoPlan /\ now.holds = {}
       /\ plan.amount > 0 =>
             /\ v \in plan.writes /\ v \in now.holds
             /\ ~account[v].high => account[v].settled + plan.amount <= plan.owed[v]

Total(v) ==
    ~account[v].high => account[v].owed <= Reckon(trip, charged, v)

Payments ==
    /\ Typed /\ HoldsApart
    /\ \A s \in Sessions : Fits(s)
    /\ \A v \in Vans : Total(v)

LEMMA ReckonMore ==
    ASSUME NEW rows, NEW more, NEW ch \in [Trips -> Seq(Line)], NEW dh \in [Trips -> Seq(Line)], NEW v,
           \A t \in Trips : Fees(rows, ch, v)[t] <= Fees(more, dh, v)[t]
    PROVE  Reckon(rows, ch, v) <= Reckon(more, dh, v)
<1> DEFINE f == Fees(rows, ch, v)
           g == Fees(more, dh, v)
<1>1. /\ \A t \in Trips : f[t] \in Nat /\ g[t] \in Nat
      /\ Reckon(rows, ch, v) = PARKING + SumFunctionOnSet(f, Trips)
      /\ Reckon(more, dh, v) = PARKING + SumFunctionOnSet(g, Trips)
  BY TripSums
<1>2. IsFiniteSet(Trips) /\ PARKING \in Nat
  BY DEF StatementAssumption
<1>3. \A t \in Trips : f[t] <= g[t]
  OBVIOUS
<1> HIDE DEF f, g
<1>4. SumFunctionOnSet(f, Trips) <= SumFunctionOnSet(g, Trips)
  BY <1>1, <1>2, <1>3, SumMonotone
<1>5. SumFunctionOnSet(f, Trips) \in Nat /\ SumFunctionOnSet(g, Trips) \in Nat
  BY <1>1, <1>2, SumType
<1> QED BY <1>1, <1>2, <1>4, <1>5

LEMMA ReckonSame ==
    ASSUME NEW rows, NEW more, NEW ch, NEW dh, NEW v,
           \A t \in Trips : Fees(rows, ch, v)[t] = Fees(more, dh, v)[t]
    PROVE  Reckon(rows, ch, v) = Reckon(more, dh, v)
<1>1. Fees(rows, ch, v) = Fees(more, dh, v)
  BY DEF Fees
<1> QED BY <1>1 DEF Reckon

\* Fees depend on the van of a trip, on whether it is live, and on its shares.
LEMMA FeesSame ==
    ASSUME NEW rows, NEW more, NEW ch, NEW dh, NEW v, NEW t \in Trips,
           rows[t].van = v <=> more[t].van = v, Live(rows[t]) <=> Live(more[t]),
           SharesOn(ch[t], v, DISPUTES) = SharesOn(dh[t], v, DISPUTES)
    PROVE  Fees(rows, ch, v)[t] = Fees(more, dh, v)[t]
  BY DEF Fees

\* A step of one session that writes no row keeps the rest.
LEMMA SwapPayments ==
    ASSUME Payments, NEW s \in Sessions, NEW now \in Session, Swap(s, now), Typed',
           now.holds \subseteq {v \in Vans : v \in session[s].holds \/ ~AccountTaken(s, v)},
           now.step = "sync" /\ now.does # "recount" => now.plan = NoPlan /\ now.holds = {},
           now.plan.amount > 0 =>
              /\ now.row.van \in now.plan.writes /\ now.row.van \in now.holds
              /\ ~account[now.row.van].high =>
                    account[now.row.van].settled + now.plan.amount <= now.plan.owed[now.row.van]
    PROVE  Payments'
<1>1. session' = [session EXCEPT ![s] = now] /\ UNCHANGED <<trip, listed, charged, account>>
  BY DEF Swap
<1>2. session'[s] = now /\ \A q \in Sessions : q # s => session'[q] = session[q]
  BY <1>1 DEF Payments, Typed, TypeOK
<1>3. HoldsApart'
  <2> SUFFICES ASSUME NEW p \in Sessions, NEW q \in Sessions, p # q
               PROVE  session'[p].holds \cap session'[q].holds = {}
    BY DEF HoldsApart
  <2>1. \A r \in Sessions : r # s => now.holds \cap session[r].holds = {}
    BY DEF Payments, HoldsApart, AccountTaken
  <2> QED BY <1>2, <2>1 DEF Payments, HoldsApart
<1>4. ASSUME NEW q \in Sessions PROVE Fits(q)'
  <2>1. CASE q = s
    BY <1>1, <1>2, <2>1 DEF Fits
  <2>2. CASE q # s
    BY <1>1, <1>2, <2>2 DEF Payments, Fits
  <2> QED BY <2>1, <2>2
<1>5. \A v \in Vans : Total(v)'
  BY <1>1 DEF Payments, Total
<1> QED BY <1>3, <1>4, <1>5 DEF Payments

\* A step that changes statements no session holds, and no session.
LEMMA RowsPayments ==
    ASSUME Payments, UNCHANGED session, Typed',
           \A v \in Vans : account'[v] = account[v] \/ AccountFree(v),
           \A v \in Vans : Total(v)'
    PROVE  Payments'
<1>1. HoldsApart'
  BY DEF Payments, HoldsApart
<1>2. ASSUME NEW q \in Sessions PROVE Fits(q)'
  <2>1. session'[q] = session[q] /\ Fits(q)
    BY DEF Payments
  <2>2. session[q].plan.amount > 0 => account'[session[q].row.van] = account[session[q].row.van]
    <3> SUFFICES ASSUME session[q].plan.amount > 0
                 PROVE  account'[session[q].row.van] = account[session[q].row.van]
      OBVIOUS
    <3>1. session[q].row.van \in session[q].holds /\ session[q].row.van \in Vans
      BY <2>1, TypeFields DEF Fits, Payments, Typed, Shape
    <3>2. q # None
      BY DEF StatementAssumption
    <3> QED BY <3>1, <3>2 DEF AccountFree, AccountTaken
  <2> QED BY <2>1, <2>2 DEF Fits
<1> QED BY <1>1, <1>2 DEF Payments

LEMMA InitPayments ==
    ASSUME Init
    PROVE  Payments
<1>1. Typed
  BY InitTyped
<1>2. \A s \in Sessions : session[s] = Idle
  BY DEF Init
<1>3. HoldsApart /\ \A s \in Sessions : Fits(s)
  BY <1>2, Start0 DEF HoldsApart, Fits
<1>4. ASSUME NEW v \in Vans PROVE Total(v)
  <2>1. account[v].owed = 0 /\ Reckon(trip, charged, v) \in Nat
    BY <1>1, TypeFields, TripSums DEF Init, Typed
  <2> QED BY <2>1 DEF Total
<1> QED BY <1>1, <1>3, <1>4 DEF Payments

LEMMA SyncPayments ==
    ASSUME Payments, NEW s \in Sessions, Sync(s), Typed'
    PROVE  Payments'
<1> DEFINE v == session[s].row.van
<1>1. PICK row \in Row, amount \in Nat, marks \in SUBSET Trips : Syncs(s, row, amount, marks)
  BY SyncIs DEF Payments
<1>2. PICK now \in Session : PlannedAs(s, row, amount, marks, now)
  BY <1>1, PlanningIs DEF Syncs, Payments
<1>3. Typed /\ session[s].step = "sync" /\ Fits(s) /\ (v # None => ~AccountTaken(s, v))
  BY <1>1 DEF Payments, Syncs, Sync
<1>4. Opened(s) \subseteq {v} /\ Opened(s) \in SUBSET Vans /\ session[s].holds \in SUBSET Vans
      /\ None \notin Vans
  BY <1>3, NewType, TypeFields DEF Typed
<1>5. now.holds \subseteq {u \in Vans : u \in session[s].holds \/ ~AccountTaken(s, u)}
  BY <1>2, <1>3, <1>4 DEF PlannedAs
<1>6. now.step # "sync"
  BY <1>2 DEF PlannedAs
<1>7. ASSUME amount > 0
      PROVE  /\ v \in now.plan.writes /\ v \in now.holds
             /\ account[v].settled + amount <= now.plan.owed[v]
  <2>1. session[s].does = "pay" /\ amount <= StillDue(s, 0) /\ v \in Vans
    BY <1>1, <1>7 DEF Syncs
  <2>2. session[s].plan = NoPlan
    BY <1>3, <2>1 DEF Fits
  <2>3. StillDue(s, 0) = NewTotals(s)[v] - account[v].settled - 0 - Disputed(RowsWith(s), LinesWith(s), v)
    BY <1>3, <2>1, StillDueIs
  <2>4. /\ NewTotals(s)[v] \in Nat /\ account[v].settled \in Nat
        /\ Disputed(RowsWith(s), LinesWith(s), v) \in Nat
    <3>1. NewTotals(s)[v] \in Nat /\ LinesWith(s) \in [Trips -> Seq(Line)]
      BY <1>3, <2>1, NewType
    <3> QED BY <1>3, <2>1, <3>1, TypeFields, TripSums DEF Typed
  <2>5. account[v].settled + amount <= NewTotals(s)[v] /\ NewTotals(s)[v] > 0
    BY <1>7, <2>1, <2>3, <2>4
  <2>6. v \in Recounted(s)
    <3>1. v \notin Recounted(s) => NewTotals(s)[v] = NoPlan.owed[v]
      BY <1>3, <2>1, <2>2, NewType
    <3>2. NoPlan.owed[v] = 0
      BY <2>1 DEF NoPlan
    <3> QED BY <2>5, <3>1, <3>2
  <2>7. v \in Opened(s)
    BY <2>1, <2>6 DEF Recounted, Opened
  <2> QED BY <1>2, <2>5, <2>6, <2>7 DEF PlannedAs, PlanOf
<1>8. now.plan.amount = amount /\ now.row.van = v
  BY <1>2 DEF PlannedAs, PlanOf
<1> HIDE DEF v
<1> QED BY <1>2, <1>5, <1>6, <1>7, <1>8, SwapPayments DEF PlannedAs

LEMMA PayStatementPayments ==
    ASSUME Payments, NEW s \in Sessions, NEW v \in Vans, PayStatement(s, v), Typed'
    PROVE  Payments'
<1>0. PICK n \in Nat, marks \in SUBSET Trips, now \in Session : Pays(s, v, n, marks, now)
  BY PayStatementIs DEF Payments
<1>1. /\ ~AccountTaken(s, v) /\ Swap(s, now) /\ n > 0 /\ n <= Due(v) /\ account[v].open
      /\ now.step = "write" /\ now.row.van = v /\ now.holds = {v}
      /\ now.plan = PayPlan(v, n, marks)
  BY <1>0 DEF Pays
<1>2. /\ now.plan.amount = n /\ now.plan.writes = {v}
      /\ now.plan.owed[v] = Reckon(trip, charged, v)
  BY <1>1 DEF PayPlan, NoPlan
<1>3. /\ account[v].owed \in Nat /\ account[v].settled \in Nat
      /\ Reckon(trip, charged, v) \in Nat /\ Disputed(trip, charged, v) \in Nat
  BY TypeFields, TripSums DEF Payments, Typed
<1>4. account[v].settled + n <= account[v].owed
  BY <1>1, <1>3 DEF Due, DueOn
<1>5. ~account[v].high => account[v].settled + n <= Reckon(trip, charged, v)
  BY <1>1, <1>3, <1>4 DEF Payments, Total
<1> QED BY <1>1, <1>2, <1>5, SwapPayments

LEMMA CommitPayments ==
    ASSUME Payments, NEW s \in Sessions, Commit(s), Typed'
    PROVE  /\ Payments'
           /\ \A v \in Vans : (account'[v].settled > account[v].settled /\ ~account[v].high)
                              => account'[v].settled <= account'[v].owed
<1> DEFINE now == session[s]
           plan == session[s].plan
           total(v) == IF v \in plan.writes THEN plan.owed[v] ELSE account[v].owed
           open(v) == account[v].open \/ v \in plan.writes
           high(v) == \/ total(v) > Reckon(TripsAfter(s), LinesAfter(s), v)
                      \/ account[v].high /\ v \notin plan.writes \cap now.holds
           settled(v) == account[v].settled + (IF v = now.row.van THEN plan.amount ELSE 0)
<1>1. /\ trip' = TripsAfter(s) /\ charged' = LinesAfter(s) /\ account' = AccountsAfter(s)
      /\ session' = [session EXCEPT ![s] = Idle]
      /\ \A v \in plan.writes : ~AccountTaken(s, v)
  BY CommitIs DEF Payments
<1>2. /\ session \in [Sessions -> Session] /\ plan.amount \in Nat /\ plan.writes \in SUBSET Vans
      /\ \A v \in Vans : account[v].owed \in Nat /\ account[v].settled \in Nat /\ plan.owed[v] \in Nat
  BY TypeFields DEF Payments, Typed
<1>3. \A v \in Vans : /\ account'[v].open = open(v) /\ account'[v].owed = total(v)
                      /\ account'[v].settled = settled(v) /\ account'[v].high = high(v)
  BY <1>1 DEF AccountsAfter
<1>4. session'[s] = Idle /\ \A q \in Sessions : q # s => session'[q] = session[q]
  BY <1>1, <1>2
<1>5. ASSUME NEW v \in Vans PROVE Total(v)'
  <2>1. Reckon(trip', charged', v) \in Nat
    BY TypeFields, TripSums DEF Typed, TypeOK
  <2>2. total(v) \in Nat
    BY <1>2
  <2>3. /\ account'[v].owed = total(v) /\ account'[v].open = open(v)
        /\ account'[v].high = high(v)
    BY <1>3
  <2>4. ~high(v) => ~(total(v) > Reckon(trip', charged', v))
    BY <1>1
  <2> HIDE DEF open, total, high
  <2>5. ~account'[v].high => account'[v].owed <= Reckon(trip', charged', v)
    BY <2>1, <2>2, <2>3, <2>4
  <2> QED BY <2>5 DEF Total
<1>6. HoldsApart'
  <2>1. HoldsApart /\ session'[s].holds = {}
    BY <1>4, Start0 DEF Payments
  <2> HIDE DEF now, plan
  <2> QED BY <1>4, <2>1 DEF HoldsApart
<1>7. ASSUME NEW q \in Sessions PROVE Fits(q)'
  <2>1. CASE q = s
    BY <1>4, <2>1, Start0 DEF Fits
  <2>2. CASE q # s
    <3> DEFINE v == session[q].row.van
    <3>1. Fits(q) /\ session'[q] = session[q]
      BY <1>4, <2>2 DEF Payments
    <3>2. ASSUME session[q].plan.amount > 0
          PROVE  /\ account'[v].settled = account[v].settled
                 /\ account[v].high => account'[v].high
      <4>1. v \in session[q].holds /\ v \in Vans
        BY <3>1, <3>2 DEF Fits, Payments, Typed, Shape
      <4>2. v \notin plan.writes
        BY <1>1, <2>2, <4>1 DEF AccountTaken
      <4>3. v = now.row.van => plan.amount = 0
        <5>1. plan.amount > 0 => now.row.van \in plan.writes
          BY DEF Payments, Fits
        <5> QED BY <1>2, <4>2, <5>1
      <4>4. settled(v) = account[v].settled
        BY <1>2, <4>1, <4>3
      <4> HIDE DEF settled, total, open
      <4> QED BY <1>3, <4>1, <4>2, <4>4
    <3> QED BY <3>1, <3>2 DEF Fits
  <2> QED BY <2>1, <2>2
<1>8. ASSUME NEW v \in Vans, account'[v].settled > account[v].settled, ~account[v].high
      PROVE  account'[v].settled <= account'[v].owed
  <2>1. v = now.row.van /\ plan.amount > 0
    <3>1. account'[v].settled = settled(v)
      BY <1>3
    <3> QED BY <1>2, <1>8, <3>1
  <2>2. v \in plan.writes /\ account[v].settled + plan.amount <= plan.owed[v]
    BY <1>8, <2>1 DEF Payments, Fits
  <2> QED BY <1>3, <2>1, <2>2
<1> QED BY <1>5, <1>6, <1>7, <1>8 DEF Payments

\* Sums whose terms agree, over lines of the same number.
LEMMA SharesAgree ==
    ASSUME NEW a \in Seq(Line), NEW b \in Seq(Line), NEW v, NEW disputes, Len(a) = Len(b),
           \A i \in DOMAIN a : ShareAt(a, v, disputes)[i] = ShareAt(b, v, disputes)[i]
    PROVE  SharesOn(a, v, disputes) = SharesOn(b, v, disputes)
<1> DEFINE D == DOMAIN a
           f == ShareAt(a, v, disputes)
           g == ShareAt(b, v, disputes)
<1>1. D = DOMAIN b /\ IsFiniteSet(D)
  BY LineFields
<1>2. \A i \in D : f[i] \in Nat /\ f[i] = g[i]
  BY LineSums
<1>3. SharesOn(a, v, disputes) = SumFunctionOnSet(f, D) /\ SharesOn(b, v, disputes) = SumFunctionOnSet(g, D)
  BY <1>1, LineSums
<1> HIDE DEF f, g, D
<1>4. SumFunctionOnSet(f, D) = SumFunctionOnSet(g, D)
  BY <1>1, <1>2, SumAgree
<1> QED BY <1>3, <1>4

\* One line decided or contested leaves the shares on other statements, and a
\* line contested those on its own.
LEMMA OneLineType ==
    ASSUME NEW lines \in Seq(Line), NEW i \in DOMAIN lines, NEW l \in Line
    PROVE  /\ [lines EXCEPT ![i] = l] \in Seq(Line)
           /\ Len([lines EXCEPT ![i] = l]) = Len(lines)
           /\ DOMAIN [lines EXCEPT ![i] = l] = DOMAIN lines
           /\ \A j \in DOMAIN lines : [lines EXCEPT ![i] = l][j] = IF j = i THEN l ELSE lines[j]
<1>1. DOMAIN lines = 1..Len(lines)
  BY LineFields
<1>2. [lines EXCEPT ![i] = l] \in Seq(Line) /\ Len([lines EXCEPT ![i] = l]) = Len(lines)
  BY <1>1, ExceptSeq
<1> QED BY <1>2

LEMMA OneLine ==
    ASSUME NEW lines \in Seq(Line), NEW i \in DOMAIN lines, NEW l \in Line, l.on = lines[i].on,
           NEW v, NEW disputes,
           \/ v # l.on
           \/ Share(l) = Share(lines[i]) /\ (l.dispute \in disputes <=> lines[i].dispute \in disputes)
    PROVE  SharesOn([lines EXCEPT ![i] = l], v, disputes) = SharesOn(lines, v, disputes)
<1> DEFINE new == [lines EXCEPT ![i] = l]
<1>1. new \in Seq(Line) /\ Len(new) = Len(lines) /\ DOMAIN new = DOMAIN lines
      /\ \A j \in DOMAIN lines : new[j] = IF j = i THEN l ELSE lines[j]
  BY OneLineType
<1> HIDE DEF new
<1>2. \A j \in DOMAIN new : ShareAt(new, v, disputes)[j] = ShareAt(lines, v, disputes)[j]
  BY <1>1 DEF ShareAt
<1>3. SharesOn(new, v, disputes) = SharesOn(lines, v, disputes)
  BY <1>1, <1>2, SharesAgree
<1> QED BY <1>3 DEF new

LEMMA ReadsPayments ==
    ASSUME Payments, NEW s \in Sessions, NEW t \in Trips, NEW does \in DOES, NEW row \in Row,
           NEW holds \in SUBSET Vans, NEW plan \in Plan, Reads(s, t, does, row, holds, plan), Typed'
    PROVE  Payments'
<1>1. /\ ReadLines(s, t, does, row, holds, plan) /\ plan.amount = 0 /\ plan.marks = {}
      /\ does = "list" => row.van # None /\ Waiting(row)
      /\ does \in {"recount", "start", "depart", "pay", "list"}
      /\ \A v \in holds : ~AccountTaken(s, v) /\ does = "recount"
      /\ does # "recount" => plan = NoPlan
  BY DEF Reads, DOES
<1>2. PICK now \in Session : ReadAs(s, t, does, row, holds, plan, now)
  BY <1>1, ReadLinesIs DEF Payments
<1>3. /\ Swap(s, now) /\ now.holds = holds /\ now.plan = plan /\ now.does = does
  BY <1>2 DEF ReadAs
<1>4. now.holds \subseteq {v \in Vans : v \in session[s].holds \/ ~AccountTaken(s, v)}
  BY <1>1, <1>3
<1>5. now.does # "recount" => now.plan = NoPlan /\ now.holds = {}
  BY <1>1, <1>3
<1>6. ~(now.plan.amount > 0)
  BY <1>1, <1>3
<1> QED BY <1>3, <1>4, <1>5, <1>6, SwapPayments

LEMMA DeskPayments ==
    ASSUME Payments, NEW s \in Sessions, Looks(s) \/ CommitMark(s) \/ CommitCancel(s), Typed'
    PROVE  Payments'
<1>1. PICK now \in Session :
         /\ session' = [session EXCEPT ![s] = now] /\ now.plan = NoPlan /\ now.holds = {}
         /\ now.step \notin {"sync", "write"} /\ UNCHANGED <<trip, charged, account>>
  <2>1. CASE Looks(s)
    BY <2>1 DEF Looks, Swap
  <2>2. CASE CommitMark(s) \/ CommitCancel(s)
    <3>1. session' = [session EXCEPT ![s] = Idle] /\ UNCHANGED <<trip, charged, account>>
      BY <2>2, MarkIs, CancelIs DEF Payments
    <3> QED BY <3>1, Start0
  <2> QED BY <2>1, <2>2
<1>2. session'[s] = now /\ \A q \in Sessions : q # s => session'[q] = session[q]
  BY <1>1 DEF Payments, Typed, TypeOK
<1>3. HoldsApart'
  BY <1>1, <1>2 DEF Payments, HoldsApart
<1>4. ASSUME NEW q \in Sessions PROVE Fits(q)'
  <2>1. CASE q = s
    BY <1>1, <1>2, <2>1, Start0 DEF Fits
  <2>2. CASE q # s
    BY <1>1, <1>2, <2>2 DEF Payments, Fits
  <2> QED BY <2>1, <2>2
<1>5. \A v \in Vans : Total(v)'
  BY <1>1 DEF Payments, Total
<1> QED BY <1>3, <1>4, <1>5 DEF Payments

LEMMA WritesPayments ==
    ASSUME Payments, NEW t \in Trips, NEW row \in Row, Writes(t, row), Typed'
    PROVE  Payments'
<1>1. /\ trip' = [trip EXCEPT ![t] = row] /\ UNCHANGED <<listed, charged, account, session>>
      /\ trip \in [Trips -> Row] /\ charged \in [Trips -> Seq(Line)]
  BY WritesIs, TypeFields DEF Payments, Typed
<1>2. /\ Waiting(row) /\ Waiting(trip[t])
      /\ row.van = trip[t].van \/ trip[t].van = None
  BY DEF Writes
<1>3. ASSUME NEW v \in Vans PROVE Reckon(trip, charged, v) <= Reckon(trip', charged, v)
  <2>1. ASSUME NEW u \in Trips PROVE Fees(trip, charged, v)[u] <= Fees(trip', charged, v)[u]
    <3>1. SharesOn(charged[u], v, DISPUTES) \in Nat
      BY <1>1, LineSums
    <3>2. None \notin Vans /\ DCOTT \in Nat
      BY DEF StatementAssumption
    <3>3. CASE u # t
      <4>1. trip'[u] = trip[u]
        BY <1>1, <3>3
      <4>2. Fees(trip, charged, v)[u] \in Nat
        BY <1>1, TripSums
      <4> QED BY <4>1, <4>2 DEF Fees
    <3>4. CASE u = t
      <4>1. trip'[u] = row /\ Live(row) /\ Live(trip[t])
        BY <1>1, <1>2, <3>4 DEF Waiting, Live, BEFORE_DEPARTURE
      <4> QED BY <1>2, <3>1, <3>2, <3>4, <4>1 DEF Fees
    <3> QED BY <3>3, <3>4
  <2> QED BY <1>1, <2>1, ReckonMore
<1>4. ASSUME NEW v \in Vans PROVE Total(v)'
  <2>1. Reckon(trip, charged, v) \in Nat /\ Reckon(trip', charged, v) \in Nat /\ account[v].owed \in Nat
    BY <1>1, TripSums, TypeFields DEF Payments, Typed
  <2>2. ~account[v].high => account[v].owed <= Reckon(trip', charged, v)
    BY <1>3, <2>1 DEF Payments, Total
  <2> QED BY <1>1, <2>2 DEF Payments, Total
<1> QED BY <1>1, <1>4, RowsPayments

LEMMA ParkingPayments ==
    ASSUME Payments, NEW v \in Vans, ChargeParking(v), Typed'
    PROVE  Payments'
<1>1. /\ AccountFree(v) /\ \A u \in Vans : u # v => account'[u] = account[u]
      /\ account'[v].open /\ account'[v].owed = Reckon(trip, charged, v)
      /\ UNCHANGED <<trip, charged, session>>
  BY ParkingIs DEF Payments
<1>2. Reckon(trip, charged, v) \in Nat
  BY TypeFields, TripSums DEF Payments, Typed
<1>3. ASSUME NEW u \in Vans PROVE Total(u)'
  <2>1. CASE u = v
    BY <1>1, <1>2, <2>1 DEF Total
  <2>2. CASE u # v
    BY <1>1, <2>2 DEF Payments, Total
  <2> QED BY <2>1, <2>2
<1> QED BY <1>1, <1>3, RowsPayments

LEMMA RaisePayments ==
    ASSUME Payments, NEW t \in Trips, NEW i \in DOMAIN charged[t], Raise(t, i), Typed'
    PROVE  Payments'
<1> DEFINE l == [charged[t][i] EXCEPT !.dispute = "open"]
<1>1. /\ charged[t] \in Seq(Line) /\ charged[t][i] \in Line /\ charged \in [Trips -> Seq(Line)]
      /\ charged' = [charged EXCEPT ![t] = [charged[t] EXCEPT ![i] = l]]
      /\ charged[t][i].dispute \in {"none", "withdrawn"}
      /\ UNCHANGED <<trip, account, session>>
  BY RaiseIs, TypeFields DEF Payments, Typed
<1>2. l \in Line /\ l.on = charged[t][i].on /\ Share(l) = Share(charged[t][i])
      /\ l.dispute \in DISPUTES /\ charged[t][i].dispute \in DISPUTES
  BY <1>1 DEF Line, Share, DISPUTES
<1> HIDE DEF l
<1>3. ASSUME NEW v \in Vans PROVE Reckon(trip, charged', v) = Reckon(trip, charged, v)
  <2>1. SharesOn(charged'[t], v, DISPUTES) = SharesOn(charged[t], v, DISPUTES)
    <3>1. charged'[t] = [charged[t] EXCEPT ![i] = l]
      BY <1>1
    <3>2. Share(l) = Share(charged[t][i]) /\ (l.dispute \in DISPUTES <=> charged[t][i].dispute \in DISPUTES)
      BY <1>2
    <3>3. SharesOn([charged[t] EXCEPT ![i] = l], v, DISPUTES) = SharesOn(charged[t], v, DISPUTES)
      <4>1. charged[t] \in Seq(Line) /\ l \in Line /\ l.on = charged[t][i].on
        BY <1>1, <1>2
      <4> QED BY <3>2, <4>1, OneLine
    <3> QED BY <3>1, <3>3
  <2>2. \A u \in Trips : SharesOn(charged'[u], v, DISPUTES) = SharesOn(charged[u], v, DISPUTES)
    BY <1>1, <2>1
  <2>3. \A u \in Trips : Fees(trip, charged', v)[u] = Fees(trip, charged, v)[u]
    BY <2>2, FeesSame
  <2> QED BY <2>3, ReckonSame
<1>4. \A v \in Vans : Total(v)'
  BY <1>1, <1>3 DEF Payments, Total
<1> QED BY <1>1, <1>4, RowsPayments

LEMMA SettlePayments ==
    ASSUME Payments, NEW t \in Trips, NEW i \in DOMAIN charged[t],
           NEW dispute \in {"withdrawn", "resolved"}, NEW due \in Nat, Settle(t, i, dispute, due), Typed'
    PROVE  /\ Payments'
           /\ \A v \in Vans : account'[v].settled = account[v].settled
<1> DEFINE l == [charged[t][i] EXCEPT !.dispute = dispute, !.due = due]
           v == charged[t][i].on
<1>1. /\ charged[t] \in Seq(Line) /\ charged[t][i] \in Line /\ v \in Vans
      /\ charged' = [charged EXCEPT ![t] = [charged[t] EXCEPT ![i] = l]]
      /\ charged' \in [Trips -> Seq(Line)] /\ AccountFree(v)
      /\ \A u \in Vans : u # v => account'[u] = account[u]
      /\ account'[v].settled = account[v].settled /\ account'[v].open = account[v].open
      /\ account'[v].owed = Reckon(trip, charged', v)
      /\ UNCHANGED session
  <2>1. Settled(t, i, dispute, due)
    BY SettleIs DEF Payments
  <2> QED BY <2>1 DEF Settled
<1>2. l \in Line /\ l.on = charged[t][i].on
  BY <1>1 DEF Line, DISPUTES
<1>3. \A u \in Trips : (Live(trip'[u]) <=> Live(trip[u])) /\ trip'[u].van = trip[u].van
  <2>1. trip \in [Trips -> Row]
    BY TypeFields DEF Payments, Typed
  <2>2. trip' = trip \/ trip' = [trip EXCEPT ![t] = [trip[t] EXCEPT !.pay = "unpaid"]]
    <3>1. Settled(t, i, dispute, due)
      BY SettleIs DEF Payments
    <3> QED BY <3>1 DEF Settled
  <2>3. trip[t] \in Row
    BY <2>1
  <2>4. [trip[t] EXCEPT !.pay = "unpaid"].van = trip[t].van
        /\ [trip[t] EXCEPT !.pay = "unpaid"].status = trip[t].status
    BY <2>3 DEF Row
  <2> QED BY <2>1, <2>2, <2>4 DEF Live
<1>4. charged \in [Trips -> Seq(Line)]
  BY TypeFields DEF Payments, Typed
<1> HIDE DEF l, v
<1>5. ASSUME NEW u \in Vans PROVE Reckon(trip', charged', u) = Reckon(trip, charged', u)
  <2>1. \A w \in Trips : Fees(trip', charged', u)[w] = Fees(trip, charged', u)[w]
    BY <1>3, FeesSame
  <2> QED BY <2>1, ReckonSame
<1>6. ASSUME NEW u \in Vans, u # v PROVE Reckon(trip, charged', u) = Reckon(trip, charged, u)
  <2>1. SharesOn(charged'[t], u, DISPUTES) = SharesOn(charged[t], u, DISPUTES)
    <3>1. charged'[t] = [charged[t] EXCEPT ![i] = l]
      BY <1>1, <1>4
    <3>2. u # l.on
      BY <1>2, <1>6 DEF v
    <3>3. SharesOn([charged[t] EXCEPT ![i] = l], u, DISPUTES) = SharesOn(charged[t], u, DISPUTES)
      <4>1. charged[t] \in Seq(Line) /\ l \in Line /\ l.on = charged[t][i].on
        BY <1>1, <1>2
      <4> QED BY <3>2, <4>1, OneLine
    <3> QED BY <3>1, <3>3
  <2>2. \A w \in Trips : SharesOn(charged'[w], u, DISPUTES) = SharesOn(charged[w], u, DISPUTES)
    BY <1>1, <1>4, <2>1
  <2>3. \A w \in Trips : Fees(trip, charged', u)[w] = Fees(trip, charged, u)[w]
    BY <2>2, FeesSame
  <2> QED BY <2>3, ReckonSame
<1>7. ASSUME NEW u \in Vans PROVE Total(u)'
  <2>1. CASE u = v
    <3>1. Reckon(trip, charged', v) \in Nat
      <4>1. charged' \in [Trips -> Seq(Line)]
        BY <1>1
      <4> QED BY <4>1, TripSums
    <3>2. account'[v].owed <= Reckon(trip', charged', v)
      <4>1. v \in Vans /\ account'[v].owed = Reckon(trip, charged', v)
        BY <1>1
      <4>2. Reckon(trip', charged', v) = Reckon(trip, charged', v)
        BY <1>5, <4>1
      <4> QED BY <3>1, <4>1, <4>2
    <3> QED BY <2>1, <3>2 DEF Total
  <2>2. CASE u # v
    BY <1>1, <1>5, <1>6, <2>2 DEF Payments, Total
  <2> QED BY <2>1, <2>2
<1>8. Payments'
  BY <1>1, <1>7, RowsPayments
<1> QED BY <1>1, <1>8

LEMMA NextPayments ==
    ASSUME Payments, [Next]_vars
    PROVE  /\ Payments'
           /\ \A v \in Vans : (account'[v].settled > account[v].settled /\ ~account[v].high)
                              => account'[v].settled <= account'[v].owed
<1>1. Typed'
  BY NextTyped DEF Payments
<1>2. \A v \in Vans : account[v].settled \in Nat
  BY TypeFields DEF Payments, Typed
<1>3. CASE UNCHANGED vars
  BY <1>1, <1>2, <1>3 DEF vars, Payments, HoldsApart, Fits, Total
<1>4. ASSUME NEW s \in Sessions, Commit(s)
      PROVE  /\ Payments'
             /\ \A v \in Vans : (account'[v].settled > account[v].settled /\ ~account[v].high)
                                => account'[v].settled <= account'[v].owed
  BY <1>1, <1>4, CommitPayments
<1>5. ASSUME Next, ~ \E s \in Sessions : Commit(s)
      PROVE  Payments' /\ \A v \in Vans : account'[v].settled = account[v].settled
  <2>1. ASSUME NEW s \in Sessions, Looks(s) \/ CommitMark(s) \/ CommitCancel(s)
        PROVE  Payments' /\ account' = account
    BY <1>1, <2>1, DeskPayments, MarkIs, CancelIs DEF Looks, Swap, Payments
  <2>2. ASSUME NEW s \in Sessions, NEW t \in Trips, NEW does \in DOES, NEW row \in Row,
               NEW holds \in SUBSET Vans, NEW plan \in Plan, Reads(s, t, does, row, holds, plan)
        PROVE  Payments' /\ account' = account
    BY <1>1, <2>2, ReadsPayments DEF Reads, ReadLines
  <2>3. ASSUME NEW s \in Sessions, Sync(s) PROVE Payments' /\ account' = account
    BY <1>1, <2>3, SyncPayments DEF Sync
  <2>4. ASSUME NEW s \in Sessions, NEW v \in Vans, PayStatement(s, v)
        PROVE  Payments' /\ account' = account
    BY <1>1, <2>4, PayStatementPayments DEF PayStatement
  <2>5. ASSUME NEW t \in Trips, NEW row \in Row, Writes(t, row) PROVE Payments' /\ account' = account
    BY <1>1, <2>5, WritesPayments DEF Writes, Write
  <2>6. ASSUME NEW v \in Vans, ChargeParking(v)
        PROVE  Payments' /\ \A u \in Vans : account'[u].settled = account[u].settled
    BY <1>1, <2>6, ParkingPayments, ParkingIs DEF Payments
  <2>7. ASSUME NEW t \in Trips, NEW i \in DOMAIN charged[t], Raise(t, i)
        PROVE  Payments' /\ account' = account
    BY <1>1, <2>7, RaisePayments, RaiseIs DEF Payments
  <2>8. ASSUME NEW t \in Trips, NEW i \in DOMAIN charged[t], Settles(t, i)
        PROVE  Payments' /\ \A u \in Vans : account'[u].settled = account[u].settled
    BY <1>1, <2>8, SettlePayments DEF Settles
  <2> QED BY <1>5, <2>1, <2>2, <2>3, <2>4, <2>5, <2>6, <2>7, <2>8, Cases DEF Payments
<1> QED BY <1>2, <1>3, <1>4, <1>5

\* No payments together take more than the statement owes, in whatever order
\* the trips and their statement are paid, wait for each other and are rolled
\* back; not covered, a statement whose total came out too high without its
\* lock.
THEOREM NeverOverpaid == Spec => PaymentsNeverOverpay
<1>1. Init => Payments
  BY InitPayments
<1>2. Payments /\ [Next]_vars => Payments'
  BY NextPayments
<1>3. Payments /\ [Next]_vars =>
         [\A v \in Vans :
             (account'[v].settled > account[v].settled /\ ~account[v].high)
             => account'[v].settled <= account'[v].owed]_vars
  BY NextPayments
<1> QED BY <1>1, <1>2, <1>3, PTL DEF Spec, PaymentsNeverOverpay

-----------------------------------------------------------------------------
(***************************************************************************)
(* Trips.  A trip is in the hands of one handler that locked it, and the   *)
(* row it holds is the trip's, but for what it changes.                    *)
(***************************************************************************)
Has(now, t) == now.step \in {"sync", "write"} /\ now.does # "list" /\ now.trip = t

TripsApart ==
    \A s, q \in Sessions : s # q =>
       \A t \in Trips : ~(Has(session[s], t) /\ Has(session[q], t))

Holds(now, t) ==
    LET row == now.row IN
    Has(now, t) =>
       /\ row.pay = trip[t].pay /\ row.locked = trip[t].locked
       /\ trip[t].status = "departed" => row.status = "departed"
       /\ row.status = "departed" => now.does = "depart" \/ trip[t].status = "departed"
       /\ row.status \in {"boarding", "departed"} => row.van # None
       /\ now.does = "pay" => row = trip[t] /\ Waiting(row)

PlanRow(now) ==
    (now.step = "write" /\ now.does # "statement") =>
       /\ now.plan.row.van = now.row.van /\ now.plan.row.status = now.row.status
       /\ now.row.locked => now.plan.row.locked
       /\ now.plan.row.pay = now.row.pay \/ now.plan.row.pay # "paid"

\* A paid list is closed; a trip that boards or has left has a van.
TripRow(t) ==
    /\ trip[t].pay = "paid" => trip[t].locked
    /\ trip[t].status \in {"boarding", "departed"} => trip[t].van # None

Handling ==
    /\ Typed /\ TripsApart
    /\ \A t \in Trips : TripRow(t)
    /\ \A s \in Sessions : PlanRow(session[s]) /\ \A t \in Trips : Holds(session[s], t)

\* The trips as a commit leaves them.
Written(s, t) ==
    LET now == session[s] IN
    IF t # now.trip THEN trip[t]
    ELSE IF now.does # "list" THEN now.plan.row
    ELSE [trip[t] EXCEPT !.pay = IF now.plan.row.pay # now.row.pay THEN now.plan.row.pay ELSE trip[t].pay]

LEMMA TripsAfterIs ==
    ASSUME Typed, NEW s \in Sessions, NEW t \in Trips
    PROVE  /\ Written(s, t) \in Row /\ TripsAfter(s)[t] \in Row
           /\ t \notin session[s].plan.marks => TripsAfter(s)[t] = Written(s, t)
           /\ t \in session[s].plan.marks =>
                 TripsAfter(s)[t] = [Written(s, t) EXCEPT !.pay = "paid", !.locked = TRUE]
           /\ TripsAfter(s)[t].status = Written(s, t).status
           /\ TripsAfter(s)[t].van = Written(s, t).van
           /\ TripsAfter(s)[t].pay = IF t \in session[s].plan.marks THEN "paid" ELSE Written(s, t).pay
           /\ TripsAfter(s)[t].locked = (t \in session[s].plan.marks \/ Written(s, t).locked)
           /\ session[s].does = "list" => /\ Written(s, t).status = trip[t].status
                                          /\ Written(s, t).van = trip[t].van
                                          /\ Written(s, t).locked = trip[t].locked
           /\ (session[s].does = "list" /\ session[s].plan.row.pay = session[s].row.pay)
                 => Written(s, t) = trip[t]
<1> DEFINE now == session[s]
           w == Written(s, t)
<1>1. /\ trip[t] \in Row /\ now.plan.row \in Row /\ trip[t].locked \in BOOLEAN
      /\ now.plan.row.pay \in {"unpaid", "paid", "overridden", "left_unpaid"}
      /\ trip[t].pay \in {"unpaid", "paid", "overridden", "left_unpaid"}
  BY TypeFields DEF Typed, Row
<1>2. w \in Row
  BY <1>1 DEF Written, Row
<1>3. TripsAfter(s)[t] = IF t \in now.plan.marks THEN [w EXCEPT !.pay = "paid", !.locked = TRUE] ELSE w
  BY DEF TripsAfter, Written
<1>4. now.does = "list" => /\ w.status = trip[t].status /\ w.van = trip[t].van
                           /\ w.locked = trip[t].locked
                           /\ now.plan.row.pay = now.row.pay => w = trip[t]
  BY <1>1 DEF Written, Row
<1> HIDE DEF w
<1>5. /\ [w EXCEPT !.pay = "paid", !.locked = TRUE] \in Row /\ w.locked \in BOOLEAN
      /\ [w EXCEPT !.pay = "paid", !.locked = TRUE].status = w.status
      /\ [w EXCEPT !.pay = "paid", !.locked = TRUE].van = w.van
      /\ [w EXCEPT !.pay = "paid", !.locked = TRUE].pay = "paid"
      /\ [w EXCEPT !.pay = "paid", !.locked = TRUE].locked = TRUE
  BY <1>2 DEF Row
<1>6. CASE t \in now.plan.marks
  <2>1. TripsAfter(s)[t] = [w EXCEPT !.pay = "paid", !.locked = TRUE]
    BY <1>3, <1>6
  <2> QED BY <1>2, <1>4, <1>5, <1>6, <2>1 DEF w
<1>7. CASE t \notin now.plan.marks
  <2>1. TripsAfter(s)[t] = w
    BY <1>3, <1>7
  <2> QED BY <1>2, <1>4, <1>5, <1>7, <2>1 DEF w
<1> QED BY <1>6, <1>7

LEMMA TripFreeIs ==
    ASSUME NEW s, NEW t, TripFree(s, t), NEW q \in Sessions, q # s
    PROVE  ~Has(session[q], t)
  BY DEF TripFree, TripTaken, InHand, Has

LEMMA SwapHandling ==
    ASSUME Handling, NEW s \in Sessions, NEW now \in Session, Swap(s, now), Typed',
           \A t \in Trips : Has(now, t) => TripFree(s, t) \/ Has(session[s], t),
           \A t \in Trips : Holds(now, t), PlanRow(now)
    PROVE  Handling'
<1>1. session' = [session EXCEPT ![s] = now] /\ UNCHANGED <<trip, listed, charged, account>>
  BY DEF Swap
<1>2. session'[s] = now /\ \A q \in Sessions : q # s => session'[q] = session[q]
  BY <1>1 DEF Handling, Typed, TypeOK
<1>3. TripsApart'
  <2> SUFFICES ASSUME NEW p \in Sessions, NEW q \in Sessions, p # q, NEW t \in Trips
               PROVE  ~(Has(session'[p], t) /\ Has(session'[q], t))
    BY DEF TripsApart, Has
  <2>1. \A r \in Sessions : r # s => ~(Has(now, t) /\ Has(session[r], t))
    BY TripFreeIs DEF Handling, TripsApart
  <2> QED BY <1>2, <2>1 DEF Handling, TripsApart
<1>4. ASSUME NEW q \in Sessions
      PROVE  PlanRow(session[q])' /\ \A t \in Trips : Holds(session[q], t)'
  <2>1. CASE q = s
    BY <1>1, <1>2, <2>1 DEF Holds, Has, PlanRow
  <2>2. CASE q # s
    BY <1>1, <1>2, <2>2 DEF Handling, Holds, Has, PlanRow
  <2> QED BY <2>1, <2>2
<1>5. \A t \in Trips : TripRow(t)'
  BY <1>1 DEF Handling, TripRow
<1> QED BY <1>3, <1>4, <1>5 DEF Handling

\* A step that writes one trip nobody holds, and no session.
LEMMA RowsHandling ==
    ASSUME Handling, UNCHANGED session, Typed',
           \A t \in Trips : trip'[t] = trip[t] \/ (RowFree(t) /\ TripRow(t)')
    PROVE  Handling'
<1>1. TripsApart'
  BY DEF Handling, TripsApart, Has
<1>2. \A t \in Trips : TripRow(t)'
  BY DEF Handling, TripRow
<1>3. ASSUME NEW q \in Sessions
      PROVE  PlanRow(session[q])' /\ \A t \in Trips : Holds(session[q], t)'
  <2>1. session'[q] = session[q] /\ PlanRow(session[q])
    BY DEF Handling
  <2>2. ASSUME NEW t \in Trips PROVE Holds(session[q], t)'
    <3>1. Holds(session[q], t)
      BY DEF Handling
    <3>2. CASE trip'[t] = trip[t]
      BY <2>1, <3>1, <3>2 DEF Holds, Has
    <3>3. CASE RowFree(t)
      <4>1. q # None
        BY DEF StatementAssumption
      <4>2. ~Has(session[q], t)
        BY <3>3, <4>1, TripFreeIs DEF RowFree
      <4> QED BY <2>1, <4>2 DEF Holds, Has
    <3> QED BY <3>2, <3>3
  <2> QED BY <2>1, <2>2 DEF PlanRow
<1> QED BY <1>1, <1>2, <1>3 DEF Handling

LEMMA InitHandling ==
    ASSUME Init
    PROVE  Handling
<1>1. Typed
  BY InitTyped
<1>2. \A s \in Sessions : session[s] = Idle
  BY DEF Init
<1>3. TripsApart /\ \A s \in Sessions : PlanRow(session[s]) /\ \A t \in Trips : Holds(session[s], t)
  BY <1>2, Start0 DEF TripsApart, PlanRow, Holds, Has
<1>4. \A t \in Trips : TripRow(t)
  BY DEF Init, NewTrip, TripRow
<1> QED BY <1>1, <1>3, <1>4 DEF Handling

LEMMA ReadsHandling ==
    ASSUME Handling, NEW s \in Sessions, NEW t \in Trips, NEW does \in DOES, NEW row \in Row,
           NEW holds \in SUBSET Vans, NEW plan \in Plan, Reads(s, t, does, row, holds, plan), Typed'
    PROVE  Handling'
<1>1. /\ ReadLines(s, t, does, row, holds, plan) /\ plan.amount = 0 /\ plan.marks = {}
      /\ does = "list" => row.van # None /\ Waiting(row)
      /\ does \in {"recount", "start", "depart", "pay", "list"}
  BY DEF Reads, DOES
<1>2. PICK now \in Session : ReadAs(s, t, does, row, holds, plan, now)
  BY <1>1, ReadLinesIs DEF Handling
<1>3. Swap(s, now) /\ now.step = "sync" /\ now.does = does /\ now.trip = t /\ now.row = row
  BY <1>2 DEF ReadAs
<1>4. \A u \in Trips : Has(now, u) => TripFree(s, u)
  BY <1>3 DEF Has, Reads
<1>5. ASSUME NEW u \in Trips PROVE Holds(now, u)
  <2>1. TripRow(u) /\ trip[u] \in Row
    BY TypeFields DEF Handling, Typed
  <2> SUFFICES ASSUME Has(now, u) PROVE Holds(now, u)
    BY DEF Holds
  <2>2. u = t /\ does # "list"
    BY <1>3 DEF Has
  <2>3. /\ row.pay = trip[t].pay /\ row.locked = trip[t].locked
        /\ trip[t].status = "departed" => row.status = "departed"
        /\ row.status = "departed" => does = "depart" \/ trip[t].status = "departed"
        /\ does = "pay" => row = trip[t] /\ Waiting(row)
    BY <2>2 DEF Reads, Waiting, BEFORE_DEPARTURE
  <2>4. row.status \in {"boarding", "departed"} => row.van # None
    BY <2>1, <2>2 DEF Reads, TripRow
  <2> QED BY <1>3, <2>2, <2>3, <2>4 DEF Holds
<1>6. PlanRow(now)
  BY <1>3 DEF PlanRow
<1> QED BY <1>3, <1>4, <1>5, <1>6, SwapHandling

LEMMA SyncHandling ==
    ASSUME Handling, NEW s \in Sessions, Sync(s), Typed'
    PROVE  Handling'
<1>1. PICK row \in Row, amount \in Nat, marks \in SUBSET Trips : Syncs(s, row, amount, marks)
  BY SyncIs DEF Handling
<1>2. PICK now \in Session : PlannedAs(s, row, amount, marks, now)
  BY <1>1, PlanningIs DEF Syncs, Handling
<1>3. /\ Swap(s, now) /\ now.step = "write" /\ now.does = session[s].does
      /\ now.trip = session[s].trip /\ now.row = session[s].row /\ now.plan.row = row
      /\ session[s].step = "sync"
  BY <1>1, <1>2 DEF PlannedAs, PlanOf, Syncs
<1>4. \A t \in Trips : Has(now, t) => Has(session[s], t)
  BY <1>3 DEF Has
<1>5. \A t \in Trips : Holds(now, t)
  BY <1>3, <1>4 DEF Holds, Handling
<1>6. PlanRow(now)
  <2>1. /\ row.van = session[s].row.van /\ row.status = session[s].row.status
        /\ session[s].row.locked => row.locked
        /\ row.pay = NewRow(s).pay \/ row.pay = "left_unpaid"
    BY <1>1 DEF Syncs
  <2>2. NewRow(s).pay = session[s].row.pay \/ NewRow(s).pay = "unpaid"
    BY <1>3, NewType DEF Handling
  <2> QED BY <1>3, <2>1, <2>2 DEF PlanRow
<1> QED BY <1>3, <1>4, <1>5, <1>6, SwapHandling

LEMMA PayStatementHandling ==
    ASSUME Handling, NEW s \in Sessions, NEW v \in Vans, PayStatement(s, v), Typed'
    PROVE  Handling'
<1>1. PICK n \in Nat, marks \in SUBSET Trips, now \in Session : Pays(s, v, n, marks, now)
  BY PayStatementIs DEF Handling
<1>2. Swap(s, now) /\ now.does = "statement" /\ now.trip = None /\ None \notin Trips
  BY <1>1 DEF Pays, StatementAssumption
<1>3. \A t \in Trips : ~Has(now, t)
  BY <1>2 DEF Has
<1>4. PlanRow(now) /\ \A t \in Trips : Holds(now, t)
  BY <1>2, <1>3 DEF PlanRow, Holds
<1> QED BY <1>2, <1>3, <1>4, SwapHandling

LEMMA DeskHandling ==
    ASSUME Handling, NEW s \in Sessions, Looks(s) \/ CommitMark(s) \/ CommitCancel(s), Typed'
    PROVE  Handling'
<1>1. PICK now \in Session :
         /\ session' = [session EXCEPT ![s] = now]
         /\ now.step \notin {"sync", "write"} /\ trip' = trip
  <2>1. CASE Looks(s)
    BY <2>1 DEF Looks, Swap
  <2>2. CASE CommitMark(s) \/ CommitCancel(s)
    <3>1. session' = [session EXCEPT ![s] = Idle] /\ trip' = trip
      BY <2>2, MarkIs, CancelIs DEF Handling
    <3> QED BY <3>1, Start0
  <2> QED BY <2>1, <2>2
<1>2. session'[s] = now /\ \A q \in Sessions : q # s => session'[q] = session[q]
  BY <1>1 DEF Handling, Typed, TypeOK
<1>3. \A t : ~Has(now, t)
  BY <1>1 DEF Has
<1>4. TripsApart'
  BY <1>2, <1>3 DEF Handling, TripsApart, Has
<1>5. ASSUME NEW q \in Sessions
      PROVE  PlanRow(session[q])' /\ \A t \in Trips : Holds(session[q], t)'
  <2>1. CASE q = s
    BY <1>1, <1>2, <2>1 DEF PlanRow, Holds, Has
  <2>2. CASE q # s
    BY <1>1, <1>2, <2>2 DEF Handling, Holds, Has, PlanRow
  <2> QED BY <2>1, <2>2
<1>6. \A t \in Trips : TripRow(t)'
  BY <1>1 DEF Handling, TripRow
<1> QED BY <1>4, <1>5, <1>6 DEF Handling

\* A commit leaves the trips that others hold.
LEMMA CommitKeeps ==
    ASSUME Handling, NEW s \in Sessions, Commit(s), NEW q \in Sessions, q # s, NEW t \in Trips,
           Has(session[q], t)
    PROVE  trip'[t] = trip[t] /\ t \notin session[s].plan.marks
           /\ (t = session[s].trip => session[s].does = "list")
<1>1. /\ session[s].step = "write" /\ trip' = TripsAfter(s)
      /\ \A u \in session[s].plan.marks : TripFree(s, u)
      /\ (session[s].does = "list" /\ session[s].plan.row.pay # session[s].row.pay)
            => TripFree(s, session[s].trip)
  BY CommitIs DEF Handling
<1>2. t \notin session[s].plan.marks
  BY <1>1, TripFreeIs
<1>3. t = session[s].trip => session[s].does = "list"
  BY <1>1 DEF Handling, TripsApart, Has
<1>4. Written(s, t) = trip[t]
  <2>1. CASE t # session[s].trip
    BY <2>1 DEF Written
  <2>2. CASE t = session[s].trip
    <3>1. session[s].plan.row.pay = session[s].row.pay
      BY <1>1, <1>3, <2>2, TripFreeIs
    <3> QED BY <1>3, <2>2, <3>1, TripsAfterIs DEF Handling
  <2> QED BY <2>1, <2>2
<1> QED BY <1>1, <1>2, <1>3, <1>4, TripsAfterIs DEF Handling

LEMMA CommitHandling ==
    ASSUME Handling, NEW s \in Sessions, Commit(s), Typed'
    PROVE  Handling'
<1> DEFINE now == session[s]
<1>1. /\ now.step = "write" /\ trip' = TripsAfter(s)
      /\ session' = [session EXCEPT ![s] = Idle]
  BY CommitIs DEF Handling
<1>2. session'[s] = Idle /\ \A q \in Sessions : q # s => session'[q] = session[q]
  BY <1>1 DEF Handling, Typed, TypeOK
<1>3. \A t : ~Has(Idle, t)
  BY Start0 DEF Has
<1>4. TripsApart'
  BY <1>2, <1>3 DEF Handling, TripsApart, Has
<1>5. ASSUME NEW q \in Sessions
      PROVE  PlanRow(session[q])' /\ \A t \in Trips : Holds(session[q], t)'
  <2>1. CASE q = s
    BY <1>1, <1>2, <2>1, Start0 DEF PlanRow, Holds, Has
  <2>2. CASE q # s
    <3>1. session'[q] = session[q] /\ PlanRow(session[q])
      BY <1>2, <2>2 DEF Handling
    <3>2. ASSUME NEW t \in Trips PROVE Holds(session[q], t)'
      <4>1. Holds(session[q], t)
        BY DEF Handling
      <4>2. Has(session[q], t) => trip'[t] = trip[t]
        BY <2>2, CommitKeeps
      <4> QED BY <3>1, <4>1, <4>2 DEF Holds, Has
    <3> QED BY <3>1, <3>2 DEF PlanRow
  <2> QED BY <2>1, <2>2
<1>6. ASSUME NEW t \in Trips PROVE TripRow(t)'
  <2>1. /\ trip'[t].status = Written(s, t).status /\ trip'[t].van = Written(s, t).van
        /\ trip'[t].pay = IF t \in now.plan.marks THEN "paid" ELSE Written(s, t).pay
        /\ trip'[t].locked = (t \in now.plan.marks \/ Written(s, t).locked)
    BY <1>1, TripsAfterIs DEF Handling
  <2>2. TripRow(t)
    BY DEF Handling
  <2>3. CASE t # now.trip
    BY <2>1, <2>2, <2>3 DEF Written, TripRow
  <2>4. CASE t = now.trip /\ now.does = "list"
    <3>1. /\ Written(s, t).status = trip[t].status /\ Written(s, t).van = trip[t].van
          /\ Written(s, t).locked = trip[t].locked
      BY <2>4, TripsAfterIs DEF Handling
    <3>2. Written(s, t).pay = "paid" => trip[t].pay = "paid"
      <4>1. now.plan.row.pay # now.row.pay => now.plan.row.pay # "paid"
        BY <1>1, <2>4 DEF Handling, PlanRow
      <4>2. trip[t] \in Row
        BY TypeFields DEF Handling, Typed
      <4>3. Written(s, t).pay = IF now.plan.row.pay # now.row.pay THEN now.plan.row.pay ELSE trip[t].pay
        BY <2>4, <4>2 DEF Written, Row
      <4> QED BY <4>1, <4>3
    <3> QED BY <2>1, <2>2, <3>1, <3>2 DEF TripRow
  <2>5. CASE t = now.trip /\ now.does # "list"
    <3>1. Has(now, t) /\ Holds(now, t) /\ PlanRow(now) /\ now.does # "statement"
      <4>1. now.does # "statement"
        BY <2>5 DEF Handling, Typed, Shape, StatementAssumption
      <4> QED BY <1>1, <2>5, <4>1 DEF Handling, Has
    <3>2. Written(s, t) = now.plan.row
      BY <2>5 DEF Written
    <3>3. /\ now.plan.row.pay = "paid" => now.plan.row.locked
          /\ now.plan.row.status \in {"boarding", "departed"} => now.plan.row.van # None
      BY <1>1, <2>2, <3>1 DEF Holds, PlanRow, TripRow
    <3> QED BY <2>1, <3>2, <3>3 DEF TripRow
  <2> QED BY <2>3, <2>4, <2>5
<1> QED BY <1>4, <1>5, <1>6 DEF Handling

LEMMA OfficeHandling ==
    ASSUME Handling, Typed',
           \/ \E t \in Trips, row \in Row : Writes(t, row)
           \/ \E v \in Vans : ChargeParking(v)
           \/ \E t \in Trips : \E i \in DOMAIN charged[t] : Raise(t, i)
           \/ \E t \in Trips : \E i \in DOMAIN charged[t] : Settles(t, i)
    PROVE  Handling'
<1>1. ASSUME NEW t \in Trips, NEW row \in Row, Writes(t, row) PROVE Handling'
  <2>1. /\ trip' = [trip EXCEPT ![t] = row] /\ RowFree(t) /\ session' = session /\ trip \in [Trips -> Row]
    BY <1>1, WritesIs, TypeFields DEF Handling, Typed
  <2>2. TripRow(t)'
    <3>1. TripRow(t) /\ trip'[t] = row
      BY <2>1 DEF Handling
    <3>2. /\ row.locked = trip[t].locked /\ (row.pay = "paid" => trip[t].pay = "paid")
          /\ row.status \in {"scheduled", "boarding"}
          /\ row.status = "boarding" => row.van # None \/ row.status = trip[t].status
          /\ row.van = trip[t].van \/ trip[t].van = None
      BY <1>1 DEF Writes, Waiting, BEFORE_DEPARTURE
    <3> QED BY <3>1, <3>2 DEF TripRow
  <2> QED BY <2>1, <2>2, RowsHandling
<1>2. ASSUME NEW v \in Vans, ChargeParking(v) PROVE Handling'
  BY <1>2, ParkingIs, RowsHandling DEF Handling
<1>3. ASSUME NEW t \in Trips, NEW i \in DOMAIN charged[t], Raise(t, i) PROVE Handling'
  BY <1>3, RaiseIs, RowsHandling DEF Handling
<1>4. ASSUME NEW t \in Trips, NEW i \in DOMAIN charged[t],
             NEW dispute \in {"withdrawn", "resolved"}, NEW due \in Nat, Settle(t, i, dispute, due)
      PROVE  Handling'
  <2>1. Settled(t, i, dispute, due)
    BY <1>4, SettleIs DEF Handling
  <2>2. /\ session' = session /\ RowFree(t) /\ trip[t] \in Row /\ trip \in [Trips -> Row]
        /\ trip' = trip \/ trip' = [trip EXCEPT ![t] = [trip[t] EXCEPT !.pay = "unpaid"]]
    BY <2>1, TypeFields DEF Settled, Handling, Typed
  <2>3. TripRow(t)'
    <3>1. /\ [trip[t] EXCEPT !.pay = "unpaid"].pay = "unpaid"
          /\ [trip[t] EXCEPT !.pay = "unpaid"].status = trip[t].status
          /\ [trip[t] EXCEPT !.pay = "unpaid"].van = trip[t].van
      BY <2>2 DEF Row
    <3>2. trip'[t] = trip[t] \/ trip'[t] = [trip[t] EXCEPT !.pay = "unpaid"]
      BY <2>2
    <3> QED BY <3>1, <3>2 DEF TripRow, Handling
  <2> QED BY <2>2, <2>3, RowsHandling
<1> QED BY <1>1, <1>2, <1>3, <1>4 DEF Settles

LEMMA NextHandling ==
    ASSUME Handling, [Next]_vars
    PROVE  Handling'
<1>1. Typed'
  BY NextTyped DEF Handling
<1>2. CASE UNCHANGED vars
  BY <1>1, <1>2 DEF vars, Handling, TripsApart, Has, Holds, PlanRow, TripRow
<1>3. CASE Next
  BY <1>1, <1>3, Cases, DeskHandling, ReadsHandling, SyncHandling, PayStatementHandling,
     CommitHandling, OfficeHandling DEF Handling
<1> QED BY <1>2, <1>3

-----------------------------------------------------------------------------
(***************************************************************************)
(* Seats.  What a sync leaves on the lines is the list or what cannot be   *)
(* taken off it, whichever is more.                                        *)
(***************************************************************************)
LEMMA LeastLine ==
    ASSUME NEW S \in SUBSET Nat, S # {}
    PROVE  Min(S) \in S
<1>1. \E x \in S : \A y \in S : ~(<<y, x>> \in OpToRel(<, Nat))
  BY NatLessThanWellFounded, WFMin
<1>2. PICK x \in S : \A y \in S : ~(y < x)
  BY <1>1 DEF OpToRel
<1>3. \A y \in S : x <= y
  BY <1>2
<1> QED BY <1>3 DEF Min

\* Deleted lines have no seats, whatever they say.
LEMMA SeatsAgree ==
    ASSUME NEW a \in Seq(Line), NEW b \in Seq(Line), Len(a) = Len(b),
           \A i \in DOMAIN a : /\ a[i].on = None <=> b[i].on = None
                               /\ a[i].on # None => a[i].count = b[i].count
    PROVE  Seats(a) = Seats(b)
<1> DEFINE D == DOMAIN a
           f == CountAt(a, Standing(a))
           g == CountAt(b, Standing(b))
<1>1. D = DOMAIN b /\ IsFiniteSet(D)
  BY LineFields
<1>2. \A i \in D : f[i] \in Nat
  BY LineSums
<1>3. \A i \in D : f[i] = g[i]
  BY <1>1 DEF CountAt, Standing
<1>4. Seats(a) = SumFunctionOnSet(f, D) /\ Seats(b) = SumFunctionOnSet(g, D)
  BY <1>1, LineSums DEF Seats
<1> HIDE DEF f, g, D
<1>5. SumFunctionOnSet(f, D) = SumFunctionOnSet(g, D)
  BY <1>1, <1>2, <1>3, SumAgree
<1> QED BY <1>4, <1>5

LEMMA NoMore ==
    ASSUME NEW base \in Seq(Line), NEW row \in Row, NEW n \in Int, ~(n > 0)
    PROVE  base \o More(row, n) = base
<1>1. More(row, n) = <<>>
  BY DEF More
<1>2. base \o <<>> = base
  OBVIOUS
<1> QED BY <1>1, <1>2

\* The line that is added.
LEMMA SeatsMore ==
    ASSUME NEW base \in Seq(Line), NEW row \in Row, NEW n \in Int, n > 0 => row.van # None
    PROVE  Seats(base \o More(row, n)) = Seats(base) + (IF n > 0 THEN n ELSE 0)
<1>1. Seats(base) \in Nat /\ Len(base) \in Nat /\ DOMAIN base = 1..Len(base)
  BY LineSums, LineFields
<1>2. CASE ~(n > 0)
  <2>1. base \o More(row, n) = base
    BY <1>2, NoMore
  <2>2. Seats(base \o More(row, n)) = Seats(base)
    BY <2>1
  <2> QED BY <1>1, <1>2, <2>2
<1>3. CASE n > 0
  <2> DEFINE new == More(row, n)
             all == base \o new
             D == DOMAIN all
             k == Len(base) + 1
             f == CountAt(all, Standing(all))
             g == CountAt(base, Standing(base))
  <2>1. /\ new \in Seq(Line) /\ Len(new) = 1 /\ new[1] = NewLine(row.van, n)
    BY <1>3, MoreType
  <2>2. row.van \in Vans \cup {None} /\ n \in Nat
    BY <1>3 DEF Row
  <2>3. NewLine(row.van, n).on = row.van /\ NewLine(row.van, n).count = n
    BY <2>2, NewLineType
  <2> HIDE DEF new
  <2>4. /\ all \in Seq(Line) /\ Len(all) = k
        /\ \A i \in DOMAIN base : all[i] = base[i]
        /\ all[k] = NewLine(row.van, n)
    <3>1. /\ base \o new \in Seq(Line) /\ Len(base \o new) = Len(base) + Len(new)
          /\ \A i \in 1..(Len(base) + Len(new)) :
                (base \o new)[i] = IF i <= Len(base) THEN base[i] ELSE new[i - Len(base)]
      BY <2>1, Concat
    <3>2. k \in 1..(Len(base) + Len(new)) /\ ~(k <= Len(base)) /\ k - Len(base) = 1
      BY <1>1, <2>1
    <3> QED BY <1>1, <2>1, <3>1, <3>2
  <2> HIDE DEF all
  <2>5. D = 1..k /\ IsFiniteSet(D) /\ k \in D /\ D \ {k} = DOMAIN base /\ k \in Nat
    BY <1>1, <2>4, LineFields
  <2>6. /\ \A i \in D : f[i] \in Nat
        /\ \A i \in DOMAIN base : g[i] \in Nat
    BY <2>4, LineSums
  <2>7. f[k] = n
    BY <1>3, <2>3, <2>4, <2>5 DEF CountAt, Standing
  <2>8. \A i \in DOMAIN base : f[i] = g[i]
    BY <2>4, <2>5 DEF CountAt, Standing
  <2>9. Seats(all) = SumFunctionOnSet(f, D) /\ Seats(base) = SumFunctionOnSet(g, DOMAIN base)
    BY <2>4, LineSums DEF Seats
  <2>10. IsFiniteSet(DOMAIN base)
    BY LineFields
  <2> HIDE DEF f, g, D, k
  <2>11. SumFunctionOnSet(f, D) = f[k] + SumFunctionOnSet(f, D \ {k})
    BY <2>5, <2>6, SumTake
  <2>12. SumFunctionOnSet(f, DOMAIN base) = SumFunctionOnSet(g, DOMAIN base)
    BY <2>6, <2>8, <2>10, SumAgree
  <2>13. Seats(all) = n + Seats(base)
    BY <2>5, <2>7, <2>9, <2>11, <2>12
  <2>14. Seats(base \o More(row, n)) = n + Seats(base)
    BY <2>13 DEF all, new
  <2> QED BY <1>1, <1>3, <2>14
<1> QED BY <1>2, <1>3

LEMMA FollowSeats ==
    ASSUME NEW row \in Row, NEW read \in Seq(Line)
    PROVE  Seats(Follow(row, read)) = Seats(read)
<1>1. /\ Follow(row, read) \in Seq(Line) /\ Len(Follow(row, read)) = Len(read)
      /\ \A i \in DOMAIN read :
            /\ Follow(row, read)[i].on = IF row.van = None \/ read[i].on = None
                                         THEN read[i].on ELSE row.van
            /\ Follow(row, read)[i].count = read[i].count
  BY FollowType
<1> QED BY <1>1, SeatsAgree

\* What is left of the lines when they are made to mirror the list.
LEMMA ShownSeats ==
    ASSUME NEW t \in Trips, NEW row \in Row, NEW read \in Seq(Line), listed \in [Trips -> Nat]
    PROVE  /\ SeatsAt(read, Contested(t, read)) \in Nat
           /\ SeatsAt(read, Contested(t, read)) <= Seats(read)
           /\ Seats(Shown(t, row, read)) = SeatsAt(read, Contested(t, read))
                 + (IF Rest(t, row, read) > 0 /\ Uncontested(t, read) # {}
                    THEN Rest(t, row, read) ELSE 0)
<1> DEFINE D == DOMAIN read
           shown == Shown(t, row, read)
           rest == Rest(t, row, read)
           C == Contested(t, read)
           U == Uncontested(t, read)
           f == CountAt(shown, Standing(shown))
           g == CountAt(read, C)
           h == CountAt(read, Standing(read))
<1>1. D = 1..Len(read) /\ Len(read) \in Nat /\ IsFiniteSet(D)
  BY LineFields
<1>2. shown \in Seq(Line) /\ DOMAIN shown = D /\ rest \in Int
  BY ShownType
<1>3. C \subseteq D /\ U \subseteq D /\ C \cap U = {} /\ C \cup U = Standing(read) /\ U \subseteq Nat
  BY <1>1 DEF Contested, Uncontested, Standing
<1>4. /\ \A i \in D : f[i] \in Nat /\ g[i] \in Nat /\ h[i] \in Nat
      /\ SeatsAt(read, C) = SumFunctionOnSet(g, D) /\ SeatsAt(read, C) \in Nat
      /\ Seats(read) = SumFunctionOnSet(h, D)
      /\ Seats(shown) = SumFunctionOnSet(f, D)
  BY <1>2, LineSums DEF Seats
<1>5. \A i \in D : g[i] <= h[i]
  <2>1. \A i \in D : read[i].count \in Nat
    BY LineFields
  <2> QED BY <1>3, <2>1 DEF CountAt
<1>6. /\ Deleted.on = None
      /\ \A i \in D : /\ Follow(row, read)[i].on = IF row.van = None \/ read[i].on = None
                                                   THEN read[i].on ELSE row.van
                      /\ Follow(row, read)[i].count = read[i].count
                      /\ Follow(row, read)[i] \in Line
  <2>1. Follow(row, read) \in Seq(Line) /\ DOMAIN Follow(row, read) = D
    BY FollowType
  <2> QED BY <2>1, FollowType, LineFields DEF Deleted, NewLine
<1>7. \A i \in D : shown[i] =
         IF i \in Kept(t, row, read) THEN [Follow(row, read)[i] EXCEPT !.count = rest]
         ELSE IF i \in U THEN Deleted ELSE Follow(row, read)[i]
  BY DEF Shown
<1>8. ASSUME NEW i \in D, i \notin Kept(t, row, read) PROVE f[i] = g[i]
  <2>1. CASE i \in U
    BY <1>2, <1>3, <1>6, <1>7, <1>8, <2>1 DEF CountAt, Standing
  <2>2. CASE i \notin U
    <3>1. shown[i] = Follow(row, read)[i]
      BY <1>7, <1>8, <2>2
    <3>2. i \in C <=> read[i].on # None
      BY <1>3, <2>2 DEF Standing
    <3>3. shown[i].on = None <=> read[i].on = None
      BY <1>6, <3>1
    <3>4. shown[i].count = read[i].count
      BY <1>6, <3>1
    <3> HIDE DEF shown, C
    <3> QED BY <1>2, <3>2, <3>3, <3>4 DEF CountAt, Standing
  <2> QED BY <2>1, <2>2
<1>9. CASE rest > 0 /\ U # {}
  <2>1. Kept(t, row, read) = {Min(U)} /\ Min(U) \in U
    BY <1>3, <1>9, LeastLine DEF Kept
  <2> DEFINE k == Min(U)
  <2>2. k \in D /\ k \notin C /\ read[k].on # None
    BY <1>3, <2>1 DEF Standing
  <2>3. /\ shown[k].count = rest /\ shown[k].on = Follow(row, read)[k].on
    BY <1>6, <1>7, <2>1, <2>2 DEF Line
  <2>4. f[k] = rest /\ g[k] = 0
    BY <1>2, <1>6, <2>2, <2>3 DEF CountAt, Standing
  <2>5. \A i \in D \ {k} : f[i] = g[i]
    BY <1>8, <2>1
  <2>10. /\ \A i \in D : f[i] \in Nat /\ g[i] \in Nat
         /\ IsFiniteSet(D) /\ k \in D
    BY <1>1, <1>4, <2>2
  <2> HIDE DEF f, g, h, D, k
  <2>11. SumFunctionOnSet(f, D) = f[k] + SumFunctionOnSet(f, D \ {k})
    BY <2>10, SumTake
  <2>12. SumFunctionOnSet(g, D) = g[k] + SumFunctionOnSet(g, D \ {k})
    BY <2>10, SumTake
  <2>13. IsFiniteSet(D \ {k})
    BY <2>10, FS_RemoveElement
  <2>14. SumFunctionOnSet(f, D \ {k}) = SumFunctionOnSet(g, D \ {k})
    BY <2>5, <2>10, <2>13, SumAgree
  <2>6. SumFunctionOnSet(f, D) + g[k] = SumFunctionOnSet(g, D) + f[k]
    <3>1. SumFunctionOnSet(g, D \ {k}) \in Nat /\ f[k] \in Nat /\ g[k] \in Nat
      BY <2>10, <2>13, SumType
    <3> QED BY <2>11, <2>12, <2>14, <3>1
  <2>7. SumFunctionOnSet(g, D) <= SumFunctionOnSet(h, D)
    BY <1>1, <1>4, <1>5, SumMonotone
  <2>8. SumFunctionOnSet(f, D) \in Nat /\ SumFunctionOnSet(g, D) \in Nat
    BY <1>1, <1>4, SumType
  <2> HIDE DEF shown, rest, C, U
  <2>9. Seats(shown) = SeatsAt(read, C) + rest /\ SeatsAt(read, C) <= Seats(read)
    BY <1>2, <1>4, <2>4, <2>6, <2>7, <2>8
  <2> QED BY <1>4, <1>9, <2>9 DEF shown, rest, C, U
<1>10. CASE ~(rest > 0 /\ U # {})
  <2>1. \A i \in D : f[i] = g[i]
    <3>1. Kept(t, row, read) = {}
      BY <1>10 DEF Kept
    <3> QED BY <1>8, <3>1
  <2> HIDE DEF f, g, h, D
  <2>2. SumFunctionOnSet(f, D) = SumFunctionOnSet(g, D)
    BY <1>1, <1>4, <2>1, SumAgree
  <2>3. SumFunctionOnSet(g, D) <= SumFunctionOnSet(h, D)
    BY <1>1, <1>4, <1>5, SumMonotone
  <2> HIDE DEF shown, rest, C, U
  <2>4. Seats(shown) = SeatsAt(read, C) + 0 /\ SeatsAt(read, C) <= Seats(read)
    BY <1>4, <2>2, <2>3
  <2> QED BY <1>4, <1>10, <2>4 DEF shown, rest, C, U
<1> QED BY <1>9, <1>10

\* The seats of the lines after a sync: those that have to be on a line, or
\* those that stay on the lines that were read.
LEMMA SyncedSeats ==
    ASSUME NEW t \in Trips, NEW row \in Row, NEW read \in Seq(Line), listed \in [Trips -> Nat]
    PROVE  /\ Seats(Synced(t, row, read)) >= Goal(t, row)
           /\ Seats(Synced(t, row, read)) <= Goal(t, row) \/ Seats(Synced(t, row, read)) <= Seats(read)
<1> DEFINE goal == Goal(t, row)
           old == Seats(read)
<1>1. goal \in Nat /\ (row.van = None => goal = 0)
  BY GoalType DEF Goal
<1>2. old \in Nat
  BY LineSums
<1>3. CASE row.locked
  <2> DEFINE n == goal - old
  <2>1. Synced(t, row, read) = Follow(row, read) \o More(row, n)
    BY <1>3, TopUpParts DEF Synced
  <2>2. n \in Int /\ (n > 0 => row.van # None)
    BY <1>1, <1>2
  <2>3. Follow(row, read) \in Seq(Line) /\ Seats(Follow(row, read)) = old
    BY FollowType, FollowSeats
  <2>4. Seats(Synced(t, row, read)) = old + (IF n > 0 THEN n ELSE 0)
    <3> HIDE DEF n, old, goal
    <3> QED BY <2>1, <2>2, <2>3, SeatsMore
  <2> DEFINE all == Seats(Synced(t, row, read))
  <2> HIDE DEF all, old, goal
  <2>5. all >= goal /\ (all <= goal \/ all <= old)
    BY <1>1, <1>2, <2>4 DEF all
  <2> QED BY <2>5 DEF all, old, goal
<1>4. CASE ~row.locked
  <2> DEFINE rest == Rest(t, row, read)
             U == Uncontested(t, read)
             C == SeatsAt(read, Contested(t, read))
             n == IF U = {} THEN rest ELSE 0
  <2>1. Synced(t, row, read) = Shown(t, row, read) \o More(row, n)
    BY <1>4, MirrorParts DEF Synced
  <2>2. C \in Nat /\ C <= old
        /\ Seats(Shown(t, row, read)) = C + (IF rest > 0 /\ U # {} THEN rest ELSE 0)
    BY ShownSeats
  <2>3. rest = goal - C /\ rest \in Int
    BY <1>1, <2>2 DEF Rest
  <2>4. n \in Int /\ (n > 0 => row.van # None)
    BY <1>1, <2>2, <2>3
  <2>5. Shown(t, row, read) \in Seq(Line)
    BY ShownType
  <2>6. Seats(Synced(t, row, read)) = Seats(Shown(t, row, read)) + (IF n > 0 THEN n ELSE 0)
    <3> HIDE DEF n
    <3> QED BY <2>1, <2>4, <2>5, SeatsMore
  <2> DEFINE all == Seats(Synced(t, row, read))
             shown == Seats(Shown(t, row, read))
  <2>7. /\ shown = C + (IF rest > 0 /\ U # {} THEN rest ELSE 0)
        /\ all = shown + (IF n > 0 THEN n ELSE 0)
    BY <2>2, <2>6
  <2> HIDE DEF all, shown, rest, C, old, goal, U
  <2>8. all >= goal /\ (all <= goal \/ all <= old)
    BY <1>1, <1>2, <2>2, <2>3, <2>7
  <2> QED BY <2>8 DEF all, old, goal
<1> QED BY <1>3, <1>4

\* A commit of lines that nobody else had in hand leaves them as worked out.
LEMMA MergedSeats ==
    ASSUME NEW now \in Seq(Line), NEW read \in Seq(Line), NEW lines \in Seq(Line),
           Len(read) <= Len(lines), Places(read) = Places(now)
    PROVE  Seats(Merged(now, read, lines)) = Seats(lines)
<1> DEFINE all == Merged(now, read, lines)
<1>1. /\ Len(read) = Len(now) /\ \A i \in DOMAIN read : read[i].on = now[i].on /\ read[i].count = now[i].count
  BY SameSeats
<1>2. /\ all \in Seq(Line) /\ Len(all) = Len(now) + (Len(lines) - Len(read))
      /\ \A i \in DOMAIN now : all[i] = IF i \in DOMAIN read THEN MergedLine(now[i], read[i], lines[i])
                                         ELSE now[i]
      /\ \A i \in 1..(Len(lines) - Len(read)) : all[Len(now) + i] = lines[Len(read) + i]
  <2>1. MergesAs(all, now, read, lines)
    BY MergedType
  <2> HIDE DEF all
  <2> QED BY <2>1 DEF MergesAs
<1>3. /\ Len(now) \in Nat /\ DOMAIN now = 1..Len(now) /\ Len(read) \in Nat /\ DOMAIN read = 1..Len(read)
      /\ Len(lines) \in Nat /\ DOMAIN lines = 1..Len(lines) /\ Len(all) \in Nat /\ DOMAIN all = 1..Len(all)
      /\ \A i \in DOMAIN now : now[i] \in Line
      /\ \A i \in DOMAIN lines : lines[i] \in Line
  BY <1>2, LineFields
<1>4. Len(all) = Len(lines)
  <2> HIDE DEF all
  <2> QED BY <1>1, <1>2, <1>3
<1>5. ASSUME NEW i \in DOMAIN all
      PROVE  /\ all[i].on = None <=> lines[i].on = None
             /\ all[i].on # None => all[i].count = lines[i].count
  <2>1. CASE i <= Len(now)
    <3>1. i \in DOMAIN now /\ i \in DOMAIN read /\ i \in DOMAIN lines
      BY <1>1, <1>3, <1>4, <2>1
    <3>2. all[i] = MergedLine(now[i], read[i], lines[i])
      BY <1>2, <3>1
    <3>3. now[i] \in Line /\ lines[i] \in Line /\ read[i].on = now[i].on /\ read[i].count = now[i].count
      BY <1>1, <1>3, <3>1
    <3>4. Deleted.on = None
      BY DEF Deleted, NewLine
    <3> HIDE DEF all
    <3> QED BY <3>2, <3>3, <3>4 DEF MergedLine, Line
  <2>2. CASE ~(i <= Len(now))
    <3>1. i - Len(now) \in 1..(Len(lines) - Len(read)) /\ Len(now) + (i - Len(now)) = i
          /\ Len(read) + (i - Len(now)) = i
      BY <1>1, <1>3, <1>4, <2>2
    <3> HIDE DEF all
    <3> QED BY <1>2, <3>1
  <2> QED BY <2>1, <2>2
<1> HIDE DEF all
<1>6. Seats(all) = Seats(lines)
  BY <1>2, <1>4, <1>5, SeatsAgree
<1> QED BY <1>6 DEF all

-----------------------------------------------------------------------------
(***************************************************************************)
(* Every seat is charged once.  While nobody else has them, the lines a    *)
(* handler holds are the trip's, and what it will write of them has the    *)
(* list of a trip that leaves.                                             *)
(***************************************************************************)
Works(now, t) == now.step \in {"sync", "write"} /\ now.trip = t

Alone(s) ==
    LET now == session[s]
        t == now.trip
    IN (now.step \in {"sync", "write"} /\ t \in Trips /\ ~past[t].mixed) =>
       /\ \A q \in Sessions \ {s} : ~Works(session[q], t)
       /\ Places(now.read) = Places(charged[t])
       /\ now.step = "write" =>
             /\ Seats(now.plan.lines) <= MaxSeats[t]
             /\ (now.plan.row.status = "departed" \/ trip[t].status = "departed") =>
                   Seats(now.plan.lines) + past[t].missed >= listed[t]

SeatsRight(t) ==
    ~past[t].mixed =>
        /\ Seats(charged[t]) <= MaxSeats[t]
        /\ trip[t].status = "departed" => Seats(charged[t]) + past[t].missed >= listed[t]

Seating ==
    /\ Handling
    /\ \A t \in Trips : SeatsRight(t)
    /\ \A s \in Sessions : Alone(s)

LEMMA SeatFields ==
    ASSUME Typed
    PROVE  /\ \A t \in Trips : /\ listed[t] \in Nat /\ MaxSeats[t] \in Nat /\ listed[t] <= MaxSeats[t]
                               /\ past[t].missed \in Nat /\ Seats(charged[t]) \in Nat
                               /\ charged[t] \in Seq(Line)
           /\ \A s \in Sessions : /\ Seats(session[s].plan.lines) \in Nat
                                  /\ session[s].plan.lines \in Seq(Line)
                                  /\ session[s].read \in Seq(Line)
           /\ None \notin Trips
<1>1. \A t \in Trips : /\ listed[t] \in Nat /\ MaxSeats[t] \in Nat /\ listed[t] <= MaxSeats[t]
                       /\ past[t].missed \in Nat /\ charged[t] \in Seq(Line)
  BY TypeFields DEF Typed
<1>2. \A s \in Sessions : session[s].plan.lines \in Seq(Line) /\ session[s].read \in Seq(Line)
  BY TypeFields DEF Typed
<1> QED BY <1>1, <1>2, LineSums DEF StatementAssumption

LEMMA InitSeating ==
    ASSUME Init
    PROVE  Seating
<1>1. Handling
  BY InitHandling
<1>2. \A s \in Sessions : Alone(s)
  BY Start0 DEF Init, Alone
<1>3. ASSUME NEW t \in Trips PROVE SeatsRight(t)
  <2>1. charged[t] = <<>> /\ trip[t].status = "scheduled" /\ MaxSeats[t] \in Nat
    BY DEF Init, NewTrip, StatementAssumption
  <2>2. Seats(<<>>) = 0
    <3>1. <<>> \in Seq(Line) /\ DOMAIN <<>> = {}
      OBVIOUS
    <3>2. Seats(<<>>) = SumFunctionOnSet(CountAt(<<>>, Standing(<<>>)), DOMAIN <<>>)
      BY <3>1, LineSums DEF Seats
    <3>3. SumFunctionOnSet(CountAt(<<>>, Standing(<<>>)), {}) = 0
      BY SumEmpty
    <3> QED BY <3>1, <3>2, <3>3
  <2> QED BY <2>1, <2>2 DEF SeatsRight
<1> QED BY <1>1, <1>2, <1>3 DEF Seating

\* A step that moves no line, lists no seat and takes nothing in hand.
LEMMA StillSeating ==
    ASSUME Seating, Handling', listed' = listed,
           \A t \in Trips : /\ past'[t].mixed = past[t].mixed /\ past'[t].missed = past[t].missed
                            /\ Places(charged'[t]) = Places(charged[t])
                            /\ trip'[t].status = "departed" => trip[t].status = "departed",
           \A q \in Sessions : \/ session'[q] = session[q]
                               \/ session'[q].step \notin {"sync", "write"}
                               \/ session'[q].trip \notin Trips
    PROVE  Seating'
<1>1. \A t \in Trips : charged[t] \in Seq(Line) /\ charged'[t] \in Seq(Line)
  BY TypeFields DEF Seating, Handling, Typed, TypeOK
<1>2. \A t \in Trips : Seats(charged'[t]) = Seats(charged[t])
  BY <1>1, SameSeats
<1>3. ASSUME NEW t \in Trips PROVE SeatsRight(t)'
  BY <1>2 DEF Seating, SeatsRight
<1>4. ASSUME NEW s \in Sessions PROVE Alone(s)'
  <2>1. CASE session'[s] = session[s]
    <3> SUFFICES ASSUME session[s].step \in {"sync", "write"}, session[s].trip \in Trips,
                        ~past[session[s].trip].mixed
                 PROVE  Alone(s)'
      BY <2>1 DEF Alone
    <3> DEFINE t == session[s].trip
    <3>1. /\ \A q \in Sessions \ {s} : ~Works(session[q], t)
          /\ Places(session[s].read) = Places(charged[t])
          /\ session[s].step = "write" =>
                /\ Seats(session[s].plan.lines) <= MaxSeats[t]
                /\ (session[s].plan.row.status = "departed" \/ trip[t].status = "departed") =>
                      Seats(session[s].plan.lines) + past[t].missed >= listed[t]
      BY DEF Seating, Alone
    <3>2. \A q \in Sessions \ {s} : ~Works(session'[q], t)
      BY <3>1 DEF Works
    <3> QED BY <2>1, <3>1, <3>2 DEF Alone, Works
  <2>2. CASE session'[s].step \notin {"sync", "write"} \/ session'[s].trip \notin Trips
    BY <2>2 DEF Alone
  <2> QED BY <2>1, <2>2
<1> QED BY <1>3, <1>4 DEF Seating

LEMMA ReadsSeating ==
    ASSUME Seating, NEW s \in Sessions, NEW t \in Trips, NEW does \in DOES, NEW row \in Row,
           NEW holds \in SUBSET Vans, NEW plan \in Plan, Reads(s, t, does, row, holds, plan), Handling'
    PROVE  Seating'
<1>1. /\ ReadLines(s, t, does, row, holds, plan) /\ plan.amount = 0 /\ plan.marks = {}
      /\ does = "list" => row.van # None /\ Waiting(row)
      /\ does \in {"recount", "start", "depart", "pay", "list"}
  BY DEF Reads, DOES
<1>2. PICK now \in Session : ReadAs(s, t, does, row, holds, plan, now)
  BY <1>1, ReadLinesIs DEF Seating, Handling
<1>3. /\ session' = [session EXCEPT ![s] = now] /\ UNCHANGED <<trip, listed, charged, account>>
      /\ now.step = "sync" /\ now.trip = t /\ now.read = charged[t]
  BY <1>2 DEF ReadAs, Swap
<1>4. /\ session'[s] = now /\ \A q \in Sessions : q # s => session'[q] = session[q]
  BY <1>3 DEF Seating, Handling, Typed, TypeOK
<1>5. \A u \in Trips : /\ past'[u].missed = past[u].missed
                       /\ u # t => past'[u] = past[u]
                       /\ ~past'[t].mixed => /\ ~past[t].mixed
                                             /\ \A q \in Sessions \ {s} : ~Works(session[q], t)
  <2> DEFINE also == \E q \in Sessions \ {s} : InHand(q) /\ session[q].trip = t
  <2>1. past \in [Trips -> Past]
    BY DEF Seating, Handling, Typed, TypeOK
  <2>2. past' = [past EXCEPT ![t].mixed = @ \/ also]
    BY <1>2 DEF ReadAs
  <2>3. also <=> \E q \in Sessions \ {s} : Works(session[q], t)
    BY DEF InHand, Works
  <2> HIDE DEF also
  <2>4. past'[t] = [past[t] EXCEPT !.mixed = past[t].mixed \/ also]
    BY <2>1, <2>2
  <2>5. past'[t].mixed = (past[t].mixed \/ also) /\ past'[t].missed = past[t].missed
    BY <2>1, <2>4 DEF Past
  <2> QED BY <2>1, <2>2, <2>3, <2>5
<1>6. ASSUME NEW u \in Trips PROVE SeatsRight(u)'
  BY <1>3, <1>5 DEF Seating, SeatsRight
<1>7. ASSUME NEW q \in Sessions PROVE Alone(q)'
  <2>1. CASE q = s
    <3>1. ~past'[t].mixed => \A p \in Sessions \ {s} : ~Works(session'[p], t)
      BY <1>4, <1>5
    <3> QED BY <1>3, <1>4, <2>1, <3>1 DEF Alone, Works
  <2>2. CASE q # s
    <3>1. session'[q] = session[q]
      BY <1>4, <2>2
    <3> SUFFICES ASSUME session[q].step \in {"sync", "write"}, session[q].trip \in Trips,
                        ~past'[session[q].trip].mixed
                 PROVE  Alone(q)'
      BY <3>1 DEF Alone
    <3> DEFINE u == session[q].trip
    <3>2. u # t
      BY <1>5, <2>2 DEF Works
    <3>3. /\ ~past[u].mixed /\ past'[u] = past[u]
      BY <1>5, <3>2
    <3>4. /\ \A p \in Sessions \ {q} : ~Works(session[p], u)
          /\ Places(session[q].read) = Places(charged[u])
          /\ session[q].step = "write" =>
                /\ Seats(session[q].plan.lines) <= MaxSeats[u]
                /\ (session[q].plan.row.status = "departed" \/ trip[u].status = "departed") =>
                      Seats(session[q].plan.lines) + past[u].missed >= listed[u]
      BY <3>3 DEF Seating, Alone
    <3>5. \A p \in Sessions \ {q} : ~Works(session'[p], u)
      BY <1>3, <1>4, <3>2, <3>4 DEF Works
    <3> QED BY <1>3, <3>1, <3>3, <3>4, <3>5 DEF Alone, Works
  <2> QED BY <2>1, <2>2
<1> QED BY <1>6, <1>7 DEF Seating

\* What is worked out under the lock has the list of a trip that leaves.
LEMMA SyncSeating ==
    ASSUME Seating, NEW s \in Sessions, Sync(s), Handling'
    PROVE  Seating'
<1> DEFINE old == session[s]
           t == session[s].trip
<1>1. PICK row \in Row, amount \in Nat, marks \in SUBSET Trips : Syncs(s, row, amount, marks)
  BY SyncIs DEF Seating, Handling
<1>2. PICK now \in Session : PlannedAs(s, row, amount, marks, now)
  BY <1>1, PlanningIs DEF Syncs, Seating, Handling
<1>3. /\ session' = [session EXCEPT ![s] = now] /\ UNCHANGED <<trip, listed, charged, account>>
      /\ now.step = "write" /\ now.does = old.does /\ now.trip = t
      /\ now.read = old.read /\ now.plan.row = row /\ now.plan.lines = NewLines(s)
      /\ row.status = old.row.status /\ old.step = "sync" /\ t \in Trips
  BY <1>1, <1>2 DEF PlannedAs, PlanOf, Syncs, Swap, Seating, Handling, Typed, Shape
<1>4. \A u \in Trips : past'[u].mixed = past[u].mixed /\ past'[u].missed = past[u].missed
  BY <1>2, AfreshType DEF PlannedAs, Seating, Handling
<1>5. /\ session'[s] = now /\ \A q \in Sessions : q # s => session'[q] = session[q]
  BY <1>3 DEF Seating, Handling, Typed, TypeOK
<1>6. \A p \in Sessions, u \in Trips : Works(session'[p], u) => Works(session[p], u)
  BY <1>3, <1>5 DEF Works
<1>7. ASSUME NEW u \in Trips PROVE SeatsRight(u)'
  BY <1>3, <1>4 DEF Seating, SeatsRight
<1>8. ASSUME ~past[t].mixed
      PROVE  /\ Seats(NewLines(s)) <= MaxSeats[t]
             /\ (row.status = "departed" \/ trip[t].status = "departed") =>
                   Seats(NewLines(s)) >= listed[t]
  <2> DEFINE new == NewLines(s)
             goal == Goal(t, old.row)
  <2>1. /\ old.row \in Row /\ old.read \in Seq(Line) /\ charged[t] \in Seq(Line)
        /\ listed \in [Trips -> Nat] /\ listed[t] <= MaxSeats[t] /\ MaxSeats[t] \in Nat
    BY <1>3, TypeFields DEF Seating, Handling, Typed
  <2>2. Seats(old.read) <= MaxSeats[t]
    <3>1. Places(old.read) = Places(charged[t])
      BY <1>3, <1>8 DEF Seating, Alone
    <3>2. Seats(charged[t]) <= MaxSeats[t]
      BY <1>3, <1>8 DEF Seating, SeatsRight
    <3> QED BY <2>1, <3>1, <3>2, SameSeats
  <2>3. Seats(new) >= goal /\ (Seats(new) <= goal \/ Seats(new) <= Seats(old.read))
    BY <1>3, <2>1, SyncedSeats DEF NewLines
  <2>4. goal \in Nat /\ (goal = listed[t] \/ goal = 0)
    BY <1>3, <2>1, GoalType
  <2>5. Seats(old.read) \in Nat /\ Seats(new) \in Nat
    <3>1. new \in Seq(Line)
      BY <1>3, NewType DEF Seating, Handling
    <3> QED BY <2>1, <3>1, LineSums
  <2>6. ASSUME row.status = "departed" \/ trip[t].status = "departed" PROVE goal = listed[t]
    <3>1. CASE old.does = "list"
      <4>1. old.row.van # None /\ Waiting(old.row)
        BY <3>1 DEF Seating, Handling, Typed, Shape
      <4> QED BY <4>1 DEF Goal, Live, Waiting, BEFORE_DEPARTURE
    <3>2. CASE old.does # "list"
      <4>1. Holds(old, t) /\ Has(old, t)
        BY <1>3, <3>2 DEF Seating, Handling, Has
      <4>2. old.row.status = "departed" /\ old.row.van # None
        BY <1>3, <2>6, <4>1 DEF Holds
      <4> QED BY <4>2 DEF Goal, Live
    <3> QED BY <3>1, <3>2
  <2>7. listed[t] \in Nat
    BY <1>3, <2>1
  <2> DEFINE n == Seats(new)
             m == Seats(old.read)
             k == listed[t]
             x == MaxSeats[t]
  <2>8. n <= x
    <3> HIDE DEF n, m, k, x, goal
    <3>1. n >= goal /\ (n <= goal \/ n <= m) /\ m <= x /\ k <= x /\ (goal = k \/ goal = 0)
          /\ n \in Nat /\ m \in Nat /\ k \in Nat /\ x \in Nat /\ goal \in Nat
      BY <2>1, <2>2, <2>3, <2>4, <2>5, <2>7 DEF n, m, k, x
    <3> QED BY <3>1
  <2> QED BY <2>3, <2>6, <2>8
<1>9. ASSUME NEW q \in Sessions PROVE Alone(q)'
  <2> DEFINE u == session[q].trip
  <2>1. session'[q].trip = u /\ session'[q].read = session[q].read
        /\ (session'[q].step \in {"sync", "write"} => session[q].step \in {"sync", "write"})
    BY <1>3, <1>5
  <2> SUFFICES ASSUME session[q].step \in {"sync", "write"}, u \in Trips, ~past[u].mixed
               PROVE  Alone(q)'
    BY <1>4, <2>1 DEF Alone
  <2>2. /\ \A p \in Sessions \ {q} : ~Works(session[p], u)
        /\ Places(session[q].read) = Places(charged[u])
        /\ session[q].step = "write" =>
              /\ Seats(session[q].plan.lines) <= MaxSeats[u]
              /\ (session[q].plan.row.status = "departed" \/ trip[u].status = "departed") =>
                    Seats(session[q].plan.lines) + past[u].missed >= listed[u]
    BY DEF Seating, Alone
  <2>3. \A p \in Sessions \ {q} : ~Works(session'[p], u)
    BY <1>6, <2>2
  <2>4. CASE q # s
    BY <1>3, <1>4, <1>5, <2>1, <2>2, <2>3, <2>4 DEF Alone, Works
  <2>5. CASE q = s
    <3>1. past[t].missed \in Nat /\ Seats(NewLines(s)) \in Nat /\ listed[t] \in Nat
      <4>1. NewLines(s) \in Seq(Line)
        BY <1>3, NewType DEF Seating, Handling
      <4> QED BY <1>3, <4>1, LineSums, SeatFields DEF Seating, Handling
    <3>2. /\ Seats(NewLines(s)) <= MaxSeats[t]
          /\ (row.status = "departed" \/ trip[t].status = "departed") =>
                Seats(NewLines(s)) + past[t].missed >= listed[t]
      BY <1>8, <2>5, <3>1
    <3> QED BY <1>3, <1>4, <1>5, <2>1, <2>2, <2>3, <2>5, <3>2 DEF Alone, Works
  <2> QED BY <2>4, <2>5
<1> QED BY <1>7, <1>9 DEF Seating

LEMMA DeskSeating ==
    ASSUME Seating, NEW s \in Sessions, CommitMark(s) \/ CommitCancel(s), Handling'
    PROVE  Seating'
<1> DEFINE t == session[s].trip
<1>1. /\ t \in Trips /\ session[s].step \notin {"sync", "write"}
      /\ session' = [session EXCEPT ![s] = Idle] /\ UNCHANGED <<trip, charged, account>>
  BY MarkIs, CancelIs DEF Seating, Handling
<1>2. /\ session'[s] = Idle /\ \A q \in Sessions : q # s => session'[q] = session[q]
  BY <1>1 DEF Seating, Handling, Typed, TypeOK
<1>3. \A u \in Trips : past'[u].mixed = past[u].mixed /\ past[u].missed \in Nat /\ listed[u] \in Nat
  BY MarkIs, CancelIs, SeatFields DEF Seating, Handling
\* Seats marked once the list was counted are counted as missed.
<1>4. ASSUME NEW u \in Trips, NEW n \in Nat, Counted(u), n + past[u].missed >= listed[u]
      PROVE  n + past'[u].missed >= listed'[u]
  <2>1. CASE CommitMark(s)
    <3>1. /\ listed' = [listed EXCEPT ![t] = listed[t] + 1]
          /\ past'[u].missed = IF u = t THEN past[u].missed + 1 ELSE past[u].missed
      BY <1>4, <2>1, MarkIs DEF Seating, Handling
    <3>2. listed'[u] = IF u = t THEN listed[u] + 1 ELSE listed[u]
      BY <3>1 DEF Seating, Handling, Typed, TypeOK
    <3> QED BY <1>3, <1>4, <3>1, <3>2
  <2>2. CASE CommitCancel(s)
    <3>1. listed' = [listed EXCEPT ![t] = listed[t] - 1] /\ past' = past
      BY <2>2, CancelIs DEF Seating, Handling
    <3>2. listed'[u] = IF u = t THEN listed[u] - 1 ELSE listed[u]
      BY <3>1 DEF Seating, Handling, Typed, TypeOK
    <3> QED BY <1>3, <1>4, <3>1, <3>2
  <2> QED BY <2>1, <2>2
<1>5. ASSUME NEW u \in Trips PROVE SeatsRight(u)'
  <2>1. trip[u].status = "departed" => Counted(u)
    BY DEF Counted
  <2>2. Seats(charged[u]) \in Nat
    BY SeatFields DEF Seating, Handling
  <2> QED BY <1>1, <1>3, <1>4, <2>1, <2>2 DEF Seating, SeatsRight
<1>6. ASSUME NEW q \in Sessions PROVE Alone(q)'
  <2>1. CASE q = s
    BY <1>2, <2>1, Start0 DEF Alone
  <2>2. CASE q # s
    <3> DEFINE u == session[q].trip
    <3>1. session'[q] = session[q]
      BY <1>2, <2>2
    <3> SUFFICES ASSUME session[q].step \in {"sync", "write"}, u \in Trips, ~past[u].mixed
                 PROVE  Alone(q)'
      BY <1>3, <3>1 DEF Alone
    <3>2. /\ \A p \in Sessions \ {q} : ~Works(session[p], u)
          /\ Places(session[q].read) = Places(charged[u])
          /\ session[q].step = "write" =>
                /\ Seats(session[q].plan.lines) <= MaxSeats[u]
                /\ (session[q].plan.row.status = "departed" \/ trip[u].status = "departed") =>
                      Seats(session[q].plan.lines) + past[u].missed >= listed[u]
      BY DEF Seating, Alone
    <3>3. \A p \in Sessions \ {q} : ~Works(session'[p], u)
      BY <1>2, <3>2, Start0 DEF Works
    <3>4. ASSUME session[q].step = "write",
                 session[q].plan.row.status = "departed" \/ trip[u].status = "departed"
          PROVE  Seats(session[q].plan.lines) + past'[u].missed >= listed'[u]
      <4>1. Counted(u)
        <5>1. CASE trip[u].status = "departed"
          BY <5>1 DEF Counted
        <5>2. CASE trip[u].status # "departed" /\ session[q].plan.row.status = "departed"
          <6>1. session[q].does # "statement"
            BY DEF Seating, Handling, Typed, Shape, StatementAssumption
          <6>2. session[q].row.status = "departed"
            BY <3>4, <5>2, <6>1 DEF Seating, Handling, PlanRow
          <6>3. session[q].does # "list"
            BY <6>2 DEF Seating, Handling, Typed, Shape, Waiting, BEFORE_DEPARTURE
          <6>4. session[q].does = "depart"
            BY <3>4, <5>2, <6>2, <6>3 DEF Seating, Handling, Holds, Has
          <6> QED BY <3>4, <6>4 DEF Counted
        <5> QED BY <3>4, <5>1, <5>2
      <4>2. Seats(session[q].plan.lines) \in Nat
        BY SeatFields DEF Seating, Handling
      <4> QED BY <1>4, <3>2, <3>4, <4>1, <4>2
    <3> QED BY <1>1, <3>1, <3>2, <3>3, <3>4 DEF Alone, Works
  <2> QED BY <2>1, <2>2
<1> QED BY <1>5, <1>6 DEF Seating

\* What a payment notes on the lines moves none.
LEMMA PaidPlaces ==
    ASSUME NEW lines \in Seq(Line), NEW v \in Vans
    PROVE  Places(PaidLines(lines, v)) = Places(lines)
  BY PaidLinesType DEF Places

LEMMA CommitSeating ==
    ASSUME Seating, NEW s \in Sessions, Commit(s), Handling'
    PROVE  Seating'
<1> DEFINE now == session[s]
           t == session[s].trip
<1>1. /\ now.step = "write" /\ trip' = TripsAfter(s) /\ charged' = LinesAfter(s) /\ listed' = listed
      /\ session' = [session EXCEPT ![s] = Idle]
  BY CommitIs DEF Seating, Handling
<1>2. /\ session'[s] = Idle /\ \A q \in Sessions : q # s => session'[q] = session[q]
  BY <1>1 DEF Seating, Handling, Typed, TypeOK
<1>3. \A u \in Trips : past'[u].mixed = past[u].mixed /\ past'[u].missed = past[u].missed
  BY CommitPast DEF Seating, Handling
<1>4. \A u \in Trips : u # t => trip'[u].status = trip[u].status
  BY <1>1, TripsAfterIs DEF Written, Seating, Handling
<1>5. \A u \in Trips : u # t => Places(charged'[u]) = Places(charged[u])
  <2> SUFFICES ASSUME NEW u \in Trips, u # t PROVE Places(charged'[u]) = Places(charged[u])
    OBVIOUS
  <2>1. CASE now.plan.amount = 0
    BY <1>1, <2>1, AfterType DEF Seating, Handling
  <2>2. CASE now.plan.amount # 0
    <3>1. charged[u] \in Seq(Line) /\ now.row.van \in Vans
      <4>1. now.plan.amount \in Nat
        BY TypeFields DEF Seating, Handling, Typed
      <4> QED BY <2>2, <4>1, SeatFields DEF Seating, Handling, Typed, Shape
    <3>2. charged'[u] = PaidLines(charged[u], now.row.van)
      BY <1>1, <2>2, AfterType DEF Seating, Handling
    <3> QED BY <3>1, <3>2, PaidPlaces
  <2> QED BY <2>1, <2>2
<1>6. ASSUME t \in Trips, ~past[t].mixed PROVE Seats(charged'[t]) = Seats(now.plan.lines)
  <2>1. Places(now.read) = Places(charged[t])
    BY <1>1, <1>6 DEF Seating, Alone
  <2>2. /\ charged[t] \in Seq(Line) /\ now.read \in Seq(Line) /\ now.plan.lines \in Seq(Line)
        /\ Len(now.read) <= Len(now.plan.lines)
    BY <1>1, <1>6, SeatFields DEF Seating, Handling, Typed, Shape, StatementAssumption
  <2> DEFINE all == Merged(charged[t], now.read, now.plan.lines)
  <2>3. Seats(all) = Seats(now.plan.lines)
    BY <2>1, <2>2, MergedSeats
  <2>4. CASE now.plan.amount = 0
    BY <1>1, <1>6, <2>3, <2>4, AfterType DEF Seating, Handling
  <2>5. CASE now.plan.amount # 0
    <3>1. all \in Seq(Line)
      BY <2>2, MergedType DEF MergesAs
    <3>2. now.row.van \in Vans
      <4>1. now.plan.amount \in Nat
        BY TypeFields DEF Seating, Handling, Typed
      <4> QED BY <2>5, <4>1 DEF Seating, Handling, Typed, Shape
    <3>3. charged'[t] = PaidLines(all, now.row.van)
      BY <1>1, <1>6, <2>5, AfterType DEF Seating, Handling
    <3>4. PaidLines(all, now.row.van) \in Seq(Line)
      BY <3>1, <3>2, PaidLinesType
    <3> HIDE DEF all
    <3> QED BY <2>3, <3>1, <3>2, <3>3, <3>4, PaidPlaces, SameSeats
  <2> QED BY <2>4, <2>5
<1>7. \A u \in Trips : charged[u] \in Seq(Line) /\ charged'[u] \in Seq(Line)
  BY TypeFields DEF Seating, Handling, Typed, TypeOK
<1>8. ASSUME NEW u \in Trips PROVE SeatsRight(u)'
  <2>1. CASE u # t
    <3>1. Seats(charged'[u]) = Seats(charged[u])
      BY <1>5, <1>7, <2>1, SameSeats
    <3> QED BY <1>1, <1>3, <1>4, <2>1, <3>1 DEF Seating, SeatsRight
  <2>2. CASE u = t
    <3> SUFFICES ASSUME ~past[t].mixed PROVE SeatsRight(u)'
      BY <1>3, <2>2 DEF SeatsRight
    <3>1. /\ Seats(now.plan.lines) <= MaxSeats[t]
          /\ (now.plan.row.status = "departed" \/ trip[t].status = "departed") =>
                Seats(now.plan.lines) + past[t].missed >= listed[t]
      BY <1>1, <2>2 DEF Seating, Alone
    <3>2. trip'[t].status = now.plan.row.status \/ trip'[t].status = trip[t].status
      <4>1. trip'[t].status = Written(s, t).status
        BY <1>1, <2>2, TripsAfterIs DEF Seating, Handling
      <4>2. CASE now.does = "list"
        BY <2>2, <4>1, <4>2, TripsAfterIs DEF Seating, Handling
      <4>3. CASE now.does # "list"
        BY <2>2, <4>1, <4>3 DEF Written
      <4> QED BY <4>2, <4>3
    <3>3. Seats(charged'[t]) = Seats(now.plan.lines)
      BY <1>6, <2>2
    <3> QED BY <1>1, <1>3, <2>2, <3>1, <3>2, <3>3 DEF SeatsRight
  <2> QED BY <2>1, <2>2
<1>9. ASSUME NEW q \in Sessions PROVE Alone(q)'
  <2>1. CASE q = s
    BY <1>2, <2>1, Start0 DEF Alone
  <2>2. CASE q # s
    <3> DEFINE u == session[q].trip
    <3>1. session'[q] = session[q]
      BY <1>2, <2>2
    <3> SUFFICES ASSUME session[q].step \in {"sync", "write"}, u \in Trips, ~past[u].mixed
                 PROVE  Alone(q)'
      BY <1>3, <3>1 DEF Alone
    <3>2. /\ \A p \in Sessions \ {q} : ~Works(session[p], u)
          /\ Places(session[q].read) = Places(charged[u])
          /\ session[q].step = "write" =>
                /\ Seats(session[q].plan.lines) <= MaxSeats[u]
                /\ (session[q].plan.row.status = "departed" \/ trip[u].status = "departed") =>
                      Seats(session[q].plan.lines) + past[u].missed >= listed[u]
      BY DEF Seating, Alone
    <3>3. \A p \in Sessions \ {q} : ~Works(session'[p], u)
      BY <1>2, <3>2, Start0 DEF Works
    <3>4. u # t
      BY <1>1, <2>2, <3>2 DEF Works
    <3>5. /\ trip'[u].status = trip[u].status /\ Places(charged'[u]) = Places(charged[u])
          /\ past'[u].missed = past[u].missed /\ past'[u].mixed = past[u].mixed
      BY <1>3, <1>4, <1>5, <3>4
    <3> QED BY <1>1, <3>1, <3>2, <3>3, <3>5 DEF Alone, Works
  <2> QED BY <2>1, <2>2
<1> QED BY <1>8, <1>9 DEF Seating

\* The steps that move no line and list no seat.
LEMMA OtherSeating ==
    ASSUME Seating, Handling',
           \/ \E s \in Sessions : Looks(s)
           \/ \E s \in Sessions, v \in Vans : PayStatement(s, v)
           \/ \E t \in Trips, row \in Row : Writes(t, row)
           \/ \E v \in Vans : ChargeParking(v)
           \/ \E t \in Trips : \E i \in DOMAIN charged[t] : Raise(t, i)
           \/ \E t \in Trips : \E i \in DOMAIN charged[t] : Settles(t, i)
    PROVE  Seating'
<1>1. ASSUME NEW s \in Sessions, Looks(s) PROVE Seating'
  <2>1. PICK now \in Session : Swap(s, now) /\ past' = past /\ now.step \notin {"sync", "write"}
    BY <1>1 DEF Looks
  <2>2. \A q \in Sessions : session'[q] = session[q] \/ session'[q].step \notin {"sync", "write"}
    BY <2>1 DEF Swap, Seating, Handling, Typed, TypeOK
  <2> QED BY <2>1, <2>2, StillSeating DEF Swap
<1>2. ASSUME NEW s \in Sessions, NEW v \in Vans, PayStatement(s, v) PROVE Seating'
  <2>1. PICK n \in Nat, marks \in SUBSET Trips, now \in Session : Pays(s, v, n, marks, now)
    BY <1>2, PayStatementIs DEF Seating, Handling
  <2>2. Swap(s, now) /\ past' = Afresh(marks) /\ now.trip \notin Trips
    BY <2>1 DEF Pays, StatementAssumption
  <2>3. \A q \in Sessions : session'[q] = session[q] \/ session'[q].trip \notin Trips
    BY <2>2 DEF Swap, Seating, Handling, Typed, TypeOK
  <2>4. \A t \in Trips : past'[t].mixed = past[t].mixed /\ past'[t].missed = past[t].missed
    BY <2>2, AfreshType DEF Seating, Handling
  <2> QED BY <2>2, <2>3, <2>4, StillSeating DEF Swap
<1>3. ASSUME NEW t \in Trips, NEW row \in Row, Writes(t, row) PROVE Seating'
  <2>1. /\ trip' = [trip EXCEPT ![t] = row] /\ UNCHANGED <<listed, charged, account, session>>
        /\ \A u \in Trips : past'[u].mixed = past[u].mixed /\ past'[u].missed = past[u].missed
        /\ trip \in [Trips -> Row]
    BY <1>3, WritesIs, TypeFields DEF Seating, Handling, Typed
  <2>2. row.status # "departed"
    BY <1>3 DEF Writes, Waiting, BEFORE_DEPARTURE
  <2>3. \A u \in Trips : trip'[u].status = "departed" => trip[u].status = "departed"
    BY <2>1, <2>2
  <2> QED BY <2>1, <2>3, StillSeating
<1>4. ASSUME NEW v \in Vans, ChargeParking(v) PROVE Seating'
  BY <1>4, ParkingIs, StillSeating DEF Seating, Handling
<1>5. ASSUME NEW t \in Trips, NEW i \in DOMAIN charged[t], NEW l,
             charged' = [charged EXCEPT ![t] = [charged[t] EXCEPT ![i] = l]],
             l.on = charged[t][i].on, l.count = charged[t][i].count,
             UNCHANGED <<listed, session, past>>,
             \A u \in Trips : trip'[u].status = trip[u].status
      PROVE  Seating'
  <2>1. charged \in [Trips -> Seq(Line)]
    BY TypeFields DEF Seating, Handling, Typed
  <2>2. \A u \in Trips : u # t => charged'[u] = charged[u]
    BY <1>5, <2>1
  <2>3. Places(charged'[t]) = Places(charged[t])
    <3>1. charged'[t] = [charged[t] EXCEPT ![i] = l]
      BY <1>5, <2>1
    <3>2. DOMAIN charged'[t] = DOMAIN charged[t]
      BY <3>1
    <3>3. \A j \in DOMAIN charged[t] :
             charged'[t][j].on = charged[t][j].on /\ charged'[t][j].count = charged[t][j].count
      BY <1>5, <3>1
    <3> QED BY <3>2, <3>3 DEF Places
  <2>4. \A u \in Trips : Places(charged'[u]) = Places(charged[u])
    BY <2>2, <2>3
  <2> QED BY <1>5, <2>4, StillSeating
<1>6. ASSUME NEW t \in Trips, NEW i \in DOMAIN charged[t], Raise(t, i) PROVE Seating'
  <2> DEFINE l == [charged[t][i] EXCEPT !.dispute = "open"]
  <2>1. /\ charged' = [charged EXCEPT ![t] = [charged[t] EXCEPT ![i] = l]]
        /\ UNCHANGED <<trip, listed, account, session, past>> /\ charged[t][i] \in Line
    BY <1>6, RaiseIs DEF Seating, Handling
  <2>2. l.on = charged[t][i].on /\ l.count = charged[t][i].count
    BY <2>1 DEF Line
  <2> HIDE DEF l
  <2> QED BY <1>5, <2>1, <2>2
<1>7. ASSUME NEW t \in Trips, NEW i \in DOMAIN charged[t],
             NEW dispute \in {"withdrawn", "resolved"}, NEW due \in Nat, Settle(t, i, dispute, due)
      PROVE  Seating'
  <2> DEFINE l == [charged[t][i] EXCEPT !.dispute = dispute, !.due = due]
  <2>1. Settled(t, i, dispute, due)
    BY <1>7, SettleIs DEF Seating, Handling
  <2>2. /\ charged' = [charged EXCEPT ![t] = [charged[t] EXCEPT ![i] = l]]
        /\ UNCHANGED <<listed, session, past>> /\ charged[t][i] \in Line
        /\ trip' = trip \/ trip' = [trip EXCEPT ![t] = [trip[t] EXCEPT !.pay = "unpaid"]]
    BY <2>1 DEF Settled
  <2>3. l.on = charged[t][i].on /\ l.count = charged[t][i].count
    BY <2>2 DEF Line
  <2>4. \A u \in Trips : trip'[u].status = trip[u].status
    <3>1. trip \in [Trips -> Row] /\ [trip[t] EXCEPT !.pay = "unpaid"].status = trip[t].status
      BY TypeFields DEF Seating, Handling, Typed, Row
    <3> QED BY <2>2, <3>1
  <2> HIDE DEF l
  <2> QED BY <1>5, <2>2, <2>3, <2>4
<1> QED BY <1>1, <1>2, <1>3, <1>4, <1>6, <1>7 DEF Settles

LEMMA NextSeating ==
    ASSUME Seating, [Next]_vars
    PROVE  Seating'
<1>1. Handling'
  BY NextHandling DEF Seating
<1>2. CASE UNCHANGED vars
  <2>1. UNCHANGED <<trip, listed, charged, account, session, past>>
    BY <1>2 DEF vars
  <2> QED BY <1>1, <2>1, StillSeating
<1>3. CASE Next
  BY <1>1, <1>3, Cases, ReadsSeating, SyncSeating, CommitSeating, DeskSeating, OtherSeating
     DEF Seating, Handling
<1> QED BY <1>2, <1>3

\* Every seat is charged once, whatever moves of the van, disputes, top-ups
\* and marks between the steps of a handler.
THEOREM SeatsChargedOnce == Spec => []EverySeatChargedOnce
<1>1. Init => Seating
  BY InitSeating
<1>2. Seating /\ [Next]_vars => Seating'
  BY NextSeating
<1>3. Seating => EverySeatChargedOnce
  BY DEF Seating, SeatsRight, EverySeatChargedOnce
<1> QED BY <1>1, <1>2, <1>3, PTL DEF Spec

-----------------------------------------------------------------------------
(***************************************************************************)
(* Paid owes nothing.  What the paid trips of a statement come to,         *)
(* undisputed, is covered by what was paid on it; a payment under way that *)
(* will mark trips as paid covers what it will leave of them.              *)
(***************************************************************************)
\* The undisputed fees of the trips of U on the statement of v.
Claims(ch, U, v) ==
    [t \in Trips |-> IF t \in U THEN DCOTT + SharesOn(ch[t], v, SETTLED) ELSE 0]

Claim(ch, U, v) == PARKING + SumFunction(Claims(ch, U, v))

PaidTrips(v) == {t \in Trips : PaidUp(t, v)}

Covered(v) ==
    PaidTrips(v) # {} => Claim(charged, PaidTrips(v), v) <= account[v].settled

\* The lines once a session has written, but for what it records as paid.
Coming(ch, now) ==
    [t \in Trips |-> IF t = now.trip THEN Merged(ch[t], now.read, now.plan.lines) ELSE ch[t]]

\* The trips that will be paid up once its payment is written.
Promised(now) ==
    {t \in Trips : /\ trip[t].van = now.row.van /\ Waiting(trip[t]) /\ ~past[t].astray
                   /\ t \in now.plan.marks \/ trip[t].pay = "paid"}

Backed(now) ==
    now.plan.marks # {} =>
       Claim(Coming(charged, now), Promised(now), now.row.van)
          <= account[now.row.van].settled + now.plan.amount

\* What a handler that locked its trip writes: a trip that waits has waited,
\* the statement of its van is locked, and paid lines only follow the trip.
Careful(now) ==
    /\ \A t \in Trips : Has(now, t) /\ Waiting(now.row) => Waiting(trip[t])
    /\ now.step = "write" /\ now.does # "statement" =>
          /\ now.row.van # None /\ Live(now.row) => now.row.van \in now.holds
          /\ now.row.locked /\ now.plan.row.pay = "paid" =>
                now.plan.lines = Follow(now.row, now.read)

Paying ==
    /\ Payments /\ Handling
    /\ \A s \in Sessions : Careful(session[s]) /\ Backed(session[s])
    /\ \A v \in Vans : Covered(v)

LEMMA ClaimSums ==
    ASSUME NEW ch \in [Trips -> Seq(Line)], NEW U, NEW v
    PROVE  /\ \A t \in Trips : Claims(ch, U, v)[t] \in Nat
           /\ Claim(ch, U, v) = PARKING + SumFunctionOnSet(Claims(ch, U, v), Trips)
           /\ SumFunctionOnSet(Claims(ch, U, v), Trips) \in Nat
           /\ Claim(ch, U, v) \in Nat
<1>1. IsFiniteSet(Trips) /\ PARKING \in Nat /\ DCOTT \in Nat
  BY DEF StatementAssumption
<1>2. \A t \in Trips : SharesOn(ch[t], v, SETTLED) \in Nat
  BY LineSums
<1>3. \A t \in Trips : Claims(ch, U, v)[t] \in Nat
  BY <1>1, <1>2 DEF Claims
<1>4. DOMAIN Claims(ch, U, v) = Trips
  BY DEF Claims
<1>5. Claim(ch, U, v) = PARKING + SumFunctionOnSet(Claims(ch, U, v), Trips)
  BY <1>4 DEF Claim, SumFunction
<1>6. SumFunctionOnSet(Claims(ch, U, v), Trips) \in Nat
  BY <1>1, <1>3, SumType
<1> QED BY <1>1, <1>3, <1>5, <1>6

\* A claim grows with its trips and with their shares.
LEMMA ClaimMore ==
    ASSUME NEW ch \in [Trips -> Seq(Line)], NEW dh \in [Trips -> Seq(Line)], NEW U, NEW W, NEW v,
           \A t \in Trips : t \in U =>
              t \in W /\ SharesOn(ch[t], v, SETTLED) <= SharesOn(dh[t], v, SETTLED)
    PROVE  Claim(ch, U, v) <= Claim(dh, W, v)
<1> DEFINE f == Claims(ch, U, v)
           g == Claims(dh, W, v)
<1>1. IsFiniteSet(Trips) /\ PARKING \in Nat /\ DCOTT \in Nat
  BY DEF StatementAssumption
<1>2. /\ \A t \in Trips : f[t] \in Nat /\ g[t] \in Nat
      /\ Claim(ch, U, v) = PARKING + SumFunctionOnSet(f, Trips)
      /\ Claim(dh, W, v) = PARKING + SumFunctionOnSet(g, Trips)
      /\ SumFunctionOnSet(f, Trips) \in Nat /\ SumFunctionOnSet(g, Trips) \in Nat
  BY ClaimSums
<1>3. \A t \in Trips : f[t] <= g[t]
  <2> SUFFICES ASSUME NEW t \in Trips PROVE f[t] <= g[t]
    OBVIOUS
  <2>1. SharesOn(ch[t], v, SETTLED) \in Nat /\ SharesOn(dh[t], v, SETTLED) \in Nat
    BY LineSums
  <2>2. g[t] \in Nat
    BY <1>2
  <2>3. CASE t \notin U
    <3>1. f[t] = 0
      BY <2>3 DEF Claims
    <3> HIDE DEF f, g
    <3> QED BY <2>2, <3>1
  <2>4. CASE t \in U
    <3>1. /\ f[t] = DCOTT + SharesOn(ch[t], v, SETTLED)
          /\ g[t] = DCOTT + SharesOn(dh[t], v, SETTLED)
      BY <2>4 DEF Claims
    <3>2. SharesOn(ch[t], v, SETTLED) <= SharesOn(dh[t], v, SETTLED)
      BY <2>4
    <3> HIDE DEF f, g
    <3> QED BY <1>1, <2>1, <3>1, <3>2
  <2> QED BY <2>3, <2>4
<1> HIDE DEF f, g
<1>4. SumFunctionOnSet(f, Trips) <= SumFunctionOnSet(g, Trips)
  BY <1>1, <1>2, <1>3, SumMonotone
<1> QED BY <1>1, <1>2, <1>4

\* The claim of trips of v, and what is disputed, is part of what it owes.
LEMMA ClaimUnder ==
    ASSUME NEW rows, NEW ch \in [Trips -> Seq(Line)], NEW U, NEW v,
           \A t \in Trips : t \in U => rows[t].van = v /\ Live(rows[t])
    PROVE  Claim(ch, U, v) + Disputed(rows, ch, v) <= Reckon(rows, ch, v)
<1> DEFINE f == Claims(ch, U, v)
           g == Waits(rows, ch, v)
           h == [t \in Trips |-> f[t] + g[t]]
           k == Fees(rows, ch, v)
<1>1. IsFiniteSet(Trips) /\ PARKING \in Nat /\ DCOTT \in Nat
  BY DEF StatementAssumption
<1>2. /\ \A t \in Trips : f[t] \in Nat /\ g[t] \in Nat /\ k[t] \in Nat
      /\ Claim(ch, U, v) = PARKING + SumFunctionOnSet(f, Trips)
      /\ Disputed(rows, ch, v) = SumFunctionOnSet(g, Trips)
      /\ Reckon(rows, ch, v) = PARKING + SumFunctionOnSet(k, Trips)
  BY ClaimSums, TripSums
<1>3. \A t \in Trips : f[t] + g[t] <= k[t]
  <2> SUFFICES ASSUME NEW t \in Trips PROVE f[t] + g[t] <= k[t]
    OBVIOUS
  <2> DEFINE all == SharesOn(ch[t], v, DISPUTES)
             open == SharesOn(ch[t], v, {"open"})
             rest == SharesOn(ch[t], v, SETTLED)
  <2>1. all \in Nat /\ open \in Nat /\ rest \in Nat /\ all = open + rest
    BY LineSums, SharesSplit
  <2>2. /\ f[t] = IF t \in U THEN DCOTT + rest ELSE 0
        /\ g[t] = IF Live(rows[t]) THEN open ELSE 0
        /\ k[t] = (IF rows[t].van = v /\ Live(rows[t]) THEN DCOTT ELSE 0)
                  + (IF Live(rows[t]) THEN all ELSE 0)
    BY DEF Claims, Waits, Fees
  <2>3. t \in U => rows[t].van = v /\ Live(rows[t])
    OBVIOUS
  <2> HIDE DEF f, g, k, all, open, rest
  <2> QED BY <1>1, <2>1, <2>2, <2>3
<1>4. \A t \in Trips : h[t] = f[t] + g[t] /\ h[t] \in Nat /\ h[t] <= k[t]
  BY <1>2, <1>3
<1> HIDE DEF f, g, h, k
<1>5. SumFunctionOnSet(h, Trips) = SumFunctionOnSet(f, Trips) + SumFunctionOnSet(g, Trips)
  BY <1>1, <1>2, <1>4, SumPlus
<1>6. SumFunctionOnSet(h, Trips) <= SumFunctionOnSet(k, Trips)
  BY <1>1, <1>2, <1>4, SumMonotone
<1>7. /\ SumFunctionOnSet(f, Trips) \in Nat /\ SumFunctionOnSet(g, Trips) \in Nat
      /\ SumFunctionOnSet(h, Trips) \in Nat /\ SumFunctionOnSet(k, Trips) \in Nat
  BY <1>1, <1>2, <1>4, SumType
<1> QED BY <1>1, <1>2, <1>5, <1>6, <1>7

\* It is all of it when no other trip has fees on the statement.
LEMMA ClaimAll ==
    ASSUME NEW rows, NEW ch \in [Trips -> Seq(Line)], NEW U, NEW v,
           \A t \in Trips : t \in U \/ ~Live(rows[t])
              \/ (rows[t].van # v /\ \A i \in DOMAIN ch[t] : ch[t][i].on # v)
    PROVE  Reckon(rows, ch, v) <= Claim(ch, U, v) + Disputed(rows, ch, v)
<1> DEFINE f == Claims(ch, U, v)
           g == Waits(rows, ch, v)
           h == [t \in Trips |-> f[t] + g[t]]
           k == Fees(rows, ch, v)
<1>1. IsFiniteSet(Trips) /\ PARKING \in Nat /\ DCOTT \in Nat
  BY DEF StatementAssumption
<1>2. /\ \A t \in Trips : f[t] \in Nat /\ g[t] \in Nat /\ k[t] \in Nat
      /\ Claim(ch, U, v) = PARKING + SumFunctionOnSet(f, Trips)
      /\ Disputed(rows, ch, v) = SumFunctionOnSet(g, Trips)
      /\ Reckon(rows, ch, v) = PARKING + SumFunctionOnSet(k, Trips)
  BY ClaimSums, TripSums
<1>3. \A t \in Trips : k[t] <= f[t] + g[t]
  <2> SUFFICES ASSUME NEW t \in Trips PROVE k[t] <= f[t] + g[t]
    OBVIOUS
  <2> DEFINE all == SharesOn(ch[t], v, DISPUTES)
             open == SharesOn(ch[t], v, {"open"})
             rest == SharesOn(ch[t], v, SETTLED)
  <2>1. all \in Nat /\ open \in Nat /\ rest \in Nat /\ all = open + rest
    BY LineSums, SharesSplit
  <2>2. /\ f[t] = IF t \in U THEN DCOTT + rest ELSE 0
        /\ g[t] = IF Live(rows[t]) THEN open ELSE 0
        /\ k[t] = (IF rows[t].van = v /\ Live(rows[t]) THEN DCOTT ELSE 0)
                  + (IF Live(rows[t]) THEN all ELSE 0)
    BY DEF Claims, Waits, Fees
  <2>3. t \in U \/ ~Live(rows[t]) \/ (rows[t].van # v /\ all = 0)
    BY NoShares
  <2> HIDE DEF f, g, k, all, open, rest
  <2> QED BY <1>1, <2>1, <2>2, <2>3
<1>4. \A t \in Trips : h[t] = f[t] + g[t] /\ h[t] \in Nat /\ k[t] <= h[t]
  BY <1>2, <1>3
<1> HIDE DEF f, g, h, k
<1>5. SumFunctionOnSet(h, Trips) = SumFunctionOnSet(f, Trips) + SumFunctionOnSet(g, Trips)
  BY <1>1, <1>2, <1>4, SumPlus
<1>6. SumFunctionOnSet(k, Trips) <= SumFunctionOnSet(h, Trips)
  BY <1>1, <1>2, <1>4, SumMonotone
<1>7. /\ SumFunctionOnSet(f, Trips) \in Nat /\ SumFunctionOnSet(g, Trips) \in Nat
      /\ SumFunctionOnSet(h, Trips) \in Nat /\ SumFunctionOnSet(k, Trips) \in Nat
  BY <1>1, <1>2, <1>4, SumType
<1> QED BY <1>1, <1>2, <1>5, <1>6, <1>7

LEMMA PaidIs ==
    ASSUME Paying
    PROVE  PaidOwesNothing
<1> SUFFICES ASSUME NEW v \in Vans, PaidBesideDue(v) PROVE FALSE
  BY DEF PaidOwesNothing
<1>1. /\ Typed /\ Total(v) /\ Covered(v)
      /\ charged \in [Trips -> Seq(Line)] /\ account[v].owed \in Nat /\ account[v].settled \in Nat
  BY TypeFields DEF Paying, Payments, Typed
<1>2. Due(v) > 0 /\ ~account[v].high /\ OnIt(v) # {} /\ \A t \in OnIt(v) : PaidUp(t, v)
  BY DEF PaidBesideDue
<1>3. OnIt(v) \subseteq PaidTrips(v) /\ PaidTrips(v) # {}
  BY <1>2 DEF PaidTrips, OnIt
<1>4. Reckon(trip, charged, v) <= Claim(charged, PaidTrips(v), v) + Disputed(trip, charged, v)
  <2>1. \A t \in Trips : t \in PaidTrips(v) \/ ~Live(trip[t])
           \/ (trip[t].van # v /\ \A i \in DOMAIN charged[t] : charged[t][i].on # v)
    BY <1>3 DEF OnIt
  <2> QED BY <1>1, <2>1, ClaimAll
<1>5. /\ Reckon(trip, charged, v) \in Nat /\ Disputed(trip, charged, v) \in Nat
      /\ Claim(charged, PaidTrips(v), v) \in Nat
  BY <1>1, TripSums, ClaimSums
<1>6. account[v].owed <= account[v].settled + Disputed(trip, charged, v)
  BY <1>1, <1>2, <1>3, <1>4, <1>5 DEF Total, Covered
<1> QED BY <1>1, <1>2, <1>5, <1>6 DEF Due, DueOn

\* Who is about to mark trips as paid.
LEMMA MarksIs ==
    ASSUME Payments, NEW s \in Sessions, session[s].plan.marks # {}
    PROVE  /\ session[s].plan.amount > 0 /\ session[s].row.van \in Vans
           /\ session[s].row.van \in session[s].holds
           /\ session[s].step = "write" /\ session[s].does \in {"pay", "statement"}
           /\ session[s].does = "statement" => session[s].trip = None
           /\ session[s].trip \in Trips => Has(session[s], session[s].trip)
<1>1. session[s].plan.amount \in Nat /\ NoPlan.marks = {} /\ Shape(session[s]) /\ Fits(s)
  BY TypeFields, Start0 DEF Payments, Typed
<1>2. session[s].plan.amount > 0 /\ session[s].step = "write"
  BY <1>1 DEF Shape
<1>3. /\ session[s].row.van \in Vans /\ session[s].does \in {"pay", "statement"}
      /\ session[s].does = "statement" => session[s].trip = None
  BY <1>1, <1>2 DEF Shape
<1>4. session[s].row.van \in session[s].holds
  BY <1>1, <1>2 DEF Fits
<1> QED BY <1>2, <1>3, <1>4 DEF Has

LEMMA ComingType ==
    ASSUME NEW ch \in [Trips -> Seq(Line)], NEW now \in Session,
           now.trip \in Trips => Len(now.read) <= Len(now.plan.lines)
    PROVE  Coming(ch, now) \in [Trips -> Seq(Line)]
<1>1. now.read \in Seq(Line) /\ now.plan.lines \in Seq(Line)
  BY DEF Session, Plan
<1>2. ASSUME NEW t \in Trips, t = now.trip PROVE Merged(ch[t], now.read, now.plan.lines) \in Seq(Line)
  BY <1>1, <1>2, MergedType DEF MergesAs
<1> QED BY <1>2 DEF Coming

\* A payment stays backed while no trip joins those it covers, and none of
\* their shares grows.
LEMMA BackedKept ==
    ASSUME Paying, Typed', NEW q \in Sessions, session'[q] = session[q], session[q].plan.marks # {},
           account'[session[q].row.van].settled = account[session[q].row.van].settled,
           \A t \in Trips : t \in Promised(session[q])' =>
              /\ t \in Promised(session[q])
              /\ SharesOn(Coming(charged', session[q])[t], session[q].row.van, SETTLED)
                    <= SharesOn(Coming(charged, session[q])[t], session[q].row.van, SETTLED)
    PROVE  Backed(session[q])'
<1> DEFINE mine == session[q]
           v == mine.row.van
           new == Coming(charged', mine)
           old == Coming(charged, mine)
           after == Promised(mine)'
           before == Promised(mine)
<1>1. /\ charged \in [Trips -> Seq(Line)] /\ charged' \in [Trips -> Seq(Line)]
      /\ mine \in Session /\ v \in Vans /\ account[v].settled \in Nat /\ mine.plan.amount \in Nat
  <2>1. v \in Vans
    BY MarksIs DEF Paying
  <2> QED BY <2>1, TypeFields DEF Paying, Payments, Typed, TypeOK
<1>2. mine.trip \in Trips => Len(mine.read) <= Len(mine.plan.lines)
  BY MarksIs DEF Paying, Payments, Typed, Shape, StatementAssumption
<1>3. new \in [Trips -> Seq(Line)] /\ old \in [Trips -> Seq(Line)]
  <2> HIDE DEF mine
  <2> QED BY <1>1, <1>2, ComingType
<1>4. Claim(old, before, v) <= account[v].settled + mine.plan.amount
  BY DEF Paying, Backed
<1>5. \A t \in Trips : t \in after =>
         t \in before /\ SharesOn(new[t], v, SETTLED) <= SharesOn(old[t], v, SETTLED)
  OBVIOUS
<1>6. Backed(session[q])' <=> Claim(new, after, v) <= account[v].settled + mine.plan.amount
  BY DEF Backed, Promised
<1> HIDE DEF mine, v, new, old, after, before
<1>7. Claim(new, after, v) <= Claim(old, before, v)
  BY <1>3, <1>5, ClaimMore
<1>8. Claim(new, after, v) \in Nat /\ Claim(old, before, v) \in Nat
  BY <1>3, ClaimSums
<1> QED BY <1>1, <1>4, <1>6, <1>7, <1>8

\* A step of one session that writes no trip, line or statement.
LEMMA SessionPaying ==
    ASSUME Paying, NEW s \in Sessions, NEW now \in Session,
           session' = [session EXCEPT ![s] = now], UNCHANGED <<trip, charged, account>>,
           Payments', Handling', Careful(now),
           \A u \in Trips :
              \/ past'[u].astray = past[u].astray
              \/ trip[u].pay = "unpaid" /\ trip[u].van = now.row.van /\ now.row.van \in now.holds,
           now.plan.marks # {} =>
              \A U \in SUBSET Trips :
                 (\A t \in U : trip[t].van = now.row.van /\ Waiting(trip[t])) =>
                    Claim(Coming(charged, now), U, now.row.van)
                       <= account[now.row.van].settled + now.plan.amount
    PROVE  Paying'
<1>1. session'[s] = now /\ \A q \in Sessions : q # s => session'[q] = session[q]
  BY DEF Paying, Handling, Typed, TypeOK
<1>2. ASSUME NEW q \in Sessions PROVE Careful(session[q])'
  <2>1. CASE q = s
    BY <1>1, <2>1 DEF Careful, Has
  <2>2. CASE q # s
    BY <1>1, <2>2 DEF Paying, Careful, Has
  <2> QED BY <2>1, <2>2
<1>3. ASSUME NEW q \in Sessions PROVE Backed(session[q])'
  <2>1. CASE q = s
    <3>1. \A t \in Promised(now)' : trip[t].van = now.row.van /\ Waiting(trip[t])
      BY DEF Promised
    <3>2. Promised(now)' \in SUBSET Trips
      BY DEF Promised
    <3>3. Coming(charged, now)' = Coming(charged, now)
      BY DEF Coming
    <3>4. Backed(now)'
      BY <3>1, <3>2, <3>3 DEF Backed
    <3> QED BY <1>1, <2>1, <3>4 DEF Backed, Coming, Promised
  <2>2. CASE q # s
    <3>1. session'[q] = session[q] /\ Backed(session[q])
      BY <1>1, <2>2 DEF Paying
    <3> SUFFICES ASSUME session[q].plan.marks # {} PROVE Backed(session[q])'
      BY <3>1 DEF Backed
    <3> DEFINE mine == session[q]
               v == mine.row.van
    <3>2. v \in mine.holds /\ v \in Vans
      BY MarksIs DEF Paying
    <3>3. now.holds \cap mine.holds = {}
      BY <1>1, <2>2 DEF Payments, HoldsApart
    <3>4. \A t \in Trips : t \in Promised(mine)' => t \in Promised(mine)
      <4> SUFFICES ASSUME NEW t \in Trips, t \in Promised(mine)' PROVE t \in Promised(mine)
        OBVIOUS
      <4>1. /\ trip[t].van = v /\ Waiting(trip[t]) /\ ~past'[t].astray
            /\ t \in mine.plan.marks \/ trip[t].pay = "paid"
        BY <3>1 DEF Promised
      <4>2. past'[t].astray = past[t].astray
        BY <3>2, <3>3, <4>1
      <4> QED BY <4>1, <4>2 DEF Promised
    <3>5. charged' = charged /\ charged \in [Trips -> Seq(Line)] /\ mine \in Session
          /\ (mine.trip \in Trips => Len(mine.read) <= Len(mine.plan.lines))
      BY MarksIs, TypeFields DEF Paying, Payments, Typed, Shape, StatementAssumption
    <3>6. \A t \in Trips : SharesOn(Coming(charged, mine)[t], v, SETTLED) \in Nat
      <4> HIDE DEF mine, v
      <4>1. Coming(charged, mine) \in [Trips -> Seq(Line)]
        BY <3>5, ComingType
      <4> QED BY <4>1, LineSums
    <3>7. \A t \in Trips : SharesOn(Coming(charged', mine)[t], v, SETTLED)
                              <= SharesOn(Coming(charged, mine)[t], v, SETTLED)
      <4> HIDE DEF mine, v
      <4> QED BY <3>5, <3>6
    <3> QED BY <3>1, <3>4, <3>7, BackedKept DEF Payments
  <2> QED BY <2>1, <2>2
<1>4. ASSUME NEW v \in Vans PROVE Covered(v)'
  <2>1. \A t \in Trips : PaidUp(t, v)' <=> PaidUp(t, v)
    BY DEF PaidUp
  <2>2. PaidTrips(v)' = PaidTrips(v)
    BY <2>1 DEF PaidTrips
  <2> QED BY <2>2 DEF Paying, Covered
<1> QED BY <1>2, <1>3, <1>4 DEF Paying

LEMMA InitPaying ==
    ASSUME Init
    PROVE  Paying
<1>1. Payments /\ Handling
  BY InitPayments, InitHandling
<1>2. \A s \in Sessions : Careful(session[s]) /\ Backed(session[s])
  BY Start0 DEF Init, Careful, Has, Backed
<1>3. \A v \in Vans : Covered(v)
  <2>1. \A t \in Trips : trip[t].pay = "unpaid"
    BY DEF Init, NewTrip
  <2> QED BY <2>1 DEF Covered, PaidTrips, PaidUp
<1> QED BY <1>1, <1>2, <1>3 DEF Paying

LEMMA DeskPaying ==
    ASSUME Paying, NEW s \in Sessions, Looks(s) \/ CommitMark(s) \/ CommitCancel(s),
           Payments', Handling'
    PROVE  Paying'
<1>1. PICK now \in Session :
         /\ session' = [session EXCEPT ![s] = now] /\ now.plan = NoPlan
         /\ now.step \notin {"sync", "write"} /\ UNCHANGED <<trip, charged, account>>
         /\ \A u \in Trips : past'[u].astray = past[u].astray
  <2>1. CASE Looks(s)
    BY <2>1 DEF Looks, Swap
  <2>2. CASE CommitMark(s) \/ CommitCancel(s)
    <3>1. /\ session' = [session EXCEPT ![s] = Idle] /\ UNCHANGED <<trip, charged, account>>
          /\ \A u \in Trips : past'[u].astray = past[u].astray
      BY <2>2, MarkIs, CancelIs DEF Paying, Payments
    <3> QED BY <3>1, Start0
  <2> QED BY <2>1, <2>2
<1>2. Careful(now) /\ now.plan.marks = {}
  BY <1>1, Start0 DEF Careful, Has
<1> QED BY <1>1, <1>2, SessionPaying

LEMMA ReadsPaying ==
    ASSUME Paying, NEW s \in Sessions, NEW t \in Trips, NEW does \in DOES, NEW row \in Row,
           NEW holds \in SUBSET Vans, NEW plan \in Plan, Reads(s, t, does, row, holds, plan),
           Payments', Handling'
    PROVE  Paying'
<1>1. /\ ReadLines(s, t, does, row, holds, plan) /\ plan.amount = 0 /\ plan.marks = {}
      /\ does = "list" => row.van # None /\ Waiting(row)
      /\ does \in {"recount", "start", "depart", "pay", "list"}
  BY DEF Reads, DOES
<1>2. PICK now \in Session : ReadAs(s, t, does, row, holds, plan, now)
  BY <1>1, ReadLinesIs DEF Paying, Payments
<1>3. /\ Swap(s, now) /\ now.step = "sync" /\ now.does = does /\ now.trip = t /\ now.row = row
      /\ now.plan.marks = {}
  BY <1>1, <1>2 DEF ReadAs
<1>4. \A u \in Trips : past'[u].astray = past[u].astray
  <2> DEFINE also == \E q \in Sessions \ {s} : InHand(q) /\ session[q].trip = t
  <2>1. past \in [Trips -> Past] /\ past' = [past EXCEPT ![t].mixed = @ \/ also]
    BY <1>2, TypeFields DEF ReadAs, Paying, Payments, Typed
  <2> HIDE DEF also
  <2>2. [past[t] EXCEPT !.mixed = past[t].mixed \/ also].astray = past[t].astray
    BY <2>1 DEF Past
  <2>3. past' = [past EXCEPT ![t] = [past[t] EXCEPT !.mixed = past[t].mixed \/ also]]
    BY <2>1
  <2> QED BY <2>1, <2>2, <2>3
<1>5. Careful(now)
  <2>1. ASSUME does # "list", Waiting(row) PROVE Waiting(trip[t])
    BY <2>1 DEF Reads, Waiting, BEFORE_DEPARTURE
  <2> QED BY <1>3, <2>1 DEF Careful, Has
<1> QED BY <1>3, <1>4, <1>5, SessionPaying DEF Swap

\* A payment at the statement covers what it marks.
LEMMA PayStatementPaying ==
    ASSUME Paying, NEW s \in Sessions, NEW v \in Vans, PayStatement(s, v), Payments', Handling'
    PROVE  Paying'
<1>1. PICK n \in Nat, marks \in SUBSET Trips, now \in Session : Pays(s, v, n, marks, now)
  BY PayStatementIs DEF Paying, Payments
<1>2. /\ Swap(s, now) /\ past' = Afresh(marks)
      /\ now.step = "write" /\ now.does = "statement" /\ now.trip = None /\ now.row.van = v
      /\ now.read = <<>> /\ now.holds = {v} /\ now.plan = PayPlan(v, n, marks)
      /\ marks = IF Reckon(trip, charged, v) - account[v].settled - n
                    - Disputed(trip, charged, v) > 0 THEN {} ELSE Unpaid(trip, v)
  BY <1>1 DEF Pays
<1>3. /\ charged \in [Trips -> Seq(Line)] /\ account[v].settled \in Nat /\ None \notin Trips
      /\ Reckon(trip, charged, v) \in Nat /\ Disputed(trip, charged, v) \in Nat
  BY TypeFields, TripSums DEF Paying, Payments, Typed
<1>4. now.plan.marks = marks /\ now.plan.amount = n
  BY <1>2 DEF PayPlan, NoPlan
<1>5. Careful(now)
  BY <1>2, <1>3 DEF Careful, Has
<1>6. \A u \in Trips :
         \/ past'[u].astray = past[u].astray
         \/ trip[u].pay = "unpaid" /\ trip[u].van = now.row.van /\ now.row.van \in now.holds
  <2>1. \A u \in Trips : u \in marks => trip[u].van = v
    BY <1>2 DEF Unpaid
  <2>2. \A u \in Trips : u \notin marks \/ trip[u].pay # "unpaid" => past'[u] = past[u]
    BY <1>2, AfreshType DEF Paying, Payments
  <2> QED BY <1>2, <2>1, <2>2
<1>7. ASSUME marks # {}, NEW U \in SUBSET Trips, \A t \in U : trip[t].van = v /\ Waiting(trip[t])
      PROVE  Claim(Coming(charged, now), U, v) <= account[v].settled + n
  <2>1. Reckon(trip, charged, v) - account[v].settled - n - Disputed(trip, charged, v) <= 0
    BY <1>2, <1>3, <1>7
  <2>2. \A t \in Trips : t \in U => trip[t].van = v /\ Live(trip[t])
    BY <1>7 DEF Waiting, Live, BEFORE_DEPARTURE
  <2>3. Claim(charged, U, v) + Disputed(trip, charged, v) <= Reckon(trip, charged, v)
    BY <1>3, <2>2, ClaimUnder
  <2>4. Coming(charged, now) = charged
    BY <1>2, <1>3 DEF Coming
  <2>5. Claim(charged, U, v) \in Nat
    BY <1>3, ClaimSums
  <2> QED BY <1>3, <2>1, <2>3, <2>4, <2>5
<1>8. now.plan.marks # {} =>
         \A U \in SUBSET Trips :
            (\A t \in U : trip[t].van = now.row.van /\ Waiting(trip[t])) =>
               Claim(Coming(charged, now), U, now.row.van) <= account[now.row.van].settled + now.plan.amount
  BY <1>2, <1>4, <1>7
<1> QED BY <1>2, <1>5, <1>6, <1>8, SessionPaying DEF Swap

LEMMA SyncPaying ==
    ASSUME Paying, NEW s \in Sessions, Sync(s), Payments', Handling'
    PROVE  Paying'
<1> DEFINE v == session[s].row.van
           t == session[s].trip
<1>0. Typed /\ Payments /\ Handling
  BY DEF Paying, Payments
<1>1. PICK row \in Row, amount \in Nat, marks \in SUBSET Trips : Syncs(s, row, amount, marks)
  BY <1>0, SyncIs
<1>2. PICK now \in Session : PlannedAs(s, row, amount, marks, now)
  BY <1>0, <1>1, PlanningIs DEF Syncs
<1>3. /\ Swap(s, now) /\ past' = Afresh(marks)
      /\ now.step = "write" /\ now.does = session[s].does /\ now.trip = t
      /\ now.row = session[s].row /\ now.read = session[s].read
      /\ now.holds = session[s].holds \cup Opened(s)
      /\ now.plan.row = row /\ now.plan.lines = NewLines(s)
      /\ now.plan.amount = amount /\ now.plan.marks = marks
  BY <1>2 DEF PlannedAs, PlanOf
<1>4. /\ session[s].step = "sync" /\ t \in Trips /\ session[s].row \in Row
      /\ session[s].read \in Seq(Line) /\ v \in Vans \cup {None}
      /\ listed \in [Trips -> Nat] /\ trip \in [Trips -> Row]
      /\ Has(session[s], t) \/ session[s].does = "list"
  <2>1. session[s].step = "sync"
    BY <1>1 DEF Syncs
  <2> QED BY <1>0, <2>1, TypeFields DEF Typed, Shape, Has
<1>5. Careful(now)
  <2>1. \A u \in Trips : Has(now, u) => Has(session[s], u)
    BY <1>3, <1>4 DEF Has
  <2>2. v # None /\ Live(session[s].row) => v \in now.holds
    BY <1>3, <1>4 DEF Opened, Opens
  <2>3. ASSUME session[s].row.locked, row.pay = "paid"
        PROVE  NewLines(s) = Follow(session[s].row, session[s].read)
    <3> DEFINE more == Goal(t, session[s].row) - Seats(session[s].read)
    <3>1. row.pay = SyncedPay(session[s].row, session[s].read, NewLines(s))
      BY <1>0, <1>1, <1>4, <2>3, NewType DEF Syncs
    <3>2. ~(Len(NewLines(s)) > Len(session[s].read))
      BY <2>3, <3>1 DEF SyncedPay
    <3>3. NewLines(s) = Follow(session[s].row, session[s].read) \o More(session[s].row, more)
      BY <2>3, TopUpParts DEF NewLines, Synced
    <3>4. Follow(session[s].row, session[s].read) \in Seq(Line)
          /\ Len(Follow(session[s].row, session[s].read)) = Len(session[s].read)
          /\ Len(session[s].read) \in Nat
      BY <1>4, FollowType, LineFields
    <3>5. more \in Int
      <4>1. Goal(t, session[s].row) \in Nat
        BY <1>4, GoalType
      <4>2. Seats(session[s].read) \in Nat
        BY <1>4, LineSums
      <4> QED BY <4>1, <4>2
    <3> HIDE DEF more
    <3>6. More(session[s].row, more) \in Seq(Line)
          /\ Len(More(session[s].row, more)) = IF more > 0 THEN 1 ELSE 0
      BY <1>4, <3>5, MoreType
    <3>7. Len(NewLines(s)) = Len(session[s].read) + Len(More(session[s].row, more))
      <4>1. Len(Follow(session[s].row, session[s].read) \o More(session[s].row, more))
               = Len(Follow(session[s].row, session[s].read)) + Len(More(session[s].row, more))
        BY <3>4, <3>6, Concat
      <4> QED BY <3>3, <3>4, <4>1
    <3>8. ~(more > 0)
      <4> SUFFICES ASSUME more > 0 PROVE FALSE
        OBVIOUS
      <4>1. Len(More(session[s].row, more)) = 1
        BY <3>6
      <4>2. Len(NewLines(s)) = Len(session[s].read) + 1
        BY <3>7, <4>1
      <4> QED BY <3>2, <3>4, <4>2
    <3>9. More(session[s].row, more) = <<>>
      BY <3>8 DEF More
    <3> QED BY <3>3, <3>4, <3>9
  <2>4. \A u \in Trips : Has(session[s], u) /\ Waiting(session[s].row) => Waiting(trip[u])
    BY DEF Paying, Careful
  <2> QED BY <1>3, <2>1, <2>2, <2>3, <2>4 DEF Careful
<1>6. ASSUME marks # {}
      PROVE  /\ session[s].does = "pay" /\ v \in Vans /\ amount > 0
             /\ v \in Opened(s) /\ v \in Recounted(s)
             /\ marks = Unpaid(RowsWith(s), v) /\ StillDue(s, amount) <= 0
             /\ session[s].row = trip[t] /\ Waiting(trip[t])
  <2>1. amount > 0
    BY <1>1, <1>6 DEF Syncs
  <2>2. /\ session[s].does = "pay" /\ v \in Vans /\ amount <= StillDue(s, 0)
        /\ marks = IF StillDue(s, amount) > 0 THEN {} ELSE Unpaid(RowsWith(s), v)
    BY <1>1, <2>1 DEF Syncs
  <2>3. StillDue(s, amount) \in Int
    BY <1>0, <1>4, StillDueIs
  <2>4. session[s].row = trip[t] /\ Waiting(trip[t])
    BY <1>0, <1>4, <2>2 DEF Handling, Holds, Has
  <2>5. v \in Opened(s)
    BY <2>2, <2>4 DEF Opened, Opens, Waiting, Live, BEFORE_DEPARTURE
  <2>6. v \in Touched(session[s].row, session[s].read)
    BY <2>2, <1>0, TypeFields DEF Touched, Typed
  <2> QED BY <1>6, <2>1, <2>2, <2>3, <2>4, <2>5, <2>6 DEF Recounted
<1>7. \A u \in Trips :
         \/ past'[u].astray = past[u].astray
         \/ trip[u].pay = "unpaid" /\ trip[u].van = now.row.van /\ now.row.van \in now.holds
  <2>1. \A u \in Trips : u \notin marks \/ trip[u].pay # "unpaid" => past'[u] = past[u]
    BY <1>0, <1>3, AfreshType
  <2>2. \A u \in Trips : u \in marks => trip[u].van = v /\ v \in now.holds
    <3> SUFFICES ASSUME NEW u \in Trips, u \in marks PROVE trip[u].van = v /\ v \in now.holds
      OBVIOUS
    <3>1. RowsWith(s)[u].van = v
      BY <1>6 DEF Unpaid
    <3>2. RowsWith(s)[u].van = trip[u].van
      <4>1. RowsWith(s) = [trip EXCEPT ![t] = NewRow(s)]
        BY <1>6 DEF RowsWith
      <4>2. NewRow(s).van = trip[t].van
        BY <1>0, <1>4, <1>6, NewType
      <4> QED BY <1>4, <4>1, <4>2
    <3> QED BY <1>3, <1>6, <3>1, <3>2
  <2> QED BY <1>3, <2>1, <2>2
<1>8. ASSUME marks # {}, NEW U \in SUBSET Trips, \A u \in U : trip[u].van = v /\ Waiting(trip[u])
      PROVE  Claim(Coming(charged, now), U, v) <= account[v].settled + amount
  <2>1. /\ LinesWith(s) \in [Trips -> Seq(Line)] /\ NewTotals(s)[v] = Reckon(RowsWith(s), LinesWith(s), v)
        /\ NewRow(s).van = v /\ NewRow(s).status = session[s].row.status
    BY <1>0, <1>4, <1>6, <1>8, NewType
  <2>2. /\ account[v].settled \in Nat
        /\ Reckon(RowsWith(s), LinesWith(s), v) \in Nat /\ Disputed(RowsWith(s), LinesWith(s), v) \in Nat
        /\ Claim(LinesWith(s), U, v) \in Nat
    BY <1>0, <1>6, <1>8, <2>1, TypeFields, TripSums, ClaimSums DEF Typed
  <2>3. StillDue(s, amount) = NewTotals(s)[v] - account[v].settled - amount
                              - Disputed(RowsWith(s), LinesWith(s), v)
    BY <1>0, <1>4, <1>6, <1>8, StillDueIs
  <2>4. \A u \in Trips : u \in U => RowsWith(s)[u].van = v /\ Live(RowsWith(s)[u])
    <3>1. RowsWith(s) = [trip EXCEPT ![t] = NewRow(s)]
      BY <1>6, <1>8 DEF RowsWith
    <3>2. Live(NewRow(s))
      BY <1>6, <1>8, <2>1 DEF Live, Waiting, BEFORE_DEPARTURE
    <3>3. \A u \in U : Live(trip[u])
      BY <1>8 DEF Live, Waiting, BEFORE_DEPARTURE
    <3> QED BY <1>4, <1>8, <2>1, <3>1, <3>2, <3>3
  <2>5. Claim(LinesWith(s), U, v) + Disputed(RowsWith(s), LinesWith(s), v)
           <= Reckon(RowsWith(s), LinesWith(s), v)
    <3> HIDE DEF v
    <3> QED BY <2>1, <2>4, ClaimUnder
  <2>6. Coming(charged, now) = LinesWith(s)
    <3>1. LinesWith(s) = [charged EXCEPT ![t] = Merged(charged[t], session[s].read, NewLines(s))]
      BY <1>4 DEF LinesWith
    <3>2. charged \in [Trips -> Seq(Line)]
      BY <1>0, TypeFields DEF Typed
    <3> QED BY <1>3, <1>4, <3>1, <3>2 DEF Coming
  <2>7. StillDue(s, amount) <= 0
    BY <1>6, <1>8
  <2> HIDE DEF v, t
  <2> QED BY <2>1, <2>2, <2>3, <2>5, <2>6, <2>7
<1>9. now.plan.marks # {} =>
         \A U \in SUBSET Trips :
            (\A u \in U : trip[u].van = now.row.van /\ Waiting(trip[u])) =>
               Claim(Coming(charged, now), U, now.row.van) <= account[now.row.van].settled + now.plan.amount
  BY <1>3, <1>8
<1> QED BY <1>3, <1>5, <1>7, <1>9, SessionPaying DEF Swap

LEMMA SharesType ==
    ASSUME NEW ch \in [Trips -> Seq(Line)], NEW now \in Session,
           now.trip \in Trips => Len(now.read) <= Len(now.plan.lines), NEW t \in Trips, NEW v
    PROVE  SharesOn(ch[t], v, SETTLED) \in Nat /\ SharesOn(Coming(ch, now)[t], v, SETTLED) \in Nat
<1>1. Coming(ch, now) \in [Trips -> Seq(Line)]
  BY ComingType
<1> QED BY <1>1, LineSums

\* A step of no session: it writes trips that none holds, pays nothing, pays
\* up no trip, and raises no share on a statement that is locked.
LEMMA RowsPaying ==
    ASSUME Paying, UNCHANGED session, Payments', Handling',
           \A t \in Trips : (trip'[t] = trip[t] /\ charged'[t] = charged[t]) \/ RowFree(t),
           \A v \in Vans : account'[v].settled = account[v].settled,
           \A v \in Vans : AccountFree(v) \/ \A t \in Trips :
              SharesOn(charged'[t], v, SETTLED) <= SharesOn(charged[t], v, SETTLED),
           \A t \in Trips : Waiting(trip'[t]) /\ ~past'[t].astray =>
              /\ trip[t].van = trip'[t].van /\ Waiting(trip[t]) /\ ~past[t].astray
              /\ trip'[t].pay = "paid" => trip[t].pay = "paid",
           \A v \in Vans : Covered(v)'
    PROVE  Paying'
<1>0. Payments /\ Typed /\ Typed'
  BY DEF Paying, Payments
<1>1. ASSUME NEW q \in Sessions, NEW t \in Trips, Has(session[q], t)
      PROVE  trip'[t] = trip[t] /\ charged'[t] = charged[t]
  <2>1. q # None
    BY DEF StatementAssumption
  <2>2. ~RowFree(t)
    BY <1>1, <2>1, TripFreeIs DEF RowFree
  <2> QED BY <2>2
<1>2. ASSUME NEW q \in Sessions PROVE Careful(session[q])'
  <2>1. session'[q] = session[q] /\ Careful(session[q])
    BY DEF Paying
  <2>2. \A t \in Trips : Has(session[q], t) => trip'[t] = trip[t]
    BY <1>1
  <2> QED BY <2>1, <2>2 DEF Careful, Has
<1>3. ASSUME NEW q \in Sessions PROVE Backed(session[q])'
  <2>1. session'[q] = session[q]
    OBVIOUS
  <2> SUFFICES ASSUME session[q].plan.marks # {} PROVE Backed(session[q])'
    BY <2>1 DEF Backed
  <2> DEFINE mine == session[q]
             v == mine.row.van
  <2>2. /\ v \in Vans /\ mine \in Session /\ charged \in [Trips -> Seq(Line)]
        /\ charged' \in [Trips -> Seq(Line)]
        /\ mine.trip \in Trips => Len(mine.read) <= Len(mine.plan.lines)
    BY <1>0, MarksIs, TypeFields DEF Typed, TypeOK, Shape, StatementAssumption
  <2>3. \A t \in Trips : t \in Promised(mine)' => t \in Promised(mine)
    BY <2>1 DEF Promised
  <2>4. \A t \in Trips : SharesOn(charged'[t], v, SETTLED) <= SharesOn(charged[t], v, SETTLED)
           => SharesOn(Coming(charged', mine)[t], v, SETTLED) <= SharesOn(Coming(charged, mine)[t], v, SETTLED)
    <3> SUFFICES ASSUME NEW t \in Trips,
                        SharesOn(charged'[t], v, SETTLED) <= SharesOn(charged[t], v, SETTLED)
                 PROVE  SharesOn(Coming(charged', mine)[t], v, SETTLED)
                           <= SharesOn(Coming(charged, mine)[t], v, SETTLED)
      OBVIOUS
    <3>1. CASE t = mine.trip
      <4>1. charged'[t] = charged[t]
        BY <1>0, <1>1, <3>1, MarksIs
      <4>2. Coming(charged', mine)[t] = Coming(charged, mine)[t]
        BY <4>1 DEF Coming
      <4>3. SharesOn(Coming(charged, mine)[t], v, SETTLED) \in Nat
        <5> HIDE DEF mine, v
        <5> QED BY <2>2, SharesType
      <4> QED BY <4>2, <4>3
    <3>2. CASE t # mine.trip
      BY <3>2 DEF Coming
    <3> QED BY <3>1, <3>2
  <2>5. \A t \in Trips : SharesOn(charged'[t], v, SETTLED) <= SharesOn(charged[t], v, SETTLED)
    <3>1. v \in mine.holds /\ q # None
      BY <1>0, MarksIs DEF StatementAssumption
    <3>2. ~AccountFree(v)
      BY <3>1 DEF AccountFree, AccountTaken
    <3> QED BY <2>2, <3>2
  <2> QED BY <1>0, <2>1, <2>2, <2>3, <2>4, <2>5, BackedKept
<1> QED BY <1>2, <1>3 DEF Paying

LEMMA WritesPaying ==
    ASSUME Paying, NEW t \in Trips, NEW row \in Row, Writes(t, row), Payments', Handling'
    PROVE  Paying'
<1>0. Payments /\ Typed
  BY DEF Paying, Payments
<1>1. /\ trip' = [trip EXCEPT ![t] = row] /\ trip \in [Trips -> Row] /\ RowFree(t)
      /\ UNCHANGED <<charged, account, session>> /\ charged \in [Trips -> Seq(Line)]
      /\ \A u \in Trips : (past[u].astray => past'[u].astray) /\ (u # t => past'[u] = past[u])
      /\ row.van # trip[t].van => past'[t].astray
  BY <1>0, WritesIs, TypeFields DEF Typed
<1>2. Waiting(trip[t]) /\ (row.pay = "paid" => trip[t].pay = "paid")
  BY DEF Writes
<1>3. \A u \in Trips : Waiting(trip'[u]) /\ ~past'[u].astray =>
         /\ trip[u].van = trip'[u].van /\ Waiting(trip[u]) /\ ~past[u].astray
         /\ trip'[u].pay = "paid" => trip[u].pay = "paid"
  BY <1>1, <1>2
<1>4. \A u \in Trips : (trip'[u] = trip[u] /\ charged'[u] = charged[u]) \/ RowFree(u)
  BY <1>1
<1>5. \A v \in Vans, u \in Trips : /\ SharesOn(charged[u], v, SETTLED) \in Nat
                                    /\ SharesOn(charged'[u], v, SETTLED) <= SharesOn(charged[u], v, SETTLED)
  <2>1. \A v \in Vans, u \in Trips : SharesOn(charged[u], v, SETTLED) \in Nat
    BY <1>1, LineSums
  <2> QED BY <1>1, <2>1
<1>6. ASSUME NEW v \in Vans PROVE Covered(v)'
  <2>1. PaidTrips(v)' \subseteq PaidTrips(v)
    BY <1>3 DEF PaidTrips, PaidUp
  <2>2. Claim(charged, PaidTrips(v)', v) <= Claim(charged, PaidTrips(v), v)
    BY <1>1, <1>5, <2>1, ClaimMore
  <2>3. /\ Claim(charged, PaidTrips(v)', v) \in Nat /\ Claim(charged, PaidTrips(v), v) \in Nat
        /\ account[v].settled \in Nat
    BY <1>0, <1>1, ClaimSums, TypeFields DEF Typed
  <2>4. PaidTrips(v) # {} => Claim(charged, PaidTrips(v), v) <= account[v].settled
    BY DEF Paying, Covered
  <2> QED BY <1>1, <2>1, <2>2, <2>3, <2>4 DEF Covered
<1> QED BY <1>1, <1>3, <1>4, <1>5, <1>6, RowsPaying

LEMMA ParkingPaying ==
    ASSUME Paying, NEW v \in Vans, ChargeParking(v), Payments', Handling'
    PROVE  Paying'
<1>0. Payments /\ Typed
  BY DEF Paying, Payments
<1>1. /\ UNCHANGED <<trip, charged, session, past>> /\ charged \in [Trips -> Seq(Line)]
      /\ \A u \in Vans : account'[u].settled = account[u].settled
  BY <1>0, ParkingIs, TypeFields DEF Typed
<1>2. \A u \in Vans, t \in Trips : SharesOn(charged'[t], u, SETTLED) <= SharesOn(charged[t], u, SETTLED)
  <2>1. \A u \in Vans, t \in Trips : SharesOn(charged[t], u, SETTLED) \in Nat
    BY <1>1, LineSums
  <2> QED BY <1>1, <2>1
<1>3. \A u \in Vans : Covered(u)'
  <2>1. \A u \in Vans : PaidTrips(u)' = PaidTrips(u)
    BY <1>1 DEF PaidTrips, PaidUp
  <2> QED BY <1>1, <2>1 DEF Paying, Covered
<1> QED BY <1>1, <1>2, <1>3, RowsPaying

\* A contested line is part of no claim.
LEMMA OneLineLess ==
    ASSUME NEW lines \in Seq(Line), NEW i \in DOMAIN lines, NEW l \in Line, NEW v, NEW disputes,
           l.dispute \notin disputes
    PROVE  SharesOn([lines EXCEPT ![i] = l], v, disputes) <= SharesOn(lines, v, disputes)
<1> DEFINE new == [lines EXCEPT ![i] = l]
           D == DOMAIN lines
           f == ShareAt(new, v, disputes)
           g == ShareAt(lines, v, disputes)
<1>1. /\ new \in Seq(Line) /\ DOMAIN new = D /\ IsFiniteSet(D)
      /\ \A j \in D : new[j] = IF j = i THEN l ELSE lines[j]
  BY OneLineType, LineFields
<1> HIDE DEF new
<1>2. \A j \in D : f[j] \in Nat /\ g[j] \in Nat
  BY <1>1, LineSums
<1>3. \A j \in D : f[j] = 0 \/ f[j] = g[j]
  BY <1>1 DEF ShareAt
<1>4. SharesOn(new, v, disputes) = SumFunctionOnSet(f, D) /\ SharesOn(lines, v, disputes) = SumFunctionOnSet(g, D)
  BY <1>1, LineSums
<1> HIDE DEF f, g, D
<1>5. \A j \in D : f[j] \in Nat /\ g[j] \in Nat /\ f[j] <= g[j]
  BY <1>2, <1>3
<1>6. SumFunctionOnSet(f, D) <= SumFunctionOnSet(g, D)
  BY <1>1, <1>5, SumMonotone
<1> QED BY <1>4, <1>6 DEF new

LEMMA RaisePaying ==
    ASSUME Paying, NEW t \in Trips, NEW i \in DOMAIN charged[t], Raise(t, i), Payments', Handling'
    PROVE  Paying'
<1> DEFINE l == [charged[t][i] EXCEPT !.dispute = "open"]
<1>0. Payments /\ Typed
  BY DEF Paying, Payments
<1>1. /\ charged[t] \in Seq(Line) /\ charged[t][i] \in Line /\ charged \in [Trips -> Seq(Line)]
      /\ charged' \in [Trips -> Seq(Line)]
      /\ charged' = [charged EXCEPT ![t] = [charged[t] EXCEPT ![i] = l]] /\ RowFree(t)
      /\ UNCHANGED <<trip, account, session, past>>
  BY <1>0, RaiseIs, TypeFields DEF Typed
<1>2. l \in Line /\ l.dispute \notin SETTLED
  BY <1>1 DEF Line, DISPUTES, SETTLED
<1> HIDE DEF l
<1>3. ASSUME NEW v \in Vans, NEW u \in Trips
      PROVE  SharesOn(charged'[u], v, SETTLED) <= SharesOn(charged[u], v, SETTLED)
  <2>1. CASE u = t
    <3>1. charged'[u] = [charged[t] EXCEPT ![i] = l]
      BY <1>1, <2>1
    <3>2. SharesOn([charged[t] EXCEPT ![i] = l], v, SETTLED) <= SharesOn(charged[t], v, SETTLED)
      BY <1>1, <1>2, OneLineLess
    <3> QED BY <2>1, <3>1, <3>2
  <2>2. CASE u # t
    <3>1. charged'[u] = charged[u] /\ SharesOn(charged[u], v, SETTLED) \in Nat
      BY <1>1, <2>2, LineSums
    <3> QED BY <3>1
  <2> QED BY <2>1, <2>2
<1>4. ASSUME NEW v \in Vans PROVE Covered(v)'
  <2>1. PaidTrips(v)' = PaidTrips(v)
    BY <1>1 DEF PaidTrips, PaidUp
  <2>2. Claim(charged', PaidTrips(v), v) <= Claim(charged, PaidTrips(v), v)
    BY <1>1, <1>3, ClaimMore
  <2>3. /\ Claim(charged', PaidTrips(v), v) \in Nat /\ Claim(charged, PaidTrips(v), v) \in Nat
        /\ account[v].settled \in Nat
    BY <1>0, <1>1, ClaimSums, TypeFields DEF Typed
  <2>4. PaidTrips(v) # {} => Claim(charged, PaidTrips(v), v) <= account[v].settled
    BY DEF Paying, Covered
  <2> QED BY <1>1, <2>1, <2>2, <2>3, <2>4 DEF Covered
<1>5. \A u \in Trips : (trip'[u] = trip[u] /\ charged'[u] = charged[u]) \/ RowFree(u)
  BY <1>1
<1> QED BY <1>1, <1>3, <1>4, <1>5, RowsPaying

LEMMA SettlePaying ==
    ASSUME Paying, NEW t \in Trips, NEW i \in DOMAIN charged[t],
           NEW dispute \in {"withdrawn", "resolved"}, NEW due \in Nat, Settle(t, i, dispute, due),
           Payments', Handling'
    PROVE  Paying'
<1> DEFINE l == [charged[t][i] EXCEPT !.dispute = dispute, !.due = due]
           v == charged[t][i].on
<1>0. Payments /\ Typed /\ Settled(t, i, dispute, due)
  BY SettleIs DEF Paying, Payments
<1>1. /\ charged[t] \in Seq(Line) /\ charged[t][i] \in Line /\ v \in Vans
      /\ charged \in [Trips -> Seq(Line)] /\ charged' \in [Trips -> Seq(Line)]
      /\ charged' = [charged EXCEPT ![t] = [charged[t] EXCEPT ![i] = l]]
      /\ RowFree(t) /\ AccountFree(v)
      /\ \A u \in Vans : u # v => account'[u] = account[u]
      /\ account'[v].settled = account[v].settled
      /\ account'[v].owed = Reckon(trip, charged', v)
      /\ UNCHANGED <<session, past>>
      /\ trip \in [Trips -> Row] /\ trip[t] \in Row
  BY <1>0, TypeFields DEF Settled, Typed
<1>2. l \in Line /\ l.on = v
  BY <1>1 DEF Line, DISPUTES
<1>3. /\ \A w \in Trips : w # t => trip'[w] = trip[w]
      /\ trip'[t].van = trip[t].van /\ trip'[t].status = trip[t].status
      /\ trip'[t].pay = "paid" => trip[t].pay = "paid"
  <2>1. trip' = trip \/ trip' = [trip EXCEPT ![t] = [trip[t] EXCEPT !.pay = "unpaid"]]
    BY <1>0 DEF Settled
  <2>2. /\ [trip[t] EXCEPT !.pay = "unpaid"].van = trip[t].van
        /\ [trip[t] EXCEPT !.pay = "unpaid"].status = trip[t].status
        /\ [trip[t] EXCEPT !.pay = "unpaid"].pay = "unpaid"
    BY <1>1 DEF Row
  <2> QED BY <1>1, <2>1, <2>2
<1>4. SettledTrip(t, v)
  BY <1>0 DEF Settled
<1> HIDE DEF l, v
<1>5. ASSUME NEW u \in Vans, NEW w \in Trips, u # v \/ w # t
      PROVE  /\ SharesOn(charged'[w], u, SETTLED) = SharesOn(charged[w], u, SETTLED)
             /\ SharesOn(charged[w], u, SETTLED) \in Nat
  <2>1. SharesOn(charged[w], u, SETTLED) \in Nat
    BY <1>1, LineSums
  <2>2. CASE w = t
    <3>1. charged'[w] = [charged[t] EXCEPT ![i] = l]
      BY <1>1, <2>2
    <3>2. SharesOn([charged[t] EXCEPT ![i] = l], u, SETTLED) = SharesOn(charged[t], u, SETTLED)
      <4>1. l.on = charged[t][i].on /\ u # l.on
        BY <1>2, <1>5, <2>2 DEF v
      <4>2. charged[t] \in Seq(Line) /\ i \in DOMAIN charged[t] /\ l \in Line
        BY <1>1, <1>2
      <4> HIDE DEF l
      <4> QED BY <4>1, <4>2, OneLine
    <3> QED BY <2>1, <2>2, <3>1, <3>2
  <2>3. CASE w # t
    BY <1>1, <2>1, <2>3
  <2> QED BY <2>2, <2>3
<1>6. \A w \in Trips : Waiting(trip'[w]) /\ ~past'[w].astray =>
         /\ trip[w].van = trip'[w].van /\ Waiting(trip[w]) /\ ~past[w].astray
         /\ trip'[w].pay = "paid" => trip[w].pay = "paid"
  <2>1. past' = past
    BY <1>1
  <2> QED BY <1>3, <2>1 DEF Waiting
<1>7. \A u \in Vans : PaidTrips(u)' \subseteq PaidTrips(u)
  BY <1>6 DEF PaidTrips, PaidUp
<1>8. ASSUME NEW u \in Vans, u # v \/ t \notin PaidTrips(u)' PROVE Covered(u)'
  <2> DEFINE mine == PaidTrips(u)'
  <2>1. \A w \in Trips : w \in mine =>
           w \in PaidTrips(u) /\ SharesOn(charged'[w], u, SETTLED) <= SharesOn(charged[w], u, SETTLED)
    <3> SUFFICES ASSUME NEW w \in Trips, w \in mine
                 PROVE  w \in PaidTrips(u)
                        /\ SharesOn(charged'[w], u, SETTLED) <= SharesOn(charged[w], u, SETTLED)
      OBVIOUS
    <3>1. u # v \/ w # t
      BY <1>8
    <3>2. /\ SharesOn(charged'[w], u, SETTLED) = SharesOn(charged[w], u, SETTLED)
          /\ SharesOn(charged[w], u, SETTLED) \in Nat
      BY <1>5, <3>1
    <3> QED BY <1>7, <3>2
  <2> HIDE DEF mine
  <2>2. Claim(charged', mine, u) <= Claim(charged, PaidTrips(u), u)
    BY <1>1, <2>1, ClaimMore
  <2>3. /\ Claim(charged', mine, u) \in Nat /\ Claim(charged, PaidTrips(u), u) \in Nat
        /\ account[u].settled \in Nat /\ account'[u].settled = account[u].settled
    <3>1. Claim(charged', mine, u) \in Nat /\ Claim(charged, PaidTrips(u), u) \in Nat
      BY <1>1, ClaimSums
    <3>2. account[u].settled \in Nat
      BY <1>0, TypeFields DEF Typed
    <3>3. account'[u].settled = account[u].settled
      BY <1>1
    <3> QED BY <3>1, <3>2, <3>3
  <2>4. PaidTrips(u) # {} => Claim(charged, PaidTrips(u), u) <= account[u].settled
    BY DEF Paying, Covered
  <2>5. mine # {} => PaidTrips(u) # {}
    BY <1>7 DEF mine
  <2>6. mine # {} => Claim(charged', mine, u) <= account'[u].settled
    BY <2>2, <2>3, <2>4, <2>5
  <2> QED BY <2>6 DEF Covered, mine
<1>9. ASSUME NEW u \in Vans, u = v, t \in PaidTrips(u)' PROVE Covered(u)'
  <2> DEFINE mine == PaidTrips(u)'
  <2>1. Waiting(trip[t]) /\ trip[t].pay = "paid" /\ trip'[t].pay = "paid"
    <3>1. Waiting(trip'[t]) /\ ~past'[t].astray /\ trip'[t].pay = "paid"
      BY <1>9 DEF PaidTrips, PaidUp
    <3> QED BY <1>6, <3>1
  <2>2. ~(DueOn(account', trip, charged', u) > 0)
    <3> SUFFICES ASSUME DueOn(account', trip, charged', u) > 0 PROVE FALSE
      OBVIOUS
    <3>1. trip' = [trip EXCEPT ![t].pay = "unpaid"]
      BY <1>4, <1>9, <2>1 DEF SettledTrip
    <3>2. trip'[t].pay = "unpaid"
      BY <1>1, <3>1 DEF Row
    <3> QED BY <2>1, <3>2
  <2>3. /\ Reckon(trip, charged', u) \in Nat /\ Disputed(trip, charged', u) \in Nat
        /\ account'[u].settled \in Nat /\ Claim(charged', mine, u) \in Nat
    <3>1. Reckon(trip, charged', u) \in Nat /\ Disputed(trip, charged', u) \in Nat
      BY <1>1, TripSums
    <3>2. Claim(charged', mine, u) \in Nat
      <4> HIDE DEF mine
      <4> QED BY <1>1, ClaimSums
    <3>3. account[u].settled \in Nat
      BY <1>0, TypeFields DEF Typed
    <3>4. account'[u].settled = account[u].settled
      BY <1>1, <1>9
    <3> QED BY <3>1, <3>2, <3>3, <3>4
  <2>4. Reckon(trip, charged', u) <= account'[u].settled + Disputed(trip, charged', u)
    <3>1. account'[u].owed = Reckon(trip, charged', u)
      BY <1>1, <1>9
    <3> QED BY <2>2, <2>3, <3>1 DEF DueOn
  <2>5. \A w \in Trips : w \in mine => trip[w].van = u /\ Live(trip[w])
    <3> SUFFICES ASSUME NEW w \in Trips, w \in mine PROVE trip[w].van = u /\ Live(trip[w])
      OBVIOUS
    <3>1. trip'[w].van = u /\ Waiting(trip'[w]) /\ ~past'[w].astray
      BY DEF PaidTrips, PaidUp
    <3>2. trip[w].van = u /\ Waiting(trip[w])
      BY <1>6, <3>1
    <3> QED BY <3>2 DEF Waiting, Live, BEFORE_DEPARTURE
  <2>6. Claim(charged', mine, u) + Disputed(trip, charged', u) <= Reckon(trip, charged', u)
    <3> HIDE DEF mine
    <3> QED BY <1>1, <2>5, ClaimUnder
  <2>7. Claim(charged', mine, u) <= account'[u].settled
    <3> HIDE DEF mine
    <3> QED BY <2>3, <2>4, <2>6
  <2> QED BY <2>7 DEF Covered
<1>10. \A u \in Vans : Covered(u)'
  <2> SUFFICES ASSUME NEW u \in Vans PROVE Covered(u)'
    OBVIOUS
  <2> QED BY <1>8, <1>9
<1>11. \A u \in Vans : AccountFree(u) \/ \A w \in Trips :
          SharesOn(charged'[w], u, SETTLED) <= SharesOn(charged[w], u, SETTLED)
  <2> SUFFICES ASSUME NEW u \in Vans, u # v, NEW w \in Trips
               PROVE  SharesOn(charged'[w], u, SETTLED) <= SharesOn(charged[w], u, SETTLED)
    BY <1>1
  <2> QED BY <1>5
<1>12. \A w \in Trips : (trip'[w] = trip[w] /\ charged'[w] = charged[w]) \/ RowFree(w)
  BY <1>1, <1>3
<1>13. \A u \in Vans : account'[u].settled = account[u].settled
  BY <1>1
<1> QED BY <1>1, <1>6, <1>10, <1>11, <1>12, <1>13, RowsPaying

\* Lines that differ at most in where they were paid.
AlikeLines(l, m) ==
    l.on = m.on /\ l.count = m.count /\ l.due = m.due /\ l.dispute = m.dispute

Alike(a, b) ==
    /\ a \in Seq(Line) /\ b \in Seq(Line) /\ Len(a) = Len(b)
    /\ \A i \in DOMAIN a : AlikeLines(a[i], b[i])

LEMMA AlikeShares ==
    ASSUME NEW a, NEW b, Alike(a, b), NEW v
    PROVE  SharesOn(a, v, SETTLED) = SharesOn(b, v, SETTLED)
  BY SameShares DEF Alike, AlikeLines

LEMMA AlikeLine ==
    ASSUME NEW l \in Line, NEW m \in Line, NEW old \in Line, NEW new \in Line,
           AlikeLines(l, m)
    PROVE  AlikeLines(MergedLine(l, old, new), MergedLine(m, old, new))
<1>1. CASE new = old
  BY <1>1 DEF MergedLine
<1>2. CASE new # old /\ new.on = None
  BY <1>2 DEF MergedLine, AlikeLines
<1>3. CASE new # old /\ new.on # None
  BY <1>3 DEF MergedLine, Line, AlikeLines
<1> QED BY <1>1, <1>2, <1>3

LEMMA AlikeMerged ==
    ASSUME NEW a, NEW b, Alike(a, b), NEW read \in Seq(Line), NEW lines \in Seq(Line),
           Len(read) <= Len(lines)
    PROVE  Alike(Merged(a, read, lines), Merged(b, read, lines))
<1> DEFINE x == Merged(a, read, lines)
           y == Merged(b, read, lines)
           n == Len(lines) - Len(read)
<1>1. /\ a \in Seq(Line) /\ b \in Seq(Line) /\ Len(a) = Len(b)
      /\ MergesAs(x, a, read, lines) /\ MergesAs(y, b, read, lines)
  BY MergedType DEF Alike
<1>2. /\ Len(a) \in Nat /\ DOMAIN a = 1..Len(a) /\ DOMAIN b = 1..Len(a)
      /\ Len(read) \in Nat /\ Len(lines) \in Nat
      /\ DOMAIN read = 1..Len(read) /\ DOMAIN lines = 1..Len(lines) /\ n \in Nat
      /\ \A i \in DOMAIN a : a[i] \in Line /\ b[i] \in Line
      /\ \A i \in DOMAIN read : read[i] \in Line
      /\ \A i \in DOMAIN lines : lines[i] \in Line
  BY <1>1, LineFields
<1> HIDE DEF x, y, n
<1>3. /\ x \in Seq(Line) /\ y \in Seq(Line) /\ Len(x) = Len(a) + n /\ Len(y) = Len(a) + n
      /\ \A i \in DOMAIN a : x[i] = IF i \in DOMAIN read THEN MergedLine(a[i], read[i], lines[i]) ELSE a[i]
      /\ \A i \in DOMAIN a : y[i] = IF i \in DOMAIN read THEN MergedLine(b[i], read[i], lines[i]) ELSE b[i]
      /\ \A i \in 1..n : x[Len(a) + i] = lines[Len(read) + i] /\ y[Len(a) + i] = lines[Len(read) + i]
  BY <1>1, <1>2 DEF MergesAs, n
<1>4. DOMAIN x = 1..(Len(a) + n)
  BY <1>3, LineFields
<1>5. ASSUME NEW i \in DOMAIN x
      PROVE  AlikeLines(x[i], y[i])
  <2>1. CASE i \in DOMAIN a
    <3>1. AlikeLines(a[i], b[i])
      BY <2>1 DEF Alike
    <3>2. CASE i \in DOMAIN read
      <4>1. i \in DOMAIN lines
        BY <1>2, <3>2 DEF n
      <4>2. a[i] \in Line /\ b[i] \in Line /\ read[i] \in Line /\ lines[i] \in Line
        BY <1>2, <2>1, <3>2, <4>1
      <4>3. x[i] = MergedLine(a[i], read[i], lines[i]) /\ y[i] = MergedLine(b[i], read[i], lines[i])
        BY <1>3, <2>1, <3>2
      <4> QED BY <3>1, <4>2, <4>3, AlikeLine
    <3>3. CASE i \notin DOMAIN read
      BY <1>3, <2>1, <3>1, <3>3
    <3> QED BY <3>2, <3>3
  <2>2. CASE i \notin DOMAIN a
    <3>1. i - Len(a) \in 1..n /\ Len(a) + (i - Len(a)) = i
      BY <1>2, <1>4, <2>2
    <3>2. x[i] = y[i]
      BY <1>3, <3>1
    <3> QED BY <3>2 DEF AlikeLines
  <2> QED BY <2>1, <2>2
<1> QED BY <1>3, <1>5 DEF Alike, x, y

\* The lines a commit leaves, but for what it records as paid.
LEMMA CommitLines ==
    ASSUME Typed, NEW s \in Sessions, Commit(s), NEW t \in Trips
    PROVE  Alike(charged'[t], Coming(charged, session[s])[t])
<1> DEFINE now == session[s]
           all == Coming(charged, now)[t]
<1>1. /\ now \in Session /\ now.plan.amount \in Nat /\ charged \in [Trips -> Seq(Line)]
      /\ now.step = "write" /\ charged' = LinesAfter(s) /\ Shape(now)
  BY TypeFields, CommitIs DEF Typed
<1>2. now.trip \in Trips => Len(now.read) <= Len(now.plan.lines)
  BY <1>1, TypeFields DEF Typed, Shape
<1>3. Coming(charged, now) \in [Trips -> Seq(Line)]
  BY <1>1, <1>2, ComingType
<1>4. /\ all \in Seq(Line)
      /\ all = IF t = now.trip THEN Merged(charged[t], now.read, now.plan.lines) ELSE charged[t]
  BY <1>3 DEF Coming
<1>5. CASE now.plan.amount = 0
  <2>1. charged'[t] = all
    BY <1>1, <1>4, <1>5, AfterType
  <2> HIDE DEF all
  <2> QED BY <1>4, <2>1 DEF Alike, AlikeLines, all
<1>6. CASE now.plan.amount # 0
  <2>1. charged'[t] = PaidLines(all, now.row.van)
    BY <1>1, <1>4, <1>6, AfterType
  <2>2. now.row.van \in Vans
    BY <1>1, <1>6 DEF Shape
  <2> HIDE DEF all
  <2>3. Alike(PaidLines(all, now.row.van), all)
    BY <1>4, <2>2, PaidLinesType DEF Alike, AlikeLines
  <2> QED BY <2>1, <2>3 DEF all
<1> QED BY <1>5, <1>6

\* The trip of a session that commits, and those it marks, in full.
LEMMA CommitCareful ==
    ASSUME Paying, NEW s \in Sessions, Commit(s), NEW q \in Sessions
    PROVE  Careful(session[q])'
<1>1. session' = [session EXCEPT ![s] = Idle] /\ session \in [Sessions -> Session]
  BY CommitIs, TypeFields DEF Paying, Handling, Typed
<1>2. CASE q = s
  <2>1. session'[q] = Idle
    BY <1>1, <1>2
  <2> QED BY <2>1, Start0 DEF Careful, Has
<1>3. CASE q # s
  <2>1. session'[q] = session[q] /\ Careful(session[q])
    BY <1>1, <1>3 DEF Paying
  <2>2. \A t \in Trips : Has(session[q], t) => trip'[t] = trip[t]
    BY <1>3, CommitKeeps DEF Paying
  <2>3. ASSUME NEW t \in Trips, Has(session[q], t), Waiting(session[q].row) PROVE Waiting(trip'[t])
    BY <2>1, <2>2, <2>3 DEF Careful
  <2> QED BY <2>1, <2>3 DEF Careful, Has
<1> QED BY <1>2, <1>3

\* A trip that is paid up after a commit that was not to pay it was paid up
\* before, and is charged no more.
LEMMA CommitPaid ==
    ASSUME Paying, NEW s \in Sessions, Commit(s), Typed', NEW v \in Vans,
           ~(v = session[s].row.van /\ session[s].plan.marks # {}),
           NEW t \in Trips, t \in PaidTrips(v)'
    PROVE  t \in PaidTrips(v) /\ SharesOn(charged'[t], v, SETTLED) = SharesOn(charged[t], v, SETTLED)
<1> DEFINE now == session[s]
<1>0. Payments /\ Handling /\ Typed /\ Careful(now) /\ PlanRow(now) /\ TripRow(t) /\ Holds(now, t)
  BY DEF Paying, Handling
<1>1. /\ trip'[t].van = v /\ Waiting(trip'[t]) /\ trip'[t].pay = "paid" /\ ~past'[t].astray
  BY DEF PaidTrips, PaidUp
<1>2. ~past[t].astray /\ ~Gone(s, t)
  BY <1>0, <1>1, CommitPast
<1>3. /\ trip'[t] = TripsAfter(s)[t] /\ now.step = "write" /\ Shape(now)
      /\ now.plan.marks \in SUBSET Trips /\ now.read \in Seq(Line) /\ now.plan.lines \in Seq(Line)
      /\ charged[t] \in Seq(Line)
  BY <1>0, CommitIs, TypeFields DEF Typed
<1>4. Alike(charged'[t], Coming(charged, now)[t])
  BY <1>0, CommitLines
<1>5. /\ trip'[t].status = Written(s, t).status /\ trip'[t].van = Written(s, t).van
      /\ t \notin now.plan.marks => trip'[t] = Written(s, t)
      /\ now.does = "list" => Written(s, t).status = trip[t].status /\ Written(s, t).van = trip[t].van
      /\ (now.does = "list" /\ now.plan.row.pay = now.row.pay) => Written(s, t) = trip[t]
  <2>1. /\ TripsAfter(s)[t].status = Written(s, t).status /\ TripsAfter(s)[t].van = Written(s, t).van
        /\ t \notin now.plan.marks => TripsAfter(s)[t] = Written(s, t)
        /\ now.does = "list" => Written(s, t).status = trip[t].status /\ Written(s, t).van = trip[t].van
        /\ (now.does = "list" /\ now.plan.row.pay = now.row.pay) => Written(s, t) = trip[t]
    BY <1>0, TripsAfterIs
  <2> HIDE DEF now
  <2> QED BY <1>3, <2>1
<1>6. CASE t # now.trip
  <2>1. Written(s, t) = trip[t]
    BY <1>6 DEF Written
  <2>2. t \notin now.plan.marks
    BY <1>1, <1>2, <1>5, <1>6, <2>1 DEF Gone
  <2>3. trip'[t] = trip[t]
    BY <1>5, <2>1, <2>2
  <2>4. t \in PaidTrips(v)
    BY <1>1, <1>2, <2>3 DEF PaidTrips, PaidUp
  <2>5. Coming(charged, now)[t] = charged[t]
    BY <1>6 DEF Coming
  <2> QED BY <1>4, <2>4, <2>5, AlikeShares
<1>7. CASE t = now.trip
  <2>1. /\ now.row.van = trip[t].van
        /\ now.does = "list" => now.row = trip[t]
        /\ \A i \in DOMAIN now.read : now.plan.lines[i].on \in {now.read[i].on, None}
    BY <1>2, <1>7 DEF Gone, Strays
  <2>2. now.does # "statement" /\ Len(now.read) <= Len(now.plan.lines)
    BY <1>3, <1>7, TypeFields DEF Shape, Typed
  <2>3. t \notin now.plan.marks
    <3> SUFFICES ASSUME t \in now.plan.marks PROVE FALSE
      OBVIOUS
    <3>1. now.does = "pay"
      BY <1>0, <2>2, MarksIs
    <3>2. Written(s, t) = now.plan.row /\ now.plan.row.van = now.row.van
      BY <1>0, <1>3, <1>7, <2>2, <3>1 DEF Written, PlanRow
    <3> QED BY <1>1, <1>5, <3>2
  <2>4. trip'[t] = Written(s, t)
    BY <1>5, <2>3
  <2>5. /\ trip[t].van = v /\ Waiting(trip[t]) /\ trip[t].pay = "paid"
        /\ now.row.locked /\ now.plan.row.pay = "paid"
    <3>1. CASE now.does = "list"
      <4>1. now.row = trip[t]
        BY <2>1, <3>1
      <4>2. now.plan.row.pay = now.row.pay
        <5> SUFFICES ASSUME now.plan.row.pay # now.row.pay PROVE FALSE
          OBVIOUS
        <5>1. now.plan.row.pay # "paid"
          BY <1>0, <1>3, <2>2 DEF PlanRow
        <5>2. Written(s, t).pay = now.plan.row.pay
          <6>1. trip[t] \in Row
            BY <1>0, TypeFields DEF Typed
          <6>2. Written(s, t) = [trip[t] EXCEPT !.pay = now.plan.row.pay]
            BY <1>7, <3>1 DEF Written
          <6> QED BY <6>1, <6>2 DEF Row
        <5> QED BY <1>1, <2>4, <5>1, <5>2
      <4>3. trip'[t] = trip[t]
        BY <1>5, <2>4, <3>1, <4>2
      <4> QED BY <1>0, <1>1, <4>1, <4>2, <4>3 DEF TripRow
    <3>2. CASE now.does # "list"
      <4>1. Written(s, t) = now.plan.row
        BY <1>7, <3>2 DEF Written
      <4>2. /\ now.plan.row.van = now.row.van /\ now.plan.row.status = now.row.status
            /\ now.plan.row.pay = now.row.pay \/ now.plan.row.pay # "paid"
        BY <1>0, <1>3, <2>2 DEF PlanRow
      <4>3. Has(now, t)
        BY <1>3, <1>7, <3>2 DEF Has
      <4>4. now.plan.row.pay = "paid" /\ now.row.pay = "paid" /\ Waiting(now.row)
        BY <1>1, <2>4, <4>1, <4>2 DEF Waiting
      <4>5. trip[t].pay = "paid" /\ now.row.locked = trip[t].locked
        BY <1>0, <4>3, <4>4 DEF Holds
      <4>6. now.row.locked
        BY <1>0, <4>5 DEF TripRow
      <4>7. Waiting(trip[t])
        BY <1>0, <4>3, <4>4 DEF Careful
      <4>8. trip[t].van = v
        BY <1>1, <2>1, <2>4, <4>1, <4>2
      <4> QED BY <4>4, <4>5, <4>6, <4>7, <4>8
    <3> QED BY <3>1, <3>2
  <2>6. t \in PaidTrips(v)
    BY <1>2, <2>5 DEF PaidTrips, PaidUp
  <2>7. now.plan.lines = Follow(now.row, now.read)
    BY <1>0, <1>3, <2>2, <2>5 DEF Careful
  <2>8. now.plan.lines = now.read
    <3>1. \A i \in DOMAIN now.read : now.read[i] \in Line
      BY <1>3, LineFields
    <3>2. ASSUME NEW i \in DOMAIN now.read PROVE Follow(now.row, now.read)[i] = now.read[i]
      <4>1. now.read[i] \in Line /\ Follow(now.row, now.read)[i].on \in {now.read[i].on, None}
        BY <2>1, <2>7, <3>1
      <4>2. CASE now.row.van = None \/ now.read[i].on = None
        BY <4>2 DEF Follow
      <4>3. CASE now.row.van # None /\ now.read[i].on # None
        <5>1. Follow(now.row, now.read)[i] = [now.read[i] EXCEPT !.on = now.row.van]
          BY <4>3 DEF Follow
        <5>2. Follow(now.row, now.read)[i].on = now.row.van
          BY <4>1, <5>1 DEF Line
        <5>3. now.row.van = now.read[i].on
          BY <4>1, <4>3, <5>2
        <5> QED BY <4>1, <5>1, <5>3 DEF Line
      <4> QED BY <4>2, <4>3
    <3>3. Follow(now.row, now.read) = [i \in DOMAIN now.read |-> Follow(now.row, now.read)[i]]
      BY DEF Follow
    <3>4. now.read = [i \in DOMAIN now.read |-> now.read[i]]
      BY <1>3
    <3> QED BY <2>7, <3>2, <3>3, <3>4
  <2>9. Alike(Merged(charged[t], now.read, now.plan.lines), charged[t])
    <3> DEFINE all == Merged(charged[t], now.read, now.plan.lines)
    <3>1. MergesAs(all, charged[t], now.read, now.plan.lines)
      BY <1>3, <2>2, MergedType
    <3>2. Len(now.read) \in Nat /\ Len(charged[t]) \in Nat /\ DOMAIN charged[t] = 1..Len(charged[t])
      BY <1>3, LineFields
    <3> HIDE DEF all, now
    <3>3. all \in Seq(Line) /\ Len(all) = Len(charged[t]) /\ \A i \in DOMAIN charged[t] : all[i] = charged[t][i]
      BY <2>8, <3>1, <3>2 DEF MergesAs, MergedLine
    <3>4. DOMAIN all = 1..Len(all)
      BY <3>3, LineFields
    <3>5. charged[t] \in Seq(Line)
      BY <1>3
    <3> QED BY <3>2, <3>3, <3>4, <3>5 DEF Alike, AlikeLines, all
  <2>10. Coming(charged, now)[t] = Merged(charged[t], now.read, now.plan.lines)
    BY <1>7 DEF Coming
  <2> QED BY <1>4, <2>6, <2>9, <2>10, AlikeShares
<1> QED BY <1>6, <1>7


\* A trip that is paid up after the commit of its payment was to be.
LEMMA CommitPays ==
    ASSUME Paying, NEW s \in Sessions, Commit(s), session[s].plan.marks # {},
           NEW v \in Vans, v = session[s].row.van, NEW t \in Trips, t \in PaidTrips(v)'
    PROVE  t \in Promised(session[s])
<1> DEFINE now == session[s]
<1>0. Payments /\ Handling /\ Typed /\ PlanRow(now) /\ Holds(now, t)
  BY DEF Paying, Handling
<1>1. trip'[t].van = v /\ Waiting(trip'[t]) /\ trip'[t].pay = "paid" /\ ~past'[t].astray
  BY DEF PaidTrips, PaidUp
<1>2. ~past[t].astray
  BY <1>0, <1>1, CommitPast
<1>3. trip'[t] = TripsAfter(s)[t]
  BY <1>0, CommitIs
<1>4. /\ TripsAfter(s)[t].status = Written(s, t).status /\ TripsAfter(s)[t].van = Written(s, t).van
      /\ t \notin now.plan.marks => TripsAfter(s)[t] = Written(s, t)
  BY <1>0, TripsAfterIs
<1>5. CASE t # now.trip
  <2>1. Written(s, t) = trip[t]
    BY <1>5 DEF Written
  <2>2. trip[t].van = v /\ Waiting(trip[t])
    BY <1>1, <1>3, <1>4, <2>1 DEF Waiting
  <2>3. t \in now.plan.marks \/ trip[t].pay = "paid"
    BY <1>1, <1>3, <1>4, <2>1
  <2> QED BY <1>2, <2>2, <2>3 DEF Promised
<1>6. CASE t = now.trip
  <2>1. now.does = "pay" /\ Has(now, t) /\ now.step = "write"
    BY <1>0, <1>6, MarksIs, TypeFields DEF Typed
  <2>2. now.row = trip[t] /\ Waiting(trip[t])
    BY <1>0, <2>1 DEF Holds
  <2>3. trip[t].van = v
    BY <2>2
  <2>4. t \in now.plan.marks \/ trip[t].pay = "paid"
    <3> SUFFICES ASSUME t \notin now.plan.marks PROVE trip[t].pay = "paid"
      OBVIOUS
    <3>1. trip'[t] = now.plan.row
      BY <1>3, <1>4, <1>6, <2>1 DEF Written
    <3>2. now.plan.row.pay = now.row.pay \/ now.plan.row.pay # "paid"
      BY <1>0, <2>1 DEF PlanRow
    <3> QED BY <1>1, <2>2, <3>1, <3>2
  <2> QED BY <1>2, <2>2, <2>3, <2>4 DEF Promised
<1> QED BY <1>5, <1>6

\* What was paid on the statements after a commit.
LEMMA CommitSettled ==
    ASSUME Typed, NEW s \in Sessions, Commit(s), NEW v \in Vans
    PROVE  /\ account'[v].settled = account[v].settled
                                    + (IF v = session[s].row.van THEN session[s].plan.amount ELSE 0)
           /\ account[v].settled \in Nat /\ session[s].plan.amount \in Nat
<1>1. account[v].settled \in Nat /\ session[s].plan.amount \in Nat
  BY TypeFields DEF Typed
<1>2. account' = AccountsAfter(s)
  BY CommitIs
<1> QED BY <1>1, <1>2 DEF AccountsAfter

LEMMA CommitCovers ==
    ASSUME Paying, NEW s \in Sessions, Commit(s), Typed', NEW v \in Vans
    PROVE  Covered(v)'
<1> DEFINE now == session[s]
           mine == PaidTrips(v)'
<1>0. Payments /\ Typed
  BY DEF Paying, Payments
<1>1. /\ charged \in [Trips -> Seq(Line)] /\ charged' \in [Trips -> Seq(Line)]
      /\ mine \subseteq Trips /\ now \in Session
  <2>1. charged \in [Trips -> Seq(Line)] /\ now \in Session
    BY <1>0, TypeFields DEF Typed
  <2>2. charged' \in [Trips -> Seq(Line)]
    BY DEF Typed, TypeOK
  <2>3. mine \subseteq Trips
    BY DEF PaidTrips
  <2> QED BY <2>1, <2>2, <2>3
<1>2. /\ account'[v].settled = account[v].settled + (IF v = now.row.van THEN now.plan.amount ELSE 0)
      /\ account[v].settled \in Nat /\ now.plan.amount \in Nat
  BY <1>0, CommitSettled
<1>3. CASE v = now.row.van /\ now.plan.marks # {}
  <2> DEFINE all == Coming(charged, now)
  <2>1. all \in [Trips -> Seq(Line)]
    <3>1. Shape(now) /\ now.step = "write" /\ now.trip \in Trips \cup {None} /\ None \notin Trips
      BY <1>0, CommitIs, TypeFields DEF Typed
    <3>2. now.trip \in Trips => Len(now.read) <= Len(now.plan.lines)
      BY <3>1 DEF Shape
    <3> QED BY <1>1, <3>2, ComingType
  <2>2. \A t \in Trips : t \in mine =>
           t \in Promised(now) /\ SharesOn(charged'[t], v, SETTLED) <= SharesOn(all[t], v, SETTLED)
    <3> SUFFICES ASSUME NEW t \in Trips, t \in mine
                 PROVE  /\ t \in Promised(now)
                        /\ SharesOn(charged'[t], v, SETTLED) <= SharesOn(all[t], v, SETTLED)
      OBVIOUS
    <3>1. t \in Promised(now)
      BY <1>3, CommitPays
    <3>2. Alike(charged'[t], all[t])
      BY <1>0, CommitLines
    <3>3. all[t] \in Seq(Line)
      BY <2>1
    <3> HIDE DEF all
    <3>4. SharesOn(charged'[t], v, SETTLED) = SharesOn(all[t], v, SETTLED)
      BY <3>2, AlikeShares
    <3>5. SharesOn(all[t], v, SETTLED) \in Nat
      BY <3>3, LineSums
    <3> QED BY <3>1, <3>4, <3>5
  <2> HIDE DEF all, mine
  <2>3. Claim(charged', mine, v) <= Claim(all, Promised(now), v)
    BY <1>1, <2>1, <2>2, ClaimMore
  <2>4. Claim(charged', mine, v) \in Nat /\ Claim(all, Promised(now), v) \in Nat
    BY <1>1, <2>1, ClaimSums
  <2>5. Claim(all, Promised(now), v) <= account[v].settled + now.plan.amount
    BY <1>3 DEF Paying, Backed, all
  <2>6. Claim(charged', mine, v) <= account'[v].settled
    <3> HIDE DEF now
    <3> QED BY <1>2, <1>3, <2>3, <2>4, <2>5
  <2> QED BY <2>6 DEF Covered, mine
<1>4. CASE ~(v = now.row.van /\ now.plan.marks # {})
  <2>1. \A t \in Trips : t \in mine =>
           t \in PaidTrips(v) /\ SharesOn(charged'[t], v, SETTLED) <= SharesOn(charged[t], v, SETTLED)
    <3> SUFFICES ASSUME NEW t \in Trips, t \in mine
                 PROVE  /\ t \in PaidTrips(v)
                        /\ SharesOn(charged'[t], v, SETTLED) <= SharesOn(charged[t], v, SETTLED)
      OBVIOUS
    <3>1. t \in PaidTrips(v) /\ SharesOn(charged'[t], v, SETTLED) = SharesOn(charged[t], v, SETTLED)
      BY <1>4, CommitPaid
    <3>2. charged[t] \in Seq(Line)
      BY <1>1
    <3>3. SharesOn(charged[t], v, SETTLED) \in Nat
      BY <3>2, LineSums
    <3> QED BY <3>1, <3>3
  <2> HIDE DEF mine
  <2>2. Claim(charged', mine, v) <= Claim(charged, PaidTrips(v), v)
    BY <1>1, <2>1, ClaimMore
  <2>3. Claim(charged', mine, v) \in Nat /\ Claim(charged, PaidTrips(v), v) \in Nat
    BY <1>1, ClaimSums
  <2>4. PaidTrips(v) # {} => Claim(charged, PaidTrips(v), v) <= account[v].settled
    BY DEF Paying, Covered
  <2>5. mine # {} => PaidTrips(v) # {}
    BY <1>1, <2>1
  <2>6. account[v].settled <= account'[v].settled /\ account'[v].settled \in Nat
    <3> HIDE DEF now
    <3> QED BY <1>2
  <2>7. mine # {} => Claim(charged', mine, v) <= account'[v].settled
    BY <1>2, <2>2, <2>3, <2>4, <2>5, <2>6
  <2> QED BY <2>7 DEF Covered, mine
<1> QED BY <1>3, <1>4

\* A commit leaves what another session's payment will cover: neither its
\* trip nor those it marks are on a statement that another has locked.
LEMMA CommitBacked ==
    ASSUME Paying, NEW s \in Sessions, Commit(s), Typed', NEW q \in Sessions
    PROVE  Backed(session[q])'
<1>0. Payments /\ Handling /\ Typed /\ Careful(session[s]) /\ PlanRow(session[s])
  BY DEF Paying, Payments, Handling
<1>1. session' = [session EXCEPT ![s] = Idle] /\ session \in [Sessions -> Session]
  BY <1>0, CommitIs, TypeFields DEF Typed
<1>2. CASE q = s
  <2>1. session'[q] = Idle /\ Idle.plan.marks = {}
    BY <1>1, <1>2, Start0
  <2> QED BY <2>1 DEF Backed
<1>3. CASE q # s
  <2> DEFINE now == session[s]
             mine == session[q]
             w == session[q].row.van
  <2>1. session'[q] = session[q] /\ Backed(mine)
    BY <1>1, <1>3 DEF Paying
  <2> SUFFICES ASSUME mine.plan.marks # {} PROVE Backed(session[q])'
    BY <2>1 DEF Backed
  <2>2. w \in Vans /\ w \in mine.holds
    BY <1>0, MarksIs
  <2>3. w \notin now.holds
    BY <1>0, <1>3, <2>2 DEF Payments, HoldsApart
  <2>4. account'[w].settled = account[w].settled
    <3>1. w = now.row.van => now.plan.amount = 0
      <4>1. now.plan.amount > 0 => now.row.van \in now.holds
        BY <1>0 DEF Payments, Fits
      <4>2. now.plan.amount \in Nat
        BY <1>0, <2>2, CommitSettled
      <4> QED BY <2>3, <4>1, <4>2
    <3>2. /\ account'[w].settled = account[w].settled
                                   + (IF w = now.row.van THEN now.plan.amount ELSE 0)
          /\ account[w].settled \in Nat
      BY <1>0, <2>2, CommitSettled
    <3> HIDE DEF now, w
    <3> QED BY <3>1, <3>2
  <2>5. ASSUME NEW t \in Trips, t \in Promised(mine)'
        PROVE  t # now.trip /\ t \in Promised(mine) /\ trip'[t] = trip[t]
    <3>1. /\ trip'[t].van = w /\ Waiting(trip'[t]) /\ ~past'[t].astray
          /\ t \in mine.plan.marks \/ trip'[t].pay = "paid"
      BY <2>1, <2>5 DEF Promised
    <3>2. ~past[t].astray /\ ~Gone(s, t)
      BY <1>0, <3>1, CommitPast
    <3>3. /\ trip'[t] = TripsAfter(s)[t] /\ now.step = "write" /\ Shape(now)
          /\ now.trip \in Trips \cup {None}
      BY <1>0, CommitIs, TypeFields DEF Typed
    <3>4. /\ TripsAfter(s)[t].status = Written(s, t).status /\ TripsAfter(s)[t].van = Written(s, t).van
          /\ t \notin now.plan.marks => TripsAfter(s)[t] = Written(s, t)
          /\ now.does = "list" => Written(s, t).status = trip[t].status /\ Written(s, t).van = trip[t].van
      <4>1. TripsAfter(s)[t].status = Written(s, t).status /\ TripsAfter(s)[t].van = Written(s, t).van
        BY <1>0, TripsAfterIs
      <4>2. t \notin session[s].plan.marks => TripsAfter(s)[t] = Written(s, t)
        BY <1>0, TripsAfterIs
      <4>3. session[s].does = "list" =>
               Written(s, t).status = trip[t].status /\ Written(s, t).van = trip[t].van
        BY <1>0, TripsAfterIs
      <4> QED BY <4>1, <4>2, <4>3
    <3>5. t # now.trip
      <4> SUFFICES ASSUME t = now.trip PROVE FALSE
        OBVIOUS
      <4>1. now.does # "statement" /\ now.row.van = trip[t].van
            /\ (now.does = "list" => now.row = trip[t])
        BY <3>2, <3>3 DEF Gone, Strays, Shape
      <4>2. now.row.van = w /\ Waiting(now.row)
        <5>1. CASE now.does = "list"
          <6>1. trip'[t].van = trip[t].van /\ trip'[t].status = trip[t].status
            BY <3>3, <3>4, <5>1
          <6> QED BY <3>1, <4>1, <5>1, <6>1 DEF Waiting
        <5>2. CASE now.does # "list"
          <6>1. Written(s, t) = now.plan.row
            BY <5>2 DEF Written
          <6>2. now.plan.row.van = now.row.van /\ now.plan.row.status = now.row.status
            BY <1>0, <3>3, <4>1 DEF PlanRow
          <6>3. trip'[t].van = now.row.van /\ trip'[t].status = now.row.status
            BY <3>3, <3>4, <6>1, <6>2
          <6> QED BY <3>1, <6>3 DEF Waiting
        <5> QED BY <5>1, <5>2
      <4>3. now.row.van # None /\ Live(now.row)
        <5>1. w # None
          BY <2>2 DEF StatementAssumption
        <5> QED BY <4>2, <5>1, StatementAssumption DEF Waiting, Live, BEFORE_DEPARTURE
      <4>4. now.row.van \in now.holds
        BY <1>0, <3>3, <4>1, <4>3 DEF Careful
      <4> QED BY <2>3, <4>2, <4>4
    <3>6. Written(s, t) = trip[t]
      BY <3>5 DEF Written
    <3>7. t \notin now.plan.marks
      <4> SUFFICES ASSUME t \in now.plan.marks PROVE FALSE
        OBVIOUS
      <4>1. trip[t].van = now.row.van
        BY <3>2, <3>5 DEF Gone
      <4>2. trip[t].van = w
        BY <3>1, <3>3, <3>4, <3>6
      <4>3. now.row.van \in now.holds
        BY <1>0, MarksIs
      <4> QED BY <2>3, <4>1, <4>2, <4>3
    <3>8. trip'[t] = trip[t]
      BY <3>3, <3>4, <3>6, <3>7
    <3>9. t \in Promised(mine)
      BY <3>1, <3>2, <3>8 DEF Promised
    <3> QED BY <3>5, <3>8, <3>9
  <2>6. ASSUME NEW t \in Trips, t \in Promised(mine)'
        PROVE  SharesOn(Coming(charged', mine)[t], w, SETTLED)
                  <= SharesOn(Coming(charged, mine)[t], w, SETTLED)
    <3>1. t # now.trip
      BY <2>5, <2>6
    <3>2. Coming(charged, now)[t] = charged[t]
      BY <3>1 DEF Coming
    <3>3. Alike(charged'[t], charged[t])
      BY <1>0, <3>2, CommitLines
    <3>4. mine \in Session /\ mine.read \in Seq(Line) /\ mine.plan.lines \in Seq(Line)
          /\ charged \in [Trips -> Seq(Line)]
      BY <1>0, TypeFields DEF Typed
    <3>5. mine.trip \in Trips => Len(mine.read) <= Len(mine.plan.lines)
      <4>1. Shape(mine) /\ mine.step = "write" /\ (mine.does = "statement" => mine.trip = None)
        BY <1>0, MarksIs DEF Typed
      <4> QED BY <4>1, StatementAssumption DEF Shape
    <3>6. SharesOn(Coming(charged, mine)[t], w, SETTLED) \in Nat
      BY <3>4, <3>5, SharesType
    <3>7. Alike(Coming(charged', mine)[t], Coming(charged, mine)[t])
      <4>1. CASE t = mine.trip
        <5>1. Alike(Merged(charged'[t], mine.read, mine.plan.lines),
                    Merged(charged[t], mine.read, mine.plan.lines))
          BY <3>3, <3>4, <3>5, <4>1, AlikeMerged
        <5> QED BY <4>1, <5>1 DEF Coming
      <4>2. CASE t # mine.trip
        BY <3>3, <4>2 DEF Coming
      <4> QED BY <4>1, <4>2
    <3>8. SharesOn(Coming(charged', mine)[t], w, SETTLED) = SharesOn(Coming(charged, mine)[t], w, SETTLED)
      BY <3>7, AlikeShares
    <3> QED BY <3>6, <3>8
  <2> QED BY <2>1, <2>4, <2>5, <2>6, BackedKept
<1> QED BY <1>2, <1>3

LEMMA CommitPaying ==
    ASSUME Paying, NEW s \in Sessions, Commit(s), Payments', Handling'
    PROVE  Paying'
<1>1. Typed'
  BY DEF Payments
<1>2. \A q \in Sessions : Careful(session[q])'
  BY CommitCareful
<1>3. \A q \in Sessions : Backed(session[q])'
  BY <1>1, CommitBacked
<1>4. \A v \in Vans : Covered(v)'
  BY <1>1, CommitCovers
<1> QED BY <1>2, <1>3, <1>4 DEF Paying

LEMMA NextPaying ==
    ASSUME Paying, [Next]_vars
    PROVE  Paying'
<1>1. Payments' /\ Handling' /\ Typed
  BY NextPayments, NextHandling DEF Paying, Payments
<1>2. CASE UNCHANGED vars
  BY <1>1, <1>2 DEF vars, Paying, Careful, Has, Backed, Coming, Promised, Covered, PaidTrips, PaidUp
<1>3. CASE Next
  <2>1. ASSUME NEW s \in Sessions, Looks(s) \/ CommitMark(s) \/ CommitCancel(s) PROVE Paying'
    BY <1>1, <2>1, DeskPaying
  <2>2. ASSUME NEW s \in Sessions, NEW t \in Trips, NEW does \in DOES, NEW row \in Row,
               NEW holds \in SUBSET Vans, NEW plan \in Plan, Reads(s, t, does, row, holds, plan)
        PROVE  Paying'
    BY <1>1, <2>2, ReadsPaying
  <2>3. ASSUME NEW s \in Sessions, Sync(s) PROVE Paying'
    BY <1>1, <2>3, SyncPaying
  <2>4. ASSUME NEW s \in Sessions, NEW v \in Vans, PayStatement(s, v) PROVE Paying'
    BY <1>1, <2>4, PayStatementPaying
  <2>5. ASSUME NEW s \in Sessions, Commit(s) PROVE Paying'
    BY <1>1, <2>5, CommitPaying
  <2>6. ASSUME NEW t \in Trips, NEW row \in Row, Writes(t, row) PROVE Paying'
    BY <1>1, <2>6, WritesPaying
  <2>7. ASSUME NEW v \in Vans, ChargeParking(v) PROVE Paying'
    BY <1>1, <2>7, ParkingPaying
  <2>8. ASSUME NEW t \in Trips, NEW i \in DOMAIN charged[t], Raise(t, i) PROVE Paying'
    BY <1>1, <2>8, RaisePaying
  <2>9. ASSUME NEW t \in Trips, NEW i \in DOMAIN charged[t], Settles(t, i) PROVE Paying'
    BY <1>1, <2>9, SettlePaying DEF Settles
  <2> QED BY <1>1, <1>3, <2>1, <2>2, <2>3, <2>4, <2>5, <2>6, <2>7, <2>8, <2>9, Cases
<1> QED BY <1>2, <1>3

\* Paid never stands beside a balance: when every trip with fees on a
\* statement is paid and waits to leave, nothing undisputed is due on it.
\* Not covered: a trip whose van changed since it was paid, or that was synced
\* from a row or lines read before a change; a total written without its lock
\* that came out too high.
THEOREM PaidIsPaid == Spec => []PaidOwesNothing
<1>1. Init => Paying
  BY InitPaying
<1>2. Paying /\ [Next]_vars => Paying'
  BY NextPaying
<1>3. Paying => PaidOwesNothing
  BY PaidIs
<1> QED BY <1>1, <1>2, <1>3, PTL DEF Spec
====
