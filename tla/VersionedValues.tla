---------------------------- MODULE VersionedValues ----------------------------
(***************************************************************************)
(* The values the office changes while trips run: a policy and a fare keep *)
(* every value they have held, and the one in force is the latest row that *)
(* has taken effect (policy_repository.py, fare_repository.py, the policy  *)
(* and fare endpoints of api/v1/config.py).                                *)
(*   policy row  [key, from, value, by]      value = Unset for an empty one*)
(*   fare row    [a, b, on, amount]          from stop a to stop b         *)
(***************************************************************************)
EXTENDS Integers, Sequences, FiniteSets, SequencesExt

CONSTANTS
  Unset,        \* the empty value
  Invalid,      \* a text that is no number
  MayBeUnset,   \* the keys that may be empty
  Low, High     \* the bounds of each key

\* ------------------------------------------------------------ policies
Newest(rows) == CHOOSE r \in rows : \A q \in rows : q.from <= r.from
Effective(rows, key, at) == {r \in rows : r.key = key /\ r.from <= at}

\* The set of the row in force, empty when the key has none.
Current(rows, key, at) ==
  LET past == Effective(rows, key, at) IN
  IF past = {} THEN {} ELSE {Newest(past)}

CurrentRows(rows, at) ==
  LET latest(key) == {r.from : r \in Effective(rows, key, at)} IN
  {r \in rows : r.from <= at /\ \A f \in latest(r.key) : f <= r.from}

History(rows, key) ==
  SortSeq(SetToSeq({r \in rows : r.key = key}), LAMBDA p, q : p.from > q.from)

\* What check_policy_value lets through.
ValidValue(key, value) ==
  IF value = Unset THEN key \in MayBeUnset
  ELSE value # Invalid /\ Low[key] <= value /\ value <= High[key]

(* The call, as the row it adds: none when the value is in force already.  *)
(* Two rows of a key cannot have the same time.                            *)
SetRefused(rows, key, value, at) ==
  Current(rows, key, at) = {} \/ ~ValidValue(key, value)

RowToAdd(seen, key, value, at, by) ==
  IF \E r \in Current(seen, key, at) : r.value = value THEN {}
  ELSE {[key |-> key, from |-> at, value |-> value, by |-> by]}

Added(rows, new) ==
  IF \E r \in rows, n \in new : r.key = n.key /\ r.from = n.from THEN rows
  ELSE rows \cup new

SetPolicy(rows, key, value, at, by) ==
  IF SetRefused(rows, key, value, at) THEN rows
  ELSE Added(rows, RowToAdd(rows, key, value, at, by))

\* A number that waits on the site survey: whatever reads it does nothing.
OptionalInt(rows, key, at) == {r.value : r \in Current(rows, key, at)} \ {Unset}

\* ---------------------------------------------------------------- fares
Pairs(rows) == {<<r.a, r.b>> : r \in rows}
Dated(rows, pair, day) == {r \in rows : <<r.a, r.b>> = pair /\ r.on <= day}
LatestFare(rows) == CHOOSE r \in rows : \A q \in rows : q.on <= r.on

(* The whole matrix, as search shows it: the newest row of every pair.     *)
InForce(rows, day) ==
  LET past == {r \in rows : r.on <= day} IN
  [pair \in Pairs(past) |-> LatestFare(Dated(past, pair, day)).amount]

\* One pair, as the charge asks for it; the empty set for no fare.
Fare(rows, pair, day) ==
  LET past == Dated(rows, pair, day) IN
  IF past = {} THEN {} ELSE {LatestFare(past).amount}

(* set_fares: what is given replaces the rows of the same pair and day,    *)
(* never one dated before today.                                           *)
FaresRefused(given, stops, today) ==
  \/ \E i \in DOMAIN given : given[i].b <= given[i].a \/ given[i].b > stops
                             \/ given[i].on < today
  \/ \E i, j \in DOMAIN given : i # j
       /\ given[i].a = given[j].a /\ given[i].b = given[j].b /\ given[i].on = given[j].on

SetFares(rows, given, stops, today) ==
  IF FaresRefused(given, stops, today) THEN rows
  ELSE LET new == {given[i] : i \in DOMAIN given}
           same(r, n) == r.a = n.a /\ r.b = n.b /\ r.on = n.on
       IN {r \in rows : ~ \E n \in new : same(r, n)} \cup new

\* What the list says of a row today.
Status(rows, row, today) ==
  LET past == Dated(rows, <<row.a, row.b>>, today) IN
  IF row.on > today THEN "scheduled"
  ELSE IF row = LatestFare(past) THEN "in_force" ELSE "replaced"
=============================================================================
