------------------------- MODULE VersionedValuesChecks -------------------------
(***************************************************************************)
(* Every small history of two policy keys and of the fares of two pairs.   *)
(***************************************************************************)
EXTENDS Integers, Sequences, FiniteSets, SequencesExt, Functions

Unset == -1
Invalid == -2
Keys == {"gap", "radius"}
V == INSTANCE VersionedValues WITH
       MayBeUnset <- {"radius"}, Low <- [k \in Keys |-> 1], High <- [k \in Keys |-> 3]

PolicyRow(k, t, v) == [key |-> k, from |-> t, value |-> v, by |-> "tm"]
\* Two keys set at time 0, and calls of two managers at the times 1 to 3.
Settings == {PolicyRow("gap", 0, 1), PolicyRow("radius", 0, Unset)}
Values == {Unset, Invalid, 0, 1, 2, 4}
Calls == [key : Keys, value : Values]
After(calls) ==
  FoldLeft(LAMBDA rows, i : V!SetPolicy(rows, calls[i].key, calls[i].value, i, "tm"),
           Settings, [i \in DOMAIN calls |-> i])

(* Whatever is set, every key has one value in force at every moment, a    *)
(* permitted one, the list of all keys and the lookup of one agree, and    *)
(* what was in force before a change was made is what history says of it   *)
(* (current_rows, current, set).                                           *)
ASSUME OneValueInForce ==
  \A calls \in [1..3 -> Calls] :
    LET rows == After(calls) IN
    /\ \A at \in 0..4, k \in Keys :
         /\ Cardinality(V!Current(rows, k, at)) = 1
         /\ V!Current(rows, k, at) = {r \in V!CurrentRows(rows, at) : r.key = k}
         /\ \A r \in V!Current(rows, k, at) : V!ValidValue(k, r.value)
    /\ \A n \in 0..3, k \in Keys :
         V!Current(After(SubSeq(calls, 1, n)), k, n) = V!Current(rows, k, n)

(* History records changes, not saves: no two neighbours of a key's        *)
(* history hold the same value, newest first (set, history).               *)
ASSUME HistoryRecordsChanges ==
  \A calls \in [1..3 -> Calls], k \in Keys :
    LET h == V!History(After(calls), k) IN
    \A i \in 1..(Len(h) - 1) : /\ h[i].from > h[i + 1].from
                               /\ h[i].value # h[i + 1].value

(* Two managers who set the same value at once both read the old one: the  *)
(* history then holds it twice.                                            *)
ASSUME SavedTwiceAtOnce ==
  LET one == V!RowToAdd(Settings, "gap", 2, 1, "tm")
      two == V!RowToAdd(Settings, "gap", 2, 2, "admin")
      h == V!History(V!Added(V!Added(Settings, one), two), "gap")
  IN h[1].value = h[2].value

Days == 0..4
FareRow(p, on, amount) == [a |-> p[1], b |-> p[2], on |-> on, amount |-> amount]
Given == {FareRow(p, on, amount) : p \in {<<1, 2>>, <<1, 3>>, <<2, 2>>, <<1, 4>>},
                                   on \in 1..3, amount \in {50, 60}}
Old == {FareRow(<<1, 2>>, 0, 40), FareRow(<<1, 3>>, 3, 70)}
Batches == {<<f, g>> : f, g \in Given} \cup {<<f>> : f \in Given}

(* Search, the walk-up preview and the charge quote one fare: the matrix   *)
(* and the single lookup agree on every day, and the row the list calls in *)
(* force is the one they use (in_force, fare, list_fares).                 *)
ASSUME QuotedFareIsCharged ==
  \A batch \in Batches, today \in 1..2 :
    LET rows == V!SetFares(Old, batch, 3, today) IN
    \A day \in Days :
      /\ \A p \in V!Pairs(rows) :
           V!Fare(rows, p, day) = {V!InForce(rows, day)[q] :
                                     q \in {p} \cap DOMAIN V!InForce(rows, day)}
      /\ \A p \in V!Pairs(rows) :
           {r.amount : r \in {s \in rows : /\ <<s.a, s.b>> = p
                                           /\ V!Status(rows, s, day) = "in_force"}}
             = V!Fare(rows, p, day)

(* A trip keeps the fare of its own day: fares set today change no day     *)
(* before it, and setting them again changes nothing (set_fares).          *)
ASSUME PastFaresNeverChange ==
  \A batch \in Batches, today \in 1..2 :
    LET rows == V!SetFares(Old, batch, 3, today) IN
    /\ \A day \in Days, p \in V!Pairs(rows) :
         day < today => V!Fare(rows, p, day) = V!Fare(Old, p, day)
    /\ V!SetFares(rows, batch, 3, today) = rows
    /\ \A r, s \in rows : r.a = s.a /\ r.b = s.b /\ r.on = s.on => r = s
    /\ \A r \in rows : r.a < r.b /\ r.b <= 3
=============================================================================
