-------------------------------- MODULE Roster --------------------------------
(***************************************************************************)
(* The cooperative's records: operators, vans and Dispatchers with their   *)
(* validation (api/v1/fleet.py), the import of the roster from a file      *)
(* (application/roster/importing.py) and the accounts                      *)
(* (application/identity).  Rows are read without a lock and a commit      *)
(* writes the columns it changed.  Who may call what is not repeated here. *)
(***************************************************************************)
EXTENDS Integers, Sequences, FiniteSets

CONSTANTS
    None,     \* NULL, or a cell that cannot be read
    Sides     \* names of the columns of a van's photographs, {} for a person

\* ----------------------------------------------------------- validation
\* A record as a row of columns: what it says, the decision on it and who took
\* it, who imported it, and a van's photographs.
Pending(data, importer) ==
  [c \in {"data", "status", "by", "importer"} \cup Sides |->
     CASE c = "data" -> data [] c = "status" -> "pending"
       [] c = "importer" -> importer [] OTHER -> None]

\* Whoever imported a record does not validate it; a van has all its photographs.
DecideRefused(row, status, user) ==
  status = "validated" /\ (row["importer"] = user \/ \E s \in Sides : row[s] = None)

Decide(row, status, user) ==
  [row EXCEPT !["status"] = status, !["by"] = IF status = "pending" THEN None ELSE user]

Reopen(row) ==
  IF row["status"] = "validated" THEN [row EXCEPT !["status"] = "pending", !["by"] = None]
  ELSE row

\* Only a real change opens the record again.
Edit(row, data) == IF row["data"] = data THEN row ELSE Reopen([row EXCEPT !["data"] = data])

\* The file is stored before the commit, the old one deleted after it.
Photograph(row, side, file) == Reopen([row EXCEPT ![side] = file])
Stored(files, file) == files \cup {file}
Replaced(files, before, side) == files \ {before[side]}

\* UPDATE of the columns that differ from the row as it was read.
Written(row, before, after) ==
  [c \in DOMAIN row |-> IF after[c] = before[c] THEN row[c] ELSE after[c]]

\* --------------------------------------------------- operators and vans
\* A roster is [operators : set of [contact, licence],
\*              vans : set of [plate, licence]], the licence the operator's.
OperatorRefused(roster, o) ==
  \E p \in roster.operators : p.contact = o.contact \/ p.licence = o.licence

AddOperator(roster, o) == [roster EXCEPT !.operators = @ \cup {o}]

VanRefused(roster, v) ==
  \/ v.licence \notin {o.licence : o \in roster.operators}
  \/ \E w \in roster.vans : w.plate = v.plate \/ w.licence = v.licence

AddVan(roster, v) == [roster EXCEPT !.vans = @ \cup {v}]

\* A record that is changed does not clash with itself, and a van goes with
\* its operator's row, whatever the licence becomes.
ChangeOperatorRefused(roster, o, new) ==
  OperatorRefused([roster EXCEPT !.operators = @ \ {o}], new)

ChangeOperator(roster, o, new) ==
  [operators |-> (roster.operators \ {o}) \cup {new},
   vans |-> {[v EXCEPT !.licence = IF @ = o.licence THEN new.licence ELSE @] : v \in roster.vans}]

ChangeVanRefused(roster, v, new) == VanRefused([roster EXCEPT !.vans = @ \ {v}], new)
ChangeVan(roster, v, new) == [roster EXCEPT !.vans = (@ \ {v}) \cup {new}]

\* ----------------------------------------------------------- the import
\* A row of the file is the record's keys, None where a key cannot be read,
\* and whether its other cells can.
Earlier(rows, i, column) ==
  rows[i][column] \in {rows[j][column] : j \in 1..(i - 1)} \ {None}

OperatorPasses(roster, rows, i) ==
  LET r == rows[i] IN
  /\ r.readable /\ r.contact # None /\ r.licence # None
  /\ ~OperatorRefused(roster, r)
  /\ ~Earlier(rows, i, "contact") /\ ~Earlier(rows, i, "licence")

VanPasses(roster, rows, i) ==
  LET r == rows[i] IN
  /\ r.readable /\ r.plate # None /\ r.licence # None
  /\ ~VanRefused(roster, r)
  /\ ~Earlier(rows, i, "plate") /\ ~Earlier(rows, i, "licence")

\* check_rows and commit: the passing rows are saved, the others come back as
\* a file.
PassingOperators(roster, rows) == {i \in DOMAIN rows : OperatorPasses(roster, rows, i)}
PassingVans(roster, rows) == {i \in DOMAIN rows : VanPasses(roster, rows, i)}

ImportOperators(roster, rows) ==
  [roster EXCEPT !.operators = @ \cup {[contact |-> rows[i].contact, licence |-> rows[i].licence] :
                                         i \in PassingOperators(roster, rows)}]

ImportVans(roster, rows) ==
  [roster EXCEPT !.vans = @ \cup {[plate |-> rows[i].plate, licence |-> rows[i].licence] :
                                    i \in PassingVans(roster, rows)}]

\* ------------------------------------------------------------- accounts
\* The address and the number are looked up together, for one account at most.
SignUp(users, email, phone) ==
  LET holders == {u \in users : u.email = email \/ u.phone = phone} IN
  CASE holders = {} -> "created"
    [] Cardinality(holders) = 1 -> "taken"
    [] OTHER -> "error"

Accounts(users, email, phone) ==
  IF SignUp(users, email, phone) = "created"
  THEN users \cup {[email |-> email, phone |-> phone]} ELSE users

ChangeNumber(users, user, phone) ==
  IF \E u \in users \ {user} : u.phone = phone THEN users
  ELSE (users \ {user}) \cup {[user EXCEPT !.phone = phone]}
=============================================================================
