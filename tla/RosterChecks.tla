----------------------------- MODULE RosterChecks -----------------------------
(***************************************************************************)
(* Records that a few calls can make, one after another and two at once;   *)
(* small rosters and every file of two rows.                               *)
(***************************************************************************)
EXTENDS Integers, Sequences, FiniteSets, SequencesExt

AsPerson == INSTANCE Roster WITH None <- "none", Sides <- {}
AsVan == INSTANCE Roster WITH None <- "none", Sides <- {"front", "rear"}

\* ----------------------------------------------------------- validation
Managers == {"m1", "m2"}
Decisions == {"pending", "validated", "rejected"}

VanCalls == [kind : {"decide"}, status : Decisions, user : Managers]
            \cup [kind : {"edit"}, data : {1, 2}]
            \cup [kind : {"photo"}, side : {"front", "rear"}, file : {"a", "b"}]

CallRefused(row, c) == c.kind = "decide" /\ AsVan!DecideRefused(row, c.status, c.user)

CallAfter(row, c) ==
  CASE c.kind = "decide" -> AsVan!Decide(row, c.status, c.user)
    [] c.kind = "edit" -> AsVan!Edit(row, c.data)
    [] c.kind = "photo" -> AsVan!Photograph(row, c.side, c.file)

\* With the row, what it said when it was last validated.
LookOf(row) == [data |-> row["data"], front |-> row["front"], rear |-> row["rear"]]

CalledRow(known, c) ==
  [row |-> CallAfter(known.row, c),
   look |-> IF c.kind = "decide" /\ c.status = "validated"
            THEN LookOf(known.row) ELSE known.look]

NewRecord(importer) ==
  [row |-> AsVan!Pending(1, importer), look |-> LookOf(AsVan!Pending(1, importer))]

KnownRecords[n \in 0..5] ==
  IF n = 0 THEN {NewRecord(i) : i \in {"none", "m1"}}
  ELSE KnownRecords[n - 1] \cup
       {CalledRow(k[1], k[2]) :
          k \in {<<r, c>> \in KnownRecords[n - 1] \X VanCalls : ~CallRefused(r.row, c)}}

(* One call after the other, a validated record is the one that somebody   *)
(* who did not import it validated, with every photograph, and a record    *)
(* that waits names nobody who decided on it (_decide, _reopen,            *)
(* update_van, upload_van_photo).                                          *)
ASSUME ValidatedAsSeen ==
  \A k \in KnownRecords[5] :
    LET row == k.row IN
    /\ row["status"] = "validated" =>
         /\ LookOf(row) = k.look
         /\ row["by"] # row["importer"]
         /\ "none" \notin {row["front"], row["rear"]}
    /\ row["status"] = "pending" <=> row["by"] = "none"

\* Both read the row, then commit in either order.
BothCommit(row, c, d) ==
  AsVan!Written(AsVan!Written(row, row, CallAfter(row, c)), row, CallAfter(row, d))

AtOnce(row) ==
  {p \in VanCalls \X VanCalls : ~CallRefused(row, p[1]) /\ ~CallRefused(row, p[2])}

(* However two calls overlap, no van is validated with a photograph        *)
(* missing, and one of them validated it or it was validated before.       *)
ASSUME ValidatedWithPhotographs ==
  \A k \in KnownRecords[4] : \A p \in AtOnce(k.row) :
    LET row == BothCommit(k.row, p[1], p[2]) IN
    row["status"] = "validated" =>
      /\ "none" \notin {row["front"], row["rear"]}
      /\ \/ k.row["status"] = "validated"
         \/ \E c \in {p[1], p[2]} : c.kind = "decide" /\ c.status = "validated"

CompleteVan ==
  AsVan!Photograph(AsVan!Photograph(AsVan!Pending(1, "none"), "front", "a"), "rear", "a")
Validated1 == AsVan!Decide(CompleteVan, "validated", "m1")
Validates(user) == [kind |-> "decide", status |-> "validated", user |-> user]
ChangesData == [kind |-> "edit", data |-> 2]

Rejects(user) == [kind |-> "decide", status |-> "rejected", user |-> user]

(* Two decisions at once on a rejected record: the one that validates      *)
(* writes the status, the one that rejects again writes its name, and the  *)
(* record says that it was validated by the member who imported it.        *)
ASSUME ValidatedInTheNameOfTheImporter ==
  LET rejected == AsVan!Decide([CompleteVan EXCEPT !["importer"] = "m1"], "rejected", "m2")
      row == BothCommit(rejected, Validates("m2"), Rejects("m1"))
  IN /\ ~AsVan!DecideRefused(rejected, "validated", "m2")
     /\ AsVan!DecideRefused(rejected, "validated", "m1")
     /\ row["status"] = "validated" /\ row["by"] = "m1"

(* A change that overlaps the validation is validated unseen: its handler  *)
(* read a record that waited, and has nothing to open again.               *)
ASSUME ValidatedUnseen ==
  LET row == BothCommit(CompleteVan, Validates("m1"), ChangesData) IN
  row["status"] = "validated" /\ row["data"] = 2

(* A validated record that somebody validates again while it is changed    *)
(* waits, and says who decided on it.                                      *)
ASSUME WaitsWithADecision ==
  LET row == BothCommit(Validated1, ChangesData, Validates("m2")) IN
  row["status"] = "pending" /\ row["by"] = "m2"

TwoSides == [CompleteVan EXCEPT !["rear"] = "b"]

(* Two uploads, however they overlap, leave a record that names files that *)
(* are there: a file is deleted only after another name was written over   *)
(* it.  Of two uploads of one side one file stays behind, named by nothing *)
(* (upload_van_photo).                                                     *)
ASSUME PhotographsAreThere ==
  \A s, t \in {"front", "rear"} :
    LET x == AsVan!Photograph(TwoSides, s, "x")
        y == AsVan!Photograph(TwoSides, t, "y")
        row == AsVan!Written(AsVan!Written(TwoSides, TwoSides, x), TwoSides, y)
        stored == AsVan!Stored(AsVan!Stored({"a", "b"}, "x"), "y")
        files == AsVan!Replaced(AsVan!Replaced(stored, TwoSides, s), TwoSides, t)
        named == {row["front"], row["rear"]}
    IN named \subseteq files /\ (s = t <=> files \ named = {"x"})

\* ----------------------------------------------------------- the import
Contacts == {"c1", "c2"}
Licences == {"l1", "l2"}
Plates == {"p1", "p2"}
OperatorEntries == [contact : Contacts, licence : Licences]
VanEntries == [plate : Plates, licence : Licences]
OneKey(roster) ==
  /\ \A o, p \in roster.operators : o # p => o.contact # p.contact /\ o.licence # p.licence
  /\ \A v, w \in roster.vans : v # w => v.plate # w.plate /\ v.licence # w.licence
  /\ \A v \in roster.vans : \E o \in roster.operators : o.licence = v.licence

HandEdits(r) ==
  {AsPerson!AddOperator(r, o) : o \in {p \in OperatorEntries : ~AsPerson!OperatorRefused(r, p)}}
  \cup {AsPerson!AddVan(r, v) : v \in {w \in VanEntries : ~AsPerson!VanRefused(r, w)}}
  \cup {AsPerson!ChangeOperator(r, e[1], e[2]) :
          e \in {f \in r.operators \X OperatorEntries : ~AsPerson!ChangeOperatorRefused(r, f[1], f[2])}}
  \cup {AsPerson!ChangeVan(r, e[1], e[2]) :
          e \in {f \in r.vans \X VanEntries : ~AsPerson!ChangeVanRefused(r, f[1], f[2])}}
Rosters[n \in 0..4] ==
  IF n = 0 THEN {[operators |-> {}, vans |-> {}]}
  ELSE Rosters[n - 1] \cup UNION {HandEdits(r) : r \in Rosters[n - 1]}

OperatorRows == [contact : Contacts \cup {"none"}, licence : Licences \cup {"none"},
                 readable : BOOLEAN]
VanRows == [plate : Plates \cup {"none"}, licence : Licences \cup {"none"}, readable : BOOLEAN]
FilesOf(rows) == [1..2 -> rows]
RejectedRows(rows, passing) == LET kept == SetToSortSeq(DOMAIN rows \ passing, <)
                           IN [k \in DOMAIN kept |-> rows[kept[k]]]

(* By hand or from a file, one after another, no two operators share a     *)
(* number or a licence, no two vans a plate, an operator has one van, and  *)
(* a record never clashes with itself (_operator_clash, _check_van_refs,   *)
(* check_rows).                                                            *)
ASSUME KeysStayUnique ==
  \A r \in Rosters[4] :
    /\ OneKey(r)
    /\ \A o \in r.operators : ~AsPerson!ChangeOperatorRefused(r, o, o)
    /\ \A v \in r.vans : ~AsPerson!ChangeVanRefused(r, v, v)
    /\ \A rows \in FilesOf(OperatorRows) : OneKey(AsPerson!ImportOperators(r, rows))
    /\ \A rows \in FilesOf(VanRows) : OneKey(AsPerson!ImportVans(r, rows))

(* A file that was imported adds nothing the second time, and neither does *)
(* the file of its rejected rows, uploaded as it is (check_rows, commit).  *)
ASSUME ImportedOnce ==
  \A r \in Rosters[4] :
    /\ \A rows \in FilesOf(OperatorRows) :
         LET once == AsPerson!ImportOperators(r, rows) IN
         /\ AsPerson!ImportOperators(once, rows) = once
         /\ AsPerson!ImportOperators(once,
              RejectedRows(rows, AsPerson!PassingOperators(r, rows))) = once
    /\ \A rows \in FilesOf(VanRows) :
         LET once == AsPerson!ImportVans(r, rows) IN
         /\ AsPerson!ImportVans(once, rows) = once
         /\ AsPerson!ImportVans(once, RejectedRows(rows, AsPerson!PassingVans(r, rows))) = once

(* A row is refused for its own sake or for a row above it: with no key    *)
(* twice in the file, a readable row is imported exactly when it could be  *)
(* added by hand.                                                          *)
ASSUME ImportedAsByHand ==
  \A r \in Rosters[4] : \A rows \in FilesOf(VanRows) :
    (rows[1].plate # rows[2].plate /\ rows[1].licence # rows[2].licence) =>
      \A i \in 1..2 :
        (i \in AsPerson!PassingVans(r, rows)) <=>
          /\ rows[i].readable /\ rows[i].plate # "none"
          /\ ~AsPerson!VanRefused(r, rows[i])

\* ------------------------------------------------------------- accounts
Emails == {"e1", "e2"}
AccountSets[n \in 0..4] ==
  IF n = 0 THEN {{}}
  ELSE AccountSets[n - 1] \cup
       UNION {{AsPerson!Accounts(u, e, p) : e \in Emails, p \in Contacts}
              \cup {AsPerson!ChangeNumber(u, x, p) : x \in u, p \in Contacts} :
                u \in AccountSets[n - 1]}

(* No two accounts share an address or a number, and the answer says why   *)
(* an account was not made - but for two accounts that hold one each,      *)
(* where the lookup of one account fails (RegisterPassengerUseCase,        *)
(* create_staff).                                                          *)
ASSUME AccountsApart ==
  /\ \A u \in AccountSets[4] : \A x, y \in u : x # y => x.email # y.email /\ x.phone # y.phone
  /\ \A u \in AccountSets[4], e \in Emails, p \in Contacts :
       AsPerson!SignUp(u, e, p) = "error" <=>
         \E x, y \in u : x # y /\ x.email = e /\ y.phone = p
  /\ \E u \in AccountSets[4] : AsPerson!SignUp(u, "e1", "c2") = "error"
=============================================================================
