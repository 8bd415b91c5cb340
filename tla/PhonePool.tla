------------------------------- MODULE PhonePool -------------------------------
(***************************************************************************)
(* The terminal's phones and their check-outs (api/v1/devices.py).  A pool *)
(* is                                                                      *)
(*   [phones : id -> [status, token],    token is None once retired        *)
(*    out    : id -> van, or None]       the open check-out of each phone  *)
(* A call reads the phone's row without a lock, decides, and commits: it   *)
(* writes the columns it changed from what it had read, and nothing else.  *)
(* So a call is what it reads (Refused, After) and its commit, which a     *)
(* check may put at different moments.                                     *)
(***************************************************************************)
EXTENDS Integers, TLC

CONSTANT None

InOffice(token) == [status |-> "in_office", token |-> token]

AddDevice(pool, d, token) ==
  [phones |-> (d :> InOffice(token)) @@ pool.phones, out |-> (d :> None) @@ pool.out]

VanHasPhone(pool, v) == \E d \in DOMAIN pool.out : pool.out[d] = v

\* A call is [kind, phone, van, token]; the last two where the kind has them.
\* What each refuses when it reads the phone; a van that has a phone out is
\* looked up as well.
Refused(pool, call) ==
  LET status == pool.phones[call.phone].status IN
  CASE call.kind = "reissue" -> status = "retired"
    [] call.kind = "check_out" -> status # "in_office" \/ VanHasPhone(pool, call.van)
    [] call.kind = "retire" -> status = "checked_out"
    [] call.kind = "return" -> FALSE

\* The phone's row as the call leaves it.
After(row, call) ==
  CASE call.kind = "reissue" -> [row EXCEPT !.token = call.token]
    [] call.kind = "check_out" -> [row EXCEPT !.status = "checked_out"]
    [] call.kind = "retire" -> [status |-> "retired", token |-> None]
    [] call.kind = "return" -> [row EXCEPT !.status = "in_office"]

\* UPDATE of the columns that differ from the row as it was read.
Written(row, before, after) ==
  [c \in DOMAIN row |-> IF after[c] = before[c] THEN row[c] ELSE after[c]]

WithRow(pool, call, before) ==
  [pool EXCEPT !.phones[call.phone] = Written(@, before, After(before, call))]

\* A check-out meets the two unique indexes of open check-outs; a return locks
\* the open check-out, as it is by then, and refuses when there is none.
Commit(pool, call, before) ==
  LET d == call.phone
      next == WithRow(pool, call, before)
  IN CASE call.kind = "check_out" ->
            IF pool.out[d] # None \/ VanHasPhone(pool, call.van) THEN pool
            ELSE [next EXCEPT !.out[d] = call.van]
       [] call.kind = "return" ->
            IF pool.out[d] = None THEN pool ELSE [next EXCEPT !.out[d] = None]
       [] OTHER -> next

\* The whole call at once.
Done(pool, call) ==
  IF Refused(pool, call) THEN pool ELSE Commit(pool, call, pool.phones[call.phone])
=============================================================================
