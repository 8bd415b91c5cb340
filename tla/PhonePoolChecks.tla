---------------------------- MODULE PhonePoolChecks ----------------------------
(***************************************************************************)
(* Every pool that a few calls can make of two phones and two vans, and    *)
(* every two calls that overlap.                                           *)
(***************************************************************************)
EXTENDS Integers, TLC

PoolOf == INSTANCE PhonePool WITH None <- "none"

PhonesNow == PoolOf!AddDevice(PoolOf!AddDevice([phones |-> <<>>, out |-> <<>>], 1, "a"), 2, "b")

PhoneCalls ==
  [kind : {"check_out"}, phone : 1..2, van : {"v", "w"}, token : {"c"}]
  \cup [kind : {"return", "retire", "reissue"}, phone : 1..2, van : {"v"}, token : {"c"}]

Pools[n \in 0..4] ==
  IF n = 0 THEN {PhonesNow}
  ELSE Pools[n - 1] \cup {PoolOf!Done(p, c) : p \in Pools[n - 1], c \in PhoneCalls}

\* The row says where the phone is, and only a retired phone has no token.
InOrder(pool) ==
  \A d \in DOMAIN pool.phones :
    LET row == pool.phones[d] IN
    /\ row.status = "checked_out" <=> pool.out[d] # "none"
    /\ row.status = "retired" <=> row.token = "none"

OnePhoneEach(pool) ==
  \A d, e \in DOMAIN pool.out : d # e /\ pool.out[d] = pool.out[e] => pool.out[d] = "none"

(* One call after the other, a phone is checked out exactly while it has   *)
(* an open check-out, a van has one phone, and a phone keeps a token until *)
(* it is retired and none after (check_out, check_in, retire,              *)
(* reissue_token).                                                         *)
ASSUME PoolStaysInOrder == \A p \in Pools[4] : InOrder(p) /\ OnePhoneEach(p)

\* Both read the pool, then commit in either order.
Overlapped(pool, c, d) ==
  PoolOf!Commit(PoolOf!Commit(pool, c, pool.phones[c.phone]), d, pool.phones[d.phone])

OverlappingCalls(pool) ==
  {p \in PhoneCalls \X PhoneCalls : ~PoolOf!Refused(pool, p[1]) /\ ~PoolOf!Refused(pool, p[2])}

(* However two calls overlap, no van gets a second phone and no phone      *)
(* goes out twice: the unique indexes refuse the later one.                *)
ASSUME OneCheckOutAnyhow ==
  \A pool \in Pools[3] : \A p \in OverlappingCalls(pool) :
    OnePhoneEach(Overlapped(pool, p[1], p[2]))

(* What two overlapping calls can break is exactly this.  A phone retired  *)
(* while it is checked out is in a van with no token, and its return puts  *)
(* it back among the phones of the office; one retired while it is given a *)
(* new token keeps that token; one returned by a call that read it before  *)
(* it was checked out stays checked out with no check-out to close.        *)
ASSUME OverlapsThatBreak ==
  {<<p[1].kind, p[2].kind>> :
     p \in UNION {{q \in OverlappingCalls(pool) : ~InOrder(Overlapped(pool, q[1], q[2]))} :
                    pool \in Pools[3]}}
  = {<<"check_out", "retire">>, <<"retire", "check_out">>,
     <<"retire", "reissue">>, <<"check_out", "return">>}

RetiredUnderWay ==
  Overlapped(PhonesNow, [kind |-> "check_out", phone |-> 1, van |-> "v", token |-> "c"],
             [kind |-> "retire", phone |-> 1, van |-> "v", token |-> "c"])

ASSUME RetiredPhoneComesBack ==
  PoolOf!Done(RetiredUnderWay, [kind |-> "return", phone |-> 1, van |-> "v", token |-> "c"]).phones[1]
  = [status |-> "in_office", token |-> "none"]

StuckOut ==
  Overlapped(PhonesNow, [kind |-> "check_out", phone |-> 1, van |-> "v", token |-> "c"],
             [kind |-> "return", phone |-> 1, van |-> "v", token |-> "c"])

(* The phone that stays checked out is out for good: it cannot be checked  *)
(* out, returned or retired.                                               *)
ASSUME StuckPhoneStays ==
  \A c \in PhoneCalls : c.phone = 1 /\ c.kind # "reissue" => PoolOf!Done(StuckOut, c) = StuckOut
=============================================================================
