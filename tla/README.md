# SabayGo: specifications, model checking and proofs

SabayGo books seats on UV Express vans that leave a terminal. Passengers reserve
in an app, a Dispatcher lists walk-ups and marks seats paid in cash, a job frees
unpaid seats before the departure, a Cashier takes the terminal fees, and an edge
phone in each van counts who goes through the door. The backend is a FastAPI
process over MySQL; the Dispatcher's phone and the edge phone work offline and
replay what they stored.

This directory holds TLA+ modules for the parts whose correctness hangs on the
order in which things happen. Read `SeatMap` first (one page), then `SeatBooking` and
`HomePickup`, which meet on the same seats; `TripLifecycle`, `Statement` and
`DoorEvents` can be read in any order after them. Algorithms that only compute are
operators in modules of their own, compared with reference definitions.

## Inventory

| Component | State | Operations | Hard part |
|---|---|---|---|
| Seat inventory and reservation (`application/booking/reserve_seat.py`, `infrastructure/repositories/seat_repository.py`) | `seat_inventory`: one row per slot and leg, free or bound to a booking; `bookings` | reserve, list a walk-up, claim, bind, confirm, release | read-then-write under row locks; stretches of several rows |
| Cash desk (`application/booking/cash.py`) | status, payment and reason of a booking | Mark as Paid, restore after a release, three cancellations | bookings read without a lock; offline marks arrive late and twice |
| Unpaid release (`application/booking/unpaid_release.py`, `core/periodic.py`) | none of its own | one sweep a minute: remind, release | reads everything first, writes later |
| Check-in (`application/operations/check_in.py`) | status of a booking | check in, undo | writes a status over newer ones |
| Home pickup (`application/booking/home_pickup.py`) | a pickup tied to two bookings | book, activate, arrive, close, cascade of a cancellation | two seats and a pickup changed by different handlers with different locks |
| Departure and trip lifecycle (`application/operations/boarding.py`, `trip_lifecycle.py`) | `trips`: status, van, Dispatcher, start mode and review, list lock | assign, start (by hand, fallback, detected), depart (by hand, GPS), arrive, void, review | three competing starts; the trips row is locked first |
| Statements and disputes (`application/finance/*`, `api/v1/statements.py`) | a van's statement of the day, fare lines, payments | sync, pay a trip, pay a statement, override, dispute | top-ups after the list lock; lines read before the statement is locked; opposite lock orders |
| Scheduling, special trips, non-passenger moves (`application/scheduling/*`, `operations/special_trips.py`, `non_passenger.py`) | trips of a day, rental requests, open moves | generate, check clashes, request, approve, log cash, start and end a move | clash check without a lock |
| Edge events (`application/edge/*`, `api/v1/edge.py`, `devices.py`) | ledger of door events with a hash chain, held events, matches to seats | ingest, hold, release, recheck, explain | duplicates, lateness, re-matching |
| Edge evidence and retention | audit status of a trip, stored stills | silence alert, blocked lens, purge | evidence that arrives after the verdict |
| Mobile offline queue (`mobile/lib/core/offline/*`) | marks and walk-ups queued on the device | try or queue, flush, drop | a flush that awaits while the queue changes |
| Edge phone (`edge_app`) | outbox of events and stills | detect, count, send, acknowledge | retries; numeric vision code |
| Messaging, notifications, SOS (`application/safety/sos.py`) | append-only rows, an alert's status | send, read, raise, acknowledge, resolve | two presses, two answers at once |
| Configuration (`api/v1/config.py`, `policy_repository.py`, `fare_repository.py`) | terminals, routes, templates; versioned policies and fares | set, open, close, generate | values that take effect later; guards read without a lock |
| Tracking, driving flags, NAHGM (`application/tracking/*`) | GPS readings, flags and their reviews | place a reading, time a stop, depart, flag, recount | late readings; one stray reading; numeric |
| Identity, roster, fleet (`api/v1/fleet.py`, `application/roster/importing.py`, `application/identity/*`) | operators, vans, crew with their validation; accounts | add, change, validate, photograph, import, sign up | a decision on a record that somebody changes meanwhile |
| Phones of the terminal (`api/v1/devices.py`) | phones, open check-outs | add, new token, check out, return, retire | status read without a lock |
| Mobile screens, operator console, ai_service, archive, scripts | none that the rest depends on | user interface, offline evaluation | out of scope |

How they meet: all handlers work on the same three tables (`trips`, `bookings`,
`seat_inventory`) in one transaction each; Mark as Paid calls home pickup;
a cancellation calls home pickup; Start calls the ledger of held events; Depart
calls home pickup, statements and the list check; an arriving door event may call
the detected start and the departure by GPS.

What makes each correct is written below with its module. `PROJECT.json` lists the
hazards line by line, with the properties aimed at each.

## Modules

| Module | What it is |
|---|---|
| `SeatMap` | Abstract specification of the seat inventory of one trip: a free stretch is taken in one step, whole stretches are given back in one step, nothing else happens. |
| `SeatBooking` | One trip's booking desk: reservation, walk-ups, Mark as Paid and restore, cancellations, the cutoff job, check-in and undo, Start, Depart, Void, the list lock, lock waits and timeouts. |
| `MCSeatBooking` | Small instances of it. |
| `SeatBookingProofs` | Type correctness, the inductive invariant, the safety theorems and the refinement of `SeatMap`; the rules of the desk for handlers that do not overlap. All proved. |
| `OfflineQueue` | The Dispatcher's phone in a dead zone: marks and walk-ups sent or queued, flush, lost connections, timeouts and restarts, against the server as the phone sees it. |
| `OfflineQueueProofs` | Type correctness, the inductive invariant and the promises of the queue, proved. |
| `HomePickup` | One home pickup, its two seats and its trip: cash, cancellations, check-ins, the cutoff job, the crew's acts and Depart, with the locks each takes. |
| `HomePickupProofs` | Its inductive invariant and its safety properties, proved. |
| `TripLifecycle`, `MCTripLifecycle` | The trips of a day and the vans that run them: timetable, rentals, assignment, four ways to start, two to depart, review, void, moves without passengers. |
| `TripLifecycleProofs` | Its inductive invariant and its safety properties, proved. |
| `Statement`, `MCStatement` | Lines, totals, payments, top-ups and disputes of a day: what each handler reads, waits for and writes, with the van that changes, the cash desk and the unlocked list of statements. |
| `StatementProofs` | Its inductive invariant and all its properties, proved. |
| `FoldTheorems` | What sums over finite sets gain and lose when a term changes, proved by induction. |
| `DoorLog` | Abstract specification of the ledger of door events: every crossing enters the log of one trip, once, and logs only grow. |
| `DoorEvents`, `MCDoorEvents` | The phone's outbox, its uploads and retries, held events, the chained ledger, the match of boardings to the list. |
| `DoorEventsProofs` | No crossing is lost, and the refinement of `DoorLog`, proved. |
| `DoorReportProofs` | The report of a van that left with too many aboard, type correctness, and that each crossing is on the trip it belongs to, proved. |
| `PhoneEvidence`, `OfficeBoards`, `RouteTracking`, `DrivingFlags`, `VersionedValues`, `RouteNetwork`, `SosAlerts`, `PhonePool`, `Roster` | Algorithms and guards as operators on plain values. |
| the same names with `Checks` | What each computes, compared with a reference definition over all small inputs. |

### How `SeatBooking` corresponds to the code

State. `trip` is the trips row (status, whether `list_locked_at` is set); `booking`
the bookings rows; `seat` the committed content of `seat_inventory`, `Free` or the
booking a row is bound to; `clock` says whether now is before the cutoff, between
cutoff and departure, or past the departure time; `session` holds what each open
database session is doing and the row locks it has.

Steps. The database runs READ COMMITTED (`docker-compose.yml`) and sessions are
created with `autoflush=False`. A handler reads with `session.get` or a plain
SELECT, decides, and later writes the columns it changed, by primary key. A
handler is therefore cut into the step that reads and decides (`Reserve`,
`MarkPaid`, `Cancel`, `Sweep`, `Depart`, `CheckIn`, `UndoCheckIn`), a step for each
wait on row locks (`Allocate`, `Reallocate`, `Release`), and the step that commits
(`Insert`, `RecordPayment`, `Restore`, `CommitCancel`, `CommitDepart`,
`CommitCheckIn`, `CommitUndo`). Everything between two of these happens inside
one transaction and is invisible to others, so it is one step. The three statements
claim, bind and confirm are visible together at the commit.

Locks. `SELECT ... FOR UPDATE` in `allocate_seat` locks the window of the booking:
every slot on every leg of the stretch (`Window`). `release` locks the rows bound to
the booking when it runs (`RowsOf`). `Depart` holds the trips row from its first
statement, and an INSERT into bookings waits for it through the foreign key
(`TripRowLocked`). A cancellation holds the bookings rows it has flushed
(`BookingLocked`). A wait may end in error 1205 or 1213: `LockTimeout` rolls back.

Who acts. `Start`, `Void` and `LockList` are the parts of the lifecycle and the
payment that the desk depends on; they lock the trips row first, so each is one
step that waits for no seat row.

Abstracted: notifications, fares, booking codes and names, the booking window, the
geofence (an input), the reminders of the sweep, the attempt log of check-ins, the
comparison of the door count with the list before a Depart (it refuses or not; it
changes no modelled row), the guards of Start that concern van, money and time (Start
may happen whenever the trip is scheduled), the recomputation of statements, home
pickups. One trip is modelled: the sweep's handling of several trips is a union of
independent rows. The `Restore` step writes `seat_number` only if the new slot differs
from the one the handler read, as the ORM does.

### How `OfflineQueue` corresponds to the code

State. Every act of the Dispatcher (a mark on a seat, or a walk-up) has a number: it
stands for the time of a mark and for the `client_request_id` of a walk-up. `act` is
what was done, `told` what the screen last said of it (`waiting` for the answer,
`queued` "on this phone", `done`, `refused`). `table` is the two SQLite tables together
with the maps the service keeps of them in memory (`_pendingMarks`, `_pendingByTrip`);
the app fills the maps from the tables before a screen opens. `flush` is where the
method `flush` is and what is left of the list it read; `Idle` is `_flushing = false`.
`net` holds the requests: who waits for each and how far it is. `list` is the trip
list as last loaded; `seat`, `listed` and `door` are the server's side: the bookings
the marks are about, how many bookings each walk-up made, and whether the list is open,
locked, or the van gone.

Steps. Dart gives way at every await, so the methods are cut there: `Submit` runs to
the sent request, `CallAnswered` and `Timeout` go on from it, `FlushSend` and
`FlushAnswered` are one round of the loop. The reads and writes of the phone's own
database are taken as part of the step they belong to. `HasButtons` is the guard that
keeps marks apart: while a mark is being sent no button works, and a seat with a queued
mark shows none. The server's handlers are one step each, except the walk-up endpoint,
which looks the `client_request_id` up (`LookUp`) before it reserves and inserts
(`ReserveWalkUp`); the unique key of migration 015 is in `InsertOnce`.

Failures. `Disconnect` breaks every connection: the phone goes on waiting, up to the ten
seconds of its timeout, and what had left the phone may still arrive, then or much
later, with nobody waiting for the answer. `MayFail("slow")` is a timeout though
connected. `Kill` ends the app and starts it again: the tables stay, requests travel on.
`Busy` is every answer that neither takes nor refuses the act: a lock timeout (503), an
expired session (401), an error of the server (500, 502).

Abstracted: labels, notices as texts, `paid_at`, several trips, the scope of fetches. A
released seat may come back or not, since whether the trip has a slot left is
`SeatBooking`'s business. Not modelled: leaving the screen of the list while a mark is
being sent and opening it again, which gives the buttons back (the guard `_acting`
belongs to the screen); walk-ups listed from two screens at once.

### How `HomePickup` corresponds to the code

State. `trip` is the trips row, `seat` the two bookings (the relative's `own` and the
passenger's `theirs`) with whether `seat_inventory` rows name them, `pickup` the status of
the assisted_pickups row, `session` what each handler is doing: the rows it has locked,
the seats it will write and the status it will give the pickup.

Steps. A request is cut where another can commit in between. Mark as Paid reads the
booking (`MarkPaid`), flushes the payment and so locks the booking (`Pay`), looks at the
pickup `FOR UPDATE` and at the other seat (`LookAtPickup`, `on_seat_paid`), and commits.
A cancellation and the cutoff job read the pickup without a lock (`Cascade`,
`on_cancelled`), flush the bookings (`Flush`), then write the pickup. The crew's acts
lock the trip and the pickup and read both afresh (`_locked`); `Close` writes the seat
without locking it. Depart holds the trip, reads the pickups unlocked (`at_departure`)
and writes seats and pickups. `SeatGone` is a restore that finds no free slot. A wait that
no one ends is ended by MySQL (`LockTimeout`), which also resolves the cycle of Mark
(seat, then pickup) with Close (pickup, then seat).

Seen while modelling. An activation that commits between Depart's read of the pickups
and its write is overwritten: pickup and seat end as a no-show though both fares were paid
in time (the properties still hold, since the two rows agree). Activation by hand looks at the
passenger's fare alone, so the relative's may be unpaid. `home_pickup.py:9-11`, `:43-45` and
`cash.py:121-124` say that the van is never sent to a house without the relative aboard; what the
code keeps is less. Until the departure the relative of an activated pickup has a seat
(`RelativeHasSeat`), because a cancellation takes the pickup along. Depart then makes a no-show of
every seat that is not the passenger's of an activated pickup, the relative's too, and gives up its
place (`boarding.py:186-204`); no code sets an app reservation to boarded, and neither Depart nor
`arrived` asks whether the relative came. The pickup stays activated either way. A check-in that read the seat before the passenger boarded at the
pin writes its status over "boarded". `send_photo` stores a message and changes no status;
it is left out.

### How `TripLifecycle` corresponds to the code

State. `trip` (status, van, start review), `request` (the rental and whether its fee is
logged), `moving` (vans with an open "Not a passenger trip"), `gone` (trips whose van left
the zone with a boarding counted: what the phone knows), `session`. The Dispatcher of a trip
is assigned and checked for clashes as its van is, and left out.

Steps. Every handler locks its own trip, so what is decided on that row alone is one
step. The clash check (`conflicts.py`) and the search for a waiting trip
(`detected_start`) read other rows without a lock: `Assign`, `Start`, `ChangeVan`,
`ReviewStart` and `Detect` look, `Commit` and `DetectedStart` write. A reading outside the zone
(`VanLeftOrigin`) starts the trip first if nobody did (`FallBackStart`) and departs it in a
transaction of its own (`GpsDepart`). `clear` in a session records, for the properties
alone, that no other trip got a van since the look.

Seen while modelling. `detected_start` locks the trip it chose and does not look at it
again: a trip voided, departed or completed meanwhile is put back to boarding, with
another van. Two assignments that overlap may give two overlapping trips one van. A rental
has no duration in the clash check beyond the turnaround.

### How `Statement` corresponds to the code

State. `trip` (status, van, payment status, list lock, override), `listed` (how many seats of
each are marked as paid), `charged` (the lines of a trip, their disputes, and the statement each
is on), `account` (remittances: stored total and settled amount), `session` (what each handler
read, holds and will write). Amounts are symbolic: `SHARE`, `DCOTT` and `PARKING`. All seats
of a trip have one fare and one drop-off, so a line is a number of seats.

Steps. A handler that syncs is three. It locks its trip and reads the trip's lines (`Take`,
`ReadLines`: `statement.py:225`); it waits for the statement of the trip's van, works out what it
will write, and flushes (`Sync`: `:241` to `:268`); it writes at the commit (`Commit`). Between
them other handlers run, and the lines are not read again. `Leave` adds what Assign and a change
of van do first: the statement of the van left is locked and recomputed. `Assign`, `ChangeVan`,
`Recount` (`GET .../share`, review of a start), `Void`, `Start`, `Depart` and `PayTrip` differ in
the trip's row they hold and in what they do with the balance (`Sync`).

What is not locked. `GET /statements` reads trips without a lock (`ReadTrips`) and their lines
after it (`ReadTheirLines`), and then syncs like the others; a line it adds share-locks its trip
through the foreign key (`TripShared`). The cash desk reads the trip (`MarkPaid`, `CancelSeat`) and
commits a booking later (`CommitMark`, `CommitCancel`), with neither trip nor statement locked, so a
mark may commit after the departure counted the list. The statement that lines come from when
their trip changed its van is read without a lock, recomputed, and written at the commit if its
total changed (`Planning`, the vans of `writes` that are not in `holds`). A commit writes the
columns that differ from what was read (`Merged`, `TripsAfter`). `pay_statement` locks the
statement, and the trips it marks as paid only when it writes them (`PayStatement`, `Commit`);
`RollBack` is a lock timeout, a victim of a deadlock or a lost connection, at any point.

`Mirror`, `TopUp`, `Reckon` and `DueOn` are the rules of `statement.py` on lines: `Fees` is what one
trip adds to a statement, `Waits` the part of it a dispute holds back, `Goal` the seats that have to
be on a line. `Touched`, `Opened` and `Recounted` are the statements one `sync` recomputes; a trip
with a closed list and no van returns before it writes any (`:226-234`).

Abstracted. Each trip that `GET /statements` syncs is a session of its own: their statements are
then not held together. The creation of a statement is one step with its first sync, as if a
statement that does not exist could be locked, so the race for its unique key is left out. Raising
and settling a dispute are one step each. A dispute goes where its line goes. Logging the fee of a
rental is a mark and a sync of a trip read without a lock (`CommitMark`, then `ReadTrips`). The operator's
share, the review of a start (it moves amounts between two columns whose sum is `owed`) and the
exports change no balance.

Seen while modelling. Two lists of statements, or one and a handler that holds the trip, that have
the lines of a trip in hand at once may both add a line for one seat: it is charged twice, until a
sync that comes before the list locks (`mixed`). A seat marked as paid after the departure counted the
list is on no line (`missed`). A list of statements may bring lines back to a van the trip has left,
or sync a trip as it was before a payment (`astray`); a van changed after the payment leaves the
payment on the old van's statement (`astray`). A total written without its lock may undo what a
payment or a top-up wrote, or stand for lines that moved away since; where it came out too
high (`high`), more may be taken than is owed. A detected start gives a trip a van and syncs nothing
(`trip_lifecycle.py:358`), so the statement lags until the next sync. `mixed`, `missed`,
`astray` and `high` are history, and the properties say what holds for everything else; a trip
is `astray` until a payment finds it unpaid and covers it.

### How `DoorEvents` corresponds to the code

State. `door` is what happened at the door, `onVan` what was counted while the phone was
checked out to the van, `outbox` the rows of the phone's database (waiting, sent, set aside),
`asks` the upload whose answer the phone awaits; `held`, `ledger` and `chain` are the tables
held_door_events, passenger_events and the order given by `chain_seq`; `seats` the
paid seats on each list. A moment is the number of crossings before it, so "the trip the
van ran at that moment" is decidable (`Covers`).

Steps. An upload reads the trips, places each event (`Place`) and ends with one commit
(`Finish`) or a refusal or error (`Fail`), whose answer the phone may have stopped waiting
for (`GiveUp`). A unique or primary key hit by two uploads of one event is `TakenKey`. `Release`
moves held events to the ledger inside Assign, Start and the detected start. `Rechecked`
matches boardings to listed seats from the start and keeps what a person settled.
`ListWalkUp` and `MarkListed` are the two transactions of a walk-up listed for a boarding.

Seen while modelling. An upload that fails with a conflict (its last trip completed
meanwhile) is rolled back as a whole and set aside by the phone: kept, but never sent
again. A walk-up whose second transaction fails stays listed and unmatched. An upload that
read the trip before Depart checks the list against the row it had read (`unseen` marks the
trips this happened to). An event held while Assign's release runs stays held until the
next assignment. An upload that shows the van empty ends the trip at the last crossing it knows
of. Crossings of the trip that another upload had placed on it before are entered all the same,
after its end, and a detected start may then put another trip over their moments: `late` marks
the crossings entered so. With eight crossings, some held and some on their way, it comes about;
the two of the instance of `doors` are too few. The proof of `OnTheTripItRan` led to it.

Left out: the crew aboard, home pickups in the listed count, cancellations of listed
seats, a second van, the reach of 12 hours, stills. The recheck is one step.

### Algorithms

The modules with operators only are evaluated by TLC at the start of a run: each
`Checks` module states, as ASSUMEs over every input of a small size, that the algorithm
computes what a reference definition says, and exhibits the inputs for which it does
something a reader may not expect.

| Module | Code | Checked | Evaluated in |
|---|---|---|---|
| `PhoneEvidence` | `edge/evidence.py`, `edge/ingestion.py` | the walk over the reports finds the first reason in time order; a report judged twice changes nothing; a start judges the newest report; silence is told once | `doors` |
| `OfficeBoards` | `van_board.py`, `config.py`, `capacity.py`, `boarding_audit.py` | the boards agree on who is aboard; every crossing above capacity is alerted; seats are counted once | `doors` |
| `RouteTracking` | `tracking/nahgm.py`, `geometry.py`, `ingestion.py` | stops passed in order, estimates never before now, one stray reading departs nothing (sent twice, it does) | `lifecycle` |
| `DrivingFlags` | `tracking/driving.py`, `flags.py` | stretches are maximal, later readings only extend them, none spans a gap, stored flags follow the readings and keep their reviews | `lifecycle` |
| `VersionedValues` | `policy_repository.py`, `fare_repository.py`, `policies.py` | one value in force, history records changes, the quoted fare is the one charged, past fares never change | `money` |
| `RouteNetwork` | `config.py`, `generate_trips.py` | calls one after another keep the network consistent and generate one trip per departure (a terminal may close under a route being created) | `money` |
| `SosAlerts` | `safety/sos.py`, `sms_client.py` | one incident at a time, resolved is the end, the answer never overstates what was sent (two presses, or two answers, at once do not hold to it) | `overlapping` and its siblings |
| `PhonePool` | `devices.py` | one call after another keeps the pool in order; however two calls overlap no phone goes out twice and no van has two; the list of overlapping calls that break the order is exact | `doors` |
| `Roster` | `fleet.py`, `roster/importing.py`, `identity/*` | a validated record is the one somebody else than its importer validated; keys stay unique; a file imports once; what two overlapping calls do to these | `doors` |

Seen while modelling. A commit writes the columns that differ from the row as the
handler read it, so two calls on one row mix. A van changed while it is being validated is
validated unseen; a rejected record that two members decide on at once may stand as
validated in the name of the one who imported it. A phone retired while it is given to a
Dispatcher is in a van with no token, and back in the pool, still without one, after its
return; a return that read the phone before its check-out leaves it checked out for good.
A sign-up with the address of one account and the number of another ends in an error of the
server: the lookup expects one account at most.

## Runs

| Run | Instance | Shows |
|---|---|---|
| `overlapping` | 2 sessions, a 2-leg reservation and a walk-up, 2 slots, advance limit 1 (57 498 distinct states) | what the row locks guarantee however stale a handler's reads: claimed slots stay free, whole stretches, walk-ups keep their seat, refinement of `SeatMap`; every handler ends |
| `serial` | 1 session, two reservations of different length and a walk-up, all doors (28 226 distinct states) | the rules of the desk along every sequence of whole handlers: inventory and bookings agree, who may cancel, the list lock, the list complete at departure, the advance limit; an unpaid seat is released after the cutoff |
| `paid_released` | 2 sessions, one reservation | the cutoff job cancels a seat paid while it was sweeping |
| `double_seating` | 2 sessions, a reservation and a walk-up | a stale check-in revives a cancelled booking whose slot is sold |
| `repeated_mark` | 2 sessions, one reservation | two overlapping marks of a released seat bind two slots |
| `dead_zone` | one seat, two acts (paid, asked to cancel, walk-up), two faults of any kind (375 007 distinct states) | no queued mark is lost, a walk-up is listed once and never lost, no replay undoes a later word of the Dispatcher, flush ends |
| `replay_on_return` | one seat, one mark, the connection breaks twice | the connection returns while flush still waits, and the trigger to replay is ignored |
| `final_refusals` | one seat, one mark, the connection breaks twice | a replayed mark meets a busy server and is dropped |
| `pickup` | 2 sessions, one pair of seats (445 652 distinct states) | both fares activate; the relative has a seat until the van leaves; the seat it goes for stands, paid and held; a closed pickup stays closed; every handler ends |
| `lifecycle` | a timetable trip and a rental that overlap, 2 vans, 2 sessions (203 632 distinct states) | only detection restarts a trip; the clash check separates vans unless two checks overlap; a rental's request follows its trip; a van that drove off is put on the road |
| `money` | 2 trips (at most 2 paid seats, and none), 2 vans, 2 sessions, 5 requests (1 323 233 distinct states) | each seat is charged once; paid never stands beside a balance; racing payments never take more than is owed |
| `doors` | 2 trips of one van, 2 crossings, 1 seat, 2 uploads (751 132 distinct states) | no crossing vanishes; each is on the trip that was running; a van that left with more than its list is reported; the ledger implements `DoorLog` |

`paid_released`, `double_seating`, `repeated_mark`, `replay_on_return` and
`final_refusals` are expected to find a violation: they state what a comment in the
code promises and the interleaving in which it does not hold. `PROJECT.json`
quotes the comment under "findings".

Bounds. Two sessions are enough for a stale read, an overwrite and a cycle of two
lock waits; the proofs cover any number. Two slots leave room for a second slot to
be allocated to the same booking and make the trip full with two bookings. Two legs
make stretches of different length share a slot and their first leg. The limit of 1
is below the capacity, so that it bites. `Doors` bounds the reasons for which a
person cancels: `overlapping` keeps one, since the reasons differ only in their guard.
`CHECK_DEADLOCK FALSE`: after the departure of the van the desk has nothing to do.

In the runs of `OfflineQueue`, two acts are a mark and the mark that replaces it, a mark
and a walk-up, or two walk-ups; two faults are a failed call and a failed replay, or an
act queued in a dead zone and an app killed before it is replayed. `Words` leaves
"forgot" out: it differs from "asked" in that the server refuses it for a paid seat,
and would only add refusals. `CHECK_DEADLOCK FALSE`: when all acts are done and the
queue is empty nothing has to happen.

In `pickup` two sessions make every pair of handlers meet; a third one could only wait as
well (the proofs cover any number). In `lifecycle` two trips and two vans are the smallest
day with a clash and a way around it; the rental lasts its turnaround only, as in the code.
`MaxActs` = 5 requests in `money` is a mark, an assignment, a payment, and two more: a change of
van and a sync, a later mark and a departure, a dispute and its decision; each is up to three
steps, and those under way finish outside the bound. In `doors` the first
crossing is a boarding and the second anything; `Uncounted` lets the second be counted
with no check-out and `Followed` follows the first trip past its start, which is where the
trips of a van meet. The second trip has no seats: a boarding of it is then always in
excess. Sessions of `doors` are interchangeable (SYMMETRY, safety properties only).
`CHECK_DEADLOCK FALSE` in the four: a day may end.

Fairness. Weak fairness of `Proceed(s)`: a handler that runs is scheduled by the
event loop, a lock holder commits, and MySQL ends every wait by a timeout. Strong
fairness of the sweep: the job wakes every 60 s, whatever requests do, and opens a
session of its own, so it is not kept out for ever by sessions that are busy again
and again. No request is assumed to be made. `UnpaidSeatIsReleased` is claimed for
handlers that do not overlap; under permanent contention the sweep could lose each
wait for a lock and try again for ever.

For `HomePickup`, weak fairness of `Proceed(s)` alone, with the lock timeout as one of its
steps. For `TripLifecycle`, strong fairness of `Proceed(s)`, since InnoDB grants row locks in
turn, and of the phone's next reading outside the zone: a van on the road goes on reporting
every few seconds, whoever holds its trip's row meanwhile. `Statement` and `DoorEvents` claim
safety only.

For `OfflineQueue`: the phone runs what is ready, each wait ends (with an answer or after
ten seconds), and a server that can be reached answers. Nobody is assumed to press a
button; `ReplayedOnReturn` itself asks that the connection stays up in the end.
`LatestWordStands` leaves out requests that travel on after the phone stopped waiting:
a cancellation that timed out and lands after a later payment cancels a paid seat, and
nothing on the phone could call it back.

Every property of the passing runs has a mutant beside the code it changes
(definitions commented "Mutant:"): a small bug of the code under which the run finds it violated.

## Proofs

TLC checks small instances; the theorems below hold for every value of the constants. Each
module of proofs first states its inductive invariant, then one lemma for each step or shape
of step, then the theorems.

For `SeatBooking`, for every set of bookings and sessions, every capacity, number of legs and
choice of stretches, from the assumptions `CapacityAssumption` and `BookingAssumption` (sizes
are naturals, every booking has a type and a stretch that starts at leg 1, `Free` is no booking):

* `TypeCorrect`: `Spec => []TypeOK`, by one step per action.
* `Safety`: `Spec => []InductiveInv`; from it `ClaimedSlotStaysFree`, `StretchesStayWhole`, `WalkUpSeatIsKept`.
* `SellsStretches`: `Spec => SellsWholeStretches`, the refinement of `SeatMap`: a
  binding step is `Take`, a freeing step `GiveBack`, any other a stutter.
* With `OneAtATime` (there is at most one session) as a hypothesis, as in the run `serial`:
  `InventoryIsTrue`, `PaidSeatIsKept` and `LockedListStands`, from the lemma `SerialSafety`.

The argument. That stretches stay whole is not inductive by itself: one must know
which rows a committing handler writes. `ClaimLocksWindow` says a handler about to
bind holds its whole window; `LocksExclusive` that nobody else holds a row of it;
`ReleasesOwnStretches` that a handler about to free rows has locked only rows of its
own bookings, and all rows of each stretch it touches. Since all stretches share leg
1, a window meets every stretch of every slot: while a claim is held no other
session can hold or free rows there. `NewBookingsAlone` and `WorksOnReservations` say a
handler never works on a walk-up that is aboard, which is why its seat is kept
although every read is stale. Each action is first shown to
have one of seven shapes (begins, ends, writes a booking, claims, locks to release,
binds, frees), then each shape to keep every part of the invariant.

The rules of the desk do not hold when handlers overlap: `paid_released`, `double_seating` and
`repeated_mark` show it. The hypothesis `OneAtATime` is therefore what they need, and nothing
more is assumed. `AsRead` says that what a handler under way has read still stands: the status
of the trip and its lock, the status of the bookings it works on, and that the rows it has locked
are all those of the bookings it is through with. TLC confirmed `SerialInv` on the instance of `serial`.

For `OfflineQueue`, from `QueueAssumption` and for any seats, number of acts and of
faults: `TypeCorrect`; `QueueInvariant`, `Spec => []QueueInv`; and from it
`MarksAreKept`, `WalkUpsListedOnce`, `WalkUpsNotLost`, `LastWordCounts`.

The argument. flush drops a mark by its booking, so a mark queued for the same booking
while flush waits would go with it. `OnePendingMarkPerSeat` says there is none: one mark
at most of each seat is being sent or queued. To keep it one needs to know that the
buttons hide what is queued (`TableIsWhatIsQueued`), that an answer reaches the act that
waits for it (`AnswersAreAwaited`) and that no second answer to it follows
(`OneAnswerAtATime`). `ListedWalkUps` adds that an "ok" on its way tells the truth. Steps
of the network and the server share one lemma (`NetworkStep`), and so do the steps that
tell the Dispatcher something new (`ToldKeepsPromises`). `LastWordCounts` (`LatestWordStands`)
adds that acts are numbered in the order they were done (`InOrder`) and that a mark that is
sent or queued is the last word on its seat (`PendingIsLatest`): a new mark of the seat needs
the buttons back, and they come back with the answer. TLC confirmed `QueueInv` on the
instance of `dead_zone` before it was proved.

For `HomePickup`, for any number of sessions and from no assumption on them: `TypeCorrect`,
`PairedPaymentActivates`, `RelativeKeepsSeat`, `SeatWaits` and `ClosedForGood` (the action property
`NotReinstated`), all from `IInvHolds`, `Spec => []IInv`.

The argument. What the pickup's status says of the seats (`Tied`) is kept only because the
handlers under way have promised something: a cancellation that will leave the pickup alone
found it closed, a departure that takes the passenger's seat also takes the pickup or found
it closed (`Intent`); a mark that will activate still holds the pickup as it was requested,
and one that leaves a requested pickup alone holds it too and knows a fare is missing
(`Marking`). The last two rest on the lock: the pickup's row has one holder (`OneHolder`),
and whoever writes it waits for that one. A closed pickup is never opened, so "found it
closed" stays true. `NothingBooked` says that before the booking commits nobody is at work on
it, which needs Depart's hold of the trip. Steps that only move one handler on share the
lemma `QuietMove`. TLC confirmed `IInv` on the instance of `pickup` before it was proved.

For `TripLifecycle`, from `TripsAssumption` (rentals are trips, `None` is no van and no trip,
departures and durations are naturals) and for any trips, vans and sessions: `TypeCorrect`,
`RentalsClose`, `StartsOnce` (the action property `OnlyDetectionRestarts`) and `VansSeparate`
(`ChecksSeparateVans`), all from `IInvHolds`, `Spec => []IInv`.

The argument. What a handler saw when it looked must still hold when it commits. `Held` says
that a trip looked at has one handler and, for a start, is still as it was looked at;
`StillClear` that the van to be given is free for the trip or the trip has it already, unless
a van was given to another trip since (`clear` is then gone). Keeping `StillClear` needs every
change of the trips to be one of few: lemma `StatusMoves` gives the ways a status changes,
`VanMoves` the ways a van does, and only those two matter to a clash. `Unborn` keeps handlers
away from trips that approval or the timetable will create, `RoutesOnly` keeps detection away
from rentals, and `Unapproved` ties a request to the absence of its trip, which
`RentalFollowsTrip` needs when it is approved. TLC confirmed `IInv` on the instance of
`lifecycle` before it was proved.

For `Statement`, from `StatementAssumption` (the trips of a day are finitely many, amounts
and sizes are naturals, `None` is nobody), for any trips, vans, sessions, seats and amounts:
`TypeCorrect`, `SeatsChargedOnce` (`EverySeatChargedOnce`), `PaidIsPaid` (`PaidOwesNothing`) and
`NeverOverpaid` (the action property `PaymentsNeverOverpay`).

The argument is four invariants, each of which rests on the ones before. `Typed` adds to the types
the shape of a session at each step (`Shape`), so that what it holds and will write has a meaning.
`Payments`: a statement is locked by one session (`HoldsApart`); what a session is about to record
fits the total it writes (`Fits`); and a total that is not `high` is at most what its lines and trips
come to (`Total`), which survives the unlocked writes because each of them says of itself whether
it came out above. `Handling`: a locked trip has one handler, and the row it holds is the trip's but
for what it changes (`Holds`); a list of statements is outside this, and writes only "unpaid again".
`Seating`, for the lines: while nobody else has them, those a handler holds are the trip's, and
what it will write has the list of a trip that leaves (`Alone`). `Paying`, for the payments: the trips
paid up on a statement have together paid the parking, their tickets and all shares no dispute
holds back (`Covered`), and a payment under way promises as much for the trips it will mark
(`Backed`), with the lines others will have written by then (`Coming`). What a step gives a statement
or takes from the paid trips is arithmetic on sums. A sum is a fold, and what it is for every set
needs induction: the library's induction theorems take a predicate as a parameter, which no installed
prover can instantiate, so `FoldTheorems` states induction for a set instead (a set of naturals
with 0 and every successor, a set of subsets with the empty set and every one more) and proves
from it what `SumFunctionOnSet` is. TLC confirmed the invariants on the instance of `money` before
they were proved.

For `DoorEvents`, from `DoorAssumption` (crossings and trips are numbered, `Nobody` is no
session) and for any trips, crossings and sessions: `CrossingsKept` (`NothingVanishes`),
`LedgerKeepsTheLog` (the refinement of `DoorLog`), `ReportsExcess` (`LeftWithMoreIsTold`),
`TypeCorrect` and `RanThatTrip` (`OnTheTripItRan`).

The argument. The phone drops what the server answers for, so `Answered` says that while an
answer is awaited the server has what was sent, or the session at work brings it; with
`Counted`, that the phone waits only for what was counted, this is `IInv`, from which nothing
vanishes. For the refinement, `Chained` ties each trip's chain to the rows of the ledger: the
same events, each at one place. A session enters only keys the ledger does not have
(`TakenKey`), in the order of their times, which lemma `Enumerated` gives as the enumeration
of a finite set; a chain then grows at its end by events that are new, and a pigeonhole bounds
its length. `Known` says that only counted crossings reach the server; `Timed` and `OnTrips`
that the trip chosen for a crossing is one. `ReportsExcess` adds `NotGone`, that a trip which
did not depart has no departure time, and follows trip by trip: a step that leaves the rows of
a trip alone leaves its report as it was (`TellsStill`), and the others report. TLC confirmed
`IInv` on the instance of `doors` before it was proved.

`RanThatTrip` rests on `FitInv`. A trip fits a crossing (`Fits`) if it ran at that moment, was
voided since, or had not started while no trip ran; crossings in the ledger fit their trips, and
those an upload brings do too or were overtaken by the end of the trip (`Fitting`). What has
to be shown of every step is in `Undisturbed`: a trip that ran at a moment goes on having run
then, is cancelled, or is ended before it; and no trip comes to have run at the moment of a
crossing that waits for another. The last is why the detected start is safe: it is made only if no
assigned trip was to start at that time (`OfficeTurns`). An upload ends a trip at its last crossing,
so only crossings still on their way can be later (`CommitFits`); these are `late`. TLC confirmed
`FitInv` on the instance of `doors`, and on a scripted one of eight crossings.

Only model-checked: liveness (`HandlersFinish`, `UnpaidSeatIsReleased`, `FlushEnds`,
`LeftVanDeparts`), which the prover cannot treat; the list complete at departure and the advance
limit (`ListCompleteAtDeparture`, `AdvanceLimitKept`), which the code keeps only for handlers that
follow one another; and the algorithms, which TLC evaluates over small inputs, for a recursive
definition would need an induction over data. Every other property of the passing runs is a theorem,
those of the desk in `serial` under `OneAtATime`.

What the runs with one session do not show. A reservation that waits for its rows while the van
departs still commits on the closed list (`reserve_seat.py:115`), and a mark that restores a seat
does; nothing in the code prevents it, so no property claims it. `OnlyDetectionRestarts` exempts the
detected start and `ChecksSeparateVans` the checks that overlap, for the same reason.

## Plan

Done: `SeatMap`, `SeatBooking`, `OfflineQueue`, `HomePickup`, `TripLifecycle`, `Statement`,
`DoorEvents` with `DoorLog`, the modules of algorithms, theorems for the safety and action
properties named above, and both refinements.

Next, in this order:
1. The rules of the desk for handlers that overlap, for the bookings no other handler works on:
   what of `AsRead` the locks alone give.
2. A register per seat as the abstract specification of `OfflineQueue`, and the refinement.
3. Theorems about the operators of `RouteTracking`, `DrivingFlags` and `PhonePool` that need no
   recursion.
4. The recheck of `DoorEvents` cut in two, and home pickups in its listed count.
5. In `Statement`, the race for the unique key of a new statement (`statement.py:383`), and the list
   of statements as one session over several trips.

## Not modelled

Distances on the sphere, map matching, vision and the statistics of past trips (floating
point), user interfaces, login and tokens, exports and the reading of spreadsheets, settings
of crew and vans, messages and notifications as rows, retention, the offline evaluation of
the detector. See the notes under "components" in `PROJECT.json`.
