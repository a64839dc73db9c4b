# SplitLedger: specifications, checks and proofs

SplitLedger is a shared-finance backend for share houses (FastAPI, PostgreSQL,
Redis; `src/backend/app`). Several API workers serve HTTP requests, each request
in a database transaction of its own; money moves only through a double-entry
ledger with a cached balance per user; every change a client should hear of is a
numbered event in an outbox table, relayed over Redis to WebSocket clients.

This directory models the part of it that decides about money and membership:
TLA+ modules translated from the code, TLC runs over small instances, and TLAPS
proofs of the safety of each stateful module for instances of any size.

## 1. Inventory

| Component | State it keeps | Operations | Talks to |
|---|---|---|---|
| Ledger engine `ledger.py` | `balances`, `ledger_events`, `ledger_entries`, `events`, `house_seq_counters` | `post_ledger_event`, `emit_events`, `create_expense`, `reverse_expense` | called by every router and the scheduler, inside the caller's transaction |
| Expenses `expenses.py` | `expenses`, `expense_shares` | create, reverse, read balances | splits, ledger engine |
| Settlements `settlements.py` | `settlements` | suggest, create, confirm, reject | optimizer, ledger engine |
| Disputes `disputes.py` | `disputes`, `dispute_comments` | open, comment, review, resolve, reject | expenses, ledger engine |
| Houses, permissions `houses.py`, `permissions.py` | `houses`, `house_memberships`, `house_invites` | create, invite, accept, change role or away days, leave | reads balances, emits events |
| Splits `splits.py` | none | `compute_shares` | called by expenses, rules and bills |
| Optimizer `settlement_optimizer.py` | none | `suggest_settlement` | called by settlements |
| Split rules `split_rules.py` | `split_rules` | create, patch, preview | splits |
| Auth `auth.py`, `security.py` | `users`, `refresh_tokens` | register, log in, refresh, log out | none |
| Idempotency `idempotency.py` | `idempotency_keys` | replay or store a response | wraps every POST |
| Outbox relay `outbox.py` | `events.published_at` | claim a batch, publish, mark | outbox table to Redis |
| WebSocket gateway `ws.py` | sockets, subscriptions, send queues | hello, subscribe with replay, dispatch, heartbeat, eviction | Redis, outbox table |
| Scheduler `scheduler.py`, `recurring_bills.py` | `recurring_bills`, `notifications`, sweeps | tick under an advisory lock | splits, ledger engine, storage |
| Documents `documents.py`, `storage.py` | `documents`, objects in S3 | presign, confirm, list | scheduler's orphan sweep |
| Frame `main.py`, `db.py`, ... | none of its own | wiring, errors, metrics | all |

What is hard in it, and what would make it right:

* **Ledger engine.** Transactions run at once over the same balance rows. The
  cache must equal the ledger, nobody may wait forever, event numbers must be
  gapless and appear in order even when transactions fail, snapshots and debt
  clocks must be current.
* **Expenses, settlements, disputes.** Three kinds of objects post to one ledger
  and a dispute can undo an expense its creator can undo too. Each must be in the
  ledger exactly as its status says. The status is read without a lock and
  written later.
* **Membership.** A house must keep a manager, nobody may leave with money
  outstanding, an invite admits as many as it says. Counts and balances are read
  without a lock and acted on later.
* **Splits and settling up.** Rounding, clipping of away ranges, remainders at the
  boundaries of the greedy loop.
* **Delivery.** At-least-once publishing by several workers, lossy pub/sub, replay
  racing live dispatch, bounded queues, eviction of members who left.
* **Requests.** Retries with one key that overlap, expire or follow a crash; one
  refresh token used twice at once.
* **Scheduler and documents.** One failing bill stops a whole tick; catch-up over
  month ends; sweeps racing confirmations.

`PROJECT.json` lists every component with its status, and the hazards of the code
at their lines, each with the properties that speak about it, or a note that says
why none does.

## 2. Modules

| Module | Models | Used by |
|---|---|---|
| `AtomicLedger` | what the engine promises: a posting happens at one instant | refined by `LedgerEngine` |
| `LedgerEngine` | `post_ledger_event` and `emit_events` statement by statement, with row locks, commits and rollbacks | `MCLedgerEngine`, `LedgerEngineProofs` |
| `Splits` | `compute_shares`, and the entries `create_expense` makes of shares | `HouseBooks`, `SettleUp` |
| `HouseBooks` | expenses, settlements and disputes, and what they post | `MCHouseBooks`, `HouseBooksProofs` |
| `Membership` | memberships, invites, roles | `MCMembership`, `MembershipProofs` |
| `SettlementOptimizer` | the loop of `suggest_settlement`, and what a suggestion is good for | `SettleUp` |
| `SettleUp` | an expense split, booked on the balances, then a suggestion | `MCSettleUp`, `SettleUpProofs` |
| `Delivery` | outbox relays, Redis pub/sub, WebSocket gateway, a client | `MCDelivery`, `DeliveryProofs` |
| `Requests` | the idempotency middleware around a handler; accounts and refresh tokens | `MCRequests`, `RequestsProofs` |
| `BillCalendar` | `_advance`, and the calendar reckoned another way | `Scheduler`, `SchedulerProofs` |
| `Scheduler` | ticks under the advisory lock: bills, reminders, the sweep of documents | `MCScheduler`, `SchedulerProofs` |
| `Sums` | no code: lemmas about sums, sorted lists and ranks | the proofs about balances and counts |

The modules named `...Proofs` hold the theorems (section 4), those named `MC...`
the instances for TLC.

Operators marked "(Faulty: ...)" are not part of any specification. Each is a
variant of the definition after it, with a mistake one could make in that code.
`PROJECT.json` pairs each property of the passing runs with a variant that
breaks it; the variants are what shows that the properties can fail.

### LedgerEngine

One house, any number of transactions, each running once. State and code:

| Variable | Code |
|---|---|
| `rows` | committed `balances` rows: exists or not, `balance_cents`, `oldest_debt_at` (0 is NULL) |
| `posted` | the sum of a user's committed `ledger_entries` |
| `events`, `nextSeq` | committed `events`; `house_seq_counters.next_seq` |
| `owner`, `seqOwner` | who holds the row lock of, or has inserted without committing, a balance row; the counter's row lock |
| `pc`, `entries`, `todo`, `image`, `stamp`, `first` | a transaction's place, argument, rows still to visit, uncommitted row images, `now`, allocated number |

Actions are the statements: `Upsert` (INSERT ... ON CONFLICT DO NOTHING, one
user after the other, sorted), `Lock` (SELECT ... ORDER BY user_id FOR UPDATE,
one row lock at a time, each row read when its lock is granted), `Apply` (entries
and new balances, still private), `Allocate` (the counter's upsert, which waits
for its lock), `Commit` and `Rollback` (by the caller). `Refuse` is the 422 of an
empty or unbalanced entry map, `Notify` an `emit_events` without money. The
isolation level is PostgreSQL's default, READ COMMITTED, as `db.py` sets none: a
statement sees what was committed before it, so a waiter sees the row as its last
owner left it. A transaction makes one posting or one notification. No handler
makes two postings in one transaction; the scheduler commits between bills.

### HouseBooks

Objects are records with their status; the ledger and the outbox are bags. A
handler that changes an object has two steps, since the code has two: the check
(a SELECT without a lock, with all the reads of the handler's checks taken
together) and the write (an UPDATE by primary key, the posting and the commit).
Between them `handler[w]` holds the request. A resolution by full reversal has a
third, because the expense is read after the dispute. The posting inside a write
is one step: that is what `LedgerEngine` implementing `AtomicLedger` allows. The
request keeps the row as it read it (`row`, and `charge` for the expense of a
full reversal), since SQLAlchemy's UPDATE contains only columns that differ from
it: `Close` leaves `resolution_kind` and `resolved_by` as another request has set
them meanwhile when the own value is the one read. Handlers that only insert
(create expense, create settlement, open dispute, comment) are one step. Roles do
not change in this module.

`overwritten` is not in the code: it collects the objects that a request wrote
although they were no longer as it had read them. No action looks at it; the
properties use it to say what an overlap can spoil and what it cannot.

The locks of a write are the engine's plus the object's row, and they are taken
in orders that cannot close a circle: reverse takes the expense row, then
balances, then the counter; resolve, review, reject and confirm write their
object's row after the counter or before the balances, and each such row is held
by handlers of that object only. Waiting inside a write is therefore left to
`LedgerEngine`.

### Membership

The same two steps. The row as it was read is kept in the request, because what
the write contains depends on it: a rejoining member's `role` is written only if
it was not `member` already, `use_count` is written as the count read plus one. With the row a request keeps the
balance, the count of uses and the managers it has seen, for the properties to
compare. `joins` counts the member.joined events per invite, `told` is the last
event about a user, and `overwritten` is as in `HouseBooks`, for users and invites.
`PostLedger` stands for any posting: it moves a cent between two people with a
membership, those who left included, since reversing an old expense reaches them.
The user's `away_ranges` are two values, enough to tell changed from unchanged.

### Splits, SettlementOptimizer, SettleUp

`ComputeShares` replaces Fractions by integers over a common denominator, exact
as they are. The remainder loop is stated by rank: user number k in UUID order
gets a cent if k is less than the remainder. Dates are integers. Percentages and
weights differ only in a key and are one kind. `RankedOf` is the `sorted` of the
optimizer, stated as the list of the rows in which each comes before those after it,
and `Match` is one turn of its loop. `SettleUp` takes the balances through one expense, then through
a suggestion.

### Delivery

The events of one house, from the commit to the client.

| Variable | Code |
|---|---|
| `log`, `active` | the `events` rows in order of `seq`; active memberships |
| `published`, `relay` | `published_at`; per worker the batch `relay_once` has locked (`claim`) and what of it is not out yet (`left`, published from the lowest number up) |
| `aired` | what has been on the Redis channel (history) |
| `linked`, `wire` | a worker's PSUBSCRIBE connection and what its consumer has yet to read |
| `sock` | a `Socket`, with its place in `_handle_subscribe`, its queue and `close_code` |
| `seen` | the events the client knows of (external) |

Within a worker, asyncio runs a task from one await to the next, so an action is
such a stretch or one SQL statement: `Subscribe` (read the role), `ReadSeq`
(`current_seq`), `Register` (go live, or resync), `ReadReplay` (the SELECT) and
`SendReplay` (queue all rows at once, which `Replayed` states without a loop) are the pieces of `_handle_subscribe`,
between which `Dispatch`, commits, relays and `_sender` may run. A full queue
closes the socket. `_sender` may pass on one more frame after the close. Failures
are a batch that fails (`FailBatch`), a lost Redis connection (`Unlink`) and a
worker that dies (`Crash`). `Drop` stands for disconnects, missed pings and
expired tokens alike. `base` and `sound` are not in the code: they say what was
promised to a socket, and whether its worker's link has held. `Gateways` are the
workers whose sockets are watched; the others only relay. The client is not in
the repository: it is taken to keep every event that is new to it, to ask for
what follows all it has without a gap, and to reload over REST on a resync.
Frames other than events and resync are left out; they only fill the queue sooner.

### Requests

| Variable | Code |
|---|---|
| `stored` | `idempotency_keys`: the request (`request_hash`), the answer, `fresh` until `expires_at` |
| `registered`, `token` | the one account; `refresh_tokens` as unissued, live, revoked or expired |
| `attempt` | a request at work: in the handler before its reads (`read`), past its checks (`write`), or answered and not stored yet |
| `login`, `contested`, `life` | not in the code: the login a token descends from, the logins of which two requests used a token at once, and what happened under a key since it was free |

`Answered` is the replay (or the 409 of another request), `Admit` the way past the
middleware, which writes nothing, `Store` the upsert after the answer has gone
out. That upsert keeps the `request_hash` of a row that is there. `Die` is a
worker that ends, or a handler that raises, at any place. `CheckToken` is the
unlocked read of `_valid_refresh_row`, `Refresh` and `Logout` the commits after
it. `PostExpense` stands for every handler that acts anew each time it runs.
Passwords are right and the account is one; clients send any request under any
key. A request stands for all that `request_hash` takes in: method, path, caller and
body.

### BillCalendar, Scheduler

`Advance` is `_advance`: a week, a fortnight, or the anchor day of the next month
clamped to its length. `IsRun` says which date the k-th run of a bill is by
counting days and months through, with no use of `Advance`.

| Variable | Code |
|---|---|
| `today` | the clock, in whole days; time of day is carried along unchanged by the code |
| `bill`, `unsplittable` | `recurring_bills`; the bills whose split raises, as a member of the rule has left |
| `since`, `reminderDays`, `reminders` | `oldest_debt_at`, `settings["reminder_days"]`, reminder `notifications` |
| `document`, `stored`, `attached`, `confirming` | `documents`; objects in the bucket; documents an expense refers to; confirm requests between their HEAD and their UPDATE |
| `lock`, `job` | the advisory lock; where a scheduler's tick stands and the list it works through |
| `first`, `billed`, `clashed`, `excused` | not in the code: the date a bill was last given by a request, the dates billed since, bills patched while being billed, documents confirmed while being swept |

A tick goes through the code's order: `StartTick`, for each due bill `ReadBill`
and `PostBill` up to three times, `StartReminders`, `SendReminder` each,
`ReadStale`, `DeleteObject` each, `DeleteRows`. Each is one transaction, one call
of the store, or the reading of a list; requests come in between. `CannotSplit`
and a malformed `reminder_days` raise and end the tick for all. `Fail` is any
error or the end of the process, at any point. A reminder's look-up and insert are
one step, because only the holder of the lock writes reminders. The lock is a
session's: it is taken to stay with the connection until the tick ends and to go
when the connection does. A tick of one house is modelled; others add bills and
debts to the same lists. The sweep of keys is `SweepKey` of `Requests`.

## 3. Runs

| Run | Instance | Shows |
|---|---|---|
| `ledger_engine` | 3 users without rows, 3 transactions, 3 balanced maps and one unbalanced, clock to 2 | the cache is the ledger; the house sums to zero; numbers are gapless and appear in order; snapshots are current; debt clocks are right and kept; every begun transaction ends; `AtomicLedger` is implemented |
| `house_books` | 2 managers, 1 expense, 1 settlement, 2 disputes, 2 handlers that overlap in any way | the ledger has what statuses say, and more only where a request wrote over a row it had not read; no one with a stake decides over money; closed disputes stay closed but for decisions made before; events tell a dispute's status |
| `membership` | 2 users, 1 invite of 2 uses, 2 handlers that overlap in any way, balances within a cent | the last manager and an even balance at leaving are lost only to a reading that is out of date; uses of invites are joins, and events tell membership, until a request writes over a row it had not read |
| `settle_up` | 3 members and one who left, all three kinds, 3 periods, 5 patterns of absence, openings within a cent | shares sum to the amount and are fair to the cent; suggestions settle everybody, with at most n-1 payments, none of which overshoots |
| `delivery` | 2 relays, 1 gateway, 1 client, 2 events, batches of 2, a queue of 1, 1 failure | no event falls between replay and live delivery; a client that stays connected catches up; the outbox drains |
| `requests` | 2 attempts at a time, 1 key, 3 refresh tokens | a request retried under its key takes effect once and is answered alike; a login has one usable token |
| `scheduler` | 2 schedulers, 1 bill (two schedules), 1 debtor, 2 documents, 4 dates, 4 events | bills are billed on their dates, once each; reminders are sent once per tier; confirmed documents keep their objects; all is caught up with once ticks can succeed |
| `house_books_race` | 2 managers, 2 handlers | **violation**: something is booked twice |
| `membership_race` | 2 users, 2 handlers | **violation**: no manager is left |
| `delivery_eviction` | 1 worker, 1 client, no failures | **violation**: one who left stays subscribed |
| `settle_up_away` | 3 members, one away all the time | **violation**: who was away pays a cent |
| `scheduler_orphans` | 1 scheduler, 1 document | **violation**: stale documents stay for good |

**Why the bounds are enough.** Three transactions over three users give every
kind of conflict the engine has: two inserters of one row with a third waiting,
a circle of three, a rollback between two commits, a reader of a snapshot between
two others; a fourth would repeat one of these. The clock distinguishes an old
debt from a new one with two readings. The proofs remove these bounds for safety.
One expense, one settlement and two disputes on the same expense give every order
and, with two handlers, every overlap of reversal, resolution and rejection; further
expenses do not interact with it. The constraint `FewThings` of `house_books` keeps
the run small: beside the expense at most two of the settlement, the disputes and a
comment exist (a settlement shares nothing with a dispute), and nothing is explored
from where two objects have been written over. `FewOverwritten` does the same for
`membership`, with `MaxJoins` for the joins: three suffice for an invite of two uses
to admit too many. A house of two is the smallest in which two managers can go at
once; the race runs use no constraint. What is lost by these bounds the proofs
of both modules, for any number of everything, give back.
The comment bound (`MaxComments`) only limits a counter that nothing reads.
`MaxCents` limits balances in `Membership`, where only zero, credit and debt
matter. Amounts 1 and 5 among three give remainders of 1 and 2, and absences
cover before, after, all of, both ends of and outside a period; the ranges of one
member lie apart (`RequestsApart`), since overlapping ones are subtracted twice and no
text says what they should mean. Two events suffice
for two relays to reorder, for a batch to fail half-way and for a replay to
overflow a queue of one; one failure is followed by a retry, and a second would
repeat it. Two attempts suffice for an overlap and for a retry after each way an
attempt can end; keys do not interact, so one is enough; three tokens are two
logins, or a login refreshed twice. The four dates of `scheduler` run from
January 31st to May 1st of a leap year: a bill of day 31 comes to February 29th
and back to March 31st, and a scheduler that was down for all of it finds four
periods due, one more than a tick catches up with. `MaxEvents` bounds requests,
changes of debts and failures together; four allow a bill created, patched and
failed on, or a document created, uploaded and confirmed around a failed tick.

**Requests that overlap.** The API has several workers, and no handler of these two
modules locks what it checks. The passing runs and the theorems therefore let requests
overlap in any way and say what survives it:

* whatever overlaps, an expense is booked once, and each reversal takes away once what
  was booked; a settlement moves exactly its amount per confirmation, none while pending;
  a resolved dispute has moved money; no one with a stake posts an adjustment; events tell
  of every reversal and adjustment; an invite is not used without a join;
* the rest (one reversal, one payment, one adjustment, none for what is rejected; a closed
  dispute stays closed; uses are joins; the last event is right; a manager remains; who
  leaves is even) is lost only to a request that acts on a reading that is out of date, by
  the object, user or invite concerned. That is more than the rules being right one
  request at a time: a request that fails, or one about another object, does no harm,
  and a request that acts on a current reading does none however many others are at work.

The race runs show that the exceptions happen: an expense is reversed twice, a house
is left without a manager.

**Fairness.** In `LedgerEngine` only `EveryTxnEnds` needs it: weak fairness of `Drive(t)`, the
statements of a transaction that has begun. A worker goes on with its transaction
and PostgreSQL wakes a waiter when the lock is free. Nothing is assumed of
arrivals (`Post`, `Notify`), of the clock or of failures. In `Delivery` the loops
go on: relays retry after every error (`relay_loop` catches all), consumers read
on and reconnect, the event loop runs every task that can run. Nothing is assumed
of clients. Failures end, which `MaxFaults` says: an outage that never ends keeps
the outbox from draining. In `Scheduler` each process goes on with its ticks
(`run_forever` catches everything and sleeps), so `TickStep(s)` is weakly fair for
each; the clock, requests and failures are not, and failures end by `MaxEvents`.
`CatchesUp` is conditional on `Healthy`: nothing stays in place that makes every
tick raise. `Requests` has safety properties only.

**Deadlock checking** is off where a run is over when everything has been used
up (transactions, objects, a suggestion, events). In `membership` and its race, `requests` and
`scheduler` it is on.

## 4. Proofs

Each theorem holds for every value of the constants, under the module's named
assumptions. They say that a null is not a value (`NoneAssumption`, `NoTxnAssumption`),
what the constants are made of (`ConstantsAssumption`, `BoundsAssumption`,
`CentsAssumption`, `PostingsAssumption`, `RequestsAssumption`, the bounds
`Max...Assumption`), that what is counted or summed over is finite
(`NumUsersAssumption`, `UsersAssumption`), that objects of two
kinds, and users and invites, have different ids (`IdentitiesAssumption`,
`InvitesAssumption`), that managers are users
(`ManagersAssumption`), gateways workers (`GatewaysAssumption`), and that a house is
even when an expense comes in (`OpeningsAssumption`, which
`HouseAlwaysSumsToZero` proves of the engine). None of the properties is inductive by
itself; what is added to it, and why, follows for each module.

**Sums.** A sum is the fold of the community modules, a recursive function that takes
elements in an order nobody knows. The installed provers cannot use the induction
theorems, which take an operator as a parameter. In their place stands an argument by
the smallest counterexample: the subsets of a finite set are well-founded under
inclusion (`FS_StrictSubsetOrderingWellFounded`, `WFMin`), so if a claim fails for
some subset it fails for one with no smaller failing subset (`SmallestSet`), and one
element less refutes it. So it is proved that a sum is well defined (`SumIsFound`), what it is with
one element more or less, of two functions, of multiples, of the parts of a
list; that every finite set of rows can be listed in order (`Listed`); and that as
many elements of a finite set of integers as asked for have a rank below that number
(`SumOfRanks`), which is why the remainder loop of the splits gives out the remainder.

**LedgerEngineProofs.** That adding an entry to a private image keeps the cache
equal to the ledger depends on the image being the committed row, which depends on
the lock. The inductive invariant is `Inv == TypeOK /\ LockDiscipline`:

* `HeldRowsCurrent`: a row that a transaction holds is owned by it, and its image
  is the committed row, or that row charged with its own entry after `Apply`;
* `CounterHeld`: in `ready`, the counter's lock is held and `first` is `nextSeq`;
* `PostingsChecked`: what is posted passed the checks, and `stamp` is in the past.

`DisciplineKept` proves `Spec => []Inv`. Two lemmas carry the rest:
`OnlyCommitsShow` (no other step changes what is committed) and `CommitEffect`
(a commit charges each touched row with its entry). A third,
`CommitKeepsSum`, adds up the second over the house: entries that passed the check sum
to zero, so `HouseAlwaysSumsToZero`. From the first two follow
`CacheIsLedger`, `NumbersHaveNoGap`, `NumbersAppearInOrder`,
`SnapshotsStayCurrent`, `DebtClockIsRight`, `DebtClockIsKept`, and `EngineIsAtomic`:
a commit is one step of `AtomicLedger`, every other step a stutter or a tick.

**DeliveryProofs.** `NoGapWindow` is `NothingLost` for any number of workers,
relays, gateways, clients, events and failures. The invariant `Inv` adds to the
types what a socket's place in `_handle_subscribe` means (`SocketOK`: while a
replay is to come, `base` is the `last_seq` asked for; a sound socket is on a
linked worker) and says of each socket what `NothingLost` says (`Covers`). A
publication puts the number on the wire of every linked worker, so a number that
is aired meanwhile reaches the queue or closes the socket; `ReplayTakes` shows that
a replay that does not close the socket has queued every row up to `upto`.
`NumbersAreCommitted` is the type invariant with the bound on the queue.

**RequestsProofs.** `RowsKeepTypes` (via `Known`: what attempts are about has been
issued). `LoginKeepsOneToken`: two writers about one login have been noticed, and
while one writes no other token of the login is live (`OneToken`). `KeysWorkOnce`:
the life of an unspoiled key is free, one attempt at work, or one effect with the
one answer that is stored or about to be (`OneRun`).

**SchedulerProofs.** The calendar lemmas show that the days
before a month grow by its length, leap years included, so `PlusDays` adds days
(`PlusDaysIsLater`) and `Advance` takes the k-th run to the next (`RunsAdvance`).
The invariant of a tick is `Types` (`TypeOK`, `Ticks`: only the holder of the lock
is at work, on a list of what there is). To it `BillsRunOnSchedule` adds that what
a tick has read of a bill is still so, unless patched (`ReadHolds`);
`RemindersAreOnce` that what is listed is old enough (`ListedIsOldEnough`);
`DocumentsHaveObjects` that a document being swept is still pending and not being
confirmed, unless excused (`DocumentOK`).

**HouseBooksProofs.** All theorems hold for any number of handlers that overlap in any
way. The types (`BooksKeepTypes`) come with `HandlerOK`: the row a request holds is one its
checks have accepted, and who is resolving has no stake. The latter stays so, as no
request changes who paid an expense or opened a dispute.

What is in the ledger needs more. `LedgerRight` has a part for each object. `ExpenseRight`
and `SettlementRight` say which ledger events name it, and what they add up to as a
function of how many there are: the bag of postings grows by one per posting, so the
count of a kind grows by one and its sum by one posting's entries, and both stay what
they were for every other object. `DisputeRight` has two halves: `Standing` is what no
overlap spoils (a resolution on record has moved money, an announced status was
announced), `Tidy` what holds until the dispute is in `overwritten`. The step from the
row read to the row there is a case distinction: either they are the same, and the
check made then is true now, or the write puts the object into `overwritten`.
`AlwaysRight` proves `Spec => [](Types /\ LedgerRight)`; from it follow
`ExpensesAreBookedOnce`, `SettlementsAreBookedOnce`, `DisputesAreBookedOnce`,
`StatusIsTold` and `OthersResolve`. `DisputesStayClosed` is an action property: of the
writers only review, reject and the two resolutions touch a dispute, none of them
passed its check on a closed one, so the row they read is not the closed row.

**MembershipProofs.** Likewise for any overlap. `RowsKeepTypes` says among other things that
no invite is recorded as used more often than it may be: what is written is a count read
below the limit, plus one. `HouseKeepsManager`: who passed the check either was no manager
or left another among the managers read (`OthersManage`), so if the row and the
managers are still those, one remains. `NobodyLeavesUneven`: the balance read was
zero. `LastEventTells` goes by the row as well: each write announces what it makes of
the row read. `InvitesAreCounted` needs that the count an acceptance has read is at most
that of the joins (`UsesRead`), as joins never become fewer; then the count it writes is, too.

**SettleUpProofs.** `SettleUpInvariant` is `SplitInv /\ LoopInv`, for any users, openings
and requests.

* `LoopInv` is what the optimizer's loop keeps. The debtors are a `Line`, and so are the
  creditors: each user who owes (is owed) something stands in it once, with what is left of
  it; before the position nothing is left, from the position on
  something. Whoever was even is left alone and what is left sums to zero
  (`EvenTogether`), so when one line is done, so is the other:
  `TransfersSettleUp`. Every turn finishes somebody, the last one two
  (`FewTransfers`): `TransfersAreFew`. What is left lies between nothing
  and the balance: `TransfersPayTowardsZero`.
* `SplitInv` says that balances sum to zero and that shares are those of a request that
  can be split. Rounding down leaves a remainder of at least zero and of no more
  cents than there are members (`FloorsLeaveCents`), the ranks below it get one each,
  so the shares sum to the amount (`SharesAddUp`) and their entries to zero
  (`EntriesAreEven`): `NoCentIsLost`.
* `SplitsAreFair` compares shares with the days a calendar counts. Clipping and
  subtracting each away range counts the days present only if no day is in two
  ranges (`PresenceCounts`). The theorem therefore has `RequestsApart` as a hypothesis, which
  nothing in the code checks; overlapping ranges are among the hazards.

Every invariant and action property that a passing run checks is stated by one of
these theorems. Only model-checked are the liveness properties (`EveryTxnEnds`, `ServedCatchUp`,
`RelayDrains`, `CatchesUp`): they need fairness and ENABLED, which the prover does
not handle. `ApartAssumption` and the five violations of section 5 are
about instances.

## 5. Where code and text disagree

Five runs end in a violation; each quotes the text it refutes (`findings`).

1. `house_books_race`: overlapping reversals of one expense, or confirmations of
   one settlement, are both posted. `reverse_expense` and `confirm` check the
   status on a row read without a lock (`ledger.py:240`, `settlements.py:93`).
   The tests that promise a 409 send the second request after the first.
2. `membership_race`: two managers who leave, or are demoted, at the same time
   both pass the count (`houses.py:251`, `houses.py:300`); no endpoint can appoint
   another.
3. `delivery_eviction`: the role is read before the socket is registered, so a
   member.left dispatched in between evicts nobody (`ws.py:187`, `ws.py:209`).
4. `settle_up_away`: a member of weight zero is given a remainder cent when first
   in UUID order (`splits.py:79`); the test that says such a member pays nothing
   uses an amount without remainder.
5. `scheduler_orphans`: an expense may name a document that was never confirmed
   (`expenses.py` takes any `document_id`). The sweep deletes all stale rows in one
   statement, which the foreign key then refuses at every tick (`scheduler.py:185`),
   though "stale pending Document rows" are said to go.

Other sequences the models have, without runs of their own:

* An invite admits more than `max_uses`, and one who leaves takes a debt along, when
  requests overlap (`houses.py:191`, `houses.py:298`). `overwritten`, and the exception
  in `LeavesEven`, let them happen.
* A resolution that overlaps another decision posts its adjustment although the dispute
  was rejected or resolved meanwhile (`disputes.py:236`); and since the UPDATE omits
  columns that equal the row read, status, kind and resolver may come from different
  requests. A rejecter, who may have a stake, can so remain the resolver on record.
* A key that has expired but is not swept keeps its old `request_hash` when
  another request takes it: a retry of the new one gets a 409, and the old
  request would be answered with the new one's answer (`idempotency.py:160`).
  `life` is spoiled by it.
* A retry that comes while the first attempt is at work, or after a crash between
  commit and `Store`, runs the handler again; for a refresh the 401 of the second
  may replace the stored 200 (`idempotency.py:125`).
* Two refreshes of one token that overlap both succeed, though the comment says
  "rotation: single use" (`auth.py:102`). `contested` records it.
* A PATCH of `next_run_at` while the bill is being billed is overwritten
  (`scheduler.py:86`). `clashed` records it.
* An unsplittable bill, or a `reminder_days` that is no list of numbers, ends every
  tick until it is mended, and with it what comes after in the tick for all
  houses. `Healthy` excludes it from `CatchesUp`.
* A confirmation that overlaps the sweep loses its object or its row. `excused`.

## 6. Plan

In this order; what is not ticked is not there yet.

- [x] `AtomicLedger`, `LedgerEngine` and its proofs: everything rests on it.
- [x] `HouseBooks`, `Membership`, `Splits`, `SettlementOptimizer`, `SettleUp`.
- [x] `Delivery`, `Requests`, `BillCalendar`, `Scheduler`.
- [x] Proofs of the safety of all stateful modules.
- [x] `Sums`, and with it what is a sum or a count: the house sums to zero, objects are
      booked once, invites are counted.
- [x] `SettleUp` from the invariant of the optimizer's loop and that of the split.
- [ ] An abstract specification of delivery (a client that stays subscribed sees a
      growing prefix) for `Delivery` to implement; several gateways in a run.
- [x] What is true of `HouseBooks` and `Membership` when requests overlap, checked with two
      handlers and proved for any number.

## 7. Not modelled

Left out for good: token formats, password hashing and HTTP details (no
state a property is about), split rules as rows (single writes without an
invariant between them), database triggers (a second line of defence behind
checks that are modelled), metrics and logging, the frontend (a page without
logic so far), S3 beyond "the object is there or not". Of the gateway, heartbeats
and token expiry appear only as the end of a socket (`Drop`), and typing frames, which
nothing keeps, not at all. `rebuild_balances.py` is not an action: it repairs rows that
differ from the ledger, and `CacheIsLedger` proves that no commit leaves any. (Were
there one, a posting that commits between the script's snapshot and its upsert would
be overwritten, so the script then wants a quiet database.) Other rows of the schema are
mapped where a module keeps them.
