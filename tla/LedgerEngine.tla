---------------------------- MODULE LedgerEngine ----------------------------
(***************************************************************************)
(* The ledger engine of src/backend/app/ledger.py at the grain of its      *)
(* database statements, for the balances and the event counter of one      *)
(* house.  Several transactions run at once; each statement is a step, the *)
(* row locks PostgreSQL takes are variables, and what a transaction wrote  *)
(* is visible to the others only from its commit on (READ COMMITTED).  A   *)
(* transaction may be rolled back at any point before its commit: a        *)
(* handler that raises, a worker that dies, a lost connection.             *)
(***************************************************************************)
EXTENDS Integers, FiniteSets, Functions

CONSTANTS
    NumUsers,   \* user ids are 1..NumUsers: the sort order of the UUIDs
    Postings,   \* the entry maps callers hand to post_ledger_event
    Txns,       \* the transactions that ever run, each once
    NoTxn,      \* "nobody", the owner of an unlocked row
    MaxClock    \* bound on the clock

Users == 1..NumUsers

ASSUME NumUsersAssumption == NumUsers \in Nat
ASSUME PostingsAssumption ==
    \A es \in Postings : /\ es \in [DOMAIN es -> Int]
                         /\ DOMAIN es \subseteq Users
ASSUME NoTxnAssumption == NoTxn \notin Txns
ASSUME MaxClockAssumption == MaxClock \in Nat

VARIABLES
    rows,       \* committed balances rows: user -> [present, cents, debt]
    posted,     \* SUM(amount_cents) of the committed ledger_entries of a user
    events,     \* committed outbox rows
    nextSeq,    \* committed house_seq_counters.next_seq
    owner,      \* who holds the row lock of (or has inserted) a balances row
    seqOwner,   \* who holds the row lock of the house's counter
    pc,         \* where a transaction stands
    entries,    \* the entry map it posts; empty when it only emits an event
    todo,       \* the rows its current loop has yet to visit
    image,      \* its private images of the balance rows
    stamp,      \* the `now` it wrote its entries with
    first,      \* the first sequence number it was given
    clock

committed == <<rows, posted, events, nextSeq>>
locks == <<owner, seqOwner>>
local == <<entries, todo, image, stamp, first>>
vars == <<committed, locks, pc, local, clock>>

-----------------------------------------------------------------------------
(* Rows, entries and events.                                               *)

NoDebt == 0
EmptyRow == [cents |-> 0, debt |-> NoDebt]
Row == [cents : Int, debt : Nat]
Committed(u) == [cents |-> rows[u].cents, debt |-> rows[u].debt]

\* The engine refuses an entry map that is empty or does not sum to zero.
Balanced(es) == DOMAIN es # {} /\ SumFunction(es) = 0

\* (Faulty: a debt that is paid off leaves its clock running.)
ChargeKeepsClock(row, amount, at) ==
    LET cents == row.cents + amount
    IN  [cents |-> cents, debt |-> IF row.debt = NoDebt /\ cents < 0 THEN at ELSE row.debt]

\* (Faulty: every posting that leaves a debt restarts its clock.)
ChargeRestartsClock(row, amount, at) ==
    LET cents == row.cents + amount
    IN  [cents |-> cents, debt |-> IF cents >= 0 THEN NoDebt ELSE at]

\* bal.balance_cents += amount, then the rule for oldest_debt_at.
Charge(row, amount, at) ==
    LET cents == row.cents + amount
    IN  [cents |-> cents,
         debt  |-> IF cents >= 0 THEN NoDebt
                   ELSE IF row.debt = NoDebt THEN at ELSE row.debt]

Nothing == [u \in {} |-> EmptyRow]
NoEntries == [u \in {} |-> 0]
Fact(n) == [seq |-> n, type |-> "domain", balances |-> Nothing]
Snapshot(n, bs) == [seq |-> n, type |-> "balance.updated", balances |-> bs]

Posts(t) == DOMAIN entries[t] # {}
Touched(t) == DOMAIN entries[t]

EventCount(t) == IF Posts(t) THEN 2 ELSE 1

\* (Faulty: the snapshot is taken of the balances before the posting.)
EmittedStale(t) ==
    {Fact(first[t])} \cup
    (IF Posts(t) THEN {Snapshot(first[t] + 1, [u \in Touched(t) |-> Committed(u)])} ELSE {})

\* The rows emit_events adds: the domain event and, after a posting, the
\* balance.updated snapshot of the balances it touched.
Emitted(t) ==
    {Fact(first[t])} \cup
    (IF Posts(t) THEN {Snapshot(first[t] + 1, Restrict(image[t], Touched(t)))} ELSE {})

-----------------------------------------------------------------------------
(* Transactions.                                                           *)

PCs == {"idle", "upsert", "lock", "apply", "alloc", "ready", "committed", "rolledback"}
Over == {"committed", "rolledback"}

Goto(t, from, to) == pc[t] = from /\ pc' = [pc EXCEPT ![t] = to]

Init ==
    /\ rows = [u \in Users |-> [present |-> FALSE, cents |-> 0, debt |-> NoDebt]]
    /\ posted = [u \in Users |-> 0]
    /\ events = {}
    /\ nextSeq = 1                                  \* create_house seeds it
    /\ owner = [u \in Users |-> NoTxn]
    /\ seqOwner = NoTxn
    /\ pc = [t \in Txns |-> "idle"]
    /\ entries = [t \in Txns |-> NoEntries]
    /\ todo = [t \in Txns |-> {}]
    /\ image = [t \in Txns |-> [u \in Users |-> EmptyRow]]
    /\ stamp = [t \in Txns |-> 0]
    /\ first = [t \in Txns |-> 0]
    /\ clock = 1

\* (Faulty: the zero-sum check is missing.)
PostUnchecked(t) ==
    /\ Goto(t, "idle", "upsert")
    /\ \E es \in Postings :
          /\ DOMAIN es # {}
          /\ entries' = [entries EXCEPT ![t] = es]
          /\ todo' = [todo EXCEPT ![t] = DOMAIN es]
    /\ UNCHANGED <<committed, locks, image, stamp, first, clock>>

\* post_ledger_event is called with entries that pass its two checks.
Post(t) ==
    /\ Goto(t, "idle", "upsert")
    /\ \E es \in Postings :
          /\ Balanced(es)
          /\ entries' = [entries EXCEPT ![t] = es]
          /\ todo' = [todo EXCEPT ![t] = DOMAIN es]
    /\ UNCHANGED <<committed, locks, image, stamp, first, clock>>

\* ... or with entries that do not: 422, and nothing has been written.
Refuse(t) ==
    /\ \E es \in Postings : ~Balanced(es)
    /\ Goto(t, "idle", "rolledback")
    /\ UNCHANGED <<committed, locks, local, clock>>

\* emit_events on its own, for an event that is not a posting.
Notify(t) ==
    /\ Goto(t, "idle", "alloc")
    /\ UNCHANGED <<committed, locks, local, clock>>

\* (Faulty: creditors first, the order in which callers build the map.)
IsNextByAmount(t, u) ==
    /\ u \in todo[t]
    /\ \A v \in todo[t] : entries[t][v] <= entries[t][u]

\* Both loops visit the rows in the order of sorted(entries).
IsNext(t, u) ==
    /\ u \in todo[t]
    /\ \A v \in todo[t] : u <= v

\* INSERT ... ON CONFLICT DO NOTHING.  A committed row is left alone, without
\* a lock.  A missing row is inserted, and stays this transaction's until it
\* ends; while another transaction's insert of it is uncommitted, this waits.
Upsert(t) ==
    /\ pc[t] = "upsert"
    /\ \E u \in Users :
          /\ IsNext(t, u)
          /\ \/ rows[u].present /\ UNCHANGED owner
             \/ /\ ~rows[u].present /\ owner[u] = NoTxn
                /\ owner' = [owner EXCEPT ![u] = t]
          /\ IF todo[t] = {u}
             THEN /\ pc' = [pc EXCEPT ![t] = "lock"]
                  /\ todo' = [todo EXCEPT ![t] = Touched(t)]
             ELSE /\ todo' = [todo EXCEPT ![t] = @ \ {u}]
                  /\ UNCHANGED pc
    /\ UNCHANGED <<committed, seqOwner, entries, image, stamp, first, clock>>

\* (Faulty: a plain SELECT.)
LockWithoutForUpdate(t) ==
    /\ pc[t] = "lock"
    /\ \E u \in Users :
          /\ IsNext(t, u)
          /\ image' = [image EXCEPT ![t][u] = Committed(u)]
          /\ todo' = [todo EXCEPT ![t] = @ \ {u}]
          /\ pc' = [pc EXCEPT ![t] = IF todo[t] = {u} THEN "apply" ELSE "lock"]
    /\ UNCHANGED <<committed, locks, entries, stamp, first, clock>>

\* SELECT ... ORDER BY user_id FOR UPDATE: one row lock after the other, each
\* row read as last committed at the moment its lock is granted.
Lock(t) ==
    /\ pc[t] = "lock"
    /\ \E u \in Users :
          /\ IsNext(t, u)
          /\ owner[u] \in {NoTxn, t}
          /\ owner' = [owner EXCEPT ![u] = t]
          /\ image' = [image EXCEPT ![t][u] = Committed(u)]
          /\ todo' = [todo EXCEPT ![t] = @ \ {u}]
          /\ pc' = [pc EXCEPT ![t] = IF todo[t] = {u} THEN "apply" ELSE "lock"]
    /\ UNCHANGED <<committed, seqOwner, entries, stamp, first, clock>>

\* The ledger event, its entries and the new balances, all still private.
Apply(t) ==
    /\ Goto(t, "apply", "alloc")
    /\ stamp' = [stamp EXCEPT ![t] = clock]
    /\ image' = [image EXCEPT ![t] =
                   [u \in Users |-> IF u \in Touched(t)
                                    THEN Charge(image[t][u], entries[t][u], clock)
                                    ELSE image[t][u]]]
    /\ UNCHANGED <<committed, locks, entries, todo, first, clock>>

\* (Faulty: the counter is only read, without its row lock.)
AllocateUnlocked(t) ==
    /\ Goto(t, "alloc", "ready")
    /\ first' = [first EXCEPT ![t] = nextSeq]
    /\ UNCHANGED <<committed, locks, entries, todo, image, stamp, clock>>

\* (Faulty: n subtracted from a counter that was returned before it advanced.)
AllocateTooLow(t) ==
    /\ Goto(t, "alloc", "ready")
    /\ seqOwner = NoTxn
    /\ seqOwner' = t
    /\ first' = [first EXCEPT ![t] = nextSeq - EventCount(t)]
    /\ UNCHANGED <<committed, owner, entries, todo, image, stamp, clock>>

\* The upsert of the house's counter: it waits for the counter's row lock and
\* keeps it to the end of the transaction.
Allocate(t) ==
    /\ Goto(t, "alloc", "ready")
    /\ seqOwner = NoTxn
    /\ seqOwner' = t
    /\ first' = [first EXCEPT ![t] = nextSeq]
    /\ UNCHANGED <<committed, owner, entries, todo, image, stamp, clock>>

\* The end of a transaction frees every lock it holds.
Release(t) ==
    /\ owner' = [u \in Users |-> IF owner[u] = t THEN NoTxn ELSE owner[u]]
    /\ seqOwner' = IF seqOwner = t THEN NoTxn ELSE seqOwner

\* The caller's commit: balances, entries, events and counter together.
Commit(t) ==
    /\ Goto(t, "ready", "committed")
    /\ rows' = [u \in Users |->
                  IF u \in Touched(t)
                  THEN [present |-> TRUE, cents |-> image[t][u].cents, debt |-> image[t][u].debt]
                  ELSE rows[u]]
    /\ posted' = [u \in Users |-> IF u \in Touched(t) THEN posted[u] + entries[t][u] ELSE posted[u]]
    /\ events' = events \cup Emitted(t)
    /\ nextSeq' = first[t] + EventCount(t)
    /\ Release(t)
    /\ UNCHANGED <<local, clock>>

\* (Faulty: a database sequence, whose numbers a rollback does not give back.)
RollbackBurnsSeqs(t) ==
    /\ pc[t] \notin {"idle"} \cup Over
    /\ pc' = [pc EXCEPT ![t] = "rolledback"]
    /\ nextSeq' = IF pc[t] = "ready" THEN first[t] + EventCount(t) ELSE nextSeq
    /\ Release(t)
    /\ UNCHANGED <<rows, posted, events, local, clock>>

\* An error or a crash anywhere before the commit: inserted rows, new images
\* and the advanced counter are gone.
Rollback(t) ==
    /\ pc[t] \notin {"idle"} \cup Over
    /\ pc' = [pc EXCEPT ![t] = "rolledback"]
    /\ Release(t)
    /\ UNCHANGED <<committed, local, clock>>

Tick ==
    /\ clock < MaxClock
    /\ clock' = clock + 1
    /\ UNCHANGED <<committed, locks, pc, local>>

\* What a transaction does of its own accord.
Step(t) == Post(t) \/ Refuse(t) \/ Notify(t) \/ Upsert(t) \/ Lock(t) \/ Apply(t) \/ Allocate(t) \/ Commit(t)

Next == Tick \/ \E t \in Txns : Step(t) \/ Rollback(t)

Spec == Init /\ [][Next]_vars

\* A begun transaction is driven on by its worker, and PostgreSQL wakes a
\* waiter when the lock it waits for is free.  Nothing makes a request arrive,
\* time pass or a transaction fail.
Drive(t) == Upsert(t) \/ Lock(t) \/ Apply(t) \/ Allocate(t) \/ Commit(t)
FairSpec == Spec /\ \A t \in Txns : WF_vars(Drive(t))

-----------------------------------------------------------------------------
(* What makes the engine correct.                                          *)

TypeOK ==
    /\ rows \in [Users -> [present : BOOLEAN, cents : Int, debt : Nat]]
    /\ posted \in [Users -> Int]
    /\ \A e \in events : e.seq \in Nat /\ DOMAIN e.balances \subseteq Users
    /\ nextSeq \in Nat \ {0}
    /\ owner \in [Users -> Txns \cup {NoTxn}]
    /\ seqOwner \in Txns \cup {NoTxn}
    /\ pc \in [Txns -> PCs]
    /\ entries \in [Txns -> Postings \cup {NoEntries}]
    /\ todo \in [Txns -> SUBSET Users]
    /\ image \in [Txns -> [Users -> Row]]
    /\ stamp \in [Txns -> Nat]
    /\ first \in [Txns -> Nat]
    /\ clock \in Nat \ {0}

\* The cache is the ledger: in every committed state each cached balance is the
\* sum of that user's entries, however postings to the same users interleave
\* and whichever of them fail (post_ledger_event's locked read-modify-write;
\* what scripts/rebuild_balances.py recomputes).
BalancesMatchLedger == \A u \in Users : rows[u].cents = posted[u]

\* Double entry holds of the cache as a whole: the house's balances sum to
\* zero, although each row is written on its own.
HouseSumsToZero == SumFunction([u \in Users |-> rows[u].cents]) = 0

\* The house's sequence numbers are exactly 1 .. nextSeq - 1, each on one event:
\* no gap and no duplicate, rolled back transactions included (emit_events).
SeqsGapless ==
    /\ \A e \in events : e.seq \in 1..(nextSeq - 1)
    /\ \A n \in 1..(nextSeq - 1) : \E e \in events : e.seq = n
    /\ \A e, f \in events : e.seq = f.seq => e = f

\* Events become visible in the order of their numbers: a commit never makes an
\* event appear below one that a relay or a client has already seen, so
\* "everything after last_seq" misses nothing.
EventsAppearInOrder ==
    [][\A e \in events' \ events : \A f \in events : f.seq < e.seq]_vars

\* The newest balance.updated event that names a user carries the user's
\* present balance and debt clock: a client that applies events in order ends
\* up with the balances in the database.
SnapshotsCurrent ==
    \A e \in events : \A u \in DOMAIN e.balances :
        \/ e.balances[u] = Committed(u)
        \/ \E f \in events : u \in DOMAIN f.balances /\ f.seq > e.seq

\* A debt clock runs exactly while the balance is negative, in every committed
\* state (oldest_debt_at, which the reminders are keyed by).
DebtClockRuns == \A u \in Users : rows[u].debt # NoDebt <=> rows[u].cents < 0

\* While a user stays in debt the clock keeps the time the debt began: no
\* later posting, however interleaved, restarts it.
DebtClockKept ==
    [][\A u \in Users :
          rows[u].cents < 0 /\ rows'[u].cents < 0 => rows'[u].debt = rows[u].debt]_vars

\* Every transaction that has begun comes to an end: the sorted lock order and
\* the counter taken last leave no circle of waiting transactions.
EveryTxnEnds == \A t \in Txns : pc[t] # "idle" ~> pc[t] \in Over

\* A posting looks atomic: commits are the steps of AtomicLedger and everything
\* else is invisible.
Atomic == INSTANCE AtomicLedger
              WITH balances <- [u \in Users |-> Committed(u)]
ImplementsAtomicLedger == Atomic!Spec

=============================================================================
