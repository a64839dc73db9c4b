----------------------------- MODULE Scheduler ------------------------------
(***************************************************************************)
(* src/backend/app/scheduler.py with what it works on: recurring bills     *)
(* (recurring_bills.py), the members' debts and the house's reminder days, *)
(* and documents (documents.py, storage.py).  Two scheduler processes may  *)
(* run by accident; an advisory lock is to keep their ticks apart.         *)
(*                                                                         *)
(* One action is one transaction, one call of the object store, or the     *)
(* reading of a list that a tick then works through; requests come between *)
(* any two of them.  The clock moves by whole days.  Ledger postings       *)
(* appear as the dates billed; the sweep of idempotency keys is in         *)
(* Requests.                                                               *)
(***************************************************************************)
EXTENDS BillCalendar, FiniteSets, Sequences

CONSTANTS
    Schedulers,     \* scheduler processes
    Bills,          \* recurring_bills that may be created
    Schedules,      \* the [frequency, anchor, next] a bill may be created with
    Members,        \* members who may come to owe
    Documents,      \* documents that may be created
    Days,           \* the dates at which something happens
    FirstDay,       \* the earliest of them
    TierChoices,    \* what managers set reminder_days to: sets of days
    Malformed,      \* a reminder_days that is not a list of numbers
    MaxEvents,      \* bound on requests, borrowings and failures
    None

MAX_CATCHUP_PERIODS == 3
ORPHAN_DOCUMENT_AGE == 1

BillRows == [frequency : Frequencies, anchor : 1 .. 31, next : Dates, paused : BOOLEAN]
DocumentRows == [status : {"pending", "uploaded"}, created : Dates]
ReminderRows == [member : Members, debt : Dates, tier : Nat]
Phases == {"idle", "bills", "post", "remind", "documents"}

ASSUME NoneAssumption ==
    None \notin Schedulers /\ None \notin Dates /\ None \notin BillRows \cup DocumentRows

ASSUME ConstantsAssumption ==
    /\ FirstDay \in Dates /\ Days \subseteq Dates
    /\ \A c \in Schedules : c.frequency \in Frequencies /\ c.anchor \in 1 .. 31 /\ c.next \in Dates
    /\ \A c \in TierChoices : c \subseteq Nat
    /\ MaxEvents \in Nat

VARIABLES
    today,
    bill,           \* bill -> its row [frequency, anchor, next, paused], or None
    unsplittable,   \* bills whose split rule names somebody who has left
    since,          \* member -> balances.oldest_debt_at while in debt, or None
    reminderDays,   \* houses.settings["reminder_days"]
    reminders,      \* reminder notifications, in the order they were made
    document,       \* document -> its row [status, created], or None
    stored,         \* documents whose object is in the bucket
    attached,       \* documents named by an expense's document_id
    confirming,     \* confirm requests past their HEAD
    lock,           \* holder of the advisory lock, or None
    job,            \* scheduler -> where its tick stands
    events,         \* number of events so far, bounded by MaxEvents
    first,          \* bill -> the next_run_at last set by a request
    billed,         \* bill -> the dates billed since
    clashed,        \* bills whose next_run_at was patched while being billed
    excused         \* documents confirmed during a sweep of them, or whose
                    \* object the store would not delete

billVars == <<bill, unsplittable, first, billed, clashed>>
debtVars == <<since, reminderDays, reminders>>
documentVars == <<document, stored, attached, confirming, excused>>
tickVars == <<lock, job>>
vars == <<today, events, billVars, debtVars, documentVars, tickVars>>

-----------------------------------------------------------------------------

\* Where a tick stands: the list it works through and, for bills, the one at
\* hand, how often it has been billed in this tick and next_run_at as read.
At(phase, todo) ==
    [phase |-> phase, todo |-> todo, bill |-> None, round |-> 0, read |-> None]
Idle == At("idle", {})

Put(s, j) == job' = [job EXCEPT ![s] = j]

Unlock(s) == lock' = None /\ Put(s, Idle)

IsDue(b) == bill[b] # None /\ ~bill[b].paused /\ NotAfter(bill[b].next, today)
DueBills == {b \in Bills : IsDue(b)}

AgeInDays(d) == Ordinal(today) - Ordinal(d)

\* The highest tier a debt has reached, in a set of none or one.
ReachedTier(d) ==
    LET reached == {t \in reminderDays : AgeInDays(d) >= t}
    IN  {t \in reached : \A r \in reached : r <= t}

InDebt == {m \in Members : since[m] # None}

\* The reminders called for: at most one for every debt.
Reminders ==
    UNION { {[member |-> m, debt |-> since[m], tier |-> t] : t \in ReachedTier(since[m])} :
              m \in InDebt }

\* (Faulty: nobody looks.)
NeverSent(r) == FALSE

WasSent(r) == \E i \in DOMAIN reminders : reminders[i] = r

\* (Faulty: whatever its status.)
IsOld(d) ==
    /\ document[d] # None
    /\ AgeInDays(document[d].created) > ORPHAN_DOCUMENT_AGE

IsStale(d) ==
    /\ document[d] # None
    /\ document[d].status = "pending"
    /\ AgeInDays(document[d].created) > ORPHAN_DOCUMENT_AGE
StaleDocuments == {d \in Documents : IsStale(d)}

Swept == UNION {job[s].todo : s \in {t \in Schedulers : job[t].phase = "documents"}}

Init ==
    /\ today = FirstDay
    /\ bill = [b \in Bills |-> None]
    /\ unsplittable = {}
    /\ since = [m \in Members |-> None]
    /\ reminderDays \in TierChoices
    /\ reminders = <<>>
    /\ document = [d \in Documents |-> None]
    /\ stored = {} /\ attached = {} /\ confirming = {}
    /\ lock = None
    /\ job = [s \in Schedulers |-> Idle]
    /\ events = 0
    /\ first = [b \in Bills |-> None]
    /\ billed = [b \in Bills |-> <<>>]
    /\ clashed = {} /\ excused = {}

-----------------------------------------------------------------------------
(* The world around the scheduler.                                         *)

NextDay ==
    /\ \E d \in Days : ~NotAfter(d, today) /\ today' = d
    /\ UNCHANGED <<events, billVars, debtVars, documentVars, tickVars>>

Count == events < MaxEvents /\ events' = events + 1

\* POST /houses/{id}/recurring-bills
CreateBill(b) ==
    /\ bill[b] = None
    /\ \E c \in Schedules :
        /\ bill' = [bill EXCEPT ![b] =
                [frequency |-> c.frequency, anchor |-> c.anchor, next |-> c.next, paused |-> FALSE]]
        /\ first' = [first EXCEPT ![b] = c.next]
    /\ UNCHANGED <<unsplittable, billed, clashed>>

\* PATCH /houses/{id}/recurring-bills/{id}: pause, resume, or another date.
PatchBill(b) ==
    /\ bill[b] # None
    /\ \/ /\ bill' = [bill EXCEPT ![b].paused = ~@]
          /\ UNCHANGED <<first, billed, clashed>>
       \/ \E d \in Days :
          /\ bill' = [bill EXCEPT ![b].next = d]
          /\ first' = [first EXCEPT ![b] = d]
          /\ billed' = [billed EXCEPT ![b] = <<>>]
          /\ clashed' = clashed \cup {c \in {b} : \E s \in Schedulers : job[s].phase = "post" /\ job[s].bill = b}
    /\ UNCHANGED unsplittable

\* A member of the bill's rule leaves, or the rule is mended.
ChangeRule(b) ==
    /\ bill[b] # None
    /\ unsplittable' = IF b \in unsplittable THEN unsplittable \ {b} ELSE unsplittable \cup {b}
    /\ UNCHANGED <<bill, first, billed, clashed>>

\* A balance falls below zero, or comes back.
Borrow(m) ==
    /\ since[m] = None
    /\ since' = [since EXCEPT ![m] = today]
    /\ UNCHANGED <<reminderDays, reminders>>

Repay(m) ==
    /\ since[m] # None
    /\ since' = [since EXCEPT ![m] = None]
    /\ UNCHANGED <<reminderDays, reminders>>

\* PATCH /houses/{id}: settings is any object at all.
PatchHouse ==
    /\ reminderDays' \in (TierChoices \cup {Malformed}) \ {reminderDays}
    /\ UNCHANGED <<since, reminders>>

-----------------------------------------------------------------------------
(* Documents.                                                              *)

\* POST /houses/{id}/documents
CreateDocument(d) ==
    /\ document[d] = None
    /\ d \notin stored \cup confirming \cup excused     \* ids are not used again
    /\ document' = [document EXCEPT ![d] = [status |-> "pending", created |-> today]]
    /\ UNCHANGED <<stored, attached, confirming, excused>>

\* The client's PUT to the presigned URL, which is good for ten minutes.
Upload(d) ==
    /\ document[d] # None
    /\ document[d].created = today
    /\ stored' = stored \cup {d}
    /\ UNCHANGED <<document, attached, confirming, excused>>

\* POST /documents/{id}/confirm, up to its HEAD of the object...
HeadDocument(d) ==
    /\ document[d] # None
    /\ d \in stored
    /\ confirming' = confirming \cup {d}
    /\ excused' = excused \cup ({d} \cap Swept)
    /\ UNCHANGED <<document, stored, attached>>

\* ...and its UPDATE, which fails with StaleDataError if the row has gone.
ConfirmDocument(d) ==
    /\ d \in confirming
    /\ confirming' = confirming \ {d}
    /\ document' = IF document[d] = None THEN document
                   ELSE [document EXCEPT ![d].status = "uploaded"]
    /\ UNCHANGED <<stored, attached, excused>>

\* POST /houses/{id}/expenses with a document_id: any row will do.
AttachDocument(d) ==
    /\ document[d] # None
    /\ attached' = attached \cup {d}
    /\ UNCHANGED <<document, stored, confirming, excused>>

-----------------------------------------------------------------------------
(* A tick, in the order of tick().                                         *)

\* (Faulty: whether or not the lock is held elsewhere.)
StartTickAnyhow(s) ==
    /\ job[s] = Idle
    /\ lock' = s
    /\ Put(s, [At("bills", DueBills) EXCEPT !.round = MAX_CATCHUP_PERIODS])
    /\ UNCHANGED <<billVars, debtVars, documentVars>>

\* pg_try_advisory_lock, and the list of bills that are due.
StartTick(s) ==
    /\ job[s] = Idle
    /\ lock = None
    /\ lock' = s
    /\ Put(s, [At("bills", DueBills) EXCEPT !.round = MAX_CATCHUP_PERIODS])
    /\ UNCHANGED <<billVars, debtVars, documentVars>>

\* The bill at hand again, or the next of the list, unless it is (no longer)
\* due; it is then dropped.
ReadBill(s) ==
    /\ job[s].phase = "bills"
    /\ \E b \in IF job[s].round < MAX_CATCHUP_PERIODS THEN {job[s].bill} ELSE job[s].todo :
        LET rest == job[s].todo \ {b}
        IN  IF IsDue(b)
            THEN Put(s, [phase |-> "post", todo |-> rest, bill |-> b, read |-> bill[b].next,
                         round |-> IF b \in job[s].todo THEN 0 ELSE job[s].round])
            ELSE Put(s, [At("bills", rest) EXCEPT !.round = MAX_CATCHUP_PERIODS])
    /\ UNCHANGED <<lock, billVars, debtVars, documentVars>>

\* create_expense and the new next_run_at, worked out from the one read, in
\* one transaction...
PostBill(s) ==
    LET b == job[s].bill
    IN  /\ job[s].phase = "post"
        /\ b \notin unsplittable
        /\ bill' = [bill EXCEPT ![b].next =
                Advance(job[s].read, bill[b].frequency, bill[b].anchor)]
        /\ billed' = [billed EXCEPT ![b] = Append(@, job[s].read)]
        /\ Put(s, [phase |-> "bills", todo |-> job[s].todo, bill |-> b,
                   round |-> job[s].round + 1, read |-> None])
        /\ UNCHANGED <<lock, unsplittable, first, clashed, debtVars, documentVars>>

\* ...or an ApiError from the split, which ends the tick.
CannotSplit(s) ==
    /\ job[s].phase = "post"
    /\ job[s].bill \in unsplittable
    /\ Unlock(s)
    /\ UNCHANGED <<billVars, debtVars, documentVars>>

\* Debts and settings are read together; a malformed list raises at a debt.
StartReminders(s) ==
    /\ job[s].phase = "bills"
    /\ job[s].todo = {} /\ job[s].round = MAX_CATCHUP_PERIODS
    /\ IF reminderDays = Malformed
       THEN IF InDebt = {} THEN UNCHANGED lock /\ Put(s, At("remind", {})) ELSE Unlock(s)
       ELSE UNCHANGED lock /\ Put(s, At("remind", Reminders))
    /\ UNCHANGED <<billVars, debtVars, documentVars>>

SendReminder(s) ==
    /\ job[s].phase = "remind"
    /\ \E r \in job[s].todo :
        /\ reminders' = IF WasSent(r) THEN reminders ELSE Append(reminders, r)
        /\ Put(s, At("remind", job[s].todo \ {r}))
    /\ UNCHANGED <<lock, since, reminderDays, billVars, documentVars>>

\* The list of documents to sweep.
ReadStale(s) ==
    /\ job[s].phase = "remind"
    /\ job[s].todo = {}
    /\ Put(s, [At("documents", StaleDocuments) EXCEPT !.read = StaleDocuments])
    /\ excused' = excused \cup (StaleDocuments \cap confirming)
    /\ UNCHANGED <<lock, document, stored, attached, confirming, billVars, debtVars>>

\* delete_object swallows the store's errors.
DeleteObject(s) ==
    /\ job[s].phase = "documents"
    /\ \E d \in job[s].read :
        /\ \/ stored' = stored \ {d} /\ UNCHANGED <<excused, events>>
           \/ d \in stored /\ Count /\ excused' = excused \cup {d} /\ UNCHANGED stored
        /\ Put(s, [job[s] EXCEPT !.read = @ \ {d}])
    /\ UNCHANGED <<lock, document, attached, confirming, billVars, debtVars>>

\* DELETE of the rows on the list, whatever has become of them: all of them,
\* or none if the foreign key of an expense forbids one, which ends the tick
\* as well.
DeleteRows(s) ==
    /\ job[s].phase = "documents"
    /\ job[s].read = {}
    /\ document' = IF job[s].todo \cap attached = {}
                   THEN [d \in Documents |-> IF d \in job[s].todo THEN None ELSE document[d]]
                   ELSE document
    /\ Unlock(s)
    /\ UNCHANGED <<stored, attached, confirming, excused, billVars, debtVars>>

\* (Faulty: the lock stays behind.)
FailKeepsLock(s) ==
    /\ job[s] # Idle
    /\ Put(s, Idle)
    /\ UNCHANGED <<lock, billVars, debtVars, documentVars>>

\* An error of the database or the network, or the end of the process: its
\* open transaction is rolled back, and the lock goes with the connection.
Fail(s) ==
    /\ job[s] # Idle
    /\ Unlock(s)
    /\ UNCHANGED <<billVars, debtVars, documentVars>>

-----------------------------------------------------------------------------

TickStep(s) ==
    /\ \/ /\ UNCHANGED events
          /\ \/ StartTick(s) \/ ReadBill(s) \/ PostBill(s) \/ CannotSplit(s)
             \/ StartReminders(s) \/ SendReminder(s) \/ ReadStale(s) \/ DeleteRows(s)
       \/ DeleteObject(s)
    /\ UNCHANGED today

BillRequest(b) == CreateBill(b) \/ PatchBill(b) \/ ChangeRule(b)

DocumentRequest(d) ==
    \/ CreateDocument(d) \/ Upload(d) \/ HeadDocument(d) \/ ConfirmDocument(d)
    \/ AttachDocument(d)

Disturbance ==
    /\ Count
    /\ UNCHANGED today
    /\ \/ \E b \in Bills : BillRequest(b) /\ UNCHANGED <<debtVars, documentVars, tickVars>>
       \/ /\ PatchHouse \/ \E m \in Members : Borrow(m) \/ Repay(m)
          /\ UNCHANGED <<billVars, documentVars, tickVars>>
       \/ \E d \in Documents : DocumentRequest(d) /\ UNCHANGED <<billVars, debtVars, tickVars>>
       \/ \E s \in Schedulers : Fail(s)

Next == NextDay \/ Disturbance \/ \E s \in Schedulers : TickStep(s)

\* run_forever: every process goes on ticking, whatever a tick ends in.
Spec == Init /\ [][Next]_vars /\ \A s \in Schedulers : WF_vars(TickStep(s))

-----------------------------------------------------------------------------
(* Properties.                                                             *)

\* Every variable holds what its column, list or object may hold.
TypeOK ==
    /\ today \in Dates
    /\ bill \in [Bills -> BillRows \cup {None}]
    /\ first \in [Bills -> Dates \cup {None}]
    /\ \A b \in Bills : bill[b] # None => first[b] # None
    /\ billed \in [Bills -> Seq(Dates)]
    /\ since \in [Members -> Dates \cup {None}]
    /\ reminderDays \in TierChoices \cup {Malformed}
    /\ reminders \in Seq(ReminderRows)
    /\ document \in [Documents -> DocumentRows \cup {None}]
    /\ unsplittable \cup clashed \subseteq Bills
    /\ stored \cup attached \cup confirming \cup excused \subseteq Documents
    /\ lock \in Schedulers \cup {None}
    /\ \A s \in Schedulers :
          job[s].phase \in Phases /\ job[s].round \in 0 .. MAX_CATCHUP_PERIODS
    /\ events \in 0 .. MaxEvents

\* Whatever fails and wherever, whichever scheduler ticks and however late: a
\* bill is billed for the dates that its frequency and anchor day give from
\* its first date on, each of them once, in order, none left out and none
\* before its day.  (test_scheduler.py: a month of outage, a day 31.)
BilledOnSchedule ==
    \A b \in Bills : bill[b] # None /\ b \notin clashed =>
        /\ IsRun(bill[b].next, first[b], Len(billed[b]), bill[b].frequency, bill[b].anchor)
        /\ \A i \in DOMAIN billed[b] :
            /\ IsRun(billed[b][i], first[b], i - 1, bill[b].frequency, bill[b].anchor)
            /\ NotAfter(billed[b][i], today)

\* No debt is reminded of twice in one tier, or before it is old enough,
\* though every tick computes every debt's tier anew and may end anywhere.
RemindedOnce ==
    \A i \in DOMAIN reminders :
        /\ \A j \in DOMAIN reminders : reminders[i] = reminders[j] => i = j
        /\ AgeInDays(reminders[i].debt) >= reminders[i].tier

\* A confirmed document has its object and an object has its document, also
\* if the sweep stops halfway; but for a document confirmed while it was
\* being swept, and one whose object the store refused to delete.
ObjectsMatchRows ==
    \A d \in Documents \ excused :
        /\ document[d] # None /\ document[d].status = "uploaded" => d \in stored
        /\ d \in stored => document[d] # None

\* Nothing is there that makes every tick fail.
Healthy ==
    /\ unsplittable = {}
    /\ reminderDays # Malformed
    /\ StaleDocuments \cap attached = {}

CaughtUp ==
    /\ DueBills = {}
    /\ reminderDays # Malformed => \A r \in Reminders : WasSent(r)
    /\ StaleDocuments = {}

\* Once ticks can succeed again, everything gets done that has come due, for
\* all the periods, failed ticks and deaths of a process in between.
CatchesUp == <>[]Healthy => <>[]CaughtUp

\* scheduler.py:170: "Deletes stale pending Document rows (never confirmed
\* within 24h)".
OrphansSwept == <>[](unsplittable = {} /\ reminderDays # Malformed) => []<>(StaleDocuments = {})

=============================================================================
