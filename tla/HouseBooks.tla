----------------------------- MODULE HouseBooks -----------------------------
(***************************************************************************)
(* Expenses, settlements and disputes of one house, and what they post to  *)
(* the ledger: src/backend/app/expenses.py, settlements.py, disputes.py    *)
(* and the callers' half of ledger.py.  Membership and roles do not change *)
(* here (see Membership).                                                  *)
(*                                                                         *)
(* A handler that changes an existing object runs in two steps, as it does *)
(* in the code: it reads the object, without a lock, and checks it; later  *)
(* it writes and commits.  Other handlers may commit in between, and the   *)
(* write is an UPDATE by primary key that does not look at the status      *)
(* again.  A posting is one step: LedgerEngine implements AtomicLedger.    *)
(***************************************************************************)
EXTENDS Integers, Bags, BagsExt, Splits

CONSTANTS
    Users,          \* the active members
    Managers,       \* those with the manager role
    Expenses, Settlements, Disputes,    \* identities to be used up
    ShareMaps,      \* what compute_shares may return: user -> cents
    Adjustments,    \* what a resolver may propose: user -> cents
    Amounts,        \* what a settlement may be over
    Workers,        \* request handlers that may be at work at one time
    MaxComments     \* bound on the comments on all disputes

ASSUME ManagersAssumption == Managers \subseteq Users
ASSUME IdentitiesAssumption ==
    /\ Expenses \cap Settlements = {}
    /\ Expenses \cap Disputes = {}
    /\ Settlements \cap Disputes = {}
ASSUME CentsAssumption ==
    /\ \A shares \in ShareMaps : IsFiniteSet(DOMAIN shares) /\ shares \in [DOMAIN shares -> Int]
    /\ Amounts \subseteq Int

VARIABLES
    expense,    \* id -> [status, payer, creator, shares]
    settlement, \* id -> [status, from, to, amount]
    dispute,    \* id -> [status, expense, opener, kind, resolver]
    ledger,     \* bag of committed ledger events [kind, ref, entries, by]
    outbox,     \* bag of committed domain events [type, ref, told]
    handler,    \* worker -> the request it has checked but not yet committed
    overwritten \* not in the code: the objects that were written by a request
                \* although they were no longer as it had read them

vars == <<expense, settlement, dispute, ledger, outbox, handler, overwritten>>

-----------------------------------------------------------------------------
(* Objects, ledger events and outbox events.                               *)

Nobody == "nobody"
Absent == [status |-> "absent"]
Idle == [op |-> "idle"]

ExpenseRows ==
    [status : {"active", "reversed"}, payer : Users, creator : Users, shares : ShareMaps]
SettlementRows ==
    [status : {"pending", "confirmed", "rejected"}, from : Users, to : Users, amount : Amounts]
DisputeRows ==
    [status : {"open", "under_review", "resolved", "rejected"}, expense : Expenses,
     opener : Users, kind : {"none", "adjustment", "full_reversal"},
     resolver : Managers \cup {Nobody}]

Exists(obj) == obj.status # "absent"

Negated(entries) == [u \in DOMAIN entries |-> -entries[u]]

\* CopiesIn of Bags, which the prover's own version of that module lacks.
Copies(x, bag) == IF BagIn(x, bag) THEN bag[x] ELSE 0

LedgerEvents == BagToSet(ledger)
Original(e) == CHOOSE f \in LedgerEvents : f.kind = "expense" /\ f.ref = e

\* A ledger event of one handler, with the domain event it announces.
Book(kind, ref, entries, by, type) ==
    /\ ledger' = BagAdd(ledger, [kind |-> kind, ref |-> ref, entries |-> entries, by |-> by])
    /\ outbox' = BagAdd(outbox, [type |-> type, ref |-> ref])

\* dispute.under_review and dispute.rejected stand for the code's
\* dispute.status_changed with that status in its payload.
Announce(type, ref) == outbox' = BagAdd(outbox, [type |-> type, ref |-> ref])

\* How many ledger events of a kind an object has.
Booked(kind, ref) ==
    MapThenSumSet(LAMBDA f : Copies(f, ledger),
                  {f \in LedgerEvents : f.kind = kind /\ f.ref = ref})

\* The ledger events of an object.
EventsOf(ref) == {f \in LedgerEvents : f.ref = ref}

\* What the ledger events of a set have done to a user's balance.
Effect(fs, u) ==
    MapThenSumSet(LAMBDA f : Copies(f, ledger) * f.entries[u],
                  {f \in fs : u \in DOMAIN f.entries})

Told(type, ref) == Copies([type |-> type, ref |-> ref], outbox)

-----------------------------------------------------------------------------
(* Handlers that only create: one transaction, nothing read that changes.  *)

Init ==
    /\ expense = [e \in Expenses |-> Absent]
    /\ settlement = [s \in Settlements |-> Absent]
    /\ dispute = [d \in Disputes |-> Absent]
    /\ ledger = EmptyBag
    /\ outbox = EmptyBag
    /\ handler = [w \in Workers |-> Idle]
    /\ overwritten = {}

\* POST /expenses.  Only a manager enters what another has paid.
CreateExpense(u, e) ==
    /\ ~Exists(expense[e])
    /\ \E payer \in Users, shares \in ShareMaps :
          /\ payer = u \/ u \in Managers
          /\ expense' = [expense EXCEPT ![e] =
                [status |-> "active", payer |-> payer, creator |-> u, shares |-> shares]]
          /\ Book("expense", e, Collapsed(payer, shares), u, "expense.created")
    /\ UNCHANGED <<settlement, dispute, handler, overwritten>>

\* (Faulty: one may settle with oneself.)
CreateSettlementWithSelf(u, s) ==
    /\ ~Exists(settlement[s])
    /\ \E v \in Users, amount \in Amounts :
          settlement' = [settlement EXCEPT ![s] =
                [status |-> "pending", from |-> u, to |-> v, amount |-> amount]]
    /\ UNCHANGED <<expense, dispute, ledger, outbox, handler, overwritten>>

\* POST /settlements.  Nothing is posted before the payee confirms.
CreateSettlement(u, s) ==
    /\ ~Exists(settlement[s])
    /\ \E v \in Users \ {u}, amount \in Amounts :
          settlement' = [settlement EXCEPT ![s] =
                [status |-> "pending", from |-> u, to |-> v, amount |-> amount]]
    /\ UNCHANGED <<expense, dispute, ledger, outbox, handler, overwritten>>

\* POST /expenses/{id}/disputes, by a user who holds a share; the expense's
\* status does not matter.
OpenDispute(u, d) ==
    /\ ~Exists(dispute[d])
    /\ \E e \in Expenses :
          /\ Exists(expense[e])
          /\ u \in DOMAIN expense[e].shares
          /\ dispute' = [dispute EXCEPT ![d] =
                [status |-> "open", expense |-> e, opener |-> u,
                 kind |-> "none", resolver |-> Nobody]]
    /\ Announce("dispute.opened", d)
    /\ UNCHANGED <<expense, settlement, ledger, handler, overwritten>>

\* POST /disputes/{id}/comments, whatever the dispute's status.
AddComment(d) ==
    /\ Exists(dispute[d])
    /\ MapThenSumSet(LAMBDA x : Told("dispute.comment_added", x), Disputes) < MaxComments
    /\ Announce("dispute.comment_added", d)
    /\ UNCHANGED <<expense, settlement, dispute, ledger, handler, overwritten>>

-----------------------------------------------------------------------------
(* Handlers that check first and write later.  A request whose checks fail *)
(* is answered 403, 404, 409 or 422 and changes nothing.                   *)

Start(w, request) == handler[w] = Idle /\ handler' = [handler EXCEPT ![w] = request]
Finish(w) == handler' = [handler EXCEPT ![w] = Idle]
Objects == <<expense, settlement, dispute, ledger, outbox, overwritten>>

\* Of what a request is about to write, what is no longer as it read it.
LateExpense(e, row) == {x \in {e} : expense[x] # row}
LateSettlement(h) == {x \in {h.ref} : settlement[x] # h.row}
LateDispute(h) == {x \in {h.ref} : dispute[x] # h.row}
Note(late) == overwritten' = overwritten \cup late

\* (Faulty: an expense may be reversed again.)
CheckReverseAgain(w, u, e) ==
    /\ Exists(expense[e])
    /\ u \in Managers \/ u = expense[e].creator
    /\ Start(w, [op |-> "reverse", by |-> u, ref |-> e, row |-> expense[e]])
    /\ UNCHANGED Objects

\* POST /expenses/{id}/reverse
CheckReverse(w, u, e) ==
    /\ Exists(expense[e])
    /\ u \in Managers \/ u = expense[e].creator
    /\ expense[e].status # "reversed"
    /\ Start(w, [op |-> "reverse", by |-> u, ref |-> e, row |-> expense[e]])
    /\ UNCHANGED Objects

\* reverse_expense after its check.
Reversal(u, e) ==
    /\ Book("expense_reversal", e, Negated(Original(e).entries), u, "expense.reversed")
    /\ expense' = [expense EXCEPT ![e].status = "reversed"]

Reverse(w) ==
    /\ handler[w].op = "reverse"
    /\ Reversal(handler[w].by, handler[w].ref)
    /\ Note(LateExpense(handler[w].ref, handler[w].row))
    /\ Finish(w)
    /\ UNCHANGED <<settlement, dispute>>

\* POST /settlements/{id}/confirm and /reject: the payee, while it is pending.
CheckSettlement(w, s) ==
    /\ Exists(settlement[s])
    /\ settlement[s].status = "pending"
    /\ \E op \in {"confirm", "refuse"} :
          Start(w, [op |-> op, by |-> settlement[s].to, ref |-> s, row |-> settlement[s]])
    /\ UNCHANGED Objects

\* (Faulty: the payee is credited instead of the payer.)
ConfirmBackwards(w) ==
    /\ handler[w].op = "confirm"
    /\ LET s == handler[w].ref
           x == settlement[s]
       IN  /\ settlement' = [settlement EXCEPT ![s].status = "confirmed"]
           /\ Book("settlement", s, [u \in {x.from, x.to} |->
                                       IF u = x.to THEN x.amount ELSE -x.amount],
                   handler[w].by, "settlement.confirmed")
    /\ Note(LateSettlement(handler[w]))
    /\ Finish(w)
    /\ UNCHANGED <<expense, dispute>>

Confirm(w) ==
    /\ handler[w].op = "confirm"
    /\ LET s == handler[w].ref
           x == settlement[s]
       IN  /\ settlement' = [settlement EXCEPT ![s].status = "confirmed"]
           /\ Book("settlement", s, [u \in {x.from, x.to} |->
                                       IF u = x.from THEN x.amount ELSE -x.amount],
                   handler[w].by, "settlement.confirmed")
    /\ Note(LateSettlement(handler[w]))
    /\ Finish(w)
    /\ UNCHANGED <<expense, dispute>>

RefuseSettlement(w) ==
    /\ handler[w].op = "refuse"
    /\ settlement' = [settlement EXCEPT ![handler[w].ref].status = "rejected"]
    /\ Note(LateSettlement(handler[w]))
    /\ Finish(w)
    /\ UNCHANGED <<expense, dispute, ledger, outbox>>

\* POST /disputes/{id}/review
CheckReview(w, m, d) ==
    /\ dispute[d].status = "open"
    /\ Start(w, [op |-> "review", by |-> m, ref |-> d, row |-> dispute[d]])
    /\ UNCHANGED Objects

Review(w) ==
    /\ handler[w].op = "review"
    /\ dispute' = [dispute EXCEPT ![handler[w].ref].status = "under_review"]
    /\ Announce("dispute.under_review", handler[w].ref)
    /\ Note(LateDispute(handler[w]))
    /\ Finish(w)
    /\ UNCHANGED <<expense, settlement, ledger>>

\* (Faulty: only the opener, not the payer, counts as having a stake.)
HasStakeAsOpener(m, d) == m = dispute[d].opener

\* A resolver has a stake who opened the dispute or paid the expense.
HasStake(m, d) == m \in {dispute[d].opener, expense[dispute[d].expense].payer}

\* POST /disputes/{id}/resolve: the dispute is checked, then the proposal.
CheckResolve(w, m, d) ==
    /\ dispute[d].status = "under_review"
    /\ ~HasStake(m, d)
    /\ \/ Start(w, [op |-> "check_reversal", by |-> m, ref |-> d, row |-> dispute[d]])
       \/ \E adj \in Adjustments, kind \in {"none", "adjustment"} :
             /\ DOMAIN adj # {}
             /\ SumFunction(adj) = 0
             /\ Start(w, [op |-> "adjust", by |-> m, ref |-> d, row |-> dispute[d],
                        kind |-> kind, entries |-> adj])
    /\ UNCHANGED Objects

\* ... and for a full reversal, the expense, read in a later statement.
CheckResolveExpense(w) ==
    LET h == handler[w]
        charge == expense[dispute[h.ref].expense]
    IN  /\ h.op = "check_reversal"
        /\ handler' = [handler EXCEPT ![w] =
              IF charge.status = "reversed"
              THEN Idle
              ELSE [op |-> "undo", by |-> h.by, ref |-> h.ref, row |-> h.row, charge |-> charge]]
        /\ UNCHANGED Objects

\* Only what differs from the row as it was read is written; the status does.
Close(h, status, kind) ==
    dispute' = [dispute EXCEPT ![h.ref].status = status,
                               ![h.ref].kind = IF kind = h.row.kind THEN @ ELSE kind,
                               ![h.ref].resolver = IF h.by = h.row.resolver THEN @ ELSE h.by]

\* A full reversal announces the reversal, and nothing of the dispute.
ResolveByReversal(w) ==
    /\ handler[w].op = "undo"
    /\ Reversal(handler[w].by, dispute[handler[w].ref].expense)
    /\ Close(handler[w], "resolved", "full_reversal")
    /\ Note(LateDispute(handler[w])
               \cup LateExpense(dispute[handler[w].ref].expense, handler[w].charge))
    /\ Finish(w)
    /\ UNCHANGED settlement

\* (Faulty: the dispute stays as it was.)
AdjustWithoutClosing(w) ==
    /\ handler[w].op = "adjust"
    /\ Book("adjustment", handler[w].ref, handler[w].entries, handler[w].by, "dispute.resolved")
    /\ Note(LateDispute(handler[w]))
    /\ Finish(w)
    /\ UNCHANGED <<expense, settlement, dispute>>

ResolveByAdjustment(w) ==
    /\ handler[w].op = "adjust"
    /\ Book("adjustment", handler[w].ref, handler[w].entries, handler[w].by, "dispute.resolved")
    /\ Close(handler[w], "resolved", handler[w].kind)
    /\ Note(LateDispute(handler[w]))
    /\ Finish(w)
    /\ UNCHANGED <<expense, settlement>>

\* (Faulty: any dispute may be rejected.)
CheckRejectAny(w, m, d) ==
    /\ Exists(dispute[d])
    /\ Start(w, [op |-> "reject", by |-> m, ref |-> d, row |-> dispute[d]])
    /\ UNCHANGED Objects

\* POST /disputes/{id}/reject, by any manager, one with a stake included.
CheckReject(w, m, d) ==
    /\ dispute[d].status \in {"open", "under_review"}
    /\ Start(w, [op |-> "reject", by |-> m, ref |-> d, row |-> dispute[d]])
    /\ UNCHANGED Objects

\* (Faulty: no event tells of the rejection.)
RejectSilently(w) ==
    /\ handler[w].op = "reject"
    /\ Close(handler[w], "rejected", handler[w].row.kind)
    /\ Note(LateDispute(handler[w]))
    /\ Finish(w)
    /\ UNCHANGED <<expense, settlement, ledger, outbox>>

Reject(w) ==
    /\ handler[w].op = "reject"
    /\ Close(handler[w], "rejected", handler[w].row.kind)
    /\ Note(LateDispute(handler[w]))
    /\ Announce("dispute.rejected", handler[w].ref)
    /\ Finish(w)
    /\ UNCHANGED <<expense, settlement, ledger>>

\* A handler fails between its check and its commit: nothing was written.
Fail(w) ==
    /\ handler[w] # Idle
    /\ Finish(w)
    /\ UNCHANGED Objects

Check(w) ==
    \/ \E u \in Users, e \in Expenses : CheckReverse(w, u, e)
    \/ \E s \in Settlements : CheckSettlement(w, s)
    \/ \E m \in Managers, d \in Disputes :
          CheckReview(w, m, d) \/ CheckResolve(w, m, d) \/ CheckReject(w, m, d)
    \/ CheckResolveExpense(w)

Write(w) ==
    \/ Reverse(w) \/ Confirm(w) \/ RefuseSettlement(w) \/ Review(w)
    \/ ResolveByReversal(w) \/ ResolveByAdjustment(w) \/ Reject(w)

Create(u) ==
    \/ \E e \in Expenses : CreateExpense(u, e)
    \/ \E s \in Settlements : CreateSettlement(u, s)
    \/ \E d \in Disputes : OpenDispute(u, d)

Next ==
    \/ \E u \in Users : Create(u)
    \/ \E d \in Disputes : AddComment(d)
    \/ \E w \in Workers : Check(w) \/ Write(w) \/ Fail(w)

Spec == Init /\ [][Next]_vars

-----------------------------------------------------------------------------
(* What makes the books right.                                             *)

TypeOK ==
    /\ expense \in [Expenses -> ExpenseRows \cup {Absent}]
    /\ settlement \in [Settlements -> SettlementRows \cup {Absent}]
    /\ dispute \in [Disputes -> DisputeRows \cup {Absent}]
    /\ \A s \in Settlements : Exists(settlement[s]) => settlement[s].from # settlement[s].to
    /\ \A d \in Disputes : Exists(dispute[d]) => Exists(expense[dispute[d].expense])
    /\ IsABag(ledger) /\ IsABag(outbox)
    /\ overwritten \subseteq Expenses \cup Settlements \cup Disputes

\* An expense is booked once, as its shares say. Its status is reversed exactly
\* if the ledger has a reversal, whether a member or a dispute's resolution made
\* it; each reversal takes away once what was booked, so that one leaves every
\* balance where it was. There is more than one only if a request reversed the
\* expense although it was no longer as it had read it.
ExpenseBooked ==
    \A e \in Expenses : Exists(expense[e]) =>
        LET entries == Collapsed(expense[e].payer, expense[e].shares)
            reversals == Booked("expense_reversal", e)
        IN  /\ Booked("expense", e) = 1
            /\ expense[e].status = "reversed" <=> reversals > 0
            /\ \A u \in DOMAIN entries : Effect(EventsOf(e), u) = (1 - reversals) * entries[u]
            /\ reversals > 1 => e \in overwritten

\* A settlement moves its amount from the payee's claim to the payer with each
\* confirmation and not otherwise: never while it is pending, at least once if it
\* is confirmed, and, unless a request wrote over an answer it had not read,
\* once if it is confirmed and never if it is rejected.
SettlementBooked ==
    \A s \in Settlements : Exists(settlement[s]) =>
        LET x == settlement[s]
            times == Booked("settlement", s)
        IN  /\ Effect(EventsOf(s), x.from) = times * x.amount
            /\ Effect(EventsOf(s), x.to) = -(times * x.amount)
            /\ x.status = "pending" => times = 0
            /\ x.status = "confirmed" => times > 0
            /\ s \notin overwritten => times = IF x.status = "confirmed" THEN 1 ELSE 0

\* No dispute is resolved without money: it has an adjustment of its own or its
\* expense is reversed. Unless a request wrote over a decision it had not read,
\* it has one adjustment or the reversal its resolver made, and a dispute that
\* is rejected or undecided has neither.
DisputeBooked ==
    \A d \in Disputes : Exists(dispute[d]) =>
        LET x == dispute[d]
            adjustments == Booked("adjustment", d)
        IN  /\ x.status = "open" => adjustments = 0
            /\ x.status = "resolved" => adjustments > 0 \/ Booked("expense_reversal", x.expense) > 0
            /\ d \notin overwritten =>
                  /\ adjustments = IF x.status = "resolved" /\ x.kind # "full_reversal" THEN 1 ELSE 0
                  /\ x.kind = "full_reversal" =>
                        /\ x.status = "resolved"
                        /\ \E f \in EventsOf(x.expense) :
                              f.kind = "expense_reversal" /\ f.by = x.resolver

\* Nobody decides over money in a dispute they opened or whose expense they
\* paid: no adjustment is by one with a stake, whatever requests overlap, nor is
\* one with a stake recorded as the resolver, unless a request wrote over a
\* decision it had not read.
NoStakeInResolution ==
    \A d \in Disputes : Exists(dispute[d]) =>
        LET parties == {dispute[d].opener, expense[dispute[d].expense].payer}
        IN  /\ \A f \in EventsOf(d) : f.kind = "adjustment" => f.by \notin parties
            /\ dispute[d].status = "resolved" /\ d \notin overwritten =>
                  dispute[d].resolver \notin parties

\* A decision about a dispute that is no longer as it was read for it.
DecidesLate(h, d) ==
    /\ h.op \in {"review", "reject", "undo", "adjust"}
    /\ h.ref = d
    /\ h.row # dispute[d]

\* A dispute stays about the same expense and by the same opener, never opens
\* again, and once closed stays as it was closed, status, kind and resolver, but
\* for a request that writes over a decision it had not read.
DisputeFinal ==
    [][\A d \in Disputes : Exists(dispute[d]) =>
          /\ dispute'[d].expense = dispute[d].expense /\ dispute'[d].opener = dispute[d].opener
          /\ dispute'[d].status = "open" => dispute[d].status = "open"
          /\ dispute[d].status \in {"resolved", "rejected"} =>
                \/ dispute'[d] = dispute[d]
                \/ \E w \in Workers : DecidesLate(handler[w], d) /\ handler'[w] = Idle]_vars

\* The events tell all that the ledger holds, and where a dispute stands has been
\* told at some time. A client that knows only the events can tell where it
\* stands, but for a resolution by full reversal, which announces only
\* expense.reversed, and for a decision that was written over.
EventsTellStatus ==
    /\ \A e \in Expenses : Told("expense.reversed", e) = Booked("expense_reversal", e)
    /\ \A d \in Disputes : Exists(dispute[d]) =>
        LET x == dispute[d]
            told == IF Told("dispute.resolved", d) > 0 THEN "resolved"
                    ELSE IF Told("dispute.rejected", d) > 0 THEN "rejected"
                    ELSE IF Told("dispute.under_review", d) > 0 THEN "under_review"
                    ELSE "open"
        IN  /\ Told("dispute.resolved", d) = Booked("adjustment", d)
            /\ x.status = "under_review" => Told("dispute.under_review", d) > 0
            /\ x.status = "rejected" => Told("dispute.rejected", d) > 0
            /\ d \notin overwritten =>
                  IF x.kind = "full_reversal" THEN told = "under_review" ELSE told = x.status

\* "double reverse -> 409", "double confirm -> 409": no expense is reversed
\* twice in the ledger and no settlement is posted twice.
BookedAtMostOnce ==
    /\ \A e \in Expenses : Booked("expense_reversal", e) <= 1
    /\ \A s \in Settlements : Booked("settlement", s) <= 1

=============================================================================
