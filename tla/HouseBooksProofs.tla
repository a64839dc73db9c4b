-------------------------- MODULE HouseBooksProofs --------------------------
(***************************************************************************)
(* Proofs about HouseBooks for any number of users, objects and postings.  *)
(* Requests may overlap in any way and in any number: the code takes no    *)
(* lock between a check and its write, so what a request does is judged by *)
(* the row it read, which its record keeps.                                *)
(***************************************************************************)
EXTENDS HouseBooks, Sums, TLAPS

-----------------------------------------------------------------------------
(* Bags.                                                                   *)

LEMMA BagGrows ==
    ASSUME NEW B, IsABag(B), NEW x
    PROVE  /\ IsABag(BagAdd(B, x))
           /\ BagToSet(BagAdd(B, x)) = BagToSet(B) \cup {x}
           /\ \A y : /\ Copies(y, B) \in Nat
                     /\ Copies(y, BagAdd(B, x)) = Copies(y, B) + IF y = x THEN 1 ELSE 0
  BY DEF IsABag, BagAdd, BagToSet, Copies, BagIn

LEMMA NothingInEmptyBag ==
    IsABag(EmptyBag) /\ BagToSet(EmptyBag) = {} /\ \A y : Copies(y, EmptyBag) = 0
  BY DEF IsABag, EmptyBag, SetToBag, BagToSet, Copies, BagIn

\* An announcement is one more copy of its event and of no other.
LEMMA ToldOnce ==
    ASSUME IsABag(outbox), NEW type, NEW ref, Announce(type, ref)
    PROVE  /\ IsABag(outbox)'
           /\ \A t, r : /\ Told(t, r) \in Nat
                        /\ Told(t, r)' = Told(t, r) + IF t = type /\ r = ref THEN 1 ELSE 0
<1>1. outbox' = BagAdd(outbox, [type |-> type, ref |-> ref])
  BY DEF Announce
<1>2. \A t, r : [type |-> t, ref |-> r] = [type |-> type, ref |-> ref] <=> t = type /\ r = ref
  OBVIOUS
<1> QED
  BY <1>1, <1>2, BagGrows DEF Told

-----------------------------------------------------------------------------
(* Types.                                                                  *)

Unclosed == {"open", "under_review"}
Parties(d) == {dispute[d].opener, expense[dispute[d].expense].payer}

\* What a worker may have in hand: what it read of a dispute passed its checks.
HandlerOK(h) ==
    \/ h = Idle
    \/ /\ h.op = "reverse" /\ h.by \in Users
       /\ h.ref \in Expenses /\ Exists(expense[h.ref]) /\ h.row.status # "reversed"
    \/ /\ h.op \in {"confirm", "refuse"} /\ h.by \in Users
       /\ h.ref \in Settlements /\ Exists(settlement[h.ref]) /\ h.row.status = "pending"
    \/ /\ h.op \in {"review", "reject", "check_reversal", "undo", "adjust"} /\ h.by \in Managers
       /\ h.ref \in Disputes /\ Exists(dispute[h.ref]) /\ h.row \in DisputeRows
       /\ h.op = "review" => h.row.status = "open"
       /\ h.op = "reject" => h.row.status \in Unclosed
       /\ h.op \in {"check_reversal", "undo", "adjust"} =>
             h.row.status = "under_review" /\ h.by \notin Parties(h.ref)
       /\ h.op = "undo" => h.charge.status # "reversed"
       /\ h.op = "adjust" => h.kind \in {"none", "adjustment"}

Handlers ==
    /\ handler = [w \in Workers |-> handler[w]]
    /\ \A w \in Workers : HandlerOK(handler[w])

Types == TypeOK /\ Handlers

\* Rows that are there stay there, and those of disputes with the same parties.
RowsStay ==
    /\ \A e \in Expenses : Exists(expense[e]) => Exists(expense'[e])
    /\ \A s \in Settlements : Exists(settlement[s]) => Exists(settlement'[s])
    /\ \A d \in Disputes : Exists(dispute[d]) => Exists(dispute'[d]) /\ Parties(d)' = Parties(d)

LEMMA ObjectRows ==
    ASSUME TypeOK
    PROVE  /\ \A e \in Expenses : Exists(expense[e]) <=> expense[e] \in ExpenseRows
           /\ \A s \in Settlements : Exists(settlement[s]) <=> settlement[s] \in SettlementRows
           /\ \A d \in Disputes : Exists(dispute[d]) <=> dispute[d] \in DisputeRows
<1>1. ~Exists(Absent)
  BY DEF Exists, Absent
<1>2. /\ \A x \in ExpenseRows : Exists(x)
      /\ \A x \in SettlementRows : Exists(x)
      /\ \A x \in DisputeRows : Exists(x)
  BY DEF Exists, ExpenseRows, SettlementRows, DisputeRows
<1> QED
  BY <1>1, <1>2 DEF TypeOK

LEMMA HandlersMove ==
    ASSUME Handlers, RowsStay, NEW w \in Workers, NEW h, HandlerOK(h)',
           handler' = [handler EXCEPT ![w] = h]
    PROVE  Handlers' /\ handler'[w] = h /\ \A v \in Workers \ {w} : handler'[v] = handler[v]
<1>1. \A v \in Workers : HandlerOK(handler[v])
  BY DEF Handlers
<1>2. ASSUME NEW g, HandlerOK(g)
      PROVE  HandlerOK(g)'
  BY <1>2 DEF HandlerOK, RowsStay
<1>3. /\ handler' = [v \in Workers |-> handler'[v]]
      /\ handler'[w] = h /\ \A v \in Workers \ {w} : handler'[v] = handler[v]
  BY DEF Handlers
<1>4. ASSUME NEW v \in Workers
      PROVE  HandlerOK(handler[v])'
  <2>1. CASE v = w
    BY <1>3, <2>1 DEF HandlerOK
  <2>2. CASE v # w
    <3>1. HandlerOK(handler[v])
      BY <1>1
    <3>2. handler'[v] = handler[v]
      BY <1>3, <2>2
    <3> QED
      BY <3>1, <3>2 DEF HandlerOK, RowsStay
  <2> QED
    BY <2>1, <2>2
<1> QED
  BY <1>3, <1>4 DEF Handlers

LEMMA FinishedHandlers ==
    ASSUME Handlers, RowsStay, NEW w \in Workers, Finish(w)
    PROVE  Handlers' /\ handler'[w] = Idle /\ \A v \in Workers \ {w} : handler'[v] = handler[v]
  BY HandlersMove DEF HandlerOK, Finish

LEMMA StillHandlers ==
    ASSUME Handlers, RowsStay, UNCHANGED handler
    PROVE  Handlers'
  BY DEF Handlers, HandlerOK, RowsStay

-----------------------------------------------------------------------------
(* What the writes do.                                                     *)

LEMMA BookGrows ==
    ASSUME TypeOK, NEW kind, NEW ref, NEW entries, NEW by, NEW type,
           Book(kind, ref, entries, by, type)
    PROVE  /\ IsABag(ledger)' /\ Announce(type, ref)
           /\ LedgerEvents' = LedgerEvents \cup
                {[kind |-> kind, ref |-> ref, entries |-> entries, by |-> by]}
  BY BagGrows DEF TypeOK, Book, Announce, LedgerEvents

\* One dispute gets a new row; the others stay as they are.
OnlyDispute(d) ==
    /\ dispute' \in [Disputes -> DisputeRows \cup {Absent}]
    /\ dispute'[d] \in DisputeRows
    /\ dispute'[d].expense = dispute[d].expense /\ dispute'[d].opener = dispute[d].opener
    /\ \A x \in Disputes \ {d} : dispute'[x] = dispute[x]

LEMMA CloseWrites ==
    ASSUME TypeOK, NEW h, NEW d \in Disputes, h.ref = d, Exists(dispute[d]), h.by \in Managers,
           NEW status \in {"resolved", "rejected"},
           NEW kind \in {"none", "adjustment", "full_reversal"},
           Close(h, status, kind)
    PROVE  /\ OnlyDispute(d)
           /\ dispute'[d].status = status
           /\ dispute[d] = h.row => dispute'[d].resolver = h.by /\ dispute'[d].kind = kind
<1> DEFINE k == IF kind = h.row.kind THEN dispute[d].kind ELSE kind
           m == IF h.by = h.row.resolver THEN dispute[d].resolver ELSE h.by
           row == [dispute[d] EXCEPT !.status = status, !.kind = k, !.resolver = m]
<1>1. dispute \in [Disputes -> DisputeRows \cup {Absent}] /\ dispute[d] \in DisputeRows
  BY ObjectRows DEF TypeOK
<1>2. k \in {"none", "adjustment", "full_reversal"} /\ m \in Managers \cup {Nobody}
  BY <1>1 DEF DisputeRows
<1>3. /\ row \in DisputeRows /\ row.status = status /\ row.kind = k /\ row.resolver = m
      /\ row.expense = dispute[d].expense /\ row.opener = dispute[d].opener
  BY <1>1, <1>2 DEF DisputeRows
<1>4. dispute' = [dispute EXCEPT ![d] = row]
  BY <1>1 DEF Close, DisputeRows
<1> HIDE DEF row
<1>5. /\ dispute' \in [Disputes -> DisputeRows \cup {Absent}] /\ dispute'[d] = row
      /\ \A x \in Disputes \ {d} : dispute'[x] = dispute[x]
  BY <1>1, <1>3, <1>4
<1> QED
  BY <1>3, <1>5 DEF OnlyDispute

LEMMA ReviewWrites ==
    ASSUME TypeOK, NEW d \in Disputes, Exists(dispute[d]),
           dispute' = [dispute EXCEPT ![d].status = "under_review"]
    PROVE  /\ OnlyDispute(d)
           /\ dispute'[d].status = "under_review"
           /\ dispute'[d].kind = dispute[d].kind
<1> DEFINE row == [dispute[d] EXCEPT !.status = "under_review"]
<1>1. dispute \in [Disputes -> DisputeRows \cup {Absent}] /\ dispute[d] \in DisputeRows
  BY ObjectRows DEF TypeOK
<1>2. /\ row \in DisputeRows /\ row.status = "under_review" /\ row.kind = dispute[d].kind
      /\ row.expense = dispute[d].expense /\ row.opener = dispute[d].opener
  BY <1>1 DEF DisputeRows
<1>3. dispute' = [dispute EXCEPT ![d] = row]
  BY <1>1 DEF DisputeRows
<1> HIDE DEF row
<1>4. /\ dispute' \in [Disputes -> DisputeRows \cup {Absent}] /\ dispute'[d] = row
      /\ \A x \in Disputes \ {d} : dispute'[x] = dispute[x]
  BY <1>1, <1>2, <1>3
<1> QED
  BY <1>2, <1>4 DEF OnlyDispute

\* Who has paid which expense, and whose share is what, does not change.
PayersStay ==
    /\ expense' \in [Expenses -> ExpenseRows \cup {Absent}]
    /\ \A e \in Expenses : Exists(expense[e]) =>
          /\ Exists(expense'[e]) /\ expense'[e].payer = expense[e].payer
          /\ expense'[e].shares = expense[e].shares
          /\ expense[e].status = "reversed" => expense'[e].status = "reversed"

LEMMA ReversalWrites ==
    ASSUME TypeOK, NEW u, NEW e \in Expenses, Exists(expense[e]), Reversal(u, e)
    PROVE  /\ PayersStay
           /\ expense'[e].status = "reversed"
           /\ \A x \in Expenses \ {e} : expense'[x] = expense[x]
           /\ IsABag(ledger)' /\ Announce("expense.reversed", e)
           /\ LedgerEvents \subseteq LedgerEvents'
           /\ \A f \in LedgerEvents' \ LedgerEvents : f.kind = "expense_reversal"
<1> DEFINE row == [expense[e] EXCEPT !.status = "reversed"]
<1>1. expense \in [Expenses -> ExpenseRows \cup {Absent}] /\ expense[e] \in ExpenseRows
  BY ObjectRows DEF TypeOK
<1>2. /\ row \in ExpenseRows /\ row.status = "reversed"
      /\ row.payer = expense[e].payer /\ row.shares = expense[e].shares
  BY <1>1 DEF ExpenseRows
<1>3. expense' = [expense EXCEPT ![e] = row]
  BY <1>1 DEF Reversal, ExpenseRows
<1>4. Exists(row)
  BY <1>2 DEF Exists
<1> HIDE DEF row
<1>5. /\ expense' \in [Expenses -> ExpenseRows \cup {Absent}] /\ expense'[e] = row
      /\ \A x \in Expenses \ {e} : expense'[x] = expense[x]
  BY <1>1, <1>2, <1>3
<1>6. PayersStay
  BY <1>2, <1>4, <1>5 DEF PayersStay
<1>7. Book("expense_reversal", e, Negated(Original(e).entries), u, "expense.reversed")
  BY DEF Reversal
<1>8. /\ IsABag(ledger)' /\ Announce("expense.reversed", e)
      /\ LedgerEvents' = LedgerEvents \cup
            {[kind |-> "expense_reversal", ref |-> e,
              entries |-> Negated(Original(e).entries), by |-> u]}
  BY <1>7, BookGrows
<1> QED
  BY <1>2, <1>5, <1>6, <1>8

-----------------------------------------------------------------------------
(* Types stay, whatever overlaps.                                          *)

\* What a step has to keep of the tables.
TablesOK ==
    /\ expense' \in [Expenses -> ExpenseRows \cup {Absent}] /\ settlement' = settlement
    /\ \A e \in Expenses : Exists(expense[e]) =>
          Exists(expense'[e]) /\ expense'[e].payer = expense[e].payer
    /\ IsABag(ledger)' /\ IsABag(outbox)'
    /\ overwritten' \subseteq Expenses \cup Settlements \cup Disputes

LEMMA SameDisputes ==
    ASSUME TypeOK, TablesOK, dispute' = dispute
    PROVE  TypeOK' /\ RowsStay
<1>1. \A d \in Disputes : Exists(dispute[d]) =>
          dispute[d].expense \in Expenses /\ Exists(expense[dispute[d].expense])
  BY ObjectRows DEF DisputeRows, TypeOK
<1> QED
  BY <1>1 DEF TypeOK, TablesOK, RowsStay, Parties

LEMMA OneDispute ==
    ASSUME TypeOK, TablesOK, NEW d \in Disputes, Exists(dispute[d]), OnlyDispute(d)
    PROVE  TypeOK' /\ RowsStay
<1>1. \A x \in Disputes : Exists(dispute[x]) =>
          dispute[x].expense \in Expenses /\ Exists(expense[dispute[x].expense])
  BY ObjectRows DEF DisputeRows, TypeOK
<1>2. Exists(dispute'[d])
  BY DEF OnlyDispute, DisputeRows, Exists
<1>3. \A x \in Disputes : Exists(dispute'[x]) <=> Exists(dispute[x])
  BY <1>2 DEF OnlyDispute
<1>4. \A x \in Disputes :
          dispute'[x].expense = dispute[x].expense /\ dispute'[x].opener = dispute[x].opener
  BY DEF OnlyDispute
<1>5. \A x \in Disputes : Exists(dispute'[x]) => Exists(expense'[dispute'[x].expense])
  BY <1>1, <1>3, <1>4 DEF TypeOK, TablesOK
<1>6. \A x \in Disputes : Exists(dispute[x]) => Parties(x)' = Parties(x)
  BY <1>1, <1>4 DEF TablesOK, Parties
<1> QED
  BY <1>3, <1>5, <1>6 DEF TypeOK, TablesOK, OnlyDispute, RowsStay

LEMMA SettlementWrites ==
    ASSUME TypeOK, NEW s \in Settlements, Exists(settlement[s]),
           NEW status \in {"confirmed", "rejected"},
           settlement' = [settlement EXCEPT ![s].status = status],
           UNCHANGED <<expense, dispute>>, IsABag(ledger)', IsABag(outbox)',
           overwritten' \subseteq overwritten \cup {s}
    PROVE  /\ TypeOK' /\ RowsStay
           /\ settlement'[s].status = status /\ settlement'[s].from = settlement[s].from
           /\ settlement'[s].to = settlement[s].to /\ settlement'[s].amount = settlement[s].amount
           /\ \A x \in Settlements \ {s} : settlement'[x] = settlement[x]
<1> DEFINE row == [settlement[s] EXCEPT !.status = status]
<1>1. settlement \in [Settlements -> SettlementRows \cup {Absent}] /\ settlement[s] \in SettlementRows
  BY ObjectRows DEF TypeOK
<1>2. /\ row \in SettlementRows /\ row.status = status
      /\ row.from = settlement[s].from /\ row.to = settlement[s].to
      /\ row.amount = settlement[s].amount
  BY <1>1 DEF SettlementRows
<1>3. settlement' = [settlement EXCEPT ![s] = row]
  BY <1>1 DEF SettlementRows
<1>4. Exists(row)
  BY <1>2 DEF Exists
<1> HIDE DEF row
<1>5. /\ settlement' \in [Settlements -> SettlementRows \cup {Absent}] /\ settlement'[s] = row
      /\ \A x \in Settlements \ {s} : settlement'[x] = settlement[x]
  BY <1>1, <1>2, <1>3
<1>6. \A x \in Settlements : Exists(settlement'[x]) => settlement'[x].from # settlement'[x].to
  BY <1>2, <1>5 DEF TypeOK
<1>7. overwritten' \subseteq Expenses \cup Settlements \cup Disputes
  BY DEF TypeOK
<1> QED
  BY <1>2, <1>4, <1>5, <1>6, <1>7 DEF TypeOK, RowsStay, Parties

\* Types stay, and rows with what they stand for.
Kept == Types' /\ RowsStay

LEMMA CreateKeepsTypes ==
    ASSUME Types, NEW u \in Users, Create(u)
    PROVE  Kept
<1>1. TypeOK /\ Handlers
  BY DEF Types, Kept
<1>2. ASSUME NEW e \in Expenses, CreateExpense(u, e)
      PROVE  Kept
  <2>1. PICK payer \in Users, shares \in ShareMaps :
          /\ expense' = [expense EXCEPT ![e] =
                [status |-> "active", payer |-> payer, creator |-> u, shares |-> shares]]
          /\ Book("expense", e, Collapsed(payer, shares), u, "expense.created")
    BY <1>2 DEF CreateExpense
  <2> DEFINE row == [status |-> "active", payer |-> payer, creator |-> u, shares |-> shares]
  <2>2. row \in ExpenseRows /\ Exists(row)
    BY DEF ExpenseRows, Exists
  <2> HIDE DEF row
  <2>3. expense' = [expense EXCEPT ![e] = row]
    BY <2>1 DEF row
  <2>4. IsABag(ledger)' /\ IsABag(outbox)'
    BY <1>1, <2>1, BookGrows, ToldOnce DEF TypeOK
  <2>5. TablesOK
    BY <1>1, <1>2, <2>2, <2>3, <2>4 DEF TablesOK, TypeOK, CreateExpense
  <2> QED
    BY <1>1, <1>2, <2>5, SameDisputes, StillHandlers DEF CreateExpense, Types, Kept
<1>3. ASSUME NEW s \in Settlements, CreateSettlement(u, s)
      PROVE  Kept
  <2>1. PICK v \in Users \ {u}, amount \in Amounts :
          settlement' = [settlement EXCEPT ![s] =
              [status |-> "pending", from |-> u, to |-> v, amount |-> amount]]
    BY <1>3 DEF CreateSettlement
  <2> DEFINE row == [status |-> "pending", from |-> u, to |-> v, amount |-> amount]
  <2>2. row \in SettlementRows /\ Exists(row) /\ row.from # row.to
    BY DEF SettlementRows, Exists
  <2> HIDE DEF row
  <2>3. settlement' = [settlement EXCEPT ![s] = row]
    BY <2>1 DEF row
  <2>4. TypeOK' /\ RowsStay
    BY <1>1, <1>3, <2>2, <2>3 DEF TypeOK, RowsStay, Parties, CreateSettlement
  <2> QED
    BY <1>1, <1>3, <2>4, StillHandlers DEF CreateSettlement, Types, Kept
<1>4. ASSUME NEW d \in Disputes, OpenDispute(u, d)
      PROVE  Kept
  <2>1. PICK e \in Expenses :
          /\ Exists(expense[e])
          /\ dispute' = [dispute EXCEPT ![d] =
                [status |-> "open", expense |-> e, opener |-> u,
                 kind |-> "none", resolver |-> Nobody]]
    BY <1>4 DEF OpenDispute
  <2> DEFINE row == [status |-> "open", expense |-> e, opener |-> u,
                     kind |-> "none", resolver |-> Nobody]
  <2>2. row \in DisputeRows /\ Exists(row) /\ row.expense = e
    BY DEF DisputeRows, Exists
  <2> HIDE DEF row
  <2>3. dispute' = [dispute EXCEPT ![d] = row]
    BY <2>1 DEF row
  <2>4. IsABag(outbox)'
    BY <1>1, <1>4, ToldOnce DEF TypeOK, OpenDispute
  <2>5. TypeOK' /\ RowsStay
    BY <1>1, <1>4, <2>1, <2>2, <2>3, <2>4 DEF TypeOK, RowsStay, Parties, OpenDispute
  <2> QED
    BY <1>1, <1>4, <2>5, StillHandlers DEF OpenDispute, Types, Kept
<1> QED
  BY <1>2, <1>3, <1>4 DEF Create

LEMMA CheckKeepsTypes ==
    ASSUME Types, ManagersAssumption, NEW w \in Workers, Check(w)
    PROVE  Kept
<1>1. TypeOK /\ Handlers
  BY DEF Types, Kept
<1>2. UNCHANGED Objects
  BY DEF Check, CheckReverse, CheckSettlement, CheckReview, CheckResolve, CheckReject,
     CheckResolveExpense
<1>3. TypeOK' /\ RowsStay
  BY <1>1, <1>2 DEF TypeOK, RowsStay, Parties, Objects
<1>4. ASSUME NEW h, HandlerOK(h), handler' = [handler EXCEPT ![w] = h]
      PROVE  Kept
  <2>1. HandlerOK(h)'
    BY <1>2, <1>4 DEF HandlerOK, Parties, Objects
  <2> QED
    BY <1>1, <1>3, <1>4, <2>1, HandlersMove DEF Types, Kept
<1>5. ASSUME NEW u \in Users, NEW e \in Expenses, CheckReverse(w, u, e)
      PROVE  Kept
  <2>1. HandlerOK([op |-> "reverse", by |-> u, ref |-> e, row |-> expense[e]])
    BY <1>5 DEF HandlerOK, CheckReverse
  <2> QED
    BY <1>4, <1>5, <2>1 DEF CheckReverse, Start
<1>6. ASSUME NEW s \in Settlements, CheckSettlement(w, s)
      PROVE  Kept
  <2>1. PICK op \in {"confirm", "refuse"} :
          handler' = [handler EXCEPT ![w] =
              [op |-> op, by |-> settlement[s].to, ref |-> s, row |-> settlement[s]]]
    BY <1>6 DEF CheckSettlement, Start
  <2>2. settlement[s].to \in Users
    BY <1>1, <1>6, ObjectRows DEF CheckSettlement, SettlementRows
  <2>3. HandlerOK([op |-> op, by |-> settlement[s].to, ref |-> s, row |-> settlement[s]])
    BY <1>6, <2>2 DEF HandlerOK, CheckSettlement
  <2> QED
    BY <1>4, <2>1, <2>3
<1>7. ASSUME NEW m \in Managers, NEW d \in Disputes,
             CheckReview(w, m, d) \/ CheckReject(w, m, d)
      PROVE  Kept
  <2>1. PICK op \in {"review", "reject"} :
          /\ handler' = [handler EXCEPT ![w] = [op |-> op, by |-> m, ref |-> d, row |-> dispute[d]]]
          /\ dispute[d].status \in IF op = "review" THEN {"open"} ELSE Unclosed
    BY <1>7 DEF CheckReview, CheckReject, Start, Unclosed
  <2>2. Exists(dispute[d]) /\ dispute[d] \in DisputeRows
    BY <1>1, <1>7, ObjectRows DEF CheckReview, CheckReject, Exists
  <2>3. HandlerOK([op |-> op, by |-> m, ref |-> d, row |-> dispute[d]])
    BY <2>1, <2>2 DEF HandlerOK
  <2> QED
    BY <1>4, <2>1, <2>3
<1>8. ASSUME NEW m \in Managers, NEW d \in Disputes, CheckResolve(w, m, d)
      PROVE  Kept
  <2>1. /\ Exists(dispute[d]) /\ dispute[d] \in DisputeRows
        /\ dispute[d].status = "under_review" /\ m \notin Parties(d)
    BY <1>1, <1>8, ObjectRows DEF CheckResolve, Exists, HasStake, Parties
  <2> DEFINE h == [op |-> "check_reversal", by |-> m, ref |-> d, row |-> dispute[d]]
             g(kind, adj) == [op |-> "adjust", by |-> m, ref |-> d, row |-> dispute[d],
                              kind |-> kind, entries |-> adj]
  <2>2. CASE Start(w, h)
    <3>1. HandlerOK(h)
      BY <2>1 DEF HandlerOK
    <3> QED
      BY <1>4, <2>2, <3>1 DEF Start
  <2>3. ASSUME NEW adj, NEW kind \in {"none", "adjustment"}, Start(w, g(kind, adj))
        PROVE  Kept
    <3>1. HandlerOK(g(kind, adj))
      BY <2>1 DEF HandlerOK
    <3> QED
      BY <1>4, <2>3, <3>1 DEF Start
  <2> QED
    BY <1>8, <2>2, <2>3 DEF CheckResolve
<1>9. ASSUME CheckResolveExpense(w)
      PROVE  Kept
  <2> DEFINE g == handler[w]
             charge == expense[dispute[g.ref].expense]
             h == [op |-> "undo", by |-> g.by, ref |-> g.ref, row |-> g.row, charge |-> charge]
  <2>1. HandlerOK(g) /\ g.op = "check_reversal"
    BY <1>1, <1>9 DEF Handlers, CheckResolveExpense
  <2>2. HandlerOK(Idle)
    BY DEF HandlerOK
  <2>3. \/ handler' = [handler EXCEPT ![w] = Idle]
        \/ handler' = [handler EXCEPT ![w] = h] /\ charge.status # "reversed"
    BY <1>9 DEF CheckResolveExpense
  <2>4. charge.status # "reversed" => HandlerOK(h)
    BY <2>1 DEF HandlerOK, Idle
  <2> QED
    BY <1>4, <2>2, <2>3, <2>4
<1> QED
  BY <1>5, <1>6, <1>7, <1>8, <1>9 DEF Check

\* What a worker that writes has in hand.
LEMMA InHand ==
    ASSUME Types, NEW w \in Workers
    PROVE  /\ handler[w].op = "reverse" =>
                 /\ handler[w].ref \in Expenses /\ Exists(expense[handler[w].ref])
                 /\ handler[w].row.status # "reversed"
           /\ handler[w].op \in {"confirm", "refuse"} =>
                 /\ handler[w].ref \in Settlements /\ Exists(settlement[handler[w].ref])
                 /\ handler[w].row.status = "pending"
           /\ handler[w].op \in {"review", "reject", "check_reversal", "undo", "adjust"} =>
                 /\ handler[w].by \in Managers
                 /\ handler[w].ref \in Disputes /\ Exists(dispute[handler[w].ref])
                 /\ dispute[handler[w].ref].expense \in Expenses
                 /\ Exists(expense[dispute[handler[w].ref].expense])
                 /\ handler[w].row \in DisputeRows
           /\ handler[w].op = "review" => handler[w].row.status = "open"
           /\ handler[w].op = "reject" => handler[w].row.status \in Unclosed
           /\ handler[w].op \in {"check_reversal", "undo", "adjust"} =>
                 handler[w].row.status = "under_review" /\ handler[w].by \notin Parties(handler[w].ref)
           /\ handler[w].op = "undo" => handler[w].charge.status # "reversed"
           /\ handler[w].op = "adjust" => handler[w].kind \in {"none", "adjustment"}
<1>1. TypeOK /\ HandlerOK(handler[w])
  BY DEF Types, Handlers
<1>2. /\ handler[w].op = "reverse" =>
             /\ handler[w].ref \in Expenses /\ Exists(expense[handler[w].ref])
             /\ handler[w].row.status # "reversed"
      /\ handler[w].op \in {"confirm", "refuse"} =>
             /\ handler[w].ref \in Settlements /\ Exists(settlement[handler[w].ref])
             /\ handler[w].row.status = "pending"
      /\ handler[w].op \in {"review", "reject", "check_reversal", "undo", "adjust"} =>
             /\ handler[w].by \in Managers
             /\ handler[w].ref \in Disputes /\ Exists(dispute[handler[w].ref])
             /\ handler[w].row \in DisputeRows
      /\ handler[w].op = "review" => handler[w].row.status = "open"
      /\ handler[w].op = "reject" => handler[w].row.status \in Unclosed
      /\ handler[w].op \in {"check_reversal", "undo", "adjust"} =>
             handler[w].row.status = "under_review" /\ handler[w].by \notin Parties(handler[w].ref)
      /\ handler[w].op = "undo" => handler[w].charge.status # "reversed"
      /\ handler[w].op = "adjust" => handler[w].kind \in {"none", "adjustment"}
  BY <1>1 DEF HandlerOK, Idle
<1>3. \A d \in Disputes : Exists(dispute[d]) =>
          dispute[d].expense \in Expenses /\ Exists(expense[dispute[d].expense])
  BY <1>1, ObjectRows DEF TypeOK, DisputeRows
<1> QED
  BY <1>2, <1>3

LEMMA WriteKeepsTypes ==
    ASSUME Types, NEW w \in Workers, Write(w)
    PROVE  Kept
<1>1. TypeOK /\ Handlers
  BY DEF Types, Kept
<1>2. ASSUME TypeOK', RowsStay, Finish(w)
      PROVE  Kept
  BY <1>1, <1>2, FinishedHandlers DEF Types, Kept
<1>3. CASE Reverse(w)
  <2>1. /\ handler[w].ref \in Expenses /\ Exists(expense[handler[w].ref])
        /\ Reversal(handler[w].by, handler[w].ref)
    BY <1>3, InHand DEF Reverse
  <2>2. TablesOK
    BY <1>1, <1>3, <2>1, ReversalWrites, ToldOnce
       DEF TablesOK, TypeOK, Reverse, PayersStay, Note, LateExpense
  <2> QED
    BY <1>1, <1>2, <1>3, <2>2, SameDisputes DEF Reverse
<1>4. CASE Confirm(w)
  <2>1. handler[w].ref \in Settlements /\ Exists(settlement[handler[w].ref])
    BY <1>4, InHand DEF Confirm
  <2>2. IsABag(ledger)' /\ IsABag(outbox)'
    BY <1>1, <1>4, BookGrows, ToldOnce DEF Confirm, TypeOK
  <2> QED
    BY <1>1, <1>2, <1>4, <2>1, <2>2, SettlementWrites DEF Confirm, Note, LateSettlement
<1>5. CASE RefuseSettlement(w)
  <2>1. handler[w].ref \in Settlements /\ Exists(settlement[handler[w].ref])
    BY <1>5, InHand DEF RefuseSettlement
  <2>2. IsABag(ledger)' /\ IsABag(outbox)'
    BY <1>1, <1>5 DEF RefuseSettlement, TypeOK
  <2> QED
    BY <1>1, <1>2, <1>5, <2>1, <2>2, SettlementWrites DEF RefuseSettlement, Note, LateSettlement
<1>6. CASE Review(w)
  <2>1. handler[w].ref \in Disputes /\ Exists(dispute[handler[w].ref])
    BY <1>6, InHand DEF Review
  <2>2. OnlyDispute(handler[w].ref)
    BY <1>1, <1>6, <2>1, ReviewWrites DEF Review
  <2>3. TablesOK
    BY <1>1, <1>6, <2>1, ToldOnce DEF TablesOK, TypeOK, Review, Note, LateDispute
  <2> QED
    BY <1>1, <1>2, <1>6, <2>1, <2>2, <2>3, OneDispute DEF Review
<1>7. CASE ResolveByReversal(w)
  <2> DEFINE d == handler[w].ref
  <2>1. /\ d \in Disputes /\ Exists(dispute[d]) /\ handler[w].by \in Managers
        /\ dispute[d].expense \in Expenses /\ Exists(expense[dispute[d].expense])
    BY <1>7, InHand DEF ResolveByReversal
  <2>2. Reversal(handler[w].by, dispute[d].expense) /\ Close(handler[w], "resolved", "full_reversal")
    BY <1>7 DEF ResolveByReversal
  <2>3. OnlyDispute(d)
    BY <1>1, <2>1, <2>2, CloseWrites
  <2>4. TablesOK
    BY <1>1, <1>7, <2>1, <2>2, ReversalWrites, ToldOnce
       DEF TablesOK, TypeOK, ResolveByReversal, PayersStay, Note, LateDispute, LateExpense
  <2> QED
    BY <1>1, <1>2, <1>7, <2>1, <2>3, <2>4, OneDispute DEF ResolveByReversal
<1>8. CASE ResolveByAdjustment(w)
  <2> DEFINE d == handler[w].ref
  <2>1. /\ d \in Disputes /\ Exists(dispute[d]) /\ handler[w].by \in Managers
        /\ handler[w].kind \in {"none", "adjustment"}
    BY <1>8, InHand DEF ResolveByAdjustment
  <2>2. OnlyDispute(d)
    BY <1>1, <1>8, <2>1, CloseWrites DEF ResolveByAdjustment
  <2>3. TablesOK
    BY <1>1, <1>8, <2>1, BookGrows, ToldOnce DEF TablesOK, TypeOK, ResolveByAdjustment, Note, LateDispute
  <2> QED
    BY <1>1, <1>2, <1>8, <2>1, <2>2, <2>3, OneDispute DEF ResolveByAdjustment
<1>9. CASE Reject(w)
  <2> DEFINE d == handler[w].ref
  <2>1. /\ d \in Disputes /\ Exists(dispute[d]) /\ handler[w].by \in Managers
        /\ handler[w].row.kind \in {"none", "adjustment", "full_reversal"}
    BY <1>9, InHand DEF Reject, DisputeRows
  <2>2. OnlyDispute(d)
    BY <1>1, <1>9, <2>1, CloseWrites DEF Reject
  <2>3. TablesOK
    BY <1>1, <1>9, <2>1, ToldOnce DEF TablesOK, TypeOK, Reject, Note, LateDispute
  <2> QED
    BY <1>1, <1>2, <1>9, <2>1, <2>2, <2>3, OneDispute DEF Reject
<1> QED
  BY <1>3, <1>4, <1>5, <1>6, <1>7, <1>8, <1>9 DEF Write

LEMMA RowsKept ==
    ASSUME ManagersAssumption
    PROVE  Types /\ [Next]_vars => Kept
<1> SUFFICES ASSUME Types, [Next]_vars
             PROVE  Kept
  OBVIOUS
<1>1. TypeOK /\ Handlers
  BY DEF Types, Kept
<1>2. ASSUME NEW d \in Disputes, AddComment(d)
      PROVE  Kept
  <2>1. TablesOK
    BY <1>1, <1>2, ToldOnce DEF TablesOK, TypeOK, AddComment
  <2> QED
    BY <1>1, <1>2, <2>1, SameDisputes, StillHandlers DEF AddComment, Types, Kept
<1>3. ASSUME NEW w \in Workers, Fail(w)
      PROVE  Kept
  <2>1. TypeOK' /\ RowsStay
    BY <1>1, <1>3 DEF Fail, Objects, TypeOK, RowsStay, Parties
  <2> QED
    BY <1>1, <1>3, <2>1, FinishedHandlers DEF Fail, Types, Kept
<1>4. CASE UNCHANGED vars
  BY <1>1, <1>4 DEF vars, Types, TypeOK, Handlers, HandlerOK, Parties, RowsStay, Kept
<1> QED
  BY <1>2, <1>3, <1>4, CreateKeepsTypes, CheckKeepsTypes, WriteKeepsTypes DEF Next

LEMMA TypesStay ==
    ASSUME ManagersAssumption
    PROVE  Types /\ [Next]_vars => Types'
  BY RowsKept DEF Kept

LEMMA InitTypes == Init => Types
  BY NothingInEmptyBag DEF Init, Types, TypeOK, Handlers, HandlerOK, Exists, Absent

\* Every row is what its table says and points to a row that is there, whatever
\* requests overlap.
THEOREM BooksKeepTypes == Spec => []TypeOK
  BY ManagersAssumption, InitTypes, TypesStay, PTL DEF Spec, Types

-----------------------------------------------------------------------------
(* Counting events and adding up what they do.                             *)

CountIn(bag, S) == MapThenSumSet(LAMBDA f : Copies(f, bag), S)
EffectIn(bag, u, S) == MapThenSumSet(LAMBDA f : Copies(f, bag) * f.entries[u], S)

\* Both are sums of a function.
LEMMA CountIsSum ==
    ASSUME NEW bag, NEW S, IsFiniteSet(S)
    PROVE  CountIn(bag, S) = SumFunctionOnSet([f \in S |-> Copies(f, bag)], S)
<1> DEFINE c == [f \in S |-> Copies(f, bag)]
           P(h) == h = [s \in SUBSET S |->
                          IF s = {} THEN 0
                          ELSE Copies(CHOOSE x \in s : TRUE, bag) + h[s \ {CHOOSE x \in s : TRUE}]]
           iter == CHOOSE h : P(h)
<1>1. ASSUME NEW h PROVE P(h) <=> SumsUp(h, c, S)
  BY DEF SumsUp, Taken
<1>2. P(iter)
  <2>1. \E h : P(h)
    <3> HIDE DEF P, c
    <3> QED
      BY <1>1, SumsUpExists
  <2> HIDE DEF P
  <2> QED
    BY <2>1
<1>3. CountIn(bag, S) = iter[S]
  BY DEF CountIn, MapThenSumSet, MapThenFoldSet
<1> HIDE DEF P, iter, c
<1>4. SumFunctionOnSet(c, S) = iter[S]
  BY <1>1, <1>2, SumIsFound
<1> QED
  BY <1>3, <1>4 DEF c

LEMMA EffectIsSum ==
    ASSUME NEW bag, NEW u, NEW S, IsFiniteSet(S)
    PROVE  EffectIn(bag, u, S) = SumFunctionOnSet([f \in S |-> Copies(f, bag) * f.entries[u]], S)
<1> DEFINE c == [f \in S |-> Copies(f, bag) * f.entries[u]]
           Of(x) == Copies(x, bag) * x.entries[u]
           P(h) == h = [s \in SUBSET S |->
                          IF s = {} THEN 0
                          ELSE Of(CHOOSE x \in s : TRUE) + h[s \ {CHOOSE x \in s : TRUE}]]
           iter == CHOOSE h : P(h)
<1>1. ASSUME NEW h PROVE P(h) <=> SumsUp(h, c, S)
  <2>1. \A x \in S : c[x] = Of(x)
    OBVIOUS
  <2> HIDE DEF Of, c
  <2> QED
    BY <2>1 DEF SumsUp, Taken
<1>2. P(iter)
  <2>1. \E h : P(h)
    <3> HIDE DEF P, c
    <3> QED
      BY <1>1, SumsUpExists
  <2> HIDE DEF P
  <2> QED
    BY <2>1
<1>3. EffectIn(bag, u, S) = iter[S]
  BY DEF EffectIn, MapThenSumSet, MapThenFoldSet
<1> HIDE DEF P, iter, c
<1>4. SumFunctionOnSet(c, S) = iter[S]
  BY <1>1, <1>2, SumIsFound
<1> QED
  BY <1>3, <1>4 DEF c

\* The copies of each element, times its weight.
Weighs(c, B, wt, S) == \A f \in S : c[f] = Copies(f, B) * wt[f] /\ wt[f] \in Int

\* The same before and after one more copy of x.
WeighsMore(c, d, B, wt, S, x) == Weighs(c, B, wt, S) /\ Weighs(d, BagAdd(B, x), wt, S \cup {x})

\* One more copy of one element, summed with a weight.
LEMMA OneMoreCopy ==
    ASSUME NEW B, IsABag(B), NEW x, NEW S, IsFiniteSet(S), x \in BagToSet(B) => x \in S,
           NEW wt, NEW c, NEW d, WeighsMore(c, d, B, wt, S, x)
    PROVE  /\ SumFunctionOnSet(c, S) \in Int
           /\ SumFunctionOnSet(d, S \cup {x}) = SumFunctionOnSet(c, S) + wt[x]
<1> DEFINE T == S \cup {x}
<1>1. PICK e : e = [f \in T |-> Copies(f, B) * wt[f]]
  OBVIOUS
<1>2. IsFiniteSet(T)
  BY OneMoreIsFinite
<1>3. \A f \in T : Copies(f, B) \in Nat /\ Copies(f, BagAdd(B, x)) = Copies(f, B) + IF f = x THEN 1 ELSE 0
  BY BagGrows
<1>4. /\ \A f \in T : e[f] = Copies(f, B) * wt[f] /\ d[f] = Copies(f, BagAdd(B, x)) * wt[f]
      /\ \A f \in T : wt[f] \in Int
      /\ \A f \in S : c[f] = Copies(f, B) * wt[f]
  BY <1>1 DEF Weighs, WeighsMore
<1>5. ASSUME NEW f \in T
      PROVE  e[f] \in Int /\ d[f] \in Int /\ (f # x => d[f] = e[f]) /\ (f = x => d[f] = e[f] + wt[x])
  <2>1. PICK n \in Nat, k \in Int : n = Copies(f, B) /\ k = wt[f]
    BY <1>3, <1>4
  <2>2. e[f] = n * k /\ n * k \in Int
    BY <1>4, <2>1
  <2>3. CASE f = x
    <3>1. d[f] = (n + 1) * k
      BY <1>3, <1>4, <2>1, <2>3
    <3>2. (n + 1) * k = n * k + k
      OBVIOUS
    <3> QED
      BY <2>1, <2>2, <2>3, <3>1, <3>2
  <2>4. CASE f # x
    <3>1. d[f] = n * k
      BY <1>3, <1>4, <2>1, <2>4
    <3> QED
      BY <2>2, <2>4, <3>1
  <2> QED
    BY <2>3, <2>4
<1>6. SumFunctionOnSet(d, T) = SumFunctionOnSet(e, T) + (d[x] - e[x])
  <2>1. x \in T /\ (\A y \in T : e[y] \in Int /\ d[y] \in Int) /\ \A y \in T \ {x} : d[y] = e[y]
    BY <1>5
  <2> HIDE DEF T
  <2> QED
    BY <1>2, <2>1, SumChange
<1>7. SumFunctionOnSet(e, T) = SumFunctionOnSet(e, S)
  <2>1. ASSUME NEW f \in T \ S
        PROVE  e[f] = 0
    <3>1. Copies(f, B) = 0
      BY <2>1 DEF Copies, BagIn, BagToSet
    <3>2. wt[f] \in Int /\ e[f] = 0 * wt[f]
      BY <1>4, <2>1, <3>1
    <3> QED
      BY <3>2
  <2>2. S \in SUBSET T /\ \A f \in S : e[f] \in Int
    BY <1>5
  <2> HIDE DEF T
  <2> QED
    BY <1>2, <2>1, <2>2, SumOnSubset
<1>8. SumFunctionOnSet(c, S) = SumFunctionOnSet(e, S)
  <2>1. \A f \in S : e[f] \in Int /\ c[f] = e[f]
    BY <1>4, <1>5
  <2> QED
    BY <2>1, SumSame
<1>9. SumFunctionOnSet(e, S) \in Int
  BY <1>5, SumType
<1>10. d[x] = e[x] + wt[x] /\ e[x] \in Int /\ wt[x] \in Int
  BY <1>4, <1>5
<1> QED
  BY <1>6, <1>7, <1>8, <1>9, <1>10

LEMMA CountGrows ==
    ASSUME NEW B, IsABag(B), NEW x, NEW S, IsFiniteSet(S), x \in BagToSet(B) => x \in S
    PROVE  CountIn(BagAdd(B, x), S \cup {x}) = CountIn(B, S) + 1
<1>1. PICK one : one = [f \in S \cup {x} |-> 1]
  OBVIOUS
<1>2. PICK c : c = [f \in S |-> Copies(f, B)]
  OBVIOUS
<1>3. PICK d : d = [f \in S \cup {x} |-> Copies(f, BagAdd(B, x))]
  OBVIOUS
<1>4. /\ \A f \in S : Copies(f, B) \in Nat
      /\ \A f \in S \cup {x} : Copies(f, BagAdd(B, x)) \in Nat
  BY BagGrows
<1>5. WeighsMore(c, d, B, one, S, x) /\ one[x] = 1
  BY <1>1, <1>2, <1>3, <1>4 DEF Weighs, WeighsMore
<1>6. SumFunctionOnSet(d, S \cup {x}) = SumFunctionOnSet(c, S) + one[x]
  BY <1>5, OneMoreCopy
<1>7. IsFiniteSet(S \cup {x})
  BY OneMoreIsFinite
<1> QED
  BY <1>2, <1>3, <1>5, <1>6, <1>7, CountIsSum

LEMMA CountStays ==
    ASSUME NEW B, IsABag(B), NEW x, NEW S, IsFiniteSet(S), x \notin S
    PROVE  CountIn(BagAdd(B, x), S) = CountIn(B, S)
<1>1. [f \in S |-> Copies(f, BagAdd(B, x))] = [f \in S |-> Copies(f, B)]
  BY BagGrows
<1> QED
  BY <1>1, CountIsSum

\* A count is a number, and zero exactly if nothing is there to be counted.
LEMMA CountType ==
    ASSUME NEW B, IsABag(B), NEW S \in SUBSET BagToSet(B), IsFiniteSet(S)
    PROVE  CountIn(B, S) \in Nat /\ (CountIn(B, S) = 0 <=> S = {})
<1>1. PICK c : c = [f \in S |-> Copies(f, B)]
  OBVIOUS
<1>2. \A f \in S : c[f] \in Nat /\ c[f] >= 1
  BY <1>1 DEF IsABag, Copies, BagIn, BagToSet
<1>3. CountIn(B, S) = SumFunctionOnSet(c, S)
  BY <1>1, CountIsSum
<1>4. SumFunctionOnSet(c, S) \in Nat /\ \A f \in S : c[f] <= SumFunctionOnSet(c, S)
  BY <1>2, SumNotNegative
<1>5. S = {} => SumFunctionOnSet(c, S) = 0
  BY SumOfNothing
<1>6. S # {} => SumFunctionOnSet(c, S) >= 1
  BY <1>2, <1>4
<1> QED
  BY <1>3, <1>4, <1>5, <1>6

\* All that is added up for a user is whole cents, and what is new is not missing.
Summable(B, x, S, u) ==
    (x \in BagToSet(B) => x \in S) /\ \A f \in S \cup {x} : f.entries[u] \in Int

LEMMA EffectGrows ==
    ASSUME NEW B, IsABag(B), NEW x, NEW S, IsFiniteSet(S), NEW u, Summable(B, x, S, u)
    PROVE  /\ EffectIn(B, u, S) \in Int
           /\ EffectIn(BagAdd(B, x), u, S \cup {x}) = EffectIn(B, u, S) + x.entries[u]
<1>1. PICK wt : wt = [f \in S \cup {x} |-> f.entries[u]]
  OBVIOUS
<1>2. PICK c : c = [f \in S |-> Copies(f, B) * f.entries[u]]
  OBVIOUS
<1>3. PICK d : d = [f \in S \cup {x} |-> Copies(f, BagAdd(B, x)) * f.entries[u]]
  OBVIOUS
<1>4. WeighsMore(c, d, B, wt, S, x) /\ wt[x] = x.entries[u]
  BY <1>1, <1>2, <1>3 DEF Weighs, WeighsMore, Summable
<1>5. /\ SumFunctionOnSet(c, S) \in Int
      /\ SumFunctionOnSet(d, S \cup {x}) = SumFunctionOnSet(c, S) + wt[x]
  BY <1>4, OneMoreCopy DEF Summable
<1>6. IsFiniteSet(S \cup {x})
  BY OneMoreIsFinite
<1> QED
  BY <1>2, <1>3, <1>4, <1>5, <1>6, EffectIsSum

LEMMA EffectOfNone ==
    ASSUME NEW B, NEW u
    PROVE  EffectIn(B, u, {}) = 0
  BY EffectIsSum, SumOfNothing, SmallSetsAreFinite

LEMMA EffectStays ==
    ASSUME NEW B, IsABag(B), NEW x, NEW S, IsFiniteSet(S), x \notin S, NEW u
    PROVE  EffectIn(BagAdd(B, x), u, S) = EffectIn(B, u, S)
<1>1. PICK c : c = [f \in S |-> Copies(f, B) * f.entries[u]]
  OBVIOUS
<1>2. PICK d : d = [f \in S |-> Copies(f, BagAdd(B, x)) * f.entries[u]]
  OBVIOUS
<1>3. \A f \in S : Copies(f, BagAdd(B, x)) = Copies(f, B)
  BY BagGrows
<1>4. c = d
  BY <1>1, <1>2, <1>3
<1>5. EffectIn(BagAdd(B, x), u, S) = SumFunctionOnSet(d, S) /\ EffectIn(B, u, S) = SumFunctionOnSet(c, S)
  BY <1>1, <1>2, EffectIsSum
<1> QED
  BY <1>4, <1>5

\* The events of a kind of an object, and those that touch a user's balance.
OfKind(r, kind) == {f \in EventsOf(r) : f.kind = kind}
Touching(r, u) == {f \in EventsOf(r) : u \in DOMAIN f.entries}

\* What the model counts and adds up, now and after the next step.
LEMMA BookedIsCount == \A r, k : Booked(k, r) = CountIn(ledger, OfKind(r, k))
<1> SUFFICES ASSUME NEW r, NEW k
             PROVE  Booked(k, r) = CountIn(ledger, OfKind(r, k))
  OBVIOUS
<1>1. OfKind(r, k) = {f \in LedgerEvents : f.kind = k /\ f.ref = r}
  BY DEF EventsOf, OfKind
<1> QED
  BY <1>1 DEF Booked, CountIn

LEMMA BookedWillBeCount == (\A r, k : Booked(k, r) = CountIn(ledger, OfKind(r, k)))'
  BY BookedIsCount, PTL

LEMMA EffectOfEvents == \A r, u : Effect(EventsOf(r), u) = EffectIn(ledger, u, Touching(r, u))
  BY DEF Effect, EffectIn, Touching

LEMMA EffectWillBe == (\A r, u : Effect(EventsOf(r), u) = EffectIn(ledger, u, Touching(r, u)))'
  BY EffectOfEvents, PTL

LEMMA BookedType ==
    ASSUME TypeOK, IsFiniteSet(LedgerEvents), NEW kind, NEW ref
    PROVE  /\ Booked(kind, ref) \in Nat
           /\ Booked(kind, ref) = 0 <=> ~\E f \in EventsOf(ref) : f.kind = kind
<1>1. OfKind(ref, kind) \in SUBSET BagToSet(ledger) /\ IsFiniteSet(OfKind(ref, kind))
  <2>1. OfKind(ref, kind) \subseteq LedgerEvents
    BY DEF OfKind, EventsOf
  <2> QED
    BY <2>1, PartIsFinite DEF LedgerEvents
<1>2. IsABag(ledger)
  BY DEF TypeOK
<1>3. CountIn(ledger, OfKind(ref, kind)) \in Nat /\ (CountIn(ledger, OfKind(ref, kind)) = 0 <=> OfKind(ref, kind) = {})
  BY <1>1, <1>2, CountType
<1> QED
  BY <1>3, BookedIsCount DEF OfKind

\* A posting is one more event of its object and kind, and of no other.
LEMMA BookCounts ==
    ASSUME TypeOK, IsFiniteSet(LedgerEvents),
           NEW kind, NEW ref, NEW entries, NEW by, NEW type,
           Book(kind, ref, entries, by, type)
    PROVE  /\ IsFiniteSet(LedgerEvents)'
           /\ EventsOf(ref)' = EventsOf(ref) \cup
                 {[kind |-> kind, ref |-> ref, entries |-> entries, by |-> by]}
           /\ \A r : r # ref => EventsOf(r)' = EventsOf(r)
           /\ \A r, k : Booked(k, r)' = Booked(k, r) + IF k = kind /\ r = ref THEN 1 ELSE 0
           /\ \A r, u : r # ref => Effect(EventsOf(r), u)' = Effect(EventsOf(r), u)
<1>1. PICK x : x = [kind |-> kind, ref |-> ref, entries |-> entries, by |-> by]
  OBVIOUS
<1>2. x.ref = ref /\ x.kind = kind
  BY <1>1
<1>3. ledger' = BagAdd(ledger, x) /\ IsABag(ledger)
  BY <1>1 DEF Book, TypeOK
<1>4. LedgerEvents' = LedgerEvents \cup {x}
  BY <1>3, BagGrows DEF LedgerEvents
<1>5. IsFiniteSet(LedgerEvents)'
  BY <1>4, OneMoreIsFinite
<1>6. EventsOf(ref)' = EventsOf(ref) \cup {x} /\ \A r : r # ref => EventsOf(r)' = EventsOf(r)
  BY <1>2, <1>4 DEF EventsOf
<1>7. ASSUME NEW r, NEW k
      PROVE  Booked(k, r)' = Booked(k, r) + IF k = kind /\ r = ref THEN 1 ELSE 0
  <2>1. PICK S : S = OfKind(r, k)
    OBVIOUS
  <2>2. S \subseteq LedgerEvents
    BY <2>1 DEF OfKind, EventsOf
  <2>3. IsFiniteSet(S)
    BY <2>2, PartIsFinite
  <2>4. Booked(k, r) = CountIn(ledger, S) /\ CountIn(ledger, S) \in Nat
    BY <1>3, <2>1, <2>2, <2>3, BookedIsCount, CountType DEF LedgerEvents
  <2>5. PICK T : T = OfKind(r, k)'
    OBVIOUS
  <2>6. Booked(k, r)' = CountIn(BagAdd(ledger, x), T)
    <3>1. Booked(k, r)' = CountIn(ledger', OfKind(r, k)')
      BY BookedWillBeCount
    <3> QED
      BY <1>3, <2>5, <3>1
  <2>7. CASE k = kind /\ r = ref
    <3>1. T = S \cup {x} /\ (x \in BagToSet(ledger) => x \in S)
      BY <1>2, <1>6, <2>1, <2>5, <2>7 DEF OfKind, EventsOf, LedgerEvents
    <3>2. CountIn(BagAdd(ledger, x), S \cup {x}) = CountIn(ledger, S) + 1
      BY <1>3, <2>3, <3>1, CountGrows
    <3> QED
      BY <2>4, <2>6, <2>7, <3>1, <3>2
  <2>8. CASE ~(k = kind /\ r = ref)
    <3>1. T = S /\ x \notin S
      BY <1>2, <1>6, <2>1, <2>5, <2>8 DEF OfKind, EventsOf
    <3>2. CountIn(BagAdd(ledger, x), S) = CountIn(ledger, S)
      BY <1>3, <2>3, <3>1, CountStays
    <3> QED
      BY <2>4, <2>6, <2>8, <3>1, <3>2
  <2> QED
    BY <2>7, <2>8
<1>8. ASSUME NEW r, NEW u, r # ref
      PROVE  Effect(EventsOf(r), u)' = Effect(EventsOf(r), u)
  <2>1. PICK S : S = Touching(r, u)
    OBVIOUS
  <2>2. S \subseteq LedgerEvents /\ x \notin S
    BY <1>2, <1>8, <2>1 DEF Touching, EventsOf
  <2>3. IsFiniteSet(S)
    BY <2>2, PartIsFinite
  <2>4. Effect(EventsOf(r), u)' = EffectIn(BagAdd(ledger, x), u, S)
    <3>1. Touching(r, u)' = S
      BY <1>6, <1>8, <2>1 DEF Touching
    <3>2. Effect(EventsOf(r), u)' = EffectIn(ledger', u, Touching(r, u)')
      BY EffectWillBe
    <3> QED
      BY <1>3, <3>1, <3>2
  <2> QED
    BY <1>3, <2>1, <2>2, <2>3, <2>4, EffectStays, EffectOfEvents
<1> QED
  BY <1>1, <1>5, <1>6, <1>7, <1>8

\* ... and what it does to a balance comes on top of what the others did.
LEMMA BookMoves ==
    ASSUME TypeOK, IsFiniteSet(LedgerEvents),
           NEW kind, NEW ref, NEW entries, NEW by, NEW type,
           Book(kind, ref, entries, by, type),
           NEW u \in DOMAIN entries, entries[u] \in Int,
           \A f \in EventsOf(ref) : u \in DOMAIN f.entries => f.entries[u] \in Int
    PROVE  /\ Effect(EventsOf(ref), u) \in Int
           /\ Effect(EventsOf(ref), u)' = Effect(EventsOf(ref), u) + entries[u]
<1>1. PICK x : x = [kind |-> kind, ref |-> ref, entries |-> entries, by |-> by]
  OBVIOUS
<1>2. x.ref = ref /\ x.entries = entries
  BY <1>1
<1>3. ledger' = BagAdd(ledger, x) /\ IsABag(ledger)
  BY <1>1 DEF Book, TypeOK
<1>4. EventsOf(ref)' = EventsOf(ref) \cup {x}
  BY <1>1, BookCounts
<1>5. PICK S : S = Touching(ref, u)
  OBVIOUS
<1>6. /\ S \subseteq LedgerEvents /\ (x \in BagToSet(ledger) => x \in S)
      /\ \A f \in S \cup {x} : f.entries[u] \in Int
  BY <1>2, <1>5 DEF Touching, EventsOf, LedgerEvents
<1>7. IsFiniteSet(S)
  BY <1>6, PartIsFinite
<1>8. Effect(EventsOf(ref), u)' = EffectIn(BagAdd(ledger, x), u, S \cup {x})
  <2>1. Touching(ref, u)' = S \cup {x}
    BY <1>2, <1>4, <1>5 DEF Touching
  <2>2. Effect(EventsOf(ref), u)' = EffectIn(ledger', u, Touching(ref, u)')
    BY EffectWillBe
  <2> QED
    BY <1>3, <2>1, <2>2
<1>9. /\ EffectIn(ledger, u, S) \in Int
      /\ EffectIn(BagAdd(ledger, x), u, S \cup {x}) = EffectIn(ledger, u, S) + x.entries[u]
  <2>1. PICK B : B = ledger
    OBVIOUS
  <2>2. IsABag(B) /\ Summable(B, x, S, u)
    BY <1>3, <1>6, <2>1 DEF Summable
  <2>3. /\ EffectIn(B, u, S) \in Int
        /\ EffectIn(BagAdd(B, x), u, S \cup {x}) = EffectIn(B, u, S) + x.entries[u]
    BY <1>7, <2>2, EffectGrows
  <2> QED
    BY <2>1, <2>3
<1> QED
  BY <1>2, <1>5, <1>8, <1>9, EffectOfEvents

\* The entries of an expense are whole cents.
LEMMA CollapsedCents ==
    ASSUME NEW payer, NEW shares \in ShareMaps
    PROVE  \A u \in DOMAIN Collapsed(payer, shares) : Collapsed(payer, shares)[u] \in Int
<1>1. IsFiniteSet(DOMAIN shares) /\ \A u \in DOMAIN shares : shares[u] \in Int
  BY CentsAssumption
<1>2. SharesTotal(shares) \in Int
  <2>1. SumFunctionOnSet(shares, DOMAIN shares) \in Int
    BY <1>1, SumType
  <2> QED
    BY <2>1 DEF SharesTotal, SumFunction
<1> DEFINE own == IF payer \in DOMAIN shares THEN shares[payer] ELSE 0
           net == [u \in DOMAIN shares \cup {payer} |->
                     IF u = payer THEN SharesTotal(shares) - own ELSE -shares[u]]
           moved == {u \in DOMAIN net : net[u] # 0}
           some == IF moved = {} THEN {payer} ELSE moved
<1>3. own \in Int
  BY <1>1
<1>4. \A u \in DOMAIN net : net[u] \in Int
  <2> HIDE DEF own
  <2> QED
    BY <1>1, <1>2, <1>3
<1>5. some \subseteq DOMAIN net
  OBVIOUS
<1>6. Collapsed(payer, shares) = [u \in some |-> net[u]]
  <2>1. Collapsed(payer, shares) = Restrict(net, some)
    BY DEF Collapsed
  <2> HIDE DEF net, some
  <2> QED
    BY <2>1 DEF Restrict
<1> HIDE DEF net, some
<1> QED
  BY <1>4, <1>5, <1>6

-----------------------------------------------------------------------------
(* What is in the ledger.                                                  *)

\* An expense has its own event once, and any reversals undo just that.
ExpenseRight(e) ==
    LET entries == Collapsed(expense[e].payer, expense[e].shares)
        reversals == Booked("expense_reversal", e)
    IN  IF ~Exists(expense[e])
        THEN EventsOf(e) = {}
        ELSE /\ \A f \in EventsOf(e) :
                   f.entries = IF f.kind = "expense" THEN entries ELSE Negated(entries)
             /\ Booked("expense", e) = 1
             /\ expense[e].status = "reversed" <=> reversals > 0
             /\ \A u \in DOMAIN entries : Effect(EventsOf(e), u) = (1 - reversals) * entries[u]
             /\ reversals > 1 => e \in overwritten

Moved(x) == [u \in {x.from, x.to} |-> IF u = x.from THEN x.amount ELSE -x.amount]

\* A settlement has one event for each confirmation.
SettlementRight(s) ==
    LET x == settlement[s]
        times == Booked("settlement", s)
    IN  IF ~Exists(x)
        THEN EventsOf(s) = {}
        ELSE /\ \A f \in EventsOf(s) : f.entries = Moved(x)
             /\ Effect(EventsOf(s), x.from) = times * x.amount
             /\ Effect(EventsOf(s), x.to) = -(times * x.amount)
             /\ x.status = "pending" => times = 0
             /\ x.status = "confirmed" => times > 0
             /\ s \notin overwritten => times = IF x.status = "confirmed" THEN 1 ELSE 0

\* What a dispute's row tells of its adjustments, its reviews and its rejections,
\* whatever overlapped, ...
Standing(x, adjustments, reviews, rejections) ==
    /\ x.status = "open" => adjustments = 0 /\ reviews = 0 /\ rejections = 0 /\ x.kind = "none"
    /\ x.status = "under_review" => reviews > 0
    /\ x.status = "rejected" => rejections > 0

\* ... and if nobody wrote over what they had not read.
Tidy(x, adjustments, reviews, rejections) ==
    /\ x.status = "under_review" => adjustments = 0 /\ rejections = 0 /\ x.kind = "none"
    /\ x.status = "rejected" => adjustments = 0 /\ x.kind = "none"
    /\ x.status = "resolved" /\ x.kind # "full_reversal" => adjustments = 1
    /\ x.status = "resolved" /\ x.kind = "full_reversal" =>
          adjustments = 0 /\ rejections = 0 /\ reviews > 0

DisputeRight(d) ==
    LET x == dispute[d]
        adjustments == Booked("adjustment", d)
        reviews == Told("dispute.under_review", d)
        rejections == Told("dispute.rejected", d)
    IN  IF ~Exists(x)
        THEN EventsOf(d) = {} /\ reviews = 0 /\ rejections = 0
        ELSE /\ \A f \in EventsOf(d) : f.by \notin Parties(d)
             /\ Standing(x, adjustments, reviews, rejections)
             /\ x.status = "resolved" => adjustments > 0 \/ Booked("expense_reversal", x.expense) > 0
             /\ d \notin overwritten => Tidy(x, adjustments, reviews, rejections)
             /\ d \notin overwritten /\ x.status = "resolved" =>
                   /\ x.resolver \notin Parties(d)
                   /\ x.kind = "full_reversal" =>
                         \E f \in EventsOf(x.expense) : f.kind = "expense_reversal" /\ f.by = x.resolver

\* What moves money is told, each time.
AllTold ==
    /\ \A e \in Expenses : Told("expense.reversed", e) = Booked("expense_reversal", e)
    /\ \A d \in Disputes : Told("dispute.resolved", d) = Booked("adjustment", d)

LedgerRight ==
    /\ IsFiniteSet(LedgerEvents)
    /\ \A e \in Expenses : ExpenseRight(e)
    /\ \A s \in Settlements : SettlementRight(s)
    /\ \A d \in Disputes : DisputeRight(d)
    /\ AllTold

-----------------------------------------------------------------------------
(* What a step leaves alone.                                               *)

\* Nothing was posted for an object.
Alone(r) ==
    /\ EventsOf(r)' = EventsOf(r)
    /\ \A k : Booked(k, r)' = Booked(k, r)
    /\ \A u : Effect(EventsOf(r), u)' = Effect(EventsOf(r), u)

LedgerGrows ==
    /\ IsFiniteSet(LedgerEvents)'
    /\ \A r : EventsOf(r) \subseteq EventsOf(r)'
    /\ \A k, r : Booked(k, r) \in Nat /\ Booked(k, r)' \in Nat /\ Booked(k, r) <= Booked(k, r)'

LEMMA BookLeavesAlone ==
    ASSUME TypeOK, IsFiniteSet(LedgerEvents),
           NEW kind, NEW ref, NEW entries, NEW by, NEW type,
           Book(kind, ref, entries, by, type)
    PROVE  LedgerGrows /\ \A r : r # ref => Alone(r)
<1>1. /\ IsFiniteSet(LedgerEvents)'
      /\ \A r : r # ref => EventsOf(r)' = EventsOf(r)
      /\ EventsOf(ref) \subseteq EventsOf(ref)'
      /\ \A r, k : Booked(k, r)' = Booked(k, r) + IF k = kind /\ r = ref THEN 1 ELSE 0
      /\ \A r, u : r # ref => Effect(EventsOf(r), u)' = Effect(EventsOf(r), u)
  BY BookCounts
<1>2. \A r, k : Booked(k, r) \in Nat
  BY BookedType
<1>3. ASSUME NEW r, NEW k
      PROVE  Booked(k, r)' \in Nat /\ Booked(k, r) <= Booked(k, r)'
  BY <1>1, <1>2
<1>4. ASSUME NEW r, r # ref
      PROVE  Alone(r)
  <2>1. \A k : Booked(k, r)' = Booked(k, r)
    BY <1>1, <1>2, <1>4
  <2> QED
    BY <1>1, <1>4, <2>1 DEF Alone
<1> QED
  BY <1>1, <1>2, <1>3, <1>4 DEF LedgerGrows

LEMMA LedgerStill ==
    ASSUME TypeOK, IsFiniteSet(LedgerEvents), ledger' = ledger
    PROVE  LedgerGrows /\ \A r : Alone(r)
<1>1. LedgerEvents' = LedgerEvents
  BY DEF LedgerEvents
<1>2. \A r : EventsOf(r)' = EventsOf(r)
  BY <1>1 DEF EventsOf
<1>3. ASSUME NEW r, NEW k
      PROVE  Booked(k, r)' = Booked(k, r)
  <2>1. OfKind(r, k)' = OfKind(r, k)
    BY <1>2 DEF OfKind
  <2> QED
    BY <2>1, BookedIsCount, BookedWillBeCount
<1>4. ASSUME NEW r, NEW u
      PROVE  Effect(EventsOf(r), u)' = Effect(EventsOf(r), u)
  <2>1. Touching(r, u)' = Touching(r, u)
    BY <1>2 DEF Touching
  <2> QED
    BY <2>1, EffectOfEvents, EffectWillBe
<1>5. \A k, r : Booked(k, r) \in Nat
  BY BookedType
<1>6. \A k, r : Booked(k, r)' \in Nat /\ Booked(k, r) <= Booked(k, r)'
  BY <1>3, <1>5
<1> QED
  BY <1>1, <1>2, <1>3, <1>4, <1>5, <1>6 DEF LedgerGrows, Alone

LEMMA ExpenseAlone ==
    ASSUME NEW e, ExpenseRight(e), Alone(e), expense'[e] = expense[e],
           overwritten \subseteq overwritten'
    PROVE  ExpenseRight(e)'
  BY DEF ExpenseRight, Alone

LEMMA SettlementAlone ==
    ASSUME NEW s, SettlementRight(s), Alone(s), settlement'[s] = settlement[s],
           overwritten \subseteq overwritten'
    PROVE  SettlementRight(s)'
  BY DEF SettlementRight, Alone

DisputeTypes == {"dispute.under_review", "dispute.rejected"}

LEMMA DisputeAlone ==
    ASSUME NEW d \in Disputes, DisputeRight(d), Alone(d), LedgerGrows, RowsStay,
           dispute'[d] = dispute[d], \A t \in DisputeTypes : Told(t, d)' = Told(t, d),
           overwritten \subseteq overwritten'
    PROVE  DisputeRight(d)'
<1>1. /\ EventsOf(d)' = EventsOf(d) /\ Booked("adjustment", d)' = Booked("adjustment", d)
      /\ Told("dispute.under_review", d)' = Told("dispute.under_review", d)
      /\ Told("dispute.rejected", d)' = Told("dispute.rejected", d)
  BY DEF Alone, DisputeTypes
<1>2. CASE ~Exists(dispute[d])
  BY <1>1, <1>2 DEF DisputeRight
<1>3. CASE Exists(dispute[d])
  <2>1. PICK e : e = dispute[d].expense
    OBVIOUS
  <2>2. /\ Parties(d)' = Parties(d) /\ EventsOf(e) \subseteq EventsOf(e)'
        /\ Booked("expense_reversal", e) \in Nat /\ Booked("expense_reversal", e)' \in Nat
        /\ Booked("expense_reversal", e) <= Booked("expense_reversal", e)'
    BY <1>3 DEF RowsStay, LedgerGrows
  <2>3. \A f \in EventsOf(d)' : f.by \notin Parties(d)'
    BY <1>1, <1>3, <2>2 DEF DisputeRight
  <2>4. dispute'[d].status = "resolved" =>
            Booked("adjustment", d)' > 0 \/ Booked("expense_reversal", e)' > 0
    BY <1>1, <1>3, <2>1, <2>2 DEF DisputeRight
  <2>5. d \notin overwritten' /\ dispute'[d].status = "resolved" =>
            /\ dispute'[d].resolver \notin Parties(d)'
            /\ dispute'[d].kind = "full_reversal" =>
                  \E f \in EventsOf(e)' : f.kind = "expense_reversal" /\ f.by = dispute'[d].resolver
    BY <1>3, <2>1, <2>2 DEF DisputeRight
  <2> QED
    BY <1>1, <1>3, <2>1, <2>3, <2>4, <2>5 DEF DisputeRight
<1> QED
  BY <1>2, <1>3

\* What is booked and told at once.
LEMMA BookTold ==
    ASSUME TypeOK, IsFiniteSet(LedgerEvents), AllTold,
           NEW kind, NEW ref, NEW entries, NEW by, NEW type,
           Book(kind, ref, entries, by, type),
           kind = "expense_reversal" <=> type = "expense.reversed",
           kind = "adjustment" <=> type = "dispute.resolved"
    PROVE  AllTold'
<1>1. IsABag(outbox) /\ Announce(type, ref)
  BY BookGrows DEF TypeOK
<1>2. \A t, r : /\ Told(t, r) \in Nat
                /\ Told(t, r)' = Told(t, r) + IF t = type /\ r = ref THEN 1 ELSE 0
  BY <1>1, ToldOnce
<1>3. \A r, k : Booked(k, r)' = Booked(k, r) + IF k = kind /\ r = ref THEN 1 ELSE 0
  BY BookCounts
<1> QED
  BY <1>2, <1>3 DEF AllTold

LEMMA SaysNothing ==
    ASSUME AllTold, \A r : Alone(r),
           \A t, r : t \in {"expense.reversed", "dispute.resolved"} => Told(t, r)' = Told(t, r)
    PROVE  AllTold'
  BY DEF AllTold, Alone

-----------------------------------------------------------------------------
(* What a step makes of the object it writes.                              *)

LEMMA NothingTouches ==
    ASSUME NEW r, NEW u, EventsOf(r) = {}
    PROVE  Effect(EventsOf(r), u) = 0
<1>1. Touching(r, u) = {}
  BY DEF Touching
<1> QED
  BY <1>1, EffectOfEvents, EffectOfNone

LEMMA OneTimeMore ==
    ASSUME NEW n \in Int, NEW c \in Int
    PROVE  /\ n * c + c = (n + 1) * c
           /\ -(n * c) + (-c) = -((n + 1) * c)
           /\ (1 - n) * c + (-c) = (1 - (n + 1)) * c
  OBVIOUS

LEMMA CreatedExpense ==
    ASSUME Types, LedgerRight, NEW u \in Users, NEW e \in Expenses, CreateExpense(u, e)
    PROVE  ExpenseRight(e)'
<1>1. /\ TypeOK /\ IsFiniteSet(LedgerEvents) /\ ExpenseRight(e)
      /\ expense \in [Expenses -> ExpenseRows \cup {Absent}]
  BY DEF Types, TypeOK, LedgerRight
<1>2. PICK payer \in Users, shares \in ShareMaps :
        /\ expense' = [expense EXCEPT ![e] =
              [status |-> "active", payer |-> payer, creator |-> u, shares |-> shares]]
        /\ Book("expense", e, Collapsed(payer, shares), u, "expense.created")
  BY DEF CreateExpense
<1>3. PICK entries : /\ entries = Collapsed(payer, shares)
                     /\ \A v \in DOMAIN entries : entries[v] \in Int
  BY CollapsedCents
<1>4. PICK x : x = [kind |-> "expense", ref |-> e, entries |-> entries, by |-> u]
  OBVIOUS
<1>5. EventsOf(e) = {}
  BY <1>1 DEF CreateExpense, ExpenseRight
<1>6. Book("expense", e, entries, u, "expense.created")
  BY <1>2, <1>3
<1>7. /\ EventsOf(e)' = {x}
      /\ \A k : Booked(k, e)' = Booked(k, e) + IF k = "expense" THEN 1 ELSE 0
  BY <1>1, <1>4, <1>5, <1>6, BookCounts
<1>8. \A k : Booked(k, e) = 0
  BY <1>1, <1>5, BookedType
<1>9. Booked("expense", e)' = 1 /\ Booked("expense_reversal", e)' = 0
  BY <1>7, <1>8
<1>10. ASSUME NEW v \in DOMAIN entries
       PROVE  Effect(EventsOf(e), v)' = entries[v]
  <2>1. entries[v] \in Int /\ \A f \in EventsOf(e) : v \in DOMAIN f.entries => f.entries[v] \in Int
    BY <1>3, <1>5
  <2>2. Effect(EventsOf(e), v)' = Effect(EventsOf(e), v) + entries[v]
    BY <1>1, <1>6, <2>1, BookMoves
  <2>3. Effect(EventsOf(e), v) = 0
    BY <1>5, NothingTouches
  <2> QED
    BY <2>1, <2>2, <2>3
<1>11. /\ expense'[e].status = "active" /\ expense'[e].payer = payer /\ expense'[e].shares = shares
  BY <1>1, <1>2
<1>12. \A v \in DOMAIN entries : (1 - 0) * entries[v] = entries[v]
  BY <1>3
<1>13. x.kind = "expense" /\ x.entries = entries
  BY <1>4
<1>14. Collapsed(expense'[e].payer, expense'[e].shares) = entries /\ Exists(expense'[e])
  BY <1>3, <1>11 DEF Exists
<1> QED
  BY <1>7, <1>9, <1>10, <1>11, <1>12, <1>13, <1>14 DEF ExpenseRight

\* A reversal finds the one event of its expense and undoes it once more.
LEMMA ReversedExpense ==
    ASSUME Types, LedgerRight, NEW m, NEW e \in Expenses, Exists(expense[e]), Reversal(m, e),
           overwritten \subseteq overwritten', expense[e].status = "reversed" => e \in overwritten'
    PROVE  /\ ExpenseRight(e)'
           /\ Booked("expense_reversal", e)' > 0
           /\ \E f \in EventsOf(e)' : f.kind = "expense_reversal" /\ f.by = m
           /\ \E entries : Book("expense_reversal", e, entries, m, "expense.reversed")
<1>1. /\ TypeOK /\ IsFiniteSet(LedgerEvents) /\ ExpenseRight(e) /\ expense[e] \in ExpenseRows
  BY ObjectRows DEF Types, LedgerRight
<1>2. /\ expense'[e].status = "reversed" /\ Exists(expense'[e])
      /\ expense'[e].payer = expense[e].payer /\ expense'[e].shares = expense[e].shares
  BY <1>1, ReversalWrites DEF PayersStay
<1>3. PICK entries : /\ entries = Collapsed(expense[e].payer, expense[e].shares)
                     /\ \A v \in DOMAIN entries : entries[v] \in Int
  BY <1>1, CollapsedCents DEF ExpenseRows
<1>4. PICK n \in Nat : n = Booked("expense_reversal", e)
  BY <1>1, BookedType
<1>5. /\ \A f \in EventsOf(e) : f.entries = IF f.kind = "expense" THEN entries ELSE Negated(entries)
      /\ Booked("expense", e) = 1
      /\ expense[e].status = "reversed" <=> n > 0
      /\ \A v \in DOMAIN entries : Effect(EventsOf(e), v) = (1 - n) * entries[v]
  BY <1>1, <1>3, <1>4 DEF ExpenseRight
<1>6. Original(e).entries = entries
  <2>1. PICK f \in EventsOf(e) : f.kind = "expense"
    BY <1>1, <1>5, BookedType
  <2>2. Original(e) \in EventsOf(e) /\ Original(e).kind = "expense"
    BY <2>1 DEF Original, EventsOf
  <2> QED
    BY <1>5, <2>2
<1> DEFINE back == Negated(entries)
<1>7. Book("expense_reversal", e, back, m, "expense.reversed")
  BY <1>6 DEF Reversal
<1>8. DOMAIN back = DOMAIN entries /\ \A v \in DOMAIN entries : back[v] = -entries[v] /\ back[v] \in Int
  BY <1>3 DEF Negated
<1>9. back = Negated(entries)
  OBVIOUS
<1> HIDE DEF back
<1>10. PICK x : x = [kind |-> "expense_reversal", ref |-> e, entries |-> back, by |-> m]
  OBVIOUS
<1>11. /\ EventsOf(e)' = EventsOf(e) \cup {x}
       /\ \A k : Booked(k, e)' = Booked(k, e) + IF k = "expense_reversal" THEN 1 ELSE 0
  BY <1>1, <1>7, <1>10, BookCounts
<1>12. x.kind = "expense_reversal" /\ x.entries = back /\ x.by = m
  BY <1>10
<1>13. Booked("expense", e)' = 1 /\ Booked("expense_reversal", e)' = n + 1
  BY <1>4, <1>5, <1>11
<1>14. ASSUME NEW v \in DOMAIN entries
       PROVE  Effect(EventsOf(e), v)' = (1 - (n + 1)) * entries[v]
  <2>1. \A f \in EventsOf(e) : v \in DOMAIN f.entries => f.entries[v] \in Int
    BY <1>3, <1>5, <1>8, <1>9, <1>14
  <2>2. Effect(EventsOf(e), v)' = Effect(EventsOf(e), v) + back[v]
    BY <1>1, <1>7, <1>8, <1>14, <2>1, BookMoves
  <2>3. PICK k \in Int : k = entries[v]
    BY <1>3, <1>14
  <2>4. Effect(EventsOf(e), v) = (1 - n) * k /\ back[v] = -k
    BY <1>5, <1>8, <1>14, <2>3
  <2>5. (1 - n) * k + (-k) = (1 - (n + 1)) * k
    BY OneTimeMore
  <2> QED
    BY <2>2, <2>3, <2>4, <2>5
<1>15. n + 1 > 1 => e \in overwritten'
  BY <1>5
<1>16. \A f \in EventsOf(e)' : f.entries = IF f.kind = "expense" THEN entries ELSE Negated(entries)
  BY <1>5, <1>9, <1>11, <1>12
<1>17. ExpenseRight(e)'
  BY <1>2, <1>3, <1>13, <1>14, <1>15, <1>16 DEF ExpenseRight
<1> QED
  BY <1>7, <1>11, <1>12, <1>13, <1>17

LEMMA ConfirmedSettlement ==
    ASSUME Types, LedgerRight, NEW s \in Settlements, Exists(settlement[s]), NEW by,
           Book("settlement", s, Moved(settlement[s]), by, "settlement.confirmed"),
           settlement'[s].status = "confirmed", settlement'[s].from = settlement[s].from,
           settlement'[s].to = settlement[s].to, settlement'[s].amount = settlement[s].amount,
           overwritten \subseteq overwritten', settlement[s].status # "pending" => s \in overwritten'
    PROVE  SettlementRight(s)'
<1>1. /\ TypeOK /\ IsFiniteSet(LedgerEvents) /\ SettlementRight(s) /\ settlement[s] \in SettlementRows
      /\ settlement[s].from # settlement[s].to
  BY ObjectRows DEF Types, TypeOK, LedgerRight
<1>0. settlement[s].amount \in Int
  BY <1>1, CentsAssumption DEF SettlementRows
<1>2. PICK a, b, c : a = settlement[s].from /\ b = settlement[s].to /\ c = settlement[s].amount
  OBVIOUS
<1>20. c \in Int
  BY <1>0, <1>2
<1>3. PICK n \in Nat : n = Booked("settlement", s)
  BY <1>1, BookedType
<1>4. PICK entries : entries = Moved(settlement[s])
  OBVIOUS
<1>5. /\ \A f \in EventsOf(s) : f.entries = entries
      /\ Effect(EventsOf(s), a) = n * c /\ Effect(EventsOf(s), b) = -(n * c)
      /\ settlement[s].status = "pending" => n = 0
  BY <1>1, <1>2, <1>3, <1>4 DEF SettlementRight
<1>6. a \in DOMAIN entries /\ b \in DOMAIN entries /\ entries[a] = c /\ entries[b] = -c
  BY <1>1, <1>2, <1>4 DEF Moved
<1>7. Book("settlement", s, entries, by, "settlement.confirmed")
  BY <1>4
<1>8. PICK x : x = [kind |-> "settlement", ref |-> s, entries |-> entries, by |-> by]
  OBVIOUS
<1>9. EventsOf(s)' = EventsOf(s) \cup {x} /\ Booked("settlement", s)' = n + 1
  BY <1>1, <1>3, <1>7, <1>8, BookCounts
<1>10. x.entries = entries
  BY <1>8
<1>11. Effect(EventsOf(s), a)' = (n + 1) * c
  <2>1. entries[a] \in Int /\ \A f \in EventsOf(s) : a \in DOMAIN f.entries => f.entries[a] \in Int
    BY <1>20, <1>5, <1>6
  <2>2. Effect(EventsOf(s), a)' = Effect(EventsOf(s), a) + entries[a]
    BY <1>1, <1>6, <1>7, <2>1, BookMoves
  <2>3. n * c + c = (n + 1) * c
    BY <1>20, OneTimeMore
  <2> QED
    BY <1>5, <1>6, <2>2, <2>3
<1>12. Effect(EventsOf(s), b)' = -((n + 1) * c)
  <2>1. -c \in Int
    BY <1>20
  <2>2. entries[b] \in Int /\ \A f \in EventsOf(s) : b \in DOMAIN f.entries => f.entries[b] \in Int
    BY <1>5, <1>6, <2>1
  <2>3. Effect(EventsOf(s), b)' = Effect(EventsOf(s), b) + entries[b]
    BY <1>1, <1>6, <1>7, <2>2, BookMoves
  <2>4. -(n * c) + (-c) = -((n + 1) * c)
    BY <1>20, OneTimeMore
  <2> QED
    BY <1>5, <1>6, <2>3, <2>4
<1>13. s \notin overwritten' => n + 1 = 1
  BY <1>5
<1>14. Exists(settlement'[s]) /\ Moved(settlement'[s]) = entries
  BY <1>4 DEF Exists, Moved
<1>15. \A f \in EventsOf(s)' : f.entries = Moved(settlement'[s])
  BY <1>5, <1>9, <1>10, <1>14
<1> QED
  BY <1>2, <1>9, <1>11, <1>12, <1>13, <1>14, <1>15 DEF SettlementRight

\* What a write of a dispute's row comes with.
DisputeMoves(d, h) ==
    /\ Exists(dispute[d]) /\ OnlyDispute(d) /\ Parties(d)' = Parties(d) /\ LedgerGrows
    /\ overwritten \subseteq overwritten' /\ (dispute[d] # h.row => d \in overwritten')

\* What is booked and told of a dispute, and by whom.
Numbers(d, n, u, r) ==
    /\ n \in Nat /\ u \in Nat /\ r \in Nat
    /\ n = Booked("adjustment", d)
    /\ u = Told("dispute.under_review", d)
    /\ r = Told("dispute.rejected", d)

LEMMA NumbersOf ==
    ASSUME Types, LedgerRight, NEW d
    PROVE  \E n, u, r \in Nat : Numbers(d, n, u, r)
<1>1. TypeOK /\ IsFiniteSet(LedgerEvents)
  BY DEF Types, LedgerRight
<1>2. Booked("adjustment", d) \in Nat
  BY <1>1, BookedType
<1>3. Told("dispute.under_review", d) \in Nat /\ Told("dispute.rejected", d) \in Nat
  BY <1>1, BagGrows DEF TypeOK, Told
<1> QED
  BY <1>2, <1>3 DEF Numbers

LEMMA ReviewedDispute ==
    ASSUME Types, LedgerRight, NEW d \in Disputes, NEW h, DisputeMoves(d, h), Alone(d),
           dispute'[d].status = "under_review", dispute'[d].kind = dispute[d].kind,
           h.row.status = "open", Announce("dispute.under_review", d)
    PROVE  DisputeRight(d)'
<1>1. DisputeRight(d) /\ IsABag(outbox) /\ Exists(dispute[d])
  BY DEF LedgerRight, Types, TypeOK, DisputeMoves
<1>2. PICK n, u, r \in Nat : Numbers(d, n, u, r)
  BY NumbersOf
<1>3. /\ Booked("adjustment", d)' = n /\ EventsOf(d)' = EventsOf(d)
      /\ Told("dispute.under_review", d)' = u + 1 /\ Told("dispute.rejected", d)' = r
  BY <1>1, <1>2, ToldOnce DEF Alone, Numbers
<1>4. Standing(dispute[d], n, u, r) /\ \A f \in EventsOf(d) : f.by \notin Parties(d)
  BY <1>1, <1>2 DEF DisputeRight, Numbers
<1>5. d \notin overwritten' => dispute[d].status = "open"
  BY DEF DisputeMoves
<1>6. Standing(dispute'[d], n, u + 1, r)
  BY <1>2 DEF Standing
<1>7. d \notin overwritten' => Tidy(dispute'[d], n, u + 1, r)
  BY <1>4, <1>5 DEF Standing, Tidy
<1>8. Exists(dispute'[d]) /\ \A f \in EventsOf(d)' : f.by \notin Parties(d)'
  BY <1>3, <1>4 DEF Exists, DisputeMoves
<1> QED
  BY <1>3, <1>6, <1>7, <1>8 DEF DisputeRight

LEMMA RejectedDispute ==
    ASSUME Types, LedgerRight, NEW d \in Disputes, NEW h, DisputeMoves(d, h), Alone(d),
           dispute'[d].status = "rejected", dispute[d] = h.row => dispute'[d].kind = h.row.kind,
           h.row.status \in Unclosed, Announce("dispute.rejected", d)
    PROVE  DisputeRight(d)'
<1>1. DisputeRight(d) /\ IsABag(outbox) /\ Exists(dispute[d])
  BY DEF LedgerRight, Types, TypeOK, DisputeMoves
<1>2. PICK n, u, r \in Nat : Numbers(d, n, u, r)
  BY NumbersOf
<1>3. /\ Booked("adjustment", d)' = n /\ EventsOf(d)' = EventsOf(d)
      /\ Told("dispute.under_review", d)' = u /\ Told("dispute.rejected", d)' = r + 1
  BY <1>1, <1>2, ToldOnce DEF Alone, Numbers
<1>4. /\ Standing(dispute[d], n, u, r) /\ \A f \in EventsOf(d) : f.by \notin Parties(d)
      /\ d \notin overwritten => Tidy(dispute[d], n, u, r)
  BY <1>1, <1>2 DEF DisputeRight, Numbers
<1>5. d \notin overwritten' =>
        d \notin overwritten /\ dispute[d].status \in Unclosed /\ dispute'[d].kind = dispute[d].kind
  BY DEF DisputeMoves
<1>6. Standing(dispute'[d], n, u, r + 1)
  BY <1>2 DEF Standing
<1>7. d \notin overwritten' => Tidy(dispute'[d], n, u, r + 1)
  BY <1>4, <1>5 DEF Standing, Tidy, Unclosed
<1>8. Exists(dispute'[d]) /\ \A f \in EventsOf(d)' : f.by \notin Parties(d)'
  BY <1>3, <1>4 DEF Exists, DisputeMoves
<1> QED
  BY <1>3, <1>6, <1>7, <1>8 DEF DisputeRight

\* A resolution is by someone who is no party to the dispute, who found it under
\* review.
Resolves(d, h, kind) ==
    /\ dispute'[d].status = "resolved"
    /\ dispute[d] = h.row => dispute'[d].resolver = h.by /\ dispute'[d].kind = kind
    /\ h.row.status = "under_review" /\ h.by \notin Parties(d)

LEMMA AdjustedDispute ==
    ASSUME Types, LedgerRight, NEW d \in Disputes, NEW h, DisputeMoves(d, h),
           NEW kind \in {"none", "adjustment"}, Resolves(d, h, kind),
           NEW entries, Book("adjustment", d, entries, h.by, "dispute.resolved")
    PROVE  DisputeRight(d)'
<1>1. /\ DisputeRight(d) /\ TypeOK /\ IsFiniteSet(LedgerEvents) /\ IsABag(outbox)
      /\ Exists(dispute[d])
  BY DEF LedgerRight, Types, TypeOK, DisputeMoves
<1>2. PICK n, u, r \in Nat : Numbers(d, n, u, r)
  BY NumbersOf
<1>3. PICK x : x = [kind |-> "adjustment", ref |-> d, entries |-> entries, by |-> h.by]
  OBVIOUS
<1>4. EventsOf(d)' = EventsOf(d) \cup {x} /\ Booked("adjustment", d)' = n + 1
  BY <1>1, <1>2, <1>3, BookCounts DEF Numbers
<1>5. Announce("dispute.resolved", d)
  BY <1>1, BookGrows
<1>6. Told("dispute.under_review", d)' = u /\ Told("dispute.rejected", d)' = r
  BY <1>1, <1>2, <1>5, ToldOnce DEF Numbers
<1>7. /\ \A f \in EventsOf(d) : f.by \notin Parties(d)
      /\ d \notin overwritten => Tidy(dispute[d], n, u, r)
  BY <1>1, <1>2 DEF DisputeRight, Numbers
<1>8. d \notin overwritten' =>
        /\ d \notin overwritten /\ dispute[d].status = "under_review"
        /\ dispute'[d].kind = kind /\ dispute'[d].resolver = h.by
  BY DEF DisputeMoves, Resolves
<1>9. d \notin overwritten' => n = 0
  BY <1>7, <1>8 DEF Tidy
<1>10. dispute'[d].status = "resolved" /\ Exists(dispute'[d])
  BY DEF Resolves, Exists
<1>11. Standing(dispute'[d], n + 1, u, r)
  BY <1>10 DEF Standing
<1>12. d \notin overwritten' => Tidy(dispute'[d], n + 1, u, r)
  BY <1>8, <1>9, <1>10 DEF Tidy
<1>13. x.by = h.by
  BY <1>3
<1>14. Parties(d)' = Parties(d) /\ h.by \notin Parties(d)
  BY DEF DisputeMoves, Resolves
<1>15. \A f \in EventsOf(d)' : f.by \notin Parties(d)'
  BY <1>4, <1>7, <1>13, <1>14
<1>16. d \notin overwritten' =>
         dispute'[d].resolver \notin Parties(d)' /\ dispute'[d].kind # "full_reversal"
  BY <1>8, <1>14
<1>17. n + 1 > 0
  OBVIOUS
<1> QED
  BY <1>4, <1>6, <1>10, <1>11, <1>12, <1>15, <1>16, <1>17 DEF DisputeRight

LEMMA UndoneDispute ==
    ASSUME Types, LedgerRight, NEW d \in Disputes, NEW h, DisputeMoves(d, h), Alone(d),
           Resolves(d, h, "full_reversal"), NEW e, e = dispute[d].expense,
           Announce("expense.reversed", e), Booked("expense_reversal", e)' > 0,
           \E f \in EventsOf(e)' : f.kind = "expense_reversal" /\ f.by = h.by
    PROVE  DisputeRight(d)'
<1>1. DisputeRight(d) /\ IsABag(outbox) /\ Exists(dispute[d])
  BY DEF LedgerRight, Types, TypeOK, DisputeMoves
<1>2. PICK n, u, r \in Nat : Numbers(d, n, u, r)
  BY NumbersOf
<1>3. /\ Booked("adjustment", d)' = n /\ EventsOf(d)' = EventsOf(d)
      /\ Told("dispute.under_review", d)' = u /\ Told("dispute.rejected", d)' = r
  BY <1>1, <1>2, ToldOnce DEF Alone, Numbers
<1>4. /\ Standing(dispute[d], n, u, r) /\ \A f \in EventsOf(d) : f.by \notin Parties(d)
      /\ d \notin overwritten => Tidy(dispute[d], n, u, r)
  BY <1>1, <1>2 DEF DisputeRight, Numbers
<1>5. d \notin overwritten' =>
        /\ d \notin overwritten /\ dispute[d].status = "under_review"
        /\ dispute'[d].kind = "full_reversal" /\ dispute'[d].resolver = h.by
  BY DEF DisputeMoves, Resolves
<1>6. dispute'[d].status = "resolved" /\ Exists(dispute'[d]) /\ dispute'[d].expense = e
  BY DEF Resolves, Exists, DisputeMoves, OnlyDispute
<1>7. Standing(dispute'[d], n, u, r)
  BY <1>6 DEF Standing
<1>8. d \notin overwritten' => Tidy(dispute'[d], n, u, r)
  BY <1>4, <1>5, <1>6 DEF Standing, Tidy
<1>9. Parties(d)' = Parties(d) /\ h.by \notin Parties(d)
  BY DEF DisputeMoves, Resolves
<1> QED
  BY <1>3, <1>4, <1>5, <1>6, <1>7, <1>8, <1>9 DEF DisputeRight


\* A settlement that is created or refused has nothing posted for it.
LEMMA CreatedSettlement ==
    ASSUME Types, LedgerRight, NEW u \in Users, NEW s \in Settlements, CreateSettlement(u, s)
    PROVE  SettlementRight(s)'
<1>1. /\ TypeOK /\ IsFiniteSet(LedgerEvents) /\ SettlementRight(s)
      /\ settlement \in [Settlements -> SettlementRows \cup {Absent}]
  BY DEF Types, TypeOK, LedgerRight
<1>2. PICK v \in Users \ {u}, c \in Amounts :
        settlement' = [settlement EXCEPT ![s] =
            [status |-> "pending", from |-> u, to |-> v, amount |-> c]]
  BY DEF CreateSettlement
<1>3. /\ settlement'[s].status = "pending" /\ settlement'[s].from = u
      /\ settlement'[s].to = v /\ settlement'[s].amount = c
  BY <1>1, <1>2
<1>4. EventsOf(s) = {} /\ Alone(s)
  BY <1>1, LedgerStill DEF CreateSettlement, SettlementRight
<1>5. EventsOf(s)' = {} /\ \A x : Effect(EventsOf(s), x)' = 0
  BY <1>4, NothingTouches DEF Alone
<1>6. Booked("settlement", s)' = 0
  BY <1>1, <1>4, BookedType DEF Alone
<1>7. 0 * c = 0 /\ c \in Int
  BY CentsAssumption
<1>8. PICK z : z = 0 * c
  OBVIOUS
<1>9. z = 0
  BY <1>7, <1>8
<1>10. -z = 0
  <2>1. z \in Int
    BY <1>9
  <2>2. -z = 0 - z
    BY <2>1
  <2>3. 0 - z = 0
    BY <1>9
  <2> QED
    BY <2>2, <2>3
<1>11. Effect(EventsOf(s), u)' = 0 * c /\ Effect(EventsOf(s), v)' = -(0 * c)
  BY <1>5, <1>8, <1>9, <1>10
<1>12. Exists(settlement'[s])
  BY <1>3 DEF Exists
<1> QED
  BY <1>3, <1>5, <1>6, <1>11, <1>12 DEF SettlementRight

LEMMA RefusedSettlement ==
    ASSUME Types, LedgerRight, NEW s \in Settlements, Exists(settlement[s]), Alone(s),
           settlement'[s].status = "rejected", settlement'[s].from = settlement[s].from,
           settlement'[s].to = settlement[s].to, settlement'[s].amount = settlement[s].amount,
           overwritten \subseteq overwritten', settlement[s].status # "pending" => s \in overwritten'
    PROVE  SettlementRight(s)'
<1>1. SettlementRight(s)
  BY DEF LedgerRight
<1>2. Exists(settlement'[s]) /\ Moved(settlement'[s]) = Moved(settlement[s])
  BY DEF Exists, Moved
<1>3. s \notin overwritten' => Booked("settlement", s) = 0
  BY <1>1 DEF SettlementRight
<1> QED
  BY <1>1, <1>2, <1>3 DEF SettlementRight, Alone

LEMMA OpenedDispute ==
    ASSUME Types, LedgerRight, NEW d \in Disputes, ~Exists(dispute[d]), Alone(d),
           dispute'[d].status = "open", dispute'[d].kind = "none", Announce("dispute.opened", d)
    PROVE  DisputeRight(d)'
<1>1. /\ TypeOK /\ IsABag(outbox) /\ IsFiniteSet(LedgerEvents) /\ EventsOf(d) = {}
      /\ Told("dispute.under_review", d) = 0 /\ Told("dispute.rejected", d) = 0
  BY DEF Types, TypeOK, LedgerRight, DisputeRight
<1>2. Told("dispute.under_review", d)' = 0 /\ Told("dispute.rejected", d)' = 0
  BY <1>1, ToldOnce
<1>3. EventsOf(d)' = {} /\ Booked("adjustment", d)' = 0
  BY <1>1, BookedType DEF Alone
<1>4. Standing(dispute'[d], 0, 0, 0) /\ Tidy(dispute'[d], 0, 0, 0)
  BY DEF Standing, Tidy
<1>5. Exists(dispute'[d])
  BY DEF Exists
<1> QED
  BY <1>2, <1>3, <1>4, <1>5 DEF DisputeRight

-----------------------------------------------------------------------------
(* The ledger stays right.                                                 *)

LEMMA ToldOthers ==
    ASSUME IsABag(outbox), NEW type, NEW ref, Announce(type, ref)
    PROVE  \A t, r : t # type \/ r # ref => Told(t, r)' = Told(t, r)
  BY ToldOnce

\* Each object is right again, or untouched.
Settled(told) ==
    /\ \A e \in Expenses : ExpenseRight(e)' \/ (Alone(e) /\ expense'[e] = expense[e])
    /\ \A s \in Settlements : SettlementRight(s)' \/ (Alone(s) /\ settlement'[s] = settlement[s])
    /\ \A d \in Disputes : DisputeRight(d)' \/ (Alone(d) /\ dispute'[d] = dispute[d] /\ d \notin told)
    /\ overwritten \subseteq overwritten'

LEMMA LedgerRightNext ==
    ASSUME LedgerRight, LedgerGrows, RowsStay, AllTold', NEW told, Settled(told),
           \A d \in Disputes \ told : \A t \in DisputeTypes : Told(t, d)' = Told(t, d)
    PROVE  LedgerRight'
<1>1. \A e \in Expenses : ExpenseRight(e)'
  BY ExpenseAlone DEF LedgerRight, Settled
<1>2. \A s \in Settlements : SettlementRight(s)'
  BY SettlementAlone DEF LedgerRight, Settled
<1>3. \A d \in Disputes : DisputeRight(d)'
  BY DisputeAlone DEF LedgerRight, Settled
<1>4. IsFiniteSet(LedgerEvents)'
  BY DEF LedgerGrows
<1> QED
  BY <1>1, <1>2, <1>3, <1>4 DEF LedgerRight

\* A step that books an event, ...
LEMMA BookingStep ==
    ASSUME Types, LedgerRight, RowsStay,
           NEW kind, NEW ref, NEW entries, NEW by, NEW type,
           Book(kind, ref, entries, by, type), type \notin DisputeTypes,
           kind = "expense_reversal" <=> type = "expense.reversed",
           kind = "adjustment" <=> type = "dispute.resolved",
           Settled({})
    PROVE  LedgerRight'
<1>1. TypeOK /\ IsFiniteSet(LedgerEvents) /\ AllTold /\ IsABag(outbox)
  BY DEF Types, TypeOK, LedgerRight
<1>2. LedgerGrows
  BY <1>1, BookLeavesAlone
<1>3. AllTold'
  BY <1>1, BookTold
<1>4. Announce(type, ref)
  BY <1>1, BookGrows
<1>5. \A d \in Disputes \ {} : \A t \in DisputeTypes : Told(t, d)' = Told(t, d)
  BY <1>1, <1>4, ToldOthers
<1> QED
  BY <1>2, <1>3, <1>5, LedgerRightNext

\* ... and one that books none.
LEMMA QuietStep ==
    ASSUME Types, LedgerRight, RowsStay, ledger' = ledger, NEW told, Settled(told),
           \A t, r : t \in {"expense.reversed", "dispute.resolved"} => Told(t, r)' = Told(t, r),
           \A d \in Disputes \ told : \A t \in DisputeTypes : Told(t, d)' = Told(t, d)
    PROVE  LedgerRight'
<1>1. TypeOK /\ IsFiniteSet(LedgerEvents) /\ AllTold
  BY DEF Types, LedgerRight
<1>2. LedgerGrows /\ \A r : Alone(r)
  BY <1>1, LedgerStill
<1>3. AllTold'
  BY <1>1, <1>2, SaysNothing
<1> QED
  BY <1>2, <1>3, LedgerRightNext

LEMMA CreateKeepsLedger ==
    ASSUME Types, LedgerRight, RowsStay, NEW u \in Users, Create(u)
    PROVE  LedgerRight'
<1>1. /\ TypeOK /\ IsFiniteSet(LedgerEvents) /\ IsABag(outbox)
      /\ expense \in [Expenses -> ExpenseRows \cup {Absent}]
      /\ settlement \in [Settlements -> SettlementRows \cup {Absent}]
      /\ dispute \in [Disputes -> DisputeRows \cup {Absent}]
  BY DEF Types, TypeOK, LedgerRight
<1>2. ASSUME NEW e \in Expenses, CreateExpense(u, e)
      PROVE  LedgerRight'
  <2>1. /\ \E entries : Book("expense", e, entries, u, "expense.created")
        /\ \A x \in Expenses \ {e} : expense'[x] = expense[x]
        /\ settlement' = settlement /\ dispute' = dispute /\ overwritten' = overwritten
    BY <1>1, <1>2 DEF CreateExpense
  <2>2. PICK entries : Book("expense", e, entries, u, "expense.created")
    BY <2>1
  <2>3. ExpenseRight(e)' /\ \A r : r # e => Alone(r)
    BY <1>1, <1>2, <2>2, CreatedExpense, BookLeavesAlone
  <2>4. Settled({})
    BY <2>1, <2>3, IdentitiesAssumption DEF Settled
  <2> QED
    BY <2>2, <2>4, BookingStep DEF DisputeTypes
<1>3. ASSUME NEW s \in Settlements, CreateSettlement(u, s)
      PROVE  LedgerRight'
  <2>1. /\ ledger' = ledger /\ outbox' = outbox /\ expense' = expense /\ dispute' = dispute
        /\ overwritten' = overwritten /\ \A x \in Settlements \ {s} : settlement'[x] = settlement[x]
    BY <1>1, <1>3 DEF CreateSettlement
  <2>2. SettlementRight(s)' /\ \A r : Alone(r)
    BY <1>1, <1>3, <2>1, CreatedSettlement, LedgerStill
  <2>3. \A t, r : Told(t, r)' = Told(t, r)
    BY <2>1 DEF Told
  <2>4. Settled({})
    BY <2>1, <2>2 DEF Settled
  <2> QED
    BY <2>1, <2>3, <2>4, QuietStep
<1>4. ASSUME NEW d \in Disputes, OpenDispute(u, d)
      PROVE  LedgerRight'
  <2>1. /\ ledger' = ledger /\ expense' = expense /\ settlement' = settlement
        /\ overwritten' = overwritten /\ Announce("dispute.opened", d) /\ ~Exists(dispute[d])
        /\ \A x \in Disputes \ {d} : dispute'[x] = dispute[x]
        /\ dispute'[d].status = "open" /\ dispute'[d].kind = "none"
    BY <1>1, <1>4 DEF OpenDispute
  <2>2. \A r : Alone(r)
    BY <1>1, <2>1, LedgerStill
  <2>3. DisputeRight(d)'
    BY <2>1, <2>2, OpenedDispute
  <2>4. \A t, r : t # "dispute.opened" => Told(t, r)' = Told(t, r)
    BY <1>1, <2>1, ToldOthers
  <2>5. Settled({})
    BY <2>1, <2>2, <2>3 DEF Settled
  <2>6. \A x \in Disputes \ {} : \A t \in DisputeTypes : Told(t, x)' = Told(t, x)
    BY <2>4 DEF DisputeTypes
  <2> QED
    BY <2>1, <2>4, <2>5, <2>6, QuietStep
<1> QED
  BY <1>2, <1>3, <1>4 DEF Create

\* The writes of disputes: what all of them come with.
LEMMA WritesDispute ==
    ASSUME Types, RowsStay, LedgerGrows, NEW d \in Disputes, NEW h, h.ref = d,
           Exists(dispute[d]), OnlyDispute(d), NEW late, Note(late), LateDispute(h) \subseteq late
    PROVE  DisputeMoves(d, h)
  BY DEF DisputeMoves, RowsStay, Note, LateDispute

LEMMA ReverseKeepsLedger ==
    ASSUME Types, LedgerRight, RowsStay, NEW w \in Workers, Reverse(w)
    PROVE  LedgerRight'
<1>0. PICK e, m : e = handler[w].ref /\ m = handler[w].by
  OBVIOUS
<1>1. TypeOK /\ IsFiniteSet(LedgerEvents) /\ e \in Expenses /\ Exists(expense[e])
  BY <1>0, InHand DEF Reverse, Types, LedgerRight
<1>2. /\ Reversal(m, e) /\ Note(LateExpense(e, handler[w].row))
      /\ settlement' = settlement /\ dispute' = dispute
  BY <1>0 DEF Reverse
<1>3. overwritten \subseteq overwritten' /\ (expense[e].status = "reversed" => e \in overwritten')
  <2>1. handler[w].row.status # "reversed"
    BY InHand DEF Reverse
  <2> QED
    BY <1>2, <2>1 DEF Note, LateExpense
<1>4. ExpenseRight(e)' /\ \E entries : Book("expense_reversal", e, entries, m, "expense.reversed")
  BY <1>1, <1>2, <1>3, ReversedExpense
<1>5. PICK entries : Book("expense_reversal", e, entries, m, "expense.reversed")
  BY <1>4
<1>6. \A r : r # e => Alone(r)
  BY <1>1, <1>5, BookLeavesAlone
<1>7. \A x \in Expenses \ {e} : expense'[x] = expense[x]
  BY <1>1, <1>2, ReversalWrites
<1>8. Settled({})
  BY <1>1, <1>2, <1>3, <1>4, <1>6, <1>7, IdentitiesAssumption DEF Settled
<1> QED
  BY <1>5, <1>8, BookingStep DEF DisputeTypes

LEMMA ConfirmKeepsLedger ==
    ASSUME Types, LedgerRight, RowsStay, NEW w \in Workers, Confirm(w)
    PROVE  LedgerRight'
<1>0. PICK s, m : s = handler[w].ref /\ m = handler[w].by
  OBVIOUS
<1>1. /\ TypeOK /\ IsFiniteSet(LedgerEvents) /\ s \in Settlements /\ Exists(settlement[s])
      /\ handler[w].ref = s /\ handler[w].row.status = "pending"
  BY <1>0, InHand DEF Confirm, Types, LedgerRight
<1>2. /\ settlement' = [settlement EXCEPT ![s].status = "confirmed"] /\ Note(LateSettlement(handler[w]))
      /\ Book("settlement", s, Moved(settlement[s]), m, "settlement.confirmed")
      /\ expense' = expense /\ dispute' = dispute
  BY <1>0 DEF Confirm, Moved
<1>3. PICK entries : /\ Book("settlement", s, entries, m, "settlement.confirmed")
                     /\ entries = Moved(settlement[s])
  BY <1>2
<1>9. /\ overwritten \subseteq overwritten' /\ overwritten' \subseteq overwritten \cup {s}
      /\ settlement[s].status # "pending" => s \in overwritten'
  BY <1>1, <1>2 DEF Note, LateSettlement
<1>4. IsABag(ledger)' /\ IsABag(outbox)'
  BY <1>1, <1>3, BookGrows, ToldOnce DEF TypeOK
<1>5. /\ settlement'[s].status = "confirmed" /\ settlement'[s].from = settlement[s].from
      /\ settlement'[s].to = settlement[s].to /\ settlement'[s].amount = settlement[s].amount
      /\ \A x \in Settlements \ {s} : settlement'[x] = settlement[x]
  BY <1>1, <1>2, <1>4, <1>9, SettlementWrites
<1>6. SettlementRight(s)'
  BY <1>1, <1>2, <1>5, <1>9, ConfirmedSettlement
<1>7. \A r : r # s => Alone(r)
  BY <1>1, <1>3, BookLeavesAlone
<1>8. Settled({})
  BY <1>1, <1>2, <1>5, <1>6, <1>7, <1>9, IdentitiesAssumption DEF Settled
<1> QED
  BY <1>3, <1>8, BookingStep DEF DisputeTypes

LEMMA RefuseKeepsLedger ==
    ASSUME Types, LedgerRight, RowsStay, NEW w \in Workers, RefuseSettlement(w)
    PROVE  LedgerRight'
<1>0. PICK s : s = handler[w].ref
  OBVIOUS
<1>1. /\ TypeOK /\ IsFiniteSet(LedgerEvents) /\ s \in Settlements /\ Exists(settlement[s])
      /\ handler[w].ref = s /\ handler[w].row.status = "pending"
  BY <1>0, InHand DEF RefuseSettlement, Types, LedgerRight
<1>2. /\ settlement' = [settlement EXCEPT ![s].status = "rejected"] /\ Note(LateSettlement(handler[w]))
      /\ expense' = expense /\ dispute' = dispute /\ ledger' = ledger /\ outbox' = outbox
  BY <1>0 DEF RefuseSettlement
<1>9. /\ overwritten \subseteq overwritten' /\ overwritten' \subseteq overwritten \cup {s}
      /\ settlement[s].status # "pending" => s \in overwritten'
  BY <1>1, <1>2 DEF Note, LateSettlement
<1>3. IsABag(ledger)' /\ IsABag(outbox)'
  BY <1>1, <1>2 DEF TypeOK
<1>4. /\ settlement'[s].status = "rejected" /\ settlement'[s].from = settlement[s].from
      /\ settlement'[s].to = settlement[s].to /\ settlement'[s].amount = settlement[s].amount
      /\ \A x \in Settlements \ {s} : settlement'[x] = settlement[x]
  BY <1>1, <1>2, <1>3, <1>9, SettlementWrites
<1>5. \A r : Alone(r)
  BY <1>1, <1>2, LedgerStill
<1>6. SettlementRight(s)'
  BY <1>1, <1>2, <1>4, <1>5, <1>9, RefusedSettlement
<1>7. Settled({})
  BY <1>1, <1>2, <1>4, <1>5, <1>6, <1>9 DEF Settled
<1>8. \A t, r : Told(t, r)' = Told(t, r)
  BY <1>2 DEF Told
<1> QED
  BY <1>2, <1>7, <1>8, QuietStep

\* A review or a rejection books nothing and tells of one dispute.
LEMMA AnnouncingStep ==
    ASSUME Types, LedgerRight, RowsStay, ledger' = ledger, NEW d \in Disputes, OnlyDispute(d),
           NEW type \in DisputeTypes, Announce(type, d), DisputeRight(d)',
           expense' = expense, settlement' = settlement, overwritten \subseteq overwritten'
    PROVE  LedgerRight'
<1>1. TypeOK /\ IsFiniteSet(LedgerEvents) /\ IsABag(outbox)
  BY DEF Types, TypeOK, LedgerRight
<1>2. \A r : Alone(r)
  BY <1>1, LedgerStill
<1>3. \A t, r : t # type \/ r # d => Told(t, r)' = Told(t, r)
  BY <1>1, ToldOthers
<1>4. Settled({d})
  BY <1>2 DEF Settled, OnlyDispute
<1>5. \A t, r : t \in {"expense.reversed", "dispute.resolved"} => Told(t, r)' = Told(t, r)
  BY <1>3 DEF DisputeTypes
<1>6. \A x \in Disputes \ {d} : \A t \in DisputeTypes : Told(t, x)' = Told(t, x)
  BY <1>3
<1> QED
  BY <1>4, <1>5, <1>6, QuietStep

LEMMA ReviewKeepsLedger ==
    ASSUME Types, LedgerRight, RowsStay, NEW w \in Workers, Review(w)
    PROVE  LedgerRight'
<1>0. PICK h, d : h = handler[w] /\ d = h.ref
  OBVIOUS
<1>1. /\ TypeOK /\ IsFiniteSet(LedgerEvents) /\ d \in Disputes /\ Exists(dispute[d])
      /\ h.row.status = "open"
  BY <1>0, InHand DEF Review, Types, LedgerRight
<1>2. /\ dispute' = [dispute EXCEPT ![d].status = "under_review"] /\ Note(LateDispute(h))
      /\ Announce("dispute.under_review", d)
      /\ expense' = expense /\ settlement' = settlement /\ ledger' = ledger
  BY <1>0 DEF Review
<1>3. d = h.ref
  BY <1>0
<1>4. /\ OnlyDispute(d) /\ dispute'[d].status = "under_review"
      /\ dispute'[d].kind = dispute[d].kind
  BY <1>1, <1>2, ReviewWrites
<1>5. LedgerGrows /\ \A r : Alone(r)
  BY <1>1, <1>2, LedgerStill
<1>6. DisputeMoves(d, h)
  BY <1>1, <1>2, <1>3, <1>4, <1>5, WritesDispute
<1>7. DisputeRight(d)'
  BY <1>1, <1>2, <1>4, <1>5, <1>6, ReviewedDispute
<1>8. overwritten \subseteq overwritten'
  BY <1>6 DEF DisputeMoves
<1> QED
  BY <1>1, <1>2, <1>4, <1>7, <1>8, AnnouncingStep DEF DisputeTypes

LEMMA RejectKeepsLedger ==
    ASSUME Types, LedgerRight, RowsStay, NEW w \in Workers, Reject(w)
    PROVE  LedgerRight'
<1>0. PICK h, d : h = handler[w] /\ d = h.ref
  OBVIOUS
<1>1. /\ TypeOK /\ IsFiniteSet(LedgerEvents) /\ d \in Disputes /\ Exists(dispute[d])
      /\ h.by \in Managers /\ h.row.status \in Unclosed
      /\ h.row.kind \in {"none", "adjustment", "full_reversal"}
  BY <1>0, InHand DEF Reject, Types, LedgerRight, DisputeRows
<1>2. /\ Close(h, "rejected", h.row.kind) /\ Note(LateDispute(h))
      /\ Announce("dispute.rejected", d)
      /\ expense' = expense /\ settlement' = settlement /\ ledger' = ledger
  BY <1>0 DEF Reject
<1>3. d = h.ref
  BY <1>0
<1>4. /\ OnlyDispute(d) /\ dispute'[d].status = "rejected"
      /\ dispute[d] = h.row => dispute'[d].kind = h.row.kind
  BY <1>1, <1>2, <1>3, CloseWrites
<1>5. LedgerGrows /\ \A r : Alone(r)
  BY <1>1, <1>2, LedgerStill
<1>6. DisputeMoves(d, h)
  BY <1>1, <1>2, <1>3, <1>4, <1>5, WritesDispute
<1>7. DisputeRight(d)'
  BY <1>1, <1>2, <1>4, <1>5, <1>6, RejectedDispute
<1>8. overwritten \subseteq overwritten'
  BY <1>6 DEF DisputeMoves
<1> QED
  BY <1>1, <1>2, <1>4, <1>7, <1>8, AnnouncingStep DEF DisputeTypes

LEMMA AdjustKeepsLedger ==
    ASSUME Types, LedgerRight, RowsStay, NEW w \in Workers, ResolveByAdjustment(w)
    PROVE  LedgerRight'
<1>0. PICK h, d : h = handler[w] /\ d = h.ref
  OBVIOUS
<1>1. /\ TypeOK /\ IsFiniteSet(LedgerEvents) /\ d \in Disputes /\ Exists(dispute[d])
      /\ h.by \in Managers /\ h.kind \in {"none", "adjustment"}
      /\ h.row.status = "under_review" /\ h.by \notin Parties(d)
  BY <1>0, InHand DEF ResolveByAdjustment, Types, LedgerRight
<1>2. /\ Close(h, "resolved", h.kind) /\ Note(LateDispute(h))
      /\ Book("adjustment", d, h.entries, h.by, "dispute.resolved")
      /\ expense' = expense /\ settlement' = settlement
  BY <1>0 DEF ResolveByAdjustment
<1>3. d = h.ref
  BY <1>0
<1>4. /\ OnlyDispute(d) /\ dispute'[d].status = "resolved"
      /\ dispute[d] = h.row => dispute'[d].resolver = h.by /\ dispute'[d].kind = h.kind
  BY <1>1, <1>2, <1>3, CloseWrites
<1>5. LedgerGrows /\ \A r : r # d => Alone(r)
  BY <1>1, <1>2, BookLeavesAlone
<1>6. DisputeMoves(d, h)
  BY <1>1, <1>2, <1>3, <1>4, <1>5, WritesDispute
<1>7. Resolves(d, h, h.kind)
  BY <1>1, <1>4 DEF Resolves
<1>8. DisputeRight(d)'
  BY <1>1, <1>2, <1>6, <1>7, AdjustedDispute
<1>9. Settled({})
  BY <1>1, <1>2, <1>4, <1>5, <1>6, <1>8, IdentitiesAssumption DEF Settled, OnlyDispute, DisputeMoves
<1> QED
  BY <1>2, <1>9, BookingStep DEF DisputeTypes

LEMMA UndoKeepsLedger ==
    ASSUME Types, LedgerRight, RowsStay, NEW w \in Workers, ResolveByReversal(w)
    PROVE  LedgerRight'
<1>0. PICK h, d, e : h = handler[w] /\ d = h.ref /\ e = dispute[d].expense
  OBVIOUS
<1>1. /\ TypeOK /\ IsFiniteSet(LedgerEvents) /\ d \in Disputes /\ Exists(dispute[d])
      /\ e \in Expenses /\ Exists(expense[e])
      /\ h.by \in Managers /\ h.row.status = "under_review" /\ h.by \notin Parties(d)
      /\ h.charge.status # "reversed"
  BY <1>0, InHand DEF ResolveByReversal, Types, LedgerRight
<1>2. /\ Close(h, "resolved", "full_reversal") /\ Note(LateDispute(h) \cup LateExpense(e, h.charge))
      /\ Reversal(h.by, e) /\ settlement' = settlement
  BY <1>0 DEF ResolveByReversal
<1>3. d = h.ref /\ e = dispute[d].expense
  BY <1>0
<1>4. /\ OnlyDispute(d) /\ dispute'[d].status = "resolved"
      /\ dispute[d] = h.row => dispute'[d].resolver = h.by /\ dispute'[d].kind = "full_reversal"
  BY <1>1, <1>2, <1>3, CloseWrites
<1>5. overwritten \subseteq overwritten' /\ (expense[e].status = "reversed" => e \in overwritten')
  BY <1>1, <1>2 DEF Note, LateExpense
<1>6. /\ ExpenseRight(e)' /\ Booked("expense_reversal", e)' > 0
      /\ \E f \in EventsOf(e)' : f.kind = "expense_reversal" /\ f.by = h.by
      /\ \E entries : Book("expense_reversal", e, entries, h.by, "expense.reversed")
  BY <1>1, <1>2, <1>5, ReversedExpense
<1>7. PICK entries : Book("expense_reversal", e, entries, h.by, "expense.reversed")
  BY <1>6
<1>8. LedgerGrows /\ \A r : r # e => Alone(r)
  BY <1>1, <1>7, BookLeavesAlone
<1>9. Alone(d) /\ Announce("expense.reversed", e)
  BY <1>1, <1>7, <1>8, BookGrows, IdentitiesAssumption
<1>10. \A x \in Expenses \ {e} : expense'[x] = expense[x]
  BY <1>1, <1>2, ReversalWrites
<1>11. DisputeMoves(d, h)
  BY <1>1, <1>2, <1>3, <1>4, <1>8, WritesDispute
<1>12. Resolves(d, h, "full_reversal")
  BY <1>1, <1>4 DEF Resolves
<1>13. DisputeRight(d)'
  BY <1>3, <1>6, <1>9, <1>11, <1>12, <1>1, UndoneDispute
<1>14. Settled({})
  BY <1>1, <1>2, <1>4, <1>5, <1>6, <1>8, <1>10, <1>13, IdentitiesAssumption
     DEF Settled, OnlyDispute
<1> QED
  BY <1>7, <1>14, BookingStep DEF DisputeTypes

\* Steps that write no object, post nothing and tell of no decision.
LEMMA OtherStep ==
    ASSUME Types, LedgerRight, RowsStay,
           UNCHANGED <<expense, settlement, dispute, ledger, overwritten>>,
           \A t, r : t # "dispute.comment_added" => Told(t, r)' = Told(t, r)
    PROVE  LedgerRight'
<1>1. \A r : Alone(r)
  BY LedgerStill DEF Types, LedgerRight
<1>2. Settled({})
  BY <1>1 DEF Settled
<1> QED
  BY <1>2, QuietStep DEF DisputeTypes

LEMMA LedgerStaysRight ==
    ASSUME ManagersAssumption
    PROVE  Types /\ LedgerRight /\ [Next]_vars => LedgerRight'
<1> SUFFICES ASSUME Types, LedgerRight, [Next]_vars
             PROVE  LedgerRight'
  OBVIOUS
<1>1. RowsStay /\ IsABag(outbox)
  BY RowsKept DEF Kept, Types, TypeOK
<1>2. ASSUME NEW d \in Disputes, AddComment(d)
      PROVE  LedgerRight'
  <2>1. \A t, r : t # "dispute.comment_added" => Told(t, r)' = Told(t, r)
    BY <1>1, <1>2, ToldOthers DEF AddComment
  <2> QED
    BY <1>1, <1>2, <2>1, OtherStep DEF AddComment
<1>3. ASSUME UNCHANGED Objects
      PROVE  LedgerRight'
  <2>1. \A t, r : Told(t, r)' = Told(t, r)
    BY <1>3 DEF Told, Objects
  <2> QED
    BY <1>1, <1>3, <2>1, OtherStep DEF Objects
<1>4. ASSUME NEW w \in Workers, Check(w)
      PROVE  UNCHANGED Objects
  BY <1>4 DEF Check, CheckReverse, CheckSettlement, CheckReview, CheckResolve, CheckReject,
     CheckResolveExpense
<1>5. ASSUME NEW w \in Workers, Write(w)
      PROVE  LedgerRight'
  BY <1>1, <1>5, ReverseKeepsLedger, ConfirmKeepsLedger, RefuseKeepsLedger, ReviewKeepsLedger,
     RejectKeepsLedger, AdjustKeepsLedger, UndoKeepsLedger DEF Write
<1>6. CASE UNCHANGED vars
  BY <1>3, <1>6 DEF vars, Objects
<1> QED
  BY <1>1, <1>2, <1>3, <1>4, <1>5, <1>6, CreateKeepsLedger DEF Next, Fail

LEMMA InitLedger == Init => LedgerRight
<1> SUFFICES ASSUME Init
             PROVE  LedgerRight
  OBVIOUS
<1>1. LedgerEvents = {} /\ TypeOK
  BY NothingInEmptyBag, InitTypes DEF Init, LedgerEvents, Types
<1>2. IsFiniteSet(LedgerEvents) /\ \A r : EventsOf(r) = {}
  BY <1>1, SmallSetsAreFinite DEF EventsOf
<1>3. \A k, r : Booked(k, r) = 0
  BY <1>1, <1>2, BookedType
<1>4. \A t, r : Told(t, r) = 0
  BY NothingInEmptyBag DEF Init, Told
<1> QED
  BY <1>2, <1>3, <1>4 DEF Init, LedgerRight, ExpenseRight, SettlementRight, DisputeRight, AllTold,
     Exists, Absent

LEMMA AlwaysRight == Spec => [](Types /\ LedgerRight)
  BY ManagersAssumption, InitTypes, InitLedger, TypesStay, LedgerStaysRight, PTL DEF Spec

-----------------------------------------------------------------------------
(* What follows for the books.                                             *)

\* Whatever requests overlap, an expense is booked once, its status says whether
\* it was reversed, every reversal takes away once what was booked, and there is a
\* second one only if a request reversed what another had reversed since it looked.
THEOREM ExpensesAreBookedOnce == Spec => []ExpenseBooked
<1>1. LedgerRight => ExpenseBooked
  BY DEF LedgerRight, ExpenseRight, ExpenseBooked
<1> QED
  BY <1>1, AlwaysRight, PTL

\* Whatever requests overlap, a settlement moves its amount with each
\* confirmation, and exactly as its status says unless an answer was written over.
THEOREM SettlementsAreBookedOnce == Spec => []SettlementBooked
<1>1. LedgerRight => SettlementBooked
  BY DEF LedgerRight, SettlementRight, SettlementBooked
<1> QED
  BY <1>1, AlwaysRight, PTL

\* Whatever requests overlap, a resolved dispute moved money, and, unless a
\* decision was written over, a closed one moved it as its row says and once.
THEOREM DisputesAreBookedOnce == Spec => []DisputeBooked
<1>1. ASSUME Types, LedgerRight
      PROVE  DisputeBooked
  <2> SUFFICES ASSUME NEW d \in Disputes, Exists(dispute[d])
               PROVE  LET x == dispute[d]
                          adjustments == Booked("adjustment", d)
                      IN  /\ x.status = "open" => adjustments = 0
                          /\ x.status = "resolved" =>
                                adjustments > 0 \/ Booked("expense_reversal", x.expense) > 0
                          /\ d \notin overwritten =>
                                /\ adjustments =
                                      IF x.status = "resolved" /\ x.kind # "full_reversal" THEN 1 ELSE 0
                                /\ x.kind = "full_reversal" =>
                                      /\ x.status = "resolved"
                                      /\ \E f \in EventsOf(x.expense) :
                                            f.kind = "expense_reversal" /\ f.by = x.resolver
    BY DEF DisputeBooked
  <2>1. dispute[d].status \in {"open", "under_review", "resolved", "rejected"}
    BY <1>1, ObjectRows DEF Types, DisputeRows
  <2>2. DisputeRight(d)
    BY <1>1 DEF LedgerRight
  <2> QED
    BY <2>1, <2>2 DEF DisputeRight, Standing, Tidy
<1> QED
  BY <1>1, AlwaysRight, PTL

\* Whatever requests overlap, the events tell of every reversal and adjustment,
\* and unless a decision was written over, where each dispute stands.
THEOREM StatusIsTold == Spec => []EventsTellStatus
<1>1. ASSUME Types, LedgerRight
      PROVE  EventsTellStatus
  <2>1. \A e \in Expenses : Told("expense.reversed", e) = Booked("expense_reversal", e)
    BY <1>1 DEF LedgerRight, AllTold
  <2>2. ASSUME NEW d \in Disputes, Exists(dispute[d])
        PROVE  LET x == dispute[d]
                   told == IF Told("dispute.resolved", d) > 0 THEN "resolved"
                           ELSE IF Told("dispute.rejected", d) > 0 THEN "rejected"
                           ELSE IF Told("dispute.under_review", d) > 0 THEN "under_review"
                           ELSE "open"
               IN  /\ Told("dispute.resolved", d) = Booked("adjustment", d)
                   /\ x.status = "under_review" => Told("dispute.under_review", d) > 0
                   /\ x.status = "rejected" => Told("dispute.rejected", d) > 0
                   /\ d \notin overwritten =>
                         IF x.kind = "full_reversal" THEN told = "under_review" ELSE told = x.status
    <3>1. dispute[d].status \in {"open", "under_review", "resolved", "rejected"}
      BY <1>1, <2>2, ObjectRows DEF Types, DisputeRows
    <3>2. DisputeRight(d) /\ Told("dispute.resolved", d) = Booked("adjustment", d)
      BY <1>1 DEF LedgerRight, AllTold
    <3> QED
      BY <2>2, <3>1, <3>2 DEF DisputeRight, Standing, Tidy
  <2> QED
    BY <2>1, <2>2 DEF EventsTellStatus
<1> QED
  BY <1>1, AlwaysRight, PTL

\* Whatever requests overlap, nobody adjusts money in a dispute they have a stake
\* in, and nobody with a stake is the resolver unless a decision was written over.
THEOREM OthersResolve == Spec => []NoStakeInResolution
<1>1. LedgerRight => NoStakeInResolution
  BY DEF LedgerRight, DisputeRight, NoStakeInResolution, Parties
<1> QED
  BY <1>1, AlwaysRight, PTL

\* A dispute keeps its expense and its opener, never opens again, and once closed
\* changes only by a request that had read it before it was closed.
THEOREM DisputesStayClosed == Spec => DisputeFinal
<1> DEFINE Final == \A d \in Disputes : Exists(dispute[d]) =>
              /\ dispute'[d].expense = dispute[d].expense /\ dispute'[d].opener = dispute[d].opener
              /\ dispute'[d].status = "open" => dispute[d].status = "open"
              /\ dispute[d].status \in {"resolved", "rejected"} =>
                    \/ dispute'[d] = dispute[d]
                    \/ \E w \in Workers : DecidesLate(handler[w], d) /\ handler'[w] = Idle
<1>1. ASSUME Types, [Next]_vars
      PROVE  Final
  <2>1. TypeOK /\ dispute \in [Disputes -> DisputeRows \cup {Absent}]
    BY <1>1 DEF Types, TypeOK
  <2>2. ASSUME dispute' = dispute
        PROVE  Final
    BY <2>2
  <2>3. ASSUME NEW d \in Disputes, OnlyDispute(d), dispute'[d].status # "open",
               dispute[d].status \in {"resolved", "rejected"} =>
                  \E w \in Workers : DecidesLate(handler[w], d) /\ handler'[w] = Idle
        PROVE  Final
    BY <2>3 DEF OnlyDispute
  <2>4. ASSUME NEW u \in Users, Create(u)
        PROVE  Final
    BY <2>1, <2>4 DEF Create, CreateExpense, CreateSettlement, OpenDispute
  <2>5. ASSUME NEW w \in Workers, Write(w)
        PROVE  Final
    <3>0. PICK h, d : h = handler[w] /\ d = h.ref
      OBVIOUS
    <3>1. h.op \in {"review", "reject", "undo", "adjust"} =>
            /\ d \in Disputes /\ Exists(dispute[d]) /\ h.by \in Managers
            /\ h.row.kind \in {"none", "adjustment", "full_reversal"}
            /\ h.row.status \in Unclosed
            /\ h.op = "adjust" => h.kind \in {"none", "adjustment"}
      BY <1>1, <3>0, InHand DEF DisputeRows, Unclosed
    <3>2. ASSUME OnlyDispute(d), dispute'[d].status # "open", Finish(w),
                 h.op \in {"review", "reject", "undo", "adjust"}
          PROVE  Final
      <4>1. handler'[w] = Idle
        BY <1>1, <3>2 DEF Finish, Types, Handlers
      <4>2. dispute[d].status \in {"resolved", "rejected"} => DecidesLate(handler[w], d)
        BY <3>0, <3>1, <3>2 DEF DecidesLate, Unclosed
      <4> QED
        BY <2>3, <3>1, <3>2, <4>1, <4>2
    <3>3. CASE Review(w)
      <4>1. OnlyDispute(d) /\ dispute'[d].status = "under_review"
        BY <2>1, <3>0, <3>1, <3>3, ReviewWrites DEF Review
      <4> QED
        BY <3>0, <3>2, <3>3, <4>1 DEF Review
    <3>4. CASE Reject(w)
      <4>1. OnlyDispute(d) /\ dispute'[d].status = "rejected"
        BY <2>1, <3>0, <3>1, <3>4, CloseWrites DEF Reject
      <4> QED
        BY <3>0, <3>2, <3>4, <4>1 DEF Reject
    <3>5. CASE ResolveByAdjustment(w)
      <4>1. OnlyDispute(d) /\ dispute'[d].status = "resolved"
        BY <2>1, <3>0, <3>1, <3>5, CloseWrites DEF ResolveByAdjustment
      <4> QED
        BY <3>0, <3>2, <3>5, <4>1 DEF ResolveByAdjustment
    <3>6. CASE ResolveByReversal(w)
      <4>1. OnlyDispute(d) /\ dispute'[d].status = "resolved"
        BY <2>1, <3>0, <3>1, <3>6, CloseWrites DEF ResolveByReversal
      <4> QED
        BY <3>0, <3>2, <3>6, <4>1 DEF ResolveByReversal
    <3> QED
      BY <2>2, <2>5, <3>3, <3>4, <3>5, <3>6 DEF Write, Reverse, Confirm, RefuseSettlement
  <2>6. ASSUME NEW w \in Workers, Check(w) \/ Fail(w)
        PROVE  dispute' = dispute
    BY <2>6 DEF Check, CheckReverse, CheckSettlement, CheckReview, CheckResolve, CheckReject,
       CheckResolveExpense, Fail, Objects
  <2>7. ASSUME NEW d \in Disputes, AddComment(d)
        PROVE  dispute' = dispute
    BY <2>7 DEF AddComment
  <2>8. CASE UNCHANGED vars
    BY <2>2, <2>8 DEF vars
  <2> QED
    BY <1>1, <2>2, <2>4, <2>5, <2>6, <2>7, <2>8 DEF Next
<1> QED
  BY <1>1, AlwaysRight, PTL DEF Spec, DisputeFinal

=============================================================================
