------------------------------- MODULE Splits -------------------------------
(***************************************************************************)
(* How an expense is split, to the cent: compute_shares of                 *)
(* src/backend/app/splits.py, and the ledger entries create_expense makes  *)
(* of the shares.  Users are integers in the order of their UUIDs, days    *)
(* are integers, and exact Fractions are kept as numerator and a common    *)
(* total.  "weighted" stands for percentage too: only the key differs.     *)
(***************************************************************************)
EXTENDS Integers, FiniteSetsExt, Functions

\* A request is [kind, config, amount, away, period]: config gives weights by
\* user, away gives every active member's away ranges, in a sequence.
NoPeriod == [start |-> 0, end |-> 0]

Members(q) == DOMAIN q.away

\* (Faulty: the last day of a range does not count.)
OverlapHalfOpen(r, p) ==
    LET a == Max({r.start, p.start})
        b == Min({r.end, p.end})
    IN  IF a <= b THEN b - a ELSE 0

Overlap(r, p) ==
    LET a == Max({r.start, p.start})
        b == Min({r.end, p.end})
    IN  IF a <= b THEN b - a + 1 ELSE 0

\* Ranges that overlap each other are subtracted twice.
PresenceDays(ranges, p) ==
    Max({0, p.end - p.start + 1
            - SumFunction([i \in DOMAIN ranges |-> Overlap(ranges[i], p)])})

\* (Faulty: negative weights pass as long as their sum is positive.)
SplittableNegative(q) ==
    /\ Members(q) # {}
    /\ q.kind = "weighted" =>
          /\ DOMAIN q.config # {}
          /\ SumFunction(q.config) > 0
          /\ DOMAIN q.config \subseteq Members(q)

\* Whether compute_shares returns, rather than raise a 422.
Splittable(q) ==
    /\ Members(q) # {}
    /\ q.kind = "weighted" =>
          /\ DOMAIN q.config # {}
          /\ \A u \in DOMAIN q.config : q.config[u] >= 0
          /\ SumFunction(q.config) > 0
          /\ DOMAIN q.config \subseteq Members(q)

Weights(q) ==
    LET days == [u \in Members(q) |-> PresenceDays(q.away[u], q.period)]
    IN  IF q.kind = "weighted" THEN q.config
        ELSE IF q.kind = "equal_prorated" /\ q.period # NoPeriod /\ SumFunction(days) # 0
        THEN days
        ELSE [u \in Members(q) |-> 1]

\* (Faulty: the remainder is left undistributed.)
ComputeFloors(q) ==
    LET w == Weights(q)
    IN  [u \in DOMAIN w |-> (q.amount * w[u]) \div SumFunction(w)]

\* Floors, and the remaining cents one by one to the first users.
ComputeShares(q) ==
    LET w == Weights(q)
        floor == [u \in DOMAIN w |-> (q.amount * w[u]) \div SumFunction(w)]
        remainder == q.amount - SumFunction(floor)
        rank(u) == Cardinality({v \in DOMAIN w : v < u})
    IN  [u \in DOMAIN w |-> floor[u] + IF rank(u) < remainder THEN 1 ELSE 0]

-----------------------------------------------------------------------------
(* The entries of an expense.                                              *)

SharesTotal(shares) == SumFunction(shares)

\* (Faulty: the payer is credited the whole amount, its own share included.)
CollapsedGross(payer, shares) ==
    LET net == [u \in DOMAIN shares \cup {payer} |->
                  IF u = payer THEN SharesTotal(shares) ELSE -shares[u]]
    IN  net

\* The payer is owed what the others have to bear; users whose net is nothing
\* are left out, unless that leaves no one.
Collapsed(payer, shares) ==
    LET own == IF payer \in DOMAIN shares THEN shares[payer] ELSE 0
        net == [u \in DOMAIN shares \cup {payer} |->
                  IF u = payer THEN SharesTotal(shares) - own ELSE -shares[u]]
        moved == {u \in DOMAIN net : net[u] # 0}
    IN  Restrict(net, IF moved = {} THEN {payer} ELSE moved)

=============================================================================
