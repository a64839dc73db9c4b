------------------------------ MODULE SettleUp ------------------------------
(***************************************************************************)
(* From an expense to a suggestion of who pays whom: compute_shares and    *)
(* the entries of create_expense (Splits) change the balances of a house,  *)
(* and GET /settlements/suggest runs suggest_settlement                    *)
(* (SettlementOptimizer) over a snapshot of them.                          *)
(***************************************************************************)
EXTENDS Splits, SettlementOptimizer

CONSTANTS
    Openings,   \* the balances the house may have before the expense
    Requests    \* what compute_shares may be called with

\* Balances sum to zero, as LedgerEngine keeps them.
ASSUME OpeningsAssumption ==
    \A b \in Openings : b \in [Users -> Int] /\ SumFunction(b) = 0
ASSUME RequestsAssumption ==
    \A q \in Requests :
        /\ q.kind \in {"equal", "weighted", "equal_prorated"}
        /\ q.payer \in Users /\ q.amount \in Nat \ {0} /\ q.period \in [start : Int, end : Int]
        /\ q.config \in [DOMAIN q.config -> Int] /\ IsFiniteSet(DOMAIN q.config)
        /\ Members(q) \subseteq Users
        /\ q.away \in [Members(q) -> Seq([start : Int, end : Int])]

VARIABLES
    cents,      \* the house's balances: user -> balance_cents
    phase,      \* "open", "split" or "refused", then "suggested"
    request,    \* the last request to split, with its payer
    shares      \* what compute_shares returned for it

vars == <<balances, loop, cents, phase, request, shares>>

NoShares == [u \in {} |-> 0]

Init ==
    /\ cents \in Openings
    /\ phase = "open"
    /\ request = [kind |-> "none"]
    /\ shares = NoShares
    /\ balances = [u \in Users |-> 0]
    /\ debtors = <<>> /\ creditors = <<>>
    /\ di = 1 /\ ci = 1
    /\ transfers = <<>>

\* create_expense: the shares, and what their entries do to the balances.
Spend(q) ==
    /\ phase = "open"
    /\ Splittable(q)
    /\ request' = q
    /\ shares' = ComputeShares(q)
    /\ LET entries == Collapsed(q.payer, shares')
       IN  cents' = [u \in Users |-> cents[u] + IF u \in DOMAIN entries THEN entries[u] ELSE 0]
    /\ phase' = "split"
    /\ UNCHANGED <<balances, loop>>

\* 422: nothing is written.
RefuseSplit(q) ==
    /\ phase = "open"
    /\ ~Splittable(q)
    /\ request' = q
    /\ phase' = "refused"
    /\ UNCHANGED <<balances, loop, cents, shares>>

\* The balances are read, and sorted into debtors and creditors.
Suggest ==
    /\ phase # "suggested"
    /\ balances' = cents
    /\ debtors' = Debtors(cents)
    /\ creditors' = Creditors(cents)
    /\ di' = 1 /\ ci' = 1
    /\ transfers' = <<>>
    /\ phase' = "suggested"
    /\ UNCHANGED <<cents, request, shares>>

Next ==
    \/ \E q \in Requests : Spend(q) \/ RefuseSplit(q)
    \/ Suggest
    \/ Match /\ UNCHANGED <<cents, phase, request, shares>>

Spec == Init /\ [][Next]_vars

-----------------------------------------------------------------------------
(* What makes a split fair.                                                *)

\* "Always sums exactly to amount_cents": no cent of an expense is lost or made
\* up by the rounding, and the house's balances still sum to zero.
SplitsExactly ==
    /\ shares # NoShares => SumFunction(shares) = request.amount
    /\ SumFunction(cents) = 0

DaysPresent(q, u) ==
    {d \in q.period.start..q.period.end :
        \A i \in DOMAIN q.away[u] : d \notin q.away[u][i].start..q.away[u][i].end}

\* What a user's part of the expense is measured by.
Claim(q, u) ==
    LET somebody == q.period # NoPeriod /\ \E v \in Members(q) : DaysPresent(q, v) # {}
    IN  CASE q.kind = "weighted" -> q.config[u]
          [] q.kind = "equal_prorated" /\ somebody -> Cardinality(DaysPresent(q, u))
          [] OTHER -> 1

\* No day of a member's absence is given twice: away ranges that overlap each
\* other would be subtracted twice.
RequestsApart ==
    \A q \in Requests : \A u \in Members(q) : \A i, j \in DOMAIN q.away[u] :
        i # j => (q.away[u][i].start..q.away[u][i].end)
                    \cap (q.away[u][j].start..q.away[u][j].end) = {}

\* Everybody pays what their claim, by the calendar or by the rule's weights,
\* comes to, to the cent: rounding moves no share by more than one cent, and of
\* two with the same claim, the one first in the order pays at most a cent more.
\* (If RequestsApart.)
FairToTheCent ==
    shares # NoShares =>
        LET claim == [u \in DOMAIN shares |-> Claim(request, u)]
            total == SumFunction(claim)
        IN  \A u \in DOMAIN shares :
              /\ shares[u] * total - request.amount * claim[u] \in -total..total
              /\ \A v \in DOMAIN shares :
                    u < v /\ claim[u] = claim[v] => shares[u] - shares[v] \in 0..1

\* test_prorated_fully_away_member_pays_nothing: a member who was away for the
\* whole period, while another was not, has no share.
AwayPaysNothing ==
    shares # NoShares /\ request.kind = "equal_prorated" =>
        \A u \in DOMAIN shares : Claim(request, u) = 0 => shares[u] = 0

=============================================================================
