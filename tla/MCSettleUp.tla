----------------------------- MODULE MCSettleUp ------------------------------
(* An expense among three with all kinds of splits, a fourth having left, and *)
(* settling up among all four.                                                *)
EXTENDS SettleUp, TLC

MCUsers == 1..3     \* the members, if all of them are
MCFour == 1..4      \* with one who has left

\* Balances that sum to zero.
EvenSums(users, most) ==
    {b \in [users -> -most..most] : SumFunction(b) = 0}
MCOpenings == EvenSums(MCFour, 1)

-----------------------------------------------------------------------------

Amounts == {1, 5}
Whole == [start |-> 1, end |-> 3]
Late == [start |-> 2, end |-> 4]
Present == <<>>
Aways == {Present, <<[start |-> 1, end |-> 2]>>, <<Whole>>,
          <<[start |-> 1, end |-> 1], [start |-> 3, end |-> 3]>>}

Request(kinds, configs, aways, periods) ==
    [kind : kinds, config : configs, amount : Amounts, away : aways, period : periods,
     payer : {1, 3}]

NobodyAway(users) == [u \in users |-> Present]

MCRequests ==
    Request({"equal"}, {NoShares}, {NobodyAway(m) : m \in {MCUsers, {2, 3}, {}}}, {NoPeriod})
    \cup Request({"weighted"}, [MCUsers -> 0..2] \cup [{1, 2} -> -1..2] \cup {NoShares},
                 {NobodyAway(m) : m \in {MCUsers, {2, 3}}}, {NoPeriod})
    \cup Request({"equal_prorated"}, {NoShares}, [MCUsers -> Aways], {NoPeriod, Whole, Late})

\* Nobody is away, or the first of the three is.
MCAwayRequests ==
    Request({"equal_prorated"}, {NoShares},
            {NobodyAway(MCUsers), [NobodyAway(MCUsers) EXCEPT ![1] = <<Whole>>]}, {Whole})

ASSUME ApartAssumption == RequestsApart

=============================================================================
