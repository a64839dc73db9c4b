---------------------------- MODULE MCScheduler -----------------------------
(* A bill, a debtor and a document over the first months of a leap year.    *)
EXTENDS Scheduler

On(month, day) == [year |-> 2028, month |-> month, day |-> day]

MCFirstDay == On(1, 31)
MCDays == {On(1, 31), On(2, 2), On(3, 31), On(5, 1)}
MCSchedules ==
    { [frequency |-> "monthly", anchor |-> 31, next |-> On(1, 31)],
      [frequency |-> "fortnightly", anchor |-> 1, next |-> On(2, 29)] }
MCTierChoices == { {2, 30} }

=============================================================================
