--------------------------- MODULE MCLedgerEngine ---------------------------
(* LedgerEngine on one small house: three transactions that may all run at  *)
(* once over three users, none of whom has a balance row to begin with.     *)
EXTENDS LedgerEngine, TLC

CONSTANTS t1, t2, t3

MCTxns == {t1, t2, t3}

MCPostings ==
    { 1 :> 2 @@ 2 :> -1 @@ 3 :> -1,     \* 1 paid for all three
      1 :> -1 @@ 2 :> 1,                \* 2 settles with 1
      2 :> -3 @@ 3 :> 3,                \* 3 paid for 2
      1 :> 1 @@ 3 :> -2 }               \* does not sum to zero

=============================================================================
