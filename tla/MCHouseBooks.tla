---------------------------- MODULE MCHouseBooks ----------------------------
(* HouseBooks in a house of two managers, where two handlers may overlap.   *)
EXTENDS HouseBooks, TLC

CONSTANTS m1, m2, d1, d2, w1, w2

MCManagers == {m1, m2}
MCDisputes == {d1, d2}
MCWorkers == {w1, w2}
Symmetry == Permutations(MCManagers) \cup Permutations(MCWorkers) \cup Permutations(MCDisputes)

MCShareMaps == { m1 :> 1 @@ m2 :> 1 }

\* A shift of a cent in either direction, and one that does not sum to zero.
MCAdjustments == { m1 :> 1 @@ m2 :> -1, m1 :> -1 @@ m2 :> 1, m1 :> 1 @@ m2 :> 1 }

\* Beside the expense, two of a settlement, two disputes and a comment, and no
\* steps from where two objects have been written over.
FewThings ==
    /\ Cardinality({s \in Settlements : Exists(settlement[s])})
         + Cardinality({d \in Disputes : Exists(dispute[d])})
         + Cardinality({d \in Disputes : Told("dispute.comment_added", d) > 0}) <= 2
    /\ Cardinality(overwritten) <= 1

=============================================================================
