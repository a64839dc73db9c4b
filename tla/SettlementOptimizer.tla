------------------------ MODULE SettlementOptimizer -------------------------
(***************************************************************************)
(* suggest_settlement of src/backend/app/settlement_optimizer.py: debtors  *)
(* and creditors, each sorted once, are walked in step, and every turn of  *)
(* the loop adds one transfer.                                             *)
(***************************************************************************)
EXTENDS Integers, Sequences, FiniteSets, SequencesExt, Functions

CONSTANT Users  \* user ids, integers in the order of their UUIDs

ASSUME UsersAssumption == Users \subseteq Int /\ IsFiniteSet(Users)

VARIABLES
    balances,   \* the argument: what every user is owed, or owes if negative
    debtors,    \* sequence of [user, cents], cents what is left to pay
    creditors,  \* sequence of [user, cents], cents what is left to receive
    di, ci,     \* the loop's positions in the two
    transfers   \* sequence of [from, to, cents]

loop == <<debtors, creditors, di, ci, transfers>>

Lesser(a, b) == IF a < b THEN a ELSE b

Before(x, y) == x.cents > y.cents \/ (x.cents = y.cents /\ x.user < y.user)

\* What one is owed, of those in a set of users, by amount and then by user.
RankedOf(owed, users) ==
    LET rows == {[user |-> u, cents |-> owed[u]] : u \in users}
    IN  CHOOSE s \in SetToSeqs(rows) : \A i, j \in DOMAIN s : i < j => Before(s[i], s[j])

\* (Faulty: those who are owed nothing take part.)
RankedAll(owed) == RankedOf(owed, {v \in Users : owed[v] >= 0})

\* Those who are owed something.
Ranked(owed) == RankedOf(owed, {v \in Users : owed[v] > 0})

Debtors(b) == Ranked([u \in Users |-> -b[u]])
Creditors(b) == Ranked(b)

Finished == di > Len(debtors) \/ ci > Len(creditors)

\* (Faulty: a transfer of the whole debt, whatever the creditor is owed.)
DueWholeDebt(debt, credit) == debt

Due(debt, credit) == Lesser(debt, credit)

\* (Faulty: both move on, whether or not they are done.)
StepPast(cents) == 1

\* One moves on exactly if nothing is left.
Step(cents) == IF cents = 0 THEN 1 ELSE 0

Match ==
    /\ ~Finished
    /\ LET amount == Due(debtors[di].cents, creditors[ci].cents)
           debt == debtors[di].cents - amount
           credit == creditors[ci].cents - amount
       IN  /\ transfers' = Append(transfers, [from |-> debtors[di].user,
                                              to |-> creditors[ci].user, cents |-> amount])
           /\ debtors' = [debtors EXCEPT ![di].cents = debt]
           /\ creditors' = [creditors EXCEPT ![ci].cents = credit]
           /\ di' = di + Step(debt)
           /\ ci' = ci + Step(credit)
    /\ UNCHANGED balances

-----------------------------------------------------------------------------
(* What a suggestion is good for.                                          *)

\* What the transfers so far give to a user's balance.
Flow(u) ==
    SumFunction([i \in DOMAIN transfers |->
                   (IF transfers[i].from = u THEN transfers[i].cents ELSE 0)
                   - (IF transfers[i].to = u THEN transfers[i].cents ELSE 0)])

\* Nobody is asked for more than they owe or sent more than they are owed, at
\* any point of the list: every transfer is of something, and all of them take
\* a balance towards zero and never past it.
PaysTowardsZero ==
    /\ \A i \in DOMAIN transfers : transfers[i].cents > 0
    /\ \A u \in Users :
          /\ balances[u] <= 0 => Flow(u) \in 0..(-balances[u])
          /\ balances[u] >= 0 => Flow(u) \in (-balances[u])..0

\* "Applying them zeroes all balances": at the end nobody owes anything.
SettlesUp == Finished => \A u \in Users : balances[u] + Flow(u) = 0

\* "Yields at most n-1 transfers", n the users who are not even to begin with.
AtMostNMinusOne ==
    LET n == Cardinality({u \in Users : balances[u] # 0})
    IN  transfers # <<>> => Len(transfers) < n

=============================================================================
