---------------------------- MODULE AtomicLedger ----------------------------
(***************************************************************************)
(* What the ledger engine (src/backend/app/ledger.py) promises to one      *)
(* house: a posting takes effect at one instant.  In that instant the      *)
(* entries are added to the balances, the debt clock of every touched user *)
(* is brought up to date, and two outbox events with the next two sequence *)
(* numbers appear, the second with the balances as they now are.  An event *)
(* that moves no money takes the next number alone.  There are no          *)
(* transactions and no locks here; LedgerEngine is shown to implement this.*)
(***************************************************************************)
EXTENDS Integers, Functions

CONSTANTS
    NumUsers,   \* user ids are 1..NumUsers: only their order matters
    Postings    \* the entry maps callers hand in: user -> cents, partial

Users == 1..NumUsers

VARIABLES
    balances,   \* user -> [cents, debt]: the cached balance row, debt 0 for NULL
    events,     \* the outbox, a set of records with a sequence number each
    nextSeq,    \* the number the next event gets
    clock       \* time; a debt clock holds a reading of it, from 1

vars == <<balances, events, nextSeq, clock>>

NoDebt == 0
EmptyRow == [cents |-> 0, debt |-> NoDebt]
Row == [cents : Int, debt : Nat]

\* Double entry: what one user is charged another is owed.
Balanced(es) == DOMAIN es # {} /\ SumFunction(es) = 0

\* A balance row after an amount has been added to it at time `at`.
Charge(row, amount, at) ==
    LET cents == row.cents + amount
    IN  [cents |-> cents,
         debt  |-> IF cents >= 0 THEN NoDebt
                   ELSE IF row.debt = NoDebt THEN at ELSE row.debt]

Nothing == [u \in {} |-> EmptyRow]
Fact(n) == [seq |-> n, type |-> "domain", balances |-> Nothing]
Snapshot(n, bs) == [seq |-> n, type |-> "balance.updated", balances |-> bs]

-----------------------------------------------------------------------------

Init ==
    /\ balances = [u \in Users |-> EmptyRow]
    /\ events = {}
    /\ nextSeq = 1
    /\ clock = 1

\* One financial fact, whole: nothing of it is ever seen without the rest.
Post ==
    \E es \in Postings, at \in 1..clock :
        /\ Balanced(es)
        /\ balances' = [u \in Users |-> IF u \in DOMAIN es
                                        THEN Charge(balances[u], es[u], at)
                                        ELSE balances[u]]
        /\ events' = events \cup
              {Fact(nextSeq), Snapshot(nextSeq + 1, Restrict(balances', DOMAIN es))}
        /\ nextSeq' = nextSeq + 2
        /\ UNCHANGED clock

\* member.joined, dispute.opened, ...: one event, no money.
Notify ==
    /\ events' = events \cup {Fact(nextSeq)}
    /\ nextSeq' = nextSeq + 1
    /\ UNCHANGED <<balances, clock>>

Tick ==
    /\ clock' = clock + 1
    /\ UNCHANGED <<balances, events, nextSeq>>

Next == Post \/ Notify \/ Tick

Spec == Init /\ [][Next]_vars

=============================================================================
