------------------------- MODULE LedgerEngineProofs -------------------------
(***************************************************************************)
(* Proofs about LedgerEngine for any number of users and transactions and  *)
(* any entry maps.  The argument is the engine's locking discipline: from  *)
(* the moment a transaction holds a balance row until it ends, its image   *)
(* of the row is the committed row, or that row with its own entry added.  *)
(***************************************************************************)
EXTENDS LedgerEngine, Sums, TLAPS

-----------------------------------------------------------------------------
(* The inductive invariant.                                                *)

\* t holds the balance row of u, by SELECT ... FOR UPDATE.
Holds(t, u) ==
    /\ u \in Touched(t)
    /\ \/ pc[t] \in {"apply", "alloc", "ready"}
       \/ pc[t] = "lock" /\ u \notin todo[t]

Charged(t) == pc[t] \in {"alloc", "ready"}

\* What is held is owned, and its image is up to date.
HeldRowsCurrent ==
    \A t \in Txns, u \in Users :
        Holds(t, u) =>
            /\ owner[u] = t
            /\ image[t][u] = IF Charged(t)
                             THEN Charge(Committed(u), entries[t][u], stamp[t])
                             ELSE Committed(u)

\* What was allocated is still what comes next.
CounterHeld ==
    \A t \in Txns : pc[t] = "ready" => seqOwner = t /\ first[t] = nextSeq

\* What is posted passed the checks, and was stamped with a time gone by.
PostingsChecked ==
    \A t \in Txns : Posts(t) => /\ pc[t] # "idle"
                                /\ Balanced(entries[t])
                                /\ Charged(t) => stamp[t] \in 1..clock

LockDiscipline == HeldRowsCurrent /\ CounterHeld /\ PostingsChecked

Inv == TypeOK /\ LockDiscipline

-----------------------------------------------------------------------------
(* Facts about the operators.                                              *)

\* An entry changes a row into a row.
LEMMA ChargeType ==
    ASSUME NEW row \in Row, NEW amount \in Int, NEW at \in Nat
    PROVE  Charge(row, amount, at) \in Row
  BY DEF Charge, Row, NoDebt

\* A touched user is a user, and its entry is an integer.
LEMMA EntriesType ==
    ASSUME TypeOK, NEW t \in Txns
    PROVE  /\ Touched(t) \subseteq Users
           /\ \A u \in Touched(t) : entries[t][u] \in Int
<1>1. CASE entries[t] = NoEntries
  BY <1>1 DEF Touched, NoEntries
<1>2. CASE entries[t] \in Postings
  BY <1>2, PostingsAssumption DEF Touched
<1> QED
  BY <1>1, <1>2 DEF TypeOK

-----------------------------------------------------------------------------
(* Type correctness.                                                       *)

LEMMA InitType == Init => TypeOK
  BY DEF Init, TypeOK, PCs, Row, EmptyRow, NoDebt, Over

LEMMA NextType == TypeOK /\ [Next]_vars => TypeOK'
<1> SUFFICES ASSUME TypeOK, [Next]_vars PROVE TypeOK'
  OBVIOUS
<1> USE DEF TypeOK
<1>1. ASSUME NEW t \in Txns, Post(t) PROVE TypeOK'
  <2>1. PICK es \in Postings : /\ entries' = [entries EXCEPT ![t] = es]
                               /\ todo' = [todo EXCEPT ![t] = DOMAIN es]
    BY <1>1 DEF Post
  <2>2. DOMAIN es \subseteq Users
    BY PostingsAssumption
  <2> QED
    BY <1>1, <2>1, <2>2 DEF Post, Goto, PCs, committed, locks
<1>2. ASSUME NEW t \in Txns, Refuse(t) PROVE TypeOK'
  BY <1>2 DEF Refuse, Goto, PCs, committed, locks, local
<1>3. ASSUME NEW t \in Txns, Notify(t) PROVE TypeOK'
  BY <1>3 DEF Notify, Goto, PCs, committed, locks, local
<1>4. ASSUME NEW t \in Txns, Upsert(t) PROVE TypeOK'
  <2>1. Touched(t) \subseteq Users
    BY EntriesType
  <2>2. /\ pc' \in {pc, [pc EXCEPT ![t] = "lock"]}
        /\ \E S \in SUBSET Users : todo' = [todo EXCEPT ![t] = S]
    BY <1>4, <2>1 DEF Upsert
  <2>3. owner' \in [Users -> Txns \cup {NoTxn}]
    BY <1>4 DEF Upsert
  <2>4. pc' \in [Txns -> PCs]
    BY <2>2 DEF PCs
  <2>5. todo' \in [Txns -> SUBSET Users]
    BY <2>2
  <2> QED
    BY <1>4, <2>3, <2>4, <2>5 DEF Upsert, committed
<1>5. ASSUME NEW t \in Txns, Lock(t) PROVE TypeOK'
  <2>1. \A u \in Users : Committed(u) \in Row
    BY DEF Committed, Row
  <2>2. image' \in [Txns -> [Users -> Row]]
    BY <1>5, <2>1 DEF Lock
  <2>3. todo' \in [Txns -> SUBSET Users] /\ pc' \in [Txns -> PCs]
    BY <1>5 DEF Lock, PCs
  <2>4. owner' \in [Users -> Txns \cup {NoTxn}]
    BY <1>5 DEF Lock
  <2> QED
    BY <1>5, <2>2, <2>3, <2>4 DEF Lock, committed
<1>6. ASSUME NEW t \in Txns, Apply(t) PROVE TypeOK'
  <2>1. \A u \in Touched(t) : Charge(image[t][u], entries[t][u], clock) \in Row
    BY ChargeType, EntriesType
  <2>2. image' \in [Txns -> [Users -> Row]]
    BY <1>6, <2>1 DEF Apply
  <2> QED
    BY <1>6, <2>2 DEF Apply, Goto, PCs, committed, locks
<1>7. ASSUME NEW t \in Txns, Allocate(t) PROVE TypeOK'
  BY <1>7 DEF Allocate, Goto, PCs, committed
<1>8. ASSUME NEW t \in Txns, Commit(t) PROVE TypeOK'
  <2>1. Touched(t) \subseteq Users /\ \A u \in Touched(t) : entries[t][u] \in Int
    BY EntriesType
  <2>2. rows' \in [Users -> [present : BOOLEAN, cents : Int, debt : Nat]]
    BY <1>8 DEF Commit, Row
  <2>3. posted' \in [Users -> Int]
    BY <1>8, <2>1 DEF Commit
  <2>4. \A e \in Emitted(t) : e.seq \in Nat /\ DOMAIN e.balances \subseteq Users
    BY <2>1 DEF Emitted, Fact, Snapshot, Nothing, Restrict, Touched
  <2>5. nextSeq' \in Nat \ {0}
    BY <1>8 DEF Commit, EventCount
  <2>6. owner' \in [Users -> Txns \cup {NoTxn}] /\ seqOwner' \in Txns \cup {NoTxn}
    BY <1>8 DEF Commit, Release
  <2> QED
    BY <1>8, <2>2, <2>3, <2>4, <2>5, <2>6 DEF Commit, Goto, PCs, local
<1>9. ASSUME NEW t \in Txns, Rollback(t) PROVE TypeOK'
  BY <1>9 DEF Rollback, Release, PCs, committed, local
<1>10. CASE Tick
  BY <1>10 DEF Tick, committed, locks, local
<1>11. CASE UNCHANGED vars
  BY <1>11 DEF vars, committed, locks, local
<1> QED
  BY <1>1, <1>2, <1>3, <1>4, <1>5, <1>6, <1>7, <1>8, <1>9, <1>10, <1>11 DEF Next, Step

\* Every variable always holds a value of its type.
THEOREM TypeCorrect == Spec => []TypeOK
  BY InitType, NextType, PTL DEF Spec

-----------------------------------------------------------------------------
(* The locking discipline is kept.                                         *)

LEMMA InitDiscipline == Init => LockDiscipline
  BY DEF Init, LockDiscipline, HeldRowsCurrent, CounterHeld, PostingsChecked,
         Holds, Posts, Touched, Charged, NoEntries

\* A step that changes no committed row, no image and no stamp, and takes no
\* row from a holder, keeps the held rows current.
LEMMA HeldRowsKept ==
    ASSUME HeldRowsCurrent,
           UNCHANGED <<rows, image, stamp>>,
           \A s \in Txns, u \in Users : Holds(s, u)' =>
               /\ Holds(s, u)
               /\ Charged(s)' <=> Charged(s)
               /\ entries'[s] = entries[s]
               /\ owner[u] = s => owner'[u] = s
    PROVE  HeldRowsCurrent'
<1> SUFFICES ASSUME NEW s \in Txns, NEW u \in Users, Holds(s, u)'
             PROVE  /\ owner'[u] = s
                    /\ image'[s][u] = IF Charged(s)'
                                      THEN Charge(Committed(u)', entries'[s][u], stamp'[s])
                                      ELSE Committed(u)'
  BY DEF HeldRowsCurrent
<1>1. Committed(u)' = Committed(u)
  BY DEF Committed
<1> QED
  BY <1>1 DEF HeldRowsCurrent

LEMMA NextDiscipline == Inv /\ [Next]_vars => LockDiscipline'
<1> SUFFICES ASSUME Inv, [Next]_vars PROVE LockDiscipline'
  OBVIOUS
<1> USE DEF Inv, LockDiscipline
<1>1. ASSUME NEW t \in Txns, Post(t) PROVE LockDiscipline'
  <2>1. PICK es \in Postings : Balanced(es) /\ entries' = [entries EXCEPT ![t] = es]
    BY <1>1 DEF Post
  <2>2. pc' = [pc EXCEPT ![t] = "upsert"] /\ pc[t] = "idle"
    BY <1>1 DEF Post, Goto
  <2>3. UNCHANGED <<committed, locks, image, stamp, first, clock>>
    BY <1>1 DEF Post
  <2>4. \A s \in Txns \ {t} : todo'[s] = todo[s]
    BY <1>1 DEF Post, TypeOK
  <2>5. HeldRowsCurrent'
    <3>1. \A s \in Txns, u \in Users : Holds(s, u)' =>
            s # t /\ Holds(s, u) /\ (Charged(s)' <=> Charged(s)) /\ entries'[s] = entries[s]
      BY <2>1, <2>2, <2>4 DEF Holds, Touched, Charged, TypeOK
    <3> QED
      BY <2>3, <3>1, HeldRowsKept DEF committed, locks
  <2>6. CounterHeld'
    BY <2>2, <2>3 DEF CounterHeld, committed, locks, TypeOK
  <2>7. PostingsChecked'
    BY <2>1, <2>2, <2>3 DEF PostingsChecked, Posts, Charged, TypeOK
  <2> QED
    BY <2>5, <2>6, <2>7
<1>2. ASSUME NEW t \in Txns, Refuse(t) PROVE LockDiscipline'
  <2>1. pc' = [pc EXCEPT ![t] = "rolledback"]
    BY <1>2 DEF Refuse, Goto
  <2>2. UNCHANGED <<committed, locks, local, clock>>
    BY <1>2 DEF Refuse
  <2>3. HeldRowsCurrent'
    <3>1. \A s \in Txns, u \in Users : Holds(s, u)' =>
            Holds(s, u) /\ (Charged(s)' <=> Charged(s))
      BY <2>1, <2>2 DEF Holds, Touched, Charged, local, TypeOK
    <3> QED
      BY <2>2, <3>1, HeldRowsKept DEF committed, locks, local
  <2>4. CounterHeld'
    BY <2>1, <2>2 DEF CounterHeld, committed, locks, local, TypeOK
  <2>5. PostingsChecked'
    BY <2>1, <2>2 DEF PostingsChecked, Posts, Charged, local, TypeOK
  <2> QED
    BY <2>3, <2>4, <2>5
<1>3. ASSUME NEW t \in Txns, Notify(t) PROVE LockDiscipline'
  <2>1. pc[t] = "idle" /\ pc' = [pc EXCEPT ![t] = "alloc"]
    BY <1>3 DEF Notify, Goto
  <2>2. UNCHANGED <<committed, locks, local, clock>>
    BY <1>3 DEF Notify
  <2>3. Touched(t) = {}
    BY <2>1 DEF PostingsChecked, Posts, Touched
  <2>4. HeldRowsCurrent'
    <3>1. \A s \in Txns, u \in Users : Holds(s, u)' =>
            Holds(s, u) /\ (Charged(s)' <=> Charged(s))
      BY <2>1, <2>2, <2>3 DEF Holds, Touched, Charged, local, TypeOK
    <3> QED
      BY <2>2, <3>1, HeldRowsKept DEF committed, locks, local
  <2>5. CounterHeld'
    BY <2>1, <2>2 DEF CounterHeld, committed, locks, local, TypeOK
  <2>6. PostingsChecked'
    BY <2>1, <2>2, <2>3 DEF PostingsChecked, Posts, Touched, Charged, local, TypeOK
  <2> QED
    BY <2>4, <2>5, <2>6
<1>4. ASSUME NEW t \in Txns, Upsert(t) PROVE LockDiscipline'
  <2>1. /\ pc[t] = "upsert"
        /\ pc' \in {pc, [pc EXCEPT ![t] = "lock"]}
        /\ pc'[t] = "lock" => todo'[t] = Touched(t)
        /\ \A s \in Txns \ {t} : todo'[s] = todo[s]
    BY <1>4 DEF Upsert, TypeOK
  <2>2. UNCHANGED <<committed, seqOwner, entries, image, stamp, first, clock>>
    BY <1>4 DEF Upsert
  <2>3. \A u \in Users : owner[u] # NoTxn => owner'[u] = owner[u]
    BY <1>4 DEF Upsert, TypeOK
  <2>4. \A s \in Txns, u \in Users : Holds(s, u)' => s # t /\ Holds(s, u)
    BY <2>1, <2>2 DEF Holds, Touched, TypeOK
  <2>5. HeldRowsCurrent'
    BY <2>1, <2>2, <2>3, <2>4, NoTxnAssumption
       DEF HeldRowsCurrent, Charged, Committed, committed, TypeOK
  <2>6. CounterHeld'
    BY <2>1, <2>2 DEF CounterHeld, committed, TypeOK
  <2>7. PostingsChecked'
    BY <2>1, <2>2 DEF PostingsChecked, Posts, Charged, TypeOK
  <2> QED
    BY <2>5, <2>6, <2>7
<1>5. ASSUME NEW t \in Txns, Lock(t) PROVE LockDiscipline'
  <2>1. PICK u \in Users :
          /\ u \in todo[t]
          /\ owner[u] \in {NoTxn, t}
          /\ owner' = [owner EXCEPT ![u] = t]
          /\ image' = [image EXCEPT ![t][u] = Committed(u)]
          /\ todo' = [todo EXCEPT ![t] = @ \ {u}]
          /\ pc' = [pc EXCEPT ![t] = IF todo[t] = {u} THEN "apply" ELSE "lock"]
    BY <1>5 DEF Lock, IsNext
  <2>2. pc[t] = "lock" /\ UNCHANGED <<committed, seqOwner, entries, stamp, first, clock>>
    BY <1>5 DEF Lock
  <2>3. \A s \in Txns, v \in Users :
          Holds(s, v)' => Holds(s, v) \/ (s = t /\ v = u)
    <3> SUFFICES ASSUME NEW s \in Txns, NEW v \in Users, Holds(s, v)', ~(s = t /\ v = u)
                 PROVE  Holds(s, v)
      OBVIOUS
    <3>1. CASE s = t
      BY <2>1, <2>2, <3>1 DEF Holds, Touched, TypeOK
    <3>2. CASE s # t
      BY <2>1, <2>2, <3>2 DEF Holds, Touched, TypeOK
    <3> QED
      BY <3>1, <3>2
  <2>4. \A s \in Txns : Charged(s)' <=> Charged(s)
    BY <2>1, <2>2 DEF Charged, TypeOK
  <2>5. HeldRowsCurrent'
    <3> SUFFICES ASSUME NEW s \in Txns, NEW v \in Users, Holds(s, v)'
                 PROVE  /\ owner'[v] = s
                        /\ image'[s][v] = IF Charged(s)'
                                          THEN Charge(Committed(v)', entries'[s][v], stamp'[s])
                                          ELSE Committed(v)'
      BY DEF HeldRowsCurrent
    <3>1. Committed(v)' = Committed(v)
      BY <2>2 DEF Committed, committed
    <3>2. CASE s = t /\ v = u
      BY <2>1, <2>2, <2>4, <3>1, <3>2 DEF TypeOK, Charged
    <3>3. CASE ~(s = t /\ v = u)
      <4>1. Holds(s, v) /\ owner[v] = s
        BY <2>3, <3>3 DEF HeldRowsCurrent
      <4>2. owner'[v] = s
        BY <2>1, <3>3, <4>1, NoTxnAssumption DEF TypeOK
      <4>3. image'[s][v] = image[s][v]
        BY <2>1, <3>3 DEF TypeOK
      <4> QED
        BY <2>2, <2>4, <3>1, <4>1, <4>2, <4>3 DEF HeldRowsCurrent
    <3> QED
      BY <3>2, <3>3
  <2>6. CounterHeld'
    BY <2>1, <2>2 DEF CounterHeld, committed, TypeOK
  <2>7. PostingsChecked'
    BY <2>1, <2>2, <2>4 DEF PostingsChecked, Posts, TypeOK
  <2> QED
    BY <2>5, <2>6, <2>7
<1>6. ASSUME NEW t \in Txns, Apply(t) PROVE LockDiscipline'
  <2>1. pc[t] = "apply" /\ pc' = [pc EXCEPT ![t] = "alloc"]
    BY <1>6 DEF Apply, Goto
  <2>2. /\ stamp' = [stamp EXCEPT ![t] = clock]
        /\ image' = [image EXCEPT ![t] =
                       [u \in Users |-> IF u \in Touched(t)
                                        THEN Charge(image[t][u], entries[t][u], clock)
                                        ELSE image[t][u]]]
        /\ UNCHANGED <<committed, locks, entries, todo, first, clock>>
    BY <1>6 DEF Apply
  <2>3. \A s \in Txns, u \in Users : Holds(s, u)' <=> Holds(s, u)
    BY <2>1, <2>2 DEF Holds, Touched, TypeOK
  <2>4. HeldRowsCurrent'
    <3> SUFFICES ASSUME NEW s \in Txns, NEW v \in Users, Holds(s, v)'
                 PROVE  /\ owner'[v] = s
                        /\ image'[s][v] = IF Charged(s)'
                                          THEN Charge(Committed(v)', entries'[s][v], stamp'[s])
                                          ELSE Committed(v)'
      BY DEF HeldRowsCurrent
    <3>1. Committed(v)' = Committed(v) /\ owner'[v] = s /\ Holds(s, v)
      BY <2>2, <2>3 DEF Committed, committed, locks, HeldRowsCurrent
    <3>2. CASE s = t
      <4>1. image[t][v] = Committed(v) /\ v \in Touched(t)
        BY <2>1, <3>1, <3>2 DEF HeldRowsCurrent, Charged, Holds
      <4> QED
        BY <2>1, <2>2, <3>1, <3>2, <4>1 DEF Charged, TypeOK
    <3>3. CASE s # t
      BY <2>1, <2>2, <3>1, <3>3 DEF HeldRowsCurrent, Charged, TypeOK
    <3> QED
      BY <3>2, <3>3
  <2>5. CounterHeld'
    BY <2>1, <2>2 DEF CounterHeld, committed, locks, TypeOK
  <2>6. PostingsChecked'
    BY <2>1, <2>2 DEF PostingsChecked, Posts, Charged, TypeOK
  <2> QED
    BY <2>4, <2>5, <2>6
<1>7. ASSUME NEW t \in Txns, Allocate(t) PROVE LockDiscipline'
  <2>1. /\ pc[t] = "alloc" /\ pc' = [pc EXCEPT ![t] = "ready"]
        /\ seqOwner = NoTxn /\ seqOwner' = t
        /\ first' = [first EXCEPT ![t] = nextSeq]
        /\ UNCHANGED <<committed, owner, entries, todo, image, stamp, clock>>
    BY <1>7 DEF Allocate, Goto
  <2>2. HeldRowsCurrent'
    <3>1. \A s \in Txns, u \in Users : Holds(s, u)' =>
            Holds(s, u) /\ (Charged(s)' <=> Charged(s))
      BY <2>1 DEF Holds, Touched, Charged, TypeOK
    <3> QED
      BY <2>1, <3>1, HeldRowsKept DEF committed
  <2>3. CounterHeld'
    BY <2>1, NoTxnAssumption DEF CounterHeld, committed, TypeOK
  <2>4. PostingsChecked'
    BY <2>1 DEF PostingsChecked, Posts, Charged, TypeOK
  <2> QED
    BY <2>2, <2>3, <2>4
<1>8. ASSUME NEW t \in Txns, Commit(t) PROVE LockDiscipline'
  <2>1. /\ pc[t] = "ready" /\ pc' = [pc EXCEPT ![t] = "committed"]
        /\ UNCHANGED <<local, clock>>
    BY <1>8 DEF Commit, Goto
  <2>2. /\ owner' = [u \in Users |-> IF owner[u] = t THEN NoTxn ELSE owner[u]]
        /\ seqOwner' = IF seqOwner = t THEN NoTxn ELSE seqOwner
    BY <1>8 DEF Commit, Release
  <2>3. \A u \in Users : u \notin Touched(t) => Committed(u)' = Committed(u)
    BY <1>8 DEF Commit, Committed
  <2>4. HeldRowsCurrent'
    <3> SUFFICES ASSUME NEW s \in Txns, NEW v \in Users, Holds(s, v)'
                 PROVE  /\ owner'[v] = s
                        /\ image'[s][v] = IF Charged(s)'
                                          THEN Charge(Committed(v)', entries'[s][v], stamp'[s])
                                          ELSE Committed(v)'
      BY DEF HeldRowsCurrent
    <3>1. s # t /\ Holds(s, v) /\ owner[v] = s /\ (Charged(s)' <=> Charged(s))
      BY <2>1 DEF Holds, Touched, Charged, local, TypeOK, HeldRowsCurrent
    <3>2. v \notin Touched(t)
      BY <2>1, <3>1 DEF HeldRowsCurrent, Holds
    <3> QED
      BY <2>1, <2>2, <2>3, <3>1, <3>2 DEF HeldRowsCurrent, local
  <2>5. CounterHeld'
    <3>1. \A s \in Txns : pc'[s] = "ready" => s # t /\ pc[s] = "ready"
      BY <2>1 DEF TypeOK
    <3> QED
      BY <2>1, <3>1 DEF CounterHeld
  <2>6. PostingsChecked'
    BY <2>1 DEF PostingsChecked, Posts, Charged, local, TypeOK
  <2> QED
    BY <2>4, <2>5, <2>6
<1>9. ASSUME NEW t \in Txns, Rollback(t) PROVE LockDiscipline'
  <2>1. /\ pc' = [pc EXCEPT ![t] = "rolledback"]
        /\ UNCHANGED <<committed, local, clock>>
        /\ owner' = [u \in Users |-> IF owner[u] = t THEN NoTxn ELSE owner[u]]
        /\ seqOwner' = IF seqOwner = t THEN NoTxn ELSE seqOwner
    BY <1>9 DEF Rollback, Release
  <2>2. HeldRowsCurrent'
    <3>1. \A s \in Txns, u \in Users : Holds(s, u)' =>
            s # t /\ Holds(s, u) /\ (Charged(s)' <=> Charged(s))
      BY <2>1 DEF Holds, Touched, Charged, local, TypeOK
    <3>2. \A s \in Txns, u \in Users : s # t /\ owner[u] = s => owner'[u] = s
      BY <2>1
    <3> QED
      BY <2>1, <3>1, <3>2, HeldRowsKept DEF committed, local
  <2>3. CounterHeld'
    BY <2>1 DEF CounterHeld, committed, local, TypeOK
  <2>4. PostingsChecked'
    BY <2>1 DEF PostingsChecked, Posts, Charged, local, TypeOK
  <2> QED
    BY <2>2, <2>3, <2>4
<1>10. CASE Tick
  <2>1. clock' = clock + 1 /\ UNCHANGED <<committed, locks, pc, local>>
    BY <1>10 DEF Tick
  <2>2. HeldRowsCurrent'
    BY <2>1 DEF HeldRowsCurrent, Holds, Touched, Charged, Committed, committed, locks, local
  <2>3. CounterHeld'
    BY <2>1 DEF CounterHeld, committed, locks, local
  <2>4. PostingsChecked'
    BY <2>1 DEF PostingsChecked, Posts, Charged, local, TypeOK
  <2> QED
    BY <2>2, <2>3, <2>4
<1>11. CASE UNCHANGED vars
  BY <1>11 DEF vars, committed, locks, local, HeldRowsCurrent, CounterHeld,
               PostingsChecked, Holds, Posts, Touched, Charged, Committed
<1> QED
  BY <1>1, <1>2, <1>3, <1>4, <1>5, <1>6, <1>7, <1>8, <1>9, <1>10, <1>11 DEF Next, Step

\* The locking discipline holds in every reachable state.
THEOREM DisciplineKept == Spec => []Inv
<1>1. Init => Inv
  BY InitType, InitDiscipline DEF Inv
<1>2. Inv /\ [Next]_vars => Inv'
  BY NextType, NextDiscipline DEF Inv
<1> QED
  BY <1>1, <1>2, PTL DEF Spec

-----------------------------------------------------------------------------
(* What a commit does, and that nothing else is ever visible.              *)

LEMMA OnlyCommitsShow ==
    ASSUME [Next]_vars
    PROVE  (\E t \in Txns : Commit(t)) \/ UNCHANGED committed
<1>1. ASSUME NEW t \in Txns, Post(t) PROVE UNCHANGED committed
  BY <1>1 DEF Post
<1>2. ASSUME NEW t \in Txns, Refuse(t) PROVE UNCHANGED committed
  BY <1>2 DEF Refuse
<1>3. ASSUME NEW t \in Txns, Notify(t) PROVE UNCHANGED committed
  BY <1>3 DEF Notify
<1>4. ASSUME NEW t \in Txns, Upsert(t) PROVE UNCHANGED committed
  BY <1>4 DEF Upsert
<1>5. ASSUME NEW t \in Txns, Lock(t) PROVE UNCHANGED committed
  BY <1>5 DEF Lock
<1>6. ASSUME NEW t \in Txns, Apply(t) PROVE UNCHANGED committed
  BY <1>6 DEF Apply
<1>7. ASSUME NEW t \in Txns, Allocate(t) PROVE UNCHANGED committed
  BY <1>7 DEF Allocate
<1>8. ASSUME NEW t \in Txns, Rollback(t) PROVE UNCHANGED committed
  BY <1>8 DEF Rollback
<1>9. Tick => UNCHANGED committed
  BY DEF Tick
<1>10. UNCHANGED vars => UNCHANGED committed
  BY DEF vars
<1> QED
  BY <1>1, <1>2, <1>3, <1>4, <1>5, <1>6, <1>7, <1>8, <1>9, <1>10 DEF Next, Step

\* A commit charges the rows as they stand, not as they once were read, and
\* takes the numbers that come next.
LEMMA CommitEffect ==
    ASSUME Inv, NEW t \in Txns, Commit(t)
    PROVE  /\ \A u \in Touched(t) :
                 Committed(u)' = Charge(Committed(u), entries[t][u], stamp[t])
           /\ \A u \in Users \ Touched(t) : Committed(u)' = Committed(u)
           /\ \A u \in Users : posted'[u] = IF u \in Touched(t)
                                            THEN posted[u] + entries[t][u] ELSE posted[u]
           /\ events' = events \cup {Fact(nextSeq)} \cup
                 (IF Posts(t)
                  THEN {Snapshot(nextSeq + 1, [u \in Touched(t) |-> Committed(u)'])} ELSE {})
           /\ nextSeq' = nextSeq + EventCount(t)
<1>1. pc[t] = "ready" /\ first[t] = nextSeq
  BY DEF Commit, Goto, Inv, LockDiscipline, CounterHeld
<1>2. Touched(t) \subseteq Users
  BY EntriesType DEF Inv
<1>3. ASSUME NEW u \in Touched(t)
      PROVE  /\ image[t][u] = Charge(Committed(u), entries[t][u], stamp[t])
             /\ Committed(u)' = image[t][u]
  <2>1. u \in Users /\ image[t][u] \in Row
    BY <1>2 DEF Inv, TypeOK
  <2>2. Holds(t, u) /\ Charged(t)
    BY <1>1 DEF Holds, Charged
  <2>3. rows'[u] = [present |-> TRUE, cents |-> image[t][u].cents, debt |-> image[t][u].debt]
    BY <2>1 DEF Commit
  <2> QED
    BY <2>1, <2>2, <2>3 DEF Inv, LockDiscipline, HeldRowsCurrent, Committed, Row
<1>4. Restrict(image[t], Touched(t)) = [u \in Touched(t) |-> Committed(u)']
  BY <1>3 DEF Restrict
<1>5. \A u \in Users \ Touched(t) : Committed(u)' = Committed(u)
  BY DEF Commit, Committed
<1> QED
  BY <1>1, <1>3, <1>4, <1>5 DEF Commit, Emitted

-----------------------------------------------------------------------------
(* The properties.                                                         *)

\* Every cached balance is the sum of the user's ledger entries.
THEOREM CacheIsLedger == Spec => []BalancesMatchLedger
<1>1. Init => BalancesMatchLedger
  BY DEF Init, BalancesMatchLedger
<1>2. Inv /\ BalancesMatchLedger /\ [Next]_vars => BalancesMatchLedger'
  <2> SUFFICES ASSUME Inv, BalancesMatchLedger, [Next]_vars PROVE BalancesMatchLedger'
    OBVIOUS
  <2>1. ASSUME NEW t \in Txns, Commit(t) PROVE BalancesMatchLedger'
    <3> SUFFICES ASSUME NEW u \in Users PROVE rows'[u].cents = posted'[u]
      BY DEF BalancesMatchLedger
    <3>1. CASE u \in Touched(t)
      <4>1. Committed(u)' = Charge(Committed(u), entries[t][u], stamp[t])
        BY <2>1, <3>1, CommitEffect
      <4>2. posted'[u] = posted[u] + entries[t][u]
        BY <2>1, <3>1, CommitEffect
      <4>3. Committed(u)'.cents = rows'[u].cents /\ Committed(u).cents = rows[u].cents
        BY DEF Committed
      <4> QED
        BY <4>1, <4>2, <4>3 DEF BalancesMatchLedger, Charge
    <3>2. CASE u \notin Touched(t)
      BY <2>1, <3>2, CommitEffect DEF BalancesMatchLedger, Committed
    <3> QED
      BY <3>1, <3>2
  <2>2. CASE UNCHANGED committed
    BY <2>2 DEF committed, BalancesMatchLedger
  <2> QED
    BY <2>1, <2>2, OnlyCommitsShow
<1> QED
  BY <1>1, <1>2, DisciplineKept, PTL DEF Spec

\* What a commit adds to the balances sums to zero, so their sum stays what it
\* was.
LEMMA CommitKeepsSum ==
    ASSUME Inv, NEW t \in Txns, Commit(t)
    PROVE  SumFunction([u \in Users |-> rows[u].cents])' = SumFunction([u \in Users |-> rows[u].cents])
<1>1. PICK before : before = [u \in Users |-> rows[u].cents]
  OBVIOUS
<1>2. PICK after : after = [u \in Users |-> rows'[u].cents]
  OBVIOUS
<1>3. PICK es : es = entries[t]
  OBVIOUS
<1>. DEFINE added == [u \in Users |-> IF u \in DOMAIN es THEN es[u] ELSE 0]
<1>4. IsFiniteSet(Users)
  BY NumUsersAssumption, FS_Interval DEF Users
<1>5. DOMAIN es \in SUBSET Users /\ \A u \in DOMAIN es : es[u] \in Int
  BY <1>3, EntriesType DEF Inv, Touched
<1>6. SumFunctionOnSet(added, Users) = 0
  <2>1. CASE DOMAIN es = {}
    BY <2>1, <1>4, SumOfZeros
  <2>2. CASE DOMAIN es # {}
    <3>1. Balanced(es)
      BY <1>3, <2>2 DEF Inv, LockDiscipline, PostingsChecked, Posts
    <3>2. SumFunctionOnSet(added, Users) = SumFunctionOnSet(added, DOMAIN es)
      BY <1>4, <1>5, SumOnSubset
    <3>3. SumFunctionOnSet(added, DOMAIN es) = SumFunctionOnSet(es, DOMAIN es)
      <4>1. IsFiniteSet(DOMAIN es)
        BY <1>4, <1>5, FS_Subset
      <4>2. \A u \in DOMAIN es : es[u] \in Int /\ added[u] = es[u]
        BY <1>5
      <4>. HIDE DEF added
      <4>. QED
        BY <4>1, <4>2, SumSame
    <3>. QED
      BY <3>1, <3>2, <3>3 DEF Balanced, SumFunction
  <2>. QED
    BY <2>1, <2>2
<1>7. ASSUME NEW u \in Users
      PROVE  before[u] \in Int /\ added[u] \in Int /\ after[u] = before[u] + added[u]
  <2>1. before[u] = Committed(u).cents /\ after[u] = Committed(u)'.cents
    BY <1>1, <1>2 DEF Committed
  <2>2. before[u] \in Int
    BY <1>1 DEF Inv, TypeOK
  <2>3. CASE u \in DOMAIN es
    <3>1. Committed(u)' = Charge(Committed(u), entries[t][u], stamp[t])
      BY <2>3, <1>3, CommitEffect DEF Touched
    <3>. QED
      BY <3>1, <2>1, <2>2, <2>3, <1>3, <1>5 DEF Charge
  <2>4. CASE u \notin DOMAIN es
    <3>1. Committed(u)' = Committed(u)
      BY <2>4, <1>3, CommitEffect DEF Touched
    <3>. QED
      BY <3>1, <2>1, <2>2, <2>4
  <2>. QED
    BY <2>3, <2>4
<1>8. SumFunctionOnSet(after, Users) = SumFunctionOnSet(before, Users) + SumFunctionOnSet(added, Users)
  <2>. HIDE DEF added
  <2>. QED
    BY <1>4, <1>7, SumPlus
<1>9. SumFunctionOnSet(before, Users) \in Int
  BY <1>4, <1>7, SumType
<1>10. SumFunction(after) = SumFunction(before)
  BY <1>1, <1>2, <1>6, <1>8, <1>9 DEF SumFunction
<1>. QED
  BY <1>1, <1>2, <1>10

\* Double entry holds of the cache: the house's balances sum to zero in every
\* committed state, whatever postings interleave and fail.
THEOREM HouseAlwaysSumsToZero == Spec => []HouseSumsToZero
<1>1. Init => HouseSumsToZero
  <2>. SUFFICES ASSUME Init PROVE HouseSumsToZero
    OBVIOUS
  <2>1. PICK f : f = [u \in Users |-> rows[u].cents]
    OBVIOUS
  <2>2. \A u \in Users : f[u] = 0
    BY <2>1 DEF Init
  <2>3. IsFiniteSet(Users)
    BY NumUsersAssumption, FS_Interval DEF Users
  <2>4. SumFunctionOnSet(f, Users) = 0
    BY <2>2, <2>3, SumOfZeros
  <2>. QED
    BY <2>1, <2>4 DEF HouseSumsToZero, SumFunction
<1>2. Inv /\ HouseSumsToZero /\ [Next]_vars => HouseSumsToZero'
  <2>. SUFFICES ASSUME Inv, HouseSumsToZero, [Next]_vars PROVE HouseSumsToZero'
    OBVIOUS
  <2>1. CASE \E t \in Txns : Commit(t)
    BY <2>1, CommitKeepsSum DEF HouseSumsToZero
  <2>2. CASE UNCHANGED committed
    BY <2>2 DEF committed, HouseSumsToZero
  <2>. QED
    BY <2>1, <2>2, OnlyCommitsShow
<1>. QED
  BY <1>1, <1>2, DisciplineKept, PTL DEF Spec

\* Sequence numbers have no gap and no duplicate.
THEOREM NumbersHaveNoGap == Spec => []SeqsGapless
<1>1. Init => SeqsGapless
  BY DEF Init, SeqsGapless
<1>2. Inv /\ SeqsGapless /\ [Next]_vars => SeqsGapless'
  <2> SUFFICES ASSUME Inv, SeqsGapless, [Next]_vars PROVE SeqsGapless'
    OBVIOUS
  <2>1. ASSUME NEW t \in Txns, Commit(t) PROVE SeqsGapless'
    <3> DEFINE N == nextSeq
    <3>1. N \in Nat \ {0}
      BY DEF Inv, TypeOK
    <3>2. CASE Posts(t)
      <4>1. PICK bs : events' = events \cup {Fact(N), Snapshot(N + 1, bs)}
        BY <2>1, <3>2, CommitEffect
      <4>2. nextSeq' = N + 2
        BY <2>1, <3>2, CommitEffect DEF EventCount
      <4>3. Fact(N).seq = N /\ Snapshot(N + 1, bs).seq = N + 1
        BY DEF Fact, Snapshot
      <4>4. \A e \in events' : e.seq \in 1..(nextSeq' - 1)
        BY <3>1, <4>1, <4>2, <4>3 DEF SeqsGapless
      <4>5. \A n \in 1..(nextSeq' - 1) : \E e \in events' : e.seq = n
        <5> SUFFICES ASSUME NEW n \in 1..(N + 1) PROVE \E e \in events' : e.seq = n
          BY <3>1, <4>2
        <5>1. n \in 1..(N - 1) \/ n = N \/ n = N + 1
          BY <3>1
        <5> QED
          BY <4>1, <4>3, <5>1 DEF SeqsGapless
      <4>6. \A e, f \in events' : e.seq = f.seq => e = f
        BY <3>1, <4>1, <4>3 DEF SeqsGapless
      <4> QED
        BY <4>4, <4>5, <4>6 DEF SeqsGapless
    <3>3. CASE ~Posts(t)
      <4>1. events' = events \cup {Fact(N)} /\ nextSeq' = N + 1
        BY <2>1, <3>3, CommitEffect DEF EventCount
      <4>2. Fact(N).seq = N
        BY DEF Fact
      <4>3. \A e \in events' : e.seq \in 1..(nextSeq' - 1)
        BY <3>1, <4>1, <4>2 DEF SeqsGapless
      <4>4. \A n \in 1..(nextSeq' - 1) : \E e \in events' : e.seq = n
        <5> SUFFICES ASSUME NEW n \in 1..N PROVE \E e \in events' : e.seq = n
          BY <3>1, <4>1
        <5>1. n \in 1..(N - 1) \/ n = N
          BY <3>1
        <5> QED
          BY <4>1, <4>2, <5>1 DEF SeqsGapless
      <4>5. \A e, f \in events' : e.seq = f.seq => e = f
        BY <3>1, <4>1, <4>2 DEF SeqsGapless
      <4> QED
        BY <4>3, <4>4, <4>5 DEF SeqsGapless
    <3> QED
      BY <3>2, <3>3
  <2>2. CASE UNCHANGED committed
    BY <2>2 DEF committed, SeqsGapless
  <2> QED
    BY <2>1, <2>2, OnlyCommitsShow
<1> QED
  BY <1>1, <1>2, DisciplineKept, PTL DEF Spec

\* New events lie above every event already visible.
THEOREM NumbersAppearInOrder == Spec => EventsAppearInOrder
<1>1. Inv /\ SeqsGapless /\ [Next]_vars =>
        [\A e \in events' \ events : \A f \in events : f.seq < e.seq]_vars
  <2> SUFFICES ASSUME Inv, SeqsGapless, [Next]_vars,
                      NEW e \in events' \ events, NEW f \in events
               PROVE  f.seq < e.seq
    OBVIOUS
  <2>1. PICK t \in Txns : Commit(t)
    BY OnlyCommitsShow DEF committed
  <2>2. e.seq \in {nextSeq, nextSeq + 1}
    BY <2>1, CommitEffect DEF Fact, Snapshot
  <2> QED
    BY <2>2 DEF SeqsGapless, Inv, TypeOK
<1> QED
  BY <1>1, DisciplineKept, NumbersHaveNoGap, PTL DEF Spec, EventsAppearInOrder

\* The newest snapshot that names a user shows the user's balance.
THEOREM SnapshotsStayCurrent == Spec => []SnapshotsCurrent
<1>1. Init => SnapshotsCurrent
  BY DEF Init, SnapshotsCurrent
<1>2. Inv /\ SeqsGapless /\ SnapshotsCurrent /\ [Next]_vars => SnapshotsCurrent'
  <2> SUFFICES ASSUME Inv, SeqsGapless, SnapshotsCurrent, [Next]_vars
               PROVE  SnapshotsCurrent'
    OBVIOUS
  <2>1. ASSUME NEW t \in Txns, Commit(t) PROVE SnapshotsCurrent'
    <3> DEFINE bs == [u \in Touched(t) |-> Committed(u)']
               new == Snapshot(nextSeq + 1, bs)
    <3> SUFFICES ASSUME NEW e \in events', NEW u \in DOMAIN e.balances
                 PROVE  \/ e.balances[u] = Committed(u)'
                        \/ \E f \in events' : u \in DOMAIN f.balances /\ f.seq > e.seq
      BY DEF SnapshotsCurrent
    <3>1. /\ events \subseteq events'
          /\ e \in events \cup {Fact(nextSeq), new}
          /\ Posts(t) => new \in events'
          /\ e = new => Posts(t) \/ e \in events \cup {Fact(nextSeq)}
      BY <2>1, CommitEffect
    <3>2. DOMAIN new.balances = Touched(t) /\ new.seq = nextSeq + 1
          /\ \A v \in Touched(t) : new.balances[v] = Committed(v)'
      BY DEF Snapshot
    <3>3. CASE e \in events
      <4>1. u \in Users /\ e.seq \in 1..(nextSeq - 1)
        BY <3>3 DEF Inv, TypeOK, SeqsGapless
      <4>2. CASE u \in Touched(t)
        <5>1. new \in events'
          BY <3>1, <4>2 DEF Posts, Touched
        <5>2. new.seq > e.seq
          BY <3>2, <4>1 DEF Inv, TypeOK
        <5> QED
          BY <3>2, <4>2, <5>1, <5>2
      <4>3. CASE u \notin Touched(t)
        <5>1. Committed(u)' = Committed(u)
          BY <2>1, <4>1, <4>3, CommitEffect
        <5> QED
          BY <3>1, <3>3, <5>1 DEF SnapshotsCurrent
      <4> QED
        BY <4>2, <4>3
    <3>4. CASE e = Fact(nextSeq)
      BY <3>4 DEF Fact, Nothing
    <3>5. CASE e = new
      BY <3>2, <3>5
    <3> HIDE DEF new
    <3> QED
      BY <3>1, <3>3, <3>4, <3>5
  <2>2. CASE UNCHANGED committed
    BY <2>2 DEF committed, SnapshotsCurrent, Committed
  <2> QED
    BY <2>1, <2>2, OnlyCommitsShow
<1> QED
  BY <1>1, <1>2, DisciplineKept, NumbersHaveNoGap, PTL DEF Spec

\* A charge starts, keeps and clears the debt clock with the sign of the balance.
LEMMA ChargeDebt ==
    ASSUME NEW row \in Row, NEW amount \in Int, NEW at \in Nat \ {0},
           row.debt # NoDebt <=> row.cents < 0
    PROVE  LET new == Charge(row, amount, at)
           IN  /\ new.debt # NoDebt <=> new.cents < 0
               /\ row.cents < 0 /\ new.cents < 0 => new.debt = row.debt
  BY DEF Charge, Row, NoDebt

\* What ChargeDebt says of the rows a commit writes.
LEMMA CommitDebt ==
    ASSUME Inv, DebtClockRuns, NEW t \in Txns, Commit(t), NEW u \in Users
    PROVE  /\ rows'[u].debt # NoDebt <=> rows'[u].cents < 0
           /\ rows[u].cents < 0 /\ rows'[u].cents < 0 => rows'[u].debt = rows[u].debt
<1>1. /\ Committed(u) \in Row
      /\ Committed(u).cents = rows[u].cents /\ Committed(u).debt = rows[u].debt
      /\ Committed(u)'.cents = rows'[u].cents /\ Committed(u)'.debt = rows'[u].debt
  BY DEF Committed, Inv, TypeOK, Row
<1>2. CASE u \in Touched(t)
  <2>1. entries[t][u] \in Int
    BY <1>2, EntriesType DEF Inv
  <2>2. Posts(t) /\ Charged(t)
    BY <1>2 DEF Posts, Touched, Charged, Commit, Goto
  <2>3. stamp[t] \in Nat \ {0}
    BY <2>2 DEF Inv, LockDiscipline, PostingsChecked, TypeOK
  <2>4. Committed(u)' = Charge(Committed(u), entries[t][u], stamp[t])
    BY <1>2, CommitEffect
  <2>5. Committed(u).debt # NoDebt <=> Committed(u).cents < 0
    BY <1>1 DEF DebtClockRuns
  <2> QED
    BY <1>1, <2>1, <2>3, <2>4, <2>5, ChargeDebt
<1>3. CASE u \notin Touched(t)
  BY <1>1, <1>3, CommitEffect DEF DebtClockRuns
<1> QED
  BY <1>2, <1>3

\* A debt clock runs exactly while there is a debt.
THEOREM DebtClockIsRight == Spec => []DebtClockRuns
<1>1. Init => DebtClockRuns
  BY DEF Init, DebtClockRuns, NoDebt
<1>2. Inv /\ DebtClockRuns /\ [Next]_vars => DebtClockRuns'
  <2> SUFFICES ASSUME Inv, DebtClockRuns, [Next]_vars PROVE DebtClockRuns'
    OBVIOUS
  <2>1. CASE \E t \in Txns : Commit(t)
    BY <2>1, CommitDebt DEF DebtClockRuns
  <2>2. CASE UNCHANGED committed
    BY <2>2 DEF committed, DebtClockRuns
  <2> QED
    BY <2>1, <2>2, OnlyCommitsShow
<1> QED
  BY <1>1, <1>2, DisciplineKept, PTL DEF Spec

\* No posting restarts the clock of a debt that lasts.
THEOREM DebtClockIsKept == Spec => DebtClockKept
<1>1. Inv /\ DebtClockRuns /\ [Next]_vars =>
        [\A u \in Users :
            rows[u].cents < 0 /\ rows'[u].cents < 0 => rows'[u].debt = rows[u].debt]_vars
  <2> SUFFICES ASSUME Inv, DebtClockRuns, [Next]_vars, NEW u \in Users,
                      rows[u].cents < 0, rows'[u].cents < 0
               PROVE  rows'[u].debt = rows[u].debt
    OBVIOUS
  <2>1. CASE \E t \in Txns : Commit(t)
    BY <2>1, CommitDebt
  <2>2. CASE UNCHANGED committed
    BY <2>2 DEF committed
  <2> QED
    BY <2>1, <2>2, OnlyCommitsShow
<1> QED
  BY <1>1, DisciplineKept, DebtClockIsRight, PTL DEF Spec, DebtClockKept

-----------------------------------------------------------------------------
(* The engine implements AtomicLedger.                                     *)

\* The two modules' operators agree.
LEMMA SameOperators ==
    /\ \A es : Atomic!Balanced(es) <=> Balanced(es)
    /\ \A row, amount, at : Atomic!Charge(row, amount, at) = Charge(row, amount, at)
    /\ \A n : Atomic!Fact(n) = Fact(n)
    /\ \A n, bs : Atomic!Snapshot(n, bs) = Snapshot(n, bs)
    /\ \A f, S : Atomic!Restrict(f, S) = Restrict(f, S)
<1>1. \A es : Atomic!SumFunction(es) = SumFunction(es)
  BY DEF SumFunction, Atomic!SumFunction, SumFunctionOnSet, Atomic!SumFunctionOnSet,
         FoldFunctionOnSet, Atomic!FoldFunctionOnSet, MapThenFoldSet, Atomic!MapThenFoldSet
<1>2. \A es : Atomic!Balanced(es) <=> Balanced(es)
  BY <1>1 DEF Balanced, Atomic!Balanced
<1>3. \A row, amount, at : Atomic!Charge(row, amount, at) = Charge(row, amount, at)
  BY DEF Charge, Atomic!Charge, NoDebt, Atomic!NoDebt
<1>4. Nothing = Atomic!Nothing
  BY DEF Nothing, Atomic!Nothing, EmptyRow, Atomic!EmptyRow, NoDebt, Atomic!NoDebt
<1>5. \A n : Atomic!Fact(n) = Fact(n)
  BY <1>4 DEF Fact, Atomic!Fact
<1>6. \A n, bs : Atomic!Snapshot(n, bs) = Snapshot(n, bs)
  BY DEF Snapshot, Atomic!Snapshot
<1>7. \A f, S : Atomic!Restrict(f, S) = Restrict(f, S)
  BY DEF Restrict, Atomic!Restrict
<1> QED
  BY <1>2, <1>3, <1>5, <1>6, <1>7

LEMMA InitImplements == Init => Atomic!Init
  BY DEF Init, Atomic!Init, Committed, EmptyRow, Atomic!EmptyRow, NoDebt,
         Atomic!NoDebt, Users, Atomic!Users

\* A commit of a posting is an atomic posting; a commit of anything else is an
\* atomic notice.
LEMMA CommitImplements ==
    ASSUME Inv, NEW t \in Txns, Commit(t)
    PROVE  Atomic!Post \/ Atomic!Notify
<1> DEFINE bal == [u \in Users |-> Committed(u)]
<1>1. Users = Atomic!Users /\ UNCHANGED clock
  BY DEF Users, Atomic!Users, Commit
<1>2. CASE ~Posts(t)
  <2>1. Touched(t) = {}
    BY <1>2 DEF Posts, Touched
  <2>2. events' = events \cup {Fact(nextSeq)} /\ nextSeq' = nextSeq + 1
    BY <1>2, CommitEffect DEF EventCount
  <2>3. bal' = bal
    BY <2>1, CommitEffect
  <2> QED
    BY <1>1, <2>2, <2>3, SameOperators DEF Atomic!Notify
<1>3. CASE Posts(t)
  <2> DEFINE es == entries[t]
             at == stamp[t]
  <2>1. Balanced(es) /\ at \in 1..clock
    BY <1>3 DEF Inv, LockDiscipline, PostingsChecked, Charged, Commit, Goto
  <2>2. es \in Postings /\ DOMAIN es \subseteq Users /\ Touched(t) = DOMAIN es
    <3>1. es # NoEntries
      BY <1>3 DEF Posts, NoEntries
    <3> QED
      BY <3>1, EntriesType DEF Inv, TypeOK, Touched
  <2>3. bal' = [u \in Users |-> IF u \in DOMAIN es THEN Charge(bal[u], es[u], at) ELSE bal[u]]
    BY <2>2, CommitEffect
  <2>4. nextSeq' = nextSeq + 2
    BY <1>3, CommitEffect DEF EventCount
  <2>5. Restrict(bal', DOMAIN es) = [u \in Touched(t) |-> Committed(u)']
    BY <2>2 DEF Restrict
  <2>6. events' = events \cup {Fact(nextSeq), Snapshot(nextSeq + 1, Restrict(bal', DOMAIN es))}
    BY <1>3, <2>5, CommitEffect
  <2> HIDE DEF es, at
  <2> QED
    BY <1>1, <2>1, <2>2, <2>3, <2>4, <2>6, SameOperators DEF Atomic!Post
<1> QED
  BY <1>2, <1>3

\* Every behaviour of the engine is a behaviour of the atomic ledger.
THEOREM EngineIsAtomic == Spec => ImplementsAtomicLedger
<1>1. Inv /\ [Next]_vars => [Atomic!Next]_(Atomic!vars)
  <2> SUFFICES ASSUME Inv, [Next]_vars PROVE [Atomic!Next]_(Atomic!vars)
    OBVIOUS
  <2>1. CASE \E t \in Txns : Commit(t)
    BY <2>1, CommitImplements DEF Atomic!Next
  <2>2. CASE Tick
    BY <2>2 DEF Tick, committed, Committed, Atomic!Next, Atomic!Tick
  <2>3. CASE UNCHANGED committed /\ UNCHANGED clock
    BY <2>3 DEF committed, Committed, Atomic!vars
  <2>4. (\E t \in Txns : Commit(t)) \/ Tick \/ (UNCHANGED committed /\ UNCHANGED clock)
    BY OnlyCommitsShow
       DEF Next, Step, vars, Post, Refuse, Notify, Upsert, Lock, Apply, Allocate, Rollback
  <2> QED
    BY <2>1, <2>2, <2>3, <2>4
<1> QED
  BY <1>1, InitImplements, DisciplineKept, PTL DEF Spec, ImplementsAtomicLedger, Atomic!Spec

=============================================================================
