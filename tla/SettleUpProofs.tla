--------------------------- MODULE SettleUpProofs ----------------------------
(***************************************************************************)
(* For every house, every opening and every request: a split loses no      *)
(* cent and is fair to the cent, and the suggested transfers settle        *)
(* everybody, with fewer transfers than users who are not even, none of    *)
(* which overshoots.                                                       *)
(***************************************************************************)
EXTENDS SettleUp, Sums, TLAPS

-----------------------------------------------------------------------------
(* What the transfers of a list give to a user.                            *)

Transfers == [from : Users, to : Users, cents : Nat \ {0}]

Moved(t, u) == (IF t.from = u THEN t.cents ELSE 0) - (IF t.to = u THEN t.cents ELSE 0)

FlowOf(s, u) ==
    SumFunction([i \in DOMAIN s |->
                   (IF s[i].from = u THEN s[i].cents ELSE 0)
                   - (IF s[i].to = u THEN s[i].cents ELSE 0)])

LEMMA FlowOfNone ==
    ASSUME NEW u
    PROVE  FlowOf(<<>>, u) = 0
<1>1. PICK e : e = <<>>
  OBVIOUS
<1>2. DOMAIN e = {}
  BY <1>1
<1>3. PICK f : f = [i \in DOMAIN e |-> (IF e[i].from = u THEN e[i].cents ELSE 0)
                                       - (IF e[i].to = u THEN e[i].cents ELSE 0)]
  OBVIOUS
<1>4. SumFunctionOnSet(f, {}) = 0
  BY SumOfNothing
<1>5. FlowOf(e, u) = SumFunctionOnSet(f, {})
  BY <1>2, <1>3 DEF FlowOf, SumFunction
<1>. QED
  BY <1>1, <1>4, <1>5

LEMMA FlowOfMore ==
    ASSUME NEW s \in Seq(Transfers), NEW t \in Transfers, NEW u
    PROVE  FlowOf(s, u) \in Int /\ FlowOf(Append(s, t), u) = FlowOf(s, u) + Moved(t, u)
<1>1. PICK n \in Nat : n = Len(s) /\ DOMAIN s = 1..n
  OBVIOUS
<1>2. PICK r : r = Append(s, t)
  OBVIOUS
<1>3. DOMAIN r = 1..n + 1 /\ r[n + 1] = t /\ \A i \in 1..n : r[i] = s[i]
  BY <1>1, <1>2
<1>4. \A i \in 1..n : s[i] \in Transfers
  BY <1>1
<1>5. PICK f : f = [i \in DOMAIN s |-> (IF s[i].from = u THEN s[i].cents ELSE 0)
                                       - (IF s[i].to = u THEN s[i].cents ELSE 0)]
  OBVIOUS
<1>6. PICK g : g = [i \in DOMAIN r |-> (IF r[i].from = u THEN r[i].cents ELSE 0)
                                       - (IF r[i].to = u THEN r[i].cents ELSE 0)]
  OBVIOUS
<1>7. \A x \in Transfers : Moved(x, u) \in Int
  BY DEF Moved, Transfers
<1>8. \A i \in 1..n : f[i] = Moved(s[i], u)
  BY <1>1, <1>5 DEF Moved
<1>9. \A i \in 1..n + 1 : g[i] = Moved(r[i], u)
  BY <1>3, <1>6 DEF Moved
<1>10. \A i \in 1..n : f[i] \in Int /\ g[i] = f[i]
  <2>1. \A i \in 1..n : i \in 1..n + 1
    BY <1>1
  <2>. QED
    BY <1>3, <1>4, <1>7, <1>8, <1>9, <2>1
<1>11. g[n + 1] = Moved(t, u) /\ Moved(t, u) \in Int
  <2>1. n + 1 \in 1..n + 1
    BY <1>1
  <2>. QED
    BY <1>3, <1>7, <1>9, <2>1
<1>12. SumFunctionOnSet(g, 1..n + 1) = SumFunctionOnSet(f, 1..n) + Moved(t, u)
       /\ SumFunctionOnSet(f, 1..n) \in Int
  BY <1>10, <1>11, SumOneMore
<1>13. FlowOf(s, u) = SumFunctionOnSet(f, 1..n)
  BY <1>1, <1>5 DEF FlowOf, SumFunction
<1>14. FlowOf(r, u) = SumFunctionOnSet(g, 1..n + 1)
  BY <1>3, <1>6 DEF FlowOf, SumFunction
<1>. QED
  BY <1>2, <1>12, <1>13, <1>14

-----------------------------------------------------------------------------
(* One of the two lines: debtors, by what they owe, or creditors, by what  *)
(* they are owed.                                                          *)

Rows == [user : Users, cents : Nat]

\* s lists those who are owed something.  Of it, left is left; those before at
\* have got all of it, and the others have not.
Line(s, at, owed, left) ==
    /\ s \in Seq(Rows)
    /\ at \in 1..Len(s) + 1
    /\ \A i, j \in 1..Len(s) : i # j => s[i].user # s[j].user
    /\ \A i \in 1..Len(s) : owed[s[i].user] > 0
    /\ \A u \in Users : owed[u] > 0 => \E i \in 1..Len(s) : s[i].user = u
    /\ \A i \in 1..Len(s) : s[i].cents = left[s[i].user] /\ s[i].cents <= owed[s[i].user]
    /\ \A i \in 1..Len(s) : i < at <=> s[i].cents = 0

LEMMA RankedStarts ==
    ASSUME NEW owed \in [Users -> Int]
    PROVE  Line(Ranked(owed), 1, owed, owed)
<1>. DEFINE who == {v \in Users : owed[v] > 0}
            rows == {[user |-> u, cents |-> owed[u]] : u \in who}
            Order == {p \in rows \X rows : Before(p[1], p[2])}
<1>1. IsFiniteSet(rows)
  <2>1. IsFiniteSet(who)
    BY UsersAssumption, FS_Subset
  <2>. HIDE DEF who
  <2>. QED
    BY <2>1, RowsAreFinite
<1>2. \A x \in rows : x \in Rows /\ x.user \in who /\ x.cents = owed[x.user]
  BY DEF Rows
<1>3. \A x, y \in rows : x.user = y.user => x = y
  OBVIOUS
<1>4. Orders(Order, rows)
  <2>1. \A x, y \in rows : <<x, y>> \in Order <=> Before(x, y)
    OBVIOUS
  <2>2. \A x \in rows : x.user \in Int /\ x.cents \in Int
    BY <1>2, UsersAssumption
  <2>. HIDE DEF rows, Order
  <2>3. ASSUME NEW x \in rows, NEW y \in rows, x # y
        PROVE  Before(x, y) \/ Before(y, x)
    <3>1. x.user # y.user
      BY <1>3, <2>3
    <3>. QED
      BY <2>2, <3>1 DEF Before
  <2>4. ASSUME NEW x \in rows, NEW y \in rows
        PROVE  ~(Before(x, y) /\ Before(y, x))
    BY <2>2 DEF Before
  <2>5. ASSUME NEW x \in rows, NEW y \in rows, NEW z \in rows, Before(x, y), Before(y, z)
        PROVE  Before(x, z)
    BY <2>2, <2>5 DEF Before
  <2>. QED
    BY <2>1, <2>3, <2>4, <2>5 DEF Orders
<1>5. PICK N \in Nat : N = Cardinality(rows)
  BY <1>1, FS_CardinalityType
<1>6. \E f \in [1..N -> rows] : \A i, j \in 1..N : i < j => Before(f[i], f[j])
  <2>1. \A x, y \in rows : <<x, y>> \in Order => Before(x, y)
    OBVIOUS
  <2>2. PICK f \in [1..N -> rows] : \A i, j \in 1..N : i < j => <<f[i], f[j]>> \in Order
    <3>. HIDE DEF rows, Order
    <3>. QED
      BY <1>1, <1>4, <1>5, Listed
  <2>3. \A i \in 1..N : f[i] \in rows
    OBVIOUS
  <2>. HIDE DEF rows, Order
  <2>. QED
    BY <2>1, <2>2, <2>3
<1>. DEFINE Sorted(s) == \A i, j \in DOMAIN s : i < j => Before(s[i], s[j])
            lists == {f \in [1..N -> rows] : \A i, j \in 1..N : i # j => f[i] # f[j]}
<1>7. \E s \in lists : Sorted(s)
  <2>1. PICK f \in [1..N -> rows] : \A i, j \in 1..N : i < j => Before(f[i], f[j])
    BY <1>6
  <2>2. \A x \in rows : x.user \in Int /\ x.cents \in Int
    BY <1>2, UsersAssumption
  <2>3. ASSUME NEW i \in 1..N, NEW j \in 1..N, i # j
        PROVE  f[i] # f[j]
    <3>1. i < j \/ j < i
      BY <2>3
    <3>2. Before(f[i], f[j]) \/ Before(f[j], f[i])
      BY <2>1, <3>1
    <3>3. f[i] \in rows
      OBVIOUS
    <3>4. ~Before(f[i], f[i])
      <4>. HIDE DEF rows
      <4>. QED
        BY <2>2, <3>3 DEF Before
    <3>. QED
      BY <3>2, <3>4
  <2>4. DOMAIN f = 1..N
    OBVIOUS
  <2>. HIDE DEF rows
  <2>. QED
    BY <2>1, <2>3, <2>4
<1>8. SetToSeqs(rows) = lists
  <2>. HIDE DEF rows
  <2>. QED
    BY <1>5 DEF SetToSeqs
<1>9. PICK s : s = Ranked(owed)
  OBVIOUS
<1>10. s \in lists
  <2>1. s = CHOOSE r \in SetToSeqs(rows) : Sorted(r)
    BY <1>9 DEF Ranked, RankedOf
  <2>. HIDE DEF lists, Sorted, rows
  <2>. QED
    BY <1>7, <1>8, <2>1
<1>11. s \in [1..N -> rows] /\ \A i, j \in 1..N : i # j => s[i] # s[j]
  BY <1>10
<1>12. \A i \in 1..N : s[i] \in rows
  BY <1>11
<1>13. s \in Seq(Rows) /\ Len(s) = N
  <2>1. \A i \in 1..N : s[i] \in Rows
    BY <1>2, <1>12
  <2>2. s \in [1..N -> Rows]
    BY <1>11, <2>1
  <2>. HIDE DEF rows
  <2>. QED
    BY <2>2
<1>14. \A x \in rows : \E i \in 1..N : s[i] = x
  <2>. HIDE DEF rows
  <2>. QED
    BY <1>1, <1>5, <1>11, ListedAll
<1>15. ASSUME NEW u \in Users, owed[u] > 0
       PROVE  \E i \in 1..N : s[i].user = u
  <2>1. PICK x \in rows : x.user = u
    <3>1. [user |-> u, cents |-> owed[u]] \in rows
      BY <1>15
    <3>2. [user |-> u, cents |-> owed[u]].user = u
      OBVIOUS
    <3>. HIDE DEF rows
    <3>. QED
      BY <3>1, <3>2
  <2>. HIDE DEF rows
  <2>. QED
    BY <1>14, <2>1
<1>16. ASSUME NEW i \in 1..N, NEW j \in 1..N, i # j
       PROVE  s[i].user # s[j].user
  <2>1. s[i] # s[j] /\ s[i] \in rows /\ s[j] \in rows
    BY <1>11, <1>12, <1>16
  <2>. HIDE DEF rows
  <2>. QED
    BY <1>3, <2>1
<1>17. ASSUME NEW i \in 1..N
       PROVE  /\ owed[s[i].user] \in Int /\ owed[s[i].user] > 0
              /\ s[i].cents = owed[s[i].user]
  <2>1. s[i].user \in who /\ s[i].cents = owed[s[i].user]
    <3>1. s[i] \in rows
      BY <1>12
    <3>. HIDE DEF rows, who
    <3>. QED
      BY <1>2, <3>1
  <2>. QED
    BY <2>1
<1>18. \A i \in 1..N : i < 1 <=> s[i].cents = 0
  BY <1>5, <1>17
<1>19. \A i \in 1..N : s[i].cents <= owed[s[i].user]
  BY <1>17
<1>. HIDE DEF who, rows
<1>. QED
  BY <1>9, <1>13, <1>15, <1>16, <1>17, <1>18, <1>19 DEF Line

LEMMA ListIsSequence ==
    ASSUME NEW n \in Nat, NEW S, NEW f \in [1..n -> S]
    PROVE  f \in Seq(S) /\ Len(f) = n
  OBVIOUS

LEMMA SequenceIsList ==
    ASSUME NEW S, NEW f \in Seq(S)
    PROVE  Len(f) \in Nat /\ f \in [1..Len(f) -> S]
  OBVIOUS

Charged(s, at, c) == [s EXCEPT ![at].cents = c]

\* The one at the head of s gets a, so that t is the line, to the place in it
\* and next what is left.
Pays(s, at, owed, left, a, t, to, next) ==
    /\ owed \in [Users -> Int] /\ left \in [Users -> Int] /\ next \in [Users -> Int]
    /\ Line(s, at, owed, left) /\ at <= Len(s)
    /\ a \in Nat /\ a <= s[at].cents
    /\ next[s[at].user] = left[s[at].user] - a
    /\ \A u \in Users : owed[u] > 0 /\ u # s[at].user => next[u] = left[u]
    /\ t = Charged(s, at, s[at].cents - a)
    /\ to = at + Step(s[at].cents - a)

LEMMA LineMoves ==
    ASSUME NEW s, NEW at, NEW owed, NEW left, NEW a, NEW t, NEW to, NEW next,
           Pays(s, at, owed, left, a, t, to, next)
    PROVE  Line(t, to, owed, next) /\ Len(t) = Len(s)
<1>. PICK d, x, c : d = s[at].user /\ x = s[at].cents /\ c = x - a
  OBVIOUS
<1>. /\ owed \in [Users -> Int] /\ left \in [Users -> Int] /\ next \in [Users -> Int]
     /\ Line(s, at, owed, left) /\ at <= Len(s)
     /\ a \in Nat /\ a <= x
     /\ next[d] = left[d] - a
     /\ \A u \in Users : owed[u] > 0 /\ u # d => next[u] = left[u]
     /\ t = Charged(s, at, c)
     /\ to = at + Step(c)
  BY DEF Pays
<1>. s \in Seq(Rows) /\ at \in 1..Len(s) + 1
  BY DEF Line
<1>1. PICK N \in Nat : N = Len(s) /\ s \in [1..N -> Rows]
  BY SequenceIsList
<1>2. at \in 1..N /\ s \in [1..N -> Rows]
  BY <1>1
<1>3. x \in Nat /\ c \in Nat
  <2>1. s[at] \in Rows
    BY <1>2
  <2>2. x \in Nat
    BY <2>1 DEF Rows
  <2>. QED
    BY <2>2
<1>4. PICK row \in Rows : row = [s[at] EXCEPT !.cents = c]
  BY <1>2, <1>3 DEF Rows
<1>5. row.user = s[at].user /\ row.cents = c
  BY <1>2, <1>3, <1>4 DEF Rows
<1>6. t = [s EXCEPT ![at] = row]
  BY <1>3, <1>4 DEF Charged
<1>7. t \in [1..N -> Rows] /\ t[at] = row /\ \A i \in 1..N : i # at => t[i] = s[i]
  BY <1>2, <1>6
<1>8. t \in Seq(Rows) /\ Len(t) = N
  BY <1>7, ListIsSequence
<1>9. \A i \in 1..N : t[i].user = s[i].user /\ s[i].user \in Users
  BY <1>2, <1>5, <1>7 DEF Rows
<1>10. to \in 1..N + 1
  BY <1>2, <1>3 DEF Step
<1>11. /\ \A i, j \in 1..N : i # j => t[i].user # t[j].user
       /\ \A i \in 1..N : owed[t[i].user] > 0
       /\ \A u \in Users : owed[u] > 0 => \E i \in 1..N : t[i].user = u
  <2>1. \A i, j \in 1..N : i # j => t[i].user # t[j].user
    BY <1>1, <1>9 DEF Line
  <2>2. \A i \in 1..N : owed[t[i].user] > 0
    BY <1>1, <1>9 DEF Line
  <2>3. \A u \in Users : owed[u] > 0 => \E i \in 1..N : t[i].user = u
    BY <1>1, <1>9 DEF Line
  <2>. QED
    BY <2>1, <2>2, <2>3
<1>12. ASSUME NEW i \in 1..N
       PROVE  t[i].cents = next[t[i].user] /\ t[i].cents <= owed[t[i].user]
  <2>. DEFINE u == s[i].user
  <2>1. u \in Users /\ left[u] \in Int /\ owed[u] \in Int /\ owed[u] > 0
    BY <1>1, <1>9 DEF Line
  <2>2. s[i].cents = left[u] /\ s[i].cents <= owed[u]
    BY <1>1 DEF Line
  <2>3. CASE i = at
    <3>1. next[u] = left[u] - a
      BY <2>1, <2>3
    <3>2. t[i].cents = c
      BY <1>5, <1>7, <2>3
    <3>3. c = left[u] - a
      BY <1>3, <2>2, <2>3
    <3>. HIDE DEF u
    <3>4. c <= owed[u]
      BY <1>3, <2>1, <2>2, <3>3
    <3>. QED
      BY <1>9, <3>1, <3>2, <3>3, <3>4 DEF u
  <2>4. CASE i # at
    <3>1. u # s[at].user
      BY <1>1, <1>2, <2>4 DEF Line
    <3>3. next[u] = left[u]
      BY <2>1, <3>1
    <3>4. t[i].cents = s[i].cents
      BY <1>7, <2>4
    <3>. QED
      BY <1>9, <2>2, <3>3, <3>4
  <2>. QED
    BY <2>3, <2>4
<1>13. ASSUME NEW i \in 1..N
       PROVE  i < to <=> t[i].cents = 0
  <2>1. i < at <=> s[i].cents = 0
    BY <1>1 DEF Line
  <2>2. CASE i = at
    <3>1. t[i].cents = c
      BY <1>5, <1>7, <2>2
    <3>2. c = 0 => to = at + 1
      BY <1>10 DEF Step
    <3>3. c # 0 => to = at
      BY <1>2, <1>10 DEF Step
    <3>. QED
      BY <1>2, <2>2, <3>1, <3>2, <3>3
  <2>3. CASE i # at
    <3>1. i < to <=> i < at
      <4>1. to = at \/ to = at + 1
        BY <1>2, <1>10 DEF Step
      <4>. QED
        BY <1>2, <2>3, <4>1
    <3>. QED
      BY <1>7, <2>1, <2>3, <3>1
  <2>. QED
    BY <2>2, <2>3
<1>14. Line(t, to, owed, next)
  <2>1. \A i \in 1..N : /\ t[i].cents = next[t[i].user] /\ t[i].cents <= owed[t[i].user]
                        /\ i < to <=> t[i].cents = 0
    BY <1>12, <1>13
  <2>2. to \in 1..Len(t) + 1
    BY <1>8, <1>10
  <2>3. 1..Len(t) = 1..N
    BY <1>8
  <2>. QED
    BY <1>8, <1>11, <2>1, <2>2, <2>3 DEF Line
<1>. QED
  BY <1>1, <1>8, <1>14

\* Nobody in line has got more than they are owed, and if the line is at its
\* end, they have got all of it.
LEMMA LineIsFair ==
    ASSUME NEW owed, NEW left, NEW s, NEW at, Line(s, at, owed, left),
           NEW u \in Users, owed[u] \in Int, owed[u] > 0
    PROVE  left[u] \in 0..owed[u] /\ (at > Len(s) => left[u] = 0)
<1>1. PICK i \in 1..Len(s) : s[i].user = u
  BY DEF Line
<1>2. s[i] \in Rows
  BY DEF Line
<1>3. s[i].cents \in Nat /\ s[i].cents = left[u] /\ s[i].cents <= owed[u]
  BY <1>1, <1>2 DEF Line, Rows
<1>4. at > Len(s) => i < at
  BY DEF Line
<1>5. i < at => s[i].cents = 0
  BY DEF Line
<1>. QED
  BY <1>3, <1>4, <1>5

\* Everybody who is owed something is in line once.
LEMMA LineCounts ==
    ASSUME NEW owed, NEW left, NEW s, NEW at, Line(s, at, owed, left)
    PROVE  /\ IsFiniteSet({u \in Users : owed[u] > 0})
           /\ Cardinality({u \in Users : owed[u] > 0}) = Len(s)
<1>1. PICK S : S = {u \in Users : owed[u] > 0}
  OBVIOUS
<1>2. PICK n \in Nat : n = Len(s)
  BY DEF Line
<1>3. \A i \in 1..n : s[i] \in Rows
  BY <1>2 DEF Line
<1>4. PICK f : f = [i \in 1..n |-> s[i].user]
  OBVIOUS
<1>5. f \in [1..n -> S]
  <2>1. \A i \in 1..n : s[i].user \in S
    BY <1>1, <1>2, <1>3 DEF Line, Rows
  <2>. QED
    BY <1>4, <2>1
<1>6. \A i, j \in 1..n : i # j => f[i] # f[j]
  BY <1>2, <1>4 DEF Line
<1>7. \A x \in S : \E i \in 1..n : f[i] = x
  BY <1>1, <1>2, <1>4 DEF Line
<1>8. IsFiniteSet(S) /\ Cardinality(S) = n
  BY <1>5, <1>6, <1>7, ListCounts
<1>. QED
  BY <1>1, <1>2, <1>8

-----------------------------------------------------------------------------
(* The loop of suggest_settlement.                                         *)

\* What is left between a user and an even balance.
Left == [u \in Users |-> balances[u] + FlowOf(transfers, u)]

Minus(f) == [u \in Users |-> -f[u]]

LoopTypes ==
    /\ balances \in [Users -> Int]
    /\ transfers \in Seq(Transfers)
    /\ Left \in [Users -> Int]

LinesStand ==
    /\ Line(debtors, di, Minus(balances), Minus(Left))
    /\ Line(creditors, ci, balances, Left)

\* Whoever was even is, and together everybody is.
EvenTogether ==
    /\ \A u \in Users : balances[u] = 0 => Left[u] = 0
    /\ SumFunctionOnSet(Left, Users) = 0

\* Every transfer finishes with a debtor or with a creditor, and the last with
\* both.
FewTransfers ==
    /\ Len(transfers) <= (di - 1) + (ci - 1)
    /\ transfers # <<>> => Len(transfers) < Len(debtors) + Len(creditors)

LoopInv == LoopTypes /\ LinesStand /\ EvenTogether /\ FewTransfers

LEMMA MinusIs ==
    ASSUME NEW f \in [Users -> Int]
    PROVE  Minus(f) \in [Users -> Int] /\ \A u \in Users : Minus(f)[u] = -f[u]
  BY DEF Minus

LEMMA FlowIsFlowOf == \A u : Flow(u) = FlowOf(transfers, u)
  BY DEF Flow, FlowOf

\* At the start nothing is settled, and what is left is the balance.
LEMMA LinesStart ==
    ASSUME NEW b \in [Users -> Int]
    PROVE  /\ Line(Debtors(b), 1, Minus(b), Minus(b))
           /\ Line(Creditors(b), 1, b, b)
<1>1. PICK m : m = Minus(b)
  OBVIOUS
<1>2. m \in [Users -> Int] /\ Debtors(b) = Ranked(m) /\ Creditors(b) = Ranked(b)
  BY <1>1, MinusIs DEF Minus, Debtors, Creditors
<1>3. Line(Ranked(m), 1, m, m)
  BY <1>2, RankedStarts
<1>4. Line(Ranked(b), 1, b, b)
  BY RankedStarts
<1>. QED
  BY <1>1, <1>2, <1>3, <1>4

LEMMA NobodyInLine ==
    ASSUME NEW owed, NEW left, \A u \in Users : ~(owed[u] > 0)
    PROVE  Line(<<>>, 1, owed, left)
<1>0. PICK s : s = <<>>
  OBVIOUS
<1>1. s = <<>> /\ s \in Seq(Rows) /\ Len(s) = 0
  BY <1>0
<1>2. 1..Len(s) = {} /\ 1 \in 1..Len(s) + 1
  BY <1>1
<1>3. Line(s, 1, owed, left)
  BY <1>1, <1>2 DEF Line
<1>. QED
  BY <1>1, <1>3

LEMMA LoopContinues ==
    ASSUME LoopInv, Match
    PROVE  LoopInv'
<1>1. PICK b, l, D, C, i, j, ts :
          /\ b = balances /\ l = Left /\ D = debtors /\ C = creditors
          /\ i = di /\ j = ci /\ ts = transfers
  OBVIOUS
<1>2. b \in [Users -> Int] /\ l \in [Users -> Int] /\ ts \in Seq(Transfers)
  BY <1>1 DEF LoopInv, LoopTypes
<1>3. Line(D, i, Minus(b), Minus(l)) /\ Line(C, j, b, l)
  BY <1>1 DEF LoopInv, LinesStand
<1>4. D \in Seq(Rows) /\ C \in Seq(Rows) /\ i \in 1..Len(D) + 1 /\ j \in 1..Len(C) + 1
  BY <1>3 DEF Line
<1>5. i \in 1..Len(D) /\ j \in 1..Len(C)
  BY <1>1, <1>4 DEF Match, Finished
<1>6. D[i] \in Rows /\ C[j] \in Rows
  BY <1>4, <1>5
<1>7. PICK d \in Users, c \in Users, x \in Nat, y \in Nat :
          D[i].user = d /\ D[i].cents = x /\ C[j].user = c /\ C[j].cents = y
  BY <1>6 DEF Rows
<1>8. x > 0 /\ y > 0
  <2>1. ~(i < i) /\ ~(j < j)
    BY <1>5
  <2>2. x # 0 /\ y # 0
    BY <1>3, <1>5, <1>7, <2>1 DEF Line
  <2>. QED
    BY <2>2
<1>9. PICK a \in Nat \ {0} : a = Due(x, y) /\ a <= x /\ a <= y /\ (a = x \/ a = y)
  BY <1>8 DEF Due, Lesser
<1>10. PICK t \in Transfers : t = [from |-> d, to |-> c, cents |-> a]
  BY DEF Transfers
<1>11. /\ transfers' = Append(ts, t)
       /\ debtors' = [D EXCEPT ![i].cents = x - a]
       /\ creditors' = [C EXCEPT ![j].cents = y - a]
       /\ di' = i + Step(x - a)
       /\ ci' = j + Step(y - a)
       /\ balances' = b
  BY <1>1, <1>7, <1>9, <1>10 DEF Match
<1>12. d # c
  <2>1. Minus(b)[d] > 0 /\ b[c] > 0
    BY <1>3, <1>5, <1>7 DEF Line
  <2>2. b[d] \in Int /\ b[c] \in Int /\ Minus(b)[d] = -b[d]
    BY <1>2 DEF Minus
  <2>. QED
    BY <2>1, <2>2
<1>13. /\ Moved(t, d) = a /\ Moved(t, c) = -a
       /\ \A u \in Users : u # d /\ u # c => Moved(t, u) = 0
  <2>1. t.from = d /\ t.to = c /\ t.cents = a
    BY <1>10
  <2>. QED
    BY <1>12, <2>1 DEF Moved
<1>14. PICK m : m = [l EXCEPT ![d] = l[d] + a]
  OBVIOUS
<1>15. PICK k : k = [m EXCEPT ![c] = m[c] - a]
  OBVIOUS
<1>16. /\ m \in [Users -> Int] /\ k \in [Users -> Int]
       /\ k[d] = l[d] + a /\ k[c] = l[c] - a
       /\ \A u \in Users : u # d /\ u # c => k[u] = l[u]
  BY <1>2, <1>12, <1>14, <1>15
<1>17. Left' = k
  <2>1. Left' = [u \in Users |-> b[u] + FlowOf(Append(ts, t), u)]
    BY <1>11 DEF Left
  <2>2. l = [u \in Users |-> b[u] + FlowOf(ts, u)]
    BY <1>1 DEF Left
  <2>3. ASSUME NEW u \in Users
        PROVE  b[u] + FlowOf(Append(ts, t), u) = k[u]
    <3>1. PICK f \in Int, g \in Int : f = FlowOf(ts, u) /\ g = FlowOf(Append(ts, t), u) /\ g = f + Moved(t, u)
      <4>1. FlowOf(ts, u) \in Int /\ FlowOf(Append(ts, t), u) = FlowOf(ts, u) + Moved(t, u)
        BY <1>2, FlowOfMore
      <4>2. Moved(t, u) \in Int
        BY DEF Moved, Transfers
      <4>. QED
        BY <4>1, <4>2
    <3>2. b[u] \in Int /\ l[u] = b[u] + f
      BY <1>2, <2>2, <3>1
    <3>3. CASE u = d
      BY <1>13, <1>16, <3>1, <3>2, <3>3
    <3>4. CASE u = c
      BY <1>13, <1>16, <3>1, <3>2, <3>4
    <3>5. CASE u # d /\ u # c
      BY <1>13, <1>16, <3>1, <3>2, <3>5
    <3>. QED
      BY <3>3, <3>4, <3>5
  <2>4. k = [u \in Users |-> k[u]]
    BY <1>16
  <2>. QED
    BY <2>1, <2>3, <2>4
<1>18. /\ Line(debtors', di', Minus(b), Minus(k))
       /\ Len(debtors') = Len(D)
  <2>1. PICK e, n, p : e = Minus(b) /\ n = Minus(l) /\ p = Minus(k)
    OBVIOUS
  <2>2. /\ e \in [Users -> Int] /\ n \in [Users -> Int] /\ p \in [Users -> Int]
        /\ \A u \in Users : n[u] = -l[u] /\ p[u] = -k[u]
    BY <1>2, <1>16, <2>1, MinusIs
  <2>3. ASSUME NEW u \in Users, e[u] > 0, u # d
        PROVE  p[u] = n[u]
    <3>1. u # c
      <4>1. b[c] \in Int /\ b[c] > 0
        BY <1>2, <1>3, <1>5, <1>7 DEF Line
      <4>2. e[c] = -b[c]
        BY <2>1 DEF Minus
      <4>. QED
        BY <2>3, <4>1, <4>2
    <3>. QED
      BY <1>16, <2>2, <2>3, <3>1
  <2>4. p[d] = n[d] - a
    <3>1. l[d] \in Int /\ k[d] = l[d] + a /\ n[d] = -l[d] /\ p[d] = -k[d]
      BY <1>2, <1>16, <2>2
    <3>. QED
      BY <3>1
  <2>5. PICK r, at, z : r = Charged(D, i, z) /\ z = x - a /\ at = i + Step(z)
    OBVIOUS
  <2>6. Line(r, at, e, p) /\ Len(r) = Len(D)
    <3>1. Line(D, i, e, n)
      BY <1>3, <2>1
    <3>2. i <= Len(D) /\ a \in Nat /\ a <= x /\ d = D[i].user /\ x = D[i].cents
      BY <1>5, <1>7, <1>9
    <3>3. Pays(D, i, e, n, a, r, at, p)
      BY <2>2, <2>3, <2>4, <2>5, <3>1, <3>2 DEF Pays
    <3>. QED
      BY <3>3, LineMoves
  <2>7. debtors' = r /\ di' = at
    BY <1>11, <2>5 DEF Charged
  <2>. QED
    BY <2>1, <2>6, <2>7
<1>19. /\ Line(creditors', ci', b, k)
       /\ Len(creditors') = Len(C)
  <2>1. ASSUME NEW u \in Users, b[u] > 0, u # c
        PROVE  k[u] = l[u]
    <3>1. u # d
      <4>1. b[d] \in Int /\ Minus(b)[d] > 0 /\ Minus(b)[d] = -b[d]
        BY <1>2, <1>3, <1>5, <1>7 DEF Line, Minus
      <4>. QED
        BY <2>1, <4>1
    <3>. QED
      BY <1>16, <2>1, <3>1
  <2>2. PICK r, at, z : r = Charged(C, j, z) /\ z = y - a /\ at = j + Step(z)
    OBVIOUS
  <2>3. Line(r, at, b, k) /\ Len(r) = Len(C)
    <3>1. Line(C, j, b, l)
      BY <1>3
    <3>2. j <= Len(C) /\ a \in Nat /\ a <= y /\ c = C[j].user /\ y = C[j].cents
      BY <1>5, <1>7, <1>9
    <3>3. k[c] = l[c] - a
      BY <1>16
    <3>4. Pays(C, j, b, l, a, r, at, k)
      BY <1>2, <1>16, <2>1, <2>2, <3>1, <3>2, <3>3 DEF Pays
    <3>. QED
      BY <3>4, LineMoves
  <2>4. creditors' = r /\ ci' = at
    BY <1>11, <2>2 DEF Charged
  <2>. QED
    BY <2>3, <2>4
<1>20. LoopTypes'
  <2>1. Append(ts, t) \in Seq(Transfers)
    BY <1>2
  <2>. QED
    BY <1>2, <1>11, <1>16, <1>17, <2>1 DEF LoopTypes
<1>21. LinesStand'
  <2>1. Minus(balances)' = Minus(b) /\ Minus(Left)' = Minus(k)
    BY <1>11, <1>17 DEF Minus
  <2>. QED
    BY <1>11, <1>17, <1>18, <1>19, <2>1 DEF LinesStand
<1>22. EvenTogether'
  <2>1. b[d] # 0 /\ b[c] # 0
    <3>1. b[d] \in Int /\ Minus(b)[d] > 0 /\ Minus(b)[d] = -b[d]
      BY <1>2, <1>3, <1>5, <1>7 DEF Line, Minus
    <3>2. b[c] \in Int /\ b[c] > 0
      BY <1>2, <1>3, <1>5, <1>7 DEF Line
    <3>. QED
      BY <3>1, <3>2
  <2>2. \A u \in Users : b[u] = 0 => k[u] = 0
    <3>1. \A u \in Users : b[u] = 0 => l[u] = 0
      BY <1>1 DEF LoopInv, EvenTogether
    <3>. QED
      BY <1>16, <2>1, <3>1
  <2>3. SumFunctionOnSet(k, Users) = 0
    <3>0. IsFiniteSet(Users)
      BY UsersAssumption
    <3>1. SumFunctionOnSet(l, Users) = 0
      BY <1>1 DEF LoopInv, EvenTogether
    <3>2. SumFunctionOnSet(m, Users) = SumFunctionOnSet(l, Users) + (m[d] - l[d])
      <4>1. \A u \in Users : l[u] \in Int /\ m[u] \in Int
        BY <1>2, <1>16
      <4>2. \A u \in Users \ {d} : m[u] = l[u]
        BY <1>2, <1>14
      <4>. QED
        BY <4>1, <4>2, <3>0, SumChange
    <3>3. SumFunctionOnSet(k, Users) = SumFunctionOnSet(m, Users) + (k[c] - m[c])
      <4>1. \A u \in Users : m[u] \in Int /\ k[u] \in Int
        BY <1>16
      <4>2. \A u \in Users \ {c} : k[u] = m[u]
        BY <1>15, <1>16
      <4>. QED
        BY <4>1, <4>2, <3>0, SumChange
    <3>4. m[d] - l[d] = a /\ k[c] - m[c] = -a
      <4>1. m[d] = l[d] + a /\ k[c] = m[c] - a
        BY <1>2, <1>14, <1>15, <1>16
      <4>2. l[d] \in Int /\ m[c] \in Int
        BY <1>2, <1>16
      <4>. QED
        BY <4>1, <4>2
    <3>5. SumFunctionOnSet(m, Users) = a
      BY <3>1, <3>2, <3>4
    <3>. QED
      BY <3>3, <3>4, <3>5
  <2>. QED
    BY <1>11, <1>17, <2>2, <2>3 DEF EvenTogether
<1>23. FewTransfers'
  <2>1. PICK n \in Nat : n = Len(ts)
    BY <1>2
  <2>2. n <= (i - 1) + (j - 1)
    BY <1>1, <2>1 DEF LoopInv, FewTransfers
  <2>3. Len(Append(ts, t)) = n + 1
    BY <1>2, <2>1
  <2>4. Len(transfers') <= (di' - 1) + (ci' - 1)
    <3>1. PICK v \in 0..1, w \in 0..1 : v = Step(x - a) /\ w = Step(y - a) /\ (v = 1 \/ w = 1)
      BY <1>7, <1>9 DEF Step
    <3>2. n + 1 <= (i + v - 1) + (j + w - 1)
      BY <1>4, <2>1, <2>2, <3>1
    <3>3. di' = i + v /\ ci' = j + w /\ Len(transfers') = n + 1
      BY <1>11, <2>3, <3>1
    <3>. QED
      BY <1>5, <2>1, <3>2, <3>3
  <2>5. n + 1 < Len(D) + Len(C)
    BY <1>4, <1>5, <2>1, <2>2
  <2>. QED
    BY <1>11, <1>18, <1>19, <2>3, <2>4, <2>5 DEF FewTransfers
<1>. QED
  BY <1>20, <1>21, <1>22, <1>23 DEF LoopInv

\* What is left is between nothing and the balance.
LEMMA LeftIsBetween ==
    ASSUME LoopInv, NEW u \in Users
    PROVE  /\ balances[u] \in Int /\ Flow(u) \in Int /\ Left[u] = balances[u] + Flow(u)
           /\ balances[u] < 0 => -Left[u] \in 0..(-balances[u])
           /\ balances[u] > 0 => Left[u] \in 0..balances[u]
           /\ balances[u] = 0 => Left[u] = 0
           /\ di > Len(debtors) /\ balances[u] < 0 => Left[u] = 0
           /\ ci > Len(creditors) /\ balances[u] > 0 => Left[u] = 0
<1>1. PICK b, l : b = balances /\ l = Left
  OBVIOUS
<1>2. b \in [Users -> Int] /\ l \in [Users -> Int] /\ transfers \in Seq(Transfers)
  BY <1>1 DEF LoopInv, LoopTypes
<1>3. l[u] = b[u] + Flow(u) /\ Flow(u) \in Int
  <2>1. PICK t : t = [from |-> u, to |-> u, cents |-> 1]
    OBVIOUS
  <2>2. t \in Transfers
    BY <2>1 DEF Transfers
  <2>3. FlowOf(transfers, u) \in Int
    BY <1>2, <2>2, FlowOfMore
  <2>4. FlowOf(transfers, u) = Flow(u)
    BY FlowIsFlowOf
  <2>. QED
    BY <1>1, <2>3, <2>4 DEF Left
<1>4. b[u] > 0 => l[u] \in 0..b[u] /\ (ci > Len(creditors) => l[u] = 0)
  <2>1. Line(creditors, ci, b, l)
    BY <1>1 DEF LoopInv, LinesStand
  <2>. QED
    BY <1>2, <2>1, LineIsFair
<1>5. b[u] < 0 => -l[u] \in 0..(-b[u]) /\ (di > Len(debtors) => l[u] = 0)
  <2>. SUFFICES ASSUME b[u] < 0
                PROVE  -l[u] \in 0..(-b[u]) /\ (di > Len(debtors) => l[u] = 0)
    OBVIOUS
  <2>1. PICK e, n : e = Minus(b) /\ n = Minus(l)
    OBVIOUS
  <2>2. e[u] = -b[u] /\ n[u] = -l[u] /\ e[u] \in Int /\ e[u] > 0
    BY <1>2, <2>1, MinusIs
  <2>3. Line(debtors, di, e, n)
    BY <1>1, <2>1 DEF LoopInv, LinesStand
  <2>4. n[u] \in 0..e[u] /\ (di > Len(debtors) => n[u] = 0)
    BY <2>2, <2>3, LineIsFair
  <2>5. l[u] \in Int
    BY <1>2
  <2>. QED
    BY <2>2, <2>4, <2>5
<1>6. b[u] = 0 => l[u] = 0
  BY <1>1 DEF LoopInv, EvenTogether
<1>. QED
  BY <1>1, <1>2, <1>3, <1>4, <1>5, <1>6

LEMMA LoopPaysTowardsZero == LoopInv => PaysTowardsZero
<1>. SUFFICES ASSUME LoopInv PROVE PaysTowardsZero
  OBVIOUS
<1>1. \A i \in DOMAIN transfers : transfers[i].cents > 0
  <2>1. PICK s \in Seq(Transfers) : s = transfers
    BY DEF LoopInv, LoopTypes
  <2>2. \A i \in DOMAIN s : s[i] \in Transfers
    OBVIOUS
  <2>. QED
    BY <2>1, <2>2 DEF Transfers
<1>2. ASSUME NEW u \in Users
      PROVE  /\ balances[u] <= 0 => Flow(u) \in 0..(-balances[u])
             /\ balances[u] >= 0 => Flow(u) \in (-balances[u])..0
  <2>1. PICK b \in Int, f \in Int, l \in Int : b = balances[u] /\ f = Flow(u) /\ l = Left[u] /\ l = b + f
    BY LeftIsBetween
  <2>2. b < 0 => -l \in 0..(-b)
    BY <2>1, LeftIsBetween
  <2>3. b > 0 => l \in 0..b
    BY <2>1, LeftIsBetween
  <2>4. b = 0 => l = 0
    BY <2>1, LeftIsBetween
  <2>5. CASE b < 0
    BY <2>1, <2>2, <2>5
  <2>6. CASE b > 0
    BY <2>1, <2>3, <2>6
  <2>7. CASE b = 0
    <3>1. f = 0
      BY <2>1, <2>4, <2>7
    <3>2. PICK m \in Int : m = -b /\ m = 0 - b
      BY <2>1
    <3>3. m = 0
      <4>1. m = 0 - b
        BY <3>2
      <4>. QED
        BY <2>7, <4>1
    <3>4. f \in 0..m /\ f \in m..0
      BY <3>1, <3>3
    <3>. QED
      BY <2>1, <3>2, <3>4
  <2>. QED
    BY <2>1, <2>5, <2>6, <2>7
<1>. QED
  BY <1>1, <1>2 DEF PaysTowardsZero

LEMMA LoopSettlesUp == LoopInv => SettlesUp
<1>. SUFFICES ASSUME LoopInv, Finished PROVE \A u \in Users : balances[u] + Flow(u) = 0
  BY DEF SettlesUp
<1>1. PICK l : l = Left
  OBVIOUS
<1>2. l \in [Users -> Int] /\ SumFunctionOnSet(l, Users) = 0
  BY <1>1 DEF LoopInv, LoopTypes, EvenTogether
<1>3. IsFiniteSet(Users)
  BY UsersAssumption
<1>4. CASE di > Len(debtors)
  <2>1. \A u \in Users : l[u] \in Nat
    <3>1. TAKE u \in Users
    <3>2. PICK b \in Int : b = balances[u]
      BY LeftIsBetween
    <3>3. b < 0 => l[u] = 0
      BY <1>1, <1>4, <3>2, LeftIsBetween
    <3>4. b = 0 => l[u] = 0
      BY <1>1, <3>2, LeftIsBetween
    <3>5. b > 0 => l[u] \in 0..b
      BY <1>1, <3>2, LeftIsBetween
    <3>. QED
      BY <3>3, <3>4, <3>5
  <2>2. \A u \in Users : l[u] <= 0
    BY <1>2, <1>3, <2>1, SumNotNegative
  <2>3. \A u \in Users : l[u] = 0
    BY <2>1, <2>2
  <2>. QED
    BY <1>1, <2>3, LeftIsBetween
<1>5. CASE ci > Len(creditors)
  <2>1. PICK n : n = Minus(l)
    OBVIOUS
  <2>2. n \in [Users -> Int] /\ \A u \in Users : n[u] = -l[u]
    BY <1>2, <2>1, MinusIs
  <2>3. \A u \in Users : n[u] \in Nat
    <3>1. TAKE u \in Users
    <3>2. PICK b \in Int : b = balances[u]
      BY LeftIsBetween
    <3>3. l[u] \in Int /\ n[u] = -l[u]
      BY <1>2, <2>2
    <3>4. b < 0 => -l[u] \in 0..(-b)
      BY <1>1, <3>2, LeftIsBetween
    <3>5. b >= 0 => l[u] = 0
      BY <1>1, <1>5, <3>2, LeftIsBetween
    <3>6. b < 0 => n[u] \in Nat
      BY <3>2, <3>3, <3>4
    <3>7. l[u] = 0 => n[u] = 0
      <4>1. n[u] = 0 - l[u]
        BY <3>3
      <4>. QED
        BY <4>1
    <3>. QED
      BY <3>2, <3>5, <3>6, <3>7
  <2>4. SumFunctionOnSet(n, Users) = 0
    <3>1. \A u \in Users : l[u] \in Int /\ n[u] = (-1) * l[u]
      BY <1>2, <2>2
    <3>2. SumFunctionOnSet(n, Users) = (-1) * SumFunctionOnSet(l, Users)
      BY <1>3, <3>1, SumScale
    <3>. QED
      BY <1>2, <3>2
  <2>5. \A u \in Users : n[u] <= 0
    BY <1>3, <2>3, <2>4, SumNotNegative
  <2>6. ASSUME NEW u \in Users
        PROVE  l[u] = 0
    <3>1. n[u] = 0
      BY <2>3, <2>5
    <3>2. l[u] = 0 - n[u]
      BY <1>2, <2>2
    <3>. QED
      BY <3>1, <3>2
  <2>. QED
    BY <1>1, <2>6, LeftIsBetween
<1>. QED
  BY <1>4, <1>5 DEF Finished

LEMMA LoopAtMostNMinusOne == LoopInv => AtMostNMinusOne
<1>. SUFFICES ASSUME LoopInv PROVE AtMostNMinusOne
  OBVIOUS
<1>1. PICK b, l : b = balances /\ l = Left
  OBVIOUS
<1>2. b \in [Users -> Int]
  BY <1>1 DEF LoopInv, LoopTypes
<1>3. PICK e, n : e = Minus(b) /\ n = Minus(l)
  OBVIOUS
<1>4. \A u \in Users : b[u] \in Int /\ e[u] = -b[u]
  BY <1>2, <1>3, MinusIs
<1>5. Line(debtors, di, e, n) /\ Line(creditors, ci, b, l)
  BY <1>1, <1>3 DEF LoopInv, LinesStand
<1>6. PICK D, C : D = {u \in Users : e[u] > 0} /\ C = {u \in Users : b[u] > 0}
  OBVIOUS
<1>7. /\ IsFiniteSet(D) /\ Cardinality(D) = Len(debtors)
      /\ IsFiniteSet(C) /\ Cardinality(C) = Len(creditors)
  BY <1>5, <1>6, LineCounts
<1>8. D \cup C = {u \in Users : b[u] # 0} /\ D \cap C = {}
  <2>1. ASSUME NEW u \in Users
        PROVE  (e[u] > 0 <=> b[u] < 0)
    BY <1>4
  <2>2. ASSUME NEW u \in Users
        PROVE  (b[u] # 0 <=> b[u] < 0 \/ b[u] > 0) /\ ~(b[u] < 0 /\ b[u] > 0)
    BY <1>4
  <2>. QED
    BY <1>6, <2>1, <2>2
<1>9. Cardinality(D \cup C) = Cardinality(D) + Cardinality(C)
  <2>1. Cardinality(D \cup C) = Cardinality(D) + Cardinality(C) - Cardinality(D \cap C)
    BY <1>7, FS_Union
  <2>2. Cardinality(D \cap C) = 0
    BY <1>8, FS_EmptySet
  <2>3. Cardinality(D) \in Nat /\ Cardinality(C) \in Nat
    BY <1>7, FS_CardinalityType
  <2>. QED
    BY <2>1, <2>2, <2>3
<1>10. Cardinality({u \in Users : balances[u] # 0}) = Len(debtors) + Len(creditors)
  BY <1>1, <1>7, <1>8, <1>9
<1>. QED
  BY <1>10 DEF AtMostNMinusOne, LoopInv, FewTransfers

-----------------------------------------------------------------------------
(* Rounding.                                                               *)

LEMMA Division ==
    ASSUME NEW a \in Nat, NEW t \in Nat \ {0}
    PROVE  \E q \in Int, r \in 0..t - 1 : q = a \div t /\ a = t * q + r
<1>1. PICK r \in Int : r = a % t
  OBVIOUS
<1>2. r \in 0..t - 1
  BY <1>1
<1>3. PICK q \in Int : q = a \div t
  OBVIOUS
<1>4. a = t * q + r
  BY <1>1, <1>3
<1>. QED
  BY <1>2, <1>3, <1>4

LEMMA NotNegative ==
    ASSUME NEW t \in Nat \ {0}, NEW r \in Int, t * r >= 0
    PROVE  r >= 0
  OBVIOUS

LEMMA NotMore ==
    ASSUME NEW t \in Nat \ {0}, NEW r \in Int, NEW n \in Nat, t * r <= (t - 1) * n
    PROVE  r <= n
<1>. SUFFICES ASSUME r > n PROVE FALSE
  OBVIOUS
<1>1. PICK k \in Nat : r = n + 1 + k
  <2>1. r - n - 1 \in Nat
    OBVIOUS
  <2>. QED
    BY <2>1
<1>2. t * r = t * n + t + t * k
  BY <1>1
<1>3. (t - 1) * n = t * n - n
  OBVIOUS
<1>4. t * k >= 0
  OBVIOUS
<1>. QED
  BY <1>2, <1>3, <1>4

\* What rounding down leaves over is no more than a cent for each.
LEMMA FloorsLeaveCents ==
    ASSUME NEW D, IsFiniteSet(D), NEW w \in [D -> Nat], NEW a \in Nat,
           NEW t \in Nat \ {0}, t = SumFunctionOnSet(w, D),
           NEW floor, floor = [u \in D |-> (a * w[u]) \div t]
    PROVE  /\ \A u \in D : floor[u] \in Int /\ t * floor[u] - a * w[u] \in (1 - t)..0
           /\ SumFunctionOnSet(floor, D) \in Int
           /\ a - SumFunctionOnSet(floor, D) \in 0..Cardinality(D)
<1>1. PICK lost : lost = [u \in D |-> a * w[u] - t * floor[u]]
  OBVIOUS
<1>2. ASSUME NEW u \in D
      PROVE  floor[u] \in Int /\ lost[u] \in 0..t - 1 /\ a * w[u] = t * floor[u] + lost[u]
  <2>1. PICK x \in Nat : x = a * w[u]
    OBVIOUS
  <2>2. PICK q \in Int, r \in 0..t - 1 : q = x \div t /\ x = t * q + r
    BY Division
  <2>3. floor[u] = q /\ lost[u] = x - t * q
    BY <1>1, <2>1, <2>2
  <2>4. PICK y \in Int : y = t * q
    OBVIOUS
  <2>5. lost[u] = r
    BY <2>2, <2>3, <2>4
  <2>. QED
    BY <2>1, <2>2, <2>3, <2>5
<1>3. ASSUME NEW u \in D
      PROVE  t * floor[u] - a * w[u] \in (1 - t)..0
  <2>1. PICK x \in Int, y \in Int : x = a * w[u] /\ y = t * floor[u]
    BY <1>2
  <2>2. PICK l \in 0..t - 1 : l = lost[u] /\ x = y + l
    BY <1>2, <2>1
  <2>. QED
    BY <2>1, <2>2
<1>4. PICK f \in Int, m \in Nat, n \in Nat :
          f = SumFunctionOnSet(floor, D) /\ m = SumFunctionOnSet(lost, D) /\ n = Cardinality(D)
  <2>1. SumFunctionOnSet(floor, D) \in Int
    BY <1>2, SumType
  <2>2. \A u \in D : lost[u] \in Nat
    BY <1>2
  <2>3. SumFunctionOnSet(lost, D) \in Nat
    BY <2>2, SumNotNegative
  <2>4. Cardinality(D) \in Nat
    BY FS_CardinalityType
  <2>. QED
    BY <2>1, <2>3, <2>4
<1>5. a * t = t * f + m
  <2>1. PICK whole, kept :
            whole = [u \in D |-> a * w[u]] /\ kept = [u \in D |-> t * floor[u]]
    OBVIOUS
  <2>2. \A u \in D : w[u] \in Int /\ whole[u] = a * w[u]
    BY <2>1
  <2>3. SumFunctionOnSet(whole, D) = a * t
    BY <2>2, SumScale
  <2>4. \A u \in D : floor[u] \in Int /\ kept[u] = t * floor[u]
    BY <1>2, <2>1
  <2>5. SumFunctionOnSet(kept, D) = t * f
    BY <1>4, <2>4, SumScale
  <2>6. \A u \in D : kept[u] \in Int /\ lost[u] \in Int /\ whole[u] = kept[u] + lost[u]
    BY <1>2, <2>2, <2>4
  <2>7. SumFunctionOnSet(whole, D) = SumFunctionOnSet(kept, D) + SumFunctionOnSet(lost, D)
    BY <2>6, SumPlus
  <2>. QED
    BY <1>4, <2>3, <2>5, <2>7
<1>6. m <= (t - 1) * n
  <2>1. PICK most : most = [u \in D |-> t - 1]
    OBVIOUS
  <2>2. \A u \in D : lost[u] \in Int /\ most[u] \in Int /\ lost[u] <= most[u]
    BY <1>2, <2>1
  <2>3. SumFunctionOnSet(lost, D) <= SumFunctionOnSet(most, D)
    BY <2>2, SumAtMost
  <2>4. PICK c \in Int : c = t - 1
    OBVIOUS
  <2>5. SumFunctionOnSet(most, D) = c * n
    BY <1>4, <2>1, <2>4, SumOfSame
  <2>. QED
    BY <1>4, <2>3, <2>4, <2>5
<1>7. t * (a - f) = m
  <2>1. t * (a - f) = a * t - t * f
    OBVIOUS
  <2>. QED
    BY <1>5, <2>1
<1>8. PICK r \in Int : r = a - f
  OBVIOUS
<1>9. r >= 0
  BY <1>7, <1>8, NotNegative
<1>10. r <= n
  BY <1>6, <1>7, <1>8, NotMore
<1>. QED
  BY <1>2, <1>3, <1>4, <1>8, <1>9, <1>10

-----------------------------------------------------------------------------
(* Weights.                                                                *)

LEMMA MaxOfTwo ==
    ASSUME NEW a \in Int, NEW b \in Int
    PROVE  Max({a, b}) = IF a >= b THEN a ELSE b
  BY DEF Max

LEMMA MinOfTwo ==
    ASSUME NEW a \in Int, NEW b \in Int
    PROVE  Min({a, b}) = IF a <= b THEN a ELSE b
  BY DEF Min

Ranges == [start : Int, end : Int]

\* An overlap is the number of the days in both.
LEMMA OverlapCounts ==
    ASSUME NEW r \in Ranges, NEW p \in Ranges
    PROVE  /\ Overlap(r, p) \in Nat
           /\ Overlap(r, p) = Cardinality((r.start..r.end) \cap (p.start..p.end))
<1>1. PICK a \in Int, b \in Int, c \in Int, d \in Int :
          r.start = a /\ r.end = b /\ p.start = c /\ p.end = d
  BY DEF Ranges
<1>2. PICK x \in Int, y \in Int : x = Max({a, c}) /\ y = Min({b, d})
  BY MaxOfTwo, MinOfTwo
<1>3. Overlap(r, p) = IF x <= y THEN y - x + 1 ELSE 0
  BY <1>1, <1>2 DEF Overlap
<1>4. (a..b) \cap (c..d) = x..y
  <2>1. x = (IF a >= c THEN a ELSE c) /\ y = IF b <= d THEN b ELSE d
    BY <1>2, MaxOfTwo, MinOfTwo
  <2>. QED
    BY <2>1
<1>5. Cardinality(x..y) = IF x > y THEN 0 ELSE y - x + 1
  BY FS_Interval
<1>6. Overlap(r, p) = Cardinality(x..y) /\ Overlap(r, p) \in Nat
  BY <1>3, <1>5
<1>. QED
  BY <1>1, <1>4, <1>6

\* Days of presence are counted, whatever the ranges.
LEMMA PresenceIsNatural ==
    ASSUME NEW ranges \in Seq(Ranges), NEW p \in Ranges
    PROVE  PresenceDays(ranges, p) \in Nat
<1>1. PICK f : f = [i \in DOMAIN ranges |-> Overlap(ranges[i], p)]
  OBVIOUS
<1>2. PICK n \in Nat : DOMAIN ranges = 1..n /\ \A i \in 1..n : ranges[i] \in Ranges
  OBVIOUS
<1>3. SumFunction(f) \in Int
  <2>1. \A i \in 1..n : f[i] \in Int
    <3>1. \A i \in 1..n : f[i] = Overlap(ranges[i], p)
      BY <1>1, <1>2
    <3>2. \A i \in 1..n : Overlap(ranges[i], p) \in Nat
      BY <1>2, OverlapCounts
    <3>. QED
      BY <3>1, <3>2
  <2>2. IsFiniteSet(1..n) /\ DOMAIN f = 1..n
    BY <1>1, <1>2, FS_Interval
  <2>. QED
    BY <2>1, <2>2, SumType DEF SumFunction
<1>4. PICK x \in Int : x = p.end - p.start + 1 - SumFunction(f)
  BY <1>3 DEF Ranges
<1>5. PresenceDays(ranges, p) = Max({0, x})
  BY <1>1, <1>4 DEF PresenceDays
<1>. QED
  BY <1>5, MaxOfTwo

\* What compute_shares divides by: weights of members that are not negative and
\* whose sum is not zero.
LEMMA WeightsAreSplittable ==
    ASSUME NEW q \in Requests, Splittable(q), NEW w, w = Weights(q)
    PROVE  /\ w \in [DOMAIN w -> Nat]
           /\ DOMAIN w \subseteq Users /\ IsFiniteSet(DOMAIN w)
           /\ SumFunction(w) \in Nat \ {0}
<1>1. PICK M : M = Members(q) /\ M \subseteq Users /\ M # {} /\ IsFiniteSet(M)
  <2>1. Members(q) \subseteq Users /\ Members(q) # {}
    BY RequestsAssumption DEF Splittable
  <2>2. IsFiniteSet(Members(q))
    BY <2>1, UsersAssumption, FS_Subset
  <2>. QED
    BY <2>1, <2>2
<1>2. PICK days : days = [u \in M |-> PresenceDays(q.away[u], q.period)]
  OBVIOUS
<1>3. \A u \in M : days[u] \in Nat
  <2>1. TAKE u \in M
  <2>2. q.away[u] \in Seq(Ranges) /\ q.period \in Ranges
    BY <1>1, RequestsAssumption DEF Ranges
  <2>. QED
    BY <1>2, <2>2, PresenceIsNatural
<1>4. CASE q.kind = "weighted"
  <2>1. w = q.config
    BY <1>4 DEF Weights
  <2>2. w \in [DOMAIN w -> Int] /\ IsFiniteSet(DOMAIN w)
    BY <2>1, RequestsAssumption
  <2>3. /\ \A u \in DOMAIN w : w[u] >= 0
        /\ SumFunction(w) > 0 /\ DOMAIN w \subseteq M
    BY <1>1, <1>4, <2>1 DEF Splittable
  <2>4. SumFunction(w) \in Int
    BY <2>2, SumType DEF SumFunction
  <2>5. w \in [DOMAIN w -> Nat]
    BY <2>2, <2>3
  <2>6. DOMAIN w \subseteq Users
    BY <1>1, <2>3
  <2>7. SumFunction(w) \in Nat \ {0}
    BY <2>3, <2>4
  <2>. QED
    BY <2>2, <2>5, <2>6, <2>7
<1>5. CASE q.kind = "equal_prorated" /\ q.period # NoPeriod /\ SumFunction(days) # 0
  <2>1. w = days
    BY <1>1, <1>2, <1>5 DEF Weights
  <2>2. DOMAIN w = M /\ w \in [M -> Nat]
    BY <1>2, <1>3, <2>1
  <2>3. SumFunction(w) \in Nat
    BY <1>1, <1>3, <2>1, <2>2, SumNotNegative DEF SumFunction
  <2>. QED
    BY <1>1, <1>5, <2>1, <2>2, <2>3
<1>6. CASE q.kind # "weighted"
           /\ ~(q.kind = "equal_prorated" /\ q.period # NoPeriod /\ SumFunction(days) # 0)
  <2>1. w = [u \in M |-> 1]
    BY <1>1, <1>2, <1>6 DEF Weights
  <2>2. DOMAIN w = M /\ w \in [M -> Nat] /\ \A u \in M : w[u] = 1
    BY <2>1
  <2>3. SumFunction(w) = Cardinality(M)
    BY <1>1, <2>2, SumOfOnes DEF SumFunction
  <2>4. Cardinality(M) \in Nat /\ Cardinality(M) # 0
    BY <1>1, FS_CardinalityType, FS_EmptySet
  <2>. QED
    BY <1>1, <2>2, <2>3, <2>4
<1>. QED
  BY <1>4, <1>5, <1>6

-----------------------------------------------------------------------------
(* Shares.                                                                 *)

\* A share is the weight's part of the amount rounded down, and a cent more for
\* the first so many, who are as many as cents are left over.
LEMMA SharesAre ==
    ASSUME NEW q \in Requests, Splittable(q), NEW w, w = Weights(q),
           NEW sh, sh = ComputeShares(q)
    PROVE  \E D, floor, r : 
              /\ D = DOMAIN w /\ D \subseteq Users /\ IsFiniteSet(D) /\ \A u \in D : u \in Int
              /\ r = q.amount - SumFunctionOnSet(floor, D) /\ r \in 0..Cardinality(D)
              /\ floor = [u \in D |-> (q.amount * w[u]) \div SumFunction(w)]
              /\ sh = [u \in D |-> floor[u] + IF Rank(u, D) < r THEN 1 ELSE 0]
              /\ SumFunctionOnSet(floor, D) \in Int
              /\ \A u \in D : /\ floor[u] \in Int
                              /\ SumFunction(w) * floor[u] - q.amount * w[u] \in (1 - SumFunction(w))..0
<1>1. PICK D, a, t :
          /\ a = q.amount /\ a \in Nat /\ t = SumFunction(w) /\ t \in Nat \ {0}
          /\ D = DOMAIN w /\ w \in [D -> Nat] /\ D \subseteq Users /\ IsFiniteSet(D)
  <2>1. q.amount \in Nat
    BY RequestsAssumption
  <2>. QED
    BY <2>1, WeightsAreSplittable
<1>2. PICK floor : floor = [u \in D |-> (a * w[u]) \div t]
  OBVIOUS
<1>3. PICK r : r = a - SumFunctionOnSet(floor, D)
  OBVIOUS
<1>4. t = SumFunctionOnSet(w, D)
  BY <1>1 DEF SumFunction
<1>5. /\ \A u \in D : floor[u] \in Int /\ t * floor[u] - a * w[u] \in (1 - t)..0
      /\ SumFunctionOnSet(floor, D) \in Int
      /\ r \in 0..Cardinality(D)
  BY <1>1, <1>2, <1>3, <1>4, FloorsLeaveCents
<1>6. \A u \in D : u \in Int
  BY <1>1, UsersAssumption
<1>7. sh = [u \in D |-> floor[u] + IF Rank(u, D) < r THEN 1 ELSE 0]
  <2>1. SumFunction(floor) = SumFunctionOnSet(floor, D)
    BY <1>2 DEF SumFunction
  <2>. QED
    BY <1>1, <1>2, <1>3, <2>1 DEF ComputeShares, Rank
<1>. QED
  BY <1>1, <1>2, <1>3, <1>5, <1>6, <1>7

\* No cent is lost or made up.
LEMMA SharesAddUp ==
    ASSUME NEW q \in Requests, Splittable(q), NEW sh, sh = ComputeShares(q)
    PROVE  /\ DOMAIN sh \subseteq Users
           /\ \A u \in DOMAIN sh : sh[u] \in Int
           /\ SumFunction(sh) = q.amount
<1>1. PICK w : w = Weights(q)
  OBVIOUS
<1>2. PICK D, floor, r :
         /\ D \subseteq Users /\ IsFiniteSet(D) /\ \A u \in D : u \in Int
         /\ r = q.amount - SumFunctionOnSet(floor, D) /\ r \in 0..Cardinality(D)
         /\ sh = [u \in D |-> floor[u] + IF Rank(u, D) < r THEN 1 ELSE 0]
         /\ SumFunctionOnSet(floor, D) \in Int
         /\ \A u \in D : floor[u] \in Int
  BY <1>1, SharesAre
<1>3. PICK more : more = [u \in D |-> IF Rank(u, D) < r THEN 1 ELSE 0]
  OBVIOUS
<1>4. SumFunctionOnSet(more, D) = r
  BY <1>2, <1>3, SumOfRanks
<1>5. \A u \in D : floor[u] \in Int /\ more[u] \in Int /\ sh[u] = floor[u] + more[u]
  BY <1>2, <1>3
<1>6. SumFunctionOnSet(sh, D) = SumFunctionOnSet(floor, D) + SumFunctionOnSet(more, D)
  BY <1>2, <1>5, SumPlus
<1>7. q.amount \in Int
  BY RequestsAssumption
<1>8. SumFunctionOnSet(sh, D) = q.amount
  BY <1>2, <1>4, <1>6, <1>7
<1>9. DOMAIN sh = D
  BY <1>2
<1>. QED
  BY <1>2, <1>5, <1>8, <1>9 DEF SumFunction

\* What the entries of an expense change.
LEMMA EntriesAreEven ==
    ASSUME NEW q \in Requests, Splittable(q), NEW sh, sh = ComputeShares(q),
           NEW entries, entries = Collapsed(q.payer, sh),
           NEW moved, moved = [u \in Users |-> IF u \in DOMAIN entries THEN entries[u] ELSE 0]
    PROVE  moved \in [Users -> Int] /\ SumFunctionOnSet(moved, Users) = 0
<1>1. PICK D, payer, a :
         /\ D = DOMAIN sh /\ D \subseteq Users /\ payer = q.payer /\ payer \in Users
         /\ a = SumFunction(sh) /\ a \in Int
         /\ \A u \in D : sh[u] \in Int
  <2>1. q.payer \in Users /\ q.amount \in Int
    BY RequestsAssumption
  <2>. QED
    BY <2>1, SharesAddUp
<1>2. PICK bears : bears = [u \in Users |-> IF u \in D THEN sh[u] ELSE 0]
  OBVIOUS
<1>3. bears \in [Users -> Int]
  BY <1>1, <1>2
<1>4. PICK paid : paid = [u \in Users |-> IF u = payer THEN a ELSE 0]
  OBVIOUS
<1>5. paid \in [Users -> Int]
  BY <1>1, <1>4
<1>6. \A u \in Users : moved[u] = paid[u] - bears[u]
  <2>. DEFINE own == IF payer \in D THEN sh[payer] ELSE 0
              net == [u \in D \cup {payer} |-> IF u = payer THEN a - own ELSE -sh[u]]
              touched == {u \in DOMAIN net : net[u] # 0}
              kept == IF touched = {} THEN {payer} ELSE touched
  <2>1. entries = [u \in kept |-> net[u]]
    BY <1>1 DEF Collapsed, SharesTotal, Restrict
  <2>2. DOMAIN entries = kept
    BY <2>1
  <2>3. \A u \in D \cup {payer} : net[u] = paid[u] - bears[u]
    <3>1. TAKE u \in D \cup {payer}
    <3>2. own = bears[payer]
      BY <1>1, <1>2
    <3>3. CASE u = payer
      BY <1>1, <1>4, <3>2, <3>3
    <3>4. CASE u # payer
      <4>1. net[u] = -sh[u] /\ paid[u] = 0 /\ bears[u] = sh[u] /\ sh[u] \in Int
        BY <1>1, <1>2, <1>4, <3>4
      <4>. QED
        BY <4>1
    <3>. QED
      BY <3>3, <3>4
  <2>4. \A u \in Users \ (D \cup {payer}) : paid[u] - bears[u] = 0
    BY <1>2, <1>4
  <2>5. ASSUME NEW u \in Users
        PROVE  moved[u] = paid[u] - bears[u]
    <3>1. CASE u \in kept
      <4>1. moved[u] = net[u] /\ u \in D \cup {payer}
        BY <2>1, <2>2, <3>1
      <4>. QED
        BY <2>3, <4>1
    <3>2. CASE u \notin kept
      <4>1. moved[u] = 0
        BY <2>2, <3>2
      <4>2. u \in D \cup {payer} => net[u] = 0
        BY <3>2
      <4>. HIDE DEF net, kept
      <4>3. paid[u] - bears[u] = 0
        BY <2>3, <2>4, <4>2
      <4>. QED
        BY <4>1, <4>3
    <3>. QED
      BY <3>1, <3>2
  <2>. QED
    BY <2>5
<1>7. moved \in [Users -> Int]
  <2>1. \A u \in Users : moved[u] \in Int
    BY <1>3, <1>5, <1>6
  <2>. QED
    BY <2>1
<1>8. IsFiniteSet(Users)
  BY UsersAssumption
<1>9. SumFunctionOnSet(bears, Users) = a
  <2>1. \A u \in D : bears[u] \in Int
    BY <1>1, <1>3
  <2>2. \A u \in Users \ D : bears[u] = 0
    BY <1>2
  <2>3. D \in SUBSET Users
    BY <1>1
  <2>4. SumFunctionOnSet(bears, Users) = SumFunctionOnSet(bears, D)
    BY <1>8, <2>1, <2>2, <2>3, SumOnSubset
  <2>5. IsFiniteSet(D)
    BY <1>8, <2>3, FS_Subset
  <2>6. \A u \in D : sh[u] \in Int /\ bears[u] = sh[u]
    BY <1>1, <1>2
  <2>7. SumFunctionOnSet(bears, D) = SumFunctionOnSet(sh, D)
    BY <2>5, <2>6, SumSame
  <2>8. a = SumFunctionOnSet(sh, D)
    BY <1>1 DEF SumFunction
  <2>. QED
    BY <2>4, <2>7, <2>8
<1>10. SumFunctionOnSet(paid, Users) = a
  <2>1. paid[payer] \in Int /\ paid[payer] = a
    BY <1>1, <1>4
  <2>2. \A u \in {payer} : paid[u] \in Int
    BY <2>1
  <2>3. \A u \in Users \ {payer} : paid[u] = 0
    BY <1>4
  <2>4. {payer} \in SUBSET Users
    BY <1>1
  <2>5. SumFunctionOnSet(paid, Users) = SumFunctionOnSet(paid, {payer})
    BY <1>8, <2>2, <2>3, <2>4, SumOnSubset
  <2>6. SumFunctionOnSet(paid, {payer}) = paid[payer]
    BY <2>1, SumOfOne
  <2>. QED
    BY <2>1, <2>5, <2>6
<1>11. SumFunctionOnSet(paid, Users) = SumFunctionOnSet(moved, Users) + SumFunctionOnSet(bears, Users)
  <2>1. \A u \in Users : moved[u] \in Int /\ bears[u] \in Int /\ paid[u] = moved[u] + bears[u]
    <3>1. TAKE u \in Users
    <3>2. moved[u] \in Int /\ bears[u] \in Int /\ paid[u] \in Int /\ moved[u] = paid[u] - bears[u]
      BY <1>3, <1>5, <1>6, <1>7
    <3>. QED
      BY <3>2
  <2>. QED
    BY <1>8, <2>1, SumPlus
<1>12. SumFunctionOnSet(moved, Users) \in Int
  <2>1. \A u \in Users : moved[u] \in Int
    BY <1>7
  <2>. QED
    BY <1>8, <2>1, SumType
<1>. QED
  BY <1>1, <1>7, <1>9, <1>10, <1>11, <1>12

-----------------------------------------------------------------------------
(* From an expense to the suggestion.                                      *)

\* The balances are even together, and shares are what compute_shares makes of
\* the last request.
SplitInv ==
    /\ cents \in [Users -> Int] /\ SumFunctionOnSet(cents, Users) = 0
    /\ phase = "open" => shares = NoShares
    /\ shares # NoShares =>
          request \in Requests /\ Splittable(request) /\ shares = ComputeShares(request)

LEMMA InitSettles == Init => SplitInv /\ LoopInv
<1>. SUFFICES ASSUME Init PROVE SplitInv /\ LoopInv
  OBVIOUS
<1>1. SplitInv
  <2>1. cents \in [Users -> Int] /\ SumFunction(cents) = 0
    BY OpeningsAssumption DEF Init
  <2>2. SumFunctionOnSet(cents, Users) = 0
    BY <2>1 DEF SumFunction
  <2>3. shares = NoShares
    BY DEF Init
  <2>. QED
    BY <2>1, <2>2, <2>3 DEF SplitInv
<1>2. PICK b \in [Users -> Int] : b = balances /\ \A u \in Users : b[u] = 0
  BY DEF Init
<1>3. transfers = <<>> /\ debtors = <<>> /\ creditors = <<>> /\ di = 1 /\ ci = 1
  BY DEF Init
<1>4. Left = b
  <2>1. Left = [u \in Users |-> b[u] + FlowOf(transfers, u)]
    BY <1>2 DEF Left
  <2>2. \A u \in Users : b[u] + FlowOf(transfers, u) = b[u]
    BY <1>2, <1>3, FlowOfNone
  <2>. QED
    BY <2>1, <2>2
<1>5. LoopTypes
  BY <1>2, <1>3, <1>4 DEF LoopTypes
<1>6. LinesStand
  <2>1. PICK m : m = Minus(b)
    OBVIOUS
  <2>2. \A u \in Users : m[u] = 0
    <3>1. TAKE u \in Users
    <3>2. b[u] \in Int /\ m[u] = -b[u]
      BY <2>1, MinusIs
    <3>3. m[u] = 0 - b[u]
      BY <3>2
    <3>. QED
      BY <1>2, <3>3
  <2>3. Line(<<>>, 1, m, m) /\ Line(<<>>, 1, b, b)
    <3>1. \A u \in Users : ~(m[u] > 0) /\ ~(b[u] > 0)
      BY <1>2, <2>2
    <3>. QED
      BY <3>1, NobodyInLine
  <2>. QED
    BY <1>2, <1>3, <1>4, <2>1, <2>3 DEF LinesStand
<1>7. EvenTogether
  <2>1. SumFunctionOnSet(b, Users) = 0
    BY <1>2, UsersAssumption, SumOfZeros
  <2>. QED
    BY <1>2, <1>4, <2>1 DEF EvenTogether
<1>8. FewTransfers
  BY <1>3 DEF FewTransfers
<1>. QED
  BY <1>1, <1>5, <1>6, <1>7, <1>8 DEF LoopInv

\* An expense leaves the house even.
LEMMA SpendSettles ==
    ASSUME SplitInv, NEW q \in Requests, Spend(q)
    PROVE  SplitInv'
<1>1. PICK b \in [Users -> Int] : b = cents /\ SumFunctionOnSet(b, Users) = 0
  BY DEF SplitInv
<1>2. PICK sh, entries : sh = ComputeShares(q) /\ entries = Collapsed(q.payer, sh)
  OBVIOUS
<1>3. PICK moved : moved = [u \in Users |-> IF u \in DOMAIN entries THEN entries[u] ELSE 0]
  OBVIOUS
<1>4. Splittable(q) /\ request' = q /\ shares' = sh /\ phase' = "split"
  BY <1>2 DEF Spend
<1>5. moved \in [Users -> Int] /\ SumFunctionOnSet(moved, Users) = 0
  BY <1>2, <1>3, <1>4, EntriesAreEven
<1>6. PICK next : next = [u \in Users |-> b[u] + moved[u]]
  OBVIOUS
<1>7. cents' = next
  BY <1>1, <1>2, <1>3, <1>6 DEF Spend
<1>8. next \in [Users -> Int]
  BY <1>5, <1>6
<1>9. SumFunctionOnSet(next, Users) = SumFunctionOnSet(b, Users) + SumFunctionOnSet(moved, Users)
  <2>1. \A u \in Users : b[u] \in Int /\ moved[u] \in Int /\ next[u] = b[u] + moved[u]
    BY <1>5, <1>6
  <2>. QED
    BY <2>1, UsersAssumption, SumPlus
<1>10. SumFunctionOnSet(next, Users) = 0
  BY <1>1, <1>5, <1>9
<1>. QED
  BY <1>2, <1>4, <1>7, <1>8, <1>10 DEF SplitInv

LEMMA SuggestSettles ==
    ASSUME SplitInv, Suggest
    PROVE  LoopInv'
<1>1. PICK b \in [Users -> Int] : b = cents /\ SumFunctionOnSet(b, Users) = 0
  BY DEF SplitInv
<1>2. /\ balances' = b /\ debtors' = Debtors(b) /\ creditors' = Creditors(b)
      /\ di' = 1 /\ ci' = 1 /\ transfers' = <<>>
  BY <1>1 DEF Suggest
<1>3. Left' = b
  <2>1. Left' = [u \in Users |-> b[u] + FlowOf(<<>>, u)]
    BY <1>2 DEF Left
  <2>2. \A u \in Users : b[u] + FlowOf(<<>>, u) = b[u]
    BY FlowOfNone
  <2>. QED
    BY <2>1, <2>2
<1>4. LoopTypes'
  BY <1>2, <1>3 DEF LoopTypes
<1>5. LinesStand'
  <2>1. Minus(balances)' = Minus(b) /\ Minus(Left)' = Minus(b)
    BY <1>2, <1>3 DEF Minus
  <2>2. Line(Debtors(b), 1, Minus(b), Minus(b)) /\ Line(Creditors(b), 1, b, b)
    BY LinesStart
  <2>. QED
    BY <1>2, <1>3, <2>1, <2>2 DEF LinesStand
<1>6. EvenTogether'
  BY <1>1, <1>2, <1>3 DEF EvenTogether
<1>7. FewTransfers'
  BY <1>2 DEF FewTransfers
<1>. QED
  BY <1>4, <1>5, <1>6, <1>7 DEF LoopInv

LEMMA UntouchedLoop ==
    ASSUME LoopInv, UNCHANGED <<balances, loop>>
    PROVE  LoopInv'
  BY DEF LoopInv, LoopTypes, LinesStand, EvenTogether, FewTransfers, Left, Minus, loop

LEMMA UntouchedSplit ==
    ASSUME SplitInv, UNCHANGED <<cents, phase, request, shares>>
    PROVE  SplitInv'
  BY DEF SplitInv

LEMMA NextSettles == SplitInv /\ LoopInv /\ [Next]_vars => SplitInv' /\ LoopInv'
<1>. SUFFICES ASSUME SplitInv, LoopInv, [Next]_vars PROVE SplitInv' /\ LoopInv'
  OBVIOUS
<1>1. ASSUME NEW q \in Requests, Spend(q) PROVE SplitInv' /\ LoopInv'
  <2>1. UNCHANGED <<balances, loop>>
    BY <1>1 DEF Spend
  <2>. QED
    BY <1>1, <2>1, SpendSettles, UntouchedLoop
<1>2. ASSUME NEW q \in Requests, RefuseSplit(q) PROVE SplitInv' /\ LoopInv'
  <2>1. UNCHANGED <<balances, loop>> /\ cents' = cents /\ shares' = shares
        /\ phase = "open" /\ phase' = "refused"
    BY <1>2 DEF RefuseSplit
  <2>2. SplitInv'
    BY <2>1 DEF SplitInv
  <2>. QED
    BY <2>1, <2>2, UntouchedLoop
<1>3. CASE Suggest
  <2>1. cents' = cents /\ request' = request /\ shares' = shares /\ phase' = "suggested"
    BY <1>3 DEF Suggest
  <2>2. SplitInv'
    BY <2>1 DEF SplitInv
  <2>. QED
    BY <1>3, <2>2, SuggestSettles
<1>4. CASE Match /\ UNCHANGED <<cents, phase, request, shares>>
  BY <1>4, LoopContinues, UntouchedSplit
<1>5. CASE UNCHANGED vars
  <2>1. UNCHANGED <<balances, loop>> /\ UNCHANGED <<cents, phase, request, shares>>
    BY <1>5 DEF vars
  <2>. QED
    BY <2>1, UntouchedLoop, UntouchedSplit
<1>. QED
  BY <1>1, <1>2, <1>3, <1>4, <1>5 DEF Next

\* What SplitInv and LoopInv say is so in every state.
THEOREM SettleUpInvariant == Spec => [](SplitInv /\ LoopInv)
<1>1. Init => SplitInv /\ LoopInv
  BY InitSettles
<1>2. SplitInv /\ LoopInv /\ [Next]_vars => (SplitInv /\ LoopInv)'
  BY NextSettles
<1>. QED
  BY <1>1, <1>2, PTL DEF Spec

\* The suggestion of GET /settlements/suggest asks nobody for more than they owe
\* and sends nobody more than they are owed, whatever the balances.
THEOREM TransfersPayTowardsZero == Spec => []PaysTowardsZero
  BY SettleUpInvariant, LoopPaysTowardsZero, PTL

\* At the end of the loop, by whichever of its two conditions it ends, the
\* transfers make every balance even.
THEOREM TransfersSettleUp == Spec => []SettlesUp
  BY SettleUpInvariant, LoopSettlesUp, PTL

\* The transfers are fewer than the users who are not even to begin with.
THEOREM TransfersAreFew == Spec => []AtMostNMinusOne
  BY SettleUpInvariant, LoopAtMostNMinusOne, PTL

\* The shares of compute_shares sum to the amount of the expense, and its
\* entries leave the house's balances summing to zero.
THEOREM NoCentIsLost == Spec => []SplitsExactly
<1>1. SplitInv => SplitsExactly
  <2>. SUFFICES ASSUME SplitInv PROVE SplitsExactly
    OBVIOUS
  <2>1. SumFunction(cents) = 0
    BY DEF SplitInv, SumFunction
  <2>2. ASSUME shares # NoShares
        PROVE  SumFunction(shares) = request.amount
    <3>1. PICK q, sh : q \in Requests /\ q = request /\ sh = shares /\ Splittable(q) /\ sh = ComputeShares(q)
      BY <2>2 DEF SplitInv
    <3>2. SumFunction(sh) = q.amount
      BY <3>1, SharesAddUp
    <3>. QED
      BY <3>1, <3>2
  <2>. QED
    BY <2>1, <2>2 DEF SplitsExactly
<1>. QED
  BY <1>1, SettleUpInvariant, PTL

-----------------------------------------------------------------------------
(* Fairness.                                                               *)

LEMMA DaysLeft ==
    ASSUME NEW a \in Int, NEW b \in Int, NEW k \in Nat, NEW m \in Nat, m <= k,
           k = IF a > b THEN 0 ELSE b - a + 1, NEW x \in Int, x = b - a + 1 - m,
           NEW y, y = IF 0 >= x THEN 0 ELSE x
    PROVE  y = k - m
<1>1. PICK l \in Int : l = b - a + 1
  OBVIOUS
<1>2. x = l - m /\ (a > b => l <= 0 /\ k = 0) /\ (~(a > b) => k = l)
  BY <1>1
<1>. QED
  BY <1>2

\* If RequestsApart, the days of presence are those of the calendar.
LEMMA PresenceCounts ==
    ASSUME NEW ranges \in Seq(Ranges), NEW p \in Ranges,
           \A i, j \in DOMAIN ranges :
               i # j => (ranges[i].start..ranges[i].end) \cap (ranges[j].start..ranges[j].end) = {}
    PROVE  PresenceDays(ranges, p)
             = Cardinality({d \in p.start..p.end :
                              \A i \in DOMAIN ranges : d \notin ranges[i].start..ranges[i].end})
<1>1. PICK n \in Nat : DOMAIN ranges = 1..n /\ \A i \in 1..n : ranges[i] \in Ranges
  OBVIOUS
<1>2. PICK P, a, b : P = a..b /\ a \in Int /\ b \in Int /\ a = p.start /\ b = p.end
  BY DEF Ranges
<1>3. IsFiniteSet(P) /\ Cardinality(P) = IF a > b THEN 0 ELSE b - a + 1
  BY <1>2, FS_Interval
<1>4. PICK part : part = [i \in 1..n |-> (ranges[i].start..ranges[i].end) \cap P]
  OBVIOUS
<1>5. PICK f : f = [i \in DOMAIN ranges |-> Overlap(ranges[i], p)]
  OBVIOUS
<1>6. \A i \in 1..n : part[i] \subseteq P /\ f[i] = Cardinality(part[i])
  <2>1. \A i \in 1..n : f[i] = Overlap(ranges[i], p)
    BY <1>1, <1>5
  <2>2. \A i \in 1..n : Overlap(ranges[i], p) = Cardinality((ranges[i].start..ranges[i].end) \cap P)
    BY <1>1, <1>2, OverlapCounts
  <2>. QED
    BY <1>4, <2>1, <2>2
<1>7. \A i, j \in 1..n : i # j => part[i] \cap part[j] = {}
  BY <1>1, <1>4
<1>8. PICK away : away = {d \in P : \E i \in 1..n : d \in part[i]}
  OBVIOUS
<1>9. SumFunctionOnSet(f, 1..n) = Cardinality(away)
  <2>1. IsFiniteSet(1..n)
    BY FS_Interval
  <2>2. SumFunctionOnSet(f, 1..n) = Cardinality({d \in P : \E i \in 1..n : d \in part[i]})
    <3>1. PICK S : S = 1..n
      OBVIOUS
    <3>2. IsFiniteSet(S) /\ IsFiniteSet(P)
      BY <1>3, <2>1, <3>1
    <3>3. \A i \in S : part[i] \subseteq P /\ f[i] = Cardinality(part[i])
      BY <1>6, <3>1
    <3>4. \A i, j \in S : i # j => part[i] \cap part[j] = {}
      BY <1>7, <3>1
    <3>5. SumFunctionOnSet(f, S) = Cardinality({d \in P : \E i \in S : d \in part[i]})
      BY <3>2, <3>3, <3>4, SumOfParts
    <3>. QED
      BY <3>1, <3>5
  <2>. QED
    BY <1>8, <2>2
<1>10. PICK here : here = {d \in P : \A i \in 1..n : d \notin ranges[i].start..ranges[i].end}
  OBVIOUS
<1>11. here = P \ away /\ away \subseteq P
  <2>1. \A d \in P : \A i \in 1..n : d \in part[i] <=> d \in ranges[i].start..ranges[i].end
    BY <1>4
  <2>. QED
    BY <1>8, <1>10, <2>1
<1>12. PICK m \in Nat, k \in Nat : m = Cardinality(away) /\ k = Cardinality(P) /\ m <= k
  <2>1. IsFiniteSet(away) /\ Cardinality(away) <= Cardinality(P)
    BY <1>3, <1>11, FS_Subset
  <2>. QED
    BY <1>3, <2>1, FS_CardinalityType
<1>13. Cardinality(here) = k - m
  <2>1. Cardinality(P \ away) = Cardinality(P) - Cardinality(P \cap away)
    BY <1>3, FS_Difference
  <2>2. P \cap away = away
    BY <1>11
  <2>. QED
    BY <1>11, <1>12, <2>1, <2>2
<1>14. SumFunction(f) = m
  BY <1>1, <1>5, <1>9, <1>12 DEF SumFunction
<1>15. PICK x \in Int : x = b - a + 1 - m
  BY <1>2
<1>16. PresenceDays(ranges, p) = Max({0, x})
  BY <1>2, <1>5, <1>14, <1>15 DEF PresenceDays
<1>17. Max({0, x}) = k - m
  <2>1. Max({0, x}) = IF 0 >= x THEN 0 ELSE x
    BY MaxOfTwo
  <2>2. k = IF a > b THEN 0 ELSE b - a + 1
    BY <1>3, <1>12
  <2>3. a \in Int /\ b \in Int
    BY <1>2
  <2>4. m <= k
    BY <1>12
  <2>. QED
    BY <1>15, <2>1, <2>2, <2>3, <2>4, DaysLeft
<1>. QED
  BY <1>1, <1>2, <1>10, <1>13, <1>16, <1>17

\* A claim, reckoned by the calendar, is the weight that compute_shares reckons
\* with.
LEMMA ClaimsAreWeights ==
    ASSUME RequestsApart, NEW q \in Requests, Splittable(q), NEW w, w = Weights(q),
           NEW u \in DOMAIN w
    PROVE  Claim(q, u) = w[u]
<1>1. PICK M : M = Members(q) /\ M \subseteq Users /\ IsFiniteSet(M)
  <2>1. Members(q) \subseteq Users
    BY RequestsAssumption
  <2>2. IsFiniteSet(Members(q))
    BY <2>1, UsersAssumption, FS_Subset
  <2>. QED
    BY <2>1, <2>2
<1>2. PICK days : days = [v \in M |-> PresenceDays(q.away[v], q.period)]
  OBVIOUS
<1>3. ASSUME NEW v \in M
      PROVE  days[v] = Cardinality(DaysPresent(q, v)) /\ days[v] \in Nat
  <2>1. q.away[v] \in Seq(Ranges) /\ q.period \in Ranges
    BY <1>1, RequestsAssumption DEF Ranges
  <2>2. \A i, j \in DOMAIN q.away[v] :
           i # j => (q.away[v][i].start..q.away[v][i].end)
                       \cap (q.away[v][j].start..q.away[v][j].end) = {}
    BY <1>1 DEF RequestsApart
  <2>3. PICK r, p : r = q.away[v] /\ p = q.period
    OBVIOUS
  <2>4. PresenceDays(r, p) = Cardinality({d \in p.start..p.end :
                                 \A i \in DOMAIN r : d \notin r[i].start..r[i].end})
    BY <2>1, <2>2, <2>3, PresenceCounts
  <2>5. PresenceDays(r, p) \in Nat
    BY <2>1, <2>3, PresenceIsNatural
  <2>. QED
    BY <1>2, <2>3, <2>4, <2>5 DEF DaysPresent
<1>4. SumFunction(days) # 0 <=> \E v \in M : DaysPresent(q, v) # {}
  <2>1. SumFunction(days) = SumFunctionOnSet(days, M)
    BY <1>2 DEF SumFunction
  <2>2. ASSUME NEW v \in M, DaysPresent(q, v) # {}
        PROVE  SumFunctionOnSet(days, M) # 0
    <3>1. days[v] # 0
      <4>1. IsFiniteSet(DaysPresent(q, v))
        <5>1. PICK P : P = q.period.start..q.period.end
          OBVIOUS
        <5>2. IsFiniteSet(P)
          <6>1. q.period.start \in Int /\ q.period.end \in Int
            BY RequestsAssumption
          <6>. QED
            BY <5>1, <6>1, FS_Interval
        <5>3. DaysPresent(q, v) \in SUBSET P
          BY <5>1 DEF DaysPresent
        <5>. QED
          BY <5>2, <5>3, FS_Subset
      <4>2. Cardinality(DaysPresent(q, v)) # 0
        BY <2>2, <4>1, FS_EmptySet
      <4>. QED
        BY <1>3, <4>2
    <3>2. \A x \in M : days[x] \in Nat
      BY <1>3
    <3>3. SumFunctionOnSet(days, M) \in Nat /\ days[v] <= SumFunctionOnSet(days, M)
      BY <1>1, <3>2, SumNotNegative
    <3>. QED
      BY <3>1, <3>2, <3>3
  <2>3. ASSUME \A v \in M : DaysPresent(q, v) = {}
        PROVE  SumFunctionOnSet(days, M) = 0
    <3>1. \A v \in M : days[v] = 0
      <4>1. Cardinality({}) = 0
        BY FS_EmptySet
      <4>. QED
        BY <1>3, <2>3, <4>1
    <3>. QED
      BY <1>1, <3>1, SumOfZeros
  <2>. QED
    BY <2>1, <2>2, <2>3
<1>5. CASE q.kind = "weighted"
  BY <1>5 DEF Weights, Claim
<1>6. CASE q.kind = "equal_prorated" /\ q.period # NoPeriod /\ SumFunction(days) # 0
  <2>1. w = days
    BY <1>1, <1>2, <1>6 DEF Weights
  <2>2. u \in M
    BY <1>2, <2>1
  <2>3. Claim(q, u) = Cardinality(DaysPresent(q, u))
    BY <1>1, <1>4, <1>6 DEF Claim
  <2>. QED
    BY <1>3, <2>1, <2>2, <2>3
<1>7. CASE q.kind # "weighted"
           /\ ~(q.kind = "equal_prorated" /\ q.period # NoPeriod /\ SumFunction(days) # 0)
  <2>1. w = [v \in M |-> 1]
    BY <1>1, <1>2, <1>7 DEF Weights
  <2>2. Claim(q, u) = 1
    BY <1>1, <1>4, <1>7 DEF Claim
  <2>. QED
    BY <2>1, <2>2
<1>. QED
  BY <1>5, <1>6, <1>7

\* A share is within a cent of the claim's part of the amount, and equal claims
\* are at most a cent apart.
LEMMA SharesAreFair ==
    ASSUME NEW q \in Requests, Splittable(q), NEW w, w = Weights(q),
           NEW sh, sh = ComputeShares(q), NEW t, t = SumFunction(w)
    PROVE  /\ DOMAIN sh = DOMAIN w
           /\ \A u \in DOMAIN w : sh[u] * t - q.amount * w[u] \in -t..t
           /\ \A u, v \in DOMAIN w : u < v /\ w[u] = w[v] => sh[u] - sh[v] \in 0..1
<1>1. PICK D, floor, r :
         /\ D = DOMAIN w /\ IsFiniteSet(D) /\ \A u \in D : u \in Int
         /\ r \in 0..Cardinality(D)
         /\ floor = [u \in D |-> (q.amount * w[u]) \div t]
         /\ sh = [u \in D |-> floor[u] + IF Rank(u, D) < r THEN 1 ELSE 0]
         /\ \A u \in D : floor[u] \in Int /\ t * floor[u] - q.amount * w[u] \in (1 - t)..0
  BY SharesAre
<1>2. t \in Nat \ {0} /\ w \in [D -> Nat]
  BY <1>1, WeightsAreSplittable
<1>3. q.amount \in Nat
  BY RequestsAssumption
<1>4. r \in Int
  <2>1. Cardinality(D) \in Nat
    BY <1>1, FS_CardinalityType
  <2>. QED
    BY <1>1, <2>1
<1>5. ASSUME NEW u \in D
      PROVE  sh[u] * t - q.amount * w[u] \in -t..t
  <2>1. PICK f \in Int, c \in 0..1, x \in Int :
            sh[u] = f + c /\ f = floor[u] /\ x = q.amount * w[u] /\ t * f - x \in (1 - t)..0
    <3>1. PICK c \in 0..1 : c = IF Rank(u, D) < r THEN 1 ELSE 0
      OBVIOUS
    <3>2. q.amount * w[u] \in Int
      BY <1>2, <1>3
    <3>. QED
      BY <1>1, <3>1, <3>2
  <2>2. PICK y \in Int : y = t * f
    BY <1>2
  <2>3. sh[u] * t = y + c * t
    <3>1. (f + c) * t = t * f + c * t
      BY <1>2
    <3>. QED
      BY <2>1, <2>2, <3>1
  <2>4. c * t \in 0..t
    <3>1. c = 0 \/ c = 1
      OBVIOUS
    <3>. QED
      BY <1>2, <3>1
  <2>5. PICK z \in 0..t : z = c * t
    BY <2>4
  <2>6. y + z - x \in -t..t
    BY <1>2, <2>1, <2>2, <2>5
  <2>. QED
    BY <2>1, <2>3, <2>5, <2>6
<1>6. ASSUME NEW u \in D, NEW v \in D, u < v, w[u] = w[v]
      PROVE  sh[u] - sh[v] \in 0..1
  <2>1. floor[u] = floor[v] /\ floor[u] \in Int
    BY <1>1, <1>6
  <2>2. PICK i \in Nat, j \in Nat : i = Rank(u, D) /\ j = Rank(v, D) /\ i <= j
    BY <1>1, <1>6, RankGrows
  <2>3. PICK f \in Int : f = floor[u] /\ f = floor[v]
    BY <2>1
  <2>4. /\ sh[u] = f + IF i < r THEN 1 ELSE 0
        /\ sh[v] = f + IF j < r THEN 1 ELSE 0
    BY <1>1, <2>2, <2>3
  <2>. QED
    BY <1>4, <2>2, <2>4
<1>7. DOMAIN sh = D
  BY <1>1
<1>. QED
  BY <1>1, <1>5, <1>6, <1>7

\* If no day of a member's absence is given twice, every share of an expense is,
\* to the cent, what the calendar or the rule's weights come to.
THEOREM SplitsAreFair ==
    ASSUME RequestsApart
    PROVE  Spec => []FairToTheCent
<1>1. SplitInv => FairToTheCent
  <2>. SUFFICES ASSUME SplitInv, shares # NoShares
                PROVE  LET claim == [u \in DOMAIN shares |-> Claim(request, u)]
                           total == SumFunction(claim)
                       IN  \A u \in DOMAIN shares :
                             /\ shares[u] * total - request.amount * claim[u] \in -total..total
                             /\ \A v \in DOMAIN shares :
                                   u < v /\ claim[u] = claim[v] => shares[u] - shares[v] \in 0..1
    BY DEF FairToTheCent
  <2>1. PICK q, sh, w, t :
           /\ q = request /\ sh = shares /\ q \in Requests /\ Splittable(q)
           /\ sh = ComputeShares(q) /\ w = Weights(q) /\ t = SumFunction(w)
    BY DEF SplitInv
  <2>2. /\ DOMAIN sh = DOMAIN w
        /\ \A u \in DOMAIN w : sh[u] * t - q.amount * w[u] \in -t..t
        /\ \A u, v \in DOMAIN w : u < v /\ w[u] = w[v] => sh[u] - sh[v] \in 0..1
    BY <2>1, SharesAreFair
  <2>3. PICK claim : claim = [u \in DOMAIN sh |-> Claim(q, u)]
    OBVIOUS
  <2>4. claim = w
    <3>1. \A u \in DOMAIN w : Claim(q, u) = w[u]
      BY <2>1, ClaimsAreWeights
    <3>2. w = [u \in DOMAIN w |-> w[u]]
      BY <2>1, WeightsAreSplittable
    <3>. QED
      BY <2>2, <2>3, <3>1, <3>2
  <2>. QED
    BY <2>1, <2>2, <2>3, <2>4
<1>. QED
  BY <1>1, SettleUpInvariant, PTL

=============================================================================
