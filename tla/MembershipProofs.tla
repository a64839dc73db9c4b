-------------------------- MODULE MembershipProofs --------------------------
(***************************************************************************)
(* Proofs about Membership for any number of users, invites and requests   *)
(* at work at one time, however these overlap: the code takes no lock      *)
(* between a check and its write, so each request is judged by what it     *)
(* read, which its record keeps.                                           *)
(***************************************************************************)
EXTENDS Membership, FiniteSetTheorems, TLAPS

-----------------------------------------------------------------------------
(* Types.                                                                  *)

\* Of the managers that were counted, one is not the user.
OthersManage(h) == h.user \in h.managers => \E m \in h.managers : m # h.user

\* What a worker may have in hand: what it read passed its checks.
HandlerOK(h) ==
    \/ h = Idle
    \/ /\ h.op = "accept" /\ h.user \in Users /\ h.invite \in Invites
       /\ h.uses \in 0 .. MaxUses - 1
       /\ h.row \in MemberRows /\ h.row.status # "active"
    \/ /\ h.op = "patch" /\ h.user \in Users
       /\ h.role \in Roles \cup {Unset} /\ h.days \in AwayDays \cup {Unset}
       /\ h.row \in MemberRows /\ h.row.status = "active"
       /\ Changes(h.row, h.role) => OthersManage(h)
    \/ /\ h.op = "leave" /\ h.user \in Users /\ h.balance = 0 /\ OthersManage(h)

Handlers ==
    /\ handler = [w \in Workers |-> handler[w]]
    /\ \A w \in Workers : HandlerOK(handler[w])

Types == TypeOK /\ Handlers

LEMMA HandlersMove ==
    ASSUME Handlers, NEW w \in Workers, NEW h, HandlerOK(h), handler' = [handler EXCEPT ![w] = h]
    PROVE  Handlers' /\ handler'[w] = h /\ \A v \in Workers \ {w} : handler'[v] = handler[v]
  BY DEF Handlers

LEMMA FinishedHandlers ==
    ASSUME Handlers, NEW w \in Workers, Finish(w)
    PROVE  Handlers' /\ handler'[w] = Idle /\ \A v \in Workers \ {w} : handler'[v] = handler[v]
  BY HandlersMove DEF HandlerOK, Finish

LEMMA RowParts ==
    ASSUME NEW r \in MemberRows
    PROVE  /\ r.status \in {"none", "active", "left"} /\ r.role \in Roles /\ r.days \in AwayDays
           /\ \A s \in {"none", "active", "left"} : [r EXCEPT !.status = s] \in MemberRows
  BY DEF MemberRows

\* What an accepted invite makes of the row of the user.
LEMMA AcceptWrites ==
    ASSUME Types, NEW w \in Workers, Accept(w),
           NEW u \in Users, u = handler[w].user
    PROVE  /\ member' \in [Users -> MemberRows]
           /\ \A v \in Users \ {u} : member'[v] = member[v]
           /\ member'[u].status = "active"
           /\ handler[w].row = member[u] => member'[u].role = "member"
<1> DEFINE r == handler[w].row
<1>1. /\ r \in MemberRows /\ member \in [Users -> MemberRows] /\ member[u] \in MemberRows
      /\ member' = Welcome(handler[w]) /\ (r = NoRow => member[u] = NoRow)
  BY DEF Types, TypeOK, Handlers, HandlerOK, Accept, Idle
<1>2. CASE r = NoRow
  <2>1. member' = [member EXCEPT ![u] = Joined("member")]
    BY <1>1, <1>2 DEF Welcome
  <2>2. Joined("member") \in MemberRows
    BY DEF Joined, MemberRows, Roles, AwayDays
  <2> QED
    BY <1>1, <2>1, <2>2 DEF Joined
<1>3. CASE r # NoRow
  <2> DEFINE role == IF r.role = "member" THEN member[u].role ELSE "member"
             row == [member[u] EXCEPT !.status = "active", !.role = role]
  <2>1. row \in MemberRows /\ row.status = "active" /\ row.role = role
    BY <1>1 DEF MemberRows, Roles
  <2>2. member' = [member EXCEPT ![u] = row]
    BY <1>1, <1>3 DEF Welcome, MemberRows
  <2> HIDE DEF row
  <2>3. member' \in [Users -> MemberRows] /\ member'[u] = row /\ \A v \in Users \ {u} : member'[v] = member[v]
    BY <1>1, <2>1, <2>2
  <2> QED
    BY <1>1, <2>1, <2>3
<1> QED
  BY <1>2, <1>3

LEMMA PatchWrites ==
    ASSUME Types, NEW w \in Workers, Patch(w),
           NEW u \in Users, u = handler[w].user
    PROVE  /\ member' \in [Users -> MemberRows]
           /\ \A v \in Users \ {u} : member'[v] = member[v]
           /\ member'[u].status = member[u].status
           /\ member'[u].role = IF Changes(handler[w].row, handler[w].role)
                                THEN handler[w].role ELSE member[u].role
<1> DEFINE h == handler[w]
           role == IF Changes(h.row, h.role) THEN h.role ELSE member[u].role
           days == IF h.days \in {Unset, h.row.days} THEN member[u].days ELSE h.days
           row == [member[u] EXCEPT !.role = role, !.days = days]
<1>1. /\ h.role \in Roles \cup {Unset} /\ h.days \in AwayDays \cup {Unset}
      /\ member \in [Users -> MemberRows] /\ member[u] \in MemberRows
  BY DEF Types, TypeOK, Handlers, HandlerOK, Patch, Idle
<1>2. role \in Roles /\ days \in AwayDays
  BY <1>1 DEF Changes, MemberRows
<1>3. row \in MemberRows /\ row.status = member[u].status /\ row.role = role
  BY <1>1, <1>2 DEF MemberRows
<1>4. member' = [member EXCEPT ![u] = row]
  BY <1>1 DEF Patch, MemberRows
<1> HIDE DEF row
<1>5. member' \in [Users -> MemberRows] /\ member'[u] = row /\ \A v \in Users \ {u} : member'[v] = member[v]
  BY <1>1, <1>3, <1>4
<1> QED
  BY <1>3, <1>5

LEMMA LeaveWrites ==
    ASSUME Types, NEW w \in Workers, Leave(w),
           NEW u \in Users, u = handler[w].user
    PROVE  /\ member' \in [Users -> MemberRows]
           /\ \A v \in Users \ {u} : member'[v] = member[v]
           /\ member'[u].status = "left"
<1> DEFINE row == [member[u] EXCEPT !.status = "left"]
<1>1. member \in [Users -> MemberRows] /\ member[u] \in MemberRows
  BY DEF Types, TypeOK
<1>2. row \in MemberRows /\ row.status = "left"
  BY <1>1 DEF MemberRows
<1>3. member' = [member EXCEPT ![u] = row]
  BY <1>1 DEF Leave, MemberRows
<1> HIDE DEF row
<1> QED
  BY <1>1, <1>2, <1>3

\* One who is not the last manager leaves another behind.
LEMMA AnotherManager ==
    ASSUME NEW u \in Users, IsManager(u), ~IsLastManager(u)
    PROVE  \E v \in Users : v # u /\ IsManager(v)
<1> SUFFICES ASSUME \A v \in Users : v # u => ~IsManager(v)
             PROVE  FALSE
  OBVIOUS
<1>1. ActiveManagers = {u}
  BY DEF ActiveManagers
<1> QED
  BY <1>1, FS_Singleton DEF IsLastManager

LEMMA TypesStay == Types /\ [Next]_vars => Types'
<1> SUFFICES ASSUME Types, [Next]_vars
             PROVE  Types'
  OBVIOUS
<1> USE DEF Types
<1>1. /\ member \in [Users -> MemberRows] /\ balance \in [Users -> -MaxCents..MaxCents]
      /\ invite \in [Invites -> InviteRows] /\ joins \in [Invites -> Nat] /\ told \in [Users -> Messages]
      /\ overwritten \subseteq Users \cup Invites
      /\ Handlers /\ MaxUses \in Nat \ {0} /\ MaxCents \in Nat
  BY MaxUsesAssumption, MaxCentsAssumption DEF TypeOK
<1>2. ASSUME NEW u \in Users, CreateHouse(u)
      PROVE  Types'
  <2>1. Joined("manager") \in MemberRows
    BY DEF Joined, MemberRows, Roles, AwayDays
  <2> QED
    BY <1>1, <1>2, <2>1 DEF CreateHouse, TypeOK, Handlers
<1>3. ASSUME NEW i \in Invites, CreateInvite(i)
      PROVE  Types'
  <2>1. [status |-> "open", uses |-> 0] \in InviteRows
    BY <1>1 DEF InviteRows
  <2> QED
    BY <1>1, <1>3, <2>1 DEF CreateInvite, TypeOK, Handlers
<1>4. ASSUME NEW i \in Invites, Expire(i)
      PROVE  Types'
  <2>1. [invite[i] EXCEPT !.status = "expired"] \in InviteRows
    BY <1>1 DEF InviteRows
  <2>2. invite' = [invite EXCEPT ![i] = [invite[i] EXCEPT !.status = "expired"]]
    BY <1>1, <1>4 DEF Expire
  <2> QED
    BY <1>1, <1>4, <2>1, <2>2 DEF Expire, TypeOK, Handlers
<1>5. ASSUME NEW w \in Workers, NEW u \in Users, NEW v \in Users, PostLedger(w, u, v)
      PROVE  Types'
  <2>1. balance[u] \in -MaxCents..MaxCents /\ balance[v] \in -MaxCents..MaxCents
    BY <1>1
  <2>2. balance[u] + 1 \in -MaxCents..MaxCents /\ balance[v] - 1 \in -MaxCents..MaxCents
    BY <1>1, <1>5, <2>1 DEF PostLedger
  <2>3. balance' = [balance EXCEPT ![u] = balance[u] + 1, ![v] = balance[v] - 1]
    BY <1>1, <1>5 DEF PostLedger
  <2>4. balance' \in [Users -> -MaxCents..MaxCents]
    BY <1>1, <2>2, <2>3
  <2> QED
    BY <1>1, <1>5, <2>4 DEF PostLedger, TypeOK, Handlers
<1>6. ASSUME NEW w \in Workers, NEW h, HandlerOK(h), Start(w, h), UNCHANGED rows
      PROVE  Types'
  BY <1>1, <1>6, HandlersMove DEF Start, rows, TypeOK
<1>7. ASSUME NEW w \in Workers, NEW u \in Users, NEW i \in Invites, CheckAccept(w, u, i)
      PROVE  Types'
  <2> DEFINE h == [op |-> "accept", user |-> u, invite |-> i, uses |-> invite[i].uses, row |-> member[u]]
  <2>1. invite[i].uses \in 0 .. MaxUses - 1
    BY <1>1, <1>7 DEF CheckAccept, InviteRows
  <2>2. HandlerOK(h)
    BY <1>1, <1>7, <2>1 DEF HandlerOK, CheckAccept, IsActive
  <2> QED
    BY <1>6, <1>7, <2>2 DEF CheckAccept
<1>8. ASSUME NEW w \in Workers, NEW u \in Users, NEW v \in Users, CheckLeave(w, u, v)
      PROVE  Types'
  <2> DEFINE h == [op |-> "leave", user |-> v, balance |-> balance[v], row |-> member[v],
                   managers |-> ActiveManagers]
  <2>1. OthersManage(h)
    BY <1>8, AnotherManager DEF CheckLeave, OthersManage, ActiveManagers
  <2>2. HandlerOK(h)
    BY <1>8, <2>1 DEF HandlerOK, CheckLeave
  <2> QED
    BY <1>6, <1>8, <2>2 DEF CheckLeave
<1>9. ASSUME NEW w \in Workers, NEW u \in Users, NEW v \in Users,
             NEW role \in Roles \cup {Unset}, NEW days \in AwayDays \cup {Unset},
             CheckPatch(w, u, v, role, days)
      PROVE  Types'
  <2> DEFINE h == [op |-> "patch", user |-> v, role |-> role, days |-> days, row |-> member[v],
                   managers |-> ActiveManagers]
  <2>1. Changes(member[v], role) => OthersManage(h)
    BY <1>9, AnotherManager DEF CheckPatch, OthersManage, ActiveManagers
  <2>2. HandlerOK(h)
    BY <1>1, <1>9, <2>1 DEF HandlerOK, CheckPatch, IsActive
  <2> QED
    BY <1>6, <1>9, <2>2 DEF CheckPatch
<1>10. ASSUME NEW w \in Workers, Accept(w)
       PROVE  Types'
  <2>1. PICK u \in Users, i \in Invites :
          /\ u = handler[w].user /\ i = handler[w].invite /\ handler[w].uses \in 0 .. MaxUses - 1
    BY <1>1, <1>10 DEF Accept, Handlers, HandlerOK, Idle
  <2>2. member' \in [Users -> MemberRows]
    BY <1>10, <2>1, AcceptWrites
  <2>3. invite' \in [Invites -> InviteRows]
    <3>1. handler[w].uses + 1 \in 0 .. MaxUses
      BY <1>1, <2>1
    <3>2. [invite[i] EXCEPT !.uses = handler[w].uses + 1] \in InviteRows
      BY <1>1, <2>1, <3>1 DEF InviteRows
    <3>3. invite' = [invite EXCEPT ![i] = [invite[i] EXCEPT !.uses = handler[w].uses + 1]]
      BY <1>1, <1>10, <2>1 DEF Accept
    <3> QED
      BY <1>1, <3>2, <3>3
  <2>4. told' \in [Users -> Messages]
    BY <1>1, <1>10 DEF Accept, Announce, Messages, Roles
  <2>5. joins' \in [Invites -> Nat]
    BY <1>1, <1>10, <2>1 DEF Accept
  <2>6. overwritten' \subseteq Users \cup Invites
    BY <1>1, <1>10, <2>1 DEF Accept, Note, LateUser, LateInvite
  <2> QED
    BY <1>1, <1>10, <2>2, <2>3, <2>4, <2>5, <2>6, FinishedHandlers DEF Accept, TypeOK
<1>11. ASSUME NEW w \in Workers, Patch(w)
       PROVE  Types'
  <2>1. PICK u \in Users : u = handler[w].user /\ handler[w].role \in Roles \cup {Unset}
    BY <1>1, <1>11 DEF Patch, Handlers, HandlerOK, Idle
  <2>2. member' \in [Users -> MemberRows]
    BY <1>11, <2>1, PatchWrites
  <2>3. told' \in [Users -> Messages]
    <3>1. CASE Changes(handler[w].row, handler[w].role)
      <4>1. handler[w].role \in Roles
        BY <2>1, <3>1 DEF Changes
      <4>2. told' = [told EXCEPT ![u] = [type |-> "member.role_changed", role |-> handler[w].role]]
        BY <1>11, <2>1, <3>1 DEF Patch, Announce
      <4> QED
        BY <1>1, <4>1, <4>2 DEF Messages
    <3>2. CASE ~Changes(handler[w].row, handler[w].role)
      BY <1>1, <1>11, <3>2 DEF Patch
    <3> QED
      BY <3>1, <3>2
  <2>4. overwritten' \subseteq Users \cup Invites
    BY <1>1, <1>11, <2>1 DEF Patch, Note, LateUser
  <2> QED
    BY <1>1, <1>11, <2>2, <2>3, <2>4, FinishedHandlers DEF Patch, TypeOK
<1>12. ASSUME NEW w \in Workers, Leave(w)
       PROVE  Types'
  <2>1. PICK u \in Users : u = handler[w].user
    BY <1>1, <1>12 DEF Leave, Handlers, HandlerOK, Idle
  <2>2. member' \in [Users -> MemberRows]
    BY <1>12, <2>1, LeaveWrites
  <2>3. told' \in [Users -> Messages]
    BY <1>1, <1>12 DEF Leave, Announce, Messages, Roles
  <2>4. overwritten' \subseteq Users \cup Invites
    BY <1>1, <1>12, <2>1 DEF Leave, Note, LateUser
  <2> QED
    BY <1>1, <1>12, <2>2, <2>3, <2>4, FinishedHandlers DEF Leave, TypeOK
<1>13. ASSUME NEW w \in Workers, Fail(w)
       PROVE  Types'
  BY <1>1, <1>13, FinishedHandlers DEF Fail, rows, TypeOK
<1>14. CASE UNCHANGED vars
  BY <1>1, <1>14 DEF vars, TypeOK, Handlers
<1> QED
  BY <1>2, <1>3, <1>4, <1>5, <1>7, <1>8, <1>9, <1>10, <1>11, <1>12, <1>13, <1>14 DEF Next, Check

LEMMA InitTypes == Init => Types
<1> SUFFICES ASSUME Init
             PROVE  Types
  OBVIOUS
<1>1. NoRow \in MemberRows /\ Untold \in Messages /\ [status |-> "absent", uses |-> 0] \in InviteRows
  BY MaxUsesAssumption DEF NoRow, MemberRows, Roles, AwayDays, Untold, Messages, InviteRows
<1>2. 0 \in -MaxCents..MaxCents
  BY MaxCentsAssumption
<1> QED
  BY <1>1, <1>2 DEF Init, Types, TypeOK, Handlers, HandlerOK

\* Every row is what its table says, whatever requests overlap: no invite is
\* recorded as used more often than it may be, either.
THEOREM RowsKeepTypes == Spec => []TypeOK
  BY InitTypes, TypesStay, PTL DEF Spec, Types

-----------------------------------------------------------------------------
(* The managers, the balances and the events.                              *)

\* The steps that write memberships.
LEMMA WhoWrites ==
    ASSUME Next
    PROVE  \/ \E u \in Users : CreateHouse(u)
           \/ \E w \in Workers : Accept(w) \/ Patch(w) \/ Leave(w)
           \/ UNCHANGED <<member, told, overwritten>>
<1>1. ASSUME NEW i \in Invites, CreateInvite(i) \/ Expire(i)
      PROVE  UNCHANGED <<member, told, overwritten>>
  BY <1>1 DEF CreateInvite, Expire
<1>2. ASSUME NEW w \in Workers, Check(w)
      PROVE  UNCHANGED <<member, told, overwritten>>
  BY <1>2, Zenon DEF Check, CheckAccept, CheckLeave, CheckPatch, PostLedger, rows
<1>3. ASSUME NEW w \in Workers, Fail(w)
      PROVE  UNCHANGED <<member, told, overwritten>>
  BY <1>3 DEF Fail, rows
<1> QED
  BY <1>1, <1>2, <1>3 DEF Next

\* What a handler that writes has in hand.
LEMMA WhoAccepts ==
    ASSUME Types, NEW w \in Workers, Accept(w)
    PROVE  /\ handler[w] # Idle /\ handler'[w] = Idle
           /\ handler[w].user \in Users /\ handler[w].invite \in Invites
           /\ handler[w].row.status # "active" /\ handler[w].uses \in 0 .. MaxUses - 1
  BY FinishedHandlers DEF Types, Accept, Handlers, HandlerOK, Idle

LEMMA WhoPatches ==
    ASSUME Types, NEW w \in Workers, Patch(w)
    PROVE  /\ handler[w] # Idle /\ handler'[w] = Idle /\ handler[w].user \in Users
           /\ handler[w].op = "patch" /\ handler[w].row.status = "active"
           /\ Changes(handler[w].row, handler[w].role) => OthersManage(handler[w])
  BY FinishedHandlers DEF Types, Patch, Handlers, HandlerOK, Idle

LEMMA WhoLeaves ==
    ASSUME Types, NEW w \in Workers, Leave(w)
    PROVE  /\ handler[w] # Idle /\ handler'[w] = Idle /\ handler[w].user \in Users
           /\ handler[w].op = "leave" /\ handler[w].balance = 0 /\ OthersManage(handler[w])
  BY FinishedHandlers DEF Types, Leave, Handlers, HandlerOK, Idle

\* However requests overlap, only one whose count of the managers, or whose row
\* of the user, is out of date can take the last manager away.
THEOREM HouseKeepsManager == Spec => LastManagerStays
<1> DEFINE Lost == ActiveManagers # {} /\ ActiveManagers' = {}
           Late == \E w \in Workers : ActsLate(handler[w]) /\ handler'[w] = Idle
<1>1. Types /\ [Next]_vars => [Lost => Late]_vars
  <2> SUFFICES ASSUME Types, Next, Lost
               PROVE  Late
    OBVIOUS
  <2>1. member \in [Users -> MemberRows]
    BY DEF Types, TypeOK
  <2>2. PICK m \in Users : IsManager(m)
    BY DEF ActiveManagers
  <2>3. \A u \in Users : ~(member'[u].status = "active" /\ member'[u].role = "manager")
    BY DEF ActiveManagers, IsManager, IsActive
  <2>4. ASSUME NEW u \in Users, CreateHouse(u)
        PROVE  FALSE
    BY <2>1, <2>3, <2>4 DEF CreateHouse, Joined
  <2>5. ASSUME NEW w \in Workers, Accept(w)
        PROVE  Late
    <3>1. PICK u \in Users : u = handler[w].user /\ handler[w].row.status # "active"
      BY <2>5, WhoAccepts
    <3>2. \A v \in Users \ {u} : member'[v] = member[v]
      BY <2>5, <3>1, AcceptWrites
    <3>3. m = u
      BY <2>2, <2>3, <3>2 DEF IsManager, IsActive
    <3> QED
      BY <2>2, <2>5, <3>1, <3>3, WhoAccepts DEF ActsLate, IsManager, IsActive
  <2>6. ASSUME NEW w \in Workers, Patch(w)
        PROVE  Late
    <3> DEFINE h == handler[w]
    <3>1. PICK u \in Users : u = h.user /\ (Changes(h.row, h.role) => OthersManage(h))
      BY <2>6, WhoPatches
    <3>2. /\ \A v \in Users \ {u} : member'[v] = member[v]
          /\ member'[u].status = member[u].status
          /\ ~Changes(h.row, h.role) => member'[u].role = member[u].role
      BY <2>6, <3>1, PatchWrites
    <3>3. u = m /\ Changes(h.row, h.role)
      BY <2>2, <2>3, <3>2 DEF IsManager, IsActive
    <3>4. \A v \in ActiveManagers : v = u
      BY <2>3, <3>2 DEF ActiveManagers, IsManager, IsActive
    <3>5. ActiveManagers # h.managers
      BY <2>2, <3>1, <3>3, <3>4 DEF OthersManage, ActiveManagers
    <3> QED
      BY <2>6, <3>5, WhoPatches DEF ActsLate
  <2>7. ASSUME NEW w \in Workers, Leave(w)
        PROVE  Late
    <3>1. PICK u \in Users : u = handler[w].user /\ OthersManage(handler[w])
      BY <2>7, WhoLeaves
    <3>2. \A v \in Users \ {u} : member'[v] = member[v]
      BY <2>7, <3>1, LeaveWrites
    <3>3. \A v \in ActiveManagers : v = u
      BY <2>3, <3>2 DEF ActiveManagers, IsManager, IsActive
    <3>4. ActiveManagers # handler[w].managers
      BY <2>2, <3>1, <3>3 DEF OthersManage, ActiveManagers
    <3> QED
      BY <2>7, <3>4, WhoLeaves DEF ActsLate
  <2>8. CASE UNCHANGED member
    BY <2>2, <2>3, <2>8 DEF IsManager, IsActive
  <2> QED
    BY <2>4, <2>5, <2>6, <2>7, <2>8, WhoWrites
<1> QED
  BY <1>1, InitTypes, TypesStay, PTL DEF Spec, LastManagerStays

\* However requests overlap, who leaves or is removed is even at that moment,
\* unless a posting moved the balance after the request had read it.
THEOREM NobodyLeavesUneven == Spec => LeavesEven
<1> DEFINE Left(u) == member[u].status = "active" /\ member'[u].status = "left" /\ balance'[u] # 0
           Moved(u) ==
              \E w \in Workers :
                  /\ handler[w] # Idle /\ handler'[w] = Idle
                  /\ handler[w].op = "leave" /\ handler[w].user = u
                  /\ handler[w].balance # balance[u]
<1>1. Types /\ [Next]_vars => [\A u \in Users : Left(u) => Moved(u)]_vars
  <2> SUFFICES ASSUME Types, Next, NEW u \in Users, Left(u)
               PROVE  Moved(u)
    OBVIOUS
  <2>1. member \in [Users -> MemberRows]
    BY DEF Types, TypeOK
  <2>2. ASSUME NEW w \in Workers, Accept(w)
        PROVE  FALSE
    BY <2>2, WhoAccepts, AcceptWrites
  <2>3. ASSUME NEW w \in Workers, Patch(w)
        PROVE  FALSE
    BY <2>3, WhoPatches, PatchWrites
  <2>4. ASSUME NEW w \in Workers, Leave(w)
        PROVE  Moved(u)
    <3>1. u = handler[w].user
      BY <2>4, WhoLeaves, LeaveWrites
    <3>2. balance' = balance
      BY <2>4 DEF Leave
    <3> QED
      BY <2>4, <3>1, <3>2, WhoLeaves
  <2>5. ASSUME NEW v \in Users, CreateHouse(v)
        PROVE  FALSE
    BY <2>1, <2>5 DEF CreateHouse, Joined, NoRow
  <2>6. CASE UNCHANGED member
    BY <2>6
  <2> QED
    BY <2>2, <2>3, <2>4, <2>5, <2>6, WhoWrites
<1> QED
  BY <1>1, InitTypes, TypesStay, PTL DEF Spec, LeavesEven

\* What the last event about a user says of the user's row.
Tells(event, row) ==
    CASE event.type = "member.left" -> row.status = "left"
      [] event.type \in {"member.joined", "member.role_changed"} ->
            row.status = "active" /\ row.role = event.role
      [] OTHER -> \/ row.status = "none"
                  \/ row.status = "active" /\ row.role = "manager"

LEMMA EventsStayRight == Types /\ EventsTellMembership /\ [Next]_vars => EventsTellMembership'
<1> SUFFICES ASSUME Types, EventsTellMembership, [Next]_vars,
                    NEW u \in Users, u \notin overwritten'
             PROVE  Tells(told'[u], member'[u])
  BY DEF EventsTellMembership, Tells
<1>1. member \in [Users -> MemberRows] /\ told \in [Users -> Messages]
  BY DEF Types, TypeOK
<1>2. u \notin overwritten => Tells(told[u], member[u])
  BY DEF EventsTellMembership, Tells
<1>3. ASSUME UNCHANGED <<member, told, overwritten>>
      PROVE  Tells(told'[u], member'[u])
  BY <1>2, <1>3
<1>4. ASSUME NEW v \in Users, CreateHouse(v)
      PROVE  Tells(told'[u], member'[u])
  <2>1. Tells(told[u], NoRow) /\ told' = told /\ member'[u] \in {NoRow, Joined("manager")}
    BY <1>1, <1>2, <1>4 DEF CreateHouse
  <2> QED
    BY <2>1 DEF Tells, NoRow, Joined
<1>5. ASSUME NEW w \in Workers, Accept(w)
      PROVE  Tells(told'[u], member'[u])
  <2>1. PICK v \in Users : v = handler[w].user
    BY <1>5, WhoAccepts
  <2>2. /\ told' = [told EXCEPT ![v] = [type |-> "member.joined", role |-> "member"]]
        /\ overwritten' = overwritten \cup LateUser(handler[w]) \cup LateInvite(handler[w])
    BY <1>5, <2>1 DEF Accept, Announce, Note
  <2>3. CASE u = v
    <3>1. member[u] = handler[w].row
      BY <2>1, <2>2, <2>3 DEF LateUser
    <3>2. member'[u].status = "active" /\ member'[u].role = "member"
      BY <1>5, <2>1, <2>3, <3>1, AcceptWrites
    <3> QED
      BY <1>1, <2>2, <2>3, <3>2 DEF Tells
  <2>4. CASE u # v
    BY <1>1, <1>2, <1>5, <2>1, <2>2, <2>4, AcceptWrites
  <2> QED
    BY <2>3, <2>4
<1>6. ASSUME NEW w \in Workers, Patch(w)
      PROVE  Tells(told'[u], member'[u])
  <2> DEFINE h == handler[w]
  <2>1. PICK v \in Users : v = h.user /\ h.row.status = "active"
    BY <1>6, WhoPatches
  <2>2. CASE u # v
    BY <1>1, <1>2, <1>6, <2>1, <2>2, PatchWrites DEF Patch, Announce, Note
  <2>3. CASE u = v /\ ~Changes(h.row, h.role)
    <3>1. member'[u].status = member[u].status /\ member'[u].role = member[u].role
      BY <1>6, <2>1, <2>3, PatchWrites
    <3>2. told' = told /\ overwritten' = overwritten
      BY <1>6, <2>3 DEF Patch
    <3> QED
      BY <1>2, <3>1, <3>2 DEF Tells
  <2>4. CASE u = v /\ Changes(h.row, h.role)
    <3>1. /\ told' = [told EXCEPT ![u] = [type |-> "member.role_changed", role |-> h.role]]
          /\ overwritten' = overwritten \cup LateUser(h)
      BY <1>6, <2>1, <2>4 DEF Patch, Announce, Note
    <3>2. member[u] = h.row
      BY <2>1, <2>4, <3>1 DEF LateUser
    <3>3. member'[u].status = "active" /\ member'[u].role = h.role
      BY <1>6, <2>1, <2>4, <3>2, PatchWrites
    <3> QED
      BY <1>1, <3>1, <3>3 DEF Tells
  <2> QED
    BY <2>2, <2>3, <2>4
<1>7. ASSUME NEW w \in Workers, Leave(w)
      PROVE  Tells(told'[u], member'[u])
  <2>1. PICK v \in Users : v = handler[w].user
    BY <1>7, WhoLeaves
  <2>2. (\A x \in Users \ {v} : member'[x] = member[x]) /\ member'[v].status = "left"
    BY <1>7, <2>1, LeaveWrites
  <2>3. /\ told' = [told EXCEPT ![v] = [type |-> "member.left", role |-> "member"]]
        /\ overwritten \subseteq overwritten'
    BY <1>7, <2>1 DEF Leave, Announce, Note
  <2> QED
    BY <1>1, <1>2, <2>2, <2>3 DEF Tells
<1>8. CASE UNCHANGED vars
  BY <1>3, <1>8 DEF vars
<1> QED
  BY <1>3, <1>4, <1>5, <1>6, <1>7, <1>8, WhoWrites

\* However requests overlap, the last event about a user tells the user's
\* membership until a request writes over a row it had not read.
THEOREM LastEventTells == Spec => []EventsTellMembership
<1>1. Init => EventsTellMembership
  BY DEF Init, EventsTellMembership, Untold, NoRow
<1> QED
  BY <1>1, EventsStayRight, InitTypes, TypesStay, PTL DEF Spec

-----------------------------------------------------------------------------
(* The uses of the invites.                                                *)

\* Who accepts an invite has read no more uses than there have been joins; one
\* that was never created has been neither read nor used.
UsesRead ==
    /\ \A w \in Workers :
          LET h == handler[w]
          IN  h.op = "accept" => h.uses <= joins[h.invite] /\ invite[h.invite].status # "absent"
    /\ \A i \in Invites : invite[i].status = "absent" => invite[i].uses = 0

UsesCounted == UsesRead /\ InviteUsesAreJoins

LEMMA UsesStayCounted == Types /\ UsesCounted /\ [Next]_vars => UsesCounted'
<1> SUFFICES ASSUME Types, UsesCounted, [Next]_vars
             PROVE  UsesCounted'
  OBVIOUS
<1>1. /\ invite \in [Invites -> InviteRows] /\ joins \in [Invites -> Nat] /\ Handlers
      /\ UsesRead /\ InviteUsesAreJoins /\ MaxUses \in Nat \ {0}
      /\ \A w \in Workers : handler[w].op = "accept" => handler[w].invite \in Invites
  BY MaxUsesAssumption DEF Types, TypeOK, UsesCounted, Handlers, HandlerOK, Idle
<1>2. ASSUME overwritten \subseteq overwritten', UNCHANGED <<invite, joins>>,
             \A w \in Workers :
                handler'[w].op = "accept" =>
                   \/ handler'[w] = handler[w]
                   \/ /\ handler'[w].uses <= joins[handler'[w].invite]
                      /\ invite[handler'[w].invite].status # "absent"
      PROVE  UsesCounted'
  BY <1>1, <1>2 DEF UsesCounted, UsesRead, InviteUsesAreJoins
<1>3. ASSUME NEW i \in Invites, CreateInvite(i) \/ Expire(i)
      PROVE  UsesCounted'
  <2>1. /\ UNCHANGED <<joins, handler, overwritten>>
        /\ \A j \in Invites : /\ invite'[j].uses = invite[j].uses
                              /\ invite'[j].status = "absent" => invite[j].status = "absent"
    BY <1>1, <1>3 DEF CreateInvite, Expire, UsesRead, InviteRows
  <2>2. \A j \in Invites : invite[j].uses \in Int /\ joins[j] \in Int
    BY <1>1 DEF InviteRows
  <2> QED
    BY <1>1, <2>1, <2>2 DEF UsesCounted, UsesRead, InviteUsesAreJoins
<1>4. ASSUME NEW w \in Workers, NEW u \in Users, NEW i \in Invites, CheckAccept(w, u, i)
      PROVE  UsesCounted'
  <2>1. /\ UNCHANGED <<invite, joins, overwritten>>
        /\ handler'[w].uses = invite[i].uses /\ handler'[w].invite = i /\ invite[i].status = "open"
        /\ \A v \in Workers \ {w} : handler'[v] = handler[v]
    BY <1>1, <1>4 DEF CheckAccept, Start, rows, Handlers
  <2>2. invite[i].uses <= joins[i]
    BY <1>1 DEF InviteUsesAreJoins
  <2> QED
    BY <1>2, <2>1, <2>2
<1>5. ASSUME NEW w \in Workers, Accept(w)
      PROVE  UsesCounted'
  <2>1. PICK i \in Invites : i = handler[w].invite
    BY <1>5, WhoAccepts
  <2>2. PICK n : n = handler[w].uses
    OBVIOUS
  <2>3. n \in 0 .. MaxUses - 1 /\ n <= joins[i] /\ invite[i].status # "absent"
    BY <1>1, <1>5, <2>1, <2>2, WhoAccepts DEF Accept, UsesRead
  <2>4. /\ invite'[i].uses = n + 1 /\ invite'[i].status = invite[i].status
        /\ \A j \in Invites \ {i} : invite'[j] = invite[j]
    BY <1>1, <1>5, <2>1, <2>2 DEF Accept, InviteRows
  <2>5. joins'[i] = joins[i] + 1 /\ \A j \in Invites \ {i} : joins'[j] = joins[j]
    BY <1>1, <1>5, <2>1 DEF Accept
  <2>6. handler'[w] = Idle /\ \A v \in Workers \ {w} : handler'[v] = handler[v]
    BY <1>1, <1>5, FinishedHandlers DEF Accept
  <2>7. overwritten \subseteq overwritten' /\ (i \notin overwritten' => invite[i].uses = n)
    BY <1>5, <2>1, <2>2 DEF Accept, Note, LateInvite
  <2>8. \A j \in Invites : joins[j] \in Int /\ invite[j].uses \in Int
    BY <1>1 DEF InviteRows
  <2>9. UsesRead'
    <3>1. ASSUME NEW v \in Workers, handler'[v].op = "accept"
          PROVE  /\ handler'[v].uses <= joins'[handler'[v].invite]
                 /\ invite'[handler'[v].invite].status # "absent"
      <4>1. v # w /\ handler'[v] = handler[v]
        BY <2>6, <3>1 DEF Idle
      <4>2. PICK j \in Invites : j = handler[v].invite
        BY <1>1, <3>1, <4>1
      <4>3. handler[v].uses <= joins[j] /\ invite[j].status # "absent" /\ handler[v].uses \in Int
        BY <1>1, <3>1, <4>1, <4>2 DEF UsesRead, Handlers, HandlerOK, Idle
      <4>4. joins[j] <= joins'[j] /\ joins'[j] \in Int /\ invite'[j].status # "absent"
        BY <2>4, <2>5, <2>8, <4>3
      <4> QED
        BY <2>8, <4>1, <4>2, <4>3, <4>4
    <3>2. \A j \in Invites : invite'[j].status = "absent" => invite'[j].uses = 0
      BY <1>1, <2>3, <2>4 DEF UsesRead
    <3> QED
      BY <3>1, <3>2 DEF UsesRead
  <2>10. ASSUME NEW j \in Invites
         PROVE  /\ invite'[j].uses <= joins'[j]
                /\ j \notin overwritten' => invite'[j].uses = joins'[j] /\ joins'[j] <= MaxUses
    <3>1. CASE j = i
      <4>1. invite[i].uses = joins[i] \/ i \in overwritten
        BY <1>1 DEF InviteUsesAreJoins
      <4> QED
        BY <1>1, <2>3, <2>4, <2>5, <2>7, <2>8, <3>1, <4>1
    <3>2. CASE j # i
      BY <1>1, <2>4, <2>5, <2>7, <3>2 DEF InviteUsesAreJoins
    <3> QED
      BY <3>1, <3>2
  <2> QED
    BY <2>9, <2>10 DEF UsesCounted, InviteUsesAreJoins
<1>6. ASSUME NEW w \in Workers, Patch(w) \/ Leave(w) \/ Fail(w)
      PROVE  UsesCounted'
  <2>1. UNCHANGED <<invite, joins>> /\ overwritten \subseteq overwritten' /\ Finish(w)
    BY <1>6 DEF Patch, Leave, Fail, Note, rows
  <2>2. handler'[w] = Idle /\ \A v \in Workers \ {w} : handler'[v] = handler[v]
    BY <1>1, <2>1, FinishedHandlers
  <2> QED
    BY <1>2, <2>1, <2>2 DEF Idle
<1>7. ASSUME NEW w \in Workers, NEW h, h.op # "accept", Start(w, h), UNCHANGED rows
      PROVE  UsesCounted'
  <2>1. handler'[w] = h /\ \A v \in Workers \ {w} : handler'[v] = handler[v]
    BY <1>1, <1>7 DEF Start, Handlers
  <2> QED
    BY <1>2, <1>7, <2>1 DEF rows
<1>8. ASSUME NEW w \in Workers, NEW u \in Users, NEW v \in Users, CheckLeave(w, u, v)
      PROVE  UsesCounted'
  BY <1>7, <1>8 DEF CheckLeave
<1>9. ASSUME NEW w \in Workers, NEW u \in Users, NEW v \in Users,
             NEW role \in Roles \cup {Unset}, NEW days \in AwayDays \cup {Unset},
             CheckPatch(w, u, v, role, days)
      PROVE  UsesCounted'
  BY <1>7, <1>9 DEF CheckPatch
<1>10. ASSUME UNCHANGED <<invite, joins, handler, overwritten>>
       PROVE  UsesCounted'
  BY <1>2, <1>10
<1> QED
  BY <1>3, <1>4, <1>5, <1>6, <1>8, <1>9, <1>10 DEF Next, Check, CreateHouse, PostLedger, vars

\* However acceptances overlap, an invite is never recorded as used more often
\* than someone joined by it; and until one writes over a count it had not read,
\* every join has used it, once: a rejoin counts as well, and a request that
\* fails after its check does not.
THEOREM InvitesAreCounted == Spec => []InviteUsesAreJoins
<1>1. Init => UsesCounted
  BY MaxUsesAssumption DEF Init, UsesCounted, UsesRead, InviteUsesAreJoins, Idle
<1>2. UsesCounted => InviteUsesAreJoins
  BY DEF UsesCounted
<1> QED
  BY <1>1, <1>2, UsesStayCounted, InitTypes, TypesStay, PTL DEF Spec

=============================================================================
