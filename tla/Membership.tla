----------------------------- MODULE Membership -----------------------------
(***************************************************************************)
(* Who belongs to a house, in which role, and how they come and go:        *)
(* src/backend/app/houses.py, with the roles of permissions.py.            *)
(*                                                                         *)
(* As in HouseBooks, a handler reads and checks without a lock in one step *)
(* and writes, announces and commits in another; what it writes is worked  *)
(* out from the rows as it read them, and SQLAlchemy leaves a column that  *)
(* it takes to be unchanged out of the UPDATE.  Postings to the ledger     *)
(* appear as what they do to two balances.                                 *)
(***************************************************************************)
EXTENDS Integers, FiniteSets

CONSTANTS
    Users,      \* everyone with an account
    Invites,    \* invites that may be created
    MaxUses,    \* INVITE_MAX_USES
    Workers,    \* request handlers that may be at work at one time
    MaxCents,   \* bound on a balance, in either direction
    MaxJoins    \* bound on the joins

ASSUME InvitesAssumption == Users \cap Invites = {}
ASSUME MaxUsesAssumption == MaxUses \in Nat \ {0}
ASSUME MaxCentsAssumption == MaxCents \in Nat

VARIABLES
    member,     \* user -> house_memberships row [status, role, days]
    balance,    \* user -> balances.balance_cents, 0 if there is no row
    invite,     \* invite -> [status, uses]
    joins,      \* invite -> number of member.joined events of who came by it
    told,       \* user -> the last event about the user's membership
    handler,    \* worker -> the request it has checked but not yet committed,
                \* with what it read
    overwritten \* not in the code: the users and invites whose row was written by
                \* a request although it was no longer as it had read it (away days
                \* alone do not count)

vars == <<member, balance, invite, joins, told, handler, overwritten>>
rows == <<member, balance, invite, joins, told, overwritten>>

-----------------------------------------------------------------------------

Roles == {"member", "manager"}
AwayDays == {"none", "some"}
MemberRows == [status : {"none", "active", "left"}, role : Roles, days : AwayDays]
InviteRows == [status : {"absent", "open", "expired"}, uses : 0..MaxUses]
Messages == [type : {"nothing", "member.joined", "member.role_changed", "member.left"}, role : Roles]
NoRow == [status |-> "none", role |-> "member", days |-> "none"]
Joined(role) == [status |-> "active", role |-> role, days |-> "none"]
Idle == [op |-> "idle"]
Untold == [type |-> "nothing", role |-> "member"]

IsActive(u) == member[u].status = "active"
IsManager(u) == IsActive(u) /\ member[u].role = "manager"

\* _active_manager_count
ActiveManagers == {u \in Users : IsManager(u)}
IsLastManager(u) == IsManager(u) /\ Cardinality(ActiveManagers) = 1

Announce(u, type, role) == told' = [told EXCEPT ![u] = [type |-> type, role |-> role]]

\* Of what a request is about to write, what is no longer as it read it.
LateUser(h) == {u \in {h.user} : member[u] # h.row}
LateInvite(h) == {i \in {h.invite} : invite[i].uses # h.uses}
Note(late) == overwritten' = overwritten \cup late

Start(w, request) == handler[w] = Idle /\ handler' = [handler EXCEPT ![w] = request]
Finish(w) == handler' = [handler EXCEPT ![w] = Idle]

Init ==
    /\ member = [u \in Users |-> NoRow]
    /\ balance = [u \in Users |-> 0]
    /\ invite = [i \in Invites |-> [status |-> "absent", uses |-> 0]]
    /\ joins = [i \in Invites |-> 0]
    /\ told = [u \in Users |-> Untold]
    /\ handler = [w \in Workers |-> Idle]
    /\ overwritten = {}

-----------------------------------------------------------------------------
(* Handlers of a single step.                                              *)

\* POST /houses: the founder is its manager, and no event says so.
CreateHouse(u) ==
    /\ \A v \in Users : member[v] = NoRow
    /\ member' = [member EXCEPT ![u] = Joined("manager")]
    /\ UNCHANGED <<balance, invite, joins, told, handler, overwritten>>

\* POST /houses/{id}/invites
CreateInvite(i) ==
    /\ ActiveManagers # {}
    /\ invite[i].status = "absent"
    /\ invite' = [invite EXCEPT ![i] = [status |-> "open", uses |-> 0]]
    /\ UNCHANGED <<member, balance, joins, told, handler, overwritten>>

\* expires_at passes.
Expire(i) ==
    /\ invite[i].status = "open"
    /\ invite' = [invite EXCEPT ![i].status = "expired"]
    /\ UNCHANGED <<member, balance, joins, told, handler, overwritten>>

\* A posting by a request of its own: it may touch those who have left, as the
\* reversal of an expense they had a share in does.
PostLedger(w, u, v) ==
    /\ handler[w] = Idle
    /\ u # v /\ member[u] # NoRow /\ member[v] # NoRow
    /\ balance[u] < MaxCents /\ balance[v] > -MaxCents
    /\ balance' = [balance EXCEPT ![u] = @ + 1, ![v] = @ - 1]
    /\ UNCHANGED <<member, invite, joins, told, handler, overwritten>>

-----------------------------------------------------------------------------
(* POST /invites/{code}/accept                                             *)

\* (Faulty: one use too many passes.)
CheckAcceptOneMore(w, u, i) ==
    /\ invite[i].status = "open"
    /\ invite[i].uses <= MaxUses
    /\ ~IsActive(u)
    /\ joins[i] < MaxJoins
    /\ Start(w, [op |-> "accept", user |-> u, invite |-> i,
                 uses |-> invite[i].uses, row |-> member[u]])
    /\ UNCHANGED rows

CheckAccept(w, u, i) ==
    /\ invite[i].status = "open"
    /\ invite[i].uses < MaxUses
    /\ ~IsActive(u)
    /\ joins[i] < MaxJoins
    /\ Start(w, [op |-> "accept", user |-> u, invite |-> i,
                 uses |-> invite[i].uses, row |-> member[u]])
    /\ UNCHANGED rows

\* (Faulty: who rejoins comes back in the role they left in.)
WelcomeInOldRole(h) ==
    IF h.row = NoRow
    THEN [member EXCEPT ![h.user] = Joined("member")]
    ELSE [member EXCEPT ![h.user].status = "active"]

\* A new row, or the old one reactivated.
Welcome(h) ==
    IF h.row = NoRow
    THEN [member EXCEPT ![h.user] = Joined("member")]
    ELSE [member EXCEPT ![h.user].status = "active",
                        ![h.user].role = IF h.row.role = "member" THEN @ ELSE "member"]

\* (Faulty: a use by someone who rejoins is not counted.)
AcceptUncounted(w) ==
    LET h == handler[w] IN
    /\ h.op = "accept"
    /\ h.row = NoRow => member[h.user] = NoRow
    /\ member' = Welcome(h)
    /\ invite' = [invite EXCEPT ![h.invite].uses = IF h.row = NoRow THEN h.uses + 1 ELSE @]
    /\ joins' = [joins EXCEPT ![h.invite] = @ + 1]
    /\ Note(LateUser(h) \cup LateInvite(h))
    /\ Announce(h.user, "member.joined", "member")
    /\ Finish(w)
    /\ UNCHANGED balance

\* An INSERT that meets a row inserted since the check fails: see Fail.
Accept(w) ==
    LET h == handler[w] IN
    /\ h.op = "accept"
    /\ h.row = NoRow => member[h.user] = NoRow
    /\ member' = Welcome(h)
    /\ invite' = [invite EXCEPT ![h.invite].uses = h.uses + 1]
    /\ joins' = [joins EXCEPT ![h.invite] = @ + 1]
    /\ Note(LateUser(h) \cup LateInvite(h))
    /\ Announce(h.user, "member.joined", "member")
    /\ Finish(w)
    /\ UNCHANGED balance

-----------------------------------------------------------------------------
(* PATCH /houses/{id}/members/{user}                                       *)

Unset == "unset"

\* What differs from the row as it was read.
Changes(row, role) == role # Unset /\ role # row.role

CheckPatch(w, u, v, role, days) ==
    /\ IsActive(u)
    /\ (u = v /\ role = Unset) \/ IsManager(u)
    /\ IsActive(v)
    /\ Changes(member[v], role) => ~IsLastManager(v)
    /\ Start(w, [op |-> "patch", user |-> v, role |-> role, days |-> days, row |-> member[v],
                 managers |-> ActiveManagers])
    /\ UNCHANGED rows

Patch(w) ==
    LET h == handler[w]
        renamed == Changes(h.row, h.role)
    IN
    /\ h.op = "patch"
    /\ member' = [member EXCEPT ![h.user].role = IF renamed THEN h.role ELSE @,
                                ![h.user].days = IF h.days \in {Unset, h.row.days} THEN @ ELSE h.days]
    /\ IF renamed
       THEN Announce(h.user, "member.role_changed", h.role) /\ Note(LateUser(h))
       ELSE UNCHANGED <<told, overwritten>>
    /\ Finish(w)
    /\ UNCHANGED <<balance, invite, joins>>

-----------------------------------------------------------------------------
(* POST /houses/{id}/members/{user}/leave                                  *)

\* (Faulty: only who owes is held back.)
CheckLeaveInCredit(w, u, v) ==
    /\ IsActive(u)
    /\ u = v \/ IsManager(u)
    /\ IsActive(v)
    /\ balance[v] >= 0
    /\ ~IsLastManager(v)
    /\ Start(w, [op |-> "leave", user |-> v, balance |-> balance[v], row |-> member[v],
                 managers |-> ActiveManagers])
    /\ UNCHANGED rows

\* (Faulty: a manager removes the others without a look at who remains.)
CheckLeaveLastManager(w, u, v) ==
    /\ IsActive(u)
    /\ u = v \/ IsManager(u)
    /\ IsActive(v)
    /\ balance[v] = 0
    /\ Start(w, [op |-> "leave", user |-> v, balance |-> balance[v], row |-> member[v],
                 managers |-> ActiveManagers])
    /\ UNCHANGED rows

CheckLeave(w, u, v) ==
    /\ IsActive(u)
    /\ u = v \/ IsManager(u)
    /\ IsActive(v)
    /\ balance[v] = 0
    /\ ~IsLastManager(v)
    /\ Start(w, [op |-> "leave", user |-> v, balance |-> balance[v], row |-> member[v],
                 managers |-> ActiveManagers])
    /\ UNCHANGED rows

Leave(w) ==
    /\ handler[w].op = "leave"
    /\ member' = [member EXCEPT ![handler[w].user].status = "left"]
    /\ Announce(handler[w].user, "member.left", "member")
    /\ Note(LateUser(handler[w]))
    /\ Finish(w)
    /\ UNCHANGED <<balance, invite, joins>>

\* A handler fails between its check and its commit: nothing was written.
Fail(w) ==
    /\ handler[w] # Idle
    /\ Finish(w)
    /\ UNCHANGED rows

-----------------------------------------------------------------------------

Check(w) ==
    \E u \in Users :
        \/ \E i \in Invites : CheckAccept(w, u, i)
        \/ \E v \in Users :
              \/ CheckLeave(w, u, v)
              \/ PostLedger(w, u, v)
              \/ \E role \in Roles \cup {Unset}, days \in AwayDays \cup {Unset} :
                    CheckPatch(w, u, v, role, days)

Next ==
    \/ \E u \in Users : CreateHouse(u)
    \/ \E i \in Invites : CreateInvite(i) \/ Expire(i)
    \/ \E w \in Workers : Check(w) \/ Accept(w) \/ Patch(w) \/ Leave(w) \/ Fail(w)

Spec == Init /\ [][Next]_vars

-----------------------------------------------------------------------------
(* What makes a house well run.                                            *)

TypeOK ==
    /\ member \in [Users -> MemberRows]
    /\ balance \in [Users -> -MaxCents..MaxCents]
    /\ invite \in [Invites -> InviteRows]
    /\ joins \in [Invites -> Nat]
    /\ told \in [Users -> Messages]
    /\ overwritten \subseteq Users \cup Invites

\* "House must keep at least one manager": a house that was founded has an
\* active manager.
KeepsManager ==
    (\E u \in Users : member[u].status # "none") =>
        \E u \in Users : member[u].status = "active" /\ member[u].role = "manager"

\* A request about a user whose row, or after its count of the managers the
\* managers, are no longer what it read.
ActsLate(h) ==
    /\ h # Idle
    /\ \/ member[h.user] # h.row
       \/ h.op \in {"patch", "leave"} /\ ActiveManagers # h.managers

\* What KeepsManager comes to when requests overlap: the last manager is lost,
\* by leaving, removal, demotion or a rejoin as a member, only to a request
\* whose count of the managers, or whose row of the user, was out of date.
LastManagerStays ==
    [][ActiveManagers # {} /\ ActiveManagers' = {} =>
          \E w \in Workers : ActsLate(handler[w]) /\ handler'[w] = Idle]_vars

\* Nobody takes a credit along or leaves a debt behind: at the moment a member
\* becomes one who left, their balance is zero, unless a posting has moved it
\* since the request to leave read it.
LeavesEven ==
    [][\A u \in Users :
          member[u].status = "active" /\ member'[u].status = "left" /\ balance'[u] # 0 =>
              \E w \in Workers :
                  /\ handler[w] # Idle /\ handler'[w] = Idle
                  /\ handler[w].op = "leave" /\ handler[w].user = u
                  /\ handler[w].balance # balance[u]]_vars

\* Nobody has used an invite without joining, a rejoin included, and every join
\* was counted, unless an acceptance wrote over a count it had not read; so an
\* invite admits more than MaxUses only if one has.
InviteUsesAreJoins ==
    \A i \in Invites :
        /\ invite[i].uses <= joins[i]
        /\ i \notin overwritten => invite[i].uses = joins[i] /\ joins[i] <= MaxUses

\* A client that applies the last event about a user has the user's membership
\* right (who rejoins after leaving as a manager comes back as a plain member),
\* unless a request wrote over a row it had not read; one about whom there is
\* no event never joined, or founded the house.
EventsTellMembership ==
    \A u \in Users \ overwritten :
        CASE told[u].type = "member.left" -> member[u].status = "left"
          [] told[u].type \in {"member.joined", "member.role_changed"} ->
                member[u].status = "active" /\ member[u].role = told[u].role
          [] OTHER -> \/ member[u].status = "none"
                      \/ member[u].status = "active" /\ member[u].role = "manager"

=============================================================================
