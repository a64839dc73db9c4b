------------------------------ MODULE Requests ------------------------------
(***************************************************************************)
(* What stands around every mutating request: the idempotency middleware   *)
(* (src/backend/app/idempotency.py) and, inside it, the handlers of        *)
(* accounts and refresh tokens (auth.py).  POST /expenses stands for the   *)
(* handlers that do something anew each time they run.                     *)
(*                                                                         *)
(* An attempt takes a worker through the look-up of the key, the handler's *)
(* read, its commit and the storing of the answer, each in a transaction   *)
(* or a read of its own; the client has the answer before it is stored.    *)
(* A client may send any request under any key at any time: a retry is the *)
(* same request under the same key.                                        *)
(***************************************************************************)
EXTENDS Integers, FiniteSets

CONSTANTS
    Workers,    \* request handlers that may be at work at one time
    Keys,       \* Idempotency-Key values
    Tokens,     \* refresh tokens that may be issued
    None

Requests ==
    [op : {"post", "register", "login"}, token : {None}]
        \cup [op : {"refresh", "logout"}, token : Tokens]

\* An answer: the status code, with the refresh token given if there is one.
Answers == [status : {200, 201, 204, 401, 409}, token : Tokens \cup {None}]
Answer(status, t) == [status |-> status, token |-> t]
Plain(status) == Answer(status, None)

Rows == [request : Requests, answer : Answers, fresh : BOOLEAN]
Given == [request : Requests, answer : Answers]
Lives == [commits : Nat, answers : SUBSET Given]
Attempts ==
    [at : {"read", "write"}, key : Keys, request : Requests, answer : {None}]
        \cup [at : {"answered"}, key : Keys, request : Requests, answer : Answers]

ASSUME NoneAssumption == None \notin Tokens /\ None \notin Rows /\ None \notin Attempts

VARIABLES
    stored,     \* key -> its idempotency_keys row [request, answer, fresh], or None
    registered, \* the one email address has an account
    token,      \* token -> "unissued", "live", "revoked" or "expired"
    attempt,    \* worker -> [at, key, request, answer], or None
    login,      \* token -> the token issued at the login it descends from
    contested,  \* logins of which a token was being used by two at one time
    life        \* key -> the commits made and the [request, answer] pairs given
                \* under it since it was last free; None (spoiled) once two
                \* attempts overlapped, one died, or it was taken over from an
                \* expired request of another kind

database == <<registered, token>>
vars == <<stored, database, attempt, login, contested, life>>

Unissued == {t \in Tokens : token[t] = "unissued"}

NewLife == [commits |-> 0, answers |-> {}]

Busy(k) == {w \in Workers : attempt[w] # None /\ attempt[w].key = k}

Init ==
    /\ stored = [k \in Keys |-> None]
    /\ registered = FALSE
    /\ token = [t \in Tokens |-> "unissued"]
    /\ attempt = [w \in Workers |-> None]
    /\ login = [t \in Tokens |-> None]
    /\ contested = {}
    /\ life = [k \in Keys |-> NewLife]

-----------------------------------------------------------------------------
(* The middleware.                                                         *)

IsFresh(k) == stored[k] # None /\ stored[k].fresh

\* Whether a row of the key is in the way of another request.
IsOther(k, request) == stored[k] # None /\ stored[k].request # request

Spoil(keys) == life' = [k \in Keys |-> IF k \in keys THEN None ELSE life[k]]

\* An answer goes to the client, after so many commits.
Give(k, request, answer, commits) ==
    life' = IF life[k] = None THEN life
            ELSE [life EXCEPT ![k] =
                    [commits |-> @.commits + commits,
                     answers |-> @.answers \cup {[request |-> request, answer |-> answer]}]]

\* The key is known and still good: 409 if it was another request's, else
\* the answer given then, and no handler runs.
Answered(w, k, request) ==
    /\ attempt[w] = None
    /\ IsFresh(k)
    /\ IF IsOther(k, request) THEN UNCHANGED life
       ELSE Give(k, request, stored[k].answer, 0)
    /\ UNCHANGED <<stored, database, attempt, login, contested>>

\* The key is unknown or has expired: the handler is to run.  Nothing is
\* written, so that a second attempt does not see the first.
Admit(w, k, request) ==
    /\ attempt[w] = None
    /\ ~IsFresh(k)
    /\ request.token \notin Unissued
    /\ attempt' = [attempt EXCEPT ![w] =
            [at |-> "read", key |-> k, request |-> request, answer |-> None]]
    /\ Spoil({c \in {k} : Busy(c) # {} \/ IsOther(c, request)})
    /\ UNCHANGED <<stored, database, login, contested>>

\* (Faulty: a row that is there keeps its expires_at as well.)
UpsertKeepingExpiry(k, request, answer) ==
    [request |-> IF stored[k] = None THEN request ELSE stored[k].request,
     answer |-> answer, fresh |-> stored[k] = None]

\* The upsert of the answer: a row that is there keeps its request_hash.
Upsert(k, request, answer) ==
    [request |-> IF stored[k] = None THEN request ELSE stored[k].request,
     answer |-> answer, fresh |-> TRUE]

\* (Faulty: stored even if the handler never answered.)
StoreAnyhow(w) ==
    LET a == attempt[w]
    IN  /\ a # None
        /\ stored' = [stored EXCEPT ![a.key] = Upsert(a.key, a.request, a.answer)]
        /\ attempt' = [attempt EXCEPT ![w] = None]
        /\ UNCHANGED <<database, login, contested, life>>

Store(w) ==
    LET a == attempt[w]
    IN  /\ a # None /\ a.at = "answered"
        /\ stored' = [stored EXCEPT ![a.key] = Upsert(a.key, a.request, a.answer)]
        /\ attempt' = [attempt EXCEPT ![w] = None]
        /\ UNCHANGED <<database, login, contested, life>>

\* The process ends, or the handler raises: nothing is stored, and nothing
\* committed if it had not been yet.
Die(w) ==
    /\ attempt[w] # None
    /\ Spoil({attempt[w].key})
    /\ attempt' = [attempt EXCEPT ![w] = None]
    /\ UNCHANGED <<stored, database, login, contested>>

\* expires_at passes: the key is free again.
Expire(k) ==
    /\ IsFresh(k)
    /\ stored' = [stored EXCEPT ![k].fresh = FALSE]
    /\ life' = [life EXCEPT ![k] = IF Busy(k) = {} THEN NewLife ELSE None]
    /\ UNCHANGED <<database, attempt, login, contested>>

\* The scheduler's sweep.
SweepKey(k) ==
    /\ stored[k] # None /\ ~stored[k].fresh
    /\ stored' = [stored EXCEPT ![k] = None]
    /\ UNCHANGED <<database, attempt, login, contested, life>>

-----------------------------------------------------------------------------
(* The handlers.                                                           *)

At(w, place, op) ==
    attempt[w] # None /\ attempt[w].at = place /\ attempt[w].request.op = op

\* The handler's answer goes out.
Respond(w, answer, commits) ==
    /\ attempt' = [attempt EXCEPT ![w].at = "answered", ![w].answer = answer]
    /\ Give(attempt[w].key, attempt[w].request, answer, commits)
    /\ UNCHANGED stored

Commit(w, answer) == Respond(w, answer, 1)
Refuse(w, answer) == Respond(w, answer, 0) /\ UNCHANGED <<database, login, contested>>

PostExpense(w) ==
    /\ At(w, "read", "post")
    /\ Commit(w, Plain(201))
    /\ UNCHANGED <<database, login, contested>>

\* POST /auth/register, decided by the unique index on users.email.
Register(w) ==
    /\ At(w, "read", "register")
    /\ IF registered THEN Refuse(w, Plain(409))
       ELSE /\ registered' = TRUE
            /\ Commit(w, Plain(201))
            /\ UNCHANGED <<token, login, contested>>

\* _issue_tokens: a new row, with the changes made so far in one commit.
Login(w) ==
    /\ At(w, "read", "login")
    /\ IF ~registered THEN Refuse(w, Plain(401))
       ELSE \E t \in Unissued :
            /\ token' = [token EXCEPT ![t] = "live"]
            /\ login' = [login EXCEPT ![t] = t]
            /\ Commit(w, Answer(200, t))
            /\ UNCHANGED <<registered, contested>>

\* Those past the check of the same login's tokens.
Using(l) == {w \in Workers : /\ attempt[w] # None /\ attempt[w].at = "write"
                             /\ login[attempt[w].request.token] = l}

\* (Faulty: the expiry is looked at, revoked_at is not.)
CheckTokenExpiry(w) ==
    LET t == attempt[w].request.token
    IN  /\ At(w, "read", "refresh") \/ At(w, "read", "logout")
        /\ IF token[t] \notin {"live", "revoked"} THEN Refuse(w, Plain(401))
           ELSE /\ attempt' = [attempt EXCEPT ![w].at = "write"]
                /\ contested' = contested \cup {l \in {login[t]} : Using(l) # {}}
                /\ UNCHANGED <<stored, database, login, life>>

\* _valid_refresh_row, an unlocked read: 401, or the handler goes on.
CheckToken(w) ==
    LET t == attempt[w].request.token
    IN  /\ At(w, "read", "refresh") \/ At(w, "read", "logout")
        /\ IF token[t] # "live" THEN Refuse(w, Plain(401))
           ELSE /\ attempt' = [attempt EXCEPT ![w].at = "write"]
                /\ contested' = contested \cup {l \in {login[t]} : Using(l) # {}}
                /\ UNCHANGED <<stored, database, login, life>>

\* POST /auth/refresh: the old token is revoked and a new one issued.
Refresh(w) ==
    LET old == attempt[w].request.token
    IN  /\ At(w, "write", "refresh")
        /\ \E t \in Unissued :
            /\ token' = [token EXCEPT ![old] = "revoked", ![t] = "live"]
            /\ login' = [login EXCEPT ![t] = login[old]]
            /\ Commit(w, Answer(200, t))
        /\ UNCHANGED <<registered, contested>>

\* POST /auth/logout
Logout(w) ==
    /\ At(w, "write", "logout")
    /\ token' = [token EXCEPT ![attempt[w].request.token] = "revoked"]
    /\ Commit(w, Plain(204))
    /\ UNCHANGED <<registered, login, contested>>

\* refresh_tokens.expires_at passes.
ExpireToken(t) ==
    /\ token[t] = "live"
    /\ token' = [token EXCEPT ![t] = "expired"]
    /\ UNCHANGED <<stored, registered, attempt, login, contested, life>>

-----------------------------------------------------------------------------

Next ==
    \/ \E w \in Workers, k \in Keys, r \in Requests : Answered(w, k, r) \/ Admit(w, k, r)
    \/ \E w \in Workers :
        \/ PostExpense(w) \/ Register(w) \/ Login(w)
        \/ CheckToken(w) \/ Refresh(w) \/ Logout(w)
        \/ Store(w) \/ Die(w)
    \/ \E k \in Keys : Expire(k) \/ SweepKey(k)
    \/ \E t \in Tokens : ExpireToken(t)

Spec == Init /\ [][Next]_vars

-----------------------------------------------------------------------------
(* Properties.                                                             *)

TypeOK ==
    /\ stored \in [Keys -> Rows \cup {None}]
    /\ registered \in BOOLEAN
    /\ token \in [Tokens -> {"unissued", "live", "revoked", "expired"}]
    /\ attempt \in [Workers -> Attempts \cup {None}]
    /\ login \in [Tokens -> Tokens \cup {None}]
    /\ contested \subseteq Tokens
    /\ life \in [Keys -> Lives \cup {None}]

\* A request sent again and again under one key takes effect once, and each
\* time with the same answer, until the key expires; nobody else gets that
\* answer.  This needs that attempts do not overlap, none dies, and the key
\* was not inherited from another request.
OneEffectOneAnswer ==
    \A k \in Keys : life[k] # None =>
        life[k].commits <= 1 /\ Cardinality(life[k].answers) <= 1

\* However often a login's tokens are refreshed, retried and logged out, at
\* most one of them can be used, unless two requests were using one at once.
OneLiveToken ==
    \A t, u \in Tokens :
        token[t] = "live" /\ token[u] = "live" /\ login[t] = login[u] /\ t # u
            => login[t] \in contested

=============================================================================
