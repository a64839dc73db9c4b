--------------------------- MODULE RequestsProofs ---------------------------
(***************************************************************************)
(* Proofs about Requests for any number of workers, keys and tokens.  A    *)
(* token is followed from the check to the write, a key from its look-up   *)
(* to the storing of the answer.                                           *)
(***************************************************************************)
EXTENDS Requests, FiniteSetTheorems, TLAPS

-----------------------------------------------------------------------------
(* Types.                                                                  *)

LEMMA RequestType ==
    ASSUME NEW r \in Requests
    PROVE  /\ r.token \in Tokens \cup {None}
           /\ r.op \in {"refresh", "logout"} => r.token \in Tokens
  BY DEF Requests

LEMMA AnswerType ==
    ASSUME NEW status \in {200, 201, 204, 401, 409}, NEW t \in Tokens \cup {None}
    PROVE  Answer(status, t) \in Answers /\ Plain(status) \in Answers
  BY DEF Answer, Plain, Answers

\* What a worker is at, with its parts.
LEMMA AttemptType ==
    ASSUME TypeOK, NEW w \in Workers, attempt[w] # None
    PROVE  /\ attempt[w] \in Attempts
           /\ attempt[w].key \in Keys
           /\ attempt[w].request \in Requests
           /\ attempt[w].answer \in IF attempt[w].at = "answered" THEN Answers ELSE {None}
           /\ attempt[w].at \in {"read", "write", "answered"}
  BY DEF TypeOK, Attempts

\* An answer that is given keeps the records of answers what they are.
LEMMA GiveType ==
    ASSUME TypeOK, NEW k \in Keys, NEW r \in Requests, NEW a \in Answers, NEW n \in Nat,
           Give(k, r, a, n)
    PROVE  life' \in [Keys -> Lives \cup {None}]
<1>1. CASE life[k] = None
  BY <1>1 DEF Give, TypeOK
<1>2. CASE life[k] # None
  <2> DEFINE given == life[k].answers \cup {[request |-> r, answer |-> a]}
             new == [commits |-> life[k].commits + n, answers |-> given]
  <2>1. life[k] \in Lives
    BY <1>2 DEF TypeOK
  <2>2. [request |-> r, answer |-> a] \in Given
    BY DEF Given
  <2>3. life[k].commits + n \in Nat /\ given \in SUBSET Given
    BY <2>1, <2>2 DEF Lives
  <2>4. new \in Lives
    BY <2>3 DEF Lives
  <2>5. life' = [life EXCEPT ![k] = new]
    BY <1>2 DEF Give, TypeOK
  <2> QED
    BY <2>4, <2>5 DEF TypeOK
<1> QED
  BY <1>1, <1>2

\* So do the steps that give one, after which the worker is "answered".
LEMMA RespondType ==
    ASSUME TypeOK, NEW w \in Workers, attempt[w] # None, NEW a \in Answers, NEW n \in Nat,
           Respond(w, a, n)
    PROVE  /\ attempt' \in [Workers -> Attempts \cup {None}]
           /\ attempt'[w].at = "answered"
           /\ \A v \in Workers \ {w} : attempt'[v] = attempt[v]
           /\ life' \in [Keys -> Lives \cup {None}]
           /\ stored' = stored
<1> DEFINE b == [attempt[w] EXCEPT !.at = "answered", !.answer = a]
<1>1. b \in Attempts /\ b.at = "answered"
  BY AttemptType DEF Attempts
<1>2. attempt' = [attempt EXCEPT ![w] = b]
  BY AttemptType DEF Respond, TypeOK
<1> QED
  BY <1>1, <1>2, AttemptType, GiveType DEF Respond, TypeOK

LEMMA SpoilType ==
    ASSUME TypeOK, NEW keys, Spoil(keys)
    PROVE  life' \in [Keys -> Lives \cup {None}]
  BY DEF TypeOK, Spoil

-----------------------------------------------------------------------------
(* Types, with what makes the tokens of writes and of logins known ones.   *)

Writing(w) == attempt[w] # None /\ attempt[w].at = "write"

\* An issued token descends from an issued token.
LoginsKnown == \A t \in Tokens \ Unissued : login[t] \in Tokens \ Unissued

\* What is past the check is a refresh or logout with a token that was issued.
WritersChecked ==
    \A w \in Workers : Writing(w) => attempt[w].request.token \in Tokens \ Unissued

Known == TypeOK /\ LoginsKnown /\ WritersChecked

\* No other step than the check takes a worker to its write.
LEMMA NobodyNewWrites ==
    ASSUME TypeOK, WritersChecked, NEW w \in Workers,
           \A t \in Tokens : t \in Unissued' => t \in Unissued,
           \A v \in Workers \ {w} : attempt'[v] = attempt[v],
           ~(attempt'[w] # None /\ attempt'[w].at = "write")
    PROVE  WritersChecked'
  BY DEF WritersChecked, Writing

\* A handler that answers and leaves the tokens as they are.
LEMMA RefuseKeepsKnown ==
    ASSUME Known, NEW w \in Workers, attempt[w] # None, NEW a \in Answers, NEW n \in Nat,
           Respond(w, a, n), UNCHANGED <<token, login, contested>>, registered' \in BOOLEAN
    PROVE  Known'
<1>1. TypeOK'
  BY RespondType DEF Known, TypeOK
<1>2. WritersChecked'
  BY RespondType, NobodyNewWrites DEF Known, Unissued
<1> QED
  BY <1>1, <1>2 DEF Known, LoginsKnown, Unissued

LEMMA KnownStays == Known /\ [Next]_vars => Known'
<1> SUFFICES ASSUME Known, [Next]_vars
             PROVE  Known'
  OBVIOUS
<1> USE DEF Known
<1>1. ASSUME NEW w \in Workers, NEW k \in Keys, NEW r \in Requests, Answered(w, k, r)
      PROVE  Known'
  <2>1. stored[k] \in Rows
    BY <1>1 DEF Answered, IsFresh, TypeOK
  <2>2. stored[k].answer \in Answers
    BY <2>1 DEF Rows
  <2>3. life' \in [Keys -> Lives \cup {None}]
    BY <1>1, <2>2, GiveType DEF Answered, TypeOK
  <2>4. TypeOK'
    BY <1>1, <2>3 DEF Answered, TypeOK, database
  <2> QED
    BY <1>1, <2>4 DEF Answered, LoginsKnown, WritersChecked, Writing, Unissued, database
<1>2. ASSUME NEW w \in Workers, NEW k \in Keys, NEW r \in Requests, Admit(w, k, r)
      PROVE  Known'
  <2> DEFINE a == [at |-> "read", key |-> k, request |-> r, answer |-> None]
  <2>1. a \in Attempts
    BY DEF Attempts
  <2>2. attempt' = [attempt EXCEPT ![w] = a] /\ attempt \in [Workers -> Attempts \cup {None}]
    BY <1>2 DEF Admit, TypeOK
  <2>3. TypeOK'
    BY <1>2, <2>1, <2>2, SpoilType DEF Admit, TypeOK, database
  <2>4. attempt'[w].at # "write"
    BY <2>2
  <2>5. WritersChecked'
    BY <1>2, <2>2, <2>4, NobodyNewWrites DEF Admit, Unissued, database
  <2> QED
    BY <1>2, <2>3, <2>5 DEF Admit, LoginsKnown, Unissued, database
<1>3. ASSUME NEW w \in Workers, PostExpense(w)
      PROVE  Known'
  BY <1>3, AnswerType, RefuseKeepsKnown DEF PostExpense, Commit, At, TypeOK, database
<1>4. ASSUME NEW w \in Workers, Register(w)
      PROVE  Known'
  BY <1>4, AnswerType, RefuseKeepsKnown DEF Register, Refuse, Commit, At, TypeOK, database
<1>5. ASSUME NEW w \in Workers, Login(w)
      PROVE  Known'
  <2>1. CASE ~registered
    BY <1>5, <2>1, AnswerType, RefuseKeepsKnown DEF Login, Refuse, At, TypeOK, database
  <2>2. CASE registered
    <3>1. PICK t \in Unissued :
            /\ token' = [token EXCEPT ![t] = "live"]
            /\ login' = [login EXCEPT ![t] = t]
            /\ Commit(w, Answer(200, t))
            /\ UNCHANGED <<registered, contested>>
      BY <1>5, <2>2 DEF Login
    <3>2. t \in Tokens /\ Answer(200, t) \in Answers
      BY AnswerType DEF Unissued
    <3>3. Unissued' = Unissued \ {t}
      BY <3>1, <3>2 DEF Unissued, TypeOK
    <3>4. attempt[w] # None /\ Respond(w, Answer(200, t), 1)
      BY <1>5, <3>1 DEF Login, At, Commit
    <3>5. TypeOK'
      BY <3>1, <3>2, <3>4, RespondType DEF TypeOK
    <3>6. WritersChecked'
      BY <3>2, <3>3, <3>4, RespondType, NobodyNewWrites
    <3>7. LoginsKnown'
      BY <3>1, <3>2, <3>3 DEF LoginsKnown, TypeOK
    <3> QED
      BY <3>5, <3>6, <3>7
  <2> QED
    BY <2>1, <2>2
<1>6. ASSUME NEW w \in Workers, CheckToken(w)
      PROVE  Known'
  <2> DEFINE t == attempt[w].request.token
             b == [attempt[w] EXCEPT !.at = "write"]
  <2>1. attempt[w] # None /\ attempt[w].at = "read" /\ t \in Tokens
    BY <1>6, AttemptType, RequestType DEF CheckToken, At
  <2>2. CASE token[t] # "live"
    BY <1>6, <2>1, <2>2, AnswerType, RefuseKeepsKnown DEF CheckToken, Refuse, TypeOK, database
  <2>3. CASE token[t] = "live"
    <3>1. b \in Attempts /\ b.request.token = t
      BY <2>1, AttemptType DEF Attempts
    <3>2. attempt' = [attempt EXCEPT ![w] = b]
      BY <1>6, <2>1, <2>3, AttemptType DEF CheckToken, TypeOK
    <3>3. t \in Tokens \ Unissued /\ login[t] \in Tokens
      BY <2>1, <2>3 DEF Unissued, LoginsKnown
    <3>4. contested' = contested \cup {l \in {login[t]} : Using(l) # {}}
      BY <1>6, <2>3 DEF CheckToken
    <3>5. UNCHANGED <<stored, registered, token, login, life>>
      BY <1>6, <2>3 DEF CheckToken, database
    <3>6. contested' \subseteq Tokens
      BY <3>3, <3>4 DEF TypeOK
    <3>7. TypeOK'
      BY <3>1, <3>2, <3>5, <3>6 DEF TypeOK
    <3>8. WritersChecked'
      BY <3>1, <3>2, <3>3, <3>5 DEF WritersChecked, Writing, Unissued, TypeOK
    <3> QED
      BY <3>5, <3>7, <3>8 DEF LoginsKnown, Unissued
  <2> QED
    BY <2>2, <2>3
<1>7. ASSUME NEW w \in Workers, Refresh(w)
      PROVE  Known'
  <2> DEFINE old == attempt[w].request.token
  <2>1. attempt[w] # None /\ old \in Tokens \ Unissued
    BY <1>7 DEF Refresh, At, WritersChecked, Writing
  <2>2. PICK t \in Unissued :
          /\ token' = [token EXCEPT ![old] = "revoked", ![t] = "live"]
          /\ login' = [login EXCEPT ![t] = login[old]]
          /\ Respond(w, Answer(200, t), 1)
          /\ UNCHANGED <<registered, contested>>
    BY <1>7 DEF Refresh, Commit
  <2>3. t \in Tokens /\ Answer(200, t) \in Answers
    BY AnswerType DEF Unissued
  <2>4. Unissued' = Unissued \ {t}
    BY <2>1, <2>2, <2>3 DEF Unissued, TypeOK
  <2>5. login[old] \in Tokens \ Unissued
    BY <2>1 DEF LoginsKnown
  <2>6. TypeOK'
    BY <2>1, <2>2, <2>3, <2>5, RespondType DEF TypeOK
  <2>7. WritersChecked'
    BY <2>1, <2>2, <2>3, <2>4, RespondType, NobodyNewWrites
  <2>8. LoginsKnown'
    BY <2>2, <2>3, <2>4, <2>5 DEF LoginsKnown, TypeOK
  <2> QED
    BY <2>6, <2>7, <2>8
<1>8. ASSUME NEW w \in Workers, Logout(w)
      PROVE  Known'
  <2> DEFINE old == attempt[w].request.token
  <2>1. attempt[w] # None /\ old \in Tokens \ Unissued
    BY <1>8 DEF Logout, At, WritersChecked, Writing
  <2>2. token' = [token EXCEPT ![old] = "revoked"] /\ Respond(w, Plain(204), 1)
    BY <1>8 DEF Logout, Commit
  <2>3. Plain(204) \in Answers
    BY AnswerType
  <2>4. Unissued' = Unissued
    BY <2>1, <2>2 DEF Unissued, TypeOK
  <2>5. TypeOK'
    BY <1>8, <2>1, <2>2, <2>3, RespondType DEF Logout, TypeOK
  <2>6. WritersChecked'
    BY <2>1, <2>2, <2>3, <2>4, RespondType, NobodyNewWrites
  <2> QED
    BY <1>8, <2>4, <2>5, <2>6 DEF Logout, LoginsKnown
<1>9. ASSUME NEW w \in Workers, Store(w)
      PROVE  Known'
  <2> DEFINE a == attempt[w]
  <2>1. a # None /\ a.at = "answered"
    BY <1>9 DEF Store
  <2>2. a.key \in Keys /\ a.request \in Requests /\ a.answer \in Answers
    BY <2>1, AttemptType
  <2>3. Upsert(a.key, a.request, a.answer) \in Rows
    <3>1. stored[a.key] = None \/ stored[a.key].request \in Requests
      BY <2>2 DEF TypeOK, Rows
    <3> QED
      BY <2>2, <3>1 DEF Upsert, Rows
  <2>4. /\ stored' = [stored EXCEPT ![a.key] = Upsert(a.key, a.request, a.answer)]
        /\ attempt' = [attempt EXCEPT ![w] = None]
        /\ UNCHANGED <<database, login, contested, life>>
    BY <1>9 DEF Store
  <2>5. TypeOK'
    BY <2>2, <2>3, <2>4 DEF TypeOK, database
  <2> QED
    BY <2>4, <2>5 DEF TypeOK, LoginsKnown, WritersChecked, Writing, Unissued, database
<1>10. ASSUME NEW w \in Workers, Die(w)
       PROVE  Known'
  <2>1. /\ attempt' = [attempt EXCEPT ![w] = None]
        /\ UNCHANGED <<stored, database, login, contested>>
    BY <1>10 DEF Die
  <2>2. TypeOK'
    BY <1>10, <2>1, SpoilType DEF Die, TypeOK, database
  <2> QED
    BY <2>1, <2>2 DEF TypeOK, LoginsKnown, WritersChecked, Writing, Unissued, database
<1>11. ASSUME NEW k \in Keys, Expire(k) \/ SweepKey(k)
       PROVE  Known'
  <2>1. UNCHANGED <<registered, token, attempt, login, contested>>
    BY <1>11 DEF Expire, SweepKey, database
  <2>2. NewLife \in Lives
    BY DEF NewLife, Lives
  <2>3. ASSUME Expire(k)
        PROVE  TypeOK'
    <3>1. stored[k] \in Rows
      BY <2>3 DEF Expire, IsFresh, TypeOK
    <3>2. [stored[k] EXCEPT !.fresh = FALSE] \in Rows
      BY <3>1 DEF Rows
    <3>3. stored' \in [Keys -> Rows \cup {None}]
      BY <2>3, <3>2 DEF Expire, TypeOK
    <3>4. life' \in [Keys -> Lives \cup {None}]
      BY <2>2, <2>3 DEF Expire, TypeOK
    <3> QED
      BY <2>1, <3>3, <3>4 DEF TypeOK
  <2>4. ASSUME SweepKey(k)
        PROVE  TypeOK'
    BY <2>1, <2>4 DEF SweepKey, TypeOK
  <2>5. TypeOK'
    BY <1>11, <2>3, <2>4
  <2> QED
    BY <2>1, <2>5 DEF LoginsKnown, WritersChecked, Writing, Unissued
<1>12. ASSUME NEW t \in Tokens, ExpireToken(t)
       PROVE  Known'
  <2>1. Unissued' = Unissued
    BY <1>12 DEF ExpireToken, Unissued, TypeOK
  <2>2. TypeOK'
    BY <1>12 DEF ExpireToken, TypeOK
  <2> QED
    BY <1>12, <2>1, <2>2 DEF ExpireToken, LoginsKnown, WritersChecked, Writing
<1>13. ASSUME UNCHANGED vars
       PROVE  Known'
  BY <1>13 DEF vars, database, TypeOK, LoginsKnown, WritersChecked, Writing, Unissued
<1> QED
  BY <1>1, <1>2, <1>3, <1>4, <1>5, <1>6, <1>7, <1>8, <1>9, <1>10, <1>11, <1>12, <1>13 DEF Next

LEMMA InitKnown == Init => Known
<1>1. NewLife \in Lives
  BY DEF NewLife, Lives
<1> QED
  BY <1>1 DEF Init, Known, TypeOK, LoginsKnown, WritersChecked, Writing, Unissued

\* Every row, attempt and token is what its table says, in every state.
THEOREM RowsKeepTypes == Spec => []TypeOK
  BY InitKnown, KnownStays, PTL DEF Spec, Known

-----------------------------------------------------------------------------
(* One usable token.                                                       *)

Live(t) == token[t] = "live"
About(w) == attempt[w].request.token
Disputed(t) == login[t] \in contested

\* Two that write about tokens of one login have been noticed.
WritersAlone ==
    \A v, w \in Workers :
        Writing(v) /\ Writing(w) /\ v # w /\ login[About(v)] = login[About(w)]
            => Disputed(About(v))

\* While one writes about a token, no other of its login is live: none was at
\* the check, and none has been issued since.
WritersHaveTheToken ==
    \A w \in Workers, t \in Tokens :
        Writing(w) /\ Live(t) /\ login[t] = login[About(w)] => t = About(w) \/ Disputed(t)

OneToken == OneLiveToken /\ WritersAlone /\ WritersHaveTheToken

\* Fewer live tokens and fewer writers do no harm.
LEMMA FewerLiveOrWriting ==
    ASSUME OneToken, UNCHANGED <<login, contested>>,
           \A t \in Tokens : Live(t)' => Live(t),
           \A w \in Workers : Writing(w)' => Writing(w) /\ attempt'[w] = attempt[w]
    PROVE  OneToken'
  BY DEF OneToken, OneLiveToken, WritersAlone, WritersHaveTheToken, Live, About, Disputed

\* A worker that answers is not writing any more, and the others go on.
LEMMA AnswerEndsWriting ==
    ASSUME TypeOK, NEW w \in Workers, attempt[w] # None, NEW a \in Answers, NEW n \in Nat,
           Respond(w, a, n)
    PROVE  \A v \in Workers : Writing(v)' => v # w /\ Writing(v) /\ attempt'[v] = attempt[v]
  BY RespondType DEF Writing

LEMMA OneTokenStays == Known /\ OneToken /\ [Next]_vars => OneToken'
<1> SUFFICES ASSUME Known, OneToken, [Next]_vars
             PROVE  OneToken'
  OBVIOUS
<1> USE DEF Known
<1>1. ASSUME NEW w \in Workers, NEW k \in Keys, NEW r \in Requests,
             Answered(w, k, r) \/ Admit(w, k, r)
      PROVE  OneToken'
  <2>1. UNCHANGED <<token, login, contested>>
    BY <1>1 DEF Answered, Admit, database
  <2>2. \A v \in Workers : Writing(v)' => Writing(v) /\ attempt'[v] = attempt[v]
    BY <1>1 DEF Answered, Admit, Writing, TypeOK
  <2> QED
    BY <2>1, <2>2, FewerLiveOrWriting DEF Live
<1>2. ASSUME NEW w \in Workers, PostExpense(w) \/ Register(w)
      PROVE  OneToken'
  <2>1. PICK a \in Answers, n \in Nat : Respond(w, a, n)
    BY <1>2, AnswerType DEF PostExpense, Register, Refuse, Commit
  <2>2. UNCHANGED <<token, login, contested>>
    BY <1>2 DEF PostExpense, Register, Refuse, database
  <2> QED
    BY <1>2, <2>1, <2>2, AnswerEndsWriting, FewerLiveOrWriting
       DEF PostExpense, Register, At, Live
<1>3. ASSUME NEW w \in Workers, Login(w)
      PROVE  OneToken'
  <2>1. CASE ~registered
    BY <1>3, <2>1, AnswerType, AnswerEndsWriting, FewerLiveOrWriting
       DEF Login, Refuse, At, Live, database
  <2>2. CASE registered
    <3>1. PICK t \in Unissued :
            /\ token' = [token EXCEPT ![t] = "live"]
            /\ login' = [login EXCEPT ![t] = t]
            /\ Respond(w, Answer(200, t), 1)
            /\ UNCHANGED contested
      BY <1>3, <2>2 DEF Login, Commit
    <3>2. t \in Tokens /\ Answer(200, t) \in Answers
      BY AnswerType DEF Unissued
    <3>3. \A v \in Workers : Writing(v)' => Writing(v) /\ attempt'[v] = attempt[v]
      BY <1>3, <3>1, <3>2, AnswerEndsWriting DEF Login, At
    <3>4. \A v \in Workers : Writing(v) => About(v) \in Tokens \ Unissued
      BY DEF WritersChecked, About
    <3>5. \A u \in Tokens \ {t} : login'[u] = login[u] /\ token'[u] = token[u]
      BY <3>1, <3>2 DEF TypeOK
    <3>6. login'[t] = t
      BY <3>1, <3>2 DEF TypeOK
    <3>7. \A u \in Tokens \ {t} : u \notin Unissued => login'[u] # t
      BY <3>1, <3>5 DEF LoginsKnown
    <3>8. \A u \in Tokens : Live(u)' => u = t \/ (Live(u) /\ u \notin Unissued)
      BY <3>5 DEF Live, Unissued
    <3>9. OneLiveToken'
      BY <3>1, <3>5, <3>6, <3>7, <3>8 DEF OneToken, OneLiveToken, Live
    <3>10. WritersAlone'
      BY <3>1, <3>3, <3>4, <3>5 DEF OneToken, WritersAlone, About, Disputed
    <3>11. WritersHaveTheToken'
      BY <3>1, <3>3, <3>4, <3>5, <3>6, <3>7, <3>8
         DEF OneToken, WritersHaveTheToken, About, Disputed
    <3> QED
      BY <3>9, <3>10, <3>11 DEF OneToken
  <2> QED
    BY <2>1, <2>2
<1>4. ASSUME NEW w \in Workers, CheckToken(w)
      PROVE  OneToken'
  <2> DEFINE t == attempt[w].request.token
  <2>1. attempt[w] # None /\ t \in Tokens
    BY <1>4, AttemptType, RequestType DEF CheckToken, At
  <2>2. CASE token[t] # "live"
    BY <1>4, <2>1, <2>2, AnswerType, AnswerEndsWriting, FewerLiveOrWriting
       DEF CheckToken, Refuse, Live, database
  <2>3. CASE token[t] = "live"
    <3>1. /\ attempt' = [attempt EXCEPT ![w].at = "write"]
          /\ contested' = contested \cup {l \in {login[t]} : Using(l) # {}}
          /\ UNCHANGED <<token, login>>
      BY <1>4, <2>3 DEF CheckToken, database
    <3>2. About(w)' = t /\ \A v \in Workers \ {w} : attempt'[v] = attempt[v]
      BY <2>1, <3>1, AttemptType DEF About, TypeOK, Attempts
    <3>3. \A v \in Workers \ {w} : Writing(v)' => Writing(v) /\ About(v)' = About(v)
      BY <3>2 DEF Writing, About
    <3>4. \A v \in Workers : Writing(v) /\ login[About(v)] = login[t] => login[t] \in contested'
      BY <3>1 DEF Writing, About, Using
    <3>5. contested \subseteq contested'
      BY <3>1
    <3>6. OneLiveToken'
      BY <3>1, <3>5 DEF OneToken, OneLiveToken
    <3>7. WritersAlone'
      BY <3>1, <3>2, <3>3, <3>4, <3>5 DEF OneToken, WritersAlone, Disputed
    <3>8. WritersHaveTheToken'
      BY <2>1, <2>3, <3>1, <3>2, <3>3, <3>5
         DEF OneToken, OneLiveToken, WritersHaveTheToken, Disputed, Live
    <3> QED
      BY <3>6, <3>7, <3>8 DEF OneToken
  <2> QED
    BY <2>2, <2>3
<1>5. ASSUME NEW w \in Workers, Refresh(w)
      PROVE  OneToken'
  <2> DEFINE old == About(w)
  <2>1. attempt[w] # None /\ Writing(w) /\ old \in Tokens \ Unissued
    BY <1>5 DEF Refresh, At, WritersChecked, Writing, About
  <2>2. PICK t \in Unissued :
          /\ token' = [token EXCEPT ![old] = "revoked", ![t] = "live"]
          /\ login' = [login EXCEPT ![t] = login[old]]
          /\ Respond(w, Answer(200, t), 1)
          /\ UNCHANGED contested
    BY <1>5 DEF Refresh, Commit, About
  <2>3. t \in Tokens /\ t # old /\ Answer(200, t) \in Answers
    BY <2>1, AnswerType DEF Unissued
  <2>4. \A v \in Workers : Writing(v)' => v # w /\ Writing(v) /\ attempt'[v] = attempt[v]
    BY <2>1, <2>2, <2>3, AnswerEndsWriting
  <2>5. \A v \in Workers : Writing(v) => About(v) \in Tokens \ Unissued
    BY DEF WritersChecked, About
  <2>6. \A u \in Tokens \ {t} : login'[u] = login[u]
    BY <2>2, <2>3 DEF TypeOK
  <2>7. login'[t] = login[old]
    BY <2>2, <2>3 DEF TypeOK
  <2>8. \A u \in Tokens : Live(u)' => u = t \/ (Live(u) /\ u # old)
    BY <2>1, <2>2, <2>3 DEF Live, TypeOK
  <2>9. \A u \in Tokens : Live(u) /\ u # old /\ login[u] = login[old] => login[old] \in contested
    BY <2>1 DEF OneToken, WritersHaveTheToken, Disputed
  <2>10. OneLiveToken'
    BY <2>2, <2>6, <2>7, <2>8, <2>9 DEF OneToken, OneLiveToken, Live
  <2>11. WritersAlone'
    BY <2>2, <2>4, <2>5, <2>6 DEF OneToken, WritersAlone, About, Disputed
  <2>12. \A v \in Workers : Writing(v)' /\ login[About(v)] = login[old] => login[old] \in contested
    BY <2>1, <2>4 DEF OneToken, WritersAlone, Disputed
  <2>13. WritersHaveTheToken'
    BY <2>2, <2>4, <2>5, <2>6, <2>7, <2>8, <2>12
       DEF OneToken, WritersHaveTheToken, About, Disputed
  <2> QED
    BY <2>10, <2>11, <2>13 DEF OneToken
<1>6. ASSUME NEW w \in Workers, Logout(w)
      PROVE  OneToken'
  <2>1. attempt[w] # None /\ About(w) \in Tokens
    BY <1>6 DEF Logout, At, WritersChecked, Writing, About
  <2>2. token' = [token EXCEPT ![About(w)] = "revoked"] /\ Respond(w, Plain(204), 1)
    BY <1>6 DEF Logout, Commit, About
  <2>3. Plain(204) \in Answers
    BY AnswerType
  <2>4. \A t \in Tokens : Live(t)' => Live(t)
    BY <2>1, <2>2 DEF Live, TypeOK
  <2> QED
    BY <1>6, <2>1, <2>2, <2>3, <2>4, AnswerEndsWriting, FewerLiveOrWriting DEF Logout
<1>7. ASSUME NEW w \in Workers, Store(w) \/ Die(w)
      PROVE  OneToken'
  <2>1. attempt' = [attempt EXCEPT ![w] = None] /\ UNCHANGED <<token, login, contested>>
    BY <1>7 DEF Store, Die, database
  <2> QED
    BY <2>1, FewerLiveOrWriting DEF Writing, Live, TypeOK
<1>8. ASSUME NEW k \in Keys, Expire(k) \/ SweepKey(k)
      PROVE  OneToken'
  BY <1>8, FewerLiveOrWriting DEF Expire, SweepKey, Writing, Live, database
<1>9. ASSUME NEW t \in Tokens, ExpireToken(t)
      PROVE  OneToken'
  <2>1. \A u \in Tokens : Live(u)' => Live(u)
    BY <1>9 DEF ExpireToken, Live, TypeOK
  <2> QED
    BY <1>9, <2>1, FewerLiveOrWriting DEF ExpireToken, Writing
<1>10. ASSUME UNCHANGED vars
       PROVE  OneToken'
  BY <1>10, FewerLiveOrWriting DEF vars, Writing, Live, database
<1> QED
  BY <1>1, <1>2, <1>3, <1>4, <1>5, <1>6, <1>7, <1>8, <1>9, <1>10 DEF Next

\* Of a login at most one refresh token can be used, through any sequence of
\* refreshes, logouts, retries and failures, as long as no two requests were
\* past the check of its tokens at one time.
THEOREM LoginKeepsOneToken == Spec => []OneLiveToken
<1>1. Init => Known /\ OneToken
  <2>1. Init => Known
    BY InitKnown
  <2>2. Init => OneToken
    BY DEF Init, OneToken, OneLiveToken, WritersAlone, WritersHaveTheToken, Writing, Live
  <2> QED
    BY <2>1, <2>2
<1> QED
  BY <1>1, KnownStays, OneTokenStays, PTL DEF Spec, OneToken

-----------------------------------------------------------------------------
(* One effect and one answer.                                              *)

\* The key has been used for one run of a handler, which gave this answer.
Once(k, r, a) == life[k].commits <= 1 /\ life[k].answers = {[request |-> r, answer |-> a]}

\* The life of a key that is not spoiled: free; or one attempt at work, which
\* has the key for its request and has not answered, or has answered once; or
\* holding the one answer.
OneRun(k) ==
    life[k] # None =>
        /\ \A v, w \in Busy(k) : v = w
        /\ \A w \in Busy(k) :
            /\ ~IsFresh(k) /\ ~IsOther(k, attempt[w].request)
            /\ attempt[w].at # "answered" => life[k] = NewLife
            /\ attempt[w].at = "answered" => Once(k, attempt[w].request, attempt[w].answer)
        /\ Busy(k) = {} /\ ~IsFresh(k) => life[k] = NewLife
        /\ IsFresh(k) => Once(k, stored[k].request, stored[k].answer)

OneRuns == \A k \in Keys : OneRun(k)

\* The keys that a step does not touch.
LEMMA OtherKeysRun ==
    ASSUME NEW k \in Keys, OneRun(k), stored'[k] = stored[k], life'[k] = life[k],
           \A w \in Workers : w \in Busy(k) \/ w \in Busy(k)' => attempt'[w] = attempt[w]
    PROVE  OneRun(k)'
<1>1. Busy(k)' = Busy(k)
  BY DEF Busy
<1>2. \A w \in Busy(k) : attempt'[w] = attempt[w]
  BY DEF Busy
<1> QED
  BY <1>1, <1>2 DEF OneRun, Once, IsFresh, IsOther

\* A spoiled key asks for nothing.
LEMMA SpoiledRuns ==
    ASSUME NEW k \in Keys, life'[k] = None
    PROVE  OneRun(k)'
  BY DEF OneRun

\* A worker that changes, on the same key, leaves the other keys to theirs.
LEMMA OneWorkerOneKey ==
    ASSUME NEW w \in Workers, NEW k \in Keys, NEW c \in Keys, c # k,
           attempt \in [Workers -> Attempts \cup {None}],
           NEW b, attempt' = [attempt EXCEPT ![w] = b],
           attempt[w] = None \/ attempt[w].key = k, b = None \/ b.key = k
    PROVE  \A v \in Workers : v \in Busy(c) \/ v \in Busy(c)' => attempt'[v] = attempt[v]
  BY DEF Busy

\* The handler answers for the first time.
LEMMA HandlerRuns ==
    ASSUME TypeOK, OneRuns, NEW w \in Workers, attempt[w] # None,
           attempt[w].at # "answered", NEW a \in Answers, NEW n \in {0, 1},
           Respond(w, a, n)
    PROVE  OneRuns'
<1>0. PICK k \in Keys : k = attempt[w].key
  BY AttemptType
<1>r. PICK r \in Requests : r = attempt[w].request
  BY AttemptType
<1> DEFINE b == [attempt[w] EXCEPT !.at = "answered", !.answer = a]
<1>1. /\ b \in Attempts /\ b # None
      /\ b.key = k /\ b.request = r /\ b.answer = a /\ b.at = "answered"
  BY <1>0, <1>r, AttemptType, NoneAssumption DEF Attempts
<1>2. attempt' = [attempt EXCEPT ![w] = b] /\ stored' = stored
  BY AttemptType DEF Respond, TypeOK
<1>3. Give(k, r, a, n)
  BY <1>0, <1>r DEF Respond
<1>4. OneRun(k)'
  <2>1. CASE life[k] = None
    BY <2>1, <1>3, SpoiledRuns DEF Give
  <2>2. CASE life[k] # None
    <3>1. w \in Busy(k) /\ OneRun(k)
      BY <1>0 DEF Busy, OneRuns
    <3>2. life[k] = NewLife /\ ~IsFresh(k) /\ ~IsOther(k, r) /\ \A v \in Busy(k) : v = w
      BY <1>r, <2>2, <3>1 DEF OneRun
    <3>3. Busy(k)' = {w} /\ attempt'[w] = b
      BY <1>1, <1>2, <3>1, <3>2 DEF Busy, TypeOK
    <3>4. life'[k] = [commits |-> life[k].commits + n,
                      answers |-> life[k].answers \cup {[request |-> r, answer |-> a]}]
      BY <1>1, <1>3, <2>2 DEF Give, TypeOK
    <3>5. life'[k].commits <= 1 /\ life'[k].answers = {[request |-> r, answer |-> a]}
      BY <3>2, <3>4 DEF NewLife
    <3>6. ~IsFresh(k)' /\ ~IsOther(k, r)'
      BY <1>2, <3>2 DEF IsFresh, IsOther
    <3> QED
      BY <1>1, <3>3, <3>5, <3>6 DEF OneRun, Once, IsOther
  <2> QED
    BY <2>1, <2>2
<1>5. ASSUME NEW c \in Keys, c # k
      PROVE  OneRun(c)'
  <2>1. life'[c] = life[c]
    BY <1>1, <1>3, <1>5 DEF Give, TypeOK
  <2>2. \A v \in Workers : v \in Busy(c) \/ v \in Busy(c)' => attempt'[v] = attempt[v]
    BY <1>0, <1>1, <1>2, <1>5, OneWorkerOneKey DEF TypeOK
  <2> QED
    BY <1>2, <2>1, <2>2, OtherKeysRun DEF OneRuns
<1> QED
  BY <1>4, <1>5 DEF OneRuns

\* A step that neither stores, nor answers, nor takes up or drops an attempt.
LEMMA NothingRuns ==
    ASSUME OneRuns, UNCHANGED <<stored, attempt, life>>
    PROVE  OneRuns'
<1>1. ASSUME NEW k \in Keys
      PROVE  OneRun(k)'
  BY OtherKeysRun DEF OneRuns
<1> QED
  BY <1>1 DEF OneRuns

LEMMA OneRunsStay == Known /\ OneRuns /\ [Next]_vars => OneRuns'
<1> SUFFICES ASSUME Known, OneRuns, [Next]_vars
             PROVE  OneRuns'
  OBVIOUS
<1> USE DEF Known
<1>1. ASSUME NEW w \in Workers, NEW k \in Keys, NEW r \in Requests, Answered(w, k, r)
      PROVE  OneRuns'
  <2>1. UNCHANGED <<stored, attempt>> /\ IsFresh(k)
    BY <1>1 DEF Answered
  <2>2. CASE IsOther(k, r) \/ life[k] = None
    <3>1. UNCHANGED life
      BY <1>1, <2>2 DEF Answered, Give
    <3> QED
      BY <2>1, <3>1, NothingRuns
  <2>3. CASE ~IsOther(k, r) /\ life[k] # None
    <3>1. stored[k].request = r
      BY <2>1, <2>3 DEF IsOther, IsFresh
    <3>2. life' = [life EXCEPT ![k] =
                [commits |-> life[k].commits + 0,
                 answers |-> life[k].answers \cup {[request |-> r, answer |-> stored[k].answer]}]]
      BY <1>1, <2>3 DEF Answered, Give, TypeOK
    <3>3. Once(k, r, stored[k].answer) /\ life[k] \in Lives
      BY <2>1, <2>3, <3>1 DEF OneRuns, OneRun, TypeOK
    <3>4. life' = life
      BY <3>2, <3>3 DEF Once, Lives, TypeOK
    <3> QED
      BY <2>1, <3>4, NothingRuns
  <2> QED
    BY <2>2, <2>3
<1>2. ASSUME NEW w \in Workers, NEW k \in Keys, NEW r \in Requests, Admit(w, k, r)
      PROVE  OneRuns'
  <2> DEFINE b == [at |-> "read", key |-> k, request |-> r, answer |-> None]
  <2>1. b \in Attempts /\ b # None /\ b.key = k
    BY NoneAssumption DEF Attempts
  <2>2. attempt' = [attempt EXCEPT ![w] = b] /\ attempt[w] = None /\ stored' = stored /\ ~IsFresh(k)
    BY <1>2 DEF Admit
  <2>3. life' = [c \in Keys |-> IF c = k /\ (Busy(k) # {} \/ IsOther(k, r)) THEN None
                                ELSE life[c]]
    BY <1>2 DEF Admit, Spoil
  <2>4. OneRun(k)'
    <3>1. CASE Busy(k) # {} \/ IsOther(k, r)
      BY <2>3, <3>1, SpoiledRuns
    <3>2. CASE Busy(k) = {} /\ ~IsOther(k, r)
      <4>1. life'[k] = life[k]
        BY <2>3, <3>2
      <4>2. Busy(k)' = {w} /\ attempt'[w] = b
        BY <2>1, <2>2, <3>2 DEF Busy, TypeOK
      <4>3. life[k] # None => life[k] = NewLife
        BY <2>2, <3>2 DEF OneRuns, OneRun
      <4>4. ~IsFresh(k)' /\ ~IsOther(k, r)'
        BY <2>2, <3>2 DEF IsFresh, IsOther
      <4> QED
        BY <4>1, <4>2, <4>3, <4>4 DEF OneRun, IsOther
    <3> QED
      BY <3>1, <3>2
  <2>5. ASSUME NEW c \in Keys, c # k
        PROVE  OneRun(c)'
    <3>1. life'[c] = life[c]
      BY <2>3, <2>5
    <3>2. \A v \in Workers : v \in Busy(c) \/ v \in Busy(c)' => attempt'[v] = attempt[v]
      <4> HIDE DEF b
      <4>1. attempt[w] = None /\ b.key = k /\ c # k
        BY <2>1, <2>2, <2>5
      <4>2. attempt \in [Workers -> Attempts \cup {None}]
        BY DEF TypeOK
      <4> QED
        BY <2>2, <4>1, <4>2, OneWorkerOneKey
    <3> QED
      BY <2>2, <3>1, <3>2, OtherKeysRun DEF OneRuns
  <2> QED
    BY <2>4, <2>5 DEF OneRuns
<1>3. ASSUME NEW w \in Workers, PostExpense(w) \/ Register(w) \/ Login(w) \/ Refresh(w) \/ Logout(w)
      PROVE  OneRuns'
  <2>1. attempt[w] # None /\ attempt[w].at # "answered"
    BY <1>3 DEF PostExpense, Register, Login, Refresh, Logout, At
  <2>2. \A t \in Unissued : Answer(200, t) \in Answers
    BY AnswerType DEF Unissued
  <2>3. PICK a \in Answers, n \in {0, 1} : Respond(w, a, n)
    BY <1>3, <2>2, AnswerType DEF PostExpense, Register, Login, Refresh, Logout, Refuse, Commit
  <2> QED
    BY <2>1, <2>3, HandlerRuns
<1>4. ASSUME NEW w \in Workers, CheckToken(w)
      PROVE  OneRuns'
  <2>1. attempt[w] # None /\ attempt[w].at = "read"
    BY <1>4 DEF CheckToken, At
  <2>2. CASE token[attempt[w].request.token] # "live"
    BY <1>4, <2>1, <2>2, AnswerType, HandlerRuns DEF CheckToken, Refuse
  <2>3. CASE token[attempt[w].request.token] = "live"
    <3> DEFINE b == [attempt[w] EXCEPT !.at = "write"]
    <3>1. /\ b.key = attempt[w].key
          /\ b.request = attempt[w].request /\ b.at = "write"
      BY AttemptType, <2>1 DEF Attempts
    <3>2. attempt' = [attempt EXCEPT ![w] = b] /\ UNCHANGED <<stored, life>>
      BY <1>4, <2>1, <2>3, AttemptType DEF CheckToken, TypeOK
    <3>3. b \in Attempts /\ b # None
      BY <2>1, AttemptType, RequestType, NoneAssumption DEF Attempts
    <3>4. ASSUME NEW c \in Keys
          PROVE  OneRun(c)'
      <4>1. Busy(c)' = Busy(c)
        BY <2>1, <3>1, <3>2, <3>3 DEF Busy, TypeOK
      <4>2. \A v \in Busy(c) : /\ attempt'[v].request = attempt[v].request
                               /\ attempt'[v].at = "answered" <=> attempt[v].at = "answered"
                               /\ attempt'[v].at = "answered" => attempt'[v] = attempt[v]
        BY <2>1, <3>1, <3>2 DEF Busy, TypeOK
      <4> QED
        BY <3>2, <4>1, <4>2 DEF OneRuns, OneRun, Once, IsFresh, IsOther
    <3> QED
      BY <3>4 DEF OneRuns
  <2> QED
    BY <2>2, <2>3
<1>5. ASSUME NEW w \in Workers, Store(w)
      PROVE  OneRuns'
  <2>1. PICK k \in Keys, r \in Requests, a \in Answers :
          /\ attempt[w] # None /\ attempt[w].at = "answered"
          /\ k = attempt[w].key /\ r = attempt[w].request /\ a = attempt[w].answer
    BY <1>5, AttemptType DEF Store
  <2>2. /\ stored' = [stored EXCEPT ![k] = Upsert(k, r, a)]
        /\ attempt' = [attempt EXCEPT ![w] = None]
        /\ life' = life
    BY <1>5, <2>1 DEF Store
  <2>3. OneRun(k)'
    <3>1. CASE life[k] = None
      BY <2>2, <3>1, SpoiledRuns, <2>1
    <3>2. CASE life[k] # None
      <4>1. w \in Busy(k) /\ OneRun(k)
        BY <2>1 DEF Busy, OneRuns
      <4>2. Busy(k)' = {}
        BY <2>1, <2>2, <3>2, <4>1 DEF Busy, OneRun, TypeOK
      <4>3. Once(k, r, a) /\ ~IsOther(k, r)
        BY <2>1, <3>2, <4>1 DEF OneRun
      <4>4. stored'[k] = [request |-> r, answer |-> a, fresh |-> TRUE]
        BY <2>2, <4>3 DEF Upsert, IsOther, TypeOK
      <4>5. stored'[k] \in Rows
        BY <4>4 DEF Rows
      <4>6. IsFresh(k)' /\ Once(k, stored[k].request, stored[k].answer)'
        BY <2>2, <4>3, <4>4, <4>5, NoneAssumption DEF IsFresh, Once
      <4> QED
        BY <4>2, <4>6 DEF OneRun
    <3> QED
      BY <3>1, <3>2
  <2>4. ASSUME NEW c \in Keys, c # k
        PROVE  OneRun(c)'
    <3>1. stored'[c] = stored[c] /\ life'[c] = life[c]
      BY <2>1, <2>2, <2>4 DEF TypeOK
    <3>2. \A v \in Workers : v \in Busy(c) \/ v \in Busy(c)' => attempt'[v] = attempt[v]
      BY <2>1, <2>2, <2>4, OneWorkerOneKey DEF TypeOK
    <3> QED
      BY <3>1, <3>2, OtherKeysRun DEF OneRuns
  <2> QED
    BY <2>3, <2>4 DEF OneRuns
<1>6. ASSUME NEW w \in Workers, Die(w)
      PROVE  OneRuns'
  <2>1. PICK k \in Keys : attempt[w] # None /\ k = attempt[w].key
    BY <1>6, AttemptType DEF Die
  <2>2. /\ attempt' = [attempt EXCEPT ![w] = None] /\ stored' = stored
        /\ life' = [c \in Keys |-> IF c = k THEN None ELSE life[c]]
    BY <1>6, <2>1 DEF Die, Spoil
  <2>3. OneRun(k)'
    BY <2>1, <2>2, SpoiledRuns
  <2>4. ASSUME NEW c \in Keys, c # k
        PROVE  OneRun(c)'
    <3>1. \A v \in Workers : v \in Busy(c) \/ v \in Busy(c)' => attempt'[v] = attempt[v]
      BY <2>1, <2>2, <2>4, OneWorkerOneKey DEF TypeOK
    <3> QED
      BY <2>2, <2>4, <3>1, OtherKeysRun DEF OneRuns
  <2> QED
    BY <2>3, <2>4 DEF OneRuns
<1>7. ASSUME NEW k \in Keys, Expire(k)
      PROVE  OneRuns'
  <2>1. attempt' = attempt /\ stored[k] \in Rows
    BY <1>7 DEF Expire, IsFresh, TypeOK
  <2>2. stored' = [stored EXCEPT ![k] = [stored[k] EXCEPT !.fresh = FALSE]]
    BY <1>7 DEF Expire, TypeOK
  <2>3. ~IsFresh(k)'
    BY <2>1, <2>2 DEF IsFresh, Rows, TypeOK
  <2>4. life' = [life EXCEPT ![k] = IF Busy(k) = {} THEN NewLife ELSE None]
    BY <1>7 DEF Expire
  <2>5. OneRun(k)'
    <3>1. CASE Busy(k) # {}
      BY <2>4, <3>1, SpoiledRuns DEF TypeOK
    <3>2. CASE Busy(k) = {}
      <4>1. Busy(k)' = {} /\ life'[k] = NewLife
        BY <2>1, <2>4, <3>2 DEF Busy, TypeOK
      <4> QED
        BY <2>3, <4>1 DEF OneRun
    <3> QED
      BY <3>1, <3>2
  <2>6. ASSUME NEW c \in Keys, c # k
        PROVE  OneRun(c)'
    <3>1. stored'[c] = stored[c] /\ life'[c] = life[c]
      BY <2>2, <2>4, <2>6 DEF TypeOK
    <3> QED
      BY <2>1, <3>1, OtherKeysRun DEF OneRuns
  <2> QED
    BY <2>5, <2>6 DEF OneRuns
<1>8. ASSUME NEW k \in Keys, SweepKey(k)
      PROVE  OneRuns'
  <2>1. /\ stored' = [stored EXCEPT ![k] = None] /\ UNCHANGED <<attempt, life>>
        /\ ~IsFresh(k)
    BY <1>8 DEF SweepKey, IsFresh
  <2>2. OneRun(k)'
    <3>1. Busy(k)' = Busy(k) /\ stored'[k] = None
      BY <2>1 DEF Busy, TypeOK
    <3> QED
      BY <2>1, <3>1 DEF OneRuns, OneRun, Once, IsFresh, IsOther
  <2>3. ASSUME NEW c \in Keys, c # k
        PROVE  OneRun(c)'
    <3>1. stored'[c] = stored[c]
      BY <2>1, <2>3 DEF TypeOK
    <3> QED
      BY <2>1, <3>1, OtherKeysRun DEF OneRuns
  <2> QED
    BY <2>2, <2>3 DEF OneRuns
<1>9. ASSUME NEW t \in Tokens, ExpireToken(t)
      PROVE  OneRuns'
  BY <1>9, NothingRuns DEF ExpireToken
<1>10. ASSUME UNCHANGED vars
       PROVE  OneRuns'
  BY <1>10, NothingRuns DEF vars
<1> QED
  BY <1>1, <1>2, <1>3, <1>4, <1>5, <1>6, <1>7, <1>8, <1>9, <1>10 DEF Next

LEMMA OneRunsSuffice == TypeOK /\ OneRuns => OneEffectOneAnswer
<1> SUFFICES ASSUME OneRuns, NEW k \in Keys, life[k] # None
             PROVE  life[k].commits <= 1 /\ Cardinality(life[k].answers) <= 1
  BY DEF OneEffectOneAnswer
<1>1. CASE life[k] = NewLife
  BY <1>1, FS_EmptySet DEF NewLife
<1>2. CASE \E r, a : Once(k, r, a)
  <2>1. PICK r, a : Once(k, r, a)
    BY <1>2
  <2>2. Cardinality(life[k].answers) = 1
    BY <2>1, FS_Singleton DEF Once
  <2> QED
    BY <2>1, <2>2 DEF Once
<1>3. life[k] = NewLife \/ \E r, a : Once(k, r, a)
  BY DEF OneRuns, OneRun
<1> QED
  BY <1>1, <1>2, <1>3

\* However often a request is sent under its key, one commit is made and one
\* answer given until the key expires, as long as its attempts neither overlap
\* nor die and the key was not inherited from another request.
THEOREM KeysWorkOnce == Spec => []OneEffectOneAnswer
<1>1. Init => OneRuns
  BY DEF Init, OneRuns, OneRun, Busy, IsFresh
<1>2. Known => TypeOK
  BY DEF Known
<1> QED
  BY <1>1, <1>2, InitKnown, KnownStays, OneRunsStay, OneRunsSuffice, PTL DEF Spec

=============================================================================
