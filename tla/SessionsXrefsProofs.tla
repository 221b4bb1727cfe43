------------------------ MODULE SessionsXrefsProofs ------------------------
(***************************************************************************)
(* Proofs about Sessions and about Xrefs, which share nothing but this     *)
(* module.  About Sessions, for every number of users, requests, sessions  *)
(* and tokens, and every choice of the durations: stale sessions only fade.*)
(* About Xrefs, for every set of texts, of any size and depth, any number  *)
(* of documents, tasks and failures and every capacity of the mailbox:     *)
(* iter_tree returns elements in document order, process_document inserts  *)
(* targets that the specification allows, the very ones it asks for where  *)
(* owned elements are in their owners, and documents end up with those.    *)
(***************************************************************************)
EXTENDS Sessions, Xrefs, FiniteSetTheorems, SequenceTheorems, WellFoundedInduction, TLAPS

LEMMA NewSessionType ==
  ASSUME TypeOK, NEW u \in User, NEW elevated \in BOOLEAN, NEW g \in Nat
  PROVE  NewSession(u, elevated, g) \in Row
BY SessionsAssumption DEF TypeOK, NewSession, Row

LEMMA DowngradedType ==
  ASSUME NEW row \in Row
  PROVE  /\ Downgraded(row) \in Row
         /\ Downgraded(row).user = row.user
         /\ Downgraded(row).expires = row.expires
         /\ Downgraded(row).password = row.password
         /\ Downgraded(row).elevated => row.elevated
BY DEF Downgraded, Row

LEMMA FreshType == Fresh \in Request
BY DEF Fresh, Request

\* What a handler does only to its own request.
LEMMA RequestType ==
  ASSUME TypeOK, NEW h \in Handler, requests[h] # Null,
         NEW c \in User \cup {Null}, NEW n \in Row \cup {Null}, NEW d \in BOOLEAN
  PROVE  /\ requests[h] \in Request
         /\ [requests EXCEPT ![h].changing = c]
                \in [Handler -> Request \cup {Null}]
         /\ [requests EXCEPT ![h].new = n] \in [Handler -> Request \cup {Null}]
         /\ [requests EXCEPT ![h].destroy = d]
                \in [Handler -> Request \cup {Null}]
         /\ [requests EXCEPT ![h].changing = c, ![h].new = n]
                \in [Handler -> Request \cup {Null}]
<1>1. requests[h] \in Request /\ requests \in [Handler -> Request \cup {Null}]
  BY DEF TypeOK
<1>2. /\ [requests[h] EXCEPT !.changing = c] \in Request
      /\ [requests[h] EXCEPT !.new = n] \in Request
      /\ [requests[h] EXCEPT !.destroy = d] \in Request
  BY <1>1 DEF Request
<1>3. [[requests[h] EXCEPT !.changing = c] EXCEPT !.new = n] \in Request
  BY <1>2 DEF Request
<1>4. /\ [requests EXCEPT ![h].changing = c] \in [Handler -> Request \cup {Null}]
      /\ [requests EXCEPT ![h].new = n] \in [Handler -> Request \cup {Null}]
      /\ [requests EXCEPT ![h].destroy = d] \in [Handler -> Request \cup {Null}]
  BY <1>1, <1>2
<1>5. [requests EXCEPT ![h].changing = c, ![h].new = n]
          \in [Handler -> Request \cup {Null}]
  BY <1>1, <1>3
<1> QED BY <1>1, <1>4, <1>5

LEMMA WithoutUserType ==
  ASSUME NEW I, NEW T, NEW rows \in [I -> T \cup {Null}], NEW u
  PROVE  /\ WithoutUser(rows, u) \in [I -> T \cup {Null}]
         /\ \A i \in I : /\ WithoutUser(rows, u)[i] \in {rows[i], Null}
                         /\ rows[i] # Null /\ rows[i].user = u
                                => WithoutUser(rows, u)[i] = Null
BY DEF WithoutUser

LEMMA TouchType ==
  ASSUME TypeOK, NEW r \in Request
  PROVE  /\ Touch(r) \in [SessionId -> Row \cup {Null}]
         /\ \A i \in SessionId :
               \/ Touch(r)[i] = sessions[i]
               \/ /\ sessions[i] \in Row /\ sessions[i] # Null
                  /\ Touch(r)[i] = [sessions[i] EXCEPT !.lastUsed = now]
BY DEF TypeOK, Touch, Request, Row

LEMMA DeleteType ==
  ASSUME TypeOK, NEW i
  PROVE  /\ Delete(i) \in [SessionId -> Row \cup {Null}]
         /\ \A j \in SessionId : Delete(i)[j] \in {sessions[j], Null}
BY DEF TypeOK, Delete

-----------------------------------------------------------------------------
(* Types *)

LEMMA BeginTypeOK ==
  ASSUME TypeOK, NEW h \in Handler, NEW i \in SessionId,
         Begin(h, i) \/ BeginWithout(h)
  PROVE  TypeOK'
<1>1. CASE BeginWithout(h)
  BY <1>1, FreshType
     DEF TypeOK, BeginWithout, sessionVars, tokenVars
<1>2. CASE Begin(h, i)
  <2>1. sessions[i] \in Row /\ Downgraded(sessions[i]) \in Row
    BY <1>2, DowngradedType DEF Begin, TypeOK
  <2>2. sessions' \in [SessionId -> Row \cup {Null}]
    BY <1>2, <2>1 DEF Begin, TypeOK
  <2>3. requests' \in [Handler -> Request \cup {Null}]
    <3>1. sessions'[i] \in Row \cup {Null}
      BY <2>2
    <3>2. [Fresh EXCEPT !.id = i, !.row = sessions'[i]] \in Request
      BY <3>1, FreshType DEF Request, Fresh
    <3>3. QED
      BY <1>2, <3>2, FreshType DEF Begin, TypeOK
  <2>4. QED
    BY <1>2, <2>2, <2>3 DEF Begin, TypeOK, tokenVars
<1>3. QED
  BY <1>1, <1>2

LEMMA HandlerTypeOK ==
  ASSUME TypeOK, NEW h \in Handler,
         \/ \E u \in User : Login(h, u) \/ RequestToken(h, u)
         \/ \E t \in TokenId : LoadToken(h, t)
         \/ Elevate(h) \/ Logout(h) \/ CheckPassword(h) \/ RefuseChange(h)
         \/ Abort(h)
  PROVE  TypeOK'
<1>1. ASSUME NEW u \in User, Login(h, u)
      PROVE  TypeOK'
  <2>1. NewSession(u, FALSE, password[u]) \in Row
    BY NewSessionType DEF TypeOK
  <2>2. QED
    BY <1>1, <2>1, RequestType
       DEF Login, Serving, TypeOK, sessionVars, tokenVars
<1>2. ASSUME NEW u \in User, RequestToken(h, u)
      PROVE  TypeOK'
  <2>1. [user |-> u, expires |-> now + TokenDuration,
         password |-> password[u]] \in Token
    BY SessionsAssumption DEF Token, TypeOK
  <2>2. QED
    BY <1>2, <2>1 DEF RequestToken, TypeOK, sessionVars
<1>3. ASSUME NEW t \in TokenId, LoadToken(h, t)
      PROVE  TypeOK'
  <2>1. tokens[t].user \in User
    BY <1>3 DEF LoadToken, TypeOK, Token
  <2>2. QED
    BY <1>3, <2>1, RequestType
       DEF LoadToken, Serving, TypeOK, sessionVars, tokenVars
<1>4. CASE Elevate(h)
  <2>1. requests[h].row.user \in User
    BY <1>4, RequestType DEF Elevate, Serving, Request, Row
  <2>2. NewSession(requests[h].row.user, TRUE, password[requests[h].row.user])
            \in Row
    BY <2>1, NewSessionType DEF TypeOK
  <2>3. QED
    BY <1>4, <2>2, RequestType
       DEF Elevate, Serving, TypeOK, sessionVars, tokenVars
<1>5. CASE Logout(h)
  BY <1>5, RequestType DEF Logout, Serving, TypeOK, sessionVars, tokenVars
<1>6. CASE CheckPassword(h)
  <2>1. requests[h].row.user \in User
    BY <1>6, RequestType DEF CheckPassword, Serving, Request, Row
  <2>2. QED
    BY <1>6, <2>1, RequestType
       DEF CheckPassword, Serving, TypeOK, sessionVars, tokenVars
<1>7. CASE RefuseChange(h)
  BY <1>7, RequestType DEF RefuseChange, TypeOK, sessionVars, tokenVars
<1>8. CASE Abort(h)
  BY <1>8 DEF Abort, TypeOK, sessionVars, tokenVars
<1>9. QED
  BY <1>1, <1>2, <1>3, <1>4, <1>5, <1>6, <1>7, <1>8

LEMMA ChangeTypeOK ==
  ASSUME TypeOK, NEW h \in Handler, Change(h)
  PROVE  TypeOK'
<1> DEFINE u == requests[h].changing
<1>1. u \in User
  BY RequestType DEF Change, Request
<1>2. /\ tokens' \in [TokenId -> Token \cup {Null}]
      /\ sessions' \in [SessionId -> Row \cup {Null}]
  BY <1>1, WithoutUserType DEF Change, ChangePassword, TypeOK
<1>3. password' \in [User -> Nat]
  BY <1>1 DEF Change, ChangePassword, TypeOK
<1>4. NewSession(u, FALSE, password'[u]) \in Row
  BY <1>1, <1>3, NewSessionType
<1>5. requests' \in [Handler -> Request \cup {Null}]
  BY <1>4, RequestType DEF Change
<1>6. QED
  BY <1>2, <1>3, <1>5 DEF Change, TypeOK

LEMMA EndTypeOK ==
  ASSUME TypeOK, NEW h \in Handler, End(h)
  PROVE  TypeOK'
<1> DEFINE r == requests[h]
<1>1. r \in Request
  BY RequestType DEF End, TypeOK
<1>2. sessions' \in [SessionId -> Row \cup {Null}] /\ nextSession' \in Nat \ {0}
  <2>1. CASE r.destroy
    BY <2>1, DeleteType DEF End, TypeOK
  <2>2. CASE ~r.destroy /\ r.new # Null
    BY <1>1, <2>2, DeleteType DEF End, TypeOK, Request
  <2>3. CASE ~r.destroy /\ r.new = Null
    BY <1>1, <2>3, TouchType DEF End, TypeOK
  <2>4. QED
    BY <1>1, <2>1, <2>2, <2>3 DEF Request
<1>3. QED
  BY <1>2 DEF End, TypeOK, tokenVars

LEMMA NextTypeOK == TypeOK /\ [Next]_vars => TypeOK'
<1> SUFFICES ASSUME TypeOK, [Next]_vars
             PROVE  TypeOK'
  OBVIOUS
<1>1. CASE Tick
  BY <1>1 DEF Tick, TypeOK, sessionVars, tokenVars
<1>2. ASSUME NEW h \in Handler, Serve(h)
      PROVE  TypeOK'
  <2>1. CASE BeginWithout(h)
    BY <2>1, FreshType DEF BeginWithout, TypeOK, sessionVars, tokenVars
  <2>2. CASE \E i \in SessionId : Begin(h, i)
    BY <2>2, BeginTypeOK
  <2>3. CASE Change(h)
    BY <2>3, ChangeTypeOK
  <2>4. CASE End(h)
    BY <2>4, EndTypeOK
  <2>5. QED
    BY <1>2, <2>1, <2>2, <2>3, <2>4, HandlerTypeOK DEF Serve
<1>3. CASE UNCHANGED vars
  BY <1>3 DEF vars, TypeOK
<1>4. QED
  BY <1>1, <1>2, <1>3 DEF Next

\* Every variable of Sessions keeps its type.
THEOREM TypeCorrect == Spec => []TypeOK
<1>1. Init => TypeOK
  BY DEF Init, TypeOK
<1>2. QED
  BY <1>1, NextTypeOK, PTL DEF Spec

-----------------------------------------------------------------------------
(* What a change of password voids *)

LEMMA TokensStep ==
  TypeOK /\ TokensOfCurrentPassword /\ [Next]_vars => TokensOfCurrentPassword'
<1> SUFFICES ASSUME TypeOK, TokensOfCurrentPassword, [Next]_vars
             PROVE  TokensOfCurrentPassword'
  OBVIOUS
<1>1. CASE UNCHANGED <<tokens, password>>
  BY <1>1 DEF TokensOfCurrentPassword
<1>2. ASSUME NEW h \in Handler, NEW u \in User, RequestToken(h, u)
      PROVE  TokensOfCurrentPassword'
  BY <1>2 DEF RequestToken, TokensOfCurrentPassword, TypeOK, Token
<1>3. ASSUME NEW h \in Handler, Change(h)
      PROVE  TokensOfCurrentPassword'
  <2> DEFINE u == requests[h].changing
  <2>1. u \in User
    BY <1>3, RequestType DEF Change, Request
  <2>2. tokens' = WithoutUser(tokens, u) /\ password' = [password EXCEPT ![u] = @ + 1]
    BY <1>3 DEF Change, ChangePassword
  <2> SUFFICES ASSUME NEW t \in TokenId, tokens'[t] # Null
               PROVE  tokens'[t].password = password'[tokens'[t].user]
    BY DEF TokensOfCurrentPassword
  <2>3. /\ tokens'[t] \in {tokens[t], Null}
        /\ tokens[t] # Null /\ tokens[t].user = u => tokens'[t] = Null
    BY <2>2 DEF WithoutUser, TypeOK
  <2>4. tokens'[t] = tokens[t] /\ tokens[t].user # u /\ tokens[t] \in Token
    BY <2>3 DEF TypeOK
  <2>5. QED
    BY <2>2, <2>4 DEF TokensOfCurrentPassword, TypeOK, Token
<1>4. QED
  BY <1>1, <1>2, <1>3
     DEF Next, Serve, Tick, Begin, BeginWithout, Login, LoadToken, Elevate,
         Logout, CheckPassword, RefuseChange, End, Abort, vars, tokenVars

\* Every token that can be used is newer than its user's password.
THEOREM TokensVoided == Spec => []TokensOfCurrentPassword
<1>1. Init => TokensOfCurrentPassword
  BY DEF Init, TokensOfCurrentPassword
<1>2. QED
  BY <1>1, TypeCorrect, TokensStep, PTL DEF Spec

-----------------------------------------------------------------------------
(* What the way out does with the copy of the way in *)

LEMMA SessionsUntouched ==
  ASSUME [Next]_vars
  PROVE  \/ UNCHANGED <<sessions, password>>
         \/ \E h \in Handler : \/ \E i \in SessionId : Begin(h, i)
                              \/ Change(h) \/ End(h)
<1>1. ASSUME NEW h \in Handler, Serve(h)
      PROVE  \/ UNCHANGED <<sessions, password>>
             \/ \E i \in SessionId : Begin(h, i)
             \/ Change(h) \/ End(h)
  <2>1. CASE \E u \in User : Login(h, u) \/ RequestToken(h, u)
    BY <2>1 DEF Login, RequestToken, sessionVars
  <2>2. CASE \E t \in TokenId : LoadToken(h, t)
    BY <2>2 DEF LoadToken, sessionVars
  <2>3. QED
    BY <1>1, <2>1, <2>2
       DEF Serve, BeginWithout, Elevate, Logout, CheckPassword, RefuseChange,
           Abort, sessionVars
<1>2. CASE Tick \/ UNCHANGED vars
  BY <1>2 DEF Tick, vars, sessionVars
<1>3. QED
  BY <1>1, <1>2 DEF Next

\* No step but of the three kinds above changes a session, and each of them
\* leaves a row, lowers it or removes it.
LEMMA FadeStep ==
  ASSUME TypeOK, [Next]_vars, NEW i \in SessionId, i < nextSession
  PROVE  \/ sessions'[i] = Null
         \/ /\ sessions[i] # Null
            /\ sessions'[i].user = sessions[i].user
            /\ sessions'[i].expires = sessions[i].expires
            /\ sessions'[i].elevated => sessions[i].elevated
<1>1. ASSUME NEW h \in Handler, NEW j \in SessionId, Begin(h, j)
      PROVE  \/ sessions'[i] \in {Null, sessions[i]}
             \/ /\ sessions[i] \in Row /\ sessions[i] # Null
                /\ sessions'[i] = Downgraded(sessions[i])
  BY <1>1 DEF Begin, TypeOK
<1>2. ASSUME NEW h \in Handler, Change(h)
      PROVE  sessions'[i] \in {Null, sessions[i]}
  BY <1>2 DEF Change, ChangePassword, WithoutUser, TypeOK
<1>3. ASSUME NEW h \in Handler, End(h)
      PROVE  \/ sessions'[i] \in {Null, sessions[i]}
             \/ /\ sessions[i] \in Row /\ sessions[i] # Null
                /\ sessions'[i] = [sessions[i] EXCEPT !.lastUsed = now]
  <2> DEFINE r == requests[h]
  <2>1. r \in Request
    BY <1>3 DEF End, TypeOK
  <2>2. CASE r.destroy
    BY <1>3, <2>2, DeleteType DEF End
  <2>3. CASE ~r.destroy /\ r.new # Null
    <3>1. Delete(r.id) \in [SessionId -> Row \cup {Null}]
      BY DeleteType
    <3>2. sessions' = [Delete(r.id) EXCEPT ![nextSession] = r.new]
      BY <1>3, <2>3 DEF End
    <3> i # nextSession
      BY DEF TypeOK, SessionId
    <3>3. sessions'[i] = Delete(r.id)[i]
      BY <3>1, <3>2
    <3>4. QED
      BY <3>3, DeleteType
  <2>4. CASE ~r.destroy /\ r.new = Null
    BY <1>3, <2>1, <2>4, TouchType DEF End
  <2>5. QED
    BY <2>1, <2>2, <2>3, <2>4 DEF Request
<1>4. \/ sessions'[i] \in {Null, sessions[i]}
      \/ /\ sessions[i] \in Row /\ sessions[i] # Null
         /\ sessions'[i] \in {Downgraded(sessions[i]),
                              [sessions[i] EXCEPT !.lastUsed = now]}
  BY <1>1, <1>2, <1>3, SessionsUntouched
<1>5. CASE sessions'[i] \in {Null, sessions[i]}
  BY <1>5
<1>6. CASE sessions[i] \in Row /\ sessions[i] # Null /\ sessions'[i] # Null
  BY <1>4, <1>5, <1>6, DowngradedType DEF Row
<1>7. QED
  BY <1>4, <1>5, <1>6

\* A session that has ended stays ended; what is left of one only fades.
THEOREM OnlyFade == Spec => SessionsOnlyFade
<1>1. TypeOK /\ [Next]_vars =>
        [\A i \in SessionId : i < nextSession =>
            \/ sessions'[i] = Null
            \/ /\ sessions[i] # Null
               /\ sessions'[i].user = sessions[i].user
               /\ sessions'[i].expires = sessions[i].expires
               /\ sessions'[i].elevated => sessions[i].elevated]_vars
  BY FadeStep
<1>2. QED
  BY <1>1, TypeCorrect, PTL DEF Spec, SessionsOnlyFade

-----------------------------------------------------------------------------
(* Sessions of older passwords *)

LEMMA CurrentStep ==
  ASSUME TypeOK, [Next]_vars, StaleSessions = {}, StaleRequests = {}
  PROVE  StaleSessions' = {}
<1> SUFFICES ASSUME NEW i \in SessionId, sessions'[i] # Null
             PROVE  sessions'[i].password = password'[sessions'[i].user]
  BY DEF StaleSessions, Stale
<1>1. sessions[i] # Null =>
        /\ sessions[i] \in Row
        /\ sessions[i].password = password[sessions[i].user]
  BY DEF StaleSessions, Stale, TypeOK
<1>2. ASSUME NEW h \in Handler, NEW j \in SessionId, Begin(h, j)
      PROVE  sessions'[i].password = password'[sessions'[i].user]
  <2>1. \/ sessions'[i] \in {Null, sessions[i]}
        \/ sessions[i] # Null /\ sessions'[i] = Downgraded(sessions[i])
    BY <1>2 DEF Begin, TypeOK
  <2>2. password' = password
    BY <1>2 DEF Begin
  <2>3. QED
    BY <1>1, <2>1, <2>2, DowngradedType
<1>3. ASSUME NEW h \in Handler, Change(h)
      PROVE  sessions'[i].password = password'[sessions'[i].user]
  <2> DEFINE u == requests[h].changing
  <2>1. /\ sessions' = WithoutUser(sessions, u)
        /\ password' = [password EXCEPT ![u] = @ + 1]
    BY <1>3 DEF Change, ChangePassword
  <2>2. sessions'[i] = sessions[i] /\ sessions[i].user # u
    BY <2>1 DEF WithoutUser, TypeOK
  <2>3. QED
    BY <1>1, <2>1, <2>2 DEF TypeOK, Row
<1>4. ASSUME NEW h \in Handler, End(h)
      PROVE  sessions'[i].password = password'[sessions'[i].user]
  <2> DEFINE r == requests[h]
  <2>1. r \in Request /\ password' = password
    BY <1>4 DEF End, TypeOK
  <2>2. \/ sessions'[i] = sessions[i]
        \/ /\ sessions[i] \in Row /\ sessions[i] # Null
           /\ sessions'[i] = [sessions[i] EXCEPT !.lastUsed = now]
        \/ r.new # Null /\ sessions'[i] = r.new
    <3>1. CASE r.destroy
      BY <1>4, <3>1, DeleteType DEF End
    <3>2. CASE ~r.destroy /\ r.new # Null
      <4>1. Delete(r.id) \in [SessionId -> Row \cup {Null}]
        BY DeleteType
      <4>2. sessions'[i] \in {r.new, Delete(r.id)[i]}
        BY <1>4, <3>2, <4>1 DEF End
      <4>3. QED
        BY <3>2, <4>2, DeleteType
    <3>3. CASE ~r.destroy /\ r.new = Null
      BY <1>4, <2>1, <3>3, TouchType DEF End
    <3>4. QED
      BY <2>1, <3>1, <3>2, <3>3 DEF Request
  <2>3. r.new # Null => r.new.password = password[r.new.user]
    BY <1>4 DEF StaleRequests, Stale, End
  <2>4. QED
    BY <1>1, <2>1, <2>2, <2>3 DEF Row
<1>5. CASE UNCHANGED <<sessions, password>>
  BY <1>1, <1>5
<1>6. QED
  BY <1>2, <1>3, <1>4, <1>5, SessionsUntouched

\* Once no session and no request goes back to an older password, none will.
THEOREM CurrentForGood == Spec => CurrentStaysCurrent
<1>1. TypeOK /\ [Next]_vars =>
        [StaleSessions = {} /\ StaleRequests = {} => StaleSessions' = {}]_vars
  BY CurrentStep
<1>2. QED
  BY <1>1, TypeCorrect, PTL DEF Spec, CurrentStaysCurrent

-----------------------------------------------------------------------------
(***************************************************************************)
(* Xrefs.  Induction over numbers, as facts about sets of numbers: no      *)
(* prover instantiates a theorem about every operator.                     *)
(***************************************************************************)
LEMMA LeastNatural ==
  ASSUME NEW T \in SUBSET Nat, T # {}
  PROVE  \E n \in T : \A m \in T : n <= m
<1> DEFINE R == {ss \in Nat \X Nat : ss[1] < ss[2]}
<1>1. \E x \in T : \A y \in T : ~ (<<y, x>> \in R)
  <2>1. OpToRel(<, Nat) = R
    BY DEF OpToRel
  <2>2. IsWellFoundedOn(OpToRel(<, Nat), Nat)
    BY NatLessThanWellFounded, Zenon
  <2>3. IsWellFoundedOn(R, Nat)
    BY <2>1, <2>2, Zenon
  <2> HIDE DEF R
  <2> QED BY <2>3, WFMin
<1>2. \A x, y \in Nat : y < x => <<y, x>> \in R
  OBVIOUS
<1> HIDE DEF R
<1>3. PICK n \in T : \A m \in T : ~(<<m, n>> \in R)
  BY <1>1
<1>4. /\ n \in Nat
      /\ \A m \in T : m \in Nat /\ ~(m < n)
  BY <1>2, <1>3
<1>5. \A m \in T : n <= m
  BY <1>4
<1> QED BY <1>3, <1>5

\* What holds of 0 and of k whenever of k - 1 holds up to n.
LEMMA Induction ==
  ASSUME NEW n \in Nat, NEW S, 0 \in S,
         \A k \in 1..n : k - 1 \in S => k \in S
  PROVE  0..n \subseteq S
<1> SUFFICES ASSUME (0..n) \ S # {} PROVE FALSE
  OBVIOUS
<1> DEFINE T == (0..n) \ S
<1>1. T \in SUBSET Nat /\ T # {}
  OBVIOUS
<1> HIDE DEF T
<1>2. PICK k \in T : \A m \in T : k <= m
  BY <1>1, LeastNatural
<1>3. k \in 1..n /\ k \notin S
  BY <1>2 DEF T
<1>4. k - 1 \in T
  BY <1>3 DEF T
<1>5. ~(k <= k - 1)
  BY <1>3
<1> QED BY <1>2, <1>4, <1>5

\* A function on 0..n is defined by its start and its steps.
Advances(n, T) == [1..n -> [T -> T]]
IsIterated(f, n, T, start, step) ==
    /\ f \in [0..n -> T]
    /\ f[0] = start
    /\ \A k \in 1..n : f[k] = step[k][f[k - 1]]

LEMMA Iteration ==
  ASSUME NEW n \in Nat, NEW T, NEW start \in T, NEW step, step \in Advances(n, T)
  PROVE  \E f : IsIterated(f, n, T, start, step)
<1> USE DEF Advances
<1> DEFINE Good(m) == \E f \in [0..m -> T] :
                f[0] = start /\ \A k \in 1..m : f[k] = step[k][f[k - 1]]
           S == {m \in 0..n : Good(m)}
<1>1. 0 \in S
  <2> DEFINE f == [k \in 0..0 |-> start]
  <2>1. f \in [0..0 -> T] /\ f[0] = start /\ \A k \in 1..0 : f[k] = step[k][f[k - 1]]
    OBVIOUS
  <2> HIDE DEF f
  <2>2. Good(0)
    BY <2>1
  <2> HIDE DEF Good
  <2> QED BY <2>2
<1>2. ASSUME NEW m \in 1..n, m - 1 \in S
      PROVE  m \in S
  <2>1. PICK f \in [0..(m - 1) -> T] :
            f[0] = start /\ \A k \in 1..(m - 1) : f[k] = step[k][f[k - 1]]
    BY <1>2
  <2> DEFINE g == [k \in 0..m |-> IF k = m THEN step[m][f[m - 1]] ELSE f[k]]
  <2>2. f[m - 1] \in T /\ step[m] \in [T -> T]
    BY <2>1
  <2>3. step[m][f[m - 1]] \in T
    BY <2>2
  <2>4. g \in [0..m -> T]
    BY <2>1, <2>3
  <2>5. g[0] = start
    BY <2>1
  <2>6. ASSUME NEW k \in 1..m PROVE g[k] = step[k][g[k - 1]]
    <3>1. k - 1 \in 0..(m - 1) /\ g[k - 1] = f[k - 1]
      OBVIOUS
    <3>2. CASE k = m
      <4>1. g[m] = step[m][f[m - 1]]
        OBVIOUS
      <4> HIDE DEF g
      <4> QED BY <3>1, <3>2, <4>1
    <3>3. CASE k # m
      <4>1. g[k] = f[k] /\ k \in 1..(m - 1)
        BY <3>3
      <4> HIDE DEF g
      <4> QED BY <2>1, <3>1, <4>1
    <3> QED BY <3>2, <3>3
  <2> HIDE DEF g
  <2>7. Good(m)
    BY <2>4, <2>5, <2>6
  <2> HIDE DEF Good
  <2> QED BY <2>7
<1> HIDE DEF S
<1>3. 0..n \subseteq S
  BY <1>1, <1>2, Induction
<1>4. n \in S
  BY <1>3
<1> QED BY <1>4 DEF S, IsIterated

Strict(M) == \A i, j \in 1..Len(M) : i < j <=> M[i] < M[j]

LEMMA AscendingIs ==
  ASSUME NEW S \in SUBSET Nat, IsFiniteSet(S), NEW s, s = Ascending(S)
  PROVE  /\ s \in Seq(S) /\ Strict(s)
         /\ \A n \in S : \E k \in 1..Len(s) : s[k] = n
<1> DEFINE C == Cardinality(S)
           UpTo(n) == {m \in S : m <= n}
           rank == [n \in S |-> Cardinality(UpTo(n))]
<1>0. \A n \in S : n \in Int
  OBVIOUS
<1>1. s = [k \in 1..C |-> CHOOSE n \in S : Cardinality(UpTo(n)) = k]
  BY DEF Ascending
<1>2. C \in Nat
  BY FS_CardinalityType
<1>3. ASSUME NEW n \in S
      PROVE  /\ UpTo(n) \in SUBSET S /\ IsFiniteSet(UpTo(n))
             /\ Cardinality(UpTo(n)) \in 1..C
  <2>1. UpTo(n) \in SUBSET S /\ n \in UpTo(n)
    BY <1>0
  <2> HIDE DEF UpTo
  <2>2. IsFiniteSet(UpTo(n)) /\ Cardinality(UpTo(n)) <= C
    BY <2>1, FS_Subset
  <2>3. Cardinality(UpTo(n)) \in Nat /\ Cardinality(UpTo(n)) # 0
    BY <2>1, <2>2, FS_CardinalityType, FS_EmptySet
  <2> QED BY <1>2, <2>1, <2>2, <2>3
<1>4. ASSUME NEW m \in S, NEW n \in S, m < n
      PROVE  Cardinality(UpTo(m)) < Cardinality(UpTo(n))
  <2>1. /\ UpTo(m) \in SUBSET UpTo(n) /\ n \in UpTo(n) /\ n \notin UpTo(m)
    <3>1. \A x \in S : x <= m => x <= n
      BY <1>0, <1>4
    <3>2. n <= n /\ ~(n <= m)
      BY <1>0, <1>4
    <3> QED BY <3>1, <3>2
  <2>2. /\ IsFiniteSet(UpTo(n))
        /\ Cardinality(UpTo(m)) \in Int /\ Cardinality(UpTo(n)) \in Int
    BY <1>3
  <2> HIDE DEF UpTo
  <2>3. /\ Cardinality(UpTo(m)) <= Cardinality(UpTo(n))
        /\ Cardinality(UpTo(n)) = Cardinality(UpTo(m)) => UpTo(n) = UpTo(m)
    BY <2>1, <2>2, FS_Subset
  <2> QED BY <2>1, <2>2, <2>3
<1> HIDE DEF UpTo, C
<1>5. \A m, n \in S :
        /\ rank[m] \in 1..C
        /\ m < n <=> rank[m] < rank[n]
        /\ rank[m] = rank[n] => m = n
  <2> SUFFICES ASSUME NEW m \in S, NEW n \in S
               PROVE  /\ rank[m] \in 1..C
                      /\ m < n <=> rank[m] < rank[n]
                      /\ rank[m] = rank[n] => m = n
    OBVIOUS
  <2>1. /\ rank[m] = Cardinality(UpTo(m)) /\ rank[n] = Cardinality(UpTo(n))
        /\ rank[m] \in 1..C /\ rank[n] \in 1..C
    BY <1>3
  <2> HIDE DEF rank
  <2>2. m < n \/ n < m \/ m = n
    OBVIOUS
  <2> QED BY <1>4, <2>1, <2>2
<1>6. \A k \in 1..C : \E n \in S : rank[n] = k
  <2>1. rank \in Injection(S, 1..C)
    <3>1. rank \in [S -> 1..C]
      BY <1>3
    <3> HIDE DEF rank
    <3> QED BY <1>5, <3>1 DEF Injection, IsInjective
  <2>2. IsFiniteSet(1..C) /\ Cardinality(1..C) = C
    BY <1>2, FS_Interval
  <2>3. rank \in Surjection(S, 1..C)
    <3> HIDE DEF rank
    <3> QED BY <2>1, <2>2, FS_Injection DEF C
  <2> HIDE DEF rank
  <2> QED BY <2>3 DEF Surjection
<1>7. \A k \in 1..C : s[k] \in S /\ rank[s[k]] = k
  <2> SUFFICES ASSUME NEW k \in 1..C PROVE s[k] \in S /\ rank[s[k]] = k
    OBVIOUS
  <2>1. \E n \in S : Cardinality(UpTo(n)) = k
    BY <1>6
  <2>2. s[k] \in S /\ Cardinality(UpTo(s[k])) = k
    BY <1>1, <2>1
  <2> QED BY <2>2
<1>8. s \in [1..C -> S]
  BY <1>1, <1>7
<1>9. s \in Seq(S) /\ Len(s) = C
  BY <1>2, <1>8
<1> HIDE DEF rank
<1>10. Strict(s)
  <2> SUFFICES ASSUME NEW i \in 1..C, NEW j \in 1..C
               PROVE  i < j <=> s[i] < s[j]
    BY <1>9 DEF Strict
  <2>1. /\ s[i] \in S /\ s[j] \in S
        /\ rank[s[i]] = i /\ rank[s[j]] = j
    BY <1>7
  <2>2. s[i] \in Int /\ s[j] \in Int
    BY <1>0, <2>1
  <2>3. s[i] < s[j] <=> rank[s[i]] < rank[s[j]]
    BY <1>5, <2>1
  <2> QED BY <2>1, <2>3
<1>11. ASSUME NEW n \in S PROVE \E k \in 1..Len(s) : s[k] = n
  <2>1. rank[n] \in 1..C
    BY <1>5
  <2>2. s[rank[n]] = n
    BY <1>5, <1>7, <2>1
  <2> QED BY <1>9, <2>1, <2>2
<1> QED BY <1>9, <1>10, <1>11

\* What holds of k whenever it holds of all before it.
LEMMA StrongInduction ==
  ASSUME NEW n \in Nat, NEW S,
         \A k \in 1..n : 1..(k - 1) \subseteq S => k \in S
  PROVE  1..n \subseteq S
<1> DEFINE T == {m \in 0..n : 1..m \subseteq S}
<1>1. 0 \in T
  OBVIOUS
<1>2. ASSUME NEW k \in 1..n, k - 1 \in T PROVE k \in T
  <2>1. k \in S
    BY <1>2
  <2>2. 1..k = 1..(k - 1) \cup {k}
    OBVIOUS
  <2> QED BY <1>2, <2>1, <2>2
<1> HIDE DEF T
<1>3. 0..n \subseteq T
  BY <1>1, <1>2, Induction
<1>4. n \in T
  BY <1>3
<1> QED BY <1>4 DEF T

-----------------------------------------------------------------------------
(***************************************************************************)
(* Ancestors in an index, which is a tree.                                 *)
(***************************************************************************)
LEMMA IndexIs ==
  ASSUME NEW index, IsIndex(index)
  PROVE  /\ Len(index) \in Nat /\ Len(index) # 0 /\ DOMAIN index = 1..Len(index)
         /\ 1 \in 1..Len(index) /\ index[1].parent = 0
         /\ \A n \in 1..Len(index) : n # 1 => index[n].parent \in 1..(n - 1)
         /\ \A n \in 1..Len(index) : n # 1 => /\ index[n].parent \in 1..Len(index)
                                             /\ index[n].parent < n
BY DEF IsIndex

\* The recursive function of Ancestors exists, and is what it says.
LEMMA AncestorsAre ==
  ASSUME NEW index, IsIndex(index)
  PROVE  \A n \in 1..Len(index) :
            Ancestors(index, n) = IF n = 1 THEN {1}
                                  ELSE {n} \cup Ancestors(index, index[n].parent)
<1> DEFINE N == Len(index)
           Upwards(n, f) == IF n = 1 THEN {1} ELSE {n} \cup f[index[n].parent]
           IsUp(f) == f = [k \in DOMAIN index |->
                             IF k = 1 THEN {1} ELSE {k} \cup f[index[k].parent]]
           Good(m) == \E f : f = [k \in 1..m |-> f[k]] /\ \A k \in 1..m : f[k] = Upwards(k, f)
           S == {m \in 0..N : Good(m)}
<1>1. N \in Nat
  BY IndexIs
<1>2. 0 \in S
  <2> DEFINE f == [k \in 1..0 |-> {}]
  <2>1. f = [k \in 1..0 |-> f[k]] /\ \A k \in 1..0 : f[k] = Upwards(k, f)
    OBVIOUS
  <2> HIDE DEF f
  <2>2. Good(0)
    BY <2>1
  <2> HIDE DEF Good
  <2> QED BY <1>1, <2>2
<1>3. ASSUME NEW m \in 1..N, m - 1 \in S PROVE m \in S
  <2>1. PICK f : f = [k \in 1..(m - 1) |-> f[k]] /\ \A k \in 1..(m - 1) : f[k] = Upwards(k, f)
    BY <1>3
  <2> DEFINE g == [k \in 1..m |-> IF k = m THEN Upwards(m, f) ELSE f[k]]
  <2>2. g = [k \in 1..m |-> g[k]]
    OBVIOUS
  <2>3. ASSUME NEW k \in 1..m PROVE g[k] = Upwards(k, g)
    <3>1. k # 1 => index[k].parent \in 1..(m - 1) /\ index[k].parent \in 1..(k - 1)
      BY <1>1, IndexIs
    <3>2. k # 1 => g[index[k].parent] = f[index[k].parent]
      BY <3>1
    <3>3. Upwards(k, g) = Upwards(k, f)
      BY <3>2
    <3>4. g[k] = IF k = m THEN Upwards(m, f) ELSE f[k]
      OBVIOUS
    <3>5. k # m => k \in 1..(m - 1)
      BY <1>1
    <3>6. g[k] = Upwards(k, f)
      <4> HIDE DEF g, Upwards
      <4> QED BY <2>1, <3>4, <3>5
    <3> HIDE DEF g, Upwards
    <3> QED BY <3>3, <3>6
  <2> HIDE DEF g, Upwards
  <2>4. Good(m)
    BY <2>2, <2>3
  <2> HIDE DEF Good
  <2> QED BY <2>4
<1> HIDE DEF S
<1>4. N \in S
  <2>1. 0..N \subseteq S
    BY <1>1, <1>2, <1>3, Induction
  <2> QED BY <1>1, <2>1
<1>5. PICK f : f = [k \in 1..N |-> f[k]] /\ \A k \in 1..N : f[k] = Upwards(k, f)
  BY <1>4 DEF S
<1>6. IsUp(f)
  BY <1>5, IndexIs
<1> DEFINE h == CHOOSE u : IsUp(u)
<1>7. IsUp(h)
  BY <1>6, Zenon
<1>8. \A n : Ancestors(index, n) = h[n]
  BY DEF Ancestors
<1>9. \A k \in 1..N : h[k] = Upwards(k, h)
  <2> HIDE DEF h
  <2> QED BY <1>7, IndexIs
<1> HIDE DEF h
<1> QED BY <1>8, <1>9

LEMMA AncestorsBound ==
  ASSUME NEW index, IsIndex(index)
  PROVE  \A n \in 1..Len(index) :
            /\ Ancestors(index, n) \subseteq 1..n
            /\ n \in Ancestors(index, n)
            /\ 1 \in Ancestors(index, n)
<1> DEFINE N == Len(index)
           S == {n \in 1..N : /\ Ancestors(index, n) \subseteq 1..n
                              /\ n \in Ancestors(index, n)
                              /\ 1 \in Ancestors(index, n)}
<1>1. N \in Nat
  BY IndexIs
<1>2. ASSUME NEW k \in 1..N, 1..(k - 1) \subseteq S PROVE k \in S
  <2>1. CASE k = 1
    BY <2>1, AncestorsAre
  <2>2. CASE k # 1
    <3> DEFINE p == index[k].parent
    <3>1. p \in 1..(k - 1) /\ p \in S
      BY <1>2, <2>2, IndexIs
    <3>2. Ancestors(index, k) = {k} \cup Ancestors(index, p)
      BY <2>2, AncestorsAre
    <3>3. Ancestors(index, p) \subseteq 1..p /\ 1 \in Ancestors(index, p)
      BY <3>1
    <3>4. 1..p \subseteq 1..k
      BY <3>1
    <3> HIDE DEF p
    <3>5. /\ Ancestors(index, k) \subseteq 1..k
          /\ k \in Ancestors(index, k) /\ 1 \in Ancestors(index, k)
      BY <3>2, <3>3, <3>4
    <3> QED BY <3>5
  <2> QED BY <2>1, <2>2
<1> HIDE DEF S
<1>3. 1..N \subseteq S
  BY <1>1, <1>2, StrongInduction
<1> QED BY <1>3 DEF S

\* The ancestors of an element are a chain.
LEMMA AncestorsChain ==
  ASSUME NEW index, IsIndex(index)
  PROVE  \A n \in 1..Len(index) : \A a \in Ancestors(index, n) :
            /\ a \in 1..Len(index)
            /\ Ancestors(index, a) \subseteq Ancestors(index, n)
            /\ \A b \in Ancestors(index, n) : a <= b => a \in Ancestors(index, b)
<1> DEFINE N == Len(index)
           A(n) == Ancestors(index, n)
           Chain(n) == \A a \in A(n) :
               /\ A(a) \subseteq A(n)
               /\ \A b \in A(n) : a <= b => a \in A(b)
           S == {n \in 1..N : Chain(n)}
<1>1. N \in Nat
  BY IndexIs
<1>a. \A n \in 1..N : A(n) \subseteq 1..n /\ n \in A(n) /\ 1 \in A(n)
  BY AncestorsBound
<1>b. \A n \in 1..N : A(n) = IF n = 1 THEN {1} ELSE {n} \cup A(index[n].parent)
  BY AncestorsAre
<1> HIDE DEF A
<1>2. ASSUME NEW k \in 1..N, 1..(k - 1) \subseteq S PROVE k \in S
  <2>1. CASE k = 1
    <3>1. A(1) = {1}
      BY <1>b, <2>1
    <3>2. Chain(1)
      BY <3>1
    <3> QED BY <2>1, <3>2
  <2>2. CASE k # 1
    <3> DEFINE p == index[k].parent
    <3>1. p \in 1..(k - 1) /\ p \in 1..N /\ p < k
      BY <1>1, <2>2, IndexIs
    <3>2. Chain(p)
      BY <1>2, <3>1
    <3>3. A(k) = {k} \cup A(p)
      BY <1>b, <2>2
    <3>4. A(p) \subseteq 1..p
      BY <1>a, <3>1
    <3> HIDE DEF p
    <3>5. ASSUME NEW a \in A(k), NEW b \in A(k), a <= b PROVE A(a) \subseteq A(k) /\ a \in A(b)
      <4>1. CASE a = k
        <5>1. b \notin A(p)
          BY <3>1, <3>4, <3>5, <4>1
        <5> QED BY <3>3, <3>5, <4>1, <5>1
      <4>2. CASE a # k
        <5>1. a \in A(p)
          BY <3>3, <4>2
        <5>2. A(a) \subseteq A(p)
          BY <3>2, <5>1
        <5> QED BY <3>2, <3>3, <3>5, <5>1, <5>2
      <4> QED BY <4>1, <4>2
    <3>6. ASSUME NEW a \in A(k) PROVE a <= a
      BY <3>1, <3>3, <3>4
    <3> HIDE DEF Chain
    <3>7. Chain(k)
      BY <3>5, <3>6 DEF Chain
    <3> QED BY <3>7
  <2> QED BY <2>1, <2>2
<1> HIDE DEF S, Chain
<1>3. 1..N \subseteq S
  BY <1>1, <1>2, StrongInduction
<1>4. \A n \in 1..N : Chain(n)
  BY <1>3 DEF S
<1>5. \A n \in 1..N : \A a \in A(n) : a \in 1..N
  BY <1>1, <1>a
<1> QED BY <1>4, <1>5 DEF Chain, A

\* Below an element is its child that is an ancestor.
LEMMA ChildBetween ==
  ASSUME NEW index, IsIndex(index)
  PROVE  \A n \in 1..Len(index) : \A a \in Ancestors(index, n) :
            a # n => \E c \in Ancestors(index, n) : c # 1 /\ index[c].parent = a
<1> DEFINE N == Len(index)
           A(n) == Ancestors(index, n)
           Between(n) == \A a \in A(n) :
               a # n => \E c \in A(n) : c # 1 /\ index[c].parent = a
           S == {n \in 1..N : Between(n)}
<1>1. N \in Nat
  BY IndexIs
<1>a. \A n \in 1..N : n \in A(n)
  BY AncestorsBound
<1>b. \A n \in 1..N : A(n) = IF n = 1 THEN {1} ELSE {n} \cup A(index[n].parent)
  BY AncestorsAre
<1> HIDE DEF A
<1>2. ASSUME NEW k \in 1..N, 1..(k - 1) \subseteq S PROVE k \in S
  <2>1. CASE k = 1
    BY <1>b, <2>1
  <2>2. CASE k # 1
    <3> DEFINE p == index[k].parent
    <3>1. p \in 1..(k - 1) /\ p \in S
      BY <1>1, <1>2, <2>2, IndexIs
    <3>2. Between(p)
      BY <3>1
    <3>3. A(k) = {k} \cup A(p)
      BY <1>b, <2>2
    <3>4. Between(k)
      BY <2>2, <3>2, <3>3
    <3> QED BY <3>4
  <2> QED BY <2>1, <2>2
<1> HIDE DEF S, Between
<1>3. 1..N \subseteq S
  BY <1>1, <1>2, StrongInduction
<1>4. \A n \in 1..N : Between(n)
  BY <1>3 DEF S
<1> QED BY <1>4 DEF Between, A

-----------------------------------------------------------------------------
(***************************************************************************)
(* Document order.                                                         *)
(***************************************************************************)
\* Below different children of an element, the first before the second.
Branches(index, m, n) ==
    \E a \in Ancestors(index, m), b \in Ancestors(index, n) :
        a < b /\ a # 1 /\ index[a].parent = index[b].parent

LEMMA PrecedesIs ==
  ASSUME NEW index, NEW m, NEW n
  PROVE  Precedes(index, m, n) <=>
            (m # n /\ m \in Ancestors(index, n)) \/ Branches(index, m, n)
BY DEF Precedes, Branches

\* An element is below one child only.
LEMMA OneBranch ==
  ASSUME NEW index, IsIndex(index), NEW n \in 1..Len(index),
         NEW a \in Ancestors(index, n), NEW b \in Ancestors(index, n),
         a # 1, index[a].parent = index[b].parent
  PROVE  ~(a < b)
<1> SUFFICES ASSUME a < b PROVE FALSE
  OBVIOUS
<1>1. /\ a \in 1..Len(index) /\ b \in 1..Len(index) /\ Len(index) \in Nat
      /\ a \in Ancestors(index, b)
  BY AncestorsChain, IndexIs
<1>2. b # 1 /\ index[b].parent \in 1..Len(index) /\ index[a].parent < a
  BY <1>1, IndexIs
<1>3. a \in Ancestors(index, index[b].parent)
  BY <1>1, <1>2, AncestorsAre
<1>4. a \in 1..index[b].parent
  BY <1>2, <1>3, AncestorsBound
<1> QED BY <1>1, <1>2, <1>4

LEMMA BranchesDown ==
  ASSUME NEW index, IsIndex(index), NEW m, NEW n, Branches(index, m, n), NEW c, NEW d,
         Ancestors(index, m) \subseteq Ancestors(index, c),
         Ancestors(index, n) \subseteq Ancestors(index, d)
  PROVE  Branches(index, c, d)
BY DEF Branches

\* Neither has the other for an ancestor.
LEMMA BranchesApart ==
  ASSUME NEW index, IsIndex(index), NEW m \in 1..Len(index), NEW n \in 1..Len(index),
         Branches(index, m, n)
  PROVE  m \notin Ancestors(index, n) /\ n \notin Ancestors(index, m)
<1>1. PICK a \in Ancestors(index, m), b \in Ancestors(index, n) :
        a < b /\ a # 1 /\ index[a].parent = index[b].parent
  BY DEF Branches
<1>2. CASE m \in Ancestors(index, n)
  <2>1. a \in Ancestors(index, n)
    BY <1>1, <1>2, AncestorsChain
  <2> QED BY <1>1, <2>1, OneBranch
<1>3. CASE n \in Ancestors(index, m)
  <2>1. b \in Ancestors(index, m)
    BY <1>1, <1>3, AncestorsChain
  <2> QED BY <1>1, <2>1, OneBranch
<1> QED BY <1>2, <1>3

LEMMA ParentOfAncestor ==
  ASSUME NEW index, IsIndex(index), NEW n \in 1..Len(index),
         NEW a \in Ancestors(index, n), a # 1
  PROVE  /\ index[a].parent \in Ancestors(index, n)
         /\ a \in 1..Len(index)
         /\ index[a].parent \in 1..Len(index) /\ index[a].parent < a
<1>1. a \in 1..Len(index) /\ Ancestors(index, a) \subseteq Ancestors(index, n)
  BY AncestorsChain
<1>2. index[a].parent \in 1..Len(index) /\ index[a].parent < a
  BY <1>1, IndexIs
<1>3. index[a].parent \in Ancestors(index, index[a].parent)
  BY <1>2, AncestorsBound
<1>4. index[a].parent \in Ancestors(index, a)
  BY <1>1, <1>3, AncestorsAre
<1> QED BY <1>1, <1>2, <1>4

\* Where two elements part cannot be below where they part: of branchings of m
\* and n at p and at q, q is not below p.
LEMMA NotBelowParting ==
  ASSUME NEW index, IsIndex(index), NEW m \in 1..Len(index), NEW n \in 1..Len(index),
         NEW a \in Ancestors(index, m), NEW b \in Ancestors(index, n),
         a # b, a # 1, b # 1, index[a].parent = index[b].parent,
         NEW q \in Ancestors(index, m), q \in Ancestors(index, n)
  PROVE  ~(index[a].parent < q)
<1> DEFINE p == index[a].parent
<1> SUFFICES ASSUME p < q PROVE FALSE
  OBVIOUS
<1>1. /\ q \in 1..Len(index) /\ a \in 1..Len(index) /\ b \in 1..Len(index)
      /\ p \in 1..Len(index) /\ Len(index) \in Nat /\ p < a /\ p < b
  BY ParentOfAncestor, AncestorsChain, IndexIs
<1>2. Ancestors(index, q) = {q} \cup Ancestors(index, index[q].parent)
  BY <1>1, AncestorsAre
<1>3. ASSUME NEW l \in {m, n}, NEW x \in Ancestors(index, l), x # 1, index[x].parent = p
      PROVE  x \in Ancestors(index, q)
  <2>1. x \in 1..Len(index) /\ q \in Ancestors(index, l) /\ l \in 1..Len(index)
    BY <1>3, AncestorsChain
  <2>2. CASE x <= q
    BY <2>1, <2>2, AncestorsChain
  <2>3. CASE q < x
    <3>1. q \in Ancestors(index, x)
      BY <1>1, <1>3, <2>1, <2>3, AncestorsChain
    <3>2. q \in Ancestors(index, p)
      BY <1>3, <2>1, <2>3, <3>1, AncestorsAre
    <3>3. q \in 1..p
      BY <1>1, <3>2, AncestorsBound
    <3> QED BY <1>1, <3>3
  <2> QED BY <1>1, <2>1, <2>2, <2>3
<1>4. a \in Ancestors(index, q) /\ b \in Ancestors(index, q)
  BY <1>3
<1>5. a < b \/ b < a
  BY <1>1
<1> QED BY <1>1, <1>4, <1>5, OneBranch

LEMMA BranchesOneWay ==
  ASSUME NEW index, IsIndex(index), NEW m \in 1..Len(index), NEW n \in 1..Len(index),
         Branches(index, m, n)
  PROVE  ~Branches(index, n, m)
<1> SUFFICES ASSUME Branches(index, n, m) PROVE FALSE
  OBVIOUS
<1>1. PICK a \in Ancestors(index, m), b \in Ancestors(index, n) :
        a < b /\ a # 1 /\ index[a].parent = index[b].parent
  BY DEF Branches
<1>2. PICK c \in Ancestors(index, n), d \in Ancestors(index, m) :
        c < d /\ c # 1 /\ index[c].parent = index[d].parent
  BY DEF Branches
<1> DEFINE p == index[a].parent  q == index[c].parent
<1>3. /\ a \in 1..Len(index) /\ b \in 1..Len(index) /\ c \in 1..Len(index)
      /\ d \in 1..Len(index) /\ Len(index) \in Nat
  BY <1>1, <1>2, AncestorsChain, IndexIs
<1>4. b # 1 /\ d # 1
  BY <1>1, <1>2, <1>3
<1>5. /\ p \in Ancestors(index, m) /\ p \in Ancestors(index, n) /\ p \in 1..Len(index)
      /\ q \in Ancestors(index, m) /\ q \in Ancestors(index, n) /\ q \in 1..Len(index)
  BY <1>1, <1>2, <1>4, ParentOfAncestor
<1>6. ~(p < q)
  BY <1>1, <1>3, <1>4, <1>5, NotBelowParting
<1>7. ~(q < p)
  BY <1>2, <1>3, <1>4, <1>5, NotBelowParting
<1>8. p = q
  BY <1>3, <1>5, <1>6, <1>7
<1>9. ~(a < d) /\ ~(d < a)
  BY <1>1, <1>2, <1>4, <1>8, OneBranch
<1>10. ~(b < c) /\ ~(c < b)
  BY <1>1, <1>2, <1>4, <1>8, OneBranch
<1> QED BY <1>1, <1>2, <1>3, <1>9, <1>10

\* Document order is not reflexive and not symmetric.
LEMMA PrecedesOneWay ==
  ASSUME NEW index, IsIndex(index), NEW m \in 1..Len(index), NEW n \in 1..Len(index),
         Precedes(index, m, n)
  PROVE  m # n /\ ~Precedes(index, n, m)
<1>1. CASE Branches(index, m, n)
  <2>1. m \notin Ancestors(index, n) /\ n \notin Ancestors(index, m)
    BY <1>1, BranchesApart
  <2>2. m # n
    BY <2>1, AncestorsBound
  <2> QED BY <1>1, <2>1, <2>2, BranchesOneWay, PrecedesIs
<1>2. CASE m # n /\ m \in Ancestors(index, n)
  <2>1. ~Branches(index, n, m)
    BY <1>2, BranchesApart
  <2>2. n \notin Ancestors(index, m)
    BY <1>2, AncestorsBound, IndexIs
  <2> QED BY <1>2, <2>1, <2>2, PrecedesIs
<1> QED BY <1>1, <1>2, PrecedesIs

\* What precedes an element precedes what is below it, but itself.
LEMMA PrecedesDown ==
  ASSUME NEW index, IsIndex(index), NEW m \in 1..Len(index), NEW n \in 1..Len(index),
         NEW c \in 1..Len(index), n \in Ancestors(index, c), c # m,
         Precedes(index, m, n) \/ m = n
  PROVE  Precedes(index, m, c)
<1>1. Ancestors(index, n) \subseteq Ancestors(index, c)
  BY AncestorsChain
<1>2. m \in Ancestors(index, n) => m \in Ancestors(index, c)
  BY <1>1
<1>3. Branches(index, m, n) => Branches(index, m, c)
  BY <1>1, BranchesDown
<1> QED BY <1>2, <1>3, PrecedesIs

-----------------------------------------------------------------------------
(***************************************************************************)
(* iter_tree.  What was returned is in document order and before what is   *)
(* on the stack, whose later lists come before its earlier ones; everything*)
(* else is below what is on the stack.                                     *)
(***************************************************************************)
LEMMA WiderSeq ==
  ASSUME NEW S, NEW T, S \subseteq T, NEW s \in Seq(S)
  PROVE  s \in Seq(T)
<1>1. Len(s) \in Nat /\ s \in [1..Len(s) -> S]
  OBVIOUS
<1>2. s \in [1..Len(s) -> T]
  BY <1>1
<1> QED BY <1>1, <1>2

LEMMA FrontIs ==
  ASSUME NEW S, NEW s \in Seq(S), s # << >>
  PROVE  /\ Front(s) \in Seq(S) /\ Len(Front(s)) = Len(s) - 1
         /\ \A i \in 1..(Len(s) - 1) : Front(s)[i] = s[i]
<1> DEFINE n == Len(s) - 1
<1>1. n \in Nat /\ Len(s) = n + 1 /\ \A i \in 1..n : s[i] \in S
  OBVIOUS
<1>2. Front(s) = SubSeq(s, 1, n)
  BY DEF Front
<1> HIDE DEF n
<1>3. /\ SubSeq(s, 1, n) \in Seq(S)
      /\ Len(SubSeq(s, 1, n)) = IF 1 <= n THEN n - 1 + 1 ELSE 0
      /\ \A i \in 1..(n - 1 + 1) : SubSeq(s, 1, n)[i] = s[1 + i - 1]
  BY <1>1, SubSeqProperties, SMT
<1> QED BY <1>1, <1>2, <1>3 DEF n

AreChildren(index, n, kids) ==
    /\ kids \in Seq(1..Len(index)) /\ Len(kids) \in Nat
    /\ \A j \in 1..Len(kids) :
         /\ kids[j] \in 1..Len(index) /\ kids[j] # 1 /\ kids[j] # n
         /\ index[kids[j]].parent = n
         /\ n \in Ancestors(index, kids[j])
         /\ Ancestors(index, n) \subseteq Ancestors(index, kids[j])
    /\ \A i, j \in 1..Len(kids) : i < j => kids[i] < kids[j]
    /\ \A m \in 1..Len(index) :
         index[m].parent = n => \E j \in 1..Len(kids) : kids[j] = m

LEMMA ChildrenAre ==
  ASSUME NEW index, IsIndex(index), NEW n \in 1..Len(index),
         NEW kids, kids = Children(index, n)
  PROVE  AreChildren(index, n, kids)
<1> DEFINE S == ChildrenOf(index, n)  N == Len(index)
<1>1. N \in Nat /\ DOMAIN index = 1..N /\ index[1].parent = 0 /\ n # 0
  BY IndexIs
<1>2. S = {m \in 1..N : index[m].parent = n}
  BY <1>1 DEF ChildrenOf
<1>3. S \in SUBSET Nat /\ S \in SUBSET (1..N)
  BY <1>1, <1>2
<1>4. IsFiniteSet(S)
  <2>1. IsFiniteSet(1..N)
    BY <1>1, FS_Interval
  <2> HIDE DEF S
  <2> QED BY <1>3, <2>1, FS_Subset
<1>5. kids = Ascending(S)
  BY DEF Children
<1> HIDE DEF S
<1>6. /\ kids \in Seq(S) /\ Strict(kids)
      /\ \A m \in S : \E k \in 1..Len(kids) : kids[k] = m
  BY <1>3, <1>4, <1>5, AscendingIs
<1>7. Len(kids) \in Nat /\ \A j \in 1..Len(kids) : kids[j] \in S
  BY <1>6
<1>8. ASSUME NEW m \in S
      PROVE  /\ m \in 1..N /\ m # 1 /\ m # n /\ index[m].parent = n
             /\ n \in Ancestors(index, m)
             /\ Ancestors(index, n) \subseteq Ancestors(index, m)
  <2>1. m \in 1..N /\ m # 1 /\ index[m].parent = n
    BY <1>1, <1>2
  <2>2. Ancestors(index, m) = {m} \cup Ancestors(index, n)
    BY <2>1, AncestorsAre
  <2>3. m # n
    BY <2>1, IndexIs
  <2>4. n \in Ancestors(index, n)
    BY AncestorsBound
  <2> QED BY <2>1, <2>2, <2>3, <2>4
<1>9. kids \in Seq(1..N)
  BY <1>3, <1>6, WiderSeq
<1> QED BY <1>2, <1>6, <1>7, <1>8, <1>9 DEF Strict, AreChildren

Walks(index) == [stack : Seq(Seq(1..Len(index))), out : Seq(1..Len(index))]

\* What a step makes of an empty list and of one that is not.
Drops(index, w, new, L) ==
    /\ new \in Walks(index) /\ new.out = w.out
    /\ Len(new.stack) = L - 1
    /\ \A i \in 1..(L - 1) : new.stack[i] = w.stack[i]
Yields(index, w, new, L) ==
    /\ new \in Walks(index) /\ w.stack[L][1] \in 1..Len(index)
    /\ new.out = Append(w.out, w.stack[L][1])
    /\ Len(new.stack) = L + 1
    /\ \A i \in 1..(L - 1) : new.stack[i] = w.stack[i]
    /\ Len(new.stack[L]) = Len(w.stack[L]) - 1
    /\ \A j \in 1..(Len(w.stack[L]) - 1) : new.stack[L][j] = w.stack[L][j + 1]
    /\ new.stack[L + 1] = Children(index, w.stack[L][1])

LEMMA StepIs ==
  ASSUME NEW index, IsIndex(index), NEW w \in Walks(index), w.stack # << >>,
         NEW new, new = Step(index, w), NEW L, L = Len(w.stack)
  PROVE  /\ L \in Nat /\ L # 0 /\ w.stack[L] \in Seq(1..Len(index))
         /\ w.stack[L] = << >> => Drops(index, w, new, L)
         /\ w.stack[L] # << >> => Yields(index, w, new, L)
<1> DEFINE N == Len(index)  list == w.stack[L]  rest == Front(w.stack)
<1>1. /\ w.stack \in Seq(Seq(1..N)) /\ w.out \in Seq(1..N) /\ L \in Nat /\ L # 0
      /\ w = [stack |-> w.stack, out |-> w.out]
  BY DEF Walks
<1>2. list \in Seq(1..N) /\ list = Last(w.stack)
  BY <1>1 DEF Last
<1>3. /\ rest \in Seq(Seq(1..N)) /\ Len(rest) = L - 1
      /\ \A i \in 1..(L - 1) : rest[i] = w.stack[i]
  <2> HIDE DEF N
  <2> QED BY <1>1, FrontIs
<1>4. new = IF list = << >> THEN [w EXCEPT !.stack = rest]
            ELSE [stack |-> rest \o <<Tail(list), Children(index, Head(list))>>,
                  out |-> Append(w.out, Head(list))]
  BY <1>2 DEF Step
<1> HIDE DEF rest, list
<1>5. CASE list = << >>
  <2>1. new = [stack |-> rest, out |-> w.out]
    BY <1>1, <1>4, <1>5
  <2>2. new.stack = rest /\ new.out = w.out /\ new \in Walks(index)
    BY <1>1, <1>3, <2>1 DEF Walks
  <2>3. Drops(index, w, new, L)
    BY <1>3, <2>2 DEF Drops
  <2> QED BY <1>1, <1>2, <1>5, <2>3 DEF list
<1>6. CASE list # << >>
  <2> DEFINE h == list[1]  tail == Tail(list)  kids == Children(index, h)
  <2>1. /\ Len(list) \in Nat /\ Len(list) # 0 /\ h \in 1..N /\ Head(list) = h
        /\ tail \in Seq(1..N) /\ Len(tail) = Len(list) - 1
        /\ \A j \in 1..(Len(list) - 1) : tail[j] = list[j + 1]
    BY <1>2, <1>6
  <2>2. kids \in Seq(1..N)
    BY <2>1, ChildrenAre DEF AreChildren
  <2>3. new = [stack |-> rest \o <<tail, kids>>, out |-> Append(w.out, h)]
    BY <1>4, <1>6, <2>1
  <2> HIDE DEF h, tail, kids
  <2>4. /\ rest \o <<tail, kids>> \in Seq(Seq(1..N))
        /\ Len(rest \o <<tail, kids>>) = L + 1
        /\ \A i \in 1..(L - 1) : (rest \o <<tail, kids>>)[i] = rest[i]
        /\ (rest \o <<tail, kids>>)[L] = tail
        /\ (rest \o <<tail, kids>>)[L + 1] = kids
    BY <1>1, <1>3, <2>1, <2>2
  <2>5. Append(w.out, h) \in Seq(1..N)
    BY <1>1, <2>1
  <2>6. new.stack = rest \o <<tail, kids>> /\ new.out = Append(w.out, h) /\ new \in Walks(index)
    <3> DEFINE stack == rest \o <<tail, kids>>  out == Append(w.out, h)
    <3>1. new = [stack |-> stack, out |-> out] /\ stack \in Seq(Seq(1..N)) /\ out \in Seq(1..N)
      BY <2>3, <2>4, <2>5
    <3> HIDE DEF stack, out
    <3>2. new.stack = stack /\ new.out = out /\ new \in Walks(index)
      BY <3>1 DEF Walks
    <3> QED BY <3>2 DEF stack, out
  <2>7. h = w.stack[L][1] /\ kids = Children(index, w.stack[L][1]) /\ list = w.stack[L]
    BY DEF h, kids, list
  <2>8. /\ new.out = Append(w.out, w.stack[L][1])
        /\ new.stack[L + 1] = Children(index, w.stack[L][1])
        /\ w.stack[L][1] \in 1..Len(index)
    BY <2>1, <2>4, <2>6, <2>7
  <2>9. /\ Len(new.stack) = L + 1
        /\ \A i \in 1..(L - 1) : new.stack[i] = w.stack[i]
    BY <1>3, <2>4, <2>6
  <2>10. /\ Len(new.stack[L]) = Len(w.stack[L]) - 1
         /\ \A j \in 1..(Len(w.stack[L]) - 1) : new.stack[L][j] = w.stack[L][j + 1]
    <3>1. new.stack[L] = tail
      BY <2>4, <2>6
    <3> QED BY <2>1, <2>7, <3>1
  <2>11. new \in Walks(index)
    BY <2>6
  <2>12. Yields(index, w, new, L)
    BY <2>8, <2>9, <2>10, <2>11 DEF Yields
  <2>13. w.stack[L] \in Seq(1..Len(index)) /\ w.stack[L] # << >>
    BY <1>2, <1>6, <2>7
  <2> HIDE DEF N
  <2> QED BY <1>1, <2>12, <2>13
<1> QED BY <1>1, <1>2, <1>5, <1>6 DEF list

ListsSound(index, w) ==
    \A i \in 1..Len(w.stack) : \A j \in 1..Len(w.stack[i]) :
        /\ w.stack[i][j] # 1
        /\ \A l \in 1..Len(w.stack[i]) : j < l =>
             /\ w.stack[i][j] < w.stack[i][l]
             /\ index[w.stack[i][j]].parent = index[w.stack[i][l]].parent
OutSorted(index, w) ==
    \A i, j \in 1..Len(w.out) : i < j => Precedes(index, w.out[i], w.out[j])
OutFirst(index, w) ==
    \A k \in 1..Len(w.out), i \in 1..Len(w.stack) : \A j \in 1..Len(w.stack[i]) :
        Precedes(index, w.out[k], w.stack[i][j])
LaterFirst(index, w) ==
    \A i, k \in 1..Len(w.stack) : i < k =>
        \A j \in 1..Len(w.stack[i]), l \in 1..Len(w.stack[k]) :
            Branches(index, w.stack[k][l], w.stack[i][j])
Returned(w, n) == \E k \in 1..Len(w.out) : w.out[k] = n
Pending(index, w, n) ==
    \E i \in 1..Len(w.stack) : \E j \in 1..Len(w.stack[i]) :
        w.stack[i][j] \in Ancestors(index, n)
Walked(index, k, w) ==
    /\ w \in Walks(index)
    /\ ListsSound(index, w)
    /\ OutSorted(index, w) /\ OutFirst(index, w) /\ LaterFirst(index, w)
    /\ \A n \in 1..Len(index) : Returned(w, n) \/ Pending(index, w, n)
    /\ w.stack # << >> => k + 1 + Len(w.stack) = 2 * Len(w.out)

LEMMA WalkIs ==
  ASSUME NEW index, NEW w \in Walks(index)
  PROVE  /\ w.stack \in Seq(Seq(1..Len(index))) /\ w.out \in Seq(1..Len(index))
         /\ Len(w.stack) \in Nat /\ Len(w.out) \in Nat
         /\ \A k \in 1..Len(w.out) : w.out[k] \in 1..Len(index)
         /\ \A i \in 1..Len(w.stack) :
              /\ w.stack[i] \in Seq(1..Len(index)) /\ Len(w.stack[i]) \in Nat
              /\ \A j \in 1..Len(w.stack[i]) : w.stack[i][j] \in 1..Len(index)
<1>1. w.stack \in Seq(Seq(1..Len(index))) /\ w.out \in Seq(1..Len(index))
  BY DEF Walks
<1>2. \A i \in 1..Len(w.stack) : w.stack[i] \in Seq(1..Len(index))
  BY <1>1
<1>3. \A i \in 1..Len(w.stack) : Len(w.stack[i]) \in Nat
              /\ \A j \in 1..Len(w.stack[i]) : w.stack[i][j] \in 1..Len(index)
  BY <1>2
<1> QED BY <1>1, <1>2, <1>3

LEMMA WalkedPops ==
  ASSUME NEW index, IsIndex(index), NEW k \in Nat, NEW w, Walked(index, k, w),
         w.stack # << >>, w.stack[Len(w.stack)] = << >>, NEW new, new = Step(index, w)
  PROVE  Walked(index, k + 1, new)
<1> DEFINE L == Len(w.stack)
<1>1. /\ w \in Walks(index) /\ w.stack[L] = << >>
      /\ ListsSound(index, w) /\ OutSorted(index, w) /\ OutFirst(index, w)
      /\ LaterFirst(index, w)
      /\ k + 1 + L = 2 * Len(w.out)
  BY DEF Walked
<1>w. L = Len(w.stack) /\ Len(w.out) \in Nat
  BY <1>1, WalkIs
<1> HIDE DEF L
<1>a. L \in Nat /\ L # 0 /\ Drops(index, w, new, L)
  BY <1>1, <1>w, StepIs
<1>2. /\ L \in Nat /\ L # 0 /\ new \in Walks(index) /\ new.out = w.out
      /\ Len(new.stack) = L - 1
      /\ \A i \in 1..(L - 1) : new.stack[i] = w.stack[i]
  BY <1>a DEF Drops
<1>3. \A i \in 1..Len(new.stack) : i \in 1..L /\ new.stack[i] = w.stack[i]
  BY <1>2
<1>4. ListsSound(index, new) /\ OutSorted(index, new) /\ OutFirst(index, new)
  <2>1. ListsSound(index, new)
    <3> SUFFICES ASSUME NEW i \in 1..Len(new.stack), NEW j \in 1..Len(new.stack[i])
                 PROVE  /\ new.stack[i][j] # 1
                        /\ \A l \in 1..Len(new.stack[i]) : j < l =>
                             /\ new.stack[i][j] < new.stack[i][l]
                             /\ index[new.stack[i][j]].parent = index[new.stack[i][l]].parent
      BY DEF ListsSound
    <3>1. i \in 1..Len(w.stack) /\ new.stack[i] = w.stack[i]
      BY <1>w, <1>3
    <3>2. j \in 1..Len(w.stack[i])
      BY <3>1
    <3>3. /\ w.stack[i][j] # 1
          /\ \A l \in 1..Len(w.stack[i]) : j < l =>
               /\ w.stack[i][j] < w.stack[i][l]
               /\ index[w.stack[i][j]].parent = index[w.stack[i][l]].parent
      BY <1>1, <3>1, <3>2 DEF ListsSound
    <3> QED BY <3>1, <3>3
  <2>2. OutSorted(index, new)
    BY <1>1, <1>2 DEF OutSorted
  <2>3. OutFirst(index, new)
    BY <1>1, <1>w, <1>2, <1>3 DEF OutFirst
  <2> QED BY <2>1, <2>2, <2>3
<1>5. LaterFirst(index, new)
  BY <1>1, <1>w, <1>3 DEF LaterFirst
<1>6. ASSUME NEW n \in 1..Len(index)
      PROVE  Returned(new, n) \/ Pending(index, new, n)
  <2>1. CASE Returned(w, n)
    BY <1>2, <2>1 DEF Returned
  <2>2. CASE Pending(index, w, n)
    <3>1. PICK i \in 1..L : \E j \in 1..Len(w.stack[i]) :
              w.stack[i][j] \in Ancestors(index, n)
      BY <1>w, <2>2 DEF Pending
    <3>2. i # L
      BY <1>1, <3>1
    <3>3. i \in 1..Len(new.stack)
      BY <1>2, <3>2
    <3> QED BY <1>3, <3>1, <3>3 DEF Pending
  <2> QED BY <2>1, <2>2 DEF Walked
<1>8. (k + 1) + 1 + Len(new.stack) = 2 * Len(new.out)
  <2>1. Len(new.stack) = L - 1 /\ Len(new.out) = Len(w.out) /\ L \in Nat
    BY <1>2
  <2>2. k + 1 + L = 2 * Len(w.out)
    BY <1>1
  <2>3. k + 1 + 1 + (L - 1) = k + 1 + L
    BY <2>1
  <2> HIDE DEF L
  <2> QED BY <2>1, <2>2, <2>3
<1> QED BY <1>2, <1>4, <1>5, <1>6, <1>8 DEF Walked

\* The element that is returned, and where what is pending after that is.
LEMMA WalkedReturns ==
  ASSUME NEW index, IsIndex(index), NEW k \in Nat, NEW w, Walked(index, k, w),
         w.stack # << >>, w.stack[Len(w.stack)] # << >>, NEW new, new = Step(index, w)
  PROVE  Walked(index, k + 1, new)
<1> DEFINE N == Len(index)  L == Len(w.stack)  list == w.stack[L]  h == list[1]
           rest == new.stack[L]  kids == new.stack[L + 1]
<1>1. /\ w \in Walks(index) /\ list # << >>
      /\ ListsSound(index, w) /\ OutSorted(index, w) /\ OutFirst(index, w)
      /\ LaterFirst(index, w)
      /\ \A n \in 1..N : Returned(w, n) \/ Pending(index, w, n)
      /\ k + 1 + L = 2 * Len(w.out)
  BY DEF Walked
<1>w. /\ L = Len(w.stack) /\ N = Len(index) /\ list = w.stack[L] /\ h = list[1]
      /\ rest = new.stack[L] /\ kids = new.stack[L + 1]
  OBVIOUS
<1> HIDE DEF L, N, list, h, rest, kids
<1>a. L \in Nat /\ L # 0 /\ list \in Seq(1..N) /\ Yields(index, w, new, L)
  BY <1>1, <1>w, StepIs
<1>2. /\ L \in Nat /\ L # 0 /\ list \in Seq(1..N)
      /\ new \in Walks(index) /\ h \in 1..N
      /\ new.out = Append(w.out, h)
      /\ Len(new.stack) = L + 1
      /\ \A i \in 1..(L - 1) : new.stack[i] = w.stack[i]
      /\ Len(rest) = Len(list) - 1
      /\ \A j \in 1..(Len(list) - 1) : rest[j] = list[j + 1]
      /\ kids = Children(index, h)
  BY <1>a, <1>w DEF Yields
<1>3. Len(list) \in Nat /\ Len(list) # 0 /\ 1 \in 1..Len(list) /\ L \in 1..L
  BY <1>1, <1>2
<1>4. /\ Len(kids) \in Nat
      /\ \A j \in 1..Len(kids) :
              /\ kids[j] \in 1..N /\ kids[j] # 1 /\ kids[j] # h
              /\ index[kids[j]].parent = h
              /\ h \in Ancestors(index, kids[j])
              /\ Ancestors(index, h) \subseteq Ancestors(index, kids[j])
      /\ \A i, j \in 1..Len(kids) : i < j => kids[i] < kids[j]
      /\ \A m \in 1..N : index[m].parent = h => \E j \in 1..Len(kids) : kids[j] = m
  <2>1. kids = Children(index, h) /\ h \in 1..Len(index)
    BY <1>2, <1>w
  <2>2. AreChildren(index, h, kids)
    BY <2>1, ChildrenAre
  <2> QED BY <1>w, <2>2 DEF AreChildren
<1>5. /\ w.out \in Seq(1..N) /\ Len(w.out) \in Nat
      /\ \A i \in 1..Len(w.out) : w.out[i] \in 1..N
      /\ \A j \in 1..Len(list) : list[j] \in 1..N
      /\ \A i \in 1..L : \A j \in 1..Len(w.stack[i]) : w.stack[i][j] \in 1..N
  BY <1>1, <1>w, <1>3, WalkIs
<1>6. ASSUME NEW j \in 1..Len(rest)
      PROVE  /\ j + 1 \in 1..Len(list) /\ rest[j] = list[j + 1] /\ rest[j] \in 1..N
             /\ rest[j] # 1 /\ h < rest[j] /\ h # 1
             /\ index[h].parent = index[rest[j]].parent
             /\ Branches(index, h, rest[j])
  <2>a. j \in 1..(Len(list) - 1) /\ j + 1 \in 1..Len(list) /\ 1 < j + 1
    BY <1>2, <1>3
  <2>1. j + 1 \in 1..Len(list) /\ rest[j] = list[j + 1] /\ rest[j] \in 1..N /\ 1 < j + 1
    BY <1>2, <1>5, <2>a
  <2>2. /\ list[j + 1] # 1 /\ h # 1 /\ h < list[j + 1]
        /\ index[h].parent = index[list[j + 1]].parent
    BY <1>1, <1>w, <1>3, <2>1 DEF ListsSound
  <2>3. h \in Ancestors(index, h) /\ rest[j] \in Ancestors(index, rest[j])
    BY <1>2, <1>w, <2>1, AncestorsBound
  <2> QED BY <2>1, <2>2, <2>3 DEF Branches
<1>7. \A i \in 1..(L + 1) : i \in 1..(L - 1) \/ i = L \/ i = L + 1
  BY <1>2
<1>8. \A i \in 1..(L - 1) : i \in 1..L /\ i < L /\ new.stack[i] = w.stack[i]
  BY <1>2
<1>9. \A i \in 1..(L - 1) : \A j \in 1..Len(w.stack[i]) : Branches(index, h, w.stack[i][j])
  BY <1>1, <1>w, <1>3, <1>8 DEF LaterFirst
<1>10. ListsSound(index, new)
  <2> SUFFICES ASSUME NEW i \in 1..(L + 1), NEW j \in 1..Len(new.stack[i])
               PROVE  /\ new.stack[i][j] # 1
                      /\ \A l \in 1..Len(new.stack[i]) : j < l =>
                           /\ new.stack[i][j] < new.stack[i][l]
                           /\ index[new.stack[i][j]].parent = index[new.stack[i][l]].parent
    BY <1>2 DEF ListsSound
  <2>1. CASE i \in 1..(L - 1)
    <3>1. i \in 1..Len(w.stack) /\ new.stack[i] = w.stack[i]
      BY <1>w, <1>8, <2>1
    <3>2. j \in 1..Len(w.stack[i])
      BY <3>1
    <3>3. /\ w.stack[i][j] # 1
          /\ \A l \in 1..Len(w.stack[i]) : j < l =>
               /\ w.stack[i][j] < w.stack[i][l]
               /\ index[w.stack[i][j]].parent = index[w.stack[i][l]].parent
      BY <1>1, <3>1, <3>2 DEF ListsSound
    <3> QED BY <3>1, <3>3
  <2>2. CASE i = L
    <3>1. \A l \in 1..Len(rest) : j < l =>
            j + 1 < l + 1 /\ l + 1 \in 1..Len(list) /\ rest[l] = list[l + 1]
      <4> SUFFICES ASSUME NEW l \in 1..Len(rest), j < l
                   PROVE  j + 1 < l + 1 /\ l + 1 \in 1..Len(list) /\ rest[l] = list[l + 1]
        OBVIOUS
      <4>1. j \in 1..Len(rest)
        BY <1>w, <2>2
      <4> QED BY <1>6, <4>1
    <3>2. \A l \in 1..Len(list) : j + 1 < l =>
            /\ list[j + 1] < list[l]
            /\ index[list[j + 1]].parent = index[list[l]].parent
      <4>1. j + 1 \in 1..Len(list)
        BY <1>w, <1>6, <2>2
      <4> QED BY <1>1, <1>w, <1>3, <4>1 DEF ListsSound
    <3>3. rest[j] = list[j + 1] /\ rest[j] # 1
      BY <1>w, <1>6, <2>2
    <3>4. /\ rest[j] # 1
          /\ \A l \in 1..Len(rest) : j < l =>
               rest[j] < rest[l] /\ index[rest[j]].parent = index[rest[l]].parent
      BY <3>1, <3>2, <3>3
    <3> QED BY <1>w, <2>2, <3>4
  <2>3. CASE i = L + 1
    <3>1. kids = new.stack[i]
      BY <1>w, <2>3
    <3>2. j \in 1..Len(kids) /\ kids[j] # 1
      BY <1>4, <3>1
    <3>3. \A l \in 1..Len(kids) : j < l =>
            kids[j] < kids[l] /\ index[kids[j]].parent = index[kids[l]].parent
      BY <1>4, <3>2
    <3> QED BY <3>1, <3>2, <3>3
  <2> QED BY <1>7, <2>1, <2>2, <2>3
<1>11. /\ Len(new.out) = Len(w.out) + 1 /\ new.out[Len(w.out) + 1] = h
       /\ \A i \in 1..Len(w.out) : new.out[i] = w.out[i]
       /\ \A i \in 1..Len(new.out) : i \in 1..Len(w.out) \/ i = Len(w.out) + 1
  <2> DEFINE size == Len(w.out)
  <2>1. size \in Nat /\ w.out \in Seq(1..N) /\ h \in 1..N /\ new.out = Append(w.out, h)
    BY <1>2, <1>5
  <2>2. /\ Len(new.out) = size + 1 /\ new.out[size + 1] = h
        /\ \A i \in 1..size : new.out[i] = w.out[i]
    BY <2>1
  <2> HIDE DEF size
  <2>3. \A i \in 1..(size + 1) : i \in 1..size \/ i = size + 1
    BY <2>1
  <2> QED BY <2>2, <2>3 DEF size
<1>12. \A i \in 1..Len(w.out) : Precedes(index, w.out[i], h)
  BY <1>1, <1>w, <1>3 DEF OutFirst
<1>13. OutSorted(index, new)
  <2> SUFFICES ASSUME NEW i \in 1..Len(new.out), NEW j \in 1..Len(new.out), i < j
               PROVE  Precedes(index, new.out[i], new.out[j])
    BY DEF OutSorted
  <2>1. i \in 1..Len(w.out)
    BY <1>5, <1>11
  <2>2. CASE j \in 1..Len(w.out)
    BY <1>1, <1>11, <2>1, <2>2 DEF OutSorted
  <2>3. CASE j = Len(w.out) + 1
    BY <1>11, <1>12, <2>1, <2>3
  <2> QED BY <1>11, <2>2, <2>3
\* What was returned, or is now, precedes what is on the stack.
<1>14. ASSUME NEW j \in 1..Len(kids), NEW m \in 1..N, Precedes(index, m, h) \/ m = h
       PROVE  Precedes(index, m, kids[j])
  <2>1. h \in Ancestors(index, kids[j]) /\ kids[j] \in 1..N /\ kids[j] # h
    BY <1>4
  <2>a. N = Len(index)
    BY <1>w
  <2>2. kids[j] # m
    <3> SUFFICES ASSUME kids[j] = m PROVE FALSE
      OBVIOUS
    <3>1. Precedes(index, kids[j], h)
      BY <1>14, <2>1
    <3>2. Precedes(index, h, kids[j])
      BY <2>1, PrecedesIs
    <3> QED BY <1>2, <2>a, <2>1, <3>1, <3>2, PrecedesOneWay
  <2> QED BY <1>2, <1>14, <2>a, <2>1, <2>2, PrecedesDown
<1>15. OutFirst(index, new)
  <2> SUFFICES ASSUME NEW n \in 1..Len(new.out), NEW i \in 1..(L + 1),
                      NEW j \in 1..Len(new.stack[i])
               PROVE  Precedes(index, new.out[n], new.stack[i][j])
    BY <1>2 DEF OutFirst
  <2>1. /\ new.out[n] \in 1..N
        /\ Precedes(index, new.out[n], h) \/ new.out[n] = h
        /\ n \in 1..Len(w.out) \/ new.out[n] = h
    BY <1>2, <1>5, <1>11, <1>12
  <2>2. CASE i \in 1..(L - 1)
    <3>1. new.stack[i][j] = w.stack[i][j] /\ j \in 1..Len(w.stack[i]) /\ i \in 1..L
      BY <1>8, <2>2
    <3>2. n \in 1..Len(w.out) => Precedes(index, new.out[n], w.stack[i][j])
      BY <1>1, <1>w, <1>11, <3>1 DEF OutFirst
    <3>3. new.out[n] = h => Precedes(index, new.out[n], w.stack[i][j])
      BY <1>9, <2>2, <3>1, PrecedesIs
    <3> QED BY <2>1, <3>1, <3>2, <3>3
  <2>3. CASE i = L
    <3>1. n \in 1..Len(w.out) => Precedes(index, new.out[n], list[j + 1])
      <4>1. j + 1 \in 1..Len(list)
        BY <1>w, <1>6, <2>3
      <4> QED BY <1>1, <1>w, <1>3, <1>11, <4>1 DEF OutFirst
    <3>2. new.out[n] = h => Precedes(index, new.out[n], rest[j])
      BY <1>w, <1>6, <2>3, PrecedesIs
    <3> QED BY <1>w, <1>6, <2>1, <2>3, <3>1, <3>2
  <2>4. CASE i = L + 1
    BY <1>w, <1>14, <2>1, <2>4
  <2> QED BY <1>7, <2>2, <2>3, <2>4
<1>16. LaterFirst(index, new)
  <2> SUFFICES ASSUME NEW i \in 1..(L + 1), NEW m \in 1..(L + 1), i < m,
                      NEW j \in 1..Len(new.stack[i]), NEW l \in 1..Len(new.stack[m])
               PROVE  Branches(index, new.stack[m][l], new.stack[i][j])
    BY <1>2 DEF LaterFirst
  <2>1. CASE m \in 1..(L - 1)
    <3>1. i \in 1..(L - 1)
      BY <1>2, <2>1
    <3> QED BY <1>1, <1>w, <1>8, <2>1, <3>1 DEF LaterFirst
  <2>2. CASE m = L
    <3>1. i \in 1..(L - 1)
      BY <1>2, <2>2
    <3>2. new.stack[i] = w.stack[i] /\ i \in 1..L
      BY <1>8, <3>1
    <3>3. l \in 1..Len(rest) /\ l + 1 \in 1..Len(list) /\ rest[l] = list[l + 1]
      BY <1>w, <1>6, <2>2
    <3>4. Branches(index, list[l + 1], w.stack[i][j])
      <4>1. i < L /\ j \in 1..Len(w.stack[i])
        BY <2>2, <3>2
      <4> QED BY <1>1, <1>w, <1>3, <3>2, <3>3, <4>1 DEF LaterFirst
    <3> QED BY <1>w, <2>2, <3>2, <3>3, <3>4
  <2>3. CASE m = L + 1
    <3>1. i \in 1..(L - 1) \/ i = L
      BY <1>2, <2>3
    <3>2. Branches(index, h, new.stack[i][j])
      BY <1>w, <1>6, <1>8, <1>9, <3>1
    <3>3. Ancestors(index, h) \subseteq Ancestors(index, kids[l])
      BY <1>w, <1>4, <2>3
    <3>4. Branches(index, kids[l], new.stack[i][j])
      BY <3>2, <3>3, BranchesDown
    <3> QED BY <1>w, <2>3, <3>4
  <2> QED BY <1>7, <2>1, <2>2, <2>3
<1>17. ASSUME NEW n \in 1..N
       PROVE  Returned(new, n) \/ Pending(index, new, n)
  <2>1. CASE Returned(w, n)
    BY <1>5, <1>11, <2>1 DEF Returned
  <2>2. CASE Pending(index, w, n)
    <3>a. PICK i \in 1..L : \E j \in 1..Len(w.stack[i]) : w.stack[i][j] \in Ancestors(index, n)
      BY <1>w, <2>2 DEF Pending
    <3>1. PICK j \in 1..Len(w.stack[i]) : w.stack[i][j] \in Ancestors(index, n)
      BY <3>a
    <3>2. CASE i # L
      <4>1. i \in 1..(L - 1) /\ i \in 1..Len(new.stack)
        BY <1>2, <3>2
      <4> QED BY <1>8, <3>1, <4>1 DEF Pending
    <3>3. CASE i = L /\ j # 1
      <4>1. j - 1 \in 1..Len(rest) /\ rest[j - 1] = list[j]
        <5>1. j \in 1..Len(list) /\ j # 1
          BY <1>w, <3>3
        <5>2. j - 1 \in 1..Len(rest)
          BY <1>2, <1>3, <5>1
        <5>3. rest[j - 1] = list[(j - 1) + 1] /\ (j - 1) + 1 = j
          BY <1>6, <5>1, <5>2
        <5> QED BY <5>2, <5>3
      <4>2. L \in 1..Len(new.stack)
        BY <1>2
      <4>3. \E y \in 1..Len(rest) : rest[y] \in Ancestors(index, n)
        BY <1>w, <3>1, <3>3, <4>1
      <4> QED BY <1>w, <4>2, <4>3 DEF Pending
    <3>4. CASE i = L /\ j = 1 /\ h = n
      <4>1. Len(w.out) + 1 \in 1..Len(new.out)
        BY <1>5, <1>11
      <4> QED BY <1>11, <3>4, <4>1 DEF Returned
    <3>5. CASE i = L /\ j = 1 /\ h # n
      <4>1. PICK c \in Ancestors(index, n) : c # 1 /\ index[c].parent = h
        BY <1>w, <3>1, <3>5, ChildBetween
      <4>2. c \in 1..N
        BY <1>w, AncestorsChain
      <4>3. \E y \in 1..Len(kids) : kids[y] \in Ancestors(index, n)
        BY <1>4, <4>1, <4>2
      <4>4. L + 1 \in 1..Len(new.stack)
        BY <1>2
      <4> QED BY <1>w, <4>3, <4>4 DEF Pending
    <3> QED BY <3>2, <3>3, <3>4, <3>5
  <2> QED BY <1>1, <2>1, <2>2
<1>19. (k + 1) + 1 + Len(new.stack) = 2 * Len(new.out)
  <2>1. Len(new.stack) = L + 1 /\ Len(new.out) = Len(w.out) + 1
    BY <1>2, <1>11
  <2>2. k + 1 + L = 2 * Len(w.out) /\ L \in Nat /\ Len(w.out) \in Nat
    BY <1>1, <1>2, <1>5
  <2> QED BY <2>1, <2>2
<1> QED BY <1>w, <1>2, <1>10, <1>13, <1>15, <1>16, <1>17, <1>19 DEF Walked

LEMMA WalkedSteps ==
  ASSUME NEW index, IsIndex(index), NEW k \in Nat, NEW w, Walked(index, k, w)
  PROVE  Walked(index, k + 1, Step(index, w))
<1>1. CASE w.stack = << >>
  <2>1. Step(index, w) = w
    BY <1>1 DEF Step
  <2> QED BY <1>1, <2>1 DEF Walked
<1> QED BY <1>1, WalkedPops, WalkedReturns

LEMMA StepWalks ==
  ASSUME NEW index, IsIndex(index), NEW w \in Walks(index)
  PROVE  Step(index, w) \in Walks(index)
<1>1. CASE w.stack = << >>
  BY <1>1 DEF Step
<1> QED BY <1>1, StepIs DEF Drops, Yields

LEMMA WalkStarts ==
  ASSUME NEW index, IsIndex(index),
         NEW w, w = [stack |-> <<Children(index, 1)>>, out |-> << 1 >>]
  PROVE  Walked(index, 0, w)
<1> DEFINE N == Len(index)  kids == Children(index, 1)
<1>1. N \in Nat /\ 1 \in 1..N
  BY IndexIs
<1>2. AreChildren(index, 1, kids)
  BY <1>1, ChildrenAre
<1> HIDE DEF kids
<1>3. kids \in Seq(1..N)
  BY <1>2 DEF AreChildren
<1>4. /\ w.stack = <<kids>> /\ w.out = << 1 >> /\ Len(w.stack) = 1 /\ Len(w.out) = 1
      /\ w.stack[1] = kids /\ w.out[1] = 1 /\ w \in Walks(index)
  BY <1>1, <1>3 DEF Walks, kids
<1>5. \A i \in 1..Len(w.stack) : w.stack[i] = kids /\ i = 1
  BY <1>4
<1>6. ListsSound(index, w)
  BY <1>2, <1>5 DEF ListsSound, AreChildren
<1>7. OutSorted(index, w)
  BY <1>4 DEF OutSorted
<1>8. OutFirst(index, w)
  <2>1. \A j \in 1..Len(kids) : Precedes(index, 1, kids[j])
    BY <1>2, PrecedesIs DEF AreChildren
  <2> QED BY <1>4, <1>5, <2>1 DEF OutFirst
<1>9. LaterFirst(index, w)
  BY <1>4 DEF LaterFirst
<1>10. ASSUME NEW n \in 1..N PROVE Returned(w, n) \/ Pending(index, w, n)
  <2>1. CASE n = 1
    BY <1>4, <2>1 DEF Returned
  <2>2. CASE n # 1
    <3>1. PICK c \in Ancestors(index, n) : c # 1 /\ index[c].parent = 1
      BY <2>2, AncestorsBound, ChildBetween
    <3>2. c \in 1..N
      BY AncestorsChain
    <3>3. \E j \in 1..Len(kids) : kids[j] \in Ancestors(index, n)
      BY <1>2, <3>1, <3>2 DEF AreChildren
    <3>4. 1 \in 1..Len(w.stack)
      BY <1>4
    <3> QED BY <1>4, <3>3, <3>4 DEF Pending
  <2> QED BY <2>1, <2>2
<1>11. 0 + 1 + Len(w.stack) = 2 * Len(w.out)
  BY <1>4
<1> QED BY <1>4, <1>6, <1>7, <1>8, <1>9, <1>10, <1>11 DEF Walked

LEMMA Numbers ==
  ASSUME NEW n \in Nat
  PROVE  IsFiniteSet(1..n) /\ Cardinality(1..n) = n
<1>1. IsFiniteSet(1..n) /\ Cardinality(1..n) = IF 1 > n THEN 0 ELSE n - 1 + 1
  BY FS_Interval
<1> QED BY <1>1

LEMMA EnoughSteps ==
  ASSUME NEW n \in Nat, NEW made \in Nat, NEW left \in Nat, made <= n
  PROVE  2 * n + 1 + left # 2 * made
OBVIOUS

\* iter_tree returns every element once and in document order.
THEOREM TreeIsWalked ==
  ASSUME NEW index, IsIndex(index), NEW out, out = IterTree(index)
  PROVE  /\ out \in Seq(1..Len(index))
         /\ \A i, j \in 1..Len(out) : i < j => Precedes(index, out[i], out[j])
         /\ \A n \in 1..Len(index) : \E k \in 1..Len(out) : out[k] = n
<1> DEFINE N == Len(index)  steps == 2 * N  T == Walks(index)
           start == [stack |-> <<Children(index, 1)>>, out |-> << 1 >>]
           step == [k \in 1..steps |-> [w \in T |-> Step(index, w)]]
           Is(f) == f = [k \in 0..steps |->
               IF k = 0 THEN [stack |-> <<Children(index, 1)>>, out |-> << 1 >>]
               ELSE Step(index, f[k - 1])]
<1>1. N \in Nat /\ N # 0 /\ steps \in Nat /\ steps = 2 * N
  BY IndexIs
<1>2. Walked(index, 0, start) /\ start \in T
  BY WalkStarts DEF Walked
<1>3. step \in Advances(steps, T)
  BY StepWalks DEF Advances
<1>4. \A k \in 1..steps : \A w \in T : step[k][w] = Step(index, w)
  OBVIOUS
<1>5. out = (CHOOSE f : Is(f))[steps].out
  BY DEF IterTree
<1> HIDE DEF step, steps, T
<1>6. PICK f : IsIterated(f, steps, T, start, step)
  BY <1>1, <1>2, <1>3, Iteration
<1>7. Is(f)
  <2>1. \A k \in 0..steps : k # 0 => k \in 1..steps /\ k - 1 \in 0..steps
    BY <1>1
  <2>2. \A k \in 0..steps : f[k] = IF k = 0 THEN start ELSE Step(index, f[k - 1])
    BY <1>4, <1>6, <2>1 DEF IsIterated
  <2>3. f = [k \in 0..steps |-> f[k]]
    BY <1>6 DEF IsIterated
  <2> QED BY <2>2, <2>3
<1> DEFINE g == CHOOSE u : Is(u)
<1>8. Is(g)
  BY <1>7, Zenon
<1>9. out = g[steps].out
  BY <1>5
<1> HIDE DEF g
<1>10. /\ g[0] = start
       /\ \A k \in 1..steps : g[k] = Step(index, g[k - 1])
  <2>1. 0 \in 0..steps /\ \A k \in 1..steps : k \in 0..steps /\ k # 0
    BY <1>1
  <2> QED BY <1>8, <2>1
<1> HIDE DEF Is, start
<1> DEFINE S == {k \in 0..steps : Walked(index, k, g[k])}
<1>11. 0 \in S
  BY <1>1, <1>2, <1>10
<1>12. ASSUME NEW k \in 1..steps, k - 1 \in S PROVE k \in S
  <2>1. k - 1 \in Nat /\ (k - 1) + 1 = k /\ k \in 0..steps /\ Walked(index, k - 1, g[k - 1])
    BY <1>1, <1>12
  <2>2. Walked(index, (k - 1) + 1, Step(index, g[k - 1]))
    BY <2>1, WalkedSteps
  <2>3. Walked(index, k, g[k])
    BY <1>10, <2>1, <2>2
  <2> QED BY <2>1, <2>3
<1> HIDE DEF S
<1>13. 0..steps \subseteq S
  BY <1>1, <1>11, <1>12, Induction
<1> DEFINE w == g[steps]
<1>14. Walked(index, steps, w)
  BY <1>1, <1>13 DEF S
<1>15. out = w.out
  BY <1>9
<1> HIDE DEF w
<1>16. /\ out \in Seq(1..N) /\ Len(out) \in Nat
       /\ \A k \in 1..Len(out) : out[k] \in 1..N
  BY <1>14, <1>15, WalkIs DEF Walked
<1>17. \A i, j \in 1..Len(out) : i < j => Precedes(index, out[i], out[j])
  BY <1>14, <1>15 DEF Walked, OutSorted
<1>18. Len(out) <= N
  <2>1. \A i, j \in 1..Len(out) : i < j => out[i] # out[j]
    BY <1>16, <1>17, PrecedesOneWay
  <2>2. out \in Injection(1..Len(out), 1..N)
    <3>1. out \in [1..Len(out) -> 1..N]
      BY <1>16
    <3>2. \A i, j \in 1..Len(out) : i # j => i < j \/ j < i
      BY <1>16
    <3> QED BY <2>1, <3>1, <3>2 DEF Injection, IsInjective
  <2>3. /\ IsFiniteSet(1..N) /\ Cardinality(1..N) = N
        /\ IsFiniteSet(1..Len(out)) /\ Cardinality(1..Len(out)) = Len(out)
    BY <1>1, <1>16, Numbers
  <2>4. Cardinality(1..Len(out)) <= Cardinality(1..N)
    BY <2>2, <2>3, FS_Injection
  <2> QED BY <2>3, <2>4
<1>19. w.stack = << >>
  <2> SUFFICES ASSUME w.stack # << >> PROVE FALSE
    OBVIOUS
  <2>1. steps + 1 + Len(w.stack) = 2 * Len(out) /\ Len(w.stack) \in Nat
    BY <1>14, <1>15, WalkIs DEF Walked
  <2> HIDE DEF N
  <2>2. 2 * N + 1 + Len(w.stack) # 2 * Len(out)
    BY <1>1, <1>16, <1>18, <2>1, EnoughSteps
  <2> QED BY <1>1, <2>1, <2>2
<1>20. ASSUME NEW n \in 1..N PROVE \E k \in 1..Len(out) : out[k] = n
  <2>1. Returned(w, n) \/ Pending(index, w, n)
    BY <1>14 DEF Walked
  <2>2. ~Pending(index, w, n)
    BY <1>19 DEF Pending
  <2> QED BY <1>15, <2>1, <2>2 DEF Returned
<1> QED BY <1>16, <1>17, <1>20

-----------------------------------------------------------------------------
(***************************************************************************)
(* The rows of an index.  Of the targets B that were returned so far: the  *)
(* last of some kind, those that are counted with a name, and the context. *)
(***************************************************************************)
LastOf(index, S) == {m \in S : \A k \in S : k = m \/ Precedes(index, k, m)}
Of(index, B, name) == {m \in B : index[m].name = name}
Scope(index, B, name) ==
    IF name = "solution" THEN LastOf(index, Of(index, B, "exercise"))
    ELSE IF name = "subfigure" THEN LastOf(index, Of(index, B, "figure")) ELSE {}
Counted(index, B, name) ==
    {m \in B : index[m].name = name /\ \A k \in Scope(index, B, name) : Precedes(index, k, m)}
Unowned(index, B) == {m \in B : index[m].name \notin Owned}
Context(index, B) ==
    LET last == LastOf(index, Unowned(index, B))
    IN  IF \E m \in last : index[m].name \in Owners
        THEN index[CHOOSE m \in last : TRUE].id ELSE None
\* The target that process_document makes of an element.
Made(index, n) ==
    Target(index, n,
           IF index[n].name \in Owned THEN Context(index, Before(index, n)) ELSE None,
           1 + Cardinality(Counted(index, Before(index, n), index[n].name)))

Follows(index, S, n) ==
    /\ n \in 1..Len(index) /\ S \in SUBSET (1..Len(index))
    /\ \A m \in S : Precedes(index, m, n)

\* An element that everything precedes is the last.
LEMMA LastAdded ==
  ASSUME NEW index, IsIndex(index), NEW n, NEW S, Follows(index, S, n), NEW R, R = S \cup {n}
  PROVE  LastOf(index, R) = {n}
<1>0. /\ n \in 1..Len(index) /\ S \in SUBSET (1..Len(index))
      /\ \A m \in S : Precedes(index, m, n)
  BY DEF Follows
<1>1. n \in LastOf(index, R)
  BY <1>0 DEF LastOf
<1>2. ASSUME NEW m \in LastOf(index, R), m # n PROVE FALSE
  <2>1. m \in S /\ Precedes(index, n, m)
    BY <1>2 DEF LastOf
  <2> QED BY <1>0, <2>1, PrecedesOneWay
<1>3. LastOf(index, R) \subseteq R
  BY DEF LastOf
<1> QED BY <1>1, <1>2, <1>3

Resets(name, scoped) ==
    (name = "exercise" /\ scoped = "solution") \/ (name = "figure" /\ scoped = "subfigure")

LEMMA CountedAdds ==
  ASSUME NEW index, IsIndex(index), NEW B, NEW n, Follows(index, B, n),
         NEW name, name = index[n].name, NEW x, NEW C, C = B \cup {n}
  PROVE  /\ x = name => Counted(index, C, x) = Counted(index, B, x) \cup {n}
         /\ x # name /\ Resets(name, x) => Counted(index, C, x) = {}
         /\ x # name /\ ~Resets(name, x) => Counted(index, C, x) = Counted(index, B, x)
<1>0. /\ n \in 1..Len(index) /\ B \in SUBSET (1..Len(index))
      /\ \A m \in B : Precedes(index, m, n)
  BY DEF Follows
<1>1. \A y : /\ y = name => Of(index, C, y) = Of(index, B, y) \cup {n}
             /\ y # name => Of(index, C, y) = Of(index, B, y)
  BY DEF Of
<1>2. n \notin B
  BY <1>0, PrecedesOneWay
<1>3. ~Resets(name, x) => Scope(index, C, x) = Scope(index, B, x)
  BY <1>1 DEF Scope, Resets
<1>4. Scope(index, B, x) \subseteq B
  BY <1>0 DEF Scope, LastOf, Of
<1>5. CASE x = name
  <2>1. ~Resets(name, x)
    BY <1>5 DEF Resets
  <2>2. \A k \in Scope(index, B, x) : Precedes(index, k, n)
    BY <1>0, <1>4
  <2>3. Counted(index, C, x) = Counted(index, B, x) \cup {n}
    BY <1>3, <1>5, <2>1, <2>2 DEF Counted
  <2> QED BY <1>5, <2>3
<1>6. CASE x # name /\ ~Resets(name, x)
  BY <1>3, <1>6 DEF Counted
<1>7. CASE x # name /\ Resets(name, x)
  <2>1. Follows(index, Of(index, B, name), n)
    BY <1>0 DEF Of, Follows
  <2>2. LastOf(index, Of(index, C, name)) = {n}
    <3>1. Of(index, C, name) = Of(index, B, name) \cup {n}
      BY <1>1
    <3> QED BY <2>1, <3>1, LastAdded
  <2>3. Scope(index, C, x) = {n}
    BY <1>7, <2>2 DEF Scope, Resets
  <2>4. ASSUME NEW m \in Counted(index, C, x) PROVE FALSE
    <3>1. m \in C /\ Precedes(index, n, m)
      BY <2>3 DEF Counted
    <3>2. m \in 1..Len(index)
      BY <1>0, <3>1
    <3> QED BY <1>0, <3>1, <3>2, PrecedesOneWay
  <2> QED BY <1>7, <2>4
<1> QED BY <1>5, <1>6, <1>7

LEMMA ContextAdds ==
  ASSUME NEW index, IsIndex(index), NEW B, NEW n, Follows(index, B, n),
         NEW name, name = index[n].name, NEW C, C = B \cup {n}
  PROVE  Context(index, C) =
            IF name \in Owners THEN index[n].id
            ELSE IF name \in Owned THEN Context(index, B) ELSE None
<1>0. /\ n \in 1..Len(index) /\ B \in SUBSET (1..Len(index))
      /\ \A m \in B : Precedes(index, m, n)
  BY DEF Follows
<1>a. \A D : Context(index, D) =
            IF \E m \in LastOf(index, Unowned(index, D)) : index[m].name \in Owners
            THEN index[CHOOSE m \in LastOf(index, Unowned(index, D)) : TRUE].id ELSE None
  BY DEF Context
<1>1. CASE name \in Owned
  <2>1. Unowned(index, C) = Unowned(index, B)
    BY <1>1 DEF Unowned
  <2>2. name \notin Owners
    BY <1>1 DEF Owned, Owners
  <2>3. Context(index, C) = Context(index, B)
    BY <1>a, <2>1
  <2> QED BY <1>1, <2>2, <2>3
<1>2. CASE name \notin Owned
  <2>1. Unowned(index, C) = Unowned(index, B) \cup {n}
    BY <1>2 DEF Unowned
  <2>2. Follows(index, Unowned(index, B), n)
    BY <1>0 DEF Unowned, Follows
  <2>3. LastOf(index, Unowned(index, C)) = {n}
    <3>1. Unowned(index, C) = Unowned(index, B) \cup {n}
      BY <2>1
    <3> QED BY <2>2, <3>1, LastAdded
  <2>4. (CHOOSE m \in {n} : TRUE) = n
    OBVIOUS
  <2>5. Context(index, C) =
            IF \E m \in {n} : index[m].name \in Owners
            THEN index[CHOOSE m \in {n} : TRUE].id ELSE None
    BY <1>a, <2>3
  <2>6. Context(index, C) = IF index[n].name \in Owners THEN index[n].id ELSE None
    BY <2>4, <2>5
  <2> QED BY <1>2, <2>6
<1> QED BY <1>1, <1>2

-----------------------------------------------------------------------------
(***************************************************************************)
(* process_document looks at the elements in document order: its counters  *)
(* count what was returned since the last owner, and a row is the target   *)
(* of its element.                                                         *)
(***************************************************************************)
Counts(counters, name) == [Reset(counters, name) EXCEPT ![name] = @ + 1]

LEMMA CountersAre ==
  ASSUME NEW counters, counters \in [Names -> Nat], NEW name, name \in Names,
         NEW new, new = Counts(counters, name)
  PROVE  /\ new \in [Names -> Nat] /\ new[name] = counters[name] + 1
         /\ \A x \in Names : /\ x # name /\ Resets(name, x) => new[x] = 0
                             /\ x # name /\ ~Resets(name, x) => new[x] = counters[x]
<1>0. /\ "solution" \in Names /\ "subfigure" \in Names
      /\ name = "exercise" => name # "solution"
      /\ name = "figure" => name # "subfigure" /\ name # "exercise"
  BY DEF Names
<1>1. /\ Reset(counters, name) \in [Names -> Nat]
      /\ Reset(counters, name)[name] = counters[name]
      /\ \A x \in Names : /\ Resets(name, x) => Reset(counters, name)[x] = 0
                          /\ ~Resets(name, x) => Reset(counters, name)[x] = counters[x]
  <2>1. CASE name = "exercise"
    <3>1. Reset(counters, name) = [counters EXCEPT !["solution"] = 0]
      BY <2>1 DEF Reset
    <3>2. \A x \in Names : Resets(name, x) <=> x = "solution"
      BY <2>1 DEF Resets
    <3> QED BY <1>0, <2>1, <3>1, <3>2
  <2>2. CASE name = "figure"
    <3>1. Reset(counters, name) = [counters EXCEPT !["subfigure"] = 0]
      BY <1>0, <2>2 DEF Reset
    <3>2. \A x \in Names : Resets(name, x) <=> x = "subfigure"
      BY <2>2 DEF Resets
    <3> QED BY <1>0, <2>2, <3>1, <3>2
  <2>3. CASE name # "exercise" /\ name # "figure"
    <3>1. Reset(counters, name) = counters
      BY <2>3 DEF Reset
    <3>2. \A x \in Names : ~Resets(name, x)
      BY <2>3 DEF Resets
    <3> QED BY <3>1, <3>2
  <2> QED BY <2>1, <2>2, <2>3
<1> DEFINE old == Reset(counters, name)
<1>2. new = [old EXCEPT ![name] = old[name] + 1]
  BY DEF Counts
<1>3. old \in [Names -> Nat] /\ old[name] = counters[name] /\ old[name] \in Nat
  BY <1>1
<1>4. \A x \in Names : /\ Resets(name, x) => old[x] = 0
                       /\ ~Resets(name, x) => old[x] = counters[x]
  BY <1>1
<1> HIDE DEF old
<1>5. new \in [Names -> Nat] /\ new[name] = old[name] + 1
      /\ \A x \in Names : x # name => new[x] = old[x]
  <2> DEFINE v == old[name] + 1
  <2>1. v \in Nat
    BY <1>3
  <2>2. new = [old EXCEPT ![name] = v]
    BY <1>2
  <2> HIDE DEF v
  <2>3. new \in [Names -> Nat] /\ new[name] = v /\ \A x \in Names : x # name => new[x] = old[x]
    BY <1>3, <2>1, <2>2
  <2> QED BY <2>3 DEF v
<1> QED BY <1>3, <1>4, <1>5

Contexts(index) == {index[n].id : n \in 1..Len(index)} \cup {None}
PossibleRows(index) ==
    {Target(index, n, context, counter) :
        n \in 1..Len(index), context \in Contexts(index), counter \in Nat}
Visits(index) ==
    [counters : [Names -> Nat], context : Contexts(index), rows : Seq(PossibleRows(index))]
RowsSound(index, B, s) ==
    /\ \A k \in 1..Len(s.rows) : \E m \in B : s.rows[k] = Made(index, m)
    /\ \A m \in B : \E k \in 1..Len(s.rows) : s.rows[k] = Made(index, m)
Visited(index, B, s) ==
    /\ \A x \in Names : s.counters[x] = Cardinality(Counted(index, B, x))
    /\ s.context = Context(index, B)
    /\ RowsSound(index, B, s)

\* What Visit makes of an element that can be a target.
LEMMA VisitIs ==
  ASSUME NEW index, IsIndex(index), NEW n \in 1..Len(index), IsTarget(index, n),
         NEW s \in Visits(index), NEW name, name = index[n].name,
         NEW new, new = Visit(index, n, s)
  PROVE  /\ name \in Names /\ new \in Visits(index)
         /\ new.counters = Counts(s.counters, name)
         /\ new.context = IF name \in Owners THEN index[n].id
                          ELSE IF name \in Owned THEN s.context ELSE None
         /\ s.rows \in Seq(PossibleRows(index))
         /\ new.rows = Append(s.rows, Target(index, n,
                IF name \in Owned THEN s.context ELSE None, s.counters[name] + 1))
<1> DEFINE counters == Counts(s.counters, name)
           context == IF name \in Owned THEN s.context ELSE None
           row == Target(index, n, context, counters[name])
<1>1. name \in Names
  BY DEF IsTarget
<1>2. /\ s.counters \in [Names -> Nat] /\ s.context \in Contexts(index)
      /\ s.rows \in Seq(PossibleRows(index))
  BY DEF Visits
<1>3. new = [counters |-> counters,
             context |-> IF name \in Owners THEN index[n].id ELSE context,
             rows |-> Append(s.rows, row)]
  BY DEF Visit, Counts
<1>4. /\ counters \in [Names -> Nat] /\ counters[name] \in Nat
      /\ counters[name] = s.counters[name] + 1
  BY <1>1, <1>2, CountersAre
<1>5. index[n].id \in Contexts(index) /\ context \in Contexts(index)
  BY <1>2 DEF Contexts
<1> HIDE DEF counters, context
<1>6. row \in PossibleRows(index)
  BY <1>4, <1>5 DEF PossibleRows
<1>7. row = Target(index, n, context, s.counters[name] + 1)
  BY <1>4
<1> HIDE DEF row
<1>8. Append(s.rows, row) \in Seq(PossibleRows(index))
  BY <1>2, <1>6
<1>9. new \in Visits(index)
  BY <1>3, <1>4, <1>5, <1>8 DEF Visits
<1>10. new.rows = Append(s.rows, row)
  BY <1>3
<1> QED BY <1>1, <1>2, <1>3, <1>7, <1>9, <1>10 DEF counters, context

LEMMA RowsSoundAdds ==
  ASSUME NEW index, NEW B, NEW R, NEW s, s.rows \in Seq(R), RowsSound(index, B, s), NEW n,
         NEW new, new.rows = Append(s.rows, Made(index, n))
  PROVE  RowsSound(index, B \cup {n}, new)
<1> DEFINE L == Len(s.rows)
<1>1. /\ L \in Nat /\ Len(new.rows) = L + 1 /\ L + 1 \in 1..(L + 1)
      /\ new.rows[L + 1] = Made(index, n)
      /\ \A k \in 1..L : k \in 1..(L + 1) /\ new.rows[k] = s.rows[k]
      /\ \A k \in 1..(L + 1) : k = L + 1 \/ k \in 1..L
  OBVIOUS
<1>2. /\ \A k \in 1..L : \E m \in B : s.rows[k] = Made(index, m)
      /\ \A m \in B : \E k \in 1..L : s.rows[k] = Made(index, m)
  BY DEF RowsSound
<1> HIDE DEF L
<1>3. \A k \in 1..(L + 1) : \E m \in B \cup {n} : new.rows[k] = Made(index, m)
  BY <1>1, <1>2
<1>4. \A m \in B \cup {n} : \E k \in 1..(L + 1) : new.rows[k] = Made(index, m)
  BY <1>1, <1>2
<1> QED BY <1>1, <1>3, <1>4 DEF RowsSound

LEMMA VisitedAdds ==
  ASSUME NEW index, IsIndex(index), NEW n \in 1..Len(index), IsTarget(index, n),
         NEW B, B = Before(index, n), NEW C, C = B \cup {n},
         NEW s \in Visits(index), Visited(index, B, s), NEW new, new = Visit(index, n, s)
  PROVE  Visited(index, C, new)
<1> DEFINE name == index[n].name  N == Len(index)
<1>0. name = index[n].name
  OBVIOUS
<1>1. N \in Nat /\ DOMAIN index = 1..N
  BY IndexIs
<1>2. Follows(index, B, n)
  BY <1>1 DEF Before, Follows
<1>3. IsFiniteSet(B) /\ n \notin B
  <2>1. IsFiniteSet(1..N)
    BY <1>1, Numbers
  <2>2. B \subseteq 1..N /\ \A m \in B : Precedes(index, m, n)
    BY <1>2 DEF Follows
  <2> HIDE DEF N
  <2>3. IsFiniteSet(B)
    BY <2>1, <2>2, FS_Subset
  <2> QED BY <2>2, <2>3, PrecedesOneWay DEF N
<1> HIDE DEF name
<1>4. /\ name \in Names
      /\ new.counters = Counts(s.counters, name)
      /\ new.context = IF name \in Owners THEN index[n].id
                       ELSE IF name \in Owned THEN s.context ELSE None
      /\ s.rows \in Seq(PossibleRows(index))
      /\ new.rows = Append(s.rows, Target(index, n,
             IF name \in Owned THEN s.context ELSE None, s.counters[name] + 1))
  BY <1>0, VisitIs
<1>5. /\ s.counters \in [Names -> Nat]
      /\ \A x \in Names : s.counters[x] = Cardinality(Counted(index, B, x))
      /\ s.context = Context(index, B) /\ RowsSound(index, B, s)
  BY DEF Visits, Visited
<1>6. ASSUME NEW x \in Names
      PROVE  new.counters[x] = Cardinality(Counted(index, C, x))
  <2>1. /\ x = name => new.counters[x] = s.counters[x] + 1
        /\ x # name /\ Resets(name, x) => new.counters[x] = 0
        /\ x # name /\ ~Resets(name, x) => new.counters[x] = s.counters[x]
    BY <1>4, <1>5, CountersAre
  <2>2. /\ x = name => Counted(index, C, x) = Counted(index, B, x) \cup {n}
        /\ x # name /\ Resets(name, x) => Counted(index, C, x) = {}
        /\ x # name /\ ~Resets(name, x) => Counted(index, C, x) = Counted(index, B, x)
    BY <1>0, <1>2, CountedAdds
  <2>3. IsFiniteSet(Counted(index, B, x)) /\ n \notin Counted(index, B, x)
    <3>1. Counted(index, B, x) \subseteq B
      BY DEF Counted
    <3> QED BY <1>3, <3>1, FS_Subset
  <2>4. Cardinality(Counted(index, B, x) \cup {n}) = Cardinality(Counted(index, B, x)) + 1
    BY <2>3, FS_AddElement
  <2>5. Cardinality({}) = 0
    BY FS_EmptySet
  <2>6. s.counters[x] = Cardinality(Counted(index, B, x))
    BY <1>5
  <2> QED BY <2>1, <2>2, <2>4, <2>5, <2>6
<1>7. new.context = Context(index, C)
  <2>1. Context(index, C) = IF name \in Owners THEN index[n].id
                            ELSE IF name \in Owned THEN Context(index, B) ELSE None
    BY <1>0, <1>2, ContextAdds
  <2> QED BY <1>4, <1>5, <2>1
<1>8. RowsSound(index, C, new)
  <2>1. Made(index, n) = Target(index, n, IF name \in Owned THEN Context(index, B) ELSE None,
                                1 + Cardinality(Counted(index, B, name)))
    BY <1>0 DEF Made
  <2>2. /\ s.counters[name] = Cardinality(Counted(index, B, name))
        /\ s.counters[name] \in Nat
    BY <1>4, <1>5
  <2>3. s.counters[name] + 1 = 1 + Cardinality(Counted(index, B, name))
    BY <2>2
  <2>4. new.rows = Append(s.rows, Made(index, n))
    BY <1>4, <1>5, <2>1, <2>3
  <2> QED BY <1>4, <1>5, <2>4, RowsSoundAdds
<1> QED BY <1>6, <1>7, <1>8 DEF Visited

Seen(index, order, k) == {m \in Visible(index) : \E j \in 1..k : order[j] = m}
InOrder(index, order) ==
    /\ order \in Seq(1..Len(index)) /\ Len(order) \in Nat
    /\ \A k \in 1..Len(order) : order[k] \in 1..Len(index)
    /\ \A i, j \in 1..Len(order) : i < j => Precedes(index, order[i], order[j])
    /\ \A n \in 1..Len(index) : \E k \in 1..Len(order) : order[k] = n

\* When an element is looked at, what was looked at is what precedes it.
LEMMA SeenIs ==
  ASSUME NEW index, IsIndex(index), NEW order, InOrder(index, order),
         NEW k \in 1..Len(order), NEW n, n = order[k], IsTarget(index, n)
  PROVE  /\ Seen(index, order, k - 1) = Before(index, n)
         /\ Seen(index, order, k) = Before(index, n) \cup {n}
<1>1. /\ Len(order) \in Nat /\ \A j \in 1..Len(order) : order[j] \in 1..Len(index)
      /\ \A i, j \in 1..Len(order) : i < j => Precedes(index, order[i], order[j])
      /\ \A m \in 1..Len(index) : \E j \in 1..Len(order) : order[j] = m
      /\ DOMAIN index = 1..Len(index) /\ n \in 1..Len(index)
  BY IndexIs DEF InOrder
<1>2. \A j \in 1..Len(order) : j < k => order[j] # n /\ Precedes(index, order[j], n)
  BY <1>1, PrecedesOneWay
<1>3. \A j \in 1..Len(order) : k < j => ~Precedes(index, order[j], n)
  BY <1>1, PrecedesOneWay
<1>4. ~Precedes(index, n, n)
  BY <1>1, PrecedesOneWay
<1>5. /\ \A j \in 1..(k - 1) : j \in 1..Len(order) /\ j < k
      /\ \A j \in 1..Len(order) : j < k \/ j = k \/ k < j
      /\ \A j \in 1..Len(order) : j < k => j \in 1..(k - 1)
      /\ \A j \in 1..k : j \in 1..(k - 1) \/ j = k
      /\ \A j \in 1..(k - 1) : j \in 1..k
      /\ k \in 1..k
  BY <1>1
<1>6. Seen(index, order, k - 1) \subseteq Before(index, n)
  BY <1>2, <1>5 DEF Seen, Visible, Before
<1>7. ASSUME NEW m \in Before(index, n) PROVE m \in Seen(index, order, k - 1)
  <2>1. m \in 1..Len(index) /\ Precedes(index, m, n) /\ m \in Visible(index)
    BY <1>1, <1>7 DEF Before, Visible
  <2>2. PICK j \in 1..Len(order) : order[j] = m
    BY <1>1, <2>1
  <2>3. j < k
    BY <1>3, <1>4, <1>5, <2>1, <2>2
  <2>4. j \in 1..(k - 1)
    BY <1>5, <2>3
  <2> QED BY <2>1, <2>2, <2>4 DEF Seen
<1>8. Seen(index, order, k) = Seen(index, order, k - 1) \cup {n}
  <2>1. n \in Visible(index)
    BY <1>1 DEF Visible
  <2>2. Seen(index, order, k) \subseteq Seen(index, order, k - 1) \cup {n}
    BY <1>5 DEF Seen
  <2>3. Seen(index, order, k - 1) \subseteq Seen(index, order, k) /\ n \in Seen(index, order, k)
    BY <1>5, <2>1 DEF Seen
  <2> QED BY <2>2, <2>3
<1> QED BY <1>6, <1>7, <1>8

LEMMA SeenWithout ==
  ASSUME NEW index, IsIndex(index), NEW order, InOrder(index, order),
         NEW k \in 1..Len(order), ~IsTarget(index, order[k])
  PROVE  Seen(index, order, k) = Seen(index, order, k - 1)
<1>1. /\ \A j \in 1..k : j \in 1..(k - 1) \/ j = k
      /\ \A j \in 1..(k - 1) : j \in 1..k
  BY DEF InOrder
<1>2. order[k] \notin Visible(index)
  BY DEF Visible
<1> QED BY <1>1, <1>2 DEF Seen

LEMMA VisitsStart ==
  ASSUME NEW index, IsIndex(index), NEW B, B = {},
         NEW s, s = [counters |-> [name \in Names |-> 0], context |-> None, rows |-> << >>]
  PROVE  s \in Visits(index) /\ Visited(index, B, s)
<1>1. s \in Visits(index)
  BY DEF Visits, Contexts
<1>2. \A x \in Names : s.counters[x] = Cardinality(Counted(index, B, x))
  <2>1. \A x \in Names : Counted(index, B, x) = {}
    BY DEF Counted
  <2>2. Cardinality({}) = 0
    BY FS_EmptySet
  <2> QED BY <2>1, <2>2
<1>3. Context(index, B) = None
  <2>1. LastOf(index, Unowned(index, B)) = {}
    BY DEF LastOf, Unowned
  <2> QED BY <2>1 DEF Context
<1>4. RowsSound(index, B, s)
  BY DEF RowsSound
<1> QED BY <1>1, <1>2, <1>3, <1>4 DEF Visited

LEMMA RowsMade ==
  ASSUME NEW index, IsIndex(index), NEW rows, rows = Rows(index)
  PROVE  /\ rows \in Seq(PossibleRows(index))
         /\ \A k \in 1..Len(rows) : \E m \in Visible(index) : rows[k] = Made(index, m)
         /\ \A m \in Visible(index) : \E k \in 1..Len(rows) : rows[k] = Made(index, m)
<1> DEFINE order == IterTree(index)
<1>1. InOrder(index, order)
  <2>1. /\ order \in Seq(1..Len(index))
        /\ \A i, j \in 1..Len(order) : i < j => Precedes(index, order[i], order[j])
        /\ \A n \in 1..Len(index) : \E k \in 1..Len(order) : order[k] = n
    BY TreeIsWalked
  <2> HIDE DEF order
  <2>2. Len(order) \in Nat /\ \A k \in 1..Len(order) : order[k] \in 1..Len(index)
    BY <2>1
  <2> QED BY <2>1, <2>2 DEF InOrder
<1> HIDE DEF order
<1> DEFINE L == Len(order)  T == Visits(index)
           start == [counters |-> [name \in Names |-> 0], context |-> None, rows |-> << >>]
           step == [k \in 1..L |-> [s \in T |-> Visit(index, order[k], s)]]
           Is(f) == f = [k \in 0..Len(order) |->
               IF k = 0
               THEN [counters |-> [name \in Names |-> 0], context |-> None, rows |-> << >>]
               ELSE Visit(index, order[k], f[k - 1])]
<1>2. rows = (CHOOSE f : Is(f))[L].rows
  BY DEF Rows, order
<1>3. L \in Nat /\ \A k \in 1..L : order[k] \in 1..Len(index)
  BY <1>1 DEF InOrder
<1>4. start \in T /\ \A B : B = {} => Visited(index, B, start)
  BY VisitsStart
<1>5. step \in Advances(L, T)
  <2>1. ASSUME NEW k \in 1..L, NEW s \in T PROVE Visit(index, order[k], s) \in T
    <3>1. CASE IsTarget(index, order[k])
      BY <1>3, <3>1, VisitIs
    <3>2. CASE ~IsTarget(index, order[k])
      BY <3>2 DEF Visit
    <3> QED BY <3>1, <3>2
  <2> HIDE DEF T
  <2> QED BY <2>1 DEF Advances
<1>6. \A k \in 1..L : \A s \in T : step[k][s] = Visit(index, order[k], s)
  OBVIOUS
<1> HIDE DEF step, T
<1>7. PICK f : IsIterated(f, L, T, start, step)
  BY <1>3, <1>4, <1>5, Iteration
<1>8. Is(f)
  <2>1. \A k \in 0..L : k # 0 => k \in 1..L /\ k - 1 \in 0..L
    BY <1>3
  <2>2. \A k \in 0..L : f[k] = IF k = 0 THEN start ELSE Visit(index, order[k], f[k - 1])
    BY <1>6, <1>7, <2>1 DEF IsIterated
  <2>3. f = [k \in 0..L |-> f[k]]
    BY <1>7 DEF IsIterated
  <2> QED BY <2>2, <2>3
<1> DEFINE g == CHOOSE u : Is(u)
<1>9. Is(g)
  BY <1>8, Zenon
<1>10. rows = g[L].rows
  BY <1>2
<1> HIDE DEF g
<1>11. /\ g[0] = start
       /\ \A k \in 1..L : g[k] = Visit(index, order[k], g[k - 1])
  <2>1. 0 \in 0..L /\ \A k \in 1..L : k \in 0..L /\ k # 0
    BY <1>3
  <2> QED BY <1>9, <2>1
<1> HIDE DEF Is, start
<1> DEFINE Good(k) == g[k] \in T /\ Visited(index, Seen(index, order, k), g[k])
           S == {k \in 0..L : Good(k)}
<1>12. 0 \in S
  <2>1. Seen(index, order, 0) = {}
    BY DEF Seen
  <2>2. 0 \in 0..L
    BY <1>3
  <2> QED BY <1>4, <1>11, <2>1, <2>2
<1>13. ASSUME NEW k \in 1..L, k - 1 \in S PROVE k \in S
  <2> DEFINE before == g[k - 1]
  <2>1. /\ before \in T /\ Visited(index, Seen(index, order, k - 1), before)
        /\ k \in 0..L /\ g[k] = Visit(index, order[k], before)
    BY <1>3, <1>11, <1>13
  <2> HIDE DEF before
  <2>2. CASE IsTarget(index, order[k])
    <3>1. /\ Seen(index, order, k - 1) = Before(index, order[k])
          /\ Seen(index, order, k) = Before(index, order[k]) \cup {order[k]}
      BY <1>1, <2>2, SeenIs
    <3>2. g[k] \in T
      BY <1>3, <2>1, <2>2, VisitIs DEF T
    <3>3. Visited(index, Seen(index, order, k), g[k])
      BY <1>3, <2>1, <2>2, <3>1, VisitedAdds DEF T
    <3> QED BY <2>1, <3>2, <3>3
  <2>3. CASE ~IsTarget(index, order[k])
    <3>1. Seen(index, order, k) = Seen(index, order, k - 1)
      BY <1>1, <2>3, SeenWithout
    <3>2. g[k] = before
      BY <2>1, <2>3 DEF Visit
    <3> QED BY <2>1, <3>1, <3>2
  <2> QED BY <2>2, <2>3
<1> HIDE DEF S
<1>14. 0..L \subseteq S
  BY <1>3, <1>12, <1>13, Induction
<1>15. L \in S
  BY <1>3, <1>14
<1>16. g[L] \in T /\ Visited(index, Seen(index, order, L), g[L])
  BY <1>15 DEF S
<1>17. Seen(index, order, L) = Visible(index)
  <2>1. \A m \in Visible(index) : \E j \in 1..L : order[j] = m
    BY <1>1, IndexIs DEF InOrder, Visible
  <2> QED BY <2>1 DEF Seen
<1>18. rows \in Seq(PossibleRows(index)) /\ RowsSound(index, Visible(index), g[L])
  BY <1>10, <1>16, <1>17 DEF Visited, Visits, T
<1> QED BY <1>10, <1>18 DEF RowsSound

-----------------------------------------------------------------------------
(***************************************************************************)
(* What process_document makes of an element is a target that the element  *)
(* is to have.                                                             *)
(***************************************************************************)
LEMMA OneWayOrTheOther ==
  ASSUME NEW index, IsIndex(index), NEW m \in 1..Len(index), NEW n \in 1..Len(index), m # n
  PROVE  Precedes(index, m, n) \/ Precedes(index, n, m)
<1> DEFINE order == IterTree(index)
<1>1. /\ order \in Seq(1..Len(index))
      /\ \A i, j \in 1..Len(order) : i < j => Precedes(index, order[i], order[j])
      /\ \A l \in 1..Len(index) : \E k \in 1..Len(order) : order[k] = l
  BY TreeIsWalked
<1> HIDE DEF order
<1>2. PICK i \in 1..Len(order) : order[i] = m
  BY <1>1
<1>3. PICK j \in 1..Len(order) : order[j] = n
  BY <1>1
<1>4. Len(order) \in Nat
  BY <1>1
<1>5. i < j \/ j < i
  BY <1>2, <1>3, <1>4
<1> QED BY <1>1, <1>2, <1>3, <1>5

LEMMA LastIs ==
  ASSUME NEW index, IsIndex(index), NEW S \in SUBSET (1..Len(index)), NEW o \in S,
         \A m \in S : ~Precedes(index, o, m)
  PROVE  LastOf(index, S) = {o}
<1>1. o \in LastOf(index, S)
  BY OneWayOrTheOther DEF LastOf
<1>2. \A m \in LastOf(index, S) : m = o
  BY DEF LastOf
<1> QED BY <1>1, <1>2

LEMMA BeforeIs ==
  ASSUME NEW index, IsIndex(index), NEW n \in 1..Len(index)
  PROVE  /\ Before(index, n) \subseteq 1..Len(index) /\ IsFiniteSet(Before(index, n))
         /\ AlikeBefore(index, n) \subseteq Before(index, n)
         /\ IsFiniteSet(AlikeBefore(index, n)) /\ Cardinality(AlikeBefore(index, n)) \in Nat
<1>1. DOMAIN index = 1..Len(index) /\ Len(index) \in Nat
  BY IndexIs
<1>2. /\ Before(index, n) \subseteq 1..Len(index)
      /\ AlikeBefore(index, n) \subseteq Before(index, n)
  BY <1>1 DEF Before, AlikeBefore
<1>3. IsFiniteSet(1..Len(index))
  BY <1>1, Numbers
<1> QED BY <1>2, <1>3, FS_Subset, FS_CardinalityType

LEMMA OwnerIs ==
  ASSUME NEW index, IsIndex(index), NEW n \in 1..Len(index), NEW o \in OwnerOf(index, n)
  PROVE  /\ OwnerOf(index, n) = {o} /\ o \in Before(index, n)
         /\ index[o].name \in Owners /\ index[o].name \notin Owned
<1> DEFINE around == OwnersBefore(index, n) \cap Ancestors(index, n)
<1>1. /\ OwnersBefore(index, n) \subseteq Before(index, n)
      /\ \A m \in OwnersBefore(index, n) : index[m].name \in Owners
  BY DEF OwnersBefore
<1>2. o \in around /\ OwnerOf(index, n) = {m \in around : \A k \in around : k <= m}
  BY DEF OwnerOf
<1>3. around \subseteq 1..Len(index) /\ Len(index) \in Nat
  BY <1>1, BeforeIs, IndexIs
<1> HIDE DEF around
<1>4. \A m \in OwnerOf(index, n) : m = o
  BY <1>2, <1>3
<1>5. o \in Before(index, n) /\ index[o].name \in Owners
  BY <1>1, <1>2 DEF around
<1> QED BY <1>4, <1>5 DEF Owners, Owned

\* A context is that of an owner before, and counted is what is alike.
LEMMA ContextIs ==
  ASSUME NEW index, IsIndex(index), NEW n \in 1..Len(index)
  PROVE  Context(index, Before(index, n)) \in
            {None} \cup {index[m].id : m \in OwnersBefore(index, n)}
<1> DEFINE B == Before(index, n)  last == LastOf(index, Unowned(index, B))
<1>1. Context(index, B) = IF \E m \in last : index[m].name \in Owners
                          THEN index[CHOOSE m \in last : TRUE].id ELSE None
  BY DEF Context
<1>2. last \subseteq B /\ B \subseteq 1..Len(index)
  BY BeforeIs DEF LastOf, Unowned
<1>3. \A k, m \in last : k = m
  BY <1>2, PrecedesOneWay DEF LastOf
<1> HIDE DEF last
<1>4. ASSUME NEW m \in last, index[m].name \in Owners
      PROVE  index[CHOOSE k \in last : TRUE].id \in {index[k].id : k \in OwnersBefore(index, n)}
  <2>1. (CHOOSE k \in last : TRUE) = m
    BY <1>3, <1>4
  <2>2. m \in OwnersBefore(index, n)
    BY <1>2, <1>4 DEF OwnersBefore
  <2> QED BY <2>1, <2>2
<1> QED BY <1>1, <1>4

LEMMA CountedIs ==
  ASSUME NEW index, IsIndex(index), NEW n \in 1..Len(index), NEW name, name = index[n].name
  PROVE  /\ Counted(index, Before(index, n), name) \subseteq AlikeBefore(index, n)
         /\ 1 + Cardinality(Counted(index, Before(index, n), name))
              \in 1..(1 + Cardinality(AlikeBefore(index, n)))
<1> DEFINE C == Counted(index, Before(index, n), name)  A == AlikeBefore(index, n)
<1>1. C \subseteq A
  BY DEF Counted, AlikeBefore
<1>2. IsFiniteSet(A) /\ Cardinality(A) \in Nat
  BY BeforeIs
<1> HIDE DEF C, A
<1>3. Cardinality(C) <= Cardinality(A) /\ IsFiniteSet(C)
  BY <1>1, <1>2, FS_Subset
<1>4. Cardinality(C) \in Nat
  BY <1>3, FS_CardinalityType
<1> QED BY <1>1, <1>2, <1>3, <1>4 DEF C, A

LEMMA MadeOfOthers ==
  ASSUME NEW index, IsIndex(index), NEW n \in 1..Len(index), index[n].name \notin Owned
  PROVE  Made(index, n) = TargetOf(index, n)
<1> DEFINE name == index[n].name  B == Before(index, n)
<1>1. Counted(index, B, name) = AlikeBefore(index, n)
  <2>1. Scope(index, B, name) = {}
    BY DEF Scope, Owned
  <2> QED BY <2>1 DEF Counted, AlikeBefore
<1>2. Made(index, n) = Target(index, n, None, 1 + Cardinality(AlikeBefore(index, n)))
  BY <1>1 DEF Made
<1>3. {m \in AlikeBefore(index, n) : \A o \in {} : Precedes(index, o, m)} = AlikeBefore(index, n)
  OBVIOUS
<1>4. TargetOf(index, n) = Target(index, n, None, 1 + Cardinality(AlikeBefore(index, n)))
  BY <1>3 DEF TargetOf
<1> QED BY <1>2, <1>4

LEMMA MadeOfOwned ==
  ASSUME NEW index, IsIndex(index), NEW n \in 1..Len(index), index[n].name \in Owned,
         OwnedAsExpected(index, n)
  PROVE  Made(index, n) = TargetOf(index, n)
<1> DEFINE name == index[n].name  B == Before(index, n)  A == AlikeBefore(index, n)
<1>1. PICK o \in OwnerOf(index, n) :
        /\ index[o].name = IF name = "subfigure" THEN "figure" ELSE "exercise"
        /\ \A m \in B : Precedes(index, o, m) => index[m].name \in Owned
        /\ name = "commentary" => \A m \in A : Precedes(index, o, m)
  BY DEF OwnedAsExpected
<1>2. /\ OwnerOf(index, n) = {o} /\ o \in B /\ B \subseteq 1..Len(index)
      /\ index[o].name \in Owners /\ index[o].name \notin Owned
  BY OwnerIs, BeforeIs
<1> HIDE DEF B, A
<1>3. LastOf(index, Unowned(index, B)) = {o}
  <2>1. o \in Unowned(index, B) /\ Unowned(index, B) \in SUBSET (1..Len(index))
    BY <1>2 DEF Unowned
  <2>2. \A m \in Unowned(index, B) : ~Precedes(index, o, m)
    BY <1>1 DEF Unowned
  <2> QED BY <2>1, <2>2, LastIs
<1>4. Context(index, B) = index[o].id
  <2>1. (CHOOSE m \in {o} : TRUE) = o
    OBVIOUS
  <2> QED BY <1>2, <1>3, <2>1 DEF Context
<1>5. ASSUME NEW owner, owner = index[o].name
      PROVE  LastOf(index, Of(index, B, owner)) = {o}
  <2>1. o \in Of(index, B, owner) /\ Of(index, B, owner) \in SUBSET (1..Len(index))
    BY <1>2, <1>5 DEF Of
  <2>2. \A m \in Of(index, B, owner) : ~Precedes(index, o, m)
    BY <1>1, <1>2, <1>5 DEF Of
  <2> QED BY <2>1, <2>2, LastIs
<1>6. A = {m \in B : index[m].name = name}
  BY DEF A, B, AlikeBefore
<1>7. Counted(index, B, name) = {m \in A : Precedes(index, o, m)}
  <2>1. CASE name = "solution"
    <3>1. Scope(index, B, name) = {o}
      BY <1>1, <1>5, <2>1 DEF Scope
    <3> QED BY <1>6, <3>1 DEF Counted
  <2>2. CASE name = "subfigure"
    <3>1. Scope(index, B, name) = {o}
      BY <1>1, <1>5, <2>2 DEF Scope
    <3> QED BY <1>6, <3>1 DEF Counted
  <2>3. CASE name = "commentary"
    <3>1. Scope(index, B, name) = {}
      BY <2>3 DEF Scope
    <3> QED BY <1>1, <1>6, <2>3, <3>1 DEF Counted
  <2> QED BY <2>1, <2>2, <2>3 DEF Owned
<1>8. Made(index, n) = Target(index, n, index[o].id,
                              1 + Cardinality({m \in A : Precedes(index, o, m)}))
  BY <1>4, <1>7 DEF Made, B
<1>9. TargetOf(index, n) = Target(index, n, index[o].id,
                                  1 + Cardinality({m \in A : Precedes(index, o, m)}))
  <2>1. (CHOOSE m \in {o} : TRUE) = o
    OBVIOUS
  <2>2. {m \in A : \A k \in {o} : Precedes(index, k, m)} = {m \in A : Precedes(index, o, m)}
    OBVIOUS
  <2>3. {m \in AlikeBefore(index, n) : \A k \in OwnerOf(index, n) : Precedes(index, k, m)}
        = {m \in A : Precedes(index, o, m)}
    BY <1>2, <2>2 DEF A
  <2> QED BY <1>2, <2>1, <2>3 DEF TargetOf
<1> QED BY <1>8, <1>9

LEMMA MadeIs ==
  ASSUME NEW index, IsIndex(index), NEW n \in Visible(index)
  PROVE  Made(index, n) \in TargetsOf(index, n)
<1>1. n \in 1..Len(index)
  BY IndexIs DEF Visible
<1>2. CASE index[n].name \in Owned => OwnedAsExpected(index, n)
  BY <1>1, <1>2, MadeOfOthers, MadeOfOwned DEF TargetsOf
<1>3. CASE ~(index[n].name \in Owned => OwnedAsExpected(index, n))
  <2> DEFINE context == Context(index, Before(index, n))
             counter == 1 + Cardinality(Counted(index, Before(index, n), index[n].name))
  <2>1. Made(index, n) = Target(index, n, context, counter)
    BY <1>3 DEF Made
  <2>2. /\ context \in {None} \cup {index[m].id : m \in OwnersBefore(index, n)}
        /\ counter \in 1..(1 + Cardinality(AlikeBefore(index, n)))
    BY <1>1, ContextIs, CountedIs
  <2> HIDE DEF context, counter
  <2> QED BY <1>3, <2>1, <2>2 DEF TargetsOf
<1> QED BY <1>2, <1>3

\* process_document inserts a row for every element of the index that can be a
\* target and for no other, and it is one that the specification of targets
\* allows: the one that it asks for, wherever the elements are arranged as the
\* code expects them to be.
THEOREM RowsAre ==
  ASSUME NEW index, IsIndex(index), NEW rows, rows = Rows(index)
  PROVE  /\ \A k \in 1..Len(rows) : \E n \in Visible(index) : rows[k] \in TargetsOf(index, n)
         /\ \A n \in Visible(index) : \E k \in 1..Len(rows) : rows[k] \in TargetsOf(index, n)
<1>1. /\ \A k \in 1..Len(rows) : \E n \in Visible(index) : rows[k] = Made(index, n)
      /\ \A n \in Visible(index) : \E k \in 1..Len(rows) : rows[k] = Made(index, n)
  BY RowsMade
<1>2. \A n \in Visible(index) : Made(index, n) \in TargetsOf(index, n)
  BY MadeIs
<1> QED BY <1>1, <1>2

-----------------------------------------------------------------------------
(***************************************************************************)
(* The rows of the texts, and tables: what xref_targets has for a document *)
(* is by element.                                                          *)
(***************************************************************************)
TextNodes == UNION {{<<i, n>> : n \in 1..Len(Texts[i])} : i \in DOMAIN Texts}
Elements == {Texts[x[1]][x[2]].id : x \in TextNodes}
Types == {Type(Texts[x[1]][x[2]]) : x \in TextNodes}
Descriptions == {Description(Texts[x[1]], x[2]) : x \in TextNodes}
TableRows ==
    [element : Elements, type : Types, description : Descriptions,
     context : Elements \cup {None}, counter : Nat]
Tables ==
    {table \in UNION {[E -> TableRows] : E \in SUBSET Elements} :
        \A element \in DOMAIN table : table[element].element = element}

\* The targets that process_document makes of a text.
TargetsMade(i) == {Made(Texts[i], n) : n \in Visible(Texts[i])}

LEMMA TextsAre ==
  ASSUME NEW i \in DOMAIN Texts
  PROVE  /\ IsIndex(Texts[i]) /\ DOMAIN Texts[i] = 1..Len(Texts[i])
         /\ RowsIn[i] = Rows(Texts[i])
         /\ TargetsIn[i] = UNION {TargetsOf(Texts[i], n) : n \in Visible(Texts[i])}
         /\ IdsIn[i] = {Texts[i][n].id : n \in Visible(Texts[i])}
         /\ Visible(Texts[i]) \subseteq 1..Len(Texts[i])
<1>1. IsIndex(Texts[i])
  BY TextsAssumption
<1>2. DOMAIN Texts[i] = 1..Len(Texts[i])
  BY <1>1, IndexIs
<1>3. RowsIn[i] = Rows(Texts[i])
  BY DEF RowsIn
<1>4. TargetsIn[i] = UNION {TargetsOf(Texts[i], n) : n \in Visible(Texts[i])}
  BY DEF TargetsIn
<1>5. IdsIn[i] = {Texts[i][n].id : n \in Visible(Texts[i])}
  BY DEF IdsIn
<1> QED BY <1>1, <1>2, <1>3, <1>4, <1>5 DEF Visible

LEMMA PossibleRowsAreRows ==
  ASSUME NEW i \in DOMAIN Texts
  PROVE  PossibleRows(Texts[i]) \subseteq TableRows
<1>1. \A n \in 1..Len(Texts[i]) : <<i, n>> \in TextNodes
  BY DEF TextNodes
<1>2. \A n \in 1..Len(Texts[i]) : /\ Texts[i][n].id \in Elements
                                  /\ Type(Texts[i][n]) \in Types
                                  /\ Description(Texts[i], n) \in Descriptions
  <2> SUFFICES ASSUME NEW n \in 1..Len(Texts[i])
               PROVE  /\ Texts[i][n].id \in Elements
                      /\ Type(Texts[i][n]) \in Types
                      /\ Description(Texts[i], n) \in Descriptions
    OBVIOUS
  <2> DEFINE x == <<i, n>>
  <2>1. x \in TextNodes /\ x[1] = i /\ x[2] = n
    BY <1>1
  <2> HIDE DEF x
  <2> QED BY <2>1 DEF Elements, Types, Descriptions
<1>3. Contexts(Texts[i]) \subseteq Elements \cup {None}
  BY <1>2 DEF Contexts
<1>4. ASSUME NEW n \in 1..Len(Texts[i]), NEW c \in Contexts(Texts[i]), NEW k \in Nat
      PROVE  Target(Texts[i], n, c, k) \in TableRows
  BY <1>2, <1>3 DEF Target, TableRows
<1> QED BY <1>4 DEF PossibleRows

LEMMA RowsInAre ==
  ASSUME NEW i \in DOMAIN Texts, NEW rows, rows = RowsIn[i]
  PROVE  /\ rows \in Seq(TableRows)
         /\ \A k \in 1..Len(rows) : rows[k] \in TargetsMade(i)
         /\ \A t \in TargetsMade(i) : \E k \in 1..Len(rows) : rows[k] = t
<1> DEFINE index == Texts[i]
<1>1. /\ IsIndex(index) /\ rows = Rows(index)
      /\ TargetsMade(i) = {Made(index, n) : n \in Visible(index)}
      /\ PossibleRows(index) \subseteq TableRows
  BY TextsAre, PossibleRowsAreRows DEF TargetsMade
<1> HIDE DEF index
<1>2. /\ rows \in Seq(PossibleRows(index))
      /\ \A k \in 1..Len(rows) : \E m \in Visible(index) : rows[k] = Made(index, m)
      /\ \A m \in Visible(index) : \E k \in 1..Len(rows) : rows[k] = Made(index, m)
  BY <1>1, RowsMade
<1>3. rows \in Seq(TableRows)
  BY <1>1, <1>2, WiderSeq
<1>4. /\ \A k \in 1..Len(rows) : rows[k] \in TargetsMade(i)
      /\ \A t \in TargetsMade(i) : \E k \in 1..Len(rows) : rows[k] = t
  BY <1>1, <1>2
<1> QED BY <1>3, <1>4

LEMMA TargetsAreRows ==
  ASSUME NEW i \in DOMAIN Texts
  PROVE  TargetsMade(i) \subseteq TableRows
<1> DEFINE rows == RowsIn[i]
<1>1. /\ rows \in Seq(TableRows)
      /\ \A t \in TargetsMade(i) : \E k \in 1..Len(rows) : rows[k] = t
  BY RowsInAre
<1> HIDE DEF rows
<1> QED BY <1>1

\* They are among those that the text is to have, one for each element.
LEMMA MadeAreTargets ==
  ASSUME NEW i \in DOMAIN Texts
  PROVE  /\ TargetsMade(i) \subseteq TargetsIn[i]
         /\ \A n \in Visible(Texts[i]) : Made(Texts[i], n).element = Texts[i][n].id
         /\ IdsIn[i] = {t.element : t \in TargetsMade(i)}
<1>1. ASSUME NEW n \in Visible(Texts[i])
      PROVE  Made(Texts[i], n) \in TargetsOf(Texts[i], n)
  BY TextsAre, MadeIs
<1>2. TargetsMade(i) \subseteq TargetsIn[i]
  BY <1>1, TextsAre DEF TargetsMade
<1>3. \A n \in Visible(Texts[i]) : Made(Texts[i], n).element = Texts[i][n].id
  BY DEF Made, Target
<1>4. IdsIn[i] = {t.element : t \in TargetsMade(i)}
  BY <1>3, TextsAre DEF TargetsMade
<1> QED BY <1>2, <1>3, <1>4

LEMMA OneTarget ==
  ASSUME NEW i \in UniqueIds, NEW t \in TargetsMade(i), NEW u \in TargetsMade(i),
         t.element = u.element
  PROVE  t = u
<1>1. /\ i \in DOMAIN Texts
      /\ \A m, n \in Visible(Texts[i]) : m # n => Texts[i][m].id # Texts[i][n].id
  BY DEF UniqueIds
<1>2. PICK m \in Visible(Texts[i]) : t = Made(Texts[i], m)
  BY DEF TargetsMade
<1>3. PICK n \in Visible(Texts[i]) : u = Made(Texts[i], n)
  BY DEF TargetsMade
<1>4. Texts[i][m].id = Texts[i][n].id
  BY <1>1, <1>2, <1>3, MadeAreTargets
<1>5. m = n
  BY <1>1, <1>4
<1> QED BY <1>2, <1>3, <1>5

LEMMA TablesAre ==
  ASSUME NEW table \in Tables
  PROVE  /\ DOMAIN table \subseteq Elements
         /\ table \in [DOMAIN table -> TableRows]
         /\ \A element \in DOMAIN table : /\ table[element] \in TableRows
                                          /\ table[element].element = element
<1>1. PICK E \in SUBSET Elements : table \in [E -> TableRows]
  BY DEF Tables
<1>2. \A element \in DOMAIN table : table[element].element = element
  BY DEF Tables
<1> QED BY <1>1, <1>2

LEMMA UpdateIs ==
  ASSUME NEW old \in TableRows, NEW new \in TableRows, NEW row, row = Update(old, new)
  PROVE  /\ row \in TableRows
         /\ row.element = new.element /\ row.type = new.type /\ row.counter = new.counter
         /\ \/ row.description = new.description
            \/ new.description = None /\ row.description = old.description
         /\ \/ row.context = new.context
            \/ new.context = None /\ row.context = old.context
         /\ old = new => row = new
<1>1. row = [element |-> new.element, type |-> new.type,
             description |-> IF new.description = None THEN old.description ELSE new.description,
             context |-> IF new.context = None THEN old.context ELSE new.context,
             counter |-> new.counter]
  BY DEF Update, TableRows
<1>2. row \in TableRows
  BY <1>1 DEF TableRows
<1>3. old = new => row = new
  BY <1>1 DEF TableRows
<1> QED BY <1>1, <1>2, <1>3

\* The row of element e was inserted.
Inserts(table, e, row, new) ==
    /\ DOMAIN new = DOMAIN table \cup {e}
    /\ \A element \in DOMAIN table : element # e => new[element] = table[element]
    /\ e \notin DOMAIN table => new[e] = row
    /\ e \in DOMAIN table => new[e] = Update(table[e], row)
    /\ e \notin DOMAIN table \/ table[e] = row => new[e] = row

LEMMA InsertRowIs ==
  ASSUME NEW table \in Tables, NEW row \in TableRows, NEW new, new = InsertRow(table, row)
  PROVE  new \in Tables /\ Inserts(table, row.element, row, new)
<1> DEFINE e == row.element
<1>1. new = [element \in DOMAIN table \cup {e} |->
                IF element # e THEN table[element]
                ELSE IF element \in DOMAIN table THEN Update(table[element], row)
                ELSE row]
  BY DEF InsertRow
<1>2. e \in Elements
  BY DEF TableRows
<1>3. /\ DOMAIN table \subseteq Elements
      /\ \A element \in DOMAIN table : /\ table[element] \in TableRows
                                       /\ table[element].element = element
  BY TablesAre
<1>4. e = row.element
  OBVIOUS
<1> HIDE DEF e
<1>5. /\ DOMAIN new = DOMAIN table \cup {e}
      /\ \A element \in DOMAIN table : element # e => new[element] = table[element]
      /\ e \in DOMAIN table => new[e] = Update(table[e], row)
      /\ e \notin DOMAIN table => new[e] = row
      /\ new \in [DOMAIN table \cup {e} -> {new[element] : element \in DOMAIN table \cup {e}}]
  BY <1>1
<1>6. /\ new[e] \in TableRows /\ new[e].element = e
      /\ e \notin DOMAIN table \/ table[e] = row => new[e] = row
  BY <1>3, <1>4, <1>5, UpdateIs
<1>7. \A element \in DOMAIN new : new[element] \in TableRows /\ new[element].element = element
  BY <1>3, <1>5, <1>6
<1>8. new \in [DOMAIN new -> TableRows] /\ DOMAIN new \subseteq Elements
  BY <1>2, <1>3, <1>5, <1>7
<1>9. new \in Tables
  BY <1>7, <1>8 DEF Tables
<1>10. Inserts(table, e, row, new)
  BY <1>5, <1>6 DEF Inserts
<1> QED BY <1>4, <1>9, <1>10

Stands(table, I) == \A e \in DOMAIN table : Stems(table[e], I)
Exact(table, i) == \A e \in DOMAIN table : table[e] \in TargetsMade(i)
Has(table, t) == \E e \in DOMAIN table : table[e] = t

\* A row of the targets of text i was inserted.
Inserted(table, i, row, new) ==
    /\ new \in Tables
    /\ \A I : Stands(table, I) /\ i \in I => Stands(new, I)
    /\ i \in UniqueIds /\ Exact(table, i) =>
         Exact(new, i) /\ Has(new, row) /\ \A t : Has(table, t) => Has(new, t)

\* What a row stems from, in the form in which it is shown.
Alike(row, I) == {target \in UNION {TargetsIn[i] : i \in I} : target.element = row.element}

LEMMA StemsIs ==
  ASSUME NEW row, NEW I
  PROVE  Stems(row, I) <=>
            \E target \in Alike(row, I) :
                /\ row.type = target.type /\ row.counter = target.counter
                /\ \/ row.description = target.description
                   \/ /\ target.description = None
                      /\ \E t \in Alike(row, I) : row.description = t.description
                /\ \/ row.context = target.context
                   \/ /\ target.context = None
                      /\ \E t \in Alike(row, I) : row.context = t.context
BY DEF Stems, Alike

LEMMA StemsMore ==
  ASSUME NEW row, NEW I, NEW J, I \subseteq J, Stems(row, I)
  PROVE  Stems(row, J)
<1>1. Alike(row, I) \subseteq Alike(row, J)
  BY DEF Alike
<1> QED BY <1>1, StemsIs

LEMMA StandsMore ==
  ASSUME NEW table, NEW I, NEW J, I \subseteq J, Stands(table, I)
  PROVE  Stands(table, J)
BY StemsMore DEF Stands

\* A row that is updated stems from what the old one did and the new one.
LEMMA StemsUpdated ==
  ASSUME NEW I, NEW target \in UNION {TargetsIn[i] : i \in I}, target \in TableRows,
         NEW old \in TableRows, old.element = target.element, Stems(old, I),
         NEW row, row = Update(old, target)
  PROVE  Stems(row, I)
<1>1. /\ row.element = target.element /\ row.type = target.type
      /\ row.counter = target.counter
      /\ \/ row.description = target.description
         \/ target.description = None /\ row.description = old.description
      /\ \/ row.context = target.context
         \/ target.context = None /\ row.context = old.context
  BY UpdateIs
<1> DEFINE A == Alike(row, I)
<1>2. target \in A /\ A = Alike(old, I)
  BY <1>1 DEF Alike
<1>3. /\ \E t \in A : old.description = t.description
      /\ \E t \in A : old.context = t.context
  BY <1>2, StemsIs
<1> HIDE DEF A
<1>4. \/ row.description = target.description
      \/ target.description = None /\ \E t \in A : row.description = t.description
  BY <1>1, <1>3
<1>5. \/ row.context = target.context
      \/ target.context = None /\ \E t \in A : row.context = t.context
  BY <1>1, <1>3
<1> QED BY <1>1, <1>2, <1>4, <1>5, StemsIs DEF A

LEMMA StemsItself ==
  ASSUME NEW I, NEW target \in UNION {TargetsIn[i] : i \in I}
  PROVE  Stems(target, I)
<1>1. target \in Alike(target, I)
  BY DEF Alike
<1> QED BY <1>1, StemsIs

LEMMA RowInserted ==
  ASSUME NEW table \in Tables, NEW i \in DOMAIN Texts, NEW row \in TargetsMade(i),
         NEW new, new = InsertRow(table, row)
  PROVE  Inserted(table, i, row, new)
<1> DEFINE e == row.element
<1>1. row \in TableRows /\ row \in TargetsIn[i]
  BY TargetsAreRows, MadeAreTargets
<1>2. /\ new \in Tables /\ Inserts(table, e, row, new)
  BY <1>1, InsertRowIs
<1>3. \A element \in DOMAIN table : /\ table[element].element = element
                                    /\ table[element] \in TableRows
  BY TablesAre
<1>e. e = row.element
  OBVIOUS
<1> HIDE DEF e
<1>i. /\ DOMAIN new = DOMAIN table \cup {e}
      /\ \A element \in DOMAIN table : element # e => new[element] = table[element]
      /\ e \notin DOMAIN table => new[e] = row
      /\ e \in DOMAIN table => new[e] = Update(table[e], row)
      /\ e \notin DOMAIN table \/ table[e] = row => new[e] = row
  BY <1>2 DEF Inserts
<1>4. ASSUME NEW I, Stands(table, I), i \in I PROVE Stands(new, I)
  <2>0. row \in UNION {TargetsIn[j] : j \in I}
    BY <1>1, <1>4
  <2> SUFFICES ASSUME NEW x \in DOMAIN new PROVE Stems(new[x], I)
    BY DEF Stands
  <2>1. CASE x = e /\ e \notin DOMAIN table
    BY <1>i, <1>e, <2>0, <2>1, StemsItself
  <2>2. CASE x = e /\ e \in DOMAIN table
    <3> DEFINE old == table[e]
    <3>1. /\ old \in TableRows /\ old.element = row.element /\ Stems(old, I)
          /\ new[x] = Update(old, row)
      BY <1>i, <1>3, <1>4, <1>e, <2>2 DEF Stands
    <3> HIDE DEF old
    <3> QED BY <1>1, <2>0, <3>1, StemsUpdated
  <2>3. CASE x # e
    BY <1>i, <1>4, <1>e, <2>3 DEF Stands
  <2> QED BY <2>1, <2>2, <2>3
<1>5. ASSUME i \in UniqueIds, Exact(table, i)
      PROVE  Exact(new, i) /\ Has(new, row) /\ \A t : Has(table, t) => Has(new, t)
  <2>1. e \in DOMAIN table => table[e] = row
    BY <1>3, <1>5, <1>e, OneTarget DEF Exact
  <2>2. new[e] = row /\ e \in DOMAIN new
    BY <1>i, <1>e, <2>1
  <2>3. \A x \in DOMAIN table : new[x] = table[x]
    BY <1>i, <1>e, <2>1, <2>2
  <2>4. \A x \in DOMAIN new : new[x] \in TargetsMade(i)
    BY <1>i, <1>5, <1>e, <2>2, <2>3 DEF Exact
  <2>5. \A t : Has(table, t) => Has(new, t)
    BY <1>i, <1>e, <2>3 DEF Has
  <2> QED BY <2>2, <2>4, <2>5 DEF Exact, Has
<1> QED BY <1>2, <1>4, <1>5 DEF Inserted

\* After every row of a text was inserted, what is there stands for targets of
\* the text or of those it stood for; if it was exact, it is complete.
LEMMA RowsInserted ==
  ASSUME NEW table \in Tables, NEW i \in DOMAIN Texts,
         NEW new, new = InsertRows(table, RowsIn[i]), NEW I, i \in I, Stands(table, I)
  PROVE  /\ new \in Tables /\ Stands(new, I)
         /\ i \in UniqueIds /\ Exact(table, i) =>
              Exact(new, i) /\ \A t \in TargetsMade(i) : Has(new, t)
<1> DEFINE rows == RowsIn[i]  L == Len(rows)
           step == [k \in 1..L |-> [t \in Tables |-> InsertRow(t, rows[k])]]
           Is(f) == f = [k \in 0..Len(rows) |->
               IF k = 0 THEN table ELSE InsertRow(f[k - 1], rows[k])]
<1>1. new = (CHOOSE f : Is(f))[L]
  BY DEF InsertRows
<1>2. /\ rows \in Seq(TableRows)
      /\ \A k \in 1..L : rows[k] \in TargetsMade(i)
      /\ \A t \in TargetsMade(i) : \E k \in 1..L : rows[k] = t
  BY RowsInAre
<1> HIDE DEF rows
<1>3. L \in Nat /\ \A k \in 1..L : rows[k] \in TableRows
  BY <1>2
<1>5. step \in Advances(L, Tables)
  BY <1>3, InsertRowIs DEF Advances
<1>6. \A k \in 1..L : \A t \in Tables : step[k][t] = InsertRow(t, rows[k])
  OBVIOUS
<1> HIDE DEF step
<1>7. PICK f : IsIterated(f, L, Tables, table, step)
  BY <1>3, <1>5, Iteration
<1>8. Is(f)
  <2>1. \A k \in 0..L : k # 0 => k \in 1..L /\ k - 1 \in 0..L
    BY <1>3
  <2>2. \A k \in 0..L : f[k] = IF k = 0 THEN table ELSE InsertRow(f[k - 1], rows[k])
    BY <1>6, <1>7, <2>1 DEF IsIterated
  <2>3. f = [k \in 0..L |-> f[k]]
    BY <1>7 DEF IsIterated
  <2> QED BY <2>2, <2>3
<1> DEFINE g == CHOOSE u : Is(u)
<1>9. Is(g)
  BY <1>8, Zenon
<1>10. new = g[L]
  BY <1>1
<1> HIDE DEF g
<1>11. /\ g[0] = table
       /\ \A k \in 1..L : g[k] = InsertRow(g[k - 1], rows[k])
  <2>1. 0 \in 0..L /\ \A k \in 1..L : k \in 0..L /\ k # 0
    BY <1>3
  <2> QED BY <1>9, <2>1
<1> HIDE DEF Is
<1> DEFINE Completes(k) == i \in UniqueIds /\ Exact(table, i) =>
                Exact(g[k], i) /\ \A j \in 1..k : Has(g[k], rows[j])
           S == {k \in 0..L : g[k] \in Tables /\ Stands(g[k], I) /\ Completes(k)}
<1>12. 0 \in S
  <2>1. Completes(0)
    BY <1>11
  <2> HIDE DEF Completes
  <2> QED BY <1>3, <1>11, <2>1
<1>13. ASSUME NEW k \in 1..L, k - 1 \in S PROVE k \in S
  <2> DEFINE before == g[k - 1]
  <2>1. /\ before \in Tables /\ Stands(before, I) /\ Completes(k - 1)
        /\ k \in 0..L /\ g[k] = InsertRow(before, rows[k]) /\ rows[k] \in TargetsMade(i)
    BY <1>2, <1>3, <1>11, <1>13
  <2>2. i \in UniqueIds /\ Exact(table, i) =>
            Exact(before, i) /\ \A j \in 1..(k - 1) : Has(before, rows[j])
    BY <2>1
  <2> HIDE DEF before, Completes
  <2>3. Inserted(before, i, rows[k], g[k])
    BY <2>1, RowInserted
  <2>4. g[k] \in Tables /\ Stands(g[k], I)
    BY <2>1, <2>3 DEF Inserted
  <2>5. ASSUME i \in UniqueIds, Exact(table, i)
        PROVE  Exact(g[k], i) /\ \A j \in 1..k : Has(g[k], rows[j])
    <3>1. /\ Exact(g[k], i) /\ Has(g[k], rows[k])
          /\ \A t : Has(before, t) => Has(g[k], t)
      BY <2>2, <2>3, <2>5 DEF Inserted
    <3>2. \A j \in 1..k : j \in 1..(k - 1) \/ j = k
      BY <1>3
    <3> QED BY <2>2, <2>5, <3>1, <3>2
  <2>6. Completes(k)
    BY <2>5 DEF Completes
  <2> QED BY <2>1, <2>4, <2>6
<1> HIDE DEF S
<1>14. 0..L \subseteq S
  BY <1>3, <1>12, <1>13, Induction
<1>15. g[L] \in Tables /\ Stands(g[L], I) /\ Completes(L)
  BY <1>3, <1>14 DEF S
<1> HIDE DEF L
<1> QED BY <1>2, <1>10, <1>15 DEF L

-----------------------------------------------------------------------------
(***************************************************************************)
(* The inductive invariant.  What stands in the tables stems from the      *)
(* indices that the document was processed with.  What was sent, loaded or *)
(* is being processed has the document's index, unless somebody wrote to   *)
(* the document too late; and it is of no draft but of one that is being   *)
(* published or whose publication was undone.                              *)
(***************************************************************************)
Indices == DOMAIN Texts \cup {Broken}
DocumentRecords ==
    [index : Indices, module : Nat,
     is : {"new", "module", "past", "draft", "orphan", "deleted"},
     ready : BOOLEAN, tried : SUBSET DOMAIN Texts, undone : BOOLEAN, late : BOOLEAN]
Listed ==
    /\ documents \in Seq(DocumentRecords) /\ targets \in Seq(Tables)
    /\ Len(targets) = Len(documents)

Processable(d) ==
    documents[d].is \in Unpublished => documents[d].undone \/ Committing(d)
Agrees(d, index) == documents[d].late \/ documents[d].index = index
Complete(table, i) == \A t \in TargetsMade(i) : Has(table, t)

DataSound(document, table) ==
    /\ Stands(table, document.tried)
    /\ \A i \in UniqueIds : document.tried \subseteq {i} => Exact(table, i)
    /\ document.ready => document.tried # {}
    /\ \A i \in UniqueIds : document.ready /\ document.tried = {i} => Complete(table, i)
    /\ document.late \/ document.tried \subseteq {document.index}
DocumentsSound ==
    \A d \in DOMAIN documents :
        DataSound(documents[d], targets[d]) /\ (documents[d].tried # {} => Processable(d))

Sends(d, index) == d \in DOMAIN documents /\ Processable(d) /\ Agrees(d, index)
Mail ==
    {message \in [document : Nat, index : Indices] : Sends(message.document, message.index)}
    \cup {ProcessStale}
MessagesSound == mailbox \in Seq(Mail) /\ queue \in [Processors -> Seq(Mail)]

TaskSound(r) ==
    /\ r.is # "idle" => r.document \in DOMAIN documents
    /\ r.is = "create" => Processable(r.document)
    /\ r.is = "advance" => r.index \in Indices /\ Agrees(r.document, r.index)
TasksSound ==
    underway = [q \in Tasks |-> underway[q]] /\ \A q \in Tasks : TaskSound(underway[q])

Refreshing(w) == \A d \in DOMAIN w.indices : w.indices[d] \in Indices /\ Sends(d, w.indices[d])
\* What is left of the rows of text i makes the table of document d complete.
Completes(d, i, rows) ==
    documents[d].tried \subseteq {i} /\ i \in UniqueIds =>
        \A t \in TargetsMade(i) : Has(targets[d], t) \/ \E k \in 1..Len(rows) : rows[k] = t
Inserting(w) ==
    /\ w = [is |-> "document", document |-> w.document, index |-> w.index, rows |-> w.rows]
    /\ Sends(w.document, w.index) /\ w.index \in DOMAIN Texts
    /\ w.rows \in Seq(TargetsMade(w.index)) /\ Completes(w.document, w.index, w.rows)
WorkerSound(w) == (w.is = "stale" => Refreshing(w)) /\ (w.is = "document" => Inserting(w))
WorkersSound ==
    worker = [p \in Processors |-> worker[p]] /\ \A p \in Processors : WorkerSound(worker[p])

XrefsInvariant ==
    Listed /\ DocumentsSound /\ MessagesSound /\ TasksSound /\ WorkersSound

LEMMA Documents ==
  ASSUME Listed
  PROVE  /\ Len(documents) \in Nat /\ DOMAIN documents = 1..Len(documents)
         /\ DOMAIN targets = DOMAIN documents
         /\ \A d \in DOMAIN documents :
              /\ d \in Nat /\ documents[d] \in DocumentRecords /\ targets[d] \in Tables
              /\ documents[d].index \in Indices /\ documents[d].module \in Nat
              /\ documents[d].tried \subseteq DOMAIN Texts
              /\ documents[d].ready \in BOOLEAN /\ documents[d].undone \in BOOLEAN
              /\ documents[d].late \in BOOLEAN
<1>1. /\ Len(documents) \in Nat /\ DOMAIN documents = 1..Len(documents)
      /\ DOMAIN targets = DOMAIN documents
  BY DEF Listed
<1>2. \A d \in DOMAIN documents : documents[d] \in DocumentRecords /\ targets[d] \in Tables
  BY <1>1 DEF Listed
<1>3. \A document \in DocumentRecords :
        /\ document.index \in Indices /\ document.module \in Nat
        /\ document.tried \subseteq DOMAIN Texts
        /\ document.ready \in BOOLEAN /\ document.undone \in BOOLEAN
        /\ document.late \in BOOLEAN
  BY DEF DocumentRecords
<1> QED BY <1>1, <1>2, <1>3

\* A list with a step for every place.
LEMMA ListIs ==
  ASSUME NEW n \in Nat, NEW S, NEW f, f = [k \in 1..n |-> f[k]], \A k \in 1..n : f[k] \in S
  PROVE  f \in Seq(S) /\ Len(f) = n /\ DOMAIN f = 1..n
<1>1. f \in [1..n -> S]
  OBVIOUS
<1> QED BY <1>1

-----------------------------------------------------------------------------
(***************************************************************************)
(* What steps leave as it was.                                             *)
(***************************************************************************)
Loaded(d) == \E q \in Doing("advance") : underway[q].document = d

\* No step makes a message wrong that was sent or is going to be.
Kept(d) ==
    /\ d \in DOMAIN documents' /\ (documents[d].late => documents'[d].late)
    /\ Processable(d) => Processable(d)'
    /\ Processable(d) \/ Loaded(d) =>
         documents'[d].index = documents[d].index \/ documents'[d].late

LEMMA KeptIs ==
  ASSUME \A d \in DOMAIN documents : Kept(d)
  PROVE  /\ \A d, index : Sends(d, index) => Sends(d, index)'
         /\ Mail \subseteq Mail'
         /\ \A q \in Tasks : \A r : r = underway[q] /\ TaskSound(r) => TaskSound(r)'
<1>1. ASSUME NEW d, NEW index, Sends(d, index) PROVE Sends(d, index)'
  BY <1>1 DEF Sends, Kept, Agrees
<1>2. Mail \subseteq Mail'
  BY <1>1 DEF Mail
<1>3. ASSUME NEW q \in Tasks, NEW r, r = underway[q], TaskSound(r) PROVE TaskSound(r)'
  <2>1. r.is = "advance" => Loaded(r.document)
    BY <1>3 DEF Loaded, Doing
  <2>2. /\ r.is # "idle" => r.document \in DOMAIN documents /\ Kept(r.document)
        /\ r.is = "create" => Processable(r.document)
        /\ r.is = "advance" => r.index \in Indices /\ Agrees(r.document, r.index)
    BY <1>3 DEF TaskSound
  <2>3. /\ r.is # "idle" => r.document \in DOMAIN documents'
        /\ r.is = "create" => Processable(r.document)'
    BY <2>2 DEF Kept
  <2>4. r.is = "advance" => Agrees(r.document, r.index)'
    BY <2>1, <2>2 DEF Kept, Agrees
  <2> QED BY <2>2, <2>3, <2>4 DEF TaskSound
<1> QED BY <1>1, <1>2, <1>3

\* Steps that are not a worker's writing leave the tables.
Still(d) ==
    /\ Kept(d) /\ targets'[d] = targets[d]
    /\ documents'[d].tried = documents[d].tried /\ documents'[d].ready = documents[d].ready
Empty(d) == targets[d] = << >> /\ documents[d].tried = {} /\ ~documents[d].ready
Quiet ==
    /\ Listed' /\ \A d \in DOMAIN documents : Still(d)
    /\ \A d \in DOMAIN documents' : d \notin DOMAIN documents => Empty(d)'

LEMMA NoTargets ==
  ASSUME NEW table, table = << >>
  PROVE  /\ table \in Tables /\ \A I : Stands(table, I) /\ \A i : Exact(table, i)
<1>1. table \in [{} -> TableRows] /\ DOMAIN table = {}
  OBVIOUS
<1>2. table \in Tables
  BY <1>1 DEF Tables
<1> QED BY <1>1, <1>2 DEF Stands, Exact

LEMMA QuietSound ==
  ASSUME XrefsInvariant, Quiet
  PROVE  /\ DocumentsSound' /\ Mail \subseteq Mail'
         /\ \A q \in Tasks : \A r : r = underway[q] /\ TaskSound(r) => TaskSound(r)'
         /\ \A w : WorkerSound(w) => WorkerSound(w)'
<1>1. /\ DocumentsSound /\ \A d \in DOMAIN documents : Still(d) /\ Kept(d)
      /\ \A d \in DOMAIN documents' : d \notin DOMAIN documents => Empty(d)'
  BY DEF XrefsInvariant, Quiet, Still
<1>2. /\ \A d, index : Sends(d, index) => Sends(d, index)'
      /\ Mail \subseteq Mail'
      /\ \A q \in Tasks : \A r : r = underway[q] /\ TaskSound(r) => TaskSound(r)'
  BY <1>1, KeptIs
<1>3. ASSUME NEW d \in DOMAIN documents'
      PROVE  /\ DataSound(documents'[d], targets'[d])
             /\ documents'[d].tried # {} => Processable(d)'
  <2>1. CASE d \in DOMAIN documents
    <3>1. /\ DataSound(documents[d], targets[d])
          /\ documents[d].tried # {} => Processable(d)
          /\ targets'[d] = targets[d] /\ documents'[d].tried = documents[d].tried
          /\ documents'[d].ready = documents[d].ready
          /\ documents[d].late => documents'[d].late
          /\ Processable(d) => Processable(d)'
          /\ Processable(d) => documents'[d].index = documents[d].index \/ documents'[d].late
      BY <1>1, <2>1 DEF DocumentsSound, Still, Kept
    <3>2. documents'[d].late \/ documents'[d].tried \subseteq {documents'[d].index}
      BY <3>1 DEF DataSound
    <3> QED BY <3>1, <3>2 DEF DataSound
  <2>2. CASE d \notin DOMAIN documents
    <3>1. targets'[d] = << >> /\ documents'[d].tried = {} /\ ~documents'[d].ready
      BY <1>1, <2>2 DEF Empty
    <3> QED BY <3>1, NoTargets DEF DataSound
  <2> QED BY <2>1, <2>2
<1>4. DocumentsSound'
  BY <1>3 DEF DocumentsSound
<1>5. ASSUME NEW w, WorkerSound(w) PROVE WorkerSound(w)'
  <2>1. ASSUME Refreshing(w) PROVE Refreshing(w)'
    BY <1>2, <2>1 DEF Refreshing
  <2>2. ASSUME Inserting(w) PROVE Inserting(w)'
    <3>1. Sends(w.document, w.index)' /\ w.document \in DOMAIN documents
      BY <1>2, <2>2 DEF Inserting, Sends
    <3>2. Completes(w.document, w.index, w.rows)'
      <4>1. /\ targets'[w.document] = targets[w.document]
            /\ documents'[w.document].tried = documents[w.document].tried
        BY <1>1, <3>1 DEF Still
      <4>2. Completes(w.document, w.index, w.rows)
        BY <2>2 DEF Inserting
      <4> QED BY <4>1, <4>2 DEF Completes
    <3> QED BY <2>2, <3>1, <3>2 DEF Inserting
  <2> QED BY <1>5, <2>1, <2>2 DEF WorkerSound
<1> QED BY <1>2, <1>4, <1>5

LEMMA MailWidens ==
  ASSUME MessagesSound, Mail \subseteq Mail'
  PROVE  mailbox \in Seq(Mail') /\ queue \in [Processors -> Seq(Mail')]
<1> DEFINE M == Mail  N == Mail'
<1>1. M \subseteq N /\ mailbox \in Seq(M) /\ queue \in [Processors -> Seq(M)]
  BY DEF MessagesSound
<1> HIDE DEF M, N
<1>2. \A list \in Seq(M) : list \in Seq(N)
  BY <1>1, WiderSeq
<1>3. mailbox \in Seq(N) /\ queue \in [Processors -> Seq(N)]
  BY <1>1, <1>2
<1> QED BY <1>3 DEF N

\* A step of a task, and of the server.
LEMMA TaskStepSound ==
  ASSUME XrefsInvariant, Quiet, MessagesSound', worker' = worker,
         underway' = [q \in Tasks |-> underway'[q]],
         \A q \in Tasks : underway'[q] = underway[q] \/ TaskSound(underway[q])'
  PROVE  XrefsInvariant'
<1>1. /\ Listed' /\ DocumentsSound'
      /\ \A q \in Tasks : \A r : r = underway[q] /\ TaskSound(r) => TaskSound(r)'
      /\ \A w : WorkerSound(w) => WorkerSound(w)'
  BY QuietSound DEF Quiet
<1>2. TasksSound'
  <2>1. \A q \in Tasks : TaskSound(underway[q])
    BY DEF XrefsInvariant, TasksSound
  <2>2. ASSUME NEW q \in Tasks PROVE TaskSound(underway[q])'
    <3>1. CASE underway'[q] = underway[q]
      <4>1. PICK r : r = underway[q] /\ r = underway'[q] /\ TaskSound(r)
        BY <2>1, <3>1
      <4>2. TaskSound(r)'
        BY <1>1, <4>1
      <4> QED BY <4>1, <4>2
    <3> QED BY <3>1
  <2> QED BY <2>2 DEF TasksSound
<1>3. WorkersSound'
  <2>1. /\ worker = [p \in Processors |-> worker[p]]
        /\ \A p \in Processors : WorkerSound(worker[p])
    BY DEF XrefsInvariant, WorkersSound
  <2>2. \A p \in Processors : WorkerSound(worker[p])'
    <3> TAKE p \in Processors
    <3>1. \E w : w = worker[p] /\ w = worker'[p] /\ WorkerSound(w)
      BY <2>1
    <3>2. PICK w : w = worker'[p] /\ WorkerSound(w)'
      BY <1>1, <3>1
    <3> QED BY <3>2
  <2> QED BY <2>1, <2>2 DEF WorkersSound
<1> QED BY <1>1, <1>2, <1>3 DEF XrefsInvariant

LEMMA TaskMoves ==
  ASSUME XrefsInvariant, NEW q \in Tasks, NEW r, underway' = [underway EXCEPT ![q] = r]
  PROVE  /\ underway' = [s \in Tasks |-> underway'[s]] /\ underway'[q] = r
         /\ \A s \in Tasks : s # q => underway'[s] = underway[s]
         /\ \A c : Committing(c) =>
              Committing(c)' \/ (underway[q].is = "commit" /\ underway[q].document = c)
         /\ r.is = "commit" => Committing(r.document)'
<1>1. underway = [s \in Tasks |-> underway[s]]
  BY DEF XrefsInvariant, TasksSound
<1>2. /\ underway' = [s \in Tasks |-> underway'[s]] /\ underway'[q] = r
      /\ \A s \in Tasks : s # q => underway'[s] = underway[s]
  BY <1>1
<1>3. ASSUME NEW c, Committing(c), ~(underway[q].is = "commit" /\ underway[q].document = c)
      PROVE  Committing(c)'
  <2>1. PICK s \in Tasks : underway[s].is = "commit" /\ underway[s].document = c
    BY <1>3 DEF Committing, Doing
  <2>2. s # q
    BY <1>3, <2>1
  <2>3. underway'[s] = underway[s]
    BY <1>2, <2>2
  <2> QED BY <2>1, <2>3 DEF Committing, Doing
<1>4. r.is = "commit" => Committing(r.document)'
  BY <1>2 DEF Committing, Doing
<1> QED BY <1>2, <1>3, <1>4

\* Idle tasks are sound, and a task's document is there.
LEMMA TasksAre ==
  ASSUME XrefsInvariant
  PROVE  /\ TaskSound(Idle)'
         /\ \A q \in Tasks : TaskSound(underway[q])
         /\ \A q \in Tasks : underway[q].is # "idle" => underway[q].document \in DOMAIN documents
BY DEF XrefsInvariant, TasksSound, TaskSound, Idle

\* Nothing happens to the documents.
LEMMA Untouched ==
  ASSUME XrefsInvariant, UNCHANGED <<documents, targets>>,
         \A c : Committing(c) => Committing(c)'
  PROVE  Quiet
<1>1. Listed'
  BY DEF XrefsInvariant, Listed
<1>2. \A d \in DOMAIN documents : Processable(d) => Processable(d)'
  BY DEF Processable
<1>3. \A d \in DOMAIN documents : Still(d)
  BY <1>2 DEF Still, Kept
<1> QED BY <1>1, <1>3 DEF Quiet

\* Documents are written to and none is created.
Rewrites(d) ==
    /\ documents'[d] \in DocumentRecords
    /\ documents'[d].tried = documents[d].tried /\ documents'[d].ready = documents[d].ready
    /\ documents[d].late => documents'[d].late
    /\ Processable(d) => Processable(d)'
    /\ Processable(d) \/ Loaded(d) =>
         documents'[d].index = documents[d].index \/ documents'[d].late

LEMMA Rewritten ==
  ASSUME XrefsInvariant, targets' = targets,
         documents' = [d \in DOMAIN documents |-> documents'[d]],
         \A d \in DOMAIN documents : Rewrites(d)
  PROVE  Quiet
<1> DEFINE n == Len(documents)  new == documents'
<1>1. /\ n \in Nat /\ DOMAIN documents = 1..n /\ Listed
  BY Documents DEF XrefsInvariant
<1>2. new = [d \in 1..n |-> new[d]] /\ \A d \in 1..n : new[d] \in DocumentRecords
  BY <1>1 DEF Rewrites
<1> HIDE DEF new
<1>3. new \in Seq(DocumentRecords) /\ Len(new) = n /\ DOMAIN new = 1..n
  BY <1>1, <1>2, ListIs
<1>4. Listed'
  BY <1>1, <1>3 DEF Listed, new
<1>5. \A d \in DOMAIN documents : Still(d)
  BY <1>1, <1>3 DEF Still, Kept, Rewrites, new
<1> QED BY <1>1, <1>3, <1>4, <1>5 DEF Quiet, new

\* A document is created.
NewSound(document) ==
    document \in DocumentRecords /\ document.tried = {} /\ ~document.ready

LEMMA CreateIs ==
  ASSUME XrefsInvariant, NEW document, NewSound(document), Create(document),
         \A c : Committing(c) => Committing(c)'
  PROVE  /\ Quiet /\ NewDocument \in DOMAIN documents' /\ NewDocument \in Nat
         /\ documents'[NewDocument] = document
<1> DEFINE n == Len(documents)
<1>1. /\ documents' = Append(documents, document) /\ targets' = Append(targets, << >>)
      /\ documents \in Seq(DocumentRecords) /\ targets \in Seq(Tables)
      /\ Len(targets) = n /\ n \in Nat /\ NewDocument = n + 1
      /\ DOMAIN documents = 1..n
  BY DEF Create, NewDocument, Listed, XrefsInvariant
<1>2. /\ document \in DocumentRecords /\ << >> \in Tables
  BY NoTargets DEF NewSound
<1> DEFINE none == << >>
<1>n. none = << >>
  OBVIOUS
<1> HIDE DEF n, none
<1>3. /\ documents' \in Seq(DocumentRecords) /\ Len(documents') = n + 1
      /\ DOMAIN documents' = 1..(n + 1)
      /\ \A d \in 1..n : documents'[d] = documents[d]
      /\ documents'[n + 1] = document
  BY <1>1, <1>2
<1>4. /\ targets' \in Seq(Tables) /\ Len(targets') = n + 1
      /\ \A d \in 1..n : targets'[d] = targets[d]
      /\ targets'[n + 1] = none
  <2>1. targets' = Append(targets, none) /\ none \in Tables
    BY <1>1, <1>2, <1>n
  <2> QED BY <1>1, <2>1
<1>5. /\ \A d \in 1..n : d \in 1..(n + 1)
      /\ \A d \in 1..(n + 1) : d \in 1..n \/ d = n + 1
      /\ n + 1 \in 1..(n + 1) /\ n + 1 \in Nat
  BY <1>1
<1>6. Listed'
  BY <1>3, <1>4 DEF Listed
<1>7. \A d \in DOMAIN documents : Processable(d) => Processable(d)'
  BY <1>1, <1>3 DEF Processable
<1>8. \A d \in DOMAIN documents : Still(d)
  BY <1>1, <1>3, <1>4, <1>5, <1>7 DEF Still, Kept
<1>9. Quiet
  BY <1>1, <1>3, <1>4, <1>5, <1>6, <1>8, <1>n DEF Quiet, Empty, NewSound
<1> QED BY <1>1, <1>3, <1>5, <1>9

LEMMA DocumentIs ==
  ASSUME NEW index \in Indices, NEW module \in Nat, NEW is,
         is \in {"new", "module", "past", "draft", "orphan", "deleted"},
         NEW document, document = Document(index, module, is)
  PROVE  NewSound(document) /\ document.index = index /\ document.is = is
BY DEF Document, NewSound, DocumentRecords

LEMMA NewModuleIs ==
  ASSUME Listed
  PROVE  NewModule \in Nat
<1> DEFINE S == {documents[d].module : d \in DOMAIN documents}  n == Len(documents)
<1>1. n \in Nat /\ DOMAIN documents = 1..n
  BY Documents
<1>2. IsFiniteSet(DOMAIN documents)
  BY <1>1, Numbers
<1>3. IsFiniteSet(S)
  <2>1. S = {documents[d].module : d \in DOMAIN documents}
    OBVIOUS
  <2> DEFINE f == [d \in DOMAIN documents |-> documents[d].module]
  <2>2. f \in Surjection(DOMAIN documents, S)
    BY DEF Surjection
  <2> HIDE DEF f, S
  <2> QED BY <1>2, <2>2, FS_Surjection
<1>4. Cardinality(S) \in Nat
  BY <1>3, FS_CardinalityType
<1> QED BY <1>4 DEF NewModule

LEMMA UploadsAre ==
  ASSUME NEW index \in Uploads
  PROVE  index \in Indices /\ (index # Broken => index \in DOMAIN Texts)
BY UploadsAssumption DEF Indices

-----------------------------------------------------------------------------
(***************************************************************************)
(* The steps of tasks.                                                     *)
(***************************************************************************)
LEMMA NothingSent ==
  ASSUME XrefsInvariant, Mail \subseteq Mail', Unsent
  PROVE  MessagesSound' /\ worker' = worker
<1>1. mailbox \in Seq(Mail') /\ queue \in [Processors -> Seq(Mail')]
  BY MailWidens DEF XrefsInvariant
<1> QED BY <1>1 DEF Unsent, MessagesSound

LEMMA MessageSent ==
  ASSUME XrefsInvariant, Mail \subseteq Mail', NEW message, message \in Mail',
         TrySend(message) \/ DoSend(message)
  PROVE  MessagesSound' /\ worker' = worker
<1>1. /\ mailbox' = mailbox \/ mailbox' = Append(mailbox, message)
      /\ \/ queue' = queue
         \/ queue' = [queue EXCEPT !["registered"] = Append(@, ProcessStale)]
      /\ worker' = worker
  BY DEF TrySend, DoSend, Reaching
<1> DEFINE M == Mail'
<1>2. /\ mailbox \in Seq(M) /\ queue \in [Processors -> Seq(M)]
      /\ message \in M /\ ProcessStale \in M
  BY MailWidens DEF XrefsInvariant, Mail
<1> HIDE DEF M
<1>3. mailbox' \in Seq(M)
  BY <1>1, <1>2
<1>4. queue' \in [Processors -> Seq(M)]
  <2>1. "registered" \in Processors /\ queue["registered"] \in Seq(M)
    BY <1>2 DEF Processors
  <2>2. Append(queue["registered"], ProcessStale) \in Seq(M)
    BY <1>2, <2>1
  <2> QED BY <1>1, <1>2, <2>1, <2>2
<1>5. mailbox' \in Seq(Mail)' /\ queue' \in [Processors -> Seq(Mail)]'
  BY <1>3, <1>4 DEF M
<1> QED BY <1>1, <1>5 DEF MessagesSound

\* A task goes from one thing to another, or to nothing.
LEMMA TaskGoes ==
  ASSUME XrefsInvariant, Quiet, NEW q \in Tasks, NEW r, TaskSound(r)',
         underway' = [underway EXCEPT ![q] = r], MessagesSound', worker' = worker
  PROVE  XrefsInvariant'
<1>1. /\ underway' = [s \in Tasks |-> underway'[s]] /\ underway'[q] = r
      /\ \A s \in Tasks : s # q => underway'[s] = underway[s]
  BY TaskMoves
<1>2. ASSUME NEW s \in Tasks
      PROVE  underway'[s] = underway[s] \/ TaskSound(underway[s])'
  <2>1. CASE s = q
    BY <1>1, <2>1
  <2>2. CASE s # q
    BY <1>1, <2>2
  <2> QED BY <2>1, <2>2
<1> QED BY <1>1, <1>2, TaskStepSound

LEMMA CreateModuleSound ==
  ASSUME XrefsInvariant, CreateModule \/ ImportModule \/ ImportBook
  PROVE  XrefsInvariant'
<1>1. PICK index \in Uploads :
        /\ Create(Document(index, NewModule, "module")) /\ Unsent
        /\ \/ underway' = underway
           \/ \E q \in Doing("idle") : \E is \in {"create", "book"} :
                underway' = [underway EXCEPT ![q] = [is |-> is, document |-> NewDocument]]
  BY DEF CreateModule, ImportModule, ImportBook, Starts
<1> DEFINE document == Document(index, NewModule, "module")
<1>2. Listed /\ NewModule \in Nat /\ index \in Indices
  BY NewModuleIs, UploadsAre DEF XrefsInvariant
<1>3. NewSound(document) /\ document.is = "module"
  BY <1>2, DocumentIs
<1>4. Create(document)
  BY <1>1
<1> HIDE DEF document
<1>5. CASE underway' = underway
  <2>1. \A c : Committing(c) => Committing(c)'
    BY <1>5 DEF Committing, Doing
  <2>2. Quiet
    BY <1>3, <1>4, <2>1, CreateIs
  <2>3. MessagesSound' /\ worker' = worker
    BY <1>1, <2>2, QuietSound, NothingSent
  <2>4. underway = [q \in Tasks |-> underway[q]]
    BY DEF XrefsInvariant, TasksSound
  <2> QED BY <1>5, <2>2, <2>3, <2>4, TaskStepSound
<1>6. ASSUME NEW q \in Doing("idle"), NEW is \in {"create", "book"},
             underway' = [underway EXCEPT ![q] = [is |-> is, document |-> NewDocument]]
      PROVE  XrefsInvariant'
  <2>n. PICK n : n = NewDocument
    OBVIOUS
  <2>r. PICK r : r = [is |-> is, document |-> n]
    OBVIOUS
  <2>1. q \in Tasks /\ underway[q].is = "idle"
    BY DEF Doing
  <2>2. underway' = [underway EXCEPT ![q] = r] /\ r.is = is /\ r.document = n
    BY <1>6, <2>n, <2>r
  <2>3. \A c : Committing(c) => Committing(c)'
    BY <2>1, <2>2, TaskMoves
  <2>4. Quiet /\ n \in DOMAIN documents' /\ documents'[n] = document
    BY <1>3, <1>4, <2>3, <2>n, CreateIs
  <2>5. TaskSound(r)'
    <3>1. Processable(n)'
      BY <1>3, <2>4 DEF Processable, Unpublished
    <3>2. /\ r.document \in DOMAIN documents' /\ Processable(r.document)'
          /\ r.is # "advance"
      BY <2>2, <2>4, <3>1
    <3> QED BY <3>2 DEF TaskSound
  <2>6. MessagesSound' /\ worker' = worker
    BY <1>1, <2>4, QuietSound, NothingSent
  <2> QED BY <2>1, <2>2, <2>4, <2>5, <2>6, TaskGoes
<1> QED BY <1>1, <1>5, <1>6

LEMMA SendSound ==
  ASSUME XrefsInvariant, SendModule \/ SendStale
  PROVE  XrefsInvariant'
<1>1. PICK q \in Tasks :
        /\ underway[q].is \in {"create", "book"} /\ Ends(q)
        /\ UNCHANGED <<documents, targets>>
        /\ \/ underway[q].is = "create"
              /\ TrySend(Message(underway[q].document,
                                 documents[underway[q].document].index))
           \/ DoSend(ProcessStale)
  BY DEF SendModule, SendStale, Doing
<1>2. underway' = [underway EXCEPT ![q] = Idle]
  BY <1>1 DEF Ends
<1>3. \A c : Committing(c) => Committing(c)'
  BY <1>1, <1>2, TaskMoves
<1>4. Quiet
  BY <1>1, <1>3, Untouched
<1>5. Mail \subseteq Mail'
  BY <1>4, QuietSound
<1>6. CASE /\ underway[q].is = "create"
           /\ TrySend(Message(underway[q].document, documents[underway[q].document].index))
  <2> DEFINE d == underway[q].document  message == Message(d, documents[d].index)
  <2>1. d \in DOMAIN documents /\ Processable(d)
    BY <1>6, TasksAre DEF TaskSound
  <2>2. TrySend(message)
    BY <1>6
  <2> HIDE DEF d
  <2>3. /\ message.document = d /\ message.index = documents[d].index
        /\ message \in [document : Nat, index : Indices]
    BY <2>1, Documents DEF Message, XrefsInvariant
  <2> HIDE DEF message
  <2>4. message \in Mail
    BY <2>1, <2>3 DEF Mail, Sends, Agrees
  <2>5. MessagesSound' /\ worker' = worker
    BY <1>5, <2>2, <2>4, MessageSent
  <2> QED BY <1>2, <1>4, <2>5, TasksAre, TaskGoes
<1>7. CASE DoSend(ProcessStale)
  <2>1. ProcessStale \in Mail'
    BY DEF Mail
  <2>2. MessagesSound' /\ worker' = worker
    BY <1>5, <1>7, <2>1, MessageSent
  <2> QED BY <1>2, <1>4, <2>2, TasksAre, TaskGoes
<1> QED BY <1>1, <1>6, <1>7

LEMMA ReplaceSound ==
  ASSUME XrefsInvariant, ReplaceModule
  PROVE  XrefsInvariant'
<1>1. PICK d \in DOMAIN documents, index \in Uploads, q \in Doing("idle") :
        /\ Create(Document(index, documents[d].module, "new"))
        /\ TrySend(Message(NewDocument, index))
        /\ underway' = [underway EXCEPT ![q] =
               [is |-> "commit", document |-> NewDocument, ended |-> {}]]
  BY DEF ReplaceModule, Starts
<1> DEFINE document == Document(index, documents[d].module, "new")
<1>n. PICK n : n = NewDocument
  OBVIOUS
<1>r. PICK r : r = [is |-> "commit", document |-> n, ended |-> {}]
  OBVIOUS
<1>2. documents[d].module \in Nat /\ index \in Indices
  BY Documents, UploadsAre DEF XrefsInvariant
<1>3. NewSound(document) /\ document.is = "new" /\ document.index = index
  BY <1>2, DocumentIs
<1>4. Create(document)
  BY <1>1
<1>5. /\ underway' = [underway EXCEPT ![q] = r]
      /\ r.is = "commit" /\ r.document = n
  BY <1>1, <1>n, <1>r
<1>6. q \in Tasks /\ underway[q].is = "idle"
  BY DEF Doing
<1> HIDE DEF document
<1>7. \A c : Committing(c) => Committing(c)'
  BY <1>5, <1>6, TaskMoves
<1>8. /\ Quiet /\ n \in DOMAIN documents' /\ n \in Nat
      /\ documents'[n] = document
  BY <1>3, <1>4, <1>7, <1>n, CreateIs
<1>9. Processable(n)'
  BY <1>3, <1>8 DEF Processable, Unpublished
<1>10. TaskSound(r)'
  BY <1>5, <1>8 DEF TaskSound
<1>11. Mail \subseteq Mail'
  BY <1>8, QuietSound
<1>m. PICK message : message = Message(n, index)
  OBVIOUS
<1>12. /\ message.document = n /\ message.index = index
       /\ message \in [document : Nat, index : Indices] /\ TrySend(message)
  BY <1>1, <1>2, <1>8, <1>n, <1>m DEF Message
<1>13. message \in Mail'
  BY <1>3, <1>8, <1>9, <1>12 DEF Mail, Sends, Agrees
<1>14. MessagesSound' /\ worker' = worker
  BY <1>11, <1>12, <1>13, MessageSent
<1> QED BY <1>5, <1>6, <1>8, <1>10, <1>14, TaskGoes

\* A task loads a module or a draft.
LEMMA LoadSound ==
  ASSUME XrefsInvariant, LoadModule \/ LoadDraft
  PROVE  XrefsInvariant'
<1> DEFINE Loads(d) ==
             {[is |-> "begin", document |-> d], [is |-> "upload", document |-> d],
              [is |-> "delete", document |-> d],
              [is |-> "advance", document |-> d, index |-> documents[d].index]}
<1>0. PICK d \in DOMAIN documents :
        /\ \E q \in Doing("idle") : \E r \in Loads(d) : underway' = [underway EXCEPT ![q] = r]
        /\ UNCHANGED <<documents, targets>> /\ Unsent
  BY DEF LoadModule, LoadDraft, Starts
<1>1. PICK q \in Doing("idle"), r \in Loads(d) : underway' = [underway EXCEPT ![q] = r]
  BY <1>0
<1>2. q \in Tasks /\ underway[q].is = "idle"
  BY DEF Doing
<1>3. \A c : Committing(c) => Committing(c)'
  BY <1>1, <1>2, TaskMoves
<1>4. Quiet
  BY <1>0, <1>3, Untouched
<1>5. MessagesSound' /\ worker' = worker
  BY <1>0, <1>4, QuietSound, NothingSent
<1>6. /\ r.document = d /\ r.is # "create"
      /\ r.is = "advance" => r.index = documents[d].index
  OBVIOUS
<1>7. documents' = documents /\ documents[d].index \in Indices
  BY <1>0, Documents DEF XrefsInvariant
<1>8. TaskSound(r)'
  BY <1>6, <1>7 DEF TaskSound, Agrees
<1> QED BY <1>1, <1>2, <1>4, <1>5, <1>8, TaskGoes

LEMMA BeginDraftSound ==
  ASSUME XrefsInvariant, BeginDraft
  PROVE  XrefsInvariant'
<1>1. PICK q \in Doing("begin") :
        /\ \/ Create(Document(documents[underway[q].document].index,
                              documents[underway[q].document].module, "draft"))
           \/ UNCHANGED <<documents, targets>>
        /\ Ends(q) /\ Unsent
  BY DEF BeginDraft
<1> DEFINE d == underway[q].document
           document == Document(documents[d].index, documents[d].module, "draft")
<1>2. /\ q \in Tasks /\ underway[q].is = "begin"
      /\ underway' = [underway EXCEPT ![q] = Idle]
  BY <1>1 DEF Doing, Ends
<1>3. \A c : Committing(c) => Committing(c)'
  BY <1>2, TaskMoves
<1>4. NewSound(document)
  <2>1. documents[d].index \in Indices /\ documents[d].module \in Nat
    BY <1>2, TasksAre, Documents DEF XrefsInvariant
  <2> QED BY <2>1, DocumentIs
<1>5. Create(document) \/ UNCHANGED <<documents, targets>>
  BY <1>1
<1> HIDE DEF document
<1>6. Quiet
  BY <1>3, <1>4, <1>5, CreateIs, Untouched
<1>7. MessagesSound' /\ worker' = worker
  BY <1>1, <1>6, QuietSound, NothingSent
<1> QED BY <1>2, <1>6, <1>7, TasksAre, TaskGoes

LEMMA UploadSound ==
  ASSUME XrefsInvariant, Upload
  PROVE  XrefsInvariant'
<1> DEFINE Late(d) == \/ documents[d].is \notin Unpublished \/ documents[d].undone
                      \/ \E r \in Doing("advance") \cup Doing("commit") :
                             underway[r].document = d
<1>1. PICK q \in Doing("upload"), index \in Uploads :
        /\ documents' = IF documents[underway[q].document].is = "deleted" THEN documents
                        ELSE [documents EXCEPT ![underway[q].document].index = index,
                                 ![underway[q].document].late = @ \/ Late(underway[q].document)]
        /\ Ends(q) /\ targets' = targets /\ Unsent
  BY DEF Upload
<1>2. /\ q \in Tasks /\ underway[q].is = "upload"
      /\ underway' = [underway EXCEPT ![q] = Idle]
  BY <1>1 DEF Doing, Ends
<1>3. \A c : Committing(c) => Committing(c)'
  BY <1>2, TaskMoves
<1>4. CASE documents' = documents
  <2>1. Quiet
    BY <1>1, <1>3, <1>4, Untouched
  <2>2. MessagesSound' /\ worker' = worker
    BY <1>1, <2>1, QuietSound, NothingSent
  <2> QED BY <1>2, <2>1, <2>2, TasksAre, TaskGoes
<1>5. CASE documents' = [documents EXCEPT ![underway[q].document].index = index,
                            ![underway[q].document].late = @ \/ Late(underway[q].document)]
  <2> DEFINE d == underway[q].document  late == documents[d].late \/ Late(d)
             new == [documents[d] EXCEPT !.index = index, !.late = late]
  <2>1. /\ d \in DOMAIN documents /\ index \in Indices /\ Listed
        /\ \A c \in DOMAIN documents : documents[c] \in DocumentRecords
    BY <1>2, TasksAre, UploadsAre, Documents DEF XrefsInvariant
  <2>2. /\ documents' = [documents EXCEPT ![d] = new]
    BY <1>5, <2>1
  <2>l. late \in BOOLEAN /\ (late <=> documents[d].late \/ Late(d))
    <3>1. documents[d].late \in BOOLEAN
      BY <2>1, Documents
    <3> QED BY <3>1
  <2>p. Processable(d) \/ Loaded(d) => Late(d)
    BY DEF Processable, Loaded, Committing
  <2> HIDE DEF d, late, Late
  <2>3. /\ new \in DocumentRecords /\ new.is = documents[d].is
        /\ new.tried = documents[d].tried /\ new.ready = documents[d].ready
        /\ new.undone = documents[d].undone /\ new.late = late
    BY <2>1, <2>l DEF DocumentRecords
  <2> HIDE DEF new
  <2>4. /\ documents' = [c \in DOMAIN documents |-> documents'[c]] /\ documents'[d] = new
        /\ \A c \in DOMAIN documents : c # d => documents'[c] = documents[c]
    BY <2>1, <2>2
  <2>5. ASSUME NEW c \in DOMAIN documents PROVE Rewrites(c)
    <3>1. /\ documents'[c] \in DocumentRecords /\ documents'[c].is = documents[c].is
          /\ documents'[c].tried = documents[c].tried
          /\ documents'[c].ready = documents[c].ready
          /\ documents[c].undone => documents'[c].undone
          /\ documents[c].late => documents'[c].late
      BY <2>1, <2>3, <2>4, <2>l
    <3>2. Processable(c) => Processable(c)'
      BY <1>3, <3>1 DEF Processable
    <3>3. Processable(c) \/ Loaded(c) =>
            documents'[c].index = documents[c].index \/ documents'[c].late
      BY <2>3, <2>4, <2>l, <2>p
    <3> QED BY <3>1, <3>2, <3>3 DEF Rewrites
  <2>6. Quiet
    BY <1>1, <2>4, <2>5, Rewritten
  <2>7. MessagesSound' /\ worker' = worker
    BY <1>1, <2>6, QuietSound, NothingSent
  <2> QED BY <1>2, <2>6, <2>7, TasksAre, TaskGoes
<1> QED BY <1>1, <1>4, <1>5

LEMMA AdvanceSound ==
  ASSUME XrefsInvariant, Advance
  PROVE  XrefsInvariant'
<1>1. PICK q \in Doing("advance") :
        /\ \/ /\ DoSend(Message(underway[q].document, underway[q].index))
              /\ GoesOn(q, [is |-> "commit", document |-> underway[q].document,
                            ended |-> DraftsOf(documents[underway[q].document].module)])
           \/ Ends(q) /\ Unsent
        /\ UNCHANGED <<documents, targets>>
  BY DEF Advance
<1>d. PICK d : d = underway[q].document
  OBVIOUS
<1>i. PICK index : index = underway[q].index
  OBVIOUS
<1>r. PICK r : r = [is |-> "commit", document |-> d, ended |-> DraftsOf(documents[d].module)]
  OBVIOUS
<1>s. PICK message : message = Message(d, index)
  OBVIOUS
<1>2. q \in Tasks /\ underway[q].is = "advance"
  BY DEF Doing
<1>3. d \in DOMAIN documents /\ d \in Nat /\ index \in Indices /\ Agrees(d, index)
  BY <1>2, <1>d, <1>i, TasksAre, Documents DEF TaskSound, XrefsInvariant
<1>4. /\ \/ DoSend(message) /\ underway' = [underway EXCEPT ![q] = r]
         \/ underway' = [underway EXCEPT ![q] = Idle] /\ Unsent
      /\ r.is = "commit" /\ r.document = d
      /\ message.document = d /\ message.index = index
  BY <1>1, <1>d, <1>i, <1>r, <1>s DEF GoesOn, Ends, Message
<1>m. message \in [document : Nat, index : Indices]
  BY <1>3, <1>s DEF Message
<1>5. \A c : Committing(c) => Committing(c)'
  BY <1>2, <1>4, TaskMoves
<1>6. Quiet
  BY <1>1, <1>5, Untouched
<1>7. Mail \subseteq Mail'
  BY <1>6, QuietSound
<1>8. CASE underway' = [underway EXCEPT ![q] = Idle] /\ Unsent
  BY <1>2, <1>6, <1>7, <1>8, NothingSent, TasksAre, TaskGoes
<1>9. CASE DoSend(message) /\ underway' = [underway EXCEPT ![q] = r]
  <2>1. Committing(d)'
    <3>1. underway'[q] = r
      BY <1>2, <1>9, TaskMoves
    <3> QED BY <1>2, <1>4, <3>1 DEF Committing, Doing
  <2>2. Sends(d, index)'
    BY <1>1, <1>3, <2>1 DEF Sends, Agrees, Processable
  <2>3. message \in Mail'
    BY <1>4, <1>m, <2>2 DEF Mail
  <2>4. MessagesSound' /\ worker' = worker
    BY <1>7, <1>9, <2>3, MessageSent
  <2>5. TaskSound(r)'
    BY <1>1, <1>3, <1>4 DEF TaskSound
  <2> QED BY <1>2, <1>6, <1>9, <2>4, <2>5, TaskGoes
<1> QED BY <1>4, <1>8, <1>9

-----------------------------------------------------------------------------
(***************************************************************************)
(* Documents become something else, or their publication is undone.        *)
(***************************************************************************)
Statuses == {"new", "module", "past", "draft", "orphan", "deleted"}
Moves(c) ==
    \/ documents'[c] = documents[c]
    \/ \E is \in Statuses : /\ documents'[c] = [documents[c] EXCEPT !.is = is]
                            /\ is \in Unpublished => documents[c].is \in Unpublished
    \/ documents'[c] = [documents[c] EXCEPT !.undone = TRUE]

LEMMA WithIs ==
  ASSUME NEW old \in DocumentRecords, NEW is \in Statuses,
         NEW new, new = [old EXCEPT !.is = is] \/ new = [old EXCEPT !.undone = TRUE]
  PROVE  /\ new \in DocumentRecords /\ new.index = old.index /\ new.tried = old.tried
         /\ new.ready = old.ready /\ new.late = old.late
         /\ \/ new = [old EXCEPT !.is = is] /\ new.is = is /\ new.undone = old.undone
            \/ new = [old EXCEPT !.undone = TRUE] /\ new.is = old.is /\ new.undone
BY DEF DocumentRecords, Statuses

LEMMA MovesAre ==
  ASSUME XrefsInvariant, NEW c \in DOMAIN documents, Moves(c),
         Committing(c) => \/ Committing(c)' \/ documents'[c].is \notin Unpublished
                          \/ documents'[c].undone
  PROVE  Rewrites(c)
<1> DEFINE old == documents[c]  new == documents'[c]
<1>1. old \in DocumentRecords
  BY Documents DEF XrefsInvariant
<1>2. /\ new \in DocumentRecords /\ new.index = old.index /\ new.tried = old.tried
      /\ new.ready = old.ready /\ (old.late => new.late)
      /\ new.is \in Unpublished => old.is \in Unpublished
      /\ old.undone => new.undone
  <2>1. CASE new = old
    BY <1>1, <2>1
  <2>2. ASSUME NEW is \in Statuses, new = [old EXCEPT !.is = is],
               is \in Unpublished => old.is \in Unpublished
        PROVE  <1>2!1
    <3>1. new.is = is /\ new.undone = old.undone
      BY <1>1, <2>2 DEF DocumentRecords
    <3> HIDE DEF old, new
    <3> QED BY <1>1, <2>2, <3>1, WithIs
  <2>3. CASE new = [old EXCEPT !.undone = TRUE]
    <3>1. new.is = old.is /\ new.undone
      BY <1>1, <2>3 DEF DocumentRecords
    <3> HIDE DEF old, new
    <3>2. "new" \in Statuses
      BY DEF Statuses
    <3> QED BY <1>1, <2>3, <3>1, <3>2, WithIs
  <2>4. CASE \E is \in Statuses : new = [old EXCEPT !.is = is]
                                    /\ (is \in Unpublished => old.is \in Unpublished)
    BY <2>2, <2>4
  <2> QED BY <2>1, <2>3, <2>4 DEF Moves
<1>3. Processable(c) => Processable(c)'
  BY <1>2 DEF Processable
<1> QED BY <1>2, <1>3 DEF Rewrites

\* A task ends with documents that moved.
LEMMA MovedSound ==
  ASSUME XrefsInvariant, NEW q \in Tasks, Ends(q), targets' = targets, Unsent,
         documents' = [c \in DOMAIN documents |-> documents'[c]],
         \A c \in DOMAIN documents :
            Moves(c) /\ (underway[q].is = "commit" /\ underway[q].document = c =>
                            documents'[c].is \notin Unpublished \/ documents'[c].undone)
  PROVE  XrefsInvariant'
<1>1. underway' = [underway EXCEPT ![q] = Idle]
  BY DEF Ends
<1>2. \A c : Committing(c) =>
         Committing(c)' \/ (underway[q].is = "commit" /\ underway[q].document = c)
  BY <1>1, TaskMoves
<1>3. \A c \in DOMAIN documents : Rewrites(c)
  BY <1>2, MovesAre
<1>4. Quiet
  BY <1>3, Rewritten
<1>5. MessagesSound' /\ worker' = worker
  BY <1>4, QuietSound, NothingSent
<1> QED BY <1>1, <1>4, <1>5, TasksAre, TaskGoes

LEMMA CommitSound ==
  ASSUME XrefsInvariant, Commit
  PROVE  XrefsInvariant'
<1>1. PICK q \in Doing("commit") :
        /\ documents' = Published(underway[q].document, underway[q].ended)
        /\ Ends(q) /\ targets' = targets /\ Unsent
  BY DEF Commit
<1> DEFINE d == underway[q].document  ended == underway[q].ended
<1>2. documents' = [c \in DOMAIN documents |->
            IF c = d THEN [documents[c] EXCEPT !.is = "module"]
            ELSE IF documents[c].module = documents[d].module /\ documents[c].is = "module"
            THEN [documents[c] EXCEPT !.is = "past"]
            ELSE IF c \in ended /\ documents[c].is = "draft"
            THEN [documents[c] EXCEPT !.is = "orphan"]
            ELSE documents[c]]
  BY <1>1 DEF Published
<1>3. documents' = [c \in DOMAIN documents |-> documents'[c]]
  BY <1>2
<1>4. ASSUME NEW c \in DOMAIN documents
      PROVE  Moves(c) /\ (d = c => documents'[c].is \notin Unpublished)
  <2>1. CASE c = d
    <3>1. documents'[c] = [documents[c] EXCEPT !.is = "module"]
      BY <1>2, <2>1
    <3>2. documents'[c].is = "module"
      BY <3>1, Documents DEF XrefsInvariant, DocumentRecords
    <3> QED BY <3>1, <3>2 DEF Moves, Unpublished, Statuses
  <2>2. CASE c # d /\ documents[c].module = documents[d].module /\ documents[c].is = "module"
    <3>1. documents'[c] = [documents[c] EXCEPT !.is = "past"]
      BY <1>2, <2>2
    <3> QED BY <2>2, <3>1 DEF Moves, Unpublished, Statuses
  <2>3. CASE /\ c # d
             /\ ~(documents[c].module = documents[d].module /\ documents[c].is = "module")
             /\ c \in ended /\ documents[c].is = "draft"
    <3>1. documents'[c] = [documents[c] EXCEPT !.is = "orphan"]
      BY <1>2, <2>3
    <3> QED BY <2>3, <3>1 DEF Moves, Unpublished, Statuses
  <2>4. CASE /\ c # d
             /\ ~(documents[c].module = documents[d].module /\ documents[c].is = "module")
             /\ ~(c \in ended /\ documents[c].is = "draft")
    <3>1. documents'[c] = documents[c]
      BY <1>2, <2>4
    <3> QED BY <2>4, <3>1 DEF Moves
  <2> QED BY <2>1, <2>2, <2>3, <2>4
<1>5. q \in Tasks
  BY DEF Doing
<1> QED BY <1>1, <1>3, <1>4, <1>5, MovedSound

LEMMA RollbackSound ==
  ASSUME XrefsInvariant, Rollback
  PROVE  XrefsInvariant'
<1>1. PICK q \in Doing("commit") :
        /\ documents' = [documents EXCEPT ![underway[q].document] =
                            Undone(underway[q].document)]
        /\ Ends(q) /\ targets' = targets /\ Unsent
  BY DEF Rollback
<1> DEFINE d == underway[q].document
<1>2. q \in Tasks /\ underway[q].is = "commit"
  BY DEF Doing
<1>3. d \in DOMAIN documents
  BY <1>2, TasksAre
<1>4. /\ documents' = [c \in DOMAIN documents |-> documents'[c]]
      /\ documents'[d] = Undone(d)
      /\ \A c \in DOMAIN documents : c # d => documents'[c] = documents[c]
  BY <1>1, <1>3
<1>5. ASSUME NEW c \in DOMAIN documents
      PROVE  Moves(c) /\ (d = c => documents'[c].is \notin Unpublished \/ documents'[c].undone)
  <2>1. CASE c = d /\ documents[d].is = "new"
    <3>1. documents'[c] = [documents[c] EXCEPT !.is = "deleted"]
      BY <1>4, <2>1 DEF Undone
    <3>2. documents'[c].is = "deleted"
      BY <3>1, Documents DEF XrefsInvariant, DocumentRecords
    <3> QED BY <3>1, <3>2 DEF Moves, Unpublished, Statuses
  <2>2. CASE c = d /\ documents[d].is # "new"
    <3>1. documents'[c] = [documents[c] EXCEPT !.undone = TRUE]
      BY <1>4, <2>2 DEF Undone
    <3>2. documents'[c].undone
      BY <3>1, Documents DEF XrefsInvariant, DocumentRecords
    <3> QED BY <3>1, <3>2 DEF Moves
  <2>3. CASE c # d
    BY <1>4, <2>3 DEF Moves
  <2> QED BY <2>1, <2>2, <2>3
<1> QED BY <1>1, <1>2, <1>4, <1>5, MovedSound

LEMMA DeleteDraftSound ==
  ASSUME XrefsInvariant, DeleteDraft
  PROVE  XrefsInvariant'
<1>1. PICK q \in Doing("delete") :
        /\ documents' = documents \/
              documents' = [c \in DOMAIN documents |->
                  IF c = underway[q].document THEN [documents[c] EXCEPT !.is = "deleted"]
                  ELSE IF c \in DraftsOf(documents[underway[q].document].module)
                  THEN [documents[c] EXCEPT !.is = "orphan"]
                  ELSE documents[c]]
        /\ Ends(q) /\ targets' = targets /\ Unsent
  BY DEF DeleteDraft
<1> DEFINE d == underway[q].document  drafts == DraftsOf(documents[d].module)
<1>2. q \in Tasks /\ underway[q].is = "delete"
  BY DEF Doing
<1>3. \A c \in drafts : documents[c].is = "draft"
  BY DEF DraftsOf
<1>4. documents = [c \in DOMAIN documents |-> documents[c]]
  BY DEF XrefsInvariant, Listed
<1>5. CASE documents' = documents
  BY <1>1, <1>2, <1>4, <1>5, MovedSound DEF Moves
<1>6. CASE documents' = [c \in DOMAIN documents |->
                  IF c = d THEN [documents[c] EXCEPT !.is = "deleted"]
                  ELSE IF c \in drafts THEN [documents[c] EXCEPT !.is = "orphan"]
                  ELSE documents[c]]
  <2>1. documents' = [c \in DOMAIN documents |-> documents'[c]]
    BY <1>6
  <2>2. ASSUME NEW c \in DOMAIN documents PROVE Moves(c)
    <3>1. CASE c = d
      <4>1. documents'[c] = [documents[c] EXCEPT !.is = "deleted"]
        BY <1>6, <3>1
      <4> QED BY <4>1 DEF Moves, Unpublished, Statuses
    <3>2. CASE c # d /\ c \in drafts
      <4>1. documents'[c] = [documents[c] EXCEPT !.is = "orphan"]
        BY <1>6, <3>2
      <4> QED BY <1>3, <3>2, <4>1 DEF Moves, Unpublished, Statuses
    <3>3. CASE c # d /\ c \notin drafts
      <4>1. documents'[c] = documents[c]
        BY <1>6, <3>3
      <4> QED BY <4>1 DEF Moves
    <3> QED BY <3>1, <3>2, <3>3
  <2> QED BY <1>1, <1>2, <2>1, <2>2, MovedSound
<1> QED BY <1>1, <1>5, <1>6

-----------------------------------------------------------------------------
(***************************************************************************)
(* The server starts and stops.                                            *)
(***************************************************************************)
LEMMA StartSound ==
  ASSUME XrefsInvariant, Start
  PROVE  XrefsInvariant'
<1>1. /\ queue' = [queue EXCEPT !["first"] = <<ProcessStale>>]
      /\ UNCHANGED <<documents, targets, underway, mailbox, worker>>
  BY DEF Start
<1>2. Quiet
  <2>1. \A c : Committing(c) => Committing(c)'
    BY <1>1 DEF Committing, Doing
  <2> QED BY <1>1, <2>1, Untouched
<1>3. MessagesSound'
  <2> DEFINE M == Mail'
  <2>1. /\ mailbox \in Seq(M) /\ queue \in [Processors -> Seq(M)]
        /\ ProcessStale \in M
    BY <1>2, QuietSound, MailWidens DEF XrefsInvariant, Mail
  <2> HIDE DEF M
  <2>2. <<ProcessStale>> \in Seq(M)
    BY <2>1
  <2>3. queue' \in [Processors -> Seq(M)]
    BY <1>1, <2>1, <2>2
  <2>4. mailbox' \in Seq(M)
    BY <1>1, <2>1
  <2> QED BY <2>3, <2>4 DEF M, MessagesSound
<1>4. underway' = [q \in Tasks |-> underway'[q]]
  BY <1>1 DEF XrefsInvariant, TasksSound
<1> QED BY <1>1, <1>2, <1>3, <1>4, TaskStepSound

LEMMA CrashSound ==
  ASSUME XrefsInvariant, Crash
  PROVE  XrefsInvariant'
<1>1. /\ documents' = [d \in DOMAIN documents |->
           IF Committing(d) THEN Undone(d) ELSE documents[d]]
      /\ underway' = [q \in Tasks |-> Idle] /\ mailbox' = << >> /\ targets' = targets
      /\ queue' = [p \in Processors |-> << >>] /\ worker' = [p \in Processors |-> Idle]
  BY DEF Crash
<1>2. ASSUME NEW c \in DOMAIN documents
      PROVE  /\ Moves(c)
             /\ Committing(c) => documents'[c].is \notin Unpublished \/ documents'[c].undone
  <2>1. CASE Committing(c) /\ documents[c].is = "new"
    <3>1. documents'[c] = [documents[c] EXCEPT !.is = "deleted"]
      BY <1>1, <2>1 DEF Undone
    <3>2. documents'[c].is = "deleted"
      BY <3>1, Documents DEF XrefsInvariant, DocumentRecords
    <3> QED BY <3>1, <3>2 DEF Moves, Unpublished, Statuses
  <2>2. CASE Committing(c) /\ documents[c].is # "new"
    <3>1. documents'[c] = [documents[c] EXCEPT !.undone = TRUE]
      BY <1>1, <2>2 DEF Undone
    <3>2. documents'[c].undone
      BY <3>1, Documents DEF XrefsInvariant, DocumentRecords
    <3> QED BY <3>1, <3>2 DEF Moves
  <2>3. CASE ~Committing(c)
    <3>1. documents'[c] = documents[c]
      BY <1>1, <2>3
    <3> QED BY <2>3, <3>1 DEF Moves
  <2> QED BY <2>1, <2>2, <2>3
<1>3. \A c \in DOMAIN documents : Rewrites(c)
  BY <1>2, MovesAre
<1>4. documents' = [c \in DOMAIN documents |-> documents'[c]]
  BY <1>1
<1>5. Quiet
  BY <1>1, <1>3, <1>4, Rewritten
<1>6. Listed' /\ DocumentsSound'
  BY <1>5, QuietSound DEF Quiet
<1>7. TasksSound'
  BY <1>1 DEF TasksSound, TaskSound, Idle
<1>8. WorkersSound'
  BY <1>1 DEF WorkersSound, WorkerSound, Idle
<1>9. MessagesSound'
  <2> DEFINE M == Mail'  none == << >>
  <2>1. none \in Seq(M) /\ mailbox' = none /\ queue' = [p \in Processors |-> none]
    BY <1>1
  <2> HIDE DEF M, none
  <2>2. mailbox' \in Seq(M) /\ queue' \in [Processors -> Seq(M)]
    BY <2>1
  <2> QED BY <2>2 DEF M, MessagesSound
<1> QED BY <1>6, <1>7, <1>8, <1>9 DEF XrefsInvariant

-----------------------------------------------------------------------------
(***************************************************************************)
(* TargetProcessor and the workers.                                        *)
(***************************************************************************)
LEMMA HeadAndTail ==
  ASSUME NEW S, NEW list \in Seq(S), list # << >>
  PROVE  /\ Head(list) \in S /\ Tail(list) \in Seq(S)
         /\ Len(list) \in Nat /\ Len(Tail(list)) = Len(list) - 1 /\ Head(list) = list[1]
         /\ \A k \in 1..Len(list) : k = 1 \/ (k - 1 \in 1..(Len(list) - 1)
                                              /\ Tail(list)[k - 1] = list[k])
<1>1. Len(list) \in Nat /\ Len(list) # 0 /\ Head(list) = list[1] /\ Head(list) \in S
  OBVIOUS
<1>2. Tail(list) \in Seq(S) /\ Len(Tail(list)) = Len(list) - 1
  OBVIOUS
<1>3. \A k \in 1..(Len(list) - 1) : Tail(list)[k] = list[k + 1]
  OBVIOUS
<1> QED BY <1>1, <1>2, <1>3

\* What workers do leaves the tasks.
LEMMA StillCommitting ==
  ASSUME underway' = underway
  PROVE  \A c : Committing(c) <=> Committing(c)'
BY DEF Committing, Doing

LEMMA ForwardSound ==
  ASSUME XrefsInvariant, Forward
  PROVE  XrefsInvariant'
<1>1. /\ mailbox # << >> /\ mailbox' = Tail(mailbox)
      /\ queue' = [queue EXCEPT !["registered"] = Append(@, Head(mailbox))]
      /\ UNCHANGED <<documents, targets, underway, worker>>
  BY DEF Forward
<1>2. Quiet
  BY <1>1, StillCommitting, Untouched
<1>3. MessagesSound'
  <2> DEFINE M == Mail'
  <2>1. mailbox \in Seq(M) /\ queue \in [Processors -> Seq(M)]
    BY <1>2, QuietSound, MailWidens DEF XrefsInvariant
  <2> HIDE DEF M
  <2>2. Head(mailbox) \in M /\ Tail(mailbox) \in Seq(M)
    BY <1>1, <2>1, HeadAndTail
  <2>3. "registered" \in Processors /\ queue["registered"] \in Seq(M)
    BY <2>1 DEF Processors
  <2>4. Append(queue["registered"], Head(mailbox)) \in Seq(M)
    BY <2>2, <2>3
  <2>5. queue' \in [Processors -> Seq(M)] /\ mailbox' \in Seq(M)
    BY <1>1, <2>1, <2>2, <2>3, <2>4
  <2> QED BY <2>5 DEF M, MessagesSound
<1>4. underway' = [q \in Tasks |-> underway'[q]]
  BY <1>1 DEF XrefsInvariant, TasksSound
<1> QED BY <1>1, <1>2, <1>3, <1>4, TaskStepSound

\* A worker goes on to something else.
LEMMA WorkerGoes ==
  ASSUME XrefsInvariant, Listed', DocumentsSound', MessagesSound', underway' = underway,
         \A q \in Tasks : \A r : r = underway[q] /\ TaskSound(r) => TaskSound(r)',
         \A v : WorkerSound(v) => WorkerSound(v)',
         NEW p \in Processors, NEW w, WorkerSound(w)', worker' = [worker EXCEPT ![p] = w]
  PROVE  XrefsInvariant'
<1>1. TasksSound'
  <2>1. ASSUME NEW q \in Tasks PROVE TaskSound(underway[q])'
    <3>1. PICK r : r = underway[q] /\ r = underway'[q] /\ TaskSound(r)
      BY DEF XrefsInvariant, TasksSound
    <3>2. TaskSound(r)'
      BY <3>1
    <3> QED BY <3>1, <3>2
  <2> QED BY <2>1 DEF XrefsInvariant, TasksSound
<1>2. WorkersSound'
  <2>1. /\ worker = [o \in Processors |-> worker[o]]
        /\ \A o \in Processors : WorkerSound(worker[o])
    BY DEF XrefsInvariant, WorkersSound
  <2>2. worker' = [o \in Processors |-> worker'[o]] /\ worker'[p] = w
    BY <2>1
  <2>3. ASSUME NEW o \in Processors PROVE WorkerSound(worker[o])'
    <3>1. CASE o = p
      BY <2>2, <3>1
    <3>2. CASE o # p
      <4>1. PICK v : v = worker[o] /\ v = worker'[o] /\ WorkerSound(v)
        BY <2>1, <3>2
      <4>2. WorkerSound(v)'
        BY <4>1
      <4> QED BY <4>1, <4>2
    <3> QED BY <3>1, <3>2
  <2> QED BY <2>2, <2>3 DEF WorkersSound
<1> QED BY <1>1, <1>2 DEF XrefsInvariant

\* A worker takes a message, and then works on it or not.
LEMMA TakeSound ==
  ASSUME XrefsInvariant, NEW p \in Processors, Takes(p), NEW w,
         worker' = worker \/ (worker' = [worker EXCEPT ![p] = w] /\ WorkerSound(w))
  PROVE  XrefsInvariant'
<1>1. /\ queue[p] # << >> /\ queue' = [queue EXCEPT ![p] = Tail(@)]
      /\ UNCHANGED <<documents, targets, underway, mailbox>>
  BY DEF Takes
<1>2. Quiet
  BY <1>1, StillCommitting, Untouched
<1>3. MessagesSound'
  <2> DEFINE M == Mail'
  <2>1. mailbox \in Seq(M) /\ queue \in [Processors -> Seq(M)]
    BY <1>2, QuietSound, MailWidens DEF XrefsInvariant
  <2> HIDE DEF M
  <2>2. Tail(queue[p]) \in Seq(M)
    BY <1>1, <2>1, HeadAndTail
  <2>3. queue' \in [Processors -> Seq(M)] /\ mailbox' \in Seq(M)
    BY <1>1, <2>1, <2>2
  <2> QED BY <2>3 DEF M, MessagesSound
<1>4. CASE worker' = worker
  <2>1. underway' = [q \in Tasks |-> underway'[q]]
    BY <1>1 DEF XrefsInvariant, TasksSound
  <2> QED BY <1>1, <1>2, <1>3, <1>4, <2>1, TaskStepSound
<1>5. CASE worker' = [worker EXCEPT ![p] = w] /\ WorkerSound(w)
  <2>1. WorkerSound(w)'
    BY <1>2, <1>5, QuietSound
  <2>2. Listed'
    BY <1>2 DEF Quiet
  <2> QED BY <1>1, <1>2, <1>3, <1>5, <2>1, <2>2, QuietSound, WorkerGoes
<1> QED BY <1>4, <1>5

LEMMA BeginStaleSound ==
  ASSUME XrefsInvariant, NEW p \in Processors, BeginStale(p)
  PROVE  XrefsInvariant'
<1>1. PICK w : w = [is |-> "stale", indices |-> [d \in StaleDocuments |-> documents[d].index]]
  OBVIOUS
<1>2. Takes(p) /\ worker' = [worker EXCEPT ![p] = w]
  BY <1>1 DEF BeginStale, Becomes
<1>3. \A d \in StaleDocuments : Sends(d, documents[d].index) /\ documents[d].index \in Indices
  BY Documents DEF StaleDocuments, Sends, Agrees, Processable, Unpublished, XrefsInvariant
<1>4. WorkerSound(w)
  BY <1>1, <1>3 DEF WorkerSound, Refreshing
<1> QED BY <1>2, <1>4, TakeSound

LEMMA BeginDocumentSound ==
  ASSUME XrefsInvariant, NEW p \in Processors, BeginDocument(p)
  PROVE  XrefsInvariant'
<1>1. PICK message : message = Head(queue[p])
  OBVIOUS
<1>2. PICK w : w = [is |-> "document", document |-> message.document,
                    index |-> message.index, rows |-> RowsIn[message.index]]
  OBVIOUS
<1>3. /\ Takes(p) /\ message # ProcessStale
      /\ worker' = worker \/ (message.index # Broken /\ worker' = [worker EXCEPT ![p] = w])
  BY <1>1, <1>2 DEF BeginDocument, Becomes
<1>4. message \in Mail
  <2>1. queue[p] \in Seq(Mail) /\ queue[p] # << >>
    BY <1>3 DEF XrefsInvariant, MessagesSound, Takes
  <2> DEFINE M == Mail
  <2> HIDE DEF M
  <2>2. queue[p] \in Seq(M)
    BY <2>1 DEF M
  <2>3. Head(queue[p]) \in M
    BY <2>1, <2>2, HeadAndTail
  <2> QED BY <1>1, <2>3 DEF M
<1> DEFINE i == message.index  d == message.document  rows == RowsIn[i]
<1>5. Sends(d, i) /\ i \in Indices
  BY <1>3, <1>4 DEF Mail
<1>6. CASE message.index # Broken
  <2>1. i \in DOMAIN Texts
    BY <1>5, <1>6 DEF Indices
  <2>2. /\ rows \in Seq(TableRows)
        /\ \A k \in 1..Len(rows) : rows[k] \in TargetsMade(i)
        /\ \A t \in TargetsMade(i) : \E k \in 1..Len(rows) : rows[k] = t
    BY <2>1, RowsInAre
  <2> HIDE DEF rows
  <2>3. rows \in Seq(TargetsMade(i))
    BY <2>2
  <2>4. w = [is |-> "document", document |-> d, index |-> i, rows |-> rows]
    BY <1>2 DEF rows
  <2>5. Completes(d, i, rows)
    BY <2>2 DEF Completes
  <2>6. Inserting(w)
    BY <1>5, <2>1, <2>3, <2>4, <2>5 DEF Inserting
  <2>7. WorkerSound(w)
    BY <2>4, <2>6 DEF WorkerSound
  <2> QED BY <1>3, <2>7, TakeSound
<1>7. CASE message.index = Broken
  BY <1>3, <1>7, TakeSound
<1> QED BY <1>6, <1>7

LEMMA FailSound ==
  ASSUME XrefsInvariant, NEW p \in Processors, Fail(p)
  PROVE  XrefsInvariant'
<1>1. CASE FailToTake(p)
  BY <1>1, TakeSound DEF FailToTake
<1>2. CASE FailStale(p) \/ FailDocument(p)
  <2>1. /\ worker' = [worker EXCEPT ![p] = Idle]
        /\ UNCHANGED <<documents, targets, underway, mailbox, queue>>
    BY <1>2 DEF FailStale, FailDocument, Works, Becomes
  <2>2. Quiet
    BY <2>1, StillCommitting, Untouched
  <2>3. MessagesSound'
    <3> DEFINE M == Mail'
    <3>1. mailbox \in Seq(M) /\ queue \in [Processors -> Seq(M)]
      BY <2>2, QuietSound, MailWidens DEF XrefsInvariant
    <3> HIDE DEF M
    <3>2. queue' \in [Processors -> Seq(M)] /\ mailbox' \in Seq(M)
      BY <2>1, <3>1
    <3> QED BY <3>2 DEF M, MessagesSound
  <2>4. Listed' /\ WorkerSound(Idle)'
    BY <2>2 DEF Quiet, WorkerSound, Idle
  <2> QED BY <2>1, <2>2, <2>3, <2>4, QuietSound, WorkerGoes DEF Idle
<1> QED BY <1>1, <1>2 DEF Fail

-----------------------------------------------------------------------------
(***************************************************************************)
(* Workers write to the tables.                                            *)
(***************************************************************************)
Unworked(d) == documents'[d] = documents[d] /\ targets'[d] = targets[d]
\* Targets of text i were inserted for document d.
Worked(d, i) ==
    /\ Sends(d, i) /\ i \in DOMAIN Texts
    /\ documents'[d] \in DocumentRecords /\ targets'[d] \in Tables
    /\ documents'[d].index = documents[d].index /\ documents'[d].is = documents[d].is
    /\ documents'[d].undone = documents[d].undone /\ documents'[d].late = documents[d].late
    /\ documents'[d].tried = documents[d].tried \cup {i}
    /\ Stands(targets'[d], documents'[d].tried)
    /\ i \in UniqueIds /\ Exact(targets[d], i) =>
         Exact(targets'[d], i) /\ \A t : Has(targets[d], t) => Has(targets'[d], t)
    /\ documents'[d].ready /\ i \in UniqueIds /\ documents[d].tried \subseteq {i} =>
         documents[d].ready \/ Complete(targets'[d], i)
Writes ==
    /\ underway' = underway /\ UNCHANGED <<mailbox, queue>>
    /\ documents' = [d \in DOMAIN documents |-> documents'[d]]
    /\ targets' = [d \in DOMAIN targets |-> targets'[d]]
    /\ \A d \in DOMAIN documents : Unworked(d) \/ \E i : Worked(d, i)

LEMMA DataWorked ==
  ASSUME NEW d, NEW i, Worked(d, i), DataSound(documents[d], targets[d])
  PROVE  DataSound(documents'[d], targets'[d])
<1> DEFINE old == documents[d]  new == documents'[d]
<1>1. /\ new.tried = old.tried \cup {i} /\ new.late = old.late /\ new.index = old.index
      /\ Stands(targets'[d], new.tried)
      /\ i \in UniqueIds /\ Exact(targets[d], i) =>
           Exact(targets'[d], i) /\ \A t : Has(targets[d], t) => Has(targets'[d], t)
      /\ new.ready /\ i \in UniqueIds /\ old.tried \subseteq {i} =>
           old.ready \/ Complete(targets'[d], i)
      /\ old.late \/ old.index = i
  BY DEF Worked, Sends, Agrees
<1>2. /\ \A j \in UniqueIds : old.tried \subseteq {j} => Exact(targets[d], j)
      /\ old.ready => old.tried # {}
      /\ \A j \in UniqueIds : old.ready /\ old.tried = {j} => Complete(targets[d], j)
      /\ old.late \/ old.tried \subseteq {old.index}
  BY DEF DataSound
<1> HIDE DEF old, new
<1>3. ASSUME NEW j \in UniqueIds, new.tried \subseteq {j}
      PROVE  Exact(targets'[d], j) /\ (new.ready => Complete(targets'[d], j))
  <2>1. j = i /\ old.tried \subseteq {i}
    BY <1>1, <1>3
  <2>2. /\ Exact(targets[d], i) /\ Exact(targets'[d], i)
        /\ \A t : Has(targets[d], t) => Has(targets'[d], t)
    BY <1>1, <1>2, <1>3, <2>1
  <2>3. ASSUME old.ready PROVE Complete(targets'[d], i)
    <3>1. old.tried = {i}
      BY <1>2, <2>1, <2>3
    <3>2. Complete(targets[d], i)
      BY <1>2, <1>3, <2>1, <2>3, <3>1
    <3> QED BY <2>2, <3>2 DEF Complete
  <2> QED BY <1>1, <1>3, <2>1, <2>2, <2>3
<1>4. new.late \/ new.tried \subseteq {new.index}
  BY <1>1, <1>2
<1>5. new.tried # {}
  BY <1>1
<1> QED BY <1>1, <1>3, <1>4, <1>5 DEF DataSound, new

LEMMA WorkedSound ==
  ASSUME XrefsInvariant, Writes
  PROVE  /\ Listed' /\ DocumentsSound' /\ MessagesSound'
         /\ \A q \in Tasks : \A r : r = underway[q] /\ TaskSound(r) => TaskSound(r)'
         /\ \A w : WorkerSound(w) => WorkerSound(w)'
         /\ \A d, i : Sends(d, i) => Sends(d, i)'
<1> DEFINE n == Len(documents)  new == documents'  tables == targets'
<1>1. /\ n \in Nat /\ DOMAIN documents = 1..n /\ DOMAIN targets = 1..n /\ DocumentsSound
      /\ \A d \in 1..n : documents[d] \in DocumentRecords /\ targets[d] \in Tables
  BY Documents DEF XrefsInvariant
<1>2. /\ new = [d \in 1..n |-> new[d]] /\ tables = [d \in 1..n |-> tables[d]]
      /\ \A d \in 1..n : new[d] \in DocumentRecords /\ tables[d] \in Tables
  BY <1>1 DEF Writes, Unworked, Worked
<1> HIDE DEF new, tables
<1>3. /\ new \in Seq(DocumentRecords) /\ Len(new) = n /\ DOMAIN new = 1..n
      /\ tables \in Seq(Tables) /\ Len(tables) = n
  BY <1>1, <1>2, ListIs
<1>4. Listed' /\ DOMAIN documents' = DOMAIN documents
  BY <1>1, <1>3 DEF Listed, new, tables
<1>5. ASSUME NEW d \in DOMAIN documents
      PROVE  /\ Kept(d)
             /\ DataSound(documents'[d], targets'[d])
             /\ documents'[d].tried # {} => Processable(d)'
  <2>1. /\ DataSound(documents[d], targets[d])
        /\ documents[d].tried # {} => Processable(d)
    BY <1>1 DEF DocumentsSound
  <2>2. CASE Unworked(d)
    <3>1. Processable(d) => Processable(d)'
      BY <2>2, StillCommitting DEF Writes, Unworked, Processable
    <3> QED BY <1>4, <2>1, <2>2, <3>1 DEF Unworked, Kept
  <2>3. ASSUME NEW i, Worked(d, i)
        PROVE  Kept(d) /\ DataSound(documents'[d], targets'[d]) /\ Processable(d)'
    <3>1. Processable(d) /\ (Processable(d) => Processable(d)')
      BY <2>3, StillCommitting DEF Writes, Worked, Sends, Processable
    <3>2. Kept(d)
      BY <1>4, <2>3, <3>1 DEF Kept, Worked
    <3> QED BY <2>1, <2>3, <3>1, <3>2, DataWorked
  <2> QED BY <2>2, <2>3 DEF Writes
<1>6. DocumentsSound'
  BY <1>4, <1>5 DEF DocumentsSound
<1>7. /\ \A d, i : Sends(d, i) => Sends(d, i)'
      /\ Mail \subseteq Mail'
      /\ \A q \in Tasks : \A r : r = underway[q] /\ TaskSound(r) => TaskSound(r)'
  BY <1>5, KeptIs
<1>8. MessagesSound'
  <2> DEFINE M == Mail'
  <2>1. mailbox \in Seq(M) /\ queue \in [Processors -> Seq(M)]
    BY <1>7, MailWidens DEF XrefsInvariant
  <2> HIDE DEF M
  <2>2. queue' \in [Processors -> Seq(M)] /\ mailbox' \in Seq(M)
    BY <2>1 DEF Writes
  <2> QED BY <2>2 DEF M, MessagesSound
<1>9. ASSUME NEW w, WorkerSound(w) PROVE WorkerSound(w)'
  <2>1. ASSUME Refreshing(w) PROVE Refreshing(w)'
    BY <1>7, <2>1 DEF Refreshing
  <2>2. ASSUME Inserting(w) PROVE Inserting(w)'
    <3> DEFINE d == w.document  j == w.index
    <3>1. Sends(d, j)' /\ d \in DOMAIN documents
      BY <1>7, <2>2 DEF Inserting, Sends
    <3>2. Completes(d, j, w.rows)
      BY <2>2 DEF Inserting
    <3>3. CASE Unworked(d)
      <4>1. Completes(d, j, w.rows)'
        BY <3>2, <3>3 DEF Completes, Unworked
      <4> QED BY <2>2, <3>1, <4>1 DEF Inserting
    <3>4. ASSUME NEW i, Worked(d, i) PROVE Inserting(w)'
      <4>1. ASSUME documents'[d].tried \subseteq {j}, j \in UniqueIds
            PROVE  \A t \in TargetsMade(j) :
                      Has(targets'[d], t) \/ \E k \in 1..Len(w.rows) : w.rows[k] = t
        <5>1. i = j /\ documents[d].tried \subseteq {j}
          BY <3>4, <4>1 DEF Worked
        <5>2. Exact(targets[d], j)
          BY <1>1, <3>1, <4>1, <5>1 DEF DocumentsSound, DataSound
        <5>3. \A t : Has(targets[d], t) => Has(targets'[d], t)
          BY <3>4, <4>1, <5>1, <5>2 DEF Worked
        <5>4. \A t \in TargetsMade(j) :
                 Has(targets[d], t) \/ \E k \in 1..Len(w.rows) : w.rows[k] = t
          BY <3>2, <4>1, <5>1 DEF Completes
        <5> QED BY <5>3, <5>4
      <4>2. Completes(d, j, w.rows)'
        BY <4>1 DEF Completes
      <4> QED BY <2>2, <3>1, <4>2 DEF Inserting
    <3> QED BY <3>1, <3>3, <3>4 DEF Writes
  <2> QED BY <1>9, <2>1, <2>2 DEF WorkerSound
<1> QED BY <1>4, <1>6, <1>7, <1>8, <1>9

\* A document that was worked on, as a record.
Tried(old, i) == [old EXCEPT !.tried = old.tried \cup {i}]
Processed(old, i) == [old EXCEPT !.ready = TRUE, !.tried = old.tried \cup {i}]

LEMMA TriedIs ==
  ASSUME NEW old \in DocumentRecords, NEW i \in DOMAIN Texts,
         NEW new \in {Tried(old, i), Processed(old, i)}
  PROVE  /\ new \in DocumentRecords /\ new.index = old.index /\ new.is = old.is
         /\ new.undone = old.undone /\ new.late = old.late
         /\ new.tried = old.tried \cup {i}
         /\ new = Tried(old, i) => new.ready = old.ready
<1>1. /\ new.index = old.index /\ new.is = old.is /\ new.undone = old.undone
      /\ new.late = old.late /\ new.tried = old.tried \cup {i}
      /\ new = Tried(old, i) => new.ready = old.ready
  BY DEF DocumentRecords, Tried, Processed
<1>2. old.tried \cup {i} \in SUBSET DOMAIN Texts
  BY DEF DocumentRecords
<1>3. new \in DocumentRecords
  BY <1>2 DEF DocumentRecords, Tried, Processed
<1> QED BY <1>1, <1>3

LEMMA FinishStaleSound ==
  ASSUME XrefsInvariant, NEW p \in Processors, FinishStale(p)
  PROVE  XrefsInvariant'
<1>0. PICK v : v = worker[p]
  OBVIOUS
<1> DEFINE indices == v.indices
           Done(d) == d \in DOMAIN indices /\ indices[d] # Broken
<1>1. /\ v.is = "stale" /\ UNCHANGED <<underway, mailbox, queue>>
      /\ targets' = [d \in DOMAIN targets |->
             IF Done(d) THEN InsertRows(targets[d], RowsIn[indices[d]]) ELSE targets[d]]
      /\ documents' = [d \in DOMAIN documents |->
             IF Done(d) THEN [documents[d] EXCEPT !.ready = TRUE,
                                                  !.tried = @ \cup {indices[d]}]
             ELSE documents[d]]
      /\ worker' = [worker EXCEPT ![p] = Idle]
  BY <1>0 DEF FinishStale, Works, Becomes
<1>2. Refreshing(v)
  BY <1>0, <1>1 DEF XrefsInvariant, WorkersSound, WorkerSound
<1>3. \A d \in DOMAIN documents :
        /\ DataSound(documents[d], targets[d]) /\ documents[d] \in DocumentRecords
        /\ targets[d] \in Tables /\ d \in DOMAIN targets
  BY Documents DEF XrefsInvariant, DocumentsSound
<1>4. \A d : Done(d) => Sends(d, indices[d]) /\ indices[d] \in DOMAIN Texts
  BY <1>2 DEF Refreshing, Indices
<1>5. ASSUME NEW d \in DOMAIN documents
      PROVE  Unworked(d) \/ \E i : Worked(d, i)
  <2>1. CASE ~Done(d)
    <3>1. targets'[d] = targets[d] /\ documents'[d] = documents[d]
      BY <1>1, <1>3, <2>1
    <3> QED BY <3>1 DEF Unworked
  <2>2. CASE Done(d)
    <3> DEFINE i == indices[d]  I == documents[d].tried \cup {i}
    <3>1. /\ documents'[d] = Processed(documents[d], i)
          /\ targets'[d] = InsertRows(targets[d], RowsIn[i])
      BY <1>1, <1>3, <2>2 DEF Processed
    <3>2. Sends(d, i) /\ i \in DOMAIN Texts /\ i \in I /\ documents[d].tried \subseteq I
      BY <1>4, <2>2
    <3>i. I = documents[d].tried \cup {i}
      OBVIOUS
    <3> HIDE DEF Done, indices, i, I
    <3>3. Stands(targets[d], I)
      BY <1>3, <3>2, StandsMore DEF DataSound
    <3>4. /\ targets'[d] \in Tables /\ Stands(targets'[d], I)
          /\ i \in UniqueIds /\ Exact(targets[d], i) =>
               Exact(targets'[d], i) /\ \A t \in TargetsMade(i) : Has(targets'[d], t)
      BY <1>3, <3>1, <3>2, <3>3, RowsInserted
    <3>5. /\ documents'[d] \in DocumentRecords
          /\ documents'[d].index = documents[d].index /\ documents'[d].is = documents[d].is
          /\ documents'[d].undone = documents[d].undone
          /\ documents'[d].late = documents[d].late
          /\ documents'[d].tried = I
      BY <1>3, <3>1, <3>2, <3>i, TriedIs
    <3>6. ASSUME i \in UniqueIds, Exact(targets[d], i)
          PROVE  \A t : Has(targets[d], t) => Has(targets'[d], t)
      BY <3>4, <3>6 DEF Exact, Has
    <3>7. ASSUME i \in UniqueIds, documents[d].tried \subseteq {i}
          PROVE  Complete(targets'[d], i)
      <4>1. Exact(targets[d], i)
        BY <1>3, <3>7 DEF DataSound
      <4> QED BY <3>4, <3>7, <4>1 DEF Complete
    <3>8. Worked(d, i)
      BY <3>2, <3>4, <3>5, <3>6, <3>7, <3>i DEF Worked
    <3> QED BY <3>8
  <2> QED BY <2>1, <2>2
<1>6. Writes
  <2>1. /\ documents' = [d \in DOMAIN documents |-> documents'[d]]
        /\ targets' = [d \in DOMAIN targets |-> targets'[d]]
    BY <1>1
  <2> QED BY <1>1, <1>5, <2>1 DEF Writes
<1>7. WorkerSound(Idle)'
  BY DEF WorkerSound, Idle
<1> QED BY <1>1, <1>6, <1>7, WorkedSound, WorkerGoes DEF Idle

\* What there is of the document that a worker inserts targets of.
LEMMA InsertingIs ==
  ASSUME XrefsInvariant, NEW p \in Processors, worker[p].is = "document",
         NEW v, v = worker[p], NEW d, d = v.document, NEW i, i = v.index,
         NEW rows, rows = v.rows
  PROVE  /\ v = [is |-> "document", document |-> d, index |-> i, rows |-> rows]
         /\ Sends(d, i) /\ d \in DOMAIN documents /\ i \in DOMAIN Texts
         /\ rows \in Seq(TargetsMade(i)) /\ Completes(d, i, rows)
         /\ DataSound(documents[d], targets[d])
         /\ documents[d] \in DocumentRecords /\ targets[d] \in Tables
<1>1. Inserting(v)
  BY DEF XrefsInvariant, WorkersSound, WorkerSound
<1>2. d \in DOMAIN documents
  BY <1>1 DEF Inserting, Sends
<1>3. /\ DataSound(documents[d], targets[d])
      /\ documents[d] \in DocumentRecords /\ targets[d] \in Tables
  BY <1>2, Documents DEF XrefsInvariant, DocumentsSound
<1> QED BY <1>1, <1>2, <1>3 DEF Inserting

LEMMA MarkReadySound ==
  ASSUME XrefsInvariant, NEW p \in Processors, MarkReady(p)
  PROVE  XrefsInvariant'
<1>0. PICK v : v = worker[p]
  OBVIOUS
<1>d. PICK d : d = v.document
  OBVIOUS
<1>i. PICK i : i = v.index
  OBVIOUS
<1>r. PICK rows : rows = v.rows
  OBVIOUS
<1>1. /\ worker[p].is = "document" /\ rows = << >>
      /\ \/ documents' = documents
         \/ documents' = [documents EXCEPT ![d].ready = TRUE, ![d].tried = @ \cup {i}]
      /\ UNCHANGED <<targets, underway, mailbox, queue>>
      /\ worker' = [worker EXCEPT ![p] = Idle]
  BY <1>0, <1>d, <1>i, <1>r DEF MarkReady, Works, Becomes
<1>2. /\ Sends(d, i) /\ d \in DOMAIN documents /\ i \in DOMAIN Texts
      /\ Completes(d, i, rows) /\ DataSound(documents[d], targets[d])
      /\ documents[d] \in DocumentRecords /\ targets[d] \in Tables
  BY <1>0, <1>1, <1>d, <1>i, <1>r, InsertingIs
<1>3. /\ documents = [c \in DOMAIN documents |-> documents[c]]
      /\ targets = [c \in DOMAIN targets |-> targets[c]]
  BY DEF XrefsInvariant, Listed
<1>4. ASSUME documents' = [documents EXCEPT ![d].ready = TRUE, ![d].tried = @ \cup {i}]
      PROVE  /\ documents' = [c \in DOMAIN documents |-> documents'[c]]
             /\ \A c \in DOMAIN documents : Unworked(c) \/ \E j : Worked(c, j)
  <2> DEFINE new == Processed(documents[d], i)
  <2>1. documents' = [documents EXCEPT ![d] = new]
    BY <1>2, <1>4 DEF Processed
  <2>2. /\ new \in DocumentRecords /\ new.index = documents[d].index
        /\ new.is = documents[d].is /\ new.undone = documents[d].undone
        /\ new.late = documents[d].late /\ new.tried = documents[d].tried \cup {i}
    BY <1>2, TriedIs
  <2> HIDE DEF new
  <2>3. /\ documents' = [c \in DOMAIN documents |-> documents'[c]] /\ documents'[d] = new
        /\ \A c \in DOMAIN documents : c # d => documents'[c] = documents[c]
    BY <1>2, <1>3, <2>1
  <2>4. Worked(d, i)
    <3>1. targets'[d] = targets[d]
      BY <1>1
    <3>2. Stands(targets[d], new.tried)
      BY <1>2, <2>2, StandsMore DEF DataSound
    <3>3. ASSUME i \in UniqueIds, documents[d].tried \subseteq {i}
          PROVE  Complete(targets[d], i)
      <4>1. \A k \in 1..Len(rows) : FALSE
        BY <1>1
      <4> QED BY <1>2, <3>3, <4>1 DEF Completes, Complete
    <3> QED BY <1>2, <2>2, <2>3, <3>1, <3>2, <3>3 DEF Worked
  <2> QED BY <1>1, <2>3, <2>4 DEF Unworked
<1>5. Writes
  <2>1. targets' = [c \in DOMAIN targets |-> targets'[c]]
    BY <1>1, <1>3
  <2>2. CASE documents' = documents
    BY <1>1, <1>3, <2>1, <2>2 DEF Writes, Unworked
  <2>3. CASE documents' = [documents EXCEPT ![d].ready = TRUE, ![d].tried = @ \cup {i}]
    BY <1>1, <1>4, <2>1, <2>3 DEF Writes
  <2> QED BY <1>1, <2>2, <2>3
<1>6. WorkerSound(Idle)'
  BY DEF WorkerSound, Idle
<1> QED BY <1>1, <1>5, <1>6, WorkedSound, WorkerGoes DEF Idle

LEMMA InsertTargetSound ==
  ASSUME XrefsInvariant, NEW p \in Processors, InsertTarget(p)
  PROVE  XrefsInvariant'
<1>0. PICK v : v = worker[p]
  OBVIOUS
<1>d. PICK d : d = v.document
  OBVIOUS
<1>i. PICK i : i = v.index
  OBVIOUS
<1>r. PICK rows : rows = v.rows
  OBVIOUS
<1>w. PICK w : w = [v EXCEPT !.rows = Tail(rows)]
  OBVIOUS
<1>1. /\ worker[p].is = "document" /\ rows # << >>
      /\ \/ /\ targets' = [targets EXCEPT ![d] = InsertRow(@, Head(rows))]
            /\ documents' = [documents EXCEPT ![d].tried = @ \cup {i}]
            /\ worker' = [worker EXCEPT ![p] = w]
         \/ worker' = [worker EXCEPT ![p] = Idle] /\ UNCHANGED <<documents, targets>>
      /\ UNCHANGED <<underway, mailbox, queue>>
  BY <1>0, <1>d, <1>i, <1>r, <1>w DEF InsertTarget, Works, Becomes
<1>2. /\ v = [is |-> "document", document |-> d, index |-> i, rows |-> rows]
      /\ Sends(d, i) /\ d \in DOMAIN documents /\ i \in DOMAIN Texts
      /\ rows \in Seq(TargetsMade(i)) /\ Completes(d, i, rows)
      /\ DataSound(documents[d], targets[d])
      /\ documents[d] \in DocumentRecords /\ targets[d] \in Tables
  BY <1>0, <1>1, <1>d, <1>i, <1>r, InsertingIs
<1>3. /\ documents = [c \in DOMAIN documents |-> documents[c]]
      /\ targets = [c \in DOMAIN targets |-> targets[c]]
      /\ DOMAIN targets = DOMAIN documents
  BY Documents DEF XrefsInvariant, Listed
<1>4. CASE worker' = [worker EXCEPT ![p] = Idle] /\ UNCHANGED <<documents, targets>>
  <2>1. Writes
    BY <1>1, <1>3, <1>4 DEF Writes, Unworked
  <2>2. WorkerSound(Idle)'
    BY DEF WorkerSound, Idle
  <2> QED BY <1>1, <1>4, <2>1, <2>2, WorkedSound, WorkerGoes DEF Idle
<1>5. CASE /\ targets' = [targets EXCEPT ![d] = InsertRow(@, Head(rows))]
           /\ documents' = [documents EXCEPT ![d].tried = @ \cup {i}]
           /\ worker' = [worker EXCEPT ![p] = w]
  <2> DEFINE row == Head(rows)  left == Tail(rows)  size == Len(rows)
             table == InsertRow(targets[d], row)  tried == documents[d].tried \cup {i}
             new == Tried(documents[d], i)
  <2>1. /\ row \in TargetsMade(i) /\ left \in Seq(TargetsMade(i))
        /\ row = rows[1] /\ Len(left) = size - 1
        /\ \A k \in 1..size : k = 1 \/ (k - 1 \in 1..(size - 1) /\ left[k - 1] = rows[k])
    BY <1>1, <1>2, HeadAndTail
  <2>2. Inserted(targets[d], i, row, table)
    BY <1>2, <2>1, RowInserted
  <2>3. /\ new \in DocumentRecords /\ new.index = documents[d].index
        /\ new.is = documents[d].is /\ new.undone = documents[d].undone
        /\ new.late = documents[d].late /\ new.tried = tried
        /\ new.ready = documents[d].ready
    BY <1>2, TriedIs
  <2>4. documents' = [documents EXCEPT ![d] = new] /\ targets' = [targets EXCEPT ![d] = table]
    BY <1>2, <1>3, <1>5 DEF Tried
  <2>5. w = [is |-> "document", document |-> d, index |-> i, rows |-> left]
    BY <1>2, <1>w
  <2>t. tried = documents[d].tried \cup {i}
    OBVIOUS
  <2> HIDE DEF row, left, size, table, new, tried
  <2>6. /\ documents' = [c \in DOMAIN documents |-> documents'[c]] /\ documents'[d] = new
        /\ \A c \in DOMAIN documents : c # d => documents'[c] = documents[c]
        /\ targets' = [c \in DOMAIN targets |-> targets'[c]] /\ targets'[d] = table
        /\ \A c \in DOMAIN documents : c # d => targets'[c] = targets[c]
    BY <1>2, <1>3, <2>4
  <2>7. /\ table \in Tables
        /\ \A I : Stands(targets[d], I) /\ i \in I => Stands(table, I)
        /\ i \in UniqueIds /\ Exact(targets[d], i) =>
             /\ Exact(table, i) /\ Has(table, row)
             /\ \A t : Has(targets[d], t) => Has(table, t)
    BY <2>2 DEF Inserted
  <2>8. Worked(d, i)
    <3>1. Stands(table, tried)
      <4>1. Stands(targets[d], tried)
        BY <1>2, <2>t, StandsMore DEF DataSound
      <4> QED BY <2>7, <2>t, <4>1
    <3> QED BY <1>2, <2>3, <2>6, <2>7, <2>t, <3>1 DEF Worked
  <2>9. Writes
    BY <1>1, <2>6, <2>8 DEF Writes, Unworked
  <2>10. Sends(d, i)'
    BY <1>2, <2>9, WorkedSound
  <2>11. ASSUME tried \subseteq {i}, i \in UniqueIds, NEW t \in TargetsMade(i)
         PROVE  Has(table, t) \/ \E k \in 1..Len(left) : left[k] = t
    <3>1. documents[d].tried \subseteq {i}
      BY <2>11, <2>t
    <3>2. Exact(targets[d], i)
      BY <1>2, <2>11, <3>1 DEF DataSound
    <3>3. Has(table, row) /\ \A u : Has(targets[d], u) => Has(table, u)
      BY <2>7, <2>11, <3>2
    <3>4. Has(targets[d], t) \/ \E k \in 1..size : rows[k] = t
      BY <1>2, <2>11, <3>1 DEF Completes, size
    <3>5. ASSUME NEW k \in 1..size, rows[k] = t
          PROVE  (Has(table, row) /\ row = t) \/ \E l \in 1..Len(left) : left[l] = t
      <4>1. CASE k = 1
        BY <2>1, <3>3, <3>5, <4>1
      <4>2. CASE k # 1
        BY <2>1, <3>5, <4>2
      <4> QED BY <4>1, <4>2
    <3> QED BY <3>3, <3>4, <3>5
  <2>12. w.document = d /\ w.index = i /\ w.rows = left /\ w.is = "document"
    BY <2>5
  <2>13. Completes(w.document, w.index, w.rows)'
    <3>1. \A t \in TargetsMade(i) : tried \subseteq {i} /\ i \in UniqueIds =>
            Has(table, t) \/ \E k \in 1..Len(w.rows) : w.rows[k] = t
      BY <2>11, <2>12
    <3>2. documents'[w.document].tried = tried /\ targets'[w.document] = table
      BY <2>3, <2>6, <2>12
    <3> QED BY <2>12, <3>1, <3>2 DEF Completes
  <2>14. Inserting(w)'
    <3>1. w = [is |-> "document", document |-> w.document, index |-> w.index, rows |-> w.rows]
      BY <2>5, <2>12
    <3>2. Sends(w.document, w.index)' /\ w.index \in DOMAIN Texts
      BY <1>2, <2>10, <2>12
    <3>3. w.rows \in Seq(TargetsMade(w.index))
      BY <2>1, <2>12
    <3> QED BY <2>13, <3>1, <3>2, <3>3 DEF Inserting
  <2>15. WorkerSound(w)'
    BY <2>12, <2>14 DEF WorkerSound
  <2> QED BY <1>1, <1>5, <2>9, <2>15, WorkedSound, WorkerGoes
<1> QED BY <1>1, <1>4, <1>5

-----------------------------------------------------------------------------
LEMMA XrefsInitSound ==
  ASSUME XrefsInit
  PROVE  XrefsInvariant
<1>1. PICK index \in Indices : documents = <<Document(index, 1, "module")>>
  BY DEF XrefsInit, Indices
<1> DEFINE document == Document(index, 1, "module")  none == << >>
<1>2. /\ document \in DocumentRecords /\ document.tried = {} /\ ~document.ready
      /\ document.is = "module"
  BY DocumentIs DEF NewSound
<1>3. none \in Tables /\ (\A I : Stands(none, I)) /\ \A i : Exact(none, i)
  BY NoTargets
<1>4. documents = <<document>> /\ targets = <<none>> /\ none = << >>
  BY <1>1 DEF XrefsInit
<1>5. /\ underway = [q \in Tasks |-> Idle] /\ worker = [p \in Processors |-> Idle]
      /\ mailbox = none /\ queue = [p \in Processors |-> none]
  BY DEF XrefsInit
<1> HIDE DEF document
<1>6. TasksSound /\ WorkersSound
  BY <1>5 DEF TasksSound, TaskSound, WorkersSound, WorkerSound, Idle
<1>7. MessagesSound
  <2> DEFINE M == Mail
  <2>1. none \in Seq(M)
    OBVIOUS
  <2> HIDE DEF M, none
  <2>2. mailbox \in Seq(M) /\ queue \in [Processors -> Seq(M)]
    BY <1>5, <2>1
  <2> QED BY <2>2 DEF M, MessagesSound
<1> HIDE DEF none
<1>8. /\ DOMAIN documents = {1} /\ documents[1] = document /\ targets[1] = none
      /\ documents \in Seq(DocumentRecords) /\ targets \in Seq(Tables)
      /\ Len(targets) = Len(documents)
  BY <1>2, <1>3, <1>4
<1>9. DataSound(document, none)
  BY <1>2, <1>3 DEF DataSound
<1>10. Listed /\ DocumentsSound
  BY <1>2, <1>8, <1>9 DEF Listed, DocumentsSound
<1> QED BY <1>6, <1>7, <1>10 DEF XrefsInvariant

LEMMA XrefsNextSound ==
  ASSUME XrefsInvariant, [XrefsNext]_xrefsVars
  PROVE  XrefsInvariant'
<1>1. CASE UNCHANGED xrefsVars
  <2>1. UNCHANGED <<documents, targets, underway, mailbox, queue, worker>>
    BY <1>1 DEF xrefsVars
  <2>2. Quiet
    BY <2>1, StillCommitting, Untouched
  <2>3. MessagesSound' /\ worker' = worker
    <3>1. mailbox \in Seq(Mail') /\ queue \in [Processors -> Seq(Mail')]
      BY <2>2, QuietSound, MailWidens DEF XrefsInvariant
    <3> QED BY <2>1, <3>1 DEF MessagesSound
  <2>4. underway' = [q \in Tasks |-> underway'[q]]
    BY <2>1 DEF XrefsInvariant, TasksSound
  <2> QED BY <2>1, <2>2, <2>3, <2>4, TaskStepSound
<1>2. CASE CreateModule \/ ImportModule \/ ImportBook
  BY <1>2, CreateModuleSound
<1>3. CASE SendModule \/ SendStale
  BY <1>3, SendSound
<1>4. CASE ReplaceModule
  BY <1>4, ReplaceSound
<1>5. CASE LoadModule \/ LoadDraft
  BY <1>5, LoadSound
<1>6. CASE BeginDraft
  BY <1>6, BeginDraftSound
<1>7. CASE Upload
  BY <1>7, UploadSound
<1>8. CASE Advance
  BY <1>8, AdvanceSound
<1>9. CASE Commit
  BY <1>9, CommitSound
<1>10. CASE Rollback
  BY <1>10, RollbackSound
<1>11. CASE DeleteDraft
  BY <1>11, DeleteDraftSound
<1>12. CASE Forward
  BY <1>12, ForwardSound
<1>13. CASE Start
  BY <1>13, StartSound
<1>14. CASE Crash
  BY <1>14, CrashSound
<1>15. ASSUME NEW p \in Processors, Work(p) \/ Fail(p) PROVE XrefsInvariant'
  <2>1. CASE BeginStale(p)
    BY <2>1, BeginStaleSound
  <2>2. CASE FinishStale(p)
    BY <2>2, FinishStaleSound
  <2>3. CASE BeginDocument(p)
    BY <2>3, BeginDocumentSound
  <2>4. CASE InsertTarget(p)
    BY <2>4, InsertTargetSound
  <2>5. CASE MarkReady(p)
    BY <2>5, MarkReadySound
  <2>6. CASE Fail(p)
    BY <2>6, FailSound
  <2> QED BY <1>15, <2>1, <2>2, <2>3, <2>4, <2>5, <2>6 DEF Work
<1> QED BY <1>1, <1>2, <1>3, <1>4, <1>5, <1>6, <1>7, <1>8, <1>9, <1>10, <1>11, <1>12,
           <1>13, <1>14, <1>15 DEF XrefsNext, XrefsRequest

\* In every state what stands in the tables stems from indices the documents
\* were processed with, and what was sent, loaded or is being processed is of
\* the document's index unless somebody wrote to it after it was loaded to be
\* published, and of no draft but of one that is published or was nearly.
THEOREM XrefsInvariantHolds == XrefsSpec => []XrefsInvariant
<1>1. XrefsInit => XrefsInvariant
  BY XrefsInitSound
<1>2. XrefsInvariant /\ [XrefsNext]_xrefsVars => XrefsInvariant'
  BY XrefsNextSound
<1> QED BY <1>1, <1>2, PTL DEF XrefsSpec

LEMMA TargetsFollowThen ==
  ASSUME XrefsInvariant
  PROVE  TargetsFollowIndex
<1> SUFFICES ASSUME NEW d \in DOMAIN documents
             PROVE  /\ \A row \in RowsOf(d) : Stems(row, documents[d].tried)
                    /\ \A i \in documents[d].tried \cap UniqueIds : documents[d].tried = {i} =>
                         /\ RowsOf(d) \subseteq TargetsIn[i]
                         /\ documents[d].ready => DOMAIN targets[d] = IdsIn[i]
                    /\ documents[d].ready /\ ~documents[d].late =>
                         documents[d].tried = {documents[d].index}
  BY DEF TargetsFollowIndex
<1>1. DataSound(documents[d], targets[d]) /\ targets[d] \in Tables
  BY Documents DEF XrefsInvariant, DocumentsSound
<1>2. \A row \in RowsOf(d) : Stems(row, documents[d].tried)
  BY <1>1 DEF DataSound, Stands, RowsOf
<1>3. ASSUME NEW i \in UniqueIds, documents[d].tried = {i}
      PROVE  /\ RowsOf(d) \subseteq TargetsIn[i]
             /\ documents[d].ready => DOMAIN targets[d] = IdsIn[i]
  <2>1. i \in DOMAIN Texts
    BY DEF UniqueIds
  <2>2. /\ Exact(targets[d], i) /\ (documents[d].ready => Complete(targets[d], i))
    BY <1>1, <1>3 DEF DataSound
  <2>3. RowsOf(d) \subseteq TargetsIn[i]
    BY <2>1, <2>2, MadeAreTargets DEF RowsOf, Exact
  <2>4. \A e \in DOMAIN targets[d] : targets[d][e].element = e
    BY <1>1, TablesAre
  <2>5. IdsIn[i] = {t.element : t \in TargetsMade(i)}
    BY <2>1, MadeAreTargets
  <2>6. DOMAIN targets[d] \subseteq IdsIn[i]
    BY <2>2, <2>4, <2>5 DEF Exact
  <2>7. ASSUME documents[d].ready PROVE IdsIn[i] \subseteq DOMAIN targets[d]
    BY <2>2, <2>4, <2>5, <2>7 DEF Complete, Has
  <2> QED BY <2>3, <2>6, <2>7
<1>4. documents[d].ready /\ ~documents[d].late => documents[d].tried = {documents[d].index}
  BY <1>1 DEF DataSound
<1> QED BY <1>2, <1>3, <1>4

\* What a document has for targets stems from the indices it was processed
\* with; with one index they are targets of that, all of them once it is said
\* to be processed, and that one is its own unless it was written to too late:
\* whatever order requests, messages, workers, errors and stops come in.
THEOREM TargetsFollow == XrefsSpec => []TargetsFollowIndex
<1>1. XrefsInvariant => TargetsFollowIndex
  BY TargetsFollowThen
<1> QED BY <1>1, XrefsInvariantHolds, PTL

\* A draft has no targets and is not said to be processed unless it is being
\* published or that was undone, by an error or a stop of the server.
THEOREM DraftsStayUnprocessed == XrefsSpec => []DraftsUnprocessed
<1>1. ASSUME XrefsInvariant, NEW d \in DOMAIN documents,
             documents[d].is \in Unpublished, documents[d].ready \/ targets[d] # << >>
      PROVE  documents[d].undone \/ Committing(d)
  <2>1. /\ DataSound(documents[d], targets[d]) /\ targets[d] \in Tables
        /\ documents[d].tried # {} => Processable(d)
    BY <1>1, Documents DEF XrefsInvariant, DocumentsSound
  <2>2. ASSUME documents[d].tried = {}, NEW e \in DOMAIN targets[d] PROVE FALSE
    <3>1. Stems(targets[d][e], {})
      BY <2>1, <2>2 DEF DataSound, Stands
    <3> QED BY <3>1 DEF Stems
  <2>3. documents[d].tried = {} => DOMAIN targets[d] = {}
    BY <2>2
  <2>4. DOMAIN targets[d] = {} => targets[d] = << >>
    <3> DEFINE table == targets[d]
    <3>1. table = [e \in DOMAIN table |-> table[e]]
      BY <2>1 DEF Tables
    <3> QED BY <3>1
  <2>5. documents[d].tried # {}
    BY <1>1, <2>1, <2>3, <2>4 DEF DataSound
  <2> QED BY <1>1, <2>1, <2>5 DEF Processable
<1>2. XrefsInvariant => DraftsUnprocessed
  BY <1>1 DEF DraftsUnprocessed
<1> QED BY <1>2, XrefsInvariantHolds, PTL
=============================================================================
