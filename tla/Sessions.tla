------------------------------ MODULE Sessions ------------------------------
(***************************************************************************)
(* Sessions, passwords and password reset tokens: SessionManager           *)
(* (crates/web/src/session.rs), which every request passes on its way in   *)
(* and on its way out, the handlers of crates/pages/src/lib.rs and         *)
(* crates/rest-api/src/users.rs that log in, elevate, log out and change a *)
(* password, and crates/models/src/models/{user,password}.rs.              *)
(*                                                                         *)
(* On the way in before_request reads the row the cookie names and keeps a *)
(* copy; on the way out after_request deletes, replaces or touches it by   *)
(* its id.  Other requests with the same cookie run in between, and time   *)
(* passes.  A handler that changes a password has read the user, or the    *)
(* token, before the transaction that changes it.                          *)
(***************************************************************************)
EXTENDS Naturals

CONSTANTS
    User,            \* users.id
    Super,           \* the users with users.is_super
    Handler,         \* requests served at a time
    MaxDuration,     \* how long a session may exist
    Inactivity,      \* how long it may go unused (INACTIVITY_EXPIRATION)
    SuperExpiration, \* how long an elevated one may
    TokenDuration,   \* how long a reset token may be used
    MaxSessions,     \* bound: how many sessions are ever created
    MaxTokens,       \* bound: how many reset tokens are
    MaxChanges,      \* bound: how often each password is changed
    MaxTime,         \* bound: when the clock stops
    Null             \* no row

ASSUME SessionsAssumption ==
    /\ Super \subseteq User
    /\ \A n \in {MaxDuration, Inactivity, SuperExpiration, TokenDuration,
                 MaxSessions, MaxTokens, MaxChanges, MaxTime} : n \in Nat
    /\ Null \notin Nat /\ Null \notin User

VARIABLES
    now,         \* the clock
    sessions,    \* rows of sessions, by their id
    nextSession, \* the next value of sessions.id
    tokens,      \* rows of password_reset_tokens, by their id
    nextToken,   \* the next value of password_reset_tokens.id
    password,    \* which of their passwords each user has now
    requests     \* what each request being served holds

vars == <<now, sessions, nextSession, tokens, nextToken, password, requests>>
tokenVars == <<tokens, nextToken>>
sessionVars == <<sessions, nextSession>>

SessionId == 1..MaxSessions
TokenId == 1..MaxTokens

\* `password` is not a column: which password of its user a session, or the
\* request for a token, goes back to.
Row == [user : User, elevated : BOOLEAN, expires : Nat, lastUsed : Nat,
        password : Nat]
Token == [user : User, expires : Nat, password : Nat]

\* SessionData (id and row are `existing`) and the user whose password is about
\* to be changed.
Request == [id : SessionId \cup {Null}, row : Row \cup {Null},
            new : Row \cup {Null}, destroy : BOOLEAN,
            changing : User \cup {Null}]
Fresh == [id |-> Null, row |-> Null, new |-> Null, destroy |-> FALSE,
          changing |-> Null]

TypeOK ==
    /\ now \in Nat
    /\ sessions \in [SessionId -> Row \cup {Null}]
    /\ nextSession \in Nat \ {0}
    /\ tokens \in [TokenId -> Token \cup {Null}]
    /\ nextToken \in Nat \ {0}
    /\ password \in [User -> Nat]
    /\ requests \in [Handler -> Request \cup {Null}]

Init ==
    /\ now = 0
    /\ sessions = [i \in SessionId |-> Null] /\ nextSession = 1
    /\ tokens = [t \in TokenId |-> Null] /\ nextToken = 1
    /\ password = [u \in User |-> 0]
    /\ requests = [h \in Handler |-> Null]

-----------------------------------------------------------------------------
(* On the way in *)

\* SessionManager::validate rejects the session, ...
Rejected(row) == now > row.expires \/ now > row.lastUsed + Inactivity

\* ... or lets it pass, as a normal one if it was elevated for too long.
Downgraded(row) ==
    IF row.elevated /\ now > row.lastUsed + SuperExpiration
    THEN [row EXCEPT !.elevated = FALSE] ELSE row

\* A request with the cookie of session i.  The row is read and then updated or
\* deleted by two statements; either is the same whenever it happens.
Begin(h, i) ==
    /\ requests[h] = Null
    /\ sessions[i] # Null
    /\ IF Rejected(sessions[i])
       THEN /\ sessions' = [sessions EXCEPT ![i] = Null]
            /\ requests' = [requests EXCEPT ![h] = Fresh]
       ELSE /\ sessions' = [sessions EXCEPT ![i] = Downgraded(@)]
            /\ requests' = [requests EXCEPT ![h] =
                    [Fresh EXCEPT !.id = i, !.row = sessions'[i]]]
    /\ UNCHANGED <<now, nextSession, tokenVars, password>>

\* A request without a cookie, or with that of a session that is no more.
BeginWithout(h) ==
    /\ requests[h] = Null
    /\ requests' = [requests EXCEPT ![h] = Fresh]
    /\ UNCHANGED <<now, sessionVars, tokenVars, password>>

-----------------------------------------------------------------------------
(* The handler *)

\* The request is being served and its handler has done nothing yet.
Serving(h) ==
    /\ requests[h] # Null
    /\ requests[h].new = Null /\ ~requests[h].destroy
    /\ requests[h].changing = Null

\* Session::create.
NewSession(u, elevated, generation) ==
    [user |-> u, elevated |-> elevated /\ u \in Super,
     expires |-> now + MaxDuration, lastUsed |-> now, password |-> generation]

\* do_login: the user who authenticates need not be the session's.
Login(h, u) ==
    /\ Serving(h)
    /\ requests' = [requests EXCEPT ![h].new = NewSession(u, FALSE, password[u])]
    /\ UNCHANGED <<now, sessionVars, tokenVars, password>>

\* do_elevate, do_elevate_json: the user of the session repeats the password.
Elevate(h) ==
    /\ Serving(h) /\ requests[h].row # Null
    /\ LET u == requests[h].row.user IN
       requests' = [requests EXCEPT ![h].new = NewSession(u, TRUE, password[u])]
    /\ UNCHANGED <<now, sessionVars, tokenVars, password>>

\* logout.
Logout(h) ==
    /\ Serving(h) /\ requests[h].row # Null
    /\ requests' = [requests EXCEPT ![h].destroy = TRUE]
    /\ UNCHANGED <<now, sessionVars, tokenVars, password>>

\* do_reset with an e-mail: PasswordResetToken::create.
RequestToken(h, u) ==
    /\ Serving(h)
    /\ nextToken \in TokenId
    /\ tokens' = [tokens EXCEPT ![nextToken] =
            [user |-> u, expires |-> now + TokenDuration, password |-> password[u]]]
    /\ nextToken' = nextToken + 1
    /\ UNCHANGED <<now, sessionVars, password, requests>>

\* do_reset with a code: PasswordResetToken::from_code.
LoadToken(h, t) ==
    /\ Serving(h)
    /\ tokens[t] # Null /\ now <= tokens[t].expires
    /\ requests' = [requests EXCEPT ![h].changing = tokens[t].user]
    /\ UNCHANGED <<now, sessionVars, tokenVars, password>>

\* modify_password, up to the check of the current password.
CheckPassword(h) ==
    /\ Serving(h) /\ requests[h].row # Null
    /\ requests' = [requests EXCEPT ![h].changing = requests[h].row.user]
    /\ UNCHANGED <<now, sessionVars, tokenVars, password>>

\* The rows that are not user u's.
WithoutUser(rows, u) ==
    [i \in DOMAIN rows |->
        IF rows[i] # Null /\ rows[i].user = u THEN Null ELSE rows[i]]

\* Mutant: tokens are left alone.
ChangePasswordOnly(u) ==
    /\ password[u] < MaxChanges
    /\ sessions' = WithoutUser(sessions, u)
    /\ password' = [password EXCEPT ![u] = @ + 1]
    /\ UNCHANGED tokens

\* Mutant: sessions are.
ChangePasswordOfOthers(u) ==
    /\ password[u] < MaxChanges
    /\ tokens' = WithoutUser(tokens, u)
    /\ password' = [password EXCEPT ![u] = @ + 1]
    /\ UNCHANGED sessions

\* User::change_password: the transaction.
ChangePassword(u) ==
    /\ password[u] < MaxChanges
    /\ tokens' = WithoutUser(tokens, u)
    /\ sessions' = WithoutUser(sessions, u)
    /\ password' = [password EXCEPT ![u] = @ + 1]

\* modify_password after its checks, and PasswordResetToken::fulfil: either
\* makes a normal session of the new password.
Change(h) ==
    /\ requests[h] # Null /\ requests[h].changing # Null
    /\ LET u == requests[h].changing IN
       /\ ChangePassword(u)
       /\ requests' = [requests EXCEPT ![h].changing = Null,
                            ![h].new = NewSession(u, FALSE, password'[u])]
    /\ UNCHANGED <<now, nextSession, nextToken>>

\* An empty password, two that differ, or an error of the database.
RefuseChange(h) ==
    /\ requests[h] # Null /\ requests[h].changing # Null
    /\ requests' = [requests EXCEPT ![h].changing = Null]
    /\ UNCHANGED <<now, sessionVars, tokenVars, password>>

-----------------------------------------------------------------------------
(* On the way out *)

\* Mutant: the whole row the request has kept is written back.
TouchAll(r) ==
    IF r.id = Null THEN sessions
    ELSE [sessions EXCEPT ![r.id] = [r.row EXCEPT !.lastUsed = now]]

\* A row that is no more is not updated.
Touch(r) ==
    IF r.id = Null \/ sessions[r.id] = Null THEN sessions
    ELSE [sessions EXCEPT ![r.id].lastUsed = now]

Delete(i) == IF i = Null THEN sessions ELSE [sessions EXCEPT ![i] = Null]

\* SessionManager::after_request.
End(h) ==
    /\ requests[h] # Null /\ requests[h].changing = Null
    /\ LET r == requests[h] IN
       \/ /\ r.destroy
          /\ sessions' = Delete(r.id)
          /\ UNCHANGED nextSession
       \/ /\ ~r.destroy /\ r.new # Null
          /\ nextSession \in SessionId
          /\ sessions' = [Delete(r.id) EXCEPT ![nextSession] = r.new]
          /\ nextSession' = nextSession + 1
       \/ /\ ~r.destroy /\ r.new = Null
          /\ sessions' = Touch(r)
          /\ UNCHANGED nextSession
    /\ requests' = [requests EXCEPT ![h] = Null]
    /\ UNCHANGED <<now, tokenVars, password>>

\* The connection is closed before the handler's answer is there, or the
\* database refuses: after_request does not take effect.
Abort(h) ==
    /\ requests[h] # Null
    /\ requests' = [requests EXCEPT ![h] = Null]
    /\ UNCHANGED <<now, sessionVars, tokenVars, password>>

Tick ==
    /\ now < MaxTime
    /\ now' = now + 1
    /\ UNCHANGED <<sessionVars, tokenVars, password, requests>>

Serve(h) ==
    \/ BeginWithout(h) \/ \E i \in SessionId : Begin(h, i)
    \/ \E u \in User : Login(h, u) \/ RequestToken(h, u)
    \/ \E t \in TokenId : LoadToken(h, t)
    \/ Elevate(h) \/ Logout(h) \/ CheckPassword(h)
    \/ Change(h) \/ RefuseChange(h)
    \/ End(h) \/ Abort(h)

Next == Tick \/ \E h \in Handler : Serve(h)

Spec == Init /\ [][Next]_vars

-----------------------------------------------------------------------------
(* Properties *)

\* However requests with one cookie overlap, a session that has ended stays
\* ended, one that was downgraded stays so, and none changes hands or lives
\* longer than it was given: what after_request does with the copy that
\* before_request kept.
SessionsOnlyFade ==
    [][\A i \in SessionId : i < nextSession =>
        \/ sessions'[i] = Null
        \/ /\ sessions[i] # Null
           /\ sessions'[i].user = sessions[i].user
           /\ sessions'[i].expires = sessions[i].expires
           /\ sessions'[i].elevated => sessions[i].elevated]_vars

\* Every token that can be used was asked for since its user's password last
\* changed: a change voids the tokens sent before.
TokensOfCurrentPassword ==
    \A t \in TokenId :
        tokens[t] # Null => tokens[t].password = password[tokens[t].user]

\* A session of a password that is not the user's any more.
Stale(row) == row # Null /\ row.password # password[row.user]

StaleSessions == {i \in SessionId : Stale(sessions[i])}
StaleRequests ==
    {h \in Handler : requests[h] # Null /\ Stale(requests[h].new)}

\* Once nothing is left that authenticated with an older password, no session
\* of an older password appears again.
CurrentStaysCurrent ==
    [][StaleSessions = {} /\ StaleRequests = {} => StaleSessions' = {}]_vars
=============================================================================
