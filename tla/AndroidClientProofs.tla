------------------------- MODULE AndroidClientProofs -------------------------
(***************************************************************************)
(* The session of the Android client and the client that uses it, for any  *)
(* number of coroutines and accounts.  First the session by itself: types  *)
(* and mutual exclusion, and that late answers act only on the session     *)
(* they belong to.  Then the client uses it as AccountSession allows:      *)
(* every step of the repositories, the gate and the server is a step of    *)
(* the session or leaves it alone, so that what is proved of the session   *)
(* holds in the client.                                                    *)
(***************************************************************************)
EXTENDS AndroidClient, FiniteSetTheorems, TLAPS

-----------------------------------------------------------------------------
(* The session: AccountSession.                                             *)
LEMMA TypeInit == SessionInit => TypeOK
<1> SUFFICES ASSUME SessionInit PROVE TypeOK
  OBVIOUS
<1> USE SessionAssumption DEF SessionInit
<1>1. disk \in [tokens : Coroutines \union {NULL}, pending : BOOLEAN]
  OBVIOUS
<1>2. \A c \in Coroutines : mutex = c <=> pc[c] \in UnderMutex
  BY DEF UnderMutex
<1> QED
  BY <1>1, <1>2 DEF TypeOK, Running, Results

LEMMA TypeStep ==
    ASSUME TypeOK, [SessionNext]_sessionVars
    PROVE  TypeOK'
<1> USE SessionAssumption DEF TypeOK, Running, UnderMutex, Results
<1>0. CASE UNCHANGED sessionVars
  BY <1>0 DEF sessionVars, session, store, callVars
<1>1. ASSUME NEW c \in Coroutines, BeginSignIn(c) \/ BeginSignOut(c) \/ BeginCall(c)
      PROVE  TypeOK'
  BY <1>1 DEF BeginSignIn, BeginSignOut, BeginCall, At, Goto, session, store, callVars
<1>2. ASSUME NEW c \in Coroutines, RememberGeneration(c) \/ SignInAnswered(c) PROVE TypeOK'
  BY <1>2 DEF RememberGeneration, SignInAnswered, Locked, At, Goto, session, store, callVars
<1>3. ASSUME NEW c \in Coroutines, InstallSignIn(c) PROVE TypeOK'
  <2> USE <1>3 DEF InstallSignIn, At, Goto, session, store, callVars
  <2>1. CASE Overtaken(c)
    BY <2>1 DEF Locked
  <2>2. CASE ~ Overtaken(c)
    BY <2>2 DEF Lock
  <2> QED
    BY <2>1, <2>2
<1>4. ASSUME NEW c \in Coroutines, ApplySignIn(c) PROVE TypeOK'
  <2> USE <1>4 DEF ApplySignIn, At, Goto, session, store, callVars
  <2>1. /\ mutex' = NULL
        /\ mutex = c
        /\ pc' \in {[pc EXCEPT ![c] = "done"], [pc EXCEPT ![c] = "failed"]}
    BY DEF Unlock
  <2>2. \A d \in Coroutines : mutex' = d <=> pc'[d] \in UnderMutex
    BY <2>1
  <2>3. ended' \subseteq Coroutines
    BY DEF Underway
  <2>4. /\ tokens' \in {tokens, c} /\ saved' \in {NULL, c} /\ expired' \in BOOLEAN
        /\ generation' = generation + 1
        /\ UNCHANGED <<pending, disk, account, startedAt, idToken, want, sent>>
    OBVIOUS
  <2>5. pc' \in [Coroutines -> {"idle"} \union Running \union Results]
    BY <2>1
  <2>6. mutex' \in Coroutines \union {NULL}
    BY <2>1
  <2> HIDE <1>4 DEF ApplySignIn
  <2> QED
    BY <2>2, <2>3, <2>4, <2>5, <2>6
<1>5. ASSUME NEW c \in Coroutines, SignOut(c) PROVE TypeOK'
  BY <1>5 DEF SignOut, Clear, Underway, Lock, At, Goto, session, store, callVars
<1>16. ASSUME NEW c \in Coroutines, ClearPending(c) PROVE TypeOK'
  <2> USE <1>16 DEF ClearPending, At, Goto, session, store, callVars
  <2>1. /\ mutex' = NULL
        /\ mutex = c
        /\ pc' \in {[pc EXCEPT ![c] = "done"], [pc EXCEPT ![c] = "failed"]}
    BY DEF Unlock
  <2>2. \A d \in Coroutines : mutex' = d <=> pc'[d] \in UnderMutex
    BY <2>1
  <2> QED
    BY <2>1, <2>2
<1>6. ASSUME NEW c \in Coroutines, CurrentToken(c) PROVE TypeOK'
  BY <1>6 DEF CurrentToken, Carry, Lock, Locked, At, Goto, session, store, callVars
<1>7. ASSUME NEW c \in Coroutines, RefreshSucceeds(c) PROVE TypeOK'
  BY <1>7 DEF RefreshSucceeds, Refreshing, Carry, Unlock, At, Goto, session, store, callVars
<1>8. ASSUME NEW c \in Coroutines, RefreshNotSaved(c) \/ RefreshFails(c) PROVE TypeOK'
  BY <1>8 DEF RefreshNotSaved, RefreshFails, Refreshing, Unlock, At, Goto, session, store, callVars
<1>9. ASSUME NEW c \in Coroutines, RefreshRefused(c) PROVE TypeOK'
  BY <1>9 DEF RefreshRefused, Refreshing, Clear, Underway, At, Goto, session, store, callVars
<1>10. ASSUME NEW c \in Coroutines, Answered(c) \/ Unauthorized(c) \/ UnauthorizedAgain(c)
      PROVE  TypeOK'
  BY <1>10 DEF Answered, Unauthorized, UnauthorizedAgain, At, Goto, session, store, callVars
<1>11. ASSUME NEW c \in Coroutines, ForceRefresh(c) PROVE TypeOK'
  BY <1>11 DEF ForceRefresh, At, Goto, session, store, callVars
<1>12. ASSUME NEW c \in Coroutines, RefreshLocked(c) PROVE TypeOK'
  BY <1>12 DEF RefreshLocked, Carry, Lock, Locked, At, Goto, session, store, callVars
<1>13. ASSUME NEW c \in Coroutines, EndSession(c) PROVE TypeOK'
  BY <1>13 DEF EndSession, Clear, Underway, Lock, Locked, At, Goto, session, store, callVars
<1>14. CASE Expire
  BY <1>14 DEF Expire, session, store, callVars
<1>17. CASE Flush
  BY <1>17 DEF Flush, session, store, callVars
<1>15. CASE Restart
  BY <1>15 DEF Restart, Underway, session, store, callVars
<1>18. CASE TakePendingBack
  BY <1>18 DEF TakePendingBack, Locked, session, store, callVars
<1> QED
  BY <1>0, <1>1, <1>2, <1>3, <1>4, <1>5, <1>6, <1>7, <1>8, <1>9, <1>10, <1>11, <1>12, <1>13,
     <1>14, <1>15, <1>16, <1>17, <1>18 DEF SessionNext, Begin, Step, SessionStep, Refresh

\* The variables have their types, and exactly the coroutine that holds the
\* mutex is inside a section of AccountSession.
THEOREM TypeCorrect == SessionSpec => []TypeOK
<1> QED
  BY TypeInit, TypeStep, PTL DEF SessionSpec

-----------------------------------------------------------------------------
(* Logins.                                                                 *)

\* Steps at which a coroutine relies on the generation it has remembered.
Remembering ==
    {"signInCall", "install", "refresh", "request", "forceRefresh", "forceLock",
     "forceCall", "retry", "endSession"}

\* A sign-in whose answer is not installed yet is nowhere in the session, and
\* is overtaken only if the generation has moved on since it began.
LoginOK(c) ==
    /\ pc[c] \in {"idle", "signIn", "signInCall", "install", "applySignIn"} =>
         c # tokens /\ c # saved /\ c # disk.tokens
    /\ pc[c] \in {"idle", "signIn", "applySignIn"} => c \notin ended
    /\ pc[c] \in {"signInCall", "install"} /\ c \in ended => startedAt[c] # generation
    /\ pc[c] \in Remembering => startedAt[c] <= generation

LoginInv == NoResurrection /\ \A c \in Coroutines : LoginOK(c)

LEMMA LoginInit == SessionInit => LoginInv
BY SessionAssumption DEF SessionInit, LoginInv, LoginOK, NoResurrection, Remembering

LEMMA LoginStep ==
    ASSUME TypeOK, TypeOK', LoginInv, [SessionNext]_sessionVars
    PROVE  LoginInv'
<1> USE SessionAssumption DEF TypeOK, Running, UnderMutex, Results, LoginInv, LoginOK,
        NoResurrection, Remembering
<1>0. CASE UNCHANGED sessionVars
  BY <1>0 DEF sessionVars, session, store, callVars
<1>1. ASSUME NEW c \in Coroutines, BeginSignIn(c) \/ BeginSignOut(c) \/ BeginCall(c)
      PROVE  LoginInv'
  BY <1>1 DEF BeginSignIn, BeginSignOut, BeginCall, At, Goto, session, store, callVars
<1>2. ASSUME NEW c \in Coroutines, RememberGeneration(c) PROVE LoginInv'
  BY <1>2 DEF RememberGeneration, Locked, At, Goto, session, store, callVars
<1>3. ASSUME NEW c \in Coroutines, SignInAnswered(c) PROVE LoginInv'
  BY <1>3 DEF SignInAnswered, At, Goto, session, store, callVars
<1>4. ASSUME NEW c \in Coroutines, InstallSignIn(c) PROVE LoginInv'
  BY <1>4 DEF InstallSignIn, Overtaken, Locked, Lock, At, Goto, session, store, callVars
<1>5. ASSUME NEW c \in Coroutines, ApplySignIn(c) PROVE LoginInv'
  BY <1>5 DEF ApplySignIn, Underway, Unlock, At, Goto, session, store, callVars
<1>6. ASSUME NEW c \in Coroutines, SignOut(c) PROVE LoginInv'
  BY <1>6 DEF SignOut, Clear, Underway, Lock, At, Goto, session, store, callVars
<1>7. ASSUME NEW c \in Coroutines, ClearPending(c) PROVE LoginInv'
  BY <1>7 DEF ClearPending, Unlock, At, Goto, session, store, callVars
<1>8. ASSUME NEW c \in Coroutines, CurrentToken(c) PROVE LoginInv'
  BY <1>8 DEF CurrentToken, Carry, Locked, Lock, At, Goto, session, store, callVars
<1>9. ASSUME NEW c \in Coroutines, RefreshSucceeds(c) PROVE LoginInv'
  BY <1>9 DEF RefreshSucceeds, Refreshing, Carry, Unlock, At, Goto, session, store, callVars
<1>10. ASSUME NEW c \in Coroutines, RefreshNotSaved(c) \/ RefreshFails(c) PROVE LoginInv'
  BY <1>10 DEF RefreshNotSaved, RefreshFails, Refreshing, Unlock, At, Goto, session, store, callVars
<1>11. ASSUME NEW c \in Coroutines, RefreshRefused(c) PROVE LoginInv'
  BY <1>11 DEF RefreshRefused, Refreshing, Clear, Underway, At, Goto, session, store, callVars
<1>12. ASSUME NEW c \in Coroutines, Answered(c) \/ Unauthorized(c) \/ UnauthorizedAgain(c)
      PROVE  LoginInv'
  BY <1>12 DEF Answered, Unauthorized, UnauthorizedAgain, At, Goto, session, store, callVars
<1>13. ASSUME NEW c \in Coroutines, ForceRefresh(c) PROVE LoginInv'
  BY <1>13 DEF ForceRefresh, At, Goto, session, store, callVars
<1>14. ASSUME NEW c \in Coroutines, RefreshLocked(c) PROVE LoginInv'
  BY <1>14 DEF RefreshLocked, Carry, Locked, Lock, At, Goto, session, store, callVars
<1>15. ASSUME NEW c \in Coroutines, EndSession(c) PROVE LoginInv'
  BY <1>15 DEF EndSession, Clear, Underway, Locked, Lock, At, Goto, session, store, callVars
<1>16. CASE TakePendingBack
  BY <1>16 DEF TakePendingBack, Locked, session, store, callVars
<1>17. CASE Expire
  BY <1>17 DEF Expire, session, store, callVars
<1>18. CASE Flush
  BY <1>18 DEF Flush, session, store, callVars
<1>19. CASE Restart
  BY <1>19 DEF Restart, Underway, session, store, callVars
<1> QED
  BY <1>0, <1>1, <1>2, <1>3, <1>4, <1>5, <1>6, <1>7, <1>8, <1>9,
     <1>10, <1>11, <1>12, <1>13, <1>14, <1>15, <1>16, <1>17, <1>18, <1>19
  DEF SessionNext, Begin, Step, SessionStep, Refresh

\* A sign-in, refresh or retry that was under way when the session changed never
\* brings a signed-out or overtaken login back (AccountSession.kt:90-91).
THEOREM NoLoginComesBack == SessionSpec => []NoResurrection
<1>1. LoginInv => NoResurrection
  BY DEF LoginInv
<1> QED
  BY TypeCorrect, LoginInit, LoginStep, <1>1, PTL DEF SessionSpec

-----------------------------------------------------------------------------
(* Requests.                                                               *)

InCall == {"request", "forceRefresh", "forceLock", "forceCall", "retry", "endSession"}

\* A request has been sent with the login of its ID token only, and as long as
\* the generation it remembers lasts, that login is the session's.
CallOK(c) ==
    /\ sent[c] \subseteq {idToken[c]}
    /\ pc[c] \in {"idle", "currentToken", "refresh"} => sent[c] = {}
    /\ pc[c] \in {"refresh", "forceCall"} => tokens # NULL /\ startedAt[c] = generation
    /\ pc[c] \in InCall /\ idToken[c] # NULL => sent[c] = {idToken[c]}
    /\ pc[c] \in InCall \ {"request"} => idToken[c] # NULL
    /\ pc[c] \in InCall /\ idToken[c] # NULL /\ startedAt[c] = generation =>
         tokens = idToken[c]

CallInv == \A c \in Coroutines : CallOK(c)

LEMMA CallInit == SessionInit => CallInv
BY SessionAssumption DEF SessionInit, CallInv, CallOK, InCall

LEMMA CallStep ==
    ASSUME TypeOK, TypeOK', LoginInv, CallInv, [SessionNext]_sessionVars
    PROVE  CallInv'
<1> USE SessionAssumption DEF TypeOK, Running, UnderMutex, Results, LoginInv, LoginOK,
        Remembering, CallInv, CallOK, InCall
<1>0. CASE UNCHANGED sessionVars
  BY <1>0 DEF sessionVars, session, store, callVars
<1>1. ASSUME NEW c \in Coroutines, BeginSignIn(c) \/ BeginSignOut(c) \/ BeginCall(c)
      PROVE  CallInv'
  BY <1>1 DEF BeginSignIn, BeginSignOut, BeginCall, At, Goto, session, store, callVars
<1>2. ASSUME NEW c \in Coroutines, RememberGeneration(c) PROVE CallInv'
  BY <1>2 DEF RememberGeneration, Locked, At, Goto, session, store, callVars
<1>3. ASSUME NEW c \in Coroutines, SignInAnswered(c) PROVE CallInv'
  BY <1>3 DEF SignInAnswered, At, Goto, session, store, callVars
<1>4. ASSUME NEW c \in Coroutines, InstallSignIn(c) PROVE CallInv'
  BY <1>4 DEF InstallSignIn, Overtaken, Locked, Lock, At, Goto, session, store, callVars
<1>5. ASSUME NEW c \in Coroutines, ApplySignIn(c) PROVE CallInv'
  BY <1>5 DEF ApplySignIn, Underway, Unlock, At, Goto, session, store, callVars
<1>6. ASSUME NEW c \in Coroutines, SignOut(c) PROVE CallInv'
  BY <1>6 DEF SignOut, Clear, Underway, Lock, At, Goto, session, store, callVars
<1>7. ASSUME NEW c \in Coroutines, ClearPending(c) PROVE CallInv'
  BY <1>7 DEF ClearPending, Unlock, At, Goto, session, store, callVars
<1>8. ASSUME NEW c \in Coroutines, CurrentToken(c) PROVE CallInv'
  BY <1>8 DEF CurrentToken, Carry, Locked, Lock, At, Goto, session, store, callVars
<1>9. ASSUME NEW c \in Coroutines, RefreshSucceeds(c) PROVE CallInv'
  BY <1>9 DEF RefreshSucceeds, Refreshing, Carry, Unlock, At, Goto, session, store, callVars
<1>10. ASSUME NEW c \in Coroutines, RefreshNotSaved(c) \/ RefreshFails(c) PROVE CallInv'
  BY <1>10 DEF RefreshNotSaved, RefreshFails, Refreshing, Unlock, At, Goto, session, store, callVars
<1>11. ASSUME NEW c \in Coroutines, RefreshRefused(c) PROVE CallInv'
  BY <1>11 DEF RefreshRefused, Refreshing, Clear, Underway, At, Goto, session, store, callVars
<1>12. ASSUME NEW c \in Coroutines, Answered(c) \/ Unauthorized(c) \/ UnauthorizedAgain(c)
      PROVE  CallInv'
  BY <1>12 DEF Answered, Unauthorized, UnauthorizedAgain, At, Goto, session, store, callVars
<1>13. ASSUME NEW c \in Coroutines, ForceRefresh(c) PROVE CallInv'
  BY <1>13 DEF ForceRefresh, At, Goto, session, store, callVars
<1>14. ASSUME NEW c \in Coroutines, RefreshLocked(c) PROVE CallInv'
  BY <1>14 DEF RefreshLocked, Carry, Locked, Lock, At, Goto, session, store, callVars
<1>15. ASSUME NEW c \in Coroutines, EndSession(c) PROVE CallInv'
  BY <1>15 DEF EndSession, Clear, Underway, Locked, Lock, At, Goto, session, store, callVars
<1>16. CASE TakePendingBack
  BY <1>16 DEF TakePendingBack, Locked, session, store, callVars
<1>17. CASE Expire
  BY <1>17 DEF Expire, session, store, callVars
<1>18. CASE Flush
  BY <1>18 DEF Flush, session, store, callVars
<1>19. CASE Restart
  BY <1>19 DEF Restart, Underway, session, store, callVars
<1> QED
  BY <1>0, <1>1, <1>2, <1>3, <1>4, <1>5, <1>6, <1>7, <1>8, <1>9,
     <1>10, <1>11, <1>12, <1>13, <1>14, <1>15, <1>16, <1>17, <1>18, <1>19
  DEF SessionNext, Begin, Step, SessionStep, Refresh

\* The inductive invariant: types and the mutex, what a pending sign-in, and
\* what a pending request may assume of the session.
THEOREM SessionSafe == SessionSpec => [](TypeOK /\ LoginInv /\ CallInv)
<1> QED
  BY TypeInit, TypeStep, LoginInit, LoginStep, CallInit, CallStep, PTL DEF SessionSpec

LEMMA OneLogin == TypeOK /\ CallInv => RetryStaysInSession
<1> SUFFICES ASSUME CallInv, NEW c \in Coroutines PROVE Cardinality(sent[c]) <= 1
  BY DEF RetryStaysInSession
<1>1. sent[c] = {} \/ sent[c] = {idToken[c]}
  BY DEF CallInv, CallOK
<1>2. Cardinality({}) = 0 /\ Cardinality({idToken[c]}) = 1
  BY FS_EmptySet, FS_Singleton
<1> QED
  BY <1>1, <1>2

\* The request that follows a 401 carries the login of the first one
\* (AuthorizedCall.kt:16-19).
THEOREM RetriesStayInTheirSession == SessionSpec => []RetryStaysInSession
BY SessionSafe, OneLogin, PTL

\* The action of CallsEndOnlyTheirSession.
EndsOwnSession(c) ==
    /\ sent[c] # {} /\ tokens # NULL /\ tokens' = NULL
    /\ pc[c] \in Running /\ pc'[c] = "ended"
    => tokens \in sent[c]

LEMMA OwnSession ==
    ASSUME TypeOK, CallInv, [SessionNext]_sessionVars, NEW d \in Coroutines
    PROVE  EndsOwnSession(d)
<1> USE SessionAssumption DEF TypeOK, Running, UnderMutex, Results, CallInv, CallOK,
        InCall, EndsOwnSession
<1>0. CASE UNCHANGED sessionVars
  BY <1>0 DEF sessionVars, session, store, callVars
<1>1. ASSUME NEW c \in Coroutines, BeginSignIn(c) \/ BeginSignOut(c) \/ BeginCall(c)
      PROVE  EndsOwnSession(d)
  BY <1>1 DEF BeginSignIn, BeginSignOut, BeginCall, At, Goto, session, store, callVars
<1>2. ASSUME NEW c \in Coroutines, RememberGeneration(c) PROVE EndsOwnSession(d)
  BY <1>2 DEF RememberGeneration, Locked, At, Goto, session, store, callVars
<1>3. ASSUME NEW c \in Coroutines, SignInAnswered(c) PROVE EndsOwnSession(d)
  BY <1>3 DEF SignInAnswered, At, Goto, session, store, callVars
<1>4. ASSUME NEW c \in Coroutines, InstallSignIn(c) PROVE EndsOwnSession(d)
  BY <1>4 DEF InstallSignIn, Overtaken, Locked, Lock, At, Goto, session, store, callVars
<1>5. ASSUME NEW c \in Coroutines, ApplySignIn(c) PROVE EndsOwnSession(d)
  BY <1>5 DEF ApplySignIn, Underway, Unlock, At, Goto, session, store, callVars
<1>6. ASSUME NEW c \in Coroutines, SignOut(c) PROVE EndsOwnSession(d)
  BY <1>6 DEF SignOut, Clear, Underway, Lock, At, Goto, session, store, callVars
<1>7. ASSUME NEW c \in Coroutines, ClearPending(c) PROVE EndsOwnSession(d)
  BY <1>7 DEF ClearPending, Unlock, At, Goto, session, store, callVars
<1>8. ASSUME NEW c \in Coroutines, CurrentToken(c) PROVE EndsOwnSession(d)
  BY <1>8 DEF CurrentToken, Carry, Locked, Lock, At, Goto, session, store, callVars
<1>9. ASSUME NEW c \in Coroutines, RefreshSucceeds(c) PROVE EndsOwnSession(d)
  BY <1>9 DEF RefreshSucceeds, Refreshing, Carry, Unlock, At, Goto, session, store, callVars
<1>10. ASSUME NEW c \in Coroutines, RefreshNotSaved(c) \/ RefreshFails(c)
      PROVE  EndsOwnSession(d)
  BY <1>10 DEF RefreshNotSaved, RefreshFails, Refreshing, Unlock, At, Goto, session, store, callVars
<1>11. ASSUME NEW c \in Coroutines, RefreshRefused(c) PROVE EndsOwnSession(d)
  BY <1>11 DEF RefreshRefused, Refreshing, Clear, Underway, At, Goto, session, store, callVars
<1>12. ASSUME NEW c \in Coroutines, Answered(c) \/ Unauthorized(c) \/ UnauthorizedAgain(c)
      PROVE  EndsOwnSession(d)
  BY <1>12 DEF Answered, Unauthorized, UnauthorizedAgain, At, Goto, session, store, callVars
<1>13. ASSUME NEW c \in Coroutines, ForceRefresh(c) PROVE EndsOwnSession(d)
  BY <1>13 DEF ForceRefresh, At, Goto, session, store, callVars
<1>14. ASSUME NEW c \in Coroutines, RefreshLocked(c) PROVE EndsOwnSession(d)
  BY <1>14 DEF RefreshLocked, Carry, Locked, Lock, At, Goto, session, store, callVars
<1>15. ASSUME NEW c \in Coroutines, EndSession(c) PROVE EndsOwnSession(d)
  BY <1>15 DEF EndSession, Clear, Underway, Locked, Lock, At, Goto, session, store, callVars
<1>16. CASE TakePendingBack
  BY <1>16 DEF TakePendingBack, Locked, session, store, callVars
<1>17. CASE Expire
  BY <1>17 DEF Expire, session, store, callVars
<1>18. CASE Flush
  BY <1>18 DEF Flush, session, store, callVars
<1>19. CASE Restart
  BY <1>19 DEF Restart, Underway, session, store, callVars
<1> QED
  BY <1>0, <1>1, <1>2, <1>3, <1>4, <1>5, <1>6, <1>7, <1>8, <1>9,
     <1>10, <1>11, <1>12, <1>13, <1>14, <1>15, <1>16, <1>17, <1>18, <1>19
  DEF SessionNext, Begin, Step, SessionStep, Refresh

\* A late 401 or a refused refresh ends the session of the request, and no
\* other (AccountSession.kt:112-123).
THEOREM OthersSessionsLast == SessionSpec => CallsEndOnlyTheirSession
<1>1. TypeOK /\ CallInv /\ [SessionNext]_sessionVars =>
        [\A c \in Coroutines : EndsOwnSession(c)]_sessionVars
  BY OwnSession
<1> QED
  BY SessionSafe, <1>1, PTL DEF SessionSpec, CallsEndOnlyTheirSession, EndsOwnSession

\* The action of NoSilentAnonymity.
AnonymousByChoice(c) ==
    pc[c] # "request" /\ pc'[c] = "request" /\ idToken'[c] = NULL => tokens = NULL

LEMMA KnownAnonymity ==
    ASSUME TypeOK, CallInv, [SessionNext]_sessionVars, NEW d \in Coroutines
    PROVE  AnonymousByChoice(d)
<1> USE SessionAssumption DEF TypeOK, Running, UnderMutex, Results, CallInv, CallOK,
        InCall, AnonymousByChoice
<1>0. CASE UNCHANGED sessionVars
  BY <1>0 DEF sessionVars, session, store, callVars
<1>1. ASSUME NEW c \in Coroutines, BeginSignIn(c) \/ BeginSignOut(c) \/ BeginCall(c)
      PROVE  AnonymousByChoice(d)
  BY <1>1 DEF BeginSignIn, BeginSignOut, BeginCall, At, Goto, session, store, callVars
<1>2. ASSUME NEW c \in Coroutines, RememberGeneration(c) PROVE AnonymousByChoice(d)
  BY <1>2 DEF RememberGeneration, Locked, At, Goto, session, store, callVars
<1>3. ASSUME NEW c \in Coroutines, SignInAnswered(c) PROVE AnonymousByChoice(d)
  BY <1>3 DEF SignInAnswered, At, Goto, session, store, callVars
<1>4. ASSUME NEW c \in Coroutines, InstallSignIn(c) PROVE AnonymousByChoice(d)
  BY <1>4 DEF InstallSignIn, Overtaken, Locked, Lock, At, Goto, session, store, callVars
<1>5. ASSUME NEW c \in Coroutines, ApplySignIn(c) PROVE AnonymousByChoice(d)
  BY <1>5 DEF ApplySignIn, Underway, Unlock, At, Goto, session, store, callVars
<1>6. ASSUME NEW c \in Coroutines, SignOut(c) PROVE AnonymousByChoice(d)
  BY <1>6 DEF SignOut, Clear, Underway, Lock, At, Goto, session, store, callVars
<1>7. ASSUME NEW c \in Coroutines, ClearPending(c) PROVE AnonymousByChoice(d)
  BY <1>7 DEF ClearPending, Unlock, At, Goto, session, store, callVars
<1>8. ASSUME NEW c \in Coroutines, CurrentToken(c) PROVE AnonymousByChoice(d)
  BY <1>8 DEF CurrentToken, Carry, Locked, Lock, At, Goto, session, store, callVars
<1>9. ASSUME NEW c \in Coroutines, RefreshSucceeds(c) PROVE AnonymousByChoice(d)
  BY <1>9 DEF RefreshSucceeds, Refreshing, Carry, Unlock, At, Goto, session, store, callVars
<1>10. ASSUME NEW c \in Coroutines, RefreshNotSaved(c) \/ RefreshFails(c)
      PROVE  AnonymousByChoice(d)
  BY <1>10 DEF RefreshNotSaved, RefreshFails, Refreshing, Unlock, At, Goto, session, store, callVars
<1>11. ASSUME NEW c \in Coroutines, RefreshRefused(c) PROVE AnonymousByChoice(d)
  BY <1>11 DEF RefreshRefused, Refreshing, Clear, Underway, At, Goto, session, store, callVars
<1>12. ASSUME NEW c \in Coroutines, Answered(c) \/ Unauthorized(c) \/ UnauthorizedAgain(c)
      PROVE  AnonymousByChoice(d)
  BY <1>12 DEF Answered, Unauthorized, UnauthorizedAgain, At, Goto, session, store, callVars
<1>13. ASSUME NEW c \in Coroutines, ForceRefresh(c) PROVE AnonymousByChoice(d)
  BY <1>13 DEF ForceRefresh, At, Goto, session, store, callVars
<1>14. ASSUME NEW c \in Coroutines, RefreshLocked(c) PROVE AnonymousByChoice(d)
  BY <1>14 DEF RefreshLocked, Carry, Locked, Lock, At, Goto, session, store, callVars
<1>15. ASSUME NEW c \in Coroutines, EndSession(c) PROVE AnonymousByChoice(d)
  BY <1>15 DEF EndSession, Clear, Underway, Locked, Lock, At, Goto, session, store, callVars
<1>16. CASE TakePendingBack
  BY <1>16 DEF TakePendingBack, Locked, session, store, callVars
<1>17. CASE Expire
  BY <1>17 DEF Expire, session, store, callVars
<1>18. CASE Flush
  BY <1>18 DEF Flush, session, store, callVars
<1>19. CASE Restart
  BY <1>19 DEF Restart, Underway, session, store, callVars
<1> QED
  BY <1>0, <1>1, <1>2, <1>3, <1>4, <1>5, <1>6, <1>7, <1>8, <1>9,
     <1>10, <1>11, <1>12, <1>13, <1>14, <1>15, <1>16, <1>17, <1>18, <1>19
  DEF SessionNext, Begin, Step, SessionStep, Refresh

\* A request without a token is sent only if nobody was signed in when it
\* asked for one (AccountSession.kt:146-153).
THEOREM AnonymityIsChosen == SessionSpec => NoSilentAnonymity
<1>1. TypeOK /\ CallInv /\ [SessionNext]_sessionVars =>
        [\A c \in Coroutines : AnonymousByChoice(c)]_sessionVars
  BY KnownAnonymity
<1> QED
  BY SessionSafe, <1>1, PTL DEF SessionSpec, NoSilentAnonymity, AnonymousByChoice

-----------------------------------------------------------------------------
(* The client: AndroidClient.                                               *)
\* Steps of AndroidClient that do not touch the session.
LEMMA QuietSteps ==
    ASSUME NEW c \in Coroutines,
           \/ Start(c) \/ EnsureLinked(c) \/ StartLinking(c) \/ TakeGate(c)
           \/ Rotate(c) \/ LinkCallEnds(c) \/ EnterGate(c) \/ SendAnswers(c) \/ LeaveGate(c)
           \/ ApplyCheck(c) \/ ApplyAnswered(c) \/ ServerStep(c)
    PROVE  UNCHANGED sessionVars
BY DEF Start, EnsureLinked, StartLinking, TakeGate, Rotate, LinkCallEnds, EnterGate,
       SendAnswers, LeaveGate, ApplyCheck, ApplyAnswered, ServerStep, ServerRejects,
       ServerLinks, ServerResolves, ServerRecords

\* Steps that begin a call or end its request.
LEMMA CallSteps ==
    ASSUME NEW c \in Coroutines,
           \/ WaitForSubmissions(c) \/ SubmitIdentity(c) \/ SendLink(c)
           \/ Receive(c) \/ ReceiveUnauthorized(c) \/ GiveUp(c)
    PROVE  Begin(c) \/ Step(c) \/ UNCHANGED sessionVars
<1>1. CASE WaitForSubmissions(c) \/ SubmitIdentity(c)
  BY <1>1 DEF WaitForSubmissions, SubmitIdentity, Begin
<1>2. CASE SendLink(c)
  BY <1>2 DEF SendLink, Step, Answered
<1>3. CASE Receive(c) \/ GiveUp(c)
  BY <1>3 DEF Receive, GiveUp, Step, Answered
<1>4. CASE ReceiveUnauthorized(c)
  BY <1>4 DEF ReceiveUnauthorized, Step
<1> QED
  BY <1>1, <1>2, <1>3, <1>4

LEMMA LinkResultStep ==
    ASSUME NEW c \in Coroutines, LinkResult(c)
    PROVE  TakePendingBack \/ UNCHANGED sessionVars
<1>1. CASE SameSession(c) /\ At(c, "done")
  BY <1>1 DEF LinkResult, TakePendingBack
<1>2. CASE ~ (SameSession(c) /\ At(c, "done"))
  BY <1>2 DEF LinkResult, Locked, sessionVars, session, store, callVars
<1> QED
  BY <1>1, <1>2

LEMMA ClientStep == [Next]_vars => [SessionNext]_sessionVars
<1> SUFFICES ASSUME [Next]_vars PROVE [SessionNext]_sessionVars
  OBVIOUS
<1>0. CASE UNCHANGED vars
  BY <1>0 DEF vars
<1>1. ASSUME NEW c \in Coroutines, StartSession(c) PROVE SessionNext
  BY <1>1 DEF StartSession, SessionNext, Begin
<1>2. ASSUME NEW c \in Coroutines, SessionStep(c) PROVE SessionNext
  BY <1>2 DEF SessionNext, Step
<1>3. ASSUME NEW c \in Coroutines, Start(c) \/ RepositoryStep(c) \/ ServerStep(c)
      PROVE  [SessionNext]_sessionVars
  BY <1>3, QuietSteps, CallSteps, LinkResultStep DEF RepositoryStep, SessionNext
<1>4. CASE (Expire \/ Flush) /\ UNCHANGED clientVars
  BY <1>4 DEF SessionNext
<1>5. CASE ClientRestart
  BY <1>5 DEF ClientRestart, SessionNext
<1> QED
  BY <1>0, <1>1, <1>2, <1>3, <1>4, <1>5 DEF Next, CoroutineStep

\* Every behaviour of the client is a behaviour of AccountSession.
THEOREM ClientUsesSession == Spec => SessionSpec
<1>1. Init => SessionInit
  BY DEF Init
<1> QED
  BY <1>1, ClientStep, PTL DEF Spec, SessionSpec

\* In the whole client, with links, submissions, transfers and lost answers, no
\* signed-out or overtaken login comes back, retries stay in their session and
\* late 401s end no other session.
THEOREM ClientSessionSafe ==
    Spec => [](NoResurrection /\ RetryStaysInSession) /\ CallsEndOnlyTheirSession
BY ClientUsesSession, NoLoginComesBack, RetriesStayInTheirSession, OthersSessionsLast, PTL

-----------------------------------------------------------------------------
(* Types, and what the request of a coroutine carries.                     *)

SigningIn == {"signIn", "signInCall", "install", "applySignIn"}

\* A login that is used anywhere is of somebody, and has begun.
Known(l) == account[l] \in Accounts /\ pc[l] # "idle"

LoginsKnown ==
    /\ \A l \in {tokens, saved, disk.tokens} \ {NULL} : Known(l)
    /\ \A c \in Coroutines :
        /\ idToken[c] # NULL => Known(idToken[c])
        /\ pc[c] \in SigningIn => account[c] \in Accounts

LEMMA LoginsInit == SessionInit => LoginsKnown
BY DEF SessionInit, LoginsKnown, SigningIn

LEMMA LoginsStep ==
    ASSUME TypeOK, LoginsKnown, [SessionNext]_sessionVars
    PROVE  LoginsKnown'
<1> USE SessionAssumption DEF TypeOK, Running, UnderMutex, Results, LoginsKnown, Known, SigningIn
<1>0. CASE UNCHANGED sessionVars
  BY <1>0 DEF sessionVars, session, store, callVars
<1>1. ASSUME NEW c \in Coroutines, Begin(c) PROVE LoginsKnown'
  BY <1>1 DEF Begin, BeginSignIn, BeginSignOut, BeginCall, At, Goto, session, store, callVars
<1>2. ASSUME NEW c \in Coroutines, RememberGeneration(c) \/ SignInAnswered(c) \/ InstallSignIn(c)
      PROVE  LoginsKnown'
  BY <1>2 DEF RememberGeneration, SignInAnswered, InstallSignIn, Overtaken, Locked, Lock,
              At, Goto, session, store, callVars
<1>3. ASSUME NEW c \in Coroutines, ApplySignIn(c) PROVE LoginsKnown'
  BY <1>3 DEF ApplySignIn, Unlock, At, Goto, callVars
<1>4. ASSUME NEW c \in Coroutines, SignOut(c) \/ ClearPending(c) \/ EndSession(c)
      PROVE  LoginsKnown'
  BY <1>4 DEF SignOut, ClearPending, EndSession, Clear, Lock, Locked, Unlock, At, Goto,
              session, store, callVars
<1>5. ASSUME NEW c \in Coroutines, CurrentToken(c) PROVE LoginsKnown'
  BY <1>5 DEF CurrentToken, Carry, Lock, Locked, At, Goto, session, store
<1>6. ASSUME NEW c \in Coroutines, RefreshSucceeds(c) PROVE LoginsKnown'
  BY <1>6 DEF RefreshSucceeds, Refreshing, Carry, Unlock, At, Goto
<1>7. ASSUME NEW c \in Coroutines, RefreshNotSaved(c) \/ RefreshRefused(c) \/ RefreshFails(c)
      PROVE  LoginsKnown'
  BY <1>7 DEF RefreshNotSaved, RefreshRefused, RefreshFails, Refreshing, Clear, Unlock, At, Goto,
              session, store, callVars
<1>8. ASSUME NEW c \in Coroutines, ForceRefresh(c) PROVE LoginsKnown'
  BY <1>8 DEF ForceRefresh, At, Goto, session, store
<1>9. ASSUME NEW c \in Coroutines, RefreshLocked(c) PROVE LoginsKnown'
  BY <1>9 DEF RefreshLocked, Carry, Lock, Locked, At, Goto, session, store
<1>10. ASSUME NEW c \in Coroutines, Answered(c) \/ Unauthorized(c) \/ UnauthorizedAgain(c)
       PROVE  LoginsKnown'
  BY <1>10 DEF Answered, Unauthorized, UnauthorizedAgain, At, Goto, session, store, callVars
<1>11. CASE TakePendingBack \/ Expire \/ Flush
  BY <1>11 DEF TakePendingBack, Expire, Flush, Locked, session, store, callVars
<1>12. CASE Restart
  BY <1>12 DEF Restart, callVars
<1> QED
  BY <1>0, <1>1, <1>2, <1>3, <1>4, <1>5, <1>6, <1>7, <1>8, <1>9, <1>10, <1>11, <1>12
     DEF SessionNext, Step, SessionStep, Refresh

-----------------------------------------------------------------------------
(* A request on its way: its coroutine waits, has given up or was killed.   *)

Waiting == {"request", "retry", "failed", "killed"}

RequestOK(c) ==
    /\ step[c] \in LinkSteps => op[c] = "link"
    /\ step[c] \in SubmitSteps => op[c] = "submit"
    /\ step[c] = "submitCall" => device[c] \in Idents
    /\ net[c] \in {"sent", "resolved"} =>
        /\ pc[c] \in Waiting
        /\ device[c] \in Idents
        /\ op[c] \in {"link", "submit"}
        /\ op[c] = "link" => net[c] = "sent" /\ idToken[c] # NULL

\* Canonical rows are linked, and linked accounts have one.
LinksOK ==
    /\ \A a \in Accounts : primary[a] # NULL => linkedTo[primary[a]] = a
    /\ \A d \in Idents : linkedTo[d] # NULL => primary[linkedTo[d]] # NULL

TypeInv ==
    /\ ClientTypeOK
    /\ LoginsKnown
    /\ LinksOK
    /\ \A c \in Coroutines : RequestOK(c)

\* Answers of Cognito and of the session do not move a request on its way.
LEMMA WaitingStays ==
    ASSUME TypeOK, NEW q \in Coroutines, pc[q] \in Waiting,
           \/ \E c \in Coroutines : SessionStep(c) \/ StartSession(c)
           \/ TakePendingBack \/ Expire \/ Flush
    PROVE  pc'[q] = pc[q] /\ idToken'[q] = idToken[q]
<1> USE SessionAssumption DEF TypeOK, Waiting, At, Goto, session, store, callVars
<1>1. ASSUME NEW c \in Coroutines, SessionStep(c)
      PROVE  pc'[q] = pc[q] /\ idToken'[q] = idToken[q]
  <2>1. CASE RememberGeneration(c) \/ SignInAnswered(c) \/ InstallSignIn(c) \/ ApplySignIn(c)
    BY <2>1 DEF RememberGeneration, SignInAnswered, InstallSignIn, ApplySignIn
  <2>2. CASE SignOut(c) \/ ClearPending(c) \/ EndSession(c)
    BY <2>2 DEF SignOut, ClearPending, EndSession
  <2>3. CASE CurrentToken(c) \/ ForceRefresh(c) \/ RefreshLocked(c)
    BY <2>3 DEF CurrentToken, ForceRefresh, RefreshLocked, Carry
  <2>4. CASE Refresh(c)
    BY <2>4 DEF Refresh, RefreshSucceeds, RefreshNotSaved, RefreshRefused, RefreshFails,
                Refreshing, Carry
  <2> QED
    BY <1>1, <2>1, <2>2, <2>3, <2>4 DEF SessionStep
<1>2. ASSUME NEW c \in Coroutines, StartSession(c)
      PROVE  pc'[q] = pc[q] /\ idToken'[q] = idToken[q]
  BY <1>2 DEF StartSession, BeginSignIn, BeginSignOut
<1>3. CASE TakePendingBack \/ Expire \/ Flush
  BY <1>3 DEF TakePendingBack, Expire, Flush
<1> QED
  BY <1>1, <1>2, <1>3

LEMMA ClientTypeInit == Init => TypeInv
<1> SUFFICES ASSUME Init PROVE TypeInv
  OBVIOUS
<1>1. TypeOK /\ LoginsKnown
  BY TypeInit, LoginsInit DEF Init
<1>2. ClientTypeOK
  BY <1>1 DEF Init, ClientTypeOK
<1>3. LinksOK
  BY ClientAssumption, SessionAssumption DEF Init, LinksOK
<1>4. \A c \in Coroutines : RequestOK(c)
  BY DEF Init, RequestOK, LinkSteps, SubmitSteps
<1> QED
  BY <1>1, <1>2, <1>3, <1>4 DEF TypeInv

\* Steps of the session, of time and of the disk.
LEMMA TypeSession ==
    ASSUME TypeInv, [SessionNext]_sessionVars, UNCHANGED clientVars,
           \/ \E c \in Coroutines : SessionStep(c) \/ StartSession(c)
           \/ Expire \/ Flush
    PROVE  TypeInv'
<1>1. TypeOK' /\ LoginsKnown'
  BY TypeStep, LoginsStep DEF TypeInv, ClientTypeOK
<1>2. ClientTypeOK' /\ LinksOK'
  BY <1>1 DEF TypeInv, ClientTypeOK, LinksOK, clientVars, deviceVars, locksVars, requestVars,
              serverVars
<1>3. ASSUME NEW q \in Coroutines PROVE RequestOK(q)'
  <2>1. pc[q] \in Waiting => pc'[q] = pc[q] /\ idToken'[q] = idToken[q]
    BY WaitingStays DEF TypeInv, ClientTypeOK
  <2> QED
    BY <2>1 DEF TypeInv, RequestOK, clientVars, deviceVars, requestVars, serverVars
<1> QED
  BY <1>1, <1>2, <1>3 DEF TypeInv

\* Steps of the repositories that leave the session alone.
LEMMA TypeQuiet ==
    ASSUME TypeInv, NEW c \in Coroutines, [SessionNext]_sessionVars,
           \/ Start(c) \/ EnsureLinked(c) \/ StartLinking(c) \/ TakeGate(c)
           \/ Rotate(c) \/ LinkCallEnds(c) \/ ApplyCheck(c) \/ ApplyAnswered(c)
           \/ EnterGate(c) \/ SendAnswers(c)
    PROVE  TypeInv'
<1>1. TypeOK' /\ LoginsKnown'
  BY TypeStep, LoginsStep DEF TypeInv, ClientTypeOK
<1>2. UNCHANGED sessionVars
  BY QuietSteps
<1> USE <1>1, <1>2, ClientAssumption, SessionAssumption
    DEF TypeInv, ClientTypeOK, RequestOK, LinksOK, AllOperations, LinkSteps, SubmitSteps, ApplySteps,
        GoOn, IdentityId, deviceVars, locksVars, requestVars, serverVars, At,
        sessionVars, callVars, session, store, TypeOK
<1>3. CASE Start(c)
  <2>1. pc[c] \notin Waiting /\ net[c] \notin {"sent", "resolved"}
    BY <1>3 DEF Start, Waiting
  <2>2. PICK o \in {"submit", "link", "apply"} :
          op' = [op EXCEPT ![c] = o] /\ step' = [step EXCEPT ![c] = o]
    BY <1>3 DEF Start
  <2>3. ASSUME NEW q \in Coroutines PROVE RequestOK(q)'
    BY <1>3, <2>1, <2>2 DEF Start
  <2>4. ClientTypeOK'
    BY <1>3, <2>2 DEF Start
  <2> QED
    BY <1>3, <2>3, <2>4 DEF Start
<1>4. CASE EnsureLinked(c)
  BY <1>4 DEF EnsureLinked
<1>5. CASE StartLinking(c)
  BY <1>5 DEF StartLinking
<1>6. CASE TakeGate(c)
  BY <1>6 DEF TakeGate
<1>7. CASE Rotate(c)
  BY <1>7 DEF Rotate
<1>8. CASE LinkCallEnds(c)
  BY <1>8 DEF LinkCallEnds
<1>9. CASE ApplyCheck(c)
  BY <1>9 DEF ApplyCheck
<1>10. CASE ApplyAnswered(c)
  BY <1>10 DEF ApplyAnswered
<1>11. CASE EnterGate(c)
  BY <1>11 DEF EnterGate
<1>12. CASE SendAnswers(c)
  BY <1>12 DEF SendAnswers, Waiting
<1> QED
  BY <1>3, <1>4, <1>5, <1>6, <1>7, <1>8, <1>9, <1>10, <1>11, <1>12

\* Steps of the repositories that begin or end a call, and LeaveGate.
LEMMA TypeCalls ==
    ASSUME TypeInv, NEW c \in Coroutines, [SessionNext]_sessionVars, active \in Nat \ {0} \/ ~ LeaveGate(c),
           \/ WaitForSubmissions(c) \/ SubmitIdentity(c) \/ SendLink(c) \/ LinkResult(c)
           \/ LeaveGate(c) \/ Receive(c) \/ ReceiveUnauthorized(c) \/ GiveUp(c)
    PROVE  TypeInv'
<1>1. TypeOK' /\ LoginsKnown'
  BY TypeStep, LoginsStep DEF TypeInv, ClientTypeOK
<1> USE <1>1, ClientAssumption, SessionAssumption
    DEF TypeInv, ClientTypeOK, RequestOK, LinksOK, AllOperations, LinkSteps, SubmitSteps, ApplySteps,
        GoOn, IdentityId, deviceVars, locksVars, requestVars, serverVars, clientVars, At, Goto,
        sessionVars, callVars, session, store, TypeOK, Waiting, Running, Results, UnderMutex
<1>2. CASE WaitForSubmissions(c)
  BY <1>2 DEF WaitForSubmissions, BeginCall
<1>3. CASE SubmitIdentity(c)
  BY <1>3 DEF SubmitIdentity, BeginCall
<1>4. CASE SendLink(c)
  BY <1>4 DEF SendLink
<1>5. CASE LinkResult(c)
  <2>1. linkState' \in {"Idle", "Linking", "Failed"}
    BY <1>5 DEF LinkResult
  <2>2. step' = [step EXCEPT ![c] = "end"] /\ repoLock' = NULL
    BY <1>5 DEF LinkResult
  <2>3. UNCHANGED <<pc, account, idToken, op, deviceVars, gateLock, active, linkStart, requestVars,
                    serverVars>>
    BY <1>5 DEF LinkResult
  <2> QED
    BY <2>1, <2>2, <2>3
<1>6. CASE LeaveGate(c)
  BY <1>6 DEF LeaveGate
<1>7. CASE Receive(c)
  BY <1>7 DEF Receive
<1>8. CASE ReceiveUnauthorized(c)
  BY <1>8 DEF ReceiveUnauthorized, Unauthorized, UnauthorizedAgain
<1>9. CASE GiveUp(c)
  BY <1>9 DEF GiveUp
<1> QED
  BY <1>2, <1>3, <1>4, <1>5, <1>6, <1>7, <1>8, <1>9

\* Steps of the server.
LEMMA TypeServer ==
    ASSUME TypeInv, NEW c \in Coroutines, ServerStep(c)
    PROVE  TypeInv'
<1>1. UNCHANGED sessionVars
  BY QuietSteps
<1> USE <1>1, ClientAssumption, SessionAssumption
    DEF TypeInv, ClientTypeOK, RequestOK, LinksOK, LoginsKnown, Known, LinkSteps, SubmitSteps,
        Answer, AccountOf, deviceVars, locksVars, requestVars, serverVars,
        sessionVars, callVars, session, store, TypeOK
<1>2. CASE ServerRejects(c)
  BY <1>2 DEF ServerRejects
<1>3. CASE ServerLinks(c)
  BY <1>3 DEF ServerLinks
<1>4. CASE ServerResolves(c)
  BY <1>4 DEF ServerResolves
<1>5. CASE ServerRecords(c)
  BY <1>5 DEF ServerRecords
<1> QED
  BY <1>2, <1>3, <1>4, <1>5 DEF ServerStep

LEMMA TypeRestart ==
    ASSUME TypeInv, [SessionNext]_sessionVars, ClientRestart
    PROVE  TypeInv'
<1>1. TypeOK' /\ LoginsKnown'
  BY TypeStep, LoginsStep DEF TypeInv, ClientTypeOK
<1> QED
  BY <1>1 DEF TypeInv, ClientTypeOK, RequestOK, LinksOK, ClientRestart, Restart, Waiting, Running,
      UnderMutex, LinkSteps, SubmitSteps, deviceVars, requestVars, serverVars, callVars, TypeOK

LEMMA TypeHolds ==
    ASSUME TypeInv, [Next]_vars, \A c \in Coroutines : LeaveGate(c) => active # 0
    PROVE  TypeInv'
<1>1. [SessionNext]_sessionVars
  BY ClientStep
<1>2. CASE UNCHANGED vars
  BY <1>2 DEF vars, sessionVars, session, store, callVars, clientVars, deviceVars, locksVars,
      requestVars, serverVars, TypeInv, TypeOK, ClientTypeOK, LoginsKnown, Known, LinksOK, RequestOK
<1>3. ASSUME NEW c \in Coroutines, Start(c) \/ RepositoryStep(c) PROVE TypeInv'
  BY <1>1, <1>3, TypeQuiet, TypeCalls DEF RepositoryStep, TypeInv, ClientTypeOK
<1>4. ASSUME NEW c \in Coroutines, StartSession(c) \/ (SessionStep(c) /\ UNCHANGED clientVars)
      PROVE  TypeInv'
  BY <1>1, <1>4, TypeSession DEF StartSession
<1>5. CASE (Expire \/ Flush) /\ UNCHANGED clientVars
  BY <1>1, <1>5, TypeSession
<1> QED
  BY <1>1, <1>2, <1>3, <1>4, <1>5, TypeServer, TypeRestart DEF Next, CoroutineStep

-----------------------------------------------------------------------------
(* The submission gate.                                                    *)

\* Submissions past the gate, the steps with the gate's mutex, and those that begin
\* after the submissions have ended.
Submitting == {c \in Coroutines : step[c] \in {"submitIdentity", "submitCall"}}
Inside == {"linkCall", "applyCheck", "applyCall"}
AtGate == Inside \union {"linkWait", "applyWait"}

\* The gate counts the submissions, one coroutine has its mutex, and none submits
\* while it links or adopts an identity.
GateInv ==
    /\ IsFiniteSet(Submitting)
    /\ active = Cardinality(Submitting)
    /\ \A c \in Coroutines : gateLock = c <=> step[c] \in AtGate
    /\ \A c \in Coroutines : step[c] \in Inside => Submitting = {}

LEMMA GateInit == Init => GateInv
<1> SUFFICES ASSUME Init PROVE GateInv
  OBVIOUS
<1>1. Submitting = {}
  BY DEF Init, Submitting
<1>2. active = 0 /\ gateLock = NULL /\ \A c \in Coroutines : step[c] = "none"
  BY DEF Init
<1> QED
  BY <1>1, <1>2, FS_EmptySet, SessionAssumption DEF GateInv, Inside, AtGate

\* Steps of c by which nobody passes the gate.
LEMMA GateQuiet ==
    ASSUME ClientTypeOK, GateInv, NEW c \in Coroutines, NEW s,
           step' = [step EXCEPT ![c] = s], UNCHANGED <<active, gateLock>>,
           s \notin {"submitIdentity", "submitCall"} \union AtGate,
           step[c] \notin {"submitIdentity", "submitCall"} \union AtGate
    PROVE  GateInv'
<1>1. Submitting' = Submitting
  BY DEF Submitting, ClientTypeOK
<1> QED
  BY <1>1 DEF GateInv, ClientTypeOK, Inside, AtGate

LEMMA GateStep ==
    ASSUME ClientTypeOK, GateInv, [Next]_vars
    PROVE  GateInv'
<1> USE SessionAssumption
<1>0. CASE UNCHANGED <<step, active, gateLock>>
  BY <1>0 DEF GateInv, Submitting
<1>1. ASSUME NEW c \in Coroutines,
             \/ Start(c) \/ EnsureLinked(c) \/ StartLinking(c) \/ LinkResult(c)
      PROVE  GateInv'
  <2> USE GateQuiet DEF GoOn, AtGate, Inside, locksVars
  <2>1. CASE Start(c)
    <3>1. PICK s \in {"submit", "link", "apply"} : step' = [step EXCEPT ![c] = s]
      BY <2>1, ClientAssumption DEF Start, AllOperations
    <3> QED
      BY <2>1, <3>1 DEF Start
  <2>2. CASE EnsureLinked(c)
    <3>1. PICK s \in {"linkGeneration", "end"} : step' = [step EXCEPT ![c] = s]
      BY <2>2 DEF EnsureLinked
    <3> QED
      BY <2>2, <3>1 DEF EnsureLinked
  <2>3. CASE StartLinking(c)
    BY <2>3 DEF StartLinking
  <2>4. CASE LinkResult(c)
    BY <2>4 DEF LinkResult
  <2> QED
    BY <1>1, <2>1, <2>2, <2>3, <2>4
<1>2. ASSUME NEW c \in Coroutines,
             \/ TakeGate(c) \/ LinkCallEnds(c) \/ ApplyCheck(c) \/ ApplyAnswered(c)
      PROVE  GateInv'
  <2>1. PICK s : step' = [step EXCEPT ![c] = s] /\ UNCHANGED active
    BY <1>2 DEF TakeGate, LinkCallEnds, ApplyCheck, ApplyAnswered, GoOn
  <2>2. /\ step[c] \notin {"submitIdentity", "submitCall"}
        /\ step'[c] \notin {"submitIdentity", "submitCall"}
        /\ step'[c] \in Inside => step[c] \in Inside
        /\ step'[c] \in AtGate => gateLock' = c
        /\ step'[c] \notin AtGate => gateLock' = NULL
        /\ gateLock \in {NULL, c}
    BY <1>2 DEF TakeGate, LinkCallEnds, ApplyCheck, ApplyAnswered, GoOn, Inside, AtGate,
                GateInv, ClientTypeOK
  <2>3. Submitting' = Submitting
    BY <2>1, <2>2 DEF Submitting, ClientTypeOK
  <2> QED
    BY <2>1, <2>2, <2>3 DEF GateInv, ClientTypeOK
<1>3. ASSUME NEW c \in Coroutines, WaitForSubmissions(c) PROVE GateInv'
  <2>1. Submitting = {} /\ Submitting' = Submitting
    BY <1>3, FS_EmptySet DEF WaitForSubmissions, AllSubmitted, GoOn, GateInv, Submitting, ClientTypeOK
  <2> QED
    BY <1>3, <2>1 DEF WaitForSubmissions, GoOn, GateInv, ClientTypeOK, Inside, AtGate, locksVars
<1>4. ASSUME NEW c \in Coroutines, EnterGate(c) PROVE GateInv'
  <2>1. Submitting' = Submitting \union {c} /\ c \notin Submitting
    BY <1>4 DEF EnterGate, GoOn, Submitting, ClientTypeOK
  <2>2. IsFiniteSet(Submitting') /\ Cardinality(Submitting') = Cardinality(Submitting) + 1
    BY <2>1, FS_AddElement DEF GateInv
  <2> QED
    BY <1>4, <2>2 DEF EnterGate, GoOn, GateInv, ClientTypeOK, Inside, AtGate
<1>5. ASSUME NEW c \in Coroutines, SubmitIdentity(c) PROVE GateInv'
  <2>1. Submitting' = Submitting
    BY <1>5 DEF SubmitIdentity, GoOn, Submitting, ClientTypeOK
  <2> QED
    BY <1>5, <2>1 DEF SubmitIdentity, GoOn, GateInv, ClientTypeOK, Inside, AtGate, locksVars
<1>6. ASSUME NEW c \in Coroutines, LeaveGate(c) PROVE GateInv'
  <2>1. Submitting' = Submitting \ {c} /\ c \in Submitting
    BY <1>6 DEF LeaveGate, GoOn, Submitting, ClientTypeOK
  <2>2. IsFiniteSet(Submitting') /\ Cardinality(Submitting') = Cardinality(Submitting) - 1
    BY <2>1, FS_RemoveElement DEF GateInv
  <2> QED
    BY <1>6, <2>1, <2>2 DEF LeaveGate, GoOn, GateInv, ClientTypeOK, Inside, AtGate
<1>7. ASSUME NEW c \in Coroutines,
             \/ SendLink(c) \/ Rotate(c) \/ SendAnswers(c) \/ Receive(c) \/ ReceiveUnauthorized(c)
             \/ GiveUp(c) \/ ServerStep(c)
      PROVE  UNCHANGED <<step, active, gateLock>>
  BY <1>7 DEF SendLink, Rotate, SendAnswers, Receive, ReceiveUnauthorized, GiveUp, ServerStep,
      ServerRejects, ServerLinks, ServerResolves, ServerRecords, locksVars, clientVars
<1>8. CASE ClientRestart
  <2>1. Submitting' = {} /\ \A c \in Coroutines : step'[c] \in {"none", "end"}
    BY <1>8 DEF ClientRestart, Submitting
  <2> QED
    BY <1>8, <2>1, FS_EmptySet DEF ClientRestart, GateInv, AtGate, Inside
<1> QED
  BY <1>0, <1>1, <1>2, <1>3, <1>4, <1>5, <1>6, <1>7, <1>8
     DEF Next, CoroutineStep, RepositoryStep, StartSession, vars, clientVars, locksVars

\* Whoever leaves the gate is among those it counts.
LEMMA LeavingIsCounted ==
    ASSUME GateInv
    PROVE  \A c \in Coroutines : LeaveGate(c) => active # 0
BY FS_EmptySet DEF GateInv, Submitting, LeaveGate

\* The types of the client and what its gate counts, for any number of coroutines.
LEMMA ClientInvariants == Spec => [](TypeInv /\ GateInv)
<1>1. TypeInv /\ GateInv /\ [Next]_vars => TypeInv' /\ GateInv'
  BY TypeHolds, GateStep, LeavingIsCounted DEF TypeInv
<1> QED
  BY ClientTypeInit, GateInit, <1>1, PTL DEF Spec

\* ClientTypeOK: every field of the repositories and every row of the server has its
\* type, though a submission is resolved through the account another device was linked to.
THEOREM ClientTypeCorrect == Spec => []ClientTypeOK
<1>1. TypeInv => ClientTypeOK
  BY DEF TypeInv
<1> QED
  BY ClientInvariants, <1>1, PTL

-----------------------------------------------------------------------------
(* Answers, as long as no call is given up while the server works on it and *)
(* no process dies.                                                        *)

NothingAbandoned == Faults \subseteq {"offline"}

\* What the server works on is still waited for.
AwaitedInv ==
    \A c \in Coroutines :
        net[c] \in {"sent", "resolved"} =>
            pc[c] \in {"request", "retry"} /\ step[c] \in {"linkCall", "submitCall"}

LEMMA AwaitedStep ==
    ASSUME NothingAbandoned, TypeInv, AwaitedInv, [Next]_vars
    PROVE  AwaitedInv'
<1> USE DEF TypeInv, ClientTypeOK, AwaitedInv
<1>0. CASE UNCHANGED <<pc, net, step>>
  BY <1>0
<1>1. ASSUME UNCHANGED clientVars,
             \/ \E c \in Coroutines : SessionStep(c) \/ StartSession(c)
             \/ Expire \/ Flush
      PROVE  AwaitedInv'
  BY <1>1, WaitingStays DEF Waiting, clientVars, requestVars
<1> USE DEF At, Goto, GoOn, TypeOK, locksVars, requestVars, serverVars,
            sessionVars, session, store, callVars
<1>2. ASSUME NEW c \in Coroutines,
             \/ Start(c) \/ EnsureLinked(c) \/ StartLinking(c) \/ TakeGate(c)
             \/ WaitForSubmissions(c) \/ LinkResult(c) \/ EnterGate(c) \/ SubmitIdentity(c)
             \/ ApplyCheck(c) \/ ApplyAnswered(c)
      PROVE  AwaitedInv'
  <2>1. step[c] \notin {"linkCall", "submitCall"}
    BY <1>2 DEF Start, EnsureLinked, StartLinking, TakeGate, WaitForSubmissions, LinkResult,
        EnterGate, SubmitIdentity, ApplyCheck, ApplyAnswered
  <2>2. net' = net /\ \A q \in Coroutines \ {c} : pc'[q] = pc[q] /\ step'[q] = step[q]
    BY <1>2 DEF Start, EnsureLinked, StartLinking, TakeGate, WaitForSubmissions, LinkResult,
        EnterGate, SubmitIdentity, ApplyCheck, ApplyAnswered, BeginCall
  <2> QED
    BY <2>1, <2>2
<1>3. ASSUME NEW c \in Coroutines, LinkCallEnds(c) \/ LeaveGate(c) PROVE AwaitedInv'
  <2>1. pc[c] \notin {"request", "retry"} \/ step[c] = "submitIdentity"
    BY <1>3 DEF LinkCallEnds, LeaveGate
  <2>2. UNCHANGED <<net, pc>> /\ \A q \in Coroutines \ {c} : step'[q] = step[q]
    BY <1>3 DEF LinkCallEnds, LeaveGate
  <2> QED
    BY <2>1, <2>2
<1>4. ASSUME NEW c \in Coroutines, SendLink(c) PROVE AwaitedInv'
  BY <1>4 DEF SendLink
<1>5. ASSUME NEW c \in Coroutines, SendAnswers(c) \/ Rotate(c) PROVE AwaitedInv'
  BY <1>5 DEF SendAnswers, Rotate
<1>6. ASSUME NEW c \in Coroutines, Receive(c) PROVE AwaitedInv'
  BY <1>6 DEF Receive, clientVars
<1>7. ASSUME NEW c \in Coroutines, ReceiveUnauthorized(c) PROVE AwaitedInv'
  BY <1>7 DEF ReceiveUnauthorized, Unauthorized, UnauthorizedAgain
<1>8. ASSUME NEW c \in Coroutines, GiveUp(c) PROVE AwaitedInv'
  BY <1>8 DEF GiveUp, NothingAbandoned, clientVars
<1>9. ASSUME NEW c \in Coroutines, ServerStep(c) PROVE AwaitedInv'
  BY <1>9 DEF ServerStep, ServerRejects, ServerLinks, ServerResolves, ServerRecords, Answer
<1>10. ~ ClientRestart
  BY DEF NothingAbandoned, ClientRestart
<1> QED
  BY <1>0, <1>1, <1>2, <1>3, <1>4, <1>5, <1>6, <1>7, <1>8, <1>9, <1>10
     DEF Next, CoroutineStep, RepositoryStep, StartSession, vars, clientVars

\* Recorded answers, and those about to be, are on rows nobody has merged.
Collected(r) == linkedTo[r] # NULL => r = primary[linkedTo[r]]

CollectedInv ==
    \A c \in Coroutines :
        /\ recorded[c] # NULL => Collected(recorded[c])
        /\ net[c] = "resolved" => row[c] # NULL /\ Collected(row[c])

\* While the server works on a link, no submission is at the server.
LEMMA LinkExcludes ==
    ASSUME TypeInv, GateInv, AwaitedInv, NEW c \in Coroutines, net[c] = "sent", op[c] = "link"
    PROVE  \A q \in Coroutines : net[q] # "resolved"
<1>1. step[c] \in Inside
  BY DEF TypeInv, RequestOK, AwaitedInv, SubmitSteps, Inside
<1>2. \A q \in Coroutines : net[q] = "resolved" => step[q] = "submitCall"
  BY DEF TypeInv, RequestOK, AwaitedInv, LinkSteps
<1> QED
  BY <1>1, <1>2 DEF GateInv, Submitting

LEMMA CollectedStep ==
    ASSUME TypeInv, GateInv, AwaitedInv, CollectedInv, [Next]_vars
    PROVE  CollectedInv'
<1> USE ClientAssumption, SessionAssumption DEF TypeInv, ClientTypeOK, CollectedInv, Collected
<1>0. ASSUME UNCHANGED serverVars, \A c \in Coroutines : net'[c] = "resolved" => net[c] = "resolved"
      PROVE  CollectedInv'
  BY <1>0 DEF serverVars
<1>1. ASSUME NEW c \in Coroutines, ServerLinks(c) PROVE CollectedInv'
  <2>1. \A q \in Coroutines : net[q] # "resolved" /\ net'[q] # "resolved"
    BY <1>1, LinkExcludes DEF ServerLinks, Answer
  <2>2. CASE linkedTo[device[c]] # NULL
    BY <1>1, <2>1, <2>2 DEF ServerLinks
  <2>3. CASE linkedTo[device[c]] = NULL
    <3> DEFINE a == AccountOf(c)
    <3> DEFINE d == device[c]
    <3>1. a \in Accounts /\ d \in Idents
      BY <1>1 DEF ServerLinks, AccountOf, RequestOK, LoginsKnown, Known, TypeOK
    <3>2. /\ linkedTo' = [linkedTo EXCEPT ![d] = a]
          /\ primary' = [primary EXCEPT ![a] = IF @ = NULL THEN d ELSE @]
          /\ \A q \in Coroutines : recorded'[q] = IF recorded[q] = d /\ primary[a] # NULL
                                                  THEN primary[a] ELSE recorded[q]
      BY <1>1, <2>3 DEF ServerLinks
    <3> HIDE DEF a, d
    <3>3. ASSUME NEW q \in Coroutines, recorded'[q] # NULL PROVE Collected(recorded[q])' 
      <4>1. CASE recorded[q] = d
        BY <3>1, <3>2, <3>3, <4>1, <2>3 DEF LinksOK, d
      <4>2. CASE recorded[q] # d
        <5> DEFINE r == recorded[q]
        <5>1. r \in Idents /\ recorded'[q] = r /\ linkedTo'[r] = linkedTo[r]
          BY <3>1, <3>2, <3>3, <4>2
        <5>2. linkedTo[r] # NULL => primary[linkedTo[r]] = r /\ primary'[linkedTo[r]] = r
          BY <3>1, <3>2, <5>1
        <5> QED
          BY <5>1, <5>2
      <4> QED
        BY <4>1, <4>2
    <3> QED
      BY <2>1, <3>3
  <2> QED
    BY <2>2, <2>3
<1>2. ASSUME NEW c \in Coroutines, ServerResolves(c) PROVE CollectedInv'
  <2>1. device[c] \in Idents /\ AccountOf(c) \in Accounts \union {NULL}
    BY <1>2 DEF ServerResolves, AccountOf, RequestOK, TypeOK
  <2> QED
    BY <1>2, <2>1 DEF ServerResolves, Answer, LinksOK
<1>3. ASSUME NEW c \in Coroutines, ServerRecords(c) PROVE CollectedInv'
  BY <1>3 DEF ServerRecords, Answer
<1>4. ASSUME NEW c \in Coroutines, ServerRejects(c) PROVE CollectedInv'
  BY <1>4, <1>0 DEF ServerRejects, Answer
<1>5. ASSUME NEW c \in Coroutines, Start(c) \/ RepositoryStep(c)
      PROVE  UNCHANGED serverVars /\ \A q \in Coroutines : net'[q] = "resolved" => net[q] = "resolved"
  BY <1>5 DEF Start, RepositoryStep, EnsureLinked, StartLinking, TakeGate, WaitForSubmissions,
      SendLink, Rotate, LinkCallEnds, LinkResult, EnterGate, SubmitIdentity, SendAnswers, LeaveGate,
      ApplyCheck, ApplyAnswered, Receive, ReceiveUnauthorized, GiveUp, clientVars, requestVars
<1> QED
  BY <1>0, <1>1, <1>2, <1>3, <1>4, <1>5
     DEF Next, CoroutineStep, ServerStep, StartSession, ClientRestart, vars, clientVars, requestVars

LEMMA CollectedInit == Init => AwaitedInv /\ CollectedInv
BY DEF Init, AwaitedInv, CollectedInv

\* AnswersCollected for any number of coroutines, accounts and identities: submissions,
\* links and transfers that pass the gate leave no answers on a row that a link has
\* emptied, if the client gives up on no request the server still works on.
THEOREM AnswersAreCollected == NothingAbandoned => (Spec => []AnswersCollected)
<1> SUFFICES ASSUME NothingAbandoned PROVE Spec => []AnswersCollected
  OBVIOUS
<1>1. TypeInv /\ GateInv /\ AwaitedInv /\ CollectedInv /\ [Next]_vars => AwaitedInv' /\ CollectedInv'
  BY AwaitedStep, CollectedStep
<1>2. CollectedInv => AnswersCollected
  BY DEF CollectedInv, Collected, AnswersCollected
<1> QED
  BY ClientInvariants, CollectedInit, <1>1, <1>2, PTL DEF Spec

-----------------------------------------------------------------------------
(* The pending link: the session's part.                                   *)

\* Somebody who is signed in has a link to make.
Due == tokens # NULL => pending

\* Between its halves a sign-out has no tokens and a sign-in a pending link; what is
\* stored is the login of the session.
StoreInv ==
    /\ \A c \in Coroutines : pc[c] \in {"signedOut", "ended"} => tokens = NULL
    /\ \A c \in Coroutines : pc[c] = "applySignIn" => pending
    /\ saved # NULL => saved = tokens

LEMMA StoreInit == SessionInit => StoreInv
BY DEF SessionInit, StoreInv

LEMMA StoreStep ==
    ASSUME TypeOK, StoreInv, [SessionNext]_sessionVars
    PROVE  StoreInv'
<1> USE SessionAssumption DEF TypeOK, Running, UnderMutex, Results, StoreInv, At, Goto,
        Lock, Locked, Unlock, session, store, callVars
<1>0. CASE UNCHANGED sessionVars
  BY <1>0 DEF sessionVars
<1>1. ASSUME NEW c \in Coroutines, Begin(c) PROVE StoreInv'
  BY <1>1 DEF Begin, BeginSignIn, BeginSignOut, BeginCall
<1>2. ASSUME NEW c \in Coroutines, RememberGeneration(c) \/ SignInAnswered(c) \/ InstallSignIn(c)
      PROVE  StoreInv'
  BY <1>2 DEF RememberGeneration, SignInAnswered, InstallSignIn, Overtaken
<1>3. ASSUME NEW c \in Coroutines, ApplySignIn(c) PROVE StoreInv'
  BY <1>3 DEF ApplySignIn
<1>4. ASSUME NEW c \in Coroutines, SignOut(c) \/ ClearPending(c) \/ EndSession(c) PROVE StoreInv'
  BY <1>4 DEF SignOut, ClearPending, EndSession, Clear
<1>5. ASSUME NEW c \in Coroutines, CurrentToken(c) \/ ForceRefresh(c) \/ RefreshLocked(c)
      PROVE  StoreInv'
  BY <1>5 DEF CurrentToken, ForceRefresh, RefreshLocked
<1>6. ASSUME NEW c \in Coroutines, Refresh(c) PROVE StoreInv'
  BY <1>6 DEF Refresh, RefreshSucceeds, RefreshNotSaved, RefreshRefused, RefreshFails, Refreshing,
      Clear
<1>7. ASSUME NEW c \in Coroutines, Answered(c) \/ Unauthorized(c) \/ UnauthorizedAgain(c)
      PROVE  StoreInv'
  BY <1>7 DEF Answered, Unauthorized, UnauthorizedAgain
<1>8. CASE TakePendingBack \/ Expire \/ Flush
  BY <1>8 DEF TakePendingBack, Expire, Flush
<1>9. CASE Restart
  BY <1>9 DEF Restart
<1> QED
  BY <1>0, <1>1, <1>2, <1>3, <1>4, <1>5, <1>6, <1>7, <1>8, <1>9 DEF SessionNext, Step, SessionStep

CallPcs ==
    {"currentToken", "refresh", "request", "forceRefresh", "forceLock", "forceCall", "retry",
     "endSession", "ended", "done", "failed", "killed"}

\* What the steps of the session leave to the repositories.
SessionMove(c) ==
    /\ generation' \in {generation, generation + 1}
    /\ generation' = generation => tokens' = tokens
    /\ ~ Due' => ~ Due /\ tokens' = tokens
    /\ UNCHANGED <<disk, account>>
    /\ pc[c] \notin Waiting \union {"idle", "done"}
    /\ pc[c] \in CallPcs => pc'[c] \in CallPcs \ {"currentToken", "done"}
    /\ startedAt'[c] # startedAt[c] => startedAt'[c] = generation /\ generation' = generation
    /\ pc[c] = "currentToken" => startedAt'[c] = generation /\ generation' = generation
    /\ \A q \in Coroutines \ {c} :
          pc'[q] = pc[q] /\ startedAt'[q] = startedAt[q] /\ idToken'[q] = idToken[q]

LEMMA SessionMoves ==
    ASSUME TypeOK, StoreInv, NEW c \in Coroutines, SessionStep(c)
    PROVE  SessionMove(c)
<1> USE SessionAssumption DEF TypeOK, Running, UnderMutex, Results, StoreInv, At, Goto, Carry,
        Lock, Locked, Unlock, session, store, callVars, SessionMove, Due, Waiting, CallPcs
<1>1. CASE RememberGeneration(c) \/ SignInAnswered(c)
  BY <1>1 DEF RememberGeneration, SignInAnswered
<1>2. CASE InstallSignIn(c)
  BY <1>2 DEF InstallSignIn, Overtaken
<1>3. CASE ApplySignIn(c)
  BY <1>3 DEF ApplySignIn
<1>4. CASE SignOut(c)
  BY <1>4 DEF SignOut, Clear
<1>5. CASE ClearPending(c)
  BY <1>5 DEF ClearPending
<1>6. CASE EndSession(c)
  BY <1>6 DEF EndSession, Clear
<1>7. CASE CurrentToken(c)
  BY <1>7 DEF CurrentToken
<1>8. CASE ForceRefresh(c)
  BY <1>8 DEF ForceRefresh
<1>9. CASE RefreshLocked(c)
  BY <1>9 DEF RefreshLocked
<1>10. CASE RefreshSucceeds(c)
  BY <1>10 DEF RefreshSucceeds, Refreshing
<1>11. CASE RefreshNotSaved(c) \/ RefreshFails(c)
  BY <1>11 DEF RefreshNotSaved, RefreshFails, Refreshing
<1>12. CASE RefreshRefused(c)
  BY <1>12 DEF RefreshRefused, Refreshing, Clear
<1> QED
  BY <1>1, <1>2, <1>3, <1>4, <1>5, <1>6, <1>7, <1>8, <1>9, <1>10, <1>11, <1>12
     DEF SessionStep, Refresh

-----------------------------------------------------------------------------
(* The pending link: the link under way.                                   *)

\* Steps of ensureLinked with the repository's mutex.
Linking == {"linkGeneration", "linkGate", "linkWait", "linkCall", "linkResult"}

RepoInv == \A c \in Coroutines : repoLock = c <=> step[c] \in Linking

\* A call sends its requests while it is under way, and a link whose call is done
\* has been recorded for the account and the identity it was sent with.
Recorded(c) ==
    /\ device[c] \in Idents
    /\ idToken[c] # NULL
    /\ linkedTo[device[c]] = account[idToken[c]]

ProgressOK(c) ==
    /\ net[c] # "none" => /\ pc[c] \in Waiting \union {"done"}
                          /\ step[c] \in {"linkCall", "linkResult", "submitCall", "end"}
    /\ step[c] = "linkCall" => pc[c] \in CallPcs
    /\ step[c] = "linkResult" => pc[c] \in {"done", "failed"}
    /\ step[c] \in {"linkCall", "linkResult"} /\ pc[c] = "done" =>
         net[c] = "answered" /\ reply[c] = "ok"
    /\ net[c] = "answered" /\ reply[c] = "ok" /\ op[c] = "link" => Recorded(c)

ProgressInv == RepoInv /\ \A c \in Coroutines : ProgressOK(c)

LEMMA ProgressInit == Init => ProgressInv
BY SessionAssumption DEF Init, ProgressInv, RepoInv, ProgressOK, Linking

LEMMA ProgressSession ==
    ASSUME TypeInv, StoreInv, ProgressInv, UNCHANGED clientVars,
           \/ \E c \in Coroutines : SessionStep(c) \/ StartSession(c)
           \/ Expire \/ Flush
    PROVE  ProgressInv'
<1> USE DEF TypeInv, ClientTypeOK, ProgressInv, RepoInv, ProgressOK, Recorded, clientVars, requestVars,
        serverVars, locksVars
<1>1. ASSUME NEW c \in Coroutines, SessionStep(c) PROVE ProgressInv'
  <2>1. SessionMove(c)
    BY <1>1, SessionMoves
  <2>2. account' = account
    BY <2>1 DEF SessionMove
  <2>3. ASSUME NEW q \in Coroutines PROVE ProgressOK(q)'
    <3>1. CASE q = c
      BY <2>1, <2>2, <3>1 DEF SessionMove, Waiting
    <3>2. CASE q # c
      BY <2>1, <2>2, <3>2 DEF SessionMove
    <3> QED
      BY <3>1, <3>2
  <2> QED
    BY <2>3
<1>2. ASSUME NEW c \in Coroutines, StartSession(c) PROVE ProgressInv'
  <2>1. /\ pc[c] = "idle" /\ step[c] = "none" /\ idToken' = idToken
        /\ \A q \in Coroutines \ {c} : pc'[q] = pc[q] /\ account'[q] = account[q]
    BY <1>2 DEF StartSession, BeginSignIn, BeginSignOut, At, Goto, callVars, TypeOK
  <2>2. \A q \in Coroutines : idToken[q] # NULL => idToken[q] # c /\ idToken[q] \in Coroutines
    BY <2>1 DEF LoginsKnown, Known, TypeOK
  <2> QED
    BY <2>1, <2>2 DEF Waiting
<1>3. CASE Expire \/ Flush
  BY <1>3 DEF Expire, Flush, callVars
<1> QED
  BY <1>1, <1>2, <1>3

LEMMA ProgressClient ==
    ASSUME TypeInv, ProgressInv, NEW c \in Coroutines, Start(c) \/ RepositoryStep(c)
    PROVE  ProgressInv'
<1> USE ClientAssumption, SessionAssumption
    DEF TypeInv, ClientTypeOK, RequestOK, ProgressInv, RepoInv, ProgressOK, Recorded, Linking, GoOn, At, Goto, TypeOK,
        LinkSteps, SubmitSteps, deviceVars, locksVars, requestVars, serverVars, clientVars, sessionVars, session,
        store, callVars
<1>1. CASE Start(c)
  BY <1>1 DEF Start, Waiting, AllOperations
<1>2. CASE EnsureLinked(c)
  BY <1>2 DEF EnsureLinked
<1>3. CASE StartLinking(c) \/ TakeGate(c)
  BY <1>3 DEF StartLinking, TakeGate
<1>4. CASE WaitForSubmissions(c)
  BY <1>4 DEF WaitForSubmissions, BeginCall, Waiting, CallPcs
<1>5. CASE SendLink(c)
  BY <1>5 DEF SendLink, IdentityId, Waiting, CallPcs
<1>6. CASE Rotate(c)
  BY <1>6 DEF Rotate
<1>7. CASE LinkCallEnds(c)
  BY <1>7 DEF LinkCallEnds
<1>8. CASE LinkResult(c)
  BY <1>8 DEF LinkResult
<1>9. CASE EnterGate(c) \/ LeaveGate(c)
  BY <1>9 DEF EnterGate, LeaveGate
<1>10. CASE SubmitIdentity(c)
  BY <1>10 DEF SubmitIdentity, BeginCall
<1>11. CASE SendAnswers(c)
  BY <1>11 DEF SendAnswers, Waiting
<1>12. CASE ApplyCheck(c) \/ ApplyAnswered(c)
  BY <1>12 DEF ApplyCheck, ApplyAnswered
<1>13. CASE Receive(c)
  BY <1>13 DEF Receive, CallPcs, Waiting
<1>14. CASE ReceiveUnauthorized(c)
  BY <1>14 DEF ReceiveUnauthorized, Unauthorized, UnauthorizedAgain, CallPcs, Waiting
<1>15. CASE GiveUp(c)
  BY <1>15 DEF GiveUp, CallPcs, Waiting
<1> QED
  BY <1>1, <1>2, <1>3, <1>4, <1>5, <1>6, <1>7, <1>8, <1>9, <1>10, <1>11, <1>12, <1>13, <1>14, <1>15
     DEF RepositoryStep

LEMMA ProgressServer ==
    ASSUME TypeInv, ProgressInv, NEW c \in Coroutines, ServerStep(c)
    PROVE  ProgressInv'
<1>1. UNCHANGED sessionVars
  BY QuietSteps
<1> USE <1>1, ClientAssumption, SessionAssumption
    DEF TypeInv, ClientTypeOK, RequestOK, LoginsKnown, Known, ProgressInv, RepoInv, ProgressOK, Recorded, TypeOK,
        Answer, AccountOf, deviceVars, locksVars, requestVars, serverVars, sessionVars, callVars
<1>2. CASE ServerRejects(c)
  BY <1>2 DEF ServerRejects
<1>3. CASE ServerLinks(c)
  BY <1>3 DEF ServerLinks
<1>4. CASE ServerResolves(c)
  BY <1>4 DEF ServerResolves
<1>5. CASE ServerRecords(c)
  BY <1>5 DEF ServerRecords
<1> QED
  BY <1>2, <1>3, <1>4, <1>5 DEF ServerStep

LEMMA ProgressStep ==
    ASSUME TypeInv, StoreInv, ProgressInv, [Next]_vars
    PROVE  ProgressInv'
<1>1. CASE UNCHANGED vars
  BY <1>1 DEF vars, ProgressInv, RepoInv, ProgressOK, Recorded, clientVars, locksVars, deviceVars, requestVars, serverVars,
      sessionVars, callVars
<1>2. CASE ClientRestart
  <2>1. /\ \A c \in Coroutines : step'[c] \in {"none", "end"} /\ (step'[c] = "none" <=> step[c] = "none")
        /\ \A c \in Coroutines : pc'[c] = pc[c] \/ pc'[c] = "killed"
        /\ repoLock' = NULL /\ UNCHANGED <<op, deviceVars, requestVars, serverVars, idToken, account>>
    BY <1>2 DEF ClientRestart, Restart, callVars
  <2> QED
    BY <2>1, SessionAssumption DEF ProgressInv, RepoInv, ProgressOK, Recorded, Linking, Waiting,
       requestVars, serverVars
<1> QED
  BY <1>1, <1>2, ProgressSession, ProgressClient, ProgressServer DEF Next, CoroutineStep, StartSession

LEMMA StartedStep ==
    ASSUME TypeInv
    PROVE  \A c \in Coroutines : Start(c) =>
             /\ step'[c] \in {"submit", "link", "apply"}
             /\ \A q \in Coroutines \ {c} : step'[q] = step[q]
<1> SUFFICES ASSUME NEW c \in Coroutines, Start(c)
             PROVE  /\ step'[c] \in {"submit", "link", "apply"}
                    /\ \A q \in Coroutines \ {c} : step'[q] = step[q]
  OBVIOUS
<1>1. PICK o \in {"submit", "link", "apply"} : step' = [step EXCEPT ![c] = o]
  BY ClientAssumption DEF Start, AllOperations, GoOn
<1> QED
  BY <1>1 DEF TypeInv, ClientTypeOK

\* The generation a link remembers and the one of its call; while the latter lasts, the
\* session is the one the call was made in.
GenerationOK(c) ==
    /\ step[c] \in {"linkGate", "linkWait", "linkCall", "linkResult"} => linkStart[c] <= generation
    /\ step[c] \in {"linkCall", "linkResult"} =>
        /\ pc[c] # "currentToken" => linkStart[c] <= startedAt[c] /\ startedAt[c] <= generation
        /\ pc[c] = "done" /\ startedAt[c] = generation => tokens = idToken[c]

GenerationInv == \A c \in Coroutines : GenerationOK(c)

LEMMA GenerationInit == Init => GenerationInv
BY DEF Init, GenerationInv, GenerationOK

LEMMA GenerationStep ==
    ASSUME TypeInv, StoreInv, CallInv, ProgressInv, GenerationInv, [Next]_vars
    PROVE  GenerationInv'
<1>started. \A c \in Coroutines : Start(c) =>
              /\ step'[c] \in {"submit", "link", "apply"}
              /\ \A q \in Coroutines \ {c} : step'[q] = step[q]
  BY StartedStep
<1> USE DEF TypeInv, ClientTypeOK, TypeOK, GenerationInv, GenerationOK
<1>0. CASE UNCHANGED <<generation, tokens, pc, startedAt, idToken, step, linkStart>>
  BY <1>0
<1>1. ASSUME NEW c \in Coroutines, SessionStep(c), UNCHANGED clientVars PROVE GenerationInv'
  <2>1. SessionMove(c)
    BY <1>1, SessionMoves
  <2>2. UNCHANGED <<step, linkStart>>
    BY <1>1 DEF clientVars
  <2>3. ASSUME NEW q \in Coroutines PROVE GenerationOK(q)'
    <3>1. CASE q = c
      <4>1. step[c] \in {"linkCall", "linkResult"} =>
              pc[c] \in CallPcs /\ pc'[c] \in CallPcs \ {"currentToken", "done"}
        BY <2>1 DEF SessionMove, ProgressInv, ProgressOK, Waiting
      <4> QED
        BY <2>1, <2>2, <3>1, <4>1 DEF SessionMove
    <3>2. CASE q # c
      BY <2>1, <2>2, <3>2 DEF SessionMove
    <3> QED
      BY <3>1, <3>2
  <2> QED
    BY <2>3
<1>2. ASSUME NEW c \in Coroutines, StartSession(c) PROVE GenerationInv'
  BY <1>2 DEF StartSession, BeginSignIn, BeginSignOut, clientVars, session, callVars, At, Goto
<1>3. CASE (Expire \/ Flush) /\ UNCHANGED clientVars
  BY <1>3 DEF Expire, Flush, clientVars, session, callVars
<1>4. CASE ClientRestart
  BY <1>4 DEF ClientRestart
<1> USE DEF At, Goto, GoOn, sessionVars, session, callVars
<1>5. ASSUME NEW c \in Coroutines,
             \/ Start(c) \/ EnsureLinked(c) \/ TakeGate(c) \/ LinkCallEnds(c) \/ LinkResult(c)
             \/ EnterGate(c) \/ LeaveGate(c) \/ ApplyCheck(c) \/ ApplyAnswered(c)
      PROVE  GenerationInv'
  <2>1. /\ UNCHANGED <<generation, tokens, pc, startedAt, idToken, linkStart>>
        /\ \A q \in Coroutines \ {c} : step'[q] = step[q]
    BY <1>5 DEF Start, EnsureLinked, TakeGate, LinkCallEnds, LinkResult, EnterGate, LeaveGate,
        ApplyCheck, ApplyAnswered
  <2>2. /\ step'[c] = "linkGate" => step[c] = "linkGate"
        /\ step'[c] = "linkWait" => step[c] = "linkGate"
        /\ step'[c] = "linkCall" => step[c] = "linkCall"
        /\ step'[c] = "linkResult" => step[c] = "linkCall" /\ pc[c] # "currentToken"
    <3>1. CASE Start(c)
      BY <3>1, <1>started
    <3> QED
      BY <1>5, <3>1 DEF EnsureLinked, TakeGate, LinkCallEnds, LinkResult, EnterGate,
          LeaveGate, ApplyCheck, ApplyAnswered
  <2> QED
    BY <2>1, <2>2
<1>6. ASSUME NEW c \in Coroutines, StartLinking(c) PROVE GenerationInv'
  BY <1>6 DEF StartLinking
<1>7. ASSUME NEW c \in Coroutines, WaitForSubmissions(c) \/ SubmitIdentity(c) PROVE GenerationInv'
  BY <1>7 DEF WaitForSubmissions, SubmitIdentity, BeginCall
<1>8. ASSUME NEW c \in Coroutines, Receive(c) PROVE GenerationInv'
  <2>1. step[c] \in {"linkCall", "linkResult"} /\ reply[c] = "ok" => idToken[c] # NULL
    BY <1>8 DEF Receive, ProgressInv, ProgressOK, Recorded, RequestOK, LinkSteps
  <2>2. pc'[c] = "done" => reply[c] = "ok"
    BY <1>8 DEF Receive
  <2>3. UNCHANGED <<generation, tokens, startedAt, idToken, step, linkStart>>
    BY <1>8 DEF Receive, clientVars
  <2>4. pc[c] \in {"request", "retry"} /\ pc' = [pc EXCEPT ![c] = pc'[c]]
    BY <1>8 DEF Receive
  <2>5. idToken[c] # NULL /\ startedAt[c] = generation => tokens = idToken[c]
    BY <2>4 DEF CallInv, CallOK, InCall
  <2> QED
    BY <2>1, <2>2, <2>3, <2>4, <2>5
<1>9. ASSUME NEW c \in Coroutines, ReceiveUnauthorized(c) \/ GiveUp(c) \/ SendLink(c)
      PROVE  GenerationInv'
  <2>1. /\ UNCHANGED <<generation, tokens, startedAt, idToken, step, linkStart>>
        /\ \A q \in Coroutines : pc'[q] = pc[q] \/ (pc[q] \in {"request", "retry"} /\ pc'[q] # "done")
    BY <1>9 DEF ReceiveUnauthorized, Unauthorized, UnauthorizedAgain, GiveUp, SendLink, clientVars
  <2> QED
    BY <2>1
<1>10. ASSUME NEW c \in Coroutines, Rotate(c) \/ SendAnswers(c) \/ ServerStep(c)
       PROVE  UNCHANGED <<generation, tokens, pc, startedAt, idToken, step, linkStart>>
  BY <1>10 DEF Rotate, SendAnswers, ServerStep, ServerRejects, ServerLinks, ServerResolves,
      ServerRecords
<1> QED
  BY <1>0, <1>1, <1>2, <1>3, <1>4, <1>5, <1>6, <1>7, <1>8, <1>9, <1>10
     DEF Next, CoroutineStep, RepositoryStep, vars, clientVars

\* The identity a link is made for stays this device's: the gate keeps transfers away
\* while the call is under way, and afterwards they need a session that has ended.
IdentityOK(c) ==
    /\ step[c] = "linkCall" /\ net[c] \in {"sent", "answered"} => identity = device[c]
    /\ step[c] = "linkResult" /\ pc[c] = "done" /\ generation = linkStart[c] =>
        /\ identity = device[c]
        /\ \A q \in Coroutines : step[q] # "applyCall"

IdentityInv == \A c \in Coroutines : IdentityOK(c)

LEMMA IdentityInit == Init => IdentityInv
BY DEF Init, IdentityInv, IdentityOK

\* The session of a link that is done is that of its call while it lasts.
LEMMA DoneLink ==
    ASSUME TypeInv, ProgressInv, GenerationInv, NEW c \in Coroutines,
           step[c] \in {"linkCall", "linkResult"}, pc[c] = "done", generation = linkStart[c]
    PROVE  tokens = idToken[c] /\ Recorded(c)
<1>1. startedAt[c] = generation
  BY DEF GenerationInv, GenerationOK, TypeInv, ClientTypeOK, TypeOK
<1>2. op[c] = "link"
  BY DEF TypeInv, RequestOK, LinkSteps
<1> QED
  BY <1>1, <1>2 DEF GenerationInv, GenerationOK, ProgressInv, ProgressOK

LEMMA IdentityStep ==
    ASSUME TypeInv, StoreInv, GateInv, ProgressInv, GenerationInv, IdentityInv, [Next]_vars
    PROVE  IdentityInv'
<1>started. \A c \in Coroutines : Start(c) =>
              /\ step'[c] \in {"submit", "link", "apply"}
              /\ \A q \in Coroutines \ {c} : step'[q] = step[q]
  BY StartedStep
<1> USE ClientAssumption, SessionAssumption DEF TypeInv, ClientTypeOK, TypeOK, IdentityInv, IdentityOK
<1>0. CASE UNCHANGED <<identity, device, step, net, pc, generation, linkStart>>
  BY <1>0
<1>1. ASSUME NEW c \in Coroutines, SessionStep(c), UNCHANGED clientVars PROVE IdentityInv'
  <2>1. SessionMove(c)
    BY <1>1, SessionMoves
  <2>2. UNCHANGED <<identity, device, step, net, linkStart>>
    BY <1>1 DEF clientVars, deviceVars, requestVars
  <2>3. ASSUME NEW q \in Coroutines, step[q] = "linkResult", pc'[q] = "done",
               generation' = linkStart[q]
        PROVE  pc[q] = "done" /\ generation = linkStart[q]
    <3>1. pc[q] \in {"done", "failed"} /\ linkStart[q] <= generation
      BY <2>3 DEF ProgressInv, ProgressOK, GenerationInv, GenerationOK
    <3>2. q # c
      BY <2>1, <3>1 DEF SessionMove, Waiting
    <3> QED
      BY <2>1, <2>3, <3>1, <3>2 DEF SessionMove
  <2> QED
    BY <2>2, <2>3
<1>2. ASSUME NEW c \in Coroutines, StartSession(c) PROVE IdentityInv'
  BY <1>2 DEF StartSession, BeginSignIn, BeginSignOut, clientVars, deviceVars, requestVars, session,
      At, Goto
<1>3. CASE (Expire \/ Flush) /\ UNCHANGED clientVars
  BY <1>3 DEF Expire, Flush, clientVars, deviceVars, requestVars, session
<1>4. CASE ClientRestart
  BY <1>4 DEF ClientRestart
<1> USE DEF At, Goto, GoOn, sessionVars, session, callVars, deviceVars, requestVars
<1>5. ASSUME NEW c \in Coroutines,
             \/ Start(c) \/ EnsureLinked(c) \/ TakeGate(c) \/ LinkResult(c)
             \/ EnterGate(c) \/ LeaveGate(c)
      PROVE  IdentityInv'
  <2>1. UNCHANGED <<identity, device, net, pc, generation, linkStart>>
    BY <1>5 DEF Start, EnsureLinked, TakeGate, LinkResult, EnterGate, LeaveGate
  <2>2. /\ \A q \in Coroutines \ {c} : step'[q] = step[q]
        /\ step'[c] \notin {"linkCall", "linkResult", "applyCall"}
    <3>1. CASE Start(c)
      BY <3>1, <1>started
    <3>2. CASE EnsureLinked(c) \/ TakeGate(c)
      BY <3>2 DEF EnsureLinked, TakeGate
    <3>3. CASE LinkResult(c)
      BY <3>3 DEF LinkResult
    <3>4. CASE EnterGate(c) \/ LeaveGate(c)
      BY <3>4 DEF EnterGate, LeaveGate
    <3> QED
      BY <1>5, <3>1, <3>2, <3>3, <3>4
  <2> QED
    BY <2>1, <2>2
<1>6. ASSUME NEW c \in Coroutines, StartLinking(c) PROVE IdentityInv'
  BY <1>6 DEF StartLinking
<1>7. ASSUME NEW c \in Coroutines, WaitForSubmissions(c) PROVE IdentityInv'
  BY <1>7 DEF WaitForSubmissions, BeginCall, ProgressInv, ProgressOK
<1>8. ASSUME NEW c \in Coroutines, SendLink(c) PROVE IdentityInv'
  <2>1. \A q \in Coroutines : step[q] = "linkCall" => q = c
    BY <1>8 DEF SendLink, GateInv, AtGate, Inside
  <2>2. identity # NULL => identity' = identity
    BY <1>8 DEF SendLink, IdentityId
  <2>3. UNCHANGED <<step, generation, linkStart>>
    BY <1>8 DEF SendLink
  <2>4. \A q \in Coroutines \ {c} : device'[q] = device[q] /\ net'[q] = net[q] /\ pc'[q] = pc[q]
    BY <1>8 DEF SendLink
  <2>5. step[c] = "linkCall" /\ (net'[c] \in {"sent", "answered"} => identity' = device'[c])
    BY <1>8 DEF SendLink, IdentityId
  <2>6. ASSUME NEW q \in Coroutines, IdentityOK(q), step[q] = "linkResult" PROVE IdentityOK(q)'
    <3>1. pc[q] = "done" /\ generation = linkStart[q] => device[q] \in Idents
      BY <2>6, DoneLink DEF Recorded
    <3> QED
      BY <2>2, <2>3, <2>4, <2>5, <2>6, <3>1
  <2> QED
    BY <2>1, <2>3, <2>5, <2>6
<1>9. ASSUME NEW c \in Coroutines, Rotate(c) PROVE IdentityInv'
  <2>1. \A q \in Coroutines : step[q] \in {"linkCall", "linkResult"} => q = c
    BY <1>9 DEF Rotate, ProgressInv, RepoInv, Linking
  <2> QED
    BY <1>9, <2>1 DEF Rotate
<1>10. ASSUME NEW c \in Coroutines, LinkCallEnds(c) PROVE IdentityInv'
  <2>1. \A q \in Coroutines : step[q] # "applyCall"
    BY <1>10 DEF LinkCallEnds, GateInv, AtGate, Inside
  <2>2. pc[c] = "done" => net[c] = "answered"
    BY <1>10 DEF LinkCallEnds, ProgressInv, ProgressOK
  <2> QED
    BY <1>10, <2>1, <2>2 DEF LinkCallEnds
<1>11. ASSUME NEW c \in Coroutines, SubmitIdentity(c) PROVE IdentityInv'
  <2>1. \A q \in Coroutines : step[q] # "linkCall"
    BY <1>11 DEF SubmitIdentity, GateInv, Submitting, Inside
  <2>2. identity # NULL => identity' = identity
    BY <1>11 DEF SubmitIdentity, IdentityId
  <2>3. /\ UNCHANGED <<generation, linkStart, net>> /\ step[c] = "submitIdentity"
        /\ step' = [step EXCEPT ![c] = "submitCall"]
        /\ \A q \in Coroutines \ {c} : device'[q] = device[q] /\ pc'[q] = pc[q]
    BY <1>11 DEF SubmitIdentity, BeginCall
  <2>4. ASSUME NEW q \in Coroutines, step[q] = "linkResult" PROVE IdentityOK(q)'
    <3>1. pc[q] = "done" /\ generation = linkStart[q] => device[q] \in Idents
      BY <2>4, DoneLink DEF Recorded
    <3> QED
      BY <2>2, <2>3, <2>4, <3>1
  <2> QED
    BY <2>1, <2>3, <2>4
<1>12. ASSUME NEW c \in Coroutines, ApplyCheck(c) PROVE IdentityInv'
  <2>1. \A q \in Coroutines : step[q] # "linkCall"
    BY <1>12 DEF ApplyCheck, GateInv, AtGate, Inside
  <2>2. UNCHANGED <<device, net, pc, generation, linkStart>>
    BY <1>12 DEF ApplyCheck
  <2>3. CASE tokens = NULL
    <3>1. \A q \in Coroutines : step[q] = "linkResult" /\ pc[q] = "done" => generation # linkStart[q]
      BY <2>3, DoneLink DEF Recorded
    <3>2. \A q \in Coroutines : step'[q] \in {"linkCall", "linkResult"} => step[q] = step'[q]
      BY <1>12 DEF ApplyCheck
    <3> QED
      BY <2>1, <2>2, <3>1, <3>2
  <2>4. CASE tokens # NULL
    BY <1>12, <2>1, <2>2, <2>4 DEF ApplyCheck
  <2> QED
    BY <1>12, <2>3, <2>4 DEF ApplyCheck
<1>13. ASSUME NEW c \in Coroutines, ApplyAnswered(c) PROVE IdentityInv'
  <2>1. \A q \in Coroutines : step[q] # "linkCall"
    BY <1>13 DEF ApplyAnswered, GateInv, AtGate, Inside
  <2> QED
    BY <1>13, <2>1 DEF ApplyAnswered
<1>14. ASSUME NEW c \in Coroutines, Receive(c) \/ GiveUp(c) PROVE IdentityInv'
  BY <1>14 DEF Receive, GiveUp, clientVars, ProgressInv, ProgressOK
<1>15. ASSUME NEW c \in Coroutines, ReceiveUnauthorized(c) PROVE IdentityInv'
  BY <1>15 DEF ReceiveUnauthorized, Unauthorized, UnauthorizedAgain, ProgressInv, ProgressOK
<1>16. ASSUME NEW c \in Coroutines, SendAnswers(c) PROVE IdentityInv'
  BY <1>16 DEF SendAnswers
<1>17. ASSUME NEW c \in Coroutines, ServerStep(c) PROVE IdentityInv'
  <2>1. UNCHANGED <<identity, device, step, pc, generation, linkStart>>
    BY <1>17 DEF ServerStep, ServerRejects, ServerLinks, ServerResolves, ServerRecords
  <2>2. \A q \in Coroutines : step[q] = "linkCall" /\ net'[q] \in {"sent", "answered"} =>
          net[q] \in {"sent", "answered"}
    BY <1>17 DEF ServerStep, ServerRejects, ServerLinks, ServerResolves, ServerRecords, Answer,
        RequestOK, LinkSteps
  <2> QED
    BY <2>1, <2>2
<1> QED
  BY <1>0, <1>1, <1>2, <1>3, <1>4, <1>5, <1>6, <1>7, <1>8, <1>9, <1>10, <1>11, <1>12, <1>13, <1>14,
     <1>15, <1>16, <1>17
     DEF Next, CoroutineStep, RepositoryStep, vars, clientVars

-----------------------------------------------------------------------------
(* The pending link: what is due.                                          *)

DueInv ==
    /\ \A c \in Coroutines : step[c] \in Linking \union {"applyCall"} => Due
    /\ linkState = "Failed" => Due

LEMMA DueInit == Init => DueInv
BY DEF Init, DueInv, Linking

LEMMA DueStep ==
    ASSUME TypeInv, StoreInv, ProgressInv, IdentityInv, DueInv, [Next]_vars
    PROVE  DueInv'
<1>started. \A c \in Coroutines : Start(c) =>
              /\ step'[c] \in {"submit", "link", "apply"}
              /\ \A q \in Coroutines \ {c} : step'[q] = step[q]
  BY StartedStep
<1> USE DEF TypeInv, ClientTypeOK, TypeOK, DueInv, Due, Linking
<1>0. CASE UNCHANGED <<tokens, pending, step, linkState>>
  BY <1>0
<1>1. ASSUME NEW c \in Coroutines, SessionStep(c), UNCHANGED clientVars PROVE DueInv'
  <2>1. SessionMove(c)
    BY <1>1, SessionMoves
  <2> QED
    BY <1>1, <2>1 DEF SessionMove, clientVars
<1>2. ASSUME NEW c \in Coroutines, StartSession(c)
      PROVE  UNCHANGED <<tokens, pending, step, linkState>>
  BY <1>2 DEF StartSession, BeginSignIn, BeginSignOut, clientVars, session, store
<1>3. CASE (Expire \/ Flush) /\ UNCHANGED clientVars
  BY <1>3 DEF Expire, Flush, clientVars, session, store
<1>4. CASE ClientRestart
  BY <1>4 DEF ClientRestart
<1> USE DEF GoOn, sessionVars, session, store
<1>5. ASSUME NEW c \in Coroutines,
             \/ StartLinking(c) \/ TakeGate(c) \/ WaitForSubmissions(c) \/ LinkCallEnds(c)
             \/ EnterGate(c) \/ SubmitIdentity(c) \/ LeaveGate(c) \/ ApplyAnswered(c)
      PROVE  DueInv'
  BY <1>5 DEF StartLinking, TakeGate, WaitForSubmissions, BeginCall, LinkCallEnds, EnterGate,
      SubmitIdentity, LeaveGate, ApplyAnswered
<1>6. ASSUME NEW c \in Coroutines, EnsureLinked(c) PROVE DueInv'
  BY <1>6 DEF EnsureLinked
<1>7. ASSUME NEW c \in Coroutines, ApplyCheck(c) PROVE DueInv'
  BY <1>7 DEF ApplyCheck
<1>8. ASSUME NEW c \in Coroutines, Start(c) PROVE DueInv'
  BY <1>8, <1>started DEF Start
<1>9. ASSUME NEW c \in Coroutines, LinkResult(c) PROVE DueInv'
  <2>1. /\ tokens' = tokens /\ step' = [step EXCEPT ![c] = "end"] /\ step[c] = "linkResult"
    BY <1>9 DEF LinkResult
  <2>2. CASE SameSession(c) /\ At(c, "done")
    <3>1. \A q \in Coroutines \ {c} : step[q] \notin Linking \union {"applyCall"}
      BY <1>9, <2>1, <2>2 DEF SameSession, At, IdentityInv, IdentityOK, ProgressInv, RepoInv
    <3>2. linkState' = "Idle"
      BY <1>9, <2>2 DEF LinkResult, At
    <3> QED
      BY <2>1, <3>1, <3>2
  <2>3. CASE ~ (SameSession(c) /\ At(c, "done"))
    BY <1>9, <2>1, <2>3 DEF LinkResult
  <2> QED
    BY <2>2, <2>3
<1>10. ASSUME NEW c \in Coroutines,
              \/ SendLink(c) \/ Rotate(c) \/ SendAnswers(c) \/ Receive(c) \/ ReceiveUnauthorized(c)
              \/ GiveUp(c) \/ ServerStep(c)
       PROVE  UNCHANGED <<tokens, pending, step, linkState>>
  BY <1>10 DEF SendLink, Rotate, SendAnswers, Receive, ReceiveUnauthorized, Unauthorized,
      UnauthorizedAgain, GiveUp, ServerStep, ServerRejects, ServerLinks, ServerResolves,
      ServerRecords, clientVars
<1> QED
  BY <1>0, <1>1, <1>2, <1>3, <1>4, <1>5, <1>6, <1>7, <1>8, <1>9, <1>10
     DEF Next, CoroutineStep, RepositoryStep, vars, clientVars

LEMMA PendingInit == Init => PendingUntilLinked
BY DEF Init, SessionInit, PendingUntilLinked

\* A recorded link stays recorded while the device keeps its identity.
LEMMA RecordStays ==
    ASSUME TypeInv, NEW l \in Coroutines, Known(l), LinkRecorded(l), account'[l] = account[l],
           identity # NULL => identity' = identity,
           \A d \in Idents : linkedTo[d] # NULL => linkedTo'[d] = linkedTo[d]
    PROVE  LinkRecorded(l)'
BY SessionAssumption DEF TypeInv, ClientTypeOK, Known, LinkRecorded

\* Steps that may take a first identity or link one at the server.
LEMMA RecordsGrow ==
    ASSUME TypeInv, NEW c \in Coroutines,
           \/ Start(c) \/ EnsureLinked(c) \/ StartLinking(c) \/ TakeGate(c) \/ WaitForSubmissions(c)
           \/ SendLink(c) \/ LinkCallEnds(c) \/ EnterGate(c) \/ SubmitIdentity(c) \/ SendAnswers(c)
           \/ LeaveGate(c) \/ ApplyCheck(c) \/ Receive(c) \/ ReceiveUnauthorized(c) \/ GiveUp(c)
           \/ ServerStep(c)
    PROVE  /\ UNCHANGED <<tokens, pending, disk, account>>
           /\ identity # NULL => identity' = identity
           /\ \A d \in Idents : linkedTo[d] # NULL => linkedTo'[d] = linkedTo[d]
<1> USE DEF sessionVars, session, store, deviceVars, serverVars, clientVars
<1>1. CASE \/ Start(c) \/ EnsureLinked(c) \/ StartLinking(c) \/ TakeGate(c) \/ WaitForSubmissions(c)
           \/ LinkCallEnds(c) \/ EnterGate(c) \/ SendAnswers(c) \/ LeaveGate(c)
  BY <1>1 DEF Start, EnsureLinked, StartLinking, TakeGate, WaitForSubmissions, BeginCall, LinkCallEnds,
      EnterGate, SendAnswers, LeaveGate
<1>2. CASE SendLink(c) \/ SubmitIdentity(c) \/ ApplyCheck(c)
  BY <1>2 DEF SendLink, SubmitIdentity, ApplyCheck, IdentityId, BeginCall
<1>3. CASE Receive(c) \/ ReceiveUnauthorized(c) \/ GiveUp(c)
  BY <1>3 DEF Receive, ReceiveUnauthorized, Unauthorized, UnauthorizedAgain, GiveUp
<1>4. CASE ServerStep(c)
  BY <1>4 DEF ServerStep, ServerRejects, ServerLinks, ServerResolves, ServerRecords, TypeInv,
      ClientTypeOK
<1> QED
  BY <1>1, <1>2, <1>3, <1>4

LEMMA PendingStep ==
    ASSUME TypeInv, StoreInv, ProgressInv, GenerationInv, IdentityInv, DueInv, PendingUntilLinked,
           [Next]_vars
    PROVE  PendingUntilLinked'
<1>known. \A l \in {tokens, disk.tokens} : l # NULL => l \in Coroutines /\ Known(l)
  BY DEF TypeInv, ClientTypeOK, TypeOK, LoginsKnown
<1>0. ASSUME UNCHANGED disk, ~ Due' => ~ Due /\ tokens' = tokens,
             \A l \in Coroutines : Known(l) => account'[l] = account[l],
             identity # NULL => identity' = identity,
             \A d \in Idents : linkedTo[d] # NULL => linkedTo'[d] = linkedTo[d]
      PROVE  PendingUntilLinked'
  <2>1. ~ Due' => LinkRecorded(tokens)' 
    <3> SUFFICES ASSUME ~ Due' PROVE LinkRecorded(tokens)'
      OBVIOUS
    <3>1. tokens' = tokens /\ tokens # NULL /\ LinkRecorded(tokens)
      BY <1>0 DEF Due, PendingUntilLinked
    <3>2. LinkRecorded(tokens) => (identity # NULL /\ linkedTo[identity] = account[tokens])
      BY DEF LinkRecorded
    <3>3. /\ identity' = identity /\ linkedTo'[identity] = linkedTo[identity]
          /\ account'[tokens] = account[tokens]
      BY <1>0, <1>known, <3>1, <3>2, SessionAssumption DEF Known, TypeInv, ClientTypeOK
    <3> QED
      BY <3>1, <3>2, <3>3 DEF LinkRecorded
  <2>2. disk.tokens # NULL /\ ~ disk.pending => LinkRecorded(disk.tokens)'
    <3> SUFFICES ASSUME disk.tokens # NULL, ~ disk.pending PROVE LinkRecorded(disk.tokens)'
      OBVIOUS
    <3>1. LinkRecorded(disk.tokens)
      BY DEF PendingUntilLinked
    <3>2. /\ identity' = identity /\ linkedTo'[identity] = linkedTo[identity]
          /\ account'[disk.tokens] = account[disk.tokens]
      BY <1>0, <1>known, <3>1, SessionAssumption DEF Known, TypeInv, ClientTypeOK, LinkRecorded
    <3> QED
      BY <1>0, <3>1, <3>2 DEF LinkRecorded
  <2> QED
    BY <1>0, <2>1, <2>2 DEF PendingUntilLinked, Due, LinkRecorded
<1>1. CASE UNCHANGED vars
  BY <1>0, <1>1 DEF vars, sessionVars, session, store, clientVars, deviceVars, serverVars, Due
<1>2. ASSUME NEW c \in Coroutines, SessionStep(c), UNCHANGED clientVars PROVE PendingUntilLinked'
  <2>1. SessionMove(c)
    BY <1>2, SessionMoves DEF TypeInv, ClientTypeOK
  <2> QED
    BY <1>0, <1>2, <2>1 DEF SessionMove, clientVars, deviceVars, serverVars
<1>3. ASSUME NEW c \in Coroutines, StartSession(c) PROVE PendingUntilLinked'
  BY <1>0, <1>3 DEF StartSession, BeginSignIn, BeginSignOut, At, session, store, clientVars, deviceVars,
      serverVars, Due, Known, TypeInv, ClientTypeOK, TypeOK
<1>4. CASE Expire /\ UNCHANGED clientVars
  BY <1>0, <1>4 DEF Expire, session, store, clientVars, deviceVars, serverVars, Due
<1>5. CASE Flush /\ UNCHANGED clientVars
  BY <1>5 DEF Flush, session, store, clientVars, deviceVars, serverVars, StoreInv, PendingUntilLinked,
      LinkRecorded
<1>6. CASE ClientRestart
  BY <1>6 DEF ClientRestart, Restart, deviceVars, serverVars, PendingUntilLinked, LinkRecorded
<1>7. ASSUME NEW c \in Coroutines, Rotate(c) \/ ApplyAnswered(c) PROVE PendingUntilLinked'
  <2>1. Due /\ UNCHANGED <<tokens, pending, disk>> /\ disk = [tokens |-> saved, pending |-> pending]
    BY <1>7 DEF Rotate, ApplyAnswered, Flushed, DueInv, Linking, sessionVars, session, store
  <2> QED
    BY <2>1 DEF Due, StoreInv, PendingUntilLinked
<1>8. ASSUME NEW c \in Coroutines, LinkResult(c) PROVE PendingUntilLinked'
  <2>1. UNCHANGED <<tokens, disk, account, identity, linkedTo>> /\ step[c] = "linkResult"
    BY <1>8 DEF LinkResult, session, deviceVars, serverVars
  <2>2. CASE SameSession(c) /\ At(c, "done")
    <3>1. tokens = idToken[c] /\ Recorded(c) /\ identity = device[c]
      BY <2>1, <2>2, DoneLink DEF SameSession, At, IdentityInv, IdentityOK
    <3>2. LinkRecorded(tokens)
      BY <3>1, ClientAssumption DEF Recorded, LinkRecorded
    <3> QED
      BY <2>1, <3>2 DEF PendingUntilLinked, LinkRecorded
  <2>3. CASE ~ (SameSession(c) /\ At(c, "done"))
    BY <1>8, <2>1, <2>3 DEF LinkResult, PendingUntilLinked, LinkRecorded
  <2> QED
    BY <2>2, <2>3
<1>9. ASSUME NEW c \in Coroutines, Start(c) \/ RepositoryStep(c) \/ ServerStep(c)
      PROVE  PendingUntilLinked'
  <2>1. CASE Rotate(c) \/ ApplyAnswered(c) \/ LinkResult(c)
    BY <1>7, <1>8, <2>1
  <2>2. CASE ~ (Rotate(c) \/ ApplyAnswered(c) \/ LinkResult(c))
    <3>1. /\ UNCHANGED <<tokens, pending, disk, account>>
          /\ identity # NULL => identity' = identity
          /\ \A d \in Idents : linkedTo[d] # NULL => linkedTo'[d] = linkedTo[d]
      BY <1>9, <2>2, RecordsGrow DEF RepositoryStep
    <3> QED
      BY <1>0, <3>1 DEF Due
  <2> QED
    BY <2>1, <2>2
<1> QED
  BY <1>1, <1>2, <1>3, <1>4, <1>5, <1>6, <1>9 DEF Next, CoroutineStep

LinkInv == StoreInv /\ ProgressInv /\ GenerationInv /\ IdentityInv /\ DueInv /\ PendingUntilLinked

LEMMA LinkInvInit == Init => LinkInv
BY StoreInit, ProgressInit, GenerationInit, IdentityInit, DueInit, PendingInit DEF Init, LinkInv

LEMMA LinkInvStep == TypeInv /\ GateInv /\ CallInv /\ LinkInv /\ [Next]_vars => LinkInv'
BY ClientStep, StoreStep, ProgressStep, GenerationStep, IdentityStep, DueStep, PendingStep
   DEF LinkInv, TypeInv, ClientTypeOK

THEOREM LinkInvariants == Spec => []LinkInv
BY ClientUsesSession, SessionSafe, ClientInvariants, LinkInvInit, LinkInvStep, PTL DEF Spec

\* PendingUntilLinked for any number of coroutines, people and identities and every fault:
\* whoever is signed in without a pending link, in memory or on disk, has linked the
\* identity this device has now.
THEOREM LinksAreNotForgotten == Spec => []PendingUntilLinked
<1>1. LinkInv => PendingUntilLinked
  BY DEF LinkInv
<1> QED
  BY LinkInvariants, <1>1, PTL

\* FailureCanBeRetried likewise: a failed link that is shown to somebody is still due.
THEOREM FailuresCanBeRetried == Spec => []FailureCanBeRetried
<1>1. LinkInv => FailureCanBeRetried
  BY DEF LinkInv, DueInv, Due, FailureCanBeRetried
<1> QED
  BY LinkInvariants, <1>1, PTL

=============================================================================
