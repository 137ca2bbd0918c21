--------------------------- MODULE Authentication ---------------------------
(***************************************************************************)
(* The authentication middleware and the cache of Cognito's signing keys   *)
(* (internal/auth).  Requests share one cache: a request whose key is not  *)
(* in it, or whose cache is old, fetches the whole set on its own and      *)
(* replaces the cached one, also when others fetch at the same time.       *)
(* Cognito publishes and withdraws keys on its own and never reuses an id. *)
(***************************************************************************)
EXTENDS Naturals, TLAPS

CONSTANTS Requests, Kids,
          Ttl, Timeout,               \* cacheTTL; timeout of the HTTP client
          MaxClock                    \* bound

ASSUME TimesAssumption == Ttl \in Nat /\ Timeout \in Nat /\ MaxClock \in Nat

VARIABLES keys, fetchedAt,            \* JWKSProvider
          stage, header,              \* a request and what it carries
          sentAt, response,           \* its fetch
          seenAt,                     \* history: when its key was looked up
          broken, mark, stores,       \* history: its fetch failed; stores so far, and after its own
          published, publishedAt, withdrawnAt,     \* Cognito
          clock

cacheVars == <<keys, fetchedAt>>
fetchVars == <<sentAt, response>>
historyVars == <<seenAt, broken, mark, stores>>
cognitoVars == <<published, publishedAt, withdrawnAt>>
vars == <<cacheVars, stage, header, fetchVars, historyVars, cognitoVars, clock>>

(* "malformed": not Bearer, not RSA, no kid.  claims: issuer, audience,     *)
(* expiry, token_use and sub.                                               *)
Headers == [form : {"none", "malformed", "bearer"}, kid : Kids, claims : {"ok", "bad"}]
Results == {"anonymous", "principal", "unauthorized"}
Stages == {"idle", "cache", "fetch", "answered", "lookup"} \cup Results

Init ==
  /\ keys = {} /\ fetchedAt = 0
  /\ stage = [r \in Requests |-> "idle"]
  /\ header \in [Requests -> Headers]
  /\ sentAt = [r \in Requests |-> 0] /\ response = [r \in Requests |-> {}]
  /\ seenAt = [r \in Requests |-> 0] /\ broken = [r \in Requests |-> FALSE]
  /\ mark = [r \in Requests |-> 0] /\ stores = 0
  /\ published \in SUBSET Kids
  /\ publishedAt = [k \in Kids |-> 0] /\ withdrawnAt = [k \in Kids |-> 0]
  /\ clock = 1

-----------------------------------------------------------------------------
Go(r, s) == stage' = [stage EXCEPT ![r] = s]

(* Without a header a public operation is anonymous; a header that is there *)
(* and wrong is refused everywhere.                                         *)
Arrive(r, public) ==
  /\ stage[r] = "idle"
  /\ Go(r, CASE header[r].form = "none" -> IF public THEN "anonymous" ELSE "unauthorized"
             [] header[r].form = "malformed" -> "unauthorized"
             [] header[r].form = "bearer" -> "cache")
  /\ UNCHANGED <<cacheVars, header, fetchVars, historyVars, cognitoVars, clock>>

(* The signature is checked with the key, then the claims are.              *)
Verified(r) == IF header[r].claims = "ok" THEN "principal" ELSE "unauthorized"

\* Fault: the age of the cache is not looked at.
FreshForever == TRUE
Fresh == clock - fetchedAt < Ttl

(* GetKey: the cached key, or a fetch of the set.                           *)
ReadCache(r) ==
  /\ stage[r] = "cache"
  /\ IF header[r].kid \in keys /\ Fresh
     THEN Go(r, Verified(r)) /\ seenAt' = [seenAt EXCEPT ![r] = clock] /\ UNCHANGED sentAt
     ELSE Go(r, "fetch") /\ sentAt' = [sentAt EXCEPT ![r] = clock] /\ UNCHANGED seenAt
  /\ UNCHANGED <<cacheVars, header, response, broken, mark, stores, cognitoVars, clock>>

(* refresh: Cognito answers at some moment of the request.                  *)
Answer(r) ==
  /\ stage[r] = "fetch"
  /\ Go(r, "answered") /\ response' = [response EXCEPT ![r] = published]
  /\ UNCHANGED <<cacheVars, header, sentAt, historyVars, cognitoVars, clock>>

(* No answer, an answer that is not 200 or cannot be decoded, the timeout.  *)
FetchFails(r) ==
  /\ stage[r] \in {"fetch", "answered"}
  /\ Go(r, "unauthorized") /\ broken' = [broken EXCEPT ![r] = TRUE]
  /\ UNCHANGED <<cacheVars, header, fetchVars, seenAt, mark, stores, cognitoVars, clock>>

\* Fault: a request that finds the set replaced since it asked keeps that set.
KeepNewer(r) ==
  /\ stage[r] = "answered" /\ clock <= sentAt[r] + Timeout
  /\ IF fetchedAt >= sentAt[r] THEN UNCHANGED cacheVars
                              ELSE keys' = response[r] /\ fetchedAt' = clock
  /\ stores' = stores + 1 /\ mark' = [mark EXCEPT ![r] = stores + 1]
  /\ Go(r, "lookup")
  /\ UNCHANGED <<header, fetchVars, seenAt, broken, cognitoVars, clock>>

(* The set replaces the cached one, whichever was asked for first.          *)
Store(r) ==
  /\ stage[r] = "answered" /\ clock <= sentAt[r] + Timeout
  /\ keys' = response[r] /\ fetchedAt' = clock
  /\ stores' = stores + 1 /\ mark' = [mark EXCEPT ![r] = stores + 1]
  /\ Go(r, "lookup")
  /\ UNCHANGED <<header, fetchVars, seenAt, broken, cognitoVars, clock>>

(* The second look takes whatever set is cached by then.                    *)
Lookup(r) ==
  /\ stage[r] = "lookup"
  /\ Go(r, IF header[r].kid \in keys THEN Verified(r) ELSE "unauthorized")
  /\ seenAt' = [seenAt EXCEPT ![r] = clock]
  /\ UNCHANGED <<cacheVars, header, fetchVars, broken, mark, stores, cognitoVars, clock>>

Publish(k) ==
  /\ k \notin published /\ publishedAt[k] = 0 /\ withdrawnAt[k] = 0
  /\ published' = published \cup {k} /\ publishedAt' = [publishedAt EXCEPT ![k] = clock]
  /\ UNCHANGED <<cacheVars, stage, header, fetchVars, historyVars, withdrawnAt, clock>>
Withdraw(k) ==
  /\ k \in published
  /\ published' = published \ {k} /\ withdrawnAt' = [withdrawnAt EXCEPT ![k] = clock]
  /\ UNCHANGED <<cacheVars, stage, header, fetchVars, historyVars, publishedAt, clock>>

(* The steps from the lock to the second look take no time.                 *)
Tick ==
  /\ clock < MaxClock /\ \A r \in Requests : stage[r] # "lookup"
  /\ clock' = clock + 1
  /\ UNCHANGED <<cacheVars, stage, header, fetchVars, historyVars, cognitoVars>>

Next ==
  \/ \E r \in Requests :
       \/ \E public \in BOOLEAN : Arrive(r, public)
       \/ ReadCache(r) \/ Answer(r) \/ FetchFails(r) \/ Store(r) \/ Lookup(r)
  \/ \E k \in Kids : Publish(k) \/ Withdraw(k)
  \/ Tick

Spec == Init /\ [][Next]_vars

-----------------------------------------------------------------------------
TypeOK ==
  /\ keys \subseteq Kids /\ published \subseteq Kids
  /\ fetchedAt \in Nat /\ clock \in Nat /\ stores \in Nat
  /\ stage \in [Requests -> Stages] /\ header \in [Requests -> Headers]
  /\ sentAt \in [Requests -> Nat] /\ response \in [Requests -> SUBSET Kids]
  /\ seenAt \in [Requests -> Nat] /\ broken \in [Requests -> BOOLEAN]
  /\ mark \in [Requests -> Nat]
  /\ publishedAt \in [Kids -> Nat] /\ withdrawnAt \in [Kids -> Nat]

(* Nobody is taken for a principal by a key that Cognito withdrew longer    *)
(* than the cache and one fetch may last before, although a slow answer may *)
(* replace a newer set and starts the hour of the cache anew.               *)
WithdrawnKeysExpire ==
  \A r \in Requests :
    stage[r] = "principal" =>
      \/ header[r].kid \in published
      \/ seenAt[r] <= withdrawnAt[header[r].kid] + Ttl + Timeout

(* A token that is right, signed with a key that was published before its   *)
(* request asked Cognito and still is, is refused only when that fetch      *)
(* failed or another request replaced the set before the second look.       *)
RightTokensPass ==
  \A r \in Requests :
    (/\ stage[r] = "unauthorized" /\ header[r].form = "bearer" /\ header[r].claims = "ok"
     /\ header[r].kid \in published /\ publishedAt[header[r].kid] < sentAt[r])
    => broken[r] \/ stores # mark[r]

-----------------------------------------------------------------------------
(* What the key cache promises, proved for any number of requests, keys     *)
(* and durations.                                                           *)

(* Times that were taken lie in the past, and nothing happens between a     *)
(* store and the second look of the same request.                          *)
TimesInv ==
  /\ fetchedAt <= clock
  /\ \A r \in Requests : /\ sentAt[r] <= clock
                         /\ stage[r] = "lookup" => fetchedAt = clock
                         /\ stage[r] = "principal" => seenAt[r] <= clock
  /\ \A k \in Kids : publishedAt[k] <= clock /\ withdrawnAt[k] <= clock

(* Every key of a set that was answered, or is cached, is still published   *)
(* or was withdrawn only after the question was sent.                       *)
ResponseInv ==
  \A r \in Requests : stage[r] = "answered" =>
    \A k \in response[r] : k \in published \/ withdrawnAt[k] >= sentAt[r]
CacheInv == \A k \in keys : k \in published \/ withdrawnAt[k] + Timeout >= fetchedAt

AgeInv == TypeOK /\ TimesInv /\ ResponseInv /\ CacheInv /\ WithdrawnKeysExpire

-----------------------------------------------------------------------------
LEMMA TypeInit == Init => TypeOK
BY DEF Init, TypeOK, Headers, Stages, Results

LEMMA TypeStep == TypeOK /\ [Next]_vars => TypeOK'
<1> SUFFICES ASSUME TypeOK, [Next]_vars PROVE TypeOK'
  OBVIOUS
<1> USE DEF TypeOK, Go
<1>1. ASSUME NEW r \in Requests, NEW public \in BOOLEAN, Arrive(r, public) PROVE TypeOK'
  <2>1. header[r].form \in {"none", "malformed", "bearer"}
    BY DEF Headers
  <2> QED
    BY <1>1, <2>1 DEF Arrive, cacheVars, fetchVars, historyVars, cognitoVars, Stages, Results
<1>2. ASSUME NEW r \in Requests, ReadCache(r) PROVE TypeOK'
  BY <1>2 DEF ReadCache, Verified, cacheVars, cognitoVars, Stages, Results
<1>3. ASSUME NEW r \in Requests, Answer(r) PROVE TypeOK'
  BY <1>3 DEF Answer, cacheVars, historyVars, cognitoVars, Stages
<1>4. ASSUME NEW r \in Requests, FetchFails(r) PROVE TypeOK'
  BY <1>4 DEF FetchFails, cacheVars, fetchVars, cognitoVars, Stages, Results
<1>5. ASSUME NEW r \in Requests, Store(r) PROVE TypeOK'
  BY <1>5 DEF Store, fetchVars, cognitoVars, Stages
<1>6. ASSUME NEW r \in Requests, Lookup(r) PROVE TypeOK'
  BY <1>6 DEF Lookup, Verified, cacheVars, fetchVars, cognitoVars, Stages, Results
<1>7. ASSUME NEW k \in Kids, Publish(k) PROVE TypeOK'
  BY <1>7 DEF Publish, cacheVars, fetchVars, historyVars
<1>8. ASSUME NEW k \in Kids, Withdraw(k) PROVE TypeOK'
  BY <1>8 DEF Withdraw, cacheVars, fetchVars, historyVars
<1>9. CASE Tick
  BY <1>9 DEF Tick, cacheVars, fetchVars, historyVars, cognitoVars
<1>10. CASE UNCHANGED vars
  BY <1>10 DEF vars, cacheVars, fetchVars, historyVars, cognitoVars
<1> QED
  BY <1>1, <1>2, <1>3, <1>4, <1>5, <1>6, <1>7, <1>8, <1>9, <1>10 DEF Next

(* The cache, the fetches and Cognito's keys keep their types.              *)
THEOREM AuthenticationTypes == Spec => []TypeOK
BY TypeInit, TypeStep, PTL DEF Spec

-----------------------------------------------------------------------------
LEMMA AgeInit == Init => AgeInv
BY TypeInit DEF Init, AgeInv, TimesInv, ResponseInv, CacheInv, WithdrawnKeysExpire

LEMMA AgeStep == AgeInv /\ [Next]_vars => AgeInv'
<1> SUFFICES ASSUME AgeInv, [Next]_vars PROVE AgeInv'
  OBVIOUS
<1>t. TypeOK'
  BY TypeStep DEF AgeInv
<1> USE TimesAssumption, <1>t DEF AgeInv, TypeOK, TimesInv, ResponseInv, CacheInv, WithdrawnKeysExpire, Go
<1>1. ASSUME NEW r \in Requests, NEW public \in BOOLEAN, Arrive(r, public) PROVE AgeInv'
  <2>1. header[r].form \in {"none", "malformed", "bearer"}
    BY DEF Headers
  <2> QED
    BY <1>1, <2>1 DEF Arrive, cacheVars, fetchVars, historyVars, cognitoVars
<1>2. ASSUME NEW r \in Requests, ReadCache(r) PROVE AgeInv'
  <2>1. header[r].kid \in Kids
    BY DEF Headers
  <2> QED
    BY <1>2, <2>1 DEF ReadCache, Verified, Fresh, cacheVars, cognitoVars
<1>3. ASSUME NEW r \in Requests, Answer(r) PROVE AgeInv'
  BY <1>3 DEF Answer, cacheVars, historyVars, cognitoVars
<1>4. ASSUME NEW r \in Requests, FetchFails(r) PROVE AgeInv'
  BY <1>4 DEF FetchFails, cacheVars, fetchVars, cognitoVars
<1>5. ASSUME NEW r \in Requests, Store(r) PROVE AgeInv'
  BY <1>5 DEF Store, fetchVars, cognitoVars
<1>6. ASSUME NEW r \in Requests, Lookup(r) PROVE AgeInv'
  <2>1. header[r].kid \in Kids
    BY DEF Headers
  <2> QED
    BY <1>6, <2>1 DEF Lookup, Verified, cacheVars, fetchVars, cognitoVars
<1>7. ASSUME NEW k \in Kids, Publish(k) PROVE AgeInv'
  BY <1>7 DEF Publish, cacheVars, fetchVars, historyVars
<1>8. ASSUME NEW k \in Kids, Withdraw(k) PROVE AgeInv'
  BY <1>8 DEF Withdraw, cacheVars, fetchVars, historyVars, Headers
<1>9. CASE Tick
  BY <1>9 DEF Tick, cacheVars, fetchVars, historyVars, cognitoVars
<1>10. CASE UNCHANGED vars
  BY <1>10 DEF vars, cacheVars, fetchVars, historyVars, cognitoVars
<1> QED
  BY <1>1, <1>2, <1>3, <1>4, <1>5, <1>6, <1>7, <1>8, <1>9, <1>10 DEF Next

(* Whatever the order of the fetches, a withdrawn key admits nobody once    *)
(* the cache's time and one fetch's time have passed.                       *)
THEOREM WithdrawnKeysAreForgotten == Spec => []WithdrawnKeysExpire
BY AgeInit, AgeStep, PTL DEF Spec, AgeInv

(* An answer on its way holds no key that was withdrawn before its question *)
(* was sent, and the cached set none that was withdrawn longer than one     *)
(* fetch may take before it was stored: also when fetches overtake another. *)
THEOREM CachedKeysWereCurrent == Spec => [](ResponseInv /\ CacheInv)
BY AgeInit, AgeStep, PTL DEF Spec, AgeInv

-----------------------------------------------------------------------------
(* The history of stores counts a request's own, and a key that was there   *)
(* before the question and still is was in the answer.                      *)
OwnStoreInv ==
  /\ \A r \in Requests :
       /\ mark[r] <= stores
       /\ stage[r] = "lookup" /\ mark[r] = stores => keys = response[r]
       /\ stage[r] \in {"answered", "lookup"} =>
            \A k \in published : publishedAt[k] < sentAt[r] => k \in response[r]
       /\ stage[r] \in {"idle", "cache"} => sentAt[r] = 0

RefusalInv == AgeInv /\ OwnStoreInv /\ RightTokensPass

LEMMA RefusalInit == Init => RefusalInv
BY AgeInit DEF Init, RefusalInv, OwnStoreInv, RightTokensPass

LEMMA RefusalStep == RefusalInv /\ [Next]_vars => RefusalInv'
<1> SUFFICES ASSUME RefusalInv, [Next]_vars PROVE RefusalInv'
  OBVIOUS
<1>a. AgeInv'
  BY AgeStep DEF RefusalInv
<1> USE <1>a DEF RefusalInv, AgeInv, TypeOK, TimesInv, OwnStoreInv, RightTokensPass, Go
<1>1. ASSUME NEW r \in Requests, NEW public \in BOOLEAN, Arrive(r, public) PROVE RefusalInv'
  <2>1. header[r].form \in {"none", "malformed", "bearer"}
    BY DEF Headers
  <2> QED
    BY <1>1, <2>1 DEF Arrive, cacheVars, fetchVars, historyVars, cognitoVars
<1>2. ASSUME NEW r \in Requests, ReadCache(r) PROVE RefusalInv'
  <2>1. header[r].kid \in Kids
    BY DEF Headers
  <2> QED
    BY <1>2, <2>1 DEF ReadCache, Verified, Fresh, cacheVars, cognitoVars
<1>3. ASSUME NEW r \in Requests, Answer(r) PROVE RefusalInv'
  BY <1>3 DEF Answer, cacheVars, historyVars, cognitoVars
<1>4. ASSUME NEW r \in Requests, FetchFails(r) PROVE RefusalInv'
  BY <1>4 DEF FetchFails, cacheVars, fetchVars, cognitoVars
<1>5. ASSUME NEW r \in Requests, Store(r) PROVE RefusalInv'
  BY <1>5 DEF Store, fetchVars, cognitoVars
<1>6. ASSUME NEW r \in Requests, Lookup(r) PROVE RefusalInv'
  <2>1. header[r].kid \in Kids
    BY DEF Headers
  <2> QED
    BY <1>6, <2>1 DEF Lookup, Verified, cacheVars, fetchVars, cognitoVars
<1>7. ASSUME NEW k \in Kids, Publish(k) PROVE RefusalInv'
  BY <1>7 DEF Publish, cacheVars, fetchVars, historyVars
<1>8. ASSUME NEW k \in Kids, Withdraw(k) PROVE RefusalInv'
  BY <1>8 DEF Withdraw, cacheVars, fetchVars, historyVars
<1>9. CASE Tick
  BY <1>9 DEF Tick, cacheVars, fetchVars, historyVars, cognitoVars
<1>10. CASE UNCHANGED vars
  BY <1>10 DEF vars, cacheVars, fetchVars, historyVars, cognitoVars
<1> QED
  BY <1>1, <1>2, <1>3, <1>4, <1>5, <1>6, <1>7, <1>8, <1>9, <1>10 DEF Next

(* A right token is refused only by a failed fetch or by another request's  *)
(* answer in between.                                                       *)
THEOREM RightTokensAreTaken == Spec => []RightTokensPass
BY RefusalInit, RefusalStep, PTL DEF Spec, RefusalInv
=============================================================================
