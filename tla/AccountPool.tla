----------------------------- MODULE AccountPool ----------------------------
(***************************************************************************)
(* The account pool of internal/account and the request loop that uses it  *)
(* (sendWithRetry in internal/server/helpers.go and the two chat           *)
(* handlers).  The pool is a buffered Go channel holding every account     *)
(* that no request holds; a request receives an account from it, makes the *)
(* account ready (JWT, quota), sends the prompt upstream, retries with     *)
(* another account when upstream answers 477, and puts the account back    *)
(* when its handler returns.                                               *)
(*                                                                         *)
(* Requests are identities that are used again and again: "idle" is both a *)
(* connection that has not arrived and a handler that has returned.        *)
(***************************************************************************)
EXTENDS Naturals, Sequences, FiniteSets, Functions

CONSTANTS Accounts,            \* the configured accounts
          Requests,            \* the concurrent HTTP requests
          NoAccount,           \* "no account held"
          Licensed,            \* accounts configured with a licence id
          CacheKey,            \* the quota-cache key of each account
          MaxUpstreamRetries   \* sends per request, core.MaxUpstreamRetries

ASSUME AccountsAssumption == /\ IsFiniteSet(Accounts)
                             /\ Accounts # {}
                             /\ NoAccount \notin Accounts
                             /\ Licensed \subseteq Accounts
ASSUME RetriesAssumption == MaxUpstreamRetries \in Nat \ {0}

Total == Cardinality(Accounts)
MaxAttempts == Total * 2
MaxTries == IF Total < MaxUpstreamRetries THEN Total ELSE MaxUpstreamRetries
Keys == {CacheKey[a] : a \in Accounts}

\* What the code can tell of a JWT from the account's JWT and ExpiryTime:
\* absent, more than JWTRefreshTime to live, less than that, past its
\* expiry, or stored with a zero ExpiryTime because it did not parse.
JwtStates == {"empty", "valid", "aging", "expired", "opaque"}
IssuedJwts == JwtStates \ {"empty"}

\* Where a request has an account in its hands, and all the places it can be.
Holding == {"got", "refresh", "quota", "lookup", "fetch", "verdict", "send",
            "respond"}
PCs == Holding \cup {"idle", "start", "select", "unavailable"}

VARIABLES pool,       \* the channel's buffer
          jwt,        \* the JWT of each live account
          hasQuota,   \* HasQuota of each live account
          cached,     \* the keys present in the quota cache
          pc,         \* where each request is
          acct,       \* the account each request holds
          tried,      \* triedAccounts of the current AcquireAccount call
          attempts,   \* attempts of the current AcquireAccount call
          tries,      \* rounds of the sendWithRetry loop begun
          cancelled   \* the request's context is done

accountVars == <<jwt, hasQuota>>
loopVars == <<tried, attempts, tries>>
vars == <<pool, jwt, hasQuota, cached, pc, acct, tried, attempts, tries,
          cancelled>>

-----------------------------------------------------------------------------
(* The channel.                                                            *)

\* Mutated form: the account is sent back twice.
Buffered_Twice(a) == Append(Append(pool, a), a)

\* The buffer after a non-blocking send: a full buffer drops the account.
Buffered(a) == IF Len(pool) < Total THEN Append(pool, a) ELSE pool

\* ReleaseAccount: the request's account goes back to the channel.
Release(r) == /\ pool' = Buffered(acct[r])
              /\ acct' = [acct EXCEPT ![r] = NoAccount]

\* The handler returns; its local variables are gone.
Return(r) == /\ pc' = [pc EXCEPT ![r] = "idle"]
             /\ tried' = [tried EXCEPT ![r] = {}]
             /\ attempts' = [attempts EXCEPT ![r] = 0]
             /\ tries' = [tries EXCEPT ![r] = 0]
             /\ cancelled' = [cancelled EXCEPT ![r] = FALSE]

\* Mutated form: the loop only stops when every account was tried.
NextAttempt_Unbounded(r) ==
  /\ attempts' = [attempts EXCEPT ![r] = @ + 1]
  /\ pc' = [pc EXCEPT ![r] = IF tried[r] # Accounts THEN "select" ELSE "unavailable"]
  /\ UNCHANGED <<tried, tries, cancelled>>

\* Control returns to the loop of AcquireAccount after a failed attempt.
NextAttempt(r) ==
  /\ attempts' = [attempts EXCEPT ![r] = @ + 1]
  /\ pc' = [pc EXCEPT ![r] =
              IF attempts[r] + 1 < MaxAttempts /\ tried[r] # Accounts
              THEN "select" ELSE "unavailable"]
  /\ UNCHANGED <<tried, tries, cancelled>>

-----------------------------------------------------------------------------
(* Initial state: NewPooledAccountManager over accounts read from the      *)
(* environment, which have quota until shown otherwise.                    *)

Init ==
  /\ pool \in {q \in [1 .. Total -> Accounts] : Range(q) = Accounts}
  /\ jwt = [a \in Accounts |-> IF a \in Licensed THEN "empty" ELSE "valid"]
  /\ hasQuota = [a \in Accounts |-> TRUE]
  /\ cached = {}
  /\ pc = [r \in Requests |-> "idle"]
  /\ acct = [r \in Requests |-> NoAccount]
  /\ tried = [r \in Requests |-> {}]
  /\ attempts = [r \in Requests |-> 0]
  /\ tries = [r \in Requests |-> 0]
  /\ cancelled = [r \in Requests |-> FALSE]

-----------------------------------------------------------------------------
(* The handler and the sendWithRetry loop.                                 *)

Arrive(r) == /\ pc[r] = "idle"
             /\ pc' = [pc EXCEPT ![r] = "start"]
             /\ UNCHANGED <<pool, accountVars, cached, acct, loopVars, cancelled>>

\* Mutated form: the rounds are not counted.
StartTry_Uncounted(r) == /\ pc[r] = "start"
                         /\ ~cancelled[r] /\ tries[r] < MaxTries
                         /\ pc' = [pc EXCEPT ![r] = "select"]
                         /\ tried' = [tried EXCEPT ![r] = {}]
                         /\ attempts' = [attempts EXCEPT ![r] = 0]
                         /\ UNCHANGED <<pool, accountVars, cached, acct, tries, cancelled>>

\* The next round of the loop calls AcquireAccount.
StartTry(r) == /\ pc[r] = "start"
               /\ ~cancelled[r] /\ tries[r] < MaxTries
               /\ pc' = [pc EXCEPT ![r] = "select"]
               /\ tries' = [tries EXCEPT ![r] = @ + 1]
               /\ tried' = [tried EXCEPT ![r] = {}]
               /\ attempts' = [attempts EXCEPT ![r] = 0]
               /\ UNCHANGED <<pool, accountVars, cached, acct, cancelled>>

\* The context is done, or every round ended in a 477.
StopTrying(r) == /\ pc[r] = "start"
                 /\ cancelled[r] \/ tries[r] >= MaxTries
                 /\ Return(r)
                 /\ UNCHANGED <<pool, accountVars, cached, acct>>

-----------------------------------------------------------------------------
(* AcquireAccount: the select of tryAcquireOnce.                           *)

Receive(r) == /\ pc[r] = "select"
              /\ pool # <<>>
              /\ acct' = [acct EXCEPT ![r] = Head(pool)]
              /\ pool' = Tail(pool)
              /\ pc' = [pc EXCEPT ![r] = "got"]
              /\ UNCHANGED <<accountVars, cached, loopVars, cancelled>>

\* ctx.Done() was chosen, or nothing came for AccountAcquireTimeout.
SelectFails(r) == /\ pc[r] = "select"
                  /\ cancelled[r] \/ pool = <<>>
                  /\ Return(r)
                  /\ UNCHANGED <<pool, accountVars, cached, acct>>

\* AcquireAccount ran out of attempts or of accounts: the client gets a 429.
ReportUnavailable(r) == /\ pc[r] = "unavailable"
                        /\ Return(r)
                        /\ UNCHANGED <<pool, accountVars, cached, acct>>

-----------------------------------------------------------------------------
(* processAccount and ensureAccountReady.                                  *)

\* Less than JWTRefreshTime to live; a zero ExpiryTime is long past.
NeedsRefresh(a) == a \in Licensed /\ jwt[a] # "valid"
\* EnsureValidJWT's own, weaker test.
NeedsValidJwt(a) == a \in Licensed /\ jwt[a] \in {"empty", "expired"}

PutBackTried(r) == /\ pc[r] = "got"
                   /\ acct[r] \in tried[r]
                   /\ Release(r)
                   /\ NextAttempt(r)
                   /\ UNCHANGED <<accountVars, cached>>

\* Mutated form: an account without a JWT is not refreshed.
BeginCheck_NoRefresh(r) ==
  /\ pc[r] = "got"
  /\ acct[r] \notin tried[r]
  /\ tried' = [tried EXCEPT ![r] = @ \cup {acct[r]}]
  /\ pc' = [pc EXCEPT ![r] = "lookup"]
  /\ UNCHANGED <<pool, accountVars, cached, acct, attempts, tries, cancelled>>

BeginCheck(r) ==
  /\ pc[r] = "got"
  /\ acct[r] \notin tried[r]
  /\ tried' = [tried EXCEPT ![r] = @ \cup {acct[r]}]
  /\ pc' = [pc EXCEPT ![r] = IF NeedsRefresh(acct[r]) THEN "refresh" ELSE "quota"]
  /\ UNCHANGED <<pool, accountVars, cached, acct, attempts, tries, cancelled>>

\* The readiness check failed: back to the pool and to the loop.
Reject(r) == /\ Release(r)
             /\ NextAttempt(r)
             /\ UNCHANGED hasQuota

\* RefreshJWT, called by ensureAccountReady, and the refresh of
\* EnsureValidJWT, called by GetQuotaData.
Refreshing(r) == \/ pc[r] = "refresh"
                 \/ pc[r] = "quota" /\ NeedsValidJwt(acct[r])

RefreshOK(r) ==
  /\ Refreshing(r)
  /\ \E j \in IssuedJwts : jwt' = [jwt EXCEPT ![acct[r]] = j]
  /\ pc' = [pc EXCEPT ![r] = IF @ = "refresh" THEN "quota" ELSE "lookup"]
  /\ UNCHANGED <<pool, hasQuota, cached, acct, loopVars, cancelled>>

RefreshFails(r) == Refreshing(r) /\ Reject(r) /\ UNCHANGED <<jwt, cached>>

\* A cache hit leaves HasQuota as it is.
LookUp(r) ==
  /\ pc[r] = "lookup" \/ (pc[r] = "quota" /\ ~NeedsValidJwt(acct[r]))
  /\ pc' = [pc EXCEPT ![r] = IF CacheKey[acct[r]] \in cached
                             THEN "verdict" ELSE "fetch"]
  /\ UNCHANGED <<pool, accountVars, cached, acct, loopVars, cancelled>>

\* A 401 answer to a licensed account refreshes its JWT before the answer
\* that counts (HandleJWTExpiredAndRetry).
MayRefresh(a) == \/ UNCHANGED jwt
                 \/ /\ a \in Licensed
                    /\ \E j \in IssuedJwts : jwt' = [jwt EXCEPT ![a] = j]

FetchOK(r) ==
  /\ pc[r] = "fetch"
  /\ MayRefresh(acct[r])
  /\ \E q \in BOOLEAN : hasQuota' = [hasQuota EXCEPT ![acct[r]] = q]
  /\ cached' = cached \cup {CacheKey[acct[r]]}
  /\ pc' = [pc EXCEPT ![r] = "verdict"]
  /\ UNCHANGED <<pool, acct, loopVars, cancelled>>

\* No answer, or not a 200; a final 401 deletes the cache entry.
FetchFails(r) ==
  /\ pc[r] = "fetch"
  /\ MayRefresh(acct[r])
  /\ cached' \in {cached, cached \ {CacheKey[acct[r]]}}
  /\ Reject(r)

Accept(r) == /\ pc[r] = "verdict"
             /\ hasQuota[acct[r]]
             /\ pc' = [pc EXCEPT ![r] = "send"]
             /\ UNCHANGED <<pool, accountVars, cached, acct, loopVars, cancelled>>

OverQuota(r) == /\ pc[r] = "verdict"
                /\ ~hasQuota[acct[r]]
                /\ Reject(r)
                /\ UNCHANGED <<jwt, cached>>

-----------------------------------------------------------------------------
(* SendUpstreamRequest and what sendWithRetry and the handlers do next.    *)

\* Mutated form: the error branch returns without releasing the account.
SendFails_Leaks(r) == /\ pc[r] = "send"
                      /\ Return(r)
                      /\ UNCHANGED <<pool, acct, accountVars, cached>>

SendFails(r) == /\ pc[r] = "send"
                /\ Release(r)
                /\ Return(r)
                /\ UNCHANGED <<accountVars, cached>>

\* Upstream answered 477: the account is marked and the loop goes on.
Exhausted(r) == /\ pc[r] = "send"
                /\ hasQuota' = [hasQuota EXCEPT ![acct[r]] = FALSE]
                /\ Release(r)
                /\ pc' = [pc EXCEPT ![r] = "start"]
                /\ UNCHANGED <<jwt, cached, loopVars, cancelled>>

\* Any other status: the handler keeps the account while it responds.
Answered(r) == /\ pc[r] = "send"
               /\ pc' = [pc EXCEPT ![r] = "respond"]
               /\ UNCHANGED <<pool, accountVars, cached, acct, loopVars, cancelled>>

\* The response ends, the client leaves or the handler panics: the deferred
\* ReleaseAccount runs in every case.
Finish(r) == /\ pc[r] = "respond"
             /\ Release(r)
             /\ Return(r)
             /\ UNCHANGED <<accountVars, cached>>

-----------------------------------------------------------------------------
(* The surroundings.                                                       *)

\* The client disconnects.
Cancel(r) == /\ pc[r] # "idle" /\ ~cancelled[r]
             /\ cancelled' = [cancelled EXCEPT ![r] = TRUE]
             /\ UNCHANGED <<pool, accountVars, cached, pc, acct, loopVars>>

\* Time passes for a JWT with a known expiry.  A static JWT ages too, but
\* nothing on this path looks at its expiry.
Age(a) == /\ a \in Licensed
          /\ jwt[a] \in {"valid", "aging"}
          /\ jwt' = [jwt EXCEPT ![a] = IF @ = "valid" THEN "aging" ELSE "expired"]
          /\ UNCHANGED <<pool, hasQuota, cached, pc, acct, loopVars, cancelled>>

\* A cache entry runs out, is evicted, or is deleted on the stats page's 401.
CacheDrops(k) == /\ k \in cached
                 /\ cached' = cached \ {k}
                 /\ UNCHANGED <<pool, accountVars, pc, acct, loopVars, cancelled>>

\* Mutated form: the stats page works on the live account, not on a copy.
StatsPage_Live(a) ==
  /\ CacheKey[a] \notin cached
  /\ cached' = cached \cup {CacheKey[a]}
  /\ \E q \in BOOLEAN : hasQuota' = [hasQuota EXCEPT ![a] = q]
  /\ UNCHANGED <<pool, jwt, pc, acct, loopVars, cancelled>>

\* getStatsData checks a copy of each account, held or not: only the cache
\* keeps what it finds.
StatsPage(a) == /\ CacheKey[a] \notin cached
                /\ cached' = cached \cup {CacheKey[a]}
                /\ UNCHANGED <<pool, accountVars, pc, acct, loopVars, cancelled>>

-----------------------------------------------------------------------------
\* What the goroutine of a request does once it has arrived.
Serve(r) == \/ StartTry(r) \/ StopTrying(r)
            \/ Receive(r) \/ SelectFails(r) \/ ReportUnavailable(r)
            \/ PutBackTried(r) \/ BeginCheck(r)
            \/ RefreshOK(r) \/ RefreshFails(r)
            \/ LookUp(r) \/ FetchOK(r) \/ FetchFails(r)
            \/ Accept(r) \/ OverQuota(r)
            \/ SendFails(r) \/ Exhausted(r) \/ Answered(r) \/ Finish(r)

Next == \/ \E r \in Requests : Arrive(r) \/ Serve(r) \/ Cancel(r)
        \/ \E a \in Accounts : Age(a) \/ StatsPage(a)
        \/ \E k \in Keys : CacheDrops(k)

\* Goroutines run; the select ends after AccountAcquireTimeout at the latest,
\* and every call upstream ends by the HTTP client's RequestTimeout.
Fairness == \A r \in Requests : WF_vars(Serve(r))

Spec == Init /\ [][Next]_vars

FairSpec == Spec /\ Fairness

-----------------------------------------------------------------------------
(* Properties.                                                             *)

TypeOK ==
  /\ pool \in Seq(Accounts) /\ Len(pool) <= Total
  /\ jwt \in [Accounts -> JwtStates]
  /\ hasQuota \in [Accounts -> BOOLEAN]
  /\ cached \subseteq Keys
  /\ pc \in [Requests -> PCs]
  /\ acct \in [Requests -> Accounts \cup {NoAccount}]
  /\ tried \in [Requests -> SUBSET Accounts]
  /\ attempts \in [Requests -> 0 .. MaxAttempts]
  /\ tries \in [Requests -> 0 .. MaxTries]
  /\ cancelled \in [Requests -> BOOLEAN]

\* A request has an account exactly while it is checking or using one, so
\* every way out of those places has released it (processAccount, the error
\* and 477 branches of sendWithRetry, the deferred ReleaseAccount).
HeldWhileHolding ==
  \A r \in Requests : acct[r] # NoAccount <=> pc[r] \in Holding

\* The channel never holds an account twice, or one that a request holds,
\* and no two requests hold the same account: one upstream conversation per
\* account at a time.
Exclusive ==
  /\ \A i, j \in 1 .. Len(pool) : pool[i] = pool[j] => i = j
  /\ \A r \in Requests : acct[r] # NoAccount =>
       /\ acct[r] \notin Range(pool)
       /\ \A s \in Requests : acct[s] = acct[r] => s = r

\* No account is ever lost: it is in the channel or in a request's hands.
NothingLost ==
  \A a \in Accounts : a \in Range(pool) \/ \E r \in Requests : acct[r] = a

\* The "account pool is full" branch of ReleaseAccount, which would lose an
\* account, is never taken: whoever holds an account finds room for it.
RoomToRelease ==
  (\E r \in Requests : acct[r] # NoAccount) => Len(pool) < Total

\* A prompt goes out only on an account that has a JWT and is believed to
\* have quota, and that stays so for as long as the request uses it, whatever
\* other requests and the stats page do meanwhile.
ReadyWhenSent ==
  \A r \in Requests : pc[r] \in {"send", "respond"} =>
    hasQuota[acct[r]] /\ jwt[acct[r]] # "empty"

\* Only the request that holds an account changes its quota status or gives
\* it a new JWT; everybody else works on copies.
OnlyHolderWrites ==
  [][\A a \in Accounts :
       hasQuota'[a] # hasQuota[a] \/ (jwt'[a] # jwt[a] /\ ~Age(a)) =>
         \E r \in Requests : acct[r] = a]_vars

\* Every request that arrives is answered: the loops of AcquireAccount and
\* sendWithRetry end, and nobody waits for ever.
RequestsEnd == \A r \in Requests : pc[r] # "idle" ~> pc[r] = "idle"

\* The pool lends accounts as AccountLease promises; FairLease adds that a
\* lent account comes back.
Lease == INSTANCE AccountLease WITH free <- Range(pool), holds <- acct
LeaseSpec == Lease!Spec
FairLease == Lease!FairSpec
=============================================================================
