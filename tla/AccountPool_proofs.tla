------------------------- MODULE AccountPool_proofs -------------------------
(***************************************************************************)
(* The pool never loses, duplicates or shares an account, never finds its  *)
(* channel full, sends only on accounts that are ready, and implements the *)
(* lease specification, which keeps its own promise: for every set of      *)
(* accounts and of requests.                                               *)
(*                                                                         *)
(* Every step does one of three things to the channel: it takes the head,  *)
(* gives an account back, or leaves it alone (ChannelEffect). The proofs   *)
(* about the channel go by these three cases, the others by action.        *)
(***************************************************************************)
EXTENDS AccountPool, TLAPS, FiniteSetTheorems

-----------------------------------------------------------------------------
(* The inductive invariant.                                                *)

\* The loop of AcquireAccount is inside its bound while it runs.
AttemptsInBound ==
  \A r \in Requests : pc[r] \in Holding \cup {"select"} => attempts[r] < MaxAttempts

\* An account past EnsureValidJWT has a JWT; a static account always has one.
JwtPresent ==
  /\ \A a \in Accounts \ Licensed : jwt[a] # "empty"
  /\ \A r \in Requests :
       pc[r] \in {"lookup", "fetch", "verdict", "send", "respond"} =>
         jwt[acct[r]] # "empty"

IInv == /\ TypeOK
        /\ AttemptsInBound
        /\ HeldWhileHolding
        /\ Exclusive
        /\ NothingLost
        /\ JwtPresent
        /\ ReadyWhenSent

-----------------------------------------------------------------------------
(* Arithmetic and sequence lemmas.                                         *)

LEMMA TotalPositive == Total \in Nat /\ Total > 0
<1>1. Total \in Nat
  BY FS_CardinalityType, AccountsAssumption DEF Total
<1>2. Total # 0
  BY FS_EmptySet, AccountsAssumption DEF Total
<1> QED
  BY <1>1, <1>2

LEMMA MaxTriesType == MaxTries \in Nat /\ MaxAttempts \in Nat /\ MaxAttempts > 0
BY TotalPositive, RetriesAssumption DEF MaxTries, MaxAttempts

\* Receiving removes exactly the head when the channel holds no duplicates.
LEMMA RangeTail ==
  ASSUME NEW S, NEW q \in Seq(S), q # <<>>,
         \A i, j \in 1 .. Len(q) : q[i] = q[j] => i = j
  PROVE  /\ Head(q) \in Range(q)
         /\ Range(Tail(q)) = Range(q) \ {Head(q)}
         /\ \A i, j \in 1 .. Len(Tail(q)) : Tail(q)[i] = Tail(q)[j] => i = j
<1>1. /\ Len(q) \in Nat \ {0} /\ DOMAIN q = 1 .. Len(q) /\ Head(q) = q[1]
      /\ Tail(q) \in Seq(S) /\ Len(Tail(q)) = Len(q) - 1
      /\ DOMAIN Tail(q) = 1 .. Len(q) - 1
      /\ \A i \in 1 .. Len(q) - 1 : Tail(q)[i] = q[i + 1]
  OBVIOUS
<1>2. Head(q) \in Range(q)
  BY <1>1 DEF Range
<1>3. ASSUME NEW x \in Range(Tail(q)) PROVE x \in Range(q) \ {Head(q)}
  <2> PICK i \in 1 .. Len(q) - 1 : x = Tail(q)[i]
    BY <1>1 DEF Range
  <2>1. x = q[i + 1] /\ i + 1 \in 1 .. Len(q) /\ i + 1 # 1 /\ 1 \in 1 .. Len(q)
    BY <1>1
  <2> QED
    BY <1>1, <2>1 DEF Range
<1>4. ASSUME NEW x \in Range(q) \ {Head(q)} PROVE x \in Range(Tail(q))
  <2> PICK i \in 1 .. Len(q) : x = q[i]
    BY <1>1 DEF Range
  <2>1. i # 1 /\ i - 1 \in 1 .. Len(q) - 1
    BY <1>1
  <2>2. Tail(q)[i - 1] = q[i]
    BY <1>1, <2>1
  <2> QED
    BY <1>1, <2>1, <2>2 DEF Range
<1>5. ASSUME NEW i \in 1 .. Len(Tail(q)), NEW j \in 1 .. Len(Tail(q)),
             Tail(q)[i] = Tail(q)[j]
      PROVE  i = j
  BY <1>1, <1>5
<1> QED
  BY <1>2, <1>3, <1>4, <1>5

\* Sending adds exactly the account, and no duplicate if it was not there.
LEMMA RangeAppend ==
  ASSUME NEW S, NEW q \in Seq(S), NEW a \in S, a \notin Range(q),
         \A i, j \in 1 .. Len(q) : q[i] = q[j] => i = j
  PROVE  LET p == Append(q, a)
         IN  /\ Range(p) = Range(q) \cup {a}
             /\ \A i, j \in 1 .. Len(p) : p[i] = p[j] => i = j
<1> DEFINE p == Append(q, a)
<1>1. /\ Len(q) \in Nat /\ DOMAIN q = 1 .. Len(q)
      /\ Len(p) = Len(q) + 1 /\ DOMAIN p = 1 .. Len(q) + 1
      /\ p[Len(q) + 1] = a
      /\ \A i \in 1 .. Len(q) : p[i] = q[i]
  OBVIOUS
<1> HIDE DEF p
<1>2. \A i \in 1 .. Len(q) : q[i] \in Range(q) /\ q[i] # a
  BY <1>1 DEF Range
<1>3. ASSUME NEW i \in 1 .. Len(p), NEW j \in 1 .. Len(p), p[i] = p[j]
      PROVE  i = j
  <2>1. CASE i \in 1 .. Len(q) /\ j \in 1 .. Len(q)
    BY <1>1, <1>3, <2>1
  <2>2. CASE i = Len(q) + 1 \/ j = Len(q) + 1
    BY <1>1, <1>2, <1>3, <2>2
  <2> QED
    BY <1>1, <2>1, <2>2
<1>4. Range(p) = Range(q) \cup {a}
  <2>1. ASSUME NEW x \in Range(p) PROVE x \in Range(q) \cup {a}
    <3> PICK i \in 1 .. Len(q) + 1 : x = p[i]
      BY <1>1 DEF Range
    <3> QED
      BY <1>1, <1>2
  <2>2. ASSUME NEW x \in Range(q) PROVE x \in Range(p)
    <3> PICK i \in 1 .. Len(q) : x = q[i]
      BY <1>1 DEF Range
    <3>1. i \in DOMAIN p /\ p[i] = x
      BY <1>1
    <3> QED
      BY <3>1 DEF Range
  <2>3. a \in Range(p)
    <3>1. Len(q) + 1 \in DOMAIN p
      BY <1>1
    <3> QED
      BY <1>1, <3>1 DEF Range
  <2> QED
    BY <2>1, <2>2, <2>3
<1> QED
  BY <1>3, <1>4 DEF p

-----------------------------------------------------------------------------
(* The initial state.                                                      *)

LEMMA InitIInv == Init => IInv
<1> SUFFICES ASSUME Init PROVE IInv
  OBVIOUS
<1> USE TotalPositive, MaxTriesType, AccountsAssumption
<1>1. /\ pool \in [1 .. Total -> Accounts] /\ Range(pool) = Accounts
      /\ pool \in Seq(Accounts) /\ Len(pool) = Total
  BY DEF Init
<1>2. TypeOK
  BY <1>1 DEF Init, TypeOK, JwtStates, PCs
<1>3. \A i, j \in 1 .. Len(pool) : pool[i] = pool[j] => i = j
  <2>1. IsFiniteSet(1 .. Total) /\ Cardinality(1 .. Total) = Total
    BY FS_Interval
  <2>2. pool \in Surjection(1 .. Total, Accounts)
    BY <1>1 DEF Surjection, Range
  <2>3. pool \in Injection(1 .. Total, Accounts)
    BY <2>1, <2>2, FS_SurjSameCardinalityImpliesInj DEF Total
  <2> QED
    BY <1>1, <2>3 DEF Injection, IsInjective
<1>4. AttemptsInBound /\ HeldWhileHolding /\ JwtPresent /\ ReadyWhenSent
  BY DEF Init, AttemptsInBound, HeldWhileHolding, Holding, JwtPresent, ReadyWhenSent
<1>5. Exclusive /\ NothingLost
  BY <1>1, <1>3 DEF Init, Exclusive, NothingLost
<1> QED
  BY <1>2, <1>4, <1>5 DEF IInv

-----------------------------------------------------------------------------
(* What a step does to the channel.                                        *)

Take(r) == /\ pc[r] = "select" /\ pool # <<>>
           /\ acct' = [acct EXCEPT ![r] = Head(pool)]
           /\ pool' = Tail(pool)

Give(r) == pc[r] \in Holding /\ Release(r)

LEMMA ChannelEffect ==
  ASSUME Next
  PROVE  \/ \E r \in Requests : Take(r)
         \/ \E r \in Requests : Give(r)
         \/ UNCHANGED <<pool, acct>>
<1>1. ASSUME NEW r \in Requests, Serve(r)
      PROVE  Take(r) \/ Give(r) \/ UNCHANGED <<pool, acct>>
  <2>1. CASE Receive(r)
    BY <2>1 DEF Receive, Take
  <2>2. CASE PutBackTried(r) \/ OverQuota(r) \/ FetchFails(r)
    BY <2>2 DEF PutBackTried, OverQuota, FetchFails, Reject, Give, Holding
  <2>3. CASE RefreshFails(r)
    BY <2>3 DEF RefreshFails, Refreshing, Reject, Give, Holding
  <2>4. CASE SendFails(r) \/ Exhausted(r) \/ Finish(r)
    BY <2>4 DEF SendFails, Exhausted, Finish, Give, Holding
  <2>5. CASE StartTry(r) \/ StopTrying(r) \/ SelectFails(r) \/ ReportUnavailable(r)
    BY <2>5 DEF StartTry, StopTrying, SelectFails, ReportUnavailable
  <2>6. CASE BeginCheck(r) \/ RefreshOK(r) \/ LookUp(r) \/ FetchOK(r)
             \/ Accept(r) \/ Answered(r)
    BY <2>6 DEF BeginCheck, RefreshOK, LookUp, FetchOK, Accept, Answered
  <2> QED
    BY <1>1, <2>1, <2>2, <2>3, <2>4, <2>5, <2>6 DEF Serve
<1>2. ASSUME NEW r \in Requests, Arrive(r) \/ Cancel(r)
      PROVE  UNCHANGED <<pool, acct>>
  BY <1>2 DEF Arrive, Cancel
<1>3. ASSUME NEW a \in Accounts, Age(a) \/ StatsPage(a)
      PROVE  UNCHANGED <<pool, acct>>
  BY <1>3 DEF Age, StatsPage
<1>4. ASSUME NEW k \in Keys, CacheDrops(k)
      PROVE  UNCHANGED <<pool, acct>>
  BY <1>4 DEF CacheDrops
<1> QED
  BY <1>1, <1>2, <1>3, <1>4 DEF Next

\* Whoever holds an account finds the channel less than full: the accounts in
\* it are different and none of them is the one held.
LEMMA HolderFindsRoom ==
  ASSUME TypeOK, Exclusive, NEW r \in Requests, acct[r] # NoAccount
  PROVE  Len(pool) < Total
<1> DEFINE a == acct[r]
<1>1. a \in Accounts /\ a \notin Range(pool)
  BY DEF TypeOK, Exclusive
<1>2. Len(pool) \in Nat /\ DOMAIN pool = 1 .. Len(pool)
  BY DEF TypeOK
<1>3. pool \in [1 .. Len(pool) -> Accounts \ {a}]
  BY <1>1, <1>2 DEF TypeOK, Range
<1>4. pool \in Injection(1 .. Len(pool), Accounts \ {a})
  BY <1>3 DEF Exclusive, Injection, IsInjective
<1>5. IsFiniteSet(Accounts \ {a}) /\ Cardinality(Accounts \ {a}) = Total - 1
  BY <1>1, AccountsAssumption, FS_RemoveElement DEF Total
<1>6. Cardinality(1 .. Len(pool)) = Len(pool)
  <2> \A n \in Nat : Cardinality(1 .. n) = n
    <3> SUFFICES ASSUME NEW n \in Nat PROVE Cardinality(1 .. n) = n
      OBVIOUS
    <3>1. Cardinality(1 .. n) = IF 1 > n THEN 0 ELSE n - 1 + 1
      BY FS_Interval
    <3> QED
      BY <3>1
  <2> QED
    BY <1>2
<1>7. Cardinality(1 .. Len(pool)) <= Cardinality(Accounts \ {a})
  BY <1>4, <1>5, FS_Injection
<1> QED
  BY <1>2, <1>5, <1>6, <1>7, TotalPositive

\* What taking and giving do to the set of free accounts.
LEMMA TakeEffect ==
  ASSUME IInv, NEW r \in Requests, Take(r)
  PROVE  /\ acct[r] = NoAccount
         /\ Head(pool) \in Range(pool) /\ Head(pool) \in Accounts
         /\ Range(pool') = Range(pool) \ {Head(pool)}
         /\ \A i, j \in 1 .. Len(pool') : pool'[i] = pool'[j] => i = j
<1>1. acct[r] = NoAccount
  BY DEF IInv, HeldWhileHolding, Take, Holding
<1>2. Head(pool) \in Accounts
  BY DEF IInv, TypeOK, Take
<1> QED
  BY <1>1, <1>2, RangeTail DEF IInv, TypeOK, Exclusive, Take

LEMMA GiveEffect ==
  ASSUME IInv, NEW r \in Requests, Give(r)
  PROVE  /\ acct[r] \in Accounts /\ acct[r] # NoAccount
         /\ acct' = [acct EXCEPT ![r] = NoAccount]
         /\ Range(pool') = Range(pool) \cup {acct[r]}
         /\ \A i, j \in 1 .. Len(pool') : pool'[i] = pool'[j] => i = j
<1>1. acct[r] \in Accounts /\ acct[r] # NoAccount
  BY DEF IInv, TypeOK, HeldWhileHolding, Give
<1>2. Len(pool) < Total
  BY <1>1, HolderFindsRoom DEF IInv
<1>3. pool' = Append(pool, acct[r])
  BY <1>2 DEF Give, Release, Buffered
<1>4. acct[r] \notin Range(pool) /\ pool \in Seq(Accounts)
  BY <1>1 DEF IInv, TypeOK, Exclusive
<1> QED
  BY <1>1, <1>3, <1>4, RangeAppend DEF IInv, Exclusive, Give, Release

\* The channel part of the invariant is kept by every step.
LEMMA ChannelStep ==
  ASSUME IInv, Next
  PROVE  Exclusive' /\ NothingLost'
<1> USE AccountsAssumption DEF IInv, TypeOK, Exclusive, NothingLost
<1>1. CASE \E r \in Requests : Take(r)
  <2> PICK r \in Requests : Take(r)
    BY <1>1
  <2>1. acct' = [acct EXCEPT ![r] = Head(pool)]
    BY DEF Take
  <2>2. \A s \in Requests : acct[s] # Head(pool)
    BY TakeEffect
  <2> QED
    BY <2>1, <2>2, TakeEffect
<1>2. CASE \E r \in Requests : Give(r)
  <2> PICK r \in Requests : Give(r)
    BY <1>2
  <2>1. /\ acct[r] \in Accounts /\ acct[r] # NoAccount
        /\ acct' = [acct EXCEPT ![r] = NoAccount]
        /\ Range(pool') = Range(pool) \cup {acct[r]}
        /\ \A i, j \in 1 .. Len(pool') : pool'[i] = pool'[j] => i = j
    BY GiveEffect
  <2>2. \A s \in Requests : acct'[s] = IF s = r THEN NoAccount ELSE acct[s]
    BY <2>1
  <2>3. ASSUME NEW s \in Requests, acct'[s] # NoAccount
        PROVE  /\ acct'[s] \notin Range(pool')
               /\ \A t \in Requests : acct'[t] = acct'[s] => t = s
    BY <2>1, <2>2, <2>3
  <2>4. NothingLost'
    <3> SUFFICES ASSUME NEW a \in Accounts
                 PROVE  a \in Range(pool') \/ \E s \in Requests : acct'[s] = a
      OBVIOUS
    <3> QED
      BY <2>1, <2>2
  <2> QED
    BY <2>1, <2>3, <2>4
<1>3. CASE UNCHANGED <<pool, acct>>
  BY <1>3
<1> QED
  BY <1>1, <1>2, <1>3, ChannelEffect

-----------------------------------------------------------------------------
(* Types, loop bounds and the places that hold an account.                 *)

ControlOK == TypeOK /\ AttemptsInBound /\ HeldWhileHolding

LEMMA ReleaseType ==
  ASSUME TypeOK, NEW r \in Requests, acct[r] \in Accounts, Release(r)
  PROVE  /\ pool' \in Seq(Accounts) /\ Len(pool') <= Total
         /\ acct' = [acct EXCEPT ![r] = NoAccount]
         /\ acct' \in [Requests -> Accounts \cup {NoAccount}]
<1>1. Append(pool, acct[r]) \in Seq(Accounts)
      /\ Len(Append(pool, acct[r])) = Len(pool) + 1 /\ Len(pool) \in Nat
  BY DEF TypeOK
<1> QED
  BY <1>1, TotalPositive DEF TypeOK, Release, Buffered

LEMMA ReturnType ==
  ASSUME TypeOK, NEW r \in Requests, Return(r)
  PROVE  /\ pc' = [pc EXCEPT ![r] = "idle"] /\ pc' \in [Requests -> PCs]
         /\ tried' \in [Requests -> SUBSET Accounts]
         /\ attempts' \in [Requests -> 0 .. MaxAttempts]
         /\ tries' \in [Requests -> 0 .. MaxTries]
         /\ cancelled' \in [Requests -> BOOLEAN]
         /\ \A s \in Requests \ {r} : attempts'[s] = attempts[s]
BY MaxTriesType DEF TypeOK, Return, PCs

LEMMA NextAttemptType ==
  ASSUME TypeOK, NEW r \in Requests, attempts[r] < MaxAttempts, NextAttempt(r)
  PROVE  /\ pc' \in [Requests -> PCs]
         /\ pc'[r] \in {"select", "unavailable"}
         /\ pc'[r] = "select" => attempts'[r] < MaxAttempts
         /\ \A s \in Requests \ {r} : pc'[s] = pc[s] /\ attempts'[s] = attempts[s]
         /\ attempts' \in [Requests -> 0 .. MaxAttempts]
BY MaxTriesType DEF TypeOK, NextAttempt, PCs

\* The steps that give the account back and go round the acquire loop.
LEMMA RejectControl ==
  ASSUME ControlOK, NEW r \in Requests, pc[r] \in Holding,
         Release(r), NextAttempt(r),
         hasQuota' \in [Accounts -> BOOLEAN], jwt' \in [Accounts -> JwtStates],
         cached' \subseteq Keys
  PROVE  ControlOK'
<1> USE AccountsAssumption DEF ControlOK
<1>1. acct[r] \in Accounts /\ attempts[r] < MaxAttempts
  BY DEF TypeOK, HeldWhileHolding, AttemptsInBound
<1>2. TypeOK'
  BY <1>1, ReleaseType, NextAttemptType DEF TypeOK, NextAttempt
<1>3. AttemptsInBound'
  BY <1>1, NextAttemptType DEF AttemptsInBound, Holding
<1>4. HeldWhileHolding'
  <2>1. \A s \in Requests : acct'[s] = IF s = r THEN NoAccount ELSE acct[s]
    BY <1>1, ReleaseType DEF TypeOK
  <2>2. pc'[r] \notin Holding
    BY <1>1, NextAttemptType DEF Holding
  <2>3. \A s \in Requests \ {r} : pc'[s] = pc[s]
    BY <1>1, NextAttemptType
  <2> QED
    BY <2>1, <2>2, <2>3 DEF HeldWhileHolding
<1> QED
  BY <1>2, <1>3, <1>4

\* The steps that give the account back, if there is one, and return.
LEMMA ReturnControl ==
  ASSUME ControlOK, NEW r \in Requests, Return(r),
         \/ pc[r] \in Holding /\ Release(r)
         \/ pc[r] \notin Holding /\ UNCHANGED <<pool, acct>>,
         UNCHANGED <<accountVars, cached>>
  PROVE  ControlOK'
<1> USE AccountsAssumption DEF ControlOK
<1>1. pc[r] \in Holding => acct[r] \in Accounts
  BY DEF TypeOK, HeldWhileHolding
<1>2. TypeOK'
  BY <1>1, ReleaseType, ReturnType DEF TypeOK, accountVars
<1>3. AttemptsInBound'
  BY ReturnType DEF AttemptsInBound, Holding, TypeOK
<1>4. HeldWhileHolding'
  <2>1. \A s \in Requests : acct'[s] = IF s = r THEN NoAccount ELSE acct[s]
    BY <1>1, ReleaseType DEF TypeOK, HeldWhileHolding
  <2>2. \A s \in Requests : pc'[s] = IF s = r THEN "idle" ELSE pc[s]
    BY ReturnType DEF TypeOK
  <2> QED
    BY <2>1, <2>2 DEF HeldWhileHolding, Holding
<1> QED
  BY <1>2, <1>3, <1>4

LEMMA MayRefreshType ==
  ASSUME jwt \in [Accounts -> JwtStates], NEW a, MayRefresh(a)
  PROVE  jwt' \in [Accounts -> JwtStates]
<1>1. CASE UNCHANGED jwt
  BY <1>1
<1>2. CASE \E j \in IssuedJwts : jwt' = [jwt EXCEPT ![a] = j]
  <2> PICK j \in JwtStates : jwt' = [jwt EXCEPT ![a] = j]
    BY <1>2 DEF IssuedJwts
  <2> QED
    OBVIOUS
<1> QED
  BY <1>1, <1>2 DEF MayRefresh

LEMMA ServeControl ==
  ASSUME ControlOK, NEW r \in Requests, Serve(r)
  PROVE  ControlOK'
<1> USE MaxTriesType, AccountsAssumption
<1> USE DEF ControlOK, accountVars, loopVars
<1>0. \A a \in Accounts : CacheKey[a] \in Keys
  BY DEF Keys
<1>1. CASE StartTry(r)
  BY <1>1 DEF StartTry, TypeOK, AttemptsInBound, HeldWhileHolding, Holding, PCs
<1>2. CASE StopTrying(r) \/ SelectFails(r) \/ ReportUnavailable(r)
  BY <1>2, ReturnControl DEF StopTrying, SelectFails, ReportUnavailable, Holding
<1>3. CASE Receive(r)
  <2>1. /\ Head(pool) \in Accounts /\ Tail(pool) \in Seq(Accounts)
        /\ Len(Tail(pool)) <= Total
    BY <1>3, TotalPositive DEF Receive, TypeOK
  <2>2. TypeOK'
    BY <1>3, <2>1 DEF Receive, TypeOK, Holding, PCs
  <2>3. AttemptsInBound'
    BY <1>3 DEF Receive, TypeOK, AttemptsInBound, Holding
  <2>4. HeldWhileHolding'
    BY <1>3, <2>1 DEF Receive, TypeOK, HeldWhileHolding, Holding
  <2> QED
    BY <2>2, <2>3, <2>4
<1>4. CASE PutBackTried(r)
  BY <1>4, RejectControl DEF PutBackTried, TypeOK, Holding
<1>5. CASE BeginCheck(r)
  BY <1>5 DEF BeginCheck, TypeOK, AttemptsInBound, HeldWhileHolding, Holding, PCs
<1>6. CASE RefreshOK(r)
  BY <1>6 DEF RefreshOK, Refreshing, IssuedJwts, TypeOK, AttemptsInBound,
              HeldWhileHolding, Holding, PCs
<1>7. CASE RefreshFails(r)
  BY <1>7, RejectControl DEF RefreshFails, Refreshing, Reject, TypeOK, Holding
<1>8. CASE LookUp(r)
  BY <1>8 DEF LookUp, TypeOK, AttemptsInBound, HeldWhileHolding, Holding, PCs
<1>9. CASE FetchOK(r)
  <2>1. acct[r] \in Accounts
    BY <1>9 DEF FetchOK, TypeOK, HeldWhileHolding, Holding
  <2>2. jwt' \in [Accounts -> JwtStates]
    BY <1>9, MayRefreshType DEF FetchOK, TypeOK
  <2>3. hasQuota' \in [Accounts -> BOOLEAN]
    BY <1>9 DEF FetchOK, TypeOK
  <2>4. TypeOK'
    BY <1>0, <1>9, <2>1, <2>2, <2>3 DEF FetchOK, TypeOK, PCs, Holding
  <2> QED
    BY <1>9, <2>4 DEF FetchOK, TypeOK, AttemptsInBound, HeldWhileHolding, Holding
<1>10. CASE FetchFails(r)
  <2>1. jwt' \in [Accounts -> JwtStates] /\ cached' \subseteq Keys
    BY <1>10, MayRefreshType DEF FetchFails, TypeOK
  <2> QED
    BY <1>10, <2>1, RejectControl DEF FetchFails, Reject, TypeOK, Holding
<1>11. CASE Accept(r)
  BY <1>11 DEF Accept, TypeOK, AttemptsInBound, HeldWhileHolding, Holding, PCs
<1>12. CASE OverQuota(r)
  BY <1>12, RejectControl DEF OverQuota, Reject, TypeOK, Holding
<1>13. CASE SendFails(r) \/ Finish(r)
  BY <1>13, ReturnControl DEF SendFails, Finish, Holding
<1>14. CASE Exhausted(r)
  <2>1. acct[r] \in Accounts
    BY <1>14 DEF Exhausted, TypeOK, HeldWhileHolding, Holding
  <2>2. TypeOK'
    BY <1>14, <2>1, ReleaseType DEF Exhausted, TypeOK, PCs
  <2> QED
    BY <1>14, <2>1, <2>2, ReleaseType
    DEF Exhausted, TypeOK, AttemptsInBound, HeldWhileHolding, Holding
<1>15. CASE Answered(r)
  BY <1>15 DEF Answered, TypeOK, AttemptsInBound, HeldWhileHolding, Holding, PCs
<1> QED
  BY <1>1, <1>2, <1>3, <1>4, <1>5, <1>6, <1>7, <1>8, <1>9, <1>10, <1>11, <1>12,
     <1>13, <1>14, <1>15 DEF Serve

LEMMA ControlStep ==
  ASSUME ControlOK, Next
  PROVE  ControlOK'
<1> USE DEF ControlOK, accountVars, loopVars, TypeOK, AttemptsInBound, HeldWhileHolding
<1>1. ASSUME NEW r \in Requests, Arrive(r) PROVE ControlOK'
  BY <1>1 DEF Arrive, Holding, PCs
<1>2. ASSUME NEW r \in Requests, Cancel(r) PROVE ControlOK'
  BY <1>2 DEF Cancel
<1>3. ASSUME NEW a \in Accounts, Age(a) PROVE ControlOK'
  BY <1>3 DEF Age, JwtStates
<1>4. ASSUME NEW a \in Accounts, StatsPage(a) PROVE ControlOK'
  BY <1>4 DEF StatsPage, Keys
<1>5. ASSUME NEW k \in Keys, CacheDrops(k) PROVE ControlOK'
  BY <1>5 DEF CacheDrops
<1> QED
  BY <1>1, <1>2, <1>3, <1>4, <1>5, ServeControl DEF Next

-----------------------------------------------------------------------------
(* Readiness of the account a prompt is sent on.                           *)

Ready == JwtPresent /\ ReadyWhenSent

PastJwt == {"lookup", "fetch", "verdict", "send", "respond"}

\* A step that leaves the accounts alone, moves only r, and moves r to a place
\* where nothing is claimed.
LEMMA ReadyFrame ==
  ASSUME Ready, NEW r \in Requests, UNCHANGED accountVars,
         \A s \in Requests \ {r} : pc'[s] = pc[s] /\ acct'[s] = acct[s],
         pc'[r] \notin PastJwt
  PROVE  Ready'
BY DEF Ready, JwtPresent, ReadyWhenSent, accountVars, PastJwt

\* Giving an account back does not touch what the others hold.
LEMMA RejectFrame ==
  ASSUME TypeOK, NEW r \in Requests, Release(r),
         (\E p \in {"select", "unavailable", "start", "idle"} :
            pc' = [pc EXCEPT ![r] = p])
  PROVE  /\ \A s \in Requests \ {r} : pc'[s] = pc[s] /\ acct'[s] = acct[s]
         /\ pc'[r] \notin PastJwt
BY DEF TypeOK, Release, PastJwt

\* Two requests that are past EnsureValidJWT hold different accounts.
LEMMA HoldersDiffer ==
  ASSUME IInv, NEW r \in Requests, NEW s \in Requests, r # s,
         pc[r] \in Holding, pc[s] \in Holding
  PROVE  acct[r] \in Accounts /\ acct[s] \in Accounts /\ acct[r] # acct[s]
BY DEF IInv, TypeOK, HeldWhileHolding, Exclusive

\* A licensed account gets a new JWT from the request that holds it.
LEMMA MayRefreshReady ==
  ASSUME IInv, NEW r \in Requests, pc[r] \in Holding, MayRefresh(acct[r])
  PROVE  /\ \A a \in Accounts : jwt[a] # "empty" => jwt'[a] # "empty"
BY DEF IInv, TypeOK, MayRefresh, IssuedJwts

LEMMA ServeReady ==
  ASSUME IInv, NEW r \in Requests, Serve(r)
  PROVE  Ready'
<1>0. /\ TypeOK /\ Ready
      /\ pc[r] \in Holding => acct[r] \in Accounts /\ acct[r] # NoAccount
  BY DEF IInv, Ready, TypeOK, HeldWhileHolding
<1>1. CASE StartTry(r) \/ StopTrying(r) \/ SelectFails(r) \/ ReportUnavailable(r)
           \/ Receive(r) \/ BeginCheck(r)
  BY <1>0, <1>1, ReadyFrame
  DEF StartTry, StopTrying, SelectFails, ReportUnavailable, Receive, BeginCheck,
      Return, TypeOK, PastJwt
<1>2. CASE PutBackTried(r) \/ OverQuota(r) \/ RefreshFails(r)
  <2>1. Release(r) /\ NextAttempt(r) /\ UNCHANGED accountVars
    BY <1>2 DEF PutBackTried, OverQuota, RefreshFails, Reject, accountVars
  <2> QED
    BY <1>0, <2>1, ReadyFrame, RejectFrame DEF NextAttempt
<1>3. CASE SendFails(r) \/ Finish(r)
  BY <1>0, <1>3, ReadyFrame, RejectFrame DEF SendFails, Finish, Return
<1>4. CASE RefreshOK(r)
  <2> PICK j \in IssuedJwts : jwt' = [jwt EXCEPT ![acct[r]] = j]
    BY <1>4 DEF RefreshOK
  <2>1. j # "empty" /\ \A a \in Accounts : jwt'[a] = IF a = acct[r] THEN j ELSE jwt[a]
    BY <1>0 DEF IssuedJwts, TypeOK
  <2>2. /\ acct' = acct /\ hasQuota' = hasQuota /\ acct[r] \in Accounts
        /\ \A s \in Requests \ {r} : pc'[s] = pc[s]
        /\ pc'[r] \in {"quota", "lookup"}
    BY <1>0, <1>4 DEF RefreshOK, Refreshing, TypeOK, Holding
  <2>3. \A s \in Requests : pc[s] \in PastJwt => acct[s] \in Accounts
    BY <1>0 DEF IInv, HeldWhileHolding, Holding, PastJwt, TypeOK
  <2>4. JwtPresent'
    BY <1>0, <2>1, <2>2, <2>3 DEF Ready, JwtPresent, PastJwt
  <2>5. ReadyWhenSent'
    BY <1>0, <2>1, <2>2, <2>3 DEF Ready, ReadyWhenSent, PastJwt
  <2> QED
    BY <2>4, <2>5 DEF Ready
<1>5. CASE LookUp(r)
  <2>1. jwt[acct[r]] # "empty"
    BY <1>0, <1>5 DEF LookUp, NeedsValidJwt, Ready, JwtPresent, Holding
  <2> QED
    BY <1>0, <1>5, <2>1
    DEF LookUp, Ready, JwtPresent, ReadyWhenSent, accountVars, TypeOK
<1>6. CASE FetchOK(r)
  <2> PICK q \in BOOLEAN : hasQuota' = [hasQuota EXCEPT ![acct[r]] = q]
    BY <1>6 DEF FetchOK
  <2>1. /\ acct' = acct /\ pc[r] = "fetch" /\ pc'[r] = "verdict"
        /\ \A s \in Requests \ {r} : pc'[s] = pc[s]
    BY <1>0, <1>6 DEF FetchOK, TypeOK
  <2>2. \A a \in Accounts : jwt[a] # "empty" => jwt'[a] # "empty"
    BY <1>6, MayRefreshReady DEF FetchOK, Holding
  <2>3. \A s \in Requests \ {r} : pc[s] \in PastJwt =>
          acct[s] \in Accounts /\ acct[s] # acct[r]
    BY <2>1, HoldersDiffer DEF Holding, PastJwt
  <2>4. \A a \in Accounts : a # acct[r] => hasQuota'[a] = hasQuota[a]
    BY <1>0 DEF TypeOK
  <2>5. acct[r] \in Accounts
    BY <1>0, <2>1 DEF Holding
  <2>6. JwtPresent'
    BY <1>0, <2>1, <2>2, <2>3, <2>5 DEF Ready, JwtPresent, PastJwt
  <2>7. ReadyWhenSent'
    BY <1>0, <2>1, <2>2, <2>3, <2>4 DEF Ready, ReadyWhenSent, PastJwt
  <2> QED
    BY <2>6, <2>7 DEF Ready
<1>7. CASE FetchFails(r)
  <2>1. /\ pc[r] = "fetch" /\ hasQuota' = hasQuota
        /\ \A s \in Requests \ {r} : pc'[s] = pc[s] /\ acct'[s] = acct[s]
        /\ pc'[r] \notin PastJwt
    BY <1>0, <1>7, RejectFrame DEF FetchFails, Reject, NextAttempt
  <2>2. \A a \in Accounts : jwt[a] # "empty" => jwt'[a] # "empty"
    BY <1>7, MayRefreshReady DEF FetchFails, Holding
  <2>3. \A s \in Requests \ {r} : pc[s] \in PastJwt => acct[s] \in Accounts
    BY <2>1, HoldersDiffer DEF Holding, PastJwt
  <2> QED
    BY <1>0, <2>1, <2>2, <2>3 DEF Ready, JwtPresent, ReadyWhenSent, PastJwt
<1>8. CASE Accept(r) \/ Answered(r)
  BY <1>0, <1>8 DEF Accept, Answered, Ready, JwtPresent, ReadyWhenSent, accountVars,
                    TypeOK
<1>9. CASE Exhausted(r)
  <2>1. /\ pc[r] = "send" /\ jwt' = jwt
        /\ \A s \in Requests \ {r} : pc'[s] = pc[s] /\ acct'[s] = acct[s]
        /\ pc'[r] \notin PastJwt
    BY <1>0, <1>9, RejectFrame DEF Exhausted
  <2>2. \A a \in Accounts : a # acct[r] => hasQuota'[a] = hasQuota[a]
    BY <1>0, <1>9 DEF Exhausted, TypeOK
  <2>3. \A s \in Requests \ {r} : pc[s] \in PastJwt =>
          acct[s] \in Accounts /\ acct[s] # acct[r]
    BY <2>1, HoldersDiffer DEF Holding, PastJwt
  <2> QED
    BY <1>0, <2>1, <2>2, <2>3 DEF Ready, JwtPresent, ReadyWhenSent, PastJwt
<1> QED
  BY <1>1, <1>2, <1>3, <1>4, <1>5, <1>6, <1>7, <1>8, <1>9 DEF Serve

LEMMA ReadyStep ==
  ASSUME IInv, Next
  PROVE  Ready'
<1>0. TypeOK /\ Ready
  BY DEF IInv, Ready
<1>1. ASSUME NEW r \in Requests, Arrive(r) PROVE Ready'
  BY <1>0, <1>1, ReadyFrame DEF Arrive, TypeOK, PastJwt
<1>2. ASSUME NEW r \in Requests, Cancel(r) PROVE Ready'
  BY <1>0, <1>2 DEF Cancel, Ready, JwtPresent, ReadyWhenSent, accountVars
<1>3. ASSUME NEW a \in Accounts, Age(a) PROVE Ready'
  <2>1. /\ \A b \in Accounts : jwt[b] # "empty" => jwt'[b] # "empty"
        /\ UNCHANGED <<pc, acct, hasQuota>>
    BY <1>0, <1>3 DEF Age, TypeOK
  <2>2. \A s \in Requests : pc[s] \in PastJwt => acct[s] \in Accounts
    BY <1>0 DEF IInv, HeldWhileHolding, Holding, PastJwt, TypeOK
  <2> QED
    BY <1>0, <2>1, <2>2 DEF Ready, JwtPresent, ReadyWhenSent, PastJwt
<1>4. ASSUME NEW a \in Accounts, StatsPage(a) PROVE Ready'
  BY <1>0, <1>4 DEF StatsPage, Ready, JwtPresent, ReadyWhenSent, accountVars
<1>5. ASSUME NEW k \in Keys, CacheDrops(k) PROVE Ready'
  BY <1>0, <1>5 DEF CacheDrops, Ready, JwtPresent, ReadyWhenSent, accountVars
<1> QED
  BY <1>1, <1>2, <1>3, <1>4, <1>5, ServeReady DEF Next

-----------------------------------------------------------------------------
(* The theorems.                                                           *)

LEMMA Inductive == IInv /\ [Next]_vars => IInv'
<1> SUFFICES ASSUME IInv, [Next]_vars PROVE IInv'
  OBVIOUS
<1>1. CASE Next
  BY <1>1, ControlStep, ChannelStep, ReadyStep DEF IInv, ControlOK, Ready
<1>2. CASE UNCHANGED vars
  BY <1>2 DEF vars, IInv, TypeOK, AttemptsInBound, HeldWhileHolding, Exclusive,
              NothingLost, JwtPresent, ReadyWhenSent
<1> QED
  BY <1>1, <1>2

LEMMA Invariance == Spec => []IInv
BY InitIInv, Inductive, PTL DEF Spec

\* Every variable keeps its type; with it, the loop counters of AcquireAccount
\* and sendWithRetry keep within their bounds.
THEOREM PoolTypes == Spec => []TypeOK
BY Invariance, PTL DEF IInv

\* An account is in the channel once or in exactly one request's hands, and a
\* request holds one exactly while it checks or uses it.
THEOREM PoolSafety == Spec => [](Exclusive /\ NothingLost /\ HeldWhileHolding)
BY Invariance, PTL DEF IInv

\* ReleaseAccount never takes its "pool is full" branch.
THEOREM NoAccountDropped == Spec => []RoomToRelease
<1>1. IInv => RoomToRelease
  BY HolderFindsRoom DEF IInv, RoomToRelease
<1> QED
  BY <1>1, Invariance, PTL

\* A prompt is sent only on an account with a JWT and with quota left, as far
\* as the program knows.
THEOREM SentWhenReady == Spec => []ReadyWhenSent
BY Invariance, PTL DEF IInv

\* Only its holder changes an account.
THEOREM HolderWrites == Spec => OnlyHolderWrites
<1> DEFINE A == \A a \in Accounts :
                  hasQuota'[a] # hasQuota[a] \/ (jwt'[a] # jwt[a] /\ ~Age(a)) =>
                    \E r \in Requests : acct[r] = a
<1>1. IInv /\ [Next]_vars => [A]_vars
  <2> SUFFICES ASSUME IInv, Next PROVE A
    OBVIOUS
  <2>1. ASSUME NEW r \in Requests, Serve(r) PROVE A
    <3>1. CASE UNCHANGED accountVars
      BY <3>1 DEF accountVars
    <3>2. CASE RefreshOK(r)
      BY <3>2 DEF RefreshOK, IInv, TypeOK
    <3>3. CASE FetchOK(r)
      BY <3>3 DEF FetchOK, MayRefresh, IInv, TypeOK
    <3>4. CASE FetchFails(r)
      BY <3>4 DEF FetchFails, MayRefresh, Reject, IInv, TypeOK
    <3>5. CASE Exhausted(r)
      BY <3>5 DEF Exhausted, IInv, TypeOK
    <3>6. CASE RefreshFails(r) \/ OverQuota(r) \/ PutBackTried(r)
      BY <3>6 DEF RefreshFails, OverQuota, PutBackTried, Reject, accountVars
    <3> QED
      BY <2>1, <3>1, <3>2, <3>3, <3>4, <3>5, <3>6
      DEF Serve, StartTry, StopTrying, SelectFails, ReportUnavailable, Receive,
          BeginCheck, LookUp, Accept, SendFails, Answered, Finish
  <2>2. ASSUME NEW r \in Requests, Arrive(r) \/ Cancel(r) PROVE A
    BY <2>2 DEF Arrive, Cancel, accountVars
  <2>3. ASSUME NEW b \in Accounts, Age(b) PROVE A
    BY <2>3 DEF Age, IInv, TypeOK
  <2>4. ASSUME NEW b \in Accounts, StatsPage(b) PROVE A
    BY <2>4 DEF StatsPage, accountVars
  <2>5. ASSUME NEW k \in Keys, CacheDrops(k) PROVE A
    BY <2>5 DEF CacheDrops, accountVars
  <2> QED
    BY <2>1, <2>2, <2>3, <2>4, <2>5 DEF Next
<1> QED
  BY <1>1, Invariance, PTL DEF Spec, OnlyHolderWrites

\* The pool implements the lease: receiving from the channel grants a free
\* account, every release returns one, and nothing else is visible.
THEOREM PoolImplementsLease == Spec => LeaseSpec
<1> USE DEF LeaseSpec, Lease!Spec, Lease!Init, Lease!Next, Lease!Grant,
            Lease!Return, Lease!leaseVars
<1>1. Init => Lease!Init
  BY DEF Init
<1>2. IInv /\ [Next]_vars => [Lease!Next]_(Lease!leaseVars)
  <2> SUFFICES ASSUME IInv, [Next]_vars PROVE [Lease!Next]_(Lease!leaseVars)
    OBVIOUS
  <2>1. ASSUME NEW r \in Requests, Take(r) PROVE Lease!Grant(r)
    BY <2>1, TakeEffect DEF Take
  <2>2. ASSUME NEW r \in Requests, Give(r) PROVE Lease!Return(r)
    BY <2>2, GiveEffect
  <2>3. CASE UNCHANGED <<pool, acct>>
    BY <2>3
  <2>4. CASE UNCHANGED vars
    BY <2>4 DEF vars
  <2> QED
    BY <2>1, <2>2, <2>3, <2>4, ChannelEffect
<1> QED
  BY <1>1, <1>2, Invariance, PTL DEF Spec

-----------------------------------------------------------------------------
(* What the lease itself promises, of every set of accounts and requests.  *)

LEMMA NoAccountIsApart == Lease!NoAccountApart
BY AccountsAssumption DEF Lease!NoAccountApart

\* The three parts hold each other up: Grant keeps Exclusive because the free
\* account had no holder, and Return keeps it because there was one holder.
LeaseInv == Lease!TypeOK /\ Lease!Exclusive /\ Lease!Complete

LEMMA InitLeaseInv == Lease!Init => LeaseInv
BY NoAccountIsApart
   DEF Lease!NoAccountApart, Lease!Init, LeaseInv, Lease!TypeOK, Lease!Exclusive, Lease!Complete

\* A grant moves one account from free to one request's hands.
LEMMA GrantLeaseInv ==
  ASSUME LeaseInv, NEW r \in Requests, Lease!Grant(r)
  PROVE  LeaseInv'
<1> PICK a \in Range(pool) : /\ Range(pool)' = Range(pool) \ {a}
                             /\ acct' = [acct EXCEPT ![r] = a]
  BY DEF Lease!Grant
<1> USE NoAccountIsApart DEF Lease!NoAccountApart, LeaseInv, Lease!TypeOK
<1>1. Lease!TypeOK'
  OBVIOUS
<1>2. \A s \in Requests : acct[s] # a
  BY DEF Lease!Exclusive
<1>3. Lease!Exclusive'
  BY <1>2 DEF Lease!Exclusive
<1>4. Lease!Complete'
  BY DEF Lease!Complete, Lease!Grant
<1> QED
  BY <1>1, <1>3, <1>4

\* A return moves the one held account back to free.
LEMMA ReturnLeaseInv ==
  ASSUME LeaseInv, NEW r \in Requests, Lease!Return(r)
  PROVE  LeaseInv'
<1> USE NoAccountIsApart DEF Lease!NoAccountApart, LeaseInv, Lease!TypeOK, Lease!Return
<1>1. Lease!TypeOK'
  OBVIOUS
<1>2. Lease!Exclusive'
  BY DEF Lease!Exclusive
<1>3. Lease!Complete'
  BY DEF Lease!Complete
<1> QED
  BY <1>1, <1>2, <1>3

\* A lent account has exactly one holder and is not free, and no account is
\* lost, in every reachable state of the lease, and so of the pool, which
\* implements it (manager.go:69, manager.go:181).
THEOREM LeaseInvariant ==
  /\ Lease!Spec => [](Lease!Exclusive /\ Lease!Complete)
  /\ Spec => [](Lease!Exclusive /\ Lease!Complete)
<1>1. LeaseInv /\ [Lease!Next]_(Lease!leaseVars) => LeaseInv'
  <2> SUFFICES ASSUME LeaseInv, [Lease!Next]_(Lease!leaseVars) PROVE LeaseInv'
    OBVIOUS
  <2>1. CASE Lease!Next
    BY <2>1, GrantLeaseInv, ReturnLeaseInv DEF Lease!Next
  <2>2. CASE UNCHANGED Lease!leaseVars
    BY <2>2 DEF LeaseInv, Lease!TypeOK, Lease!Exclusive, Lease!Complete, Lease!leaseVars
  <2> QED
    BY <2>1, <2>2
<1>2. Lease!Spec => [](Lease!Exclusive /\ Lease!Complete)
  BY InitLeaseInv, <1>1, PTL DEF Lease!Spec, LeaseInv
<1>3. Spec => Lease!Spec
  BY PoolImplementsLease DEF LeaseSpec
<1> QED
  BY <1>2, <1>3, PTL
=============================================================================
