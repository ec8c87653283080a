------------------------- MODULE RateLimiter_proofs -------------------------
(***************************************************************************)
(* The rate limiter never lets more than Rate requests of one visitor      *)
(* through within a minute, for any rate, any minute and any visitors.     *)
(*                                                                         *)
(* WithinRate is not inductive: it says nothing of the counter.  The       *)
(* invariant below splits what was let through to a visitor in two: the    *)
(* last Current(ip) requests, which the counter has counted, and the ones  *)
(* before, which are more than a minute older than any of those.           *)
(*                                                                         *)
(* That a visitor is only refused after it has asked too often needs the   *)
(* converse: what the counter has counted was asked without a pause of     *)
(* more than a minute (Steady), refused or not.                            *)
(***************************************************************************)
EXTENDS RateLimiter, TLAPS

\* How many of the requests let through the counter stands for.
Current(ip) == IF visitors[ip].count <= Rate THEN visitors[ip].count ELSE Rate

Types == /\ now \in Nat
         /\ visitors \in [IPs -> [count : Nat, lastSeen : Nat]]
         /\ asked \in [IPs -> Seq(Nat)]
         /\ granted \in [IPs -> Seq(Nat)]

Seen(ip) ==
  visitors[ip].count # 0 =>
    /\ asked[ip] # <<>>
    /\ visitors[ip].lastSeen = asked[ip][Len(asked[ip])]
    /\ visitors[ip].lastSeen <= now
    /\ Current(ip) <= Len(granted[ip])
    /\ \A i \in DOMAIN granted[ip] : granted[ip][i] <= visitors[ip].lastSeen
    /\ \A i, k \in DOMAIN granted[ip] :
         i <= Len(granted[ip]) - Current(ip) /\ k > Len(granted[ip]) - Current(ip) =>
           granted[ip][k] - granted[ip][i] > Minute

Unseen(ip) == visitors[ip].count = 0 =>
  \A i \in DOMAIN granted[ip] : now - granted[ip][i] > Minute

Spaced(ip) == \A i \in DOMAIN granted[ip] :
  i + Rate \in DOMAIN granted[ip] => granted[ip][i + Rate] - granted[ip][i] > Minute

IInv == Types /\ \A ip \in IPs : Seen(ip) /\ Unseen(ip) /\ Spaced(ip)

\* The counter stands for requests that were made without a long pause.
Steady(ip) == visitors[ip].count # 0 =>
  /\ visitors[ip].count <= Len(asked[ip])
  /\ \A i \in (Len(asked[ip]) - visitors[ip].count + 1) .. (Len(asked[ip]) - 1) :
       asked[ip][i + 1] - asked[ip][i] <= Minute

AllSteady == \A ip \in IPs : Steady(ip)

\* What a visitor's request does to the requests of the others: nothing.
Others(ip) == \A other \in IPs \ {ip} :
  /\ visitors'[other] = visitors[other]
  /\ asked'[other] = asked[other]
  /\ granted'[other] = granted[other]

\* What appending does to a sequence of times.
LEMMA AppendFacts ==
  ASSUME NEW s \in Seq(Nat), NEW e \in Nat, NEW t, t = Append(s, e)
  PROVE  /\ Len(s) \in Nat /\ DOMAIN s = 1 .. Len(s)
         /\ \A i \in 1 .. Len(s) : s[i] \in Nat
         /\ Len(t) = Len(s) + 1 /\ DOMAIN t = 1 .. Len(s) + 1
         /\ \A i \in 1 .. Len(s) : t[i] = s[i]
         /\ t[Len(s) + 1] = e
         /\ t # <<>> /\ t[Len(t)] = e
  OBVIOUS

\* The invariant of a visitor depends on nothing but its own entries and the clock.
LEMMA OthersKept ==
  ASSUME NEW ip \in IPs, IInv, Others(ip), now' = now
  PROVE  \A other \in IPs \ {ip} : Seen(other)' /\ Unseen(other)' /\ Spaced(other)'
  BY DEF IInv, Others, Seen, Unseen, Spaced, Current

\* allow when the count starts over: everything let through before is more
\* than a minute old.
LEMMA StartOverKeeps ==
  ASSUME NEW ip \in IPs, IInv, StartOver(ip)
  PROVE  IInv'
<1> USE RateAssumption
<1>1. Types'
  BY DEF IInv, Types, StartOver, Ask
<1>2. Others(ip) /\ now' = now
  BY DEF IInv, Types, StartOver, Ask, Others
<1> DEFINE old == granted[ip]
           seen == asked[ip]
<1>3. /\ now \in Nat /\ Len(old) \in Nat /\ DOMAIN old = 1 .. Len(old)
      /\ \A i \in 1 .. Len(old) : old[i] \in Nat
      /\ Len(granted'[ip]) = Len(old) + 1 /\ DOMAIN granted'[ip] = 1 .. Len(old) + 1
      /\ \A i \in 1 .. Len(old) : granted'[ip][i] = old[i]
      /\ granted'[ip][Len(old) + 1] = now
      /\ asked'[ip] # <<>> /\ asked'[ip][Len(asked'[ip])] = now
  <2>1. old \in Seq(Nat) /\ now \in Nat /\ granted'[ip] = Append(old, now)
    BY DEF IInv, Types, StartOver, Ask
  <2>2. asked'[ip] # <<>> /\ asked'[ip][Len(asked'[ip])] = now
    <3>1. seen \in Seq(Nat) /\ now \in Nat /\ asked'[ip] = Append(seen, now)
      BY DEF IInv, Types, StartOver, Ask
    <3> QED BY <3>1, AppendFacts
  <2> HIDE DEF old
  <2> QED BY <2>1, <2>2, AppendFacts
<1>4. \A i \in 1 .. Len(old) : now - old[i] > Minute
  <2>1. CASE visitors[ip].count = 0
    BY <1>3, <2>1 DEF IInv, Unseen
  <2>2. CASE visitors[ip].count # 0
    <3>1. /\ visitors[ip].lastSeen \in Nat
          /\ now - visitors[ip].lastSeen > Minute
      BY <2>2 DEF StartOver, Forgotten, IInv, Types
    <3>2. \A i \in 1 .. Len(old) : old[i] <= visitors[ip].lastSeen
      BY <1>3, <2>2 DEF IInv, Seen
    <3> HIDE DEF old
    <3> SUFFICES ASSUME NEW i \in 1 .. Len(old)
                 PROVE  now - old[i] > Minute
      OBVIOUS
    <3>3. old[i] \in Nat /\ old[i] <= visitors[ip].lastSeen /\ now \in Nat
      BY <1>3, <3>2
    <3> QED BY <3>1, <3>3
  <2> QED BY <2>1, <2>2
<1>5. visitors'[ip].count = 1 /\ visitors'[ip].lastSeen = now
  BY DEF IInv, Types, StartOver
<1>6. Current(ip)' = 1
  BY <1>5 DEF Current
<1>7. Seen(ip)'
  <2> HIDE DEF old
  <2>1. \A i \in 1 .. Len(old) : old[i] <= now /\ now - old[i] > Minute
    BY <1>3, <1>4
  <2>2. \A i \in DOMAIN granted'[ip] : granted'[ip][i] <= now
    BY <1>3, <2>1
  <2>3. \A i, k \in DOMAIN granted'[ip] :
          i <= Len(granted'[ip]) - 1 /\ k > Len(granted'[ip]) - 1 =>
            granted'[ip][k] - granted'[ip][i] > Minute
    <3> SUFFICES ASSUME NEW i \in 1 .. Len(old) + 1, NEW k \in 1 .. Len(old) + 1,
                        i <= Len(old), k > Len(old)
                 PROVE  granted'[ip][k] - granted'[ip][i] > Minute
      BY <1>3
    <3>1. k = Len(old) + 1 /\ i \in 1 .. Len(old)
      BY <1>3
    <3>2. granted'[ip][k] = now /\ granted'[ip][i] = old[i]
      BY <1>3, <3>1
    <3> QED BY <2>1, <3>1, <3>2
  <2>4. 1 <= Len(granted'[ip]) /\ now' = now /\ now <= now
    BY <1>2, <1>3
  <2> QED BY <1>3, <1>5, <1>6, <2>2, <2>3, <2>4 DEF Seen
<1>8. Unseen(ip)'
  BY <1>5 DEF Unseen
<1>9. Spaced(ip)'
  <2>1. \A i \in 1 .. Len(old) : i + Rate \in 1 .. Len(old) => old[i + Rate] - old[i] > Minute
    BY <1>3 DEF IInv, Spaced
  <2> HIDE DEF old
  <2> SUFFICES ASSUME NEW i \in 1 .. Len(old) + 1, i + Rate \in 1 .. Len(old) + 1
               PROVE  granted'[ip][i + Rate] - granted'[ip][i] > Minute
    BY <1>3 DEF Spaced
  <2>2. i \in 1 .. Len(old)
    BY <1>3
  <2>3. CASE i + Rate = Len(old) + 1
    BY <1>3, <1>4, <2>2, <2>3
  <2>4. CASE i + Rate # Len(old) + 1
    <3>1. i + Rate \in 1 .. Len(old)
      BY <1>3, <2>2, <2>4
    <3>2. granted'[ip][i + Rate] = old[i + Rate] /\ granted'[ip][i] = old[i]
      BY <1>3, <2>2, <3>1
    <3> QED BY <2>1, <2>2, <3>1, <3>2
  <2> QED BY <2>3, <2>4
<1> QED BY <1>1, <1>2, <1>7, <1>8, <1>9, OthersKept DEF IInv

\* allow within the rate: the request before the last Rate ones is not among
\* those that were counted.
LEMMA AllowKeeps ==
  ASSUME NEW ip \in IPs, IInv, Allow(ip)
  PROVE  IInv'
<1> USE RateAssumption
<1>1. Types'
  BY DEF IInv, Types, Allow, Count, Ask
<1>2. Others(ip) /\ now' = now
  BY DEF IInv, Types, Allow, Count, Ask, Others
<1> DEFINE old == granted[ip]
           seen == asked[ip]
           c == visitors[ip].count
<1>3. /\ now \in Nat /\ Len(old) \in Nat /\ DOMAIN old = 1 .. Len(old)
      /\ \A i \in 1 .. Len(old) : old[i] \in Nat
      /\ Len(granted'[ip]) = Len(old) + 1 /\ DOMAIN granted'[ip] = 1 .. Len(old) + 1
      /\ \A i \in 1 .. Len(old) : granted'[ip][i] = old[i]
      /\ granted'[ip][Len(old) + 1] = now
      /\ asked'[ip] # <<>> /\ asked'[ip][Len(asked'[ip])] = now
  <2>1. old \in Seq(Nat) /\ now \in Nat /\ granted'[ip] = Append(old, now)
    BY DEF IInv, Types, Allow, Count, Ask
  <2>2. asked'[ip] # <<>> /\ asked'[ip][Len(asked'[ip])] = now
    <3>1. seen \in Seq(Nat) /\ now \in Nat /\ asked'[ip] = Append(seen, now)
      BY DEF IInv, Types, Allow, Count, Ask
    <3> QED BY <3>1, AppendFacts
  <2> HIDE DEF old
  <2> QED BY <2>1, <2>2, AppendFacts
<1>4. /\ c \in Nat \ {0} /\ c + 1 <= Rate
      /\ visitors'[ip].count = c + 1 /\ visitors'[ip].lastSeen = now
  BY DEF IInv, Types, Allow, Count, Within
<1>5. Current(ip) = c /\ Current(ip)' = c + 1
  BY <1>4 DEF Current
<1>6. /\ c <= Len(old)
      /\ visitors[ip].lastSeen \in Nat /\ visitors[ip].lastSeen <= now
      /\ \A i \in 1 .. Len(old) : old[i] <= visitors[ip].lastSeen
      /\ \A i, k \in 1 .. Len(old) :
           i <= Len(old) - c /\ k > Len(old) - c => old[k] - old[i] > Minute
  BY <1>3, <1>4, <1>5 DEF IInv, Seen, Types
<1>7. \A i \in 1 .. Len(old) : old[i] <= now
  BY <1>3, <1>6
<1>8. \A i \in 1 .. Len(old) : i <= Len(old) - c => now - old[i] > Minute
  <2> SUFFICES ASSUME NEW i \in 1 .. Len(old), i <= Len(old) - c
               PROVE  now - old[i] > Minute
    OBVIOUS
  <2> HIDE DEF old, c
  <2>1. Len(old) \in 1 .. Len(old) /\ Len(old) > Len(old) - c
    BY <1>3, <1>4
  <2>2. old[Len(old)] - old[i] > Minute
    BY <1>6, <2>1
  <2> QED BY <1>3, <1>7, <2>1, <2>2
<1>9. Seen(ip)'
  <2>1. \A i, k \in 1 .. Len(old) + 1 :
          i <= Len(old) - c /\ k > Len(old) - c =>
            granted'[ip][k] - granted'[ip][i] > Minute
    <3> HIDE DEF old, c
    <3> SUFFICES ASSUME NEW i \in 1 .. Len(old) + 1, NEW k \in 1 .. Len(old) + 1,
                        i <= Len(old) - c, k > Len(old) - c
                 PROVE  granted'[ip][k] - granted'[ip][i] > Minute
      OBVIOUS
    <3>1. i \in 1 .. Len(old)
      BY <1>3, <1>4
    <3>2. CASE k = Len(old) + 1
      BY <1>3, <1>8, <3>1, <3>2
    <3>3. CASE k # Len(old) + 1
      BY <1>3, <1>6, <3>1, <3>3
    <3> QED BY <3>2, <3>3
  <2> HIDE DEF old, c
  <2>2. \A i \in 1 .. Len(old) + 1 : granted'[ip][i] <= now
    BY <1>3, <1>7
  <2>3. Len(granted'[ip]) - Current(ip)' = Len(old) - c /\ Current(ip)' <= Len(granted'[ip])
    BY <1>3, <1>4, <1>5, <1>6
  <2> QED BY <1>2, <1>3, <1>4, <2>1, <2>2, <2>3 DEF Seen
<1>10. Unseen(ip)'
  BY <1>4 DEF Unseen
<1>11. Spaced(ip)'
  <2>1. \A i \in 1 .. Len(old) : i + Rate \in 1 .. Len(old) => old[i + Rate] - old[i] > Minute
    BY <1>3 DEF IInv, Spaced
  <2> HIDE DEF old, c
  <2> SUFFICES ASSUME NEW i \in 1 .. Len(old) + 1, i + Rate \in 1 .. Len(old) + 1
               PROVE  granted'[ip][i + Rate] - granted'[ip][i] > Minute
    BY <1>3 DEF Spaced
  <2>2. i \in 1 .. Len(old)
    BY <1>3
  <2>3. CASE i + Rate = Len(old) + 1
    BY <1>3, <1>4, <1>8, <2>2, <2>3
  <2>4. CASE i + Rate # Len(old) + 1
    <3>1. i + Rate \in 1 .. Len(old)
      BY <1>3, <2>2, <2>4
    <3>2. granted'[ip][i + Rate] = old[i + Rate] /\ granted'[ip][i] = old[i]
      BY <1>3, <2>2, <3>1
    <3> QED BY <2>1, <2>2, <3>1, <3>2
  <2> QED BY <2>3, <2>4
<1> QED BY <1>1, <1>2, <1>9, <1>10, <1>11, OthersKept DEF IInv

\* allow beyond the rate: nothing is let through, and the counter stands for
\* the last Rate requests as before.
LEMMA RefuseKeeps ==
  ASSUME NEW ip \in IPs, IInv, Refuse(ip)
  PROVE  IInv'
<1> USE RateAssumption
<1>1. Types'
  BY DEF IInv, Types, Refuse, Count, Ask
<1>2. Others(ip) /\ now' = now
  BY DEF IInv, Types, Refuse, Count, Ask, Others
<1> DEFINE c == visitors[ip].count
           seen == asked[ip]
<1>3. /\ c \in Nat \ {0} /\ c >= Rate /\ now \in Nat
      /\ visitors'[ip].count = c + 1 /\ visitors'[ip].lastSeen = now
      /\ granted'[ip] = granted[ip]
  BY DEF IInv, Types, Refuse, Count, Ask, Within
<1>4. asked'[ip] # <<>> /\ asked'[ip][Len(asked'[ip])] = now
  <2>1. seen \in Seq(Nat) /\ now \in Nat /\ asked'[ip] = Append(seen, now)
    BY DEF IInv, Types, Refuse, Count, Ask
  <2> QED BY <2>1, AppendFacts
<1>5. Current(ip) = Rate /\ Current(ip)' = Rate
  BY <1>3 DEF Current
<1>6. Seen(ip) /\ Spaced(ip)
  BY DEF IInv
<1>7. \A i \in DOMAIN granted[ip] : granted[ip][i] <= now
  <2>1. granted[ip] \in Seq(Nat) /\ visitors[ip].lastSeen \in Nat
        /\ visitors[ip].lastSeen <= now
    BY <1>3, <1>6 DEF IInv, Types, Seen
  <2>2. \A i \in DOMAIN granted[ip] : granted[ip][i] \in Nat
    BY <2>1
  <2> QED BY <1>3, <1>6, <2>1, <2>2 DEF Seen
<1>8. Seen(ip)'
  BY <1>2, <1>3, <1>4, <1>5, <1>6, <1>7 DEF Seen
<1>9. Unseen(ip)' /\ Spaced(ip)'
  BY <1>3, <1>6 DEF Unseen, Spaced
<1> QED BY <1>1, <1>2, <1>8, <1>9, OthersKept DEF IInv

\* The loop forgets only visitors whose requests are more than a minute old.
LEMMA CleanupKeeps ==
  ASSUME IInv, Cleanup
  PROVE  IInv'
<1> USE RateAssumption
<1>1. Types'
  BY DEF IInv, Types, Cleanup, Absent
<1>2. now' = now /\ asked' = asked /\ granted' = granted
  BY DEF Cleanup
<1>3. ASSUME NEW ip \in IPs
      PROVE  Seen(ip)' /\ Unseen(ip)' /\ Spaced(ip)'
  <2>1. Seen(ip) /\ Unseen(ip) /\ Spaced(ip) /\ now \in Nat /\ granted[ip] \in Seq(Nat)
        /\ visitors[ip].lastSeen \in Nat
    BY <1>3 DEF IInv, Types
  <2>2. CASE ~Forgotten(visitors[ip])
    <3>1. visitors'[ip] = visitors[ip]
      BY <1>3, <2>2 DEF Cleanup
    <3> QED BY <1>2, <2>1, <3>1 DEF Seen, Unseen, Spaced, Current
  <2>3. CASE Forgotten(visitors[ip])
    <3>1. visitors'[ip].count = 0
      BY <1>3, <2>3 DEF Cleanup, Absent
    <3>2. \A i \in DOMAIN granted[ip] : now - granted[ip][i] > Minute
      <4>1. CASE visitors[ip].count = 0
        BY <2>1, <4>1 DEF Unseen
      <4>2. CASE visitors[ip].count # 0
        <5>1. \A i \in DOMAIN granted[ip] :
                granted[ip][i] \in Nat /\ granted[ip][i] <= visitors[ip].lastSeen
          BY <2>1, <4>2 DEF Seen
        <5> QED BY <2>1, <2>3, <5>1 DEF Forgotten
      <4> QED BY <4>1, <4>2
    <3> QED BY <1>2, <2>1, <3>1, <3>2 DEF Seen, Unseen, Spaced
  <2> QED BY <2>2, <2>3
<1> QED BY <1>1, <1>3 DEF IInv

\* The clock only makes what was let through older.
LEMMA TickKeeps ==
  ASSUME IInv, Tick
  PROVE  IInv'
<1> USE RateAssumption
<1>1. Types'
  BY DEF IInv, Types, Tick
<1>2. ASSUME NEW ip \in IPs
      PROVE  Seen(ip)' /\ Unseen(ip)' /\ Spaced(ip)'
  <2>1. /\ Seen(ip) /\ Unseen(ip) /\ Spaced(ip) /\ now \in Nat /\ now' = now + 1
        /\ granted[ip] \in Seq(Nat) /\ visitors[ip].lastSeen \in Nat
        /\ visitors' = visitors /\ asked' = asked /\ granted' = granted
    BY <1>2 DEF IInv, Types, Tick
  <2>2. Seen(ip)'
    BY <2>1 DEF Seen, Current
  <2>3. Unseen(ip)'
    <3>1. \A i \in DOMAIN granted[ip] : granted[ip][i] \in Nat
      BY <2>1
    <3> QED BY <2>1, <3>1 DEF Unseen
  <2>4. Spaced(ip)'
    BY <2>1 DEF Spaced
  <2> QED BY <2>2, <2>3, <2>4
<1> QED BY <1>1, <1>2 DEF IInv

LEMMA InvariantHolds == Spec => []IInv
<1>1. Init => IInv
  BY RateAssumption DEF Init, IInv, Types, Absent, Seen, Unseen, Spaced
<1>2. IInv /\ [Next]_vars => IInv'
  <2> SUFFICES ASSUME IInv, [Next]_vars
               PROVE  IInv'
    OBVIOUS
  <2>1. CASE UNCHANGED vars
    BY <2>1 DEF vars, IInv, Types, Seen, Unseen, Spaced, Current
  <2>2. CASE Cleanup
    BY <2>2, CleanupKeeps
  <2>3. CASE Tick
    BY <2>3, TickKeeps
  <2>4. ASSUME NEW ip \in IPs, StartOver(ip)
        PROVE  IInv'
    BY <2>4, StartOverKeeps
  <2>5. ASSUME NEW ip \in IPs, Allow(ip)
        PROVE  IInv'
    BY <2>5, AllowKeeps
  <2>6. ASSUME NEW ip \in IPs, Refuse(ip)
        PROVE  IInv'
    BY <2>6, RefuseKeeps
  <2> QED BY <2>1, <2>2, <2>3, <2>4, <2>5, <2>6 DEF Next
<1> QED BY <1>1, <1>2, PTL DEF Spec

\* Type correctness of the rate limiter: the map tells when each visitor it
\* holds was last seen (middleware.go:88).
THEOREM LimiterTypes == Spec => []TypeOK
<1>1. IInv => TypeOK
  BY DEF IInv, Types, Seen, TypeOK
<1> QED BY <1>1, InvariantHolds, PTL

\* No visitor gets more than Rate requests through within any minute
\* (middleware.go:80), whatever it asks and whenever the loop cleans up.
THEOREM RateKept == Spec => []WithinRate
<1>1. IInv => WithinRate
  BY DEF IInv, Spaced, WithinRate
<1> QED BY <1>1, InvariantHolds, PTL

-----------------------------------------------------------------------------
(* Who is refused.                                                         *)

\* A counted request follows the one before it within a minute.
LEMMA CountIsSteady ==
  ASSUME IInv, NEW ip \in IPs, Steady(ip), Count(ip)
  PROVE  /\ Steady(ip)'
         /\ Len(asked'[ip]) = Len(asked[ip]) + 1
         /\ visitors[ip].count <= Len(asked[ip])
         /\ \A i \in (Len(asked[ip]) - visitors[ip].count + 1) .. Len(asked[ip]) :
              asked'[ip][i + 1] - asked'[ip][i] <= Minute
<1> DEFINE s == asked[ip]
           t == asked'[ip]
           c == visitors[ip].count
<1>1. /\ s \in Seq(Nat) /\ now \in Nat /\ t = Append(s, now)
      /\ c \in Nat \ {0} /\ visitors'[ip].count = c + 1
      /\ visitors[ip].lastSeen \in Nat /\ now - visitors[ip].lastSeen <= Minute
      /\ visitors[ip].lastSeen = s[Len(s)]
  BY RateAssumption DEF IInv, Types, Seen, Count, Ask, Forgotten
<1>2. /\ c <= Len(s)
      /\ \A i \in (Len(s) - c + 1) .. (Len(s) - 1) : s[i + 1] - s[i] <= Minute
  BY <1>1 DEF Steady
<1> HIDE DEF s, t, c
<1>3. /\ Len(s) \in Nat /\ Len(t) = Len(s) + 1
      /\ \A i \in 1 .. Len(s) : t[i] = s[i]
      /\ t[Len(s) + 1] = now
  BY <1>1, AppendFacts
<1>4. ASSUME NEW i \in (Len(s) - c + 1) .. Len(s)
      PROVE  t[i + 1] - t[i] <= Minute
  <2>1. CASE i = Len(s)
    <3>1. i \in 1 .. Len(s)
      BY <1>1, <1>2, <1>3, <2>1
    <3> QED
      BY <1>1, <1>3, <2>1, <3>1
  <2>2. CASE i # Len(s)
    <3>1. i \in (Len(s) - c + 1) .. (Len(s) - 1) /\ i \in 1 .. Len(s) /\ i + 1 \in 1 .. Len(s)
      BY <1>1, <1>2, <1>3, <2>2
    <3>2. t[i] = s[i] /\ t[i + 1] = s[i + 1]
      BY <1>3, <3>1
    <3> QED
      BY <1>2, <3>1, <3>2
  <2> QED
    BY <2>1, <2>2
<1>5. c + 1 <= Len(t) /\ (Len(t) - (c + 1) + 1) = Len(s) - c + 1 /\ Len(t) - 1 = Len(s)
  BY <1>1, <1>2, <1>3
<1> QED
  BY <1>1, <1>2, <1>3, <1>4, <1>5 DEF Steady, s, t, c

LEMMA SteadyKept ==
  ASSUME IInv, AllSteady, [Next]_vars
  PROVE  AllSteady'
<1>1. ASSUME UNCHANGED asked, \A ip \in IPs : visitors'[ip].count \in {0, visitors[ip].count}
      PROVE  AllSteady'
  BY <1>1 DEF AllSteady, Steady
<1>2. ASSUME NEW ip \in IPs, Ask(ip), Steady(ip)',
             \A other \in IPs \ {ip} : visitors'[other] = visitors[other]
      PROVE  AllSteady'
  <2>1. \A other \in IPs \ {ip} : asked'[other] = asked[other]
    BY <1>2 DEF IInv, Types, Ask
  <2> QED
    BY <1>2, <2>1 DEF AllSteady, Steady
<1>3. ASSUME NEW ip \in IPs, StartOver(ip) PROVE AllSteady'
  <2>1. /\ asked'[ip] = Append(asked[ip], now) /\ asked[ip] \in Seq(Nat) /\ now \in Nat
        /\ visitors'[ip].count = 1
        /\ \A other \in IPs \ {ip} : visitors'[other] = visitors[other]
    BY <1>3 DEF IInv, Types, StartOver, Ask
  <2>2. Len(asked'[ip]) \in Nat /\ Len(asked'[ip]) >= 1
    BY <2>1
  <2>3. Steady(ip)'
    BY <2>1, <2>2 DEF Steady
  <2> QED
    BY <1>2, <1>3, <2>1, <2>3 DEF StartOver
<1>4. ASSUME NEW ip \in IPs, Count(ip) PROVE AllSteady'
  <2>1. \A other \in IPs \ {ip} : visitors'[other] = visitors[other]
    BY <1>4 DEF IInv, Types, Count
  <2> QED
    BY <1>2, <1>4, <2>1, CountIsSteady DEF AllSteady, Count
<1>5. CASE Cleanup
  BY <1>1, <1>5 DEF Cleanup, Absent
<1>6. CASE Tick \/ UNCHANGED vars
  BY <1>1, <1>6 DEF Tick, vars
<1> QED
  BY <1>3, <1>4, <1>5, <1>6 DEF Next, Allow, Refuse

\* Only a visitor that has asked Rate times without a pause of more than a
\* minute is refused (middleware.go:90), for any rate and however the cleanup
\* loop runs in between.
THEOREM RefusedInTurn == Spec => RefusedOnlyAfterRate
<1>1. Init => AllSteady
  BY DEF Init, AllSteady, Steady, Absent
<1>2. ASSUME IInv, AllSteady, [Next]_vars
      PROVE  [\A ip \in IPs : asked'[ip] # asked[ip] /\ granted'[ip] = granted[ip] =>
                /\ Len(asked[ip]) >= Rate
                /\ \A i \in (Len(asked'[ip]) - Rate) .. Len(asked[ip]) :
                     asked'[ip][i + 1] - asked'[ip][i] <= Minute]_vars
  <2> SUFFICES ASSUME Next, NEW ip \in IPs, asked'[ip] # asked[ip], granted'[ip] = granted[ip]
               PROVE  /\ Len(asked[ip]) >= Rate
                      /\ \A i \in (Len(asked'[ip]) - Rate) .. Len(asked[ip]) :
                           asked'[ip][i + 1] - asked'[ip][i] <= Minute
    BY <1>2
  <2>1. PICK other \in IPs : StartOver(other) \/ Allow(other) \/ Refuse(other)
    BY DEF Next, Cleanup, Tick
  <2>2. other = ip
    <3>1. asked' = [asked EXCEPT ![other] = Append(@, now)]
      BY <2>1 DEF StartOver, Allow, Refuse, Count, Ask
    <3>2. asked \in [IPs -> Seq(Nat)]
      BY <1>2 DEF IInv, Types
    <3> QED
      BY <3>1, <3>2
  <2>3. ~StartOver(ip) /\ ~Allow(ip)
    <3>1. granted[ip] \in Seq(Nat) /\ now \in Nat /\ granted \in [IPs -> Seq(Nat)]
      BY <1>2 DEF IInv, Types
    <3>2. Append(granted[ip], now) # granted[ip]
      <4>1. Len(Append(granted[ip], now)) = Len(granted[ip]) + 1 /\ Len(granted[ip]) \in Nat
        BY <3>1
      <4> QED
        BY <4>1
    <3> QED
      BY <3>1, <3>2 DEF StartOver, Allow
  <2>4. Count(ip) /\ ~Within(visitors[ip])
    BY <2>1, <2>2, <2>3 DEF Refuse
  <2>5. visitors[ip].count \in Nat /\ visitors[ip].count >= Rate /\ Len(asked[ip]) \in Nat
    BY <1>2, <2>4, RateAssumption DEF Within, IInv, Types
  <2>6. /\ Len(asked'[ip]) = Len(asked[ip]) + 1
        /\ visitors[ip].count <= Len(asked[ip])
        /\ \A i \in (Len(asked[ip]) - visitors[ip].count + 1) .. Len(asked[ip]) :
             asked'[ip][i + 1] - asked'[ip][i] <= Minute
    BY <1>2, <2>4, CountIsSteady DEF AllSteady
  <2> QED
    BY <2>5, <2>6, RateAssumption
<1>3. Spec => []AllSteady
  BY <1>1, SteadyKept, InvariantHolds, PTL DEF Spec
<1> QED
  BY <1>2, <1>3, InvariantHolds, PTL DEF Spec, RefusedOnlyAfterRate
=============================================================================
