---------------------------- MODULE RateLimiter -----------------------------
(***************************************************************************)
(* The rate limiter of server/middleware.go: one counter per visitor,      *)
(* started over when the visitor was not seen for more than a minute, and  *)
(* a loop that forgets such visitors.  Every operation holds the mutex.    *)
(*                                                                         *)
(* Time is discrete; a minute is Minute ticks.                             *)
(***************************************************************************)
EXTENDS Integers, Sequences

CONSTANTS IPs,          \* the visitors
          Rate,         \* ratePerMinute
          Minute,       \* time.Minute, in ticks of the clock
          MaxTime,      \* bound: how far the clock runs
          MaxRequests   \* bound: how many requests one visitor makes

ASSUME RateAssumption == /\ Rate \in Nat \ {0} /\ Minute \in Nat
                         /\ MaxTime \in Nat /\ MaxRequests \in Nat

VARIABLES now,       \* time.Now
          visitors,  \* visitors: a visitorInfo for each IP, Absent if none
          asked,     \* history variable: when each visitor asked
          granted    \* history variable: when each visitor was let through

vars == <<now, visitors, asked, granted>>

\* A visitor that is not in the map has count 0, a visitorInfo at least 1.
Absent == [count |-> 0, lastSeen |-> 0]

Init == /\ now = 0
        /\ visitors = [ip \in IPs |-> Absent]
        /\ asked = [ip \in IPs |-> <<>>]
        /\ granted = [ip \in IPs |-> <<>>]

\* Mutated form: a minute of silence is enough.
Forgotten_Early(v) == now - v.lastSeen >= Minute

\* More than a minute has passed since the visitor was last seen.
Forgotten(v) == now - v.lastSeen > Minute

Ask(ip) == /\ Len(asked[ip]) < MaxRequests
           /\ asked' = [asked EXCEPT ![ip] = Append(@, now)]
           /\ UNCHANGED now

\* allow: the count starts over, for a visitor that is new or was forgotten.
StartOver(ip) ==
  /\ Ask(ip)
  /\ visitors[ip].count = 0 \/ Forgotten(visitors[ip])
  /\ visitors' = [visitors EXCEPT ![ip] = [count |-> 1, lastSeen |-> now]]
  /\ granted' = [granted EXCEPT ![ip] = Append(@, now)]

\* Mutated form: the last request of the rate is refused.
Within_OffByOne(v) == v.count + 1 < Rate

\* The request counted next is within the rate.
Within(v) == v.count + 1 <= Rate

\* Mutated form: the visitor is counted but not seen.
Count_NotSeen(ip) ==
  /\ Ask(ip)
  /\ visitors[ip].count # 0 /\ ~Forgotten(visitors[ip])
  /\ visitors' = [visitors EXCEPT ![ip].count = @ + 1]

Count(ip) ==
  /\ Ask(ip)
  /\ visitors[ip].count # 0 /\ ~Forgotten(visitors[ip])
  /\ visitors' = [visitors EXCEPT ![ip] = [count |-> @.count + 1, lastSeen |-> now]]

\* allow: one more within the rate.
Allow(ip) == /\ Count(ip) /\ Within(visitors[ip])
             /\ granted' = [granted EXCEPT ![ip] = Append(@, now)]

\* allow: refused, and yet counted and seen.
Refuse(ip) == Count(ip) /\ ~Within(visitors[ip]) /\ UNCHANGED granted

\* cleanupLoop: its ticker may fire at any moment.
Cleanup == /\ visitors' = [ip \in IPs |-> IF Forgotten(visitors[ip]) THEN Absent
                                          ELSE visitors[ip]]
           /\ UNCHANGED <<now, asked, granted>>

Tick == /\ now < MaxTime
        /\ now' = now + 1
        /\ UNCHANGED <<visitors, asked, granted>>

Next == \/ Cleanup \/ Tick
        \/ \E ip \in IPs : StartOver(ip) \/ Allow(ip) \/ Refuse(ip)

Spec == Init /\ [][Next]_vars

-----------------------------------------------------------------------------
(* Properties.                                                             *)

\* Every variable has its type, and a visitorInfo tells when its visitor last
\* asked, whether or not it was let through.
TypeOK ==
  /\ now \in Nat
  /\ visitors \in [IPs -> [count : Nat, lastSeen : Nat]]
  /\ asked \in [IPs -> Seq(Nat)] /\ granted \in [IPs -> Seq(Nat)]
  /\ \A ip \in IPs : visitors[ip].count # 0 =>
       asked[ip] # <<>> /\ visitors[ip].lastSeen = asked[ip][Len(asked[ip])]

\* However requests, pauses and cleanups follow one another, no visitor gets
\* more than Rate requests through within any minute (middleware.go:80): of
\* Rate + 1 in a row, the last comes more than a minute after the first.
WithinRate == \A ip \in IPs : \A i \in DOMAIN granted[ip] :
  i + Rate \in DOMAIN granted[ip] => granted[ip][i + Rate] - granted[ip][i] > Minute

\* Only a visitor that has asked Rate times without a pause of more than a
\* minute is refused: a cleanup or a pause never makes things worse.
RefusedOnlyAfterRate ==
  [][\A ip \in IPs : asked'[ip] # asked[ip] /\ granted'[ip] = granted[ip] =>
       /\ Len(asked[ip]) >= Rate
       /\ \A i \in (Len(asked'[ip]) - Rate) .. Len(asked[ip]) :
            asked'[ip][i + 1] - asked'[ip][i] <= Minute]_vars
=============================================================================
