------------------------ MODULE QuotaVerdicts_proofs ------------------------
(***************************************************************************)
(* What is believed of an account is what upstream last said about it, and *)
(* an exhausted account costs one refused prompt between two questions     *)
(* about it: for any accounts, any plans, any amounts that answers have or *)
(* lack, and any assignment of cache keys, those of accounts that share a  *)
(* key included.                                                           *)
(*                                                                         *)
(* VerdictIsOwn is not inductive without the amounts: the verdict on an    *)
(* answer is only right because nothing is left of a kind of quota that    *)
(* was not sold.  RefusedOnce needs to know that an account whose prompt   *)
(* was refused is marked, and that nobody sends for a marked account,      *)
(* although what is looked up for it is the answer of any account with its *)
(* key.                                                                    *)
(***************************************************************************)
EXTENDS QuotaVerdicts, TLAPS

Amounts == [Kinds -> 0 .. Full]

Types == /\ plan \in [Accounts -> SUBSET Kinds]
         /\ left \in [Accounts -> Amounts]
         /\ hasQuota \in [Accounts -> BOOLEAN]
         /\ pc \in [Accounts -> {"free", "fetch", "store", "send"}]
         /\ seen \in [Accounts -> {"nothing", "unclear", "quota", "exhausted"}]
         /\ refused \in [Accounts -> 0 .. 2]

\* Nothing is left of what was not sold.
SoldOnly(a) == \A k \in Kinds \ plan[a] : left[a][k] = 0

\* A refused account is marked, and nobody sends for a marked account.
Marked(a) == /\ pc[a] = "send" => hasQuota[a]
             /\ hasQuota[a] => refused[a] = 0

IInv == Types /\ VerdictIsOwn /\ RefusedOnce /\ \A a \in Accounts : SoldOnly(a) /\ Marked(a)

\* The verdict on an answer about an account, with any kinds of quota and with
\* any amounts missing, is what the answer shows of the account, if it shows
\* anything clearly.
LEMMA VerdictRight ==
  ASSUME NEW a \in Accounts, Types, SoldOnly(a), NEW d \in Answers(a)
  PROVE  /\ ProcessQuotaData(d) \in BOOLEAN
         /\ Shown(a, d) # "unclear" => (ProcessQuotaData(d) <=> Shown(a, d) # "exhausted")
         /\ Shown(a, d) \in {"nothing", "unclear", "quota", "exhausted"}
<1> USE QuotaAssumption
<1> DEFINE t == left[a]["tariff"]
           u == left[a]["topUp"]
<1>1. t \in 0 .. Full /\ u \in 0 .. Full
  BY DEF Types, Amounts, Kinds
<1>2. ASSUME d # Blank
      PROVE  /\ d.used \in {NoNumber, Full - t} /\ d.total \in {NoNumber, Full}
             /\ d.tariff \in {NoNumber, t, NoAnswer} /\ d.topUp \in {NoNumber, u, NoAnswer}
             /\ d.topUp = NoAnswer <=> "topUp" \notin plan[a]
             /\ d.tariff = NoAnswer <=> "tariff" \notin plan[a]
  <2>1. PICK lost \in Losses : d = Without(lost, Report(a))
    BY <1>2 DEF Answers
  <2> QED
    BY <1>1, <2>1 DEF Without, Report
<1>3. ProcessQuotaData(d) \in BOOLEAN
  <2>1. CASE d = Blank
    BY <2>1 DEF Blank, ProcessQuotaData, OverallLeft, Parsed
  <2>2. CASE d # Blank
    <3>1. /\ Parsed(d.used) \in Nat /\ Parsed(d.total) \in Nat
          /\ d.topUp # NoAnswer => Parsed(d.topUp) \in Nat
          /\ d.tariff # NoAnswer => Parsed(d.tariff) \in Nat
      BY <1>1, <1>2, <2>2 DEF Parsed
    <3>2. OverallLeft(d) \in BOOLEAN
      BY <3>1 DEF OverallLeft
    <3> QED
      BY <3>1, <3>2 DEF ProcessQuotaData
  <2> QED
    BY <2>1, <2>2
<1>4. Shown(a, d) \in {"nothing", "unclear", "quota", "exhausted"}
  BY DEF Shown
<1>5. CASE d = Blank
  BY <1>3, <1>4, <1>5 DEF Blank, ProcessQuotaData, OverallLeft, Parsed, Shown
<1>6. CASE d # Blank /\ NoNumber \in Telling(d)
  <2>1. Shown(a, d) = "unclear"
    BY <1>6 DEF Shown
  <2> QED
    BY <1>3, <1>4, <2>1
<1>7. CASE d # Blank /\ NoNumber \notin Telling(d)
  <2>1. Exhausted(a) <=> t = 0 /\ u = 0
    BY DEF Exhausted, Kinds
  <2>2. ("tariff" \notin plan[a] => t = 0) /\ ("topUp" \notin plan[a] => u = 0)
    BY DEF SoldOnly, Kinds
  <2>3. Shown(a, d) = IF Exhausted(a) THEN "exhausted" ELSE "quota"
    BY <1>7 DEF Shown
  <2>4. CASE "topUp" \in plan[a]
    <3>1. d.topUp = u /\ d.topUp # NoAnswer /\ d.tariff # NoNumber
      BY <1>1, <1>2, <1>7, <2>4 DEF Telling
    <3>2. d.tariff # NoAnswer /\ Parsed(d.tariff) > 0 <=> t > 0
      BY <1>1, <1>2, <1>7, <2>2, <3>1 DEF Parsed
    <3>3. Parsed(d.topUp) = u
      BY <1>1, <3>1 DEF Parsed
    <3>4. ProcessQuotaData(d) <=> ~Exhausted(a)
      BY <1>1, <2>1, <3>1, <3>2, <3>3 DEF ProcessQuotaData
    <3> QED
      BY <1>3, <1>4, <2>3, <3>4
  <2>5. CASE "topUp" \notin plan[a]
    <3>1. d.topUp = NoAnswer /\ d.used = Full - t /\ d.total = Full
      BY <1>2, <1>7, <2>5 DEF Telling
    <3>2. OverallLeft(d) <=> t > 0
      BY <1>1, <3>1 DEF OverallLeft, Parsed
    <3>3. ProcessQuotaData(d) <=> ~Exhausted(a)
      BY <1>1, <2>1, <2>2, <2>5, <3>1, <3>2 DEF ProcessQuotaData
    <3> QED
      BY <1>3, <1>4, <2>3, <3>3
  <2> QED
    BY <2>4, <2>5
<1> QED
  BY <1>5, <1>6, <1>7

LEMMA InitHolds == Init => IInv
<1> SUFFICES ASSUME Init PROVE IInv
  OBVIOUS
<1>1. Types
  BY QuotaAssumption DEF Init, Types, Amounts
<1>2. VerdictIsOwn /\ RefusedOnce
  BY DEF Init, VerdictIsOwn, RefusedOnce
<1>3. ASSUME NEW a \in Accounts PROVE SoldOnly(a) /\ Marked(a)
  BY <1>3 DEF Init, Sold, SoldOnly, Marked
<1> QED
  BY <1>1, <1>2, <1>3 DEF IInv

\* The steps of the holder that ask for the quota of the account.
LEMMA AskingKeeps ==
  ASSUME IInv, NEW a \in Accounts, LookUp(a) \/ FetchFails(a) \/ Store(a) \/ SendDone(a)
  PROVE  IInv'
<1>1. /\ UNCHANGED <<plan, left, hasQuota, seen, refused>>
      /\ pc' \in [Accounts -> {"free", "fetch", "store", "send"}]
      /\ \A b \in Accounts : pc'[b] = "send" => pc[b] = "send" \/ hasQuota[b]
  BY DEF IInv, Types, LookUp, FetchFails, Store, SendDone, Goto, Judge, configured
<1> QED
  BY <1>1 DEF IInv, Types, VerdictIsOwn, RefusedOnce, SoldOnly, Marked

\* A fetched answer settles the verdict anew.
LEMMA FetchKeeps ==
  ASSUME IInv, NEW a \in Accounts, Fetch(a)
  PROVE  IInv'
<1>1. PICK d \in Answers(a) : /\ hasQuota' = [hasQuota EXCEPT ![a] = ProcessQuotaData(d)]
                              /\ seen' = [seen EXCEPT ![a] = Shown(a, d)]
  BY DEF Fetch, FetchAnswer
<1>2. /\ ProcessQuotaData(d) \in BOOLEAN
      /\ Shown(a, d) # "unclear" => (ProcessQuotaData(d) <=> Shown(a, d) # "exhausted")
      /\ Shown(a, d) \in {"nothing", "unclear", "quota", "exhausted"}
  BY VerdictRight DEF IInv
<1>3. /\ UNCHANGED <<plan, left>>
      /\ refused' = [refused EXCEPT ![a] = 0]
      /\ pc' = [pc EXCEPT ![a] = "store"]
  BY DEF Fetch, FetchAnswer, Goto, configured
<1>4. Types'
  BY <1>1, <1>2, <1>3 DEF IInv, Types
<1>5. VerdictIsOwn'
  BY <1>1, <1>2 DEF IInv, Types, VerdictIsOwn
<1>6. RefusedOnce'
  BY <1>3 DEF IInv, Types, RefusedOnce
<1>7. ASSUME NEW b \in Accounts PROVE SoldOnly(b)' /\ Marked(b)'
  BY <1>1, <1>3 DEF IInv, Types, SoldOnly, Marked
<1> QED
  BY <1>4, <1>5, <1>6, <1>7 DEF IInv

\* A refusal marks the account, which had no refusal to its name.
LEMMA SendRefusedKeeps ==
  ASSUME IInv, NEW a \in Accounts, SendRefused(a)
  PROVE  IInv'
<1>1. refused[a] = 0
  BY DEF IInv, Marked, SendRefused
<1>2. /\ UNCHANGED <<plan, left>>
      /\ hasQuota' = [hasQuota EXCEPT ![a] = FALSE]
      /\ seen' = [seen EXCEPT ![a] = "exhausted"]
      /\ refused' = [refused EXCEPT ![a] = 1]
      /\ pc' = [pc EXCEPT ![a] = "free"]
  BY <1>1 DEF SendRefused, Goto, configured
<1>3. Types'
  BY <1>2 DEF IInv, Types
<1>4. VerdictIsOwn' /\ RefusedOnce'
  BY <1>2 DEF IInv, Types, VerdictIsOwn, RefusedOnce
<1>5. ASSUME NEW b \in Accounts PROVE SoldOnly(b)' /\ Marked(b)'
  BY <1>2 DEF IInv, Types, SoldOnly, Marked
<1> QED
  BY <1>3, <1>4, <1>5 DEF IInv

\* What is left changes upstream, of what was sold only.
LEMMA AmountsKeep ==
  ASSUME IInv, NEW a \in Accounts, Spend(a) \/ Refill(a)
  PROVE  IInv'
<1>1. PICK k \in Kinds, n \in 0 .. Full : /\ left' = [left EXCEPT ![a][k] = n]
                                          /\ k \notin plan[a] => n = 0
  <2>1. CASE Spend(a)
    <3>1. PICK k \in Kinds : left[a][k] > 0 /\ left' = [left EXCEPT ![a][k] = @ - 1]
      BY <2>1 DEF Spend
    <3>2. left[a][k] \in 0 .. Full /\ k \in plan[a]
      BY <3>1 DEF IInv, Types, Amounts, SoldOnly
    <3>3. left[a][k] - 1 \in 0 .. Full
      BY <3>1, <3>2, QuotaAssumption
    <3> QED
      BY <3>1, <3>2, <3>3
  <2>2. CASE Refill(a)
    <3>1. PICK k \in plan[a] : left' = [left EXCEPT ![a][k] = Full]
      BY <2>2 DEF Refill
    <3>2. k \in Kinds /\ Full \in 0 .. Full
      BY QuotaAssumption DEF IInv, Types
    <3> QED
      BY <3>1, <3>2
  <2> QED
    BY <2>1, <2>2
<1>2. UNCHANGED <<plan, hasQuota, pc, seen, refused>>
  BY DEF Spend, Refill, configured
<1>3. Types'
  BY <1>1, <1>2 DEF IInv, Types, Amounts
<1>4. VerdictIsOwn' /\ RefusedOnce'
  BY <1>2 DEF IInv, VerdictIsOwn, RefusedOnce
<1>5. ASSUME NEW b \in Accounts PROVE SoldOnly(b)' /\ Marked(b)'
  BY <1>1, <1>2 DEF IInv, Types, Amounts, SoldOnly, Marked
<1> QED
  BY <1>3, <1>4, <1>5 DEF IInv

\* The invariant does not depend on what the cache and the page hold.
LEMMA OthersKeep ==
  ASSUME IInv, UNCHANGED <<plan, left, hasQuota, pc, seen, refused>>
  PROVE  IInv'
BY DEF IInv, Types, VerdictIsOwn, RefusedOnce, SoldOnly, Marked

LEMMA InvariantHolds == Spec => []IInv
<1>1. Init => IInv
  BY InitHolds
<1>2. IInv /\ [Next]_vars => IInv'
  <2> SUFFICES ASSUME IInv, [Next]_vars PROVE IInv'
    OBVIOUS
  <2>1. ASSUME NEW a \in Accounts, LookUp(a) PROVE IInv'
    BY <2>1, AskingKeeps
  <2>2. ASSUME NEW a \in Accounts, Hold(a) PROVE IInv'
    BY <2>2, AskingKeeps, FetchKeeps, SendRefusedKeeps DEF Hold
  <2>3. ASSUME NEW a \in Accounts, Spend(a) \/ Refill(a) PROVE IInv'
    BY <2>3, AmountsKeep
  <2>4. ASSUME NEW a \in Accounts, PageFetch(a) PROVE IInv'
    BY <2>4, OthersKeep DEF PageFetch, configured
  <2>5. CASE PageStore
    BY <2>5, OthersKeep DEF PageStore, configured
  <2>6. ASSUME NEW k \in Keys, Expire(k) PROVE IInv'
    BY <2>6, OthersKeep DEF Expire, configured
  <2>7. CASE UNCHANGED vars
    BY <2>7, OthersKeep DEF vars
  <2> QED
    BY <2>1, <2>2, <2>3, <2>4, <2>5, <2>6, <2>7 DEF Next
<1> QED
  BY <1>1, <1>2, PTL DEF Spec

\* What is believed of an account is what upstream last said about it, with
\* any number of accounts, sold anything, that share cache keys in any way and
\* whatever amounts the answers lack: only an answer without one of the amounts
\* that tell what is left leads to a belief that rests on nothing.
THEOREM VerdictIsAlwaysOwn == Spec => []VerdictIsOwn
<1>1. IInv => VerdictIsOwn
  BY DEF IInv
<1> QED
  BY <1>1, InvariantHolds, PTL

\* An exhausted account costs at most one refused prompt between two
\* questions about its quota, whatever cached answers are looked up for it.
THEOREM RefusedAtMostOnce == Spec => []RefusedOnce
<1>1. IInv => RefusedOnce
  BY DEF IInv
<1> QED
  BY <1>1, InvariantHolds, PTL
=============================================================================
