---------------------------- MODULE QuotaVerdicts ---------------------------
(***************************************************************************)
(* What the program believes of the quota of its accounts: HasQuota of     *)
(* each account, the answers of the quota endpoint and the cache between   *)
(* them (GetQuotaData and ProcessQuotaData in internal/account/api.go,     *)
(* checkQuotaInternal in manager.go, MarkAccountNoQuota on a 477), next to *)
(* the truth, which is upstream.                                           *)
(*                                                                         *)
(* At most one request holds an account at a time (AccountPool), so that   *)
(* the steps on an account are those of its holder; AccountPool has the    *)
(* JWT refreshes in between.  The statistics page asks for any account at  *)
(* any time, on a copy.                                                    *)
(***************************************************************************)
EXTENDS Naturals

CONSTANTS Accounts,  \* the configured accounts
          Keys,      \* licences and eight-character JWT prefixes
          Owners,    \* the assignments of keys to accounts
          Plans,     \* the assignments of kinds of quota to accounts
          Full,      \* the amount of a kind of quota that is unused
          Losses,    \* the sets of figures that an answer may be without
          NoAnswer,  \* no answer of the quota endpoint
          NoNumber   \* an amount that is missing or does not parse

VARIABLES key,       \* the quota-cache key of each account
          plan,      \* the kinds of quota each account was sold
          left,      \* upstream: what is left of each kind
          hasQuota,  \* HasQuota of each live account
          cached,    \* the quota cache: an answer or none for each key
          pc,        \* what the holder of each account is about to do
          answer,    \* what the holder has fetched to store in the cache
          page,      \* the account and what the page is about to store for it
          seen,      \* history variable: what the account's own last contact
                     \* with upstream showed
          refused    \* history variable: 477s since the account's last fetch

configured == <<key, plan>>
vars == <<key, plan, left, hasQuota, cached, pc, answer, page, seen, refused>>

Kinds == {"tariff", "topUp"}

Figures == {"used", "total", "tariff", "topUp"}

ASSUME QuotaAssumption == /\ Owners \subseteq [Accounts -> Keys]
                          /\ Plans \subseteq [Accounts -> (SUBSET Kinds) \ {{}}]
                          /\ Full \in Nat \ {0} /\ Losses \subseteq SUBSET Figures
                          /\ NoAnswer \notin Nat /\ NoNumber \notin Nat
                          /\ NoAnswer # NoNumber

-----------------------------------------------------------------------------
(* Answers of the quota endpoint.  An amount is a number of units; the     *)
(* overall figures are those of the tariff.                                *)

Blank == [used |-> NoNumber, total |-> NoNumber, tariff |-> NoAnswer, topUp |-> NoAnswer]

\* A part of the breakdown is there for the kinds the account has.
Report(a) ==
  [used   |-> Full - left[a]["tariff"], total |-> Full,
   tariff |-> IF "tariff" \in plan[a] THEN left[a]["tariff"] ELSE NoAnswer,
   topUp  |-> IF "topUp" \in plan[a] THEN left[a]["topUp"] ELSE NoAnswer]

\* The report without some of its amounts: the part is there, its amount is
\* missing or does not parse.
Without(lost, d) ==
  LET sent(figure, amount) ==
        IF figure \in lost /\ amount # NoAnswer THEN NoNumber ELSE amount
  IN  [used   |-> sent("used", d.used),     total |-> sent("total", d.total),
       tariff |-> sent("tariff", d.tariff), topUp |-> sent("topUp", d.topUp)]

\* Upstream answers with a report, with one that lacks amounts, or with an
\* object that has nothing in it.
Answers(a) == {Blank} \cup {Without(lost, Report(a)) : lost \in Losses}

\* The cache stores and returns clones, which have the overall figures only.
Clone(d) == [d EXCEPT !.tariff = NoAnswer, !.topUp = NoAnswer]

\* strconv.ParseFloat, its error ignored.
Parsed(amount) == IF amount = NoNumber THEN 0 ELSE amount

\* A total of nothing counts as one, so that a blank answer means quota.
OverallLeft(d) ==
  Parsed(d.used) < (IF Parsed(d.total) = 0 THEN 1 ELSE Parsed(d.total))

\* Positive top-up quota is enough; without any the tariff decides if it is
\* there.  The overall figures count when there is no top-up part at all.
ProcessQuotaData(d) ==
  IF d.topUp = NoAnswer THEN OverallLeft(d)
  ELSE Parsed(d.topUp) > 0 \/ (d.tariff # NoAnswer /\ Parsed(d.tariff) > 0)

Exhausted(a) == \A k \in Kinds : left[a][k] = 0

\* The amounts that tell what is left: those of the parts, or the overall
\* figures when there is no top-up part.
Telling(d) == IF d.topUp = NoAnswer THEN {d.used, d.total} ELSE {d.topUp, d.tariff}

\* What a contact tells of the account itself, whatever its form.
Shown(a, d) == CASE d = Blank                            -> "nothing"
                 [] d # Blank /\ NoNumber \in Telling(d) -> "unclear"
                 [] OTHER -> IF Exhausted(a) THEN "exhausted" ELSE "quota"

-----------------------------------------------------------------------------
(* Initial state: accounts as configured, believed to have quota; an       *)
(* amount of nothing of a kind that was not sold.                          *)

Sold(p) == {l \in [Kinds -> 0 .. Full] : \A k \in Kinds \ p : l[k] = 0}

Init == /\ key \in Owners /\ plan \in Plans
        /\ left \in [Accounts -> [Kinds -> 0 .. Full]]
        /\ \A a \in Accounts : left[a] \in Sold(plan[a])
        /\ hasQuota = [a \in Accounts |-> TRUE]
        /\ cached = [k \in Keys |-> NoAnswer]
        /\ pc = [a \in Accounts |-> "free"]
        /\ answer = [a \in Accounts |-> NoAnswer]
        /\ page = NoAnswer
        /\ seen = [a \in Accounts |-> "nothing"]
        /\ refused = [a \in Accounts |-> 0]

Goto(a, place) == pc' = [pc EXCEPT ![a] = place]

-----------------------------------------------------------------------------
(* The holder of an account: ensureAccountReady and SendUpstreamRequest.   *)

\* The end of ensureAccountReady: send, or put the account back.  Only the
\* holder changes HasQuota meanwhile.
Judge(a) == Goto(a, IF hasQuota'[a] THEN "send" ELSE "free")

\* Mutated form: an account marked as exhausted is rejected unchecked.
LookUp_Marked(a) ==
  /\ pc[a] = "free" /\ hasQuota[a]
  /\ Goto(a, IF cached[key[a]] = NoAnswer THEN "fetch" ELSE "send")
  /\ UNCHANGED <<configured, left, hasQuota, cached, answer, page, seen, refused>>

\* Mutated form: the cached answer is processed like a fresh one.
LookUp_Processed(a) ==
  /\ pc[a] = "free"
  /\ IF cached[key[a]] = NoAnswer
     THEN Goto(a, "fetch") /\ UNCHANGED hasQuota
     ELSE /\ hasQuota' = [hasQuota EXCEPT ![a] = ProcessQuotaData(cached[key[a]])]
          /\ Judge(a)
  /\ UNCHANGED <<configured, left, cached, answer, page, seen, refused>>

\* A request draws the account and asks for its quota.  A cached answer, of
\* this account or another one with its key, leaves HasQuota as it is.
LookUp(a) ==
  /\ pc[a] = "free"
  /\ UNCHANGED <<configured, left, hasQuota, cached, answer, page, seen, refused>>
  /\ IF cached[key[a]] = NoAnswer THEN Goto(a, "fetch") ELSE Judge(a)

\* getQuotaDataDirect: the answer is processed for the live account.
FetchAnswer(a, d) ==
  /\ pc[a] = "fetch"
  /\ answer' = [answer EXCEPT ![a] = Clone(d)]
  /\ hasQuota' = [hasQuota EXCEPT ![a] = ProcessQuotaData(d)]
  /\ seen' = [seen EXCEPT ![a] = Shown(a, d)]
  /\ refused' = [refused EXCEPT ![a] = 0]
  /\ Goto(a, "store")
  /\ UNCHANGED <<configured, left, cached, page>>

Fetch(a) == \E d \in Answers(a) : FetchAnswer(a, d)

\* No answer or an error status; a final 401 deletes the cache entry.
FetchFails(a) ==
  /\ pc[a] = "fetch"
  /\ \/ UNCHANGED cached
     \/ cached' = [cached EXCEPT ![key[a]] = NoAnswer]
  /\ Goto(a, "free")
  /\ UNCHANGED <<configured, left, hasQuota, answer, page, seen, refused>>

\* SetQuotaCache, after the account was updated.
Store(a) == /\ pc[a] = "store"
            /\ cached' = [cached EXCEPT ![key[a]] = answer[a]]
            /\ answer' = [answer EXCEPT ![a] = NoAnswer]
            /\ UNCHANGED <<configured, left, hasQuota, page, seen, refused>>
            /\ Judge(a)

\* Mutated form: a refused account goes back unmarked.
SendRefused_Unmarked(a) ==
  /\ pc[a] = "send" /\ Exhausted(a)
  /\ seen' = [seen EXCEPT ![a] = "exhausted"]
  /\ refused' = [refused EXCEPT ![a] = IF @ = 0 THEN 1 ELSE 2]
  /\ Goto(a, "free")
  /\ UNCHANGED <<configured, left, hasQuota, cached, answer, page>>

\* Upstream answers 477: the account is marked, the cache entry stays.
SendRefused(a) ==
  /\ pc[a] = "send" /\ Exhausted(a)
  /\ hasQuota' = [hasQuota EXCEPT ![a] = FALSE]
  /\ seen' = [seen EXCEPT ![a] = "exhausted"]
  /\ refused' = [refused EXCEPT ![a] = IF @ = 0 THEN 1 ELSE 2]
  /\ Goto(a, "free")
  /\ UNCHANGED <<configured, left, cached, answer, page>>

\* Any other outcome, of the send or of the response after it.
SendDone(a) == /\ pc[a] = "send"
               /\ Goto(a, "free")
               /\ UNCHANGED <<configured, left, hasQuota, cached, answer, page, seen, refused>>

-----------------------------------------------------------------------------
(* getStatsData: GetQuotaData on a copy, so that only the cache keeps what *)
(* it finds.  One page is filled at a time; a 401 to it is an Expire.      *)

PageFetch(a) ==
  /\ page = NoAnswer /\ cached[key[a]] = NoAnswer
  /\ \E d \in Answers(a) : page' = [account |-> a, answer |-> Clone(d)]
  /\ UNCHANGED <<configured, left, hasQuota, cached, pc, answer, seen, refused>>

PageStore ==
  /\ page # NoAnswer
  /\ cached' = [cached EXCEPT ![key[page.account]] = page.answer]
  /\ page' = NoAnswer
  /\ UNCHANGED <<configured, left, hasQuota, pc, answer, seen, refused>>

-----------------------------------------------------------------------------
(* The surroundings.                                                       *)

\* QuotaCacheTime is over.
Expire(k) == /\ cached[k] # NoAnswer
             /\ cached' = [cached EXCEPT ![k] = NoAnswer]
             /\ UNCHANGED <<configured, left, hasQuota, pc, answer, page, seen, refused>>

\* Quota is used up, by this program or elsewhere.
Spend(a) == \E k \in Kinds :
  /\ left[a][k] > 0
  /\ left' = [left EXCEPT ![a][k] = @ - 1]
  /\ UNCHANGED <<configured, hasQuota, cached, pc, answer, page, seen, refused>>

\* A new month, or more quota was bought.
Refill(a) == \E k \in plan[a] :
  /\ left[a][k] < Full
  /\ left' = [left EXCEPT ![a][k] = Full]
  /\ UNCHANGED <<configured, hasQuota, cached, pc, answer, page, seen, refused>>

Hold(a) == Fetch(a) \/ FetchFails(a) \/ Store(a) \/ SendRefused(a) \/ SendDone(a)

Next == \/ \E a \in Accounts : LookUp(a) \/ Hold(a) \/ PageFetch(a)
                               \/ Spend(a) \/ Refill(a)
        \/ PageStore
        \/ \E k \in Keys : Expire(k)

\* Requests keep coming and draw every account, since the pool is a queue;
\* calls end, entries expire, and a quota endpoint that is asked again and
\* again answers with a full report at some time.
Fairness ==
  /\ \A a \in Accounts : /\ WF_vars(LookUp(a)) /\ WF_vars(Hold(a))
                         /\ SF_vars(FetchAnswer(a, Report(a)))
  /\ \A k \in Keys : WF_vars(Expire(k))

Spec == Init /\ [][Next]_vars

FairSpec == Spec /\ Fairness

-----------------------------------------------------------------------------
(* Properties.                                                             *)

\* What is believed of an account rests on what upstream last said about
\* this very account, to a request that held it: no cached answer, be it the
\* page's, outdated or about another account with the same key, makes or
\* clears a mark, and the verdict on an answer that has its amounts is right
\* for every kind of account.  Nothing is said of a verdict on an answer that
\* lacks one of the amounts that tell what is left: the amount counts as 0,
\* whatever the account has (api.go:170).
VerdictIsOwn ==
  \A a \in Accounts : seen[a] # "unclear" => (hasQuota[a] <=> seen[a] # "exhausted")

\* An exhausted account costs at most one refused prompt until upstream is
\* asked about it again, however long a cached answer says it has quota.
RefusedOnce == \A a \in Accounts : refused[a] <= 1

PageFills(a) == PageStore /\ key[page.account] = key[a]
KeyIsOwn(a) == \A b \in Accounts : key[b] = key[a] => b = a

\* An account that has quota again, and keeps it, is used again: the mark of
\* a 477 is lifted once the cached answer has expired.  That holds for an
\* account with a cache key of its own, and only if the statistics page does
\* not fill the cache for ever: each time it does so before a request, the
\* mark stays for another QuotaCacheTime.
UsedAgain ==
  \A a \in Accounts :
    (KeyIsOwn(a) /\ <>[]~Exhausted(a) /\ ~[]<><<PageFills(a)>>_vars)
      => []<>(pc[a] = "send")

\* README.md:455, "账户配额不足 (HTTP 477)", and the advice for it at :456, "解决:
\* 添加更多账户或等待配额重置" (add more accounts or wait for the quota to be
\* reset): waiting helps, an account that has quota again is used again.
QuotaResetUsed == \A a \in Accounts : <>[]~Exhausted(a) => []<>(pc[a] = "send")
=============================================================================
