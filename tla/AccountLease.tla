---------------------------- MODULE AccountLease ----------------------------
(***************************************************************************)
(* What the account pool promises its users: the JetBrains accounts are    *)
(* lent out exclusively.  An account is either free or held by one         *)
(* request, a request holds at most one account, and a request that holds  *)
(* an account gives it back.  How an account is chosen, checked, refreshed *)
(* or rejected is not visible here; AccountPool implements this module.    *)
(***************************************************************************)
EXTENDS FiniteSets

CONSTANTS Accounts,   \* the configured accounts
          Requests,   \* the concurrent HTTP requests
          NoAccount   \* "no account held"

\* What AccountPool assumes of its constants, and the theorems here need.
NoAccountApart == NoAccount \notin Accounts

VARIABLES free,   \* the accounts nobody holds
          holds   \* the account each request holds

leaseVars == <<free, holds>>

Init == /\ free = Accounts
        /\ holds = [r \in Requests |-> NoAccount]

\* A request without an account is lent a free one.
Grant(r) == /\ holds[r] = NoAccount
            /\ \E a \in free : /\ free' = free \ {a}
                               /\ holds' = [holds EXCEPT ![r] = a]

\* A request returns the account it holds.
Return(r) == /\ holds[r] # NoAccount
             /\ free' = free \cup {holds[r]}
             /\ holds' = [holds EXCEPT ![r] = NoAccount]

Next == \E r \in Requests : Grant(r) \/ Return(r)

Fairness == \A r \in Requests : WF_leaseVars(Return(r))

Spec == Init /\ [][Next]_leaseVars

FairSpec == Spec /\ Fairness

-----------------------------------------------------------------------------
TypeOK == /\ free \subseteq Accounts
          /\ holds \in [Requests -> Accounts \cup {NoAccount}]

\* No account is lent to two requests, or lent and free at the same time.
Exclusive ==
  \A r \in Requests : holds[r] # NoAccount =>
    /\ holds[r] \notin free
    /\ \A s \in Requests : holds[s] = holds[r] => s = r

\* Every account is accounted for: free, or held by somebody.
Complete == \A a \in Accounts : a \in free \/ \E r \in Requests : holds[r] = a
=============================================================================
