--------------------------- MODULE MCAccountPool ----------------------------
(* Instances of AccountPool for TLC: one licensed account and static-JWT   *)
(* accounts whose quota-cache keys are the same, as the 8-character JWT    *)
(* prefix makes them.                                                      *)
EXTENDS AccountPool, TLC

CONSTANTS a1, a2, r1, r2

MCAccounts == {a1, a2}
MCLicensed == {a1}
MCCacheKey == (a1 :> "licence1") @@ (a2 :> "jwt-prefix")
MCSymmetry == Permutations(Requests)
SharedKey == [a \in MCAccounts |-> "jwt-prefix"]
=============================================================================
