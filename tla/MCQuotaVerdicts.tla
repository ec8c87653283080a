-------------------------- MODULE MCQuotaVerdicts ---------------------------
(* Two accounts with keys of their own (licences, or static JWTs that      *)
(* differ early) or with one key (static JWTs that begin alike).           *)
EXTENDS QuotaVerdicts, TLC

CONSTANTS a1, a2, k1, k2

MCAccounts == {a1, a2}
MCKeys == {k1, k2}
MCOwners == {(a1 :> k1) @@ (a2 :> k2), (a1 :> k1) @@ (a2 :> k1)}

\* One account has a top-up part and one is judged by the overall figures.
MCPlans == {(a1 :> Kinds) @@ (a2 :> {"tariff"})}

\* An answer has all its amounts or lacks that of the top-up part, or those of
\* both parts.
MCLosses == {{}, {"topUp"}, {"topUp", "tariff"}}
MCNoLosses == {{}}
=============================================================================
