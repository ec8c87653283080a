\* Two accounts, one of them with both kinds of quota.
SPECIFICATION FairSpec
CONSTANTS
  a1 = a1
  a2 = a2
  k1 = k1
  k2 = k2
  Accounts <- MCAccounts
  Keys <- MCKeys
  Owners <- MCOwners
  Plans <- MCPlans
  Full = 1
  Losses <- MCNoLosses
  NoAnswer = NoAnswer
  NoNumber = NoNumber
PROPERTY
  QuotaResetUsed
