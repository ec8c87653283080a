\* Two accounts, one of them with both kinds of quota; answers may lack amounts.
SPECIFICATION FairSpec
CONSTANTS
  a1 = a1
  a2 = a2
  k1 = k1
  k2 = k2
  Accounts <- MCAccounts
  Keys <- MCKeys
  Owners <- MCOwners
  Plans <- MCPlans
  Full = 1
  Losses <- MCLosses
  NoAnswer = NoAnswer
  NoNumber = NoNumber
INVARIANTS
  VerdictIsOwn
  RefusedOnce
PROPERTY
  UsedAgain
