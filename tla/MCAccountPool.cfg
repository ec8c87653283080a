\* Two accounts (one licensed, one static JWT) and two requests.
SPECIFICATION Spec
CONSTANTS
  a1 = a1
  a2 = a2
  r1 = r1
  r2 = r2
  NoAccount = NoAccount
  Accounts <- MCAccounts
  Requests = {r1, r2}
  Licensed <- MCLicensed
  CacheKey <- MCCacheKey
  MaxUpstreamRetries = 3
SYMMETRY MCSymmetry
INVARIANTS
  TypeOK
  Exclusive
  ReadyWhenSent
PROPERTIES
  OnlyHolderWrites
  LeaseSpec
