\* Two static-JWT accounts with one cache key and two requests, with fairness.
SPECIFICATION FairSpec
CONSTANTS
  a1 = a1
  a2 = a2
  r1 = r1
  r2 = r2
  NoAccount = NoAccount
  Accounts <- MCAccounts
  Requests = {r1, r2}
  Licensed = {}
  CacheKey <- SharedKey
  MaxUpstreamRetries = 3
PROPERTIES
  RequestsEnd
  FairLease
