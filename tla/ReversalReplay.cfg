\* Calls are bounded and files end, so a part may stop.
SPECIFICATION PortfolioSpec
CONSTANTS
  c1 = c1
  c2 = c2
  acct = acct
  None = None
  Clients = {c1, c2}
  Submissions <- TheSubmissions
  Accounts = {acct}
  Buckets <- TheBuckets
  ForeignIds = {"f1"}
  Files <- BrokerFiles
  Candidates <- Resolvers
  NoRef = "none"
  Entries <- TheEntries
  PageSize = 1
  MaxTime = 1
  MaxAppends = 3
  TransactionIds = {1, 2, 3, 4}
  MaxCalls = 3
CHECK_DEADLOCK FALSE
INVARIANT
  ReplayIsDuplicate
