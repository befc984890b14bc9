SPECIFICATION Spec
CONSTANTS
  Catalogs = {1, 2, 3, 4}
  Editors = {"e1", "e2"}
  Prices = {1}
  LastMoment = 4
  Transactions = {"t1", "t2", "t3"}
  MaxPolicies = 2
  MaxTurns = 4
  NoTransaction = NoTransaction
  Deciders = {"a1", "a2", "a3"}
  Calls = {"c1", "c2"}
  Keys = {"k1"}
  Amounts <- MCAmounts
  Threshold = 2
  MaxAdjustments = 2
  MaxBalance = 2
  CheckoutRequests = {"q1", "q2"}
  CheckoutKeys = {"k1", "k2"}
  Offers = {1, 2}
  MaxTransactions = 3
  MaxPortals = 2
  NoSession = NoSession
  Clients = {"c1", "c2"}
  WorkKeys = {"k1", "k2"}
  Cost = 2
  Funds = 5
  MaxAnalyses = 3
  MaxInterviews = 2
  NoTicket = NoTicket
  Configurations = {1, 2, 3}
  Admins = {"a1", "a2"}
  Operators = {"o1", "o2"}
  RetryKeys = {"k1"}
  JobWorkers = {"w1", "w2"}
  MaxAttempts = 2
  MaxJobs = 3
  MaxSends = 2
  Accounts = {"a1", "a2"}
  Logins <- MCLogins
  Visits = {"v1", "v2"}
  CommandKeys = {"k"}
  MaxEvents = 2
  MaxReads = 1
  Nobody = Nobody
  ConsentCalls = {"n1", "n2"}
  LastPolicy = 2
  MaxDecisions = 2
  Kids = {"k1", "k2"}
  Tokens <- MCTokens
  Checks = {"c1", "c2"}
  Skew = 1
  LastTick = 2
  NoCaller = NoCaller
  HttpRequests <- MCRequests
  Proxies = {"proxy"}
  NoValue = ""
  AiFamilies = {"interviews"}
  DefaultLimit = 2
  AiLimit = 1
  Window = 2
  MaxCount = 3
VIEW Changing
INVARIANTS BillingAccounted   RequestsArePaidOnce
CHECK_DEADLOCK FALSE
