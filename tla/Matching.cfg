SPECIFICATION Spec
CONSTANTS
  p1 = p1
  s1 = s1
  Null = Null
  Nowhere = Nowhere
  Items <- MCItems
  Filters <- MCFilters
  Home <- MCHome
  Webs <- MCWebs
  AllowedDomains <- MCAllowed
  BlockedDomains <- MCBlocked
  Title = {"dev", "senior"}
  Company = {"acme"}
  Checkers = {"c1", "c2"}
  Reporters = {"r1"}
  Moderators = {"m1"}
  Lifetime = 1
  LastInstant = 2
  MaxChecks = 3
  Salaries <- MCSalaries
  Pages = {"p", "q"}
  MaxAnswers = 2
  MaxLinks = 1
  MaxEvidence = 2
  MaxTries = 2
  Missing = Missing
  Signals <- MCSignals
  Profiles <- MCProfiles
  Freshness <- MCFreshness
  Pool = {1, 2}
  TopK = 2
  PageSize = 1
  One = 1000
  Versions = {"v1", "v2"}
  Workers = {"w1", "w2"}
  MaxChanges = 1
  MaxProfiles = 2
  MaxMessages = 2
  Devices = {"d1", "d2"}
  MaxVersion = 4
  Callers = {"c1", "c2"}
  BulkheadLimit = 1
  RetryAttempts = 2
  FailureThreshold = 2
  Budget = 1
  MaxFaults = 1
  Sessions = {"s1", "s2", "s3"}
  SessionLimit = 2
  LeaseTime = 3
  MaxAudio = 3
  MaxContent = 2
  MaxDrops = 2
VIEW Changing
INVARIANTS  RankingIsFair 
  ApplicationsAreOneStory LimitsAreKept SpeechIsKept
CHECK_DEADLOCK FALSE
