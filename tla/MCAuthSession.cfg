\* Unit: 15 seconds.  Ttl and Margin are scaled down, and keep the order of
\* the code's constants: retry = timeout < probe interval < margin < life.
CONSTANTS
  Ttl = 10
  Margin = 5
  ProbeEvery = 2
  RetryEvery = 1
  LoginTimeout = 2
  ProbeTimeout = 1
SPECIFICATION FairSpec
INVARIANTS TypeOK ServedTokenUnexpired
PROPERTIES RefreshLoginsPaced Recovers
