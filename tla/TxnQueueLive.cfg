SPECIFICATION FairSpec
CONSTANTS
  Clients = {c1}
  NonBlocking = {}
  MaxCommits = 1
  Notifs = {x1}
  Retries = {r1, r2}
  QueueCap = 1
  MaxCount = 1
PROPERTIES CommitReturns RetryRuns CloseTerminates
INVARIANT RetryKept
