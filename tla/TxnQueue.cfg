SPECIFICATION Spec
CONSTANTS
  Clients = {c1, c2}
  NonBlocking = {c2}
  MaxCommits = 2
  Notifs = {}
  Retries = {}
  QueueCap = 2
  MaxCount = 2
INVARIANTS CommitTruthful CommitOrder BarrierFinalizes ClosedNotExecuting
PROPERTY InOrderExecutor
