SPECIFICATION FairSpec
CONSTANTS
  Pushers = {"VppNotification", "LinuxNotification"}
  Clients = {"all", "vpp"}
  Filters <- MCFilters
  Leaving = {"vpp"}
  Froms = {0, 2}
  BufferSize = 1
  IndexMod = 8
  MaxPushes = 2
INVARIANTS NotTwice ReplayExact
PROPERTY PushCompletes
CHECK_DEADLOCK FALSE
