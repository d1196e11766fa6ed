CONSTANTS
  main = main
  other = other
  worker = worker
  low = low
  static = static
  Workers = {worker}
  Clients = {main, other}
  Main = main
  Queues = {static, low}
  Static = static
  Lowest = 1
  PriorityOf <- MCPriorityOf
  MayWait <- MCMayWait
  MaxTasks = 2
  MaxCalls = 3
SPECIFICATION FairSpec
CHECK_DEADLOCK FALSE
INVARIANTS TasksAccounted NoUseAfterDestroy
PROPERTIES WaitDrains CancelDrops WaitsEnd WakeupsHeal
