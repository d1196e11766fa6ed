CONSTANTS
  main = main
  other = other
  Clients = {main, other}
  Owner = main
  MaxTasks = 3
  MaxWaits = 3
SPECIFICATION FairSpec
CHECK_DEADLOCK FALSE
INVARIANTS CounterSound RunsInOrder NothingLeftBehind
PROPERTIES WaitDrains WaitEndsUncancelled TasksEnd DestroyEnds
