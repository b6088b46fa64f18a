SPECIFICATION FairSpec
CONSTANTS
  NumQueues = 2
  StartSuspended <- MCFirst
  Clients = {c1, c2}
  Stoppers = {c1}
  MaxAdds = 3
  MaxToggles = 1
CHECK_DEADLOCK FALSE
INVARIANTS FairRounds ListsReady StopIsBounded
PROPERTIES BankSpec RoundsServe
