SPECIFICATION FairSpec
CONSTANTS
  s1 = s1
  s2 = s2
  agentA = agentA
  inbox1 = inbox1
  inbox2 = inbox2
  Senders = {s1, s2}
  Names = {agentA}
  Receivers = {inbox1, inbox2}
  NameOf <- MCNameOf
  NoReceiver = NoReceiver
  NoWave = NoWave
  UseThread = TRUE
  Quota <- MCQuota
  MaxStarts = 2
  MaxLives = 1
CHECK_DEADLOCK FALSE
INVARIANTS TypeOK OnePlace SenderOrder RunningIsReached
PROPERTIES StoppedIsOver StopReturns QueuedIsTaken
