SPECIFICATION FairSpec
CONSTANTS
    node = node
    pylon = pylon
    s1 = s1
    s2 = s2
    s3 = s3
    Posters = {node, pylon}
    Script <- OneStopScript
    HandlerPosts <- WaveHandler
    Editors = {}
    Togglers = {}
    Shards = {s1}
    NoShard = NoShard
    InitOrder <- OneShard
    MaxStarts = 1
    MaxCalls = 2
PROPERTIES
    AcceptedIsSeen
    CallsComplete
CHECK_DEADLOCK FALSE
