SPECIFICATION Spec
CONSTANTS
    node = node
    pylon = pylon
    s1 = s1
    s2 = s2
    s3 = s3
    Posters = {node, pylon}
    Script <- LifeScript
    HandlerPosts <- LifeHandler
    Editors = {}
    Togglers = {}
    Shards = {s1, s2}
    NoShard = NoShard
    InitOrder <- TwoShards
    MaxStarts = 1
    MaxCalls = 2
INVARIANTS
    TypeOK
    ShardsAgree
    LifeIsWhole
    StoppedIsQuiet
    RunningIsServed
CHECK_DEADLOCK FALSE
