SPECIFICATION Spec
CONSTANTS
    node = node
    pylon = pylon
    s1 = s1
    s2 = s2
    s3 = s3
    Posters = {node, pylon}
    Script <- OneStopScript
    HandlerPosts <- Nothing
    Editors = {pylon}
    Togglers = {pylon}
    Shards = {s1, s2, s3}
    NoShard = NoShard
    InitOrder <- TwoShards
    MaxStarts = 1
    MaxCalls = 3
INVARIANT CallerOrder
CHECK_DEADLOCK FALSE
