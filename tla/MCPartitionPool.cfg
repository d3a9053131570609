SPECIFICATION FairSpec
CONSTANTS
    w1 = w1
    w2 = w2
    w3 = w3
    Workers <- MCWorkers
    Counts <- MCCounts
    InCap = 1
    OutCap = 1
    AllCap = 1
    NonPreferred = {1, 3}
    UnderReplicated = {0, 1}
    ReplicasOf <- MCReplicasOf
INVARIANTS
    TypeOK
    NoSendAfterClose
    EachPartitionOnce
    ResultIsComplete
PROPERTY
    PipelineDrains
CHECK_DEADLOCK FALSE
