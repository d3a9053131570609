SPECIFICATION Spec
CONSTANTS
    p1 = p1
    t1 = t1
    g1 = g1
    g2 = g2
    g3 = g3
    g4 = g4
    Partitions = {p1}
    Lookups = {g1, g2, g3, g4}
    PartitionOf <- MCPartitionOf
    InactiveLookups = {g3, g4}
    CollectConsumerOffsetExtendedMetrics = TRUE
    Topics = {t1}
    MaxOffset = 1
    Nobody = Nobody
    NoTopic = NoTopic
INVARIANTS
    ValueIsAnOffset
