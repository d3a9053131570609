SPECIFICATION FairSpec
CONSTANTS
    m1 = m1
    m2 = m2
    m3 = m3
    t1 = t1
    t2 = t2
    internal = internal
    c1 = c1
    c2 = c2
    Members = {m1, m2, m3}
    Topics = {t1, t2, internal}
    InternalTopics = {internal}
    Partitions = {0, 1}
    Clients = {c1, c2}
    ClientOf <- MCClientOf
    Assignments <- MCAssignments
    LagOf <- MCLagOf
    InactiveConsumerGroupOffset = TRUE
    ConsumerGroupOffsetByTopic = TRUE
    Buffer = 1
    NoMember = NoMember
INVARIANTS
    TypeOK
    NoSendAfterClose
    PublishedRollupsComplete
    NoPartitionCountedTwice
    NoPartitionLost
PROPERTIES
    CollectionEnds
    ImplementsRollup
