SPECIFICATION Spec
CONSTANTS
    t1 = t1
    t2 = t2
    t3 = t3
    Topics = {t1, t2, t3}
    HashSize = 8
    IntSize = 64
    MaxBuckets = 3
    MaxTopics = 2
INVARIANTS
    TypeOK
    NeverTwice
    NoTopicLost
SYMMETRY TopicSymmetry
CHECK_DEADLOCK FALSE
