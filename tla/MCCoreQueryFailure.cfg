SPECIFICATION Spec
CONSTANTS
    b1 = b1
    b2 = b2
    t1 = t1
    c1 = c1
    wb1 = wb1
    wb2 = wb2
    wt1 = wt1
    wc1 = wc1
    wp1 = wp1
    Pools = {"broker", "topic", "consumer", "producer"}
    Workers = {wb1, wb2, wt1, wc1, wp1}
    PoolOf <- MCPoolOf
    Items = {b1, b2, t1, c1}
    Brokers = {b1, b2}
    TopicNames = {t1}
    Consumers = {c1}
    Producers = {}
    Main = Main
    Callers = {wb1, wb2, wt1, wc1, wp1, Main}
    MaxJMXConnections = 1
    Configs <- MCConfigs
INVARIANTS
    QueryFailureNotTotal
