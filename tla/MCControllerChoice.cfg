SPECIFICATION Spec
CONSTANTS
    b1 = b1
    b2 = b2
    b3 = b3
    Brokers = {b1, b2, b3}
    EndpointsOf <- MCEndpointsOf
    Listeners = {"inside", "outside"}
    NoPreference = NoPreference
    NoBroker = NoBroker
    Arguments <- MCArguments
    MaxElections = 1
INVARIANTS
    TypeOK
    AllOrNothing
    LocalOnlyAlone
    FirstThatWorks
    SessionClosed
    CountBounded
    SteadyIsCounted
    StableClusterSample
