SPECIFICATION FairSpec
CONSTANTS
    t1 = t1
    t2 = t2
    c1 = c1
    c2 = c2
    Tables <- MCTables
    Topics = {t1, t2}
    ClientIds = {c1, c2}
    Self = Self
    None = None
    Text = Text
    Error = Error
    Attributes <- MCAttributes
    Detected <- MCDetected
    Sessions <- MCSessions
INVARIANTS
    TypeOK
    FailuresAreLocal
PROPERTY
    SessionEnds
