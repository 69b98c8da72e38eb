\* Three ids, of which the cache remembers two, two mutations and a read
SPECIFICATION Spec
CONSTANTS
    Keys = {k1, k2, k3}
    Fingerprints = {start, stop, read}
    Mutations = {start, stop}
    None = None
    Connections = {c1, c2}
    Responses <- SomeResponses
    CacheBytes = 4
    CacheSize = 2
INVARIANTS
    LedgerTypeOK
    AtMostOnce
    OneAnswer
    CacheWithinBounds
PROPERTIES
    LogSpec
SYMMETRY Symmetry
