\* Three events, of which one may be too big, and two connections one after the other
SPECIFICATION FairSpec
CONSTANTS
    EventSizes = {1, 4}
    OutboundLimit = 2
    InboundLimit = 1
    QueueLimit = 2
    QueueBytes = 2
    Watermark = 1
    MaxPending = 1
    MaxRequests = 1
    MaxBeats = 1
    PipeSize = 1
    MaxEvents = 3
    MaxConnections = 2
INVARIANTS
    StreamTypeOK
    StreamIsContiguous
PROPERTIES
    
    EventsArrive
    
CHECK_DEADLOCK FALSE
