SPECIFICATION HostSpec
CONSTANTS
    N = 256
    Key <- VectorKey
    Dropped = 256
    MessageLengths = {16, 4, 5}
    MaxSent = 280
PROPERTIES
    BulkRoundTrip
CHECK_DEADLOCK FALSE
