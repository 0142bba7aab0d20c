\* Safety: two calls of get() against a server that may answer anything.
SPECIFICATION ClientSpec
CONSTANTS
    NoHeader = NoHeader
    ShortDelay = 2
    LongDelay = 3
    Delays <- MCDelays
    MaxRetries = 2
    MaxWait = 2
    MinInterval = 1
    Timeout = 1
    Jitter = 1
    MaxGets = 2
PROPERTIES
    ServerIsObeyed
    SpacedOrAfterReset
CHECK_DEADLOCK FALSE
