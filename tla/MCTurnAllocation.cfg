CONSTANTS
    Transports = {"Datagram", "Stream"}
    MaxTransmissions = 2
    MaxNonceRetries = 1
    MaxChannelFailures = 2
    MaxTimers = 1
    MaxErrors = 1
SPECIFICATION FairSpec
INVARIANTS ChannelBacked AllocationReturned
PROPERTIES DriverEnds DeathReported
CHECK_DEADLOCK FALSE
