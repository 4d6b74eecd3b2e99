CONSTANTS
    Transports = {"Datagram"}
    MaxTransmissions = 1
    MaxNonceRetries = 1
    MaxChannelFailures = 2
    MaxTimers = 2
    MaxErrors = 0
SPECIFICATION Spec
INVARIANT ExhaustedReturned
CHECK_DEADLOCK FALSE
