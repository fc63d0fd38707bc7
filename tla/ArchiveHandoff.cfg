CONSTANTS
    MaxAttempts = 3
    References = {ref1, ref2}
    Contents = {bytes1, bytes2}
    Origins = {job1, job2}
SPECIFICATION HandoffFairSpec
INVARIANTS
    VerifiedIsStored
    FailedIsAbsent
    OneDocument
PROPERTIES
    DeliverySettles
CHECK_DEADLOCK FALSE
