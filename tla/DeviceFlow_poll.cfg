\* refreshDeviceCredAuth with a 7-second device code: long enough for a
\* slow_down followed by further polls before expiry.
CONSTANTS
    ExpiresIn = 7
    Intervals <- MCIntervals
    Lifetimes <- MCLifetimes
    MaxSlowDowns = 1
SPECIFICATION Spec
INVARIANT TypeOK
PROPERTIES PollsRespectInterval DeviceGrantSpec
\* refreshDeviceCredAuth returns or throws; the finished call has no step.
CHECK_DEADLOCK FALSE
