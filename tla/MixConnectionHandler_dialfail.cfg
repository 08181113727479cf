CONSTANTS
    Interval <- MC_Interval
    MaxPayload <- MC_MaxPayload
    MaxPeerFrames <- MC_MaxPeerFrames
    WireCap <- MC_WireCap
    MaxFaults <- MC_MaxFaults
    DialErrors <- MC_DialErrors
SPECIFICATION Spec
INVARIANTS
    PendingOpenHasRequest
