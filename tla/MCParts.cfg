CONSTANTS
    Base = 16
    SeqSpace = 32768
    RejectBase = 1000
    MaxSid = 8
    Packets <- MCPackets
    StrayBytes = {0, 15}
    MaxStray = 3
    MaxTime = 4
    TsMod = 16
    ClockOffset = 13
    Second = 2
    BwInfinite = 8
    DataHdrSize = 1
    LiveDefPayload = 2
    MaxPayload = 3
    PayloadIir = 2
    FastStart = 1
    Running = 2
    InputMaxPackets = 1
    ProbeEvery = 3
    Bandwidths <- MCBandwidths
    Payloads = {0, 2}
    MaxWaiting = 2
    MaxWindow = 2
    MaxSeq = 4
    DriftMaxSamples = 3
    DriftMaxValue = 1
    InitialRtt = 10
    InitialRttVar = 5
    AnchorDelay = 1
    Rtts = {0, 2, 3, 6}
    MaxSkew = 3
SPECIFICATION MCSpec
INVARIANTS RoundTrip WrongLengthNeverMisread CeilingNeverZero PacedRate GateHasWakeUp CorrectionTracksSkew
CHECK_DEADLOCK FALSE
