\* Pinned-bus listings and an alarm scan of the same bus, concurrently
CONSTANTS
    NBus = 2
    s1 = s1  s2 = s2  s3 = s3
    r1 = r1  r2 = r2  r3 = r3
    SN = {s1, s2, s3}
    Req = {r1, r2, r3}
    Pop <- MCPinnedPop
    DevFlags <- MCDevFlags
    Alarmed <- MCAlarmed
    ReqKind <- MCPinnedKind
    ReqBus <- MCPinnedBus
    FailBuses = {0}
    AllocMayFail = TRUE
    ThreadCreateMayFail = FALSE
    None = None
    Miss = Miss
SPECIFICATION Spec
INVARIANT TypeOK
INVARIANT CacheHoldsWholeBus
INVARIANT BusListingFaithful
INVARIANT SyntheticEntriesMatchDevices
PROPERTY RequestsComplete
\* every call returns; once all have, the system stops
CHECK_DEADLOCK FALSE
