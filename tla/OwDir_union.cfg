\* Union and uncached root listings, concurrently; both buses may fail
CONSTANTS
    NBus = 2
    s1 = s1  s2 = s2  s3 = s3
    r1 = r1  r2 = r2  r3 = r3
    SN = {s1, s2, s3}
    Req = {r1, r2}
    Pop <- MCPop
    DevFlags <- MCDevFlags
    Alarmed <- MCAlarmed
    ReqKind <- MCUnionKind
    ReqBus <- MCUnionBus
    FailBuses = {0, 1}
    AllocMayFail = FALSE
    ThreadCreateMayFail = FALSE
    None = None
    Miss = Miss
SPECIFICATION Spec
INVARIANT TypeOK
INVARIANT CacheHoldsWholeBus
INVARIANT BusListingFaithful
INVARIANT UnionCoversEveryBus
\* every call returns; once all have, the system stops
CHECK_DEADLOCK FALSE
