\* One union root listing: does the merged flags word cover every bus?
CONSTANTS
    NBus = 2
    s1 = s1  s2 = s2  s3 = s3
    r1 = r1  r2 = r2  r3 = r3
    SN = {s1, s2, s3}
    Req = {r1}
    Pop <- MCPop
    DevFlags <- MCDevFlags
    Alarmed <- MCAlarmed
    ReqKind <- MCUnionKind
    ReqBus <- MCUnionBus
    FailBuses = {}
    AllocMayFail = FALSE
    ThreadCreateMayFail = FALSE
    None = None
    Miss = Miss
SPECIFICATION Spec
INVARIANT SyntheticEntriesMatchDevices
\* every call returns; once all have, the system stops
CHECK_DEADLOCK FALSE
