\* Three listings and a PowerByte over one connection, the adapter always
\* answering in time
CONSTANTS
    s1 = s1  s2 = s2  s3 = s3  Zero = Zero
    Pop <- MCPop
    Delays <- MCDelays
    Alarmed = {}
    DS2404 = {s2}
    AnyDevices = TRUE
    MaxListings = 3
    MaxTimeouts = 0
    MaxNoise = 1
    MaxWriteFails = 1
    MaxCommands = 1
SPECIFICATION Spec
INVARIANT PowerDelayHonoured
PROPERTY ImplementsBusSearch
\* the caller stops after MaxListings listings
CHECK_DEADLOCK FALSE
