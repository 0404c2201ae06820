\* Three listings and a PowerByte over one connection, the adapter once
\* slower than the tcp_read timeout
CONSTANTS
    s1 = s1  s2 = s2  s3 = s3  Zero = Zero
    Pop <- MCPop
    Delays <- MCDelays
    Alarmed = {}
    DS2404 = {s2}
    AnyDevices = TRUE
    MaxListings = 3
    MaxTimeouts = 1
    MaxNoise = 1
    MaxWriteFails = 1
    MaxCommands = 1
SPECIFICATION Spec
INVARIANT TypeOK
PROPERTY ListingsEnd
\* the caller stops after MaxListings listings
CHECK_DEADLOCK FALSE
