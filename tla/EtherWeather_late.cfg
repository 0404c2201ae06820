\* Two listings over one connection, the adapter once slower than the
\* 200 ms tcp_read timeout
CONSTANTS
    s1 = s1  s2 = s2  s3 = s3  Zero = Zero
    Pop <- MCPop
    Delays <- MCDelays
    Alarmed = {}
    DS2404 = {s2}
    AnyDevices = TRUE
    MaxListings = 2
    MaxTimeouts = 1
    MaxNoise = 0
    MaxWriteFails = 0
    MaxCommands = 1
SPECIFICATION Spec
INVARIANT CompleteListingIsPopulation
\* the caller stops after MaxListings listings
CHECK_DEADLOCK FALSE
