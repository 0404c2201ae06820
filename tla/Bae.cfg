\* Every file operation, transactions failing before the device acts; six
\* failures let a flash page exhaust its five attempts
CONSTANTS
    PageSize = 2
    MemSize = 44
    Offsets = {0, 2, 4}
    Lengths = {1, 3, 4}
    Us <- MCUs
    NPages = 3
    FlashSize = 3
    Sizes = {2, 3}
    MaxFails = 6
    EchoMayBeLost = FALSE
    RTC = 40
    Dates <- MCDates
    Words <- MCWords
SPECIFICATION Spec
INVARIANT TypeOK
INVARIANT MemWriteFaithful
INVARIANT FlashResultFaithful
INVARIANT DateRoundTrip
INVARIANT WriteByteFaithful
\* Each behaviour is one file operation; nothing follows its return
CHECK_DEADLOCK FALSE
