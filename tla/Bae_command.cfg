\* Extended commands of one to three bytes, no failed transaction
CONSTANTS
    PageSize = 2
    MemSize = 44
    Offsets = {0}
    Lengths = {1, 2, 3}
    Us <- MCUs
    NPages = 3
    FlashSize = 3
    Sizes = {3}
    MaxFails = 0
    EchoMayBeLost = FALSE
    RTC = 40
    Dates = {1}
    Words <- MCWords
SPECIFICATION Spec
INVARIANT ExtendedPayloadFaithful
\* Each behaviour is one file operation; nothing follows its return
CHECK_DEADLOCK FALSE
