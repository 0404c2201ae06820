\* A three-page flash, one transaction failing after the device acted
CONSTANTS
    PageSize = 2
    MemSize = 44
    Offsets = {0}
    Lengths = {1}
    Us <- MCUs
    NPages = 3
    FlashSize = 3
    Sizes = {3}
    MaxFails = 1
    EchoMayBeLost = TRUE
    RTC = 40
    Dates = {1}
    Words <- MCWords
SPECIFICATION Spec
INVARIANT FlashResultFaithful
\* Each behaviour is one file operation; nothing follows its return
CHECK_DEADLOCK FALSE
