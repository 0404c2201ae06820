\* Every well-formed filetype array of up to three entries, every directory of it
CONSTANTS
    g1 = g1  g2 = g2
    Groups = {g1, g2}
    MaxAg = 2
    MaxFt = 3
    None = None
SPECIFICATION Spec
INVARIANT TypeOK
INVARIANT ListingMatchesSpec
\* one listing per state: the call returns and nothing follows
CHECK_DEADLOCK FALSE
