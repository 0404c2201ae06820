\* Three concurrent type listings over two type directories
CONSTANTS
    c1 = c1  c2 = c2  c3 = c3
    Callers = {c1, c2, c3}
    structure = structure  system = system
    Types <- MCTypes
    TreeKeys <- MCTreeKeys
    None = None
SPECIFICATION Spec
INVARIANT TypeListingFaithful
PROPERTY TypeDirsComplete
\* Every call returns; once all have, nothing is left to do
CHECK_DEADLOCK FALSE
