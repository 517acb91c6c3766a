\* Every array of up to six elements out of three values, every pivot.
SPECIFICATION Spec
CONSTANTS
    Values <- MCValues
    Sizes <- MCSizes
    IntMax = 15
    SizeMax = 63
INVARIANTS
    IInv
    Sorts
PROPERTIES
    Terminates
