SPECIFICATION Spec
CONSTANTS
    Items = {i1, i2, i3, i4}
    MaxCount = 1
SYMMETRY Symmetry
INVARIANTS
    TypeOK
    OneOwner
    LargeEnough
    OwnPoolsBounded
PROPERTY ReusedUpTo64K
