SPECIFICATION Spec
CONSTANTS
    kCheapPrepend = 1
    kInitialSize = 3
    ExtraSize = 2
    MaxBytes = 9
INVARIANTS
    TypeOK
    GrowthBounded
PROPERTIES
    ImplementsByteQueue
