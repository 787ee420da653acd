CONSTANTS
    Request = {64, 72}
    alloc_size = 1048576
    MaxRegions = 1
SPECIFICATION Spec
INVARIANT
    AllocatesGivenBytes
