CONSTANTS
    HeapSize = 24
    HeaderSize = 2
    MinSize = 2
    Align = 2
    Requests = {1, 3, 5, 8}
SPECIFICATION Spec
INVARIANTS
    HeapSound
PROPERTIES
    FailsOnlyWhenFull
