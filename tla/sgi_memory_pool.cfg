SPECIFICATION Spec
CONSTANTS
    Clients = {c1, c2}
    Sizes = {1, 4, 5, 7}
    kAlign = 2
    kMaxBytes = 6
    kObjs = 2
    HeapDivisor = 8
    HeapLimit = 52
    NoBlock = NoBlock
SYMMETRY Symmetry
INVARIANTS
    Disjoint
    Conservation
