\* Two callers, a cache of three entries, four keys, two failing puts;
\* with as many nodes as entries, a new node reuses the memory of a dropped one.
CONSTANTS
    Key = {k1, k2, k3, k4}
    Value = {v1, v2}
    Node = {n1, n2, n3}
    None = None
    Caller = {c1, c2}
    Capacity = 3
    MaxThrows = 2
SPECIFICATION MCSpec
SYMMETRY Symmetry
INVARIANTS
    Inv
    PointerGood
PROPERTY PolicySpec
