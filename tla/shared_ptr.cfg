CONSTANTS
    Thread = {t1, t2}
    Strong = {s1, s2}
    Weak = {w1}
    Block = {b1}
    None = None
SPECIFICATION Spec
SYMMETRY Symmetry
INVARIANTS
    NoUseAfterFree
    NoLeak
    DeletedLast
    LockHonest
    Inv
