CONSTANTS
    Thread = {t1}
    Strong = {s1, s2, s3}
    Weak = {w1, w2}
    Block = {b1, b2}
    None = None
SPECIFICATION Spec
SYMMETRY Symmetry
INVARIANT
    Inv
