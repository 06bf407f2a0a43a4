\* Two handles and three objects, each with a member: enough for a list of
\* three and for deletions three deep.
CONSTANTS
    Root = {r1, r2}
    Obj = {o1, o2, o3}
    Deleter = {default, custom}
    Default = default
    MovedFrom = moved
    None = None
SPECIFICATION Spec
SYMMETRY Symmetry
INVARIANTS
    OwnedOnce
    DeleterKept
