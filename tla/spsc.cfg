\* Two values tell items apart; with MaxSent > Capacity + 1 both indices wrap.
CONSTANTS
    Item = {a, b}
    NoItem = NoItem
    Capacity = 2
    MaxSent = 5
    MaxThrows = 1
SPECIFICATION FairSpec
INVARIANTS
    Inv
    NoDataRace
    HintsHold
PROPERTIES
    FifoSpec
    AllArrive
