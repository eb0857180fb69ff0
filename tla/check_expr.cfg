SPECIFICATION GroupSpec
CONSTANTS
    Anchor = hd
    x = x
    xy = xy
    z = z
    Missing = missing
    Other = {hoa_don, bien_ban}
    Ops = {"eq", "le", "after", "sum_le", "within", "chain", "delivered"}
    Text <- MCText
    Inside <- MCInside
    Number <- MCNumber
    MaxDocs = 2
INVARIANTS PassMeansComplete RowsAddUp
PROPERTIES VerdictStands
CHECK_DEADLOCK FALSE
