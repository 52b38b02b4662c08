SPECIFICATION TxSpec
CONSTANTS
    t1 = t1
    b1 = b1
    b2 = b2
    c1 = c1
    c2 = c2
    New = New
    DISCARD = DISCARD
    techno = techno
    house = house
    p1 = p1
    p2 = p2
    Track = {t1}
    Category = {c1}
    Block = {b1}
    Client = {p1, p2}
    Ops = {"create_block", "move", "finalize", "create_category", "tag"}
    Isolated = FALSE
    Tech = {New, DISCARD}
    Style = {techno, house}
    BlockStyle <- MCBlockStyle
    CategoryStyle <- MCCategoryStyle
    Window <- MCWindow
    Sorted <- MCSorted
    ByHand = ByHand
    NotIn = NotIn
PROPERTIES
    FinalizePromotesWhole
