SPECIFICATION MCSpec
CONSTANTS
    p1 = p1
    p2 = p2
    k1 = k1
    k2 = k2
    k3 = k3
    NoTrade = NoTrade
    Clients = {p1, p2}
    Keys <- MCKeys
    Nav <- MCNav
    Qty <- MCQty
    HasQty <- MCHasQty
    Faults <- HandlerFaults
PROPERTIES
    TradeCompletes
    LoggedIsPosted
    BlocksAreFresh
