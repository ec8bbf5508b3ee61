CONSTANTS
    None = None
    Calls = {c1, c2, c3, c4}
    Conns = 2
SPECIFICATION FairSpec
INVARIANTS
    TransactionsSerial
PROPERTIES
    CallsEnd
CHECK_DEADLOCK FALSE
