SPECIFICATION MulticastSpec
CONSTANTS
    Key = {1, 2, 3}
    None = None
    Conn = {1, 2, 3}
    Ends <- Triangle
    Scenarios <- Networks
CONSTRAINT StartOfCircle
INVARIANT NoCircle
CHECK_DEADLOCK FALSE
