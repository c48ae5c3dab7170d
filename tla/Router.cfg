SPECIFICATION Spec
CONSTANTS
    Key = {1, 2}
    c1 = c1
    c2 = c2
    c3 = c3
    Conn = {c1, c2}
    Ends <- Joins
    Port <- KeyPorts
    Nonce = {0}
    Scenarios <- Failing
SYMMETRY Parallel
CONSTRAINT Short
INVARIANTS TypeOK OwnInfoNewest ResponseUsable SentKnown SentArrives
