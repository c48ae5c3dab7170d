SPECIFICATION RestartSpec
CONSTANTS
    Key = {1, 2, 3}
    c1 = c1
    c2 = c2
    c3 = c3
    Conn = {c1, c3}
    Ends <- Joins
    Port <- KeyPorts
    Nonce = {0}
    Scenarios <- Changing
INVARIANT SentArrives
PROPERTIES Convergence MaintenanceSettles
