CONSTANTS
    a = a
    b = b
    c = c
    ann = ann
    bob = bob
    p = p
    q = q
    Conn     <- MCConn
    Name     <- MCName
    Password <- MCPassword
    MaxClock <- MCMaxClock
    Faults = TRUE
SPECIFICATION Spec
INVARIANTS IdsUnique SessionsAuthenticated KeysGrantedOnce
 
CHECK_DEADLOCK FALSE
