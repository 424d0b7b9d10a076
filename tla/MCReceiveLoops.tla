--------------------------- MODULE MCReceiveLoops ---------------------------
EXTENDS ReceiveLoops

CONSTANTS c1, c2

MCConn == {c1, c2}

\* The main server has enough for both, the log-in server has not.
MCMaxFd == [p \in Process |-> IF p = "main" THEN 2 ELSE 1]
=============================================================================
