--------------------------- MODULE MCWaitingRoom ---------------------------
EXTENDS WaitingRoom

CONSTANTS u1, u2

\* The order of the ids as strings.
ByName == {<<u1, u2>>}
=============================================================================
