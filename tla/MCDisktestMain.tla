--------------------------- MODULE MCDisktestMain ---------------------------
EXTENDS DisktestMain

AllRounds == 0 .. U64Max

=============================================================================
