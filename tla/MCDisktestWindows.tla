------------------------- MODULE MCDisktestWindows -------------------------
EXTENDS DisktestWindows

BothKinds == {"regular", "blk"}

=============================================================================
