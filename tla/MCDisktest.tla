----------------------------- MODULE MCDisktest -----------------------------
EXTENDS Disktest

AllKinds == {"regular", "blk", "chr"}

=============================================================================
