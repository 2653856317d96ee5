---------------------------- MODULE MCPageTable -----------------------------
EXTENDS PageTable

MCPages  == {64, 67, 68, 71, 75}
MCFrames == 10 .. 14
=============================================================================
