----------------------------- MODULE MCMultiFile -----------------------------
EXTENDS MultiFile, TLC
CONSTANTS f1, f2
MCFiles == {f1, f2}
=============================================================================
