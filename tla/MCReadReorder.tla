--------------------------- MODULE MCReadReorder ----------------------------
EXTENDS ReadReorder
=============================================================================
