--------------------------- MODULE MCQaOperations ---------------------------
EXTENDS QaOperations

CONSTANTS d1, d2, m1, m2, c1, c2, none
=============================================================================
