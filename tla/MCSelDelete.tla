---------------------------- MODULE MCSelDelete ----------------------------
EXTENDS SelDelete
=============================================================================
