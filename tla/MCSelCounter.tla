---------------------------- MODULE MCSelCounter ----------------------------
EXTENDS SelCounter
=============================================================================
