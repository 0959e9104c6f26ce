----------------------------- MODULE MCThreshold -----------------------------
EXTENDS ThresholdMonitor
=============================================================================
