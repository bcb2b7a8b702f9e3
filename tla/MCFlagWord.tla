----------------------------- MODULE MCFlagWord -----------------------------
EXTENDS FlagWord

AllArenas == 0..4095
=============================================================================
