--------------------------- MODULE MCControlCall ----------------------------
EXTENDS ControlCall
=============================================================================
