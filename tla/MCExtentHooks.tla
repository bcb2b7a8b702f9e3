--------------------------- MODULE MCExtentHooks ----------------------------
EXTENDS ExtentHooks
=============================================================================
