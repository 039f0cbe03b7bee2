-------------------------------- MODULE Null --------------------------------
\* The null pointer, the empty channel slot and the like of all the modules
\* that are checked together.
CONSTANT NULL
=============================================================================
