---------------------------- MODULE MCPublication ----------------------------
EXTENDS Publication
=============================================================================
