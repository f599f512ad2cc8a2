------------------------------ MODULE MCShaper ------------------------------
EXTENDS Shaper
=============================================================================
