------------------------------ MODULE MCServer ------------------------------
EXTENDS Server
CONSTANTS c1, c2, p1, p2
=============================================================================
