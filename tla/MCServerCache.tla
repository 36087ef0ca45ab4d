------------------------------ MODULE MCServerCache ------------------------------
EXTENDS ServerCache

CONSTANTS request1, request2, load1, load2
=============================================================================
