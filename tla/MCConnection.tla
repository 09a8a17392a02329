---------------------------- MODULE MCConnection ----------------------------
EXTENDS ConnectionCalls
=============================================================================
