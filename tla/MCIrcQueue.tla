----------------------------- MODULE MCIrcQueue -----------------------------
EXTENDS IrcQueue
=============================================================================
