------------------------------ MODULE MCIrcChannel ------------------------------
(* IrcChannel for TLC; the constants are given in the configurations. *)
EXTENDS IrcChannel
=============================================================================
