------------------------------ MODULE MCIrcClient ------------------------------
(***************************************************************************)
(* IrcClient with one message, or two, of each kind that is told apart.    *)
(***************************************************************************)
EXTENDS IrcClient

MCDigits == {"3"}
MCChars == {BLANK, COLON, BANG, AT, CR, LF, CTCP, "PING", "ERROR", "WALLOPS",
            "s", "n", "u", "h", "m", "v", "x", "#", "+"} \cup UserCommands \cup MCDigits

Message(from, cmd, words, rest) ==
  [from |-> from, cmd |-> cmd, words |-> words, rest |-> rest,
   ident |-> CASE from = "user"   -> [nick |-> <<"n">>, user |-> <<"u">>, host |-> <<"h">>]
               [] from = "server" -> [nick |-> <<"s">>, user |-> <<>>, host |-> <<>>]
               [] OTHER           -> [nick |-> <<>>, user |-> <<>>, host |-> <<>>]]
Chan == <<"#">>

MCMessages ==
  { Message("nobody", <<"PING">>, <<>>, <<COLON, "s">>),
    Message("nobody", <<"ERROR">>, <<>>, <<COLON, "x">>),
    Message("server", <<"3", "3">>, <<Chan>>, <<COLON, "x">>),
    Message("server", <<"WALLOPS">>, <<>>, <<COLON, "x">>),
    Message("user", <<"PRIVMSG">>, <<Chan>>, <<COLON, COLON, BLANK, "x">>),
    Message("user", <<"PRIVMSG">>, <<Chan>>, <<COLON, CTCP, "v", BLANK, "x", CTCP>>),
    Message("user", <<"JOIN">>, <<>>, <<COLON, "#">>),
    Message("user", <<"PART">>, <<Chan>>, <<>>),
    Message("user", <<"NICK">>, <<>>, <<COLON, "m">>),
    Message("user", <<"QUIT">>, <<>>, <<COLON, "x", BLANK, "v">>),
    Message("user", <<"KICK">>, <<Chan, <<"v">>>>, <<COLON, "x">>),
    Message("user", <<"MODE">>, <<Chan, <<"+", "v">>>>, <<"v">>),
    Message("dcc", <<>>, <<>>, <<"x", BLANK>>),
    Message("dcc", <<>>, <<>>, <<>>) }
================================================================================
