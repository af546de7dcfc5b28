------------------------------ MODULE SmtpClientMC ------------------------------
(***************************************************************************)
(* Instance of SmtpClient for TLC: an empty mail, mails of one line and of *)
(* two, one with a line that ends a mail and one with lines that spell     *)
(* commands.                                                               *)
(***************************************************************************)
EXTENDS SmtpClient

MCBodies ==
    {<<>>, <<"text">>, <<".text", "text">>, <<"text", ".", "text">>, <<"RCPT", "DATA", "text">>}
=============================================================================
