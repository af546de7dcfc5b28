----------------------------- MODULE ServeClientMC -----------------------------
(***************************************************************************)
(* Instance of ServeClient for TLC.  With ReadSize 6 the requests below    *)
(* are shorter than, as long as and longer than one read and cross the     *)
(* boundary at every symbol; a file has up to three blocks, one of them    *)
(* unreadable, and Window lets the client stall the send loop.             *)
(***************************************************************************)
EXTENDS ServeClient, TLC

CRLF == <<"cr", "lf">>
Headers == <<"sp", "v", "cr", "lf", "h", "cr", "lf">>

Request(cmd, path, tail) == [cmd |-> cmd, path |-> path, tail |-> tail]

MCSymbols == {"GET", "HEAD", "POST", "PUT", "/", "x", "d", "b", "v", "h", "lf"}

MCRequests ==
    { Request(<<"GET">>, <<"/">>, CRLF),
      Request(<<"GET">>, <<"/", "x">>, CRLF),
      Request(<<"GET">>, <<"/", "d", "/">>, CRLF),
      Request(<<"GET">>, <<"/", "d">>, CRLF),
      Request(<<"GET">>, <<"/", "b">>, CRLF),
      Request(<<"GET">>, <<"/", "x">>, Headers),
      Request(<<"GET">>, <<"/", "x">>, <<"lf">>),
      Request(<<"GET">>, <<"/", "x">>, <<>>),
      Request(<<"GET">>, <<"/">>, <<>>),
      Request(<<"GET">>, <<>>, CRLF),
      Request(<<"HEAD">>, <<"/", "x">>, CRLF),
      Request(<<"POST">>, <<"/", "x">>, Headers),
      Request(<<"PUT">>, <<"/", "x">>, CRLF) }

File(n, m) == [size |-> n, good |-> m]

(* A page, a file, the index of a directory, a directory (it can be opened, *)
(* not read) and a file whose last block cannot be read.                    *)
MCFiles ==
    (<<"/", "index">> :> File(1, 1)) @@ (<<"/", "x">> :> File(3, 3))
        @@ (<<"/", "d", "/", "index">> :> File(2, 2))
        @@ (<<"/", "d">> :> File(1, 0)) @@ (<<"/", "b">> :> File(2, 1))
=============================================================================
