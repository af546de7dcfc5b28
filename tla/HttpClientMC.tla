------------------------------ MODULE HttpClientMC ------------------------------
(* Two documents, one after the other or at once.  The first ends within a  *)
(* tag or, from the condition an earlier document left, is the name of an   *)
(* image or of a link; the second has a path, a source and another server's *)
(* name, each of which is text, link or image by the condition it meets.    *)
(* In the other instance the second has a link.                             *)
EXTENDS HttpClient, TLC

CONSTANTS x, y

MCPage == (x :> <<"img">>) @@ (y :> <<"root", "src", "http">>)

LinkPage == (x :> <<"img">>) @@ (y :> <<"a", "href", "root">>)
=============================================================================
