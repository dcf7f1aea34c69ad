--------------------------- MODULE MCHttpReceive ---------------------------
(***************************************************************************)
(* Streams for the model checker: each kind of request, with line ends of  *)
(* one and of two characters, two requests in a row, a body, a line that   *)
(* is no request and a header that is too long.                            *)
(***************************************************************************)
EXTENDS HttpReceive

CRLF == <<CR, LF>>
Sep == <<"u", "v">>

MCStreams ==
    { <<"g">> \o CRLF \o <<"h">> \o CRLF \o CRLF,
      <<"p">> \o CRLF \o <<"c">> \o CRLF \o CRLF \o <<"b", "b">>,
      <<"p", LF, "c", LF, LF, "b", LF, "g", LF, LF>>,
      <<"p", LF, "k", LF, LF, "b">>,
      <<"g", LF, LF, "g", LF, LF>>,
      <<"o", LF, CR, LF, CR>>,
      <<"v", LF, "g">>,
      <<"h", LF, LF>>,
      <<"g">> \o Sep \o <<"h">> \o Sep \o Sep,
      <<"g", LF, "h", "h", "h", "h", "h", "h", "h", "h", "h", LF, LF>> }
=============================================================================
