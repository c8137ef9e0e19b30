--------------------------- MODULE MCRequestObject ---------------------------
(* Small instances of RequestObject.                                         *)
EXTENDS RequestObject

Part(headers, data) == [headers |-> headers, data |-> data, end |-> CRLF]
Form(preamble, parts) == [preamble |-> preamble, parts |-> parts]

\* "V", "F" and "N", which names no parameter, are Content-Disposition lines,
\* "T" is another header.
MCDisposition == "V" :> [param |-> "v", filename |-> None]
              @@ "F" :> [param |-> "f", filename |-> "name"]
              @@ "N" :> [param |-> None, filename |-> "name"]

Value  == Part(<<"V">>, <<"x", LF, "-", "-">>)
File   == Part(<<"F", "T">>, <<"x", CR, LF, "-", NUL>>)
Empty  == Part(<<"F">>, <<>>)
Bare   == [Part(<<"F">>, <<>>) EXCEPT !.end = <<>>]
Other  == Part(<<"T">>, <<"x">>)
Nobody == Part(<<"N">>, <<"x">>)
Noise  == [i \in 1..9 |-> "n"] \o CRLF

FormsServe == {Form(<<>>, <<Value, File>>), Form(Noise, <<Other, Nobody, Empty, Bare>>),
              Form([i \in 1..58 |-> "n"] \o CRLF, <<>>)}
FormsLong == {Form(<<>>, <<Part(<<"F">>, [i \in 1..n |-> "x"])>>) : n \in 1..12}

Query == <<[key |-> "v", val |-> <<"q">>]>>
MCQueries == {<<>>, Query}
MCEnvGroup == "COMMON" :> "common" @@ "CGI" :> "cgi" @@ "VAR" :> "vars"
           @@ "HDR" :> "header" @@ "OWN" :> "own"
=============================================================================
