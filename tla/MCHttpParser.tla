---------------------------- MODULE MCHttpParser ----------------------------
(* An instance of HttpParser for TLC. *)
EXTENDS HttpParser

Message(method, path, headers, chunks) ==
    [method |-> method, path |-> path, version |-> "1.1", headers |-> headers,
     lead |-> Len(headers), chunks |-> chunks, chunked |-> FALSE, connection |-> "keep-alive"]
InChunks(m) == [m EXCEPT !.chunked = TRUE]
WithTrailers(m, trailers) == [InChunks(m) EXCEPT !.headers = @ \o trailers]
Upgrading(m) == [m EXCEPT !.connection = "upgrade"]

Length(digit) == <<ContentLength, digit>>
JsonType == <<ContentType, Json>>
Host == <<"Host", "h">>

Upgrade == <<"Upgrade", "h2c">>

\* What the server asks for, a query with and one without a body, the first's
\* headers in lower case, a second length or none, chunks, trailers with and without
\* a length, duplicate and empty headers, another method, a connection that closes,
\* and ones that are upgraded.
MCMessages ==
    {Message("POST", "/e", <<Length("2"), JsonType>>, << <<"x", "y">> >>),
     Message("POST", "/f", <<JsonType, Length("1")>>, << <<"z">> >>),
     [Message("GET", "/m", <<Length("2")>>, << <<"q", "r">> >>) EXCEPT !.connection = "close"],
     Message("GET", "/m", <<Host>>, <<>>),
     Message("GET", "/m", <<>>, <<>>),
     Message("POST", "/e", << <<LowerLength, "1">>, JsonType>>, << <<"x">> >>),
     InChunks(Message("POST", "/e", <<JsonType>>, << <<"x">>, <<"y">> >>)),
     WithTrailers(Message("POST", "/e", <<JsonType>>, << <<"x">>, <<"y", "z">> >>),
                  <<Length("2"), Host>>),
     WithTrailers(Message("GET", "/m", <<Host>>, << <<"q">>, <<"r", "s">> >>), <<Host>>),
     Message("POST", "/e", << <<ContentType, "text">>, JsonType, Length("1")>>, << <<"x">> >>),
     Message("GET", "/m", <<Host, <<"Accept", "">> >>, <<>>),
     Message("PUT", "/e", <<Length("1")>>, << <<"x">> >>),
     Message("PUT", "/e", <<Host>>, <<>>),
     Upgrading(Message("POST", "/e", <<Upgrade, Length("2"), JsonType>>, << <<"x", "y">> >>)),
     Upgrading(Message("GET", "/m", <<Upgrade>>, <<>>)),
     Upgrading(InChunks(Message("GET", "/m", <<Upgrade>>, << <<"q">> >>)))}

=============================================================================
