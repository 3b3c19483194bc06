--------------------------- MODULE MCTelemetryApi ---------------------------
(* An instance of TelemetryApi for TLC: small words, arrays of two values. *)
EXTENDS TelemetryApi, TLC

Path(parts) == [i \in DOMAIN parts |-> Plain(parts[i])]
Walk == Path(<<"paths", "walk">>)
Mean_ == Path(<<"paths", "walk", "meanLength">>)

Request(method, path, text, body, mistyped) ==
    [method |-> method, path |-> path, text |-> text, body |-> body, mistyped |-> mistyped]
Post(date, values) ==
    Request("POST", Walk, "json", [date |-> date, values |-> values], {})
Get(body) == Request("GET", Mean_, "json", body, {})

NoBody == [k \in {} |-> 0]

\* What a double outside 64 bits becomes on AArch64: the nearest number of the type.
MCWordOfDouble(x) == IF x < 0 THEN 0 ELSE MaxWord
MCIntOfDouble(x)  == IF x < 0 THEN -IntSize ELSE IntSize - 1

\* Events: two for the date 15, one for the date 6; numbers that fit, that wrap (to the
\* date 15 and the times 1 and 2), and that are outside 64 bits (and become the time 3);
\* a sum that is negative and one that overflows.
Events == {Post(15, <<-3, 1>>), Post(-1, <<9, 2>>), Post(6, <<20, 3>>)}

\* Queries: everything, a range, with a number outside 64 bits (that becomes 0), and
\* bounds inverted around the date 6.
Queries == {Get([resultUnit |-> "seconds"]),
            Get([resultUnit |-> "milliseconds", startTimestamp |-> -20, endTimestamp |-> 6]),
            Get([resultUnit |-> "seconds", startTimestamp |-> -2, endTimestamp |-> 2])}

\* What is refused: array length, missing and mistyped fields, unit, name, text, method.
Refused == {Post(6, <<1>>),
            Request("POST", Walk, "json", [values |-> <<1, 2>>], {"date"}),
            Get([resultUnit |-> "hours"]),
            Request("GET", Mean_, "json", [resultUnit |-> "seconds"], {"startTimestamp"}),
            Request("GET", Path(<<"paths">>), "json", [resultUnit |-> "seconds"], {}),
            Request("POST", Walk, "garbled", NoBody, {}),
            Request("GET", Mean_, "malformed", NoBody, {}),
            Request("UNKNOWN", Walk, "json", NoBody, {})}

MCRequests == Events \union Queries \union Refused
MCValues == {<<1, 2>>, <<-3, 1>>, <<3, 3>>}

=============================================================================
