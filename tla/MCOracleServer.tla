--------------------------- MODULE MCOracleServer ---------------------------
(* Small instances of OracleServer for TLC. *)
EXTENDS OracleServer

\* Decimal digits, with a u32 that ends at 9 so that "12" does not fit.
SomeDigits  == [d \in {"0", "1", "2"} |-> IF d = "0" THEN 0 ELSE IF d = "1" THEN 1 ELSE 2]
SomeLengths == [h \in {"len:0", "len:2", "len:14"} |->
                  IF h = "len:0" THEN 0 ELSE IF h = "len:2" THEN 2 ELSE 14]
Json(index, message) == <<index, message>>
SomeBodies  == [b \in {Json("#1", "m"), Json("#7", "m")} |->
                  [index |-> IF b[1] = "#1" THEN 1 ELSE 7, message |-> b[2]]]

Get(path)          == <<"GET">> \o path \o <<"eol", "eol">>
Post(header, body) == <<"POST", "/sign", "eol", header, "eol", "eol">> \o body

\* Every route, with and without an announced body; bodies of a wrong length;
\* a header spelled as the code does not recognise it; a head without an end,
\* a body without a head.
Gets  == {Get(<<"/health">>), Get(<<"/subkeys">>), Get(<<"/bundle.json">>),
          Get(<<"/subkey/", "1">>), Get(<<"/subkey/", "1", "2">>), Get(<<"/other">>)}
Posts == {Post("len:2", Json("#1", "m")), Post("len:2", Json("#7", "m")),
          Post("len:2", <<"#1">>), Post("len:0", Json("#1", "m")),
          Post("CONTENT-LENGTH:2", Json("#1", "m"))}
Odd   == {<<"GET", "/health", "eol">>, Json("#1", "m"), Post("len:14", Json("#1", "m"))}

Pieces == UNION {{r[i] : i \in DOMAIN r} : r \in Gets \cup Posts \cup Odd}

AllRequests   == Gets \cup Posts \cup Odd
LiveRequests  == {Post("len:2", Json("#1", "m")), <<"GET", "/health", "eol">>}
ProbeRequests == LiveRequests \cup {Get(<<"/health">>)}

CONSTANTS c1, c2
TwoClients == {c1, c2}
OnlyOne    == {c1}
=============================================================================
