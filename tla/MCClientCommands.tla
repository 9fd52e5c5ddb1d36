-------------------------- MODULE MCClientCommands --------------------------
(* Values for model-checking ClientCommands: int has three bits, and the    *)
(* integers Redis answers go past them on both sides.                       *)
EXTENDS ClientCommands

CONSTANTS k1, k2, v1, v2

MCKeys == {k1, k2}
MCValues == {v1, v2}
MCRedis == {"redis", "Redis"}
MCNumerals == [n1 |-> 1, n3 |-> 3, n9 |-> 9, m4 |-> -4, m9 |-> -9]

MCTokens == {":", "/", "@", "?", "redis", "Redis", "http", "w", "h"} \cup DOMAIN MCNumerals

\* Some parts have separators that a url must escape there: "://" in a scheme,
\* "@" and "/" in a password, "@" in a port, a query without a path.
MCUrls ==
  [scheme   : {<<"redis">>, <<"Redis">>, <<"http">>, <<"redis", ":", "w">>,
               <<"redis", ":", "/", "/">>},
   userinfo : {NULL, <<"w">>, <<"w", ":", "n3">>, <<":", "w">>,
               <<"w", ":", ":", "n1", "?">>, <<"w", ":", "@", "n1">>, <<"w", ":", "/">>},
   host     : {<<"h">>, <<"n3">>},
   port     : {NULL, <<>>, <<"n3">>, <<"n9">>, <<"m9">>, <<"w">>, <<"n1", "w">>, <<"n3", "@">>},
   path     : {NULL, <<>>, <<"n1">>, <<"m4">>, <<"n9">>, <<"w">>, <<"n1", "?">>},
   query    : {NULL, <<>>, <<"w">>, <<"@", "n1", ":", "/", "n1", "?">>}]

MCAnswers == {-5, -4, -2, -1, 0, 1, 3, 4, 6, 7, 8}

=============================================================================
