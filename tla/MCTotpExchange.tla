--------------------------- MODULE MCTotpExchange ---------------------------
(* Instances of TotpExchange for TLC.                                       *)
EXTENDS TotpExchange

Word(w) == <<w>>

MCTitles == {Word("a"), Word("b"), <<"a", "b">>, Word("mixed"), Word("bidi")}

MCTexts == {None, Word("a"), Word("b"), Word("beta"), <<"a", "b">>, Word("")}

Secret(chars, pads, inner) ==
    [key |-> "k", chars |-> chars, pads |-> pads, inner |-> inner, alphabet |-> TRUE]

\* 16 bytes with and without padding, one byte less, bad padding, '=' inside,
\* nothing but '=', the longest, a short one, and lower case.
MCSecrets ==
    {Secret(26, 0, FALSE), Secret(26, 6, FALSE), Secret(24, 0, FALSE), Secret(26, 1, FALSE),
     Secret(27, 0, TRUE), Secret(0, 8, FALSE), Secret(1024, 0, FALSE),
     Secret(8, 0, FALSE), [Secret(26, 0, FALSE) EXCEPT !.alphabet = FALSE]}

MCTotps ==
    [issuer : MCTexts, account : MCTexts, secret : {Secret(26, 0, FALSE)},
     digits : {6}, period : {10, 120}, algorithm : {"SHA256"}]
    \cup [issuer : {None, Word("a")}, account : {Word("b")}, secret : MCSecrets,
          digits : 5..9, period : {9, 30, 120, 121}, algorithm : {"SHA1", "SHA512"}]

Query(issuer, algorithm, digits, period, other) ==
    [secret |-> <<Secret(8, 0, FALSE), Secret(26, 0, FALSE)>>, issuer |-> issuer,
     algorithm |-> algorithm, digits |-> digits, period |-> period, other |-> other]

\* Repeated keys, values out of range, too many pairs, empty parts of labels.
MCUris ==
    {[totp |-> h, label |-> l, query |-> q] :
       h \in BOOLEAN,
       l \in {Word("a"), <<"a", "b">>, <<"", "b">>, <<"a", "">>, <<"a", "b", "c">>, Word("")},
       q \in {Query(i, a, d, p, o) :
                i \in {<<>>, <<Word("b")>>}, a \in {<<>>, <<"SHA512">>, <<"MD5", "SHA1">>},
                d \in {<<>>, <<9, 8>>, <<256, 6>>}, p \in {<<>>, <<60>>, <<10, 9>>},
                o \in {0, 57, 62}}}

\* Around the first counters of the periods.
MCTimes == {0, 9, 10, 29, 30, 99, 100, 119, 120, 1200, 1320}

MCPolicies ==
    {[outcome |-> "Primary", runtime_state |-> "NotDebugged"],
     [outcome |-> "Decoy", runtime_state |-> "NotDebugged"]}
============================================================================
