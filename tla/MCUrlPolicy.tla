------------------------------ MODULE MCUrlPolicy ------------------------------
(* Hosts of up to three characters, spelt in ASCII and in characters that the codec      *)
(* spells with one ASCII character, with two or with none, fifteen allowed_hosts entries, *)
(* and URLs that are odd in every other part.                                             *)
EXTENDS UrlPolicy

CONSTANT HostLength  \* bound: characters of a host

Texts(characters, n) == UNION {[1..k -> characters] : k \in 1..n}

\* Hosts that are at the limits of a label and of a name, before or after they are folded.
AtLimits == {<<"a", ".", "a", ".">>, <<"a", "a", "a">>, <<"1", ".", "1", ".">>,
             <<"a", ".", "1", ".", "1">>, <<"sharp s", ".", "e acute">>,
             <<"e acute", "wide .", "1">>, <<"one stop", "one stop", "1">>,
             <<"a", "soft hyphen", ".", "a">>}

MCHosts == Texts((Ascii \ {"v", ":"}) \cup Wide, 2)
           \cup Texts({"a", "1", ".", "wide 1", "wide .", "soft hyphen"}, HostLength)
           \cup AtLimits

MCLiteral == {<<"1", ".", "1">>, <<":", ":", "1">>, <<":", "1">>, <<":", "%", "1">>}

MCEntry == {<<"a">>, <<"A", ".">>, <<"*", ".", "a">>, <<"*", ".", "1">>, <<"1", ".", "1">>,
            <<":", "1">>, <<"*">>, <<"*", "a">>, << >>, <<"wide 1", "wide .", "a">>,
            <<"a", "wide .">>, <<"1", "wide .", ".">>, <<"wide *", ".", "sharp s">>,
            <<"wide *">>, <<"one stop", "soft hyphen">>}

MCAllowLists ==
    {{}} \cup {{e} : e \in MCEntry} \cup {{<<"*", ".", "a">>, e} : e \in MCEntry}

MCSettings ==
    {[schemes |-> {"http", "https"}, ports |-> {80, 443}, userinfo |-> FALSE,
      maxUrlLength |-> 6, denied |-> {<<"1", ".", "1">>}],
     [schemes |-> {"https", "ftp"}, ports |-> {443}, userinfo |-> TRUE,
      maxUrlLength |-> 4, denied |-> {<<":", "1">>}]}

Plain == [length |-> 4, control |-> FALSE, scheme |-> "https", userinfo |-> FALSE,
          parses |-> TRUE, bracketed |-> FALSE, host |-> <<"a">>, port |-> NoPort]

MCUrl ==
    {[Plain EXCEPT !.length = Len(text) + 1, !.host = text] : text \in MCHosts}
    \cup {[Plain EXCEPT !.bracketed = TRUE, !.host = text] :
             text \in MCLiteral \cup {<<"v", ".", "1">>, <<"v", ".", ":">>, <<"v">>}}
    \cup {[Plain EXCEPT !.scheme = s, !.port = p] :
             s \in Scheme, p \in {NoPort, BadPort, 0, 80, 443, 65536}}
    \cup {[Plain EXCEPT !.length = n, !.control = c, !.userinfo = u, !.parses = ~c] :
             n \in {4, 5, 7}, c \in BOOLEAN, u \in BOOLEAN}
    \cup {[Plain EXCEPT !.host = << >>]}

MCOrigin ==
    [host : Texts({"a", "1", "."}, HostLength) \cup MCLiteral, port : {80, 443}]
=============================================================================
