------------------------------ MODULE MCRedirects ------------------------------
\* A plain origin, its upgrade, another host, and one no policy permits; one policy of
\* each kind of cap, with and without proxies, and one that permits less than the rest.
EXTENDS Redirects

Plain == [scheme |-> "http", host |-> "shop", port |-> 80]
Secure == [scheme |-> "https", host |-> "shop", port |-> 443]
Elsewhere == [scheme |-> "https", host |-> "ads", port |-> 443]
Internal == [scheme |-> "http", host |-> "admin", port |-> 80]

MCUrl == {Plain, Secure, Elsewhere, Internal}
MCEnvProxied == {Elsewhere}
MCHeader == {"authorization", "x-api-key"}

Rules(allowProxy, maxRedirects, permitted) ==
    [allowProxy |-> allowProxy, maxRedirects |-> maxRedirects,
     permitted |-> permitted, sensitive |-> {"x-api-key"}]

MCPolicy ==
    {Rules(FALSE, 2, {Plain, Secure, Elsewhere}),
     Rules(FALSE, 1, {Plain, Secure}),
     Rules(TRUE, 0, {Plain, Elsewhere})}
=============================================================================
