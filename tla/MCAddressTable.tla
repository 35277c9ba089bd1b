--------------------------- MODULE MCAddressTable ---------------------------
(***************************************************************************)
(* AddressTable on one-bit hextets: 4 IPv4 and 256 IPv6 addresses, every   *)
(* one of which is asked about.  The tables keep the shape of the shipped  *)
(* one: a denied IPv4 row with a permitted row inside it, all five         *)
(* wrappers, a denied row around Teredo (2001::/23 in the registry) and    *)
(* denied rows inside the IPv4-compatible wrapper (::1 and ::).            *)
(***************************************************************************)
EXTENDS AddressTable

Net(v, prefix) ==
    [version |-> v,
     bits |-> [i \in 1..Width(v) |-> IF i <= Len(prefix) THEN prefix[i] ELSE 0],
     len |-> Len(prefix)]

Row(v, prefix, reach) == [network |-> Net(v, prefix), reach |-> reach]

MCV4MAPPED  == Net(6, <<0, 0, 0, 0, 0, 1>>)
MCV4COMPAT  == Net(6, <<0, 0, 0, 0, 0, 0>>)
MCNAT64     == Net(6, <<0, 0, 1, 0, 1, 1>>)
MCSIXTOFOUR == Net(6, <<1>>)
MCTEREDO    == Net(6, <<0, 1>>)

Private   == Row(4, <<1>>, "denied")
Anycast   == Row(4, <<1, 0>>, "permitted")
Mapped    == [network |-> MCV4MAPPED,  reach |-> "translated"]
Compat    == [network |-> MCV4COMPAT,  reach |-> "translated"]
Gateway   == [network |-> MCNAT64,     reach |-> "translated"]
SixToFour == [network |-> MCSIXTOFOUR, reach |-> "translated"]
Teredo    == [network |-> MCTEREDO,    reach |-> "translated"]
Loopback  == Row(6, <<0, 0, 0, 0, 0, 0, 0, 1>>, "denied")
Ietf      == Row(6, <<0>>, "denied")
Site      == Row(6, <<0, 0, 1>>, "denied")
\* a row a caller could mark translated although nothing can decode it
Unknown   == Row(6, <<0, 0, 1, 1>>, "translated")
Wrapped4  == Row(4, <<0, 1>>, "translated")

MCBlockLists ==
    {<<Private, Anycast, Mapped, Compat, Gateway, SixToFour, Teredo, Loopback, Ietf, Site>>,
     <<Site, Ietf, Loopback, Teredo, SixToFour, Gateway, Compat, Mapped, Anycast, Private>>,
     <<Private, Wrapped4, Unknown, Teredo, Compat>>,
     <<Private, Teredo, [Teredo EXCEPT !.reach = "permitted"]>>,
     <<[Private EXCEPT !.reach = "permitted"], SixToFour, Private>>,
     << >>}

AllowEntries ==
    {Private.network, Loopback.network, MCV4COMPAT, MCTEREDO, Ietf.network, Net(6, << >>),
     Net(6, <<0, 1, 0>>), Net(6, <<0, 0, 1>>), Net(6, <<1, 0, 1>>)}

MCAllowLists == {{}} \cup {{n} : n \in AllowEntries}
=============================================================================
