----------------------------- MODULE MCDnsMessage -----------------------------
(***************************************************************************)
(* Octets of four bits.  Well-formed replies with aliases in and out of    *)
(* order, shared and nested suffixes and a stranger's record, each cut     *)
(* anywhere or with any one octet changed to any other; and every question *)
(* section of five octets over lengths, letters and pointers.              *)
(***************************************************************************)
EXTENDS DnsMessage

Top == 3 * Quarter
Alpha == Small
Beta == 4

\* Offset 1 holds the question, "alpha.beta"; 3 is "beta"; 8 is the first record.
Question == <<0, 1, Alpha, 1, Beta, 0, QType, Internet>>

Pointer(to) == <<Top + to \div (4 * Quarter), to % (4 * Quarter)>>

Record(owner, type, rdata) == owner \o <<type, Internet, Len(rdata)>> \o rdata

Address(owner) == Record(owner, QType, <<9>>)

\* "beta" in full, "beta" as an alias of "alpha.beta", a stranger.
InFull == <<1, Beta, 0>>
Stranger == <<1, 5, 0>>

Bases == {
    Question \o Address(Pointer(1)) \o Address(Pointer(1)),
    Question \o Record(Pointer(1), Cname, Pointer(3)) \o Address(Pointer(3)),
    Question \o Address(InFull) \o Record(Pointer(1), Cname, InFull) \o Address(Pointer(8)),
    Question \o Record(Pointer(1), Cname, Stranger) \o Record(Pointer(13), Cname, InFull)
             \o Address(Pointer(21)) \o Address(<<1, Capital>> \o Pointer(3)),
    Question \o Record(Stranger, Cname, InFull) \o Address(Pointer(8)) \o Address(InFull),
    Question \o Record(Pointer(1), 7, <<9, 9>>) \o Address(<<1, Alpha>> \o Pointer(3))
             \o Address(Pointer(15))
}

Whole(octets, n) ==
    [ours |-> TRUE, response |-> TRUE, truncated |-> FALSE, rcode |-> "NOERROR",
     questions |-> 1, answers |-> n, octets |-> octets]

Cut == UNION {{SubSeq(base, 1, n) : n \in 0..Len(base)} : base \in Bases}

Changed ==
    UNION {{[base EXCEPT ![i] = octet] : i \in 2..Len(base), octet \in Octet} : base \in Bases}

Short == {<<0>> \o text : text \in [1..5 -> {0, 1, 2, Alpha, Top, 2 * Quarter}]}

MCMessage ==
    {Whole(octets, n) : octets \in Cut \cup Changed, n \in 2..4}
    \cup {Whole(octets, 0) : octets \in Short}
    \cup {[Whole(octets, 4) EXCEPT !.truncated = TRUE] : octets \in Cut}
    \cup {[Whole(octets, 2) EXCEPT !.ours = o, !.response = r, !.questions = q, !.rcode = c] :
             octets \in Bases, o \in BOOLEAN, r \in BOOLEAN, q \in 0..1,
             c \in {"NOERROR", "NXDOMAIN", "SERVFAIL"}}

MCAsked == <<Alpha, Dot, Beta>>
=============================================================================
