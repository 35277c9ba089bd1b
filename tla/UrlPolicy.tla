-------------------------------- MODULE UrlPolicy --------------------------------
(***************************************************************************)
(* What a policy decides of a URL without the network, and of an origin at *)
(* the two seams where a socket is about to be made: Policy.check_url and  *)
(* Policy.check_host of src/ssrfguard/_policy.py, _check_origin of         *)
(* src/ssrfguard/httpx.py and the re-check of src/ssrfguard/requests.py.   *)
(*                                                                         *)
(* A text is a sequence of characters.  The idna codec spells some of them *)
(* with others, with several or with none: that is what lets a host look   *)
(* like something it is not, and grow after its length was looked at.      *)
(* Every reading of the URL is a step, in the order of the code.           *)
(***************************************************************************)
EXTENDS Integers, Sequences, SequencesExt, FiniteSets

CONSTANTS
    AllowLists,       \* values of allowed_hosts: sets of entries, as a caller writes them
    Settings,         \* the other fields of a policy: see SettingsAssumption
    Url,              \* URLs, as the parts a parser finds: see UrlAssumption
    Origin,           \* what a client library may open a connection to: [host, port]
    Frame,            \* characters of an origin's URL around its host
    Literal,          \* the hosts ip_address() accepts
    LongestHostname,  \* 253: _LONGEST_HOSTNAME
    LongestLabel      \* 63: the limit of _HOSTNAME and of the codec

\* ASCII, then characters that the codec spells in ASCII: full-width ones, a sharp s, the
\* digit one with a full stop, a soft hyphen and a letter with an accent.
Ascii == {"a", "v", "A", "1", ".", "*", "%", ":"}
Wide == {"wide a", "wide 1", "wide .", "wide %", "wide *",
         "sharp s", "one stop", "soft hyphen", "e acute"}
Text == Seq(Ascii \cup Wide)

\* str.lower(), nameprep and punycode, a character at a time.  An A-label spells a letter
\* beyond ASCII with a letter and a digit; where in the label they stand is left out.
Fold == [c \in Ascii \cup Wide |->
            CASE c \in {"A", "wide a"} -> <<"a">>
              [] c = "wide 1" -> <<"1">>
              [] c = "wide ." -> <<".">>
              [] c = "wide %" -> <<"%">>
              [] c = "wide *" -> <<"*">>
              [] c = "sharp s" -> <<"a", "a">>
              [] c = "one stop" -> <<"1", ".">>
              [] c = "soft hyphen" -> << >>
              [] c = "e acute" -> <<"v", "1">>
              [] OTHER -> <<c>>]

Scheme == {"", "http", "https", "ftp"}
DefaultPorts == [http |-> 80, https |-> 443]
PortNumber == 1..65535

\* A port as urlsplit's property returns it: none, a number, or a ValueError.
NoPort == -1
BadPort == -2

ASSUME SettingsAssumption ==
    Settings \subseteq [schemes : SUBSET Scheme, ports : SUBSET Nat, userinfo : BOOLEAN,
                        maxUrlLength : Nat, denied : SUBSET Literal]

ASSUME UrlAssumption ==
    /\ Url \subseteq [length : Nat, control : BOOLEAN, scheme : Scheme, userinfo : BOOLEAN,
                      parses : BOOLEAN, bracketed : BOOLEAN, host : Text,
                      port : Nat \cup {NoPort, BadPort}]
    /\ \A asked \in Url : Len(asked.host) <= asked.length
    /\ Origin \subseteq [host : Seq(Ascii), port : Nat]
    /\ AllowLists \subseteq SUBSET Text

\* ip_address() accepts ASCII only, and only texts that hold a colon or are made of
\* digits and dots; v is a letter that is no hexadecimal digit.
ASSUME LiteralAssumption ==
    /\ Literal \subseteq Seq(Ascii)
    /\ \A text \in Literal :
          /\ text # << >> /\ text[1] # "v"
          /\ \/ ":" \in ToSet(text)
             \/ ToSet(text) \subseteq {"1", "."}

ASSUME LengthAssumption == {LongestHostname, LongestLabel, Frame} \subseteq Nat

VARIABLES
    policy,   \* the policy, once it is constructed
    listed,   \* its allowed_hosts, as the caller wrote them
    hosts,    \* and as they are compiled
    by,       \* who asks: the "client", or the seam "requests" or "httpx"
    url,      \* the URL under judgement
    origin,   \* the origin a library hands to a seam
    stage,    \* the reading that comes next
    read,     \* the readings made so far
    host,     \* the host as it stands
    port,     \* the port as it stands
    target,   \* what check_url last returned to the client: [host, port, scheme]
    told      \* outcomes reported to the observer

configured == <<policy, listed, hosts>>
vars == <<configured, by, url, origin, stage, read, host, port, target, told>>

NoUrl == [scheme |-> "none"]
NoOrigin == [host |-> << >>, port |-> 0]
NoTarget == [host |-> << >>, port |-> 0, scheme |-> ""]

-----------------------------------------------------------------------------
(* Texts.                                                                  *)

Has(text, c) == c \in ToSet(text)

IsAscii(text) == ToSet(text) \subseteq Ascii

\* SplitResult.hostname is in lower case; nameprep is not done yet.
Lower(text) == [i \in DOMAIN text |-> IF text[i] = "A" THEN "a" ELSE text[i]]

Folded(text) == FlattenSeq([i \in DOMAIN text |-> Fold[text[i]]])

\* text.rstrip(".")
Rstrip(text) ==
    LET kept == {n \in 0..Len(text) : \A i \in (n + 1)..Len(text) : text[i] = "."}
    IN  SubSeq(text, 1, CHOOSE n \in kept : \A k \in kept : n <= k)

\* How many characters stand before the first c.
Before(text, c) ==
    CHOOSE n \in 0..Len(text) :
        /\ n = Len(text) \/ text[n + 1] = c
        /\ \A i \in 1..n : text[i] # c

\* Where the characters of a set stand, with the two ends of the text.
Cuts(text, separators) ==
    {0, Len(text) + 1} \cup {i \in DOMAIN text : text[i] \in separators}

\* Every label is one to LongestLabel characters long once it is folded; as it is
\* written, the last may be empty.
LabelsFit(text, separators) ==
    \A i, j \in Cuts(text, separators) :
        /\ i < j
        /\ \A k \in Cuts(text, separators) : k <= i \/ j <= k
        => \/ Len(Folded(SubSeq(text, i + 1, j - 1))) \in 1..LongestLabel
           \/ j = i + 1 /\ j = Len(text) + 1 /\ i > 0

\* What _normalise can encode: any ASCII text, else what the codec takes, which splits at
\* a wide dot too.
Encodes(text) == IsAscii(text) \/ LabelsFit(text, {".", "wide ."})

\* The A-label form, in lower case.  It may be longer than the text, or shorter.
Normalise(text) == Folded(text)

\* Fault: an address has a dot in it.
FaultNumericShaped(text) == Has(text, ".") /\ ToSet(text) \subseteq {"1", "."}

NumericShaped(text) == text # << >> /\ ToSet(text) \subseteq {"1", "."}

\* _HOSTNAME, over the letters and digits of this alphabet.
Hostname(text) ==
    /\ text # << >>
    /\ ToSet(text) \subseteq {"a", "v", "1", "."}
    /\ LabelsFit(text, {"."})

-----------------------------------------------------------------------------
(* allowed_hosts.                                                          *)

\* The part of an entry before its first dot, and the part after.
Leftmost(entry) == SubSeq(entry, 1, Before(entry, "."))
Rest(entry) == SubSeq(entry, Before(entry, ".") + 2, Len(entry))

\* What _as_host_patterns accepts of one entry, its trailing dots gone.
Usable(entry) ==
    /\ entry # << >>
    /\ ~Has(Rest(entry), "*")
    /\ Has(Leftmost(entry), "*") => Leftmost(entry) = <<"*">> /\ Rest(entry) # << >>
    /\ Encodes(IF Leftmost(entry) = <<"*">> THEN Rest(entry) ELSE entry)

AsHostPattern(entry) ==
    IF Leftmost(entry) = <<"*">> THEN <<"*", ".">> \o Normalise(Rest(entry))
    ELSE Normalise(entry)

\* Fault: the wildcard's suffix is compared without the dot in front of it.
FaultMatches(name, pattern, literal) ==
    IF ~literal /\ IsPrefix(<<"*", ".">>, pattern)
    THEN LET suffix == SubSeq(pattern, 3, Len(pattern))
         IN  IsSuffix(suffix, name) /\ Len(name) > Len(suffix)
    ELSE name = pattern

\* One pattern and one name without trailing dots; a wildcard never matches a literal.
Matches(name, pattern, literal) ==
    IF ~literal /\ IsPrefix(<<"*", ".">>, pattern)
    THEN LET suffix == SubSeq(pattern, 2, Len(pattern))
         IN  IsSuffix(suffix, name) /\ Len(name) > Len(suffix)
    ELSE name = pattern

HostIsAllowed(name, patterns, literal) ==
    \E pattern \in patterns : Matches(Rstrip(name), pattern, literal)

\* A policy that lists no host restricts none.
Admits(patterns, name) ==
    patterns = {} \/ HostIsAllowed(name, patterns, name \in Literal)

\* Policy.check_host: the half of a decision that needs no URL.
CheckHost(name) == Admits(hosts, name)

-----------------------------------------------------------------------------
(* Construction, and who asks.                                             *)

Init ==
    /\ policy \in Settings
    /\ listed = {} /\ hosts = {}
    /\ by = "nobody" /\ url = NoUrl /\ origin = NoOrigin
    /\ stage = "unconfigured" /\ read = {}
    /\ host = << >> /\ port = 0
    /\ target = NoTarget /\ told = << >>

\* Policy(allowed_hosts=...): one unusable entry refuses the lot.
Configure ==
    /\ stage = "unconfigured"
    /\ listed' \in AllowLists
    /\ LET kept == {Rstrip(entry) : entry \in listed'}
       IN  IF \A entry \in kept : Usable(entry)
           THEN /\ hosts' = {AsHostPattern(entry) : entry \in kept}
                /\ stage' = "idle"
           ELSE stage' = "ValueError" /\ UNCHANGED hosts
    /\ UNCHANGED <<policy, by, url, origin, read, host, port, target, told>>

\* check_url is called.
Judge(who, asked) ==
    /\ by' = who
    /\ url' = asked
    /\ stage' = "length" /\ read' = {}
    /\ host' = << >> /\ port' = 0
    /\ UNCHANGED configured

\* A client judges the URL of a request.
CheckUrl ==
    /\ stage \in {"idle", "permitted", "refused", "lookup", "ProxyUnsupportedError"}
    /\ \E asked \in Url : Judge("client", asked)
    /\ origin' = NoOrigin /\ target' = NoTarget /\ told' = << >>

-----------------------------------------------------------------------------
(* check_url, reading by reading.                                          *)

\* Fault: the name is normalised before its length is looked at.
FaultAfter ==
    [length |-> "control", control |-> "split", split |-> "scheme", scheme |-> "userinfo",
     userinfo |-> "host", host |-> "normalise", normalise |-> "hostlength",
     hostlength |-> "shape", shape |-> "port", port |-> "listed", listed |-> "address",
     address |-> "permitted"]

\* The order of _decide and _check_host.
After ==
    [length |-> "control", control |-> "split", split |-> "scheme", scheme |-> "userinfo",
     userinfo |-> "host", host |-> "hostlength", hostlength |-> "normalise",
     normalise |-> "shape", shape |-> "port", port |-> "listed", listed |-> "address",
     address |-> "permitted"]

\* One reading.  check_url reports to the observer how the whole ended.
Reading(name, passes) ==
    /\ stage = name
    /\ read' = read \cup {name}
    /\ stage' = IF passes THEN After[name] ELSE "refused"
    /\ told' = IF stage' \in {"permitted", "refused"} THEN Append(told, stage') ELSE told
    /\ UNCHANGED <<configured, by, url, origin>>

\* Readings that only look.
Looks(name, passes) == Reading(name, passes) /\ UNCHANGED <<host, port, target>>

RejectOverlong == Looks("length", url.length <= policy.maxUrlLength)

RejectControlCharacters == Looks("control", ~url.control)

\* urlsplit takes an IPv6 literal or an IPvFuture text between brackets, nothing else.
Splits ==
    /\ url.parses
    /\ url.bracketed =>
          \/ url.host \in Literal /\ Has(url.host, ":")
          \/ url.host # << >> /\ url.host[1] = "v" /\ Has(url.host, ".")

\* Unbracketed, the host ends at the first colon, and a port begins.
Hostpart ==
    IF url.bracketed THEN url.host ELSE SubSeq(url.host, 1, Before(url.host, ":"))

Portpart == IF url.bracketed \/ ~Has(url.host, ":") THEN url.port ELSE BadPort

Split ==
    /\ Reading("split", Splits)
    /\ host' = Lower(Hostpart)
    /\ port' = Portpart
    /\ UNCHANGED target

CheckScheme == Looks("scheme", url.scheme \in policy.schemes \ {""})

CheckUserinfo == Looks("userinfo", policy.userinfo \/ ~url.userinfo)

HostPresent == Looks("host", host # << >> /\ ~Has(host, "%"))

RejectOverlongHost == Looks("hostlength", Len(host) <= LongestHostname)

NormaliseHost ==
    /\ Reading("normalise", Encodes(host))
    /\ host' = Normalise(host)
    /\ UNCHANGED <<port, target>>

\* A literal, or else a name that does not look like an encoded one.
WellShaped(name) ==
    \/ (NumericShaped(name) \/ Has(name, ":")) /\ name \in Literal
    \/ ~NumericShaped(name) /\ Hostname(name)

Shape == Looks("shape", WellShaped(host))

\* The URL's port, or the default of its scheme.
Chosen ==
    IF port # NoPort THEN port
    ELSE IF url.scheme \in DOMAIN DefaultPorts THEN DefaultPorts[url.scheme]
    ELSE BadPort

CheckPort ==
    /\ Reading("port", Chosen \in PortNumber /\ Chosen \in policy.ports)
    /\ port' = Chosen
    /\ UNCHANGED <<host, target>>

CheckHostIsListed == Looks("listed", CheckHost(host))

CheckLiteral ==
    /\ Reading("address", host \notin policy.denied)
    /\ target' = IF host \notin policy.denied /\ by = "client"
                 THEN [host |-> host, port |-> port, scheme |-> url.scheme] ELSE target
    /\ UNCHANGED <<host, port>>

CheckUrlGoesOn ==
    \/ RejectOverlong \/ RejectControlCharacters \/ Split \/ CheckScheme
    \/ CheckUserinfo \/ HostPresent \/ RejectOverlongHost \/ NormaliseHost
    \/ Shape \/ CheckPort \/ CheckHostIsListed \/ CheckLiteral

-----------------------------------------------------------------------------
(* The seams, where a library is about to open a connection.               *)

\* For the target of the request, or, in a pool of somebody's own or after a reading of
\* the name that is not the policy's, for anything.
Handed(opened) ==
    \/ /\ stage = "permitted" /\ by = "client"
       /\ opened = [host |-> target.host, port |-> target.port]
       /\ UNCHANGED <<target, told>>
    \/ /\ stage = "idle"
       /\ opened \in Origin
       /\ target' = NoTarget /\ told' = << >>

\* Fault: an address is spelt into the URL as a name would be.
FaultOriginUrl(scheme, opened) ==
    [length |-> Frame + Len(opened.host), control |-> FALSE, scheme |-> scheme,
     userinfo |-> FALSE, parses |-> TRUE, bracketed |-> FALSE,
     host |-> opened.host, port |-> opened.port]

\* requests: _origin, the URL of an origin and nothing else.
OriginUrl(scheme, opened) ==
    [length |-> Frame + Len(opened.host), control |-> FALSE, scheme |-> scheme,
     userinfo |-> FALSE, parses |-> TRUE, bracketed |-> Has(opened.host, ":"),
     host |-> opened.host, port |-> opened.port]

\* requests: _pinned_socket refuses a tunnel, and asks check_url again.
PinnedSocket ==
    /\ \E opened \in Origin \cup {[host |-> target.host, port |-> target.port]},
          scheme \in {"http", "https"} :
          /\ stage = "permitted" => scheme = target.scheme
          /\ Handed(opened)
          /\ origin' = opened
          /\ Judge("requests", OriginUrl(scheme, opened))

Tunnelled ==
    /\ stage = "permitted" /\ by = "client"
    /\ stage' = "ProxyUnsupportedError"
    /\ UNCHANGED <<configured, by, url, origin, read, host, port, target, told>>

\* httpx: _check_origin.  Nothing is reported.
CheckOrigin ==
    /\ \E opened \in Origin \cup {[host |-> target.host, port |-> target.port]} :
          /\ Handed(opened)
          /\ origin' = opened
          /\ host' = opened.host /\ port' = opened.port
          /\ stage' = IF opened.port \in policy.ports /\ CheckHost(opened.host)
                      THEN "lookup" ELSE "refused"
    /\ by' = "httpx"
    /\ UNCHANGED <<configured, url, read>>

\* A policy that could not be constructed judges nothing.
Unconstructed == stage = "ValueError" /\ UNCHANGED vars

Next ==
    \/ Configure \/ CheckUrl \/ CheckUrlGoesOn
    \/ PinnedSocket \/ Tunnelled \/ CheckOrigin \/ Unconstructed

Spec == Init /\ [][Next]_vars

-----------------------------------------------------------------------------
(* Properties.                                                             *)

Stage == DOMAIN After \cup {"unconfigured", "ValueError", "idle", "permitted", "refused",
                            "lookup", "ProxyUnsupportedError"}

TypeOK ==
    /\ policy \in Settings /\ listed \subseteq Text
    /\ hosts \subseteq Text
    /\ by \in {"nobody", "client", "requests", "httpx"}
    /\ stage \in Stage /\ read \subseteq DOMAIN After
    /\ host \in Text /\ port \in Int
    /\ origin \in [host : Text, port : Int]
    /\ target \in [host : Text, port : Int, scheme : Scheme]

\* Where a lookup or a connection may follow.
Passed == stage \in {"permitted", "lookup"}

\* What a character does to the labels before it.
NextLabels(labels, c) ==
    IF c = "." THEN Append(labels, << >>)
    ELSE [labels EXCEPT ![Len(labels)] = Append(labels[Len(labels)], c)]

\* The labels of a text.
Labels(text) ==
    LET of[n \in 0..Len(text)] ==
            IF n = 0 THEN << << >> >> ELSE NextLabels(of[n - 1], text[n])
    IN  of[Len(text)]

\* An entry names a host when their labels are equal, or, for a wildcard, when the host's
\* last labels are the entry's and something stands in front of them.  A dot at the end,
\* of whatever spelling, is the root's and adds no label; a star alone is no wildcard.
Names(entry, name) ==
    LET e == Labels(Rstrip(Folded(entry)))
        n == Labels(Rstrip(name))
        more == Len(n) - Len(e) + 1
    IN  \/ e = n
        \/ /\ e[1] = <<"*">> /\ Len(e) > 1 /\ name \notin Literal
           /\ more > 0 /\ SubSeq(n, more + 1, Len(n)) = Tail(e)
           /\ SubSeq(n, 1, more) # << << >> >>

\* An entry that, its trailing dots gone, ends in a dot of another spelling.
KeepsDot(entry) ==
    LET left == Folded(Rstrip(entry)) IN left # << >> /\ left[Len(left)] = "."

\* Label by label: whatever the two sides were written in, and through whichever of
\* check_url, the requests seam and the httpx seam it came, an origin that passes is one
\* the caller listed; and check_url calls unlisted only what no entry names.  An entry
\* that ends in a dot of another spelling is outside the second half: it is compiled to a
\* pattern with a trailing dot, which no host is compared with.
OnlyListedOrigins ==
    /\ Passed => /\ port \in policy.ports
                 /\ listed # {} => \E entry \in listed : Names(entry, host)
    /\ stage = "refused" /\ "listed" \in read /\ "address" \notin read
       => \A entry \in listed : KeepsDot(entry) \/ ~Names(entry, host)

\* A host that check_url lets through and that is digits and dots, or holds a colon, once
\* it is normalised, is an address the parser knows and the policy permits: 0177.0.0.1,
\* 2130706433 and 127.1 are never left for a resolver to read, in whatever characters they
\* were written.  Of a spelling with a letter in it (0x7f.0.0.1) nothing is said: that is
\* a name to check_url, and what it resolves to is judged afterwards.
DigitsAreAddresses ==
    stage = "permitted" /\ (ToSet(host) \subseteq {"1", "."} \/ ":" \in ToSet(host))
    => host \in Literal \ policy.denied

\* A URL over the limit is read by nothing but the check of its length, and a host that
\* is over what DNS carries as it is written never reaches the codec, whose cost is why
\* there is a limit.
RefusedUnread ==
    /\ read \subseteq {"length"} \/ url.length <= policy.maxUrlLength
    /\ "normalise" \in read => Len(Hostpart) <= LongestHostname

\* What check_url permitted, both seams permit when the library hands them the same
\* origin: the host is judged a second time in the form the first left it in, bracketed
\* or bare, with or without its trailing dot.  There are two exceptions, both of the
\* requests seam, which measures again what check_url measured as the caller wrote it: a
\* host that normalisation made longer than DNS carries, and an origin whose URL is longer
\* than max_url_length though the caller's was not.
SeamsAgree ==
    /\ by \in {"requests", "httpx"} /\ stage = "refused" /\ target # NoTarget
    => /\ by = "requests"
       /\ \/ Len(target.host) > LongestHostname
          \/ Frame + Len(target.host) > policy.maxUrlLength
=============================================================================
