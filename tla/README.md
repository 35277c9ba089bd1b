# ssrfguard in TLA+

ssrfguard makes outbound HTTP requests to URLs from untrusted input without
letting them reach internal addresses.  It parses a URL once, resolves the name
once, checks every answer, connects to an address it checked and asks the kernel
where the connection went.  These modules state what that means and check it:
TLC on small instances, TLAPS, where there are theorems, for every value of the
constants.

Paths below are of the repository; `F:n` is line n of `src/ssrfguard/F`.

## The system

| Part | State it keeps | Operations | Talks to |
| --- | --- | --- | --- |
| Address table (`_address.py`, `_registry.py`) | the tuple of blocks, its index by prefix length | build, `match`, `classify` | the policy |
| Policy, address half (`_policy.py`) | the table, `allowed_networks` | build, `check_address` | table, resolve, connect |
| Policy, URL half (`_policy.py`) | schemes, ports, host patterns, limits | `check_url`, `check_host` | clients, observer |
| Pinned resolution (`_resolve.py`) | locals of one call | `resolve` | resolver, policy, observer |
| Pinned connection (`_connect.py`) | locals of one call, one socket at a time | `connect` | policy, kernel, observer |
| Observer (`_observer.py`) | `RebindingWatch._seen`, shared by threads | `report`, `__call__` | the user's observer |
| UDP resolver (`resolvers.py`) | locals of one call (the object is frozen) | `__call__`, `records` | name servers over UDP and TCP |
| DNS messages (`resolvers.py`) | locals of one parse | `_parse`, `_decode_name` | the UDP resolver |
| httpx clients (`httpx.py`) | limiter of the async client, the library's pool | `connect_tcp`, construction, redirects | resolve, connect, anyio |
| requests adapter (`requests.py`) | the library's pool, `max_redirects` | `_pinned_socket`, `get_adapter`, redirects | resolve, connect |
| Errors, exports (`errors.py`, `__init__.py`) | none | none | all |

How they interact: a client's network seam (`connect_tcp`, `_new_conn`) is called
by the HTTP library for every new connection.  It calls `resolve`, which calls a
resolver once, asks the policy of each answer and reports each verdict; then
`connect`, which asks the policy again, dials the answers in order and compares
the peer with the address dialled.  The asynchronous client runs `resolve` in a
worker thread and does the rest on the event loop.  The observer is a callback,
called from whatever thread made the decision; what it raises is suppressed.

What is hard: one resolver answer decides several dials, with failures between;
the network may rewrite a destination; the library retries on its own; a lookup
cannot be cancelled; requests interleave at every await and threads share one
watch without a lock; datagrams are lost, late, repeated and forged under one
deadline; a translation prefix hides one address in another; one URL is read several
times in several forms; a chain of redirects compares each hop with the last one only;
a client assembled from parts has more than one holder of a policy.

What makes each part correct, and where it is stated:

- table: lookup has one answer; no wrapper hides a refused address; no allow
  entry skips the decoding of one (`AddressTable`);
- pin: only what this call's lookup returned and the policy permits is dialled, in
  order, boundedly; a socket handed out goes where it was dialled; a refusal is
  final; nothing leaks; the observer knew first (`PinnedConnect`, `Pin`);
- async client: the same for each of several requests, with bounded lookups, and a
  hung lookup holding up nothing it need not (`AsyncBackend`);
- watch: no false report, none of a host not permitted within the window, no missed one
  inside it, a bounded map (`RebindingWatch`);
- resolver: it returns in time, with a whole answer, to its own question, or gives
  up having tried (`UdpResolver`);
- messages: reading one ends, resumes where a name ended, and takes only the records
  the question reaches (`DnsMessage`);
- URL half: what passes is listed, a host of digits and dots, or with a colon, is an address
  the policy permits, nothing overlong is read, and the seams confirm what was permitted but
  for the two lengths they measure again (`UrlPolicy`);
- construction and redirects: every hop is judged by the client's own policy, leaves by
  something that pins unless the policy accepts proxies, and takes no credential to
  another origin; a chain is no longer than the policy says (`Redirects`).

## Modules

| Module | Models | Proofs |
| --- | --- | --- |
| `AddressTable` | `_address.py`, `check_address` and construction of `Policy` | `AddressTableProofs` |
| `Pin` | abstract: what one connection promises | used by the two below |
| `PinnedConnect` | `resolve`, `connect` and their callers in both synchronous clients | `PinnedConnectProofs` |
| `RebindingWatch` | `report` and `RebindingWatch` with its threads | `RebindingWatchProofs` |
| `UdpResolver` | one call of `UdpResolver` against lossy and hostile servers | `UdpResolverProofs` |
| `DnsMessage` | reading one reply, octet by octet | `DnsMessageProofs` |
| `AsyncBackend` | `AsyncSafeBackend` with several requests on one loop | `AsyncBackendProofs` |
| `ClientConstruction` | transports, clients and sessions, and the route of a request | in the next |
| `Redirects` | chains of requests of such a client; extends `ClientConstruction` | `RedirectsProofs` |
| `UrlPolicy` | `allowed_hosts`, `check_url`, `check_host` and both client seams | `UrlPolicyProofs` |

Each `MC*` module gives the constants of its component small values.

**AddressTable.**  Variables are the caller's progress and what it has built:
`blocks` is `AddressTable.blocks`, `allowed` is `Policy.allowed_networks`,
`answers` the latest verdict.  Actions are the two constructors, with the checks
that refuse (`_address.py:157`, `_policy.py:312`), and `check_address`.  Addresses
are bit strings of 2 and 8 hextets of `HextetBits` bits, so a shift of
`_embedded_v4` is an index of a hextet and is independent of the width; the code
has 16 bits, the run has 1.  The recursion of `_classify` is unrolled: an IPv4
address one hop down has nothing to decode, so the depth limit is never reached.
*Idealised:* `ip_network` and `ip_address` (strictness is in `NetworkOf`).

**PinnedConnect.**  One thread, one request after another.  `pc` is the position in
`resolve` or `connect`, `at` its loop index; `rows`, `answers`, `permitted`,
`denied` are its locals; `tried`, `peer`, `openSockets` those of the failover
loop; `told` is what the observer heard.  One action is one turn of a loop or one
socket call, since that is where it can fail.  The resolver may answer with any
sequence of rows, repeated, refused and unreadable ones included; the kernel may
connect the socket anywhere; every socket call may fail; `Interrupted` is an
exception that is not an `OSError`.  `Surfaced` is what the caller's seam makes of an
error and `Retry` the HTTP library asking again after an error it considers
retryable; both are per client in `config`.  `DirectConnect` is a user of the
public `connect` with a sequence of their own.

**Pin.**  `choosing -> pinned -> dialling -> connected | refused | failed`: the
addresses are fixed once, all permitted, before any dial; dials are among them and
bounded by the cap; what is handed out landed where it was dialled.
`PinnedConnect` maps its program counter to the phase and its locals to the rest;
`AsyncBackend` does so for every request.

**AsyncBackend.**  `queue` and `borrowers` are the client's `CapacityLimiter`;
`lookups` the threads running; `streams` open connections.  An action is what a
coroutine does between two awaits.  A coroutine step needs `LoopFree`: the code
never runs a lookup on the loop, and a fault that does is what breaks
`StallIsContained`.  Cancellation is delivered at an await, except while
`run_sync` waits for its thread, which it shields.
*Idealised:* `resolve()` is one step of its thread (its own steps are
`PinnedConnect`), so that what it decided is a sequence of permitted addresses and
whether any was denied (`Judged`); scope and flow label of an IPv6 answer are left out,
as the code passes only `ip` and `port` to anyio (`httpx.py:1071`); the limiter is atomic
and first come, first served, as anyio documents it.

**RebindingWatch.**  `seen` is the `OrderedDict` as a sequence, the addresses of a
sighting a set, since their order decides nothing; `changes` is the counter by
which CPython's iterators notice a change.  A step is what CPython executes without
another thread getting a turn: one dictionary operation, or one turn of the loop of
`_forget`.  `Suppressed` is an exception that another thread's work causes, which
`report` swallows.

**UdpResolver.**  `__call__` and `records` for one or all record types; `server` and
`attempt` are the loop indices of `_query`; `queries` is what has been sent, so that
late replies to earlier queries exist; `ends` is when the current socket wait times
out.  *Idealised:* the clock moves only while the call waits on a socket, and a forger
does not guess the transaction id (an off-path forger guesses one of 65536: a
probability, not a behaviour to check); messages are what they say (their octets are read
in `DnsMessage`).

**DnsMessage.**  One message, read by `_parse`.  `stage` is the function that runs next;
`offset`, `labels`, `total`, `jumps`, `after` are the locals of `_decode_name`, `left` the
loop over the records, `accepted` the set of names an answer may belong to.  A step decodes
one label or follows one pointer.  *Scaled:* an octet has 4 * `Quarter` values instead of
256, so that the two high bits keep their meaning, and the fields of header, question and
record are one octet.  The octets of an address are not looked at, only their number.

**ClientConstruction, Redirects.**  A construction is a disjunct per way to raise and per
way to succeed; `client` records what matters later: its own policy, the policy of the
transport that judges, and whether the pool pins.  A URL is its origin and `permitted` the
set `check_url` returns for (`UrlPolicy` has the inside).  `Send` is the judgement of one
hop and its dispatch along `Route`; `Redirected` and `BuildRedirectRequest` are the library's
loop with this package's overrides in their places.  `Assign` is anybody assigning
`session.max_redirects`, and `bought` counts the assignments that fall between the
package's own (`requests.py:549`) and the library's comparison.  *External:* what httpx
and requests do between the overrides (`LibraryHeaders`, `Route`, the walk's history).

**UrlPolicy.**  A text is a sequence over eight ASCII characters and nine that the idna
codec spells in ASCII, with one character (the full-width ones), with two (`ß`, `⒈`, a letter
with an accent) or with none (a soft hyphen).  That is enough for a host to look like what it
is not, and for the host that `check_url` returns to be longer or shorter than the one
whose length it looked at.  An A-label spells a letter beyond ASCII where it stands, with
two characters; punycode's prefix and order, and the code points the codec refuses, are left
out.
`stage` is the next check of `_decide` and `_check_host`, `After` their order, `host` and
`port` what the checks so far have made of them.  `PinnedSocket` asks again about the
origin spelt as a URL, `CheckOrigin` asks `check_host` only.  *External:* `urlsplit`, the
codec and `ip_address`, by what they accept and return.

## Runs

| Run | States | Shows |
| --- | --- | --- |
| `address_table` | 7 thousand | lookup, decoding and allow entries agree for every address of the scaled space |
| `pinned_connect` | 90 thousand | safety, termination and refinement of `Pin` for one request |
| `async_backend` | 99 thousand | two requests, one slot: each keeps the pin; slots come back; stalls stay contained |
| `rebinding_watch` | 4.2 million | one, two and three concurrent callers of the watch |
| `udp_resolver` | 376 thousand | two servers, two attempts, two types: time, wholeness, honesty, termination |
| `dns_message` | 164 thousand | cut, changed and cyclic messages: where reading resumes, what is taken, that it ends |
| `redirects` | 989 thousand | every construction and every chain of four requests: consent, judgement, cap, credentials |
| `url_policy` | 297 thousand | every short host and origin under 30 allow lists: listed, an address if it is digits, unread, confirmed |
| `watch_loses_records`, `watch_outlives_window`, `udp_wrong_question`, `udp_stalled_tcp` | | disagreements, below |

Bounds and why they are enough:

- *AddressTable.*  `HextetBits = 1` keeps the layout of all five wrappers and gives
  4 IPv4 and 256 IPv6 addresses, all of them asked about.  Six tables: the shape of the
  shipped one (a permitted row within a denied one, a denied row around Teredo, denied
  rows within the IPv4-compatible wrapper), its reversal, rows marked translated that
  nothing decodes, two with one network listed twice with
  different reach, and the empty one.  The
  theorems have no such bound.
- *PinnedConnect.*  Answers up to 3 rows with a cap of 2: longer than the cap, mixed,
  repeated and unreadable.  Two permitted addresses and one refused; two scopes, so
  that equal ips with different sockaddrs occur.  One retry is enough to see a second
  lookup change its answer.
- *AsyncBackend.*  Two requests on one slot contend for it in every order; the cap is 2.
- *RebindingWatch.*  Two threads show every pair of conflicting operations, and a third makes
  `popitem` find the map empty; three decisions are a sighting, another of another host and a
  refusal, or three sightings at once; window 1 with times 0..2 has ages inside, on and
  outside the edge; capacity 1 with two hosts evicts.  The hosts, the addresses of one verdict
  and the threads are symmetric.  When both bounds are reached and all calls have returned the
  model stutters (`Quiet`), so deadlock is checked.
- *DnsMessage.*  `Quarter = 4`: labels of up to 3 octets, offsets of 4 bits beyond the
  first 16.  Six well-formed replies cover aliases in and out of order, a chain of two, shared
  and nested suffixes, a stranger's alias and an owner in capitals; each is cut at every
  length and changed in every octet to every value, which yields pointers anywhere, cycles
  included.  `MaxName = 5` and `MaxJumps = 2` are reached and exceeded.
- *Redirects.*  Four origins: one, its upgrade, another host, one no policy permits.  Chains of
  four requests leave, upgrade and come back.  Three policies: caps 2, 1 and 0, one with
  proxies.  One sensitive header and `authorization`, which the libraries treat themselves.
- *UrlPolicy.*  Two characters of any kind and three of digits, dots, letters, full-width
  ones and soft hyphens show every first, middle and last position; limits of 3 and 2 stand
  for 253 and 63, and hosts at the limits grow over them and shrink under them.  Each of the
  other parts of a URL is odd in turn.
- *UdpResolver.*  `Timeout = 5` and `AttemptTimeout = 2` cut the third attempt short, so the
  deadline ends the schedule in some behaviours and the schedule ends in others; a reply of
  3 chunks restarts the wait twice.

Fairness:

- `PinnedConnect`: `WF(Resolve)`, `WF(Connect)`: the thread runs, and a connection attempt
  ends by its timeout or the system's.  Nothing makes `getaddrinfo` return, and
  `CallEnds` starts after it has, or where `connect` is called with addresses of its caller's
  own.
- `AsyncBackend`: for each request `WF` of starting a lookup when a slot is free and it is
  first, of the connecting steps (the loop runs what is ready; an attempt is under
  `fail_after`), and of delivering a cancellation.  None on a lookup:
  `StallIsContained` holds although lookups may hang, and `SlotsComeBack` says what
  follows if none does.
- `DnsMessage`: `WF(Step)`: a function that runs; it calls nothing that waits.
- `UdpResolver`: `WF` of the steps the thread takes alone and of the clock.  No server has to
  answer.

## Where the repository disagrees with itself

Each is a run that TLC finds violated.

- `watch_loses_records`: a watch shared by threads can lose a decision.  A host added or removed
  during the comprehension of `_forget` (`_observer.py:297`) raises there, before the
  wrapped observer is called, and `report` suppresses it; the class promises to "Look at a
  decision, then pass it on."
- `watch_outlives_window`: the window belongs to a host's newest address, so an older one
  stays comparable as long as any is refreshed; `docs/observing.md:149` says the window
  is how long a sighting stays comparable.
- `udp_wrong_question`: a TCP reply to another question raises `_WrongQuestionError`, which
  `_query` does not expect (`resolvers.py:700`): it leaves the call as a private exception
  and the other servers are not asked.  The docstring lists `socket.gaierror`.
- `udp_stalled_tcp`: a TCP read is given the call's deadline rather than the attempt's
  (`resolvers.py:802`), so one stalled server can use all of it; `docs/resolvers.md:53`
  says `attempt_timeout` is the wait for one server.

Seen while modelling and not made into runs:

- `docs/observing.md:176` has decisions reported on the requesting thread; the asynchronous
  client reports those about addresses from a worker thread.
- A reply with TC set that was cut inside a record is unreadable before its TC bit is looked
  at, so TCP is not tried for it; the call goes on to its next attempt.
- The target of an alias is not bounded by the length of its record's data; a label that holds
  the octet of a dot reads as two labels; the limit of a decoded name leaves out the end
  marker, that of an encoded one counts it.
- `Client(transport=...)` accepts and ignores options for the transport; a client given a
  transport has an observer of its own besides the transport's.
- `session.max_redirects` is overwritten by `resolve_redirects` and compared by the library
  later, so an assignment in between counts for that hop (`bought` in `ChainWithinPolicy`).
- `_check_origin` of the httpx seam reports nothing to the observer.
- An `allowed_hosts` entry that ends in a dot of another spelling (`。`, `⒈`) is compiled to a
  pattern with a trailing dot, which no host is compared with: the entry admits nothing.
- The requests seam judges the origin's own URL, and so measures twice what `check_url` measured
  once, as the caller wrote it.  A host of 253 characters with letters beyond ASCII is
  returned in a longer A-label form, which the seam refuses as too long to resolve; and that URL
  may exceed `max_url_length` though the caller's did not.  The httpx seam measures neither.
  These are the two exceptions in `SeamsAgree`.
- `_reject_overlong_host` measures a host before the codec, "because punycode only ever grows a
  name" (`_policy.py:765`), and says of what it refuses that it "could never resolve".  nameprep,
  which the codec runs first, drops some characters: 254 of which some are soft hyphens
  normalise to a name within the limit, and are refused.
- A spelling of an address with a letter in it (`0x7f.0.0.1`) is a name to `check_url`, which
  permits it, as `tests/test_encodings.py:273` has it: what it resolves to is refused after the
  lookup (`PinnedConnect`).  `DigitsAreAddresses` is about digits, dots and colons only.

## Proofs

`AddressTableProofs`, for every width, table and allow list: `TypeCorrect`,
`UnambiguousLookup`, `NothingHidden`, `DecodingNeverSkipped`.  The invariant is

    IInv == TypeOK /\ Accepted /\ AnswersCurrent

`Accepted` is what the two constructors refused to let through (no duplicates, no
allow entry within a wrapper), `AnswersCurrent` that the recorded answer is of the
present table.  The argument is about prefixes: two networks that hold one address and have
one length are equal (`SamePrefixSameNetwork`), and of different lengths are nested
(`PrefixesNest`).  With the duplicate check the first makes lookup unambiguous; the
second turns an allow entry that holds a translated address without being wider than
its row into one inside it, which construction refused (`DecodingBlockFinds`).
The assumptions are those named in `AddressTable`: where the wrappers are and how long.

`PinnedConnectProofs`, for every set of addresses, cap, answer length and number of retries:
all seven invariants of the run (`TypeCorrect`, `PinIsKept`, `DeniedRefusesAll`,
`SocketsAccountedFor`, `HonestExhaustion`, `RefusalStops`, `ObserverToldFirst`) and the
refinement `PinImplemented`.  None of them is inductive alone: that what is dialled was in the
answer is known only because it was carried through every loop.  The invariant follows the
calls:

- `Control`: which locals are empty, and whether there is a socket, at each position;
- `ReadSoFar`, `AnswersAreRows`: reading has taken exactly the rows before `at`;
- `CheckedSoFar`, `AddressesAreRows`: each answer before `at` is judged and reported, on one
  side or the other;
- `ChosenOnce`: at the end of `resolve` the decision covers all rows; past the re-check all
  is permitted whoever supplied it;
- `Failover`: the attempts are a prefix of the permitted sequence, within the cap.

The refinement adds that each action is one of `Pin` or changes none of its variables.
Assumptions: permitted addresses are addresses, the cap is positive, the bounds are naturals.

`UdpResolverProofs`, for any number of servers, attempts and record types and any timeouts:
`InTime`, `WholeAnswers`, `OwnAnswers`, `HonestFailure`.  The two loops are positions in one
schedule: `InOrder` says that the failures so far are exactly its beginning, with the
division that finds a server's turn done once in lemmas.  `OurQuery` keeps the query
being waited for among those sent, which makes what is accepted an answer to it; `Clock` keeps
every wait inside the deadline, including the one a TCP read is given.

`AsyncBackendProofs`, for any number of requests, slots and addresses: `BoundedLookups`,
`StreamsAccountedFor` and `PinImplemented`, the refinement of `Pin` by each request.
`Slotted` ties borrowers, requests in their lookup and threads to each other, which is how a
cancelled request keeps its slot; `Choice` says what a request knows at each of its
awaits.  A step of one request is a step of its own `Pin` and a stutter of every other.

`RebindingWatchProofs`, for any number of threads, hosts and addresses: `TrueReports`,
`CapacityKept`.  Threads interleave between every two operations on the map, so what is on
file (`OnFile`) and what a thread holds between taking out and putting back (`Hand`) both
have to be true of the host they are about; a lost update loses addresses and never
invents one.  The capacity is exceeded by one sighting per thread in its eviction loop, which
is counted by the cardinality of the set of those threads.

`Detects` is the other half, for a watch with one caller: every address a host was permitted
for within the window is reported, unless as many other hosts as the map remembers were
permitted since.  `WatchInv` is what the one caller knows between any two of its steps.
`Remembers` says that what the first decisions permitted is on file, in the caller's hands
(`InTransit`) or gone for one of those two reasons.  Two facts about the map let it be
forgotten: a sighting is as young as any permit of its host (`Dated`), so a stale one has
only old addresses; and the map is in the order of the last permits of its hosts (`Ordered`),
so when it is over its capacity, everything behind the first host was permitted after it
(`HeadCrowded`, a bijection between those sightings and hosts).  That nobody changes the map
under the loop of `_forget` is part of the invariant (`Scanning`), and with it that a single
caller never raises (`NeverSuppressed`).  So `SingleCallerPassesOn`: the decisions that
`watch_loses_records` loses are lost to other threads only.  `Forgets` bounds what is reported
from the other side, up to what `watch_outlives_window` shows: every sighting bears the date
of a permit of its host (`Sourced`) and the scan lists every stale one it has passed
(`Collected`), so what a refusal finds on file is of a host permitted within the window.

`DnsMessageProofs`, for every message and limit: `StaysInside`, `EveryStepFalls`, `Bounded`.
Every step uses up records still to read, else parts of a record, else pointers and octets
of a name, and the three are naturals; that such triples cannot fall for ever is the
run's `DecodingEnds`.  `ReadsInPlace` and `ReachedRecordsOnly` follow what reading has taken:
`NameSoFar` ties the cursor and the octets counted to the labels read and to where the name
being read ends in place, whatever pointers it followed; `AnswerInv` says that the alias being
followed, and the owner of every address taken, is reached from the question by records taken
before.  What a name's length adds up to, and where it ends, are recursive functions.

`RedirectsProofs`, for any URLs, policies and length of chains: `ConsentToProxies`,
`HopsPermitted`, `ChainsBounded`, `CredentialsKept`.  The properties are about what was sent;
what keeps them is about where the chain is (`InChain`) and the request that is next: it wears a
credential only near home (`Wearing`), and the attribute a session compares with exceeds the
policy's number only by what was bought (`Capped`).  `Reconciled` is what a construction that
did not raise has established.  That a chain that upgrades and leaves cannot come
back with a credential is the step that needs the comparison with the previous hop to
compose along the chain.

`UrlPolicyProofs`, for texts of every length and every policy: `OverlongUnread`,
`NumericLiterals`, `SeamsConfirm`, `ListedOnly`.  The invariant follows the order of the checks
(`HostSoFar`, `PortSoFar`); `SeamsConfirm` is that `check_url` is idempotent up to the two
lengths, which needs that a normalised text is a fixed point of lowering and folding, however
much longer or shorter it is than what was written, that a bracketed text splits into itself,
and that trailing dots are stripped the same way twice.  Folding is the concatenation of what
each character becomes, so nothing about positions survives it; the lemmas use that it goes
part by part (`FoldedParts`).  `ListedOnly`
compares two readings of an allow list: the code matches a host as text against patterns, and
the property compares labels.  The lemmas about `Labels` say what the labels of a text are
and that a suffix cut at a dot is a suffix of labels; `ListInv` says which pattern each entry
was compiled to.  An entry that ends in a dot of another spelling (`KeepsDot`) is left out of
the statement: its pattern matches nothing (see above).

A property of what a recursive function returns is proved by its least counterexample: the
prover has that a set of naturals that is not empty has a least member, and the lemma shows
that no member can be the least.  That the function is defined everywhere is proved in the
same way, by its restrictions to `0..n`.

Assumptions throughout are the named ones of the modules: constants are of their types,
permitted addresses are addresses, limits are naturals, `ip_address` accepts ASCII texts of
its two shapes.

Only model-checked is liveness, which is beyond the prover: `CallEnds`, `DecodingEnds`,
`SlotsComeBack` and `StallIsContained`.  Every invariant of the passing runs and every
refinement is the statement of a theorem.  The type invariants of `UdpResolver`, `Redirects`
and `UrlPolicy` are proved (`TypeCorrect`) and are in no run.

## Not modelled

Registry rows are data.  Error texts, `redacted`, hints in refusals, `resolv.conf`, writing
a query, TLS, HTTP itself and the pools are the libraries' or are text.  Cookies of a jar
are the library's: only the `Cookie` header of a request is followed.  Pickling a `Session`
loses its policy and the copy refuses every request.  `connect_unix_socket` and `sleep` of the
asynchronous backend pass through or refuse at once.  An audit hook that raises after the
socket is open is outside `PinnedConnect`.  Scripts, tests and examples are not part of the
program.

## Order of the work

`AddressTable` and its proofs; `Pin`, `PinnedConnect` and theirs; `RebindingWatch`;
`UdpResolver`; `AsyncBackend`; `ClientConstruction` and `Redirects` with proofs; `UrlPolicy`
with proofs; `DnsMessage`; then the proofs of `UdpResolver`, `AsyncBackend`,
`RebindingWatch` and `DnsMessage`; then the inductions over data: names in `DnsMessage`,
labels in `UrlPolicy`, and the watch with one caller.

What could come next: two sessions of one process that share an environment which changes;
the steps of `resolve` inside the threads of `AsyncBackend`; what a watch with several
callers still detects.
