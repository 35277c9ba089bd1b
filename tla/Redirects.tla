------------------------------- MODULE Redirects -------------------------------
(***************************************************************************)
(* One client and the chain of requests it sends: handle_request and       *)
(* get_adapter, which judge every hop, the cap on the chain's length and   *)
(* the headers that leave it, in src/ssrfguard/httpx.py and                *)
(* src/ssrfguard/requests.py, over each library's own redirect loop.       *)
(*                                                                         *)
(* Where a redirect points is up to the server.  A caller may also take    *)
(* the next request and send it himself, and may assign the session        *)
(* attribute that the requests loop compares with.                         *)
(***************************************************************************)
EXTENDS ClientConstruction, Sequences

CONSTANTS
    MaxSent,   \* bound: requests of one chain
    MaxLimit   \* bound: numbers assigned to session.max_redirects

ASSUME BoundAssumption == {MaxSent, MaxLimit} \subseteq Nat

VARIABLES
    stage,      \* where the chain is
    follow,     \* whether redirects are followed, as the call asked
    sent,       \* requests sent, [url, headers, route], since the caller's own
    start,      \* how many were sent before the present call of send
    next,       \* the request to send or to redirect from: [url, headers]
    location,   \* where the last response redirects to
    limit,      \* session.max_redirects
    bought,     \* assignments to it that fell between its use and its last assertion
    outcome     \* how the chain ended

chain == <<stage, follow, sent, start, next, location, limit, bought, outcome>>
vars == <<construction, chain>>

Request == [url : Url, headers : SUBSET Header]
NoUrl == [scheme |-> "none"]
NoRequest == [url |-> NoUrl, headers |-> {}]

Init ==
    /\ InitConstruction
    /\ stage = "idle" /\ follow = TRUE
    /\ sent = << >> /\ start = 0
    /\ next = NoRequest /\ location = NoUrl
    /\ limit = 0 /\ bought = 0
    /\ outcome = "none"

\* Responses of the present call, the ones in response.history and the last.
Walked == Len(sent) - start

Stop(how) ==
    /\ stage' = "stopped"
    /\ outcome' = how

-----------------------------------------------------------------------------
(* Origins.                                                                *)

SameOrigin(old, new) == old = new

\* The same host, from http to https, both on their default ports.
Upgrade(old, new) ==
    /\ old.host = new.host
    /\ old.scheme = "http" /\ old.port = 80
    /\ new.scheme = "https" /\ new.port = 443

\* Fault: a port of the same host is still the same place.
FaultCrosses(old, new) == old.host # new.host

Crosses(old, new) == ~SameOrigin(old, new) /\ ~Upgrade(old, new)

-----------------------------------------------------------------------------
(* Construction, and the caller's own requests.                            *)

\* A session starts with the policy's number in the attribute.
Build ==
    /\ Construct
    /\ limit' = IF client' # Nothing THEN client'.policy.maxRedirects ELSE limit
    /\ UNCHANGED <<stage, follow, sent, start, next, location, bought, outcome>>

\* The caller sends a request of his own, with headers of his own.
Call ==
    /\ client # Nothing
    /\ stage \in {"idle", "held", "stopped"}
    /\ \E request \in Request, following \in BOOLEAN :
          /\ next' = request
          /\ follow' = following
    /\ stage' = "ready"
    /\ sent' = << >> /\ start' = 0 /\ bought' = 0
    /\ location' = NoUrl /\ outcome' = "none"
    /\ UNCHANGED <<construction, limit>>

\* The caller sends response.next_request, or response.next: a new call, which counts
\* from its own first response.
SendNext ==
    /\ stage = "held"
    /\ stage' = "ready"
    /\ start' = Len(sent) /\ bought' = 0
    /\ UNCHANGED <<construction, follow, sent, next, location, limit, outcome>>

-----------------------------------------------------------------------------
(* One hop.                                                                *)

\* handle_request: the whole URL, by the transport's policy.  A request that httpx routes
\* to another transport reaches no handle_request of this package.
HandleRequest(url) == Route(url) # "foreign" => url \in client.judge.permitted

\* Fault: a URL is judged when its connection is opened.
FaultGetAdapter(url) ==
    \/ url \in client.policy.permitted
    \/ \E i \in 1..Len(sent) : sent[i].url.host = url.host

\* get_adapter: the whole URL, by the session's policy, before an adapter is picked.
GetAdapter(url) == url \in client.policy.permitted

Judged(url) == IF IsSession THEN GetAdapter(url) ELSE HandleRequest(url)

\* Fault: the proxy is asked about when the call begins.
FaultProxyRefused(url) ==
    /\ IsSession /\ Walked = 0
    /\ SelectProxy(url) /\ ~client.policy.allowProxy

\* SafeAdapter.send asks of each hop, because requests chooses a proxy for each hop.
ProxyRefused(url) ==
    /\ IsSession
    /\ SelectProxy(url) /\ ~client.policy.allowProxy

Send ==
    /\ stage = "ready"
    /\ \/ /\ ~Judged(next.url)
          /\ Stop("BlockedURLError")
          /\ UNCHANGED sent
       \/ /\ Judged(next.url) /\ ProxyRefused(next.url)
          /\ Stop("ProxyUnsupportedError")
          /\ UNCHANGED sent
       \/ /\ Judged(next.url) /\ ~ProxyRefused(next.url)
          /\ sent' = Append(sent, [url |-> next.url, headers |-> next.headers,
                                   route |-> Route(next.url)])
          /\ stage' = "sent"
          /\ UNCHANGED outcome
    /\ UNCHANGED <<construction, follow, start, next, location, limit, bought>>

Answered ==
    /\ stage = "sent"
    /\ Stop("response")
    /\ UNCHANGED <<construction, follow, sent, start, next, location, limit, bought>>

\* A response that redirects.  resolve_redirects assigns the policy's number to the
\* attribute as it starts, and it starts anew for each later hop, from the send of that
\* hop; that inner walk compares before the outer one, with no history of its own.
Redirected ==
    /\ stage = "sent" /\ Len(sent) < MaxSent
    /\ location' \in Url
    /\ limit' = IF IsSession THEN client.policy.maxRedirects ELSE limit
    /\ IF IsSession /\ Walked > 1 /\ client.policy.maxRedirects = 0
       THEN Stop("TooManyRedirectsError")
       ELSE stage' = "redirected" /\ UNCHANGED outcome
    /\ UNCHANGED <<construction, follow, sent, start, next, bought>>

\* Somebody assigns session.max_redirects: between two calls, or from a thread or from
\* the consumer of the generator while a chain is being walked.
Assign ==
    /\ client # Nothing /\ IsSession
    /\ limit' \in 0..MaxLimit
    /\ bought' = IF stage = "redirected" THEN 1 + bought ELSE bought
    /\ bought < MaxSent
    /\ UNCHANGED <<construction, stage, follow, sent, start, next, location, outcome>>

\* Fault: the comparison is made with the history the response came with.
FaultCheckRedirectCap == Walked - 1 > client.policy.maxRedirects

\* The response that redirects counts with its history, against the policy's number.
CheckRedirectCap == Walked > client.policy.maxRedirects

\* requests counts the hops it has sent and takes the attribute.
TooLong == IF IsSession THEN Walked - 1 >= limit ELSE CheckRedirectCap

\* What the library would send: neither repeats a Cookie header, and both drop
\* Authorization when the origin changes.
LibraryHeaders(url) ==
    {name \in next.headers \ {"cookie"} : Crosses(next.url, url) => name # "authorization"}

\* The policy's sensitive headers go by the same question.
StrippedHeaders(headers, url) ==
    {name \in headers : Crosses(next.url, url) => name \notin client.policy.sensitive}

\* rebuild_auth and _redirect_headers, after the library's own.
NextHeaders(url) == StrippedHeaders(LibraryHeaders(url), url)

\* The next request is built, and sent unless the caller asked for redirects as they come.
BuildRedirectRequest ==
    /\ stage = "redirected"
    /\ IF TooLong
       THEN /\ Stop("TooManyRedirectsError")
            /\ UNCHANGED next
       ELSE /\ next' = [url |-> location, headers |-> NextHeaders(location)]
            /\ stage' = IF follow THEN "ready" ELSE "held"
            /\ UNCHANGED outcome
    /\ UNCHANGED <<construction, follow, sent, start, location, limit, bought>>

Next ==
    \/ Build \/ Call \/ SendNext
    \/ Send \/ Answered \/ Redirected \/ BuildRedirectRequest
    \/ Assign

Spec == Init /\ [][Next]_vars

-----------------------------------------------------------------------------
(* Properties.                                                             *)

TypeOK ==
    /\ ConstructionTypeOK
    /\ stage \in {"idle", "ready", "sent", "redirected", "held", "stopped"}
    /\ follow \in BOOLEAN
    /\ sent \in Seq([url : Url, headers : SUBSET Header,
                     route : {"pinned", "proxied", "foreign"}])
    /\ start \in Nat /\ limit \in Nat /\ bought \in Nat
    /\ next \in Request \cup {NoRequest}
    /\ location \in Url \cup {NoUrl}
    /\ outcome \in {"none", "response", "BlockedURLError", "ProxyUnsupportedError",
                    "TooManyRedirectsError"}

\* A request leaves by something that does not pin only under a policy that accepts
\* proxies: whoever named the proxy, and whether at construction, through a transport,
\* a mount or the environment, or only for a later hop of a chain.
UnpinnedOnlyByConsent ==
    \A i \in 1..Len(sent) : sent[i].route # "pinned" => client.policy.allowProxy

\* Every hop was a URL that the client's own policy permits, the hops over connections
\* already open and those of a client assembled around a transport included; only what
\* the caller's own proxy or mount carries for httpx goes unjudged.
EveryHopPermitted ==
    \A i \in 1..Len(sent) :
        (sent[i].route = "foreign" => IsSession) => sent[i].url \in client.policy.permitted

\* A call never sends more redirects than the policy allows: not one for a client of
\* httpx, and for a session one more for each time the attribute was overwritten after
\* resolve_redirects had put the policy's number there.
ChainWithinPolicy ==
    stage \in {"ready", "sent"} =>
        Walked + (IF stage = "ready" THEN 1 ELSE 0) <= 1 + client.policy.maxRedirects + bought

\* A credential the caller put on a request reaches that request's origin and its upgrade
\* to https and no other origin, however the chain comes back or is resumed by hand.
CredentialsStayHome ==
    \A i \in 1..Len(sent) :
        sent[i].headers \cap (client.policy.sensitive \cup {"authorization"}) # {} =>
            sent[i].url = sent[1].url \/ Upgrade(sent[1].url, sent[i].url)
=============================================================================
