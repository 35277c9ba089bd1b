-------------------------- MODULE ClientConstruction --------------------------
(***************************************************************************)
(* What a caller ends up with: the guarded transports and clients of       *)
(* src/ssrfguard/httpx.py, the session of src/ssrfguard/requests.py, and   *)
(* the route a request of theirs takes to a socket.                        *)
(*                                                                         *)
(* A construction either raises or leaves a client whose policy, proxies   *)
(* and transport were reconciled.  Options that only shape TLS or the pool *)
(* are left out; those that decide which policy holds and where a request  *)
(* is routed are all here.                                                 *)
(***************************************************************************)
EXTENDS Naturals, FiniteSets

CONSTANTS
    Url,         \* URLs, as their origins: [scheme, host, port]
    Header,      \* header names, in lower case
    Policy,      \* policies: see PolicyAssumption
    EnvProxied   \* URLs the environment names a proxy for, NO_PROXY considered

ASSUME UrlAssumption == Url \subseteq [scheme : STRING, host : STRING, port : Nat]

\* The fields of a Policy that are about a chain of requests.  check_url is whole in
\* UrlPolicy; here it is the set of URLs it returns for.
ASSUME PolicyAssumption ==
    /\ Policy \subseteq [allowProxy : BOOLEAN, maxRedirects : Nat,
                         permitted : SUBSET Url, sensitive : SUBSET Header]
    /\ EnvProxied \subseteq Url

VARIABLES
    environ,    \* URLs the environment has a proxy for
    transport,  \* a transport the caller built first, if any
    client,     \* the client, once there is one
    refusal     \* what the last construction raised

construction == <<environ, transport, client, refusal>>

Nothing == [class |-> "none"]

Safe == {"SafeTransport", "AsyncSafeTransport"}

\* What Client and AsyncClient pass to _policy_from as `expected`.
Expected == [Client |-> "SafeTransport", AsyncClient |-> "AsyncSafeTransport"]

Option == {"proxy", "mounts", "no trust_env", "something unknown"}

Pool == {"pinned", "proxied"}

Transport == [class : Safe, policy : Policy, pool : Pool]

BuiltClient ==
    [class : {"Client", "AsyncClient", "Session"}, policy : Policy, judge : Policy,
     pool : Pool, options : SUBSET Option]

InitConstruction ==
    /\ environ \in {{}, EnvProxied}
    /\ transport = Nothing
    /\ client = Nothing
    /\ refusal = "none"

Refuse(error) ==
    /\ refusal' = error
    /\ UNCHANGED <<environ, transport, client>>

-----------------------------------------------------------------------------
(* Transports.                                                             *)

\* A transport with a proxy keeps httpx's own proxy pool; any other gets a pool whose
\* backend pins.
PoolOf(policy, proxy) == IF proxy THEN "proxied" ELSE "pinned"

\* SafeTransport(...) and AsyncSafeTransport(...), called by somebody assembling a client.
BuildTransport ==
    /\ client = Nothing /\ transport = Nothing
    /\ \E class \in Safe, policy \in Policy, proxy \in BOOLEAN, uds \in BOOLEAN :
          \/ /\ uds
             /\ Refuse("BlockedURLError")
          \/ /\ ~uds /\ proxy /\ ~policy.allowProxy
             /\ Refuse("ProxyUnsupportedError")
          \/ /\ ~uds /\ (proxy => policy.allowProxy)
             /\ transport' = [class |-> class, policy |-> policy, pool |-> PoolOf(policy, proxy)]
             /\ refusal' = "none"
             /\ UNCHANGED <<environ, client>>

\* A transport of httpx's own, which pins nothing.
StockTransport ==
    /\ client = Nothing /\ transport = Nothing
    /\ transport' = [class |-> "HTTPTransport"]
    /\ UNCHANGED <<environ, client, refusal>>

-----------------------------------------------------------------------------
(* Client and AsyncClient.                                                 *)

\* The policy in force, as a set: empty when the arguments do not name exactly one.
\* policies is the policy argument, empty when none was passed; given says whether the
\* transport was.
PolicyFrom(class, policies, resolver, given) ==
    IF ~given THEN policies
    ELSE IF policies # {} \/ resolver \/ transport.class # Expected[class] THEN {}
    ELSE {transport.policy}

\* The proxy that would carry this client's requests: an explicit one, a mount, or one of
\* the environment unless it is switched off.
ConfiguredProxy(options) ==
    \/ {"proxy", "mounts"} \cap options # {}
    \/ "no trust_env" \notin options /\ environ # {}

\* The client around the transport it was given, which then judges the URLs, or around
\* one of its own.
ClientAround(class, policy, given, options) ==
    [class |-> class, policy |-> policy,
     judge |-> IF given THEN transport.policy ELSE policy,
     pool |-> IF given THEN transport.pool ELSE PoolOf(policy, FALSE),
     options |-> options]

\* One call: one policy, known options, and no proxy the policy does not permit.
ClientInit(class, policies, resolver, given, options) ==
    LET chosen == PolicyFrom(class, policies, resolver, given)
    IN  \/ /\ chosen = {} \/ "something unknown" \in options
           /\ Refuse("TypeError")
        \/ \E policy \in chosen :
              /\ "something unknown" \notin options
              /\ ConfiguredProxy(options) /\ ~policy.allowProxy
              /\ Refuse("ProxyUnsupportedError")
        \/ \E policy \in chosen :
              /\ "something unknown" \notin options
              /\ ConfiguredProxy(options) => policy.allowProxy
              /\ client' = ClientAround(class, policy, given, options)
              /\ refusal' = "none"
              /\ UNCHANGED <<environ, transport>>

BuildClient ==
    /\ client = Nothing
    /\ \E class \in DOMAIN Expected, policies \in {{}} \cup {{p} : p \in Policy},
          resolver \in BOOLEAN, given \in {FALSE, transport # Nothing},
          options \in SUBSET Option :
          ClientInit(class, policies, resolver, given, options)

\* Session(policy=...): a SafeAdapter on both prefixes.  Proxies are attributes of the
\* session and of the environment, asked about at each request.
BuildSession ==
    /\ client = Nothing /\ transport = Nothing
    /\ \E policy \in Policy, options \in SUBSET {"proxy", "no trust_env"} :
          client' = [class |-> "Session", policy |-> policy, judge |-> policy,
                     pool |-> PoolOf(policy, FALSE), options |-> options]
    /\ refusal' = "none"
    /\ UNCHANGED <<environ, transport>>

Construct == BuildTransport \/ StockTransport \/ BuildClient \/ BuildSession

-----------------------------------------------------------------------------
(* Where a request goes.                                                   *)

IsSession == client.class = "Session"

\* select_proxy, over the merged mapping of session and environment.
SelectProxy(url) ==
    \/ "proxy" \in client.options
    \/ "no trust_env" \notin client.options /\ url \in environ

\* _transport_for_url prefers a mount and an explicit proxy to the client's transport; the
\* environment is not read by a client that has a transport.  requests picks its proxy
\* manager or the adapter's pinning pools.
Route(url) ==
    IF IsSession THEN IF SelectProxy(url) THEN "foreign" ELSE client.pool
    ELSE IF \/ "proxy" \in client.options
            \/ "mounts" \in client.options /\ url.scheme = "http"
         THEN "foreign"
    ELSE client.pool

ConstructionTypeOK ==
    /\ environ \subseteq Url
    /\ transport \in Transport \cup {Nothing, [class |-> "HTTPTransport"]}
    /\ client \in BuiltClient \cup {Nothing}
    /\ refusal \in {"none", "TypeError", "BlockedURLError", "ProxyUnsupportedError"}
=============================================================================
