---------------------------- MODULE RedirectsProofs ----------------------------
(***************************************************************************)
(* What holds of every client this package builds and of every chain it    *)
(* walks, for any set of URLs and any policies.                            *)
(*                                                                         *)
(* The properties speak of requests that were sent.  What keeps them is    *)
(* what holds of the request that is next (InChain, Wearing), of the       *)
(* number a session compares with (Capped) and of the client since it was  *)
(* built (Reconciled).                                                     *)
(***************************************************************************)
EXTENDS Redirects, Integers, TLAPS

Credentials == client.policy.sensitive \cup {"authorization"}

Near(home, url) == url = home \/ Upgrade(home, url)

\* One policy, and a way past the pinning pool only under a policy that accepts proxies.
Reconciled ==
    /\ transport \in Transport /\ transport.pool = "proxied" => transport.policy.allowProxy
    /\ client # Nothing =>
          /\ client.judge = client.policy
          /\ client.pool = "proxied" => client.policy.allowProxy
          /\ ~IsSession /\ {"proxy", "mounts"} \cap client.options # {} =>
                client.policy.allowProxy

\* Where the chain is says what there is of it.
InChain ==
    /\ client = Nothing => sent = << >> /\ stage = "idle"
    /\ start <= Len(sent)
    /\ stage \in {"ready", "sent", "redirected", "held"} => next \in Request
    /\ stage \in {"sent", "redirected", "held"} => sent # << >>
    /\ stage = "redirected" => location \in Url

\* The number compared with is the policy's, or an assignment since paid for one hop more.
Capped ==
    /\ stage = "ready" => Walked <= client.policy.maxRedirects + bought
    /\ stage \in {"sent", "redirected"} =>
          Walked <= 1 + client.policy.maxRedirects + bought
    /\ stage = "redirected" /\ IsSession =>
          \/ limit = client.policy.maxRedirects
          \/ Walked <= client.policy.maxRedirects + bought

\* A request still wearing a credential is near where the caller put it on.
Wearing ==
    stage \in {"ready", "sent", "redirected", "held"} /\ sent # << >> =>
        (next.headers \cap Credentials # {} => Near(sent[1].url, next.url))

IInv ==
    /\ TypeOK /\ Reconciled /\ InChain /\ Capped /\ Wearing
    /\ UnpinnedOnlyByConsent /\ EveryHopPermitted /\ CredentialsStayHome

-----------------------------------------------------------------------------
\* A policy's fields, which the assumption gives their types.
LEMMA PolicyFields ==
    ASSUME NEW p \in Policy
    PROVE  /\ p.allowProxy \in BOOLEAN /\ p.maxRedirects \in Nat
           /\ p.permitted \subseteq Url /\ p.sensitive \subseteq Header
<1> QED  BY PolicyAssumption

\* Nothing is told from a transport and from a client by its fields.
LEMMA NothingIsNoRecord ==
    /\ Nothing \notin BuiltClient /\ Nothing \notin Transport
    /\ [class |-> "HTTPTransport"] \notin Transport
    /\ NoUrl \notin Url
<1>1. Nothing \notin BuiltClient
  <2>1. SUFFICES ASSUME Nothing \in BuiltClient PROVE FALSE
    OBVIOUS
  <2>2. Nothing.class \in {"Client", "AsyncClient", "Session"}
    BY <2>1 DEF BuiltClient
  <2> QED  BY <2>2 DEF Nothing
<1>2. Nothing \notin Transport
  <2>1. SUFFICES ASSUME Nothing \in Transport PROVE FALSE
    OBVIOUS
  <2>2. Nothing.class \in Safe
    BY <2>1 DEF Transport
  <2> QED  BY <2>2 DEF Nothing, Safe
<1>3. [class |-> "HTTPTransport"] \notin Transport
  <2>1. SUFFICES ASSUME [class |-> "HTTPTransport"] \in Transport PROVE FALSE
    OBVIOUS
  <2>2. [class |-> "HTTPTransport"].class \in Safe
    BY <2>1 DEF Transport
  <2> QED  BY <2>2 DEF Safe
<1>4. NoUrl \notin Url
  <2>1. SUFFICES ASSUME NoUrl \in Url PROVE FALSE
    OBVIOUS
  <2>2. DOMAIN NoUrl = {"scheme", "host", "port"}
    BY <2>1, UrlAssumption
  <2> QED  BY <2>2 DEF NoUrl
<1> QED  BY <1>1, <1>2, <1>3, <1>4

LEMMA Initially == Init => IInv
<1> SUFFICES ASSUME Init PROVE IInv
  OBVIOUS
<1> USE DEF Init, InitConstruction
<1>1. TypeOK
  BY PolicyAssumption DEF TypeOK, ConstructionTypeOK, Nothing, NoRequest, NoUrl
<1>2. Reconciled
  BY NothingIsNoRecord DEF Reconciled
<1> QED  BY <1>1, <1>2 DEF IInv, InChain, Capped, Wearing, Walked, UnpinnedOnlyByConsent,
             EveryHopPermitted, CredentialsStayHome

-----------------------------------------------------------------------------
\* A construction leaves a client in which everything is reconciled.
LEMMA Reconciling ==
    ASSUME TypeOK, Reconciled, Construct
    PROVE  ConstructionTypeOK' /\ Reconciled' /\ client = Nothing
<1> USE NothingIsNoRecord DEF TypeOK, ConstructionTypeOK, IsSession
<1>0. client = Nothing
  BY DEF Construct, BuildTransport, StockTransport, BuildClient, BuildSession
<1>1. CASE BuildTransport
  <2>1. PICK class \in Safe, policy \in Policy, proxy \in BOOLEAN, uds \in BOOLEAN :
           \/ Refuse("BlockedURLError")
           \/ Refuse("ProxyUnsupportedError")
           \/ /\ proxy => policy.allowProxy
              /\ transport' = [class |-> class, policy |-> policy, pool |-> PoolOf(policy, proxy)]
              /\ refusal' = "none"
              /\ UNCHANGED <<environ, client>>
    BY <1>1 DEF BuildTransport
  <2>2. CASE Refuse("BlockedURLError") \/ Refuse("ProxyUnsupportedError")
    BY <1>0, <2>2 DEF Refuse, Reconciled
  <2>3. CASE /\ proxy => policy.allowProxy
             /\ transport' = [class |-> class, policy |-> policy, pool |-> PoolOf(policy, proxy)]
             /\ refusal' = "none"
             /\ UNCHANGED <<environ, client>>
    <3>1. transport' \in Transport /\ (transport'.pool = "proxied" => transport'.policy.allowProxy)
      BY <2>3 DEF Transport, Pool, PoolOf
    <3>2. refusal' = "none" /\ environ' = environ /\ client' = Nothing
      BY <1>0, <2>3
    <3> QED  BY <1>0, <3>1, <3>2 DEF Reconciled
  <2> QED  BY <2>1, <2>2, <2>3
<1>2. CASE StockTransport
  BY <1>0, <1>2 DEF StockTransport, Reconciled
<1>3. CASE BuildClient
  <2>1. CASE Refuse("TypeError") \/ Refuse("ProxyUnsupportedError")
    BY <1>0, <2>1 DEF Refuse, Reconciled
  <2>2. ASSUME NEW class \in DOMAIN Expected,
               NEW policies \in {{}} \cup {{p} : p \in Policy},
               NEW resolver \in BOOLEAN, NEW given \in {FALSE, transport # Nothing},
               NEW options \in SUBSET Option,
               NEW policy \in PolicyFrom(class, policies, resolver, given),
               ConfiguredProxy(options) => policy.allowProxy,
               client' = ClientAround(class, policy, given, options),
               refusal' = "none", UNCHANGED <<environ, transport>>
        PROVE  ConstructionTypeOK' /\ Reconciled'
    <3>1. CASE ~given
      <4>1. policy \in Policy
        BY <3>1 DEF PolicyFrom
      <4>2. client' \in BuiltClient
        BY <2>2, <3>1, <4>1 DEF BuiltClient, ClientAround, Expected, PoolOf, Pool
      <4>3. {"proxy", "mounts"} \cap options # {} => policy.allowProxy
        BY <2>2 DEF ConfiguredProxy
      <4> QED  BY <2>2, <3>1, <4>1, <4>2, <4>3 DEF Reconciled, ClientAround, PoolOf
    <3>2. CASE given
      <4>1. policy = transport.policy /\ transport.class = Expected[class]
        BY <3>2 DEF PolicyFrom
      <4>2. transport \in Transport
        BY <4>1 DEF Expected, Nothing
      <4>3. client' \in BuiltClient
        BY <2>2, <3>2, <4>1, <4>2 DEF BuiltClient, ClientAround, Expected, Transport
      <4>4. {"proxy", "mounts"} \cap options # {} => policy.allowProxy
        BY <2>2 DEF ConfiguredProxy
      <4> QED  BY <2>2, <3>2, <4>1, <4>2, <4>3, <4>4 DEF Reconciled, ClientAround
    <3> QED  BY <3>1, <3>2
  <2>3. client = Nothing
    BY <1>3 DEF BuildClient
  <2>4. PICK class \in DOMAIN Expected, policies \in {{}} \cup {{p} : p \in Policy},
             resolver \in BOOLEAN, given \in {FALSE, transport # Nothing},
             options \in SUBSET Option :
           ClientInit(class, policies, resolver, given, options)
    BY <1>3 DEF BuildClient
  <2>5. CASE Refuse("TypeError") \/ Refuse("ProxyUnsupportedError")
    BY <2>1, <2>3, <2>5
  <2>6. CASE \E policy \in PolicyFrom(class, policies, resolver, given) :
                /\ ConfiguredProxy(options) => policy.allowProxy
                /\ client' = ClientAround(class, policy, given, options)
                /\ refusal' = "none"
                /\ UNCHANGED <<environ, transport>>
    BY <2>2, <2>3, <2>6
  <2> QED  BY <2>4, <2>5, <2>6 DEF ClientInit
<1>4. CASE BuildSession
  <2>1. PICK policy \in Policy, options \in SUBSET {"proxy", "no trust_env"} :
           client' = [class |-> "Session", policy |-> policy, judge |-> policy,
                      pool |-> PoolOf(policy, FALSE), options |-> options]
    BY <1>4 DEF BuildSession
  <2>2. client' \in BuiltClient
    BY <2>1 DEF BuiltClient, PoolOf, Pool, Option
  <2>3. client = Nothing /\ refusal' = "none" /\ UNCHANGED <<environ, transport>>
    BY <1>4 DEF BuildSession
  <2> QED  BY <2>1, <2>2, <2>3 DEF Reconciled, PoolOf
<1> QED  BY <1>0, <1>1, <1>2, <1>3, <1>4 DEF Construct

-----------------------------------------------------------------------------
(* One lemma per action.                                                   *)

LEMMA StepBuild ==
    ASSUME IInv, Build
    PROVE  IInv'
<1>1. ConstructionTypeOK' /\ Reconciled' /\ client = Nothing
  BY Reconciling DEF IInv, Build
<1>2. sent = << >> /\ stage = "idle"
  BY <1>1 DEF IInv, InChain
<1>3. limit' \in Nat
  <2>1. client' # Nothing => client'.policy \in Policy
    BY <1>1 DEF ConstructionTypeOK, BuiltClient
  <2> QED  BY <2>1, PolicyFields DEF Build, IInv, TypeOK
<1>4. TypeOK'
  BY <1>1, <1>3 DEF IInv, TypeOK, Build, Request
<1> QED  BY <1>1, <1>2, <1>4 DEF IInv, Build, InChain, Capped, Wearing, Walked,
             UnpinnedOnlyByConsent, EveryHopPermitted, CredentialsStayHome

LEMMA StepCall ==
    ASSUME IInv, Call
    PROVE  IInv'
<1>1. PICK request \in Request, following \in BOOLEAN : next' = request /\ follow' = following
  BY DEF Call
<1>2. TypeOK'
  BY <1>1 DEF IInv, TypeOK, Call, construction, ConstructionTypeOK, Request
<1>3. Reconciled'
  BY DEF IInv, Reconciled, Call, construction, IsSession
<1>4. client \in BuiltClient
  BY DEF IInv, TypeOK, ConstructionTypeOK, Call
<1>5. client.policy.maxRedirects \in Nat
  BY <1>4, PolicyFields DEF BuiltClient
<1>6. InChain' /\ Capped' /\ Wearing'
  BY <1>1, <1>5 DEF Call, construction, InChain, Capped, Wearing, Walked
<1> QED  BY <1>2, <1>3, <1>6 DEF IInv, Call, UnpinnedOnlyByConsent, EveryHopPermitted,
             CredentialsStayHome

LEMMA StepSendNext ==
    ASSUME IInv, SendNext
    PROVE  IInv'
<1> USE DEF SendNext, construction
<1>1. TypeOK'
  BY DEF IInv, TypeOK, ConstructionTypeOK, Request
<1>2. client \in BuiltClient
  BY DEF IInv, TypeOK, ConstructionTypeOK, InChain
<1>3. client.policy.maxRedirects \in Nat
  BY <1>2, PolicyFields DEF BuiltClient
<1>4. InChain' /\ Capped' /\ Wearing'
  BY <1>3 DEF IInv, TypeOK, InChain, Capped, Wearing, Walked, Credentials
<1> QED  BY <1>1, <1>4 DEF IInv, Reconciled, IsSession, UnpinnedOnlyByConsent,
             EveryHopPermitted, CredentialsStayHome

\* A request of a client that Reconciled holds of leaves unpinned by consent only.
LEMMA RouteByConsent ==
    ASSUME IInv, client # Nothing, NEW url, ~ProxyRefused(url), Route(url) # "pinned"
    PROVE  client.policy.allowProxy
<1>1. client.policy.allowProxy \in BOOLEAN /\ client.pool \in Pool
  BY PolicyFields DEF IInv, TypeOK, ConstructionTypeOK, BuiltClient
<1>2. CASE IsSession
  BY <1>1, <1>2 DEF Route, ProxyRefused, IInv, Reconciled, Pool
<1>3. CASE ~IsSession
  BY <1>1, <1>3 DEF Route, IInv, Reconciled, Pool
<1> QED  BY <1>2, <1>3

LEMMA RouteType ==
    ASSUME IInv, client # Nothing, NEW url
    PROVE  Route(url) \in {"pinned", "proxied", "foreign"}
<1> QED  BY DEF IInv, TypeOK, ConstructionTypeOK, BuiltClient, Pool, Route

LEMMA StepSend ==
    ASSUME IInv, Send
    PROVE  IInv'
<1> DEFINE request == [url |-> next.url, headers |-> next.headers, route |-> Route(next.url)]
<1>1. client # Nothing /\ next \in Request /\ client.policy.maxRedirects \in Nat
  <2>1. client # Nothing /\ next \in Request
    BY DEF IInv, InChain, Send
  <2>2. client \in BuiltClient
    BY <2>1 DEF IInv, TypeOK, ConstructionTypeOK
  <2> QED  BY <2>1, <2>2, PolicyFields DEF BuiltClient
<1>2. CASE stage' = "stopped" /\ sent' = sent
  <2>1. TypeOK'
    BY <1>2 DEF IInv, TypeOK, ConstructionTypeOK, construction, Send, Stop, Request
  <2> QED  BY <1>1, <1>2, <2>1 DEF IInv, Send, construction, Reconciled, IsSession, InChain, Capped,
               Wearing, Walked, UnpinnedOnlyByConsent, EveryHopPermitted, CredentialsStayHome
<1>3. CASE /\ Judged(next.url) /\ ~ProxyRefused(next.url)
           /\ sent' = Append(sent, request)
           /\ stage' = "sent" /\ outcome' = outcome
  <2>1. /\ sent \in Seq([url : Url, headers : SUBSET Header,
                          route : {"pinned", "proxied", "foreign"}])
        /\ request \in [url : Url, headers : SUBSET Header,
                         route : {"pinned", "proxied", "foreign"}]
    BY <1>1, RouteType DEF IInv, TypeOK, Request
  <2>2. /\ Len(sent') = Len(sent) + 1 /\ sent' # << >> /\ sent'[Len(sent')] = request
        /\ \A i \in 1..Len(sent) : sent'[i] = sent[i]
    BY <1>3, <2>1
  <2>3. TypeOK'
    BY <1>3, <2>1 DEF IInv, TypeOK, ConstructionTypeOK, construction, Send, Request
  <2>4. Reconciled'
    BY DEF IInv, Reconciled, Send, construction, IsSession
  <2>5. InChain' /\ Capped'
    BY <1>1, <1>3, <2>1, <2>2 DEF IInv, InChain, Capped, Send, construction, TypeOK, Walked
  <2>6. Wearing' /\ CredentialsStayHome'
    <3>1. sent = << >> => sent'[1].url = next.url
      BY <2>1, <2>2
    <3>2. sent # << >> => sent'[1] = sent[1]
      BY <2>1, <2>2
    <3>3. next.headers \cap Credentials # {} => Near(sent'[1].url, next.url)
      BY <3>1, <3>2 DEF IInv, Wearing, Send, Near
    <3>4. Wearing'
      BY <3>3 DEF Wearing, Send, construction, Credentials, Near, Upgrade
    <3>5. CredentialsStayHome'
      <4> SUFFICES ASSUME NEW i \in 1..Len(sent'),
                          sent'[i].headers \cap Credentials # {}
                   PROVE  Near(sent'[1].url, sent'[i].url)
        BY DEF CredentialsStayHome, Credentials, Near, Send, construction, Upgrade
      <4>1. CASE i = Len(sent')
        BY <4>1, <2>2, <3>3
      <4>2. CASE i \in 1..Len(sent)
        BY <4>2, <2>1, <2>2, <3>2 DEF IInv, CredentialsStayHome, Credentials, Near
      <4> QED  BY <4>1, <4>2, <2>1, <2>2
    <3> QED  BY <3>4, <3>5
  <2>7. UnpinnedOnlyByConsent'
    BY <1>1, <1>3, <2>1, <2>2, RouteByConsent DEF IInv, UnpinnedOnlyByConsent, Send, construction
  <2>8. EveryHopPermitted'
    <3>1. (Route(next.url) = "foreign" => IsSession) => next.url \in client.policy.permitted
      BY <1>1, <1>3 DEF Judged, HandleRequest, GetAdapter, IInv, Reconciled
    <3> QED  BY <3>1, <2>1, <2>2 DEF IInv, EveryHopPermitted, Send, construction, IsSession
  <2> QED  BY <2>3, <2>4, <2>5, <2>6, <2>7, <2>8 DEF IInv
<1> QED  BY <1>2, <1>3 DEF Send, Stop

\* What a step that sends nothing and builds nothing leaves to be shown.
LEMMA Unsent ==
    ASSUME IInv, UNCHANGED <<construction, sent, start>>,
           TypeOK', InChain', Capped', Wearing'
    PROVE  IInv'
<1> QED  BY DEF IInv, construction, Reconciled, IsSession, UnpinnedOnlyByConsent, EveryHopPermitted,
             CredentialsStayHome

LEMMA StepAnswered ==
    ASSUME IInv, Answered
    PROVE  IInv'
<1>1. TypeOK'
  BY DEF IInv, TypeOK, ConstructionTypeOK, construction, Answered, Stop, Request
<1>2. InChain' /\ Capped' /\ Wearing'
  BY DEF IInv, Answered, Stop, construction, InChain, Capped, Wearing
<1> QED  BY <1>1, <1>2, Unsent DEF Answered

LEMMA StepRedirected ==
    ASSUME IInv, Redirected
    PROVE  IInv'
<1>1. client # Nothing /\ client.policy.maxRedirects \in Nat
  <2>1. client # Nothing /\ client \in BuiltClient
    BY DEF IInv, TypeOK, ConstructionTypeOK, InChain, Redirected
  <2> QED  BY <2>1, PolicyFields DEF BuiltClient
<1>2. stage' \in {"redirected", "stopped"}
      /\ outcome' \in {"none", "response", "BlockedURLError", "ProxyUnsupportedError",
                      "TooManyRedirectsError"}
  BY DEF Redirected, Stop, IInv, TypeOK
<1>3. TypeOK'
  BY <1>1, <1>2 DEF IInv, TypeOK, ConstructionTypeOK, construction, Redirected, Request
<1>4. InChain' /\ Capped' /\ Wearing'
  BY <1>1, <1>2 DEF IInv, TypeOK, Redirected, construction, InChain, Capped, Wearing, Walked,
                    IsSession, Credentials
<1> QED  BY <1>3, <1>4, Unsent DEF Redirected

LEMMA StepAssign ==
    ASSUME IInv, Assign
    PROVE  IInv'
<1>1. limit' \in Nat /\ bought' \in Nat /\ bought' >= bought
  BY BoundAssumption DEF Assign, IInv, TypeOK
<1>2. client.policy.maxRedirects \in Nat
  <2>1. client \in BuiltClient
    BY DEF IInv, TypeOK, ConstructionTypeOK, Assign
  <2> QED  BY <2>1, PolicyFields DEF BuiltClient
<1>3. TypeOK'
  BY <1>1 DEF IInv, TypeOK, ConstructionTypeOK, construction, Assign, Request
<1>4. InChain' /\ Wearing'
  BY DEF IInv, Assign, construction, InChain, Wearing, Credentials
<1>5. Capped'
  <2>1. Walked \in Int /\ bought \in Nat
    BY DEF IInv, TypeOK, Walked
  <2>2. stage' = stage /\ Walked' = Walked /\ client' = client
    BY DEF Assign, Walked, construction
  <2>3. stage = "redirected" => bought' = 1 + bought
    BY DEF Assign
  <2>4. CASE stage = "redirected"
    BY <1>1, <1>2, <2>1, <2>2, <2>3, <2>4 DEF IInv, Capped
  <2>5. CASE stage # "redirected"
    BY <1>1, <1>2, <2>1, <2>2, <2>5 DEF IInv, Capped
  <2> QED  BY <2>4, <2>5
<1> QED  BY <1>3, <1>4, <1>5, Unsent DEF Assign

\* Two hops, neither of which crosses, end near where they began.
LEMMA NearAgain ==
    ASSUME NEW home, NEW here, NEW there, Near(home, here), ~Crosses(here, there)
    PROVE  Near(home, there)
<1> QED  BY DEF Near, Crosses, SameOrigin, Upgrade

LEMMA StepBuildRedirectRequest ==
    ASSUME IInv, BuildRedirectRequest
    PROVE  IInv'
<1>1. client.policy.maxRedirects \in Nat
  <2>1. client \in BuiltClient
    BY DEF IInv, TypeOK, ConstructionTypeOK, InChain, BuildRedirectRequest
  <2> QED  BY <2>1, PolicyFields DEF BuiltClient
<1>2. CASE TooLong
  <2>1. TypeOK'
    BY <1>2 DEF IInv, TypeOK, ConstructionTypeOK, construction, BuildRedirectRequest, Stop, Request
  <2>2. InChain' /\ Capped' /\ Wearing'
    BY <1>2 DEF IInv, BuildRedirectRequest, Stop, construction, InChain, Capped, Wearing
  <2> QED  BY <2>1, <2>2, Unsent DEF BuildRedirectRequest
<1>3. CASE ~TooLong
  <2>1. /\ next' = [url |-> location, headers |-> NextHeaders(location)]
        /\ stage' \in {"ready", "held"}
    BY <1>3 DEF BuildRedirectRequest
  <2>2. next' \in Request
    BY <2>1 DEF IInv, InChain, BuildRedirectRequest, NextHeaders, StrippedHeaders,
                            LibraryHeaders, Request
  <2>3. TypeOK'
    BY <1>3, <2>2 DEF IInv, TypeOK, ConstructionTypeOK, construction, BuildRedirectRequest, Request
  <2>4. InChain'
    BY <2>1, <2>2 DEF IInv, InChain, BuildRedirectRequest, construction
  <2>5. Capped'
    <3>1. Walked \in Int /\ limit \in Nat /\ bought \in Nat
      BY DEF IInv, TypeOK, Walked
    <3>2. Walked <= client.policy.maxRedirects + bought
      BY <1>1, <1>3, <3>1 DEF IInv, Capped, BuildRedirectRequest, TooLong,
                                   CheckRedirectCap
    <3>3. Walked' = Walked /\ client' = client /\ bought' = bought
      BY DEF Walked, BuildRedirectRequest, construction
    <3> QED  BY <2>1, <3>2, <3>3 DEF Capped
  <2>6. Wearing'
    <3> SUFFICES ASSUME sent # << >>, NextHeaders(location) \cap Credentials # {}
                 PROVE  Near(sent[1].url, location)
      BY <2>1 DEF Wearing, BuildRedirectRequest, construction, Credentials, Near, Upgrade
    <3>1. next.headers \cap Credentials # {} /\ ~Crosses(next.url, location)
      BY DEF NextHeaders, StrippedHeaders, LibraryHeaders, Credentials
    <3>2. Near(sent[1].url, next.url)
      BY <3>1 DEF IInv, Wearing, BuildRedirectRequest
    <3> QED  BY <3>1, <3>2, NearAgain
  <2> QED  BY <2>3, <2>4, <2>5, <2>6, Unsent DEF BuildRedirectRequest
<1> QED  BY <1>2, <1>3

-----------------------------------------------------------------------------
\* The invariant is inductive, and it holds of every behaviour.
THEOREM Invariant == Spec => []IInv
<1>1. IInv /\ [Next]_vars => IInv'
  <2> SUFFICES ASSUME IInv, [Next]_vars PROVE IInv'
    OBVIOUS
  <2>1. CASE Build  BY <2>1, StepBuild
  <2>2. CASE Call  BY <2>2, StepCall
  <2>3. CASE SendNext  BY <2>3, StepSendNext
  <2>4. CASE Send  BY <2>4, StepSend
  <2>5. CASE Answered  BY <2>5, StepAnswered
  <2>6. CASE Redirected  BY <2>6, StepRedirected
  <2>7. CASE BuildRedirectRequest  BY <2>7, StepBuildRedirectRequest
  <2>8. CASE Assign  BY <2>8, StepAssign
  <2>9. CASE UNCHANGED vars
    BY <2>9 DEF vars, construction, chain, IInv, TypeOK, ConstructionTypeOK, Request, Reconciled,
                IsSession, InChain, Capped, Wearing, Walked, Credentials, UnpinnedOnlyByConsent,
                EveryHopPermitted, CredentialsStayHome
  <2> QED  BY <2>1, <2>2, <2>3, <2>4, <2>5, <2>6, <2>7, <2>8, <2>9 DEF Next
<1> QED  BY <1>1, Initially, PTL DEF Spec

\* The cap as the runs state it, from the invariant: what is ready is one more than what
\* was sent.
LEMMA CapFollows ==
    ASSUME IInv
    PROVE  ChainWithinPolicy
<1>1. stage \in {"ready", "sent"} => client.policy.maxRedirects \in Nat
  <2>1. stage \in {"ready", "sent"} => client \in BuiltClient
    BY DEF IInv, TypeOK, ConstructionTypeOK, InChain
  <2> QED  BY <2>1, PolicyFields DEF BuiltClient
<1> QED  BY <1>1 DEF IInv, TypeOK, Capped, ChainWithinPolicy, Walked

\* Every variable keeps its type.
THEOREM TypeCorrect == Spec => []TypeOK
<1>1. IInv => TypeOK
  BY DEF IInv
<1> QED  BY <1>1, Invariant, PTL

\* Nothing leaves unpinned without the policy's consent, however the proxy was named.
THEOREM ConsentToProxies == Spec => []UnpinnedOnlyByConsent
<1>1. IInv => UnpinnedOnlyByConsent
  BY DEF IInv
<1> QED  BY <1>1, Invariant, PTL

\* Every hop is one the client's own policy permits.
THEOREM HopsPermitted == Spec => []EveryHopPermitted
<1>1. IInv => EveryHopPermitted
  BY DEF IInv
<1> QED  BY <1>1, Invariant, PTL

\* No chain outgrows the policy's number by more hops than assignments bought.
THEOREM ChainsBounded == Spec => []ChainWithinPolicy
<1>1. IInv => ChainWithinPolicy
  BY CapFollows
<1> QED  BY <1>1, Invariant, PTL

\* A caller's credential stays with the origin it was put on for.
THEOREM CredentialsKept == Spec => []CredentialsStayHome
<1>1. IInv => CredentialsStayHome
  BY DEF IInv
<1> QED  BY <1>1, Invariant, PTL
=============================================================================
