---------------------------- MODULE PinnedConnect ----------------------------
(***************************************************************************)
(* From a name to a connected socket, synchronously: resolve() in          *)
(* src/ssrfguard/_resolve.py, connect(), _open() and _verify_peer() in     *)
(* _connect.py, and the two seams that call them, SafeBackend.connect_tcp  *)
(* in httpx.py and _pinned_socket in requests.py.                          *)
(*                                                                         *)
(* One request is followed from the lookup to the socket or the error the  *)
(* client library sees.  Around it: the resolver, which may answer with    *)
(* anything and with something else the next time; the network, where an   *)
(* attempt may be accepted, refused, left to time out, or delivered to     *)
(* somewhere else; the client library, which retries what it takes for a   *)
(* connection error; and callers of the public connect(), which may hand   *)
(* it addresses that no resolve() produced.                                *)
(***************************************************************************)
EXTENDS Naturals, Sequences

CONSTANTS
    Ip,            \* parsed addresses
    Permitted,     \* those policy.check_address accepts
    Scope,         \* the rest of a sockaddr: port, flow label, scope identifier
    Unreadable,    \* a resolver row whose address does not parse
    MaxAttempts,   \* policy.max_connection_attempts
    MaxRows,       \* bound: rows in one answer, addresses in one sequence
    MaxRetries     \* bound: retries the client library is configured for

\* One row of getaddrinfo, and one Address: the sockaddr as it came.
Answer == [ip : Ip, scope : Scope]
Row    == Answer \cup {Unreadable}

ASSUME PolicyAssumption ==
    /\ Permitted \subseteq Ip
    /\ MaxAttempts \in Nat \ {0}
    /\ Unreadable \notin Answer

ASSUME BoundAssumption ==
    /\ MaxRows \in Nat
    /\ MaxRetries \in Nat

\* What does not change while a request runs: policy.on_partial_block, and who
\* calls, one of the two client libraries or a direct caller.
Config == [onPartial : {"reject", "drop"}, client : {"httpx", "requests", "none"}]

VARIABLES
    config,        \* the policy and the caller of this execution
    pc,            \* where the call is
    source,        \* who assembled the addresses: "resolve" or "caller"
    rows,          \* what the one lookup of this call answered, or the caller gave
    at,            \* rows consumed by the loop in progress
    answers,       \* resolve: the distinct answers, in order
    permitted,     \* resolve: permitted so far; connect: the argument `addresses`
    denied,        \* resolve: answers the policy refused
    tried,         \* connect: the attempts that have ended, with their results
    peer,          \* the address the kernel reports for the connected socket
    openSockets,   \* sockets created and not closed by this request
    outcome,       \* what the call returned or raised
    told,          \* what the observer has been told of this call
    refused,       \* refusals raised since this request began
    retries        \* retries the client library has made of this request

resolving  == <<source, rows, answers, denied>>
connecting == <<tried, peer, openSockets>>
request    == <<config, refused, retries>>
vars == <<pc, at, permitted, outcome, told, resolving, connecting, request>>

NoPeer == "no peer"

-----------------------------------------------------------------------------
(* Outcomes and what the client library is shown of them.                  *)

Refusals == {"BlockedAddressError"}

Raised == {"gaierror", "ValueError", "TimeoutError", "OSError", "interrupted"} \cup Refusals

\* Fault: BlockedAddressError made an OSError, so the seams translate it.
FaultRefusalIsOSError(error) ==
    CASE config.client = "httpx" /\ error = "TimeoutError" -> "ConnectTimeout"
      [] config.client = "httpx" /\ error \in {"OSError", "gaierror", "BlockedAddressError"}
            -> "ConnectError"
      [] OTHER -> error

\* The except clauses of connect_tcp and of _pinned_socket.  TimeoutError and
\* gaierror are OSErrors; BlockedAddressError and ValueError are not.
Surfaced(error) ==
    CASE config.client = "httpx" /\ error = "TimeoutError" -> "ConnectTimeout"
      [] config.client = "httpx" /\ error \in {"OSError", "gaierror"} -> "ConnectError"
      [] config.client = "requests" /\ error = "gaierror" -> "NameResolutionError"
      [] config.client = "requests" /\ error = "TimeoutError" -> "ConnectTimeoutError"
      [] config.client = "requests" /\ error = "OSError" -> "NewConnectionError"
      [] OTHER -> error

\* What httpcore's and urllib3's retry loops take for a connection that failed.
Retryable == {"ConnectTimeout", "ConnectError",
              "NameResolutionError", "ConnectTimeoutError", "NewConnectionError"}

Finish(result) ==
    /\ pc' = "done"
    /\ outcome' = result
    /\ refused' = refused + (IF result \in Refusals THEN 1 ELSE 0)
    /\ UNCHANGED <<config, retries>>

Tell(stage, verdict, ip) ==
    told' = Append(told, [stage |-> stage, outcome |-> verdict, ip |-> ip])

-----------------------------------------------------------------------------
(* resolve().                                                              *)

Init ==
    /\ config \in Config
    /\ pc = "idle" /\ at = 0 /\ permitted = << >> /\ outcome = "none" /\ told = << >>
    /\ source = "resolve" /\ rows = << >> /\ answers = << >> /\ denied = {}
    /\ tried = << >> /\ peer = NoPeer /\ openSockets = 0
    /\ refused = 0 /\ retries = 0

\* A call starts with nothing of an earlier one.  A socket a previous request was
\* given is the client library's by now.
Fresh ==
    /\ at' = 0 /\ outcome' = "none" /\ told' = << >>
    /\ answers' = << >> /\ denied' = {}
    /\ tried' = << >> /\ peer' = NoPeer /\ openSockets' = 0
    /\ UNCHANGED config

\* The library asks its seam for a connection to a new origin.
Begin ==
    /\ pc \in {"idle", "done"}
    /\ Fresh
    /\ pc' = "lookup" /\ source' = "resolve" /\ rows' = << >> /\ permitted' = << >>
    /\ refused' = 0 /\ retries' = 0

\* The library asks again after an error its retry loop handles.  The seam starts
\* over: nothing of the earlier lookup survives.
Retry ==
    /\ pc = "done"
    /\ outcome \in Raised
    /\ Surfaced(outcome) \in Retryable
    /\ retries < MaxRetries
    /\ Fresh
    /\ pc' = "lookup" /\ source' = "resolve" /\ rows' = << >> /\ permitted' = << >>
    /\ retries' = retries + 1
    /\ UNCHANGED refused

\* The one lookup, answered.
Lookup ==
    /\ pc = "lookup"
    /\ \E n \in 0..MaxRows : \E given \in [1..n -> Row] : rows' = given
    /\ pc' = "reading"
    /\ UNCHANGED <<at, permitted, outcome, told, source, answers, denied, connecting, request>>

LookupFails ==
    /\ pc = "lookup"
    /\ Finish("gaierror")
    /\ UNCHANGED <<at, permitted, told, resolving, connecting>>

\* _addresses_from, one row a step: duplicates are dropped, order is kept, and a
\* row that does not parse ends the call before anything is checked.
ReadRow ==
    /\ pc = "reading"
    /\ at < Len(rows)
    /\ LET row == rows[at + 1]
           seen == \E i \in 1..Len(answers) : answers[i] = row
       IN  /\ row # Unreadable
           /\ answers' = IF seen THEN answers ELSE Append(answers, row)
    /\ at' = at + 1
    /\ UNCHANGED <<pc, permitted, outcome, told, source, rows, denied, connecting, request>>

ReadUnreadable ==
    /\ pc = "reading"
    /\ at < Len(rows)
    /\ rows[at + 1] = Unreadable
    /\ Finish("ValueError")
    /\ UNCHANGED <<at, permitted, told, resolving, connecting>>

StartChecking ==
    /\ pc = "reading"
    /\ at = Len(rows)
    /\ answers # << >>
    /\ pc' = "checking"
    /\ at' = 0
    /\ UNCHANGED <<permitted, outcome, told, resolving, connecting, request>>

NothingAnswered ==
    /\ pc = "reading"
    /\ at = Len(rows)
    /\ answers = << >>
    /\ Finish("gaierror")
    /\ UNCHANGED <<at, permitted, told, resolving, connecting>>

\* One answer judged, and the observer told, before the next is looked at.
AnswerPermitted ==
    /\ pc = "checking"
    /\ at < Len(answers)
    /\ answers[at + 1].ip \in Permitted
    /\ permitted' = Append(permitted, answers[at + 1])
    /\ Tell("address", "permitted", answers[at + 1].ip)
    /\ at' = at + 1
    /\ UNCHANGED <<pc, outcome, resolving, connecting, request>>

\* Fault: a refused answer is left out of the observer's record.
FaultRefusedUnreported ==
    /\ pc = "checking" /\ at < Len(answers) /\ answers[at + 1].ip \notin Permitted
    /\ denied' = denied \cup {answers[at + 1]}
    /\ at' = at + 1
    /\ UNCHANGED <<pc, permitted, outcome, told, source, rows, answers, connecting, request>>

AnswerRefused ==
    /\ pc = "checking"
    /\ at < Len(answers)
    /\ answers[at + 1].ip \notin Permitted
    /\ denied' = denied \cup {answers[at + 1]}
    /\ Tell("address", "refused", answers[at + 1].ip)
    /\ at' = at + 1
    /\ UNCHANGED <<pc, permitted, outcome, source, rows, answers, connecting, request>>

RefuseName ==
    /\ pc = "checking"
    /\ at = Len(answers)
    /\ permitted = << >> \/ (denied # {} /\ config.onPartial = "reject")
    /\ Finish("BlockedAddressError")
    /\ UNCHANGED <<at, permitted, told, resolving, connecting>>

\* Fault: denied answers are dropped whatever on_partial_block says.
FaultAlwaysDrop ==
    /\ pc = "checking" /\ at = Len(answers) /\ permitted # << >>
    /\ pc' = "recheck"
    /\ UNCHANGED <<at, permitted, outcome, told, resolving, connecting, request>>

Resolved ==
    /\ pc = "checking"
    /\ at = Len(answers)
    /\ permitted # << >>
    /\ denied = {} \/ config.onPartial = "drop"
    /\ pc' = "recheck"
    /\ UNCHANGED <<at, permitted, outcome, told, resolving, connecting, request>>

-----------------------------------------------------------------------------
(* connect().                                                              *)

\* A caller of the public function, with a sequence from anywhere.
DirectConnect ==
    /\ pc \in {"idle", "done"}
    /\ config.client = "none"
    /\ \E n \in 0..MaxRows : \E given \in [1..n -> Answer] :
          rows' = given /\ permitted' = given
    /\ Fresh
    /\ pc' = "recheck"
    /\ source' = "caller"
    /\ refused' = 0 /\ retries' = 0

\* Fault: connect trusts the sequence it was given.
FaultNoRecheck ==
    /\ pc = "recheck" /\ permitted # << >>
    /\ pc' = "opening"
    /\ UNCHANGED <<at, permitted, outcome, told, resolving, connecting, request>>

\* Every address is checked again before the first is tried.
Recheck ==
    /\ pc = "recheck"
    /\ permitted # << >>
    /\ \A i \in 1..Len(permitted) : permitted[i].ip \in Permitted
    /\ pc' = "opening"
    /\ UNCHANGED <<at, permitted, outcome, told, resolving, connecting, request>>

RecheckRefuses ==
    /\ pc = "recheck"
    /\ \E i \in 1..Len(permitted) : permitted[i].ip \notin Permitted
    /\ Finish("BlockedAddressError")
    /\ UNCHANGED <<at, permitted, told, resolving, connecting>>

NothingToConnect ==
    /\ pc = "recheck"
    /\ permitted = << >>
    /\ Finish("ValueError")
    /\ UNCHANGED <<at, permitted, told, resolving, connecting>>

\* addresses[: max_connection_attempts]
Allowance == IF Len(permitted) < MaxAttempts THEN Len(permitted) ELSE MaxAttempts

Current == permitted[Len(tried) + 1]

\* socket.socket, then the options and the bind.
OpenSocket ==
    /\ pc = "opening"
    /\ Len(tried) < Allowance
    /\ pc' = "connecting"
    /\ openSockets' = openSockets + 1
    /\ UNCHANGED <<at, permitted, outcome, told, resolving, tried, peer, request>>

Attempted(result) == tried' = Append(tried, [answer |-> Current, result |-> result])

\* Fault: the try of _open begins before the socket exists, so a socket that was
\* never made is closed.
FaultClosesNothing ==
    /\ pc = "opening" /\ Len(tried) < Allowance
    /\ Attempted("OSError")
    /\ openSockets' = openSockets - 1
    /\ UNCHANGED <<pc, at, permitted, outcome, told, resolving, peer, request>>

\* socket.socket raised before there was a socket to close.
NoSocket ==
    /\ pc = "opening"
    /\ Len(tried) < Allowance
    /\ Attempted("OSError")
    /\ UNCHANGED <<pc, at, permitted, outcome, told, resolving, peer, openSockets, request>>

\* sock.connect returned.  The kernel's peer is the network's to choose.
Accepted ==
    /\ pc = "connecting"
    /\ peer' \in Ip
    /\ pc' = "verifying"
    /\ UNCHANGED <<at, permitted, outcome, told, resolving, tried, openSockets, request>>

\* Fault: the failed address is tried again instead of the next.
FaultSameAddressAgain ==
    /\ pc \in {"connecting", "verifying"}
    /\ openSockets' = openSockets - 1 /\ peer' = NoPeer /\ pc' = "opening"
    /\ UNCHANGED <<at, permitted, outcome, told, resolving, tried, request>>

\* Anything between the options and getpeername raised an OSError: the socket is
\* closed and the next address is tried.
AttemptFails ==
    /\ pc \in {"connecting", "verifying"}
    /\ \/ Attempted("OSError")
       \/ pc = "connecting" /\ Attempted("TimeoutError")
    /\ openSockets' = openSockets - 1
    /\ peer' = NoPeer
    /\ pc' = "opening"
    /\ UNCHANGED <<at, permitted, outcome, told, resolving, request>>

\* Fault: the peer is any permitted address, not the one validated for this dial.
FaultAnyPermittedPeer ==
    /\ pc = "verifying" /\ peer \in Permitted
    /\ Tell("peer", "permitted", peer) /\ Attempted("connected") /\ Finish("socket")
    /\ UNCHANGED <<at, permitted, resolving, peer, openSockets>>

VerifyPeer ==
    /\ pc = "verifying"
    /\ peer = Current.ip
    /\ Tell("peer", "permitted", peer)
    /\ Attempted("connected")
    /\ Finish("socket")
    /\ UNCHANGED <<at, permitted, resolving, peer, openSockets>>

\* The destination was rewritten.  Not an OSError, so there is no failover.
PeerRewritten ==
    /\ pc = "verifying"
    /\ peer # Current.ip
    /\ Tell("peer", "refused", peer)
    /\ Attempted("rewritten")
    /\ Finish("BlockedAddressError")
    /\ openSockets' = openSockets - 1
    /\ UNCHANGED <<at, permitted, resolving, peer>>

\* Fault: the last failure alone decides what is raised.
FaultLastFailureDecides == tried[Len(tried)].result = "TimeoutError"

OnlyTimeouts == \A i \in 1..Len(tried) : tried[i].result = "TimeoutError"

Exhausted ==
    /\ pc = "opening"
    /\ Len(tried) = Allowance
    /\ Finish(IF OnlyTimeouts THEN "TimeoutError" ELSE "OSError")
    /\ UNCHANGED <<at, permitted, told, resolving, connecting>>

\* Fault: `except OSError` where the code has `except BaseException`.
FaultInterruptLeaks ==
    /\ pc \in {"connecting", "verifying"}
    /\ Finish("interrupted")
    /\ UNCHANGED <<at, permitted, told, resolving, connecting>>

\* A BaseException, or an exception that is not an OSError, out of the code inside
\* the try of _open: KeyboardInterrupt, a bad socket option.
Interrupted ==
    /\ pc \in {"connecting", "verifying"}
    /\ Finish("interrupted")
    /\ openSockets' = openSockets - 1
    /\ UNCHANGED <<at, permitted, told, resolving, tried, peer>>

-----------------------------------------------------------------------------
Resolve ==
    \/ ReadRow \/ ReadUnreadable \/ StartChecking \/ NothingAnswered
    \/ AnswerPermitted \/ AnswerRefused \/ RefuseName \/ Resolved

Connect ==
    \/ Recheck \/ RecheckRefuses \/ NothingToConnect
    \/ OpenSocket \/ NoSocket \/ Accepted \/ AttemptFails
    \/ VerifyPeer \/ PeerRewritten \/ Exhausted

Next ==
    \/ Begin \/ Retry \/ DirectConnect
    \/ Lookup \/ LookupFails
    \/ Resolve \/ Connect \/ Interrupted

Spec == Init /\ [][Next]_vars

\* The caller's thread runs, and an attempt ends: by its timeout, or by the
\* system's when the caller gave none.  Nothing makes getaddrinfo return.
FairSpec == Spec /\ WF_vars(Resolve) /\ WF_vars(Connect)

-----------------------------------------------------------------------------
(* Properties.                                                             *)

Attempt == [answer : Answer, result : {"OSError", "TimeoutError", "connected", "rewritten"}]

Report == [stage : {"address", "peer"}, outcome : {"permitted", "refused"}, ip : Ip]

\* Every variable holds what the code can put in it.
TypeOK ==
    /\ config \in Config
    /\ pc \in {"idle", "lookup", "reading", "checking", "recheck", "opening",
               "connecting", "verifying", "done"}
    /\ source \in {"resolve", "caller"}
    /\ rows \in Seq(Row) /\ at \in Nat
    /\ answers \in Seq(Answer) /\ permitted \in Seq(Answer) /\ denied \in SUBSET Answer
    /\ tried \in Seq(Attempt) /\ peer \in Ip \cup {NoPeer} /\ openSockets \in Nat
    /\ outcome \in Raised \cup {"none", "socket"}
    /\ told \in Seq(Report)
    /\ refused \in Nat /\ retries \in 0..MaxRetries

Dialled == {permitted[i] : i \in 1..(Len(tried) + IF pc \in {"connecting", "verifying"}
                                                 THEN 1 ELSE 0)}

\* The pin.  Whatever was dialled was in the answer of this call's own lookup,
\* sockaddr intact, and is permitted; attempts go down the validated sequence in
\* its order and stop at the cap; and a socket handed out is connected to the
\* address of the attempt that produced it, whatever the network did.
PinHolds ==
    /\ \A answer \in Dialled :
          /\ \E i \in 1..Len(rows) : rows[i] = answer
          /\ answer.ip \in Permitted
    /\ Len(tried) <= Allowance
    /\ \A i \in 1..Len(tried) : tried[i].answer = permitted[i]
    /\ outcome = "socket" => /\ tried # << >>
                             /\ peer = tried[Len(tried)].answer.ip

\* One denied answer among the rows is enough: under "reject" nothing of the name
\* is dialled, and a caller's own sequence with a denied address in it is refused
\* as a whole under either setting.
OneDeniedRefusesAll ==
    /\ config.onPartial = "reject" \/ source = "caller"
    /\ \E i \in 1..Len(rows) : rows[i] # Unreadable /\ rows[i].ip \notin Permitted
    => tried = << >> /\ openSockets = 0

\* Failover never closes too little or too much: a request holds one socket while
\* an attempt is in progress or after it was handed one, and none otherwise.
NoSocketLeak ==
    openSockets = IF pc \in {"connecting", "verifying"} \/ outcome = "socket" THEN 1 ELSE 0

\* A caller is told "timed out" exactly when every attempt timed out, and is told
\* that nothing was reachable only after every address the cap allows was tried.
ExhaustionIsHonest ==
    outcome \in {"TimeoutError", "OSError"} =>
        /\ Len(tried) = Allowance
        /\ \A i \in 1..Len(tried) : tried[i].result \in {"OSError", "TimeoutError"}
        /\ outcome = "TimeoutError" <=> \A i \in 1..Len(tried) : tried[i].result = "TimeoutError"

\* A refusal is never mistaken for a connection that failed: neither the failover
\* loop nor the client library's retry loop goes on after one.
RefusalIsFinal == refused > 0 => pc = "done" /\ openSockets = 0

\* The record a user audits is complete when it matters: before an answer of a
\* lookup is dialled the observer has been told that it is permitted and has been
\* told of every answer that is not, and a socket is handed out only after it was
\* told of the peer.
ToldBeforeDialled ==
    /\ source = "resolve" /\ Dialled # {} =>
         \A i \in 1..Len(rows) :
            \E k \in 1..Len(told) :
               /\ told[k].stage = "address"
               /\ told[k].ip = rows[i].ip
               /\ told[k].outcome = IF rows[i].ip \in Permitted THEN "permitted" ELSE "refused"
    /\ outcome = "socket" =>
         told[Len(told)] = [stage |-> "peer", outcome |-> "permitted", ip |-> peer]

\* Once the resolver has answered, or connect() was handed addresses of its caller's own,
\* the call ends: any number of dead addresses costs a bounded number of attempts.
CallEnds == pc \in {"reading", "recheck"} ~> pc = "done"

-----------------------------------------------------------------------------
(* The refinement of Pin.                                                  *)

PinPhase ==
    CASE pc \in {"idle", "lookup", "reading", "checking", "recheck"} -> "choosing"
      [] pc = "opening" -> "pinned"
      [] pc \in {"connecting", "verifying"} -> "dialling"
      [] pc = "done" /\ outcome = "socket" -> "connected"
      [] pc = "done" /\ outcome \in Refusals -> "refused"
      [] OTHER -> "failed"

Promise == INSTANCE Pin WITH
    phase    <- PinPhase,
    pinned   <- IF PinPhase \in {"pinned", "dialling"}
                THEN {permitted[i] : i \in 1..Len(permitted)} ELSE {},
    attempts <- IF PinPhase \in {"pinned", "dialling"}
                THEN Len(tried) + (IF PinPhase = "dialling" THEN 1 ELSE 0) ELSE 0,
    target   <- IF PinPhase = "dialling" THEN {Current}
                ELSE IF PinPhase = "connected" THEN {tried[Len(tried)].answer} ELSE {},
    landed   <- IF PinPhase = "connected" THEN {peer} ELSE {}

\* resolve() and connect() together keep the promise of Pin.
KeepsThePin == Promise!Spec
=============================================================================
