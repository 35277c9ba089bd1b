----------------------------- MODULE UdpResolver -----------------------------
(***************************************************************************)
(* One call of UdpResolver in src/ssrfguard/resolvers.py: __call__,        *)
(* records, _lookup, _query, _ask, _over_udp and _over_tcp, against        *)
(* servers that answer late, twice, unreadably or never, and a third party *)
(* on the path that answers for them.                                      *)
(*                                                                         *)
(* The clock only moves while the call is blocked in a socket operation,   *)
(* and never past the timeout of that operation: what the code does        *)
(* between two waits takes no time.  A resolver object is frozen, so calls *)
(* in other threads have nothing in common with this one.                  *)
(***************************************************************************)
EXTENDS Naturals, Sequences

CONSTANTS
    Families,         \* families, in order: a sequence of record types
    Servers,          \* how many nameservers there are
    Attempts,         \* attempts
    Timeout,          \* timeout, in ticks
    AttemptTimeout,   \* attempt_timeout, in ticks
    Txid,             \* transaction ids that secrets.randbits draws here
    Guess,            \* an id that it does not draw: what a forger comes up with
    MaxChunks         \* bound: recv calls it takes to read one TCP reply

Types == {Families[i] : i \in 1..Len(Families)}

ASSUME ResolverAssumption ==
    /\ Families \in Seq(Types) \ {<< >>}
    /\ {Servers, Attempts, Timeout, AttemptTimeout, MaxChunks} \subseteq Nat \ {0}
    /\ Txid # {} /\ Guess \notin Txid

VARIABLES
    entry,      \* which method was called: "__call__" or "records"
    asked,      \* the record types of this call, in order
    now,        \* time since the call began
    pc,         \* where the call is
    server,     \* _query: index of the nameserver
    attempt,    \* _query: the attempt at it, from 1
    failures,   \* _query: the servers whose attempts failed, in order
    queries,    \* queries sent in this call: a reply to any may still be on its way
    txid,       \* the transaction id of the current attempt
    ends,       \* when the current wait times out
    unread,     \* TCP: recv calls left until the reply is read
    got,        \* the replies taken, one for each record type done
    outcome     \* what the call returned or raised

vars == <<entry, asked, now, pc, server, attempt, failures, queries, txid, ends, unread,
          got, outcome>>

Query == [server : 1..Servers, txid : Txid, type : Types]

\* A readable message: whose it is, what it answers and what it says.  "none" is
\* NXDOMAIN and NODATA; "truncated" has TC set.
Reply == [server : 1..Servers, txid : Txid \cup {Guess}, type : Types,
          kind : {"records", "none", "truncated"}, genuine : BOOLEAN]

Deadline == Timeout

Sooner(a, b) == IF a < b THEN a ELSE b

Wanted == asked[Len(got) + 1]

Init ==
    /\ entry = "__call__" /\ asked = Families /\ now = 0 /\ pc = "idle"
    /\ server = 1 /\ attempt = 1 /\ failures = << >> /\ queries = {}
    /\ txid = Guess /\ ends = 0 /\ unread = 0 /\ got = << >> /\ outcome = "none"

Finish(result) ==
    /\ pc' = "done"
    /\ outcome' = result

-----------------------------------------------------------------------------
(* The call.                                                               *)

\* A new call of either method, for every type or for one.  `now` is the time
\* since it began, so the deadline is Timeout.
Begin(method, types) ==
    /\ entry' = method /\ asked' = types /\ now' = 0
    /\ server' = 1 /\ attempt' = 1 /\ failures' = << >> /\ queries' = {}
    /\ txid' = Guess /\ ends' = 0 /\ unread' = 0 /\ got' = << >>

Call ==
    /\ pc \in {"idle", "done"}
    /\ \E method \in {"__call__", "records"}, types \in {Families} \cup {<<t>> : t \in Types} :
          Begin(method, types)
    /\ pc' = "asking"
    /\ outcome' = "none"

\* Nothing is sent: __call__ parses a literal, or refuses a name where a literal was
\* promised; _encode_name refuses the name; or no family of the call is configured.
CallAnsweredLocally ==
    /\ pc \in {"idle", "done"}
    /\ \E method \in {"__call__", "records"} : Begin(method, << >>)
    /\ Finish("rows") \/ Finish("EAI_NONAME")

-----------------------------------------------------------------------------
(* One attempt at one server.                                              *)

StartAttempt ==
    /\ pc = "asking"
    /\ now < Deadline
    /\ txid' \in Txid
    /\ queries' = queries \cup {[server |-> server, txid |-> txid', type |-> Wanted]}
    /\ ends' = Sooner(Deadline, now + AttemptTimeout)
    /\ pc' = "udp"
    /\ UNCHANGED <<entry, asked, now, server, attempt, failures, unread, got, outcome>>

DeadlinePassed ==
    /\ pc = "asking"
    /\ now >= Deadline
    /\ Finish("EAI_AGAIN")
    /\ UNCHANGED <<entry, asked, now, server, attempt, failures, queries, txid, ends, unread,
                   got>>

\* Fault: an attempt that failed is the server's last.
FaultOneAttemptEach ==
    /\ failures' = Append(failures, server)
    /\ IF server < Servers
       THEN /\ pc' = "asking" /\ server' = server + 1
            /\ UNCHANGED <<attempt, outcome>>
       ELSE Finish("EAI_AGAIN") /\ UNCHANGED <<server, attempt>>
    /\ UNCHANGED <<entry, asked, now, queries, txid, ends, unread, got>>

\* The next attempt, the next server, or _give_up.
AttemptFailed ==
    /\ failures' = Append(failures, server)
    /\ \/ /\ attempt < Attempts
          /\ pc' = "asking" /\ attempt' = attempt + 1
          /\ UNCHANGED <<server, outcome>>
       \/ /\ attempt = Attempts /\ server < Servers
          /\ pc' = "asking" /\ server' = server + 1 /\ attempt' = 1
          /\ UNCHANGED outcome
       \/ /\ attempt = Attempts /\ server = Servers
          /\ Finish("EAI_AGAIN")
          /\ UNCHANGED <<server, attempt>>
    /\ UNCHANGED <<entry, asked, now, queries, txid, ends, unread, got>>

\* Fault: the first type answered is the whole answer.
FaultFirstReplyEnough(reply) ==
    /\ got' = Append(got, reply)
    /\ Finish(IF reply.kind = "records" THEN "rows" ELSE "EAI_NONAME")
    /\ UNCHANGED <<entry, asked, now, server, attempt, failures, queries, txid, ends, unread>>

\* A reply that ends _query for this type.
Taken(reply) ==
    /\ got' = Append(got, reply)
    /\ server' = 1 /\ attempt' = 1 /\ failures' = << >>
    /\ \/ /\ Len(got') < Len(asked)
          /\ pc' = "asking"
          /\ UNCHANGED outcome
       \/ /\ Len(got') = Len(asked)
          /\ Finish(IF entry = "__call__" /\ \A i \in 1..Len(got') : got'[i].kind = "none"
                    THEN "EAI_NONAME" ELSE "rows")
    /\ UNCHANGED <<entry, asked, now, queries, txid, ends, unread>>

-----------------------------------------------------------------------------
(* _over_udp.                                                              *)

\* Anything that may arrive on the connected socket: a reply of this server to any
\* query of this call, or what somebody else sends in its name.
Arriving ==
    {r \in Reply :
        /\ r.server = server
        /\ IF r.genuine
           THEN [server |-> r.server, txid |-> r.txid, type |-> r.type] \in queries
           ELSE r.txid = Guess}

\* Fault: the transaction id is not compared.
FaultIdIgnored(reply) == reply.type # Wanted

\* The checks _parse makes before it believes anything else of a message.
WrongQuestion(reply) == reply.txid # txid \/ reply.type # Wanted

Receiving == pc = "udp" /\ now < ends

\* The reply is to some other question: wait on, with no more time than before.
KeepWaiting ==
    /\ Receiving
    /\ \E reply \in Arriving : WrongQuestion(reply)
    /\ UNCHANGED vars

UdpAnswers ==
    /\ Receiving
    /\ \E reply \in Arriving :
          /\ ~WrongQuestion(reply)
          /\ reply.kind \in {"records", "none"}
          /\ Taken(reply)

\* An error of the socket, an unreadable message, or any rcode but the two answers.
UdpFails ==
    /\ Receiving
    /\ AttemptFailed

\* Fault: a time-out is ignored and the wait goes on.
FaultWaitsOn ==
    /\ pc = "udp" /\ now >= ends
    /\ UNCHANGED vars

UdpTimesOut ==
    /\ pc = "udp"
    /\ now >= ends
    /\ AttemptFailed

UdpTruncated ==
    /\ Receiving
    /\ \E reply \in Arriving : ~WrongQuestion(reply) /\ reply.kind = "truncated"
    /\ ends' = Sooner(Deadline, now + AttemptTimeout)
    /\ pc' = "tcpConnecting"
    /\ UNCHANGED <<entry, asked, now, server, attempt, failures, queries, txid, unread, got,
                   outcome>>

-----------------------------------------------------------------------------
(* _over_tcp.                                                              *)

\* From here each recv may take all the time the call has left.
TcpConnected ==
    /\ pc = "tcpConnecting"
    /\ now < ends
    /\ ends' = Deadline
    /\ unread' \in 1..MaxChunks
    /\ pc' = "tcpReading"
    /\ UNCHANGED <<entry, asked, now, server, attempt, failures, queries, txid, got, outcome>>

\* Fault: every recv is given attempt_timeout anew.
FaultTimeoutRestarts ==
    /\ pc = "tcpReading" /\ now < ends /\ unread > 1
    /\ unread' = unread - 1
    /\ ends' = now + AttemptTimeout
    /\ UNCHANGED <<entry, asked, now, pc, server, attempt, failures, queries, txid, got,
                   outcome>>

\* One recv of _recv_exactly that leaves more to read.
TcpChunk ==
    /\ pc = "tcpReading"
    /\ now < ends
    /\ unread > 1
    /\ unread' = unread - 1
    /\ UNCHANGED <<entry, asked, now, pc, server, attempt, failures, queries, txid, ends, got,
                   outcome>>

ReplyRead == pc = "tcpReading" /\ now < ends /\ unread = 1

TcpAnswers ==
    /\ ReplyRead
    /\ \E kind \in {"records", "none"} :
          Taken([server |-> server, txid |-> txid, type |-> Wanted, kind |-> kind,
                 genuine |-> TRUE])

\* _WrongQuestionError is none of the exceptions _query goes on after.
TcpAnswersAnotherQuestion ==
    /\ ReplyRead
    /\ Finish("_WrongQuestionError")
    /\ UNCHANGED <<entry, asked, now, server, attempt, failures, queries, txid, ends, unread,
                   got>>

\* Refused, closed or reset, or a reply that is truncated again, a failure or
\* unreadable.
TcpFails ==
    /\ pc \in {"tcpConnecting", "tcpReading"}
    /\ now < ends
    /\ AttemptFailed

TcpTimesOut ==
    /\ pc \in {"tcpConnecting", "tcpReading"}
    /\ now >= ends
    /\ AttemptFailed

-----------------------------------------------------------------------------
Waiting == pc \in {"udp", "tcpConnecting", "tcpReading"}

Tick ==
    /\ Waiting
    /\ now < ends
    /\ now' = now + 1
    /\ UNCHANGED <<entry, asked, pc, server, attempt, failures, queries, txid, ends, unread,
                   got, outcome>>

\* What the call does by itself; the rest of Next is the network's doing.
Step == StartAttempt \/ DeadlinePassed \/ UdpTimesOut \/ TcpTimesOut

Next ==
    \/ Call \/ CallAnsweredLocally
    \/ Step \/ Tick
    \/ KeepWaiting \/ UdpAnswers \/ UdpFails \/ UdpTruncated
    \/ TcpConnected \/ TcpChunk \/ TcpAnswers \/ TcpAnswersAnotherQuestion \/ TcpFails

Spec == Init /\ [][Next]_vars

\* The thread runs and the clock advances.  Nobody has to answer.
FairSpec == Spec /\ WF_vars(Step) /\ WF_vars(Tick)

-----------------------------------------------------------------------------
(* Properties.                                                             *)

\* Every variable holds what the code can put in it: in particular the loop over
\* the servers is inside its bounds.
TypeOK ==
    /\ entry \in {"__call__", "records"}
    /\ asked \in Seq(Types) /\ now \in Nat
    /\ pc \in {"idle", "asking", "udp", "tcpConnecting", "tcpReading", "done"}
    /\ server \in 1..Servers /\ attempt \in 1..Attempts
    /\ failures \in Seq(1..Servers) /\ queries \subseteq Query
    /\ txid \in Txid \cup {Guess} /\ ends \in Nat /\ unread \in 0..MaxChunks
    /\ got \in Seq(Reply) /\ Len(got) <= Len(asked)
    /\ outcome \in {"none", "rows", "EAI_NONAME", "EAI_AGAIN", "_WrongQuestionError"}

\* The ceiling: however many servers, attempts, record types and fallbacks there
\* are, and however slowly a reply drips in, the call never outlives its timeout.
ReturnsInTime == now <= Deadline

\* No half answer: a call that returns rows, or says that there are none, has a
\* reply for every record type it asked about.  The policy's reject-on-partial can
\* only see a name that resolves both ways if it is given every answer.
AnswersAreWhole ==
    outcome \in {"rows", "EAI_NONAME"} => Len(got) = Len(asked)

\* A forged or misplaced reply is a delay and never a substitution: what is taken
\* for a record type came from a server that was asked, in this call, for that type.
OnlyAnswersToOurQuestions ==
    \A i \in 1..Len(got) :
        /\ got[i].genuine
        /\ got[i].type = asked[i]
        /\ [server |-> got[i].server, txid |-> got[i].txid, type |-> got[i].type] \in queries

\* The servers in the order _query asks them, each as often as it may be.
Schedule == [i \in 1..(Servers * Attempts) |-> 1 + (i - 1) \div Attempts]

\* The call gives up on a type only when it is out of time or has asked every server
\* as often as configured, in order, and every one of them failed.
GivesUpHonestly ==
    outcome = "EAI_AGAIN" => now >= Deadline \/ failures = Schedule

\* A server that never answers, a flood of forged replies or a TCP reply one byte
\* at a time: the call ends.
CallEnds == pc = "asking" ~> pc = "done"

\* "Raises: socket.gaierror", of __call__ and records alike.
RaisesOnlyGaierror == outcome \in {"none", "rows", "EAI_NONAME", "EAI_AGAIN"}

\* "attempt_timeout: how long to wait for one server before trying the next": no
\* single wait on a server is set to last longer.
AttemptTimeoutHolds == Waiting => ends <= now + AttemptTimeout
=============================================================================
