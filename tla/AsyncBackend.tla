----------------------------- MODULE AsyncBackend -----------------------------
(***************************************************************************)
(* AsyncSafeBackend.connect_tcp and _first_reachable in                    *)
(* src/ssrfguard/httpx.py: several requests of one AsyncClient on one      *)
(* event loop, resolving in worker threads under the client's own          *)
(* CapacityLimiter, each then connecting through anyio to an address it    *)
(* validated.                                                              *)
(*                                                                         *)
(* resolve() runs whole in its thread and is judged here as a whole; its   *)
(* own steps are in PinnedConnect.  What this module adds is what is       *)
(* shared: the loop, the slots and their queue, and cancellation, which    *)
(* reaches a request only where it awaits and never a thread.              *)
(***************************************************************************)
EXTENDS Naturals, Sequences, FiniteSets

CONSTANTS
    Task,          \* requests in progress on the loop
    Ip,            \* addresses
    Permitted,     \* those the policy accepts
    Slots,         \* resolver_slots
    MaxAttempts,   \* policy.max_connection_attempts
    MaxRows        \* bound: rows in one answer

ASSUME BackendAssumption ==
    /\ IsFiniteSet(Task)
    /\ Permitted \subseteq Ip
    /\ {Slots, MaxAttempts} \subseteq Nat \ {0}
    /\ MaxRows \in Nat

VARIABLES
    onPartial,   \* policy.on_partial_block
    pc,          \* per request: where connect_tcp is
    queue,       \* requests waiting for a slot, longest first
    borrowers,   \* requests that hold a slot of the limiter
    lookups,     \* requests with a lookup running, and where: [who, thread]
    addresses,   \* per request: what resolve returned
    tried,       \* per request: the results of the attempts that have ended
    peer,        \* per request: the remote address of its stream
    streams,     \* requests with a connected stream that nobody has closed
    cancelled,   \* requests whose scope was cancelled, by a time-out or a caller
    outcome      \* per request: what connect_tcp returned or raised

connecting == <<addresses, tried, peer, streams>>
vars == <<onPartial, pc, queue, borrowers, lookups, connecting, cancelled, outcome>>

NoPeer == "no peer"

Awaiting == {"queued", "looking", "dialling", "closing"}

Init ==
    /\ onPartial \in {"reject", "drop"}
    /\ pc = [t \in Task |-> "idle"]
    /\ queue = << >> /\ borrowers = {} /\ lookups = {}
    /\ addresses = [t \in Task |-> << >>]
    /\ tried = [t \in Task |-> << >>]
    /\ peer = [t \in Task |-> NoPeer]
    /\ streams = {} /\ cancelled = {}
    /\ outcome = [t \in Task |-> "none"]

\* A step of a coroutine needs the loop, and the loop has it unless some lookup
\* runs on it.
LoopFree == \A lookup \in lookups : lookup.thread = "worker"

Finish(t, result) ==
    /\ pc' = [pc EXCEPT ![t] = "done"]
    /\ outcome' = [outcome EXCEPT ![t] = result]

\* The locals of _first_reachable go with its frame.
Unwind(t) ==
    /\ addresses' = [addresses EXCEPT ![t] = << >>]
    /\ tried' = [tried EXCEPT ![t] = << >>]

-----------------------------------------------------------------------------
(* The lookup.                                                             *)

\* connect_tcp is called.  A finished request's place is taken by the next one; the
\* stream it was given, if any, is the pool's and is closed there in its own time.
Begin(t) ==
    /\ LoopFree
    /\ pc[t] \in {"idle", "done"}
    /\ t \notin {lookup.who : lookup \in lookups}
    /\ pc' = [pc EXCEPT ![t] = "queued"]
    /\ queue' = Append(queue, t)
    /\ Unwind(t)
    /\ peer' = [peer EXCEPT ![t] = NoPeer]
    /\ streams' = streams \ {t} /\ cancelled' = cancelled \ {t}
    /\ outcome' = [outcome EXCEPT ![t] = "none"]
    /\ UNCHANGED <<onPartial, borrowers, lookups>>

\* Fault: the lookup runs where connect_tcp does.
FaultResolveInline(t) ==
    /\ LoopFree
    /\ pc[t] = "queued" /\ Head(queue) = t /\ Cardinality(borrowers) < Slots
    /\ pc' = [pc EXCEPT ![t] = "looking"]
    /\ queue' = Tail(queue) /\ borrowers' = borrowers \cup {t}
    /\ lookups' = lookups \cup {[who |-> t, thread |-> "loop"]}
    /\ UNCHANGED <<onPartial, connecting, cancelled, outcome>>

\* anyio.to_thread.run_sync: a slot of this client, first come first served, and a
\* thread to run resolve() in.
StartLookup(t) ==
    /\ LoopFree
    /\ pc[t] = "queued"
    /\ Head(queue) = t
    /\ Cardinality(borrowers) < Slots
    /\ pc' = [pc EXCEPT ![t] = "looking"]
    /\ queue' = Tail(queue)
    /\ borrowers' = borrowers \cup {t}
    /\ lookups' = lookups \cup {[who |-> t, thread |-> "worker"]}
    /\ UNCHANGED <<onPartial, connecting, cancelled, outcome>>

\* What resolve() makes of the rows: those the policy permits, and whether others were
\* denied.
Judged ==
    [permitted : UNION {[1..n -> Permitted] : n \in 0..MaxRows}, denied : BOOLEAN]

Refuses(rows) ==
    \/ rows.permitted = << >>
    \/ onPartial = "reject" /\ rows.denied

\* Fault: an error skips the release of the slot.
FaultErrorKeepsTheSlot(t) ==
    /\ pc[t] = "looking"
    /\ lookups' = {lookup \in lookups : lookup.who # t}
    /\ Finish(t, "ConnectError")
    /\ UNCHANGED <<onPartial, queue, borrowers, connecting, cancelled>>

\* The thread is done, and the request resumes with the result: the slot is given
\* back, and every address is checked again.  gaierror is all that is translated; what
\* else a resolver raises is passed on.
LookupReturns(t) ==
    /\ pc[t] = "looking"
    /\ lookups' = {lookup \in lookups : lookup.who # t}
    /\ borrowers' = borrowers \ {t}
    /\ \/ \E rows \in Judged :
             /\ ~Refuses(rows)
             /\ addresses' = [addresses EXCEPT ![t] = rows.permitted]
             /\ pc' = [pc EXCEPT ![t] = "opening"]
             /\ UNCHANGED outcome
       \/ /\ \E rows \in Judged : Refuses(rows)
          /\ Finish(t, "BlockedAddressError")
          /\ UNCHANGED addresses
       \/ /\ Finish(t, "ConnectError") \/ Finish(t, "OSError")
          /\ UNCHANGED addresses
    /\ UNCHANGED <<onPartial, queue, tried, peer, streams, cancelled>>

-----------------------------------------------------------------------------
(* _first_reachable.                                                       *)

Allowance(t) == IF Len(addresses[t]) < MaxAttempts THEN Len(addresses[t]) ELSE MaxAttempts

Current(t) == addresses[t][Len(tried[t]) + 1]

\* anyio.connect_tcp with an address: it has no name to resolve.
Dial(t) ==
    /\ LoopFree
    /\ pc[t] = "opening"
    /\ Len(tried[t]) < Allowance(t)
    /\ pc' = [pc EXCEPT ![t] = "dialling"]
    /\ UNCHANGED <<onPartial, queue, borrowers, lookups, connecting, cancelled, outcome>>

\* The attempt failed, or fail_after ended it; anyio closes what it had opened.
AttemptFails(t) ==
    /\ LoopFree
    /\ pc[t] = "dialling"
    /\ \E result \in {"OSError", "TimeoutError"} :
          tried' = [tried EXCEPT ![t] = Append(@, result)]
    /\ pc' = [pc EXCEPT ![t] = "opening"]
    /\ UNCHANGED <<onPartial, queue, borrowers, lookups, addresses, peer, streams, cancelled,
                   outcome>>

\* Fault: the peer is not looked at.
FaultPeerUnverified(t) ==
    /\ LoopFree
    /\ pc[t] = "dialling"
    /\ peer' \in {[peer EXCEPT ![t] = ip] : ip \in Ip}
    /\ streams' = streams \cup {t}
    /\ tried' = [tried EXCEPT ![t] = Append(@, "stream")]
    /\ Finish(t, "stream")
    /\ UNCHANGED <<onPartial, queue, borrowers, lookups, addresses, cancelled>>

\* The stream is up.  Options and the peer check follow with no await between them,
\* so no cancellation comes in between.
Connected(t) ==
    /\ LoopFree
    /\ pc[t] = "dialling"
    /\ peer' = [peer EXCEPT ![t] = Current(t)]
    /\ streams' = streams \cup {t}
    /\ tried' = [tried EXCEPT ![t] = Append(@, "stream")]
    /\ Finish(t, "stream")
    /\ UNCHANGED <<onPartial, queue, borrowers, lookups, addresses, cancelled>>

\* An option the socket refuses, or a peer that is not the address dialled.  The
\* stream is closed, which awaits, and there is no failover.
Unacceptable(t) ==
    /\ LoopFree
    /\ pc[t] = "dialling"
    /\ streams' = streams \cup {t}
    /\ pc' = [pc EXCEPT ![t] = "closing"]
    /\ \/ /\ peer' \in {[peer EXCEPT ![t] = ip] : ip \in Ip \ {Current(t)}}
          /\ outcome' = [outcome EXCEPT ![t] = "BlockedAddressError"]
       \/ /\ outcome' = [outcome EXCEPT ![t] = "OSError"]
          /\ UNCHANGED peer
    /\ UNCHANGED <<onPartial, queue, borrowers, lookups, addresses, tried, cancelled>>

\* Fault: a stream that is not handed out is left to the garbage collector.
FaultNotClosed(t) ==
    /\ LoopFree
    /\ pc[t] = "closing"
    /\ peer' = [peer EXCEPT ![t] = NoPeer]
    /\ pc' = [pc EXCEPT ![t] = "done"]
    /\ UNCHANGED <<onPartial, queue, borrowers, lookups, addresses, tried, streams, cancelled,
                   outcome>>

\* aclose returns and the exception goes on.
Closed(t) ==
    /\ LoopFree
    /\ pc[t] = "closing"
    /\ streams' = streams \ {t}
    /\ peer' = [peer EXCEPT ![t] = NoPeer]
    /\ pc' = [pc EXCEPT ![t] = "done"]
    /\ Unwind(t)
    /\ UNCHANGED <<onPartial, queue, borrowers, lookups, cancelled, outcome>>

Exhausted(t) ==
    /\ LoopFree
    /\ pc[t] = "opening"
    /\ Len(tried[t]) = Allowance(t)
    /\ Finish(t, IF \A i \in 1..Len(tried[t]) : tried[t][i] = "TimeoutError"
                 THEN "ConnectTimeout" ELSE "ConnectError")
    /\ Unwind(t)
    /\ UNCHANGED <<onPartial, queue, borrowers, lookups, peer, streams, cancelled>>

-----------------------------------------------------------------------------
(* Cancellation.                                                           *)

\* The request's scope is cancelled: its caller gave up, or a time-out around it
\* expired.
Cancel(t) ==
    /\ LoopFree
    /\ pc[t] \in Awaiting
    /\ t \notin cancelled
    /\ cancelled' = cancelled \cup {t}
    /\ UNCHANGED <<onPartial, pc, queue, borrowers, lookups, connecting, outcome>>

\* A request that is queued leaves the queue.
LeaveQueue(t) ==
    \/ /\ pc[t] # "queued"
       /\ UNCHANGED queue
    \/ \E i \in 1..Len(queue) :
          /\ queue[i] = t
          /\ queue' = [j \in 1..(Len(queue) - 1) |-> queue[IF j < i THEN j ELSE j + 1]]

\* Fault: run_sync with abandon_on_cancel, which gives the slot back at once.
FaultAbandonsTheThread(t) ==
    /\ LoopFree
    /\ t \in cancelled
    /\ pc[t] \in {"queued", "looking", "dialling"}
    /\ LeaveQueue(t)
    /\ borrowers' = borrowers \ {t}
    /\ Finish(t, "cancelled")
    /\ UNCHANGED <<onPartial, lookups, connecting, cancelled>>

\* Fault: a request that stops waiting stays in the queue.
FaultStaysQueued(t) ==
    /\ LoopFree
    /\ t \in cancelled
    /\ pc[t] \in {"queued", "dialling", "closing"}
    /\ streams' = streams \ {t}
    /\ peer' = [peer EXCEPT ![t] = NoPeer]
    /\ Finish(t, "cancelled")
    /\ UNCHANGED <<onPartial, queue, borrowers, lookups, addresses, tried, cancelled>>

\* It is delivered where the request awaits, except while a thread runs for it:
\* run_sync shields that, and the slot stays taken until the thread returns.
Cancelled(t) ==
    /\ LoopFree
    /\ t \in cancelled
    /\ pc[t] \in {"queued", "dialling", "closing"}
    /\ LeaveQueue(t)
    /\ streams' = streams \ {t}
    /\ peer' = [peer EXCEPT ![t] = NoPeer]
    /\ Finish(t, "cancelled")
    /\ Unwind(t)
    /\ UNCHANGED <<onPartial, borrowers, lookups, cancelled>>

-----------------------------------------------------------------------------
\* What the loop does with a request that has its answers.
Connect(t) ==
    \/ Dial(t) \/ AttemptFails(t) \/ Connected(t) \/ Unacceptable(t) \/ Closed(t)
    \/ Exhausted(t)

Next ==
    \E t \in Task :
        \/ Begin(t) \/ StartLookup(t) \/ LookupReturns(t)
        \/ Connect(t)
        \/ Cancel(t) \/ Cancelled(t)

Spec == Init /\ [][Next]_vars

\* The loop runs what is ready, a free slot goes to the head of the queue, and an
\* attempt ends, by its time-out at the latest.  Nothing makes a lookup return, and
\* nothing here assumes that one does.
FairSpec ==
    /\ Spec
    /\ \A t \in Task : WF_vars(StartLookup(t)) /\ WF_vars(Connect(t)) /\ WF_vars(Cancelled(t))

-----------------------------------------------------------------------------
(* Properties.                                                             *)

\* Every variable holds what the code can put in it, and the queue holds the
\* requests that are queued, once each.
TypeOK ==
    /\ onPartial \in {"reject", "drop"}
    /\ pc \in [Task -> {"idle", "queued", "looking", "opening", "dialling", "closing", "done"}]
    /\ queue \in Seq(Task)
    /\ {queue[i] : i \in 1..Len(queue)} = {t \in Task : pc[t] = "queued"}
    /\ \A i, j \in 1..Len(queue) : queue[i] = queue[j] => i = j
    /\ borrowers \subseteq Task /\ streams \subseteq Task /\ cancelled \subseteq Task
    /\ lookups \subseteq [who : Task, thread : {"worker", "loop"}]
    /\ addresses \in [Task -> Seq(Ip)]
    /\ tried \in [Task -> Seq({"OSError", "TimeoutError", "stream"})]
    /\ peer \in [Task -> Ip \cup {NoPeer}]
    /\ outcome \in [Task -> {"none", "stream", "ConnectError", "ConnectTimeout",
                             "BlockedAddressError", "OSError", "cancelled"}]

\* A stall is bounded by the client's own number: no more lookups run at once than
\* there are slots, those of cancelled requests included.
LookupsBounded == Cardinality(lookups) <= Slots

\* Every stream is somebody's: connected and handed out, or about to be closed.
NoStreamLeak ==
    streams = {t \in Task : pc[t] = "closing" \/ (pc[t] = "done" /\ outcome[t] = "stream")}

\* "Connections already in the pool are unaffected", and neither is a request that
\* has its answers: however many lookups hang, it ends.
StallIsContained == \A t \in Task : pc[t] = "opening" ~> pc[t] = "done"

\* If no lookup hangs for ever, every request gets its slot and ends: the limiter
\* loses no slot to a refusal, an error or a cancellation.
SlotsComeBack ==
    (\A t \in Task : pc[t] = "looking" ~> pc[t] # "looking")
        => (\A t \in Task : pc[t] = "queued" ~> pc[t] = "done")

\* The two clients make one promise: each request of the loop, whatever the others
\* and their cancellations do, keeps the promise of Pin.
Phase(t) ==
    CASE pc[t] \in {"idle", "queued", "looking"} -> "choosing"
      [] pc[t] = "opening" -> "pinned"
      [] pc[t] \in {"dialling", "closing"} -> "dialling"
      [] pc[t] = "done" /\ outcome[t] = "stream" -> "connected"
      [] pc[t] = "done" /\ outcome[t] = "BlockedAddressError" -> "refused"
      [] OTHER -> "failed"

Pinned(t) == Phase(t) \in {"pinned", "dialling"}

Promise(t) == INSTANCE Pin WITH
    Answer   <- [ip : Ip],
    phase    <- Phase(t),
    pinned   <- IF Pinned(t) THEN {[ip |-> addresses[t][i]] : i \in 1..Len(addresses[t])} ELSE {},
    attempts <- IF Pinned(t)
                THEN Len(tried[t]) + (IF Phase(t) = "dialling" THEN 1 ELSE 0) ELSE 0,
    target   <- CASE Phase(t) = "dialling" -> {[ip |-> Current(t)]}
                  [] Phase(t) = "connected" -> {[ip |-> addresses[t][Len(tried[t])]]}
                  [] OTHER -> {},
    landed   <- IF Phase(t) = "connected" THEN {peer[t]} ELSE {}

EveryRequestKeepsThePin ==
    /\ \A t \in Task : Promise(t)!Init
    /\ [][\A t \in Task : Promise(t)!Next \/ UNCHANGED Promise(t)!vars]_vars
=============================================================================
