-------------------------- MODULE AsyncBackendProofs --------------------------
(***************************************************************************)
(* The safety properties of AsyncBackend, and that each request of the     *)
(* loop implements Pin, for any number of requests, slots, addresses and   *)
(* attempts.                                                               *)
(*                                                                         *)
(* The argument: the slots in use are those of the requests that look up,  *)
(* each with one thread (Slotted); the open streams are those handed out   *)
(* or being closed (NoStreamLeak); and a request that connects has         *)
(* permitted addresses only, and no more attempts behind it than it may    *)
(* make (Choice).                                                          *)
(***************************************************************************)
EXTENDS AsyncBackend, FiniteSetTheorems, TLAPS

Queued ==
    /\ queue \in Seq(Task)
    /\ {queue[i] : i \in 1..Len(queue)} = {t \in Task : pc[t] = "queued"}
    /\ \A i, j \in 1..Len(queue) : queue[i] = queue[j] => i = j

Typed ==
    /\ onPartial \in {"reject", "drop"}
    /\ pc \in [Task -> {"idle", "queued", "looking", "opening", "dialling", "closing", "done"}]
    /\ cancelled \subseteq Task
    /\ addresses \in [Task -> Seq(Ip)]
    /\ tried \in [Task -> Seq({"OSError", "TimeoutError", "stream"})]
    /\ peer \in [Task -> Ip \cup {NoPeer}]
    /\ outcome \in [Task -> {"none", "stream", "ConnectError", "ConnectTimeout",
                             "BlockedAddressError", "OSError", "cancelled"}]

Looking == {t \in Task : pc[t] = "looking"}

InWorker(t) == [who |-> t, thread |-> "worker"]

Slotted ==
    /\ borrowers = Looking
    /\ lookups = {InWorker(t) : t \in borrowers}
    /\ Cardinality(borrowers) <= Slots

\* What a request has chosen, by where it is.
ChoiceOf(t) ==
    /\ pc[t] \in {"queued", "looking"} => tried[t] = << >>
    /\ pc[t] \in {"opening", "dialling", "closing"} =>
          /\ addresses[t] # << >>
          /\ \A i \in 1..Len(addresses[t]) : addresses[t][i] \in Permitted
          /\ Len(tried[t]) <= Allowance(t)
    /\ pc[t] \in {"dialling", "closing"} => Len(tried[t]) < Allowance(t)
    /\ pc[t] = "closing" => outcome[t] \in {"BlockedAddressError", "OSError"}
    /\ pc[t] \notin {"closing", "done"} => outcome[t] = "none"

Choice == \A t \in Task : ChoiceOf(t)

IInv == Typed /\ Queued /\ Slotted /\ NoStreamLeak /\ Choice

-----------------------------------------------------------------------------

LEMMA Constants ==
    /\ Slots \in Nat /\ Slots > 0 /\ MaxAttempts \in Nat /\ MaxAttempts > 0
    /\ IsFiniteSet(Task) /\ Permitted \subseteq Ip
BY BackendAssumption

LEMMA InitHolds == Init => IInv
<1> SUFFICES ASSUME Init PROVE IInv
  OBVIOUS
<1>1. Typed
  <2>1. << >> \in Seq(Ip) /\ << >> \in Seq({"OSError", "TimeoutError", "stream"})
    OBVIOUS
  <2>2. /\ addresses \in [Task -> Seq(Ip)]
        /\ tried \in [Task -> Seq({"OSError", "TimeoutError", "stream"})]
    BY <2>1 DEF Init
  <2> QED
    BY <2>2 DEF Init, Typed
<1>2. Queued
  BY DEF Init, Queued
<1>3. Slotted
  <2>1. borrowers = {} /\ lookups = {} /\ Looking = {}
    BY DEF Init, Looking
  <2>2. Cardinality({}) = 0
    BY FS_EmptySet
  <2> QED
    BY <2>1, <2>2, Constants DEF Slotted
<1>4. NoStreamLeak
  BY DEF Init, NoStreamLeak
<1>5. Choice
  BY DEF Init, Choice, ChoiceOf
<1> QED
  BY <1>1, <1>2, <1>3, <1>4, <1>5 DEF IInv

\* A step of one request leaves what the others have chosen.
LEMMA OthersChoice ==
    ASSUME Choice, NEW t \in Task, ChoiceOf(t)',
           \A u \in Task \ {t} :
              /\ pc'[u] = pc[u] /\ addresses'[u] = addresses[u] /\ tried'[u] = tried[u]
              /\ outcome'[u] = outcome[u]
    PROVE  Choice'
<1>1. \A u \in Task \ {t} : ChoiceOf(u)'
  BY DEF Choice, ChoiceOf, Allowance
<1> QED
  BY <1>1 DEF Choice

\* A step neither into nor out of a lookup leaves the slots.
LEMMA SlotsUntouched ==
    ASSUME Slotted, NEW t \in Task, UNCHANGED <<borrowers, lookups>>,
           pc[t] # "looking", pc'[t] # "looking", \A u \in Task \ {t} : pc'[u] = pc[u]
    PROVE  Slotted'
<1>1. Looking' = Looking
  BY DEF Looking
<1> QED
  BY <1>1 DEF Slotted

\* A step neither into nor out of the queue leaves it.
LEMMA QueueUntouched ==
    ASSUME Queued, NEW t \in Task, UNCHANGED queue,
           pc[t] # "queued", pc'[t] # "queued", \A u \in Task \ {t} : pc'[u] = pc[u]
    PROVE  Queued'
<1>1. {u \in Task : pc'[u] = "queued"} = {u \in Task : pc[u] = "queued"}
  OBVIOUS
<1> QED
  BY <1>1 DEF Queued

-----------------------------------------------------------------------------
(* The lookup.                                                             *)

LEMMA BeginKeeps ==
    ASSUME IInv, NEW t \in Task, Begin(t)
    PROVE  IInv'
<1>0. Typed /\ Queued /\ Slotted /\ NoStreamLeak /\ Choice
  BY DEF IInv
<1>1. /\ pc[t] \in {"idle", "done"}
      /\ pc' = [pc EXCEPT ![t] = "queued"] /\ queue' = Append(queue, t)
      /\ addresses' = [addresses EXCEPT ![t] = << >>] /\ tried' = [tried EXCEPT ![t] = << >>]
      /\ peer' = [peer EXCEPT ![t] = NoPeer]
      /\ streams' = streams \ {t} /\ cancelled' = cancelled \ {t}
      /\ outcome' = [outcome EXCEPT ![t] = "none"]
      /\ UNCHANGED <<onPartial, borrowers, lookups>>
  BY DEF Begin, Unwind
<1>2. Typed'
  <2>1. << >> \in Seq(Ip) /\ << >> \in Seq({"OSError", "TimeoutError", "stream"})
    OBVIOUS
  <2>2. /\ addresses' \in [Task -> Seq(Ip)]
        /\ tried' \in [Task -> Seq({"OSError", "TimeoutError", "stream"})]
    BY <1>0, <1>1, <2>1 DEF Typed
  <2> QED
    BY <1>0, <1>1, <2>2 DEF Typed
<1>3. /\ pc'[t] = "queued" /\ tried'[t] = << >> /\ outcome'[t] = "none"
      /\ \A u \in Task \ {t} : /\ pc'[u] = pc[u] /\ addresses'[u] = addresses[u]
                               /\ tried'[u] = tried[u] /\ outcome'[u] = outcome[u]
  BY <1>0, <1>1 DEF Typed
<1>4. Queued'
  <2>1. queue \in Seq(Task) /\ queue' \in Seq(Task) /\ Len(queue') = Len(queue) + 1
        /\ queue'[Len(queue) + 1] = t /\ \A i \in 1..Len(queue) : queue'[i] = queue[i]
    BY <1>0, <1>1 DEF Queued
  <2>2. \A i \in 1..Len(queue) : queue[i] # t
    BY <1>0, <1>1 DEF Queued
  <2>3. {queue'[i] : i \in 1..Len(queue')} = {queue[i] : i \in 1..Len(queue)} \cup {t}
    BY <2>1
  <2>4. {u \in Task : pc'[u] = "queued"} = {u \in Task : pc[u] = "queued"} \cup {t}
    BY <1>3
  <2>5. \A i, j \in 1..Len(queue') : queue'[i] = queue'[j] => i = j
    <3> SUFFICES ASSUME NEW i \in 1..Len(queue'), NEW j \in 1..Len(queue'),
                        queue'[i] = queue'[j]
                 PROVE  i = j
      OBVIOUS
    <3>1. CASE i = Len(queue) + 1 /\ j # Len(queue) + 1
      <4>1. j \in 1..Len(queue)
        BY <2>1, <3>1
      <4> QED
        BY <2>1, <2>2, <3>1, <4>1
    <3>2. CASE j = Len(queue) + 1 /\ i # Len(queue) + 1
      <4>1. i \in 1..Len(queue)
        BY <2>1, <3>2
      <4> QED
        BY <2>1, <2>2, <3>2, <4>1
    <3>3. CASE i # Len(queue) + 1 /\ j # Len(queue) + 1
      <4>1. i \in 1..Len(queue) /\ j \in 1..Len(queue)
        BY <2>1, <3>3
      <4> QED
        BY <1>0, <2>1, <4>1 DEF Queued
    <3> QED
      BY <3>1, <3>2, <3>3
  <2> QED
    BY <1>0, <2>1, <2>3, <2>4, <2>5 DEF Queued
<1>5. Slotted'
  BY <1>0, <1>1, <1>3, SlotsUntouched
<1>6. NoStreamLeak'
  BY <1>0, <1>1, <1>3 DEF NoStreamLeak
<1>7. Choice'
  <2>1. ChoiceOf(t)'
    BY <1>3 DEF ChoiceOf
  <2> QED
    BY <1>0, <1>3, <2>1, OthersChoice
<1> QED
  BY <1>2, <1>4, <1>5, <1>6, <1>7 DEF IInv

LEMMA StartLookupKeeps ==
    ASSUME IInv, NEW t \in Task, StartLookup(t)
    PROVE  IInv'
<1>0. Typed /\ Queued /\ Slotted /\ NoStreamLeak /\ Choice
  BY DEF IInv
<1>1. /\ pc[t] = "queued" /\ Head(queue) = t /\ Cardinality(borrowers) < Slots
      /\ pc' = [pc EXCEPT ![t] = "looking"] /\ queue' = Tail(queue)
      /\ borrowers' = borrowers \cup {t}
      /\ lookups' = lookups \cup {InWorker(t)}
      /\ UNCHANGED <<onPartial, addresses, tried, peer, streams, cancelled, outcome>>
  BY DEF StartLookup, connecting, InWorker
<1>2. Typed'
  BY <1>0, <1>1 DEF Typed
<1>3. pc'[t] = "looking" /\ \A u \in Task \ {t} : pc'[u] = pc[u]
  BY <1>0, <1>1 DEF Typed
<1>4. Queued'
  <2>1. queue \in Seq(Task) /\ Len(queue) > 0
    BY <1>0, <1>1 DEF Queued
  <2>2. /\ queue' \in Seq(Task) /\ Len(queue') = Len(queue) - 1 /\ queue[1] = t
        /\ \A i \in 1..Len(queue') : queue'[i] = queue[i + 1]
    BY <1>1, <2>1
  <2>3. \A i \in 2..Len(queue) : queue[i] # t
    BY <1>0, <2>1, <2>2 DEF Queued
  <2>4. {queue'[i] : i \in 1..Len(queue')} = {queue[i] : i \in 1..Len(queue)} \ {t}
    <3>1. ASSUME NEW i \in 1..Len(queue'), NEW u, u = queue'[i]
          PROVE  u \in {queue[k] : k \in 1..Len(queue)} \ {t}
      <4>1. i + 1 \in 2..Len(queue) /\ i + 1 \in 1..Len(queue)
        BY <2>1, <2>2, <3>1
      <4> QED
        BY <2>2, <2>3, <3>1, <4>1
    <3>2. ASSUME NEW i \in 1..Len(queue), queue[i] # t
          PROVE  queue[i] \in {queue'[k] : k \in 1..Len(queue')}
      <4>1. i - 1 \in 1..Len(queue') /\ i - 1 + 1 = i
        BY <2>1, <2>2, <3>2
      <4> QED
        BY <2>2, <4>1
    <3> QED
      BY <3>1, <3>2
  <2>5. {u \in Task : pc'[u] = "queued"} = {u \in Task : pc[u] = "queued"} \ {t}
    BY <1>3
  <2>6. \A i, j \in 1..Len(queue') : queue'[i] = queue'[j] => i = j
    <3> SUFFICES ASSUME NEW i \in 1..Len(queue'), NEW j \in 1..Len(queue'),
                        queue'[i] = queue'[j]
                 PROVE  i = j
      OBVIOUS
    <3>1. i + 1 \in 1..Len(queue) /\ j + 1 \in 1..Len(queue)
      BY <2>1, <2>2
    <3>2. i + 1 = j + 1
      BY <1>0, <2>2, <3>1 DEF Queued
    <3> QED
      BY <3>2
  <2> QED
    BY <1>0, <2>2, <2>4, <2>5, <2>6 DEF Queued
<1>5. Slotted'
  <2>1. Looking' = Looking \cup {t}
    BY <1>3 DEF Looking
  <2>2. IsFiniteSet(borrowers)
    BY <1>0, Constants, FS_Subset DEF Slotted, Looking
  <2>3. t \notin borrowers
    BY <1>0, <1>1 DEF Slotted, Looking
  <2>4. Cardinality(borrowers') = Cardinality(borrowers) + 1
    BY <1>1, <2>2, <2>3, FS_AddElement
  <2>5. Cardinality(borrowers) \in Nat
    BY <2>2, FS_CardinalityType
  <2>6. Cardinality(borrowers') <= Slots
    BY <1>1, <2>4, <2>5, Constants
  <2>7. lookups' = {InWorker(u) : u \in borrowers'}
    BY <1>0, <1>1 DEF Slotted
  <2> QED
    BY <1>0, <1>1, <2>1, <2>6, <2>7 DEF Slotted
<1>6. NoStreamLeak'
  BY <1>0, <1>1, <1>3 DEF NoStreamLeak
<1>7. Choice'
  <2>1. ChoiceOf(t)'
    BY <1>0, <1>1, <1>3 DEF Choice, ChoiceOf
  <2> QED
    BY <1>0, <1>1, <1>3, <2>1, OthersChoice
<1> QED
  BY <1>2, <1>4, <1>5, <1>6, <1>7 DEF IInv

\* What a lookup that ends does, whatever it found.
LookupEnds(t) ==
    /\ pc[t] = "looking"
    /\ lookups' = {lookup \in lookups : lookup.who # t}
    /\ borrowers' = borrowers \ {t}
    /\ UNCHANGED <<onPartial, queue, tried, peer, streams, cancelled>>

LEMMA SlotGivenBack ==
    ASSUME IInv, NEW t \in Task, LookupEnds(t), pc'[t] # "looking",
           \A u \in Task \ {t} : pc'[u] = pc[u]
    PROVE  Slotted'
<1>0. Slotted
  BY DEF IInv
<1>1. Looking' = Looking \ {t}
  BY DEF Looking
<1>2. lookups' = {InWorker(u) : u \in borrowers'}
  BY <1>0 DEF LookupEnds, Slotted, InWorker
<1>3. IsFiniteSet(borrowers)
  BY <1>0, Constants, FS_Subset DEF Slotted, Looking
<1>4. Cardinality(borrowers') <= Cardinality(borrowers)
  BY <1>3, FS_Subset DEF LookupEnds
<1>5. Cardinality(borrowers) \in Nat /\ Cardinality(borrowers') \in Nat
  BY <1>3, FS_CardinalityType, FS_Subset DEF LookupEnds
<1> QED
  BY <1>0, <1>1, <1>2, <1>4, <1>5, Constants DEF Slotted, LookupEnds

\* What a lookup may return that is not refused: addresses the policy permits.
LEMMA JudgedPermitted ==
    ASSUME NEW rows \in Judged, ~Refuses(rows)
    PROVE  /\ rows.permitted \in Seq(Ip) /\ rows.permitted # << >>
           /\ \A i \in 1..Len(rows.permitted) : rows.permitted[i] \in Permitted
<1>1. PICK n \in 0..MaxRows : rows.permitted \in [1..n -> Permitted]
  BY DEF Judged
<1>2. rows.permitted \in Seq(Permitted) /\ Len(rows.permitted) = n
  BY <1>1, BackendAssumption
<1>3. rows.permitted \in Seq(Ip)
  BY <1>2, Constants
<1>4. rows.permitted # << >>
  BY DEF Refuses
<1> QED
  BY <1>2, <1>3, <1>4

LEMMA LookupReturnsKeeps ==
    ASSUME IInv, NEW t \in Task, LookupReturns(t)
    PROVE  IInv'
<1>0. Typed /\ Queued /\ Slotted /\ NoStreamLeak /\ Choice
  BY DEF IInv
<1>1. LookupEnds(t)
  BY DEF LookupReturns, LookupEnds
<1>2. \/ \E rows \in Judged :
            /\ ~Refuses(rows)
            /\ addresses' = [addresses EXCEPT ![t] = rows.permitted]
            /\ pc' = [pc EXCEPT ![t] = "opening"] /\ outcome' = outcome
      \/ /\ pc' = [pc EXCEPT ![t] = "done"] /\ addresses' = addresses
         /\ \E result \in {"BlockedAddressError", "ConnectError", "OSError"} :
               outcome' = [outcome EXCEPT ![t] = result]
  BY DEF LookupReturns, Finish
<1>3. /\ pc[t] = "looking" /\ tried' = tried /\ peer' = peer /\ streams' = streams
      /\ queue' = queue /\ onPartial' = onPartial /\ cancelled' = cancelled
  BY <1>1 DEF LookupEnds
<1>4. CASE \E rows \in Judged :
              /\ ~Refuses(rows)
              /\ addresses' = [addresses EXCEPT ![t] = rows.permitted]
              /\ pc' = [pc EXCEPT ![t] = "opening"] /\ outcome' = outcome
  <2>1. PICK rows \in Judged :
              /\ ~Refuses(rows)
              /\ addresses' = [addresses EXCEPT ![t] = rows.permitted]
              /\ pc' = [pc EXCEPT ![t] = "opening"] /\ outcome' = outcome
    BY <1>4
  <2>2. /\ rows.permitted \in Seq(Ip) /\ rows.permitted # << >>
        /\ \A i \in 1..Len(rows.permitted) : rows.permitted[i] \in Permitted
    BY <2>1, JudgedPermitted
  <2>3. /\ pc'[t] = "opening" /\ addresses'[t] = rows.permitted
        /\ \A u \in Task \ {t} : /\ pc'[u] = pc[u] /\ addresses'[u] = addresses[u]
                                 /\ tried'[u] = tried[u] /\ outcome'[u] = outcome[u]
    BY <1>0, <1>3, <2>1 DEF Typed
  <2>4. Typed'
    <3>1. addresses' \in [Task -> Seq(Ip)]
      BY <1>0, <2>1, <2>2 DEF Typed
    <3> QED
      BY <1>0, <1>3, <2>1, <3>1 DEF Typed
  <2>5. Queued'
    BY <1>0, <1>3, <2>3, QueueUntouched
  <2>6. Slotted'
    BY <1>1, <2>3, SlotGivenBack
  <2>7. NoStreamLeak'
    BY <1>0, <1>3, <2>1, <2>3 DEF NoStreamLeak
  <2>8. Choice'
    <3>1. tried'[t] = << >> /\ outcome'[t] = "none"
      BY <1>0, <1>3, <2>1 DEF Choice, ChoiceOf
    <3>2. Len(tried'[t]) <= Allowance(t)'
      BY <2>2, <2>3, <3>1, Constants DEF Allowance
    <3>3. ChoiceOf(t)'
      BY <2>2, <2>3, <3>1, <3>2 DEF ChoiceOf
    <3> QED
      BY <1>0, <2>3, <3>3, OthersChoice
  <2> QED
    BY <2>4, <2>5, <2>6, <2>7, <2>8 DEF IInv
<1>5. CASE /\ pc' = [pc EXCEPT ![t] = "done"] /\ addresses' = addresses
           /\ \E result \in {"BlockedAddressError", "ConnectError", "OSError"} :
                 outcome' = [outcome EXCEPT ![t] = result]
  <2>1. PICK result \in {"BlockedAddressError", "ConnectError", "OSError"} :
            outcome' = [outcome EXCEPT ![t] = result]
    BY <1>5
  <2>2. /\ pc'[t] = "done" /\ outcome'[t] = result
        /\ \A u \in Task \ {t} : /\ pc'[u] = pc[u] /\ addresses'[u] = addresses[u]
                                 /\ tried'[u] = tried[u] /\ outcome'[u] = outcome[u]
    BY <1>0, <1>3, <1>5, <2>1 DEF Typed
  <2>3. Typed'
    BY <1>0, <1>3, <1>5, <2>1 DEF Typed
  <2>4. Queued'
    BY <1>0, <1>3, <2>2, QueueUntouched
  <2>5. Slotted'
    BY <1>1, <2>2, SlotGivenBack
  <2>6. NoStreamLeak'
    BY <1>0, <1>3, <2>2 DEF NoStreamLeak
  <2>7. Choice'
    <3>1. ChoiceOf(t)'
      BY <2>2 DEF ChoiceOf
    <3> QED
      BY <1>0, <2>2, <3>1, OthersChoice
  <2> QED
    BY <2>3, <2>4, <2>5, <2>6, <2>7 DEF IInv
<1> QED
  BY <1>2, <1>4, <1>5

-----------------------------------------------------------------------------
(* _first_reachable.                                                       *)

\* A step of a request that connects: neither queue nor slots are touched.
ConnectStep(t) ==
    /\ pc[t] \in {"opening", "dialling", "closing"}
    /\ UNCHANGED <<onPartial, queue, borrowers, lookups, cancelled>>

LEMMA ConnectStepKeeps ==
    ASSUME IInv, NEW t \in Task, ConnectStep(t), Typed', ChoiceOf(t)',
           pc'[t] \in {"opening", "dialling", "closing", "done"},
           streams' = IF pc'[t] = "closing" \/ (pc'[t] = "done" /\ outcome'[t] = "stream")
                      THEN streams \cup {t} ELSE streams \ {t},
           \A u \in Task \ {t} :
              /\ pc'[u] = pc[u] /\ addresses'[u] = addresses[u] /\ tried'[u] = tried[u]
              /\ outcome'[u] = outcome[u]
    PROVE  IInv'
<1>0. Queued /\ Slotted /\ NoStreamLeak /\ Choice
  BY DEF IInv
<1>1. Queued'
  BY <1>0, QueueUntouched DEF ConnectStep
<1>2. Slotted'
  BY <1>0, SlotsUntouched DEF ConnectStep
<1>3. NoStreamLeak'
  BY <1>0 DEF NoStreamLeak
<1>4. Choice'
  BY <1>0, OthersChoice
<1> QED
  BY <1>1, <1>2, <1>3, <1>4 DEF IInv

LEMMA DialKeeps ==
    ASSUME IInv, NEW t \in Task, Dial(t)
    PROVE  IInv'
<1>0. Typed /\ NoStreamLeak /\ Choice
  BY DEF IInv
<1>1. /\ pc[t] = "opening" /\ Len(tried[t]) < Allowance(t)
      /\ pc' = [pc EXCEPT ![t] = "dialling"]
      /\ UNCHANGED <<onPartial, queue, borrowers, lookups, addresses, tried, peer, streams,
                     cancelled, outcome>>
  BY DEF Dial, connecting
<1>2. pc'[t] = "dialling" /\ \A u \in Task \ {t} : pc'[u] = pc[u]
  BY <1>0, <1>1 DEF Typed
<1>3. Typed'
  BY <1>0, <1>1 DEF Typed
<1>4. ChoiceOf(t)'
  BY <1>0, <1>1, <1>2 DEF Choice, ChoiceOf, Allowance
<1>5. streams' = streams \ {t}
  BY <1>0, <1>1 DEF NoStreamLeak
<1> QED
  BY <1>1, <1>2, <1>3, <1>4, <1>5, ConnectStepKeeps DEF ConnectStep

LEMMA AttemptFailsKeeps ==
    ASSUME IInv, NEW t \in Task, AttemptFails(t)
    PROVE  IInv'
<1>0. Typed /\ NoStreamLeak /\ Choice
  BY DEF IInv
<1>1. /\ pc[t] = "dialling" /\ pc' = [pc EXCEPT ![t] = "opening"]
      /\ UNCHANGED <<onPartial, queue, borrowers, lookups, addresses, peer, streams,
                     cancelled, outcome>>
  BY DEF AttemptFails
<1>2. PICK result \in {"OSError", "TimeoutError"} :
          tried' = [tried EXCEPT ![t] = Append(tried[t], result)]
  BY DEF AttemptFails
<1>3. /\ tried[t] \in Seq({"OSError", "TimeoutError", "stream"})
      /\ Append(tried[t], result) \in Seq({"OSError", "TimeoutError", "stream"})
      /\ Len(Append(tried[t], result)) = Len(tried[t]) + 1
  BY <1>0 DEF Typed
<1>4. /\ pc'[t] = "opening" /\ tried'[t] = Append(tried[t], result)
      /\ \A u \in Task \ {t} : pc'[u] = pc[u] /\ tried'[u] = tried[u]
  BY <1>0, <1>1, <1>2 DEF Typed
<1>5. Typed'
  <2>1. tried' \in [Task -> Seq({"OSError", "TimeoutError", "stream"})]
    BY <1>0, <1>2, <1>3 DEF Typed
  <2> QED
    BY <1>0, <1>1, <2>1 DEF Typed
<1>6. ChoiceOf(t)'
  <2>1. Len(tried[t]) \in Nat /\ Len(tried[t]) < Allowance(t)
    BY <1>0, <1>1, <1>3 DEF Choice, ChoiceOf
  <2>2. Allowance(t) \in Nat /\ Allowance(t)' = Allowance(t)
    BY <1>0, <1>1, Constants DEF Typed, Allowance
  <2>3. Len(tried'[t]) <= Allowance(t)'
    BY <1>3, <1>4, <2>1, <2>2
  <2> QED
    BY <1>0, <1>1, <1>4, <2>3 DEF Choice, ChoiceOf
<1>7. streams' = streams \ {t}
  BY <1>0, <1>1 DEF NoStreamLeak
<1> QED
  BY <1>1, <1>4, <1>5, <1>6, <1>7, ConnectStepKeeps DEF ConnectStep

LEMMA ConnectedKeeps ==
    ASSUME IInv, NEW t \in Task, Connected(t)
    PROVE  IInv'
<1>0. Typed /\ Choice
  BY DEF IInv
<1>1. /\ pc[t] = "dialling" /\ pc' = [pc EXCEPT ![t] = "done"]
      /\ outcome' = [outcome EXCEPT ![t] = "stream"]
      /\ peer' = [peer EXCEPT ![t] = Current(t)] /\ streams' = streams \cup {t}
      /\ tried' = [tried EXCEPT ![t] = Append(tried[t], "stream")]
      /\ UNCHANGED <<onPartial, queue, borrowers, lookups, addresses, cancelled>>
  BY DEF Connected, Finish
<1>2. /\ tried[t] \in Seq({"OSError", "TimeoutError", "stream"})
      /\ Append(tried[t], "stream") \in Seq({"OSError", "TimeoutError", "stream"})
  BY <1>0 DEF Typed
<1>3. /\ pc'[t] = "done" /\ outcome'[t] = "stream"
      /\ \A u \in Task \ {t} : /\ pc'[u] = pc[u] /\ tried'[u] = tried[u]
                               /\ outcome'[u] = outcome[u]
  BY <1>0, <1>1 DEF Typed
<1>4. Current(t) \in Ip
  <2>1. /\ addresses[t] \in Seq(Ip) /\ Len(tried[t]) \in Nat
        /\ Len(tried[t]) < Allowance(t)
    BY <1>0, <1>1, <1>2 DEF Typed, Choice, ChoiceOf
  <2>2. Len(tried[t]) + 1 \in 1..Len(addresses[t])
    BY <2>1, Constants DEF Allowance
  <2> QED
    BY <2>1, <2>2 DEF Current
<1>5. Typed'
  <2>1. tried' \in [Task -> Seq({"OSError", "TimeoutError", "stream"})]
    BY <1>0, <1>1, <1>2 DEF Typed
  <2>2. peer' \in [Task -> Ip \cup {NoPeer}]
    BY <1>0, <1>1, <1>4 DEF Typed
  <2> QED
    BY <1>0, <1>1, <2>1, <2>2 DEF Typed
<1>6. ChoiceOf(t)'
  BY <1>3 DEF ChoiceOf
<1> QED
  BY <1>1, <1>3, <1>5, <1>6, ConnectStepKeeps DEF ConnectStep

LEMMA UnacceptableKeeps ==
    ASSUME IInv, NEW t \in Task, Unacceptable(t)
    PROVE  IInv'
<1>0. Typed /\ Choice
  BY DEF IInv
<1>1. /\ pc[t] = "dialling" /\ pc' = [pc EXCEPT ![t] = "closing"]
      /\ streams' = streams \cup {t}
      /\ UNCHANGED <<onPartial, queue, borrowers, lookups, addresses, tried, cancelled>>
  BY DEF Unacceptable
<1>2. PICK result \in {"BlockedAddressError", "OSError"} :
          outcome' = [outcome EXCEPT ![t] = result]
  BY DEF Unacceptable
<1>3. peer' \in [Task -> Ip \cup {NoPeer}]
  BY <1>0 DEF Unacceptable, Typed
<1>4. /\ pc'[t] = "closing" /\ outcome'[t] = result
      /\ \A u \in Task \ {t} : pc'[u] = pc[u] /\ outcome'[u] = outcome[u]
  BY <1>0, <1>1, <1>2 DEF Typed
<1>5. Typed'
  BY <1>0, <1>1, <1>2, <1>3 DEF Typed
<1>6. ChoiceOf(t)'
  BY <1>0, <1>1, <1>4 DEF Choice, ChoiceOf, Allowance
<1> QED
  BY <1>1, <1>4, <1>5, <1>6, ConnectStepKeeps DEF ConnectStep

LEMMA UnwindTyped ==
    ASSUME Typed, NEW t \in Task, Unwind(t)
    PROVE  /\ addresses' \in [Task -> Seq(Ip)]
           /\ tried' \in [Task -> Seq({"OSError", "TimeoutError", "stream"})]
           /\ \A u \in Task \ {t} : addresses'[u] = addresses[u] /\ tried'[u] = tried[u]
<1>1. << >> \in Seq(Ip) /\ << >> \in Seq({"OSError", "TimeoutError", "stream"})
  OBVIOUS
<1> QED
  BY <1>1 DEF Typed, Unwind

LEMMA ClosedKeeps ==
    ASSUME IInv, NEW t \in Task, Closed(t)
    PROVE  IInv'
<1>0. Typed /\ Choice
  BY DEF IInv
<1>1. /\ pc[t] = "closing" /\ pc' = [pc EXCEPT ![t] = "done"]
      /\ streams' = streams \ {t} /\ peer' = [peer EXCEPT ![t] = NoPeer] /\ Unwind(t)
      /\ UNCHANGED <<onPartial, queue, borrowers, lookups, cancelled, outcome>>
  BY DEF Closed
<1>2. /\ addresses' \in [Task -> Seq(Ip)]
      /\ tried' \in [Task -> Seq({"OSError", "TimeoutError", "stream"})]
      /\ \A u \in Task \ {t} : addresses'[u] = addresses[u] /\ tried'[u] = tried[u]
  BY <1>0, <1>1, UnwindTyped
<1>3. pc'[t] = "done" /\ \A u \in Task \ {t} : pc'[u] = pc[u]
  BY <1>0, <1>1 DEF Typed
<1>4. outcome'[t] # "stream"
  BY <1>0, <1>1 DEF Choice, ChoiceOf
<1>5. Typed'
  BY <1>0, <1>1, <1>2 DEF Typed
<1>6. ChoiceOf(t)'
  BY <1>3 DEF ChoiceOf
<1> QED
  BY <1>1, <1>2, <1>3, <1>4, <1>5, <1>6, ConnectStepKeeps DEF ConnectStep

LEMMA ExhaustedKeeps ==
    ASSUME IInv, NEW t \in Task, Exhausted(t)
    PROVE  IInv'
<1>0. Typed /\ NoStreamLeak
  BY DEF IInv
<1>1. /\ pc[t] = "opening" /\ pc' = [pc EXCEPT ![t] = "done"] /\ Unwind(t)
      /\ UNCHANGED <<onPartial, queue, borrowers, lookups, peer, streams, cancelled>>
  BY DEF Exhausted, Finish
<1>2. PICK result \in {"ConnectTimeout", "ConnectError"} :
          outcome' = [outcome EXCEPT ![t] = result]
  BY DEF Exhausted, Finish
<1>3. /\ addresses' \in [Task -> Seq(Ip)]
      /\ tried' \in [Task -> Seq({"OSError", "TimeoutError", "stream"})]
      /\ \A u \in Task \ {t} : addresses'[u] = addresses[u] /\ tried'[u] = tried[u]
  BY <1>0, <1>1, UnwindTyped
<1>4. /\ pc'[t] = "done" /\ outcome'[t] # "stream"
      /\ \A u \in Task \ {t} : pc'[u] = pc[u] /\ outcome'[u] = outcome[u]
  BY <1>0, <1>1, <1>2 DEF Typed
<1>5. Typed'
  BY <1>0, <1>1, <1>2, <1>3 DEF Typed
<1>6. ChoiceOf(t)'
  BY <1>4 DEF ChoiceOf
<1>7. streams' = streams \ {t}
  BY <1>0, <1>1 DEF NoStreamLeak
<1> QED
  BY <1>1, <1>3, <1>4, <1>5, <1>6, <1>7, ConnectStepKeeps DEF ConnectStep

-----------------------------------------------------------------------------
(* Cancellation.                                                           *)

LEMMA CancelKeeps ==
    ASSUME IInv, NEW t \in Task, Cancel(t)
    PROVE  IInv'
<1>0. Typed /\ Queued /\ Slotted /\ NoStreamLeak /\ Choice
  BY DEF IInv
<1>1. /\ cancelled' = cancelled \cup {t}
      /\ UNCHANGED <<onPartial, pc, queue, borrowers, lookups, addresses, tried, peer,
                     streams, outcome>>
  BY DEF Cancel, connecting
<1>2. Typed'
  BY <1>0, <1>1 DEF Typed
<1>3. Queued' /\ Slotted'
  BY <1>0, <1>1 DEF Queued, Slotted, Looking
<1>4. NoStreamLeak' /\ Choice'
  BY <1>0, <1>1 DEF NoStreamLeak, Choice, ChoiceOf, Allowance
<1> QED
  BY <1>2, <1>3, <1>4 DEF IInv

\* Cutting one request out of the queue.
LEMMA QueueLeft ==
    ASSUME Typed, Queued, NEW t \in Task, LeaveQueue(t), pc'[t] = "done",
           \A u \in Task \ {t} : pc'[u] = pc[u]
    PROVE  Queued'
<1>1. CASE pc[t] # "queued" /\ UNCHANGED queue
  BY <1>1, QueueUntouched
<1>2. CASE \E i \in 1..Len(queue) :
              /\ queue[i] = t
              /\ queue' = [j \in 1..(Len(queue) - 1) |-> queue[IF j < i THEN j ELSE j + 1]]
  <2>1. PICK i \in 1..Len(queue) :
              /\ queue[i] = t
              /\ queue' = [j \in 1..(Len(queue) - 1) |-> queue[IF j < i THEN j ELSE j + 1]]
    BY <1>2
  <2> DEFINE from(j) == IF j < i THEN j ELSE j + 1
  <2>2. queue \in Seq(Task) /\ Len(queue) \in Nat /\ Len(queue) > 0
    BY DEF Queued
  <2>3. \A j \in 1..(Len(queue) - 1) : /\ from(j) \in 1..Len(queue) /\ from(j) # i
                                       /\ queue'[j] = queue[from(j)]
    BY <2>1, <2>2
  <2>4. queue' \in Seq(Task) /\ Len(queue') = Len(queue) - 1
    <3>1. \A j \in 1..(Len(queue) - 1) : queue[from(j)] \in Task
      BY <2>2, <2>3
    <3>2. queue' \in [1..(Len(queue) - 1) -> Task]
      BY <2>1, <3>1
    <3>3. Len(queue) - 1 \in Nat
      BY <2>2
    <3> QED
      BY <3>2, <3>3
  <2>5. \A k \in 1..Len(queue) : queue[k] = t => k = i
    BY <2>1 DEF Queued
  <2>6. {queue'[j] : j \in 1..Len(queue')} = {queue[j] : j \in 1..Len(queue)} \ {t}
    <3>1. ASSUME NEW j \in 1..Len(queue')
          PROVE  queue'[j] \in {queue[k] : k \in 1..Len(queue)} \ {t}
      BY <2>3, <2>4, <2>5
    <3>2. ASSUME NEW k \in 1..Len(queue), queue[k] # t
          PROVE  queue[k] \in {queue'[j] : j \in 1..Len(queue')}
      <4>1. k # i
        BY <2>1, <3>2
      <4>2. CASE k < i
        <5>1. k \in 1..(Len(queue) - 1) /\ from(k) = k
          BY <2>1, <2>2, <4>2
        <5> QED
          BY <2>3, <2>4, <5>1
      <4>3. CASE k > i
        <5> DEFINE j == k - 1
        <5>1. j \in 1..(Len(queue) - 1) /\ from(j) = k
          BY <2>1, <2>2, <4>3
        <5> HIDE DEF j
        <5>2. queue'[j] = queue[k]
          BY <2>3, <5>1
        <5>3. j \in 1..Len(queue')
          BY <2>4, <5>1
        <5> QED
          BY <5>2, <5>3
      <4>4. k < i \/ k > i
        BY <2>2, <4>1
      <4> QED
        BY <4>2, <4>3, <4>4
    <3> QED
      BY <3>1, <3>2
  <2>7. {u \in Task : pc'[u] = "queued"} = {u \in Task : pc[u] = "queued"} \ {t}
    OBVIOUS
  <2>8. \A j, k \in 1..Len(queue') : queue'[j] = queue'[k] => j = k
    <3> SUFFICES ASSUME NEW j \in 1..Len(queue'), NEW k \in 1..Len(queue'),
                        queue'[j] = queue'[k]
                 PROVE  j = k
      OBVIOUS
    <3>1. j \in 1..(Len(queue) - 1) /\ k \in 1..(Len(queue) - 1)
      BY <2>4
    <3>2. /\ from(j) \in 1..Len(queue) /\ from(k) \in 1..Len(queue)
          /\ queue[from(j)] = queue[from(k)]
      BY <2>3, <3>1
    <3> HIDE DEF from
    <3>3. from(j) = from(k)
      BY <3>2 DEF Queued
    <3> QED
      BY <3>1, <3>3, <2>1 DEF from
  <2>9. {queue'[j] : j \in 1..Len(queue')} = {u \in Task : pc'[u] = "queued"}
    BY <2>6, <2>7 DEF Queued
  <2> QED
    BY <2>4, <2>8, <2>9 DEF Queued
<1> QED
  BY <1>1, <1>2 DEF LeaveQueue

LEMMA CancelledKeeps ==
    ASSUME IInv, NEW t \in Task, Cancelled(t)
    PROVE  IInv'
<1>0. Typed /\ Queued /\ Slotted /\ NoStreamLeak /\ Choice
  BY DEF IInv
<1>1. /\ pc[t] \in {"queued", "dialling", "closing"} /\ LeaveQueue(t) /\ Unwind(t)
      /\ pc' = [pc EXCEPT ![t] = "done"]
      /\ outcome' = [outcome EXCEPT ![t] = "cancelled"]
      /\ streams' = streams \ {t} /\ peer' = [peer EXCEPT ![t] = NoPeer]
      /\ UNCHANGED <<onPartial, borrowers, lookups, cancelled>>
  BY DEF Cancelled, Finish
<1>2. /\ addresses' \in [Task -> Seq(Ip)]
      /\ tried' \in [Task -> Seq({"OSError", "TimeoutError", "stream"})]
      /\ \A u \in Task \ {t} : addresses'[u] = addresses[u] /\ tried'[u] = tried[u]
  BY <1>0, <1>1, UnwindTyped
<1>3. /\ pc'[t] = "done" /\ outcome'[t] = "cancelled"
      /\ \A u \in Task \ {t} : pc'[u] = pc[u] /\ outcome'[u] = outcome[u]
  BY <1>0, <1>1 DEF Typed
<1>4. Typed'
  BY <1>0, <1>1, <1>2 DEF Typed
<1>5. Queued'
  BY <1>0, <1>1, <1>3, QueueLeft
<1>6. Slotted'
  BY <1>0, <1>1, <1>3, SlotsUntouched
<1>7. NoStreamLeak'
  BY <1>0, <1>1, <1>3 DEF NoStreamLeak
<1>8. Choice'
  <2>1. ChoiceOf(t)'
    BY <1>3 DEF ChoiceOf
  <2> QED
    BY <1>0, <1>2, <1>3, <2>1, OthersChoice
<1> QED
  BY <1>4, <1>5, <1>6, <1>7, <1>8 DEF IInv

LEMMA StutterKeeps ==
    ASSUME IInv, UNCHANGED vars
    PROVE  IInv'
<1>0. UNCHANGED <<onPartial, pc, queue, borrowers, lookups, addresses, tried, peer, streams,
                  cancelled, outcome>>
  BY DEF vars, connecting
<1>1. Typed' /\ Queued' /\ Slotted'
  BY <1>0 DEF IInv, Typed, Queued, Slotted, Looking
<1>2. NoStreamLeak' /\ Choice'
  BY <1>0 DEF IInv, NoStreamLeak, Choice, ChoiceOf, Allowance
<1> QED
  BY <1>1, <1>2 DEF IInv

-----------------------------------------------------------------------------
(* The theorems about one loop.                                            *)

LEMMA StepKeeps == IInv /\ [Next]_vars => IInv'
<1> SUFFICES ASSUME IInv, [Next]_vars PROVE IInv'
  OBVIOUS
<1>1. CASE UNCHANGED vars
  BY <1>1, StutterKeeps
<1>2. ASSUME NEW t \in Task, Begin(t) PROVE IInv'
  BY <1>2, BeginKeeps
<1>3. ASSUME NEW t \in Task, StartLookup(t) PROVE IInv'
  BY <1>3, StartLookupKeeps
<1>4. ASSUME NEW t \in Task, LookupReturns(t) PROVE IInv'
  BY <1>4, LookupReturnsKeeps
<1>5. ASSUME NEW t \in Task, Connect(t) PROVE IInv'
  BY <1>5, DialKeeps, AttemptFailsKeeps, ConnectedKeeps, UnacceptableKeeps, ClosedKeeps,
     ExhaustedKeeps DEF Connect
<1>6. ASSUME NEW t \in Task, Cancel(t) \/ Cancelled(t) PROVE IInv'
  BY <1>6, CancelKeeps, CancelledKeeps
<1> QED
  BY <1>1, <1>2, <1>3, <1>4, <1>5, <1>6 DEF Next

\* The inductive invariant of the loop.
THEOREM Invariant == Spec => []IInv
BY InitHolds, StepKeeps, PTL DEF Spec

\* Every variable keeps its type, and the queue holds the requests that wait for a slot,
\* once each, wherever cancellation cuts one out.
THEOREM TypeCorrect == Spec => []TypeOK
<1>1. IInv => TypeOK
  <2> SUFFICES ASSUME IInv PROVE TypeOK
    OBVIOUS
  <2>1. Typed /\ Queued /\ Slotted /\ NoStreamLeak
    BY DEF IInv
  <2>2. borrowers \subseteq Task /\ streams \subseteq Task
    BY <2>1 DEF Slotted, Looking, NoStreamLeak
  <2>3. lookups \subseteq [who : Task, thread : {"worker", "loop"}]
    BY <2>1, <2>2 DEF Slotted, InWorker
  <2> QED
    BY <2>1, <2>2, <2>3 DEF TypeOK, Typed, Queued
<1> QED
  BY Invariant, <1>1, PTL

\* For every number of requests and slots, cancelled or not: no more threads look names up
\* than the client has slots.
THEOREM BoundedLookups == Spec => []LookupsBounded
<1>1. IInv => LookupsBounded
  <2> SUFFICES ASSUME IInv PROVE LookupsBounded
    OBVIOUS
  <2>1. Slotted
    BY DEF IInv
  <2>2. IsFiniteSet(borrowers)
    BY <2>1, Constants, FS_Subset DEF Slotted, Looking
  <2>3. lookups = {InWorker(t) : t \in borrowers}
    BY <2>1 DEF Slotted
  <2> DEFINE threads == {InWorker(t) : t \in borrowers}
             f == [t \in borrowers |-> InWorker(t)]
  <2>4. IsFiniteSet(threads) /\ Cardinality(threads) <= Cardinality(borrowers)
    <3>1. f \in Surjection(borrowers, threads)
      BY DEF Surjection
    <3> HIDE DEF f, threads
    <3> QED
      BY <2>2, <3>1, FS_Surjection
  <2>5. Cardinality(borrowers) \in Nat /\ Cardinality(threads) \in Nat
    BY <2>2, <2>4, FS_CardinalityType
  <2> QED
    BY <2>1, <2>3, <2>4, <2>5, Constants DEF Slotted, LookupsBounded
<1> QED
  BY Invariant, <1>1, PTL

\* Every open stream was handed out or is being closed, whatever was cancelled when.
THEOREM StreamsAccountedFor == Spec => []NoStreamLeak
<1>1. IInv => NoStreamLeak
  BY DEF IInv
<1> QED
  BY Invariant, <1>1, PTL

-----------------------------------------------------------------------------
(* Each request implements Pin.                                            *)

LEMMA InitRefines == Init => \A t \in Task : Promise(t)!Init
BY DEF Init, Promise!Init, Phase, Pinned

\* The addresses of a request, as Pin sees them.
Addresses(t) == {[ip |-> addresses[t][i]] : i \in 1..Len(addresses[t])}

\* A request that nothing was done for has done nothing for Pin either.
LEMMA OthersStutter ==
    ASSUME NEW u \in Task,
           pc'[u] = pc[u], addresses'[u] = addresses[u], tried'[u] = tried[u],
           peer'[u] = peer[u], outcome'[u] = outcome[u]
    PROVE  UNCHANGED Promise(u)!vars
<1>1. Phase(u)' = Phase(u)
  BY DEF Phase
<1>2. Pinned(u)' = Pinned(u) /\ Current(u)' = Current(u)
  BY <1>1 DEF Pinned, Current
<1> QED
  BY <1>1, <1>2 DEF Promise!vars

LEMMA ChooseRefines ==
    ASSUME IInv, NEW t \in Task, LookupReturns(t), IInv'
    PROVE  Promise(t)!Next \/ UNCHANGED Promise(t)!vars
<1>0. Typed /\ Choice /\ Choice'
  BY DEF IInv
<1>1. /\ pc[t] = "looking" /\ tried' = tried /\ tried[t] = << >>
  BY <1>0 DEF LookupReturns, Choice, ChoiceOf
<1>2. Phase(t) = "choosing" /\ ~Pinned(t)
  BY <1>1 DEF Phase, Pinned
<1>3. CASE pc'[t] = "opening"
  <2>1. Phase(t)' = "pinned" /\ Pinned(t)'
    BY <1>3 DEF Phase, Pinned
  <2>2. /\ addresses'[t] # << >> /\ addresses' \in [Task -> Seq(Ip)]
        /\ \A i \in 1..Len(addresses'[t]) : addresses'[t][i] \in Permitted
    BY <1>0, <1>3 DEF Choice, ChoiceOf, IInv, Typed
  <2>3. /\ Addresses(t)' \in SUBSET {a \in [ip : Ip] : a.ip \in Permitted}
        /\ Addresses(t)' # {}
    <3>1. addresses'[t] \in Seq(Ip) /\ 1 \in 1..Len(addresses'[t])
      BY <2>2
    <3>2. [ip |-> addresses'[t][1]] \in Addresses(t)'
      BY <3>1 DEF Addresses
    <3>3. \A i \in 1..Len(addresses'[t]) : [ip |-> addresses'[t][i]] \in
             {a \in [ip : Ip] : a.ip \in Permitted}
      BY <2>2, <3>1
    <3> QED
      BY <3>2, <3>3 DEF Addresses
  <2>4. Promise(t)!Choose
    BY <1>1, <1>2, <2>1, <2>3 DEF Promise!Choose, Addresses
  <2> QED
    BY <2>4 DEF Promise!Next
<1>4. CASE pc'[t] = "done"
  <2>1. outcome'[t] \in {"BlockedAddressError", "ConnectError", "OSError"}
    BY <1>0, <1>4 DEF LookupReturns, Finish, Typed
  <2>2. Phase(t)' \in {"refused", "failed"} /\ ~Pinned(t)'
    BY <1>4, <2>1 DEF Phase, Pinned
  <2>3. Promise(t)!Stop
    BY <1>2, <2>2 DEF Promise!Stop, Promise!Ended
  <2> QED
    BY <2>3 DEF Promise!Next
<1>5. pc'[t] = "opening" \/ pc'[t] = "done"
  BY <1>0 DEF LookupReturns, Finish, Typed
<1> QED
  BY <1>3, <1>4, <1>5

LEMMA BeginRefines ==
    ASSUME Typed, NEW t \in Task, Begin(t)
    PROVE  Promise(t)!Next \/ UNCHANGED Promise(t)!vars
<1>1. pc[t] \in {"idle", "done"} /\ pc'[t] = "queued"
  BY DEF Begin, Typed
<1>2. Phase(t)' = "choosing" /\ ~Pinned(t)'
  BY <1>1 DEF Phase, Pinned
<1>3. CASE pc[t] = "idle"
  <2>1. Phase(t) = "choosing" /\ ~Pinned(t)
    BY <1>3 DEF Phase, Pinned
  <2> QED
    BY <1>2, <2>1 DEF Promise!vars
<1>4. CASE pc[t] = "done"
  <2>1. Phase(t) \in {"connected", "refused", "failed"}
    BY <1>4 DEF Phase
  <2>2. Promise(t)!StartOver
    BY <1>2, <2>1 DEF Promise!StartOver, Promise!Ended
  <2> QED
    BY <2>2 DEF Promise!Next
<1> QED
  BY <1>1, <1>3, <1>4

LEMMA DialRefines ==
    ASSUME IInv, NEW t \in Task, Dial(t)
    PROVE  Promise(t)!Next \/ UNCHANGED Promise(t)!vars
<1>0. Typed
  BY DEF IInv
<1>1. /\ pc[t] = "opening" /\ pc'[t] = "dialling" /\ Len(tried[t]) < Allowance(t)
      /\ addresses'[t] = addresses[t] /\ tried'[t] = tried[t]
  BY <1>0 DEF Dial, connecting, Typed
<1>2. /\ Phase(t) = "pinned" /\ Pinned(t)
      /\ Phase(t)' = "dialling" /\ Pinned(t)'
  BY <1>1 DEF Phase, Pinned
<1>3. /\ Len(tried[t]) \in Nat /\ Len(tried[t]) < MaxAttempts
      /\ Len(tried[t]) + 1 \in 1..Len(addresses[t])
  <2>1. Len(tried[t]) \in Nat /\ Len(addresses[t]) \in Nat
    BY <1>0 DEF Typed
  <2> QED
    BY <1>1, <2>1, Constants DEF Allowance
<1>4. Current(t)' = Current(t) /\ [ip |-> Current(t)] \in Addresses(t)
  BY <1>1, <1>3 DEF Current, Addresses
<1>5. {[ip |-> Current(t)']} \in
         {{a} : a \in {[ip |-> addresses[t][i]] : i \in 1..Len(addresses[t])}}
  BY <1>4 DEF Addresses
<1>6. Promise(t)!Dial
  <2>1. Len(tried'[t]) = Len(tried[t])
    BY <1>1
  <2>2. addresses'[t] = addresses[t]
    BY <1>1
  <2> QED
    BY <1>2, <1>3, <1>5, <2>1, <2>2 DEF Promise!Dial
<1> QED
  BY <1>6 DEF Promise!Next

LEMMA AttemptFailsRefines ==
    ASSUME IInv, NEW t \in Task, AttemptFails(t)
    PROVE  Promise(t)!Next \/ UNCHANGED Promise(t)!vars
<1>0. Typed
  BY DEF IInv
<1>1. pc[t] = "dialling" /\ pc'[t] = "opening" /\ addresses'[t] = addresses[t]
  BY <1>0 DEF AttemptFails, Typed
<1>2. /\ Phase(t) = "dialling" /\ Pinned(t)
      /\ Phase(t)' = "pinned" /\ Pinned(t)'
  BY <1>1 DEF Phase, Pinned
<1>3. Len(tried'[t]) = Len(tried[t]) + 1 /\ Len(tried[t]) \in Nat
  BY <1>0 DEF AttemptFails, Typed
<1>4. Promise(t)!Miss
  BY <1>1, <1>2, <1>3 DEF Promise!Miss
<1> QED
  BY <1>4 DEF Promise!Next

LEMMA ConnectedRefines ==
    ASSUME IInv, NEW t \in Task, Connected(t)
    PROVE  Promise(t)!Next \/ UNCHANGED Promise(t)!vars
<1>0. Typed
  BY DEF IInv
<1>1. /\ pc[t] = "dialling" /\ pc'[t] = "done" /\ outcome'[t] = "stream"
      /\ peer'[t] = Current(t) /\ addresses'[t] = addresses[t]
  BY <1>0 DEF Connected, Finish, Typed
<1>2. /\ Phase(t) = "dialling" /\ Pinned(t)
      /\ Phase(t)' = "connected" /\ ~Pinned(t)'
  BY <1>1 DEF Phase, Pinned
<1>3. Len(tried'[t]) = Len(tried[t]) + 1 /\ Len(tried[t]) \in Nat
  BY <1>0 DEF Connected, Typed
<1>4. addresses'[t][Len(tried'[t])] = Current(t)
  BY <1>1, <1>3 DEF Current
<1>5. Promise(t)!Land
  BY <1>1, <1>2, <1>4 DEF Promise!Land
<1> QED
  BY <1>5 DEF Promise!Next

LEMMA UnacceptableRefines ==
    ASSUME IInv, NEW t \in Task, Unacceptable(t)
    PROVE  UNCHANGED Promise(t)!vars
<1>0. Typed
  BY DEF IInv
<1>1. /\ pc[t] = "dialling" /\ pc'[t] = "closing"
      /\ addresses'[t] = addresses[t] /\ tried'[t] = tried[t]
  BY <1>0 DEF Unacceptable, Typed
<1>2. /\ Phase(t) = "dialling" /\ Pinned(t)
      /\ Phase(t)' = "dialling" /\ Pinned(t)' /\ Current(t)' = Current(t)
  BY <1>1 DEF Phase, Pinned, Current
<1> QED
  BY <1>1, <1>2 DEF Promise!vars

\* A request that ends without a stream.
LEMMA StopRefines ==
    ASSUME NEW t \in Task,
           pc[t] \in {"queued", "opening", "dialling", "closing"},
           pc'[t] = "done", outcome'[t] # "stream"
    PROVE  Promise(t)!Next
<1>1. Phase(t) \in {"choosing", "pinned", "dialling"}
  BY DEF Phase
<1>2. Phase(t)' \in {"refused", "failed"} /\ ~Pinned(t)'
  BY DEF Phase, Pinned
<1>3. Promise(t)!Stop
  BY <1>1, <1>2 DEF Promise!Stop, Promise!Ended
<1> QED
  BY <1>3 DEF Promise!Next

LEMMA EndRefines ==
    ASSUME IInv, NEW t \in Task, Closed(t) \/ Exhausted(t) \/ Cancelled(t)
    PROVE  Promise(t)!Next
<1>0. Typed /\ Choice
  BY DEF IInv
<1>1. CASE Closed(t)
  <2>1. pc[t] = "closing" /\ pc'[t] = "done" /\ outcome'[t] = outcome[t]
    BY <1>0, <1>1 DEF Closed, Typed
  <2>2. outcome[t] # "stream"
    BY <1>0, <2>1 DEF Choice, ChoiceOf
  <2> QED
    BY <2>1, <2>2, StopRefines
<1>2. CASE Exhausted(t)
  <2>1. pc[t] = "opening" /\ pc'[t] = "done" /\ outcome'[t] # "stream"
    BY <1>0, <1>2 DEF Exhausted, Finish, Typed
  <2> QED
    BY <2>1, StopRefines
<1>3. CASE Cancelled(t)
  <2>1. /\ pc[t] \in {"queued", "dialling", "closing"} /\ pc'[t] = "done"
        /\ outcome'[t] # "stream"
    BY <1>0, <1>3 DEF Cancelled, Finish, Typed
  <2> QED
    BY <2>1, StopRefines
<1> QED
  BY <1>1, <1>2, <1>3

LEMMA QuietRefines ==
    ASSUME IInv, NEW t \in Task, StartLookup(t) \/ Cancel(t)
    PROVE  UNCHANGED Promise(t)!vars
<1>0. Typed
  BY DEF IInv
<1>1. CASE StartLookup(t)
  <2>1. pc[t] = "queued" /\ pc'[t] = "looking"
    BY <1>0, <1>1 DEF StartLookup, Typed
  <2>2. Phase(t) = "choosing" /\ Phase(t)' = "choosing" /\ ~Pinned(t) /\ ~Pinned(t)'
    BY <2>1 DEF Phase, Pinned
  <2> QED
    BY <2>2 DEF Promise!vars
<1>2. CASE Cancel(t)
  <2>1. UNCHANGED <<pc, addresses, tried, peer, outcome>>
    BY <1>2 DEF Cancel, connecting
  <2> QED
    BY <2>1, OthersStutter
<1> QED
  BY <1>1, <1>2

\* A step of one request leaves what Pin sees of the others.
LEMMA OthersUntouched ==
    ASSUME Typed, NEW t \in Task, NEW u \in Task \ {t},
           Begin(t) \/ StartLookup(t) \/ LookupReturns(t) \/ Connect(t) \/ Cancel(t)
              \/ Cancelled(t)
    PROVE  UNCHANGED Promise(u)!vars
<1>1. CASE Begin(t) \/ StartLookup(t) \/ Cancel(t) \/ Cancelled(t)
  <2>1. /\ pc'[u] = pc[u] /\ addresses'[u] = addresses[u] /\ tried'[u] = tried[u]
        /\ peer'[u] = peer[u] /\ outcome'[u] = outcome[u]
    BY <1>1 DEF Begin, StartLookup, Cancel, Cancelled, Typed, Unwind, Finish, connecting
  <2> QED
    BY <2>1, OthersStutter
<1>2. CASE LookupReturns(t)
  <2>1. /\ pc'[u] = pc[u] /\ addresses'[u] = addresses[u] /\ tried'[u] = tried[u]
        /\ peer'[u] = peer[u] /\ outcome'[u] = outcome[u]
    BY <1>2 DEF LookupReturns, Typed, Finish
  <2> QED
    BY <2>1, OthersStutter
<1>3. CASE Connect(t)
  <2>1. /\ pc'[u] = pc[u] /\ addresses'[u] = addresses[u] /\ tried'[u] = tried[u]
        /\ peer'[u] = peer[u] /\ outcome'[u] = outcome[u]
    BY <1>3 DEF Connect, Dial, AttemptFails, Connected, Unacceptable, Closed, Exhausted,
       Typed, Unwind, Finish, connecting
  <2> QED
    BY <2>1, OthersStutter
<1> QED
  BY <1>1, <1>2, <1>3

LEMMA NextRefines ==
    IInv /\ [Next]_vars /\ IInv' =>
        \A u \in Task : Promise(u)!Next \/ UNCHANGED Promise(u)!vars
<1> SUFFICES ASSUME IInv, [Next]_vars, IInv', NEW u \in Task
             PROVE  Promise(u)!Next \/ UNCHANGED Promise(u)!vars
  OBVIOUS
<1>0. Typed
  BY DEF IInv
<1>1. CASE UNCHANGED vars
  BY <1>1, OthersStutter DEF vars, connecting
<1>2. CASE Next
  <2>1. PICK t \in Task : Begin(t) \/ StartLookup(t) \/ LookupReturns(t) \/ Connect(t)
                          \/ Cancel(t) \/ Cancelled(t)
    BY <1>2 DEF Next
  <2>2. CASE u # t
    BY <1>0, <2>1, <2>2, OthersUntouched
  <2>3. CASE u = t
    BY <1>0, <2>1, <2>3, BeginRefines, QuietRefines, ChooseRefines, DialRefines,
       AttemptFailsRefines, ConnectedRefines, UnacceptableRefines, EndRefines DEF Connect
  <2> QED
    BY <2>2, <2>3
<1> QED
  BY <1>1, <1>2

\* Each request of the loop keeps the promise of Pin, whatever the others, their lookups
\* and their cancellations do: what it may dial was fixed once out of permitted answers.
THEOREM PinImplemented == Spec => EveryRequestKeepsThePin
<1>1. Init => \A t \in Task : Promise(t)!Init
  BY InitRefines
<1>2. IInv /\ [Next]_vars /\ IInv' =>
          [\A t \in Task : Promise(t)!Next \/ UNCHANGED Promise(t)!vars]_vars
  BY NextRefines
<1> QED
  BY <1>1, <1>2, Invariant, PTL DEF Spec, EveryRequestKeepsThePin
=============================================================================
