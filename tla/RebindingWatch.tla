---------------------------- MODULE RebindingWatch ----------------------------
(***************************************************************************)
(* RebindingWatch in src/ssrfguard/_observer.py, as report() calls it: an  *)
(* observer that remembers, per host, the permitted addresses it was told  *)
(* of, and fills in also_seen on a refusal of the same host.               *)
(*                                                                         *)
(* The watch holds no lock, and one watch is called by every thread whose  *)
(* client was given it: callers of the synchronous clients, and the worker *)
(* threads in which AsyncClient resolves.  A step here is what CPython     *)
(* runs without giving another thread a turn: one operation on the         *)
(* OrderedDict, or one turn of the loop over it.  The OrderedDict itself   *)
(* is a sequence, oldest first, with the counter its iterators compare to  *)
(* tell that it was changed under them.                                    *)
(***************************************************************************)
EXTENDS Naturals, Sequences, FiniteSets

CONSTANTS
    Host,          \* names, as the policy normalised them
    Ip,            \* addresses
    Permitted,     \* those the policy accepts; the policy does not change
    Thread,        \* threads that may share the watch
    Window,        \* RebindingWatch.window
    Capacity,      \* RebindingWatch.capacity
    MaxTime,       \* bound: the last reading of the clock
    MaxDecisions   \* bound: decisions reported in one behaviour

ASSUME WatchAssumption ==
    /\ Permitted \subseteq Ip
    /\ Window \in Nat \ {0}
    /\ Capacity \in Nat \ {0}
    /\ IsFiniteSet(Thread)

VARIABLES
    callers,    \* the threads that use the watch in this behaviour
    now,        \* the monotonic clock
    seen,       \* the OrderedDict: sightings in order, oldest first
    changes,    \* how often a key was added to or removed from seen
    made,       \* every decision reported, in order, with its time
    handed,     \* what the wrapped observer was called with, in order
    pc,         \* per thread: where __call__ is
    serving,    \* per thread: the index in made of the decision it carries
    scan,       \* per thread: the loop over seen in _forget
    held        \* per thread: a value read from seen and not yet used

vars == <<callers, now, seen, changes, made, handed, pc, serving, scan, held>>

Outcome(ip) == IF ip \in Permitted THEN "permitted" ELSE "refused"

\* A decision about an address.  The other stages are passed on unread.
Decision == [host : Host, ip : Ip, stage : {"address", "peer"}, at : Nat]

\* What is on file for a host; the order of its addresses decides nothing.
Sighting == [host : Host, addresses : SUBSET Ip, at : Nat]

Hosts(entries) == {entries[i].host : i \in 1..Len(entries)}

At(entries, host) == CHOOSE i \in 1..Len(entries) : entries[i].host = host

Without(entries, host) ==
    [i \in 1..(Len(entries) - 1) |-> entries[IF i < At(entries, host) THEN i ELSE i + 1]]

NoScan == [next |-> 0, span |-> 0, changes |-> 0, stale |-> << >>]

\* The decision a thread is carrying through __call__.
Carried(t) == made[serving[t]]

Init ==
    /\ callers \in (SUBSET Thread) \ {{}}
    /\ now = 0 /\ seen = << >> /\ changes = 0
    /\ made = << >> /\ handed = << >>
    /\ pc = [t \in Thread |-> "idle"]
    /\ serving = [t \in Thread |-> 0]
    /\ scan = [t \in Thread |-> NoScan]
    /\ held = [t \in Thread |-> {}]

Tick ==
    /\ now < MaxTime
    /\ now' = now + 1
    /\ UNCHANGED <<callers, seen, changes, made, handed, pc, serving, scan, held>>

\* report() calls the watch.  An address decision reads the clock and starts the
\* loop of _forget; any other goes straight to the wrapped observer.
Report(t) ==
    /\ pc[t] = "idle"
    /\ Len(made) < MaxDecisions
    /\ \E host \in Host, ip \in Ip, stage \in {"address", "peer"} :
          /\ made' = Append(made, [host |-> host, ip |-> ip, stage |-> stage, at |-> now])
          /\ pc' = [pc EXCEPT ![t] = IF stage = "address" THEN "forgetting" ELSE "passing"]
    /\ serving' = [serving EXCEPT ![t] = Len(made) + 1]
    /\ scan' = [scan EXCEPT ![t] = [NoScan EXCEPT !.span = Len(seen), !.changes = changes]]
    /\ held' = [held EXCEPT ![t] = {}]
    /\ UNCHANGED <<callers, now, seen, changes, handed>>

\* Fault: a sighting exactly as old as the window is dropped.
FaultWindowExclusive(t, sighting) == Carried(t).at >= sighting.at + Window

Stale(t, sighting) == Carried(t).at > sighting.at + Window

\* One turn of the comprehension over seen.items().
Scan(t) ==
    /\ pc[t] = "forgetting"
    /\ scan[t].next < scan[t].span
    /\ scan[t].changes = changes
    /\ LET entry == seen[scan[t].next + 1]
       IN  scan' = [scan EXCEPT ![t].next = @ + 1,
                                ![t].stale = IF Stale(t, entry) THEN Append(@, entry.host) ELSE @]
    /\ UNCHANGED <<callers, now, seen, changes, made, handed, pc, serving, held>>

ScanEnds(t) ==
    /\ pc[t] = "forgetting"
    /\ scan[t].next = scan[t].span
    /\ pc' = [pc EXCEPT ![t] = "deleting"]
    /\ UNCHANGED <<callers, now, seen, changes, made, handed, serving, scan, held>>

\* del self._seen[host], for each host the loop collected.
Delete(t) ==
    /\ pc[t] = "deleting"
    /\ scan[t].stale # << >>
    /\ Head(scan[t].stale) \in Hosts(seen)
    /\ seen' = Without(seen, Head(scan[t].stale))
    /\ changes' = changes + 1
    /\ scan' = [scan EXCEPT ![t].stale = Tail(@)]
    /\ UNCHANGED <<callers, now, made, handed, pc, serving, held>>

\* Fault: the refusal is compared before what is stale is dropped.
FaultComparesFirst(t) ==
    /\ pc[t] = "deleting"
    /\ Outcome(Carried(t).ip) = "refused"
    /\ held' = [held EXCEPT ![t] =
                  IF Carried(t).host \in Hosts(seen)
                  THEN seen[At(seen, Carried(t).host)].addresses \ {Carried(t).ip}
                  ELSE {}]
    /\ pc' = [pc EXCEPT ![t] = "passing"]
    /\ UNCHANGED <<callers, now, seen, changes, made, handed, serving, scan>>

\* A refusal: what else is on file for the host, other than the address refused.
Compare(t) ==
    /\ pc[t] = "deleting"
    /\ scan[t].stale = << >>
    /\ Outcome(Carried(t).ip) = "refused"
    /\ held' = [held EXCEPT ![t] =
                  IF Carried(t).host \in Hosts(seen)
                  THEN seen[At(seen, Carried(t).host)].addresses \ {Carried(t).ip}
                  ELSE {}]
    /\ pc' = [pc EXCEPT ![t] = "passing"]
    /\ UNCHANGED <<callers, now, seen, changes, made, handed, serving, scan>>

\* Fault: what was refused is remembered like what was permitted.
FaultRemembersRefusals(t) ==
    /\ pc[t] = "deleting" /\ scan[t].stale = << >>
    /\ seen' = Without(seen, Carried(t).host) /\ changes' = changes + 1
    /\ pc' = [pc EXCEPT ![t] = "storing"]
    /\ UNCHANGED <<callers, now, made, handed, serving, scan, held>>

\* A permit, _remember: self._seen.pop(host, None).
TakeOut(t) ==
    /\ pc[t] = "deleting"
    /\ scan[t].stale = << >>
    /\ Outcome(Carried(t).ip) = "permitted"
    /\ IF Carried(t).host \in Hosts(seen)
       THEN /\ held' = [held EXCEPT ![t] = seen[At(seen, Carried(t).host)].addresses]
            /\ seen' = Without(seen, Carried(t).host)
            /\ changes' = changes + 1
       ELSE UNCHANGED <<held, seen, changes>>
    /\ pc' = [pc EXCEPT ![t] = "storing"]
    /\ UNCHANGED <<callers, now, made, handed, serving, scan>>

\* Fault: the addresses on file are kept and the new one is not added.
FaultForgetsTheNew(t) ==
    [host |-> Carried(t).host, addresses |-> held[t], at |-> Carried(t).at]

Remembered(t) ==
    [host |-> Carried(t).host,
     addresses |-> held[t] \cup {Carried(t).ip},
     at |-> Carried(t).at]

\* self._seen[host] = ...; a key another thread put back meanwhile keeps its place.
PutBack(t) ==
    /\ pc[t] = "storing"
    /\ LET sighting == Remembered(t)
       IN  IF sighting.host \in Hosts(seen)
           THEN /\ seen' = [seen EXCEPT ![At(seen, sighting.host)] = sighting]
                /\ UNCHANGED changes
           ELSE /\ seen' = Append(seen, sighting)
                /\ changes' = changes + 1
    /\ held' = [held EXCEPT ![t] = {}]
    /\ pc' = [pc EXCEPT ![t] = "counting"]
    /\ UNCHANGED <<callers, now, made, handed, serving, scan>>

\* Fault: the capacity is compared as if it might be exceeded by one.
FaultOneTooMany(t) ==
    /\ pc[t] = "counting"
    /\ pc' = [pc EXCEPT ![t] = IF Len(seen) > Capacity + 1 THEN "evicting" ELSE "passing"]
    /\ UNCHANGED <<callers, now, seen, changes, made, handed, serving, scan, held>>

\* while len(self._seen) > self.capacity
Count(t) ==
    /\ pc[t] = "counting"
    /\ pc' = [pc EXCEPT ![t] = IF Len(seen) > Capacity THEN "evicting" ELSE "passing"]
    /\ UNCHANGED <<callers, now, seen, changes, made, handed, serving, scan, held>>

\* self._seen.popitem(last=False)
Evict(t) ==
    /\ pc[t] = "evicting"
    /\ seen # << >>
    /\ seen' = Tail(seen)
    /\ changes' = changes + 1
    /\ pc' = [pc EXCEPT ![t] = "counting"]
    /\ UNCHANGED <<callers, now, made, handed, serving, scan, held>>

\* self.observer(decision)
Pass(t) ==
    /\ pc[t] = "passing"
    /\ handed' = Append(handed, [decision |-> serving[t], also |-> held[t]])
    /\ held' = [held EXCEPT ![t] = {}]
    /\ pc' = [pc EXCEPT ![t] = "idle"]
    /\ UNCHANGED <<callers, now, seen, changes, made, serving, scan>>

\* Where another thread's work makes this one raise: the iterator finds the
\* dictionary changed, a key to delete is gone, there is nothing left to evict.
Raises(t) ==
    \/ /\ pc[t] = "forgetting"
       /\ scan[t].next < scan[t].span
       /\ scan[t].changes # changes
    \/ /\ pc[t] = "deleting"
       /\ scan[t].stale # << >>
       /\ Head(scan[t].stale) \notin Hosts(seen)
    \/ pc[t] = "evicting" /\ seen = << >>

\* report() suppresses the exception, and the request goes on.
Suppressed(t) ==
    /\ Raises(t)
    /\ pc' = [pc EXCEPT ![t] = "idle"]
    /\ UNCHANGED <<callers, now, seen, changes, made, handed, serving, scan, held>>

Step(t) ==
    \/ Scan(t) \/ ScanEnds(t) \/ Delete(t) \/ Compare(t) \/ TakeOut(t) \/ PutBack(t)
    \/ Count(t) \/ Evict(t) \/ Pass(t) \/ Suppressed(t)

\* The bounds are reached and every call has returned.
Quiet ==
    /\ now = MaxTime /\ Len(made) = MaxDecisions
    /\ \A t \in callers : pc[t] = "idle"
    /\ UNCHANGED vars

Next == Tick \/ Quiet \/ \E t \in callers : Report(t) \/ Step(t)

Spec == Init /\ [][Next]_vars

-----------------------------------------------------------------------------
(* Properties.                                                             *)

\* The map holds one sighting a host, each with at least one address of the policy's.
TypeOK ==
    /\ callers \subseteq Thread /\ now \in Nat /\ changes \in Nat
    /\ seen \in Seq(Sighting)
    /\ \A i, j \in 1..Len(seen) : seen[i].host = seen[j].host => i = j
    /\ \A i \in 1..Len(seen) : seen[i].addresses \in (SUBSET Permitted) \ {{}}
    /\ made \in Seq(Decision)
    /\ handed \in Seq([decision : 1..Len(made), also : SUBSET Ip])
    /\ pc \in [Thread -> {"idle", "forgetting", "deleting", "storing", "counting",
                          "evicting", "passing"}]
    /\ serving \in [Thread -> 0..Len(made)] /\ held \in [Thread -> SUBSET Ip]

PermittedFor(host, ip, before) ==
    {j \in 1..before : /\ made[j].host = host /\ made[j].ip = ip
                       /\ made[j].stage = "address" /\ ip \in Permitted}

\* No false report: every address in also_seen was permitted for that very host in
\* a decision made before the wrapped observer heard of the refusal, and is not the
\* one refused, however the threads interleaved.
AlsoSeenIsTrue ==
    \A k \in 1..Len(handed) :
        LET decision == made[handed[k].decision]
        IN  \A ip \in handed[k].also :
               /\ ip # decision.ip
               /\ PermittedFor(decision.host, ip, Len(made)) # {}

\* The decisions one caller has made before its latest, and the hosts it was told
\* to remember since decision j.
Since(j, k) == {made[i].host : i \in {n \in (j + 1)..(k - 1) :
                   made[n].stage = "address" /\ made[n].ip \in Permitted}}

\* What the watch is for, with one caller: a refusal reports every address the host
\* was permitted for within the window, unless as many other hosts as the watch
\* remembers came after it.
DetectsWithinWindow ==
    Cardinality(callers) = 1 =>
        \A n \in 1..Len(handed) :
            LET k == handed[n].decision
                decision == made[k]
            IN  decision.stage = "address" /\ decision.ip \notin Permitted =>
                  \A j \in 1..(k - 1) :
                     /\ made[j].host = decision.host
                     /\ made[j].stage = "address" /\ made[j].ip \in Permitted
                     /\ decision.at <= made[j].at + Window
                     /\ Cardinality(Since(j, k) \ {decision.host}) < Capacity
                     => made[j].ip \in handed[n].also

\* A sighting is comparable no longer than its window: with one caller, a refusal reports
\* something only if the host's last permit was within the window.
ForgetsAfterWindow ==
    Cardinality(callers) = 1 =>
        \A n \in 1..Len(handed) :
            LET k == handed[n].decision
            IN  handed[n].also # {} =>
                  \E j \in 1..(k - 1) :
                     /\ made[j].host = made[k].host
                     /\ made[j].stage = "address" /\ made[j].ip \in Permitted
                     /\ made[k].at <= made[j].at + Window

\* Hosts are names a stranger chooses; the map exceeds its capacity by no more than
\* the sightings whose threads have not yet evicted for them.
CapacityHolds ==
    Len(seen) <= Capacity + Cardinality({t \in callers : pc[t] \in {"counting", "evicting"}})

\* "Look at a decision, then pass it on": when no call is in progress, the wrapped
\* observer has been told of every decision.
EveryDecisionPassedOn ==
    (\A t \in callers : pc[t] = "idle") => Len(handed) = Len(made)

\* "window is how long a sighting stays comparable": an address in also_seen was
\* permitted for the host within the window.
ReportsOnlyTheWindow ==
    Cardinality(callers) = 1 =>
        \A n \in 1..Len(handed) :
            LET k == handed[n].decision
            IN  \A ip \in handed[n].also :
                   \E j \in PermittedFor(made[k].host, ip, k) :
                      made[k].at <= made[j].at + Window
=============================================================================
