------------------------- MODULE RebindingWatchProofs -------------------------
(***************************************************************************)
(* What RebindingWatch never reports and never exceeds, for any number of  *)
(* threads, hosts and addresses, however their steps interleave.           *)
(*                                                                         *)
(* The argument: whatever is on file for a host, and whatever a thread     *)
(* took out for the host it serves, was permitted for that host in a       *)
(* decision made before (OnFile, InHand); and the map is over its capacity *)
(* by one sighting for each thread that has stored and not yet evicted     *)
(* (CapacityHolds).                                                        *)
(*                                                                         *)
(* A watch with one caller also misses nothing it should know (WatchInv):  *)
(* the address of a permit is on file or in the caller's hands, unless the *)
(* window has passed or as many other hosts were permitted since           *)
(* (Remembers).  That a stale sighting may be dropped needs its date to be *)
(* that of the last permit of its host (Dated), and that the oldest may be *)
(* evicted needs the map to be in the order of those permits (Ordered).    *)
(* It reports nothing of a host last permitted before the window, because  *)
(* the scan lists every stale sighting (Collected) and all that are listed *)
(* are deleted before a refusal is compared.                               *)
(***************************************************************************)
EXTENDS RebindingWatch, FiniteSetTheorems, SequenceTheorems, TLAPS

State == {"idle", "forgetting", "deleting", "storing", "counting", "evicting", "passing"}

Pieces ==
    /\ callers \subseteq Thread /\ now \in Nat /\ changes \in Nat
    /\ made \in Seq(Decision)
    /\ handed \in Seq([decision : 1..Len(made), also : SUBSET Ip])
    /\ pc \in [Thread -> State]
    /\ serving \in [Thread -> 0..Len(made)] /\ held \in [Thread -> SUBSET Ip]

Filed ==
    /\ seen \in Seq(Sighting)
    /\ \A i, j \in 1..Len(seen) : seen[i].host = seen[j].host => i = j
    /\ \A i \in 1..Len(seen) : seen[i].addresses \in (SUBSET Permitted) \ {{}}

\* A decision was made that permitted this address for this host.
WasPermitted(host, ip) == PermittedFor(host, ip, Len(made)) # {}

OnFile == \A i \in 1..Len(seen) : \A ip \in seen[i].addresses : WasPermitted(seen[i].host, ip)

\* What a thread at position s may hold: its decision, and h of the host of it.
Hand(t, s, h) ==
    /\ s # "idle" => serving[t] \in 1..Len(made)
    /\ s \notin {"idle", "passing"} => Carried(t).stage = "address"
    /\ s \in {"forgetting", "deleting", "counting", "evicting"} => h = {}
    /\ s = "storing" => Carried(t).ip \in Permitted /\ h \subseteq Permitted
    /\ s \in {"storing", "passing"} => \A ip \in h : WasPermitted(Carried(t).host, ip)
    /\ s = "passing" => Carried(t).ip \notin h

InHand == \A t \in Thread : Hand(t, pc[t], held[t])

\* The threads that have stored a sighting and not yet evicted for it.
Stored == {t \in callers : pc[t] \in {"counting", "evicting"}}

IInv == Pieces /\ Filed /\ OnFile /\ InHand /\ AlsoSeenIsTrue /\ CapacityHolds

-----------------------------------------------------------------------------
(* The map.                                                                *)

LEMMA Constants ==
    /\ Permitted \subseteq Ip /\ Capacity \in Nat /\ IsFiniteSet(Thread)
BY WatchAssumption

\* Where a host is on file.
LEMMA AtHost ==
    ASSUME NEW host \in Hosts(seen)
    PROVE  At(seen, host) \in 1..Len(seen) /\ seen[At(seen, host)].host = host
<1>1. \E i \in 1..Len(seen) : seen[i].host = host
  BY DEF Hosts
<1> QED
  BY <1>1 DEF At

\* Every sighting that is left after one is taken out was there before.
LEMMA CutKeeps ==
    ASSUME Filed, OnFile, NEW n \in 1..Len(seen),
           seen' = [i \in 1..(Len(seen) - 1) |-> seen[IF i < n THEN i ELSE i + 1]],
           UNCHANGED made
    PROVE  Filed' /\ OnFile' /\ Len(seen') = Len(seen) - 1
<1> DEFINE from(i) == IF i < n THEN i ELSE i + 1
<1>1. seen \in Seq(Sighting) /\ Len(seen) \in Nat /\ Len(seen) > 0
  BY DEF Filed
<1>2. \A i \in 1..(Len(seen) - 1) : from(i) \in 1..Len(seen) /\ seen'[i] = seen[from(i)]
  BY <1>1
<1>3. seen' \in Seq(Sighting) /\ Len(seen') = Len(seen) - 1
  <2> DEFINE left == Len(seen) - 1
  <2>1. left \in Nat
    BY <1>1
  <2>2. \A i \in 1..left : seen[from(i)] \in Sighting
    BY <1>1, <1>2
  <2>3. seen' = [i \in 1..left |-> seen[from(i)]]
    OBVIOUS
  <2> HIDE DEF left, from
  <2>4. seen' \in [1..left -> Sighting]
    BY <2>2, <2>3
  <2>5. seen' \in Seq(Sighting) /\ Len(seen') = left
    BY <2>1, <2>4
  <2> QED
    BY <2>5 DEF left
<1>4. \A i, j \in 1..Len(seen') : seen'[i].host = seen'[j].host => i = j
  <2> SUFFICES ASSUME NEW i \in 1..Len(seen'), NEW j \in 1..Len(seen'),
                      seen'[i].host = seen'[j].host
               PROVE  i = j
    OBVIOUS
  <2>1. i \in 1..(Len(seen) - 1) /\ j \in 1..(Len(seen) - 1)
    BY <1>3
  <2>2. /\ from(i) \in 1..Len(seen) /\ from(j) \in 1..Len(seen)
        /\ seen[from(i)].host = seen[from(j)].host
    BY <1>2, <2>1
  <2> HIDE DEF from
  <2>3. from(i) = from(j)
    BY <2>2 DEF Filed
  <2> QED
    BY <2>1, <2>3 DEF from
<1>5. \A i \in 1..Len(seen') : seen'[i].addresses \in (SUBSET Permitted) \ {{}}
  BY <1>2, <1>3 DEF Filed
<1>6. \A i \in 1..Len(seen') : \A ip \in seen'[i].addresses : WasPermitted(seen'[i].host, ip)
  BY <1>2, <1>3 DEF OnFile
<1>7. OnFile'
  <2>1. \A host, ip : WasPermitted(host, ip)' = WasPermitted(host, ip)
    BY DEF WasPermitted, PermittedFor
  <2> QED
    BY <1>6, <2>1 DEF OnFile
<1> QED
  BY <1>3, <1>4, <1>5, <1>7 DEF Filed

LEMMA WithoutKeeps ==
    ASSUME Filed, OnFile, NEW host \in Hosts(seen), seen' = Without(seen, host), UNCHANGED made
    PROVE  Filed' /\ OnFile' /\ Len(seen') = Len(seen) - 1
<1> DEFINE n == At(seen, host)
<1>1. n \in 1..Len(seen)
  BY AtHost
<1>2. seen' = [i \in 1..(Len(seen) - 1) |-> seen[IF i < n THEN i ELSE i + 1]]
  BY DEF Without
<1> HIDE DEF n
<1> QED
  BY <1>1, <1>2, CutKeeps

LEMMA TailKeeps ==
    ASSUME Filed, OnFile, seen # << >>, seen' = Tail(seen), UNCHANGED made
    PROVE  Filed' /\ OnFile' /\ Len(seen') = Len(seen) - 1
<1>1. seen \in Seq(Sighting)
  BY DEF Filed
<1>2. /\ seen' \in Seq(Sighting) /\ Len(seen') = Len(seen) - 1 /\ Len(seen) \in Nat
      /\ \A i \in 1..(Len(seen) - 1) : seen'[i] = seen[i + 1]
  BY <1>1, HeadTailProperties
<1>3. \A i \in 1..Len(seen') : i + 1 \in 1..Len(seen) /\ seen'[i] = seen[i + 1]
  BY <1>2
<1>4. \A i, j \in 1..Len(seen') : seen'[i].host = seen'[j].host => i = j
  <2> SUFFICES ASSUME NEW i \in 1..Len(seen'), NEW j \in 1..Len(seen'),
                      seen'[i].host = seen'[j].host
               PROVE  i = j
    OBVIOUS
  <2>1. i + 1 = j + 1
    BY <1>3 DEF Filed
  <2> QED
    BY <1>2, <2>1
<1>5. \A i \in 1..Len(seen') : seen'[i].addresses \in (SUBSET Permitted) \ {{}}
  BY <1>3 DEF Filed
<1>6. \A i \in 1..Len(seen') : \A ip \in seen'[i].addresses : WasPermitted(seen'[i].host, ip)
  BY <1>3 DEF OnFile
<1>7. OnFile'
  <2>1. \A host, ip : WasPermitted(host, ip)' = WasPermitted(host, ip)
    BY DEF WasPermitted, PermittedFor
  <2> QED
    BY <1>6, <2>1 DEF OnFile
<1> QED
  BY <1>2, <1>4, <1>5, <1>7 DEF Filed

\* More decisions leave every old one.
LEMMA StillPermitted ==
    ASSUME Pieces, NEW decision \in Decision, made' = Append(made, decision)
    PROVE  \A host, ip : WasPermitted(host, ip) => WasPermitted(host, ip)'
<1> SUFFICES ASSUME NEW host, NEW ip, WasPermitted(host, ip)
             PROVE  WasPermitted(host, ip)'
  OBVIOUS
<1>1. made \in Seq(Decision) /\ Len(made') = Len(made) + 1
      /\ \A j \in 1..Len(made) : made'[j] = made[j]
  BY DEF Pieces
<1>2. PICK j \in 1..Len(made) : /\ made[j].host = host /\ made[j].ip = ip
                                /\ made[j].stage = "address" /\ ip \in Permitted
  BY DEF WasPermitted, PermittedFor
<1>3. j \in 1..Len(made') /\ made'[j] = made[j]
  BY <1>1
<1> QED
  BY <1>2, <1>3 DEF WasPermitted, PermittedFor

-----------------------------------------------------------------------------
(* One thread's step, when it reports nothing and passes nothing on.       *)

LEMMA MadeKept ==
    ASSUME UNCHANGED made
    PROVE  \A host, ip : WasPermitted(host, ip)' = WasPermitted(host, ip)
BY DEF WasPermitted, PermittedFor

LEMMA FileKept ==
    ASSUME Filed, OnFile, UNCHANGED <<seen, made>>
    PROVE  Filed' /\ OnFile'
BY MadeKept DEF Filed, OnFile

LEMMA StoredCount ==
    ASSUME Pieces
    PROVE  IsFiniteSet(Stored) /\ Cardinality(Stored) \in Nat
<1>1. Stored \subseteq Thread
  BY DEF Pieces, Stored
<1> QED
  BY <1>1, Constants, FS_Subset, FS_CardinalityType

\* How a step may change the map: no longer while no thread is done evicting, longer
\* by the sighting of one that starts to, or anything within the capacity.
LEMMA CapacityStep ==
    ASSUME Pieces, Pieces', CapacityHolds, NEW t \in callers, NEW s \in State,
           Len(seen) \in Nat, Len(seen') \in Nat, UNCHANGED callers,
           pc' = [pc EXCEPT ![t] = s],
           \/ Len(seen') <= Len(seen) /\ (t \in Stored => s \in {"counting", "evicting"})
           \/ Len(seen') <= Len(seen) + 1 /\ t \notin Stored /\ s = "counting"
           \/ Len(seen') <= Capacity
    PROVE  CapacityHolds'
<1>1. /\ IsFiniteSet(Stored) /\ Cardinality(Stored) \in Nat
      /\ IsFiniteSet(Stored)' /\ Cardinality(Stored)' \in Nat
  <2>1. Stored' \subseteq Thread
    BY DEF Pieces, Stored
  <2> QED
    BY <2>1, StoredCount, Constants, FS_Subset, FS_CardinalityType
<1>2. /\ t \in Thread /\ \A u \in callers : pc'[u] = IF u = t THEN s ELSE pc[u]
  BY DEF Pieces
<1>3. Len(seen) <= Capacity + Cardinality(Stored) /\ Capacity \in Nat
  BY Constants DEF CapacityHolds, Stored
<1>4. CASE Len(seen') <= Len(seen) /\ (t \in Stored => s \in {"counting", "evicting"})
  <2>1. Stored \subseteq Stored'
    BY <1>2, <1>4 DEF Stored
  <2>2. Cardinality(Stored) <= Cardinality(Stored)'
    BY <1>1, <2>1, FS_Subset
  <2>3. Len(seen') <= Capacity + Cardinality(Stored)'
    BY <1>1, <1>3, <1>4, <2>2
  <2> QED
    BY <2>3 DEF CapacityHolds, Stored
<1>5. CASE Len(seen') <= Len(seen) + 1 /\ t \notin Stored /\ s = "counting"
  <2>1. Stored' = Stored \cup {t}
    BY <1>2, <1>5 DEF Stored
  <2>2. Cardinality(Stored)' = Cardinality(Stored) + 1
    BY <1>1, <1>5, <2>1, FS_AddElement
  <2>3. Len(seen') <= Capacity + Cardinality(Stored)'
    BY <1>1, <1>3, <1>5, <2>2
  <2> QED
    BY <2>3 DEF CapacityHolds, Stored
<1>6. CASE Len(seen') <= Capacity
  <2>1. Len(seen') <= Capacity + Cardinality(Stored)'
    BY <1>1, <1>3, <1>6
  <2> QED
    BY <2>1 DEF CapacityHolds, Stored
<1> QED
  BY <1>4, <1>5, <1>6

LEMMA ThreadStep ==
    ASSUME IInv, NEW t \in callers, NEW s \in State, NEW h \in SUBSET Ip,
           UNCHANGED <<callers, now, made, handed, serving>>, changes' \in Nat,
           pc' = [pc EXCEPT ![t] = s], held' = [held EXCEPT ![t] = h],
           Filed', OnFile', Hand(t, s, h),
           \/ Len(seen') <= Len(seen) /\ (t \in Stored => s \in {"counting", "evicting"})
           \/ Len(seen') <= Len(seen) + 1 /\ t \notin Stored /\ s = "counting"
           \/ Len(seen') <= Capacity
    PROVE  IInv'
<1>1. Pieces'
  BY DEF IInv, Pieces
<1>2. t \in Thread /\ \A u \in Thread : /\ pc'[u] = IF u = t THEN s ELSE pc[u]
                                       /\ held'[u] = IF u = t THEN h ELSE held[u]
  BY DEF IInv, Pieces
<1>3. InHand'
  <2> SUFFICES ASSUME NEW u \in Thread
               PROVE  Hand(u, pc[u], held[u])'
    BY DEF InHand
  <2>1. Hand(u, pc'[u], held'[u])
    BY <1>2 DEF IInv, InHand
  <2>2. Carried(u)' = Carried(u)
    BY DEF Carried
  <2>3. \A host, ip : WasPermitted(host, ip)' = WasPermitted(host, ip)
    BY MadeKept
  <2> QED
    BY <2>1, <2>2, <2>3 DEF Hand
<1>4. AlsoSeenIsTrue'
  BY DEF IInv, AlsoSeenIsTrue, PermittedFor
<1>5. CapacityHolds'
  <2>1. Len(seen) \in Nat /\ Len(seen') \in Nat
    BY DEF IInv, Filed
  <2>2. Pieces /\ CapacityHolds
    BY DEF IInv
  <2> QED
    BY <1>1, <2>1, <2>2, CapacityStep
<1> QED
  BY <1>1, <1>3, <1>4, <1>5 DEF IInv

-----------------------------------------------------------------------------
(* The actions.                                                            *)

LEMMA InitHolds ==
    ASSUME Init
    PROVE  IInv
<1>1. Pieces /\ Filed /\ OnFile /\ InHand /\ AlsoSeenIsTrue
  BY DEF Init, Pieces, State, Filed, OnFile, InHand, Hand, AlsoSeenIsTrue
<1>2. CapacityHolds
  <2>1. Len(seen) = 0 /\ Cardinality(Stored) \in Nat
    BY <1>1, StoredCount DEF Init
  <2> QED
    BY <2>1, Constants DEF CapacityHolds, Stored
<1> QED
  BY <1>1, <1>2 DEF IInv

LEMMA NothingMoves ==
    ASSUME IInv, UNCHANGED <<callers, seen, changes, made, handed, pc, serving, held>>,
           now' \in Nat
    PROVE  IInv'
<1>1. Pieces' /\ Filed' /\ OnFile'
  BY FileKept DEF IInv, Pieces
<1>2. InHand'
  BY DEF IInv, InHand, Hand, Carried, WasPermitted, PermittedFor
<1>3. AlsoSeenIsTrue' /\ CapacityHolds'
  BY DEF IInv, AlsoSeenIsTrue, PermittedFor, CapacityHolds
<1> QED
  BY <1>1, <1>2, <1>3 DEF IInv

\* The map as it is, and what a thread may still hold when it moves on with it.
LEMMA MapAsItIs ==
    ASSUME IInv, NEW t \in callers, NEW s \in State, NEW h \in SUBSET Ip,
           UNCHANGED <<callers, now, seen, changes, made, handed, serving>>,
           pc' = [pc EXCEPT ![t] = s], held' = [held EXCEPT ![t] = h], Hand(t, s, h),
           (t \in Stored => s \in {"counting", "evicting"}) \/ Len(seen) <= Capacity
    PROVE  IInv'
<1>1. Filed' /\ OnFile'
  BY FileKept DEF IInv
<1>2. changes' \in Nat /\ Len(seen) \in Nat
  BY DEF IInv, Pieces, Filed
<1>3. Len(seen') <= Len(seen) /\ seen' = seen
  BY <1>2
<1>4. CASE t \in Stored => s \in {"counting", "evicting"}
  BY <1>1, <1>2, <1>3, <1>4, ThreadStep
<1>5. CASE Len(seen) <= Capacity
  BY <1>1, <1>2, <1>3, <1>5, ThreadStep
<1> QED
  BY <1>4, <1>5

\* What the invariant says of one thread.
LEMMA OfThread ==
    ASSUME IInv, NEW t \in callers
    PROVE  /\ t \in Thread /\ pc[t] \in State /\ held[t] \in SUBSET Ip /\ Hand(t, pc[t], held[t])
           /\ held = [held EXCEPT ![t] = held[t]] /\ pc = [pc EXCEPT ![t] = pc[t]]
           /\ changes \in Nat /\ Len(seen) \in Nat /\ Capacity \in Nat
           /\ made \in Seq(Decision) /\ serving[t] \in 0..Len(made)
BY Constants DEF IInv, Pieces, Filed, InHand

LEMMA ScanKeeps ==
    ASSUME IInv, NEW t \in callers, Scan(t)
    PROVE  IInv'
<1>1. UNCHANGED <<callers, now, seen, changes, made, handed, serving, pc, held>>
  BY DEF Scan
<1>2. now' \in Nat
  BY <1>1 DEF IInv, Pieces
<1> QED
  BY <1>1, <1>2, NothingMoves

LEMMA ScanEndsKeeps ==
    ASSUME IInv, NEW t \in callers, ScanEnds(t)
    PROVE  IInv'
<1>1. /\ pc[t] = "forgetting" /\ pc' = [pc EXCEPT ![t] = "deleting"]
      /\ UNCHANGED <<callers, now, seen, changes, made, handed, serving, held>>
  BY DEF ScanEnds
<1>2. held[t] \in SUBSET Ip /\ held' = [held EXCEPT ![t] = held[t]]
      /\ Hand(t, "deleting", held[t]) /\ t \notin Stored
  BY <1>1, OfThread DEF Hand, Stored
<1>3. "deleting" \in State
  BY DEF State
<1> QED
  BY <1>1, <1>2, <1>3, MapAsItIs

LEMMA DeleteKeeps ==
    ASSUME IInv, NEW t \in callers, Delete(t)
    PROVE  IInv'
<1>1. /\ pc[t] = "deleting" /\ Head(scan[t].stale) \in Hosts(seen)
      /\ seen' = Without(seen, Head(scan[t].stale)) /\ changes' = changes + 1
      /\ UNCHANGED <<callers, now, made, handed, serving, pc, held>>
  BY DEF Delete
<1>2. Filed' /\ OnFile' /\ Len(seen') = Len(seen) - 1
  BY <1>1, WithoutKeeps DEF IInv
<1>3. /\ pc[t] \in State /\ held[t] \in SUBSET Ip /\ Hand(t, pc[t], held[t])
      /\ pc' = [pc EXCEPT ![t] = pc[t]] /\ held' = [held EXCEPT ![t] = held[t]]
      /\ changes' \in Nat /\ Len(seen) \in Nat /\ t \notin Stored
  BY <1>1, OfThread DEF Stored
<1>4. Len(seen') <= Len(seen)
  BY <1>2, <1>3
<1> QED
  BY <1>1, <1>2, <1>3, <1>4, ThreadStep

LEMMA CompareKeeps ==
    ASSUME IInv, NEW t \in callers, Compare(t)
    PROVE  IInv'
<1> DEFINE host == Carried(t).host
           found == IF host \in Hosts(seen)
                    THEN seen[At(seen, host)].addresses \ {Carried(t).ip}
                    ELSE {}
<1>1. /\ pc[t] = "deleting" /\ Outcome(Carried(t).ip) = "refused"
      /\ pc' = [pc EXCEPT ![t] = "passing"] /\ held' = [held EXCEPT ![t] = found]
      /\ UNCHANGED <<callers, now, seen, changes, made, handed, serving>>
  BY DEF Compare
<1>2. found \in SUBSET Permitted /\ Carried(t).ip \notin found
      /\ \A ip \in found : WasPermitted(host, ip)
  BY AtHost DEF IInv, Filed, OnFile
<1>3. found \in SUBSET Ip
  BY <1>2, Constants
<1> HIDE DEF found
<1>4. Hand(t, "passing", found) /\ t \notin Stored
  BY <1>1, <1>2, OfThread DEF Hand, Stored
<1>5. "passing" \in State
  BY DEF State
<1> QED
  BY <1>1, <1>3, <1>4, <1>5, MapAsItIs

LEMMA TakeOutKeeps ==
    ASSUME IInv, NEW t \in callers, TakeOut(t)
    PROVE  IInv'
<1> DEFINE host == Carried(t).host
<1>1. /\ pc[t] = "deleting" /\ pc' = [pc EXCEPT ![t] = "storing"]
      /\ Outcome(Carried(t).ip) = "permitted"
      /\ UNCHANGED <<callers, now, made, handed, serving>>
  BY DEF TakeOut
<1>2. Carried(t).ip \in Permitted /\ t \notin Stored /\ "storing" \in State
  BY <1>1 DEF Outcome, Stored, State
<1>3. CASE host \in Hosts(seen)
  <2> DEFINE found == seen[At(seen, host)].addresses
  <2>1. /\ held' = [held EXCEPT ![t] = found] /\ seen' = Without(seen, host)
        /\ changes' = changes + 1
    BY <1>3 DEF TakeOut
  <2>2. found \in SUBSET Permitted /\ \A ip \in found : WasPermitted(host, ip)
    BY <1>3, AtHost DEF IInv, Filed, OnFile
  <2>3. found \in SUBSET Ip
    BY <2>2, Constants
  <2> HIDE DEF found
  <2>4. Hand(t, "storing", found)
    BY <1>1, <1>2, <2>2, OfThread DEF Hand
  <2>5. Filed' /\ OnFile' /\ Len(seen') = Len(seen) - 1
    BY <1>1, <1>3, <2>1, WithoutKeeps DEF IInv
  <2>6. changes' \in Nat /\ Len(seen') <= Len(seen)
    BY <2>1, <2>5, OfThread
  <2> QED
    BY <1>1, <1>2, <2>1, <2>3, <2>4, <2>5, <2>6, ThreadStep
<1>4. CASE host \notin Hosts(seen)
  <2>1. UNCHANGED <<held, seen, changes>>
    BY <1>4 DEF TakeOut
  <2>2. held[t] \in SUBSET Ip /\ held' = [held EXCEPT ![t] = held[t]]
    BY <2>1, OfThread
  <2>3. Hand(t, "storing", held[t])
    BY <1>1, <1>2, OfThread DEF Hand
  <2> QED
    BY <1>1, <1>2, <2>1, <2>2, <2>3, MapAsItIs
<1> QED
  BY <1>3, <1>4

\* What a thread files: the addresses it held and the one it carries.
LEMMA RememberedIsTrue ==
    ASSUME IInv, NEW t \in callers, pc[t] = "storing"
    PROVE  /\ Remembered(t) \in Sighting
           /\ Remembered(t).addresses \in (SUBSET Permitted) \ {{}}
           /\ \A ip \in Remembered(t).addresses : WasPermitted(Remembered(t).host, ip)
<1>1. /\ serving[t] \in 1..Len(made) /\ Carried(t).stage = "address"
      /\ Carried(t).ip \in Permitted /\ held[t] \subseteq Permitted
      /\ \A ip \in held[t] : WasPermitted(Carried(t).host, ip)
  BY OfThread DEF Hand
<1>2. Carried(t) \in Decision
  BY <1>1, OfThread DEF Carried
<1>3. WasPermitted(Carried(t).host, Carried(t).ip)
  BY <1>1 DEF WasPermitted, PermittedFor, Carried
<1>4. /\ Remembered(t).host = Carried(t).host
      /\ Remembered(t).addresses = held[t] \cup {Carried(t).ip}
      /\ Remembered(t) = [host |-> Carried(t).host,
                           addresses |-> held[t] \cup {Carried(t).ip},
                           at |-> Carried(t).at]
  BY DEF Remembered
<1>5. held[t] \cup {Carried(t).ip} \in (SUBSET Permitted) \ {{}}
  BY <1>1
<1>6. held[t] \cup {Carried(t).ip} \in SUBSET Ip
  BY <1>5, Constants
<1>7. Remembered(t) \in Sighting
  BY <1>2, <1>4, <1>6 DEF Sighting, Decision
<1>8. \A ip \in Remembered(t).addresses : WasPermitted(Remembered(t).host, ip)
  BY <1>1, <1>3, <1>4
<1> QED
  BY <1>4, <1>5, <1>7, <1>8

LEMMA PutBackKeeps ==
    ASSUME IInv, NEW t \in callers, PutBack(t)
    PROVE  IInv'
<1> DEFINE sighting == Remembered(t)
<1>1. /\ pc[t] = "storing" /\ pc' = [pc EXCEPT ![t] = "counting"]
      /\ held' = [held EXCEPT ![t] = {}]
      /\ UNCHANGED <<callers, now, made, handed, serving>>
  BY DEF PutBack
<1>2. /\ sighting \in Sighting /\ sighting.addresses \in (SUBSET Permitted) \ {{}}
      /\ \A ip \in sighting.addresses : WasPermitted(sighting.host, ip)
  BY <1>1, RememberedIsTrue
<1>3. /\ seen \in Seq(Sighting) /\ Len(seen) \in Nat /\ changes \in Nat
      /\ t \notin Stored /\ {} \in SUBSET Ip /\ "counting" \in State
  BY <1>1, OfThread DEF IInv, Filed, Stored, State
<1>4. Hand(t, "counting", {})
  BY <1>1, OfThread DEF Hand
<1>5. \A host, ip : WasPermitted(host, ip)' = WasPermitted(host, ip)
  BY <1>1, MadeKept
<1>6. CASE sighting.host \in Hosts(seen)
  <2> DEFINE n == At(seen, sighting.host)
  <2>1. n \in 1..Len(seen) /\ seen[n].host = sighting.host
    BY <1>6, AtHost
  <2>2. seen' = [seen EXCEPT ![n] = sighting] /\ changes' = changes
    BY <1>6 DEF PutBack
  <2> HIDE DEF n, sighting
  <2>3. /\ seen' \in Seq(Sighting) /\ Len(seen') = Len(seen)
        /\ \A i \in 1..Len(seen) : /\ seen'[i] = IF i = n THEN sighting ELSE seen[i]
                                   /\ seen'[i].host = seen[i].host
    BY <1>2, <1>3, <2>1, <2>2
  <2>4. Filed'
    BY <1>2, <2>3 DEF IInv, Filed
  <2>5. OnFile'
    BY <1>2, <1>5, <2>3 DEF IInv, OnFile
  <2>6. changes' \in Nat /\ Len(seen') <= Len(seen) + 1
    BY <1>3, <2>2, <2>3
  <2> QED
    BY <1>1, <1>3, <1>4, <2>4, <2>5, <2>6, ThreadStep
<1>7. CASE sighting.host \notin Hosts(seen)
  <2>1. seen' = Append(seen, sighting) /\ changes' = changes + 1
    BY <1>7 DEF PutBack
  <2>2. \A i \in 1..Len(seen) : seen[i].host # sighting.host
    BY <1>7 DEF Hosts
  <2> HIDE DEF sighting
  <2>3. /\ seen' \in Seq(Sighting) /\ Len(seen') = Len(seen) + 1
        /\ \A i \in 1..Len(seen') : \/ i \in 1..Len(seen) /\ seen'[i] = seen[i]
                                    \/ i = Len(seen) + 1 /\ seen'[i] = sighting
    BY <1>2, <1>3, <2>1
  <2>4. \A i, j \in 1..Len(seen') : seen'[i].host = seen'[j].host => i = j
    BY <2>2, <2>3 DEF IInv, Filed
  <2>5. \A i \in 1..Len(seen') : seen'[i].addresses \in (SUBSET Permitted) \ {{}}
    BY <1>2, <2>3 DEF IInv, Filed
  <2>6. Filed'
    BY <2>3, <2>4, <2>5 DEF Filed
  <2>7. OnFile'
    BY <1>2, <1>5, <2>3 DEF IInv, OnFile
  <2>8. changes' \in Nat /\ Len(seen') <= Len(seen) + 1
    BY <1>3, <2>1, <2>3
  <2> QED
    BY <1>1, <1>3, <1>4, <2>6, <2>7, <2>8, ThreadStep
<1> QED
  BY <1>6, <1>7

LEMMA CountKeeps ==
    ASSUME IInv, NEW t \in callers, Count(t)
    PROVE  IInv'
<1> DEFINE s == IF Len(seen) > Capacity THEN "evicting" ELSE "passing"
<1>1. /\ pc[t] = "counting" /\ pc' = [pc EXCEPT ![t] = s]
      /\ UNCHANGED <<callers, now, seen, changes, made, handed, serving, held>>
  BY DEF Count
<1>2. held[t] = {} /\ held' = [held EXCEPT ![t] = {}] /\ {} \in SUBSET Ip
  BY <1>1, OfThread DEF Hand
<1>3. s \in State /\ Hand(t, s, {})
  BY <1>1, OfThread DEF Hand, State
<1>4. (t \in Stored => s \in {"counting", "evicting"}) \/ Len(seen) <= Capacity
  BY OfThread
<1> HIDE DEF s
<1> QED
  BY <1>1, <1>2, <1>3, <1>4, MapAsItIs

LEMMA EvictKeeps ==
    ASSUME IInv, NEW t \in callers, Evict(t)
    PROVE  IInv'
<1>1. /\ pc[t] = "evicting" /\ pc' = [pc EXCEPT ![t] = "counting"]
      /\ seen # << >> /\ seen' = Tail(seen) /\ changes' = changes + 1
      /\ UNCHANGED <<callers, now, made, handed, serving, held>>
  BY DEF Evict
<1>2. Filed' /\ OnFile' /\ Len(seen') = Len(seen) - 1
  BY <1>1, TailKeeps DEF IInv
<1>3. held[t] = {} /\ held' = [held EXCEPT ![t] = {}] /\ {} \in SUBSET Ip
  BY <1>1, OfThread DEF Hand
<1>4. Hand(t, "counting", {}) /\ "counting" \in State
  BY <1>1, OfThread DEF Hand, State
<1>5. changes' \in Nat /\ Len(seen') <= Len(seen)
  BY <1>1, <1>2, OfThread
<1> QED
  BY <1>1, <1>2, <1>3, <1>4, <1>5, ThreadStep

LEMMA PassKeeps ==
    ASSUME IInv, NEW t \in callers, Pass(t)
    PROVE  IInv'
<1> DEFINE entry == [decision |-> serving[t], also |-> held[t]]
<1>1. /\ pc[t] = "passing" /\ pc' = [pc EXCEPT ![t] = "idle"]
      /\ handed' = Append(handed, entry) /\ held' = [held EXCEPT ![t] = {}]
      /\ UNCHANGED <<callers, now, seen, changes, made, serving>>
  BY DEF Pass
<1>2. /\ t \in Thread /\ serving[t] \in 1..Len(made) /\ held[t] \in SUBSET Ip
      /\ Carried(t).ip \notin held[t] /\ t \notin Stored
      /\ \A ip \in held[t] : WasPermitted(Carried(t).host, ip)
  BY <1>1, OfThread DEF Hand, Stored
<1>3. handed \in Seq([decision : 1..Len(made), also : SUBSET Ip]) /\ Len(handed) \in Nat
  BY DEF IInv, Pieces
<1>4. entry \in [decision : 1..Len(made), also : SUBSET Ip]
  BY <1>2
<1>5. /\ handed' \in Seq([decision : 1..Len(made), also : SUBSET Ip])
      /\ Len(handed') = Len(handed) + 1
      /\ \A k \in 1..Len(handed') : \/ k \in 1..Len(handed) /\ handed'[k] = handed[k]
                                    \/ handed'[k] = entry
  BY <1>1, <1>3, <1>4
<1>6. Pieces'
  BY <1>1, <1>5 DEF IInv, Pieces, State
<1>7. Filed' /\ OnFile'
  BY <1>1, FileKept DEF IInv
<1>8. InHand'
  <2> SUFFICES ASSUME NEW u \in Thread
               PROVE  Hand(u, pc[u], held[u])'
    BY DEF InHand
  <2>1. CASE u = t
    <3>1. pc'[u] = "idle"
      BY <1>1, <1>2, <2>1 DEF IInv, Pieces
    <3> QED
      BY <3>1 DEF Hand
  <2>2. CASE u # t
    <3>1. Hand(u, pc'[u], held'[u])
      BY <1>1, <2>2 DEF IInv, InHand, Pieces
    <3> QED
      BY <1>1, <3>1, MadeKept DEF Hand, Carried
  <2> QED
    BY <2>1, <2>2
<1>9. AlsoSeenIsTrue'
  <2> SUFFICES ASSUME NEW k \in 1..Len(handed'), NEW ip \in handed'[k].also
               PROVE  /\ ip # made[handed'[k].decision].ip
                      /\ WasPermitted(made[handed'[k].decision].host, ip)
    BY <1>1 DEF AlsoSeenIsTrue, WasPermitted, PermittedFor
  <2>1. CASE k \in 1..Len(handed) /\ handed'[k] = handed[k]
    BY <2>1 DEF IInv, AlsoSeenIsTrue, WasPermitted
  <2>2. CASE handed'[k] = entry
    BY <1>2, <2>2 DEF Carried
  <2> QED
    BY <1>5, <2>1, <2>2
<1>10. CapacityHolds'
  <2>1. Len(seen) \in Nat /\ "idle" \in State /\ seen' = seen
    BY <1>1, OfThread DEF State
  <2>2. Len(seen') <= Len(seen)
    BY <2>1
  <2> QED
    BY <1>1, <1>2, <1>6, <2>1, <2>2, CapacityStep DEF IInv
<1> QED
  BY <1>6, <1>7, <1>8, <1>9, <1>10 DEF IInv

LEMMA ReportKeeps ==
    ASSUME IInv, NEW t \in callers, Report(t)
    PROVE  IInv'
<1>1. PICK host \in Host, ip \in Ip, stage \in {"address", "peer"} :
         /\ made' = Append(made, [host |-> host, ip |-> ip, stage |-> stage, at |-> now])
         /\ pc' = [pc EXCEPT ![t] = IF stage = "address" THEN "forgetting" ELSE "passing"]
  BY DEF Report
<1> DEFINE decision == [host |-> host, ip |-> ip, stage |-> stage, at |-> now]
           s == IF stage = "address" THEN "forgetting" ELSE "passing"
<1>2. /\ pc[t] = "idle" /\ serving' = [serving EXCEPT ![t] = Len(made) + 1]
      /\ held' = [held EXCEPT ![t] = {}]
      /\ UNCHANGED <<callers, now, seen, changes, handed>>
  BY DEF Report
<1>3. decision \in Decision /\ s \in State /\ made' = Append(made, decision)
  BY <1>1 DEF IInv, Pieces, Decision, State
<1>4. pc' = [pc EXCEPT ![t] = s] /\ (s \in {"forgetting", "passing"})
      /\ (s = "forgetting" => decision.stage = "address")
  BY <1>1
<1> HIDE DEF decision, s
<1>5. /\ made \in Seq(Decision) /\ Len(made) \in Nat /\ t \in Thread
      /\ made' \in Seq(Decision) /\ Len(made') = Len(made) + 1
      /\ made'[Len(made) + 1] = decision
      /\ \A j \in 1..Len(made) : made'[j] = made[j]
  BY <1>3, OfThread
<1>6. \A h, a : WasPermitted(h, a) => WasPermitted(h, a)'
  BY <1>3, StillPermitted DEF IInv
<1>7. handed' \in Seq([decision : 1..Len(made'), also : SUBSET Ip])
  <2>1. [decision : 1..Len(made), also : SUBSET Ip]
          \subseteq [decision : 1..Len(made'), also : SUBSET Ip]
    BY <1>5
  <2>2. handed' \in Seq([decision : 1..Len(made), also : SUBSET Ip])
    BY <1>2 DEF IInv, Pieces
  <2> QED
    BY <2>1, <2>2, SeqMonotonic
<1>8. serving' \in [Thread -> 0..Len(made')]
  <2>1. serving \in [Thread -> 0..Len(made)]
    BY DEF IInv, Pieces
  <2>2. \A u \in Thread : serving'[u] \in 0..Len(made')
    BY <1>2, <1>5, <2>1
  <2> QED
    BY <1>2, <2>1, <2>2
<1>9. Pieces'
  BY <1>2, <1>3, <1>4, <1>5, <1>7, <1>8 DEF IInv, Pieces
<1>10. Filed' /\ OnFile'
  BY <1>2, <1>6 DEF IInv, Filed, OnFile
<1>11. InHand'
  <2> SUFFICES ASSUME NEW u \in Thread
               PROVE  Hand(u, pc[u], held[u])'
    BY DEF InHand
  <2>1. CASE u = t
    <3>1. /\ pc'[u] = s /\ held'[u] = {} /\ serving'[u] = Len(made) + 1
          /\ made'[serving'[u]] = decision
      BY <1>2, <1>4, <1>5, <2>1 DEF IInv, Pieces
    <3>2. serving'[u] \in 1..Len(made')
      BY <1>5, <3>1
    <3> QED
      BY <1>4, <3>1, <3>2 DEF Hand, Carried
  <2>2. CASE u # t
    <3>1. pc'[u] = pc[u] /\ held'[u] = held[u] /\ serving'[u] = serving[u]
      BY <1>2, <1>4, <2>2 DEF IInv, Pieces
    <3>2. Hand(u, pc[u], held[u])
      BY DEF IInv, InHand
    <3>3. CASE pc[u] = "idle"
      BY <3>1, <3>3 DEF Hand
    <3>4. CASE pc[u] # "idle"
      <4>1. serving[u] \in 1..Len(made)
        BY <3>2, <3>4 DEF Hand
      <4>2. serving'[u] \in 1..Len(made') /\ Carried(u)' = Carried(u)
        BY <1>5, <3>1, <4>1 DEF Carried
      <4> QED
        BY <1>6, <3>1, <3>2, <4>2 DEF Hand
    <3> QED
      BY <3>3, <3>4
  <2> QED
    BY <2>1, <2>2
<1>12. AlsoSeenIsTrue'
  <2> SUFFICES ASSUME NEW k \in 1..Len(handed'), NEW a \in handed'[k].also
               PROVE  (/\ a # made[handed[k].decision].ip
                       /\ WasPermitted(made[handed[k].decision].host, a))'
    BY DEF AlsoSeenIsTrue, WasPermitted
  <2>1. handed[k] \in [decision : 1..Len(made), also : SUBSET Ip]
    BY <1>2, ElementOfSeq DEF IInv, Pieces
  <2>2. made'[handed'[k].decision] = made[handed[k].decision]
    BY <1>2, <1>5, <2>1
  <2>3. PICK h : h = made[handed[k].decision].host
    OBVIOUS
  <2>4. a # made[handed[k].decision].ip /\ WasPermitted(h, a)
    BY <1>2, <2>3 DEF IInv, AlsoSeenIsTrue, WasPermitted
  <2>5. WasPermitted(h, a)'
    BY <1>6, <2>4
  <2> QED
    BY <2>2, <2>3, <2>4, <2>5 DEF WasPermitted
<1>13. CapacityHolds'
  <2>1. Len(seen) \in Nat /\ seen' = seen /\ t \notin Stored
    BY <1>2, OfThread DEF Stored
  <2>2. Len(seen') <= Len(seen)
    BY <2>1
  <2> QED
    BY <1>2, <1>3, <1>4, <1>9, <2>1, <2>2, CapacityStep DEF IInv
<1> QED
  BY <1>9, <1>10, <1>11, <1>12, <1>13 DEF IInv

LEMMA SuppressedKeeps ==
    ASSUME IInv, NEW t \in callers, Suppressed(t)
    PROVE  IInv'
<1>1. /\ Raises(t) /\ pc' = [pc EXCEPT ![t] = "idle"]
      /\ UNCHANGED <<callers, now, seen, changes, made, handed, serving, held>>
  BY DEF Suppressed
<1>2. held[t] \in SUBSET Ip /\ held' = [held EXCEPT ![t] = held[t]] /\ "idle" \in State
  BY <1>1, OfThread DEF State
<1>3. Hand(t, "idle", held[t])
  BY DEF Hand
<1>4. t \notin Stored \/ Len(seen) <= Capacity
  <2>1. pc[t] \in {"forgetting", "deleting"} \/ seen = << >>
    BY <1>1 DEF Raises
  <2>2. seen = << >> => Len(seen) <= Capacity
    BY Constants
  <2> QED
    BY <2>1, <2>2 DEF Stored
<1> QED
  BY <1>1, <1>2, <1>3, <1>4, MapAsItIs

-----------------------------------------------------------------------------
(* The theorems.                                                           *)

LEMMA StepKeeps ==
    ASSUME IInv, [Next]_vars
    PROVE  IInv'
<1>1. CASE Tick
  <2>1. now' \in Nat
    BY <1>1 DEF Tick, IInv, Pieces
  <2> QED
    BY <1>1, <2>1, NothingMoves DEF Tick
<1>2. CASE UNCHANGED vars
  <2>1. now' \in Nat
    BY <1>2 DEF vars, IInv, Pieces
  <2> QED
    BY <1>2, <2>1, NothingMoves DEF vars
<1>3. CASE \E t \in callers : Report(t) \/ Step(t)
  <2>1. PICK t \in callers : Report(t) \/ Step(t)
    BY <1>3
  <2> QED
    BY <2>1, ReportKeeps, ScanKeeps, ScanEndsKeeps, DeleteKeeps, CompareKeeps, TakeOutKeeps,
       PutBackKeeps, CountKeeps, EvictKeeps, PassKeeps, SuppressedKeeps DEF Step
<1> QED
  BY <1>1, <1>2, <1>3 DEF Next, Quiet

\* What the other theorems rest on.
THEOREM Invariant == Spec => []IInv
<1>1. Init => IInv
  BY InitHolds
<1>2. IInv /\ [Next]_vars => IInv'
  BY StepKeeps
<1> QED
  BY <1>1, <1>2, PTL DEF Spec

\* One sighting a host, with addresses the policy permits only, whatever two threads
\* do to the map between each other's operations.
THEOREM TypeCorrect == Spec => []TypeOK
<1>1. IInv => TypeOK
  BY DEF IInv, Pieces, Filed, State, TypeOK
<1> QED
  BY <1>1, Invariant, PTL

\* RebindingWatch reports no address that was not permitted for the host before, and
\* never the refused one itself, whatever a lost update left on file.
THEOREM TrueReports == Spec => []AlsoSeenIsTrue
<1>1. IInv => AlsoSeenIsTrue
  BY DEF IInv
<1> QED
  BY <1>1, Invariant, PTL

\* _remember: the map is over its capacity by no more than one sighting for each
\* thread that is still evicting.
THEOREM CapacityKept == Spec => []CapacityHolds
<1>1. IInv => CapacityHolds
  BY DEF IInv
<1> QED
  BY <1>1, Invariant, PTL

-----------------------------------------------------------------------------
(* A watch with one caller.                                                *)

Permit(i) == made[i].stage = "address" /\ made[i].ip \in Permitted
Refusal(i) == made[i].stage = "address" /\ made[i].ip \notin Permitted

\* How many decisions the map has heard of.
Done(t) == IF pc[t] \in {"forgetting", "deleting", "storing"} THEN Len(made) - 1 ELSE Len(made)

\* Why the map may no longer hold what decision j permitted, d decisions done: the window
\* has passed, or as many other hosts as it remembers were permitted since.
Old(j) == \E k \in 1..Len(made) : made[k].at > made[j].at + Window
Later(j, d) == {made[i].host : i \in {n \in (j + 1)..d : Permit(n)}}
Crowded(j, d) == Cardinality(Later(j, d) \ {made[j].host}) >= Capacity
Gone(j, d) == Old(j) \/ Crowded(j, d)

FiledFor(j) ==
    \E n \in 1..Len(seen) : seen[n].host = made[j].host /\ made[j].ip \in seen[n].addresses

InTransit(t, j) ==
    pc[t] = "storing" /\ made[j].host = Carried(t).host /\ made[j].ip \in held[t]

\* What decisions permitted is on file, unless it may be gone.
Remembers(t, d) == \A j \in 1..d : Permit(j) => FiledFor(j) \/ InTransit(t, j) \/ Gone(j, d)

\* A sighting is as young as any permit of its host, ...
Dated(d) ==
    \A n \in 1..Len(seen) : \A j \in 1..d :
        Permit(j) /\ made[j].host = seen[n].host => made[j].at <= seen[n].at

\* ... and the map is in the order of the last permits of its hosts.
Ordered(d) ==
    \A m, n \in 1..Len(seen) : m < n =>
        \A j \in 1..d : Permit(j) /\ made[j].host = seen[m].host =>
            \E i \in (j + 1)..d : Permit(i) /\ made[i].host = seen[n].host

MapGood(t, d) == Remembers(t, d) /\ Dated(d) /\ Ordered(d)

\* The clock never runs back.
Clocked ==
    /\ \A i, j \in 1..Len(made) : i <= j => made[i].at <= made[j].at
    /\ \A i \in 1..Len(made) : made[i].at <= now

ScanRecord == [next : Nat, span : Nat, changes : Nat, stale : Seq(Host)]

\* Nobody changes the map under the scan, and what the scan collects stays there, and
\* stays stale, until it is deleted.
Scanning(t) ==
    /\ pc[t] = "forgetting" =>
          /\ scan[t].span = Len(seen) /\ scan[t].changes = changes
          /\ scan[t].next <= Len(seen)
          /\ \A x \in 1..Len(scan[t].stale) :
                \E n \in 1..scan[t].next : seen[n].host = scan[t].stale[x]
    /\ pc[t] \in {"forgetting", "deleting"} =>
          /\ \A x, y \in 1..Len(scan[t].stale) : scan[t].stale[x] = scan[t].stale[y] => x = y
          /\ \A x \in 1..Len(scan[t].stale) :
                \E n \in 1..Len(seen) : /\ seen[n].host = scan[t].stale[x]
                                        /\ Stale(t, seen[n])

\* What a refusal, decision k, has to report.
Told(k, also) ==
    \A j \in 1..(k - 1) :
        Permit(j) /\ made[j].host = made[k].host
        => made[j].ip \in also \/ made[k].at > made[j].at + Window \/ Crowded(j, k - 1)

AllTold ==
    \A n \in 1..Len(handed) :
        Refusal(handed[n].decision) => Told(handed[n].decision, handed[n].also)

\* What the thread knows where it stands.
Holding(t) ==
    /\ pc[t] = "storing" => Carried(t).host \notin Hosts(seen)
    /\ pc[t] = "evicting" => Len(seen) > Capacity
    /\ pc[t] \in {"storing", "counting", "evicting"} => ~Refusal(serving[t])
    /\ pc[t] = "passing" /\ Refusal(serving[t]) => Told(serving[t], held[t])

Alone(t) ==
    /\ serving[t] = Len(made) /\ Clocked
    /\ \A d \in 0..Len(made) : d = Done(t) => MapGood(t, d)
    /\ scan \in [Thread -> ScanRecord]
    /\ Scanning(t) /\ Holding(t) /\ AllTold

WatchInv == \A t \in Thread : callers = {t} => Alone(t)

\* A step leaves every decision made before it.
Extended ==
    /\ Len(made) \in Nat /\ Len(made') \in Nat /\ Len(made) <= Len(made')
    /\ \A i \in 1..Len(made) : made'[i] = made[i]

LEMMA HostsFinite ==
    ASSUME NEW f, NEW S, IsFiniteSet(S)
    PROVE  IsFiniteSet({f[i].host : i \in S})
<1> DEFINE T == {f[i].host : i \in S}
           g == [i \in S |-> f[i].host]
<1>1. g \in Surjection(S, T)
  BY DEF Surjection
<1> HIDE DEF g, T
<1>2. IsFiniteSet(T)
  BY <1>1, FS_Surjection
<1> QED  BY <1>2 DEF T

\* What is gone stays so.
LEMMA GoneStays ==
    ASSUME Extended, NEW j \in 1..Len(made), NEW d \in 0..Len(made), NEW e \in 0..Len(made'),
           d <= e
    PROVE  /\ Old(j) => Old(j)'
           /\ Crowded(j, d) => Crowded(j, e)'
           /\ Gone(j, d) => Gone(j, e)'
<1>1. /\ Len(made) \in Nat /\ Len(made') \in Nat /\ Len(made) <= Len(made')
      /\ \A i \in 1..Len(made) : i \in 1..Len(made') /\ made'[i] = made[i]
  BY DEF Extended
<1>2. Old(j) => Old(j)'
  BY <1>1 DEF Old
<1>3. Crowded(j, d) => Crowded(j, e)'
  <2> DEFINE few == Later(j, d) \ {made[j].host}
             many == {made'[i].host : i \in {n \in (j + 1)..e : Permit(n)'}} \ {made'[j].host}
  <2>1. Later(j, d) \subseteq {made'[i].host : i \in {n \in (j + 1)..e : Permit(n)'}}
    <3> SUFFICES ASSUME NEW i \in (j + 1)..d, Permit(i)
                 PROVE  made[i].host \in {made'[k].host : k \in {n \in (j + 1)..e : Permit(n)'}}
      BY DEF Later
    <3>1. i \in (j + 1)..e /\ i \in 1..Len(made) /\ made'[i] = made[i]
      BY <1>1
    <3>2. Permit(i)'
      BY <3>1 DEF Permit
    <3> QED  BY <3>1, <3>2
  <2>2. few \subseteq many
    BY <1>1, <2>1
  <2>3. IsFiniteSet(many)
    <3> DEFINE places == {n \in (j + 1)..e : Permit(n)'}
    <3>1. IsFiniteSet((j + 1)..e)
      <4>1. j + 1 \in Int /\ e \in Int
        BY <1>1
      <4> QED  BY <4>1, FS_Interval
    <3>2. IsFiniteSet(places)
      <4>1. places \in SUBSET ((j + 1)..e)
        OBVIOUS
      <4> HIDE DEF places
      <4> QED  BY <3>1, <4>1, FS_Subset
    <3> HIDE DEF places
    <3>3. IsFiniteSet({made'[i].host : i \in places})
      BY <3>2, HostsFinite
    <3>4. IsFiniteSet({made'[i].host : i \in places} \ {made'[j].host})
      BY <3>3, FS_RemoveElement
    <3> QED  BY <3>4 DEF places
  <2> HIDE DEF few, many
  <2>4. Cardinality(few) <= Cardinality(many) /\ Cardinality(many) \in Nat
        /\ Cardinality(few) \in Nat
    BY <2>2, <2>3, FS_Subset, FS_CardinalityType
  <2>5. Cardinality(few) >= Capacity => Cardinality(many) >= Capacity
    BY <2>4, Constants
  <2> QED  BY <2>5 DEF Crowded, Later, few, many
<1> QED  BY <1>2, <1>3 DEF Gone

LEMMA ToldStays ==
    ASSUME Extended, NEW k \in 1..Len(made), NEW also, Told(k, also)
    PROVE  Told(k, also)'
<1>1. Len(made) \in Nat /\ Len(made') \in Nat /\ Len(made) <= Len(made')
      /\ k \in 1..Len(made') /\ made'[k] = made[k]
  BY DEF Extended
<1> SUFFICES ASSUME NEW j \in 1..(k - 1), Permit(j)', made'[j].host = made'[k].host
             PROVE  \/ made'[j].ip \in also \/ made'[k].at > made'[j].at + Window
                    \/ Crowded(j, k - 1)'
  BY DEF Told
<1>2. /\ j \in 1..Len(made) /\ made'[j] = made[j]
      /\ k - 1 \in 0..Len(made) /\ k - 1 \in 0..Len(made') /\ k - 1 <= k - 1
  BY <1>1 DEF Extended
<1>3. Permit(j) /\ made[j].host = made[k].host
  BY <1>1, <1>2 DEF Permit
<1>4. made[j].ip \in also \/ made[k].at > made[j].at + Window \/ Crowded(j, k - 1)
  BY <1>3 DEF Told
<1>5. Crowded(j, k - 1) => Crowded(j, k - 1)'
  BY <1>2, GoneStays
<1> QED  BY <1>1, <1>2, <1>4, <1>5

\* A step that leaves the map as it is, and takes in no new permit.
LEMMA MapStays ==
    ASSUME NEW t, Extended, UNCHANGED seen, NEW d \in 0..Len(made), NEW e \in 0..Len(made'),
           e = d \/ (e = d + 1 /\ ~Permit(e)'),
           \A j \in 1..d : InTransit(t, j) => InTransit(t, j)', MapGood(t, d)
    PROVE  MapGood(t, e)'
<1>1. /\ Len(made) \in Nat /\ Len(made') \in Nat /\ Len(made) <= Len(made') /\ d <= e
      /\ \A i \in 1..Len(made) : made'[i] = made[i]
  BY DEF Extended
<1>2. \A j \in 1..e : Permit(j)' => /\ j \in 1..d /\ j \in 1..Len(made)
                                    /\ made'[j] = made[j] /\ Permit(j)
  BY <1>1 DEF Permit
<1>3. \A i \in 1..d : i \in 1..e /\ made'[i] = made[i] /\ (Permit(i) => Permit(i)')
  BY <1>1 DEF Permit
<1>4. Remembers(t, e)'
  <2> SUFFICES ASSUME NEW j \in 1..e, Permit(j)'
               PROVE  FiledFor(j)' \/ InTransit(t, j)' \/ Gone(j, e)'
    BY DEF Remembers
  <2>1. j \in 1..d /\ j \in 1..Len(made) /\ made'[j] = made[j] /\ Permit(j)
    BY <1>2
  <2>2. FiledFor(j) \/ InTransit(t, j) \/ Gone(j, d)
    BY <2>1 DEF MapGood, Remembers
  <2>3. FiledFor(j) => FiledFor(j)'
    BY <2>1 DEF FiledFor
  <2>4. Gone(j, d) => Gone(j, e)'
    BY <1>1, <2>1, GoneStays
  <2> QED  BY <2>1, <2>2, <2>3, <2>4
<1>5. Dated(e)'
  BY <1>2 DEF MapGood, Dated
<1>6. Ordered(e)'
  <2> SUFFICES ASSUME NEW m \in 1..Len(seen), NEW n \in 1..Len(seen), m < n,
                      NEW j \in 1..e, Permit(j)', made'[j].host = seen[m].host
               PROVE  \E i \in (j + 1)..e : Permit(i)' /\ made'[i].host = seen[n].host
    BY DEF Ordered
  <2>1. j \in 1..d /\ Permit(j) /\ made[j].host = seen[m].host
    BY <1>2
  <2>2. PICK i \in (j + 1)..d : Permit(i) /\ made[i].host = seen[n].host
    BY <2>1 DEF MapGood, Ordered
  <2>3. i \in 1..d /\ i \in (j + 1)..e
    BY <1>1
  <2> QED  BY <1>3, <2>2, <2>3
<1> QED  BY <1>4, <1>5, <1>6 DEF MapGood

\* A step that takes the sighting at n out of the map, where what it held is gone or in a
\* thread's hands.
LEMMA MapShrinks ==
    ASSUME NEW t, Len(made) \in Nat, UNCHANGED made, NEW d \in 0..Len(made),
           Len(seen) \in Nat, NEW n \in 1..Len(seen), Len(seen') = Len(seen) - 1,
           \A i \in 1..(Len(seen) - 1) : seen'[i] = seen[IF i < n THEN i ELSE i + 1],
           pc[t] # "storing", MapGood(t, d),
           \A j \in 1..d :
              Permit(j) /\ made[j].host = seen[n].host /\ made[j].ip \in seen[n].addresses
              => InTransit(t, j)' \/ Gone(j, d)
    PROVE  MapGood(t, d)'
<1>1. /\ Extended /\ \A j : Permit(j)' <=> Permit(j)
  BY DEF Extended, Permit
<1>2. \A i \in 1..Len(seen') : \E k \in 1..Len(seen) : seen'[i] = seen[k]
  <2> SUFFICES ASSUME NEW i \in 1..Len(seen')
               PROVE  \E k \in 1..Len(seen) : seen'[i] = seen[k]
    OBVIOUS
  <2>1. i \in 1..Len(seen) /\ i + 1 \in 1..Len(seen) /\ i \in 1..(Len(seen) - 1)
    OBVIOUS
  <2>2. seen'[i] = seen[IF i < n THEN i ELSE i + 1]
    BY <2>1
  <2> QED  BY <2>1, <2>2
<1>3. \A k \in 1..Len(seen) : k # n => \E i \in 1..Len(seen') : seen'[i] = seen[k]
  <2> SUFFICES ASSUME NEW k \in 1..Len(seen), k # n
               PROVE  \E i \in 1..Len(seen') : seen'[i] = seen[k]
    OBVIOUS
  <2>1. CASE k < n
    <3>1. k \in 1..(Len(seen) - 1)
      BY <2>1
    <3>2. seen'[k] = seen[k]
      BY <2>1, <3>1
    <3> QED  BY <3>1, <3>2
  <2>2. CASE k > n
    <3>1. k - 1 \in 1..(Len(seen) - 1) /\ ~(k - 1 < n) /\ (k - 1) + 1 = k
      BY <2>2
    <3>2. seen'[k - 1] = seen[k]
      BY <3>1
    <3> QED  BY <3>1, <3>2
  <2> QED  BY <2>1, <2>2
<1>4. Remembers(t, d)'
  <2> SUFFICES ASSUME NEW j \in 1..d, Permit(j)
               PROVE  FiledFor(j)' \/ InTransit(t, j)' \/ Gone(j, d)'
    BY <1>1 DEF Remembers
  <2>1. FiledFor(j) \/ Gone(j, d)
    BY DEF MapGood, Remembers, InTransit
  <2>2. Gone(j, d) => Gone(j, d)'
    <3>1. j \in 1..Len(made) /\ d \in 0..Len(made') /\ d <= d
      OBVIOUS
    <3> QED  BY <1>1, <3>1, GoneStays
  <2>3. ASSUME FiledFor(j)
        PROVE  FiledFor(j)' \/ InTransit(t, j)' \/ Gone(j, d)
    <3>1. PICK k \in 1..Len(seen) : seen[k].host = made[j].host /\ made[j].ip \in seen[k].addresses
      BY <2>3 DEF FiledFor
    <3>2. CASE k = n
      BY <3>1, <3>2
    <3>3. CASE k # n
      <4>1. PICK i \in 1..Len(seen') : seen'[i] = seen[k]
        BY <1>3, <3>3
      <4> QED  BY <3>1, <4>1 DEF FiledFor
    <3> QED  BY <3>2, <3>3
  <2> QED  BY <2>1, <2>2, <2>3
<1>5. Dated(d)'
  BY <1>1, <1>2 DEF MapGood, Dated
<1>6. Ordered(d)'
  <2> SUFFICES ASSUME NEW a \in 1..Len(seen'), NEW b \in 1..Len(seen'), a < b,
                      NEW j \in 1..d, Permit(j), made[j].host = seen'[a].host
               PROVE  \E i \in (j + 1)..d : Permit(i) /\ made[i].host = seen'[b].host
    BY <1>1 DEF Ordered
  <2>1. PICK x \in 1..Len(seen), y \in 1..Len(seen) :
           x < y /\ seen'[a] = seen[x] /\ seen'[b] = seen[y]
    <3>1. /\ a \in 1..(Len(seen) - 1) /\ b \in 1..(Len(seen) - 1)
          /\ seen'[a] = seen[IF a < n THEN a ELSE a + 1]
          /\ seen'[b] = seen[IF b < n THEN b ELSE b + 1]
      OBVIOUS
    <3>2. /\ (IF a < n THEN a ELSE a + 1) \in 1..Len(seen)
          /\ (IF b < n THEN b ELSE b + 1) \in 1..Len(seen)
          /\ (IF a < n THEN a ELSE a + 1) < (IF b < n THEN b ELSE b + 1)
      BY <3>1
    <3> QED  BY <3>1, <3>2
  <2> QED  BY <2>1 DEF MapGood, Ordered
<1> QED  BY <1>4, <1>5, <1>6 DEF MapGood

\* A step that files the latest decision's sighting behind all others.
LEMMA MapGrows ==
    ASSUME NEW t, Len(made) \in Nat, UNCHANGED made, Clocked,
           NEW d \in 0..Len(made), d + 1 = Len(made), Permit(d + 1),
           \A i \in 1..Len(made) : made[i].at \in Nat,
           Len(seen) \in Nat, NEW sighting, Len(seen') = Len(seen) + 1,
           \A i \in 1..Len(seen) : seen'[i] = seen[i], seen'[Len(seen) + 1] = sighting,
           sighting.host = made[d + 1].host, sighting.at = made[d + 1].at,
           sighting.host \notin Hosts(seen), made[d + 1].ip \in sighting.addresses,
           \A j \in 1..d : InTransit(t, j) => /\ made[j].host = sighting.host
                                             /\ made[j].ip \in sighting.addresses,
           MapGood(t, d)
    PROVE  MapGood(t, d + 1)'
<1>1. /\ Extended /\ \A j : Permit(j)' <=> Permit(j)
  BY DEF Extended, Permit
<1>2. /\ \A i \in 1..Len(seen') : i \in 1..Len(seen) \/ i = Len(seen) + 1
      /\ \A i \in 1..Len(seen) : i \in 1..Len(seen') /\ seen[i].host # sighting.host
      /\ Len(seen) + 1 \in 1..Len(seen')
  BY DEF Hosts
<1>3. \A j \in 1..(d + 1) : j \in 1..d \/ j = d + 1
  OBVIOUS
<1>4. Remembers(t, d + 1)'
  <2> SUFFICES ASSUME NEW j \in 1..(d + 1), Permit(j)
               PROVE  FiledFor(j)' \/ Gone(j, d + 1)'
    BY <1>1 DEF Remembers
  <2>1. CASE j = d + 1
    BY <1>2, <2>1 DEF FiledFor
  <2>2. CASE j \in 1..d
    <3>1. FiledFor(j) \/ InTransit(t, j) \/ Gone(j, d)
      BY <2>2 DEF MapGood, Remembers
    <3>2. FiledFor(j) => FiledFor(j)'
      BY <1>2 DEF FiledFor
    <3>3. InTransit(t, j) => FiledFor(j)'
      BY <1>2, <2>2 DEF FiledFor
    <3>4. Gone(j, d) => Gone(j, d + 1)'
      <4>1. j \in 1..Len(made) /\ d + 1 \in 0..Len(made') /\ d <= d + 1
        BY <2>2
      <4> QED  BY <1>1, <4>1, GoneStays
    <3> QED  BY <3>1, <3>2, <3>3, <3>4
  <2> QED  BY <1>3, <2>1, <2>2
<1>5. Dated(d + 1)'
  <2> SUFFICES ASSUME NEW n \in 1..Len(seen'), NEW j \in 1..(d + 1), Permit(j),
                      made[j].host = seen'[n].host
               PROVE  made[j].at <= seen'[n].at
    BY <1>1 DEF Dated
  <2>1. CASE n = Len(seen) + 1
    <3>1. j \in 1..Len(made) /\ d + 1 \in 1..Len(made) /\ j <= d + 1
      OBVIOUS
    <3> QED  BY <2>1, <3>1 DEF Clocked
  <2>2. CASE n \in 1..Len(seen)
    <3>1. j \in 1..d
      BY <1>2, <1>3, <2>2
    <3> QED  BY <2>2, <3>1 DEF MapGood, Dated
  <2> QED  BY <1>2, <2>1, <2>2
<1>6. Ordered(d + 1)'
  <2> SUFFICES ASSUME NEW m \in 1..Len(seen'), NEW n \in 1..Len(seen'), m < n,
                      NEW j \in 1..(d + 1), Permit(j), made[j].host = seen'[m].host
               PROVE  \E i \in (j + 1)..(d + 1) : Permit(i) /\ made[i].host = seen'[n].host
    BY <1>1 DEF Ordered
  <2>1. m \in 1..Len(seen) /\ seen'[m] = seen[m]
    OBVIOUS
  <2>2. j \in 1..d
    BY <1>2, <1>3, <2>1
  <2>3. CASE n = Len(seen) + 1
    <3>1. d + 1 \in (j + 1)..(d + 1)
      BY <2>2
    <3> QED  BY <2>3, <3>1
  <2>4. CASE n \in 1..Len(seen)
    <3>1. PICK i \in (j + 1)..d : Permit(i) /\ made[i].host = seen[n].host
      BY <2>1, <2>2, <2>4 DEF MapGood, Ordered
    <3>2. i \in (j + 1)..(d + 1)
      OBVIOUS
    <3> QED  BY <2>4, <3>1, <3>2
  <2> QED  BY <1>2, <2>3, <2>4
<1> QED  BY <1>4, <1>5, <1>6 DEF MapGood

\* When the map is over its capacity, its first host is one that as many others came after.
LEMMA HeadCrowded ==
    ASSUME Filed, Len(made) \in Nat, NEW d \in 0..Len(made), Ordered(d),
           Len(seen) > Capacity, NEW j \in 1..d, Permit(j), made[j].host = seen[1].host
    PROVE  Crowded(j, d)
<1> DEFINE others == {seen[n].host : n \in 2..Len(seen)}
           later == Later(j, d) \ {made[j].host}
           name == [n \in 2..Len(seen) |-> seen[n].host]
<1>1. /\ Len(seen) \in Nat /\ Capacity \in Nat
      /\ \A i, k \in 1..Len(seen) : seen[i].host = seen[k].host => i = k
  BY Constants DEF Filed
<1>2. \A n \in 2..Len(seen) : n \in 1..Len(seen) /\ 1 \in 1..Len(seen) /\ 1 < n /\ n # 1
  BY <1>1
<1>3. others \subseteq later
  <2> SUFFICES ASSUME NEW n \in 2..Len(seen)
               PROVE  seen[n].host \in later
    OBVIOUS
  <2>1. PICK i \in (j + 1)..d : Permit(i) /\ made[i].host = seen[n].host
    BY <1>2 DEF Ordered
  <2>2. seen[n].host \in Later(j, d)
    BY <2>1 DEF Later
  <2>3. seen[n].host # made[j].host
    BY <1>1, <1>2
  <2> QED  BY <2>2, <2>3
<1>4. name \in Bijection(2..Len(seen), others)
  <2>1. name \in Surjection(2..Len(seen), others)
    BY DEF Surjection
  <2>2. name \in Injection(2..Len(seen), others)
    BY <1>1, <1>2 DEF Injection, IsInjective
  <2> QED  BY <2>1, <2>2 DEF Bijection
<1> HIDE DEF name, others
<1>5. IsFiniteSet(others) /\ Cardinality(others) = Len(seen) - 1
  <2>1. IsFiniteSet(2..Len(seen)) /\ Cardinality(2..Len(seen)) = Len(seen) - 1
    <3>1. 2 \in Int /\ Len(seen) \in Int /\ Len(seen) >= 1
      BY <1>1
    <3>2. /\ IsFiniteSet(2..Len(seen))
          /\ Cardinality(2..Len(seen)) = IF 2 > Len(seen) THEN 0 ELSE Len(seen) - 2 + 1
      BY <3>1, FS_Interval
    <3> QED  BY <1>1, <3>1, <3>2
  <2>2. ExistsBijection(2..Len(seen), others)
    BY <1>4 DEF ExistsBijection
  <2> QED  BY <2>1, <2>2, FS_Bijection
<1>6. IsFiniteSet(later)
  <2> DEFINE places == {n \in (j + 1)..d : Permit(n)}
  <2>1. IsFiniteSet((j + 1)..d)
    <3>1. j + 1 \in Int /\ d \in Int
      OBVIOUS
    <3> QED  BY <3>1, FS_Interval
  <2>2. IsFiniteSet(places)
    <3>1. places \in SUBSET ((j + 1)..d)
      OBVIOUS
    <3> HIDE DEF places
    <3> QED  BY <2>1, <3>1, FS_Subset
  <2> HIDE DEF places
  <2>3. IsFiniteSet({made[i].host : i \in places})
    BY <2>2, HostsFinite
  <2>4. IsFiniteSet({made[i].host : i \in places} \ {made[j].host})
    BY <2>3, FS_RemoveElement
  <2> QED  BY <2>4 DEF Later, places
<1> HIDE DEF later
<1>7. Cardinality(others) <= Cardinality(later) /\ Cardinality(later) \in Nat
  BY <1>3, <1>6, FS_Subset, FS_CardinalityType
<1>8. Cardinality(later) >= Capacity
  BY <1>1, <1>5, <1>7
<1> QED  BY <1>8 DEF Crowded, later

\* What the only caller of a watch knows.
LEMMA Sole ==
    ASSUME IInv, NEW t \in Thread, callers = {t}, Alone(t)
    PROVE  /\ t \in callers /\ serving[t] = Len(made) /\ Clocked
           /\ Scanning(t) /\ Holding(t) /\ AllTold
           /\ scan \in [Thread -> ScanRecord] /\ scan[t] \in ScanRecord
           /\ pc \in [Thread -> State] /\ held \in [Thread -> SUBSET Ip]
           /\ Hand(t, pc[t], held[t])
           /\ Len(made) \in Nat /\ (pc[t] # "idle" => Len(made) >= 1)
           /\ \A i \in 1..Len(made) : made[i] \in Decision /\ made[i].at \in Nat
           /\ Filed /\ seen \in Seq(Sighting) /\ Len(seen) \in Nat
           /\ \A n \in 1..Len(seen) : seen[n].host \in Host /\ seen[n].at \in Nat
           /\ Capacity \in Nat /\ Window \in Nat /\ changes \in Nat /\ now \in Nat
           /\ Done(t) \in 0..Len(made)
           /\ MapGood(t, Done(t))
<1>1. /\ t \in callers /\ serving[t] = Len(made) /\ Clocked
      /\ Scanning(t) /\ Holding(t) /\ AllTold
      /\ scan \in [Thread -> ScanRecord] /\ scan[t] \in ScanRecord
  BY DEF Alone
<1>2. /\ pc \in [Thread -> State] /\ held \in [Thread -> SUBSET Ip]
      /\ Hand(t, pc[t], held[t]) /\ changes \in Nat /\ now \in Nat
      /\ made \in Seq(Decision) /\ Filed /\ seen \in Seq(Sighting)
      /\ serving \in [Thread -> 0..Len(made)]
  BY DEF IInv, Pieces, InHand, Filed
<1>3. Len(made) \in Nat /\ Len(seen) \in Nat /\ Capacity \in Nat /\ Window \in Nat
  BY <1>2, WatchAssumption
<1>4. \A i \in 1..Len(made) : made[i] \in Decision /\ made[i].at \in Nat
  <2>1. \A i \in 1..Len(made) : made[i] \in Decision
    BY <1>2, ElementOfSeq
  <2> QED  BY <2>1 DEF Decision
<1>5. \A n \in 1..Len(seen) : seen[n].host \in Host /\ seen[n].at \in Nat
  <2>1. \A n \in 1..Len(seen) : seen[n] \in Sighting
    BY <1>2, ElementOfSeq
  <2> QED  BY <2>1 DEF Sighting
<1>6. pc[t] # "idle" => Len(made) >= 1
  BY <1>1, <1>2, <1>3 DEF Hand
<1>7. Done(t) \in 0..Len(made)
  BY <1>3, <1>6 DEF Done
<1>8. MapGood(t, Done(t))
  BY <1>7 DEF Alone
<1> QED  BY <1>1, <1>2, <1>3, <1>4, <1>5, <1>6, <1>7, <1>8

\* The decisions as they are, and what is said of them.
LEMMA MadeAsItIs ==
    ASSUME UNCHANGED made, Len(made) \in Nat
    PROVE  /\ Extended
           /\ \A i : (Permit(i)' <=> Permit(i)) /\ (Refusal(i)' <=> Refusal(i))
           /\ \A k, also : Told(k, also)' <=> Told(k, also)
           /\ UNCHANGED now /\ Clocked => Clocked'
           /\ UNCHANGED handed /\ AllTold => AllTold'
<1>1. \A i : (Permit(i)' <=> Permit(i)) /\ (Refusal(i)' <=> Refusal(i))
  BY DEF Permit, Refusal
<1>2. \A j, d : Crowded(j, d)' <=> Crowded(j, d)
  BY DEF Crowded, Later, Permit
<1>3. \A k, also : Told(k, also)' <=> Told(k, also)
  BY <1>1, <1>2 DEF Told
<1>4. UNCHANGED now /\ Clocked => Clocked'
  BY DEF Clocked
<1>5. UNCHANGED handed /\ AllTold => AllTold'
  BY <1>1, <1>3 DEF AllTold
<1> QED  BY <1>1, <1>3, <1>4, <1>5 DEF Extended

\* A step of the only caller inside a call.
LEMMA AloneStep ==
    ASSUME IInv, NEW t \in Thread, callers = {t}, Alone(t),
           UNCHANGED <<now, made, handed, serving>>,
           NEW d \in 0..Len(made), d = Done(t)', MapGood(t, d)',
           scan' \in [Thread -> ScanRecord], Scanning(t)', Holding(t)'
    PROVE  Alone(t)'
<1>1. Len(made) \in Nat /\ Clocked /\ AllTold /\ serving[t] = Len(made)
  BY Sole
<1>2. Clocked' /\ AllTold'
  BY <1>1, MadeAsItIs
<1>3. \A e \in 0..Len(made') : e = Done(t)' => MapGood(t, e)'
  OBVIOUS
<1> QED  BY <1>1, <1>2, <1>3 DEF Alone

LEMMA AloneWaits ==
    ASSUME IInv, NEW t \in Thread, callers = {t}, Alone(t), now' \in Nat, now <= now',
           UNCHANGED <<seen, changes, made, handed, pc, serving, scan, held>>
    PROVE  Alone(t)'
<1>1. Len(made) \in Nat /\ Clocked /\ AllTold /\ now \in Nat
      /\ \A i \in 1..Len(made) : made[i].at \in Nat
  BY Sole
<1>2. Extended /\ (\A k, also : Told(k, also)' <=> Told(k, also)) /\ AllTold'
      /\ \A i : Refusal(i)' <=> Refusal(i)
  BY <1>1, MadeAsItIs
<1>3. Clocked'
  BY <1>1 DEF Clocked
<1>4. ASSUME NEW d \in 0..Len(made'), d = Done(t)'
      PROVE  MapGood(t, d)'
  <2>1. d \in 0..Len(made) /\ d = Done(t)
    BY <1>4 DEF Done
  <2>2. MapGood(t, d)
    BY <2>1 DEF Alone
  <2>3. \A j \in 1..d : InTransit(t, j) => InTransit(t, j)'
    BY DEF InTransit, Carried
  <2> QED  BY <1>2, <1>4, <2>1, <2>2, <2>3, MapStays
<1>5. Scanning(t)'
  BY DEF Alone, Scanning, Stale, Carried
<1>6. Holding(t)'
  BY <1>2 DEF Alone, Holding, Carried, Hosts
<1> QED  BY <1>2, <1>3, <1>4, <1>5, <1>6 DEF Alone

LEMMA ScanAlone ==
    ASSUME IInv, NEW t \in Thread, callers = {t}, Alone(t), Scan(t)
    PROVE  Alone(t)'
<1> DEFINE x == scan[t].next + 1
           stale == scan[t].stale
           late == IF Stale(t, seen[x]) THEN Append(stale, seen[x].host) ELSE stale
<1>1. /\ pc[t] = "forgetting" /\ scan[t].next < scan[t].span /\ scan[t].changes = changes
      /\ scan' = [scan EXCEPT ![t].next = x, ![t].stale = late]
      /\ UNCHANGED <<callers, now, seen, changes, made, handed, pc, serving, held>>
  BY DEF Scan
<1>2. /\ scan \in [Thread -> ScanRecord] /\ scan[t].next \in Nat /\ stale \in Seq(Host)
      /\ scan[t].span = Len(seen) /\ Len(seen) \in Nat /\ Len(made) \in Nat
      /\ Scanning(t) /\ Holding(t) /\ Filed
      /\ \A n \in 1..Len(seen) : seen[n].host \in Host
      /\ Done(t) \in 0..Len(made) /\ MapGood(t, Done(t))
  BY <1>1, Sole DEF Scanning, ScanRecord
<1>3. x \in 1..Len(seen) /\ x \in Nat /\ x <= Len(seen)
  BY <1>1, <1>2
<1>4. late \in Seq(Host)
  BY <1>2, <1>3
<1>5. /\ scan' \in [Thread -> ScanRecord]
      /\ scan'[t].next = x /\ scan'[t].stale = late
      /\ scan'[t].span = scan[t].span /\ scan'[t].changes = scan[t].changes
  <2> HIDE DEF x, late
  <2> QED  BY <1>1, <1>2, <1>3, <1>4 DEF ScanRecord
<1>6. /\ \A a, b \in 1..Len(late) : late[a] = late[b] => a = b
      /\ \A a \in 1..Len(late) : \E n \in 1..x : seen[n].host = late[a]
      /\ \A a \in 1..Len(late) : \E n \in 1..Len(seen) :
            seen[n].host = late[a] /\ Stale(t, seen[n])
  <2>1. /\ \A a, b \in 1..Len(stale) : stale[a] = stale[b] => a = b
        /\ \A a \in 1..Len(stale) : \E n \in 1..scan[t].next : seen[n].host = stale[a]
        /\ \A a \in 1..Len(stale) : \E n \in 1..Len(seen) :
              seen[n].host = stale[a] /\ Stale(t, seen[n])
    BY <1>1, <1>2 DEF Scanning
  <2>2. CASE ~Stale(t, seen[x])
    <3>1. \A n \in 1..scan[t].next : n \in 1..x
      BY <1>2
    <3> QED  BY <2>1, <2>2, <3>1
  <2>3. CASE Stale(t, seen[x])
    <3>1. /\ late = Append(stale, seen[x].host) /\ Len(stale) \in Nat
          /\ Len(late) = Len(stale) + 1 /\ late[Len(stale) + 1] = seen[x].host
          /\ \A a \in 1..Len(stale) : late[a] = stale[a]
      BY <1>2, <1>3, <2>3
    <3>2. \A a \in 1..Len(late) : a \in 1..Len(stale) \/ a = Len(stale) + 1
      BY <3>1
    <3>3. \A a \in 1..Len(stale) : stale[a] # seen[x].host
      <4> SUFFICES ASSUME NEW a \in 1..Len(stale), stale[a] = seen[x].host
                   PROVE  FALSE
        OBVIOUS
      <4>1. PICK n \in 1..scan[t].next : seen[n].host = seen[x].host
        BY <2>1
      <4>2. n \in 1..Len(seen) /\ n # x
        BY <1>2, <1>3
      <4> QED  BY <1>2, <1>3, <4>1, <4>2 DEF Filed
    <3> HIDE DEF late, stale
    <3>4. \A a, b \in 1..Len(late) : late[a] = late[b] => a = b
      BY <2>1, <3>1, <3>2, <3>3
    <3>5. \A a \in 1..Len(late) : \E n \in 1..x : seen[n].host = late[a]
      <4>1. x \in 1..x /\ \A n \in 1..scan[t].next : n \in 1..x
        BY <1>2, <1>3
      <4> HIDE DEF x
      <4>2. SUFFICES ASSUME NEW a \in 1..Len(late)
                     PROVE  \E n \in 1..x : seen[n].host = late[a]
        OBVIOUS
      <4>3. CASE a \in 1..Len(stale)
        <5>1. PICK n \in 1..scan[t].next : seen[n].host = stale[a]
          BY <2>1, <4>3
        <5> QED  BY <3>1, <4>1, <4>3, <5>1
      <4>4. CASE a = Len(stale) + 1
        BY <3>1, <4>1, <4>4
      <4> QED  BY <3>2, <4>3, <4>4
    <3>6. \A a \in 1..Len(late) : \E n \in 1..Len(seen) :
             seen[n].host = late[a] /\ Stale(t, seen[n])
      <4> HIDE DEF x
      <4> QED  BY <1>3, <2>1, <2>3, <3>1, <3>2
    <3> QED  BY <3>4, <3>5, <3>6
  <2> QED  BY <2>2, <2>3
<1> HIDE DEF x, late, stale
<1>7. Scanning(t)'
  BY <1>1, <1>2, <1>3, <1>5, <1>6 DEF Scanning, Stale, Carried
<1>8. Holding(t)'
  BY <1>1 DEF Holding
<1>9. PICK d \in 0..Len(made) : d = Done(t)
  BY <1>2
<1>10. d = Done(t)' /\ MapGood(t, d)'
  <2>1. d = Done(t)' /\ MapGood(t, d) /\ Extended
    BY <1>1, <1>2, <1>9, MadeAsItIs DEF Done
  <2>2. \A j \in 1..d : InTransit(t, j) => InTransit(t, j)'
    BY <1>1 DEF InTransit
  <2>3. d \in 0..Len(made')
    BY <1>1
  <2> QED  BY <1>1, <2>1, <2>2, <2>3, MapStays
<1> QED  BY <1>1, <1>5, <1>7, <1>8, <1>10, AloneStep

LEMMA ScanEndsAlone ==
    ASSUME IInv, NEW t \in Thread, callers = {t}, Alone(t), ScanEnds(t)
    PROVE  Alone(t)'
<1>1. /\ pc[t] = "forgetting" /\ pc' = [pc EXCEPT ![t] = "deleting"]
      /\ UNCHANGED <<callers, now, seen, changes, made, handed, serving, scan, held>>
  BY DEF ScanEnds
<1>2. /\ pc'[t] = "deleting" /\ Len(made) \in Nat /\ Scanning(t)
      /\ Done(t) \in 0..Len(made) /\ MapGood(t, Done(t)) /\ scan \in [Thread -> ScanRecord]
  BY <1>1, Sole
<1>3. Scanning(t)' /\ Holding(t)'
  BY <1>1, <1>2 DEF Scanning, Holding, Stale, Carried
<1>4. PICK d \in 0..Len(made) : d = Done(t)
  BY <1>2
<1>5. d = Done(t)' /\ MapGood(t, d)'
  <2>1. d = Done(t)' /\ MapGood(t, d) /\ Extended
    BY <1>1, <1>2, <1>4, MadeAsItIs DEF Done
  <2>2. \A j \in 1..d : InTransit(t, j) => InTransit(t, j)'
    BY <1>1 DEF InTransit
  <2>3. d \in 0..Len(made')
    BY <1>1
  <2> QED  BY <1>1, <2>1, <2>2, <2>3, MapStays
<1> QED  BY <1>1, <1>2, <1>3, <1>5, AloneStep

\* Where a sighting was that is taken out, and what stays.
LEMMA TakenOut ==
    ASSUME IInv, NEW host \in Hosts(seen), seen' = Without(seen, host), UNCHANGED made
    PROVE  \E n \in 1..Len(seen) :
              /\ seen[n].host = host /\ n = At(seen, host)
              /\ \A k \in 1..Len(seen) : seen[k].host = host => k = n
              /\ Len(seen) \in Nat /\ Len(seen') = Len(seen) - 1
              /\ \A i \in 1..(Len(seen) - 1) : seen'[i] = seen[IF i < n THEN i ELSE i + 1]
              /\ \A k \in 1..Len(seen) : k # n => \E i \in 1..Len(seen') : seen'[i] = seen[k]
              /\ host \notin Hosts(seen')
<1> DEFINE n == At(seen, host)
<1>1. n \in 1..Len(seen) /\ seen[n].host = host
  BY AtHost
<1>2. seen' = [i \in 1..(Len(seen) - 1) |-> seen[IF i < n THEN i ELSE i + 1]]
  BY DEF Without
<1>3. /\ seen \in Seq(Sighting) /\ Len(seen) \in Nat /\ Len(seen') = Len(seen) - 1
      /\ \A i, k \in 1..Len(seen) : seen[i].host = seen[k].host => i = k
  BY WithoutKeeps DEF IInv, Filed
<1> HIDE DEF n
<1>4. \A i \in 1..(Len(seen) - 1) : seen'[i] = seen[IF i < n THEN i ELSE i + 1]
  BY <1>2
<1>5. \A k \in 1..Len(seen) : k # n => \E i \in 1..Len(seen') : seen'[i] = seen[k]
  <2> SUFFICES ASSUME NEW k \in 1..Len(seen), k # n
               PROVE  \E i \in 1..Len(seen') : seen'[i] = seen[k]
    OBVIOUS
  <2>1. CASE k < n
    <3>1. k \in 1..(Len(seen) - 1)
      BY <1>1, <1>3, <2>1
    <3>2. seen'[k] = seen[k]
      BY <1>4, <2>1, <3>1
    <3> QED  BY <1>3, <3>1, <3>2
  <2>2. CASE k > n
    <3>1. k - 1 \in 1..(Len(seen) - 1) /\ ~(k - 1 < n) /\ (k - 1) + 1 = k
      BY <1>1, <1>3, <2>2
    <3>2. seen'[k - 1] = seen[k]
      BY <1>4, <3>1
    <3> QED  BY <1>3, <3>1, <3>2
  <2> QED  BY <1>1, <1>3, <2>1, <2>2
<1>6. host \notin Hosts(seen')
  <2> SUFFICES ASSUME NEW i \in 1..Len(seen'), seen'[i].host = host
               PROVE  FALSE
    BY DEF Hosts
  <2> DEFINE k == IF i < n THEN i ELSE i + 1
  <2>1. i \in 1..(Len(seen) - 1)
    BY <1>3
  <2>2. k \in 1..Len(seen) /\ k # n
    BY <1>1, <1>3, <2>1
  <2>3. seen'[i] = seen[k]
    BY <1>4, <2>1
  <2> HIDE DEF k
  <2> QED  BY <1>1, <1>3, <2>2, <2>3
<1>7. n = At(seen, host)
  BY DEF n
<1>8. \A k \in 1..Len(seen) : seen[k].host = host => k = n
  BY <1>1, <1>3
<1> QED  BY <1>1, <1>3, <1>4, <1>5, <1>6, <1>7, <1>8

LEMMA DeleteAlone ==
    ASSUME IInv, NEW t \in Thread, callers = {t}, Alone(t), Delete(t)
    PROVE  Alone(t)'
<1> DEFINE stale == scan[t].stale
           first == Head(stale)
           left == Tail(stale)
<1>1. /\ pc[t] = "deleting" /\ stale # << >> /\ first \in Hosts(seen)
      /\ seen' = Without(seen, first)
      /\ scan' = [scan EXCEPT ![t].stale = left]
      /\ UNCHANGED <<callers, now, made, handed, pc, serving, held>>
  BY DEF Delete
<1>2. /\ scan \in [Thread -> ScanRecord] /\ scan[t] \in ScanRecord /\ stale \in Seq(Host)
      /\ Len(seen) \in Nat /\ Len(made) \in Nat /\ Len(made) >= 1
      /\ serving[t] = Len(made) /\ Window \in Nat
      /\ \A n \in 1..Len(seen) : seen[n].at \in Nat
      /\ \A i \in 1..Len(made) : made[i].at \in Nat
      /\ Done(t) \in 0..Len(made) /\ MapGood(t, Done(t))
  BY <1>1, Sole DEF ScanRecord
<1>3. /\ \A x, y \in 1..Len(stale) : stale[x] = stale[y] => x = y
      /\ \A x \in 1..Len(stale) : \E n \in 1..Len(seen) : /\ seen[n].host = stale[x]
                                                          /\ Stale(t, seen[n])
  BY <1>1, Sole DEF Scanning
<1>4. /\ first = stale[1] /\ left \in Seq(Host) /\ Len(stale) \in Nat /\ 1 \in 1..Len(stale)
      /\ Len(left) = Len(stale) - 1 /\ \A x \in 1..Len(left) : left[x] = stale[x + 1]
  BY <1>1, <1>2, HeadTailProperties
<1>5. scan' \in [Thread -> ScanRecord] /\ scan'[t].stale = left
  <2> HIDE DEF left
  <2> QED  BY <1>1, <1>2, <1>4 DEF ScanRecord
<1>6. PICK n \in 1..Len(seen) :
         /\ seen[n].host = first /\ n = At(seen, first)
         /\ \A k \in 1..Len(seen) : seen[k].host = first => k = n
         /\ Len(seen) \in Nat /\ Len(seen') = Len(seen) - 1
         /\ \A i \in 1..(Len(seen) - 1) : seen'[i] = seen[IF i < n THEN i ELSE i + 1]
         /\ \A k \in 1..Len(seen) : k # n => \E i \in 1..Len(seen') : seen'[i] = seen[k]
         /\ first \notin Hosts(seen')
  BY <1>1, TakenOut
<1>7. Stale(t, seen[n])
  BY <1>3, <1>4, <1>6
<1>8. ASSUME NEW x \in 1..Len(left)
      PROVE  \E i \in 1..Len(seen') : seen'[i].host = left[x] /\ Stale(t, seen'[i])
  <2>1. x + 1 \in 1..Len(stale) /\ left[x] = stale[x + 1] /\ stale[x + 1] # stale[1]
    <3>1. x + 1 \in 1..Len(stale) /\ x + 1 # 1 /\ left[x] = stale[x + 1]
      BY <1>4
    <3> HIDE DEF stale, left
    <3> QED  BY <1>3, <1>4, <3>1
  <2>2. PICK k \in 1..Len(seen) : seen[k].host = stale[x + 1] /\ Stale(t, seen[k])
    BY <1>3, <2>1
  <2>3. PICK i \in 1..Len(seen') : seen'[i] = seen[k]
    BY <1>4, <1>6, <2>1, <2>2
  <2> QED  BY <2>1, <2>2, <2>3
<1>9. \A x, y \in 1..Len(left) : left[x] = left[y] => x = y
  <2> SUFFICES ASSUME NEW x \in 1..Len(left), NEW y \in 1..Len(left), left[x] = left[y]
               PROVE  x = y
    OBVIOUS
  <2>1. /\ x + 1 \in 1..Len(stale) /\ y + 1 \in 1..Len(stale) /\ x \in Nat /\ y \in Nat
        /\ left[x] = stale[x + 1] /\ left[y] = stale[y + 1]
    BY <1>4
  <2> HIDE DEF stale, left
  <2>2. x + 1 = y + 1
    BY <1>3, <2>1
  <2> QED  BY <2>1, <2>2
<1> HIDE DEF stale, first, left
<1>10. Scanning(t)' /\ Holding(t)'
  <2>1. pc'[t] = "deleting"
    BY <1>1
  <2>2. \A x \in 1..Len(left) : \E i \in 1..Len(seen') :
           seen'[i].host = left[x] /\ made'[serving'[t]].at > seen'[i].at + Window
    BY <1>1, <1>8 DEF Stale, Carried
  <2>3. Scanning(t)'
    BY <1>5, <1>9, <2>1, <2>2 DEF Scanning, Stale, Carried
  <2> QED  BY <2>1, <2>3 DEF Holding
<1>11. PICK d \in 0..Len(made) : d = Done(t)
  BY <1>2
<1>12. d = Done(t)' /\ MapGood(t, d)'
  <2>1. d = Done(t)' /\ MapGood(t, d)
    BY <1>1, <1>2, <1>11 DEF Done
  <2>2. ASSUME NEW j \in 1..d, Permit(j), made[j].host = seen[n].host
        PROVE  Gone(j, d)
    <3>1. made[j].at <= seen[n].at
      BY <2>1, <2>2 DEF MapGood, Dated
    <3>2. made[Len(made)].at > seen[n].at + Window
      BY <1>2, <1>7 DEF Stale, Carried
    <3>3. /\ j \in 1..Len(made) /\ Len(made) \in 1..Len(made)
          /\ made[j].at \in Nat /\ made[Len(made)].at \in Nat /\ seen[n].at \in Nat
      BY <1>2
    <3>4. \A a, b, c, w \in Nat : a <= b /\ c > b + w => c > a + w
      OBVIOUS
    <3>5. made[Len(made)].at > made[j].at + Window
      BY <1>2, <3>1, <3>2, <3>3, <3>4
    <3> QED  BY <3>3, <3>5 DEF Gone, Old
  <2>3. /\ \A j \in 1..d :
             Permit(j) /\ made[j].host = seen[n].host /\ made[j].ip \in seen[n].addresses
             => InTransit(t, j)' \/ Gone(j, d)
        /\ pc[t] # "storing" /\ UNCHANGED made
    BY <1>1, <2>2
  <2> QED  BY <1>2, <1>6, <2>1, <2>3, MapShrinks
<1> QED  BY <1>1, <1>5, <1>10, <1>12, AloneStep

\* A refusal finds on file whatever the map has not been made to forget.
LEMMA CompareAlone ==
    ASSUME IInv, NEW t \in Thread, callers = {t}, Alone(t), Compare(t)
    PROVE  Alone(t)'
<1> DEFINE host == Carried(t).host
           also == IF host \in Hosts(seen)
                   THEN seen[At(seen, host)].addresses \ {Carried(t).ip} ELSE {}
<1>1. /\ pc[t] = "deleting" /\ Carried(t).ip \notin Permitted
      /\ held' = [held EXCEPT ![t] = also] /\ pc' = [pc EXCEPT ![t] = "passing"]
      /\ UNCHANGED <<callers, now, seen, changes, made, handed, serving, scan>>
  BY DEF Compare, Outcome
<1>2. /\ serving[t] = Len(made) /\ Carried(t) = made[Len(made)]
      /\ pc \in [Thread -> State] /\ held \in [Thread -> SUBSET Ip]
      /\ Len(made) \in Nat /\ Len(made) >= 1 /\ Clocked /\ Window \in Nat
      /\ \A i \in 1..Len(made) : made[i].at \in Nat
      /\ scan \in [Thread -> ScanRecord] /\ Filed /\ Done(t) = Len(made) - 1
      /\ MapGood(t, Done(t))
  BY <1>1, Sole DEF Done, Carried
<1> HIDE DEF host, also
<1>3. pc'[t] = "passing" /\ held'[t] = also
  BY <1>1, <1>2
<1>4. PICK d \in 0..Len(made) : d = Len(made) - 1 /\ MapGood(t, d)
  BY <1>2
<1>5. Told(Len(made), also)
  <2> SUFFICES ASSUME NEW j \in 1..(Len(made) - 1), Permit(j),
                      made[j].host = made[Len(made)].host
               PROVE  \/ made[j].ip \in also
                      \/ made[Len(made)].at > made[j].at + Window
                      \/ Crowded(j, Len(made) - 1)
    BY DEF Told
  <2>1. FiledFor(j) \/ Gone(j, d)
    BY <1>1, <1>4 DEF MapGood, Remembers, InTransit
  <2>2. CASE FiledFor(j)
    <3>1. PICK n \in 1..Len(seen) : seen[n].host = host /\ made[j].ip \in seen[n].addresses
      BY <1>2, <2>2 DEF FiledFor, host
    <3>2. host \in Hosts(seen)
      BY <3>1 DEF Hosts
    <3>3. At(seen, host) = n
      BY <1>2, <3>1, <3>2, AtHost DEF Filed
    <3>4. made[j].ip # Carried(t).ip
      BY <1>1 DEF Permit
    <3> QED  BY <3>1, <3>2, <3>3, <3>4 DEF also
  <2>3. CASE Old(j)
    <3>1. PICK k \in 1..Len(made) : made[k].at > made[j].at + Window
      BY <2>3 DEF Old
    <3>2. k <= Len(made) /\ Len(made) \in 1..Len(made) /\ j \in 1..Len(made)
      BY <1>2
    <3>3. made[k].at <= made[Len(made)].at
      BY <1>2, <3>2 DEF Clocked
    <3>4. \A a, b, c, w \in Nat : b > a + w /\ b <= c => c > a + w
      OBVIOUS
    <3> QED  BY <1>2, <3>1, <3>2, <3>3, <3>4
  <2>4. CASE Crowded(j, d)
    BY <1>4, <2>4
  <2> QED  BY <2>1, <2>2, <2>3, <2>4 DEF Gone
<1>6. Holding(t)'
  <2>1. Told(serving'[t], held'[t])
    BY <1>1, <1>2, <1>3, <1>5
  <2>2. Told(serving[t], held[t])'
    BY <1>1, <2>1 DEF Told, Crowded, Later, Permit
  <2> QED  BY <1>3, <2>2 DEF Holding
<1>7. Scanning(t)'
  BY <1>3 DEF Scanning
<1>8. PICK e \in 0..Len(made) : e = d + 1 /\ e = Len(made)
  BY <1>2, <1>4
<1>9. e = Done(t)' /\ MapGood(t, e)'
  <2>1. e = Done(t)'
    BY <1>1, <1>3, <1>8 DEF Done
  <2>2. ~Permit(e)' /\ Extended
    BY <1>1, <1>2, <1>8, MadeAsItIs DEF Permit
  <2>3. e \in 0..Len(made') /\ (e = d \/ (e = d + 1 /\ ~Permit(e)'))
    BY <1>1, <1>8, <2>2
  <2>4. \A j \in 1..d : InTransit(t, j) => InTransit(t, j)'
    BY <1>1 DEF InTransit
  <2> QED  BY <1>1, <1>4, <2>1, <2>2, <2>3, <2>4, MapStays
<1> QED  BY <1>1, <1>2, <1>6, <1>7, <1>8, <1>9, AloneStep

LEMMA TakeOutAlone ==
    ASSUME IInv, NEW t \in Thread, callers = {t}, Alone(t), TakeOut(t)
    PROVE  Alone(t)'
<1> DEFINE host == Carried(t).host
<1>1. /\ pc[t] = "deleting" /\ Carried(t).ip \in Permitted
      /\ pc' = [pc EXCEPT ![t] = "storing"]
      /\ UNCHANGED <<callers, now, made, handed, serving, scan>>
      /\ \/ /\ host \in Hosts(seen) /\ seen' = Without(seen, host)
            /\ held' = [held EXCEPT ![t] = seen[At(seen, host)].addresses]
         \/ host \notin Hosts(seen) /\ UNCHANGED seen
  BY DEF TakeOut, Outcome
<1>2. /\ serving[t] = Len(made) /\ Carried(t) = made[Len(made)]
      /\ pc \in [Thread -> State] /\ held \in [Thread -> SUBSET Ip]
      /\ Len(made) \in Nat /\ Len(made) >= 1 /\ Len(seen) \in Nat
      /\ scan \in [Thread -> ScanRecord] /\ Done(t) = Len(made) - 1
      /\ Done(t) \in 0..Len(made) /\ MapGood(t, Done(t))
  BY <1>1, Sole DEF Done, Carried
<1> HIDE DEF host
<1>3. pc'[t] = "storing" /\ host = made'[serving'[t]].host
  BY <1>1, <1>2 DEF host
<1>4. PICK d \in 0..Len(made) : d = Len(made) - 1 /\ MapGood(t, d)
  BY <1>2
<1>5. d = Done(t)'
  BY <1>1, <1>3, <1>4 DEF Done
<1>6. host \notin Hosts(seen') /\ MapGood(t, d)'
  <2>1. CASE host \in Hosts(seen)
    <3>1. /\ seen' = Without(seen, host)
          /\ held' = [held EXCEPT ![t] = seen[At(seen, host)].addresses]
          /\ UNCHANGED made
      BY <1>1, <2>1
    <3>2. PICK n \in 1..Len(seen) :
             /\ seen[n].host = host /\ n = At(seen, host)
             /\ \A k \in 1..Len(seen) : seen[k].host = host => k = n
             /\ Len(seen) \in Nat /\ Len(seen') = Len(seen) - 1
             /\ \A i \in 1..(Len(seen) - 1) : seen'[i] = seen[IF i < n THEN i ELSE i + 1]
             /\ \A k \in 1..Len(seen) : k # n => \E i \in 1..Len(seen') : seen'[i] = seen[k]
             /\ host \notin Hosts(seen')
      BY <2>1, <3>1, TakenOut
    <3>3. held'[t] = seen[n].addresses
      BY <1>2, <3>1, <3>2
    <3>4. \A j \in 1..d :
             Permit(j) /\ made[j].host = seen[n].host /\ made[j].ip \in seen[n].addresses
             => InTransit(t, j)' \/ Gone(j, d)
      BY <1>1, <1>3, <3>2, <3>3 DEF InTransit, Carried
    <3>5. pc[t] # "storing"
      BY <1>1
    <3> QED  BY <1>2, <1>4, <3>1, <3>2, <3>4, <3>5, MapShrinks
  <2>2. CASE host \notin Hosts(seen)
    <3>1. UNCHANGED <<seen, made>>
      BY <1>1, <2>2
    <3>2. host \notin Hosts(seen')
      BY <2>2, <3>1 DEF Hosts
    <3>3. /\ d \in 0..Len(made') /\ (d = d \/ (d = d + 1 /\ ~Permit(d)'))
          /\ Extended /\ \A j \in 1..d : InTransit(t, j) => InTransit(t, j)'
      BY <1>1, <1>2, <3>1, MadeAsItIs DEF InTransit
    <3> QED  BY <1>4, <3>1, <3>2, <3>3, MapStays
  <2> QED  BY <2>1, <2>2
<1>7. Holding(t)' /\ Scanning(t)'
  <2>1. ~Refusal(serving[t])'
    BY <1>1, <1>2 DEF Refusal, Carried
  <2>2. (Carried(t).host \notin Hosts(seen))'
    BY <1>3, <1>6 DEF Carried, Hosts
  <2> QED  BY <1>3, <2>1, <2>2 DEF Holding, Scanning
<1> QED  BY <1>1, <1>2, <1>5, <1>6, <1>7, AloneStep

\* A permit is filed behind every other host's.
LEMMA PutBackAlone ==
    ASSUME IInv, NEW t \in Thread, callers = {t}, Alone(t), PutBack(t)
    PROVE  Alone(t)'
<1> DEFINE sighting == Remembered(t)
<1>1. /\ pc[t] = "storing" /\ pc' = [pc EXCEPT ![t] = "counting"]
      /\ sighting.host \notin Hosts(seen) => seen' = Append(seen, sighting)
      /\ UNCHANGED <<callers, now, made, handed, serving, scan>>
  BY DEF PutBack
<1>2. /\ serving[t] = Len(made) /\ Carried(t) = made[Len(made)] /\ Clocked
      /\ pc \in [Thread -> State] /\ held \in [Thread -> SUBSET Ip]
      /\ Len(made) \in Nat /\ Len(made) >= 1 /\ seen \in Seq(Sighting) /\ Len(seen) \in Nat
      /\ scan \in [Thread -> ScanRecord] /\ Done(t) = Len(made) - 1
      /\ Done(t) \in 0..Len(made) /\ MapGood(t, Done(t))
      /\ \A i \in 1..Len(made) : made[i].at \in Nat
      /\ Carried(t).host \notin Hosts(seen) /\ ~Refusal(Len(made))
      /\ Carried(t).stage = "address" /\ Carried(t).ip \in Permitted
  BY <1>1, Sole DEF Done, Carried, Holding, Hand
<1>3. /\ sighting.host = Carried(t).host /\ sighting.at = Carried(t).at
      /\ sighting.addresses = held[t] \cup {Carried(t).ip}
  BY DEF Remembered
<1> HIDE DEF sighting
<1>4. pc'[t] = "counting" /\ seen' = Append(seen, sighting)
  BY <1>1, <1>2, <1>3
<1>5. /\ Len(seen') = Len(seen) + 1 /\ seen'[Len(seen) + 1] = sighting
      /\ \A i \in 1..Len(seen) : seen'[i] = seen[i]
  BY <1>2, <1>4, AppendProperties
<1>6. PICK d \in 0..Len(made) : d + 1 = Len(made) /\ MapGood(t, d)
  BY <1>2
<1>7. MapGood(t, d + 1)'
  <2>1. Permit(d + 1)
    BY <1>2, <1>6 DEF Permit
  <2>2. \A j \in 1..d : InTransit(t, j) => /\ made[j].host = sighting.host
                                           /\ made[j].ip \in sighting.addresses
    BY <1>3 DEF InTransit
  <2>3. /\ sighting.host = made[d + 1].host /\ sighting.at = made[d + 1].at
        /\ sighting.host \notin Hosts(seen) /\ made[d + 1].ip \in sighting.addresses
        /\ UNCHANGED made
    BY <1>1, <1>2, <1>3, <1>6
  <2> QED  BY <1>2, <1>5, <1>6, <2>1, <2>2, <2>3, MapGrows
<1>8. PICK e \in 0..Len(made) : e = d + 1 /\ e = Len(made)
  BY <1>2, <1>6
<1>9. e = Done(t)' /\ MapGood(t, e)'
  BY <1>1, <1>4, <1>7, <1>8 DEF Done
<1>10. Holding(t)' /\ Scanning(t)'
  <2>1. ~Refusal(serving[t])'
    BY <1>1, <1>2 DEF Refusal
  <2> QED  BY <1>4, <2>1 DEF Holding, Scanning
<1> QED  BY <1>1, <1>2, <1>8, <1>9, <1>10, AloneStep

LEMMA CountAlone ==
    ASSUME IInv, NEW t \in Thread, callers = {t}, Alone(t), Count(t)
    PROVE  Alone(t)'
<1>1. /\ pc[t] = "counting"
      /\ pc' = [pc EXCEPT ![t] = IF Len(seen) > Capacity THEN "evicting" ELSE "passing"]
      /\ UNCHANGED <<callers, now, seen, changes, made, handed, serving, scan, held>>
  BY DEF Count
<1>2. /\ pc \in [Thread -> State] /\ Len(made) \in Nat /\ scan \in [Thread -> ScanRecord]
      /\ Done(t) = Len(made) /\ MapGood(t, Done(t)) /\ ~Refusal(serving[t])
  BY <1>1, Sole DEF Done, Holding
<1>3. (pc'[t] = "evicting" /\ Len(seen') > Capacity) \/ pc'[t] = "passing"
  BY <1>1, <1>2
<1>4. PICK d \in 0..Len(made) : d = Len(made) /\ MapGood(t, d)
  BY <1>2
<1>5. d = Done(t)' /\ MapGood(t, d)'
  <2>1. d = Done(t)'
    BY <1>1, <1>3, <1>4 DEF Done
  <2>2. /\ d \in 0..Len(made') /\ (d = d \/ (d = d + 1 /\ ~Permit(d)'))
        /\ Extended /\ \A j \in 1..d : InTransit(t, j) => InTransit(t, j)'
    BY <1>1, <1>2, MadeAsItIs DEF InTransit
  <2> QED  BY <1>1, <1>4, <2>1, <2>2, MapStays
<1>6. Holding(t)' /\ Scanning(t)'
  <2>1. ~Refusal(serving[t])'
    BY <1>1, <1>2 DEF Refusal
  <2> QED  BY <1>3, <2>1 DEF Holding, Scanning
<1> QED  BY <1>1, <1>2, <1>5, <1>6, AloneStep

\* The host evicted is one that as many others came after.
LEMMA EvictAlone ==
    ASSUME IInv, NEW t \in Thread, callers = {t}, Alone(t), Evict(t)
    PROVE  Alone(t)'
<1>1. /\ pc[t] = "evicting" /\ seen # << >> /\ seen' = Tail(seen)
      /\ pc' = [pc EXCEPT ![t] = "counting"]
      /\ UNCHANGED <<callers, now, made, handed, serving, scan, held>>
  BY DEF Evict
<1>2. /\ pc \in [Thread -> State] /\ Len(made) \in Nat /\ scan \in [Thread -> ScanRecord]
      /\ Done(t) = Len(made) /\ MapGood(t, Done(t)) /\ ~Refusal(serving[t])
      /\ Filed /\ seen \in Seq(Sighting) /\ Len(seen) \in Nat /\ Len(seen) > Capacity
  BY <1>1, Sole DEF Done, Holding
<1>3. pc'[t] = "counting"
  BY <1>1, <1>2
<1>4. PICK d \in 0..Len(made) : d = Len(made) /\ MapGood(t, d)
  BY <1>2
<1>5. d = Done(t)' /\ MapGood(t, d)'
  <2>1. d = Done(t)'
    BY <1>1, <1>3, <1>4 DEF Done
  <2>2. /\ Len(seen') = Len(seen) - 1 /\ 1 \in 1..Len(seen)
        /\ \A i \in 1..(Len(seen) - 1) : seen'[i] = seen[i + 1]
    BY <1>1, <1>2, HeadTailProperties
  <2>3. \A i \in 1..(Len(seen) - 1) : seen'[i] = seen[IF i < 1 THEN i ELSE i + 1]
    BY <2>2
  <2>4. ASSUME NEW j \in 1..d, Permit(j), made[j].host = seen[1].host
        PROVE  Gone(j, d)
    <3>1. Ordered(d)
      BY <1>4 DEF MapGood
    <3>2. Crowded(j, d)
      BY <1>2, <2>4, <3>1, HeadCrowded
    <3> QED  BY <3>2 DEF Gone
  <2>5. /\ \A j \in 1..d :
             Permit(j) /\ made[j].host = seen[1].host /\ made[j].ip \in seen[1].addresses
             => InTransit(t, j)' \/ Gone(j, d)
        /\ pc[t] # "storing" /\ UNCHANGED made
    BY <1>1, <2>4
  <2> QED  BY <1>2, <1>4, <2>1, <2>2, <2>3, <2>5, MapShrinks
<1>6. Holding(t)' /\ Scanning(t)'
  <2>1. ~Refusal(serving[t])'
    BY <1>1, <1>2 DEF Refusal
  <2> QED  BY <1>3, <2>1 DEF Holding, Scanning
<1> QED  BY <1>1, <1>2, <1>5, <1>6, AloneStep

LEMMA PassAlone ==
    ASSUME IInv, NEW t \in Thread, callers = {t}, Alone(t), Pass(t)
    PROVE  Alone(t)'
<1> DEFINE entry == [decision |-> serving[t], also |-> held[t]]
<1>1. /\ pc[t] = "passing" /\ pc' = [pc EXCEPT ![t] = "idle"]
      /\ handed' = Append(handed, entry)
      /\ UNCHANGED <<callers, now, seen, changes, made, serving, scan>>
  BY DEF Pass
<1>2. /\ pc \in [Thread -> State] /\ Len(made) \in Nat /\ scan \in [Thread -> ScanRecord]
      /\ Done(t) = Len(made) /\ MapGood(t, Done(t))
      /\ serving[t] = Len(made) /\ Clocked /\ AllTold
      /\ Refusal(serving[t]) => Told(serving[t], held[t])
      /\ handed \in Seq([decision : 1..Len(made), also : SUBSET Ip])
  BY <1>1, Sole DEF Done, Holding, IInv, Pieces
<1>3. entry.decision = serving[t] /\ entry.also = held[t]
  OBVIOUS
<1> HIDE DEF entry
<1>4. pc'[t] = "idle"
  BY <1>1, <1>2
<1>5. /\ Extended /\ Clocked'
      /\ \A i : Refusal(i)' <=> Refusal(i)
      /\ \A k, also : Told(k, also)' <=> Told(k, also)
  BY <1>1, <1>2, MadeAsItIs
<1>6. AllTold'
  <2>1. /\ Len(handed) \in Nat /\ Len(handed') = Len(handed) + 1
        /\ handed'[Len(handed) + 1] = entry
        /\ \A n \in 1..Len(handed) : handed'[n] = handed[n]
    BY <1>1, <1>2, AppendProperties
  <2>2. \A n \in 1..Len(handed') : n \in 1..Len(handed) \/ n = Len(handed) + 1
    BY <2>1
  <2>3. \A n \in 1..Len(handed') :
           Refusal(handed'[n].decision) => Told(handed'[n].decision, handed'[n].also)
    BY <1>2, <1>3, <2>1, <2>2 DEF AllTold
  <2> SUFFICES ASSUME NEW n \in 1..Len(handed'), Refusal(handed[n].decision)'
               PROVE  Told(handed[n].decision, handed[n].also)'
    BY DEF AllTold
  <2>4. Told(handed'[n].decision, handed'[n].also)
    BY <1>1, <2>3 DEF Refusal
  <2> QED  BY <1>1, <2>4 DEF Told, Permit, Crowded, Later
<1>7. ASSUME NEW d \in 0..Len(made'), d = Done(t)'
      PROVE  MapGood(t, d)'
  <2>1. d = Len(made) /\ d \in 0..Len(made) /\ MapGood(t, d)
    BY <1>1, <1>2, <1>4, <1>7 DEF Done
  <2>2. /\ d = d \/ (d = d + 1 /\ ~Permit(d)')
        /\ \A j \in 1..d : InTransit(t, j) => InTransit(t, j)'
    BY <1>1 DEF InTransit
  <2> QED  BY <1>1, <1>5, <1>7, <2>1, <2>2, MapStays
<1>8. Holding(t)' /\ Scanning(t)'
  BY <1>4 DEF Holding, Scanning
<1> QED  BY <1>1, <1>2, <1>5, <1>6, <1>7, <1>8 DEF Alone

LEMMA ReportAlone ==
    ASSUME IInv, NEW t \in Thread, callers = {t}, Alone(t), Report(t)
    PROVE  Alone(t)'
<1>1. PICK host \in Host, ip \in Ip, stage \in {"address", "peer"} :
         /\ made' = Append(made, [host |-> host, ip |-> ip, stage |-> stage, at |-> now])
         /\ pc' = [pc EXCEPT ![t] = IF stage = "address" THEN "forgetting" ELSE "passing"]
  BY DEF Report
<1> DEFINE decision == [host |-> host, ip |-> ip, stage |-> stage, at |-> now]
           fresh == [NoScan EXCEPT !.span = Len(seen), !.changes = changes]
<1>2. /\ pc[t] = "idle" /\ serving' = [serving EXCEPT ![t] = Len(made) + 1]
      /\ scan' = [scan EXCEPT ![t] = fresh]
      /\ UNCHANGED <<callers, now, seen, changes, handed>>
  BY DEF Report
<1>3. /\ pc \in [Thread -> State] /\ Len(made) \in Nat /\ scan \in [Thread -> ScanRecord]
      /\ Done(t) = Len(made) /\ MapGood(t, Done(t)) /\ Clocked /\ AllTold
      /\ made \in Seq(Decision) /\ serving \in [Thread -> 0..Len(made)]
      /\ handed \in Seq([decision : 1..Len(made), also : SUBSET Ip])
      /\ now \in Nat /\ changes \in Nat /\ Len(seen) \in Nat
  BY <1>2, Sole DEF Done, IInv, Pieces
<1>4. /\ fresh \in ScanRecord /\ fresh.next = 0 /\ fresh.span = Len(seen)
      /\ fresh.changes = changes /\ fresh.stale = << >>
  <2>1. NoScan \in ScanRecord /\ NoScan.next = 0 /\ NoScan.stale = << >>
    <3>1. << >> \in Seq(Host) /\ 0 \in Nat
      OBVIOUS
    <3> QED  BY <3>1 DEF NoScan, ScanRecord
  <2> DEFINE spanned == [NoScan EXCEPT !.span = Len(seen)]
  <2>2. fresh = [spanned EXCEPT !.changes = changes]
    OBVIOUS
  <2> HIDE DEF fresh
  <2>3. /\ spanned \in ScanRecord /\ spanned.next = 0 /\ spanned.span = Len(seen)
        /\ spanned.stale = << >>
    BY <1>3, <2>1 DEF ScanRecord
  <2> HIDE DEF spanned
  <2> QED  BY <1>3, <2>2, <2>3 DEF ScanRecord
<1>5. decision.stage = stage /\ decision.at = now
  OBVIOUS
<1> HIDE DEF fresh, decision
<1>6. /\ Len(made') = Len(made) + 1 /\ made'[Len(made) + 1] = decision
      /\ \A i \in 1..Len(made) : made'[i] = made[i]
  BY <1>1, <1>3, AppendProperties DEF decision
<1>7. Extended
  <2>1. Len(made) \in Nat /\ Len(made') \in Nat /\ Len(made) <= Len(made')
    BY <1>3, <1>6
  <2> QED  BY <1>6, <2>1 DEF Extended
<1>8. serving'[t] = Len(made') /\ scan' \in [Thread -> ScanRecord] /\ scan'[t] = fresh
  BY <1>2, <1>3, <1>4, <1>6
<1>9. \A i \in 1..Len(made') : i \in 1..Len(made) \/ i = Len(made) + 1
  BY <1>3, <1>6
<1>10. Clocked'
  <2>1. \A i \in 1..Len(made') : made'[i].at <= now
    BY <1>3, <1>5, <1>6, <1>9 DEF Clocked
  <2>2. ASSUME NEW i \in 1..Len(made'), NEW j \in 1..Len(made'), i <= j
        PROVE  made'[i].at <= made'[j].at
    <3>1. CASE j \in 1..Len(made)
      <4>1. i \in 1..Len(made)
        BY <1>3, <1>9, <2>2, <3>1
      <4> QED  BY <1>3, <1>6, <2>2, <3>1, <4>1 DEF Clocked
    <3>2. CASE j = Len(made) + 1
      BY <1>5, <1>6, <2>1, <3>2
    <3> QED  BY <1>9, <3>1, <3>2
  <2> QED  BY <1>2, <2>1, <2>2 DEF Clocked
<1>11. AllTold'
  <2> SUFFICES ASSUME NEW n \in 1..Len(handed), Refusal(handed[n].decision)'
               PROVE  Told(handed[n].decision, handed[n].also)'
    BY <1>2 DEF AllTold
  <2>1. handed[n].decision \in 1..Len(made) /\ handed[n].also \in SUBSET Ip
    <3>1. handed[n] \in [decision : 1..Len(made), also : SUBSET Ip]
      BY <1>3, ElementOfSeq
    <3> QED  BY <3>1
  <2>2. PICK k \in 1..Len(made), also \in SUBSET Ip :
           k = handed[n].decision /\ also = handed[n].also
    BY <2>1
  <2>3. Refusal(k)
    BY <1>2, <1>6, <2>2 DEF Refusal
  <2>4. Told(k, also)
    BY <1>3, <2>2, <2>3 DEF AllTold
  <2>5. Told(k, also)'
    BY <1>7, <2>4, ToldStays
  <2> QED  BY <1>2, <2>2, <2>5 DEF Told, Permit, Crowded, Later
<1>12. \/ stage = "address" /\ pc'[t] = "forgetting"
       \/ stage = "peer" /\ pc'[t] = "passing"
  BY <1>1, <1>3
<1>13. ASSUME NEW e \in 0..Len(made'), e = Done(t)'
       PROVE  MapGood(t, e)'
  <2>1. PICK d \in 0..Len(made) : d = Len(made) /\ MapGood(t, d)
    BY <1>3
  <2>2. e = d \/ (e = d + 1 /\ ~Permit(e)')
    BY <1>3, <1>5, <1>6, <1>12, <1>13, <2>1 DEF Done, Permit
  <2>3. \A j \in 1..d : InTransit(t, j) => InTransit(t, j)'
    BY <1>2 DEF InTransit
  <2> QED  BY <1>2, <1>7, <1>13, <2>1, <2>2, <2>3, MapStays
<1>14. Scanning(t)'
  BY <1>2, <1>3, <1>4, <1>8, <1>12 DEF Scanning
<1>15. Holding(t)'
  BY <1>5, <1>6, <1>8, <1>12 DEF Holding, Refusal
<1> QED  BY <1>8, <1>10, <1>11, <1>13, <1>14, <1>15 DEF Alone

\* A single caller never finds the map changed under it.
LEMMA NeverSuppressed ==
    ASSUME IInv, NEW t \in Thread, callers = {t}, Alone(t)
    PROVE  ~Raises(t)
<1>1. /\ Scanning(t) /\ Holding(t) /\ Len(seen) \in Nat /\ Capacity \in Nat
      /\ scan[t] \in ScanRecord
  BY Sole
<1>2. ~(pc[t] = "forgetting" /\ scan[t].changes # changes)
  BY <1>1 DEF Scanning
<1>3. ASSUME pc[t] = "deleting", scan[t].stale # << >>
      PROVE  Head(scan[t].stale) \in Hosts(seen)
  <2>1. scan[t].stale \in Seq(Host)
    BY <1>1 DEF ScanRecord
  <2>2. 1 \in 1..Len(scan[t].stale) /\ Head(scan[t].stale) = scan[t].stale[1]
    BY <1>3, <2>1
  <2>3. PICK n \in 1..Len(seen) : seen[n].host = scan[t].stale[1]
    BY <1>1, <1>3, <2>2 DEF Scanning
  <2> QED  BY <2>2, <2>3 DEF Hosts
<1>4. ~(pc[t] = "evicting" /\ seen = << >>)
  BY <1>1 DEF Holding
<1> QED  BY <1>2, <1>3, <1>4 DEF Raises

LEMMA WatchInit ==
    ASSUME Init
    PROVE  WatchInv
<1> SUFFICES ASSUME NEW t \in Thread, callers = {t}
             PROVE  Alone(t)
  BY DEF WatchInv
<1>1. /\ now = 0 /\ seen = << >> /\ made = << >> /\ handed = << >>
      /\ pc[t] = "idle" /\ serving[t] = 0 /\ scan = [x \in Thread |-> NoScan]
      /\ Len(made) = 0 /\ Len(seen) = 0 /\ Len(handed) = 0
  BY DEF Init
<1>2. Clocked /\ AllTold /\ Scanning(t) /\ Holding(t)
  BY <1>1 DEF Clocked, AllTold, Scanning, Holding
<1>3. NoScan \in ScanRecord
  <2>1. << >> \in Seq(Host) /\ 0 \in Nat
    OBVIOUS
  <2> QED  BY <2>1 DEF NoScan, ScanRecord
<1>4. scan \in [Thread -> ScanRecord]
  BY <1>1, <1>3
<1>5. \A d \in 0..Len(made) : d = Done(t) => MapGood(t, d)
  BY <1>1 DEF MapGood, Remembers, Dated, Ordered
<1> QED  BY <1>1, <1>2, <1>4, <1>5 DEF Alone

LEMMA WatchStep ==
    ASSUME IInv, WatchInv, [Next]_vars
    PROVE  WatchInv'
<1>1. UNCHANGED callers
  BY DEF Next, vars, Tick, Quiet, Report, Step, Scan, ScanEnds, Delete, Compare, TakeOut,
         PutBack, Count, Evict, Pass, Suppressed
<1> SUFFICES ASSUME NEW t \in Thread, callers = {t}
             PROVE  Alone(t)'
  BY <1>1 DEF WatchInv
<1>2. Alone(t)
  BY DEF WatchInv
<1>3. now \in Nat
  BY DEF IInv, Pieces
<1>4. CASE Tick
  <2>1. /\ now' \in Nat /\ now <= now'
        /\ UNCHANGED <<seen, changes, made, handed, pc, serving, scan, held>>
    BY <1>3, <1>4 DEF Tick
  <2> QED  BY <1>2, <2>1, AloneWaits
<1>5. CASE Quiet \/ UNCHANGED vars
  <2>1. /\ now' \in Nat /\ now <= now'
        /\ UNCHANGED <<seen, changes, made, handed, pc, serving, scan, held>>
    BY <1>3, <1>5 DEF Quiet, vars
  <2> QED  BY <1>2, <2>1, AloneWaits
<1>6. CASE Report(t)
  BY <1>2, <1>6, ReportAlone
<1>7. CASE Step(t)
  <2>1. ~Suppressed(t)
    BY <1>2, NeverSuppressed DEF Suppressed
  <2> QED
    BY <1>2, <1>7, <2>1, ScanAlone, ScanEndsAlone, DeleteAlone, CompareAlone, TakeOutAlone,
       PutBackAlone, CountAlone, EvictAlone, PassAlone DEF Step
<1> QED  BY <1>4, <1>5, <1>6, <1>7 DEF Next

LEMMA OneCaller ==
    ASSUME IInv, Cardinality(callers) = 1
    PROVE  \E t \in Thread : callers = {t}
<1>1. callers \subseteq Thread /\ IsFiniteSet(callers)
  <2>1. callers \in SUBSET Thread
    BY DEF IInv, Pieces
  <2> QED  BY <2>1, Constants, FS_Subset
<1>2. \E t : callers = {t}
  BY <1>1, FS_Singleton
<1> QED  BY <1>1, <1>2

LEMMA DetectsFollows ==
    ASSUME IInv, WatchInv
    PROVE  DetectsWithinWindow
<1> SUFFICES ASSUME Cardinality(callers) = 1, NEW n \in 1..Len(handed),
                    Refusal(handed[n].decision)
             PROVE  LET k == handed[n].decision
                    IN  \A j \in 1..(k - 1) :
                           /\ made[j].host = made[k].host /\ Permit(j)
                           /\ made[k].at <= made[j].at + Window
                           /\ Cardinality(Since(j, k) \ {made[k].host}) < Capacity
                           => made[j].ip \in handed[n].also
  BY DEF DetectsWithinWindow, Refusal, Permit
<1>1. PICK t \in Thread : callers = {t}
  BY OneCaller
<1>2. Alone(t)
  BY <1>1 DEF WatchInv
<1>3. /\ Len(made) \in Nat /\ AllTold /\ Window \in Nat /\ Capacity \in Nat
      /\ \A i \in 1..Len(made) : made[i].at \in Nat
  BY <1>1, <1>2, Sole
<1>4. PICK k \in 1..Len(made), also \in SUBSET Ip :
         k = handed[n].decision /\ also = handed[n].also
  <2>1. handed[n] \in [decision : 1..Len(made), also : SUBSET Ip]
    <3>1. handed \in Seq([decision : 1..Len(made), also : SUBSET Ip])
      BY DEF IInv, Pieces
    <3> QED  BY <3>1, ElementOfSeq
  <2> QED  BY <2>1
<1>5. Told(k, also)
  BY <1>3, <1>4 DEF AllTold
<1> SUFFICES ASSUME NEW j \in 1..(k - 1), made[j].host = made[k].host, Permit(j),
                    made[k].at <= made[j].at + Window,
                    Cardinality(Since(j, k) \ {made[k].host}) < Capacity
             PROVE  made[j].ip \in also
  BY <1>4
<1>6. j \in 1..Len(made) /\ made[j].at \in Nat /\ made[k].at \in Nat
  BY <1>3
<1>7. ~(made[k].at > made[j].at + Window)
  <2>1. \A a, b, w \in Nat : a <= b + w => ~(a > b + w)
    OBVIOUS
  <2> QED  BY <1>3, <1>6, <2>1
<1>8. ~Crowded(j, k - 1)
  <2> DEFINE others == Later(j, k - 1) \ {made[j].host}
  <2>1. others = Since(j, k) \ {made[k].host}
    BY DEF Since, Later, Permit
  <2>2. IsFiniteSet(others)
    <3> DEFINE places == {i \in (j + 1)..(k - 1) : Permit(i)}
    <3>1. IsFiniteSet((j + 1)..(k - 1))
      <4>1. j + 1 \in Int /\ k - 1 \in Int
        OBVIOUS
      <4> QED  BY <4>1, FS_Interval
    <3>2. IsFiniteSet(places)
      <4>1. places \in SUBSET ((j + 1)..(k - 1))
        OBVIOUS
      <4> HIDE DEF places
      <4> QED  BY <3>1, <4>1, FS_Subset
    <3> HIDE DEF places
    <3>3. IsFiniteSet({made[i].host : i \in places})
      BY <3>2, HostsFinite
    <3>4. IsFiniteSet({made[i].host : i \in places} \ {made[j].host})
      BY <3>3, FS_RemoveElement
    <3> QED  BY <3>4 DEF Later, places
  <2> HIDE DEF others
  <2>3. Cardinality(others) \in Nat /\ Cardinality(others) < Capacity
    BY <2>1, <2>2, FS_CardinalityType
  <2> QED  BY <1>3, <2>3 DEF Crowded, others
<1> QED  BY <1>5, <1>7, <1>8 DEF Told

\* What the watch is for: with one caller, a refusal reports every address its host was
\* permitted for within the window, unless as many other hosts as the watch remembers
\* were permitted since.
THEOREM Detects == Spec => []DetectsWithinWindow
<1>1. Init => WatchInv
  BY WatchInit
<1>2. IInv /\ WatchInv /\ [Next]_vars => WatchInv'
  BY WatchStep
<1>3. IInv /\ WatchInv => DetectsWithinWindow
  BY DetectsFollows
<1> QED
  BY <1>1, <1>2, <1>3, Invariant, PTL DEF Spec

\* How many decisions a single caller has passed on.
PassedInv ==
    \A t \in Thread : callers = {t} =>
        Len(handed) = IF pc[t] = "idle" THEN Len(made) ELSE Len(made) - 1

LEMMA PassedStep ==
    ASSUME IInv, WatchInv, PassedInv, [Next]_vars
    PROVE  PassedInv'
<1>1. UNCHANGED callers
  BY DEF Next, vars, Tick, Quiet, Report, Step, Scan, ScanEnds, Delete, Compare, TakeOut,
         PutBack, Count, Evict, Pass, Suppressed
<1> SUFFICES ASSUME NEW t \in Thread, callers = {t}
             PROVE  Len(handed') = IF pc'[t] = "idle" THEN Len(made') ELSE Len(made') - 1
  BY <1>1 DEF PassedInv
<1>2. /\ Len(handed) = IF pc[t] = "idle" THEN Len(made) ELSE Len(made) - 1
      /\ made \in Seq(Decision) /\ Len(made) \in Nat /\ Len(handed) \in Nat
      /\ handed \in Seq([decision : 1..Len(made), also : SUBSET Ip])
      /\ pc \in [Thread -> State]
  BY DEF PassedInv, IInv, Pieces
<1>3. CASE Tick \/ Quiet \/ UNCHANGED vars
  BY <1>2, <1>3 DEF Tick, Quiet, vars
<1>4. CASE Report(t)
  <2>1. PICK decision : made' = Append(made, decision)
    BY <1>4 DEF Report
  <2>2. Len(made') = Len(made) + 1
    BY <1>2, <2>1
  <2>3. pc[t] = "idle" /\ pc'[t] # "idle" /\ UNCHANGED handed
    BY <1>2, <1>4 DEF Report
  <2> QED  BY <1>2, <2>2, <2>3
<1>5. CASE Pass(t)
  <2>1. PICK entry : handed' = Append(handed, entry)
    BY <1>5 DEF Pass
  <2>2. Len(handed') = Len(handed) + 1
    BY <1>2, <2>1
  <2>3. pc[t] = "passing" /\ pc'[t] = "idle" /\ UNCHANGED made
    BY <1>2, <1>5 DEF Pass
  <2> QED  BY <1>2, <2>2, <2>3
<1>6. CASE Step(t) /\ ~Pass(t)
  <2>1. ~Suppressed(t)
    BY NeverSuppressed DEF Suppressed, WatchInv
  <2>2. pc[t] # "idle" /\ pc'[t] # "idle" /\ UNCHANGED <<made, handed>>
    BY <1>2, <1>6, <2>1 DEF Step, Scan, ScanEnds, Delete, Compare, TakeOut, PutBack, Count, Evict
  <2> QED  BY <1>2, <2>2
<1> QED  BY <1>3, <1>4, <1>5, <1>6 DEF Next

\* "Look at a decision, then pass it on": a single caller's decisions all reach the wrapped
\* observer.  It is another thread's work on the map that loses one.
THEOREM SingleCallerPassesOn == Spec => [](Cardinality(callers) = 1 => EveryDecisionPassedOn)
<1>1. Init => WatchInv /\ PassedInv
  BY WatchInit DEF Init, PassedInv
<1>2. IInv /\ WatchInv /\ PassedInv /\ [Next]_vars => WatchInv' /\ PassedInv'
  BY WatchStep, PassedStep
<1>3. IInv /\ PassedInv => (Cardinality(callers) = 1 => EveryDecisionPassedOn)
  <2> SUFFICES ASSUME IInv, PassedInv, Cardinality(callers) = 1,
                      \A t \in callers : pc[t] = "idle"
               PROVE  Len(handed) = Len(made)
    BY DEF EveryDecisionPassedOn
  <2>1. PICK t \in Thread : callers = {t}
    BY OneCaller
  <2> QED  BY <2>1 DEF PassedInv
<1> QED
  BY <1>1, <1>2, <1>3, Invariant, PTL DEF Spec

-----------------------------------------------------------------------------
(* What a watch with one caller has forgotten.                             *)

\* Every sighting bears the date of a permit of its host.
Sourced ==
    \A n \in 1..Len(seen) : \E j \in 1..Len(made) :
        Permit(j) /\ made[j].host = seen[n].host /\ made[j].at = seen[n].at

\* The scan lists what is stale of the sightings it has passed.
Listed(t, n) == \E x \in 1..Len(scan[t].stale) : scan[t].stale[x] = seen[n].host

Collected(t) ==
    /\ pc[t] = "forgetting" =>
          \A n \in 1..scan[t].next : Stale(t, seen[n]) => Listed(t, n)
    /\ pc[t] = "deleting" =>
          \A n \in 1..Len(seen) : Stale(t, seen[n]) => Listed(t, n)

\* The host of decision k was permitted an address within the window before it.
Recent(k) ==
    \E j \in 1..(k - 1) :
        Permit(j) /\ made[j].host = made[k].host /\ made[k].at <= made[j].at + Window

AllRecent == \A n \in 1..Len(handed) : handed[n].also # {} => Recent(handed[n].decision)

Comparable(t) == pc[t] = "passing" /\ held[t] # {} => Recent(serving[t])

Forgetting(t) == Sourced /\ Collected(t) /\ Comparable(t) /\ AllRecent

ForgetInv == \A t \in Thread : callers = {t} => Forgetting(t)

\* Sightings that were there before, of decisions that are as they were.
LEMMA SourcedStays ==
    ASSUME Sourced, UNCHANGED made,
           \A i \in 1..Len(seen') : \E k \in 1..Len(seen) : seen'[i] = seen[k]
    PROVE  Sourced'
<1> SUFFICES ASSUME NEW i \in 1..Len(seen')
             PROVE  \E j \in 1..Len(made) : /\ Permit(j) /\ made[j].host = seen'[i].host
                                            /\ made[j].at = seen'[i].at
  BY DEF Sourced, Permit
<1>1. PICK k \in 1..Len(seen) : seen'[i] = seen[k]
  OBVIOUS
<1> QED  BY <1>1 DEF Sourced

LEMMA RecentStays ==
    ASSUME UNCHANGED made
    PROVE  /\ \A k : Recent(k)' <=> Recent(k)
           /\ UNCHANGED handed /\ AllRecent => AllRecent'
<1>1. \A k : Recent(k)' <=> Recent(k)
  BY DEF Recent, Permit
<1> QED  BY <1>1 DEF AllRecent, Recent, Permit

\* A step that neither adds to the map nor moves the scan.
LEMMA ForgetWaits ==
    ASSUME NEW t \in Thread, Forgetting(t), UNCHANGED <<made, handed, serving, scan>>,
           \A i \in 1..Len(seen') : \E k \in 1..Len(seen) : seen'[i] = seen[k],
           Comparable(t)', Collected(t)'
    PROVE  Forgetting(t)'
BY SourcedStays, RecentStays DEF Forgetting

LEMMA ForgetScan ==
    ASSUME IInv, NEW t \in Thread, callers = {t}, Alone(t), Forgetting(t), Scan(t)
    PROVE  Forgetting(t)'
<1> DEFINE x == scan[t].next + 1
           stale == scan[t].stale
           late == IF Stale(t, seen[x]) THEN Append(stale, seen[x].host) ELSE stale
<1>1. /\ pc[t] = "forgetting" /\ scan[t].next < scan[t].span
      /\ scan' = [scan EXCEPT ![t].next = x, ![t].stale = late]
      /\ UNCHANGED <<callers, now, seen, changes, made, handed, pc, serving, held>>
  BY DEF Scan
<1>2. /\ scan \in [Thread -> ScanRecord] /\ scan[t].next \in Nat /\ stale \in Seq(Host)
      /\ scan[t].span = Len(seen) /\ Len(seen) \in Nat
      /\ \A n \in 1..Len(seen) : seen[n].host \in Host
  BY <1>1, Sole DEF Scanning, ScanRecord
<1>3. x \in 1..Len(seen)
  BY <1>1, <1>2
<1>4. scan'[t].next = x /\ scan'[t].stale = late
  <2> HIDE DEF x, late
  <2> QED  BY <1>1, <1>2 DEF ScanRecord
<1>5. /\ \A a \in 1..Len(stale) : a \in 1..Len(late) /\ late[a] = stale[a]
      /\ Stale(t, seen[x]) => \E a \in 1..Len(late) : late[a] = seen[x].host
  <2>1. CASE ~Stale(t, seen[x])
    BY <2>1
  <2>2. CASE Stale(t, seen[x])
    <3>1. late = Append(stale, seen[x].host) /\ seen[x].host \in Host
      BY <1>2, <1>3, <2>2
    <3> HIDE DEF late, stale, x
    <3>2. /\ Len(stale) \in Nat /\ Len(late) = Len(stale) + 1
          /\ late[Len(stale) + 1] = seen[x].host
          /\ \A a \in 1..Len(stale) : late[a] = stale[a]
      BY <1>2, <3>1, AppendProperties
    <3>3. Len(stale) + 1 \in 1..Len(late) /\ \A a \in 1..Len(stale) : a \in 1..Len(late)
      BY <3>2
    <3> QED  BY <3>2, <3>3
  <2> QED  BY <2>1, <2>2
<1>6. \A n \in 1..x : Stale(t, seen[n]) => \E a \in 1..Len(late) : late[a] = seen[n].host
  <2> SUFFICES ASSUME NEW n \in 1..x, Stale(t, seen[n])
               PROVE  \E a \in 1..Len(late) : late[a] = seen[n].host
    OBVIOUS
  <2>1. n \in 1..scan[t].next \/ n = x
    BY <1>2
  <2>2. CASE n \in 1..scan[t].next
    <3>1. PICK a \in 1..Len(stale) : stale[a] = seen[n].host
      BY <1>1, <2>2 DEF Forgetting, Collected, Listed
    <3> HIDE DEF stale, late
    <3> QED  BY <1>5, <3>1
  <2>3. CASE n = x
    BY <1>5, <2>3
  <2> QED  BY <2>1, <2>2, <2>3
<1> HIDE DEF x, stale, late
<1>7. Collected(t)'
  BY <1>1, <1>4, <1>6 DEF Collected, Listed, Stale, Carried
<1>8. Comparable(t)' /\ Sourced' /\ AllRecent'
  BY <1>1, RecentStays DEF Comparable, Forgetting, Sourced, Permit
<1> QED  BY <1>7, <1>8 DEF Forgetting

LEMMA ForgetScanEnds ==
    ASSUME IInv, NEW t \in Thread, callers = {t}, Alone(t), Forgetting(t), ScanEnds(t)
    PROVE  Forgetting(t)'
<1>1. /\ pc[t] = "forgetting" /\ scan[t].next = scan[t].span
      /\ pc' = [pc EXCEPT ![t] = "deleting"]
      /\ UNCHANGED <<callers, now, seen, changes, made, handed, serving, scan, held>>
  BY DEF ScanEnds
<1>2. pc'[t] = "deleting" /\ scan[t].span = Len(seen)
  BY <1>1, Sole DEF Scanning
<1>3. \A n \in 1..Len(seen) : Stale(t, seen[n]) => Listed(t, n)
  BY <1>1, <1>2 DEF Forgetting, Collected
<1>4. Comparable(t)' /\ Collected(t)'
  BY <1>1, <1>2, <1>3 DEF Comparable, Collected, Listed, Stale, Carried
<1> QED  BY <1>1, <1>4, ForgetWaits

LEMMA ForgetDelete ==
    ASSUME IInv, NEW t \in Thread, callers = {t}, Alone(t), Forgetting(t), Delete(t)
    PROVE  Forgetting(t)'
<1> DEFINE stale == scan[t].stale
           first == Head(stale)
           left == Tail(stale)
<1>1. /\ pc[t] = "deleting" /\ stale # << >> /\ first \in Hosts(seen)
      /\ seen' = Without(seen, first)
      /\ scan' = [scan EXCEPT ![t].stale = left]
      /\ UNCHANGED <<callers, now, made, handed, pc, serving, held>>
  BY DEF Delete
<1>2. /\ scan \in [Thread -> ScanRecord] /\ stale \in Seq(Host)
  BY <1>1, Sole DEF ScanRecord
<1>3. /\ first = stale[1] /\ Len(stale) \in Nat
      /\ Len(left) = Len(stale) - 1 /\ \A x \in 1..Len(left) : left[x] = stale[x + 1]
  BY <1>1, <1>2, HeadTailProperties
<1>4. scan'[t].stale = left
  <2> HIDE DEF left
  <2> QED  BY <1>1, <1>2 DEF ScanRecord
<1>5. PICK n \in 1..Len(seen) :
         /\ seen[n].host = first /\ n = At(seen, first)
         /\ \A k \in 1..Len(seen) : seen[k].host = first => k = n
         /\ Len(seen) \in Nat /\ Len(seen') = Len(seen) - 1
         /\ \A i \in 1..(Len(seen) - 1) : seen'[i] = seen[IF i < n THEN i ELSE i + 1]
         /\ \A k \in 1..Len(seen) : k # n => \E i \in 1..Len(seen') : seen'[i] = seen[k]
         /\ first \notin Hosts(seen')
  BY <1>1, TakenOut
<1> HIDE DEF stale, first, left
<1>6. \A i \in 1..Len(seen') : \E k \in 1..Len(seen) : seen'[i] = seen[k]
  <2> SUFFICES ASSUME NEW i \in 1..Len(seen')
               PROVE  \E k \in 1..Len(seen) : seen'[i] = seen[k]
    OBVIOUS
  <2>1. i \in 1..(Len(seen) - 1) /\ i \in 1..Len(seen) /\ i + 1 \in 1..Len(seen)
    BY <1>5
  <2> QED  BY <1>5, <2>1
<1>7. ASSUME NEW i \in 1..Len(seen'), Stale(t, seen'[i])
      PROVE  \E x \in 1..Len(left) : left[x] = seen'[i].host
  <2>1. PICK k \in 1..Len(seen) : seen'[i] = seen[k]
    BY <1>6
  <2>2. PICK y \in 1..Len(stale) : stale[y] = seen[k].host
    BY <1>1, <1>7, <2>1 DEF Forgetting, Collected, Listed, stale
  <2>3. y # 1
    <3>1. seen'[i].host # first
      BY <1>5 DEF Hosts
    <3> QED  BY <1>3, <2>1, <2>2, <3>1
  <2>4. y - 1 \in 1..Len(left) /\ (y - 1) + 1 = y
    BY <1>3, <2>3
  <2>5. left[y - 1] = stale[y]
    BY <1>3, <2>4
  <2> QED  BY <2>1, <2>2, <2>4, <2>5
<1>8. Collected(t)'
  <2>1. \A i \in 1..Len(seen') : made'[serving'[t]].at > seen'[i].at + Window
           => \E x \in 1..Len(scan'[t].stale) : scan'[t].stale[x] = seen'[i].host
    BY <1>1, <1>4, <1>7 DEF Stale, Carried
  <2> QED  BY <1>1, <2>1 DEF Collected, Listed, Stale, Carried
<1>9. Comparable(t)' /\ Sourced' /\ AllRecent'
  BY <1>1, <1>6, SourcedStays, RecentStays DEF Comparable, Forgetting
<1> QED  BY <1>8, <1>9 DEF Forgetting

\* What is still on file when a refusal is compared is not stale.
LEMMA ForgetCompare ==
    ASSUME IInv, NEW t \in Thread, callers = {t}, Alone(t), Forgetting(t), Compare(t)
    PROVE  Forgetting(t)'
<1> DEFINE host == Carried(t).host
<1>1. /\ pc[t] = "deleting" /\ scan[t].stale = << >> /\ Carried(t).ip \notin Permitted
      /\ held' = [held EXCEPT ![t] = IF host \in Hosts(seen)
                                     THEN seen[At(seen, host)].addresses \ {Carried(t).ip}
                                     ELSE {}]
      /\ pc' = [pc EXCEPT ![t] = "passing"]
      /\ UNCHANGED <<callers, now, seen, changes, made, handed, serving, scan>>
  BY DEF Compare, Outcome
<1>2. /\ serving[t] = Len(made) /\ Carried(t) = made[Len(made)]
      /\ pc \in [Thread -> State] /\ held \in [Thread -> SUBSET Ip]
      /\ Len(made) \in Nat /\ Len(made) >= 1 /\ Window \in Nat
      /\ \A n \in 1..Len(seen) : seen[n].at \in Nat
      /\ \A i \in 1..Len(made) : made[i].at \in Nat
  BY <1>1, Sole DEF Carried
<1> HIDE DEF host
<1>3. pc'[t] = "passing" /\ (held'[t] # {} => host \in Hosts(seen))
  BY <1>1, <1>2
<1>4. ASSUME host \in Hosts(seen)
      PROVE  Recent(serving[t])
  <2> DEFINE n == At(seen, host)
  <2>1. n \in 1..Len(seen) /\ seen[n].host = host
    BY <1>4, AtHost
  <2> HIDE DEF n
  <2>2. ~Stale(t, seen[n])
    <3>1. ~Listed(t, n)
      BY <1>1 DEF Listed
    <3> QED  BY <1>1, <2>1, <3>1 DEF Forgetting, Collected
  <2>3. PICK j \in 1..Len(made) :
           Permit(j) /\ made[j].host = seen[n].host /\ made[j].at = seen[n].at
    BY <2>1 DEF Forgetting, Sourced
  <2>4. j # Len(made)
    BY <1>1, <1>2, <2>3 DEF Permit
  <2>5. j \in 1..(Len(made) - 1)
    BY <1>2, <2>4
  <2>6. made[Len(made)].at <= made[j].at + Window
    <3>1. \A a, b, w \in Nat : ~(a > b + w) => a <= b + w
      OBVIOUS
    <3>2. ~(made[Len(made)].at > made[j].at + Window)
      BY <1>2, <2>2, <2>3 DEF Stale
    <3>3. made[Len(made)].at \in Nat /\ made[j].at \in Nat
      BY <1>2
    <3> QED  BY <1>2, <3>1, <3>2, <3>3
  <2>7. made[j].host = made[Len(made)].host
    BY <1>2, <2>1, <2>3 DEF host
  <2> QED  BY <1>2, <2>3, <2>5, <2>6, <2>7 DEF Recent
<1>5. Comparable(t)'
  <2>1. held'[t] # {} => Recent(serving[t])
    BY <1>3, <1>4
  <2> QED  BY <1>1, <2>1 DEF Comparable, Recent, Permit
<1>6. Collected(t)'
  BY <1>3 DEF Collected
<1> QED  BY <1>1, <1>5, <1>6, ForgetWaits

LEMMA ForgetTakeOut ==
    ASSUME IInv, NEW t \in Thread, callers = {t}, Alone(t), Forgetting(t), TakeOut(t)
    PROVE  Forgetting(t)'
<1> DEFINE host == Carried(t).host
<1>1. /\ pc[t] = "deleting" /\ pc' = [pc EXCEPT ![t] = "storing"]
      /\ UNCHANGED <<callers, now, made, handed, serving, scan>>
      /\ \/ host \in Hosts(seen) /\ seen' = Without(seen, host)
         \/ UNCHANGED seen
  BY DEF TakeOut
<1>2. pc \in [Thread -> State]
  BY Sole
<1> HIDE DEF host
<1>3. \A i \in 1..Len(seen') : \E k \in 1..Len(seen) : seen'[i] = seen[k]
  <2>1. CASE host \in Hosts(seen) /\ seen' = Without(seen, host)
    <3> SUFFICES ASSUME NEW i \in 1..Len(seen')
                 PROVE  \E k \in 1..Len(seen) : seen'[i] = seen[k]
      OBVIOUS
    <3>1. UNCHANGED made
      BY <1>1
    <3>2. PICK n \in 1..Len(seen) :
             /\ seen[n].host = host /\ n = At(seen, host)
             /\ \A k \in 1..Len(seen) : seen[k].host = host => k = n
             /\ Len(seen) \in Nat /\ Len(seen') = Len(seen) - 1
             /\ \A k \in 1..(Len(seen) - 1) : seen'[k] = seen[IF k < n THEN k ELSE k + 1]
             /\ \A k \in 1..Len(seen) : k # n => \E m \in 1..Len(seen') : seen'[m] = seen[k]
             /\ host \notin Hosts(seen')
      BY <2>1, <3>1, TakenOut
    <3>3. i \in 1..(Len(seen) - 1) /\ i \in 1..Len(seen) /\ i + 1 \in 1..Len(seen)
      BY <3>2
    <3> QED  BY <3>2, <3>3
  <2>2. CASE UNCHANGED seen
    BY <2>2
  <2> QED  BY <1>1, <2>1, <2>2
<1>4. Comparable(t)' /\ Collected(t)'
  BY <1>1, <1>2 DEF Comparable, Collected
<1> QED  BY <1>1, <1>3, <1>4, ForgetWaits

LEMMA ForgetPutBack ==
    ASSUME IInv, NEW t \in Thread, callers = {t}, Alone(t), Forgetting(t), PutBack(t)
    PROVE  Forgetting(t)'
<1> DEFINE sighting == Remembered(t)
<1>1. /\ pc[t] = "storing" /\ pc' = [pc EXCEPT ![t] = "counting"]
      /\ sighting.host \notin Hosts(seen) => seen' = Append(seen, sighting)
      /\ UNCHANGED <<callers, now, made, handed, serving, scan>>
  BY DEF PutBack
<1>2. /\ serving[t] = Len(made) /\ Carried(t) = made[Len(made)] /\ pc \in [Thread -> State]
      /\ Len(made) \in Nat /\ Len(made) >= 1 /\ seen \in Seq(Sighting) /\ Len(seen) \in Nat
      /\ Carried(t).host \notin Hosts(seen)
      /\ Carried(t).stage = "address" /\ Carried(t).ip \in Permitted
  BY <1>1, Sole DEF Carried, Holding, Hand
<1>3. sighting.host = Carried(t).host /\ sighting.at = Carried(t).at
  BY DEF Remembered
<1> HIDE DEF sighting
<1>4. /\ seen' = Append(seen, sighting) /\ Len(seen') = Len(seen) + 1
      /\ seen'[Len(seen) + 1] = sighting
      /\ \A i \in 1..Len(seen) : seen'[i] = seen[i]
  BY <1>1, <1>2, <1>3, AppendProperties
<1>5. Sourced'
  <2> SUFFICES ASSUME NEW i \in 1..Len(seen')
               PROVE  \E j \in 1..Len(made) : /\ Permit(j) /\ made[j].host = seen'[i].host
                                              /\ made[j].at = seen'[i].at
    BY <1>1 DEF Sourced, Permit
  <2>1. CASE i \in 1..Len(seen)
    BY <1>4, <2>1 DEF Forgetting, Sourced
  <2>2. CASE i = Len(seen) + 1
    <3>1. Len(made) \in 1..Len(made) /\ Permit(Len(made))
      BY <1>2 DEF Permit
    <3> QED  BY <1>2, <1>3, <1>4, <2>2, <3>1
  <2> QED  BY <1>2, <1>4, <2>1, <2>2
<1>6. pc'[t] = "counting"
  BY <1>1, <1>2
<1>7. Comparable(t)' /\ Collected(t)' /\ AllRecent'
  BY <1>1, <1>6, RecentStays DEF Comparable, Collected, Forgetting
<1> QED  BY <1>5, <1>7 DEF Forgetting

LEMMA ForgetEvicting ==
    ASSUME IInv, NEW t \in Thread, callers = {t}, Alone(t), Forgetting(t), Count(t) \/ Evict(t)
    PROVE  Forgetting(t)'
<1>1. /\ pc \in [Thread -> State] /\ seen \in Seq(Sighting) /\ held[t] = {}
      /\ UNCHANGED <<made, handed, serving, scan, held>>
  BY Sole DEF Hand, Count, Evict
<1>2. pc'[t] \in {"counting", "evicting", "passing"} /\ held'[t] = {}
  BY <1>1 DEF Count, Evict
<1>3. \A i \in 1..Len(seen') : \E k \in 1..Len(seen) : seen'[i] = seen[k]
  <2>1. CASE Count(t)
    BY <2>1 DEF Count
  <2>2. CASE Evict(t)
    <3>1. seen # << >> /\ seen' = Tail(seen)
      BY <2>2 DEF Evict
    <3>2. /\ Len(seen) \in Nat /\ Len(seen') = Len(seen) - 1
          /\ \A i \in 1..(Len(seen) - 1) : seen'[i] = seen[i + 1]
      BY <1>1, <3>1, HeadTailProperties
    <3>3. \A i \in 1..Len(seen') : i + 1 \in 1..Len(seen) /\ seen'[i] = seen[i + 1]
      BY <3>2
    <3> QED  BY <3>3
  <2> QED  BY <2>1, <2>2
<1>4. Comparable(t)' /\ Collected(t)'
  BY <1>2 DEF Comparable, Collected
<1> QED  BY <1>1, <1>3, <1>4, ForgetWaits

LEMMA ForgetPass ==
    ASSUME IInv, NEW t \in Thread, callers = {t}, Alone(t), Forgetting(t), Pass(t)
    PROVE  Forgetting(t)'
<1> DEFINE entry == [decision |-> serving[t], also |-> held[t]]
<1>1. /\ pc[t] = "passing" /\ pc' = [pc EXCEPT ![t] = "idle"]
      /\ handed' = Append(handed, entry)
      /\ UNCHANGED <<callers, now, seen, changes, made, serving, scan>>
  BY DEF Pass
<1>2. /\ pc \in [Thread -> State]
      /\ handed \in Seq([decision : 1..Len(made), also : SUBSET Ip])
      /\ entry.decision = serving[t] /\ entry.also = held[t]
  BY <1>1, Sole DEF IInv, Pieces
<1> HIDE DEF entry
<1>3. AllRecent'
  <2>1. /\ Len(handed) \in Nat /\ Len(handed') = Len(handed) + 1
        /\ handed'[Len(handed) + 1] = entry
        /\ \A n \in 1..Len(handed) : handed'[n] = handed[n]
    BY <1>1, <1>2, AppendProperties
  <2>2. \A n \in 1..Len(handed') : n \in 1..Len(handed) \/ n = Len(handed) + 1
    BY <2>1
  <2>3. \A n \in 1..Len(handed') : handed'[n].also # {} => Recent(handed'[n].decision)
    BY <1>1, <1>2, <2>1, <2>2 DEF Forgetting, AllRecent, Comparable
  <2> QED  BY <1>1, <2>3 DEF AllRecent, Recent, Permit
<1>4. Comparable(t)' /\ Collected(t)' /\ Sourced'
  BY <1>1, <1>2 DEF Comparable, Collected, Sourced, Forgetting, Permit
<1> QED  BY <1>3, <1>4 DEF Forgetting

LEMMA ForgetReport ==
    ASSUME IInv, NEW t \in Thread, callers = {t}, Alone(t), Forgetting(t), Report(t)
    PROVE  Forgetting(t)'
<1> DEFINE fresh == [NoScan EXCEPT !.span = Len(seen), !.changes = changes]
<1>1. /\ pc[t] = "idle" /\ scan' = [scan EXCEPT ![t] = fresh]
      /\ held' = [held EXCEPT ![t] = {}]
      /\ UNCHANGED <<callers, now, seen, changes, handed>>
      /\ \E decision : made' = Append(made, decision)
      /\ \E s \in {"forgetting", "passing"} : pc' = [pc EXCEPT ![t] = s]
  BY DEF Report
<1>2. /\ pc \in [Thread -> State] /\ held \in [Thread -> SUBSET Ip]
      /\ scan \in [Thread -> ScanRecord] /\ made \in Seq(Decision) /\ Len(made) \in Nat
      /\ handed \in Seq([decision : 1..Len(made), also : SUBSET Ip])
  BY Sole DEF IInv, Pieces
<1>3. fresh.next = 0
  BY DEF NoScan
<1> HIDE DEF fresh
<1>4. scan'[t].next = 0 /\ held'[t] = {} /\ pc'[t] \in {"forgetting", "passing"}
  BY <1>1, <1>2, <1>3
<1>5. \A i \in 1..Len(made) : i \in 1..Len(made') /\ made'[i] = made[i]
  <2>1. PICK decision : made' = Append(made, decision)
    BY <1>1
  <2>2. Len(made') = Len(made) + 1 /\ \A i \in 1..Len(made) : made'[i] = made[i]
    BY <1>2, <2>1
  <2> QED  BY <1>2, <2>2
<1>6. Sourced'
  BY <1>1, <1>5 DEF Forgetting, Sourced, Permit
<1>7. AllRecent'
  <2> SUFFICES ASSUME NEW n \in 1..Len(handed), handed[n].also # {}
               PROVE  Recent(handed[n].decision)'
    BY <1>1 DEF AllRecent
  <2>1. PICK k \in 1..Len(made) : k = handed[n].decision
    <3>1. handed[n] \in [decision : 1..Len(made), also : SUBSET Ip]
      BY <1>2, ElementOfSeq
    <3> QED  BY <3>1
  <2>2. PICK j \in 1..(k - 1) :
           Permit(j) /\ made[j].host = made[k].host /\ made[k].at <= made[j].at + Window
    BY <2>1 DEF Forgetting, AllRecent, Recent
  <2>3. j \in 1..Len(made)
    BY <1>2
  <2>4. Permit(j)' /\ made'[j].host = made'[k].host /\ made'[k].at <= made'[j].at + Window
    BY <1>5, <2>2, <2>3 DEF Permit
  <2> QED  BY <1>1, <2>1, <2>4 DEF Recent
<1>8. Comparable(t)' /\ Collected(t)'
  BY <1>4 DEF Comparable, Collected
<1> QED  BY <1>6, <1>7, <1>8 DEF Forgetting

LEMMA ForgetStep ==
    ASSUME IInv, WatchInv, ForgetInv, [Next]_vars
    PROVE  ForgetInv'
<1>1. UNCHANGED callers
  BY DEF Next, vars, Tick, Quiet, Report, Step, Scan, ScanEnds, Delete, Compare, TakeOut,
         PutBack, Count, Evict, Pass, Suppressed
<1> SUFFICES ASSUME NEW t \in Thread, callers = {t}
             PROVE  Forgetting(t)'
  BY <1>1 DEF ForgetInv
<1>2. Alone(t) /\ Forgetting(t)
  BY DEF WatchInv, ForgetInv
<1>3. CASE Tick \/ Quiet \/ UNCHANGED vars
  <2>1. UNCHANGED <<seen, changes, made, handed, pc, serving, scan, held>>
    BY <1>3 DEF Tick, Quiet, vars
  <2>2. Comparable(t)' /\ Collected(t)'
    BY <1>2, <2>1 DEF Forgetting, Comparable, Recent, Permit, Collected, Listed, Stale, Carried
  <2> QED  BY <1>2, <2>1, <2>2, ForgetWaits
<1>4. CASE Report(t)
  BY <1>2, <1>4, ForgetReport
<1>5. CASE Step(t)
  <2>1. ~Suppressed(t)
    BY <1>2, NeverSuppressed DEF Suppressed
  <2> QED
    BY <1>2, <1>5, <2>1, ForgetScan, ForgetScanEnds, ForgetDelete, ForgetCompare,
       ForgetTakeOut, ForgetPutBack, ForgetEvicting, ForgetPass DEF Step
<1> QED  BY <1>3, <1>4, <1>5 DEF Next

\* A sighting is comparable no longer than its window: a watch with one caller reports on a
\* refusal only what it has of a host that was permitted an address within the window.
THEOREM Forgets == Spec => []ForgetsAfterWindow
<1>1. Init => WatchInv /\ ForgetInv
  BY WatchInit DEF Init, ForgetInv, Forgetting, Sourced, Collected, Comparable, AllRecent
<1>2. IInv /\ WatchInv /\ ForgetInv /\ [Next]_vars => WatchInv' /\ ForgetInv'
  BY WatchStep, ForgetStep
<1>3. IInv /\ ForgetInv => ForgetsAfterWindow
  <2> SUFFICES ASSUME IInv, ForgetInv, Cardinality(callers) = 1
               PROVE  AllRecent
    BY DEF ForgetsAfterWindow, AllRecent, Recent, Permit
  <2>1. PICK t \in Thread : callers = {t}
    BY OneCaller
  <2> QED  BY <2>1 DEF ForgetInv, Forgetting
<1> QED
  BY <1>1, <1>2, <1>3, Invariant, PTL DEF Spec
=============================================================================
