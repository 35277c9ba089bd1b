--------------------------- MODULE DnsMessageProofs ---------------------------
(***************************************************************************)
(* Reading a reply stays inside it and comes to an end, for every message  *)
(* whatsoever.                                                             *)
(*                                                                         *)
(* The end is shown by what every step uses up, in this order: the records *)
(* the header claims, the parts of a record, and for one name the pointers *)
(* and octets it may still take.  Each is a natural number, and such       *)
(* triples cannot fall for ever.  That last step is well-founded           *)
(* induction, and is left to the reader and to the runs.                   *)
(*                                                                         *)
(* Then, what the answer is made of (AnswerInv): a record is accepted for  *)
(* a name that the question leads to by the aliases taken before it.  And  *)
(* where names lie: the place a name ends at, and the octets it takes, are *)
(* those of the definitions that follow its pointers (NameSoFar).          *)
(***************************************************************************)
EXTENDS DnsMessage, SequenceTheorems, WellFoundedInduction, TLAPS

Inside == 0..Size

\* Every variable keeps its type, no octet behind the message is read, and no name takes
\* more pointers or octets than _decode_name allows.
InBounds ==
    /\ message \in Message
    /\ stage \in {"received", "name", "question", "owner", "target", "record", "records",
                  "done"}
    /\ reading \in {"question", "owner", "target"}
    /\ offset \in Inside /\ left \in Nat
    /\ start \in Inside
    /\ after = Unknown \/ after \in Inside
    /\ data.at \in Inside /\ data.end \in Inside
    /\ jumps \in 0..MaxJumps /\ total \in 0..MaxName
    /\ outcome \in {"none", "Malformed", "WrongQuestion", "ServerFailure", "truncated",
                    "answer"}

\* How far the reading of one part of the message still has to go.
RankOf ==
    [received |-> 9, question |-> 7, owner |-> 5, record |-> 4, target |-> 2, records |-> 1,
     done |-> 0]

Rank == IF stage = "name" THEN RankOf[reading] + 1 ELSE RankOf[stage]

\* Records still to read, where all of them follow the question.
Remaining == IF Rank > 6 THEN message.answers + 1 ELSE left

\* The header's number is taken over when the question is answered.
Unasked == Rank > 6 => left = 0

IInv == InBounds /\ Unasked

\* What the name being decoded may still take.
Budget == (MaxJumps - jumps) + (MaxName - total)

\* What a step uses up.
Falls ==
    \/ Remaining' < Remaining
    \/ Remaining' = Remaining /\ Rank' < Rank
    \/ Remaining' = Remaining /\ Rank' = Rank /\ Budget' < Budget

-----------------------------------------------------------------------------
(* Octets.                                                                 *)

LEMMA ProductOfNaturals ==
    ASSUME NEW a \in Nat, NEW b \in Nat
    PROVE  a * b \in Nat
OBVIOUS

LEMMA Sizes ==
    /\ Quarter \in Nat /\ Quarter > 0 /\ MaxName \in Nat /\ MaxJumps \in Nat
BY SizeAssumption

LEMMA OctetsInside ==
    ASSUME InBounds
    PROVE  /\ Size \in Nat /\ message.answers \in Nat
           /\ \A o \in Nat : o < Size => At(o) \in Octet /\ At(o) \in Nat
<1>1. message.octets \in Seq(Octet) /\ message.answers \in Nat
  BY MessageAssumption DEF InBounds
<1>2. \A o \in Nat : o < Size => At(o) \in Octet
  BY <1>1 DEF At, Size
<1>3. \A c \in Octet : c \in Nat
  BY Sizes DEF Octet
<1> QED
  BY <1>1, <1>2, <1>3 DEF Size

LEMMA TargetInside ==
    ASSUME InBounds, offset < Size, IsPointer(At(offset)), PointerReadable
    PROVE  Target \in Inside
<1> DEFINE high == At(offset) - 3 * Quarter
<1>1. Size \in Nat /\ offset \in Nat /\ offset + 1 < Size
  BY OctetsInside DEF InBounds, Inside, PointerReadable
<1>2. At(offset) \in Nat /\ At(offset + 1) \in Nat
  BY <1>1, OctetsInside
<1>3. high \in Nat /\ 4 * Quarter \in Nat
  BY <1>2, Sizes DEF IsPointer
<1>4. high * 4 \in Nat
  BY <1>3
<1>5. (high * 4) * Quarter \in Nat
  BY <1>4, Sizes, ProductOfNaturals
<1>6. Target = (high * 4) * Quarter + At(offset + 1)
  BY DEF Target
<1> HIDE DEF high
<1>7. Target \in Nat
  BY <1>2, <1>5, <1>6
<1> QED
  BY <1>1, <1>7 DEF PointerReadable, Inside

-----------------------------------------------------------------------------
(* The steps.                                                              *)

\* The numbers the order is made of.
LEMMA Numbers ==
    ASSUME InBounds
    PROVE  /\ Size \in Nat /\ message.answers \in Nat /\ left \in Nat /\ offset \in Nat
           /\ offset <= Size /\ Inside \subseteq Nat
           /\ jumps \in Nat /\ jumps <= MaxJumps /\ total \in Nat /\ total <= MaxName
BY OctetsInside, Sizes DEF InBounds, Inside

\* A call that ends uses up the rest.
LEMMA Finishes ==
    ASSUME IInv, stage # "done", NEW how, Finish(how),
           how \in {"Malformed", "WrongQuestion", "ServerFailure", "truncated", "answer"},
           UNCHANGED <<message, name, offset, left, data>>
    PROVE  IInv' /\ Falls
<1>1. InBounds'
  BY DEF Finish, IInv, InBounds, Inside, Size, name
<1>2. stage' = "done" /\ Rank' = 0 /\ Remaining' = left
  BY DEF Finish, Rank, RankOf, Remaining
<1>3. Rank \in Nat /\ Rank > 0 /\ left \in Nat /\ message.answers \in Nat
  BY Numbers DEF IInv, Rank, RankOf, InBounds
<1>4. Falls
  <2>1. CASE Rank > 6
    <3>1. Remaining' < Remaining
      BY <1>2, <1>3, <2>1 DEF Remaining, IInv, Unasked
    <3> QED
      BY <3>1 DEF Falls
  <2>2. CASE ~(Rank > 6)
    <3>1. Remaining' = Remaining /\ Rank' < Rank
      BY <1>2, <1>3, <2>2 DEF Remaining
    <3> QED
      BY <3>1 DEF Falls
  <2> QED
    BY <2>1, <2>2
<1>6. Unasked'
  BY <1>2 DEF Unasked
<1> QED
  BY <1>1, <1>4, <1>6 DEF IInv

\* _decode_name starts with all it may take.
LEMMA Decodes ==
    ASSUME IInv, NEW whose \in {"question", "owner", "target"}, NEW at \in Inside,
           Decode(whose, at), UNCHANGED <<message, data>>, left' \in Nat
    PROVE  InBounds' /\ Rank' = RankOf[whose] + 1
<1>1. 0 \in 0..MaxJumps /\ 0 \in 0..MaxName
  BY Sizes
<1> QED
  BY <1>1 DEF Decode, IInv, InBounds, Inside, Size, Rank

LEMMA ReadHeaderKeeps ==
    ASSUME IInv, ReadHeader
    PROVE  IInv' /\ Falls
<1>1. stage = "received" /\ UNCHANGED <<message, left, data>>
  BY DEF ReadHeader
<1>2. CASE \/ Finish("Malformed") /\ UNCHANGED <<name, offset>>
           \/ Finish("WrongQuestion") /\ UNCHANGED <<name, offset>>
  BY <1>1, <1>2, Finishes
<1>3. CASE Size >= HeaderSize /\ Decode("question", HeaderSize)
  <2>1. HeaderSize \in Inside
    BY <1>3, Numbers DEF IInv, Inside, HeaderSize
  <2>2. InBounds' /\ Rank' = 8
    BY <1>1, <1>3, <2>1, Decodes DEF IInv, InBounds, RankOf
  <2>3. Rank = 9 /\ Remaining' = Remaining /\ Unasked'
    BY <1>1, <2>2 DEF Rank, RankOf, Remaining, IInv, Unasked
  <2> QED
    BY <2>2, <2>3 DEF IInv, Falls
<1> QED
  BY <1>2, <1>3 DEF ReadHeader

LEMMA FollowPointerKeeps ==
    ASSUME IInv, FollowPointer
    PROVE  IInv' /\ Falls
<1>1. /\ stage = "name" /\ offset < Size /\ IsPointer(At(offset)) /\ PointerReadable
      /\ offset' = Target /\ after' = EndsAfter(offset) /\ jumps' = jumps + 1
      /\ UNCHANGED <<message, stage, reading, start, total, left, data, outcome>>
  BY DEF FollowPointer, Jumped
<1>2. Target \in Inside
  BY <1>1, TargetInside DEF IInv
<1>3. after' = Unknown \/ after' \in Inside
  BY <1>1, Numbers DEF IInv, InBounds, EndsAfter, PointerReadable, Inside
<1>4. jumps' \in 0..MaxJumps /\ MaxJumps - jumps' < MaxJumps - jumps
  BY <1>1, Sizes, Numbers DEF IInv, PointerReadable
<1>5. InBounds'
  BY <1>1, <1>2, <1>3, <1>4 DEF IInv, InBounds, Inside, Size
<1>6. Rank' = Rank /\ Remaining' = Remaining /\ Unasked'
  BY <1>1 DEF Rank, Remaining, IInv, Unasked
<1>7. Budget' < Budget
  BY <1>1, <1>4, Sizes, Numbers DEF Budget, IInv
<1> QED
  BY <1>5, <1>6, <1>7 DEF Falls, IInv

LEMMA ReadLabelKeeps ==
    ASSUME IInv, ReadLabel
    PROVE  IInv' /\ Falls
<1>1. /\ stage = "name" /\ offset < Size /\ At(offset) \in 1..(Quarter - 1)
      /\ total + At(offset) + 1 <= MaxName /\ offset + 1 + At(offset) <= Size
      /\ total' = total + At(offset) + 1 /\ offset' = offset + 1 + At(offset)
      /\ UNCHANGED <<message, stage, reading, start, jumps, after, left, data, outcome>>
  BY DEF ReadLabel, LabelReadable
<1>2. At(offset) \in Nat
  BY <1>1, Numbers, OctetsInside DEF IInv
<1> DEFINE length == At(offset)
<1> HIDE DEF length
<1>3. length \in Nat /\ length = At(offset)
  BY <1>2 DEF length
<1>4. offset' \in Inside /\ total' \in 0..MaxName /\ total' > total
  BY <1>1, <1>3, Sizes, Numbers DEF IInv, Inside
<1>5. InBounds'
  BY <1>1, <1>4 DEF IInv, InBounds, Inside, Size
<1>6. Rank' = Rank /\ Remaining' = Remaining /\ Unasked'
  BY <1>1 DEF Rank, Remaining, IInv, Unasked
<1>7. Budget' < Budget
  BY <1>1, <1>4, Sizes, Numbers DEF Budget, IInv
<1> QED
  BY <1>5, <1>6, <1>7 DEF Falls, IInv

LEMMA EndOfNameKeeps ==
    ASSUME IInv, EndOfName
    PROVE  IInv' /\ Falls
<1>1. /\ stage = "name" /\ offset < Size /\ stage' = reading
      /\ offset' = IF after = Unknown THEN offset + 1 ELSE after
      /\ UNCHANGED <<message, name, left, data, outcome>>
  BY DEF EndOfName
<1>2. offset' \in Inside
  BY <1>1, Numbers DEF IInv, InBounds, Inside
<1>3. InBounds'
  BY <1>1, <1>2 DEF IInv, InBounds, Inside, Size, name
<1>4. reading \in {"question", "owner", "target"} /\ reading' = reading
  BY <1>1 DEF IInv, InBounds, name
<1>5. Rank = RankOf[reading] + 1 /\ Rank' = RankOf[reading]
  BY <1>1, <1>4 DEF Rank
<1>6. /\ RankOf[reading] \in Nat /\ (Rank > 6 <=> Rank' > 6)
  BY <1>4, <1>5 DEF RankOf
<1>7. Remaining' = Remaining /\ Unasked'
  BY <1>1, <1>6 DEF Remaining, IInv, Unasked
<1> QED
  BY <1>3, <1>5, <1>6, <1>7 DEF Falls, IInv

LEMMA NameMalformedKeeps ==
    ASSUME IInv, NameMalformed
    PROVE  IInv' /\ Falls
<1>1. stage = "name" /\ Finish("Malformed") /\ UNCHANGED <<message, name, offset, left, data>>
  BY DEF NameMalformed
<1> QED
  BY <1>1, Finishes

LEMMA CheckQuestionKeeps ==
    ASSUME IInv, CheckQuestion
    PROVE  IInv' /\ Falls
<1>1. stage = "question" /\ UNCHANGED <<message, name, data>>
  BY DEF CheckQuestion
<1>2. CASE \E how \in {"Malformed", "WrongQuestion", "ServerFailure", "answer"} :
               Finish(how) /\ UNCHANGED <<offset, left, accepted>>
  BY <1>1, <1>2, Finishes
<1>3. CASE /\ offset + QuestionSize <= Size /\ stage' = "records"
           /\ offset' = offset + QuestionSize /\ left' = message.answers /\ UNCHANGED outcome
  <2>1. offset' \in Inside /\ left' \in Nat
    BY <1>3, Numbers DEF IInv, Inside, QuestionSize
  <2>2. InBounds'
    BY <1>1, <1>3, <2>1 DEF IInv, InBounds, Inside, Size, name
  <2>3. Rank = 7 /\ Rank' = 1
    BY <1>1, <1>3 DEF Rank, RankOf
  <2>4. Remaining' < Remaining /\ Unasked'
    BY <1>3, <2>3, Numbers DEF IInv, Remaining, Unasked
  <2> QED
    BY <2>2, <2>4 DEF Falls, IInv
<1> QED
  BY <1>2, <1>3 DEF CheckQuestion

LEMMA NextRecordKeeps ==
    ASSUME IInv, NextRecord
    PROVE  IInv' /\ Falls
<1>1. stage = "records" /\ UNCHANGED <<message, data>>
  BY DEF NextRecord
<1>2. CASE \E how \in {"truncated", "answer"} : Finish(how) /\ UNCHANGED <<name, offset, left>>
  BY <1>1, <1>2, Finishes
<1>3. CASE left > 0 /\ left' = left - 1 /\ Decode("owner", offset)
  <2>1. offset \in Inside /\ left' \in Nat
    BY <1>3, Numbers DEF IInv, InBounds
  <2>2. InBounds' /\ Rank' = 6
    BY <1>1, <1>3, <2>1, Decodes DEF RankOf
  <2>3. Rank = 1
    BY <1>1 DEF Rank, RankOf
  <2>4. Remaining' < Remaining /\ Unasked'
    BY <1>3, <2>2, <2>3, Numbers DEF IInv, Remaining, Unasked
  <2> QED
    BY <2>2, <2>4 DEF Falls, IInv
<1> QED
  BY <1>2, <1>3 DEF NextRecord

LEMMA RecordMalformedKeeps ==
    ASSUME IInv, RecordMalformed
    PROVE  IInv' /\ Falls
<1>1. stage = "owner" /\ Finish("Malformed") /\ UNCHANGED <<message, name, offset, left, data>>
  BY DEF RecordMalformed
<1> QED
  BY <1>1, Finishes

\* A step from one part of a record to a later one, or to the next record.
LEMMA GoesOn ==
    ASSUME IInv, UNCHANGED <<message, name, left, outcome>>,
           \/ stage = "owner" /\ stage' = "record"
           \/ stage \in {"record", "target"} /\ stage' = "records",
           offset' \in Inside, data'.at \in Inside, data'.end \in Inside
    PROVE  IInv' /\ Falls
<1>1. InBounds'
  BY DEF IInv, InBounds, Inside, Size, name
<1>2. Rank \in {5, 4, 2} /\ Rank' \in {4, 1} /\ Rank' < Rank
  BY DEF Rank, RankOf
<1>3. Remaining' = Remaining /\ Unasked'
  BY <1>2 DEF Remaining, Unasked
<1> QED
  BY <1>1, <1>2, <1>3 DEF IInv, Falls

LEMMA ReadRecordKeeps ==
    ASSUME IInv, ReadRecord
    PROVE  IInv' /\ Falls
<1>1. /\ stage = "owner" /\ RecordReadable /\ stage' = "record"
      /\ data'.at = offset + RecordSize /\ data'.end = offset + RecordSize + At(offset + 2)
      /\ offset' = offset + RecordSize + At(offset + 2)
      /\ UNCHANGED <<message, name, left, outcome>>
  BY DEF ReadRecord
<1>2. offset + 2 \in Nat /\ offset + 2 < Size
  BY <1>1, Numbers DEF IInv, RecordReadable, RecordSize
<1>3. At(offset + 2) \in Nat
  BY <1>2, OctetsInside DEF IInv
<1> DEFINE length == At(offset + 2)
<1> HIDE DEF length
<1>4. length \in Nat /\ length = At(offset + 2)
  BY <1>3 DEF length
<1>5. offset' \in Inside /\ data'.at \in Inside /\ data'.end \in Inside
  BY <1>1, <1>4, Numbers DEF IInv, RecordReadable, RecordSize, Inside
<1> QED
  BY <1>1, <1>5, GoesOn

LEMMA RecordKeeps ==
    ASSUME IInv, Skip \/ Alias \/ AcceptTarget \/ TakeAddress
    PROVE  IInv' /\ Falls
<1>1. offset \in Inside /\ data.at \in Inside /\ data.end \in Inside
  BY DEF IInv, InBounds
<1>2. CASE Skip
  BY <1>1, <1>2, GoesOn DEF Skip
<1>3. CASE Alias
  <2>1. /\ stage = "record" /\ Decode("target", data.at)
        /\ UNCHANGED <<message, left, data>>
    BY <1>3 DEF Alias
  <2>2. InBounds' /\ Rank' = 3
    BY <1>1, <2>1, Numbers, Decodes DEF IInv, RankOf
  <2>3. Rank = 4 /\ Remaining' = Remaining /\ Unasked'
    BY <2>1, <2>2 DEF Rank, RankOf, Remaining, Unasked
  <2> QED
    BY <2>2, <2>3 DEF IInv, Falls
<1>4. CASE AcceptTarget
  BY <1>1, <1>4, GoesOn DEF AcceptTarget
<1>5. CASE TakeAddress
  <2>1. stage = "record" /\ UNCHANGED <<message, name, offset, left, data>>
    BY <1>5 DEF TakeAddress
  <2>2. CASE Finish("Malformed")
    BY <2>1, <2>2, Finishes
  <2>3. CASE stage' = "records" /\ UNCHANGED outcome
    BY <1>1, <2>1, <2>3, GoesOn
  <2> QED
    BY <1>5, <2>2, <2>3 DEF TakeAddress
<1> QED
  BY <1>2, <1>3, <1>4, <1>5

-----------------------------------------------------------------------------
(* The theorems.                                                           *)

LEMMA InitHolds ==
    ASSUME Init
    PROVE  IInv
<1>1. message \in Message /\ Len(message.octets) \in Nat
  BY MessageAssumption DEF Init
<1>2. InBounds
  BY <1>1, Sizes DEF Init, InBounds, Inside, Size, NoData
<1> QED
  BY <1>2 DEF Init, IInv, Unasked

LEMMA StepFalls ==
    ASSUME IInv, Step
    PROVE  IInv' /\ Falls
BY ReadHeaderKeeps, FollowPointerKeeps, ReadLabelKeeps, EndOfNameKeeps, NameMalformedKeeps,
   CheckQuestionKeeps, NextRecordKeeps, RecordMalformedKeeps, ReadRecordKeeps, RecordKeeps
   DEF Step

LEMMA StutterKeeps ==
    ASSUME IInv, UNCHANGED vars
    PROVE  IInv'
BY DEF vars, name, IInv, InBounds, Inside, Size, Unasked, Rank

\* What the other theorems rest on.
THEOREM Invariant == Spec => []IInv
<1>1. Init => IInv
  BY InitHolds
<1>2. IInv /\ [Next]_vars => IInv'
  BY StepFalls, StutterKeeps DEF Next, Done
<1> QED
  BY <1>1, <1>2, PTL DEF Spec

\* _parse and _decode_name read nothing outside the message, follow at most _MAX_JUMPS
\* pointers for a name and take at most _MAX_NAME_BYTES octets for it.
THEOREM StaysInside == Spec => []InBounds
<1>1. IInv => InBounds
  BY DEF IInv
<1> QED
  BY <1>1, Invariant, PTL

\* The quantities that Falls compares are natural numbers.
THEOREM Bounded == Spec => [](Remaining \in Nat /\ Rank \in Nat /\ Budget \in Nat)
<1>1. IInv => Remaining \in Nat /\ Rank \in Nat /\ Budget \in Nat
  <2> SUFFICES ASSUME IInv
               PROVE  Remaining \in Nat /\ Rank \in Nat /\ Budget \in Nat
    OBVIOUS
  <2>1. Rank \in Nat
    BY DEF IInv, InBounds, Rank, RankOf
  <2>2. Remaining \in Nat
    BY Numbers DEF IInv, Remaining
  <2>3. Budget \in Nat
    BY Numbers, Sizes DEF IInv, Budget
  <2> QED
    BY <2>1, <2>2, <2>3
<1> QED
  BY <1>1, Invariant, PTL

\* Every step of reading uses something up, whatever the message: pointers that form a
\* cycle, names that share suffixes, more records claimed than there are.
THEOREM EveryStepFalls == Spec => [][Falls]_vars
<1>1. IInv /\ [Next]_vars => [Falls]_vars
  BY StepFalls DEF Next, Done
<1> QED
  BY <1>1, Invariant, PTL DEF Spec

-----------------------------------------------------------------------------
(* Which records are taken.                                                *)

\* ReachedBefore, of any log of records.
AliasesOf(log, i) ==
    {j \in 1..(i - 1) : log[j].type = Cname /\ log[j].class = Internet}

Leads(log, path, owner) ==
    /\ path # {}
    /\ \A j \in path :
          /\ (\A k \in path : j <= k) => log[j].owner = Lower(Asked)
          /\ (\A k \in path : j >= k) => log[j].target = owner
          /\ \A k \in path : j < k /\ (\A l \in path : l <= j \/ l >= k)
                => log[k].owner = log[j].target

ReachedIn(log, i, owner) ==
    \/ owner = Lower(Asked)
    \/ \E path \in SUBSET AliasesOf(log, i) : Leads(log, path, owner)

LEMMA ReachedIsReachedIn ==
    \A i, owner : ReachedBefore(i, owner) <=> ReachedIn(records, i, owner)
BY DEF ReachedBefore, ReachedIn, Leads, AliasesOf

\* A path grows by an alias behind all of it, from the name it leads to.
LEMMA PathGrows ==
    ASSUME NEW log, NEW i \in Nat \ {0}, NEW path \in SUBSET (1..(i - 1)),
           Leads(log, path, log[i].owner)
    PROVE  Leads(log, path \cup {i}, log[i].target)
<1> DEFINE longer == path \cup {i}
<1>1. \A j \in path : j \in Nat /\ j < i
  OBVIOUS
<1>2. ASSUME NEW j \in longer, \A k \in longer : j <= k
      PROVE  log[j].owner = Lower(Asked)
  <2>1. PICK k \in path : TRUE
    BY DEF Leads
  <2>2. j <= k /\ k < i
    BY <1>1, <1>2, <2>1
  <2>3. j \in path
    BY <2>2
  <2> QED
    BY <1>2, <2>3 DEF Leads
<1>3. ASSUME NEW j \in longer, \A k \in longer : j >= k
      PROVE  log[j].target = log[i].target
  <2>1. j = i
    BY <1>1, <1>3
  <2> QED
    BY <2>1
<1>4. ASSUME NEW j \in longer, NEW k \in longer, j < k, \A l \in longer : l <= j \/ l >= k
      PROVE  log[k].owner = log[j].target
  <2>1. j \in path
    BY <1>1, <1>4
  <2>2. CASE k \in path
    BY <1>4, <2>1, <2>2 DEF Leads
  <2>3. CASE k = i
    <3>1. \A l \in path : j >= l
      BY <1>1, <1>4, <2>1, <2>3
    <3> QED
      BY <2>1, <2>3, <3>1 DEF Leads
  <2> QED
    BY <2>2, <2>3
<1> HIDE DEF longer
<1>5. longer # {}
  BY DEF longer
<1>6. Leads(log, longer, log[i].target)
  BY <1>2, <1>3, <1>4, <1>5 DEF Leads
<1> QED
  BY <1>6 DEF longer

\* A path that ends in an alias led to the owner of the alias before.
LEMMA PathShrinks ==
    ASSUME NEW log, NEW i \in Nat \ {0}, NEW owner, NEW path \in SUBSET (1..i), i \in path,
           Leads(log, path, owner)
    PROVE  /\ log[i].target = owner
           /\ \/ log[i].owner = Lower(Asked)
              \/ Leads(log, path \ {i}, log[i].owner)
<1> DEFINE shorter == path \ {i}
<1>1. \A j \in shorter : j \in Nat /\ j < i /\ j \in path
  OBVIOUS
<1>2. log[i].target = owner
  BY DEF Leads
<1>3. CASE shorter = {}
  <2>1. \A k \in path : i <= k
    BY <1>3
  <2> QED
    BY <1>2, <2>1 DEF Leads
<1>4. CASE shorter # {}
  <2>1. ASSUME NEW j \in shorter, \A k \in shorter : j <= k
        PROVE  log[j].owner = Lower(Asked)
    <3>1. \A k \in path : j <= k
      BY <1>1, <2>1
    <3> QED
      BY <1>1, <3>1 DEF Leads
  <2>2. ASSUME NEW j \in shorter, \A k \in shorter : j >= k
        PROVE  log[j].target = log[i].owner
    <3>1. \A l \in path : l <= j \/ l >= i
      BY <1>1, <2>2
    <3> QED
      BY <1>1, <3>1 DEF Leads
  <2>3. ASSUME NEW j \in shorter, NEW k \in shorter, j < k,
               \A l \in shorter : l <= j \/ l >= k
        PROVE  log[k].owner = log[j].target
    <3>1. \A l \in path : l <= j \/ l >= k
      BY <1>1, <2>3
    <3> QED
      BY <1>1, <2>3, <3>1 DEF Leads
  <2> HIDE DEF shorter
  <2>4. Leads(log, shorter, log[i].owner)
    BY <1>4, <2>1, <2>2, <2>3 DEF Leads
  <2> QED
    BY <1>2, <2>4 DEF shorter
<1> QED
  BY <1>3, <1>4

\* What one more record adds to the names that are reached.
LEMMA OneMore ==
    ASSUME NEW log, NEW i \in Nat \ {0}, NEW owner
    PROVE  ReachedIn(log, i + 1, owner) <=>
              \/ ReachedIn(log, i, owner)
              \/ /\ log[i].type = Cname /\ log[i].class = Internet
                 /\ log[i].target = owner /\ ReachedIn(log, i, log[i].owner)
<1>1. (i + 1) - 1 = i /\ AliasesOf(log, i) \subseteq AliasesOf(log, i + 1)
  BY DEF AliasesOf
<1>2. \A j \in AliasesOf(log, i + 1) : j \in 1..i /\ (j # i => j \in AliasesOf(log, i))
  BY DEF AliasesOf
<1>3. ASSUME ReachedIn(log, i, owner)
      PROVE  ReachedIn(log, i + 1, owner)
  BY <1>1, <1>3 DEF ReachedIn
<1>4. ASSUME log[i].type = Cname, log[i].class = Internet, log[i].target = owner,
             ReachedIn(log, i, log[i].owner)
      PROVE  ReachedIn(log, i + 1, owner)
  <2>1. i \in AliasesOf(log, i + 1)
    BY <1>4 DEF AliasesOf
  <2>2. CASE log[i].owner = Lower(Asked)
    <3>1. Leads(log, {i}, owner)
      BY <1>4, <2>2 DEF Leads
    <3> QED
      BY <2>1, <3>1 DEF ReachedIn
  <2>3. CASE \E path \in SUBSET AliasesOf(log, i) : Leads(log, path, log[i].owner)
    <3>1. PICK path \in SUBSET AliasesOf(log, i) : Leads(log, path, log[i].owner)
      BY <2>3
    <3>2. path \in SUBSET (1..(i - 1))
      BY <3>1 DEF AliasesOf
    <3>3. Leads(log, path \cup {i}, owner)
      BY <1>4, <3>1, <3>2, PathGrows
    <3>4. path \cup {i} \in SUBSET AliasesOf(log, i + 1)
      BY <1>1, <2>1, <3>1
    <3> QED
      BY <3>3, <3>4 DEF ReachedIn
  <2> QED
    BY <1>4, <2>2, <2>3 DEF ReachedIn
<1>5. ASSUME ReachedIn(log, i + 1, owner), ~ReachedIn(log, i, owner)
      PROVE  /\ log[i].type = Cname /\ log[i].class = Internet
             /\ log[i].target = owner /\ ReachedIn(log, i, log[i].owner)
  <2>1. PICK path \in SUBSET AliasesOf(log, i + 1) : Leads(log, path, owner)
    BY <1>5 DEF ReachedIn
  <2>2. i \in path
    <3>1. SUFFICES ASSUME i \notin path
                   PROVE  FALSE
      OBVIOUS
    <3>2. path \in SUBSET AliasesOf(log, i)
      BY <1>2, <2>1, <3>1
    <3> QED
      BY <1>5, <2>1, <3>2 DEF ReachedIn
  <2>3. path \in SUBSET (1..i) /\ path \ {i} \in SUBSET AliasesOf(log, i)
    BY <1>2, <2>1
  <2>4. log[i].type = Cname /\ log[i].class = Internet
    BY <2>1, <2>2 DEF AliasesOf
  <2>5. /\ log[i].target = owner
        /\ \/ log[i].owner = Lower(Asked)
           \/ Leads(log, path \ {i}, log[i].owner)
    BY <2>1, <2>2, <2>3, PathShrinks
  <2> QED
    BY <2>3, <2>4, <2>5 DEF ReachedIn
<1> QED
  BY <1>3, <1>4, <1>5
\* Until the question is answered.
Asking == stage \in {"received", "question"} \/ (stage = "name" /\ reading = "question")

\* The names accepted are those that the aliases read so far reach, and the name of an
\* alias that is being read is one of them.
AcceptedReached ==
    /\ \E S : records \in Seq(S)
    /\ taken \subseteq 1..Len(records)
    /\ accepted = {} => records = << >>
    /\ accepted # {} =>
          \A owner : owner \in accepted <=> ReachedBefore(Len(records) + 1, owner)
    /\ Asking => accepted = {}
    /\ Asking \/ stage = "done" \/ accepted # {}
    /\ stage = "target" \/ (stage = "name" /\ reading = "target")
          => Relevant(data) /\ data.type = Cname

\* The invariant of the answer section.
AnswerInv == AcceptedReached /\ OnlyReachedRecords

\* One more record, and what it changes: nothing before it.
LEMMA LogAdds ==
    ASSUME NEW S, records \in Seq(S), NEW target, Log(target)
    PROVE  LET n == Len(records) + 1
           IN  /\ n \in Nat \ {0} /\ Len(records') = n
               /\ \E T : records' \in Seq(T)
               /\ \A i \in 1..Len(records) : records'[i] = records[i]
               /\ records'[n].owner = data.owner /\ records'[n].type = data.type
               /\ records'[n].class = data.class /\ records'[n].target = target
               /\ \A i \in 1..n : \A owner :
                     ReachedIn(records', i, owner) <=> ReachedIn(records, i, owner)
<1> DEFINE n == Len(records) + 1
           e == [owner |-> data.owner, type |-> data.type,
                 class |-> data.class, target |-> target]
<1>1. records' = Append(records, e)
  BY DEF Log
<1>2. e.owner = data.owner /\ e.type = data.type /\ e.class = data.class /\ e.target = target
  OBVIOUS
<1> HIDE DEF e
<1>3. /\ n \in Nat \ {0} /\ Len(records') = n
      /\ \A i \in 1..Len(records) : records'[i] = records[i]
      /\ records'[n] = e
  BY <1>1
<1>4. records \in Seq(S \cup {e})
  BY SeqMonotonic, S \subseteq S \cup {e}
<1>5. records' \in Seq(S \cup {e})
  BY <1>1, <1>4
<1>6. ASSUME NEW i \in 1..n, NEW owner
      PROVE  ReachedIn(records', i, owner) <=> ReachedIn(records, i, owner)
  <2>1. \A j \in 1..(i - 1) : records'[j] = records[j]
    BY <1>3
  <2>2. AliasesOf(records', i) = AliasesOf(records, i)
    BY <2>1 DEF AliasesOf
  <2>3. \A path \in SUBSET AliasesOf(records, i), j \in AliasesOf(records, i) :
           j \in 1..(i - 1) /\ records'[j] = records[j]
    BY <2>1 DEF AliasesOf
  <2>4. ASSUME NEW path \in SUBSET AliasesOf(records, i)
        PROVE  Leads(records', path, owner) <=> Leads(records, path, owner)
    <3>1. \A j \in path : records'[j] = records[j]
      BY <2>3
    <3> QED
      BY <3>1 DEF Leads
  <2> QED
    BY <2>2, <2>4 DEF ReachedIn
<1> QED
  BY <1>2, <1>3, <1>5, <1>6

\* Steps that neither accept a name nor read a record to its end.
LEMMA AnswerUnchanged ==
    ASSUME AnswerInv, UNCHANGED <<accepted, records, taken>>,
           Asking' => Asking,
           Asking' \/ stage' = "done" \/ ~(Asking \/ stage = "done"),
           (stage = "target" \/ (stage = "name" /\ reading = "target"))'
              => /\ UNCHANGED data
                 /\ \/ stage = "target" \/ (stage = "name" /\ reading = "target")
                    \/ Relevant(data) /\ data.type = Cname
    PROVE  AnswerInv'
<1>1. \A i, owner : ReachedBefore(i, owner)' <=> ReachedBefore(i, owner)
  BY DEF ReachedBefore
<1>2. OnlyReachedRecords'
  BY <1>1 DEF AnswerInv, OnlyReachedRecords
<1>3. AcceptedReached'
  BY <1>1 DEF AnswerInv, AcceptedReached, Relevant
<1> QED
  BY <1>2, <1>3 DEF AnswerInv

\* The names are first accepted when the question is answered.
LEMMA QuestionAccepts ==
    ASSUME AnswerInv, CheckQuestion
    PROVE  AnswerInv'
<1>1. stage = "question" /\ UNCHANGED <<data, records, taken>>
  BY DEF CheckQuestion
<1>2. CASE UNCHANGED accepted /\ stage' = "done"
  BY <1>1, <1>2, AnswerUnchanged DEF Asking
<1>3. CASE stage' = "records" /\ accepted' = {Lower(Asked)}
  <2>1. records = << >> /\ taken = {} /\ Len(records) + 1 = 1
    <3>1. records = << >>
      BY <1>1 DEF AnswerInv, AcceptedReached, Asking
    <3>2. Len(records) = 0
      BY <3>1
    <3>3. 1..Len(records) = {}
      BY <3>2
    <3> QED
      BY <3>1, <3>2, <3>3 DEF AnswerInv, AcceptedReached
  <2>2. \A owner : ReachedIn(records, 1, owner) <=> owner = Lower(Asked)
    <3>1. AliasesOf(records, 1) = {}
      BY DEF AliasesOf
    <3>2. \A path \in SUBSET AliasesOf(records, 1) : \A owner : ~Leads(records, path, owner)
      BY <3>1 DEF Leads
    <3> QED
      BY <3>2 DEF ReachedIn
  <2>3. \A owner : ReachedBefore(1, owner)' <=> owner = Lower(Asked)
    BY <1>1, <2>2, ReachedIsReachedIn DEF ReachedBefore
  <2>4. ~Asking' /\ ~(stage = "target" \/ (stage = "name" /\ reading = "target"))'
    BY <1>3 DEF Asking
  <2>5. AcceptedReached'
    BY <1>1, <1>3, <2>1, <2>3, <2>4 DEF AcceptedReached, AnswerInv
  <2>6. OnlyReachedRecords'
    BY <1>1, <2>1 DEF OnlyReachedRecords
  <2> QED
    BY <2>5, <2>6 DEF AnswerInv
<1> QED
  BY <1>2, <1>3 DEF CheckQuestion, Finish

\* A record read to its end: what it adds to the names accepted and to the addresses
\* taken is what it has to add.
LEMMA RecordAdds ==
    ASSUME AnswerInv, accepted # {}, NEW target, Log(target), stage' = "records",
           accepted' = accepted \cup {x \in {target} : Relevant(data) /\ data.type = Cname},
           taken' = taken \cup {x \in {Len(records')} : Relevant(data) /\ data.type = QType}
    PROVE  AnswerInv'
<1> DEFINE n == Len(records) + 1
<1>1. PICK S : records \in Seq(S)
  BY DEF AnswerInv, AcceptedReached
<1>2. /\ n \in Nat \ {0} /\ Len(records') = n
      /\ \E T : records' \in Seq(T)
      /\ \A i \in 1..Len(records) : records'[i] = records[i]
      /\ records'[n].owner = data.owner /\ records'[n].type = data.type
      /\ records'[n].class = data.class /\ records'[n].target = target
      /\ \A i \in 1..n : \A owner :
            ReachedIn(records', i, owner) <=> ReachedIn(records, i, owner)
  BY <1>1, LogAdds
<1>3. Len(records) \in Nat /\ n = Len(records) + 1
  BY <1>1
<1> HIDE DEF n
<1>4. n \in 1..n /\ n \notin 1..Len(records) /\ 1..n = (1..Len(records)) \cup {n}
  BY <1>2, <1>3
<1>5. \A owner : owner \in accepted <=> ReachedIn(records', n, owner)
  BY <1>2, <1>3, <1>4, ReachedIsReachedIn DEF AnswerInv, AcceptedReached
<1>6. Relevant(data) <=> data.class = Internet /\ ReachedIn(records', n, data.owner)
  BY <1>5 DEF Relevant
<1>7. \A owner : owner \in accepted' <=> ReachedIn(records', n + 1, owner)
  <2>1. \A owner : ReachedIn(records', n + 1, owner) <=>
                      \/ ReachedIn(records', n, owner)
                      \/ /\ data.type = Cname /\ data.class = Internet /\ target = owner
                         /\ ReachedIn(records', n, data.owner)
    BY <1>2, OneMore
  <2>2. \A owner : owner \in accepted' <=>
                      \/ owner \in accepted
                      \/ owner = target /\ Relevant(data) /\ data.type = Cname
    OBVIOUS
  <2> QED
    BY <1>5, <1>6, <2>1, <2>2
<1>8. \A i, owner : ReachedBefore(i, owner)' <=> ReachedIn(records', i, owner)
  BY DEF ReachedBefore, ReachedIn, Leads, AliasesOf
<1>9. AcceptedReached'
  <2>1. taken' \subseteq 1..Len(records')
    BY <1>2, <1>4 DEF AnswerInv, AcceptedReached
  <2>2. accepted' # {}
    OBVIOUS
  <2>3. ~Asking' /\ ~(stage = "target" \/ (stage = "name" /\ reading = "target"))'
    BY DEF Asking
  <2> QED
    BY <1>2, <1>7, <1>8, <2>1, <2>2, <2>3 DEF AcceptedReached
<1>10. OnlyReachedRecords'
  <2>1. SUFFICES ASSUME NEW i \in 1..n
                 PROVE  i \in taken' <=> /\ records'[i].class = Internet
                                         /\ records'[i].type = QType
                                         /\ ReachedIn(records', i, records'[i].owner)
    BY <1>2, <1>8 DEF OnlyReachedRecords
  <2>2. CASE i \in 1..Len(records)
    <3>1. i \in taken' <=> i \in taken
      BY <1>2, <1>4, <2>2
    <3>2. i \in taken <=> /\ records[i].class = Internet /\ records[i].type = QType
                          /\ ReachedIn(records, i, records[i].owner)
      BY <2>2, ReachedIsReachedIn DEF AnswerInv, OnlyReachedRecords
    <3> QED
      BY <1>2, <2>1, <2>2, <3>1, <3>2
  <2>3. CASE i = n
    <3>1. n \notin taken
      BY <1>4 DEF AnswerInv, AcceptedReached
    <3> QED
      BY <1>2, <1>6, <2>3, <3>1
  <2> QED
    BY <1>4, <2>2, <2>3
<1> QED
  BY <1>9, <1>10 DEF AnswerInv

LEMMA AnswerStep ==
    ASSUME IInv, AnswerInv, Step
    PROVE  AnswerInv'
<1>1. CASE ReadHeader
  <2>1. stage = "received" /\ UNCHANGED <<data, accepted, records, taken>>
    BY <1>1 DEF ReadHeader
  <2>2. stage' = "done" \/ (stage' = "name" /\ reading' = "question")
    BY <1>1 DEF ReadHeader, Finish, Decode
  <2> QED
    BY <2>1, <2>2, AnswerUnchanged DEF Asking
<1>2. CASE FollowPointer \/ ReadLabel
  BY <1>2, AnswerUnchanged DEF FollowPointer, ReadLabel, Asking
<1>3. CASE EndOfName
  <2>1. /\ stage = "name" /\ stage' = reading
        /\ UNCHANGED <<reading, data, accepted, records, taken>>
    BY <1>3 DEF EndOfName, name
  <2>2. reading \in {"question", "owner", "target"}
    BY DEF IInv, InBounds
  <2> QED
    BY <2>1, <2>2, AnswerUnchanged DEF Asking
<1>4. CASE NameMalformed \/ RecordMalformed
  BY <1>4, AnswerUnchanged DEF NameMalformed, RecordMalformed, Finish, Asking
<1>5. CASE CheckQuestion
  BY <1>5, QuestionAccepts
<1>6. CASE NextRecord
  <2>1. stage = "records" /\ UNCHANGED <<data, accepted, records, taken>>
    BY <1>6 DEF NextRecord
  <2>2. stage' = "done" \/ (stage' = "name" /\ reading' = "owner")
    BY <1>6 DEF NextRecord, Finish, Decode
  <2> QED
    BY <2>1, <2>2, AnswerUnchanged DEF Asking
<1>7. CASE ReadRecord
  BY <1>7, AnswerUnchanged DEF ReadRecord, Asking
<1>8. CASE Skip
  <2>1. /\ stage = "record" /\ Log(<< >>) /\ stage' = "records" /\ UNCHANGED <<accepted, taken>>
        /\ ~(Relevant(data) /\ data.type = Cname) /\ ~(Relevant(data) /\ data.type = QType)
    BY <1>8 DEF Skip
  <2> QED
    BY <2>1, RecordAdds DEF AnswerInv, AcceptedReached, Asking
<1>9. CASE Alias
  <2>1. /\ stage = "record" /\ Relevant(data) /\ data.type = Cname
        /\ stage' = "name" /\ reading' = "target"
        /\ UNCHANGED <<data, accepted, records, taken>>
    BY <1>9 DEF Alias, Decode
  <2> QED
    BY <2>1, AnswerUnchanged DEF Asking
<1>10. CASE AcceptTarget
  <2>1. /\ stage = "target" /\ Log(Name) /\ stage' = "records"
        /\ accepted' = accepted \cup {Name} /\ taken' = taken
    BY <1>10 DEF AcceptTarget
  <2>2. Relevant(data) /\ data.type = Cname /\ data.type # QType /\ accepted # {}
    BY <2>1, SizeAssumption DEF AnswerInv, AcceptedReached, Asking
  <2> QED
    BY <2>1, <2>2, RecordAdds
<1>11. CASE TakeAddress
  <2>1. stage = "record" /\ Relevant(data) /\ data.type = QType /\ UNCHANGED <<data, accepted>>
    BY <1>11 DEF TakeAddress
  <2>2. data.type # Cname /\ accepted # {}
    BY <2>1, SizeAssumption DEF AnswerInv, AcceptedReached, Asking
  <2>3. CASE stage' = "done" /\ UNCHANGED <<records, taken>>
    BY <2>1, <2>3, AnswerUnchanged DEF Asking
  <2>4. CASE Log(<< >>) /\ taken' = taken \cup {Len(records')} /\ stage' = "records"
    BY <2>1, <2>2, <2>4, RecordAdds
  <2> QED
    BY <1>11, <2>3, <2>4 DEF TakeAddress, Finish
<1> QED
  BY <1>1, <1>2, <1>3, <1>4, <1>5, <1>6, <1>7, <1>8, <1>9, <1>10, <1>11 DEF Step

\* The addresses of the answer are exactly those that the question reaches through the
\* aliases in front of them, in every message: _read_records accepts names one at a time,
\* and that is as good as looking for a path of aliases.
THEOREM ReachedRecordsOnly == Spec => []OnlyReachedRecords
<1>1. Init => AnswerInv
  <2> SUFFICES ASSUME Init
               PROVE  AnswerInv
    OBVIOUS
  <2>1. stage = "received" /\ accepted = {} /\ records = << >> /\ taken = {}
    BY DEF Init
  <2>2. records \in Seq({}) /\ 1..Len(records) = {}
    BY <2>1
  <2> QED
    BY <2>1, <2>2 DEF AnswerInv, AcceptedReached, OnlyReachedRecords, Asking
<1>2. IInv /\ AnswerInv /\ [Next]_vars => AnswerInv'
  <2>1. AnswerInv /\ UNCHANGED vars => AnswerInv'
    BY AnswerUnchanged DEF vars, name, Asking
  <2> QED
    BY <2>1, AnswerStep DEF Next, Done
<1>3. AnswerInv => OnlyReachedRecords
  BY DEF AnswerInv
<1> QED
  BY <1>1, <1>2, <1>3, Invariant, PTL DEF Spec

-----------------------------------------------------------------------------
(* Where names end, and what they take.                                    *)

\* Where the reading of a name goes on behind the octet at o.
NextFrom(o) == IF o + 1 + At(o) <= Size THEN o + 1 + At(o) ELSE Size

\* The equation that EndFrom is defined by, for a function on the octets from m on.
EndsLike(f, m) ==
    f = [o \in m..Size |->
            IF o >= Size THEN o
            ELSE IF IsPointer(At(o)) THEN o + 2
            ELSE IF At(o) = 0 THEN o + 1
            ELSE f[NextFrom(o)]]

\* A nonempty set of naturals has a least element: what proofs about recursive definitions
\* rest on here, applied to the set of the places where the claim fails or begins to hold.
LEMMA LeastNatural ==
    ASSUME NEW T, T \subseteq Nat, T # {}
    PROVE  \E x \in T : \A y \in T : x <= y
<1> DEFINE R == {ss \in Nat \X Nat : ss[1] < ss[2]}
<1>1. IsWellFoundedOn(R, Nat)
  BY NatLessThanWellFounded, Zenon DEF OpToRel
<1>2. PICK x \in T : \A y \in T : ~ (<<y, x>> \in R)
  <2> HIDE DEF R
  <2> QED
    BY <1>1, WFMin, Zenon
<1>3. \A y \in T : ~(y < x)
  BY <1>2
<1> QED
  BY <1>3

LEMMA NextIsBehind ==
    ASSUME InBounds, NEW o \in Nat, o < Size
    PROVE  NextFrom(o) \in (o + 1)..Size
<1>1. At(o) \in Nat /\ Size \in Nat
  BY OctetsInside
<1> DEFINE length == At(o)
<1> HIDE DEF length
<1>2. length \in Nat /\ NextFrom(o) = IF o + 1 + length <= Size THEN o + 1 + length ELSE Size
  BY <1>1 DEF length, NextFrom
<1> QED
  BY <1>1, <1>2

\* Such a function exists: it is built from the end of the message to its beginning.
LEMMA EndsExist ==
    ASSUME InBounds
    PROVE  \E f : EndsLike(f, 0)
<1> DEFINE T == {m \in 0..Size : \E f : EndsLike(f, m)}
<1>1. Size \in Nat
  BY OctetsInside
<1>2. Size \in T
  <2>1. EndsLike([o \in Size..Size |-> o], Size)
    BY <1>1 DEF EndsLike
  <2> QED
    BY <1>1, <2>1
<1>3. PICK m \in T : \A k \in T : m <= k
  <2>1. T \subseteq Nat /\ T # {}
    BY <1>1, <1>2
  <2> HIDE DEF T
  <2> QED
    BY <2>1, LeastNatural
<1>4. m = 0
  <2>1. SUFFICES ASSUME m # 0
                 PROVE  FALSE
    OBVIOUS
  <2>2. m \in 1..Size /\ m - 1 \in Nat /\ m - 1 < Size /\ (m - 1) + 1 = m
    BY <1>1, <2>1
  <2>3. PICK f : EndsLike(f, m)
    BY <1>3
  <2> DEFINE e == IF IsPointer(At(m - 1)) THEN (m - 1) + 2
                  ELSE IF At(m - 1) = 0 THEN (m - 1) + 1
                  ELSE f[NextFrom(m - 1)]
             g == [o \in (m - 1)..Size |-> IF o = m - 1 THEN e ELSE f[o]]
  <2>4. \A o \in m..Size : g[o] = f[o]
    BY <1>1, <2>2
  <2>5. \A o \in (m - 1)..Size : o < Size => NextFrom(o) \in m..Size
    BY <1>1, <2>2, NextIsBehind
  <2>6. ASSUME NEW o \in (m - 1)..Size
        PROVE  g[o] = IF o >= Size THEN o
                      ELSE IF IsPointer(At(o)) THEN o + 2
                      ELSE IF At(o) = 0 THEN o + 1
                      ELSE g[NextFrom(o)]
    <3>1. o < Size => g[NextFrom(o)] = f[NextFrom(o)]
      BY <2>4, <2>5
    <3>2. CASE o = m - 1
      BY <1>1, <2>2, <3>1, <3>2
    <3>3. CASE o \in m..Size
      <4>1. f[o] = IF o >= Size THEN o
                   ELSE IF IsPointer(At(o)) THEN o + 2
                   ELSE IF At(o) = 0 THEN o + 1
                   ELSE f[NextFrom(o)]
        BY <2>3, <3>3 DEF EndsLike
      <4>2. o >= Size \/ o < Size
        BY <1>1, <3>3
      <4> HIDE DEF g
      <4> QED
        BY <2>4, <3>1, <3>3, <4>1, <4>2
    <3> QED
      BY <2>2, <3>2, <3>3
  <2>7. g = [o \in (m - 1)..Size |-> g[o]]
    OBVIOUS
  <2> HIDE DEF g
  <2>8. EndsLike(g, m - 1)
    BY <2>6, <2>7 DEF EndsLike
  <2>9. m - 1 \in T
    BY <1>1, <2>2, <2>8
  <2> QED
    BY <1>1, <1>3, <2>2, <2>9
<1> QED
  BY <1>3, <1>4

\* The equation, an octet at a time.
LEMMA EndFromIs ==
    ASSUME InBounds, NEW o \in Inside
    PROVE  EndFrom[o] = IF o >= Size THEN o
                        ELSE IF IsPointer(At(o)) THEN o + 2
                        ELSE IF At(o) = 0 THEN o + 1
                        ELSE EndFrom[NextFrom(o)]
<1>1. EndFrom = CHOOSE f : EndsLike(f, 0)
  BY DEF EndFrom, EndsLike, NextFrom
<1>2. EndsLike(EndFrom, 0)
  BY <1>1, EndsExist
<1> HIDE DEF EndFrom
<1> QED
  BY <1>2 DEF EndsLike, Inside

\* The equation that OctetsOf is defined by, for the first m of the parts.
SumLike(f, parts, m) ==
    f = [n \in 0..m |-> IF n = 0 THEN 0 ELSE f[n - 1] + Len(parts[n]) + 1]

LEMMA SumsExist ==
    ASSUME NEW parts, NEW m \in Nat
    PROVE  \E f : SumLike(f, parts, m)
<1> DEFINE T == {n \in 0..m : ~\E f : SumLike(f, parts, n)}
<1>1. SUFFICES ASSUME T # {}
               PROVE  FALSE
  OBVIOUS
<1>2. PICK n \in T : \A k \in T : n <= k
  <2>1. T \subseteq Nat
    OBVIOUS
  <2> HIDE DEF T
  <2> QED
    BY <1>1, <2>1, LeastNatural
<1>3. n # 0
  <2>1. SumLike([k \in 0..0 |-> 0], parts, 0)
    BY DEF SumLike
  <2> QED
    BY <1>2, <2>1
<1>4. n \in Nat /\ n - 1 \in Nat /\ n - 1 \in 0..m /\ n - 1 < n
  BY <1>2, <1>3
<1>5. PICK f : SumLike(f, parts, n - 1)
  BY <1>2, <1>4
<1> DEFINE g == [k \in 0..n |-> IF k = n THEN f[n - 1] + Len(parts[n]) + 1 ELSE f[k]]
<1>6. \A k \in 0..(n - 1) : g[k] = f[k]
  BY <1>4
<1>7. ASSUME NEW k \in 0..n
      PROVE  g[k] = IF k = 0 THEN 0 ELSE g[k - 1] + Len(parts[k]) + 1
  <2>1. k # 0 => g[k - 1] = f[k - 1]
    BY <1>4, <1>6
  <2>2. CASE k = n
    BY <1>3, <1>4, <2>1, <2>2
  <2>3. CASE k \in 0..(n - 1)
    <3>1. f[k] = IF k = 0 THEN 0 ELSE f[k - 1] + Len(parts[k]) + 1
      BY <1>5, <2>3 DEF SumLike
    <3> HIDE DEF g
    <3> QED
      BY <1>6, <2>1, <2>3, <3>1
  <2> QED
    BY <1>4, <2>2, <2>3
<1>8. g = [k \in 0..n |-> g[k]]
  OBVIOUS
<1> HIDE DEF g
<1>9. SumLike(g, parts, n)
  BY <1>7, <1>8 DEF SumLike
<1> QED
  BY <1>2, <1>9

BeginAlike(parts, others, m) == \A n \in 1..m : parts[n] = others[n]

\* It says all there is to say, of any two lists that begin alike.
LEMMA SumsAgree ==
    ASSUME NEW parts, NEW others, NEW m \in Nat, NEW k \in Nat, m <= k,
           BeginAlike(parts, others, m),
           NEW f, SumLike(f, parts, m), NEW g, SumLike(g, others, k)
    PROVE  \A n \in 0..m : f[n] = g[n]
<1> DEFINE T == {n \in 0..m : f[n] # g[n]}
<1>1. SUFFICES ASSUME T # {}
               PROVE  FALSE
  OBVIOUS
<1>2. PICK n \in T : \A l \in T : n <= l
  <2>1. T \subseteq Nat
    OBVIOUS
  <2> HIDE DEF T
  <2> QED
    BY <1>1, <2>1, LeastNatural
<1>3. /\ f[n] = IF n = 0 THEN 0 ELSE f[n - 1] + Len(parts[n]) + 1
      /\ g[n] = IF n = 0 THEN 0 ELSE g[n - 1] + Len(others[n]) + 1
  BY <1>2 DEF SumLike
<1>4. n # 0 => n - 1 \in 0..m /\ n \in 1..m /\ ~(n <= n - 1)
  BY <1>2
<1>5. n # 0 => f[n - 1] = g[n - 1]
  BY <1>2, <1>4
<1> QED
  BY <1>2, <1>3, <1>4, <1>5 DEF BeginAlike

LEMMA SumGrows ==
    ASSUME NEW parts, NEW others, NEW m \in Nat, NEW k \in Nat, k = m + 1,
           BeginAlike(parts, others, m),
           NEW f, SumLike(f, parts, m), NEW g, SumLike(g, others, k)
    PROVE  g[k] = f[m] + Len(others[k]) + 1
<1>1. k \in 0..k /\ k # 0 /\ k - 1 = m /\ m \in 0..m /\ m <= k
  OBVIOUS
<1>2. g[k] = g[m] + Len(others[k]) + 1
  BY <1>1 DEF SumLike
<1>3. \A n \in 0..m : f[n] = g[n]
  BY <1>1, SumsAgree
<1> QED
  BY <1>1, <1>2, <1>3

LEMMA OctetsOfAppend ==
    /\ OctetsOf(<< >>) = 0
    /\ \A parts \in Seq(Seq(Octet)), label \in Seq(Octet) :
          OctetsOf(Append(parts, label)) = OctetsOf(parts) + Len(label) + 1
<1>1. ASSUME NEW parts, Len(parts) \in Nat
      PROVE  \E f : SumLike(f, parts, Len(parts)) /\ OctetsOf(parts) = f[Len(parts)]
  <2> DEFINE sum == CHOOSE f : SumLike(f, parts, Len(parts))
  <2>1. OctetsOf(parts) = sum[Len(parts)]
    BY DEF OctetsOf, SumLike
  <2>2. SumLike(sum, parts, Len(parts))
    BY <1>1, SumsExist
  <2> HIDE DEF sum
  <2> QED
    BY <2>1, <2>2
<1>2. OctetsOf(<< >>) = 0
  <2>1. Len(<< >>) = 0
    OBVIOUS
  <2> QED
    BY <1>1, <2>1 DEF SumLike
<1>3. ASSUME NEW parts \in Seq(Seq(Octet)), NEW label \in Seq(Octet)
      PROVE  OctetsOf(Append(parts, label)) = OctetsOf(parts) + Len(label) + 1
  <2> DEFINE m == Len(parts)
             more == Append(parts, label)
  <2>1. /\ m \in Nat /\ Len(more) = m + 1 /\ more[m + 1] = label
        /\ \A n \in 1..m : parts[n] = more[n]
    OBVIOUS
  <2>2. PICK f : SumLike(f, parts, m) /\ OctetsOf(parts) = f[m]
    BY <1>1
  <2> HIDE DEF m, more
  <2>3. m + 1 \in Nat /\ Len(more) \in Nat /\ BeginAlike(parts, more, m)
    BY <2>1 DEF BeginAlike
  <2>4. PICK g : SumLike(g, more, m + 1) /\ OctetsOf(more) = g[m + 1]
    BY <1>1, <2>1, <2>3
  <2>5. g[m + 1] = f[m] + Len(more[m + 1]) + 1
    BY <2>1, <2>2, <2>3, <2>4, SumGrows
  <2> QED
    BY <2>1, <2>2, <2>4, <2>5 DEF more
<1> QED
  BY <1>2, <1>3

\* The end of the name being decoded is the end of what is still to be read of it, until
\* the first pointer fixes it; and what it took so far is its labels.
NameSoFar ==
    /\ labels \in Seq(Seq(Octet))
    /\ total = OctetsOf(labels)
    /\ stage = "name" =>
          EndFrom[start] = IF after = Unknown THEN EndFrom[offset] ELSE after
    /\ Named => offset = EndFrom[start]

\* A step of the name itself, or one that leaves every name behind.
LEMMA NameUnread ==
    ASSUME NameSoFar, UNCHANGED message,
           \/ UNCHANGED name /\ stage' \notin {"name", "question", "owner", "target"}
           \/ \E whose, at : Decode(whose, at)
    PROVE  NameSoFar'
<1>1. EndFrom' = EndFrom
  BY DEF EndFrom, Size, At
<1>2. CASE UNCHANGED name /\ stage' \notin {"name", "question", "owner", "target"}
  BY <1>1, <1>2 DEF NameSoFar, name, Named
<1>3. ASSUME NEW whose, NEW at, Decode(whose, at)
      PROVE  NameSoFar'
  <2>1. /\ stage' = "name" /\ start' = at /\ offset' = at
        /\ labels' = << >> /\ total' = 0 /\ after' = Unknown
    BY <1>3 DEF Decode
  <2>2. labels' \in Seq(Seq(Octet)) /\ total' = OctetsOf(labels')
    BY <2>1, OctetsOfAppend
  <2> QED
    BY <2>1, <2>2 DEF NameSoFar, Named
<1> QED
  BY <1>2, <1>3

LEMMA PointerKeepsName ==
    ASSUME IInv, NameSoFar, FollowPointer
    PROVE  NameSoFar'
<1>1. /\ stage = "name" /\ offset < Size /\ IsPointer(At(offset))
      /\ after' = EndsAfter(offset)
      /\ UNCHANGED <<message, stage, start, labels, total>>
  BY DEF FollowPointer
<1>2. EndFrom' = EndFrom
  BY <1>1 DEF EndFrom, Size, At
<1>3. offset \in Inside /\ offset + 2 # Unknown /\ ~(offset >= Size)
  BY <1>1, Numbers DEF IInv, InBounds, Inside, Unknown
<1>4. EndFrom[offset] = offset + 2
  BY <1>1, <1>3, EndFromIs DEF IInv
<1>5. EndFrom[start] = after' /\ after' # Unknown
  BY <1>1, <1>3, <1>4 DEF NameSoFar, EndsAfter
<1> QED
  BY <1>1, <1>2, <1>5 DEF NameSoFar, Named

LEMMA LabelKeepsName ==
    ASSUME IInv, NameSoFar, ReadLabel
    PROVE  NameSoFar'
<1> DEFINE length == At(offset)
<1>1. /\ stage = "name" /\ offset < Size /\ length \in 1..(Quarter - 1)
      /\ offset + 1 + length <= Size
      /\ labels' = Append(labels, Slice(offset + 1, length))
      /\ total' = total + length + 1 /\ offset' = offset + 1 + length
      /\ UNCHANGED <<message, stage, start, after>>
  BY DEF ReadLabel, LabelReadable
<1>2. EndFrom' = EndFrom
  BY <1>1 DEF EndFrom, Size, At
<1>3. /\ offset \in Inside /\ offset \in Nat /\ ~(offset >= Size) /\ length \in Nat
      /\ ~IsPointer(length) /\ length # 0
  <2>1. InBounds
    BY DEF IInv
  <2>2. offset \in Inside /\ offset \in Nat /\ Size \in Nat
    BY <2>1, Numbers DEF InBounds
  <2> HIDE DEF length
  <2>3. length \in Nat /\ ~IsPointer(length) /\ length # 0
    BY <1>1, Sizes DEF IsPointer
  <2> QED  BY <1>1, <2>2, <2>3
<1>4. EndFrom[offset] = EndFrom[offset']
  <2>1. NextFrom(offset) = offset'
    BY <1>1 DEF NextFrom
  <2> QED
    BY <1>3, <2>1, EndFromIs DEF IInv
<1>5. Slice(offset + 1, length) \in Seq(Octet) /\ Len(Slice(offset + 1, length)) = length
  <2>1. message.octets \in Seq(Octet) /\ Size = Len(message.octets)
    BY MessageAssumption DEF IInv, InBounds, Size
  <2> HIDE DEF length
  <2> QED
    BY <1>1, <1>3, <2>1 DEF Slice
<1>6. labels' \in Seq(Seq(Octet)) /\ total' = OctetsOf(labels')
  <2> HIDE DEF length
  <2> QED
    BY <1>1, <1>5, OctetsOfAppend DEF NameSoFar
<1> HIDE DEF length
<1> QED
  BY <1>1, <1>2, <1>4, <1>6 DEF NameSoFar, Named

LEMMA NameEnds ==
    ASSUME IInv, NameSoFar, EndOfName
    PROVE  NameSoFar'
<1>1. /\ stage = "name" /\ offset < Size /\ At(offset) = 0 /\ stage' = reading
      /\ offset' = IF after = Unknown THEN offset + 1 ELSE after
      /\ UNCHANGED <<message, name>>
  BY DEF EndOfName
<1>2. EndFrom' = EndFrom
  BY <1>1 DEF EndFrom, Size, At
<1>3. offset \in Inside /\ ~(offset >= Size) /\ ~IsPointer(At(offset))
  BY <1>1, Sizes, Numbers DEF IInv, InBounds, IsPointer
<1>4. EndFrom[offset] = offset + 1
  BY <1>1, <1>3, EndFromIs DEF IInv
<1>5. offset' = EndFrom[start] /\ stage' # "name"
  BY <1>1, <1>4 DEF NameSoFar, IInv, InBounds
<1> QED
  BY <1>1, <1>2, <1>5 DEF NameSoFar, name

LEMMA NameStep ==
    ASSUME IInv, NameSoFar, Step
    PROVE  NameSoFar'
<1>1. CASE FollowPointer \/ ReadLabel \/ EndOfName
  BY <1>1, PointerKeepsName, LabelKeepsName, NameEnds
<1>2. CASE \/ ReadHeader \/ NameMalformed \/ CheckQuestion \/ NextRecord \/ RecordMalformed
           \/ ReadRecord \/ Skip \/ Alias \/ AcceptTarget \/ TakeAddress
  <2>1. UNCHANGED message
    BY <1>2 DEF ReadHeader, NameMalformed, CheckQuestion, NextRecord, RecordMalformed,
       ReadRecord, Skip, Alias, AcceptTarget, TakeAddress
  <2>2. \/ UNCHANGED name /\ stage' \notin {"name", "question", "owner", "target"}
        \/ \E whose, at : Decode(whose, at)
    BY <1>2 DEF ReadHeader, NameMalformed, CheckQuestion, NextRecord, RecordMalformed,
       ReadRecord, Skip, Alias, AcceptTarget, TakeAddress, Finish
  <2> QED
    BY <2>1, <2>2, NameUnread
<1> QED
  BY <1>1, <1>2 DEF Step

\* _decode_name gives the place behind the name where it stands, whatever pointers it
\* followed to read it, and takes its labels in full.
THEOREM ReadsInPlace == Spec => []NamesInPlace
<1>1. Init => NameSoFar
  <2>1. << >> \in Seq(Seq(Octet)) /\ OctetsOf(<< >>) = 0
    BY OctetsOfAppend
  <2> QED
    BY <2>1 DEF Init, NameSoFar, Named
<1>2. IInv /\ NameSoFar /\ [Next]_vars => NameSoFar'
  <2>1. ASSUME NameSoFar, UNCHANGED vars
        PROVE  NameSoFar'
    <3>1. EndFrom' = EndFrom
      BY <2>1 DEF vars, EndFrom, Size, At
    <3> QED
      BY <2>1, <3>1 DEF vars, name, NameSoFar, Named
  <2> QED
    BY <2>1, NameStep DEF Next, Done
<1>3. IInv /\ NameSoFar => NamesInPlace
  BY Numbers DEF IInv, NameSoFar, NamesInPlace
<1> QED
  BY <1>1, <1>2, <1>3, Invariant, PTL DEF Spec
=============================================================================
