------------------------------- MODULE DnsMessage -------------------------------
(***************************************************************************)
(* Reading one DNS reply: _parse, _check_question, _read_records,          *)
(* _read_record, _decode_name and _follow_pointer of                       *)
(* src/ssrfguard/resolvers.py, over a message somebody else wrote.         *)
(*                                                                         *)
(* A message is octets, of a base that is four times Quarter instead of    *)
(* 256: the two high bits of a length still say whether it is a label's,   *)
(* reserved or a pointer, and the fields of the fixed parts are one octet  *)
(* each.  Offsets count from 0, as in the code.  One step decodes one      *)
(* label or follows one pointer.                                           *)
(***************************************************************************)
EXTENDS Integers, Sequences, SequencesExt

CONSTANTS
    Quarter,      \* 64: a label is shorter, a pointer is at least three times that
    Message,      \* messages that may arrive: see MessageAssumption
    Asked,        \* the name the query asked for, as text
    QType,        \* the record type it asked for
    Cname,        \* _TYPE_CNAME
    Internet,     \* _CLASS_IN
    AddressSize,  \* octets of an address of the type asked for
    Dot,          \* the octet of a dot in text
    Capital,      \* an octet that lower() changes,
    Small,        \* and what it changes it to
    MaxName,      \* 255: _MAX_NAME_BYTES
    MaxJumps      \* 64: _MAX_JUMPS

Octet == 0..(4 * Quarter - 1)

ASSUME SizeAssumption ==
    /\ {Quarter, MaxName, MaxJumps, AddressSize} \subseteq Nat \ {0}
    /\ {QType, Cname, Internet, Dot, Capital, Small} \subseteq Octet
    /\ QType # Cname /\ Asked \in Seq(Octet)

\* ours: the id is the one sent.  The rest of the header is as it says.
ASSUME MessageAssumption ==
    Message \subseteq
        [ours : BOOLEAN, response : BOOLEAN, truncated : BOOLEAN,
         rcode : {"NOERROR", "NXDOMAIN", "SERVFAIL"}, questions : Nat, answers : Nat,
         octets : Seq(Octet)]

HeaderSize == 1
QuestionSize == 2   \* type and class, after the name
RecordSize == 3     \* type, class and length of the data, after the name

VARIABLES
    message,    \* the message being read
    stage,      \* "received", "name", what a decoded name was, "records" or "done"
    reading,    \* whose name is decoded: of the "question", an "owner" or a "target"
    start,      \* where that name starts
    offset,     \* where reading is
    labels,     \* the labels decoded so far
    total,      \* octets they took
    jumps,      \* pointers followed for this name
    after,      \* where the name ends in its original position, once known
    left,       \* records the header claims and that are not read yet
    data,       \* of the record being read: [owner, type, class, at, end]
    accepted,   \* names an accepted CNAME pointed at, and the name asked for
    records,    \* the records read, in order: [owner, type, class, target]
    taken,      \* indices of those whose address is in the answer
    outcome     \* what _parse returned or raised

name == <<reading, start, labels, total, jumps, after>>
vars == <<message, stage, name, offset, left, data, accepted, records, taken, outcome>>

Unknown == -1

NoData == [owner |-> << >>, type |-> 0, class |-> 0, at |-> 0, end |-> 0]

-----------------------------------------------------------------------------
(* Octets and text.                                                        *)

Size == Len(message.octets)

At(o) == message.octets[o + 1]

Slice(o, n) == SubSeq(message.octets, o + 1, o + n)

IsPointer(octet) == octet >= 3 * Quarter
IsReserved(octet) == octet >= Quarter /\ octet < 3 * Quarter

IsAsciiText(octets) == \A i \in DOMAIN octets : octets[i] < 2 * Quarter

Lower(text) == [i \in DOMAIN text |-> IF text[i] = Capital THEN Small ELSE text[i]]

\* ".".join(labels)
Join(parts) ==
    IF parts = << >> THEN << >>
    ELSE FoldLeft(LAMBDA text, label : text \o <<Dot>> \o label, parts[1], Tail(parts))

Name == Lower(Join(labels))

-----------------------------------------------------------------------------
(* The message arrives.                                                    *)

Init ==
    /\ message \in Message
    /\ stage = "received" /\ reading = "question"
    /\ start = 0 /\ offset = 0 /\ labels = << >> /\ total = 0 /\ jumps = 0 /\ after = Unknown
    /\ left = 0 /\ data = NoData /\ accepted = {} /\ records = << >> /\ taken = {}
    /\ outcome = "none"

Finish(how) ==
    /\ stage' = "done"
    /\ outcome' = how

\* _decode_name is called.
Decode(whose, at) ==
    /\ stage' = "name"
    /\ reading' = whose /\ start' = at /\ offset' = at
    /\ labels' = << >> /\ total' = 0 /\ jumps' = 0 /\ after' = Unknown
    /\ UNCHANGED outcome

\* The header, and the question count that _check_question starts with.
ReadHeader ==
    /\ stage = "received"
    /\ \/ /\ Size < HeaderSize
          /\ Finish("Malformed") /\ UNCHANGED <<name, offset>>
       \/ /\ Size >= HeaderSize
          /\ ~message.ours \/ ~message.response \/ message.questions # 1
          /\ Finish("WrongQuestion") /\ UNCHANGED <<name, offset>>
       \/ /\ Size >= HeaderSize
          /\ message.ours /\ message.response /\ message.questions = 1
          /\ Decode("question", HeaderSize)
    /\ UNCHANGED <<message, left, data, accepted, records, taken>>

-----------------------------------------------------------------------------
(* _decode_name.                                                           *)

\* Fault: a pointer that leads to a pointer is not counted again.
FaultJumped(n) == IF n = 0 THEN 1 ELSE n

Jumped(n) == n + 1

\* Fault: the name ends behind the last pointer followed.
FaultEndsAfter(o) == o + 2

\* Where the name ends in its original position, when a pointer is met at o.
EndsAfter(o) == IF after = Unknown THEN o + 2 ELSE after

Target == (At(offset) - 3 * Quarter) * 4 * Quarter + At(offset + 1)

PointerReadable == offset + 1 < Size /\ jumps < MaxJumps /\ Target < Size

FollowPointer ==
    /\ stage = "name" /\ offset < Size
    /\ IsPointer(At(offset)) /\ PointerReadable
    /\ offset' = Target
    /\ after' = EndsAfter(offset)
    /\ jumps' = Jumped(jumps)
    /\ UNCHANGED <<message, stage, reading, start, labels, total, left, data, accepted,
                   records, taken, outcome>>

LabelReadable ==
    LET length == At(offset)
    IN  /\ total + length + 1 <= MaxName
        /\ offset + 1 + length <= Size
        /\ IsAsciiText(Slice(offset + 1, length))

ReadLabel ==
    /\ stage = "name" /\ offset < Size
    /\ At(offset) \in 1..(Quarter - 1) /\ LabelReadable
    /\ labels' = Append(labels, Slice(offset + 1, At(offset)))
    /\ total' = total + At(offset) + 1
    /\ offset' = offset + 1 + At(offset)
    /\ UNCHANGED <<message, stage, reading, start, jumps, after, left, data, accepted,
                   records, taken, outcome>>

\* Reading goes on just past the name in its original position.
EndOfName ==
    /\ stage = "name" /\ offset < Size
    /\ At(offset) = 0
    /\ offset' = IF after = Unknown THEN offset + 1 ELSE after
    /\ stage' = reading
    /\ UNCHANGED <<message, name, left, data, accepted, records, taken, outcome>>

NameMalformed ==
    /\ stage = "name"
    /\ \/ offset >= Size
       \/ /\ offset < Size
          /\ \/ IsPointer(At(offset)) /\ ~PointerReadable
             \/ IsReserved(At(offset))
             \/ At(offset) \in 1..(Quarter - 1) /\ ~LabelReadable
    /\ Finish("Malformed")
    /\ UNCHANGED <<message, name, offset, left, data, accepted, records, taken>>

-----------------------------------------------------------------------------
(* The question.                                                           *)

SameQuestion ==
    /\ Name = Lower(Asked)
    /\ At(offset) = QType /\ At(offset + 1) = Internet

CheckQuestion ==
    /\ stage = "question"
    /\ \/ /\ offset + QuestionSize > Size
          /\ Finish("Malformed") /\ UNCHANGED <<offset, left, accepted>>
       \/ /\ offset + QuestionSize <= Size /\ ~SameQuestion
          /\ Finish("WrongQuestion") /\ UNCHANGED <<offset, left, accepted>>
       \/ /\ offset + QuestionSize <= Size /\ SameQuestion
          /\ message.rcode # "NOERROR"
          /\ Finish(IF message.rcode = "NXDOMAIN" THEN "answer" ELSE "ServerFailure")
          /\ UNCHANGED <<offset, left, accepted>>
       \/ /\ offset + QuestionSize <= Size /\ SameQuestion
          /\ message.rcode = "NOERROR"
          /\ stage' = "records"
          /\ offset' = offset + QuestionSize
          /\ left' = message.answers
          /\ accepted' = {Lower(Asked)}
          /\ UNCHANGED outcome
    /\ UNCHANGED <<message, name, data, records, taken>>

-----------------------------------------------------------------------------
(* The answer section.                                                     *)

\* All records are read before TC is acted on.
NextRecord ==
    /\ stage = "records"
    /\ \/ /\ left = 0
          /\ Finish(IF message.truncated THEN "truncated" ELSE "answer")
          /\ UNCHANGED <<name, offset, left>>
       \/ /\ left > 0
          /\ left' = left - 1
          /\ Decode("owner", offset)
    /\ UNCHANGED <<message, data, accepted, records, taken>>

\* The fixed part and the data, which has to be all there.
RecordReadable ==
    /\ offset + RecordSize <= Size
    /\ offset + RecordSize + At(offset + 2) <= Size

RecordMalformed ==
    /\ stage = "owner" /\ ~RecordReadable
    /\ Finish("Malformed")
    /\ UNCHANGED <<message, name, offset, left, data, accepted, records, taken>>

ReadRecord ==
    /\ stage = "owner" /\ RecordReadable
    /\ data' = [owner |-> Name, type |-> At(offset), class |-> At(offset + 1),
                at |-> offset + RecordSize, end |-> offset + RecordSize + At(offset + 2)]
    /\ offset' = offset + RecordSize + At(offset + 2)
    /\ stage' = "record"
    /\ UNCHANGED <<message, name, left, accepted, records, taken, outcome>>

\* Fault: a name that appeared anywhere in the section will do.
FaultRelevant(record) ==
    /\ record.class = Internet
    /\ \/ record.owner \in accepted
       \/ \E i \in 1..Len(records) : records[i].owner = record.owner

\* A record of the internet about the name asked for, or about one it is an alias of.
Relevant(record) == record.class = Internet /\ record.owner \in accepted

Log(target) ==
    records' = Append(records, [owner |-> data.owner, type |-> data.type,
                                class |-> data.class, target |-> target])

Skip ==
    /\ stage = "record"
    /\ ~Relevant(data) \/ data.type \notin {Cname, QType}
    /\ Log(<< >>)
    /\ stage' = "records"
    /\ UNCHANGED <<message, name, offset, left, data, accepted, taken, outcome>>

\* The target is decoded where the data begins, and may be as long as it likes.
Alias ==
    /\ stage = "record" /\ Relevant(data) /\ data.type = Cname
    /\ Decode("target", data.at)
    /\ UNCHANGED <<message, left, data, accepted, records, taken>>

AcceptTarget ==
    /\ stage = "target"
    /\ accepted' = accepted \cup {Name}
    /\ Log(Name)
    /\ stage' = "records" /\ offset' = data.end
    /\ UNCHANGED <<message, name, left, data, taken, outcome>>

TakeAddress ==
    /\ stage = "record" /\ Relevant(data) /\ data.type = QType
    /\ \/ /\ data.end - data.at # AddressSize
          /\ Finish("Malformed") /\ UNCHANGED <<records, taken>>
       \/ /\ data.end - data.at = AddressSize
          /\ Log(<< >>)
          /\ taken' = taken \cup {Len(records')}
          /\ stage' = "records" /\ UNCHANGED outcome
    /\ UNCHANGED <<message, name, offset, left, data, accepted>>

Step ==
    \/ ReadHeader \/ FollowPointer \/ ReadLabel \/ EndOfName \/ NameMalformed
    \/ CheckQuestion \/ NextRecord \/ RecordMalformed \/ ReadRecord
    \/ Skip \/ Alias \/ AcceptTarget \/ TakeAddress

Done == stage = "done" /\ UNCHANGED vars

Next == Step \/ Done

Spec == Init /\ [][Next]_vars

\* A function that runs, and that nothing it calls can hold up.
FairSpec == Spec /\ WF_vars(Step)

-----------------------------------------------------------------------------
(* Properties.                                                             *)

Named == stage \in {"question", "owner", "target"}

\* Where a name that starts at o ends, read without following anything.
EndFrom ==
    LET ends[o \in 0..Size] ==
            IF o >= Size THEN o
            ELSE IF IsPointer(At(o)) THEN o + 2
            ELSE IF At(o) = 0 THEN o + 1
            ELSE ends[IF o + 1 + At(o) <= Size THEN o + 1 + At(o) ELSE Size]
    IN  ends

\* What labels take of a message, each with the octet that says how long it is.
OctetsOf(parts) ==
    LET sum[n \in 0..Len(parts)] == IF n = 0 THEN 0 ELSE sum[n - 1] + Len(parts[n]) + 1
    IN  sum[Len(parts)]

\* However a name is spread over the message, reading resumes just behind where it began:
\* behind its own end marker or its first pointer, never where a pointer led.  All of its
\* labels are there in full, within the limit.
NamesInPlace ==
    Named => /\ offset = EndFrom[start]
             /\ total = OctetsOf(labels)
             /\ total <= MaxName

\* A path of aliases, in the order of the message, from the name asked for to this one.
ReachedBefore(i, owner) ==
    \/ owner = Lower(Asked)
    \/ \E path \in SUBSET {j \in 1..(i - 1) :
                             records[j].type = Cname /\ records[j].class = Internet} :
          /\ path # {}
          /\ \A j \in path :
                /\ (\A k \in path : j <= k) => records[j].owner = Lower(Asked)
                /\ (\A k \in path : j >= k) => records[j].target = owner
                /\ \A k \in path : j < k /\ (\A l \in path : l <= j \/ l >= k)
                      => records[k].owner = records[j].target

\* The addresses taken are exactly those of the class and type asked for whose owner the
\* question reaches through the aliases in front of it; one for anybody else, an alias of
\* one included, is never taken.
OnlyReachedRecords ==
    \A i \in 1..Len(records) :
        i \in taken <=> /\ records[i].class = Internet /\ records[i].type = QType
                        /\ ReachedBefore(i, records[i].owner)

\* Every message is read to an end, pointers that form a cycle included.
DecodingEnds == stage = "received" ~> stage = "done"
=============================================================================
