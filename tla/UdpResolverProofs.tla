-------------------------- MODULE UdpResolverProofs --------------------------
(***************************************************************************)
(* The safety properties of UdpResolver, for any number of servers,        *)
(* attempts and record types, any timeouts and any transaction ids.        *)
(*                                                                         *)
(* The argument: while a call is busy, its loops are where its list of     *)
(* failures says (InOrder), the query it waits for was sent in this call   *)
(* (OurQuery), no wait is set to end after the deadline (Clock) and some   *)
(* record type has no reply yet (Control).                                 *)
(***************************************************************************)
EXTENDS UdpResolver, Integers, TLAPS

Busy == pc \in {"asking", "udp", "tcpConnecting", "tcpReading"}

Control ==
    /\ pc # "done" => outcome = "none"
    /\ Busy => Len(got) < Len(asked)

Clock == now <= Deadline /\ (Waiting => ends <= Deadline)

Asking(type) == [server |-> server, txid |-> txid, type |-> type]

OurQuery == Waiting => txid \in Txid /\ Asking(Wanted) \in queries

\* The server whose turn the i-th attempt is.
Turn(i) == 1 + (i - 1) \div Attempts

\* Attempts made for this type, all of which failed.
Made == (server - 1) * Attempts + (attempt - 1)

InOrder ==
    Busy => /\ Len(failures) = Made
            /\ \A i \in 1..Len(failures) : failures[i] = Turn(i)

IInv ==
    /\ TypeOK /\ Control /\ Clock /\ OurQuery /\ InOrder
    /\ AnswersAreWhole /\ OnlyAnswersToOurQuestions /\ GivesUpHonestly

-----------------------------------------------------------------------------
(* Arithmetic of the two loops.                                            *)

LEMMA ConstantTypes ==
    /\ Servers \in Nat /\ Servers > 0 /\ Attempts \in Nat /\ Attempts > 0
    /\ Timeout \in Nat /\ Timeout > 0 /\ AttemptTimeout \in Nat /\ AttemptTimeout > 0
    /\ MaxChunks \in Nat /\ MaxChunks > 0
BY ResolverAssumption

LEMMA FamiliesTyped == Families \in Seq(Types) /\ Len(Families) > 0
<1>1. Families \in Seq(Types) /\ Families # << >>
  BY ResolverAssumption
<1> QED
  BY <1>1

\* The quotient of s whole rounds and a part of one.
LEMMA WholeRounds ==
    ASSUME NEW a \in Nat, a > 0, NEW s \in Nat, NEW r \in 0..(a - 1)
    PROVE  (s * a + r) \div a = s
<1> DEFINE q == (s * a + r) \div a
<1>1. s * a \in Nat
  BY SMT
<1>2. q \in Int /\ \E m \in 0..(a - 1) : s * a + r = a * q + m
  BY <1>1, SMT
<1> QED
  BY <1>1, <1>2, SMT

\* Another round of one server is one more of the product.
LEMMA RoundMore ==
    ASSUME NEW a \in Nat, NEW s \in Nat
    PROVE  (s - 1) * a + a = s * a /\ s * a \in Nat
BY SMT

\* The attempt after so many that failed is the turn of the server being asked.
LEMMA TurnOfServer ==
    ASSUME TypeOK
    PROVE  Made \in Nat /\ Turn(Made + 1) = server
<1>0. /\ Attempts \in Nat /\ Attempts > 0 /\ server \in Nat /\ server > 0
      /\ attempt - 1 \in 0..(Attempts - 1)
  BY ConstantTypes DEF TypeOK
<1>1. ((server - 1) * Attempts + (attempt - 1)) \div Attempts = server - 1
  <2>1. server - 1 \in Nat
    BY <1>0
  <2> QED
    BY <1>0, <2>1, WholeRounds
<1>2. (server - 1) * Attempts \in Nat
  <2>1. server - 1 \in Nat
    BY <1>0
  <2>2. (server - 1) * Attempts = (server - 1 - 1) * Attempts + Attempts
        /\ (server - 1) * Attempts \in Nat
    BY <1>0, <2>1, RoundMore
  <2> QED
    BY <2>2
<1>3. Made \in Nat /\ Made + 1 - 1 = Made
  BY <1>0, <1>2 DEF Made
<1> QED
  BY <1>0, <1>1, <1>3 DEF Made, Turn

LEMMA InitHolds == Init => IInv
<1> SUFFICES ASSUME Init PROVE IInv
  OBVIOUS
<1>1. TypeOK
  <2>1. asked \in Seq(Types)
    BY FamiliesTyped DEF Init
  <2> QED
    BY <2>1, ConstantTypes DEF Init, TypeOK
<1>2. pc = "idle" /\ outcome = "none" /\ got = << >> /\ now = 0
  BY DEF Init
<1>3. Control /\ OurQuery /\ InOrder
  BY <1>2 DEF Control, OurQuery, InOrder, Busy, Waiting
<1>4. Clock
  BY <1>2, ConstantTypes DEF Clock, Waiting, Deadline
<1>5. AnswersAreWhole /\ OnlyAnswersToOurQuestions /\ GivesUpHonestly
  BY <1>2 DEF AnswersAreWhole, OnlyAnswersToOurQuestions, GivesUpHonestly
<1> QED
  BY <1>1, <1>3, <1>4, <1>5 DEF IInv

\* A call that begins: nothing asked, nothing taken.
LEMMA CallKeeps ==
    ASSUME IInv, Call
    PROVE  IInv'
<1>1. PICK method \in {"__call__", "records"},
           types \in {Families} \cup {<<t>> : t \in Types} : Begin(method, types)
  BY DEF Call
<1>2. types \in Seq(Types) /\ Len(types) > 0
  <2>1. CASE types = Families
    BY <2>1, FamiliesTyped
  <2>2. CASE types # Families
    <3>1. PICK t \in Types : types = <<t>>
      BY <2>2
    <3>2. <<t>> \in Seq(Types) /\ Len(<<t>>) = 1
      OBVIOUS
    <3> QED
      BY <3>1, <3>2
  <2> QED
    BY <2>1, <2>2
<1>3. /\ pc' = "asking" /\ outcome' = "none" /\ entry' = method /\ asked' = types
      /\ now' = 0 /\ server' = 1 /\ attempt' = 1 /\ failures' = << >> /\ queries' = {}
      /\ txid' = Guess /\ ends' = 0 /\ unread' = 0 /\ got' = << >>
  BY <1>1 DEF Call, Begin
<1>4. TypeOK'
  BY <1>2, <1>3, ConstantTypes DEF TypeOK
<1>5. Control' /\ OurQuery'
  BY <1>2, <1>3 DEF Control, OurQuery, Busy, Waiting
<1>6. InOrder'
  <2>1. Made' = 0 /\ Len(failures') = 0
    BY <1>3, ConstantTypes DEF Made
  <2> QED
    BY <1>3, <2>1 DEF InOrder
<1>7. Clock'
  BY <1>3, ConstantTypes DEF Clock, Waiting, Deadline
<1>8. AnswersAreWhole' /\ OnlyAnswersToOurQuestions' /\ GivesUpHonestly'
  BY <1>3 DEF AnswersAreWhole, OnlyAnswersToOurQuestions, GivesUpHonestly
<1> QED
  BY <1>4, <1>5, <1>6, <1>7, <1>8 DEF IInv

LEMMA LocalAnswerKeeps ==
    ASSUME IInv, CallAnsweredLocally
    PROVE  IInv'
<1>1. PICK method \in {"__call__", "records"} : Begin(method, << >>)
  BY DEF CallAnsweredLocally
<1>2. /\ pc' = "done" /\ outcome' \in {"rows", "EAI_NONAME"} /\ entry' = method
      /\ asked' = << >> /\ now' = 0 /\ server' = 1 /\ attempt' = 1 /\ failures' = << >>
      /\ queries' = {} /\ txid' = Guess /\ ends' = 0 /\ unread' = 0 /\ got' = << >>
  BY <1>1 DEF CallAnsweredLocally, Begin, Finish
<1>3. TypeOK'
  BY <1>2, ConstantTypes DEF TypeOK
<1>4. Control' /\ OurQuery' /\ InOrder'
  BY <1>2 DEF Control, OurQuery, InOrder, Busy, Waiting
<1>5. Clock'
  BY <1>2, ConstantTypes DEF Clock, Waiting, Deadline
<1>6. AnswersAreWhole' /\ OnlyAnswersToOurQuestions' /\ GivesUpHonestly'
  BY <1>2 DEF AnswersAreWhole, OnlyAnswersToOurQuestions, GivesUpHonestly
<1> QED
  BY <1>3, <1>4, <1>5, <1>6 DEF IInv

-----------------------------------------------------------------------------
(* The attempts.                                                           *)

LEMMA StartAttemptKeeps ==
    ASSUME IInv, StartAttempt
    PROVE  IInv'
<1>0. TypeOK /\ Control /\ Clock /\ InOrder /\ OnlyAnswersToOurQuestions
  BY DEF IInv
<1>1. /\ pc = "asking" /\ pc' = "udp" /\ now < Deadline /\ txid' \in Txid
      /\ queries' = queries \cup
             {[server |-> server, txid |-> txid', type |-> asked[Len(got) + 1]]}
      /\ ends' = Sooner(Deadline, now + AttemptTimeout)
      /\ UNCHANGED <<entry, asked, now, server, attempt, failures, unread, got, outcome>>
  BY DEF StartAttempt, Wanted
<1>2. Len(got) + 1 \in 1..Len(asked) /\ asked[Len(got) + 1] \in Types
  BY <1>0, <1>1 DEF TypeOK, Control, Busy
<1>3. ends' \in Nat /\ ends' <= Deadline
  BY <1>0, <1>1, ConstantTypes DEF TypeOK, Sooner, Deadline
<1>4. TypeOK'
  BY <1>0, <1>1, <1>2, <1>3 DEF TypeOK, Query
<1>5. Control' /\ Clock'
  BY <1>0, <1>1, <1>3 DEF Control, Clock, Busy, Deadline
<1>6. OurQuery'
  BY <1>1 DEF OurQuery, Asking, Wanted
<1>7. InOrder'
  BY <1>0, <1>1 DEF InOrder, Busy, Made, Turn
<1>8. outcome' = "none"
  BY <1>0, <1>1 DEF Control
<1>9. AnswersAreWhole' /\ GivesUpHonestly'
  BY <1>8 DEF AnswersAreWhole, GivesUpHonestly
<1>10. OnlyAnswersToOurQuestions'
  BY <1>0, <1>1 DEF OnlyAnswersToOurQuestions
<1> QED
  BY <1>4, <1>5, <1>6, <1>7, <1>9, <1>10 DEF IInv

LEMMA DeadlinePassedKeeps ==
    ASSUME IInv, DeadlinePassed
    PROVE  IInv'
<1>0. TypeOK /\ Clock /\ OnlyAnswersToOurQuestions
  BY DEF IInv
<1>1. /\ pc' = "done" /\ outcome' = "EAI_AGAIN" /\ now >= Deadline
      /\ UNCHANGED <<entry, asked, now, server, attempt, failures, queries, txid, ends,
                     unread, got>>
  BY DEF DeadlinePassed, Finish
<1>2. TypeOK'
  BY <1>0, <1>1 DEF TypeOK
<1>3. Control' /\ OurQuery' /\ InOrder' /\ Clock'
  BY <1>0, <1>1 DEF Control, OurQuery, InOrder, Clock, Busy, Waiting, Deadline
<1>4. AnswersAreWhole' /\ GivesUpHonestly'
  BY <1>1 DEF AnswersAreWhole, GivesUpHonestly, Deadline
<1>5. OnlyAnswersToOurQuestions'
  BY <1>0, <1>1 DEF OnlyAnswersToOurQuestions
<1> QED
  BY <1>2, <1>3, <1>4, <1>5 DEF IInv

\* The list of failures after one more.
LEMMA OneMoreFailure ==
    ASSUME IInv, Busy, failures' = Append(failures, server)
    PROVE  /\ failures' \in Seq(1..Servers)
           /\ Len(failures') = Made + 1
           /\ \A i \in 1..Len(failures') : failures'[i] = Turn(i)
<1>0. TypeOK /\ InOrder
  BY DEF IInv
<1>1. Made \in Nat /\ Turn(Made + 1) = server
  BY <1>0, TurnOfServer
<1>2. failures \in Seq(1..Servers) /\ server \in 1..Servers
  BY <1>0 DEF TypeOK
<1>3. Len(failures) = Made /\ \A i \in 1..Len(failures) : failures[i] = Turn(i)
  BY <1>0 DEF InOrder
<1>4. /\ failures' \in Seq(1..Servers) /\ Len(failures') = Len(failures) + 1
      /\ failures'[Len(failures) + 1] = server
      /\ \A i \in 1..Len(failures) : failures'[i] = failures[i]
  BY <1>2
<1>5. ASSUME NEW i \in 1..Len(failures') PROVE failures'[i] = Turn(i)
  <2>1. CASE i = Made + 1
    BY <1>1, <1>3, <1>4, <2>1
  <2>2. CASE i # Made + 1
    <3>1. i \in 1..Len(failures)
      BY <1>1, <1>3, <1>4, <2>2
    <3> QED
      BY <1>3, <1>4, <3>1
  <2> QED
    BY <2>1, <2>2
<1> QED
  BY <1>3, <1>4, <1>5

LEMMA AttemptFailedKeeps ==
    ASSUME IInv, Busy, AttemptFailed
    PROVE  IInv'
<1>0. TypeOK /\ Control /\ Clock /\ OnlyAnswersToOurQuestions
  BY DEF IInv
<1>1. /\ failures' = Append(failures, server)
      /\ UNCHANGED <<entry, asked, now, queries, txid, ends, unread, got>>
  BY DEF AttemptFailed
<1>2. /\ failures' \in Seq(1..Servers)
      /\ Len(failures') = Made + 1
      /\ \A i \in 1..Len(failures') : failures'[i] = Turn(i)
  BY <1>1, OneMoreFailure
<1>3. OnlyAnswersToOurQuestions'
  BY <1>0, <1>1 DEF OnlyAnswersToOurQuestions
<1>4. /\ server \in 1..Servers /\ attempt \in 1..Attempts /\ Made \in Nat
      /\ Attempts \in Nat /\ Attempts > 0 /\ Servers \in Nat
  BY <1>0, TurnOfServer, ConstantTypes DEF TypeOK
<1>5. (server - 1) * Attempts + Attempts = server * Attempts
      /\ server * Attempts \in Nat
  BY <1>4, RoundMore
<1>6. CASE pc' = "asking" /\ UNCHANGED outcome
           /\ server' \in 1..Servers /\ attempt' \in 1..Attempts /\ Made' = Made + 1
  <2>1. TypeOK'
    BY <1>0, <1>1, <1>2, <1>6 DEF TypeOK
  <2>2. Control' /\ OurQuery' /\ Clock'
    BY <1>0, <1>1, <1>6 DEF Control, OurQuery, Clock, Waiting, Busy, Deadline
  <2>3. InOrder'
    BY <1>2, <1>6 DEF InOrder, Turn
  <2>4. outcome' = "none"
    BY <1>0, <1>6 DEF Control, Busy
  <2>5. AnswersAreWhole' /\ GivesUpHonestly'
    BY <2>4 DEF AnswersAreWhole, GivesUpHonestly
  <2> QED
    BY <1>3, <2>1, <2>2, <2>3, <2>5 DEF IInv
<1>7. CASE attempt < Attempts /\ pc' = "asking" /\ attempt' = attempt + 1
           /\ UNCHANGED <<server, outcome>>
  <2>1. Made' = Made + 1
    <3>1. (server - 1) * Attempts \in Int
      BY <1>4
    <3> QED
      BY <1>4, <1>7, <3>1 DEF Made
  <2> QED
    BY <1>4, <1>6, <1>7, <2>1
<1>8. CASE attempt = Attempts /\ server < Servers /\ pc' = "asking"
           /\ server' = server + 1 /\ attempt' = 1 /\ UNCHANGED outcome
  <2>1. Made' = Made + 1
    <3>1. Made' = server * Attempts
      BY <1>4, <1>5, <1>8 DEF Made
    <3>2. (server - 1) * Attempts \in Int
      BY <1>4
    <3> QED
      BY <1>4, <1>5, <1>8, <3>1, <3>2 DEF Made
  <2> QED
    BY <1>4, <1>6, <1>8, <2>1
<1>9. CASE attempt = Attempts /\ server = Servers /\ Finish("EAI_AGAIN")
           /\ UNCHANGED <<server, attempt>>
  <2>1. pc' = "done" /\ outcome' = "EAI_AGAIN"
    BY <1>9 DEF Finish
  <2>2. TypeOK'
    BY <1>0, <1>1, <1>2, <1>9, <2>1 DEF TypeOK
  <2>3. Control' /\ OurQuery' /\ InOrder' /\ Clock'
    BY <1>0, <1>1, <2>1 DEF Control, OurQuery, InOrder, Clock, Busy, Waiting, Deadline
  <2>4. AnswersAreWhole'
    BY <2>1 DEF AnswersAreWhole
  <2>5. Len(failures') = Servers * Attempts
    <3>1. (server - 1) * Attempts \in Int
      BY <1>4
    <3>2. Made + 1 = server * Attempts
      BY <1>4, <1>5, <1>9, <3>1 DEF Made
    <3> QED
      BY <1>2, <1>9, <3>2
  <2>6. failures' = Schedule
    <3>1. failures' = [i \in 1..Len(failures') |-> failures'[i]]
      BY <1>2
    <3>2. Schedule = [i \in 1..Len(failures') |-> Turn(i)]
      BY <2>5 DEF Schedule, Turn
    <3> QED
      BY <1>2, <3>1, <3>2
  <2>7. GivesUpHonestly'
    BY <2>6 DEF GivesUpHonestly, Schedule
  <2> QED
    BY <1>3, <2>2, <2>3, <2>4, <2>7 DEF IInv
<1> QED
  BY <1>7, <1>8, <1>9 DEF AttemptFailed

-----------------------------------------------------------------------------
(* What arrives.                                                           *)

\* A reply that is taken: by a busy call, from the server and for the query it waits for.
LEMMA TakenKeeps ==
    ASSUME IInv, Busy, NEW reply \in Reply, Taken(reply), reply.genuine,
           reply.type = Wanted,
           [server |-> reply.server, txid |-> reply.txid, type |-> reply.type] \in queries
    PROVE  IInv'
<1>0. TypeOK /\ Control /\ Clock /\ OnlyAnswersToOurQuestions
  BY DEF IInv
<1>1. /\ got' = Append(got, reply) /\ server' = 1 /\ attempt' = 1 /\ failures' = << >>
      /\ UNCHANGED <<entry, asked, now, queries, txid, ends, unread>>
  BY DEF Taken
<1>2. /\ got \in Seq(Reply) /\ asked \in Seq(Types) /\ Len(got) < Len(asked)
      /\ outcome = "none"
  BY <1>0 DEF TypeOK, Control, Busy
<1>3. /\ got' \in Seq(Reply) /\ Len(got') = Len(got) + 1 /\ got'[Len(got) + 1] = reply
      /\ \A i \in 1..Len(got) : got'[i] = got[i]
  BY <1>1, <1>2
<1>4. \/ pc' = "asking" /\ Len(got') < Len(asked) /\ outcome' = "none"
      \/ /\ pc' = "done" /\ Len(got') = Len(asked) /\ outcome' \in {"rows", "EAI_NONAME"}
  BY <1>2 DEF Taken, Finish
<1>5. TypeOK'
  <2>1. Len(got') <= Len(asked)
    BY <1>2, <1>3
  <2> QED
    BY <1>0, <1>1, <1>3, <1>4, <2>1, ConstantTypes DEF TypeOK
<1>6. Control' /\ OurQuery' /\ Clock'
  BY <1>0, <1>1, <1>4 DEF Control, OurQuery, Clock, Busy, Waiting, Deadline
<1>7. InOrder'
  <2>1. Made' = 0 /\ Len(failures') = 0
    BY <1>1, ConstantTypes DEF Made
  <2> QED
    BY <1>1, <2>1 DEF InOrder
<1>8. AnswersAreWhole' /\ GivesUpHonestly'
  BY <1>1, <1>4 DEF AnswersAreWhole, GivesUpHonestly
<1>9. OnlyAnswersToOurQuestions'
  <2> SUFFICES ASSUME NEW i \in 1..Len(got')
               PROVE  /\ got'[i].genuine /\ got'[i].type = asked[i]
                      /\ [server |-> got'[i].server, txid |-> got'[i].txid,
                          type |-> got'[i].type] \in queries
    BY <1>1 DEF OnlyAnswersToOurQuestions
  <2>1. CASE i = Len(got) + 1
    BY <1>3, <2>1 DEF Wanted
  <2>2. CASE i # Len(got) + 1
    <3>1. i \in 1..Len(got)
      BY <1>2, <1>3, <2>2
    <3> QED
      BY <1>0, <1>3, <3>1 DEF OnlyAnswersToOurQuestions
  <2> QED
    BY <2>1, <2>2
<1> QED
  BY <1>5, <1>6, <1>7, <1>8, <1>9 DEF IInv

LEMMA UdpAnswersKeeps ==
    ASSUME IInv, UdpAnswers
    PROVE  IInv'
<1>1. PICK reply \in Arriving : ~WrongQuestion(reply) /\ Taken(reply)
  BY DEF UdpAnswers
<1>2. pc = "udp"
  BY DEF UdpAnswers, Receiving
<1>3. txid \in Txid
  BY <1>2 DEF IInv, OurQuery, Waiting
<1>4. reply.txid = txid /\ reply.type = Wanted
  BY <1>1 DEF WrongQuestion
<1>5. reply.genuine
  BY <1>1, <1>3, <1>4, ResolverAssumption DEF Arriving
<1>6. /\ reply \in Reply
      /\ [server |-> reply.server, txid |-> reply.txid, type |-> reply.type] \in queries
  BY <1>1, <1>5 DEF Arriving
<1> QED
  BY <1>1, <1>2, <1>4, <1>5, <1>6, TakenKeeps DEF Busy

LEMMA TcpAnswersKeeps ==
    ASSUME IInv, TcpAnswers
    PROVE  IInv'
<1>0. TypeOK /\ OurQuery /\ Control
  BY DEF IInv
<1>1. pc = "tcpReading"
  BY DEF TcpAnswers, ReplyRead
<1>2. PICK kind \in {"records", "none"} :
          Taken([server |-> server, txid |-> txid, type |-> Wanted, kind |-> kind,
                 genuine |-> TRUE])
  BY DEF TcpAnswers
<1> DEFINE reply == [server |-> server, txid |-> txid, type |-> Wanted, kind |-> kind,
                     genuine |-> TRUE]
<1>3. Asking(Wanted) \in queries /\ txid \in Txid
  BY <1>0, <1>1 DEF OurQuery, Waiting
<1>4. Wanted \in Types
  BY <1>0, <1>1 DEF TypeOK, Control, Busy, Wanted
<1>5. reply \in Reply
  BY <1>0, <1>3, <1>4 DEF TypeOK, Reply
<1>6. [server |-> reply.server, txid |-> reply.txid, type |-> reply.type] \in queries
  BY <1>3 DEF Asking
<1> QED
  BY <1>1, <1>2, <1>5, <1>6, TakenKeeps DEF Busy

LEMMA UdpTruncatedKeeps ==
    ASSUME IInv, UdpTruncated
    PROVE  IInv'
<1>0. TypeOK /\ Control /\ Clock /\ OurQuery /\ InOrder /\ OnlyAnswersToOurQuestions
  BY DEF IInv
<1>1. /\ pc = "udp" /\ pc' = "tcpConnecting"
      /\ ends' = Sooner(Deadline, now + AttemptTimeout)
      /\ UNCHANGED <<entry, asked, now, server, attempt, failures, queries, txid, unread,
                     got, outcome>>
  BY DEF UdpTruncated, Receiving
<1>2. ends' \in Nat /\ ends' <= Deadline
  BY <1>0, <1>1, ConstantTypes DEF TypeOK, Sooner, Deadline
<1>3. TypeOK'
  BY <1>0, <1>1, <1>2 DEF TypeOK
<1>4. Control' /\ Clock'
  BY <1>0, <1>1, <1>2 DEF Control, Clock, Busy, Deadline
<1>5. OurQuery'
  BY <1>0, <1>1 DEF OurQuery, Asking, Wanted, Waiting
<1>6. InOrder'
  BY <1>0, <1>1 DEF InOrder, Busy, Made, Turn
<1>7. outcome' = "none"
  BY <1>0, <1>1 DEF Control
<1>8. AnswersAreWhole' /\ GivesUpHonestly'
  BY <1>7 DEF AnswersAreWhole, GivesUpHonestly
<1>9. OnlyAnswersToOurQuestions'
  BY <1>0, <1>1 DEF OnlyAnswersToOurQuestions
<1> QED
  BY <1>3, <1>4, <1>5, <1>6, <1>8, <1>9 DEF IInv

\* A wait goes on: only the clock, the time it ends, and what is left to read change.
LEMMA WaitGoesOn ==
    ASSUME IInv, Waiting, Waiting', ends' \in Nat, ends' <= Deadline, unread' \in 0..MaxChunks,
           now' \in Nat, now' <= Deadline,
           UNCHANGED <<entry, asked, server, attempt, failures, queries, txid, got, outcome>>
    PROVE  IInv'
<1>0. TypeOK /\ Control /\ OurQuery /\ InOrder /\ OnlyAnswersToOurQuestions
  BY DEF IInv
<1>1. Busy /\ Busy' /\ pc # "done" /\ pc' # "done"
  BY DEF Busy, Waiting
<1>2. TypeOK'
  BY <1>0 DEF TypeOK, Waiting
<1>3. Control' /\ Clock'
  BY <1>0, <1>1 DEF Control, Clock, Deadline
<1>4. OurQuery'
  BY <1>0 DEF OurQuery, Asking, Wanted
<1>5. InOrder'
  BY <1>0, <1>1 DEF InOrder, Made, Turn
<1>6. outcome' = "none"
  BY <1>0, <1>1 DEF Control
<1>7. AnswersAreWhole' /\ GivesUpHonestly'
  BY <1>6 DEF AnswersAreWhole, GivesUpHonestly
<1>8. OnlyAnswersToOurQuestions'
  BY <1>0 DEF OnlyAnswersToOurQuestions
<1> QED
  BY <1>2, <1>3, <1>4, <1>5, <1>7, <1>8 DEF IInv

LEMMA TcpConnectedKeeps ==
    ASSUME IInv, TcpConnected
    PROVE  IInv'
<1>0. TypeOK /\ Clock
  BY DEF IInv
<1>1. Waiting /\ Waiting'
  BY DEF TcpConnected, Waiting
<1>2. ends' \in Nat /\ ends' <= Deadline /\ unread' \in 0..MaxChunks
  BY ConstantTypes DEF TcpConnected, Deadline
<1>3. now' = now /\ now' \in Nat /\ now' <= Deadline
  BY <1>0 DEF TcpConnected, TypeOK, Clock
<1> QED
  BY <1>1, <1>2, <1>3, WaitGoesOn DEF TcpConnected

LEMMA TcpChunkKeeps ==
    ASSUME IInv, TcpChunk
    PROVE  IInv'
<1>0. TypeOK /\ Clock
  BY DEF IInv
<1>1. Waiting /\ Waiting'
  BY DEF TcpChunk, Waiting
<1>2. ends' = ends /\ now' = now /\ unread > 1 /\ unread' = unread - 1
  BY DEF TcpChunk
<1>3. ends' \in Nat /\ ends' <= Deadline /\ unread' \in 0..MaxChunks
  BY <1>0, <1>1, <1>2, ConstantTypes DEF TypeOK, Clock
<1>4. now' \in Nat /\ now' <= Deadline
  BY <1>0, <1>2 DEF TypeOK, Clock
<1> QED
  BY <1>1, <1>3, <1>4, WaitGoesOn DEF TcpChunk

LEMMA TickKeeps ==
    ASSUME IInv, Tick
    PROVE  IInv'
<1>0. TypeOK /\ Clock
  BY DEF IInv
<1>1. Waiting /\ Waiting'
  BY DEF Tick, Waiting
<1>2. ends' = ends /\ unread' = unread /\ now < ends /\ now' = now + 1
  BY DEF Tick
<1>3. ends' \in Nat /\ ends' <= Deadline /\ unread' \in 0..MaxChunks
  BY <1>0, <1>1, <1>2 DEF TypeOK, Clock
<1>4. now' \in Nat /\ now' <= Deadline
  BY <1>0, <1>1, <1>2, ConstantTypes DEF TypeOK, Clock, Deadline
<1> QED
  BY <1>1, <1>3, <1>4, WaitGoesOn DEF Tick

LEMMA AnotherQuestionKeeps ==
    ASSUME IInv, TcpAnswersAnotherQuestion
    PROVE  IInv'
<1>0. TypeOK /\ Clock /\ OnlyAnswersToOurQuestions
  BY DEF IInv
<1>1. /\ pc' = "done" /\ outcome' = "_WrongQuestionError"
      /\ UNCHANGED <<entry, asked, now, server, attempt, failures, queries, txid, ends,
                     unread, got>>
  BY DEF TcpAnswersAnotherQuestion, Finish
<1>2. TypeOK'
  BY <1>0, <1>1 DEF TypeOK
<1>3. Control' /\ OurQuery' /\ InOrder' /\ Clock'
  BY <1>0, <1>1 DEF Control, OurQuery, InOrder, Clock, Busy, Waiting, Deadline
<1>4. AnswersAreWhole' /\ GivesUpHonestly'
  BY <1>1 DEF AnswersAreWhole, GivesUpHonestly
<1>5. OnlyAnswersToOurQuestions'
  BY <1>0, <1>1 DEF OnlyAnswersToOurQuestions
<1> QED
  BY <1>2, <1>3, <1>4, <1>5 DEF IInv

LEMMA StutterKeeps ==
    ASSUME IInv, UNCHANGED vars
    PROVE  IInv'
<1>1. TypeOK' /\ Control' /\ Clock' /\ OurQuery'
  BY DEF IInv, vars, TypeOK, Control, Clock, OurQuery, Busy, Waiting, Asking, Wanted, Deadline
<1>2. InOrder'
  BY DEF IInv, vars, InOrder, Busy, Made, Turn
<1>3. AnswersAreWhole' /\ OnlyAnswersToOurQuestions' /\ GivesUpHonestly'
  BY DEF IInv, vars, AnswersAreWhole, OnlyAnswersToOurQuestions, GivesUpHonestly, Deadline
<1> QED
  BY <1>1, <1>2, <1>3 DEF IInv

-----------------------------------------------------------------------------
(* The theorems.                                                           *)

LEMMA StepKeeps == IInv /\ [Next]_vars => IInv'
<1> SUFFICES ASSUME IInv, [Next]_vars PROVE IInv'
  OBVIOUS
<1>1. CASE Call
  BY <1>1, CallKeeps
<1>2. CASE CallAnsweredLocally
  BY <1>2, LocalAnswerKeeps
<1>3. CASE StartAttempt
  BY <1>3, StartAttemptKeeps
<1>4. CASE DeadlinePassed
  BY <1>4, DeadlinePassedKeeps
<1>5. CASE UdpTimesOut \/ TcpTimesOut \/ UdpFails \/ TcpFails
  <2>1. Busy /\ AttemptFailed
    BY <1>5 DEF UdpTimesOut, TcpTimesOut, UdpFails, TcpFails, Receiving, Busy
  <2> QED
    BY <2>1, AttemptFailedKeeps
<1>6. CASE Tick
  BY <1>6, TickKeeps
<1>7. CASE KeepWaiting \/ UNCHANGED vars
  BY <1>7, StutterKeeps DEF KeepWaiting
<1>8. CASE UdpAnswers
  BY <1>8, UdpAnswersKeeps
<1>9. CASE UdpTruncated
  BY <1>9, UdpTruncatedKeeps
<1>10. CASE TcpConnected
  BY <1>10, TcpConnectedKeeps
<1>11. CASE TcpChunk
  BY <1>11, TcpChunkKeeps
<1>12. CASE TcpAnswers
  BY <1>12, TcpAnswersKeeps
<1>13. CASE TcpAnswersAnotherQuestion
  BY <1>13, AnotherQuestionKeeps
<1> QED
  BY <1>1, <1>2, <1>3, <1>4, <1>5, <1>6, <1>7, <1>8, <1>9, <1>10, <1>11, <1>12, <1>13
     DEF Next, Step

\* The inductive invariant of every call.
THEOREM Invariant == Spec => []IInv
BY InitHolds, StepKeeps, PTL DEF Spec

\* The loops over servers and attempts stay inside their bounds, and no call takes more
\* replies than it asked for types.
THEOREM TypeCorrect == Spec => []TypeOK
<1>1. IInv => TypeOK
  BY DEF IInv
<1> QED
  BY Invariant, <1>1, PTL

\* For every number of servers, attempts and types and every pair of timeouts, a call of
\* __call__ or records is over by its deadline.
THEOREM InTime == Spec => []ReturnsInTime
<1>1. IInv => ReturnsInTime
  BY DEF IInv, Clock, ReturnsInTime
<1> QED
  BY Invariant, <1>1, PTL

\* A call that answers has a reply for each record type it asked for.
THEOREM WholeAnswers == Spec => []AnswersAreWhole
<1>1. IInv => AnswersAreWhole
  BY DEF IInv
<1> QED
  BY Invariant, <1>1, PTL

\* Whatever is late, repeated or forged, what is taken is a genuine reply to a query of
\* this call, for the type it is taken for; the id alone tells it from a forgery.
THEOREM OwnAnswers == Spec => []OnlyAnswersToOurQuestions
<1>1. IInv => OnlyAnswersToOurQuestions
  BY DEF IInv
<1> QED
  BY Invariant, <1>1, PTL

\* _query gives up on a type out of time or with the whole schedule behind it.
THEOREM HonestFailure == Spec => []GivesUpHonestly
<1>1. IInv => GivesUpHonestly
  BY DEF IInv
<1> QED
  BY Invariant, <1>1, PTL
=============================================================================
