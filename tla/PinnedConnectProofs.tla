------------------------- MODULE PinnedConnectProofs -------------------------
(***************************************************************************)
(* Proofs about PinnedConnect, for every set of addresses and permitted    *)
(* addresses, every cap on attempts, and answers of any length.            *)
(***************************************************************************)
EXTENDS PinnedConnect, TLAPS

-----------------------------------------------------------------------------
(* The inductive invariant, in parts.                                      *)

Choosing == {"idle", "lookup", "reading", "checking", "recheck"}
Dialling == {"opening", "connecting", "verifying"}

\* connect() has passed its check of every address.
Pinned == pc \in Dialling \/ tried # << >>

Judged(row) ==
    \E k \in 1..Len(told) :
        /\ told[k].stage = "address"
        /\ told[k].ip = row.ip
        /\ told[k].outcome = IF row.ip \in Permitted THEN "permitted" ELSE "refused"

\* The control state: what is still empty, what has not been returned.
Control ==
    /\ pc # "done" => outcome = "none" /\ refused = 0
    /\ pc = "done" => outcome # "none"
    /\ refused > 0 => outcome \in Refusals
    /\ outcome \in Refusals => refused > 0
    /\ pc \in Choosing => tried = << >>
    /\ pc = "lookup" => at = 0 /\ answers = << >>
    /\ pc \in {"lookup", "reading", "checking"} => source = "resolve"
    /\ pc \in {"idle", "lookup", "reading"} => permitted = << >> /\ denied = {}
    /\ openSockets = IF pc \in {"connecting", "verifying"} \/ outcome = "socket"
                     THEN 1 ELSE 0

\* _addresses_from: each row read so far is one of the answers, and readable.
ReadSoFar ==
    pc = "reading" =>
        /\ at <= Len(rows)
        /\ \A i \in 1..at : rows[i] # Unreadable /\ \E j \in 1..Len(answers) : answers[j] = rows[i]

\* Every answer is a row, and from the check on every row is an answer.
AnswersAreRows ==
    /\ \A j \in 1..Len(answers) : \E i \in 1..Len(rows) : rows[i] = answers[j]
    /\ pc = "checking" =>
          \A i \in 1..Len(rows) :
             rows[i] # Unreadable /\ \E j \in 1..Len(answers) : answers[j] = rows[i]

\* The loop of resolve: what has been judged, and how it was reported.
CheckedSoFar ==
    pc = "checking" =>
        /\ at <= Len(answers)
        /\ \A j \in 1..at : /\ Judged(answers[j])
                            /\ answers[j].ip \in Permitted \/ denied # {}

\* Where the argument of connect comes from.
AddressesAreRows ==
    /\ \A j \in 1..Len(permitted) : \E i \in 1..Len(rows) : rows[i] = permitted[j]
    /\ source = "resolve" => \A j \in 1..Len(permitted) : permitted[j].ip \in Permitted
    /\ source = "caller" => rows = permitted

\* What holds once connect has begun, and once it has passed its check.
ChosenOnce ==
    /\ source = "resolve" /\ (pc = "recheck" \/ Pinned) =>
          /\ permitted # << >>
          /\ \A i \in 1..Len(rows) :
                /\ rows[i] # Unreadable
                /\ Judged(rows[i])
                /\ rows[i].ip \in Permitted \/ config.onPartial = "drop"
    /\ Pinned => /\ permitted # << >>
                 /\ \A j \in 1..Len(permitted) : permitted[j].ip \in Permitted

\* The failover loop.
Failover ==
    /\ Len(tried) <= Allowance
    /\ pc \in {"connecting", "verifying"} => Len(tried) < Allowance
    /\ pc = "verifying" => peer \in Ip
    /\ \A i \in 1..Len(tried) : tried[i].answer = permitted[i]
    /\ outcome # "socket" /\ outcome \notin Refusals =>
          \A i \in 1..Len(tried) : tried[i].result \in {"OSError", "TimeoutError"}
    /\ outcome = "socket" =>
          /\ tried # << >>
          /\ peer = tried[Len(tried)].answer.ip
          /\ told # << >>
          /\ told[Len(told)] = [stage |-> "peer", outcome |-> "permitted", ip |-> peer]
    /\ outcome \in {"TimeoutError", "OSError"} =>
          /\ Len(tried) = Allowance
          /\ outcome = "TimeoutError" <=> OnlyTimeouts

IInv == /\ TypeOK /\ Control /\ ReadSoFar /\ AnswersAreRows /\ CheckedSoFar
        /\ AddressesAreRows /\ ChosenOnce /\ Failover

-----------------------------------------------------------------------------
(* Sequences.                                                              *)

LEMMA AppendFacts ==
  ASSUME NEW S, NEW s \in Seq(S), NEW e \in S
  PROVE  /\ Append(s, e) \in Seq(S)
         /\ Len(Append(s, e)) = Len(s) + 1
         /\ \A i \in 1..Len(s) : Append(s, e)[i] = s[i]
         /\ Append(s, e)[Len(s) + 1] = e
  OBVIOUS

LEMMA ListFacts ==
  ASSUME NEW S, NEW n \in Nat, NEW f \in [1..n -> S]
  PROVE  f \in Seq(S) /\ Len(f) = n
  OBVIOUS

-----------------------------------------------------------------------------
(* The invariant holds of every step.  Under each action, the parts the     *)
(* action can disturb come first and the rest in one step.                  *)

LEMMA InitIInv == Init => IInv
<1> SUFFICES ASSUME Init PROVE IInv
  OBVIOUS
<1>1. TypeOK
  BY BoundAssumption DEF Init, TypeOK
<1>2. Control
  BY DEF Init, Control, Refusals
<1>3. ReadSoFar /\ AnswersAreRows /\ CheckedSoFar /\ AddressesAreRows
  BY DEF Init, ReadSoFar, AnswersAreRows, CheckedSoFar, AddressesAreRows
<1>4. ChosenOnce
  BY DEF Init, ChosenOnce, Pinned, Dialling
<1>5. Failover
  BY PolicyAssumption DEF Init, Failover, Allowance
<1> QED BY <1>1, <1>2, <1>3, <1>4, <1>5 DEF IInv

LEMMA NextIInv == IInv /\ [Next]_vars => IInv'
<1> SUFFICES ASSUME IInv, [Next]_vars PROVE IInv'
  OBVIOUS
<1> USE PolicyAssumption, BoundAssumption
<1> USE DEF IInv, resolving, connecting, request, Finish, Fresh, Raised, Refusals
<1>1. CASE Begin
  <2>1. TypeOK'
    BY <1>1 DEF Begin, TypeOK, Row, Control
  <2>2. Control'
    BY <1>1 DEF Begin, Control, Choosing, TypeOK
  <2>3. ReadSoFar' /\ AnswersAreRows' /\ CheckedSoFar' /\ AddressesAreRows' /\
        ChosenOnce' /\ Failover'
    BY <1>1 DEF Begin, ReadSoFar, AnswersAreRows, CheckedSoFar, Judged,
       AddressesAreRows, ChosenOnce, Pinned, Dialling, Failover, Allowance,
       OnlyTimeouts, TypeOK, Control
  <2> QED BY <2>1, <2>2, <2>3
<1>2. CASE Retry
  <2>1. TypeOK'
    BY <1>2 DEF Retry, TypeOK, Row, Control
  <2>2. Control'
    <3>1. outcome \notin Refusals
      BY <1>2 DEF Retry, Surfaced, Retryable
    <3>2. pc = "done" /\ refused = 0
      BY <1>2, <3>1 DEF Retry, Control, TypeOK
    <3> QED BY <1>2, <3>2 DEF Retry, Control, Choosing
  <2>3. ReadSoFar' /\ AnswersAreRows' /\ CheckedSoFar' /\ AddressesAreRows' /\
        ChosenOnce' /\ Failover'
    BY <1>2 DEF Retry, ReadSoFar, AnswersAreRows, CheckedSoFar, Judged,
       AddressesAreRows, ChosenOnce, Pinned, Dialling, Failover, Allowance,
       OnlyTimeouts, TypeOK, Control
  <2> QED BY <2>1, <2>2, <2>3
<1>3. CASE DirectConnect
  <2>1. TypeOK'
    BY <1>3 DEF DirectConnect, TypeOK, Row, Control
  <2>2. Control'
    BY <1>3 DEF DirectConnect, Control, Choosing, TypeOK
  <2>3. AnswersAreRows'
    BY <1>3 DEF DirectConnect, AnswersAreRows, TypeOK, Control
  <2>4. AddressesAreRows'
    BY <1>3 DEF DirectConnect, AddressesAreRows, TypeOK, Control
  <2>5. ReadSoFar' /\ CheckedSoFar' /\ ChosenOnce' /\ Failover'
    BY <1>3 DEF DirectConnect, ReadSoFar, CheckedSoFar, Judged, ChosenOnce,
       Pinned, Dialling, Failover, Allowance, OnlyTimeouts, TypeOK, Control
  <2> QED BY <2>1, <2>2, <2>3, <2>4, <2>5
<1>4. CASE Lookup
  <2>0. PICK n \in 0..MaxRows : \E given \in [1..n -> Row] : rows' = given
    BY <1>4 DEF Lookup
  <2>a. rows' \in Seq(Row) /\ Len(rows') = n
    BY <2>0, ListFacts
  <2>b. /\ pc = "lookup" /\ pc' = "reading" /\ source = "resolve" /\ answers = << >>
        /\ permitted = << >> /\ at = 0
        /\ UNCHANGED <<at, permitted, outcome, told, source, answers, denied>>
        /\ UNCHANGED <<connecting, request>>
    BY <1>4 DEF Lookup, Control
  <2>1. TypeOK'
    BY <2>a, <2>b DEF TypeOK
  <2>2. ReadSoFar'
    BY <2>a, <2>b DEF ReadSoFar
  <2>3. AddressesAreRows'
    BY <2>b DEF AddressesAreRows
  <2>4. Control' /\ AnswersAreRows' /\ CheckedSoFar' /\ ChosenOnce' /\
        Failover'
    BY <2>b DEF Control, Choosing, AnswersAreRows, CheckedSoFar, ChosenOnce, Pinned,
       Dialling, Failover, Allowance, OnlyTimeouts
  <2> QED BY <2>1, <2>2, <2>3, <2>4
<1>5. CASE LookupFails
  <2>1. Control'
    BY <1>5 DEF LookupFails, Control, Choosing, TypeOK
  <2>2. TypeOK' /\ ReadSoFar' /\ AnswersAreRows' /\ CheckedSoFar' /\
        AddressesAreRows' /\ ChosenOnce' /\ Failover'
    BY <1>5 DEF LookupFails, TypeOK, Row, ReadSoFar, AnswersAreRows,
       CheckedSoFar, Judged, AddressesAreRows, ChosenOnce, Pinned, Dialling,
       Failover, Allowance, OnlyTimeouts, Control
  <2> QED BY <2>1, <2>2
<1>6. CASE ReadRow
  <2>1. TypeOK'
    BY <1>6 DEF ReadRow, TypeOK, Row, Control
  <2>2. ReadSoFar'
    <3> DEFINE row == rows[at + 1]
    <3>1. /\ row # Unreadable /\ row \in Answer
          /\ at \in Nat /\ at' = at + 1 /\ at < Len(rows) /\ rows' = rows
          /\ pc = "reading" /\ answers \in Seq(Answer)
      BY <1>6 DEF ReadRow, TypeOK, Row
    <3>2. \A j \in 1..Len(answers) : j \in 1..Len(answers') /\ answers'[j] = answers[j]
      <4> HIDE DEF row
      <4>1. answers' = answers \/ answers' = Append(answers, row)
        BY <1>6 DEF ReadRow, row
      <4> QED BY <3>1, <4>1, AppendFacts
    <3>3. \E j \in 1..Len(answers') : answers'[j] = row
      <4> HIDE DEF row
      <4>1. CASE \E j \in 1..Len(answers) : answers[j] = row
        BY <3>2, <4>1
      <4>2. CASE ~\E j \in 1..Len(answers) : answers[j] = row
        <5>1. answers' = Append(answers, row)
          BY <1>6, <4>2 DEF ReadRow, row
        <5>2. Len(answers') = Len(answers) + 1 /\ answers'[Len(answers) + 1] = row
          BY <3>1, <5>1, AppendFacts
        <5> QED BY <3>1, <5>2
      <4> QED BY <4>1, <4>2
    <3>4. ASSUME NEW i \in 1..at'
          PROVE  rows'[i] # Unreadable /\ \E j \in 1..Len(answers') : answers'[j] = rows'[i]
      <4>1. CASE i \in 1..at
        <5>1. rows[i] # Unreadable /\ \E j \in 1..Len(answers) : answers[j] = rows[i]
          BY <3>1, <4>1 DEF ReadSoFar
        <5> QED BY <3>1, <3>2, <5>1
      <4>2. CASE i = at + 1
        BY <3>1, <3>3, <4>2
      <4> QED BY <3>1, <4>1, <4>2
    <3>5. at' <= Len(rows')
      BY <3>1
    <3> QED BY <3>4, <3>5 DEF ReadSoFar
  <2>3. AnswersAreRows'
    BY <1>6 DEF ReadRow, AnswersAreRows, TypeOK, Control
  <2>4. Control' /\ CheckedSoFar' /\ AddressesAreRows' /\ ChosenOnce' /\
        Failover'
    BY <1>6 DEF ReadRow, Control, Choosing, CheckedSoFar, Judged,
       AddressesAreRows, ChosenOnce, Pinned, Dialling, Failover, Allowance,
       OnlyTimeouts, TypeOK
  <2> QED BY <2>1, <2>2, <2>3, <2>4
<1>7. CASE ReadUnreadable
  <2>1. Control'
    BY <1>7 DEF ReadUnreadable, Control, Choosing, TypeOK
  <2>2. TypeOK' /\ ReadSoFar' /\ AnswersAreRows' /\ CheckedSoFar' /\
        AddressesAreRows' /\ ChosenOnce' /\ Failover'
    BY <1>7 DEF ReadUnreadable, TypeOK, Row, ReadSoFar, AnswersAreRows,
       CheckedSoFar, Judged, AddressesAreRows, ChosenOnce, Pinned, Dialling,
       Failover, Allowance, OnlyTimeouts, Control
  <2> QED BY <2>1, <2>2
<1>8. CASE StartChecking
  <2>1. AnswersAreRows'
    <3>1. at = Len(rows) /\ pc = "reading" /\ UNCHANGED <<rows, answers>>
      BY <1>8 DEF StartChecking
    <3> QED BY <3>1 DEF AnswersAreRows, ReadSoFar
  <2>2. CheckedSoFar'
    <3>1. at' = 0 /\ UNCHANGED answers
      BY <1>8 DEF StartChecking
    <3>2. at' <= Len(answers') /\ 1..at' = {}
      BY <3>1 DEF TypeOK
    <3> QED BY <3>2 DEF CheckedSoFar
  <2>3. TypeOK' /\ Control' /\ ReadSoFar' /\ AddressesAreRows' /\ ChosenOnce'
        /\ Failover'
    BY <1>8 DEF StartChecking, TypeOK, Row, Control, Choosing, ReadSoFar,
       AddressesAreRows, ChosenOnce, Pinned, Judged, Dialling, Failover,
       Allowance, OnlyTimeouts
  <2> QED BY <2>1, <2>2, <2>3
<1>9. CASE NothingAnswered
  <2>1. Control'
    BY <1>9 DEF NothingAnswered, Control, Choosing, TypeOK
  <2>2. TypeOK' /\ ReadSoFar' /\ AnswersAreRows' /\ CheckedSoFar' /\
        AddressesAreRows' /\ ChosenOnce' /\ Failover'
    BY <1>9 DEF NothingAnswered, TypeOK, Row, ReadSoFar, AnswersAreRows,
       CheckedSoFar, Judged, AddressesAreRows, ChosenOnce, Pinned, Dialling,
       Failover, Allowance, OnlyTimeouts, Control
  <2> QED BY <2>1, <2>2
<1>10. CASE AnswerPermitted
  <2> DEFINE answer == answers[at + 1]
             record == [stage |-> "address", outcome |-> "permitted", ip |-> answer.ip]
  <2>0. /\ answer \in Answer /\ record \in Report
        /\ at \in Nat /\ at + 1 \in 1..Len(answers) /\ at' = at + 1
        /\ pc = "checking" /\ pc' = pc /\ tried = << >> /\ tried' = tried
        /\ outcome' = "none"
    <3>1. at \in Nat /\ at < Len(answers) /\ answers \in Seq(Answer)
      BY <1>10 DEF AnswerPermitted, TypeOK
    <3>2. answer \in Answer /\ at + 1 \in 1..Len(answers)
      BY <3>1
    <3>3. record \in Report
      <4>1. answer.ip \in Ip
        BY <3>2 DEF Answer
      <4> QED BY <4>1 DEF Report
    <3>4. /\ pc = "checking" /\ pc' = pc /\ tried = << >> /\ tried' = tried
          /\ outcome' = "none" /\ at' = at + 1
      BY <1>10 DEF AnswerPermitted, Control, Choosing
    <3> QED BY <3>1, <3>2, <3>3, <3>4
  <2>a. /\ told' \in Seq(Report)
        /\ Len(told') = Len(told) + 1
        /\ \A k \in 1..Len(told) : told'[k] = told[k]
        /\ told'[Len(told) + 1] = record
    <3>1. told' = Append(told, record) /\ told \in Seq(Report)
      BY <1>10 DEF AnswerPermitted, Tell, TypeOK
    <3> HIDE DEF record
    <3> QED BY <2>0, <3>1, AppendFacts
  <2>b. /\ permitted' \in Seq(Answer)
        /\ Len(permitted') = Len(permitted) + 1
        /\ \A k \in 1..Len(permitted) : permitted'[k] = permitted[k]
        /\ permitted'[Len(permitted) + 1] = answer
    <3>1. permitted' = Append(permitted, answer) /\ permitted \in Seq(Answer)
      BY <1>10 DEF AnswerPermitted, TypeOK
    <3> HIDE DEF answer
    <3> QED BY <2>0, <3>1, AppendFacts
  <2>1. TypeOK'
    <3>1. denied' \in SUBSET Answer
      BY <1>10, <2>0 DEF AnswerPermitted, TypeOK
    <3>2. permitted' \in Seq(Answer)
      BY <1>10, <2>b DEF AnswerPermitted, TypeOK
    <3> QED BY <1>10, <2>0, <2>a, <3>1, <3>2 DEF AnswerPermitted, TypeOK
  <2>2. CheckedSoFar'
    <3>1. \A j \in 1..at : Judged(answers[j])'
      <4> TAKE j \in 1..at
      <4>1. PICK k \in 1..Len(told) :
              /\ told[k].stage = "address" /\ told[k].ip = answers[j].ip
              /\ told[k].outcome = IF answers[j].ip \in Permitted
                                   THEN "permitted" ELSE "refused"
        BY <2>0 DEF CheckedSoFar, Judged
      <4>2. told'[k] = told[k] /\ k \in 1..Len(told')
        BY <2>a DEF TypeOK
      <4>3. answers'[j] = answers[j]
        BY <1>10 DEF AnswerPermitted
      <4> QED BY <4>1, <4>2, <4>3 DEF Judged
    <3>2. \A j \in (at + 1)..(at + 1) : Judged(answers[j])'
      <4> TAKE j \in (at + 1)..(at + 1)
      <4>1. Len(told) + 1 \in 1..Len(told') /\ j = at + 1
        BY <2>0, <2>a DEF TypeOK
      <4>2. answers'[j] = answer
        BY <1>10, <4>1 DEF AnswerPermitted
      <4>3. answer.ip \in Permitted
        BY <1>10 DEF AnswerPermitted
      <4> QED BY <2>a, <4>1, <4>2, <4>3 DEF Judged
    <3>3. \A j \in 1..at' : answers'[j].ip \in Permitted \/ denied' # {}
      BY <1>10, <2>0 DEF AnswerPermitted, CheckedSoFar
    <3>4. at' <= Len(answers') /\ \A j \in 1..at' : j \in 1..at \/ j \in (at + 1)..(at + 1)
      BY <1>10, <2>0 DEF AnswerPermitted
    <3> QED BY <3>1, <3>2, <3>3, <3>4 DEF CheckedSoFar
  <2>3. AddressesAreRows'
    <3>1. UNCHANGED <<rows, source, answers>> /\ source = "resolve"
      BY <1>10, <2>0 DEF AnswerPermitted, Control
    <3>2. \E i \in 1..Len(rows) : rows[i] = answer
      BY <2>0 DEF AnswersAreRows
    <3>3. answer.ip \in Permitted
      BY <1>10 DEF AnswerPermitted
    <3>4. \A j \in 1..Len(permitted') :
             permitted'[j] = answer \/ (j \in 1..Len(permitted) /\ permitted'[j] = permitted[j])
      BY <2>b DEF TypeOK
    <3> HIDE DEF answer
    <3> QED BY <3>1, <3>2, <3>3, <3>4 DEF AddressesAreRows
  <2>4. Failover'
    <3>1. Len(tried) = 0
      BY <2>0
    <3>2. Allowance' \in Nat
      BY <2>b DEF Allowance, TypeOK
    <3> QED BY <2>0, <3>1, <3>2 DEF Failover, Allowance
  <2>5. Control' /\ ReadSoFar' /\ AnswersAreRows' /\ ChosenOnce'
    BY <1>10 DEF AnswerPermitted, Tell, Control, Choosing, ReadSoFar,
       AnswersAreRows, ChosenOnce, Pinned, Judged, Dialling, TypeOK
  <2> QED BY <2>1, <2>2, <2>3, <2>4, <2>5
<1>11. CASE AnswerRefused
  <2> DEFINE answer == answers[at + 1]
             record == [stage |-> "address", outcome |-> "refused", ip |-> answer.ip]
  <2>0. /\ answer \in Answer /\ record \in Report
        /\ at \in Nat /\ at + 1 \in 1..Len(answers) /\ at' = at + 1
        /\ pc = "checking" /\ pc' = pc /\ tried = << >> /\ tried' = tried
        /\ outcome' = "none"
    <3>1. at \in Nat /\ at < Len(answers) /\ answers \in Seq(Answer)
      BY <1>11 DEF AnswerRefused, TypeOK
    <3>2. answer \in Answer /\ at + 1 \in 1..Len(answers)
      BY <3>1
    <3>3. record \in Report
      <4>1. answer.ip \in Ip
        BY <3>2 DEF Answer
      <4> QED BY <4>1 DEF Report
    <3>4. /\ pc = "checking" /\ pc' = pc /\ tried = << >> /\ tried' = tried
          /\ outcome' = "none" /\ at' = at + 1
      BY <1>11 DEF AnswerRefused, Control, Choosing
    <3> QED BY <3>1, <3>2, <3>3, <3>4
  <2>a. /\ told' \in Seq(Report)
        /\ Len(told') = Len(told) + 1
        /\ \A k \in 1..Len(told) : told'[k] = told[k]
        /\ told'[Len(told) + 1] = record
    <3>1. told' = Append(told, record) /\ told \in Seq(Report)
      BY <1>11 DEF AnswerRefused, Tell, TypeOK
    <3> HIDE DEF record
    <3> QED BY <2>0, <3>1, AppendFacts
  <2>1. TypeOK'
    <3>1. denied' \in SUBSET Answer
      BY <1>11, <2>0 DEF AnswerRefused, TypeOK
    <3>2. permitted' \in Seq(Answer)
      BY <1>11 DEF AnswerRefused, TypeOK
    <3> QED BY <1>11, <2>0, <2>a, <3>1, <3>2 DEF AnswerRefused, TypeOK
  <2>2. CheckedSoFar'
    <3>1. \A j \in 1..at : Judged(answers[j])'
      <4> TAKE j \in 1..at
      <4>1. PICK k \in 1..Len(told) :
              /\ told[k].stage = "address" /\ told[k].ip = answers[j].ip
              /\ told[k].outcome = IF answers[j].ip \in Permitted
                                   THEN "permitted" ELSE "refused"
        BY <2>0 DEF CheckedSoFar, Judged
      <4>2. told'[k] = told[k] /\ k \in 1..Len(told')
        BY <2>a DEF TypeOK
      <4>3. answers'[j] = answers[j]
        BY <1>11 DEF AnswerRefused
      <4> QED BY <4>1, <4>2, <4>3 DEF Judged
    <3>2. \A j \in (at + 1)..(at + 1) : Judged(answers[j])'
      <4> TAKE j \in (at + 1)..(at + 1)
      <4>1. Len(told) + 1 \in 1..Len(told') /\ j = at + 1
        BY <2>0, <2>a DEF TypeOK
      <4>2. answers'[j] = answer
        BY <1>11, <4>1 DEF AnswerRefused
      <4>3. answer.ip \notin Permitted
        BY <1>11 DEF AnswerRefused
      <4> QED BY <2>a, <4>1, <4>2, <4>3 DEF Judged
    <3>3. \A j \in 1..at' : answers'[j].ip \in Permitted \/ denied' # {}
      BY <1>11, <2>0 DEF AnswerRefused, CheckedSoFar
    <3>4. at' <= Len(answers') /\ \A j \in 1..at' : j \in 1..at \/ j \in (at + 1)..(at + 1)
      BY <1>11, <2>0 DEF AnswerRefused
    <3> QED BY <3>1, <3>2, <3>3, <3>4 DEF CheckedSoFar
  <2>3. Control' /\ ReadSoFar' /\ AnswersAreRows' /\ AddressesAreRows' /\
        ChosenOnce' /\ Failover'
    BY <1>11 DEF AnswerRefused, Tell, Control, Choosing, ReadSoFar,
       AnswersAreRows, AddressesAreRows, ChosenOnce, Pinned, Judged, Dialling,
       Failover, Allowance, OnlyTimeouts, TypeOK
  <2> QED BY <2>1, <2>2, <2>3
<1>12. CASE RefuseName
  <2>1. Control'
    BY <1>12 DEF RefuseName, Control, Choosing, TypeOK
  <2>2. TypeOK' /\ ReadSoFar' /\ AnswersAreRows' /\ CheckedSoFar' /\
        AddressesAreRows' /\ ChosenOnce' /\ Failover'
    BY <1>12 DEF RefuseName, TypeOK, Row, ReadSoFar, AnswersAreRows,
       CheckedSoFar, Judged, AddressesAreRows, ChosenOnce, Pinned, Dialling,
       Failover, Allowance, OnlyTimeouts, Control
  <2> QED BY <2>1, <2>2
<1>13. CASE Resolved
  <2>1. ChosenOnce'
    <3>1. /\ UNCHANGED <<rows, answers, told, tried, permitted, denied, config, source>>
          /\ pc = "checking" /\ at = Len(answers) /\ permitted # << >> /\ tried = << >>
          /\ denied = {} \/ config.onPartial = "drop"
          /\ source = "resolve" /\ pc' = "recheck"
      BY <1>13 DEF Resolved, Control, Choosing
    <3>2. ASSUME NEW i \in 1..Len(rows)
          PROVE  /\ rows[i] # Unreadable /\ Judged(rows[i])
                 /\ rows[i].ip \in Permitted \/ config.onPartial = "drop"
      <4>1. PICK j \in 1..Len(answers) : answers[j] = rows[i] /\ rows[i] # Unreadable
        BY <3>1 DEF AnswersAreRows
      <4>2. Judged(answers[j]) /\ (answers[j].ip \in Permitted \/ denied # {})
        BY <3>1 DEF CheckedSoFar
      <4> QED BY <3>1, <4>1, <4>2
    <3>3. ~Pinned'
      BY <3>1 DEF Pinned, Dialling
    <3> QED BY <3>1, <3>2, <3>3 DEF ChosenOnce, Judged
  <2>2. TypeOK' /\ Control' /\ ReadSoFar' /\ AnswersAreRows' /\ CheckedSoFar'
        /\ AddressesAreRows' /\ Failover'
    BY <1>13 DEF Resolved, TypeOK, Row, Control, Choosing, ReadSoFar,
       AnswersAreRows, CheckedSoFar, Judged, AddressesAreRows, Failover,
       Allowance, OnlyTimeouts
  <2> QED BY <2>1, <2>2
<1>14. CASE Recheck
  <2>1. ChosenOnce'
    BY <1>14 DEF Recheck, ChosenOnce, Pinned, Judged, Dialling, TypeOK,
       Control
  <2>2. Failover'
    BY <1>14 DEF Recheck, Failover, Allowance, OnlyTimeouts, TypeOK, Control
  <2>3. TypeOK' /\ Control' /\ ReadSoFar' /\ AnswersAreRows' /\ CheckedSoFar'
        /\ AddressesAreRows'
    BY <1>14 DEF Recheck, TypeOK, Row, Control, Choosing, ReadSoFar,
       AnswersAreRows, CheckedSoFar, Judged, AddressesAreRows
  <2> QED BY <2>1, <2>2, <2>3
<1>15. CASE RecheckRefuses
  <2>1. Control'
    BY <1>15 DEF RecheckRefuses, Control, Choosing, TypeOK
  <2>2. TypeOK' /\ ReadSoFar' /\ AnswersAreRows' /\ CheckedSoFar' /\
        AddressesAreRows' /\ ChosenOnce' /\ Failover'
    BY <1>15 DEF RecheckRefuses, TypeOK, Row, ReadSoFar, AnswersAreRows,
       CheckedSoFar, Judged, AddressesAreRows, ChosenOnce, Pinned, Dialling,
       Failover, Allowance, OnlyTimeouts, Control
  <2> QED BY <2>1, <2>2
<1>16. CASE NothingToConnect
  <2>1. Control'
    BY <1>16 DEF NothingToConnect, Control, Choosing, TypeOK
  <2>2. TypeOK' /\ ReadSoFar' /\ AnswersAreRows' /\ CheckedSoFar' /\
        AddressesAreRows' /\ ChosenOnce' /\ Failover'
    BY <1>16 DEF NothingToConnect, TypeOK, Row, ReadSoFar, AnswersAreRows,
       CheckedSoFar, Judged, AddressesAreRows, ChosenOnce, Pinned, Dialling,
       Failover, Allowance, OnlyTimeouts, Control
  <2> QED BY <2>1, <2>2
<1>17. CASE OpenSocket
  <2>1. Control'
    BY <1>17 DEF OpenSocket, Control, Choosing, TypeOK
  <2>2. Failover'
    BY <1>17 DEF OpenSocket, Failover, Allowance, OnlyTimeouts, TypeOK,
       Control
  <2>3. TypeOK' /\ ReadSoFar' /\ AnswersAreRows' /\ CheckedSoFar' /\
        AddressesAreRows' /\ ChosenOnce'
    BY <1>17 DEF OpenSocket, TypeOK, Row, ReadSoFar, AnswersAreRows,
       CheckedSoFar, Judged, AddressesAreRows, ChosenOnce, Pinned, Dialling,
       Control
  <2> QED BY <2>1, <2>2, <2>3
<1>18. CASE NoSocket
  <2> DEFINE ended == [answer |-> Current, result |-> "OSError"]
  <2>0. /\ Len(tried) < Len(permitted) /\ Len(tried) < Allowance
        /\ Current = permitted[Len(tried) + 1] /\ Current \in Answer
    BY <1>18 DEF NoSocket, Failover, Allowance, Current, TypeOK
  <2>a. /\ tried' \in Seq(Attempt)
        /\ Len(tried') = Len(tried) + 1
        /\ \A k \in 1..Len(tried) : tried'[k] = tried[k]
        /\ tried'[Len(tried) + 1] = ended
    <3>1. tried' = Append(tried, ended) /\ tried \in Seq(Attempt) /\ ended \in Attempt
      BY <1>18, <2>0 DEF NoSocket, Attempted, Attempt, TypeOK
    <3> HIDE DEF ended
    <3> QED BY <3>1, AppendFacts
  <2>1. TypeOK'
    BY <1>18, <2>a DEF NoSocket, TypeOK
  <2>2. ChosenOnce'
    BY <1>18 DEF NoSocket, Attempted, Current, ChosenOnce, Pinned, Judged,
       Dialling, TypeOK, Control
  <2>3. Failover'
    BY <1>18 DEF NoSocket, Attempted, Current, Failover, Allowance,
       OnlyTimeouts, TypeOK, Control
  <2>4. Control' /\ ReadSoFar' /\ AnswersAreRows' /\ CheckedSoFar' /\
        AddressesAreRows'
    BY <1>18 DEF NoSocket, Attempted, Current, Control, Choosing, ReadSoFar,
       AnswersAreRows, CheckedSoFar, Judged, AddressesAreRows, TypeOK
  <2> QED BY <2>1, <2>2, <2>3, <2>4
<1>19. CASE Accepted
  <2>1. Failover'
    BY <1>19 DEF Accepted, Failover, Allowance, OnlyTimeouts, TypeOK, Control
  <2>2. TypeOK' /\ Control' /\ ReadSoFar' /\ AnswersAreRows' /\ CheckedSoFar'
        /\ AddressesAreRows' /\ ChosenOnce'
    BY <1>19 DEF Accepted, TypeOK, Row, Control, Choosing, ReadSoFar,
       AnswersAreRows, CheckedSoFar, Judged, AddressesAreRows, ChosenOnce,
       Pinned, Dialling
  <2> QED BY <2>1, <2>2
<1>20. CASE AttemptFails
  <2>0. /\ Len(tried) < Len(permitted) /\ Len(tried) < Allowance
        /\ Current = permitted[Len(tried) + 1] /\ Current \in Answer
    BY <1>20 DEF AttemptFails, Failover, Allowance, Current, TypeOK
  <2>a. PICK result \in {"OSError", "TimeoutError"} : Attempted(result)
    BY <1>20 DEF AttemptFails
  <2> DEFINE ended == [answer |-> Current, result |-> result]
  <2>b. /\ tried' \in Seq(Attempt)
        /\ Len(tried') = Len(tried) + 1
        /\ \A k \in 1..Len(tried) : tried'[k] = tried[k]
        /\ tried'[Len(tried) + 1] = ended
    <3>1. tried' = Append(tried, ended) /\ tried \in Seq(Attempt) /\ ended \in Attempt
      BY <2>0, <2>a DEF Attempted, Attempt, TypeOK
    <3> HIDE DEF ended
    <3> QED BY <3>1, AppendFacts
  <2>1. TypeOK'
    <3>1. openSockets' \in Nat
      BY <1>20 DEF AttemptFails, TypeOK, Control
    <3> QED BY <1>20, <2>b, <3>1 DEF AttemptFails, TypeOK
  <2>2. Control'
    BY <1>20 DEF AttemptFails, Attempted, Current, Control, Choosing, TypeOK
  <2>3. ChosenOnce'
    BY <1>20 DEF AttemptFails, Attempted, Current, ChosenOnce, Pinned, Judged,
       Dialling, TypeOK, Control
  <2>4. Failover'
    <3>1. /\ UNCHANGED <<permitted, outcome>> /\ outcome = "none" /\ pc' = "opening"
          /\ Allowance' = Allowance /\ Allowance \in Nat /\ Len(tried) \in Nat
      BY <1>20 DEF AttemptFails, Control, Allowance, TypeOK
    <3>2. Len(tried') <= Allowance'
      BY <2>0, <2>b, <3>1
    <3>3. \A i \in 1..Len(tried') : /\ tried'[i].answer = permitted'[i]
                                    /\ tried'[i].result \in {"OSError", "TimeoutError"}
      <4> TAKE i \in 1..Len(tried')
      <4>1. CASE i = Len(tried) + 1
        BY <2>0, <2>b, <3>1, <4>1
      <4>2. CASE i # Len(tried) + 1
        BY <2>b, <3>1, <4>2 DEF Failover
      <4> QED BY <4>1, <4>2
    <3> QED BY <3>1, <3>2, <3>3 DEF Failover
  <2>5. ReadSoFar' /\ AnswersAreRows' /\ CheckedSoFar' /\ AddressesAreRows'
    BY <1>20 DEF AttemptFails, Attempted, Current, ReadSoFar, AnswersAreRows,
       CheckedSoFar, Judged, AddressesAreRows, TypeOK, Control
  <2> QED BY <2>1, <2>2, <2>3, <2>4, <2>5
<1>21. CASE VerifyPeer
  <2> DEFINE ended == [answer |-> Current, result |-> "connected"]
  <2>0. /\ Len(tried) < Len(permitted) /\ Len(tried) < Allowance
        /\ Current = permitted[Len(tried) + 1] /\ Current \in Answer
    BY <1>21 DEF VerifyPeer, Failover, Allowance, Current, TypeOK
  <2>a. /\ tried' \in Seq(Attempt)
        /\ Len(tried') = Len(tried) + 1
        /\ \A k \in 1..Len(tried) : tried'[k] = tried[k]
        /\ tried'[Len(tried) + 1] = ended
    <3>1. tried' = Append(tried, ended) /\ tried \in Seq(Attempt) /\ ended \in Attempt
      BY <1>21, <2>0 DEF VerifyPeer, Attempted, Attempt, TypeOK
    <3> HIDE DEF ended
    <3> QED BY <3>1, AppendFacts
  <2>1. TypeOK'
    <3>1. peer \in Ip /\ openSockets' \in Nat /\ refused' \in Nat
      BY <1>21 DEF VerifyPeer, Failover, TypeOK, Control
    <3>2. told' \in Seq(Report)
      BY <1>21, <3>1, AppendFacts DEF VerifyPeer, Tell, Report, TypeOK
    <3> QED BY <1>21, <2>a, <3>1, <3>2 DEF VerifyPeer, TypeOK
  <2>2. Control'
    BY <1>21 DEF VerifyPeer, Tell, Attempted, Current, Control, Choosing,
       TypeOK
  <2>3. ChosenOnce'
    BY <1>21 DEF VerifyPeer, Tell, Attempted, Current, ChosenOnce, Pinned,
       Judged, Dialling, TypeOK, Control
  <2>4. Failover'
    <3> HIDE DEF ended
    <3>1. /\ pc' = "done" /\ outcome' = "socket"
          /\ permitted' = permitted /\ Allowance' = Allowance /\ Len(tried) \in Nat
      BY <1>21 DEF VerifyPeer, Allowance, TypeOK
    <3>2. Len(tried') <= Allowance'
      BY <2>0, <2>a, <3>1 DEF Allowance, TypeOK
    <3>3. \A i \in 1..Len(tried') : tried'[i].answer = permitted'[i]
      <4> TAKE i \in 1..Len(tried')
      <4>1. CASE i = Len(tried) + 1
        BY <2>0, <2>a, <3>1, <4>1 DEF ended
      <4>2. CASE i # Len(tried) + 1
        BY <2>a, <3>1, <4>2 DEF Failover
      <4> QED BY <4>1, <4>2
    <3>4. /\ tried' # << >> /\ peer' = tried'[Len(tried')].answer.ip
          /\ told' # << >>
          /\ told'[Len(told')] = [stage |-> "peer", outcome |-> "permitted", ip |-> peer']
      <4>1. peer' = peer /\ peer = Current.ip /\ peer \in Ip
        BY <1>21 DEF VerifyPeer, Failover
      <4>2. [stage |-> "peer", outcome |-> "permitted", ip |-> peer] \in Report
        BY <4>1 DEF Report
      <4>3. told' = Append(told, [stage |-> "peer", outcome |-> "permitted", ip |-> peer])
        BY <1>21 DEF VerifyPeer, Tell
      <4>4. /\ Len(told') = Len(told) + 1
            /\ told'[Len(told) + 1] = [stage |-> "peer", outcome |-> "permitted", ip |-> peer]
        BY <4>2, <4>3, AppendFacts DEF TypeOK
      <4>5. Len(told) \in Nat /\ Len(tried) \in Nat
        BY DEF TypeOK
      <4>6. ended.answer.ip = Current.ip
        BY DEF ended
      <4> QED BY <2>a, <4>1, <4>4, <4>5, <4>6
    <3> QED BY <3>1, <3>2, <3>3, <3>4 DEF Failover
  <2>5. ReadSoFar' /\ AnswersAreRows' /\ CheckedSoFar' /\ AddressesAreRows'
    BY <1>21 DEF VerifyPeer, Tell, Attempted, Current, ReadSoFar,
       AnswersAreRows, CheckedSoFar, Judged, AddressesAreRows, TypeOK, Control
  <2> QED BY <2>1, <2>2, <2>3, <2>4, <2>5
<1>22. CASE PeerRewritten
  <2> DEFINE ended == [answer |-> Current, result |-> "rewritten"]
  <2>0. /\ Len(tried) < Len(permitted) /\ Len(tried) < Allowance
        /\ Current = permitted[Len(tried) + 1] /\ Current \in Answer
    BY <1>22 DEF PeerRewritten, Failover, Allowance, Current, TypeOK
  <2>a. /\ tried' \in Seq(Attempt)
        /\ Len(tried') = Len(tried) + 1
        /\ \A k \in 1..Len(tried) : tried'[k] = tried[k]
        /\ tried'[Len(tried) + 1] = ended
    <3>1. tried' = Append(tried, ended) /\ tried \in Seq(Attempt) /\ ended \in Attempt
      BY <1>22, <2>0 DEF PeerRewritten, Attempted, Attempt, TypeOK
    <3> HIDE DEF ended
    <3> QED BY <3>1, AppendFacts
  <2>1. TypeOK'
    <3>1. peer \in Ip /\ openSockets' \in Nat /\ refused' \in Nat
      BY <1>22 DEF PeerRewritten, Failover, TypeOK, Control
    <3>2. told' \in Seq(Report)
      BY <1>22, <3>1, AppendFacts DEF PeerRewritten, Tell, Report, TypeOK
    <3> QED BY <1>22, <2>a, <3>1, <3>2 DEF PeerRewritten, TypeOK
  <2>2. Control'
    BY <1>22 DEF PeerRewritten, Tell, Attempted, Current, Control, Choosing,
       TypeOK
  <2>3. ChosenOnce'
    BY <1>22 DEF PeerRewritten, Tell, Attempted, Current, ChosenOnce, Pinned,
       Judged, Dialling, TypeOK, Control
  <2>4. Failover'
    <3> HIDE DEF ended
    <3>1. /\ pc' = "done" /\ outcome' = "BlockedAddressError"
          /\ permitted' = permitted /\ Allowance' = Allowance /\ Len(tried) \in Nat
      BY <1>22 DEF PeerRewritten, Allowance, TypeOK
    <3>2. Len(tried') <= Allowance'
      BY <2>0, <2>a, <3>1 DEF Allowance, TypeOK
    <3>3. \A i \in 1..Len(tried') : tried'[i].answer = permitted'[i]
      <4> TAKE i \in 1..Len(tried')
      <4>1. CASE i = Len(tried) + 1
        BY <2>0, <2>a, <3>1, <4>1 DEF ended
      <4>2. CASE i # Len(tried) + 1
        BY <2>a, <3>1, <4>2 DEF Failover
      <4> QED BY <4>1, <4>2
    <3> QED BY <3>1, <3>2, <3>3 DEF Failover
  <2>5. ReadSoFar' /\ AnswersAreRows' /\ CheckedSoFar' /\ AddressesAreRows'
    BY <1>22 DEF PeerRewritten, Tell, Attempted, Current, ReadSoFar,
       AnswersAreRows, CheckedSoFar, Judged, AddressesAreRows, TypeOK, Control
  <2> QED BY <2>1, <2>2, <2>3, <2>4, <2>5
<1>23. CASE Exhausted
  <2>1. Control'
    BY <1>23 DEF Exhausted, Control, Choosing, TypeOK
  <2>2. Failover'
    BY <1>23 DEF Exhausted, Failover, Allowance, OnlyTimeouts, TypeOK, Control
  <2>3. TypeOK' /\ ReadSoFar' /\ AnswersAreRows' /\ CheckedSoFar' /\
        AddressesAreRows' /\ ChosenOnce'
    <3>1. TypeOK'
      BY <1>23 DEF Exhausted, TypeOK
    <3>2. ReadSoFar' /\ AnswersAreRows' /\ CheckedSoFar' /\ AddressesAreRows'
      BY <1>23 DEF Exhausted, ReadSoFar, AnswersAreRows, CheckedSoFar, AddressesAreRows
    <3>3. ChosenOnce'
      BY <1>23 DEF Exhausted, ChosenOnce, Pinned, Judged, Dialling
    <3> QED BY <3>1, <3>2, <3>3
  <2> QED BY <2>1, <2>2, <2>3
<1>24. CASE Interrupted
  <2>1. Control'
    BY <1>24 DEF Interrupted, Control, Choosing, TypeOK
  <2>2. Failover'
    BY <1>24 DEF Interrupted, Failover, Allowance, OnlyTimeouts, TypeOK,
       Control
  <2>3. TypeOK' /\ ReadSoFar' /\ AnswersAreRows' /\ CheckedSoFar' /\
        AddressesAreRows' /\ ChosenOnce'
    <3>1. TypeOK'
      BY <1>24 DEF Interrupted, TypeOK, Control
    <3>2. ReadSoFar' /\ AnswersAreRows' /\ CheckedSoFar' /\ AddressesAreRows'
      BY <1>24 DEF Interrupted, ReadSoFar, AnswersAreRows, CheckedSoFar, Judged,
         AddressesAreRows
    <3>3. ChosenOnce'
      BY <1>24 DEF Interrupted, ChosenOnce, Pinned, Judged, Dialling
    <3> QED BY <3>1, <3>2, <3>3
  <2> QED BY <2>1, <2>2, <2>3
<1>25. CASE UNCHANGED vars
  <2>1. TypeOK'
    BY <1>25 DEF vars, TypeOK
  <2>2. Control' /\ ReadSoFar' /\ AnswersAreRows' /\ CheckedSoFar'
        /\ AddressesAreRows'
    BY <1>25 DEF vars, Control, ReadSoFar, AnswersAreRows, CheckedSoFar, Judged,
       AddressesAreRows
  <2>3. ChosenOnce' /\ Failover'
    BY <1>25 DEF vars, ChosenOnce, Judged, Pinned, Dialling, Failover, Allowance,
       OnlyTimeouts
  <2> QED BY <2>1, <2>2, <2>3
<1> QED BY <1>1, <1>2, <1>3, <1>4, <1>5, <1>6, <1>7, <1>8, <1>9, <1>10, <1>11,
      <1>12, <1>13, <1>14, <1>15, <1>16, <1>17, <1>18, <1>19, <1>20, <1>21,
      <1>22, <1>23, <1>24, <1>25 DEF Next, Resolve, Connect

LEMMA Invariance == Spec => []IInv
  BY InitIInv, NextIInv, PTL DEF Spec

-----------------------------------------------------------------------------
(* The safety theorems: each property follows from the invariant.          *)

\* Every variable has its type in every reachable state.
THEOREM TypeCorrect == Spec => []TypeOK
<1>1. IInv => TypeOK
  BY DEF IInv
<1> QED BY Invariance, <1>1, PTL

\* An attempt begun or ended means connect() had passed its check, and a socket
\* held means an attempt was begun.
LEMMA DialledMeansPinned ==
  ASSUME IInv
  PROVE  /\ Dialled # {} => Pinned
         /\ openSockets # 0 => Pinned
         /\ \A answer \in Dialled : \E j \in 1..Len(permitted) : permitted[j] = answer
<1>1. /\ Len(tried) \in Nat /\ Len(permitted) \in Nat
      /\ Len(tried) <= Allowance /\ Allowance <= Len(permitted) /\ Allowance \in Nat
      /\ pc \in {"connecting", "verifying"} => Len(tried) < Allowance
  BY PolicyAssumption DEF IInv, TypeOK, Failover, Allowance
<1>2. Dialled # {} => Pinned
  BY DEF Dialled, Pinned, Dialling
<1>3. openSockets # 0 => Pinned
  BY DEF IInv, Control, Failover, Pinned, Dialling
<1>4. \A answer \in Dialled : \E j \in 1..Len(permitted) : permitted[j] = answer
  <2> DEFINE n == Len(tried) + IF pc \in {"connecting", "verifying"} THEN 1 ELSE 0
  <2>1. n \in Nat /\ n <= Len(permitted)
    BY <1>1 DEF Allowance
  <2>2. Dialled = {permitted[i] : i \in 1..n}
    BY DEF Dialled
  <2> HIDE DEF n
  <2> QED BY <1>1, <2>1, <2>2
<1> QED BY <1>2, <1>3, <1>4

\* The pin: only answers of this call's own lookup, unchanged and permitted, are
\* dialled, in order and up to the cap, and a socket is connected where it was
\* dialled.
THEOREM PinIsKept == Spec => []PinHolds
<1>1. IInv => PinHolds
  <2> SUFFICES ASSUME IInv PROVE PinHolds
    OBVIOUS
  <2>1. ASSUME NEW answer \in Dialled
        PROVE  /\ \E i \in 1..Len(rows) : rows[i] = answer
               /\ answer.ip \in Permitted
    <3>1. PICK j \in 1..Len(permitted) : permitted[j] = answer
      BY DialledMeansPinned
    <3>2. Pinned
      BY DialledMeansPinned
    <3> QED BY <3>1, <3>2 DEF IInv, AddressesAreRows, ChosenOnce
  <2>2. /\ Len(tried) <= Allowance
        /\ \A i \in 1..Len(tried) : tried[i].answer = permitted[i]
        /\ outcome = "socket" => tried # << >> /\ peer = tried[Len(tried)].answer.ip
    BY DEF IInv, Failover
  <2> QED BY <2>1, <2>2 DEF PinHolds
<1> QED BY Invariance, <1>1, PTL

\* One denied answer refuses the whole name under "reject", and one denied
\* address refuses a caller's whole sequence, before anything is dialled.
THEOREM DeniedRefusesAll == Spec => []OneDeniedRefusesAll
<1>1. IInv => OneDeniedRefusesAll
  <2> SUFFICES ASSUME IInv,
                      config.onPartial = "reject" \/ source = "caller",
                      NEW i \in 1..Len(rows),
                      rows[i] # Unreadable, rows[i].ip \notin Permitted,
                      tried # << >> \/ openSockets # 0
               PROVE  FALSE
    BY DEF OneDeniedRefusesAll
  <2>1. Pinned
    BY DialledMeansPinned DEF Pinned
  <2>2. CASE source = "resolve"
    BY <2>1, <2>2 DEF IInv, ChosenOnce
  <2>3. CASE source = "caller"
    BY <2>1, <2>3 DEF IInv, ChosenOnce, AddressesAreRows
  <2> QED BY <2>2, <2>3 DEF IInv, TypeOK
<1> QED BY Invariance, <1>1, PTL

\* Sockets are closed on every path but the one that hands one out.
THEOREM SocketsAccountedFor == Spec => []NoSocketLeak
<1>1. IInv => NoSocketLeak
  BY DEF IInv, Control, NoSocketLeak
<1> QED BY Invariance, <1>1, PTL

\* "Nothing reachable" is said only after everything the cap allows was tried,
\* and "timed out" only when all of it timed out.
THEOREM HonestExhaustion == Spec => []ExhaustionIsHonest
<1>1. IInv => ExhaustionIsHonest
  BY DEF IInv, Failover, ExhaustionIsHonest, OnlyTimeouts, Refusals
<1> QED BY Invariance, <1>1, PTL

\* No dial follows a refusal within a request, whoever drives the retries.
THEOREM RefusalStops == Spec => []RefusalIsFinal
<1>1. IInv => RefusalIsFinal
  BY DEF IInv, Control, TypeOK, Refusals, RefusalIsFinal
<1> QED BY Invariance, <1>1, PTL

\* The observer has the whole verdict on a name before any of it is dialled.
THEOREM ObserverToldFirst == Spec => []ToldBeforeDialled
<1>1. IInv => ToldBeforeDialled
  <2> SUFFICES ASSUME IInv PROVE ToldBeforeDialled
    OBVIOUS
  <2>1. ASSUME source = "resolve", Dialled # {}, NEW i \in 1..Len(rows)
        PROVE  Judged(rows[i])
    BY <2>1, DialledMeansPinned DEF IInv, ChosenOnce
  <2>2. outcome = "socket" =>
          told[Len(told)] = [stage |-> "peer", outcome |-> "permitted", ip |-> peer]
    BY DEF IInv, Failover
  <2> QED BY <2>1, <2>2 DEF ToldBeforeDialled, Judged
<1> QED BY Invariance, <1>1, PTL

-----------------------------------------------------------------------------
(* The refinement of Pin.                                                  *)

LEMMA InitRefines == Init => Promise!Init
  BY DEF Init, Promise!Init, PinPhase

\* The steps of Pin, with the mapping of PinnedConnect written out.
PinChoices == {permitted[i] : i \in 1..Len(permitted)}

LEMMA NextRefines == IInv /\ [Next]_vars => [Promise!Next]_(Promise!vars)
<1> SUFFICES ASSUME IInv, [Next]_vars
             PROVE  Promise!Next \/ UNCHANGED Promise!vars
  OBVIOUS
<1> USE DEF PinPhase, resolving, connecting, request, Finish, Fresh, Refusals
<1>0. /\ pc # "done" => outcome = "none"
      /\ Len(tried) \in Nat /\ Len(permitted) \in Nat
      /\ pc \in {"idle", "lookup", "reading", "checking", "recheck", "opening",
                 "connecting", "verifying", "done"}
  BY DEF IInv, Control, TypeOK
<1>1. CASE Begin \/ Retry \/ DirectConnect
  <2>1. pc \in {"idle", "done"} /\ pc' \in {"lookup", "recheck"}
    BY <1>1 DEF Begin, Retry, DirectConnect
  <2>2. CASE pc = "idle"
    BY <2>1, <2>2 DEF Promise!vars
  <2>3. CASE pc = "done"
    BY <2>1, <2>3 DEF Promise!Next, Promise!StartOver, Promise!Ended
  <2> QED BY <2>1, <2>2, <2>3
<1>2. CASE Lookup \/ ReadRow \/ StartChecking \/ AnswerPermitted \/ AnswerRefused \/ Resolved
  <2>1. /\ pc \in {"lookup", "reading", "checking"}
        /\ pc' \in {"reading", "checking", "recheck"}
    BY <1>2 DEF Lookup, ReadRow, StartChecking, AnswerPermitted, AnswerRefused, Resolved
  <2> QED BY <2>1 DEF Promise!vars
<1>3. CASE LookupFails \/ ReadUnreadable \/ NothingAnswered \/ RefuseName
           \/ RecheckRefuses \/ NothingToConnect
  <2>1. /\ pc \in {"lookup", "reading", "checking", "recheck"}
        /\ pc' = "done" /\ outcome' \in {"gaierror", "ValueError", "BlockedAddressError"}
    BY <1>3 DEF LookupFails, ReadUnreadable, NothingAnswered, RefuseName,
       RecheckRefuses, NothingToConnect
  <2>2. Promise!Stop
    BY <2>1 DEF Promise!Stop, Promise!Ended
  <2> QED BY <2>2 DEF Promise!Next
<1>4. CASE Recheck
  <2>1. /\ pc = "recheck" /\ pc' = "opening" /\ permitted # << >>
        /\ permitted' = permitted /\ tried' = tried /\ tried = << >>
        /\ \A i \in 1..Len(permitted) : permitted[i].ip \in Permitted
    BY <1>4 DEF Recheck, IInv, Control, Choosing
  <2>2. \A i \in 1..Len(permitted) : permitted[i] \in Answer
    BY DEF IInv, TypeOK
  <2>3. PinChoices \in SUBSET {a \in Answer : a.ip \in Permitted}
    BY <2>1, <2>2 DEF PinChoices
  <2>4. PinChoices # {}
    <3>1. permitted \in Seq(Answer)
      BY DEF IInv, TypeOK
    <3>2. permitted[1] \in PinChoices
      BY <2>1, <3>1 DEF PinChoices
    <3> QED BY <3>2
  <2>5. Promise!Choose
    BY <2>1, <2>3, <2>4 DEF Promise!Choose, PinChoices
  <2> QED BY <2>5 DEF Promise!Next
<1>5. CASE OpenSocket
  <2>1. /\ pc = "opening" /\ pc' = "connecting" /\ Len(tried) < Allowance
        /\ permitted' = permitted /\ tried' = tried /\ Current' = Current
    BY <1>5 DEF OpenSocket, Current
  <2>2. /\ Len(tried) < MaxAttempts /\ Len(tried) < Len(permitted)
    BY <1>0, <2>1, PolicyAssumption DEF Allowance
  <2>3. Current \in PinChoices
    BY <1>0, <2>2 DEF Current, PinChoices
  <2>4. Promise!Dial
    BY <1>0, <2>1, <2>2, <2>3 DEF Promise!Dial, PinChoices
  <2> QED BY <2>4 DEF Promise!Next
<1>6. CASE NoSocket
  <2>1. /\ pc = "opening" /\ pc' = "opening" /\ permitted' = permitted
        /\ Len(tried) < MaxAttempts
        /\ tried' = Append(tried, [answer |-> Current, result |-> "OSError"])
    BY <1>0, <1>6, PolicyAssumption DEF NoSocket, Attempted, Allowance
  <2>2. Len(tried') = Len(tried) + 1
    BY <2>1 DEF IInv, TypeOK
  <2>3. Promise!Skip
    BY <1>0, <2>1, <2>2 DEF Promise!Skip
  <2> QED BY <2>3 DEF Promise!Next
<1>7. CASE Accepted
  <2>1. /\ pc = "connecting" /\ pc' = "verifying"
        /\ permitted' = permitted /\ tried' = tried /\ Current' = Current
    BY <1>7 DEF Accepted, Current
  <2> QED BY <2>1 DEF Promise!vars
<1>8. CASE AttemptFails
  <2>1. /\ pc \in {"connecting", "verifying"} /\ pc' = "opening" /\ permitted' = permitted
        /\ \E result \in {"OSError", "TimeoutError"} : Attempted(result)
    BY <1>8 DEF AttemptFails
  <2>2. Len(tried') = Len(tried) + 1
    BY <2>1 DEF Attempted, IInv, TypeOK
  <2>3. Promise!Miss
    BY <1>0, <2>1, <2>2 DEF Promise!Miss
  <2> QED BY <2>3 DEF Promise!Next
<1>9. CASE VerifyPeer
  <2>1. /\ pc = "verifying" /\ pc' = "done" /\ outcome' = "socket"
        /\ peer' = peer /\ peer = Current.ip
        /\ tried' = Append(tried, [answer |-> Current, result |-> "connected"])
    BY <1>9 DEF VerifyPeer, Attempted
  <2>2. tried'[Len(tried')].answer = Current
    BY <2>1 DEF IInv, TypeOK
  <2>3. Promise!Land
    BY <2>1, <2>2 DEF Promise!Land
  <2> QED BY <2>3 DEF Promise!Next
<1>10. CASE PeerRewritten \/ Exhausted \/ Interrupted
  <2>1. /\ pc \in {"opening", "connecting", "verifying"}
        /\ pc' = "done" /\ outcome' \in {"BlockedAddressError", "TimeoutError", "OSError",
                                         "interrupted"}
    BY <1>10 DEF PeerRewritten, Exhausted, Interrupted
  <2>2. Promise!Stop
    BY <2>1 DEF Promise!Stop, Promise!Ended
  <2> QED BY <2>2 DEF Promise!Next
<1>11. CASE UNCHANGED vars
  BY <1>11 DEF vars, Promise!vars, Current
<1> QED BY <1>1, <1>2, <1>3, <1>4, <1>5, <1>6, <1>7, <1>8, <1>9, <1>10, <1>11
        DEF Next, Resolve, Connect

\* resolve() and connect() implement the promise of Pin: what may be dialled is
\* fixed once, before the first dial, out of permitted answers.
THEOREM PinImplemented == Spec => KeepsThePin
<1>1. Init => Promise!Init
  BY InitRefines
<1>2. IInv /\ [Next]_vars => [Promise!Next]_(Promise!vars)
  BY NextRefines
<1> QED BY <1>1, <1>2, Invariance, PTL DEF Spec, KeepsThePin, Promise!Spec
=============================================================================
