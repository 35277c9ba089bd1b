------------------------- MODULE AddressTableProofs -------------------------
(***************************************************************************)
(* Proofs about AddressTable, for every hextet width, every five wrapper   *)
(* networks of the right lengths, every block tuple and every set of       *)
(* allowed networks.                                                       *)
(***************************************************************************)
EXTENDS AddressTable, WellFoundedInduction, TLAPS

-----------------------------------------------------------------------------
(* Lookup: the row match() finds exists and is the most specific one.      *)

\* A nonempty set of naturals has a least element.
LEMMA LeastNatural ==
  ASSUME NEW T, T \subseteq Nat, T # {}
  PROVE  \E x \in T : \A y \in T : x <= y
<1> DEFINE R == {ss \in Nat \X Nat : ss[1] < ss[2]}
<1>1. IsWellFoundedOn(R, Nat)
  BY NatLessThanWellFounded, Zenon DEF OpToRel
<1>2. PICK x \in T : \A y \in T : ~ (<<y, x>> \in R)
  <2> HIDE DEF R
  <2> QED BY <1>1, WFMin, Zenon
<1>3. \A y \in T : ~(y < x)
  BY <1>2
<1> QED BY <1>3

\* What the proofs use of a row: its network has a version, a length within the
\* width of the version, and bits.
LEMMA RowType ==
  ASSUME NEW list \in Seq(Block), NEW i \in Rows(list)
  PROVE  /\ i \in Nat \ {0}
         /\ list[i] \in Block
         /\ list[i].network \in Network
         /\ list[i].reach \in Reach
         /\ list[i].network.version \in {4, 6}
         /\ list[i].network.len \in 0..(8 * HextetBits)
         /\ list[i].network.len \in Nat
<1>1. list[i] \in Block
  BY DEF Rows
<1>2. list[i].network \in Network /\ list[i].reach \in Reach
  BY <1>1 DEF Block
<1>3. HextetBits \in Nat \ {0}
  BY HextetAssumption
<1> QED BY <1>1, <1>2, <1>3 DEF Network, NetworkOf, Width, Rows

\* Any nonempty set of rows has one that precedes the others in the index, and a
\* longest one.
LEMMA FirstRow ==
  ASSUME NEW list \in Seq(Block), NEW S \in SUBSET Rows(list), S # {}
  PROVE  /\ \E i \in S : \A j \in S : Precedes(list, i, j)
         /\ \E i \in S : \A j \in S : list[i].network.len >= list[j].network.len
<1> DEFINE W == 8 * HextetBits
           len(i) == list[i].network.len
           Keys == {W - len(i) : i \in S}
<1>1. W \in Nat /\ \A i \in S : len(i) \in Nat /\ len(i) <= W /\ W - len(i) \in Nat
  BY RowType, HextetAssumption
<1>2. Keys \subseteq Nat /\ Keys # {}
  BY <1>1
<1>3. PICK k \in Keys : \A y \in Keys : k <= y
  BY <1>2, LeastNatural
<1>4. PICK m \in S : k = W - len(m)
  OBVIOUS
<1>5. \A j \in S : len(m) >= len(j)
  <2> TAKE j \in S
  <2>1. W - len(j) \in Keys
    OBVIOUS
  <2>2. W - len(m) <= W - len(j)
    BY <1>3, <1>4, <2>1
  <2> HIDE DEF W, len
  <2> QED BY <1>1, <2>2
<1> DEFINE T == {i \in S : len(i) = len(m)}
<1>6. T \subseteq Nat /\ T # {}
  BY RowType
<1>7. PICK f \in T : \A y \in T : f <= y
  BY <1>6, LeastNatural
<1>8. \A j \in S : Precedes(list, f, j)
  <2> SUFFICES ASSUME NEW j \in S PROVE Precedes(list, f, j)
    OBVIOUS
  <2>1. len(m) >= len(j) /\ len(j) \in Nat /\ len(f) = len(m)
    BY <1>1, <1>5, <1>7
  <2>2. len(j) = len(m) => f <= j
    BY <1>7
  <2>3. \/ len(f) > len(j)
        \/ len(f) = len(j) /\ f <= j
    <3> HIDE DEF len
    <3> QED BY <1>1, <2>1, <2>2
  <2> QED BY <2>3, Zenon DEF Precedes
<1> QED BY <1>5, <1>8

\* Match finds a row exactly when some row holds the address, and the row it finds
\* holds it and has the longest prefix of those that do.
LEMMA MatchFinds ==
  ASSUME NEW list \in Seq(Block), NEW a
  PROVE  /\ Match(list, a) \in 0..Len(list)
         /\ Match(list, a) # NoRow =>
              /\ Match(list, a) \in Rows(list)
              /\ Holds(list[Match(list, a)].network, a)
              /\ \A j \in Rows(list) : Holds(list[j].network, a) =>
                    list[Match(list, a)].network.len >= list[j].network.len
<1> DEFINE S == {i \in Rows(list) : Holds(list[i].network, a)}
<1>1. CASE S = {}
  BY <1>1 DEF Match, NoRow
<1>2. CASE S # {}
  <2>1. \E i \in S : \A j \in S : Precedes(list, i, j)
    <3> HIDE DEF S
    <3> SUFFICES S \in SUBSET Rows(list) BY <1>2, FirstRow
    <3> QED BY DEF S
  <2>2. Match(list, a) = CHOOSE i \in S : \A j \in S : Precedes(list, i, j)
    BY <1>2 DEF Match
  <2>3. Match(list, a) \in S /\ \A j \in S : Precedes(list, Match(list, a), j)
    BY <2>1, <2>2
  <2>4. \A j \in S : list[Match(list, a)].network.len >= list[j].network.len
    BY <2>3, RowType DEF Precedes
  <2> QED BY <2>3, <2>4 DEF Rows
<1> QED BY <1>1, <1>2

\* DecidingBlock likewise, for the rows that contain a whole network.
LEMMA DecidingBlockFinds ==
  ASSUME NEW list \in Seq(Block), NEW n,
         NEW c \in Rows(list), WhollyInside(n, list[c].network)
  PROVE  /\ DecidingBlock(list, n) \in Rows(list)
         /\ WhollyInside(n, list[DecidingBlock(list, n)].network)
         /\ list[DecidingBlock(list, n)].network.len >= list[c].network.len
<1> DEFINE S == {i \in Rows(list) : WhollyInside(n, list[i].network)}
<1>1. c \in S /\ S \in SUBSET Rows(list)
  OBVIOUS
<1>2. \E i \in S : \A j \in S : list[i].network.len >= list[j].network.len
  <2> HIDE DEF S
  <2> QED BY <1>1, FirstRow
<1>3. DecidingBlock(list, n) =
        CHOOSE i \in S : \A j \in S : list[i].network.len >= list[j].network.len
  BY <1>1 DEF DecidingBlock
<1> QED BY <1>1, <1>2, <1>3

\* Two networks of one length that hold the same address are one network: strict
\* networks have nothing after the prefix to differ in.
LEMMA SamePrefixSameNetwork ==
  ASSUME NEW m \in Network, NEW n \in Network, NEW a,
         Holds(m, a), Holds(n, a), m.len = n.len
  PROVE  m = n
<1>1. PICK v \in {4, 6} : m \in NetworkOf(v) /\ n \in NetworkOf(v)
  BY DEF Holds, Network, NetworkOf
<1>2. /\ m = [version |-> v, bits |-> m.bits, len |-> m.len]
      /\ n = [version |-> v, bits |-> n.bits, len |-> n.len]
      /\ m.bits \in [1..Width(v) -> {0, 1}] /\ n.bits \in [1..Width(v) -> {0, 1}]
      /\ m.len \in 0..Width(v)
  BY <1>1 DEF NetworkOf, Bits
<1>3. \A i \in 1..Width(v) : m.bits[i] = n.bits[i]
  <2> TAKE i \in 1..Width(v)
  <2>1. Width(v) \in Nat
    BY HextetAssumption DEF Width
  <2>2. CASE i <= m.len
    BY <1>2, <2>1, <2>2 DEF Holds
  <2>3. CASE ~(i <= m.len)
    BY <1>1, <1>2, <2>1, <2>3 DEF NetworkOf
  <2> QED BY <2>2, <2>3
<1>4. m.bits = n.bits
  <2> DEFINE f == m.bits
             g == n.bits
  <2>1. /\ f \in [1..Width(v) -> {0, 1}] /\ g \in [1..Width(v) -> {0, 1}]
        /\ \A i \in 1..Width(v) : f[i] = g[i]
    BY <1>2, <1>3
  <2>2. f = g
    <3> HIDE DEF f, g
    <3> DEFINE D == 1..Width(v)
    <3>1. f \in [D -> {0, 1}] /\ g \in [D -> {0, 1}] /\ \A i \in D : f[i] = g[i]
      BY <2>1
    <3> HIDE DEF D
    <3> QED BY <3>1
  <2> QED BY <2>2 DEF f, g
<1> QED BY <1>2, <1>4

\* Prefixes are nested: of two that hold an address, the longer is inside the
\* shorter.
LEMMA PrefixesNest ==
  ASSUME NEW m \in Network, NEW n \in Network, NEW a,
         Holds(m, a), Holds(n, a), n.len <= m.len
  PROVE  WhollyInside(m, n)
<1>1. m.len \in Nat /\ n.len \in Nat
  BY HextetAssumption DEF Network, NetworkOf, Width
<1> QED BY <1>1 DEF WhollyInside, Holds

-----------------------------------------------------------------------------
(* Classification: what a verdict is made of.                              *)

\* A refusal by the table names a row of it.
LEMMA ClassifyV4Type ==
  ASSUME NEW list \in Seq(Block), NEW a
  PROVE  /\ ClassifyV4(list, a) \in [blocked : BOOLEAN, row : 0..Len(list)]
         /\ ClassifyV4(list, a).blocked => ClassifyV4(list, a).row # NoRow
  BY MatchFinds DEF ClassifyV4, Verdict

\* Every wrapper row decodes to a sequence of IPv4 addresses.
LEMMA EmbeddedV4Type ==
  ASSUME NEW a \in AddressOf(6), NEW n \in Network
  PROVE  EmbeddedV4(a, n) \in Seq(AddressOf(4))
<1>1. \A h \in {1, 2, 6} : Payload(a, h) \in AddressOf(4)
  BY HextetAssumption DEF AddressOf, Payload, Bits, Width
<1>2. Inverted(Payload(a, 6)) \in AddressOf(4)
  <2>1. ASSUME NEW p \in AddressOf(4)
        PROVE  Inverted(p) \in AddressOf(4)
    <3>1. PICK f \in [1..Width(4) -> {0, 1}] : p = [version |-> 4, bits |-> f]
      BY DEF AddressOf, Bits
    <3> DEFINE flipped == [i \in 1..Width(4) |-> 1 - f[i]]
    <3>2. flipped \in [1..Width(4) -> {0, 1}]
      <4>1. \A i \in 1..Width(4) : 1 - f[i] \in {0, 1}
        <5> TAKE i \in 1..Width(4)
        <5>1. f[i] = 0 \/ f[i] = 1
          OBVIOUS
        <5> QED BY <5>1
      <4> QED BY <4>1
    <3>3. Inverted(p) = [version |-> 4, bits |-> flipped]
      BY <3>1 DEF Inverted
    <3> QED BY <3>2, <3>3 DEF AddressOf, Bits
  <2> QED BY <1>1, <2>1
<1> QED BY <1>1, <1>2 DEF EmbeddedV4

\* The verdict on a translated row: refused unless it decodes to at least one
\* address and the table refuses none of them.
LEMMA ClassifyInnerVerdict ==
  ASSUME NEW list \in Seq(Block), NEW row \in Rows(list),
         NEW inner \in Seq(AddressOf(4))
  PROVE  LET v == ClassifyInner(list, row, inner)
         IN  /\ v \in [blocked : BOOLEAN, row : 0..Len(list)]
             /\ v.blocked => v.row # NoRow
             /\ ~v.blocked => /\ Len(inner) >= 1
                              /\ \A i \in 1..Len(inner) :
                                    ~ClassifyV4(list, inner[i]).blocked
<1> DEFINE refused == {i \in 1..Len(inner) : ClassifyV4(list, inner[i]).blocked}
           first == CHOOSE i \in refused : \A j \in refused : i <= j
           v == ClassifyInner(list, row, inner)
<1>1. row \in 0..Len(list) /\ row # NoRow
  BY DEF Rows, NoRow
<1>2. CASE inner = << >>
  <2>1. v = Verdict(TRUE, row)
    BY <1>2 DEF ClassifyInner
  <2> QED BY <1>1, <2>1 DEF Verdict
<1>3. CASE inner # << >> /\ refused # {}
  <2>1. \E i \in refused : \A j \in refused : i <= j
    <3>1. refused \subseteq Nat /\ refused # {}
      BY <1>3
    <3> QED BY <3>1, LeastNatural
  <2>2. first \in refused
    BY <2>1
  <2>3. v = ClassifyV4(list, inner[first])
    BY <1>3 DEF ClassifyInner
  <2>4. v.blocked
    BY <2>2, <2>3
  <2> QED BY <2>3, <2>4, ClassifyV4Type
<1>4. CASE inner # << >> /\ refused = {}
  <2>1. v = Verdict(FALSE, row)
    BY <1>4 DEF ClassifyInner
  <2>2. Len(inner) >= 1
    BY <1>4
  <2>3. \A i \in 1..Len(inner) : ~ClassifyV4(list, inner[i]).blocked
    BY <1>4
  <2> QED BY <1>1, <2>1, <2>2, <2>3 DEF Verdict
<1> QED BY <1>2, <1>3, <1>4

\* The verdict of the policy has its type, and refuses with a row.
LEMMA CheckAddressType ==
  ASSUME NEW list \in Seq(Block), NEW networks, NEW a \in Address
  PROVE  LET v == CheckAddress(list, networks, a)
         IN  /\ v \in [blocked : BOOLEAN, row : 0..Len(list)]
             /\ v.blocked => v.row # NoRow
<1>1. CASE \E n \in networks : Holds(n, a)
  BY <1>1 DEF CheckAddress, Verdict, NoRow
<1>2. CASE ~\E n \in networks : Holds(n, a)
  <2> DEFINE row == Match(list, a)
             wrapped == a.version = 6 /\ row # NoRow /\ list[row].reach = "translated"
  <2>1. CASE wrapped
    <3>1. row \in Rows(list) /\ a \in AddressOf(6)
      BY <2>1, MatchFinds DEF Address, AddressOf
    <3>2. EmbeddedV4(a, list[row].network) \in Seq(AddressOf(4))
      BY <3>1, RowType, EmbeddedV4Type
    <3>3. CheckAddress(list, networks, a)
            = ClassifyInner(list, row, EmbeddedV4(a, list[row].network))
      BY <1>2, <2>1 DEF CheckAddress, Classify
    <3> HIDE DEF row
    <3> QED BY <3>1, <3>2, <3>3, ClassifyInnerVerdict
  <2>2. CASE ~wrapped
    <3>1. CheckAddress(list, networks, a) = ClassifyV4(list, a)
      BY <1>2, <2>2 DEF CheckAddress, Classify
    <3> QED BY <3>1, ClassifyV4Type
  <2> QED BY <2>1, <2>2
<1> QED BY <1>1, <1>2

-----------------------------------------------------------------------------
(* The inductive invariant.                                                *)

\* What construction established and nothing later changes: rows with distinct
\* networks, and no allow entry that a translated row decides.
Accepted ==
    /\ ~DuplicateNetworks(blocks)
    /\ ~AllowsATranslationPrefix(blocks, allowed)
    /\ stage # "policy" => allowed = {}
    /\ stage = "new" => blocks = << >>

\* The latest answer is what the table and the policy in force say.
AnswersCurrent ==
    \A v \in answers :
        /\ stage = "policy"
        /\ v.said = CheckAddress(blocks, allowed, v.asked)

IInv == TypeOK /\ Accepted /\ AnswersCurrent

LEMMA InitIInv == Init => IInv
  BY DEF Init, IInv, TypeOK, Accepted, AnswersCurrent, DuplicateNetworks,
         AllowsATranslationPrefix

LEMMA NextIInv == IInv /\ [Next]_vars => IInv'
<1> SUFFICES ASSUME IInv, [Next]_vars
             PROVE  IInv'
  OBVIOUS
<1> USE DEF IInv
<1>1. ASSUME NEW list \in BlockLists, BuildTable(list)
      PROVE  IInv'
  <2>1. list \in Seq(Block) /\ answers = {} /\ allowed = {}
    BY <1>1, InputAssumption DEF BuildTable, Accepted, AnswersCurrent
  <2>2. TypeOK'
    BY <1>1, <2>1 DEF BuildTable, TypeOK
  <2>3. Accepted'
    BY <1>1, <2>1 DEF BuildTable, Accepted, AllowsATranslationPrefix
  <2>4. AnswersCurrent'
    BY <1>1, <2>1 DEF BuildTable, AnswersCurrent
  <2> QED BY <2>2, <2>3, <2>4
<1>2. ASSUME NEW networks \in AllowLists, BuildPolicy(networks)
      PROVE  IInv'
  <2>1. networks \in SUBSET Network /\ answers = {}
    BY <1>2, InputAssumption DEF BuildPolicy, AnswersCurrent
  <2>2. TypeOK'
    BY <1>2, <2>1 DEF BuildPolicy, TypeOK
  <2>3. Accepted'
    BY <1>2, <2>1 DEF BuildPolicy, Accepted
  <2>4. AnswersCurrent'
    BY <1>2, <2>1 DEF BuildPolicy, AnswersCurrent
  <2> QED BY <2>2, <2>3, <2>4
<1>3. ASSUME NEW address \in Address, Ask(address)
      PROVE  IInv'
  <2>1. /\ answers' = {[asked |-> address, said |-> CheckAddress(blocks, allowed, address)]}
        /\ stage = "policy" /\ UNCHANGED <<stage, blocks, allowed>>
    BY <1>3 DEF Ask
  <2>2. TypeOK'
    <3>1. /\ CheckAddress(blocks, allowed, address) \in [blocked : BOOLEAN, row : 0..Len(blocks)]
          /\ CheckAddress(blocks, allowed, address).blocked
                => CheckAddress(blocks, allowed, address).row # NoRow
      BY CheckAddressType DEF TypeOK
    <3> QED BY <2>1, <3>1 DEF TypeOK
  <2>3. Accepted'
    BY <2>1 DEF Accepted
  <2>4. AnswersCurrent'
    BY <2>1 DEF AnswersCurrent
  <2> QED BY <2>2, <2>3, <2>4
<1>4. CASE UNCHANGED vars
  <2>1. TypeOK'
    BY <1>4 DEF vars, TypeOK
  <2>2. Accepted'
    BY <1>4 DEF vars, Accepted
  <2>3. AnswersCurrent'
    BY <1>4 DEF vars, AnswersCurrent
  <2> QED BY <2>1, <2>2, <2>3
<1> QED BY <1>1, <1>2, <1>3, <1>4 DEF Next

LEMMA Invariance == Spec => []IInv
  BY InitIInv, NextIInv, PTL DEF Spec

\* Every configuration a caller can build and every answer it can get is well
\* formed, and a refusal names the row behind it.
THEOREM TypeCorrect == Spec => []TypeOK
<1>1. IInv => TypeOK
  BY DEF IInv
<1> QED BY Invariance, <1>1, PTL

-----------------------------------------------------------------------------
(* The theorems.                                                           *)

\* Of the rows of an accepted table that hold an address, no two have one length:
\* they would be one network, which construction refused.
THEOREM UnambiguousLookup == Spec => []LookupIsUnambiguous
<1>1. IInv => LookupIsUnambiguous
  <2> SUFFICES ASSUME IInv,
                      NEW v \in answers, NEW i \in Rows(blocks), NEW j \in Rows(blocks),
                      Holds(blocks[i].network, v.asked),
                      Holds(blocks[j].network, v.asked),
                      blocks[i].network.len = blocks[j].network.len
               PROVE  i = j
    BY DEF LookupIsUnambiguous
  <2>1. blocks \in Seq(Block)
    BY DEF IInv, TypeOK
  <2>2. blocks[i].network = blocks[j].network
    BY <2>1, RowType, SamePrefixSameNetwork
  <2>3. i \in 1..Len(blocks) /\ j \in 1..Len(blocks)
    BY DEF Rows
  <2> QED BY <2>2, <2>3 DEF IInv, Accepted, DuplicateNetworks
<1> QED BY Invariance, <1>1, PTL

\* The decoder reads a payload from where the RFC of the wrapper puts it.
LEMMA DecodedWhereCarried ==
  ASSUME NEW a \in AddressOf(6), NEW n \in Network, NEW d \in AddressOf(4),
         Carries(n, a, d)
  PROVE  \E i \in 1..Len(EmbeddedV4(a, n)) : EmbeddedV4(a, n)[i] = d
<1>1. d = [version |-> 4, bits |-> d.bits] /\ d.bits \in [1..Width(4) -> {0, 1}]
  BY DEF AddressOf, Bits
<1>2. ASSUME NEW h \in {1, 2, 6},
             \A i \in 1..Width(4) : a.bits[h * HextetBits + i] = d.bits[i]
      PROVE  Payload(a, h) = d
  BY <1>1, <1>2 DEF Payload
<1>3. ASSUME \A i \in 1..Width(4) : a.bits[6 * HextetBits + i] # d.bits[i]
      PROVE  Inverted(Payload(a, 6)) = d
  <2>1. \A i \in 1..Width(4) : a.bits[6 * HextetBits + i] \in {0, 1}
    BY HextetAssumption DEF AddressOf, Bits, Width
  <2>2. \A i \in 1..Width(4) : 1 - a.bits[6 * HextetBits + i] = d.bits[i]
    <3> TAKE i \in 1..Width(4)
    <3>1. /\ a.bits[6 * HextetBits + i] \in {0, 1} /\ d.bits[i] \in {0, 1}
          /\ a.bits[6 * HextetBits + i] # d.bits[i]
      BY <1>1, <1>3, <2>1
    <3> DEFINE x == a.bits[6 * HextetBits + i]
               y == d.bits[i]
    <3> HIDE DEF x, y
    <3>2. 1 - x = y
      BY <3>1 DEF x, y
    <3> QED BY <3>2 DEF x, y
  <2>3. Inverted(Payload(a, 6))
          = [version |-> 4, bits |-> [i \in 1..Width(4) |-> 1 - a.bits[6 * HextetBits + i]]]
    <3>1. \A i \in 1..Width(4) : Payload(a, 6).bits[i] = a.bits[6 * HextetBits + i]
      BY DEF Payload
    <3> QED BY <3>1 DEF Inverted
  <2> QED BY <1>1, <2>2, <2>3
<1>4. CASE n \in {V4MAPPED, V4COMPAT, NAT64}
  <2>1. EmbeddedV4(a, n) = <<Payload(a, 6)>>
    BY <1>4, WrapperAssumption DEF EmbeddedV4
  <2>2. Payload(a, 6) = d
    BY <1>2, <1>4, WrapperAssumption DEF Carries
  <2> QED BY <2>1, <2>2
<1>5. CASE n = SIXTOFOUR
  <2>1. EmbeddedV4(a, n) = <<Payload(a, 1)>>
    BY <1>5, WrapperAssumption DEF EmbeddedV4
  <2>2. Payload(a, 1) = d
    BY <1>2, <1>5, WrapperAssumption DEF Carries
  <2> QED BY <2>1, <2>2
<1>6. CASE n = TEREDO
  <2>1. EmbeddedV4(a, n) = <<Payload(a, 2), Inverted(Payload(a, 6))>>
    BY <1>6, WrapperAssumption DEF EmbeddedV4
  <2>2. Payload(a, 2) = d \/ Inverted(Payload(a, 6)) = d
    BY <1>2, <1>3, <1>6, WrapperAssumption DEF Carries
  <2> QED BY <2>1, <2>2
<1> QED BY <1>4, <1>5, <1>6 DEF Carries

\* What the decoder reads first is one of the addresses the wrapper carries.
LEMMA DecodedIsCarried ==
  ASSUME NEW a \in AddressOf(6), NEW n \in Network, Len(EmbeddedV4(a, n)) >= 1
  PROVE  \E d \in AddressOf(4) : Carries(n, a, d)
<1>1. EmbeddedV4(a, n)[1] \in AddressOf(4)
  BY EmbeddedV4Type
<1>2. Carries(n, a, EmbeddedV4(a, n)[1])
  <2>1. CASE n \in {V4MAPPED, V4COMPAT, NAT64}
    BY <2>1 DEF Carries, EmbeddedV4, Payload
  <2>2. CASE n = SIXTOFOUR
    BY <2>2, WrapperAssumption DEF Carries, EmbeddedV4, Payload
  <2>3. CASE n = TEREDO
    BY <2>3, WrapperAssumption DEF Carries, EmbeddedV4, Payload
  <2>4. CASE n \notin {V4MAPPED, V4COMPAT, NAT64, SIXTOFOUR, TEREDO}
    BY <2>4 DEF EmbeddedV4
  <2> QED BY <2>1, <2>2, <2>3, <2>4
<1> QED BY <1>1, <1>2

\* An IPv6 address a translated row matches is let through by the table only when
\* every IPv4 address in it, by the RFC of the wrapper, is one the table lets
\* through by itself.
THEOREM NothingHidden == Spec => []WrapperHidesNothing
<1>1. IInv => WrapperHidesNothing
  <2> SUFFICES ASSUME IInv, NEW v \in answers,
                      ~v.said.blocked,
                      ~\E n \in allowed : Holds(n, v.asked),
                      Match(blocks, v.asked) # NoRow,
                      blocks[Match(blocks, v.asked)].reach = "translated"
               PROVE  LET row == Match(blocks, v.asked)
                      IN  /\ \E d \in AddressOf(4) : Carries(blocks[row].network, v.asked, d)
                          /\ \A d \in AddressOf(4) :
                                Carries(blocks[row].network, v.asked, d)
                                    => ~ClassifyV4(blocks, d).blocked
    BY DEF WrapperHidesNothing
  <2> DEFINE row == Match(blocks, v.asked)
             inner == EmbeddedV4(v.asked, blocks[row].network)
  <2>1. blocks \in Seq(Block) /\ v.asked \in Address
    BY DEF IInv, TypeOK
  <2>2. v.said = Classify(blocks, v.asked)
    BY DEF IInv, AnswersCurrent, CheckAddress
  <2>3. v.asked.version = 6
    <3>1. ClassifyV4(blocks, v.asked).blocked
      BY DEF ClassifyV4, Verdict
    <3>2. v.said # ClassifyV4(blocks, v.asked)
      BY <3>1
    <3>3. CASE v.asked.version # 6
      BY <2>2, <3>2, <3>3 DEF Classify
    <3> QED BY <3>3
  <2>4. v.asked \in AddressOf(6)
    BY <2>1, <2>3 DEF Address, AddressOf
  <2>5. row \in Rows(blocks) /\ blocks[row].network \in Network
    BY <2>1, MatchFinds, RowType
  <2>6. inner \in Seq(AddressOf(4))
    BY <2>4, <2>5, EmbeddedV4Type
  <2>7. v.said = ClassifyInner(blocks, row, inner)
    BY <2>2, <2>3 DEF Classify
  <2>8. Len(inner) >= 1 /\ \A i \in 1..Len(inner) : ~ClassifyV4(blocks, inner[i]).blocked
    <3> HIDE DEF row, inner
    <3> QED BY <2>1, <2>5, <2>6, <2>7, ClassifyInnerVerdict
  <2>9. \E d \in AddressOf(4) : Carries(blocks[row].network, v.asked, d)
    BY <2>4, <2>5, <2>8, DecodedIsCarried
  <2>10. ASSUME NEW d \in AddressOf(4), Carries(blocks[row].network, v.asked, d)
         PROVE  ~ClassifyV4(blocks, d).blocked
    BY <2>4, <2>5, <2>8, <2>10, DecodedWhereCarried
  <2> QED BY <2>9, <2>10
<1> QED BY Invariance, <1>1, PTL

\* The question _deciding_block asks about a whole network when a policy is built
\* covers every address check_address is asked about later: an allow entry that
\* permits an undecoded wrapper address strictly contains the wrapper.
THEOREM DecodingNeverSkipped == Spec => []AllowNeverSkipsDecoding
<1>1. IInv => AllowNeverSkipsDecoding
  <2> SUFFICES ASSUME IInv, NEW v \in answers, NEW n \in allowed,
                      Holds(n, v.asked),
                      Match(blocks, v.asked) # NoRow,
                      blocks[Match(blocks, v.asked)].reach = "translated"
               PROVE  LET w == blocks[Match(blocks, v.asked)].network
                      IN  WhollyInside(w, n) /\ n # w
    BY DEF AllowNeverSkipsDecoding
  <2> DEFINE row == Match(blocks, v.asked)
             w == blocks[row].network
             c == DecidingBlock(blocks, n)
  <2>1. blocks \in Seq(Block) /\ n \in Network
    BY DEF IInv, TypeOK
  <2>2. /\ row \in Rows(blocks)
        /\ Holds(w, v.asked)
        /\ \A j \in Rows(blocks) : Holds(blocks[j].network, v.asked) =>
              w.len >= blocks[j].network.len
    BY <2>1, MatchFinds
  <2>3. w \in Network /\ w.len \in Nat /\ n.len \in Nat
    BY <2>1, <2>2, RowType, HextetAssumption DEF Network, NetworkOf, Width
  <2>4. ASSUME w.len <= n.len
        PROVE  FALSE
    <3>1. WhollyInside(n, w)
      BY <2>1, <2>2, <2>3, <2>4, PrefixesNest
    <3>2. /\ c \in Rows(blocks)
          /\ WhollyInside(n, blocks[c].network)
          /\ blocks[c].network.len >= w.len
      BY <2>1, <2>2, <3>1, DecidingBlockFinds
    <3>3. blocks[c].network \in Network /\ blocks[c].network.len \in Nat
      BY <2>1, <3>2, RowType
    <3>4. Holds(blocks[c].network, v.asked)
      <4> DEFINE m == blocks[c].network
      <4>1. m.version = n.version /\ m.len <= n.len
            /\ \A i \in 1..m.len : n.bits[i] = m.bits[i]
        BY <3>2 DEF WhollyInside, Holds
      <4>2. n.version = v.asked.version /\ \A i \in 1..n.len : v.asked.bits[i] = n.bits[i]
        BY DEF Holds
      <4>3. m.len \in Nat
        BY <3>3
      <4> HIDE DEF m
      <4>4. Holds(m, v.asked)
        BY <2>3, <4>1, <4>2, <4>3 DEF Holds
      <4> QED BY <4>4 DEF m
    <3>5. blocks[c].network.len = w.len
      BY <2>2, <2>3, <3>2, <3>3, <3>4
    <3>6. blocks[c].network = w
      BY <2>2, <2>3, <3>3, <3>4, <3>5, SamePrefixSameNetwork
    <3>7. c = row
      BY <2>2, <3>2, <3>6 DEF IInv, Accepted, DuplicateNetworks, Rows
    <3>8. c # NoRow /\ blocks[c].reach = "translated"
      BY <3>2, <3>7 DEF Rows, NoRow
    <3> QED BY <3>8 DEF IInv, Accepted, AllowsATranslationPrefix
  <2>5. n.len < w.len
    BY <2>3, <2>4
  <2>6. WhollyInside(w, n)
    BY <2>1, <2>2, <2>3, <2>5, PrefixesNest
  <2> QED BY <2>3, <2>5, <2>6
<1> QED BY Invariance, <1>1, PTL
=============================================================================
