---------------------------- MODULE AddressTable ----------------------------
(***************************************************************************)
(* The address table of ssrfguard and the policy question asked of it:     *)
(* src/ssrfguard/_address.py (AddressTable, _embedded_v4) and the address  *)
(* half of src/ssrfguard/_policy.py (Policy.__post_init__,                 *)
(* _reject_allowing_a_translation_prefix, check_address).                  *)
(*                                                                         *)
(* A caller builds a table, builds a policy over it, and then asks the     *)
(* policy about addresses.  Construction refuses what the table or the     *)
(* policy could not mean; a refused construction leaves the caller where   *)
(* it was, free to try another configuration.                              *)
(*                                                                         *)
(* Addresses are bit strings.  The width is scaled: an IPv6 address is     *)
(* eight hextets and an IPv4 address two, of HextetBits bits each (16 in   *)
(* the code), so that the shifts and masks of _embedded_v4 keep their      *)
(* place whatever the width.                                               *)
(***************************************************************************)
EXTENDS Naturals, Sequences

CONSTANTS
    HextetBits,   \* bits in one hextet; 16 in the code
    V4MAPPED,     \* ::ffff:0:0/96, the five networks _embedded_v4 can decode
    V4COMPAT,     \* ::/96
    NAT64,        \* 64:ff9b::/96
    SIXTOFOUR,    \* 2002::/16
    TEREDO,       \* 2001::/32
    BlockLists,   \* the block tuples a caller may pass to AddressTable
    AllowLists    \* the allowed_networks a caller may pass to Policy

VARIABLES
    stage,        \* what the caller has built so far
    blocks,       \* AddressTable.blocks
    allowed,      \* Policy.allowed_networks
    answers       \* the latest answer of check_address; empty before the first

vars == <<stage, blocks, allowed, answers>>

-----------------------------------------------------------------------------
(* Addresses and networks.                                                 *)

Width(version) == IF version = 4 THEN 2 * HextetBits ELSE 8 * HextetBits

Bits(version) == [1..Width(version) -> {0, 1}]

AddressOf(version) == [version : {version}, bits : Bits(version)]

Address == AddressOf(4) \cup AddressOf(6)

\* ip_network is strict: the bits after the prefix are zero, so that equal
\* networks are equal records.
NetworkOf(version) ==
    {n \in [version : {version}, bits : Bits(version), len : 0..Width(version)] :
        \A i \in 1..Width(version) : i > n.len => n.bits[i] = 0}

Network == NetworkOf(4) \cup NetworkOf(6)

Reach == {"denied", "permitted", "translated"}

Block == [network : Network, reach : Reach]

ASSUME HextetAssumption == HextetBits \in Nat \ {0}

ASSUME WrapperAssumption ==
    /\ {V4MAPPED, V4COMPAT, NAT64, SIXTOFOUR, TEREDO} \subseteq NetworkOf(6)
    /\ \A n \in {V4MAPPED, V4COMPAT, NAT64} : n.len = 6 * HextetBits
    /\ SIXTOFOUR.len = HextetBits
    /\ TEREDO.len = 2 * HextetBits
    /\ TEREDO \notin {V4MAPPED, V4COMPAT, NAT64, SIXTOFOUR}
    /\ SIXTOFOUR \notin {V4MAPPED, V4COMPAT, NAT64}

ASSUME InputAssumption ==
    /\ BlockLists \subseteq Seq(Block)
    /\ AllowLists \subseteq SUBSET Network

\* `address in network`, with the version test check_address makes first.
Holds(network, address) ==
    /\ network.version = address.version
    /\ \A i \in 1..network.len : address.bits[i] = network.bits[i]

\* _wholly_inside: subnet_of, and FALSE across the two families.
WhollyInside(inner, outer) ==
    /\ outer.len <= inner.len
    /\ Holds(outer, inner)

-----------------------------------------------------------------------------
(* The table.                                                              *)

DuplicateNetworks(list) ==
    \E i, j \in 1..Len(list) : i # j /\ list[i].network = list[j].network

\* match: the index is a stable sort, longest prefix first, and the first
\* entry of it that contains the address is the answer.
Precedes(list, i, j) ==
    \/ list[i].network.len > list[j].network.len
    \/ list[i].network.len = list[j].network.len /\ i <= j

Rows(list) == 1..Len(list)

NoRow == 0

Match(list, address) ==
    LET holding == {i \in Rows(list) : Holds(list[i].network, address)}
    IN  IF holding = {}
        THEN NoRow
        ELSE CHOOSE i \in holding : \A j \in holding : Precedes(list, i, j)

\* The IPv4 address in two consecutive hextets of an IPv6 address: what a shift
\* and a 32-bit mask leave.
Payload(address, hextet) ==
    [version |-> 4,
     bits |-> [i \in 1..Width(4) |-> address.bits[hextet * HextetBits + i]]]

Inverted(address) ==
    [version |-> 4, bits |-> [i \in 1..Width(4) |-> 1 - address.bits[i]]]

\* Fault: the Teredo client is read as it is stored, bits inverted.
FaultTeredoClient(address, network) ==
    CASE network \in {V4MAPPED, V4COMPAT, NAT64} -> <<Payload(address, 6)>>
      [] network = SIXTOFOUR -> <<Payload(address, 1)>>
      [] network = TEREDO -> <<Payload(address, 2), Payload(address, 6)>>
      [] OTHER -> << >>

EmbeddedV4(address, network) ==
    CASE network \in {V4MAPPED, V4COMPAT, NAT64} -> <<Payload(address, 6)>>
      [] network = SIXTOFOUR -> <<Payload(address, 1)>>
      [] network = TEREDO -> <<Payload(address, 2), Inverted(Payload(address, 6))>>
      [] OTHER -> << >>

\* What Verdict says: whether to refuse, and the row that decided it.
Verdict(blocked, row) == [blocked |-> blocked, row |-> row]

\* Fault: a refusal that does not carry the row behind it.
FaultRowlessRefusal(list, address) ==
    LET row == Match(list, address)
    IN  Verdict(row # NoRow /\ list[row].reach # "permitted", NoRow)

\* _classify on an IPv4 address, at the top or one hop down.  A translated row
\* there has nothing to decode, so it refuses; that is why the recursion never
\* gets to _MAX_TRANSLATION_DEPTH and is unrolled here.
ClassifyV4(list, address) ==
    LET row == Match(list, address)
    IN  Verdict(row # NoRow /\ list[row].reach # "permitted", row)

\* _classify on an IPv6 address whose row is translated: the first embedded
\* address the table refuses decides, and nothing to decode refuses.
ClassifyInner(list, row, inner) ==
    LET refused == {i \in 1..Len(inner) : ClassifyV4(list, inner[i]).blocked}
        first == CHOOSE i \in refused : \A j \in refused : i <= j
    IN  CASE inner = << >> -> Verdict(TRUE, row)
          [] inner # << >> /\ refused # {} -> ClassifyV4(list, inner[first])
          [] OTHER -> Verdict(FALSE, row)

Classify(list, address) ==
    LET row == Match(list, address)
    IN  IF address.version = 6 /\ row # NoRow /\ list[row].reach = "translated"
        THEN ClassifyInner(list, row, EmbeddedV4(address, list[row].network))
        ELSE ClassifyV4(list, address)

-----------------------------------------------------------------------------
(* The policy.                                                             *)

\* _deciding_block: the most specific block containing all of a network.
DecidingBlock(list, network) ==
    LET containing == {i \in Rows(list) : WhollyInside(network, list[i].network)}
    IN  IF containing = {}
        THEN NoRow
        ELSE CHOOSE i \in containing :
               \A j \in containing : list[i].network.len >= list[j].network.len

\* Fault: only an entry equal to a wrapper is refused, not one inside it.
FaultExactPrefixOnly(list, networks) ==
    \E n \in networks : \E i \in Rows(list) :
        list[i].network = n /\ list[i].reach = "translated"

AllowsATranslationPrefix(list, networks) ==
    \E n \in networks :
        LET row == DecidingBlock(list, n)
        IN  row # NoRow /\ list[row].reach = "translated"

\* check_address: an explicit allow beats the table.
CheckAddress(list, networks, address) ==
    IF \E n \in networks : Holds(n, address)
    THEN Verdict(FALSE, NoRow)
    ELSE Classify(list, address)

-----------------------------------------------------------------------------
(* A caller configures, then asks.                                         *)

Init ==
    /\ stage = "new"
    /\ blocks = << >>
    /\ allowed = {}
    /\ answers = {}

\* Fault: duplicated networks are accepted.
FaultDuplicatesAccepted(list) ==
    /\ stage = "new"
    /\ stage' = "table"
    /\ blocks' = list
    /\ UNCHANGED <<allowed, answers>>

\* AddressTable(list): accepted unless two rows name one network.
BuildTable(list) ==
    /\ stage = "new"
    /\ ~DuplicateNetworks(list)
    /\ stage' = "table"
    /\ blocks' = list
    /\ UNCHANGED <<allowed, answers>>

\* Policy(denied_networks=blocks, allowed_networks=networks).
BuildPolicy(networks) ==
    /\ stage = "table"
    /\ ~AllowsATranslationPrefix(blocks, networks)
    /\ stage' = "policy"
    /\ allowed' = networks
    /\ UNCHANGED <<blocks, answers>>

\* policy.check_address(address); nothing of the table or the policy changes.
Ask(address) ==
    /\ stage = "policy"
    /\ answers' = {[asked |-> address, said |-> CheckAddress(blocks, allowed, address)]}
    /\ UNCHANGED <<stage, blocks, allowed>>

Next ==
    \/ \E list \in BlockLists : BuildTable(list)
    \/ \E networks \in AllowLists : BuildPolicy(networks)
    \/ \E address \in Address : Ask(address)

Spec == Init /\ [][Next]_vars

-----------------------------------------------------------------------------
(* Properties.                                                             *)

\* The variables hold what the constructors and check_address produce, and a
\* refusal always names the row that decided it (Verdict.reason relies on it).
TypeOK ==
    /\ stage \in {"new", "table", "policy"}
    /\ blocks \in Seq(Block)
    /\ allowed \in SUBSET Network
    /\ \A v \in answers :
          /\ v \in [asked : Address, said : [blocked : BOOLEAN, row : 0..Len(blocks)]]
          /\ v.said.blocked => v.said.row # NoRow

\* The order of the block tuple means nothing: of the rows of an accepted table
\* that hold an address, one has a longer prefix than every other, so the stable
\* sort never has a tie to break.  Lookup relies on the duplicate check for it.
LookupIsUnambiguous ==
    \A v \in answers : \A i, j \in Rows(blocks) :
        /\ Holds(blocks[i].network, v.asked)
        /\ Holds(blocks[j].network, v.asked)
        /\ blocks[i].network.len = blocks[j].network.len
        => i = j

\* Where each wrapper puts the IPv4 address d in an IPv6 address, as the RFC of
\* the wrapper builds it: at the end for the mapped, compatible and NAT64 forms,
\* after the prefix for 6to4, and for Teredo the server after the prefix and the
\* client at the end with every bit inverted.
Carries(network, address, d) ==
    LET At(hextet) == \A i \in 1..Width(4) :
                         address.bits[hextet * HextetBits + i] = d.bits[i]
        InvertedAt(hextet) == \A i \in 1..Width(4) :
                         address.bits[hextet * HextetBits + i] # d.bits[i]
    IN  \/ network \in {V4MAPPED, V4COMPAT, NAT64} /\ At(6)
        \/ network = SIXTOFOUR /\ At(1)
        \/ network = TEREDO /\ (At(2) \/ InvertedAt(6))

\* A wrapper does not launder a destination: when the table lets an IPv6 address
\* through and a translated row is what matched it, no IPv4 address it carries
\* is one the table would refuse on its own, and there is at least one to judge.
WrapperHidesNothing ==
    \A v \in answers :
        LET row == Match(blocks, v.asked)
        IN  /\ ~v.said.blocked
            /\ ~\E n \in allowed : Holds(n, v.asked)
            /\ row # NoRow /\ blocks[row].reach = "translated"
            => /\ \E d \in AddressOf(4) : Carries(blocks[row].network, v.asked, d)
               /\ \A d \in AddressOf(4) :
                     Carries(blocks[row].network, v.asked, d)
                         => ~ClassifyV4(blocks, d).blocked

\* No accepted policy permits an undecoded wrapper address through an allow entry
\* unless that entry is strictly wider than the wrapper: the whole-network
\* question _deciding_block asks at construction is enough for every single
\* address check_address is asked about later.
AllowNeverSkipsDecoding ==
    \A v \in answers : \A n \in allowed :
        LET row == Match(blocks, v.asked)
        IN  /\ Holds(n, v.asked)
            /\ row # NoRow /\ blocks[row].reach = "translated"
            => /\ WhollyInside(blocks[row].network, n)
               /\ n # blocks[row].network
=============================================================================
